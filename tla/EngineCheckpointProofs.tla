----------------------- MODULE EngineCheckpointProofs -----------------------
(***************************************************************************)
(* The checkpoints of EngineCheckpoint: a save that returned stays on the  *)
(* disk, and all ranks load one save.                                      *)
(*                                                                         *)
(* Ranks only meet in collectives, which the code does not name, so the    *)
(* proof counts them: between two steps of training a rank joins all the   *)
(* collectives of one save or none, and "base" is what the ranks had       *)
(* joined when the step was over.  A rank that died keeps its count, and   *)
(* what it has written is known from the count alone.                      *)
(***************************************************************************)
EXTENDS EngineCheckpoint, TLAPS

(* The collectives of one save: two before the files, one for each turn of
   _create_zero_checkpoint_files, one at the end. *)
PerSave == NumRanks + 3

Places == {"load", "loadZero", "train", "enter", "validate", "model", "create", "created",
           "zero", "latest", "publish", "leave", "left", "dead", "raised"}

TypeOK ==
    /\ life \in Nat /\ deaths \in 0 .. MaxDeaths
    /\ pc \in [Ranks -> Places]
    /\ turn \in [Ranks -> 0 .. NumRanks]
    /\ joined \in [Ranks -> Nat]
    /\ steps \in [Ranks -> 0 .. MaxSteps]
    /\ savedStep \in [Ranks -> 0 .. MaxSteps]
    /\ weights \in [Ranks -> States \cup {Fresh}]
    /\ optimizer \in [Ranks -> States \cup {Fresh, FromWeights}]
    /\ modelFile \in [Tags -> States \cup {Missing, Partial}]
    /\ zeroFile \in [Tags -> [Ranks -> States \cup {Missing, Partial}]]
    /\ latest \in Tags \cup {NoTag, EmptyTag}
    /\ begun \in SUBSET States
    /\ returned \in SUBSET [tag : Tags, state : States]

(* Every life but the present one has ended with a death of its own. *)
DeathsOfLives ==
    /\ life <= deaths
    /\ (\E r \in Ranks : pc[r] = "dead") => life < deaths

(* A whole file is of the step its tag names, and of a save that was begun. *)
OfTag(f, t) == Present(f) => f \in begun /\ f.step = t
FilesOfTheirTag ==
    \A t \in Tags :
        /\ OfTag(modelFile[t], t)
        /\ \A r \in Ranks : OfTag(zeroFile[t][r], t)

(* "latest" never goes back behind a save that returned. *)
LatestIsNewest == latest # EmptyTag => \A c \in returned : c.tag <= latest

SavedBefore == \A r \in Ranks : savedStep[r] <= steps[r]

Disk ==
    /\ FilesOfTheirTag /\ LatestIsNewest /\ SavedBefore
    /\ \A c \in returned : c.state.step = c.tag
    /\ ReturnedSavesAreOnDisk

(* After a start: what a rank that has come back from load_checkpoint has,
   which the disk alone decides. *)
Loaded(r) ==
    /\ latest # EmptyTag
    /\ steps[r] = latest /\ savedStep[r] = latest
    /\ latest = NoTag => weights[r] = Fresh /\ optimizer[r] = Fresh
    /\ latest # NoTag =>
          /\ Present(modelFile[latest]) /\ weights[r] = modelFile[latest]
          /\ IF AllAreThere(latest, r)
             THEN Present(zeroFile[latest][r]) /\ optimizer[r] = zeroFile[latest][r]
             ELSE optimizer[r] = FromWeights

Loading ==
    \A r \in Ranks :
        /\ joined[r] = 0
        /\ pc[r] \in {"load", "loadZero", "train", "raised", "dead"}
        /\ pc[r] = "load" => /\ steps[r] = 0 /\ savedStep[r] = 0
                             /\ weights[r] = Fresh /\ optimizer[r] = Fresh
        /\ pc[r] = "loadZero" => /\ latest \in Tags /\ steps[r] = latest
                                 /\ Present(modelFile[latest]) /\ weights[r] = modelFile[latest]
        /\ pc[r] = "train" => Loaded(r)

Lives(r) == pc[r] # "dead"

(* All ranks, the dead ones too, have done t steps, the last of them in
   this life, and nothing newer was saved. *)
AtStep(t) ==
    /\ \A r \in Ranks : steps[r] = t /\ pc[r] \notin {"load", "loadZero", "raised"}
    /\ \A c \in returned : c.tag <= t
    /\ \A r \in Ranks : weights[r] = [life |-> life, step |-> t] /\ optimizer[r] = weights[r]

(* Nobody is in a save, and nobody has to save. *)
Idle(t) ==
    /\ AtStep(t)
    /\ \A r, q \in Ranks : joined[r] = joined[q]
    /\ \A r \in Ranks : pc[r] \in {"train", "dead"} /\ ~MustSave(r)

(* The collectives of this save that a rank has joined when it is
   somewhere in it. *)
Counted(r, base) ==
    /\ pc[r] = "train" =>
           joined[r] = IF savedStep[r] = steps[r] THEN base + PerSave ELSE base
    /\ pc[r] = "enter" => joined[r] = base + 1
    /\ pc[r] \in {"validate", "model"} => joined[r] = base + 2
    /\ pc[r] = "model" => turn[r] = 0
    /\ pc[r] = "create" => joined[r] = base + 2 + turn[r]
    /\ pc[r] = "created" => joined[r] = base + 3 + turn[r] /\ turn[r] < NumRanks
    /\ pc[r] \in {"zero", "latest", "publish", "leave"} => joined[r] = base + PerSave - 1
    /\ pc[r] = "left" => joined[r] = base + PerSave

(* What has been written by a rank that has come this far. *)
Written(r, t) ==
    LET saved == [life |-> life, step |-> t]
    IN  /\ pc[r] \in {"latest", "publish", "leave"} => zeroFile[t][r] = saved
        /\ pc[r] \in {"latest", "publish"} => r = 0
        /\ pc[r] = "model" => r = 0
        /\ pc[r] \in {"model", "zero"} => saved \in begun
        /\ pc[0] \in {"create", "created", "zero", "latest", "publish", "leave"} =>
               modelFile[t] = saved
        /\ pc[0] = "leave" => latest = t

SaveIsWhole(r, t) ==
    LET saved == [life |-> life, step |-> t]
    IN  zeroFile[t][r] = saved /\ (r = 0 => modelFile[t] = saved /\ latest = t)

(* The save of step t, which began when the ranks had joined base
   collectives. *)
Saving(t, base) ==
    /\ t \in SaveAt
    /\ AtStep(t)
    /\ \A r \in Ranks :
          /\ joined[r] \in base .. base + PerSave
          /\ Counted(r, base)
          /\ Lives(r) => Written(r, t)
          /\ joined[r] = base + PerSave => SaveIsWhole(r, t)
          /\ joined[r] < base + PerSave => \A c \in returned : c.tag < t

IInv ==
    /\ TypeOK /\ DeathsOfLives /\ Disk
    /\ \/ Loading
       \/ \E t \in 0 .. MaxSteps : Idle(t)
       \/ \E t \in 0 .. MaxSteps, base \in Nat : Saving(t, base)

----------------------------------------------------------------------------
(* Constants of the proofs. *)
LEMMA Values ==
    /\ NumRanks \in Nat /\ NumRanks > 0 /\ MaxSteps \in Nat /\ MaxDeaths \in Nat
    /\ SaveAt \subseteq Tags
    /\ \A t \in Tags : t \in Nat /\ t > 0 /\ t <= MaxSteps
    /\ 0 \in Ranks /\ PerSave = NumRanks + 3
    /\ NoTag \notin Tags /\ EmptyTag \notin Tags /\ NoTag # EmptyTag
    /\ Missing \notin States /\ Partial \notin States /\ Missing # Partial
    /\ Fresh \notin States /\ FromWeights \notin States /\ Fresh # FromWeights
    /\ \A l \in Nat, s \in 0 .. MaxSteps : l <= MaxDeaths => [life |-> l, step |-> s] \in States
    /\ \A s \in States : s.step \in 0 .. MaxSteps
  BY SizesAssumption DEF Tags, Ranks, PerSave, NoTag, EmptyTag, Missing, Partial, States,
     Fresh, FromWeights

LEMMA Initially == Init => IInv
  BY Values DEF Init, IInv, TypeOK, DeathsOfLives, Disk, FilesOfTheirTag, OfTag, LatestIsNewest,
     SavedBefore, ReturnedSavesAreOnDisk, Present, Loading, Places, Ranks, Tags

(* A death leaves everything but the place of the rank. *)
LEMMA DeathKeeps ==
  ASSUME IInv, NEW r \in Ranks, Die(r)
  PROVE  IInv'
<1>1. TypeOK' /\ DeathsOfLives'
  BY Values DEF IInv, Die, TypeOK, DeathsOfLives, Places, Gone, disk
<1>2. Disk'
  BY DEF IInv, Die, Disk, disk, FilesOfTheirTag, OfTag, LatestIsNewest, SavedBefore,
     ReturnedSavesAreOnDisk, Present
<1>3. CASE Loading
  <2>1. Loading'
    BY <1>3, Values DEF IInv, TypeOK, Die, Loading, Loaded, disk, AllAreThere
  <2>2. QED  BY <1>1, <1>2, <2>1 DEF IInv
<1>4. ASSUME NEW t \in 0 .. MaxSteps, Idle(t)
      PROVE  Idle(t)'
  BY <1>4, Values DEF IInv, TypeOK, Die, Idle, AtStep, Lives, MustSave, disk
<1>5. ASSUME NEW t \in 0 .. MaxSteps, NEW base \in Nat, Saving(t, base)
      PROVE  Saving(t, base)'
  <2>1. AtStep(t)'
    BY <1>5, Values DEF IInv, TypeOK, Die, Saving, AtStep, Lives, disk
  <2>2. ASSUME NEW q \in Ranks
        PROVE  Counted(q, base)'
    BY <1>5, Values DEF IInv, TypeOK, Die, Saving, Counted
  <2>3. ASSUME NEW q \in Ranks, Lives(q)'
        PROVE  Written(q, t)'
    BY <1>5, <2>3, Values DEF IInv, TypeOK, Die, Saving, Written, Lives, disk
  <2>4. QED
    BY <1>5, <2>1, <2>2, <2>3, Values DEF IInv, TypeOK, Die, Saving, SaveIsWhole, disk
<1>6. QED  BY <1>1, <1>2, <1>3, <1>4, <1>5 DEF IInv

(* All ranks are started again, with the disk as it is. *)
LEMMA RestartKeeps ==
  ASSUME IInv, Restart
  PROVE  IInv'
<1>1. TypeOK' /\ DeathsOfLives'
  BY Values DEF IInv, Restart, TypeOK, DeathsOfLives, Places, disk
<1>2. Disk'
  BY Values DEF IInv, Restart, Disk, disk, FilesOfTheirTag, OfTag, LatestIsNewest, SavedBefore,
     ReturnedSavesAreOnDisk, Present
<1>3. Loading'  BY DEF Restart, Loading
<1>4. QED  BY <1>1, <1>2, <1>3 DEF IInv

(* Only a death makes a rank dead. *)
LEMMA NoDeath ==
  ASSUME IInv, NEW r \in Ranks, UNCHANGED <<life, deaths>>,
         NEW to \in Places, pc' = [pc EXCEPT ![r] = to], to # "dead"
  PROVE  DeathsOfLives'
  BY DEF IInv, TypeOK, DeathsOfLives

LEMMA LoadKeeps ==
  ASSUME IInv, Loading, NEW r \in Ranks, RankStep(r)
  PROVE  IInv'
<1>1. CASE NothingToLoad(r)
  <2>1. TypeOK' /\ DeathsOfLives' /\ Disk'
    BY <1>1, NoDeath, Values DEF IInv, NothingToLoad, Goto, TypeOK, DeathsOfLives, disk, Places,
       Disk, FilesOfTheirTag, OfTag, LatestIsNewest, SavedBefore, ReturnedSavesAreOnDisk, Present
  <2>2. weights[r] = Fresh /\ optimizer[r] = Fresh
    BY <1>1, Values DEF Loading, NothingToLoad, Goto
  <2>3. Loading'
    BY <1>1, <2>2, Values
       DEF IInv, TypeOK, NothingToLoad, Goto, Loading, Loaded, disk, AllAreThere, NoTag
  <2>4. QED  BY <2>1, <2>3 DEF IInv
<1>2. CASE LoadModel(r)
  <2>1. pc[r] = "load" /\ latest \in Tags \cup {EmptyTag} /\ steps[r] = 0 /\ savedStep[r] = 0
    BY <1>2 DEF LoadModel, IInv, TypeOK, Loading
  <2>2. CASE latest \in Tags /\ Present(modelFile[latest])
    <3>1. modelFile[latest].step = latest
      BY <2>2 DEF IInv, Disk, FilesOfTheirTag, OfTag
    <3>2. /\ pc' = [pc EXCEPT ![r] = "loadZero"]
          /\ steps' = [steps EXCEPT ![r] = latest]
          /\ weights' = [weights EXCEPT ![r] = modelFile[latest]]
      BY <1>2, <2>2, <3>1, Values DEF LoadModel
    <3>3. TypeOK' /\ DeathsOfLives'
      <4>1. latest \in 0 .. MaxSteps  BY <2>2, Values
      <4>2. TypeOK'
        BY <1>2, <2>2, <3>2, <4>1 DEF IInv, LoadModel, TypeOK, disk, Places, Present
      <4>3. QED  BY <1>2, <3>2, <4>2, NoDeath DEF LoadModel, Places
    <3>4. Disk'
      BY <1>2, <2>1, <2>2, <3>2, Values DEF IInv, TypeOK, LoadModel, Disk, disk, FilesOfTheirTag, OfTag,
         LatestIsNewest, SavedBefore, ReturnedSavesAreOnDisk, Present
    <3>5. Loading'
      BY <1>2, <2>1, <2>2, <3>2, Values DEF IInv, TypeOK, LoadModel, Loading, Loaded, disk, AllAreThere,
         Present
    <3>6. QED  BY <3>3, <3>4, <3>5 DEF IInv
  <2>3. CASE ~(latest \in Tags /\ Present(modelFile[latest]))
    <3>1. pc' = [pc EXCEPT ![r] = "raised"] /\ UNCHANGED <<steps, weights>>
      BY <1>2, <2>1, <2>3, Values DEF LoadModel
    <3>2. TypeOK' /\ DeathsOfLives'
      BY <1>2, <3>1, NoDeath DEF IInv, LoadModel, TypeOK, DeathsOfLives, disk, Places
    <3>3. Disk'
      BY <1>2, <3>1 DEF IInv, LoadModel, Disk, disk, FilesOfTheirTag, OfTag,
         LatestIsNewest, SavedBefore, ReturnedSavesAreOnDisk, Present
    <3>4. Loading'
      BY <1>2, <3>1 DEF IInv, TypeOK, LoadModel, Loading, Loaded, disk, AllAreThere
    <3>5. QED  BY <3>2, <3>3, <3>4 DEF IInv
  <2>4. QED  BY <2>2, <2>3
<1>3. CASE LoadZero(r)
  <2>1. pc[r] = "loadZero" /\ latest \in Tags /\ steps[r] = latest
    BY <1>3 DEF LoadZero, Loading
  <2> DEFINE own == zeroFile[latest][r]
  <2>3. Disk'
    BY <1>3, <2>1, Values DEF IInv, TypeOK, LoadZero, Disk, disk, FilesOfTheirTag, OfTag,
       LatestIsNewest, SavedBefore, ReturnedSavesAreOnDisk, Present
  <2>4. CASE AllAreThere(latest, r) /\ Present(own)
    <3>1. own.step = latest
      BY <2>1, <2>4 DEF IInv, Disk, FilesOfTheirTag, OfTag
    <3>2. /\ pc' = [pc EXCEPT ![r] = "train"]
          /\ optimizer' = [optimizer EXCEPT ![r] = own]
      BY <1>3, <2>4 DEF LoadZero, Goto
    <3>3. TypeOK' /\ DeathsOfLives'
      BY <1>3, <2>1, <2>4, <3>2, NoDeath, Values DEF IInv, LoadZero, TypeOK, disk, Places, Present
    <3>4. Loading'
      BY <1>3, <2>1, <2>4, <3>1, <3>2, Values DEF IInv, TypeOK, LoadZero, Loading, Loaded, disk,
         AllAreThere, Present
    <3>5. QED  BY <2>3, <3>3, <3>4 DEF IInv
  <2>5. CASE ~AllAreThere(latest, r)
    <3>1. /\ pc' = [pc EXCEPT ![r] = "train"]
          /\ optimizer' = [optimizer EXCEPT ![r] = FromWeights]
      BY <1>3, <2>5 DEF LoadZero, Goto
    <3>2. TypeOK' /\ DeathsOfLives'
      BY <1>3, <2>1, <3>1, NoDeath, Values DEF IInv, LoadZero, TypeOK, disk, Places
    <3>3. Loading'
      BY <1>3, <2>1, <2>5, <3>1, Values DEF IInv, TypeOK, LoadZero, Loading, Loaded, disk,
         AllAreThere
    <3>4. QED  BY <2>3, <3>2, <3>3 DEF IInv
  <2>6. CASE AllAreThere(latest, r) /\ ~Present(own)
    <3>1. pc' = [pc EXCEPT ![r] = "raised"] /\ UNCHANGED optimizer
      BY <1>3, <2>6 DEF LoadZero, Goto
    <3>2. TypeOK' /\ DeathsOfLives'
      BY <1>3, <2>1, <3>1, NoDeath, Values DEF IInv, LoadZero, TypeOK, disk, Places
    <3>3. Loading'
      BY <1>3, <2>1, <3>1, Values DEF IInv, TypeOK, LoadZero, Loading, Loaded, disk, AllAreThere
    <3>4. QED  BY <2>3, <3>2, <3>3 DEF IInv
  <2>7. QED  BY <2>4, <2>5, <2>6
<1>4. ~SaveEnter(r)  BY Values DEF Loading, Loaded, SaveEnter, Goto, MustSave
<1>5. ~(\/ SaveValidate(r) \/ SaveModelBegins(r) \/ SaveModelEnds(r)
        \/ CreateJoin(r) \/ CreateNext(r) \/ SaveZeroBegins(r) \/ SaveZeroEnds(r)
        \/ LatestBegins(r) \/ LatestEnds(r) \/ LeaveJoin(r) \/ SaveReturns(r))
  BY DEF Loading, Goto, SaveValidate, SaveModelBegins, SaveModelEnds, CreateJoin, CreateNext,
     SaveZeroBegins, SaveZeroEnds, LatestBegins, LatestEnds, LeaveJoin, SaveReturns
<1>6. QED  BY <1>1, <1>2, <1>3, <1>4, <1>5 DEF RankStep

(* Ranks that have nothing to save do nothing but train. *)
LEMMA IdleRanksRest ==
  ASSUME NEW t \in 0 .. MaxSteps, Idle(t), NEW r \in Ranks
  PROVE  ~RankStep(r)
  BY DEF Idle, RankStep, Goto, NothingToLoad, LoadModel, LoadZero, SaveEnter, SaveValidate,
     SaveModelBegins, SaveModelEnds, CreateJoin, CreateNext, SaveZeroBegins, SaveZeroEnds,
     LatestBegins, LatestEnds, LeaveJoin, SaveReturns

(* A step of training starts the next save, or finds nothing to save. *)
LEMMA TrainKeeps ==
  ASSUME IInv, TrainStep
  PROVE  IInv'
<1> DEFINE Together(t) == /\ \A r \in Ranks : steps[r] = t
                          /\ \A c \in returned : c.tag <= t
                          /\ \A r, q \in Ranks : joined[r] = joined[q]
<1>1. PICK t \in 0 .. MaxSteps : Together(t)
  <2>1. CASE Loading
    <3>1. \A r \in Ranks : steps[r] = latest /\ latest # EmptyTag
      BY <2>1 DEF TrainStep, Loading, Loaded
    <3>2. latest \in 0 .. MaxSteps  BY <3>1, Values DEF IInv, TypeOK
    <3>3. Together(latest)
      BY <2>1, <3>1, Values DEF Loading, IInv, Disk, LatestIsNewest
    <3>4. QED  BY <3>2, <3>3
  <2>2. ASSUME NEW t \in 0 .. MaxSteps, Idle(t)
        PROVE  Together(t)
    BY <2>2 DEF Idle, AtStep
  <2>3. ASSUME NEW t \in 0 .. MaxSteps, NEW base \in Nat, Saving(t, base)
        PROVE  Together(t)
    <3>1. \A r \in Ranks : savedStep[r] = steps[r]
      BY <2>3 DEF TrainStep, Saving, AtStep, MustSave
    <3>2. \A r \in Ranks : joined[r] = base + PerSave
      BY <2>3, <3>1 DEF TrainStep, Saving, Counted
    <3>3. QED  BY <2>3, <3>2 DEF Saving, AtStep
  <2>4. QED  BY <2>1, <2>2, <2>3 DEF IInv
<1>2. /\ t + 1 \in 0 .. MaxSteps
      /\ \A r \in Ranks : pc[r] = "train" /\ savedStep[r] <= t
      /\ steps' = [r \in Ranks |-> t + 1]
      /\ weights' = [r \in Ranks |-> [life |-> life, step |-> t + 1]]
      /\ optimizer' = weights'
      /\ UNCHANGED <<life, pc, turn, joined, savedStep, disk, returned, deaths>>
  <2>1. 0 \in Ranks /\ steps[0] < MaxSteps  BY Values DEF TrainStep
  <2>2. t + 1 \in 0 .. MaxSteps  BY <1>1, <2>1, Values
  <2>3. QED  BY <1>1, <2>2 DEF TrainStep, IInv, Disk, SavedBefore
<1>3. life <= MaxDeaths  BY Values DEF IInv, TypeOK, DeathsOfLives
<1>4. TypeOK' /\ DeathsOfLives'
  BY <1>2, <1>3, Values DEF IInv, TypeOK, DeathsOfLives, disk
<1>5. Disk'
  BY <1>1, <1>2, Values DEF IInv, TypeOK, Disk, disk, FilesOfTheirTag, OfTag, LatestIsNewest, SavedBefore,
     ReturnedSavesAreOnDisk, Present
<1>6. AtStep(t + 1)'
  BY <1>1, <1>2, <1>3, Values DEF IInv, TypeOK, AtStep, disk
<1>7. CASE t + 1 \notin SaveAt
  <2>1. Idle(t + 1)'  BY <1>1, <1>2, <1>6, <1>7 DEF Idle, MustSave
  <2>2. QED  BY <1>2, <1>4, <1>5, <2>1 DEF IInv
<1>8. CASE t + 1 \in SaveAt
  <2>1. joined[0] \in Nat /\ \A r \in Ranks : joined[r] = joined[0]
    BY <1>1, Values DEF IInv, TypeOK
  <2>2. Saving(t + 1, joined[0])'
    BY <1>1, <1>2, <1>6, <1>8, <2>1, Values
       DEF IInv, TypeOK, Saving, Counted, Written, SaveIsWhole, disk
  <2>3. QED  BY <1>2, <1>4, <1>5, <2>1, <2>2 DEF IInv
<1>9. QED  BY <1>7, <1>8


(* What all steps of a save have in common: the rank is at the step that
   is saved, and moves on. *)
LEMMA SaverMoves ==
  ASSUME IInv, NEW t \in 0 .. MaxSteps, NEW base \in Nat, Saving(t, base), NEW r \in Ranks,
         Lives(r), NEW to \in Places \ {"load", "loadZero", "raised", "dead"},
         pc' = [pc EXCEPT ![r] = to],
         UNCHANGED <<life, deaths, steps, weights, optimizer>>,
         \A c \in returned' : c.tag <= t
  PROVE  DeathsOfLives' /\ AtStep(t)'
  BY DEF IInv, TypeOK, DeathsOfLives, Saving, AtStep, Lives

LEMMA SavedState ==
  ASSUME IInv, NEW t \in 0 .. MaxSteps, NEW base \in Nat, Saving(t, base), NEW r \in Ranks
  PROVE  /\ steps[r] = t /\ Tag(r) = t /\ t \in Tags /\ t \in SaveAt
         /\ StateOf(r) = [life |-> life, step |-> t] /\ StateOf(r) \in States
         /\ \A c \in returned : c.tag \in Tags /\ c.tag <= t
         /\ joined[r] \in base .. base + PerSave
         /\ Counted(r, base)
  BY Values DEF IInv, TypeOK, DeathsOfLives, Saving, AtStep, Tag, TagOf, StateOf

(* A step that joins or leaves a collective and touches no file. *)
LEMMA JoinKeeps ==
  ASSUME IInv, NEW t \in 0 .. MaxSteps, NEW base \in Nat, Saving(t, base), NEW r \in Ranks,
         SaveEnter(r) \/ SaveValidate(r) \/ CreateJoin(r) \/ CreateNext(r) \/ LeaveJoin(r)
  PROVE  IInv'
<1>1. PICK to \in {"enter", "validate", "create", "created", "left"} :
          pc' = [pc EXCEPT ![r] = to]
  BY DEF SaveEnter, SaveValidate, CreateJoin, CreateNext, LeaveJoin, Goto
<1>2. UNCHANGED <<life, deaths, steps, weights, optimizer, savedStep, disk, returned>>
  BY DEF SaveEnter, SaveValidate, CreateJoin, CreateNext, LeaveJoin
<1>3. pc[r] \in {"train", "enter", "create", "created", "leave"}
  BY DEF SaveEnter, SaveValidate, CreateJoin, CreateNext, LeaveJoin, Goto
<1>4. /\ turn' \in [Ranks -> 0 .. NumRanks] /\ joined' \in [Ranks -> Nat]
      /\ \A q \in Ranks \ {r} : turn'[q] = turn[q] /\ joined'[q] = joined[q]
      /\ joined'[r] \in {joined[r], joined[r] + 1}
  <2>1. CASE CreateNext(r)
    <3>1. turn[r] \in 0 .. NumRanks /\ turn[r] < NumRanks
      BY <2>1, SavedState DEF CreateNext, Goto, IInv, TypeOK, Counted
    <3>2. turn[r] + 1 \in 0 .. NumRanks  BY <3>1, Values
    <3>3. QED  BY <2>1, <3>2 DEF CreateNext, IInv, TypeOK
  <2>2. CASE ~CreateNext(r)
    <3>1. UNCHANGED turn /\ Join(r)
      BY <2>2 DEF SaveEnter, SaveValidate, CreateJoin, LeaveJoin
    <3>2. QED  BY <3>1 DEF Join, IInv, TypeOK
  <2>3. QED  BY <2>1, <2>2
<1>5. TypeOK'  BY <1>1, <1>2, <1>4 DEF IInv, TypeOK, disk, Places
<1>6. Disk'
  BY <1>2 DEF IInv, Disk, disk, FilesOfTheirTag, OfTag, LatestIsNewest, SavedBefore,
     ReturnedSavesAreOnDisk, Present
<1>7. DeathsOfLives' /\ AtStep(t)'
  BY <1>1, <1>2, <1>3, SaverMoves, SavedState DEF Lives, Places
<1>8. Counted(r, base)' /\ joined'[r] \in base .. base + PerSave
  <2>1. CASE SaveEnter(r)
    <3>1. /\ pc[r] = "train" /\ pc'[r] = "enter" /\ savedStep[r] # steps[r]
          /\ joined'[r] = joined[r] + 1
      BY <2>1 DEF SaveEnter, Goto, Join, IInv, TypeOK, MustSave
    <3>2. joined[r] = base  BY <3>1, SavedState DEF Counted
    <3>3. QED  BY <3>1, <3>2, Values DEF Counted
  <2>2. CASE SaveValidate(r)
    BY <2>2, SavedState, Values DEF SaveValidate, Goto, Join, IInv, TypeOK, Counted
  <2>3. CASE CreateJoin(r)
    BY <2>3, SavedState, Values DEF CreateJoin, Goto, Join, AnotherTurn, IInv, TypeOK, Counted
  <2>4. CASE CreateNext(r)
    <3>1. /\ pc[r] = "created" /\ pc'[r] = "create" /\ turn[r] \in Nat
          /\ turn'[r] = turn[r] + 1 /\ joined'[r] = joined[r]
      BY <2>4 DEF CreateNext, Goto, IInv, TypeOK
    <3>2. joined[r] = base + 3 + turn[r] /\ joined[r] \in base .. base + PerSave
      BY <3>1, SavedState DEF Counted
    <3>3. QED  BY <3>1, <3>2 DEF Counted
  <2>5. CASE LeaveJoin(r)
    BY <2>5, SavedState, Values DEF LeaveJoin, Goto, Join, IInv, TypeOK, Counted
  <2>6. QED  BY <2>1, <2>2, <2>3, <2>4, <2>5
<1>9. \A q \in Ranks : Counted(q, base)' /\ joined'[q] \in base .. base + PerSave
  BY <1>1, <1>2, <1>4, <1>8, SavedState DEF IInv, TypeOK, Counted
<1>10. ASSUME NEW q \in Ranks, Lives(q)'
       PROVE  Written(q, t)'
  <2>2. Lives(q) /\ Lives(r)  BY <1>1, <1>3, <1>10 DEF IInv, TypeOK, Lives
  <2>3. Written(q, t) /\ Written(r, t)  BY <2>2 DEF Saving
  <2>4. pc'[0] \in {"create", "created"} => pc[0] \in {"create", "created"}
    BY <1>1, Values DEF IInv, TypeOK, SaveEnter, SaveValidate, CreateJoin, CreateNext, LeaveJoin, Goto
  <2>5. QED  BY <1>1, <1>2, <2>3, <2>4, Values DEF IInv, TypeOK, Written, disk
<1>11. ASSUME NEW q \in Ranks, joined'[q] = base + PerSave
       PROVE  SaveIsWhole(q, t)'
  <2>1. joined[q] = base + PerSave => SaveIsWhole(q, t)  BY DEF Saving
  <2>2. CASE q = r /\ pc[r] = "leave"
    BY <1>2, <2>2, Values DEF Saving, Lives, Written, SaveIsWhole, disk
  <2>3. CASE q = r /\ pc[r] # "leave"
    <3>1. CreateNext(r) \/ pc'[r] \in {"enter", "validate", "created"}
      BY <2>3 DEF SaveEnter, SaveValidate, CreateJoin, LeaveJoin, Goto, IInv, TypeOK
    <3>2. pc'[r] \notin {"enter", "validate", "created"}
      <4>1. turn'[r] \in 0 .. NumRanks  BY <1>4
      <4>2. QED  BY <1>8, <1>11, <2>3, <4>1, Values DEF Counted
    <3>3. joined[q] = base + PerSave  BY <1>11, <2>3, <3>1, <3>2 DEF CreateNext
    <3>4. QED  BY <1>2, <2>1, <3>3 DEF SaveIsWhole, disk
  <2>4. QED  BY <1>2, <1>4, <1>11, <2>1, <2>2, <2>3 DEF SaveIsWhole, disk
<1>12. ASSUME NEW q \in Ranks, joined'[q] < base + PerSave
       PROVE  \A c \in returned' : c.tag < t
  <2>1. joined[q] \in Nat /\ joined'[q] \in {joined[q], joined[q] + 1}
    BY <1>4 DEF IInv, TypeOK
  <2>2. joined[q] < base + PerSave  BY <1>12, <2>1, Values
  <2>3. QED  BY <1>2, <2>2 DEF Saving
<1>13. Saving(t, base)'
  BY <1>7, <1>9, <1>10, <1>11, <1>12, SavedState DEF Saving
<1>14. QED  BY <1>5, <1>6, <1>7, <1>13 DEF IInv

(* A step that writes a file: it is the rank's own, of the tag that is
   saved, which no save has returned yet. *)
LEMMA WriteKeeps ==
  ASSUME IInv, NEW t \in 0 .. MaxSteps, NEW base \in Nat, Saving(t, base), NEW r \in Ranks,
         \/ SaveModelBegins(r) \/ SaveModelEnds(r) \/ SaveZeroBegins(r) \/ SaveZeroEnds(r)
         \/ LatestBegins(r) \/ LatestEnds(r)
  PROVE  IInv'
<1> DEFINE saved == [life |-> life, step |-> t]
<1>1. /\ pc[r] \in {"validate", "model", "create", "zero", "latest", "publish"}
      /\ UNCHANGED <<life, deaths, steps, weights, optimizer, savedStep, joined, returned>>
  BY DEF SaveModelBegins, SaveModelEnds, SaveZeroBegins, SaveZeroEnds, LatestBegins, LatestEnds, Goto
<1>2. PICK to \in {"model", "create", "zero", "latest", "publish", "leave"} :
          pc' = [pc EXCEPT ![r] = to]
  BY DEF SaveModelBegins, SaveModelEnds, SaveZeroBegins, SaveZeroEnds, LatestBegins, LatestEnds, Goto
<1>3. /\ Lives(r) /\ Written(r, t) /\ Tag(r) = t /\ StateOf(r) = saved /\ t \in Tags
      /\ saved \in States
  BY <1>1, SavedState DEF Lives, Saving
<1>4. joined[r] < base + PerSave
  BY <1>1, SavedState, Values DEF IInv, TypeOK, Counted, AnotherTurn, SaveZeroBegins,
     SaveModelBegins, SaveModelEnds, SaveZeroEnds, LatestBegins, LatestEnds, Goto
<1>5. \A c \in returned : c.tag < t /\ c.tag \in Tags
  BY <1>4, SavedState DEF Saving
<1> DEFINE Files == {Partial} \cup (begun \cap {saved})
<1>6. \/ modelFile' = modelFile
      \/ /\ r = 0
         /\ \E f \in Files : modelFile' = [modelFile EXCEPT ![t] = f]
  BY <1>3 DEF SaveModelBegins, SaveModelEnds, SaveZeroBegins, SaveZeroEnds, LatestBegins,
     LatestEnds, Goto, Written
<1>7. \/ zeroFile' = zeroFile
      \/ \E f \in Files : zeroFile' = [zeroFile EXCEPT ![t][r] = f]
  BY <1>3 DEF SaveModelBegins, SaveModelEnds, SaveZeroBegins, SaveZeroEnds, LatestBegins,
     LatestEnds, Goto, Written
<1>8. \/ latest' = latest
      \/ r = 0 /\ latest' \in {EmptyTag, t}
  BY <1>3 DEF SaveModelBegins, SaveModelEnds, SaveZeroBegins, SaveZeroEnds, LatestBegins,
     LatestEnds, Goto, Written
<1>8a. /\ begun' \in {begun, begun \cup {saved}}
       /\ pc'[r] \in {"model", "zero"} => saved \in begun'
  BY <1>3 DEF SaveModelBegins, SaveModelEnds, SaveZeroBegins, SaveZeroEnds, LatestBegins,
     LatestEnds, Goto, IInv, TypeOK
<1>9. /\ turn' \in [Ranks -> 0 .. NumRanks]
      /\ \A q \in Ranks \ {r} : turn'[q] = turn[q]
  <2>1. turn' = turn \/ turn' = [turn EXCEPT ![r] = 0]
    BY DEF SaveModelBegins, SaveModelEnds, SaveZeroBegins, SaveZeroEnds, LatestBegins, LatestEnds
  <2>2. 0 \in 0 .. NumRanks  BY Values
  <2>3. QED  BY <2>1, <2>2 DEF IInv, TypeOK
<1>10. TypeOK'
  <2>1. modelFile' \in [Tags -> States \cup {Missing, Partial}]
    BY <1>3, <1>6 DEF IInv, TypeOK
  <2>2. zeroFile' \in [Tags -> [Ranks -> States \cup {Missing, Partial}]]
    BY <1>3, <1>7 DEF IInv, TypeOK
  <2>3. latest' \in Tags \cup {NoTag, EmptyTag}  BY <1>3, <1>8 DEF IInv, TypeOK
  <2>4. QED
    BY <1>1, <1>2, <1>3, <1>9, <1>8a, <2>1, <2>2, <2>3 DEF IInv, TypeOK, Places
<1>11. Disk'
  <2>1. FilesOfTheirTag'
    <3>1. ASSUME NEW u \in Tags
          PROVE  OfTag(modelFile[u], u)'
      <4>1. CASE modelFile'[u] = modelFile[u]
        BY <1>8a, <4>1 DEF IInv, Disk, FilesOfTheirTag, OfTag, Present
      <4>2. CASE modelFile'[u] # modelFile[u]
        <5>1. u = t /\ modelFile'[u] \in Files
          BY <1>3, <1>6, <4>2 DEF IInv, TypeOK
        <5>2. QED  BY <1>8a, <5>1, Values DEF OfTag, Present
      <4>3. QED  BY <4>1, <4>2
    <3>2. ASSUME NEW u \in Tags, NEW q \in Ranks
          PROVE  OfTag(zeroFile[u][q], u)'
      <4>1. CASE zeroFile'[u][q] = zeroFile[u][q]
        BY <1>8a, <4>1 DEF IInv, Disk, FilesOfTheirTag, OfTag, Present
      <4>2. CASE zeroFile'[u][q] # zeroFile[u][q]
        <5>1. u = t /\ zeroFile'[u][q] \in Files
          BY <1>3, <1>7, <4>2 DEF IInv, TypeOK
        <5>2. QED  BY <1>8a, <5>1, Values DEF OfTag, Present
      <4>3. QED  BY <4>1, <4>2
    <3>3. QED  BY <3>1, <3>2 DEF FilesOfTheirTag
  <2>2. LatestIsNewest'
    BY <1>1, <1>5, <1>8, Values DEF IInv, Disk, LatestIsNewest
  <2>3. ReturnedSavesAreOnDisk'
    <3>1. ASSUME NEW c \in returned
          PROVE  /\ modelFile'[c.tag] = modelFile[c.tag]
                 /\ \A q \in Ranks : zeroFile'[c.tag][q] = zeroFile[c.tag][q]
      <4>1. c.tag # t /\ c.tag \in Tags  BY <1>5, Values
      <4>2. QED  BY <1>6, <1>7, <4>1 DEF IInv, TypeOK
    <3>2. QED  BY <1>1, <3>1 DEF IInv, Disk, ReturnedSavesAreOnDisk
  <2>4. QED  BY <1>1, <2>1, <2>2, <2>3 DEF IInv, Disk, SavedBefore
<1>12. DeathsOfLives' /\ AtStep(t)'
  <2>1. to \in Places \ {"load", "loadZero", "raised", "dead"}  BY DEF Places
  <2>2. \A c \in returned' : c.tag <= t  BY <1>1, SavedState
  <2>3. QED  BY <1>1, <1>2, <1>3, <2>1, <2>2, SaverMoves
<1>13. Counted(r, base)'
  <2>1. CASE SaveModelBegins(r)
    BY <2>1, SavedState, Values DEF SaveModelBegins, Goto, IInv, TypeOK, Counted
  <2>2. CASE SaveModelEnds(r)
    BY <1>1, <2>2, SavedState DEF SaveModelEnds, Goto, IInv, TypeOK, Counted
  <2>3. CASE SaveZeroBegins(r)
    <3>1. turn[r] = NumRanks /\ pc[r] = "create" /\ joined[r] = base + PerSave - 1
      <4>1. pc[r] = "create" /\ turn[r] \in 0 .. NumRanks /\ ~(turn[r] < NumRanks)
        BY <2>3 DEF SaveZeroBegins, AnotherTurn, Goto, IInv, TypeOK
      <4>2. joined[r] = base + 2 + turn[r]  BY <4>1, SavedState DEF Counted
      <4>3. QED  BY <4>1, <4>2, Values
    <3>2. QED
      BY <1>1, <2>3, <3>1 DEF SaveZeroBegins, Goto, IInv, TypeOK, Counted
  <2>4. CASE SaveZeroEnds(r) \/ LatestBegins(r) \/ LatestEnds(r)
    BY <1>1, <2>4, SavedState DEF SaveZeroEnds, LatestBegins, LatestEnds, Goto, IInv, TypeOK, Counted
  <2>5. QED  BY <2>1, <2>2, <2>3, <2>4
<1>14. \A q \in Ranks : Counted(q, base)' /\ joined'[q] \in base .. base + PerSave
  BY <1>1, <1>2, <1>9, <1>13, SavedState DEF IInv, TypeOK, Counted
<1>15. /\ pc'[r] \in {"latest", "publish", "leave"} => zeroFile'[t][r] = saved
       /\ pc'[r] \in {"latest", "publish", "model"} => r = 0
  <2>1. CASE SaveModelBegins(r)
    BY <2>1 DEF SaveModelBegins, Goto, IInv, TypeOK
  <2>2. CASE SaveModelEnds(r) \/ SaveZeroBegins(r)
    BY <2>2 DEF SaveModelEnds, SaveZeroBegins, Goto, IInv, TypeOK
  <2>3. CASE SaveZeroEnds(r)
    BY <1>3, <2>3 DEF SaveZeroEnds, Goto, IInv, TypeOK
  <2>4. CASE LatestBegins(r) \/ LatestEnds(r)
    BY <1>3, <2>4 DEF LatestBegins, LatestEnds, Goto, IInv, TypeOK, Written
  <2>5. QED  BY <2>1, <2>2, <2>3, <2>4
<1>16. /\ pc'[0] \in {"create", "created", "zero", "latest", "publish", "leave"} =>
              modelFile'[t] = saved
       /\ pc'[0] = "leave" => latest' = t
  <2>1. CASE r # 0
    BY <1>2, <1>3, <1>6, <1>8, <2>1, Values DEF Written, IInv, TypeOK
  <2>2. CASE r = 0 /\ SaveModelBegins(r)
    BY <2>2 DEF SaveModelBegins, Goto, IInv, TypeOK
  <2>3. CASE r = 0 /\ SaveModelEnds(r)
    BY <1>3, <2>3 DEF SaveModelEnds, Goto, IInv, TypeOK
  <2>4. CASE r = 0 /\ (SaveZeroBegins(r) \/ SaveZeroEnds(r) \/ LatestBegins(r))
    BY <1>3, <2>4 DEF SaveZeroBegins, SaveZeroEnds, LatestBegins, Goto, IInv, TypeOK, Written
  <2>5. CASE r = 0 /\ LatestEnds(r)
    BY <1>3, <2>5 DEF LatestEnds, Goto, IInv, TypeOK, Written
  <2>6. QED  BY <2>1, <2>2, <2>3, <2>4, <2>5
<1>17. ASSUME NEW q \in Ranks, Lives(q)'
       PROVE  Written(q, t)'
  <2>1. CASE q = r  BY <1>1, <1>15, <1>16, <1>8a, <2>1 DEF Written
  <2>2. CASE q # r
    <3>1. pc'[q] = pc[q] /\ zeroFile'[t][q] = zeroFile[t][q]
      BY <1>2, <1>3, <1>7, <2>2 DEF IInv, TypeOK
    <3>2. Written(q, t)  BY <1>17, <3>1 DEF Saving, Lives
    <3>3. QED  BY <1>1, <1>16, <1>8a, <3>1, <3>2 DEF Written
  <2>3. QED  BY <2>1, <2>2
<1>18. ASSUME NEW q \in Ranks, joined'[q] = base + PerSave
       PROVE  SaveIsWhole(q, t)'
  <2>1. q # r /\ SaveIsWhole(q, t)
    BY <1>1, <1>4, <1>18, SavedState, Values DEF Saving
  <2>2. zeroFile'[t][q] = zeroFile[t][q] /\ (q = 0 => UNCHANGED <<modelFile, latest>>)
    BY <1>3, <1>6, <1>7, <1>8, <2>1 DEF IInv, TypeOK
  <2>3. QED  BY <1>1, <2>1, <2>2 DEF SaveIsWhole
<1>19. Saving(t, base)'
  BY <1>1, <1>5, <1>12, <1>14, <1>17, <1>18, SavedState DEF Saving
<1>20. QED  BY <1>10, <1>11, <1>12, <1>19 DEF IInv

(* save_checkpoint returns: the last collective was left, so that all
   ranks had joined it, and had written their files before. *)
LEMMA ReturnKeeps ==
  ASSUME IInv, NEW t \in 0 .. MaxSteps, NEW base \in Nat, Saving(t, base), NEW r \in Ranks,
         SaveReturns(r)
  PROVE  IInv'
<1> DEFINE saved == [life |-> life, step |-> t]
<1>1. /\ pc[r] = "left" /\ pc' = [pc EXCEPT ![r] = "train"]
      /\ savedStep' = [savedStep EXCEPT ![r] = t]
      /\ returned' = returned \cup {[tag |-> t, state |-> saved]}
      /\ UNCHANGED <<life, turn, joined, steps, weights, optimizer, disk, deaths>>
      /\ \A q \in Ranks : joined[q] >= joined[r]
  BY SavedState DEF SaveReturns, Goto, LastBarrierIsOver, Everybody
<1>2. \A q \in Ranks : joined[q] = base + PerSave /\ SaveIsWhole(q, t)
  <2>1. joined[r] = base + PerSave  BY <1>1, SavedState DEF Counted
  <2>2. \A q \in Ranks : joined[q] = base + PerSave
    <3>1. ASSUME NEW q \in Ranks
          PROVE  joined[q] = base + PerSave
      <4>1. joined[q] \in base .. base + PerSave /\ joined[q] >= base + PerSave
        BY <1>1, <2>1, SavedState
      <4>2. QED  BY <4>1, Values
    <3>2. QED  BY <3>1
  <2>3. QED  BY <2>2 DEF Saving
<1>3. TypeOK'  BY <1>1, SavedState DEF IInv, TypeOK, disk, Places
<1>4. Disk'
  <2>1. FilesOfTheirTag' /\ SavedBefore'
    BY <1>1, SavedState DEF IInv, TypeOK, Disk, disk, FilesOfTheirTag, OfTag, SavedBefore, Present
  <2>2. LatestIsNewest'
    BY <1>1, <1>2, SavedState, Values DEF LatestIsNewest, SaveIsWhole, disk
  <2>3. ReturnedSavesAreOnDisk' /\ \A c \in returned' : c.state.step = c.tag
    BY <1>1, <1>2, Values DEF IInv, Disk, ReturnedSavesAreOnDisk, SaveIsWhole, disk
  <2>4. QED  BY <2>1, <2>2, <2>3 DEF Disk
<1>5. DeathsOfLives' /\ AtStep(t)'
  <2>1. Lives(r) /\ "train" \in Places \ {"load", "loadZero", "raised", "dead"}
    BY <1>1 DEF Lives, Places
  <2>2. \A c \in returned' : c.tag <= t  BY <1>1, SavedState
  <2>3. QED  BY <1>1, <2>1, <2>2, SaverMoves
<1>6. \A q \in Ranks : Counted(q, base)'
  BY <1>1, <1>2, SavedState DEF IInv, TypeOK, Counted
<1>7. ASSUME NEW q \in Ranks, Lives(q)'
      PROVE  Written(q, t)'
  BY <1>1, <1>7, Values DEF IInv, TypeOK, Saving, Written, Lives, disk
<1>8. Saving(t, base)'
  BY <1>1, <1>2, <1>5, <1>6, <1>7, SavedState, Values DEF Saving, SaveIsWhole, disk, IInv, TypeOK
<1>9. QED  BY <1>3, <1>4, <1>5, <1>8 DEF IInv

LEMMA SaveKeeps ==
  ASSUME IInv, NEW t \in 0 .. MaxSteps, NEW base \in Nat, Saving(t, base), NEW r \in Ranks,
         RankStep(r)
  PROVE  IInv'
<1>1. ~(NothingToLoad(r) \/ LoadModel(r) \/ LoadZero(r))
  BY DEF Saving, AtStep, NothingToLoad, LoadModel, LoadZero, Goto
<1>2. QED  BY <1>1, JoinKeeps, WriteKeeps, ReturnKeeps DEF RankStep

LEMMA Inductive == IInv /\ [Next]_vars => IInv'
<1>1. ASSUME IInv, NEW r \in Ranks, RankStep(r)
      PROVE  IInv'
  BY <1>1, LoadKeeps, IdleRanksRest, SaveKeeps DEF IInv
<1>2. ASSUME IInv, UNCHANGED vars
      PROVE  IInv'
  <2>1. TypeOK' /\ DeathsOfLives' /\ Disk'
    BY <1>2 DEF IInv, vars, ranks, disk, TypeOK, DeathsOfLives, Disk, FilesOfTheirTag, OfTag,
       LatestIsNewest, SavedBefore, ReturnedSavesAreOnDisk, Present
  <2>2. Loading => Loading'
    BY <1>2 DEF vars, ranks, disk, Loading, Loaded, AllAreThere
  <2>3. \A t \in 0 .. MaxSteps : AtStep(t) => AtStep(t)'
    BY <1>2 DEF vars, ranks, disk, AtStep, Lives
  <2>4. \A t \in 0 .. MaxSteps : Idle(t) => Idle(t)'
    BY <1>2, <2>3 DEF vars, ranks, disk, Idle, MustSave
  <2>5. \A t \in 0 .. MaxSteps, base \in Nat : Saving(t, base) => Saving(t, base)'
    BY <1>2, <2>3 DEF vars, ranks, disk, Saving, Counted, Written, SaveIsWhole, Lives
  <2>6. QED  BY <1>2, <2>1, <2>2, <2>4, <2>5 DEF IInv
<1>3. QED  BY <1>1, <1>2, DeathKeeps, RestartKeeps, TrainKeeps DEF Next

LEMMA InvariantHolds == Spec => []IInv
  BY Initially, Inductive, PTL DEF Spec

(* What a save that returned has written is on the disk, whatever number
   of ranks there is, whenever it saves and whoever dies. *)
THEOREM ReturnedSavesTheorem == Spec => []ReturnedSavesAreOnDisk
<1>1. IInv => ReturnedSavesAreOnDisk  BY DEF IInv, Disk
<1>2. QED  BY <1>1, InvariantHolds, PTL

(* Ranks that train have the weights of one save and the optimizer of the
   same state, each from a file of its own, unless the save of that step
   was begun in two lives; or none of them has the optimizer. *)
THEOREM OneSaveTheorem == Spec => []OneSaveIsLoaded
<1>1. ASSUME IInv, Loading
      PROVE  OneSaveIsLoaded
  <2>1. SUFFICES ASSUME NEW r \in Ranks, NEW q \in Ranks, pc[r] = "train", pc[q] = "train"
                 PROVE  /\ steps[r] = steps[q] /\ weights[r] = weights[q]
                        /\ weights[r].step = steps[q]
                        /\ optimizer[r] = FromWeights <=> optimizer[q] = FromWeights
                        /\ \/ optimizer[r] \in {weights[q], FromWeights}
                           \/ SavedAgain(steps[q]) /\ optimizer[r].step = steps[q]
    BY DEF OneSaveIsLoaded
  <2>2. Loaded(r) /\ Loaded(q)  BY <1>1, <2>1 DEF Loading
  <2>3. CASE latest = NoTag  BY <2>2, <2>3, Values DEF Loaded, Fresh, NoTag
  <2>4. CASE latest # NoTag
    <3>1. latest \in Tags  BY <1>1, <2>2, <2>4 DEF IInv, TypeOK, Loaded
    <3>2. /\ OfTag(modelFile[latest], latest) /\ Present(modelFile[latest])
          /\ weights[r] = modelFile[latest] /\ weights[q] = modelFile[latest]
          /\ steps[r] = latest /\ steps[q] = latest
          /\ OfTag(zeroFile[latest][r], latest)
      BY <1>1, <2>2, <2>4, <3>1 DEF IInv, Disk, FilesOfTheirTag, Loaded
    <3>3. CASE AllAreThere(latest, r)
      <4>1. /\ Present(zeroFile[latest][r]) /\ optimizer[r] = zeroFile[latest][r]
            /\ Present(zeroFile[latest][q]) /\ optimizer[q] = zeroFile[latest][q]
        BY <2>2, <2>4, <3>3 DEF Loaded, AllAreThere
      <4>2. /\ weights[q] \in begun /\ weights[q].step = latest
            /\ optimizer[r] \in begun /\ optimizer[r].step = latest
            /\ optimizer[r] # FromWeights /\ optimizer[q] # FromWeights
        BY <3>2, <4>1, Values DEF OfTag, Present
      <4>3. optimizer[r] # weights[q] => SavedAgain(latest)
        BY <4>2 DEF SavedAgain
      <4>4. QED  BY <3>2, <4>2, <4>3
    <3>4. CASE ~AllAreThere(latest, r)
      <4>1. optimizer[r] = FromWeights /\ optimizer[q] = FromWeights
        BY <2>2, <2>4, <3>4 DEF Loaded, AllAreThere
      <4>2. QED  BY <3>2, <4>1 DEF OfTag
    <3>5. QED  BY <3>3, <3>4
  <2>5. QED  BY <2>3, <2>4
<1>2. ASSUME NEW t \in 0 .. MaxSteps, AtStep(t)
      PROVE  OneSaveIsLoaded
  BY <1>2 DEF AtStep, OneSaveIsLoaded
<1>3. IInv => OneSaveIsLoaded  BY <1>1, <1>2 DEF IInv, Idle, Saving
<1>4. QED
  BY <1>3, InvariantHolds, PTL
=============================================================================
