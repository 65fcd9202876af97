-------------------------- MODULE EngineCheckpoint --------------------------
(***************************************************************************)
(* Checkpoints on disk: save_checkpoint and load_checkpoint of             *)
(* deepspeed/runtime/engine.py, with ZeRO stage 1 or 2 and one model       *)
(* parallel rank, and the torch checkpoint engine.                         *)
(*                                                                         *)
(* A checkpoint has a tag: the step it was taken at.  Rank 0 writes the    *)
(* model, every rank its part of the optimizer, and rank 0 the file        *)
(* "latest", which a restart reads.  The ranks meet in collectives: a rank *)
(* has joined a number of them, and leaves one when all ranks have joined  *)
(* as many.  A rank may die at any moment; the others go on until they     *)
(* wait for it, and then all are started again.                            *)
(***************************************************************************)
EXTENDS Integers, FiniteSets

CONSTANTS
    NumRanks,   \* data parallel world size
    SaveAt,     \* steps after which the program saves
    MaxSteps,   \* bound: steps of training
    MaxDeaths   \* bound: ranks that die

ASSUME SizesAssumption ==
    /\ NumRanks \in Nat \ {0} /\ MaxSteps \in Nat /\ MaxDeaths \in Nat
    /\ SaveAt \subseteq 1 .. MaxSteps

Ranks == 0 .. NumRanks - 1
Tags == 1 .. MaxSteps

VARIABLES
    life,       \* how often the job was started again
    pc,         \* where a rank is
    turn,       \* the round of _create_zero_checkpoint_files a rank is in
    joined,     \* the collectives a rank has joined in this life
    steps,      \* global_steps
    weights,    \* the state of the weights of a rank
    savedStep,  \* the step a rank has saved last
    optimizer,  \* the state of the optimizer of a rank
    modelFile, zeroFile, latest,   \* the disk, by tag
    begun,      \* history: the states of which a file was opened for writing
    returned,   \* history: checkpoints whose save has returned to a rank
    deaths

ranks == <<pc, turn, joined, steps, weights, savedStep, optimizer>>
disk == <<modelFile, zeroFile, latest, begun>>
vars == <<life, ranks, disk, returned, deaths>>

(* The state of training after a step, in the life that computed it. *)
States == [life : 0 .. MaxDeaths, step : 0 .. MaxSteps]
StateOf(r) == [life |-> life, step |-> steps[r]]

(* A file that was opened but not finished cannot be read. *)
Missing == [life |-> -1, step |-> 0]
Partial == [life |-> -1, step |-> 1]
Present(f) == f \in States
NoTag == 0
EmptyTag == -1

(* A restored optimizer; or only its weights, taken from the model. *)
Fresh == [life |-> -1, step |-> 0]
FromWeights == [life |-> -1, step |-> 1]

(* tag = f"global_step{self.global_steps}" *)
TagOf(s) == s

----------------------------------------------------------------------------
Init ==
    /\ life = 0 /\ deaths = 0
    /\ pc = [r \in Ranks |-> "load"]
    /\ turn = [r \in Ranks |-> 0] /\ joined = [r \in Ranks |-> 0]
    /\ steps = [r \in Ranks |-> 0] /\ savedStep = [r \in Ranks |-> 0]
    /\ weights = [r \in Ranks |-> Fresh] /\ optimizer = [r \in Ranks |-> Fresh]
    /\ modelFile = [t \in Tags |-> Missing]
    /\ zeroFile = [t \in Tags |-> [r \in Ranks |-> Missing]]
    /\ latest = NoTag
    /\ begun = {} /\ returned = {}

Goto(r, from, to) == pc[r] = from /\ pc' = [pc EXCEPT ![r] = to]

(* A collective: it is joined, and left when everybody has joined it. *)
Join(r) == joined' = [joined EXCEPT ![r] = @ + 1]
Everybody(r) == \A q \in Ranks : joined[q] >= joined[r]

Tag(r) == TagOf(steps[r])

----------------------------------------------------------------------------
(* load_checkpoint(load_dir) with no tag. *)
NothingToLoad(r) ==
    /\ Goto(r, "load", "train")
    /\ latest = NoTag
    /\ UNCHANGED <<life, turn, joined, steps, weights, savedStep, optimizer, disk, returned,
                   deaths>>

(* _load_checkpoint, check_ckpt_list: the model file must be there, whole. *)
LoadModel(r) ==
    /\ pc[r] = "load" /\ latest # NoTag
    /\ IF latest # EmptyTag /\ Present(modelFile[latest])
       THEN /\ pc' = [pc EXCEPT ![r] = "loadZero"]
            /\ weights' = [weights EXCEPT ![r] = modelFile[latest]]
            /\ steps' = [steps EXCEPT ![r] = modelFile[latest].step]
       ELSE pc' = [pc EXCEPT ![r] = "raised"] /\ UNCHANGED <<steps, weights>>
    /\ UNCHANGED <<life, turn, joined, savedStep, optimizer, disk, returned, deaths>>

(* _get_all_zero_checkpoint_names asks for the files of all the ranks; a
   mistake the checks must catch asks for the own one only. *)
OwnIsThere(t, r) == zeroFile[t][r] # Missing
AllAreThere(t, r) == \A q \in Ranks : zeroFile[t][q] # Missing

(* _load_zero_checkpoint. *)
LoadZero(r) ==
    /\ pc[r] = "loadZero"
    /\ savedStep' = [savedStep EXCEPT ![r] = steps[r]]
    /\ IF ~AllAreThere(latest, r)
       THEN optimizer' = [optimizer EXCEPT ![r] = FromWeights] /\ Goto(r, "loadZero", "train")
       ELSE IF Present(zeroFile[latest][r])
       THEN /\ optimizer' = [optimizer EXCEPT ![r] = zeroFile[latest][r]]
            /\ Goto(r, "loadZero", "train")
       ELSE Goto(r, "loadZero", "raised") /\ UNCHANGED optimizer
    /\ UNCHANGED <<life, turn, joined, steps, weights, disk, returned, deaths>>

MustSave(r) == steps[r] \in SaveAt /\ savedStep[r] # steps[r]

(* A step of training: the gradients are reduced over all the ranks. *)
TrainStep ==
    /\ \A r \in Ranks : pc[r] = "train" /\ ~MustSave(r) /\ steps[r] < MaxSteps
    /\ steps' = [r \in Ranks |-> steps[r] + 1]
    /\ weights' = [r \in Ranks |-> [life |-> life, step |-> steps[r] + 1]]
    /\ optimizer' = weights'
    /\ UNCHANGED <<life, pc, turn, joined, savedStep, disk, returned, deaths>>

----------------------------------------------------------------------------
(* save_checkpoint: makedirs, barrier. *)
SaveEnter(r) ==
    /\ Goto(r, "train", "enter") /\ MustSave(r)
    /\ Join(r)
    /\ UNCHANGED <<life, turn, steps, weights, savedStep, optimizer, disk, returned, deaths>>

(* The tag is compared over the ranks (_checkpoint_tag_validation). *)
SaveValidate(r) ==
    /\ Goto(r, "enter", "validate") /\ Everybody(r)
    /\ Join(r)
    /\ UNCHANGED <<life, turn, steps, weights, savedStep, optimizer, disk, returned, deaths>>

(* save_non_zero_checkpoint holds on the first data parallel rank. *)
SaveModelBegins(r) ==
    /\ Goto(r, "validate", IF r = 0 THEN "model" ELSE "create") /\ Everybody(r)
    /\ turn' = [turn EXCEPT ![r] = 0]
    /\ IF r = 0
       THEN /\ modelFile' = [modelFile EXCEPT ![Tag(r)] = Partial]
            /\ begun' = begun \cup {StateOf(r)}
       ELSE UNCHANGED <<modelFile, begun>>
    /\ UNCHANGED <<life, joined, steps, weights, savedStep, optimizer, zeroFile, latest,
                   returned, deaths>>

SaveModelEnds(r) ==
    /\ Goto(r, "model", "create")
    /\ modelFile' = [modelFile EXCEPT ![Tag(r)] = StateOf(r)]
    /\ UNCHANGED <<life, turn, joined, steps, weights, savedStep, optimizer, zeroFile, latest,
                   begun, returned, deaths>>

(* _create_zero_checkpoint_files: a barrier for every rank, in which each
   creates the directory in its turn.  A mistake the checks must catch: a
   rank that has had its turn does not wait for the others. *)
UntilOwnTurn(r) == turn[r] <= r
AnotherTurn(r) == turn[r] < NumRanks
CreateJoin(r) ==
    /\ Goto(r, "create", "created") /\ AnotherTurn(r)
    /\ Join(r)
    /\ UNCHANGED <<life, turn, steps, weights, savedStep, optimizer, disk, returned, deaths>>

CreateNext(r) ==
    /\ Goto(r, "created", "create") /\ Everybody(r)
    /\ turn' = [turn EXCEPT ![r] = @ + 1]
    /\ UNCHANGED <<life, joined, steps, weights, savedStep, optimizer, disk, returned, deaths>>

(* _save_zero_checkpoint *)
SaveZeroBegins(r) ==
    /\ Goto(r, "create", "zero") /\ ~AnotherTurn(r)
    /\ zeroFile' = [zeroFile EXCEPT ![Tag(r)][r] = Partial]
    /\ begun' = begun \cup {StateOf(r)}
    /\ UNCHANGED <<life, turn, joined, steps, weights, savedStep, optimizer, modelFile, latest,
                   returned, deaths>>

(* The file is finished; commit() of the torch engine does nothing more. *)
SaveZeroEnds(r) ==
    /\ Goto(r, "zero", IF r = 0 THEN "latest" ELSE "leave")
    /\ zeroFile' = [zeroFile EXCEPT ![Tag(r)][r] = StateOf(r)]
    /\ UNCHANGED <<life, turn, joined, steps, weights, savedStep, optimizer, modelFile, latest,
                   begun, returned, deaths>>

(* Rank 0 opens "latest", which empties it, and writes the tag. *)
LatestBegins(r) ==
    /\ Goto(r, "latest", "publish")
    /\ latest' = EmptyTag
    /\ UNCHANGED <<life, turn, joined, steps, weights, savedStep, optimizer, modelFile, zeroFile,
                   begun, returned, deaths>>

LatestEnds(r) ==
    /\ Goto(r, "publish", "leave")
    /\ latest' = Tag(r)
    /\ UNCHANGED <<life, turn, joined, steps, weights, savedStep, optimizer, modelFile, zeroFile,
                   begun, returned, deaths>>

(* The last barrier.  A mistake the checks must catch goes on without it. *)
LeaveJoin(r) ==
    /\ Goto(r, "leave", "left")
    /\ Join(r)
    /\ UNCHANGED <<life, turn, steps, weights, savedStep, optimizer, disk, returned, deaths>>

NobodyWaits(r) == TRUE
LastBarrierIsOver(r) == Everybody(r)
SaveReturns(r) ==
    /\ Goto(r, "left", "train") /\ LastBarrierIsOver(r)
    /\ savedStep' = [savedStep EXCEPT ![r] = steps[r]]
    /\ returned' = returned \cup {[tag |-> Tag(r), state |-> StateOf(r)]}
    /\ UNCHANGED <<life, turn, joined, steps, weights, optimizer, disk, deaths>>

----------------------------------------------------------------------------
Gone(r) == pc[r] \in {"dead", "raised"}

Die(r) ==
    /\ ~Gone(r) /\ deaths < MaxDeaths
    /\ pc' = [pc EXCEPT ![r] = "dead"]
    /\ deaths' = deaths + 1
    /\ UNCHANGED <<life, turn, joined, steps, weights, savedStep, optimizer, disk, returned>>

(* The launcher ends the processes that are left, and starts all again. *)
Restart ==
    /\ \E r \in Ranks : pc[r] = "dead"
    /\ life' = life + 1
    /\ pc' = [r \in Ranks |-> "load"]
    /\ turn' = [r \in Ranks |-> 0] /\ joined' = [r \in Ranks |-> 0]
    /\ steps' = [r \in Ranks |-> 0] /\ savedStep' = [r \in Ranks |-> 0]
    /\ weights' = [r \in Ranks |-> Fresh] /\ optimizer' = [r \in Ranks |-> Fresh]
    /\ UNCHANGED <<disk, returned, deaths>>

RankStep(r) ==
    \/ NothingToLoad(r) \/ LoadModel(r) \/ LoadZero(r)
    \/ SaveEnter(r) \/ SaveValidate(r) \/ SaveModelBegins(r) \/ SaveModelEnds(r)
    \/ CreateJoin(r) \/ CreateNext(r) \/ SaveZeroBegins(r) \/ SaveZeroEnds(r)
    \/ LatestBegins(r) \/ LatestEnds(r) \/ LeaveJoin(r) \/ SaveReturns(r)

Next == (\E r \in Ranks : RankStep(r) \/ Die(r)) \/ TrainStep \/ Restart

Spec == Init /\ [][Next]_vars

(* Processes that live go on; whoever watches the job starts it again. *)
FairSpec ==
    Spec /\ (\A r \in Ranks : WF_vars(RankStep(r))) /\ WF_vars(TrainStep) /\ WF_vars(Restart)

----------------------------------------------------------------------------
(* What a save that returned has written stays on the disk, all of it and
   of that one step: the other ranks had finished their files, and neither
   a later save nor a restart touches them. *)
ReturnedSavesAreOnDisk ==
    \A c \in returned :
        /\ modelFile[c.tag] = c.state
        /\ \A r \in Ranks : zeroFile[c.tag][r] = c.state

(* The save of step t was begun in one life, did not end, and was begun
   again in another: _get_ckpt_name gives both the same names. *)
SavedAgain(t) == \E a, b \in begun : a.step = t /\ b.step = t /\ a # b

(* All ranks that have come back from load_checkpoint came back with the
   weights of one save and at its step, and all of them with the optimizer
   or none of them.  The optimizer is that of the very state the weights
   are of, on every rank, though each loads a file of its own; only where
   the tag was written twice may it be of another life, at the same step. *)
OneSaveIsLoaded ==
    \A r, q \in Ranks : pc[r] = "train" /\ pc[q] = "train" =>
        /\ steps[r] = steps[q] /\ weights[r] = weights[q] /\ weights[r].step = steps[q]
        /\ optimizer[r] = FromWeights <=> optimizer[q] = FromWeights
        /\ \/ optimizer[r] \in {weights[q], FromWeights}
           \/ SavedAgain(steps[q]) /\ optimizer[r].step = steps[q]

(* The tag is "a unique identifier for the checkpoint" (save_checkpoint,
   load_checkpoint): ranks that all train with what the tag in "latest"
   names have loaded one checkpoint.  The code does not keep this: a job
   that dies in a save leaves files which the next save of that step
   overwrites one by one, and rank 0 publishes the tag before the others
   have written theirs. *)
TagNamesOneCheckpoint ==
    (\A r \in Ranks : pc[r] = "train") =>
        \A r, q \in Ranks : optimizer[r] \in {weights[q], FromWeights}

(* A collective is never joined by some ranks for one purpose and by
   others for another: every save that a rank begins ends, on that rank,
   unless a process dies. *)
SavesReturn ==
    \A r \in Ranks :
        pc[r] = "enter" ~> (pc[r] = "train" \/ \E q \in Ranks : Gone(q))
=============================================================================
