----------------------- MODULE RecoverSnapshotProofs -----------------------
(***************************************************************************)
(* Proofs about the replacement of machines, for any number of machines,   *)
(* GPUs and failures and any order in which AWS lists the machines: those  *)
(* that did not fail keep their ranks, no rank finds the state of another  *)
(* one, and a replaced machine gets the states of its ranks if its partner *)
(* has saved and both are where the hostfile has them.                     *)
(***************************************************************************)
EXTENDS RecoverSnapshot, FiniteSetTheorems, TLAPS

----------------------------------------------------------------------------
(* A rank, its machine and the machine of its peer. *)

LEMMA DivMod ==
    ASSUME NEW a \in Nat, NEW g \in Nat \ {0}
    PROVE  /\ a \div g \in Nat
           /\ a % g \in 0 .. g - 1
           /\ a = (a \div g) * g + (a % g)
  OBVIOUS

LEMMA DivModUnique ==
    ASSUME NEW g \in Nat \ {0}, NEW q \in Nat, NEW r \in 0 .. g - 1
    PROVE  /\ (q * g + r) \div g = q
           /\ (q * g + r) % g = r
  OBVIOUS

(* Every rank is a machine index and a GPU index within the machine. *)
LEMMA RankCoordinates ==
    ASSUME NEW r \in Ranks
    PROVE  /\ MachineOf(r) \in MachineRanks
           /\ GpuOf(r) \in 0 .. GpusPerMachine - 1
           /\ r = MachineOf(r) * GpusPerMachine + GpuOf(r)
<1>1. GpusPerMachine \in Nat \ {0} /\ Machines \in Nat \ {0} /\ r \in Nat
  BY GroupAssumption DEF Ranks
<1>2. /\ r \div GpusPerMachine \in Nat
      /\ r % GpusPerMachine \in 0 .. GpusPerMachine - 1
      /\ r = (r \div GpusPerMachine) * GpusPerMachine + (r % GpusPerMachine)
  BY <1>1, DivMod
<1>3. r \div GpusPerMachine < Machines
  <2>1. SUFFICES ASSUME r \div GpusPerMachine >= Machines PROVE FALSE
    BY <1>1, <1>2
  <2>2. (r \div GpusPerMachine) * GpusPerMachine >= Machines * GpusPerMachine
    BY <2>1, <1>1, <1>2
  <2>3. r < Machines * GpusPerMachine  BY <1>1 DEF Ranks, WorldSize
  <2>. QED  BY <2>2, <2>3, <1>1, <1>2
<1>. QED  BY <1>1, <1>2, <1>3 DEF MachineOf, GpuOf, MachineRanks

Partner(m) == IF m % 2 = 0 THEN m + 1 ELSE m - 1

LEMMA PartnerFacts ==
    ASSUME NEW m \in MachineRanks
    PROVE  /\ Partner(m) \in MachineRanks
           /\ Partner(m) # m
           /\ Partner(Partner(m)) = m
           /\ MachineGroup((m \div 2) * GroupSize) = {m, Partner(m)}
  BY GroupAssumption DEF Partner, MachineRanks, MachineGroup, GroupSize

(* The group of a rank holds the rank itself and the GPU of the same index
   on the partner machine. *)
LEMMA GroupOfRank ==
    ASSUME NEW r \in Ranks
    PROVE  GetGroup(r) =
             {r, Partner(MachineOf(r)) * GpusPerMachine + GpuOf(r)}
<1> DEFINE m == MachineOf(r)
           k == GpuOf(r)
<1>1. GpusPerMachine \in Nat \ {0} /\ m \in Nat /\ m \in MachineRanks
      /\ k \in 0 .. GpusPerMachine - 1
      /\ r = m * GpusPerMachine + k
  BY GroupAssumption, RankCoordinates DEF MachineRanks
<1>2. m \div GroupSize \in Nat  BY <1>1 DEF GroupSize
<1>3. /\ GetGroupId(r) \div GpusPerMachine = m \div GroupSize
      /\ GetGroupId(r) % GpusPerMachine = k
  <2> HIDE DEF m, k
  <2>. QED  BY <1>1, <1>2, DivModUnique DEF GetGroupId, m, k
<1>4. GetGroup(r) = {j * GpusPerMachine + k :
                       j \in MachineGroup((m \div 2) * GroupSize)}
  BY <1>3 DEF GetGroup, RankGroup, GroupSize
<1>5. MachineGroup((m \div 2) * GroupSize) = {m, Partner(m)}
  BY <1>1, PartnerFacts
<1> HIDE DEF m, k
<1>. QED  BY <1>1, <1>4, <1>5 DEF m, k

----------------------------------------------------------------------------

Lists == [1 .. Machines -> Ips]
RecoveryPair == {p \in [src : MachineRanks, dst : MachineRanks] : p.src = Partner(p.dst)}

(* A file of rank r holds its state, the copy of its peer the peer's. *)
OwnState(file, r) == file \in States \cup {None} /\ (file # None => file.of = r)
FilesAreOwn ==
    /\ {local_file, remote_file, optim_file} \subseteq [Ips -> Files]
    /\ model_file \in [Ips -> ModelFiles]
    /\ \A ip \in Ips, r \in Ranks :
           /\ OwnState(local_file[ip][r], r)
           /\ OwnState(remote_file[ip][r], GetPeerRank(r))
           /\ OwnState(optim_file[ip][r], r)

ListTypes ==
    /\ {hostfile, pre_ips_list, ips_list} \subseteq Lists
    /\ agent_ips \in [MachineRanks -> Ips]
    /\ asg \subseteq Ips
    /\ failures \in 0 .. MaxFailures
    /\ failed_machines \subseteq MachineRanks
    /\ pairs \in Seq(RecoveryPair) /\ (stage = "mpi" => pairs # << >>)
    /\ sent \in [Gpus -> 0 .. 3] /\ received \in [Gpus -> 0 .. 2]

(* The list of the root agent is of the running instances. *)
ListIsOfTheGroup == stage \in {"recover", "mpi"} => ToSet(ips_list) = asg

(* A record of the last failure comes with a template, a model file and a
   file of the rank itself, until that is renamed. *)
RecordsComeWithFiles ==
    /\ stage = "training" => ToSet(hostfile) \subseteq templates
    /\ stage = "mpi" => \A g \in Gpus : sent[g] >= 1 => Record(g) # None
    /\ \A ip \in Ips, r \in Ranks :
           /\ remote_file[ip][r].failure <= failures
           /\ remote_file[ip][r].failure = failures =>
                 /\ ip \in templates
                 /\ model_file[ip][r] # Absent
                 /\ stage \in {"replace", "wait"} =>
                        local_file[ip][r] = [of |-> r, failure |-> failures]

AllHavePartners == \A m \in failed_machines : Partner(m) \notin failed_machines

(* The machine at the place of m in the list of the root agent has saved. *)
HasSaved(m) ==
    \A g \in Gpus : remote_file[At(ips_list, m)][RankOn(m, g)].failure = failures

(* How far the recovery of machine m has come. *)
Pending(m) == \E i \in 1 .. Len(pairs) : pairs[i].dst = m
Active(m) == stage = "mpi" /\ pairs[1].dst = m
SentTo(m, g) == IF Active(m) THEN sent[g] ELSE IF Pending(m) THEN 0 ELSE 3
SavedBy(m, g) == IF Active(m) THEN received[g] ELSE IF Pending(m) THEN 0 ELSE 2

(* What is then in the files of the k-th GPUs of the two machines. *)
FilesAt(m, p, g, ns, nr) ==
    LET src == At(ips_list, p)
        dst == At(ips_list, m)
        r == RankOn(p, g)
        t == RankOn(m, g)
    IN  /\ ns <= 1 => local_file[src][r] = [of |-> r, failure |-> failures]
        /\ ns >= 2 => optim_file[src][r] = [of |-> r, failure |-> failures]
        /\ ns = 3 => model_file[src][r] = failures
        /\ nr >= 1 => optim_file[dst][t] = [of |-> t, failure |-> failures]
        /\ nr = 2 => model_file[dst][t] = failures

RestoredInTurn ==
    /\ stage \in {"recover", "mpi"} =>
          /\ \A i, j \in 1 .. Len(pairs) : pairs[i].dst = pairs[j].dst => i = j
          /\ \A i \in 1 .. Len(pairs) : pairs[i].dst \in failed_machines
    /\ (stage \in {"recover", "mpi", "training"} /\ AllHavePartners) =>
          \A m \in failed_machines :
              HasSaved(Partner(m)) =>
                  /\ Active(m) => raised = {}
                  /\ \A g \in Gpus : FilesAt(m, Partner(m), g, SentTo(m, g), SavedBy(m, g))
    /\ stage = "training" => pairs = << >>

----------------------------------------------------------------------------
LEMMA ListIndex ==
    ASSUME NEW m \in MachineRanks, NEW list \in Lists
    PROVE  m + 1 \in 1 .. Machines /\ At(list, m) = list[m + 1] /\ At(list, m) \in Ips
BY GroupAssumption DEF MachineRanks, At, Lists

LEMMA ReplacedType ==
    ASSUME NEW list \in Lists, NEW f, DOMAIN f \subseteq Ips,
           \A ip \in DOMAIN f : f[ip] \in Ips
    PROVE  Replaced(list, f) \in Lists
BY DEF Replaced, Lists

LEMMA RankOnFacts ==
    ASSUME NEW m \in MachineRanks, NEW gpu \in Gpus
    PROVE  /\ RankOn(m, gpu) \in Ranks
           /\ MachineOf(RankOn(m, gpu)) = m /\ GpuOf(RankOn(m, gpu)) = gpu
<1>1. /\ m \in Nat /\ gpu \in 0 .. GpusPerMachine - 1 /\ GpusPerMachine \in Nat \ {0}
      /\ Machines \in Nat /\ m <= Machines - 1
  BY GroupAssumption DEF MachineRanks, Gpus
<1>2. m * GpusPerMachine <= (Machines - 1) * GpusPerMachine  BY <1>1
<1>3. (Machines - 1) * GpusPerMachine = Machines * GpusPerMachine - GpusPerMachine
  BY <1>1
<1>4. m * GpusPerMachine \in Nat /\ Machines * GpusPerMachine \in Nat  BY <1>1
<1>5. RankOn(m, gpu) \in Ranks
  BY <1>1, <1>2, <1>3, <1>4 DEF RankOn, Ranks, WorldSize
<1>6. RankOn(m, gpu) = m * GpusPerMachine + gpu  BY <1>1, <1>4 DEF RankOn
<1> QED  BY <1>1, <1>5, <1>6, DivModUnique DEF MachineOf, GpuOf

(* The k-th GPU of a machine has the state of the k-th GPU of its partner. *)
LEMMA PeerOnPartner ==
    ASSUME NEW m \in MachineRanks, NEW gpu \in Gpus
    PROVE  GetPeerRank(RankOn(Partner(m), gpu)) = RankOn(m, gpu)
<1> DEFINE r == RankOn(Partner(m), gpu)
<1>1. Partner(m) \in MachineRanks /\ Partner(Partner(m)) = m /\ Partner(m) # m
  BY PartnerFacts
<1>2. r \in Ranks /\ MachineOf(r) = Partner(m) /\ GpuOf(r) = gpu
  BY <1>1, RankOnFacts
<1>3. GetGroup(r) = {r, m * GpusPerMachine + gpu}  BY <1>1, <1>2, GroupOfRank
<1>4. m * GpusPerMachine + gpu = RankOn(m, gpu)
  BY GroupAssumption DEF RankOn, MachineRanks, Gpus
<1>5. RankOn(m, gpu) # r  BY <1>1, <1>2, RankOnFacts
<1> QED  BY <1>3, <1>4, <1>5 DEF GetPeerRank

LEMMA PairsAreOfAGroup ==
    ASSUME NEW failed \in SUBSET MachineRanks, NEW list \in ListsOf(failed)
    PROVE  RecoveryPairs(failed, list) \in Seq(RecoveryPair)
<1> DEFINE source(m) == CHOOSE s \in Sources(failed, m) : \A t \in Sources(failed, m) : s <= t
<1>1. CASE \E m \in failed : Sources(failed, m) = {}  BY <1>1 DEF RecoveryPairs
<1>2. CASE \A m \in failed : Sources(failed, m) # {}
  <2>1. ASSUME NEW m \in failed PROVE source(m) = Partner(m)
    <3>1. Partner(m) \in Nat /\ GetMachineGroup(m) = {m, Partner(m)}
      BY PartnerFacts, GroupAssumption DEF GetMachineGroup, MachineRanks, GroupSize
    <3>2. Sources(failed, m) = {Partner(m)}  BY <1>2, <3>1 DEF Sources
    <3> QED  BY <3>1, <3>2
  <2>2. Cardinality(failed) \in Nat
    <3>1. IsFiniteSet(MachineRanks)
      BY FS_Interval, GroupAssumption DEF MachineRanks
    <3> QED  BY <3>1, FS_Subset, FS_CardinalityType
  <2>3. \A i \in 1 .. Cardinality(failed) :
            [src |-> source(list[i]), dst |-> list[i]] \in RecoveryPair
    <3> SUFFICES ASSUME NEW i \in 1 .. Cardinality(failed)
                 PROVE  [src |-> source(list[i]), dst |-> list[i]] \in RecoveryPair
      OBVIOUS
    <3>1. list[i] \in failed  BY DEF ListsOf
    <3>2. source(list[i]) = Partner(list[i]) /\ Partner(list[i]) \in MachineRanks
      BY <3>1, <2>1, PartnerFacts
    <3> QED  BY <3>1, <3>2 DEF RecoveryPair
  <2>4. RecoveryPairs(failed, list) =
            [i \in 1 .. Cardinality(failed) |-> [src |-> source(list[i]), dst |-> list[i]]]
    BY <1>2 DEF RecoveryPairs
  <2> HIDE DEF source
  <2> QED  BY <2>2, <2>3, <2>4
<1> QED  BY <1>1, <1>2

----------------------------------------------------------------------------
(* Types, and what is in the files: whatever the order of AWS. *)
LEMMA InitTypes == Init => ListTypes /\ FilesAreOwn
<1> SUFFICES ASSUME Init PROVE ListTypes /\ FilesAreOwn  OBVIOUS
<1>1. Machines \in Nat \ {0} /\ MaxFailures \in Nat
  BY GroupAssumption, RecoverAssumption
<1>2. Machines * (MaxFailures + 1) >= Machines /\ Machines * (MaxFailures + 1) \in Nat
  BY <1>1
<1>3. 0 .. Machines - 1 \subseteq Ips  BY <1>1, <1>2 DEF Ips
<1>4. Initial \in Lists  BY <1>1, <1>3 DEF Initial, Lists
<1>5. ToSet(Initial) \subseteq Ips  BY <1>4 DEF ToSet, Lists, Initial
<1>6. ListTypes  BY <1>1, <1>3, <1>4, <1>5 DEF Init, ListTypes, MachineRanks
<1>7. None \in States \cup {None}  OBVIOUS
<1>8. \A r \in Ranks : [of |-> r, failure |-> 0] \in States  BY <1>1 DEF States
<1>9. 0 \in {Absent} \cup 0 .. MaxFailures /\ Absent \in {Absent} \cup 0 .. MaxFailures
  BY <1>1
<1>10. FilesAreOwn
  BY <1>7, <1>8, <1>9 DEF Init, FilesAreOwn, OwnState, Files, ModelFiles
<1> QED  BY <1>6, <1>10

LEMMA PeerIsRank ==
    ASSUME NEW r \in Ranks
    PROVE  GetPeerRank(r) \in Ranks
<1> DEFINE m == MachineOf(r)
           k == GpuOf(r)
<1>1. m \in MachineRanks /\ k \in Gpus /\ r = RankOn(m, k)
  <2>1. /\ m \in MachineRanks /\ k \in 0 .. GpusPerMachine - 1
        /\ r = m * GpusPerMachine + k
    BY RankCoordinates
  <2> HIDE DEF m, k
  <2>2. m \in Nat /\ GpusPerMachine \in Nat /\ k \in Nat
    BY <2>1, GroupAssumption DEF MachineRanks
  <2>3. m * GpusPerMachine \in Nat  BY <2>2
  <2> QED  BY ONLY <2>1, <2>2, <2>3 DEF RankOn, Gpus
<1>2. Partner(m) \in MachineRanks /\ Partner(Partner(m)) = m
  BY <1>1, PartnerFacts
<1>3. GetPeerRank(RankOn(m, k)) = RankOn(Partner(m), k)
  <2> HIDE DEF m, k
  <2>1. GetPeerRank(RankOn(Partner(Partner(m)), k)) = RankOn(Partner(m), k)
    BY <1>1, <1>2, PeerOnPartner
  <2> QED  BY <1>2, <2>1
<1>4. RankOn(Partner(m), k) \in Ranks  BY <1>1, <1>2, RankOnFacts
<1> QED  BY <1>1, <1>3, <1>4

LEMMA FailTypes ==
    ASSUME ListTypes, FilesAreOwn, NEW failed \in SUBSET MachineRanks,
           NEW silent \in SUBSET MachineRanks, Fail(failed, silent)
    PROVE  ListTypes' /\ FilesAreOwn'
<1> DEFINE saved(r) == [of |-> r, failure |-> failures']
<1>1. failures' \in 1 .. MaxFailures  BY RecoverAssumption DEF Fail, ListTypes
<1>2. ListTypes'
  <2>1. failed_machines' \subseteq MachineRanks /\ stage' # "mpi"
    BY DEF Fail, ListTypes
  <2> QED BY <1>1, <2>1 DEF Fail, ListTypes, lists, job
<1>3. \A r \in Ranks : saved(r) \in States /\ saved(r).of = r
  BY <1>1 DEF States
<1>4. \A r \in Ranks : saved(GetPeerRank(r)) \in States /\ saved(GetPeerRank(r)).of = GetPeerRank(r)
  BY <1>3, PeerIsRank
<1>5. /\ local_file' \in [Ips -> Files]
      /\ \A ip \in Ips, r \in Ranks : OwnState(local_file'[ip][r], r)
  BY <1>3 DEF Fail, FilesAreOwn, OwnState, Files
<1>6. /\ remote_file' \in [Ips -> Files]
      /\ \A ip \in Ips, r \in Ranks : OwnState(remote_file'[ip][r], GetPeerRank(r))
  BY <1>4 DEF Fail, FilesAreOwn, OwnState, Files
<1>7. optim_file' = optim_file /\ model_file' = model_file  BY DEF Fail
<1> QED  BY <1>2, <1>5, <1>6, <1>7 DEF FilesAreOwn

LEMMA ScaleUpTypes ==
    ASSUME ListTypes, ScaleUp
    PROVE  ListTypes'
<1> DEFINE fresh == Machines * failures .. Machines * (failures + 1) - 1
<1>1. PICK ip \in fresh : asg' = asg \cup {ip}  BY DEF ScaleUp
<1>2. failures \in Nat /\ MaxFailures \in Nat /\ Machines \in Nat /\ failures <= MaxFailures
  BY GroupAssumption, RecoverAssumption DEF ListTypes
<1>3. /\ Machines * failures \in Nat
      /\ Machines * (failures + 1) <= Machines * (MaxFailures + 1)
      /\ Machines * (failures + 1) \in Nat /\ Machines * (MaxFailures + 1) \in Nat
  BY <1>2
<1>4. ip \in Ips  BY <1>1, <1>3 DEF Ips
<1> QED  BY <1>1, <1>4 DEF ScaleUp, ListTypes, disks, job

LEMMA DiffIpsTypes ==
    ASSUME ListTypes, NEW f, DiffIps(f)
    PROVE  /\ ListTypes'
           /\ DOMAIN f \subseteq Ips /\ \A ip \in DOMAIN f : f[ip] \in Ips
<1>1. pre_ips_list \in Lists /\ asg \subseteq Ips  BY DEF ListTypes
<1>2. ToSet(pre_ips_list) \subseteq Ips  BY <1>1 DEF ToSet, Lists
<1>3. f \in [ToSet(pre_ips_list) \ asg -> asg \ ToSet(pre_ips_list)]
  BY DEF DiffIps, Bijections
<1>4. DOMAIN f \subseteq Ips /\ \A ip \in DOMAIN f : f[ip] \in Ips
  BY <1>1, <1>2, <1>3
<1>5. ips_list' \in Lists  BY <1>1, <1>4, ReplacedType DEF DiffIps
<1>6. agent_ips' \in [MachineRanks -> Ips]  BY <1>4 DEF DiffIps, ListTypes
<1>7. pairs' \in Seq(RecoveryPair)  BY PairsAreOfAGroup DEF DiffIps, ListTypes
<1>8. UNCHANGED <<asg, pre_ips_list, hostfile, failed_machines, job, failures>>
  BY DEF DiffIps
<1>9. stage' = "recover"  BY DEF DiffIps
<1>10. ListTypes'  BY <1>5, <1>6, <1>7, <1>8, <1>9 DEF ListTypes, job
<1> QED  BY <1>4, <1>10

LEMMA Updated ==
    ASSUME NEW A, NEW B, NEW V, NEW F \in [A -> [B -> V]], NEW a \in A, NEW b \in B, NEW v \in V
    PROVE  /\ [F EXCEPT ![a][b] = v] \in [A -> [B -> V]]
           /\ \A x \in A, y \in B :
                  [F EXCEPT ![a][b] = v][x][y] = IF x = a /\ y = b THEN v ELSE F[x][y]
OBVIOUS

(* The ranks and machines of the job that runs. *)
LEMMA JobRanks ==
    ASSUME ListTypes, FilesAreOwn, stage = "mpi", NEW g \in Gpus
    PROVE  /\ pairs[1].dst \in MachineRanks /\ pairs[1].src = Partner(pairs[1].dst)
           /\ Source = At(ips_list, Partner(pairs[1].dst)) /\ Source \in Ips
           /\ Dest = At(ips_list, pairs[1].dst) /\ Dest \in Ips
           /\ SourceRank(g) = RankOn(Partner(pairs[1].dst), g) /\ SourceRank(g) \in Ranks
           /\ DestRank(g) = RankOn(pairs[1].dst, g) /\ DestRank(g) \in Ranks
           /\ OwnState(Record(g), DestRank(g))
<1>1. pairs \in Seq(RecoveryPair) /\ pairs # << >>  BY DEF ListTypes
<1>2. Head(pairs) = pairs[1] /\ pairs[1] \in RecoveryPair  BY <1>1
<1>3. /\ pairs[1].dst \in MachineRanks /\ pairs[1].src \in MachineRanks
      /\ pairs[1].src = Partner(pairs[1].dst)
  BY <1>2 DEF RecoveryPair
<1>4. Source \in Ips /\ Dest \in Ips
  BY <1>2, <1>3, ListIndex DEF ListTypes, Source, Dest
<1>5. /\ SourceRank(g) = RankOn(Partner(pairs[1].dst), g) /\ SourceRank(g) \in Ranks
      /\ DestRank(g) = RankOn(pairs[1].dst, g) /\ DestRank(g) \in Ranks
  BY <1>2, <1>3, RankOnFacts DEF SourceRank, DestRank, SavedAs
<1>6. GetPeerRank(SourceRank(g)) = DestRank(g)  BY <1>3, <1>5, PeerOnPartner
<1>7. OwnState(Record(g), DestRank(g))
  BY <1>4, <1>5, <1>6 DEF FilesAreOwn, Record
<1> QED  BY <1>2, <1>3, <1>4, <1>5, <1>7 DEF Source, Dest

(* What a step of a job changes: files of the ranks of the pair only. *)
LEMMA RecoverTypes ==
    ASSUME ListTypes, FilesAreOwn, NEW g \in Gpus, RecoverGpuSnapshot(g)
    PROVE  ListTypes' /\ FilesAreOwn'
<1>1. stage = "mpi"
  BY DEF RecoverGpuSnapshot, SendOptim, SendModel, SaveModel, ReceiveOptim, ReceiveModel
<1>2. /\ Source \in Ips /\ Dest \in Ips /\ SourceRank(g) \in Ranks /\ DestRank(g) \in Ranks
      /\ OwnState(Record(g), DestRank(g))
      /\ OwnState(local_file[Source][SourceRank(g)], SourceRank(g))
  BY <1>1, JobRanks DEF FilesAreOwn
<1>3. Record(g) \in States \cup {None} /\ Record(g).failure \in {Absent} \cup 0 .. MaxFailures
  BY <1>2 DEF OwnState, States, None
<1>4. /\ {local_file, remote_file, optim_file} \subseteq [Ips -> [Ranks -> States \cup {None}]]
      /\ model_file \in [Ips -> [Ranks -> {Absent} \cup 0 .. MaxFailures]]
      /\ local_file[Source][SourceRank(g)] \in States \cup {None}
  BY <1>2 DEF FilesAreOwn, Files, ModelFiles, OwnState
<1>5. /\ UNCHANGED <<stage, lists, failed_machines, pairs, failures, remote_file>>
      /\ sent' \in [Gpus -> 0 .. 3] /\ received' \in [Gpus -> 0 .. 2]
  BY DEF RecoverGpuSnapshot, SendOptim, SendModel, SaveModel, ReceiveOptim, ReceiveModel,
         Raises, Sends, ListTypes, disks
<1>6. ListTypes'  BY <1>5 DEF ListTypes, lists
<1> SUFFICES FilesAreOwn'  BY <1>6
<1>7. CASE SendOptim(g)  BY <1>7 DEF SendOptim, FilesAreOwn, disks
<1>8. CASE SendModel(g)
  <2>1. CASE local_file[Source][SourceRank(g)] = None
    BY <1>8, <2>1 DEF SendModel, FilesAreOwn
  <2>2. CASE local_file[Source][SourceRank(g)] # None
    <3>1. /\ optim_file' = [optim_file EXCEPT ![Source][SourceRank(g)] =
                                                  local_file[Source][SourceRank(g)]]
          /\ local_file' = [local_file EXCEPT ![Source][SourceRank(g)] = None]
          /\ UNCHANGED <<remote_file, model_file>>
      BY <1>8, <2>2 DEF SendModel
    <3> DEFINE v == local_file[Source][SourceRank(g)]
               ip == Source
               r == SourceRank(g)
    <3>2. /\ ip \in Ips /\ r \in Ranks /\ v \in States \cup {None} /\ OwnState(v, r)
          /\ optim_file' = [optim_file EXCEPT ![ip][r] = v]
          /\ local_file' = [local_file EXCEPT ![ip][r] = None]
      BY <1>2, <1>4, <3>1
    <3> HIDE DEF v, ip, r
    <3>3. /\ local_file' \in [Ips -> [Ranks -> States \cup {None}]]
          /\ \A i \in Ips, q \in Ranks : OwnState(local_file'[i][q], q)
      BY <1>4, <3>2, Updated DEF FilesAreOwn, OwnState
    <3>4. /\ optim_file' \in [Ips -> [Ranks -> States \cup {None}]]
          /\ \A i \in Ips, q \in Ranks : OwnState(optim_file'[i][q], q)
      BY <1>4, <3>2, Updated DEF FilesAreOwn
    <3> QED BY <3>1, <3>3, <3>4 DEF FilesAreOwn, Files
  <2> QED BY <2>1, <2>2
<1>9. CASE SaveModel(g) \/ ReceiveModel(g)
  <2>1. /\ \E ip \in Ips, r \in Ranks :
               model_file' = [model_file EXCEPT ![ip][r] = Record(g).failure]
        /\ UNCHANGED <<local_file, remote_file, optim_file>>
    BY <1>2, <1>9 DEF SaveModel, ReceiveModel
  <2>2. model_file' \in [Ips -> ModelFiles]
    <3>1. PICK ip \in Ips, r \in Ranks : model_file' = [model_file EXCEPT ![ip][r] = Record(g).failure]
      BY <2>1
    <3> DEFINE v == Record(g).failure
    <3>2. v \in {Absent} \cup 0 .. MaxFailures  BY <1>3
    <3> HIDE DEF v
    <3>3. [model_file EXCEPT ![ip][r] = v] \in [Ips -> [Ranks -> {Absent} \cup 0 .. MaxFailures]]
      BY <1>4, <3>2, Updated
    <3> QED BY <3>1, <3>3 DEF ModelFiles, v
  <2> QED BY <2>1, <2>2 DEF FilesAreOwn
<1>10. CASE ReceiveOptim(g)
  <2>1. /\ optim_file' = [optim_file EXCEPT ![Dest][DestRank(g)] = Record(g)]
        /\ UNCHANGED <<local_file, remote_file, model_file>>
    BY <1>10 DEF ReceiveOptim
  <2>2. /\ optim_file' \in [Ips -> [Ranks -> States \cup {None}]]
        /\ \A ip \in Ips, r \in Ranks : OwnState(optim_file'[ip][r], r)
    <3> DEFINE v == Record(g)
               ip == Dest
               r == DestRank(g)
    <3>1. v \in States \cup {None} /\ ip \in Ips /\ r \in Ranks /\ OwnState(v, r)
      BY <1>2, <1>3
    <3>2. optim_file' = [optim_file EXCEPT ![ip][r] = v]  BY <2>1
    <3> HIDE DEF v, ip, r
    <3> QED BY <1>4, <3>1, <3>2, Updated DEF FilesAreOwn
  <2> QED BY <2>1, <2>2 DEF FilesAreOwn, Files
<1> QED  BY <1>7, <1>8, <1>9, <1>10 DEF RecoverGpuSnapshot

LEMMA UpdateHostfileTypes ==
    ASSUME ListTypes, FilesAreOwn, NEW f, UpdateHostfile(f)
    PROVE  ListTypes' /\ FilesAreOwn'
<1>1. hostfile \in Lists /\ ips_list \in Lists  BY DEF ListTypes
<1>2. ToSet(hostfile) \subseteq Ips /\ ToSet(ips_list) \subseteq Ips
  BY <1>1 DEF ToSet, Lists
<1>3. f \in [ToSet(hostfile) \ ToSet(ips_list) -> ToSet(ips_list) \ ToSet(hostfile)]
  BY DEF UpdateHostfile, Bijections
<1>4. hostfile' \in Lists  BY <1>1, <1>2, <1>3, ReplacedType DEF UpdateHostfile
<1> QED  BY <1>4 DEF UpdateHostfile, ListTypes, FilesAreOwn, job

LEMMA ListingsAreLists ==
    ASSUME ListTypes, NEW listing \in Listings
    PROVE  listing \in Lists
BY DEF Listings, Orders, ListTypes, Lists

LEMMA NextTypes == ListTypes /\ FilesAreOwn /\ [Next]_vars => (ListTypes /\ FilesAreOwn)'
<1> SUFFICES ASSUME ListTypes, FilesAreOwn, [Next]_vars PROVE ListTypes' /\ FilesAreOwn'
  OBVIOUS
<1>1. ASSUME disks' = disks PROVE FilesAreOwn'  BY <1>1 DEF FilesAreOwn, disks
<1>2. ASSUME NEW failed \in SUBSET MachineRanks, NEW silent \in SUBSET MachineRanks,
             Fail(failed, silent)
      PROVE  ListTypes' /\ FilesAreOwn'
  BY <1>2, FailTypes
<1>3. CASE ScaleUp  BY <1>1, <1>3, ScaleUpTypes DEF ScaleUp
<1>4. ASSUME NEW listing \in Listings, TerminateInstances(listing)
      PROVE  ListTypes' /\ FilesAreOwn'
  <2>1. listing \in Lists  BY ListingsAreLists
  <2>2. ListTypes'  BY <1>4, <2>1 DEF TerminateInstances, ListTypes, job
  <2> QED  BY <1>1, <1>4, <2>2 DEF TerminateInstances
<1>5. ASSUME NEW f, DiffIps(f) PROVE ListTypes' /\ FilesAreOwn'
  BY <1>1, <1>5, DiffIpsTypes DEF DiffIps
<1>6. CASE StartMpi  BY <1>1, <1>6 DEF StartMpi, ListTypes, lists
<1>7. CASE MpiEnds \/ MpiAborts
  <2>1. pairs' = Tail(pairs) /\ pairs # << >> /\ stage' = "recover"
    BY <1>7 DEF MpiEnds, MpiAborts, NextPair, ListTypes
  <2>2. pairs' \in Seq(RecoveryPair)  BY <2>1 DEF ListTypes
  <2> QED
    BY <1>1, <1>7, <2>1, <2>2 DEF MpiEnds, MpiAborts, NextPair, ListTypes, lists, job
<1>8. ASSUME NEW gpu \in Gpus, RecoverGpuSnapshot(gpu) PROVE ListTypes' /\ FilesAreOwn'
  BY <1>8, RecoverTypes
<1>9. ASSUME NEW f, UpdateHostfile(f) PROVE ListTypes' /\ FilesAreOwn'
  BY <1>9, UpdateHostfileTypes
<1>10. CASE UNCHANGED vars
  BY <1>1, <1>10 DEF vars, lists, disks, job, ListTypes
<1> QED
  BY <1>2, <1>3, <1>4, <1>5, <1>6, <1>7, <1>8, <1>9, <1>10 DEF Next, RootAgentNext

(* No rank ever finds the state of another rank in the checkpoint file of
   the snapshot folder that it loads, whatever machines fail, in whatever
   order AWS lists them and whatever the pairing of the sets: because the
   groups of machines and the groups of ranks fit (snapshot_recover.py). *)
THEOREM NobodyLoadsAnothersTheorem == Spec => []NobodyLoadsAnothers
<1>1. Init => ListTypes /\ FilesAreOwn  BY InitTypes
<1>2. ListTypes /\ FilesAreOwn /\ [Next]_vars => (ListTypes /\ FilesAreOwn)'
  BY NextTypes
<1>3. ListTypes /\ FilesAreOwn => NobodyLoadsAnothers
  <2> SUFFICES ASSUME ListTypes, FilesAreOwn, NEW r \in Ranks
               PROVE  LET f == optim_file[At(hostfile, MachineOf(r))][r]
                      IN  f # None => f.of = r
    BY DEF NobodyLoadsAnothers
  <2>1. At(hostfile, MachineOf(r)) \in Ips
    BY RankCoordinates, ListIndex DEF ListTypes
  <2> QED  BY <2>1 DEF FilesAreOwn, OwnState
<1> QED  BY <1>1, <1>2, <1>3, PTL DEF Spec

----------------------------------------------------------------------------
(* The places in the lists. *)

(* A list with its lost members replaced one by one has the new ones. *)
LEMMA ReplacedSet ==
    ASSUME NEW list \in Lists, NEW new, NEW f \in Bijections(ToSet(list) \ new, new \ ToSet(list))
    PROVE  /\ ToSet(Replaced(list, f)) = new
           /\ \A m \in MachineRanks : At(list, m) \in new => At(Replaced(list, f), m) = At(list, m)
<1> DEFINE old == ToSet(list)
           r == Replaced(list, f)
<1>1. /\ DOMAIN list = 1 .. Machines /\ DOMAIN r = 1 .. Machines
      /\ \A i \in 1 .. Machines : r[i] = IF list[i] \in old \ new THEN f[list[i]] ELSE list[i]
  BY DEF Lists, Replaced, Bijections
<1>2. /\ \A x \in old \ new : f[x] \in new \ old
      /\ \A t \in new \ old : \E x \in old \ new : f[x] = t
  BY DEF Bijections
<1>3. /\ \A i \in 1 .. Machines : list[i] \in old
      /\ \A x \in old : \E i \in 1 .. Machines : list[i] = x
  BY <1>1 DEF ToSet
<1>4. ToSet(r) = {r[i] : i \in 1 .. Machines}  BY <1>1 DEF ToSet
<1> HIDE DEF r, old
<1>5. ToSet(r) \subseteq new  BY <1>1, <1>2, <1>3, <1>4
<1>6. ASSUME NEW t \in new PROVE t \in ToSet(r)
  <2>1. CASE t \in old  BY <1>1, <1>3, <1>4, <1>6, <2>1
  <2>2. CASE t \notin old
    <3>1. PICK x \in old \ new : f[x] = t  BY <1>2, <1>6, <2>2
    <3>2. PICK i \in 1 .. Machines : list[i] = x  BY <1>3, <3>1
    <3> QED BY <1>1, <1>4, <3>1, <3>2
  <2> QED BY <2>1, <2>2
<1>7. \A m \in MachineRanks : At(list, m) \in new => At(r, m) = At(list, m)
  <2>1. \A m \in MachineRanks : m + 1 \in 1 .. Machines  BY ListIndex
  <2> QED BY <1>1, <2>1 DEF At
<1> QED BY <1>5, <1>6, <1>7 DEF r

LEMMA NextGroup ==
    ListTypes /\ FilesAreOwn /\ ListIsOfTheGroup /\ [Next]_vars => ListIsOfTheGroup'
<1> SUFFICES ASSUME ListTypes, FilesAreOwn, ListIsOfTheGroup, [Next]_vars
             PROVE  ListIsOfTheGroup'
  OBVIOUS
<1>1. ASSUME NEW failed, NEW silent, Fail(failed, silent) PROVE ListIsOfTheGroup'
  BY <1>1 DEF Fail, ListIsOfTheGroup
<1>2. CASE ScaleUp \/ \E listing \in Listings : TerminateInstances(listing)
  BY <1>2 DEF ScaleUp, TerminateInstances, ListIsOfTheGroup
<1>3. ASSUME NEW f, DiffIps(f) PROVE ListIsOfTheGroup'
  <2>1. /\ ips_list' = Replaced(pre_ips_list, f) /\ asg' = asg /\ pre_ips_list \in Lists
        /\ f \in Bijections(ToSet(pre_ips_list) \ asg, asg \ ToSet(pre_ips_list))
    BY <1>3 DEF DiffIps, ListTypes
  <2>2. ToSet(Replaced(pre_ips_list, f)) = asg  BY <2>1, ReplacedSet
  <2> QED BY <2>1, <2>2 DEF ListIsOfTheGroup
<1>4. CASE StartMpi \/ MpiEnds \/ MpiAborts
  BY <1>4 DEF StartMpi, MpiEnds, MpiAborts, NextPair, lists, ListIsOfTheGroup
<1>5. ASSUME NEW gpu \in Gpus, RecoverGpuSnapshot(gpu) PROVE ListIsOfTheGroup'
  BY <1>5 DEF RecoverGpuSnapshot, SendOptim, SendModel, SaveModel, ReceiveOptim, ReceiveModel,
              lists, ListIsOfTheGroup
<1>6. ASSUME NEW f, UpdateHostfile(f) PROVE ListIsOfTheGroup'
  BY <1>6 DEF UpdateHostfile, ListIsOfTheGroup
<1>7. CASE UNCHANGED vars  BY <1>7 DEF vars, lists, ListIsOfTheGroup
<1> QED  BY <1>1, <1>2, <1>3, <1>4, <1>5, <1>6, <1>7 DEF Next, RootAgentNext

(* Training starts again on the instances that run, and the machines that
   did not fail have the ranks they had: in whatever order AWS lists the
   instances, and whatever machine takes the place of which (diff_ips and
   update_hostfile). *)
THEOREM SurvivorsTheorem == Spec => SurvivorsKeepTheirRanks
<1> DEFINE Inv == ListTypes /\ FilesAreOwn /\ ListIsOfTheGroup
           Kept == stage' = "training" =>
                      /\ ToSet(hostfile') = asg
                      /\ \A m \in MachineRanks :
                             At(hostfile, m) \in asg => At(hostfile', m) = At(hostfile, m)
<1>1. Init => Inv  BY InitTypes DEF Init, ListIsOfTheGroup
<1>2. Inv /\ [Next]_vars => Inv'  BY NextTypes, NextGroup
<1>3. Inv /\ [Next]_vars => [Kept]_vars
  <2> SUFFICES ASSUME Inv, Next, stage' = "training"
               PROVE  /\ ToSet(hostfile') = asg
                      /\ \A m \in MachineRanks :
                             At(hostfile, m) \in asg => At(hostfile', m) = At(hostfile, m)
    OBVIOUS
  <2>1. PICK f : UpdateHostfile(f)
    BY DEF Next, RootAgentNext, Fail, ScaleUp, TerminateInstances, DiffIps, StartMpi, MpiEnds,
           MpiAborts, NextPair, RecoverGpuSnapshot, SendOptim, SendModel, SaveModel,
           ReceiveOptim, ReceiveModel
  <2>2. /\ hostfile' = Replaced(hostfile, f) /\ hostfile \in Lists /\ ToSet(ips_list) = asg
        /\ f \in Bijections(ToSet(hostfile) \ ToSet(ips_list), ToSet(ips_list) \ ToSet(hostfile))
    BY <2>1 DEF UpdateHostfile, ListTypes, ListIsOfTheGroup
  <2>3. f \in Bijections(ToSet(hostfile) \ asg, asg \ ToSet(hostfile))  BY <2>2
  <2> QED BY <2>2, <2>3, ReplacedSet
<1> QED  BY <1>1, <1>2, <1>3, PTL DEF Spec, SurvivorsKeepTheirRanks

----------------------------------------------------------------------------
(* The states of the replaced machines. *)

(* Every failed machine is the destination of at most one pair; of exactly
   one if no partner of a failed machine has failed. *)
LEMMA OnePairEach ==
    ASSUME NEW failed \in SUBSET MachineRanks, NEW list \in ListsOf(failed),
           NEW p, p = RecoveryPairs(failed, list)
    PROVE  /\ \A i, j \in 1 .. Len(p) : p[i].dst = p[j].dst => i = j
           /\ \A i \in 1 .. Len(p) : p[i].dst \in failed
           /\ (\A m \in failed : Partner(m) \notin failed) =>
                  \A m \in failed : \E i \in 1 .. Len(p) : p[i].dst = m
<1> DEFINE n == Cardinality(failed)
<1>1. IsFiniteSet(failed) /\ n \in Nat
  <2>1. IsFiniteSet(MachineRanks)
    BY FS_Interval, GroupAssumption DEF MachineRanks
  <2> QED BY <2>1, FS_Subset, FS_CardinalityType
<1>2. list \in [1 .. n -> failed] /\ \A m \in failed : \E i \in 1 .. n : list[i] = m
  BY DEF ListsOf, ToSet
<1>3. \A i, j \in 1 .. n : list[i] = list[j] => i = j
  <2>1. list \in Surjection(1 .. n, failed)  BY <1>2 DEF Surjection
  <2>2. IsFiniteSet(1 .. n) /\ Cardinality(1 .. n) = Cardinality(failed)
    BY <1>1, FS_Interval
  <2>3. list \in Injection(1 .. n, failed)
    BY <2>1, <2>2, FS_SurjSameCardinalityImpliesInj
  <2> QED BY <2>3 DEF Injection, IsInjective
<1>4. CASE \E m \in failed : Sources(failed, m) = {}
  <2>1. p = << >>  BY <1>4 DEF RecoveryPairs
  <2>2. PICK m \in failed : Sources(failed, m) = {}  BY <1>4
  <2>3. Partner(m) \in GetMachineGroup(m)
    BY PartnerFacts DEF GetMachineGroup, GroupSize
  <2>4. Partner(m) \in failed  BY <2>2, <2>3 DEF Sources
  <2> QED BY <2>1, <2>4
<1>5. CASE \A m \in failed : Sources(failed, m) # {}
  <2> DEFINE source(m) == CHOOSE s \in Sources(failed, m) : \A t \in Sources(failed, m) : s <= t
  <2>1. p = [i \in 1 .. n |-> [src |-> source(list[i]), dst |-> list[i]]]
    BY <1>5 DEF RecoveryPairs
  <2> HIDE DEF source
  <2>2. Len(p) = n /\ \A i \in 1 .. n : p[i].dst = list[i]  BY <1>1, <2>1
  <2> QED BY <1>2, <1>3, <2>2
<1> QED BY <1>4, <1>5

(* A rank of a partner, and the file and the record it has there. *)
LEMMA PartnersRank ==
    ASSUME ListTypes, NEW m \in MachineRanks, NEW g \in Gpus
    PROVE  /\ Partner(m) \in MachineRanks /\ Partner(m) # m
           /\ At(ips_list, Partner(m)) \in Ips /\ At(ips_list, m) \in Ips
           /\ RankOn(Partner(m), g) \in Ranks /\ RankOn(m, g) \in Ranks
           /\ RankOn(Partner(m), g) # RankOn(m, g)
           /\ GetPeerRank(RankOn(Partner(m), g)) = RankOn(m, g)
<1>1. Partner(m) \in MachineRanks /\ Partner(m) # m  BY PartnerFacts
<1>2. /\ RankOn(Partner(m), g) \in Ranks /\ MachineOf(RankOn(Partner(m), g)) = Partner(m)
      /\ RankOn(m, g) \in Ranks /\ MachineOf(RankOn(m, g)) = m
  BY <1>1, RankOnFacts
<1> QED  BY <1>1, <1>2, ListIndex, PeerOnPartner DEF ListTypes

(* Two pairs have no rank in common, two GPUs of a pair neither. *)
LEMMA OtherRanks ==
    ASSUME NEW m \in MachineRanks, NEW d \in MachineRanks, NEW g \in Gpus, NEW h \in Gpus,
           m # d \/ g # h, Partner(m) # d
    PROVE  /\ RankOn(m, h) \notin {RankOn(d, g), RankOn(Partner(d), g)}
           /\ RankOn(Partner(m), h) \notin {RankOn(d, g), RankOn(Partner(d), g)}
<1>1. /\ Partner(m) \in MachineRanks /\ Partner(m) # m /\ Partner(Partner(m)) = m
      /\ Partner(d) \in MachineRanks /\ Partner(d) # d /\ Partner(Partner(d)) = d
  BY PartnerFacts
<1>2. \A a \in MachineRanks, k \in Gpus : MachineOf(RankOn(a, k)) = a /\ GpuOf(RankOn(a, k)) = k
  BY RankOnFacts
<1>3. m # Partner(d)  BY <1>1
<1>4. m # d => Partner(m) # Partner(d)  BY <1>1
<1>5. \A a, b \in MachineRanks : (a # b \/ h # g) => RankOn(a, h) # RankOn(b, g)
  BY <1>2
<1> QED  BY <1>1, <1>3, <1>4, <1>5

LEMMA InitRestored == Init => RecordsComeWithFiles /\ RestoredInTurn
<1> SUFFICES ASSUME Init PROVE RecordsComeWithFiles /\ RestoredInTurn  OBVIOUS
<1>1. /\ stage = "training" /\ failures = 0 /\ failed_machines = {} /\ pairs = << >>
      /\ hostfile = Initial /\ templates = ToSet(Initial)
      /\ \A ip \in Ips, r \in Ranks : remote_file[ip][r].failure = -1
  BY DEF Init, None, Absent
<1> QED  BY <1>1 DEF RecordsComeWithFiles, RestoredInTurn

(* Whoever saves has trained, and writes its own state and the record. *)
LEMMA FailRestored ==
    ASSUME ListTypes, FilesAreOwn, RecordsComeWithFiles, NEW failed \in SUBSET MachineRanks,
           NEW silent \in SUBSET MachineRanks, Fail(failed, silent)
    PROVE  RecordsComeWithFiles' /\ RestoredInTurn'
<1>1. /\ failures \in Nat /\ failures' = failures + 1 /\ stage = "training"
      /\ stage' \in {"replace", "unheard"}
      /\ UNCHANGED <<templates, model_file>>
  BY RecoverAssumption DEF Fail, ListTypes
<1>2. ASSUME NEW ip \in Ips, NEW r \in Ranks
      PROVE  \/ /\ remote_file'[ip][r].failure = failures'
                /\ ip \in templates' /\ model_file'[ip][r] # Absent
                /\ local_file'[ip][r] = [of |-> r, failure |-> failures']
             \/ remote_file'[ip][r].failure <= failures
  <2> DEFINE host(q) == At(hostfile, MachineOf(q))
             trained == \A q \in Ranks : model_file[host(q)][q] # Absent
             saves == trained /\ MachineOf(r) \notin failed \cup silent /\ ip = host(r)
  <2>1. CASE ~saves
    <3>1. remote_file'[ip][r] = remote_file[ip][r]  BY <2>1 DEF Fail
    <3> QED BY <3>1 DEF RecordsComeWithFiles
  <2>2. CASE saves
    <3>1. /\ local_file'[ip][r] = [of |-> r, failure |-> failures']
          /\ remote_file'[ip][r] = [of |-> GetPeerRank(r), failure |-> failures']
      BY <2>2 DEF Fail
    <3>2. MachineOf(r) + 1 \in 1 .. Machines /\ host(r) = hostfile[MachineOf(r) + 1]
      BY RankCoordinates, ListIndex DEF ListTypes
    <3>3. host(r) \in ToSet(hostfile)  BY <3>2 DEF ToSet, ListTypes, Lists
    <3>4. ip \in templates  BY <1>1, <2>2, <3>3 DEF RecordsComeWithFiles
    <3> QED BY <1>1, <2>2, <3>1, <3>4
  <2> QED BY <2>1, <2>2
<1>3. ASSUME NEW ip \in Ips, NEW r \in Ranks
      PROVE  remote_file'[ip][r].failure <= failures'
  <2>1. remote_file'[ip][r].failure \in Int
    <3>1. FilesAreOwn'  BY FailTypes
    <3>2. remote_file'[ip][r] \in States \cup {None}
      BY <3>1 DEF FilesAreOwn, OwnState
    <3> QED BY <3>2, RecoverAssumption DEF States, None, Absent
  <2> DEFINE x == remote_file'[ip][r].failure
  <2>2. x = failures' \/ x <= failures  BY <1>2
  <2>3. x \in Int  BY <2>1
  <2> HIDE DEF x
  <2>4. x <= failures'  BY <1>1, <2>2, <2>3
  <2> QED BY <2>4 DEF x
<1>4. ASSUME NEW ip \in Ips, NEW r \in Ranks, remote_file'[ip][r].failure = failures'
      PROVE  /\ ip \in templates' /\ model_file'[ip][r] # Absent
             /\ local_file'[ip][r] = [of |-> r, failure |-> failures']
  BY <1>1, <1>2, <1>4
<1> QED BY <1>1, <1>3, <1>4 DEF RecordsComeWithFiles, RestoredInTurn

(* The pairs are of all the machines that are to be recovered. *)
LEMMA DiffIpsRestored ==
    ASSUME ListTypes, RecordsComeWithFiles, RestoredInTurn, NEW f, DiffIps(f)
    PROVE  RecordsComeWithFiles' /\ RestoredInTurn'
<1>1. /\ stage = "wait" /\ stage' = "recover"
      /\ UNCHANGED <<failed_machines, failures, templates, local_file, remote_file, optim_file,
                     model_file>>
  BY DEF DiffIps, disks
<1>2. ListTypes'  BY DiffIpsTypes
<1>3. PICK list \in ListsOf(failed_machines) : pairs' = RecoveryPairs(failed_machines, list)
  BY DEF DiffIps
<1>4. failed_machines \in SUBSET MachineRanks  BY DEF ListTypes
<1>5. /\ \A i, j \in 1 .. Len(pairs') : pairs'[i].dst = pairs'[j].dst => i = j
      /\ \A i \in 1 .. Len(pairs') : pairs'[i].dst \in failed_machines
      /\ (\A m \in failed_machines : Partner(m) \notin failed_machines) =>
             \A m \in failed_machines : \E i \in 1 .. Len(pairs') : pairs'[i].dst = m
  BY <1>3, <1>4, OnePairEach
<1>6. ASSUME AllHavePartners', NEW m \in failed_machines, HasSaved(Partner(m))', NEW g \in Gpus
      PROVE  FilesAt(m, Partner(m), g, SentTo(m, g), SavedBy(m, g))'
  <2>1. Pending(m)'  BY <1>1, <1>5, <1>6 DEF AllHavePartners, Pending
  <2>2. SentTo(m, g)' = 0 /\ SavedBy(m, g)' = 0
    BY <1>1, <2>1 DEF SentTo, SavedBy, Active
  <2>3. Partner(m) \in MachineRanks /\ RankOn(Partner(m), g) \in Ranks
    BY <1>4, PartnersRank
  <2>4. At(ips_list', Partner(m)) \in Ips
    BY <1>2, <2>3, ListIndex DEF ListTypes
  <2>5. remote_file[At(ips_list', Partner(m))][RankOn(Partner(m), g)].failure = failures
    BY <1>1, <1>6 DEF HasSaved
  <2>6. local_file[At(ips_list', Partner(m))][RankOn(Partner(m), g)]
            = [of |-> RankOn(Partner(m), g), failure |-> failures]
    BY <1>1, <2>3, <2>4, <2>5 DEF RecordsComeWithFiles
  <2> QED BY <1>1, <2>2, <2>6 DEF FilesAt
<1>7. RecordsComeWithFiles'  BY <1>1 DEF RecordsComeWithFiles
<1>8. \A m \in failed_machines : ~Active(m)'  BY <1>1 DEF Active
<1> QED BY <1>1, <1>5, <1>6, <1>7, <1>8 DEF RestoredInTurn

(* A job changes files of its own ranks, and counts of its own processes. *)
LEMMA JobFrame ==
    ASSUME ListTypes, FilesAreOwn, NEW g \in Gpus, RecoverGpuSnapshot(g)
    PROVE  /\ stage = "mpi"
           /\ UNCHANGED <<stage, ips_list, hostfile, failed_machines, pairs, failures,
                          remote_file, templates>>
           /\ \A h \in Gpus \ {g} : sent'[h] = sent[h] /\ received'[h] = received[h]
           /\ \A ip \in Ips, q \in Ranks \ {SourceRank(g), DestRank(g)} :
                  /\ local_file'[ip][q] = local_file[ip][q]
                  /\ optim_file'[ip][q] = optim_file[ip][q]
                  /\ model_file'[ip][q] = model_file[ip][q]
<1>1. /\ stage = "mpi"
      /\ UNCHANGED <<stage, ips_list, hostfile, failed_machines, pairs, failures,
                     remote_file, templates>>
      /\ \A h \in Gpus \ {g} : sent'[h] = sent[h] /\ received'[h] = received[h]
  BY DEF RecoverGpuSnapshot, SendOptim, SendModel, SaveModel, ReceiveOptim, ReceiveModel,
         Raises, Sends, ListTypes, disks, lists
<1>2. Source \in Ips /\ Dest \in Ips /\ SourceRank(g) \in Ranks /\ DestRank(g) \in Ranks
  BY <1>1, JobRanks
<1>3. /\ {local_file, optim_file} \subseteq [Ips -> [Ranks -> States \cup {None}]]
      /\ model_file \in [Ips -> [Ranks -> {Absent} \cup 0 .. MaxFailures]]
  BY DEF FilesAreOwn, Files, ModelFiles
<1>4. local_file' = local_file \/ \E v : local_file' = [local_file EXCEPT ![Source][SourceRank(g)] = v]
  BY DEF RecoverGpuSnapshot, SendOptim, SendModel, SaveModel, ReceiveOptim, ReceiveModel, disks
<1>5. \/ optim_file' = optim_file
      \/ \E v : optim_file' = [optim_file EXCEPT ![Source][SourceRank(g)] = v]
      \/ \E v : optim_file' = [optim_file EXCEPT ![Dest][DestRank(g)] = v]
  BY DEF RecoverGpuSnapshot, SendOptim, SendModel, SaveModel, ReceiveOptim, ReceiveModel, disks
<1>6. \/ model_file' = model_file
      \/ \E v : model_file' = [model_file EXCEPT ![Source][SourceRank(g)] = v]
      \/ \E v : model_file' = [model_file EXCEPT ![Dest][DestRank(g)] = v]
  BY DEF RecoverGpuSnapshot, SendOptim, SendModel, SaveModel, ReceiveOptim, ReceiveModel, disks
<1>7. ASSUME NEW ip \in Ips, NEW q \in Ranks \ {SourceRank(g), DestRank(g)}
      PROVE  /\ local_file'[ip][q] = local_file[ip][q]
             /\ optim_file'[ip][q] = optim_file[ip][q]
             /\ model_file'[ip][q] = model_file[ip][q]
  <2>1. local_file'[ip][q] = local_file[ip][q]  BY <1>2, <1>3, <1>4
  <2>2. optim_file'[ip][q] = optim_file[ip][q]
    <3>1. optim_file' = optim_file
          \/ \E i \in Ips, p \in {SourceRank(g), DestRank(g)} : \E v :
                 optim_file' = [optim_file EXCEPT ![i][p] = v]
      BY <1>2, <1>5
    <3> QED BY <1>2, <1>3, <3>1
  <2>3. model_file'[ip][q] = model_file[ip][q]
    <3>1. model_file' = model_file
          \/ \E i \in Ips, p \in {SourceRank(g), DestRank(g)} : \E v :
                 model_file' = [model_file EXCEPT ![i][p] = v]
      BY <1>2, <1>6
    <3> QED BY <1>2, <1>3, <3>1
  <2> QED BY <2>1, <2>2, <2>3
<1> QED BY <1>1, <1>7

(* A job whose source has saved does not raise, and goes on as it should. *)
LEMMA JobProgress ==
    ASSUME ListTypes, FilesAreOwn, RecordsComeWithFiles, NEW g \in Gpus, RecoverGpuSnapshot(g),
           NEW m \in MachineRanks, m = pairs[1].dst, HasSaved(Partner(m)), raised = {},
           FilesAt(m, Partner(m), g, sent[g], received[g])
    PROVE  raised' = {} /\ FilesAt(m, Partner(m), g, sent[g], received[g])'
<1> DEFINE src == At(ips_list, Partner(m))
           dst == At(ips_list, m)
           r == RankOn(Partner(m), g)
           t == RankOn(m, g)
           own == [of |-> r, failure |-> failures]
           peers == [of |-> t, failure |-> failures]
<1>1. stage = "mpi" /\ ips_list' = ips_list /\ failures' = failures
  BY JobFrame
<1>2. /\ Source = src /\ Dest = dst /\ SourceRank(g) = r /\ DestRank(g) = t
      /\ src \in Ips /\ dst \in Ips /\ r \in Ranks /\ t \in Ranks /\ r # t
      /\ OwnState(Record(g), t)
  BY <1>1, JobRanks, PartnersRank
<1>3. Record(g) = remote_file[src][r] /\ Record(g).failure = failures
  BY <1>2 DEF Record, HasSaved
<1>4. failures \in Nat  BY RecoverAssumption DEF ListTypes
<1>5. Record(g) # None /\ Record(g) = peers
  <2>1. Record(g) # None  BY <1>3, <1>4 DEF None, Absent
  <2>2. Record(g) \in States /\ Record(g).of = t  BY <1>2, <2>1 DEF OwnState
  <2> QED BY <1>3, <2>1, <2>2 DEF States
<1>6. src \in templates /\ model_file[src][r] # Absent
  BY <1>2, <1>3 DEF RecordsComeWithFiles
<1>7. own # None  BY <1>4 DEF None, Absent
<1>8. /\ {local_file, optim_file} \subseteq [Ips -> [Ranks -> States \cup {None}]]
      /\ model_file \in [Ips -> [Ranks -> {Absent} \cup 0 .. MaxFailures]]
      /\ sent \in [Gpus -> 0 .. 3] /\ received \in [Gpus -> 0 .. 2]
  BY DEF FilesAreOwn, Files, ModelFiles, ListTypes
<1>9. /\ sent[g] <= 1 => local_file[src][r] = own
      /\ sent[g] >= 2 => optim_file[src][r] = own
      /\ sent[g] = 3 => model_file[src][r] = failures
      /\ received[g] >= 1 => optim_file[dst][t] = peers
      /\ received[g] = 2 => model_file[dst][t] = failures
  BY DEF FilesAt
<1> SUFFICES /\ raised' = {}
             /\ sent'[g] <= 1 => local_file'[src][r] = own
             /\ sent'[g] >= 2 => optim_file'[src][r] = own
             /\ sent'[g] = 3 => model_file'[src][r] = failures
             /\ received'[g] >= 1 => optim_file'[dst][t] = peers
             /\ received'[g] = 2 => model_file'[dst][t] = failures
  BY <1>1 DEF FilesAt
<1> HIDE DEF src, dst, r, t, own, peers
<1>10. CASE SendOptim(g)
  <2>1. sent'[g] = 1 /\ sent[g] = 0 /\ raised' = {} /\ UNCHANGED <<received, disks>>
    BY <1>2, <1>5, <1>6, <1>8, <1>10 DEF SendOptim, Sends
  <2> QED BY <1>9, <2>1 DEF disks
<1>11. CASE SendModel(g)
  <2>1. sent[g] = 1 /\ local_file[src][r] = own  BY <1>9, <1>11 DEF SendModel
  <2>2. /\ optim_file' = [optim_file EXCEPT ![src][r] = own]
        /\ sent'[g] = 2 /\ raised' = {} /\ UNCHANGED <<received, model_file>>
    BY <1>2, <1>6, <1>7, <1>8, <1>11, <2>1 DEF SendModel, Sends
  <2>3. optim_file'[src][r] = own /\ optim_file'[dst][t] = optim_file[dst][t]
    BY <1>2, <1>8, <2>2
  <2> QED BY <1>9, <2>1, <2>2, <2>3
<1>12. CASE SaveModel(g)
  <2>1. /\ model_file' = [model_file EXCEPT ![src][r] = failures]
        /\ sent[g] = 2 /\ sent'[g] = 3 /\ raised' = {}
        /\ UNCHANGED <<received, local_file, optim_file>>
    BY <1>2, <1>3, <1>8, <1>12 DEF SaveModel
  <2>2. model_file'[src][r] = failures /\ model_file'[dst][t] = model_file[dst][t]
    BY <1>2, <1>8, <2>1
  <2> QED BY <1>9, <2>1, <2>2
<1>13. CASE ReceiveOptim(g)
  <2>1. /\ optim_file' = [optim_file EXCEPT ![dst][t] = peers]
        /\ received'[g] = 1 /\ raised' = {} /\ UNCHANGED <<sent, local_file, model_file>>
    BY <1>2, <1>5, <1>8, <1>13 DEF ReceiveOptim
  <2>2. optim_file'[dst][t] = peers /\ optim_file'[src][r] = optim_file[src][r]
    BY <1>2, <1>8, <2>1
  <2> QED BY <1>9, <2>1, <2>2
<1>14. CASE ReceiveModel(g)
  <2>1. /\ model_file' = [model_file EXCEPT ![dst][t] = failures]
        /\ received[g] = 1 /\ received'[g] = 2 /\ raised' = {}
        /\ UNCHANGED <<sent, local_file, optim_file>>
    BY <1>2, <1>3, <1>8, <1>14 DEF ReceiveModel
  <2>2. model_file'[dst][t] = failures /\ model_file'[src][r] = model_file[src][r]
    BY <1>2, <1>8, <2>1
  <2> QED BY <1>9, <2>1, <2>2
<1> QED  BY <1>10, <1>11, <1>12, <1>13, <1>14 DEF RecoverGpuSnapshot

LEMMA RecoverRecords ==
    ASSUME ListTypes, FilesAreOwn, RecordsComeWithFiles, NEW g \in Gpus, RecoverGpuSnapshot(g)
    PROVE  RecordsComeWithFiles'
<1>1. /\ stage = "mpi" /\ stage' = "mpi" /\ UNCHANGED <<ips_list, pairs, failures, remote_file, templates>>
      /\ \A h \in Gpus \ {g} : sent'[h] = sent[h]
  BY JobFrame
<1>2. \A h \in Gpus : Record(h)' = Record(h)
  BY <1>1 DEF Record, Source, SourceRank
<1>3. ASSUME NEW h \in Gpus, sent'[h] >= 1 PROVE Record(h)' # None
  <2>1. CASE sent[h] >= 1  BY <1>1, <1>2, <2>1 DEF RecordsComeWithFiles
  <2>2. CASE ~(sent[h] >= 1)
    <3>1. h = g /\ SendOptim(g)
      BY <1>1, <1>3, <2>2 DEF RecoverGpuSnapshot, SendModel, SaveModel, ReceiveOptim,
                               ReceiveModel, ListTypes
    <3> QED BY <1>1, <1>2, <1>3, <2>2, <3>1 DEF SendOptim, Raises
  <2> QED BY <2>1, <2>2
<1>4. ASSUME NEW ip \in Ips, NEW r \in Ranks, model_file[ip][r] # Absent
      PROVE  model_file'[ip][r] # Absent
  <2>1. CASE model_file' = model_file  BY <1>4, <2>1
  <2>2. CASE SaveModel(g) \/ ReceiveModel(g)
    <3> DEFINE v == Record(g).failure
    <3>1. sent[g] >= 1 /\ Record(g) # None
      BY <1>1, <2>2 DEF SaveModel, ReceiveModel, RecordsComeWithFiles, ListTypes
    <3>2. v \in 0 .. MaxFailures  BY <1>1, <3>1, JobRanks DEF OwnState, States
    <3>3. \E i \in Ips, q \in Ranks : model_file' = [model_file EXCEPT ![i][q] = v]
      BY <1>1, <2>2, JobRanks DEF SaveModel, ReceiveModel
    <3>4. model_file \in [Ips -> [Ranks -> {Absent} \cup 0 .. MaxFailures]]
      BY DEF FilesAreOwn, ModelFiles
    <3>5. v # Absent  BY <3>2 DEF Absent
    <3> HIDE DEF v
    <3> QED BY <1>4, <3>3, <3>4, <3>5
  <2> QED BY <2>1, <2>2 DEF RecoverGpuSnapshot, SendOptim, SendModel, ReceiveOptim, disks
<1> QED BY <1>1, <1>3, <1>4 DEF RecordsComeWithFiles

LEMMA RecoverRestored ==
    ASSUME ListTypes, FilesAreOwn, RecordsComeWithFiles, RestoredInTurn,
           NEW g \in Gpus, RecoverGpuSnapshot(g)
    PROVE  RestoredInTurn'
<1> DEFINE d == pairs[1].dst
<1>1. /\ stage = "mpi" /\ stage' = "mpi"
      /\ UNCHANGED <<ips_list, failed_machines, pairs, failures, remote_file>>
      /\ \A h \in Gpus \ {g} : sent'[h] = sent[h] /\ received'[h] = received[h]
  BY JobFrame
<1>2. pairs \in Seq(RecoveryPair) /\ pairs # << >> /\ failed_machines \subseteq MachineRanks
  BY <1>1 DEF ListTypes
<1>3. d \in failed_machines
  <2>1. 1 \in 1 .. Len(pairs)  BY <1>2
  <2> QED BY <1>1, <2>1 DEF RestoredInTurn
<1>4. /\ SourceRank(g) = RankOn(Partner(d), g) /\ DestRank(g) = RankOn(d, g)
  BY <1>1, JobRanks
<1>5. ASSUME AllHavePartners, NEW m \in failed_machines, HasSaved(Partner(m))
      PROVE  /\ Active(m) => raised' = {}
             /\ \A h \in Gpus : FilesAt(m, Partner(m), h, SentTo(m, h), SavedBy(m, h))'
  <2>1. m \in MachineRanks /\ d \in MachineRanks /\ Partner(m) # d
    BY <1>2, <1>3, <1>5 DEF AllHavePartners
  <2>2. /\ Active(m) => raised = {}
        /\ \A h \in Gpus : FilesAt(m, Partner(m), h, SentTo(m, h), SavedBy(m, h))
    BY <1>1, <1>5 DEF RestoredInTurn
  <2>3. Active(m)' = Active(m) /\ Pending(m)' = Pending(m) /\ (Active(m) <=> m = d)
    BY <1>1 DEF Active, Pending
  <2>4. ASSUME NEW h \in Gpus, m # d \/ g # h
        PROVE  FilesAt(m, Partner(m), h, SentTo(m, h), SavedBy(m, h))'
    <3>1. SentTo(m, h)' = SentTo(m, h) /\ SavedBy(m, h)' = SavedBy(m, h)
      BY <1>1, <2>3, <2>4 DEF SentTo, SavedBy
    <3> DEFINE src == At(ips_list, Partner(m))
               dst == At(ips_list, m)
               r == RankOn(Partner(m), h)
               t == RankOn(m, h)
    <3>2. r \notin {SourceRank(g), DestRank(g)} /\ t \notin {SourceRank(g), DestRank(g)}
      BY <1>4, <2>1, <2>4, OtherRanks
    <3>3. src \in Ips /\ dst \in Ips /\ r \in Ranks /\ t \in Ranks
      BY <2>1, PartnersRank
    <3> HIDE DEF src, dst, r, t
    <3>4. /\ local_file'[src][r] = local_file[src][r]
          /\ optim_file'[src][r] = optim_file[src][r] /\ optim_file'[dst][t] = optim_file[dst][t]
          /\ model_file'[src][r] = model_file[src][r] /\ model_file'[dst][t] = model_file[dst][t]
      BY <3>2, <3>3, JobFrame
    <3> QED BY <1>1, <2>2, <3>1, <3>4 DEF FilesAt, src, dst, r, t
  <2>5. CASE m # d  BY <2>3, <2>4, <2>5
  <2>6. CASE m = d
    <3>1. raised = {} /\ SentTo(m, g) = sent[g] /\ SavedBy(m, g) = received[g]
      BY <2>2, <2>3, <2>6 DEF SentTo, SavedBy
    <3>2. FilesAt(m, Partner(m), g, sent[g], received[g])  BY <2>2, <3>1
    <3>3. raised' = {} /\ FilesAt(m, Partner(m), g, sent[g], received[g])'
      BY <1>5, <2>1, <2>6, <3>1, <3>2, JobProgress
    <3>4. SentTo(m, g)' = sent'[g] /\ SavedBy(m, g)' = received'[g]
      BY <2>3, <2>6 DEF SentTo, SavedBy
    <3>5. FilesAt(m, Partner(m), g, SentTo(m, g), SavedBy(m, g))'
      BY <3>3, <3>4 DEF FilesAt
    <3> QED BY <2>4, <3>3, <3>5
  <2> QED BY <2>5, <2>6
<1>6. (AllHavePartners' <=> AllHavePartners) /\ \A m : HasSaved(m)' <=> HasSaved(m)
  BY <1>1 DEF AllHavePartners, HasSaved
<1>7. \A m : Active(m)' <=> Active(m)  BY <1>1 DEF Active
<1> QED BY <1>1, <1>5, <1>6, <1>7 DEF RestoredInTurn

LEMMA MpiRestored ==
    ASSUME ListTypes, RecordsComeWithFiles, RestoredInTurn, StartMpi \/ MpiEnds \/ MpiAborts
    PROVE  RecordsComeWithFiles' /\ RestoredInTurn'
<1>1. /\ stage \in {"recover", "mpi"} /\ stage' \in {"recover", "mpi"}
      /\ UNCHANGED <<ips_list, failed_machines, failures, disks>>
      /\ stage' = "mpi" => \A g \in Gpus : sent'[g] = 0
  BY DEF StartMpi, MpiEnds, MpiAborts, NextPair, lists
<1>2. RecordsComeWithFiles'  BY <1>1 DEF RecordsComeWithFiles, disks
<1>3. pairs \in Seq(RecoveryPair) /\ pairs # << >>
  BY DEF ListTypes, StartMpi, MpiEnds, MpiAborts
<1>4. /\ \A i, j \in 1 .. Len(pairs) : pairs[i].dst = pairs[j].dst => i = j
      /\ \A i \in 1 .. Len(pairs) : pairs[i].dst \in failed_machines
  BY <1>1 DEF RestoredInTurn
<1>5. (AllHavePartners' <=> AllHavePartners) /\ \A m : HasSaved(m)' <=> HasSaved(m)
  BY <1>1 DEF AllHavePartners, HasSaved, disks
<1>7. CASE StartMpi
  <2>1. /\ stage = "recover" /\ stage' = "mpi" /\ pairs' = pairs /\ raised' = {}
        /\ \A g \in Gpus : sent'[g] = 0 /\ received'[g] = 0
    BY <1>7 DEF StartMpi
  <2>2. \A m : \A g \in Gpus : SentTo(m, g)' = SentTo(m, g) /\ SavedBy(m, g)' = SavedBy(m, g)
    <3>1. 1 \in 1 .. Len(pairs)  BY <1>3
    <3> QED BY <2>1, <3>1 DEF SentTo, SavedBy, Active, Pending
  <2>3. ASSUME AllHavePartners, NEW m \in failed_machines, HasSaved(Partner(m)), NEW g \in Gpus
        PROVE  FilesAt(m, Partner(m), g, SentTo(m, g), SavedBy(m, g))'
    <3>1. FilesAt(m, Partner(m), g, SentTo(m, g), SavedBy(m, g))
      BY <2>1, <2>3 DEF RestoredInTurn
    <3> QED BY <1>1, <2>2, <3>1 DEF FilesAt, disks
  <2> QED BY <1>1, <1>2, <1>4, <1>5, <2>1, <2>3 DEF RestoredInTurn
<1>8. CASE MpiEnds \/ MpiAborts
  <2>1. /\ stage = "mpi" /\ stage' = "recover" /\ pairs' = Tail(pairs)
        /\ (\A g \in Gpus : sent[g] = 3 /\ received[g] = 2) \/ raised # {}
    BY <1>8 DEF MpiEnds, MpiAborts, NextPair
  <2>2. /\ Len(pairs) \in Nat \ {0} /\ Len(pairs') = Len(pairs) - 1
        /\ \A i \in 1 .. Len(pairs') : pairs'[i] = pairs[i + 1]
    BY <1>3, <2>1
  <2>3. \A m : ~Active(m)'  BY <2>1 DEF Active
  <2>4. ASSUME NEW m, m = pairs[1].dst PROVE ~Pending(m)'
    <3>1. ASSUME NEW i \in 1 .. Len(pairs') PROVE pairs'[i].dst # m
      <4>1. i + 1 \in 1 .. Len(pairs) /\ 1 \in 1 .. Len(pairs) /\ i + 1 # 1
        BY <2>2
      <4> QED BY <1>4, <2>2, <2>4, <4>1
    <3> QED BY <3>1 DEF Pending
  <2>5. ASSUME NEW m, m # pairs[1].dst PROVE Pending(m)' <=> Pending(m)
    <3>1. ASSUME NEW i \in 1 .. Len(pairs), pairs[i].dst = m
          PROVE  i - 1 \in 1 .. Len(pairs') /\ pairs'[i - 1].dst = m
      <4>1. i # 1  BY <2>5, <3>1
      <4>2. i - 1 \in 1 .. Len(pairs') /\ (i - 1) + 1 = i  BY <2>2, <4>1
      <4> QED BY <2>2, <3>1, <4>2
    <3>2. ASSUME NEW i \in 1 .. Len(pairs'), pairs'[i].dst = m
          PROVE  i + 1 \in 1 .. Len(pairs) /\ pairs[i + 1].dst = m
      BY <2>2, <3>2
    <3> QED BY <3>1, <3>2 DEF Pending
  <2>6. ASSUME AllHavePartners, NEW m \in failed_machines, HasSaved(Partner(m)), NEW g \in Gpus
        PROVE  FilesAt(m, Partner(m), g, SentTo(m, g), SavedBy(m, g))'
    <3>1. /\ Active(m) => raised = {}
          /\ FilesAt(m, Partner(m), g, SentTo(m, g), SavedBy(m, g))
      BY <2>1, <2>6 DEF RestoredInTurn
    <3>2. SentTo(m, g)' = SentTo(m, g) /\ SavedBy(m, g)' = SavedBy(m, g)
      <4>1. CASE m = pairs[1].dst
        <5>1. SentTo(m, g) = 3 /\ SavedBy(m, g) = 2
          BY <2>1, <3>1, <4>1 DEF Active, SentTo, SavedBy
        <5>2. SentTo(m, g)' = 3 /\ SavedBy(m, g)' = 2
          BY <2>3, <2>4, <4>1 DEF SentTo, SavedBy
        <5> QED BY <5>1, <5>2
      <4>2. CASE m # pairs[1].dst
        <5>1. ~Active(m)  BY <4>2 DEF Active
        <5> QED BY <2>3, <2>5, <4>2, <5>1 DEF SentTo, SavedBy
      <4> QED BY <4>1, <4>2
    <3> QED BY <1>1, <3>1, <3>2 DEF FilesAt, disks
  <2>7. /\ \A i, j \in 1 .. Len(pairs') : pairs'[i].dst = pairs'[j].dst => i = j
        /\ \A i \in 1 .. Len(pairs') : pairs'[i].dst \in failed_machines
    <3>1. \A i \in 1 .. Len(pairs') : i + 1 \in 1 .. Len(pairs)  BY <2>2
    <3>2. \A i, j \in 1 .. Len(pairs') : i + 1 = j + 1 => i = j  OBVIOUS
    <3> QED BY <1>4, <2>2, <3>1, <3>2
  <2> QED BY <1>1, <1>2, <1>5, <2>1, <2>3, <2>6, <2>7 DEF RestoredInTurn
<1> QED BY <1>7, <1>8

LEMMA UpdateHostfileRestored ==
    ASSUME ListTypes, RecordsComeWithFiles, RestoredInTurn, NEW f, UpdateHostfile(f)
    PROVE  RecordsComeWithFiles' /\ RestoredInTurn'
<1>1. /\ stage = "recover" /\ stage' = "training" /\ pairs = << >> /\ pairs' = << >>
      /\ UNCHANGED <<ips_list, failed_machines, failures, local_file, remote_file, optim_file,
                     model_file>>
      /\ templates' = templates \cup ToSet(hostfile')
  BY DEF UpdateHostfile
<1>2. RecordsComeWithFiles'  BY <1>1 DEF RecordsComeWithFiles
<1>3. \A m : ~Active(m) /\ ~Active(m)' /\ ~Pending(m) /\ ~Pending(m)'
  BY <1>1 DEF Active, Pending
<1>4. ASSUME AllHavePartners, NEW m \in failed_machines, HasSaved(Partner(m)), NEW g \in Gpus
      PROVE  FilesAt(m, Partner(m), g, SentTo(m, g), SavedBy(m, g))'
  <2>1. FilesAt(m, Partner(m), g, SentTo(m, g), SavedBy(m, g))
    BY <1>1, <1>4 DEF RestoredInTurn
  <2>2. SentTo(m, g)' = SentTo(m, g) /\ SavedBy(m, g)' = SavedBy(m, g)
    BY <1>3 DEF SentTo, SavedBy
  <2> QED BY <1>1, <2>1, <2>2 DEF FilesAt
<1>5. (AllHavePartners' <=> AllHavePartners) /\ \A m : HasSaved(m)' <=> HasSaved(m)
  BY <1>1 DEF AllHavePartners, HasSaved
<1> QED BY <1>1, <1>2, <1>3, <1>4, <1>5 DEF RestoredInTurn

LEMMA NextRestored ==
    ASSUME ListTypes, FilesAreOwn, RecordsComeWithFiles, RestoredInTurn, [Next]_vars
    PROVE  RecordsComeWithFiles' /\ RestoredInTurn'
<1>1. ASSUME NEW failed \in SUBSET MachineRanks, NEW silent \in SUBSET MachineRanks,
             Fail(failed, silent)
      PROVE  RecordsComeWithFiles' /\ RestoredInTurn'
  BY <1>1, FailRestored
<1>2. CASE ScaleUp \/ \E listing \in Listings : TerminateInstances(listing)
  <2>1. /\ stage \in {"replace", "wait"} /\ stage' \in {"replace", "wait"}
        /\ UNCHANGED <<failures, disks>>
    BY <1>2 DEF ScaleUp, TerminateInstances
  <2> QED BY <2>1 DEF RecordsComeWithFiles, RestoredInTurn, disks
<1>3. ASSUME NEW f, DiffIps(f) PROVE RecordsComeWithFiles' /\ RestoredInTurn'
  BY <1>3, DiffIpsRestored
<1>4. CASE StartMpi \/ MpiEnds \/ MpiAborts  BY <1>4, MpiRestored
<1>5. ASSUME NEW gpu \in Gpus, RecoverGpuSnapshot(gpu)
      PROVE  RecordsComeWithFiles' /\ RestoredInTurn'
  BY <1>5, RecoverRecords, RecoverRestored
<1>6. ASSUME NEW f, UpdateHostfile(f) PROVE RecordsComeWithFiles' /\ RestoredInTurn'
  BY <1>6, UpdateHostfileRestored
<1>7. CASE UNCHANGED vars
  <2>1. UNCHANGED <<stage, ips_list, hostfile, pairs, sent, received, raised, failures,
                    failed_machines, templates, local_file, remote_file, optim_file, model_file>>
    BY <1>7 DEF vars, lists, disks, job
  <2>2. RecordsComeWithFiles'
    BY <2>1 DEF RecordsComeWithFiles, Record, Source, SourceRank
  <2>3. RestoredInTurn'
    BY <2>1 DEF RestoredInTurn, AllHavePartners, HasSaved, FilesAt, SentTo, SavedBy, Active, Pending
  <2> QED BY <2>2, <2>3
<1> QED BY <1>1, <1>2, <1>3, <1>4, <1>5, <1>6, <1>7 DEF Next, RootAgentNext

(* A machine that was replaced, and its partner, start with the states and
   the iteration that their ranks had at the failure, if the partner has
   saved, the list of the root agent and the hostfile have the two at the
   same places, and the partners of all failed machines live
   (get_snapshot_recovery_pair, snapshot_recover.py): in whatever order
   AWS lists the machines, no process of the job raises, the job does not
   end early, and none undoes what another one has restored. *)
THEOREM RestoredTheorem == Spec => []ReplacedMachinesAreRestored
<1> DEFINE Inv == ListTypes /\ FilesAreOwn /\ RecordsComeWithFiles /\ RestoredInTurn
<1>1. Init => Inv  BY InitTypes, InitRestored
<1>2. Inv /\ [Next]_vars => Inv'  BY NextTypes, NextRestored
<1>3. Inv => ReplacedMachinesAreRestored
  <2> SUFFICES ASSUME Inv PROVE ReplacedMachinesAreRestored  OBVIOUS
  <2> DEFINE partner(m) == CHOOSE q \in GetMachineGroup(m) : q # m
             placed(m) == At(ips_list, m) = At(hostfile, m)
             saved(m) == \A g \in Gpus :
                             remote_file[At(hostfile, m)][RankOn(m, g)].failure = failures
             restored(m) == \A g \in Gpus :
                 LET r == RankOn(m, g)
                 IN  /\ optim_file[At(hostfile, m)][r] = [of |-> r, failure |-> failures]
                     /\ model_file[At(hostfile, m)][r] = failures
  <2>1. ASSUME NEW m \in failed_machines PROVE partner(m) = Partner(m)
    <3>1. m \in MachineRanks  BY DEF ListTypes
    <3>2. GetMachineGroup(m) = {m, Partner(m)} /\ Partner(m) # m
      BY <3>1, PartnerFacts DEF GetMachineGroup, GroupSize
    <3> QED BY <3>2
  <2>2. ASSUME stage = "training",
               \A m \in failed_machines : Partner(m) \notin failed_machines,
               NEW m \in failed_machines,
               placed(m), placed(Partner(m)), saved(Partner(m))
        PROVE  restored(m) /\ restored(Partner(m))
    <3>1. AllHavePartners /\ HasSaved(Partner(m))
      BY <2>2 DEF AllHavePartners, HasSaved
    <3>2. ~Active(m) /\ ~Pending(m)
      BY <2>2 DEF RestoredInTurn, Active, Pending
    <3>3. \A g \in Gpus : FilesAt(m, Partner(m), g, 3, 2)
      BY <2>2, <3>1, <3>2 DEF RestoredInTurn, SentTo, SavedBy
    <3>4. /\ At(ips_list, m) = At(hostfile, m)
          /\ At(ips_list, Partner(m)) = At(hostfile, Partner(m))
      BY <2>2
    <3>5. ASSUME NEW g \in Gpus
          PROVE  /\ optim_file[At(ips_list, m)][RankOn(m, g)] =
                        [of |-> RankOn(m, g), failure |-> failures]
                 /\ model_file[At(ips_list, m)][RankOn(m, g)] = failures
                 /\ optim_file[At(ips_list, Partner(m))][RankOn(Partner(m), g)] =
                        [of |-> RankOn(Partner(m), g), failure |-> failures]
                 /\ model_file[At(ips_list, Partner(m))][RankOn(Partner(m), g)] = failures
      <4>1. FilesAt(m, Partner(m), g, 3, 2)  BY <3>3
      <4> QED BY ONLY <4>1, SMT DEF FilesAt
    <3>6. restored(m) /\ restored(Partner(m))  BY <3>4, <3>5
    <3> QED BY <3>6
  <2> HIDE DEF placed, saved, restored
  <2>3. (stage = "training" /\ \A m \in failed_machines : Partner(m) \notin failed_machines) =>
            \A m \in failed_machines :
                (placed(m) /\ placed(Partner(m)) /\ saved(Partner(m))) =>
                    restored(m) /\ restored(Partner(m))
    BY <2>2
  <2> HIDE DEF partner
  <2>4. (stage = "training" /\ \A m \in failed_machines : partner(m) \notin failed_machines) =>
            \A m \in failed_machines :
                (placed(m) /\ placed(partner(m)) /\ saved(partner(m))) =>
                    restored(m) /\ restored(partner(m))
    BY <2>1, <2>3, Zenon
  <2> QED BY <2>4 DEF ReplacedMachinesAreRestored, partner, placed, saved, restored
<1> QED BY <1>1, <1>2, <1>3, PTL DEF Spec
=============================================================================
