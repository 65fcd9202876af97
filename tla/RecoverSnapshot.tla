-------------------------- MODULE RecoverSnapshot --------------------------
(***************************************************************************)
(* Replacement of failed machines and recovery of their checkpoints from   *)
(* the machines they are grouped with: replace_instances, recover_snapshot *)
(* and get_snapshot_recovery_pair of root_agent_etcd.py, diff_ips and      *)
(* update_hostfile of boto3_agent.py, and snapshot_recover.py.  The root   *)
(* agent takes this way for a fatal error.                                 *)
(*                                                                         *)
(* There are four lists of machines: the instances, as AWS lists them, in  *)
(* any order; the addresses that agents have registered; the list of the   *)
(* root agent; and the hostfile, whose order gives the ranks of training.  *)
(* A state is represented by the rank it is of and the failure it was      *)
(* saved at, 0 for the checkpoint written before training.                 *)
(***************************************************************************)
EXTENDS GroupPolicy, FiniteSets, Sequences, SequencesExt

CONSTANT MaxFailures    \* bound: failures that are recovered from

ASSUME RecoverAssumption == MaxFailures \in Nat

Ips == 0 .. Machines * (MaxFailures + 1) - 1

Absent == -1                  \* the failure of a file that is not there
States == [of : Ranks, failure : 0 .. MaxFailures]
None == [of |-> 0, failure |-> Absent]
Files == [Ranks -> States \cup {None}]
ModelFiles == [Ranks -> {Absent} \cup 0 .. MaxFailures]

Gpus == 0 .. GpusPerMachine - 1

RankOn(machine, gpu) == gpu + machine * GpusPerMachine   \* training_rank

VARIABLES
    stage,           \* what the root agent is doing
    asg,             \* the running instances
    agent_ips,       \* etcd: where the agent of a rank runs
    failed_machines,
    pre_ips_list, ips_list,  \* of the root agent
    hostfile,
    pairs,           \* pairs still to be recovered
    sent,            \* of 3 things a source process does, how many it has done
    received,        \* of 2 files, how many a destination process has saved
    raised,          \* source processes that have raised
    templates,       \* machines with a checkpoint_filename: training has run there
    local_file,      \* {rank}.pt on a machine
    remote_file,     \* the file a record {rank}.json names
    optim_file,      \* the optimizer checkpoint of a rank, that training loads
    model_file,      \* the model checkpoint of a rank: the failure its iteration is of
    failures

lists == <<asg, agent_ips, pre_ips_list, ips_list, hostfile>>
job == <<sent, received, raised>>
disks == <<templates, local_file, remote_file, optim_file, model_file>>
vars == <<stage, lists, failed_machines, pairs, job, disks, failures>>

Initial == [i \in 1 .. Machines |-> i - 1]
At(list, machine) == list[machine + 1]      \* lists count from 0 in the code

(* The checkpoint before training is written by each rank where it runs. *)
Init ==
    LET runsOn(r, ip) == ip = At(Initial, MachineOf(r))
    IN  /\ stage = "training"
        /\ asg = ToSet(Initial)
        /\ agent_ips = [m \in MachineRanks |-> m]
        /\ failed_machines = {}
        /\ pre_ips_list = Initial /\ ips_list = Initial
        /\ hostfile = Initial
        /\ pairs = << >>
        /\ sent = [g \in Gpus |-> 0] /\ received = [g \in Gpus |-> 0] /\ raised = {}
        /\ templates = ToSet(Initial)
        /\ local_file = [ip \in Ips |-> [r \in Ranks |-> None]]
        /\ remote_file = local_file
        /\ optim_file = [ip \in Ips |-> [r \in Ranks |->
               IF runsOn(r, ip) THEN [of |-> r, failure |-> 0] ELSE None]]
        /\ model_file = [ip \in Ips |-> [r \in Ranks |->
               IF runsOn(r, ip) THEN 0 ELSE Absent]]
        /\ failures = 0

----------------------------------------------------------------------------
(* Mistakes that the runs must notice: a new machine goes to the end of
   the list; *)
AppendedAtTheEnd(list, replacement) ==
    SelectSeq(list, LAMBDA ip : ip \notin DOMAIN replacement)
    \o SetToSortSeq({replacement[ip] : ip \in DOMAIN replacement}, LAMBDA x, y : x > y)

(* any machine that has not failed is a source; *)
AnySource(failed, m) == MachineRanks \ failed

(* the receiver names the file as the sender does; *)
SendersName(src, dst, gpu) == RankOn(src, gpu)

(* the instance count includes one of the old instances. *)
OneMore(instances) == Cardinality(instances) > Machines

(* diff_ips: each deleted address is replaced where it stood. *)
Replaced(list, replacement) ==
    [i \in DOMAIN list |-> IF list[i] \in DOMAIN replacement
                           THEN replacement[list[i]] ELSE list[i]]

(* The machines a failed one can be recovered from, lowest first. *)
Sources(failed, m) == GetMachineGroup(m) \ failed

(* The list of the failed machines: recv_heartbeat_signal looks at the
   ranks in ascending order. *)
ListsOf(failed) ==
    {l \in [1 .. Cardinality(failed) -> failed] :
        ToSet(l) = failed /\ \A i, j \in DOMAIN l : i < j => l[i] < l[j]}

(* get_snapshot_recovery_pair: pairs, or nothing at all if some machine
   has no source. *)
RecoveryPairs(failed, list) ==
    LET source(m) == CHOOSE s \in Sources(failed, m) : \A t \in Sources(failed, m) : s <= t
    IN  IF \E m \in failed : Sources(failed, m) = {} THEN << >>
        ELSE [i \in 1 .. Cardinality(failed) |-> [src |-> source(list[i]), dst |-> list[i]]]

(* The rank whose checkpoint the receiver saves. *)
SavedAs(src, dst, gpu) == RankOn(dst, gpu)

AllRunning(instances) == Cardinality(instances) = Machines

----------------------------------------------------------------------------
(* Machines fail.  The ranks of the others write their own state, the
   peer's and a record on their way out; or, killed, nothing: and nothing
   if training could not load a model file.  The root agent hears of it
   from the agents: once all ranks have sent a heartbeat, those that are
   not renewed have failed; a rank without an agent is waited for forever.
   A file is taken to hold what its record names; what a rank writes there
   is SnapshotOptimizer's subject (RemoteFileIsOfThePeer). *)
Fail(failed, silent) ==
    /\ stage = "training" /\ failures < MaxFailures
    /\ failures' = failures + 1
    /\ LET host(r) == At(hostfile, MachineOf(r))
           trained == \A r \in Ranks : model_file[host(r)][r] # Absent
           saves(ip, r) ==
               trained /\ MachineOf(r) \notin failed \cup silent /\ ip = host(r)
           saved(r) == [of |-> r, failure |-> failures']
       IN  /\ local_file' = [ip \in Ips |-> [r \in Ranks |->
                  IF saves(ip, r) THEN saved(r) ELSE local_file[ip][r]]]
           /\ remote_file' = [ip \in Ips |-> [r \in Ranks |->
                  IF saves(ip, r) THEN saved(GetPeerRank(r)) ELSE remote_file[ip][r]]]
    /\ IF \A m \in MachineRanks : agent_ips[m] \in asg
       THEN /\ stage' = "replace"
            /\ failed_machines' =
                   {m \in MachineRanks : agent_ips[m] \in {At(hostfile, q) : q \in failed}}
       ELSE stage' = "unheard" /\ UNCHANGED failed_machines
    /\ UNCHANGED <<lists, pairs, job, templates, optim_file, model_file>>

(* replace_instances, up to the wait: the instances of the failed ranks,
   found by the address their agent registered, are terminated. *)
TerminateInstances(listing) ==
    /\ stage = "replace"
    /\ pre_ips_list' = listing
    /\ asg' = asg \ {agent_ips[m] : m \in failed_machines}
    /\ stage' = "wait"
    /\ UNCHANGED <<agent_ips, ips_list, hostfile, failed_machines, pairs, job,
                   disks, failures>>

(* The auto scaling group starts an instance for each that was terminated. *)
ScaleUp ==
    LET fresh == Machines * failures .. Machines * (failures + 1) - 1
    IN  /\ stage = "wait" /\ Cardinality(asg) < Machines
        /\ \E ip \in fresh \ asg :
               asg' = asg \cup {ip} /\ \A x \in fresh \ asg : ip <= x
        /\ UNCHANGED <<stage, agent_ips, pre_ips_list, ips_list, hostfile,
                       failed_machines, pairs, job, disks, failures>>

Bijections(S, T) == {f \in [S -> T] : \A t \in T : \E s \in S : f[s] = t}

(* The rest of replace_instances, to the start of the new agents: the new
   and the deleted addresses, two sets turned into lists, are paired. *)
DiffIps(replacement) ==
    LET old == ToSet(pre_ips_list)
    IN  /\ stage = "wait" /\ AllRunning(asg)
        /\ replacement \in Bijections(old \ asg, asg \ old)
        /\ Cardinality(failed_machines) = Cardinality(asg \ old)   \* assert
        /\ ips_list' = Replaced(pre_ips_list, replacement)
        (* agent_etcd.py -r index registers its address. *)
        /\ agent_ips' = [m \in MachineRanks |->
               IF At(pre_ips_list, m) \in DOMAIN replacement
               THEN replacement[At(pre_ips_list, m)] ELSE agent_ips[m]]
        /\ \E list \in ListsOf(failed_machines) :
               pairs' = RecoveryPairs(failed_machines, list)
        /\ stage' = "recover"
        /\ UNCHANGED <<asg, pre_ips_list, hostfile, failed_machines, job, disks, failures>>

(* mpirun of snapshot_recover.py on the two machines of the next pair: the
   k-th GPU of the source and the k-th GPU of the destination. *)
StartMpi ==
    /\ stage = "recover" /\ pairs # << >>
    /\ sent' = [g \in Gpus |-> 0] /\ received' = [g \in Gpus |-> 0] /\ raised' = {}
    /\ stage' = "mpi"
    /\ UNCHANGED <<lists, failed_machines, pairs, disks, failures>>

Source == At(ips_list, Head(pairs).src)
Dest == At(ips_list, Head(pairs).dst)
SourceRank(gpu) == RankOn(Head(pairs).src, gpu)
DestRank(gpu) == SavedAs(Head(pairs).src, Head(pairs).dst, gpu)
Record(gpu) == remote_file[Source][SourceRank(gpu)]

Raises(gpu) == raised' = raised \cup {gpu} /\ UNCHANGED sent
Sends(gpu) == sent' = [sent EXCEPT ![gpu] = @ + 1] /\ UNCHANGED raised

(* recover_GPU_snapshot, the source: the template and the state the record
   names are read and sent; *)
SendOptim(gpu) ==
    /\ stage = "mpi" /\ sent[gpu] = 0 /\ gpu \notin raised
    /\ IF Source \notin templates \/ Record(gpu) = None THEN Raises(gpu) ELSE Sends(gpu)
    /\ UNCHANGED <<stage, lists, failed_machines, pairs, received, disks, failures>>

(* its own file is renamed, then the model states are read and sent with
   the iteration of the record; *)
SendModel(gpu) ==
    LET rank == SourceRank(gpu)
    IN  /\ stage = "mpi" /\ sent[gpu] = 1 /\ gpu \notin raised
        /\ IF local_file[Source][rank] = None
           THEN Raises(gpu) /\ UNCHANGED <<optim_file, local_file>>
           ELSE /\ optim_file' = [optim_file EXCEPT ![Source][rank] = local_file[Source][rank]]
                /\ local_file' = [local_file EXCEPT ![Source][rank] = None]
                /\ IF model_file[Source][rank] = Absent THEN Raises(gpu) ELSE Sends(gpu)
        /\ UNCHANGED <<stage, lists, failed_machines, pairs, received, templates,
                       remote_file, model_file, failures>>

(* and the model states are saved. *)
SaveModel(gpu) ==
    /\ stage = "mpi" /\ sent[gpu] = 2
    /\ model_file' = [model_file EXCEPT ![Source][SourceRank(gpu)] = Record(gpu).failure]
    /\ sent' = [sent EXCEPT ![gpu] = @ + 1]
    /\ UNCHANGED <<stage, lists, failed_machines, pairs, received, raised, templates,
                   local_file, remote_file, optim_file, failures>>

(* The destination saves what it receives. *)
ReceiveOptim(gpu) ==
    /\ stage = "mpi" /\ received[gpu] = 0 /\ sent[gpu] >= 1
    /\ optim_file' = [optim_file EXCEPT ![Dest][DestRank(gpu)] = Record(gpu)]
    /\ received' = [received EXCEPT ![gpu] = @ + 1]
    /\ UNCHANGED <<stage, lists, failed_machines, pairs, sent, raised, templates,
                   local_file, remote_file, model_file, failures>>

ReceiveModel(gpu) ==
    /\ stage = "mpi" /\ received[gpu] = 1 /\ sent[gpu] >= 2
    /\ model_file' = [model_file EXCEPT ![Dest][DestRank(gpu)] = Record(gpu).failure]
    /\ received' = [received EXCEPT ![gpu] = @ + 1]
    /\ UNCHANGED <<stage, lists, failed_machines, pairs, sent, raised, templates,
                   local_file, remote_file, optim_file, failures>>

RecoverGpuSnapshot(gpu) ==
    \/ SendOptim(gpu) \/ SendModel(gpu) \/ SaveModel(gpu)
    \/ ReceiveOptim(gpu) \/ ReceiveModel(gpu)

(* The root agent does not look at how the job ended. *)
NextPair ==
    /\ pairs' = Tail(pairs)
    /\ stage' = "recover"
    /\ UNCHANGED <<lists, failed_machines, job, disks, failures>>

MpiEnds == stage = "mpi" /\ (\A g \in Gpus : sent[g] = 3 /\ received[g] = 2) /\ NextPair

(* Of a process that raised, its partner waits for a message, and it waits
   for all others in MPI_Finalize: unless mpirun ends the job. *)
MpiAborts == stage = "mpi" /\ raised # {} /\ NextPair

(* generate_hostfile: the list is compared with the hostfile, by sets
   again; then training starts with ranks in the order of the hostfile. *)
UpdateHostfile(replacement) ==
    LET old == ToSet(hostfile)
        new == ToSet(ips_list)
    IN  /\ stage = "recover" /\ pairs = << >>
        /\ replacement \in Bijections(old \ new, new \ old)
        /\ hostfile' = Replaced(hostfile, replacement)
        /\ templates' = templates \cup ToSet(hostfile')   \* the engine writes one
        /\ stage' = "training"
        /\ UNCHANGED <<asg, agent_ips, pre_ips_list, ips_list, failed_machines, pairs,
                       job, local_file, remote_file, optim_file, model_file, failures>>

Orders(S) == {l \in [1 .. Machines -> S] : ToSet(l) = S}

Listings == Orders(asg)

RootAgentNext ==
    \/ \E listing \in Listings : TerminateInstances(listing)
    \/ \E f \in Bijections(ToSet(pre_ips_list) \ asg, asg \ ToSet(pre_ips_list)) :
           DiffIps(f)
    \/ StartMpi \/ MpiEnds
    \/ \E f \in Bijections(ToSet(hostfile) \ ToSet(ips_list),
                           ToSet(ips_list) \ ToSet(hostfile)) : UpdateHostfile(f)

Next ==
    \/ \E failed \in (SUBSET MachineRanks) \ {{}} : \E silent \in SUBSET MachineRanks :
           Fail(failed, silent)
    \/ ScaleUp
    \/ RootAgentNext
    \/ \E gpu \in Gpus : RecoverGpuSnapshot(gpu)
    \/ MpiAborts

Spec == Init /\ [][Next]_vars

(* The root agent and the processes of a job go on, and AWS replaces what
   is terminated; mpirun need not end a job that has raised. *)
FairSpec ==
    /\ Spec
    /\ WF_vars(RootAgentNext) /\ WF_vars(ScaleUp)
    /\ \A gpu \in Gpus : WF_vars(RecoverGpuSnapshot(gpu))

----------------------------------------------------------------------------
(* Training starts on the instances that run, and on those that have not
   failed with the ranks they had: the hostfile is updated from lists that
   AWS orders, by differences of sets that are paired in any order. *)
SurvivorsKeepTheirRanks ==
    [][stage' = "training" =>
          /\ ToSet(hostfile') = asg
          /\ \A m \in MachineRanks :
                 At(hostfile, m) \in asg => At(hostfile', m) = At(hostfile, m)]_vars

(* No rank that loads a checkpoint of the snapshot folder of its machine
   loads the state of another rank. *)
NobodyLoadsAnothers ==
    stage = "training" =>
        \A r \in Ranks : LET f == optim_file[At(hostfile, MachineOf(r))][r]
                         IN  f # None => f.of = r

(* A replaced machine and the partner that saved its snapshot at the last
   failure start with the states and the iteration of that failure, if the
   root agent's list and the hostfile have the two machines at the same
   places, and every failed machine has a partner that runs: no job of the
   recovery ends early then, no file is missing, and no later job
   overwrites what was restored. *)
ReplacedMachinesAreRestored ==
    LET partner(m) == CHOOSE q \in GetMachineGroup(m) : q # m
        placed(m) == At(ips_list, m) = At(hostfile, m)
        saved(m) == \A g \in Gpus :
                        remote_file[At(hostfile, m)][RankOn(m, g)].failure = failures
        restored(m) == \A g \in Gpus :
            LET r == RankOn(m, g)
            IN  /\ optim_file[At(hostfile, m)][r] = [of |-> r, failure |-> failures]
                /\ model_file[At(hostfile, m)][r] = failures
    IN  (stage = "training" /\ \A m \in failed_machines : partner(m) \notin failed_machines) =>
            \A m \in failed_machines :
                (placed(m) /\ placed(partner(m)) /\ saved(partner(m))) =>
                    restored(m) /\ restored(partner(m))

(* A replacement comes to its end: training is started again, unless a
   process of recovery has raised, and the job hangs. *)
TrainingIsStartedAgain ==
    stage \in {"replace", "wait", "recover", "mpi"} ~> (stage = "training" \/ raised # {})

(* "Step 3: recover snapshot to newly added instances": the machine that
   files are sent to is not one that was training before.  AWS may list
   the instances in another order than that of the ranks. *)
NewInstancesAreRecovered == stage = "mpi" => Dest \notin ToSet(hostfile)

(* Every machine restarts with the iteration that was saved when the last
   failure happened, if all that did not fail have saved, and for all that
   failed a partner has: also those that belong to no recovery pair. *)
AllRestartFromOneIteration ==
    LET saved(r) == LET ip == At(hostfile, MachineOf(r))
                    IN  local_file[ip][r].failure = failures
                        \/ optim_file[ip][r].failure = failures
    IN  (stage = "training" /\ \A r \in Ranks : saved(r)) =>
            \A r, q \in Ranks : optim_file[At(hostfile, MachineOf(r))][r].failure
                                = optim_file[At(hostfile, MachineOf(q))][q].failure
=============================================================================
