------------------------------ MODULE Launcher ------------------------------
(***************************************************************************)
(* Which processes the launcher starts: the runner filters the hosts of    *)
(* the hostfile and picks a backend, and on every host launch.py starts a  *)
(* process for every device and numbers it (launcher/runner.py,            *)
(* launcher/multinode_runner.py, launcher/launch.py).                      *)
(*                                                                         *)
(* Hosts are numbered in the order of the hostfile.  An argument           *)
(* specification names a host and a list of its slots; an empty list       *)
(* stands for the whole host, as no ":" after its name does.               *)
(***************************************************************************)
EXTENDS Integers, FiniteSetsExt, SequencesExt

Here == 1        \* the host of the runner, the only one without a hostfile

(* The slots of every host: from the hostfile, or the devices found here. *)
ResourcePool(args) == IF args.hostfile # << >> THEN args.hostfile ELSE <<args.devices>>
HostInfo(pool) == [h \in DOMAIN pool |-> [i \in 1 .. pool[h] |-> i - 1]]

StableRemoveDuplicates(data) ==
    FoldLeft(LAMBDA list, x : IF Contains(list, x) THEN list ELSE Append(list, x), << >>, data)

Whole(spec) == spec.slots = << >>
Exists(info, spec) ==
    spec.host \in DOMAIN info /\ ToSet(spec.slots) \subseteq ToSet(info[spec.host])

(* A later specification of a host replaces an earlier one. *)
LastSpec(specs, h) == Max({i \in DOMAIN specs : specs[i].host = h})
Included(info, specs) ==
    [h \in {specs[i].host : i \in DOMAIN specs} |->
        LET spec == specs[LastSpec(specs, h)]
        IN  StableRemoveDuplicates(IF Whole(spec) THEN info[h] ELSE spec.slots)]

(* Slots are removed from a list, which raises an error the second time. *)
RemovedTwice(specs) ==
    \/ \E i \in DOMAIN specs : StableRemoveDuplicates(specs[i].slots) # specs[i].slots
    \/ \E i, j \in DOMAIN specs :
           /\ i < j /\ specs[i].host = specs[j].host /\ ~Whole(specs[j])
           /\ Whole(specs[i]) \/ ToSet(specs[i].slots) \cap ToSet(specs[j].slots) # {}
Excluded(info, specs) ==
    [h \in DOMAIN info |-> SelectSeq(info[h], LAMBDA slot :
        \A i \in DOMAIN specs : specs[i].host = h =>
            ~Whole(specs[i]) /\ ~Contains(specs[i].slots, slot))]

(* parse_resource_filter: whether it raises, and the hosts that are left. *)
FilterRaises(info, include, exclude) ==
    \/ include # << >> /\ exclude # << >>
    \/ \E i \in DOMAIN include : ~Exists(info, include[i])
    \/ \E i \in DOMAIN exclude : ~Exists(info, exclude[i])
    \/ RemovedTwice(exclude)
ParseResourceFilter(info, include, exclude) ==
    LET filtered == IF include # << >> THEN Included(info, include) ELSE Excluded(info, exclude)
    IN  [h \in {h \in DOMAIN filtered : filtered[h] # << >>} |-> filtered[h]]

----------------------------------------------------------------------------
(* main of the runner.  The devices CUDA_VISIBLE_DEVICES names are taken
   for an --include if nothing else was asked for; -1 stands for an option
   that was not given. *)
Limited(args) == args.nodes >= 0 \/ args.gpus >= 0
EffectiveInclude(args) ==
    IF /\ args.hostfile = << >> /\ args.visible # << >>
       /\ args.include = << >> /\ args.exclude = << >> /\ args.nodes <= 1 /\ args.gpus <= 0
    THEN <<[host |-> Here, slots |-> args.visible]>>
    ELSE args.include

ArgumentsRaise(args) ==
    \/ Limited(args) /\ (EffectiveInclude(args) # << >> \/ args.exclude # << >>)
    \/ args.hostfile = << >> /\ (args.devices = 0 \/ args.nodes > 1)
    \/ FilterRaises(HostInfo(ResourcePool(args)), EffectiveInclude(args), args.exclude)

(* The first hosts, and the first devices of each, whether it has them or
   not. *)
FirstNodes(active, nodes) ==
    IF nodes <= 0 THEN active
    ELSE [h \in {h \in DOMAIN active : Cardinality({g \in DOMAIN active : g < h}) < nodes}
              |-> active[h]]
FirstGpus(active, gpus) ==
    IF gpus <= 0 THEN active ELSE [h \in DOMAIN active |-> [i \in 1 .. gpus |-> i - 1]]
ActiveResources(args) ==
    LET info == HostInfo(ResourcePool(args))
    IN  FirstGpus(FirstNodes(ParseResourceFilter(info, EffectiveInclude(args), args.exclude),
                             args.nodes), args.gpus)

MultiNode(args) == args.force \/ Cardinality(DOMAIN ActiveResources(args)) > 1

(* The runners of MPI refuse filters, and MVAPICH starts equally many
   processes on every host. *)
RunnerRaises(args) ==
    /\ MultiNode(args) /\ args.runner # "pdsh"
    /\ \/ EffectiveInclude(args) # << >> \/ args.exclude # << >> \/ args.nodes # -1 \/ args.gpus # -1
       \/ args.runner = "mvapich" /\ Cardinality(ToSet(ResourcePool(args))) > 1

Raises(args) ==
    ArgumentsRaise(args) \/ DOMAIN ActiveResources(args) = {} \/ RunnerRaises(args)

----------------------------------------------------------------------------
(* main of launch.py: global ranks follow the order of the hosts, and in a
   host the order of its devices. *)
GlobalRank(world, h, local) ==
    MapThenSumSet(LAMBDA g : Len(world[g]), {g \in DOMAIN world : g < h}) + local
Processes(world) ==
    {[rank |-> GlobalRank(world, p[1], p[2] - 1), host |-> p[1], gpu |-> world[p[1]][p[2]],
      world |-> MapThenSumSet(LAMBDA h : Len(world[h]), DOMAIN world)] :
        p \in UNION {{h} \X DOMAIN world[h] : h \in DOMAIN world}}

(* mpirun fills the hosts in their order; a process takes the device of
   its local rank. *)
MpiRun(pool) == Processes(HostInfo(pool))

(* With one host left the processes are started where the runner runs. *)
Launched(args) ==
    LET processes == Processes(ActiveResources(args))
    IN  IF ~MultiNode(args) THEN {[p EXCEPT !.host = Here] : p \in processes}
        ELSE IF args.runner = "pdsh" THEN processes ELSE MpiRun(ResourcePool(args))
=============================================================================
