---------------------------- MODULE GroupPolicy ----------------------------
(***************************************************************************)
(* Placement of in-memory checkpoints: which ranks exchange their          *)
(* optimizer state (snapshot_policy.py, snapshot_group.py).  Machines are  *)
(* grouped in consecutive pairs, and the k-th GPU of one machine of a pair *)
(* is grouped with the k-th GPU of the other.                              *)
(***************************************************************************)
EXTENDS Integers

CONSTANTS Machines, GpusPerMachine

GroupSize == 2      \* "only support group_size = 2 in this version"

(* The assertion of set_machine_groups, and at least one GPU per machine. *)
ASSUME GroupAssumption ==
    /\ Machines \in Nat \ {0}
    /\ GpusPerMachine \in Nat \ {0}
    /\ Machines % GroupSize = 0

WorldSize == Machines * GpusPerMachine
Ranks == 0 .. WorldSize - 1
MachineRanks == 0 .. Machines - 1

MachineOf(rank) == rank \div GpusPerMachine
GpuOf(rank) == rank % GpusPerMachine

MachineGroup(i) == i .. i + GroupSize - 1

(* A mistake: neighbouring ranks, of one machine, are grouped. *)
NeighbourGroup(id) == {id * GroupSize, id * GroupSize + 1}

(* The group with index id in the list rank_groups: the list is filled
   pair of machines by pair of machines, GPU by GPU. *)
RankGroup(id) ==
    LET first == (id \div GpusPerMachine) * GroupSize
        gpu   == id % GpusPerMachine
    IN  {j * GpusPerMachine + gpu : j \in MachineGroup(first)}

GetMachineGroup(machineRank) ==
    MachineGroup((machineRank \div GroupSize) * GroupSize)

GetGroupId(rank) ==
    (MachineOf(rank) \div GroupSize) * GpusPerMachine + GpuOf(rank)

GetGroup(rank) == RankGroup(GetGroupId(rank))

(* SnapshotGroups.get_peer_rank: the first rank of the group that is not
   the caller's own. *)
GetPeerRank(rank) == CHOOSE q \in GetGroup(rank) : q # rank
=============================================================================
