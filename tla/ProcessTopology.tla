-------------------------- MODULE ProcessTopology --------------------------
(***************************************************************************)
(* The grid of ranks of pipeline, data and tensor ("model") parallelism    *)
(* (runtime/pipe/topology.py).  A topology is a sequence of axes, each a   *)
(* record of a name and a length; a coordinate is a function from names.   *)
(* Ranks are numbered row by row, the last axis fastest.                   *)
(***************************************************************************)
EXTENDS Integers, Sequences, SequencesExt, FiniteSets, FiniteSetsExt

AxisNames(topo) == {topo[i].name : i \in DOMAIN topo}

(* The length of an axis; 0 for one the topology does not have. *)
Dim(topo, axis) ==
    LET found == {i \in DOMAIN topo : topo[i].name = axis}
    IN  IF found = {} THEN 0 ELSE topo[CHOOSE i \in found : TRUE].dim

WorldSize(topo) == FoldLeft(LAMBDA n, a : n * a.dim, 1, topo)
Ranks(topo) == 0 .. WorldSize(topo) - 1

Coord(topo, rank) ==
    [a \in AxisNames(topo) |->
        LET i == CHOOSE j \in DOMAIN topo : topo[j].name = a
            after == SubSeq(topo, i + 1, Len(topo))
        IN  (rank \div WorldSize(after)) % topo[i].dim]

Rank(topo, coord) == CHOOSE r \in Ranks(topo) : Coord(topo, r) = coord

(* The group of a rank along an axis: the ranks that agree with it on all
   others, in the order of the axis. *)
CommList(topo, axis, rank) ==
    [i \in 1 .. Dim(topo, axis) |-> Rank(topo, [Coord(topo, rank) EXCEPT ![axis] = i - 1])]

IndexIn(seq, e) == (CHOOSE i \in DOMAIN seq : seq[i] = e) - 1

DataParallelRank(topo, rank) == IndexIn(CommList(topo, "data", rank), rank)

(* The place of a rank among the ranks of its model copy, in order
   (ds_model_rank). *)
ModelParallelRank(topo, rank) ==
    Cardinality({r \in Ranks(topo) :
        r < rank /\ Coord(topo, r)["data"] = Coord(topo, rank)["data"]})

StageToGlobal(topo, rank, stage) == Rank(topo, [Coord(topo, rank) EXCEPT !["pipe"] = stage])

(* The pairs of ranks that have a group to exchange activations and
   gradients in, by rank: with the next stage, and the last stage with the
   first (_build_p2p_groups). *)
P2pGroups(topo) ==
    [r \in Ranks(topo) |->
        LET pipe == CommList(topo, "pipe", r)
        IN  <<r, pipe[((IndexIn(pipe, r) + 1) % Dim(topo, "pipe")) + 1]>>]

(* A mistake: forgets that the pipeline wraps around. *)
SmallerStage(topo, src, dest) == Min({src, dest})

(* The stage whose group an exchange uses: the smaller one, unless it
   wraps around. *)
GroupStage(topo, src, dest) ==
    LET last == Dim(topo, "pipe") - 1
    IN  IF {src, dest} = {0, last} THEN last ELSE Min({src, dest})

GetSendRecvGroup(topo, rank, src, dest) ==
    P2pGroups(topo)[StageToGlobal(topo, rank, GroupStage(topo, src, dest))]

PipeModelDataParallelTopology(pp, mp, dp) ==
    <<[name |-> "pipe", dim |-> pp], [name |-> "data", dim |-> dp],
      [name |-> "model", dim |-> mp]>>
=============================================================================
