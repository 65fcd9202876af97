---------------------------- MODULE ZeroPartition ----------------------------
(***************************************************************************)
(* Who owns what under ZeRO stages 1 and 2                                 *)
(* (deepspeed/runtime/zero/stage_1_and_2.py).  The parameters of a group   *)
(* lie one after the other in a flat buffer that is cut into equal         *)
(* partitions, one for each rank.  A parameter may straddle partitions,    *)
(* and the rank of each of them keeps only its own part of the gradient.   *)
(*                                                                         *)
(* numel[k] is the number of elements of the k-th parameter, size the      *)
(* number of elements of a partition; ranks are numbered from 0.           *)
(***************************************************************************)
EXTENDS Integers, Sequences, FiniteSets, SequencesExt

Sum(numel) == FoldLeft(LAMBDA a, b : a + b, 0, numel)

(* The flat buffer is padded so that every partition starts at a 4-byte
   boundary of 2-byte elements (get_data_parallel_partitions). *)
PartitionSize(numel, ranks) == 2 * ((Sum(numel) + 2 * ranks - 1) \div (2 * ranks))

(* The place of the k-th parameter in the flat buffer (current_index). *)
StartOf(numel, k) == Sum(SubSeq(numel, 1, k - 1))

(* A partition holds the parameters that start in it and, as its first,
   the one that starts before it and reaches into it. *)
StartsIn(numel, size, r, k) ==
    size * r <= StartOf(numel, k) /\ StartOf(numel, k) < size * (r + 1)
ReachesInto(numel, size, r, k) ==
    StartOf(numel, k) < size * r /\ size * r < StartOf(numel, k) + numel[k]
Holds(numel, size, r, k) == StartsIn(numel, size, r, k) \/ ReachesInto(numel, size, r, k)

ParamsInPartition(numel, size, r) == {k \in DOMAIN numel : Holds(numel, size, r, k)}

(* Where in the parameter the part of partition r begins. *)
GradStartOffset(numel, size, r, k) ==
    IF StartsIn(numel, size, r, k) THEN 0 ELSE size * r - StartOf(numel, k)


(* Which elements of its first parameter a partition leaves out. *)
FirstOffset(numel, size, r) ==
    LET reach == {k \in DOMAIN numel : ReachesInto(numel, size, r, k)}
    IN  IF reach = {} THEN 0
        ELSE size * r - StartOf(numel, CHOOSE k \in reach : TRUE)

Lesser(a, b) == IF a < b THEN a ELSE b

(* The members of S in the order of their keys, which differ.  Unlike
   SetToSortSeq it is defined by a formula the provers can use. *)
SortedBy(key, S) ==
    CHOOSE s \in [1 .. Cardinality(S) -> S] : \A i, j \in DOMAIN s : i < j => key[s[i]] < key[s[j]]

(* get_grad_position: for each parameter of the partition, in order, where
   its part starts in it, where that part goes, and its length; and
   get_flat_partition, which cuts the averaged gradients the same way. *)
AddPosition(numel, size, r, places, k) ==
    LET from == IF places = <<>> THEN FirstOffset(numel, size, r) ELSE 0
        dest == Sum([i \in DOMAIN places |-> places[i].length])
    IN  Append(places, [param |-> k, from |-> from, dest |-> dest,
                        length |-> Lesser(numel[k] - from, size - dest)])
GradPosition(numel, size, r) ==
    FoldLeft(LAMBDA places, k : AddPosition(numel, size, r, places, k), <<>>,
             SortedBy([k \in DOMAIN numel |-> k], ParamsInPartition(numel, size, r)))

(* average_tensor: the slices of a bucket, each sent to a rank.  The parts
   of a parameter are taken by their offsets; a part that goes to the rank
   of the one before it is merged with it. *)
Parts(numel, size, ranks, k) ==
    LET holders == {r \in 0 .. ranks - 1 : Holds(numel, size, r, k)}
        offset == [r \in holders |-> GradStartOffset(numel, size, r, k)]
        byOffset == SortedBy(offset, holders)
        EndOf(i) == IF i = Len(byOffset) THEN numel[k] ELSE offset[byOffset[i + 1]]
    IN  [i \in DOMAIN byOffset |->
            [rank |-> byOffset[i], length |-> EndOf(i) - offset[byOffset[i]]]]

(* A mistake the checks must catch: slices that overlap by an element. *)
OverlappingSlice(slices, part) ==
    LET last == slices[Len(slices)]
    IN  Append(slices, [rank |-> part.rank, length |-> part.length,
                        at |-> IF slices = <<>> THEN 0 ELSE last.at + last.length - 1])

AddSlice(slices, part) ==
    LET n == Len(slices)
        size == Sum([i \in DOMAIN slices |-> slices[i].length])
    IN  IF n > 0 /\ slices[n].rank = part.rank
        THEN [slices EXCEPT ![n].length = @ + part.length]
        ELSE Append(slices, [rank |-> part.rank, at |-> size, length |-> part.length])

Slices(numel, size, ranks, bucket) ==
    FoldLeft(LAMBDA slices, part : AddSlice(slices, part), <<>>,
             FlattenSeq([i \in DOMAIN bucket |-> Parts(numel, size, ranks, bucket[i])]))

(* _round_robin_reorder: the parameters dealt to the partitions in turn,
   as a sequence of their old places. *)
RoundRobin(n, ranks) ==
    FlattenSeq([j \in 1 .. ranks |->
        SetToSortSeq({k \in 1 .. n : (k - 1) % ranks = j - 1}, <)])

==============================================================================
