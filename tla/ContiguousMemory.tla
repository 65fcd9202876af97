-------------------------- MODULE ContiguousMemory --------------------------
(***************************************************************************)
(* A buffer that tensors are cut from                                      *)
(* (deepspeed/runtime/zero/contiguous_memory_allocator.py): the best fit   *)
(* is taken, released neighbours are joined, and if no block is large      *)
(* enough but all of them together are, the tensors are moved to the       *)
(* front, and the parameters that use them are pointed to the new places.  *)
(*                                                                         *)
(* A state has the free blocks in the order of the dictionary, the live    *)
(* tensors - their number, place and size, in the order they were put in - *)
(* and what is in the buffer: the owner of a tensor fills it with <<its    *)
(* number, index>>.  view is where the data of an assigned tensor's        *)
(* parameter is.                                                           *)
(***************************************************************************)
EXTENDS Integers, Sequences, SequencesExt, FiniteSets, FiniteSetsExt

NewAllocator(size) ==
    [blocks |-> <<[at |-> 0, size |-> size]>>, tensors |-> <<>>,
     buffer |-> [a \in 0 .. size - 1 |-> <<0, 0>>], view |-> <<>>, count |-> 0,
     total_free |-> size, largest |-> size, raised |-> FALSE]

LargestContiguous(blocks) == Max({0} \cup {blocks[i].size : i \in DOMAIN blocks})
Without(seq, x) == SelectSeq(seq, LAMBDA y : y # x)

ConsolidateAddress(blocks, freed) ==
    LET next   == SelectSeq(blocks, LAMBDA b : b.at = freed.at + freed.size)
        behind == IF next = <<>> THEN freed ELSE [freed EXCEPT !.size = @ + next[1].size]
        others == IF next = <<>> THEN blocks ELSE Without(blocks, next[1])
        prev   == SelectSeq(others, LAMBDA b : b.at + b.size = freed.at)
    IN  IF prev = <<>> THEN Append(others, behind)
        ELSE Append(Without(others, prev[1]),
                    [at |-> prev[1].at, size |-> prev[1].size + behind.size])

ReleaseBlock(s, t) ==
    LET blocks == ConsolidateAddress(s.blocks, [at |-> t.at, size |-> t.size])
    IN  [s EXCEPT !.tensors = Without(@, t), !.blocks = blocks, !.largest = LargestContiguous(blocks)]
MarkAsOccupied(s, at, size) ==
    LET block == SelectSeq(s.blocks, LAMBDA b : b.at = at)[1]
        blocks == Without(s.blocks, block) \o
                      IF block.size = size THEN <<>>
                      ELSE <<[at |-> at + size, size |-> block.size - size]>>
    IN  [s EXCEPT !.blocks = blocks, !.largest = LargestContiguous(blocks)]

(* A tensor is copied in pieces of the free block before it.  A copy to
   places it reads from leaves nothing to rely on there. *)
Moved(buffer, t, to, room) ==
    FoldLeft(LAMBDA buf, k :
                LET n == Min({room, t.size - k * room})
                IN  [a \in DOMAIN buf |->
                        IF a \notin to + k * room .. to + k * room + n - 1 THEN buf[a]
                        ELSE IF n > t.at - to THEN <<0, 0>> ELSE buf[a + (t.at - to)]],
             buffer, [i \in 1 .. (t.size + room - 1) \div room |-> i - 1])
ReplaceOldAddressWithNew(s, t, to) ==
    LET freed == MarkAsOccupied(ReleaseBlock(s, t), to, t.size)
    IN  [freed EXCEPT !.tensors = Append(@, [t EXCEPT !.at = to])]
DefragmentMemory(s) ==
    FoldLeft(LAMBDA x, t :
                LET at == Min({x.blocks[i].at : i \in DOMAIN x.blocks})
                    block == SelectSeq(x.blocks, LAMBDA b : b.at = at)[1]
                IN  IF at < t.at
                    THEN ReplaceOldAddressWithNew(
                             [x EXCEPT !.buffer = Moved(@, t, at, block.size)], t, at)
                    ELSE x,
             s, SetToSortSeq(Range(s.tensors), LAMBDA t, u : t.at < u.at))

(* Every tensor is taken to be assigned to a parameter: one that is not
   raises a KeyError, and the allocation does not go on. *)
ResetParamData(s) ==
    LET Bad(i) == s.tensors[i].id \notin DOMAIN s.view
        upto == IF \E i \in DOMAIN s.tensors : Bad(i)
                THEN Min({i \in DOMAIN s.tensors : Bad(i)}) - 1 ELSE Len(s.tensors)
        set == {s.tensors[i] : i \in 1 .. upto}
    IN  [s EXCEPT !.view = [id \in DOMAIN @ |->
                                IF \E t \in set : t.id = id THEN (CHOOSE t \in set : t.id = id).at
                                ELSE s.view[id]],
                  !.raised = upto < Len(s.tensors)]

GetNewTensorAddress(s, size) ==
    LET fits == SelectSeq(s.blocks, LAMBDA b : b.size >= size)
        best == Min({fits[i].size : i \in DOMAIN fits})
    IN  SelectSeq(fits, LAMBDA b : b.size = best)[1].at
GetNewTensor(s, at, size) ==
    LET id == s.count + 1
    IN  MarkAsOccupied([s EXCEPT !.count = id, !.tensors = Append(@, [id |-> id, at |-> at, size |-> size]),
                                 !.buffer = [a \in DOMAIN @ |-> IF a \in at .. at + size - 1
                                                                THEN <<id, a - at>> ELSE @[a]]],
                       at, size)
AllocateTensor(s, size) ==
    LET ready == IF s.largest < size THEN ResetParamData(DefragmentMemory(s)) ELSE s
    IN  IF size > s.total_free THEN s
        ELSE IF ready.raised THEN ready
        ELSE GetNewTensor([ready EXCEPT !.total_free = @ - size], GetNewTensorAddress(ready, size), size)
AssignToParam(s, t) ==
    [s EXCEPT !.view = [id \in DOMAIN @ \cup {t.id} |-> IF id = t.id THEN t.at ELSE @[id]]]

ReleaseTensor(s, t) ==
    LET freed == ReleaseBlock(s, t)
    IN  [freed EXCEPT !.view = [id \in DOMAIN @ \ {t.id} |-> @[id]], !.total_free = @ + t.size]
=============================================================================
