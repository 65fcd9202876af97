-------------------------- MODULE SnapshotStrategy --------------------------
(***************************************************************************)
(* The planner of interleaved checkpointing (snapshot_strategy.py): from   *)
(* the profiled idle gaps of the network, how many blocks to send in which *)
(* gap of an iteration.                                                    *)
(***************************************************************************)
EXTENDS Integers, Sequences, SequencesExt, FiniteSets, FiniteSetsExt

(* A profile is a sequence of lines, one per profiled iteration; a line is
   the sequence of the gaps of its iteration.  The gap at position i + 1
   has key i. *)
GapKeys(lines) == UNION {0 .. Len(lines[i]) - 1 : i \in DOMAIN lines}

ExtractData(profile, jumpLines) == SubSeq(profile, jumpLines + 1, Len(profile))

(* The idle time of a gap is the least one over the profiled iterations. *)
GetCommIdleTime(lines) ==
    [k \in GapKeys(lines) |->
        Min({lines[i][k + 1] : i \in {j \in DOMAIN lines : k < Len(lines[j])}})]

GetValidCommIdleTime(lines, threshold) ==
    LET idle == GetCommIdleTime(lines)
    IN  [k \in {g \in DOMAIN idle : idle[g] > threshold} |-> idle[k]]

Total(sizes) == FoldLeft(LAMBDA a, b : a + b, 0, sizes)

(* The sizes of n blocks after the first "from". *)
Chunk(sizes, from, n) == SubSeq(sizes, from + 1, from + n)

(* The limit is compared when a block was added: a limit of 0 lets one in. *)
BlockLimit(maxBlocks) == Max({1, maxBlocks})

(* A mistake in the inner loop: it adds a block before it checks that the
   block fits. *)
BlocksBeyond(sizes, from, capacity, maxBlocks) ==
    Max({n \in 0 .. Min({BlockLimit(maxBlocks), Len(sizes) - from}) :
            n = 0 \/ Total(Chunk(sizes, from, n - 1)) <= capacity})

(* How many blocks the inner loop takes: one after the other while they
   fit in what the gap can carry, until the limit is reached. *)
BlocksIn(sizes, from, capacity, maxBlocks) ==
    Max({n \in 0 .. Min({BlockLimit(maxBlocks), Len(sizes) - from}) :
            Total(Chunk(sizes, from, n)) <= capacity})

(* The strategy, by gap key.  "rate" is how much a gap carries per unit of
   idle time (bandwidth, share of the local ranks and alpha together).
   The loop over the valid gaps stops once all blocks are placed; what is
   left after the last one is put down, as -1, after the last gap. *)
GetSnapshotStrategy(lines, threshold, sizes, rate, maxBlocks) ==
    LET valid == GetValidCommIdleTime(lines, threshold)
        none  == [next |-> 0, blocks |-> [k \in DOMAIN valid |-> 0]]
        place(acc, k) ==
            LET n == BlocksIn(sizes, acc.next, valid[k] * rate, maxBlocks)
            IN  [next |-> acc.next + n, blocks |-> [acc.blocks EXCEPT ![k] = n]]
        placed == FoldLeft(place, none, SetToSortSeq(DOMAIN valid, <))
        lastGap == Cardinality(GapKeys(lines))
    IN  IF placed.next < Len(sizes)
          THEN [k \in DOMAIN valid \cup {lastGap} |->
                   IF k = lastGap THEN -1 ELSE placed.blocks[k]]
          ELSE placed.blocks
=============================================================================
