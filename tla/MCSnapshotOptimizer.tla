------------------------ MODULE MCSnapshotOptimizer ------------------------
(***************************************************************************)
(* Instances of SnapshotOptimizer for TLC.  The strategies are the ones    *)
(* the planner computes for a profile of four gaps, of which gaps 0 and 2  *)
(* are idle for longer than the threshold 1: see the assumption.           *)
(***************************************************************************)
EXTENDS SnapshotOptimizerInv, SnapshotStrategy

(* Two blocks fit in gap 0 and one in gap 2. *)
CoveringStrategy == (0 :> 2) @@ (2 :> 1)

(* Gap 2 is too short: one block is left for the end of the iteration. *)
LeftoverStrategy == (0 :> 2) @@ (4 :> -1)

NoStrategy == << >>

BlockSizes == <<2, 1, 2>>

ASSUME PlannedStrategies ==
    /\ CoveringStrategy =
         GetSnapshotStrategy(<< <<3, 0, 2, 1>>, <<4, 1, 2, 0>> >>, 1, BlockSizes, 1, 2)
    /\ LeftoverStrategy =
         GetSnapshotStrategy(<< <<3, 0, 1, 1>>, <<4, 1, 2, 0>> >>, 1, BlockSizes, 1, 2)

(* The inductive invariants of the proofs; CoveringStrategy has issued Sent
   blocks after each of the four hooks. *)
Sent == (0 :> 0) @@ (1 :> 0) @@ (2 :> 2) @@ (3 :> 2) @@ (4 :> 3)

ProofInvariant ==
    /\ Mode = "interleave" => SentByHook(Sent)
    /\ IInv(Sent) /\ StreamInv
    /\ \E n \in -1 .. MaxIter : AgeInv(n) /\ OldInv(n) /\ LossInv(n)
=============================================================================
