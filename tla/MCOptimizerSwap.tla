-------------------------- MODULE MCOptimizerSwap --------------------------
(* Three sub-groups; the settings for TLC.  Each has the fewest buffers that
   its mode of overlapping needs. *)
EXTENDS OptimizerSwap

All == Groups \X Pieces
Setting(swappable, large, read, write, batches) ==
  [swappable |-> swappable, large |-> large \cap (swappable \X Pieces),
   read |-> read, write |-> write, batches |-> batches,
   buffers |-> (NumStates + 1) *
     InBuffers([swappable |-> swappable, read |-> read, write |-> write])]

(* Everything overlaps and every other piece is small; one direction only,
   with a sub-group that stays in memory; one sub-group whose gradients fill
   all of its few buffers when steps are skipped. *)
MCConfigs ==
  {Setting(Groups, Groups \X {1}, TRUE, TRUE, 1),
   Setting({1, 3}, All, TRUE, FALSE, 2),
   Setting({1, 3}, Groups \X {2}, FALSE, TRUE, 2),
   Setting({2}, All, TRUE, FALSE, 4)}
==============================================================================
