-------------------------- MODULE MCZeroGradients --------------------------
(* Instances of ZeroGradients for TLC. *)
EXTENDS ZeroGradients

(* A parameter that is larger than the bucket and straddles two
   partitions, dealt in turn or not; small ones that share a bucket; three
   ranks, the last of which owns little but padding. *)
Dealt(numel, ranks) == LET order == RoundRobin(Len(numel), ranks)
                       IN  [i \in DOMAIN numel |-> numel[order[i]]]
Layout(numel, ranks, rank, bucketSize) ==
    [numel |-> numel, ranks |-> ranks, rank |-> rank, bucketSize |-> bucketSize]

Straddling == {Layout(<<2, 3, 1>>, 2, r, 2) : r \in {0, 1}}
Others == {Layout(<<1, 1, 1>>, 2, 0, 2), Layout(Dealt(<<2, 1, 3>>, 2), 2, 1, 3),
           Layout(<<3, 2, 2>>, 3, 1, 4), Layout(<<3, 2, 2>>, 3, 2, 4)}

Scaler(init, window, shift, consecutive) ==
    [init_scale |-> init, scale_window |-> window, min_scale |-> 1, delayed_shift |-> shift,
     consecutive_hysteresis |-> consecutive, raise_error_at_min_scale |-> shift = 1]

Mode(stage, overlap, offload, master, gas, s) ==
    [stage |-> stage, overlap |-> overlap, offload |-> offload, master |-> master,
     gas |-> gas, dynamic |-> FALSE, scaler |-> s]

Modes == {
    Mode(1, FALSE, FALSE, FALSE, 2, Scaler(2, 2, 1, FALSE)),
    Mode(1, FALSE, TRUE, FALSE, 2, Scaler(2, 2, 1, FALSE)),
    Mode(2, FALSE, FALSE, FALSE, 1, Scaler(2, 2, 2, TRUE)),
    Mode(2, TRUE, FALSE, FALSE, 2, Scaler(1, 1, 2, FALSE)),
    Mode(2, TRUE, TRUE, FALSE, 2, Scaler(2, 2, 2, FALSE)),
    Mode(2, TRUE, TRUE, TRUE, 2, Scaler(2, 2, 1, FALSE)),
    Mode(2, FALSE, TRUE, FALSE, 1, Scaler(2, 3, 1, FALSE))}

MCConfigs ==
    {m @@ l : m \in Modes, l \in Straddling}
    \cup {m @@ l : m \in {m \in Modes : m.overlap /\ ~m.master}, l \in Others}
=============================================================================
