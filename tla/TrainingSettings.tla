-------------------------- MODULE TrainingSettings --------------------------
(***************************************************************************)
(* The three sizes of a batch, of which the configuration gives some       *)
(* (runtime/config.py), a batch size that is set while training            *)
(* (runtime/engine.py), the sizes elastic training chooses                 *)
(* (elasticity/elasticity.py) and the learning rates                       *)
(* (runtime/lr_schedules.py).                                              *)
(***************************************************************************)
EXTENDS Integers, Sequences, SequencesExt, FiniteSets, FiniteSetsExt

Missing == 0      \* None; a size that is given is positive

(* _set_batch_related_parameters: what is not given is derived, rounding
   down; without an accumulation or a micro batch, one step is made. *)
Completed(train, micro, gas, world) ==
    CASE train # Missing /\ micro # Missing /\ gas # Missing ->
             [train |-> train, micro |-> micro, gas |-> gas]
      [] train # Missing /\ micro # Missing /\ gas = Missing ->
             [train |-> train, micro |-> micro, gas |-> (train \div micro) \div world]
      [] train # Missing /\ micro = Missing /\ gas # Missing ->
             [train |-> train, micro |-> (train \div world) \div gas, gas |-> gas]
      [] train = Missing /\ micro # Missing /\ gas # Missing ->
             [train |-> micro * gas * world, micro |-> micro, gas |-> gas]
      [] train # Missing /\ micro = Missing /\ gas = Missing ->
             [train |-> train, micro |-> train \div world, gas |-> 1]
      [] train = Missing /\ micro # Missing /\ gas = Missing ->
             [train |-> micro * world, micro |-> micro, gas |-> 1]
      [] train = Missing /\ micro = Missing ->
             [train |-> Missing, micro |-> Missing, gas |-> gas]

(* _batch_assertion: the sizes are positive and agree. *)
Consistent(b, world) ==
    /\ b.train > 0 /\ b.micro > 0 /\ b.gas > 0
    /\ b.train = b.micro * b.gas * world

(* set_train_batch_size: another number of accumulation steps, or an error
   that leaves the sizes as they are. *)
SetTrainBatchSize(b, train, world) ==
    IF train % (b.micro * world) # 0 THEN b
    ELSE [b EXCEPT !.train = train, !.gas = train \div (b.micro * world)]

----------------------------------------------------------------------------
(***************************************************************************)
(* The global batch size of elastic training, and the numbers of GPUs it   *)
(* can be trained on (elasticity/elasticity.py, versions 0.1 and 0.2), and *)
(* what the configuration of the engine makes of them (runtime/config.py). *)
(* A configuration is a record with the fields micros (the micro batch     *)
(* sizes), maxBatch, minGpus, maxGpus, larger (prefer_larger_batch_size),  *)
(* version, node (num_gpus_per_node) and mp (model_parallel_size).         *)
(***************************************************************************)

(* The highly composite numbers the list of the code starts with; a batch
   is smaller than 120 times a micro batch here. *)
HCN == {1, 2, 4, 6, 12, 24, 36, 48, 60, 120}

Divides(a, b) == b % a = 0

(* value or default, as in Python: 0 counts as no value. *)
Or(value, default) == IF value = 0 THEN default ELSE value

LCM(S) == Min({n \in 1 .. ProductSet(S) : \A m \in S : Divides(m, n)})

(* Every base is multiplied by the largest number of the list that keeps
   the product within maxBatch; a base that reaches maxBatch stays. *)
CandidateBatchSizes(bases, maxBatch) ==
    {IF b >= maxBatch THEN b ELSE b * Max({h \in HCN : h <= maxBatch \div b}) : b \in bases}

(* The number of micro batches of a batch, and its factors up to its half. *)
ValidGpus(batch, micros, minGpus, maxGpus) ==
    LET most(m) == batch \div m
    IN  UNION {{g \in {most(m)} \cup {i \in 1 .. most(m) \div 2 : Divides(i, most(m))} :
                    minGpus <= g /\ g <= maxGpus} :
               m \in {n \in micros : Divides(n, batch)}}

(* A mistake: a later candidate wins over an earlier one that is as good. *)
LaterIsBetter(best, batch, valid, larger) == Cardinality(valid) >= best.count

IsBetter(best, batch, valid, larger) ==
    \/ Cardinality(valid) > best.count
    \/ /\ Cardinality(valid) = best.count
       /\ IF larger THEN batch > best.batch ELSE batch < best.batch

(* The candidates are tried in the order a set iterates in: any order.
   With no candidate taken the list of GPU numbers is Python's None. *)
BestCandidates(candidates, micros, minGpus, maxGpus, larger) ==
    LET try(best, batch) ==
            LET valid == ValidGpus(batch, micros, minGpus, maxGpus)
            IN  IF IsBetter(best, batch, valid, larger)
                  THEN [batch |-> batch, valid |-> valid, count |-> Cardinality(valid), none |-> FALSE]
                  ELSE best
    IN  FoldLeft(try, [batch |-> Min(micros), valid |-> {}, count |-> 0, none |-> TRUE],
                 candidates)

Bases(micros) == micros \cup {LCM(micros)}

(* The batch limit version 0.2 hands to version 0.1, which counts nodes. *)
DpPerNode(cfg) == cfg.node \div cfg.mp
Limit(cfg) == IF cfg.version = 1 THEN cfg.maxBatch ELSE cfg.maxBatch \div DpPerNode(cfg)
MinGpus(cfg) == Or(IF cfg.version = 1 THEN cfg.minGpus ELSE cfg.minGpus \div cfg.node, 1)
MaxGpus(cfg) == Or(IF cfg.version = 1 THEN cfg.maxGpus ELSE cfg.maxGpus \div cfg.node,
                   Limit(cfg) \div Min(cfg.micros))

Candidates(cfg) == CandidateBatchSizes(Bases(cfg.micros), Limit(cfg))

Refused == [batch |-> 0, valid |-> {}, none |-> TRUE, raised |-> TRUE]

CompatibleGpusV01(cfg, order) ==
    IF \E m \in cfg.micros : m > Limit(cfg)
      THEN Refused
      ELSE LET best == BestCandidates(order, cfg.micros, MinGpus(cfg), MaxGpus(cfg), cfg.larger)
           IN  [batch |-> best.batch, valid |-> best.valid, none |-> best.none, raised |-> FALSE]

(* Version 0.2 multiplies what version 0.1 says of nodes by the data
   parallel ranks of a node; on a world size that is not among them it
   takes the largest (smallest) batch that the data parallel ranks "dp" of
   as many GPUs divide; the caller refuses the world size if dp is another
   number, whatever the batch.  The list of version 0.1, which it iterates
   over, must not be None. *)
CompatibleGpusV02(cfg, world, order) ==
    LET nodes == CompatibleGpusV01(cfg, order)
        batch == nodes.batch * DpPerNode(cfg)
        valid == {n * DpPerNode(cfg) : n \in nodes.valid}
        dp    == (world * DpPerNode(cfg)) \div cfg.node
        fit   == {(cfg.maxBatch \div (m * dp)) * m * dp : m \in cfg.micros}
    IN  CASE cfg.node % cfg.mp # 0 \/ nodes.raised \/ nodes.none -> Refused
          [] world \div cfg.mp \in valid ->
               [batch |-> batch, valid |-> valid, none |-> FALSE, raised |-> FALSE]
          [] world \div cfg.mp \notin valid /\ dp # world ->
               [batch |-> 0, valid |-> {dp}, none |-> FALSE, raised |-> FALSE]
          [] OTHER ->
               [batch |-> IF cfg.larger THEN Max(fit) ELSE Min(fit),
                valid |-> {dp}, none |-> FALSE, raised |-> FALSE]

(* What compute_elastic_config answers for a world size and what the
   engine's configuration derives from it: the largest micro batch that
   divides a rank's share, and the number of accumulation steps. *)
ComputeElasticConfig(cfg, world, order) ==
    LET found == IF cfg.version = 1 THEN CompatibleGpusV01(cfg, order)
                                    ELSE CompatibleGpusV02(cfg, world, order)
        fits  == {m \in cfg.micros : Divides(m, found.batch \div world)}
    IN  IF \/ cfg.mp > 1 /\ cfg.version = 1
           \/ found.raised \/ world \notin found.valid \/ fits = {}
          THEN [accepted |-> FALSE, batch |-> found.batch, valid |-> found.valid,
                micro |-> 0, gas |-> 0]
          ELSE [accepted |-> TRUE, batch |-> found.batch, valid |-> found.valid,
                micro |-> Max(fits), gas |-> found.batch \div (Max(fits) * world)]

----------------------------------------------------------------------------
(***************************************************************************)
(* The learning rates of the schedules after the step that sets            *)
(* last_batch_iteration to b (runtime/lr_schedules.py).  Rates are         *)
(* fractions, pairs of a numerator and a positive denominator; s holds the *)
(* parameters of a schedule, its rates and momenta integers.               *)
(***************************************************************************)

LOCAL Min2(x, y) == IF x < y THEN x ELSE y
LOCAL Max2(x, y) == IF x < y THEN y ELSE x

(* low + (high - low) * f *)
Between(low, high, f) == <<low * f[2] + (high - low) * f[1], f[2]>>

----------------------------------------------------------------------------
(* WarmupLR and WarmupDecayLR.  The logarithmic warm-up is known at its
   ends only: 0 at the first iteration, 1 at the last, growing between. *)
WarmupSteps(s) == Max2(2, s.warmup)
WarmupGamma(s, b) == <<b, WarmupSteps(s)>>
DecayGamma(s, b) ==
    <<Max2(0, s.total - b), Max2(1, s.total - WarmupSteps(s))>>
Gamma(s, b) ==
    IF b < WarmupSteps(s) THEN WarmupGamma(s, b)
    ELSE IF s.kind = "warmup" THEN <<1, 1>> ELSE DecayGamma(s, b)
WarmupLR(s, b) == Between(s.min, s.max, Gamma(s, b))

----------------------------------------------------------------------------
(* LRRangeTest: the rate grows by step_rate every step_size iterations. *)
RangeInterval(s, b) ==
    IF s.staircase THEN <<(b + 1) \div s.size, 1>> ELSE <<b + 1, s.size>>
LRRangeTest(s, b) ==
    LET i == RangeInterval(s, b) IN <<s.min * (i[2] + s.rate * i[1]), i[2]>>

----------------------------------------------------------------------------
(* OneCycle: up in the first part of the cycle and down in the second,
   counted from the next iteration, and then a decay. *)
TotalSize(s) == s.first + s.second
ScaleFactor(s, b) ==
    LET x == (b + 1) % TotalSize(s)
    IN  IF x <= s.first THEN <<x, s.first>> ELSE <<TotalSize(s) - x, s.second>>

DecayIteration(s, b) == b - TotalSize(s) + 1
SkipsDecay(s, rate) == s.decaySize = 0 \/ rate = 0

CycleLR(s, b) ==
    IF b < TotalSize(s) THEN Between(s.min, s.max, ScaleFactor(s, b))
    ELSE IF SkipsDecay(s, s.decay) THEN <<s.min, 1>>
    ELSE <<s.min * s.decaySize, s.decaySize + s.decay * DecayIteration(s, b)>>

(* The momentum goes down while the rate goes up; later it grows from its
   greatest value as the rate decays. *)
CycleMomentum(s, b) ==
    IF b < TotalSize(s) THEN Between(s.maxMom, s.minMom, ScaleFactor(s, b))
    ELSE IF SkipsDecay(s, s.momDecay) THEN <<s.maxMom, 1>>
    ELSE <<s.maxMom * (s.decaySize + s.momDecay * DecayIteration(s, b)), s.decaySize>>

----------------------------------------------------------------------------
(* The rate the first batch is trained with, before any step: WarmupLR
   leaves the optimizer's own. *)
FirstRate(s) == IF s.kind \in {"cycle", "range"} THEN s.min ELSE s.own

Rate(s, b) ==
    CASE s.kind = "cycle" -> CycleLR(s, b)
      [] s.kind = "range" -> LRRangeTest(s, b)
      [] s.kind \in {"warmup", "decay"} -> WarmupLR(s, b)
=============================================================================
