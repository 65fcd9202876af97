---------------------------- MODULE ZeroGradients ----------------------------
(***************************************************************************)
(* The way of a gradient through ZeRO stages 1 and 2, on one rank:         *)
(* deepspeed/runtime/zero/stage_1_and_2.py, driven by the backward and     *)
(* step of deepspeed/runtime/engine.py.                                    *)
(*                                                                         *)
(* Autograd produces the gradients of a micro-step in an order of its own. *)
(* Under stage 2 a hook puts each into a bucket as it comes; under stage 1 *)
(* they add up in the parameters and go into the bucket at the last        *)
(* micro-step of a batch.  A full bucket is averaged with the other ranks, *)
(* on a stream of its own if communication is overlapped, and what this    *)
(* rank owns of it is kept: on the GPU, where it adds up in                *)
(* averaged_gradients, or in the memory of the CPU.  At the boundary of    *)
(* the batch the optimizer takes its step on what was kept, unless there   *)
(* was an overflow.                                                        *)
(*                                                                         *)
(* The value of a gradient is the bag of its contributions: <<n, k>> is    *)
(* what micro-step n added, averaged k times with the other ranks.  All    *)
(* ranks run the same program, so that the collectives of one match those  *)
(* of the others; what the others compute is not modelled.                 *)
(***************************************************************************)
EXTENDS Integers, Sequences, FiniteSets, Bags, ZeroPartition

----------------------------------------------------------------------------
(* The dynamic loss scaler (fp16/loss_scaler.py, DynamicLossScaler), a
   function from a scaler and the outcome of a step to the next scaler.
   The optimizer calls it once for each step it is asked to take. *)

(* How a scaler is set up: the first scale, the steps without an overflow
   before it grows, its least value, the overflows it bears before it
   shrinks ("hysteresis"), and two switches.  The factor is 2. *)
Settings == [init_scale : Nat \ {0}, scale_window : Nat \ {0}, min_scale : Nat \ {0},
             delayed_shift : Nat \ {0}, consecutive_hysteresis : BOOLEAN,
             raise_error_at_min_scale : BOOLEAN]

NewScaler(s) ==
    [cur_scale |-> s.init_scale, cur_iter |-> 0, last_overflow_iter |-> -1,
     cur_hysteresis |-> s.delayed_shift]

(* An overflow costs a factor of the scale, once the hysteresis is used. *)
Shrinks(s, x) == s.delayed_shift = 1 \/ x.cur_hysteresis = 1

(* It cannot shrink any more: update_scale raises, and the run ends. *)
Exhausted(s, x) ==
    Shrinks(s, x) /\ x.cur_scale = s.min_scale /\ s.raise_error_at_min_scale

(* A mistake the checks must catch: the window is counted from the first
   step, whatever overflows. *)
WindowsFromTheStart(s, x) == (x.cur_iter + 1) % s.scale_window = 0

Larger(a, b) == IF a > b THEN a ELSE b

WindowIsOver(s, x) == (x.cur_iter - x.last_overflow_iter) % s.scale_window = 0

AfterOverflow(s, x) ==
    [cur_scale |-> IF Shrinks(s, x) THEN Larger(x.cur_scale \div 2, s.min_scale)
                   ELSE x.cur_scale,
     cur_iter |-> x.cur_iter + 1,
     last_overflow_iter |-> x.cur_iter,
     cur_hysteresis |-> IF Shrinks(s, x) THEN x.cur_hysteresis ELSE x.cur_hysteresis - 1]

AfterGoodStep(s, x) ==
    [cur_scale |-> IF WindowIsOver(s, x) THEN 2 * x.cur_scale ELSE x.cur_scale,
     cur_iter |-> x.cur_iter + 1,
     last_overflow_iter |-> x.last_overflow_iter,
     cur_hysteresis |-> IF s.consecutive_hysteresis \/ WindowIsOver(s, x)
                        THEN s.delayed_shift ELSE x.cur_hysteresis]

UpdateScale(s, x, overflow) ==
    IF overflow THEN AfterOverflow(s, x) ELSE AfterGoodStep(s, x)

----------------------------------------------------------------------------
CONSTANTS
    Configs,        \* the configurations, see ConfigOK
    MaxMicroSteps   \* bound: micro-steps of a run

VARIABLES
    config,     \* the configuration and the layout of the parameters
    phase,      \* where the loop of the engine is
    microSteps, \* micro_steps: micro-steps finished
    microStep,  \* micro_step_id of the optimizer
    unready,    \* parameters whose gradient autograd has yet to produce
    bucket,     \* params_in_ipg_bucket, in order
    large,      \* extra_large_param_to_reduce
    ipg,        \* ipg_buffer: the parameter whose gradient each cell holds
    ipgIndex,   \* ipg_index: the buffer that is being filled
    reduced,    \* params_already_reduced
    job,        \* what the reduction stream has yet to do
    mem,        \* where gradients are, see Memory
    scaler,     \* the loss scaler
    used,       \* history: what each parameter was given in this batch
    bad,        \* history: micro-steps and parameters with an overflow
    calm        \* history: steps taken since the last overflow

vars == <<config, phase, microSteps, microStep, unready, bucket, large, ipg, ipgIndex,
          reduced, job, mem, scaler, used, bad, calm>>

(* Stage 1 never overlaps (engine.py, _configure_zero_optimizer), and only
   stage 2 with offloading may keep half precision masters (config.py). *)
ConfigOK(c) ==
    /\ c.stage \in {1, 2} /\ c.gas \in Nat \ {0} /\ c.offload \in BOOLEAN
    /\ c.overlap => c.stage = 2
    /\ c.master => c.stage = 2 /\ c.offload
    /\ c.numel \in Seq(Nat \ {0}) /\ c.ranks \in Nat \ {0} /\ c.rank \in 0 .. c.ranks - 1
    /\ c.bucketSize \in Nat /\ c.scaler \in Settings

ASSUME ConfigsAssumption == \A c \in Configs : ConfigOK(c)

None == 0
NoJob == [params |-> <<>>, buffer |-> -1, large |-> None]

Numel(p) == config.numel[p]
Params == DOMAIN config.numel
Owned == ParamsInPartition(config.numel, PartitionSize(config.numel, config.ranks), config.rank)
Elements(list) == Sum([i \in DOMAIN list |-> Numel(list[i])])

(* is_gradient_accumulation_boundary *)
Boundary == (microSteps + 1) % config.gas = 0
ThisStep == microSteps + 1

(* create_reduce_and_remove_grad_hooks is called for these only. *)
Hooked == config.stage = 2 \/ config.overlap

----------------------------------------------------------------------------
(* Values of gradients.  Garbage is read from memory that something else
   has been written to. *)
NoGrad == EmptyBag
Contribution(n) == SetToBag({<<n, 0>>})
Garbage == SetToBag({<<0, 0>>})
Averaged(g) == [e \in {<<x[1], x[2] + 1>> : x \in DOMAIN g} |-> g[<<e[1], e[2] - 1>>]]
Overflows(p, g) == \E x \in DOMAIN g : <<x[1], p>> \in bad

(* grad: param.grad; kept: averaged_gradients; cpu: accumulated_grads_in_
   cpu; fp32: the gradient of single_partition_of_fp32_groups;
   overflow: local_overflow. *)
Zeros == [p \in Params |-> NoGrad]
Memory == [grad |-> Zeros, kept |-> Zeros, cpu |-> Zeros, fp32 |-> Zeros, overflow |-> FALSE]

(* With masters in half precision the two buffers of the CPU are one. *)
OnCpu(m, p) == IF config.master THEN m.fp32[p] ELSE m.cpu[p]
StoreOnCpu(m, p, g) ==
    IF config.master THEN [m EXCEPT !.fp32[p] = g] ELSE [m EXCEPT !.cpu[p] = g]

(* async_accumulate_grad_in_cpu_via_gpu: param.grad afterwards. *)
Accumulated(m, p, g) ==
    IF config.gas > 1 /\ microStep > 0 THEN g (+) OnCpu(m, p) ELSE g

(* A mistake the checks must catch: only the last gradient is looked at. *)
LastOverflow(m, p, g) == Overflows(p, g)
TracksOverflow(m, p, g) == m.overflow \/ Overflows(p, g)

(* copy_grads_in_partition: g is the average of the gradient of p. *)
Keep(m, p, g) ==
    LET sum == Accumulated(m, p, g)
    IN  IF ~config.offload THEN [m EXCEPT !.grad[p] = g]
        ELSE IF Boundary
        THEN [m EXCEPT !.fp32[p] = sum, !.grad[p] = NoGrad,
                       !.overflow = TracksOverflow(m, p, sum)]
        ELSE StoreOnCpu(m, p, sum)

(* The cells of the i-th gradient of a bucket. *)
CellsOf(list, i) ==
    LET from == Elements(SubSeq(list, 1, i - 1)) IN from .. from + Numel(list[i]) - 1
Intact(j, i) == j.large # None \/ \A c \in CellsOf(j.params, i) : ipg[j.buffer][c] = j.params[i]

(* average_tensor and the loop after it, as the stream runs them. *)
Place(j, m, i) ==
    LET p == j.params[i]
    IN  IF p \notin Owned THEN m
        ELSE Keep(m, p, IF Intact(j, i) THEN Averaged(m.grad[p]) ELSE Garbage)
RunJob(m, j) ==
    FoldLeft(LAMBDA n, i : Place(j, n, i), m, [i \in DOMAIN j.params |-> i])

----------------------------------------------------------------------------
Bucketed == [params |-> bucket, buffer |-> ipgIndex, large |-> large]

(* torch.cuda.synchronize in average_tensor: a reduction waits for the one
   before it. *)
MayReduce == config.overlap => job = NoJob

(* reduce_ipg_grads: the job is left to the stream, or done at once. *)
Launch(m) ==
    /\ MayReduce
    /\ job' = IF config.overlap THEN Bucketed ELSE NoJob
    /\ mem' = IF config.overlap THEN m ELSE RunJob(m, Bucketed)

(* It asserts that a large parameter is alone in its bucket, and that no
   parameter of the bucket was reduced before. *)
LaunchFails ==
    \/ large # None /\ bucket # <<large>>
    \/ \E i \in DOMAIN bucket : bucket[i] \in reduced

BucketIsFull(p) == Elements(bucket) + Numel(p) > config.bucketSize

(* A mistake the checks must catch: one buffer is used for two buckets. *)
SameBuffer == ipgIndex

OtherBuffer == IF config.overlap THEN 1 - ipgIndex ELSE ipgIndex
ResetReduced == {}

Raise ==
    /\ phase' = "raised"
    /\ UNCHANGED <<config, microSteps, microStep, unready, bucket, large, ipg, ipgIndex,
                   reduced, job, mem, scaler, used, bad, calm>>

(* The gradient of p is written behind those of the bucket: it must fit. *)
PutInto(index, list, p) ==
    /\ bucket' = Append(list, p)
    /\ IF Numel(p) > config.bucketSize
       THEN large' = p /\ ipg' = ipg
       ELSE /\ large' = IF list = <<>> THEN None ELSE large
            /\ ipg' = [ipg EXCEPT ![index] =
                           [c \in DOMAIN @ |-> IF c \in CellsOf(Append(list, p), Len(list) + 1)
                                               THEN p ELSE @[c]]]

(* The assertions of a call for p. *)
ReduceFails(p) ==
    \/ BucketIsFull(p) /\ LaunchFails
    \/ p \in reduced
    \/ ~BucketIsFull(p) /\ Numel(p) <= config.bucketSize
       /\ Elements(bucket) + Numel(p) > Cardinality(DOMAIN ipg[0])

(* reduce_independent_p_g_buckets_and_remove_grads, with the gradients m. *)
ReduceParam(p, m) ==
    IF BucketIsFull(p)
    THEN /\ Launch(m)
         /\ reduced' = reduced \cup Range(bucket)
         /\ ipgIndex' = OtherBuffer
         /\ PutInto(OtherBuffer, <<>>, p)
    ELSE /\ mem' = m
         /\ PutInto(ipgIndex, bucket, p)
         /\ UNCHANGED <<reduced, ipgIndex, job>>

----------------------------------------------------------------------------
FreshBuffers == [k \in {0, 1} |-> [c \in 0 .. config.bucketSize - 1 |-> None]]

Init ==
    /\ config \in Configs
    /\ phase = "idle" /\ microSteps = 0 /\ microStep = 0
    /\ unready = {} /\ bucket = <<>> /\ large = None
    /\ ipg = FreshBuffers /\ ipgIndex = 0
    /\ reduced = {} /\ job = NoJob /\ mem = Memory
    /\ scaler = NewScaler(config.scaler)
    /\ used = Zeros /\ bad = {} /\ calm = 0

(* engine.backward, DeepSpeedZeroOptimizer.backward.  The loss depends on
   some of the parameters; with offloading it depends on all, unless the
   configuration says that the model is a dynamic one.  At most one of the
   gradients overflows (overflow is None, or that parameter). *)
Backward(given, overflow) ==
    /\ phase = "idle" /\ microSteps < MaxMicroSteps
    /\ given = Params \/ ~config.offload \/ config.dynamic
    /\ overflow \in given \cup {None}
    /\ phase' = "backward"
    /\ microStep' = microStep + 1
    /\ unready' = given
    /\ ipg' = FreshBuffers /\ ipgIndex' = 0
    /\ used' = [p \in Params |->
                   IF p \in given THEN used[p] (+) SetToBag({<<ThisStep, 1>>}) ELSE used[p]]
    /\ bad' = IF overflow = None THEN bad ELSE bad \cup {<<ThisStep, overflow>>}
    /\ UNCHANGED <<config, microSteps, bucket, large, reduced, job, mem, scaler, calm>>

(* Autograd adds to the gradient of p, and calls the hook of p. *)
GradReady(p) ==
    LET m == [mem EXCEPT !.grad[p] = @ (+) Contribution(ThisStep)]
    IN  /\ phase = "backward" /\ p \in unready
        /\ IF Hooked /\ ReduceFails(p) THEN Raise
           ELSE /\ unready' = unready \ {p}
                /\ IF Hooked THEN ReduceParam(p, m)
                   ELSE mem' = m /\ UNCHANGED <<bucket, large, ipg, ipgIndex, reduced, job>>
                /\ UNCHANGED <<config, phase, microSteps, microStep, scaler, used, bad, calm>>

(* engine.allreduce_gradients: what comes after the backward pass. *)
BackwardDone ==
    /\ phase = "backward" /\ unready = {}
    /\ phase' = IF config.stage = 2 THEN "flush" ELSE IF Boundary THEN "reduce" ELSE "step"
    /\ unready' = IF config.stage = 1 /\ Boundary
                  THEN {p \in Params : mem.grad[p] # NoGrad} ELSE {}
    /\ UNCHANGED <<config, microSteps, microStep, bucket, large, ipg, ipgIndex, reduced,
                   job, mem, scaler, used, bad, calm>>

(* reduce_gradients, the loop of stage 1: the parameters in order. *)
ReduceNext(p) ==
    /\ phase = "reduce" /\ p \in unready /\ \A q \in unready : p <= q
    /\ IF ReduceFails(p) THEN Raise
       ELSE /\ unready' = unready \ {p}
            /\ ReduceParam(p, mem)
            /\ UNCHANGED <<config, phase, microSteps, microStep, scaler, used, bad, calm>>

AllReduced ==
    /\ phase = "reduce" /\ unready = {}
    /\ phase' = "flush"
    /\ UNCHANGED <<config, microSteps, microStep, unready, bucket, large, ipg, ipgIndex,
                   reduced, job, mem, scaler, used, bad, calm>>

StreamRuns ==
    /\ job # NoJob
    /\ job' = NoJob
    /\ mem' = RunJob(mem, job)
    /\ UNCHANGED <<config, phase, microSteps, microStep, unready, bucket, large, ipg,
                   ipgIndex, reduced, scaler, used, bad, calm>>

(* independent_gradient_partition_epilogue, up to its synchronization. *)
EpilogueFlush ==
    /\ phase = "flush"
    /\ IF LaunchFails THEN Raise
       ELSE /\ Launch(mem)
            /\ bucket' = <<>> /\ large' = None
            /\ reduced' = ResetReduced
            /\ phase' = "collect"
            /\ UNCHANGED <<config, microSteps, microStep, unready, ipg, ipgIndex, scaler,
                           used, bad, calm>>

(* What this rank owns is added to what it kept; no gradient is left. *)
Collected(m) ==
    IF config.offload THEN m.kept
    ELSE [p \in Params |-> IF p \in Owned THEN m.kept[p] (+) m.grad[p] ELSE NoGrad]

EpilogueCollect ==
    /\ phase = "collect" /\ MayReduce
    /\ phase' = "step"
    /\ mem' = [mem EXCEPT !.kept = Collected(mem), !.grad = Zeros]
    /\ UNCHANGED <<config, microSteps, microStep, unready, bucket, large, ipg, ipgIndex,
                   reduced, job, scaler, used, bad, calm>>

----------------------------------------------------------------------------
(* engine.step.  Within a batch nothing happens. *)
NoStep ==
    /\ phase = "step" /\ ~Boundary
    /\ phase' = "idle" /\ microSteps' = microSteps + 1
    /\ UNCHANGED <<config, microStep, unready, bucket, large, ipg, ipgIndex, reduced, job,
                   mem, scaler, used, bad, calm>>

(* The gradient the optimizer would use for p. *)
ToApply(p) == IF config.offload THEN mem.fp32[p] ELSE mem.kept[p]

(* has_overflow, of this rank; its outcome is the maximum over the ranks. *)
LocalOverflow ==
    IF config.offload THEN mem.overflow ELSE \E p \in Owned : Overflows(p, mem.kept[p])

StepCleans == [mem EXCEPT !.kept = Zeros, !.grad = Zeros, !.overflow = FALSE]
OverflowCleans == [mem EXCEPT !.kept = IF config.offload THEN mem.kept ELSE Zeros,
                              !.grad = Zeros, !.overflow = FALSE]

(* The loss scaler raises: no scale is left to try, and training ends. *)
GiveUp ==
    /\ phase' = "ended" /\ microStep' = -1
    /\ UNCHANGED <<config, microSteps, unready, bucket, large, ipg, ipgIndex, reduced, job,
                   mem, scaler, used, bad, calm>>

(* DeepSpeedZeroOptimizer.step: elsewhere says whether another rank had an
   overflow. *)
Step(elsewhere) ==
    LET overflow == LocalOverflow \/ elsewhere
    IN  /\ phase = "step" /\ Boundary
        /\ elsewhere => bad # {}
        /\ IF overflow /\ Exhausted(config.scaler, scaler) THEN GiveUp
           ELSE /\ phase' = "idle" /\ microSteps' = microSteps + 1
                /\ microStep' = -1
                /\ scaler' = UpdateScale(config.scaler, scaler, overflow)
                /\ mem' = IF overflow THEN OverflowCleans ELSE StepCleans
                /\ used' = Zeros /\ bad' = {}
                /\ calm' = IF overflow THEN 0 ELSE calm + 1
                /\ UNCHANGED <<config, unready, bucket, large, ipg, ipgIndex, reduced, job>>

Next ==
    \/ \E given \in SUBSET Params, overflow \in Params \cup {None} :
           Backward(given, overflow)
    \/ \E p \in Params : GradReady(p) \/ ReduceNext(p)
    \/ BackwardDone \/ AllReduced \/ StreamRuns
    \/ EpilogueFlush \/ EpilogueCollect \/ NoStep
    \/ \E elsewhere \in BOOLEAN : Step(elsewhere)

Spec == Init /\ [][Next]_vars

----------------------------------------------------------------------------
(* When the optimizer is about to step, the gradient it will use for every
   parameter this rank owns is the sum of the gradients of the micro-steps
   of this batch that used it, each of them once and averaged once over
   the ranks: none lost in a bucket, none overwritten while the stream was
   at work, none left from a batch before, skipped or not.  And it gets
   there: no assertion of the reduction fails, whatever the order of
   autograd. *)
StepUsesTheBatch ==
    /\ phase # "raised"
    /\ phase = "step" /\ Boundary => \A p \in Owned : ToApply(p) = used[p]

(* Whatever the order of the bucket, each of its elements is in exactly
   one slice, and that goes to the rank whose partition holds the element.
   The parts of the gradients that make up the flat gradient of a rank are
   the elements of its partition, each at its own place. *)
EveryElementHasItsOwner ==
    LET size   == PartitionSize(config.numel, config.ranks)
        slices == Slices(config.numel, size, config.ranks, bucket)
        places == GradPosition(config.numel, size, config.rank)
        Covers(s, b) == s.at <= b /\ b < s.at + s.length
        At(i, e) == Elements(SubSeq(bucket, 1, i - 1)) + e
        Element(q, j) == StartOf(config.numel, q.param) + q.from + j
    IN  /\ \A i \in DOMAIN bucket : \A e \in 0 .. Numel(bucket[i]) - 1 :
               \E s \in Range(slices) :
                   /\ \A t \in Range(slices) : Covers(t, At(i, e)) <=> t = s
                   /\ s.rank = (StartOf(config.numel, bucket[i]) + e) \div size
        /\ \A x \in size * config.rank .. size * (config.rank + 1) - 1 :
               x < Sum(config.numel) =>
                   Cardinality({at \in (DOMAIN places) \X (0 .. size - 1) :
                       LET place == places[at[1]]
                       IN  /\ at[2] < place.length
                           /\ Element(place, at[2]) = x
                           /\ place.dest + at[2] = x - size * config.rank}) = 1

(* A step is skipped exactly for its own batch: never when no micro-step
   of the batch overflowed, and always when a gradient this rank would
   apply did. *)
OnlyOverflowsAreSkipped ==
    [][phase = "step" /\ Boundary /\ phase' = "idle" =>
          /\ calm' = 0 => bad # {}
          /\ (\E p \in Owned : Overflows(p, used[p])) => calm' = 0]_vars

(* The loss scale grows exactly when another scale_window steps in a row
   had no overflow, and shrinks only at a step that overflowed. *)
ScaleIsEarned ==
    [][phase = "step" /\ Boundary /\ phase' = "idle" =>
          LET earned == calm' > 0 /\ calm' % config.scaler.scale_window = 0
          IN  /\ scaler'.cur_scale > scaler.cur_scale <=> earned
              /\ scaler'.cur_scale < scaler.cur_scale => calm' = 0]_vars

==============================================================================
