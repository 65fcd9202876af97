------------------------ MODULE ActivationCheckpoints ------------------------
(***************************************************************************)
(* Activation checkpointing                                                *)
(* (deepspeed/runtime/activation_checkpointing/checkpointing.py): a        *)
(* checkpointed function is called without a graph, and called again in    *)
(* the backward pass.  Between the calls its arguments are kept as they    *)
(* are, on the CPU, or cut into partitions over the tensor parallel ranks, *)
(* in memory of their own or in slots of contiguous buffers.               *)
(*                                                                         *)
(* All ranks do the same; a piece of memory is a function of the rank.     *)
(* The state s has the settings cfg, the number of ranks mp, the tensors - *)
(* where the data of each is, its dimensions and its device -, memory,     *)
(* the contiguous buffers, the states of the random generators, the        *)
(* contexts of the calls, the calls that were made again (past), and       *)
(* whether an exception was raised.  An argument that is not the name of a *)
(* tensor is another object.  The outputs and their gradients, which the   *)
(* code pairs by position, are left out.                                   *)
(***************************************************************************)
EXTENDS Integers, Sequences, SequencesExt, FiniteSets, FiniteSetsExt

(* configure: what is passed counts before the file, and that before the
   defaults; a file without a number of layers sets it to None, here -1. *)
Defaults == [partition |-> FALSE, contiguous |-> FALSE, cpu |-> FALSE, layers |-> 0]
FileDefaults == [Defaults EXCEPT !.layers = -1]
Configure(passed, hasFile, file) ==
    LET cfg == passed @@ (IF hasFile THEN file @@ FileDefaults ELSE <<>>) @@ Defaults
    IN  cfg @@ [raised |-> cfg.contiguous /\ (~cfg.partition \/ cfg.layers = -1)]

Numel(dims) == FoldLeft(LAMBDA x, y : x * y, 1, dims)
RanksOf(s) == 0 .. s.mp - 1

IsTensor(s, arg) == arg \in DOMAIN s.tensors
IsActivation(s, arg) ==
    IsTensor(s, arg) /\ s.tensors[arg].float /\ Numel(s.tensors[arg].dims) >= s.mp

(* What a function sees of an argument. *)
Value(s, arg) ==
    IF IsTensor(s, arg)
    THEN LET t == s.tensors[arg] IN [dims |-> t.dims, data |-> s.memory[t.at], device |-> t.device]
    ELSE [object |-> arg]
OnGpu(s, arg) ==
    IF IsActivation(s, arg) THEN [Value(s, arg) EXCEPT !.device = "cuda"] ELSE Value(s, arg)

Raise(x) == [x EXCEPT !.s.raised = TRUE]

----------------------------------------------------------------------------
(* CudaRNGStatesTracker and the generators of a rank.  A state is the seed
   and how often it was drawn from. *)
NewTracker == [states |-> <<>>, seeds |-> {}, raised |-> FALSE]
AddState(tracker, name, seed) ==
    IF seed \in tracker.seeds \/ name \in DOMAIN tracker.states
    THEN [tracker EXCEPT !.raised = TRUE]
    ELSE [tracker EXCEPT !.seeds = @ \cup {seed}, !.states = (name :> <<seed, 0>>) @@ @]

(* model_parallel_cuda_manual_seed, on rank r. *)
ManualSeed(seed, r) ==
    [cpu |-> <<0, 0>>, cuda |-> <<seed, 0>>,
     tracker |-> AddState(NewTracker, "model-parallel-rng", seed + 2718 + r).states]

(* A function draws from the CPU, from the GPU, or from the GPU in a fork. *)
Next1(state) == <<state[1], state[2] + 1>>
Draw(run, kind) ==
    LET g == run.random
    IN  CASE kind = "cpu"  -> [random |-> [g EXCEPT !.cpu = Next1(@)], drawn |-> Append(run.drawn, g.cpu)]
          [] kind = "cuda" -> [random |-> [g EXCEPT !.cuda = Next1(@)], drawn |-> Append(run.drawn, g.cuda)]
          [] kind = "fork" ->
               [random |-> [g EXCEPT !.tracker["model-parallel-rng"] = Next1(@)],
                drawn  |-> Append(run.drawn, g.tracker["model-parallel-rng"])]
Run(random, draws) ==
    [r \in DOMAIN random |-> FoldLeft(Draw, [random |-> random[r], drawn |-> <<>>], draws)]
RandomAfter(run) == [r \in DOMAIN run |-> run[r].random]
DrawnIn(run) == [r \in DOMAIN run |-> run[r].drawn]

----------------------------------------------------------------------------
Start(cfg, mp, objects, seed) ==
    [cfg |-> cfg, mp |-> mp,
     tensors |-> [t \in {objects[i].name : i \in DOMAIN objects} |->
         LET i == CHOOSE i \in DOMAIN objects : objects[i].name = t
         IN  [float |-> objects[i].float, dims |-> objects[i].dims, at |-> i, device |-> "cuda"]],
     memory |-> [i \in DOMAIN objects |-> [r \in 0 .. mp - 1 |->
         [k \in 1 .. Numel(objects[i].dims) |-> <<objects[i].name, k>>]]],
     shapes |-> <<>>, data |-> <<>>, sizes |-> <<>>,
     random |-> [r \in 0 .. mp - 1 |-> ManualSeed(seed, r)],
     contexts |-> <<>>, past |-> <<>>, raised |-> cfg.raised]

(* reset, and the start of a backward pass: the buffers are forgotten;
   contexts still point to their slots. *)
DropBuffers(s) == IF s.cfg.contiguous THEN [s EXCEPT !.data = <<>>, !.sizes = <<>>] ELSE s

(* The i-th activation of a call has a list of slots, one for each layer,
   as long as its partition the first time. *)
WithSlots(s, i, n) ==
    IF i <= Len(s.data) THEN s
    ELSE LET first == Len(s.memory) + 1
         IN  [s EXCEPT !.memory = @ \o [k \in 1 .. s.cfg.layers |->
                                     [r \in RanksOf(s) |-> [e \in 1 .. n |-> 0]]],
                       !.data = Append(@, [first |-> first, n |-> n, offset |-> 0])]
SameOffset(offset) == offset                                  \* a mistake
NextOffset(offset) == offset + 1

(* partition_activations. *)
PartitionOf(s, arg) ==
    LET t == s.tensors[arg]
        n == Numel(t.dims) \div s.mp
    IN  [r \in RanksOf(s) |-> SubSeq(s.memory[t.at][r], n * r + 1, n * (r + 1))]
IntoSlot(x, i, part, n) ==
    LET s    == WithSlots(x.s, i, n)
        b    == s.data[i]
        slot == b.first + b.offset
    IN  IF b.offset >= s.cfg.layers \/ n \notin {1, b.n} THEN Raise(x)
        ELSE [x EXCEPT !.s = [s EXCEPT !.data[i].offset = NextOffset(@),
                                       !.memory[slot] = [r \in RanksOf(s) |-> [e \in 1 .. b.n |->
                                            IF n = b.n THEN part[r][e] ELSE part[r][1]]]],
                       !.inputs = Append(@, [at |-> slot, n |-> b.n]), !.count = i]
PartitionOne(x, arg) ==
    LET s    == x.s
        n    == Numel(s.tensors[arg].dims) \div s.mp
        part == PartitionOf(s, arg)
    IN  IF s.raised THEN x
        ELSE IF ~IsActivation(s, arg) THEN [x EXCEPT !.inputs = Append(@, [at |-> 0, n |-> 0])]
        ELSE IF Numel(s.tensors[arg].dims) % s.mp # 0 THEN Raise(x)
        ELSE IF s.cfg.contiguous THEN IntoSlot(x, x.count + 1, part, n)
        ELSE [x EXCEPT !.s.memory = Append(@, part),
                       !.inputs = Append(@, [at |-> Len(s.memory) + 1, n |-> n])]
PartitionActivations(s, args) ==
    FoldLeft(PartitionOne, [s |-> s, inputs |-> <<>>, count |-> 0], args)

(* Tensors of sizes have a memory of their own; those of contiguous calls
   are parts of a flat tensor, as long as the first one times the layers. *)
SizeTensor(at, from, n) == [size |-> TRUE, at |-> at, from |-> from, n |-> n]
SizeIn(s, size) == SubSeq(s.shapes[size.at], size.from + 1, size.from + size.n)
WithSizes(s, i, n) ==
    IF i <= Len(s.sizes) THEN s
    ELSE [s EXCEPT !.shapes = Append(@, [k \in 1 .. n * s.cfg.layers |-> 0]),
                   !.sizes  = Append(@, [at |-> Len(s.shapes) + 1, offset |-> 0])]
Overwritten(shape, offset, dims) ==
    [k \in DOMAIN shape |->
        IF k \in offset + 1 .. offset + Len(dims) THEN dims[k - offset] ELSE shape[k]]

(* get_partitioned_activations_for_backward: what the arguments themselves
   have as data is replaced by their partitions. *)
WithOwnSize(x, s, arg, dims) ==
    [x EXCEPT !.s = [s EXCEPT !.shapes = Append(@, dims)],
              !.saved = @ \o <<[arg |-> arg], SizeTensor(Len(s.shapes) + 1, 0, Len(dims))>>]
WithFlatSize(x, cut, arg, dims) ==
    LET i == x.count + 1
        s == WithSizes(cut, i, Len(dims))
        b == s.sizes[i]
    IN  IF b.offset + Len(dims) > Len(s.shapes[b.at]) THEN Raise(x)
        ELSE [x EXCEPT !.s = [s EXCEPT !.sizes[i].offset = @ + Len(dims),
                                       !.shapes[b.at] = Overwritten(@, b.offset, dims)],
                       !.saved = @ \o <<[arg |-> arg], SizeTensor(b.at, b.offset, Len(dims))>>,
                       !.count = i]
Cut(s, arg, input) ==
    [s EXCEPT !.tensors[arg] = [@ EXCEPT !.at = input.at, !.dims = <<input.n>>,
                                         !.device = IF s.cfg.cpu THEN "cpu" ELSE @]]
KeepOne(x, k) ==
    LET s   == x.s
        arg == x.args[k]
        cut == Cut(s, arg, x.inputs[k])
    IN  IF s.raised THEN x
        ELSE IF ~IsTensor(s, arg) THEN [x EXCEPT !.saved = @ \o <<[arg |-> arg], [none |-> TRUE]>>]
        ELSE IF ~IsActivation(s, arg) THEN WithOwnSize(x, s, arg, s.tensors[arg].dims)
        ELSE IF s.cfg.contiguous THEN WithFlatSize(x, cut, arg, s.tensors[arg].dims)
        ELSE WithOwnSize(x, cut, arg, s.tensors[arg].dims)
KeepPartitions(s, args, inputs) ==
    FoldLeft(KeepOne, [s |-> s, args |-> args, inputs |-> inputs, saved |-> <<>>, count |-> 0],
             [k \in DOMAIN args |-> k])

(* get_cpu_activations_for_backward with copy_to_device, and
   move_to_device: a copy on the other device becomes the data. *)
MovedTo(s, args, device) ==
    LET move(y, arg) ==
            IF ~IsActivation(y, arg) \/ y.tensors[arg].device = device THEN y
            ELSE [y EXCEPT !.memory = Append(@, @[y.tensors[arg].at]),
                           !.tensors[arg].at = Len(y.memory) + 1,
                           !.tensors[arg].device = device]
    IN  FoldLeft(move, s, args)

----------------------------------------------------------------------------
(* CheckpointFunction.forward of call number c. *)
CheckpointForward(s, c, args, draws) ==
    LET seen  == [k \in DOMAIN args |-> OnGpu(s, args[k])]
        run   == Run(s.random, draws)
        made  == IF s.cfg.partition THEN PartitionActivations(s, args) ELSE [s |-> s]
        asIs  == [k \in DOMAIN args |-> [arg |-> args[k]]]
        kept  == IF s.cfg.partition THEN KeepPartitions(made.s, args, made.inputs)
                 ELSE [s |-> IF s.cfg.cpu THEN MovedTo(s, args, "cpu") ELSE s, saved |-> asIs]
    IN  IF made.s.raised THEN made.s
        ELSE IF kept.s.raised THEN kept.s
        ELSE [kept.s EXCEPT !.random = RandomAfter(run),
                            !.contexts = Append(@, [call |-> c, draws |-> draws, saved |-> kept.saved,
                                                    random |-> s.random, seen |-> seen,
                                                    drawn |-> DrawnIn(run)])]

(* gather_partitioned_activations: of every tensor and its size. *)
GatherOne(s, tensors, k) ==
    LET arg  == tensors[2 * k - 1].arg
        dims == SizeIn(s, tensors[2 * k])
        t    == s.tensors[arg]
        flat == FlattenSeq([q \in 1 .. s.mp |-> s.memory[t.at][q - 1]])
    IN  IF s.raised \/ ~IsActivation(s, arg) THEN s
        ELSE IF Numel(dims) # Len(flat) THEN [s EXCEPT !.raised = TRUE]
        ELSE [s EXCEPT !.memory = Append(@, [r \in RanksOf(s) |-> flat]),
                       !.tensors[arg] = [@ EXCEPT !.at = Len(s.memory) + 1, !.dims = dims,
                                                  !.device = "cuda"]]
Gather(s, tensors) ==
    FoldLeft(LAMBDA y, k : GatherOne(y, tensors, k), s, [k \in 1 .. Len(tensors) \div 2 |-> k])

(* extract_tensors, and merge_tensors, which leaves out the flag after one
   of a tensor if activations are partitioned: that of its size. *)
IsTensorObject(s, x) == "size" \in DOMAIN x \/ ("arg" \in DOMAIN x /\ IsTensor(s, x.arg))
ExtractTensors(s, saved) ==
    [tensors |-> SelectSeq(saved, LAMBDA x : IsTensorObject(s, x)),
     others  |-> SelectSeq(saved, LAMBDA x : ~IsTensorObject(s, x)),
     flags   |-> [k \in DOMAIN saved |-> IsTensorObject(s, saved[k])]]
RealFlags(cfg, flags) ==
    IF ~cfg.partition THEN flags
    ELSE FoldLeft(LAMBDA x, flag : IF x.previous THEN [x EXCEPT !.previous = FALSE]
                                   ELSE [previous |-> flag, flags |-> Append(x.flags, flag)],
                  [previous |-> FALSE, flags |-> <<>>], flags).flags
MergeTensors(tensors, others, flags) ==
    FoldLeft(LAMBDA merged, flag :
                 LET before == Cardinality({k \in DOMAIN merged : flags[k] = flag})
                 IN  Append(merged, IF flag THEN tensors[before + 1] ELSE others[before + 1]),
             <<>>, flags)

(* The generators are set to where they were at the first call, and set
   back afterwards. *)
RandomOfForward(s, context) == context.random

CheckpointBackward(s, c) ==
    LET context == s.contexts[CHOOSE k \in DOMAIN s.contexts : s.contexts[k].call = c]
        x       == ExtractTensors(s, context.saved)
        dropped == DropBuffers(s)
        args    == IF s.cfg.partition
                   THEN [k \in 1 .. Len(x.tensors) \div 2 |-> x.tensors[2 * k - 1].arg]
                   ELSE [k \in DOMAIN x.tensors |-> x.tensors[k].arg]
        there   == IF s.cfg.partition THEN Gather(dropped, x.tensors)
                   ELSE IF s.cfg.cpu THEN MovedTo(dropped, args, "cuda")
                   ELSE dropped
        again   == MergeTensors([k \in DOMAIN args |-> Value(there, args[k])],
                                [k \in DOMAIN x.others |->
                                    [object |-> IF "arg" \in DOMAIN x.others[k] THEN x.others[k].arg
                                                ELSE "None"]],
                                RealFlags(s.cfg, x.flags))
        run     == Run(RandomOfForward(s, context), context.draws)
    IN  IF there.raised THEN there
        ELSE [there EXCEPT
                 !.contexts = SelectSeq(@, LAMBDA k : k.call # c),
                 !.past = Append(@, [call |-> c, seen |-> context.seen, drawn |-> context.drawn,
                                     again |-> again, redrawn |-> DrawnIn(run)])]
=============================================================================
