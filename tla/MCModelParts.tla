---------------------------- MODULE MCModelParts ----------------------------
(***************************************************************************)
(* Questions about how a model is built and cut: the layouts of sparse     *)
(* attention, the layers of pipeline stages, tiled linear layers, the      *)
(* buffer tensors are cut from, and checkpointed activations.              *)
(***************************************************************************)
EXTENDS MCQuestions, SparseLayout, PipeModule, ContiguousMemory,
        ActivationCheckpoints

(* Patterns without random blocks on up to seven blocks, with random ones
   on three. *)
Pattern(kind, n, uni) ==
    [of |-> "layout", kind |-> kind, n |-> n, uni |-> uni, heads |-> 2, different |-> FALSE,
     local |-> 1, global |-> 1, patterns |-> 1, horizontal |-> FALSE, windows |-> <<1>>,
     starts |-> << >>, ends |-> << >>, sliding |-> 1, random |-> 0,
     sample |-> [row \in 0 .. n - 1 |-> {}]]
Ranges == {<<<< >>, << >>>>, <<<<0>>, << >>>>, <<<<2, 6>>, << >>>>, <<<<1>>, <<3>>>>,
           <<<<2>>, <<1>>>>, <<<<0>>, <<1, 2>>>>}
Samples(c) ==
    {f \in [0 .. c.n - 1 -> kSubset(c.random, 0 .. c.n - 1)] :
        c.kind = "bigbird" => \A row \in DOMAIN f : f[row] \subseteq BigBirdRange(c, row)}
Sampled(configs) ==
    UNION {{[c EXCEPT !.sample = s] : s \in IF Refused(c) THEN {c.sample} ELSE Samples(c)} :
               c \in configs}

FixedPatterns ==
    {[Pattern("fixed", n, uni) EXCEPT !.local = l, !.global = g, !.patterns = p,
                                      !.horizontal = h, !.different = d] :
        n \in 1 .. 7, uni, h, d \in BOOLEAN, l \in 1 .. 4, g \in 1 .. 2, p \in 1 .. 3}
VariablePatterns ==
    {[Pattern("variable", n, uni) EXCEPT !.windows = w, !.starts = r[1], !.ends = r[2],
                                         !.horizontal = h, !.random = IF n = 3 THEN k ELSE 0] :
        n \in {1, 3, 6, 7}, uni, h \in BOOLEAN, w \in {<<1>>, <<2>>, <<1, 3>>, <<9, 2>>},
        r \in Ranges, k \in 0 .. 2}
BigBirdPatterns ==
    {[Pattern("bigbird", n, uni) EXCEPT !.sliding = s, !.global = g,
                                        !.random = IF n = 3 THEN k ELSE 0] :
        n \in {1, 3, 6}, uni \in BOOLEAN, s \in 1 .. 4, g \in 0 .. 2, k \in 0 .. 2}
SlidingPatterns ==
    {[Pattern(kind, n, uni) EXCEPT !.sliding = s, !.starts = r[1], !.ends = r[2]] :
        kind \in {"longformer", "sliding", "dense"}, n \in 1 .. 7, uni \in BOOLEAN, s \in 1 .. 4,
        r \in Ranges}
LayoutQuestions ==
    FixedPatterns \cup SlidingPatterns \cup Sampled(VariablePatterns \cup BigBirdPatterns)

(* Layers of a model of up to four on some stages, read on others. *)
Specs == {[kind |-> "module", key |-> None, wrapped |-> FALSE],
          [kind |-> "function", key |-> None, wrapped |-> FALSE]}
         \cup [kind : {"tied"}, key : {"a", "b"}, wrapped : BOOLEAN]
ModuleQuestions ==
    [of : {"module"}, specs : UNION {[0 .. n - 1 -> Specs] : n \in 1 .. 3}, from : 1 .. 3, to : 1 .. 3,
     interval : 0 .. 2]

TileQuestions ==
    [of : {"tiles"}, in : 1 .. 5, out : 1 .. 4, inSplits : 0 .. 6, outSplits : 0 .. 5,
     bias : BOOLEAN]

(* Calls of the allocator: tensors of some sizes, or releases of the first
   or the last of the live ones.  One tensor may not be assigned. *)
BufferSize == 6
MostCalls == 6
MemoryQuestions ==
    [of : {"memory"}, unassigned : 0 .. 2,
     calls : [1 .. MostCalls -> [allocate : 1 .. 3] \cup [release : {"first", "last"}]]]

(* Two checkpointed calls and their backward passes.  Arguments are whole
   numbers, floats of one to four elements, and objects. *)
Objects == <<[name |-> "x", float |-> TRUE, dims |-> <<2, 2>>],
             [name |-> "y", float |-> TRUE, dims |-> <<4>>],
             [name |-> "z", float |-> TRUE, dims |-> <<2, 2>>],
             [name |-> "pair", float |-> TRUE, dims |-> <<2>>],
             [name |-> "odd", float |-> TRUE, dims |-> <<3>>],
             [name |-> "one", float |-> TRUE, dims |-> <<1>>],
             [name |-> "mask", float |-> FALSE, dims |-> <<4>>]>>
Arguments == {Objects[i].name : i \in DOMAIN Objects} \cup {"flag"}
Passed == {<<>>} \cup [partition : BOOLEAN, cpu : BOOLEAN, contiguous : BOOLEAN, layers : 1 .. 2]
Files == {<<>>, [contiguous |-> TRUE, partition |-> TRUE], [cpu |-> TRUE]}
CheckpointSettings ==
    {Configure(passed, hasFile, file) : passed \in Passed, hasFile \in BOOLEAN, file \in Files}
Programs ==
    LET call(k) == [do |-> "forward", call |-> k]
        back(k) == [do |-> "backward", call |-> k]
    IN  {<<call(1), back(1), call(2), back(2)>>, <<call(1), call(2), back(2), back(1)>>,
         <<call(1), call(2), back(1), back(2)>>,
         <<call(1), [do |-> "reset", call |-> 0], call(2), back(2), back(1)>>}
CheckpointQuestions ==
    [of : {"activations"}, cfg : CheckpointSettings, mp : 1 .. 2, program : Programs,
     args : ([1 .. 1 -> Arguments] \cup [1 .. 2 -> Arguments])
            \X {<<"x">>, <<"y">>, <<"pair">>, <<"y", "x">>, <<"flag", "x">>}]

ModelPartQuestions ==
    LayoutQuestions \cup ModuleQuestions \cup TileQuestions \cup MemoryQuestions
    \cup CheckpointQuestions

----------------------------------------------------------------------------
LayOut == Answer("layout", IF Refused(question) THEN << >> ELSE MakeLayout(question))

(* Training changes every parameter; gradients of what is tied are added
   up over the stages, so equal weights stay equal. *)
Trained(stages) ==
    [s \in DOMAIN stages |-> [m \in DOMAIN stages[s] |->
        [a \in Attributes |-> <<"trained", stages[s][m][a]>>]]]
Parts(n) == PartitionUniform(Cardinality(DOMAIN question.specs), n)
Grid(n) == PipeModelDataParallelTopology(n, 2, 2)
Orders == {order \in {<<"a", "b">>, <<"b", "a">>, <<"a">>, <<"b">>, << >>} :
               ToSet(order) = Keys(question.specs)}
BuildModules ==
    LET specs == question.specs
        built == BuildStages(specs, Parts(question.from))
        saved == Trained(built)
    IN  Answer("module",
            [built  |-> built,
             saved  |-> saved,
             loaded |-> LoadLayers(specs, Parts(question.to), BuildStages(specs, Parts(question.to)),
                                   SaveLayers(specs, Parts(question.from), saved)),
             groups |-> {NewGroups(specs, Parts(question.from), Grid(question.from), order) :
                             order \in Orders},
             seeds  |-> [l \in DOMAIN specs |->
                 SeedOf(Parts(question.from), StageOwner(Parts(question.from), l),
                        question.interval, 1, 1234, l)]])

MultiplyTiles ==
    Answer("tiles",
        IF SplitsAreRefused(question.in, question.out, question.inSplits, question.outSplits)
        THEN << >>
        ELSE Forward(question.in, question.out, question.inSplits, question.outSplits,
                     question.bias))

(* The states before, between and after the calls; none after an error. *)
Call(s, call) ==
    IF s.raised THEN s
    ELSE IF "allocate" \in DOMAIN call
    THEN LET made == AllocateTensor(s, call.allocate)
         IN  IF made.count = s.count \/ made.count = question.unassigned THEN made
             ELSE AssignToParam(made, Last(made.tensors))
    ELSE IF s.tensors = << >> THEN s
    ELSE ReleaseTensor(s, IF call.release = "first" THEN s.tensors[1] ELSE Last(s.tensors))
UseMemory ==
    Answer("memory",
           FoldLeft(LAMBDA states, call : Append(states, Call(Last(states), call)),
                    <<NewAllocator(BufferSize)>>, question.calls))

(* Every call draws random numbers in an order of its own. *)
Draws == <<<<"cuda", "fork", "cpu">>, <<"fork", "cuda", "fork">>>>
Step(s, op) ==
    IF s.raised THEN s
    ELSE IF op.do = "reset" THEN DropBuffers(s)
    ELSE IF op.do = "forward" THEN CheckpointForward(s, op.call, question.args[op.call], Draws[op.call])
    ELSE CheckpointBackward(s, op.call)
CheckpointActivations ==
    Answer("activations",
           FoldLeft(Step, Start(question.cfg, question.mp, Objects, 1234), question.program))

AnswerModelParts ==
    LayOut \/ BuildModules \/ MultiplyTiles \/ UseMemory \/ CheckpointActivations

----------------------------------------------------------------------------
(* With global columns and windows, what one block knows reaches another
   one over at most one block between. *)
Reaches(layout, from, to) ==
    \E via \in 0 .. question.n - 1 : <<to, via>> \in layout /\ <<via, from>> \in layout
HasGlobal == \E k \in DOMAIN question.starts : question.starts[k] < question.n
Meets ==
    \/ question.kind \in {"fixed", "dense"} /\ (~question.uni \/ question.patterns = 1)
    \/ question.kind = "bigbird" /\ ~question.uni /\ question.global > 0
    \/ question.kind = "longformer" /\ ~question.uni /\ HasGlobal
LooksAhead ==
    \/ question.kind = "dense"
    \/ question.kind = "fixed" /\ question.global > 1
    \/ question.kind = "variable" /\ (question.random > 0 \/ question.ends # << >>)

(* Every block attends to itself; all heads have the same layout unless
   they may differ; every block is reached from every other one, or from
   every earlier one, where a pattern has global blocks for it.
   Unidirectional attention never looks ahead, with exceptions: a fixed
   pattern whose windows have several representatives, a variable one with
   random blocks or global ranges of several blocks.  BigBird cannot take
   several random blocks of the first row of a unidirectional layout. *)
AttentionIsComplete ==
  /\ question.kind = "bigbird" =>
         LET tooSmall == question.n < Max({question.random, question.sliding, question.global})
         IN  answer = << >> <=> tooSmall \/ (question.uni /\ question.random > 1)
  /\ answer # << >> =>
        \A h \in DOMAIN answer :
            LET layout == answer[h]
                all == 0 .. question.n - 1
            IN  /\ \A row \in all : <<row, row>> \in layout
                /\ question.different \/ layout = answer[0]
                /\ Meets => \A from, to \in all :
                       (from <= to \/ ~question.uni) => Reaches(layout, from, to)
                /\ (question.uni /\ \E p \in layout : p[2] > p[1]) => LooksAhead
----------------------------------------------------------------------------
(* Shared modules have one weight on all stages; every rank counts it once
   in the norm of its model copy.  Ranks that iterate over a set of keys
   in other orders form other groups if two keys are tied on other stages.
   Layers have seeds of their own unless a stage has more layers than one
   range of the checkpoint interval. *)
StagesAgree ==
    LET specs == question.specs
        parts == Parts(question.from)
        Holders(key) == TiedStages(specs, parts, key)
        Size(s) == Cardinality(StageLayers(parts, s))
    IN  /\ \A key \in Keys(specs) : \A s, t \in Holders(key) :
               answer.built[s][<<"tied", key>>][TiedAttribute]
                   = answer.built[t][<<"tied", key>>][TiedAttribute]
        /\ Cardinality({[i \in DOMAIN g |-> g[i].ranks] : g \in answer.groups}) = 1
               <=> \/ question.from = 1
                   \/ \A k1, k2 \in Keys(specs) : Holders(k1) = Holders(k2)
        /\ \A g \in answer.groups, key \in Keys(specs), rank \in Ranks(Grid(question.from)) :
               LET at == Coord(Grid(question.from), rank)
               IN  at["pipe"] \in Holders(key) =>
                       (IsReplicated(g, rank, key) <=> at["pipe"] # Min(Holders(key)))
        /\ IsInjective(answer.seeds)
               <=> \/ question.interval = 0
                   \/ \A s \in 0 .. question.from - 1 : Size(s) <= question.interval

(* On other stages, layers get the parameters that were saved, a shared
   module its tied weight - if and only if the first stage that has it
   calls it without a wrapper in some layer: only that is saved and read,
   and what the first stage has is then given to all others. *)
LayersComeBack ==
    LET specs == question.specs
        old   == Parts(question.from)
        new   == Parts(question.to)
        first(key) == Min(TiedStages(specs, new, key))
    IN  \A s \in DOMAIN answer.loaded : \A m \in DOMAIN answer.loaded[s] :
            IF m[1] = "layer"
            THEN answer.loaded[s][m] = answer.saved[StageOwner(old, m[2])][m]
            ELSE answer.loaded[s][m][TiedAttribute]
                     = answer.saved[Min(TiedStages(specs, old, m[2]))][m][TiedAttribute]
                 <=> \E l \in LayersOf(specs, m[2]) : /\ ~specs[l].wrapped
                                                      /\ StageOwner(new, l) = first(m[2])

(* Tiles together multiply every weight with its input once, and add every
   bias once. *)
TilesAreWhole ==
    LET terms == {<<"w", r, c>> : r \in 1 .. question.out, c \in 1 .. question.in}
                 \cup {<<"b", r>> : r \in IF question.bias THEN 1 .. question.out ELSE {}}
    IN  answer # << >> =>
            /\ Len(answer) = question.out
            /\ \A r \in DOMAIN answer : /\ ToSet(answer[r]) = {t \in terms : t[2] = r}
                                        /\ IsInjective(answer[r])

----------------------------------------------------------------------------
(* Tensors and free blocks share the buffer out, and free neighbours are
   one block; a live tensor keeps its elements wherever it is moved, and
   its parameter is looked up where it is.  A tensor that fits into what
   is free in total can be had, except: moving tensors ends in an error
   while one of them is not assigned to a parameter. *)
MemoryIsKept ==
    LET Places(x) == x.at .. x.at + x.size - 1
        Kept(s) ==
            LET tensors == ToSet(s.tensors)
                blocks == ToSet(s.blocks)
            IN  /\ \A a \in DOMAIN s.buffer :
                       Cardinality({x \in tensors : a \in Places(x)})
                           + Cardinality({x \in blocks : a \in Places(x)}) = 1
                /\ \A b, c \in blocks : b.at + b.size # c.at
                /\ s.total_free = MapThenSumSet(LAMBDA b : b.size, blocks)
                /\ \A t \in tensors : \A k \in 0 .. t.size - 1 : s.buffer[t.at + k] = <<t.id, k>>
                /\ s.raised \/ \A t \in tensors :
                       t.id = question.unassigned \/ s.view[t.id] = t.at
        Served(s, after, n) ==
            LET stuck == /\ n > LargestContiguous(s.blocks)
                         /\ \E i \in DOMAIN s.tensors : s.tensors[i].id = question.unassigned
            IN  n <= Cardinality(DOMAIN s.buffer)
                         - MapThenSumSet(LAMBDA t : t.size, ToSet(s.tensors)) =>
                    IF stuck THEN after.raised ELSE Len(after.tensors) = Len(s.tensors) + 1
    IN  /\ \A i \in DOMAIN answer : Kept(answer[i])
        /\ \A i \in DOMAIN question.calls :
               "allocate" \in DOMAIN question.calls[i] /\ ~answer[i].raised =>
                   Served(answer[i], answer[i + 1], question.calls[i].allocate)

----------------------------------------------------------------------------
(* A checkpointed function sees the whole tensors both times, and the same
   random numbers, and what comes later draws as though nothing had been
   drawn again - exceptions, all under partitioned activations: objects
   that are no tensors (the function gets a None after each), a tensor of
   fewer elements than the ranks' square (it stays a partition), or of a
   number they do not divide (refused), a tensor given to two calls or
   twice to one (they see its partition), and contiguous buffers that are
   too few for the calls before a backward pass, or used with tensors of
   different sizes. *)
RecomputationSeesTheForward ==
    LET cfg    == question.cfg
        mp     == question.mp
        calls  == DOMAIN question.args
        dims   == [name \in Arguments \ {"flag"} |->
                       Objects[CHOOSE i \in DOMAIN Objects : Objects[i].name = name].dims]
        floats(c) == SelectSeq(question.args[c], LAMBDA a :
                         a \notin {"flag", "mask"} /\ Numel(dims[a]) >= mp)
        names(c)  == ToSet(floats(c))
        whole(c)  == [k \in DOMAIN question.args[c] |->
                         LET a == question.args[c][k]
                         IN  IF a = "flag" THEN [object |-> a]
                             ELSE [dims |-> dims[a], device |-> "cuda",
                                   data |-> [r \in 0 .. mp - 1 |->
                                                [e \in 1 .. Numel(dims[a]) |-> <<a, e>>]]]]
        others(c) == Cardinality({k \in DOMAIN question.args[c] : question.args[c][k] = "flag"})
        odd(c)    == \E a \in names(c) : Numel(dims[a]) % mp # 0
        small(c)  == \E a \in names(c) : Numel(dims[a]) < mp * mp
        twice(c)  == ~IsInjective(floats(c))
        together  == question.program[2].do # "backward"
        alone     == question.program[2].do # "forward"
        shared    == together /\ names(1) \cap names(2) # {}
        uneven    == \E i \in DOMAIN floats(1) \cap DOMAIN floats(2) :
                         LET one == dims[floats(1)[i]]
                             two == dims[floats(2)[i]]
                         IN  \/ Numel(one) # Numel(two)
                             \/ Len(one) + Len(two) > Len(one) * cfg.layers
        full      == \/ cfg.layers < 1 /\ \E c \in calls : floats(c) # <<>>
                     \/ ~alone /\ cfg.layers < 2 /\ floats(1) # <<>> /\ floats(2) # <<>>
        trouble   == /\ cfg.partition
                     /\ \/ \E c \in calls : others(c) > 0 \/ odd(c) \/ small(c) \/ twice(c)
                        \/ shared
                        \/ cfg.contiguous /\ (full \/ (uneven /\ ~alone))
    IN  \/ cfg.raised
        \/ /\ \A i \in DOMAIN answer.past : answer.past[i].redrawn = answer.past[i].drawn
           /\ ~answer.raised => answer.random =
                  RandomAfter(Run(Start(cfg, mp, Objects, 1234).random, Draws[1] \o Draws[2]))
           /\ ~trouble => /\ ~answer.raised /\ Len(answer.past) = 2
                          /\ \A i \in DOMAIN answer.past :
                                 answer.past[i].seen = whole(answer.past[i].call)
                                 /\ answer.past[i].again = whole(answer.past[i].call)
           /\ cfg.partition /\ (\E c \in calls : odd(c)) => answer.raised
           /\ cfg.contiguous /\ full /\ ~shared => answer.raised
           /\ \A i \in DOMAIN answer.past :
                  LET p == answer.past[i]
                      c == p.call
                  IN  cfg.partition =>
                          /\ Len(p.again) = Len(question.args[c]) + others(c)
                          /\ small(c) => \E k \in DOMAIN whole(c) : p.again[k] # whole(c)[k]
=============================================================================
