---------------------------- MODULE MCPlanners ----------------------------
(***************************************************************************)
(* The pure planners of the system on every small input: a behaviour asks  *)
(* one question and gets the planner's answer.  The snapshot planner, the  *)
(* partition of layers into stages, elastic batch sizes, the groups of the *)
(* process grid, the reshaping of checkpoints, the gates of experts, and   *)
(* the questions of MCSettings, MCModelParts and MCKernels.                *)
(***************************************************************************)
EXTENDS SnapshotStrategy, PipeModule, TrainingSettings, MoE,
        CheckpointReshape, MCQuestions

CONSTANTS
    Gaps,        \* gaps of an iteration
    MaxIdle,     \* longest idle time of a gap
    MaxBlocks,   \* greatest max_blocks_in_span
    Threshold,   \* span_threshold
    MaxState,    \* most blocks of an optimizer state
    MaxLayers,   \* most layers of a model
    MaxWeight,   \* heaviest layer
    MaxTokens,   \* tokens of a batch
    MaxThreads, NumThreads, MostBlocks, TileDim,   \* of the kernels
    Warp, CacheTokens, LeastRow, MostRow, BlockWarp, BlockThreads,
    MaxIterations, NormReg, MaxReg, SimdWidth, TileSize

Zero     == INSTANCE ZeroShards
Settings == INSTANCE MCSettings
Models   == INSTANCE MCModelParts
Kernels  == INSTANCE MCKernels

----------------------------------------------------------------------------
(* Profiles: one warm-up line that is jumped over, then one or two lines. *)
Line == [1 .. Gaps -> 0 .. MaxIdle]
Warmup == [i \in 1 .. Gaps |-> 0]
Profiles ==
    {<<Warmup, l>> : l \in Line}
    \cup {<<Warmup, l, [l EXCEPT ![i] = MaxIdle - @]>> : l \in Line, i \in 1 .. Gaps}

SnapshotQuestions ==
    [of : {"snapshot"}, profile : Profiles, sizes : SeqOf({1, 2}, MaxState) \ {<< >>},
     maxBlocks : {0, MaxBlocks}]

LayerQuestions ==
    [of : {"layers"}, weights : SeqOf(0 .. MaxWeight, MaxLayers) \ {<< >>}, stages : 2 .. 3]

ElasticConfigs ==
    {[micros |-> m, maxBatch |-> b, minGpus |-> g[1], maxGpus |-> g[2], larger |-> l,
      version |-> v[1], node |-> v[2], mp |-> v[3]] :
        m \in {{1}, {2}, {2, 3}, {1, 4}, {3, 4}, {2, 3, 4}}, b \in {6, 20},
        g \in {<<1, 4>>, <<2, 6>>, <<1, 40>>}, l \in BOOLEAN,
        v \in {<<1, 1, 1>>, <<2, 1, 1>>, <<2, 2, 1>>, <<2, 2, 2>>}}
ElasticQuestions == [of : {"elastic"}, cfg : ElasticConfigs, world : {1, 2, 3, 4, 6}]

Grids == [pp : {1, 2, 4}, tp : {1, 2}, dp : {1, 2, 4, 11}]
ReshapeQuestions ==
    {q \in [of : {"reshape"}, src : Grids, tgt : Grids] :
        CanReshape(q.src, q.tgt) /\ Splits(q.src, q.tgt)}
GridQuestions == [of : {"grid"}, grid : [pp : 2 .. 4, tp : 1 .. 2, dp : 1 .. 3]]

(* Groups of parameters of ZeRO and the ranks that write and read them. *)
Sizes == SeqOf(1 .. 3, 3) \ {<< >>}
Layout(numel, ranks, dealt) == [numel |-> numel, ranks |-> ranks, dealt |-> dealt]
ZeroQuestions ==
    [of : {"zero"}, numel : Sizes, from : 1 .. 4, to : 1 .. 4, dealt : BOOLEAN]
Zero3Questions ==
    {q \in [of : {"zero3"}, numel : Sizes, ranks : 1 .. 4, size : 1 .. 4, list : SUBSET (1 .. 3)] :
        q.list # {} /\ q.list \subseteq DOMAIN q.numel}

(* Weights of four heads or slices, written by some ranks, read by others. *)
WeightQuestions ==
    {q \in [of : {"weights"}, from : {1, 2, 4}, to : {1, 2, 4}, version : 0 .. 2,
            kind : {"rows", "columns", "final", "copied", "qkv"}, alike : BOOLEAN] :
        q.alike => q.kind = "copied"}
FileQuestions == [of : {"files"}, layers : 1 .. 5, pp : 1 .. 3, tps : {2, 4}, tp : {1, 2}]

(* Tokens choose an expert; with top-1 gating, a second rank's choices too. *)
Tokens == 1 .. MaxTokens
Experts == 2
Choice(S) == [Tokens -> S]
Elsewhere == {[t \in Tokens |-> 1], [t \in Tokens |-> (t % Experts) + 1]}
Top1Questions ==
    [of : {"top1"}, choices : Choice(0 .. Experts) \X Elsewhere,
     priority : {p \in [Tokens -> Tokens] : \A s, t \in Tokens : p[s] = p[t] => s = t},
     drop : BOOLEAN]
Top2Questions ==
    {q \in [of : {"top2"}, first : Choice(1 .. 3), second : Choice(1 .. 3), factor : 1 .. 2] :
        \A t \in Tokens : q.first[t] # q.second[t]}

Questions ==
    SnapshotQuestions \cup LayerQuestions \cup ElasticQuestions \cup ReshapeQuestions
    \cup GridQuestions \cup Top1Questions \cup Top2Questions
    \cup ZeroQuestions \cup Zero3Questions \cup WeightQuestions \cup FileQuestions
    \cup Settings!SettingsQuestions \cup Models!ModelPartQuestions
    \cup Kernels!KernelQuestions

Init == question \in Questions /\ answer = None

----------------------------------------------------------------------------
lines == ExtractData(question.profile, 1)
valid == GetValidCommIdleTime(lines, Threshold)

(* Weights in units of eps; twelve is a multiple of the numbers of stages. *)
Unit == 12
Scaled(weights) == [i \in DOMAIN weights |-> weights[i] * Unit]

(* What a rank writes of a weight of four slices; of the query, key and
   value, two elements for every head, in the order of the version. *)
Written(q, ranks, r) ==
    LET mine == PartitionData(<<1, 2, 3, 4>>, ranks)[r]
        Of(heads, kinds, elements, slice(_, _, _)) ==
            FlattenSeq([h \in DOMAIN heads |-> FlattenSeq([i \in 1 .. kinds |->
                [e \in 1 .. elements |-> slice(heads[h], i, e)]])])
    IN  CASE q.kind = "copied" -> <<1, 2, 3, 4>>
          [] q.kind \in {"rows", "columns", "final"} -> mine
          [] q.version = 0 -> FlattenSeq([i \in 1 .. 3 |->
                 Of(mine, 1, 2, LAMBDA h, k, e : <<h, i, e>>)])
          [] q.version = 1 -> Of(mine, 2, 3, LAMBDA h, e, i : <<h, i, e>>)
          [] q.version = 2 -> Of(mine, 3, 2, LAMBDA h, i, e : <<h, i, e>>)

CapacityOf(q) ==
    CASE q.of = "top2" -> Capacity(MaxTokens, 3, 2 * q.factor, 1)
      [] q.of = "top1" -> IF q.drop THEN Capacity(MaxTokens, Experts, 1, 1)
                                    ELSE MostTokens(q.choices, Experts)

PlanSnapshots ==
    Answer("snapshot", GetSnapshotStrategy(lines, Threshold, question.sizes, 1, question.maxBlocks))
PartitionLayers ==
    Answer("layers", PartitionBalanced(Scaled(question.weights), question.stages))
ConfigureElastic ==
    Answer("elastic", {ComputeElasticConfig(question.cfg, question.world, order) :
                           order \in SetToSeqs(Candidates(question.cfg))})
BuildGrid ==
    LET g == PipeModelDataParallelTopology(question.grid.pp, question.grid.tp, question.grid.dp)
    IN  Answer("grid", [r \in Ranks(g) |->
            [at   |-> Coord(g, r),
             next |-> StageToGlobal(g, r, (Coord(g, r)["pipe"] + 1) % question.grid.pp),
             pair |-> GetSendRecvGroup(g, r, Coord(g, r)["pipe"],
                                       (Coord(g, r)["pipe"] + 1) % question.grid.pp)]])
ReshapeCheckpoint ==
    Answer("reshape", [at \in Map2D(question.tgt.pp, question.tgt.tp) |->
        FlattenSeq([d \in 1 .. question.tgt.dp |->
            FilesForRank(question.src, question.tgt, at[1], at[2], d - 1)])])
ReloadZero ==
    LET old == Layout(question.numel, question.from, question.dealt)
        new == Layout(question.numel, question.to, question.dealt)
        files == Zero!Saved(old)
    IN  Answer("zero", [weights |-> Zero!RestoreWeights(files, new),
                        states  |-> Zero!RestoreStates(files, new),
                        rigid   |-> Zero!RestoreRigid(files, old),
                        whole   |-> Zero!Consolidated(files, old)])
GatherAndScatter ==
    LET list == SetToSortSeq(question.list, <)
    IN  Answer("zero3",
            [gathered |-> Zero!Gather(question.list, question.numel, question.ranks),
             blocking |-> Zero!GatherBlocking(question.list, question.numel, question.ranks),
             owned    |-> [r \in 0 .. question.ranks - 1 |-> [k \in question.list |->
                 LET grad == Zero!ReduceAtOwner(k, question.numel[k], question.ranks, r)
                 IN  Zero!PartitionGradient(grad, question.ranks, r)]],
             reduced  |-> [r \in 0 .. question.ranks - 1 |->
                              Zero!ReduceScatter(list, question.numel, question.ranks, r)],
             groups   |-> Zero!SubGroups(question.numel, question.ranks, question.size),
             whole    |-> Zero!ZipShards(
                              [i \in 1 .. question.ranks |->
                                  Zero!Fp32FlatGroups(question.numel, question.ranks,
                                                      question.size, i - 1)],
                              question.numel, question.ranks)])
LoadWeights ==
    Answer("weights",
        LET files == [i \in 1 .. question.from |-> Written(question, question.from, i - 1)]
        IN  [r \in 0 .. question.to - 1 |->
                Load(question.kind, files, question.to, r, question.version, question.alike)])
ListLayerFiles ==
    LET keys == [i \in 1 .. question.layers + 2 |-> i]
    IN  Answer("files", [keys |-> PpTransformerMap(keys, question.pp),
                         files |-> TransformerFileMap(keys, question.tps, question.pp,
                                                      question.tp)])
Gate1 ==
    Answer("top1", Top1(question.choices[1], Experts, question.priority, CapacityOf(question)))
Gate2 == Answer("top2", Top2(question.first, question.second, 3, CapacityOf(question)))

Next ==
    PlanSnapshots \/ PartitionLayers \/ ConfigureElastic \/ BuildGrid \/ ReshapeCheckpoint
    \/ Gate1 \/ Gate2 \/ ReloadZero \/ GatherAndScatter \/ LoadWeights \/ ListLayerFiles
    \/ Settings!AnswerSettings \/ Models!AnswerModelParts
    \/ Kernels!AnswerKernels

Spec == Init /\ [][Next]_vars

----------------------------------------------------------------------------
Planned == Answered("snapshot")
Leftover == Gaps \in DOMAIN answer

(* Blocks a plan f, by gap key, sends in the gaps before k. *)
SentBefore(f, k) == MapThenSumSet(LAMBDA g : f[g], {g \in DOMAIN valid : g < k})

(* f sends the blocks in order, no more in a gap than the gap can carry. *)
Feasible(f) ==
    /\ SentBefore(f, Gaps) <= Len(question.sizes)
    /\ \A k \in DOMAIN valid :
           Total(Chunk(question.sizes, SentBefore(f, k), f[k])) <= valid[k]

(* The most blocks a plan may send in a gap; not even 0 forbids to send. *)
MostInGap == IF question.maxBlocks = 0 THEN 1 ELSE question.maxBlocks

(* The plan never slows training down: it sends only in gaps idle for
   longer than the threshold in every profiled iteration, and no more than
   they carry; -1 stands for the blocks left, and only if some are.  And
   filling each gap greedily is optimal: no feasible plan has sent more
   blocks by the end of any gap, so blocks are left for the end of the
   iteration only when the gaps cannot take them. *)
PlanIsBest ==
    Planned =>
        LET plan == [k \in DOMAIN valid |-> answer[k]]
        IN  /\ DOMAIN answer = DOMAIN valid \cup (IF Leftover THEN {Gaps} ELSE {})
            /\ \A k \in DOMAIN valid, i \in DOMAIN lines : lines[i][k + 1] > Threshold
            /\ Feasible(plan) /\ \A k \in DOMAIN valid : plan[k] <= MostInGap
            /\ Leftover <=> SentBefore(plan, Gaps) < Len(question.sizes)
            /\ \A f \in [DOMAIN valid -> 0 .. MostInGap] : Feasible(f) =>
                   \A k \in 0 .. Gaps : SentBefore(f, k) <= SentBefore(plan, k)

----------------------------------------------------------------------------
(* Every layer has one stage, stages are in the order of the layers, and
   the heaviest stage is as light as it can be (partition_balanced: "Find
   the smallest bottleneck"), unless the first layer alone outweighs all
   others: then the probe of a first stage without a layer reads the last
   prefix sum for the one before the first, and may be taken. *)
Weight(from, to) == MapThenSumSet(LAMBDA i : question.weights[i], from + 1 .. to)
Heaviest(parts) ==
    Max({Weight(parts[p], parts[p + 1]) : p \in 0 .. question.stages - 1})
Cuts ==
    LET n == Len(question.weights)
    IN  {c \in [0 .. question.stages -> 0 .. n] :
            /\ c[0] = 0 /\ c[question.stages] = n
            /\ \A p \in 1 .. question.stages : c[p - 1] <= c[p]}
StagesAreBalanced ==
    Answered("layers") =>
        /\ answer \in Cuts
        /\ \/ \A c \in Cuts : Heaviest(answer) <= Heaviest(c)
           \/ 2 * question.weights[1] > Weight(0, Len(question.weights))

(* "For the same ds_config we should return deterministic results": the
   answer does not depend on the order a set is iterated in, although the
   scheduler and every rank compute it for themselves.  A world size that
   is accepted splits the batch into whole micro batches and accumulation
   steps, so that the assertions of the configuration hold, and the batch
   is within the limit, except: a limit below one micro batch for every
   rank gives version 0.2 a batch of zero, and a common multiple of the
   micro batches is taken though beyond the limit. *)
ElasticConfigIsSound ==
    /\ Cardinality(answer) = 1
    /\ \A a \in answer : a.accepted =>
           LET cfg == question.cfg
           IN  /\ a.micro * a.gas * question.world = a.batch
               /\ \/ a.batch > 0
                  \/ cfg.version = 2 /\ \E m \in cfg.micros : m * question.world > cfg.maxBatch
               /\ a.batch <= cfg.maxBatch \/ LCM(cfg.micros) > Limit(cfg)

(* A job is what its settings ask for: elastic or given batch sizes, the
   processes the launcher starts, the rates of its schedule - each with
   the exceptions named at the part. *)
SettingsAreSound ==
    /\ Answered("elastic") => ElasticConfigIsSound
    /\ Answered("launch") => Settings!LaunchIsAsAsked
    /\ Answered("batch") => Settings!BatchIsConsistent
    /\ Answered("lr") => Settings!RatesKeepTheirShape

(* The group that broadcasts an exchange between two stages holds exactly
   the two ranks that exchange, in the wrap-around of the pipeline and in
   a pipeline of two stages too, and both ends pick the same one. *)
ExchangesHaveTheirGroup ==
    LET grid == PipeModelDataParallelTopology(question.grid.pp, question.grid.tp,
                                              question.grid.dp)
    IN  \A r \in DOMAIN answer :
            /\ {answer[r].pair[1], answer[r].pair[2]} = {r, answer[r].next}
            /\ GetSendRecvGroup(grid, answer[r].next, answer[answer[r].next].at["pipe"],
                                answer[r].at["pipe"]) = answer[r].pair

(* Whoever communicates does so in one group that all its members know:
   neighbour stages, experts and their copies, stages with tied weights. *)
GroupsAgree ==
    /\ Answered("grid") => ExchangesHaveTheirGroup
    /\ Answered("groups") => Settings!ExpertsHaveTheirGroups
    /\ Answered("module") => Models!StagesAgree

(* A place of the new grid reads, over its data parallel ranks, the files
   of the places it replaces, one place after the other, each in the order
   of the partitions their ranks wrote.  True of at most ten data parallel
   ranks: file names are sorted as strings, where 10 comes before 2. *)
Wrote(src, i, j, d) ==
    LET grid == PipeModelDataParallelTopology(src.pp, src.tp, src.dp)
        r    == Rank(grid, [a \in AxisNames(grid) |->
                    CASE a = "pipe" -> i [] a = "model" -> j [] a = "data" -> d])
    IN  [dp |-> DataParallelRank(grid, r), mp |-> ModelParallelRank(grid, r)]
ShardsOf(src, tgt, at) ==
    LET pps == src.pp \div tgt.pp
        tps == src.tp \div tgt.tp
    IN  FlattenSeq([k \in 1 .. pps * tps |->
            [d \in 1 .. src.dp |->
                Wrote(src, at[1] * pps + (k - 1) \div tps, at[2] * tps + ((k - 1) % tps), d - 1)]])
GridIsKept ==
    LET kept == \A at \in DOMAIN answer :
                    answer[at] = ShardsOf(question.src, question.tgt, at)
    IN  kept <=> question.src.dp <= 10

(* Weights and optimizer states come back to the ranks that own them,
   except: states are for as many ranks as wrote them, weights for at most
   as many, and the order of dealt parameters depends on the number of
   ranks; padding that ranks before the last one wrote may make partitions
   too long; and states are cut at another alignment than the weights, so
   that only those in the first partition may be in their place. *)
ZeroIsKept ==
    LET old   == Layout(question.numel, question.from, question.dealt)
        new   == Layout(question.numel, question.to, question.dealt)
        owned == Zero!Partitions(new)
        saved == Len(FlattenSeq(Zero!Saved(old)))
        cut(alignment) ==
            (((saved + alignment - 1) \div alignment) * alignment) \div question.to
        size  == Zero!SizeOfPartition(new)
        one   == Zero!Sum(question.numel) <= cut(question.to)
    IN  /\ answer.weights = owned <=>
               /\ question.to <= question.from
               /\ Zero!Order(old) = Zero!Order(new)
               /\ cut(2 * question.to) = size
        /\ answer.states = owned <=>
               /\ question.to = question.from
               /\ cut(question.to) = size \/ (cut(question.to) < size /\ one)
        /\ answer.rigid = Zero!Partitions(old)
        /\ answer.whole = [k \in DOMAIN question.numel |->
                              Zero!ElementsOf(k, question.numel[k])]

(* A gathered parameter is whole and without padding, alone or in a list;
   a rank gets of each gradient the part its shard stands for, reduced,
   alone or in a list; and the files put together again give every
   parameter, however the parameters are grouped. *)
Zero3IsKept ==
    LET whole == [k \in DOMAIN question.numel |-> Zero!ElementsOf(k, question.numel[k])]
        list  == SetToSortSeq(question.list, <)
    IN  /\ answer.gathered = [k \in question.list |-> whole[k]]
        /\ answer.blocking = answer.gathered
        /\ \A r \in DOMAIN answer.owned, k \in question.list :
               answer.owned[r][k] = Zero!Shard(k, question.numel[k], question.ranks, r)
        /\ \A r \in DOMAIN answer.reduced, j \in DOMAIN list :
               answer.reduced[r][j] =
                   SelectSeq(Zero!Shard(list[j], question.numel[list[j]], question.ranks, r),
                             LAMBDA x : x # Zero!Unwritten)
        /\ FlattenSeq(answer.groups) = [k \in DOMAIN question.numel |-> k]
        /\ answer.whole = whole

(* A rank reads what it would have written of the weight itself, except
   for a final linear layer read by fewer ranks: files are not merged. *)
WeightsAreKept ==
    LET kept == \A r \in DOMAIN answer : answer[r] = Written(question, question.to, r)
    IN  kept <=> ~(question.kind = "final" /\ question.to < question.from)

(* The stages read every layer once and in order: as keys exactly if they
   can have equally many, and else the last layers belong to no stage; as
   files also if there are fewer layers than stages. *)
LayersAreKept ==
    LET inner == [i \in 1 .. question.layers |-> i + 1]
        Files(j) == FlattenSeq([i \in 1 .. question.pp |->
            IF <<i - 1, j>> \in DOMAIN answer.files THEN answer.files[<<i - 1, j>>] ELSE << >>])
        kept == \A j \in 0 .. question.tp - 1 :
            Files(j) = [i \in DOMAIN inner |->
                PartitionData(LayerFiles(inner[i], question.tps), question.tp)[j]]
    IN  /\ FlattenSeq([i \in 1 .. question.pp |-> answer.keys[i - 1]]) = inner
               <=> question.layers % question.pp = 0
        /\ kept <=> question.layers % question.pp = 0 \/ question.layers < question.pp

(* Reading a checkpoint on another grid, with other ranks or without any
   loses, mixes and doubles nothing, with the exceptions named above. *)
ShardsKeepTheirPlace ==
    /\ Answered("reshape") => GridIsKept
    /\ Answered("zero") => ZeroIsKept
    /\ Answered("zero3") => Zero3IsKept
    /\ Answered("weights") => WeightsAreKept
    /\ Answered("files") => LayersAreKept
    /\ Answered("module") => Models!LayersComeBack

(* No slot of an expert's buffer is given twice, none is left empty while
   a token that chose the expert is dropped, and unused tokens take none;
   without dropping every used token has a slot on every rank. *)
Chose(t, e) ==
    IF question.of = "top1" THEN question.choices[1][t] = e
    ELSE e \in {question.first[t], question.second[t]}
ExpertsFillTheirSlots ==
    \A e \in 1 .. 3 :
        LET taken == {d \in answer : d.expert = e}
            asked == {t \in Tokens : Chose(t, e)}
            room  == Min({CapacityOf(question), Cardinality(asked)})
        IN  /\ {d.slot : d \in taken} = 0 .. room - 1
            /\ {d.token : d \in taken} \subseteq asked
            /\ Cardinality(taken) = room
            /\ question.of = "top1" /\ ~question.drop => {d.token : d \in taken} = asked

(* What is cut into pieces is worked on whole: tokens have slots, blocks
   of attention reach each other, tiles are a layer, groups of parameters
   are all of them, tensors cut from a buffer keep their elements,
   partitioned activations are whole again when they are needed, and the
   threads of a kernel write a tensor once and of the operands its callers
   mean. *)
PiecesMakeTheWhole ==
    /\ Answered("top1") \/ Answered("top2") => ExpertsFillTheirSlots
    /\ Answered("split") => Settings!GroupsAreWithinTheirSize
    /\ Answered("layout") => Models!AttentionIsComplete
    /\ Answered("tiles") => Models!TilesAreWhole
    /\ Answered("memory") => Models!MemoryIsKept
    /\ Answered("activations") => Models!RecomputationSeesTheForward
    /\ Kernels!KernelsAreWhole
=============================================================================
