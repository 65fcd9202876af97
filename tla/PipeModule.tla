----------------------------- MODULE PipeModule -----------------------------
(***************************************************************************)
(* How a model is cut: which layers go to which pipeline stage             *)
(* (runtime/utils.py, partition_uniform and partition_balanced), linear    *)
(* layers cut into tiles the same way (runtime/zero/tiling.py), and the    *)
(* layers of a stage, the modules that stages share and the files of the   *)
(* layers (runtime/pipe/module.py).                                        *)
(*                                                                         *)
(* A partition is a function "parts" on 0 .. numParts: stage p holds the   *)
(* layers after number parts[p] up to number parts[p + 1], counting layers *)
(* from 1.                                                                 *)
(***************************************************************************)
EXTENDS ProcessTopology

Lower(a, b) == Min({a, b})

(* Inclusive prefix sums. *)
PrefixSumInc(weights) ==
    [n \in DOMAIN weights |-> FoldLeft(LAMBDA a, b : a + b, 0, SubSeq(weights, 1, n))]

PartitionUniform(numItems, numParts) ==
    LET chunk == numItems \div numParts
    IN  [p \in 0 .. numParts |->
            CASE numItems <= numParts -> Lower(p, numItems)
              [] p = numParts         -> numItems
              [] OTHER                -> chunk * p]

(* A mistake: counts the first item of the next part too. *)
SumBeyond(sums, at) == sums[at + 1]

(* sums[at - 1] in the code, which for at = 0 is the last element. *)
SumUpTo(sums, at) == IF at = 0 THEN sums[Len(sums)] ELSE sums[at]

(* The first index from lo on (hi if none) whose sum reaches x. *)
BisectLeft(sums, x, lo, hi) == Min({i \in lo .. hi : i = hi \/ sums[i + 1] >= x})

(* Cuts the items into numParts parts, none heavier than the bottleneck
   but perhaps the last, and says whether that one is not either.  The
   index of a cut is looked for in the chunk that "step" ends. *)
LProbe(sums, numParts, bottleneck) ==
    LET numItems == Len(sums)
        chunk    == numItems \div numParts
        Jump(step, bsum) ==
            Min({s \in {step + k * chunk : k \in 0 .. numItems} :
                    s >= numItems \/ sums[s + 1] >= bsum})
        Cut(acc, p) ==
            LET step == Jump(acc.step, acc.bsum)
                at   == BisectLeft(sums, acc.bsum, step - chunk, Lower(step, numItems))
            IN  CASE acc.over -> acc
                  [] ~acc.over /\ at = numItems ->
                       [acc EXCEPT !.over = TRUE,
                                   !.fits = sums[numItems] - sums[acc.parts[p - 1] + 1]
                                              < bottleneck]
                  [] OTHER ->
                       [acc EXCEPT !.parts[p] = at, !.step = step,
                                   !.bsum = SumUpTo(sums, at) + bottleneck]
        start == [parts |-> [p \in 0 .. numParts |-> IF p = 0 THEN 0 ELSE numItems],
                  step |-> chunk, bsum |-> bottleneck, over |-> FALSE, fits |-> FALSE]
        end   == FoldLeft(Cut, start, [p \in 1 .. numParts - 1 |-> p])
    IN  [parts |-> end.parts,
         fits  |-> IF end.over THEN end.fits ELSE end.bsum >= sums[numItems]]

(* The binary search for the least bottleneck a probe accepts.  Weights
   come multiplied by a common factor, so that eps is one unit. *)
RbPartitionBalanced(sums, numParts) ==
    LET total == sums[Len(sums)]
        search[range \in (0 .. total) \X (0 .. total)] ==
            LET lower == range[1]
                upper == range[2]
                mid   == lower + (upper - lower) \div 2
            IN  CASE upper <= lower + 1               -> upper
                  [] upper > lower + 1
                     /\ LProbe(sums, numParts, mid).fits -> search[<<lower, mid>>]
                  [] OTHER                             -> search[<<mid + 1, upper>>]
    IN  search[<<total \div numParts, total>>]

PartitionBalanced(weights, numParts) ==
    IF Len(weights) <= numParts
      THEN PartitionUniform(Len(weights), numParts)
      ELSE LET sums == PrefixSumInc(weights)
           IN  LProbe(sums, numParts, RbPartitionBalanced(sums, numParts)).parts

----------------------------------------------------------------------------
(***************************************************************************)
(* A linear layer cut into tiles (runtime/zero/tiling.py).  A tile is the  *)
(* set of elements of the whole weight that copy_params_from copies into   *)
(* it; an output is the sequence of the terms that were added up for it:   *)
(* <<"w", row, column>> for a weight times its input, <<"b", row>> for a   *)
(* bias.                                                                   *)
(***************************************************************************)

SplitsAreRefused(inFeatures, outFeatures, inSplits, outSplits) ==
    \/ inSplits < 1 \/ inSplits > inFeatures
    \/ outSplits < 1 \/ outSplits > outFeatures

(* Rows and columns of a tile, and whether it has a bias: the last of a
   row of tiles. *)
Rows(out, outSplits, i) ==
    PartitionUniform(out, outSplits)[i] + 1 .. PartitionUniform(out, outSplits)[i + 1]
HasBias(bias, inSplits, j) == bias /\ j = inSplits - 1

(* What a tile computes of its part of the input for one of its rows. *)
LocalOutput(row, columns, bias) ==
    [i \in 1 .. Cardinality(columns) |-> <<"w", row, SetToSortSeq(columns, <)[i]>>]
    \o (IF bias THEN <<<<"b", row>>>> ELSE << >>)

(* forward: the outputs of a row of tiles are added up, and the rows of
   tiles joined. *)
Forward(inFeatures, outFeatures, inSplits, outSplits, bias) ==
    LET RowOutput(row) ==
            FlattenSeq([j \in 1 .. inSplits |->
                LocalOutput(row, Rows(inFeatures, inSplits, j - 1),
                            HasBias(bias, inSplits, j - 1))])
    IN  FlattenSeq([i \in 1 .. outSplits |->
            [k \in 1 .. Cardinality(Rows(outFeatures, outSplits, i - 1)) |->
                RowOutput(SetToSortSeq(Rows(outFeatures, outSplits, i - 1), <)[k])]])

----------------------------------------------------------------------------
(***************************************************************************)
(* The layers of a pipeline stage (runtime/pipe/module.py), counted from   *)
(* 0.  A layer is a record: its kind is "module", "tied" or "function"; a  *)
(* tied layer has the key of a shared module and may be called by a        *)
(* function of its own (wrapped).  Of a shared module only the attribute   *)
(* "weight" is named as tied; "bias" stands for the other parameters.      *)
(***************************************************************************)
Attributes == {"weight", "bias"}
TiedAttribute == "weight"

StageLayers(parts, stage) == parts[stage] .. parts[stage + 1] - 1
StageOwner(parts, layer) ==
    CHOOSE s \in 0 .. Cardinality(DOMAIN parts) - 2 : layer \in StageLayers(parts, s)

Keys(specs) == {specs[l].key : l \in {l \in DOMAIN specs : specs[l].kind = "tied"}}
LayersOf(specs, key) == {l \in DOMAIN specs : specs[l].kind = "tied" /\ specs[l].key = key}
TiedStages(specs, parts, key) == {StageOwner(parts, l) : l \in LayersOf(specs, key)}

(* What a stage builds: a module of its own for a layer, one for all of
   its tied layers of a key.  Parameters are named by who built them. *)
Modules(specs, parts, stage) ==
    {<<"layer", l>> : l \in {l \in StageLayers(parts, stage) : specs[l].kind = "module"}}
    \cup {<<"tied", key>> : key \in {k \in Keys(specs) : stage \in TiedStages(specs, parts, k)}}
Built(specs, parts, stage) ==
    [m \in Modules(specs, parts, stage) |-> [a \in Attributes |-> <<"built", m, a, stage>>]]

(* The module a layer is saved as: functions, and tied layers wrapped in
   one, have no state. *)
HasState(spec) == spec.kind = "module" \/ (spec.kind = "tied" /\ ~spec.wrapped)
ModuleOf(specs, l) ==
    IF specs[l].kind = "tied" THEN <<"tied", specs[l].key>> ELSE <<"layer", l>>

----------------------------------------------------------------------------
(* _index_tied_modules: for every key, in the order a rank iterates over
   the set of them, the ranks that share the module, for every data and
   model parallel rank; nothing is shared within one stage. *)
TiedRanks(grid, stages, dp, mp) ==
    [i \in 1 .. Cardinality(stages) |->
        Rank(grid, [a \in AxisNames(grid) |->
            CASE a = "pipe"  -> SetToSortSeq(stages, <)[i]
              [] a = "data"  -> dp
              [] a = "model" -> mp])]
NewGroups(specs, parts, grid, order) ==
    IF Dim(grid, "pipe") = 1 THEN << >>
    ELSE FlattenSeq([k \in DOMAIN order |->
             FlattenSeq([d \in 1 .. Dim(grid, "data") |->
                 [m \in 1 .. Dim(grid, "model") |->
                     [key   |-> order[k],
                      ranks |-> TiedRanks(grid, TiedStages(specs, parts, order[k]), d - 1, m - 1)]]])])

(* Whether the norm of the gradients leaves a rank's copy out
   (ds_pipe_replicated): it does for all but the first that share it. *)
IsReplicated(groups, rank, key) ==
    \E i \in DOMAIN groups : /\ groups[i].key = key
                             /\ rank \in ToSet(groups[i].ranks) \ {groups[i].ranks[1]}

(* _synchronize_tied_weights: the tied attribute of the first stage. *)
SynchronizeTied(specs, parts, stages) ==
    [s \in DOMAIN stages |-> [m \in DOMAIN stages[s] |->
        IF m[1] = "tied" /\ Cardinality(DOMAIN stages) > 1
        THEN [stages[s][m] EXCEPT
                 ![TiedAttribute] = stages[Min(TiedStages(specs, parts, m[2]))][m][TiedAttribute]]
        ELSE stages[s][m]]]

BuildStages(specs, parts) ==
    SynchronizeTied(specs, parts,
        [s \in 0 .. Cardinality(DOMAIN parts) - 2 |-> Built(specs, parts, s)])

----------------------------------------------------------------------------
(* save_state_dict: a file for every layer with a state. *)
SaveLayers(specs, parts, stages) ==
    [l \in {l \in DOMAIN specs : HasState(specs[l])} |->
        stages[StageOwner(parts, l)][ModuleOf(specs, l)]]

(* load_state_dir: layers are read in their order; then what is tied is
   made equal again. *)
LoadLayers(specs, parts, stages, files) ==
    LET Plain(s, m) ==
            {l \in DOMAIN files : l \in StageLayers(parts, s) /\ ModuleOf(specs, l) = m}
    IN  SynchronizeTied(specs, parts,
            [s \in DOMAIN stages |-> [m \in DOMAIN stages[s] |->
                IF Plain(s, m) = {} THEN stages[s][m] ELSE files[Max(Plain(s, m))]]])

----------------------------------------------------------------------------
(* forward: the layers of a stage run in ranges of a checkpoint interval,
   each layer with a seed of its own.  Layers are counted from the start
   of their range. *)
SeedOf(parts, stage, interval, offset, base, l) ==
    LET inStage == l - parts[stage]
        inRange == IF interval = 0 THEN inStage ELSE inStage % interval
    IN  base * offset + inRange + parts[stage]
=============================================================================
