------------------------- MODULE CheckpointReshape --------------------------
(***************************************************************************)
(* Reading a ZeRO checkpoint with other degrees of pipeline, tensor and    *)
(* data parallelism than it was written with (deepspeed/checkpoint/        *)
(* reshape_utils.py, reshape_meg_2d.py, reshape_3d_utils.py and            *)
(* zero_checkpoint.py): which files a rank of the new grid merges, in      *)
(* which order.  Degrees are records with the fields pp, tp and dp; a map  *)
(* is a function on pairs of a pipeline and a tensor index.                *)
(***************************************************************************)
EXTENDS Integers, Sequences, SequencesExt, FiniteSets, FiniteSetsExt

(* A mistake: deals the elements out one by one. *)
DealtOut(data, n) ==
    [p \in 0 .. n - 1 |->
        LET size == Len(data) \div n IN [i \in 1 .. size |-> data[(i - 1) * n + p + 1]]]

(* Cuts a list into n equal parts. *)
PartitionData(data, n) ==
    LET size == Len(data) \div n
    IN  [p \in 0 .. n - 1 |-> SubSeq(data, p * size + 1, (p + 1) * size)]

Map2D(pp, tp) == (0 .. pp - 1) \X (0 .. tp - 1)

(* Rank i of the first data parallel copy at its place in the old grid. *)
SimpleInit(pp, tp) == [at \in Map2D(pp, tp) |-> <<at[1] * tp + at[2]>>]

OfStage(map, i, tp) == FlattenSeq([j \in 1 .. tp |-> map[<<i, j - 1>>]])
OfSlice(map, j, pp) == FlattenSeq([i \in 1 .. pp |-> map[<<i - 1, j>>]])

ReshapeTp(map, src, tp) ==
    [at \in Map2D(src.pp, tp) |-> PartitionData(OfStage(map, at[1], src.tp), tp)[at[2]]]
ReshapePp(map, src, tp, pp) ==
    [at \in Map2D(pp, tp) |-> PartitionData(OfSlice(map, at[2], src.pp), pp)[at[1]]]

ReshapeMeg2D(src, tgt) ==
    ReshapePp(ReshapeTp(SimpleInit(src.pp, src.tp), src, tgt.tp), src, tgt.tp, tgt.pp)

(* Every index stands for one file of each of the old data parallel ranks. *)
FlattenDp(map, src) ==
    [at \in DOMAIN map |->
        FlattenSeq([k \in DOMAIN map[at] |->
            [d \in 1 .. src.dp |-> map[at][k] + (d - 1) * src.pp * src.tp]])]

UnflattenDp(map, dp) ==
    [d \in 0 .. dp - 1 |-> [at \in DOMAIN map |-> PartitionData(map[at], dp)[d]]]

(* Degrees may only shrink; the parts must be equal, or an assertion of
   partition_data fails. *)
CanReshape(src, tgt) == tgt.pp <= src.pp /\ tgt.tp <= src.tp /\ tgt.dp <= src.dp
Splits(src, tgt) ==
    /\ src.tp % tgt.tp = 0 /\ src.pp % tgt.pp = 0
    /\ ((src.tp \div tgt.tp) * (src.pp \div tgt.pp) * src.dp) % tgt.dp = 0

Reshape(src, tgt) == UnflattenDp(FlattenDp(ReshapeMeg2D(src, tgt), src), tgt.dp)

(* The files in the order of their names, the strings
   "..zero_pp_rank_<dp>_mp_rank_<mp>..": the data parallel rank has no
   leading zeros and a digit sorts before the underscore after it; the
   other number has two digits.  Numbers are below 100. *)
Spelling(n) == IF n < 10 THEN n * 11 + 10 ELSE (n \div 10) * 11 + (n % 10)
Spelled(n, dp) == CHOOSE d \in 0 .. dp - 1 :
                      Cardinality({c \in 0 .. dp - 1 : Spelling(c) < Spelling(d)}) = n
FileList(src) ==
    LET copy == src.pp * src.tp
    IN  [i \in 1 .. copy * src.dp |->
            [dp |-> Spelled((i - 1) \div copy, src.dp), mp |-> (i - 1) % copy]]

(* The files a rank of the new grid merges (get_files_for_rank). *)
FilesForRank(src, tgt, pp, tp, dp) ==
    LET indices == Reshape(src, tgt)[dp][<<pp, tp>>]
    IN  [k \in DOMAIN indices |-> FileList(src)[indices[k] + 1]]

----------------------------------------------------------------------------
(***************************************************************************)
(* Reading the weights of a model with another degree of tensor            *)
(* parallelism than they were written with: the loader of Megatron         *)
(* checkpoints (deepspeed/runtime/state_dict_factory.py), which merges     *)
(* files or splits one, and the files of layers of DeepSpeedCheckpoint     *)
(* (deepspeed/checkpoint/deepspeed_checkpoint.py).                         *)
(*                                                                         *)
(* A weight is "rows" or "columns", cut along that axis, "final" (of the   *)
(* final linear layer), "copied" to every rank, or "qkv", the query, key   *)
(* and value of the attention heads, whose order depends on the version of *)
(* the checkpoint.  A tensor is the sequence of its slices along the axis  *)
(* that is cut.                                                            *)
(***************************************************************************)

Wrong == << >>   \* an assertion fails: no tensor, which is never empty

SplitEvenly(tensor, n) == IF Len(tensor) % n = 0 THEN PartitionData(tensor, n) ELSE Wrong

(* merge_query_key_value: version 0 keeps all queries before all keys
   before all values, so that each third is joined by itself. *)
Third(tensor, i) == PartitionData(tensor, 3)[i]
MergeQkv(tensors, version) ==
    CASE version = 0 ->
            IF Len(tensors[1]) % 3 # 0 THEN Wrong
            ELSE FlattenSeq([i \in 1 .. 3 |->
                     FlattenSeq([p \in DOMAIN tensors |-> Third(tensors[p], i - 1)])])
      [] version \in {1, 2} -> FlattenSeq(tensors)
      [] OTHER -> Wrong

SplitQkv(tensor, n, part, version) ==
    CASE version = 0 ->
            IF Len(tensor) % 3 # 0 \/ (Len(tensor) \div 3) % n # 0 THEN Wrong
            ELSE FlattenSeq([i \in 1 .. 3 |-> PartitionData(Third(tensor, i - 1), n)[part]])
      [] version \in {1, 2} ->
            IF Len(tensor) % n # 0 THEN Wrong ELSE PartitionData(tensor, n)[part]
      [] OTHER -> Wrong

(* merge_state_dict and split_state_dict, for a weight of a kind.  The
   final linear layer is split, but not merged. *)
MergeWeight(kind, tensors, version) ==
    CASE kind \in {"copied", "final"} -> tensors[1]
      [] kind = "qkv" -> MergeQkv(tensors, version)
      [] OTHER -> FlattenSeq(tensors)
SplitWeight(kind, tensor, n, part, version) ==
    CASE kind = "copied" -> tensor
      [] kind = "qkv" -> SplitQkv(tensor, n, part, version)
      [] OTHER -> IF SplitEvenly(tensor, n) = Wrong THEN Wrong ELSE SplitEvenly(tensor, n)[part]

(* SDLoaderBase.load: files[i] is what rank i - 1 wrote of the weight; rank
   of ranks reads it.  The files of a pipeline module that names its
   module key are all the same (is_pipe_parallel and module_key): the
   first is read when their number differs. *)
Load(kind, files, ranks, rank, version, alike) ==
    LET n == Len(files)
    IN  IF alike /\ n # ranks THEN files[1]
        ELSE IF n = ranks THEN files[(rank * n) \div ranks + 1]
        ELSE IF n > ranks
        THEN IF n % ranks # 0 THEN Wrong
             ELSE LET m == n \div ranks
                  IN  MergeWeight(kind, SubSeq(files, m * rank + 1, m * (rank + 1)), version)
        ELSE IF ranks % n # 0 THEN Wrong
             ELSE LET m == ranks \div n
                  IN  SplitWeight(kind, files[rank \div m + 1], m, rank % m, version)

----------------------------------------------------------------------------
(* DeepSpeedCheckpoint: layer 0 is the embedding, the last one the final
   norm, and those between are shared out to the stages, in two ways that
   are not the same: the keys a stage has (pp_to_transformer_map), and the
   stage whose files a layer is added to (transformer_file_map). *)
TransformerLayers(keys) == SubSeq(keys, 2, Len(keys) - 1)

PpTransformerMap(keys, pp) ==
    LET layers == TransformerLayers(keys)
        size   == Len(layers) \div pp
    IN  [i \in 0 .. pp - 1 |-> SubSeq(layers, i * size + 1, (i + 1) * size)]

(* The files of the layers of stage pp that slice tp merges, layer by
   layer; a layer has a file for each of the old slices. *)
LayerFiles(key, tps) == [j \in 1 .. tps |-> <<key, j - 1>>]
TransformerFileMap(keys, tps, pp, tp) ==
    LET layers  == TransformerLayers(keys)
        size    == Max({1, Len(layers) \div pp})
        stages  == {(i - 1) \div size : i \in DOMAIN layers}
        Of(stage) == SelectSeq([i \in DOMAIN layers |-> <<i, layers[i]>>],
                               LAMBDA l : (l[1] - 1) \div size = stage)
    IN  [at \in stages \X (0 .. tp - 1) |->
            [i \in DOMAIN Of(at[1]) |->
                PartitionData(LayerFiles(Of(at[1])[i][2], tps), tp)[at[2]]]]
=============================================================================
