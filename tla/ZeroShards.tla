----------------------------- MODULE ZeroShards -----------------------------
(***************************************************************************)
(* What the ranks of ZeRO stages 1 and 2 write of a group of parameters,   *)
(* and what is made of it (deepspeed/runtime/zero/stage_1_and_2.py, from   *)
(* state_dict to load_state_dict, and deepspeed/utils/zero_to_fp32.py).    *)
(* Each rank saves its partition of the flat group, the last one without   *)
(* the padding.  An elastic checkpoint is merged and cut again for the     *)
(* ranks that load it, which may be more or fewer; a script puts the       *)
(* parameters together for use without DeepSpeed.                          *)
(*                                                                         *)
(* Element i of parameter k is <<k, i>>.  A layout is a record with the    *)
(* sizes of the parameters (numel), the number of ranks and whether the    *)
(* parameters are dealt to the partitions in turn (round_robin_gradients). *)
(***************************************************************************)
EXTENDS ZeroPartition

Zero == <<0, 0>>        \* padding
Failed == << >>         \* an exception: no tensor, which is never empty

ElementsOf(k, n) == [i \in 1 .. n |-> <<k, i>>]

(* flatten_dense_tensors_aligned *)
FlattenAligned(tensors, alignment) ==
    LET flat == FlattenSeq(tensors)
    IN  flat \o [i \in 1 .. ((-Len(flat)) % alignment) |-> Zero]

(* get_data_parallel_partitions: the first partitions take one element
   more when they cannot all be equal. *)
DataParallelPartitions(flat, ranks) ==
    LET base  == Len(flat) \div ranks
        extra == Len(flat) % ranks
        From(r) == r * base + Lesser(r, extra)
    IN  [r \in 0 .. ranks - 1 |-> SubSeq(flat, From(r) + 1, From(r + 1))]

(* The slice tensor[:n] of Python: a negative n counts from the end. *)
UpTo(tensor, n) == SubSeq(tensor, 1, IF n >= 0 THEN n ELSE Len(tensor) + n)

(* round_robin_bit16_groups and bit16_groups_flat *)
Alignment(l) == 2 * l.ranks
Order(l) == IF l.dealt THEN RoundRobin(Len(l.numel), l.ranks)
            ELSE [k \in DOMAIN l.numel |-> k]
Tensors(l) == [i \in DOMAIN l.numel |-> ElementsOf(Order(l)[i], l.numel[Order(l)[i]])]
FlatGroup(l) == FlattenAligned(Tensors(l), Alignment(l))
Partitions(l) == DataParallelPartitions(FlatGroup(l), l.ranks)

(* groups_padding: the whole padding is recorded for the last rank. *)
GroupPadding(l, r) == IF r = l.ranks - 1 THEN Len(FlatGroup(l)) - Sum(l.numel) ELSE 0

(* _get_groups_without_padding, _get_state_without_padding *)
WithoutPadding(partition, padding) == UpTo(partition, Len(partition) - padding)

(* The files of all ranks, for the weights as for a state of the optimizer. *)
Saved(l) == [i \in 1 .. l.ranks |->
                WithoutPadding(Partitions(l)[i - 1], GroupPadding(l, i - 1))]

(* _get_padded_tensor, and the copy into a tensor of another size. *)
CopyInto(size, tensor) ==
    IF Len(tensor) > size THEN Failed
    ELSE tensor \o [i \in 1 .. size - Len(tensor) |-> Zero]
SizeOfPartition(l) == Len(FlatGroup(l)) \div l.ranks

(* load_state_dict: a rank looks for a file of its own in any case. *)
HasFile(files, r) == r < Len(files)

(* _restore_from_elastic_fp32_weights: no padding, the sizes must agree. *)
RestoreWeights(files, l) ==
    LET cut == DataParallelPartitions(FlattenAligned(files, Alignment(l)), l.ranks)
    IN  [r \in 0 .. l.ranks - 1 |->
            IF HasFile(files, r) /\ Len(cut[r]) = SizeOfPartition(l) THEN cut[r] ELSE Failed]

(* _restore_elastic_base_optimizer_state: aligned to the number of ranks.
   The engine loads states only with as many ranks as wrote them
   (_load_zero_checkpoint). *)
RestoreStates(files, l) ==
    LET cut == DataParallelPartitions(FlattenAligned(files, l.ranks), l.ranks)
    IN  [r \in 0 .. l.ranks - 1 |->
            IF Len(files) = l.ranks THEN CopyInto(SizeOfPartition(l), cut[r]) ELSE Failed]

(* Without elasticity every rank reads its own file. *)
RestoreRigid(files, l) ==
    [r \in 0 .. l.ranks - 1 |-> CopyInto(SizeOfPartition(l), files[r + 1])]

(* zero_to_fp32.py: the parameters lie in the merged files in the order of
   the flat group (engine.py, _get_zero_param_shapes); what is left after
   them must be less than an alignment. *)
Consolidated(files, l) ==
    LET merged == FlattenSeq(files)
        Up(x) == x + ((-x) % Alignment(l))
        sizes == [i \in DOMAIN l.numel |-> l.numel[Order(l)[i]]]
        Take(k) == LET i == CHOOSE i \in DOMAIN sizes : Order(l)[i] = k
                   IN  SubSeq(merged, StartOf(sizes, i) + 1, StartOf(sizes, i) + l.numel[k])
    IN  IF Up(Len(merged)) # Up(Sum(l.numel)) THEN Failed
        ELSE [k \in DOMAIN l.numel |-> Take(k)]

----------------------------------------------------------------------------
(***************************************************************************)
(* The layout of parameters and gradients under ZeRO stage 3               *)
(* (deepspeed/runtime/zero/partition_parameters.py and stage3.py,          *)
(* deepspeed/runtime/comm/coalesced_collectives.py).  Every parameter is   *)
(* cut into equal shards, one for each rank, and the last ranks have       *)
(* shards with padding, or nothing but padding.  Lists of parameters are   *)
(* gathered, and lists of gradients scattered, in one collective.          *)
(*                                                                         *)
(* numel[k] is the size of parameter k; element i of it is <<k, i>>.       *)
(***************************************************************************)

Unwritten == <<0, 0>>   \* memory of torch.empty

(* _padding_size, _partition_numel *)
PaddingSize(n, ranks) == IF n % ranks = 0 THEN 0 ELSE ranks - (n % ranks)
ShardSize(n, ranks) == (n + PaddingSize(n, ranks)) \div ranks

(* The part of a tensor that falls into the shard of rank r. *)
PartSize(n, ranks, r) == Max({0, Min({n - r * ShardSize(n, ranks), ShardSize(n, ranks)})})
PartOf(tensor, ranks, r) ==
    LET n    == Len(tensor)
        from == r * ShardSize(n, ranks)
    IN  SubSeq(tensor, from + 1, from + PartSize(n, ranks, r))

Padded(tensor, size) == tensor \o [i \in 1 .. size - Len(tensor) |-> Unwritten]

(* _partition_param: ds_tensor of rank r. *)
Shard(k, n, ranks, r) ==
    Padded(PartOf(ElementsOf(k, n), ranks, r), ShardSize(n, ranks))

(* _allgather_param, all_gather_coalesced of one parameter: the shards one
   after the other, up to the size of the parameter. *)
GatherOne(k, n, ranks) ==
    SubSeq(FlattenSeq([i \in 1 .. ranks |-> Shard(k, n, ranks, i - 1)]), 1, n)

(* The shards of a list of parameters of one rank, as they are sent, and
   where the shard of the j-th begins. *)
SendBuffer(list, numel, ranks, r) ==
    FlattenSeq([j \in DOMAIN list |-> Shard(list[j], numel[list[j]], ranks, r)])
Offset(list, numel, ranks, j) ==
    Sum([i \in 1 .. j - 1 |-> ShardSize(numel[list[i]], ranks)])

(* AllGatherCoalescedHandle.wait: what the j-th parameter of a list is
   put together from. *)
GatherFromList(list, numel, ranks, j) ==
    LET n == numel[list[j]]
        from == Offset(list, numel, ranks, j)
    IN  FlattenSeq([i \in 1 .. ranks |->
            SubSeq(SendBuffer(list, numel, ranks, i - 1), from + 1,
                   from + PartSize(n, ranks, i - 1))])

(* all_gather_coalesced: the parameters in the order of their ids. *)
Gather(params, numel, ranks) ==
    LET list == SetToSortSeq(params, <)
    IN  [k \in params |->
            IF Len(list) = 1 THEN GatherOne(k, numel[k], ranks)
            ELSE GatherFromList(list, numel, ranks, CHOOSE j \in DOMAIN list : list[j] = k)]

(* _all_gather that blocks: the other way round, one parameter as a list
   (_allgather_params) and many one by one (_allgather_params_coalesced). *)
GatherBlocking(params, numel, ranks) ==
    [k \in params |-> IF params = {k} THEN GatherFromList(<<k>>, numel, ranks, 1)
                      ELSE GatherOne(k, numel[k], ranks)]

(* _reduce_scatter_gradients: of the gradient of a rank, <<k, -i>> before,
   the own part becomes the reduced one: in place if it is a whole shard,
   and else copied from a buffer of its own. *)
ReduceAtOwner(k, n, ranks, r) ==
    LET from == r * ShardSize(n, ranks)
        end  == from + ShardSize(n, ranks)
        InPlace(i) == from < n /\ end <= n /\ i \in from + 1 .. end
        Copied(i)  == from < n /\ end > n /\ i \in from + 1 .. n
    IN  [i \in 1 .. n |-> IF InPlace(i) \/ Copied(i) THEN <<k, i>> ELSE <<k, -i>>]

(* _partition_gradient without a buffer: the own part becomes the gradient. *)
PartitionGradient(grad, ranks, r) ==
    Padded(PartOf(grad, ranks, r), ShardSize(Len(grad), ranks))

(* reduce_scatter_coalesced: the chunks of all gradients for rank 0, for
   rank 1 and so on, are cut into one part for each rank again, and each
   takes its chunks out of its part. *)
ChunksFor(list, numel, ranks, r) ==
    FlattenSeq([j \in DOMAIN list |->
        LET n == numel[list[j]]
        IN  Padded(PartOf(ElementsOf(list[j], n), ranks, r), ShardSize(n, ranks))])
ScatterBuffer(list, numel, ranks) ==
    FlattenSeq([i \in 1 .. ranks |-> ChunksFor(list, numel, ranks, i - 1)])
ReduceScatter(list, numel, ranks, r) ==
    LET mine == DataParallelPartitions(ScatterBuffer(list, numel, ranks), ranks)[r]
    IN  [j \in DOMAIN list |->
            LET from == Offset(list, numel, ranks, j)
            IN  SubSeq(mine, from + 1, from + PartSize(numel[list[j]], ranks, r))]

(* _create_fp16_sub_groups: a sub-group is closed when it has grown to the
   size of sub-groups; the groups are consecutive parameters. *)
SubGroups(numel, ranks, size) ==
    LET Shards(group) == Sum([i \in DOMAIN group |-> ShardSize(numel[group[i]], ranks)])
        params == [k \in DOMAIN numel |-> k]
        Add(groups, k) ==
            LET open == IF groups = <<>> THEN TRUE ELSE Shards(groups[Len(groups)]) >= size
            IN  IF open THEN Append(groups, <<k>>)
                ELSE [groups EXCEPT ![Len(groups)] = Append(@, k)]
    IN  IF size >= Shards(params) THEN <<params>> ELSE FoldLeft(Add, <<>>, params)

(* fp32_flat_groups of a rank: the flat buffers of its sub-groups. *)
Fp32FlatGroups(numel, ranks, size, r) ==
    LET groups == SubGroups(numel, ranks, size)
    IN  [g \in DOMAIN groups |-> SendBuffer(groups[g], numel, ranks, r)]

(* zero_to_fp32.py: the groups of each rank are joined and the shards of
   every parameter zipped together. *)
ZipShards(files, numel, ranks) ==
    LET flat == [i \in DOMAIN files |-> FlattenSeq(files[i])]
        params == [k \in DOMAIN numel |-> k]
        used == Offset(params, numel, ranks, Len(numel) + 1)
        Whole(k) ==
            LET from == Offset(params, numel, ranks, k)
            IN  SubSeq(FlattenSeq([i \in 1 .. ranks |->
                    SubSeq(flat[i], from + 1, from + ShardSize(numel[k], ranks))]), 1, numel[k])
    IN  IF used # Len(flat[1]) THEN Failed ELSE [k \in DOMAIN numel |-> Whole(k)]
=============================================================================
