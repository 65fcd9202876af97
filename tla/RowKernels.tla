----------------------------- MODULE RowKernels -----------------------------
(***************************************************************************)
(* The kernels that reduce rows: softmax and layer norm of training        *)
(* (csrc/transformer: softmax and normalize kernels) and of inference.     *)
(* A sum is the sequence of its terms, a function from the threads of a    *)
(* block to what each holds of it.  Maxima take the same way as sums.      *)
(* Norms of LAMB (csrc/lamb) and the scales of quantized groups            *)
(* (csrc/quantization) are such sums and maxima of a block, too.           *)
(***************************************************************************)
EXTENDS TensorKernels

CONSTANTS
    MaxIterations,   \* MAX_THREAD_ITERATIONS, 8 vectors of a thread
    NormReg,         \* NORM_REG, 64 registers for the elements of a thread
    MaxReg           \* MAX_REG, 256 registers for the vectors of a thread

PowersOfTwo == {2^k : k \in 0 .. 16}                  \* beyond any number of threads
Doublings(limit) == SetToSortSeq(PowersOfTwo \cap 1 .. limit - 1, <)

(* Shuffles: every lane gets the sum of its tile, or the first lane does. *)
Xor(lane, i) == IF (lane \div i) % 2 = 0 THEN lane + i ELSE lane - i
Butterflies(v, tile, limit) ==
    FoldLeft(LAMBDA w, i : [t \in DOMAIN w |->
                 w[t] \o w[(t \div tile) * tile + Xor(t % tile, i)]], v, Doublings(limit))
DownSums(v, limit) ==
    FoldLeft(LAMBDA w, i : [t \in DOMAIN w |->
                 w[t] \o IF (t % Warp) + i < Warp THEN w[t + i] ELSE w[t]], v, Doublings(limit))

(* One warp's sum in each of the first lanes of all warps; other lanes
   keep what they have. *)
Exchanged(v, warps) ==
    [t \in DOMAIN v |-> IF t % Warp < warps THEN v[(t % Warp) * Warp] ELSE v[t]]
BlockSum(v) ==
    LET warps == Cardinality(DOMAIN v) \div Warp
        sums  == DownSums(Exchanged(DownSums(v, Warp), warps), warps)
    IN  [t \in DOMAIN v |-> sums[(t \div Warp) * Warp]]

----------------------------------------------------------------------------
(* Softmax of training: rows of vectors of four.  Short rows share a
   block, each has a tile of lanes; long ones have a block of their own. *)
SoftmaxThreads == MaxThreads \div 8
LeastLanes(vectors) == Max({2, Min(PowersOfTwo \cap (vectors .. 2 * vectors))})
Wide(seq) == CeilDiv(seq, 4) > SoftmaxThreads \div 2
BaseThreads(seq) == IF Wide(seq) THEN 2 * SoftmaxThreads ELSE SoftmaxThreads
Workload(seq) == MaxIterations * 4 * BaseThreads(seq)
SoftmaxBlock(seq) ==
    IF seq \div 4 > BaseThreads(seq) THEN CeilDiv(seq, Workload(seq)) * BaseThreads(seq)
    ELSE BaseThreads(seq)
SoftmaxIterations(seq) ==
    IF seq < Workload(seq) THEN CeilDiv(seq \div 4, BaseThreads(seq)) ELSE MaxIterations
Lanes(seq) == Min({LeastLanes(CeilDiv(seq, 4)), SoftmaxThreads})         \* tbSeq
Tile(seq) == Min({Lanes(seq), Warp})                                      \* tbSize
BlockStride(seq) ==
    IF CeilDiv(seq, 4) > SoftmaxThreads THEN 1 ELSE BaseThreads(seq) \div Lanes(seq)

(* Rows of a block as the grid has them. *)
GridRows(seq) ==
    LET v == seq \div 4
    IN  IF v < BaseThreads(seq) THEN Max(PowersOfTwo \cap 1 .. BaseThreads(seq) \div v) ELSE 1
SoftmaxGrid(rows, seq) == rows \div GridRows(seq)

(* What block x of a batch writes, of rows rows in all: <<vector, the
   vectors in the sum it is divided by, thread>>. *)
AttnSoftmax(rows, seq, batch, x) ==
    LET vectors == seq \div 4
        threads == SoftmaxBlock(seq)
        warps   == threads \div Warp
        width   == Max({vectors, Lanes(seq)})
        Offset(t) == (batch * SoftmaxGrid(rows, seq) + x) * BlockStride(seq) * vectors
                         + (t \div width) * vectors
        mine    == [t \in Below(threads) |->
                       SelectSeq([i \in 1 .. SoftmaxIterations(seq) |-> (i - 1) * threads + (t % width)],
                                 LAMBDA d : d < vectors)]
        terms   == [t \in Below(threads) |-> [i \in DOMAIN mine[t] |-> Offset(t) + mine[t][i]]]
        tiled   == Butterflies(terms, Tile(seq), Tile(seq))
        iters   == IF vectors < threads THEN warps \div (threads \div width) ELSE warps
        crossed == Butterflies(Exchanged(tiled, warps), Warp, iters)
        sums    == IF vectors <= Tile(seq) THEN tiled
                   ELSE [t \in DOMAIN crossed |-> crossed[(t \div Warp) * Warp + t \div Warp]]
    IN  UNION {{<<terms[t][i], sums[t], <<x, t>>>> : i \in DOMAIN terms[t]} : t \in Below(threads)}
LaunchAttnSoftmax(rows, seq, batches, blocks) ==
    UNION {AttnSoftmax(rows, seq, b, x) :
               b \in Below(batches), x \in Below(Min({SoftmaxGrid(rows, seq), blocks}))}

(* Backward: a warp for a row, four rows to a block, up to 64 elements for
   a lane; whatever is left of four rows is not launched. *)
SoftmaxBackward(rows, seq) ==
    LET sums(r) == Butterflies([l \in Below(Warp) |->
                       [i \in 1 .. CeilDiv(Max({seq - l, 0}), Warp) |-> r * seq + l + (i - 1) * Warp]],
                       Warp, Warp)
    IN  UNION {{<<r * seq + k, sums(r)[k % Warp], <<r, k % Warp>>>> : k \in Below(seq)} :
                   r \in Below((rows \div 4) * 4)}
LaunchSoftmaxBackward(rows, seq) == IF seq > 64 * Warp THEN {} ELSE SoftmaxBackward(rows, seq)

----------------------------------------------------------------------------
(* Layer norm: a block for a row, whose threads step through it.  In half
   precision they hold pairs of elements.  A kernel says for every item -
   element or pair - what it is made of, <<operands, the elements in the
   row's sums, thread>>, and what it saves. *)
NormThreads == MaxThreads \div 4                                          \* THREADS
ThreadsFor(hidden, base, most) ==
    LET fits == {b \in {base * 2^k : k \in 0 .. most} : hidden <= NormReg * b}
    IN  IF fits = {} THEN 0 ELSE Min(fits)
NormBlock(hidden, half) ==
    IF half THEN ThreadsFor(hidden, NormThreads \div 2, 3) ELSE ThreadsFor(hidden, NormThreads, 2)

Mine(width, threads, id) ==
    LET high == (width \div threads) * threads + id
    IN  [i \in 1 .. (width \div threads) + (IF high < width THEN 1 ELSE 0) |-> (i - 1) * threads + id]
Elements(w, items) == FlattenSeq([i \in DOMAIN items |-> [e \in 1 .. w |-> w * items[i] + e - 1]])
NormRows(w, rows, width, threads, operands) ==
    LET mine == [id \in Below(threads) |-> Mine(width, threads, id)]
        sums == BlockSum([id \in Below(threads) |-> Elements(w, mine[id])])
    IN  UNION {{<<row * width + k, [o \in operands |-> row * width + k], <<row, sums[id]>>, <<row, id>>>> :
                    k \in Range(mine[id])} : row \in Below(rows), id \in Below(threads)}

Saving(kernel, saved) == [writes |-> kernel, saved |-> saved]
LayerNorm(rows, hidden, threads) ==
    Saving(NormRows(1, rows, hidden, threads, {"residual"}), {"vars", "means"})
LayerNormHalf(rows, hidden, threads) ==
    Saving(NormRows(2, rows, hidden \div 2, threads, {"residual"}), {"vars", "means"})
LayerNormOfVars(rows, hidden, threads) ==
    Saving(NormRows(1, rows, hidden, threads, {"residual"}), {"vars"})
LayerNormOfVarsHalf(rows, hidden, threads) ==
    Saving(NormRows(2, rows, hidden \div 2, threads, {"residual"}), {"vars"})

NotLaunched == Saving({}, {})                                \* "Unsupport hidden_dim."
LaunchLayerNorm(rows, hidden, half) ==
    LET threads == NormBlock(hidden, half)
    IN  IF threads = 0 THEN NotLaunched
        ELSE IF half THEN LayerNormHalf(rows, hidden, threads) ELSE LayerNorm(rows, hidden, threads)
LaunchLayerNormOfVars(rows, hidden, half) ==
    LET threads == NormBlock(hidden, half)
    IN  IF threads = 0 THEN NotLaunched
        ELSE IF half THEN LayerNormOfVarsHalf(rows, hidden, threads)
        ELSE LayerNormOfVars(rows, hidden, threads)

(* Backward: gradients of gamma and betta, of whole tiles of columns, from
   the output or from the input; and of the input. *)
WholeTiles(width) == (width \div TileDim) * TileDim
LayerNormBackward1(rows, width) ==
    [col \in Below(WholeTiles(width)) |-> ColumnSumReduce(rows, width)[col]]
LayerNormBackward1OfInput(rows, width) ==
    [col \in Below(WholeTiles(width)) |-> ColumnSumReduce(rows, width)[col]]

Backward2(rows, hidden, threads) ==
    NormRows(1, rows, hidden, threads, {"out_grad", "vals_hat", "vars"})
Backward2Half(rows, hidden, threads) ==
    NormRows(2, rows, hidden \div 2, threads, {"out_grad", "vals_hat", "vars"})
Backward2OfInput(rows, hidden, threads) ==
    NormRows(1, rows, hidden, threads, {"out_grad", "X", "vars", "means"})
Backward2OfInputHalf(rows, hidden, threads) ==
    NormRows(2, rows, hidden \div 2, threads, {"out_grad", "X", "vars", "means"})
Backward2FusedAdd(rows, hidden, threads) ==
    NormRows(1, rows, hidden, threads, {"out_grad", "added", "vals_hat", "vars"})
Backward2FusedAddHalf(rows, hidden, threads) ==
    NormRows(2, rows, hidden \div 2, threads, {"out_grad", "added", "vals_hat", "vars"})
Backward2FusedAddOfInput(rows, hidden, threads) ==
    NormRows(1, rows, hidden, threads, {"out_grad", "added", "X", "vars", "means"})
Backward2FusedAddOfInputHalf(rows, hidden, threads) ==
    NormRows(2, rows, hidden \div 2, threads, {"out_grad", "added", "X", "vars", "means"})

(* The launches; the gradients of gamma and betta are not computed in half
   precision from the output, and come before the check of the size. *)
Grads(params, input) == [params |-> params, input |-> input]
LaunchBackward(rows, hidden, half) ==
    LET threads == NormBlock(hidden, half)
    IN  Grads(IF half THEN << >> ELSE LayerNormBackward1(rows, hidden),
              IF threads = 0 THEN {} ELSE IF half THEN Backward2Half(rows, hidden, threads)
              ELSE Backward2(rows, hidden, threads))
LaunchBackwardOfInput(rows, hidden, half) ==
    LET threads == NormBlock(hidden, half)
    IN  Grads(LayerNormBackward1OfInput(rows, hidden),
              IF threads = 0 THEN {} ELSE IF half THEN Backward2OfInputHalf(rows, hidden, threads)
              ELSE Backward2OfInput(rows, hidden, threads))
LaunchBackwardFusedAdd(rows, hidden, half) ==
    LET threads == NormBlock(hidden, half)
    IN  Grads(LayerNormBackward1(rows, hidden),
              IF threads = 0 THEN {} ELSE IF half THEN Backward2FusedAddHalf(rows, hidden, threads)
              ELSE Backward2FusedAdd(rows, hidden, threads))
LaunchBackwardFusedAddOfInput(rows, hidden, half) ==
    LET threads == NormBlock(hidden, half)
    IN  Grads(LayerNormBackward1OfInput(rows, hidden),
              IF threads = 0 THEN {} ELSE IF half THEN Backward2FusedAddOfInputHalf(rows, hidden, threads)
              ELSE Backward2FusedAddOfInput(rows, hidden, threads))

----------------------------------------------------------------------------
(* Layer norm of inference: blocks of the most threads; with a residual,
   which with its bias is added only if the MLP is after attention. *)
InferenceLayerNorm(rows, hidden, half) ==
    IF half THEN NormRows(2, rows, hidden \div 2, MaxThreads, {"vals"})
    ELSE NormRows(1, rows, hidden, MaxThreads, {"vals"})
ResidualOperands(mlpAfterAttn) == {"vals"} \cup (IF mlpAfterAttn THEN {"residual", "bias"} ELSE {})
ResidualLayerNorm(rows, hidden, mlpAfterAttn) ==
    NormRows(1, rows, hidden, MaxThreads, ResidualOperands(mlpAfterAttn))
ResidualLayerNormHalf(rows, hidden, mlpAfterAttn) ==
    NormRows(2, rows, hidden \div 2, MaxThreads, ResidualOperands(mlpAfterAttn))

(* Softmax of inference: rows of one query each over the keys.  A row has
   some warps, and the block as many rows as fit; a lane has four keys.
   Keys are left out behind the query, of prompts of triangular attention,
   and of local attention before a window, which is rounded to vectors;
   queries of one token count themselves behind the keys. *)
WarpsOfRow(keys) == (keys - 1) \div MaxThreads + 1
RealSeqId(seqId, queries, keys) == seqId + IF queries = keys THEN 0 ELSE keys
Visible(key, seqId, queries, keys, triangular, window) ==
    LET real == RealSeqId(seqId, queries, keys)
        from == IF window > 0 /\ real \div 4 > window \div 4 THEN real \div 4 - window \div 4 ELSE 0
        stride == IF window > 0 /\ real >= window THEN real - window ELSE -1
    IN  key < keys /\ (triangular => key <= seqId) /\ key \div 4 >= from /\ key > stride
Unwritten == <<0 - 1, 0 - 1>>              \* shared memory nobody has written
AttnSoftmaxV2(rows, queries, keys, triangular, window, x) ==
    LET perRow == WarpsOfRow(keys)
        width  == perRow * Warp
        Row(t) == x * (Warp \div perRow) + (t \div Warp) \div perRow
        live   == {t \in Below(MaxThreads) : Row(t) < rows}
        Keys(t) == FlattenSeq([i \in 1 .. (keys - 1) \div (width * 4) + 1 |->
                       [e \in 1 .. 4 |-> (i - 1) * width * 4 + (t % width) * 4 + e - 1]])
        terms  == [t \in Below(MaxThreads) |-> IF t \notin live THEN <<Unwritten>> ELSE
                      LET seen == SelectSeq(Keys(t), LAMBDA key :
                              Visible(key, Row(t) % queries, queries, keys, triangular, window))
                      IN  [i \in DOMAIN seen |-> <<Row(t), seen[i]>>]]
        warped == Butterflies(terms, Warp, Warp)
        crossed == Butterflies(Exchanged(warped, MaxThreads \div Warp), Warp, perRow)
        sums   == IF perRow = 1 THEN warped
                  ELSE [t \in DOMAIN crossed |-> crossed[(t \div Warp) * Warp + t \div Warp]]
    IN  UNION {{<<<<Row(t), key>>, sums[t], <<x, t>>>> : key \in {k \in Range(Keys(t)) : k < keys}} :
                   t \in live}
LaunchAttnSoftmaxV2(rows, queries, keys, triangular, window) ==
    UNION {AttnSoftmaxV2(rows, queries, keys, triangular, window, x) :
               x \in Below((rows - 1) \div (Warp \div WarpsOfRow(keys)) + 1)}
----------------------------------------------------------------------------
(* Quantization: a block for a group, whose threads keep their vectors in
   registers.  A vector is quantized by the maximum, and in the asymmetric
   kernel the minimum, over its group: <<vector, over what, thread>>. *)
BlockMax(v) ==
    LET warps == Cardinality(DOMAIN v) \div Warp
        maxima == DownSums(Exchanged(Butterflies(v, Warp, Warp), warps), warps)
    IN  [t \in DOMAIN v |-> maxima[(t \div Warp) * Warp]]
GroupVectors(n, groups) == (n \div groups) \div 4
Held(vectors, registers, id) ==
    SelectSeq([i \in 1 .. registers |-> (i - 1) * MaxThreads + id], LAMBDA k : k < vectors)
Scaled(g, vectors, held, terms) ==
    LET over == BlockMax(terms)
    IN  UNION {{<<g * vectors + k, Range(over[id]), <<g, id>>>> : k \in Range(held[id])} :
                   id \in DOMAIN held}
Quantize(vectors, groups) ==
    LET held == [id \in Below(MaxThreads) |-> Held(vectors, MaxReg, id)]
    IN  UNION {Scaled(g, vectors, held, [id \in DOMAIN held |-> [i \in DOMAIN held[id] |->
                                            g * vectors + held[id][i]]]) : g \in Below(groups)}
QuantizeAsym(vectors, groups) ==
    [max |-> Quantize(vectors, groups), min |-> Quantize(vectors, groups)]
GroupFits(n, groups) == ((n \div groups) - 1) \div (4 * MaxThreads) + 1 <= MaxReg
DsQuantize(n, groups) ==
    IF GroupFits(n, groups) THEN Quantize(GroupVectors(n, groups), groups) ELSE {}
DsQuantizeAsym(n, groups) ==
    IF GroupFits(n, groups) THEN QuantizeAsym(GroupVectors(n, groups), groups)
    ELSE [max |-> {}, min |-> {}]

(* With stochastic rounding there are half as many registers, but only the
   number of MaxReg is checked; threads whose first vector is behind the
   last group do not take part, and leave what the others read of them
   unwritten.  A thread draws four random numbers for every vector. *)
SrRegisters == MaxReg \div 2
SrFits(n, groups) == GroupVectors(n, groups) \div MaxThreads <= MaxReg
SrHeld(vectors, id) == Held(vectors, CeilDiv(vectors, MaxThreads), id)
Overflows(vectors) == {id \in Below(MaxThreads) : Len(SrHeld(vectors, id)) > SrRegisters}
SrQuantize(vectors, groups) ==
    LET Live(g) == {id \in Below(MaxThreads) : g * vectors + id < vectors * groups}
        held(g) == [id \in Live(g) |-> SrHeld(vectors, id)]
    IN  UNION {Scaled(g, vectors, held(g), [id \in Below(MaxThreads) |->
                   IF id \notin Live(g) THEN <<-1>>                     \* unwritten
                   ELSE [i \in DOMAIN held(g)[id] |-> g * vectors + held(g)[id][i]]]) :
                   g \in Below(groups)}
DrawnOfGroup(vectors) == 4 * Len(SrHeld(vectors, 0))
SkippedOfGroup(n, groups) == (n \div groups) \div MaxThreads
DsSrQuantize(n, groups) ==
    IF SrFits(n, groups) THEN SrQuantize(GroupVectors(n, groups), groups) ELSE {}
DsSrQuantizeAsym(n, groups) == DsSrQuantize(n, groups)       \* launches the symmetric kernel

----------------------------------------------------------------------------
(* LAMB: the norms of a parameter and of its update, in two sums - of the
   elements of a block, and of the blocks -, and then the update. *)
LambThreads == MaxThreads \div 2
LambBlocks(n) == Min({CeilDiv(n, LambThreads), LambThreads})
SharedSum(v) ==
    LET threads == Cardinality(DOMAIN v)
        Fold(w, i) == [t \in DOMAIN w |-> IF t < i THEN w[t] \o w[t + i] ELSE w[t]]
        shared == FoldLeft(Fold, v, SetToSortSeq(PowersOfTwo \cap Warp .. threads \div 2, >))
        first  == [t \in Below(Warp) |-> shared[t]]
    IN  DownSums(first, Warp)[0]
LambElements(n, blocks, id) ==
    LET all == blocks * LambThreads
    IN  [i \in 1 .. CeilDiv(Max({n - id, 0}), all) |-> id + (i - 1) * all]
LambPart1(n, blocks) ==
    [b \in Below(blocks) |-> SharedSum([t \in Below(LambThreads) |->
                                           LambElements(n, blocks, b * LambThreads + t)])]
LambPart2(sums, blocks) ==
    SharedSum([t \in Below(LambThreads) |-> IF t < blocks THEN sums[t] ELSE <<>>])
LambPart3(n, blocks, norm) ==
    UNION {{<<j, norm, id>> : j \in Range(LambElements(n, blocks, id))} :
               id \in Below(blocks * LambThreads)}
FusedLamb(n) ==
    LET blocks == LambBlocks(n)
    IN  LambPart3(n, blocks, LambPart2(LambPart1(n, blocks), blocks))
=============================================================================
