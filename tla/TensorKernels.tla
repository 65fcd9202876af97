---------------------------- MODULE TensorKernels ----------------------------
(***************************************************************************)
(* Which elements the threads of the CUDA kernels of transformer layers    *)
(* read and write (csrc/transformer: gelu, general, dropout and transform  *)
(* kernels, and their counterparts of csrc/transformer/inference).  What   *)
(* is computed of the elements is left out, how they are addressed is not. *)
(*                                                                         *)
(* A kernel is the set of the writes of all its threads.  A write is       *)
(* <<place, operands, thread>>: the element written, the places of the     *)
(* elements it is made of, and who writes it.  Most threads move vectors   *)
(* of four elements, or of eight half precision ones.                      *)
(***************************************************************************)
EXTENDS Integers, Sequences, SequencesExt, FiniteSets, FiniteSetsExt

CONSTANTS
    MaxThreads,   \* MAX_THREADS, 1024 threads of a block
    NumThreads,   \* DS_CUDA_NUM_THREADS, 512
    MostBlocks,    \* DS_MAXIMUM_NUM_BLOCKS
    TileDim,      \* TILE_DIM, 32, and the tile of a transposition, 16
    Warp,         \* WARP_SIZE, 32 lanes
    CacheTokens,    \* MAX_OUT_TOKES, 128 tokens in the cache of keys and values
    LeastRow,     \* 16 and 128 vectors in a row: the second versions of the
    MostRow       \*    transformations are for rows between them

Below(n) == 0 .. n - 1
CeilDiv(a, b) == (a + b - 1) \div b

(* The elements of vector v of width w, written from vectors. *)
Vector(w, v, from, thread) ==
    {<<v * w + l, [k \in DOMAIN from |-> from[k] * w + l], thread>> : l \in Below(w)}

----------------------------------------------------------------------------
(* Rows of vectors of four, one block for a row. *)
RowIterations(size) == CeilDiv(size, MaxThreads)
RowThreads(size) == (size - 1) \div (RowIterations(size) * 4) + 1
RowVectors(rows, size) ==
    {<<row, id, i>> \in Below(rows) \X Below(RowThreads(size)) \X Below(RowIterations(size)) :
        i * RowThreads(size) + id < size \div 4}

InRow(t, size) == t[3] * RowThreads(size) + t[2]
GeluKernel(rows, size) ==
    UNION {LET v == t[1] * (size \div 4) + InRow(t, size) IN Vector(4, v, <<v>>, t) :
               t \in RowVectors(rows, size)}
FusedBiasGelu(rows, size) ==
    UNION {LET v == t[1] * (size \div 4) + InRow(t, size)
           IN  Vector(4, v, <<v, InRow(t, size)>>, t) : t \in RowVectors(rows, size)}
DGelu(rows, size) ==       \* in place
    UNION {LET v == t[1] * (size \div 4) + InRow(t, size)
           IN  Vector(4, v, <<v, v, InRow(t, size)>>, t) : t \in RowVectors(rows, size)}

(* Sums of two, three and four tensors. *)
GetBlocks(n) == Max({Min({CeilDiv(n, NumThreads), MostBlocks}), 1})
KernelLoop(n, threads, id) == {j \in Below(n) : j % threads = id}
FusedAdd2(rows, size) ==
    LET n == (rows * size) \div 4
        threads == GetBlocks(n) * NumThreads
    IN  UNION {Vector(4, j, <<j, j>>, id) :
                   <<j, id>> \in {<<j, id>> \in Below(n) \X Below(threads) :
                                     j \in KernelLoop(n, threads, id)}}
FusedAdd3(rows, size) ==
    UNION {LET v == row * (size \div 4) + id IN Vector(4, v, <<v, v, v>>, <<row, id>>) :
               row \in Below(rows), id \in Below(size \div 4)}
FusedAdd4(rows, size) ==
    UNION {LET v == row * (size \div 4) + id IN Vector(4, v, <<v, v, v, v>>, <<row, id>>) :
               row \in Below(rows), id \in Below(size \div 4)}

(* Sums of columns: a tile of threads adds every TileDim-th row, and the
   lanes of a row of threads are added up by shuffles.  A sum is the
   sequence of its terms. *)
Halvings == {2^k : k \in 0 .. TileDim} \cap 1 .. TileDim - 1
ShuffleDown(lanes) ==
    FoldLeft(LAMBDA v, i : [l \in DOMAIN v |-> v[l] \o (IF l + i < TileDim THEN v[l + i] ELSE v[l])],
             lanes, SetToSortSeq(Halvings, <))
ColumnSumReduce(rows, width) ==
    LET Local(col, y) == [k \in 1 .. CeilDiv(Max({rows - y, 0}), TileDim) |->
                             <<y + (k - 1) * TileDim, col>>]
        Sum(col) == ShuffleDown([x \in Below(TileDim) |-> Local(col, x)])[0]
        pos == {b * TileDim + y : b \in Below((width - 1) \div TileDim + 1), y \in Below(TileDim)}
    IN  [col \in {p \in pos : p < width} |-> Sum(col)]

----------------------------------------------------------------------------
(* Dropout.  An element is made of itself, its bias and a random number,
   <<thread, number>>; the threads of the tail begin behind a multiple of
   the vectors of a block - of less than four elements, for which the
   unsigned difference and its product wrap around to zero, at zero. *)
HighIndex(n, block, id) ==
    (IF n \div 4 = 0 THEN 0 ELSE ((n \div 4 - 1) \div block + 1) * 4 * block) + (id % block)
TailOf(n, block, id) == HighIndex(n, block, id) .. n - 1

(* Of vectors in the loop, one block may be half as large (dim > 512). *)
DropoutGrid(n, dim) ==
    LET grid == GetBlocks(n \div 4)
    IN  IF dim > NumThreads THEN [grid |-> 2 * grid, block |-> NumThreads \div 2]
        ELSE [grid |-> grid, block |-> NumThreads]
Loops(n, threads, id) == Cardinality(KernelLoop(n, threads, id))
Dropout(n, dim) ==
    LET g == DropoutGrid(n, dim)
        threads == g.grid * g.block
    IN  UNION {
          {<<4 * j + l, <<4 * j + l, <<id, 4 * (j \div threads) + l>>>>, id>> :
              j \in KernelLoop(n \div 4, threads, id), l \in Below(4)}
          \cup {<<i, <<i, <<id, 4 * Loops(n \div 4, threads, id) + i - HighIndex(n, g.block, id)>>>>,
                  id>> : i \in TailOf(n, g.block, id)} : id \in Below(threads)}

(* Backward: the mask that was drawn forward. *)
DropoutBwd(n, dim) ==
    {<<w[1], <<w[2][1], w[1]>>, w[3]>> : w \in Dropout(n, dim)}

(* What one thread draws, and what the next launch skips (IncrementOffset). *)
Drawn(n, threads, block, id) ==
    4 * (Loops(n \div 4, threads, id) + IF TailOf(n, block, id) # {} THEN 1 ELSE 0)
Skipped(n, dim) == (n \div DropoutGrid(n, dim).grid) \div DropoutGrid(n, dim).block

(* With a bias, the loop and the tail count vectors, though the tail works
   on elements: the first is in place, the second adds a residual. *)
DropoutBias(rows, dim) ==
    LET n == (rows * dim) \div 4
        threads == GetBlocks(n) * NumThreads
    IN  UNION {
          {<<4 * j + l, <<4 * j + l, 4 * (j % (dim \div 4)) + l, <<id, 4 * (j \div threads) + l>>>>,
             <<id, j>>>> : j \in KernelLoop(n, threads, id), l \in Below(4)}
          \cup {<<i, <<i, i % dim, <<id, 4 * Loops(n, threads, id) + i - HighIndex(n, NumThreads, id)>>>>,
                  <<id, n>>>> : i \in TailOf(n, NumThreads, id)} : id \in Below(threads)}
DropoutResidual(rows, dim) ==
    {<<w[1], <<w[2][1], w[2][1], w[2][2], w[2][3]>>, w[3]>> : w \in DropoutBias(rows, dim)}

(* The gradient: of single precision every element in the loop. *)
DropoutGrad(n, half) ==
    LET threads == GetBlocks(n \div 4) * NumThreads
    IN  IF half
        THEN UNION {{<<4 * j + l, <<4 * j + l, 4 * j + l>>, id>> :
                        j \in KernelLoop(n \div 4, threads, id), l \in Below(4)}
                    \cup {<<i, <<i, i>>, id>> : i \in TailOf(n, NumThreads, id)} : id \in Below(threads)}
        ELSE UNION {{<<i, <<i, i>>, id>> : i \in KernelLoop(n, threads, id)} : id \in Below(threads)}

----------------------------------------------------------------------------
(* Transformations between tokens of heads and heads of tokens, in units
   of vectors: c counts the matrices (query, key, value), h is a row of
   vectors.  A row longer than a block is cut into ext parts of its heads. *)
HeadExt(h) == (h - 1) \div MaxThreads + 1
HeadOf(ty, z, heads, ext) == ty + (z % ext) * (heads \div ext)

(* Blocks of more than MaxThreads threads, or of none, are not launched. *)
Launches(x, y, z) == x * y * z \in 1 .. MaxThreads

(* [B S H] -> [B A S N] *)
Transform0213(batch, seq, heads, h) ==
    LET ext == HeadExt(h)
        n   == h \div heads
    IN  IF ~Launches(n, heads \div ext, 1) THEN {} ELSE
        {<<d0 * h * seq + (by \div ext) * n + HeadOf(ty, by, heads, ext) * n * seq + d3,
           <<d0 * h * seq + (by \div ext) * h + HeadOf(ty, by, heads, ext) * n + d3>>,
           <<d0, by, ty, d3>>>> :
           d0 \in Below(batch), by \in Below(seq * ext), ty \in Below(heads \div ext), d3 \in Below(n)}

(* [B S C*H] -> C * [B A S N], with a bias. *)
BiasAddTransform0213(batch, seq, heads, h, c) ==
    LET ext == HeadExt(h)
        n   == h \div heads
    IN  IF ~Launches(n, heads \div ext, 1) THEN {} ELSE
        {LET cnt == bz \div ext
             d2  == HeadOf(ty, bz, heads, ext)
         IN  <<cnt * h * seq * batch + d0 * h * seq + d1 * n + d2 * n * seq + d3,
               <<d0 * h * seq * c + cnt * h + d1 * h * c + d2 * n + d3, cnt * h + d2 * n + d3>>,
               <<d0, d1, bz, ty, d3>>>> :
           d0 \in Below(batch), d1 \in Below(seq), bz \in Below(c * ext),
           ty \in Below(heads \div ext), d3 \in Below(n)}

(* The second version: a block loads two tokens into its shared memory,
   and writes them head by head; threads of even and of odd heads write
   the first and the second token. *)
BiasAddTransform0213V2(batch, seq, heads, h, c) ==
    LET n == h \div heads
        Shared(d0, d1, at) ==                            \* in_data
            <<d0 * h * seq * c + d1 * 2 * h * c + at, at % (h * c)>>
        Row(cnt, d2, iter) == iter * c * (heads \div 2) + d2 \div 2 + cnt * (heads \div 2)
    IN  IF ~Launches(n, heads, c) THEN {} ELSE
        {LET row == Row(cnt, d2, iter)
         IN  <<d0 * h * seq + d1 * 2 * n + d3 + (d2 % 2) * n
                  + (row % heads) * n * seq + (row \div heads) * h * seq * batch,
               Shared(d0, d1, row * n + d3 + (d2 % 2) * h * c),
               <<d0, d1, cnt, d2, d3, iter>>>> :
           d0 \in Below(batch), d1 \in Below(seq \div 2), cnt \in Below(c), d2 \in Below(heads),
           d3 \in Below(n), iter \in {0, 1}}

UsesV2(h, half) == half /\ h \in LeastRow .. MostRow
LaunchBiasAddTransform(batch, seq, heads, h, c, half) ==
    IF UsesV2(h, half) THEN BiasAddTransform0213V2(batch, seq, heads, h, c)
    ELSE BiasAddTransform0213(batch, seq, heads, h, c)

(* C * [B A S N] -> [B S C*H], in eight tokens at a time; a block in the
   middle of a head may write tokens of its end a second time. *)
Transform4d0213(batch, seq, heads, h, c) ==
    LET n  == h \div heads
        nb == (seq - 1) \div 8 + 1
    IN  IF ~Launches(n, 8, 1) THEN {} ELSE
        {LET d1 == by \div nb
             d2 == (ty + 8 * by) % seq
         IN  <<d0 * h * seq * c + cnt * h + d1 * n + d2 * h * c + d3,
               <<cnt * h * seq * batch + d0 * h * seq + d1 * ((h * seq) \div heads) + d2 * n + d3>>,
               <<d0, by, cnt, ty, d3>>>> :
           d0 \in Below(batch), by \in Below(heads * nb), cnt \in Below(c), ty \in Below(8),
           d3 \in Below(n)}

(* In half precision, with the stride of a batch divided by the parts. *)
BatchStride(h, seq, ext) == h * (seq \div ext)
Transform4d0213Half(batch, seq, heads, h, c) ==
    LET ext == HeadExt(h)
        n   == h \div heads
    IN  IF ~Launches(n, heads \div ext, 1) THEN {} ELSE
        {LET d1 == HeadOf(ty, bz, heads, ext)
             d2 == bz \div ext
         IN  <<cnt * h + d1 * n + d0 * BatchStride(h, seq, ext) * c + d2 * h * c + d3,
               <<(cnt * batch + d0) * BatchStride(h, seq, ext) + d2 * n + d1 * n * seq + d3>>,
               <<d0, cnt, bz, ty, d3>>>> :
           d0 \in Below(batch), cnt \in Below(c), bz \in Below(seq * ext),
           ty \in Below(heads \div ext), d3 \in Below(n)}

Transform4d0213V2(batch, seq, heads, h, c) ==
    LET n == h \div heads
        Loader(d1, cnt, iter) == iter * c * (heads \div 2) + d1 \div 2 + cnt * (heads \div 2)
        loads(d0, d2) ==                                 \* in_data
            {LET row == Loader(d1, cnt, iter)
             IN  <<d3 + (row % heads) * n + (row \div heads + (d1 % 2) * c) * h,
                   d0 * h * seq + d2 * 2 * n + d3 + (d1 % 2) * n + (row % heads) * n * seq
                     + (row \div heads) * h * seq * batch>> :
                d1 \in Below(heads), cnt \in Below(c), d3 \in Below(n), iter \in {0, 1}}
    IN  IF ~Launches(n, heads, c) THEN {} ELSE
        UNION {{<<d0 * h * seq * c + d2 * 2 * h * c + load[1], <<load[2]>>, <<d0, d2, load[1]>>>> :
                    load \in loads(d0, d2)} :
               d0 \in Below(batch), d2 \in Below(seq \div 2)}

LaunchTransform4d(batch, seq, heads, h, c, half) ==
    IF ~half THEN Transform4d0213(batch, seq, heads, h, c)
    ELSE IF UsesV2(h, half) THEN Transform4d0213V2(batch, seq, heads, h, c)
    ELSE Transform4d0213Half(batch, seq, heads, h, c)

(* Transpose: tiles of a matrix of elements through shared memory. *)
Transpose(rows, cols) ==
    LET t == TileDim
        m == cols \div t
        blocks == CeilDiv(rows * cols, t * t)
    IN  IF m = 0 THEN {} ELSE
        {<<((b % m) * t + k) * rows + (b \div m) * t + x,
           <<((b \div m) * t + x) * cols + (b % m) * t + k>>, <<b, x, k>>>> :
           b \in Below(blocks), x \in Below(t), k \in Below(t)}

----------------------------------------------------------------------------
(* The kernels of inference (csrc/transformer/inference/csrc: gelu, relu,
   dequantize, transform, apply_rotary_pos_emb) and the cache of keys and
   values that attention reads (pt_binding). *)

(* A bias added in place; a vector is of w elements, whatever is left of
   the tensor, and takes w elements of the bias. *)
InPlace(w, batch, size) ==
    UNION {{<<v * w + l, <<v * w + l, ((v * w) % size) + l>>, v>> : l \in Below(w)} :
               v \in Below(CeilDiv(batch * size, w))}
BiasGelu(w, batch, size) == InPlace(w, batch, size)
BiasRelu(w, batch, size) == InPlace(w, batch, size)
BiasAdd(w, batch, size) == InPlace(w, batch, size)

(* Residuals: of the output of the layer's MLP, the layer's input and the
   output of attention.  Operands are <<tensor, place>>. *)
OfVector(name, v, l) == <<name, 4 * v + l>>
BiasResidual(batch, hidden, preln) ==
    UNION {LET b == v % (hidden \div 4) IN
           {<<4 * v + l,
              {OfVector("input", v, l), OfVector("output", v, l), OfVector("bias", b, l)}
              \cup (IF preln THEN {OfVector("attn", v, l), OfVector("attnbias", b, l)} ELSE {}), v>> :
               l \in Below(4)} : v \in Below((batch * hidden) \div 4)}
GptjResidualAdd(batch, hidden, addBias) ==
    UNION {LET b == v % (hidden \div 4) IN
           {<<4 * v + l,
              {OfVector("input", v, l), OfVector("output", v, l), OfVector("attn", v, l),
               OfVector("bias", b, l)}
              \cup (IF addBias THEN {OfVector("attnbias", b, l)} ELSE {}), v>> :
               l \in Below(4)} : v \in Below((batch * hidden) \div 4)}

(* A residual expert: both operands weighted, in half precision both by
   the first coefficients. *)
MoeResMatmul(seq, hidden, half) ==
    LET n == hidden \div 4
    IN  UNION {{<<4 * (s * n + v) + l,
                  {OfVector("res", s * n + v, l), OfVector("coef", v, l),
                   OfVector("mlp", s * n + v, l), OfVector("coef", v + IF half THEN 0 ELSE n, l)},
                  <<s, v>>>> : l \in Below(4)} : s \in Below(seq), v \in Below(n)}

(* The scale of an element of a quantised weight: of weights merged 2^m at
   a time, each quantised in groups as it was before it was transposed. *)
Dequantize(out, hidden, groups, m) ==
    LET merged == hidden \div 2^m
        stride == (merged * out) \div groups
    IN  {<<tid + bid * out,
           <<((((bid - (bid \div merged) * merged) + tid * merged) \div stride) * 2^m)
               + bid \div merged>>, <<bid, tid>>>> : bid \in Below(hidden), tid \in Below(out)}

(* The other version, in vectors of four, of half precision only: a block
   is for some rows of a group. *)
DequantizeRows(out, hidden, groups, half) ==
    LET h    == hidden \div 4
        rows == Max({MaxThreads \div h, 1})
        loop == (h - 1) \div MaxThreads + 1
        blocks == (out \div rows) \div groups
        Row(x, y) == (x * blocks + y) * rows * h
    IN  IF ~half THEN {} ELSE
        UNION {{<<4 * (Row(x, y) + t) + l, <<x>>, <<x, y, t>>>> : l \in Below(4)} :
                   <<x, y, t>> \in {<<x, y, t>> \in
                       Below(groups) \X Below(blocks) \X Below(loop * MaxThreads) : t < rows * h}}

----------------------------------------------------------------------------
(* Query, keys and values: the query by tokens of heads, keys and values
   into a cache where every head has room for CacheTokens tokens.  Places
   are <<tensor, place>>; half precision is launched for one batch. *)
QkvTransform(batch, seq, heads, h, half) ==
    LET ext == IF half THEN 1 ELSE HeadExt(h)
        n   == h \div heads
    IN  IF ~Launches(n, heads \div ext, 1) THEN {} ELSE
        {LET cnt == bz \div ext
             d2  == HeadOf(ty, bz, heads, ext)
         IN  <<<<<<"query", "key", "value">>[cnt + 1],
                 d1 * n + d0 * h * seq + d2 * n * (IF cnt = 0 THEN seq ELSE CacheTokens) + d3>>,
               d0 * h * seq * 3 + d1 * h * 3 + cnt * h + d2 * n + d3, <<d0, d1, bz, ty, d3>>>> :
           d0 \in Below(IF half THEN 1 ELSE batch), d1 \in Below(seq), bz \in Below(3 * ext),
           ty \in Below(heads \div ext), d3 \in Below(n)}

(* Heads of tokens back to tokens of heads, without a second version. *)
Transform4dOfInference(batch, seq, heads, h, c, half) ==
    IF half THEN Transform4d0213Half(batch, seq, heads, h, c)
    ELSE Transform4d0213(batch, seq, heads, h, c)
LaunchTransform4dOfInference(batch, seq, heads, h, half) ==
    Transform4dOfInference(batch, seq, heads, h, 1, half)

(* Where the products of attention look for token t of a head's keys. *)
KeyPlace(b, heads, a, n, t, d) == (b * heads + a) * CacheTokens * n + t * n + d

(* Rotation.  An element is made of itself and of the one it is rotated
   with, at the angle of a pair of dimensions and a token: <<place,
   <<self, other, pair, token>>>>.  A row of a head is rotated by a warp. *)
TokenOf(row, seq, heads) == (row \div heads) % seq
RotateEveryTwo(batch, seq, heads, size, dims) ==
    UNION {{<<row * size + d,
              <<row * size + d, row * size + (IF d % 2 = 0 THEN d + 1 ELSE d - 1), d \div 2,
                TokenOf(row, seq, heads)>>, <<row, d % Warp>>>> : d \in Below(dims)} :
           row \in Below(batch * heads * seq)}

(* The halves of the dimensions with each other: a shuffle gets what lane
   (l +- half) of the warp holds, in the same iteration. *)
RotateHalf(batch, seq, heads, size, dims) ==
    LET half == dims \div 2
        Partner(d) == ((IF d < half THEN d + half ELSE d - half) % Warp) + (d \div Warp) * Warp
    IN  UNION {{<<row * size + d,
                  <<row * size + d, row * size + Partner(d), d % half, TokenOf(row, seq, heads)>>,
                  <<row, d % Warp>>>> : d \in Below(dims)} : row \in Below(batch * heads * seq)}
RotateHalfKeys(batch, seq, heads, size, dims) ==
    LET Place(row) == ((row % seq) + (row \div seq) * CacheTokens) * size
    IN  {<<Place(w[1] \div size) + (w[1] % size),
           <<Place(w[1] \div size) + (w[1] % size), Place(w[1] \div size) + (w[2][2] % size),
             w[2][3], w[2][4]>>, w[3]>> : w \in RotateHalf(batch, seq, heads, size, dims)}

(* In single precision both are rotated every two. *)
LaunchRotary(batch, seq, heads, size, dims, half) ==
    IF half THEN RotateHalf(batch, seq, heads, size, dims)
    ELSE RotateEveryTwo(batch, seq, heads, size, dims)

----------------------------------------------------------------------------
(* Generation: calls with some tokens each.  A call of more than one token
   is a prompt and resets the count of tokens, a call of one token goes on
   behind the tokens counted; the last layer counts one token more.  The
   caches of layers follow each other, keys before values, from the end of
   the workspace of the calls: cache is a function from places to the
   <<layer, kind, batch, head, token, element>> last written there. *)
LayerOffset(layer, batch, h) == layer * 2 * batch * CacheTokens * h
ValueOffset(batch, h) == batch * CacheTokens * h
Prompt(seq) == seq > 1
SoftmaxContext(s, layer, seq, batch, heads, h, half, layers) ==
    LET n     == h \div heads
        soft  == IF Prompt(seq) THEN seq ELSE s.tokens
        base  == LayerOffset(layer, batch, h) + n * (IF Prompt(seq) THEN 0 ELSE soft - 1)
        wrote == {w \in QkvTransform(batch, seq, heads, h, half) : w[1][1] # "query"}
        Place(w) == base + w[1][2] + IF w[1][1] = "value" THEN ValueOffset(batch, h) ELSE 0
        What(w) == LET in == w[2] % (h * seq * 3)
                   IN  <<layer, w[1][1], w[2] \div (h * seq * 3), (in % h) \div n,
                         s.all + in \div (h * 3), in % n>>
        new   == {<<Place(w), What(w)>> : w \in wrote}
        cache == [p \in DOMAIN s.cache \cup {x[1] : x \in new} |->
                     IF \E x \in new : x[1] = p THEN (CHOOSE x \in new : x[1] = p)[2] ELSE s.cache[p]]
        Read(b, a, t, d) == LayerOffset(layer, batch, h) + KeyPlace(b, heads, a, n, t, d)
    IN  [cache  |-> cache,
         tokens |-> IF layer = layers - 1 THEN soft + 1 ELSE soft,
         all    |-> IF layer = layers - 1 THEN s.all + seq ELSE s.all,
         reads  |-> [b \in Below(batch), a \in Below(heads) |->
                        [t \in Below(soft) |-> [d \in Below(n) |->
                            <<IF Read(b, a, t, d) \in DOMAIN cache
                              THEN cache[Read(b, a, t, d)] ELSE <<>>,
                              IF Read(b, a, t, d) + ValueOffset(batch, h) \in DOMAIN cache
                              THEN cache[Read(b, a, t, d) + ValueOffset(batch, h)] ELSE <<>>>>]]]]
=============================================================================
