----------------------------- MODULE MCKernels -----------------------------
(***************************************************************************)
(* The kernels on every small shape: which elements they write, and of     *)
(* what they make them, against what their callers take them to do.        *)
(***************************************************************************)
EXTENDS TensorKernels, CpuOptimizers, MCQuestions

CONSTANTS BlockWarp, BlockThreads, MaxIterations, NormReg, MaxReg
Rows  == INSTANCE RowKernels WITH Warp <- BlockWarp, MaxThreads <- BlockThreads
Small == INSTANCE RowKernels

Shapes == [batch : 1 .. 2, seq : 1 .. 4, heads : 1 .. 4, n : {1, 2, 5, 11}, c : {1, 3}]
Calls == {<<[seq |-> k, new |-> TRUE], [seq |-> i, new |-> b], [seq |-> j, new |-> c]>> :
              k \in 1 .. 4, i \in 1 .. 2, j \in 1 .. 2, b \in BOOLEAN, c \in BOOLEAN}
Softmaxes ==                               \* of all blocks, or of the first two
    [seq : 4 .. 24, blocks : {64}] \cup [seq : {28, 32, 33, 60, 64, 68, 100, 128, 132, 200,
                                             252, 256, 260, 520, 1028}, blocks : {2}]
Attentions ==
    UNION {[heads : 1 .. 3, queries : {1, k}, keys : {k}, window : {0, 3, 4, 5, 6, 8}] : k \in 1 .. 10}
    \cup [heads : {1, 5, 6}, queries : {1}, keys : {256, 300, 516}, window : {0}]
AdamCalls ==                               \* two parameters, of groups with betas of their own
    LET Some == [grads : SUBSET {1, 2}, betas : {<<0, 0>>, <<0, 1>>, <<1, 1>>}]
    IN  Some \X Some \X Some
RowQuestions ==
    [of : {"softmax"}, of4 : Softmaxes, heads : 1 .. 2]
    \cup [of : {"softback"}, rows : {4, 6, 8}, seq : {1, 5, 16, 17, 40, 64 * BlockWarp + 4}]
    \cup [of : {"norm"}, rows : {2}, half : BOOLEAN,
          hidden : {2, 3, 15, 16, 63, 64, 65, 128, 130, 256, 300, 512, 513}]
    \cup [of : {"keys"}, at : Attentions]
    \cup [of : {"quantize"}, n : 4 .. 40 \cup 120 .. 136 \cup {192, 200, 256, 260, 324, 520}, groups : 1 .. 3]
    \cup [of : {"lamb"}, n : 1 .. 140]
    \cup [of : {"offload"}, n : 1 .. 170, index : {0, 1}]
    \cup [of : {"bias"}, calls : AdamCalls]

KernelQuestions ==
    RowQuestions \cup
    [of : {"rows"}, rows : 1 .. 2, size : 1 .. 24]
    \cup [of : {"columns"}, rows : 1 .. 5, width : 1 .. 5]
    \cup [of : {"dropout"}, n : 1 .. 72, dim : {NumThreads, NumThreads + 1}]
    \cup [of : {"residual"}, rows : 1 .. 3, dim : 4 .. 24]
    \cup [of : {"transform"}, shape : Shapes, half : BOOLEAN]
    \cup [of : {"transpose"}, rows : 1 .. 6, cols : 1 .. 6]
    \cup [of : {"inplace"}, batch : 1 .. 3, size : 4 .. 16]
    \cup [of : {"dequantize"}, out : 3 .. 8, hidden : {4, 8, 12, 24, 72}, groups : 1 .. 3, m : 0 .. 2]
    \cup [of : {"rotary"}, batch : 1 .. 2, seq : 1 .. 3, heads : 1 .. 2, dims : {2, 4, 6, 8}, half : BOOLEAN]
    \cup [of : {"generate"}, batch : 1 .. 2, heads : 1 .. 2, n : 1 .. 2, layers : 1 .. 2, half : BOOLEAN,
          calls : Calls]

KernelRows ==
    LET r == question.rows
        s == question.size
    IN  Answer("rows", [gelu |-> GeluKernel(r, s), bias |-> FusedBiasGelu(r, s),
                        dgelu |-> DGelu(r, s), add2 |-> FusedAdd2(r, s),
                        add3 |-> FusedAdd3(r, s), add4 |-> FusedAdd4(r, s)])
KernelColumns == Answer("columns", ColumnSumReduce(question.rows, question.width))
KernelDropout ==
    Answer("dropout", [out |-> Dropout(question.n, question.dim),
                       grad |-> DropoutGrad(question.n, FALSE),
                       half |-> DropoutGrad(question.n, TRUE)])
KernelResidual == Answer("residual", DropoutResidual(question.rows, question.dim))
KernelTransform ==
    LET s == question.shape
        h == s.heads * s.n
    IN  Answer("transform",
            [one  |-> Transform0213(s.batch, s.seq, s.heads, h),
             bias |-> LaunchBiasAddTransform(s.batch, s.seq, s.heads, h, s.c, question.half),
             back |-> LaunchTransform4d(s.batch, s.seq, s.heads, h, s.c, question.half),
             infer |-> LaunchTransform4dOfInference(s.batch, s.seq, s.heads, h, question.half)])
KernelTranspose == Answer("transpose", Transpose(question.rows, question.cols))

KernelInPlace ==
    LET b == question.batch
        s == question.size
    IN  Answer("inplace",
            [bias |-> <<BiasGelu(4, b, s), BiasRelu(4, b, s), BiasAdd(4, b, s)>>,
             half |-> <<BiasGelu(8, b, s), BiasRelu(8, b, s), BiasAdd(8, b, s)>>,
             res  |-> [p \in BOOLEAN |-> BiasResidual(b, s, p)],
             gptj |-> [p \in BOOLEAN |-> GptjResidualAdd(b, s, p)],
             moe  |-> [p \in BOOLEAN |-> MoeResMatmul(b, s, p)]])
KernelDequantize ==
    LET q == question
    IN  Answer("dequantize", [merged |-> Dequantize(q.out, q.hidden, q.groups, q.m),
                              rows |-> DequantizeRows(q.out, q.hidden, q.groups, TRUE)])
KernelRotary ==
    LET q == question
    IN  Answer("rotary",
            [query |-> LaunchRotary(q.batch, q.seq, q.heads, 8, q.dims, q.half),
             keys  |-> RotateHalfKeys(q.batch, q.seq, q.heads, 8, q.dims)])
RECURSIVE Generate(_, _, _)
Generate(q, s, step) ==
    LET call  == ((step - 1) \div q.layers) + 1
        layer == (step - 1) % q.layers
        next  == SoftmaxContext(s, layer, q.calls[call].seq, q.batch, q.heads, q.heads * q.n,
                                q.half, q.layers)
    IN  IF step > q.layers * Len(q.calls) THEN <<>>
        ELSE <<next.reads>> \o Generate(q, next, step + 1)
KernelGenerate ==
    Answer("generate", Generate(question, [cache |-> <<>>, tokens |-> 0, all |-> 0], 1))

KernelSoftmax ==
    LET s == question.of4
    IN  Answer("softmax", Rows!LaunchAttnSoftmax(question.heads * s.seq, s.seq, 2, s.blocks))
KernelSoftmaxBackward ==
    Answer("softback", Rows!LaunchSoftmaxBackward(question.rows, question.seq))
KernelNorm ==
    LET r == question.rows
        h == question.hidden
        half == question.half
    IN  Answer("norm",
            [forward |-> <<Rows!LaunchLayerNorm(r, h, half), Rows!LaunchLayerNormOfVars(r, h, half)>>,
             backward |-> <<Rows!LaunchBackwardOfInput(r, h, half), Rows!LaunchBackward(r, h, half),
                            Rows!LaunchBackwardFusedAddOfInput(r, h, half),
                            Rows!LaunchBackwardFusedAdd(r, h, half)>>,
             infer |-> {Rows!InferenceLayerNorm(r, h, half)}
                       \cup {IF half THEN Rows!ResidualLayerNormHalf(r, h, b)
                             ELSE Rows!ResidualLayerNorm(r, h, b) : b \in BOOLEAN}])
KernelAttention ==
    LET a == question.at
    IN  Answer("keys", Rows!LaunchAttnSoftmaxV2(a.heads * a.queries, a.queries, a.keys,
                                                a.queries = a.keys, a.window))

KernelGroups ==
    LET n == question.n
        k == question.groups
    IN  Answer("quantize", [sym |-> Small!DsQuantize(n, k), asym |-> Small!DsQuantizeAsym(n, k),
                          sr |-> Small!DsSrQuantize(n, k), srasym |-> Small!DsSrQuantizeAsym(n, k)])
KernelLamb == Answer("lamb", Small!FusedLamb(question.n))

KernelOffload ==
    LET n == question.n
        Tiles(half) == Step8(n, half)
    IN  Answer("offload", [tiles |-> [half \in BOOLEAN |-> Tiles(half)],
                           adagrad |-> AdagradStep8(n),
                           copies |-> StepPlusCopy(Tiles(FALSE), question.index)])
RECURSIVE BiasSteps(_, _)
BiasSteps(s, calls) ==
    IF calls = <<>> THEN <<>>
    ELSE LET next == AdamStep(s, Head(calls)) IN <<next>> \o BiasSteps(next, Tail(calls))
KernelBias ==
    Answer("bias", BiasSteps([opt |-> NewOptimizer(0), counts |-> <<0, 0>>, used |-> <<<<0, 0>>, <<0, 0>>>>],
                             question.calls))

AnswerKernels ==
    KernelOffload \/ KernelBias \/
    KernelGroups \/ KernelLamb \/
    KernelSoftmax \/ KernelSoftmaxBackward \/ KernelNorm \/ KernelAttention \/
    KernelInPlace \/ KernelDequantize \/ KernelRotary \/ KernelGenerate \/
    KernelRows \/ KernelColumns \/ KernelDropout \/ KernelResidual \/ KernelTransform
    \/ KernelTranspose

----------------------------------------------------------------------------
(* A kernel writes what it should, every element by one thread. *)
Exactly(kernel, ref) ==
    {<<w[1], w[2]>> : w \in kernel} = ref /\ Cardinality(kernel) = Cardinality(ref)

RowsAreWhole ==
    LET r == question.rows
        s == question.size
        Each(k) == {<<i, [j \in 1 .. k |-> i]>> : i \in Below(r * s)}
    IN  /\ \A p \in {<<answer.gelu, Each(1)>>, <<answer.add3, Each(3)>>, <<answer.add4, Each(4)>>,
                     <<answer.bias, {<<i, <<i, i % s>>>> : i \in Below(r * s)}>>,
                     <<answer.dgelu, {<<i, <<i, i, i % s>>>> : i \in Below(r * s)}>>} :
               Exactly(p[1], p[2]) <=> s % 4 = 0
        /\ Exactly(answer.add2, Each(2)) <=> (r * s) % 4 = 0

ColumnsAreSummed ==
    /\ DOMAIN answer = Below(question.width)
    /\ \A col \in DOMAIN answer :
           /\ Len(answer[col]) = question.rows
           /\ Range(answer[col]) = {<<row, col>> : row \in Below(question.rows)}

(* Dropout leaves the rest of a division by four unwritten, unless a block
   is full before it: then threads of every block write it, each with
   random numbers of its own.  Elements that are written share no random
   number, but the next launch draws numbers again that this one has drawn
   when the vectors do not keep all threads equally busy. *)
Randoms(kernel) == {w[2][Len(w[2])] : w \in kernel}
DropoutIsWhole ==
    LET n    == question.n
        g    == DropoutGrid(n, question.dim)
        TailRuns(block) == n % 4 > 0 /\ (n < 4 \/ (n \div 4) % block = 0)
        tail == TailRuns(g.block)
        threads == g.grid * g.block
    IN  /\ {w[1] : w \in answer.out} = Below(n) <=> n % 4 = 0 \/ tail
        /\ Cardinality(answer.out) = Cardinality({w[1] : w \in answer.out})
               <=> (~tail \/ (g.grid = 1 /\ n % 4 = 1))
        /\ Cardinality(Randoms(answer.out)) = Cardinality(answer.out)
        /\ (\A id \in Below(threads) : Drawn(n, threads, g.block, id) <= Skipped(n, question.dim))
               <=> n % (4 * threads) = 0
        /\ Exactly(answer.grad, {<<i, <<i, i>>>> : i \in Below(n)})
        /\ Exactly(answer.half, {<<i, <<i, i>>>> : i \in Below(n)})
               <=> n % 4 = 0 \/ (n % 4 = 1 /\ GetBlocks(n \div 4) = 1 /\ TailRuns(NumThreads))

(* With a bias and a residual: vectors are dropped whole, but their number
   is taken for the number of elements in the tail, whose elements have
   been dropped already, and are again. *)
ResidualIsWhole ==
    LET n == (question.rows * question.dim) \div 4
    IN  Exactly({<<w[1], <<w[2][1], w[2][2], w[2][3]>>, w[3]>> : w \in answer},
                {<<i, <<i, i, i % question.dim>>>> : i \in Below(question.rows * question.dim)})
            <=> /\ (question.rows * question.dim) % 4 = 0
                /\ question.dim % 4 = 0
                /\ n % 4 > 0 => n > 4 /\ (n \div 4) % NumThreads > 0

(* The transformations between tokens of heads and heads of tokens move
   every vector to its place, exactly if: the heads can be cut into equal
   parts; tokens and heads are even, in the second versions; a block of
   eight tokens can be launched, back in single precision; the heads need
   not be cut, back in half precision. *)
Places(s, Write(_, _, _, _, _)) ==
    {Write(cnt, b, t, a, d) : cnt \in Below(s.c), b \in Below(s.batch), t \in Below(s.seq),
                              a \in Below(s.heads), d \in Below(s.n)}
InTokens(s, c, cnt, b, t, a, d) == (((b * s.seq + t) * c + cnt) * s.heads + a) * s.n + d
InHeads(s, cnt, b, t, a, d) == (((cnt * s.batch + b) * s.heads + a) * s.seq + t) * s.n + d
TransformsAreWhole ==
    LET s == question.shape
        h == s.heads * s.n
        ext == HeadExt(h)
        cut == s.heads % ext = 0
        v2  == UsesV2(h, question.half)
        even == s.seq % 2 = 0 /\ s.heads % 2 = 0
    IN  /\ Exactly(answer.one, Places([s EXCEPT !.c = 1], LAMBDA cnt, b, t, a, d :
                <<InHeads(s, 0, b, t, a, d), <<InTokens(s, 1, 0, b, t, a, d)>>>>)) <=> cut
        /\ Exactly(answer.bias, Places(s, LAMBDA cnt, b, t, a, d :
                <<InHeads(s, cnt, b, t, a, d),
                  <<InTokens(s, s.c, cnt, b, t, a, d), (cnt * s.heads + a) * s.n + d>>>>))
               <=> IF v2 THEN even ELSE cut
        /\ {<<w[1], w[2]>> : w \in answer.back} = Places(s, LAMBDA cnt, b, t, a, d :
                <<InTokens(s, s.c, cnt, b, t, a, d), <<InHeads(s, cnt, b, t, a, d)>>>>)
               <=> IF ~question.half THEN s.n * 8 <= MaxThreads
                   ELSE IF v2 THEN even
                   ELSE cut /\ (ext = 1 \/ (s.batch = 1 /\ s.c = 1))
        /\ {<<w[1], w[2]>> : w \in answer.infer} = Places([s EXCEPT !.c = 1],
                LAMBDA cnt, b, t, a, d :
                    <<InTokens(s, 1, 0, b, t, a, d), <<InHeads(s, 0, b, t, a, d)>>>>)
               <=> IF ~question.half THEN s.n * 8 <= MaxThreads
                   ELSE cut /\ (ext = 1 \/ s.batch = 1)

(* Only matrices of whole tiles are transposed. *)
TransposesAreWhole ==
    LET r == question.rows
        c == question.cols
    IN  Exactly(answer, {<<j * r + i, <<i * c + j>>>> : i \in Below(r), j \in Below(c)})
            <=> r % TileDim = 0 /\ c % TileDim = 0

(* In place, whatever is left of a vector is written behind the tensor or
   takes another bias; the half precision mix of experts takes the first
   coefficients for the second ones. *)
InPlaceIsWhole ==
    LET b == question.batch
        s == question.size
        Res(tensors, biases) == {<<i, {<<t, i>> : t \in tensors} \cup {<<t, i % s>> : t \in biases}>> :
                                     i \in Below(b * s)}
    IN  /\ \A k \in 1 .. 3 :
               LET ref == {<<i, <<i, i % s>>>> : i \in Below(b * s)}
               IN  /\ Exactly(answer.bias[k], ref) <=> s % 4 = 0
                   /\ Exactly(answer.half[k], ref) <=> s % 8 = 0
        /\ Exactly(answer.res[TRUE], Res({"input", "output", "attn"}, {"bias", "attnbias"})) <=> s % 4 = 0
        /\ Exactly(answer.res[FALSE], Res({"input", "output"}, {"bias"})) <=> s % 4 = 0
        /\ Exactly(answer.gptj[TRUE], Res({"input", "output", "attn"}, {"bias", "attnbias"})) <=> s % 4 = 0
        /\ Exactly(answer.gptj[FALSE], Res({"input", "output", "attn"}, {"bias"})) <=> s % 4 = 0
        /\ \A half \in BOOLEAN :
               Exactly(answer.moe[half],
                       {<<i, {<<"res", i>>, <<"mlp", i>>, <<"coef", i % s>>, <<"coef", s + (i % s)>>}>> :
                           i \in Below(b * s)}) <=> s % 4 = 0 /\ ~half

(* Scales: every element has the scale of its group, if groups are of
   equal size, and blocks of whole rows. *)
ScalesAreKept ==
    LET q == question
        merged == q.hidden \div 2^q.m
        rows == Max({MaxThreads \div (q.hidden \div 4), 1})
    IN  /\ (\A x \in Below(q.groups * 2^q.m) :
                Cardinality({w \in answer.merged : w[2][1] = x}) * q.groups = merged * q.out)
               <=> (merged * q.out) % q.groups = 0 /\ q.hidden % 2^q.m = 0
        /\ Exactly(answer.rows, {<<r * q.hidden + e, <<r \div (q.out \div q.groups)>>>> :
                                     r \in Below(q.out), e \in Below(q.hidden)})
               <=> q.out % (rows * q.groups) = 0

(* A token is rotated by its own angle, with its partner in the other
   half, if: there is one token or one head, the dimensions are of one
   warp, and precision is half. *)
Rotated(Place(_, _), dims) ==
    LET q == question
    IN  UNION {{<<Place(row, d), <<Place(row, d),
                   Place(row, IF d < dims \div 2 THEN d + dims \div 2 ELSE d - dims \div 2),
                   d % (dims \div 2), row % q.seq>>>> : d \in Below(dims)} :
                   row \in Below(q.batch * q.heads * q.seq)}
RotationsAreKept ==
    LET q == question
        own == q.seq = 1 \/ q.heads = 1
    IN  /\ Exactly(answer.query, Rotated(LAMBDA row, d : row * 8 + d, q.dims))
               <=> own /\ (IF q.half THEN q.dims <= Warp ELSE q.dims = 2)
        /\ Exactly(answer.keys, Rotated(LAMBDA row, d :
                KeyPlace(row \div (q.seq * q.heads), q.heads, (row \div q.seq) % q.heads, 8, row % q.seq, d),
                q.dims)) <=> own /\ q.dims <= Warp

(* Attention reads the keys and values of all tokens of the sequence, in
   every layer and call, exactly if: there is one batch, a sequence begins
   with more than one token and goes on with one at a time, and has room. *)
CacheIsKept ==
    LET q == question
        Tokens(i) == FoldLeft(LAMBDA t, c : t + c.seq, 0, SubSeq(q.calls, 1, i))
        First(i) == Tokens(Max({j \in 1 .. i : q.calls[j].new}) - 1)
        kept == \A i \in DOMAIN q.calls, layer \in Below(q.layers) :
            LET reads == answer[(i - 1) * q.layers + layer + 1]
            IN  \A b \in Below(q.batch), a \in Below(q.heads) :
                    reads[b, a] = [t \in Below(Tokens(i) - First(i)) |-> [d \in Below(q.n) |->
                        <<<<layer, "key", b, a, First(i) + t, d>>,
                          <<layer, "value", b, a, First(i) + t, d>>>>]]
    IN  kept <=> /\ q.batch = 1
                 /\ \A i \in DOMAIN q.calls : /\ Prompt(q.calls[i].seq) <=> q.calls[i].new
                                              /\ Tokens(i) - First(i) <= CacheTokens

(* Every element of a row is divided by, or normalised with, sums over
   just the elements of its row, each counted once. *)
IsSumOf(terms, all) == Len(terms) = Cardinality(all) /\ Range(terms) = all

(* Softmax, exactly if: rows are of whole vectors, two at least; blocks
   are full of rows; a block is not longer than its row - the rest of its
   threads would work on the next one -; and the warps of a block are a
   power of two, or lanes without a warp's sum add their own. *)
SoftmaxIsWhole ==
    LET s == question.of4.seq
        rows == question.heads * s
        all == rows \div Rows!BlockStride(s) <= question.of4.blocks
        some == IF all THEN rows ELSE question.of4.blocks * Rows!BlockStride(s)
        RowOf(v) == (4 * v) \div s
        size == (s \div 4)
        Asked == {v \in Below((2 * rows * s) \div 4) : RowOf(v) % rows < some}
    IN  /\ {w[1] : w \in answer} = Asked
        /\ Cardinality(answer) = Cardinality(Asked)
        /\ \A w \in answer : IsSumOf(w[2], {u \in RowOf(w[1]) * size .. (RowOf(w[1]) + 1) * size : RowOf(u) = RowOf(w[1])})
SoftmaxIsKept ==
    LET s == question.of4.seq
        v == s \div 4
    IN  SoftmaxIsWhole <=>
            /\ s % 4 = 0 /\ v >= 2
            /\ (question.heads * s) % Rows!BlockStride(s) = 0
            /\ ~(Rows!BlockStride(s) = 1 /\ v < Rows!BaseThreads(s))
            /\ Rows!SoftmaxBlock(s) \div BlockWarp \in Rows!PowersOfTwo

SoftmaxBackwardIsKept ==
    LET s == question.seq
        whole == /\ {w[1] : w \in answer} = Below(question.rows * s)
                 /\ \A w \in answer : IsSumOf(w[2], {u \in Below(question.rows * s) : u \div s = w[1] \div s})
    IN  whole <=> question.rows % 4 = 0 /\ s <= 64 * BlockWarp

(* Layer norm, exactly if: the hidden size is even, of pairs; and is not
   beyond the registers, in training.  What backward reads, forward has
   saved.  Gradients of gamma and betta are of whole tiles of columns, and
   not of the output in half precision. *)
NormIsKept ==
    LET h == question.hidden
        r == question.rows
        w == IF question.half THEN 2 ELSE 1
        fits == h <= NormReg * BlockThreads
        Whole(kernel) ==
            /\ {x[1] : x \in kernel} = Below((r * h) \div w)
            /\ Cardinality(kernel) * w = r * h
            /\ \A x \in kernel : /\ \A o \in DOMAIN x[2] : x[2][o] = x[1]
                                 /\ x[3][1] = (x[1] * w) \div h
                                 /\ IsSumOf(x[3][2], Below(h))
        Operands(kernel) == UNION {DOMAIN x[2] : x \in kernel}
    IN  /\ \A i \in 1 .. 2 : Whole(answer.forward[i].writes) <=> fits /\ h % w = 0
        /\ \A kernel \in answer.infer : Whole(kernel) <=> h % w = 0
        /\ \A i \in 1 .. 4 :
               LET back == answer.backward[i]
               IN  /\ Whole(back.input) <=> fits /\ h % w = 0
                   /\ Operands(back.input) \cap {"vars", "means"}
                          \subseteq answer.forward[IF i % 2 = 1 THEN 1 ELSE 2].saved
                   /\ DOMAIN back.params = Below(h) <=> h % TileDim = 0 /\ ~(i = 2 /\ question.half)
                   /\ \A col \in DOMAIN back.params :
                          IsSumOf(back.params[col], Below(r) \X {col})

(* Attention of inference: a query sees the keys up to itself and no
   further back than the window, exactly if: windows are of whole vectors,
   or one more, and the query is one of a prompt - that of one token sees
   a key less -; and the warps of a row are a power of two. *)
AttentionIsKept ==
    LET a == question.at
        rows == a.heads * a.queries
        At(row) == IF a.queries = a.keys THEN row % a.queries ELSE a.keys - 1
        Seen(row) == {k \in Below(a.keys) : k <= At(row) /\ (a.window = 0 \/ k > At(row) - a.window)}
        whole == /\ {w[1] : w \in answer} = Below(rows) \X Below(a.keys)
                 /\ Cardinality(answer) = rows * a.keys
                 /\ \A w \in answer : IsSumOf(w[2], {<<w[1][1], k>> : k \in Seen(w[1][1])})
    IN  whole <=> /\ \/ a.window = 0
                     \/ a.keys < a.window
                     \/ /\ a.queries = a.keys
                        /\ a.window % 4 <= 1 \/ a.keys <= 4 * (a.window \div 4 + 1)
                  /\ Rows!WarpsOfRow(a.keys) \in Rows!PowersOfTwo

(* Quantization: the vectors of a group are scaled by the extremes of just
   their group, or are left alone if it is too large.  With stochastic
   rounding, exactly if: all threads have a vector in every group up to
   the last, and groups are not larger than the registers - the check lets
   twice as much pass -; and random numbers are drawn once if groups fill
   all threads with vectors. *)
GroupsAreScaled ==
    LET n == question.n
        k == question.groups
        v == Small!GroupVectors(n, k)
        Each(fits) == IF fits THEN {<<u, {w \in Below(k * v) : w \div v = u \div v}>> : u \in Below(k * v)} ELSE {}
        fits == (n \div k) <= 4 * MaxThreads * MaxReg
    IN  /\ \A kernel \in {answer.sym, answer.asym.max, answer.asym.min} : Exactly(kernel, Each(fits))
        /\ \A kernel \in {answer.sr, answer.srasym} :
               kernel = {} \/ (Exactly(kernel, Each(TRUE)) <=> v >= MaxThreads)
        /\ answer.sr # {} => (Small!Overflows(v) = {} <=> 2 * v <= MaxThreads * MaxReg)
        /\ v > 0 => (Small!DrawnOfGroup(v) <= Small!SkippedOfGroup(n, k)
                        <=> (n \div k) % (4 * MaxThreads) < 4)

(* LAMB: every element is updated once, by norms of all elements. *)
LambIsWhole ==
    /\ {w[1] : w \in answer} = Below(question.n)
    /\ Cardinality(answer) = question.n
    /\ \A w \in answer : IsSumOf(w[2], Below(question.n))

(* Adam and Adagrad on the CPU.  Every element is updated, with its own
   state, once - in half precision exactly if nothing is left of vectors
   of four and eight registers -; the GPU gets every element, in half
   precision only from tiles of one vector.  A copy may be overtaken if
   there are elements left of the largest vectors and three copies or more
   in all: those of the rest do not wait for the copies before them. *)
OffloadIsWhole ==
    LET n == question.n
        w == SimdWidth
        All(Of(_), tiles) == UNION {Of(tiles[i]) : i \in DOMAIN tiles}
        ref == {<<k, k>> : k \in Below(n)}
        rest == n % (8 * w)
        moved == n >= 4 * w /\ (IF n >= 8 * w THEN rest > 0 ELSE n % (4 * w) > 0)
        tiles == answer.tiles[FALSE]
        OfRest == {i \in DOMAIN tiles : tiles[i].width < 8 * w}
    IN  /\ \A t \in {tiles, answer.adagrad} :
               /\ All(Updated, t) = ref
               /\ FoldLeft(LAMBDA sum, x : sum + x.size, 0, t) = n
               /\ All(LAMBDA x : Copied(x, FALSE), t) = ref
        /\ All(Updated, answer.tiles[TRUE]) = ref <=> ~moved
        /\ All(LAMBDA x : Copied(x, TRUE), answer.tiles[TRUE]) = ref
               <=> n < 2 * w \/ n \in {4 * w, 8 * w}
        /\ answer.copies.overtaken = {} <=> OfRest = {} \/ Len(tiles) < 3

(* The bias of a parameter is corrected for the steps the parameter has
   taken, with the betas of its group, however steps and betas of the
   parameters that share the optimizer differ. *)
BiasIsCorrected ==
    \A i \in DOMAIN answer : \A p \in question.calls[i].grads :
        answer[i].used[p] = <<question.calls[i].betas[p],
                              Cardinality({j \in 1 .. i : p \in question.calls[j].grads})>>

(* All kernels, each with the shapes it is not made for. *)
KernelsAreWhole ==
    /\ Answered("rows") => RowsAreWhole
    /\ Answered("columns") => ColumnsAreSummed
    /\ Answered("dropout") => DropoutIsWhole
    /\ Answered("residual") => ResidualIsWhole
    /\ Answered("transform") => TransformsAreWhole
    /\ Answered("transpose") => TransposesAreWhole
    /\ Answered("inplace") => InPlaceIsWhole
    /\ Answered("dequantize") => ScalesAreKept
    /\ Answered("rotary") => RotationsAreKept
    /\ Answered("generate") => CacheIsKept
    /\ Answered("softmax") => SoftmaxIsKept
    /\ Answered("softback") => SoftmaxBackwardIsKept
    /\ Answered("norm") => NormIsKept
    /\ Answered("keys") => AttentionIsKept
    /\ Answered("quantize") => GroupsAreScaled
    /\ Answered("lamb") => LambIsWhole
    /\ Answered("offload") => OffloadIsWhole
    /\ Answered("bias") => BiasIsCorrected
=============================================================================
