--------------------------- MODULE CpuOptimizers ---------------------------
(***************************************************************************)
(* Adam and Adagrad on the CPU for ZeRO-Offload (csrc/adam, csrc/adagrad,  *)
(* deepspeed/ops): how a parameter is cut into tiles, how the new values   *)
(* of a tile are copied to the GPU through two buffers, and which step     *)
(* the bias of a parameter is corrected for.                               *)
(*                                                                         *)
(* The calls of a step nest: vectors of eight registers, the rest of them  *)
(* in vectors of four, then of one, then element by element.  Copies run   *)
(* on a stream for each buffer, at any time until it is synchronized.      *)
(***************************************************************************)
EXTENDS Integers, Sequences, SequencesExt, FiniteSets, FiniteSetsExt

CONSTANTS
    SimdWidth,   \* SIMD_WIDTH, 8 or 16 elements of a register
    TileSize     \* TILE, 128 M elements

RoundDown(n, step) == n - (n % step)

(* The tiles of elements first .. last - 1 of a call.  A tile has the
   place of the call's first parameter and state, its own first element in
   the call, its size and the elements of a vector. *)
TilesOf(base, first, last, width) ==
    [k \in 1 .. (last - first + TileSize - 1) \div TileSize |->
        LET t == first + (k - 1) * TileSize
        IN  [base |-> base, first |-> t, width |-> width,
             size |-> IF t + TileSize > last THEN last - t ELSE TileSize]]

StepAvx(span, n, base) ==
    TilesOf(base, 0, RoundDown(n, SimdWidth * span), SimdWidth * span)
StepScalar(n, base) == TilesOf(base, RoundDown(n, SimdWidth), n, 1)

(* Where the rest of a call begins: parameters are addressed as floats,
   two half precision elements in one, states and the GPU's copy are not. *)
RestOf(base, rounded, half) ==
    [params |-> base.params + (IF half THEN 2 ELSE 1) * rounded, state |-> base.state + rounded]

Step1(n, base) == StepAvx(1, n, base) \o StepScalar(n, base)
Step4(n, base, half) ==
    LET rounded == RoundDown(n, SimdWidth * 4)
    IN  StepAvx(4, n, base)
            \o IF n > rounded THEN Step1(n - rounded, RestOf(base, rounded, half)) ELSE <<>>
Step8(n, half) ==
    LET rounded == RoundDown(n, SimdWidth * 8)
        base == [params |-> 0, state |-> 0]
    IN  StepAvx(8, n, base)
            \o IF n > rounded THEN Step4(n - rounded, RestOf(base, rounded, half), half) ELSE <<>>

(* Adagrad is always called with single precision. *)
AdagradStep1(n, base) == StepAvx(1, n, base) \o StepScalar(n, base)
AdagradStep4(n, base) ==
    LET rounded == RoundDown(n, SimdWidth * 4)
    IN  StepAvx(4, n, base)
            \o IF n > rounded THEN AdagradStep1(n - rounded, RestOf(base, rounded, FALSE)) ELSE <<>>
AdagradStep8(n) ==
    LET rounded == RoundDown(n, SimdWidth * 8)
        base == [params |-> 0, state |-> 0]
    IN  StepAvx(8, n, base)
            \o IF n > rounded THEN AdagradStep4(n - rounded, RestOf(base, rounded, FALSE)) ELSE <<>>

(* What a tile updates, <<parameter, state>>; and what its copy writes on
   the GPU, <<place, parameter>>.  Vectors in half precision are put into
   the buffer where those in single precision would be, and take half of
   that room: the rest of it is not of this tile. *)
Updated(tile) ==
    {<<tile.base.params + k, tile.base.state + k>> : k \in tile.first .. tile.first + tile.size - 1}
OldContent == -1
Buffered(tile, half, k) ==
    IF half /\ tile.width > 1
    THEN LET slot == k \div 2
             at   == slot % tile.width
         IN  IF 2 * at < tile.width
             THEN tile.base.params + tile.first + (slot - at) + 2 * at + (k % 2)
             ELSE OldContent
    ELSE tile.base.params + tile.first + k
Copied(tile, half) ==
    {<<tile.base.state + tile.first + k, Buffered(tile, half, k)>> : k \in 0 .. tile.size - 1}

(* The buffers: which tiles' copies may not have run, and which copies a
   later tile may overtake, writing its values into their buffer. *)
Buffers(index) == [index |-> index, pending |-> [b \in {0, 1} |-> {}], overtaken |-> {}]
Synchronized(s, tile) ==
    IF tile.first \div TileSize >= 2 THEN [s EXCEPT !.pending[s.index] = {}] ELSE s
Filled(s) == [s EXCEPT !.overtaken = @ \cup s.pending[s.index]]
Sent(s, i) == [s EXCEPT !.pending[s.index] = @ \cup {i}, !.index = 1 - s.index]
StepPlusCopy(tiles, index) ==
    FoldLeft(LAMBDA s, i : Sent(Filled(Synchronized(s, tiles[i])), i), Buffers(index),
             [i \in DOMAIN tiles |-> i])

----------------------------------------------------------------------------
(* The powers of the betas are kept by one optimizer for all parameters,
   and every parameter counts its own steps: power is <<betas, exponent>>. *)
NewOptimizer(betas) == [betas |-> betas, step |-> 0, power |-> <<betas, 0>>]
IncrementStep(o, step, betas) ==
    IF betas # o.betas THEN [betas |-> betas, step |-> step, power |-> <<betas, step>>]
    ELSE IF o.step + 1 # step THEN [o EXCEPT !.step = step, !.power = <<o.betas, step>>]
    ELSE [o EXCEPT !.step = step, !.power[2] = @ + 1]

(* A step of the optimizer: of every parameter with a gradient, in order.
   used has the power a parameter is corrected with. *)
AdamStep(s, call) ==
    FoldLeft(LAMBDA x, p :
                IF p \notin call.grads THEN x
                ELSE LET o == IncrementStep(x.opt, x.counts[p] + 1, call.betas[p])
                     IN  [opt |-> o, counts |-> [x.counts EXCEPT ![p] = @ + 1],
                          used |-> [x.used EXCEPT ![p] = o.power]],
             s, [p \in DOMAIN s.counts |-> p])
=============================================================================
