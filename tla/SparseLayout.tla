---------------------------- MODULE SparseLayout ----------------------------
(***************************************************************************)
(* The layouts of block-sparse attention: which blocks of keys a block of  *)
(* queries attends to (ops/sparse_attention/sparsity_config.py).  A layout *)
(* of a head is a set of pairs of a row and a column; c is a configuration *)
(* with the number of blocks of a row in c.n and with c.uni for            *)
(* unidirectional attention.                                               *)
(***************************************************************************)
EXTENDS Integers, SequencesExt, FiniteSetsExt

LOCAL Blocks(c) == 0 .. c.n - 1

(* Indices a slice [from:to] selects; a negative one counts from the end. *)
LOCAL Slice(c, from, to) ==
    LET first == IF from < 0 THEN Max({0, from + c.n}) ELSE from
    IN  {x \in Blocks(c) : first <= x /\ x < to}

(* torch.tril *)
LowerTriangle(layout) == {p \in layout : p[2] <= p[1]}

(* Rows that attend to a global column from its block on, or all of them. *)
VerticalRows(c, first) == IF c.uni THEN Slice(c, first, c.n) ELSE Blocks(c)

(* A window of neighbouring blocks that attend to each other. *)
Window(c, from, to) ==
    LET all == Slice(c, from, to) \X Slice(c, from, to)
    IN  IF c.uni THEN LowerTriangle(all) ELSE all

----------------------------------------------------------------------------
(* FixedSparsityConfig: what it refuses, windows of c.local blocks, and in
   each c.global blocks that represent it, other ones for other heads. *)
FixedIsRefused(c) ==
    \/ c.local % c.global # 0
    \/ c.uni /\ c.horizontal
    \/ c.patterns > 1 /\ ~c.different
    \/ c.patterns > c.local \div c.global

FixedLocal(c) ==
    UNION {Window(c, i * c.local, (i + 1) * c.local) : i \in 0 .. c.n \div c.local}

FirstGlobal(c, h) == c.local - (1 + (h % c.patterns)) * c.global
LastWindow(c) == c.n - (c.n % c.local)
Representatives(c, h) ==
    {i \in 0 .. LastWindow(c) - 1 : i % c.local = FirstGlobal(c, h)}
    \cup (IF LastWindow(c) < c.n
          THEN {Min({LastWindow(c) + FirstGlobal(c, h), c.n - c.global})} ELSE {})
FixedGlobal(c, h) ==
    UNION {LET columns == Slice(c, i, i + c.global)
           IN  (VerticalRows(c, i) \X columns)
               \cup (IF c.horizontal THEN columns \X Blocks(c) ELSE {}) :
               i \in Representatives(c, h)}

----------------------------------------------------------------------------
(* VariableSparsityConfig: windows of given sizes, the last size for the
   rest, global ranges of blocks, and random blocks in every row. *)
WindowStart(c, k) ==
    LET given == Len(c.windows)
        Sum(m) == FoldSeq(+, 0, SubSeq(c.windows, 1, m))
    IN  IF k <= given THEN Sum(k - 1) ELSE Sum(given) + (k - given - 1) * Last(c.windows)
VariableLocal(c) ==
    UNION {Window(c, WindowStart(c, k), WindowStart(c, k + 1)) : k \in 1 .. Len(c.windows) + c.n}

(* Given by their starts, and by their ends or one block each. *)
GlobalRange(c, k) ==
    Slice(c, c.starts[k], IF c.ends = << >> THEN c.starts[k] + 1 ELSE c.ends[k])
RangesAreRefused(c) ==
    c.ends # << >> /\ \/ Len(c.ends) # Len(c.starts)
                      \/ \E k \in DOMAIN c.ends : c.starts[k] >= c.ends[k]
VariableGlobal(c) ==
    UNION {(VerticalRows(c, c.starts[k]) \X GlobalRange(c, k))
           \cup (IF c.horizontal THEN GlobalRange(c, k) \X Blocks(c) ELSE {}) :
               k \in DOMAIN c.starts}

(* c.sample has c.random blocks of every row; BigBird takes them out of
   those a row may attend to, an error if there are fewer. *)
BigBirdRange(c, row) == IF c.uni THEN 0 .. row ELSE Blocks(c)
SampleFails(c) == \E row \in Blocks(c) : Cardinality(BigBirdRange(c, row)) < c.random
RandomBlocks(c) == UNION {{row} \X c.sample[row] : row \in Blocks(c)}

----------------------------------------------------------------------------
(* A sliding window around the diagonal, and rows and columns of global
   blocks, of which a unidirectional layout keeps the lower triangle. *)
Sliding(c) ==
    LET w == c.sliding \div 2
    IN  UNION {{row} \X Slice(c, Max({0, row - w}), row + w + 1) : row \in Blocks(c)}
LocalSliding(c) == IF c.uni THEN LowerTriangle(Sliding(c)) ELSE Sliding(c)
RowsAndColumns(c, blocks) == (blocks \X Blocks(c)) \cup (Blocks(c) \X blocks)
Triangular(c, layout) == IF c.uni THEN LowerTriangle(layout) ELSE layout

BigBirdIsRefused(c) ==
    \/ c.n < c.random \/ c.n < c.sliding \/ c.n < c.global
    \/ SampleFails(c)

LongformerGlobal(c) == UNION {GlobalRange(c, k) : k \in DOMAIN c.starts}

----------------------------------------------------------------------------
Refused(c) ==
    CASE c.kind = "dense"      -> FALSE
      [] c.kind = "fixed"      -> FixedIsRefused(c)
      [] c.kind = "variable"   -> RangesAreRefused(c) \/ (c.uni /\ c.horizontal) \/ c.n < c.random
      [] c.kind = "bigbird"    -> BigBirdIsRefused(c)
      [] c.kind = "longformer" -> RangesAreRefused(c) \/ c.n < c.sliding
      [] c.kind = "sliding"    -> c.n < c.sliding

HeadLayout(c, h) ==
    CASE c.kind = "dense"      -> Blocks(c) \X Blocks(c)
      [] c.kind = "fixed"      -> FixedLocal(c) \cup FixedGlobal(c, h)
      [] c.kind = "variable"   -> RandomBlocks(c) \cup VariableLocal(c) \cup VariableGlobal(c)
      [] c.kind = "bigbird"    ->
             Triangular(c, RandomBlocks(c) \cup Sliding(c)
                           \cup RowsAndColumns(c, Slice(c, 0, c.global)))
      [] c.kind = "longformer" ->
             Triangular(c, Sliding(c) \cup RowsAndColumns(c, LongformerGlobal(c)))
      [] c.kind = "sliding"    -> LocalSliding(c)

(* check_and_propagate_first_head_layout *)
MakeLayout(c) == [h \in 0 .. c.heads - 1 |-> HeadLayout(c, IF c.different THEN h ELSE 0)]
=============================================================================
