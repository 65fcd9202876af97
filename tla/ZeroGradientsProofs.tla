------------------------ MODULE ZeroGradientsProofs ------------------------
(***************************************************************************)
(* Proofs about gradients in ZeRO stages 1 and 2 and about the loss        *)
(* scaler, for any configurations: layouts, sizes of the bucket, ranks,    *)
(* micro-steps of a batch, stages, overlapping and offloading.             *)
(*   StepUsesTheBatchTheorem, OnlyOverflowsAreSkippedTheorem: the          *)
(*   invariant IInv says, of each parameter this rank owns, whether its    *)
(*   gradient waits (Waits) or is where the step looks for it (Done), and  *)
(*   that the buffers still hold what waits in them (Buffers).             *)
(*   ScaleIsEarnedTheorem: ScaleInv ties the scaler's counters to the      *)
(*   steps since the last overflow.                                        *)
(*   EveryElementHasItsOwnerTheorem: the slices of average_tensor and the  *)
(*   places of get_grad_position are built part after part; what is built  *)
(*   covers what came before, each place with its owner (SlicesOK,         *)
(*   PlacesOK).                                                            *)
(* The folds over lists are recursive functions, unfolded by Induction,    *)
(* which is WFMin of the library on a set of naturals.                     *)
(***************************************************************************)
EXTENDS ZeroGradients, FiniteSetTheorems, WellFoundedInduction, TLAPS

----------------------------------------------------------------------------
(* Induction, and sums of sequences.
   A set of naturals has a least member. *)
LEMMA LeastNat ==
    ASSUME NEW T, T \subseteq Nat, T # {}
    PROVE  \E n \in T : \A m \in T : n <= m
<1>1. IsWellFoundedOn(OpToRel(<,Nat), Nat)  BY NatLessThanWellFounded
<1>2. PICK n \in T : \A m \in T : ~(<<m, n>> \in OpToRel(<, Nat))
  BY <1>1, WFMin
<1>3. \A m \in T : ~(m < n)  BY <1>2 DEF OpToRel
<1> QED  BY <1>3

(* Induction, as a statement about sets: what TLAPS can instantiate. *)
LEMMA Induction ==
    ASSUME NEW T, 0 \in T, \A n \in Nat : n \in T => n + 1 \in T
    PROVE  Nat \subseteq T
<1> SUFFICES ASSUME Nat \ T # {} PROVE FALSE  OBVIOUS
<1>1. PICK n \in Nat \ T : \A m \in Nat \ T : n <= m
  <2> DEFINE S == Nat \ T
  <2>1. S \subseteq Nat /\ S # {}  OBVIOUS
  <2> HIDE DEF S
  <2>2. \E k \in S : \A m \in S : k <= m  BY <2>1, LeastNat
  <2> QED  BY <2>2 DEF S
<1>2. n # 0 /\ n - 1 \in Nat /\ n - 1 \in T  BY <1>1
<1> QED  BY <1>1, <1>2

(* A fold over the sequence s, as a function of the sets of its places. *)
Folds(f, s, S) ==
    f = [d \in SUBSET S |-> IF d = {} THEN 0 ELSE f[d \ {Max(d)}] + s[Max(d)]]

(* A sum is the value of a recursive function over sets of places. *)
LEMMA SumIs ==
    ASSUME NEW s
    PROVE  Sum(s) = (CHOOSE f : Folds(f, s, DOMAIN s))[DOMAIN s]
BY DEF Sum, FoldLeft, MapThenFoldSet, Folds

LEMMA MaxIs ==
    ASSUME NEW d \in SUBSET Nat, NEW n \in d, \A m \in d : m <= n
    PROVE  Max(d) = n
<1>1. \A m \in d : n >= m  OBVIOUS
<1>2. Max(d) \in d /\ \A m \in d : Max(d) >= m  BY <1>1 DEF Max
<1>3. Max(d) >= n /\ Max(d) <= n /\ Max(d) \in Nat  BY <1>2
<1> QED  BY ONLY <1>3, n \in Nat

LEMMA Initial ==
    ASSUME NEW n \in Nat
    PROVE  /\ 1 .. n + 1 # {} /\ (1 .. n + 1) \ {n + 1} = 1 .. n
           /\ Max(1 .. n + 1) = n + 1
<1>1. n + 1 \in 1 .. n + 1 /\ \A m \in 1 .. n + 1 : m <= n + 1  OBVIOUS
<1>2. Max(1 .. n + 1) = n + 1  BY ONLY <1>1, n \in Nat, MaxIs
<1>3. ASSUME NEW x PROVE x \in (1 .. n + 1) \ {n + 1} <=> x \in 1 .. n  OBVIOUS
<1> QED  BY <1>1, <1>2, <1>3

LEMMA FoldsAt ==
    ASSUME NEW f, NEW s, NEW S, Folds(f, s, S), NEW d \in SUBSET S, d # {}
    PROVE  f[d] = f[d \ {Max(d)}] + s[Max(d)]
BY DEF Folds

(* On the first n + 1 places. *)
LEMMA FoldsOn ==
    ASSUME NEW f, NEW s, NEW m \in Nat, Folds(f, s, 1 .. m), NEW n \in Nat, n + 1 <= m
    PROVE  f[1 .. n + 1] = f[1 .. n] + s[n + 1]
<1>1. 1 .. n + 1 \in SUBSET (1 .. m)  OBVIOUS
<1> DEFINE d == 1 .. n + 1
<1>2. d # {} /\ d \ {n + 1} = 1 .. n /\ Max(d) = n + 1  BY Initial
<1>3. d \in SUBSET (1 .. m)  BY <1>1
<1> HIDE DEF d
<1>4. f[d] = f[d \ {Max(d)}] + s[Max(d)]
  BY ONLY <1>2, <1>3, Folds(f, s, 1 .. m), FoldsAt
<1> QED  BY <1>2, <1>4 DEF d

(* The recursive function exists. *)
LEMMA FoldsExists ==
    ASSUME NEW s, NEW n \in Nat
    PROVE  \E f : Folds(f, s, 1 .. n)
<1> DEFINE T == {k \in Nat : \E f : Folds(f, s, 1 .. k)}
<1>1. 0 \in T
  <2> DEFINE f == [d \in SUBSET (1 .. 0) |-> 0]
  <2>1. f = [d \in SUBSET (1 .. 0) |-> IF d = {} THEN 0 ELSE f[d \ {Max(d)}] + s[Max(d)]]
    OBVIOUS
  <2> HIDE DEF f
  <2> QED  BY <2>1 DEF Folds
<1>2. ASSUME NEW k \in Nat, k \in T PROVE k + 1 \in T
  <2>1. PICK f : Folds(f, s, 1 .. k)  BY <1>2
  <2> DEFINE g == [d \in SUBSET (1 .. k + 1) |->
                      IF k + 1 \in d THEN f[d \ {k + 1}] + s[k + 1] ELSE f[d]]
             h == [d \in SUBSET (1 .. k + 1) |->
                      IF d = {} THEN 0 ELSE g[d \ {Max(d)}] + s[Max(d)]]
  <2>2. ASSUME NEW d \in SUBSET (1 .. k + 1) PROVE g[d] = h[d]
    <3>1. CASE k + 1 \in d
      <4>1. Max(d) = k + 1  BY <3>1, MaxIs
      <4>2. d \ {k + 1} \in SUBSET (1 .. k + 1) /\ k + 1 \notin d \ {k + 1}
        OBVIOUS
      <4>3. g[d \ {k + 1}] = f[d \ {k + 1}]  BY <4>2
      <4> QED  BY <3>1, <4>1, <4>3
    <3>2. CASE k + 1 \notin d /\ d # {}
      <4>1. d \in SUBSET (1 .. k)  BY <3>2
      <4>2. f[d] = f[d \ {Max(d)}] + s[Max(d)]  BY <2>1, <3>2, <4>1 DEF Folds
      <4>3. d \ {Max(d)} \in SUBSET (1 .. k + 1) /\ k + 1 \notin d \ {Max(d)}
        BY <3>2
      <4>4. g[d \ {Max(d)}] = f[d \ {Max(d)}] /\ g[d] = f[d]  BY <3>2, <4>3
      <4> HIDE DEF g
      <4> QED  BY <3>2, <4>2, <4>4
    <3>3. CASE d = {}
      <4>1. f[{}] = 0  BY <2>1 DEF Folds
      <4> QED  BY <3>3, <4>1
    <3> QED  BY <3>1, <3>2, <3>3
  <2>3. g = h
    <3>1. g = [d \in SUBSET (1 .. k + 1) |-> g[d]] /\ h = [d \in SUBSET (1 .. k + 1) |-> h[d]]
      OBVIOUS
    <3> HIDE DEF g, h
    <3> QED  BY ONLY <2>2, <3>1
  <2>4. Folds(g, s, 1 .. k + 1)
    <3> HIDE DEF g
    <3> QED  BY <2>3 DEF Folds
  <2> QED  BY <2>4
<1> HIDE DEF T
<1>3. n \in T  BY <1>1, <1>2, Induction
<1> QED  BY <1>3 DEF T

(* Two folds agree on what is the same. *)
Agree(s, t, n) == \A i \in 1 .. n : s[i] = t[i]
FoldsFirst(f, s, n) == Folds(f, s, 1 .. n)
AtFirst(f, n) == f[1 .. n]

LEMMA FoldsNext ==
    ASSUME NEW s, NEW f, NEW m \in Nat, NEW n \in Nat, n + 1 <= m, FoldsFirst(f, s, m)
    PROVE  AtFirst(f, n + 1) = AtFirst(f, n) + s[n + 1]
BY FoldsOn DEF FoldsFirst, AtFirst

LEMMA FoldsAgree ==
    ASSUME NEW s, NEW t, NEW f, NEW g, NEW n \in Nat, NEW m \in Nat, n <= m,
           FoldsFirst(f, s, n), FoldsFirst(g, t, m), Agree(s, t, n)
    PROVE  AtFirst(f, n) = AtFirst(g, n)
<1> DEFINE T == {k \in Nat : k <= n => AtFirst(f, k) = AtFirst(g, k)}
<1>1. 0 \in T
  <2>1. f[{}] = 0 /\ g[{}] = 0  BY DEF FoldsFirst, Folds
  <2>2. 1 .. 0 = {}  OBVIOUS
  <2> QED  BY <2>1, <2>2 DEF AtFirst
<1>2. ASSUME NEW k \in Nat, k \in T PROVE k + 1 \in T
  <2> SUFFICES ASSUME k + 1 <= n PROVE AtFirst(f, k + 1) = AtFirst(g, k + 1)
    OBVIOUS
  <2>1. AtFirst(f, k + 1) = AtFirst(f, k) + s[k + 1]  BY FoldsNext
  <2>2. AtFirst(g, k + 1) = AtFirst(g, k) + t[k + 1]
    <3>1. k + 1 <= m  OBVIOUS
    <3> QED  BY <3>1, FoldsNext
  <2>3. s[k + 1] = t[k + 1]  BY DEF Agree
  <2>4. AtFirst(f, k) = AtFirst(g, k)  BY <1>2
  <2> QED  BY <2>1, <2>2, <2>3, <2>4
<1> HIDE DEF T
<1>3. n \in T  BY <1>1, <1>2, Induction
<1> QED  BY <1>3 DEF T

LEMMA SumEmpty == Sum(<< >>) = 0
<1>1. PICK f : Folds(f, << >>, 1 .. 0)  BY FoldsExists
<1>2. DOMAIN << >> = 1 .. 0 /\ 1 .. 0 = {}  OBVIOUS
<1>3. \A g : Folds(g, << >>, {}) => g[{}] = 0  BY DEF Folds
<1> QED  BY <1>1, <1>2, <1>3, SumIs

(* A sum, one more at a time. *)
LEMMA SumAppend ==
    ASSUME NEW s \in Seq(Nat), NEW x \in Nat
    PROVE  Sum(Append(s, x)) = Sum(s) + x
<1> DEFINE t == Append(s, x)
           n == Len(s)
           m == Len(t)
<1>1. /\ n \in Nat /\ m \in Nat /\ m = n + 1 /\ n <= m
      /\ DOMAIN s = 1 .. n /\ DOMAIN t = 1 .. m /\ t[m] = x
  OBVIOUS
<1>2. Agree(s, t, n)  BY DEF Agree
<1> HIDE DEF t, n, m
<1>3. PICK f : FoldsFirst(f, s, n) /\ Sum(s) = AtFirst(f, n)
  BY <1>1, FoldsExists, SumIs DEF FoldsFirst, AtFirst
<1>4. PICK g : FoldsFirst(g, t, m) /\ Sum(t) = AtFirst(g, m)
  BY <1>1, FoldsExists, SumIs DEF FoldsFirst, AtFirst
<1>5. AtFirst(f, n) = AtFirst(g, n)  BY ONLY <1>1, <1>2, <1>3, <1>4, FoldsAgree
<1>6. AtFirst(g, n + 1) = AtFirst(g, n) + t[n + 1]
  <2>1. n + 1 \in Nat /\ n + 1 <= m  BY <1>1
  <2> QED  BY ONLY <1>1, <1>4, <2>1, FoldsNext
<1> QED  BY <1>1, <1>3, <1>4, <1>5, <1>6 DEF t

LEMMA SumIsNat ==
    ASSUME NEW s \in Seq(Nat)
    PROVE  Sum(s) \in Nat
<1> DEFINE T == {k \in Nat : \A t \in Seq(Nat) : Len(t) = k => Sum(t) \in Nat}
<1>1. 0 \in T
  <2>1. ASSUME NEW t \in Seq(Nat), Len(t) = 0 PROVE Sum(t) \in Nat
    <3>1. t = << >>  BY <2>1
    <3> QED  BY <3>1, SumEmpty
  <2> QED  BY <2>1
<1>2. ASSUME NEW k \in Nat, k \in T PROVE k + 1 \in T
  <2> SUFFICES ASSUME NEW t \in Seq(Nat), Len(t) = k + 1 PROVE Sum(t) \in Nat
    OBVIOUS
  <2> DEFINE u == SubSeq(t, 1, k)
  <2>1. u \in Seq(Nat) /\ Len(u) = k /\ t[k + 1] \in Nat  BY <1>2
  <2>2. t = Append(u, t[k + 1])  BY <1>2
  <2> HIDE DEF u
  <2>3. Sum(u) \in Nat  BY <1>2, <2>1
  <2>4. Sum(Append(u, t[k + 1])) = Sum(u) + t[k + 1]  BY <2>1, SumAppend
  <2>5. Sum(u) + t[k + 1] \in Nat  BY ONLY <2>1, <2>3
  <2> QED  BY ONLY <2>2, <2>4, <2>5
<1> HIDE DEF T
<1>3. Len(s) \in T  BY <1>1, <1>2, Induction
<1> QED  BY <1>3 DEF T

----------------------------------------------------------------------------
(* The elements of a list of parameters. *)
Typed == ConfigOK(config)

LEMMA NumelIs ==
    ASSUME Typed, NEW p \in Params
    PROVE  Numel(p) \in Nat \ {0} /\ p \in Nat \ {0}
BY DEF Typed, ConfigOK, Params, Numel

LEMMA Sizes ==
    ASSUME Typed, NEW list \in Seq(Params)
    PROVE  [i \in DOMAIN list |-> Numel(list[i])] \in Seq(Nat)
<1>1. \A i \in 1 .. Len(list) : list[i] \in Params /\ Numel(list[i]) \in Nat
  BY NumelIs
<1>2. DOMAIN list = 1 .. Len(list) /\ Len(list) \in Nat  OBVIOUS
<1>3. [i \in 1 .. Len(list) |-> Numel(list[i])] \in [1 .. Len(list) -> Nat]
  BY <1>1
<1> QED  BY <1>2, <1>3

LEMMA ElementsIsNat ==
    ASSUME Typed, NEW list \in Seq(Params)
    PROVE  Elements(list) \in Nat
BY Sizes, SumIsNat DEF Elements

LEMMA ElementsEmpty == Elements(<< >>) = 0
<1>1. [i \in DOMAIN << >> |-> Numel(<< >>[i])] = << >>  OBVIOUS
<1> QED  BY <1>1, SumEmpty DEF Elements

(* The elements of a list, one more parameter at a time. *)
LEMMA ElementsAppend ==
    ASSUME Typed, NEW list \in Seq(Params), NEW p \in Params
    PROVE  Elements(Append(list, p)) = Elements(list) + Numel(p)
<1> DEFINE s == [i \in DOMAIN list |-> Numel(list[i])]
           l == Append(list, p)
           t == [i \in DOMAIN l |-> Numel(l[i])]
<1>1. s \in Seq(Nat) /\ Numel(p) \in Nat  BY Sizes, NumelIs
<1>2. t = Append(s, Numel(p))
  <2>1. /\ l \in Seq(Params) /\ Len(l) = Len(list) + 1 /\ l[Len(list) + 1] = p
        /\ \A i \in 1 .. Len(list) : l[i] = list[i]
        /\ DOMAIN l = 1 .. Len(list) + 1
    OBVIOUS
  <2>2. Len(s) = Len(list) /\ \A i \in 1 .. Len(list) : s[i] = Numel(list[i])
    OBVIOUS
  <2>3. t \in Seq(Nat) /\ Len(t) = Len(list) + 1
    <3>1. t \in Seq(Nat)  BY <2>1, Sizes
    <3>2. DOMAIN t = 1 .. Len(list) + 1  BY <2>1
    <3> HIDE DEF t
    <3> QED  BY <3>1, <3>2
  <2>4. \A i \in 1 .. Len(list) + 1 : t[i] = Numel(l[i])  BY <2>1
  <2> DEFINE u == Append(s, Numel(p))
  <2>5. /\ u \in Seq(Nat) /\ Len(u) = Len(list) + 1 /\ u[Len(list) + 1] = Numel(p)
        /\ \A i \in 1 .. Len(list) : u[i] = s[i]
    BY <1>1, <2>2
  <2> HIDE DEF t, s, l, u
  <2>6. \A i \in 1 .. Len(list) + 1 : t[i] = u[i]  BY <2>1, <2>2, <2>4, <2>5
  <2>7. t = u  BY <2>3, <2>5, <2>6
  <2> QED  BY <2>7 DEF u
<1>3. Elements(l) = Sum(t) /\ Elements(list) = Sum(s)  BY DEF Elements
<1> HIDE DEF s, t
<1> QED  BY <1>1, <1>2, <1>3, SumAppend

LEMMA ElementsNext ==
    ASSUME Typed, NEW list \in Seq(Params), NEW i \in 1 .. Len(list)
    PROVE  Elements(SubSeq(list, 1, i)) = Elements(SubSeq(list, 1, i - 1)) + Numel(list[i])
<1>1. /\ SubSeq(list, 1, i - 1) \in Seq(Params) /\ list[i] \in Params
      /\ SubSeq(list, 1, i) = Append(SubSeq(list, 1, i - 1), list[i])
  OBVIOUS
<1> QED  BY <1>1, ElementsAppend

LEMMA ElementsBefore ==
    ASSUME Typed, NEW list \in Seq(Params), NEW i \in 1 .. Len(list)
    PROVE  /\ Elements(SubSeq(list, 1, i - 1)) \in Nat
           /\ Elements(SubSeq(list, 1, i - 1)) + Numel(list[i]) <= Elements(list)
<1> DEFINE E(k) == Elements(SubSeq(list, 1, k))
           T == {d \in Nat : i + d <= Len(list) => E(i) <= E(i + d)}
<1>1. \A k \in 0 .. Len(list) : E(k) \in Nat
  <2> SUFFICES ASSUME NEW k \in 0 .. Len(list) PROVE E(k) \in Nat  OBVIOUS
  <2>1. SubSeq(list, 1, k) \in Seq(Params)  OBVIOUS
  <2> QED  BY <2>1, ElementsIsNat
<1>2. \A k \in 1 .. Len(list) : E(k) = E(k - 1) + Numel(list[k]) /\ Numel(list[k]) \in Nat
  BY ElementsNext, NumelIs
<1> HIDE DEF E
<1>3. 0 \in T  BY <1>1
<1>4. ASSUME NEW d \in Nat, d \in T PROVE d + 1 \in T
  <2> SUFFICES ASSUME i + (d + 1) <= Len(list) PROVE E(i) <= E(i + (d + 1))
    OBVIOUS
  <2>1. E(i) <= E(i + d)  BY <1>4
  <2>2. i + d \in 0 .. Len(list) /\ i + (d + 1) \in 1 .. Len(list) /\ i \in 0 .. Len(list)
    OBVIOUS
  <2>3. E(i + (d + 1)) = E(i + (d + 1) - 1) + Numel(list[i + (d + 1)])
        /\ Numel(list[i + (d + 1)]) \in Nat
    BY <1>2, <2>2
  <2>4. i + (d + 1) - 1 = i + d  OBVIOUS
  <2>5. E(i) \in Nat /\ E(i + d) \in Nat  BY <1>1, <2>2
  <2> HIDE DEF T
  <2> QED  BY <2>1, <2>3, <2>4, <2>5
<1> HIDE DEF T
<1>5. Len(list) - i \in T
  <2>1. Len(list) - i \in Nat  OBVIOUS
  <2> QED  BY <1>3, <1>4, <2>1, Induction
<1>6. E(i) <= E(Len(list))
  <2>1. i + (Len(list) - i) = Len(list)  OBVIOUS
  <2> QED  BY <1>5, <2>1 DEF T
<1>7. SubSeq(list, 1, Len(list)) = list  OBVIOUS
<1>8. E(i) = E(i - 1) + Numel(list[i]) /\ i - 1 \in 0 .. Len(list)  BY <1>2
<1>9. E(i - 1) \in Nat  BY <1>1, <1>8
<1> QED  BY <1>6, <1>7, <1>8, <1>9 DEF E

(* The cells of what is in a list do not depend on what is added. *)
LEMMA CellsAppend ==
    ASSUME Typed, NEW list \in Seq(Params), NEW p \in Params
    PROVE  /\ CellsOf(Append(list, p), Len(list) + 1)
                  = Elements(list) .. Elements(list) + Numel(p) - 1
           /\ \A i \in 1 .. Len(list) :
                  /\ CellsOf(Append(list, p), i) = CellsOf(list, i)
                  /\ CellsOf(list, i) \subseteq 0 .. Elements(list) - 1
<1> DEFINE l == Append(list, p)
<1>1. /\ SubSeq(l, 1, Len(list)) = list /\ l[Len(list) + 1] = p
      /\ (Len(list) + 1) - 1 = Len(list)
  OBVIOUS
<1>2. ASSUME NEW i \in 1 .. Len(list)
      PROVE  /\ SubSeq(l, 1, i - 1) = SubSeq(list, 1, i - 1)
             /\ l[i] = list[i]
  OBVIOUS
<1> HIDE DEF l
<1>3. CellsOf(l, Len(list) + 1) = Elements(list) .. Elements(list) + Numel(p) - 1
  BY <1>1 DEF CellsOf
<1>4. ASSUME NEW i \in 1 .. Len(list)
      PROVE  /\ CellsOf(l, i) = CellsOf(list, i)
             /\ CellsOf(list, i) \subseteq 0 .. Elements(list) - 1
  <2>1. CellsOf(l, i) = CellsOf(list, i)  BY <1>2 DEF CellsOf
  <2>2. /\ Elements(SubSeq(list, 1, i - 1)) \in Nat
        /\ Elements(SubSeq(list, 1, i - 1)) + Numel(list[i]) <= Elements(list)
        /\ Numel(list[i]) \in Nat /\ Elements(list) \in Nat
    BY ElementsBefore, NumelIs, ElementsIsNat
  <2> QED  BY <2>1, <2>2 DEF CellsOf
<1> QED  BY <1>3, <1>4 DEF l

----------------------------------------------------------------------------
(* The gradient that the micro-steps in S make, averaged k times. *)
Of(S, k) == SetToBag({<<n, k>> : n \in S})

LEMMA OfNone == \A k : Of({}, k) = NoGrad
BY DEF Of, NoGrad, EmptyBag

LEMMA OfSome ==
    ASSUME NEW S, NEW k, Of(S, k) = NoGrad
    PROVE  S = {}
<1>1. DOMAIN Of(S, k) = {<<n, k>> : n \in S}  BY DEF Of, SetToBag
<1>2. DOMAIN NoGrad = {}  BY DEF NoGrad, EmptyBag, SetToBag
<1> QED  BY <1>1, <1>2

LEMMA OfDomain ==
    ASSUME NEW S, NEW k
    PROVE  {x[1] : x \in DOMAIN Of(S, k)} = S
<1> DEFINE D == {<<n, k>> : n \in S}
<1>1. DOMAIN Of(S, k) = D  BY DEF Of, SetToBag
<1>2. ASSUME NEW n \in S PROVE n \in {x[1] : x \in D}
  <2>1. <<n, k>> \in D /\ <<n, k>>[1] = n  OBVIOUS
  <2> HIDE DEF D
  <2> QED  BY <2>1
<1>3. ASSUME NEW x \in D PROVE x[1] \in S  OBVIOUS
<1> HIDE DEF D
<1> QED  BY <1>1, <1>2, <1>3

LEMMA OfBoth ==
    ASSUME NEW S, NEW R, NEW k, S \cap R = {}
    PROVE  Of(S, k) (+) Of(R, k) = Of(S \cup R, k)
<1> DEFINE a == {<<n, k>> : n \in S}
           b == {<<n, k>> : n \in R}
<1>1. a \cap b = {} /\ a \cup b = {<<n, k>> : n \in S \cup R}  OBVIOUS
<1> HIDE DEF a, b
<1>2. SetToBag(a) (+) SetToBag(b) = SetToBag(a \cup b)
  BY <1>1 DEF SetToBag, (+)
<1> QED  BY <1>1, <1>2 DEF Of, a, b

LEMMA OfAveraged ==
    ASSUME NEW S
    PROVE  Averaged(Of(S, 0)) = Of(S, 1)
<1> DEFINE a == {<<n, 0>> : n \in S}
           b == {<<n, 1>> : n \in S}
<1>1. {<<x[1], x[2] + 1>> : x \in a} = b
  <2>1. \A n : <<n, 0>>[1] = n /\ <<n, 0>>[2] + 1 = 1  OBVIOUS
  <2>2. ASSUME NEW x \in a PROVE <<x[1], x[2] + 1>> \in b  BY <2>1
  <2>3. ASSUME NEW n \in S PROVE \E x \in a : <<n, 1>> = <<x[1], x[2] + 1>>
    <3>1. <<n, 0>> \in a /\ <<n, 1>> = <<<<n, 0>>[1], <<n, 0>>[2] + 1>>
      BY <2>1
    <3> QED  BY <3>1
  <2> QED  BY <2>2, <2>3
<1>2. \A e \in b : <<e[1], e[2] - 1>> \in a  OBVIOUS
<1> HIDE DEF a, b
<1>3. DOMAIN SetToBag(a) = a /\ \A e \in a : SetToBag(a)[e] = 1
  BY DEF SetToBag
<1>4. Averaged(SetToBag(a)) = SetToBag(b)
  BY <1>1, <1>2, <1>3 DEF Averaged, SetToBag
<1> QED  BY <1>4 DEF Of, a, b

LEMMA OfOne == \A n : Contribution(n) = Of({n}, 0)
BY DEF Contribution, Of

----------------------------------------------------------------------------
(* What a job does to the memory. *)
MemOK(m) ==
    /\ m = [grad |-> m.grad, kept |-> m.kept, cpu |-> m.cpu, fp32 |-> m.fp32,
            overflow |-> m.overflow]
    /\ m.grad = [p \in Params |-> m.grad[p]] /\ m.kept = [p \in Params |-> m.kept[p]]
    /\ m.cpu = [p \in Params |-> m.cpu[p]] /\ m.fp32 = [p \in Params |-> m.fp32[p]]
    /\ m.overflow \in BOOLEAN

(* One field at a time. *)
WithGrad(m, g) == [m EXCEPT !.grad = g]
WithCpu(m, g) == [m EXCEPT !.cpu = g]
WithFp32(m, g) == [m EXCEPT !.fp32 = g]
WithOverflow(m, b) == [m EXCEPT !.overflow = b]
With(f, p, g) == [f EXCEPT ![p] = g]

(* The fields of a memory. *)
LEMMA Fields ==
    ASSUME NEW m, MemOK(m), NEW g
    PROVE  /\ WithGrad(m, g) = [grad |-> g, kept |-> m.kept, cpu |-> m.cpu, fp32 |-> m.fp32,
                                overflow |-> m.overflow]
           /\ WithCpu(m, g) = [grad |-> m.grad, kept |-> m.kept, cpu |-> g, fp32 |-> m.fp32,
                               overflow |-> m.overflow]
           /\ WithFp32(m, g) = [grad |-> m.grad, kept |-> m.kept, cpu |-> m.cpu, fp32 |-> g,
                                overflow |-> m.overflow]
           /\ WithOverflow(m, g) = [grad |-> m.grad, kept |-> m.kept, cpu |-> m.cpu,
                                    fp32 |-> m.fp32, overflow |-> g]
<1>1. PICK u, v, w, x, y : m = [grad |-> u, kept |-> v, cpu |-> w, fp32 |-> x, overflow |-> y]
  BY DEF MemOK
<1> QED  BY <1>1 DEF WithGrad, WithCpu, WithFp32, WithOverflow

LEMMA WithIs ==
    ASSUME NEW f, f = [p \in Params |-> f[p]], NEW p \in Params, NEW g
    PROVE  /\ With(f, p, g) = [q \in Params |-> With(f, p, g)[q]]
           /\ With(f, p, g)[p] = g
           /\ \A q \in Params : q # p => With(f, p, g)[q] = f[q]
BY DEF With

(* Keeping a gradient, field by field. *)
LEMMA KeepIs ==
    ASSUME NEW m, NEW p, NEW g
    PROVE  /\ ~config.offload => Keep(m, p, g) = WithGrad(m, With(m.grad, p, g))
           /\ config.offload /\ Boundary =>
                  Keep(m, p, g) =
                      WithOverflow(
                          WithGrad(
                              WithFp32(m, With(m.fp32, p, Accumulated(m, p, g))),
                              With(WithFp32(m, With(m.fp32, p, Accumulated(m, p, g))).grad, p, NoGrad)),
                          TracksOverflow(m, p, Accumulated(m, p, g)))
           /\ config.offload /\ ~Boundary /\ config.master =>
                  Keep(m, p, g) = WithFp32(m, With(m.fp32, p, Accumulated(m, p, g)))
           /\ config.offload /\ ~Boundary /\ ~config.master =>
                  Keep(m, p, g) = WithCpu(m, With(m.cpu, p, Accumulated(m, p, g)))
BY DEF Keep, StoreOnCpu, WithGrad, WithCpu, WithFp32, WithOverflow, With

Same(m, k, q) == k.grad[q] = m.grad[q] /\ k.fp32[q] = m.fp32[q] /\ k.cpu[q] = m.cpu[q]

KeepDoes(m, k, p, g, sum) ==
    /\ MemOK(k) /\ k.kept = m.kept
    /\ \A q \in Params : q # p => Same(m, k, q)
    /\ ~config.offload => k.grad[p] = g /\ k.cpu = m.cpu /\ k.overflow = m.overflow
    /\ config.offload /\ Boundary =>
           /\ k.fp32[p] = sum /\ k.cpu = m.cpu
           /\ k.overflow = (m.overflow \/ Overflows(p, sum))
    /\ config.offload /\ ~Boundary => OnCpu(k, p) = sum /\ k.overflow = m.overflow

LEMMA FieldsOK ==
    ASSUME NEW m, MemOK(m), NEW g
    PROVE  /\ g = [p \in Params |-> g[p]] =>
                  MemOK(WithGrad(m, g)) /\ MemOK(WithCpu(m, g)) /\ MemOK(WithFp32(m, g))
           /\ g \in BOOLEAN => MemOK(WithOverflow(m, g))
<1>1. /\ m.grad = [p \in Params |-> m.grad[p]] /\ m.kept = [p \in Params |-> m.kept[p]]
      /\ m.cpu = [p \in Params |-> m.cpu[p]] /\ m.fp32 = [p \in Params |-> m.fp32[p]]
      /\ m.overflow \in BOOLEAN
  BY DEF MemOK
<1>2. ASSUME NEW a, NEW b, NEW c, NEW d, NEW e,
             a = [p \in Params |-> a[p]], b = [p \in Params |-> b[p]],
             c = [p \in Params |-> c[p]], d = [p \in Params |-> d[p]], e \in BOOLEAN
      PROVE  MemOK([grad |-> a, kept |-> b, cpu |-> c, fp32 |-> d, overflow |-> e])
  BY ONLY <1>2 DEF MemOK
<1> QED  BY ONLY <1>1, <1>2, MemOK(m), Fields

LEMMA KeepFields ==
    ASSUME NEW m, MemOK(m), NEW p \in Params, NEW g
    PROVE  KeepDoes(m, Keep(m, p, g), p, g, Accumulated(m, p, g))
<1> DEFINE sum == Accumulated(m, p, g)
           k == Keep(m, p, g)
<1>1. /\ m.grad = [q \in Params |-> m.grad[q]]
      /\ m.cpu = [q \in Params |-> m.cpu[q]] /\ m.fp32 = [q \in Params |-> m.fp32[q]]
      /\ m.overflow \in BOOLEAN
  BY DEF MemOK
<1>2. CASE ~config.offload
  <2> DEFINE f == With(m.grad, p, g)
  <2>1. k = WithGrad(m, f)  BY <1>2, KeepIs
  <2>2. f = [q \in Params |-> f[q]] /\ f[p] = g /\ \A q \in Params : q # p => f[q] = m.grad[q]
    BY <1>1, WithIs
  <2> HIDE DEF f, k
  <2>3. MemOK(k) /\ k.kept = m.kept /\ k.grad = f /\ k.cpu = m.cpu /\ k.fp32 = m.fp32
        /\ k.overflow = m.overflow
    <3>1. MemOK(WithGrad(m, f))  BY <2>2, FieldsOK
    <3>2. WithGrad(m, f) = [grad |-> f, kept |-> m.kept, cpu |-> m.cpu,
                            fp32 |-> m.fp32, overflow |-> m.overflow]
      BY MemOK(m), Fields
    <3> QED  BY ONLY <2>1, <3>1, <3>2
  <2> QED  BY <1>2, <2>2, <2>3 DEF KeepDoes, k, Same
<1>3. CASE config.offload /\ Boundary
  <2> DEFINE f == With(m.fp32, p, sum)
             a == WithFp32(m, f)
             h == With(a.grad, p, NoGrad)
             b == WithGrad(a, h)
             o == TracksOverflow(m, p, sum)
  <2>1. k = WithOverflow(b, o)  BY <1>3, KeepIs
  <2>2. f = [q \in Params |-> f[q]] /\ f[p] = sum /\ \A q \in Params : q # p => f[q] = m.fp32[q]
    <3> HIDE DEF sum
    <3> QED  BY <1>1, WithIs
  <2> HIDE DEF f, k, sum
  <2>3. MemOK(a) /\ a.kept = m.kept /\ a.grad = m.grad /\ a.cpu = m.cpu /\ a.fp32 = f
        /\ a.overflow = m.overflow
    <3>1. MemOK(WithFp32(m, f))  BY <2>2, FieldsOK
    <3>2. WithFp32(m, f) = [grad |-> m.grad, kept |-> m.kept, cpu |-> m.cpu,
                            fp32 |-> f, overflow |-> m.overflow]
      BY MemOK(m), Fields
    <3> QED  BY ONLY <3>1, <3>2 DEF a
  <2> HIDE DEF a
  <2>4. h = [q \in Params |-> h[q]] /\ \A q \in Params : q # p => h[q] = m.grad[q]
    BY <1>1, <2>3, WithIs
  <2> HIDE DEF h
  <2>5. MemOK(b) /\ b.kept = m.kept /\ b.grad = h /\ b.cpu = m.cpu /\ b.fp32 = f
    <3>1. MemOK(WithGrad(a, h))  BY <2>3, <2>4, FieldsOK
    <3>2. WithGrad(a, h) = [grad |-> h, kept |-> a.kept, cpu |-> a.cpu,
                            fp32 |-> a.fp32, overflow |-> a.overflow]
      BY <2>3, Fields
    <3> QED  BY ONLY <2>3, <3>1, <3>2 DEF b
  <2> HIDE DEF b
  <2>6. o \in BOOLEAN  BY <1>1 DEF TracksOverflow
  <2>8. o = (m.overflow \/ Overflows(p, sum))  BY DEF TracksOverflow
  <2> HIDE DEF o
  <2>7. MemOK(k) /\ k.kept = m.kept /\ k.grad = h /\ k.cpu = m.cpu /\ k.fp32 = f
        /\ k.overflow = o
    <3>1. MemOK(WithOverflow(b, o))  BY <2>5, <2>6, FieldsOK
    <3>2. WithOverflow(b, o) = [grad |-> b.grad, kept |-> b.kept, cpu |-> b.cpu,
                            fp32 |-> b.fp32, overflow |-> o]
      BY <2>5, Fields
    <3> QED  BY ONLY <2>1, <2>5, <3>1, <3>2
  <2> QED  BY <1>3, <2>2, <2>4, <2>7, <2>8 DEF KeepDoes, k, Same, sum
<1>4. CASE config.offload /\ ~Boundary /\ config.master
  <2> DEFINE f == With(m.fp32, p, sum)
  <2>1. k = WithFp32(m, f)  BY <1>4, KeepIs
  <2>2. f = [q \in Params |-> f[q]] /\ f[p] = sum /\ \A q \in Params : q # p => f[q] = m.fp32[q]
    <3> HIDE DEF sum
    <3> QED  BY <1>1, WithIs
  <2> HIDE DEF f, k, sum
  <2>3. MemOK(k) /\ k.kept = m.kept /\ k.grad = m.grad /\ k.cpu = m.cpu /\ k.fp32 = f
        /\ k.overflow = m.overflow
    <3>1. MemOK(WithFp32(m, f))  BY <2>2, FieldsOK
    <3>2. WithFp32(m, f) = [grad |-> m.grad, kept |-> m.kept, cpu |-> m.cpu,
                            fp32 |-> f, overflow |-> m.overflow]
      BY MemOK(m), Fields
    <3> QED  BY ONLY <2>1, <3>1, <3>2
  <2>4. OnCpu(k, p) = sum  BY <1>4, <2>2, <2>3 DEF OnCpu
  <2> QED  BY <1>4, <2>2, <2>3, <2>4 DEF KeepDoes, k, Same, sum
<1>5. CASE config.offload /\ ~Boundary /\ ~config.master
  <2> DEFINE f == With(m.cpu, p, sum)
  <2>1. k = WithCpu(m, f)  BY <1>5, KeepIs
  <2>2. f = [q \in Params |-> f[q]] /\ f[p] = sum /\ \A q \in Params : q # p => f[q] = m.cpu[q]
    <3> HIDE DEF sum
    <3> QED  BY <1>1, WithIs
  <2> HIDE DEF f, k, sum
  <2>3. MemOK(k) /\ k.kept = m.kept /\ k.grad = m.grad /\ k.cpu = f /\ k.fp32 = m.fp32
        /\ k.overflow = m.overflow
    <3>1. MemOK(WithCpu(m, f))  BY <2>2, FieldsOK
    <3>2. WithCpu(m, f) = [grad |-> m.grad, kept |-> m.kept, cpu |-> f,
                            fp32 |-> m.fp32, overflow |-> m.overflow]
      BY MemOK(m), Fields
    <3> QED  BY ONLY <2>1, <3>1, <3>2
  <2>4. OnCpu(k, p) = sum  BY <1>5, <2>2, <2>3 DEF OnCpu
  <2> QED  BY <1>5, <2>2, <2>3, <2>4 DEF KeepDoes, k, Same, sum
<1> QED  BY <1>2, <1>3, <1>4, <1>5

(* The loop of a job, as a function of the sets of the places it has done. *)
JobFolds(f, m, j, s, S) ==
    f = [d \in SUBSET S |-> IF d = {} THEN m ELSE Place(j, f[d \ {Max(d)}], s[Max(d)])]

(* A job is the value of a recursive function over sets of places. *)
LEMMA JobIs ==
    ASSUME NEW m, NEW j
    PROVE  LET s == [i \in DOMAIN j.params |-> i]
           IN  RunJob(m, j) = (CHOOSE f : JobFolds(f, m, j, s, DOMAIN s))[DOMAIN s]
BY DEF RunJob, FoldLeft, MapThenFoldSet, JobFolds

LEMMA JobFoldsAt ==
    ASSUME NEW f, NEW m, NEW j, NEW s, NEW S, JobFolds(f, m, j, s, S),
           NEW d \in SUBSET S, d # {}
    PROVE  f[d] = Place(j, f[d \ {Max(d)}], s[Max(d)])
BY DEF JobFolds

LEMMA JobFoldsOn ==
    ASSUME NEW f, NEW m, NEW j, NEW s, NEW l \in Nat, JobFolds(f, m, j, s, 1 .. l),
           NEW n \in Nat, n + 1 <= l
    PROVE  f[1 .. n + 1] = Place(j, f[1 .. n], s[n + 1])
<1>1. 1 .. n + 1 \in SUBSET (1 .. l)  OBVIOUS
<1> DEFINE d == 1 .. n + 1
<1>2. d # {} /\ d \ {n + 1} = 1 .. n /\ Max(d) = n + 1  BY Initial
<1>3. d \in SUBSET (1 .. l)  BY <1>1
<1> HIDE DEF d
<1>4. f[d] = Place(j, f[d \ {Max(d)}], s[Max(d)])
  BY ONLY <1>2, <1>3, JobFolds(f, m, j, s, 1 .. l), JobFoldsAt
<1> QED  BY <1>2, <1>4 DEF d

LEMMA JobFoldsExists ==
    ASSUME NEW m, NEW j, NEW s, NEW n \in Nat
    PROVE  \E f : JobFolds(f, m, j, s, 1 .. n)
<1> DEFINE T == {k \in Nat : \E f : JobFolds(f, m, j, s, 1 .. k)}
<1>1. 0 \in T
  <2> DEFINE f == [d \in SUBSET (1 .. 0) |-> m]
  <2>1. f = [d \in SUBSET (1 .. 0) |->
                IF d = {} THEN m ELSE Place(j, f[d \ {Max(d)}], s[Max(d)])]
    OBVIOUS
  <2> HIDE DEF f
  <2> QED  BY <2>1 DEF JobFolds
<1>2. ASSUME NEW k \in Nat, k \in T PROVE k + 1 \in T
  <2>1. PICK f : JobFolds(f, m, j, s, 1 .. k)  BY <1>2
  <2> DEFINE g == [d \in SUBSET (1 .. k + 1) |->
                      IF k + 1 \in d THEN Place(j, f[d \ {k + 1}], s[k + 1]) ELSE f[d]]
             h == [d \in SUBSET (1 .. k + 1) |->
                      IF d = {} THEN m ELSE Place(j, g[d \ {Max(d)}], s[Max(d)])]
  <2>2. ASSUME NEW d \in SUBSET (1 .. k + 1) PROVE g[d] = h[d]
    <3>1. CASE k + 1 \in d
      <4>1. Max(d) = k + 1  BY <3>1, MaxIs
      <4>2. d \ {k + 1} \in SUBSET (1 .. k + 1) /\ k + 1 \notin d \ {k + 1}
        OBVIOUS
      <4>3. g[d \ {k + 1}] = f[d \ {k + 1}]  BY <4>2
      <4> QED  BY <3>1, <4>1, <4>3
    <3>2. CASE k + 1 \notin d /\ d # {}
      <4>1. d \in SUBSET (1 .. k)  BY <3>2
      <4>2. f[d] = Place(j, f[d \ {Max(d)}], s[Max(d)])
        BY ONLY <2>1, <3>2, <4>1 DEF JobFolds
      <4>3. d \ {Max(d)} \in SUBSET (1 .. k + 1) /\ k + 1 \notin d \ {Max(d)}
        BY <3>2
      <4>4. g[d \ {Max(d)}] = f[d \ {Max(d)}] /\ g[d] = f[d]  BY <3>2, <4>3
      <4> HIDE DEF g
      <4> QED  BY <3>2, <4>2, <4>4
    <3>3. CASE d = {}
      <4>1. f[{}] = m  BY <2>1 DEF JobFolds
      <4> QED  BY <3>3, <4>1
    <3> QED  BY <3>1, <3>2, <3>3
  <2>3. g = h
    <3>1. g = [d \in SUBSET (1 .. k + 1) |-> g[d]] /\ h = [d \in SUBSET (1 .. k + 1) |-> h[d]]
      OBVIOUS
    <3> HIDE DEF g, h
    <3> QED  BY ONLY <2>2, <3>1
  <2>4. JobFolds(g, m, j, s, 1 .. k + 1)
    <3> HIDE DEF g
    <3> QED  BY <2>3 DEF JobFolds
  <2> QED  BY <2>4
<1> HIDE DEF T
<1>3. n \in T  BY <1>1, <1>2, Induction
<1> QED  BY <1>3 DEF T

(* A parameter whose gradient was placed. *)
Finished(m, r, p) ==
    LET g == Averaged(m.grad[p])
    IN  /\ ~config.offload => r.grad[p] = g
        /\ config.offload /\ Boundary =>
               /\ r.fp32[p] = Accumulated(m, p, g)
               /\ Overflows(p, r.fp32[p]) => r.overflow
        /\ config.offload /\ ~Boundary => OnCpu(r, p) = Accumulated(m, p, g)

(* After the first k of the list. *)
JobDone(m, r, list, k) ==
    /\ MemOK(r) /\ r.kept = m.kept
    /\ (Boundary \/ ~config.offload) => r.cpu = m.cpu
    /\ m.overflow => r.overflow
    /\ r.overflow => m.overflow \/ bad # {}
    /\ \A q \in Params : (\A i \in 1 .. k : list[i] # q) => Same(m, r, q)
    /\ \A i \in 1 .. k : list[i] \in Owned => Finished(m, r, list[i])

LEMMA PlaceGoesOn ==
    ASSUME NEW m, MemOK(m), NEW j, j.params \in Seq(Params),
           \A x, y \in DOMAIN j.params : j.params[x] = j.params[y] => x = y,
           \A i \in DOMAIN j.params : Intact(j, i),
           NEW k \in Nat, k + 1 \in DOMAIN j.params, NEW n, JobDone(m, n, j.params, k)
    PROVE  JobDone(m, Place(j, n, k + 1), j.params, k + 1)
<1> DEFINE list == j.params
           p == list[k + 1]
           r == Place(j, n, k + 1)
           g == Averaged(n.grad[p])
           sum == Accumulated(n, p, g)
<1>1. /\ p \in Params /\ DOMAIN list = 1 .. Len(list) /\ Len(list) \in Nat
      /\ \A i \in 1 .. k : list[i] # p /\ list[i] \in Params
  <2>1. DOMAIN list = 1 .. Len(list) /\ Len(list) \in Nat  OBVIOUS
  <2>2. ASSUME NEW i \in 1 .. k PROVE list[i] # p /\ list[i] \in Params
    <3>1. i \in DOMAIN list /\ i # k + 1  BY <2>1
    <3> QED  BY <3>1
  <2> QED  BY <2>1, <2>2
<1>2. Same(m, n, p) /\ g = Averaged(m.grad[p]) /\ sum = Accumulated(m, p, g)
  <2>1. Same(m, n, p)  BY <1>1 DEF JobDone
  <2> QED  BY <2>1 DEF Same, Accumulated, OnCpu
<1>3. /\ \A q \in Params : (\A i \in 1 .. k + 1 : list[i] # q) =>
             q # p /\ (\A i \in 1 .. k : list[i] # q)
      /\ \A i \in 1 .. k + 1 : i \in 1 .. k \/ list[i] = p
  OBVIOUS
<1>4. CASE p \notin Owned
  <2>1. r = n  BY <1>4 DEF Place
  <2> HIDE DEF r, list, p
  <2> QED  BY <1>3, <1>4, <2>1 DEF JobDone, r, list
<1>5. CASE p \in Owned
  <2>1. r = Keep(n, p, g)  BY <1>5 DEF Place
  <2>2. KeepDoes(n, r, p, g, sum)
    <3> HIDE DEF g, p
    <3> QED  BY <1>1, <2>1, KeepFields DEF JobDone
  <2> HIDE DEF r, g, sum, p, list
  <2>3. \A q \in Params : (\A i \in 1 .. k + 1 : list[i] # q) => Same(m, r, q)
    <3> SUFFICES ASSUME NEW q \in Params, \A i \in 1 .. k + 1 : list[i] # q
                 PROVE  Same(m, r, q)
      OBVIOUS
    <3>1. Same(m, n, q)  BY <1>3 DEF JobDone, list
    <3>2. Same(n, r, q)  BY <1>3, <2>2 DEF KeepDoes
    <3> QED  BY <3>1, <3>2 DEF Same
  <2>4. Finished(m, r, p)  BY <1>2, <2>2 DEF Finished, KeepDoes, sum, g
  <2>5. ASSUME NEW i \in 1 .. k, list[i] \in Owned PROVE Finished(m, r, list[i])
    <3>1. Finished(m, n, list[i])  BY <2>5 DEF JobDone, list
    <3>2. Same(n, r, list[i])  BY <1>1, <2>2 DEF KeepDoes
    <3>3. n.overflow => r.overflow  BY <2>2 DEF KeepDoes
    <3> QED  BY <3>1, <3>2, <3>3 DEF Finished, Same, OnCpu
  <2>6. \A i \in 1 .. k + 1 : list[i] \in Owned => Finished(m, r, list[i])
    BY <1>3, <2>4, <2>5
  <2>7. /\ MemOK(r) /\ r.kept = m.kept
        /\ (Boundary \/ ~config.offload) => r.cpu = m.cpu
    BY <2>2 DEF KeepDoes, JobDone
  <2>8. m.overflow => r.overflow  BY <2>2 DEF KeepDoes, JobDone
  <2>9. r.overflow => m.overflow \/ bad # {}
    <3>1. r.overflow => n.overflow \/ Overflows(p, sum)  BY <2>2 DEF KeepDoes
    <3>2. Overflows(p, sum) => bad # {}  BY DEF Overflows
    <3> QED  BY <3>1, <3>2 DEF JobDone
  <2> QED  BY <2>3, <2>6, <2>7, <2>8, <2>9 DEF JobDone, r, list
<1> QED  BY <1>4, <1>5

(* What a job has done once it has run. *)
LEMMA JobFields ==
    ASSUME NEW m, MemOK(m), NEW j, j.params \in Seq(Params),
           \A x, y \in DOMAIN j.params : j.params[x] = j.params[y] => x = y,
           \A i \in DOMAIN j.params : Intact(j, i)
    PROVE  JobDone(m, RunJob(m, j), j.params, Len(j.params))
<1> DEFINE list == j.params
           l == Len(list)
           s == [i \in DOMAIN list |-> i]
           f == CHOOSE f : JobFolds(f, m, j, s, DOMAIN s)
           T == {k \in Nat : k <= l => JobDone(m, f[1 .. k], list, k)}
<1>1. l \in Nat /\ DOMAIN list = 1 .. l /\ DOMAIN s = 1 .. l /\ \A i \in 1 .. l : s[i] = i
  OBVIOUS
<1>2. RunJob(m, j) = f[1 .. l]  BY <1>1, JobIs
<1>3. JobFolds(f, m, j, s, 1 .. l)
  <2> HIDE DEF s
  <2>1. \E h : JobFolds(h, m, j, s, 1 .. l)  BY <1>1, JobFoldsExists
  <2> QED  BY <1>1, <2>1
<1> HIDE DEF f, s
<1>4. 0 \in T
  <2>1. f[1 .. 0] = m  BY <1>3 DEF JobFolds
  <2>2. JobDone(m, m, list, 0)  BY DEF JobDone, Same
  <2> QED  BY <2>1, <2>2
<1>5. ASSUME NEW k \in Nat, k \in T PROVE k + 1 \in T
  <2> SUFFICES ASSUME k + 1 <= l PROVE JobDone(m, f[1 .. k + 1], list, k + 1)
    OBVIOUS
  <2>1. JobDone(m, f[1 .. k], list, k)  BY <1>1, <1>5
  <2>2. f[1 .. k + 1] = Place(j, f[1 .. k], s[k + 1])
    BY <1>1, <1>3, JobFoldsOn
  <2>3. s[k + 1] = k + 1 /\ k + 1 \in DOMAIN list  BY <1>1
  <2> HIDE DEF T, l
  <2> QED  BY <2>1, <2>2, <2>3, PlaceGoesOn
<1> HIDE DEF T
<1>6. l \in T  BY <1>1, <1>4, <1>5, Induction
<1> QED  BY <1>1, <1>2, <1>6 DEF T

----------------------------------------------------------------------------
(* The inductive invariant. *)
Once(s) == \A x, y \in DOMAIN s : s[x] = s[y] => x = y

(* Which micro-steps of the batch have used p; under stage 2 the last one
   is on its way, and those before it were put aside. *)
Uses(p) == {x[1] : x \in DOMAIN used[p]}
New(p) == IF config.stage = 2 THEN Uses(p) \cap {ThisStep} ELSE Uses(p)
Old(p) == Uses(p) \ New(p)

(* The micro_step_id of the micro-step that comes or runs. *)
Begun == IF phase = "idle" THEN microStep + 1 ELSE microStep

AllWait ==
    \/ phase = "idle"
    \/ config.stage = 1 /\ (phase = "backward" \/ (phase = "step" /\ ~Boundary))
Settled == phase \in {"step", "idle", "ended"} \/ (phase = "backward" /\ config.stage = 1)
Pending == unready \cup Range(bucket) \cup Range(job.params)

Types ==
    /\ Typed /\ config \in Configs
    /\ phase \in {"idle", "backward", "reduce", "flush", "collect", "step", "ended"}
    /\ microSteps \in Nat /\ microStep \in Int /\ microStep >= -1
    /\ phase \notin {"idle", "ended"} => microStep >= 0
    /\ MemOK(mem)
    /\ calm \in Nat

Lists ==
    /\ unready \subseteq Params /\ bucket \in Seq(Params) /\ job.params \in Seq(Params)
    /\ Once(bucket) /\ Once(job.params)
    /\ unready \cap Range(bucket) = {} /\ unready \cap Range(job.params) = {}
    /\ Range(bucket) \cap Range(job.params) = {}
    /\ (unready \cup Range(bucket)) \cap reduced = {}
    /\ phase # "collect" => Range(job.params) \subseteq reduced

Phases ==
    /\ phase \in {"flush", "collect", "step", "idle", "ended"} => unready = {}
    /\ Settled \/ phase = "collect" => bucket = << >> /\ large = None /\ reduced = {}
    /\ Settled => job = NoJob
    /\ phase = "reduce" => config.stage = 1
    /\ config.stage = 1 /\ phase \in {"reduce", "flush", "collect"} => Boundary
    /\ ~config.overlap => job = NoJob

Buffers ==
    /\ ipgIndex \in {0, 1} /\ DOMAIN ipg = {0, 1}
    /\ \A k \in {0, 1} : ipg[k] = [c \in 0 .. config.bucketSize - 1 |-> ipg[k][c]]
    /\ large # None => bucket = <<large>> /\ Numel(large) > config.bucketSize
    /\ large = None => /\ Elements(bucket) <= config.bucketSize
                       /\ \A i \in DOMAIN bucket : \A c \in CellsOf(bucket, i) :
                              ipg[ipgIndex][c] = bucket[i]
    /\ \A i \in DOMAIN job.params : Intact(job, i)
    /\ job # NoJob => job.buffer \in {0, 1}
    /\ phase # "collect" => job.buffer # ipgIndex

Batch ==
    /\ used = [p \in Params |-> Of(Uses(p), 1)]
    /\ \A p \in Params : Uses(p) \subseteq 1 .. (IF phase = "idle" THEN microSteps ELSE ThisStep)
    /\ config.offload /\ phase \notin {"idle", "ended"} => \A p \in Params : ThisStep \in Uses(p)
    /\ phase = "backward" => \A p \in unready : ThisStep \in Uses(p)
    /\ config.stage = 1 => mem.cpu = Zeros
    /\ mem.overflow => bad # {}

(* The gradient of p has yet to be averaged and kept: s says which micro-
   steps it has. *)
Waits(m, p, s) ==
    /\ m.grad[p] = Of(s, 0)
    /\ ~config.offload => m.kept[p] = Of(Old(p), 1)
    /\ config.offload =>
           /\ Begun > 0 => OnCpu(m, p) = Of(Old(p), 1)
           /\ Begun = 0 \/ config.gas = 1 => Old(p) = {}
Fresh(p) == IF phase = "backward" /\ p \in unready THEN New(p) \ {ThisStep} ELSE New(p)

(* It is where the step will look for it. *)
StoredOnCpu(m, p) ==
    IF Boundary
    THEN m.fp32[p] = Of(Uses(p), 1) /\ (Overflows(p, m.fp32[p]) => m.overflow)
    ELSE OnCpu(m, p) = Of(Uses(p), 1)
Done(m, p) ==
    IF config.offload THEN StoredOnCpu(m, p)
    ELSE m.grad[p] = Of(New(p), 1) /\ m.kept[p] = Of(Old(p), 1)
Ready(m, p) ==
    /\ m.grad[p] = NoGrad
    /\ IF config.offload THEN StoredOnCpu(m, p) ELSE m.kept[p] = Of(Uses(p), 1)

Values ==
    phase # "ended" => \A p \in Owned :
        IF AllWait THEN Waits(mem, p, Fresh(p))
        ELSE IF phase = "step" THEN Ready(mem, p)
        ELSE IF p \in Pending THEN Waits(mem, p, Fresh(p)) ELSE Done(mem, p)

IInv == Types /\ Lists /\ Phases /\ Buffers /\ Batch /\ Values

----------------------------------------------------------------------------
LEMMA OwnedIs == Owned \subseteq Params
BY DEF Owned, ParamsInPartition, Params

LEMMA NewAndOld ==
    ASSUME NEW p
    PROVE  New(p) \cup Old(p) = Uses(p) /\ New(p) \cap Old(p) = {}
BY DEF New, Old

(* What a job places is done, and it disturbs nothing else. *)
LEMMA PlacedIsDone ==
    ASSUME NEW m, NEW r, NEW p, Finished(m, r, p), r.kept = m.kept,
           Typed, phase # "idle", microStep \in Int, microStep >= 0, Waits(m, p, New(p))
    PROVE  Done(r, p)
<1> DEFINE g == Averaged(m.grad[p])
<1>1. g = Of(New(p), 1)  BY OfAveraged DEF Waits
<1>2. config.offload => Accumulated(m, p, g) = Of(Uses(p), 1)
  <2>1. Begun = microStep  BY DEF Begun
  <2>2. CASE config.offload /\ config.gas > 1 /\ microStep > 0
    <3>1. Accumulated(m, p, g) = Of(New(p), 1) (+) Of(Old(p), 1)
      BY <1>1, <2>1, <2>2 DEF Accumulated, Waits
    <3>2. Of(New(p), 1) (+) Of(Old(p), 1) = Of(New(p) \cup Old(p), 1)
      BY NewAndOld, OfBoth
    <3> QED  BY <3>1, <3>2, NewAndOld
  <2>3. CASE config.offload /\ ~(config.gas > 1 /\ microStep > 0)
    <3>1. config.gas = 1 \/ microStep = 0  BY <2>3 DEF Typed, ConfigOK
    <3>2. Old(p) = {}  BY <2>1, <2>3, <3>1 DEF Waits
    <3>3. Accumulated(m, p, g) = g  BY <2>3 DEF Accumulated
    <3> QED  BY <1>1, <3>2, <3>3, NewAndOld
  <2> QED  BY <2>2, <2>3
<1> HIDE DEF g
<1>4. CASE ~config.offload
  <2>1. r.grad[p] = g /\ m.kept[p] = Of(Old(p), 1)
    BY <1>4 DEF Finished, Waits, g
  <2> QED  BY <1>1, <1>4, <2>1 DEF Done
<1>5. CASE config.offload /\ Boundary
  <2>1. r.fp32[p] = Accumulated(m, p, g) /\ (Overflows(p, r.fp32[p]) => r.overflow)
    BY <1>5 DEF Finished, g
  <2> QED  BY <1>2, <1>5, <2>1 DEF Done, StoredOnCpu
<1>6. CASE config.offload /\ ~Boundary
  <2>1. OnCpu(r, p) = Accumulated(m, p, g)  BY <1>6 DEF Finished, g
  <2> QED  BY <1>2, <1>6, <2>1 DEF Done, StoredOnCpu
<1> QED  BY <1>4, <1>5, <1>6

LEMMA OthersStay ==
    ASSUME NEW m, NEW r, NEW p, NEW s, Same(m, r, p), r.kept = m.kept,
           m.overflow => r.overflow
    PROVE  /\ Waits(m, p, s) => Waits(r, p, s)
           /\ Done(m, p) => Done(r, p)
<1>1. OnCpu(r, p) = OnCpu(m, p)  BY DEF OnCpu, Same
<1> QED  BY <1>1 DEF Same, Waits, Done, StoredOnCpu

LEMMA JobValues ==
    ASSUME NEW m, NEW r, NEW list \in Seq(Params), JobDone(m, r, list, Len(list)),
           NEW p \in Owned,
           Typed, phase # "idle", microStep \in Int, microStep >= 0
    PROVE  /\ p \in Range(list) /\ Waits(m, p, New(p)) => Done(r, p)
           /\ p \notin Range(list) => /\ \A s : Waits(m, p, s) => Waits(r, p, s)
                                      /\ Done(m, p) => Done(r, p)
<1>1. p \in Params  BY OwnedIs
<1>2. \A i \in 1 .. Len(list) : list[i] \in Range(list)  BY DEF Range
<1>3. p \in Range(list) => \E i \in 1 .. Len(list) : list[i] = p  BY DEF Range
<1>4. CASE p \in Range(list)
  <2>1. Finished(m, r, p)  BY <1>3, <1>4 DEF JobDone
  <2>2. r.kept = m.kept  BY DEF JobDone
  <2> QED  BY <1>4, <2>1, <2>2, PlacedIsDone
<1>5. CASE p \notin Range(list)
  <2>1. Same(m, r, p)  BY <1>1, <1>2, <1>5 DEF JobDone
  <2>2. r.kept = m.kept /\ (m.overflow => r.overflow)  BY DEF JobDone
  <2> QED  BY <1>5, <2>1, <2>2, OthersStay
<1> QED  BY <1>4, <1>5

----------------------------------------------------------------------------
(* A bucket that is filled. *)
LEMMA RangeAppend ==
    ASSUME NEW list \in Seq(Params), NEW p
    PROVE  Range(Append(list, p)) = Range(list) \cup {p}
<1> DEFINE l == Append(list, p)
<1>1. /\ DOMAIN l = 1 .. Len(list) + 1 /\ l[Len(list) + 1] = p
      /\ \A i \in 1 .. Len(list) : l[i] = list[i]
      /\ DOMAIN list = 1 .. Len(list) /\ Len(list) \in Nat
  OBVIOUS
<1> HIDE DEF l
<1>2. Range(l) \subseteq Range(list) \cup {p}  BY <1>1 DEF Range
<1>3. p \in Range(l) /\ Range(list) \subseteq Range(l)  BY <1>1 DEF Range
<1> QED  BY <1>2, <1>3 DEF l

LEMMA OnceAppend ==
    ASSUME NEW list \in Seq(Params), Once(list), NEW p, p \notin Range(list)
    PROVE  Once(Append(list, p))
<1> DEFINE l == Append(list, p)
<1>1. /\ DOMAIN l = 1 .. Len(list) + 1 /\ l[Len(list) + 1] = p
      /\ \A i \in 1 .. Len(list) : l[i] = list[i]
      /\ DOMAIN list = 1 .. Len(list) /\ Len(list) \in Nat
  OBVIOUS
<1>2. \A i \in 1 .. Len(list) : list[i] # p /\ i \in DOMAIN list
  BY <1>1 DEF Range
<1> HIDE DEF l
<1> SUFFICES ASSUME NEW x \in DOMAIN l, NEW y \in DOMAIN l, l[x] = l[y]
             PROVE  x = y
  BY DEF Once, l
<1>3. x \in 1 .. Len(list) \/ x = Len(list) + 1  BY <1>1
<1>4. y \in 1 .. Len(list) \/ y = Len(list) + 1  BY <1>1
<1> QED  BY <1>1, <1>2, <1>3, <1>4 DEF Once

(* What the buffers must be like, with the bucket and the buffer in use. *)
Filled(buffers, index, list, big) ==
    /\ DOMAIN buffers = {0, 1}
    /\ \A k \in {0, 1} : buffers[k] = [c \in 0 .. config.bucketSize - 1 |-> buffers[k][c]]
    /\ big # None => list = <<big>> /\ Numel(big) > config.bucketSize
    /\ big = None => /\ Elements(list) <= config.bucketSize
                     /\ \A i \in DOMAIN list : \A c \in CellsOf(list, i) :
                            buffers[index][c] = list[i]

LEMMA PutIntoFills ==
    ASSUME Typed, NEW index \in {0, 1}, NEW list \in Seq(Params), NEW p \in Params,
           Once(list), p \notin Range(list), Filled(ipg, index, list, None),
           list = << >> \/ (large = None /\ Elements(list) + Numel(p) <= config.bucketSize),
           PutInto(index, list, p)
    PROVE  /\ bucket' = Append(list, p) /\ bucket' \in Seq(Params) /\ Once(bucket')
           /\ Range(bucket') = Range(list) \cup {p}
           /\ Filled(ipg', index, bucket', large')
           /\ \A k \in {0, 1} : k # index => ipg'[k] = ipg[k]
<1> DEFINE l == Append(list, p)
<1>1. /\ bucket' = l /\ l \in Seq(Params) /\ Once(l) /\ Range(l) = Range(list) \cup {p}
  BY RangeAppend, OnceAppend DEF PutInto
<1>2. /\ Numel(p) \in Nat \ {0} /\ p \in Nat \ {0}
      /\ Elements(list) \in Nat /\ config.bucketSize \in Nat
  BY NumelIs, ElementsIsNat DEF Typed, ConfigOK
<1>3. list = << >> => Elements(list) = 0  BY ElementsEmpty
<1>4. CASE Numel(p) > config.bucketSize
  <2>1. list = << >>  BY <1>2, <1>4
  <2>2. large' = p /\ ipg' = ipg /\ l = <<p>>  BY <1>4, <2>1 DEF PutInto
  <2>3. Filled(ipg', index, l, large')  BY <1>2, <1>4, <2>2 DEF Filled, None
  <2> QED  BY <1>1, <2>2, <2>3
<1>5. CASE ~(Numel(p) > config.bucketSize)
  <2> DEFINE cells == CellsOf(l, Len(list) + 1)
             buffer == [c \in DOMAIN ipg[index] |-> IF c \in cells THEN p ELSE ipg[index][c]]
  <2>1. large' = None /\ ipg' = [ipg EXCEPT ![index] = buffer]
    BY <1>5 DEF PutInto
  <2>2. Elements(list) + Numel(p) <= config.bucketSize /\ Elements(l) = Elements(list) + Numel(p)
    BY <1>2, <1>3, <1>5, ElementsAppend
  <2>3. /\ cells = Elements(list) .. Elements(list) + Numel(p) - 1
        /\ \A i \in 1 .. Len(list) : CellsOf(l, i) = CellsOf(list, i)
                                     /\ CellsOf(list, i) \subseteq 0 .. Elements(list) - 1
    BY CellsAppend
  <2>4. /\ DOMAIN ipg = {0, 1} /\ DOMAIN ipg[index] = 0 .. config.bucketSize - 1
        /\ \A k \in {0, 1} : ipg[k] = [c \in 0 .. config.bucketSize - 1 |-> ipg[k][c]]
    BY DEF Filled
  <2> HIDE DEF buffer
  <2>5. /\ DOMAIN ipg' = {0, 1} /\ ipg'[index] = buffer
        /\ \A k \in {0, 1} : k # index => ipg'[k] = ipg[k]
    BY <2>1, <2>4
  <2>6. /\ buffer = [c \in 0 .. config.bucketSize - 1 |-> buffer[c]]
        /\ \A c \in 0 .. config.bucketSize - 1 :
               buffer[c] = IF c \in cells THEN p ELSE ipg[index][c]
    BY <2>4 DEF buffer
  <2>7. \A k \in {0, 1} : ipg'[k] = [c \in 0 .. config.bucketSize - 1 |-> ipg'[k][c]]
    <3> SUFFICES ASSUME NEW k \in {0, 1}
                 PROVE  ipg'[k] = [c \in 0 .. config.bucketSize - 1 |-> ipg'[k][c]]
      OBVIOUS
    <3>1. CASE k = index  BY <2>5, <2>6, <3>1
    <3>2. CASE k # index  BY <2>4, <2>5, <3>2
    <3> QED  BY <3>1, <3>2
  <2>8. ASSUME NEW i \in DOMAIN l, NEW c \in CellsOf(l, i) PROVE ipg'[index][c] = l[i]
    <3>1. i \in 1 .. Len(list) + 1  OBVIOUS
    <3>2. CASE i = Len(list) + 1
      <4>1. c \in cells /\ c \in 0 .. config.bucketSize - 1 /\ l[i] = p
        BY <1>2, <2>2, <2>3, <2>8, <3>2
      <4> QED  BY <2>5, <2>6, <4>1
    <3>3. CASE i \in 1 .. Len(list)
      <4>1. c \in CellsOf(list, i) /\ c \in 0 .. Elements(list) - 1 /\ l[i] = list[i]
        BY <2>3, <2>8, <3>3
      <4>2. c \notin cells /\ c \in 0 .. config.bucketSize - 1
        BY <1>2, <2>2, <2>3, <4>1
      <4>3. ipg[index][c] = list[i]  BY <3>3, <4>1 DEF Filled
      <4> QED  BY <2>5, <2>6, <4>1, <4>2, <4>3
    <3> QED  BY <3>1, <3>2, <3>3
  <2> HIDE DEF l
  <2>9. Filled(ipg', index, l, large')
    BY <2>1, <2>2, <2>5, <2>7, <2>8 DEF Filled
  <2> QED  BY <1>1, <2>5, <2>9 DEF l
<1> QED  BY <1>4, <1>5

----------------------------------------------------------------------------
(* No assertion of a reduction fails. *)
LEMMA LaunchSucceeds ==
    ASSUME Lists, Buffers
    PROVE  ~LaunchFails
<1>1. large # None => bucket = <<large>>  BY DEF Buffers
<1>2. \A i \in DOMAIN bucket : bucket[i] \in Range(bucket)  BY DEF Range
<1>3. Range(bucket) \cap reduced = {}  BY DEF Lists
<1> QED  BY <1>1, <1>2, <1>3 DEF LaunchFails

LEMMA ReduceSucceeds ==
    ASSUME Typed, Lists, Buffers, NEW p \in unready
    PROVE  ~ReduceFails(p)
<1>1. ~LaunchFails /\ p \notin reduced /\ p \in Params
  BY LaunchSucceeds DEF Lists
<1>2. Cardinality(DOMAIN ipg[0]) = config.bucketSize
  <2>1. DOMAIN ipg[0] = 0 .. config.bucketSize - 1 /\ config.bucketSize \in Nat
    BY DEF Buffers, Typed, ConfigOK
  <2>2. Cardinality(0 .. config.bucketSize - 1) = config.bucketSize
    BY <2>1, FS_Interval
  <2> QED  BY <2>1, <2>2
<1>3. /\ Numel(p) \in Nat /\ Elements(bucket) \in Nat /\ config.bucketSize \in Nat
  BY <1>1, NumelIs, ElementsIsNat DEF Lists, Typed, ConfigOK
<1> QED  BY <1>1, <1>2, <1>3 DEF ReduceFails, BucketIsFull

(* A job that starts has what it needs. *)
LEMMA BucketedIsIntact ==
    ASSUME Buffers
    PROVE  \A i \in DOMAIN bucket : Intact(Bucketed, i)
BY DEF Buffers, Bucketed, Intact

LEMMA LaunchDoes ==
    ASSUME Lists, Buffers, NEW m, MemOK(m)
    PROVE  JobDone(m, RunJob(m, Bucketed), bucket, Len(bucket))
<1>1. /\ Bucketed.params = bucket /\ bucket \in Seq(Params)
      /\ \A x, y \in DOMAIN bucket : bucket[x] = bucket[y] => x = y
      /\ \A i \in DOMAIN bucket : Intact(Bucketed, i)
  BY BucketedIsIntact DEF Bucketed, Lists, Once
<1> QED  BY <1>1, JobFields

----------------------------------------------------------------------------
(* A gradient is put into the bucket, the bucket goes if it was full. *)
LEMMA BuffersNext ==
    ASSUME config' = config, ipgIndex' \in {0, 1}, Filled(ipg', ipgIndex', bucket', large'),
           job' = NoJob \/ \A i \in DOMAIN job'.params :
               \/ job'.large # None
               \/ \A c \in CellsOf(job'.params, i) : ipg'[job'.buffer][c] = job'.params[i],
           job' # NoJob => job'.buffer \in {0, 1},
           phase' # "collect" => job'.buffer # ipgIndex'
    PROVE  Buffers'
<1>1. /\ DOMAIN ipg' = {0, 1}
      /\ \A k \in {0, 1} : ipg'[k] = [c \in 0 .. config'.bucketSize - 1 |-> ipg'[k][c]]
  BY DEF Filled
<1>2. large' # None => bucket' = <<large'>> /\ Numel(large)' > config'.bucketSize
  BY DEF Filled, Numel
<1>3. large' = None => /\ Elements(bucket)' <= config'.bucketSize
                       /\ \A i \in DOMAIN bucket' : \A c \in CellsOf(bucket, i)' :
                              ipg'[ipgIndex'][c] = bucket'[i]
  BY DEF Filled, Elements, Numel, CellsOf
<1>4. \A i \in DOMAIN job'.params : Intact(job, i)'
  <2>1. CASE job' = NoJob
    <3>1. DOMAIN job'.params = {}  BY <2>1 DEF NoJob
    <3> QED  BY <3>1
  <2>2. CASE job' # NoJob  BY <2>2 DEF Intact, Elements, Numel, CellsOf
  <2> QED  BY <2>1, <2>2
<1> QED  BY <1>1, <1>2, <1>3, <1>4 DEF Buffers, None

LEMMA NotFull ==
    ASSUME Typed, Lists, Buffers, NEW p \in Params, ~BucketIsFull(p)
    PROVE  large = None /\ Elements(bucket) + Numel(p) <= config.bucketSize
<1>1. Numel(p) \in Nat /\ Elements(bucket) \in Nat /\ config.bucketSize \in Nat
  BY NumelIs, ElementsIsNat DEF Lists, Typed, ConfigOK
<1>2. Elements(bucket) + Numel(p) <= config.bucketSize
  BY <1>1 DEF BucketIsFull
<1>3. ASSUME large # None PROVE FALSE
  <2>1. bucket = <<large>> /\ Numel(large) > config.bucketSize
    BY <1>3 DEF Buffers
  <2>2. large \in Params
    <3>1. bucket[1] = large /\ 1 \in 1 .. Len(bucket)  BY <2>1
    <3>2. bucket \in Seq(Params)  BY DEF Lists
    <3>3. bucket[1] \in Params  BY <3>1, <3>2
    <3> QED  BY <3>1, <3>3
  <2>3. << >> \in Seq(Params) /\ Append(<< >>, large) = bucket  BY <2>1
  <2>4. Elements(bucket) = Elements(<< >>) + Numel(large)
    BY <2>2, <2>3, ElementsAppend
  <2>5. Numel(large) \in Nat  BY <2>2, NumelIs
  <2> QED  BY <1>1, <1>2, <2>1, <2>4, <2>5, ElementsEmpty
<1> QED  BY <1>2, <1>3

Busy == phase \in {"backward", "reduce"} /\ ~Settled

LEMMA PutsOne ==
    ASSUME Typed, Lists, Phases, Buffers, Busy, NEW p \in unready, NEW m, ReduceParam(p, m),
           config' = config, phase' = phase, unready' = unready \ {p}
    PROVE  /\ Lists' /\ Buffers'
           /\ ~config.overlap => job' = NoJob
           /\ BucketIsFull(p) => job = NoJob
           /\ Range(bucket') = IF BucketIsFull(p) THEN {p} ELSE Range(bucket) \cup {p}
<1>1. p \in Params /\ p \notin Range(bucket) /\ Params' = Params
  BY DEF Lists, Params
<1>2. phase' # "collect" /\ phase # "collect"  BY DEF Busy
<1>3. Filled(ipg, ipgIndex, bucket, large)  BY DEF Buffers, Filled
<1>4. CASE BucketIsFull(p)
  <2>1. /\ MayReduce /\ reduced' = reduced \cup Range(bucket) /\ ipgIndex' = OtherBuffer
        /\ job' = (IF config.overlap THEN Bucketed ELSE NoJob)
        /\ PutInto(OtherBuffer, << >>, p)
    BY <1>4 DEF ReduceParam, Launch
  <2>2. job = NoJob  BY <2>1 DEF MayReduce, Phases
  <2>3. OtherBuffer \in {0, 1} /\ (config.overlap => OtherBuffer # ipgIndex)
    BY DEF OtherBuffer, Buffers
  <2>4. /\ << >> \in Seq(Params) /\ Once(<< >>) /\ Range(<< >>) = {}
        /\ Filled(ipg, OtherBuffer, << >>, None)
    <3>1. config.bucketSize \in Nat  BY DEF Typed, ConfigOK
    <3> QED  BY <1>3, <3>1, ElementsEmpty DEF Filled, Once, Range
  <2>5. /\ bucket' = Append(<< >>, p) /\ bucket' \in Seq(Params) /\ Once(bucket')
        /\ Range(bucket') = {p}
        /\ Filled(ipg', OtherBuffer, bucket', large')
        /\ \A k \in {0, 1} : k # OtherBuffer => ipg'[k] = ipg[k]
    <3> DEFINE e == << >>
    <3>1. /\ e \in Seq(Params) /\ Once(e) /\ Range(e) = {} /\ p \notin Range(e)
          /\ Filled(ipg, OtherBuffer, e, None) /\ PutInto(OtherBuffer, e, p) /\ e = << >>
      BY <2>1, <2>4
    <3> HIDE DEF e
    <3>2. /\ bucket' = Append(e, p) /\ bucket' \in Seq(Params) /\ Once(bucket')
          /\ Range(bucket') = Range(e) \cup {p}
          /\ Filled(ipg', OtherBuffer, bucket', large')
          /\ \A k \in {0, 1} : k # OtherBuffer => ipg'[k] = ipg[k]
      BY ONLY Typed, <1>1, <2>3, <3>1, PutIntoFills
    <3> QED  BY ONLY <3>1, <3>2
  <2>6. /\ job'.params = IF config.overlap THEN bucket ELSE << >>
        /\ job'.buffer = IF config.overlap THEN ipgIndex ELSE -1
        /\ job'.large = IF config.overlap THEN large ELSE None
    BY <2>1 DEF Bucketed, NoJob
  <2>7. Lists'
    <3>1. job'.params \in Seq(Params) /\ Once(job'.params)
      BY <2>4, <2>6 DEF Lists
    <3>2. Range(job'.params) \subseteq Range(bucket)  BY <2>4, <2>6
    <3>3. /\ unready \subseteq Params /\ unready \cap Range(bucket) = {}
          /\ unready \cap reduced = {} /\ Range(bucket) \cap reduced = {}
      BY DEF Lists
    <3>4. /\ unready' \cap Range(bucket') = {} /\ unready' \cap Range(job'.params) = {}
          /\ Range(bucket') \cap Range(job'.params) = {}
          /\ (unready' \cup Range(bucket')) \cap reduced' = {}
          /\ Range(job'.params) \subseteq reduced' /\ unready' \subseteq Params
      BY <1>1, <2>1, <2>5, <3>2, <3>3
    <3> QED  BY <1>1, <2>5, <3>1, <3>4 DEF Lists
  <2>8. Buffers'
    <3>1. \/ job' = NoJob
          \/ \A i \in DOMAIN job'.params :
               \/ job'.large # None
               \/ \A c \in CellsOf(job'.params, i) : ipg'[job'.buffer][c] = job'.params[i]
      <4>1. CASE config.overlap
        <5>1. ipg'[ipgIndex] = ipg[ipgIndex]  BY <2>3, <2>5, <4>1 DEF Buffers
        <5> QED  BY <1>3, <2>6, <4>1, <5>1 DEF Filled
      <4>2. CASE ~config.overlap  BY <2>1, <4>2
      <4> QED  BY <4>1, <4>2
    <3>2. job' # NoJob => job'.buffer \in {0, 1}  BY <2>1, <2>6 DEF Buffers
    <3>3. job'.buffer # ipgIndex'  BY <2>1, <2>3, <2>6
    <3> QED  BY <2>1, <2>3, <2>5, <3>1, <3>2, <3>3, BuffersNext
  <2> QED  BY <1>4, <2>1, <2>2, <2>5, <2>7, <2>8
<1>5. CASE ~BucketIsFull(p)
  <2>1. /\ PutInto(ipgIndex, bucket, p)
        /\ reduced' = reduced /\ ipgIndex' = ipgIndex /\ job' = job
    BY <1>5 DEF ReduceParam
  <2>2. large = None /\ Elements(bucket) + Numel(p) <= config.bucketSize
    BY <1>1, <1>5, NotFull
  <2>3. ipgIndex \in {0, 1} /\ bucket \in Seq(Params) /\ Once(bucket)
    BY DEF Lists, Buffers
  <2>4. Filled(ipg, ipgIndex, bucket, None)  BY <1>3, <2>2
  <2>5. /\ bucket' = Append(bucket, p) /\ bucket' \in Seq(Params) /\ Once(bucket')
        /\ Range(bucket') = Range(bucket) \cup {p}
        /\ Filled(ipg', ipgIndex, bucket', large')
        /\ \A k \in {0, 1} : k # ipgIndex => ipg'[k] = ipg[k]
    BY <1>1, <2>1, <2>2, <2>3, <2>4, PutIntoFills
  <2>6. Lists'
    <3>1. /\ unready \subseteq Params /\ job.params \in Seq(Params) /\ Once(job.params)
          /\ unready \cap Range(bucket) = {} /\ unready \cap Range(job.params) = {}
          /\ Range(bucket) \cap Range(job.params) = {}
          /\ (unready \cup Range(bucket)) \cap reduced = {}
          /\ Range(job.params) \subseteq reduced
      BY <1>2 DEF Lists
    <3>2. /\ unready' \cap Range(bucket') = {} /\ unready' \cap Range(job.params) = {}
          /\ Range(bucket') \cap Range(job.params) = {}
          /\ (unready' \cup Range(bucket')) \cap reduced = {} /\ unready' \subseteq Params
      BY <1>1, <2>5, <3>1
    <3> QED  BY <1>1, <2>1, <2>5, <3>1, <3>2 DEF Lists
  <2>7. Buffers'
    <3>1. \/ job' = NoJob
          \/ \A i \in DOMAIN job'.params :
               \/ job'.large # None
               \/ \A c \in CellsOf(job'.params, i) : ipg'[job'.buffer][c] = job'.params[i]
      <4> SUFFICES ASSUME job # NoJob, job.large = None, NEW i \in DOMAIN job.params,
                          NEW c \in CellsOf(job.params, i)
                   PROVE  ipg'[job.buffer][c] = job.params[i]
        BY <2>1
      <4>1. job.buffer \in {0, 1} /\ job.buffer # ipgIndex  BY <1>2 DEF Buffers
      <4>2. ipg'[job.buffer] = ipg[job.buffer]  BY <2>5, <4>1
      <4>3. ipg[job.buffer][c] = job.params[i]  BY DEF Buffers, Intact
      <4> QED  BY <4>2, <4>3
    <3>2. (job' # NoJob => job'.buffer \in {0, 1}) /\ job'.buffer # ipgIndex'
      BY <1>2, <2>1 DEF Buffers
    <3> QED  BY <2>1, <2>3, <2>5, <3>1, <3>2, BuffersNext
  <2>8. ~config.overlap => job' = NoJob  BY <2>1 DEF Phases
  <2> QED  BY <1>5, <2>5, <2>6, <2>7, <2>8
<1> QED  BY <1>4, <1>5

----------------------------------------------------------------------------
(* The values between a backward pass and the collection. *)
MidValues(m, U, P) ==
    \A q \in Owned :
        IF q \in P
        THEN Waits(m, q, IF phase = "backward" /\ q \in U THEN New(q) \ {ThisStep} ELSE New(q))
        ELSE Done(m, q)

Middle == phase \in {"backward", "reduce", "flush", "collect"} /\ ~Settled

LEMMA ValuesAreMid ==
    ASSUME Middle
    PROVE  Values <=> MidValues(mem, unready, Pending)
<1>1. phase # "ended" /\ phase # "step" /\ ~AllWait
  BY DEF Middle, Settled, AllWait
<1> QED  BY <1>1 DEF Values, MidValues, Fresh

Still == /\ config' = config /\ microSteps' = microSteps /\ microStep' = microStep
         /\ used' = used /\ bad' = bad

LEMMA StillIs ==
    ASSUME Still
    PROVE  /\ Owned' = Owned /\ Boundary' = Boundary /\ ThisStep' = ThisStep /\ Params' = Params
           /\ \A q : New(q)' = New(q) /\ Old(q)' = Old(q) /\ Uses(q)' = Uses(q)
           /\ \A q, g : Overflows(q, g)' = Overflows(q, g)
           /\ \A q, m : OnCpu(m, q)' = OnCpu(m, q)
<1>1. \A q : Uses(q)' = Uses(q)  BY DEF Still, Uses
<1>2. ThisStep' = ThisStep /\ config' = config  BY DEF Still, ThisStep
<1>3. \A q : New(q)' = New(q)  BY <1>1, <1>2 DEF New
<1>4. \A q : Old(q)' = Old(q)  BY <1>1, <1>3 DEF Old
<1>5. Owned' = Owned /\ Boundary' = Boundary /\ Params' = Params
  BY DEF Still, Owned, Boundary, Params
<1>6. \A q, g : Overflows(q, g)' = Overflows(q, g)  BY DEF Still, Overflows
<1>7. \A q, m : OnCpu(m, q)' = OnCpu(m, q)  BY DEF Still, OnCpu
<1> QED  BY <1>1, <1>2, <1>3, <1>4, <1>5, <1>6, <1>7

LEMMA MidNext ==
    ASSUME Still, Middle, phase' = phase, MidValues(mem', unready', Pending')
    PROVE  Values'
<1>1. Middle'  BY DEF Middle, Settled, Still
<1>2. phase' # "ended" /\ phase' # "step" /\ ~AllWait'
  BY <1>1 DEF Middle, Settled, AllWait
<1>3. phase # "idle" /\ phase' # "idle" /\ Begun' = Begun
  BY DEF Middle, Settled, Begun, Still
<1> SUFFICES ASSUME NEW q \in Owned
             PROVE  IF q \in Pending' THEN Waits(mem, q, Fresh(q))' ELSE Done(mem, q)'
  BY <1>2, StillIs DEF Values
<1>4. CASE q \in Pending'
  <2>1. Fresh(q)' = IF phase = "backward" /\ q \in unready' THEN New(q) \ {ThisStep} ELSE New(q)
    BY StillIs DEF Fresh
  <2>2. Waits(mem', q, Fresh(q)')  BY <1>4, <2>1 DEF MidValues
  <2>3. Waits(mem, q, Fresh(q))'
    BY <1>3, <2>2, StillIs DEF Waits, OnCpu, Still
  <2> QED  BY <1>4, <2>3
<1>5. CASE q \notin Pending'
  <2>1. Done(mem', q)  BY <1>5 DEF MidValues
  <2>2. Done(mem, q)'
    BY <2>1, StillIs DEF Done, StoredOnCpu, OnCpu, Overflows, Still
  <2> QED  BY <1>5, <2>2
<1> QED  BY <1>4, <1>5

(* A gradient that was put into the bucket waits, or its job is done. *)
LEMMA PutsValues ==
    ASSUME Types, Lists, Phases, Buffers, Busy, NEW p \in unready, NEW m, MemOK(m),
           ReduceParam(p, m), config' = config, phase' = phase, unready' = unready \ {p},
           MidValues(m, unready \ {p}, Pending)
    PROVE  /\ MidValues(mem', unready', Pending') /\ MemOK(mem')
           /\ mem'.overflow => m.overflow \/ bad # {}
           /\ config.stage = 1 => mem'.cpu = m.cpu
<1>1. /\ Typed /\ phase # "idle" /\ microStep \in Int /\ microStep >= 0
  BY DEF Types, Busy
<1>2. /\ BucketIsFull(p) => job = NoJob
      /\ Range(bucket') = IF BucketIsFull(p) THEN {p} ELSE Range(bucket) \cup {p}
  BY <1>1, PutsOne
<1>3. config.stage = 1 => Boundary  BY DEF Busy, Settled, Phases
<1>4. Range(NoJob.params) = {}  BY DEF NoJob, Range
<1>5. CASE ~BucketIsFull(p) \/ config.overlap
  <2>1. mem' = m  BY <1>5 DEF ReduceParam, Launch
  <2>2. Pending' = Pending
    <3>1. CASE ~BucketIsFull(p)
      <4>1. job' = job  BY <3>1 DEF ReduceParam
      <4> QED  BY <1>2, <3>1, <4>1 DEF Pending
    <3>2. CASE BucketIsFull(p) /\ config.overlap
      <4>1. job' = Bucketed /\ Bucketed.params = bucket /\ job = NoJob
        BY <1>2, <3>2 DEF ReduceParam, Launch, Bucketed
      <4> QED  BY <1>2, <1>4, <3>2, <4>1 DEF Pending
    <3> QED  BY <1>5, <3>1, <3>2
  <2> QED  BY <2>1, <2>2
<1>6. CASE BucketIsFull(p) /\ ~config.overlap
  <2>1. mem' = RunJob(m, Bucketed) /\ job' = NoJob /\ job = NoJob
    BY <1>2, <1>6 DEF ReduceParam, Launch
  <2>2. JobDone(m, mem', bucket, Len(bucket)) /\ bucket \in Seq(Params)
    BY <2>1, LaunchDoes DEF Lists
  <2>3. Pending' = unready /\ Pending = unready \cup Range(bucket)
    BY <1>2, <1>4, <1>6, <2>1 DEF Pending
  <2>4. unready \cap Range(bucket) = {}  BY DEF Lists
  <2>5. ASSUME NEW q \in Owned
        PROVE  IF q \in unready
               THEN Waits(mem', q, IF phase = "backward" /\ q \in unready' THEN New(q) \ {ThisStep}
                                   ELSE New(q))
               ELSE Done(mem', q)
    <3>1. /\ q \in Range(bucket) /\ Waits(m, q, New(q)) => Done(mem', q)
          /\ q \notin Range(bucket) => /\ \A s : Waits(m, q, s) => Waits(mem', q, s)
                                       /\ Done(m, q) => Done(mem', q)
      BY <1>1, <2>2, JobValues
    <3>2. IF q \in Pending
          THEN Waits(m, q, IF phase = "backward" /\ q \in unready \ {p} THEN New(q) \ {ThisStep}
                           ELSE New(q))
          ELSE Done(m, q)
      BY DEF MidValues
    <3>3. CASE q \in unready  BY <2>3, <2>4, <3>1, <3>2, <3>3
    <3>4. CASE q \in Range(bucket)  BY <2>3, <2>4, <3>1, <3>2, <3>4
    <3>5. CASE q \notin unready /\ q \notin Range(bucket)
      BY <2>3, <3>1, <3>2, <3>5
    <3> QED  BY <3>3, <3>4, <3>5
  <2>6. MidValues(mem', unready', Pending')  BY <2>3, <2>5 DEF MidValues
  <2> QED  BY <1>3, <2>2, <2>6 DEF JobDone
<1> QED  BY <1>5, <1>6

----------------------------------------------------------------------------
(* What does not depend on the way of a gradient. *)
LEMMA MemNext ==
    ASSUME config' = config, MemOK(mem')
    PROVE  MemOK(mem)'
BY DEF MemOK, Params

(* What is to be shown of a step. *)
LEMMA TypesNext ==
    ASSUME Types, config' = config, phase' = phase, microSteps' = microSteps,
           microStep' = microStep, calm' = calm, MemOK(mem')
    PROVE  Types'
BY MemNext DEF Types, Typed

LEMMA BatchNext ==
    ASSUME Batch, Still, phase' = phase, unready' \subseteq unready,
           mem'.overflow => bad # {}, config.stage = 1 => mem'.cpu = Zeros
    PROVE  Batch'
<1>1. Zeros' = Zeros  BY DEF Still, Zeros, Params
<1> QED  BY <1>1, StillIs DEF Batch, Still

LEMMA PhasesNext ==
    ASSUME Phases, config' = config, microSteps' = microSteps, phase' = phase, Busy,
           ~config.overlap => job' = NoJob
    PROVE  Phases'
<1>1. ~Settled /\ ~Settled' /\ phase \in {"backward", "reduce"}
  BY DEF Busy, Settled
<1>2. Boundary' = Boundary  BY DEF Boundary
<1> QED  BY <1>1, <1>2 DEF Phases

(* One more contribution to the gradient of p. *)
WithContribution(p) == [mem EXCEPT !.grad[p] = @ (+) Contribution(ThisStep)]

LEMMA ContributionFields ==
    ASSUME MemOK(mem), NEW p \in Params
    PROVE  LET m == WithContribution(p)
           IN  /\ MemOK(m) /\ m.kept = mem.kept /\ m.cpu = mem.cpu /\ m.fp32 = mem.fp32
               /\ m.overflow = mem.overflow
               /\ m.grad[p] = mem.grad[p] (+) Contribution(ThisStep)
               /\ \A q \in Params : q # p => m.grad[q] = mem.grad[q]
<1> DEFINE g == mem.grad[p] (+) Contribution(ThisStep)
           f == With(mem.grad, p, g)
           m == WithContribution(p)
<1>1. m = WithGrad(mem, f)  BY DEF WithContribution, WithGrad, With
<1>2. mem.grad = [q \in Params |-> mem.grad[q]]  BY DEF MemOK
<1> HIDE DEF g
<1>3. /\ f = [q \in Params |-> f[q]] /\ f[p] = g
      /\ \A q \in Params : q # p => f[q] = mem.grad[q]
  BY <1>2, WithIs
<1> HIDE DEF f, m
<1>4. /\ MemOK(m) /\ m.kept = mem.kept /\ m.cpu = mem.cpu /\ m.fp32 = mem.fp32
      /\ m.overflow = mem.overflow /\ m.grad = f
  <2>1. MemOK(m)  BY <1>1, <1>3, FieldsOK
  <2>2. m = [grad |-> f, kept |-> mem.kept, cpu |-> mem.cpu, fp32 |-> mem.fp32,
             overflow |-> mem.overflow]
    BY <1>1, Fields
  <2> QED  BY <2>1, <2>2
<1> QED  BY <1>3, <1>4 DEF m, g

----------------------------------------------------------------------------
LEMMA BuffersSame ==
    ASSUME Buffers, config' = config, bucket' = bucket, large' = large, ipg' = ipg,
           ipgIndex' = ipgIndex, job' = job, phase # "collect" \/ phase' = "collect"
    PROVE  Buffers'
<1>2. \A list, i : CellsOf(list, i)' = CellsOf(list, i)
  BY DEF CellsOf, Elements, Numel
<1>3. \A i \in DOMAIN job'.params : Intact(job, i)'
  BY <1>2 DEF Buffers, Intact
<1>4. Elements(bucket)' = Elements(bucket) /\ \A i : CellsOf(bucket, i)' = CellsOf(bucket, i)
  BY DEF CellsOf, Elements, Numel
<1>5. Numel(large)' = Numel(large)  BY DEF Numel
<1> QED  BY <1>3, <1>4, <1>5 DEF Buffers

LEMMA StageIs == Typed => config.stage \in {1, 2} /\ (Hooked <=> config.stage = 2)
BY DEF Typed, ConfigOK, Hooked

(* The gradient of p as autograd leaves it. *)
LEMMA ReadyGradient ==
    ASSUME Types, Batch, phase = "backward", NEW p \in unready, p \in Params,
           Waits(mem, p, Fresh(p))
    PROVE  Waits(WithContribution(p), p, New(p))
<1> DEFINE m == WithContribution(p)
<1>1. /\ m.kept = mem.kept /\ m.cpu = mem.cpu /\ m.fp32 = mem.fp32
      /\ m.grad[p] = mem.grad[p] (+) Contribution(ThisStep)
  BY ContributionFields DEF Types
<1>2. ThisStep \in New(p)  BY DEF Batch, New
<1>3. Fresh(p) = New(p) \ {ThisStep}  BY DEF Fresh
<1>4. mem.grad[p] = Of(New(p) \ {ThisStep}, 0) /\ Contribution(ThisStep) = Of({ThisStep}, 0)
  BY <1>3, OfOne DEF Waits
<1>5. Of(New(p) \ {ThisStep}, 0) (+) Of({ThisStep}, 0)
          = Of((New(p) \ {ThisStep}) \cup {ThisStep}, 0)
  <2>1. (New(p) \ {ThisStep}) \cap {ThisStep} = {}  OBVIOUS
  <2> QED  BY <2>1, OfBoth
<1>6. (New(p) \ {ThisStep}) \cup {ThisStep} = New(p)  BY <1>2
<1>7. m.grad[p] = Of(New(p), 0)  BY <1>1, <1>4, <1>5, <1>6
<1>8. OnCpu(m, p) = OnCpu(mem, p)  BY <1>1 DEF OnCpu
<1> HIDE DEF m
<1>9. Waits(m, p, New(p))  BY <1>1, <1>7, <1>8 DEF Waits
<1> QED  BY <1>9 DEF m

LEMMA OtherGradients ==
    ASSUME Types, NEW p \in Params, NEW q \in Owned, q # p, NEW s
    PROVE  /\ Waits(mem, q, s) => Waits(WithContribution(p), q, s)
           /\ Done(mem, q) => Done(WithContribution(p), q)
<1> DEFINE m == WithContribution(p)
<1>1. /\ m.kept = mem.kept /\ m.cpu = mem.cpu /\ m.fp32 = mem.fp32
      /\ m.overflow = mem.overflow
      /\ \A x \in Params : x # p => m.grad[x] = mem.grad[x]
  BY ContributionFields DEF Types
<1>2. q \in Params  BY OwnedIs
<1> HIDE DEF m
<1>3. Same(mem, m, q)  BY <1>1, <1>2 DEF Same
<1>4. /\ Waits(mem, q, s) => Waits(m, q, s)
      /\ Done(mem, q) => Done(m, q)
  BY <1>1, <1>3, OthersStay
<1> QED  BY <1>4 DEF m

(* Autograd produces a gradient; under stage 2 its hook puts it away. *)
LEMMA GradReadyKeeps ==
    ASSUME IInv, NEW p \in Params, GradReady(p)
    PROVE  IInv'
<1> DEFINE m == WithContribution(p)
<1>1. /\ phase = "backward" /\ p \in unready
      /\ Types /\ Typed /\ Lists /\ Phases /\ Buffers /\ Batch /\ Values
  BY DEF GradReady, IInv, Types
<1>2. ~ReduceFails(p)  BY <1>1, ReduceSucceeds
<1>3. /\ unready' = unready \ {p} /\ phase' = phase /\ calm' = calm /\ Still
      /\ Hooked => ReduceParam(p, m)
      /\ ~Hooked => mem' = m /\ UNCHANGED <<bucket, large, ipg, ipgIndex, reduced, job>>
  BY <1>1, <1>2 DEF GradReady, WithContribution, Still
<1>4. config.stage \in {1, 2} /\ (Hooked <=> config.stage = 2)
  BY <1>1, StageIs
<1>5. /\ MemOK(m) /\ m.overflow = mem.overflow /\ m.cpu = mem.cpu
  BY <1>1, ContributionFields DEF Types
<1>6. config' = config /\ microSteps' = microSteps /\ microStep' = microStep
  BY <1>3 DEF Still
<1>7. /\ mem.overflow => bad # {}
      /\ config.stage = 1 => mem.cpu = Zeros
  BY <1>1 DEF Batch
<1>8. p \in Pending  BY <1>1 DEF Pending
<1> HIDE DEF m
<1>9. CASE config.stage = 2
  <2>1. Busy /\ Middle  BY <1>1, <1>9 DEF Busy, Middle, Settled
  <2>2. ReduceParam(p, m)  BY <1>3, <1>4, <1>9
  <2>3. MidValues(mem, unready, Pending)  BY <1>1, <2>1, ValuesAreMid
  <2>4. MidValues(m, unready \ {p}, Pending)
    <3> SUFFICES ASSUME NEW q \in Owned
                 PROVE  IF q \in Pending
                        THEN Waits(m, q, IF phase = "backward" /\ q \in unready \ {p}
                                         THEN New(q) \ {ThisStep} ELSE New(q))
                        ELSE Done(m, q)
      BY DEF MidValues
    <3>1. CASE q = p
      <4>1. Waits(mem, p, New(p) \ {ThisStep})
        BY <1>1, <1>8, <2>3, <3>1 DEF MidValues
      <4>2. Waits(mem, p, Fresh(p))  BY <1>1, <4>1 DEF Fresh
      <4>3. Waits(m, p, New(p))  BY <1>1, <4>2, ReadyGradient DEF m
      <4> QED  BY <1>8, <3>1, <4>3
    <3>2. CASE q # p
      <4>1. \A s : /\ Waits(mem, q, s) => Waits(m, q, s)
                   /\ Done(mem, q) => Done(m, q)
        BY <1>1, <3>2, OtherGradients DEF m
      <4> QED  BY <2>3, <3>2, <4>1 DEF MidValues
    <3> QED  BY <3>1, <3>2
  <2>5. Lists' /\ Buffers' /\ (~config.overlap => job' = NoJob)
    BY <1>1, <1>3, <1>6, <2>1, <2>2, PutsOne
  <2>6. /\ MidValues(mem', unready', Pending') /\ MemOK(mem')
        /\ mem'.overflow => m.overflow \/ bad # {}
    BY <1>1, <1>3, <1>5, <1>6, <2>1, <2>2, <2>4, PutsValues
  <2>7. Values'  BY <1>3, <2>1, <2>6, MidNext
  <2>8. Phases'  BY <1>1, <1>3, <1>6, <2>1, <2>5, PhasesNext
  <2>9. Types'  BY <1>1, <1>3, <1>6, <2>6, TypesNext
  <2>10. Batch'
    <3>1. mem'.overflow => bad # {}  BY <1>5, <1>7, <2>6
    <3>2. unready' \subseteq unready /\ config.stage # 1  BY <1>3, <1>9
    <3> QED  BY <1>1, <1>3, <3>1, <3>2, BatchNext
  <2> QED  BY <2>5, <2>7, <2>8, <2>9, <2>10 DEF IInv
<1>10. CASE config.stage = 1
  <2>1. mem' = m /\ UNCHANGED <<bucket, large, ipg, ipgIndex, reduced, job>>
    BY <1>3, <1>4, <1>10
  <2>2. Buffers'  BY <1>1, <1>3, <1>6, <2>1, BuffersSame
  <2>3. Lists'
    <3>1. Params' = Params  BY <1>6 DEF Params
    <3> QED  BY <1>1, <1>3, <2>1, <3>1 DEF Lists, Once
  <2>4. Phases'
    <3>1. Boundary' = Boundary /\ Settled' = Settled
      BY <1>3, <1>6 DEF Boundary, Settled
    <3> QED  BY <1>1, <1>3, <1>6, <2>1, <3>1 DEF Phases
  <2>5. Types'  BY <1>1, <1>3, <1>5, <1>6, <2>1, TypesNext
  <2>6. Batch'
    <3>1. unready' \subseteq unready /\ (mem'.overflow => bad # {}) /\ mem'.cpu = Zeros
      BY <1>3, <1>5, <1>7, <1>10, <2>1
    <3> QED  BY <1>1, <1>3, <3>1, BatchNext
  <2>7. Values'
    <3>1. AllWait /\ AllWait' /\ phase' # "ended" /\ phase # "ended"
      BY <1>1, <1>3, <1>6, <1>10 DEF AllWait
    <3>2. Begun' = Begun  BY <1>3, <1>6 DEF Begun
    <3> SUFFICES ASSUME NEW q \in Owned PROVE Waits(mem, q, Fresh(q))'
      BY <1>3, <3>1, StillIs DEF Values
    <3>3. Waits(mem, q, Fresh(q))  BY <1>1, <3>1 DEF Values
    <3>4. Waits(m, q, Fresh(q)')
      <4>1. Fresh(q)' = IF q \in unready \ {p} THEN New(q) \ {ThisStep} ELSE New(q)
        BY <1>1, <1>3, StillIs DEF Fresh
      <4>2. Fresh(q) = IF q \in unready THEN New(q) \ {ThisStep} ELSE New(q)
        BY <1>1 DEF Fresh
      <4>3. CASE q = p
        <5>1. Waits(m, p, New(p))  BY <1>1, <3>3, <4>3, ReadyGradient DEF m
        <5> QED  BY <4>1, <4>3, <5>1
      <4>4. CASE q # p
        <5>1. \A s : Waits(mem, q, s) => Waits(m, q, s)
          BY <1>1, <4>4, OtherGradients DEF m
        <5> QED  BY <3>3, <4>1, <4>2, <4>4, <5>1
      <4> QED  BY <4>3, <4>4
    <3> QED  BY <1>3, <2>1, <3>2, <3>4, StillIs DEF Waits, OnCpu, Still
  <2> QED  BY <2>2, <2>3, <2>4, <2>5, <2>6, <2>7 DEF IInv
<1> QED  BY <1>4, <1>9, <1>10

(* Stage 1, last micro-step: the next parameter goes into the bucket. *)
LEMMA ReduceNextKeeps ==
    ASSUME IInv, NEW p \in Params, ReduceNext(p)
    PROVE  IInv'
<1>1. /\ phase = "reduce" /\ p \in unready
      /\ Types /\ Typed /\ Lists /\ Phases /\ Buffers /\ Batch /\ Values
  BY DEF ReduceNext, IInv, Types
<1>2. ~ReduceFails(p)  BY <1>1, ReduceSucceeds
<1>3. /\ unready' = unready \ {p} /\ phase' = phase /\ calm' = calm /\ Still
      /\ ReduceParam(p, mem)
  BY <1>1, <1>2 DEF ReduceNext, Still
<1>4. Busy /\ Middle  BY <1>1 DEF Busy, Middle, Settled
<1>5. config' = config /\ microSteps' = microSteps /\ microStep' = microStep
  BY <1>3 DEF Still
<1>6. MemOK(mem) /\ (mem.overflow => bad # {}) /\ (config.stage = 1 => mem.cpu = Zeros)
  BY <1>1 DEF Types, Batch
<1>7. MidValues(mem, unready \ {p}, Pending)
  BY <1>1, <1>4, ValuesAreMid DEF MidValues
<1>8. Lists' /\ Buffers' /\ (~config.overlap => job' = NoJob)
  BY <1>1, <1>3, <1>4, <1>5, PutsOne
<1>9. /\ MidValues(mem', unready', Pending') /\ MemOK(mem')
      /\ mem'.overflow => mem.overflow \/ bad # {}
      /\ config.stage = 1 => mem'.cpu = mem.cpu
  BY <1>1, <1>3, <1>4, <1>5, <1>6, <1>7, PutsValues
<1>10. Values'  BY <1>3, <1>4, <1>9, MidNext
<1>11. Phases'  BY <1>1, <1>3, <1>4, <1>5, <1>8, PhasesNext
<1>12. Types'  BY <1>1, <1>3, <1>5, <1>9, TypesNext
<1>13. Batch'
  <2>1. /\ mem'.overflow => bad # {}
        /\ config.stage = 1 => mem'.cpu = Zeros
        /\ unready' \subseteq unready
    BY <1>3, <1>6, <1>9
  <2> QED  BY <1>1, <1>3, <2>1, BatchNext
<1> QED  BY <1>8, <1>10, <1>11, <1>12, <1>13 DEF IInv

----------------------------------------------------------------------------
LEMMA PredicatesNext ==
    ASSUME Still, NEW q
    PROVE  /\ Begun' = Begun /\ Waits(mem', q, Fresh(q)') => Waits(mem, q, Fresh(q))'
           /\ Done(mem', q) => Done(mem, q)'
           /\ Ready(mem', q) => Ready(mem, q)'
<1>1. Begun' = Begun /\ Waits(mem', q, Fresh(q)') => Waits(mem, q, Fresh(q))'
  BY StillIs DEF Waits, OnCpu, Still
<1>2. Done(mem', q) => Done(mem, q)'
  BY StillIs DEF Done, StoredOnCpu, OnCpu, Overflows, Still
<1>3. Ready(mem', q) => Ready(mem, q)'
  BY StillIs DEF Ready, StoredOnCpu, OnCpu, Overflows, Still
<1> QED  BY <1>1, <1>2, <1>3

(* From one phase of the middle to the next. *)
LEMMA MiddleNext ==
    ASSUME Still, Middle, Middle',
           \A q \in Owned : IF q \in Pending' THEN Waits(mem', q, Fresh(q)') ELSE Done(mem', q)
    PROVE  Values'
<1>1. phase' # "ended" /\ phase' # "step" /\ ~AllWait'
  BY DEF Middle, Settled, AllWait
<1>2. Begun' = Begun  BY DEF Middle, Settled, Begun, Still
<1> SUFFICES ASSUME NEW q \in Owned
             PROVE  IF q \in Pending' THEN Waits(mem, q, Fresh(q))' ELSE Done(mem, q)'
  BY <1>1, StillIs DEF Values
<1> QED  BY <1>2, PredicatesNext

(* The backward pass is over. *)
LEMMA BackwardDoneKeeps ==
    ASSUME IInv, BackwardDone
    PROVE  IInv'
<1>1. /\ phase = "backward" /\ unready = {}
      /\ Types /\ Typed /\ Lists /\ Phases /\ Buffers /\ Batch /\ Values
  BY DEF BackwardDone, IInv, Types
<1>2. /\ phase' = (IF config.stage = 2 THEN "flush" ELSE IF Boundary THEN "reduce" ELSE "step")
      /\ unready' = (IF config.stage = 1 /\ Boundary
                     THEN {p \in Params : mem.grad[p] # NoGrad} ELSE {})
      /\ UNCHANGED <<bucket, large, ipg, ipgIndex, reduced, job, mem, calm>> /\ Still
  BY DEF BackwardDone, Still
<1>3. config' = config /\ microSteps' = microSteps /\ microStep' = microStep
  BY <1>2 DEF Still
<1>4. config.stage \in {1, 2}  BY <1>1, StageIs
<1>5. phase' \in {"flush", "reduce", "step"}  BY <1>2
<1>6. Params' = Params /\ Boundary' = Boundary  BY <1>3 DEF Params, Boundary
<1>7. Types'  BY <1>1, <1>2, <1>3, <1>5, MemNext DEF Types, Typed
<1>8. Buffers'  BY <1>1, <1>2, <1>3, BuffersSame
<1>9. config.stage = 1 => bucket = << >> /\ job = NoJob /\ reduced = {} /\ large = None
  BY <1>1 DEF Phases, Settled
<1>10. Lists'
  <2>1. CASE config.stage = 1
    <3>1. bucket' = << >> /\ job' = NoJob /\ reduced' = {}  BY <1>2, <1>9, <2>1
    <3>2. unready' \subseteq Params  BY <1>2
    <3>3. Range(<< >>) = {} /\ << >> \in Seq(Params) /\ Once(<< >>)
      BY DEF Range, Once
    <3>4. job'.params = << >>  BY <3>1 DEF NoJob
    <3> QED  BY <1>6, <3>1, <3>2, <3>3, <3>4 DEF Lists
  <2>2. CASE config.stage = 2
    <3>1. unready' = unready  BY <1>1, <1>2, <2>2
    <3> QED  BY <1>1, <1>2, <1>6, <3>1 DEF Lists, Once
  <2> QED  BY <1>4, <2>1, <2>2
<1>11. Phases'
  <2>1. CASE config.stage = 1
    <3>1. ~Boundary => phase' = "step" /\ unready' = {}  BY <1>2, <2>1
    <3>2. Boundary => phase' = "reduce"  BY <1>2, <2>1
    <3> QED  BY <1>2, <1>3, <1>6, <1>9, <2>1, <3>1, <3>2 DEF Phases, Settled
  <2>2. CASE config.stage = 2
    <3>1. phase' = "flush" /\ unready' = {}  BY <1>2, <2>2
    <3> QED  BY <1>1, <1>2, <1>3, <2>2, <3>1 DEF Phases, Settled
  <2> QED  BY <1>4, <2>1, <2>2
<1>12. Batch'
  <2>1. Zeros' = Zeros  BY <1>6 DEF Zeros
  <2>2. \A p : Uses(p)' = Uses(p)  BY <1>2, StillIs
  <2>3. ThisStep' = ThisStep  BY <1>2, StillIs
  <2>4. phase' # "backward" /\ phase' # "idle" /\ phase # "idle" /\ phase # "ended"
    BY <1>1, <1>5
  <2>5. /\ used' = [p \in Params |-> Of(Uses(p), 1)]
        /\ \A p \in Params : Uses(p) \subseteq 1 .. ThisStep
        /\ config.offload => \A p \in Params : ThisStep \in Uses(p)
        /\ config.stage = 1 => mem.cpu = Zeros
        /\ mem.overflow => bad # {}
    BY <1>1, <1>2, <2>4 DEF Batch, Still
  <2> QED  BY <1>2, <1>3, <1>6, <2>1, <2>2, <2>3, <2>4, <2>5 DEF Batch, Still
<1>13. Values'
  <2>1. \A q : Fresh(q) = New(q) /\ Fresh(q)' = New(q)
    BY <1>1, <1>2, <1>5, StillIs DEF Fresh
  <2>2. Begun' = Begun  BY <1>1, <1>3, <1>5 DEF Begun
  <2>3. CASE config.stage = 2
    <3>1. Middle /\ Middle'  BY <1>1, <1>2, <1>3, <2>3 DEF Middle, Settled
    <3>2. MidValues(mem, unready, Pending)  BY <1>1, <3>1, ValuesAreMid
    <3>3. Pending' = Pending  BY <1>1, <1>2, <2>3 DEF Pending
    <3>4. \A q \in Owned : IF q \in Pending' THEN Waits(mem', q, Fresh(q)') ELSE Done(mem', q)
      BY <1>1, <1>2, <2>1, <3>2, <3>3 DEF MidValues
    <3> QED  BY <1>2, <3>1, <3>4, MiddleNext
  <2>4. CASE config.stage = 1
    <3>1. \A q \in Owned : Waits(mem, q, New(q))
      BY <1>1, <2>1, <2>4 DEF Values, AllWait
    <3>2. CASE Boundary
      <4>1. phase' = "reduce" /\ ~AllWait'
        BY <1>2, <1>3, <2>4, <3>2 DEF AllWait
      <4>2. Pending' = unready'
        <5>1. bucket' = << >> /\ job'.params = << >> /\ Range(<< >>) = {}
          BY <1>2, <1>9, <2>4 DEF NoJob, Range
        <5> QED  BY <5>1 DEF Pending
      <4> SUFFICES ASSUME NEW q \in Owned
                   PROVE  IF q \in Pending' THEN Waits(mem, q, Fresh(q))' ELSE Done(mem, q)'
        BY <1>2, <4>1, StillIs DEF Values
      <4>3. q \in Params  BY OwnedIs
      <4>4. CASE q \in Pending'
        <5>1. Waits(mem', q, Fresh(q)')  BY <1>2, <2>1, <3>1
        <5> QED  BY <1>2, <2>2, <4>4, <5>1, PredicatesNext
      <4>5. CASE q \notin Pending'
        <5>1. mem.grad[q] = NoGrad  BY <1>2, <2>4, <3>2, <4>2, <4>3, <4>5
        <5>2. New(q) = {}
          <6>1. Of(New(q), 0) = NoGrad  BY <3>1, <5>1 DEF Waits
          <6> QED  BY <6>1, OfSome
        <5>3. ~config.offload
          <6>1. config.offload => ThisStep \in Uses(q)  BY <1>1, <4>3 DEF Batch
          <6> QED  BY <2>4, <5>2, <6>1 DEF New
        <5>4. mem.grad[q] = Of(New(q), 1) /\ mem.kept[q] = Of(Old(q), 1)
          BY <3>1, <5>1, <5>2, <5>3, OfNone DEF Waits
        <5>5. Done(mem', q)  BY <1>2, <5>3, <5>4 DEF Done
        <5> QED  BY <1>2, <4>5, <5>5, PredicatesNext
      <4> QED  BY <4>4, <4>5
    <3>3. CASE ~Boundary
      <4>1. AllWait'  BY <1>2, <1>3, <1>6, <2>4, <3>3 DEF AllWait
      <4> SUFFICES ASSUME NEW q \in Owned PROVE Waits(mem, q, Fresh(q))'
        BY <1>2, <4>1, StillIs DEF Values
      <4>2. Waits(mem', q, Fresh(q)')  BY <1>2, <2>1, <3>1
      <4> QED  BY <1>2, <2>2, <4>2, PredicatesNext
    <3> QED  BY <3>2, <3>3
  <2> QED  BY <1>4, <2>3, <2>4
<1> QED  BY <1>7, <1>8, <1>10, <1>11, <1>12, <1>13 DEF IInv

(* Every parameter has been put into the bucket. *)
LEMMA AllReducedKeeps ==
    ASSUME IInv, AllReduced
    PROVE  IInv'
<1>1. /\ phase = "reduce" /\ phase' = "flush" /\ unready = {} /\ unready' = {}
      /\ Types /\ Typed /\ Lists /\ Phases /\ Buffers /\ Batch /\ Values
      /\ UNCHANGED <<bucket, large, ipg, ipgIndex, reduced, job, mem, calm>> /\ Still
  BY DEF AllReduced, IInv, Types, Still
<1>2. config' = config /\ microSteps' = microSteps /\ microStep' = microStep
  BY <1>1 DEF Still
<1>3. Params' = Params /\ Boundary' = Boundary /\ Zeros' = Zeros
  BY <1>2 DEF Params, Boundary, Zeros
<1>4. Middle /\ Middle'  BY <1>1 DEF Middle, Settled
<1>5. Types'  BY <1>1, <1>2, MemNext DEF Types, Typed
<1>6. Buffers'  BY <1>1, <1>2, BuffersSame
<1>7. Lists'  BY <1>1, <1>3 DEF Lists, Once
<1>8. Phases'  BY <1>1, <1>2, <1>3 DEF Phases, Settled
<1>9. Batch'
  <2>1. \A p : Uses(p)' = Uses(p)  BY <1>1, StillIs
  <2>2. ThisStep' = ThisStep  BY <1>1, StillIs
  <2> QED  BY <1>1, <1>2, <1>3, <2>1, <2>2 DEF Batch, Still
<1>10. Values'
  <2>1. MidValues(mem, unready, Pending) /\ Pending' = Pending
    BY <1>1, <1>4, ValuesAreMid DEF Pending
  <2>2. \A q : Fresh(q)' = New(q)  BY <1>1, StillIs DEF Fresh
  <2>3. \A q \in Owned : IF q \in Pending' THEN Waits(mem', q, Fresh(q)') ELSE Done(mem', q)
    BY <1>1, <2>1, <2>2 DEF MidValues
  <2> QED  BY <1>1, <1>4, <2>3, MiddleNext
<1> QED  BY <1>5, <1>6, <1>7, <1>8, <1>9, <1>10 DEF IInv

----------------------------------------------------------------------------
(* The reduction stream runs its job: what waited in it is done. *)
LEMMA StreamRunsKeeps ==
    ASSUME IInv, StreamRuns
    PROVE  IInv'
<1>1. /\ job # NoJob /\ job' = NoJob /\ mem' = RunJob(mem, job) /\ phase' = phase
      /\ Types /\ Typed /\ Lists /\ Phases /\ Buffers /\ Batch /\ Values
      /\ UNCHANGED <<unready, bucket, large, ipg, ipgIndex, reduced, calm>> /\ Still
  BY DEF StreamRuns, IInv, Types, Still
<1>2. config' = config /\ microSteps' = microSteps /\ microStep' = microStep
  BY <1>1 DEF Still
<1>3. Params' = Params /\ Boundary' = Boundary /\ Zeros' = Zeros
  BY <1>2 DEF Params, Boundary, Zeros
<1>4. Middle /\ Middle' /\ ~Settled
  BY <1>1, <1>2 DEF Middle, Settled, Phases, Types
<1>5. config.stage = 2  BY <1>1 DEF Phases, Typed, ConfigOK
<1>6. JobDone(mem, mem', job.params, Len(job.params)) /\ job.params \in Seq(Params)
  <2>1. /\ MemOK(mem) /\ job.params \in Seq(Params)
        /\ \A x, y \in DOMAIN job.params : job.params[x] = job.params[y] => x = y
        /\ \A i \in DOMAIN job.params : Intact(job, i)
    BY <1>1 DEF Types, Lists, Buffers, Once
  <2> QED  BY <1>1, <2>1, JobFields
<1>7. NoJob.params = << >> /\ Range(<< >>) = {} /\ << >> \in Seq(Params) /\ Once(<< >>)
      /\ NoJob.buffer = -1
  BY DEF NoJob, Range, Once
<1>8. Types'
  <2>1. MemOK(mem')  BY <1>6 DEF JobDone
  <2> QED  BY <1>1, <1>2, <2>1, TypesNext
<1>9. Buffers'
  <2>1. ipgIndex' \in {0, 1} /\ Filled(ipg', ipgIndex', bucket', large')
    BY <1>1 DEF Buffers, Filled
  <2>2. job'.buffer # ipgIndex'  BY <1>1, <1>7 DEF Buffers
  <2> QED  BY <1>1, <1>2, <2>1, <2>2, BuffersNext
<1>10. Lists'  BY <1>1, <1>3, <1>7 DEF Lists, Once
<1>11. Phases'  BY <1>1, <1>2, <1>3, <1>4 DEF Phases, Settled
<1>12. Batch'
  <2>1. /\ mem'.overflow => bad # {}
        /\ unready' \subseteq unready /\ config.stage # 1
    BY <1>1, <1>5, <1>6 DEF JobDone, Batch
  <2> QED  BY <1>1, <2>1, BatchNext
<1>13. Values'
  <2>1. MidValues(mem, unready, Pending)  BY <1>1, <1>4, ValuesAreMid
  <2>2. /\ Pending = unready \cup Range(bucket) \cup Range(job.params)
        /\ Pending' = unready \cup Range(bucket)
    BY <1>1, <1>7 DEF Pending
  <2>3. unready \cap Range(job.params) = {} /\ Range(bucket) \cap Range(job.params) = {}
    BY <1>1 DEF Lists
  <2>4. phase # "idle" /\ microStep \in Int /\ microStep >= 0
    BY <1>1, <1>4 DEF Middle, Types
  <2> SUFFICES MidValues(mem', unready', Pending')  BY <1>1, <1>4, MidNext
  <2> SUFFICES ASSUME NEW q \in Owned
               PROVE  IF q \in Pending'
                      THEN Waits(mem', q, IF phase = "backward" /\ q \in unready'
                                          THEN New(q) \ {ThisStep} ELSE New(q))
                      ELSE Done(mem', q)
    BY DEF MidValues
  <2>5. /\ q \in Range(job.params) /\ Waits(mem, q, New(q)) => Done(mem', q)
        /\ q \notin Range(job.params) => /\ \A s : Waits(mem, q, s) => Waits(mem', q, s)
                                         /\ Done(mem, q) => Done(mem', q)
    BY <1>1, <1>6, <2>4, JobValues
  <2>6. IF q \in Pending
        THEN Waits(mem, q, IF phase = "backward" /\ q \in unready
                           THEN New(q) \ {ThisStep} ELSE New(q))
        ELSE Done(mem, q)
    BY <2>1 DEF MidValues
  <2>7. unready' = unready  BY <1>1
  <2>8. CASE q \in Range(job.params)  BY <2>2, <2>3, <2>5, <2>6, <2>8
  <2>9. CASE q \notin Range(job.params)  BY <2>2, <2>5, <2>6, <2>7, <2>9
  <2> QED  BY <2>8, <2>9
<1> QED  BY <1>8, <1>9, <1>10, <1>11, <1>12, <1>13 DEF IInv

(* The rest of the bucket is reduced. *)
LEMMA EpilogueFlushKeeps ==
    ASSUME IInv, EpilogueFlush
    PROVE  IInv'
<1>1. /\ phase = "flush" /\ Types /\ Typed /\ Lists /\ Phases /\ Buffers /\ Batch /\ Values
  BY DEF EpilogueFlush, IInv, Types
<1>2. /\ Launch(mem) /\ bucket' = << >> /\ large' = None /\ reduced' = {}
      /\ phase' = "collect" /\ UNCHANGED <<unready, ipg, ipgIndex, calm>> /\ Still
  BY <1>1, LaunchSucceeds DEF EpilogueFlush, ResetReduced, Still
<1>3. config' = config /\ microSteps' = microSteps /\ microStep' = microStep
  BY <1>2 DEF Still
<1>4. Params' = Params /\ Boundary' = Boundary /\ Zeros' = Zeros
  BY <1>3 DEF Params, Boundary, Zeros
<1>5. Middle /\ Middle'  BY <1>1, <1>2 DEF Middle, Settled
<1>6. /\ unready = {} /\ unready' = {}
      /\ job = NoJob
      /\ job' = (IF config.overlap THEN Bucketed ELSE NoJob)
      /\ mem' = (IF config.overlap THEN mem ELSE RunJob(mem, Bucketed))
  BY <1>1, <1>2 DEF Phases, Launch, MayReduce
<1>7. NoJob.params = << >> /\ Range(<< >>) = {} /\ << >> \in Seq(Params) /\ Once(<< >>)
      /\ NoJob.buffer = -1
  BY DEF NoJob, Range, Once
<1>8. Bucketed.params = bucket /\ Bucketed.buffer = ipgIndex /\ Bucketed.large = large
  BY DEF Bucketed
<1>9. JobDone(mem, RunJob(mem, Bucketed), bucket, Len(bucket)) /\ bucket \in Seq(Params)
  BY <1>1, LaunchDoes DEF Types, Lists
<1>10. /\ MemOK(mem') /\ (mem'.overflow => bad # {}) /\ (config.stage = 1 => mem'.cpu = Zeros)
  <2>1. /\ MemOK(mem) /\ (mem.overflow => bad # {}) /\ (config.stage = 1 => mem.cpu = Zeros)
        /\ config.stage = 1 => Boundary
    BY <1>1 DEF Types, Batch, Phases
  <2> QED  BY <1>6, <1>9, <2>1 DEF JobDone
<1>11. Types'  BY <1>1, <1>2, <1>3, <1>10, MemNext DEF Types, Typed
<1>12. Buffers'
  <2>1. ipgIndex' \in {0, 1}  BY <1>1, <1>2 DEF Buffers
  <2>2. Filled(ipg', ipgIndex', bucket', large')
    <3>1. config.bucketSize \in Nat  BY <1>1 DEF Typed, ConfigOK
    <3> QED  BY <1>1, <1>2, <3>1, ElementsEmpty DEF Filled, Buffers
  <2>3. \/ job' = NoJob
        \/ \A i \in DOMAIN job'.params :
               \/ job'.large # None
               \/ \A c \in CellsOf(job'.params, i) : ipg'[job'.buffer][c] = job'.params[i]
    BY <1>1, <1>2, <1>6, <1>8 DEF Buffers
  <2>4. job' # NoJob => job'.buffer \in {0, 1}  BY <1>1, <1>6, <1>8 DEF Buffers
  <2> QED  BY <1>2, <1>3, <2>1, <2>2, <2>3, <2>4, BuffersNext
<1>13. Lists'
  <2>1. job'.params \in Seq(Params) /\ Once(job'.params)
    BY <1>1, <1>6, <1>7, <1>8 DEF Lists
  <2> QED  BY <1>2, <1>4, <1>6, <1>7, <2>1 DEF Lists
<1>14. Phases'  BY <1>1, <1>2, <1>3, <1>4, <1>6 DEF Phases, Settled
<1>15. Batch'
  <2>1. \A p : Uses(p)' = Uses(p)  BY <1>2, StillIs
  <2>2. ThisStep' = ThisStep  BY <1>2, StillIs
  <2> QED  BY <1>1, <1>2, <1>3, <1>4, <1>6, <1>10, <2>1, <2>2 DEF Batch, Still
<1>16. Values'
  <2>1. MidValues(mem, unready, Pending)  BY <1>1, <1>5, ValuesAreMid
  <2>2. Pending = Range(bucket)  BY <1>6, <1>7 DEF Pending
  <2>3. Pending' = IF config.overlap THEN Range(bucket) ELSE {}
    BY <1>2, <1>6, <1>7, <1>8 DEF Pending
  <2>4. phase # "idle" /\ microStep \in Int /\ microStep >= 0
    BY <1>1 DEF Types
  <2> SUFFICES ASSUME NEW q \in Owned
               PROVE  IF q \in Pending' THEN Waits(mem', q, Fresh(q)') ELSE Done(mem', q)
    BY <1>2, <1>5, MiddleNext
  <2>5. Fresh(q)' = New(q)  BY <1>2, StillIs DEF Fresh
  <2>6. IF q \in Pending THEN Waits(mem, q, New(q)) ELSE Done(mem, q)
    BY <1>1, <2>1 DEF MidValues
  <2>7. CASE config.overlap
    <3>1. mem' = mem /\ Pending' = Pending  BY <1>6, <2>2, <2>3, <2>7
    <3> QED  BY <2>5, <2>6, <3>1
  <2>8. CASE ~config.overlap
    <3>1. JobDone(mem, mem', bucket, Len(bucket)) /\ Pending' = {}
      BY <1>6, <1>9, <2>3, <2>8
    <3>2. /\ q \in Range(bucket) /\ Waits(mem, q, New(q)) => Done(mem', q)
          /\ q \notin Range(bucket) => (Done(mem, q) => Done(mem', q))
      BY <1>1, <1>9, <2>4, <3>1, JobValues
    <3> QED  BY <2>2, <2>6, <3>1, <3>2
  <2> QED  BY <2>7, <2>8
<1> QED  BY <1>11, <1>12, <1>13, <1>14, <1>15, <1>16 DEF IInv

----------------------------------------------------------------------------
(* The fields that the end of a micro-step and a step change. *)
WithKept(m, g) == [m EXCEPT !.kept = g]

LEMMA KeptFields ==
    ASSUME NEW m, MemOK(m), NEW g, g = [p \in Params |-> g[p]]
    PROVE  /\ WithKept(m, g) = [grad |-> m.grad, kept |-> g, cpu |-> m.cpu, fp32 |-> m.fp32,
                                overflow |-> m.overflow]
           /\ MemOK(WithKept(m, g))
<1>1. PICK u, v, w, x, y : m = [grad |-> u, kept |-> v, cpu |-> w, fp32 |-> x, overflow |-> y]
  BY DEF MemOK
<1>2. WithKept(m, g) = [grad |-> m.grad, kept |-> g, cpu |-> m.cpu, fp32 |-> m.fp32,
                        overflow |-> m.overflow]
  BY <1>1 DEF WithKept
<1>3. /\ m.grad = [p \in Params |-> m.grad[p]] /\ m.cpu = [p \in Params |-> m.cpu[p]]
      /\ m.fp32 = [p \in Params |-> m.fp32[p]] /\ m.overflow \in BOOLEAN
  BY DEF MemOK
<1>4. ASSUME NEW a, NEW b, NEW c, NEW d, NEW e,
             a = [p \in Params |-> a[p]], b = [p \in Params |-> b[p]],
             c = [p \in Params |-> c[p]], d = [p \in Params |-> d[p]], e \in BOOLEAN
      PROVE  MemOK([grad |-> a, kept |-> b, cpu |-> c, fp32 |-> d, overflow |-> e])
  BY ONLY <1>4 DEF MemOK
<1>5. MemOK([grad |-> m.grad, kept |-> g, cpu |-> m.cpu, fp32 |-> m.fp32,
             overflow |-> m.overflow])
  BY ONLY <1>3, <1>4, g = [p \in Params |-> g[p]]
<1> QED  BY <1>2, <1>5

Collecting(m, g) == WithGrad(WithKept(m, g), Zeros)
Cleaning(m, g) == WithOverflow(Collecting(m, g), FALSE)

Collects(m, g, r) ==
    /\ MemOK(r) /\ r.kept = g /\ r.grad = Zeros /\ r.cpu = m.cpu /\ r.fp32 = m.fp32
    /\ r.overflow = m.overflow
Cleans(m, g, r) ==
    MemOK(r) /\ r.kept = g /\ r.grad = Zeros /\ r.cpu = m.cpu /\ r.overflow = FALSE

LEMMA CleanedFields ==
    ASSUME NEW m, MemOK(m), NEW g, g = [p \in Params |-> g[p]]
    PROVE  Collects(m, g, Collecting(m, g)) /\ Cleans(m, g, Cleaning(m, g))
<1> DEFINE k == WithKept(m, g)
           r == WithGrad(k, Zeros)
           o == WithOverflow(r, FALSE)
<1>1. /\ MemOK(k) /\ k.grad = m.grad /\ k.kept = g /\ k.cpu = m.cpu /\ k.fp32 = m.fp32
      /\ k.overflow = m.overflow
  BY KeptFields
<1> HIDE DEF k
<1>2. Zeros = [p \in Params |-> Zeros[p]]  BY DEF Zeros
<1>3. r = [grad |-> Zeros, kept |-> k.kept, cpu |-> k.cpu, fp32 |-> k.fp32,
           overflow |-> k.overflow]
  BY <1>1, Fields
<1>4. MemOK(r)  BY <1>1, <1>2, FieldsOK
<1> HIDE DEF r
<1>5. /\ r.grad = Zeros /\ r.kept = g /\ r.cpu = m.cpu /\ r.fp32 = m.fp32
      /\ r.overflow = m.overflow
  BY <1>1, <1>3
<1>6. o = [grad |-> r.grad, kept |-> r.kept, cpu |-> r.cpu, fp32 |-> r.fp32, overflow |-> FALSE]
  BY <1>4, Fields
<1>7. MemOK(o)  BY <1>4, FieldsOK
<1> HIDE DEF o
<1>8. o.grad = Zeros /\ o.kept = g /\ o.cpu = m.cpu /\ o.overflow = FALSE
  BY <1>5, <1>6
<1>9. Collects(m, g, r) /\ Cleans(m, g, o)
  BY ONLY <1>4, <1>5, <1>7, <1>8 DEF Collects, Cleans
<1> QED  BY <1>9 DEF k, r, o, Collecting, Cleaning

(* What was reduced is collected where the step looks for it. *)
LEMMA EpilogueCollectKeeps ==
    ASSUME IInv, EpilogueCollect
    PROVE  IInv'
<1>1. /\ phase = "collect" /\ MayReduce /\ phase' = "step"
      /\ Types /\ Typed /\ Lists /\ Phases /\ Buffers /\ Batch /\ Values
      /\ UNCHANGED <<unready, bucket, large, ipg, ipgIndex, reduced, job, calm>> /\ Still
  BY DEF EpilogueCollect, IInv, Types, Still
<1>2. config' = config /\ microSteps' = microSteps /\ microStep' = microStep
  BY <1>1 DEF Still
<1>3. Params' = Params /\ Boundary' = Boundary /\ Zeros' = Zeros
  BY <1>2 DEF Params, Boundary, Zeros
<1>4. Middle /\ job = NoJob /\ bucket = << >> /\ unready = {} /\ reduced = {} /\ large = None
  BY <1>1 DEF Middle, Settled, Phases, MayReduce
<1>5. config.stage \in {1, 2} /\ (config.stage = 1 => Boundary)
  BY <1>1, StageIs DEF Phases
<1>6. NoJob.params = << >> /\ Range(<< >>) = {} /\ NoJob.buffer = -1
  BY DEF NoJob, Range
<1> DEFINE g == Collected(mem)
<1>7. g = [p \in Params |-> g[p]]  BY <1>1 DEF Collected, Types, MemOK
<1>8. mem' = Collecting(mem, g)
  BY DEF EpilogueCollect, Collecting, WithGrad, WithKept
<1> HIDE DEF g
<1>9. /\ MemOK(mem') /\ mem'.kept = g /\ mem'.grad = Zeros /\ mem'.cpu = mem.cpu
      /\ mem'.fp32 = mem.fp32 /\ mem'.overflow = mem.overflow
  <2>1. MemOK(mem)  BY <1>1 DEF Types
  <2>2. Collects(mem, g, mem')  BY <1>7, <1>8, <2>1, CleanedFields
  <2> QED  BY <2>2 DEF Collects
<1>10. Types'  BY <1>1, <1>2, <1>9, MemNext DEF Types, Typed
<1>11. Lists'
  <2>1. Range(job.params) \subseteq reduced  BY <1>4, <1>6
  <2> QED  BY <1>1, <1>3, <2>1 DEF Lists, Once
<1>12. Phases'  BY <1>1, <1>2, <1>3, <1>4 DEF Phases, Settled
<1>13. Buffers'
  <2>1. ipgIndex' \in {0, 1} /\ Filled(ipg', ipgIndex', bucket', large')
    BY <1>1 DEF Buffers, Filled
  <2>2. job'.buffer # ipgIndex' /\ job' = NoJob  BY <1>1, <1>4, <1>6, <2>1
  <2> QED  BY <1>2, <2>1, <2>2, BuffersNext
<1>14. Batch'
  <2>1. \A p : Uses(p)' = Uses(p)  BY <1>1, StillIs
  <2>2. ThisStep' = ThisStep  BY <1>1, StillIs
  <2> QED  BY <1>1, <1>2, <1>3, <1>9, <2>1, <2>2 DEF Batch, Still
<1>15. Values'
  <2>1. ~AllWait'  BY <1>1, <1>2, <1>3, <1>5 DEF AllWait
  <2>2. Pending = {}  BY <1>4, <1>6 DEF Pending
  <2> SUFFICES ASSUME NEW q \in Owned PROVE Ready(mem', q)
    BY <1>1, <2>1, StillIs, PredicatesNext DEF Values
  <2>3. q \in Params  BY OwnedIs
  <2>4. Done(mem, q)  BY <1>1, <1>4, <2>2, ValuesAreMid DEF MidValues
  <2>5. mem'.grad[q] = NoGrad  BY <1>9, <2>3 DEF Zeros
  <2>6. CASE config.offload
    <3>1. OnCpu(mem', q) = OnCpu(mem, q)  BY <1>9 DEF OnCpu
    <3> QED  BY <1>9, <2>4, <2>5, <2>6, <3>1 DEF Ready, Done, StoredOnCpu
  <2>7. CASE ~config.offload
    <3>1. g[q] = mem.kept[q] (+) mem.grad[q]  BY <2>3, <2>7 DEF g, Collected
    <3>2. mem.kept[q] = Of(Old(q), 1) /\ mem.grad[q] = Of(New(q), 1)
      BY <2>4, <2>7 DEF Done
    <3>3. Of(Old(q), 1) (+) Of(New(q), 1) = Of(Old(q) \cup New(q), 1)
      BY NewAndOld, OfBoth
    <3>4. Old(q) \cup New(q) = Uses(q)  BY NewAndOld
    <3> QED  BY <1>9, <2>5, <2>7, <3>1, <3>2, <3>3, <3>4 DEF Ready
  <2> QED  BY <2>6, <2>7
<1> QED  BY <1>10, <1>11, <1>12, <1>13, <1>14, <1>15 DEF IInv

----------------------------------------------------------------------------
(* The start of a micro-step. *)
StaticOffload == \A c \in Configs : c.offload => ~c.dynamic

LEMMA UsesAfter ==
    ASSUME Typed, Batch, phase = "idle", microSteps \in Nat, config' = config,
           microSteps' = microSteps, NEW given \in SUBSET Params,
           used' = [p \in Params |-> IF p \in given THEN used[p] (+) SetToBag({<<ThisStep, 1>>})
                                     ELSE used[p]],
           NEW p \in Params
    PROVE  /\ Uses(p)' = IF p \in given THEN Uses(p) \cup {ThisStep} ELSE Uses(p)
           /\ used'[p] = Of(Uses(p)', 1)
           /\ ThisStep \notin Uses(p) /\ Uses(p) \subseteq 1 .. microSteps
           /\ Old(p)' = Old(p) /\ New(p)' \ {ThisStep} = New(p) /\ ThisStep \notin New(p)
           /\ p \notin given => New(p)' = New(p)
           /\ config.stage = 2 => New(p) = {}
<1>1. Uses(p) \subseteq 1 .. microSteps /\ used[p] = Of(Uses(p), 1)
  BY DEF Batch
<1>2. ThisStep \notin Uses(p) /\ ThisStep' = ThisStep  BY <1>1 DEF ThisStep
<1>3. SetToBag({<<ThisStep, 1>>}) = Of({ThisStep}, 1)
  <2>1. {<<n, 1>> : n \in {ThisStep}} = {<<ThisStep, 1>>}  OBVIOUS
  <2> QED  BY <2>1 DEF Of
<1> DEFINE S == IF p \in given THEN Uses(p) \cup {ThisStep} ELSE Uses(p)
<1>4. used'[p] = Of(S, 1)
  <2>1. Uses(p) \cap {ThisStep} = {}  BY <1>2
  <2>2. Of(Uses(p), 1) (+) Of({ThisStep}, 1) = Of(Uses(p) \cup {ThisStep}, 1)
    BY <2>1, OfBoth
  <2> QED  BY <1>1, <1>3, <2>2
<1>5. Uses(p)' = S
  <2> HIDE DEF S
  <2>1. Uses(p)' = {x[1] : x \in DOMAIN used'[p]}  BY DEF Uses
  <2>2. {x[1] : x \in DOMAIN Of(S, 1)} = S  BY OfDomain
  <2> QED  BY <1>4, <2>1, <2>2
<1>6. New(p)' = IF config.stage = 2 THEN S \cap {ThisStep} ELSE S
  BY <1>2, <1>5 DEF New
<1>7. New(p) = IF config.stage = 2 THEN {} ELSE Uses(p)  BY <1>2 DEF New
<1>8. Old(p)' = S \ New(p)' /\ Old(p) = Uses(p) \ New(p)  BY <1>5 DEF Old
<1>9. Old(p)' = Old(p)  BY <1>2, <1>6, <1>7, <1>8
<1> QED  BY <1>1, <1>2, <1>4, <1>5, <1>6, <1>7, <1>9

(* A micro-step begins. *)
LEMMA BackwardKeeps ==
    ASSUME IInv, StaticOffload, NEW given \in SUBSET Params, NEW overflow,
           Backward(given, overflow)
    PROVE  IInv'
<1>1. /\ phase = "idle" /\ phase' = "backward" /\ microStep' = microStep + 1
      /\ Types /\ Typed /\ Lists /\ Phases /\ Buffers /\ Batch /\ Values
      /\ unready' = given /\ ipg' = FreshBuffers /\ ipgIndex' = 0
      /\ used' = [p \in Params |-> IF p \in given THEN used[p] (+) SetToBag({<<ThisStep, 1>>})
                                   ELSE used[p]]
      /\ bad \subseteq bad'
      /\ config' = config /\ microSteps' = microSteps /\ mem' = mem /\ calm' = calm
      /\ UNCHANGED <<bucket, large, reduced, job>>
  BY DEF Backward, IInv, Types
<1>2. config.offload => given = Params
  BY <1>1 DEF Backward, StaticOffload, Types
<1>3. Params' = Params /\ Boundary' = Boundary /\ Zeros' = Zeros /\ ThisStep' = ThisStep
      /\ Owned' = Owned
  BY <1>1 DEF Params, Boundary, Zeros, ThisStep, Owned
<1>4. bucket = << >> /\ job = NoJob /\ reduced = {} /\ large = None /\ unready = {}
  BY <1>1 DEF Phases, Settled
<1>5. NoJob.params = << >> /\ Range(<< >>) = {} /\ NoJob.buffer = -1
  BY DEF NoJob, Range
<1>6. microSteps \in Nat /\ microStep \in Int /\ microStep >= -1 /\ MemOK(mem)
      /\ config.stage \in {1, 2}
  BY <1>1, StageIs DEF Types
<1>7. ASSUME NEW p \in Params
      PROVE  /\ Uses(p)' = IF p \in given THEN Uses(p) \cup {ThisStep} ELSE Uses(p)
             /\ used'[p] = Of(Uses(p)', 1)
             /\ ThisStep \notin Uses(p) /\ Uses(p) \subseteq 1 .. microSteps
             /\ Old(p)' = Old(p) /\ New(p)' \ {ThisStep} = New(p) /\ ThisStep \notin New(p)
             /\ p \notin given => New(p)' = New(p)
             /\ config.stage = 2 => New(p) = {}
  BY <1>1, <1>6, UsesAfter
<1>8. Types'  BY <1>1, <1>6, MemNext DEF Types, Typed
<1>9. Lists'  BY <1>1, <1>3, <1>4, <1>5 DEF Lists, Once
<1>10. Phases'  BY <1>1, <1>4 DEF Phases, Settled
<1>11. Buffers'
  <2>1. Filled(ipg', ipgIndex', bucket', large')
    <3>1. config.bucketSize \in Nat  BY <1>1 DEF Typed, ConfigOK
    <3> QED  BY <1>1, <1>4, <3>1, ElementsEmpty DEF Filled, FreshBuffers
  <2> QED  BY <1>1, <1>4, <1>5, <2>1, BuffersNext
<1>12. Batch'
  <2>1. used' = [p \in Params |-> Of(Uses(p)', 1)]
    <3>1. used' = [p \in Params |-> used'[p]]  BY <1>1
    <3> QED  BY <1>7, <3>1
  <2>2. ASSUME NEW p \in Params PROVE Uses(p)' \subseteq 1 .. ThisStep
    <3>1. 1 .. microSteps \subseteq 1 .. ThisStep /\ ThisStep \in 1 .. ThisStep
      BY <1>6 DEF ThisStep
    <3> QED  BY <1>7, <3>1
  <2>3. \A p \in given : p \in Params /\ ThisStep \in Uses(p)'  BY <1>7
  <2>4. /\ config.stage = 1 => mem.cpu = Zeros
        /\ mem.overflow => bad' # {}
    BY <1>1 DEF Batch
  <2> QED  BY <1>1, <1>2, <1>3, <2>1, <2>2, <2>3, <2>4 DEF Batch
<1>13. Values'
  <2>1. Begun' = Begun  BY <1>1 DEF Begun
  <2>2. ASSUME NEW q \in Owned PROVE Waits(mem, q, Fresh(q))'
    <3>1. q \in Params  BY OwnedIs
    <3>2. Waits(mem, q, Fresh(q)) /\ Fresh(q) = New(q)
      BY <1>1 DEF Values, AllWait, Fresh
    <3>3. Fresh(q)' = New(q)  BY <1>1, <1>3, <1>7, <3>1 DEF Fresh
    <3>4. Old(q)' = Old(q)  BY <1>7, <3>1
    <3>5. OnCpu(mem, q)' = OnCpu(mem, q)  BY <1>1 DEF OnCpu
    <3> QED  BY <1>1, <2>1, <3>2, <3>3, <3>4, <3>5 DEF Waits
  <2>3. CASE config.stage = 1
    <3>1. AllWait'  BY <1>1, <2>3 DEF AllWait
    <3> QED  BY <1>3, <2>2, <3>1 DEF Values
  <2>4. CASE config.stage = 2
    <3>1. ~AllWait' /\ phase' # "step"  BY <1>1, <2>4 DEF AllWait
    <3>2. Pending' = given  BY <1>1, <1>4, <1>5 DEF Pending
    <3>3. ASSUME NEW q \in Owned, q \notin given PROVE Done(mem, q)'
      <4>1. q \in Params  BY OwnedIs
      <4>2. ~config.offload  BY <1>2, <3>3, <4>1
      <4>3. New(q) = {} /\ New(q)' = {} /\ Old(q)' = Old(q)
        BY <1>7, <2>4, <3>3, <4>1
      <4>4. Waits(mem, q, {})  BY <1>1, <4>3 DEF Values, AllWait, Fresh
      <4>5. mem.grad[q] = Of({}, 1) /\ mem.kept[q] = Of(Old(q), 1)
        BY <4>2, <4>4, OfNone DEF Waits
      <4> QED  BY <1>1, <4>2, <4>3, <4>5 DEF Done
    <3> QED  BY <1>3, <2>2, <3>1, <3>2, <3>3 DEF Values
  <2> QED  BY <1>6, <2>3, <2>4
<1> QED  BY <1>8, <1>9, <1>10, <1>11, <1>12, <1>13 DEF IInv

----------------------------------------------------------------------------
(* The end of a micro-step. *)
LEMMA NoStepKeeps ==
    ASSUME IInv, NoStep
    PROVE  IInv'
<1>1. /\ phase = "step" /\ ~Boundary /\ phase' = "idle" /\ microSteps' = microSteps + 1
      /\ Types /\ Typed /\ Lists /\ Phases /\ Buffers /\ Batch /\ Values
      /\ config' = config /\ microStep' = microStep /\ mem' = mem /\ used' = used /\ bad' = bad
      /\ UNCHANGED <<unready, bucket, large, ipg, ipgIndex, reduced, job, calm>>
  BY DEF NoStep, IInv, Types
<1>2. Params' = Params /\ Zeros' = Zeros /\ Owned' = Owned
      /\ \A p : Uses(p)' = Uses(p)
  BY <1>1 DEF Params, Zeros, Owned, Uses
<1>3. microSteps \in Nat /\ microStep \in Int /\ microStep >= 0 /\ MemOK(mem)
      /\ config.stage \in {1, 2} /\ ThisStep = microSteps + 1
  BY <1>1, StageIs DEF Types, ThisStep
<1>4. Types'  BY <1>1, <1>3, MemNext DEF Types, Typed
<1>5. Lists'  BY <1>1, <1>2 DEF Lists, Once
<1>6. Phases'  BY <1>1 DEF Phases, Settled
<1>7. Buffers'  BY <1>1, BuffersSame
<1>8. Batch'  BY <1>1, <1>2, <1>3 DEF Batch
<1>9. Values'
  <2>1. Begun' = microStep + 1 /\ Begun' # 0 /\ Begun = microStep
    BY <1>1, <1>3 DEF Begun
  <2>2. config.gas # 1  BY <1>1, <1>3 DEF Boundary
  <2>3. AllWait' /\ phase' # "ended" /\ \A q : Fresh(q)' = New(q)'
    BY <1>1 DEF AllWait, Fresh
  <2> SUFFICES ASSUME NEW q \in Owned PROVE Waits(mem, q, Fresh(q))'
    BY <1>2, <2>3 DEF Values
  <2>4. OnCpu(mem, q)' = OnCpu(mem, q)  BY <1>1 DEF OnCpu
  <2>5. q \in Params  BY OwnedIs
  <2>6. CASE config.stage = 1
    <3>1. New(q)' = Uses(q) /\ New(q) = Uses(q) /\ Old(q) = {} /\ Old(q)' = {}
      BY <1>1, <1>2, <2>6 DEF New, Old
    <3>2. Waits(mem, q, Uses(q))
      BY <1>1, <2>6, <3>1 DEF Values, AllWait, Fresh
    <3>3. OnCpu(mem, q) = Of({}, 1)
      BY <1>1, <2>5, <2>6, OfNone DEF OnCpu, Batch, Zeros, Typed, ConfigOK
    <3> QED  BY <1>1, <2>1, <2>2, <2>3, <2>4, <3>1, <3>2, <3>3 DEF Waits
  <2>7. CASE config.stage = 2
    <3>1. New(q)' = {} /\ Old(q)' = Uses(q)
      <4>1. Uses(q) \subseteq 1 .. microSteps + 1
        BY <1>1, <1>3, <2>5 DEF Batch
      <4>2. ThisStep' = microSteps + 1 + 1  BY <1>1 DEF ThisStep
      <4>3. ThisStep' \notin Uses(q)  BY <1>3, <4>1, <4>2
      <4>4. New(q)' = {}  BY <1>1, <1>2, <2>7, <4>3 DEF New
      <4> QED  BY <1>2, <4>4 DEF Old
    <3>2. Ready(mem, q)  BY <1>1, <2>7 DEF Values, AllWait
    <3>3. mem.grad[q] = Of({}, 0)  BY <3>2, OfNone DEF Ready
    <3>4. IF config.offload THEN OnCpu(mem, q) = Of(Uses(q), 1) ELSE mem.kept[q] = Of(Uses(q), 1)
      BY <1>1, <3>2 DEF Ready, StoredOnCpu
    <3> QED  BY <1>1, <2>1, <2>2, <2>3, <2>4, <3>1, <3>3, <3>4 DEF Waits
  <2> QED  BY <1>3, <2>6, <2>7
<1> QED  BY <1>4, <1>5, <1>6, <1>7, <1>8, <1>9 DEF IInv

----------------------------------------------------------------------------
(* A step. *)
Cleaned(overflow) == IF overflow THEN OverflowCleans ELSE StepCleans

LEMMA CleanedIs ==
    ASSUME MemOK(mem), NEW overflow \in BOOLEAN
    PROVE  \E g : /\ g = [p \in Params |-> g[p]] /\ Cleans(mem, g, Cleaned(overflow))
                  /\ ~config.offload => g = Zeros
<1> DEFINE g == IF overflow /\ config.offload THEN mem.kept ELSE Zeros
<1>1. Cleaned(overflow) = Cleaning(mem, g)
  BY DEF Cleaned, OverflowCleans, StepCleans, Cleaning, Collecting, WithOverflow, WithGrad,
         WithKept
<1>2. g = [p \in Params |-> g[p]] /\ (~config.offload => g = Zeros)
  BY DEF MemOK, Zeros
<1> HIDE DEF g
<1>3. Cleans(mem, g, Cleaning(mem, g))  BY <1>2, CleanedFields
<1> QED  BY <1>1, <1>2, <1>3

(* The optimizer steps or skips the step: the next batch has nothing yet. *)
LEMMA StepKeeps ==
    ASSUME IInv, NEW elsewhere \in BOOLEAN, Step(elsewhere)
    PROVE  IInv'
<1>1. /\ phase = "step" /\ Boundary
      /\ Types /\ Typed /\ Lists /\ Phases /\ Buffers /\ Batch /\ Values
      /\ UNCHANGED <<config, unready, bucket, large, ipg, ipgIndex, reduced, job>>
      /\ microStep' = -1
  BY DEF Step, GiveUp, IInv, Types
<1>2. Params' = Params /\ Zeros' = Zeros /\ Owned' = Owned
  BY <1>1 DEF Params, Zeros, Owned
<1>3. microSteps \in Nat /\ MemOK(mem) /\ config.stage \in {1, 2} /\ calm \in Nat
  BY <1>1, StageIs DEF Types
<1>4. phase' \in {"idle", "ended"}  BY DEF Step, GiveUp
<1>5. Lists'  BY <1>1, <1>2, <1>4 DEF Lists, Once
<1>6. Phases'  BY <1>1, <1>4 DEF Phases, Settled
<1>7. Buffers'  BY <1>1, BuffersSame
<1>8. CASE phase' = "ended"
  <2>1. microSteps' = microSteps /\ mem' = mem /\ used' = used /\ bad' = bad /\ calm' = calm
    BY <1>8 DEF Step, GiveUp
  <2>2. Types'  BY <1>1, <1>3, <1>8, <2>1, MemNext DEF Types, Typed
  <2>3. \A p : Uses(p)' = Uses(p)  BY <2>1 DEF Uses
  <2>4. ThisStep' = ThisStep  BY <2>1 DEF ThisStep
  <2>5. Batch'  BY <1>1, <1>2, <1>8, <2>1, <2>3, <2>4 DEF Batch
  <2>6. Values'  BY <1>8 DEF Values
  <2> QED  BY <1>5, <1>6, <1>7, <2>2, <2>5, <2>6 DEF IInv
<1>9. CASE phase' = "idle"
  <2> DEFINE overflow == LocalOverflow \/ elsewhere
  <2>1. /\ microSteps' = microSteps + 1 /\ mem' = Cleaned(overflow)
        /\ used' = Zeros /\ bad' = {}
        /\ calm' = IF overflow THEN 0 ELSE calm + 1
    BY <1>9 DEF Step, GiveUp, Cleaned
  <2>2. overflow \in BOOLEAN  OBVIOUS
  <2> HIDE DEF overflow
  <2>3. PICK g : /\ g = [p \in Params |-> g[p]] /\ Cleans(mem, g, mem')
                 /\ ~config.offload => g = Zeros
    BY <1>3, <2>1, <2>2, CleanedIs
  <2>4. /\ MemOK(mem') /\ mem'.kept = g /\ mem'.grad = Zeros /\ mem'.cpu = mem.cpu
        /\ mem'.overflow = FALSE
    BY <2>3 DEF Cleans
  <2>5. Types'  BY <1>1, <1>3, <1>9, <2>1, <2>4, MemNext DEF Types, Typed
  <2>6. \A p \in Params : Zeros[p] = Of({}, 1) /\ Zeros[p] = Of({}, 0)
    BY OfNone DEF Zeros
  <2>7. \A p \in Params : Uses(p)' = {} /\ New(p)' = {} /\ Old(p)' = {}
    <3> SUFFICES ASSUME NEW p \in Params PROVE Uses(p)' = {} /\ New(p)' = {} /\ Old(p)' = {}
      OBVIOUS
    <3>1. used'[p] = Of({}, 1)  BY <2>1, <2>6
    <3>2. Uses(p)' = {}  BY <3>1, OfDomain DEF Uses
    <3> QED  BY <3>2 DEF New, Old
  <2>8. Batch'
    <3>1. used' = [p \in Params |-> Of(Uses(p)', 1)]
      <4>1. used' = [p \in Params |-> used'[p]]  BY <2>1 DEF Zeros
      <4> QED  BY <2>1, <2>6, <2>7, <4>1
    <3>2. config.stage = 1 => mem.cpu = Zeros  BY <1>1 DEF Batch
    <3> QED  BY <1>1, <1>2, <1>9, <2>1, <2>4, <2>7, <3>1, <3>2 DEF Batch
  <2>9. Values'
    <3>1. AllWait' /\ phase' # "ended" /\ Begun' = 0
      BY <1>1, <1>9 DEF AllWait, Begun
    <3> SUFFICES ASSUME NEW q \in Owned PROVE Waits(mem, q, Fresh(q))'
      BY <1>2, <3>1 DEF Values
    <3>2. q \in Params  BY OwnedIs
    <3>3. Fresh(q)' = {} /\ Old(q)' = {}  BY <1>9, <2>7, <3>2 DEF Fresh
    <3>4. mem'.grad[q] = Of({}, 0) /\ (~config.offload => mem'.kept[q] = Of({}, 1))
      BY <2>3, <2>4, <2>6, <3>2
    <3> QED  BY <1>1, <3>1, <3>3, <3>4 DEF Waits
  <2> QED  BY <1>5, <1>6, <1>7, <2>5, <2>8, <2>9 DEF IInv
<1> QED  BY <1>4, <1>8, <1>9

----------------------------------------------------------------------------
(* Nothing has a gradient at first. *)
LEMMA InitIInv ==
    ASSUME Init
    PROVE  IInv
<1>1. /\ config \in Configs /\ phase = "idle" /\ microSteps = 0 /\ microStep = 0
      /\ unready = {} /\ bucket = << >> /\ large = None /\ ipg = FreshBuffers /\ ipgIndex = 0
      /\ reduced = {} /\ job = NoJob /\ mem = Memory /\ used = Zeros /\ bad = {} /\ calm = 0
  BY DEF Init
<1>2. Typed  BY <1>1, ConfigsAssumption DEF Typed
<1>3. NoJob.params = << >> /\ Range(<< >>) = {} /\ NoJob.buffer = -1 /\ Once(<< >>)
      /\ << >> \in Seq(Params) /\ DOMAIN << >> = {}
  BY DEF NoJob, Range, Once
<1>4. /\ mem.grad = Zeros /\ mem.kept = Zeros /\ mem.cpu = Zeros /\ mem.fp32 = Zeros
      /\ mem.overflow = FALSE /\ MemOK(mem)
  <2>1. Zeros = [p \in Params |-> Zeros[p]]  BY DEF Zeros
  <2>2. mem = [grad |-> Zeros, kept |-> Zeros, cpu |-> Zeros, fp32 |-> Zeros, overflow |-> FALSE]
    BY <1>1 DEF Memory
  <2> HIDE DEF Zeros
  <2> QED  BY <2>1, <2>2 DEF MemOK
<1>5. \A p \in Params : Zeros[p] = Of({}, 1) /\ Zeros[p] = Of({}, 0)
  BY OfNone DEF Zeros
<1>6. \A p \in Params : Uses(p) = {} /\ New(p) = {} /\ Old(p) = {}
  <2> SUFFICES ASSUME NEW p \in Params PROVE Uses(p) = {} /\ New(p) = {} /\ Old(p) = {}
    OBVIOUS
  <2>1. used[p] = Of({}, 1)  BY <1>1, <1>5
  <2>2. Uses(p) = {}  BY <2>1, OfDomain DEF Uses
  <2> QED  BY <2>2 DEF New, Old
<1>7. Types  BY <1>1, <1>2, <1>4 DEF Types
<1>8. Lists  BY <1>1, <1>3 DEF Lists
<1>9. Phases  BY <1>1 DEF Phases, Settled
<1>10. Buffers
  <2>1. config.bucketSize \in Nat  BY <1>2 DEF Typed, ConfigOK
  <2> QED  BY <1>1, <1>3, <2>1, ElementsEmpty DEF Buffers, FreshBuffers
<1>11. Batch
  <2>1. used = [p \in Params |-> Of(Uses(p), 1)]
    <3>1. used = [p \in Params |-> used[p]]  BY <1>1 DEF Zeros
    <3> QED  BY <1>1, <1>5, <1>6, <3>1
  <2> QED  BY <1>1, <1>4, <1>6, <2>1 DEF Batch
<1>12. Values
  <2> SUFFICES ASSUME NEW q \in Owned PROVE Waits(mem, q, Fresh(q))
    BY <1>1 DEF Values, AllWait
  <2>1. q \in Params  BY OwnedIs
  <2>2. Fresh(q) = {} /\ Old(q) = {}  BY <1>1, <1>6, <2>1 DEF Fresh
  <2>3. OnCpu(mem, q) = Of({}, 1)  BY <1>4, <1>5, <2>1 DEF OnCpu
  <2>4. mem.grad[q] = Of({}, 0) /\ mem.kept[q] = Of({}, 1)  BY <1>4, <1>5, <2>1
  <2> QED  BY <2>2, <2>3, <2>4 DEF Waits
<1> QED  BY <1>7, <1>8, <1>9, <1>10, <1>11, <1>12 DEF IInv

LEMMA StutterKeeps ==
    ASSUME IInv, UNCHANGED vars
    PROVE  IInv'
<1>1. /\ Types /\ Typed /\ Lists /\ Phases /\ Buffers /\ Batch /\ Values
      /\ phase' = phase /\ mem' = mem /\ calm' = calm /\ Still
      /\ UNCHANGED <<unready, bucket, large, ipg, ipgIndex, reduced, job>>
  BY DEF IInv, Types, vars, Still
<1>2. config' = config /\ microSteps' = microSteps /\ microStep' = microStep
  BY <1>1 DEF Still
<1>3. Params' = Params /\ Boundary' = Boundary  BY <1>2 DEF Params, Boundary
<1>4. Types'
  <2>1. MemOK(mem')  BY <1>1 DEF Types
  <2> QED  BY <1>1, <1>2, <2>1, TypesNext
<1>5. Lists'  BY <1>1, <1>3 DEF Lists, Once
<1>6. Phases'  BY <1>1, <1>2, <1>3 DEF Phases, Settled
<1>7. Buffers'  BY <1>1, <1>2, BuffersSame
<1>8. Batch'
  <2>1. (mem'.overflow => bad # {}) /\ (config.stage = 1 => mem'.cpu = Zeros)
    BY <1>1 DEF Batch
  <2> QED  BY <1>1, <2>1, BatchNext
<1>9. Values'
  <2>1. AllWait' = AllWait /\ Pending' = Pending /\ Begun' = Begun
    BY <1>1, <1>2, <1>3 DEF AllWait, Pending, Begun
  <2>2. \A q : Fresh(q)' = Fresh(q)  BY <1>1, StillIs DEF Fresh
  <2>3. ASSUME phase # "ended", NEW q \in Owned
        PROVE  /\ AllWait => Waits(mem, q, Fresh(q))'
               /\ ~AllWait /\ phase = "step" => Ready(mem, q)'
               /\ ~AllWait /\ phase # "step" /\ q \in Pending => Waits(mem, q, Fresh(q))'
               /\ ~AllWait /\ phase # "step" /\ q \notin Pending => Done(mem, q)'
    <3>1. /\ AllWait => Waits(mem, q, Fresh(q))
          /\ ~AllWait /\ phase = "step" => Ready(mem, q)
          /\ ~AllWait /\ phase # "step" /\ q \in Pending => Waits(mem, q, Fresh(q))
          /\ ~AllWait /\ phase # "step" /\ q \notin Pending => Done(mem, q)
      BY <1>1, <2>3 DEF Values
    <3>2. /\ Waits(mem, q, Fresh(q)) => Waits(mem, q, Fresh(q))'
          /\ Done(mem, q) => Done(mem, q)'
          /\ Ready(mem, q) => Ready(mem, q)'
      BY <1>1, <2>1, <2>2, PredicatesNext
    <3> QED  BY <3>1, <3>2
  <2> QED  BY <1>1, <2>1, <2>3, StillIs DEF Values
<1> QED  BY <1>4, <1>5, <1>6, <1>7, <1>8, <1>9 DEF IInv

(* Every step keeps the invariant. *)
LEMMA NextKeepsIInv ==
    ASSUME StaticOffload, IInv, [Next]_vars
    PROVE  IInv'
<1>1. CASE UNCHANGED vars  BY <1>1, StutterKeeps
<1>2. ASSUME NEW given \in SUBSET Params, NEW overflow \in Params \cup {None},
             Backward(given, overflow)
      PROVE  IInv'
  BY <1>2, BackwardKeeps
<1>3. ASSUME NEW p \in Params, GradReady(p) PROVE IInv'
  BY <1>3, GradReadyKeeps
<1>4. ASSUME NEW p \in Params, ReduceNext(p) PROVE IInv'
  BY <1>4, ReduceNextKeeps
<1>5. CASE BackwardDone  BY <1>5, BackwardDoneKeeps
<1>6. CASE AllReduced  BY <1>6, AllReducedKeeps
<1>7. CASE StreamRuns  BY <1>7, StreamRunsKeeps
<1>8. CASE EpilogueFlush  BY <1>8, EpilogueFlushKeeps
<1>9. CASE EpilogueCollect  BY <1>9, EpilogueCollectKeeps
<1>10. CASE NoStep  BY <1>10, NoStepKeeps
<1>11. ASSUME NEW elsewhere \in BOOLEAN, Step(elsewhere) PROVE IInv'
  BY <1>11, StepKeeps
<1> QED
  BY <1>1, <1>2, <1>3, <1>4, <1>5, <1>6, <1>7, <1>8, <1>9, <1>10, <1>11 DEF Next

----------------------------------------------------------------------------
(* What a step applies. *)
LEMMA IInvApplies ==
    ASSUME IInv
    PROVE  StepUsesTheBatch
<1>1. phase # "raised" /\ Values /\ Batch /\ Typed  BY DEF IInv, Types
<1>2. ASSUME phase = "step", Boundary, NEW p \in Owned PROVE ToApply(p) = used[p]
  <2>1. p \in Params  BY OwnedIs
  <2>2. used[p] = Of(Uses(p), 1)  BY <1>1, <2>1 DEF Batch
  <2>3. Ready(mem, p)  BY <1>1, <1>2 DEF Values, AllWait
  <2> QED  BY <1>2, <2>2, <2>3 DEF Ready, StoredOnCpu, ToApply
<1> QED  BY <1>1, <1>2 DEF StepUsesTheBatch

(* What a step skips. *)
LEMMA IInvSkips ==
    ASSUME IInv, NEW elsewhere \in BOOLEAN, Step(elsewhere), phase' = "idle"
    PROVE  /\ calm' = 0 => bad # {}
           /\ (\E p \in Owned : Overflows(p, used[p])) => calm' = 0
<1>1. /\ phase = "step" /\ Boundary /\ Values /\ Batch /\ calm \in Nat
      /\ elsewhere => bad # {}
      /\ calm' = IF LocalOverflow \/ elsewhere THEN 0 ELSE calm + 1
  BY DEF IInv, Types, Step, GiveUp
<1>2. LocalOverflow => bad # {}  BY <1>1 DEF LocalOverflow, Batch, Overflows
<1>3. ASSUME NEW p \in Owned, Overflows(p, used[p]) PROVE LocalOverflow
  <2>1. p \in Params  BY OwnedIs
  <2>2. used[p] = Of(Uses(p), 1)  BY <1>1, <2>1 DEF Batch
  <2>3. Ready(mem, p)  BY <1>1 DEF Values, AllWait
  <2> QED  BY <1>1, <1>3, <2>2, <2>3 DEF Ready, StoredOnCpu, LocalOverflow
<1>4. calm + 1 # 0  BY <1>1
<1> QED  BY <1>1, <1>2, <1>3, <1>4

(* Only a step leads from the phase of the step to the next batch. *)
LEMMA StepIs ==
    ASSUME [Next]_vars, phase = "step", Boundary, phase' = "idle"
    PROVE  \E elsewhere \in BOOLEAN : Step(elsewhere)
BY DEF Next, vars, Backward, GradReady, ReduceNext, BackwardDone, AllReduced, StreamRuns,
       EpilogueFlush, EpilogueCollect, NoStep

(* When the optimizer steps, it applies to what it owns the gradients of
   the batch, each micro-step once and averaged once, and no assertion of
   the reduction ever fails (StepUsesTheBatch). *)
THEOREM StepUsesTheBatchTheorem ==
    ASSUME StaticOffload
    PROVE  Spec => []StepUsesTheBatch
<1>1. Init => IInv  BY InitIInv
<1>2. IInv /\ [Next]_vars => IInv'  BY NextKeepsIInv
<1>3. IInv => StepUsesTheBatch  BY IInvApplies
<1> QED  BY <1>1, <1>2, <1>3, PTL DEF Spec

(* A step is skipped for an overflow of its own batch, and whenever a
   gradient it would apply overflowed (OnlyOverflowsAreSkipped). *)
THEOREM OnlyOverflowsAreSkippedTheorem ==
    ASSUME StaticOffload
    PROVE  Spec => OnlyOverflowsAreSkipped
<1> DEFINE A == phase = "step" /\ Boundary /\ phase' = "idle" =>
                    /\ calm' = 0 => bad # {}
                    /\ (\E p \in Owned : Overflows(p, used[p])) => calm' = 0
<1>1. Init => IInv  BY InitIInv
<1>2. IInv /\ [Next]_vars => IInv'  BY NextKeepsIInv
<1>3. IInv /\ [Next]_vars => A
  <2> SUFFICES ASSUME IInv, [Next]_vars, phase = "step", Boundary, phase' = "idle"
               PROVE  /\ calm' = 0 => bad # {}
                      /\ (\E p \in Owned : Overflows(p, used[p])) => calm' = 0
    OBVIOUS
  <2> QED  BY StepIs, IInvSkips
<1>4. IInv /\ [Next]_vars => [A]_vars  BY <1>3
<1> QED  BY <1>1, <1>2, <1>4, PTL DEF Spec, OnlyOverflowsAreSkipped

----------------------------------------------------------------------------
(* The loss scaler: a scale never starts below the least one. *)
ScalesFit == \A c \in Configs : c.scaler.min_scale <= c.scaler.init_scale

ScaleInv ==
    /\ config \in Configs
    /\ calm \in Nat /\ scaler.cur_iter \in Int /\ scaler.last_overflow_iter \in Int
    /\ calm = scaler.cur_iter - scaler.last_overflow_iter - 1
    /\ scaler.cur_scale \in Nat \ {0} /\ config.scaler.min_scale <= scaler.cur_scale

LEMMA SettingsAre ==
    ASSUME config \in Configs
    PROVE  /\ config.scaler.init_scale \in Nat \ {0} /\ config.scaler.min_scale \in Nat \ {0}
           /\ config.scaler.scale_window \in Nat \ {0}
BY ConfigsAssumption DEF ConfigOK, Settings

(* The scaler starts as if an overflow had just been. *)
LEMMA InitScaleInv ==
    ASSUME ScalesFit, Init
    PROVE  ScaleInv
<1>1. /\ config \in Configs /\ calm = 0
      /\ scaler.cur_scale = config.scaler.init_scale /\ scaler.cur_iter = 0
      /\ scaler.last_overflow_iter = -1
  BY DEF Init, NewScaler
<1> QED  BY <1>1, SettingsAre DEF ScaleInv, ScalesFit

(* Half of the scale, but not less than the least one. *)
LEMMA ShrunkScale ==
    ASSUME NEW a \in Nat \ {0}, NEW b \in Nat \ {0}, b <= a
    PROVE  Larger(a \div 2, b) \in Nat \ {0} /\ b <= Larger(a \div 2, b)
           /\ Larger(a \div 2, b) <= a
<1>1. a \div 2 \in Nat /\ a \div 2 <= a  OBVIOUS
<1> QED  BY <1>1 DEF Larger

(* What a step does to the scale. *)
LEMMA StepScales ==
    ASSUME ScaleInv, NEW elsewhere \in BOOLEAN, Step(elsewhere), phase' = "idle"
    PROVE  /\ ScaleInv'
           /\ LET earned == calm' > 0 /\ calm' % config.scaler.scale_window = 0
              IN  /\ scaler'.cur_scale > scaler.cur_scale <=> earned
                  /\ scaler'.cur_scale < scaler.cur_scale => calm' = 0
<1> DEFINE s == config.scaler
           overflow == LocalOverflow \/ elsewhere
<1>1. /\ config' = config /\ scaler' = UpdateScale(s, scaler, overflow)
      /\ calm' = IF overflow THEN 0 ELSE calm + 1
  BY DEF Step, GiveUp
<1>2. /\ calm \in Nat /\ scaler.cur_iter \in Int /\ scaler.last_overflow_iter \in Int
      /\ calm + 1 = scaler.cur_iter - scaler.last_overflow_iter
      /\ scaler.cur_scale \in Nat \ {0} /\ s.min_scale <= scaler.cur_scale
      /\ config \in Configs /\ s.min_scale \in Nat \ {0} /\ s.scale_window \in Nat \ {0}
  BY SettingsAre DEF ScaleInv
<1> HIDE DEF s, overflow
<1>3. CASE overflow
  <2>1. /\ scaler'.cur_iter = scaler.cur_iter + 1
        /\ scaler'.last_overflow_iter = scaler.cur_iter
        /\ scaler'.cur_scale = IF Shrinks(s, scaler)
                               THEN Larger(scaler.cur_scale \div 2, s.min_scale)
                               ELSE scaler.cur_scale
    BY <1>1, <1>3 DEF UpdateScale, AfterOverflow
  <2>2. /\ scaler'.cur_scale \in Nat \ {0} /\ s.min_scale <= scaler'.cur_scale
        /\ scaler'.cur_scale <= scaler.cur_scale
    BY <1>2, <2>1, ShrunkScale
  <2>3. calm' = 0  BY <1>1, <1>3
  <2>4. ScaleInv'  BY <1>1, <1>2, <2>1, <2>2, <2>3 DEF ScaleInv, s
  <2> QED  BY <1>2, <2>2, <2>3, <2>4
<1>4. CASE ~overflow
  <2>1. /\ scaler'.cur_iter = scaler.cur_iter + 1
        /\ scaler'.last_overflow_iter = scaler.last_overflow_iter
        /\ scaler'.cur_scale = IF WindowIsOver(s, scaler) THEN 2 * scaler.cur_scale
                               ELSE scaler.cur_scale
    BY <1>1, <1>4 DEF UpdateScale, AfterGoodStep
  <2>2. calm' = calm + 1 /\ calm' = scaler.cur_iter - scaler.last_overflow_iter
    BY <1>1, <1>2, <1>4
  <2>3. WindowIsOver(s, scaler) <=> calm' % s.scale_window = 0
    BY <2>2 DEF WindowIsOver
  <2>4. /\ scaler'.cur_scale \in Nat \ {0} /\ scaler.cur_scale <= scaler'.cur_scale
        /\ scaler'.cur_scale > scaler.cur_scale <=> WindowIsOver(s, scaler)
    BY <1>2, <2>1
  <2>5. ScaleInv'  BY <1>1, <1>2, <2>1, <2>2, <2>4 DEF ScaleInv, s
  <2>6. calm' > 0 /\ ~(scaler'.cur_scale < scaler.cur_scale)
    BY <1>2, <2>2, <2>4
  <2> QED  BY <2>3, <2>4, <2>5, <2>6 DEF s
<1> QED  BY <1>3, <1>4

(* Only a step changes the scaler. *)
LEMMA NextKeepsScaleInv ==
    ASSUME ScaleInv, [Next]_vars
    PROVE  ScaleInv'
<1>1. ASSUME NEW elsewhere \in BOOLEAN, Step(elsewhere) PROVE ScaleInv'
  <2>1. CASE phase' = "idle"  BY <1>1, <2>1, StepScales
  <2>2. CASE phase' # "idle"
    <3>1. config' = config /\ scaler' = scaler /\ calm' = calm
      BY <1>1, <2>2 DEF Step, GiveUp
    <3> QED  BY <3>1 DEF ScaleInv
  <2> QED  BY <2>1, <2>2
<1>2. ASSUME config' = config, scaler' = scaler, calm' = calm PROVE ScaleInv'
  BY <1>2 DEF ScaleInv
<1>3. ASSUME NEW p, GradReady(p) \/ ReduceNext(p) PROVE ScaleInv'
  BY <1>2, <1>3 DEF GradReady, ReduceNext, Raise
<1>4. ASSUME NEW given, NEW overflow, Backward(given, overflow) PROVE ScaleInv'
  BY <1>2, <1>4 DEF Backward
<1>5. CASE BackwardDone \/ AllReduced \/ StreamRuns \/ EpilogueCollect \/ NoStep \/ UNCHANGED vars
  BY <1>2, <1>5 DEF BackwardDone, AllReduced, StreamRuns, EpilogueCollect, NoStep, vars
<1>6. CASE EpilogueFlush  BY <1>2, <1>6 DEF EpilogueFlush, Raise
<1> QED  BY <1>1, <1>3, <1>4, <1>5, <1>6 DEF Next

(* The scale grows exactly when another scale_window steps in a row had no
   overflow, and shrinks only at an overflow (ScaleIsEarned), if it does
   not start below the least scale. *)
THEOREM ScaleIsEarnedTheorem ==
    ASSUME ScalesFit
    PROVE  Spec => ScaleIsEarned
<1> DEFINE A == phase = "step" /\ Boundary /\ phase' = "idle" =>
                    LET earned == calm' > 0 /\ calm' % config.scaler.scale_window = 0
                    IN  /\ scaler'.cur_scale > scaler.cur_scale <=> earned
                        /\ scaler'.cur_scale < scaler.cur_scale => calm' = 0
<1>1. Init => ScaleInv  BY InitScaleInv
<1>2. ScaleInv /\ [Next]_vars => ScaleInv'  BY NextKeepsScaleInv
<1>3. ScaleInv /\ [Next]_vars => A  BY StepIs, StepScales
<1>4. ScaleInv /\ [Next]_vars => [A]_vars  BY <1>3
<1> QED  BY <1>1, <1>2, <1>4, PTL DEF Spec, ScaleIsEarned

----------------------------------------------------------------------------
(* Where the pieces of a row begin: S[k] for the k-th, S[n + 1] its end. *)
Cut(S, n) ==
    /\ n \in Nat /\ S \in [1 .. n + 1 -> Nat]
    /\ \A k \in 1 .. n : S[k] < S[k + 1]

LEMMA CutGrows ==
    ASSUME NEW S, NEW n, Cut(S, n), NEW i \in 1 .. n + 1, NEW j \in 1 .. n + 1, i < j
    PROVE  S[i] < S[j] /\ S[i + 1] <= S[j]
<1> DEFINE T == {d \in Nat : i + 1 + d <= n + 1 => S[i + 1] <= S[i + 1 + d]}
<1>1. n \in Nat /\ \A k \in 1 .. n + 1 : S[k] \in Nat  BY DEF Cut
<1>2. 0 \in T
  <2>1. i + 1 \in 1 .. n + 1 /\ i + 1 + 0 = i + 1  BY <1>1
  <2> QED  BY <1>1, <2>1
<1>3. ASSUME NEW d \in Nat, d \in T PROVE d + 1 \in T
  <2> SUFFICES ASSUME i + 1 + (d + 1) <= n + 1 PROVE S[i + 1] <= S[i + 1 + (d + 1)]
    OBVIOUS
  <2>1. /\ i + 1 + d \in 1 .. n /\ i + 1 + (d + 1) = (i + 1 + d) + 1
        /\ i + 1 + d \in 1 .. n + 1 /\ i + 1 \in 1 .. n + 1 /\ (i + 1 + d) + 1 \in 1 .. n + 1
    BY <1>1
  <2>2. S[i + 1 + d] < S[(i + 1 + d) + 1]  BY <2>1 DEF Cut
  <2>3. S[i + 1] <= S[i + 1 + d]  BY <1>1, <1>3, <2>1
  <2>4. S[i + 1] \in Nat /\ S[i + 1 + d] \in Nat /\ S[(i + 1 + d) + 1] \in Nat
    BY <1>1, <2>1
  <2> QED  BY <2>1, <2>2, <2>3, <2>4
<1> HIDE DEF T
<1>4. j - (i + 1) \in T
  <2>1. j - (i + 1) \in Nat  BY <1>1
  <2> QED  BY <1>2, <1>3, <2>1, Induction
<1>5. S[i + 1] <= S[j]
  <2>1. i + 1 + (j - (i + 1)) = j  BY <1>1
  <2> QED  BY <1>1, <1>4, <2>1 DEF T
<1>6. S[i] < S[i + 1] /\ S[i] \in Nat /\ S[i + 1] \in Nat /\ S[j] \in Nat
  <2>1. i \in 1 .. n /\ i + 1 \in 1 .. n + 1  BY <1>1
  <2> QED  BY <1>1, <2>1 DEF Cut
<1> QED  BY <1>5, <1>6

(* Each place of the row is in one piece. *)
LEMMA CutCovers ==
    ASSUME NEW S, NEW n, Cut(S, n), NEW x \in Nat, S[1] <= x, x < S[n + 1]
    PROVE  \E k \in 1 .. n : S[k] <= x /\ x < S[k + 1]
<1> DEFINE T == {k \in 1 .. n + 1 : x < S[k]}
<1>1. n \in Nat /\ \A k \in 1 .. n + 1 : S[k] \in Nat  BY DEF Cut
<1>2. T \subseteq Nat /\ T # {} /\ 1 \notin T
  <2>1. n + 1 \in T /\ 1 \in 1 .. n + 1  BY <1>1
  <2>2. ~(x < S[1])  BY <1>1, <2>1
  <2> QED  BY <2>1, <2>2
<1>3. PICK m \in T : \A k \in T : m <= k
  <2> HIDE DEF T
  <2> QED  BY <1>2, LeastNat
<1>4. m - 1 \in 1 .. n /\ (m - 1) + 1 = m /\ x < S[m] /\ m - 1 \in 1 .. n + 1
  BY <1>1, <1>2, <1>3
<1>5. ~(x < S[m - 1])
  <2>1. m - 1 \notin T  BY <1>3, <1>4
  <2> QED  BY <1>4, <2>1
<1>6. S[m - 1] <= x  BY <1>1, <1>4, <1>5
<1> QED  BY <1>4, <1>6

LEMMA CutOnce ==
    ASSUME NEW S, NEW n, Cut(S, n), NEW x \in Nat, NEW i \in 1 .. n, NEW j \in 1 .. n,
           S[i] <= x, x < S[i + 1], S[j] <= x, x < S[j + 1]
    PROVE  i = j
<1>1. /\ n \in Nat /\ i \in 1 .. n + 1 /\ j \in 1 .. n + 1
      /\ i + 1 \in 1 .. n + 1 /\ j + 1 \in 1 .. n + 1
  BY DEF Cut
<1>2. S[i] \in Nat /\ S[j] \in Nat /\ S[i + 1] \in Nat /\ S[j + 1] \in Nat
  BY <1>1 DEF Cut
<1>3. i < j => S[i + 1] <= S[j]  BY <1>1, CutGrows
<1>4. j < i => S[j + 1] <= S[i]  BY <1>1, CutGrows
<1> QED  BY <1>1, <1>2, <1>3, <1>4

(* The parameters in the flat buffer. *)
Sized(numel) == numel \in Seq(Nat \ {0})
Starts(numel) == [k \in 1 .. Len(numel) + 1 |-> StartOf(numel, k)]

LEMMA StartsCut ==
    ASSUME NEW numel, Sized(numel)
    PROVE  /\ Cut(Starts(numel), Len(numel)) /\ Starts(numel)[1] = 0
           /\ Starts(numel)[Len(numel) + 1] = Sum(numel)
           /\ \A k \in 1 .. Len(numel) :
                  /\ Starts(numel)[k] = StartOf(numel, k) /\ numel[k] \in Nat \ {0}
                  /\ Starts(numel)[k + 1] = Starts(numel)[k] + numel[k]
<1> DEFINE n == Len(numel)
           S == Starts(numel)
<1>1. n \in Nat /\ numel \in Seq(Nat) /\ \A k \in 1 .. n : numel[k] \in Nat \ {0}
  BY DEF Sized
<1>2. \A k \in 1 .. n + 1 : SubSeq(numel, 1, k - 1) \in Seq(Nat)  BY <1>1
<1>3. \A k \in 1 .. n + 1 : StartOf(numel, k) \in Nat
  BY <1>2, SumIsNat DEF StartOf
<1>4. ASSUME NEW k \in 1 .. n PROVE StartOf(numel, k + 1) = StartOf(numel, k) + numel[k]
  <2>1. SubSeq(numel, 1, (k + 1) - 1) = Append(SubSeq(numel, 1, k - 1), numel[k])
    BY <1>1
  <2>2. SubSeq(numel, 1, k - 1) \in Seq(Nat) /\ numel[k] \in Nat  BY <1>1, <1>2
  <2> QED  BY <2>1, <2>2, SumAppend DEF StartOf
<1>5. StartOf(numel, 1) = 0
  <2>1. SubSeq(numel, 1, 1 - 1) = << >>  BY <1>1
  <2> QED  BY <2>1, SumEmpty DEF StartOf
<1>6. StartOf(numel, n + 1) = Sum(numel)
  <2>1. SubSeq(numel, 1, (n + 1) - 1) = numel  BY <1>1
  <2> QED  BY <2>1 DEF StartOf
<1>7. \A k \in 1 .. n + 1 : S[k] = StartOf(numel, k)  BY DEF Starts
<1>8. S \in [1 .. n + 1 -> Nat]  BY <1>3 DEF Starts
<1> HIDE DEF S, n
<1>9. \A k \in 1 .. n : k \in 1 .. n + 1 /\ k + 1 \in 1 .. n + 1  BY <1>1
<1>10. \A k \in 1 .. n : S[k + 1] = S[k] + numel[k]  BY <1>4, <1>7, <1>9
<1>11. \A k \in 1 .. n : S[k] < S[k + 1]
  <2> SUFFICES ASSUME NEW k \in 1 .. n PROVE S[k] < S[k + 1]  OBVIOUS
  <2>1. S[k] \in Nat /\ numel[k] \in Nat \ {0} /\ S[k + 1] = S[k] + numel[k]
    BY <1>1, <1>8, <1>9, <1>10
  <2> QED  BY <2>1
<1>12. 1 \in 1 .. n + 1 /\ n + 1 \in 1 .. n + 1  BY <1>1
<1> QED
  BY <1>1, <1>5, <1>6, <1>7, <1>8, <1>9, <1>10, <1>11, <1>12 DEF Cut, S, n

----------------------------------------------------------------------------
(* Partitions of equal size. *)
LEMMA TimesGrows ==
    ASSUME NEW size \in Nat, NEW a \in Nat, NEW b \in Nat, a <= b
    PROVE  size * a <= size * b
<1> DEFINE d == b - a
<1>1. d \in Nat /\ b = a + d  OBVIOUS
<1> HIDE DEF d
<1>2. size * (a + d) = size * a + size * d /\ size * d \in Nat /\ size * a \in Nat
  BY <1>1
<1> QED  BY <1>1, <1>2

LEMMA DivIs ==
    ASSUME NEW x \in Nat, NEW size \in Nat \ {0}, NEW r \in Nat
    PROVE  (size * r <= x /\ x < size * (r + 1)) <=> x \div size = r
<1> DEFINE q == x \div size
<1>1. q \in Nat /\ size * q <= x /\ x < size * (q + 1)  OBVIOUS
<1> HIDE DEF q
<1>2. q < r => size * (q + 1) <= size * r  BY <1>1, TimesGrows
<1>3. r < q => size * (r + 1) <= size * q  BY <1>1, TimesGrows
<1>4. /\ size * q \in Nat /\ size * r \in Nat /\ size * (q + 1) \in Nat
      /\ size * (r + 1) \in Nat
  BY <1>1
<1> QED  BY <1>1, <1>2, <1>3, <1>4 DEF q

(* The partitions have room for all parameters. *)
LEMMA SizeIs ==
    ASSUME NEW numel, Sized(numel), NEW ranks \in Nat \ {0}
    PROVE  /\ PartitionSize(numel, ranks) \in Nat /\ Sum(numel) \in Nat
           /\ Sum(numel) <= PartitionSize(numel, ranks) * ranks
           /\ Sum(numel) > 0 => PartitionSize(numel, ranks) > 0
<1> DEFINE s == Sum(numel)
           q == (s + 2 * ranks - 1) \div (2 * ranks)
<1>1. s \in Nat  BY SumIsNat DEF Sized
<1> HIDE DEF s
<1>2. /\ 2 * ranks \in Nat \ {0} /\ s + 2 * ranks - 1 \in Nat  BY <1>1
<1>3. q \in Nat /\ s + 2 * ranks - 1 < (2 * ranks) * (q + 1)  BY <1>2
<1> HIDE DEF q
<1>4. (2 * ranks) * (q + 1) = (2 * q) * ranks + 2 * ranks  BY <1>3
<1>5. (2 * q) * ranks \in Nat  BY <1>3
<1>6. s <= (2 * q) * ranks  BY <1>1, <1>3, <1>4, <1>5
<1>7. s > 0 => q # 0  BY <1>1, <1>6
<1> QED  BY <1>1, <1>3, <1>6, <1>7 DEF PartitionSize, s, q


----------------------------------------------------------------------------
(* A range of numbers in order. *)
Rises(s, n, a, b) ==
    s \in [1 .. n -> a .. b] /\ \A i, j \in 1 .. n : i < j => s[i] < s[j]

LEMMA RisesFromFirst ==
    ASSUME NEW a \in Nat, NEW b \in Nat, NEW n \in Nat, NEW s, Rises(s, n, a, b),
           NEW i \in 1 .. n
    PROVE  a + i - 1 <= s[i]
<1> DEFINE T == {d \in Nat : d + 1 <= n => a + d <= s[d + 1]}
<1>1. \A k \in 1 .. n : s[k] \in Nat /\ a <= s[k]  BY DEF Rises
<1>2. 0 \in T
  <2>1. 1 <= n => 1 \in 1 .. n  OBVIOUS
  <2> QED  BY <1>1, <2>1
<1>3. ASSUME NEW d \in Nat, d \in T PROVE d + 1 \in T
  <2> SUFFICES ASSUME d + 1 + 1 <= n PROVE a + (d + 1) <= s[d + 1 + 1]  OBVIOUS
  <2>1. d + 1 \in 1 .. n /\ d + 1 + 1 \in 1 .. n /\ d + 1 < d + 1 + 1  OBVIOUS
  <2>2. a + d <= s[d + 1] /\ s[d + 1] < s[d + 1 + 1]  BY <1>3, <2>1 DEF Rises
  <2> QED  BY <1>1, <2>1, <2>2
<1> HIDE DEF T
<1>4. i - 1 \in T  BY <1>2, <1>3, Induction
<1>5. (i - 1) + 1 = i /\ i <= n  OBVIOUS
<1> QED  BY <1>4, <1>5 DEF T

LEMMA RisesToLast ==
    ASSUME NEW a \in Nat, NEW b \in Nat, NEW n \in Nat, NEW s, Rises(s, n, a, b),
           NEW i \in 1 .. n
    PROVE  s[i] <= b - (n - i)
<1> DEFINE T == {d \in Nat : d < n => s[n - d] <= b - d}
<1>1. \A k \in 1 .. n : s[k] \in Nat /\ s[k] <= b  BY DEF Rises
<1>2. 0 \in T
  <2>1. 0 < n => n \in 1 .. n /\ n - 0 = n  OBVIOUS
  <2> QED  BY <1>1, <2>1
<1>3. ASSUME NEW d \in Nat, d \in T PROVE d + 1 \in T
  <2> SUFFICES ASSUME d + 1 < n PROVE s[n - (d + 1)] <= b - (d + 1)  OBVIOUS
  <2>1. n - d \in 1 .. n /\ n - (d + 1) \in 1 .. n /\ n - (d + 1) < n - d
    OBVIOUS
  <2>2. s[n - d] <= b - d /\ s[n - (d + 1)] < s[n - d]  BY <1>3, <2>1 DEF Rises
  <2> QED  BY <1>1, <2>1, <2>2
<1> HIDE DEF T
<1>4. n - i \in T  BY <1>2, <1>3, Induction
<1>5. n - (n - i) = i /\ n - i < n  OBVIOUS
<1> QED  BY <1>4, <1>5 DEF T

LEMMA SortedRange ==
    ASSUME NEW a \in Nat, NEW b \in Nat, a <= b, NEW key,
           \A i \in a .. b : key[i] \in Int,
           \A i, j \in a .. b : i < j => key[i] < key[j]
    PROVE  SortedBy(key, a .. b) = [i \in 1 .. b - a + 1 |-> a + i - 1]
<1> DEFINE n == b - a + 1
           w == [i \in 1 .. n |-> a + i - 1]
           Sorts(s) == s \in [1 .. n -> a .. b]
                       /\ \A i, j \in 1 .. n : i < j => key[s[i]] < key[s[j]]
<1>1. n \in Nat /\ Cardinality(a .. b) = n  BY FS_Interval
<1>2. w \in [1 .. n -> a .. b] /\ \A i \in 1 .. n : w[i] = a + i - 1  OBVIOUS
<1>3. Sorts(w)  BY <1>1, <1>2
<1>4. ASSUME NEW s, Sorts(s) PROVE s = w
  <2>1. ASSUME NEW i \in 1 .. n, NEW j \in 1 .. n, i < j PROVE s[i] < s[j]
    <3>1. s[i] \in a .. b /\ s[j] \in a .. b /\ key[s[i]] < key[s[j]]
      BY <1>4, <2>1
    <3>2. key[s[i]] \in Int /\ key[s[j]] \in Int  BY <3>1
    <3>3. s[i] # s[j] /\ ~(s[j] < s[i])  BY <3>1, <3>2
    <3> QED  BY <3>1, <3>3
  <2>2. Rises(s, n, a, b)  BY <1>4, <2>1 DEF Rises
  <2>3. \A i \in 1 .. n : s[i] = a + i - 1
    <3> SUFFICES ASSUME NEW i \in 1 .. n PROVE s[i] = a + i - 1  OBVIOUS
    <3>1. a + i - 1 <= s[i] /\ s[i] <= b - (n - i) /\ s[i] \in Int
      <4> HIDE DEF n, Sorts
      <4>1. a + i - 1 <= s[i]  BY <1>1, <2>2, RisesFromFirst
      <4>2. s[i] <= b - (n - i)  BY <1>1, <2>2, RisesToLast
      <4>3. s[i] \in Int  BY <2>2 DEF Rises
      <4> QED  BY <4>1, <4>2, <4>3
    <3> QED  BY <1>1, <3>1
  <2>4. s = [i \in 1 .. n |-> s[i]]  BY <1>4
  <2> HIDE DEF Sorts
  <2> QED  BY <2>3, <2>4
<1>5. SortedBy(key, a .. b) = CHOOSE s : Sorts(s)
  <2>1. SortedBy(key, a .. b) =
            CHOOSE s : s \in [1 .. n -> a .. b]
                       /\ \A i, j \in DOMAIN s : i < j => key[s[i]] < key[s[j]]
    BY <1>1 DEF SortedBy
  <2>2. \A s : Sorts(s) <=> /\ s \in [1 .. n -> a .. b]
                            /\ \A i, j \in DOMAIN s : i < j => key[s[i]] < key[s[j]]
    OBVIOUS
  <2> HIDE DEF n
  <2> QED  BY <2>1, <2>2
<1> HIDE DEF Sorts, w
<1>6. (CHOOSE s : Sorts(s)) = w  BY <1>3, <1>4
<1> QED  BY <1>5, <1>6 DEF w


----------------------------------------------------------------------------
(* The partitions that a parameter reaches into, and its parts. *)
FirstHolder(numel, size, k) == Starts(numel)[k] \div size
LastHolder(numel, size, k) == (Starts(numel)[k + 1] - 1) \div size

Fits(numel, size, ranks) ==
    /\ Sized(numel) /\ size \in Nat \ {0} /\ ranks \in Nat \ {0}
    /\ Sum(numel) \in Nat /\ Sum(numel) <= size * ranks

LEMMA StartAndEnd ==
    ASSUME NEW numel, Sized(numel), NEW k \in 1 .. Len(numel)
    PROVE  /\ Starts(numel)[k] \in Nat /\ Starts(numel)[k + 1] \in Nat
           /\ Starts(numel)[k] < Starts(numel)[k + 1]
           /\ Starts(numel)[k + 1] <= Sum(numel)
           /\ Starts(numel)[k] = StartOf(numel, k)
           /\ Starts(numel)[k + 1] = StartOf(numel, k) + numel[k]
           /\ numel[k] \in Nat \ {0}
<1> DEFINE n == Len(numel)
           S == Starts(numel)
<1>1. /\ Cut(S, n) /\ S[n + 1] = Sum(numel)
      /\ S[k] = StartOf(numel, k) /\ numel[k] \in Nat \ {0} /\ S[k + 1] = S[k] + numel[k]
  BY StartsCut
<1> HIDE DEF S, n
<1>2. n \in Nat /\ k \in 1 .. n /\ k \in 1 .. n + 1 /\ k + 1 \in 1 .. n + 1 /\ n + 1 \in 1 .. n + 1
  BY <1>1 DEF Cut, n
<1>3. S[k] \in Nat /\ S[k + 1] \in Nat /\ S[k] < S[k + 1]
  BY <1>1, <1>2 DEF Cut
<1>4. S[k + 1] <= S[n + 1]
  <2>1. CASE k = n  BY <1>3, <2>1
  <2>2. CASE k < n
    <3>1. k + 1 < n + 1  BY <1>2, <2>2
    <3>2. S[k + 1] < S[n + 1] /\ S[n + 1] \in Nat
      BY <1>1, <1>2, <3>1, CutGrows DEF Cut
    <3> QED  BY <1>3, <3>2
  <2> QED  BY <1>2, <2>1, <2>2
<1> QED  BY <1>1, <1>3, <1>4 DEF S

LEMMA HoldersAre ==
    ASSUME NEW numel, NEW size, NEW ranks, Fits(numel, size, ranks), NEW k \in 1 .. Len(numel)
    PROVE  LET a == FirstHolder(numel, size, k)
               b == LastHolder(numel, size, k)
           IN  /\ a \in Nat /\ b \in Nat /\ a <= b
               /\ {r \in 0 .. ranks - 1 : Holds(numel, size, r, k)} = a .. b
               /\ \A r \in a .. b : GradStartOffset(numel, size, r, k) =
                                        IF r = a THEN 0 ELSE size * r - Starts(numel)[k]
<1> DEFINE a == FirstHolder(numel, size, k)
           b == LastHolder(numel, size, k)
           s == StartOf(numel, k)
           t == s + numel[k]
<1>1. /\ s \in Nat /\ t \in Nat /\ s < t /\ t <= Sum(numel) /\ numel[k] \in Nat \ {0}
      /\ Starts(numel)[k] = s /\ Starts(numel)[k + 1] = t
  BY StartAndEnd DEF Fits
<1>2. size \in Nat \ {0} /\ ranks \in Nat \ {0} /\ Sum(numel) \in Nat /\ t <= size * ranks
  <2>1. size * ranks \in Nat  BY DEF Fits
  <2> QED  BY <1>1, <2>1 DEF Fits
<1>3. a = s \div size /\ b = (t - 1) \div size
  BY <1>1 DEF FirstHolder, LastHolder
<1> HIDE DEF a, b, s, t
<1>4. /\ a \in Nat /\ size * a <= s /\ s < size * (a + 1)
      /\ b \in Nat /\ size * b <= t - 1 /\ t - 1 < size * (b + 1)
  <2>1. t - 1 \in Nat  BY <1>1
  <2>2. a \in Nat /\ b \in Nat  BY <1>1, <1>2, <1>3, <2>1
  <2> QED  BY <1>1, <1>2, <1>3, <2>1, <2>2, DivIs
<1>5. ASSUME NEW r \in Nat
      PROVE  /\ size * r \in Nat /\ size * (r + 1) = size * r + size
             /\ r <= a => size * r <= size * a
             /\ a + 1 <= r => size * (a + 1) <= size * r
             /\ r <= b => size * r <= size * b
             /\ b + 1 <= r => size * (b + 1) <= size * r
             /\ a = r <=> (size * r <= s /\ s < size * (r + 1))
  <2>1. size * r \in Nat /\ size * (r + 1) = size * r + size  BY <1>2
  <2>2. r <= a => size * r <= size * a
    BY ONLY <1>2, <1>4, r \in Nat, TimesGrows
  <2>3. a + 1 <= r => size * (a + 1) <= size * r
    BY ONLY <1>2, <1>4, r \in Nat, a + 1 \in Nat, TimesGrows
  <2>4. r <= b => size * r <= size * b
    BY ONLY <1>2, <1>4, r \in Nat, TimesGrows
  <2>5. b + 1 <= r => size * (b + 1) <= size * r
    BY ONLY <1>2, <1>4, r \in Nat, b + 1 \in Nat, TimesGrows
  <2>6. a = r <=> (size * r <= s /\ s < size * (r + 1))
    BY ONLY <1>1, <1>2, <1>3, r \in Nat, DivIs
  <2> QED  BY <2>1, <2>2, <2>3, <2>4, <2>5, <2>6
<1>6. size * a \in Nat /\ size * b \in Nat /\ size * (a + 1) \in Nat /\ size * (b + 1) \in Nat
  BY <1>2, <1>4
<1>7. a <= b
  <2>1. SUFFICES ASSUME b + 1 <= a PROVE FALSE  BY <1>4
  <2>2. size * (b + 1) <= size * a  BY <1>4, <1>5, <2>1
  <2> QED  BY <1>1, <1>4, <1>6, <2>2
<1>8. b <= ranks - 1
  <2>1. SUFFICES ASSUME ranks <= b PROVE FALSE  BY <1>2, <1>4
  <2>2. size * ranks <= size * b /\ size * ranks \in Nat
    BY <1>2, <1>4, <1>5, <2>1
  <2> QED  BY <1>1, <1>2, <1>4, <1>6, <2>2
<1>9. ASSUME NEW r \in Nat
      PROVE  /\ StartsIn(numel, size, r, k) <=> r = a
             /\ ReachesInto(numel, size, r, k) <=> a < r /\ r <= b
  <2>1. StartsIn(numel, size, r, k) <=> (size * r <= s /\ s < size * (r + 1))
    BY DEF StartsIn, s
  <2>2. ReachesInto(numel, size, r, k) <=> (s < size * r /\ size * r < t)
    BY DEF ReachesInto, s, t
  <2> DEFINE y == size * r
             ya == size * a
             yb == size * b
             za == size * (a + 1)
             zb == size * (b + 1)
  <2>3. /\ y \in Nat /\ ya \in Nat /\ yb \in Nat /\ za \in Nat /\ zb \in Nat
        /\ ya <= s /\ s < za /\ yb <= t - 1 /\ t - 1 < zb
        /\ s \in Nat /\ t \in Nat /\ a \in Nat /\ b \in Nat /\ r \in Nat
    BY <1>1, <1>4, <1>5, <1>6
  <2>4. /\ r <= a => y <= ya
        /\ a + 1 <= r => za <= y
        /\ r <= b => y <= yb
        /\ b + 1 <= r => zb <= y
    BY <1>5
  <2> HIDE DEF y, ya, yb, za, zb
  <2>5. s < y <=> a < r  BY ONLY <2>3, <2>4
  <2>6. y < t <=> r <= b  BY ONLY <2>3, <2>4
  <2>7. StartsIn(numel, size, r, k) <=> r = a  BY <1>5, <2>1
  <2>8. ReachesInto(numel, size, r, k) <=> a < r /\ r <= b
    BY <2>2, <2>5, <2>6 DEF y
  <2> QED  BY <2>7, <2>8
<1>10. \A r \in Nat : Holds(numel, size, r, k) <=> r \in a .. b
  BY <1>4, <1>7, <1>9 DEF Holds
<1>11. {r \in 0 .. ranks - 1 : Holds(numel, size, r, k)} = a .. b
  <2>1. \A r \in 0 .. ranks - 1 : r \in Nat  BY <1>2
  <2>2. \A r \in a .. b : r \in 0 .. ranks - 1  BY <1>2, <1>4, <1>8
  <2> QED  BY <1>10, <2>1, <2>2
<1>12. \A r \in a .. b : GradStartOffset(numel, size, r, k) = IF r = a THEN 0 ELSE size * r - s
  <2>1. \A r \in a .. b : r \in Nat  BY <1>4
  <2> QED  BY <1>9, <2>1 DEF GradStartOffset, s
<1> QED  BY <1>1, <1>4, <1>7, <1>11, <1>12 DEF a, b


----------------------------------------------------------------------------
(* The loops of average_tensor and get_grad_position, which build a list:
   what the loop c does to the list with x. *)
SlicesLoop == [kind |-> "slices"]
PlacesLoop(numel, size, r) == [kind |-> "places", numel |-> numel, size |-> size, r |-> r]
Grown(c, list, x) ==
    IF c.kind = "slices" THEN AddSlice(list, x)
    ELSE AddPosition(c.numel, c.size, c.r, list, x)

Walks(f, c, s, S) ==
    f = [d \in SUBSET S |-> IF d = {} THEN << >> ELSE Grown(c, f[d \ {Max(d)}], s[Max(d)])]
WalksFirst(f, c, s, n) == Walks(f, c, s, 1 .. n)

(* What comes of it. *)
Result(c, s) == (CHOOSE f : Walks(f, c, s, DOMAIN s))[DOMAIN s]
ListParts(numel, size, ranks, list) ==
    FlattenSeq([i \in DOMAIN list |-> Parts(numel, size, ranks, list[i])])

LEMMA SlicesIs ==
    ASSUME NEW numel, NEW size, NEW ranks, NEW list
    PROVE  Slices(numel, size, ranks, list) =
               Result(SlicesLoop, ListParts(numel, size, ranks, list))
<1> DEFINE parts == ListParts(numel, size, ranks, list)
           IsLoop(f) == f = [d \in SUBSET DOMAIN parts |->
                              IF d = {} THEN << >> ELSE AddSlice(f[d \ {Max(d)}], parts[Max(d)])]
<1>1. Slices(numel, size, ranks, list) = (CHOOSE f : IsLoop(f))[DOMAIN parts]
  BY DEF Slices, FoldLeft, MapThenFoldSet, ListParts
<1>2. \A x, y : Grown(SlicesLoop, x, y) = AddSlice(x, y)
  BY DEF Grown, SlicesLoop
<1>3. ASSUME NEW f PROVE IsLoop(f) <=> Walks(f, SlicesLoop, parts, DOMAIN parts)
  <2> DEFINE A == [d \in SUBSET DOMAIN parts |->
                      IF d = {} THEN << >> ELSE AddSlice(f[d \ {Max(d)}], parts[Max(d)])]
             B == [d \in SUBSET DOMAIN parts |->
                      IF d = {} THEN << >>
                      ELSE Grown(SlicesLoop, f[d \ {Max(d)}], parts[Max(d)])]
  <2>1. A = B  BY <1>2, Zenon
  <2>2. (IsLoop(f) <=> f = A) /\ (Walks(f, SlicesLoop, parts, DOMAIN parts) <=> f = B)
    BY DEF Walks
  <2> QED  BY ONLY <2>1, <2>2
<1> HIDE DEF IsLoop
<1> QED  BY <1>1, <1>3 DEF Result

Ordered(numel, size, r) ==
    SortedBy([k \in DOMAIN numel |-> k], ParamsInPartition(numel, size, r))

LEMMA PlacesAre ==
    ASSUME NEW numel, NEW size, NEW r
    PROVE  GradPosition(numel, size, r) =
               Result(PlacesLoop(numel, size, r), Ordered(numel, size, r))
<1> DEFINE s == Ordered(numel, size, r)
           IsLoop(f) == f = [d \in SUBSET DOMAIN s |->
                              IF d = {} THEN << >>
                              ELSE AddPosition(numel, size, r, f[d \ {Max(d)}], s[Max(d)])]
<1>1. GradPosition(numel, size, r) = (CHOOSE f : IsLoop(f))[DOMAIN s]
  BY DEF GradPosition, FoldLeft, MapThenFoldSet, Ordered
<1>2. \A x, y : Grown(PlacesLoop(numel, size, r), x, y) = AddPosition(numel, size, r, x, y)
  BY DEF Grown, PlacesLoop
<1>3. ASSUME NEW f PROVE IsLoop(f) <=> Walks(f, PlacesLoop(numel, size, r), s, DOMAIN s)
  <2> DEFINE A == [d \in SUBSET DOMAIN s |->
                      IF d = {} THEN << >>
                      ELSE AddPosition(numel, size, r, f[d \ {Max(d)}], s[Max(d)])]
             B == [d \in SUBSET DOMAIN s |->
                      IF d = {} THEN << >>
                      ELSE Grown(PlacesLoop(numel, size, r), f[d \ {Max(d)}], s[Max(d)])]
  <2>1. A = B  BY <1>2, Zenon
  <2>2. /\ IsLoop(f) <=> f = A
        /\ Walks(f, PlacesLoop(numel, size, r), s, DOMAIN s) <=> f = B
    BY DEF Walks
  <2> QED  BY ONLY <2>1, <2>2
<1> HIDE DEF IsLoop
<1> QED  BY <1>1, <1>3 DEF Result

LEMMA WalksAt ==
    ASSUME NEW f, NEW c, NEW s, NEW S, Walks(f, c, s, S), NEW d \in SUBSET S, d # {}
    PROVE  f[d] = Grown(c, f[d \ {Max(d)}], s[Max(d)])
BY DEF Walks

LEMMA WalksNext ==
    ASSUME NEW f, NEW c, NEW s, NEW l \in Nat, WalksFirst(f, c, s, l),
           NEW n \in Nat, n + 1 <= l
    PROVE  AtFirst(f, n + 1) = Grown(c, AtFirst(f, n), s[n + 1])
<1>1. 1 .. n + 1 \in SUBSET (1 .. l)  OBVIOUS
<1> DEFINE d == 1 .. n + 1
<1>2. d # {} /\ d \ {n + 1} = 1 .. n /\ Max(d) = n + 1  BY Initial
<1>3. d \in SUBSET (1 .. l)  BY <1>1
<1> HIDE DEF d
<1>4. f[d] = Grown(c, f[d \ {Max(d)}], s[Max(d)])
  BY ONLY <1>2, <1>3, WalksFirst(f, c, s, l), WalksAt DEF WalksFirst
<1> QED  BY <1>2, <1>4 DEF d, AtFirst

LEMMA WalksExists ==
    ASSUME NEW c, NEW s, NEW n \in Nat
    PROVE  \E f : Walks(f, c, s, 1 .. n)
<1> DEFINE T == {k \in Nat : \E f : Walks(f, c, s, 1 .. k)}
<1>1. 0 \in T
  <2> DEFINE f == [d \in SUBSET (1 .. 0) |-> << >>]
  <2>1. f = [d \in SUBSET (1 .. 0) |->
                IF d = {} THEN << >> ELSE Grown(c, f[d \ {Max(d)}], s[Max(d)])]
    OBVIOUS
  <2> HIDE DEF f
  <2> QED  BY <2>1 DEF Walks
<1>2. ASSUME NEW k \in Nat, k \in T PROVE k + 1 \in T
  <2>1. PICK f : Walks(f, c, s, 1 .. k)  BY <1>2
  <2> DEFINE g == [d \in SUBSET (1 .. k + 1) |->
                      IF k + 1 \in d THEN Grown(c, f[d \ {k + 1}], s[k + 1]) ELSE f[d]]
             h == [d \in SUBSET (1 .. k + 1) |->
                      IF d = {} THEN << >> ELSE Grown(c, g[d \ {Max(d)}], s[Max(d)])]
  <2>2. ASSUME NEW d \in SUBSET (1 .. k + 1) PROVE g[d] = h[d]
    <3>1. CASE k + 1 \in d
      <4>1. Max(d) = k + 1  BY <3>1, MaxIs
      <4>2. d \ {k + 1} \in SUBSET (1 .. k + 1) /\ k + 1 \notin d \ {k + 1}
        OBVIOUS
      <4>3. g[d \ {k + 1}] = f[d \ {k + 1}]  BY <4>2
      <4> QED  BY <3>1, <4>1, <4>3
    <3>2. CASE k + 1 \notin d /\ d # {}
      <4>1. d \in SUBSET (1 .. k)  BY <3>2
      <4>2. f[d] = Grown(c, f[d \ {Max(d)}], s[Max(d)])
        BY ONLY <2>1, <3>2, <4>1 DEF Walks
      <4>3. d \ {Max(d)} \in SUBSET (1 .. k + 1) /\ k + 1 \notin d \ {Max(d)}
        BY <3>2
      <4>4. g[d \ {Max(d)}] = f[d \ {Max(d)}] /\ g[d] = f[d]  BY <3>2, <4>3
      <4> HIDE DEF g
      <4> QED  BY <3>2, <4>2, <4>4
    <3>3. CASE d = {}
      <4>1. f[{}] = << >>  BY <2>1 DEF Walks
      <4> QED  BY <3>3, <4>1
    <3> QED  BY <3>1, <3>2, <3>3
  <2>3. g = h
    <3>1. g = [d \in SUBSET (1 .. k + 1) |-> g[d]] /\ h = [d \in SUBSET (1 .. k + 1) |-> h[d]]
      OBVIOUS
    <3> HIDE DEF g, h
    <3> QED  BY ONLY <2>2, <3>1
  <2>4. Walks(g, c, s, 1 .. k + 1)
    <3> HIDE DEF g
    <3> QED  BY <2>3 DEF Walks
  <2> QED  BY <2>4
<1> HIDE DEF T
<1>3. n \in T  BY <1>1, <1>2, Induction
<1> QED  BY <1>3 DEF T

(* The lists a loop goes through, from the empty one to its result. *)
Steps(v, c, s, n) ==
    /\ v[0] = << >>
    /\ \A k \in 0 .. n - 1 : v[k + 1] = Grown(c, v[k], s[k + 1])

LEMMA LoopSteps ==
    ASSUME NEW c, NEW s, NEW n \in Nat, DOMAIN s = 1 .. n
    PROVE  \E v : Steps(v, c, s, n)
                  /\ v[n] = Result(c, s)
<1> DEFINE f == CHOOSE f : Walks(f, c, s, DOMAIN s)
           v == [k \in 0 .. n |-> AtFirst(f, k)]
<1>1. WalksFirst(f, c, s, n)
  <2>1. \E h : Walks(h, c, s, 1 .. n)  BY WalksExists
  <2> QED  BY <2>1 DEF WalksFirst
<1> HIDE DEF f
<1>2. AtFirst(f, 0) = << >>
  <2>1. 1 .. 0 = {}  OBVIOUS
  <2> QED  BY <1>1, <2>1 DEF WalksFirst, Walks, AtFirst
<1>3. ASSUME NEW k \in 0 .. n - 1 PROVE v[k + 1] = Grown(c, v[k], s[k + 1])
  <2>1. k \in Nat /\ k + 1 <= n /\ v[k + 1] = AtFirst(f, k + 1) /\ v[k] = AtFirst(f, k)
    OBVIOUS
  <2>2. AtFirst(f, k + 1) = Grown(c, AtFirst(f, k), s[k + 1])
    BY <1>1, <2>1, WalksNext
  <2> HIDE DEF v
  <2> QED  BY <2>1, <2>2
<1>4. v[0] = << >> /\ v[n] = f[DOMAIN s]  BY <1>2 DEF AtFirst
<1> HIDE DEF v
<1> QED  BY <1>3, <1>4 DEF Steps, f, Result


----------------------------------------------------------------------------
(* A list of parts along the places from .. to - 1 of a bucket, where the
   part at place x goes to the rank w[x]. *)
PartRecords == [rank : Nat, length : Nat \ {0}]
Marks(P, list, from, to, w) ==
    /\ list \in Seq(PartRecords) /\ P \in [1 .. Len(list) + 1 -> Nat]
    /\ P[1] = from /\ P[Len(list) + 1] = to
    /\ \A j \in 1 .. Len(list) :
           /\ P[j + 1] = P[j] + list[j].length
           /\ \A x \in P[j] .. P[j + 1] - 1 : w[x] = list[j].rank
Along(list, from, to, w) == \E P : Marks(P, list, from, to, w)

LEMMA AlongBoth ==
    ASSUME NEW s, NEW t, NEW from, NEW mid, NEW to, NEW w,
           Along(s, from, mid, w), Along(t, mid, to, w)
    PROVE  Along(s \o t, from, to, w)
<1>1. PICK P : Marks(P, s, from, mid, w)  BY DEF Along
<1>2. PICK Q : Marks(Q, t, mid, to, w)  BY DEF Along
<1> DEFINE m == Len(s)
           n == Len(t)
           st == s \o t
           R == [j \in 1 .. m + n + 1 |-> IF j <= m THEN P[j] ELSE Q[j - m]]
<1>3. /\ s \in Seq(PartRecords) /\ t \in Seq(PartRecords) /\ m \in Nat /\ n \in Nat
      /\ P \in [1 .. m + 1 -> Nat] /\ Q \in [1 .. n + 1 -> Nat]
      /\ P[1] = from /\ P[m + 1] = mid /\ Q[1] = mid /\ Q[n + 1] = to
  BY <1>1, <1>2 DEF Marks
<1>4. /\ st \in Seq(PartRecords) /\ Len(st) = m + n
      /\ \A j \in 1 .. m : st[j] = s[j]
      /\ \A j \in m + 1 .. m + n : st[j] = t[j - m]
  <2> HIDE DEF PartRecords
  <2> QED  BY <1>3
<1>5. /\ \A j \in 1 .. m : /\ P[j + 1] = P[j] + s[j].length
                           /\ \A x \in P[j] .. P[j + 1] - 1 : w[x] = s[j].rank
      /\ \A j \in 1 .. n : /\ Q[j + 1] = Q[j] + t[j].length
                           /\ \A x \in Q[j] .. Q[j + 1] - 1 : w[x] = t[j].rank
  BY <1>1, <1>2 DEF Marks
<1> HIDE DEF m, n, st
<1>6. R \in [1 .. m + n + 1 -> Nat]
  <2> SUFFICES ASSUME NEW j \in 1 .. m + n + 1
               PROVE  (IF j <= m THEN P[j] ELSE Q[j - m]) \in Nat
    OBVIOUS
  <2>1. CASE j <= m  BY <1>3, <2>1
  <2>2. CASE ~(j <= m)
    <3>1. j - m \in 1 .. n + 1  BY <1>3, <2>2
    <3> QED  BY <1>3, <2>2, <3>1
  <2> QED  BY <2>1, <2>2
<1>7. \A j \in 1 .. m + 1 : R[j] = P[j]
  <2>1. \A j \in 1 .. m : R[j] = P[j]  BY <1>3
  <2>2. R[m + 1] = Q[1]
    <3>1. m + 1 \in 1 .. m + n + 1 /\ ~(m + 1 <= m) /\ (m + 1) - m = 1  BY <1>3
    <3> QED  BY <3>1
  <2> QED  BY <1>3, <2>1, <2>2
<1>8. \A j \in m + 1 .. m + n + 1 : R[j] = Q[j - m]  BY <1>3
<1> HIDE DEF R
<1>9. R[1] = from /\ R[m + n + 1] = to
  <2>1. 1 \in 1 .. m + 1 /\ m + n + 1 \in m + 1 .. m + n + 1 /\ m + n + 1 - m = n + 1
    BY <1>3
  <2> QED  BY <1>3, <1>7, <1>8, <2>1
<1>10. ASSUME NEW j \in 1 .. m + n
       PROVE  /\ R[j + 1] = R[j] + st[j].length
              /\ \A x \in R[j] .. R[j + 1] - 1 : w[x] = st[j].rank
  <2>1. CASE j \in 1 .. m
    <3>1. j \in 1 .. m + 1 /\ j + 1 \in 1 .. m + 1  BY <1>3, <2>1
    <3>2. R[j] = P[j] /\ R[j + 1] = P[j + 1] /\ st[j] = s[j]
      BY <1>4, <1>7, <2>1, <3>1
    <3> QED  BY <1>5, <2>1, <3>2
  <2>2. CASE j \in m + 1 .. m + n
    <3>1. /\ j \in m + 1 .. m + n + 1 /\ j + 1 \in m + 1 .. m + n + 1
          /\ j - m \in 1 .. n /\ (j + 1) - m = (j - m) + 1
      BY <1>3, <2>2
    <3>2. R[j] = Q[j - m] /\ R[j + 1] = Q[(j - m) + 1] /\ st[j] = t[j - m]
      BY <1>4, <1>8, <2>2, <3>1
    <3> QED  BY <1>5, <3>1, <3>2
  <2> QED  BY <1>3, <2>1, <2>2
<1>11. Marks(R, st, from, to, w)
  <2> HIDE DEF PartRecords
  <2> QED  BY <1>4, <1>6, <1>9, <1>10 DEF Marks
<1> QED  BY <1>11 DEF Along, st

(* The parts of a parameter, from its first partition to its last. *)
LEMMA PartsAre ==
    ASSUME NEW numel, NEW size, NEW ranks, Fits(numel, size, ranks), NEW k \in 1 .. Len(numel)
    PROVE  LET a == FirstHolder(numel, size, k)
               b == LastHolder(numel, size, k)
               O(i) == IF i = 1 THEN 0 ELSE IF i = b - a + 2 THEN numel[k]
                       ELSE size * (a + i - 1) - Starts(numel)[k]
           IN  Parts(numel, size, ranks, k) =
                   [i \in 1 .. b - a + 1 |-> [rank |-> a + i - 1, length |-> O(i + 1) - O(i)]]
<1> DEFINE a == FirstHolder(numel, size, k)
           b == LastHolder(numel, size, k)
           s == Starts(numel)[k]
           n == b - a + 1
           holders == {r \in 0 .. ranks - 1 : Holds(numel, size, r, k)}
           offset == [r \in holders |-> GradStartOffset(numel, size, r, k)]
           sorted == SortedBy(offset, holders)
           EndOf(i) == IF i = Len(sorted) THEN numel[k] ELSE offset[sorted[i + 1]]
           O(i) == IF i = 1 THEN 0 ELSE IF i = n + 1 THEN numel[k]
                   ELSE size * (a + i - 1) - s
<1>1. /\ a \in Nat /\ b \in Nat /\ a <= b /\ n \in Nat \ {0} /\ holders = a .. b
      /\ \A r \in a .. b : offset[r] = IF r = a THEN 0 ELSE size * r - s
  BY HoldersAre
<1>2. /\ s \in Nat /\ size \in Nat \ {0} /\ a = s \div size /\ numel[k] \in Nat
  BY StartAndEnd DEF Fits, FirstHolder
<1>3. Parts(numel, size, ranks, k) =
          [i \in DOMAIN sorted |-> [rank |-> sorted[i], length |-> EndOf(i) - offset[sorted[i]]]]
  BY DEF Parts
<1> HIDE DEF holders, offset, a, b, s
<1>4. ASSUME NEW r \in a .. b PROVE size * r \in Nat /\ (r # a => s < size * r)
  <2>1. r \in Nat /\ size * r \in Nat  BY <1>1, <1>2
  <2>2. ASSUME r # a PROVE s < size * r
    <3>1. a + 1 <= r /\ s < size * (a + 1)  BY <1>1, <1>2, <2>2, DivIs
    <3>2. size * (a + 1) <= size * r /\ size * (a + 1) \in Nat
      BY ONLY <1>1, <1>2, <2>1, <3>1, a + 1 \in Nat, TimesGrows
    <3> QED  BY <1>2, <2>1, <3>1, <3>2
  <2> QED  BY <2>1, <2>2
<1>5. \A r \in a .. b : offset[r] \in Int  BY <1>1, <1>2, <1>4
<1>6. ASSUME NEW q \in a .. b, NEW r \in a .. b, q < r PROVE offset[q] < offset[r]
  <2>1. q \in Nat /\ r \in Nat /\ r # a /\ q + 1 <= r /\ size * r \in Nat /\ s < size * r
    BY <1>1, <1>4, <1>6
  <2>2. size * (q + 1) <= size * r /\ size * (q + 1) = size * q + size /\ size * q \in Nat
    BY <1>2, <2>1, TimesGrows
  <2>3. offset[r] = size * r - s  BY <1>1, <2>1
  <2>4. offset[q] = IF q = a THEN 0 ELSE size * q - s  BY <1>1
  <2> QED  BY <1>2, <2>1, <2>2, <2>3, <2>4
<1>7. sorted = [i \in 1 .. n |-> a + i - 1]  BY <1>1, <1>5, <1>6, SortedRange
<1>8. DOMAIN sorted = 1 .. n /\ Len(sorted) = n /\ \A i \in 1 .. n : sorted[i] = a + i - 1
  <2> HIDE DEF n, sorted
  <2> QED  BY <1>1, <1>7
<1> HIDE DEF sorted
<1>9. ASSUME NEW i \in 1 .. n PROVE EndOf(i) = O(i + 1) /\ offset[sorted[i]] = O(i)
  <2>1. i \in Nat /\ a + i - 1 \in a .. b /\ sorted[i] = a + i - 1 /\ i # n + 1
    BY <1>1, <1>8
  <2>2. offset[sorted[i]] = O(i)
    <3>1. (a + i - 1 = a) <=> (i = 1)  BY <1>1, <2>1
    <3>2. offset[a + i - 1] = IF a + i - 1 = a THEN 0 ELSE size * (a + i - 1) - s
      BY <1>1, <2>1
    <3> QED  BY <2>1, <3>1, <3>2
  <2>3. CASE i = n
    <3>1. EndOf(i) = numel[k]  BY <1>8, <2>3
    <3>2. i + 1 = n + 1 /\ i + 1 # 1  BY <1>1, <2>3
    <3> QED  BY <2>2, <3>1, <3>2
  <2>4. CASE i # n
    <3>1. /\ i + 1 \in 1 .. n /\ i + 1 # 1 /\ i + 1 # n + 1
          /\ a + (i + 1) - 1 \in a .. b /\ a + (i + 1) - 1 # a
      BY <1>1, <2>1, <2>4
    <3>2. sorted[i + 1] = a + (i + 1) - 1  BY <1>8, <3>1
    <3>3. EndOf(i) = size * (a + (i + 1) - 1) - s
      BY <1>1, <1>8, <2>4, <3>1, <3>2
    <3>4. O(i + 1) = size * (a + (i + 1) - 1) - s  BY <3>1
    <3> QED  BY <2>2, <3>3, <3>4
  <2> QED  BY <2>3, <2>4
<1> HIDE DEF EndOf, O
<1>10. Parts(numel, size, ranks, k) =
           [i \in 1 .. n |-> [rank |-> a + i - 1, length |-> O(i + 1) - O(i)]]
  BY <1>3, <1>8, <1>9
<1>11. n + 1 = b - a + 2  BY <1>1
<1> QED  BY <1>10, <1>11 DEF O, n, a, b, s

(* They lie one after the other, each with the rank that owns its places. *)
LEMMA PartsAlong ==
    ASSUME NEW numel, NEW size, NEW ranks, Fits(numel, size, ranks), NEW k \in 1 .. Len(numel),
           NEW from \in Nat, NEW w,
           \A e \in 0 .. numel[k] - 1 : w[from + e] = (StartOf(numel, k) + e) \div size
    PROVE  Along(Parts(numel, size, ranks, k), from, from + numel[k], w)
<1> DEFINE a == FirstHolder(numel, size, k)
           b == LastHolder(numel, size, k)
           s == Starts(numel)[k]
           l == numel[k]
           n == b - a + 1
           O(i) == IF i = 1 THEN 0 ELSE IF i = b - a + 2 THEN numel[k]
                   ELSE size * (a + i - 1) - s
           parts == Parts(numel, size, ranks, k)
           P == [j \in 1 .. n + 1 |-> from + O(j)]
<1>1. /\ a \in Nat /\ b \in Nat /\ a <= b /\ n \in Nat \ {0}  BY HoldersAre
<1>2. /\ s \in Nat /\ size \in Nat \ {0} /\ l \in Nat \ {0} /\ s = StartOf(numel, k)
  BY StartAndEnd DEF Fits
<1>ends. a = s \div size /\ b = (s + l - 1) \div size
  <2>1. Starts(numel)[k + 1] - 1 = s + l - 1  BY StartAndEnd DEF Fits
  <2> QED  BY <2>1 DEF FirstHolder, LastHolder
<1>3. parts = [i \in 1 .. n |-> [rank |-> a + i - 1, length |-> O(i + 1) - O(i)]]
  BY PartsAre
<1>4. \A i \in 1 .. n + 1 : O(i) = IF i = 1 THEN 0 ELSE IF i = n + 1 THEN l
                                   ELSE size * (a + i - 1) - s
  BY <1>1
<1> HIDE DEF a, b, s, l, parts, O
<1>5. ASSUME NEW r \in Nat
      PROVE  /\ size * r \in Nat /\ size * (r + 1) = size * r + size
             /\ a < r => s < size * r
             /\ r <= b => size * r < s + l
             /\ r <= a => size * r <= s
             /\ b < r => s + l <= size * r
  <2>1. /\ size \in Nat /\ r \in Nat /\ a \in Nat /\ b \in Nat
        /\ a + 1 \in Nat /\ b + 1 \in Nat
        /\ (a < r => a + 1 <= r) /\ (b < r => b + 1 <= r)
    BY <1>1, <1>2
  <2>2. /\ size * r \in Nat /\ size * (r + 1) = size * r + size
        /\ size * a \in Nat /\ size * (a + 1) \in Nat
        /\ size * b \in Nat /\ size * (b + 1) \in Nat
    BY <2>1
  <2>3. size * a <= s /\ s < size * (a + 1)  BY ONLY <1>ends, <1>2, <2>1, DivIs
  <2>4. size * b <= s + l - 1 /\ s + l - 1 < size * (b + 1)
    <3>1. s + l - 1 \in Nat  BY <1>2
    <3> QED  BY ONLY <1>ends, <1>2, <2>1, <3>1, DivIs
  <2>5. a < r => size * (a + 1) <= size * r  BY ONLY <2>1, TimesGrows
  <2>6. r <= b => size * r <= size * b  BY ONLY <2>1, TimesGrows
  <2>7. r <= a => size * r <= size * a  BY ONLY <2>1, TimesGrows
  <2>8. b < r => size * (b + 1) <= size * r  BY ONLY <2>1, TimesGrows
  <2> DEFINE y == size * r
             ya == size * a
             yb == size * b
             za == size * (a + 1)
             zb == size * (b + 1)
  <2>9. /\ y \in Nat /\ ya \in Nat /\ yb \in Nat /\ za \in Nat /\ zb \in Nat
        /\ ya <= s /\ s < za /\ yb <= s + l - 1 /\ s + l - 1 < zb
        /\ (a < r => za <= y) /\ (r <= b => y <= yb) /\ (r <= a => y <= ya)
        /\ (b < r => zb <= y)
    BY ONLY <2>2, <2>3, <2>4, <2>5, <2>6, <2>7, <2>8
  <2> HIDE DEF y, ya, yb, za, zb
  <2>10. /\ a < r => s < y
         /\ r <= b => y < s + l
         /\ r <= a => y <= s
         /\ b < r => s + l <= y
    BY ONLY <1>2, <2>9
  <2> QED  BY <2>2, <2>10 DEF y
(* Where the i-th part begins and ends in the parameter. *)
<1>6. ASSUME NEW i \in 1 .. n
      PROVE  /\ O(i) \in Nat /\ O(i + 1) \in Nat /\ O(i) < O(i + 1)
             /\ size * (a + i - 1) <= s + O(i)
             /\ s + O(i + 1) <= size * (a + i - 1 + 1)
  <2> DEFINE r == a + i - 1
  <2>1. r \in Nat /\ r + 1 \in Nat /\ i \in Nat /\ r <= b
        /\ i \in 1 .. n + 1 /\ i + 1 \in 1 .. n + 1 /\ i # n + 1 /\ i + 1 # 1
        /\ (i + 1 = n + 1 <=> r = b) /\ (i = 1 <=> r = a) /\ (i = 1 \/ a < r)
        /\ a + (i + 1) - 1 = r + 1 /\ n = b - a + 1
    BY <1>1
  <2>2. O(i) = IF r = a THEN 0 ELSE size * r - s  BY <1>4, <2>1
  <2>3. O(i + 1) = IF r = b THEN l ELSE size * (r + 1) - s
    <3>1. O(i + 1) = IF i + 1 = n + 1 THEN l ELSE size * (a + (i + 1) - 1) - s
      BY <1>4, <2>1
    <3> QED  BY <2>1, <3>1
  <2>4. /\ size * r \in Nat /\ size * (r + 1) \in Nat /\ size * (r + 1) = size * r + size
        /\ a < r => s < size * r
        /\ r < b => size * (r + 1) < s + l
        /\ r <= b => size * r < s + l
        /\ r <= a => size * r <= s
        /\ r >= a => s < size * (r + 1)
        /\ r >= b => s + l <= size * (r + 1)
    <3>1. /\ size * r \in Nat /\ size * (r + 1) = size * r + size
          /\ a < r => s < size * r
          /\ r <= b => size * r < s + l
          /\ r <= a => size * r <= s
      BY <1>5, <2>1
    <3>2. /\ size * (r + 1) \in Nat
          /\ a < r + 1 => s < size * (r + 1)
          /\ r + 1 <= b => size * (r + 1) < s + l
          /\ b < r + 1 => s + l <= size * (r + 1)
      BY <1>5, <2>1
    <3> HIDE DEF r
    <3> QED  BY ONLY <1>1, <2>1, <3>1, <3>2
  <2> DEFINE y == size * r
             z == size * (r + 1)
  <2>5. /\ y \in Nat /\ z \in Nat /\ z = y + size /\ y < s + l
        /\ a < r => s < y
        /\ r = a => y <= s /\ s < z
        /\ r # b => z < s + l
        /\ r = b => s + l <= z
        /\ O(i) = IF r = a THEN 0 ELSE y - s
        /\ O(i + 1) = IF r = b THEN l ELSE z - s
        /\ r = a \/ a < r
    BY <1>1, <2>1, <2>2, <2>3, <2>4
  <2> HIDE DEF y, z, r
  <2>6. O(i) \in Nat /\ O(i + 1) \in Nat /\ O(i) < O(i + 1) /\ y <= s + O(i) /\ s + O(i + 1) <= z
    BY ONLY <2>5, <1>2
  <2> QED  BY <2>6 DEF y, z, r
<1>7. parts \in Seq(PartRecords) /\ Len(parts) = n
      /\ \A i \in 1 .. n : parts[i].rank = a + i - 1 /\ parts[i].length = O(i + 1) - O(i)
  <2>1. \A i \in 1 .. n : /\ a + i - 1 \in Nat /\ O(i + 1) - O(i) \in Nat \ {0}
    BY <1>1, <1>6
  <2>2. \A i \in 1 .. n :
            [rank |-> a + i - 1, length |-> O(i + 1) - O(i)] \in PartRecords
    BY <2>1 DEF PartRecords
  <2>3. parts \in [1 .. n -> PartRecords]  BY <1>3, <2>2
  <2>4. parts \in Seq(PartRecords) /\ Len(parts) = n
    <3> HIDE DEF n, PartRecords
    <3> QED  BY <1>1, <2>3
  <2> QED  BY <1>3, <2>4
<1> HIDE DEF n
<1>8. O(1) = 0 /\ O(n + 1) = l  BY <1>1, <1>4
<1>9. \A j \in 1 .. n + 1 : O(j) \in Nat
  <2>1. \A j \in 1 .. n : O(j) \in Nat  BY <1>6
  <2> QED  BY <1>1, <1>2, <1>8, <2>1
<1>10. P \in [1 .. n + 1 -> Nat] /\ \A j \in 1 .. n + 1 : P[j] = from + O(j)
  BY <1>9
<1> HIDE DEF P
<1>11. P[1] = from /\ P[n + 1] = from + l
  <2>1. 1 \in 1 .. n + 1 /\ n + 1 \in 1 .. n + 1  BY <1>1
  <2> QED  BY <1>8, <1>10, <2>1
<1>12. ASSUME NEW j \in 1 .. n
       PROVE  /\ P[j + 1] = P[j] + parts[j].length
              /\ \A x \in P[j] .. P[j + 1] - 1 : w[x] = parts[j].rank
  <2>1. j \in 1 .. n + 1 /\ j + 1 \in 1 .. n + 1  BY <1>1
  <2>2. P[j] = from + O(j) /\ P[j + 1] = from + O(j + 1) /\ O(j) \in Nat /\ O(j + 1) \in Nat
    BY <1>6, <1>10, <2>1
  <2>3. P[j + 1] = P[j] + parts[j].length  BY <1>7, <2>2
  <2>4. ASSUME NEW x \in P[j] .. P[j + 1] - 1 PROVE w[x] = parts[j].rank
    <3> DEFINE e == x - from
               r == a + j - 1
    <3>1. e \in Nat /\ O(j) <= e /\ e < O(j + 1) /\ x = from + e  BY <2>2
    <3>2. O(j + 1) <= l
      <4>2. CASE j = n  BY <1>2, <1>8, <4>2
      <4>3. CASE j # n
        <5>1. a + j - 1 + 1 \in Nat /\ a + j - 1 + 1 <= b /\ j + 1 # 1 /\ j + 1 # n + 1
          BY <1>1, <4>3 DEF n
        <5>2. O(j + 1) = size * (a + (j + 1) - 1) - s  BY <1>4, <2>1, <5>1
        <5>3. a + (j + 1) - 1 = a + j - 1 + 1  BY <1>1
        <5>4. size * (a + j - 1 + 1) < s + l /\ size * (a + j - 1 + 1) \in Nat
          BY <1>5, <5>1
        <5>5. O(j + 1) = size * (a + j - 1 + 1) - s  BY <5>2, <5>3
        <5> DEFINE z == size * (a + j - 1 + 1)
        <5>6. z \in Nat /\ z < s + l /\ O(j + 1) = z - s  BY <5>4, <5>5
        <5> HIDE DEF z
        <5> QED  BY ONLY <1>2, <5>6
      <4> QED  BY <4>2, <4>3
    <3>3. e \in 0 .. l - 1  BY <1>2, <2>2, <3>1, <3>2
    <3>4. w[x] = (s + e) \div size  BY <1>2, <3>1, <3>3 DEF l
    <3>5. size * r <= s + e /\ s + e < size * (r + 1) /\ r \in Nat /\ s + e \in Nat
      <4>1. /\ size * (a + j - 1) <= s + O(j) /\ s + O(j + 1) <= size * (a + j - 1 + 1)
            /\ a + j - 1 \in Nat /\ a + j - 1 + 1 \in Nat
        BY <1>1, <1>6
      <4>2. size * (a + j - 1) \in Nat /\ size * (a + j - 1 + 1) \in Nat
        BY <1>5, <4>1
      <4> DEFINE y == size * (a + j - 1)
                 z == size * (a + j - 1 + 1)
      <4>3. y \in Nat /\ z \in Nat /\ y <= s + O(j) /\ s + O(j + 1) <= z
        BY <4>1, <4>2
      <4>4. size * r = y /\ size * (r + 1) = z /\ r \in Nat  BY <4>1
      <4> HIDE DEF y, z, e, r
      <4>5. /\ e \in Nat /\ s \in Nat /\ O(j) \in Nat /\ O(j + 1) \in Nat
            /\ O(j) <= e /\ e < O(j + 1)
        BY ONLY <1>2, <2>2, <3>1
      <4>6. y <= s + e  BY ONLY <4>3, <4>5
      <4>7. s + e < z /\ s + e \in Nat  BY ONLY <4>3, <4>5
      <4> QED  BY ONLY <4>4, <4>6, <4>7
    <3>6. (s + e) \div size = r
      <4> HIDE DEF r, e
      <4> QED  BY ONLY <1>2, <3>5, DivIs
    <3> QED  BY <1>7, <3>4, <3>6
  <2> QED  BY <2>3, <2>4
<1>13. Marks(P, parts, from, from + l, w)
  <2> HIDE DEF PartRecords
  <2> QED  BY <1>7, <1>10, <1>11, <1>12 DEF Marks
<1> QED  BY <1>13 DEF Along, parts, l


----------------------------------------------------------------------------
(* Where the parameters of a bucket begin in it, and who owns its places. *)
ListStarts(list) == [i \in 1 .. Len(list) + 1 |-> Elements(SubSeq(list, 1, i - 1))]
OwnersOf(list, size) ==
    [x \in Nat |->
        LET i == CHOOSE i \in 1 .. Len(list) : ListStarts(list)[i] <= x /\ x < ListStarts(list)[i + 1]
        IN  (StartOf(config.numel, list[i]) + (x - ListStarts(list)[i])) \div size]

LEMMA ListStartsAre ==
    ASSUME Typed, NEW list \in Seq(Params)
    PROVE  /\ Cut(ListStarts(list), Len(list)) /\ ListStarts(list)[1] = 0
           /\ ListStarts(list)[Len(list) + 1] = Elements(list)
           /\ \A i \in 1 .. Len(list) :
                  /\ ListStarts(list)[i] = Elements(SubSeq(list, 1, i - 1))
                  /\ ListStarts(list)[i + 1] = ListStarts(list)[i] + Numel(list[i])
                  /\ Numel(list[i]) \in Nat \ {0} /\ list[i] \in Params
<1> DEFINE n == Len(list)
           B == ListStarts(list)
           E(i) == Elements(SubSeq(list, 1, i))
<1>1. n \in Nat /\ \A i \in 1 .. n + 1 : SubSeq(list, 1, i - 1) \in Seq(Params)
  OBVIOUS
<1>2. \A i \in 1 .. n + 1 : B[i] = E(i - 1) /\ E(i - 1) \in Nat
  BY <1>1, ElementsIsNat DEF ListStarts
<1>3. \A i \in 1 .. n : E(i) = E(i - 1) + Numel(list[i])  BY ElementsNext
<1>4. \A i \in 1 .. n : Numel(list[i]) \in Nat \ {0} /\ list[i] \in Params
  BY NumelIs
<1>5. E(0) = 0 /\ E(n) = Elements(list)
  <2>1. SubSeq(list, 1, 0) = << >> /\ SubSeq(list, 1, n) = list  OBVIOUS
  <2> QED  BY <2>1, ElementsEmpty
<1>6. B \in [1 .. n + 1 -> Nat]
  <2>1. B = [i \in 1 .. n + 1 |-> E(i - 1)]  BY DEF ListStarts
  <2> HIDE DEF B, E
  <2> QED  BY <1>2, <2>1
<1>7. \A i \in 1 .. n : B[i] = Elements(SubSeq(list, 1, i - 1))  BY <1>1, <1>2
<1> HIDE DEF E, B, n
<1>8. ASSUME NEW i \in 1 .. n PROVE B[i + 1] = B[i] + Numel(list[i]) /\ B[i] < B[i + 1]
  <2>1. i \in 1 .. n + 1 /\ i + 1 \in 1 .. n + 1 /\ (i + 1) - 1 = i  BY <1>1
  <2>2. B[i] = E(i - 1) /\ B[i + 1] = E(i) /\ E(i - 1) \in Nat  BY <1>2, <2>1
  <2> QED  BY <1>3, <1>4, <2>2
<1>9. B[1] = 0 /\ B[n + 1] = Elements(list)
  <2>1. 1 \in 1 .. n + 1 /\ n + 1 \in 1 .. n + 1 /\ 1 - 1 = 0 /\ (n + 1) - 1 = n
    BY <1>1
  <2> QED  BY <1>2, <1>5, <2>1
<1> QED  BY <1>1, <1>4, <1>6, <1>7, <1>8, <1>9 DEF Cut, B, n

LEMMA OwnersAre ==
    ASSUME Typed, NEW list \in Seq(Params), NEW size, NEW i \in 1 .. Len(list),
           NEW e \in 0 .. Numel(list[i]) - 1
    PROVE  /\ ListStarts(list)[i] + e \in Nat
           /\ ListStarts(list)[i] <= ListStarts(list)[i] + e
           /\ ListStarts(list)[i] + e < ListStarts(list)[i + 1]
           /\ OwnersOf(list, size)[ListStarts(list)[i] + e]
                  = (StartOf(config.numel, list[i]) + e) \div size
<1> DEFINE n == Len(list)
           B == ListStarts(list)
           x == B[i] + e
           j == CHOOSE j \in 1 .. n : B[j] <= x /\ x < B[j + 1]
<1>1. /\ Cut(B, n) /\ B[i + 1] = B[i] + Numel(list[i]) /\ Numel(list[i]) \in Nat \ {0}
  BY ListStartsAre
<1> HIDE DEF B, n
<1>2. B[i] \in Nat /\ n \in Nat /\ i \in 1 .. n
  <2>1. i \in 1 .. n /\ i \in 1 .. n + 1  BY DEF n
  <2> QED  BY <1>1, <2>1 DEF Cut
<1>3. x \in Nat /\ B[i] <= x /\ x < B[i + 1] /\ x - B[i] = e  BY <1>1, <1>2
<1>4. OwnersOf(list, size)[x] = (StartOf(config.numel, list[j]) + (x - B[j])) \div size
  BY <1>3 DEF OwnersOf, B, n
<1> HIDE DEF x
<1>5. j \in 1 .. n /\ B[j] <= x /\ x < B[j + 1]  BY <1>2, <1>3
<1> HIDE DEF j
<1>6. i = j  BY ONLY <1>1, <1>2, <1>3, <1>5, CutOnce
<1> QED  BY <1>3, <1>4, <1>6 DEF x, B

----------------------------------------------------------------------------
(* The parts of a bucket, one parameter after the other. *)
Flattens(f, s, n) == f = [i \in 1 .. n |-> IF i = 1 THEN s[i] ELSE f[i - 1] \o s[i]]

LEMMA FlattensExists ==
    ASSUME NEW s, NEW n \in Nat
    PROVE  \E f : Flattens(f, s, n)
<1> DEFINE T == {k \in Nat : \E f : Flattens(f, s, k)}
<1>1. 0 \in T
  <2> DEFINE f == [i \in 1 .. 0 |-> 0]
  <2>1. f = [i \in 1 .. 0 |-> IF i = 1 THEN s[i] ELSE f[i - 1] \o s[i]]
    OBVIOUS
  <2> QED  BY <2>1 DEF Flattens
<1>2. ASSUME NEW k \in Nat, k \in T PROVE k + 1 \in T
  <2>1. PICK f : f = [i \in 1 .. k |-> IF i = 1 THEN s[i] ELSE f[i - 1] \o s[i]]
    BY <1>2 DEF Flattens
  <2> DEFINE last == IF k = 0 THEN s[1] ELSE f[k] \o s[k + 1]
             g == [i \in 1 .. k + 1 |-> IF i <= k THEN f[i] ELSE last]
  <2>2. ASSUME NEW i \in 1 .. k + 1
        PROVE  g[i] = IF i = 1 THEN s[i] ELSE g[i - 1] \o s[i]
    <3>1. CASE i <= k
      <4>1. i \in 1 .. k /\ (i # 1 => i - 1 \in 1 .. k)  BY <3>1
      <4>2. g[i] = f[i] /\ (i # 1 => g[i - 1] = f[i - 1])  BY <4>1
      <4>3. f[i] = IF i = 1 THEN s[i] ELSE f[i - 1] \o s[i]  BY <2>1, <4>1
      <4> QED  BY <4>2, <4>3
    <3>2. CASE i = k + 1
      <4>1. g[i] = last  BY <3>2
      <4>2. k # 0 => g[k] = f[k]  OBVIOUS
      <4> QED  BY <3>2, <4>1, <4>2
    <3> QED  BY <3>1, <3>2
  <2>3. Flattens(g, s, k + 1)
    <3> HIDE DEF last
    <3> QED  BY <2>2 DEF Flattens
  <2> QED  BY <2>3
<1> HIDE DEF T
<1>3. n \in T  BY <1>1, <1>2, Induction
<1> QED  BY <1>3 DEF T

LEMMA FlattenSeqIs ==
    ASSUME NEW s, Len(s) \in Nat \ {0}
    PROVE  \E f : /\ Flattens(f, s, Len(s))
                  /\ FlattenSeq(s) = f[Len(s)]
<1> DEFINE flatten[i \in 1 .. Len(s)] == IF i = 1 THEN s[i] ELSE flatten[i - 1] \o s[i]
<1>1. flatten = CHOOSE f : Flattens(f, s, Len(s))  BY DEF Flattens
<1>2. Flattens(flatten, s, Len(s))
  <2> HIDE DEF flatten
  <2> QED  BY <1>1, FlattensExists
<1>3. FlattenSeq(s) = flatten[Len(s)]  BY DEF FlattenSeq
<1> HIDE DEF flatten
<1> QED  BY <1>2, <1>3

LEMMA BucketAlong ==
    ASSUME Typed, NEW list \in Seq(Params), list # << >>, NEW size, NEW ranks,
           Fits(config.numel, size, ranks)
    PROVE  Along(ListParts(config.numel, size, ranks, list), 0, Elements(list),
                 OwnersOf(list, size))
<1> DEFINE n == Len(list)
           B == ListStarts(list)
           w == OwnersOf(list, size)
           s == [i \in DOMAIN list |-> Parts(config.numel, size, ranks, list[i])]
<1>1. n \in Nat \ {0} /\ DOMAIN list = 1 .. n  OBVIOUS
<1>2. Len(s) = n /\ \A i \in 1 .. n : s[i] = Parts(config.numel, size, ranks, list[i])
  <2>1. DOMAIN s = 1 .. n  BY <1>1
  <2>2. \A i \in 1 .. n : s[i] = Parts(config.numel, size, ranks, list[i])
    BY <1>1
  <2> HIDE DEF s, n
  <2> QED  BY <1>1, <2>1, <2>2
<1>3. /\ Cut(B, n) /\ B[1] = 0 /\ B[n + 1] = Elements(list)
      /\ \A i \in 1 .. n : /\ B[i + 1] = B[i] + Numel(list[i]) /\ list[i] \in Params
                           /\ Numel(list[i]) \in Nat \ {0}
  BY ListStartsAre
<1>4. \A i \in 1 .. n : \A e \in 0 .. Numel(list[i]) - 1 :
          w[B[i] + e] = (StartOf(config.numel, list[i]) + e) \div size
  BY OwnersAre
<1> HIDE DEF B, w, s, n
<1>5. \A i \in 1 .. n + 1 : B[i] \in Nat  BY <1>3 DEF Cut
<1>6. ASSUME NEW i \in 1 .. n PROVE Along(s[i], B[i], B[i + 1], w)
  <2>1. list[i] \in 1 .. Len(config.numel) /\ config.numel[list[i]] = Numel(list[i])
    <3>1. config.numel \in Seq(Nat \ {0}) /\ list[i] \in DOMAIN config.numel
      BY <1>3 DEF Typed, ConfigOK, Params
    <3> QED  BY <3>1 DEF Numel
  <2>2. B[i] \in Nat
    <3>1. i \in 1 .. n + 1  BY <1>1
    <3> QED  BY <1>5, <3>1
  <2> DEFINE k == list[i]
             numel == config.numel
             from == B[i]
  <2>3. \A e \in 0 .. numel[k] - 1 : w[from + e] = (StartOf(numel, k) + e) \div size
    BY <1>4, <2>1
  <2>4. k \in 1 .. Len(numel) /\ from \in Nat /\ Fits(numel, size, ranks)
    BY <2>1, <2>2
  <2>5. B[i + 1] = from + numel[k]  BY <1>3, <2>1
  <2>6. s[i] = Parts(numel, size, ranks, k)  BY <1>2
  <2> HIDE DEF k, numel, from
  <2>7. Along(Parts(numel, size, ranks, k), from, from + numel[k], w)
    BY ONLY <2>3, <2>4, PartsAlong
  <2> QED  BY <2>5, <2>6, <2>7 DEF from
<1>7. PICK f : Flattens(f, s, n) /\ FlattenSeq(s) = f[n]
  BY <1>1, <1>2, FlattenSeqIs
<1>8. \A i \in 1 .. n : f[i] = IF i = 1 THEN s[i] ELSE f[i - 1] \o s[i]
  BY <1>7 DEF Flattens
<1> DEFINE T == {d \in Nat : d + 1 <= n => Along(f[d + 1], 0, B[d + 2], w)}
<1>9. 0 \in T
  <2>1. 1 \in 1 .. n  BY <1>1
  <2>2. f[1] = s[1] /\ Along(s[1], B[1], B[1 + 1], w)  BY <1>6, <1>8, <2>1
  <2> QED  BY <1>3, <2>2
<1>10. ASSUME NEW d \in Nat, d \in T PROVE d + 1 \in T
  <2> SUFFICES ASSUME d + 1 + 1 <= n PROVE Along(f[d + 1 + 1], 0, B[d + 1 + 2], w)
    OBVIOUS
  <2>1. d + 2 \in 1 .. n /\ d + 2 # 1 /\ d + 1 <= n  BY <1>1
  <2>2. f[d + 2] = f[d + 1] \o s[d + 2]
    <3>1. (d + 2) - 1 = d + 1  OBVIOUS
    <3> QED  BY <1>8, <2>1, <3>1
  <2>3. Along(f[d + 1], 0, B[d + 2], w)  BY <1>10, <2>1
  <2>4. Along(s[d + 2], B[d + 2], B[d + 3], w)
    <3>1. (d + 2) + 1 = d + 3  OBVIOUS
    <3> QED  BY <1>6, <2>1, <3>1
  <2>5. Along(f[d + 1] \o s[d + 2], 0, B[d + 3], w)
    BY ONLY <2>3, <2>4, AlongBoth
  <2>6. d + 1 + 1 = d + 2 /\ d + 1 + 2 = d + 3  OBVIOUS
  <2> QED  BY <2>2, <2>5, <2>6
<1> HIDE DEF T
<1>11. n - 1 \in T
  <2>1. n - 1 \in Nat  BY <1>1
  <2> QED  BY <1>9, <1>10, <2>1, Induction
<1>12. (n - 1) + 1 = n /\ (n - 1) + 2 = n + 1  BY <1>1
<1> QED  BY <1>1, <1>3, <1>7, <1>11, <1>12 DEF T, s, w, ListParts


----------------------------------------------------------------------------
(* The slices of average_tensor cover the first m places of the bucket,
   each with the rank that owns its places. *)
SliceRecords == [rank : Nat, at : Nat, length : Nat \ {0}]
Lengths(slices) == [i \in DOMAIN slices |-> slices[i].length]
Lie(Q, slices, m, w) ==
    /\ slices \in Seq(SliceRecords) /\ Q \in [1 .. Len(slices) + 1 -> Nat]
    /\ Q[1] = 0 /\ Q[Len(slices) + 1] = m
    /\ \A t \in 1 .. Len(slices) :
           /\ slices[t].at = Q[t] /\ Q[t + 1] = Q[t] + slices[t].length
           /\ \A x \in Q[t] .. Q[t + 1] - 1 : w[x] = slices[t].rank
SlicesOK(slices, m, w) == Sum(Lengths(slices)) = m /\ \E Q : Lie(Q, slices, m, w)

LEMMA NoSlices ==
    ASSUME NEW w
    PROVE  SlicesOK(<< >>, 0, w)
<1>1. Lengths(<< >>) = << >>  BY DEF Lengths
<1>2. Sum(Lengths(<< >>)) = 0  BY <1>1, SumEmpty
<1> DEFINE Q == [j \in 1 .. 1 |-> 0]
<1>3. Lie(Q, << >>, 0, w)  BY DEF Lie
<1> QED  BY <1>2, <1>3 DEF SlicesOK

LEMMA LengthsAre ==
    ASSUME NEW slices \in Seq(SliceRecords)
    PROVE  /\ Lengths(slices) \in Seq(Nat) /\ Len(Lengths(slices)) = Len(slices)
           /\ \A t \in 1 .. Len(slices) : Lengths(slices)[t] = slices[t].length
<1> DEFINE n == Len(slices)
<1>1. n \in Nat /\ DOMAIN slices = 1 .. n /\ \A t \in 1 .. n : slices[t] \in SliceRecords
  <2> HIDE DEF SliceRecords
  <2> QED  OBVIOUS
<1>2. \A t \in 1 .. n : slices[t].length \in Nat  BY <1>1 DEF SliceRecords
<1> HIDE DEF n
<1>3. Lengths(slices) = [t \in 1 .. n |-> slices[t].length]
  BY <1>1 DEF Lengths
<1>4. Lengths(slices) \in [1 .. n -> Nat]  BY <1>2, <1>3
<1>5. Lengths(slices) \in Seq(Nat) /\ Len(Lengths(slices)) = n  BY <1>1, <1>4
<1> QED  BY <1>3, <1>5 DEF n

LEMMA SameSequence ==
    ASSUME NEW T, NEW s \in Seq(T), NEW t \in Seq(T), NEW n, Len(s) = n, Len(t) = n,
           \A i \in 1 .. n : s[i] = t[i]
    PROVE  s = t
OBVIOUS

(* A slice of its own. *)
LEMMA SliceAdded ==
    ASSUME NEW slices, NEW m \in Nat, NEW w, SlicesOK(slices, m, w), NEW part \in PartRecords,
           \A x \in m .. m + part.length - 1 : w[x] = part.rank
    PROVE  SlicesOK(Append(slices, [rank |-> part.rank, at |-> m, length |-> part.length]),
                    m + part.length, w)
<1> DEFINE n == Len(slices)
           new == [rank |-> part.rank, at |-> m, length |-> part.length]
           s == Append(slices, new)
           l == part.length
<1>1. PICK Q : Lie(Q, slices, m, w)  BY DEF SlicesOK
<1>2. /\ slices \in Seq(SliceRecords) /\ n \in Nat /\ Q \in [1 .. n + 1 -> Nat]
      /\ Q[1] = 0 /\ Q[n + 1] = m
  BY <1>1 DEF Lie
<1>3. new \in SliceRecords /\ l \in Nat \ {0} /\ new.at = m /\ new.length = l
      /\ new.rank = part.rank
  BY DEF PartRecords, SliceRecords
<1> DEFINE R == [t \in 1 .. n + 2 |-> IF t = n + 2 THEN m + l ELSE Q[t]]
<1> HIDE DEF new, l, n
<1>4. /\ s \in Seq(SliceRecords) /\ Len(s) = n + 1 /\ s[n + 1] = new
      /\ \A t \in 1 .. n : s[t] = slices[t]
  <2> HIDE DEF SliceRecords
  <2> QED  BY <1>2, <1>3 DEF n
<1> HIDE DEF s
<1>5. /\ R \in [1 .. n + 2 -> Nat] /\ R[n + 2] = m + l /\ \A t \in 1 .. n + 1 : R[t] = Q[t]
  BY <1>2, <1>3
<1> HIDE DEF R
<1>6. ASSUME NEW t \in 1 .. n + 1
      PROVE  /\ s[t].at = R[t] /\ R[t + 1] = R[t] + s[t].length
             /\ \A x \in R[t] .. R[t + 1] - 1 : w[x] = s[t].rank
  <2>1. CASE t \in 1 .. n
    <3>1. t \in 1 .. n + 1 /\ t + 1 \in 1 .. n + 1  BY <1>2, <2>1
    <3>2. R[t] = Q[t] /\ R[t + 1] = Q[t + 1] /\ s[t] = slices[t]
      BY <1>4, <1>5, <2>1, <3>1
    <3>3. /\ slices[t].at = Q[t] /\ Q[t + 1] = Q[t] + slices[t].length
          /\ \A x \in Q[t] .. Q[t + 1] - 1 : w[x] = slices[t].rank
      BY <1>1, <2>1 DEF Lie, n
    <3> QED  BY <3>2, <3>3
  <2>2. CASE t = n + 1
    <3>1. R[t] = m /\ R[t + 1] = m + l /\ s[t] = new
      <4>1. t + 1 = n + 2 /\ t \in 1 .. n + 1  BY <1>2, <2>2
      <4> QED  BY <1>2, <1>4, <1>5, <2>2, <4>1
    <3>2. \A x \in m .. m + l - 1 : w[x] = new.rank  BY <1>3 DEF l
    <3> QED  BY <1>3, <3>1, <3>2
  <2> QED  BY <1>2, <2>1, <2>2
<1>7. R[1] = 0
  <2>1. 1 \in 1 .. n + 1  BY <1>2
  <2> QED  BY <1>2, <1>5, <2>1
<1>8. (n + 1) + 1 = n + 2  BY <1>2
<1>9. Lie(R, s, m + l, w)
  <2> HIDE DEF SliceRecords
  <2> QED  BY <1>4, <1>5, <1>6, <1>7, <1>8 DEF Lie
<1>10. Sum(Lengths(s)) = m + l
  <2> DEFINE L == Lengths(slices)
  <2>1. L \in Seq(Nat) /\ Len(L) = n /\ \A t \in 1 .. n : L[t] = slices[t].length
    BY <1>2, LengthsAre DEF n
  <2>2. /\ Lengths(s) \in Seq(Nat) /\ Len(Lengths(s)) = n + 1
        /\ \A t \in 1 .. n + 1 : Lengths(s)[t] = s[t].length
    BY <1>4, LengthsAre
  <2> HIDE DEF L
  <2>3. Lengths(s) = Append(L, l)
    <3> DEFINE A == Append(L, l)
    <3>1. A \in Seq(Nat) /\ Len(A) = n + 1 /\ A[n + 1] = l /\ \A t \in 1 .. n : A[t] = L[t]
      BY <1>3, <2>1
    <3>2. \A t \in 1 .. n + 1 : Lengths(s)[t] = A[t]
      <4> SUFFICES ASSUME NEW t \in 1 .. n + 1 PROVE Lengths(s)[t] = A[t]
        OBVIOUS
      <4> HIDE DEF A
      <4>1. CASE t \in 1 .. n  BY <1>4, <2>1, <2>2, <3>1, <4>1
      <4>2. CASE t = n + 1  BY <1>3, <1>4, <2>2, <3>1, <4>2
      <4> QED  BY <1>2, <4>1, <4>2
    <3> HIDE DEF A
    <3>3. Lengths(s) = A  BY <1>2, <2>2, <3>1, <3>2
    <3> QED  BY <3>3 DEF A
  <2>4. Sum(L) = m /\ l \in Nat  BY <1>3 DEF SlicesOK, L
  <2> QED  BY ONLY <2>1, <2>3, <2>4, SumAppend
<1> QED  BY <1>9, <1>10 DEF SlicesOK, s, new, l

(* A longer last slice. *)
LEMMA SliceExtended ==
    ASSUME NEW slices, NEW m \in Nat, NEW w, SlicesOK(slices, m, w), NEW part \in PartRecords,
           \A x \in m .. m + part.length - 1 : w[x] = part.rank,
           NEW n, n = Len(slices), n > 0, slices[n].rank = part.rank
    PROVE  SlicesOK([slices EXCEPT ![n].length = @ + part.length], m + part.length, w)
<1> DEFINE new == [slices[n] EXCEPT !.length = @ + part.length]
           s == [slices EXCEPT ![n].length = @ + part.length]
           l == part.length
<1>1. PICK Q : Lie(Q, slices, m, w)  BY DEF SlicesOK
<1>2. /\ slices \in Seq(SliceRecords) /\ n \in Nat \ {0} /\ Q \in [1 .. n + 1 -> Nat]
      /\ Q[1] = 0 /\ Q[n + 1] = m
  BY <1>1 DEF Lie
<1>3. slices[n] \in SliceRecords
  <2> HIDE DEF SliceRecords
  <2> QED  BY <1>2
<1>4. /\ new \in SliceRecords /\ l \in Nat \ {0} /\ new.at = slices[n].at
      /\ new.length = slices[n].length + l /\ new.rank = slices[n].rank
      /\ slices[n].length \in Nat
  BY <1>3 DEF PartRecords, SliceRecords
<1> DEFINE R == [t \in 1 .. n + 1 |-> IF t = n + 1 THEN m + l ELSE Q[t]]
<1>5. s = [slices EXCEPT ![n] = new]  BY <1>2, <1>3
<1> HIDE DEF new, l, s
<1>6. /\ s \in Seq(SliceRecords) /\ Len(s) = n /\ s[n] = new
      /\ \A t \in 1 .. n - 1 : s[t] = slices[t]
  <2> HIDE DEF SliceRecords
  <2> QED  BY <1>2, <1>4, <1>5
<1>7. /\ R \in [1 .. n + 1 -> Nat] /\ R[n + 1] = m + l /\ \A t \in 1 .. n : R[t] = Q[t]
  BY <1>2, <1>4
<1> HIDE DEF R
<1>8. ASSUME NEW t \in 1 .. n
      PROVE  /\ s[t].at = R[t] /\ R[t + 1] = R[t] + s[t].length
             /\ \A x \in R[t] .. R[t + 1] - 1 : w[x] = s[t].rank
  <2>1. /\ slices[t].at = Q[t] /\ Q[t + 1] = Q[t] + slices[t].length
        /\ \A x \in Q[t] .. Q[t + 1] - 1 : w[x] = slices[t].rank
    BY <1>1 DEF Lie
  <2>2. CASE t \in 1 .. n - 1
    <3>1. t \in 1 .. n /\ t + 1 \in 1 .. n  BY <1>2, <2>2
    <3>2. R[t] = Q[t] /\ R[t + 1] = Q[t + 1] /\ s[t] = slices[t]
      BY <1>6, <1>7, <2>2, <3>1
    <3> QED  BY <2>1, <3>2
  <2>3. CASE t = n
    <3>1. R[t] = Q[t] /\ R[t + 1] = m + l /\ s[t] = new /\ Q[t] \in Nat /\ Q[t + 1] = m
      BY <1>2, <1>6, <1>7, <2>3
    <3>2. R[t + 1] = R[t] + s[t].length
      <4>1. l \in Nat /\ slices[t].length \in Nat /\ new.length = slices[t].length + l
        BY <1>4, <2>3
      <4>2. m = Q[t] + slices[t].length  BY <2>1, <3>1
      <4> QED  BY ONLY <3>1, <4>1, <4>2, m \in Nat
    <3>3. ASSUME NEW x \in Q[t] .. m + l - 1 PROVE w[x] = new.rank
      <4>1. x \in Q[t] .. m - 1 \/ x \in m .. m + l - 1  BY <1>4, <3>1
      <4>2. CASE x \in Q[t] .. m - 1  BY <1>4, <2>1, <2>3, <3>1, <4>2
      <4>3. CASE x \in m .. m + l - 1  BY <1>4, <4>3 DEF l
      <4> QED  BY <4>1, <4>2, <4>3
    <3>4. s[t].at = R[t]  BY <1>4, <2>1, <2>3, <3>1
    <3>5. R[t] .. R[t + 1] - 1 = Q[t] .. m + l - 1
      <4>1. l \in Nat  BY <1>4
      <4> QED  BY ONLY <3>1, <4>1, m \in Nat
    <3>6. \A x \in R[t] .. R[t + 1] - 1 : w[x] = s[t].rank
      BY ONLY <3>1, <3>3, <3>5
    <3> QED  BY <3>2, <3>4, <3>6
  <2>4. t = n \/ t \in 1 .. n - 1  BY <1>2
  <2> QED  BY <2>2, <2>3, <2>4
<1>9. R[1] = 0
  <2>1. 1 \in 1 .. n  BY <1>2
  <2> QED  BY <1>2, <1>7, <2>1
<1>10. Lie(R, s, m + l, w)
  <2> HIDE DEF SliceRecords
  <2> QED  BY <1>6, <1>7, <1>8, <1>9 DEF Lie
<1>11. Sum(Lengths(s)) = m + l
  <2> DEFINE L == Lengths(slices)
             F == SubSeq(L, 1, n - 1)
             y == slices[n].length
             z == new.length
  <2>1. L \in Seq(Nat) /\ Len(L) = n /\ \A t \in 1 .. n : L[t] = slices[t].length
    BY <1>2, LengthsAre
  <2>2. /\ Lengths(s) \in Seq(Nat) /\ Len(Lengths(s)) = n
        /\ \A t \in 1 .. n : Lengths(s)[t] = s[t].length
    BY <1>6, LengthsAre
  <2>3. Sum(L) = m  BY DEF SlicesOK
  <2> HIDE DEF L
  <2>4. F \in Seq(Nat) /\ Len(F) = n - 1 /\ \A t \in 1 .. n - 1 : F[t] = L[t]
    BY <1>2, <2>1
  <2>5. y \in Nat /\ z \in Nat /\ z = y + l /\ L[n] = y /\ Lengths(s)[n] = z
    <3>1. n \in 1 .. n  BY <1>2
    <3> QED  BY <1>4, <1>6, <2>1, <2>2, <3>1
  <2> HIDE DEF F, y, z
  <2>6. L = Append(F, y)
    <3> DEFINE A == Append(F, y)
    <3>1. A \in Seq(Nat) /\ Len(A) = n /\ A[n] = y /\ \A t \in 1 .. n - 1 : A[t] = F[t]
      BY <1>2, <2>4, <2>5
    <3> HIDE DEF A
    <3>2. \A t \in 1 .. n : L[t] = A[t]
      <4> SUFFICES ASSUME NEW t \in 1 .. n PROVE L[t] = A[t]  OBVIOUS
      <4>1. CASE t = n  BY <2>5, <3>1, <4>1
      <4>2. CASE t \in 1 .. n - 1  BY <2>4, <3>1, <4>2
      <4> QED  BY <1>2, <4>1, <4>2
    <3>3. L = A  BY ONLY <2>1, <3>1, <3>2, SameSequence
    <3> QED  BY <3>3 DEF A
  <2>7. Lengths(s) = Append(F, z)
    <3> DEFINE A == Append(F, z)
    <3>1. A \in Seq(Nat) /\ Len(A) = n /\ A[n] = z /\ \A t \in 1 .. n - 1 : A[t] = F[t]
      BY <1>2, <2>4, <2>5
    <3> HIDE DEF A
    <3>2. \A t \in 1 .. n : Lengths(s)[t] = A[t]
      <4> SUFFICES ASSUME NEW t \in 1 .. n PROVE Lengths(s)[t] = A[t]  OBVIOUS
      <4>1. CASE t = n  BY <2>5, <3>1, <4>1
      <4>2. CASE t \in 1 .. n - 1
        <5>1. Lengths(s)[t] = slices[t].length /\ L[t] = slices[t].length
          BY <1>6, <2>1, <2>2, <4>2
        <5> QED  BY <2>4, <3>1, <4>2, <5>1
      <4> QED  BY <1>2, <4>1, <4>2
    <3>3. Lengths(s) = A  BY ONLY <2>2, <3>1, <3>2, SameSequence
    <3> QED  BY <3>3 DEF A
  <2>8. Sum(L) = Sum(F) + y /\ Sum(Lengths(s)) = Sum(F) + z /\ Sum(F) \in Nat
    BY <2>4, <2>5, <2>6, <2>7, SumAppend, SumIsNat
  <2> QED  BY <1>4, <2>3, <2>5, <2>8
<1> QED  BY <1>10, <1>11 DEF SlicesOK, s, l

(* average_tensor keeps them so, part after part. *)
LEMMA SliceGoesOn ==
    ASSUME NEW slices, NEW m \in Nat, NEW w, SlicesOK(slices, m, w), NEW part \in PartRecords,
           \A x \in m .. m + part.length - 1 : w[x] = part.rank
    PROVE  SlicesOK(AddSlice(slices, part), m + part.length, w)
<1> DEFINE n == Len(slices)
<1>1. Sum([i \in DOMAIN slices |-> slices[i].length]) = m
  BY DEF SlicesOK, Lengths
<1>2. CASE n > 0 /\ slices[n].rank = part.rank
  <2>1. SlicesOK([slices EXCEPT ![n].length = @ + part.length], m + part.length, w)
    BY <1>2, SliceExtended
  <2>2. AddSlice(slices, part) = [slices EXCEPT ![n].length = @ + part.length]
    BY <1>2 DEF AddSlice
  <2> QED  BY ONLY <2>1, <2>2
<1>3. CASE ~(n > 0 /\ slices[n].rank = part.rank)
  <2>1. AddSlice(slices, part) =
            Append(slices, [rank |-> part.rank, at |-> m, length |-> part.length])
    BY <1>1, <1>3 DEF AddSlice
  <2>2. SlicesOK(Append(slices, [rank |-> part.rank, at |-> m, length |-> part.length]),
                 m + part.length, w)
    BY SliceAdded
  <2> QED  BY ONLY <2>1, <2>2
<1> QED  BY <1>2, <1>3


LEMMA LoopCovers ==
    ASSUME NEW parts, NEW from, NEW to, NEW w, Along(parts, 0, to, w), NEW v,
           Steps(v, SlicesLoop, parts, Len(parts))
    PROVE  SlicesOK(v[Len(parts)], to, w)
<1> DEFINE n == Len(parts)
<1>1. PICK P : Marks(P, parts, 0, to, w)  BY DEF Along
<1>2. /\ parts \in Seq(PartRecords) /\ n \in Nat /\ P \in [1 .. n + 1 -> Nat]
      /\ P[1] = 0 /\ P[n + 1] = to
  BY <1>1 DEF Marks
<1>3. \A j \in 1 .. n : parts[j] \in PartRecords
  <2> HIDE DEF PartRecords
  <2> QED  BY <1>2
<1>4. \A j \in 1 .. n : /\ P[j + 1] = P[j] + parts[j].length
                        /\ \A x \in P[j] .. P[j + 1] - 1 : w[x] = parts[j].rank
  BY <1>1 DEF Marks
<1>5. v[0] = << >> /\ \A k \in 0 .. n - 1 : v[k + 1] = AddSlice(v[k], parts[k + 1])
  BY DEF Steps, Grown, SlicesLoop
<1> HIDE DEF n
<1> DEFINE T == {k \in Nat : k <= n => SlicesOK(v[k], P[k + 1], w)}
<1>6. 0 \in T
  <2>1. P[0 + 1] = 0  BY <1>2
  <2> QED  BY <1>5, <2>1, NoSlices
<1>7. ASSUME NEW k \in Nat, k \in T PROVE k + 1 \in T
  <2> SUFFICES ASSUME k + 1 <= n PROVE SlicesOK(v[k + 1], P[k + 1 + 1], w)
    OBVIOUS
  <2>1. k \in 0 .. n - 1 /\ k + 1 \in 1 .. n /\ k <= n /\ k + 1 \in 1 .. n + 1
    BY <1>2
  <2>2. SlicesOK(v[k], P[k + 1], w)  BY <1>7, <2>1
  <2>3. v[k + 1] = AddSlice(v[k], parts[k + 1])  BY <1>5, <2>1
  <2> DEFINE m == P[k + 1]
             part == parts[k + 1]
  <2>4. /\ m \in Nat /\ part \in PartRecords /\ P[k + 1 + 1] = m + part.length
        /\ \A x \in m .. P[k + 1 + 1] - 1 : w[x] = part.rank
    BY <1>2, <1>3, <1>4, <2>1
  <2>5. \A x \in m .. m + part.length - 1 : w[x] = part.rank
    <3>1. part.length \in Nat  BY <2>4 DEF PartRecords
    <3> HIDE DEF m, part
    <3> QED  BY ONLY <2>4, <3>1
  <2> HIDE DEF m, part
  <2>6. SlicesOK(AddSlice(v[k], part), m + part.length, w)
    <3>1. SlicesOK(v[k], m, w)  BY <2>2 DEF m
    <3> QED  BY ONLY <2>4, <2>5, <3>1, SliceGoesOn
  <2> QED  BY <2>3, <2>4, <2>6 DEF part
<1> HIDE DEF T
<1>8. n \in T  BY <1>2, <1>6, <1>7, Induction
<1> QED  BY <1>2, <1>8 DEF T, n

(* The slices of a bucket cover it. *)
LEMMA SlicesCover ==
    ASSUME Typed, NEW list \in Seq(Params), list # << >>, NEW size, NEW ranks,
           Fits(config.numel, size, ranks)
    PROVE  SlicesOK(Slices(config.numel, size, ranks, list), Elements(list),
                    OwnersOf(list, size))
<1> DEFINE parts == ListParts(config.numel, size, ranks, list)
           n == Len(parts)
           w == OwnersOf(list, size)
<1>1. Along(parts, 0, Elements(list), w)  BY BucketAlong
<1>2. Slices(config.numel, size, ranks, list) = Result(SlicesLoop, parts)
  BY SlicesIs
<1> HIDE DEF parts, w
<1>3. parts \in Seq(PartRecords)  BY <1>1 DEF Along, Marks
<1>4. n \in Nat /\ DOMAIN parts = 1 .. n
  <2> HIDE DEF PartRecords
  <2> QED  BY <1>3
<1> HIDE DEF n
<1>5. PICK v : Steps(v, SlicesLoop, parts, n) /\ v[n] = Result(SlicesLoop, parts)
  BY <1>4, LoopSteps
<1>6. SlicesOK(v[n], Elements(list), w)  BY <1>1, <1>5, LoopCovers DEF n
<1> QED  BY <1>2, <1>5, <1>6 DEF w

(* Each element of a bucket is in one slice, its owner's. *)
Covers(s, x) == s.at <= x /\ x < s.at + s.length
EachInOneSlice(list, size, slices) ==
    \A i \in DOMAIN list : \A e \in 0 .. Numel(list[i]) - 1 :
        \E s \in Range(slices) :
            /\ \A t \in Range(slices) :
                   Covers(t, Elements(SubSeq(list, 1, i - 1)) + e) <=> t = s
            /\ s.rank = (StartOf(config.numel, list[i]) + e) \div size

LEMMA SlicesShare ==
    ASSUME Typed, NEW list \in Seq(Params), NEW size, NEW slices,
           SlicesOK(slices, Elements(list), OwnersOf(list, size))
    PROVE  EachInOneSlice(list, size, slices)
<1> DEFINE m == Elements(list)
           w == OwnersOf(list, size)
           n == Len(slices)
           B == ListStarts(list)
           l == Len(list)
<1>1. PICK Q : Lie(Q, slices, m, w)  BY DEF SlicesOK
<1>2. /\ slices \in Seq(SliceRecords) /\ n \in Nat /\ Q \in [1 .. n + 1 -> Nat]
      /\ Q[1] = 0 /\ Q[n + 1] = m
  BY <1>1 DEF Lie
<1>3. /\ \A t \in 1 .. n : slices[t].length \in Nat \ {0}
      /\ DOMAIN slices = 1 .. n
  <2>1. \A t \in 1 .. n : slices[t] \in SliceRecords
    <3> HIDE DEF SliceRecords
    <3> QED  BY <1>2
  <2> QED  BY <1>2, <2>1 DEF SliceRecords
<1>4. \A t \in 1 .. n : /\ slices[t].at = Q[t] /\ Q[t + 1] = Q[t] + slices[t].length
                        /\ \A x \in Q[t] .. Q[t + 1] - 1 : w[x] = slices[t].rank
  BY <1>1 DEF Lie
<1>5. Cut(Q, n)
  <2>1. \A t \in 1 .. n : Q[t] < Q[t + 1]
    <3> SUFFICES ASSUME NEW t \in 1 .. n PROVE Q[t] < Q[t + 1]  OBVIOUS
    <3>1. t \in 1 .. n + 1  BY <1>2
    <3>2. Q[t] \in Nat /\ slices[t].length \in Nat \ {0} /\ Q[t + 1] = Q[t] + slices[t].length
      BY <1>2, <1>3, <1>4, <3>1
    <3> QED  BY <3>2
  <2> QED  BY <1>2, <2>1 DEF Cut
<1>6. /\ Cut(B, l) /\ B[l + 1] = m
      /\ \A i \in 1 .. l : B[i] = Elements(SubSeq(list, 1, i - 1))
  BY ListStartsAre
<1>7. l \in Nat /\ DOMAIN list = 1 .. l  OBVIOUS
<1> SUFFICES ASSUME NEW i \in 1 .. l, NEW e \in 0 .. Numel(list[i]) - 1
             PROVE  \E s \in Range(slices) :
                        /\ \A t \in Range(slices) :
                               Covers(t, Elements(SubSeq(list, 1, i - 1)) + e) <=> t = s
                        /\ s.rank = (StartOf(config.numel, list[i]) + e) \div size
  BY <1>7 DEF EachInOneSlice
<1> DEFINE x == B[i] + e
<1>8. /\ x \in Nat /\ x < B[i + 1] /\ w[x] = (StartOf(config.numel, list[i]) + e) \div size
  BY OwnersAre
<1> HIDE DEF m, w, n, B, l
<1>9. x = Elements(SubSeq(list, 1, i - 1)) + e  BY <1>6
<1> HIDE DEF x
<1>10. B[i + 1] <= B[l + 1] /\ B[i + 1] \in Nat /\ B[l + 1] \in Nat
  <2>1. i + 1 \in 1 .. l + 1 /\ l + 1 \in 1 .. l + 1  BY <1>7
  <2>2. B[i + 1] \in Nat /\ B[l + 1] \in Nat  BY <1>6, <2>1 DEF Cut
  <2>3. CASE i = l  BY <2>2, <2>3
  <2>4. CASE i # l
    <3>1. i + 1 < l + 1  BY <1>7, <2>4
    <3>2. B[i + 1] < B[l + 1]  BY <1>6, <2>1, <3>1, CutGrows
    <3> QED  BY <2>2, <3>2
  <2> QED  BY <2>3, <2>4
<1>11. Q[1] <= x /\ x < Q[n + 1]  BY <1>2, <1>6, <1>8, <1>10
<1>12. PICK k \in 1 .. n : Q[k] <= x /\ x < Q[k + 1]
  BY ONLY <1>5, <1>8, <1>11, CutCovers
<1>13. ASSUME NEW t \in 1 .. n PROVE Covers(slices[t], x) <=> t = k
  <2>1. Covers(slices[t], x) <=> (Q[t] <= x /\ x < Q[t + 1])
    BY <1>4 DEF Covers
  <2>2. (Q[t] <= x /\ x < Q[t + 1]) => t = k
    BY ONLY <1>5, <1>8, <1>12, t \in 1 .. n, CutOnce
  <2> QED  BY <1>12, <2>1, <2>2
<1>14. slices[k].rank = w[x]
  <2>1. k \in 1 .. n + 1 /\ k + 1 \in 1 .. n + 1  BY <1>2
  <2>2. x \in Q[k] .. Q[k + 1] - 1  BY <1>2, <1>8, <1>12, <2>1
  <2> QED  BY <1>4, <2>2
<1>15. slices[k] \in Range(slices)  BY <1>3 DEF Range
<1>16. \A t \in Range(slices) : Covers(t, x) <=> t = slices[k]
  <2> SUFFICES ASSUME NEW t \in Range(slices) PROVE Covers(t, x) <=> t = slices[k]
    OBVIOUS
  <2>1. PICK j \in 1 .. n : t = slices[j]  BY <1>3 DEF Range
  <2>2. Covers(slices[j], x) <=> j = k  BY <1>13
  <2>3. Covers(slices[k], x)  BY <1>13
  <2> QED  BY <2>1, <2>2, <2>3
<1> QED  BY <1>8, <1>9, <1>14, <1>15, <1>16


----------------------------------------------------------------------------
(* The partition of a rank, from lo to hi - 1, holds the parameters a to b. *)
Clipped(numel, lo, hi) ==
    [k \in 1 .. Len(numel) + 1 |->
        IF Starts(numel)[k] < lo THEN lo
        ELSE IF Starts(numel)[k] > hi THEN hi ELSE Starts(numel)[k]]

Spans(numel, size, r, a, b) ==
    LET S  == Starts(numel)
        lo == size * r
        hi == size * (r + 1)
        C  == Clipped(numel, lo, hi)
    IN  /\ a \in 1 .. Len(numel) /\ b \in 1 .. Len(numel) /\ a <= b
        /\ ParamsInPartition(numel, size, r) = a .. b
        /\ FirstOffset(numel, size, r) = C[a] - S[a] /\ C[a] = lo
        /\ \A k \in a .. b : /\ S[k] <= C[k] /\ C[k] < C[k + 1] /\ C[k + 1] <= S[k + 1]
                             /\ lo <= C[k] /\ C[k] < hi /\ C[k] \in Nat /\ C[k + 1] \in Nat
                             /\ (k # a => C[k] = S[k])
                             /\ C[k + 1] = IF S[k + 1] < hi THEN S[k + 1] ELSE hi

LEMMA PartitionSpans ==
    ASSUME NEW numel, NEW size, NEW ranks, Fits(numel, size, ranks), NEW r \in Nat,
           size * r < Sum(numel)
    PROVE  \E a, b : Spans(numel, size, r, a, b)
<1> DEFINE N == Len(numel)
           S == Starts(numel)
           lo == size * r
           hi == size * (r + 1)
           tot == Sum(numel)
           C == Clipped(numel, lo, hi)
<1>1. lo \in Nat /\ hi \in Nat /\ lo < hi /\ tot \in Nat /\ lo < tot /\ N \in Nat
  <2>1. size \in Nat \ {0} /\ tot \in Nat /\ N \in Nat  BY DEF Fits, Sized
  <2>2. lo \in Nat /\ hi = lo + size  BY <2>1
  <2> QED  BY <2>1, <2>2
<1>2. /\ Cut(S, N) /\ S[1] = 0 /\ S[N + 1] = tot
      /\ \A k \in 1 .. N : S[k] = StartOf(numel, k) /\ S[k + 1] = S[k] + numel[k]
                           /\ numel[k] \in Nat
  BY StartsCut DEF Fits
<1>3. \A k \in 1 .. N + 1 : S[k] \in Nat  BY <1>2 DEF Cut
<1>4. \A k \in 1 .. N + 1 : C[k] = IF S[k] < lo THEN lo ELSE IF S[k] > hi THEN hi ELSE S[k]
  BY DEF Clipped
<1>5. ASSUME NEW k \in 1 .. N
      PROVE  /\ Holds(numel, size, r, k) <=> (S[k] < hi /\ lo < S[k + 1])
             /\ ReachesInto(numel, size, r, k) <=> (S[k] < lo /\ lo < S[k + 1])
             /\ S[k] < S[k + 1] /\ S[k] \in Nat /\ S[k + 1] \in Nat
             /\ StartOf(numel, k) = S[k]
  <2>1. k \in 1 .. N + 1 /\ k + 1 \in 1 .. N + 1  BY <1>1
  <2>2. S[k] < S[k + 1] /\ S[k] \in Nat /\ S[k + 1] \in Nat
    BY <1>2, <1>3, <2>1 DEF Cut
  <2>3. StartsIn(numel, size, r, k) <=> (lo <= S[k] /\ S[k] < hi)
    BY <1>2 DEF StartsIn
  <2>4. ReachesInto(numel, size, r, k) <=> (S[k] < lo /\ lo < S[k + 1])
    BY <1>2 DEF ReachesInto
  <2> HIDE DEF N, S, lo, hi, C, tot
  <2> QED  BY <1>1, <1>2, <2>2, <2>3, <2>4 DEF Holds
<1>6. DOMAIN numel = 1 .. N  BY DEF Fits, Sized
<1>7. ParamsInPartition(numel, size, r) = {k \in 1 .. N : Holds(numel, size, r, k)}
  BY <1>6 DEF ParamsInPartition
<1>8. FirstOffset(numel, size, r) =
          LET reach == {k \in 1 .. N : ReachesInto(numel, size, r, k)}
          IN  IF reach = {} THEN 0 ELSE lo - StartOf(numel, CHOOSE k \in reach : TRUE)
  BY <1>6 DEF FirstOffset
<1> HIDE DEF N, S, lo, hi, C, tot
<1> DEFINE y == IF hi < tot THEN hi - 1 ELSE tot - 1
<1>9. y \in Nat /\ lo <= y /\ y < hi /\ y < tot  BY <1>1
<1>10. PICK a \in 1 .. N : S[a] <= lo /\ lo < S[a + 1]
  BY <1>1, <1>2, CutCovers
<1> HIDE DEF y
<1>11. PICK b \in 1 .. N : S[b] <= y /\ y < S[b + 1]  BY <1>2, <1>9, CutCovers
<1>12. ASSUME NEW i \in 1 .. N + 1, NEW j \in 1 .. N + 1, i <= j PROVE S[i] <= S[j]
  <2>1. i < j => S[i] < S[j]  BY <1>2, CutGrows
  <2> QED  BY <1>1, <1>3, <1>12, <2>1
<1>13. a <= b
  <2>1. SUFFICES ASSUME b + 1 <= a PROVE FALSE  BY <1>1
  <2>2. S[b + 1] <= S[a]  BY <1>1, <1>12, <2>1
  <2> QED  BY <1>1, <1>5, <1>9, <1>10, <1>11, <2>2
<1>14. ASSUME NEW k \in 1 .. N PROVE (S[k] < hi /\ lo < S[k + 1]) <=> k \in a .. b
  <2>1. /\ S[k] \in Nat /\ S[k + 1] \in Nat /\ S[a] \in Nat /\ S[b + 1] \in Nat /\ S[b] \in Nat
        /\ S[a + 1] \in Nat /\ k \in Nat /\ a \in Nat /\ b \in Nat
    BY <1>1, <1>5
  <2>2. CASE k < a
    <3>1. S[k + 1] <= S[a]  BY <1>1, <1>12, <2>2
    <3> QED  BY <1>1, <1>10, <2>1, <2>2, <3>1
  <2>3. CASE b < k
    <3>1. S[b + 1] <= S[k]  BY <1>1, <1>12, <2>3
    <3>2. S[k] < tot
      <4>1. S[k + 1] <= S[N + 1]  BY <1>1, <1>12
      <4> QED  BY <1>1, <1>2, <1>5, <2>1, <4>1
    <3>3. hi <= S[k]  BY <1>1, <1>11, <2>1, <3>1, <3>2 DEF y
    <3> QED  BY <1>1, <2>1, <2>3, <3>3
  <2>4. CASE a <= k /\ k <= b
    <3>1. S[k] <= S[b] /\ S[a + 1] <= S[k + 1]  BY <1>1, <1>12, <2>4
    <3> QED  BY <1>1, <1>9, <1>10, <1>11, <2>1, <2>4, <3>1
  <2> QED  BY <2>1, <2>2, <2>3, <2>4
<1>15. ParamsInPartition(numel, size, r) = a .. b
  <2>1. a .. b \subseteq 1 .. N  BY <1>1
  <2> QED  BY <1>5, <1>7, <1>14, <2>1
<1>16. S[a] \in Nat /\ StartOf(numel, a) = S[a] /\ C[a] = lo
  <2>1. a \in 1 .. N + 1 /\ S[a] \in Nat  BY <1>1, <1>5
  <2> QED  BY <1>1, <1>4, <1>5, <1>10, <2>1
<1>17. FirstOffset(numel, size, r) = C[a] - S[a]
  <2> DEFINE reach == {k \in 1 .. N : ReachesInto(numel, size, r, k)}
  <2>1. reach \subseteq {a}
    <3> SUFFICES ASSUME NEW k \in 1 .. N, S[k] < lo, lo < S[k + 1] PROVE k = a
      BY <1>5
    <3>1. S[k] <= lo  BY <1>1, <1>5
    <3> QED
      BY ONLY <1>1, <1>2, <1>10, <3>1, k \in 1 .. N, lo < S[k + 1], CutOnce
  <2>2. a \in reach <=> S[a] < lo  BY <1>5, <1>10
  <2>3. FirstOffset(numel, size, r) =
            IF reach = {} THEN 0 ELSE lo - StartOf(numel, CHOOSE k \in reach : TRUE)
    BY <1>8
  <2> HIDE DEF reach
  <2>4. CASE reach = {}
    <3>1. S[a] = lo  BY <1>1, <1>10, <1>16, <2>2, <2>4
    <3> QED  BY <1>1, <1>16, <2>3, <2>4, <3>1
  <2>5. CASE reach # {}
    <3>1. (CHOOSE k \in reach : TRUE) = a  BY <2>1, <2>5
    <3> QED  BY <1>16, <2>3, <2>5, <3>1
  <2> QED  BY <2>4, <2>5
<1>18. ASSUME NEW k \in a .. b
       PROVE  /\ S[k] <= C[k] /\ C[k] < C[k + 1] /\ C[k + 1] <= S[k + 1]
              /\ lo <= C[k] /\ C[k] < hi /\ C[k] \in Nat /\ C[k + 1] \in Nat
              /\ (k # a => C[k] = S[k])
              /\ C[k + 1] = IF S[k + 1] < hi THEN S[k + 1] ELSE hi
  <2>1. k \in 1 .. N /\ k \in 1 .. N + 1 /\ k + 1 \in 1 .. N + 1 /\ a <= k
    BY <1>1
  <2>2. S[k] < hi /\ lo < S[k + 1] /\ S[k] < S[k + 1] /\ S[k] \in Nat /\ S[k + 1] \in Nat
    BY <1>5, <1>14, <2>1
  <2>3. C[k] = IF S[k] < lo THEN lo ELSE IF S[k] > hi THEN hi ELSE S[k]
    BY <1>4, <2>1
  <2>4. C[k + 1] = IF S[k + 1] < lo THEN lo ELSE IF S[k + 1] > hi THEN hi ELSE S[k + 1]
    BY <1>4, <2>1
  <2>5. ASSUME k # a PROVE lo < S[k]
    <3>1. a + 1 <= k /\ a + 1 \in 1 .. N + 1  BY <1>1, <2>1, <2>5
    <3>2. S[a + 1] <= S[k]  BY <1>12, <2>1, <3>1
    <3>3. S[a + 1] \in Nat  BY <1>3, <3>1
    <3> QED  BY <1>1, <1>10, <2>2, <3>2, <3>3
  <2>6. k # a => lo < S[k]  BY <2>5
  <2> QED  BY ONLY <1>1, <2>2, <2>3, <2>4, <2>6
<1> QED  BY <1>13, <1>15, <1>16, <1>17, <1>18 DEF Spans, N, S, C, lo, hi


----------------------------------------------------------------------------
(* The first j places of get_grad_position. *)
PlaceRecords == [param : Nat, from : Nat, dest : Nat, length : Nat]
PlaceAt(numel, size, r, k) ==
    LET C == Clipped(numel, size * r, size * (r + 1))
    IN  [param |-> k, from |-> C[k] - Starts(numel)[k], dest |-> C[k] - size * r,
         length |-> C[k + 1] - C[k]]
PlacesOK(numel, size, r, a, v, j) ==
    /\ v \in Seq(PlaceRecords) /\ Len(v) = j
    /\ Sum(Lengths(v)) = Clipped(numel, size * r, size * (r + 1))[a + j] - size * r
    /\ \A i \in 1 .. j : v[i] = PlaceAt(numel, size, r, a + i - 1)

LEMMA LengthsGrow ==
    ASSUME NEW v \in Seq(PlaceRecords), NEW p \in PlaceRecords
    PROVE  /\ Lengths(v) \in Seq(Nat) /\ p.length \in Nat
           /\ Lengths(Append(v, p)) = Append(Lengths(v), p.length)
<1> DEFINE n == Len(v)
           u == Append(v, p)
           L == Lengths(v)
           A == Append(L, p.length)
<1>1. /\ n \in Nat /\ DOMAIN v = 1 .. n /\ \A t \in 1 .. n : v[t] \in PlaceRecords
      /\ DOMAIN u = 1 .. n + 1 /\ u[n + 1] = p /\ \A t \in 1 .. n : u[t] = v[t]
  <2> HIDE DEF PlaceRecords
  <2> QED  OBVIOUS
<1>2. p.length \in Nat /\ \A t \in 1 .. n : v[t].length \in Nat
  BY <1>1 DEF PlaceRecords
<1> HIDE DEF n, u
<1>3. L = [t \in 1 .. n |-> v[t].length]  BY <1>1 DEF Lengths
<1>4. L \in Seq(Nat) /\ Len(L) = n /\ \A t \in 1 .. n : L[t] = v[t].length
  <2>1. L \in [1 .. n -> Nat]  BY <1>2, <1>3
  <2>2. \A t \in 1 .. n : L[t] = v[t].length  BY <1>3
  <2> HIDE DEF L
  <2> QED  BY <1>1, <2>1, <2>2
<1> HIDE DEF L
<1>5. /\ A \in Seq(Nat) /\ Len(A) = n + 1 /\ A[n + 1] = p.length
      /\ \A t \in 1 .. n : A[t] = v[t].length
  BY <1>1, <1>2, <1>4
<1>6. Lengths(u) = [t \in 1 .. n + 1 |-> u[t].length]  BY <1>1 DEF Lengths
<1>7. \A t \in 1 .. n + 1 : Lengths(u)[t] = u[t].length  BY <1>6
<1> HIDE DEF A
<1>8. \A t \in 1 .. n + 1 : Lengths(u)[t] = A[t]
  <2> SUFFICES ASSUME NEW t \in 1 .. n + 1 PROVE Lengths(u)[t] = A[t]  OBVIOUS
  <2>1. CASE t = n + 1  BY <1>1, <1>5, <1>7, <2>1
  <2>2. CASE t \in 1 .. n  BY <1>1, <1>5, <1>7, <2>2
  <2> QED  BY <1>1, <2>1, <2>2
<1>9. Lengths(u) \in Seq(Nat) /\ Len(Lengths(u)) = n + 1
  <2>1. \A t \in 1 .. n + 1 : u[t].length \in Nat
    <3> SUFFICES ASSUME NEW t \in 1 .. n + 1 PROVE u[t].length \in Nat  OBVIOUS
    <3>1. CASE t = n + 1  BY <1>1, <1>2, <3>1
    <3>2. CASE t \in 1 .. n  BY <1>1, <1>2, <3>2
    <3> QED  BY <1>1, <3>1, <3>2
  <2>2. Lengths(u) \in [1 .. n + 1 -> Nat]  BY <1>6, <2>1
  <2> QED  BY <1>1, <2>2
<1>10. Lengths(u) = A  BY ONLY <1>5, <1>8, <1>9, SameSequence
<1> QED  BY <1>2, <1>4, <1>10 DEF u, A, L

(* One more. *)
LEMMA PlaceAdded ==
    ASSUME NEW numel, Sized(numel), NEW size \in Nat, NEW r \in Nat, NEW a, NEW b,
           Spans(numel, size, r, a, b), NEW j \in Nat, a + j <= b, NEW v,
           PlacesOK(numel, size, r, a, v, j)
    PROVE  PlacesOK(numel, size, r, a, AddPosition(numel, size, r, v, a + j), j + 1)
<1> DEFINE N == Len(numel)
           S == Starts(numel)
           lo == size * r
           hi == size * (r + 1)
           C == Clipped(numel, lo, hi)
           k == a + j
           from == IF v = << >> THEN FirstOffset(numel, size, r) ELSE 0
           dest == Sum([i \in DOMAIN v |-> v[i].length])
           new == [param |-> k, from |-> from, dest |-> dest,
                   length |-> Lesser(numel[k] - from, size - dest)]
           u == Append(v, new)
<1>1. AddPosition(numel, size, r, v, k) = u  BY DEF AddPosition
<1>2. /\ lo \in Nat /\ hi \in Nat /\ hi = lo + size  OBVIOUS
<1>3. /\ a \in 1 .. N /\ b \in 1 .. N /\ N \in Nat /\ k \in a .. b /\ k \in 1 .. N
      /\ (k = a <=> j = 0) /\ k \in Nat
  BY DEF Spans, Sized
<1>4. /\ FirstOffset(numel, size, r) = C[a] - S[a] /\ C[a] = lo
      /\ S[k] <= C[k] /\ C[k] < C[k + 1] /\ C[k + 1] <= S[k + 1]
      /\ lo <= C[k] /\ C[k] < hi /\ C[k] \in Nat /\ C[k + 1] \in Nat
      /\ (k # a => C[k] = S[k])
      /\ C[k + 1] = IF S[k + 1] < hi THEN S[k + 1] ELSE hi
  <2> HIDE DEF C, S, k
  <2> QED  BY <1>3 DEF Spans, C, S
<1>5. /\ S[k] \in Nat /\ S[k + 1] \in Nat /\ S[k + 1] = S[k] + numel[k] /\ numel[k] \in Nat
  <2>1. k \in 1 .. Len(numel)  BY <1>3
  <2> HIDE DEF k
  <2> QED  BY <2>1, StartAndEnd DEF S
<1>6. /\ v \in Seq(PlaceRecords) /\ Len(v) = j /\ Sum(Lengths(v)) = C[k] - lo
      /\ \A i \in 1 .. j : v[i] = PlaceAt(numel, size, r, a + i - 1)
  BY DEF PlacesOK
<1>7. dest = C[k] - lo  BY <1>6 DEF Lengths
<1>8. from = C[k] - S[k]
  <2>1. v = << >> <=> j = 0
    <3> HIDE DEF PlaceRecords
    <3> QED  BY <1>6
  <2> HIDE DEF C, S, k, lo, hi
  <2>2. CASE j = 0  BY <1>3, <1>4, <2>1, <2>2
  <2>3. CASE j # 0  BY <1>3, <1>4, <1>5, <2>1, <2>3
  <2> QED  BY <2>2, <2>3
<1> HIDE DEF from, dest, C, S, k, lo, hi, N
<1>9. Lesser(numel[k] - from, size - dest) = C[k + 1] - C[k]
  <2>1. numel[k] - from = S[k + 1] - C[k] /\ size - dest = hi - C[k]
    BY <1>2, <1>4, <1>5, <1>7, <1>8
  <2>2. C[k + 1] = IF S[k + 1] < hi THEN S[k + 1] ELSE hi  BY <1>4
  <2> QED  BY <1>2, <1>4, <1>5, <2>1, <2>2 DEF Lesser
<1>10. new = PlaceAt(numel, size, r, k)
  BY <1>7, <1>8, <1>9 DEF PlaceAt, C, S, lo, hi
<1>11. new \in PlaceRecords /\ new.length = C[k + 1] - C[k]
  <2>1. from \in Nat /\ dest \in Nat /\ C[k + 1] - C[k] \in Nat
    BY <1>2, <1>4, <1>5, <1>7, <1>8
  <2> QED  BY <1>3, <1>9, <2>1 DEF PlaceRecords
<1> HIDE DEF new
<1>12. Sum(Lengths(u)) = C[k + 1] - lo
  <2>1. /\ Lengths(v) \in Seq(Nat) /\ new.length \in Nat
        /\ Lengths(u) = Append(Lengths(v), new.length)
    BY <1>6, <1>11, LengthsGrow
  <2>2. Sum(Lengths(u)) = Sum(Lengths(v)) + new.length  BY <2>1, SumAppend
  <2> QED  BY <1>2, <1>4, <1>6, <1>11, <2>2
<1>13. /\ u \in Seq(PlaceRecords) /\ Len(u) = j + 1 /\ u[j + 1] = new
       /\ \A i \in 1 .. j : u[i] = v[i]
  <2> HIDE DEF PlaceRecords
  <2> QED  BY <1>6, <1>11
<1> HIDE DEF u
<1>14. \A i \in 1 .. j + 1 : u[i] = PlaceAt(numel, size, r, a + i - 1)
  <2> SUFFICES ASSUME NEW i \in 1 .. j + 1 PROVE u[i] = PlaceAt(numel, size, r, a + i - 1)
    OBVIOUS
  <2>1. CASE i \in 1 .. j  BY <1>6, <1>13, <2>1
  <2>2. CASE i = j + 1
    <3>1. a + i - 1 = k  BY <1>3, <2>2 DEF k
    <3> QED  BY <1>10, <1>13, <2>2, <3>1
  <2> QED  BY <2>1, <2>2
<1>15. a + (j + 1) = k + 1  BY <1>3 DEF k
<1>16. PlacesOK(numel, size, r, a, u, j + 1)
  <2> HIDE DEF PlaceRecords
  <2> QED  BY <1>12, <1>13, <1>14, <1>15 DEF PlacesOK, C, lo, hi
<1> QED  BY <1>1, <1>16 DEF k


LEMMA GradPositionIs ==
    ASSUME NEW numel, Sized(numel), NEW size \in Nat, NEW r \in Nat, NEW a, NEW b,
           Spans(numel, size, r, a, b)
    PROVE  PlacesOK(numel, size, r, a, GradPosition(numel, size, r), b - a + 1)
<1> DEFINE N == Len(numel)
           n == b - a + 1
           s == Ordered(numel, size, r)
           c == PlacesLoop(numel, size, r)
<1>1. /\ a \in 1 .. N /\ b \in 1 .. N /\ N \in Nat /\ a <= b /\ DOMAIN numel = 1 .. N
      /\ ParamsInPartition(numel, size, r) = a .. b
  BY DEF Spans, Sized
<1>2. s = [i \in 1 .. n |-> a + i - 1]
  <2> DEFINE key == [k \in DOMAIN numel |-> k]
  <2>1. /\ \A i \in a .. b : key[i] \in Int
        /\ \A i, j \in a .. b : i < j => key[i] < key[j]
    BY <1>1
  <2>2. s = SortedBy(key, a .. b)  BY <1>1 DEF Ordered
  <2>3. a \in Nat /\ b \in Nat /\ a <= b  BY <1>1
  <2> HIDE DEF key, s
  <2> QED  BY <2>1, <2>2, <2>3, SortedRange
<1>3. n \in Nat /\ DOMAIN s = 1 .. n /\ \A i \in 1 .. n : s[i] = a + i - 1
  BY <1>1, <1>2
<1> HIDE DEF s, c, n
<1>4. PICK v : Steps(v, c, s, n) /\ v[n] = Result(c, s)  BY <1>3, LoopSteps
<1>5. /\ v[0] = << >>
      /\ \A k \in 0 .. n - 1 : v[k + 1] = AddPosition(numel, size, r, v[k], s[k + 1])
  BY <1>4 DEF Steps, c, Grown, PlacesLoop
<1> DEFINE T == {j \in Nat : j <= n => PlacesOK(numel, size, r, a, v[j], j)}
<1>6. 0 \in T
  <2>1. Clipped(numel, size * r, size * (r + 1))[a] = size * r /\ size * r \in Nat
    BY DEF Spans
  <2>2. a + 0 = a  BY <1>1
  <2>3. Sum(Lengths(<< >>)) = 0
    <3>1. Lengths(<< >>) = << >>  BY DEF Lengths
    <3> QED  BY <3>1, SumEmpty
  <2> DEFINE C == Clipped(numel, size * r, size * (r + 1))
             lo == size * r
  <2>4. C[a + 0] - lo = 0
    <3>1. C[a + 0] = lo /\ lo \in Nat  BY <2>1, <2>2
    <3> HIDE DEF C, lo
    <3> QED  BY <3>1
  <2>5. Sum(Lengths(v[0])) = C[a + 0] - lo  BY <1>5, <2>3, <2>4
  <2>6. v[0] \in Seq(PlaceRecords) /\ Len(v[0]) = 0
    <3> HIDE DEF PlaceRecords
    <3> QED  BY <1>5
  <2> QED  BY <2>5, <2>6 DEF PlacesOK
<1>7. ASSUME NEW j \in Nat, j \in T PROVE j + 1 \in T
  <2> SUFFICES ASSUME j + 1 <= n PROVE PlacesOK(numel, size, r, a, v[j + 1], j + 1)
    OBVIOUS
  <2>1. j \in 0 .. n - 1 /\ j + 1 \in 1 .. n /\ j <= n  BY <1>3
  <2>2. PlacesOK(numel, size, r, a, v[j], j)  BY <1>7, <2>1
  <2>3. v[j + 1] = AddPosition(numel, size, r, v[j], s[j + 1]) /\ s[j + 1] = a + j
    <3>1. a + (j + 1) - 1 = a + j  BY <1>1
    <3> QED  BY <1>3, <1>5, <2>1, <3>1
  <2>4. a + j <= b  BY <1>1, <2>1 DEF n
  <2>5. PlacesOK(numel, size, r, a, AddPosition(numel, size, r, v[j], a + j), j + 1)
    BY <2>2, <2>4, PlaceAdded
  <2> QED  BY <2>3, <2>5
<1> HIDE DEF T
<1>8. n \in T  BY <1>3, <1>6, <1>7, Induction
<1>9. GradPosition(numel, size, r) = v[n]  BY <1>4, PlacesAre DEF c, s
<1> QED  BY <1>3, <1>8, <1>9 DEF T, n

(* The parts of the gradients that are at the place of x. *)
PartsAt(numel, size, r, places, x) ==
    {at \in (DOMAIN places) \X (0 .. size - 1) :
        /\ at[2] < places[at[1]].length
        /\ StartOf(numel, places[at[1]].param) + places[at[1]].from + at[2] = x
        /\ places[at[1]].dest + at[2] = x - size * r}

LEMMA OnePart ==
    ASSUME NEW numel, NEW size, NEW ranks, Fits(numel, size, ranks), NEW r \in Nat,
           NEW x \in size * r .. size * (r + 1) - 1, x < Sum(numel)
    PROVE  Cardinality(PartsAt(numel, size, r, GradPosition(numel, size, r), x)) = 1
<1> DEFINE N == Len(numel)
           S == Starts(numel)
           lo == size * r
           hi == size * (r + 1)
           tot == Sum(numel)
           C == Clipped(numel, lo, hi)
           v == GradPosition(numel, size, r)
<1>1. /\ size \in Nat \ {0} /\ Sized(numel) /\ lo \in Nat /\ hi \in Nat /\ hi = lo + size
      /\ tot \in Nat /\ N \in Nat
  <2>1. size \in Nat \ {0} /\ Sized(numel) /\ tot \in Nat /\ N \in Nat
    BY DEF Fits, Sized
  <2>2. lo \in Nat /\ hi = lo + size  BY <2>1
  <2> QED  BY <2>1, <2>2
<1>2. lo <= x /\ x < hi /\ x < tot /\ x \in Nat
  <2> HIDE DEF lo, hi, tot
  <2>1. x \in lo .. hi - 1 /\ x < tot  BY DEF lo, hi, tot
  <2> QED  BY <1>1, <2>1
<1>3. lo < tot
  <2> HIDE DEF lo, hi, tot
  <2> QED  BY <1>1, <1>2
<1>4. PICK a, b : Spans(numel, size, r, a, b)  BY <1>3, PartitionSpans
<1> DEFINE n == b - a + 1
<1>5. /\ a \in 1 .. N /\ b \in 1 .. N /\ a <= b
      /\ ParamsInPartition(numel, size, r) = a .. b
      /\ \A k \in a .. b : /\ S[k] <= C[k] /\ C[k] < C[k + 1] /\ C[k + 1] <= S[k + 1]
                           /\ lo <= C[k] /\ C[k] < hi /\ C[k] \in Nat /\ C[k + 1] \in Nat
                           /\ (k # a => C[k] = S[k])
                           /\ C[k + 1] = IF S[k + 1] < hi THEN S[k + 1] ELSE hi
  <2> HIDE DEF S, C
  <2> QED  BY <1>4 DEF Spans, S, C
<1>6. C[a] = lo  BY <1>4 DEF Spans
<1>7. PlacesOK(numel, size, r, a, v, n)  BY <1>1, <1>4, GradPositionIs
<1>8. /\ v \in Seq(PlaceRecords) /\ Len(v) = n
      /\ \A i \in 1 .. n : v[i] = PlaceAt(numel, size, r, a + i - 1)
  BY <1>7 DEF PlacesOK
<1>9. n \in Nat /\ DOMAIN v = 1 .. n
  <2>1. n \in Nat  BY <1>1, <1>5
  <2> HIDE DEF PlaceRecords, v, n
  <2> QED  BY <1>8, <2>1
<1>10. /\ Cut(S, N) /\ S[1] = 0 /\ S[N + 1] = tot  BY StartsCut DEF Fits
<1>11. \A k \in 1 .. N : /\ S[k] \in Nat /\ S[k + 1] \in Nat /\ S[k] < S[k + 1]
                         /\ StartOf(numel, k) = S[k]
  BY <1>1, StartAndEnd
<1>12. \A k \in 1 .. N : Holds(numel, size, r, k) => k \in a .. b
  <2>1. DOMAIN numel = 1 .. N  BY <1>1 DEF Sized
  <2> QED  BY <1>5, <2>1 DEF ParamsInPartition
<1> HIDE DEF v
<1>13. ASSUME NEW i \in 1 .. n
       PROVE  LET k == a + i - 1
              IN  /\ k \in a .. b /\ k \in 1 .. N
                  /\ v[i].param = k /\ v[i].from = C[k] - S[k] /\ v[i].dest = C[k] - lo
                  /\ v[i].length = C[k + 1] - C[k]
  <2>1. a + i - 1 \in a .. b /\ a + i - 1 \in 1 .. N  BY <1>1, <1>5
  <2> HIDE DEF n, C, S, lo, N
  <2> QED  BY <1>8, <2>1 DEF PlaceAt, C, S, lo
<1> HIDE DEF S, C, lo, hi, tot, N
(* x lies in the parameter k. *)
<1>14. PICK k \in 1 .. N : S[k] <= x /\ x < S[k + 1]
  BY <1>1, <1>2, <1>10, CutCovers
<1>15. k \in a .. b
  <2>1. /\ S[k] \in Nat /\ S[k + 1] \in Nat /\ StartOf(numel, k) = S[k]
    BY <1>11
  <2>2. S[k + 1] = S[k] + numel[k] /\ numel[k] \in Nat
    <3>1. k \in 1 .. Len(numel)  BY DEF N
    <3> QED  BY <1>1, <2>1, <3>1, StartAndEnd DEF S
  <2>3. StartsIn(numel, size, r, k) <=> (lo <= S[k] /\ S[k] < hi)
    BY <2>1 DEF StartsIn, lo, hi
  <2>4. ReachesInto(numel, size, r, k) <=> (S[k] < lo /\ lo < S[k + 1])
    BY <2>1, <2>2 DEF ReachesInto, lo
  <2>5. Holds(numel, size, r, k)
    BY <1>1, <1>2, <1>14, <2>1, <2>3, <2>4 DEF Holds
  <2> QED  BY <1>12, <2>5
<1>16. C[k] <= x /\ x < C[k + 1] /\ C[k] \in Nat /\ C[k + 1] \in Nat /\ S[k] \in Nat
  <2>1. C[k] = lo \/ C[k] = S[k]  BY <1>5, <1>6, <1>15
  <2>2. C[k + 1] = IF S[k + 1] < hi THEN S[k + 1] ELSE hi  BY <1>5, <1>15
  <2>3. C[k] \in Nat /\ C[k + 1] \in Nat /\ S[k] \in Nat /\ S[k + 1] \in Nat
    BY <1>5, <1>11, <1>15
  <2> QED  BY <1>1, <1>2, <1>14, <2>1, <2>2, <2>3
<1> DEFINE p == k - a + 1
           q == x - C[k]
           P == PartsAt(numel, size, r, v, x)
<1>17. p \in 1 .. n /\ a + p - 1 = k  BY <1>1, <1>5, <1>15
<1>18. q \in 0 .. size - 1 /\ q < C[k + 1] - C[k] /\ C[k] + q = x
  <2>1. lo <= C[k]  BY <1>5, <1>15
  <2> QED  BY <1>1, <1>2, <1>16, <2>1
<1>19. <<p, q>> \in P
  <2>1. /\ v[p].param = k /\ v[p].from = C[k] - S[k] /\ v[p].dest = C[k] - lo
        /\ v[p].length = C[k + 1] - C[k]
    <3> HIDE DEF p, q, n
    <3> QED  BY <1>13, <1>17
  <2>2. StartOf(numel, k) = S[k]  BY <1>11
  <2> HIDE DEF p, q, n
  <2>3. S[k] + (C[k] - S[k]) + q = x /\ C[k] - lo + q = x - lo
    <3>1. q \in Int /\ S[k] \in Int /\ C[k] \in Int /\ lo \in Int
      BY <1>1, <1>16, <1>18
    <3> QED  BY ONLY <1>18, <3>1
  <2>4. <<p, q>> \in (DOMAIN v) \X (0 .. size - 1)  BY <1>9, <1>17, <1>18
  <2>5. /\ q < v[p].length
        /\ StartOf(numel, v[p].param) + v[p].from + q = x
        /\ v[p].dest + q = x - size * r
    BY <1>18, <2>1, <2>2, <2>3 DEF lo
  <2> QED  BY <2>4, <2>5 DEF PartsAt
<1>20. ASSUME NEW at \in P PROVE at = <<p, q>>
  <2>1. PICK i \in 1 .. n, j \in 0 .. size - 1 : at = <<i, j>>
    BY <1>9 DEF PartsAt
  <2>2. /\ j < v[i].length
        /\ StartOf(numel, v[i].param) + v[i].from + j = x
    BY <2>1 DEF PartsAt
  <2> DEFINE h == a + i - 1
  <2>3. /\ h \in a .. b /\ h \in 1 .. N
        /\ v[i].param = h /\ v[i].from = C[h] - S[h] /\ v[i].length = C[h + 1] - C[h]
    BY <1>13
  <2>4. /\ S[h] <= C[h] /\ C[h + 1] <= S[h + 1] /\ C[h] \in Nat /\ C[h + 1] \in Nat
        /\ S[h] \in Nat /\ S[h + 1] \in Nat /\ StartOf(numel, h) = S[h]
    BY <1>5, <1>11, <2>3
  <2>5. j \in Nat /\ i \in Nat /\ h = a + i - 1 /\ a \in Nat
    BY <1>1, <1>5, <1>9
  <2> HIDE DEF h, n, p, q, P
  <2>6. C[h] + j = x /\ j < C[h + 1] - C[h]
    <3>1. S[h] + (C[h] - S[h]) + j = x /\ j < C[h + 1] - C[h]
      BY <2>2, <2>3, <2>4
    <3> QED  BY ONLY <2>4, <2>5, <3>1
  <2>7. S[h] <= x /\ x < S[h + 1]  BY ONLY <1>2, <2>4, <2>5, <2>6
  <2>8. h = k  BY ONLY <1>2, <1>10, <1>14, <2>3, <2>7, CutOnce
  <2>9. i = p  BY ONLY <1>1, <1>5, <1>15, <2>5, <2>8 DEF p
  <2>10. j = q  BY ONLY <1>2, <1>16, <2>5, <2>6, <2>8 DEF q
  <2> QED  BY <2>1, <2>9, <2>10
<1> HIDE DEF P, p, q
<1>21. P = {<<p, q>>}  BY <1>19, <1>20
<1>22. Cardinality(P) = 1  BY <1>21, FS_Singleton
<1> QED  BY <1>22 DEF P, v


----------------------------------------------------------------------------
(* The bucket is a list of parameters, whatever happens. *)
ListedInv == Typed /\ unready \subseteq Params /\ bucket \in Seq(Params)

LEMMA PutIntoLists ==
    ASSUME NEW index, NEW list \in Seq(Params), NEW p \in Params, PutInto(index, list, p)
    PROVE  bucket' \in Seq(Params)
BY DEF PutInto

LEMMA ReduceParamLists ==
    ASSUME ListedInv, NEW p \in Params, NEW m, ReduceParam(p, m)
    PROVE  bucket' \in Seq(Params)
<1>1. << >> \in Seq(Params) /\ bucket \in Seq(Params)  BY DEF ListedInv
<1>2. CASE BucketIsFull(p)  BY <1>1, <1>2, PutIntoLists DEF ReduceParam
<1>3. CASE ~BucketIsFull(p)  BY <1>1, <1>3, PutIntoLists DEF ReduceParam
<1> QED  BY <1>2, <1>3

LEMMA InitListed == Init => ListedInv
<1> SUFFICES ASSUME Init PROVE ListedInv  OBVIOUS
<1>1. Typed  BY ConfigsAssumption DEF Init, Typed
<1> QED  BY <1>1 DEF Init, ListedInv

LEMMA ListedSame ==
    ASSUME ListedInv, config' = config, unready' \subseteq Params, bucket' \in Seq(Params)
    PROVE  ListedInv'
BY DEF ListedInv, Typed, ConfigOK, Params

LEMMA NextKeepsListed ==
    ASSUME ListedInv, [Next]_vars
    PROVE  ListedInv'
<1>1. unready \subseteq Params /\ bucket \in Seq(Params) /\ << >> \in Seq(Params)
  BY DEF ListedInv
<1>2. ASSUME NEW given \in SUBSET Params, NEW overflow, Backward(given, overflow)
      PROVE  ListedInv'
  BY <1>1, <1>2, ListedSame DEF Backward
<1>3. ASSUME Raise PROVE ListedInv'  BY <1>1, <1>3, ListedSame DEF Raise
<1>4. ASSUME NEW p \in Params, GradReady(p) PROVE ListedInv'
  <2>1. CASE Hooked /\ ReduceFails(p)  BY <1>3, <1>4, <2>1 DEF GradReady
  <2>2. CASE ~(Hooked /\ ReduceFails(p))
    <3> DEFINE m == [mem EXCEPT !.grad[p] = @ (+) Contribution(ThisStep)]
    <3>1. /\ unready' = unready \ {p} /\ config' = config
          /\ ReduceParam(p, m) \/ bucket' = bucket
      BY <1>4, <2>2 DEF GradReady
    <3> HIDE DEF m
    <3>2. bucket' \in Seq(Params)  BY <1>1, <3>1, ReduceParamLists
    <3> QED  BY <1>1, <3>1, <3>2, ListedSame
  <2> QED  BY <2>1, <2>2
<1>5. ASSUME NEW p \in Params, ReduceNext(p) PROVE ListedInv'
  <2>1. CASE ReduceFails(p)  BY <1>3, <1>5, <2>1 DEF ReduceNext
  <2>2. CASE ~ReduceFails(p)
    <3>1. unready' = unready \ {p} /\ config' = config /\ ReduceParam(p, mem)
      BY <1>5, <2>2 DEF ReduceNext
    <3>2. bucket' \in Seq(Params)  BY <3>1, ReduceParamLists
    <3> QED  BY <1>1, <3>1, <3>2, ListedSame
  <2> QED  BY <2>1, <2>2
<1>6. ASSUME BackwardDone PROVE ListedInv'
  <2>1. config' = config /\ bucket' = bucket /\ unready' \subseteq Params
    BY <1>6 DEF BackwardDone
  <2> QED  BY <1>1, <2>1, ListedSame
<1>7. ASSUME EpilogueFlush PROVE ListedInv'
  <2>1. CASE LaunchFails  BY <1>3, <1>7, <2>1 DEF EpilogueFlush
  <2>2. CASE ~LaunchFails  BY <1>1, <1>7, <2>2, ListedSame DEF EpilogueFlush
  <2> QED  BY <2>1, <2>2
<1>8. CASE AllReduced \/ StreamRuns \/ EpilogueCollect \/ NoStep \/ UNCHANGED vars
  <2>1. config' = config /\ bucket' = bucket /\ unready' = unready
    BY <1>8 DEF AllReduced, StreamRuns, EpilogueCollect, NoStep, vars
  <2> QED  BY <1>1, <2>1, ListedSame
<1>9. ASSUME NEW elsewhere, Step(elsewhere) PROVE ListedInv'
  <2>1. config' = config /\ bucket' = bucket /\ unready' = unready
    BY <1>9 DEF Step, GiveUp
  <2> QED  BY <1>1, <2>1, ListedSame
<1> QED  BY <1>2, <1>4, <1>5, <1>6, <1>7, <1>8, <1>9 DEF Next

(* A parameter makes the partitions large enough. *)
LEMMA PartitionsFit ==
    ASSUME Typed, Sum(config.numel) > 0
    PROVE  Fits(config.numel, PartitionSize(config.numel, config.ranks), config.ranks)
<1>1. Sized(config.numel) /\ config.ranks \in Nat \ {0}
  BY DEF Typed, ConfigOK, Sized
<1> QED  BY <1>1, SizeIs DEF Fits

LEMMA SumIsPositive ==
    ASSUME NEW numel, Sized(numel), numel # << >>
    PROVE  Sum(numel) > 0
<1> DEFINE N == Len(numel)
<1>1. N \in Nat \ {0}  BY DEF Sized
<1>2. /\ Cut(Starts(numel), N) /\ Starts(numel)[1] = 0 /\ Starts(numel)[N + 1] = Sum(numel)
  BY StartsCut
<1> HIDE DEF N
<1>3. 1 \in 1 .. N + 1 /\ N + 1 \in 1 .. N + 1 /\ 1 < N + 1  BY <1>1
<1>4. Starts(numel)[1] < Starts(numel)[N + 1]  BY <1>2, <1>3, CutGrows
<1> QED  BY <1>2, <1>4

LEMMA ListedHasOwners == ListedInv => EveryElementHasItsOwner
<1> SUFFICES ASSUME ListedInv PROVE EveryElementHasItsOwner  OBVIOUS
<1> DEFINE numel == config.numel
           size == PartitionSize(config.numel, config.ranks)
           slices == Slices(config.numel, size, config.ranks, bucket)
           places == GradPosition(config.numel, size, config.rank)
<1>1. /\ Typed /\ Sized(numel) /\ bucket \in Seq(Params) /\ config.rank \in Nat
      /\ config.ranks \in Nat \ {0} /\ Params = DOMAIN numel
  BY DEF ListedInv, Typed, ConfigOK, Sized, Params
<1>2. size \in Nat /\ Sum(numel) \in Nat  BY <1>1, SizeIs
<1> HIDE DEF numel, size, slices, places
<1>3. EachInOneSlice(bucket, size, slices)
  <2>1. CASE bucket = << >>  BY <2>1 DEF EachInOneSlice
  <2>2. CASE bucket # << >>
    <3>1. numel # << >>
      <4>1. bucket[1] \in DOMAIN numel  BY <1>1, <2>2
      <4> QED  BY <4>1
    <3>2. Fits(config.numel, size, config.ranks)
      BY <1>1, <3>1, SumIsPositive, PartitionsFit DEF numel, size
    <3>3. SlicesOK(slices, Elements(bucket), OwnersOf(bucket, size))
      BY <1>1, <2>2, <3>2, SlicesCover DEF slices
    <3> QED  BY <1>1, <3>3, SlicesShare
  <2> QED  BY <2>1, <2>2
<1>4. ASSUME NEW x \in size * config.rank .. size * (config.rank + 1) - 1, x < Sum(numel)
      PROVE  Cardinality(PartsAt(numel, size, config.rank, places, x)) = 1
  <2>1. Sum(numel) > 0
    <3>1. size * config.rank \in Nat  BY <1>1, <1>2
    <3> QED  BY <1>2, <1>4, <3>1
  <2>2. Fits(numel, size, config.ranks)
    BY <1>1, <2>1, PartitionsFit DEF numel, size
  <2> QED  BY <1>1, <1>4, <2>2, OnePart DEF places, numel
<1> QED
  BY <1>3, <1>4 DEF EveryElementHasItsOwner, EachInOneSlice, Covers, PartsAt, numel, size,
                    slices, places

(* Every element of a bucket is in one slice, which goes to its owner, and
   the flat gradient of a rank is made of its partition, each element at
   its place (EveryElementHasItsOwner), whatever the layout. *)
THEOREM EveryElementHasItsOwnerTheorem == Spec => []EveryElementHasItsOwner
<1>1. Init => ListedInv  BY InitListed
<1>2. ListedInv /\ [Next]_vars => ListedInv'  BY NextKeepsListed
<1>3. ListedInv => EveryElementHasItsOwner  BY ListedHasOwners
<1> QED  BY <1>1, <1>2, <1>3, PTL DEF Spec

=============================================================================
