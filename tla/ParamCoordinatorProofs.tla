----------------------- MODULE ParamCoordinatorProofs -----------------------
(***************************************************************************)
(* Proofs about the coordinator that fetches and releases the partitioned  *)
(* parameters, for any modules, parameters, passes and sizes.              *)
(*   ActiveModulesTheorem: a module runs with all its parameters gathered; *)
(*   the invariant IInv is enough.                                         *)
(*   NothingIsRaisedTheorem: the checks of the code never fail.  It needs  *)
(*   what a trace is (IsTrace), where its queue stands (QueueAt), that a   *)
(*   registered parameter is used later in the pass (RegisteredOK), and    *)
(*   that a module whose hook is to come is open (OpenOK): all of RInv.    *)
(* The recursive functions over queues are unfolded by Induction, which is *)
(* WFMin of the library on a set of naturals.                              *)
(***************************************************************************)
EXTENDS ParamCoordinator, FiniteSetTheorems, WellFoundedInduction, TLAPS

Statuses == {"not_available", "inflight", "available"}

LEMMA SetStatusType ==
    ASSUME NEW stat \in [Params -> Statuses], NEW params, NEW new \in Statuses
    PROVE  /\ SetStatus(stat, params, new) \in [Params -> Statuses]
           /\ \A p \in Params : SetStatus(stat, params, new)[p] =
                                    IF p \in params THEN new ELSE stat[p]
BY DEF SetStatus

(* What ActiveModulesTheorem needs: the statement and the types. *)
IInv ==
    /\ status \in [Params -> Statuses]
    /\ active \in [Params -> SUBSET Modules]
    /\ model \in Models /\ todo \in Seq(Hooks)
    /\ ActiveModulesHaveTheirParams

LEMMA HookIsOfAModule ==
    ASSUME IInv, NEW hook, AtHook(hook)
    PROVE  /\ Head(todo).module \in Modules
           /\ ParamsOf(Head(todo).module) \subseteq Params
           /\ Tail(todo) \in Seq(Hooks)
<1>1. Head(todo) \in Hooks /\ Tail(todo) \in Seq(Hooks)  BY DEF IInv, AtHook
<1>2. Head(todo).module \in Modules  BY <1>1 DEF Hooks
<1>3. model.params \in [Modules -> SUBSET Params]
  BY CoordinatorAssumption DEF IInv
<1> QED  BY <1>1, <1>2, <1>3 DEF ParamsOf

LEMMA InitIInv ==
    Init => IInv
<1> SUFFICES ASSUME Init PROVE IInv  OBVIOUS
<1> QED  BY DEF Init, IInv, Statuses, ActiveModulesHaveTheirParams

LEMMA BeginKeepsIInv ==
    ASSUME IInv, NEW kind \in Kinds, BeginPass(kind)
    PROVE  IInv'
<1>1. model.passes[kind] \subseteq Seq(Hooks)
  BY CoordinatorAssumption DEF IInv
<1>2. todo' \in Seq(Hooks)  BY <1>1 DEF BeginPass
<1> QED  BY <1>2 DEF IInv, BeginPass, ActiveModulesHaveTheirParams, Running

(* What a module waits for is available when the hook before it returns,
   or an error was raised; what is prefetched was not available. *)
LEMMA PreKeepsIInv ==
    ASSUME IInv, PreSubModule
    PROVE  IInv'
<1> DEFINE m == Head(todo).module
           params == ParamsOf(m)
           c == RecordModule(TracePrologue(coordinators[pass], m), m)
           needed == NotAvailable(params, status)
           gathering == AllGather(c, needed)
           waited == WaitFor(gathering, params)
           fetched == SetStatus(status, needed \cup Completed(gathering, params),
                                "available")
           tracing == waited.trace_mode = "complete"
           discarded == DiscardFromQueue(waited, params)
           prefetched == IF tracing /\ config.bucket > 0
                         THEN ToPrefetch(discarded, fetched) ELSE {}
<1>1. /\ errors' = {} => \A p \in params : fetched[p] = "available"
      /\ status' = SetStatus(fetched, prefetched, "inflight")
      /\ active' = [p \in Params |-> IF p \in params THEN active[p] \cup {m}
                                     ELSE active[p]]
      /\ todo' = Tail(todo) /\ model' = model
      /\ AtHook("pre") /\ Running
  BY DEF PreSubModule, AtHook
<1>2. m \in Modules /\ params \subseteq Params /\ todo' \in Seq(Hooks)
  BY <1>1, HookIsOfAModule
<1>3. /\ fetched \in [Params -> Statuses]
      /\ \A p \in Params : status[p] = "available" => fetched[p] = "available"
  <2> HIDE DEF gathering, needed, params
  <2> QED  BY SetStatusType DEF IInv, Statuses
<1>4. prefetched \subseteq {p \in Params : fetched[p] = "not_available"} \cup (prefetched \ Params)
  <2> HIDE DEF fetched, discarded, waited
  <2> QED  BY DEF ToPrefetch, NotAvailable
<1> HIDE DEF prefetched, fetched, params, m
<1>5. /\ status' \in [Params -> Statuses]
      /\ \A p \in Params : fetched[p] = "available" => status'[p] = "available"
  BY <1>1, <1>3, <1>4, SetStatusType DEF Statuses
<1>6. active' \in [Params -> SUBSET Modules]  BY <1>1, <1>2 DEF IInv
<1>7. ActiveModulesHaveTheirParams'
  <2> SUFFICES ASSUME errors' = {}, NEW p \in Params, active'[p] # {}
               PROVE  status'[p] = "available"
    BY DEF ActiveModulesHaveTheirParams, Running
  <2>1. CASE p \in params  BY <2>1, <1>1, <1>5
  <2>2. CASE p \notin params
    <3>1. active[p] # {}  BY <2>2, <1>1
    <3>2. status[p] = "available"
      BY <3>1, <1>1 DEF IInv, ActiveModulesHaveTheirParams
    <3> QED  BY <3>2, <1>3, <1>5
  <2> QED  BY <2>1, <2>2
<1> QED  BY <1>1, <1>2, <1>5, <1>6, <1>7 DEF IInv

(* Only what no module uses any more is released. *)
LEMMA PostKeepsIInv ==
    ASSUME IInv, PostSubModule
    PROVE  IInv'
<1> DEFINE m == Head(todo).module
           c == coordinators[pass]
           inactive == [p \in Params |-> active[p] \ (IF p \in ParamsOf(m) THEN {m} ELSE {})]
           released == Releasable(inactive,
                           IF c.trace_mode = "complete" THEN CachedParamsToRelease(c, m)
                           ELSE ParamsOf(m))
<1>1. /\ active' = inactive
      /\ status' = SetStatus(status, released, "not_available")
      /\ todo' = Tail(todo) /\ UNCHANGED <<model, errors>>
      /\ AtHook("post") /\ Running
  BY DEF PostSubModule, AtHook
<1>2. todo' \in Seq(Hooks)  BY <1>1, HookIsOfAModule
<1>3. \A p \in released : inactive[p] = {}  BY DEF Releasable
<1> HIDE DEF released
<1>4. /\ status' \in [Params -> Statuses]
      /\ \A p \in Params : p \notin released => status'[p] = status[p]
  BY <1>1, SetStatusType DEF IInv, Statuses
<1>5. active' \in [Params -> SUBSET Modules]  BY <1>1 DEF IInv
<1>6. ActiveModulesHaveTheirParams'
  <2> SUFFICES ASSUME NEW p \in Params, active'[p] # {}
               PROVE  status'[p] = "available"
    BY DEF ActiveModulesHaveTheirParams
  <2>1. active[p] # {} /\ p \notin released  BY <1>1, <1>3
  <2> QED  BY <2>1, <1>1, <1>4 DEF IInv, ActiveModulesHaveTheirParams
<1> QED  BY <1>1, <1>2, <1>4, <1>5, <1>6 DEF IInv

LEMMA PartitionAllKeepsIInv ==
    ASSUME IInv, NEW kind, NEW gather, PartitionAll(kind, gather)
    PROVE  IInv'
BY DEF IInv, PartitionAll, ActiveModulesHaveTheirParams, Statuses

LEMMA NextKeepsIInv ==
    IInv /\ [Next]_vars => IInv'
<1> SUFFICES ASSUME IInv, [Next]_vars PROVE IInv'  OBVIOUS
<1>1. ASSUME NEW kind \in Kinds, BeginPass(kind) PROVE IInv'
  BY <1>1, BeginKeepsIInv
<1>2. CASE PreSubModule  BY <1>2, PreKeepsIInv
<1>3. CASE PostSubModule  BY <1>3, PostKeepsIInv
<1>4. CASE ResetStep
  <2>1. /\ UNCHANGED <<model, status, active, todo>> /\ Running
    BY <1>4 DEF ResetStep
  <2> QED  BY <2>1 DEF IInv, ActiveModulesHaveTheirParams
<1>5. ASSUME NEW overflow \in BOOLEAN, Step(overflow) PROVE IInv'
  BY <1>5, PartitionAllKeepsIInv DEF Step
<1>6. ASSUME NEW kind \in Kinds, Checkpoint(kind) PROVE IInv'
  BY <1>6, PartitionAllKeepsIInv DEF Checkpoint
<1>7. CASE UNCHANGED vars
  BY <1>7 DEF vars, IInv, ActiveModulesHaveTheirParams, Running
<1> QED  BY <1>1, <1>2, <1>3, <1>4, <1>5, <1>6, <1>7 DEF Next

(* Between the hooks of a module all its parameters are gathered, whatever
   is shared, prefetched or persistent and whichever coordinator acts. *)
THEOREM ActiveModulesTheorem == Spec => []ActiveModulesHaveTheirParams
<1>1. IInv => ActiveModulesHaveTheirParams  BY DEF IInv
<1> QED  BY InitIInv, NextKeepsIInv, <1>1, PTL DEF Spec

-----------------------------------------------------------------------------
(* Induction, sequences and the sequences that the coordinator builds.
   A set of naturals has a least member. *)
LEMMA LeastNat ==
    ASSUME NEW T, T \subseteq Nat, T # {}
    PROVE  \E n \in T : \A m \in T : n <= m
<1>1. IsWellFoundedOn(OpToRel(<,Nat), Nat)  BY NatLessThanWellFounded
<1>2. PICK n \in T : \A m \in T : ~(<<m, n>> \in OpToRel(<, Nat))
  BY <1>1, WFMin
<1>3. \A m \in T : ~(m < n)  BY <1>2 DEF OpToRel
<1> QED  BY <1>3

(* Induction, as a statement about sets: what TLAPS can instantiate. *)
LEMMA Induction ==
    ASSUME NEW T, 0 \in T, \A n \in Nat : n \in T => n + 1 \in T
    PROVE  Nat \subseteq T
<1> SUFFICES ASSUME Nat \ T # {} PROVE FALSE  OBVIOUS
<1>1. PICK n \in Nat \ T : \A m \in Nat \ T : n <= m
  <2> DEFINE S == Nat \ T
  <2>1. S \subseteq Nat /\ S # {}  OBVIOUS
  <2> HIDE DEF S
  <2>2. \E k \in S : \A m \in S : k <= m  BY <2>1, LeastNat
  <2> QED  BY <2>2 DEF S
<1>2. n # 0 /\ n - 1 \in Nat /\ n - 1 \in T  BY <1>1
<1> QED  BY <1>1, <1>2

Flattens(f, s, n) == f = [i \in 1 .. n |-> IF i = 1 THEN s[i] ELSE f[i - 1] \o s[i]]

(* FlattenSeq is a recursive function; here is the sequence of its values. *)
LEMMA FlattensExists ==
    ASSUME NEW s, NEW n \in Nat
    PROVE  \E f : Flattens(f, s, n)
<1> DEFINE T == {k \in Nat : \E f : Flattens(f, s, k)}
<1>1. 0 \in T
  <2> DEFINE f == [i \in 1 .. 0 |-> 0]
  <2>1. f = [i \in 1 .. 0 |-> IF i = 1 THEN s[i] ELSE f[i - 1] \o s[i]]
    OBVIOUS
  <2> QED  BY <2>1 DEF Flattens
<1>2. ASSUME NEW k \in Nat, k \in T PROVE k + 1 \in T
  <2>1. PICK f : f = [i \in 1 .. k |-> IF i = 1 THEN s[i] ELSE f[i - 1] \o s[i]]
    BY <1>2 DEF Flattens
  <2> DEFINE last == IF k = 0 THEN s[1] ELSE f[k] \o s[k + 1]
             g == [i \in 1 .. k + 1 |-> IF i <= k THEN f[i] ELSE last]
  <2>2. ASSUME NEW i \in 1 .. k + 1
        PROVE  g[i] = IF i = 1 THEN s[i] ELSE g[i - 1] \o s[i]
    <3>1. CASE i <= k
      <4>1. i \in 1 .. k /\ (i # 1 => i - 1 \in 1 .. k)  BY <3>1
      <4>2. g[i] = f[i] /\ (i # 1 => g[i - 1] = f[i - 1])  BY <4>1
      <4>3. f[i] = IF i = 1 THEN s[i] ELSE f[i - 1] \o s[i]  BY <2>1, <4>1
      <4> QED  BY <4>2, <4>3
    <3>2. CASE i = k + 1
      <4>1. g[i] = last  BY <3>2
      <4>2. k # 0 => g[k] = f[k]  OBVIOUS
      <4> QED  BY <3>2, <4>1, <4>2
    <3> QED  BY <3>1, <3>2
  <2>3. Flattens(g, s, k + 1)
    <3> HIDE DEF last
    <3> QED  BY <2>2 DEF Flattens
  <2> QED  BY <2>3
<1> HIDE DEF T
<1>3. n \in T  BY <1>1, <1>2, Induction
<1> QED  BY <1>3 DEF T

(* FlattenSeq of a sequence of sequences, one more at a time. *)
LEMMA FlattenSeqIs ==
    ASSUME NEW s, Len(s) \in Nat \ {0}
    PROVE  \E f : /\ Flattens(f, s, Len(s))
                  /\ FlattenSeq(s) = f[Len(s)]
<1> DEFINE flatten[i \in 1 .. Len(s)] == IF i = 1 THEN s[i] ELSE flatten[i - 1] \o s[i]
<1>1. flatten = CHOOSE f : Flattens(f, s, Len(s))  BY DEF Flattens
<1>2. Flattens(flatten, s, Len(s))
  <2> HIDE DEF flatten
  <2> QED  BY <1>1, FlattensExists
<1>3. FlattenSeq(s) = flatten[Len(s)]  BY DEF FlattenSeq
<1> HIDE DEF flatten
<1> QED  BY <1>2, <1>3

(* SetToSeq lists each member of a finite set once. *)
LEMMA SetToSeqIs ==
    ASSUME NEW S, IsFiniteSet(S)
    PROVE  /\ Cardinality(S) \in Nat
           /\ SetToSeq(S) \in [1 .. Cardinality(S) -> S]
           /\ \A i, j \in 1 .. Cardinality(S) : SetToSeq(S)[i] = SetToSeq(S)[j] => i = j
           /\ \A x \in S : \E i \in 1 .. Cardinality(S) : SetToSeq(S)[i] = x
<1> DEFINE c == Cardinality(S)
<1>1. c \in Nat /\ ExistsBijection(1 .. c, S)  BY FS_CardinalityType
<1>2. PICK g : g \in Bijection(1 .. c, S)  BY <1>1 DEF ExistsBijection
<1>3. g \in [1 .. c -> S] /\ IsInjective(g)
  BY <1>2 DEF Bijection, Injection, IsInjective
<1>4. SetToSeq(S) \in [1 .. c -> S] /\ IsInjective(SetToSeq(S))
  BY <1>3 DEF SetToSeq
<1> DEFINE h == SetToSeq(S)
<1> HIDE DEF h
<1>5. h \in Injection(1 .. c, S)  BY <1>4 DEF Injection, IsInjective, h
<1>6. Cardinality(1 .. c) = c  BY <1>1, FS_Interval
<1>7. h \in Surjection(1 .. c, S)  BY <1>5, <1>6, FS_Injection
<1> QED  BY <1>1, <1>4, <1>7 DEF IsInjective, Surjection, h

(* A bounded set of naturals has a greatest member. *)
LEMMA GreatestNat ==
    ASSUME NEW n \in Nat, NEW T, T \subseteq 1 .. n, T # {}
    PROVE  \E x \in T : \A y \in T : y <= x
<1> DEFINE U == {n - x : x \in T}
<1>1. U \subseteq Nat /\ U # {}
  <2>1. \A x \in T : n - x \in Nat  OBVIOUS
  <2>2. PICK x \in T : TRUE  OBVIOUS
  <2>3. n - x \in U  OBVIOUS
  <2> QED  BY <2>1, <2>3
<1> HIDE DEF U
<1>2. PICK u \in U : \A w \in U : u <= w  BY <1>1, LeastNat
<1>3. PICK x \in T : u = n - x  BY <1>2 DEF U
<1>4. \A y \in T : n - y \in U  BY DEF U
<1> QED  BY <1>2, <1>3, <1>4

----------------------------------------------------------------------------
(* The parts of a queue, and what the operators find in them. *)
Uses == [param : Params, last_used : Nat]

(* Cutting a queue in two, at any place. *)
LEMMA PartsOf ==
    ASSUME NEW s \in Seq(Uses), NEW n \in 0 .. Len(s)
    PROVE  /\ First(n, s) \in Seq(Uses) /\ Len(First(n, s)) = n
           /\ \A i \in 1 .. n : First(n, s)[i] = s[i]
           /\ Dropped(n, s) \in Seq(Uses) /\ Len(Dropped(n, s)) = Len(s) - n
           /\ \A i \in 1 .. Len(s) - n : Dropped(n, s)[i] = s[n + i]
<1>1. /\ First(n, s) \in Seq(Uses) /\ Len(First(n, s)) = n
      /\ \A i \in 1 .. n : First(n, s)[i] = s[i]
  BY DEF First
<1>2. /\ Dropped(n, s) \in Seq(Uses) /\ Len(Dropped(n, s)) = Len(s) - n
      /\ \A i \in 1 .. Len(s) - n : Dropped(n, s)[i] = s[n + i]
  BY DEF Dropped
<1> QED  BY <1>1, <1>2

(* PopUntil takes the shortest beginning that holds all that is missing. *)
LEMMA PopUntilStops ==
    ASSUME NEW s \in Seq(Uses), NEW enough, enough \subseteq 0 .. Len(s)
    PROVE  \E n \in 0 .. Len(s) :
               /\ PopUntil(s, enough) = First(n, s)
               /\ n \in enough \/ n = Len(s)
               /\ \A i \in enough : n <= i
<1> DEFINE stops == enough \cup {Len(s)}
           n == CHOOSE n \in stops : \A i \in stops : n <= i
<1>1. stops \subseteq Nat /\ stops # {} /\ stops \subseteq 0 .. Len(s)
  <2>1. Len(s) \in stops /\ Len(s) \in 0 .. Len(s) /\ 0 .. Len(s) \subseteq Nat
    OBVIOUS
  <2> QED  BY <2>1
<1>2. PopUntil(s, enough) = First(n, s)  BY DEF PopUntil
<1>3. n \in stops /\ \A i \in stops : n <= i
  <2> HIDE DEF stops
  <2>1. \E k \in stops : \A i \in stops : k <= i  BY <1>1, LeastNat
  <2> QED  BY <2>1
<1> HIDE DEF n
<1> QED  BY <1>1, <1>2, <1>3

(* LastUse is the last of the uses of a parameter in a queue. *)
LEMMA LastUseIs ==
    ASSUME NEW s \in Seq(Uses), NEW p, NEW default
    PROVE  \/ /\ \A i \in 1 .. Len(s) : s[i].param # p
              /\ LastUse(s, p, default) = default
           \/ \E i \in 1 .. Len(s) :
                 /\ s[i].param = p /\ LastUse(s, p, default) = s[i].last_used
                 /\ \A j \in 1 .. Len(s) : s[j].param = p => j <= i
<1> DEFINE uses == {i \in 1 .. Len(s) : s[i].param = p}
           i == CHOOSE i \in uses : \A j \in uses : j <= i
<1>1. CASE uses = {}  BY <1>1 DEF LastUse
<1>2. CASE uses # {}
  <2>1. LastUse(s, p, default) = s[i].last_used  BY <1>2 DEF LastUse
  <2>2. uses \subseteq 1 .. Len(s) /\ Len(s) \in Nat  OBVIOUS
  <2>3. i \in uses /\ \A j \in uses : j <= i
    <3> HIDE DEF uses
    <3>1. \E k \in uses : \A j \in uses : j <= k  BY <1>2, <2>2, GreatestNat
    <3> QED  BY <3>1
  <2> HIDE DEF i
  <2> QED  BY <2>1, <2>3
<1> QED  BY <1>1, <1>2

----------------------------------------------------------------------------
(* The trace of the parameters: those of the first k modules of order, one
   module after the other, each parameter of a module once. *)
TraceOf(t, order, k) ==
    /\ t \in Seq(Uses)
    /\ \A x \in 1 .. Len(t) :
           t[x].last_used < k /\ t[x].param \in ParamsOf(order[t[x].last_used + 1])
    /\ \A x, y \in 1 .. Len(t) : x < y => t[x].last_used <= t[y].last_used
    /\ \A x, y \in 1 .. Len(t) :
           t[x].param = t[y].param /\ t[x].last_used = t[y].last_used => x = y
    /\ \A i \in 1 .. k : \A p \in ParamsOf(order[i]) :
           \E x \in 1 .. Len(t) : t[x].param = p /\ t[x].last_used = i - 1

IsTrace(t, order) == TraceOf(t, order, Len(order))

(* The parameters of one module. *)
BlockOf(b, params, v) ==
    /\ b \in Seq(Uses)
    /\ \A x \in 1 .. Len(b) : b[x].last_used = v /\ b[x].param \in params
    /\ \A x, y \in 1 .. Len(b) : b[x].param = b[y].param => x = y
    /\ \A p \in params : \E x \in 1 .. Len(b) : b[x].param = p

(* record_parameters appends a block: the parameters of one module. *)
LEMMA ModuleIsABlock ==
    ASSUME NEW params \in SUBSET Params, NEW v \in Nat
    PROVE  BlockOf([j \in 1 .. Cardinality(params) |->
                       [param |-> SetToSeq(params)[j], last_used |-> v]], params, v)
<1> DEFINE c == Cardinality(params)
           b == [j \in 1 .. c |-> [param |-> SetToSeq(params)[j], last_used |-> v]]
<1>1. IsFiniteSet(params)  BY CoordinatorAssumption, FS_Subset
<1>2. /\ c \in Nat /\ SetToSeq(params) \in [1 .. c -> params]
      /\ \A i, j \in 1 .. c : SetToSeq(params)[i] = SetToSeq(params)[j] => i = j
      /\ \A x \in params : \E i \in 1 .. c : SetToSeq(params)[i] = x
  BY <1>1, SetToSeqIs
<1> HIDE DEF c
<1>3. b \in [1 .. c -> Uses]  BY <1>2 DEF Uses
<1>4. b \in Seq(Uses) /\ Len(b) = c  BY <1>2, <1>3
<1>5. \A x \in 1 .. c : b[x].param = SetToSeq(params)[x] /\ b[x].last_used = v
  OBVIOUS
<1> HIDE DEF b
<1>6. BlockOf(b, params, v)  BY <1>2, <1>4, <1>5 DEF BlockOf
<1> QED  BY <1>6 DEF b, c

(* A trace and the block of the next module make a trace. *)
LEMMA TraceGrows ==
    ASSUME NEW t, NEW order, NEW k \in Nat, TraceOf(t, order, k),
           NEW b, BlockOf(b, ParamsOf(order[k + 1]), k)
    PROVE  TraceOf(t \o b, order, k + 1)
<1> DEFINE u == t \o b
<1>1. t \in Seq(Uses) /\ b \in Seq(Uses) /\ Len(t) \in Nat /\ Len(b) \in Nat
  BY DEF TraceOf, BlockOf
<1>2. /\ u \in Seq(Uses) /\ Len(u) = Len(t) + Len(b)
      /\ \A x \in 1 .. Len(t) : u[x] = t[x]
      /\ \A x \in 1 .. Len(b) : u[Len(t) + x] = b[x]
  BY <1>1
<1> HIDE DEF u
<1>3. ASSUME NEW x \in 1 .. Len(u)
      PROVE  \/ x \in 1 .. Len(t) /\ u[x] = t[x]
             \/ x - Len(t) \in 1 .. Len(b) /\ u[x] = b[x - Len(t)] /\ x > Len(t)
  <2>1. CASE x <= Len(t)  BY <1>1, <1>2, <2>1
  <2>2. CASE x > Len(t)
    <3>1. x - Len(t) \in 1 .. Len(b) /\ Len(t) + (x - Len(t)) = x
      BY <1>1, <1>2, <2>2
    <3> QED  BY <1>2, <2>2, <3>1
  <2> QED  BY <1>1, <1>2, <2>1, <2>2
<1>4. \A x \in 1 .. Len(t) : t[x].last_used \in Nat /\ t[x].last_used < k
  <2>1. \A x \in 1 .. Len(t) : t[x] \in Uses  BY <1>1
  <2>2. \A x \in 1 .. Len(t) : t[x].last_used < k  BY DEF TraceOf
  <2> QED  BY <2>1, <2>2 DEF Uses
<1>5. \A x \in 1 .. Len(b) : b[x].last_used = k /\ b[x].param \in ParamsOf(order[k + 1])
  BY DEF BlockOf
<1>6. \A x \in 1 .. Len(u) :
          u[x].last_used < k + 1 /\ u[x].param \in ParamsOf(order[u[x].last_used + 1])
  <2> SUFFICES ASSUME NEW x \in 1 .. Len(u)
               PROVE  /\ u[x].last_used < k + 1
                      /\ u[x].param \in ParamsOf(order[u[x].last_used + 1])
    OBVIOUS
  <2>1. CASE x \in 1 .. Len(t) /\ u[x] = t[x]
    <3>1. u[x].param \in ParamsOf(order[u[x].last_used + 1])
      BY <2>1 DEF TraceOf
    <3>2. u[x].last_used < k + 1  BY <1>4, <2>1
    <3> QED  BY <3>1, <3>2
  <2>2. CASE x - Len(t) \in 1 .. Len(b) /\ u[x] = b[x - Len(t)]
    <3>1. u[x].last_used = k /\ u[x].param \in ParamsOf(order[k + 1])
      BY <1>5, <2>2
    <3> QED  BY <3>1
  <2> QED  BY <1>3, <2>1, <2>2
<1>7. \A x, y \in 1 .. Len(u) : x < y => u[x].last_used <= u[y].last_used
  <2> SUFFICES ASSUME NEW x \in 1 .. Len(u), NEW y \in 1 .. Len(u), x < y
               PROVE  u[x].last_used <= u[y].last_used
    OBVIOUS
  <2>1. CASE y \in 1 .. Len(t) /\ u[y] = t[y]
    <3>1. x \in 1 .. Len(t) /\ u[x] = t[x]  BY <1>2, <2>1
    <3> QED  BY <2>1, <3>1 DEF TraceOf
  <2>2. CASE y - Len(t) \in 1 .. Len(b) /\ u[y] = b[y - Len(t)]
    <3>1. u[y].last_used = k  BY <1>5, <2>2
    <3>2. u[x].last_used \in Nat /\ u[x].last_used < k + 1
      <4>1. u[x] \in Uses  BY <1>2
      <4> QED  BY <1>6, <4>1 DEF Uses
    <3> QED  BY <3>1, <3>2
  <2> QED  BY <1>3, <2>1, <2>2
<1>8. \A x, y \in 1 .. Len(u) :
          u[x].param = u[y].param /\ u[x].last_used = u[y].last_used => x = y
  <2> SUFFICES ASSUME NEW x \in 1 .. Len(u), NEW y \in 1 .. Len(u),
                      u[x].param = u[y].param, u[x].last_used = u[y].last_used
               PROVE  x = y
    OBVIOUS
  <2>1. CASE x \in 1 .. Len(t) /\ u[x] = t[x]
    <3>1. u[y].last_used \in Nat /\ u[y].last_used < k  BY <1>4, <2>1
    <3>2. y \in 1 .. Len(t) /\ u[y] = t[y]
      <4>1. CASE y - Len(t) \in 1 .. Len(b) /\ u[y] = b[y - Len(t)]
        <5>1. u[y].last_used = k  BY <1>5, <4>1
        <5> QED  BY <3>1, <5>1
      <4> QED  BY <1>3, <4>1
    <3> QED  BY <2>1, <3>2 DEF TraceOf
  <2>2. CASE x - Len(t) \in 1 .. Len(b) /\ u[x] = b[x - Len(t)]
    <3>1. u[y].last_used = k  BY <1>5, <2>2
    <3>2. y - Len(t) \in 1 .. Len(b) /\ u[y] = b[y - Len(t)]
      <4>1. CASE y \in 1 .. Len(t) /\ u[y] = t[y]
        <5>1. u[y].last_used \in Nat /\ u[y].last_used < k  BY <1>4, <4>1
        <5> QED  BY ONLY <3>1, <5>1, k \in Nat
      <4> QED  BY <1>3, <4>1
    <3>3. x - Len(t) = y - Len(t)  BY <2>2, <3>2 DEF BlockOf
    <3>4. x \in Int /\ y \in Int /\ Len(t) \in Int  BY <1>1
    <3> QED  BY ONLY <3>3, <3>4
  <2> QED  BY <1>3, <2>1, <2>2
<1>9. ASSUME NEW i \in 1 .. k + 1, NEW p \in ParamsOf(order[i])
      PROVE  \E x \in 1 .. Len(u) : u[x].param = p /\ u[x].last_used = i - 1
  <2>1. CASE i \in 1 .. k
    <3>1. PICK x \in 1 .. Len(t) : t[x].param = p /\ t[x].last_used = i - 1
      BY <2>1 DEF TraceOf
    <3>2. x \in 1 .. Len(u) /\ u[x] = t[x]  BY <1>1, <1>2
    <3> QED  BY <3>1, <3>2
  <2>2. CASE i = k + 1
    <3>1. PICK x \in 1 .. Len(b) : b[x].param = p  BY <2>2 DEF BlockOf
    <3>2. Len(t) + x \in 1 .. Len(u) /\ u[Len(t) + x] = b[x]  BY <1>1, <1>2
    <3>3. b[x].last_used = i - 1  BY <1>5, <2>2
    <3> QED  BY <3>1, <3>2, <3>3
  <2> QED  BY <2>1, <2>2
<1> QED  BY <1>2, <1>6, <1>7, <1>8, <1>9 DEF TraceOf, u

(* The trace that reset_step builds is the one of the recorded modules. *)
LEMMA ParamTraceIsTrace ==
    ASSUME model \in Models, NEW order \in Seq(Modules)
    PROVE  IsTrace(ParamTrace(order), order)
<1> DEFINE Block(i) == [j \in 1 .. Cardinality(ParamsOf(order[i])) |->
                           [param |-> SetToSeq(ParamsOf(order[i]))[j], last_used |-> i - 1]]
           n == Len(order)
           s == [i \in 1 .. n |-> Block(i)]
<1>1. n \in Nat /\ Len(s) = n  OBVIOUS
<1>2. ASSUME NEW i \in 1 .. n
      PROVE  ParamsOf(order[i]) \in SUBSET Params
             /\ BlockOf(s[i], ParamsOf(order[i]), i - 1)
  <2>1. order[i] \in Modules  OBVIOUS
  <2>2. model.params \in [Modules -> SUBSET Params]  BY CoordinatorAssumption
  <2>3. ParamsOf(order[i]) \in SUBSET Params  BY <2>1, <2>2 DEF ParamsOf
  <2>4. i - 1 \in Nat  BY <1>1
  <2>5. BlockOf(Block(i), ParamsOf(order[i]), i - 1)
    BY <2>3, <2>4, ModuleIsABlock
  <2> QED  BY <2>3, <2>5
<1>3. ParamTrace(order) = FlattenSeq(s)  BY DEF ParamTrace
<1> HIDE DEF s
<1>4. TraceOf(<< >>, order, 0)  BY DEF TraceOf
<1>5. CASE n = 0
  <2>1. FlattenSeq(s) = s /\ s = << >>  BY <1>1, <1>5 DEF FlattenSeq, s
  <2> QED  BY <1>3, <1>4, <1>5, <2>1 DEF IsTrace
<1>6. CASE n # 0
  <2>1. PICK f : Flattens(f, s, n) /\ FlattenSeq(s) = f[n]
    BY <1>1, <1>6, FlattenSeqIs
  <2>2. \A i \in 1 .. n : f[i] = IF i = 1 THEN s[i] ELSE f[i - 1] \o s[i]
    BY <2>1 DEF Flattens
  <2> DEFINE T == {k \in Nat : k \in 1 .. n => TraceOf(f[k], order, k)}
  <2>3. 0 \in T  OBVIOUS
  <2>4. ASSUME NEW k \in Nat, k \in T PROVE k + 1 \in T
    <3> SUFFICES ASSUME k + 1 \in 1 .. n PROVE TraceOf(f[k + 1], order, k + 1)
      OBVIOUS
    <3>1. BlockOf(s[k + 1], ParamsOf(order[k + 1]), k)  BY <1>2
    <3>2. CASE k = 0
      <4>1. f[k + 1] = s[k + 1]  BY <2>2, <3>2
      <4>2. TraceOf(<< >> \o s[k + 1], order, k + 1)
        BY <1>4, <3>1, <3>2, TraceGrows
      <4>3. << >> \o s[k + 1] = s[k + 1]  BY <3>1 DEF BlockOf
      <4> QED  BY <4>1, <4>2, <4>3
    <3>3. CASE k # 0
      <4>1. k \in 1 .. n  BY <1>1, <3>3
      <4>2. TraceOf(f[k], order, k)  BY <2>4, <4>1
      <4>3. f[k + 1] = f[k] \o s[k + 1]
        <5>1. k + 1 \in 1 .. n /\ k + 1 # 1 /\ (k + 1) - 1 = k  BY <3>3
        <5> QED  BY <2>2, <5>1
      <4> QED  BY <3>1, <4>2, <4>3, TraceGrows
    <3> QED  BY <3>2, <3>3
  <2> HIDE DEF T
  <2>5. n \in T  BY <1>1, <2>3, <2>4, Induction
  <2> QED  BY <1>1, <1>3, <1>6, <2>1, <2>5 DEF T, IsTrace
<1> QED  BY <1>5, <1>6

----------------------------------------------------------------------------
(* Coordinators.  What n_available counts is of no importance here. *)
Modes == {"record", "complete", "invalid"}
InFlight == [param : Params, completes : SUBSET Params]
Remembers == [module : Modules, step_id : Nat, params : SUBSET Params]

Coordinator(n) ==
    [trace_mode : Modes, step_id : Nat, submodule_order : Seq(Modules),
     param_order : Seq(Uses), param_queue : Seq(Uses), most_recent : [Params -> Int],
     n_available : {n}, registry : SUBSET InFlight, cached : SUBSET Remembers]
IsCoordinator(c) == c \in Coordinator(c.n_available)

(* The fields of a coordinator have their types. *)
LEMMA FieldTypes ==
    ASSUME NEW c, IsCoordinator(c)
    PROVE  /\ c.trace_mode \in Modes /\ c.step_id \in Nat /\ c.submodule_order \in Seq(Modules)
           /\ c.param_order \in Seq(Uses) /\ c.param_queue \in Seq(Uses)
           /\ c.most_recent \in [Params -> Int]
           /\ c.registry \subseteq InFlight /\ c.cached \subseteq Remembers
BY DEF IsCoordinator, Coordinator

(* One field is changed at a time: the provers do not see through an
   EXCEPT of several. *)
LEMMA SetTraceMode ==
    ASSUME NEW c, IsCoordinator(c), NEW v \in Modes
    PROVE  IsCoordinator([c EXCEPT !.trace_mode = v])
BY DEF IsCoordinator, Coordinator
LEMMA SetStepId ==
    ASSUME NEW c, IsCoordinator(c), NEW v \in Nat
    PROVE  IsCoordinator([c EXCEPT !.step_id = v])
BY DEF IsCoordinator, Coordinator
LEMMA SetModuleOrder ==
    ASSUME NEW c, IsCoordinator(c), NEW v \in Seq(Modules)
    PROVE  IsCoordinator([c EXCEPT !.submodule_order = v])
BY DEF IsCoordinator, Coordinator
LEMMA SetParamOrder ==
    ASSUME NEW c, IsCoordinator(c), NEW v \in Seq(Uses)
    PROVE  IsCoordinator([c EXCEPT !.param_order = v])
BY DEF IsCoordinator, Coordinator
LEMMA SetParamQueue ==
    ASSUME NEW c, IsCoordinator(c), NEW v \in Seq(Uses)
    PROVE  IsCoordinator([c EXCEPT !.param_queue = v])
BY DEF IsCoordinator, Coordinator
LEMMA SetMostRecent ==
    ASSUME NEW c, IsCoordinator(c), NEW v \in [Params -> Int]
    PROVE  IsCoordinator([c EXCEPT !.most_recent = v])
BY DEF IsCoordinator, Coordinator
LEMMA SetAvailable ==
    ASSUME NEW c, IsCoordinator(c), NEW v
    PROVE  IsCoordinator([c EXCEPT !.n_available = v])
BY DEF IsCoordinator, Coordinator
LEMMA SetRegistry ==
    ASSUME NEW c, IsCoordinator(c), NEW v \in SUBSET InFlight
    PROVE  IsCoordinator([c EXCEPT !.registry = v])
BY DEF IsCoordinator, Coordinator
LEMMA SetCached ==
    ASSUME NEW c, IsCoordinator(c), NEW v \in SUBSET Remembers
    PROVE  IsCoordinator([c EXCEPT !.cached = v])
BY DEF IsCoordinator, Coordinator

(* invalidate_trace and what it leaves alone. *)
LEMMA InvalidateFields ==
    ASSUME NEW c, IsCoordinator(c)
    PROVE  /\ IsCoordinator(InvalidateTrace(c))
           /\ InvalidateTrace(c).trace_mode = "invalid"
           /\ InvalidateTrace(c).step_id = c.step_id
           /\ InvalidateTrace(c).submodule_order = << >>
           /\ InvalidateTrace(c).registry = c.registry
           /\ InvalidateTrace(c).cached = c.cached
<1> DEFINE m == [p \in Params |-> Never]
           c1 == [c EXCEPT !.trace_mode = "invalid"]
           c2 == [c1 EXCEPT !.submodule_order = << >>]
           c3 == [c2 EXCEPT !.param_order = << >>]
           c4 == [c3 EXCEPT !.param_queue = << >>]
           c5 == [c4 EXCEPT !.most_recent = m]
<1>1. InvalidateTrace(c) = c5  BY DEF InvalidateTrace
<1>2. /\ c5.trace_mode = "invalid" /\ c5.submodule_order = << >>
      /\ c5.step_id = c.step_id /\ c5.registry = c.registry /\ c5.cached = c.cached
  BY DEF IsCoordinator, Coordinator
<1>3. m \in [Params -> Int] /\ "invalid" \in Modes  BY DEF Never, Modes
<1>4. << >> \in Seq(Modules) /\ << >> \in Seq(Uses)  OBVIOUS
<1> HIDE DEF m, c1, c2, c3, c4, c5
<1>5. IsCoordinator(c1)  BY <1>3, SetTraceMode DEF c1
<1>6. IsCoordinator(c2)  BY <1>4, <1>5, SetModuleOrder DEF c2
<1>7. IsCoordinator(c3)  BY <1>4, <1>6, SetParamOrder DEF c3
<1>8. IsCoordinator(c4)  BY <1>4, <1>7, SetParamQueue DEF c4
<1>9. IsCoordinator(c5)  BY <1>3, <1>8, SetMostRecent DEF c5
<1> QED  BY <1>1, <1>2, <1>9

(* record_module and what it leaves alone. *)
LEMMA RecordFields ==
    ASSUME NEW c, IsCoordinator(c), NEW m \in Modules
    PROVE  LET d == RecordModule(c, m)
           IN  /\ IsCoordinator(d)
               /\ d.trace_mode = c.trace_mode /\ d.step_id = c.step_id
               /\ d.submodule_order = IF c.trace_mode = "record" THEN Append(c.submodule_order, m)
                                      ELSE c.submodule_order
               /\ d.param_order = c.param_order /\ d.param_queue = c.param_queue
               /\ d.most_recent = c.most_recent
               /\ d.registry = c.registry /\ d.cached = c.cached
<1> DEFINE o == Append(c.submodule_order, m)
<1>1. o \in Seq(Modules)  BY FieldTypes
<1> HIDE DEF o
<1>2. IsCoordinator([c EXCEPT !.submodule_order = o])  BY <1>1, SetModuleOrder
<1>3. RecordModule(c, m) = IF c.trace_mode = "record" THEN [c EXCEPT !.submodule_order = o] ELSE c
  BY DEF RecordModule, o
<1>4. CASE c.trace_mode = "record"
  <2>1. RecordModule(c, m) = [c EXCEPT !.submodule_order = o]  BY <1>3, <1>4
  <2> QED  BY <1>2, <1>4, <2>1 DEF IsCoordinator, Coordinator, o
<1>5. CASE c.trace_mode # "record"  BY <1>3, <1>5
<1> QED  BY <1>4, <1>5

(* What is gathered is registered. *)
LEMMA AllGatherFields ==
    ASSUME NEW c, IsCoordinator(c), NEW params \in SUBSET Params
    PROVE  LET d == AllGather(c, params)
           IN  /\ IsCoordinator(d)
               /\ d.trace_mode = c.trace_mode /\ d.step_id = c.step_id
               /\ d.submodule_order = c.submodule_order
               /\ d.param_order = c.param_order /\ d.param_queue = c.param_queue
               /\ d.most_recent = c.most_recent
               /\ d.registry = c.registry \cup {[param |-> p, completes |-> params] : p \in params}
               /\ d.cached = c.cached
<1> DEFINE n == c.n_available + Numel(params)
           new == c.registry \cup {[param |-> p, completes |-> params] : p \in params}
           c1 == [c EXCEPT !.n_available = n]
           c2 == [c1 EXCEPT !.registry = new]
<1>1. AllGather(c, params) = c2
  <2> HIDE DEF n
  <2>1. AllGather(c, params) = [c EXCEPT !.n_available = n, !.registry = new]
    BY DEF AllGather, n
  <2> QED  BY <2>1
<1>2. new \in SUBSET InFlight  BY FieldTypes DEF InFlight
<1> HIDE DEF n, new
<1>3. IsCoordinator(c1)  BY SetAvailable
<1>4. /\ c2.trace_mode = c.trace_mode /\ c2.step_id = c.step_id
      /\ c2.submodule_order = c.submodule_order
      /\ c2.param_order = c.param_order /\ c2.param_queue = c.param_queue
      /\ c2.most_recent = c.most_recent /\ c2.registry = new /\ c2.cached = c.cached
  BY DEF IsCoordinator, Coordinator
<1> HIDE DEF c1
<1>5. IsCoordinator(c2)  BY <1>2, <1>3, SetRegistry
<1> HIDE DEF c2
<1> QED  BY <1>1, <1>4, <1>5 DEF new

(* What was waited for is no longer registered. *)
LEMMA WaitForFields ==
    ASSUME NEW c, IsCoordinator(c), NEW params \in SUBSET Params
    PROVE  LET d == WaitFor(c, params)
           IN  /\ IsCoordinator(d)
               /\ d.trace_mode = c.trace_mode /\ d.step_id = c.step_id
               /\ d.submodule_order = c.submodule_order
               /\ d.param_order = c.param_order /\ d.param_queue = c.param_queue
               /\ d.most_recent = c.most_recent
               /\ d.registry = {[r EXCEPT !.completes = @ \ Completed(c, params)] :
                                    r \in {s \in c.registry : s.param \notin params}}
               /\ d.cached = c.cached
<1> DEFINE new == {[r EXCEPT !.completes = @ \ Completed(c, params)] :
                       r \in {s \in c.registry : s.param \notin params}}
           c1 == [c EXCEPT !.registry = new]
<1>1. WaitFor(c, params) = c1  BY DEF WaitFor
<1>2. new \in SUBSET InFlight
  <2>1. \A r \in c.registry : r \in InFlight  BY FieldTypes
  <2>2. \A r \in InFlight : [r EXCEPT !.completes = @ \ Completed(c, params)] \in InFlight
    BY DEF InFlight
  <2> QED  BY <2>1, <2>2
<1> HIDE DEF new
<1>3. /\ c1.trace_mode = c.trace_mode /\ c1.step_id = c.step_id
      /\ c1.submodule_order = c.submodule_order
      /\ c1.param_order = c.param_order /\ c1.param_queue = c.param_queue
      /\ c1.most_recent = c.most_recent /\ c1.registry = new /\ c1.cached = c.cached
  BY DEF IsCoordinator, Coordinator
<1>4. IsCoordinator(c1)  BY <1>2, SetRegistry
<1> HIDE DEF c1
<1> QED  BY <1>1, <1>3, <1>4 DEF new

(* The queue and the marks of a coordinator change together. *)
Marking(c, queue, recent) == [c EXCEPT !.param_queue = queue, !.most_recent = recent]

(* A marking changes nothing else. *)
LEMMA MarkFields ==
    ASSUME NEW c, IsCoordinator(c), NEW queue \in Seq(Uses), NEW recent \in [Params -> Int]
    PROVE  LET d == Marking(c, queue, recent)
           IN  /\ IsCoordinator(d)
               /\ d.trace_mode = c.trace_mode /\ d.step_id = c.step_id
               /\ d.submodule_order = c.submodule_order
               /\ d.param_order = c.param_order /\ d.param_queue = queue
               /\ d.most_recent = recent
               /\ d.registry = c.registry /\ d.cached = c.cached
<1> DEFINE c1 == [c EXCEPT !.param_queue = queue]
           c2 == [c1 EXCEPT !.most_recent = recent]
<1>1. Marking(c, queue, recent) = c2  BY DEF Marking
<1>2. /\ c2.trace_mode = c.trace_mode /\ c2.step_id = c.step_id
      /\ c2.submodule_order = c.submodule_order
      /\ c2.param_order = c.param_order /\ c2.param_queue = queue
      /\ c2.most_recent = recent /\ c2.registry = c.registry /\ c2.cached = c.cached
  BY DEF IsCoordinator, Coordinator
<1>3. IsCoordinator(c1)  BY SetParamQueue
<1> HIDE DEF c1
<1>4. IsCoordinator(c2)  BY <1>3, SetMostRecent
<1> HIDE DEF c2
<1> QED  BY <1>1, <1>2, <1>4

(* The queue holds what the trace t has after its first q uses, none of
   which is of a step before the current one; the marks are the last of
   the first q uses of each parameter. *)
QueueAt(t, queue, q, recent, step) ==
    /\ q \in 0 .. Len(t) /\ Len(queue) = Len(t) - q
    /\ \A x \in 1 .. Len(queue) : queue[x] = t[q + x]
    /\ \A x \in q + 1 .. Len(t) : t[x].last_used >= step
    /\ \A p \in Params : \A x \in 1 .. q : t[x].param = p => recent[p] >= t[x].last_used
    /\ \A p \in Params :
           recent[p] # Never =>
               \E x \in 1 .. q : t[x].param = p /\ recent[p] = t[x].last_used

(* At the start of a pass the queue is the whole trace. *)
LEMMA QueueOfATrace ==
    ASSUME NEW t \in Seq(Uses)
    PROVE  QueueAt(t, t, 0, [p \in Params |-> Never], 0)
<1>1. \A x \in 1 .. Len(t) : t[x].last_used >= 0
  <2>1. \A x \in 1 .. Len(t) : t[x] \in Uses  OBVIOUS
  <2> QED  BY <2>1 DEF Uses
<1> QED  BY <1>1 DEF QueueAt

(* After n uses were taken, a parameter is marked with the last of them. *)
Marked(queue, n, recent, marks) ==
    \A p \in Params :
        \/ /\ \A x \in 1 .. n : queue[x].param # p
           /\ marks[p] = recent[p]
        \/ \E x \in 1 .. n :
              /\ queue[x].param = p /\ marks[p] = queue[x].last_used
              /\ \A y \in 1 .. n : queue[y].param = p => y <= x

(* Taking n uses from the queue. *)
LEMMA QueueGoesOn ==
    ASSUME NEW t \in Seq(Uses), NEW queue \in Seq(Uses), NEW q, NEW step \in Nat,
           NEW recent \in [Params -> Int], QueueAt(t, queue, q, recent, step),
           \A x, y \in 1 .. Len(t) : x < y => t[x].last_used <= t[y].last_used,
           NEW n \in 0 .. Len(queue), NEW later \in Nat,
           \A x \in q + n + 1 .. Len(t) : t[x].last_used >= later,
           NEW marks \in [Params -> Int], Marked(queue, n, recent, marks)
    PROVE  QueueAt(t, Dropped(n, queue), q + n, marks, later)
<1>1. /\ q \in 0 .. Len(t) /\ Len(queue) = Len(t) - q
      /\ \A x \in 1 .. Len(queue) : queue[x] = t[q + x]
      /\ Len(t) \in Nat
  BY DEF QueueAt
<1>2. /\ Len(Dropped(n, queue)) = Len(queue) - n
      /\ \A x \in 1 .. Len(queue) - n : Dropped(n, queue)[x] = queue[n + x]
  BY PartsOf
<1>3. /\ q + n \in 0 .. Len(t) /\ Len(Dropped(n, queue)) = Len(t) - (q + n)
      /\ \A x \in 1 .. Len(Dropped(n, queue)) : Dropped(n, queue)[x] = t[q + n + x]
  <2>1. \A x \in 1 .. Len(queue) - n : n + x \in 1 .. Len(queue) /\ q + (n + x) = q + n + x
    BY <1>1
  <2> QED  BY <1>1, <1>2, <2>1
<1>4. \A x \in 1 .. Len(t) : t[x].last_used \in Nat
  <2>1. \A x \in 1 .. Len(t) : t[x] \in Uses  OBVIOUS
  <2> QED  BY <2>1 DEF Uses
<1>5. ASSUME NEW p \in Params, NEW x \in 1 .. q + n, t[x].param = p
      PROVE  marks[p] >= t[x].last_used
  <2>1. CASE x <= q
    <3>1. recent[p] >= t[x].last_used /\ recent[p] \in Int
      BY <1>1, <1>5, <2>1 DEF QueueAt
    <3>2. CASE marks[p] = recent[p]  BY <3>1, <3>2
    <3>3. ASSUME NEW y \in 1 .. n, queue[y].param = p, marks[p] = queue[y].last_used
          PROVE  marks[p] >= t[x].last_used
      <4>1. queue[y] = t[q + y] /\ q + y \in 1 .. Len(t) /\ x < q + y /\ x \in 1 .. Len(t)
        BY <1>1, <2>1
      <4>2. t[x].last_used <= t[q + y].last_used  BY <4>1
      <4> QED  BY <1>4, <3>3, <4>1, <4>2
    <3> QED  BY <3>2, <3>3 DEF Marked
  <2>2. CASE x > q
    <3>1. /\ x - q \in 1 .. n /\ q + (x - q) = x /\ x - q \in 1 .. Len(queue)
          /\ x \in 1 .. Len(t)
      BY <1>1, <2>2
    <3>2. queue[x - q] = t[x]  BY <1>1, <3>1
    <3>3. PICK y \in 1 .. n : /\ queue[y].param = p /\ marks[p] = queue[y].last_used
                              /\ \A z \in 1 .. n : queue[z].param = p => z <= y
      BY <1>5, <3>1, <3>2 DEF Marked
    <3>4. x - q <= y  BY <1>5, <3>1, <3>2, <3>3
    <3>5. queue[y] = t[q + y] /\ q + y \in 1 .. Len(t) /\ x <= q + y
      BY <1>1, <3>1, <3>4
    <3>6. t[x].last_used <= t[q + y].last_used  BY <1>4, <3>1, <3>5
    <3> QED  BY <1>4, <3>1, <3>3, <3>5, <3>6
  <2> QED  BY <1>1, <2>1, <2>2
<1>6. ASSUME NEW p \in Params, marks[p] # Never
      PROVE  \E x \in 1 .. q + n : t[x].param = p /\ marks[p] = t[x].last_used
  <2>1. CASE marks[p] = recent[p]
    <3>1. PICK x \in 1 .. q : t[x].param = p /\ recent[p] = t[x].last_used
      BY <1>6, <2>1 DEF QueueAt
    <3>2. x \in 1 .. q + n  BY <1>1
    <3> QED  BY <2>1, <3>1, <3>2
  <2>2. ASSUME NEW y \in 1 .. n, queue[y].param = p, marks[p] = queue[y].last_used
        PROVE  \E x \in 1 .. q + n : t[x].param = p /\ marks[p] = t[x].last_used
    <3>1. y \in 1 .. Len(queue) /\ q + y \in 1 .. q + n  BY <1>1
    <3>2. queue[y] = t[q + y]  BY <1>1, <3>1
    <3> QED  BY <2>2, <3>1, <3>2
  <2> QED  BY <2>1, <2>2 DEF Marked
<1> QED  BY <1>3, <1>5, <1>6 DEF QueueAt

MarksAfter(gone, recent) == [p \in Params |-> LastUse(gone, p, recent[p])]
MarksAhead(seen, recent) ==
    [p \in Params |-> Later(recent[p], LastUse(seen, p, Never))]

(* The marks after what was popped, where each of its parameters counts. *)
LEMMA MarksOf ==
    ASSUME NEW queue \in Seq(Uses), NEW n \in 0 .. Len(queue), NEW recent \in [Params -> Int],
           NEW marks, marks = MarksAfter(First(n, queue), recent)
    PROVE  marks \in [Params -> Int] /\ Marked(queue, n, recent, marks)
<1> DEFINE s == First(n, queue)
<1>1. s \in Seq(Uses) /\ Len(s) = n /\ \A i \in 1 .. n : s[i] = queue[i]
  BY PartsOf
<1> HIDE DEF s
<1>2. ASSUME NEW p \in Params
      PROVE  /\ marks[p] \in Int
             /\ \/ /\ \A x \in 1 .. n : queue[x].param # p
                   /\ marks[p] = recent[p]
                \/ \E x \in 1 .. n :
                      /\ queue[x].param = p /\ marks[p] = queue[x].last_used
                      /\ \A y \in 1 .. n : queue[y].param = p => y <= x
  <2>1. marks[p] = LastUse(s, p, recent[p])  BY DEF s, MarksAfter
  <2>2. \/ /\ \A i \in 1 .. Len(s) : s[i].param # p
           /\ LastUse(s, p, recent[p]) = recent[p]
        \/ \E i \in 1 .. Len(s) :
              /\ s[i].param = p /\ LastUse(s, p, recent[p]) = s[i].last_used
              /\ \A j \in 1 .. Len(s) : s[j].param = p => j <= i
    <3>1. s \in Seq(Uses)  BY <1>1
    <3>2. \A d :
              \/ /\ \A i \in 1 .. Len(s) : s[i].param # p
                 /\ LastUse(s, p, d) = d
              \/ \E i \in 1 .. Len(s) :
                    /\ s[i].param = p /\ LastUse(s, p, d) = s[i].last_used
                    /\ \A j \in 1 .. Len(s) : s[j].param = p => j <= i
      BY ONLY <3>1, LastUseIs
    <3> QED  BY <3>2
  <2>3. \A i \in 1 .. n : queue[i].last_used \in Int
    <3>1. \A i \in 1 .. n : s[i] \in Uses  BY <1>1
    <3> QED  BY <1>1, <3>1 DEF Uses
  <2>4. CASE (\A i \in 1 .. Len(s) : s[i].param # p) /\ LastUse(s, p, recent[p]) = recent[p]
    <3>1. \A x \in 1 .. n : queue[x].param # p  BY <1>1, <2>4
    <3>2. marks[p] = recent[p] /\ recent[p] \in Int  BY <2>1, <2>4
    <3> QED  BY <3>1, <3>2
  <2>5. ASSUME NEW i \in 1 .. n, s[i].param = p, LastUse(s, p, recent[p]) = s[i].last_used,
               \A j \in 1 .. Len(s) : s[j].param = p => j <= i
        PROVE  /\ marks[p] \in Int
               /\ \E x \in 1 .. n :
                      /\ queue[x].param = p /\ marks[p] = queue[x].last_used
                      /\ \A y \in 1 .. n : queue[y].param = p => y <= x
    BY <1>1, <2>1, <2>3, <2>5
  <2> QED  BY <1>1, <2>2, <2>4, <2>5
<1>3. marks \in [Params -> Int]  BY <1>2 DEF MarksAfter
<1> QED  BY <1>2, <1>3 DEF Marked

(* The parameters among the first uses of a queue. *)
LEMMA ParamsInFirst ==
    ASSUME NEW queue \in Seq(Uses), NEW n \in 0 .. Len(queue)
    PROVE  ParamsIn(First(n, queue)) = {queue[x].param : x \in 1 .. n}
<1>1. Len(First(n, queue)) = n /\ \A i \in 1 .. n : First(n, queue)[i] = queue[i]
  BY PartsOf
<1> QED  BY <1>1 DEF ParamsIn

(* Where the uses of the current step end in the queue. *)
LEMMA StepEnds ==
    ASSUME NEW queue \in Seq(Uses), NEW step \in Nat,
           \A x, y \in 1 .. Len(queue) : x < y => queue[x].last_used <= queue[y].last_used,
           \A x \in 1 .. Len(queue) : queue[x].last_used >= step
    PROVE  \E e \in 0 .. Len(queue) :
               /\ \A x \in 1 .. e : queue[x].last_used = step
               /\ \A x \in e + 1 .. Len(queue) : queue[x].last_used >= step + 1
<1> DEFINE Ends == {n \in 0 .. Len(queue) : n = Len(queue) \/ queue[n + 1].last_used # step}
<1>1. Len(queue) \in Nat /\ \A x \in 1 .. Len(queue) : queue[x].last_used \in Nat
  <2>1. \A x \in 1 .. Len(queue) : queue[x] \in Uses  OBVIOUS
  <2> QED  BY <2>1 DEF Uses
<1>2. Ends \subseteq Nat /\ Ends # {}
  <2>1. Len(queue) \in Ends /\ 0 .. Len(queue) \subseteq Nat  BY <1>1
  <2> QED  BY <2>1
<1>3. PICK e \in Ends : \A n \in Ends : e <= n
  <2> HIDE DEF Ends
  <2>1. \E k \in Ends : \A n \in Ends : k <= n  BY <1>2, LeastNat
  <2> QED  BY <2>1
<1>4. \A x \in 1 .. e : queue[x].last_used = step
  <2> SUFFICES ASSUME NEW x \in 1 .. e PROVE queue[x].last_used = step  OBVIOUS
  <2>1. x - 1 \in 0 .. Len(queue) /\ x - 1 < e /\ x - 1 # Len(queue) /\ (x - 1) + 1 = x
    BY <1>1
  <2>2. x - 1 \notin Ends
    <3>1. e \in Nat  BY <1>1
    <3> HIDE DEF Ends
    <3>2. x - 1 \in Ends => e <= x - 1  BY <1>3
    <3> QED  BY <2>1, <3>1, <3>2
  <2> QED  BY <2>1, <2>2
<1>5. ASSUME NEW x \in e + 1 .. Len(queue) PROVE queue[x].last_used >= step + 1
  <2>1. e + 1 \in 1 .. Len(queue) /\ x \in 1 .. Len(queue) /\ queue[e + 1].last_used # step
    BY <1>1, <1>3
  <2>2. queue[e + 1].last_used >= step + 1  BY <1>1, <2>1
  <2>3. x = e + 1 \/ queue[e + 1].last_used <= queue[x].last_used
    BY <1>1, <2>1
  <2> QED  BY <1>1, <2>1, <2>2, <2>3
<1> QED  BY <1>1, <1>3, <1>4, <1>5

Missing(params, recent, step) == {p \in params : recent[p] < step}
Popped(queue, needs) ==
    PopUntil(queue, {n \in 0 .. Len(queue) :
        Cardinality(ParamsIn(First(n, queue))) >= Cardinality(needs)})

(* What is popped from the queue when a module begins is what it uses and
   was not fetched ahead. *)
LEMMA DiscardFollows ==
    ASSUME NEW order, NEW t, IsTrace(t, order),
           NEW step \in Nat, step + 1 \in 1 .. Len(order),
           NEW queue \in Seq(Uses), NEW q, NEW recent \in [Params -> Int],
           QueueAt(t, queue, q, recent, step),
           NEW params \in SUBSET Params, params = ParamsOf(order[step + 1]),
           NEW needs, needs = Missing(params, recent, step),
           NEW gone, gone = Popped(queue, needs),
           NEW marks, marks = MarksAfter(gone, recent)
    PROVE  /\ ParamsIn(gone) = needs
           /\ marks \in [Params -> Int]
           /\ Len(gone) \in 0 .. Len(queue)
           /\ QueueAt(t, Dropped(Len(gone), queue), q + Len(gone), marks, step + 1)
           /\ \A p \in Params \ params : recent[p] >= step => marks[p] >= step + 1
<1>0. needs = {p \in params : recent[p] < step}  BY DEF Missing
<1>1. /\ q \in 0 .. Len(t) /\ Len(queue) = Len(t) - q
      /\ \A x \in 1 .. Len(queue) : queue[x] = t[q + x]
      /\ \A x \in q + 1 .. Len(t) : t[x].last_used >= step
      /\ t \in Seq(Uses) /\ Len(t) \in Nat
      /\ \A x, y \in 1 .. Len(t) : x < y => t[x].last_used <= t[y].last_used
  BY DEF QueueAt, IsTrace, TraceOf
<1>2. \A x \in 1 .. Len(t) : t[x].last_used \in Nat /\ t[x].param \in Params
  <2>1. \A x \in 1 .. Len(t) : t[x] \in Uses  BY <1>1
  <2> QED  BY <2>1 DEF Uses
<1>3. \A x \in 1 .. Len(queue) : q + x \in 1 .. Len(t) /\ q + x \in q + 1 .. Len(t)
  BY <1>1
<1>4. PICK e \in 0 .. Len(queue) :
          /\ \A x \in 1 .. e : queue[x].last_used = step
          /\ \A x \in e + 1 .. Len(queue) : queue[x].last_used >= step + 1
  <2>1. \A x, y \in 1 .. Len(queue) : x < y => queue[x].last_used <= queue[y].last_used
    <3> SUFFICES ASSUME NEW x \in 1 .. Len(queue), NEW y \in 1 .. Len(queue), x < y
                 PROVE  queue[x].last_used <= queue[y].last_used
      OBVIOUS
    <3>1. q + x < q + y  BY <1>1
    <3> QED  BY <1>1, <1>3, <3>1
  <2>2. \A x \in 1 .. Len(queue) : queue[x].last_used >= step  BY <1>1, <1>3
  <2> QED  BY <2>1, <2>2, StepEnds
<1>5. \A p \in Params : recent[p] \in Int  BY <1>1
<1>6. ASSUME NEW x \in 1 .. e
      PROVE  queue[x].param \in needs
  <2> DEFINE p == queue[x].param
  <2>1. x \in 1 .. Len(queue) /\ queue[x] = t[q + x] /\ t[q + x].last_used = step
    BY <1>1, <1>4
  <2>2. p \in params
    <3>1. t[q + x].param \in ParamsOf(order[t[q + x].last_used + 1])
      BY <1>3, <2>1 DEF IsTrace, TraceOf
    <3> QED  BY <2>1, <3>1
  <2>3. ASSUME recent[p] >= step PROVE FALSE
    <3>1. recent[p] # Never  BY <1>1, <1>5, <2>2, <2>3 DEF Never
    <3>2. PICK y \in 1 .. q : t[y].param = p /\ recent[p] = t[y].last_used
      BY <2>2, <3>1 DEF QueueAt
    <3>3. y \in 1 .. Len(t) /\ y < q + x /\ q + x \in 1 .. Len(t)
      BY <1>1, <1>3, <2>1
    <3>4. t[y].last_used = step
      <4>1. t[y].last_used <= t[q + x].last_used  BY <1>1, <3>3
      <4> QED  BY <1>2, <2>1, <2>3, <3>2, <3>3, <4>1
    <3>5. y = q + x  BY <2>1, <3>2, <3>3, <3>4 DEF IsTrace, TraceOf
    <3> QED  BY <1>1, <3>3, <3>5
  <2> HIDE DEF p
  <2>4. recent[p] < step  BY <1>1, <1>5, <2>2, <2>3
  <2> QED  BY <1>0, <2>2, <2>4 DEF p
<1>7. ASSUME NEW p \in needs
      PROVE  \E x \in 1 .. e : queue[x].param = p
  <2>1. p \in params /\ recent[p] < step /\ recent[p] \in Int  BY <1>5, <1>0
  <2>2. PICK y \in 1 .. Len(t) : t[y].param = p /\ t[y].last_used = step
    <3>1. \A i \in 1 .. Len(order) : \A r \in ParamsOf(order[i]) :
              \E x \in 1 .. Len(t) : t[x].param = r /\ t[x].last_used = i - 1
      BY DEF IsTrace, TraceOf
    <3>2. p \in ParamsOf(order[step + 1])  BY <2>1
    <3>3. \E x \in 1 .. Len(t) : t[x].param = p /\ t[x].last_used = (step + 1) - 1
      BY <3>1, <3>2
    <3>4. (step + 1) - 1 = step  BY <1>1
    <3> QED  BY <3>3, <3>4
  <2>3. ~(y \in 1 .. q)
    <3>1. y \in 1 .. q => recent[p] >= step  BY <2>1, <2>2 DEF QueueAt
    <3> QED  BY <1>1, <2>1, <3>1
  <2>4. y - q \in 1 .. Len(queue) /\ q + (y - q) = y  BY <1>1, <2>3
  <2>5. queue[y - q] = t[y]  BY <1>1, <2>4
  <2>6. ~(y - q \in e + 1 .. Len(queue))
    <3>1. y - q \in e + 1 .. Len(queue) => t[y].last_used >= step + 1
      BY <1>4, <2>5
    <3> QED  BY <1>1, <2>2, <3>1
  <2>7. y - q \in 1 .. e  BY <1>1, <2>4, <2>6
  <2> QED  BY <2>2, <2>5, <2>7
<1>8. needs = {queue[x].param : x \in 1 .. e}  BY <1>6, <1>7
<1>9. ASSUME NEW x \in 1 .. e, NEW y \in 1 .. e, queue[x].param = queue[y].param
      PROVE  x = y
  <2>1. /\ x \in 1 .. Len(queue) /\ y \in 1 .. Len(queue)
        /\ queue[x].last_used = queue[y].last_used
    BY <1>1, <1>4
  <2>2. /\ q + x \in 1 .. Len(t) /\ q + y \in 1 .. Len(t)
        /\ t[q + x].param = t[q + y].param /\ t[q + x].last_used = t[q + y].last_used
    <3>1. queue[x] = t[q + x] /\ queue[y] = t[q + y]  BY <1>1, <2>1
    <3> QED  BY <1>3, <1>9, <2>1, <3>1
  <2>3. q + x = q + y
    <3>1. \A i, j \in 1 .. Len(t) :
              t[i].param = t[j].param /\ t[i].last_used = t[j].last_used => i = j
      BY DEF IsTrace, TraceOf
    <3> QED  BY <2>2, <3>1
  <2> QED  BY <1>1, <2>3
<1> DEFINE enough == {n \in 0 .. Len(queue) :
                          Cardinality(ParamsIn(First(n, queue))) >= Cardinality(needs)}
<1>10. IsFiniteSet(needs) /\ Cardinality(needs) \in Nat
  <2>1. needs \subseteq Params  BY <1>0
  <2> QED  BY <2>1, CoordinatorAssumption, FS_Subset, FS_CardinalityType
<1>11. e \in enough
  <2>1. ParamsIn(First(e, queue)) = needs  BY <1>8, ParamsInFirst
  <2>2. Cardinality(ParamsIn(First(e, queue))) >= Cardinality(needs)
    BY <1>10, <2>1
  <2> QED  BY <2>2
<1>12. ASSUME NEW n \in 0 .. Len(queue), n < e PROVE n \notin enough
  <2> DEFINE some == {queue[x].param : x \in 1 .. n}
  <2>1. ParamsIn(First(n, queue)) = some  BY ParamsInFirst
  <2>2. some \subseteq needs
    <3>1. 1 .. n \subseteq 1 .. e  BY <1>12
    <3> QED  BY <1>8, <3>1
  <2>3. n + 1 \in 1 .. e  BY <1>12
  <2>4. queue[n + 1].param \in needs /\ queue[n + 1].param \notin some
    <3>1. queue[n + 1].param \in needs  BY <1>6, <2>3
    <3>2. \A x \in 1 .. n : queue[x].param # queue[n + 1].param
      <4> SUFFICES ASSUME NEW x \in 1 .. n, queue[x].param = queue[n + 1].param PROVE FALSE
        OBVIOUS
      <4>1. x \in 1 .. e  BY <1>12
      <4> QED  BY <1>9, <2>3, <4>1
    <3> QED  BY <3>1, <3>2
  <2> HIDE DEF some
  <2>5. Cardinality(some) \in Nat /\ Cardinality(some) < Cardinality(needs)
    <3>1. IsFiniteSet(some) /\ Cardinality(some) <= Cardinality(needs)
          /\ (Cardinality(needs) = Cardinality(some) => needs = some)
      BY <1>10, <2>2, FS_Subset
    <3>2. Cardinality(some) \in Nat  BY <3>1, FS_CardinalityType
    <3> QED  BY <1>10, <2>4, <3>1, <3>2
  <2> QED  BY <1>10, <2>1, <2>5
<1>13. gone = First(e, queue)
  <2>1. gone = PopUntil(queue, enough) /\ enough \subseteq 0 .. Len(queue)
    BY DEF Popped
  <2> HIDE DEF enough
  <2>2. PICK n \in 0 .. Len(queue) :
            /\ PopUntil(queue, enough) = First(n, queue)
            /\ n \in enough \/ n = Len(queue)
            /\ \A i \in enough : n <= i
    BY <2>1, PopUntilStops
  <2>3. n <= e  BY <1>11, <2>2
  <2>4. ~(n < e)  BY <1>1, <1>12, <2>2
  <2>5. n = e  BY <1>1, <2>3, <2>4
  <2> QED  BY <2>1, <2>2, <2>5
<1>14. Len(gone) = e /\ ParamsIn(gone) = needs
  <2>1. Len(First(e, queue)) = e  BY PartsOf
  <2> QED  BY <1>8, <1>13, <2>1, ParamsInFirst
<1>15. marks \in [Params -> Int] /\ Marked(queue, e, recent, marks)
  <2>1. marks = MarksAfter(First(e, queue), recent)  BY <1>13
  <2> QED  BY <1>1, <2>1, MarksOf
<1>16. \A x \in q + e + 1 .. Len(t) : t[x].last_used >= step + 1
  <2> SUFFICES ASSUME NEW x \in q + e + 1 .. Len(t) PROVE t[x].last_used >= step + 1
    OBVIOUS
  <2>1. x - q \in e + 1 .. Len(queue) /\ x - q \in 1 .. Len(queue) /\ q + (x - q) = x
    BY <1>1
  <2>2. queue[x - q] = t[x]  BY <1>1, <2>1
  <2> QED  BY <1>4, <2>1, <2>2
<1>17. QueueAt(t, Dropped(e, queue), q + e, marks, step + 1)
  <2>1. /\ step + 1 \in Nat /\ e \in 0 .. Len(queue) /\ t \in Seq(Uses)
        /\ queue \in Seq(Uses) /\ step \in Nat /\ recent \in [Params -> Int]
        /\ QueueAt(t, queue, q, recent, step)
        /\ \A x, y \in 1 .. Len(t) : x < y => t[x].last_used <= t[y].last_used
    BY <1>1
  <2> QED  BY ONLY <1>15, <1>16, <2>1, QueueGoesOn
<1>18. ASSUME NEW p \in Params \ params, recent[p] >= step
       PROVE  marks[p] >= step + 1
  <2>1. \A x \in 1 .. e : queue[x].param # p  BY <1>6, <1>0
  <2>2. marks[p] = recent[p]  BY <1>15, <2>1 DEF Marked
  <2>3. recent[p] # Never  BY <1>1, <1>5, <1>18 DEF Never
  <2>4. PICK y \in 1 .. q : t[y].param = p /\ recent[p] = t[y].last_used
    BY <2>3 DEF QueueAt
  <2>5. y \in 1 .. Len(t)  BY <1>1
  <2>6. t[y].param \in ParamsOf(order[t[y].last_used + 1])
    BY <2>5 DEF IsTrace, TraceOf
  <2>7. t[y].last_used # step  BY <2>4, <2>6
  <2> QED  BY <1>1, <1>2, <1>18, <2>2, <2>4, <2>5, <2>7
<1> QED  BY <1>14, <1>15, <1>17, <1>18

(* What is prefetched leaves the queue too. *)
LEMMA PrefetchFollows ==
    ASSUME NEW t \in Seq(Uses), NEW queue \in Seq(Uses), NEW q, NEW step \in Nat,
           NEW recent \in [Params -> Int], QueueAt(t, queue, q, recent, step),
           \A x, y \in 1 .. Len(t) : x < y => t[x].last_used <= t[y].last_used,
           NEW n \in 0 .. Len(queue),
           NEW marks, marks = MarksAhead(First(n, queue), recent)
    PROVE  /\ marks \in [Params -> Int]
           /\ QueueAt(t, Dropped(n, queue), q + n, marks, step)
           /\ \A p \in Params : marks[p] >= recent[p]
           /\ \A x \in 1 .. n : marks[queue[x].param] >= step
<1> DEFINE never == [p \in Params |-> Never]
           last == MarksAfter(First(n, queue), never)
<1>1. never \in [Params -> Int]  BY DEF Never
<1>2. last \in [Params -> Int] /\ Marked(queue, n, never, last)
  <2> HIDE DEF never
  <2> QED  BY <1>1, MarksOf
<1>3. \A p \in Params : marks[p] = Later(recent[p], last[p])
  BY DEF MarksAfter, MarksAhead
<1>4. \A p \in Params :
          \/ /\ \A x \in 1 .. n : queue[x].param # p
             /\ last[p] = Never
          \/ \E x \in 1 .. n :
                /\ queue[x].param = p /\ last[p] = queue[x].last_used
                /\ \A y \in 1 .. n : queue[y].param = p => y <= x
  <2>1. \A p \in Params : never[p] = Never  OBVIOUS
  <2> HIDE DEF never, last
  <2> QED  BY <1>2, <2>1 DEF Marked
<1> HIDE DEF never, last
<1>5. /\ q \in 0 .. Len(t) /\ Len(queue) = Len(t) - q /\ Len(t) \in Nat
      /\ \A x \in 1 .. Len(queue) : queue[x] = t[q + x]
      /\ \A x \in q + 1 .. Len(t) : t[x].last_used >= step
  BY DEF QueueAt
<1>6. \A x \in 1 .. Len(t) : t[x].last_used \in Nat
  <2>1. \A x \in 1 .. Len(t) : t[x] \in Uses  OBVIOUS
  <2> QED  BY <2>1 DEF Uses
<1>7. \A p \in Params : recent[p] \in Int /\ last[p] \in Int  BY <1>2
<1>8. ASSUME NEW p \in Params
      PROVE  \/ recent[p] = Never
             \/ \E y \in 1 .. q : t[y].param = p /\ recent[p] = t[y].last_used
  BY DEF QueueAt
<1>9. ASSUME NEW p \in Params
      PROVE  /\ \/ /\ \A x \in 1 .. n : queue[x].param # p
                   /\ marks[p] = recent[p]
                \/ \E x \in 1 .. n :
                      /\ queue[x].param = p /\ marks[p] = queue[x].last_used
                      /\ \A y \in 1 .. n : queue[y].param = p => y <= x
             /\ marks[p] \in Int /\ marks[p] >= recent[p]
  <2>1. CASE /\ \A x \in 1 .. n : queue[x].param # p
             /\ last[p] = Never
    <3>1. recent[p] >= Never
      <4>1. ASSUME NEW y \in 1 .. q, recent[p] = t[y].last_used PROVE recent[p] >= Never
        <5>1. y \in 1 .. Len(t)  BY <1>5
        <5> QED  BY <1>6, <4>1, <5>1 DEF Never
      <4> QED  BY <1>7, <1>8, <4>1 DEF Never
    <3>2. marks[p] = recent[p]  BY <1>3, <1>7, <2>1, <3>1 DEF Later, Never
    <3> QED  BY <1>7, <2>1, <3>2
  <2>2. ASSUME NEW x \in 1 .. n, queue[x].param = p, last[p] = queue[x].last_used,
               \A y \in 1 .. n : queue[y].param = p => y <= x
        PROVE  marks[p] = queue[x].last_used /\ marks[p] \in Int /\ marks[p] >= recent[p]
    <3>1. x \in 1 .. Len(queue) /\ q + x \in 1 .. Len(t)  BY <1>5
    <3>2. queue[x] = t[q + x] /\ t[q + x].last_used \in Nat
      BY <1>5, <1>6, <3>1
    <3>3. recent[p] <= last[p]
      <4>1. ASSUME NEW y \in 1 .. q, recent[p] = t[y].last_used PROVE recent[p] <= last[p]
        <5>1. y \in 1 .. Len(t) /\ y < q + x  BY <1>5
        <5>2. t[y].last_used <= t[q + x].last_used  BY <3>1, <5>1
        <5> QED  BY <2>2, <3>2, <4>1, <5>2
      <4> QED  BY <1>7, <1>8, <2>2, <3>2, <4>1 DEF Never
    <3> QED  BY <1>3, <1>7, <2>2, <3>3 DEF Later
  <2> QED  BY <1>4, <2>1, <2>2
<1>10. marks \in [Params -> Int]  BY <1>9 DEF MarksAhead
<1>11. Marked(queue, n, recent, marks)  BY <1>9 DEF Marked
<1>12. QueueAt(t, Dropped(n, queue), q + n, marks, step)
  <2>1. \A x \in q + n + 1 .. Len(t) : t[x].last_used >= step  BY <1>5
  <2> QED  BY <1>10, <1>11, <2>1, QueueGoesOn
<1>13. ASSUME NEW x \in 1 .. n PROVE marks[queue[x].param] >= step
  <2>1. x \in 1 .. Len(queue) /\ q + x \in q + 1 .. Len(t) /\ q + x \in 1 .. Len(t)
    BY <1>5
  <2>2. queue[x] \in Uses  BY <2>1
  <2> DEFINE p == queue[x].param
  <2>3. p \in Params  BY <2>2 DEF Uses
  <2>4. marks[p] \in Int /\ \E z \in 1 .. n : marks[p] = queue[z].last_used
    <3>1. ~ \A z \in 1 .. n : queue[z].param # p  OBVIOUS
    <3> HIDE DEF p
    <3> QED  BY <1>9, <2>3, <3>1
  <2>5. PICK z \in 1 .. n : marks[p] = queue[z].last_used  BY <2>4
  <2>6. z \in 1 .. Len(queue) /\ q + z \in q + 1 .. Len(t)  BY <1>5
  <2>7. queue[z].last_used >= step  BY <1>5, <2>6
  <2> QED  BY <2>5, <2>7
<1> QED  BY <1>9, <1>10, <1>12, <1>13

(* fetch_sub_module pops what the module uses, and marks it. *)
LEMMA DiscardFields ==
    ASSUME NEW c, IsCoordinator(c), NEW order, order = c.submodule_order,
           IsTrace(c.param_order, order), NEW q,
           QueueAt(c.param_order, c.param_queue, q, c.most_recent, c.step_id),
           c.step_id < Len(order),
           NEW params \in SUBSET Params, params = ParamsOf(order[c.step_id + 1])
    PROVE  LET d == DiscardFromQueue(c, params)
           IN  /\ ParamsIn(Discarded(c, params)) = NotAlreadyFetched(c, params)
               /\ IsCoordinator(d)
               /\ d.trace_mode = c.trace_mode /\ d.step_id = c.step_id
               /\ d.submodule_order = c.submodule_order /\ d.param_order = c.param_order
               /\ d.registry = c.registry /\ d.cached = c.cached
               /\ \E r : QueueAt(c.param_order, d.param_queue, r, d.most_recent, c.step_id + 1)
               /\ \A p \in Params \ params :
                      c.most_recent[p] >= c.step_id => d.most_recent[p] >= c.step_id + 1
<1> DEFINE t == c.param_order
           queue == c.param_queue
           recent == c.most_recent
           step == c.step_id
           needs == NotAlreadyFetched(c, params)
           gone == Discarded(c, params)
           marks == MarksAfter(gone, recent)
           rest == Dropped(Len(gone), queue)
           d == Marking(c, rest, marks)
<1>1. /\ step \in Nat /\ queue \in Seq(Uses) /\ recent \in [Params -> Int]
      /\ order \in Seq(Modules)
  BY FieldTypes
<1>2. DiscardFromQueue(c, params) = d
  BY DEF DiscardFromQueue, Marking, MarksAfter
<1>4. step + 1 \in 1 .. Len(order) /\ Len(order) \in Nat  BY <1>1
<1> HIDE DEF t, queue, recent, step, needs, gone, marks
<1>6. /\ ParamsIn(gone) = needs
      /\ marks \in [Params -> Int]
      /\ Len(gone) \in 0 .. Len(queue)
      /\ QueueAt(t, rest, q + Len(gone), marks, step + 1)
      /\ \A p \in Params \ params : recent[p] >= step => marks[p] >= step + 1
  <2>1. IsTrace(t, order) /\ QueueAt(t, queue, q, recent, step)
    BY DEF t, queue, recent, step
  <2>2. params = ParamsOf(order[step + 1])  BY DEF step
  <2>3. /\ t = c.param_order /\ queue = c.param_queue /\ recent = c.most_recent
        /\ step = c.step_id /\ needs = Missing(params, recent, step)
        /\ gone = Popped(queue, needs) /\ marks = MarksAfter(gone, recent)
        /\ rest = Dropped(Len(gone), queue)
    BY DEF t, queue, recent, step, needs, gone, marks, rest, NotAlreadyFetched, Discarded,
           Missing, Popped
  <2> HIDE DEF rest
  <2>4. params \in SUBSET Params /\ IsCoordinator(c)  OBVIOUS
  <2>5. /\ ParamsIn(gone) = needs
        /\ marks \in [Params -> Int]
        /\ Len(gone) \in 0 .. Len(queue)
        /\ QueueAt(t, Dropped(Len(gone), queue), q + Len(gone), marks, step + 1)
        /\ \A p \in Params \ params : recent[p] >= step => marks[p] >= step + 1
    BY ONLY <1>1, <1>4, <2>1, <2>2, <2>3, <2>4, DiscardFollows
  <2> QED  BY <2>3, <2>5
<1>7. rest \in Seq(Uses)  BY <1>1, <1>6, PartsOf
<1> HIDE DEF rest
<1>8. /\ IsCoordinator(d)
      /\ d.trace_mode = c.trace_mode /\ d.step_id = c.step_id
      /\ d.submodule_order = c.submodule_order
      /\ d.param_order = c.param_order /\ d.param_queue = rest
      /\ d.most_recent = marks
      /\ d.registry = c.registry /\ d.cached = c.cached
  BY <1>6, <1>7, MarkFields
<1> HIDE DEF d
<1> QED  BY <1>2, <1>6, <1>8 DEF d, t, queue, recent, step, needs, gone

(* What prefetching does to coordinator c, at the given step. *)
PrefetchDoes(c, step, stat, d, ahead) ==
    /\ IsCoordinator(d)
    /\ d.trace_mode = c.trace_mode /\ d.step_id = c.step_id
    /\ d.submodule_order = c.submodule_order /\ d.param_order = c.param_order
    /\ d.registry = c.registry \cup {[param |-> p, completes |-> ahead] : p \in ahead}
    /\ d.cached = c.cached
    /\ \E r : QueueAt(c.param_order, d.param_queue, r, d.most_recent, step)
    /\ \A p \in Params : d.most_recent[p] >= c.most_recent[p]
    /\ ahead \subseteq Params
    /\ \A p \in ahead : stat[p] = "not_available" /\ d.most_recent[p] >= step

(* What prefetching changes, and where it stops. *)
LEMMA PrefetchFields ==
    ASSUME NEW c, IsCoordinator(c), IsTrace(c.param_order, c.submodule_order), NEW q,
           NEW step \in Nat,
           QueueAt(c.param_order, c.param_queue, q, c.most_recent, step),
           config.bucket # 0, NEW stat
    PROVE  PrefetchDoes(c, step, stat, Prefetch(c, stat), ToPrefetch(c, stat))
<1> DEFINE t == c.param_order
           queue == c.param_queue
           recent == c.most_recent
           enough == {n \in 0 .. Len(c.param_queue) :
                         Numel(NotAvailable(ParamsIn(First(n, c.param_queue)), stat))
                             >= MaxParamsToPrefetch(c)}
           seen == Considered(c, stat)
           ahead == ToPrefetch(c, stat)
           marks == MarksAhead(seen, recent)
           rest == Dropped(Len(seen), queue)
           marked == Marking(c, rest, marks)
<1>1. /\ queue \in Seq(Uses) /\ recent \in [Params -> Int] /\ t \in Seq(Uses)
  BY FieldTypes
<1>2. Prefetch(c, stat) = AllGather(marked, ahead)
  BY DEF Prefetch, Marking, MarksAhead
<1>3. PICK n \in 0 .. Len(queue) : seen = First(n, queue)
  <2>1. seen = PopUntil(queue, enough) /\ enough \subseteq 0 .. Len(queue)
    BY DEF Considered
  <2> HIDE DEF enough, seen, queue
  <2> QED  BY <1>1, <2>1, PopUntilStops
<1>4. Len(seen) = n /\ ParamsIn(seen) = {queue[x].param : x \in 1 .. n}
  <2> HIDE DEF seen, queue
  <2> QED  BY <1>1, <1>3, PartsOf, ParamsInFirst
<1>5. ahead = NotAvailable(ParamsIn(seen), stat)  BY DEF ToPrefetch
<1>6. marks = MarksAhead(First(n, queue), recent)  BY <1>3
<1>7. rest = Dropped(n, queue)  BY <1>4
<1>8. QueueAt(t, queue, q, recent, step)  OBVIOUS
<1>9. \A x, y \in 1 .. Len(t) : x < y => t[x].last_used <= t[y].last_used
  BY DEF IsTrace, TraceOf
<1> HIDE DEF t, queue, recent, seen, ahead, marks, rest
<1>10. /\ marks \in [Params -> Int]
       /\ QueueAt(t, rest, q + n, marks, step)
       /\ \A p \in Params : marks[p] >= recent[p]
       /\ \A x \in 1 .. n : marks[queue[x].param] >= step
  <2>1. step \in Nat /\ n \in 0 .. Len(queue)  OBVIOUS
  <2>2. /\ marks \in [Params -> Int]
        /\ QueueAt(t, Dropped(n, queue), q + n, marks, step)
        /\ \A p \in Params : marks[p] >= recent[p]
        /\ \A x \in 1 .. n : marks[queue[x].param] >= step
    BY ONLY <1>1, <1>6, <1>8, <1>9, <2>1, PrefetchFollows
  <2> QED  BY <1>7, <2>2
<1>11. rest \in Seq(Uses)  BY <1>1, <1>7, PartsOf
<1>12. /\ ahead \subseteq Params
       /\ \A p \in ahead : stat[p] = "not_available" /\ marks[p] >= step
  <2>1. \A x \in 1 .. n : queue[x].param \in Params
    <3>1. \A x \in 1 .. n : queue[x] \in Uses  BY <1>1
    <3> QED  BY <3>1 DEF Uses
  <2> QED  BY <1>4, <1>5, <1>10, <2>1 DEF NotAvailable
<1>13. /\ IsCoordinator(marked)
       /\ marked.trace_mode = c.trace_mode /\ marked.step_id = c.step_id
       /\ marked.submodule_order = c.submodule_order
       /\ marked.param_order = c.param_order /\ marked.param_queue = rest
       /\ marked.most_recent = marks
       /\ marked.registry = c.registry /\ marked.cached = c.cached
  BY <1>10, <1>11, MarkFields
<1> HIDE DEF marked
<1> DEFINE d == AllGather(marked, ahead)
<1>14. /\ IsCoordinator(d)
       /\ d.trace_mode = marked.trace_mode /\ d.step_id = marked.step_id
       /\ d.submodule_order = marked.submodule_order
       /\ d.param_order = marked.param_order /\ d.param_queue = marked.param_queue
       /\ d.most_recent = marked.most_recent
       /\ d.registry = marked.registry \cup {[param |-> p, completes |-> ahead] : p \in ahead}
       /\ d.cached = marked.cached
  BY <1>12, <1>13, AllGatherFields
<1> HIDE DEF d
<1> QED
  BY <1>2, <1>10, <1>12, <1>13, <1>14 DEF d, t, recent, ahead, PrefetchDoes

----------------------------------------------------------------------------
(* The modules that start in a pass. *)
LEMMA StartsFinite ==
    ASSUME NEW p, NEW n \in Nat
    PROVE  IsFiniteSet(Starts(p, n)) /\ Cardinality(Starts(p, n)) \in Nat
<1>1. IsFiniteSet(1 .. n) /\ Starts(p, n) \subseteq 1 .. n
  BY FS_Interval DEF Starts
<1> QED  BY <1>1, FS_Subset, FS_CardinalityType

(* One hook more: one start more, or none. *)
LEMMA StartsGrow ==
    ASSUME NEW p, NEW n \in Nat, NEW l \in 0 .. n
    PROVE  Cardinality(Starts(p, l)) <= Cardinality(Starts(p, n))
<1>1. Starts(p, l) \subseteq Starts(p, n)  BY DEF Starts
<1> QED  BY <1>1, StartsFinite, FS_Subset

(* The next start follows those that were. *)
LEMMA NextStart ==
    ASSUME NEW p, NEW n \in Nat
    PROVE  /\ p[n + 1].hook = "pre" =>
                  /\ n + 1 \in Starts(p, n + 1)
                  /\ Starts(p, n + 1) = Starts(p, n) \cup {n + 1}
                  /\ Cardinality(Starts(p, n + 1)) = Cardinality(Starts(p, n)) + 1
           /\ p[n + 1].hook # "pre" => Starts(p, n + 1) = Starts(p, n)
<1>1. CASE p[n + 1].hook = "pre"
  <2>1. Starts(p, n + 1) = Starts(p, n) \cup {n + 1} /\ n + 1 \notin Starts(p, n)
    BY <1>1 DEF Starts
  <2>2. Cardinality(Starts(p, n) \cup {n + 1}) = Cardinality(Starts(p, n)) + 1
    BY <2>1, StartsFinite, FS_AddElement
  <2> QED  BY <2>1, <2>2, <1>1
<1>2. CASE p[n + 1].hook # "pre"  BY <1>2 DEF Starts
<1> QED  BY <1>1, <1>2

(* What comes after the first n hooks. *)
LEMMA StartAfter ==
    ASSUME NEW p, NEW n \in Nat, NEW l \in Nat, NEW j \in Starts(p, l), j > n
    PROVE  Cardinality(Starts(p, j)) > Cardinality(Starts(p, n))
<1>1. j \in 1 .. l /\ j - 1 \in Nat /\ p[(j - 1) + 1].hook = "pre" /\ (j - 1) + 1 = j
  BY DEF Starts
<1>2. Cardinality(Starts(p, (j - 1) + 1)) = Cardinality(Starts(p, j - 1)) + 1
  BY <1>1, NextStart
<1>3. n \in 0 .. j - 1  BY <1>1
<1>4. Cardinality(Starts(p, n)) <= Cardinality(Starts(p, j - 1))
  BY <1>1, <1>3, StartsGrow
<1>5. Cardinality(Starts(p, n)) \in Nat /\ Cardinality(Starts(p, j - 1)) \in Nat
  BY <1>1, StartsFinite
<1> QED  BY <1>1, <1>2, <1>4, <1>5

(* order has the modules that start in the first n hooks of p. *)
Follows(order, p, n) ==
    \A j \in Starts(p, n) :
        /\ Cardinality(Starts(p, j)) \in 1 .. Len(order)
        /\ order[Cardinality(Starts(p, j))] = p[j].module

(* Before the first hook nothing has started. *)
LEMMA NothingStarted ==
    ASSUME NEW order, NEW p
    PROVE  Starts(p, 0) = {} /\ Cardinality(Starts(p, 0)) = 0 /\ Follows(order, p, 0)
<1>1. Starts(p, 0) = {}  BY DEF Starts
<1> QED  BY <1>1, FS_EmptySet DEF Follows

(* A module more. *)
LEMMA FollowsOn ==
    ASSUME NEW order, NEW p, NEW n \in Nat, Follows(order, p, n),
           p[n + 1].hook = "pre" =>
               /\ Cardinality(Starts(p, n)) + 1 \in 1 .. Len(order)
               /\ order[Cardinality(Starts(p, n)) + 1] = p[n + 1].module
    PROVE  Follows(order, p, n + 1)
BY NextStart DEF Follows

(* Recording a module appends it to the order. *)
LEMMA FollowsAppended ==
    ASSUME NEW order \in Seq(Modules), NEW m \in Modules, NEW p, NEW n \in Nat,
           Follows(order, p, n), Len(order) = Cardinality(Starts(p, n)),
           p[n + 1].hook = "pre", p[n + 1].module = m
    PROVE  Follows(Append(order, m), p, n + 1)
<1> DEFINE longer == Append(order, m)
<1>1. /\ Len(longer) = Len(order) + 1 /\ Len(order) \in Nat
      /\ \A i \in 1 .. Len(order) : longer[i] = order[i]
      /\ longer[Len(order) + 1] = m
  OBVIOUS
<1> HIDE DEF longer
<1>2. Follows(longer, p, n)  BY <1>1 DEF Follows
<1>3. Follows(longer, p, n + 1)  BY <1>1, <1>2, FollowsOn
<1> QED  BY <1>3 DEF longer

(* Where passes are stable, a complete trace is that of the pass. *)
LEMMA StableIsOnePass ==
    ASSUME model \in Models, Stable, NEW k \in Kinds,
           NEW p \in model.passes[k], NEW q \in model.passes[k]
    PROVE  p = q
<1>1. IsFiniteSet(model.passes[k]) /\ Cardinality(model.passes[k]) = 1
  BY CoordinatorAssumption DEF Stable
<1>2. Cardinality({p}) = 1 /\ {p} \in SUBSET model.passes[k]  BY FS_Singleton
<1>3. model.passes[k] = {p}  BY <1>1, <1>2, FS_Subset
<1> QED  BY <1>3

(* Where passes are stable, no pass goes beyond another. *)
LEMMA StableDoesNotGoOn ==
    ASSUME model \in Models, Stable
    PROVE  NoneGoesOn
<1> SUFFICES ASSUME NEW k \in Kinds, NEW p \in model.passes[k], NEW q \in model.passes[k],
                    GoesOn(p, q)
             PROVE  FALSE
  BY DEF NoneGoesOn
<1>1. p = q  BY StableIsOnePass
<1>2. p \in Seq(Hooks)  BY CoordinatorAssumption
<1>3. Cardinality(StartsOf(p)) \in Nat  BY <1>2, StartsFinite DEF StartsOf
<1> QED  BY <1>1, <1>3 DEF GoesOn

(* While a pass follows the order, the order has a module for each start. *)
LEMMA OneIsExpected ==
    ASSUME model \in Models, NoneGoesOn, NEW k \in Kinds,
           NEW old \in model.passes[k], NEW p \in model.passes[k], NEW order \in Seq(Modules),
           Len(order) = Cardinality(StartsOf(old)), Follows(order, old, Len(old)),
           NEW n \in Nat, n < Len(p), Follows(order, p, n), p[n + 1].hook = "pre"
    PROVE  Cardinality(Starts(p, n)) < Len(order)
<1>1. p \in Seq(Hooks) /\ old \in Seq(Hooks) /\ Len(p) \in Nat /\ Len(old) \in Nat
  BY CoordinatorAssumption
<1> DEFINE step == Cardinality(Starts(p, n))
<1>2. step \in Nat /\ Len(order) \in Nat  BY StartsFinite
<1> SUFFICES ASSUME step >= Len(order) PROVE FALSE  BY <1>2
<1>3. Cardinality(StartsOf(old)) < Cardinality(StartsOf(p))
  <2>1. Cardinality(Starts(p, n + 1)) = step + 1  BY NextStart
  <2>2. Cardinality(Starts(p, n + 1)) <= Cardinality(StartsOf(p))
    BY <1>1, StartsGrow DEF StartsOf
  <2>3. Cardinality(StartsOf(p)) \in Nat  BY <1>1, StartsFinite DEF StartsOf
  <2> QED  BY <1>2, <2>1, <2>2, <2>3
<1>4. ASSUME NEW i \in StartsOf(old), NEW j \in StartsOf(p),
             Cardinality(Starts(old, i)) = Cardinality(Starts(p, j))
      PROVE  old[i].module = p[j].module
  <2>1. /\ Cardinality(Starts(old, i)) \in 1 .. Len(order)
        /\ order[Cardinality(Starts(old, i))] = old[i].module
    BY DEF Follows, StartsOf
  <2>2. ~(j > n)
    <3>1. ASSUME j > n PROVE Cardinality(Starts(p, j)) > step
      BY <1>1, <3>1, StartAfter DEF StartsOf
    <3> QED  BY <1>2, <1>4, <2>1, <3>1
  <2>3. j \in Starts(p, n)  BY <1>1, <2>2 DEF Starts, StartsOf
  <2>4. order[Cardinality(Starts(p, j))] = p[j].module  BY <2>3 DEF Follows
  <2> QED  BY <1>4, <2>1, <2>4
<1>5. GoesOn(old, p)  BY <1>3, <1>4 DEF GoesOn
<1> QED  BY <1>5 DEF NoneGoesOn

----------------------------------------------------------------------------
(* What holds of the coordinator of a kind of pass: a complete trace is
   that of one of its passes, and the queue is where step_id is. *)
Recorded(c, k) ==
    \E p \in model.passes[k] :
        /\ Len(c.submodule_order) = Cardinality(StartsOf(p))
        /\ Follows(c.submodule_order, p, Len(p))

CompleteOK(c, k) ==
    /\ IsTrace(c.param_order, c.submodule_order)
    /\ Recorded(c, k)
    /\ \E q : QueueAt(c.param_order, c.param_queue, q, c.most_recent, c.step_id)

CachedOK(c) == \A e \in c.cached : e.params \subseteq ParamsOf(e.module)

CoordinatorOK(c, k) ==
    /\ IsCoordinator(c) /\ CachedOK(c)
    /\ c.trace_mode = "complete" => CompleteOK(c, k)
    /\ c.trace_mode = "invalid" => c.submodule_order = << >>

(* Between passes. *)
Idle(c) ==
    /\ c.registry = {} /\ c.step_id = 0 /\ c.trace_mode # "invalid"
    /\ c.trace_mode = "record" => c.submodule_order = << >>

(* After the first n hooks of pass p. *)
InPass(c, p, n) ==
    /\ c.trace_mode # "invalid" =>
           /\ c.step_id = Cardinality(Starts(p, n))
           /\ Follows(c.submodule_order, p, n)
    /\ c.trace_mode = "record" => Len(c.submodule_order) = c.step_id

Recording(c, m) == RecordModule(TracePrologue(c, m), m)

(* trace_prologue raises nothing: the order has the step of the module. *)
LEMMA ModuleIsTraced ==
    ASSUME model \in Models, NoneGoesOn, NEW k \in Kinds, NEW c, CoordinatorOK(c, k),
           NEW p \in model.passes[k], NEW n \in Nat, n < Len(p), InPass(c, p, n),
           p[n + 1].hook = "pre", NEW m \in Modules, p[n + 1].module = m
    PROVE  /\ c.trace_mode = "complete" =>
                  /\ c.step_id < Len(c.submodule_order)
                  /\ Stable => Traced(c, m)
<1> SUFFICES ASSUME c.trace_mode = "complete"
             PROVE  c.step_id < Len(c.submodule_order) /\ (Stable => Traced(c, m))
  OBVIOUS
<1> DEFINE order == c.submodule_order
           step == Cardinality(Starts(p, n))
<1>1. order \in Seq(Modules) /\ Recorded(c, k) /\ c.step_id = step /\ Follows(order, p, n)
  BY FieldTypes DEF CoordinatorOK, CompleteOK, InPass
<1>2. PICK old \in model.passes[k] :
          /\ Len(order) = Cardinality(StartsOf(old)) /\ Follows(order, old, Len(old))
  BY <1>1 DEF Recorded
<1> HIDE DEF order
<1>3. step < Len(order)  BY <1>1, <1>2, OneIsExpected
<1>4. ASSUME Stable PROVE order[step + 1] = m
  <2>1. old = p  BY <1>4, StableIsOnePass
  <2>2. Len(p) \in Nat /\ n + 1 \in 0 .. Len(p)  BY CoordinatorAssumption
  <2>3. n + 1 \in Starts(p, Len(p)) /\ Cardinality(Starts(p, n + 1)) = step + 1
    <3>1. n + 1 \in Starts(p, n + 1)  BY NextStart
    <3> QED  BY <2>2, <3>1, NextStart DEF Starts
  <2> QED  BY <1>2, <2>1, <2>3 DEF Follows
<1> QED  BY <1>1, <1>3, <1>4 DEF Traced, order

(* After trace_prologue and record_module. *)
LEMMA RecordingFields ==
    ASSUME model \in Models, NoneGoesOn, NEW k \in Kinds, NEW c, CoordinatorOK(c, k),
           NEW p \in model.passes[k], NEW n \in Nat, n < Len(p), InPass(c, p, n),
           p[n + 1].hook = "pre", NEW m \in Modules, p[n + 1].module = m
    PROVE  LET d == Recording(c, m)
           IN  /\ CoordinatorOK(d, k)
               /\ d.registry = c.registry /\ d.step_id = c.step_id
               /\ d.trace_mode # "invalid" =>
                      /\ d.step_id + 1 = Cardinality(Starts(p, n + 1))
                      /\ Follows(d.submodule_order, p, n + 1)
               /\ d.trace_mode = "record" => Len(d.submodule_order) = d.step_id + 1
               /\ d.trace_mode = "complete" =>
                      /\ d.most_recent = c.most_recent
                      /\ d.step_id < Len(d.submodule_order)
                      /\ d.submodule_order[d.step_id + 1] = m
               /\ Stable /\ c.trace_mode = "complete" =>
                      d.trace_mode = "complete"
<1> DEFINE d == Recording(c, m)
<1>1. IsCoordinator(c) /\ CachedOK(c) /\ c.trace_mode \in Modes /\ c.step_id \in Nat
      /\ c.submodule_order \in Seq(Modules)
  BY FieldTypes DEF CoordinatorOK
<1>2. Cardinality(Starts(p, n + 1)) = Cardinality(Starts(p, n)) + 1
  BY NextStart
<1>3. CASE c.trace_mode = "record"
  <2>1. TracePrologue(c, m) = c  BY <1>3 DEF TracePrologue
  <2>2. /\ IsCoordinator(d)
        /\ d.trace_mode = "record" /\ d.step_id = c.step_id
        /\ d.submodule_order = Append(c.submodule_order, m)
        /\ d.registry = c.registry /\ d.cached = c.cached
    <3>1. d = RecordModule(c, m)  BY <2>1 DEF Recording
    <3> HIDE DEF d
    <3> QED  BY <1>1, <1>3, <3>1, RecordFields
  <2> HIDE DEF d
  <2>3. /\ c.step_id = Cardinality(Starts(p, n)) /\ Follows(c.submodule_order, p, n)
        /\ Len(c.submodule_order) = c.step_id
    BY <1>3 DEF InPass
  <2>4. Follows(d.submodule_order, p, n + 1)
    BY <1>1, <2>2, <2>3, FollowsAppended
  <2>5. Len(d.submodule_order) = d.step_id + 1  BY <1>1, <2>2, <2>3
  <2>6. CoordinatorOK(d, k)  BY <1>1, <2>2 DEF CoordinatorOK, CachedOK
  <2>7. d.step_id + 1 = Cardinality(Starts(p, n + 1))  BY <1>2, <2>2, <2>3
  <2> QED  BY <1>3, <2>2, <2>4, <2>5, <2>6, <2>7 DEF d
<1>4. CASE c.trace_mode = "complete" /\ Traced(c, m)
  <2>1. d = c  BY <1>4 DEF Recording, TracePrologue, RecordModule
  <2> HIDE DEF d
  <2>2. c.step_id < Len(c.submodule_order) /\ c.submodule_order[c.step_id + 1] = m
    BY <1>4 DEF Traced
  <2>3. c.step_id = Cardinality(Starts(p, n)) /\ Follows(c.submodule_order, p, n)
    BY <1>4 DEF InPass
  <2>4. c.step_id + 1 \in 1 .. Len(c.submodule_order)  BY <1>1, <2>2
  <2>5. Follows(c.submodule_order, p, n + 1)  BY <2>2, <2>3, <2>4, FollowsOn
  <2> QED  BY <1>2, <1>4, <2>1, <2>2, <2>3, <2>5 DEF d
<1>5. CASE c.trace_mode = "complete" /\ ~Traced(c, m)
  <2>1. ~Stable  BY <1>5, ModuleIsTraced
  <2> DEFINE e == InvalidateTrace(c)
  <2>2. /\ IsCoordinator(e) /\ e.trace_mode = "invalid" /\ e.step_id = c.step_id
        /\ e.registry = c.registry /\ e.cached = c.cached /\ e.submodule_order = << >>
    BY <1>1, InvalidateFields
  <2>3. d = RecordModule(e, m)  BY <1>5 DEF Recording, TracePrologue
  <2> HIDE DEF d, e
  <2>4. d = e  BY <2>2, <2>3 DEF RecordModule
  <2>5. CoordinatorOK(d, k)  BY <1>1, <2>2, <2>4 DEF CoordinatorOK, CachedOK
  <2> QED  BY <2>1, <2>2, <2>4, <2>5 DEF d
<1>6. CASE c.trace_mode = "invalid"
  <2>1. d = c  BY <1>6 DEF Recording, TracePrologue, RecordModule
  <2> QED  BY <1>6, <2>1
<1> QED  BY <1>1, <1>3, <1>4, <1>5, <1>6 DEF Modes

----------------------------------------------------------------------------
(* The steps of fetch_sub_module. *)
Gathering(c, params, stat) == AllGather(c, NotAvailable(params, stat))
Waited(c, params, stat) == WaitFor(Gathering(c, params, stat), params)
Fetched(c, params, stat) ==
    SetStatus(stat, NotAvailable(params, stat)
                        \cup Completed(Gathering(c, params, stat), params), "available")
Ahead(c, params, stat) ==
    IF Waited(c, params, stat).trace_mode = "complete" /\ config.bucket > 0
    THEN ToPrefetch(DiscardFromQueue(Waited(c, params, stat), params), Fetched(c, params, stat))
    ELSE {}
Used(c, params, stat) ==
    IF Waited(c, params, stat).trace_mode = "complete"
    THEN Prefetch(DiscardFromQueue(Waited(c, params, stat), params), Fetched(c, params, stat))
    ELSE Waited(c, params, stat)

(* What is registered is on its way or there, in nobody's use, and needed
   later in the pass. *)
RegisteredOK(c, stat, act, step) ==
    /\ \A r \in c.registry :
          /\ stat[r.param] # "not_available"
          /\ stat[r.param] = "inflight" => r.param \in r.completes
          /\ act[r.param] = {}
          /\ c.most_recent[r.param] >= step
    /\ c.registry # {} => c.trace_mode = "complete" /\ config.bucket # 0

InFlightRegistered(c, stat) == \A p \in Params : stat[p] = "inflight" => p \in Registered(c)

(* After the wait the parameters of the module are there, none registered. *)
LEMMA FetchWaits ==
    ASSUME NEW c, IsCoordinator(c), NEW stat \in [Params -> Statuses],
           NEW params \in SUBSET Params,
           \A r \in c.registry :
               /\ stat[r.param] # "not_available"
               /\ stat[r.param] = "inflight" => r.param \in r.completes,
           InFlightRegistered(c, stat)
    PROVE  LET w == Waited(c, params, stat)
               fetched == Fetched(c, params, stat)
           IN  /\ NotAvailable(params, stat) \cap Registered(c) = {}
               /\ fetched \in [Params -> Statuses]
               /\ \A p \in params : fetched[p] = "available"
               /\ \A p \in Params : fetched[p] = stat[p] \/ fetched[p] = "available"
               /\ InFlightRegistered(w, fetched)
               /\ \A r \in w.registry :
                      /\ \E s \in c.registry : s.param = r.param
                      /\ r.param \notin params
                      /\ fetched[r.param] = "inflight" => r.param \in r.completes
               /\ IsCoordinator(w)
               /\ w.trace_mode = c.trace_mode /\ w.step_id = c.step_id
               /\ w.submodule_order = c.submodule_order
               /\ w.param_order = c.param_order /\ w.param_queue = c.param_queue
               /\ w.most_recent = c.most_recent /\ w.cached = c.cached
<1> DEFINE needed == NotAvailable(params, stat)
           g == Gathering(c, params, stat)
           done == Completed(g, params)
           w == Waited(c, params, stat)
           fetched == Fetched(c, params, stat)
<1>1. needed \in SUBSET params /\ needed \in SUBSET Params
      /\ \A p \in params : p \in needed <=> stat[p] = "not_available"
  BY DEF NotAvailable
<1> HIDE DEF needed
<1>2. /\ IsCoordinator(g)
      /\ g.trace_mode = c.trace_mode /\ g.step_id = c.step_id
      /\ g.submodule_order = c.submodule_order
      /\ g.param_order = c.param_order /\ g.param_queue = c.param_queue
      /\ g.most_recent = c.most_recent /\ g.cached = c.cached
      /\ g.registry = c.registry \cup {[param |-> p, completes |-> needed] : p \in needed}
  <2>1. g = AllGather(c, needed)  BY DEF Gathering, needed
  <2> HIDE DEF g
  <2> QED  BY <1>1, <2>1, AllGatherFields
<1>3. w = WaitFor(g, params) /\ fetched = SetStatus(stat, needed \cup done, "available")
  BY DEF Waited, Fetched, needed
<1> HIDE DEF g, w, fetched
<1>4. /\ IsCoordinator(w)
      /\ w.trace_mode = c.trace_mode /\ w.step_id = c.step_id
      /\ w.submodule_order = c.submodule_order
      /\ w.param_order = c.param_order /\ w.param_queue = c.param_queue
      /\ w.most_recent = c.most_recent /\ w.cached = c.cached
      /\ w.registry = {[r EXCEPT !.completes = @ \ done] :
                           r \in {s \in g.registry : s.param \notin params}}
  BY <1>2, <1>3, WaitForFields
<1>5. /\ fetched \in [Params -> Statuses]
      /\ \A p \in Params : fetched[p] = IF p \in needed \cup done THEN "available" ELSE stat[p]
  BY <1>3, SetStatusType DEF Statuses
<1>6. \A r \in c.registry : r.param \in params => r.completes \subseteq done
  BY <1>2 DEF Completed
<1> HIDE DEF done
<1>7. \A p \in Params : stat[p] \in Statuses  OBVIOUS
<1>8. c.registry \subseteq InFlight  BY FieldTypes
<1>9. \A p \in params : fetched[p] = "available"
  <2> SUFFICES ASSUME NEW p \in params, fetched[p] # "available" PROVE FALSE
    OBVIOUS
  <2>1. p \in Params /\ p \notin needed /\ p \notin done  BY <1>5
  <2>2. stat[p] = "inflight"  BY <1>1, <1>5, <1>7, <2>1 DEF Statuses
  <2>3. PICK r \in c.registry : r.param = p
    BY <2>1, <2>2 DEF InFlightRegistered, Registered
  <2> QED  BY <1>6, <2>1, <2>2, <2>3
<1>10. needed \cap Registered(c) = {}  BY <1>1 DEF Registered
<1>11. ASSUME NEW r \in w.registry
       PROVE  /\ \E s \in c.registry : s.param = r.param
              /\ r.param \notin params
              /\ fetched[r.param] = "inflight" => r.param \in r.completes
  <2>1. PICK s \in g.registry : s.param \notin params /\ r = [s EXCEPT !.completes = @ \ done]
    BY <1>4
  <2>2. s \in c.registry
    <3>1. \A p \in needed : [param |-> p, completes |-> needed].param \in params
      BY <1>1
    <3> QED  BY <1>2, <2>1, <3>1
  <2>3. s \in InFlight  BY <1>8, <2>2
  <2>4. r.param = s.param /\ r.completes = s.completes \ done /\ s.param \in Params
    BY <2>1, <2>3 DEF InFlight
  <2>5. ASSUME fetched[r.param] = "inflight" PROVE r.param \in r.completes
    <3>1. s.param \notin done /\ stat[s.param] = "inflight"
      BY <1>5, <2>4, <2>5
    <3> QED  BY <2>2, <2>4, <3>1
  <2> QED  BY <2>1, <2>2, <2>4, <2>5
<1>12. InFlightRegistered(w, fetched)
  <2> SUFFICES ASSUME NEW p \in Params, fetched[p] = "inflight"
               PROVE  \E r \in w.registry : r.param = p
    BY DEF InFlightRegistered, Registered
  <2>1. stat[p] = "inflight" /\ p \notin params  BY <1>5, <1>9
  <2>2. PICK s \in c.registry : s.param = p
    BY <2>1 DEF InFlightRegistered, Registered
  <2> DEFINE r == [s EXCEPT !.completes = @ \ done]
  <2>3. r.param = p  BY <1>8, <2>2 DEF InFlight
  <2>4. r \in w.registry  BY <1>2, <1>4, <2>1, <2>2
  <2> QED  BY <2>3, <2>4
<1> QED  BY <1>4, <1>5, <1>9, <1>10, <1>11, <1>12 DEF w, fetched, needed

FetchDoes(w, params, fetched, d, ahead) ==
    /\ ParamsIn(Discarded(w, params)) = NotAlreadyFetched(w, params)
    /\ IsCoordinator(d) /\ d.cached = w.cached
    /\ d.trace_mode = w.trace_mode /\ d.step_id = w.step_id
    /\ d.submodule_order = w.submodule_order
    /\ IsTrace(d.param_order, d.submodule_order)
    /\ \E r : QueueAt(d.param_order, d.param_queue, r, d.most_recent, d.step_id + 1)
    /\ d.registry = w.registry \cup {[param |-> p, completes |-> ahead] : p \in ahead}
    /\ \A r \in d.registry : d.most_recent[r.param] >= d.step_id + 1
    /\ ahead \subseteq Params
    /\ \A p \in ahead : fetched[p] = "not_available" /\ config.bucket # 0

(* With a complete trace, what is used and what is prefetched. *)
LEMMA FetchUses ==
    ASSUME NEW k, NEW w, IsCoordinator(w), CompleteOK(w, k),
           w.step_id < Len(w.submodule_order),
           NEW params \in SUBSET Params, params = ParamsOf(w.submodule_order[w.step_id + 1]),
           \A r \in w.registry :
               w.most_recent[r.param] >= w.step_id /\ r.param \in Params \ params,
           NEW fetched, NEW d, NEW ahead,
           d = Prefetch(DiscardFromQueue(w, params), fetched),
           ahead = IF config.bucket > 0
                   THEN ToPrefetch(DiscardFromQueue(w, params), fetched) ELSE {},
           config.bucket \in Nat
    PROVE  FetchDoes(w, params, fetched, d, ahead)
<1> DEFINE u == DiscardFromQueue(w, params)
           order == w.submodule_order
<1>1. PICK q : QueueAt(w.param_order, w.param_queue, q, w.most_recent, w.step_id)
  BY DEF CompleteOK
<1>2. IsTrace(w.param_order, order)  BY DEF CompleteOK
<1>3. /\ ParamsIn(Discarded(w, params)) = NotAlreadyFetched(w, params)
      /\ IsCoordinator(u)
      /\ u.trace_mode = w.trace_mode /\ u.step_id = w.step_id
      /\ u.submodule_order = w.submodule_order /\ u.param_order = w.param_order
      /\ u.registry = w.registry /\ u.cached = w.cached
      /\ \E r : QueueAt(w.param_order, u.param_queue, r, u.most_recent, w.step_id + 1)
      /\ \A p \in Params \ params :
             w.most_recent[p] >= w.step_id => u.most_recent[p] >= w.step_id + 1
  <2>1. /\ IsCoordinator(w) /\ order = w.submodule_order /\ w.step_id < Len(order)
        /\ params \in SUBSET Params /\ params = ParamsOf(order[w.step_id + 1])
    OBVIOUS
  <2> HIDE DEF order
  <2> QED  BY ONLY <1>1, <1>2, <2>1, DiscardFields DEF u
<1>4. /\ d = Prefetch(u, fetched)
      /\ ahead = IF config.bucket > 0 THEN ToPrefetch(u, fetched) ELSE {}
  OBVIOUS
<1> HIDE DEF u, order
<1>5. w.step_id \in Nat /\ u.most_recent \in [Params -> Int]
  BY <1>3, FieldTypes
<1>6. \A r \in w.registry : u.most_recent[r.param] >= w.step_id + 1  BY <1>3
<1>7. CASE config.bucket = 0
  <2>1. d = u /\ ahead = {}  BY <1>4, <1>7 DEF Prefetch
  <2>2. d.registry = w.registry \cup {[param |-> p, completes |-> ahead] : p \in ahead}
    BY <1>3, <2>1
  <2> QED  BY <1>2, <1>3, <1>6, <2>1, <2>2, SMTT(30) DEF order, FetchDoes
<1>8. CASE config.bucket # 0
  <2>1. ahead = ToPrefetch(u, fetched)  BY <1>4, <1>8
  <2>2. PICK r : QueueAt(u.param_order, u.param_queue, r, u.most_recent, w.step_id + 1)
    BY <1>3
  <2>3. IsTrace(u.param_order, u.submodule_order)  BY <1>2, <1>3 DEF order
  <2>4. w.step_id + 1 \in Nat  BY <1>5
  <2>5. /\ IsCoordinator(d)
        /\ d.trace_mode = u.trace_mode /\ d.step_id = u.step_id
        /\ d.submodule_order = u.submodule_order /\ d.param_order = u.param_order
        /\ d.registry = u.registry \cup {[param |-> p, completes |-> ahead] : p \in ahead}
        /\ d.cached = u.cached
        /\ \E x : QueueAt(u.param_order, d.param_queue, x, d.most_recent, w.step_id + 1)
        /\ \A p \in Params : d.most_recent[p] >= u.most_recent[p]
        /\ ahead \subseteq Params
        /\ \A p \in ahead : fetched[p] = "not_available" /\ d.most_recent[p] >= w.step_id + 1
    <3>1. d = Prefetch(u, fetched) /\ IsCoordinator(u)  BY <1>3, <1>4
    <3>2. PrefetchDoes(u, w.step_id + 1, fetched, Prefetch(u, fetched), ToPrefetch(u, fetched))
      BY ONLY <1>8, <2>2, <2>3, <2>4, <3>1, PrefetchFields
    <3>3. PrefetchDoes(u, w.step_id + 1, fetched, d, ahead)
      BY <2>1, <3>1, <3>2
    <3> QED  BY <3>3 DEF PrefetchDoes
  <2>6. d.most_recent \in [Params -> Int]  BY <2>5, FieldTypes
  <2>7. ASSUME NEW x \in d.registry PROVE d.most_recent[x.param] >= d.step_id + 1
    <3>1. CASE x \in w.registry
      <4>1. x.param \in Params  BY <3>1
      <4>2. d.most_recent[x.param] >= u.most_recent[x.param]  BY <2>5, <4>1
      <4>3. u.most_recent[x.param] >= w.step_id + 1  BY <1>6, <3>1
      <4>4. d.most_recent[x.param] \in Int /\ u.most_recent[x.param] \in Int
        BY <1>5, <2>6, <4>1
      <4>5. d.step_id = w.step_id  BY <1>3, <2>5
      <4> QED  BY ONLY <1>5, <4>2, <4>3, <4>4, <4>5
    <3>2. CASE x \in {[param |-> p, completes |-> ahead] : p \in ahead}
      <4>1. x.param \in ahead  BY <3>2
      <4> QED  BY <1>3, <2>5, <4>1
    <3> QED  BY <1>3, <2>5, <3>1, <3>2
  <2> QED  BY <1>3, <1>8, <2>3, <2>5, <2>7 DEF FetchDoes
<1> QED  BY <1>7, <1>8

StepOn(d) == [d EXCEPT !.step_id = @ + 1]

(* step_id is counted. *)
LEMMA StepOnFields ==
    ASSUME NEW d, IsCoordinator(d)
    PROVE  LET e == StepOn(d)
           IN  /\ IsCoordinator(e)
               /\ e.trace_mode = d.trace_mode /\ e.step_id = d.step_id + 1
               /\ e.submodule_order = d.submodule_order
               /\ e.param_order = d.param_order /\ e.param_queue = d.param_queue
               /\ e.most_recent = d.most_recent
               /\ e.registry = d.registry /\ e.cached = d.cached
<1>1. d.step_id + 1 \in Nat  BY FieldTypes
<1>2. IsCoordinator([d EXCEPT !.step_id = d.step_id + 1])  BY <1>1, SetStepId
<1> QED  BY <1>2 DEF StepOn, IsCoordinator, Coordinator

(* fetch_sub_module of the next module of pass p, on the coordinator c
   after its prologue. *)
LEMMA FetchModule ==
    ASSUME model \in Models, config.bucket \in Nat, NEW k \in Kinds,
           NEW c, CoordinatorOK(c, k),
           NEW m \in Modules, NEW params \in SUBSET Params, params = ParamsOf(m),
           NEW stat \in [Params -> Statuses], NEW act \in [Params -> SUBSET Modules],
           \A p \in Params : act[p] # {} => stat[p] = "available",
           RegisteredOK(c, stat, act, c.step_id), InFlightRegistered(c, stat),
           c.trace_mode = "complete" =>
               /\ c.step_id < Len(c.submodule_order)
               /\ c.submodule_order[c.step_id + 1] = m,
           NEW fetched, fetched = Fetched(c, params, stat),
           NEW ahead, ahead = Ahead(c, params, stat),
           NEW after, after = SetStatus(fetched, ahead, "inflight"),
           NEW opened,
           opened = [p \in Params |-> IF p \in params THEN act[p] \cup {m} ELSE act[p]],
           NEW w, w = Waited(c, params, stat),
           NEW e, e = StepOn(Used(c, params, stat))
    PROVE  /\ NotAvailable(params, stat) \cap Registered(c) = {}
           /\ \A p \in params : fetched[p] = "available"
           /\ ahead \cap Registered(w) = {}
           /\ w.trace_mode = "complete" =>
                  ParamsIn(Discarded(w, params)) = NotAlreadyFetched(w, params)
           /\ CoordinatorOK(e, k)
           /\ e.trace_mode = c.trace_mode /\ e.step_id = c.step_id + 1
           /\ e.submodule_order = c.submodule_order
           /\ RegisteredOK(e, after, opened, e.step_id)
           /\ InFlightRegistered(e, after)
<1> DEFINE d == Used(c, params, stat)
<1>1. IsCoordinator(c) /\ CachedOK(c) /\ c.registry \subseteq InFlight /\ c.step_id \in Nat
  BY FieldTypes DEF CoordinatorOK
<1>2. \A r \in c.registry :
          /\ stat[r.param] # "not_available"
          /\ stat[r.param] = "inflight" => r.param \in r.completes
  BY DEF RegisteredOK
<1>3. /\ NotAvailable(params, stat) \cap Registered(c) = {}
      /\ fetched \in [Params -> Statuses]
      /\ \A p \in params : fetched[p] = "available"
      /\ \A p \in Params : fetched[p] = stat[p] \/ fetched[p] = "available"
      /\ InFlightRegistered(w, fetched)
      /\ \A r \in w.registry :
             /\ \E s \in c.registry : s.param = r.param
             /\ r.param \notin params
             /\ fetched[r.param] = "inflight" => r.param \in r.completes
      /\ IsCoordinator(w)
      /\ w.trace_mode = c.trace_mode /\ w.step_id = c.step_id
      /\ w.submodule_order = c.submodule_order
      /\ w.param_order = c.param_order /\ w.param_queue = c.param_queue
      /\ w.most_recent = c.most_recent /\ w.cached = c.cached
  BY <1>1, <1>2, FetchWaits
<1>4. /\ ahead = IF w.trace_mode = "complete" /\ config.bucket > 0
                 THEN ToPrefetch(DiscardFromQueue(w, params), fetched) ELSE {}
      /\ d = IF w.trace_mode = "complete"
             THEN Prefetch(DiscardFromQueue(w, params), fetched) ELSE w
  BY DEF Ahead, Used
<1>5. \A r \in w.registry :
          /\ w.most_recent[r.param] >= w.step_id
          /\ r.param \in Params \ params
          /\ fetched[r.param] # "not_available"
          /\ act[r.param] = {}
  <2> SUFFICES ASSUME NEW r \in w.registry
               PROVE  /\ w.most_recent[r.param] >= w.step_id
                      /\ r.param \in Params \ params
                      /\ fetched[r.param] # "not_available"
                      /\ act[r.param] = {}
    OBVIOUS
  <2>1. PICK s \in c.registry : s.param = r.param  BY <1>3
  <2>2. s.param \in Params  BY <1>1, <2>1 DEF InFlight
  <2>3. stat[s.param] # "not_available" /\ act[s.param] = {} /\ c.most_recent[s.param] >= c.step_id
    BY <2>1 DEF RegisteredOK
  <2> QED  BY <1>3, <2>1, <2>2, <2>3
<1>6. w.registry # {} => w.trace_mode = "complete" /\ config.bucket # 0
  BY <1>3 DEF RegisteredOK
<1>7. /\ w.trace_mode = "complete" =>
             ParamsIn(Discarded(w, params)) = NotAlreadyFetched(w, params)
      /\ IsCoordinator(d) /\ d.cached = w.cached
      /\ d.trace_mode = w.trace_mode /\ d.step_id = w.step_id
      /\ d.submodule_order = w.submodule_order
      /\ d.trace_mode = "complete" =>
            /\ IsTrace(d.param_order, d.submodule_order)
            /\ \E r : QueueAt(d.param_order, d.param_queue, r, d.most_recent, d.step_id + 1)
      /\ d.registry = w.registry \cup {[param |-> p, completes |-> ahead] : p \in ahead}
      /\ \A r \in d.registry : d.most_recent[r.param] >= d.step_id + 1
      /\ ahead \subseteq Params
      /\ \A p \in ahead : fetched[p] = "not_available" /\ config.bucket # 0
                          /\ w.trace_mode = "complete"
  <2>1. CASE w.trace_mode = "complete"
    <3>1. CompleteOK(w, k)
      BY <1>3, <2>1 DEF CoordinatorOK, CompleteOK, Recorded
    <3>2. /\ w.step_id < Len(w.submodule_order)
          /\ params = ParamsOf(w.submodule_order[w.step_id + 1])
      BY <1>3, <2>1
    <3>3. /\ d = Prefetch(DiscardFromQueue(w, params), fetched)
          /\ ahead = IF config.bucket > 0
                     THEN ToPrefetch(DiscardFromQueue(w, params), fetched) ELSE {}
      BY <1>4, <2>1
    <3> HIDE DEF d
    <3>4. /\ ParamsIn(Discarded(w, params)) = NotAlreadyFetched(w, params)
          /\ IsCoordinator(d) /\ d.cached = w.cached
          /\ d.trace_mode = w.trace_mode /\ d.step_id = w.step_id
          /\ d.submodule_order = w.submodule_order
          /\ IsTrace(d.param_order, d.submodule_order)
          /\ \E r : QueueAt(d.param_order, d.param_queue, r, d.most_recent, d.step_id + 1)
          /\ d.registry = w.registry \cup {[param |-> p, completes |-> ahead] : p \in ahead}
          /\ \A r \in d.registry : d.most_recent[r.param] >= d.step_id + 1
          /\ ahead \subseteq Params
          /\ \A p \in ahead : fetched[p] = "not_available" /\ config.bucket # 0
      <4>1. \A r \in w.registry :
                w.most_recent[r.param] >= w.step_id /\ r.param \in Params \ params
        BY <1>5
      <4>2. params \in SUBSET Params /\ config.bucket \in Nat /\ IsCoordinator(w)
        BY <1>3
      <4>3. FetchDoes(w, params, fetched, d, ahead)
        BY ONLY <3>1, <3>2, <3>3, <4>1, <4>2, FetchUses
      <4> QED  BY <4>3 DEF FetchDoes
    <3> QED  BY <2>1, <3>4
  <2>2. CASE w.trace_mode # "complete"
    <3>1. d = w /\ ahead = {} /\ w.registry = {}  BY <1>4, <1>6, <2>2
    <3> HIDE DEF d
    <3> QED  BY <1>3, <2>2, <3>1
  <2> QED  BY <2>1, <2>2
<1> HIDE DEF d
<1>8. /\ IsCoordinator(e)
      /\ e.trace_mode = d.trace_mode /\ e.step_id = d.step_id + 1
      /\ e.submodule_order = d.submodule_order
      /\ e.param_order = d.param_order /\ e.param_queue = d.param_queue
      /\ e.most_recent = d.most_recent
      /\ e.registry = d.registry /\ e.cached = d.cached
  <2>1. e = StepOn(d)  BY DEF d
  <2> QED  BY <1>7, <2>1, StepOnFields
<1>9. ahead \cap Registered(w) = {}  BY <1>5, <1>7 DEF Registered
<1>10. CoordinatorOK(e, k)
  <2>1. CachedOK(e)  BY <1>1, <1>3, <1>7, <1>8 DEF CachedOK
  <2>2. ASSUME e.trace_mode = "complete" PROVE CompleteOK(e, k)
    <3>1. Recorded(e, k)
      BY <1>3, <1>7, <1>8, <2>2 DEF CoordinatorOK, CompleteOK, Recorded
    <3> QED  BY <1>7, <1>8, <2>2, <3>1 DEF CompleteOK
  <2>3. e.trace_mode = "invalid" => e.submodule_order = << >>
    BY <1>3, <1>7, <1>8 DEF CoordinatorOK
  <2> QED  BY <1>8, <2>1, <2>2, <2>3 DEF CoordinatorOK
<1>11. /\ after \in [Params -> Statuses]
       /\ \A p \in Params : after[p] = IF p \in ahead THEN "inflight" ELSE fetched[p]
  BY <1>3, SetStatusType DEF Statuses
<1>12. RegisteredOK(e, after, opened, e.step_id)
  <2>1. ASSUME NEW r \in e.registry
        PROVE  /\ after[r.param] # "not_available"
               /\ after[r.param] = "inflight" => r.param \in r.completes
               /\ opened[r.param] = {}
               /\ e.most_recent[r.param] >= e.step_id
    <3>1. e.most_recent[r.param] >= e.step_id  BY <1>7, <1>8, <2>1
    <3>2. CASE r \in w.registry
      <4>1. r.param \in Params \ params /\ r.param \notin ahead
        BY <1>5, <1>7, <3>2
      <4>2. after[r.param] = fetched[r.param] /\ opened[r.param] = act[r.param]
        BY <1>11, <4>1
      <4> QED  BY <1>3, <1>5, <3>1, <3>2, <4>2
    <3>3. ASSUME NEW p \in ahead, r = [param |-> p, completes |-> ahead]
          PROVE  /\ after[r.param] # "not_available"
                 /\ after[r.param] = "inflight" => r.param \in r.completes
                 /\ opened[r.param] = {}
      <4>1. r.param = p /\ r.completes = ahead /\ p \in Params /\ after[p] = "inflight"
        BY <1>7, <1>11, <3>3
      <4>2. fetched[p] = "not_available" /\ p \notin params /\ stat[p] = "not_available"
        BY <1>3, <1>7, <4>1
      <4>3. opened[p] = act[p] /\ act[p] = {}  BY <4>1, <4>2
      <4> QED  BY <4>1, <4>3
    <3>4. r \in w.registry \/ \E p \in ahead : r = [param |-> p, completes |-> ahead]
      BY <1>7, <1>8, <2>1
    <3> QED  BY <3>1, <3>2, <3>3, <3>4
  <2>2. e.registry # {} => e.trace_mode = "complete" /\ config.bucket # 0
    BY <1>6, <1>7, <1>8
  <2> QED  BY <2>1, <2>2 DEF RegisteredOK
<1>13. InFlightRegistered(e, after)
  <2> SUFFICES ASSUME NEW p \in Params, after[p] = "inflight"
               PROVE  \E r \in e.registry : r.param = p
    BY DEF InFlightRegistered, Registered
  <2>1. CASE p \in ahead
    <3>1. [param |-> p, completes |-> ahead] \in e.registry
      BY <1>7, <1>8, <2>1
    <3> QED  BY <3>1
  <2>2. CASE p \notin ahead
    <3>1. fetched[p] = "inflight"  BY <1>11, <2>2
    <3> QED  BY <1>3, <1>7, <1>8, <3>1 DEF InFlightRegistered, Registered
  <2> QED  BY <2>1, <2>2
<1> QED  BY <1>3, <1>7, <1>8, <1>9, <1>10, <1>12, <1>13

(* What is released is counted, and perhaps remembered. *)
Releasing(c, n, remembered) == [c EXCEPT !.n_available = n, !.cached = remembered]

(* A release changes n_available and cached alone. *)
LEMMA ReleasingFields ==
    ASSUME NEW k, NEW c, CoordinatorOK(c, k), NEW n, NEW remembered \in SUBSET Remembers,
           \A e \in remembered : e.params \subseteq ParamsOf(e.module)
    PROVE  LET d == Releasing(c, n, remembered)
           IN  /\ CoordinatorOK(d, k)
               /\ d.trace_mode = c.trace_mode /\ d.step_id = c.step_id
               /\ d.submodule_order = c.submodule_order
               /\ d.most_recent = c.most_recent /\ d.registry = c.registry
<1> DEFINE c1 == [c EXCEPT !.n_available = n]
           c2 == [c1 EXCEPT !.cached = remembered]
<1>1. Releasing(c, n, remembered) = c2  BY DEF Releasing
<1>2. IsCoordinator(c)  BY DEF CoordinatorOK
<1>3. /\ c2.trace_mode = c.trace_mode /\ c2.step_id = c.step_id
      /\ c2.submodule_order = c.submodule_order
      /\ c2.param_order = c.param_order /\ c2.param_queue = c.param_queue
      /\ c2.most_recent = c.most_recent /\ c2.registry = c.registry /\ c2.cached = remembered
  BY <1>2 DEF IsCoordinator, Coordinator
<1>4. IsCoordinator(c1)  BY <1>2, SetAvailable
<1> HIDE DEF c1
<1>5. IsCoordinator(c2)  BY <1>4, SetCached
<1> HIDE DEF c2
<1>6. CoordinatorOK(c2, k)
  BY <1>3, <1>5 DEF CoordinatorOK, CachedOK, CompleteOK, Recorded
<1> QED  BY <1>1, <1>3, <1>6

(* A release of all changes n_available alone. *)
LEMMA AvailableFields ==
    ASSUME NEW k, NEW c, CoordinatorOK(c, k), NEW n
    PROVE  LET d == [c EXCEPT !.n_available = n]
           IN  /\ CoordinatorOK(d, k)
               /\ d.trace_mode = c.trace_mode /\ d.step_id = c.step_id
               /\ d.submodule_order = c.submodule_order /\ d.registry = c.registry
<1> DEFINE d == [c EXCEPT !.n_available = n]
<1>1. IsCoordinator(c)  BY DEF CoordinatorOK
<1>2. /\ d.trace_mode = c.trace_mode /\ d.step_id = c.step_id
      /\ d.submodule_order = c.submodule_order
      /\ d.param_order = c.param_order /\ d.param_queue = c.param_queue
      /\ d.most_recent = c.most_recent /\ d.registry = c.registry /\ d.cached = c.cached
  BY <1>1 DEF IsCoordinator, Coordinator
<1>3. IsCoordinator(d)  BY <1>1, SetAvailable
<1> HIDE DEF d
<1>4. CoordinatorOK(d, k)
  BY <1>2, <1>3 DEF CoordinatorOK, CachedOK, CompleteOK, Recorded
<1> QED  BY <1>2, <1>4 DEF d

(* The fields that reset_step sets. *)
ModeAfter(c) == CASE c.trace_mode = "record" -> "complete"
                  [] c.trace_mode = "invalid" -> "record"
                  [] OTHER -> c.trace_mode
OrderAfter(c) == IF c.trace_mode = "record" THEN ParamTrace(c.submodule_order)
                 ELSE c.param_order
Reset(c) ==
    [c EXCEPT !.trace_mode = ModeAfter(c), !.step_id = 0, !.n_available = 0,
              !.param_order = OrderAfter(c), !.param_queue = OrderAfter(c),
              !.most_recent = [p \in Params |-> Never]]

(* reset_step, field by field. *)
LEMMA ResetFields ==
    ASSUME NEW c, IsCoordinator(c), NEW mode \in Modes, NEW order \in Seq(Uses),
           mode = ModeAfter(c), order = OrderAfter(c)
    PROVE  LET d == Reset(c)
           IN  /\ IsCoordinator(d)
               /\ d.trace_mode = mode /\ d.step_id = 0
               /\ d.submodule_order = c.submodule_order
               /\ d.param_order = order /\ d.param_queue = order
               /\ d.most_recent = [p \in Params |-> Never]
               /\ d.registry = c.registry /\ d.cached = c.cached
<1> DEFINE never == [p \in Params |-> Never]
           c1 == [c EXCEPT !.trace_mode = mode]
           c2 == [c1 EXCEPT !.step_id = 0]
           c3 == [c2 EXCEPT !.n_available = 0]
           c4 == [c3 EXCEPT !.param_order = order]
           c5 == [c4 EXCEPT !.param_queue = order]
           c6 == [c5 EXCEPT !.most_recent = never]
<1>1. Reset(c) = c6  BY DEF Reset
<1>2. never \in [Params -> Int] /\ 0 \in Nat  BY DEF Never
<1>3. never = [p \in Params |-> Never]  OBVIOUS
<1> HIDE DEF never
<1>4. /\ c6.trace_mode = mode /\ c6.step_id = 0
      /\ c6.submodule_order = c.submodule_order
      /\ c6.param_order = order /\ c6.param_queue = order /\ c6.most_recent = never
      /\ c6.registry = c.registry /\ c6.cached = c.cached
  BY DEF IsCoordinator, Coordinator
<1> HIDE DEF c1, c2, c3, c4, c5, c6
<1>5. IsCoordinator(c1)  BY SetTraceMode DEF c1
<1>6. IsCoordinator(c2)  BY <1>2, <1>5, SetStepId DEF c2
<1>7. IsCoordinator(c3)  BY <1>6, SetAvailable DEF c3
<1>8. IsCoordinator(c4)  BY <1>7, SetParamOrder DEF c4
<1>9. IsCoordinator(c5)  BY <1>8, SetParamQueue DEF c5
<1>10. IsCoordinator(c6)  BY <1>2, <1>9, SetMostRecent DEF c6
<1> QED  BY <1>1, <1>3, <1>4, <1>10

(* At the end of a pass, when nothing is registered. *)
LEMMA ResetIsIdle ==
    ASSUME model \in Models, NEW k \in Kinds, NEW c, CoordinatorOK(c, k),
           NEW p \in model.passes[k], InPass(c, p, Len(p)), c.registry = {}
    PROVE  CoordinatorOK(Reset(c), k) /\ Idle(Reset(c))
<1> DEFINE d == Reset(c)
           mode == ModeAfter(c)
           order == OrderAfter(c)
<1>1. /\ IsCoordinator(c) /\ c.trace_mode \in Modes /\ c.submodule_order \in Seq(Modules)
      /\ c.param_order \in Seq(Uses) /\ CachedOK(c)
  BY FieldTypes DEF CoordinatorOK
<1>2. mode \in Modes /\ mode # "invalid"  BY <1>1 DEF Modes, ModeAfter
<1>3. mode = "complete" => IsTrace(order, c.submodule_order)
  <2>1. CASE c.trace_mode = "record"
    BY <1>1, <2>1, ParamTraceIsTrace DEF OrderAfter
  <2>2. CASE c.trace_mode = "complete"
    BY <2>2 DEF OrderAfter, CoordinatorOK, CompleteOK
  <2>3. CASE c.trace_mode = "invalid"  BY <2>3 DEF ModeAfter
  <2> QED  BY <1>1, <2>1, <2>2, <2>3 DEF Modes
<1>4. order \in Seq(Uses)
  <2>1. CASE c.trace_mode = "record"
    <3>1. IsTrace(order, c.submodule_order)
      BY <1>1, <2>1, ParamTraceIsTrace DEF OrderAfter
    <3> QED  BY <3>1 DEF IsTrace, TraceOf
  <2>2. CASE c.trace_mode # "record"  BY <1>1, <2>2 DEF OrderAfter
  <2> QED  BY <2>1, <2>2
<1>5. /\ mode = "complete" => Recorded(c, k)
      /\ mode = "record" => c.submodule_order = << >>
  <2>1. CASE c.trace_mode = "record"
    <3>1. /\ Len(c.submodule_order) = Cardinality(StartsOf(p))
          /\ Follows(c.submodule_order, p, Len(p))
      BY <2>1 DEF InPass, StartsOf
    <3> QED  BY <2>1, <3>1 DEF Recorded, ModeAfter
  <2>2. CASE c.trace_mode = "complete"
    BY <2>2 DEF CoordinatorOK, CompleteOK, ModeAfter
  <2>3. CASE c.trace_mode = "invalid"  BY <2>3 DEF CoordinatorOK, ModeAfter
  <2> QED  BY <1>1, <2>1, <2>2, <2>3 DEF Modes
<1> HIDE DEF mode, order
<1>6. /\ IsCoordinator(d)
      /\ d.trace_mode = mode /\ d.step_id = 0
      /\ d.submodule_order = c.submodule_order
      /\ d.param_order = order /\ d.param_queue = order
      /\ d.most_recent = [x \in Params |-> Never]
      /\ d.registry = c.registry /\ d.cached = c.cached
  <2>1. mode = ModeAfter(c) /\ order = OrderAfter(c)  BY DEF mode, order
  <2> QED  BY <1>1, <1>2, <1>4, <2>1, ResetFields
<1> HIDE DEF d
<1>7. QueueAt(d.param_order, d.param_queue, 0, d.most_recent, d.step_id)
  BY <1>4, <1>6, QueueOfATrace
<1>8. d.trace_mode = "complete" => CompleteOK(d, k)
  BY <1>3, <1>5, <1>6, <1>7 DEF CompleteOK, Recorded
<1>9. CachedOK(d)  BY <1>1, <1>6 DEF CachedOK
<1> QED  BY <1>2, <1>5, <1>6, <1>8, <1>9 DEF CoordinatorOK, Idle, d

----------------------------------------------------------------------------
(* The passes of which NothingIsRaised speaks. *)
Regular == Stable \/ (config.bucket = 0 /\ NoneGoesOn)

(* After n hooks of pass p. *)
IsRest(rest, p, n) ==
    Len(rest) = Len(p) - n /\ \A x \in 1 .. Len(rest) : rest[x] = p[n + x]

(* The hook after a module finds the module active. *)
OpenOK(rest, act) ==
    \A j \in 1 .. Len(rest) : rest[j].hook = "post" =>
        \/ \E i \in 1 .. j - 1 :
              /\ rest[i] = [hook |-> "pre", module |-> rest[j].module]
              /\ \A l \in i .. j - 1 : rest[l] # rest[j]
        \/ /\ \A l \in 1 .. j - 1 : rest[l] # rest[j]
           /\ \A p \in ParamsOf(rest[j].module) : rest[j].module \in act[p]

PassOK(k, c, rest, stat, act) ==
    /\ \E p \in model.passes[k] : \E n \in 0 .. Len(p) : IsRest(rest, p, n) /\ InPass(c, p, n)
    /\ RegisteredOK(c, stat, act, c.step_id)
    /\ InFlightRegistered(c, stat)
    /\ OpenOK(rest, act)

RInv ==
    /\ errors = {} /\ config \in Configs
    /\ coordinators = [k \in Kinds |-> coordinators[k]]
    /\ \A k \in Kinds : CoordinatorOK(coordinators[k], k)
    /\ pass \in Kinds \cup {"none"}
    /\ \A k \in Kinds : k # pass => Idle(coordinators[k])
    /\ pass # "none" => PassOK(pass, coordinators[pass], todo, status, active)
    /\ pass = "none" => todo = << >> /\ \A p \in Params : status[p] # "inflight"

(* The definitions speak of the same model before and after a step. *)
LEMMA SameModel ==
    ASSUME model' = model, config' = config
    PROVE  /\ \A m : ParamsOf(m)' = ParamsOf(m)
           /\ \A c, k : CoordinatorOK(c, k)' <=> CoordinatorOK(c, k)
           /\ \A c, stat, act, step :
                  RegisteredOK(c, stat, act, step)' <=> RegisteredOK(c, stat, act, step)
           /\ \A k, c, rest, stat, act :
                  PassOK(k, c, rest, stat, act)' <=> PassOK(k, c, rest, stat, act)
<1>1. ASSUME NEW m PROVE ParamsOf(m)' = ParamsOf(m)  BY DEF ParamsOf
<1>2. ASSUME NEW t, NEW order, NEW n PROVE TraceOf(t, order, n)' <=> TraceOf(t, order, n)
  BY <1>1 DEF TraceOf
<1>3. ASSUME NEW c, NEW k PROVE CoordinatorOK(c, k)' <=> CoordinatorOK(c, k)
  BY <1>1, <1>2 DEF CoordinatorOK, CompleteOK, Recorded, CachedOK, IsTrace
<1>4. ASSUME NEW c, NEW stat, NEW act, NEW step
      PROVE  RegisteredOK(c, stat, act, step)' <=> RegisteredOK(c, stat, act, step)
  BY DEF RegisteredOK
<1>5. ASSUME NEW rest, NEW act PROVE OpenOK(rest, act)' <=> OpenOK(rest, act)
  BY <1>1 DEF OpenOK
<1>6. ASSUME NEW k, NEW c, NEW rest, NEW stat, NEW act
      PROVE  PassOK(k, c, rest, stat, act)' <=> PassOK(k, c, rest, stat, act)
  BY <1>4, <1>5 DEF PassOK
<1> QED  BY <1>1, <1>3, <1>4, <1>6

(* What is to be shown of a step. *)
LEMMA RInvNext ==
    ASSUME model' = model, config' = config, config \in Configs, errors' = {},
           coordinators' = [k \in Kinds |-> coordinators'[k]],
           \A k \in Kinds : CoordinatorOK(coordinators'[k], k),
           pass' \in Kinds \cup {"none"},
           \A k \in Kinds : k # pass' => Idle(coordinators'[k]),
           pass' # "none" => PassOK(pass', coordinators'[pass'], todo', status', active'),
           pass' = "none" => todo' = << >> /\ \A p \in Params : status'[p] # "inflight"
    PROVE  RInv'
<1>1. \A k \in Kinds : CoordinatorOK(coordinators[k], k)'  BY SameModel
<1>2. (pass # "none" => PassOK(pass, coordinators[pass], todo, status, active))'
  BY SameModel
<1> QED  BY <1>1, <1>2 DEF RInv

(* One hook of the pass is done. *)
LEMMA RestGoesOn ==
    ASSUME NEW p \in Seq(Hooks), NEW n \in 0 .. Len(p), NEW rest \in Seq(Hooks),
           IsRest(rest, p, n), rest # << >>
    PROVE  /\ n \in Nat /\ n < Len(p) /\ Head(rest) = p[n + 1] /\ n + 1 \in 0 .. Len(p)
           /\ Head(rest) = rest[1]
           /\ Tail(rest) \in Seq(Hooks) /\ Len(Tail(rest)) = Len(rest) - 1
           /\ \A x \in 1 .. Len(rest) - 1 : Tail(rest)[x] = rest[x + 1]
           /\ IsRest(Tail(rest), p, n + 1)
<1>1. /\ Len(rest) \in Nat \ {0} /\ Head(rest) = rest[1] /\ Len(Tail(rest)) = Len(rest) - 1
      /\ Tail(rest) \in Seq(Hooks)
      /\ \A x \in 1 .. Len(rest) - 1 : Tail(rest)[x] = rest[x + 1]
  OBVIOUS
<1>2. n \in Nat /\ n < Len(p) /\ Head(rest) = p[n + 1] /\ n + 1 \in 0 .. Len(p)
  BY <1>1 DEF IsRest
<1>3. ASSUME NEW x \in 1 .. Len(Tail(rest)) PROVE Tail(rest)[x] = p[n + 1 + x]
  <2>1. x + 1 \in 1 .. Len(rest) /\ n + (x + 1) = n + 1 + x /\ x \in 1 .. Len(rest) - 1
    BY <1>1, <1>2
  <2>2. rest[x + 1] = p[n + (x + 1)]  BY <2>1 DEF IsRest
  <2> QED  BY <1>1, <2>1, <2>2
<1>4. Len(Tail(rest)) = Len(p) - (n + 1)  BY <1>1, <1>2 DEF IsRest
<1>5. IsRest(Tail(rest), p, n + 1)  BY <1>3, <1>4 DEF IsRest
<1> QED  BY <1>1, <1>2, <1>5

(* A hook fires: what is open for the others stays so. *)
LEMMA OpenGoesOn ==
    ASSUME NEW rest \in Seq(Hooks), rest # << >>, OpenOK(rest, active),
           NEW tail \in Seq(Hooks), Len(tail) = Len(rest) - 1,
           \A x \in 1 .. Len(rest) - 1 : tail[x] = rest[x + 1],
           NEW next,
           rest[1].hook = "pre" =>
               \A p \in ParamsOf(rest[1].module) : rest[1].module \in next[p],
           \A m \in Modules : rest[1] # [hook |-> "post", module |-> m] =>
               \A p \in ParamsOf(m) : m \in active[p] => m \in next[p]
    PROVE  OpenOK(tail, next)
<1> SUFFICES ASSUME NEW j \in 1 .. Len(tail), tail[j].hook = "post"
             PROVE  \/ \E i \in 1 .. j - 1 :
                          /\ tail[i] = [hook |-> "pre", module |-> tail[j].module]
                          /\ \A l \in i .. j - 1 : tail[l] # tail[j]
                    \/ /\ \A l \in 1 .. j - 1 : tail[l] # tail[j]
                       /\ \A p \in ParamsOf(tail[j].module) : tail[j].module \in next[p]
  BY DEF OpenOK
<1>1. /\ j + 1 \in 1 .. Len(rest) /\ tail[j] = rest[j + 1] /\ (j + 1) - 1 = j /\ j \in Nat
      /\ Len(rest) \in Nat
      /\ \A l \in 1 .. j - 1 : tail[l] = rest[l + 1]
  OBVIOUS
<1>2. tail[j] \in Hooks /\ tail[j].module \in Modules
      /\ tail[j] = [hook |-> "post", module |-> tail[j].module]
  <2>1. tail[j] \in Hooks  OBVIOUS
  <2> QED  BY <2>1 DEF Hooks
<1>3. \/ \E i \in 1 .. j :
            /\ rest[i] = [hook |-> "pre", module |-> tail[j].module]
            /\ \A l \in i .. j : rest[l] # tail[j]
      \/ /\ \A l \in 1 .. j : rest[l] # tail[j]
         /\ \A p \in ParamsOf(tail[j].module) : tail[j].module \in active[p]
  <2> DEFINE k == j + 1
  <2>1. k \in 1 .. Len(rest) /\ rest[k].hook = "post"  BY <1>1
  <2> HIDE DEF k
  <2>2. \/ \E i \in 1 .. k - 1 :
              /\ rest[i] = [hook |-> "pre", module |-> rest[k].module]
              /\ \A l \in i .. k - 1 : rest[l] # rest[k]
        \/ /\ \A l \in 1 .. k - 1 : rest[l] # rest[k]
           /\ \A p \in ParamsOf(rest[k].module) : rest[k].module \in active[p]
    BY ONLY <2>1, OpenOK(rest, active) DEF OpenOK
  <2>3. rest[k] = tail[j] /\ k - 1 = j  BY <1>1 DEF k
  <2> QED  BY ONLY <2>2, <2>3
<1>4. ASSUME NEW i \in 1 .. j, i # 1,
             rest[i] = [hook |-> "pre", module |-> tail[j].module],
             \A l \in i .. j : rest[l] # tail[j]
      PROVE  \E x \in 1 .. j - 1 :
                 /\ tail[x] = [hook |-> "pre", module |-> tail[j].module]
                 /\ \A l \in x .. j - 1 : tail[l] # tail[j]
  <2>1. i - 1 \in 1 .. j - 1 /\ (i - 1) + 1 = i  BY <1>4
  <2>2. tail[i - 1] = rest[i]  BY <1>1, <2>1
  <2>3. ASSUME NEW l \in i - 1 .. j - 1 PROVE tail[l] # tail[j]
    <3>1. l + 1 \in i .. j /\ l \in 1 .. j - 1  BY <2>1
    <3> QED  BY <1>1, <1>4, <3>1
  <2> QED  BY <1>4, <2>1, <2>2, <2>3
<1>5. ASSUME \A l \in 1 .. j : rest[l] # tail[j]
      PROVE  \A l \in 1 .. j - 1 : tail[l] # tail[j]
  <2> SUFFICES ASSUME NEW l \in 1 .. j - 1 PROVE tail[l] # tail[j]  OBVIOUS
  <2>1. l + 1 \in 1 .. j  OBVIOUS
  <2> QED  BY <1>1, <1>5, <2>1
<1>6. ASSUME rest[1] = [hook |-> "pre", module |-> tail[j].module],
             \A l \in 1 .. j : rest[l] # tail[j]
      PROVE  /\ \A l \in 1 .. j - 1 : tail[l] # tail[j]
             /\ \A p \in ParamsOf(tail[j].module) : tail[j].module \in next[p]
  BY <1>5, <1>6
<1>7. ASSUME \A l \in 1 .. j : rest[l] # tail[j],
             \A p \in ParamsOf(tail[j].module) : tail[j].module \in active[p]
      PROVE  /\ \A l \in 1 .. j - 1 : tail[l] # tail[j]
             /\ \A p \in ParamsOf(tail[j].module) : tail[j].module \in next[p]
  <2>1. rest[1] # tail[j]  BY <1>1, <1>7
  <2> QED  BY <1>2, <1>5, <1>7, <2>1
<1>8. CASE \E i \in 1 .. j :
                 /\ rest[i] = [hook |-> "pre", module |-> tail[j].module]
                 /\ \A l \in i .. j : rest[l] # tail[j]
  <2>1. PICK i \in 1 .. j : /\ rest[i] = [hook |-> "pre", module |-> tail[j].module]
                           /\ \A l \in i .. j : rest[l] # tail[j]
    BY <1>8
  <2>2. CASE i = 1
    <3>1. rest[1] = [hook |-> "pre", module |-> tail[j].module]  BY <2>1, <2>2
    <3>2. \A l \in 1 .. j : rest[l] # tail[j]  BY <2>1, <2>2
    <3> QED  BY <1>6, <3>1, <3>2
  <2> QED  BY <1>4, <2>1, <2>2
<1>9. CASE /\ \A l \in 1 .. j : rest[l] # tail[j]
           /\ \A p \in ParamsOf(tail[j].module) : tail[j].module \in active[p]
  BY <1>7, <1>9
<1> QED  BY <1>3, <1>8, <1>9

(* A pass starts with each module closed. *)
LEMMA PassIsOpen ==
    ASSUME NEW p \in Seq(Hooks), HooksArePaired(p)
    PROVE  OpenOK(p, active)
<1>1. DOMAIN p = 1 .. Len(p)  OBVIOUS
<1> QED  BY ONLY <1>1, HooksArePaired(p) DEF HooksArePaired, OpenOK

(* Nothing is registered or traced at first. *)
LEMMA InitRInv ==
    ASSUME Init PROVE RInv
<1>1. IsCoordinator(NewCoordinator)
  <2>1. [p \in Params |-> Never] \in [Params -> Int]  BY DEF Never
  <2>2. << >> \in Seq(Uses) /\ << >> \in Seq(Modules)  OBVIOUS
  <2> DEFINE never == [p \in Params |-> Never]
             nil == << >>
  <2> HIDE DEF never, nil
  <2>3. NewCoordinator = [trace_mode |-> "record", step_id |-> 0, submodule_order |-> nil,
            param_order |-> nil, param_queue |-> nil, most_recent |-> never,
            n_available |-> 0, registry |-> {}, cached |-> {}]
    BY DEF NewCoordinator, never, nil
  <2> QED
    BY <2>1, <2>2, <2>3 DEF IsCoordinator, Coordinator, Modes, never, nil
<1>2. /\ NewCoordinator.trace_mode = "record" /\ NewCoordinator.step_id = 0
      /\ NewCoordinator.submodule_order = << >> /\ NewCoordinator.registry = {}
      /\ NewCoordinator.cached = {}
  BY DEF NewCoordinator
<1>3. ASSUME NEW k \in Kinds PROVE CoordinatorOK(NewCoordinator, k) /\ Idle(NewCoordinator)
  BY <1>1, <1>2 DEF CoordinatorOK, CachedOK, Idle
<1>4. /\ errors = {} /\ config \in Configs
      /\ coordinators = [k \in Kinds |-> NewCoordinator]
      /\ pass = "none" /\ todo = << >>
      /\ \A p \in Params : status[p] # "inflight"
  BY DEF Init
<1> HIDE DEF NewCoordinator
<1>5. \A k \in Kinds : coordinators[k] = NewCoordinator  BY <1>4
<1>6. coordinators = [k \in Kinds |-> coordinators[k]]  BY <1>4
<1> QED  BY <1>3, <1>4, <1>5, <1>6 DEF RInv

(* A pass begins where its coordinator was left. *)
LEMMA BeginKeepsRInv ==
    ASSUME IInv, RInv, NEW kind \in Kinds, BeginPass(kind)
    PROVE  RInv'
<1> DEFINE c == coordinators[kind]
           p == todo'
<1>1. /\ pass = "none" /\ pass' = kind /\ p \in model.passes[kind]
      /\ UNCHANGED <<model, config, status, active, coordinators, due, errors>>
  BY DEF BeginPass
<1>2. p \in Seq(Hooks) /\ HooksArePaired(p)
  BY <1>1, CoordinatorAssumption DEF IInv
<1>3. Idle(c) /\ CoordinatorOK(c, kind)  BY <1>1 DEF RInv, Kinds
<1> HIDE DEF c, p
<1>4. IsRest(p, p, 0) /\ 0 \in 0 .. Len(p)  BY <1>2 DEF IsRest
<1>5. InPass(c, p, 0)  BY <1>3, NothingStarted DEF InPass, Idle
<1>6. RegisteredOK(c, status, active, c.step_id)
  BY <1>3 DEF RegisteredOK, Idle
<1>7. InFlightRegistered(c, status)  BY <1>1 DEF InFlightRegistered, RInv
<1>8. OpenOK(p, active)  BY <1>2, PassIsOpen
<1>9. PassOK(kind, c, p, status, active)
  BY <1>1, <1>4, <1>5, <1>6, <1>7, <1>8 DEF PassOK
<1>10. PassOK(kind, coordinators[kind], todo', status, active)
  BY <1>9 DEF c, p
<1>11. /\ errors' = {} /\ config \in Configs /\ model' = model /\ config' = config
       /\ coordinators' = [k \in Kinds |-> coordinators'[k]]
       /\ \A k \in Kinds : CoordinatorOK(coordinators'[k], k)
       /\ \A k \in Kinds : Idle(coordinators'[k])
  BY <1>1 DEF RInv, Kinds
<1>12. pass' \in Kinds \cup {"none"} /\ pass' # "none"  BY <1>1 DEF Kinds
<1>13. PassOK(pass', coordinators'[pass'], todo', status', active')
  BY <1>1, <1>10
<1> QED  BY <1>11, <1>12, <1>13, RInvNext

(* The hook before a module: prologue, recording, gathering, prefetching. *)
LEMMA PreKeepsRInv ==
    ASSUME IInv, RInv, Regular, PreSubModule
    PROVE  RInv'
<1> DEFINE c0 == coordinators[pass]
           m == Head(todo).module
           params == ParamsOf(m)
           c == Recording(c0, m)
           w == Waited(c, params, status)
           fetched == Fetched(c, params, status)
           ahead == Ahead(c, params, status)
           after == SetStatus(fetched, ahead, "inflight")
           opened == [p \in Params |-> IF p \in params THEN active[p] \cup {m} ELSE active[p]]
           e == StepOn(Used(c, params, status))
<1>1. /\ AtHook("pre")
      /\ coordinators' = [coordinators EXCEPT ![pass] = e]
      /\ status' = after /\ active' = opened /\ todo' = Tail(todo)
      /\ UNCHANGED <<model, config, pass, passes, due>>
  BY DEF PreSubModule, Recording, Waited, Gathering, Fetched, Ahead, Used, StepOn
<1>2. errors' =
          {x \in {"index out of range"} :
              c0.trace_mode = "complete" /\ c0.step_id >= Len(c0.submodule_order)}
          \cup {x \in {"already in registry"} :
              NotAvailable(params, status) \cap Registered(c) # {} \/ ahead \cap Registered(w) # {}}
          \cup {x \in {"not available"} : \E p \in params : fetched[p] # "available"}
          \cup {x \in {"tracing error"} :
              w.trace_mode = "complete"
              /\ ParamsIn(Discarded(w, params)) # NotAlreadyFetched(w, params)}
  BY DEF PreSubModule, Recording, Waited, Gathering, Fetched, Ahead
<1>3. /\ pass \in Kinds /\ pass # "none" /\ todo # << >> /\ todo \in Seq(Hooks)
      /\ Head(todo).hook = "pre" /\ Head(todo) \in Hooks /\ model \in Models
      /\ config \in Configs /\ config.bucket \in Nat
  <2>1. /\ pass # "none" /\ todo # << >> /\ Head(todo).hook = "pre"
    BY <1>1 DEF AtHook
  <2>2. todo \in Seq(Hooks) /\ model \in Models /\ config \in Configs /\ pass \in Kinds
    BY <2>1 DEF IInv, RInv
  <2> QED  BY <2>1, <2>2, CoordinatorAssumption
<1>4. /\ CoordinatorOK(c0, pass) /\ PassOK(pass, c0, todo, status, active)
  BY <1>3 DEF RInv
<1>5. /\ m \in Modules /\ params \in SUBSET Params
  <2>1. Head(todo).module \in Modules  BY <1>3 DEF Hooks
  <2>2. model.params \in [Modules -> SUBSET Params]
    BY <1>3, CoordinatorAssumption
  <2> QED  BY <2>1, <2>2 DEF ParamsOf
<1>6. PICK p \in model.passes[pass] : \E n \in 0 .. Len(p) : IsRest(todo, p, n) /\ InPass(c0, p, n)
  BY <1>4 DEF PassOK
<1>7. PICK n \in 0 .. Len(p) : IsRest(todo, p, n) /\ InPass(c0, p, n)  BY <1>6
<1>8. p \in Seq(Hooks)  BY <1>3, <1>6, CoordinatorAssumption
<1>9. /\ n \in Nat /\ n < Len(p) /\ Head(todo) = p[n + 1] /\ n + 1 \in 0 .. Len(p)
      /\ Head(todo) = todo[1]
      /\ Tail(todo) \in Seq(Hooks) /\ Len(Tail(todo)) = Len(todo) - 1
      /\ \A x \in 1 .. Len(todo) - 1 : Tail(todo)[x] = todo[x + 1]
      /\ IsRest(Tail(todo), p, n + 1)
  BY <1>3, <1>7, <1>8, RestGoesOn
<1>10. NoneGoesOn  BY <1>3, StableDoesNotGoOn DEF Regular
<1>11. p[n + 1].hook = "pre" /\ p[n + 1].module = m  BY <1>3, <1>9
<1> HIDE DEF c0, m, params, c, w, fetched, ahead, after, opened, e
<1>12. c0.trace_mode = "complete" => c0.step_id < Len(c0.submodule_order)
  BY <1>3, <1>4, <1>5, <1>6, <1>7, <1>9, <1>10, <1>11, ModuleIsTraced
<1>13. /\ CoordinatorOK(c, pass)
       /\ c.registry = c0.registry /\ c.step_id = c0.step_id
       /\ c.trace_mode # "invalid" =>
              /\ c.step_id + 1 = Cardinality(Starts(p, n + 1))
              /\ Follows(c.submodule_order, p, n + 1)
       /\ c.trace_mode = "record" => Len(c.submodule_order) = c.step_id + 1
       /\ c.trace_mode = "complete" =>
              /\ c.most_recent = c0.most_recent
              /\ c.step_id < Len(c.submodule_order)
              /\ c.submodule_order[c.step_id + 1] = m
       /\ Stable /\ c0.trace_mode = "complete" => c.trace_mode = "complete"
  BY <1>3, <1>4, <1>5, <1>6, <1>7, <1>9, <1>10, <1>11, RecordingFields DEF c
<1>14. RegisteredOK(c, status, active, c.step_id)
  <2>1. RegisteredOK(c0, status, active, c0.step_id)  BY <1>4 DEF PassOK
  <2>2. c.registry # {} => c.trace_mode = "complete" /\ config.bucket # 0
    <3>1. ASSUME c.registry # {} PROVE c0.trace_mode = "complete" /\ config.bucket # 0
      BY <1>13, <2>1, <3>1 DEF RegisteredOK
    <3> QED  BY <1>13, <3>1 DEF Regular
  <2> QED  BY <1>13, <2>1, <2>2 DEF RegisteredOK
<1>15. InFlightRegistered(c, status)
  BY <1>4, <1>13 DEF PassOK, InFlightRegistered, Registered
<1>16. status \in [Params -> Statuses] /\ active \in [Params -> SUBSET Modules]
       /\ \A x \in Params : active[x] # {} => status[x] = "available"
  BY DEF IInv, ActiveModulesHaveTheirParams, Running, RInv
<1>17. /\ NotAvailable(params, status) \cap Registered(c) = {}
       /\ \A x \in params : fetched[x] = "available"
       /\ ahead \cap Registered(w) = {}
       /\ w.trace_mode = "complete" =>
              ParamsIn(Discarded(w, params)) = NotAlreadyFetched(w, params)
       /\ CoordinatorOK(e, pass)
       /\ e.trace_mode = c.trace_mode /\ e.step_id = c.step_id + 1
       /\ e.submodule_order = c.submodule_order
       /\ RegisteredOK(e, after, opened, e.step_id)
       /\ InFlightRegistered(e, after)
  <2>1. /\ params = ParamsOf(m) /\ w = Waited(c, params, status)
        /\ fetched = Fetched(c, params, status) /\ ahead = Ahead(c, params, status)
        /\ after = SetStatus(fetched, ahead, "inflight")
        /\ opened = [x \in Params |-> IF x \in params THEN active[x] \cup {m} ELSE active[x]]
        /\ e = StepOn(Used(c, params, status))
    BY DEF params, w, fetched, ahead, after, opened, e
  <2>2. c.trace_mode = "complete" =>
            c.step_id < Len(c.submodule_order) /\ c.submodule_order[c.step_id + 1] = m
    BY <1>13
  <2>3. CoordinatorOK(c, pass)  BY <1>13
  <2> QED
    BY ONLY <1>3, <1>5, <1>14, <1>15, <1>16, <2>1, <2>2, <2>3, FetchModule
<1>18. errors' = {}
  <2>1. c0.step_id \in Nat /\ Len(c0.submodule_order) \in Nat
    <3>1. IsCoordinator(c0)  BY <1>4 DEF CoordinatorOK
    <3>2. c0.step_id \in Nat /\ c0.submodule_order \in Seq(Modules)
      BY <3>1, FieldTypes
    <3> QED  BY <3>2
  <2>2. ~(c0.trace_mode = "complete" /\ c0.step_id >= Len(c0.submodule_order))
    BY <1>12, <2>1
  <2> QED  BY <1>2, <1>17, <2>2
<1>19. InPass(e, p, n + 1)  BY <1>13, <1>17 DEF InPass
<1>20. OpenOK(Tail(todo), opened)
  <2>1. OpenOK(todo, active)  BY <1>4 DEF PassOK
  <2>2. todo[1].hook = "pre" =>
            \A x \in ParamsOf(todo[1].module) : todo[1].module \in opened[x]
    BY <1>5, <1>9 DEF opened, m, params
  <2>3. \A k \in Modules : todo[1] # [hook |-> "post", module |-> k] =>
            \A x \in ParamsOf(k) : k \in active[x] => k \in opened[x]
    <3> SUFFICES ASSUME NEW k \in Modules, NEW x \in ParamsOf(k), k \in active[x]
                 PROVE  k \in opened[x]
      OBVIOUS
    <3>1. x \in Params
      <4>1. model.params \in [Modules -> SUBSET Params]
        BY <1>3, CoordinatorAssumption
      <4> QED  BY <4>1 DEF ParamsOf
    <3> QED  BY <3>1 DEF opened
  <2> QED  BY <1>3, <1>9, <2>1, <2>2, <2>3, OpenGoesOn
<1>21. PassOK(pass, e, Tail(todo), after, opened)
  BY <1>6, <1>9, <1>17, <1>19, <1>20 DEF PassOK
<1>22. /\ coordinators' = [k \in Kinds |-> coordinators'[k]]
       /\ coordinators'[pass] = e
       /\ \A k \in Kinds : k # pass => coordinators'[k] = coordinators[k]
  <2>1. coordinators = [k \in Kinds |-> coordinators[k]]  BY DEF RInv
  <2> QED  BY <1>1, <1>3, <2>1
<1>23. \A k \in Kinds : /\ CoordinatorOK(coordinators'[k], k)
                        /\ k # pass => Idle(coordinators'[k])
  BY <1>17, <1>22 DEF RInv
<1>24. PassOK(pass', coordinators'[pass'], todo', status', active')
  BY <1>1, <1>21, <1>22
<1>25. /\ model' = model /\ config' = config /\ pass' = pass  BY <1>1
<1> QED  BY <1>3, <1>18, <1>22, <1>23, <1>24, <1>25, RInvNext

(* The hook after a module releases nothing that is on its way. *)
LEMMA PostKeepsRInv ==
    ASSUME IInv, RInv, PostSubModule
    PROVE  RInv'
<1> DEFINE c == coordinators[pass]
           m == Head(todo).module
           inactive == [p \in Params |-> active[p] \ (IF p \in ParamsOf(m) THEN {m} ELSE {})]
           remembered == IF c.trace_mode = "complete" THEN c.cached \cup
                             {[module |-> m, step_id |-> c.step_id,
                               params |-> CachedParamsToRelease(c, m)]} ELSE c.cached
           released == Releasable(inactive, IF c.trace_mode = "complete"
                                            THEN CachedParamsToRelease(c, m) ELSE ParamsOf(m))
           after == SetStatus(status, released, "not_available")
           e == Releasing(c, c.n_available - Numel(released), remembered)
<1>1. /\ AtHook("post")
      /\ coordinators' = [coordinators EXCEPT ![pass] = e]
      /\ status' = after /\ active' = inactive /\ todo' = Tail(todo)
      /\ UNCHANGED <<model, config, pass, passes, due, errors>>
  BY DEF PostSubModule, Releasing
<1>2. /\ pass \in Kinds /\ pass # "none" /\ todo # << >> /\ todo \in Seq(Hooks)
      /\ Head(todo).hook = "post" /\ Head(todo) \in Hooks /\ model \in Models
      /\ errors = {} /\ config \in Configs
  <2>1. /\ pass # "none" /\ todo # << >> /\ Head(todo).hook = "post"
    BY <1>1 DEF AtHook
  <2>2. /\ todo \in Seq(Hooks) /\ model \in Models /\ pass \in Kinds
        /\ errors = {} /\ config \in Configs
    BY <2>1 DEF IInv, RInv
  <2> QED  BY <2>1, <2>2
<1>3. /\ CoordinatorOK(c, pass) /\ PassOK(pass, c, todo, status, active)
  BY <1>2 DEF RInv
<1>4. /\ m \in Modules /\ ParamsOf(m) \in SUBSET Params
  <2>1. Head(todo).module \in Modules  BY <1>2 DEF Hooks
  <2>2. model.params \in [Modules -> SUBSET Params]
    BY <1>2, CoordinatorAssumption
  <2> QED  BY <2>1, <2>2 DEF ParamsOf
<1>5. PICK p \in model.passes[pass] : \E n \in 0 .. Len(p) : IsRest(todo, p, n) /\ InPass(c, p, n)
  BY <1>3 DEF PassOK
<1>6. PICK n \in 0 .. Len(p) : IsRest(todo, p, n) /\ InPass(c, p, n)  BY <1>5
<1>7. p \in Seq(Hooks)  BY <1>2, <1>5, CoordinatorAssumption
<1>8. /\ n \in Nat /\ n < Len(p) /\ Head(todo) = p[n + 1] /\ n + 1 \in 0 .. Len(p)
      /\ Head(todo) = todo[1]
      /\ Tail(todo) \in Seq(Hooks) /\ Len(Tail(todo)) = Len(todo) - 1
      /\ \A x \in 1 .. Len(todo) - 1 : Tail(todo)[x] = todo[x + 1]
      /\ IsRest(Tail(todo), p, n + 1)
  BY <1>2, <1>6, <1>7, RestGoesOn
<1>9. Starts(p, n + 1) = Starts(p, n)  BY <1>2, <1>8, NextStart
<1>10. CachedParamsToRelease(c, m) \subseteq ParamsOf(m)
  <2>1. CASE Remembered(c, m) # {}
    <3> DEFINE r == CHOOSE r \in Remembered(c, m) : TRUE
    <3>1. r \in Remembered(c, m) /\ CachedParamsToRelease(c, m) = r.params
      BY <2>1 DEF CachedParamsToRelease
    <3> QED  BY <1>3, <3>1 DEF CoordinatorOK, CachedOK, Remembered
  <2>2. CASE Remembered(c, m) = {}
    BY <2>2 DEF CachedParamsToRelease, ParamsToRelease
  <2> QED  BY <2>1, <2>2
<1>11. released \subseteq ParamsOf(m) /\ \A x \in released : inactive[x] = {}
  BY <1>10 DEF Releasable
<1>12. /\ IsCoordinator(c) /\ c.cached \subseteq Remembers /\ c.step_id \in Nat
       /\ CachedOK(c)
  BY <1>3, FieldTypes DEF CoordinatorOK
<1>13. /\ remembered \in SUBSET Remembers
       /\ \A x \in remembered : x.params \subseteq ParamsOf(x.module)
  <2> DEFINE new == [module |-> m, step_id |-> c.step_id,
                     params |-> CachedParamsToRelease(c, m)]
  <2>1. new \in Remembers /\ new.params \subseteq ParamsOf(new.module)
    BY <1>4, <1>10, <1>12 DEF Remembers
  <2>2. remembered = IF c.trace_mode = "complete" THEN c.cached \cup {new} ELSE c.cached
    OBVIOUS
  <2> HIDE DEF new, remembered
  <2> QED  BY <1>12, <2>1, <2>2 DEF CachedOK
<1> HIDE DEF remembered
<1>14. /\ CoordinatorOK(e, pass)
       /\ e.trace_mode = c.trace_mode /\ e.step_id = c.step_id
       /\ e.submodule_order = c.submodule_order
       /\ e.most_recent = c.most_recent /\ e.registry = c.registry
  <2> HIDE DEF c, released
  <2> QED  BY <1>3, <1>13, ReleasingFields
<1> HIDE DEF e, released
<1>15. \A x \in Params : after[x] = IF x \in released THEN "not_available" ELSE status[x]
  BY SetStatusType DEF IInv, Statuses
<1>16. \A x \in ParamsOf(m) : m \in active[x]
  <2>1. /\ OpenOK(todo, active) /\ Len(todo) \in Nat /\ 1 \in 1 .. Len(todo)
        /\ todo[1].hook = "post" /\ todo[1].module = m
    BY <1>2, <1>3, <1>8 DEF PassOK
  <2>2. ~ \E i \in 1 .. 1 - 1 : TRUE  OBVIOUS
  <2> QED  BY <2>1, <2>2 DEF OpenOK
<1>17. RegisteredOK(e, after, inactive, e.step_id)
  <2>1. RegisteredOK(c, status, active, c.step_id)  BY <1>3 DEF PassOK
  <2>2. ASSUME NEW r \in c.registry
        PROVE  r.param \in Params /\ r.param \notin released
    <3>1. r.param \in Params  BY <1>12, FieldTypes DEF InFlight
    <3>2. active[r.param] = {}  BY <2>1 DEF RegisteredOK
    <3> QED  BY <1>11, <1>16, <3>1, <3>2
  <2>3. ASSUME NEW r \in e.registry
        PROVE  /\ after[r.param] # "not_available"
               /\ after[r.param] = "inflight" => r.param \in r.completes
               /\ inactive[r.param] = {}
               /\ e.most_recent[r.param] >= e.step_id
    <3>1. r \in c.registry  BY <1>14
    <3>2. /\ status[r.param] # "not_available"
          /\ status[r.param] = "inflight" => r.param \in r.completes
          /\ active[r.param] = {} /\ c.most_recent[r.param] >= c.step_id
      BY <2>1, <3>1 DEF RegisteredOK
    <3>3. after[r.param] = status[r.param]  BY <1>15, <2>2, <3>1
    <3> QED  BY <1>14, <2>2, <3>1, <3>2, <3>3
  <2>4. e.registry # {} => e.trace_mode = "complete" /\ config.bucket # 0
    BY <1>14, <2>1 DEF RegisteredOK
  <2> QED  BY <2>3, <2>4 DEF RegisteredOK
<1>18. InFlightRegistered(e, after)
  <2>1. InFlightRegistered(c, status)  BY <1>3 DEF PassOK
  <2> QED  BY <1>14, <1>15, <2>1 DEF InFlightRegistered, Registered
<1>19. InPass(e, p, n + 1)  BY <1>6, <1>9, <1>14 DEF InPass, Follows
<1>20. OpenOK(Tail(todo), inactive)
  <2>1. OpenOK(todo, active)  BY <1>3 DEF PassOK
  <2>2. todo[1].hook = "pre" =>
            \A x \in ParamsOf(todo[1].module) : todo[1].module \in inactive[x]
    BY <1>2, <1>8
  <2>3. \A k \in Modules : todo[1] # [hook |-> "post", module |-> k] =>
            \A x \in ParamsOf(k) : k \in active[x] => k \in inactive[x]
    <3> SUFFICES ASSUME NEW k \in Modules, todo[1] # [hook |-> "post", module |-> k],
                        NEW x \in ParamsOf(k), k \in active[x]
                 PROVE  k \in inactive[x]
      OBVIOUS
    <3>1. x \in Params
      <4>1. model.params \in [Modules -> SUBSET Params]
        BY <1>2, CoordinatorAssumption
      <4> QED  BY <4>1 DEF ParamsOf
    <3>2. k # m
      <4>1. Head(todo) = [hook |-> "post", module |-> m]  BY <1>2 DEF Hooks
      <4> QED  BY <1>8, <4>1
    <3> QED  BY <3>1, <3>2
  <2> HIDE DEF inactive
  <2> QED  BY <1>2, <1>8, <2>1, <2>2, <2>3, OpenGoesOn
<1>21. PassOK(pass, e, Tail(todo), after, inactive)
  BY <1>5, <1>8, <1>17, <1>18, <1>19, <1>20 DEF PassOK
<1>22. /\ coordinators' = [k \in Kinds |-> coordinators'[k]]
       /\ coordinators'[pass] = e
       /\ \A k \in Kinds : k # pass => coordinators'[k] = coordinators[k]
  <2>1. coordinators = [k \in Kinds |-> coordinators[k]]  BY DEF RInv
  <2> QED  BY <1>1, <1>2, <2>1
<1>23. \A k \in Kinds : /\ CoordinatorOK(coordinators'[k], k)
                        /\ k # pass => Idle(coordinators'[k])
  BY <1>14, <1>22 DEF RInv
<1>24. PassOK(pass', coordinators'[pass'], todo', status', active')
  BY <1>1, <1>21, <1>22
<1>25. /\ model' = model /\ config' = config /\ pass' = pass /\ errors' = {}
  BY <1>1, <1>2
<1> QED  BY <1>2, <1>22, <1>23, <1>24, <1>25, RInvNext

(* At the end of the pass no registered parameter is needed any more. *)
LEMMA ResetKeepsRInv ==
    ASSUME IInv, RInv, Regular, ResetStep
    PROVE  RInv'
<1> DEFINE c == coordinators[pass]
           e == Reset(c)
<1>1. /\ pass # "none" /\ todo = << >> /\ pass' = "none"
      /\ errors' = {x \in {"inflight at reset"} : c.registry # {}}
      /\ coordinators' = [coordinators EXCEPT ![pass] = e]
      /\ UNCHANGED <<model, config, status, active, todo, passes>>
  BY DEF ResetStep, Reset, ModeAfter, OrderAfter
<1>2. /\ pass \in Kinds /\ model \in Models /\ config \in Configs
      /\ CoordinatorOK(c, pass) /\ PassOK(pass, c, todo, status, active)
  BY <1>1 DEF RInv, IInv
<1>3. PICK p \in model.passes[pass] : \E n \in 0 .. Len(p) : IsRest(todo, p, n) /\ InPass(c, p, n)
  BY <1>2 DEF PassOK
<1>4. PICK n \in 0 .. Len(p) : IsRest(todo, p, n) /\ InPass(c, p, n)  BY <1>3
<1>5. p \in Seq(Hooks)  BY <1>2, <1>3, CoordinatorAssumption
<1> HIDE DEF c, e
<1>6. n = Len(p)
  <2>1. Len(todo) = 0  BY <1>1
  <2>2. Len(todo) = Len(p) - n  BY <1>4 DEF IsRest
  <2>3. Len(p) \in Nat  BY <1>5
  <2> QED  BY ONLY <2>1, <2>2, <2>3, n \in 0 .. Len(p)
<1>7. InPass(c, p, Len(p))  BY <1>4, <1>6
<1>8. IsCoordinator(c)  BY <1>2 DEF CoordinatorOK
<1>9. c.registry = {}
  <2> SUFFICES ASSUME NEW r \in c.registry PROVE FALSE  OBVIOUS
  <2>1. /\ c.trace_mode = "complete" /\ c.most_recent[r.param] >= c.step_id
    BY <1>2 DEF PassOK, RegisteredOK
  <2>2. /\ r.param \in Params /\ c.most_recent[r.param] \in Int /\ c.step_id \in Nat
        /\ c.submodule_order \in Seq(Modules)
    BY <1>8, FieldTypes DEF InFlight
  <2>3. PICK old \in model.passes[pass] :
            /\ Len(c.submodule_order) = Cardinality(StartsOf(old))
            /\ Follows(c.submodule_order, old, Len(old))
    BY <1>2, <2>1 DEF CoordinatorOK, CompleteOK, Recorded
  <2>4. PICK q : QueueAt(c.param_order, c.param_queue, q, c.most_recent, c.step_id)
    BY <1>2, <2>1 DEF CoordinatorOK, CompleteOK
  <2>5. c.most_recent[r.param] # Never  BY <2>1, <2>2 DEF Never
  <2>6. PICK x \in 1 .. q : c.most_recent[r.param] = c.param_order[x].last_used
    BY <2>2, <2>4, <2>5 DEF QueueAt
  <2>7. q \in 0 .. Len(c.param_order) /\ Len(c.param_order) \in Nat
    <3>1. c.param_order \in Seq(Uses)  BY <1>8, FieldTypes
    <3> QED  BY <2>4, <3>1 DEF QueueAt
  <2>8. x \in 1 .. Len(c.param_order)  BY <2>7
  <2>9. c.param_order[x].last_used < Len(c.submodule_order)
    BY <1>2, <2>1, <2>8 DEF CoordinatorOK, CompleteOK, IsTrace, TraceOf
  <2>10. c.step_id < Len(c.submodule_order)
    <3>1. c.param_order[x].last_used \in Nat /\ Len(c.submodule_order) \in Nat
      <4>1. c.param_order \in Seq(Uses)  BY <1>8, FieldTypes
      <4>2. c.param_order[x] \in Uses  BY <2>8, <4>1
      <4> QED  BY <2>2, <4>2 DEF Uses
    <3> QED  BY <2>1, <2>2, <2>6, <2>9, <3>1
  <2>11. Stable  BY <1>2 DEF PassOK, RegisteredOK, Regular
  <2>12. old = p  BY <1>2, <1>3, <2>11, StableIsOnePass
  <2>13. c.step_id = Len(c.submodule_order)
    BY <1>7, <2>1, <2>3, <2>12 DEF InPass, StartsOf
  <2> QED  BY <2>2, <2>10, <2>13
<1>10. CoordinatorOK(e, pass) /\ Idle(e)
  BY <1>2, <1>3, <1>7, <1>9, ResetIsIdle DEF e
<1>11. \A x \in Params : status[x] # "inflight"
  BY <1>2, <1>9 DEF PassOK, InFlightRegistered, Registered
<1>12. /\ coordinators' = [k \in Kinds |-> coordinators'[k]]
       /\ coordinators'[pass] = e
       /\ \A k \in Kinds : k # pass => coordinators'[k] = coordinators[k]
  <2>1. coordinators = [k \in Kinds |-> coordinators[k]]  BY DEF RInv
  <2> QED  BY <1>1, <1>2, <2>1
<1>13. \A k \in Kinds : CoordinatorOK(coordinators'[k], k) /\ Idle(coordinators'[k])
  BY <1>10, <1>12 DEF RInv
<1>14. /\ model' = model /\ config' = config /\ errors' = {} /\ pass' = "none"
       /\ todo' = << >> /\ \A x \in Params : status'[x] # "inflight"
  BY <1>1, <1>9, <1>11
<1> QED  BY <1>2, <1>12, <1>13, <1>14, RInvNext

(* Between passes nothing is on its way, so all can be released. *)
LEMMA PartitionAllKeepsRInv ==
    ASSUME IInv, RInv, NEW kind \in Kinds, NEW gather, PartitionAll(kind, gather)
    PROVE  RInv'
<1> DEFINE c == coordinators[kind]
           n == c.n_available - Numel(Releasable([p \in Params |-> {}], Params))
           e == [c EXCEPT !.n_available = n]
<1>1. /\ pass = "none"
      /\ errors' = {x \in {"inflight at release"} :
                        c.registry # {} \/ \E p \in Params : status[p] = "inflight"}
      /\ coordinators' = [coordinators EXCEPT ![kind] = e]
      /\ status' = [p \in Params |-> IF gather /\ p \in model.persistent
                                     THEN "available" ELSE "not_available"]
      /\ UNCHANGED <<model, config, pass, todo, passes>>
  <2>1. coordinators' = [coordinators EXCEPT ![kind].n_available =
                             @ - Numel(Releasable([p \in Params |-> {}], Params))]
    BY DEF PartitionAll
  <2>2. coordinators' = [coordinators EXCEPT ![kind] = e]
    <3> DEFINE r == Numel(Releasable([p \in Params |-> {}], Params))
    <3>1. coordinators' = [coordinators EXCEPT ![kind].n_available = @ - r]
      BY <2>1
    <3>2. e = [c EXCEPT !.n_available = c.n_available - r]  OBVIOUS
    <3> HIDE DEF r, e
    <3> QED  BY <3>1, <3>2
  <2> QED  BY <2>2 DEF PartitionAll
<1>2. CoordinatorOK(c, kind) /\ Idle(c) /\ config \in Configs /\ todo = << >>
      /\ \A p \in Params : status[p] # "inflight"
  BY <1>1 DEF RInv, Kinds
<1>3. /\ CoordinatorOK(e, kind)
      /\ e.trace_mode = c.trace_mode /\ e.step_id = c.step_id
      /\ e.submodule_order = c.submodule_order /\ e.registry = c.registry
  <2> HIDE DEF n, c
  <2> QED  BY <1>2, AvailableFields
<1> HIDE DEF e, n, c
<1>4. Idle(e)  BY <1>2, <1>3 DEF Idle
<1>5. /\ coordinators' = [k \in Kinds |-> coordinators'[k]]
      /\ coordinators'[kind] = e
      /\ \A k \in Kinds : k # kind => coordinators'[k] = coordinators[k]
  <2>1. coordinators = [k \in Kinds |-> coordinators[k]]  BY DEF RInv
  <2> QED  BY <1>1, <2>1
<1>6. \A k \in Kinds : CoordinatorOK(coordinators'[k], k) /\ Idle(coordinators'[k])
  <2>1. \A k \in Kinds : CoordinatorOK(coordinators[k], k) /\ Idle(coordinators[k])
    BY <1>1 DEF RInv, Kinds
  <2> QED  BY <1>3, <1>4, <1>5, <2>1
<1>7. /\ model' = model /\ config' = config /\ errors' = {} /\ pass' = "none"
      /\ todo' = << >> /\ \A p \in Params : status'[p] # "inflight"
  <2>1. c.registry = {}  BY <1>2 DEF Idle
  <2>2. errors' = {}  BY <1>1, <1>2, <2>1
  <2>3. \A p \in Params : status'[p] # "inflight"
    <3>1. status' = [p \in Params |-> IF gather /\ p \in model.persistent
                                      THEN "available" ELSE "not_available"]
      BY <1>1
    <3> QED  BY <3>1
  <2>4. UNCHANGED <<model, config, pass, todo>> /\ pass = "none"  BY <1>1
  <2> QED  BY <1>2, <2>2, <2>3, <2>4
<1> QED  BY <1>2, <1>5, <1>6, <1>7, RInvNext

LEMMA SameStateKeepsRInv ==
    ASSUME RInv, UNCHANGED vars
    PROVE  RInv'
<1>1. /\ model' = model /\ config' = config /\ errors' = errors /\ pass' = pass
      /\ todo' = todo /\ status' = status /\ active' = active
      /\ coordinators' = coordinators
  BY DEF vars
<1>2. /\ errors = {} /\ config \in Configs
      /\ coordinators = [k \in Kinds |-> coordinators[k]]
      /\ \A k \in Kinds : CoordinatorOK(coordinators[k], k)
      /\ pass \in Kinds \cup {"none"}
      /\ \A k \in Kinds : k # pass => Idle(coordinators[k])
      /\ pass # "none" => PassOK(pass, coordinators[pass], todo, status, active)
      /\ pass = "none" => todo = << >> /\ \A p \in Params : status[p] # "inflight"
  BY DEF RInv
<1> QED  BY <1>1, <1>2, RInvNext

(* Every step keeps the invariant. *)
LEMMA NextKeepsRInv ==
    IInv /\ (Regular => RInv) /\ [Next]_vars => (Regular => RInv)'
<1> SUFFICES ASSUME IInv, Regular => RInv, [Next]_vars, Regular' PROVE RInv'
  OBVIOUS
<1>1. model' = model /\ config' = config
  BY DEF Next, BeginPass, PreSubModule, PostSubModule, ResetStep, Step, Checkpoint,
         PartitionAll, vars
<1>2. Regular  BY <1>1 DEF Regular, Stable, NoneGoesOn
<1>3. RInv  BY <1>2
<1>4. ASSUME NEW kind \in Kinds, BeginPass(kind) PROVE RInv'
  BY <1>3, <1>4, BeginKeepsRInv
<1>5. CASE PreSubModule  BY <1>2, <1>3, <1>5, PreKeepsRInv
<1>6. CASE PostSubModule  BY <1>3, <1>6, PostKeepsRInv
<1>7. CASE ResetStep  BY <1>2, <1>3, <1>7, ResetKeepsRInv
<1>8. ASSUME NEW overflow \in BOOLEAN, Step(overflow) PROVE RInv'
  <2>1. PartitionAll("train", ~overflow) /\ "train" \in Kinds
    BY <1>8 DEF Step, Kinds
  <2> QED  BY <1>3, <2>1, PartitionAllKeepsRInv
<1>9. ASSUME NEW kind \in Kinds, Checkpoint(kind) PROVE RInv'
  BY <1>3, <1>9, PartitionAllKeepsRInv DEF Checkpoint
<1>10. CASE UNCHANGED vars  BY <1>3, <1>10, SameStateKeepsRInv
<1> QED  BY <1>4, <1>5, <1>6, <1>7, <1>8, <1>9, <1>10 DEF Next

-----------------------------------------------------------------------------
(* The coordinator's own checks hold (NothingIsRaised): no parameter is in
   flight when it is released, none is registered when a pass is reset,
   and the trace has a module for every step, whenever passes are stable,
   or nothing is prefetched and no pass goes on beyond another. *)
THEOREM NothingIsRaisedTheorem == Spec => []NothingIsRaised
<1>1. Init => IInv /\ (Regular => RInv)  BY InitIInv, InitRInv
<1>2. IInv /\ (Regular => RInv) /\ [Next]_vars => IInv' /\ (Regular => RInv)'
  BY NextKeepsIInv, NextKeepsRInv
<1>3. IInv /\ (Regular => RInv) => NothingIsRaised
  BY DEF NothingIsRaised, Regular, RInv
<1> QED  BY <1>1, <1>2, <1>3, PTL DEF Spec

=============================================================================
