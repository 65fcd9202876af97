------------------------ MODULE OptimizerSwapProofs ------------------------
(*****************************************************************************)
(* Proofs about the swapping of optimizer states, for any number of          *)
(* sub-groups, pieces, threads and buffers, any sub-groups large enough to   *)
(* be swapped, pipelined or not: what a sub-group is updated with is the     *)
(* newest its files and its remembered gradients have, and no buffer that is *)
(* still being read or written is handed out.                                *)
(*****************************************************************************)
EXTENDS OptimizerSwap, FiniteSetTheorems, WellFoundedInduction, SequenceTheorems, TLAPS

Places == {"backward", "no_space", "swap_in", "flush", "wait_in", "update", "swap_out", "wait_out"}
Gathering == at \in {"backward", "no_space"}
GradFiles == {GradFile(g, p) : g \in Groups, p \in Pieces}
Tensors == (Files \cup {NoFile}) \X Nat
Requests == [read : BOOLEAN, buffer : Buffers, pieces : SUBSET Pieces, file : Files]
Operations == [group : {0} \cup Groups, buffers : Seq(Buffers), states : Seq(Buffers), count : Nat]

Swappers == [all : Seq(Buffers), free : Seq(Buffers), swapping : Seq(Buffers),
             current : {0} \cup Buffers, fill : [Buffers -> Seq(GradFiles)],
             pending : Nat, next : GradFiles \cup {NoFile}]
Parameters == [tensors : {1, NumStates}, swapped : SUBSET Pieces,
               unswapped : SUBSET (GradFiles \X Nat)]

(* A request is counted by a thread when its share has been transferred. *)
HandleOK(h) ==
    /\ h \in [work : [Threads -> Seq(Requests)], done : [Threads -> Nat], pending : Nat]
    /\ \A t \in Threads : h.done[t] + Len(h.work[t]) = h.pending

TypeOK ==
    /\ cfg \in Configs /\ at \in Places /\ group \in cfg.swappable /\ batch \in Nat
    /\ updates \in [Groups -> Nat]
    /\ arrived \subseteq cfg.swappable \X Pieces
    /\ free \in Seq(Buffers)
    /\ grads \in Swappers
    /\ info \in [Groups -> Parameters]
    /\ ops \in [sync_in : Operations, async_in : Operations,
                sync_out : Operations, async_out : Operations]
    /\ HandleOK(reads) /\ HandleOK(writes)
    /\ memory \in [Buffers -> [Pieces -> [Threads -> Tensors]]]
    /\ disk \in [Files -> [Threads -> Tensors]]
    /\ raised = FALSE

(* Every buffer is in one place of one of these sequences. *)
Slots == {"free", "all", "sync_in", "async_in", "sync_out", "async_out"}
Holding == [x \in Slots |-> IF x = "free" THEN free ELSE IF x = "all" THEN grads.all
                            ELSE ops[x].buffers]
Total(H) == Len(H["free"]) + Len(H["all"]) + Len(H["sync_in"]) + Len(H["async_in"])
            + Len(H["sync_out"]) + Len(H["async_out"])
Owned(H, S, n) ==
    /\ H \in [Slots -> Seq(S)]
    /\ \A x, y \in Slots : \A i \in DOMAIN H[x], j \in DOMAIN H[y] :
           H[x][i] = H[y][j] => x = y /\ i = j
    /\ \A b \in S : \E x \in Slots : \E i \in DOMAIN H[x] : H[x][i] = b
    /\ Total(H) = n
Pool == Owned(Holding, Buffers, cfg.buffers)

Progress ==
    /\ HasBuffers => /\ at \in {"backward", "no_space", "swap_in", "flush"}
                     /\ ops.async_in = None /\ ops.async_out = None
    /\ Gathering \/ at = "flush" => ops.async_in = None /\ ops.async_out = None
    /\ IF at \in {"wait_in", "update", "swap_out"}
       THEN ops.sync_in.group = group ELSE ops.sync_in = None
    /\ IF at = "wait_out" THEN ops.sync_out.group = group ELSE ops.sync_out = None
    /\ ops.async_in # None =>
           IF at = "swap_in" THEN ops.async_in.group = group
           ELSE /\ at \in {"update", "swap_out", "wait_out"} /\ cfg.read
                /\ Following(group) # {} /\ ops.async_in.group = First(Following(group))
    /\ ops.async_out # None =>
           /\ cfg.write /\ at # "wait_out"
           /\ ops.async_out.group \in cfg.swappable /\ ops.async_out.group < group
    /\ Gathering => batch > 0
    /\ batch = 0 => arrived = {} /\ ~HasBuffers
    /\ (~Gathering /\ batch > 0) => arrived = cfg.swappable \X Pieces

(* The states of a sub-group are created by its first update. *)
Created ==
    \A g \in cfg.swappable : info[g].tensors =
        IF batch > 0 \/ g < group \/ (g = group /\ at = "wait_out") THEN NumStates ELSE 1

InOp(op) ==
    /\ Len(op.buffers) = info[op.group].tensors + (IF batch = 0 THEN 0 ELSE 1)
    /\ op.states = SubSeq(op.buffers, 1, info[op.group].tensors)
OutOp(op) ==
    /\ Len(op.buffers) <= NumStates + 1
    /\ Len(op.states) = NumStates /\ \A i, j \in States : op.states[i] = op.states[j] => i = j
    /\ ToSet(op.states) \subseteq ToSet(op.buffers)
OpsOK ==
    /\ ops.sync_in # None => InOp(ops.sync_in)
    /\ ops.async_in # None => InOp(ops.async_in)
    /\ ops.sync_out # None => OutOp(ops.sync_out)
    /\ ops.async_out # None => OutOp(ops.async_out)

(* The tensor a file should have. *)
Newest(f) == <<f, IF f[1] = "state" THEN updates[f[2]] ELSE batch>>

Reading == IF at = "wait_in" THEN ops.sync_in ELSE ops.async_in
Wanted(op) ==
    {Request(TRUE, op.buffers[k], Pieces, StateFile(op.group, k)) : k \in 1 .. info[op.group].tensors}
    \cup {Request(TRUE, Last(op.buffers), {p}, GradFile(op.group, p)) : p \in info[op.group].swapped}
Arrives(r, t) == \A p \in r.pieces : memory[r.buffer][p][t] = Newest(r.file)
Copied(op) ==
    batch > 0 => \A p \in Pieces \ info[op.group].swapped, t \in Threads :
        memory[Last(op.buffers)][p][t] = Newest(GradFile(op.group, p))

ReadsOK ==
    /\ Reading = None => reads.pending = 0
    /\ Reading # None =>
        /\ reads.pending = Reading.count
        /\ \A t \in Threads : \A i \in DOMAIN reads.work[t] : reads.work[t][i] \in Wanted(Reading)
        /\ \A t \in Threads : \A r \in Wanted(Reading) :
              Arrives(r, t) \/ \E i \in DOMAIN reads.work[t] : reads.work[t][i] = r
        /\ Copied(Reading)

InMemory ==
    /\ at = "update" => /\ \A t \in Threads : \A r \in Wanted(ops.sync_in) : Arrives(r, t)
                        /\ Copied(ops.sync_in)
    /\ at = "swap_out" => \A k \in 1 .. info[group].tensors, p \in Pieces, t \in Threads :
           memory[ops.sync_in.states[k]][p][t] = Newest(StateFile(group, k))

Writing == IF ops.sync_out # None THEN ops.sync_out ELSE ops.async_out
Queue(t) == writes.work[t] \o (IF grads.current = 0 THEN << >> ELSE WritesOf(grads))
StateWrite(r, t) ==
    /\ Writing # None
    /\ \E k \in States : r = Request(FALSE, Writing.states[k], Pieces, StateFile(Writing.group, k))
    /\ \A p \in Pieces : memory[r.buffer][p][t] = Newest(r.file)
GradWrite(r) ==
    /\ r.buffer \in ToSet(grads.swapping)
    /\ \E i \in DOMAIN grads.fill[r.buffer] :
          r = Request(FALSE, r.buffer, {i}, grads.fill[r.buffer][i])
WritesOK ==
    /\ writes.pending = IF Writing # None THEN Writing.count ELSE grads.pending
    /\ \A t \in Threads : \A i \in DOMAIN writes.work[t] :
          StateWrite(writes.work[t][i], t) \/ GradWrite(writes.work[t][i])

StatesOnDisk ==
    \A g \in cfg.swappable, t \in Threads : \A k \in 1 .. info[g].tensors :
        \/ g = group /\ at = "swap_out"
        \/ disk[StateFile(g, k)][t] = Newest(StateFile(g, k))
        \/ \E i \in DOMAIN writes.work[t] : writes.work[t][i].file = StateFile(g, k)

(* The gradient swapper's buffers are free, being written or the current one,
   and only the last two kinds have pieces in them. *)
Partition(s) ==
    /\ ToSet(s.all) = ToSet(s.free) \cup ToSet(s.swapping) \cup ({s.current} \ {0})
    /\ \A i, j \in DOMAIN (s.free \o s.swapping) :
           (s.free \o s.swapping)[i] = (s.free \o s.swapping)[j] => i = j
    /\ s.current \notin ToSet(s.free) \cup ToSet(s.swapping)
    /\ \A b \in Buffers : /\ Len(s.fill[b]) <= NumPieces
                          /\ b \notin ToSet(s.swapping) \cup {s.current} => s.fill[b] = << >>
GradsOK ==
    /\ ~HasBuffers => /\ grads.free = << >> /\ grads.swapping = << >> /\ grads.current = 0
                      /\ grads.pending = 0
    /\ Partition(grads)
    /\ at = "backward" /\ HasBuffers => grads.current # 0
    /\ at = "no_space" => /\ HasBuffers /\ grads.current = 0 /\ grads.free = << >>
                          /\ \E gp \in arrived \cap cfg.large : grads.next = GradFile(gp[1], gp[2])
    /\ at = "flush" => HasBuffers /\ grads.current = 0

Filling ==
    \A b \in Buffers, t \in Threads : \A i \in DOMAIN grads.fill[b] :
        memory[b][i][t][1] = grads.fill[b][i]

Taken(g) ==
    /\ ~Gathering
    /\ \/ g < group
       \/ g = group /\ at \in {"wait_in", "update", "swap_out", "wait_out"}
       \/ ops.async_in # None /\ g = ops.async_in.group
(* The last write of a file that is queued carries the tensor, or none is
   queued and the file has it. *)
Directed(q, mem, kept, f, t, v) ==
    \/ \E i \in DOMAIN q :
         /\ q[i].file = f
         /\ \A s \in q[i].pieces : mem[q[i].buffer][s][t] = v
         /\ \A j \in DOMAIN q : j > i => q[j].file # f
    \/ /\ \A j \in DOMAIN q : q[j].file # f
       /\ kept = v
InDirection(f, t) == Directed(Queue(t), memory, disk[f][t], f, t, Newest(f))
Remembered ==
    \A g \in Groups :
        /\ \A p \in info[g].swapped : <<g, p>> \in cfg.large
        /\ \A v \in info[g].unswapped : \E p \in Pieces : <<g, p>> \notin cfg.large /\ v[1] = GradFile(g, p)
        /\ batch = 0 => info[g].swapped = {} /\ info[g].unswapped = {}
SmallKept ==
    \A g \in Groups, p \in Pieces : <<g, p>> \in arrived \ cfg.large =>
        Taken(g) \/ \A n : <<GradFile(g, p), n>> \in info[g].unswapped <=> n = batch
LargeKept ==
    \A g \in Groups, p \in Pieces : <<g, p>> \in arrived \cap cfg.large =>
        /\ p \in info[g].swapped
        /\ \/ at = "no_space" /\ grads.next = GradFile(g, p)
           \/ \A t \in Threads : InDirection(GradFile(g, p), t)

SwapInv ==
    /\ TypeOK /\ Pool /\ Progress /\ Created /\ OpsOK /\ ReadsOK /\ InMemory /\ WritesOK
    /\ StatesOnDisk /\ GradsOK /\ Filling /\ Remembered /\ SmallKept /\ LargeKept

(* The constants. *)
LEMMA Constants ==
    /\ NumThreads \in Nat /\ NumThreads > 0 /\ NumGroups \in Nat /\ NumGroups > 0
    /\ NumStates \in Nat /\ NumStates > 0 /\ NumPieces \in Nat /\ NumPieces > 0
    /\ Groups = 1 .. NumGroups /\ States = 1 .. NumStates /\ Pieces = 1 .. NumPieces
    /\ Threads = 1 .. NumThreads
BY SwapAssumption DEF Groups, States, Pieces, Threads

(* What the assumptions on the constants say of one configuration. *)
LEMMA ConfigFacts ==
    ASSUME NEW c \in Configs
    PROVE  /\ c.swappable \subseteq Groups /\ c.swappable # {}
           /\ c.large \subseteq Groups \X Pieces
           /\ c.read \in BOOLEAN /\ c.write \in BOOLEAN /\ (c.read \/ c.write)
           /\ c.buffers \in Nat /\ c.buffers >= (NumStates + 1) * InBuffers(c)
           /\ c.batches \in Nat
<1>1. ConfigOK(c)  BY SwapAssumption
<1>2. c.swappable \in (SUBSET Groups) \ {{}} /\ c.large \in SUBSET (Groups \X Pieces)
  BY <1>1 DEF ConfigOK
<1>3. c.swappable \in SUBSET Groups /\ c.swappable \notin {{}}  BY <1>2
<1>4. c.swappable \subseteq Groups /\ c.swappable # {}  BY <1>3
<1>5. c.large \subseteq Groups \X Pieces  BY <1>2, Zenon
<1> QED  BY <1>1, <1>4, <1>5 DEF ConfigOK

(* Files. *)
LEMMA FileFacts ==
    /\ \A g \in Groups, k \in States : StateFile(g, k) \in Files
    /\ \A g \in Groups, p \in Pieces : GradFile(g, p) \in Files /\ GradFile(g, p) \in GradFiles
    /\ \A g, h, k, l : StateFile(g, k) = StateFile(h, l) => g = h /\ k = l
    /\ \A g, h, k, l : GradFile(g, k) = GradFile(h, l) => g = h /\ k = l
    /\ \A g, h, k, l : StateFile(g, k) # GradFile(h, l)
    /\ \A h, l : NoFile # GradFile(h, l)
    /\ \A g, k : Newest(StateFile(g, k)) = <<StateFile(g, k), updates[g]>>
    /\ \A g, p : Newest(GradFile(g, p)) = <<GradFile(g, p), batch>>
    /\ GradFiles \subseteq Files
BY DEF StateFile, GradFile, Files, GradFiles, Newest, NoFile

(* The least of a set of sub-groups. *)
LEMMA LeastNumber ==
    ASSUME NEW S \in SUBSET Nat, S # {}
    PROVE  \E g \in S : \A h \in S : g <= h
<1> DEFINE R == OpToRel(<, Nat)
<1>1. IsWellFoundedOn(R, Nat)  BY NatLessThanWellFounded
<1>2. PICK g \in S : \A h \in S : <<h, g>> \notin R  BY <1>1, WFMin
<1>3. \A x, y \in Nat : x < y => <<x, y>> \in R  BY DEF OpToRel
<1> HIDE DEF R
<1>4. ASSUME NEW h \in S PROVE g <= h
  <2>1. g \in Nat /\ h \in Nat /\ ~(h < g)  BY <1>2, <1>3
  <2> QED  BY <2>1
<1> QED  BY <1>4

(* First returns the least sub-group: the order of the sub-groups is well
   founded. *)
LEMMA FirstFacts ==
    ASSUME NEW S \in SUBSET Groups, S # {}
    PROVE  First(S) \in S /\ \A h \in S : First(S) <= h
<1>1. S \in SUBSET Nat  BY Constants
<1>2. \E g \in S : \A h \in S : g <= h  BY <1>1, LeastNumber
<1> QED  BY <1>2 DEF First

(* The sub-groups after g are later ones, and nothing that can be swapped lies
   between g and the first of them. *)
LEMMA FollowingFacts ==
    ASSUME cfg \in Configs, NEW g \in cfg.swappable
    PROVE  /\ Following(g) \subseteq cfg.swappable /\ Following(g) \subseteq Groups
           /\ \A h \in Following(g) : h > g
           /\ Following(g) # {} => /\ First(Following(g)) \in cfg.swappable
                                   /\ First(Following(g)) > g
                                   /\ \A h \in cfg.swappable : h < First(Following(g)) <=> h <= g
           /\ Following(g) = {} => \A h \in cfg.swappable : h <= g
           /\ First(cfg.swappable) \in cfg.swappable
           /\ \A h \in cfg.swappable : First(cfg.swappable) <= h
           /\ g \in Groups /\ g \in Nat
<1>1. cfg.swappable \subseteq Groups /\ cfg.swappable # {} /\ Groups \subseteq Nat
  BY ConfigFacts, Constants
<1>2. Following(g) \subseteq cfg.swappable /\ \A h \in Following(g) : h > g
  BY DEF Following
<1>3. Following(g) # {} => First(Following(g)) \in Following(g)
                           /\ \A h \in Following(g) : First(Following(g)) <= h
  BY <1>1, <1>2, FirstFacts
<1>4. \A h \in cfg.swappable : h > g => h \in Following(g)  BY DEF Following
<1>5. Following(g) # {} => \A h \in cfg.swappable : h < First(Following(g)) <=> h <= g
  <2> SUFFICES ASSUME Following(g) # {}, NEW h \in cfg.swappable
               PROVE  h < First(Following(g)) <=> h <= g
    OBVIOUS
  <2> DEFINE f == First(Following(g))
  <2>1. f \in Nat /\ h \in Nat /\ g \in Nat /\ f > g /\ (h \in Following(g) => f <= h)
        /\ (h > g => h \in Following(g))
    BY <1>1, <1>2, <1>3, <1>4
  <2> HIDE DEF f
  <2>2. h < f <=> h <= g  BY <2>1
  <2> QED  BY <2>2 DEF f
<1>6. Following(g) = {} => \A h \in cfg.swappable : h <= g
  <2> SUFFICES ASSUME Following(g) = {}, NEW h \in cfg.swappable
               PROVE  h <= g
    OBVIOUS
  <2>1. h \in Nat /\ g \in Nat /\ ~(h > g)  BY <1>1, <1>4
  <2> QED  BY <2>1
<1>7. First(cfg.swappable) \in cfg.swappable /\ \A h \in cfg.swappable : First(cfg.swappable) <= h
  BY <1>1, FirstFacts
<1> QED  BY <1>1, <1>2, <1>3, <1>5, <1>6, <1>7

(* The sub-groups that are in the buffers at once. *)
LEMMA EnoughBuffers ==
    ASSUME NEW c \in Configs
    PROVE  /\ c.buffers >= NumStates + 1
           /\ \A g, h \in c.swappable : g < h => c.buffers >= 2 * (NumStates + 1)
           /\ \A f, g, h \in c.swappable : f < g /\ g < h /\ c.read /\ c.write =>
                  c.buffers >= 3 * (NumStates + 1)
<1> DEFINE there == Cardinality(c.swappable)
<1>1. c.swappable \subseteq 1 .. NumGroups /\ c.swappable # {} /\ IsFiniteSet(1 .. NumGroups)
  <2>1. IsFiniteSet(1 .. NumGroups)  BY Constants, FS_Interval
  <2> QED  BY <2>1, ConfigFacts, Constants
<1>2. IsFiniteSet(c.swappable) /\ there \in Nat
  BY <1>1, FS_Subset, FS_CardinalityType
<1>3. there >= 1  BY <1>1, <1>2, FS_EmptySet
<1>4. ASSUME NEW g \in c.swappable, NEW h \in c.swappable, g < h
      PROVE  there >= 2
  <2>1. Cardinality({g}) = 1 /\ IsFiniteSet({g})  BY FS_Singleton
  <2>2. g \in Int /\ h \in Int /\ h \notin {g}  BY <1>1, <1>4, Constants
  <2>3. Cardinality({g} \cup {h}) = 2  BY <2>1, <2>2, FS_AddElement
  <2> QED  BY <1>2, <2>3, FS_Subset
<1>5. ASSUME NEW f \in c.swappable, NEW g \in c.swappable, NEW h \in c.swappable, f < g, g < h
      PROVE  there >= 3
  <2>1. Cardinality({f}) = 1 /\ IsFiniteSet({f})  BY FS_Singleton
  <2>2. f \in Int /\ g \in Int /\ h \in Int /\ g \notin {f} /\ h \notin {f} \cup {g}
    BY <1>1, <1>5, Constants
  <2>3. Cardinality({f} \cup {g}) = 2 /\ IsFiniteSet({f} \cup {g})
    BY <2>1, <2>2, FS_AddElement
  <2>4. PICK two : two = {f} \cup {g}  OBVIOUS
  <2>5. Cardinality(two) = 2 /\ IsFiniteSet(two) /\ h \notin two
    BY <2>2, <2>3, <2>4
  <2>6. Cardinality(two \cup {h}) = 2 + 1  BY <2>5, FS_AddElement
  <2>7. two \cup {h} \subseteq c.swappable  BY <1>5, <2>4
  <2> QED  BY <1>2, <2>6, <2>7, FS_Subset
<1>6. c.buffers \in Nat /\ c.buffers >= (NumStates + 1) * InBuffers(c) /\ NumStates \in Nat
      /\ c.read \in BOOLEAN /\ c.write \in BOOLEAN /\ (c.read \/ c.write)
  BY ConfigFacts, Constants
<1> HIDE DEF there
<1>7. InBuffers(c) = IF 1 + (IF c.read THEN 1 ELSE 0) + (IF c.write THEN 1 ELSE 0) < there
                     THEN 1 + (IF c.read THEN 1 ELSE 0) + (IF c.write THEN 1 ELSE 0) ELSE there
  BY DEF InBuffers, there
<1>8. InBuffers(c) \in Nat /\ InBuffers(c) >= 1
      /\ (there >= 2 => InBuffers(c) >= 2)
      /\ (there >= 3 /\ c.read /\ c.write => InBuffers(c) = 3)
  BY <1>2, <1>3, <1>6, <1>7
<1>9. \A n \in Nat, m \in Nat : n >= m => (NumStates + 1) * n >= (NumStates + 1) * m
  BY <1>6
<1>10. \A m \in Nat : InBuffers(c) >= m => c.buffers >= (NumStates + 1) * m
  BY <1>6, <1>8, <1>9
<1> QED  BY <1>4, <1>5, <1>6, <1>8, <1>10

(* A set as a sequence. *)
LEMMA SetAsSequence ==
    ASSUME NEW S, IsFiniteSet(S)
    PROVE  /\ SetToSeq(S) \in Seq(S)
           /\ \A x \in S : \E i \in 1 .. Len(SetToSeq(S)) : SetToSeq(S)[i] = x
<1> DEFINE n == Cardinality(S)
<1>1. n \in Nat /\ ExistsBijection(1 .. n, S)  BY FS_CardinalityType
<1>2. PICK f \in Bijection(1 .. n, S) : TRUE  BY <1>1 DEF ExistsBijection
<1>3. f \in [1 .. n -> S] /\ IsInjective(f)
  BY <1>2 DEF Bijection, Injection, IsInjective
<1>4. SetToSeq(S) \in [1 .. n -> S] /\ IsInjective(SetToSeq(S))
  BY <1>3 DEF SetToSeq
<1>5. SetToSeq(S) \in Injection(1 .. n, S)  BY <1>4 DEF Injection, IsInjective
<1>6. Cardinality(1 .. n) = n /\ IsFiniteSet(1 .. n)  BY <1>1, FS_Interval
<1>7. SetToSeq(S) \in Surjection(1 .. n, S)  BY <1>5, <1>6, FS_Injection
<1>8. \A x \in S : \E i \in 1 .. n : SetToSeq(S)[i] = x  BY <1>7 DEF Surjection
<1> QED  BY <1>1, <1>4, <1>8

(* The pool's operators split it in two. *)
LEMMA PoolSplit ==
    ASSUME NEW S, NEW pool \in Seq(S), NEW n \in Nat, CanAllocate(pool, n)
    PROVE  /\ Allocated(pool, n) \in Seq(S) /\ Len(Allocated(pool, n)) = n
           /\ Remaining(pool, n) \in Seq(S) /\ Len(Remaining(pool, n)) = Len(pool) - n
           /\ pool = Remaining(pool, n) \o Allocated(pool, n)
<1> DEFINE l == Len(pool)  m == l - n
<1>1. l \in Nat /\ n <= l /\ m \in 0 .. l /\ m \in Nat /\ \A i \in 1 .. l : pool[i] \in S
  BY DEF CanAllocate
<1>2. Allocated(pool, n) = SubSeq(pool, m + 1, l) /\ Remaining(pool, n) = SubSeq(pool, 1, m)
  BY DEF Allocated, Remaining
<1>3. /\ SubSeq(pool, m + 1, l) \in Seq(S)
      /\ Len(SubSeq(pool, m + 1, l)) = IF m + 1 <= l THEN l - (m + 1) + 1 ELSE 0
  <2>1. m + 1 \in Int /\ l \in Int /\ \A i \in (m + 1) .. l : pool[i] \in S
    BY <1>1
  <2> HIDE DEF l, m
  <2> QED  BY <2>1, SubSeqProperties
<1>4. /\ SubSeq(pool, 1, m) \in Seq(S)
      /\ Len(SubSeq(pool, 1, m)) = IF 1 <= m THEN m - 1 + 1 ELSE 0
  <2>1. 1 \in Int /\ m \in Int /\ \A i \in 1 .. m : pool[i] \in S  BY <1>1
  <2> HIDE DEF m
  <2> QED  BY <2>1, SubSeqProperties
<1>5. SubSeq(pool, 1, m) \o SubSeq(pool, m + 1, l) = SubSeq(pool, 1, l)
  <2>1. 1 \in 1 .. l + 1 /\ m \in 1 - 1 .. l /\ l \in m .. l  BY <1>1
  <2> QED  BY <2>1, ConcatAdjacentSubSeq
<1>6. SubSeq(pool, 1, l) = pool  BY SubSeqFull
<1> HIDE DEF l
<1>7. l - (m + 1) + 1 = n /\ (n = 0 <=> ~(m + 1 <= l)) /\ (m = 0 <=> ~(1 <= m)) /\ m - 1 + 1 = m
  BY <1>1
<1> HIDE DEF m
<1>8. Len(SubSeq(pool, m + 1, l)) = n /\ Len(SubSeq(pool, 1, m)) = m
  BY <1>1, <1>3, <1>4, <1>7
<1> QED  BY <1>2, <1>3, <1>4, <1>5, <1>6, <1>8 DEF m, l

(* Moving the end of one sequence to the end of another leaves every buffer
   with one owner. *)
Moved(H, x, y, a, b) == [H EXCEPT ![x] = a, ![y] = H[y] \o b]

(* Buffers that move from one holder to another stay in one place each. *)
LEMMA MoveKeeps ==
    ASSUME NEW S, NEW n, NEW H, Owned(H, S, n), NEW x \in Slots, NEW y \in Slots, x # y,
           NEW a \in Seq(S), NEW b \in Seq(S), H[x] = a \o b
    PROVE  Owned(Moved(H, x, y, a, b), S, n)
<1> DEFINE K == Moved(H, x, y, a, b)
           la == Len(a)  lb == Len(b)  ly == Len(H[y])
           from(z, i) == IF z = y /\ i > ly THEN x ELSE z
           place(z, i) == IF z = y /\ i > ly THEN la + (i - ly) ELSE i
<1>1. H \in [Slots -> Seq(S)] /\ Total(H) = n  BY DEF Owned
<1>2. /\ K \in [Slots -> Seq(S)]
      /\ K[x] = a /\ K[y] = H[y] \o b
      /\ \A z \in Slots : z # x /\ z # y => K[z] = H[z]
  <2>1. H[y] \in Seq(S) /\ H[y] \o b \in Seq(S)  BY <1>1
  <2> QED  BY <1>1, <2>1 DEF Moved
<1>3. /\ la \in Nat /\ lb \in Nat /\ ly \in Nat
      /\ Len(H[x]) = la + lb /\ DOMAIN H[x] = 1 .. la + lb
      /\ Len(K[y]) = ly + lb /\ DOMAIN K[y] = 1 .. ly + lb
      /\ Len(K[x]) = la /\ DOMAIN K[x] = 1 .. la /\ DOMAIN H[y] = 1 .. ly
      /\ \A i \in 1 .. la : H[x][i] = K[x][i]
      /\ \A i \in 1 .. ly : K[y][i] = H[y][i]
      /\ \A i \in 1 .. lb : K[y][ly + i] = H[x][la + i]
  <2>1. H[y] \in Seq(S)  BY <1>1
  <2> QED  BY <1>2, <2>1
<1> HIDE DEF K, la, lb, ly
<1>0. la \in Nat /\ lb \in Nat /\ ly \in Nat  BY <1>3
<1>4. ASSUME NEW z \in Slots, NEW i \in DOMAIN K[z]
      PROVE  /\ from(z, i) \in Slots /\ place(z, i) \in DOMAIN H[from(z, i)]
             /\ K[z][i] = H[from(z, i)][place(z, i)]
  <2>1. CASE z = y /\ i > ly
    <3>0. i \in 1 .. ly + lb  BY <1>3, <1>4, <2>1
    <3>1. i \in Nat /\ i - ly \in 1 .. lb /\ i = ly + (i - ly) /\ la + (i - ly) \in 1 .. la + lb
      BY <1>0, <2>1, <3>0
    <3>2. K[y][i] = H[x][la + (i - ly)]  BY <1>3, <3>1
    <3>3. from(z, i) = x /\ place(z, i) = la + (i - ly)  BY <2>1
    <3> HIDE DEF from, place
    <3> QED  BY <1>3, <2>1, <3>1, <3>2, <3>3
  <2>2. CASE ~(z = y /\ i > ly)
    <3>1. from(z, i) = z /\ place(z, i) = i  BY <2>2
    <3>2. i \in DOMAIN H[z] /\ K[z][i] = H[z][i]
      <4>1. CASE z = y
        <5>1. i \in 1 .. ly  BY <1>3, <1>4, <2>2, <4>1
        <5> QED  BY <1>3, <4>1, <5>1
      <4>2. CASE z = x
        <5>1. i \in 1 .. la /\ i \in 1 .. la + lb  BY <1>3, <1>4, <4>2
        <5> QED  BY <1>3, <4>2, <5>1
      <4>3. CASE z # x /\ z # y  BY <1>2, <1>4, <4>3
      <4> QED  BY <4>1, <4>2, <4>3
    <3> HIDE DEF from, place
    <3> QED  BY <3>1, <3>2
  <2> QED  BY <2>1, <2>2
<1>5. ASSUME NEW z \in Slots, NEW w \in Slots, NEW i \in DOMAIN K[z], NEW j \in DOMAIN K[w],
             from(z, i) = from(w, j), place(z, i) = place(w, j)
      PROVE  z = w /\ i = j
  <2>1. i \in Nat /\ j \in Nat  BY <1>1, <1>2
  <2>2. CASE (z = y /\ i > ly) /\ (w = y /\ j > ly)
    <3>1. la + (i - ly) = la + (j - ly)  BY <1>5, <2>2
    <3> QED  BY <1>3, <2>1, <2>2, <3>1
  <2>3. CASE (z = y /\ i > ly) /\ ~(w = y /\ j > ly)
    <3>1. w = x /\ j = la + (i - ly)  BY <1>5, <2>3
    <3>2. j <= la  BY <1>3, <3>1, <1>5
    <3> QED  BY <1>3, <2>1, <2>3, <3>1, <3>2
  <2>4. CASE ~(z = y /\ i > ly) /\ (w = y /\ j > ly)
    <3>1. z = x /\ i = la + (j - ly)  BY <1>5, <2>4
    <3>2. i <= la  BY <1>3, <3>1, <1>5
    <3> QED  BY <1>3, <2>1, <2>4, <3>1, <3>2
  <2>5. CASE ~(z = y /\ i > ly) /\ ~(w = y /\ j > ly)  BY <1>5, <2>5
  <2> QED  BY <2>2, <2>3, <2>4, <2>5
<1>6. \A z, w \in Slots : \A i \in DOMAIN K[z], j \in DOMAIN K[w] :
          K[z][i] = K[w][j] => z = w /\ i = j
  <2> SUFFICES ASSUME NEW z \in Slots, NEW w \in Slots, NEW i \in DOMAIN K[z],
                      NEW j \in DOMAIN K[w], K[z][i] = K[w][j]
               PROVE  z = w /\ i = j
    OBVIOUS
  <2> HIDE DEF from, place
  <2>1. H[from(z, i)][place(z, i)] = H[from(w, j)][place(w, j)]  BY <1>4
  <2>2. from(z, i) = from(w, j) /\ place(z, i) = place(w, j)
    BY SMTT(60), <1>4, <2>1 DEF Owned
  <2> QED  BY <1>5, <2>2
<1>7. \A b1 \in S : \E z \in Slots : \E i \in DOMAIN K[z] : K[z][i] = b1
  <2> SUFFICES ASSUME NEW b1 \in S
               PROVE  \E z \in Slots : \E i \in DOMAIN K[z] : K[z][i] = b1
    OBVIOUS
  <2>1. PICK z \in Slots : \E i \in DOMAIN H[z] : H[z][i] = b1  BY DEF Owned
  <2>2. PICK i \in DOMAIN H[z] : H[z][i] = b1  BY <2>1
  <2>3. CASE z = x
    <3>1. i \in Nat /\ i \in 1 .. la + lb  BY <1>3, <2>3
    <3>2. CASE i > la
      <4> DEFINE j == i - la
      <4>1. j \in 1 .. lb /\ i = la + j /\ ly + j \in 1 .. ly + lb
        BY <1>0, <3>1, <3>2
      <4> HIDE DEF j
      <4>2. K[y][ly + j] = H[x][la + j]  BY <1>3, <4>1
      <4> QED  BY <1>3, <2>2, <2>3, <4>1, <4>2
    <3>3. CASE ~(i > la)
      <4>1. i \in 1 .. la  BY <1>3, <3>1, <3>3
      <4> QED  BY <1>3, <2>2, <2>3, <4>1
    <3> QED  BY <3>2, <3>3
  <2>4. CASE z = y
    <3>1. i \in 1 .. ly /\ i \in 1 .. ly + lb  BY <1>3, <2>4
    <3> QED  BY <1>3, <2>2, <2>4, <3>1
  <2>5. CASE z # x /\ z # y  BY <1>2, <2>2, <2>5
  <2> QED  BY <2>3, <2>4, <2>5
<1>8. Total(K) = n
  <2> DEFINE m(z) == Len(H[z])  k(z) == Len(K[z])
  <2>1. \A z \in Slots : m(z) \in Nat  BY <1>1
  <2>2. k(x) = m(x) - lb /\ k(y) = m(y) + lb
        /\ \A z \in Slots : z # x /\ z # y => k(z) = m(z)
    BY <1>2, <1>3 DEF ly
  <2>3. m("free") + m("all") + m("sync_in") + m("async_in") + m("sync_out") + m("async_out") = n
    BY <1>1 DEF Total
  <2> DEFINE d(z) == IF z = x THEN 0 - lb ELSE IF z = y THEN lb ELSE 0
  <2>4. ASSUME NEW z \in Slots PROVE m(z) \in Nat /\ d(z) \in Int /\ k(z) = m(z) + d(z)
    <3>1. m(z) \in Nat /\ d(z) \in Int  BY <1>0, <2>1
    <3>2. k(z) = m(z) + d(z)
      <4> HIDE DEF m, k
      <4>1. CASE z = x  BY <1>0, <2>2, <3>1, <4>1
      <4>2. CASE z = y  BY <1>0, <2>2, <3>1, <4>2
      <4>3. CASE z # x /\ z # y  BY <1>0, <2>2, <3>1, <4>3
      <4> QED  BY <4>1, <4>2, <4>3
    <3> QED  BY <3>1, <3>2
  <2>5. d("free") + d("all") + d("sync_in") + d("async_in") + d("sync_out") + d("async_out") = 0
    BY <1>0 DEF Slots
  <2> HIDE DEF m, k, d
  <2>6. k("free") + k("all") + k("sync_in") + k("async_in") + k("sync_out") + k("async_out") = n
    <3>1. \A z \in {"free", "all", "sync_in", "async_in", "sync_out", "async_out"} :
             m(z) \in Nat /\ d(z) \in Int /\ k(z) = m(z) + d(z)
      BY <2>4 DEF Slots
    <3> DEFINE m1 == m("free")  m2 == m("all")  m3 == m("sync_in")
               m4 == m("async_in")  m5 == m("sync_out")  m6 == m("async_out")
               d1 == d("free")  d2 == d("all")  d3 == d("sync_in")
               d4 == d("async_in")  d5 == d("sync_out")  d6 == d("async_out")
    <3>2. /\ m1 \in Nat /\ m2 \in Nat /\ m3 \in Nat /\ m4 \in Nat /\ m5 \in Nat /\ m6 \in Nat
          /\ d1 \in Int /\ d2 \in Int /\ d3 \in Int /\ d4 \in Int /\ d5 \in Int /\ d6 \in Int
          /\ k("free") = m1 + d1 /\ k("all") = m2 + d2 /\ k("sync_in") = m3 + d3
          /\ k("async_in") = m4 + d4 /\ k("sync_out") = m5 + d5 /\ k("async_out") = m6 + d6
      BY <3>1
    <3>3. m1 + m2 + m3 + m4 + m5 + m6 = n /\ d1 + d2 + d3 + d4 + d5 + d6 = 0
      BY <2>3, <2>5
    <3> HIDE DEF m1, m2, m3, m4, m5, m6, d1, d2, d3, d4, d5, d6
    <3>4. (m1 + d1) + (m2 + d2) + (m3 + d3) + (m4 + d4) + (m5 + d5) + (m6 + d6) = n
      BY SMTT(60), <3>2, <3>3
    <3> QED  BY <3>2, <3>4
  <2> QED  BY <2>6 DEF Total, k
<1>9. Owned(K, S, n)  BY <1>2, <1>6, <1>7, <1>8 DEF Owned
<1> QED  BY <1>9 DEF K

(* What the owner of a buffer is needed for. *)
LEMMA Apart ==
    ASSUME NEW S, NEW n, NEW H, Owned(H, S, n), NEW x \in Slots, NEW y \in Slots,
           NEW b \in ToSet(H[x]), NEW c \in ToSet(H[y]), x # y
    PROVE  b # c
BY DEF Owned, ToSet

(* Submitting requests to a handle appends them to the queue of every thread. *)
LEMMA SubmitKeeps ==
    ASSUME NEW h, HandleOK(h), NEW rs \in Seq(Requests)
    PROVE  /\ HandleOK(Submit(h, rs))
           /\ Submit(h, rs).pending = h.pending + Len(rs)
           /\ \A t \in Threads : Submit(h, rs).work[t] = h.work[t] \o rs
<1> DEFINE w == [t \in Threads |-> h.work[t] \o rs]
<1>1. ASSUME NEW t \in Threads
      PROVE  /\ h.work[t] \o rs \in Seq(Requests) /\ h.done[t] \in Nat
             /\ h.done[t] + Len(h.work[t] \o rs) = h.pending + Len(rs)
  BY DEF HandleOK
<1>2. w \in [Threads -> Seq(Requests)] /\ h.pending + Len(rs) \in Nat /\ h.pending \in Nat
  BY <1>1 DEF HandleOK
<1>3. \A t \in Threads : w[t] = h.work[t] \o rs  OBVIOUS
<1> HIDE DEF w
<1>4. Submit(h, rs) = [h EXCEPT !.work = w, !.pending = h.pending + Len(rs)]
  BY DEF Submit, w
<1>5. /\ Submit(h, rs) \in [work : [Threads -> Seq(Requests)], done : [Threads -> Nat], pending : Nat]
      /\ Submit(h, rs).work = w /\ Submit(h, rs).done = h.done
      /\ Submit(h, rs).pending = h.pending + Len(rs)
  <2>1. PICK p : p = h.pending + Len(rs)  OBVIOUS
  <2>2. PICK g : g = Submit(h, rs)  OBVIOUS
  <2>3. w \in [Threads -> Seq(Requests)] /\ p \in Nat /\ g = [h EXCEPT !.work = w, !.pending = p]
    BY <1>2, <1>4, <2>1, <2>2
  <2>4. /\ g \in [work : [Threads -> Seq(Requests)], done : [Threads -> Nat], pending : Nat]
        /\ g.work = w /\ g.done = h.done /\ g.pending = p
    BY <2>3 DEF HandleOK
  <2> QED BY <2>1, <2>2, <2>4
<1>6. \A t \in Threads : Submit(h, rs).done[t] + Len(Submit(h, rs).work[t]) = Submit(h, rs).pending
  BY <1>1, <1>3, <1>5
<1>7. HandleOK(Submit(h, rs))  BY <1>5, <1>6 DEF HandleOK
<1> QED  BY <1>3, <1>5, <1>7

(* A thread that completes a request takes it off the head of its own queue,
   and of no other. *)
LEMMA RanKeeps ==
    ASSUME NEW h, HandleOK(h), NEW t \in Threads, h.work[t] # << >>
    PROVE  /\ HandleOK(Ran(h, t)) /\ Ran(h, t).pending = h.pending
           /\ Ran(h, t).work[t] = Tail(h.work[t])
           /\ \A u \in Threads : u # t => Ran(h, t).work[u] = h.work[u]
           /\ Head(h.work[t]) \in Requests
           /\ Len(Tail(h.work[t])) \in Nat /\ Len(h.work[t]) = Len(Tail(h.work[t])) + 1
           /\ h.work[t][1] = Head(h.work[t])
           /\ \A i \in 1 .. Len(Tail(h.work[t])) : Tail(h.work[t])[i] = h.work[t][i + 1]
<1>1. /\ h.work[t] \in Seq(Requests) /\ h.work \in [Threads -> Seq(Requests)]
      /\ h.done \in [Threads -> Nat] /\ h.pending \in Nat /\ h.done[t] \in Nat
      /\ h.done[t] + Len(h.work[t]) = h.pending
  BY DEF HandleOK
<1>2. /\ Head(h.work[t]) \in Requests /\ Tail(h.work[t]) \in Seq(Requests)
      /\ Len(Tail(h.work[t])) = Len(h.work[t]) - 1
      /\ \A i \in 1 .. Len(Tail(h.work[t])) : Tail(h.work[t])[i] = h.work[t][i + 1]
  BY <1>1, HeadTailProperties
<1>3. h.work[t][1] = Head(h.work[t]) /\ Len(h.work[t]) \in Nat /\ Len(Tail(h.work[t])) \in Nat
      /\ Len(h.work[t]) = Len(Tail(h.work[t])) + 1
  BY <1>1, <1>2
<1>4. /\ Ran(h, t).work = [h.work EXCEPT ![t] = Tail(h.work[t])]
      /\ Ran(h, t).done = [h.done EXCEPT ![t] = h.done[t] + 1]
      /\ Ran(h, t).pending = h.pending
      /\ Ran(h, t) \in [work : [Threads -> Seq(Requests)], done : [Threads -> Nat], pending : Nat]
  <2>1. h \in [work : [Threads -> Seq(Requests)], done : [Threads -> Nat], pending : Nat]
    BY DEF HandleOK
  <2>2. h.done[t] + 1 \in Nat  BY <1>1
  <2>3. Ran(h, t).work = [h.work EXCEPT ![t] = Tail(h.work[t])]
    BY <2>1 DEF Ran
  <2>4. Ran(h, t).done = [h.done EXCEPT ![t] = h.done[t] + 1]  BY <2>1 DEF Ran
  <2>5. Ran(h, t).pending = h.pending  BY <2>1 DEF Ran
  <2>6. Ran(h, t) \in [work : [Threads -> Seq(Requests)], done : [Threads -> Nat], pending : Nat]
    BY <1>1, <1>2, <2>1, <2>2 DEF Ran
  <2> QED  BY <2>3, <2>4, <2>5, <2>6
<1>5. ASSUME NEW u \in Threads
      PROVE  /\ Ran(h, t).work[u] = IF u = t THEN Tail(h.work[t]) ELSE h.work[u]
             /\ Ran(h, t).done[u] = IF u = t THEN h.done[t] + 1 ELSE h.done[u]
  BY <1>1, <1>4
<1>6. ASSUME NEW u \in Threads
      PROVE  Ran(h, t).done[u] + Len(Ran(h, t).work[u]) = h.pending
  <2>1. CASE u = t
    <3>1. h.done[t] + 1 + Len(Tail(h.work[t])) = h.pending  BY <1>1, <1>3
    <3> QED  BY <1>5, <2>1, <3>1
  <2>2. CASE u # t
    <3>1. h.done[u] + Len(h.work[u]) = h.pending  BY DEF HandleOK
    <3> QED  BY <1>5, <2>2, <3>1
  <2> QED  BY <2>1, <2>2
<1> QED  BY <1>1, <1>2, <1>3, <1>4, <1>5, <1>6 DEF HandleOK

(* wait returns once every thread has emptied its queue. *)
LEMMA WaitedKeeps ==
    ASSUME NEW h, HandleOK(h), WaitReturns(h)
    PROVE  /\ HandleOK(Waited(h)) /\ Waited(h).pending = 0 /\ Waited(h).work = h.work
           /\ \A t \in Threads : h.work[t] = << >>
<1> DEFINE d == [t \in Threads |-> h.done[t] - h.pending]
<1>1. ASSUME NEW t \in Threads
      PROVE  h.work[t] = << >> /\ h.done[t] - h.pending = 0 /\ Len(h.work[t]) = 0
  <2>1. h.work[t] \in Seq(Requests) /\ h.done[t] \in Nat /\ h.pending \in Nat
        /\ h.done[t] + Len(h.work[t]) = h.pending /\ h.done[t] >= h.pending
    BY DEF HandleOK, WaitReturns
  <2>2. Len(h.work[t]) \in Nat  BY <2>1
  <2>3. Len(h.work[t]) = 0 /\ h.done[t] - h.pending = 0  BY <2>1, <2>2
  <2> QED  BY <2>1, <2>3
<1>2. d \in [Threads -> Nat] /\ \A t \in Threads : d[t] = 0  BY <1>1
<1> HIDE DEF d
<1>3. Waited(h) = [h EXCEPT !.done = d, !.pending = 0]  BY DEF Waited, d
<1>4. /\ Waited(h) \in [work : [Threads -> Seq(Requests)], done : [Threads -> Nat], pending : Nat]
      /\ Waited(h).work = h.work /\ Waited(h).done = d /\ Waited(h).pending = 0
  <2>1. PICK g : g = Waited(h)  OBVIOUS
  <2>2. g = [h EXCEPT !.done = d, !.pending = 0]  BY <1>3, <2>1
  <2>3. /\ g \in [work : [Threads -> Seq(Requests)], done : [Threads -> Nat], pending : Nat]
        /\ g.work = h.work /\ g.done = d /\ g.pending = 0
    BY <1>2, <2>2 DEF HandleOK
  <2> QED BY <2>1, <2>3
<1>5. \A t \in Threads : Waited(h).done[t] + Len(Waited(h).work[t]) = Waited(h).pending
  BY <1>1, <1>2, <1>4
<1>6. HandleOK(Waited(h))  BY <1>4, <1>5 DEF HandleOK
<1> QED  BY <1>1, <1>4, <1>6

(* No operation belongs to sub-group 0, so the absent one differs from all
   others. *)
LEMMA NoneFacts ==
    /\ None.group = 0 /\ None.buffers = << >> /\ None.states = << >> /\ None.count = 0
    /\ \A op : op.group # 0 => op # None
    /\ None \in Operations
BY DEF None, Operations

(* What the types say of the parts. *)
LEMMA Types ==
    ASSUME TypeOK
    PROVE  /\ cfg \in Configs /\ cfg.buffers \in Nat /\ Buffers = 1 .. cfg.buffers /\ 0 \notin Buffers
           /\ cfg.swappable \subseteq Groups /\ group \in Groups /\ group \in Nat /\ group # 0
           /\ Groups \subseteq Nat /\ 0 \notin Groups
           /\ \A g \in Groups : /\ info[g].tensors \in 1 .. NumStates
                                /\ info[g].tensors \in Nat /\ info[g].tensors >= 1
                                /\ info[g].tensors <= NumStates
                                /\ info[g].swapped \subseteq Pieces
                                /\ info[g].unswapped \subseteq GradFiles \X Nat
           /\ \A x \in {"sync_in", "async_in", "sync_out", "async_out"} :
                 /\ ops[x] \in Operations /\ ops[x].buffers \in Seq(Buffers)
                 /\ ops[x].states \in Seq(Buffers) /\ ops[x].count \in Nat
                 /\ ops[x].group \in {0} \cup Groups
           /\ \A b \in Buffers : grads.fill[b] \in Seq(GradFiles)
           /\ grads.all \in Seq(Buffers) /\ grads.free \in Seq(Buffers)
           /\ grads.swapping \in Seq(Buffers) /\ grads.current \in {0} \cup Buffers
           /\ \A b \in Buffers, p \in Pieces, t \in Threads : memory[b][p][t] \in Tensors
           /\ \A f \in Files, t \in Threads : disk[f][t] \in Tensors
           /\ \A f \in Files : Newest(f) \in Tensors
<1>1. cfg \in Configs /\ group \in cfg.swappable /\ NumStates \in Nat /\ NumStates > 0
      /\ Groups = 1 .. NumGroups /\ NumGroups \in Nat /\ batch \in Nat
      /\ updates \in [Groups -> Nat]
  BY Constants DEF TypeOK
<1>2. cfg.buffers \in Nat /\ Buffers = 1 .. cfg.buffers /\ 0 \notin Buffers
      /\ cfg.swappable \subseteq Groups
  BY <1>1, ConfigFacts DEF Buffers
<1>3. Groups \subseteq Nat /\ 0 \notin Groups /\ group \in Groups /\ group \in Nat /\ group # 0
  BY <1>1, <1>2
<1>4. ASSUME NEW g \in Groups
      PROVE  /\ info[g].tensors \in 1 .. NumStates
             /\ info[g].swapped \subseteq Pieces
             /\ info[g].unswapped \subseteq GradFiles \X Nat
  <2>1. info[g] \in [tensors : {1, NumStates}, swapped : SUBSET Pieces,
                     unswapped : SUBSET (GradFiles \X Nat)]
    BY DEF TypeOK, Parameters
  <2>2. 1 \in 1 .. NumStates /\ NumStates \in 1 .. NumStates  BY <1>1
  <2> QED  BY <2>1, <2>2
<1>5. \A n \in 1 .. NumStates : n \in Nat /\ n >= 1 /\ n <= NumStates  BY <1>1
<1>6. ASSUME NEW x \in {"sync_in", "async_in", "sync_out", "async_out"}
      PROVE  /\ ops[x] \in Operations /\ ops[x].buffers \in Seq(Buffers)
             /\ ops[x].states \in Seq(Buffers) /\ ops[x].count \in Nat
             /\ ops[x].group \in {0} \cup Groups
  <2>1. ops[x] \in Operations  BY <1>6 DEF TypeOK
  <2> QED  BY <2>1 DEF Operations
<1>7. /\ \A b \in Buffers : grads.fill[b] \in Seq(GradFiles)
      /\ grads.all \in Seq(Buffers) /\ grads.free \in Seq(Buffers)
      /\ grads.swapping \in Seq(Buffers) /\ grads.current \in {0} \cup Buffers
  BY DEF TypeOK, Swappers
<1>8. /\ \A b \in Buffers, p \in Pieces, t \in Threads : memory[b][p][t] \in Tensors
      /\ \A f \in Files, t \in Threads : disk[f][t] \in Tensors
  BY DEF TypeOK, Swappers
<1>9. ASSUME NEW f \in Files PROVE Newest(f) \in Tensors
  <2>1. CASE \E g \in Groups, k \in States : f = StateFile(g, k)
    <3>1. PICK g \in Groups, k \in States : f = StateFile(g, k)  BY <2>1
    <3>2. Newest(f) = <<f, updates[g]>> /\ updates[g] \in Nat
      BY <1>1, <3>1, FileFacts
    <3> QED  BY <3>2 DEF Tensors
  <2>2. CASE \E g \in Groups, p \in Pieces : f = GradFile(g, p)
    <3>1. Newest(f) = <<f, batch>>  BY <2>2, FileFacts
    <3> QED  BY <1>1, <3>1 DEF Tensors
  <2> QED  BY <2>1, <2>2 DEF Files
<1> QED  BY <1>1, <1>2, <1>3, <1>4, <1>5, <1>6, <1>7, <1>8, <1>9

(* Where the gradient swapper has no buffer. *)
LEMMA NoGradients ==
    ASSUME TypeOK, GradsOK, ~HasBuffers
    PROVE  /\ grads.all = << >> /\ grads.free = << >> /\ grads.swapping = << >>
           /\ grads.current = 0 /\ grads.pending = 0
           /\ \A b \in Buffers : grads.fill[b] = << >>
           /\ \A r : ~GradWrite(r)
           /\ \A t \in Threads : Queue(t) = writes.work[t]
<1>1. /\ grads.all = << >> /\ grads.free = << >> /\ grads.swapping = << >>
      /\ grads.current = 0 /\ grads.pending = 0
  BY DEF GradsOK, HasBuffers
<1>2. ToSet(grads.swapping) = {}  BY <1>1 DEF ToSet
<1>3. \A b \in Buffers : grads.fill[b] = << >>
  BY <1>1, <1>2, Types DEF GradsOK, Partition
<1>4. \A r : ~GradWrite(r)  BY <1>2 DEF GradWrite
<1>5. ASSUME NEW t \in Threads PROVE Queue(t) = writes.work[t]
  <2>1. writes.work[t] \in Seq(Requests)  BY DEF TypeOK, HandleOK
  <2>2. Queue(t) = writes.work[t] \o << >>  BY <1>1 DEF Queue
  <2> QED  BY <2>1, <2>2, ConcatEmptySeq
<1> QED  BY <1>1, <1>3, <1>4, <1>5

(* A handle with nothing pending has no work. *)
LEMMA Idle ==
    ASSUME NEW h, HandleOK(h), h.pending = 0
    PROVE  \A t \in Threads : h.work[t] = << >>
<1> SUFFICES ASSUME NEW t \in Threads PROVE h.work[t] = << >>  OBVIOUS
<1>1. h.work[t] \in Seq(Requests) /\ h.done[t] \in Nat /\ h.done[t] + Len(h.work[t]) = 0
  BY DEF HandleOK
<1>2. Len(h.work[t]) \in Nat  BY <1>1
<1>3. Len(h.work[t]) = 0  BY <1>1, <1>2
<1> QED  BY <1>1, <1>3

(* While gradients are gathered or written no operation is in progress. *)
LEMMA NoOperation ==
    ASSUME TypeOK, Progress, Gathering \/ at = "flush" \/ HasBuffers
    PROVE  /\ ops.sync_in = None /\ ops.async_in = None /\ ops.sync_out = None /\ ops.async_out = None
           /\ Reading = None /\ Writing = None
BY DEF Progress, Gathering, Reading, Writing, Places, TypeOK

(* Where an operation is in progress the gradient swapper has no buffer. *)
LEMMA Operating ==
    ASSUME TypeOK, Progress, GradsOK, Reading # None \/ Writing # None
    PROVE  ~HasBuffers /\ ~Gathering /\ at # "flush"
BY NoOperation

(* The operation whose reads (or writes) are under way is about a sub-group
   that can be swapped, and holds buffers of its own. *)
LEMMA ReadingFacts ==
    ASSUME TypeOK, Progress, OpsOK
    PROVE  /\ Reading # None =>
                 /\ Reading.group \in cfg.swappable /\ Reading.group \in Groups
                 /\ InOp(Reading) /\ Reading.buffers \in Seq(Buffers)
                 /\ \E x \in {"sync_in", "async_in"} : Reading = ops[x]
                                                      /\ Reading.buffers = Holding[x]
           /\ Writing # None =>
                 /\ Writing.group \in cfg.swappable /\ Writing.group \in Groups
                 /\ OutOp(Writing) /\ Writing.buffers \in Seq(Buffers) /\ Writing.states \in Seq(Buffers)
                 /\ \E x \in {"sync_out", "async_out"} : Writing = ops[x]
                                                      /\ Writing.buffers = Holding[x]
           /\ Reading # None /\ Writing # None => Writing.group < Reading.group
<1>1. /\ cfg.swappable \subseteq Groups /\ group \in cfg.swappable /\ Groups \subseteq Nat
      /\ cfg \in Configs /\ group \in Nat
  BY Types DEF TypeOK
<1>2. Holding["sync_in"] = ops.sync_in.buffers /\ Holding["async_in"] = ops.async_in.buffers
      /\ Holding["sync_out"] = ops.sync_out.buffers /\ Holding["async_out"] = ops.async_out.buffers
  BY DEF Holding, Slots
<1>3. /\ ops.sync_in # None => ops.sync_in.group = group /\ InOp(ops.sync_in)
      /\ ops.sync_out # None => ops.sync_out.group = group /\ OutOp(ops.sync_out) /\ at = "wait_out"
      /\ ops.async_out # None => /\ ops.async_out.group \in cfg.swappable /\ OutOp(ops.async_out)
                                 /\ ops.async_out.group < group
      /\ ops.async_in # None => InOp(ops.async_in)
  BY DEF Progress, OpsOK
<1>4. ops.async_in # None => ops.async_in.group \in cfg.swappable /\ ops.async_in.group >= group
                             /\ (at # "swap_in" => ops.async_in.group > group)
  <2>1. Following(group) # {} => First(Following(group)) \in cfg.swappable
                                 /\ First(Following(group)) > group
    BY <1>1, FollowingFacts
  <2>2. group >= group  BY <1>1
  <2> SUFFICES ASSUME ops.async_in # None
               PROVE  ops.async_in.group \in cfg.swappable /\ ops.async_in.group >= group
                      /\ (at # "swap_in" => ops.async_in.group > group)
    OBVIOUS
  <2>3. IF at = "swap_in" THEN ops.async_in.group = group
        ELSE Following(group) # {} /\ ops.async_in.group = First(Following(group))
    BY DEF Progress
  <2>4. CASE at = "swap_in"  BY <1>1, <2>2, <2>3, <2>4
  <2>5. CASE at # "swap_in"
    <3>1. ops.async_in.group \in cfg.swappable /\ ops.async_in.group > group
      BY <2>1, <2>3, <2>5
    <3>2. ops.async_in.group \in Nat  BY <1>1, <3>1
    <3>3. ops.async_in.group >= group  BY <1>1, <3>1, <3>2
    <3> QED  BY <3>1, <3>3
  <2> QED  BY <2>4, <2>5
<1>5. /\ Reading # None => /\ Reading = IF at = "wait_in" THEN ops.sync_in ELSE ops.async_in
                           /\ Reading.group \in cfg.swappable /\ InOp(Reading)
                           /\ Reading.group >= group
                           /\ Reading.group > group \/ at \in {"wait_in", "swap_in"}
  <2>1. group >= group  BY <1>1
  <2> QED  BY <1>1, <1>3, <1>4, <2>1 DEF Reading
<1>6. Writing # None => /\ Writing = IF ops.sync_out # None THEN ops.sync_out ELSE ops.async_out
                        /\ Writing.group \in cfg.swappable /\ OutOp(Writing)
                        /\ (Writing.group < group \/ (Writing.group = group /\ at = "wait_out"))
  BY <1>1, <1>3 DEF Writing
<1>7. \A x \in {"sync_in", "async_in", "sync_out", "async_out"} :
         ops[x].buffers \in Seq(Buffers) /\ ops[x].states \in Seq(Buffers)
  BY Types
<1>8. Reading # None /\ Writing # None => Writing.group < Reading.group
  <2> SUFFICES ASSUME Reading # None, Writing # None PROVE Writing.group < Reading.group
    OBVIOUS
  <2>1. Reading.group \in Nat /\ Writing.group \in Nat /\ group \in Nat
    BY <1>1, <1>5, <1>6
  <2>2. CASE at = "wait_out"
    <3>1. Reading.group > group /\ Writing.group <= group
      BY <1>5, <1>6, <2>1, <2>2
    <3> QED  BY <2>1, <3>1
  <2>3. CASE at # "wait_out"
    <3>1. Writing.group < group /\ Reading.group >= group  BY <1>5, <1>6, <2>3
    <3> QED  BY <2>1, <3>1
  <2> QED  BY <2>2, <2>3
<1>9. Reading # None => /\ Reading.buffers \in Seq(Buffers)
                        /\ \E x \in {"sync_in", "async_in"} : Reading = ops[x]
                                                      /\ Reading.buffers = Holding[x]
  BY <1>2, <1>5, <1>7
<1>10. Writing # None => /\ Writing.buffers \in Seq(Buffers) /\ Writing.states \in Seq(Buffers)
                         /\ \E x \in {"sync_out", "async_out"} : Writing = ops[x]
                                                      /\ Writing.buffers = Holding[x]
  BY <1>2, <1>6, <1>7
<1> QED  BY <1>1, <1>5, <1>6, <1>8, <1>9, <1>10

(* The requests of a read: each fills its own pieces of its own buffer. *)
LEMMA WantedFacts ==
    ASSUME TypeOK, Pool, Remembered, NEW x \in {"sync_in", "async_in"},
           InOp(ops[x]), ops[x].group \in Groups
    PROVE  /\ \A r \in Wanted(ops[x]) :
                 /\ r \in Requests /\ r.read = TRUE /\ r.buffer \in ToSet(ops[x].buffers)
                 /\ r.buffer \in Buffers /\ r.pieces \subseteq Pieces /\ r.file \in Files
                 /\ \/ \E k \in 1 .. info[ops[x].group].tensors :
                          /\ r.file = StateFile(ops[x].group, k) /\ r.pieces = Pieces
                          /\ r.buffer = ops[x].buffers[k]
                    \/ \E p \in info[ops[x].group].swapped :
                          /\ r.file = GradFile(ops[x].group, p) /\ r.pieces = {p}
                          /\ r.buffer = Last(ops[x].buffers) /\ batch > 0
           /\ \A r, s \in Wanted(ops[x]) : \A p \in r.pieces \cap s.pieces :
                 r.buffer = s.buffer => r = s
           /\ batch > 0 => \A r \in Wanted(ops[x]) : \A p \in r.pieces :
                 r.buffer = Last(ops[x].buffers) => p \in info[ops[x].group].swapped
<1> DEFINE o == ops[x]  g == o.group  m == info[g].tensors  n == Len(o.buffers)
<1>1. /\ o.buffers \in Seq(Buffers) /\ g \in Groups /\ m \in 1 .. NumStates /\ m \in Nat /\ m >= 1
      /\ info[g].swapped \subseteq Pieces /\ batch \in Nat
  BY Types DEF TypeOK
<1>2. n = m + (IF batch = 0 THEN 0 ELSE 1) /\ n \in Nat  BY <1>1 DEF InOp
<1>3. \A i, j \in 1 .. n : o.buffers[i] = o.buffers[j] => i = j
  <2>1. Holding[x] = o.buffers /\ x \in Slots  BY DEF Holding, Slots
  <2>2. DOMAIN o.buffers = 1 .. n  BY <1>1
  <2> QED  BY <2>1, <2>2 DEF Pool, Owned
<1>4. batch = 0 => info[g].swapped = {}  BY <1>1 DEF Remembered
<1>5. Last(o.buffers) = o.buffers[n]  BY DEF Last
<1>6. \A k \in 1 .. m : k \in 1 .. n /\ k \in States /\ StateFile(g, k) \in Files
  <2>1. \A k \in 1 .. m : k \in 1 .. n /\ k \in States
    BY <1>1, <1>2, Constants
  <2> QED  BY <1>1, <2>1, FileFacts
<1>7. n \in 1 .. n /\ (batch > 0 => \A k \in 1 .. m : k # n)  BY <1>1, <1>2
<1>8. \A i \in 1 .. n : o.buffers[i] \in Buffers /\ o.buffers[i] \in ToSet(o.buffers)
  BY <1>1 DEF ToSet
<1>9. Wanted(o) = {Request(TRUE, o.buffers[k], Pieces, StateFile(g, k)) : k \in 1 .. m}
          \cup {Request(TRUE, Last(o.buffers), {p}, GradFile(g, p)) : p \in info[g].swapped}
  BY DEF Wanted
<1>10. \A p \in info[g].swapped : p \in Pieces /\ GradFile(g, p) \in Files /\ batch > 0
  BY <1>1, <1>4, FileFacts
<1> HIDE DEF o, g, m, n
<1> DEFINE st(k) == Request(TRUE, o.buffers[k], Pieces, StateFile(g, k))
           gr(p) == Request(TRUE, Last(o.buffers), {p}, GradFile(g, p))
<1>11. \A k \in 1 .. m : /\ st(k) \in Requests /\ st(k).read = TRUE /\ st(k).buffer = o.buffers[k]
                         /\ st(k).pieces = Pieces /\ st(k).file = StateFile(g, k)
  BY <1>6, <1>8 DEF Request, Requests
<1>12. \A p \in info[g].swapped :
           /\ gr(p) \in Requests /\ gr(p).read = TRUE /\ gr(p).buffer = o.buffers[n]
           /\ gr(p).pieces = {p} /\ gr(p).file = GradFile(g, p)
  BY <1>5, <1>7, <1>8, <1>10 DEF Request, Requests
<1>13. \A r \in Wanted(o) : \/ \E k \in 1 .. m : r = st(k)
                            \/ \E p \in info[g].swapped : r = gr(p)
  BY <1>9
<1> HIDE DEF st, gr
<1>14. ASSUME NEW r \in Wanted(o)
       PROVE  /\ r \in Requests /\ r.read = TRUE /\ r.buffer \in ToSet(o.buffers)
              /\ r.buffer \in Buffers /\ r.pieces \subseteq Pieces /\ r.file \in Files
              /\ \/ \E k \in 1 .. m : /\ r.file = StateFile(g, k) /\ r.pieces = Pieces
                                      /\ r.buffer = o.buffers[k]
                 \/ \E p \in info[g].swapped :
                       /\ r.file = GradFile(g, p) /\ r.pieces = {p}
                       /\ r.buffer = Last(o.buffers) /\ batch > 0
  <2>1. ASSUME NEW k \in 1 .. m, r = st(k)
        PROVE  <1>14!2
    BY <1>6, <1>8, <1>11, <2>1
  <2>2. ASSUME NEW p \in info[g].swapped, r = gr(p)
        PROVE  <1>14!2
    BY <1>5, <1>7, <1>8, <1>10, <1>12, <2>2
  <2> QED  BY <1>13, <2>1, <2>2
<1>15. ASSUME NEW r \in Wanted(o), NEW s \in Wanted(o), NEW p \in r.pieces \cap s.pieces,
              r.buffer = s.buffer
       PROVE  r = s
  <2>1. CASE (\E k \in 1 .. m : r = st(k)) /\ (\E k \in 1 .. m : s = st(k))
    BY <1>3, <1>6, <1>11, <1>15, <2>1
  <2>2. CASE (\E k \in 1 .. m : r = st(k)) /\ (\E q \in info[g].swapped : s = gr(q))
    BY <1>3, <1>6, <1>7, <1>10, <1>11, <1>12, <1>15, <2>2
  <2>3. CASE (\E q \in info[g].swapped : r = gr(q)) /\ (\E k \in 1 .. m : s = st(k))
    BY <1>3, <1>6, <1>7, <1>10, <1>11, <1>12, <1>15, <2>3
  <2>4. CASE (\E q \in info[g].swapped : r = gr(q)) /\ (\E q \in info[g].swapped : s = gr(q))
    <3>1. PICK q1 \in info[g].swapped, q2 \in info[g].swapped : r = gr(q1) /\ s = gr(q2)
      BY <2>4
    <3>2. p \in {q1} /\ p \in {q2}  BY <1>12, <1>15, <3>1
    <3> QED  BY <3>1, <3>2
  <2> QED  BY <1>13, <2>1, <2>2, <2>3, <2>4
<1>16. ASSUME batch > 0, NEW r \in Wanted(o), NEW p \in r.pieces, r.buffer = Last(o.buffers)
       PROVE  p \in info[g].swapped
  <2>1. CASE \E k \in 1 .. m : r = st(k)
    BY <1>3, <1>5, <1>6, <1>7, <1>11, <1>16, <2>1
  <2>2. CASE \E q \in info[g].swapped : r = gr(q)
    <3>1. PICK q \in info[g].swapped : r = gr(q)  BY <2>2
    <3>2. p \in {q}  BY <1>12, <1>16, <3>1
    <3> QED  BY <3>2
  <2> QED  BY <1>13, <2>1, <2>2
<1> QED  BY <1>14, <1>15, <1>16 DEF o, g, m

(* What a request that has not reached a thread transfers. *)
LEMMA WriteFacts ==
    ASSUME TypeOK, Progress, OpsOK, GradsOK, WritesOK, Filling,
           NEW t \in Threads, NEW i \in DOMAIN writes.work[t]
    PROVE  LET r == writes.work[t][i] IN
           /\ r.read = FALSE /\ r.buffer \in Buffers /\ r.pieces \subseteq Pieces /\ r.pieces # {}
           /\ r.file \in Files
           /\ \E v \in Tensors :
                 /\ \A p \in r.pieces : memory[r.buffer][p][t] = v
                 /\ v[1] = r.file
                 /\ Writing # None => v = Newest(r.file)
           /\ \/ /\ Writing # None /\ r.buffer \in ToSet(Writing.buffers) /\ r.pieces = Pieces
                 /\ \E k \in States : r.file = StateFile(Writing.group, k)
              \/ /\ Writing = None /\ HasBuffers /\ GradWrite(r) /\ r.buffer \in ToSet(grads.swapping)
                 /\ r.buffer \in ToSet(grads.all) /\ r.file \in GradFiles
                 /\ \E q \in DOMAIN grads.fill[r.buffer] : r.pieces = {q} /\ r.file = grads.fill[r.buffer][q]
<1> DEFINE r == writes.work[t][i]
<1>1. r \in Requests
  <2>1. writes.work[t] \in Seq(Requests)  BY DEF TypeOK, HandleOK
  <2> QED  BY <2>1
<1>2. r.read \in BOOLEAN /\ r.buffer \in Buffers /\ r.pieces \subseteq Pieces /\ r.file \in Files
  BY <1>1 DEF Requests
<1>3. StateWrite(r, t) \/ GradWrite(r)  BY DEF WritesOK
<1>4. \A p \in Pieces : memory[r.buffer][p][t] \in Tensors  BY <1>2, Types
<1>5. Newest(r.file) \in Tensors /\ Newest(r.file)[1] = r.file
  BY <1>2, Types DEF Newest
<1> HIDE DEF r
<1>6. CASE StateWrite(r, t)
  <2>1. Writing # None /\ \A p \in r.pieces : memory[r.buffer][p][t] = Newest(r.file)
    BY <1>2, <1>6 DEF StateWrite
  <2>2. PICK k \in States : r = Request(FALSE, Writing.states[k], Pieces, StateFile(Writing.group, k))
    BY <1>6 DEF StateWrite
  <2>3. r.read = FALSE /\ r.pieces = Pieces /\ r.buffer = Writing.states[k] /\ r.file = StateFile(Writing.group, k)
    BY <2>2 DEF Request
  <2>4. OutOp(Writing) /\ Writing.states \in Seq(Buffers)
    BY <2>1, ReadingFacts
  <2>5. r.buffer \in ToSet(Writing.buffers)
    <3>1. k \in DOMAIN Writing.states  BY <2>4, Constants DEF OutOp
    <3>2. r.buffer \in ToSet(Writing.states)  BY <2>3, <3>1 DEF ToSet
    <3> QED  BY <2>4, <3>2 DEF OutOp
  <2>6. r.pieces # {}  BY SMTT(60), <2>3, Constants
  <2> QED  BY <1>2, <1>5, <2>1, <2>3, <2>5, <2>6 DEF r
<1>7. CASE GradWrite(r)
  <2>1. PICK q \in DOMAIN grads.fill[r.buffer] :
             r = Request(FALSE, r.buffer, {q}, grads.fill[r.buffer][q])
    BY <1>7 DEF GradWrite
  <2>2. r.read = FALSE /\ r.pieces = {q} /\ r.file = grads.fill[r.buffer][q]
    BY <2>1 DEF Request
  <2>3. r.buffer \in ToSet(grads.swapping) /\ r.buffer \in ToSet(grads.all)
    BY <1>7 DEF GradWrite, GradsOK, Partition
  <2>4. HasBuffers  BY <2>3 DEF HasBuffers, ToSet
  <2>5. Writing = None  BY <2>4, NoOperation
  <2>6. grads.fill[r.buffer] \in Seq(GradFiles)  BY <1>2, Types
  <2>7. r.file \in GradFiles  BY <2>2, <2>6
  <2>8. memory[r.buffer][q][t][1] = r.file  BY <1>2, <2>2 DEF Filling
  <2>9. q \in Pieces /\ memory[r.buffer][q][t] \in Tensors  BY <1>2, <1>4, <2>2
  <2>10. r.pieces # {} /\ \E v \in Tensors :
                 /\ \A p \in r.pieces : memory[r.buffer][p][t] = v
                 /\ v[1] = r.file
    BY <2>2, <2>8, <2>9
  <2> QED  BY <1>2, <1>7, <2>2, <2>3, <2>4, <2>5, <2>7, <2>10 DEF r
<1> QED  BY <1>3, <1>6, <1>7

(* What is read and what is written are never in the same buffer. *)
LEMMA ReadersApart ==
    ASSUME TypeOK, Pool, Progress, OpsOK, GradsOK, Remembered, Reading # None,
           NEW b \in ToSet(Reading.buffers)
    PROVE  /\ Writing # None => b \notin ToSet(Writing.buffers)
           /\ b \notin ToSet(grads.all) /\ b \notin ToSet(free)
           /\ at # "wait_in" => b \notin ToSet(ops.sync_in.buffers)
<1>1. PICK x \in {"sync_in", "async_in"} : Reading = ops[x] /\ Reading.buffers = Holding[x]
  BY ReadingFacts
<1>2. x \in Slots /\ {"all", "free", "sync_out", "async_out", "sync_in", "async_in"} \subseteq Slots
  BY DEF Slots
<1>3. Owned(Holding, Buffers, cfg.buffers)  BY DEF Pool
<1>4. \A y \in Slots : y # x => b \notin ToSet(Holding[y])
  BY <1>1, <1>2, <1>3, Apart
<1>5. Holding["all"] = grads.all /\ Holding["free"] = free /\ Holding["sync_in"] = ops.sync_in.buffers
  BY <1>2 DEF Holding
<1>6. Writing # None => b \notin ToSet(Writing.buffers)
  BY <1>2, <1>4, ReadingFacts
<1>7. at # "wait_in" => b \notin ToSet(ops.sync_in.buffers)
  <2> SUFFICES ASSUME at # "wait_in" PROVE b \notin ToSet(ops.sync_in.buffers)
    OBVIOUS
  <2>1. Reading = ops.async_in /\ Reading.buffers = Holding["async_in"]
    BY <1>2 DEF Reading, Holding
  <2>2. b # b \/ b \notin ToSet(Holding["sync_in"])  BY <1>2, <1>3, <2>1, Apart
  <2> QED  BY <1>5, <2>2
<1> QED  BY <1>2, <1>4, <1>5, <1>6, <1>7

(* The parts of the invariant that a transfer leaves alone. *)
Settled == TypeOK /\ Pool /\ Progress /\ Created /\ OpsOK /\ GradsOK /\ Remembered /\ SmallKept

(* What only the host's variables decide is kept by a step of a thread. *)
LEMMA HostKept ==
    ASSUME Settled, UNCHANGED <<cfg, at, group, batch, arrived, updates, free, grads, info, ops>>
    PROVE  (Pool /\ Progress /\ Created /\ OpsOK /\ GradsOK /\ Remembered /\ SmallKept)'
<1>1. Pool'  BY DEF Settled, Pool, Holding, Slots, Buffers
<1>2. Progress'
  BY DEF Settled, Progress, HasBuffers, Gathering, Following, First
<1>3. Created'  BY DEF Settled, Created
<1>4. OpsOK'  BY DEF Settled, OpsOK, InOp, OutOp
<1>5. GradsOK'
  BY ZenonT(60) DEF Settled, GradsOK, Partition, HasBuffers, Buffers
<1>6. Remembered'  BY DEF Settled, Remembered
<1>7. SmallKept'  BY DEF Settled, SmallKept, Taken, Gathering
<1> QED  BY <1>1, <1>2, <1>3, <1>4, <1>5, <1>6, <1>7

(* What the files hold of the sub-group that is read. *)
LEMMA WantedOnDisk ==
    ASSUME SwapInv, Reading # None, NEW r \in Wanted(Reading), NEW t \in Threads
    PROVE  disk[r.file][t] = Newest(r.file)
<1>1. ~HasBuffers /\ ~Gathering  BY Operating DEF SwapInv
<1>2. PICK x \in {"sync_in", "async_in"} : Reading = ops[x]
  BY ReadingFacts DEF SwapInv
<1>3. /\ Reading.group \in cfg.swappable /\ Reading.group \in Groups /\ InOp(Reading)
      /\ Writing # None => Writing.group < Reading.group
  BY ReadingFacts DEF SwapInv
<1> DEFINE g == Reading.group
<1>4. \A i \in DOMAIN writes.work[t] :
          Writing # None /\ \E k \in States : writes.work[t][i].file = StateFile(Writing.group, k)
  BY <1>1, WriteFacts DEF SwapInv
<1>5. \A i \in DOMAIN writes.work[t] :
          /\ \A k : writes.work[t][i].file # StateFile(g, k)
          /\ \A k : writes.work[t][i].file # GradFile(g, k)
  <2>1. Writing # None => Writing.group # g
    BY <1>3, Types, ReadingFacts DEF SwapInv
  <2> QED  BY <1>4, <2>1, FileFacts
<1>6. CASE \E k \in 1 .. info[g].tensors : r.file = StateFile(g, k)
  <2>1. PICK k \in 1 .. info[g].tensors : r.file = StateFile(g, k)  BY <1>6
  <2>2. ~(g = group /\ at = "swap_out")
    <3> SUFFICES ASSUME at = "swap_out" PROVE g # group  OBVIOUS
    <3>1. Reading = ops.async_in /\ ops.async_in.group = First(Following(group)) /\ Following(group) # {}
      BY DEF SwapInv, Progress, Reading
    <3>2. First(Following(group)) > group /\ group \in Nat
      BY <3>1, FollowingFacts, Types DEF SwapInv, TypeOK
    <3> QED  BY <3>1, <3>2
  <2> QED  BY <1>3, <1>5, <2>1, <2>2 DEF SwapInv, StatesOnDisk
<1>7. CASE \E p \in info[g].swapped : r.file = GradFile(g, p) /\ batch > 0
  <2>1. PICK p \in info[g].swapped : r.file = GradFile(g, p)  BY <1>7
  <2>2. p \in Pieces /\ <<g, p>> \in cfg.large
    BY <1>3, <2>1, Types DEF SwapInv, Remembered
  <2>3. arrived = cfg.swappable \X Pieces  BY <1>1, <1>7 DEF SwapInv, Progress
  <2>4. <<g, p>> \in arrived \cap cfg.large /\ at # "no_space"
    BY <1>1, <1>3, <2>2, <2>3 DEF Gathering
  <2>5. InDirection(GradFile(g, p), t)
    BY <1>3, <2>2, <2>4 DEF SwapInv, LargeKept
  <2>6. Queue(t) = writes.work[t]  BY <1>1, NoGradients DEF SwapInv
  <2>7. disk[GradFile(g, p)][t] = Newest(GradFile(g, p))
    BY <1>5, <2>5, <2>6 DEF InDirection, Directed
  <2> QED  BY <2>1, <2>7
<1>8. r \in Wanted(ops[x]) /\ InOp(ops[x]) /\ ops[x].group \in Groups /\ ops[x].group = g
  BY <1>2, <1>3
<1>9. TypeOK /\ Pool /\ Remembered  BY DEF SwapInv
<1>10. \/ \E k \in 1 .. info[ops[x].group].tensors : r.file = StateFile(ops[x].group, k)
       \/ \E p \in info[ops[x].group].swapped : r.file = GradFile(ops[x].group, p) /\ batch > 0
  <2>1. /\ r.read = TRUE /\ r.buffer \in ToSet(ops[x].buffers)
        /\ r.buffer \in Buffers /\ r.pieces \subseteq Pieces /\ r.file \in Files
        /\ \/ \E k \in 1 .. info[ops[x].group].tensors :
                 /\ r.file = StateFile(ops[x].group, k) /\ r.pieces = Pieces
                 /\ r.buffer = ops[x].buffers[k]
           \/ \E p \in info[ops[x].group].swapped :
                 /\ r.file = GradFile(ops[x].group, p) /\ r.pieces = {p}
                 /\ r.buffer = Last(ops[x].buffers) /\ batch > 0
    <3> USE <1>2, <1>8, <1>9
    <3> QED  BY WantedFacts, Zenon
  <2> QED  BY <2>1
<1> HIDE DEF g
<1> QED  BY <1>6, <1>7, <1>8, <1>10

(* A thread of the reading handle reads the newest of a file into its share
   of a buffer that nobody else has. *)
LEMMA ReadEffect ==
    ASSUME SwapInv, NEW t \in Threads, ReadThread(t)
    PROVE  /\ Reading # None
           /\ \E r \in Wanted(Reading) :
                 /\ reads.work[t][1] = r /\ r.buffer \in ToSet(Reading.buffers)
                 /\ memory' \in [Buffers -> [Pieces -> [Threads -> Tensors]]]
                 /\ \A b \in Buffers, p \in Pieces, u \in Threads :
                       memory'[b][p][u] = IF b = r.buffer /\ p \in r.pieces /\ u = t
                                          THEN Newest(r.file) ELSE memory[b][p][u]
           /\ disk' = disk
<1> DEFINE h == reads.work[t]  r == Head(reads.work[t])
<1>1. h \in Seq(Requests) /\ h # << >> /\ HandleOK(reads)
  BY DEF ReadThread, SwapInv, TypeOK, HandleOK
<1>2. h[1] = r /\ 1 \in DOMAIN h  BY <1>1
<1>3. Reading # None
  <2> SUFFICES ASSUME Reading = None PROVE FALSE  OBVIOUS
  <2>1. reads.pending = 0  BY DEF SwapInv, ReadsOK
  <2> QED  BY <1>1, <2>1, Idle
<1>4. r \in Wanted(Reading)  BY <1>2, <1>3 DEF SwapInv, ReadsOK
<1>5. PICK x \in {"sync_in", "async_in"} : Reading = ops[x]
  BY <1>3, ReadingFacts DEF SwapInv
<1>6. Reading.group \in Groups /\ InOp(Reading)
  BY <1>3, ReadingFacts DEF SwapInv
<1>7. /\ r.read = TRUE /\ r.buffer \in ToSet(Reading.buffers) /\ r.buffer \in Buffers
      /\ r.pieces \subseteq Pieces /\ r.file \in Files
  BY <1>4, <1>5, <1>6, WantedFacts DEF SwapInv
<1>8. disk[r.file][t] = Newest(r.file) /\ Newest(r.file) \in Tensors
  BY ZenonT(60), <1>3, <1>4, <1>7, WantedOnDisk, Types DEF SwapInv
<1>9. /\ memory' = [memory EXCEPT ![r.buffer] = [p \in Pieces |->
                       IF p \in r.pieces THEN [memory[r.buffer][p] EXCEPT ![t] = disk[r.file][t]]
                                         ELSE memory[r.buffer][p]]]
      /\ disk' = disk
  BY <1>7 DEF ReadThread, Transfer
<1>10. memory \in [Buffers -> [Pieces -> [Threads -> Tensors]]]
  BY DEF SwapInv, TypeOK
<1> HIDE DEF r
<1> DEFINE row == [p \in Pieces |-> IF p \in r.pieces
                                    THEN [memory[r.buffer][p] EXCEPT ![t] = Newest(r.file)]
                                    ELSE memory[r.buffer][p]]
<1>11. /\ row \in [Pieces -> [Threads -> Tensors]]
       /\ \A p \in Pieces, u \in Threads :
              row[p][u] = IF p \in r.pieces /\ u = t THEN Newest(r.file) ELSE memory[r.buffer][p][u]
  BY <1>7, <1>8, <1>10
<1>12. memory' = [memory EXCEPT ![r.buffer] = row]  BY <1>8, <1>9
<1> HIDE DEF row
<1>13. memory' \in [Buffers -> [Pieces -> [Threads -> Tensors]]]
  BY <1>7, <1>10, <1>11, <1>12
<1>14. \A b \in Buffers, p \in Pieces, u \in Threads :
           memory'[b][p][u] = IF b = r.buffer /\ p \in r.pieces /\ u = t
                              THEN Newest(r.file) ELSE memory[b][p][u]
  BY <1>7, <1>10, <1>11, <1>12
<1> QED  BY <1>2, <1>3, <1>4, <1>7, <1>9, <1>13, <1>14

(* The newest tensor of every file stays when nothing is updated and no batch
   begins. *)
LEMMA NewestKept ==
    ASSUME UNCHANGED <<updates, batch>>
    PROVE  \A f : Newest(f)' = Newest(f)
BY DEF Newest

(* The states of a sub-group are in the first of its buffers. *)
LEMMA StatesOf ==
    ASSUME TypeOK, NEW o \in Operations, InOp(o), o.group \in Groups
    PROVE  /\ DOMAIN o.states = 1 .. info[o.group].tensors
           /\ Len(o.states) = info[o.group].tensors
           /\ \A k \in 1 .. info[o.group].tensors :
                 /\ o.states[k] = o.buffers[k] /\ k \in DOMAIN o.buffers
                 /\ o.states[k] \in ToSet(o.buffers) /\ o.states[k] \in Buffers
           /\ \A k \in DOMAIN o.states : o.states[k] \in ToSet(o.buffers)
           /\ Len(o.buffers) \in Nat /\ Len(o.buffers) >= info[o.group].tensors
           /\ Len(o.buffers) \in DOMAIN o.buffers
           /\ Last(o.buffers) \in ToSet(o.buffers) /\ Last(o.buffers) \in Buffers
<1> DEFINE m == info[o.group].tensors  n == Len(o.buffers)
<1>1. m \in Nat /\ m >= 1 /\ batch \in Nat /\ o.buffers \in Seq(Buffers)
  BY Types DEF TypeOK, Operations
<1>2. n = m + (IF batch = 0 THEN 0 ELSE 1) /\ n \in Nat /\ n >= m /\ n >= 1
  BY <1>1 DEF InOp
<1>3. o.states = SubSeq(o.buffers, 1, m)  BY DEF InOp
<1>4. \A k \in 1 .. n : o.buffers[k] \in Buffers /\ k \in DOMAIN o.buffers
                        /\ o.buffers[k] \in ToSet(o.buffers)
  BY <1>1 DEF ToSet
<1> HIDE DEF m, n
<1>5. 1 \in Int /\ m \in Int /\ \A i \in 1 .. m : o.buffers[i] \in Buffers /\ i \in 1 .. n
  BY <1>1, <1>2, <1>4
<1>6. /\ o.states \in Seq(Buffers)
      /\ Len(o.states) = IF 1 <= m THEN m - 1 + 1 ELSE 0
      /\ \A i \in 1 .. m - 1 + 1 : o.states[i] = o.buffers[1 + i - 1]
  BY <1>3, <1>5, SubSeqProperties
<1>7. Len(o.states) = m /\ DOMAIN o.states = 1 .. m  BY <1>1, <1>6
<1>8. \A i \in 1 .. m : o.states[i] = o.buffers[i]  BY <1>1, <1>6
<1>9. n \in 1 .. n  BY <1>2
<1> QED  BY <1>1, <1>2, <1>4, <1>5, <1>7, <1>8, <1>9 DEF m, n, Last

(* While no gradient is gathered the files have those of the batch. *)
LEMMA LargeOnDisk ==
    ASSUME SwapInv, ~HasBuffers, NEW g \in Groups, NEW p \in Pieces,
           <<g, p>> \in arrived \cap cfg.large
    PROVE  /\ p \in info[g].swapped
           /\ \A t \in Threads : disk[GradFile(g, p)][t] = <<GradFile(g, p), batch>>
<1>1. at # "no_space" /\ p \in info[g].swapped /\ \A t \in Threads : InDirection(GradFile(g, p), t)
  BY DEF SwapInv, GradsOK, LargeKept
<1>2. ASSUME NEW t \in Threads PROVE disk[GradFile(g, p)][t] = <<GradFile(g, p), batch>>
  <2>1. Queue(t) = writes.work[t]  BY NoGradients DEF SwapInv
  <2>2. ASSUME NEW i \in DOMAIN writes.work[t]
        PROVE  \E h, k : writes.work[t][i].file = StateFile(h, k)
    <3>1. TypeOK /\ Progress /\ OpsOK /\ GradsOK /\ WritesOK /\ Filling
      BY DEF SwapInv
    <3>2. \E k \in States : writes.work[t][i].file = StateFile(Writing.group, k)
      BY <3>1, WriteFacts
    <3> QED  BY <3>2
  <2>3. InDirection(GradFile(g, p), t)  BY <1>1
  <2> QED  BY SMTT(60), <2>1, <2>2, <2>3, FileFacts DEF InDirection, Directed
<1> QED  BY <1>1, <1>2

(* Gradients are kept once all of them are in their files and only states are
   still to be written. *)
LEMMA LargeKeptThere ==
    ASSUME TypeOK', grads'.current = 0,
           \A t \in Threads : \A i \in DOMAIN writes'.work[t] :
               \E h, k : writes'.work[t][i].file = StateFile(h, k),
           \A g \in Groups, p \in Pieces : <<g, p>> \in arrived' \cap cfg'.large =>
               /\ p \in info'[g].swapped
               /\ \A t \in Threads : disk'[GradFile(g, p)][t] = <<GradFile(g, p), batch'>>
    PROVE  LargeKept'
<1>1. ASSUME NEW t \in Threads PROVE Queue(t)' = writes'.work[t]
  <2>1. writes'.work[t] \in Seq(Requests')  BY DEF TypeOK, HandleOK
  <2>2. Queue(t)' = writes'.work[t] \o << >>  BY DEF Queue
  <2> QED  BY <2>1, <2>2, ConcatEmptySeq
<1>2. ASSUME NEW g \in Groups, NEW p \in Pieces, <<g, p>> \in arrived' \cap cfg'.large,
             NEW t \in Threads
      PROVE  InDirection(GradFile(g, p), t)'
  <2>1. \A j \in DOMAIN writes'.work[t] : writes'.work[t][j].file # GradFile(g, p)
    BY FileFacts
  <2>2. disk'[GradFile(g, p)][t] = <<GradFile(g, p), batch'>>  BY <1>2
  <2>3. Newest(GradFile(g, p))' = <<GradFile(g, p), batch'>>
    BY DEF Newest, GradFile
  <2> QED  BY <1>1, <2>1, <2>2, <2>3 DEF InDirection, Directed
<1> QED  BY <1>2 DEF LargeKept

(* The requests of the writing handle, where neither they nor the tensors they
   transfer are touched. *)
LEMMA WritesKept ==
    ASSUME WritesOK, UNCHANGED <<grads, writes>>, Writing' = Writing,
           \A t \in Threads : \A i \in DOMAIN writes.work[t] :
               /\ \A p \in Pieces : memory'[writes.work[t][i].buffer][p][t]
                                        = memory[writes.work[t][i].buffer][p][t]
               /\ \A f : f = writes.work[t][i].file => Newest(f)' = Newest(f)
    PROVE  WritesOK'
<1>1. ASSUME NEW t \in Threads, NEW i \in DOMAIN writes.work[t]
      PROVE  StateWrite(writes.work[t][i], t)' \/ GradWrite(writes.work[t][i])'
  <2> DEFINE r == writes.work[t][i]
  <2>1. StateWrite(r, t) \/ GradWrite(r)  BY DEF WritesOK
  <2>2. GradWrite(r) => GradWrite(r)'  BY DEF GradWrite
  <2>3. /\ \A p \in Pieces : memory'[r.buffer][p][t] = memory[r.buffer][p][t]
        /\ \A f : f = r.file => Newest(f)' = Newest(f)
    OBVIOUS
  <2>4. writes'.work[t][i] = r  OBVIOUS
  <2>5. ASSUME NEW q, StateWrite(q, t), \A p \in Pieces : memory'[q.buffer][p][t] = memory[q.buffer][p][t],
               \A f : f = q.file => Newest(f)' = Newest(f)
        PROVE  StateWrite(q, t)'
    BY <2>5 DEF StateWrite
  <2> QED  BY <2>1, <2>2, <2>3, <2>4, <2>5 DEF StateWrite
<1> QED  BY <1>1 DEF WritesOK

(* A reading thread keeps the invariant: the share it transfers is the newest
   one, unless a write of it is still queued. *)
LEMMA ReadThreadKeeps ==
    ASSUME SwapInv, NEW t \in Threads, ReadThread(t)
    PROVE  SwapInv'
<1>1. /\ TypeOK /\ Pool /\ Progress /\ Created /\ OpsOK /\ ReadsOK /\ InMemory /\ WritesOK
      /\ StatesOnDisk /\ GradsOK /\ Filling /\ Remembered /\ SmallKept /\ LargeKept
  BY DEF SwapInv
<1>2. /\ UNCHANGED <<cfg, at, group, batch, arrived, updates, free, grads, info, ops, writes, raised>>
      /\ reads' = Ran(reads, t) /\ reads.work[t] # << >>
  BY DEF ReadThread
<1>3. Reading # None /\ disk' = disk  BY ReadEffect
<1>4. PICK r \in Wanted(Reading) :
         /\ reads.work[t][1] = r /\ r.buffer \in ToSet(Reading.buffers)
         /\ memory' \in [Buffers -> [Pieces -> [Threads -> Tensors]]]
         /\ \A b \in Buffers, p \in Pieces, u \in Threads :
               memory'[b][p][u] = IF b = r.buffer /\ p \in r.pieces /\ u = t
                                  THEN Newest(r.file) ELSE memory[b][p][u]
  BY ReadEffect
<1>5. ~HasBuffers /\ ~Gathering /\ at # "flush"  BY <1>1, <1>3, Operating
<1>6. PICK x \in {"sync_in", "async_in"} : Reading = ops[x]
  BY <1>1, <1>3, ReadingFacts
<1>7. Reading.group \in Groups /\ InOp(Reading) /\ Reading.buffers \in Seq(Buffers)
  BY <1>1, <1>3, ReadingFacts
<1>8. HandleOK(reads) /\ HandleOK(writes)  BY <1>1 DEF TypeOK
<1>9. /\ HandleOK(reads') /\ reads'.pending = reads.pending
      /\ reads'.work[t] = Tail(reads.work[t])
      /\ \A u \in Threads : u # t => reads'.work[u] = reads.work[u]
      /\ Len(Tail(reads.work[t])) \in Nat /\ Len(reads.work[t]) = Len(Tail(reads.work[t])) + 1
      /\ \A i \in 1 .. Len(Tail(reads.work[t])) : Tail(reads.work[t])[i] = reads.work[t][i + 1]
      /\ \A u \in Threads : reads.work[u] \in Seq(Requests) /\ reads'.work[u] \in Seq(Requests)
  <2>1. /\ HandleOK(Ran(reads, t)) /\ Ran(reads, t).pending = reads.pending
        /\ Ran(reads, t).work[t] = Tail(reads.work[t])
        /\ \A u \in Threads : u # t => Ran(reads, t).work[u] = reads.work[u]
        /\ Len(Tail(reads.work[t])) \in Nat /\ Len(reads.work[t]) = Len(Tail(reads.work[t])) + 1
        /\ \A i \in 1 .. Len(Tail(reads.work[t])) : Tail(reads.work[t])[i] = reads.work[t][i + 1]
    BY <1>2, <1>8, RanKeeps
  <2>2. \A u \in Threads : reads.work[u] \in Seq(Requests) /\ Ran(reads, t).work[u] \in Seq(Requests)
    BY <1>8, <2>1 DEF HandleOK
  <2> QED  BY <1>2, <2>1, <2>2
<1>10. \A f : Newest(f)' = Newest(f)  BY <1>2, NewestKept
<1>11. Reading' = Reading /\ Writing' = Writing  BY <1>2 DEF Reading, Writing
<1>12. ASSUME NEW b \in Buffers, b \notin ToSet(Reading.buffers)
       PROVE  \A p \in Pieces, u \in Threads : memory'[b][p][u] = memory[b][p][u]
  BY <1>4, <1>12
<1>13. TypeOK'
  <2>1. HandleOK(reads)' /\ HandleOK(writes)'
    BY <1>2, <1>8, <1>9 DEF HandleOK, Requests, Buffers
  <2>2. (memory \in [Buffers -> [Pieces -> [Threads -> Tensors]]])'
    BY <1>2, <1>4 DEF Buffers
  <2> QED
    BY <1>1, <1>2, <1>3, <2>1, <2>2 DEF TypeOK, Operations, Swappers, Buffers
<1>14. (Pool /\ Progress /\ Created /\ OpsOK /\ GradsOK /\ Remembered /\ SmallKept)'
  BY <1>1, <1>2, HostKept DEF Settled
<1>15. Wanted(Reading)' = Wanted(Reading)  BY <1>2, <1>11 DEF Wanted
<1>16. Wanted(Reading) = Wanted(ops[x])  BY <1>6
<1>17. /\ \A q \in Wanted(Reading) : \A p \in r.pieces \cap q.pieces : r.buffer = q.buffer => r = q
       /\ \A q \in Wanted(Reading) : q.buffer \in Buffers /\ q.pieces \subseteq Pieces
       /\ batch > 0 => \A p \in r.pieces :
              r.buffer = Last(Reading.buffers) => p \in info[Reading.group].swapped
  <2>1. InOp(ops[x]) /\ ops[x].group \in Groups  BY <1>6, <1>7
  <2>2. \A q, s \in Wanted(ops[x]) : \A p \in q.pieces \cap s.pieces : q.buffer = s.buffer => q = s
    BY <1>1, <2>1, WantedFacts, Zenon
  <2>3. batch > 0 => \A q \in Wanted(ops[x]) : \A p \in q.pieces :
           q.buffer = Last(ops[x].buffers) => p \in info[ops[x].group].swapped
    BY <1>1, <2>1, WantedFacts, Zenon
  <2>4. \A q \in Wanted(ops[x]) : q.buffer \in Buffers /\ q.pieces \subseteq Pieces
    BY <1>1, <2>1, WantedFacts, Zenon
  <2> QED  BY <1>4, <1>6, <1>16, <2>2, <2>3, <2>4
<1>18. ReadsOK'
  <2>1. reads'.pending = Reading.count  BY <1>1, <1>3, <1>9 DEF ReadsOK
  <2>2. ASSUME NEW u \in Threads, NEW i \in DOMAIN reads'.work[u]
        PROVE  reads'.work[u][i] \in Wanted(Reading)
    <3>1. \A j \in DOMAIN reads.work[u] : reads.work[u][j] \in Wanted(Reading)
      BY <1>1, <1>3 DEF ReadsOK
    <3>2. CASE u # t  BY <1>9, <2>2, <3>1, <3>2
    <3>3. CASE u = t
      <4>1. i \in 1 .. Len(Tail(reads.work[t])) /\ i + 1 \in DOMAIN reads.work[t]
        <5>1. Tail(reads.work[t]) \in Seq(Requests) /\ i \in DOMAIN Tail(reads.work[t])
          BY <1>9, <2>2, <3>3
        <5>2. i \in 1 .. Len(Tail(reads.work[t]))  BY <5>1
        <5>3. i + 1 \in 1 .. Len(reads.work[t]) /\ reads.work[t] \in Seq(Requests)
          BY <1>9, <5>2
        <5> QED  BY <5>2, <5>3
      <4> QED  BY <1>9, <3>1, <3>3, <4>1
    <3> QED  BY <3>2, <3>3
  <2>3. ASSUME NEW u \in Threads, NEW q \in Wanted(Reading)
        PROVE  (\A p \in q.pieces : memory'[q.buffer][p][u] = Newest(q.file))
               \/ \E i \in DOMAIN reads'.work[u] : reads'.work[u][i] = q
    <3>1. Arrives(q, u) \/ \E i \in DOMAIN reads.work[u] : reads.work[u][i] = q
      BY <1>1, <1>3 DEF ReadsOK
    <3>2. CASE Arrives(q, u)
      <4>1. ASSUME NEW p \in q.pieces PROVE memory'[q.buffer][p][u] = Newest(q.file)
        <5>1. memory[q.buffer][p][u] = Newest(q.file) /\ p \in Pieces /\ q.buffer \in Buffers
          BY <1>17, <3>2, <4>1 DEF Arrives
        <5>2. CASE q.buffer = r.buffer /\ p \in r.pieces /\ u = t
          <6>1. r = q  BY <1>17, <4>1, <5>2
          <6> QED  BY <1>4, <5>1, <5>2, <6>1
        <5>3. CASE ~(q.buffer = r.buffer /\ p \in r.pieces /\ u = t)
          BY <1>4, <5>1, <5>3
        <5> QED  BY <5>2, <5>3
      <4> QED  BY <4>1
    <3>3. CASE \E i \in DOMAIN reads.work[u] : reads.work[u][i] = q
      <4>1. PICK i \in DOMAIN reads.work[u] : reads.work[u][i] = q  BY <3>3
      <4>2. CASE u # t  BY <1>9, <4>1, <4>2
      <4>3. CASE u = t /\ i = 1
        <5>1. q = r  BY <1>4, <4>1, <4>3
        <5> QED  BY <1>4, <1>17, <4>3, <5>1
      <4>4. CASE u = t /\ i # 1
        <5>1. i - 1 \in 1 .. Len(Tail(reads.work[t])) /\ i = (i - 1) + 1
          BY <1>9, <4>1, <4>4
        <5>2. Tail(reads.work[t])[i - 1] = q /\ i - 1 \in DOMAIN reads'.work[t]
          BY <1>9, <4>1, <4>4, <5>1
        <5> QED  BY <1>9, <4>4, <5>2
      <4> QED  BY <4>2, <4>3, <4>4
    <3> QED  BY <3>1, <3>2, <3>3
  <2>4. Copied(Reading)'
    <3> SUFFICES ASSUME batch > 0, NEW p \in Pieces \ info[Reading.group].swapped, NEW u \in Threads
                 PROVE  memory'[Last(Reading.buffers)][p][u] = Newest(GradFile(Reading.group, p))
      BY <1>2, <1>10, <1>11 DEF Copied
    <3>1. memory[Last(Reading.buffers)][p][u] = Newest(GradFile(Reading.group, p))
      BY <1>1, <1>3 DEF ReadsOK, Copied
    <3>2. Last(Reading.buffers) \in Buffers
      <4>1. Reading \in Operations  BY <1>1, <1>6, Types
      <4> QED  BY <1>1, <1>7, <4>1, StatesOf
    <3>3. ~(Last(Reading.buffers) = r.buffer /\ p \in r.pieces)  BY <1>17
    <3> QED  BY <1>4, <3>1, <3>2, <3>3
  <2> QED
    BY <1>3, <1>10, <1>11, <1>15, <2>1, <2>2, <2>3, <2>4 DEF ReadsOK, Arrives
<1>19. InMemory'
  <2>1. ASSUME at = "update", NEW u \in Threads
        PROVE  (\A q \in Wanted(ops.sync_in) : Arrives(q, u)') /\ Copied(ops.sync_in)'
    <3>1. ops.sync_in.group = group /\ ops.sync_in # None /\ InOp(ops.sync_in) /\ group \in Groups
      BY <1>1, <2>1, Types, NoneFacts DEF Progress, OpsOK
    <3>2. \A b \in ToSet(ops.sync_in.buffers) : b \notin ToSet(Reading.buffers)
      BY <1>1, <1>3, <2>1, ReadersApart
    <3>3. \A q \in Wanted(ops.sync_in) : q.buffer \in ToSet(ops.sync_in.buffers) /\ q.buffer \in Buffers
                                         /\ q.pieces \subseteq Pieces
      BY <1>1, <3>1, WantedFacts, Zenon
    <3>4. \A q \in Wanted(ops.sync_in) : Arrives(q, u)
      BY <1>1, <2>1 DEF InMemory
    <3>5. ops.sync_in \in Operations  BY <1>1, Types
    <3>6. Last(ops.sync_in.buffers) \in ToSet(ops.sync_in.buffers) /\ Last(ops.sync_in.buffers) \in Buffers
      BY <1>1, <3>1, <3>5, StatesOf
    <3>7. \A q \in Wanted(ops.sync_in) : Arrives(q, u)'
      BY <1>10, <1>12, <3>2, <3>3, <3>4 DEF Arrives
    <3>8. Copied(ops.sync_in)'
      BY <1>1, <1>2, <1>10, <1>12, <2>1, <3>2, <3>6 DEF InMemory, Copied
    <3> QED  BY <3>7, <3>8
  <2>2. ASSUME at = "swap_out", NEW k \in 1 .. info[group].tensors, NEW p \in Pieces, NEW u \in Threads
        PROVE  memory'[ops.sync_in.states[k]][p][u] = Newest(StateFile(group, k))
    <3>1. ops.sync_in.group = group /\ ops.sync_in # None /\ InOp(ops.sync_in) /\ group \in Groups
      BY <1>1, <2>2, Types, NoneFacts DEF Progress, OpsOK
    <3>2. \A b \in ToSet(ops.sync_in.buffers) : b \notin ToSet(Reading.buffers)
      BY <1>1, <1>3, <2>2, ReadersApart
    <3>3. ops.sync_in \in Operations  BY <1>1, Types
    <3>4. ops.sync_in.states[k] \in ToSet(ops.sync_in.buffers) /\ ops.sync_in.states[k] \in Buffers
      BY <1>1, <3>1, <3>3, StatesOf
    <3>5. memory[ops.sync_in.states[k]][p][u] = Newest(StateFile(group, k))
      BY <1>1, <2>2 DEF InMemory
    <3> QED  BY <1>12, <3>2, <3>4, <3>5
  <2>3. Wanted(ops.sync_in)' = Wanted(ops.sync_in)  BY <1>2 DEF Wanted
  <2>4. \E u \in Threads : TRUE  BY Constants
  <2> QED  BY <1>2, <1>10, <2>1, <2>2, <2>3, <2>4 DEF InMemory
<1>20. ASSUME NEW u \in Threads, NEW i \in DOMAIN writes.work[u]
       PROVE  /\ writes.work[u][i].buffer \in Buffers
              /\ writes.work[u][i].buffer \notin ToSet(Reading.buffers)
              /\ \E h, k : writes.work[u][i].file = StateFile(h, k)
  <2>1. /\ writes.work[u][i].buffer \in Buffers
        /\ \/ /\ Writing # None /\ writes.work[u][i].buffer \in ToSet(Writing.buffers)
              /\ \E k \in States : writes.work[u][i].file = StateFile(Writing.group, k)
           \/ HasBuffers
    BY <1>1, WriteFacts
  <2> QED  BY <1>1, <1>3, <1>5, <2>1, ReadersApart
<1>21. WritesOK'  BY <1>1, <1>2, <1>10, <1>11, <1>12, <1>20, WritesKept
<1>22. StatesOnDisk'  BY <1>1, <1>2, <1>3, <1>10 DEF StatesOnDisk
<1>23. Filling'
  <2>1. \A b \in Buffers : grads.fill[b] = << >>  BY <1>1, <1>5, NoGradients
  <2>2. Buffers' = Buffers /\ grads' = grads  BY <1>2 DEF Buffers
  <2> QED  BY <2>1, <2>2 DEF Filling
<1>24. LargeKept'
  <2>1. grads'.current = 0  BY <1>1, <1>2, <1>5, NoGradients
  <2>2. \A u \in Threads : \A i \in DOMAIN writes'.work[u] :
            \E h, k : writes'.work[u][i].file = StateFile(h, k)
    BY <1>2, <1>20
  <2>3. \A g \in Groups, p \in Pieces : <<g, p>> \in arrived' \cap cfg'.large =>
               /\ p \in info'[g].swapped
               /\ \A u \in Threads : disk'[GradFile(g, p)][u] = <<GradFile(g, p), batch'>>
    BY <1>2, <1>3, <1>5, LargeOnDisk
  <2> QED  BY <1>13, <2>1, <2>2, <2>3, LargeKeptThere
<1> QED  BY <1>13, <1>14, <1>18, <1>19, <1>21, <1>22, <1>23, <1>24 DEF SwapInv

(* The requests the gradient swapper has not submitted yet. *)
Ready == IF grads.current = 0 THEN << >> ELSE WritesOf(grads)

(* The writes of a full gradient buffer: one for each of its pieces, in order. *)
LEMMA WritesOfFacts ==
    ASSUME TypeOK, GradsOK, NEW s, s.current \in Buffers, NEW n \in Nat, n <= NumPieces,
           s.fill[s.current] \in Seq(GradFiles), Len(s.fill[s.current]) = n
    PROVE  /\ WritesOf(s) \in Seq(Requests) /\ Len(WritesOf(s)) = n
           /\ DOMAIN WritesOf(s) = 1 .. n
           /\ \A i \in 1 .. n :
                 /\ WritesOf(s)[i] = Request(FALSE, s.current, {i}, s.fill[s.current][i])
                 /\ WritesOf(s)[i].read = FALSE /\ WritesOf(s)[i].buffer = s.current
                 /\ WritesOf(s)[i].pieces = {i} /\ WritesOf(s)[i].file = s.fill[s.current][i]
                 /\ s.fill[s.current][i] \in GradFiles /\ i \in Pieces
<1>1. \A i \in 1 .. n : i \in Pieces /\ s.fill[s.current][i] \in GradFiles /\ s.fill[s.current][i] \in Files
  BY Constants, FileFacts
<1> DEFINE R(i) == Request(FALSE, s.current, {i}, s.fill[s.current][i])
<1>2. \A i \in 1 .. n : /\ R(i) \in Requests /\ R(i).read = FALSE /\ R(i).buffer = s.current
                        /\ R(i).pieces = {i} /\ R(i).file = s.fill[s.current][i]
  BY <1>1 DEF Request, Requests
<1>3. WritesOf(s) = [i \in 1 .. n |-> R(i)]  BY DEF WritesOf
<1>4. \A i \in 1 .. n : R(i) = Request(FALSE, s.current, {i}, s.fill[s.current][i])
  OBVIOUS
<1> HIDE DEF R
<1>5. WritesOf(s) \in Seq(Requests) /\ Len(WritesOf(s)) = n /\ DOMAIN WritesOf(s) = 1 .. n
      /\ \A i \in 1 .. n : WritesOf(s)[i] = R(i)
  BY <1>2, <1>3
<1> QED  BY <1>1, <1>2, <1>4, <1>5

(* The queue of a thread, with the writes of the current buffer behind those
   submitted. *)
LEMMA QueueFacts ==
    ASSUME TypeOK, GradsOK
    PROVE  /\ Ready \in Seq(Requests)
           /\ \A t \in Threads : /\ Queue(t) \in Seq(Requests) /\ Queue(t) = writes.work[t] \o Ready
                                 /\ writes.work[t] \in Seq(Requests)
           /\ \A i \in DOMAIN Ready :
                 /\ grads.current \in Buffers /\ i \in DOMAIN grads.fill[grads.current]
                 /\ Ready[i].buffer = grads.current /\ Ready[i].pieces = {i}
                 /\ Ready[i].file = grads.fill[grads.current][i] /\ i \in Pieces
                 /\ Ready[i].file \in GradFiles
<1>1. Ready \in Seq(Requests)
      /\ \A i \in DOMAIN Ready :
                 /\ grads.current \in Buffers /\ i \in DOMAIN grads.fill[grads.current]
                 /\ Ready[i].buffer = grads.current /\ Ready[i].pieces = {i}
                 /\ Ready[i].file = grads.fill[grads.current][i] /\ i \in Pieces
                 /\ Ready[i].file \in GradFiles
  <2>1. CASE grads.current = 0  BY <2>1 DEF Ready
  <2>2. CASE grads.current # 0
    <3> DEFINE n == Len(grads.fill[grads.current])
    <3>1. grads.current \in Buffers /\ grads.fill[grads.current] \in Seq(GradFiles)
      BY <2>2, Types
    <3>2. n \in Nat /\ n <= NumPieces /\ DOMAIN grads.fill[grads.current] = 1 .. n
      BY <3>1 DEF GradsOK, Partition
    <3>3. /\ WritesOf(grads) \in Seq(Requests) /\ Len(WritesOf(grads)) = n /\ DOMAIN WritesOf(grads) = 1 .. n
          /\ \A i \in 1 .. n :
                 /\ WritesOf(grads)[i] = Request(FALSE, grads.current, {i}, grads.fill[grads.current][i])
                 /\ WritesOf(grads)[i].read = FALSE /\ WritesOf(grads)[i].buffer = grads.current
                 /\ WritesOf(grads)[i].pieces = {i} /\ WritesOf(grads)[i].file = grads.fill[grads.current][i]
                 /\ grads.fill[grads.current][i] \in GradFiles /\ i \in Pieces
      <4> HIDE DEF n
      <4>1. Len(grads.fill[grads.current]) = n  BY DEF n
      <4> QED  BY <3>1, <3>2, <4>1, WritesOfFacts, Zenon
    <3> QED  BY <2>2, <3>1, <3>2, <3>3 DEF Ready
  <2> QED  BY <2>1, <2>2
<1>2. ASSUME NEW t \in Threads
      PROVE  /\ Queue(t) \in Seq(Requests) /\ Queue(t) = writes.work[t] \o Ready
             /\ writes.work[t] \in Seq(Requests)
  <2>1. writes.work[t] \in Seq(Requests)  BY DEF TypeOK, HandleOK
  <2>2. Queue(t) = writes.work[t] \o Ready  BY DEF Queue, Ready
  <2> QED  BY <1>1, <2>1, <2>2
<1> QED  BY <1>1, <1>2

(* Taking the head off two sequences in a row takes it off the first. *)
LEMMA TailOfTwo ==
    ASSUME NEW S, NEW a \in Seq(S), NEW b \in Seq(S), a # << >>
    PROVE  /\ Tail(a \o b) = Tail(a) \o b /\ a \o b \in Seq(S) /\ a \o b # << >>
           /\ (a \o b)[1] = a[1]
<1> DEFINE la == Len(a)  lb == Len(b)
<1>1. la \in Nat /\ la >= 1 /\ lb \in Nat  BY EmptySeq
<1>2. /\ a \o b \in Seq(S) /\ Len(a \o b) = la + lb
      /\ \A i \in 1 .. la + lb : (a \o b)[i] = IF i <= la THEN a[i] ELSE b[i - la]
  BY ConcatProperties
<1>3. a \o b # << >>  BY <1>1, <1>2
<1>4. /\ Tail(a) \in Seq(S) /\ Len(Tail(a)) = la - 1
      /\ \A i \in 1 .. la - 1 : Tail(a)[i] = a[i + 1]
  BY HeadTailProperties
<1>5. /\ Tail(a \o b) \in Seq(S) /\ Len(Tail(a \o b)) = la + lb - 1
      /\ \A i \in 1 .. la + lb - 1 : Tail(a \o b)[i] = (a \o b)[i + 1]
  BY <1>2, <1>3, HeadTailProperties
<1>6. /\ Tail(a) \o b \in Seq(S) /\ Len(Tail(a) \o b) = la - 1 + lb
      /\ \A i \in 1 .. la - 1 + lb : (Tail(a) \o b)[i] = IF i <= la - 1 THEN Tail(a)[i] ELSE b[i - (la - 1)]
  BY <1>4, ConcatProperties
<1> HIDE DEF la, lb
<1>7. ASSUME NEW i \in 1 .. la + lb - 1 PROVE Tail(a \o b)[i] = (Tail(a) \o b)[i]
  <2>1. i + 1 \in 1 .. la + lb /\ i \in 1 .. la - 1 + lb /\ i \in Nat  BY <1>1
  <2>2. CASE i <= la - 1
    <3>1. i + 1 <= la /\ i \in 1 .. la - 1  BY <1>1, <2>1, <2>2
    <3> QED  BY <1>2, <1>4, <1>5, <1>6, <2>1, <2>2, <3>1
  <2>3. CASE ~(i <= la - 1)
    <3>1. ~(i + 1 <= la) /\ i + 1 - la = i - (la - 1)  BY <1>1, <2>1, <2>3
    <3> QED  BY <1>2, <1>5, <1>6, <2>1, <2>3, <3>1
  <2> QED  BY <2>2, <2>3
<1>8. la + lb - 1 = la - 1 + lb /\ 1 \in 1 .. la + lb /\ 1 <= la  BY <1>1
<1>9. Tail(a \o b) = Tail(a) \o b  BY <1>5, <1>6, <1>7, <1>8, SeqEqual
<1> QED  BY <1>2, <1>3, <1>8, <1>9

(* A thread takes the first request of its queue. *)
LEMMA DirectedTail ==
    ASSUME NEW R, NEW q \in Seq(R), q # << >>, NEW mem, NEW kept, NEW later, NEW f, NEW t, NEW v,
           Directed(q, mem, kept, f, t, v),
           q[1].file # f => later = kept,
           q[1].file = f /\ (\A s \in q[1].pieces : mem[q[1].buffer][s][t] = v) => later = v
    PROVE  Directed(Tail(q), mem, later, f, t, v)
<1> DEFINE n == Len(Tail(q))
<1>1. /\ Tail(q) \in Seq(R) /\ n \in Nat /\ Len(q) = n + 1
      /\ \A i \in 1 .. n : Tail(q)[i] = q[i + 1]
  <2>1. /\ Tail(q) \in Seq(R) /\ Len(Tail(q)) = Len(q) - 1
        /\ \A i \in 1 .. Len(Tail(q)) : Tail(q)[i] = q[i + 1]
    BY HeadTailProperties
  <2>2. Len(q) \in Nat /\ Len(Tail(q)) \in Nat  BY <2>1
  <2> QED  BY <2>1, <2>2
<1>2. DOMAIN q = 1 .. n + 1 /\ DOMAIN Tail(q) = 1 .. n  BY <1>1
<1>3. \A i \in 1 .. n : i + 1 \in 1 .. n + 1 /\ Tail(q)[i] = q[i + 1]  BY <1>1
<1> HIDE DEF n
<1>4. CASE \E i \in DOMAIN q : /\ q[i].file = f
                               /\ \A s \in q[i].pieces : mem[q[i].buffer][s][t] = v
                               /\ \A j \in DOMAIN q : j > i => q[j].file # f
  <2>1. PICK i \in 1 .. n + 1 :
            /\ q[i].file = f
            /\ \A s \in q[i].pieces : mem[q[i].buffer][s][t] = v
            /\ \A j \in 1 .. n + 1 : j > i => q[j].file # f
    BY <1>2, <1>4
  <2>2. CASE i = 1
    <3>1. later = v  BY <2>1, <2>2
    <3>2. ASSUME NEW j \in 1 .. n PROVE Tail(q)[j].file # f
      <4> DEFINE m == j + 1
      <4>1. m \in 1 .. n + 1 /\ m > 1  BY <1>1
      <4>3. Tail(q)[j] = q[m]  BY <1>3
      <4> HIDE DEF m
      <4>2. q[m].file # f
        <5>1. m > i  BY <2>2, <4>1
        <5> QED  BY <2>1, <4>1, <5>1
      <4> QED  BY <4>2, <4>3
    <3> QED  BY <1>2, <3>1, <3>2 DEF Directed
  <2>3. CASE i # 1
    <3> DEFINE k == i - 1
    <3>1. k \in 1 .. n /\ k + 1 = i  BY <1>1, <2>3
    <3> HIDE DEF k
    <3>2. Tail(q)[k] = q[i]  BY <1>1, <3>1
    <3>3. ASSUME NEW j \in 1 .. n, j > k PROVE Tail(q)[j].file # f
      <4> DEFINE m == j + 1
      <4>1. m \in 1 .. n + 1 /\ m > i  BY <1>1, <3>1, <3>3
      <4>3. Tail(q)[j] = q[m]  BY <1>3
      <4> HIDE DEF m
      <4>2. q[m].file # f  BY <2>1, <4>1
      <4> QED  BY <4>2, <4>3
    <3> QED  BY ZenonT(60), <1>2, <2>1, <3>1, <3>2, <3>3 DEF Directed
  <2> QED  BY <2>2, <2>3
<1>5. CASE (\A j \in DOMAIN q : q[j].file # f) /\ kept = v
  <2>1. 1 \in 1 .. n + 1  BY <1>1
  <2>2. later = v  BY <1>2, <1>5, <2>1
  <2>3. \A j \in 1 .. n : Tail(q)[j].file # f  BY <1>1, <1>2, <1>3, <1>5
  <2> QED  BY <1>2, <2>2, <2>3 DEF Directed
<1> QED  BY <1>4, <1>5 DEF Directed

(* A thread of the writing handle writes its share of a file. *)
LEMMA WriteEffect ==
    ASSUME SwapInv, NEW t \in Threads, WriteThread(t)
    PROVE  LET r == writes.work[t][1] IN
           /\ 1 \in DOMAIN writes.work[t]
           /\ \E v \in Tensors :
                 /\ \A p \in r.pieces : memory[r.buffer][p][t] = v
                 /\ v[1] = r.file
                 /\ Writing # None => v = Newest(r.file)
                 /\ disk' \in [Files -> [Threads -> Tensors]]
                 /\ \A f \in Files, u \in Threads :
                       disk'[f][u] = IF f = r.file /\ u = t THEN v ELSE disk[f][u]
           /\ memory' = memory /\ r.pieces # {} /\ r.file \in Files
<1> DEFINE h == writes.work[t]  r == Head(h)
           source == {memory[r.buffer][p][t] : p \in r.pieces}
<1>1. h \in Seq(Requests) /\ h # << >>
  BY DEF WriteThread, SwapInv, TypeOK, HandleOK
<1>2. h[1] = r /\ 1 \in DOMAIN h  BY <1>1
<1>3. TypeOK /\ Progress /\ OpsOK /\ GradsOK /\ WritesOK /\ Filling
  BY DEF SwapInv
<1>4. Transfer(writes, t)  BY SMTT(60) DEF WriteThread
<1>5. r.read = FALSE =>
        /\ disk' = [disk EXCEPT ![r.file][t] = IF Cardinality(source) = 1
                                               THEN CHOOSE w \in source : TRUE ELSE Nothing]
        /\ memory' = memory
  BY <1>4 DEF Transfer
<1> HIDE DEF source
<1>6. /\ h[1].read = FALSE /\ h[1].buffer \in Buffers /\ h[1].pieces \subseteq Pieces /\ h[1].pieces # {}
      /\ h[1].file \in Files
      /\ \E v \in Tensors :
            /\ \A p \in h[1].pieces : memory[h[1].buffer][p][t] = v
            /\ v[1] = h[1].file
            /\ Writing # None => v = Newest(h[1].file)
  BY <1>2, <1>3, WriteFacts
<1> HIDE DEF r, h
<1>7. /\ r.read = FALSE /\ r.buffer \in Buffers /\ r.pieces \subseteq Pieces /\ r.pieces # {}
      /\ r.file \in Files
      /\ \E v \in Tensors :
            /\ \A p \in r.pieces : memory[r.buffer][p][t] = v
            /\ v[1] = r.file
            /\ Writing # None => v = Newest(r.file)
  BY <1>2, <1>6
<1>8. PICK v \in Tensors : /\ \A p \in r.pieces : memory[r.buffer][p][t] = v
                           /\ v[1] = r.file
                           /\ Writing # None => v = Newest(r.file)
  BY <1>7
<1>9. source = {v}  BY <1>7, <1>8 DEF source
<1>10. Cardinality(source) = 1 /\ (CHOOSE w \in source : TRUE) = v
  BY <1>9, FS_Singleton
<1>11. disk' = [disk EXCEPT ![r.file][t] = v] /\ memory' = memory
  BY <1>5, <1>7, <1>10
<1>12. disk \in [Files -> [Threads -> Tensors]]  BY <1>3 DEF TypeOK
<1>13. /\ disk' \in [Files -> [Threads -> Tensors]]
       /\ \A f \in Files, u \in Threads :
              disk'[f][u] = IF f = r.file /\ u = t THEN v ELSE disk[f][u]
  BY <1>7, <1>8, <1>11, <1>12
<1>14. r = writes.work[t][1] /\ 1 \in DOMAIN writes.work[t]  BY <1>2 DEF h
<1> QED  BY <1>7, <1>8, <1>11, <1>13, <1>14

(* A writing thread keeps the invariant: the buffer it reads still has the
   piece the file is to get. *)
LEMMA WriteThreadKeeps ==
    ASSUME SwapInv, NEW t \in Threads, WriteThread(t)
    PROVE  SwapInv'
<1>1. /\ TypeOK /\ Pool /\ Progress /\ Created /\ OpsOK /\ ReadsOK /\ InMemory /\ WritesOK
      /\ StatesOnDisk /\ GradsOK /\ Filling /\ Remembered /\ SmallKept /\ LargeKept
  BY DEF SwapInv
<1>2. /\ UNCHANGED <<cfg, at, group, batch, arrived, updates, free, grads, info, ops, reads, raised>>
      /\ writes' = Ran(writes, t) /\ writes.work[t] # << >>
  BY DEF WriteThread
<1> DEFINE h == writes.work[t]  r == h[1]
<1>3. /\ 1 \in DOMAIN h /\ memory' = memory /\ r.pieces # {} /\ r.file \in Files
      /\ \E v \in Tensors :
                 /\ \A p \in r.pieces : memory[r.buffer][p][t] = v
                 /\ v[1] = r.file
                 /\ Writing # None => v = Newest(r.file)
                 /\ disk' \in [Files -> [Threads -> Tensors]]
                 /\ \A f \in Files, u \in Threads :
                       disk'[f][u] = IF f = r.file /\ u = t THEN v ELSE disk[f][u]
  BY WriteEffect
<1>4. PICK v \in Tensors :
                 /\ \A p \in r.pieces : memory[r.buffer][p][t] = v
                 /\ v[1] = r.file
                 /\ Writing # None => v = Newest(r.file)
                 /\ disk' \in [Files -> [Threads -> Tensors]]
                 /\ \A f \in Files, u \in Threads :
                       disk'[f][u] = IF f = r.file /\ u = t THEN v ELSE disk[f][u]
  BY <1>3
<1>5. HandleOK(reads) /\ HandleOK(writes)  BY <1>1 DEF TypeOK
<1>6. /\ HandleOK(writes') /\ writes'.pending = writes.pending
      /\ writes'.work[t] = Tail(h)
      /\ \A u \in Threads : u # t => writes'.work[u] = writes.work[u]
      /\ Len(Tail(h)) \in Nat /\ Len(h) = Len(Tail(h)) + 1
      /\ \A i \in 1 .. Len(Tail(h)) : Tail(h)[i] = h[i + 1]
  BY <1>2, <1>5, RanKeeps
<1>7. /\ h \in Seq(Requests) /\ Tail(h) \in Seq(Requests)
      /\ DOMAIN h = 1 .. Len(Tail(h)) + 1 /\ DOMAIN Tail(h) = 1 .. Len(Tail(h))
  BY <1>5, <1>6 DEF HandleOK
<1>8. \A i \in DOMAIN Tail(h) : i + 1 \in DOMAIN h /\ Tail(h)[i] = h[i + 1]
  BY <1>6, <1>7
<1>9. \A i \in DOMAIN h : i # 1 => i - 1 \in DOMAIN Tail(h) /\ Tail(h)[i - 1] = h[i]
  <2> SUFFICES ASSUME NEW i \in DOMAIN h, i # 1
               PROVE  i - 1 \in DOMAIN Tail(h) /\ Tail(h)[i - 1] = h[i]
    OBVIOUS
  <2>1. i - 1 \in 1 .. Len(Tail(h)) /\ (i - 1) + 1 = i  BY <1>6, <1>7
  <2> QED  BY <1>6, <1>7, <2>1
<1> HIDE DEF r, h
<1>10. \A f : Newest(f)' = Newest(f)  BY <1>2, NewestKept
<1>11. Reading' = Reading /\ Writing' = Writing  BY <1>2 DEF Reading, Writing
<1>12. TypeOK'
  <2>1. HandleOK(reads)' /\ HandleOK(writes)'
    BY <1>2, <1>5, <1>6 DEF HandleOK, Requests, Buffers
  <2> QED
    BY <1>1, <1>2, <1>3, <1>4, <2>1 DEF TypeOK, Operations, Swappers, Buffers
<1>13. (Pool /\ Progress /\ Created /\ OpsOK /\ GradsOK /\ Remembered /\ SmallKept)'
  BY <1>1, <1>2, HostKept DEF Settled
<1>14. \A o : Wanted(o)' = Wanted(o) /\ Copied(o)' = Copied(o)
  BY <1>2, <1>3, <1>10 DEF Wanted, Copied
<1>15. \A q, u : Arrives(q, u)' = Arrives(q, u)  BY <1>3, <1>10 DEF Arrives
<1>16. ReadsOK'  BY <1>1, <1>2, <1>11, <1>14, <1>15 DEF ReadsOK
<1>17. InMemory'  BY <1>1, <1>2, <1>3, <1>10, <1>14, <1>15 DEF InMemory
<1>18. WritesOK'
  <2>1. \A q, u : StateWrite(q, u) => StateWrite(q, u)'
    BY <1>2, <1>3, <1>10, <1>11 DEF StateWrite
  <2>2. \A q : GradWrite(q) => GradWrite(q)'  BY <1>2 DEF GradWrite
  <2>3. ASSUME NEW u \in Threads, NEW i \in DOMAIN writes'.work[u]
        PROVE  \E q : q = writes'.work[u][i] /\ (StateWrite(q, u)' \/ GradWrite(q)')
    <3>1. CASE u = t
      <4>1. i + 1 \in DOMAIN h /\ writes'.work[u][i] = h[i + 1]
        BY <1>6, <1>8, <2>3, <3>1
      <4>2. StateWrite(h[i + 1], t) \/ GradWrite(h[i + 1])
        BY <1>1, <4>1 DEF WritesOK, h
      <4> QED  BY <2>1, <2>2, <3>1, <4>1, <4>2
    <3>2. CASE u # t
      <4>1. writes'.work[u] = writes.work[u]  BY <1>6, <3>2
      <4>2. StateWrite(writes.work[u][i], u) \/ GradWrite(writes.work[u][i])
        BY <1>1, <2>3, <4>1 DEF WritesOK
      <4> QED  BY <2>1, <2>2, <4>1, <4>2
    <3> QED  BY <3>1, <3>2
  <2>4. writes'.pending = IF Writing' # None THEN Writing'.count ELSE grads'.pending
    BY <1>1, <1>2, <1>6, <1>11 DEF WritesOK
  <2>5. ASSUME NEW u \in Threads, NEW i \in DOMAIN writes'.work[u]
        PROVE  (StateWrite(writes.work[u][i], u) \/ GradWrite(writes.work[u][i]))'
    <3>1. PICK q : q = writes'.work[u][i] /\ (StateWrite(q, u)' \/ GradWrite(q)')
      BY SMTT(60), <2>3
    <3>2. CASE StateWrite(q, u)'  BY ZenonT(60), <3>1, <3>2 DEF StateWrite
    <3>3. CASE GradWrite(q)'  BY <3>1, <3>3 DEF GradWrite
    <3> QED  BY <3>1, <3>2, <3>3
  <2> QED  BY <2>4, <2>5 DEF WritesOK
<1>19. StatesOnDisk'
  <2> SUFFICES ASSUME NEW g \in cfg.swappable, NEW u \in Threads, NEW k \in 1 .. info[g].tensors,
                      ~(g = group /\ at = "swap_out")
               PROVE  \/ disk'[StateFile(g, k)][u] = Newest(StateFile(g, k))
                      \/ \E i \in DOMAIN writes'.work[u] : writes'.work[u][i].file = StateFile(g, k)
    BY <1>2, <1>10 DEF StatesOnDisk
  <2> DEFINE f == StateFile(g, k)
  <2>1. f \in Files
    <3>1. k \in States /\ g \in Groups
      <4>1. g \in Groups  BY <1>1, Types
      <4>2. info[g].tensors \in Nat /\ info[g].tensors <= NumStates
        BY <1>1, <4>1, Types
      <4> QED  BY <4>1, <4>2, Constants
    <3> QED  BY <3>1, FileFacts
  <2>2. disk[f][u] = Newest(f) \/ \E i \in DOMAIN writes.work[u] : writes.work[u][i].file = f
    BY <1>1 DEF StatesOnDisk
  <2>3. r.file = f => v = Newest(f)
    <3>1. r.file = f => Writing # None
      <4>1. (Writing # None) \/ r.file \in GradFiles
        <5>1. t \in Threads /\ 1 \in DOMAIN writes.work[t] /\ r = writes.work[t][1]
          BY <1>3 DEF r, h
        <5> QED  BY <1>1, <5>1, WriteFacts
      <4>2. f \notin GradFiles  BY FileFacts DEF GradFiles
      <4> QED  BY <4>1, <4>2
    <3> QED  BY <1>4, <3>1
  <2> HIDE DEF f
  <2>4. CASE u # t  BY <1>4, <1>6, <2>1, <2>2, <2>4 DEF f
  <2>5. CASE u = t /\ r.file = f  BY <1>4, <2>1, <2>3, <2>5 DEF f
  <2>6. CASE u = t /\ r.file # f
    <3>1. CASE disk[f][u] = Newest(f)  BY <1>4, <2>1, <2>6, <3>1 DEF f
    <3>2. CASE \E i \in DOMAIN h : h[i].file = f
      <4>1. PICK i \in DOMAIN h : h[i].file = f  BY <3>2
      <4>2. i # 1  BY <2>6, <4>1 DEF r
      <4>3. i - 1 \in DOMAIN Tail(h) /\ Tail(h)[i - 1].file = f
        BY <1>9, <4>1, <4>2
      <4> QED  BY <1>6, <2>6, <4>3 DEF f
    <3> QED  BY <2>2, <2>6, <3>1, <3>2 DEF h
  <2> QED  BY <2>4, <2>5, <2>6
<1>20. Filling'  BY <1>1, <1>2, <1>3 DEF Filling, Buffers
<1>21. LargeKept'
  <2>1. ASSUME NEW g \in Groups, NEW p \in Pieces, NEW u \in Threads, InDirection(GradFile(g, p), u)
        PROVE  InDirection(GradFile(g, p), u)'
    <3> DEFINE f == GradFile(g, p)
    <3>1. f \in Files /\ Newest(f)' = Newest(f)  BY <1>10, FileFacts
    <3>2. Directed(Queue(u), memory, disk[f][u], f, u, Newest(f))
      BY <2>1 DEF InDirection
    <3>3. Ready \in Seq(Requests) /\ Ready' = Ready
          /\ Queue(u) = writes.work[u] \o Ready /\ Queue(u)' = writes'.work[u] \o Ready
      BY <1>1, <1>2, QueueFacts DEF Queue, Ready, WritesOf
    <3> HIDE DEF f
    <3>4. CASE u # t
      <4>1. Queue(u)' = Queue(u) /\ disk'[f][u] = disk[f][u]
        BY <1>4, <1>6, <3>1, <3>3, <3>4
      <4> QED  BY <1>3, <3>1, <3>2, <4>1 DEF InDirection, f
    <3>5. CASE u = t
      <4>1. /\ h \o Ready \in Seq(Requests) /\ h \o Ready # << >>
            /\ Tail(h \o Ready) = Tail(h) \o Ready /\ (h \o Ready)[1] = r
        <5>1. h # << >> /\ r = h[1]  BY <1>2 DEF r, h
        <5> QED  BY <1>7, <3>3, <5>1, TailOfTwo
      <4>2. r.file # f => disk'[f][t] = disk[f][t]  BY <1>4, <3>1
      <4>3. r.file = f /\ (\A s \in r.pieces : memory[r.buffer][s][t] = Newest(f)) => disk'[f][t] = Newest(f)
        BY <1>3, <1>4, <3>1
      <4>4. Directed(h \o Ready, memory, disk[f][t], f, t, Newest(f))
        BY <3>2, <3>3, <3>5 DEF h
      <4>5. Directed(Tail(h \o Ready), memory, disk'[f][t], f, t, Newest(f))
        BY <4>1, <4>2, <4>3, <4>4, DirectedTail
      <4>6. Queue(u)' = Tail(h \o Ready)  BY <1>6, <3>3, <3>5, <4>1
      <4> QED  BY <1>3, <3>1, <3>5, <4>5, <4>6 DEF InDirection, f
    <3> QED  BY <3>4, <3>5
  <2> QED  BY <1>1, <1>2, <2>1 DEF LargeKept
<1> QED  BY <1>12, <1>13, <1>16, <1>17, <1>18, <1>19, <1>20, <1>21 DEF SwapInv

(* The parts of the invariant. *)
LEMMA Parts ==
    ASSUME SwapInv
    PROVE  /\ TypeOK /\ Pool /\ Progress /\ Created /\ OpsOK /\ ReadsOK /\ InMemory /\ WritesOK
           /\ StatesOnDisk /\ GradsOK /\ Filling /\ Remembered /\ SmallKept /\ LargeKept
BY DEF SwapInv

(* Steps without an operation. *)
LEMMA NoOperationKept ==
    ASSUME SwapInv, Gathering \/ at = "flush" \/ HasBuffers, UNCHANGED <<ops, reads>>,
           at' \in {"backward", "no_space", "swap_in", "flush"}
    PROVE  OpsOK' /\ ReadsOK' /\ InMemory' /\ Writing' = None /\ Reading' = None /\ Writing = None
<1>1. /\ ops.sync_in = None /\ ops.async_in = None /\ ops.sync_out = None /\ ops.async_out = None
      /\ Reading = None /\ Writing = None /\ ReadsOK
  BY Parts, NoOperation
<1>2. Reading' = None /\ Writing' = None  BY <1>1 DEF Reading, Writing
<1>3. OpsOK'  BY <1>1 DEF OpsOK
<1>4. ReadsOK'  BY <1>1, <1>2 DEF ReadsOK
<1>5. InMemory'  BY DEF InMemory
<1> QED  BY <1>1, <1>2, <1>3, <1>4, <1>5

(* Changing one field of what is known of a sub-group. *)
LEMMA UnswappedField ==
    ASSUME TypeOK, NEW g \in Groups, NEW u \in SUBSET (GradFiles \X Nat)
    PROVE  /\ [info EXCEPT ![g].unswapped = u] \in [Groups -> Parameters]
           /\ \A h \in Groups :
                 /\ [info EXCEPT ![g].unswapped = u][h].tensors = info[h].tensors
                 /\ [info EXCEPT ![g].unswapped = u][h].swapped = info[h].swapped
                 /\ [info EXCEPT ![g].unswapped = u][h].unswapped = IF h = g THEN u ELSE info[h].unswapped
<1>1. info \in [Groups -> Parameters] /\ info[g] \in Parameters  BY DEF TypeOK
<1>2. [info[g] EXCEPT !.unswapped = u] \in Parameters  BY <1>1 DEF Parameters
<1>3. /\ [info[g] EXCEPT !.unswapped = u].tensors = info[g].tensors
      /\ [info[g] EXCEPT !.unswapped = u].swapped = info[g].swapped
      /\ [info[g] EXCEPT !.unswapped = u].unswapped = u
  BY <1>1 DEF Parameters
<1> DEFINE r == [info[g] EXCEPT !.unswapped = u]
<1>4. [info EXCEPT ![g].unswapped = u] = [info EXCEPT ![g] = r]  OBVIOUS
<1> HIDE DEF r
<1>5. /\ [info EXCEPT ![g] = r] \in [Groups -> Parameters]
      /\ \A h \in Groups : [info EXCEPT ![g] = r][h] = IF h = g THEN r ELSE info[h]
  BY <1>1, <1>2 DEF r
<1>6. /\ r.tensors = info[g].tensors
      /\ r.swapped = info[g].swapped
      /\ r.unswapped = u
  BY <1>3 DEF r
<1> QED  BY <1>4, <1>5, <1>6

(* Recording what a sub-group has in its files leaves the rest of its record. *)
LEMMA SwappedField ==
    ASSUME TypeOK, NEW g \in Groups, NEW s \in SUBSET Pieces
    PROVE  /\ [info EXCEPT ![g].swapped = s] \in [Groups -> Parameters]
           /\ \A h \in Groups :
                 /\ [info EXCEPT ![g].swapped = s][h].tensors = info[h].tensors
                 /\ [info EXCEPT ![g].swapped = s][h].swapped = IF h = g THEN s ELSE info[h].swapped
                 /\ [info EXCEPT ![g].swapped = s][h].unswapped = info[h].unswapped
<1>1. info \in [Groups -> Parameters] /\ info[g] \in Parameters  BY DEF TypeOK
<1>2. [info[g] EXCEPT !.swapped = s] \in Parameters  BY <1>1 DEF Parameters
<1>3. /\ [info[g] EXCEPT !.swapped = s].tensors = info[g].tensors
      /\ [info[g] EXCEPT !.swapped = s].swapped = s
      /\ [info[g] EXCEPT !.swapped = s].unswapped = info[g].unswapped
  BY <1>1 DEF Parameters
<1> DEFINE r == [info[g] EXCEPT !.swapped = s]
<1>4. [info EXCEPT ![g].swapped = s] = [info EXCEPT ![g] = r]  OBVIOUS
<1> HIDE DEF r
<1>5. /\ [info EXCEPT ![g] = r] \in [Groups -> Parameters]
      /\ \A h \in Groups : [info EXCEPT ![g] = r][h] = IF h = g THEN r ELSE info[h]
  BY <1>1, <1>2 DEF r
<1>6. /\ r.tensors = info[g].tensors
      /\ r.swapped = s
      /\ r.unswapped = info[g].unswapped
  BY <1>3 DEF r
<1> QED  BY <1>4, <1>5, <1>6

(* Recording how many tensors a sub-group has leaves the rest of its record. *)
LEMMA TensorsField ==
    ASSUME TypeOK, NEW g \in Groups, NEW n \in {1, NumStates},
           info' = [info EXCEPT ![g].tensors = n]
    PROVE  /\ info' \in [Groups -> Parameters]
           /\ \A h \in Groups : /\ info'[h].tensors = IF h = g THEN n ELSE info[h].tensors
                                /\ info'[h].swapped = info[h].swapped
                                /\ info'[h].unswapped = info[h].unswapped
<1>1. info \in [Groups -> Parameters] /\ info[g] \in Parameters  BY DEF TypeOK
<1>2. [info[g] EXCEPT !.tensors = n] \in Parameters  BY <1>1 DEF Parameters
<1>3. /\ [info[g] EXCEPT !.tensors = n].tensors = n
      /\ [info[g] EXCEPT !.tensors = n].swapped = info[g].swapped
      /\ [info[g] EXCEPT !.tensors = n].unswapped = info[g].unswapped
  BY <1>1 DEF Parameters
<1> DEFINE r == [info[g] EXCEPT !.tensors = n]
<1>4. [info EXCEPT ![g].tensors = n] = [info EXCEPT ![g] = r]  OBVIOUS
<1> HIDE DEF r
<1>5. /\ [info EXCEPT ![g] = r] \in [Groups -> Parameters]
      /\ \A h \in Groups : [info EXCEPT ![g] = r][h] = IF h = g THEN r ELSE info[h]
  BY <1>1, <1>2 DEF r
<1>6. PICK after : after = [info EXCEPT ![g] = r]  OBVIOUS
<1>7. /\ r.tensors = n
      /\ r.swapped = info[g].swapped
      /\ r.unswapped = info[g].unswapped
  BY <1>3 DEF r
<1>8. \A h \in Groups : after[h] = IF h = g THEN r ELSE info[h]  BY <1>5, <1>6
<1>9. /\ after \in [Groups -> Parameters]
      /\ \A h \in Groups : /\ after[h].tensors = IF h = g THEN n ELSE info[h].tensors
                           /\ after[h].swapped = info[h].swapped
                           /\ after[h].unswapped = info[h].unswapped
  BY <1>5, <1>7, <1>6, <1>8
<1>10. info' = after  BY <1>4, <1>6
<1> QED  BY <1>9, <1>10

(* A handle that is left alone stays one of the unchanged configuration. *)
LEMMA HandleSame ==
    ASSUME NEW h, HandleOK(h), cfg' = cfg
    PROVE  HandleOK(h)'
BY DEF HandleOK, Requests, Buffers

(* Nothing that a piece in a file depends on has changed. *)
LEMMA LargeSame ==
    ASSUME LargeKept, UNCHANGED <<grads, writes, memory, disk, batch, updates>>,
           arrived' \cap cfg'.large \subseteq arrived \cap cfg.large,
           \A g \in Groups : info[g].swapped \subseteq info'[g].swapped,
           at' = at \/ at # "no_space"
    PROVE  LargeKept'
<1>1. \A f : Newest(f)' = Newest(f)  BY NewestKept
<1>2. \A t \in Threads : Queue(t)' = Queue(t)  BY DEF Queue, WritesOf
<1>3. ASSUME NEW g \in Groups, NEW p \in Pieces, NEW t \in Threads, InDirection(GradFile(g, p), t)
      PROVE  InDirection(GradFile(g, p), t)'
  BY <1>1, <1>2, <1>3 DEF InDirection
<1>4. ASSUME NEW g \in Groups, NEW p \in Pieces, <<g, p>> \in arrived' \cap cfg'.large
      PROVE  /\ p \in info'[g].swapped
             /\ \/ at' = "no_space" /\ grads'.next = GradFile(g, p)
                \/ \A t \in Threads : InDirection(GradFile(g, p), t)'
  BY <1>3, <1>4 DEF LargeKept
<1> QED  BY <1>4 DEF LargeKept

(* The queued writes are still those of the gradient swapper when it and
   memory are left alone. *)
LEMMA WritesSame ==
    ASSUME WritesOK, UNCHANGED <<grads, writes, memory>>, Writing = None, Writing' = None
    PROVE  WritesOK'
BY DEF WritesOK, StateWrite, GradWrite

(* The states on disk stay the newest when nothing is updated, written or
   created. *)
LEMMA StatesSame ==
    ASSUME TypeOK, StatesOnDisk, at # "swap_out", UNCHANGED <<cfg, updates, disk, writes>>,
           \A g \in Groups : info'[g].tensors = info[g].tensors
    PROVE  StatesOnDisk'
<1>1. \A g, k : Newest(StateFile(g, k))' = Newest(StateFile(g, k))
  BY DEF Newest, StateFile
<1>2. cfg.swappable \subseteq Groups  BY Types
<1>3. \A g \in cfg.swappable : info'[g].tensors = info[g].tensors  BY <1>2
<1> QED  BY <1>1, <1>3 DEF StatesOnDisk

(* A gradient that is too small to be swapped is remembered: the invariant is
   kept. *)
LEMMA KeepGradientKeeps ==
    ASSUME SwapInv, NEW g \in cfg.swappable, NEW p \in Pieces, KeepGradient(g, p)
    PROVE  SwapInv'
<1> DEFINE f == GradFile(g, p)
           kept == {v \in info[g].unswapped : v[1] # f} \cup {<<f, batch>>}
<1>1. /\ at = "backward" /\ <<g, p>> \notin arrived \cup cfg.large
      /\ arrived' = arrived \cup {<<g, p>>}
      /\ info' = [info EXCEPT ![g].unswapped = kept]
      /\ UNCHANGED <<cfg, at, group, batch, updates, free, grads, ops, reads, writes,
                     memory, disk, raised>>
  BY DEF KeepGradient
<1>2. g \in Groups /\ TypeOK /\ Gathering /\ batch \in Nat /\ NumStates \in {1, NumStates}
  BY <1>1, Parts, Types DEF Gathering, TypeOK
<1>3. kept \in SUBSET (GradFiles \X Nat)  BY SMTT(60), <1>2, Types, FileFacts
<1> HIDE DEF kept
<1>4. /\ info' \in [Groups -> Parameters]
      /\ \A h \in Groups : /\ info'[h].tensors = info[h].tensors
                           /\ info'[h].swapped = info[h].swapped
                           /\ info'[h].unswapped = IF h = g THEN kept ELSE info[h].unswapped
  <2> DEFINE next == [info EXCEPT ![g].unswapped = kept]
  <2>1. /\ next \in [Groups -> Parameters]
        /\ \A h \in Groups : /\ next[h].tensors = info[h].tensors
                             /\ next[h].swapped = info[h].swapped
                             /\ next[h].unswapped = IF h = g THEN kept ELSE info[h].unswapped
    BY <1>2, <1>3, UnswappedField
  <2>2. info' = next  BY <1>1
  <2> HIDE DEF next
  <2> QED  BY <2>1, <2>2
<1>5. TypeOK'
  <2>1. HandleOK(reads)' /\ HandleOK(writes)'
    BY <1>1, <1>2 DEF TypeOK, HandleOK, Requests, Buffers
  <2>2. arrived' \subseteq cfg.swappable \X Pieces  BY <1>1, <1>2 DEF TypeOK
  <2> QED
    BY <1>1, <1>2, <1>4, <2>1, <2>2 DEF TypeOK, Operations, Swappers, Buffers
<1>6. Pool'  BY <1>1, Parts DEF Pool, Holding, Slots, Buffers
<1>7. Progress'
  BY <1>1, Parts DEF Progress, HasBuffers, Gathering, Following, First
<1>8. Created'  BY ZenonT(60), <1>1, <1>2, <1>4, Parts, Types DEF Created
<1>9. OpsOK' /\ ReadsOK' /\ InMemory' /\ Writing' = None /\ Writing = None
  BY <1>1, <1>2, NoOperationKept
<1>10. WritesOK'  BY <1>1, <1>9, Parts, WritesSame
<1>11. StatesOnDisk'  BY <1>1, <1>4, Parts, StatesSame
<1>12. GradsOK'
  <2>1. cfg.large' = cfg.large /\ arrived \subseteq arrived'  BY <1>1
  <2> QED
    BY ZenonT(60), <1>1, <2>1, Parts DEF GradsOK, Partition, HasBuffers, Buffers
<1>13. Filling'  BY <1>1, Parts DEF Filling, Buffers
<1>14. Remembered'
  <2>1. \A h \in Groups : \A v \in info'[h].unswapped :
            \E q \in Pieces : <<h, q>> \notin cfg.large /\ v[1] = GradFile(h, q)
    <3> SUFFICES ASSUME NEW h \in Groups, NEW v \in info'[h].unswapped
                 PROVE  \E q \in Pieces : <<h, q>> \notin cfg.large /\ v[1] = GradFile(h, q)
      OBVIOUS
    <3>1. CASE v \in info[h].unswapped  BY <3>1, Parts DEF Remembered
    <3>2. CASE v \notin info[h].unswapped
      <4>1. h = g /\ v = <<f, batch>>  BY <1>4, <3>2 DEF kept
      <4> QED  BY <1>1, <4>1
    <3> QED  BY <3>1, <3>2
  <2>2. batch # 0  BY <1>2, Parts DEF Progress
  <2> QED  BY <1>1, <1>4, <2>1, <2>2, Parts DEF Remembered
<1>15. SmallKept'
  <2> SUFFICES ASSUME NEW h \in Groups, NEW q \in Pieces, <<h, q>> \in arrived' \ cfg.large, NEW n
               PROVE  <<GradFile(h, q), n>> \in info'[h].unswapped <=> n = batch
    BY <1>1 DEF SmallKept
  <2> DEFINE w == <<GradFile(h, q), n>>
  <2>0. w[1] = GradFile(h, q)  OBVIOUS
  <2> HIDE DEF w
  <2>1. CASE h = g /\ q = p
    <3>1. w \in kept <=> w = <<f, batch>>  BY <2>0, <2>1 DEF kept
    <3> QED  BY <1>4, <2>1, <3>1 DEF w
  <2>2. CASE ~(h = g /\ q = p)
    <3>1. <<h, q>> \in arrived \ cfg.large  BY <1>1, <2>2
    <3>2. ~Taken(h)  BY <1>2 DEF Taken
    <3>3. <<GradFile(h, q), n>> \in info[h].unswapped <=> n = batch
      BY <3>1, <3>2, Parts DEF SmallKept
    <3>4. CASE h = g
      <4>1. GradFile(h, q) # f  BY <2>2, <3>4, FileFacts
      <4>2. w \in kept <=> w \in info[g].unswapped  BY <2>0, <4>1 DEF kept, w
      <4> QED  BY <1>4, <3>3, <3>4, <4>2 DEF w
    <3>5. CASE h # g  BY <1>4, <3>3, <3>5
    <3> QED  BY <3>4, <3>5
  <2> QED  BY <2>1, <2>2
<1>16. LargeKept'
  <2>1. arrived' \cap cfg'.large \subseteq arrived \cap cfg.large  BY <1>1
  <2>2. \A h \in Groups : info[h].swapped \subseteq info'[h].swapped  BY <1>4
  <2> QED  BY <1>1, <2>1, <2>2, Parts, LargeSame
<1> QED
  BY <1>5, <1>6, <1>7, <1>8, <1>9, <1>10, <1>11, <1>12, <1>13, <1>14, <1>15, <1>16 DEF SwapInv

(* What is in a sequence. *)
LEMMA InConcat ==
    ASSUME NEW S, NEW a \in Seq(S), NEW b \in Seq(S)
    PROVE  ToSet(a \o b) = ToSet(a) \cup ToSet(b)
<1> DEFINE la == Len(a)  lb == Len(b)
<1>1. la \in Nat /\ lb \in Nat /\ DOMAIN a = 1 .. la /\ DOMAIN b = 1 .. lb
  OBVIOUS
<1>2. /\ DOMAIN (a \o b) = 1 .. la + lb
      /\ \A i \in 1 .. la : (a \o b)[i] = a[i]
      /\ \A i \in 1 .. lb : (a \o b)[la + i] = b[i]
  OBVIOUS
<1> HIDE DEF la, lb
<1>3. \A i \in 1 .. la : i \in 1 .. la + lb  BY <1>1
<1>4. \A i \in 1 .. lb : la + i \in 1 .. la + lb  BY <1>1
<1>5. ASSUME NEW i \in 1 .. la + lb PROVE i \in 1 .. la \/ \E j \in 1 .. lb : i = la + j
  <2>1. i \notin 1 .. la => i - la \in 1 .. lb /\ i = la + (i - la)  BY <1>1
  <2> QED  BY <2>1
<1>6. ASSUME NEW x \in ToSet(a \o b) PROVE x \in ToSet(a) \cup ToSet(b)
  <2>1. PICK i \in 1 .. la + lb : x = (a \o b)[i]  BY <1>2, <1>6 DEF ToSet
  <2> QED  BY <1>1, <1>2, <1>5, <2>1 DEF ToSet
<1>7. ASSUME NEW x \in ToSet(a) PROVE x \in ToSet(a \o b)
  BY <1>1, <1>2, <1>3, <1>7 DEF ToSet
<1>8. ASSUME NEW x \in ToSet(b) PROVE x \in ToSet(a \o b)
  BY <1>1, <1>2, <1>4, <1>8 DEF ToSet
<1> QED  BY <1>6, <1>7, <1>8

(* The members of a sequence with one more element. *)
LEMMA InAppend ==
    ASSUME NEW S, NEW a \in Seq(S), NEW e \in S
    PROVE  /\ Append(a, e) \in Seq(S) /\ ToSet(Append(a, e)) = ToSet(a) \cup {e}
           /\ Append(a, e) = a \o <<e>>
<1>1. Append(a, e) = a \o <<e>> /\ <<e>> \in Seq(S)  OBVIOUS
<1>2. ToSet(<<e>>) = {e}  BY DEF ToSet
<1> QED  BY <1>1, <1>2, InConcat

(* A sequence that is not empty is its front and its last element. *)
LEMMA FrontAndLast ==
    ASSUME NEW S, NEW a \in Seq(S), a # << >>
    PROVE  /\ Front(a) \in Seq(S) /\ Last(a) \in S /\ a = Front(a) \o <<Last(a)>>
           /\ ToSet(a) = ToSet(Front(a)) \cup {Last(a)}
           /\ Len(a) = Len(Front(a)) + 1
<1> DEFINE n == Len(a)
<1>1. n \in Nat /\ n >= 1 /\ \A i \in 1 .. n : a[i] \in S  BY EmptySeq
<1>2. Front(a) = SubSeq(a, 1, n - 1) /\ Last(a) = a[n]  BY DEF Front, Last
<1>3. 1 \in 1 .. n /\ n \in 1 .. n  BY <1>1
<1>4. SubSeq(a, 1, n) = SubSeq(a, 1, n - 1) \o <<a[n]>>
  BY <1>3, SubSeqRecursiveSecond
<1>5. SubSeq(a, 1, n) = a  BY SubSeqFull
<1>6. SubSeq(a, 1, n - 1) \in Seq(S)
  <2>1. n - 1 \in Int /\ 1 \in Int /\ \A i \in 1 .. n - 1 : a[i] \in S
    BY SMTT(60), <1>1
  <2> HIDE DEF n
  <2> QED  BY <2>1, SubSeqProperties
<1>7. Front(a) \in Seq(S) /\ Last(a) \in S /\ a = Front(a) \o <<Last(a)>>
  BY <1>1, <1>2, <1>3, <1>4, <1>5, <1>6
<1>8. ToSet(<<Last(a)>>) = {Last(a)}  BY DEF ToSet
<1>9. ToSet(Front(a) \o <<Last(a)>>) = ToSet(Front(a)) \cup {Last(a)}
  <2> DEFINE c == Front(a)  d == <<Last(a)>>
  <2>1. c \in Seq(S) /\ d \in Seq(S) /\ ToSet(d) = {Last(a)}  BY <1>7, <1>8
  <2> HIDE DEF c, d
  <2>2. ToSet(c \o d) = ToSet(c) \cup ToSet(d)  BY <2>1, InConcat
  <2> QED  BY <2>1, <2>2 DEF c, d
<1>10. Len(Front(a) \o <<Last(a)>>) = Len(Front(a)) + 1  BY <1>7
<1> QED  BY <1>7, <1>9, <1>10

(* A sequence without repetition. *)
Distinct(q) == \A i, j \in DOMAIN q : q[i] = q[j] => i = j

(* Two sequences in a row have distinct elements if each has and they share
   none. *)
LEMMA DistinctConcat ==
    ASSUME NEW S, NEW a \in Seq(S), NEW b \in Seq(S)
    PROVE  Distinct(a \o b) <=> /\ Distinct(a) /\ Distinct(b)
                                /\ ToSet(a) \cap ToSet(b) = {}
<1> DEFINE la == Len(a)  lb == Len(b)  q == a \o b
<1>1. la \in Nat /\ lb \in Nat /\ DOMAIN a = 1 .. la /\ DOMAIN b = 1 .. lb
  OBVIOUS
<1>2. /\ DOMAIN q = 1 .. la + lb
      /\ \A i \in 1 .. la : q[i] = a[i]
      /\ \A i \in 1 .. lb : q[la + i] = b[i]
  OBVIOUS
<1> HIDE DEF la, lb, q
<1>3. \A i \in 1 .. la : i \in 1 .. la + lb  BY <1>1
<1>4. \A i \in 1 .. lb : la + i \in 1 .. la + lb  BY <1>1
<1>5. ASSUME NEW i \in 1 .. la + lb PROVE i \in 1 .. la \/ \E j \in 1 .. lb : i = la + j
  <2>1. i \notin 1 .. la => i - la \in 1 .. lb /\ i = la + (i - la)  BY <1>1
  <2> QED  BY <2>1
<1>6. \A i \in 1 .. la, j \in 1 .. lb : i # la + j  BY <1>1
<1>7. \A i, j \in 1 .. lb : la + i = la + j => i = j  BY <1>1
<1>8. ASSUME Distinct(q) PROVE Distinct(a) /\ Distinct(b) /\ ToSet(a) \cap ToSet(b) = {}
  <2>1. Distinct(a)  BY <1>1, <1>2, <1>3, <1>8 DEF Distinct
  <2>2. Distinct(b)  BY SMTT(60), <1>1, <1>2, <1>4, <1>7, <1>8 DEF Distinct
  <2>3. ASSUME NEW x \in ToSet(a), x \in ToSet(b) PROVE FALSE
    <3>1. PICK i \in 1 .. la : x = a[i]  BY <1>1, <2>3 DEF ToSet
    <3>2. PICK j \in 1 .. lb : x = b[j]  BY <1>1, <2>3 DEF ToSet
    <3>3. q[i] = q[la + j]  BY <1>2, <3>1, <3>2
    <3> QED  BY <1>2, <1>3, <1>4, <1>6, <1>8, <3>3 DEF Distinct
  <2> QED  BY <2>1, <2>2, <2>3
<1>9. ASSUME Distinct(a), Distinct(b), ToSet(a) \cap ToSet(b) = {} PROVE Distinct(q)
  <2> SUFFICES ASSUME NEW i \in 1 .. la + lb, NEW j \in 1 .. la + lb, q[i] = q[j]
               PROVE  i = j
    BY <1>2 DEF Distinct
  <2>0. \A k \in 1 .. la, l \in 1 .. lb : q[k] # q[la + l]
    <3>1. \A k \in 1 .. la, l \in 1 .. lb : a[k] \in ToSet(a) /\ b[l] \in ToSet(b)
      BY <1>1 DEF ToSet
    <3> QED  BY <1>2, <1>9, <3>1
  <2>1. CASE i \in 1 .. la /\ j \in 1 .. la
    BY <1>1, <1>2, <1>9, <2>1 DEF Distinct
  <2>2. CASE i \notin 1 .. la /\ j \notin 1 .. la
    <3>1. PICK k \in 1 .. lb : i = la + k  BY <1>5, <2>2
    <3>2. PICK l \in 1 .. lb : j = la + l  BY <1>5, <2>2
    <3>3. b[k] = b[l]  BY <1>2, <3>1, <3>2
    <3> QED  BY <1>1, <1>9, <3>1, <3>2, <3>3 DEF Distinct
  <2>3. CASE i \in 1 .. la /\ j \notin 1 .. la  BY <1>5, <2>0, <2>3
  <2>4. CASE i \notin 1 .. la /\ j \in 1 .. la  BY <1>5, <2>0, <2>4
  <2> QED  BY <2>1, <2>2, <2>3, <2>4
<1> QED  BY <1>8, <1>9 DEF q

(* One element is distinct. *)
LEMMA DistinctOne == \A e : Distinct(<<e>>) /\ ToSet(<<e>>) = {e}
<1> TAKE e
<1>1. DOMAIN <<e>> = {1} /\ <<e>>[1] = e  OBVIOUS
<1> QED  BY <1>1 DEF Distinct, ToSet

(* The empty sequence has no member. *)
LEMMA NothingInEmpty == Distinct(<< >>) /\ ToSet(<< >>) = {}
BY DEF Distinct, ToSet

(* The gradient swapper's buffers, in terms of what its sequences hold. *)
LEMMA PartitionParts ==
    ASSUME NEW s \in Swappers
    PROVE  Partition(s) <=>
             /\ ToSet(s.all) = ToSet(s.free) \cup ToSet(s.swapping) \cup ({s.current} \ {0})
             /\ Distinct(s.free) /\ Distinct(s.swapping)
             /\ ToSet(s.free) \cap ToSet(s.swapping) = {}
             /\ s.current \notin ToSet(s.free) \cup ToSet(s.swapping)
             /\ \A b \in Buffers : /\ Len(s.fill[b]) <= NumPieces
                                   /\ b \notin ToSet(s.swapping) \cup {s.current} => s.fill[b] = << >>
<1>1. s.free \in Seq(Buffers) /\ s.swapping \in Seq(Buffers)  BY DEF Swappers
<1>2. Distinct(s.free \o s.swapping) <=> /\ Distinct(s.free) /\ Distinct(s.swapping)
                                         /\ ToSet(s.free) \cap ToSet(s.swapping) = {}
  BY <1>1, DistinctConcat
<1>3. Distinct(s.free \o s.swapping) <=>
        \A i, j \in DOMAIN (s.free \o s.swapping) :
           (s.free \o s.swapping)[i] = (s.free \o s.swapping)[j] => i = j
  BY DEF Distinct
<1> HIDE DEF Distinct
<1> QED  BY <1>2, <1>3 DEF Partition

(* Flushing the current buffer of the gradient swapper moves it to those being
   written, with its pieces. *)
LEMMA FlushedKeeps ==
    ASSUME TypeOK, NEW s \in Swappers, Partition(s), s.current \in Buffers
    PROVE  /\ Flushed(s) \in Swappers /\ Partition(Flushed(s))
           /\ Flushed(s).all = s.all /\ Flushed(s).free = s.free
           /\ Flushed(s).swapping = Append(s.swapping, s.current) /\ Flushed(s).current = 0
           /\ ToSet(Flushed(s).swapping) = ToSet(s.swapping) \cup {s.current}
           /\ Flushed(s).fill = s.fill /\ Flushed(s).next = s.next
           /\ Flushed(s).pending = s.pending + Len(s.fill[s.current])
<1> DEFINE e == s.current  w == s.swapping
<1>1. w \in Seq(Buffers) /\ s.pending \in Nat /\ s.fill[e] \in Seq(GradFiles)
  BY DEF Swappers
<1>2. Append(w, e) \in Seq(Buffers) /\ ToSet(Append(w, e)) = ToSet(w) \cup {e} /\ Append(w, e) = w \o <<e>>
  BY <1>1, InAppend
<1>3. s.pending + Len(s.fill[e]) \in Nat  BY <1>1
<1>4. /\ Flushed(s) \in Swappers
      /\ Flushed(s).all = s.all /\ Flushed(s).free = s.free
      /\ Flushed(s).swapping = Append(w, e) /\ Flushed(s).current = 0
      /\ Flushed(s).fill = s.fill /\ Flushed(s).next = s.next
      /\ Flushed(s).pending = s.pending + Len(s.fill[s.current])
  BY <1>2, <1>3 DEF Swappers, Flushed
<1>5. Distinct(Append(w, e))
  <2>1. <<e>> \in Seq(Buffers) /\ e \notin ToSet(w) /\ Distinct(w)
    BY PartitionParts
  <2>2. Distinct(<<e>>) /\ ToSet(<<e>>) = {e}  BY DistinctOne
  <2> HIDE DEF e, w
  <2>3. ToSet(w) \cap ToSet(<<e>>) = {}  BY <2>1, <2>2
  <2>4. Distinct(w \o <<e>>)  BY <1>1, <2>1, <2>2, <2>3, DistinctConcat
  <2> QED  BY <1>2, <2>4
<1>6. 0 \notin Buffers  BY Types
<1>7. 0 \notin ToSet(s.free) \cup ToSet(s.swapping)
  BY <1>6 DEF Swappers, ToSet
<1>8. Partition(Flushed(s))
  <2> DEFINE z == Flushed(s)
  <2>1. /\ z \in Swappers /\ z.all = s.all /\ z.free = s.free
        /\ ToSet(z.swapping) = ToSet(w) \cup {e} /\ Distinct(z.swapping)
        /\ z.current = 0 /\ z.fill = s.fill
    BY <1>2, <1>4, <1>5
  <2> HIDE DEF z
  <2>2. /\ ToSet(z.all) = ToSet(z.free) \cup ToSet(z.swapping) \cup ({z.current} \ {0})
        /\ Distinct(z.free)
        /\ ToSet(z.free) \cap ToSet(z.swapping) = {}
        /\ z.current \notin ToSet(z.free) \cup ToSet(z.swapping)
        /\ \A b \in Buffers : /\ Len(z.fill[b]) <= NumPieces
                              /\ b \notin ToSet(z.swapping) \cup {z.current} => z.fill[b] = << >>
    BY ZenonT(60), <1>6, <1>7, <2>1, PartitionParts
  <2>3. Partition(z)  BY <2>1, <2>2, PartitionParts
  <2> QED  BY <2>3 DEF z
<1> QED  BY <1>2, <1>4, <1>8

(* The next buffer of the gradient swapper is a free one, and empty. *)
LEMMA NextBufferKeeps ==
    ASSUME TypeOK, NEW s \in Swappers, Partition(s), s.current = 0, s.free # << >>
    PROVE  /\ NextBuffer(s) \in Swappers /\ Partition(NextBuffer(s))
           /\ NextBuffer(s).all = s.all /\ ToSet(NextBuffer(s).free) \subseteq ToSet(s.free)
           /\ NextBuffer(s).swapping = s.swapping /\ NextBuffer(s).current \in ToSet(s.free)
           /\ NextBuffer(s).current \in Buffers /\ NextBuffer(s).current = Last(s.free)
           /\ NextBuffer(s).fill = s.fill /\ NextBuffer(s).next = s.next
           /\ NextBuffer(s).pending = s.pending
           /\ NextBuffer(s).fill[NextBuffer(s).current] = << >>
<1> DEFINE z == NextBuffer(s)
<1>1. /\ Front(s.free) \in Seq(Buffers) /\ Last(s.free) \in Buffers
      /\ s.free = Front(s.free) \o <<Last(s.free)>>
      /\ ToSet(s.free) = ToSet(Front(s.free)) \cup {Last(s.free)}
  <2>1. s.free \in Seq(Buffers)  BY DEF Swappers
  <2> QED  BY <2>1, FrontAndLast
<1>2. /\ z \in Swappers
      /\ z.all = s.all /\ z.free = Front(s.free)
      /\ z.swapping = s.swapping /\ z.current = Last(s.free)
      /\ z.fill = s.fill /\ z.next = s.next /\ z.pending = s.pending
  BY <1>1 DEF Swappers, NextBuffer
<1> HIDE DEF z
<1>3. /\ Distinct(Front(s.free)) /\ Last(s.free) \notin ToSet(Front(s.free))
  <2>1. <<Last(s.free)>> \in Seq(Buffers) /\ ToSet(<<Last(s.free)>>) = {Last(s.free)}
    BY <1>1, DistinctOne
  <2>2. Distinct(s.free)  BY PartitionParts
  <2>3. Distinct(Front(s.free) \o <<Last(s.free)>>)  BY <1>1, <2>2
  <2> QED  BY <1>1, <2>1, <2>3, DistinctConcat
<1>4. Last(s.free) # 0 /\ 0 \notin Buffers  BY <1>1, Types
<1>5. /\ ToSet(z.all) = ToSet(z.free) \cup ToSet(z.swapping) \cup ({z.current} \ {0})
      /\ Distinct(z.free) /\ Distinct(z.swapping)
      /\ ToSet(z.free) \cap ToSet(z.swapping) = {}
      /\ z.current \notin ToSet(z.free) \cup ToSet(z.swapping)
      /\ \A b \in Buffers : /\ Len(z.fill[b]) <= NumPieces
                            /\ b \notin ToSet(z.swapping) \cup {z.current} => z.fill[b] = << >>
  BY ZenonT(60), <1>1, <1>2, <1>3, <1>4, PartitionParts
<1>6. Partition(z)  BY <1>2, <1>5, PartitionParts
<1>7. z.fill[z.current] = << >>
  <2>1. Last(s.free) \notin ToSet(s.swapping) \cup {s.current}
    BY <1>1, <1>4, PartitionParts
  <2>2. s.fill[Last(s.free)] = << >>  BY <1>1, <2>1, PartitionParts
  <2> QED  BY <1>2, <2>2
<1>8. /\ z \in Swappers /\ Partition(z)
      /\ z.all = s.all /\ ToSet(z.free) \subseteq ToSet(s.free)
      /\ z.swapping = s.swapping /\ z.current \in ToSet(s.free)
      /\ z.current \in Buffers /\ z.current = Last(s.free)
      /\ z.fill = s.fill /\ z.next = s.next
      /\ z.pending = s.pending
      /\ z.fill[z.current] = << >>
  BY <1>1, <1>2, <1>6, <1>7
<1> QED  BY <1>8 DEF z

(* Waiting for the gradient swapper's writes frees and empties all of its
   buffers. *)
LEMMA CompleteKeeps ==
    ASSUME TypeOK, NEW s \in Swappers, Partition(s), s.current = 0
    PROVE  /\ SwapComplete(s) \in Swappers /\ Partition(SwapComplete(s))
           /\ SwapComplete(s).all = s.all /\ SwapComplete(s).free = s.free \o s.swapping
           /\ ToSet(SwapComplete(s).free) = ToSet(s.all)
           /\ SwapComplete(s).swapping = << >> /\ SwapComplete(s).current = 0
           /\ \A b \in Buffers : SwapComplete(s).fill[b] = << >>
           /\ SwapComplete(s).next = s.next /\ SwapComplete(s).pending = 0
<1> DEFINE z == SwapComplete(s)
<1>1. /\ s.free \in Seq(Buffers) /\ s.swapping \in Seq(Buffers) /\ s.free \o s.swapping \in Seq(Buffers)
      /\ DOMAIN s.fill = Buffers
  BY DEF Swappers
<1>2. /\ z \in Swappers
      /\ z.all = s.all /\ z.free = s.free \o s.swapping
      /\ z.swapping = << >> /\ z.current = 0
      /\ z.fill = [b \in Buffers |-> << >>]
      /\ z.next = s.next /\ z.pending = 0
  <2>1. [b \in Buffers |-> << >>] \in [Buffers -> Seq(GradFiles)] /\ << >> \in Seq(Buffers) /\ 0 \in Nat
    OBVIOUS
  <2> QED  BY <1>1, <2>1 DEF Swappers, SwapComplete
<1> HIDE DEF z
<1>3. ToSet(s.free \o s.swapping) = ToSet(s.free) \cup ToSet(s.swapping)
  BY <1>1, InConcat
<1>4. Distinct(s.free \o s.swapping)  BY <1>1, PartitionParts, DistinctConcat
<1>5. 0 \notin ToSet(s.free) \cup ToSet(s.swapping)
  <2>1. 0 \notin Buffers  BY Types
  <2> QED  BY <1>1, <2>1 DEF ToSet
<1>6. ToSet(s.all) = ToSet(s.free) \cup ToSet(s.swapping)  BY PartitionParts
<1>7. Distinct(z.swapping) /\ ToSet(z.swapping) = {}  BY <1>2, NothingInEmpty
<1>8. \A b \in Buffers : z.fill[b] = << >> /\ Len(z.fill[b]) = 0  BY <1>2
<1>9. Len(<< >>) <= NumPieces
  <2>1. Len(<< >>) = 0  OBVIOUS
  <2> QED  BY <2>1, Constants
<1>10. /\ ToSet(z.all) = ToSet(z.free) \cup ToSet(z.swapping) \cup ({z.current} \ {0})
      /\ Distinct(z.free) /\ Distinct(z.swapping)
      /\ ToSet(z.free) \cap ToSet(z.swapping) = {}
      /\ z.current \notin ToSet(z.free) \cup ToSet(z.swapping)
      /\ \A b \in Buffers : /\ Len(z.fill[b]) <= NumPieces
                            /\ b \notin ToSet(z.swapping) \cup {z.current} => z.fill[b] = << >>
  BY <1>2, <1>3, <1>4, <1>5, <1>6, <1>7, <1>8, <1>9
<1>11. Partition(z)  BY <1>2, <1>10, PartitionParts
<1>12. /\ z \in Swappers /\ Partition(z)
       /\ z.all = s.all /\ z.free = s.free \o s.swapping
       /\ ToSet(z.free) = ToSet(s.all)
       /\ z.swapping = << >> /\ z.current = 0
       /\ \A b \in Buffers : z.fill[b] = << >>
       /\ z.next = s.next /\ z.pending = 0
  BY <1>2, <1>3, <1>6, <1>8, <1>11
<1> QED  BY <1>12 DEF z

(* The sequences that hold buffers. *)
LEMMA HoldingFacts ==
    ASSUME TypeOK
    PROVE  /\ Holding["free"] = free /\ Holding["all"] = grads.all
           /\ Holding["sync_in"] = ops.sync_in.buffers /\ Holding["async_in"] = ops.async_in.buffers
           /\ Holding["sync_out"] = ops.sync_out.buffers /\ Holding["async_out"] = ops.async_out.buffers
           /\ Holding \in [Slots -> Seq(Buffers)]
<1>1. /\ Holding["free"] = free /\ Holding["all"] = grads.all
      /\ \A x \in {"sync_in", "async_in", "sync_out", "async_out"} : Holding[x] = ops[x].buffers
  BY DEF Holding, Slots
<1>2. \A x \in {"sync_in", "async_in", "sync_out", "async_out"} : ops[x].buffers \in Seq(Buffers)
  BY Types
<1>3. free \in Seq(Buffers) /\ grads.all \in Seq(Buffers)  BY Types DEF TypeOK
<1>4. \A x \in Slots : Holding[x] \in Seq(Buffers)
  BY <1>1, <1>2, <1>3 DEF Slots
<1>5. Holding \in [Slots -> Seq(Buffers)]
  <2>1. Holding = [x \in Slots |-> Holding[x]]  BY DEF Holding
  <2> QED  BY <1>4, <2>1, Zenon
<1> QED  BY <1>1, <1>5

(* Beginning the step of a batch that overflows keeps the invariant. *)
LEMMA OverflowKeeps ==
    ASSUME SwapInv, Overflow
    PROVE  SwapInv'
<1>1. /\ at = "backward" /\ arrived' = {} /\ batch' = batch + 1
      /\ UNCHANGED <<cfg, at, group, updates, free, grads, info, ops, reads, writes,
                     memory, disk, raised>>
  BY DEF Overflow, BackwardIsOver
<1>2. TypeOK /\ Gathering /\ batch \in Nat /\ batch > 0 /\ batch' \in Nat /\ batch' > 0
  <2>1. TypeOK /\ Gathering /\ batch \in Nat /\ batch > 0
    BY <1>1, Parts DEF Gathering, TypeOK, Progress
  <2> QED  BY <1>1, <2>1
<1>3. TypeOK'
  <2>1. HandleOK(reads)' /\ HandleOK(writes)'
    BY <1>1, <1>2 DEF TypeOK, HandleOK, Requests, Buffers
  <2> QED  BY <1>1, <1>2, <2>1 DEF TypeOK, Operations, Swappers, Buffers
<1>4. Pool'  BY <1>1, Parts DEF Pool, Holding, Slots, Buffers
<1>5. Progress'
  <2>1. batch' # 0 /\ batch # 0  BY <1>2
  <2>2. Gathering'  BY <1>1, <1>2 DEF Gathering
  <2> QED
    BY <1>1, <1>2, <2>1, <2>2, Parts DEF Progress, HasBuffers, Gathering, Following, First
<1>6. Created'  BY <1>1, <1>2, Parts DEF Created
<1>7. OpsOK' /\ ReadsOK' /\ InMemory' /\ Writing' = None /\ Writing = None
  BY <1>1, <1>2, NoOperationKept
<1>8. WritesOK'  BY <1>1, <1>7, Parts, WritesSame
<1>9. StatesOnDisk'  BY <1>1, Parts, StatesSame
<1>10. GradsOK'
  BY ZenonT(60), <1>1, Parts DEF GradsOK, Partition, HasBuffers, Buffers
<1>11. Filling'  BY <1>1, Parts DEF Filling, Buffers
<1>12. Remembered'
  <2>1. batch' # 0  BY <1>2
  <2> QED  BY <1>1, <2>1, Parts DEF Remembered
<1>13. SmallKept' /\ LargeKept'  BY <1>1 DEF SmallKept, LargeKept
<1> QED
  BY <1>3, <1>4, <1>5, <1>6, <1>7, <1>8, <1>9, <1>10, <1>11, <1>12, <1>13 DEF SwapInv

(* Beginning the step of a batch keeps the invariant. *)
LEMMA StepBeginsKeeps ==
    ASSUME SwapInv, StepBegins
    PROVE  SwapInv'
<1>1. /\ at = "backward" /\ at' = "swap_in" /\ group' = First(cfg.swappable)
      /\ arrived = cfg.swappable \X Pieces
      /\ UNCHANGED <<cfg, batch, arrived, updates, free, grads, info, ops, reads,
                     writes, memory, disk, raised>>
  BY DEF StepBegins, BackwardIsOver
<1>2. TypeOK /\ Gathering /\ batch \in Nat /\ batch > 0
  BY <1>1, Parts DEF Gathering, TypeOK, Progress
<1>3. group' \in cfg.swappable
  <2>1. cfg \in Configs /\ group \in cfg.swappable  BY <1>2 DEF TypeOK
  <2> QED  BY <1>1, <2>1, FollowingFacts
<1>4. TypeOK'
  <2>1. HandleOK(reads)' /\ HandleOK(writes)'
    BY <1>1, <1>2 DEF TypeOK, HandleOK, Requests, Buffers
  <2>2. at' \in Places  BY <1>1 DEF Places
  <2> QED
    BY <1>1, <1>2, <1>3, <2>1, <2>2 DEF TypeOK, Operations, Swappers, Buffers
<1>5. Pool'  BY <1>1, Parts DEF Pool, Holding, Slots, Buffers
<1>6. Progress'
  <2>1. ops.sync_in = None /\ ops.async_in = None /\ ops.sync_out = None /\ ops.async_out = None
    BY <1>2, Parts, NoOperation
  <2>2. batch # 0 /\ ~Gathering'  BY <1>1, <1>2 DEF Gathering
  <2> QED  BY <1>1, <1>2, <2>1, <2>2, Parts DEF Progress, HasBuffers, Gathering
<1>7. Created'  BY <1>1, <1>2, Parts DEF Created
<1>8. OpsOK' /\ ReadsOK' /\ InMemory' /\ Writing' = None /\ Writing = None
  BY <1>1, <1>2, NoOperationKept
<1>9. WritesOK'  BY <1>1, <1>8, Parts, WritesSame
<1>10. StatesOnDisk'
  <2>1. \A g, k : Newest(StateFile(g, k))' = Newest(StateFile(g, k))
    BY <1>1 DEF Newest
  <2> QED  BY <1>1, <2>1, Parts DEF StatesOnDisk
<1>11. GradsOK'  BY <1>1, Parts DEF GradsOK, Partition, HasBuffers, Buffers
<1>12. Filling'  BY <1>1, Parts DEF Filling, Buffers
<1>13. Remembered'  BY <1>1, Parts DEF Remembered
<1>14. SmallKept'
  <2>1. \A g : ~Taken(g)  BY <1>2 DEF Taken
  <2> QED  BY <1>1, <2>1, Parts DEF SmallKept
<1>15. LargeKept'
  <2>1. \A g \in Groups : info[g].swapped \subseteq info'[g].swapped  BY <1>1
  <2> QED  BY <1>1, <2>1, Parts, LargeSame
<1> QED
  BY <1>4, <1>5, <1>6, <1>7, <1>8, <1>9, <1>10, <1>11, <1>12, <1>13, <1>14, <1>15 DEF SwapInv

(* The current buffer is submitted: the writes that were ready are queued. *)
LEMMA FlushEffect ==
    ASSUME TypeOK, GradsOK, WritesOK, Writing = None, grads.current # 0
    PROVE  /\ Flushed(grads) \in Swappers /\ Partition(Flushed(grads))
           /\ Flushed(grads).all = grads.all /\ Flushed(grads).free = grads.free
           /\ Flushed(grads).current = 0 /\ Flushed(grads).fill = grads.fill
           /\ ToSet(Flushed(grads).swapping) = ToSet(grads.swapping) \cup {grads.current}
           /\ HandleOK(Submit(writes, WritesOf(grads)))
           /\ \A t \in Threads : Submit(writes, WritesOf(grads)).work[t] = Queue(t)
           /\ Submit(writes, WritesOf(grads)).pending = Flushed(grads).pending
           /\ \A t \in Threads : \A i \in DOMAIN Queue(t) :
                 LET r == Queue(t)[i] IN
                 /\ r.buffer \in ToSet(Flushed(grads).swapping)
                 /\ \E k \in DOMAIN grads.fill[r.buffer] :
                       r = Request(FALSE, r.buffer, {k}, grads.fill[r.buffer][k])
           /\ \A t \in Threads : \A i \in DOMAIN writes.work[t] :
                 i \in DOMAIN Queue(t) /\ Queue(t)[i] = writes.work[t][i]
<1> DEFINE n == Len(grads.fill[grads.current])
<1>1. /\ grads.current \in Buffers /\ grads.fill[grads.current] \in Seq(GradFiles)
      /\ grads \in Swappers /\ Partition(grads)
      /\ DOMAIN grads.fill[grads.current] = 1 .. n
  <2>1. grads.current \in Buffers /\ grads.fill[grads.current] \in Seq(GradFiles)
    BY Types
  <2>2. grads \in Swappers /\ Partition(grads)  BY DEF TypeOK, GradsOK
  <2> QED  BY <2>1, <2>2
<1>2. n \in Nat /\ n <= NumPieces  BY <1>1 DEF Partition
<1>3. /\ WritesOf(grads) \in Seq(Requests) /\ Len(WritesOf(grads)) = n
      /\ DOMAIN WritesOf(grads) = 1 .. n
      /\ \A i \in 1 .. n :
            /\ WritesOf(grads)[i] = Request(FALSE, grads.current, {i}, grads.fill[grads.current][i])
            /\ WritesOf(grads)[i].read = FALSE /\ WritesOf(grads)[i].buffer = grads.current
            /\ WritesOf(grads)[i].pieces = {i} /\ WritesOf(grads)[i].file = grads.fill[grads.current][i]
            /\ grads.fill[grads.current][i] \in GradFiles /\ i \in Pieces
  <2>1. Len(grads.fill[grads.current]) = n  OBVIOUS
  <2> HIDE DEF n
  <2> QED  BY <1>1, <1>2, <2>1, WritesOfFacts, Zenon
<1> DEFINE z == Flushed(grads)
<1>4. /\ z \in Swappers /\ Partition(z)
      /\ z.all = grads.all /\ z.free = grads.free
      /\ z.current = 0 /\ z.fill = grads.fill
      /\ ToSet(z.swapping) = ToSet(grads.swapping) \cup {grads.current}
      /\ z.pending = grads.pending + n
  BY <1>1, FlushedKeeps
<1> HIDE DEF n, z
<1> DEFINE s == Submit(writes, WritesOf(grads))
<1>5. /\ HandleOK(s) /\ s.pending = writes.pending + n
      /\ \A t \in Threads : s.work[t] = writes.work[t] \o WritesOf(grads)
  <2>1. HandleOK(writes)  BY DEF TypeOK
  <2> QED  BY <1>3, <2>1, SubmitKeeps
<1> HIDE DEF s
<1>6. \A t \in Threads : Queue(t) = writes.work[t] \o WritesOf(grads)
  BY DEF Queue
<1>7. s.pending = z.pending
  <2>1. writes.pending = grads.pending  BY DEF WritesOK
  <2> QED  BY <1>4, <1>5, <2>1
<1>8. ASSUME NEW t \in Threads, NEW i \in DOMAIN Queue(t)
      PROVE  /\ Queue(t)[i].buffer \in ToSet(z.swapping)
             /\ \E k \in DOMAIN grads.fill[Queue(t)[i].buffer] :
                   Queue(t)[i] = Request(FALSE, Queue(t)[i].buffer, {k}, grads.fill[Queue(t)[i].buffer][k])
  <2> DEFINE a == writes.work[t]  b == WritesOf(grads)  la == Len(a)
  <2>1. a \in Seq(Requests) /\ b \in Seq(Requests) /\ la \in Nat /\ DOMAIN a = 1 .. la
    BY <1>3 DEF TypeOK, HandleOK
  <2>2. /\ DOMAIN Queue(t) = 1 .. la + n
        /\ Queue(t)[i] = IF i <= la THEN a[i] ELSE b[i - la]
    <3> HIDE DEF a, b
    <3>1. Len(b) = n /\ Queue(t) = a \o b  BY <1>3, <1>6 DEF a, b
    <3>2. /\ a \o b \in Seq(Requests) /\ Len(a \o b) = la + n
          /\ \A j \in 1 .. la + n : (a \o b)[j] = IF j <= la THEN a[j] ELSE b[j - la]
      BY <2>1, <3>1, ConcatProperties
    <3>3. DOMAIN (a \o b) = 1 .. la + n  BY <3>2
    <3> QED  BY <1>8, <3>1, <3>2, <3>3
  <2> HIDE DEF a, b, la
  <2>3. CASE i <= la
    <3>1. i \in 1 .. la  BY <1>2, <1>8, <2>1, <2>2, <2>3
    <3>2. GradWrite(a[i])
      <4>1. ~StateWrite(a[i], t)  BY DEF StateWrite
      <4> QED  BY <2>1, <3>1, <4>1 DEF WritesOK, a
    <3>3. Queue(t)[i] = a[i]  BY <2>2, <2>3
    <3> HIDE DEF a
    <3> DEFINE r == a[i]
    <3>4. GradWrite(r) /\ Queue(t)[i] = r  BY <3>2, <3>3
    <3> HIDE DEF r
    <3> QED  BY <1>4, <3>4 DEF GradWrite
  <2>4. CASE ~(i <= la)
    <3> DEFINE k == i - la
    <3>1. k \in 1 .. n  BY <1>2, <1>8, <2>1, <2>2, <2>4
    <3>2. Queue(t)[i] = b[k]  BY <2>2, <2>4
    <3> HIDE DEF k
    <3>3. /\ b[k] = Request(FALSE, grads.current, {k}, grads.fill[grads.current][k])
          /\ b[k].buffer = grads.current
      BY <1>3, <3>1 DEF b
    <3> DEFINE r == b[k]
    <3>4. /\ r = Request(FALSE, grads.current, {k}, grads.fill[grads.current][k])
          /\ r.buffer = grads.current /\ Queue(t)[i] = r
      BY <3>2, <3>3
    <3> HIDE DEF r
    <3>5. k \in DOMAIN grads.fill[grads.current]  BY <1>1, <3>1
    <3>6. r.buffer \in ToSet(z.swapping)  BY ZenonT(60), <1>4, <3>4
    <3>7. \E m \in DOMAIN grads.fill[r.buffer] :
                r = Request(FALSE, r.buffer, {m}, grads.fill[r.buffer][m])
      BY <3>4, <3>5
    <3> QED  BY <3>4, <3>6, <3>7
  <2> QED  BY <2>3, <2>4
<1>9. ASSUME NEW t \in Threads, NEW i \in DOMAIN writes.work[t]
      PROVE  i \in DOMAIN Queue(t) /\ Queue(t)[i] = writes.work[t][i]
  <2> DEFINE a == writes.work[t]  b == WritesOf(grads)
  <2>1. a \in Seq(Requests) /\ b \in Seq(Requests) /\ i \in DOMAIN a
    BY <1>3, <1>9 DEF TypeOK, HandleOK
  <2> HIDE DEF a, b
  <2>2. i \in DOMAIN (a \o b) /\ (a \o b)[i] = a[i]  BY <2>1
  <2> QED  BY <1>6, <2>2 DEF a, b
<1> QED  BY <1>4, <1>5, <1>6, <1>7, <1>8, <1>9 DEF s, z

(* One move of buffers in a step. *)
LEMMA PoolMoved ==
    ASSUME TypeOK, Pool, cfg' = cfg, NEW x \in Slots, NEW y \in Slots, x # y,
           NEW a \in Seq(Buffers), NEW b \in Seq(Buffers), Holding[x] = a \o b,
           Holding'[x] = a, Holding'[y] = Holding[y] \o b,
           \A z \in Slots : z # x /\ z # y => Holding'[z] = Holding[z]
    PROVE  Pool'
<1>1. PICK H : H = Holding  OBVIOUS
<1>2. PICK K : K = Holding'  OBVIOUS
<1>3. H \in [Slots -> Seq(Buffers)] /\ Owned(H, Buffers, cfg.buffers)
  BY <1>1, HoldingFacts DEF Pool
<1>4. K \in [Slots -> Seq(Buffers)]
  <2>1. K = [z \in Slots |-> K[z]]  BY <1>2 DEF Holding
  <2>2. H[y] \o b \in Seq(Buffers)  BY <1>3
  <2>3. \A z \in Slots : K[z] \in Seq(Buffers)  BY <1>1, <1>2, <1>3, <2>2
  <2> QED  BY <2>1, <2>3, Zenon
<1>5. /\ H[x] = a \o b /\ K[x] = a /\ K[y] = H[y] \o b
      /\ \A z \in Slots : z # x /\ z # y => K[z] = H[z]
  BY <1>1, <1>2
<1> DEFINE M == Moved(H, x, y, a, b)
<1>6. Owned(K, Buffers, cfg.buffers)
  <2>1. Owned(M, Buffers, cfg.buffers)  BY <1>3, <1>5, MoveKeeps
  <2>2. /\ M \in [Slots -> Seq(Buffers)] /\ M[x] = a /\ M[y] = H[y] \o b
        /\ \A z \in Slots : z # x /\ z # y => M[z] = H[z]
    <3>1. H[y] \o b \in Seq(Buffers)  BY <1>3
    <3> QED  BY <1>3, <3>1 DEF Moved
  <2> HIDE DEF M
  <2>3. \A z \in Slots : K[z] = M[z]  BY <1>5, <2>2
  <2>4. K = M  BY <1>4, <2>2, <2>3
  <2> QED  BY <2>1, <2>4
<1>7. Buffers' = Buffers /\ cfg'.buffers = cfg.buffers  BY DEF Buffers
<1>8. Owned(Holding', Buffers', cfg'.buffers)  BY <1>2, <1>6, <1>7
<1> QED  BY <1>8 DEF Pool, Owned, Total

(* Flushing the gradients that are left keeps the invariant. *)
LEMMA FlushGradientsKeeps ==
    ASSUME SwapInv, FlushGradients
    PROVE  SwapInv'
<1>1. /\ at = "swap_in" /\ HasBuffers /\ at' = "flush"
      /\ writes' = IF grads.current = 0 THEN writes ELSE Submit(writes, WritesOf(grads))
      /\ grads' = IF grads.current = 0 THEN grads ELSE Flushed(grads)
      /\ UNCHANGED <<cfg, group, batch, arrived, updates, free, info, ops, reads,
                     memory, disk, raised>>
  BY DEF FlushGradients
<1>2. TypeOK /\ GradsOK /\ WritesOK /\ Writing = None
  BY <1>1, Parts, NoOperation
<1>3. ~Gathering /\ ~Gathering'  BY <1>1 DEF Gathering
<1>4. OpsOK' /\ ReadsOK' /\ InMemory' /\ Writing' = None
  BY <1>1, <1>2, NoOperationKept
<1>5. /\ grads' \in Swappers /\ Partition(grads')
      /\ grads'.all = grads.all /\ grads'.current = 0 /\ grads'.fill = grads.fill
      /\ grads'.free = grads.free
  BY <1>1, <1>2, FlushEffect DEF TypeOK, GradsOK
<1>6. /\ HandleOK(writes') /\ writes'.pending = grads'.pending
      /\ \A t \in Threads : writes'.work[t] = Queue(t)
      /\ \A t \in Threads : \A i \in DOMAIN Queue(t) :
            LET r == Queue(t)[i] IN
            /\ r.buffer \in ToSet(grads'.swapping)
            /\ \E k \in DOMAIN grads.fill[r.buffer] :
                  r = Request(FALSE, r.buffer, {k}, grads.fill[r.buffer][k])
      /\ \A t \in Threads : \A i \in DOMAIN writes.work[t] :
            i \in DOMAIN Queue(t) /\ Queue(t)[i] = writes.work[t][i]
  <2>1. CASE grads.current # 0  BY <1>1, <1>2, <2>1, FlushEffect
  <2>2. CASE grads.current = 0
    <3>1. HandleOK(writes) /\ writes.pending = grads.pending
      BY <1>2 DEF TypeOK, WritesOK
    <3>2. ASSUME NEW t \in Threads PROVE writes.work[t] = Queue(t)
      <4>1. writes.work[t] \in Seq(Requests)  BY <3>1 DEF HandleOK
      <4> QED  BY <2>2, <4>1, ConcatEmptySeq DEF Queue
    <3>3. \A t \in Threads : \A i \in DOMAIN writes.work[t] : GradWrite(writes.work[t][i])
      BY <1>2 DEF WritesOK, StateWrite
    <3>4. ASSUME NEW r, GradWrite(r)
          PROVE  /\ r.buffer \in ToSet(grads.swapping)
                 /\ \E k \in DOMAIN grads.fill[r.buffer] :
                       r = Request(FALSE, r.buffer, {k}, grads.fill[r.buffer][k])
      BY <3>4 DEF GradWrite
    <3>5. writes' = writes /\ grads' = grads  BY <1>1, <2>2
    <3>6. \A t \in Threads : \A i \in DOMAIN Queue(t) :
             LET r == Queue(t)[i] IN
             /\ r.buffer \in ToSet(grads.swapping)
             /\ \E k \in DOMAIN grads.fill[r.buffer] :
                   r = Request(FALSE, r.buffer, {k}, grads.fill[r.buffer][k])
      BY <3>2, <3>3, <3>4
    <3> QED  BY <3>1, <3>2, <3>5, <3>6
  <2> QED  BY <2>1, <2>2
<1>7. TypeOK'
  <2>1. HandleOK(reads)' /\ HandleOK(writes)'
    <3>1. HandleOK(reads)  BY <1>2 DEF TypeOK
    <3> QED  BY <1>1, <1>6, <3>1 DEF HandleOK, Requests, Buffers
  <2>2. at' \in Places  BY <1>1 DEF Places
  <2>3. grads' \in Swappers'  BY <1>1, <1>5 DEF Swappers, Buffers
  <2> QED  BY <1>1, <1>2, <2>1, <2>2, <2>3 DEF TypeOK, Operations, Buffers
<1>8. Pool'  BY <1>1, <1>5, Parts DEF Pool, Holding, Slots, Buffers
<1>9. Progress'
  BY <1>1, <1>3, <1>5, Parts DEF Progress, HasBuffers, Following, First
<1>10. Created'  BY <1>1, Parts DEF Created
<1>11. WritesOK'
  <2>1. ASSUME NEW t \in Threads, NEW i \in DOMAIN writes'.work[t]
        PROVE  GradWrite(writes.work[t][i])'
    <3>1. PICK r : r = Queue(t)[i]  OBVIOUS
    <3>2. i \in DOMAIN Queue(t) /\ writes'.work[t][i] = r  BY <1>6, <3>1
    <3>3. /\ r.buffer \in ToSet(grads'.swapping)
          /\ \E k \in DOMAIN grads.fill[r.buffer] :
                r = Request(FALSE, r.buffer, {k}, grads.fill[r.buffer][k])
      <4>1. \A j \in DOMAIN Queue(t) :
               /\ Queue(t)[j].buffer \in ToSet(grads'.swapping)
               /\ \E k \in DOMAIN grads.fill[Queue(t)[j].buffer] :
                     Queue(t)[j] = Request(FALSE, Queue(t)[j].buffer, {k}, grads.fill[Queue(t)[j].buffer][k])
        BY <1>6
      <4> QED  BY <3>1, <3>2, <4>1
    <3> QED  BY <1>5, <3>2, <3>3 DEF GradWrite
  <2> QED  BY <1>4, <1>6, <2>1 DEF WritesOK
<1>12. StatesOnDisk'
  <2>1. \A g, k : Newest(StateFile(g, k))' = Newest(StateFile(g, k))
    BY <1>1 DEF Newest
  <2>2. ASSUME NEW f, NEW t \in Threads, \E i \in DOMAIN writes.work[t] : writes.work[t][i].file = f
        PROVE  \E i \in DOMAIN writes'.work[t] : writes'.work[t][i].file = f
    BY <1>6, <2>2
  <2> QED  BY <1>1, <2>1, <2>2, Parts DEF StatesOnDisk
<1>13. GradsOK'
  <2>1. Partition(grads)'  BY <1>1, <1>5 DEF Partition, Buffers
  <2>2. HasBuffers'  BY <1>1, <1>5 DEF HasBuffers
  <2> QED  BY <1>1, <1>5, <2>1, <2>2 DEF GradsOK
<1>14. Filling'  BY <1>1, <1>5, Parts DEF Filling, Buffers
<1>15. Remembered'  BY <1>1, Parts DEF Remembered
<1>16. SmallKept'
  <2>1. \A g : Taken(g) => Taken(g)'  BY <1>1, <1>3 DEF Taken
  <2> QED  BY <1>1, <2>1, Parts DEF SmallKept
<1>17. LargeKept'
  <2>1. \A f : Newest(f)' = Newest(f)  BY <1>1, NewestKept
  <2>2. ASSUME NEW t \in Threads PROVE Queue(t)' = Queue(t)
    <3>1. writes'.work[t] \in Seq(Requests)  BY <1>6 DEF HandleOK
    <3>2. Queue(t)' = writes'.work[t] \o << >>  BY <1>5 DEF Queue
    <3> QED  BY <1>6, <3>1, <3>2, ConcatEmptySeq
  <2>3. ASSUME NEW f, NEW t \in Threads, InDirection(f, t)
        PROVE  InDirection(f, t)'
    BY <1>1, <2>1, <2>2, <2>3 DEF InDirection
  <2>4. \A g \in Groups, p \in Pieces : <<g, p>> \in arrived \cap cfg.large =>
            /\ p \in info[g].swapped
            /\ \A t \in Threads : InDirection(GradFile(g, p), t)
    BY <1>1, Parts DEF LargeKept
  <2> QED  BY <1>1, <2>3, <2>4 DEF LargeKept
<1> QED
  BY <1>4, <1>7, <1>8, <1>9, <1>10, <1>11, <1>12, <1>13, <1>14, <1>15, <1>16, <1>17 DEF SwapInv

(* The wait for the writes of the gradients finds what it counted. *)
LEMMA WrittenFacts ==
    ASSUME SwapInv, GradientsAreWritten, Writing = None, cfg' = cfg, grads.current = 0
    PROVE  /\ raised' = FALSE /\ writes' = Waited(writes) /\ HandleOK(writes')
           /\ writes'.pending = 0
           /\ \A t \in Threads : writes.work[t] = << >> /\ writes'.work[t] = << >> /\ Queue(t) = << >>
           /\ \A f, t : t \in Threads /\ InDirection(f, t) => disk[f][t] = Newest(f)
           /\ at # "swap_out" =>
                 \A g \in cfg.swappable, t \in Threads : \A k \in 1 .. info[g].tensors :
                       disk[StateFile(g, k)][t] = Newest(StateFile(g, k))
<1>1. WaitReturns(writes) /\ writes' = Waited(writes) /\ raised' = (writes.pending # grads.pending)
  BY DEF GradientsAreWritten
<1>2. TypeOK /\ WritesOK /\ HandleOK(writes) /\ writes.pending = grads.pending
  BY Parts DEF TypeOK, WritesOK
<1>3. /\ HandleOK(Waited(writes)) /\ Waited(writes).pending = 0 /\ Waited(writes).work = writes.work
      /\ \A t \in Threads : writes.work[t] = << >>
  BY <1>1, <1>2, WaitedKeeps
<1>4. \A t \in Threads : Queue(t) = << >>
  <2>1. << >> \in Seq(Requests) /\ << >> \o << >> = << >>  OBVIOUS
  <2> QED  BY <1>3, <2>1 DEF Queue
<1>5. ASSUME NEW f, NEW t \in Threads, InDirection(f, t)
      PROVE  disk[f][t] = Newest(f)
  <2>1. Directed(<< >>, memory, disk[f][t], f, t, Newest(f))
    BY <1>4, <1>5 DEF InDirection
  <2>2. DOMAIN << >> = {}  OBVIOUS
  <2> QED  BY <2>1, <2>2 DEF Directed
<1>6. ASSUME at # "swap_out", NEW g \in cfg.swappable, NEW t \in Threads,
             NEW k \in 1 .. info[g].tensors
      PROVE  disk[StateFile(g, k)][t] = Newest(StateFile(g, k))
  <2>1. DOMAIN << >> = {}  OBVIOUS
  <2>2. DOMAIN writes.work[t] = {}  BY <1>3, <2>1
  <2> QED  BY <1>6, <2>2, Parts DEF StatesOnDisk
<1> QED  BY <1>1, <1>2, <1>3, <1>4, <1>5, <1>6

(* Giving the gradient swapper's buffers back to the pool keeps the invariant:
   all its writes are over. *)
LEMMA ReleaseBuffersKeeps ==
    ASSUME SwapInv, ReleaseBuffers
    PROVE  SwapInv'
<1>1. /\ at = "flush" /\ at' = "swap_in" /\ GradientsAreWritten
      /\ free' = free \o grads.all
      /\ grads' = [SwapComplete(grads) EXCEPT !.all = << >>, !.free = << >>]
      /\ UNCHANGED <<cfg, group, batch, arrived, updates, info, ops, reads, memory, disk>>
  BY DEF ReleaseBuffers, Freed
<1>2. TypeOK /\ GradsOK /\ WritesOK /\ Writing = None /\ HasBuffers /\ grads.current = 0
  BY <1>1, Parts, NoOperation DEF GradsOK
<1>3. ~Gathering /\ ~Gathering'  BY <1>1 DEF Gathering
<1>4. OpsOK' /\ ReadsOK' /\ InMemory' /\ Writing' = None
  BY <1>1, <1>2, NoOperationKept
<1>5. /\ raised' = FALSE /\ HandleOK(writes')
      /\ writes'.pending = 0
      /\ \A t \in Threads : writes'.work[t] = << >>
      /\ \A f, t : t \in Threads /\ InDirection(f, t) => disk[f][t] = Newest(f)
      /\ \A g \in cfg.swappable, t \in Threads : \A k \in 1 .. info[g].tensors :
                       disk[StateFile(g, k)][t] = Newest(StateFile(g, k))
  BY <1>1, <1>2, WrittenFacts
<1>6. /\ grads' \in Swappers
      /\ grads'.all = << >> /\ grads'.free = << >> /\ grads'.swapping = << >>
      /\ grads'.current = 0 /\ grads'.pending = 0
      /\ \A b \in Buffers : grads'.fill[b] = << >>
  <2> DEFINE z == SwapComplete(grads)
  <2>1. /\ z \in Swappers /\ z.swapping = << >> /\ z.current = 0 /\ z.pending = 0
        /\ \A b \in Buffers : z.fill[b] = << >>
    BY <1>2, CompleteKeeps DEF TypeOK, GradsOK
  <2>2. grads' = [z EXCEPT !.all = << >>, !.free = << >>]  BY <1>1
  <2> HIDE DEF z
  <2>3. << >> \in Seq(Buffers)  OBVIOUS
  <2> QED  BY <2>1, <2>2, <2>3 DEF Swappers
<1>7. /\ free \in Seq(Buffers) /\ grads.all \in Seq(Buffers) /\ free' \in Seq(Buffers)
  <2>1. free \in Seq(Buffers) /\ grads.all \in Seq(Buffers)
    BY <1>2 DEF TypeOK, Swappers
  <2> QED  BY <1>1, <2>1
<1>8. TypeOK'
  <2>1. HandleOK(reads)' /\ HandleOK(writes)'
    <3>1. HandleOK(reads)  BY <1>2 DEF TypeOK
    <3> QED  BY <1>1, <1>5, <3>1 DEF HandleOK, Requests, Buffers
  <2>2. at' \in Places  BY <1>1 DEF Places
  <2>3. grads' \in Swappers' /\ free' \in Seq(Buffers')
    BY <1>1, <1>6, <1>7 DEF Swappers, Buffers
  <2> QED
    BY <1>1, <1>2, <1>5, <2>1, <2>2, <2>3 DEF TypeOK, Operations, Buffers
<1>9. Pool'
  <2>1. /\ Holding["free"] = free /\ Holding["all"] = << >> \o grads.all
        /\ Holding \in [Slots -> Seq(Buffers)]
    BY <1>2, <1>7, HoldingFacts, ConcatEmptySeq
  <2>2. /\ Holding'["free"] = Holding["free"] \o grads.all /\ Holding'["all"] = << >>
        /\ \A z \in Slots : z # "all" /\ z # "free" => Holding'[z] = Holding[z]
    BY <1>1, <1>6, <2>1 DEF Holding, Slots
  <2>3. "all" \in Slots /\ "free" \in Slots /\ "all" # "free" /\ << >> \in Seq(Buffers)
    BY DEF Slots
  <2> QED  BY ZenonT(60), <1>1, <1>2, <1>7, <2>1, <2>2, <2>3, Parts, PoolMoved
<1>10. Progress'
  <2>1. ~HasBuffers' /\ batch # 0
    BY <1>2, <1>6, Parts DEF HasBuffers, Progress
  <2> QED  BY <1>1, <1>3, <2>1, Parts DEF Progress, Following, First
<1>11. Created'  BY <1>1, Parts DEF Created
<1>12. WritesOK'
  <2>1. DOMAIN << >> = {}  OBVIOUS
  <2> QED  BY <1>4, <1>5, <1>6, <2>1 DEF WritesOK
<1>13. StatesOnDisk'
  <2>1. \A g, k : Newest(StateFile(g, k))' = Newest(StateFile(g, k))
    BY <1>1 DEF Newest
  <2> QED  BY <1>1, <1>5, <2>1 DEF StatesOnDisk
<1>14. GradsOK'
  <2>1. ToSet(<< >>) = {} /\ << >> \o << >> = << >> /\ DOMAIN << >> = {} /\ Len(<< >>) = 0
    BY DEF ToSet
  <2>2. 0 <= NumPieces  BY Constants
  <2>3. Partition(grads)'  BY <1>1, <1>6, <2>1, <2>2 DEF Partition, Buffers
  <2> QED  BY <1>1, <1>6, <2>3 DEF GradsOK, HasBuffers
<1>15. Filling'
  <2>1. DOMAIN << >> = {}  OBVIOUS
  <2> QED  BY <1>1, <1>6, <2>1 DEF Filling, Buffers
<1>16. Remembered'  BY <1>1, Parts DEF Remembered
<1>17. SmallKept'
  <2>1. \A g : Taken(g) => Taken(g)'  BY <1>1, <1>3 DEF Taken
  <2> QED  BY <1>1, <2>1, Parts DEF SmallKept
<1>18. LargeKept'
  <2>1. \A g \in Groups, p \in Pieces : <<g, p>> \in arrived \cap cfg.large =>
            /\ p \in info[g].swapped
            /\ \A t \in Threads : InDirection(GradFile(g, p), t)
    BY <1>1, Parts DEF LargeKept
  <2>2. \A g \in Groups, p \in Pieces : <<g, p>> \in arrived' \cap cfg'.large =>
            /\ p \in info'[g].swapped
            /\ \A t \in Threads : disk'[GradFile(g, p)][t] = <<GradFile(g, p), batch'>>
    BY <1>1, <1>5, <2>1, FileFacts
  <2>3. DOMAIN << >> = {}  OBVIOUS
  <2>4. \A t \in Threads : \A i \in DOMAIN writes'.work[t] :
               \E h, k : writes'.work[t][i].file = StateFile(h, k)
    BY <1>5, <2>3
  <2> QED  BY <1>6, <1>8, <2>2, <2>4, LargeKeptThere
<1> QED
  BY <1>4, <1>8, <1>9, <1>10, <1>11, <1>12, <1>13, <1>14, <1>15, <1>16, <1>17, <1>18 DEF SwapInv

(* A piece is put into the next place of the current buffer. *)
LEMMA InsertEffect ==
    ASSUME TypeOK, NEW s \in Swappers, Partition(s), s.current \in Buffers, NEW f \in GradFiles,
           NEW n, n = Len(s.fill[s.current]), n < NumPieces, Insert(s, f)
    PROVE  /\ n \in Nat /\ n + 1 \in Pieces
           /\ grads' \in Swappers /\ Partition(grads')
           /\ grads'.all = s.all /\ grads'.free = s.free /\ grads'.swapping = s.swapping
           /\ grads'.current = s.current /\ grads'.pending = s.pending /\ grads'.next = s.next
           /\ grads'.fill[s.current] = Append(s.fill[s.current], f)
           /\ \A b \in Buffers : b # s.current => grads'.fill[b] = s.fill[b]
           /\ memory' \in [Buffers -> [Pieces -> [Threads -> Tensors]]]
           /\ \A b \in Buffers, q \in Pieces, t \in Threads :
                 memory'[b][q][t] = IF b = s.current /\ q = n + 1 THEN <<f, batch>> ELSE memory[b][q][t]
<1> DEFINE c == s.current  old == s.fill[c]
<1>1. c \in Buffers /\ old \in Seq(GradFiles) /\ n = Len(old) /\ s.fill \in [Buffers -> Seq(GradFiles)]
  BY DEF Swappers
<1>2. n \in Nat /\ n + 1 \in Pieces
  <2>1. n \in Nat  BY <1>1
  <2> QED  BY <2>1, Constants
<1>3. grads' = [s EXCEPT !.fill[c] = Append(old, f)]
      /\ memory' = Filled(memory, c, {n + 1}, <<f, batch>>)
  BY DEF Insert
<1> DEFINE filled == [s.fill EXCEPT ![c] = Append(old, f)]
<1>4. grads' = [s EXCEPT !.fill = filled]  BY <1>3
<1>5. /\ filled \in [Buffers -> Seq(GradFiles)] /\ filled[c] = Append(old, f)
      /\ \A b \in Buffers : b # c => filled[b] = s.fill[b]
      /\ Len(filled[c]) = n + 1
  <2>1. Append(old, f) \in Seq(GradFiles) /\ Len(Append(old, f)) = n + 1
    BY <1>1
  <2> QED  BY <1>1, <2>1
<1> HIDE DEF filled
<1>6. /\ grads' \in Swappers
      /\ grads'.all = s.all /\ grads'.free = s.free /\ grads'.swapping = s.swapping
      /\ grads'.current = c /\ grads'.pending = s.pending /\ grads'.next = s.next
      /\ grads'.fill = filled
  BY <1>4, <1>5 DEF Swappers
<1>7. Partition(grads')
  <2>1. PICK z : z = grads'  OBVIOUS
  <2>2. \A b \in Buffers : /\ Len(s.fill[b]) <= NumPieces
                           /\ b \notin ToSet(s.swapping) \cup {c} => s.fill[b] = << >>
    BY PartitionParts
  <2>3. n + 1 <= NumPieces  BY <1>2, Constants
  <2>4. ASSUME NEW b \in Buffers
        PROVE  /\ Len(filled[b]) <= NumPieces
               /\ b \notin ToSet(s.swapping) \cup {c} => filled[b] = << >>
    <3>1. CASE b = c  BY <1>5, <2>3, <3>1
    <3>2. CASE b # c  BY <1>5, <2>2, <3>2
    <3> QED  BY <3>1, <3>2
  <2>5. /\ z \in Swappers /\ z.all = s.all /\ z.free = s.free /\ z.swapping = s.swapping
        /\ z.current = c /\ z.fill = filled
    BY <1>6, <2>1
  <2>6. Partition(z)  BY <2>4, <2>5, PartitionParts
  <2> QED  BY <2>1, <2>6
<1>8. /\ memory' \in [Buffers -> [Pieces -> [Threads -> Tensors]]]
      /\ \A b \in Buffers, q \in Pieces, t \in Threads :
            memory'[b][q][t] = IF b = c /\ q = n + 1 THEN <<f, batch>> ELSE memory[b][q][t]
  <2> DEFINE v == <<f, batch>>
             row == [q \in Pieces |-> IF q \in {n + 1} THEN [t \in Threads |-> v] ELSE memory[c][q]]
  <2>1. memory \in [Buffers -> [Pieces -> [Threads -> Tensors]]] /\ batch \in Nat
    BY DEF TypeOK
  <2>2. v \in Tensors  BY <2>1, FileFacts DEF Tensors
  <2>3. memory' = [memory EXCEPT ![c] = row]  BY <1>3 DEF Filled
  <2> HIDE DEF v
  <2>4. memory[c] \in [Pieces -> [Threads -> Tensors]]  BY <1>1, <2>1
  <2>5. row \in [Pieces -> [Threads -> Tensors]]  BY <2>2, <2>4
  <2>6. \A q \in Pieces, t \in Threads : row[q][t] = IF q = n + 1 THEN v ELSE memory[c][q][t]
    OBVIOUS
  <2> HIDE DEF row
  <2> QED  BY ZenonT(60), <1>1, <2>1, <2>3, <2>5, <2>6 DEF v
<1> QED  BY <1>2, <1>5, <1>6, <1>7, <1>8

(* A request is queued behind others, and the place it writes is filled: the
   last write of its file carries the tensor, the others are as they were. *)
BehindOthers(q, r, mem, later, kept, f, t, v) ==
    \/ /\ r.file = f
       /\ \A s \in r.pieces : later[r.buffer][s][t] = v
    \/ /\ r.file # f
       /\ Directed(q, mem, kept, f, t, v)
       /\ \A i \in DOMAIN q : \A s \in q[i].pieces :
             later[q[i].buffer][s][t] = mem[q[i].buffer][s][t]

(* A request queued behind all others decides what its file will have. *)
LEMMA DirectedBehind ==
    ASSUME NEW q \in Seq(Requests), NEW r \in Requests, NEW mem, NEW later, NEW kept, NEW f, NEW t, NEW v,
           BehindOthers(q, r, mem, later, kept, f, t, v)
    PROVE  Directed(q \o <<r>>, later, kept, f, t, v)
<1> DEFINE n == Len(q)  w == q \o <<r>>
<1>1. n \in Nat /\ DOMAIN q = 1 .. n /\ <<r>> \in Seq(Requests) /\ Len(<<r>>) = 1 /\ <<r>>[1] = r
  OBVIOUS
<1>2. /\ DOMAIN w = 1 .. n + 1 /\ w[n + 1] = r
      /\ \A i \in 1 .. n : w[i] = q[i]
  OBVIOUS
<1> HIDE DEF n, w
<1>3. n + 1 \in 1 .. n + 1 /\ \A i \in 1 .. n + 1 : i # n + 1 => i \in 1 .. n
  BY <1>1
<1>4. \A i \in 1 .. n : i \in 1 .. n + 1 /\ n + 1 > i  BY <1>1
<1>5. \A i \in 1 .. n + 1 : ~(i > n + 1)  BY <1>1
<1>6. CASE r.file = f /\ \A s \in r.pieces : later[r.buffer][s][t] = v
  <2>1. /\ w[n + 1].file = f
        /\ \A s \in w[n + 1].pieces : later[w[n + 1].buffer][s][t] = v
        /\ \A j \in DOMAIN w : j > n + 1 => w[j].file # f
    BY <1>2, <1>5, <1>6
  <2> QED  BY <1>2, <1>3, <2>1 DEF Directed, w
<1>7. CASE /\ r.file # f /\ Directed(q, mem, kept, f, t, v)
           /\ \A i \in DOMAIN q : \A s \in q[i].pieces :
                 later[q[i].buffer][s][t] = mem[q[i].buffer][s][t]
  <2>1. CASE \E i \in DOMAIN q : /\ q[i].file = f
                                 /\ \A s \in q[i].pieces : mem[q[i].buffer][s][t] = v
                                 /\ \A j \in DOMAIN q : j > i => q[j].file # f
    <3>1. PICK i \in 1 .. n : /\ q[i].file = f
                              /\ \A s \in q[i].pieces : mem[q[i].buffer][s][t] = v
                              /\ \A j \in 1 .. n : j > i => q[j].file # f
      BY <1>1, <2>1
    <3>2. /\ w[i].file = f
          /\ \A s \in w[i].pieces : later[w[i].buffer][s][t] = v
      BY <1>1, <1>2, <1>7, <3>1
    <3>3. \A j \in 1 .. n + 1 : j > i => w[j].file # f
      BY <1>2, <1>3, <1>7, <3>1
    <3> QED  BY <1>2, <1>4, <3>2, <3>3 DEF Directed, w
  <2>2. CASE (\A j \in DOMAIN q : q[j].file # f) /\ kept = v
    <3>1. \A j \in 1 .. n + 1 : w[j].file # f  BY <1>1, <1>2, <1>3, <1>7, <2>2
    <3> QED  BY <1>2, <2>2, <3>1 DEF Directed, w
  <2> QED  BY <1>7, <2>1, <2>2 DEF Directed
<1> QED  BY <1>6, <1>7 DEF BehindOthers

OneMoreWrite(s, n, f, z) ==
    /\ WritesOf(s) \in Seq(Requests) /\ Len(WritesOf(s)) = n
    /\ \A i \in 1 .. n : /\ WritesOf(s)[i].buffer = s.current /\ WritesOf(s)[i].pieces = {i}
                         /\ i # n + 1
    /\ Request(FALSE, s.current, {n + 1}, f) \in Requests
    /\ WritesOf(z) = WritesOf(s) \o <<Request(FALSE, s.current, {n + 1}, f)>>

(* One more gradient in the current buffer is one more write to come. *)
LEMMA WritesOfInserted ==
    ASSUME TypeOK, GradsOK, NEW s, s.current \in Buffers, s.fill[s.current] \in Seq(GradFiles),
           NEW n \in Nat, n = Len(s.fill[s.current]), n + 1 \in Pieces, NEW f \in GradFiles,
           NEW z, z.current = s.current, z.fill[s.current] = Append(s.fill[s.current], f)
    PROVE  OneMoreWrite(s, n, f, z)
<1> DEFINE c == s.current  old == s.fill[c]  r == Request(FALSE, c, {n + 1}, f)
           a == WritesOf(s)  w == WritesOf(z)
<1>1. n <= NumPieces /\ n + 1 <= NumPieces /\ n + 1 \in Nat  BY Constants
<1>2. /\ a \in Seq(Requests) /\ Len(a) = n
      /\ \A i \in 1 .. n : a[i] = Request(FALSE, c, {i}, old[i])
      /\ \A i \in 1 .. n : a[i].buffer = c /\ a[i].pieces = {i}
  <2>1. /\ WritesOf(s) \in Seq(Requests) /\ Len(WritesOf(s)) = n
        /\ DOMAIN WritesOf(s) = 1 .. n
        /\ \A i \in 1 .. n :
              /\ WritesOf(s)[i] = Request(FALSE, s.current, {i}, s.fill[s.current][i])
              /\ WritesOf(s)[i].read = FALSE /\ WritesOf(s)[i].buffer = s.current
              /\ WritesOf(s)[i].pieces = {i} /\ WritesOf(s)[i].file = s.fill[s.current][i]
              /\ s.fill[s.current][i] \in GradFiles /\ i \in Pieces
    BY <1>1, WritesOfFacts, Zenon
  <2> QED  BY <2>1
<1>3. /\ Append(old, f) \in Seq(GradFiles) /\ Len(Append(old, f)) = n + 1
      /\ Append(old, f)[n + 1] = f
      /\ \A i \in 1 .. n : Append(old, f)[i] = old[i]
  OBVIOUS
<1>4. /\ w \in Seq(Requests) /\ Len(w) = n + 1
      /\ \A i \in 1 .. n + 1 : w[i] = Request(FALSE, c, {i}, Append(old, f)[i])
  <2> DEFINE new == Append(old, f)  m == n + 1
  <2>1. z.current \in Buffers /\ z.fill[z.current] = new /\ z.current = c
    OBVIOUS
  <2>2. new \in Seq(GradFiles) /\ Len(new) = m /\ m \in Nat /\ m <= NumPieces
    BY <1>1, <1>3
  <2> HIDE DEF new, m
  <2>3. z.fill[z.current] \in Seq(GradFiles) /\ Len(z.fill[z.current]) = m
    BY <2>1, <2>2
  <2>4. /\ WritesOf(z) \in Seq(Requests) /\ Len(WritesOf(z)) = m
        /\ DOMAIN WritesOf(z) = 1 .. m
        /\ \A i \in 1 .. m :
              /\ WritesOf(z)[i] = Request(FALSE, z.current, {i}, z.fill[z.current][i])
              /\ WritesOf(z)[i].read = FALSE /\ WritesOf(z)[i].buffer = z.current
              /\ WritesOf(z)[i].pieces = {i} /\ WritesOf(z)[i].file = z.fill[z.current][i]
              /\ z.fill[z.current][i] \in GradFiles /\ i \in Pieces
    BY <2>1, <2>2, <2>3, WritesOfFacts, Zenon
  <2> QED  BY <2>1, <2>4 DEF m, new
<1>5. r \in Requests  BY FileFacts DEF Requests, Request
<1> HIDE DEF a, w, r
<1>6. n + 1 \in 1 .. n + 1 /\ \A i \in 1 .. n + 1 : i \in 1 .. n \/ i = n + 1
  OBVIOUS
<1>7. w = a \o <<r>>
  <2>1. /\ <<r>> \in Seq(Requests) /\ Len(<<r>>) = 1 /\ <<r>>[1] = r  BY <1>5
  <2>2. a \o <<r>> \in Seq(Requests) /\ Len(a \o <<r>>) = n + 1
        /\ \A i \in 1 .. n : (a \o <<r>>)[i] = a[i]
    BY <1>2, <2>1
  <2>3. (a \o <<r>>)[n + 1] = r  BY <1>2, <2>1
  <2>4. ASSUME NEW i \in 1 .. n + 1 PROVE w[i] = (a \o <<r>>)[i]
    <3>1. CASE i \in 1 .. n  BY ZenonT(60), <1>2, <1>3, <1>4, <2>2, <3>1
    <3>2. CASE i = n + 1  BY <1>3, <1>4, <2>3, <3>2 DEF r
    <3> QED  BY <1>6, <3>1, <3>2
  <2> QED  BY <1>4, <2>2, <2>4, SeqEqual
<1>8. \A i \in 1 .. n : i # n + 1  OBVIOUS
<1> QED  BY <1>2, <1>5, <1>7, <1>8 DEF a, w, r, OneMoreWrite

(* A piece of a gradient is put into a buffer.  The queue s stands for is the
   one there was, the requests that are submitted are of full buffers. *)
InsertStep(s, g, p) ==
    /\ Gathering /\ Writing = None /\ Writing' = None /\ at' = "backward"
    /\ UNCHANGED <<cfg, batch, updates, disk>>
    /\ <<g, p>> \in cfg.large /\ arrived' = arrived \cup {<<g, p>>}
    /\ at = "no_space" => grads.next = GradFile(g, p)
    /\ Insert(s, GradFile(g, p))
InfoGrows(g, p) ==
    /\ p \in info'[g].swapped
    /\ \A h \in Groups : info[h].swapped \subseteq info'[h].swapped
Fillable(s) ==
    /\ s \in Swappers /\ Partition(s) /\ s.current \in Buffers /\ s.all # << >>
    /\ Len(s.fill[s.current]) < NumPieces
    /\ \A b \in Buffers, t \in Threads : \A i \in DOMAIN s.fill[b] :
           memory[b][i][t][1] = s.fill[b][i]
FullWrites(s, h) ==
    /\ HandleOK(h) /\ h.pending = s.pending
    /\ \A t \in Threads : Queue(t) = h.work[t] \o WritesOf(s)
    /\ \A t \in Threads : \A i \in DOMAIN h.work[t] :
           /\ h.work[t][i].buffer \in ToSet(s.swapping)
           /\ \E k \in DOMAIN s.fill[h.work[t][i].buffer] :
                 h.work[t][i] = Request(FALSE, h.work[t][i].buffer, {k}, s.fill[h.work[t][i].buffer][k])

(* Putting a gradient in the current buffer keeps what the writes, the buffers
   and the files have to be. *)
LEMMA InsertKeeps ==
    ASSUME SwapInv, NEW g \in Groups, NEW p \in Pieces, NEW s,
           InsertStep(s, g, p), InfoGrows(g, p), Fillable(s), FullWrites(s, writes')
    PROVE  /\ grads' \in Swappers /\ memory' \in [Buffers -> [Pieces -> [Threads -> Tensors]]]
           /\ grads'.all = s.all
           /\ WritesOK' /\ Filling' /\ GradsOK' /\ LargeKept'
<1> DEFINE f == GradFile(g, p)  c == s.current  n == Len(s.fill[c])
           r == Request(FALSE, c, {n + 1}, f)
<1>0. /\ s \in Swappers /\ Partition(s) /\ s.current \in Buffers /\ s.all # << >>
      /\ Len(s.fill[s.current]) < NumPieces /\ Insert(s, GradFile(g, p))
      /\ UNCHANGED <<cfg, batch, updates, disk>> /\ at' = "backward" /\ Writing' = None
  BY DEF Fillable, InsertStep
<1>1. TypeOK /\ GradsOK /\ f \in GradFiles /\ c \in Buffers /\ s.fill[c] \in Seq(GradFiles)
      /\ c \notin ToSet(s.swapping) /\ Buffers' = Buffers
  BY <1>0, Parts, FileFacts, PartitionParts DEF Swappers, Buffers
<1>2. /\ n \in Nat /\ n + 1 \in Pieces
      /\ grads' \in Swappers /\ Partition(grads')
      /\ grads'.all = s.all /\ grads'.free = s.free /\ grads'.swapping = s.swapping
      /\ grads'.current = c /\ grads'.pending = s.pending /\ grads'.next = s.next
      /\ grads'.fill[c] = Append(s.fill[c], f)
      /\ \A b \in Buffers : b # c => grads'.fill[b] = s.fill[b]
      /\ memory' \in [Buffers -> [Pieces -> [Threads -> Tensors]]]
      /\ \A b \in Buffers, q \in Pieces, t \in Threads :
            memory'[b][q][t] = IF b = c /\ q = n + 1 THEN <<f, batch>> ELSE memory[b][q][t]
  BY <1>0, <1>1, InsertEffect
<1>3. DOMAIN s.fill[c] = 1 .. n  BY <1>1
<1> HIDE DEF n, f
<1>4. /\ WritesOf(s) \in Seq(Requests) /\ Len(WritesOf(s)) = n
      /\ \A i \in 1 .. n : /\ WritesOf(s)[i].buffer = c /\ WritesOf(s)[i].pieces = {i}
                           /\ i # n + 1
      /\ r \in Requests
      /\ \A t \in Threads : Queue(t)' = Queue(t) \o <<r>>
  <2>1. PICK z : z = grads'  OBVIOUS
  <2>2. z.current = c /\ z.fill[c] = Append(s.fill[c], f)  BY <1>2, <2>1
  <2>3. /\ TypeOK /\ GradsOK /\ s.current \in Buffers /\ s.fill[s.current] \in Seq(GradFiles)
        /\ n \in Nat /\ n = Len(s.fill[s.current]) /\ n + 1 \in Pieces /\ f \in GradFiles
        /\ z.current = s.current /\ z.fill[s.current] = Append(s.fill[s.current], f)
    BY <1>1, <1>2, <2>2 DEF n
  <2>4. /\ WritesOf(s) \in Seq(Requests) /\ Len(WritesOf(s)) = n
        /\ \A i \in 1 .. n : /\ WritesOf(s)[i].buffer = s.current /\ WritesOf(s)[i].pieces = {i}
                             /\ i # n + 1
        /\ Request(FALSE, s.current, {n + 1}, f) \in Requests
        /\ WritesOf(z) = WritesOf(s) \o <<Request(FALSE, s.current, {n + 1}, f)>>
    <3>1. OneMoreWrite(s, n, f, z)  BY <2>3, WritesOfInserted
    <3> QED  BY <3>1 DEF OneMoreWrite
  <2>5. /\ WritesOf(s) \in Seq(Requests) /\ Len(WritesOf(s)) = n
        /\ \A i \in 1 .. n : WritesOf(s)[i].buffer = c /\ WritesOf(s)[i].pieces = {i} /\ i # n + 1
        /\ r \in Requests /\ WritesOf(z) = WritesOf(s) \o <<r>>
    BY <2>4
  <2> HIDE DEF r
  <2>6. ASSUME NEW t \in Threads PROVE Queue(t)' = Queue(t) \o <<r>>
    <3>1. c # 0  BY <1>1, Types
    <3>2. Queue(t)' = writes'.work[t] \o WritesOf(z)
      BY <1>2, <2>1, <3>1 DEF Queue
    <3>3. writes'.work[t] \in Seq(Requests) /\ <<r>> \in Seq(Requests)
      BY <2>5 DEF FullWrites, HandleOK
    <3>4. (writes'.work[t] \o WritesOf(s)) \o <<r>> = writes'.work[t] \o (WritesOf(s) \o <<r>>)
      <4> DEFINE x == writes'.work[t]  y == WritesOf(s)  e == <<r>>
      <4>1. x \in Seq(Requests) /\ y \in Seq(Requests) /\ e \in Seq(Requests)
        BY <2>5, <3>3
      <4> HIDE DEF x, y, e
      <4>2. (x \o y) \o e = x \o (y \o e)  BY <4>1, ConcatAssociative
      <4> QED  BY <4>2 DEF x, y, e
    <3>5. Queue(t) = writes'.work[t] \o WritesOf(s)  BY DEF FullWrites
    <3> QED  BY <2>5, <3>2, <3>4, <3>5
  <2> QED  BY <2>5, <2>6
<1>5. /\ r.file = f /\ r.buffer = c /\ r.pieces = {n + 1}  BY DEF Request
<1> HIDE DEF r, c
<1>6. Filling'
  <2> SUFFICES ASSUME NEW b \in Buffers, NEW t \in Threads, NEW i \in DOMAIN grads'.fill[b]
               PROVE  memory'[b][i][t][1] = grads'.fill[b][i]
    BY <1>1 DEF Filling
  <2>0. grads'.fill[b] \in Seq(GradFiles) /\ Len(grads'.fill[b]) <= NumPieces
    BY <1>2 DEF Swappers, Partition
  <2>1. i \in Pieces  BY <2>0, Constants
  <2>2. CASE b = c /\ i = n + 1
    <3>1. grads'.fill[b][i] = f  BY <1>1, <1>2, <2>2 DEF n
    <3>2. memory'[b][i][t] = <<f, batch>>  BY <1>2, <2>1, <2>2
    <3> QED  BY <3>1, <3>2
  <2>3. CASE b = c /\ i # n + 1
    <3>1. i \in 1 .. n /\ grads'.fill[b][i] = s.fill[b][i]
      <4> DEFINE old == s.fill[c]
      <4>1. old \in Seq(GradFiles) /\ Len(old) = n /\ i \in DOMAIN Append(old, f)
            /\ grads'.fill[b] = Append(old, f) /\ s.fill[b] = old
        BY <1>1, <1>2, <2>3 DEF n
      <4> HIDE DEF old
      <4>2. i \in 1 .. n + 1 /\ \A j \in 1 .. n : Append(old, f)[j] = old[j]
        BY <1>1, <4>1
      <4>3. i \in 1 .. n  BY <1>2, <2>3, <4>2
      <4> QED  BY <4>1, <4>2, <4>3
    <3>2. memory'[b][i][t] = memory[b][i][t]  BY <1>2, <2>1, <2>3
    <3>3. memory[b][i][t][1] = s.fill[b][i]  BY <1>3, <2>3, <3>1 DEF Fillable
    <3> QED  BY <3>1, <3>2, <3>3
  <2>4. CASE b # c
    <3>1. i \in DOMAIN s.fill[b] /\ grads'.fill[b][i] = s.fill[b][i]
      BY <1>2, <2>4
    <3>2. memory'[b][i][t] = memory[b][i][t]  BY <1>2, <2>1, <2>4
    <3>3. memory[b][i][t][1] = s.fill[b][i]  BY <3>1 DEF Fillable
    <3> QED  BY <3>1, <3>2, <3>3
  <2> QED  BY <2>2, <2>3, <2>4
<1>7. ASSUME NEW t \in Threads, NEW i \in DOMAIN writes'.work[t]
      PROVE  GradWrite(writes.work[t][i])' /\ writes'.work[t][i].buffer # c
             /\ writes'.work[t][i].buffer \in Buffers
  <2>1. PICK q : q = writes'.work[t][i]  OBVIOUS
  <2>2. /\ q.buffer \in ToSet(s.swapping)
        /\ \E k \in DOMAIN s.fill[q.buffer] : q = Request(FALSE, q.buffer, {k}, s.fill[q.buffer][k])
    BY <1>7, <2>1 DEF FullWrites
  <2>3. q.buffer # c /\ q.buffer \in Buffers
    BY <1>0, <1>1, <2>2 DEF Swappers, ToSet
  <2>4. grads'.fill[q.buffer] = s.fill[q.buffer]  BY <1>2, <2>3
  <2> QED  BY ZenonT(60), <1>2, <2>1, <2>2, <2>3, <2>4 DEF GradWrite
<1>8. WritesOK'
  <2>1. writes'.pending = grads'.pending  BY <1>2 DEF FullWrites
  <2> QED  BY <1>0, <1>7, <2>1 DEF WritesOK
<1>9. GradsOK'
  <2>1. Partition(grads)'  BY <1>1, <1>2 DEF Partition
  <2>2. grads'.all # << >> /\ grads'.current # 0  BY <1>0, <1>1, <1>2, Types
  <2> QED  BY <1>0, <2>1, <2>2 DEF GradsOK, HasBuffers
<1>10. ASSUME NEW t \in Threads
       PROVE  /\ Queue(t) \in Seq(Requests)
              /\ \A i \in DOMAIN Queue(t) : \A q \in Queue(t)[i].pieces :
                    memory'[Queue(t)[i].buffer][q][t] = memory[Queue(t)[i].buffer][q][t]
  <2> DEFINE a == writes'.work[t]  b == WritesOf(s)  la == Len(a)
  <2>1. a \in Seq(Requests) /\ b \in Seq(Requests) /\ Len(b) = n /\ la \in Nat /\ DOMAIN a = 1 .. la
    BY <1>4 DEF FullWrites, HandleOK
  <2>2. Queue(t) = a \o b  BY DEF FullWrites
  <2>3. \A i \in 1 .. la : a[i].buffer # c /\ a[i] \in Requests  BY <1>7, <2>1
  <2>4. \A i \in 1 .. n : b[i].buffer = c /\ b[i].pieces = {i} /\ i # n + 1 /\ b[i] \in Requests
    BY <1>4, <2>1
  <2> HIDE DEF a, b
  <2>5. /\ a \o b \in Seq(Requests) /\ DOMAIN (a \o b) = 1 .. la + n
        /\ \A j \in 1 .. la + n : (a \o b)[j] = IF j <= la THEN a[j] ELSE b[j - la]
        /\ \A j \in 1 .. la + n : (a \o b)[j] \in Requests
    <3>1. /\ a \o b \in Seq(Requests) /\ Len(a \o b) = la + n
          /\ \A j \in 1 .. la + n : (a \o b)[j] = IF j <= la THEN a[j] ELSE b[j - la]
      BY <2>1, ConcatProperties
    <3>2. DOMAIN (a \o b) = 1 .. la + n  BY <3>1
    <3> DEFINE w == a \o b
    <3>3. w \in Seq(Requests) /\ Len(w) = la + n  BY <3>1
    <3> HIDE DEF w
    <3>4. \A j \in 1 .. Len(w) : w[j] \in Requests  BY <3>3, ElementOfSeq
    <3>5. \A j \in 1 .. la + n : w[j] \in Requests  BY <3>3, <3>4
    <3> QED  BY <3>1, <3>2, <3>5 DEF w
  <2> HIDE DEF la
  <2>6. ASSUME NEW i \in 1 .. la + n, NEW q \in (a \o b)[i].pieces
        PROVE  memory'[(a \o b)[i].buffer][q][t] = memory[(a \o b)[i].buffer][q][t]
    <3>1. (a \o b)[i] \in Requests  BY <2>5
    <3>2. q \in Pieces /\ (a \o b)[i].buffer \in Buffers
      BY <2>6, <3>1 DEF Requests
    <3>3. ~((a \o b)[i].buffer = c /\ q = n + 1)
      <4>1. CASE i <= la
        <5>1. i \in 1 .. la  BY <1>2, <2>1, <4>1
        <5> QED  BY <2>3, <2>5, <4>1, <5>1
      <4>2. CASE ~(i <= la)
        <5> DEFINE k == i - la
        <5>1. k \in 1 .. n  BY <1>2, <2>1, <4>2
        <5>2. (a \o b)[i] = b[k]  BY <2>5, <4>2
        <5> HIDE DEF k
        <5> QED  BY <2>4, <2>6, <5>1, <5>2
      <4> QED  BY <4>1, <4>2
    <3> QED  BY ZenonT(60), <1>2, <3>2, <3>3
  <2>7. \A i \in DOMAIN (a \o b) : \A q \in (a \o b)[i].pieces :
            memory'[(a \o b)[i].buffer][q][t] = memory[(a \o b)[i].buffer][q][t]
    BY <2>5, <2>6
  <2>8. PICK w : w = a \o b  OBVIOUS
  <2>9. /\ w \in Seq(Requests)
        /\ \A i \in DOMAIN w : \A q \in w[i].pieces :
              memory'[w[i].buffer][q][t] = memory[w[i].buffer][q][t]
    BY <2>5, <2>7, <2>8
  <2>10. Queue(t) = w  BY <2>2, <2>8
  <2> QED  BY <2>9, <2>10
<1>11. ASSUME NEW t \in Threads, NEW h \in GradFiles, h = f \/ InDirection(h, t)
       PROVE  InDirection(h, t)'
  <2> DEFINE v == Newest(h)  q == Queue(t)
  <2>1. v' = v  BY <1>0, NewestKept
  <2>2. Newest(f) = <<f, batch>>  BY FileFacts DEF f
  <2>3. h # f => Directed(q, memory, disk[h][t], h, t, v)
    BY <1>11 DEF InDirection
  <2>4. memory'[c][n + 1][t] = <<f, batch>>  BY <1>1, <1>2 DEF c
  <2>5. BehindOthers(q, r, memory, memory', disk[h][t], h, t, v)
    BY <1>5, <1>10, <2>2, <2>3, <2>4 DEF BehindOthers
  <2>6. q \in Seq(Requests) /\ r \in Requests  BY <1>4, <1>10
  <2>7. Queue(t)' = q \o <<r>>  BY <1>4
  <2>8. disk'[h][t] = disk[h][t]  BY <1>0
  <2> HIDE DEF v, q
  <2>9. Directed(q \o <<r>>, memory', disk[h][t], h, t, v)
    BY <2>5, <2>6, DirectedBehind
  <2> QED  BY <2>1, <2>7, <2>8, <2>9 DEF InDirection, v
<1>12. LargeKept'
  <2> SUFFICES ASSUME NEW h \in Groups, NEW q \in Pieces, <<h, q>> \in arrived' \cap cfg.large
               PROVE  /\ q \in info'[h].swapped
                      /\ \A t \in Threads : InDirection(GradFile(h, q), t)'
    BY <1>0 DEF LargeKept
  <2>1. CASE h = g /\ q = p  BY <1>1, <1>11, <2>1 DEF f, InfoGrows
  <2>2. CASE ~(h = g /\ q = p)
    <3>1. <<h, q>> \in arrived \cap cfg.large /\ GradFile(h, q) # f /\ GradFile(h, q) \in GradFiles
      BY <2>2, FileFacts DEF f, InsertStep
    <3>2. q \in info[h].swapped /\ \A t \in Threads : InDirection(GradFile(h, q), t)
      BY <3>1, Parts DEF LargeKept, f, InsertStep
    <3> QED  BY <1>11, <3>1, <3>2 DEF InfoGrows
  <2> QED  BY <2>1, <2>2
<1> QED  BY <1>2, <1>6, <1>8, <1>9, <1>12

(* An empty buffer has no writes to come. *)
LEMMA NothingReady ==
    ASSUME TypeOK, GradsOK, NEW s, s.current \in Buffers, s.fill[s.current] = << >>,
           NEW q \in Seq(Requests)
    PROVE  q \o WritesOf(s) = q
<1>1. s.fill[s.current] \in Seq(GradFiles) /\ Len(s.fill[s.current]) = 0
  OBVIOUS
<1>2. 0 \in Nat /\ 0 <= NumPieces  BY Constants
<1>3. /\ WritesOf(s) \in Seq(Requests) /\ Len(WritesOf(s)) = 0
      /\ DOMAIN WritesOf(s) = 1 .. 0
      /\ \A i \in 1 .. 0 :
            /\ WritesOf(s)[i] = Request(FALSE, s.current, {i}, s.fill[s.current][i])
            /\ WritesOf(s)[i].read = FALSE /\ WritesOf(s)[i].buffer = s.current
            /\ WritesOf(s)[i].pieces = {i} /\ WritesOf(s)[i].file = s.fill[s.current][i]
            /\ s.fill[s.current][i] \in GradFiles /\ i \in Pieces
  BY <1>1, <1>2, WritesOfFacts, Zenon
<1>4. WritesOf(s) = << >>  BY <1>3, EmptySeq
<1> QED  BY <1>4, ConcatEmptySeq

NextFile(z, f) == [z EXCEPT !.next = f]

(* Remembering which gradient waits for space leaves the buffers where they
   are. *)
LEMMA NextFileKeeps ==
    ASSUME NEW z \in Swappers, Partition(z), NEW f \in GradFiles \cup {NoFile}
    PROVE  /\ NextFile(z, f) \in Swappers /\ Partition(NextFile(z, f))
           /\ NextFile(z, f).all = z.all /\ NextFile(z, f).free = z.free
           /\ NextFile(z, f).swapping = z.swapping /\ NextFile(z, f).current = z.current
           /\ NextFile(z, f).fill = z.fill /\ NextFile(z, f).pending = z.pending
           /\ NextFile(z, f).next = f
<1> DEFINE s == NextFile(z, f)
<1>1. /\ s \in Swappers
      /\ s.all = z.all /\ s.free = z.free /\ s.swapping = z.swapping /\ s.current = z.current
      /\ s.fill = z.fill /\ s.pending = z.pending /\ s.next = f
  BY DEF Swappers, NextFile
<1> HIDE DEF s
<1>2. Partition(s)  BY ZenonT(60), <1>1, PartitionParts
<1> QED  BY <1>1, <1>2 DEF s

(* The states are in the files when no operation writes them. *)
LEMMA StatesThere ==
    ASSUME SwapInv, Writing = None, at # "swap_out"
    PROVE  \A g \in cfg.swappable, t \in Threads : \A k \in 1 .. info[g].tensors :
              disk[StateFile(g, k)][t] = Newest(StateFile(g, k))
<1> SUFFICES ASSUME NEW g \in cfg.swappable, NEW t \in Threads, NEW k \in 1 .. info[g].tensors
             PROVE  disk[StateFile(g, k)][t] = Newest(StateFile(g, k))
  OBVIOUS
<1>1. ASSUME NEW i \in DOMAIN writes.work[t]
      PROVE  writes.work[t][i].file # StateFile(g, k)
  <2> DEFINE r == writes.work[t][i]
  <2>1. r.file \in GradFiles  BY Parts, WriteFacts
  <2> HIDE DEF r
  <2>2. r.file # StateFile(g, k)  BY <2>1, FileFacts DEF GradFiles
  <2> QED  BY <2>2 DEF r
<1> QED  BY <1>1, Parts DEF StatesOnDisk

(* The first piece of a step: every free buffer is the gradient swapper's. *)
LEMMA TakeBuffers ==
    ASSUME SwapInv, Gathering, ~HasBuffers,
           NEW z, z = [grads EXCEPT !.all = free, !.free = free]
    PROVE  /\ free \in Seq(Buffers) /\ free # << >>
           /\ Fillable(NextBuffer(z)) /\ FullWrites(NextBuffer(z), writes)
           /\ NextBuffer(z).all = free
<1>1. /\ TypeOK /\ GradsOK /\ Pool /\ WritesOK /\ Writing = None
      /\ ops.sync_in = None /\ ops.async_in = None /\ ops.sync_out = None /\ ops.async_out = None
  BY Parts, NoOperation
<1>2. /\ grads.all = << >> /\ grads.swapping = << >> /\ grads.current = 0 /\ grads.pending = 0
      /\ \A b \in Buffers : grads.fill[b] = << >>
      /\ \A t \in Threads : Queue(t) = writes.work[t]
  BY <1>1, NoGradients
<1>3. free \in Seq(Buffers) /\ grads \in Swappers /\ HandleOK(writes)
  BY <1>1 DEF TypeOK
<1>4. free # << >>
  <2>1. Len(free) + Len(<< >>) + Len(<< >>) + Len(<< >>) + Len(<< >>) + Len(<< >>) = cfg.buffers
    <3>1. /\ Holding["free"] = free /\ Holding["all"] = << >>
          /\ Holding["sync_in"] = << >> /\ Holding["async_in"] = << >>
          /\ Holding["sync_out"] = << >> /\ Holding["async_out"] = << >>
      BY <1>1, <1>2, HoldingFacts, NoneFacts
    <3>2. Total(Holding) = cfg.buffers  BY <1>1 DEF Pool, Owned
    <3> QED  BY <3>1, <3>2 DEF Total
  <2>2. cfg.buffers >= NumStates + 1 /\ cfg.buffers \in Nat
    BY <1>1, EnoughBuffers, ConfigFacts DEF TypeOK
  <2>3. Len(<< >>) = 0  OBVIOUS
  <2>4. Len(free) >= 1  BY <1>3, <2>1, <2>2, <2>3, Constants
  <2> QED  BY <2>3, <2>4
<1>5. /\ z \in Swappers
      /\ z.all = free /\ z.free = free /\ z.swapping = << >> /\ z.current = 0 /\ z.pending = 0
      /\ z.fill = grads.fill
  BY <1>2, <1>3 DEF Swappers
<1>6. Partition(z)
  <2>1. Distinct(free)
    <3>1. "free" \in Slots /\ Holding["free"] = free
      BY <1>1, HoldingFacts DEF Slots
    <3> QED  BY <1>1, <3>1 DEF Pool, Owned, Distinct
  <2>2. 0 \notin ToSet(free)  BY <1>1, <1>3, Types DEF ToSet
  <2>3. Distinct(<< >>) /\ ToSet(<< >>) = {} /\ Len(<< >>) = 0 /\ 0 <= NumPieces
    BY NothingInEmpty, Constants
  <2> QED  BY ZenonT(60), <1>2, <1>5, <2>1, <2>2, <2>3, PartitionParts
<1> DEFINE s == NextBuffer(z)
<1>7. /\ s \in Swappers /\ Partition(s) /\ s.all = free
      /\ s.swapping = << >> /\ s.current \in Buffers
      /\ s.fill = z.fill /\ s.pending = 0 /\ s.fill[s.current] = << >>
  BY <1>1, <1>4, <1>5, <1>6, NextBufferKeeps
<1> HIDE DEF s
<1>8. Fillable(s)
  <2>1. Len(s.fill[s.current]) < NumPieces
    <3>1. Len(s.fill[s.current]) = 0  BY <1>7
    <3> QED  BY <3>1, Constants
  <2>2. \A b \in Buffers : s.fill[b] = << >>  BY <1>2, <1>5, <1>7
  <2>3. DOMAIN << >> = {}  OBVIOUS
  <2> QED  BY <1>4, <1>7, <2>1, <2>2, <2>3 DEF Fillable
<1>9. FullWrites(s, writes)
  <2>1. writes.pending = 0  BY <1>1, <1>2 DEF WritesOK
  <2>2. \A t \in Threads : writes.work[t] = << >>  BY <1>3, <2>1, Idle
  <2>3. ASSUME NEW t \in Threads PROVE Queue(t) = writes.work[t] \o WritesOf(s)
    <3>1. writes.work[t] \in Seq(Requests)  BY <1>3 DEF HandleOK
    <3> QED  BY <1>1, <1>2, <1>7, <3>1, NothingReady
  <2>4. DOMAIN << >> = {}  OBVIOUS
  <2> QED  BY <1>3, <1>7, <2>1, <2>2, <2>3, <2>4 DEF FullWrites
<1> QED  BY <1>3, <1>4, <1>7, <1>8, <1>9 DEF s

(* The current buffer has space. *)
LEMMA CurrentBuffer ==
    ASSUME SwapInv, Gathering, HasBuffers, grads.current # 0, HasSpace(grads)
    PROVE  Fillable(grads) /\ FullWrites(grads, writes)
<1>1. /\ TypeOK /\ GradsOK /\ WritesOK /\ Filling /\ Writing = None
      /\ grads \in Swappers /\ Partition(grads) /\ grads.current \in Buffers /\ HandleOK(writes)
  BY Parts, NoOperation, Types DEF TypeOK, GradsOK
<1>2. Fillable(grads)  BY <1>1 DEF Fillable, Filling, HasBuffers, HasSpace
<1>3. writes.pending = grads.pending
      /\ \A t \in Threads : \A i \in DOMAIN writes.work[t] : GradWrite(writes.work[t][i])
  BY <1>1 DEF WritesOK, StateWrite
<1>4. \A t \in Threads : Queue(t) = writes.work[t] \o WritesOf(grads)
  BY DEF Queue
<1>5. FullWrites(grads, writes)  BY <1>1, <1>3, <1>4 DEF FullWrites, GradWrite
<1> QED  BY <1>2, <1>5

(* The current buffer is full, another one is taken. *)
LEMMA AnotherBuffer ==
    ASSUME SwapInv, Gathering, HasBuffers, grads.current # 0, grads.free # << >>
    PROVE  /\ Fillable(NextBuffer(Flushed(grads)))
           /\ FullWrites(NextBuffer(Flushed(grads)), Submit(writes, WritesOf(grads)))
           /\ NextBuffer(Flushed(grads)).all = grads.all
<1>1. TypeOK /\ GradsOK /\ WritesOK /\ Filling /\ Writing = None
  BY Parts, NoOperation
<1> DEFINE z == Flushed(grads)  s == NextBuffer(z)  h == Submit(writes, WritesOf(grads))
<1>2. /\ z \in Swappers /\ Partition(z)
      /\ z.all = grads.all /\ z.free = grads.free
      /\ z.current = 0 /\ z.fill = grads.fill
      /\ HandleOK(h) /\ \A t \in Threads : h.work[t] = Queue(t)
      /\ h.pending = z.pending
      /\ \A t \in Threads : \A i \in DOMAIN Queue(t) :
            /\ Queue(t)[i].buffer \in ToSet(z.swapping)
            /\ \E k \in DOMAIN grads.fill[Queue(t)[i].buffer] :
                  Queue(t)[i] = Request(FALSE, Queue(t)[i].buffer, {k}, grads.fill[Queue(t)[i].buffer][k])
  BY <1>1, FlushEffect
<1> HIDE DEF z, h
<1>3. /\ s \in Swappers /\ Partition(s) /\ s.all = z.all
      /\ s.swapping = z.swapping /\ s.current \in Buffers
      /\ s.fill = z.fill /\ s.pending = z.pending /\ s.fill[s.current] = << >>
  BY <1>1, <1>2, NextBufferKeeps
<1> HIDE DEF s
<1>4. Fillable(s)
  <2>1. Len(s.fill[s.current]) < NumPieces
    <3>1. Len(s.fill[s.current]) = 0  BY <1>3
    <3> QED  BY <3>1, Constants
  <2> QED  BY <1>1, <1>2, <1>3, <2>1 DEF Fillable, Filling, HasBuffers
<1>5. FullWrites(s, h)
  <2>1. ASSUME NEW t \in Threads PROVE Queue(t) = h.work[t] \o WritesOf(s)
    <3>1. h.work[t] \in Seq(Requests)  BY <1>2 DEF HandleOK
    <3> QED  BY <1>1, <1>2, <1>3, <3>1, NothingReady
  <2>2. ASSUME NEW t \in Threads, NEW i \in DOMAIN h.work[t]
        PROVE  /\ h.work[t][i].buffer \in ToSet(s.swapping)
               /\ \E k \in DOMAIN s.fill[h.work[t][i].buffer] :
                     h.work[t][i] = Request(FALSE, h.work[t][i].buffer, {k}, s.fill[h.work[t][i].buffer][k])
    <3>1. h.work[t] = Queue(t) /\ s.fill = grads.fill /\ s.swapping = z.swapping /\ i \in DOMAIN Queue(t)
      BY <1>2, <1>3, <2>2
    <3>2. /\ Queue(t)[i].buffer \in ToSet(z.swapping)
          /\ \E k \in DOMAIN grads.fill[Queue(t)[i].buffer] :
                Queue(t)[i] = Request(FALSE, Queue(t)[i].buffer, {k}, grads.fill[Queue(t)[i].buffer][k])
      BY <1>2, <3>1
    <3> QED  BY <3>1, <3>2
  <2> QED  BY <1>2, <1>3, <2>1, <2>2 DEF FullWrites
<1> QED  BY <1>2, <1>3, <1>4, <1>5 DEF s, z, h

(* Every buffer has been written, one of them is taken. *)
LEMMA FirstBuffer ==
    ASSUME SwapInv, at = "no_space", GradientsAreWritten, cfg' = cfg,
           NEW s, s = [NextBuffer(SwapComplete(grads)) EXCEPT !.next = NoFile]
    PROVE  /\ Fillable(s) /\ FullWrites(s, writes') /\ s.all = grads.all /\ raised' = FALSE
<1>1. /\ TypeOK /\ GradsOK /\ WritesOK /\ Gathering /\ Writing = None /\ HasBuffers
      /\ grads.current = 0
  BY Parts, NoOperation DEF Gathering, GradsOK
<1>2. /\ raised' = FALSE /\ HandleOK(writes') /\ writes'.pending = 0
      /\ \A t \in Threads : writes'.work[t] = << >> /\ Queue(t) = << >>
  BY <1>1, WrittenFacts
<1> DEFINE z == SwapComplete(grads)  n == NextBuffer(z)
<1>3. /\ z \in Swappers /\ Partition(z) /\ z.all = grads.all
      /\ ToSet(z.free) = ToSet(grads.all)
      /\ z.swapping = << >> /\ z.current = 0
      /\ \A b \in Buffers : z.fill[b] = << >>
      /\ z.pending = 0
  BY <1>1, CompleteKeeps DEF TypeOK, GradsOK
<1>4. z.free # << >>
  <2>1. grads.all \in Seq(Buffers) /\ grads.all # << >>
    BY <1>1, Types DEF HasBuffers
  <2>2. Last(grads.all) \in ToSet(grads.all)  BY <2>1, FrontAndLast
  <2> QED  BY <1>3, <2>2, NothingInEmpty
<1> HIDE DEF z
<1>5. /\ n \in Swappers /\ Partition(n) /\ n.all = z.all
      /\ n.swapping = z.swapping /\ n.current \in Buffers
      /\ n.fill = z.fill /\ n.pending = z.pending
  BY <1>1, <1>3, <1>4, NextBufferKeeps
<1>6. s = NextFile(n, NoFile)  BY DEF z, NextFile
<1> HIDE DEF n
<1>7. /\ s \in Swappers /\ Partition(s)
      /\ s.all = n.all /\ s.swapping = n.swapping /\ s.current = n.current
      /\ s.fill = n.fill /\ s.pending = n.pending
  <2>1. NoFile \in GradFiles \cup {NoFile} /\ n \in Swappers /\ Partition(n)
    BY <1>5
  <2> DEFINE w == NextFile(n, NoFile)
  <2>2. /\ w \in Swappers /\ Partition(w)
        /\ w.all = n.all /\ w.free = n.free /\ w.swapping = n.swapping /\ w.current = n.current
        /\ w.fill = n.fill /\ w.pending = n.pending
    BY <2>1, NextFileKeeps
  <2> HIDE DEF w
  <2>3. s = w  BY <1>6 DEF w
  <2> QED  BY <2>2, <2>3
<1>8. \A b \in Buffers : s.fill[b] = << >>  BY <1>3, <1>5, <1>7
<1>9. DOMAIN << >> = {} /\ Len(<< >>) = 0 /\ 0 < NumPieces  BY Constants
<1>10. Fillable(s)
  BY <1>1, <1>3, <1>5, <1>7, <1>8, <1>9 DEF Fillable, HasBuffers
<1>11. FullWrites(s, writes')
  <2>1. ASSUME NEW t \in Threads PROVE Queue(t) = writes'.work[t] \o WritesOf(s)
    <3>1. << >> \in Seq(Requests) /\ s.current \in Buffers  BY <1>5, <1>7
    <3> QED  BY <1>1, <1>2, <1>8, <3>1, NothingReady
  <2> QED  BY <1>2, <1>3, <1>5, <1>7, <1>9, <2>1 DEF FullWrites
<1> QED  BY <1>2, <1>3, <1>5, <1>7, <1>10, <1>11

(* A full buffer is submitted and no other is left. *)
LEMMA NoBufferLeft ==
    ASSUME SwapInv, NEW g \in Groups, NEW p \in Pieces, at = "backward", HasBuffers, grads.current # 0,
           grads.free = << >>,
           writes' = Submit(writes, WritesOf(grads)), grads' = [Flushed(grads) EXCEPT !.next = GradFile(g, p)],
           at' = "no_space", UNCHANGED <<cfg, batch, updates, ops, disk, memory>>, InfoGrows(g, p),
           <<g, p>> \in cfg.large, arrived' = arrived \cup {<<g, p>>}
    PROVE  /\ grads' \in Swappers /\ grads'.all = grads.all /\ HandleOK(writes')
           /\ WritesOK' /\ Filling' /\ GradsOK' /\ LargeKept'
<1>1. /\ TypeOK /\ GradsOK /\ WritesOK /\ Filling /\ Gathering /\ Writing = None
      /\ ops.sync_in = None /\ ops.async_in = None /\ ops.sync_out = None /\ ops.async_out = None
  BY Parts, NoOperation DEF Gathering
<1> DEFINE z == Flushed(grads)
<1>2. /\ z \in Swappers /\ Partition(z)
      /\ z.all = grads.all /\ z.free = grads.free
      /\ z.current = 0 /\ z.fill = grads.fill
      /\ HandleOK(writes') /\ \A t \in Threads : writes'.work[t] = Queue(t)
      /\ writes'.pending = z.pending
      /\ \A t \in Threads : \A i \in DOMAIN Queue(t) :
            /\ Queue(t)[i].buffer \in ToSet(z.swapping)
            /\ \E k \in DOMAIN grads.fill[Queue(t)[i].buffer] :
                  Queue(t)[i] = Request(FALSE, Queue(t)[i].buffer, {k}, grads.fill[Queue(t)[i].buffer][k])
  BY <1>1, FlushEffect
<1>3. grads' = NextFile(z, GradFile(g, p))  BY DEF NextFile
<1> HIDE DEF z
<1> DEFINE w == NextFile(z, GradFile(g, p))
<1>4. /\ w \in Swappers /\ Partition(w)
      /\ w.all = z.all /\ w.free = z.free /\ w.swapping = z.swapping /\ w.current = z.current
      /\ w.fill = z.fill /\ w.pending = z.pending /\ w.next = GradFile(g, p)
  <2>1. GradFile(g, p) \in GradFiles \cup {NoFile}  BY FileFacts
  <2> QED  BY <1>2, <2>1, NextFileKeeps
<1> HIDE DEF w
<1>5. /\ grads' \in Swappers /\ Partition(grads') /\ grads' = w
      /\ grads'.all = grads.all /\ grads'.free = << >> /\ grads'.swapping = z.swapping
      /\ grads'.current = 0 /\ grads'.fill = grads.fill /\ grads'.pending = z.pending
      /\ grads'.next = GradFile(g, p)
  <2>1. grads' = w  BY <1>3 DEF w
  <2> QED  BY <1>2, <1>4, <2>1
<1>6. Buffers' = Buffers /\ Writing' = None  BY <1>1 DEF Buffers, Writing
<1>7. WritesOK'
  <2>1. ASSUME NEW t \in Threads, NEW i \in DOMAIN writes'.work[t]
        PROVE  GradWrite(writes.work[t][i])'
    <3>1. PICK r : r = Queue(t)[i]  OBVIOUS
    <3>2. i \in DOMAIN Queue(t) /\ writes'.work[t][i] = r  BY <1>2, <2>1, <3>1
    <3>3. /\ r.buffer \in ToSet(z.swapping)
          /\ \E k \in DOMAIN grads.fill[r.buffer] :
                r = Request(FALSE, r.buffer, {k}, grads.fill[r.buffer][k])
      <4>1. /\ Queue(t)[i].buffer \in ToSet(z.swapping)
            /\ \E k \in DOMAIN grads.fill[Queue(t)[i].buffer] :
                  Queue(t)[i] = Request(FALSE, Queue(t)[i].buffer, {k}, grads.fill[Queue(t)[i].buffer][k])
        BY <1>2, <3>2
      <4> QED  BY <3>1, <4>1
    <3> QED  BY <1>5, <3>2, <3>3 DEF GradWrite
  <2>2. writes'.pending = grads'.pending  BY <1>2, <1>5
  <2> QED  BY <1>6, <2>1, <2>2 DEF WritesOK
<1>8. Filling'  BY <1>1, <1>5, <1>6 DEF Filling
<1>9. GradsOK'
  <2>1. Partition(grads)'  BY <1>5, <1>6 DEF Partition
  <2>2. HasBuffers'  BY <1>5 DEF HasBuffers
  <2>3. <<g, p>> \in arrived' \cap cfg'.large /\ grads'.next = GradFile(<<g, p>>[1], <<g, p>>[2])
    BY <1>5
  <2> QED  BY <1>5, <2>1, <2>2, <2>3 DEF GradsOK
<1>10. LargeKept'
  <2>1. \A f : Newest(f)' = Newest(f)  BY NewestKept
  <2>2. ASSUME NEW t \in Threads PROVE Queue(t)' = Queue(t)
    <3>1. writes'.work[t] \in Seq(Requests)  BY <1>2 DEF HandleOK
    <3>2. Queue(t)' = writes'.work[t] \o << >>  BY <1>5 DEF Queue
    <3> QED  BY <1>2, <3>1, <3>2, ConcatEmptySeq
  <2>3. ASSUME NEW f, NEW t \in Threads, InDirection(f, t)
        PROVE  InDirection(f, t)'
    BY <2>1, <2>2, <2>3 DEF InDirection
  <2> SUFFICES ASSUME NEW h \in Groups, NEW q \in Pieces, <<h, q>> \in arrived' \cap cfg.large
               PROVE  /\ q \in info'[h].swapped
                      /\ \/ grads'.next = GradFile(h, q)
                         \/ \A t \in Threads : InDirection(GradFile(h, q), t)'
    BY DEF LargeKept
  <2>4. CASE h = g /\ q = p  BY <1>5, <2>4 DEF InfoGrows
  <2>5. CASE ~(h = g /\ q = p)
    <3>1. <<h, q>> \in arrived \cap cfg.large  BY <2>5
    <3>2. q \in info[h].swapped /\ \A t \in Threads : InDirection(GradFile(h, q), t)
      BY <3>1, Parts DEF LargeKept
    <3> QED  BY <2>3, <3>2 DEF InfoGrows
  <2> QED  BY <2>4, <2>5
<1> QED  BY <1>2, <1>5, <1>7, <1>8, <1>9, <1>10

(* Swapping out a large gradient keeps the invariant, whether or not it finds
   space. *)
LEMMA SwapOutGradientKeeps ==
    ASSUME SwapInv, NEW g \in cfg.swappable, NEW p \in Pieces, SwapOutGradient(g, p)
    PROVE  SwapInv'
<1> DEFINE f == GradFile(g, p)
           s == IF HasBuffers THEN grads ELSE [grads EXCEPT !.all = free, !.free = free]
<1>1. /\ at = "backward" /\ <<g, p>> \in cfg.large \ arrived
      /\ arrived' = arrived \cup {<<g, p>>}
      /\ info' = [info EXCEPT ![g].swapped = @ \cup {p}]
      /\ free' = IF HasBuffers THEN free ELSE << >>
      /\ \/ /\ s.current = 0
            /\ Insert(NextBuffer(s), f)
            /\ UNCHANGED <<at, writes>>
         \/ /\ s.current # 0 /\ HasSpace(s)
            /\ Insert(s, f)
            /\ UNCHANGED <<at, writes>>
         \/ /\ s.current # 0 /\ ~HasSpace(s) /\ s.free # << >>
            /\ writes' = Submit(writes, WritesOf(s))
            /\ Insert(NextBuffer(Flushed(s)), f)
            /\ UNCHANGED at
         \/ /\ s.current # 0 /\ ~HasSpace(s) /\ s.free = << >>
            /\ writes' = Submit(writes, WritesOf(s))
            /\ grads' = [Flushed(s) EXCEPT !.next = f]
            /\ at' = "no_space"
            /\ UNCHANGED memory
      /\ UNCHANGED <<cfg, group, batch, updates, ops, reads, disk, raised>>
  BY DEF SwapOutGradient
<1>2. /\ TypeOK /\ GradsOK /\ Gathering /\ batch \in Nat /\ batch > 0 /\ g \in Groups /\ Writing = None
      /\ ops.sync_in = None /\ ops.async_in = None /\ ops.sync_out = None /\ ops.async_out = None
  <2>1. TypeOK /\ GradsOK /\ Gathering /\ batch \in Nat /\ batch > 0
    BY <1>1, Parts DEF Gathering, TypeOK, Progress
  <2> QED  BY <2>1, Parts, Types, NoOperation
<1>3. /\ info' \in [Groups -> Parameters]
      /\ \A h \in Groups : /\ info'[h].tensors = info[h].tensors
                           /\ info'[h].swapped = IF h = g THEN info[g].swapped \cup {p} ELSE info[h].swapped
                           /\ info'[h].unswapped = info[h].unswapped
  <2> DEFINE u == info[g].swapped \cup {p}  next == [info EXCEPT ![g].swapped = u]
  <2>1. u \in SUBSET Pieces  BY <1>2, Types
  <2>2. info' = next  BY <1>1
  <2> HIDE DEF u
  <2>3. /\ next \in [Groups -> Parameters]
        /\ \A h \in Groups : /\ next[h].tensors = info[h].tensors
                             /\ next[h].swapped = IF h = g THEN u ELSE info[h].swapped
                             /\ next[h].unswapped = info[h].unswapped
    BY <1>2, <2>1, SwappedField
  <2> HIDE DEF next
  <2> QED  BY <2>2, <2>3 DEF u
<1>4. InfoGrows(g, p)  BY <1>2, <1>3 DEF InfoGrows
<1>5. Writing' = None  BY <1>1, <1>2 DEF Writing
<1>6. /\ grads' \in Swappers /\ memory' \in [Buffers -> [Pieces -> [Threads -> Tensors]]]
      /\ grads'.all = IF HasBuffers THEN grads.all ELSE free
      /\ HandleOK(writes') /\ at' \in {"backward", "no_space"}
      /\ WritesOK' /\ Filling' /\ GradsOK' /\ LargeKept'
  <2>0. ASSUME NEW z, Insert(z, f), at' = "backward", Fillable(z), FullWrites(z, writes'),
               z.all = IF HasBuffers THEN grads.all ELSE free
        PROVE  <1>6!:
    <3>1. InsertStep(z, g, p)  BY <1>1, <1>2, <1>5, <2>0 DEF InsertStep
    <3>2. /\ grads' \in Swappers /\ memory' \in [Buffers -> [Pieces -> [Threads -> Tensors]]]
          /\ grads'.all = z.all
          /\ WritesOK' /\ Filling' /\ GradsOK' /\ LargeKept'
      BY <1>2, <1>4, <2>0, <3>1, InsertKeeps
    <3>3. HandleOK(writes')  BY <2>0 DEF FullWrites
    <3> QED  BY <2>0, <3>2, <3>3
  <2>1. CASE ~HasBuffers
    <3> DEFINE z == [grads EXCEPT !.all = free, !.free = free]
    <3>1. s = z /\ z.current = 0
      <4>1. grads.current = 0  BY <1>2, <2>1 DEF GradsOK
      <4>2. grads \in Swappers  BY <1>2 DEF TypeOK
      <4> QED  BY <2>1, <4>1, <4>2 DEF Swappers
    <3>2. Insert(NextBuffer(z), f) /\ at' = "backward" /\ writes' = writes
      BY <1>1, <3>1
    <3>3. Fillable(NextBuffer(z)) /\ FullWrites(NextBuffer(z), writes) /\ NextBuffer(z).all = free
      BY <1>2, <2>1, TakeBuffers
    <3> DEFINE n == NextBuffer(z)
    <3> HIDE DEF z
    <3>4. Insert(n, f) /\ Fillable(n) /\ FullWrites(n, writes') /\ n.all = IF HasBuffers THEN grads.all ELSE free
      BY <2>1, <3>2, <3>3
    <3> HIDE DEF n
    <3> QED  BY <2>0, <3>2, <3>4
  <2>2. CASE HasBuffers
    <3>1. s = grads /\ grads.current # 0  BY <1>1, <1>2, <2>2 DEF GradsOK
    <3>2. CASE HasSpace(grads)
      <4>1. Insert(grads, f) /\ at' = "backward" /\ writes' = writes
        BY <1>1, <3>1, <3>2
      <4>2. Fillable(grads) /\ FullWrites(grads, writes)
        BY <1>2, <2>2, <3>1, <3>2, CurrentBuffer
      <4>3. PICK n : n = grads  OBVIOUS
      <4>4. Insert(n, f) /\ Fillable(n) /\ FullWrites(n, writes') /\ n.all = IF HasBuffers THEN grads.all ELSE free
        BY <2>2, <4>1, <4>2, <4>3
      <4> QED  BY <2>0, <4>1, <4>4
    <3>3. CASE ~HasSpace(grads) /\ grads.free # << >>
      <4> DEFINE n == NextBuffer(Flushed(grads))
      <4>1. Insert(n, f) /\ at' = "backward" /\ writes' = Submit(writes, WritesOf(grads))
        BY <1>1, <3>1, <3>3
      <4>2. Fillable(n) /\ FullWrites(n, Submit(writes, WritesOf(grads))) /\ n.all = grads.all
        BY <1>2, <2>2, <3>1, <3>3, AnotherBuffer
      <4> HIDE DEF n
      <4>3. FullWrites(n, writes') /\ n.all = IF HasBuffers THEN grads.all ELSE free
        BY <2>2, <4>1, <4>2
      <4> QED  BY <2>0, <4>1, <4>2, <4>3
    <3>4. CASE ~HasSpace(grads) /\ grads.free = << >>
      <4>1. /\ writes' = Submit(writes, WritesOf(grads)) /\ grads' = [Flushed(grads) EXCEPT !.next = f]
            /\ at' = "no_space" /\ memory' = memory
        <5>1. PICK z : z = s  OBVIOUS
        <5>2. \/ z.current = 0
              \/ z.current # 0 /\ HasSpace(z)
              \/ z.current # 0 /\ ~HasSpace(z) /\ z.free # << >>
              \/ /\ writes' = Submit(writes, WritesOf(z))
                 /\ grads' = [Flushed(z) EXCEPT !.next = f]
                 /\ at' = "no_space" /\ memory' = memory
          BY <1>1, <5>1
        <5>3. z = grads  BY <3>1, <5>1
        <5> HIDE DEF s
        <5> QED  BY <3>1, <3>4, <5>2, <5>3
      <4>2. /\ grads' \in Swappers /\ grads'.all = grads.all /\ HandleOK(writes')
            /\ WritesOK' /\ Filling' /\ GradsOK' /\ LargeKept'
        BY <1>1, <1>2, <1>4, <2>2, <3>1, <3>4, <4>1, NoBufferLeft
      <4>3. memory' \in [Buffers -> [Pieces -> [Threads -> Tensors]]]
        BY <1>2, <4>1 DEF TypeOK
      <4> QED  BY <2>2, <4>1, <4>2, <4>3
    <3> QED  BY <3>2, <3>3, <3>4
  <2> QED  BY <2>1, <2>2
<1>7. TypeOK'
  <2>1. HandleOK(reads)' /\ HandleOK(writes)'
    <3>1. HandleOK(reads)  BY <1>2 DEF TypeOK
    <3> QED  BY <1>1, <1>6, <3>1 DEF HandleOK, Requests, Buffers
  <2>2. at' \in Places  BY <1>6 DEF Places
  <2>3. grads' \in Swappers'  BY <1>1, <1>6 DEF Swappers, Buffers
  <2>4. free' \in Seq(Buffers)  BY <1>1, <1>2 DEF TypeOK
  <2>5. arrived' \subseteq cfg.swappable \X Pieces  BY <1>1, <1>2 DEF TypeOK
  <2> QED
    BY <1>1, <1>2, <1>3, <1>6, <2>1, <2>2, <2>3, <2>4, <2>5 DEF TypeOK, Operations, Buffers
<1>8. Pool'
  <2>1. CASE HasBuffers
    BY <1>1, <1>6, <2>1, Parts DEF Pool, Holding, Slots, Buffers
  <2>2. CASE ~HasBuffers
    <3>0. free \in Seq(Buffers) /\ grads.all = << >>
      BY <1>2, <2>2 DEF TypeOK, HasBuffers
    <3>1. /\ Holding["free"] = << >> \o free /\ Holding["all"] = << >> /\ << >> \o free = free
      BY <1>2, <3>0, HoldingFacts, ConcatEmptySeq
    <3>2. /\ Holding'["free"] = << >> /\ Holding'["all"] = Holding["all"] \o free
          /\ \A z \in Slots : z # "all" /\ z # "free" => Holding'[z] = Holding[z]
      BY <1>1, <1>6, <2>2, <3>1 DEF Holding, Slots
    <3>3. "all" \in Slots /\ "free" \in Slots /\ "all" # "free" /\ << >> \in Seq(Buffers)
      BY DEF Slots
    <3>4. TypeOK /\ Pool /\ cfg' = cfg  BY <1>1, Parts
    <3>5. PICK b : b = free  OBVIOUS
    <3>6. /\ b \in Seq(Buffers) /\ Holding["free"] = << >> \o b
          /\ Holding'["all"] = Holding["all"] \o b
      BY <3>0, <3>1, <3>2, <3>5
    <3> HIDE DEF s
    <3> QED  BY ZenonT(60), <3>2, <3>3, <3>4, <3>6, PoolMoved
  <2> QED  BY <2>1, <2>2
<1>9. Progress'  BY <1>1, <1>2, <1>6 DEF Progress, Gathering
<1>10. Created'  BY <1>1, <1>2, <1>3, Parts, Types DEF Created
<1>11. OpsOK' /\ ReadsOK' /\ InMemory'  BY <1>1, <1>2, <1>6, NoOperationKept
<1>12. StatesOnDisk'
  <2>1. \A h, k : Newest(StateFile(h, k))' = Newest(StateFile(h, k))
    BY <1>1 DEF Newest
  <2>2. \A h \in cfg.swappable, t \in Threads : \A k \in 1 .. info[h].tensors :
              disk[StateFile(h, k)][t] = Newest(StateFile(h, k))
    BY <1>1, <1>2, StatesThere
  <2>3. \A h \in cfg.swappable : info'[h].tensors = info[h].tensors
    BY <1>2, <1>3, Types
  <2> QED  BY <1>1, <2>1, <2>2, <2>3 DEF StatesOnDisk
<1>13. Remembered'
  <2>1. batch # 0  BY <1>2
  <2> QED  BY <1>1, <1>3, <2>1, Parts DEF Remembered
<1>14. SmallKept'
  <2>1. \A h : ~Taken(h)  BY <1>2 DEF Taken
  <2>2. arrived' \ cfg.large \subseteq arrived \ cfg.large  BY <1>1
  <2> QED  BY <1>1, <1>3, <2>1, <2>2, Parts DEF SmallKept
<1> QED
  BY <1>6, <1>7, <1>8, <1>9, <1>10, <1>11, <1>12, <1>13, <1>14 DEF SwapInv

(* Waiting for space and swapping out the gradient that needed it keeps the
   invariant. *)
LEMMA MakeSpaceKeeps ==
    ASSUME SwapInv, MakeSpace
    PROVE  SwapInv'
<1> DEFINE s == [NextBuffer(SwapComplete(grads)) EXCEPT !.next = NoFile]
<1>1. /\ at = "no_space" /\ at' = "backward" /\ GradientsAreWritten
      /\ Insert(s, grads.next)
      /\ UNCHANGED <<cfg, group, batch, arrived, updates, free, info, ops, reads, disk>>
  BY DEF MakeSpace
<1>2. /\ TypeOK /\ GradsOK /\ Gathering /\ batch \in Nat /\ batch > 0 /\ Writing = None /\ HasBuffers
      /\ ops.sync_in = None /\ ops.async_in = None /\ ops.sync_out = None /\ ops.async_out = None
  <2>1. TypeOK /\ GradsOK /\ Gathering /\ batch \in Nat /\ batch > 0 /\ HasBuffers
    BY <1>1, Parts DEF Gathering, TypeOK, Progress, GradsOK
  <2> QED  BY <2>1, Parts, Types, NoOperation
<1>3. PICK g \in Groups, p \in Pieces : /\ <<g, p>> \in arrived \cap cfg.large
                                        /\ grads.next = GradFile(g, p)
  <2>1. PICK gp \in arrived \cap cfg.large : grads.next = GradFile(gp[1], gp[2])
    BY <1>1, <1>2 DEF GradsOK
  <2>2. arrived \subseteq cfg.swappable \X Pieces /\ cfg.swappable \subseteq Groups
    BY <1>2, Types DEF TypeOK
  <2>3. gp = <<gp[1], gp[2]>> /\ gp[1] \in Groups /\ gp[2] \in Pieces  BY <2>2
  <2> QED  BY <2>1, <2>3
<1>4. Fillable(s) /\ FullWrites(s, writes') /\ s.all = grads.all /\ raised' = FALSE
  BY <1>1, FirstBuffer
<1> HIDE DEF s
<1>5. InfoGrows(g, p)
  <2>1. p \in info[g].swapped  BY <1>3, Parts DEF LargeKept
  <2> QED  BY <1>1, <2>1 DEF InfoGrows
<1>6. /\ grads' \in Swappers /\ memory' \in [Buffers -> [Pieces -> [Threads -> Tensors]]]
      /\ grads'.all = grads.all
      /\ WritesOK' /\ Filling' /\ GradsOK' /\ LargeKept'
  <2>1. arrived' = arrived \cup {<<g, p>>} /\ Writing' = None
    BY <1>1, <1>2, <1>3 DEF Writing
  <2>2. InsertStep(s, g, p)  BY <1>1, <1>2, <1>3, <2>1 DEF InsertStep
  <2>3. PICK z : z = s  OBVIOUS
  <2>4. InsertStep(z, g, p) /\ Fillable(z) /\ FullWrites(z, writes') /\ z.all = grads.all
    BY <1>4, <2>2, <2>3
  <2> QED  BY <1>5, <2>4, InsertKeeps
<1>7. TypeOK'
  <2>1. HandleOK(reads)' /\ HandleOK(writes)'
    <3>1. HandleOK(reads) /\ HandleOK(writes')
      BY <1>2, <1>4 DEF TypeOK, FullWrites
    <3> QED  BY <1>1, <3>1 DEF HandleOK, Requests, Buffers
  <2>2. at' \in Places  BY <1>1 DEF Places
  <2>3. grads' \in Swappers'  BY <1>1, <1>6 DEF Swappers, Buffers
  <2> QED
    BY <1>1, <1>2, <1>4, <1>6, <2>1, <2>2, <2>3 DEF TypeOK, Operations, Buffers
<1>8. Pool'  BY <1>1, <1>6, Parts DEF Pool, Holding, Slots, Buffers
<1>9. Progress'  BY <1>1, <1>2, <1>6 DEF Progress, Gathering
<1>10. Created'  BY <1>1, Parts DEF Created
<1>11. OpsOK' /\ ReadsOK' /\ InMemory'  BY <1>1, <1>2, NoOperationKept
<1>12. StatesOnDisk'
  <2>1. \A h, k : Newest(StateFile(h, k))' = Newest(StateFile(h, k))
    BY <1>1 DEF Newest
  <2>2. \A h \in cfg.swappable, t \in Threads : \A k \in 1 .. info[h].tensors :
              disk[StateFile(h, k)][t] = Newest(StateFile(h, k))
    BY <1>1, <1>2, StatesThere
  <2> QED  BY <1>1, <2>1, <2>2 DEF StatesOnDisk
<1>13. Remembered'  BY <1>1, Parts DEF Remembered
<1>14. SmallKept'
  <2>1. \A h : ~Taken(h)  BY <1>2 DEF Taken
  <2> QED  BY <1>1, <2>1, Parts DEF SmallKept
<1> QED
  BY <1>6, <1>7, <1>8, <1>9, <1>10, <1>11, <1>12, <1>13, <1>14 DEF SwapInv

(* The buffers of an operation, and those that are left. *)
LEMMA OpLengths ==
    ASSUME TypeOK, Pool, Progress, OpsOK
    PROVE  /\ \A x \in {"sync_in", "async_in", "sync_out", "async_out"} :
                 /\ Len(ops[x].buffers) \in Nat /\ Len(ops[x].buffers) <= NumStates + 1
                 /\ ops[x] = None => Len(ops[x].buffers) = 0
           /\ Len(free) \in Nat
           /\ ~HasBuffers => cfg.buffers = Len(free) + Len(ops.sync_in.buffers) + Len(ops.async_in.buffers)
                                           + Len(ops.sync_out.buffers) + Len(ops.async_out.buffers)
<1>1. \A x \in {"sync_in", "async_in", "sync_out", "async_out"} : Len(ops[x].buffers) \in Nat
  <2> TAKE x \in {"sync_in", "async_in", "sync_out", "async_out"}
  <2>1. ops[x].buffers \in Seq(Buffers)  BY Types
  <2> QED  BY <2>1
<1>2. Len(<< >>) = 0 /\ 0 <= NumStates + 1 /\ NumStates \in Nat  BY Constants
<1>3. \A x \in {"sync_in", "async_in", "sync_out", "async_out"} : ops[x] = None => Len(ops[x].buffers) = 0
  BY <1>2, NoneFacts
<1>4. ops.sync_in # None => ops.sync_in.group = group  BY DEF Progress
<1>5. ops.async_in # None => ops.async_in.group \in Groups
  <2>1. cfg \in Configs /\ group \in cfg.swappable /\ group \in Groups
    BY Types DEF TypeOK
  <2>2. Following(group) # {} => First(Following(group)) \in Groups
    BY <2>1, FollowingFacts, ConfigFacts
  <2> QED  BY <2>1, <2>2 DEF Progress
<1>6. \A g \in Groups : info[g].tensors \in Nat /\ info[g].tensors <= NumStates
  BY Types
<1>7. group \in Groups  BY Types
<1>8. \A op : op.group \in Groups /\ InOp(op) => Len(op.buffers) <= NumStates + 1
  <2> SUFFICES ASSUME NEW op, op.group \in Groups, InOp(op)
               PROVE  Len(op.buffers) <= NumStates + 1
    OBVIOUS
  <2>1. PICK n \in {0, 1} : Len(op.buffers) = info[op.group].tensors + n
    BY DEF InOp
  <2> QED  BY <1>2, <1>6, <2>1
<1>9. \A x \in {"sync_in", "async_in", "sync_out", "async_out"} : Len(ops[x].buffers) <= NumStates + 1
  <2>1. Len(ops.sync_in.buffers) <= NumStates + 1
    BY <1>2, <1>3, <1>4, <1>7, <1>8 DEF OpsOK
  <2>2. Len(ops.async_in.buffers) <= NumStates + 1
    BY <1>2, <1>3, <1>5, <1>8 DEF OpsOK
  <2>3. Len(ops.sync_out.buffers) <= NumStates + 1 /\ Len(ops.async_out.buffers) <= NumStates + 1
    BY <1>2, <1>3 DEF OpsOK, OutOp
  <2> QED  BY <2>1, <2>2, <2>3
<1>10. Len(free) \in Nat
  <2>1. free \in Seq(Buffers)  BY DEF TypeOK
  <2> QED  BY <2>1
<1>11. ~HasBuffers => cfg.buffers = Len(free) + Len(ops.sync_in.buffers) + Len(ops.async_in.buffers)
                                           + Len(ops.sync_out.buffers) + Len(ops.async_out.buffers)
  <2>1. Total(Holding) = cfg.buffers  BY DEF Pool, Owned
  <2>2. ~HasBuffers => Len(grads.all) = 0  BY <1>2 DEF HasBuffers
  <2>3. cfg.buffers = Len(free) + Len(grads.all) + Len(ops.sync_in.buffers) + Len(ops.async_in.buffers)
                                           + Len(ops.sync_out.buffers) + Len(ops.async_out.buffers)
    BY <2>1, HoldingFacts DEF Total
  <2> DEFINE fr == Len(free)  al == Len(grads.all)  si == Len(ops.sync_in.buffers)
             ai == Len(ops.async_in.buffers)  so == Len(ops.sync_out.buffers)
             ao == Len(ops.async_out.buffers)
  <2>4. {fr, si, ai, so, ao} \subseteq Nat /\ (~HasBuffers => al = 0)
        /\ cfg.buffers = fr + al + si + ai + so + ao
    BY <1>1, <1>10, <2>2, <2>3
  <2> HIDE DEF fr, al, si, ai, so, ao
  <2>5. ~HasBuffers => cfg.buffers = fr + si + ai + so + ao  BY <2>4
  <2> QED  BY <2>5 DEF fr, si, ai, so, ao
<1> QED  BY <1>1, <1>3, <1>9, <1>10, <1>11

(* The pool has what the next operation needs: the configuration provides for
   every sub-group that is in the buffers at once. *)
LEMMA EnoughFree ==
    ASSUME TypeOK, Pool, Progress, OpsOK, ~HasBuffers
    PROVE  /\ at = "swap_in" /\ ops.async_in = None => Len(free) >= NumStates + 1
           /\ at = "wait_in" /\ cfg.read /\ Following(group) # {} => Len(free) >= NumStates + 1
           /\ at = "swap_out" =>
                 Len(free) + Len(ops.async_out.buffers) >= NumStates - info[group].tensors
<1> DEFINE si == Len(ops.sync_in.buffers)  ai == Len(ops.async_in.buffers)
           so == Len(ops.sync_out.buffers)  ao == Len(ops.async_out.buffers)
           fr == Len(free)  n == NumStates + 1
<1>1. /\ {si, ai, so, ao, fr, n} \subseteq Nat
      /\ si <= n /\ ai <= n /\ so <= n /\ ao <= n
      /\ cfg.buffers = fr + si + ai + so + ao
      /\ ops.sync_in = None => si = 0
      /\ ops.async_in = None => ai = 0
      /\ ops.sync_out = None => so = 0
      /\ ops.async_out = None => ao = 0
  <2>1. n \in Nat  BY Constants
  <2> HIDE DEF n
  <2>2. NumStates + 1 = n  BY DEF n
  <2> QED  BY <2>1, <2>2, OpLengths
<1>2. /\ cfg \in Configs /\ cfg.buffers \in Nat /\ cfg.buffers >= n
      /\ \A g, h \in cfg.swappable : g < h => cfg.buffers >= 2 * n
      /\ \A f, g, h \in cfg.swappable : f < g /\ g < h /\ cfg.read /\ cfg.write => cfg.buffers >= 3 * n
  BY Types, EnoughBuffers
<1>3. group \in cfg.swappable /\ group \in Nat  BY Types DEF TypeOK
<1>4. Following(group) # {} => First(Following(group)) \in cfg.swappable /\ group < First(Following(group))
                               /\ First(Following(group)) \in Nat
  <2>1. cfg.swappable \subseteq Nat  BY Types
  <2> QED  BY <1>2, <1>3, <2>1, FollowingFacts
<1>5. ops.async_out # None => /\ cfg.write /\ ops.async_out.group \in cfg.swappable
                              /\ ops.async_out.group < group
  BY DEF Progress
<1>6. NumStates = n - 1  BY Constants
<1>7. at # "wait_out" => so = 0  BY <1>1 DEF Progress
<1> HIDE DEF si, ai, so, ao, fr, n
<1>8. ASSUME at = "swap_in", ops.async_in = None
      PROVE  fr >= n
  <2>1. si = 0 /\ so = 0 /\ ai = 0  BY <1>1, <1>7, <1>8 DEF Progress
  <2>2. CASE ops.async_out = None  BY <1>1, <1>2, <2>1, <2>2
  <2>3. CASE ops.async_out # None
    <3>1. cfg.buffers >= 2 * n  BY <1>2, <1>3, <1>5, <2>3
    <3> QED  BY <1>1, <1>2, <2>1, <3>1
  <2> QED  BY <2>2, <2>3
<1>9. ASSUME at = "wait_in", cfg.read, Following(group) # {}
      PROVE  fr >= n
  <2>1. so = 0 /\ ai = 0  BY <1>1, <1>7, <1>9 DEF Progress
  <2>2. CASE ops.async_out = None
    <3>1. cfg.buffers >= 2 * n  BY <1>2, <1>3, <1>4, <1>9
    <3> QED  BY <1>1, <1>2, <2>1, <2>2, <3>1
  <2>3. CASE ops.async_out # None
    <3>1. cfg.buffers >= 3 * n  BY <1>2, <1>3, <1>4, <1>5, <1>9, <2>3
    <3> QED  BY <1>1, <1>2, <2>1, <3>1
  <2> QED  BY <2>2, <2>3
<1>10. ASSUME at = "swap_out"
       PROVE  fr + ao >= NumStates - info[group].tensors
  <2>1. so = 0  BY <1>7, <1>10
  <2>2. ops.sync_in # None /\ ops.sync_in.group = group
    BY <1>3, <1>10, NoneFacts, Types DEF Progress
  <2>3. PICK e \in {0, 1} : si = info[group].tensors + e
    BY <2>2 DEF OpsOK, InOp, si
  <2>4. info[group].tensors \in Nat  BY Types
  <2>5. CASE ops.async_in = None  BY <1>1, <1>2, <1>6, <2>1, <2>3, <2>4, <2>5
  <2>6. CASE ops.async_in # None
    <3>1. Following(group) # {}  BY <1>10, <2>6 DEF Progress
    <3>2. cfg.buffers >= 2 * n  BY <1>2, <1>3, <1>4, <3>1
    <3> QED  BY <1>1, <1>2, <1>6, <2>1, <2>3, <2>4, <3>2
  <2> QED  BY <2>5, <2>6
<1> QED  BY <1>8, <1>9, <1>10 DEF fr, n, ao

(* Outside initialisation a sub-group that is read has a gradient, each piece
   of it on disk or kept in memory. *)
LEMMA GradientFacts ==
    ASSUME SwapInv, ~HasBuffers, ~Gathering, NEW g \in cfg.swappable, ~Taken(g)
    PROVE  /\ ReadCount(g) = info[g].tensors + (IF batch = 0 THEN 0 ELSE 1)
           /\ batch > 0 => \A p \in Pieces \ info[g].swapped :
                              \A n : <<GradFile(g, p), n>> \in info[g].unswapped <=> n = batch
           /\ g \in Groups /\ batch \in Nat
<1>1. g \in Groups /\ batch \in Nat  BY Parts, Types DEF TypeOK
<1>2. batch = 0 => ~HasGradients(g)
  BY <1>1, Parts DEF Remembered, HasGradients
<1>3. ASSUME batch > 0, NEW p \in Pieces
      PROVE  p \in info[g].swapped \/ \A n : <<GradFile(g, p), n>> \in info[g].unswapped <=> n = batch
  <2>1. <<g, p>> \in arrived  BY <1>3, Parts DEF Progress
  <2>2. CASE <<g, p>> \in cfg.large  BY <1>1, <2>1, <2>2, LargeOnDisk
  <2>3. CASE <<g, p>> \notin cfg.large
    BY <1>1, <2>1, <2>3, Parts DEF SmallKept
  <2> QED  BY <2>2, <2>3
<1>4. batch > 0 => HasGradients(g)
  <2> SUFFICES ASSUME batch > 0 PROVE HasGradients(g)  OBVIOUS
  <2>1. 1 \in Pieces  BY Constants
  <2>2. 1 \in info[g].swapped \/ <<GradFile(g, 1), batch>> \in info[g].unswapped
    BY <1>3, <2>1
  <2> QED  BY <2>2 DEF HasGradients
<1>5. batch = 0 \/ batch > 0  BY <1>1
<1> QED  BY <1>1, <1>2, <1>3, <1>4, <1>5 DEF ReadCount

(* What is requested for an operation is exactly what it wants. *)
LEMMA ReadsForFacts ==
    ASSUME TypeOK, NEW g \in Groups, NEW bs \in Seq(Buffers), info[g].tensors <= Len(bs)
    PROVE  /\ ReadsFor(g, bs) \in Seq(Requests) /\ Len(ReadsFor(g, bs)) \in Nat
           /\ \A op : op.group = g /\ op.buffers = bs => ToSet(ReadsFor(g, bs)) = Wanted(op)
<1> DEFINE n == info[g].tensors
           G == {Request(TRUE, Last(bs), {p}, GradFile(g, p)) : p \in info[g].swapped}
           a == [k \in 1 .. n |-> Request(TRUE, bs[k], Pieces, StateFile(g, k))]
           S == {Request(TRUE, bs[k], Pieces, StateFile(g, k)) : k \in 1 .. n}
<1>1. n \in Nat /\ n >= 1 /\ n <= NumStates /\ info[g].swapped \subseteq Pieces /\ NumStates \in Nat
  BY Types, Constants
<1>2. \A k \in 1 .. n : bs[k] \in Buffers /\ k \in States
  <2>1. Len(bs) \in Nat /\ \A k \in 1 .. Len(bs) : bs[k] \in Buffers  OBVIOUS
  <2> HIDE DEF n
  <2>2. n <= Len(bs)  BY DEF n
  <2> QED  BY <1>1, <2>1, <2>2, Constants
<1>3. Last(bs) \in Buffers
  <2>1. Len(bs) \in Nat /\ Len(bs) >= 1  BY <1>1
  <2>2. bs[Len(bs)] \in Buffers  BY <2>1
  <2> QED  BY <2>2 DEF Last
<1>4. a \in Seq(Requests) /\ ToSet(a) = S
  <2>1. \A k \in 1 .. n : Request(TRUE, bs[k], Pieces, StateFile(g, k)) \in Requests
    BY <1>2, FileFacts DEF Request, Requests
  <2>2. a \in [1 .. n -> Requests]  BY <2>1
  <2>3. DOMAIN a = 1 .. n /\ \A k \in 1 .. n : a[k] = Request(TRUE, bs[k], Pieces, StateFile(g, k))
    OBVIOUS
  <2> HIDE DEF a, n
  <2>4. a \in Seq(Requests)  BY <1>1, <2>2
  <2>5. ToSet(a) = S  BY <2>3 DEF ToSet
  <2> QED  BY <2>4, <2>5
<1>5. IsFiniteSet(G) /\ G \subseteq Requests
  <2>1. IsFiniteSet(info[g].swapped)
    <3>1. IsFiniteSet(1 .. NumPieces) /\ Pieces = 1 .. NumPieces
      BY Constants, FS_Interval
    <3> QED  BY <1>1, <3>1, FS_Subset
  <2> DEFINE f == [p \in info[g].swapped |-> Request(TRUE, Last(bs), {p}, GradFile(g, p))]
  <2>2. f \in Surjection(info[g].swapped, G)  BY DEF Surjection
  <2>3. IsFiniteSet(G)  BY <2>1, <2>2, FS_Surjection
  <2>4. G \subseteq Requests
    <3>1. \A p \in info[g].swapped : Request(TRUE, Last(bs), {p}, GradFile(g, p)) \in Requests
      <4> TAKE p \in info[g].swapped
      <4>1. GradFile(g, p) \in Files /\ {p} \subseteq Pieces /\ TRUE \in BOOLEAN
        BY <1>1, FileFacts
      <4> QED  BY <1>3, <4>1 DEF Request, Requests
    <3> QED  BY <3>1
  <2> QED  BY <2>3, <2>4
<1>6. SetToSeq(G) \in Seq(Requests) /\ ToSet(SetToSeq(G)) = G
  <2> HIDE DEF G
  <2>1. /\ SetToSeq(G) \in Seq(G)
        /\ \A x \in G : \E i \in 1 .. Len(SetToSeq(G)) : SetToSeq(G)[i] = x
    BY <1>5, SetAsSequence
  <2> DEFINE q == SetToSeq(G)
  <2> HIDE DEF q
  <2>2. q \in Seq(G) /\ \A x \in G : \E i \in 1 .. Len(q) : q[i] = x
    BY <2>1 DEF q
  <2>3. q \in Seq(Requests)  BY <1>5, <2>2
  <2>4. DOMAIN q = 1 .. Len(q) /\ \A i \in 1 .. Len(q) : q[i] \in G  BY <2>2
  <2>5. ToSet(q) = G  BY <2>2, <2>4 DEF ToSet
  <2> QED  BY <2>3, <2>5 DEF q
<1>7. ReadsFor(g, bs) = a \o SetToSeq(G)  BY DEF ReadsFor
<1>8. \A op : op.group = g /\ op.buffers = bs => Wanted(op) = S \cup G
  BY DEF Wanted
<1> HIDE DEF a, G, S
<1> DEFINE b == SetToSeq(G)
<1>9. b \in Seq(Requests) /\ ToSet(b) = G /\ ReadsFor(g, bs) = a \o b
  BY <1>6, <1>7
<1> HIDE DEF b
<1>10. a \o b \in Seq(Requests) /\ ToSet(a \o b) = S \cup G
  BY <1>4, <1>9, InConcat
<1>11. Len(a \o b) \in Nat
  <2>1. \A z \in Seq(Requests) : Len(z) \in Nat  OBVIOUS
  <2> QED  BY <1>10, <2>1
<1> QED  BY <1>8, <1>9, <1>10, <1>11

(* The buffers of a sub-group that is read come from the pool; the pieces of
   its gradient that are kept in memory are copied into the last of them. *)
SwapInDone(g, slot) ==
    /\ ops' \in [sync_in : Operations, async_in : Operations,
                 sync_out : Operations, async_out : Operations]
    /\ \A x \in {"sync_in", "async_in", "sync_out", "async_out"} : x # slot => ops'[x] = ops[x]
    /\ ops'[slot].group = g
    /\ Len(ops'[slot].buffers) = info[g].tensors + (IF batch = 0 THEN 0 ELSE 1)
    /\ ops'[slot].states = SubSeq(ops'[slot].buffers, 1, info[g].tensors)
    /\ ops'[slot].buffers \in Seq(Buffers) /\ info[g].tensors <= Len(ops'[slot].buffers)
    /\ ops'[slot].count = Len(ReadsFor(g, Allocated(free, ReadCount(g))))
    /\ ops'[slot].buffers = Allocated(free, ReadCount(g))
    /\ free' \in Seq(Buffers) /\ free = free' \o ops'[slot].buffers

(* swap_in takes its buffers from the free ones: enough for the states and the
   gradient. *)
LEMMA SwapInTakes ==
    ASSUME SwapInv, ~HasBuffers, ~Gathering, NEW g \in cfg.swappable, ~Taken(g),
           NEW slot \in {"sync_in", "async_in"}, Len(free) >= NumStates + 1,
           SwapIn(g, ops, slot)
    PROVE  SwapInDone(g, slot)
<1>1. /\ ReadCount(g) = info[g].tensors + (IF batch = 0 THEN 0 ELSE 1)
      /\ g \in Groups /\ batch \in Nat
  BY GradientFacts
<1>2. TypeOK /\ info[g].tensors \in Nat /\ info[g].tensors >= 1 /\ info[g].tensors <= NumStates
  BY <1>1, Parts, Types
<1>3. free \in Seq(Buffers) /\ CanAllocate(free, ReadCount(g))
  BY <1>2 DEF SwapIn, TypeOK
<1>4. ReadCount(g) \in Nat /\ ReadCount(g) >= info[g].tensors  BY <1>1, <1>2
<1>5. PICK bs : bs = Allocated(free, ReadCount(g))  OBVIOUS
<1>6. PICK fr : fr = Remaining(free, ReadCount(g))  OBVIOUS
<1>7. /\ bs \in Seq(Buffers) /\ Len(bs) = ReadCount(g) /\ fr \in Seq(Buffers) /\ free = fr \o bs
  BY ZenonT(60), <1>3, <1>4, <1>5, <1>6, PoolSplit
<1>8. PICK n : n = Len(ReadsFor(g, bs))  OBVIOUS
<1>9. n \in Nat  BY <1>1, <1>2, <1>4, <1>7, <1>8, ReadsForFacts
<1>10. PICK st : st = SubSeq(bs, 1, info[g].tensors)  OBVIOUS
<1>11. st \in Seq(Buffers)
  <2>1. PICK m : m = info[g].tensors  OBVIOUS
  <2>2. m \in Int /\ 1 \in Int /\ \A i \in 1 .. m : bs[i] \in Buffers
    <3>1. m \in Nat /\ m <= Len(bs) /\ Len(bs) \in Nat
      BY <1>2, <1>4, <1>7, <2>1
    <3>2. \A i \in 1 .. Len(bs) : bs[i] \in Buffers  BY <1>7
    <3> QED  BY <3>1, <3>2
  <2>3. SubSeq(bs, 1, m) \in Seq(Buffers)  BY <2>2, SubSeqProperties
  <2> QED  BY <1>10, <2>1, <2>3
<1>12. PICK op : op = [group |-> g, buffers |-> bs, states |-> st, count |-> n]
  OBVIOUS
<1>13. op \in Operations  BY <1>1, <1>7, <1>9, <1>11, <1>12 DEF Operations
<1>14. ops' = [ops EXCEPT ![slot] = op] /\ free' = fr
  BY <1>5, <1>6, <1>8, <1>10, <1>12 DEF SwapIn
<1>15. /\ ops' \in [sync_in : Operations, async_in : Operations,
                    sync_out : Operations, async_out : Operations]
       /\ ops'[slot] = op
       /\ \A x \in {"sync_in", "async_in", "sync_out", "async_out"} : x # slot => ops'[x] = ops[x]
  <2>1. ops \in [sync_in : Operations, async_in : Operations,
                    sync_out : Operations, async_out : Operations]
    BY <1>2 DEF TypeOK
  <2>2. CASE slot = "sync_in"  BY <1>13, <1>14, <2>1, <2>2
  <2>3. CASE slot = "async_in"  BY <1>13, <1>14, <2>1, <2>3
  <2> QED  BY <2>2, <2>3
<1>16. op.group = g /\ op.buffers = bs /\ op.states = st /\ op.count = n
  BY <1>12
<1>17. /\ ops'[slot].group = g /\ ops'[slot].buffers = bs /\ ops'[slot].states = st
       /\ ops'[slot].count = n
  BY <1>15, <1>16
<1>18. info[g].tensors <= Len(bs)  BY <1>4, <1>7, <1>2
<1> QED
  BY <1>1, <1>5, <1>7, <1>8, <1>10, <1>14, <1>15, <1>17, <1>18 DEF SwapInDone

(* swap_in copies the gradients that were kept in memory, to its own buffer
   only. *)
LEMMA SwapInCopies ==
    ASSUME SwapInv, ~HasBuffers, ~Gathering, NEW g \in cfg.swappable, ~Taken(g),
           NEW slot \in {"sync_in", "async_in"}, SwapInDone(g, slot), SwapIn(g, ops, slot)
    PROVE  /\ memory' \in [Buffers -> [Pieces -> [Threads -> Tensors]]]
           /\ Last(ops'[slot].buffers) \in Buffers
           /\ Last(ops'[slot].buffers) \in ToSet(ops'[slot].buffers)
           /\ ToSet(ops'[slot].buffers) \subseteq ToSet(free)
           /\ \A b \in Buffers : b # Last(ops'[slot].buffers) => memory'[b] = memory[b]
           /\ batch > 0 => \A p \in Pieces \ info[g].swapped, t \in Threads :
                 memory'[Last(ops'[slot].buffers)][p][t] = <<GradFile(g, p), batch>>
           /\ info' \in [Groups -> Parameters]
           /\ \A h \in Groups :
                 /\ info'[h].tensors = info[h].tensors
                 /\ info'[h].swapped = info[h].swapped
                 /\ info'[h].unswapped = IF h = g THEN {} ELSE info[h].unswapped
<1>1. /\ batch > 0 => \A p \in Pieces \ info[g].swapped :
                              \A n : <<GradFile(g, p), n>> \in info[g].unswapped <=> n = batch
      /\ g \in Groups /\ batch \in Nat
  BY GradientFacts
<1>2. TypeOK /\ info[g].unswapped \subseteq GradFiles \X Nat
      /\ info[g].tensors \in Nat /\ info[g].tensors >= 1
  BY <1>1, Parts, Types
<1>3. PICK bs : bs = ops'[slot].buffers  OBVIOUS
<1>4. /\ bs \in Seq(Buffers) /\ info[g].tensors <= Len(bs) /\ free = free' \o bs /\ free' \in Seq(Buffers)
      /\ bs = Allocated(free, ReadCount(g))
  BY <1>3 DEF SwapInDone
<1>5. Last(bs) \in Buffers /\ Last(bs) \in ToSet(bs) /\ ToSet(bs) \subseteq ToSet(free)
  <2>1. Len(bs) \in Nat /\ Len(bs) >= 1  BY <1>2, <1>4
  <2>2. bs # << >>  BY <2>1
  <2>3. Last(bs) \in Buffers /\ ToSet(bs) = ToSet(Front(bs)) \cup {Last(bs)}
    BY <1>4, <2>2, FrontAndLast
  <2>4. ToSet(free) = ToSet(free') \cup ToSet(bs)
    <3>1. PICK fr : fr = free'  OBVIOUS
    <3>2. fr \in Seq(Buffers) /\ bs \in Seq(Buffers) /\ free = fr \o bs
      BY <1>4, <3>1
    <3>3. ToSet(fr \o bs) = ToSet(fr) \cup ToSet(bs)  BY <3>2, InConcat
    <3> QED  BY <3>1, <3>2, <3>3
  <2> QED  BY <2>3, <2>4
<1>6. PICK b : b = Last(bs)  OBVIOUS
<1> DEFINE kept(p) == {v \in info[g].unswapped : v[1] = GradFile(g, p)}
           row == [p \in Pieces |-> IF kept(p) = {} THEN memory[b][p]
                                    ELSE [t \in Threads |-> CHOOSE v \in kept(p) : TRUE]]
<1>7. memory \in [Buffers -> [Pieces -> [Threads -> Tensors]]]
  BY <1>2 DEF TypeOK
<1>8. memory' = [memory EXCEPT ![b] = row]
  BY <1>4, <1>5, <1>6, <1>7 DEF SwapIn, CopiedInto
<1>9. \A p \in Pieces : kept(p) # {} => (CHOOSE v \in kept(p) : TRUE) \in kept(p)
  OBVIOUS
<1>10. \A p \in Pieces : \A v \in kept(p) : v \in Tensors
  <2>1. GradFiles \X Nat \subseteq Tensors  BY FileFacts DEF Tensors
  <2> QED  BY <1>2, <2>1
<1>11. row \in [Pieces -> [Threads -> Tensors]]
  <2> HIDE DEF kept
  <2>1. b \in Buffers /\ memory[b] \in [Pieces -> [Threads -> Tensors]]
    BY <1>5, <1>6, <1>7
  <2>2. \A p \in Pieces : kept(p) # {} => [t \in Threads |-> CHOOSE v \in kept(p) : TRUE] \in [Threads -> Tensors]
    BY <1>9, <1>10
  <2> QED  BY <2>1, <2>2
<1>12. batch > 0 => \A p \in Pieces \ info[g].swapped, t \in Threads :
                       row[p][t] = <<GradFile(g, p), batch>>
  <2> SUFFICES ASSUME batch > 0, NEW p \in Pieces \ info[g].swapped, NEW t \in Threads
               PROVE  row[p][t] = <<GradFile(g, p), batch>>
    OBVIOUS
  <2>1. \A n : <<GradFile(g, p), n>> \in info[g].unswapped <=> n = batch
    BY <1>1
  <2>2. <<GradFile(g, p), batch>> \in kept(p)
    <3>1. <<GradFile(g, p), batch>>[1] = GradFile(g, p)  OBVIOUS
    <3> QED  BY <2>1, <3>1
  <2>3. \A v \in kept(p) : v = <<GradFile(g, p), batch>>
    <3> TAKE v \in kept(p)
    <3>1. v \in GradFiles \X Nat /\ v[1] = GradFile(g, p) /\ v \in info[g].unswapped
      BY <1>2
    <3>2. v = <<GradFile(g, p), v[2]>>  BY <3>1
    <3> QED  BY <2>1, <3>1, <3>2
  <2>4. kept(p) # {} /\ (CHOOSE v \in kept(p) : TRUE) \in kept(p)
    BY <1>9, <2>2
  <2>5. row[p] = [u \in Threads |-> CHOOSE v \in kept(p) : TRUE]  BY <2>4
  <2> HIDE DEF row, kept
  <2>6. row[p][t] = CHOOSE v \in kept(p) : TRUE  BY <2>5
  <2> QED  BY <2>3, <2>4, <2>6
<1>13. PICK u \in SUBSET (GradFiles \X Nat) : u = {} /\ info' = [info EXCEPT ![g].unswapped = u]
  <2>1. {} \in SUBSET (GradFiles \X Nat) /\ info' = [info EXCEPT ![g].unswapped = {}]
    BY DEF SwapIn
  <2> QED  BY <2>1
<1>14. /\ info' \in [Groups -> Parameters]
       /\ \A h \in Groups :
                 /\ info'[h].tensors = info[h].tensors
                 /\ info'[h].swapped = info[h].swapped
                 /\ info'[h].unswapped = IF h = g THEN {} ELSE info[h].unswapped
  BY SMTT(60), <1>1, <1>2, <1>13, UnswappedField
<1> HIDE DEF row, kept
<1>15. /\ memory' \in [Buffers -> [Pieces -> [Threads -> Tensors]]]
       /\ memory'[b] = row
       /\ \A c \in Buffers : c # b => memory'[c] = memory[c]
  BY <1>5, <1>6, <1>7, <1>8, <1>11
<1> QED  BY <1>3, <1>5, <1>6, <1>12, <1>14, <1>15

(* A step of the optimizer does not touch the gradient swapper, which has no
   buffer. *)
LEMMA NoGradientsKept ==
    ASSUME TypeOK, GradsOK, ~HasBuffers, UNCHANGED <<cfg, grads>>, at' \notin {"no_space", "flush"}
    PROVE  GradsOK' /\ Filling' /\ ~HasBuffers'
<1>1. /\ \A b \in Buffers : grads.fill[b] = << >>
      /\ Buffers' = Buffers
  BY NoGradients DEF Buffers
<1>2. DOMAIN << >> = {}  OBVIOUS
<1>3. Filling'  BY <1>1, <1>2 DEF Filling
<1>4. Partition(grads)'  BY <1>1 DEF GradsOK, Partition, Buffers
<1> QED  BY <1>3, <1>4 DEF GradsOK, HasBuffers

(* When the gradient swapper has no buffers, only states are being written. *)
LEMMA WritesOfStates ==
    ASSUME SwapInv, ~HasBuffers
    PROVE  \A t \in Threads : \A i \in DOMAIN writes.work[t] :
               /\ Writing # None /\ writes.work[t][i].buffer \in ToSet(Writing.buffers)
               /\ writes.work[t][i].buffer \in Buffers
               /\ \E k \in States : writes.work[t][i].file = StateFile(Writing.group, k)
               /\ \E h, k : writes.work[t][i].file = StateFile(h, k)
<1> TAKE t \in Threads
<1> TAKE i \in DOMAIN writes.work[t]
<1>1. TypeOK /\ Progress /\ OpsOK /\ GradsOK /\ WritesOK /\ Filling  BY Parts
<1>2. /\ writes.work[t][i].buffer \in Buffers
      /\ Writing # None /\ writes.work[t][i].buffer \in ToSet(Writing.buffers)
      /\ \E k \in States : writes.work[t][i].file = StateFile(Writing.group, k)
  BY <1>1, WriteFacts
<1> QED  BY <1>2

(* Gradients in their files stay there while only states are written. *)
LEMMA LargeStill ==
    ASSUME SwapInv, ~HasBuffers, TypeOK', UNCHANGED <<cfg, grads, disk>>,
           arrived' = {} \/ (arrived' = arrived /\ batch' = batch),
           \A g \in Groups : info'[g].swapped = info[g].swapped,
           \A t \in Threads : \A i \in DOMAIN writes'.work[t] :
               \E h, k : writes'.work[t][i].file = StateFile(h, k)
    PROVE  LargeKept'
<1>1. grads'.current = 0  BY Parts, NoGradients
<1>2. \A g \in Groups, p \in Pieces : <<g, p>> \in arrived' \cap cfg'.large =>
          /\ p \in info'[g].swapped
          /\ \A t \in Threads : disk'[GradFile(g, p)][t] = <<GradFile(g, p), batch'>>
  BY LargeOnDisk
<1> QED  BY <1>1, <1>2, LargeKeptThere

(* What stays when a sub-group is requested. *)
RequestStep ==
    /\ at \in {"swap_in", "wait_in"} /\ at' \in {"wait_in", "update"} /\ raised' = FALSE
    /\ UNCHANGED <<cfg, group, batch, arrived, updates, grads, writes, disk>>
TakenGrows(g) == Taken(g)' /\ \A h \in Groups : Taken(h) => Taken(h)'

(* swap_in keeps the invariant, whether it is for the sub-group at hand or for
   the next one. *)
LEMMA SwapInKeeps ==
    ASSUME SwapInv, ~HasBuffers, NEW g \in cfg.swappable, ~Taken(g), RequestStep, TakenGrows(g),
           NEW slot \in {"sync_in", "async_in"}, Len(free) >= NumStates + 1,
           ops[slot] = None, SwapIn(g, ops, slot), Reading' = ops'[slot],
           NEW h, HandleOK(h), h.pending = 0,
           reads' = Submit(h, ReadsFor(g, Allocated(free, ReadCount(g))))
    PROVE  /\ TypeOK' /\ Pool' /\ Created' /\ OpsOK' /\ ReadsOK' /\ WritesOK'
           /\ StatesOnDisk' /\ GradsOK' /\ Filling' /\ Remembered' /\ SmallKept' /\ LargeKept'
           /\ SwapInDone(g, slot)
<1>1. /\ at \in {"swap_in", "wait_in"} /\ at' \in {"wait_in", "update"} /\ raised' = FALSE
      /\ UNCHANGED <<cfg, group, batch, arrived, updates, grads, writes, disk>>
      /\ ~Gathering /\ ~Gathering'
  BY DEF RequestStep, Gathering
<1>2. SwapInDone(g, slot)  BY <1>1, SwapInTakes
<1>3. /\ memory' \in [Buffers -> [Pieces -> [Threads -> Tensors]]]
      /\ Last(ops'[slot].buffers) \in Buffers
      /\ Last(ops'[slot].buffers) \in ToSet(ops'[slot].buffers)
      /\ ToSet(ops'[slot].buffers) \subseteq ToSet(free)
      /\ \A b \in Buffers : b # Last(ops'[slot].buffers) => memory'[b] = memory[b]
      /\ batch > 0 => \A p \in Pieces \ info[g].swapped, t \in Threads :
            memory'[Last(ops'[slot].buffers)][p][t] = <<GradFile(g, p), batch>>
      /\ info' \in [Groups -> Parameters]
      /\ \A e \in Groups :
            /\ info'[e].tensors = info[e].tensors
            /\ info'[e].swapped = info[e].swapped
            /\ info'[e].unswapped = IF e = g THEN {} ELSE info[e].unswapped
  BY <1>1, <1>2, SwapInCopies
<1>4. TypeOK /\ Pool /\ OpsOK /\ GradsOK /\ g \in Groups /\ group \in Groups
  BY Parts, Types
<1>5. PICK rs : rs = ReadsFor(g, Allocated(free, ReadCount(g)))  OBVIOUS
<1>6. PICK op : op = ops'[slot]  OBVIOUS
<1>7. /\ rs \in Seq(Requests) /\ Len(rs) \in Nat /\ ToSet(rs) = Wanted(op)
      /\ op.group = g /\ op.count = Len(rs)
  <2>1. /\ op.group = g /\ op.buffers \in Seq(Buffers) /\ info[g].tensors <= Len(op.buffers)
        /\ op.count = Len(rs) /\ rs = ReadsFor(g, op.buffers)
    BY <1>2, <1>5, <1>6 DEF SwapInDone
  <2>2. PICK bs : bs = op.buffers  OBVIOUS
  <2>3. bs \in Seq(Buffers) /\ info[g].tensors <= Len(bs) /\ rs = ReadsFor(g, bs)
    BY <2>1, <2>2
  <2>4. /\ ReadsFor(g, bs) \in Seq(Requests) /\ Len(ReadsFor(g, bs)) \in Nat
        /\ ToSet(ReadsFor(g, bs)) = Wanted(op)
    BY <1>4, <2>1, <2>2, <2>3, ReadsForFacts
  <2> QED  BY <2>1, <2>3, <2>4
<1>8. /\ HandleOK(reads') /\ reads'.pending = Len(rs)
      /\ \A t \in Threads : reads'.work[t] = rs
  <2>1. \A t \in Threads : h.work[t] = << >>  BY Idle
  <2>2. reads' = Submit(h, rs)  BY <1>5
  <2>3. PICK k : k = Submit(h, rs)  OBVIOUS
  <2>4. /\ HandleOK(k) /\ k.pending = h.pending + Len(rs)
        /\ \A t \in Threads : k.work[t] = h.work[t] \o rs
    BY <1>7, <2>3, SubmitKeeps
  <2>5. << >> \o rs = rs  BY <1>7, ConcatEmptySeq
  <2>6. k.pending = Len(rs)  BY <1>7, <2>4
  <2>7. \A t \in Threads : k.work[t] = rs  BY <2>1, <2>4, <2>5
  <2>8. reads' = k  BY <2>2, <2>3
  <2> QED  BY <2>4, <2>6, <2>7, <2>8
<1>9. TypeOK'
  <2>1. HandleOK(writes)'  BY <1>1, <1>4, HandleSame DEF TypeOK
  <2>2. HandleOK(reads)'  BY <1>1, <1>8 DEF HandleOK, Requests, Buffers
  <2>3. at' \in Places  BY <1>1 DEF Places
  <2>4. free' \in Seq(Buffers)  BY <1>2 DEF SwapInDone
  <2>5. ops' \in [sync_in : Operations, async_in : Operations,
                  sync_out : Operations, async_out : Operations]
    BY <1>2 DEF SwapInDone
  <2> QED
    BY ZenonT(60), <1>1, <1>3, <1>4, <2>1, <2>2, <2>3, <2>4, <2>5
       DEF TypeOK, Operations, Swappers, Buffers
<1>10. Pool'
  <2>1. PICK bs : bs = ops'[slot].buffers  OBVIOUS
  <2>2. PICK fr : fr = free'  OBVIOUS
  <2>3. fr \in Seq(Buffers) /\ bs \in Seq(Buffers) /\ free = fr \o bs
    BY <1>2, <2>1, <2>2 DEF SwapInDone
  <2>4. "free" \in Slots /\ slot \in Slots /\ "free" # slot  BY DEF Slots
  <2>5. Holding["free"] = fr \o bs /\ Holding[slot] = << >> /\ << >> \o bs = bs
    <3>1. ops[slot].buffers = << >>  BY NoneFacts
    <3>2. Holding["free"] = free /\ Holding[slot] = ops[slot].buffers
      BY <1>4, HoldingFacts
    <3> QED  BY <2>3, <3>1, <3>2, ConcatEmptySeq
  <2>6. Holding'["free"] = fr /\ Holding'[slot] = bs
    BY <2>1, <2>2, <2>4 DEF Holding
  <2>7. \A z \in Slots : z # "free" /\ z # slot => Holding'[z] = Holding[z]
    BY <1>1, <1>2 DEF Holding, Slots, SwapInDone
  <2>8. Holding'[slot] = Holding[slot] \o bs  BY <2>5, <2>6
  <2> QED  BY <1>1, <1>4, <2>3, <2>4, <2>5, <2>6, <2>7, <2>8, PoolMoved
<1>11. \A e \in cfg.swappable : info'[e].tensors = info[e].tensors /\ e \in Groups
  BY <1>3, <1>4, Types
<1>12. Created'  BY <1>1, <1>11, Parts DEF Created
<1>13. InOp(ops[slot])'  BY <1>1, <1>2, <1>3, <1>4 DEF InOp, SwapInDone
<1>14. OpsOK'
  <2>1. \A x \in {"sync_in", "async_in", "sync_out", "async_out"} : x # slot => ops'[x] = ops[x]
    BY <1>2 DEF SwapInDone
  <2>2. ASSUME NEW x \in {"sync_in", "async_in"}, x # slot, ops[x] # None
        PROVE  InOp(ops[x])'
    <3>1. InOp(ops[x])  BY <1>4, <2>2 DEF OpsOK
    <3>2. ops[x].group \in Groups
      <4>1. Progress /\ group \in Groups  BY <1>4, Parts
      <4>2. Following(group) # {} => First(Following(group)) \in Groups
        <5>1. cfg \in Configs /\ group \in cfg.swappable  BY <1>4 DEF TypeOK
        <5> QED  BY <5>1, FollowingFacts, ConfigFacts
      <4> QED  BY <2>2, <4>1, <4>2 DEF Progress
    <3>3. info'[ops[x].group].tensors = info[ops[x].group].tensors /\ ops'[x] = ops[x] /\ batch' = batch
      BY <1>1, <1>3, <2>1, <2>2, <3>2
    <3> QED  BY <3>1, <3>3 DEF InOp
  <2>3. \A x \in {"sync_in", "async_in"} : ops'[x] # None => InOp(ops[x])'
    BY <1>13, <2>1, <2>2
  <2>4. ops'.sync_out = ops.sync_out /\ ops'.async_out = ops.async_out  BY <2>1
  <2>5. None' = None  BY DEF None
  <2> QED  BY <1>4, <2>3, <2>4, <2>5 DEF OpsOK, OutOp
<1>15. ReadsOK'
  <2>2. Reading' # None /\ Reading' = op  BY <1>4, <1>6, <1>7, Types, NoneFacts
  <2>1. Wanted(Reading)' = Wanted(op)
    <3>1. info'[op.group].tensors = info[op.group].tensors /\ info'[op.group].swapped = info[op.group].swapped
      BY <1>3, <1>4, <1>7
    <3>2. Wanted(Reading)' =
            {Request(TRUE, op.buffers[k], Pieces, StateFile(op.group, k)) : k \in 1 .. info'[op.group].tensors}
            \cup {Request(TRUE, Last(op.buffers), {p}, GradFile(op.group, p)) : p \in info'[op.group].swapped}
      BY <2>2 DEF Wanted
    <3> QED  BY <3>1, <3>2 DEF Wanted
  <2>3. \A t \in Threads : \A i \in DOMAIN reads'.work[t] : reads'.work[t][i] \in Wanted(op)
    BY <1>7, <1>8 DEF ToSet
  <2>4. \A t \in Threads : \A r \in Wanted(op) : \E i \in DOMAIN reads'.work[t] : reads'.work[t][i] = r
    BY <1>7, <1>8 DEF ToSet
  <2>5. Copied(Reading)'
    <3>1. \A e, p : Newest(GradFile(e, p))' = <<GradFile(e, p), batch>>
      BY <1>1 DEF Newest, GradFile
    <3>2. batch > 0 => \A p \in Pieces \ info'[g].swapped, t \in Threads :
             memory'[Last(op.buffers)][p][t] = Newest(GradFile(g, p))'
      <4>1. info'[g].swapped = info[g].swapped  BY <1>3, <1>4
      <4>2. \A p : Newest(GradFile(g, p))' = <<GradFile(g, p), batch>>  BY <3>1
      <4>3. batch > 0 => \A p \in Pieces \ info[g].swapped, t \in Threads :
               memory'[Last(op.buffers)][p][t] = <<GradFile(g, p), batch>>
        BY <1>3, <1>6
      <4> QED  BY <4>1, <4>2, <4>3
    <3>3. \A p : Newest(GradFile(Reading.group, p))' = Newest(GradFile(g, p))'
      BY <1>7, <2>2 DEF Newest
    <3> QED  BY <1>1, <1>7, <2>2, <3>2, <3>3 DEF Copied
  <2>6. reads'.pending = op.count  BY <1>7, <1>8
  <2> QED  BY <2>1, <2>2, <2>3, <2>4, <2>5, <2>6 DEF ReadsOK, None
<1>16. Writing' = Writing  BY <1>2 DEF Writing, SwapInDone, None
<1>17. \A t \in Threads : \A i \in DOMAIN writes.work[t] :
           /\ Writing # None /\ writes.work[t][i].buffer \in ToSet(Writing.buffers)
           /\ writes.work[t][i].buffer \in Buffers
           /\ \E e, k : writes.work[t][i].file = StateFile(e, k)
  BY WritesOfStates
<1>18. Writing # None => \A b \in ToSet(Writing.buffers) : b \notin ToSet(free)
  <2> SUFFICES ASSUME Writing # None, NEW b \in ToSet(Writing.buffers)
               PROVE  b \notin ToSet(free)
    OBVIOUS
  <2>1. PICK x \in {"sync_out", "async_out"} : Writing.buffers = Holding[x]
    BY Parts, ReadingFacts
  <2>2. Holding["free"] = free /\ x \in Slots /\ "free" \in Slots /\ x # "free"
    BY <1>4, HoldingFacts DEF Slots
  <2>3. ASSUME b \in ToSet(free) PROVE FALSE
    <3>1. b \in ToSet(Holding[x]) /\ b \in ToSet(Holding["free"])
      BY <2>1, <2>2, <2>3
    <3>2. Owned(Holding, Buffers, cfg.buffers)  BY <1>4 DEF Pool
    <3>3. b # b  BY <2>2, <3>1, <3>2, Apart
    <3> QED  BY <3>3
  <2> QED  BY <2>3
<1>19. WritesOK'
  <2>1. \A f : Newest(f)' = Newest(f)  BY <1>1, NewestKept
  <2>2. \A t \in Threads : \A i \in DOMAIN writes.work[t] :
            memory'[writes.work[t][i].buffer] = memory[writes.work[t][i].buffer]
    BY <1>3, <1>17, <1>18
  <2> QED  BY <1>1, <1>16, <2>1, <2>2, Parts, WritesKept
<1>20. StatesOnDisk'
  <2>1. at # "swap_out"  BY <1>1
  <2> QED  BY <1>1, <1>3, <1>4, <2>1, Parts, StatesSame
<1>21. GradsOK' /\ Filling'  BY <1>1, <1>4, NoGradientsKept
<1>22. Remembered'
  <2>1. Remembered  BY Parts
  <2>2. \A e \in Groups : info'[e].swapped = info[e].swapped /\ info'[e].unswapped \subseteq info[e].unswapped
    BY <1>3
  <2> QED  BY <1>1, <2>1, <2>2 DEF Remembered
<1>23. SmallKept'
  <2> SUFFICES ASSUME NEW e \in Groups, NEW p \in Pieces, <<e, p>> \in arrived \ cfg.large, ~Taken(e)'
               PROVE  \A n : <<GradFile(e, p), n>> \in info'[e].unswapped <=> n = batch
    BY <1>1 DEF SmallKept
  <2>1. e # g /\ ~Taken(e)  BY DEF TakenGrows
  <2>2. info'[e].unswapped = info[e].unswapped  BY <1>3, <2>1
  <2> QED  BY <2>1, <2>2, Parts DEF SmallKept
<1>24. LargeKept'
  <2>1. \A t \in Threads : \A i \in DOMAIN writes'.work[t] :
               \E e, k : writes'.work[t][i].file = StateFile(e, k)
    BY <1>1, <1>17
  <2> QED  BY <1>1, <1>3, <1>9, <2>1, LargeStill
<1> QED
  BY <1>2, <1>9, <1>10, <1>12, <1>14, <1>15, <1>19, <1>20, <1>21, <1>22, <1>23, <1>24

(* Beginning to swap a sub-group in keeps the invariant. *)
LEMMA BeginSwapInKeeps ==
    ASSUME SwapInv, BeginSwapIn
    PROVE  SwapInv'
<1>1. /\ at = "swap_in" /\ ~HasBuffers /\ at' = "wait_in"
      /\ UNCHANGED <<cfg, group, batch, arrived, updates, grads, writes, disk>>
      /\ ~Gathering /\ ~Gathering'
  BY DEF BeginSwapIn, Gathering
<1>2. TypeOK /\ Pool /\ Progress /\ OpsOK /\ GradsOK /\ group \in cfg.swappable /\ group \in Groups
      /\ group \in Nat
  BY Parts, Types DEF TypeOK
<1>3. /\ ops.sync_in = None /\ ops.sync_out = None
      /\ ops.async_in # None => ops.async_in.group = group
      /\ Reading = ops.async_in
  BY <1>1, <1>2 DEF Progress, Reading
<1>4. \A x \in {"sync_in", "async_in", "sync_out", "async_out"} : ops[x] \in Operations /\ None \in Operations
  BY <1>2, Types, NoneFacts
<1>5. CASE ops.async_in # None
  <2>1. /\ ops' = [ops EXCEPT !.sync_in = ops.async_in, !.async_in = None]
        /\ UNCHANGED <<free, info, reads, memory>> /\ raised' = FALSE
    BY <1>3, <1>5 DEF BeginSwapIn
  <2>2. /\ ops' \in [sync_in : Operations, async_in : Operations,
                     sync_out : Operations, async_out : Operations]
        /\ ops'.sync_in = ops.async_in /\ ops'.async_in = None
        /\ ops'.sync_out = None /\ ops'.async_out = ops.async_out
    <3>1. ops \in [sync_in : Operations, async_in : Operations,
                     sync_out : Operations, async_out : Operations]
      BY <1>2 DEF TypeOK
    <3> QED  BY <1>3, <1>4, <2>1, <3>1
  <2>3. Reading' = Reading /\ Writing' = Writing /\ None' = None
    BY <1>1, <1>3, <2>2 DEF Reading, Writing, None
  <2>4. TypeOK'
    <3>1. HandleOK(writes)' /\ HandleOK(reads)'
      <4>1. HandleOK(writes) /\ HandleOK(reads)  BY <1>2 DEF TypeOK
      <4> QED  BY <1>1, <2>1, <4>1, HandleSame
    <3>2. at' \in Places  BY <1>1 DEF Places
    <3> QED
      BY ZenonT(60), <1>1, <1>2, <2>1, <2>2, <3>1, <3>2
         DEF TypeOK, Operations, Swappers, Buffers
  <2>5. Pool'
    <3>1. PICK bs : bs = ops.async_in.buffers  OBVIOUS
    <3>2. bs \in Seq(Buffers) /\ << >> \in Seq(Buffers) /\ << >> \o bs = bs
      <4>1. bs \in Seq(Buffers)  BY <1>2, <3>1, Types
      <4> QED  BY <4>1, ConcatEmptySeq
    <3>3. Holding["async_in"] = << >> \o bs /\ Holding["sync_in"] = << >>
      BY <1>2, <1>3, <3>1, <3>2, HoldingFacts, NoneFacts
    <3>4. Holding'["async_in"] = << >> /\ Holding'["sync_in"] = Holding["sync_in"] \o bs
      BY <2>2, <3>1, <3>2, <3>3, NoneFacts DEF Holding, Slots
    <3>5. \A z \in Slots : z # "async_in" /\ z # "sync_in" => Holding'[z] = Holding[z]
      BY <1>1, <1>3, <2>1, <2>2 DEF Holding, Slots
    <3>6. "async_in" \in Slots /\ "sync_in" \in Slots /\ "async_in" # "sync_in"
      BY DEF Slots
    <3> QED  BY ZenonT(60), <1>1, <1>2, <3>2, <3>3, <3>4, <3>5, <3>6, PoolMoved
  <2>6. Progress'
    <3>1. Following(group)' = Following(group) /\ HasBuffers' = HasBuffers
      BY <1>1 DEF Following, HasBuffers
    <3> QED  BY <1>1, <1>2, <1>3, <1>5, <2>2, <2>3, <3>1 DEF Progress
  <2>7. Created'  BY <1>1, <2>1, Parts DEF Created
  <2>8. OpsOK'
    <3>1. InOp(ops.async_in)  BY <1>2, <1>5 DEF OpsOK
    <3>2. InOp(ops.sync_in)'  BY <1>1, <2>1, <2>2, <3>1 DEF InOp
    <3> QED  BY <1>2, <2>2, <2>3, <3>2 DEF OpsOK, OutOp
  <2>9. ReadsOK'
    <3>1. Wanted(Reading)' = Wanted(Reading)  BY <2>1, <2>3 DEF Wanted
    <3>2. \A f : Newest(f)' = Newest(f)  BY <1>1, NewestKept
    <3>3. \A r, t : Arrives(r, t)' = Arrives(r, t)  BY <2>1, <3>2 DEF Arrives
    <3>4. Copied(Reading)' = Copied(Reading)
      BY <1>1, <2>1, <2>3, <3>2 DEF Copied
    <3> QED  BY <2>1, <2>3, <3>1, <3>3, <3>4, Parts DEF ReadsOK
  <2>10. InMemory'  BY <1>1 DEF InMemory
  <2>11. WritesOK'
    <3>1. \A f : Newest(f)' = Newest(f)  BY <1>1, NewestKept
    <3> QED  BY <1>1, <2>1, <2>3, <3>1, Parts, WritesKept
  <2>12. StatesOnDisk'
    <3>1. at # "swap_out"  BY <1>1
    <3> QED  BY <1>1, <1>2, <2>1, <3>1, Parts, StatesSame
  <2>13. GradsOK' /\ Filling'  BY <1>1, <1>2, NoGradientsKept
  <2>14. Remembered'  BY <1>1, <2>1, Parts DEF Remembered
  <2>15. SmallKept'
    <3>1. \A h : Taken(h) => Taken(h)'  BY <1>1, <1>3 DEF Taken
    <3> QED  BY <1>1, <2>1, <3>1, Parts DEF SmallKept
  <2>16. LargeKept'
    <3>1. \A t \in Threads : \A i \in DOMAIN writes'.work[t] :
               \E e, k : writes'.work[t][i].file = StateFile(e, k)
      BY <1>1, WritesOfStates
    <3> QED  BY <1>1, <2>1, <2>4, <3>1, LargeStill
  <2> QED
    BY <2>4, <2>5, <2>6, <2>7, <2>8, <2>9, <2>10, <2>11, <2>12, <2>13, <2>14, <2>15, <2>16 DEF SwapInv
<1>6. CASE ops.async_in = None
  <2>1. ~Taken(group)  BY <1>1, <1>2, <1>6 DEF Taken
  <2>2. /\ ReadCount(group) = info[group].tensors + (IF batch = 0 THEN 0 ELSE 1)
        /\ batch \in Nat
    BY <1>1, <1>2, <2>1, GradientFacts
  <2>3. Len(free) >= NumStates + 1 /\ Len(free) \in Nat
    BY <1>1, <1>2, <1>6, EnoughFree, OpLengths
  <2>4. CanAllocate(free, ReadCount(group))
    <3>1. info[group].tensors \in Nat /\ info[group].tensors <= NumStates /\ NumStates \in Nat
      BY <1>2, Types, Constants
    <3> QED  BY <2>2, <2>3, <3>1 DEF CanAllocate
  <2>5. /\ SwapIn(group, ops, "sync_in") /\ raised' = raised
        /\ reads' = Submit(reads, ReadsFor(group, Allocated(free, ReadCount(group))))
    BY <1>3, <1>6, <2>4 DEF BeginSwapIn
  <2>6. HandleOK(reads) /\ reads.pending = 0
    BY <1>2, <1>3, <1>6, Parts DEF TypeOK, ReadsOK
  <2>7. RequestStep  BY <1>1, <1>2, <2>5 DEF RequestStep, TypeOK
  <2>8. TakenGrows(group)  BY <1>1, <1>6 DEF Taken, TakenGrows
  <2>9. Reading' = ops'.sync_in  BY <1>1 DEF Reading
  <2>10. /\ TypeOK' /\ Pool' /\ Created' /\ OpsOK' /\ ReadsOK' /\ WritesOK'
         /\ StatesOnDisk' /\ GradsOK' /\ Filling' /\ Remembered' /\ SmallKept' /\ LargeKept'
         /\ SwapInDone(group, "sync_in")
    <3>1. ops["sync_in"] = None /\ Reading' = ops'["sync_in"] /\ "sync_in" \in {"sync_in", "async_in"}
      BY <1>3, <2>9
    <3> QED
      BY <1>1, <1>2, <2>1, <2>3, <2>5, <2>6, <2>7, <2>8, <3>1, SwapInKeeps
  <2>11. /\ ops'.sync_in.group = group /\ ops'.async_in = None /\ ops'.sync_out = None
         /\ ops'.async_out = ops.async_out
    BY <1>3, <1>6, <2>10 DEF SwapInDone
  <2>12. Progress'
    <3>1. Following(group)' = Following(group) /\ HasBuffers' = HasBuffers /\ None' = None
      BY <1>1 DEF Following, HasBuffers, None
    <3> QED  BY <1>1, <1>2, <1>3, <2>11, <3>1 DEF Progress
  <2>13. InMemory'  BY <1>1 DEF InMemory
  <2> QED  BY <2>10, <2>12, <2>13 DEF SwapInv
<1> QED  BY <1>5, <1>6

(* Waiting for the reads of a sub-group, and starting those of the next one,
   keeps the invariant. *)
LEMMA EndSwapInKeeps ==
    ASSUME SwapInv, EndSwapIn
    PROVE  SwapInv'
<1>1. /\ at = "wait_in" /\ at' = "update" /\ WaitReturns(reads)
      /\ UNCHANGED <<cfg, group, batch, arrived, updates, grads, writes, disk>>
      /\ ~Gathering /\ ~Gathering'
  BY DEF EndSwapIn, Gathering
<1>2. TypeOK /\ Pool /\ Progress /\ OpsOK /\ GradsOK /\ ReadsOK /\ group \in cfg.swappable
      /\ group \in Groups /\ group \in Nat /\ cfg \in Configs /\ HandleOK(reads)
  BY Parts, Types DEF TypeOK
<1>3. /\ ~HasBuffers /\ ops.sync_in # None /\ ops.sync_in.group = group
      /\ ops.async_in = None /\ ops.sync_out = None /\ Reading = ops.sync_in
  <2>1. group # 0  BY <1>2, Types
  <2> QED  BY <1>1, <1>2, <2>1, NoneFacts DEF Progress, Reading
<1>4. InOp(ops.sync_in) /\ ops.sync_in \in Operations
  BY <1>2, <1>3, Types DEF OpsOK
<1>5. reads.pending = ops.sync_in.count  BY <1>2, <1>3 DEF ReadsOK
<1>6. /\ HandleOK(Waited(reads)) /\ Waited(reads).pending = 0 /\ Waited(reads).work = reads.work
      /\ \A t \in Threads : reads.work[t] = << >>
  BY <1>1, <1>2, WaitedKeeps
<1>7. /\ \A t \in Threads : \A r \in Wanted(ops.sync_in) : Arrives(r, t)
      /\ Copied(ops.sync_in)
  <2>1. DOMAIN << >> = {}  OBVIOUS
  <2> QED  BY <1>2, <1>3, <1>6, <2>1 DEF ReadsOK
<1>8. /\ \A r \in Wanted(ops.sync_in) : /\ r.buffer \in ToSet(ops.sync_in.buffers)
                                        /\ r.buffer \in Buffers
      /\ Last(ops.sync_in.buffers) \in ToSet(ops.sync_in.buffers)
      /\ Last(ops.sync_in.buffers) \in Buffers
  <2>1. Remembered /\ InOp(ops["sync_in"]) /\ ops["sync_in"].group \in Groups
    BY <1>2, <1>3, <1>4, Parts
  <2>2. \A r \in Wanted(ops["sync_in"]) : r.buffer \in ToSet(ops["sync_in"].buffers) /\ r.buffer \in Buffers
    BY <1>2, <2>1, WantedFacts
  <2>3. /\ Last(ops.sync_in.buffers) \in ToSet(ops.sync_in.buffers)
        /\ Last(ops.sync_in.buffers) \in Buffers
    BY <1>2, <1>3, <1>4, StatesOf
  <2> QED  BY <2>2, <2>3
<1>9. Following(group)' = Following(group) /\ HasBuffers' = HasBuffers /\ None' = None
      /\ First(Following(group))' = First(Following(group))
  BY <1>1 DEF Following, First, HasBuffers, None
<1>10. \A f : Newest(f)' = Newest(f)  BY <1>1, NewestKept
<1>11. \A t \in Threads : \A i \in DOMAIN writes'.work[t] :
               \E e, k : writes'.work[t][i].file = StateFile(e, k)
  BY <1>1, <1>3, WritesOfStates
<1>12. CASE ~cfg.read \/ Following(group) = {}
  <2>1. reads' = Waited(reads) /\ UNCHANGED <<free, info, ops, memory, raised>>
    BY <1>5, <1>12 DEF EndSwapIn
  <2>2. Reading' = None /\ Writing' = Writing
    BY <1>1, <1>3, <1>9, <2>1 DEF Reading, Writing
  <2>3. TypeOK'
    <3>1. HandleOK(writes)' /\ HandleOK(reads)'
      <4>1. HandleOK(writes)'  BY <1>1, <1>2, HandleSame DEF TypeOK
      <4>2. HandleOK(reads)'
        BY <1>1, <1>6, <2>1 DEF HandleOK, Requests, Buffers
      <4> QED  BY <4>1, <4>2
    <3>2. at' \in Places  BY <1>1 DEF Places
    <3> QED
      BY <1>1, <1>2, <2>1, <3>1, <3>2 DEF TypeOK, Operations, Swappers, Buffers
  <2>4. Pool'  BY <1>1, <1>2, <2>1 DEF Pool, Holding, Slots, Buffers
  <2>5. Progress'  BY <1>1, <1>2, <1>3, <1>9, <2>1 DEF Progress
  <2>6. Created'  BY <1>1, <2>1, Parts DEF Created
  <2>7. OpsOK'  BY <1>1, <1>2, <1>9, <2>1 DEF OpsOK, OutOp, InOp
  <2>8. ReadsOK'  BY <1>6, <1>9, <2>1, <2>2 DEF ReadsOK
  <2>9. InMemory'
    <3>1. Wanted(ops.sync_in)' = Wanted(ops.sync_in)  BY <2>1 DEF Wanted
    <3>2. \A r, t : Arrives(r, t)' = Arrives(r, t)  BY <1>10, <2>1 DEF Arrives
    <3>3. Copied(ops.sync_in)' = Copied(ops.sync_in)
      BY <1>1, <1>10, <2>1 DEF Copied
    <3> QED  BY <1>1, <1>7, <3>1, <3>2, <3>3 DEF InMemory
  <2>10. WritesOK'  BY <1>1, <1>10, <2>1, <2>2, Parts, WritesKept
  <2>11. StatesOnDisk'
    <3>1. at # "swap_out"  BY <1>1
    <3> QED  BY <1>1, <1>2, <2>1, <3>1, Parts, StatesSame
  <2>12. GradsOK' /\ Filling'  BY <1>1, <1>2, <1>3, NoGradientsKept
  <2>13. Remembered'  BY <1>1, <2>1, Parts DEF Remembered
  <2>14. SmallKept'
    <3>1. \A h : Taken(h) => Taken(h)'  BY <1>1, <1>3 DEF Taken
    <3> QED  BY <1>1, <2>1, <3>1, Parts DEF SmallKept
  <2>15. LargeKept'  BY <1>1, <1>3, <1>11, <2>1, <2>3, LargeStill
  <2> QED
    BY <2>3, <2>4, <2>5, <2>6, <2>7, <2>8, <2>9, <2>10, <2>11, <2>12, <2>13, <2>14, <2>15 DEF SwapInv
<1>13. CASE ~(~cfg.read \/ Following(group) = {})
  <2>0. PICK next : next = First(Following(group))  OBVIOUS
  <2>1. next \in cfg.swappable /\ next > group /\ next \in Groups /\ next \in Nat
    BY <1>2, <1>13, <2>0, FollowingFacts, ConfigFacts, Constants
  <2>2. ~Taken(next)  BY <1>1, <1>2, <1>3, <2>1 DEF Taken
  <2>3. Len(free) >= NumStates + 1 /\ Len(free) \in Nat
    BY <1>1, <1>2, <1>3, <1>13, EnoughFree, OpLengths
  <2>4. CanAllocate(free, ReadCount(next))
    <3>1. info[next].tensors \in Nat /\ info[next].tensors <= NumStates /\ NumStates \in Nat
      BY <1>2, <2>1, Types, Constants
    <3>2. ReadCount(next) = info[next].tensors + (IF batch = 0 THEN 0 ELSE 1)
      BY <1>1, <1>3, <2>1, <2>2, GradientFacts
    <3> QED  BY <2>3, <3>1, <3>2 DEF CanAllocate
  <2>5. /\ SwapIn(next, ops, "async_in") /\ raised' = raised
        /\ reads' = Submit(Waited(reads), ReadsFor(next, Allocated(free, ReadCount(next))))
    <3>1. CanAllocate(free, ReadCount(First(Following(group))))  BY <2>0, <2>4
    <3>2. /\ SwapIn(First(Following(group)), ops, "async_in") /\ raised' = raised
          /\ reads' = Submit(Waited(reads), ReadsFor(First(Following(group)),
                             Allocated(free, ReadCount(First(Following(group))))))
      BY <1>3, <1>5, <1>13, <3>1 DEF EndSwapIn
    <3> QED  BY <2>0, <3>2
  <2>6. RequestStep  BY <1>1, <1>2, <2>5 DEF RequestStep, TypeOK
  <2>7. SwapInDone(next, "async_in")
    BY <1>1, <1>3, <2>1, <2>2, <2>3, <2>5, SwapInTakes
  <2>8. /\ ops'.async_in.group = next /\ ops'.sync_in = ops.sync_in /\ ops'.sync_out = None
        /\ ops'.async_out = ops.async_out /\ ops'.async_in # None
    <3>1. next # 0  BY <1>2, <2>1, Types
    <3> QED  BY <1>3, <2>7, <3>1, NoneFacts DEF SwapInDone
  <2>9. TakenGrows(next)  BY <1>1, <1>3, <1>9, <2>8 DEF Taken, TakenGrows
  <2>10. Reading' = ops'.async_in  BY <1>1 DEF Reading
  <2>11. /\ TypeOK' /\ Pool' /\ Created' /\ OpsOK' /\ ReadsOK' /\ WritesOK'
         /\ StatesOnDisk' /\ GradsOK' /\ Filling' /\ Remembered' /\ SmallKept' /\ LargeKept'
    <3>1. ops["async_in"] = None /\ Reading' = ops'["async_in"] /\ "async_in" \in {"sync_in", "async_in"}
      BY <1>3, <2>10
    <3>2. PICK h : h = Waited(reads)  OBVIOUS
    <3>3. /\ HandleOK(h) /\ h.pending = 0
          /\ reads' = Submit(h, ReadsFor(next, Allocated(free, ReadCount(next))))
      BY <1>6, <2>5, <3>2
    <3> QED
      BY <1>1, <1>2, <1>3, <2>1, <2>2, <2>3, <2>5, <2>6, <2>9, <3>1, <3>3, SwapInKeeps
  <2>12. Progress'
    <3>1. cfg.read /\ Following(group) # {} /\ next = First(Following(group))
      BY <1>2, <1>13, <2>0, ConfigFacts
    <3> QED  BY <1>1, <1>2, <1>3, <1>9, <2>8, <3>1 DEF Progress
  <2>13. InMemory'
    <3>1. /\ ToSet(ops'.async_in.buffers) \subseteq ToSet(free)
          /\ Last(ops'.async_in.buffers) \in ToSet(ops'.async_in.buffers)
          /\ \A b \in Buffers : b # Last(ops'.async_in.buffers) => memory'[b] = memory[b]
          /\ \A h \in Groups : info'[h].tensors = info[h].tensors /\ info'[h].swapped = info[h].swapped
      <4>1. /\ ToSet(ops'["async_in"].buffers) \subseteq ToSet(free)
            /\ Last(ops'["async_in"].buffers) \in ToSet(ops'["async_in"].buffers)
            /\ \A b \in Buffers : b # Last(ops'["async_in"].buffers) => memory'[b] = memory[b]
            /\ \A h \in Groups : info'[h].tensors = info[h].tensors /\ info'[h].swapped = info[h].swapped
        BY <1>1, <1>3, <2>1, <2>2, <2>5, <2>7, SwapInCopies
      <4> QED  BY <4>1
    <3>2. \A b \in ToSet(ops.sync_in.buffers) : b \notin ToSet(free)
      <4>1. ASSUME NEW b \in ToSet(ops.sync_in.buffers), b \in ToSet(free) PROVE FALSE
        <5>1. Holding["free"] = free /\ Holding["sync_in"] = ops.sync_in.buffers
              /\ "free" \in Slots /\ "sync_in" \in Slots
          BY <1>2, HoldingFacts DEF Slots
        <5>2. b \in ToSet(Holding["sync_in"]) /\ b \in ToSet(Holding["free"])
          BY <4>1, <5>1
        <5>3. Owned(Holding, Buffers, cfg.buffers)  BY <1>2 DEF Pool
        <5>4. b # b  BY <5>1, <5>2, <5>3, Apart
        <5> QED  BY <5>4
      <4> QED  BY <4>1
    <3>3. \A b \in Buffers : b \in ToSet(ops.sync_in.buffers) => memory'[b] = memory[b]
      BY <3>1, <3>2
    <3>4. Wanted(ops.sync_in)' = Wanted(ops.sync_in)
      <4>1. ops'.sync_in = ops.sync_in  BY <2>8
      <4>2. /\ info'[ops.sync_in.group].tensors = info[ops.sync_in.group].tensors
            /\ info'[ops.sync_in.group].swapped = info[ops.sync_in.group].swapped
        BY <1>2, <1>3, <3>1
      <4>3. PICK op : op = ops.sync_in  OBVIOUS
      <4>4. ops'.sync_in = op /\ info'[op.group].tensors = info[op.group].tensors
            /\ info'[op.group].swapped = info[op.group].swapped
        BY <4>1, <4>2, <4>3
      <4>5. Wanted(ops.sync_in)' =
            {Request(TRUE, op.buffers[k], Pieces, StateFile(op.group, k)) : k \in 1 .. info'[op.group].tensors}
            \cup {Request(TRUE, Last(op.buffers), {p}, GradFile(op.group, p)) : p \in info'[op.group].swapped}
        BY <4>4 DEF Wanted
      <4>6. Wanted(ops.sync_in) = Wanted(op)  BY <4>3
      <4> QED  BY <4>4, <4>5, <4>6 DEF Wanted
    <3>5. \A t \in Threads : \A r \in Wanted(ops.sync_in) : Arrives(r, t)'
      <4> SUFFICES ASSUME NEW t \in Threads, NEW r \in Wanted(ops.sync_in)
                   PROVE  Arrives(r, t)'
        OBVIOUS
      <4>1. Arrives(r, t) /\ memory'[r.buffer] = memory[r.buffer]
        BY <1>7, <1>8, <3>3
      <4> QED  BY <1>10, <4>1 DEF Arrives
    <3>6. Copied(ops.sync_in)'
      <4>1. memory'[Last(ops.sync_in.buffers)] = memory[Last(ops.sync_in.buffers)]
        BY <1>8, <3>3
      <4>2. ops'.sync_in = ops.sync_in /\ info'[ops.sync_in.group].swapped = info[ops.sync_in.group].swapped
        BY <1>2, <1>3, <2>8, <3>1
      <4>3. Copied(ops.sync_in)  BY <1>7
      <4> QED  BY <1>1, <1>10, <4>1, <4>2, <4>3 DEF Copied
    <3> QED  BY <1>1, <3>4, <3>5, <3>6 DEF InMemory
  <2> QED  BY <2>11, <2>12, <2>13 DEF SwapInv
<1> QED  BY <1>12, <1>13

(* The update of a sub-group reaches every buffer of its states and no other. *)
LEMMA StepEffect ==
    ASSUME SwapInv, OptimizerStep, InOp(ops.sync_in), ops.sync_in.group = group
    PROVE  /\ memory' \in [Buffers -> [Pieces -> [Threads -> Tensors]]]
           /\ \A k \in 1 .. info[group].tensors, p \in Pieces, t \in Threads :
                 memory'[ops.sync_in.states[k]][p][t] = <<StateFile(group, k), updates[group] + 1>>
           /\ \A b \in Buffers : b \notin ToSet(ops.sync_in.buffers) => memory'[b] = memory[b]
<1>1. TypeOK /\ Pool /\ group \in Groups /\ ops.sync_in \in Operations
  BY Parts, Types
<1>2. PICK s : s = ops.sync_in.states  OBVIOUS
<1>3. PICK m : m = info[group].tensors  OBVIOUS
<1>4. /\ DOMAIN s = 1 .. m
      /\ \A k \in 1 .. m : s[k] \in ToSet(ops.sync_in.buffers) /\ s[k] \in Buffers
                           /\ s[k] = ops.sync_in.buffers[k] /\ k \in DOMAIN ops.sync_in.buffers
  BY <1>1, <1>2, <1>3, StatesOf
<1>5. \A i, j \in 1 .. m : s[i] = s[j] => i = j
  <2>1. \A i, j \in DOMAIN Holding["sync_in"] : Holding["sync_in"][i] = Holding["sync_in"][j] => i = j
    BY <1>1 DEF Pool, Owned, Slots
  <2>2. Holding["sync_in"] = ops.sync_in.buffers  BY <1>1, HoldingFacts
  <2> QED  BY <1>4, <2>1, <2>2
<1>6. m \in Nat /\ m <= NumStates /\ NumStates \in Nat /\ updates[group] + 1 \in Nat
      /\ memory \in [Buffers -> [Pieces -> [Threads -> Tensors]]]
  <2>1. updates[group] \in Nat  BY <1>1 DEF TypeOK
  <2>2. updates[group] + 1 \in Nat  BY <2>1
  <2>3. m \in Nat /\ m <= NumStates  BY <1>1, <1>3, Types
  <2> QED  BY <1>1, <2>2, <2>3, Constants DEF TypeOK
<1> DEFINE value(k) == <<StateFile(group, k), updates[group] + 1>>
           chosen(b) == CHOOSE k \in DOMAIN s : s[k] = b
           row(b) == Filled(memory, b, Pieces, value(chosen(b)))[b]
<1>7. memory' = [b \in Buffers |-> IF \E k \in DOMAIN s : s[k] = b THEN row(b) ELSE memory[b]]
  BY <1>2 DEF OptimizerStep
<1>8. \A k \in 1 .. m : chosen(s[k]) = k
  <2> TAKE k \in 1 .. m
  <2>1. \E i \in DOMAIN s : s[i] = s[k]  BY <1>4
  <2>2. chosen(s[k]) \in DOMAIN s /\ s[chosen(s[k])] = s[k]  BY <2>1
  <2> HIDE DEF chosen
  <2> QED  BY <1>4, <1>5, <2>2
<1>9. \A b \in Buffers : \A v : Filled(memory, b, Pieces, v)[b] = [p \in Pieces |-> [t \in Threads |-> v]]
  BY <1>6 DEF Filled
<1>10. \A k \in 1 .. m : value(k) \in Tensors
  <2>1. \A k \in 1 .. m : k \in States  BY <1>6, Constants
  <2> QED  BY <1>1, <1>6, <2>1, FileFacts DEF Tensors
<1> HIDE DEF value, chosen
<1>11. \A k \in 1 .. m : memory'[s[k]] = [p \in Pieces |-> [t \in Threads |-> value(k)]]
  <2> TAKE k \in 1 .. m
  <2>1. s[k] \in Buffers /\ \E i \in DOMAIN s : s[i] = s[k]  BY <1>4
  <2>2. memory'[s[k]] = row(s[k])  BY <1>7, <2>1
  <2>3. row(s[k]) = [p \in Pieces |-> [t \in Threads |-> value(chosen(s[k]))]]
    BY <1>9, <2>1
  <2> QED  BY <1>8, <2>2, <2>3
<1>12. \A b \in Buffers : (\A k \in 1 .. m : s[k] # b) => memory'[b] = memory[b]
  BY <1>4, <1>7
<1> HIDE DEF row
<1>13. memory' \in [Buffers -> [Pieces -> [Threads -> Tensors]]]
  <2>1. ASSUME NEW b \in Buffers PROVE memory'[b] \in [Pieces -> [Threads -> Tensors]]
    <3>1. CASE \E k \in 1 .. m : s[k] = b
      <4>1. PICK k \in 1 .. m : s[k] = b  BY <3>1
      <4>2. PICK v : v = value(k)  OBVIOUS
      <4>3. memory'[b] = [p \in Pieces |-> [t \in Threads |-> v]]
        BY ZenonT(60), <1>11, <4>1, <4>2
      <4>4. v \in Tensors  BY <1>10, <4>2
      <4> QED  BY <4>3, <4>4
    <3>2. CASE \A k \in 1 .. m : s[k] # b  BY <1>6, <1>12, <3>2
    <3> QED  BY <3>1, <3>2
  <2>2. memory' = [b \in Buffers |-> memory'[b]]  BY <1>7
  <2> QED  BY <2>1, <2>2
<1>14. \A k \in 1 .. m, p \in Pieces, t \in Threads : memory'[s[k]][p][t] = value(k)
  <2> TAKE k \in 1 .. m, p \in Pieces, t \in Threads
  <2>1. PICK z : z = memory'[s[k]]  OBVIOUS
  <2>2. z = [q \in Pieces |-> [u \in Threads |-> value(k)]]  BY <1>11, <2>1
  <2>3. z[p][t] = value(k)  BY <2>2
  <2> QED  BY <2>1, <2>3
<1> QED  BY <1>2, <1>3, <1>4, <1>12, <1>13, <1>14 DEF value

(* The update of a sub-group keeps the invariant: what is in memory is then
   newer than the files. *)
LEMMA OptimizerStepKeeps ==
    ASSUME SwapInv, OptimizerStep
    PROVE  SwapInv'
<1>1. /\ at = "update" /\ at' = "swap_out" /\ updates' = [updates EXCEPT ![group] = @ + 1]
      /\ UNCHANGED <<cfg, group, batch, arrived, free, grads, info, ops, reads, writes, disk, raised>>
      /\ ~Gathering /\ ~Gathering'
  BY DEF OptimizerStep, Gathering
<1>2. TypeOK /\ Pool /\ Progress /\ OpsOK /\ GradsOK /\ ReadsOK /\ group \in cfg.swappable
      /\ group \in Groups /\ group \in Nat /\ cfg \in Configs
  BY Parts, Types DEF TypeOK
<1>3. /\ ~HasBuffers /\ ops.sync_in # None /\ ops.sync_in.group = group
      /\ ops.sync_out = None /\ Reading = ops.async_in /\ Writing = ops.async_out
  <2>1. group # 0  BY <1>2, Types
  <2> QED  BY <1>1, <1>2, <2>1, NoneFacts DEF Progress, Reading, Writing
<1>4. InOp(ops.sync_in) /\ ops.sync_in \in Operations
  BY <1>2, <1>3, Types DEF OpsOK
<1>5. /\ memory' \in [Buffers -> [Pieces -> [Threads -> Tensors]]]
      /\ \A k \in 1 .. info[group].tensors, p \in Pieces, t \in Threads :
            memory'[ops.sync_in.states[k]][p][t] = <<StateFile(group, k), updates[group] + 1>>
      /\ \A b \in Buffers : b \notin ToSet(ops.sync_in.buffers) => memory'[b] = memory[b]
  BY <1>3, <1>4, StepEffect
<1>6. Reading' = Reading /\ Writing' = Writing /\ None' = None
  BY <1>1 DEF Reading, Writing, None
<1>7. /\ updates' \in [Groups -> Nat] /\ updates'[group] = updates[group] + 1
      /\ \A h \in Groups : h # group => updates'[h] = updates[h]
  <2>1. updates \in [Groups -> Nat]  BY <1>2 DEF TypeOK
  <2> QED  BY <1>1, <1>2, <2>1
<1>8. /\ \A h \in Groups : \A k : h # group => Newest(StateFile(h, k))' = Newest(StateFile(h, k))
      /\ \A h, p : Newest(GradFile(h, p))' = Newest(GradFile(h, p))
      /\ \A k : Newest(StateFile(group, k))' = <<StateFile(group, k), updates[group] + 1>>
  <2>1. \A h, k : Newest(StateFile(h, k))' = <<StateFile(h, k), updates'[h]>>
    BY DEF Newest, StateFile
  <2>2. \A h, p : Newest(GradFile(h, p))' = <<GradFile(h, p), batch'>>
    BY DEF Newest, GradFile
  <2> QED  BY <1>1, <1>2, <1>7, <2>1, <2>2, FileFacts
<1>9. TypeOK'
  <2>1. HandleOK(writes)' /\ HandleOK(reads)'
    <3>1. HandleOK(writes) /\ HandleOK(reads)  BY <1>2 DEF TypeOK
    <3> QED  BY <1>1, <3>1, HandleSame
  <2>2. at' \in Places  BY <1>1 DEF Places
  <2> QED
    BY <1>1, <1>2, <1>5, <1>7, <2>1, <2>2 DEF TypeOK, Operations, Swappers, Buffers
<1>10. Pool'  BY <1>1, <1>2 DEF Pool, Holding, Slots, Buffers
<1>11. Progress'
  BY <1>1, <1>2, <1>3, <1>6 DEF Progress, Following, First, HasBuffers
<1>12. Created'  BY <1>1, Parts DEF Created
<1>13. OpsOK'  BY <1>1, <1>2, <1>6 DEF OpsOK, OutOp, InOp
<1>14. ReadsOK'
  <2>1. CASE Reading = None  BY <1>1, <1>2, <1>6, <2>1 DEF ReadsOK
  <2>2. CASE Reading # None
    <3>1. /\ Reading.group \in Groups /\ Reading.group # group
          /\ InOp(Reading) /\ Reading \in Operations
      <4>1. Following(group) # {} /\ Reading.group = First(Following(group))
        BY <1>1, <1>2, <1>3, <2>2 DEF Progress
      <4>2. First(Following(group)) > group /\ First(Following(group)) \in Groups
        BY <1>2, <4>1, FollowingFacts, ConfigFacts
      <4> QED  BY <1>2, <1>3, <2>2, <4>1, <4>2, Types DEF OpsOK
    <3>2. \A r \in Wanted(Reading) :
             /\ r.buffer \in ToSet(Reading.buffers) /\ r.buffer \in Buffers
             /\ \/ \E k : r.file = StateFile(Reading.group, k)
                \/ \E p : r.file = GradFile(Reading.group, p)
      <4>1. Remembered /\ InOp(ops["async_in"]) /\ ops["async_in"].group \in Groups
        BY <1>3, <3>1, Parts
      <4>2. \A r \in Wanted(ops["async_in"]) :
             /\ r.buffer \in ToSet(ops["async_in"].buffers) /\ r.buffer \in Buffers
             /\ \/ \E k : r.file = StateFile(ops["async_in"].group, k)
                \/ \E p : r.file = GradFile(ops["async_in"].group, p)
        BY <1>2, <4>1, WantedFacts
      <4> QED  BY <1>3, <4>2
    <3>3. \A b \in ToSet(Reading.buffers) : b \notin ToSet(ops.sync_in.buffers)
      BY <1>1, <1>2, <2>2, Parts, ReadersApart
    <3>4. Last(Reading.buffers) \in ToSet(Reading.buffers) /\ Last(Reading.buffers) \in Buffers
      BY <1>2, <3>1, StatesOf
    <3>5. Wanted(Reading)' = Wanted(Reading)  BY <1>1, <1>6 DEF Wanted
    <3>6. ASSUME NEW t \in Threads, NEW r \in Wanted(Reading), Arrives(r, t) PROVE Arrives(r, t)'
      <4>1. memory'[r.buffer] = memory[r.buffer]  BY <1>5, <3>2, <3>3
      <4>2. Newest(r.file)' = Newest(r.file)  BY <1>8, <3>1, <3>2
      <4> QED  BY <3>6, <4>1, <4>2 DEF Arrives
    <3>7. Copied(Reading)'
      <4>1. Copied(Reading)  BY <1>2, <2>2 DEF ReadsOK
      <4>2. memory'[Last(Reading.buffers)] = memory[Last(Reading.buffers)]
        BY <1>5, <3>3, <3>4
      <4> QED  BY <1>1, <1>6, <1>8, <4>1, <4>2 DEF Copied
    <3> QED  BY <1>1, <1>2, <1>6, <2>2, <3>5, <3>6, <3>7 DEF ReadsOK
  <2> QED  BY <2>1, <2>2
<1>15. InMemory'  BY ZenonT(60), <1>1, <1>5, <1>8 DEF InMemory
<1>16. WritesOK'
  <2>1. ASSUME NEW t \in Threads, NEW i \in DOMAIN writes.work[t]
        PROVE  /\ memory'[writes.work[t][i].buffer] = memory[writes.work[t][i].buffer]
               /\ \A f : f = writes.work[t][i].file => Newest(f)' = Newest(f)
    <3>1. /\ Writing # None /\ writes.work[t][i].buffer \in ToSet(Writing.buffers)
          /\ writes.work[t][i].buffer \in Buffers
          /\ \E k \in States : writes.work[t][i].file = StateFile(Writing.group, k)
      BY <1>3, WritesOfStates
    <3>2. Writing.group # group /\ Writing.group \in Groups
      <4>1. Writing.group < group /\ Writing.group \in cfg.swappable
        BY <1>2, <1>3, <3>1 DEF Progress
      <4> QED  BY SMTT(60), <1>2, <4>1, Types
    <3>3. writes.work[t][i].buffer \notin ToSet(ops.sync_in.buffers)
      <4>1. ASSUME NEW b \in ToSet(ops.async_out.buffers), b \in ToSet(ops.sync_in.buffers) PROVE FALSE
        <5>1. Holding["async_out"] = ops.async_out.buffers /\ Holding["sync_in"] = ops.sync_in.buffers
              /\ "async_out" \in Slots /\ "sync_in" \in Slots
          BY <1>2, HoldingFacts DEF Slots
        <5>2. b \in ToSet(Holding["sync_in"]) /\ b \in ToSet(Holding["async_out"])
          BY <4>1, <5>1
        <5>3. Owned(Holding, Buffers, cfg.buffers)  BY <1>2 DEF Pool
        <5>4. b # b  BY <5>1, <5>2, <5>3, Apart
        <5> QED  BY <5>4
      <4> QED  BY <1>3, <3>1, <4>1
    <3> QED  BY <1>5, <1>8, <3>1, <3>2, <3>3
  <2> QED  BY <1>1, <1>6, <2>1, Parts, WritesKept
<1>17. StatesOnDisk'
  <2>1. StatesOnDisk /\ at # "swap_out" /\ \A h \in cfg.swappable : h \in Groups
    BY <1>1, <1>2, Parts, Types
  <2>2. \A h \in cfg.swappable, t \in Threads : \A k \in 1 .. info[h].tensors :
            h # group =>
              \/ disk'[StateFile(h, k)][t] = Newest(StateFile(h, k))'
              \/ \E i \in DOMAIN writes'.work[t] : writes'.work[t][i].file = StateFile(h, k)
    BY <1>1, <1>8, <2>1 DEF StatesOnDisk
  <2> QED  BY <1>1, <2>2 DEF StatesOnDisk
<1>18. GradsOK' /\ Filling'  BY <1>1, <1>2, <1>3, NoGradientsKept
<1>19. Remembered'  BY <1>1, Parts DEF Remembered
<1>20. SmallKept'
  <2>1. \A h : Taken(h) => Taken(h)'  BY <1>1, <1>6 DEF Taken
  <2> QED  BY <1>1, <2>1, Parts DEF SmallKept
<1>21. LargeKept'
  <2>1. \A t \in Threads : \A i \in DOMAIN writes'.work[t] :
               \E e, k : writes'.work[t][i].file = StateFile(e, k)
    BY <1>1, <1>3, WritesOfStates
  <2> QED  BY <1>1, <1>3, <1>9, <2>1, LargeStill
<1> QED
  BY <1>9, <1>10, <1>11, <1>12, <1>13, <1>14, <1>15, <1>16, <1>17, <1>18, <1>19, <1>20, <1>21 DEF SwapInv

(* The next sub-group, or the end of the step. *)
LEMMA NextGroupEffect ==
    ASSUME SwapInv, NextGroup, cfg' = cfg
    PROVE  /\ at' \in {"swap_in", "backward"} /\ at' \in Places
           /\ group' \in cfg.swappable /\ batch' \in Nat
           /\ \A h \in cfg.swappable : h <= group => (h < group' \/ batch' > 0)
           /\ Following(group) # {} =>
                 /\ at' = "swap_in" /\ group' = First(Following(group)) /\ group < group'
                 /\ \A h \in cfg.swappable : h < group' <=> h <= group
                 /\ UNCHANGED <<batch, arrived>>
           /\ Following(group) = {} =>
                 /\ at' = "backward" /\ batch' = batch + 1 /\ batch' > 0 /\ arrived' = {}
                 /\ group' = group /\ \A h \in cfg.swappable : h <= group
<1>1. cfg \in Configs /\ group \in cfg.swappable /\ batch \in Nat /\ group \in Nat
  BY Parts, Types DEF TypeOK
<1>2. CASE Following(group) # {}
  <2>1. at' = "swap_in" /\ group' = First(Following(group)) /\ UNCHANGED <<batch, arrived>>
    BY <1>2 DEF NextGroup
  <2>2. /\ First(Following(group)) \in cfg.swappable /\ First(Following(group)) > group
        /\ \A h \in cfg.swappable : h < First(Following(group)) <=> h <= group
    BY <1>1, <1>2, FollowingFacts
  <2> QED  BY <1>1, <1>2, <2>1, <2>2 DEF Places
<1>3. CASE Following(group) = {}
  <2>1. at' = "backward" /\ batch' = batch + 1 /\ arrived' = {} /\ group' = group
    BY <1>3 DEF NextGroup
  <2>2. \A h \in cfg.swappable : h <= group  BY <1>1, <1>3, FollowingFacts
  <2> QED  BY <1>1, <1>3, <2>1, <2>2 DEF Places
<1> QED  BY <1>2, <1>3

(* The states of the sub-group that is read stay requested while the host
   moves on to it. *)
LEMMA ReadingMovesOn ==
    ASSUME SwapInv, cfg' = cfg, at \in {"swap_out", "wait_out"}, at' # "wait_in",
           Following(group) # {} => batch' = batch, UNCHANGED <<updates, reads>>, ops'.async_in = ops.async_in,
           \A g \in Groups : info'[g].swapped = info[g].swapped,
           \A g \in Groups : g # group => info'[g].tensors = info[g].tensors,
           \A b \in Buffers : ops.async_in # None /\ b \in ToSet(ops.async_in.buffers) => memory'[b] = memory[b]
    PROVE  /\ ReadsOK' /\ (ops.async_in # None => InOp(ops.async_in)') /\ (Following(group) = {} => ops.async_in = None)
<1>1. TypeOK /\ Pool /\ Progress /\ OpsOK /\ ReadsOK /\ Remembered /\ cfg \in Configs /\ group \in cfg.swappable
      /\ group \in Nat
  BY Parts, Types DEF TypeOK
<1>2. Reading = ops.async_in /\ Reading' = ops.async_in /\ None' = None
  BY DEF Reading, None
<1>3. CASE ops.async_in = None  BY <1>1, <1>2, <1>3 DEF ReadsOK
<1>4. CASE ops.async_in # None
  <2>1. Following(group) # {} /\ ops.async_in.group = First(Following(group)) /\ InOp(ops.async_in)
    BY <1>1, <1>4 DEF Progress, OpsOK
  <2>2. batch' = batch /\ \A f : Newest(f)' = Newest(f)  BY <2>1, NewestKept
  <2>3. PICK op : op = ops.async_in  OBVIOUS
  <2>4. op.group \in Groups /\ op.group # group /\ op \in Operations
    <3>1. First(Following(group)) > group /\ First(Following(group)) \in Groups
      BY <1>1, <2>1, FollowingFacts, ConfigFacts
    <3> QED  BY SMTT(60), <1>1, <2>1, <2>3, <3>1, Types
  <2>5. info'[op.group].tensors = info[op.group].tensors /\ info'[op.group].swapped = info[op.group].swapped
    BY <2>4
  <2>6. InOp(ops.async_in)'  BY <2>1, <2>2, <2>3, <2>5 DEF InOp
  <2>7. Wanted(Reading)' = Wanted(op)
    <3>1. Wanted(Reading)' =
            {Request(TRUE, op.buffers[k], Pieces, StateFile(op.group, k)) : k \in 1 .. info'[op.group].tensors}
            \cup {Request(TRUE, Last(op.buffers), {p}, GradFile(op.group, p)) : p \in info'[op.group].swapped}
      BY <1>2, <2>3 DEF Wanted
    <3> QED  BY <2>5, <3>1 DEF Wanted
  <2>8. \A r \in Wanted(op) : r.buffer \in ToSet(op.buffers) /\ r.buffer \in Buffers
    <3>1. InOp(ops["async_in"]) /\ ops["async_in"].group \in Groups
      BY <2>1, <2>3, <2>4
    <3>2. \A r \in Wanted(ops["async_in"]) : r.buffer \in ToSet(ops["async_in"].buffers) /\ r.buffer \in Buffers
      BY <1>1, <3>1, WantedFacts
    <3> QED  BY <2>3, <3>2
  <2>9. Last(op.buffers) \in ToSet(op.buffers) /\ Last(op.buffers) \in Buffers
    BY <1>1, <2>1, <2>3, <2>4, StatesOf
  <2>10. ASSUME NEW t \in Threads, NEW r \in Wanted(op), Arrives(r, t) PROVE Arrives(r, t)'
    <3>1. memory'[r.buffer] = memory[r.buffer]  BY <1>4, <2>3, <2>8
    <3> QED  BY <2>2, <2>10, <3>1 DEF Arrives
  <2>11. Copied(Reading)'
    <3>1. Copied(op)  BY <1>1, <1>2, <1>4, <2>3 DEF ReadsOK
    <3>2. memory'[Last(op.buffers)] = memory[Last(op.buffers)]
      BY <1>4, <2>3, <2>9
    <3>3. Reading' = op  BY <1>2, <2>3
    <3> QED  BY <2>2, <2>5, <3>1, <3>2, <3>3 DEF Copied
  <2>12. /\ reads.pending = op.count
         /\ \A t \in Threads : \A i \in DOMAIN reads.work[t] : reads.work[t][i] \in Wanted(op)
         /\ \A t \in Threads : \A r \in Wanted(op) :
               Arrives(r, t) \/ \E i \in DOMAIN reads.work[t] : reads.work[t][i] = r
    BY <1>1, <1>2, <1>4, <2>3 DEF ReadsOK
  <2>13. Reading' = op /\ op # None  BY <1>2, <1>4, <2>3
  <2>14. ReadsOK'  BY <1>2, <2>7, <2>10, <2>11, <2>12, <2>13 DEF ReadsOK
  <2> QED  BY <1>4, <2>1, <2>6, <2>14
<1> QED  BY <1>3, <1>4

(* Waiting for the writes of a sub-group keeps the invariant. *)
LEMMA CompleteSwapOutKeeps ==
    ASSUME SwapInv, CompleteSwapOut
    PROVE  SwapInv'
<1>1. /\ at = "wait_out" /\ WaitReturns(writes) /\ raised' = (writes.pending # ops.sync_out.count)
      /\ writes' = Waited(writes) /\ free' = free \o ops.sync_out.buffers
      /\ ops' = [ops EXCEPT !.sync_out = None] /\ NextGroup
      /\ UNCHANGED <<cfg, updates, grads, info, reads, memory, disk>>
      /\ ~Gathering
  BY DEF CompleteSwapOut, Freed, Gathering
<1>2. TypeOK /\ Pool /\ Progress /\ OpsOK /\ GradsOK /\ ReadsOK /\ WritesOK /\ group \in cfg.swappable
      /\ group \in Groups /\ group \in Nat /\ cfg \in Configs /\ HandleOK(writes) /\ batch \in Nat
  BY Parts, Types DEF TypeOK
<1>3. /\ ~HasBuffers /\ ops.sync_in = None /\ ops.sync_out # None /\ ops.async_out = None
      /\ Writing = ops.sync_out
  <2>1. group # 0  BY <1>2, Types
  <2> QED  BY <1>1, <1>2, <2>1, NoneFacts DEF Progress, Writing
<1>4. /\ at' \in {"swap_in", "backward"} /\ at' \in Places
      /\ group' \in cfg.swappable /\ batch' \in Nat
      /\ \A h \in cfg.swappable : h <= group => (h < group' \/ batch' > 0)
      /\ Following(group) # {} =>
            /\ at' = "swap_in" /\ group' = First(Following(group)) /\ group < group'
            /\ \A h \in cfg.swappable : h < group' <=> h <= group
            /\ UNCHANGED <<batch, arrived>>
      /\ Following(group) = {} =>
            /\ at' = "backward" /\ batch' = batch + 1 /\ batch' > 0 /\ arrived' = {}
            /\ group' = group /\ \A h \in cfg.swappable : h <= group
  BY <1>1, NextGroupEffect
<1>5. /\ HandleOK(Waited(writes)) /\ Waited(writes).pending = 0 /\ Waited(writes).work = writes.work
      /\ \A t \in Threads : writes.work[t] = << >>
  BY <1>1, <1>2, WaitedKeeps
<1>6. raised' = FALSE  BY <1>1, <1>2, <1>3 DEF WritesOK
<1>7. /\ ops' \in [sync_in : Operations, async_in : Operations,
                   sync_out : Operations, async_out : Operations]
      /\ ops'.sync_in = None /\ ops'.async_in = ops.async_in
      /\ ops'.sync_out = None /\ ops'.async_out = None
  <2>1. ops \in [sync_in : Operations, async_in : Operations,
                   sync_out : Operations, async_out : Operations] /\ None \in Operations
    BY <1>2, NoneFacts DEF TypeOK
  <2> QED  BY <1>1, <1>3, <2>1
<1>8. free' \in Seq(Buffers)
  <2>1. free \in Seq(Buffers) /\ ops.sync_out.buffers \in Seq(Buffers)
    BY <1>2, Types DEF TypeOK
  <2> QED  BY <1>1, <2>1
<1>9. TypeOK'
  <2>1. HandleOK(writes)' /\ HandleOK(reads)'
    <3>1. HandleOK(reads)'  BY <1>1, <1>2, HandleSame DEF TypeOK
    <3>2. HandleOK(writes)'  BY <1>1, <1>5 DEF HandleOK, Requests, Buffers
    <3> QED  BY <3>1, <3>2
  <2>2. arrived' \subseteq cfg.swappable \X Pieces  BY <1>2, <1>4 DEF TypeOK
  <2> QED
    BY ZenonT(60), <1>1, <1>2, <1>4, <1>6, <1>7, <1>8, <2>1, <2>2
       DEF TypeOK, Operations, Swappers, Buffers
<1>10. Pool'
  <2>1. PICK bs : bs = ops.sync_out.buffers  OBVIOUS
  <2>2. bs \in Seq(Buffers) /\ << >> \in Seq(Buffers) /\ << >> \o bs = bs
    <3>1. bs \in Seq(Buffers)  BY <1>2, <2>1, Types
    <3> QED  BY <3>1, ConcatEmptySeq
  <2>3. Holding["sync_out"] = << >> \o bs /\ Holding["free"] = free
    BY <1>2, <2>1, <2>2, HoldingFacts
  <2>4. Holding'["sync_out"] = << >> /\ Holding'["free"] = Holding["free"] \o bs
    BY <1>1, <1>7, <2>1, <2>3, NoneFacts DEF Holding, Slots
  <2>5. \A z \in Slots : z # "sync_out" /\ z # "free" => Holding'[z] = Holding[z]
    BY <1>1, <1>3, <1>7 DEF Holding, Slots
  <2>6. "sync_out" \in Slots /\ "free" \in Slots /\ "sync_out" # "free"
    BY DEF Slots
  <2> QED  BY ZenonT(60), <1>1, <1>2, <2>2, <2>3, <2>4, <2>5, <2>6, PoolMoved
<1>11. /\ ReadsOK' /\ (ops.async_in # None => InOp(ops.async_in)')
       /\ (Following(group) = {} => ops.async_in = None)
  BY <1>1, <1>4, <1>7, ReadingMovesOn
<1>12. Progress'
  <2>1. HasBuffers' = HasBuffers /\ None' = None  BY <1>1 DEF HasBuffers, None
  <2>2. CASE Following(group) # {}
    <3>1. ~Gathering'  BY <1>4, <2>2 DEF Gathering
    <3>2. batch = 0 => arrived = {}  BY <1>2 DEF Progress
    <3>3. batch > 0 => arrived = cfg.swappable \X Pieces
      BY <1>1, <1>2 DEF Progress
    <3>4. ops.async_in # None => ops.async_in.group = group'
      BY <1>1, <1>2, <1>4, <2>2 DEF Progress
    <3> QED
      BY <1>1, <1>3, <1>4, <1>7, <2>1, <2>2, <3>1, <3>2, <3>3, <3>4 DEF Progress
  <2>3. CASE Following(group) = {}
    <3>1. Gathering' /\ batch' # 0  BY <1>2, <1>4, <2>3 DEF Gathering
    <3>2. ops.async_in = None  BY <1>11, <2>3
    <3> QED  BY <1>3, <1>4, <1>7, <2>1, <2>3, <3>1, <3>2 DEF Progress
  <2> QED  BY <2>2, <2>3
<1>13. Created'
  <2>1. \A h \in cfg.swappable : info[h].tensors = IF batch > 0 \/ h < group \/ h = group THEN NumStates ELSE 1
    BY <1>1, Parts DEF Created
  <2>2. \A h \in cfg.swappable : h \in Nat /\ (h <= group <=> h < group \/ h = group)
    <3> TAKE h \in cfg.swappable
    <3>1. h \in Nat  BY <1>2, Types
    <3> QED  BY <1>2, <3>1
  <2>3. CASE Following(group) # {}  BY <1>1, <1>4, <2>1, <2>2, <2>3 DEF Created
  <2>4. CASE Following(group) = {}  BY <1>1, <1>4, <2>1, <2>2, <2>4 DEF Created
  <2> QED  BY <2>3, <2>4
<1>14. OpsOK'
  <2>1. None' = None  BY DEF None
  <2> QED  BY <1>7, <1>11, <2>1 DEF OpsOK, InOp
<1>15. InMemory'  BY <1>4 DEF InMemory
<1>16. WritesOK'
  <2>1. Writing' = None /\ None' = None  BY <1>7 DEF Writing, None
  <2>2. grads'.pending = 0  BY <1>1, <1>2, <1>3, NoGradients
  <2>3. \A t \in Threads : writes'.work[t] = << >>  BY <1>1, <1>5
  <2>4. writes'.pending = 0 /\ DOMAIN << >> = {}  BY <1>1, <1>5
  <2> QED  BY <2>1, <2>2, <2>3, <2>4 DEF WritesOK
<1>17. StatesOnDisk'
  <2>1. \A g \in cfg.swappable, t \in Threads : \A k \in 1 .. info[g].tensors :
              disk[StateFile(g, k)][t] = Newest(StateFile(g, k))
    <3>1. DOMAIN << >> = {}  OBVIOUS
    <3> QED  BY <1>1, <1>5, <3>1, Parts DEF StatesOnDisk
  <2>2. \A g, k : Newest(StateFile(g, k))' = Newest(StateFile(g, k))
    BY <1>1 DEF Newest, StateFile
  <2> QED  BY <1>1, <2>1, <2>2 DEF StatesOnDisk
<1>18. GradsOK' /\ Filling'  BY <1>1, <1>2, <1>3, <1>4, NoGradientsKept
<1>19. Remembered'
  <2>1. batch' = 0 => batch = 0  BY <1>2, <1>4
  <2> QED  BY <1>1, <2>1, Parts DEF Remembered
<1>20. SmallKept'
  <2>1. CASE Following(group) = {}  BY <1>4, <2>1 DEF SmallKept
  <2>2. CASE Following(group) # {}
    <3>1. \A h \in cfg.swappable : Taken(h) => Taken(h)'
      <4>1. \A h \in cfg.swappable : h \in Nat  BY <1>2, Types
      <4> QED  BY <1>1, <1>2, <1>4, <1>7, <2>2, <4>1 DEF Taken, Gathering, None
    <3>2. \A g, p : <<g, p>> \in arrived => g \in cfg.swappable
      BY <1>2 DEF TypeOK
    <3> QED  BY <1>1, <1>4, <2>2, <3>1, <3>2, Parts DEF SmallKept
  <2> QED  BY <2>1, <2>2
<1>21. LargeKept'
  <2>1. \A t \in Threads : \A i \in DOMAIN writes'.work[t] :
               \E e, k : writes'.work[t][i].file = StateFile(e, k)
    <3>1. DOMAIN << >> = {}  OBVIOUS
    <3> QED  BY <1>1, <1>5, <3>1
  <2>2. arrived' = {} \/ (arrived' = arrived /\ batch' = batch)  BY <1>4
  <2> QED  BY <1>1, <1>3, <1>9, <2>1, <2>2, LargeStill
<1> QED
  BY <1>9, <1>10, <1>11, <1>12, <1>13, <1>14, <1>15, <1>16, <1>17, <1>18, <1>19, <1>20, <1>21 DEF SwapInv

(* The write that precedes is complete, and the pool has buffers for the
   states that are written for the first time. *)
WritePool == free \o ops.async_out.buffers
NewStates == NumStates - info[group].tensors
NewBuffers == Allocated(WritePool, NewStates)
OutStates == ops.sync_in.states \o NewBuffers
OutOperation == [group |-> group, states |-> OutStates, count |-> Len(OutStates),
                 buffers |-> ops.sync_in.buffers \o NewBuffers]
OutSlot == IF Deferred(group) THEN "async_out" ELSE "sync_out"
AfterWait == IF ops.async_out = None THEN writes ELSE Waited(writes)

(* swap_out waits for the writes of the sub-group before, and finds the
   buffers it has to allocate. *)
LEMMA SwapOutGoesOn ==
    ASSUME SwapInv, SwapOut
    PROVE  /\ at = "swap_out" /\ ~HasBuffers /\ ops.sync_in # None /\ ops.sync_in.group = group
           /\ ops.sync_out = None /\ raised' = FALSE
           /\ HandleOK(AfterWait) /\ AfterWait.pending = 0
           /\ \A t \in Threads : writes.work[t] = << >>
           /\ WritePool \in Seq(Buffers) /\ NewStates \in Nat /\ CanAllocate(WritePool, NewStates)
           /\ free' = Remaining(WritePool, NewStates)
           /\ info' = [info EXCEPT ![group].tensors = NumStates]
           /\ memory' = [b \in Buffers |->
                   IF \E k \in DOMAIN OutStates : k > info[group].tensors /\ OutStates[k] = b
                   THEN LET k == CHOOSE k \in DOMAIN OutStates : OutStates[k] = b
                        IN  Filled(memory, b, Pieces, <<StateFile(group, k), updates[group]>>)[b]
                   ELSE memory[b]]
           /\ writes' = Submit(AfterWait, [k \in States |->
                             Request(FALSE, OutStates[k], Pieces, StateFile(group, k))])
           /\ ops' = [ops EXCEPT !.sync_in = None,
                                 !.async_out = IF Deferred(group) THEN OutOperation ELSE None,
                                 !.sync_out = IF Deferred(group) THEN None ELSE OutOperation]
           /\ IF Deferred(group) THEN NextGroup
              ELSE at' = "wait_out" /\ UNCHANGED <<group, batch, arrived>>
           /\ UNCHANGED <<cfg, updates, grads, reads, disk>>
<1>1. TypeOK /\ Pool /\ Progress /\ OpsOK /\ GradsOK /\ WritesOK /\ group \in Groups
  BY Parts, Types
<1>2. at = "swap_out" /\ (ops.async_out # None => WaitReturns(writes))
  BY DEF SwapOut
<1>3. /\ ~HasBuffers /\ ops.sync_in # None /\ ops.sync_in.group = group /\ ops.sync_out = None
      /\ Writing = ops.async_out /\ raised = FALSE /\ HandleOK(writes)
  <2>1. group # 0  BY <1>1, Types
  <2> QED  BY <1>1, <1>2, <2>1, NoneFacts DEF Progress, Writing, TypeOK
<1>4. WritePool \in Seq(Buffers) /\ Len(WritePool) = Len(free) + Len(ops.async_out.buffers)
  <2>1. PICK a : a = free  OBVIOUS
  <2>2. PICK b : b = ops.async_out.buffers  OBVIOUS
  <2>3. a \in Seq(Buffers) /\ b \in Seq(Buffers)
    BY <1>1, <2>1, <2>2, Types DEF TypeOK
  <2>4. a \o b \in Seq(Buffers) /\ Len(a \o b) = Len(a) + Len(b)  BY <2>3
  <2> QED  BY <2>1, <2>2, <2>4 DEF WritePool
<1>5. NewStates \in Nat
  <2>1. info[group].tensors \in Nat /\ info[group].tensors <= NumStates /\ NumStates \in Nat
    BY <1>1, Types, Constants
  <2> QED  BY <2>1 DEF NewStates
<1>6. CanAllocate(WritePool, NewStates)
  <2>1. Len(free) + Len(ops.async_out.buffers) >= NewStates
    BY <1>1, <1>2, <1>3, EnoughFree DEF NewStates
  <2>2. Len(free) \in Nat /\ Len(ops.async_out.buffers) \in Nat
    BY <1>1, OpLengths
  <2> QED  BY <1>4, <1>5, <2>1, <2>2 DEF CanAllocate
<1>7. CASE ops.async_out = None
  <2>1. writes.pending = 0
    <3>1. grads.pending = 0  BY <1>1, <1>3, NoGradients
    <3> QED  BY <1>1, <1>3, <1>7, <3>1 DEF WritesOK
  <2>2. \A t \in Threads : writes.work[t] = << >>  BY <1>3, <2>1, Idle
  <2> QED
    BY <1>2, <1>3, <1>4, <1>5, <1>6, <1>7, <2>1, <2>2
       DEF SwapOut, WritePool, NewStates, NewBuffers, OutStates, OutOperation, AfterWait, OutBuffers, Freed
<1>8. CASE ops.async_out # None
  <2>1. writes.pending = ops.async_out.count  BY <1>1, <1>3, <1>8 DEF WritesOK
  <2>2. /\ HandleOK(Waited(writes)) /\ Waited(writes).pending = 0
        /\ \A t \in Threads : writes.work[t] = << >>
    BY <1>2, <1>3, <1>8, WaitedKeeps
  <2> QED
    BY <1>2, <1>3, <1>4, <1>5, <1>6, <1>8, <2>1, <2>2
       DEF SwapOut, WritePool, NewStates, NewBuffers, OutStates, OutOperation, AfterWait, OutBuffers, Freed
<1> QED  BY <1>7, <1>8

(* The buffers while the states are written: those of the write before are
   free again, and the new ones belong to the sub-group. *)
Gathered(H) ==
    /\ Owned(H, Buffers, cfg.buffers)
    /\ H["free"] = Remaining(WritePool, NewStates) /\ H["all"] = grads.all
    /\ H["sync_in"] = ops.sync_in.buffers \o NewBuffers
    /\ H["async_in"] = ops.async_in.buffers
    /\ H["sync_out"] = << >> /\ H["async_out"] = << >>

(* The pool swap_out allocates from is the free buffers and those whose writes
   are over. *)
LEMMA BuffersGathered ==
    ASSUME TypeOK, Pool, ops.sync_out = None,
           WritePool \in Seq(Buffers), NewStates \in Nat, CanAllocate(WritePool, NewStates)
    PROVE  /\ \E H : Gathered(H)
           /\ NewBuffers \in Seq(Buffers) /\ Len(NewBuffers) = NewStates
           /\ Remaining(WritePool, NewStates) \in Seq(Buffers)
<1>1. PICK H : H = Holding  OBVIOUS
<1>2. PICK w : w = ops.async_out.buffers  OBVIOUS
<1>3. PICK m : m = NewBuffers  OBVIOUS
<1>4. PICK r : r = Remaining(WritePool, NewStates)  OBVIOUS
<1>5. PICK si : si = ops.sync_in.buffers  OBVIOUS
<1>6. PICK ai : ai = ops.async_in.buffers  OBVIOUS
<1>7. PICK fr : fr = free  OBVIOUS
<1>8. /\ H \in [Slots -> Seq(Buffers)] /\ Owned(H, Buffers, cfg.buffers)
      /\ H["free"] = fr /\ H["all"] = grads.all /\ H["sync_in"] = si /\ H["async_in"] = ai
      /\ H["sync_out"] = << >> /\ H["async_out"] = w
  BY <1>1, <1>2, <1>5, <1>6, <1>7, HoldingFacts, NoneFacts DEF Pool
<1>9. /\ m \in Seq(Buffers) /\ Len(m) = NewStates /\ r \in Seq(Buffers) /\ fr \o w = r \o m
  <2>1. PICK pool : pool = WritePool  OBVIOUS
  <2>2. PICK k : k = NewStates  OBVIOUS
  <2>3. /\ Allocated(pool, k) \in Seq(Buffers) /\ Len(Allocated(pool, k)) = k
        /\ Remaining(pool, k) \in Seq(Buffers)
        /\ pool = Remaining(pool, k) \o Allocated(pool, k)
    BY <2>1, <2>2, PoolSplit
  <2> QED
    BY <1>2, <1>3, <1>4, <1>7, <2>1, <2>2, <2>3 DEF NewBuffers, WritePool
<1>10. w \in Seq(Buffers) /\ << >> \in Seq(Buffers) /\ << >> \o w = w /\ si \in Seq(Buffers)
  <2>1. w \in Seq(Buffers) /\ si \in Seq(Buffers)  BY <1>2, <1>5, Types
  <2> QED  BY <2>1, ConcatEmptySeq
<1>11. /\ "free" \in Slots /\ "all" \in Slots /\ "sync_in" \in Slots /\ "async_in" \in Slots
       /\ "sync_out" \in Slots /\ "async_out" \in Slots
  BY DEF Slots
<1>12. PICK n : n = cfg.buffers  OBVIOUS
<1>13. PICK H1 : H1 = Moved(H, "async_out", "free", << >>, w)  OBVIOUS
<1>14. /\ Owned(H1, Buffers, n) /\ H1 \in [Slots -> Seq(Buffers)]
       /\ H1["free"] = fr \o w /\ H1["all"] = grads.all /\ H1["sync_in"] = si /\ H1["async_in"] = ai
       /\ H1["sync_out"] = << >> /\ H1["async_out"] = << >>
  <2>1. Owned(Moved(H, "async_out", "free", << >>, w), Buffers, n)
    BY <1>8, <1>10, <1>11, <1>12, MoveKeeps
  <2>2. Owned(H1, Buffers, n)  BY <1>13, <2>1
  <2>3. H1 \in [Slots -> Seq(Buffers)]  BY <2>2 DEF Owned
  <2>4. H1 = [H EXCEPT !["async_out"] = << >>, !["free"] = fr \o w]
    BY <1>8, <1>13 DEF Moved
  <2> QED  BY <1>8, <1>11, <2>2, <2>3, <2>4
<1>15. PICK H2 : H2 = Moved(H1, "free", "sync_in", r, m)  OBVIOUS
<1>16. /\ Owned(H2, Buffers, n)
       /\ H2["free"] = r /\ H2["all"] = grads.all /\ H2["sync_in"] = si \o m /\ H2["async_in"] = ai
       /\ H2["sync_out"] = << >> /\ H2["async_out"] = << >>
  <2>1. H1["free"] = r \o m  BY <1>9, <1>14
  <2>2. Owned(Moved(H1, "free", "sync_in", r, m), Buffers, n)
    BY <1>9, <1>11, <1>14, <2>1, MoveKeeps
  <2>3. Owned(H2, Buffers, n)  BY <1>15, <2>2
  <2> QED  BY <1>11, <1>14, <1>15, <2>3 DEF Moved
<1>17. Gathered(H2)  BY <1>3, <1>4, <1>5, <1>6, <1>12, <1>16 DEF Gathered
<1> QED  BY <1>3, <1>4, <1>9, <1>17

(* The states to write have different buffers, all of them the sub-group's. *)
LEMMA OutStatesFacts ==
    ASSUME TypeOK, Pool, ops.sync_out = None, InOp(ops.sync_in), ops.sync_in.group = group,
           WritePool \in Seq(Buffers), NewStates \in Nat, CanAllocate(WritePool, NewStates)
    PROVE  /\ OutStates \in Seq(Buffers) /\ Len(OutStates) = NumStates /\ DOMAIN OutStates = 1 .. NumStates
           /\ \A k \in 1 .. info[group].tensors : k \in 1 .. NumStates /\ OutStates[k] = ops.sync_in.states[k]
           /\ \A i, j \in 1 .. NumStates : OutStates[i] = OutStates[j] => i = j
           /\ \A k \in 1 .. NumStates :
                 OutStates[k] \in ToSet(ops.sync_in.buffers \o NewBuffers) /\ OutStates[k] \in Buffers
           /\ ops.sync_in.buffers \o NewBuffers \in Seq(Buffers)
           /\ Len(ops.sync_in.buffers \o NewBuffers) <= NumStates + 1
           /\ \A b \in ToSet(ops.sync_in.buffers \o NewBuffers) : b \notin ToSet(ops.async_in.buffers)
<1>1. PICK m : m = info[group].tensors  OBVIOUS
<1>2. PICK st : st = ops.sync_in.states  OBVIOUS
<1>3. PICK si : si = ops.sync_in.buffers  OBVIOUS
<1>4. PICK nb : nb = NewBuffers  OBVIOUS
<1>5. PICK n : n = NumStates  OBVIOUS
<1>6. PICK l : l = Len(si)  OBVIOUS
<1>7. m \in Nat /\ m >= 1 /\ m <= n /\ n \in Nat /\ group \in Groups
  BY <1>1, <1>5, Types, Constants
<1>8. /\ si \in Seq(Buffers) /\ st \in Seq(Buffers) /\ Len(st) = m
      /\ l \in Nat /\ l >= m /\ l <= m + 1
      /\ \A k \in 1 .. m : st[k] = si[k]
  <2>1. ops.sync_in \in Operations /\ si \in Seq(Buffers) /\ st \in Seq(Buffers)
    BY <1>2, <1>3, Types
  <2>2. /\ Len(st) = m /\ \A k \in 1 .. m : st[k] = si[k]
        /\ l \in Nat /\ l >= m
    BY <1>1, <1>2, <1>3, <1>6, <1>7, <2>1, StatesOf
  <2>3. PICK e \in {0, 1} : l = m + e  BY <1>1, <1>3, <1>6 DEF InOp
  <2>4. l <= m + 1  BY <1>7, <2>3
  <2> QED  BY <2>1, <2>2, <2>4
<1>9. nb \in Seq(Buffers) /\ Len(nb) = n - m
  BY <1>1, <1>4, <1>5, BuffersGathered DEF NewStates
<1>10. PICK H : Gathered(H)  BY BuffersGathered
<1>11. /\ H["sync_in"] = si \o nb /\ H["async_in"] = ops.async_in.buffers
       /\ Owned(H, Buffers, cfg.buffers) /\ "sync_in" \in Slots /\ "async_in" \in Slots
  BY <1>3, <1>4, <1>10 DEF Gathered, Slots
<1>12. PICK q : q = si \o nb  OBVIOUS
<1>28. PICK d : d = n - m  OBVIOUS
<1>29. d \in Nat /\ n = m + d  BY <1>7, <1>28
<1>30. ASSUME NEW a \in Seq(Buffers), NEW c, c = Len(a)
       PROVE  /\ a \o nb \in Seq(Buffers) /\ Len(a \o nb) = c + d
              /\ \A i \in 1 .. c : (a \o nb)[i] = a[i]
              /\ \A i \in 1 .. d : (a \o nb)[c + i] = nb[i]
  <2>1. Len(nb) = d /\ nb \in Seq(Buffers) /\ c \in Nat  BY <1>9, <1>28, <1>30
  <2>5. PICK z : z = a \o nb  OBVIOUS
  <2>2. /\ z \in Seq(Buffers) /\ Len(z) = c + d
        /\ \A i \in 1 .. c + d : z[i] = IF i <= c THEN a[i] ELSE nb[i - c]
    BY <1>30, <2>1, <2>5, ConcatProperties
  <2>3. \A i \in 1 .. c : i \in 1 .. c + d /\ i <= c  BY <1>29, <2>1
  <2>6. \A i \in 1 .. c : z[i] = a[i]  BY <2>2, <2>3
  <2>7. \A i \in 1 .. d : z[c + i] = nb[i]
    <3> TAKE i \in 1 .. d
    <3>1. PICK j : j = c + i  OBVIOUS
    <3>2. j \in 1 .. c + d /\ ~(j <= c) /\ j - c = i  BY <1>29, <2>1, <3>1
    <3>3. z[j] = nb[j - c]  BY <2>2, <3>2
    <3> QED  BY <3>1, <3>2, <3>3
  <2> QED  BY <2>2, <2>5, <2>6, <2>7
<1>13. /\ q \in Seq(Buffers) /\ Len(q) = l + (n - m)
       /\ \A i \in 1 .. l : q[i] = si[i]
       /\ \A i \in 1 .. n - m : q[l + i] = nb[i]
  BY <1>6, <1>8, <1>12, <1>28, <1>30
<1>14. /\ st \o nb \in Seq(Buffers) /\ Len(st \o nb) = m + (n - m)
       /\ \A i \in 1 .. m : (st \o nb)[i] = st[i]
       /\ \A i \in 1 .. n - m : (st \o nb)[m + i] = nb[i]
  BY SMTT(60), <1>8, <1>28, <1>30
<1>15. PICK s : s = st \o nb  OBVIOUS
<1> DEFINE place(k) == IF k <= m THEN k ELSE l + (k - m)
<1>16. \A k \in 1 .. n : place(k) \in 1 .. l + (n - m) /\ s[k] = q[place(k)]
  <2> TAKE k \in 1 .. n
  <2>1. CASE k <= m
    <3>1. k \in 1 .. m /\ k \in 1 .. l /\ k \in 1 .. l + (n - m) /\ place(k) = k
      BY <1>7, <1>8, <2>1
    <3> HIDE DEF place
    <3> QED  BY <1>8, <1>13, <1>14, <1>15, <3>1
  <2>2. CASE ~(k <= m)
    <3>1. PICK j : j = k - m  OBVIOUS
    <3>2. j \in 1 .. n - m /\ k = m + j /\ l + j \in 1 .. l + (n - m) /\ place(k) = l + j
      BY <1>7, <1>8, <2>2, <3>1
    <3> HIDE DEF place
    <3> QED  BY <1>13, <1>14, <1>15, <3>2
  <2> QED  BY <2>1, <2>2
<1>17. \A i, j \in 1 .. n : place(i) = place(j) => i = j  BY <1>7, <1>8
<1> HIDE DEF place
<1>18. \A i, j \in DOMAIN q : q[i] = q[j] => i = j
  <2>0. Owned(H, Buffers, cfg.buffers) /\ "sync_in" \in Slots  BY <1>11
  <2>1. \A i, j \in DOMAIN H["sync_in"] : H["sync_in"][i] = H["sync_in"][j] => i = j
    BY <2>0 DEF Owned
  <2> QED  BY <1>11, <1>12, <2>1
<1>19. DOMAIN q = 1 .. l + (n - m)  BY <1>13
<1>20. \A i, j \in 1 .. n : s[i] = s[j] => i = j  BY <1>16, <1>17, <1>18, <1>19
<1>21. \A k \in 1 .. n : s[k] \in ToSet(q)  BY <1>16, <1>19 DEF ToSet
<1>22. s \in Seq(Buffers) /\ Len(s) = n /\ DOMAIN s = 1 .. n
  <2>1. m + (n - m) = n  BY <1>7
  <2> QED  BY <1>7, <1>14, <1>15, <2>1
<1>23. \A k \in 1 .. m : k \in 1 .. n /\ s[k] = st[k]  BY <1>7, <1>14, <1>15
<1>24. Len(q) <= n + 1  BY <1>7, <1>8, <1>13
<1>25. \A k \in 1 .. n : s[k] \in Buffers  BY <1>22
<1>26. \A b \in ToSet(q) : b \notin ToSet(ops.async_in.buffers)
  <2>1. ASSUME NEW b \in ToSet(q), b \in ToSet(ops.async_in.buffers) PROVE FALSE
    <3>1. b \in ToSet(H["sync_in"]) /\ b \in ToSet(H["async_in"]) /\ "sync_in" # "async_in"
      BY <1>11, <1>12, <2>1
    <3>2. Owned(H, Buffers, cfg.buffers) /\ "sync_in" \in Slots /\ "async_in" \in Slots
      BY <1>11
    <3>3. b # b  BY <3>1, <3>2, Apart
    <3> QED  BY <3>3
  <2> QED  BY <2>1
<1>27. OutStates = s /\ ops.sync_in.buffers \o NewBuffers = q
  BY <1>2, <1>3, <1>4, <1>12, <1>15 DEF OutStates
<1> QED
  BY <1>1, <1>2, <1>5, <1>13, <1>20, <1>21, <1>22, <1>23, <1>24, <1>25, <1>26, <1>27

(* Every state to write is in its buffer, the new ones by the copy. *)
LEMMA SwapOutCopies ==
    ASSUME SwapInv, SwapOut
    PROVE  /\ memory' \in [Buffers -> [Pieces -> [Threads -> Tensors]]]
           /\ \A k \in States, p \in Pieces, t \in Threads :
                 memory'[OutStates[k]][p][t] = <<StateFile(group, k), updates[group]>>
           /\ \A b \in Buffers : b \notin ToSet(ops.sync_in.buffers \o NewBuffers) => memory'[b] = memory[b]
<1>1. TypeOK /\ Pool /\ OpsOK /\ InMemory /\ group \in Groups  BY Parts, Types
<1>2. /\ at = "swap_out" /\ ops.sync_in # None /\ ops.sync_in.group = group /\ ops.sync_out = None
      /\ WritePool \in Seq(Buffers) /\ NewStates \in Nat /\ CanAllocate(WritePool, NewStates)
      /\ memory' = [b \in Buffers |->
              IF \E k \in DOMAIN OutStates : k > info[group].tensors /\ OutStates[k] = b
              THEN LET k == CHOOSE k \in DOMAIN OutStates : OutStates[k] = b
                   IN  Filled(memory, b, Pieces, <<StateFile(group, k), updates[group]>>)[b]
              ELSE memory[b]]
  BY SwapOutGoesOn
<1>3. InOp(ops.sync_in)  BY <1>1, <1>2 DEF OpsOK
<1>4. PICK s : s = OutStates  OBVIOUS
<1>5. PICK m : m = info[group].tensors  OBVIOUS
<1>6. PICK q : q = ToSet(ops.sync_in.buffers \o NewBuffers)  OBVIOUS
<1>7. /\ DOMAIN s = 1 .. NumStates
      /\ \A k \in 1 .. m : k \in 1 .. NumStates /\ s[k] = ops.sync_in.states[k]
      /\ \A i, j \in 1 .. NumStates : s[i] = s[j] => i = j
      /\ \A k \in 1 .. NumStates : s[k] \in q /\ s[k] \in Buffers
  BY <1>1, <1>2, <1>3, <1>4, <1>5, <1>6, OutStatesFacts
<1>8. m \in Nat /\ NumStates \in Nat /\ States = 1 .. NumStates /\ updates[group] \in Nat
      /\ memory \in [Buffers -> [Pieces -> [Threads -> Tensors]]]
  <2>1. m \in Nat  BY <1>1, <1>5, Types
  <2> QED  BY <1>1, <2>1, Constants DEF TypeOK
<1> DEFINE value(k) == <<StateFile(group, k), updates[group]>>
           chosen(b) == CHOOSE k \in DOMAIN s : s[k] = b
           row(b) == Filled(memory, b, Pieces, value(chosen(b)))[b]
<1>9. memory' = [b \in Buffers |-> IF \E k \in DOMAIN s : k > m /\ s[k] = b THEN row(b) ELSE memory[b]]
  BY <1>2, <1>4, <1>5
<1>10. \A k \in 1 .. NumStates : chosen(s[k]) = k
  <2> TAKE k \in 1 .. NumStates
  <2>1. \E i \in DOMAIN s : s[i] = s[k]  BY <1>7
  <2>2. chosen(s[k]) \in DOMAIN s /\ s[chosen(s[k])] = s[k]  BY <2>1
  <2> HIDE DEF chosen
  <2> QED  BY <1>7, <2>2
<1>11. \A b \in Buffers : \A v : Filled(memory, b, Pieces, v)[b] = [p \in Pieces |-> [t \in Threads |-> v]]
  BY <1>8 DEF Filled
<1>12. \A k \in 1 .. NumStates : value(k) \in Tensors
  BY <1>1, <1>8, FileFacts DEF Tensors
<1> HIDE DEF value, chosen
<1>13. \A k \in 1 .. NumStates : k > m => memory'[s[k]] = [p \in Pieces |-> [t \in Threads |-> value(k)]]
  <2> SUFFICES ASSUME NEW k \in 1 .. NumStates, k > m
               PROVE  memory'[s[k]] = [p \in Pieces |-> [t \in Threads |-> value(k)]]
    OBVIOUS
  <2>1. s[k] \in Buffers /\ \E i \in DOMAIN s : i > m /\ s[i] = s[k]  BY <1>7
  <2>2. memory'[s[k]] = row(s[k])  BY <1>9, <2>1
  <2>3. row(s[k]) = [p \in Pieces |-> [t \in Threads |-> value(chosen(s[k]))]]
    BY <1>11, <2>1
  <2> QED  BY <1>10, <2>2, <2>3
<1>14. \A b \in Buffers : (\A k \in 1 .. NumStates : k > m => s[k] # b) => memory'[b] = memory[b]
  BY <1>7, <1>9
<1> HIDE DEF row
<1>15. memory' \in [Buffers -> [Pieces -> [Threads -> Tensors]]]
  <2>1. ASSUME NEW b \in Buffers PROVE memory'[b] \in [Pieces -> [Threads -> Tensors]]
    <3>1. CASE \E k \in 1 .. NumStates : k > m /\ s[k] = b
      <4>1. PICK k \in 1 .. NumStates : k > m /\ s[k] = b  BY <3>1
      <4>2. PICK v : v = value(k)  OBVIOUS
      <4>3. memory'[b] = [p \in Pieces |-> [t \in Threads |-> v]]
        BY ZenonT(60), <1>13, <4>1, <4>2
      <4>4. v \in Tensors  BY <1>12, <4>2
      <4> QED  BY <4>3, <4>4
    <3>2. CASE \A k \in 1 .. NumStates : k > m => s[k] # b
      BY <1>8, <1>14, <3>2
    <3> QED  BY <3>1, <3>2
  <2>2. memory' = [b \in Buffers |-> memory'[b]]  BY <1>9
  <2> QED  BY <2>1, <2>2
<1>16. ASSUME NEW k \in 1 .. NumStates, NEW p \in Pieces, NEW t \in Threads
       PROVE  memory'[s[k]][p][t] = value(k)
  <2>1. PICK z : z = memory'[s[k]]  OBVIOUS
  <2>2. CASE k > m
    <3>1. z = [e \in Pieces |-> [u \in Threads |-> value(k)]]
      BY <1>13, <2>1, <2>2
    <3>2. z[p][t] = value(k)  BY <3>1
    <3> QED  BY <2>1, <3>2
  <2>3. CASE ~(k > m)
    <3>1. k \in 1 .. m  BY <1>8, <2>3
    <3>2. memory[ops.sync_in.states[k]][p][t] = Newest(StateFile(group, k))
      BY <1>1, <1>2, <1>5, <3>1 DEF InMemory
    <3>3. s[k] = ops.sync_in.states[k] /\ s[k] \in Buffers  BY <1>7, <3>1
    <3>4. \A i \in 1 .. NumStates : i > m => s[i] # s[k]  BY <1>7, <2>3
    <3>5. memory'[s[k]] = memory[s[k]]  BY <1>14, <3>3, <3>4
    <3>6. Newest(StateFile(group, k)) = value(k)  BY FileFacts DEF value
    <3> QED  BY <3>2, <3>3, <3>5, <3>6
  <2> QED  BY <2>2, <2>3
<1>17. \A b \in Buffers : b \notin q => memory'[b] = memory[b]  BY <1>7, <1>14
<1> QED  BY <1>4, <1>6, <1>8, <1>15, <1>16, <1>17 DEF value

(* The requests of the write. *)
LEMMA SwapOutWrites ==
    ASSUME SwapInv, SwapOut
    PROVE  /\ HandleOK(writes') /\ writes'.pending = NumStates
           /\ \A t \in Threads : \A i \in DOMAIN writes'.work[t] :
                 /\ i \in States
                 /\ writes'.work[t][i] = Request(FALSE, OutStates[i], Pieces, StateFile(group, i))
           /\ \A t \in Threads : DOMAIN writes'.work[t] = States
<1>1. TypeOK /\ Pool /\ OpsOK /\ group \in Groups  BY Parts, Types
<1>2. /\ ops.sync_in # None /\ ops.sync_in.group = group /\ ops.sync_out = None
      /\ WritePool \in Seq(Buffers) /\ NewStates \in Nat /\ CanAllocate(WritePool, NewStates)
      /\ HandleOK(AfterWait) /\ AfterWait.pending = 0
      /\ writes' = Submit(AfterWait, [k \in States |->
                             Request(FALSE, OutStates[k], Pieces, StateFile(group, k))])
  BY SwapOutGoesOn
<1>3. InOp(ops.sync_in)  BY <1>1, <1>2 DEF OpsOK
<1>4. \A k \in 1 .. NumStates : OutStates[k] \in Buffers
  BY <1>1, <1>2, <1>3, OutStatesFacts
<1>5. PICK rs : rs = [k \in States |-> Request(FALSE, OutStates[k], Pieces, StateFile(group, k))]
  OBVIOUS
<1>6. /\ rs \in Seq(Requests) /\ Len(rs) = NumStates /\ DOMAIN rs = States
      /\ \A k \in States : rs[k] = Request(FALSE, OutStates[k], Pieces, StateFile(group, k))
  <2>1. NumStates \in Nat /\ States = 1 .. NumStates  BY Constants
  <2>2. \A k \in States : Request(FALSE, OutStates[k], Pieces, StateFile(group, k)) \in Requests
    BY <1>1, <1>4, <2>1, FileFacts DEF Request, Requests
  <2>3. /\ rs \in [States -> Requests] /\ DOMAIN rs = States
        /\ \A k \in States : rs[k] = Request(FALSE, OutStates[k], Pieces, StateFile(group, k))
    BY <1>5, <2>2
  <2>4. rs \in Seq(Requests) /\ Len(rs) = NumStates  BY <2>1, <2>3
  <2> QED  BY <2>3, <2>4
<1>7. PICK h : h = AfterWait  OBVIOUS
<1>8. HandleOK(h) /\ h.pending = 0 /\ writes' = Submit(h, rs)
  BY <1>2, <1>5, <1>7
<1>9. PICK w : w = Submit(h, rs)  OBVIOUS
<1>10. /\ HandleOK(w) /\ w.pending = h.pending + Len(rs)
       /\ \A t \in Threads : w.work[t] = h.work[t] \o rs
  BY <1>6, <1>8, <1>9, SubmitKeeps
<1>11. \A t \in Threads : h.work[t] = << >>  BY <1>8, Idle
<1>12. \A t \in Threads : w.work[t] = rs  BY <1>6, <1>10, <1>11, ConcatEmptySeq
<1>13. w.pending = NumStates  BY <1>6, <1>8, <1>10, Constants
<1>14. writes' = w  BY <1>8, <1>9
<1> QED  BY <1>6, <1>10, <1>12, <1>13, <1>14

(* The operation of the write takes the buffers over. *)
LEMMA SwapOutTakes ==
    ASSUME SwapInv, SwapOut
    PROVE  /\ ops' \in [sync_in : Operations, async_in : Operations,
                        sync_out : Operations, async_out : Operations]
           /\ ops'.sync_in = None /\ ops'.async_in = ops.async_in
           /\ ops'.async_out = IF Deferred(group) THEN OutOperation ELSE None
           /\ ops'.sync_out = IF Deferred(group) THEN None ELSE OutOperation
           /\ OutOperation \in Operations /\ OutOperation # None /\ OutOperation.group = group
           /\ OutOperation.states = OutStates /\ OutOperation.count = NumStates
           /\ OutOperation.buffers = ops.sync_in.buffers \o NewBuffers
           /\ OutOp(OutOperation)
           /\ free' \in Seq(Buffers) /\ Pool'
<1>1. TypeOK /\ Pool /\ OpsOK /\ group \in Groups /\ group # 0  BY Parts, Types
<1>2. /\ ops.sync_in # None /\ ops.sync_in.group = group /\ ops.sync_out = None /\ ~HasBuffers
      /\ WritePool \in Seq(Buffers) /\ NewStates \in Nat /\ CanAllocate(WritePool, NewStates)
      /\ ops' = [ops EXCEPT !.sync_in = None,
                            !.async_out = IF Deferred(group) THEN OutOperation ELSE None,
                            !.sync_out = IF Deferred(group) THEN None ELSE OutOperation]
      /\ free' = Remaining(WritePool, NewStates)
      /\ UNCHANGED <<cfg, grads>>
  BY SwapOutGoesOn
<1>3. InOp(ops.sync_in)  BY <1>1, <1>2 DEF OpsOK
<1>4. PICK q : q = ops.sync_in.buffers \o NewBuffers  OBVIOUS
<1>5. PICK s : s = OutStates  OBVIOUS
<1>6. /\ s \in Seq(Buffers) /\ Len(s) = NumStates
      /\ \A i, j \in 1 .. NumStates : s[i] = s[j] => i = j
      /\ \A k \in 1 .. NumStates : s[k] \in ToSet(q)
      /\ q \in Seq(Buffers) /\ Len(q) <= NumStates + 1 /\ DOMAIN s = 1 .. NumStates
  BY <1>1, <1>2, <1>3, <1>4, <1>5, OutStatesFacts
<1>7. PICK op : op = OutOperation  OBVIOUS
<1>8. op = [group |-> group, states |-> s, count |-> Len(s), buffers |-> q]
  BY <1>4, <1>5, <1>7 DEF OutOperation
<1>9. /\ op \in Operations /\ op.group = group /\ op.states = s /\ op.count = NumStates /\ op.buffers = q
      /\ op # None
  <2>1. Len(s) \in Nat  BY <1>6, Constants
  <2> QED  BY <1>1, <1>6, <1>8, <2>1, NoneFacts DEF Operations
<1>10. OutOp(op)
  <2>1. States = 1 .. NumStates  BY Constants
  <2>2. ToSet(s) \subseteq ToSet(q)  BY <1>6 DEF ToSet
  <2> QED  BY <1>6, <1>9, <2>1, <2>2 DEF OutOp
<1>11. PICK x : x = IF Deferred(group) THEN op ELSE None  OBVIOUS
<1>12. PICK y : y = IF Deferred(group) THEN None ELSE op  OBVIOUS
<1>13. /\ ops' \in [sync_in : Operations, async_in : Operations,
                    sync_out : Operations, async_out : Operations]
       /\ ops'.sync_in = None /\ ops'.async_in = ops.async_in /\ ops'.async_out = x /\ ops'.sync_out = y
  <2>1. ops' = [ops EXCEPT !.sync_in = None, !.async_out = x, !.sync_out = y]
    BY <1>2, <1>7, <1>11, <1>12
  <2>2. x \in Operations /\ y \in Operations /\ None \in Operations
    BY <1>9, <1>11, <1>12, NoneFacts
  <2>3. ops \in [sync_in : Operations, async_in : Operations,
                    sync_out : Operations, async_out : Operations]
    BY <1>1 DEF TypeOK
  <2> QED  BY <2>1, <2>2, <2>3
<1>14. /\ Remaining(WritePool, NewStates) \in Seq(Buffers) /\ \E H : Gathered(H)
  BY <1>1, <1>2, BuffersGathered
<1>15. PICK H : Gathered(H)  BY <1>14
<1>16. PICK slot \in {"sync_out", "async_out"} : slot = IF Deferred(group) THEN "async_out" ELSE "sync_out"
  OBVIOUS
<1>17. PICK fr : fr = Remaining(WritePool, NewStates)  OBVIOUS
<1>18. /\ Owned(H, Buffers, cfg.buffers) /\ H \in [Slots -> Seq(Buffers)]
       /\ H["free"] = fr /\ H["all"] = grads.all /\ H["sync_in"] = q
       /\ H["async_in"] = ops.async_in.buffers /\ H["sync_out"] = << >> /\ H["async_out"] = << >>
  BY <1>4, <1>15, <1>17 DEF Gathered, Owned
<1>19. PICK M : M = Moved(H, "sync_in", slot, << >>, q)  OBVIOUS
<1>20. << >> \in Seq(Buffers) /\ << >> \o q = q  BY <1>6, ConcatEmptySeq
<1>21. "sync_in" \in Slots /\ slot \in Slots /\ slot # "sync_in"  BY DEF Slots
<1>22. Owned(M, Buffers, cfg.buffers)
  <2>1. H["sync_in"] = << >> \o q  BY <1>18, <1>20
  <2>2. Owned(H, Buffers, cfg.buffers)  BY <1>18
  <2>3. Owned(Moved(H, "sync_in", slot, << >>, q), Buffers, cfg.buffers)
    BY <1>6, <1>20, <1>21, <2>1, <2>2, MoveKeeps
  <2> QED  BY <1>19, <2>3
<1>23. /\ M \in [Slots -> Seq(Buffers)] /\ M["sync_in"] = << >> /\ M[slot] = q
       /\ \A z \in Slots : z # "sync_in" /\ z # slot => M[z] = H[z]
  <2>1. M \in [Slots -> Seq(Buffers)]  BY <1>22 DEF Owned
  <2>2. H[slot] \o q = q  BY <1>18, <1>20
  <2>3. M = [H EXCEPT !["sync_in"] = << >>, ![slot] = q]
    BY <1>19, <2>2 DEF Moved
  <2> QED  BY <1>18, <1>21, <2>1, <2>3
<1>24. PICK K : K = Holding'  OBVIOUS
<1>25. \A z \in Slots : K[z] = M[z]
  <2>1. K["free"] = fr /\ K["all"] = grads.all
    BY <1>2, <1>17, <1>24 DEF Holding, Slots
  <2>2. /\ K["sync_in"] = << >> /\ K["async_in"] = ops.async_in.buffers
        /\ K["sync_out"] = y.buffers /\ K["async_out"] = x.buffers
    BY <1>13, <1>24, NoneFacts DEF Holding, Slots
  <2>3. K["free"] = M["free"] /\ K["all"] = M["all"] /\ K["sync_in"] = M["sync_in"] /\ K["async_in"] = M["async_in"]
    BY <1>18, <1>23, <2>1, <2>2 DEF Slots
  <2>4. K["sync_out"] = M["sync_out"] /\ K["async_out"] = M["async_out"]
    <3>1. CASE Deferred(group)
      BY <1>9, <1>11, <1>12, <1>16, <1>18, <1>23, <2>2, <3>1, NoneFacts DEF Slots
    <3>2. CASE ~Deferred(group)
      BY <1>9, <1>11, <1>12, <1>16, <1>18, <1>23, <2>2, <3>2, NoneFacts DEF Slots
    <3> QED  BY <3>1, <3>2
  <2> QED  BY <2>3, <2>4 DEF Slots
<1>26. Pool'
  <2>1. K = [z \in Slots |-> K[z]]  BY <1>24 DEF Holding
  <2>2. M = [z \in Slots |-> M[z]]  BY <1>23
  <2>3. K = M
    <3>1. [z \in Slots |-> K[z]] = [z \in Slots |-> M[z]]  BY <1>25
    <3> QED  BY <2>1, <2>2, <3>1
  <2>4. Buffers' = Buffers /\ cfg'.buffers = cfg.buffers  BY <1>2 DEF Buffers
  <2>5. Owned(Holding', Buffers', cfg'.buffers)  BY <1>22, <1>24, <2>3, <2>4
  <2> QED  BY <2>5 DEF Pool, Owned, Total
<1> QED
  BY <1>2, <1>4, <1>5, <1>7, <1>9, <1>10, <1>11, <1>12, <1>13, <1>14, <1>26

(* swap_out keeps the invariant: the files are given the newest states, from
   buffers no one else has. *)
LEMMA SwapOutKeeps ==
    ASSUME SwapInv, SwapOut
    PROVE  SwapInv'
<1>1. /\ at = "swap_out" /\ ~HasBuffers /\ ops.sync_in.group = group
      /\ ops.sync_out = None /\ raised' = FALSE
      /\ \A t \in Threads : writes.work[t] = << >>
      /\ info' = [info EXCEPT ![group].tensors = NumStates]
      /\ IF Deferred(group) THEN NextGroup
         ELSE at' = "wait_out" /\ UNCHANGED <<group, batch, arrived>>
      /\ UNCHANGED <<cfg, updates, grads, reads, disk>>
      /\ ~Gathering
  BY SwapOutGoesOn DEF Gathering
<1>2. /\ TypeOK /\ Pool /\ Progress /\ OpsOK /\ GradsOK /\ ReadsOK /\ group \in cfg.swappable
      /\ group \in Groups /\ group \in Nat /\ cfg \in Configs /\ batch \in Nat
  BY Parts, Types DEF TypeOK
<1>3. PICK op : op = OutOperation  OBVIOUS
<1>4. /\ ops' \in [sync_in : Operations, async_in : Operations,
                   sync_out : Operations, async_out : Operations]
      /\ ops'.sync_in = None /\ ops'.async_in = ops.async_in
      /\ ops'.async_out = IF Deferred(group) THEN op ELSE None
      /\ ops'.sync_out = IF Deferred(group) THEN None ELSE op
      /\ op # None /\ op.group = group
      /\ op.states = OutStates /\ op.count = NumStates
      /\ op.buffers = ops.sync_in.buffers \o NewBuffers
      /\ OutOp(op)
      /\ free' \in Seq(Buffers) /\ Pool'
  BY <1>3, SwapOutTakes
<1>5. /\ memory' \in [Buffers -> [Pieces -> [Threads -> Tensors]]]
      /\ \A k \in States, p \in Pieces, t \in Threads :
            memory'[op.states[k]][p][t] = <<StateFile(group, k), updates[group]>>
      /\ \A b \in Buffers : b \notin ToSet(op.buffers) => memory'[b] = memory[b]
  BY <1>4, SwapOutCopies
<1>6. /\ HandleOK(writes') /\ writes'.pending = NumStates
      /\ \A t \in Threads : \A i \in DOMAIN writes'.work[t] :
            /\ i \in States
            /\ writes'.work[t][i] = Request(FALSE, op.states[i], Pieces, StateFile(group, i))
      /\ \A t \in Threads : DOMAIN writes'.work[t] = States
  BY <1>4, SwapOutWrites
<1>7. /\ info' \in [Groups -> Parameters]
      /\ \A h \in Groups : /\ info'[h].tensors = IF h = group THEN NumStates ELSE info[h].tensors
                           /\ info'[h].swapped = info[h].swapped
                           /\ info'[h].unswapped = info[h].unswapped
  <2>1. PICK n \in {1, NumStates} : n = NumStates  OBVIOUS
  <2>2. info' = [info EXCEPT ![group].tensors = n]  BY <1>1, <2>1
  <2>3. TypeOK /\ group \in Groups  BY <1>2
  <2>4. /\ info' \in [Groups -> Parameters]
        /\ \A h \in Groups : /\ info'[h].tensors = IF h = group THEN n ELSE info[h].tensors
                             /\ info'[h].swapped = info[h].swapped
                             /\ info'[h].unswapped = info[h].unswapped
    BY ZenonT(60), <2>2, <2>3, TensorsField
  <2> QED  BY <2>1, <2>4
<1>8. Deferred(group) => cfg.write /\ Following(group) # {}  BY DEF Deferred
<1>9. /\ at' \in {"swap_in", "wait_out"} /\ at' \in Places
      /\ group' \in cfg.swappable /\ batch' = batch /\ arrived' = arrived
      /\ Deferred(group) =>
            /\ at' = "swap_in" /\ group' = First(Following(group)) /\ group < group'
            /\ \A h \in cfg.swappable : h < group' <=> h <= group
      /\ ~Deferred(group) => at' = "wait_out" /\ group' = group
  <2>1. CASE Deferred(group)
    <3>1. NextGroup /\ cfg' = cfg /\ Following(group) # {}  BY <1>1, <1>8, <2>1
    <3>2. /\ at' = "swap_in" /\ group' = First(Following(group)) /\ group < group'
          /\ \A h \in cfg.swappable : h < group' <=> h <= group
          /\ UNCHANGED <<batch, arrived>> /\ group' \in cfg.swappable /\ at' \in Places
      BY <3>1, NextGroupEffect
    <3> QED  BY <2>1, <3>2
  <2>2. CASE ~Deferred(group)  BY <1>1, <1>2, <2>2 DEF Places
  <2> QED  BY <2>1, <2>2
<1>10. ~Gathering'  BY <1>9 DEF Gathering
<1>11. None' = None /\ HasBuffers' = HasBuffers  BY <1>1 DEF None, HasBuffers
<1>12. Writing' = op  BY <1>4, <1>11 DEF Writing
<1>13. TypeOK'
  <2>1. HandleOK(writes)' /\ HandleOK(reads)'
    <3>1. HandleOK(reads)'  BY <1>1, <1>2, HandleSame DEF TypeOK
    <3>2. HandleOK(writes)'  BY <1>1, <1>6 DEF HandleOK, Requests, Buffers
    <3> QED  BY <3>1, <3>2
  <2> QED
    BY <1>1, <1>2, <1>4, <1>5, <1>7, <1>9, <2>1 DEF TypeOK, Operations, Swappers, Buffers
<1>14. \A b \in Buffers : ops.async_in # None /\ b \in ToSet(ops.async_in.buffers) => memory'[b] = memory[b]
  <2>1. \A b \in ToSet(op.buffers) : b \notin ToSet(ops.async_in.buffers)
    <3>1. /\ WritePool \in Seq(Buffers) /\ NewStates \in Nat /\ CanAllocate(WritePool, NewStates)
          /\ ops.sync_in # None
      BY SwapOutGoesOn
    <3>2. InOp(ops.sync_in)  BY <1>2, <3>1 DEF OpsOK
    <3>3. \A b \in ToSet(ops.sync_in.buffers \o NewBuffers) : b \notin ToSet(ops.async_in.buffers)
      BY <1>1, <1>2, <3>1, <3>2, OutStatesFacts
    <3> QED  BY <1>4, <3>3
  <2> QED  BY <1>5, <2>1
<1>15. /\ ReadsOK' /\ (ops.async_in # None => InOp(ops.async_in)')
       /\ (Following(group) = {} => ops.async_in = None)
  <2>1. at \in {"swap_out", "wait_out"} /\ at' # "wait_in"  BY <1>1, <1>9
  <2>2. /\ \A g \in Groups : info'[g].swapped = info[g].swapped
        /\ \A g \in Groups : g # group => info'[g].tensors = info[g].tensors
    BY <1>7
  <2> QED  BY <1>1, <1>4, <1>9, <1>14, <2>1, <2>2, ReadingMovesOn
<1>16. Progress'
  <2>1. ops.async_in # None => /\ cfg.read /\ Following(group) # {}
                               /\ ops.async_in.group = First(Following(group))
    BY <1>1, <1>2 DEF Progress
  <2>2. /\ batch = 0 => arrived = {}
        /\ batch > 0 => arrived = cfg.swappable \X Pieces
    BY <1>1, <1>2 DEF Progress
  <2>3. CASE Deferred(group)
    BY <1>1, <1>2, <1>4, <1>8, <1>9, <1>10, <1>11, <2>1, <2>2, <2>3 DEF Progress
  <2>4. CASE ~Deferred(group)
    <3>1. Following(group)' = Following(group) /\ First(Following(group))' = First(Following(group))
      BY <1>1, <1>9, <2>4 DEF Following, First
    <3> QED
      BY <1>1, <1>2, <1>4, <1>9, <1>10, <1>11, <2>1, <2>2, <2>4, <3>1 DEF Progress
  <2> QED  BY <2>3, <2>4
<1>17. Created'
  <2>1. \A h \in cfg.swappable : info[h].tensors = IF batch > 0 \/ h < group THEN NumStates ELSE 1
    BY <1>1, Parts DEF Created
  <2>2. \A h \in cfg.swappable : h \in Groups /\ (h <= group <=> h < group \/ h = group)
    <3> TAKE h \in cfg.swappable
    <3>1. h \in Nat /\ h \in Groups  BY <1>2, Types
    <3> QED  BY <1>2, <3>1
  <2>3. \A h \in cfg.swappable : info'[h].tensors = IF batch > 0 \/ h <= group THEN NumStates ELSE 1
    BY <1>7, <2>1, <2>2
  <2>4. CASE Deferred(group)  BY <1>1, <1>9, <2>3, <2>4 DEF Created
  <2>5. CASE ~Deferred(group)  BY <1>1, <1>9, <2>2, <2>3, <2>5 DEF Created
  <2> QED  BY <2>4, <2>5
<1>18. OpsOK'
  <2>2. /\ ops'.sync_out # None => OutOp(ops.sync_out)'
        /\ ops'.async_out # None => OutOp(ops.async_out)'
    BY <1>4 DEF OutOp
  <2>3. ops'.async_in # None => InOp(ops.async_in)'  BY <1>4, <1>15
  <2> QED  BY <1>4, <1>11, <2>2, <2>3 DEF OpsOK
<1>19. InMemory'  BY <1>9 DEF InMemory
<1>20. \A g, k : Newest(StateFile(g, k))' = <<StateFile(g, k), updates[g]>>
  BY <1>1 DEF Newest, StateFile
<1>21. WritesOK'
  <2>1. ASSUME NEW t \in Threads, NEW i \in DOMAIN writes'.work[t]
        PROVE  StateWrite(writes.work[t][i], t)'
    <3>1. /\ i \in States
          /\ writes'.work[t][i] = Request(FALSE, op.states[i], Pieces, StateFile(group, i))
      BY <1>6, <2>1
    <3>2. PICK r : r = writes'.work[t][i]  OBVIOUS
    <3>3. r.buffer = op.states[i] /\ r.file = StateFile(group, i)
      BY <3>1, <3>2 DEF Request
    <3>4. \A p \in Pieces : memory'[r.buffer][p][t] = Newest(r.file)'
      BY ZenonT(60), <1>5, <1>20, <3>1, <3>3
    <3>5. \E k \in States : r = Request(FALSE, op.states[k], Pieces, StateFile(op.group, k))
      BY <1>4, <3>1, <3>2
    <3> QED  BY <1>4, <1>11, <1>12, <3>2, <3>4, <3>5 DEF StateWrite
  <2> QED  BY <1>4, <1>6, <1>11, <1>12, <2>1 DEF WritesOK
<1>22. StatesOnDisk'
  <2> SUFFICES ASSUME NEW g \in cfg.swappable, NEW t \in Threads, NEW k \in 1 .. info'[g].tensors
               PROVE  \/ disk[StateFile(g, k)][t] = <<StateFile(g, k), updates[g]>>
                      \/ \E i \in DOMAIN writes'.work[t] : writes'.work[t][i].file = StateFile(g, k)
    BY <1>1, <1>20 DEF StatesOnDisk
  <2>1. g \in Groups  BY <1>2, Types
  <2>2. CASE g = group
    <3>1. k \in States  BY <1>2, <1>7, <2>2, Constants
    <3>2. k \in DOMAIN writes'.work[t]  BY <1>6, <3>1
    <3>3. writes'.work[t][k] = Request(FALSE, op.states[k], Pieces, StateFile(group, k))
      BY <1>6, <3>2
    <3>4. PICK r : r = writes'.work[t][k]  OBVIOUS
    <3>5. r.file = StateFile(group, k)  BY <3>3, <3>4 DEF Request
    <3> QED  BY <2>2, <3>2, <3>4, <3>5
  <2>3. CASE g # group
    <3>1. k \in 1 .. info[g].tensors  BY <1>7, <2>1, <2>3
    <3>2. DOMAIN << >> = {}  OBVIOUS
    <3>3. disk[StateFile(g, k)][t] = Newest(StateFile(g, k))
      BY <1>1, <2>3, <3>1, <3>2, Parts DEF StatesOnDisk
    <3> QED  BY <3>3, FileFacts
  <2> QED  BY <2>2, <2>3
<1>23. GradsOK' /\ Filling'  BY <1>1, <1>2, <1>9, NoGradientsKept
<1>24. Remembered'  BY <1>1, <1>7, <1>9, Parts DEF Remembered
<1>25. SmallKept'
  <2>1. \A h \in cfg.swappable : h \in Nat /\ h \in Groups  BY <1>2, Types
  <2>2. \A h \in cfg.swappable : Taken(h) => Taken(h)'
    <3>1. CASE Deferred(group)
      BY <1>1, <1>2, <1>4, <1>9, <1>10, <1>11, <2>1, <3>1 DEF Taken
    <3>2. CASE ~Deferred(group)
      BY <1>1, <1>2, <1>4, <1>9, <1>10, <1>11, <2>1, <3>2 DEF Taken
    <3> QED  BY <3>1, <3>2
  <2>3. \A g, p : <<g, p>> \in arrived => g \in cfg.swappable
    BY <1>2 DEF TypeOK
  <2> QED  BY <1>1, <1>7, <1>9, <2>1, <2>2, <2>3, Parts DEF SmallKept
<1>26. LargeKept'
  <2>1. \A t \in Threads : \A i \in DOMAIN writes'.work[t] :
               \E e, k : writes'.work[t][i].file = StateFile(e, k)
    <3> TAKE t \in Threads
    <3> TAKE i \in DOMAIN writes'.work[t]
    <3>1. PICK r : r = writes'.work[t][i]  OBVIOUS
    <3>2. r = Request(FALSE, op.states[i], Pieces, StateFile(group, i))
      BY <1>6, <3>1
    <3>3. r.file = StateFile(group, i)  BY <3>2 DEF Request
    <3> QED  BY <3>1, <3>3
  <2> QED  BY <1>1, <1>7, <1>9, <1>13, <2>1, LargeStill
<1> QED
  BY <1>4, <1>13, <1>15, <1>16, <1>17, <1>18, <1>19, <1>21, <1>22, <1>23, <1>24, <1>25, <1>26 DEF SwapInv

(* The invariant holds at first. *)
LEMMA InitKeeps ==
    ASSUME Init
    PROVE  SwapInv
<1>1. /\ cfg \in Configs /\ at = "swap_in" /\ batch = 0 /\ arrived = {} /\ raised = FALSE
      /\ group \in cfg.swappable /\ \A g \in cfg.swappable : group <= g
      /\ updates = [g \in Groups |-> 0]
      /\ free = [i \in Buffers |-> i]
      /\ grads = [all |-> << >>, free |-> << >>, swapping |-> << >>, current |-> 0,
                  fill |-> [b \in Buffers |-> << >>], pending |-> 0, next |-> NoFile]
      /\ info = [g \in Groups |-> [tensors |-> 1, swapped |-> {}, unswapped |-> {}]]
      /\ ops = [sync_in |-> None, async_in |-> None, sync_out |-> None, async_out |-> None]
      /\ reads = NewHandle /\ writes = NewHandle
      /\ memory = [b \in Buffers |-> [p \in Pieces |-> [t \in Threads |-> Nothing]]]
      /\ disk = [f \in Files |-> [t \in Threads |->
                   IF f[1] = "state" /\ f[3] = 1 THEN <<f, 0>> ELSE Nothing]]
  BY DEF Init
<1>2. /\ cfg.buffers \in Nat /\ Buffers = 1 .. cfg.buffers /\ cfg.swappable \subseteq Groups /\ Groups \subseteq Nat
      /\ 0 \in Nat /\ group \in Nat
  BY <1>1, ConfigFacts, Constants DEF Buffers
<1>3. << >> \in Seq(Buffers) /\ Len(<< >>) = 0 /\ DOMAIN << >> = {} /\ ToSet(<< >>) = {} /\ << >> \o << >> = << >>
  BY DEF ToSet
<1>4. HandleOK(NewHandle) /\ NewHandle.pending = 0 /\ \A t \in Threads : NewHandle.work[t] = << >>
  <2>1. << >> \in Seq(Requests) /\ Len(<< >>) = 0  OBVIOUS
  <2>2. NewHandle \in [work : [Threads -> Seq(Requests)], done : [Threads -> Nat], pending : Nat]
    BY <2>1 DEF NewHandle
  <2>3. \A t \in Threads : NewHandle.done[t] + Len(NewHandle.work[t]) = NewHandle.pending
    BY <2>1 DEF NewHandle
  <2> QED  BY <2>2, <2>3 DEF HandleOK, NewHandle
<1>5. free \in Seq(Buffers) /\ Len(free) = cfg.buffers /\ DOMAIN free = Buffers /\ \A i \in Buffers : free[i] = i
  BY <1>1, <1>2
<1>6. /\ grads.all = << >> /\ grads.free = << >> /\ grads.swapping = << >> /\ grads.current = 0
      /\ grads.fill = [b \in Buffers |-> << >>] /\ grads.pending = 0 /\ grads.next = NoFile
  BY <1>1
<1>7. ops.sync_in = None /\ ops.async_in = None /\ ops.sync_out = None /\ ops.async_out = None
  BY <1>1
<1>8. \A f \in Files : <<f, 0>> \in Tensors  BY <1>2 DEF Tensors
<1>9. Nothing \in Tensors  BY <1>2 DEF Tensors, Nothing
<1>10. TypeOK
  <2>1. at \in Places  BY <1>1 DEF Places
  <2>2. updates \in [Groups -> Nat] /\ arrived \subseteq cfg.swappable \X Pieces
    BY <1>1, <1>2
  <2>3. grads \in Swappers
    <3>1. << >> \in Seq(GradFiles)  OBVIOUS
    <3>2. [b \in Buffers |-> << >>] \in [Buffers -> Seq(GradFiles)]  BY <3>1
    <3> QED  BY <1>1, <1>2, <1>3, <3>2 DEF Swappers
  <2>4. info \in [Groups -> Parameters]  BY <1>1 DEF Parameters
  <2>5. ops \in [sync_in : Operations, async_in : Operations,
                 sync_out : Operations, async_out : Operations]
    BY <1>1, NoneFacts
  <2>6. memory \in [Buffers -> [Pieces -> [Threads -> Tensors]]]  BY <1>1, <1>9
  <2>7. disk \in [Files -> [Threads -> Tensors]]  BY <1>1, <1>8, <1>9
  <2> QED
    BY <1>1, <1>2, <1>4, <1>5, <2>1, <2>2, <2>3, <2>4, <2>5, <2>6, <2>7 DEF TypeOK
<1>11. Pool
  <2>1. /\ Holding["free"] = free /\ Holding["all"] = << >>
        /\ Holding["sync_in"] = << >> /\ Holding["async_in"] = << >>
        /\ Holding["sync_out"] = << >> /\ Holding["async_out"] = << >>
        /\ Holding \in [Slots -> Seq(Buffers)]
    BY <1>6, <1>7, <1>10, HoldingFacts, NoneFacts
  <2>2. PICK H : H = Holding  OBVIOUS
  <2>3. \A x \in Slots : x # "free" => DOMAIN H[x] = {}
    BY <1>3, <2>1, <2>2 DEF Slots
  <2>4. H["free"] = free /\ "free" \in Slots /\ H \in [Slots -> Seq(Buffers)]
    BY <2>1, <2>2 DEF Slots
  <2>5. \A x, y \in Slots : \A i \in DOMAIN H[x], j \in DOMAIN H[y] :
           H[x][i] = H[y][j] => x = y /\ i = j
    <3> TAKE x, y \in Slots
    <3>1. CASE x = "free" /\ y = "free"  BY <1>5, <2>4, <3>1
    <3>2. CASE x # "free"  BY <2>3, <3>2
    <3>3. CASE y # "free"  BY <2>3, <3>3
    <3> QED  BY <3>1, <3>2, <3>3
  <2>6. \A b \in Buffers : \E x \in Slots : \E i \in DOMAIN H[x] : H[x][i] = b
    BY <1>5, <2>4
  <2>7. Total(H) = cfg.buffers
    <3>1. /\ H["free"] = free /\ H["all"] = << >>
          /\ H["sync_in"] = << >> /\ H["async_in"] = << >>
          /\ H["sync_out"] = << >> /\ H["async_out"] = << >>
      BY <2>1, <2>2
    <3>2. /\ Len(H["free"]) = cfg.buffers /\ Len(H["all"]) = 0
          /\ Len(H["sync_in"]) = 0 /\ Len(H["async_in"]) = 0
          /\ Len(H["sync_out"]) = 0 /\ Len(H["async_out"]) = 0
      BY <1>3, <1>5, <3>1
    <3> QED  BY <1>2, <3>2 DEF Total
  <2> QED  BY <2>2, <2>4, <2>5, <2>6, <2>7 DEF Pool, Owned
<1>12. Progress
  BY <1>1, <1>6, <1>7, NoneFacts DEF Progress, Gathering, HasBuffers
<1>13. Created
  <2>1. \A g \in cfg.swappable : info[g].tensors = 1  BY <1>1, <1>2
  <2>2. \A g \in cfg.swappable : ~(g < group)
    <3> TAKE g \in cfg.swappable
    <3>1. g \in Nat /\ group \in Nat /\ group <= g  BY <1>1, <1>2
    <3> QED  BY <3>1
  <2>3. batch = 0 /\ at = "swap_in"  BY <1>1
  <2> QED  BY <2>1, <2>2, <2>3 DEF Created
<1>14. OpsOK /\ InMemory  BY <1>1, <1>7 DEF OpsOK, InMemory
<1>15. Reading = None /\ Writing = None  BY <1>1, <1>7 DEF Reading, Writing
<1>16. ReadsOK  BY <1>1, <1>4, <1>15 DEF ReadsOK
<1>17. WritesOK
  <2>1. writes.pending = 0 /\ \A t \in Threads : writes.work[t] = << >>
    BY <1>1, <1>4
  <2> QED  BY <1>3, <1>6, <1>15, <2>1 DEF WritesOK
<1>18. StatesOnDisk
  <2> SUFFICES ASSUME NEW g \in cfg.swappable, NEW t \in Threads, NEW k \in 1 .. info[g].tensors
               PROVE  disk[StateFile(g, k)][t] = Newest(StateFile(g, k))
    BY DEF StatesOnDisk
  <2>1. g \in Groups /\ info[g].tensors = 1  BY <1>1, <1>2
  <2>2. k = 1 /\ 1 \in States  BY <2>1, Constants
  <2>3. StateFile(g, k) \in Files /\ Newest(StateFile(g, k)) = <<StateFile(g, k), 0>>
    BY <1>1, <2>1, <2>2, FileFacts
  <2>4. PICK f : f = StateFile(g, k)  OBVIOUS
  <2>5. f[1] = "state" /\ f[3] = 1 /\ f \in Files
    BY <2>2, <2>3, <2>4 DEF StateFile
  <2>6. disk[f][t] = <<f, 0>>  BY <1>1, <2>5
  <2> QED  BY <2>3, <2>4, <2>6
<1>19. GradsOK
  <2>1. 0 <= NumPieces  BY Constants
  <2>2. \A b \in Buffers : grads.fill[b] = << >>  BY <1>6
  <2>3. Partition(grads)  BY <1>3, <1>6, <2>1, <2>2 DEF Partition
  <2> QED  BY <1>1, <1>6, <2>3 DEF GradsOK, HasBuffers
<1>20. Filling  BY <1>3, <1>6 DEF Filling
<1>21. Remembered /\ SmallKept /\ LargeKept
  BY <1>1 DEF Remembered, SmallKept, LargeKept
<1> QED
  BY <1>10, <1>11, <1>12, <1>13, <1>14, <1>16, <1>17, <1>18, <1>19, <1>20, <1>21 DEF SwapInv

(* A step that changes nothing keeps the invariant. *)
LEMMA StutterKeeps ==
    ASSUME SwapInv, UNCHANGED vars
    PROVE  SwapInv'
<1>1. UNCHANGED <<cfg, at, group, batch, arrived, updates, free, grads, info, ops,
          reads, writes, memory, disk, raised>>
  BY DEF vars
<1>2. TypeOK'
  <2>1. HandleOK(writes)' /\ HandleOK(reads)'
    BY <1>1, Parts, HandleSame DEF TypeOK
  <2> QED  BY <1>1, <2>1, Parts DEF TypeOK, Operations, Swappers, Buffers
<1>3. (Pool /\ Progress /\ Created /\ OpsOK /\ GradsOK /\ Remembered /\ SmallKept)'
  BY <1>1, Parts, HostKept DEF Settled
<1>4. \A f : Newest(f)' = Newest(f)  BY <1>1, NewestKept
<1>5. Reading' = Reading /\ Writing' = Writing /\ None' = None
  BY <1>1 DEF Reading, Writing, None
<1>6. ReadsOK' /\ InMemory'
  <2>2. \A r, t : Arrives(r, t)' = Arrives(r, t)  BY <1>1, <1>4 DEF Arrives
  <2>4. Wanted(Reading)' = Wanted(Reading) /\ Wanted(ops.sync_in)' = Wanted(ops.sync_in)
    BY <1>1, <1>5 DEF Wanted
  <2>5. Copied(Reading)' = Copied(Reading) /\ Copied(ops.sync_in)' = Copied(ops.sync_in)
    BY <1>1, <1>4, <1>5 DEF Copied
  <2>6. ReadsOK'  BY <1>1, <1>5, <2>2, <2>4, <2>5, Parts DEF ReadsOK
  <2>7. InMemory'  BY <1>1, <1>4, <2>2, <2>4, <2>5, Parts DEF InMemory
  <2> QED  BY <2>6, <2>7
<1>7. WritesOK'  BY <1>1, <1>4, <1>5, Parts, WritesKept
<1>8. StatesOnDisk'  BY <1>1, <1>4, Parts DEF StatesOnDisk
<1>9. Filling'  BY <1>1, Parts DEF Filling, Buffers
<1>10. LargeKept'  BY <1>1, Parts, LargeSame
<1> QED  BY <1>2, <1>3, <1>6, <1>7, <1>8, <1>9, <1>10 DEF SwapInv

(* The buffers, the queues of both handles and the files agree with what the
   swapper believes of them in every reachable state. *)
THEOREM SwapInvTheorem == Spec => []SwapInv
<1>1. Init => SwapInv  BY InitKeeps
<1>2. SwapInv /\ [Next]_vars => SwapInv'
  <2> SUFFICES ASSUME SwapInv, [Next]_vars
               PROVE  SwapInv'
    OBVIOUS
  <2>1. CASE \E g \in cfg.swappable, p \in Pieces : KeepGradient(g, p)
    BY <2>1, KeepGradientKeeps
  <2>2. CASE \E g \in cfg.swappable, p \in Pieces : SwapOutGradient(g, p)
    BY <2>2, SwapOutGradientKeeps
  <2>3. CASE MakeSpace  BY <2>3, MakeSpaceKeeps
  <2>4. CASE Overflow  BY <2>4, OverflowKeeps
  <2>5. CASE StepBegins  BY <2>5, StepBeginsKeeps
  <2>6. CASE FlushGradients  BY <2>6, FlushGradientsKeeps
  <2>7. CASE ReleaseBuffers  BY <2>7, ReleaseBuffersKeeps
  <2>8. CASE BeginSwapIn  BY <2>8, BeginSwapInKeeps
  <2>9. CASE EndSwapIn  BY <2>9, EndSwapInKeeps
  <2>10. CASE OptimizerStep  BY <2>10, OptimizerStepKeeps
  <2>11. CASE SwapOut  BY <2>11, SwapOutKeeps
  <2>12. CASE CompleteSwapOut  BY <2>12, CompleteSwapOutKeeps
  <2>13. CASE \E t \in Threads : ReadThread(t)  BY <2>13, ReadThreadKeeps
  <2>14. CASE \E t \in Threads : WriteThread(t)  BY <2>14, WriteThreadKeeps
  <2>15. CASE UNCHANGED vars  BY <2>15, StutterKeeps
  <2> QED
    BY <2>1, <2>2, <2>3, <2>4, <2>5, <2>6, <2>7, <2>8, <2>9, <2>10, <2>11, <2>12, <2>13, <2>14, <2>15
       DEF Next, Host
<1> QED  BY <1>1, <1>2, PTL DEF Spec

(* The optimizer updates a sub-group with its own newest states and the whole
   gradient of the batch, and between two steps the files hold the newest
   states. *)
THEOREM NewestStatesTheorem == Spec => []NewestStatesAreUsed
<1>1. SwapInv => NewestStatesAreUsed
  <2> SUFFICES ASSUME SwapInv PROVE NewestStatesAreUsed  OBVIOUS
  <2>1. TypeOK /\ Pool /\ Progress /\ Created /\ OpsOK /\ InMemory /\ group \in Groups /\ group # 0
    BY Parts, Types
  <2>2. ASSUME at = "update"
        PROVE  /\ \A k \in DOMAIN ops.sync_in.states, p \in Pieces, t \in Threads :
                     memory[ops.sync_in.states[k]][p][t] = <<StateFile(group, k), updates[group]>>
               /\ batch > 0 => \A p \in Pieces, t \in Threads :
                     memory[Last(ops.sync_in.buffers)][p][t] = <<GradFile(group, p), batch>>
    <3>1. PICK op : op = ops.sync_in  OBVIOUS
    <3>2. op # None /\ op.group = group /\ InOp(op) /\ op \in Operations
      BY <2>1, <2>2, <3>1, NoneFacts, Types DEF Progress, OpsOK
    <3>3. (\A t \in Threads : \A r \in Wanted(op) : Arrives(r, t)) /\ Copied(op)
      BY <2>1, <2>2, <3>1 DEF InMemory
    <3>4. /\ DOMAIN op.states = 1 .. info[op.group].tensors
          /\ \A k \in 1 .. info[op.group].tensors : op.states[k] = op.buffers[k]
      BY <2>1, <3>2, StatesOf
    <3>5. ASSUME NEW k \in DOMAIN op.states, NEW p \in Pieces, NEW t \in Threads
          PROVE  memory[op.states[k]][p][t] = <<StateFile(group, k), updates[group]>>
      <4>1. PICK r : r = Request(TRUE, op.buffers[k], Pieces, StateFile(op.group, k))
        OBVIOUS
      <4>2. r \in Wanted(op) /\ r.buffer = op.states[k] /\ r.pieces = Pieces /\ r.file = StateFile(group, k)
        BY <3>2, <3>4, <3>5, <4>1 DEF Wanted, Request
      <4>3. Arrives(r, t)  BY <3>3, <4>2
      <4>4. memory[r.buffer][p][t] = Newest(r.file)  BY <4>2, <4>3 DEF Arrives
      <4> QED  BY <4>2, <4>4, FileFacts
    <3>6. ASSUME batch > 0, NEW p \in Pieces, NEW t \in Threads
          PROVE  memory[Last(op.buffers)][p][t] = <<GradFile(group, p), batch>>
      <4>1. CASE p \in info[group].swapped
        <5>1. PICK r : r = Request(TRUE, Last(op.buffers), {p}, GradFile(op.group, p))
          OBVIOUS
        <5>2. r \in Wanted(op)  BY <3>2, <4>1, <5>1 DEF Wanted
        <5>3. r.buffer = Last(op.buffers) /\ r.pieces = {p} /\ r.file = GradFile(group, p)
          BY <3>2, <5>1 DEF Request
        <5>4. Arrives(r, t)  BY <3>3, <5>2
        <5>5. memory[r.buffer][p][t] = Newest(r.file)
          BY <5>3, <5>4 DEF Arrives
        <5> QED  BY <5>3, <5>5, FileFacts
      <4>2. CASE p \notin info[group].swapped
        <5>1. memory[Last(op.buffers)][p][t] = Newest(GradFile(group, p))
          BY <3>2, <3>3, <3>6, <4>2 DEF Copied
        <5> QED  BY <5>1, FileFacts
      <4> QED  BY <4>1, <4>2
    <3> QED  BY <3>1, <3>5, <3>6
  <2>3. ASSUME at = "backward", NEW g \in cfg.swappable, NEW k \in States, NEW t \in Threads
        PROVE  disk[StateFile(g, k)][t] = <<StateFile(g, k), updates[g]>>
    <3>1. Gathering /\ Writing = None /\ at # "swap_out"
      BY <2>1, <2>3, NoOperation DEF Gathering
    <3>2. info[g].tensors = NumStates  BY <2>1, <3>1 DEF Created, Progress
    <3>3. k \in 1 .. info[g].tensors  BY <3>2, Constants
    <3>4. disk[StateFile(g, k)][t] = Newest(StateFile(g, k))
      BY <3>1, <3>3, StatesThere
    <3> QED  BY <3>4, FileFacts
  <2> QED  BY <2>2, <2>3 DEF NewestStatesAreUsed
<1> QED  BY <1>1, SwapInvTheorem, PTL

(* No assertion of the swappers fails; every buffer has one owner; and one
   whose write has not reached every thread keeps its tensor and can be given
   to nobody. *)
THEOREM BuffersTheorem == Spec => []BuffersAreKept
<1>1. SwapInv => BuffersAreKept
  <2> SUFFICES ASSUME SwapInv PROVE BuffersAreKept  OBVIOUS
  <2>1. TypeOK /\ Pool /\ Progress /\ OpsOK /\ GradsOK /\ WritesOK /\ Filling /\ raised = FALSE
    BY Parts DEF TypeOK
  <2>2. PICK name : name = <<"free", "all", "sync_in", "async_in", "sync_out", "async_out">>
    OBVIOUS
  <2>3. /\ DOMAIN HeldBy = 1 .. 6
        /\ \A i \in 1 .. 6 : name[i] \in Slots /\ HeldBy[i] = ToSet(Holding[name[i]])
        /\ \A i, j \in 1 .. 6 : i # j => name[i] # name[j]
        /\ \A x \in Slots : \E i \in 1 .. 6 : x = name[i]
    <3>1. HeldBy = <<ToSet(Holding["free"]), ToSet(Holding["all"]), ToSet(Holding["sync_in"]),
                     ToSet(Holding["async_in"]), ToSet(Holding["sync_out"]), ToSet(Holding["async_out"])>>
      BY <2>1, HoldingFacts DEF HeldBy, Held
    <3>2. DOMAIN HeldBy = 1 .. 6  BY <3>1
    <3>3. \A i \in 1 .. 6 : i = 1 \/ i = 2 \/ i = 3 \/ i = 4 \/ i = 5 \/ i = 6
      OBVIOUS
    <3>4. \A i \in 1 .. 6 : name[i] \in Slots /\ HeldBy[i] = ToSet(Holding[name[i]])
      BY <2>2, <3>1, <3>3 DEF Slots
    <3>5. \A i, j \in 1 .. 6 : i # j => name[i] # name[j]  BY <2>2, <3>3
    <3>6. \A x \in Slots : \E i \in 1 .. 6 : x = name[i]  BY <2>2 DEF Slots
    <3> QED  BY <3>2, <3>4, <3>5, <3>6
  <2>4. Owned(Holding, Buffers, cfg.buffers) /\ Holding \in [Slots -> Seq(Buffers)]
    BY <2>1 DEF Pool, Owned
  <2>5. UNION {HeldBy[i] : i \in DOMAIN HeldBy} = Buffers
    <3>1. \A i \in 1 .. 6 : HeldBy[i] \subseteq Buffers
      <4> TAKE i \in 1 .. 6
      <4>1. PICK q : q = Holding[name[i]]  OBVIOUS
      <4>2. q \in Seq(Buffers)  BY <2>3, <2>4, <4>1
      <4>3. ToSet(q) \subseteq Buffers  BY <4>2 DEF ToSet
      <4> QED  BY <2>3, <4>1, <4>3
    <3>2. \A b \in Buffers : \E i \in 1 .. 6 : b \in HeldBy[i]
      <4> TAKE b \in Buffers
      <4>1. PICK x \in Slots : \E i \in DOMAIN Holding[x] : Holding[x][i] = b
        BY <2>4 DEF Owned
      <4>2. b \in ToSet(Holding[x])  BY <4>1 DEF ToSet
      <4> QED  BY <2>3, <4>2
    <3> QED  BY <2>3, <3>1, <3>2
  <2>6. \A i, j \in DOMAIN HeldBy : i # j => HeldBy[i] \cap HeldBy[j] = {}
    <3> SUFFICES ASSUME NEW i \in 1 .. 6, NEW j \in 1 .. 6, i # j, NEW b \in HeldBy[i], b \in HeldBy[j]
                 PROVE  FALSE
      BY <2>3
    <3>1. PICK x \in Slots : x = name[i]  BY <2>3
    <3>2. PICK y \in Slots : y = name[j]  BY <2>3
    <3>3. x # y /\ b \in ToSet(Holding[x]) /\ b \in ToSet(Holding[y])
      BY <2>3, <3>1, <3>2
    <3>4. Owned(Holding, Buffers, cfg.buffers)  BY <2>4
    <3>5. b # b  BY <3>3, <3>4, Apart
    <3> QED  BY <3>5
  <2>7. ASSUME NEW t \in Threads, NEW i \in DOMAIN writes.work[t], NEW r, r = writes.work[t][i]
        PROVE  /\ \A p \in r.pieces : memory[r.buffer][p][t][1] = r.file
               /\ r.buffer \notin ToSet(free) \cup ToSet(grads.free)
    <3>1. /\ \E v : (\A p \in r.pieces : memory[r.buffer][p][t] = v) /\ v[1] = r.file
          /\ \/ Writing # None /\ r.buffer \in ToSet(Writing.buffers)
             \/ HasBuffers /\ r.buffer \in ToSet(grads.swapping) /\ r.buffer \in ToSet(grads.all)
      BY ZenonT(60), <2>1, <2>7, WriteFacts
    <3>2. \A p \in r.pieces : memory[r.buffer][p][t][1] = r.file  BY <3>1
    <3>3. CASE Writing # None /\ r.buffer \in ToSet(Writing.buffers)
      <4>1. PICK x \in {"sync_out", "async_out"} : Writing.buffers = Holding[x]
        BY <2>1, <3>3, ReadingFacts
      <4>2. ~HasBuffers  BY <2>1, <3>3, Operating
      <4>3. ToSet(grads.free) = {}  BY <2>1, <4>2, NothingInEmpty, NoGradients
      <4>4. r.buffer \notin ToSet(free)
        <5>1. ASSUME NEW b \in ToSet(Writing.buffers), b \in ToSet(free) PROVE FALSE
          <6>1. Holding["free"] = free /\ "free" \in Slots /\ x \in Slots /\ x # "free"
            BY <2>1, HoldingFacts DEF Slots
          <6>2. b \in ToSet(Holding[x]) /\ b \in ToSet(Holding["free"])
            BY <4>1, <5>1, <6>1
          <6>3. Owned(Holding, Buffers, cfg.buffers)  BY <2>4
          <6>4. b # b  BY <6>1, <6>2, <6>3, Apart
          <6> QED  BY <6>4
        <5> QED  BY <3>3, <5>1
      <4> QED  BY <3>2, <4>3, <4>4
    <3>4. CASE HasBuffers /\ r.buffer \in ToSet(grads.swapping) /\ r.buffer \in ToSet(grads.all)
      <4>1. r.buffer \notin ToSet(free)
        <5>1. ASSUME NEW b \in ToSet(grads.all), b \in ToSet(free) PROVE FALSE
          <6>1. Holding["free"] = free /\ Holding["all"] = grads.all /\ "free" \in Slots /\ "all" \in Slots
            BY <2>1, HoldingFacts DEF Slots
          <6>2. b \in ToSet(Holding["all"]) /\ b \in ToSet(Holding["free"])
            BY <5>1, <6>1
          <6>3. Owned(Holding, Buffers, cfg.buffers)  BY <2>4
          <6>4. b # b  BY <6>1, <6>2, <6>3, Apart
          <6> QED  BY <6>4
        <5> QED  BY <3>4, <5>1
      <4>2. ToSet(grads.free) \cap ToSet(grads.swapping) = {}
        <5>1. grads \in Swappers /\ Partition(grads)
          BY <2>1 DEF TypeOK, GradsOK
        <5> QED  BY <5>1, PartitionParts
      <4> QED  BY <3>2, <3>4, <4>1, <4>2
    <3> QED  BY <3>1, <3>3, <3>4
  <2>8. ASSUME NEW tr \in Unfinished(writes)
        PROVE  /\ \A p \in tr[2].pieces : memory[tr[2].buffer][p][tr[1]][1] = tr[2].file
               /\ tr[2].buffer \notin ToSet(free) \cup ToSet(grads.free)
    <3>1. PICK t \in Threads : \E i \in DOMAIN writes.work[t] : tr = <<t, writes.work[t][i]>>
      BY DEF Unfinished
    <3>2. PICK i \in DOMAIN writes.work[t] : tr = <<t, writes.work[t][i]>>
      BY <3>1
    <3>3. PICK r : r = writes.work[t][i]  OBVIOUS
    <3>4. tr[1] = t /\ tr[2] = r  BY <3>2, <3>3
    <3>5. /\ \A p \in r.pieces : memory[r.buffer][p][t][1] = r.file
          /\ r.buffer \notin ToSet(free) \cup ToSet(grads.free)
      BY <2>7, <3>3
    <3> QED  BY <3>4, <3>5
  <2> QED  BY <2>1, <2>5, <2>6, <2>8 DEF BuffersAreKept
<1> QED
  BY <1>1, SwapInvTheorem, PTL
====
