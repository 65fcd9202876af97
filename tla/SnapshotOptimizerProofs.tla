---------------------- MODULE SnapshotOptimizerProofs ----------------------
(***************************************************************************)
(* Proofs about SnapshotOptimizer, for every number of machines, GPUs,     *)
(* blocks, hooks and every strategy.                                       *)
(***************************************************************************)
EXTENDS SnapshotOptimizerInv, SequenceTheorems, TLAPS

----------------------------------------------------------------------------
(* The relation of a rank to its peer is symmetric. *)

LEMMA DivMod ==
    ASSUME NEW a \in Nat, NEW g \in Nat \ {0}
    PROVE  /\ a \div g \in Nat
           /\ a % g \in 0 .. g - 1
           /\ a = (a \div g) * g + (a % g)
  OBVIOUS

LEMMA DivModUnique ==
    ASSUME NEW g \in Nat \ {0}, NEW q \in Nat, NEW r \in 0 .. g - 1
    PROVE  /\ (q * g + r) \div g = q
           /\ (q * g + r) % g = r
  OBVIOUS

(* Every rank is a machine index and a GPU index within the machine. *)
LEMMA RankCoordinates ==
    ASSUME NEW r \in Ranks
    PROVE  /\ MachineOf(r) \in MachineRanks
           /\ GpuOf(r) \in 0 .. GpusPerMachine - 1
           /\ r = MachineOf(r) * GpusPerMachine + GpuOf(r)
<1>1. GpusPerMachine \in Nat \ {0} /\ Machines \in Nat \ {0} /\ r \in Nat
  BY GroupAssumption DEF Ranks
<1>2. /\ r \div GpusPerMachine \in Nat
      /\ r % GpusPerMachine \in 0 .. GpusPerMachine - 1
      /\ r = (r \div GpusPerMachine) * GpusPerMachine + (r % GpusPerMachine)
  BY <1>1, DivMod
<1>3. r \div GpusPerMachine < Machines
  <2>1. SUFFICES ASSUME r \div GpusPerMachine >= Machines PROVE FALSE
    BY <1>1, <1>2
  <2>2. (r \div GpusPerMachine) * GpusPerMachine >= Machines * GpusPerMachine
    BY <2>1, <1>1, <1>2
  <2>3. r < Machines * GpusPerMachine  BY <1>1 DEF Ranks, WorldSize
  <2>. QED  BY <2>2, <2>3, <1>1, <1>2
<1>. QED  BY <1>1, <1>2, <1>3 DEF MachineOf, GpuOf, MachineRanks

Partner(m) == IF m % 2 = 0 THEN m + 1 ELSE m - 1

LEMMA PartnerFacts ==
    ASSUME NEW m \in MachineRanks
    PROVE  /\ Partner(m) \in MachineRanks
           /\ Partner(m) # m
           /\ Partner(Partner(m)) = m
           /\ MachineGroup((m \div 2) * GroupSize) = {m, Partner(m)}
  BY GroupAssumption DEF Partner, MachineRanks, MachineGroup, GroupSize

(* The group of a rank holds the rank itself and the GPU of the same index
   on the partner machine. *)
LEMMA GroupOfRank ==
    ASSUME NEW r \in Ranks
    PROVE  GetGroup(r) =
             {r, Partner(MachineOf(r)) * GpusPerMachine + GpuOf(r)}
<1> DEFINE m == MachineOf(r)
           k == GpuOf(r)
<1>1. GpusPerMachine \in Nat \ {0} /\ m \in Nat /\ m \in MachineRanks
      /\ k \in 0 .. GpusPerMachine - 1
      /\ r = m * GpusPerMachine + k
  BY GroupAssumption, RankCoordinates DEF MachineRanks
<1>2. m \div GroupSize \in Nat  BY <1>1 DEF GroupSize
<1>3. /\ GetGroupId(r) \div GpusPerMachine = m \div GroupSize
      /\ GetGroupId(r) % GpusPerMachine = k
  <2> HIDE DEF m, k
  <2>. QED  BY <1>1, <1>2, DivModUnique DEF GetGroupId, m, k
<1>4. GetGroup(r) = {j * GpusPerMachine + k :
                       j \in MachineGroup((m \div 2) * GroupSize)}
  BY <1>3 DEF GetGroup, RankGroup, GroupSize
<1>5. MachineGroup((m \div 2) * GroupSize) = {m, Partner(m)}
  BY <1>1, PartnerFacts
<1> HIDE DEF m, k
<1>. QED  BY <1>1, <1>4, <1>5 DEF m, k

(* Checkpoint exchange is symmetric and leaves the machine: the peer of a
   rank is another rank, on another machine, whose own peer is that rank.
   _snapshot_torch_p2p_fn posts one send to and one receive from the peer,
   so a peer that named a third rank would leave both unmatched. *)
THEOREM PeerSymmetric ==
    ASSUME NEW r \in Ranks
    PROVE  /\ GetPeerRank(r) \in Ranks
           /\ GetPeerRank(r) # r
           /\ GetPeerRank(GetPeerRank(r)) = r
           /\ MachineOf(GetPeerRank(r)) # MachineOf(r)
<1> DEFINE m == MachineOf(r)
           k == GpuOf(r)
           p == Partner(m) * GpusPerMachine + k
<1>1. GpusPerMachine \in Nat \ {0} /\ Machines \in Nat \ {0}
      /\ m \in MachineRanks /\ k \in 0 .. GpusPerMachine - 1
      /\ r = m * GpusPerMachine + k
  BY GroupAssumption, RankCoordinates
<1>2. Partner(m) \in MachineRanks /\ Partner(m) # m /\ Partner(Partner(m)) = m
  BY <1>1, PartnerFacts
<1>3. Partner(m) \in Nat /\ m \in Nat  BY <1>1, <1>2 DEF MachineRanks
<1>4. MachineOf(p) = Partner(m) /\ GpuOf(p) = k
  <2> HIDE DEF m, k
  <2>. QED  BY <1>1, <1>3, DivModUnique DEF MachineOf, GpuOf, p
<1>5. p \in Ranks
  <2>1. Partner(m) + 1 <= Machines  BY <1>1, <1>2 DEF MachineRanks
  <2>2. (Partner(m) + 1) * GpusPerMachine <= Machines * GpusPerMachine
    <3> HIDE DEF m
    <3>. QED  BY <2>1, <1>1, <1>3
  <2>3. (Partner(m) + 1) * GpusPerMachine = Partner(m) * GpusPerMachine + GpusPerMachine
    <3> HIDE DEF m
    <3>. QED  BY <1>1, <1>3
  <2> HIDE DEF m, k
  <2>. QED  BY <2>2, <2>3, <1>1, <1>3 DEF Ranks, WorldSize, p
<1>6. p # r  BY <1>4, <1>2
<1>7. GetGroup(r) = {r, p}  BY GroupOfRank
<1>8. GetPeerRank(r) = p  BY <1>6, <1>7 DEF GetPeerRank
<1>9. GetGroup(p) = {p, r}  BY <1>5, <1>4, <1>2, <1>1, GroupOfRank
<1>10. GetPeerRank(p) = r  BY <1>6, <1>9 DEF GetPeerRank
<1>. QED  BY <1>2, <1>4, <1>5, <1>6, <1>8, <1>10

----------------------------------------------------------------------------
(* The queue operators. *)

LEMMA TransfersType ==
    ASSUME NEW f \in Nat, NEW n \in Nat, NEW v \in Versions, f + n <= TotalBlocks
    PROVE  /\ TransfersOf(f, n, v) \in Seq(Transfers)
           /\ Len(TransfersOf(f, n, v)) = n
<1>1. TotalBlocks \in Nat  BY OptimizerAssumption
<1>2. \A i \in 1 .. n : [version |-> v, block |-> f + i - 1] \in Transfers
  BY <1>1 DEF Transfers, Blocks
<1>. QED  BY <1>2 DEF TransfersOf

LEMMA TransfersNone ==
    ASSUME NEW f, NEW v
    PROVE  TransfersOf(f, 0, v) = << >>
  BY DEF TransfersOf

LEMMA TransfersConcat ==
    ASSUME NEW f \in Nat, NEW n \in Nat, NEW m \in Nat, NEW v \in Versions,
           f + n + m <= TotalBlocks
    PROVE  TransfersOf(f, n, v) \o TransfersOf(f + n, m, v) = TransfersOf(f, n + m, v)
<1> DEFINE s == TransfersOf(f, n, v)
           t == TransfersOf(f + n, m, v)
           u == TransfersOf(f, n + m, v)
<1>1. TotalBlocks \in Nat  BY OptimizerAssumption
<1>2. /\ s \in Seq(Transfers) /\ Len(s) = n
      /\ t \in Seq(Transfers) /\ Len(t) = m
      /\ u \in Seq(Transfers) /\ Len(u) = n + m
  <2>1. f + n \in Nat /\ n + m \in Nat /\ f + n <= TotalBlocks
        /\ (f + n) + m <= TotalBlocks /\ f + (n + m) <= TotalBlocks
    BY <1>1
  <2>2. s \in Seq(Transfers) /\ Len(s) = n  BY <2>1, TransfersType
  <2>3. t \in Seq(Transfers) /\ Len(t) = m  BY <2>1, TransfersType
  <2>4. u \in Seq(Transfers) /\ Len(u) = n + m  BY <2>1, TransfersType
  <2>. QED  BY <2>2, <2>3, <2>4
<1>3. \A i \in 1 .. n + m : (s \o t)[i] = u[i]
  <2>1. TAKE i \in 1 .. n + m
  <2>2. (s \o t)[i] = IF i <= n THEN s[i] ELSE t[i - n]  BY <1>2
  <2>3. i <= n => s[i] = [version |-> v, block |-> f + i - 1]
    BY DEF TransfersOf
  <2>4. ~(i <= n) => t[i - n] = [version |-> v, block |-> f + n + (i - n) - 1]
    BY DEF TransfersOf
  <2>5. u[i] = [version |-> v, block |-> f + i - 1]  BY DEF TransfersOf
  <2>6. ~(i <= n) => f + n + (i - n) - 1 = f + i - 1  OBVIOUS
  <2> HIDE DEF s, t, u
  <2>. QED  BY <2>2, <2>3, <2>4, <2>5, <2>6
<1> HIDE DEF s, t, u
<1>4. s \o t \in Seq(Transfers) /\ Len(s \o t) = n + m  BY <1>2
<1>5. s \o t = u  BY <1>2, <1>3, <1>4, SeqEqual
<1>. QED  BY <1>5 DEF s, t, u

LEMMA TransfersTail ==
    ASSUME NEW f \in Nat, NEW n \in Nat \ {0}, NEW v \in Versions, f + n <= TotalBlocks
    PROVE  /\ Head(TransfersOf(f, n, v)) = [version |-> v, block |-> f]
           /\ Tail(TransfersOf(f, n, v)) = TransfersOf(f + 1, n - 1, v)
<1>1. TotalBlocks \in Nat  BY OptimizerAssumption
<1>2. /\ TransfersOf(f, n, v) \in Seq(Transfers)
      /\ Len(TransfersOf(f, n, v)) = n
      /\ TransfersOf(f + 1, n - 1, v) \in Seq(Transfers)
      /\ Len(TransfersOf(f + 1, n - 1, v)) = n - 1
  BY <1>1, TransfersType
<1>3. \A i \in 1 .. n - 1 :
         Tail(TransfersOf(f, n, v))[i] = TransfersOf(f + 1, n - 1, v)[i]
  <2>1. TAKE i \in 1 .. n - 1
  <2>2. Tail(TransfersOf(f, n, v))[i] = TransfersOf(f, n, v)[i + 1]  BY <1>2
  <2>. QED  BY <2>2 DEF TransfersOf
<1>4. Tail(TransfersOf(f, n, v)) \in Seq(Transfers) /\ Len(Tail(TransfersOf(f, n, v))) = n - 1
  BY <1>2
<1>5. Head(TransfersOf(f, n, v)) = [version |-> v, block |-> f]
  BY DEF TransfersOf
<1>. QED  BY <1>2, <1>3, <1>4, <1>5

LEMMA BlocksToSendType ==
    ASSUME NEW from \in 0 .. TotalBlocks, NEW planned \in Nat \cup {-1}
    PROVE  /\ BlocksToSend(from, planned) \in Nat
           /\ from + BlocksToSend(from, planned) \in 0 .. TotalBlocks
           /\ from = TotalBlocks => BlocksToSend(from, planned) = 0
  BY OptimizerAssumption DEF BlocksToSend, Min2

LEMMA OddMod ==
    ASSUME NEW q \in Int, NEW k \in Int, q = 2 * k + 1
    PROVE  q % 2 = 1
  OBVIOUS

(* The two versions take turns, and the one left is the latest completed. *)
LEMMA VersionFacts ==
    ASSUME NEW v \in Versions
    PROVE  /\ NextVersion(v) = 1 - v
           /\ NextVersion(v) \in Versions
           /\ NextVersion(v) # v
           /\ (v - 1) % 2 = 1 - v
<1>1. CASE v = 0
  <2>1. (0 + 1) % 2 = 1  OBVIOUS
  <2>2. v - 1 \in Int /\ v - 1 = 2 * (v - 1) + 1  BY <1>1
  <2>3. (v - 1) % 2 = 1  BY <2>2, OddMod
  <2>. QED  BY <1>1, <2>1, <2>3 DEF NextVersion, Versions
<1>2. CASE v = 1
  <2>1. (1 + 1) % 2 = 0 /\ (1 - 1) % 2 = 0  OBVIOUS
  <2>. QED  BY <1>2, <2>1 DEF NextVersion, Versions
<1>. QED  BY <1>1, <1>2 DEF Versions

----------------------------------------------------------------------------
(* Type correctness. *)

LEMMA LiveBlockType ==
    ASSUME TypeOK, NEW r \in Ranks, NEW b \in Blocks
    PROVE  LiveBlock(r, b) \in Contents
  BY DEF TypeOK, LiveBlock, Contents

LEMMA TwoBuffers == ASSUME NEW k \in Int PROVE k % 2 \in Buffers
  BY DEF Buffers

LEMMA BufferIdType ==
    ASSUME TypeOK, NEW r \in Ranks
    PROVE  snapshot_gpu_buffer_id[r] \in Nat
<1>1. snapshot_gpu_buffer_id[r] \in Buffers  BY DEF TypeOK
<1>. QED  BY <1>1 DEF Buffers

(* An operation takes one of the two buffers. *)
LEMMA BufferType ==
    ASSUME TypeOK, NEW r \in Ranks, NEW k \in Int
    PROVE  BufferOf(r, k) \in Buffers
<1>1. snapshot_gpu_buffer_id[r] - k \in Int  BY BufferIdType
<1>. QED  BY <1>1, TwoBuffers DEF BufferOf

LEMMA InitType == Init => TypeOK
<1> SUFFICES ASSUME Init PROVE TypeOK  OBVIOUS
<1>1. \A r \in Ranks, b \in Blocks : LiveBlock(r, b) \in Contents
  BY DEF Init, LiveBlock, Contents
<1>2. Zeros \in Contents  BY OptimizerAssumption DEF Zeros, Contents, Blocks
<1>. QED
  BY <1>1, <1>2, OptimizerAssumption DEF Init, TypeOK, Phases, Versions, Buffers

LEMMA HookType ==
    ASSUME TypeOK, NEW r \in Ranks, CollectiveAndHook(r)
    PROVE  TypeOK'
<1> DEFINE g == comm_gap_id[r]
           n == BlocksToSend(cur_block_id[r], StrategyOf(r)[g])
<1>1. hook' \in [Ranks -> 0 .. HooksPerIter]
  BY OptimizerAssumption DEF TypeOK, CollectiveAndHook
<1>2. comm_gap_id' \in [Ranks -> Nat \cup {-1}]
  <2>1. CASE IsSnapshotStep(r)
    <3>1. comm_gap_id' = [comm_gap_id EXCEPT ![r] = @ + 1]
      BY <2>1 DEF CollectiveAndHook
    <3>2. comm_gap_id \in [Ranks -> Nat \cup {-1}]  BY DEF TypeOK
    <3> DEFINE next == comm_gap_id[r] + 1
    <3>3. next \in Nat  BY <3>2
    <3> HIDE DEF next
    <3>. QED  BY <3>1, <3>2, <3>3 DEF next
  <2>2. CASE ~IsSnapshotStep(r)
    <3>1. comm_gap_id' = comm_gap_id  BY <2>2 DEF CollectiveAndHook
    <3>. QED  BY <3>1 DEF TypeOK
  <2>. QED  BY <2>1, <2>2
<1>3. /\ cur_block_id' \in [Ranks -> 0 .. TotalBlocks]
      /\ queue' \in [Ranks -> Seq(Transfers)]
      /\ copies' \in [Ranks -> Seq(Transfers)]
      /\ snapshot_gpu_buffer_id' \in [Ranks -> Buffers]
  <2>1. CASE IsSnapshotStep(r) /\ Mode = "interleave" /\ g \in DOMAIN StrategyOf(r)
    <3>1. /\ n \in Nat
          /\ cur_block_id[r] + n \in 0 .. TotalBlocks
      BY <2>1, BlocksToSendType, OptimizerAssumption DEF TypeOK, StrategyOf
    <3> DEFINE issued == TransfersOf(cur_block_id[r], n, snapshot_current_version[r])
    <3>2. issued \in Seq(Transfers)
      BY <3>1, TransfersType, OptimizerAssumption DEF TypeOK
    <3>3. /\ queue' = [queue EXCEPT ![r] = @ \o issued]
          /\ copies' = [copies EXCEPT ![r] = @ \o issued]
          /\ cur_block_id' = [cur_block_id EXCEPT ![r] = @ + n]
          /\ snapshot_gpu_buffer_id' = [snapshot_gpu_buffer_id EXCEPT ![r] = (@ + n) % 2]
      BY <2>1 DEF CollectiveAndHook
    <3> HIDE DEF n, issued
    <3>4. (snapshot_gpu_buffer_id[r] + n) % 2 \in Buffers
      <4>1. snapshot_gpu_buffer_id[r] + n \in Int  BY <3>1, BufferIdType
      <4>. QED  BY <4>1, TwoBuffers
    <3>. QED  BY <3>1, <3>2, <3>3, <3>4 DEF TypeOK
  <2>2. CASE ~(IsSnapshotStep(r) /\ Mode = "interleave" /\ g \in DOMAIN StrategyOf(r))
    BY <2>2 DEF TypeOK, CollectiveAndHook
  <2>. QED  BY <2>1, <2>2
<1>. QED  BY <1>1, <1>2, <1>3 DEF TypeOK, CollectiveAndHook

LEMMA ExchangeType ==
    ASSUME TypeOK, NEW r \in Ranks, Exchange(r)
    PROVE  TypeOK'
<1> DEFINE p == GetPeerRank(r)
           mine == Head(queue[r])
           theirs == Head(queue[p])
<1>1. p \in Ranks /\ p # r  BY PeerSymmetric
<1>2. mine \in Transfers /\ theirs \in Transfers
      /\ Tail(queue[r]) \in Seq(Transfers) /\ Tail(queue[p]) \in Seq(Transfers)
  BY SMTT(60), <1>1 DEF TypeOK, Exchange
<1>3. LiveBlock(p, theirs.block) \in Contents /\ LiveBlock(r, mine.block) \in Contents
  BY <1>1, <1>2, LiveBlockType DEF Transfers
<1> DEFINE toMe == LiveBlock(p, theirs.block)
           toPeer == LiveBlock(r, mine.block)
           i == BufferOf(r, Len(queue[r]))
           j == BufferOf(p, Len(queue[p]))
<1>4. queue' = [queue EXCEPT ![r] = Tail(@), ![p] = Tail(@)]
      /\ gpu' = [gpu EXCEPT ![r][i] = toMe, ![p][j] = toPeer]
      /\ received' = [received EXCEPT ![r][mine.version][mine.block] = toMe,
                                      ![p][theirs.version][theirs.block] = toPeer]
      /\ UNCHANGED <<host, buffers, tensor_blocks, copies, spoilt, file>>
  BY DEF Exchange
<1>5. i \in Buffers /\ j \in Buffers
  <2>1. Len(queue[r]) \in Int /\ Len(queue[p]) \in Int  BY <1>1 DEF TypeOK
  <2>. QED  BY <1>1, <2>1, BufferType
<1>6. toMe \in Contents /\ toPeer \in Contents  BY <1>3
<1> HIDE DEF p, mine, theirs, i, j, toMe, toPeer
<1>7. queue' \in [Ranks -> Seq(Transfers)]  BY <1>1, <1>2, <1>4 DEF TypeOK, p
<1>8. received' \in [Ranks -> [Versions -> [Blocks -> Contents]]]
  <2> DEFINE first == [received EXCEPT ![r][mine.version][mine.block] = toMe]
  <2>1. first \in [Ranks -> [Versions -> [Blocks -> Contents]]]
    BY <1>2, <1>6 DEF TypeOK, Transfers
  <2>2. received' = [first EXCEPT ![p][theirs.version][theirs.block] = toPeer]
    BY <1>4
  <2> HIDE DEF first
  <2>. QED  BY <1>1, <1>2, <1>6, <2>1, <2>2 DEF Transfers
<1>9. gpu' \in [Ranks -> [Buffers -> Contents]]
  <2> DEFINE first == [gpu EXCEPT ![r][i] = toMe]
  <2>1. first \in [Ranks -> [Buffers -> Contents]]  BY <1>5, <1>6 DEF TypeOK
  <2>2. gpu' = [first EXCEPT ![p][j] = toPeer]  BY <1>4
  <2> HIDE DEF first
  <2>. QED  BY <1>1, <1>5, <1>6, <2>1, <2>2
<1>. QED  BY <1>4, <1>7, <1>8, <1>9 DEF TypeOK, host, buffers

(* A copy brings what its GPU buffer holds to its place in CPU memory. *)
LEMMA CopyType ==
    ASSUME TypeOK, NEW r \in Ranks, Copy(r)
    PROVE  TypeOK'
<1> DEFINE c == Head(copies[r])
           i == BufferOf(r, Len(copies[r]))
<1>1. c \in Transfers /\ Tail(copies[r]) \in Seq(Transfers) /\ Len(copies[r]) \in Int
  BY SMTT(60) DEF TypeOK, Copy
<1>2. i \in Buffers  BY <1>1, BufferType
<1>3. /\ copies' = [copies EXCEPT ![r] = Tail(@)]
      /\ tensor_blocks' = [tensor_blocks EXCEPT ![r][c.version][c.block] = gpu[r][i]]
      /\ spoilt' = [spoilt EXCEPT ![r] = IF InTime(r) THEN @ \ {c} ELSE @ \cup {c}]
      /\ UNCHANGED <<host, buffers, gpu, queue, received, file>>
  BY DEF Copy
<1> HIDE DEF c, i
<1>4. copies' \in [Ranks -> Seq(Transfers)]  BY <1>1, <1>3 DEF TypeOK
<1>5. tensor_blocks' \in [Ranks -> [Versions -> [Blocks -> Contents]]]
  <2>1. gpu[r][i] \in Contents /\ c.version \in Versions /\ c.block \in Blocks
    BY <1>1, <1>2 DEF TypeOK, Transfers
  <2>. QED  BY <1>3, <2>1 DEF TypeOK
<1>6. spoilt' \in [Ranks -> SUBSET Transfers]  BY <1>1, <1>3 DEF TypeOK
<1>. QED  BY <1>3, <1>4, <1>5, <1>6 DEF TypeOK, host, buffers

LEMMA UpdateType ==
    ASSUME TypeOK, NEW r \in Ranks, UpdateLocalOptimizerSnapshot(r)
    PROVE  TypeOK'
<1> DEFINE v == NextVersion(snapshot_current_version[r])
           own == [b \in Blocks |-> LiveBlock(r, b)]
<1>1. v \in Versions  BY VersionFacts DEF TypeOK
<1>2. own \in [Blocks -> Contents]  BY LiveBlockType
<1> DEFINE issued == IF Mode = "naive" THEN TransfersOf(0, TotalBlocks, v) ELSE << >>
<1>3. issued \in Seq(Transfers) /\ Len(issued) \in Nat
  BY <1>1, TransfersType, OptimizerAssumption
<1>4. /\ queue' \in [Ranks -> Seq(Transfers)]
      /\ copies' \in [Ranks -> Seq(Transfers)]
      /\ snapshot_gpu_buffer_id' \in [Ranks -> Buffers]
  <2>1. /\ queue' = [queue EXCEPT ![r] = @ \o issued]
        /\ copies' = [copies EXCEPT ![r] = @ \o issued]
        /\ snapshot_gpu_buffer_id' =
               [snapshot_gpu_buffer_id EXCEPT ![r] = (@ + Len(issued)) % 2]
    BY DEF UpdateLocalOptimizerSnapshot
  <2> HIDE DEF issued
  <2>2. (snapshot_gpu_buffer_id[r] + Len(issued)) % 2 \in Buffers
    <3>1. snapshot_gpu_buffer_id[r] + Len(issued) \in Int
      BY <1>3, BufferIdType
    <3>. QED  BY <3>1, TwoBuffers
  <2>. QED  BY <1>3, <2>1, <2>2 DEF TypeOK
<1> HIDE DEF issued
<1>5. /\ tensor_blocks' \in [Ranks -> [Versions -> [Blocks -> Contents]]]
      /\ received' \in [Ranks -> [Versions -> [Blocks -> Contents]]]
      /\ gpu' \in [Ranks -> [Buffers -> Contents]]
      /\ saved_dicts' \in [Ranks -> [Blocks -> Contents]]
      /\ have_set_snapshot_strategy' \in [Ranks -> BOOLEAN]
  <2> HIDE DEF v
  <2>1. CASE SetsStrategy(r)
    <3>1. /\ have_set_snapshot_strategy' = [have_set_snapshot_strategy EXCEPT ![r] = TRUE]
          /\ tensor_blocks' = [tensor_blocks EXCEPT ![r] = [w \in Versions |-> own]]
          /\ received' = [received EXCEPT ![r] = [w \in Versions |-> own]]
          /\ gpu' = [gpu EXCEPT ![r] = [i \in Buffers |-> Zeros]]
          /\ saved_dicts' = [saved_dicts EXCEPT ![r] = own]
      BY <2>1 DEF UpdateLocalOptimizerSnapshot
    <3>2. Zeros \in Contents
      BY OptimizerAssumption DEF Zeros, Contents, Blocks
    <3> HIDE DEF own
    <3>. QED  BY <1>2, <3>1, <3>2 DEF TypeOK
  <2>2. CASE ~SetsStrategy(r)  BY <2>2 DEF UpdateLocalOptimizerSnapshot, TypeOK
  <2>. QED  BY <2>1, <2>2
<1>6. /\ cur_block_id' \in [Ranks -> 0 .. TotalBlocks]
      /\ comm_gap_id' \in [Ranks -> Nat \cup {-1}]
      /\ snapshot_current_version' \in [Ranks -> Versions]
      /\ have_local' \in [Ranks -> BOOLEAN]
      /\ phase' \in [Ranks -> Phases]
  BY <1>1, OptimizerAssumption DEF UpdateLocalOptimizerSnapshot, TypeOK, Phases
<1>. QED  BY <1>4, <1>5, <1>6 DEF UpdateLocalOptimizerSnapshot, TypeOK

LEMMA NextType ==
    TypeOK /\ [Next]_vars => TypeOK'
<1> SUFFICES ASSUME TypeOK, [Next]_vars PROVE TypeOK'  OBVIOUS
<1>1. ASSUME NEW r \in Ranks, CollectiveAndHook(r) PROVE TypeOK'
  BY <1>1, HookType
<1>2. ASSUME NEW r \in Ranks, Exchange(r) PROVE TypeOK'  BY <1>2, ExchangeType
<1>11. ASSUME NEW r \in Ranks, Copy(r) PROVE TypeOK'  BY <1>11, CopyType
<1>3. ASSUME NEW r \in Ranks, ApplyStep(r) PROVE TypeOK'
  BY <1>3 DEF ApplyStep, TypeOK, Phases, buffers, device
<1>4. ASSUME NEW r \in Ranks, UpdateLocalOptimizerSnapshot(r) PROVE TypeOK'
  BY <1>4, UpdateType
<1>5. ASSUME NEW r \in Ranks, EndIteration(r) PROVE TypeOK'
  <2>1. hook' \in [Ranks -> 0 .. HooksPerIter] /\ phase' \in [Ranks -> Phases]
    <3>1. CASE iter[r] + 1 >= MaxIter
      <4>1. phase' = [phase EXCEPT ![r] = "exiting"] /\ hook' = hook
        BY <1>5, <3>1 DEF EndIteration, device
      <4>. QED  BY <4>1 DEF TypeOK, Phases
    <3>2. CASE ~(iter[r] + 1 >= MaxIter)
      <4>1. phase' = [phase EXCEPT ![r] = "train"] /\ hook' = [hook EXCEPT ![r] = 0]
        BY <1>5, <3>2 DEF EndIteration, device
      <4>. QED  BY <4>1, OptimizerAssumption DEF TypeOK, Phases
    <3>. QED  BY <3>1, <3>2
  <2>. QED  BY <1>5, <2>1 DEF EndIteration, TypeOK, buffers, device
<1>6. ASSUME NEW r \in Ranks, SaveOptimizerSnapshotToDisk(r) PROVE TypeOK'
  <2>1. DOMAIN file' = Ranks
    BY <1>6 DEF SaveOptimizerSnapshotToDisk, TypeOK, device
  <2>. QED  BY <1>6, <2>1 DEF SaveOptimizerSnapshotToDisk, TypeOK, Phases, buffers, device
<1>7. ASSUME NEW r \in Ranks, Interrupt(r) PROVE TypeOK'
  BY <1>7 DEF Interrupt, TypeOK, Phases, buffers, device
<1>8. CASE OverflowCheck
  BY <1>8 DEF OverflowCheck, TypeOK, Phases, buffers, device
<1>9. ASSUME NEW m \in MachineRanks, Crash(m) PROVE TypeOK'
  BY <1>9 DEF Crash, TypeOK, Phases, buffers, device
<1>10. CASE UNCHANGED vars  BY <1>10 DEF vars, host, buffers, TypeOK, device
<1>. QED
  BY <1>1, <1>2, <1>3, <1>4, <1>5, <1>6, <1>7, <1>8, <1>9, <1>10, <1>11 DEF Next, RankStep

(* Every variable keeps its type: in particular no sequence of gaps, steps
   and overflows moves cur_block_id past the last block or queues a
   transfer to a block or version that does not exist. *)
THEOREM TypeCorrect == Spec => []TypeOK
  BY InitType, NextType, PTL DEF Spec

----------------------------------------------------------------------------
(* The latest completed version is complete. *)

(* The latest completed version is the one not current. *)
LEMMA LatestFacts ==
    ASSUME TypeOK, NEW r \in Ranks
    PROVE  /\ LatestCompletedSnapshotVersion(r) = 1 - snapshot_current_version[r]
           /\ LatestCompletedSnapshotVersion(r) \in Versions
           /\ LatestCompletedSnapshotVersion(r) # snapshot_current_version[r]
<1>1. snapshot_current_version[r] \in Versions  BY DEF TypeOK
<1>2. LatestCompletedSnapshotVersion(r) = 1 - snapshot_current_version[r]
  BY <1>1, VersionFacts DEF LatestCompletedSnapshotVersion
<1>. QED  BY <1>1, <1>2 DEF Versions

(* What the proof needs of the mode and the strategy. *)
Covered(sent) == SentByHook(sent) \/ Mode = "naive"

LEMMA InitInv == ASSUME NEW sent, Init PROVE IInv(sent)
<1>1. TypeOK  BY InitType
<1>2. \A r \in Ranks : Received(r) = 0  BY DEF Init, Received
<1>3. \A r \in Ranks : GetPeerRank(r) \in Ranks  BY PeerSymmetric
<1>4. \A r \in Ranks, v \in Versions : IsCopyOf(received[r][v], r)
  <2> TAKE r \in Ranks, v \in Versions
  <2>1. 0 \in Blocks  BY OptimizerAssumption DEF Blocks
  <2>. QED  BY <2>1 DEF Init, IsCopyOf, LiveBlock
<1>5. LatestArrived
  <2>1. \A r \in Ranks : LatestCompletedSnapshotVersion(r) \in Versions
    BY <1>1, LatestFacts
  <2>. QED  BY <1>4, <2>1 DEF LatestArrived, LatestReceived
<1>6. ASSUME NEW r \in Ranks
      PROVE  /\ QueueInOrder(r) /\ IdleBeforeStrategy(r) /\ OnSchedule(r, sent)
             /\ InStep(r, GetPeerRank(r)) /\ ReceivedInPlace(r, GetPeerRank(r))
  <2>1. QueueInOrder(r)  BY <1>2, TransfersNone DEF QueueInOrder, Init
  <2>2. IdleBeforeStrategy(r)  BY <1>4 DEF IdleBeforeStrategy, Init
  <2>3. OnSchedule(r, sent)  BY DEF OnSchedule, Init
  <2>4. InStep(r, GetPeerRank(r))  BY <1>2, <1>3 DEF InStep, Init, AtStep
  <2>5. ReceivedInPlace(r, GetPeerRank(r))  BY <1>2 DEF ReceivedInPlace, Blocks
  <2>. QED  BY <2>1, <2>2, <2>3, <2>4, <2>5
<1>. QED  BY <1>1, <1>5, <1>6 DEF IInv

(* A step that leaves buffers and queues alone leaves alone what is said
   about their contents. *)
LEMMA Frame ==
    ASSUME NEW sent, IInv(sent), UNCHANGED <<buffers, received, queue>>
    PROVE  /\ \A r \in Ranks : /\ Received(r)' = Received(r)
                               /\ QueueInOrder(r)'
                               /\ IdleBeforeStrategy(r)'
                               /\ live' = live => ReceivedInPlace(r, GetPeerRank(r))'
           /\ LatestArrived'
<1>1. \A r \in Ranks : Received(r)' = Received(r)  BY DEF Received, buffers
<1>2. \A r \in Ranks : QueueInOrder(r)'
  BY <1>1 DEF QueueInOrder, buffers, IInv
<1>3. \A r \in Ranks : IdleBeforeStrategy(r)'
  BY DEF IdleBeforeStrategy, buffers, IInv, IsCopyOf
<1>4. \A r \in Ranks : live' = live => ReceivedInPlace(r, GetPeerRank(r))'
  BY <1>1 DEF ReceivedInPlace, CurrentReceived, buffers, IInv
<1>5. LatestArrived'
  BY DEF LatestArrived, LatestReceived, LatestCompletedSnapshotVersion, IsCopyOf, buffers, IInv
<1>. QED  BY <1>1, <1>2, <1>3, <1>4, <1>5

(* Interrupt, Crash and SaveOptimizerSnapshotToDisk: ranks only leave. *)
LEMMA LeaveInv ==
    ASSUME NEW sent, IInv(sent), TypeOK', UNCHANGED <<buffers, received, queue, live, hook>>,
           \A q \in Ranks : phase'[q] = phase[q]
                            \/ phase'[q] \in {"exiting", "exited", "crashed"}
    PROVE  IInv(sent)'
<1>1. \A q \in Ranks : /\ Received(q)' = Received(q)
                       /\ QueueInOrder(q)' /\ IdleBeforeStrategy(q)'
                       /\ ReceivedInPlace(q, GetPeerRank(q))'
  BY Frame
<1>2. LatestArrived'  BY Frame
<1>3. \A q \in Ranks : OnSchedule(q, sent)'
  BY DEF OnSchedule, AtStep, IInv, buffers
<1>4. \A q \in Ranks : InStep(q, GetPeerRank(q))'
  <2> TAKE q \in Ranks
  <2> DEFINE p == GetPeerRank(q)
  <2>1. p \in Ranks  BY PeerSymmetric
  <2>2. InStep(q, p)  BY DEF IInv
  <2>3. /\ Received(q)' = Received(q) /\ Received(p)' = Received(p)
        /\ snapshot_current_version' = snapshot_current_version /\ queue' = queue
    BY <1>1, <2>1 DEF buffers
  <2> HIDE DEF p
  <2>4. ASSUME NEW x \in Ranks, NEW y \in Ranks, Behind(x, y), 
               Received(y)' = Received(y)
        PROVE  Behind(x, y)'
    BY <2>3, <2>4 DEF Behind, AtStep
  <2>5. CASE Behind(q, p) \/ Behind(p, q)
    BY <2>1, <2>3, <2>4, <2>5 DEF InStep, p
  <2>6. CASE ~(Behind(q, p) \/ Behind(p, q))
    <3>1. /\ snapshot_current_version[q] = snapshot_current_version[p]
          /\ Received(q) = Received(p)
          /\ AtStep(q) => /\ queue[q] = << >> /\ queue[p] = << >>
                          /\ phase[p] \notin {"train", "sync"}
      BY <2>2, <2>6 DEF InStep
    <3>2. AtStep(q)' => AtStep(q)  BY DEF AtStep
    <3>3. phase[p] \notin {"train", "sync"} => phase'[p] \notin {"train", "sync"}
      BY <2>1
    <3>. QED  BY <2>3, <3>1, <3>2, <3>3 DEF InStep, p
  <2>. QED  BY <2>5, <2>6 DEF p
<1>. QED  BY <1>1, <1>2, <1>3, <1>4 DEF IInv

LEMMA OverflowInv ==
    ASSUME NEW sent, Covered(sent), IInv(sent), OverflowCheck
    PROVE  IInv(sent)'
<1>1. TypeOK'  BY NextType DEF IInv, Next
<1>2. UNCHANGED <<buffers, received, queue, live>>
  BY DEF OverflowCheck, device
<1>3. /\ \A q \in Ranks : /\ Received(q)' = Received(q)
                          /\ QueueInOrder(q)' /\ IdleBeforeStrategy(q)'
                          /\ ReceivedInPlace(q, GetPeerRank(q))'
      /\ LatestArrived'
  BY <1>2, Frame
<1>4. \A q \in Ranks : phase[q] = "train" /\ hook[q] = HooksPerIter /\ queue[q] = << >>
  BY DEF OverflowCheck, device
<1>5. \A q \in Ranks : phase'[q] \in {"sync", "apply"}
  BY DEF OverflowCheck, device
<1>6. \A q \in Ranks : have_set_snapshot_strategy[q] => cur_block_id[q] = TotalBlocks
  BY <1>4 DEF IInv, OnSchedule, Covered, SentByHook
<1>7. \A q \in Ranks : OnSchedule(q, sent)'
  BY <1>2, <1>5, <1>6 DEF OnSchedule, buffers
<1>8. ASSUME NEW q \in Ranks PROVE InStep(q, GetPeerRank(q))'
  <2> DEFINE p == GetPeerRank(q)
  <2>1. p \in Ranks  BY PeerSymmetric
  <2>2. InStep(q, p)  BY DEF IInv
  <2> HIDE DEF p
  <2>3. snapshot_current_version[q] = snapshot_current_version[p] /\ Received(q) = Received(p)
    BY <1>4, <2>1, <2>2 DEF InStep, Behind
  <2>4. /\ snapshot_current_version'[q] = snapshot_current_version'[p]
        /\ Received(q)' = Received(p)'
    BY <1>2, <1>3, <2>1, <2>3 DEF buffers
  <2>5. CASE phase'[p] = "apply"  BY <1>2, <1>4, <2>1, <2>4, <2>5 DEF InStep, p
  <2>6. CASE phase'[p] = "sync"
    <3>1. phase'[q] = "sync"  BY <2>1, <2>6 DEF OverflowCheck, device
    <3>. QED  BY <2>4, <3>1 DEF InStep, AtStep, p
  <2>. QED  BY <1>5, <2>1, <2>5, <2>6
<1>. QED  BY <1>1, <1>3, <1>7, <1>8 DEF IInv

(* The state of r moves on: nothing of its old state is left to be sent. *)
LEMMA ApplyInv ==
    ASSUME NEW sent, IInv(sent), NEW r \in Ranks, ApplyStep(r)
    PROVE  IInv(sent)'
<1>1. TypeOK'  BY NextType DEF IInv, Next, RankStep
<1>2. UNCHANGED <<buffers, received, queue>>  BY DEF ApplyStep, device
<1>3. /\ \A q \in Ranks : /\ Received(q)' = Received(q)
                          /\ QueueInOrder(q)' /\ IdleBeforeStrategy(q)'
      /\ LatestArrived'
  BY <1>2, Frame
<1>4. /\ phase[r] = "apply"
      /\ phase' = [phase EXCEPT ![r] = "update"]
      /\ live' = [live EXCEPT ![r] = @ + 1]
  BY DEF ApplyStep, device
<1>5. \A q \in Ranks : /\ AtStep(q)' <=> AtStep(q)
                       /\ phase'[q] = "train" <=> phase[q] = "train"
                       /\ phase'[q] = "sync" <=> phase[q] = "sync"
  BY <1>4 DEF AtStep, IInv, TypeOK
<1>6. \A q \in Ranks : OnSchedule(q, sent)'
  BY <1>2, <1>4, <1>5 DEF OnSchedule, buffers, IInv, ApplyStep, device
<1>7. \A q \in Ranks : InStep(q, GetPeerRank(q))'
  <2> TAKE q \in Ranks
  <2> DEFINE p == GetPeerRank(q)
  <2>1. p \in Ranks  BY PeerSymmetric
  <2>2. InStep(q, p)  BY DEF IInv
  <2> HIDE DEF p
  <2>. QED  BY <1>2, <1>3, <1>5, <2>1, <2>2 DEF InStep, Behind, buffers, p
<1>8. ASSUME NEW q \in Ranks PROVE ReceivedInPlace(q, GetPeerRank(q))'
  <2> DEFINE p == GetPeerRank(q)
  <2>1. p \in Ranks /\ GetPeerRank(p) = q  BY PeerSymmetric
  <2>2. ReceivedInPlace(q, p)  BY DEF IInv
  <2>3. CurrentReceived(q)' = CurrentReceived(q) /\ Received(q)' = Received(q)
    BY <1>2, <1>3 DEF CurrentReceived, buffers
  <2>4. CASE p # r
    <3>1. live'[p] = live[p]  BY <1>4, <2>1, <2>4 DEF IInv, TypeOK
    <3>. QED  BY <2>2, <2>3, <3>1 DEF ReceivedInPlace
  <2>5. CASE p = r
    <3>1. Received(q) = 0 \/ Received(q) = TotalBlocks
      <4>1. InStep(r, q)  BY <2>1, <2>5 DEF IInv
      <4>2. AtStep(r)  BY <1>4 DEF AtStep
      <4>3. CASE Received(r) = Received(q) /\ queue[r] = << >>
        <5>1. Received(r) = cur_block_id[r]  BY <4>3 DEF Received, IInv, TypeOK
        <5>2. cur_block_id[r] = 0 \/ cur_block_id[r] = TotalBlocks
          BY <4>2 DEF IInv, OnSchedule, IdleBeforeStrategy
        <5>. QED  BY <4>3, <5>1, <5>2
      <4>. QED  BY <4>1, <4>2, <4>3 DEF InStep, Behind
    <3>2. ~(0 < Received(q) /\ Received(q) < TotalBlocks)
      BY <3>1, OptimizerAssumption
    <3> HIDE DEF p
    <3>. QED  BY <2>2, <2>3, <3>2 DEF ReceivedInPlace, p
  <2>. QED  BY <2>4, <2>5
<1>. QED  BY <1>1, <1>3, <1>6, <1>7, <1>8 DEF IInv

LEMMA EndIterationInv ==
    ASSUME NEW sent, Covered(sent), IInv(sent), NEW r \in Ranks, EndIteration(r)
    PROVE  IInv(sent)'
<1>1. TypeOK'  BY NextType DEF IInv, Next, RankStep
<1>2. UNCHANGED <<buffers, received, queue, live>>  BY DEF EndIteration, device
<1>3. /\ \A q \in Ranks : /\ Received(q)' = Received(q)
                          /\ QueueInOrder(q)' /\ IdleBeforeStrategy(q)'
                          /\ ReceivedInPlace(q, GetPeerRank(q))'
      /\ LatestArrived'
  BY <1>2, Frame
<1>4. /\ phase[r] = "sync"
      /\ \/ phase' = [phase EXCEPT ![r] = "exiting"] /\ hook' = hook
         \/ phase' = [phase EXCEPT ![r] = "train"] /\ hook' = [hook EXCEPT ![r] = 0]
  BY DEF EndIteration, device
<1>5. \A q \in Ranks : q # r => phase'[q] = phase[q] /\ hook'[q] = hook[q]
  BY <1>4 DEF IInv, TypeOK
<1>6. phase'[r] = "exiting" \/ (phase'[r] = "train" /\ hook'[r] = 0)
  <2>1. phase \in [Ranks -> Phases] /\ hook \in [Ranks -> 0 .. HooksPerIter]
    BY DEF IInv, TypeOK
  <2>2. CASE phase' = [phase EXCEPT ![r] = "exiting"]  BY <2>1, <2>2
  <2>3. CASE phase' = [phase EXCEPT ![r] = "train"] /\ hook' = [hook EXCEPT ![r] = 0]
    BY <2>1, <2>3
  <2>. QED  BY <1>4, <2>2, <2>3
<1>7. ASSUME NEW q \in Ranks PROVE OnSchedule(q, sent)'
  <2>1. CASE q # r  BY <1>2, <1>5, <2>1 DEF OnSchedule, AtStep, buffers, IInv
  <2>2. CASE q = r
    <3>1. OnSchedule(r, sent)  BY DEF IInv
    <3>2. CASE phase'[r] = "exiting"
      BY <1>2, <2>2, <3>1, <3>2 DEF OnSchedule, AtStep, buffers
    <3>3. CASE phase'[r] = "train" /\ hook'[r] = 0
      <4>1. 0 - 1 = -1  OBVIOUS
      <4>. QED  BY <1>2, <1>4, <2>2, <3>1, <3>3, <4>1 DEF OnSchedule, AtStep, buffers
    <3>. QED  BY <1>6, <3>2, <3>3
  <2>. QED  BY <2>1, <2>2
<1>8. ASSUME NEW q \in Ranks
      PROVE  /\ AtStep(q)' <=> AtStep(q)
             /\ phase[q] \notin {"train", "sync"} => phase'[q] \notin {"train", "sync"}
  <2>1. CASE q # r  BY <1>5, <2>1 DEF AtStep
  <2>2. CASE q = r  BY <1>4, <1>6, <2>2 DEF AtStep
  <2>. QED  BY <2>1, <2>2
<1>9. \A q \in Ranks : InStep(q, GetPeerRank(q))'
  <2> TAKE q \in Ranks
  <2> DEFINE p == GetPeerRank(q)
  <2>1. p \in Ranks  BY PeerSymmetric
  <2>2. InStep(q, p)  BY DEF IInv
  <2> HIDE DEF p
  <2>. QED  BY <1>2, <1>3, <1>8, <2>1, <2>2 DEF InStep, Behind, buffers, p
<1>. QED  BY <1>1, <1>3, <1>7, <1>9 DEF IInv

(* A hook queues the next blocks in order and stays on schedule. *)
LEMMA HookInv ==
    ASSUME NEW sent, Covered(sent), IInv(sent), NEW r \in Ranks, CollectiveAndHook(r)
    PROVE  /\ IInv(sent)'
           /\ \A q \in Ranks : /\ Received(q)' = Received(q)
                               /\ q # r => queue'[q] = queue[q]
<1> DEFINE c == cur_block_id[r]
           v == snapshot_current_version[r]
           posts == IsSnapshotStep(r) /\ Mode = "interleave"
                      /\ comm_gap_id[r] \in DOMAIN Strategy
           n == IF posts THEN BlocksToSend(c, Strategy[comm_gap_id[r]]) ELSE 0
<1>1. TypeOK /\ TypeOK'  BY NextType DEF IInv, Next, RankStep
<1>2. /\ phase[r] = "train" /\ hook[r] < HooksPerIter
      /\ hook' = [hook EXCEPT ![r] = @ + 1]
      /\ UNCHANGED <<phase, live, snapshot_current_version,
                     have_set_snapshot_strategy, received>>
  BY DEF CollectiveAndHook
<1>3. /\ n \in Nat /\ c \in 0 .. TotalBlocks /\ c + n \in 0 .. TotalBlocks
      /\ c = TotalBlocks => n = 0
      /\ v \in Versions
  <2>1. c \in 0 .. TotalBlocks /\ v \in Versions /\ TotalBlocks \in Nat
    BY <1>1, OptimizerAssumption DEF TypeOK
  <2>2. CASE posts
    <3>1. Strategy[comm_gap_id[r]] \in Nat \cup {-1}
      BY <2>2, OptimizerAssumption
    <3>2. n = BlocksToSend(c, Strategy[comm_gap_id[r]])  BY <2>2
    <3> HIDE DEF c, n, v
    <3>. QED  BY <2>1, <3>1, <3>2, BlocksToSendType
  <2>3. CASE ~posts
    <3>1. n = 0  BY <2>3
    <3> HIDE DEF c, n, v
    <3>. QED  BY <2>1, <3>1
  <2>. QED  BY <2>2, <2>3
<1>4. /\ QueueInOrder(r) /\ IdleBeforeStrategy(r) /\ OnSchedule(r, sent)
  BY DEF IInv
<1>5. \A q \in Ranks : q # r => /\ queue'[q] = queue[q]
                                /\ cur_block_id'[q] = cur_block_id[q]
                                /\ comm_gap_id'[q] = comm_gap_id[q]
                                /\ hook'[q] = hook[q]
  <2>1. CASE posts
    BY <1>1, <1>2, <2>1 DEF CollectiveAndHook, TypeOK, StrategyOf
  <2>2. CASE ~posts
    BY <1>1, <1>2, <2>2 DEF CollectiveAndHook, TypeOK, StrategyOf
  <2>. QED  BY <2>1, <2>2
<1>6. /\ cur_block_id'[r] = c + n
      /\ queue'[r] = queue[r] \o TransfersOf(c, n, v)
  <2>1. CASE posts  BY <1>1, <2>1 DEF CollectiveAndHook, TypeOK, StrategyOf
  <2>2. CASE ~posts
    <3>1. queue' = queue /\ cur_block_id' = cur_block_id /\ n = 0
      BY <2>2 DEF CollectiveAndHook, StrategyOf
    <3>2. queue[r] \o << >> = queue[r] /\ c + 0 = c  BY <1>1, <1>3 DEF TypeOK
    <3> HIDE DEF n, c, v
    <3>. QED  BY <3>1, <3>2, TransfersNone DEF c
  <2>. QED  BY <2>1, <2>2
<1>7. have_set_snapshot_strategy[r] => comm_gap_id'[r] = comm_gap_id[r] + 1
  BY <1>1 DEF CollectiveAndHook, TypeOK, IsSnapshotStep
<1>8. ~have_set_snapshot_strategy[r] => n = 0 /\ c = 0 /\ queue[r] = << >>
  BY <1>4 DEF IdleBeforeStrategy, IsSnapshotStep
<1>9. Received(r)' = Received(r) /\ QueueInOrder(r)'
  <2> DEFINE f == Received(r)
             l == Len(queue[r])
  <2>1. l \in Nat /\ f \in Nat /\ f + l = c /\ queue[r] = TransfersOf(f, l, v)
    BY <1>1, <1>3, <1>4 DEF QueueInOrder, Received, TypeOK
  <2> HIDE DEF n, c, v, f, l
  <2>2. TransfersOf(f, l, v) \o TransfersOf(f + l, n, v) = TransfersOf(f, l + n, v)
    <3>1. f + l + n <= TotalBlocks  BY <1>3, <2>1, OptimizerAssumption
    <3>. QED  BY ZenonT(60), <1>3, <2>1, <3>1, TransfersConcat
  <2>3. queue'[r] = TransfersOf(f, l + n, v)  BY <1>6, <2>1, <2>2
  <2>4. Len(queue'[r]) = l + n
    BY <1>3, <2>1, <2>3, TransfersType, OptimizerAssumption
  <2>5. Received(r)' = f  BY <1>3, <1>6, <2>1, <2>4 DEF Received
  <2>. QED  BY <1>2, <2>1, <2>3, <2>4, <2>5 DEF QueueInOrder, f, v
<1> HIDE DEF n
<1>10. OnSchedule(r, sent)'
  <2>1. CASE ~have_set_snapshot_strategy[r]  BY <1>2, <2>1 DEF OnSchedule
  <2>2. CASE have_set_snapshot_strategy[r] /\ c = TotalBlocks
    <3>1. cur_block_id'[r] = TotalBlocks  BY <1>3, <1>6, <2>2
    <3>. QED  BY <1>2, <3>1 DEF OnSchedule
  <2>3. CASE have_set_snapshot_strategy[r] /\ c # TotalBlocks
    <3>1. Mode = "interleave" /\ SentByHook(sent)
      BY <1>4, <2>3, OptimizerAssumption DEF OnSchedule, Covered
    <3>2. comm_gap_id[r] = hook[r] - 1 /\ c = sent[hook[r]]
      BY <1>2, <1>4, <2>3 DEF OnSchedule
    <3>3. hook[r] \in 0 .. HooksPerIter - 1 /\ hook'[r] = hook[r] + 1
      BY <1>1, <1>2, OptimizerAssumption DEF TypeOK
    <3>4. n = IF hook[r] - 1 \in DOMAIN Strategy
                THEN BlocksToSend(sent[hook[r]], Strategy[hook[r] - 1]) ELSE 0
      BY <2>3, <3>1, <3>2 DEF n, IsSnapshotStep
    <3>5. sent[hook[r] + 1] = sent[hook[r]] + n
      BY <3>1, <3>3, <3>4 DEF SentByHook
    <3>6. cur_block_id'[r] = sent[hook'[r]]  BY <1>6, <3>2, <3>3, <3>5
    <3>7. comm_gap_id'[r] = hook'[r] - 1  BY <1>7, <2>3, <3>2, <3>3
    <3>. QED  BY <1>2, <3>1, <3>6, <3>7 DEF OnSchedule, AtStep
  <2>. QED  BY <2>1, <2>2, <2>3
<1>11. ASSUME NEW q \in Ranks
       PROVE  /\ Received(q)' = Received(q)
              /\ QueueInOrder(q)' /\ IdleBeforeStrategy(q)' /\ OnSchedule(q, sent)'
  <2>1. CASE q = r
    <3>1. IdleBeforeStrategy(r)'
      <4>1. CASE have_set_snapshot_strategy[r]
        BY <1>2, <4>1 DEF IdleBeforeStrategy
      <4>2. CASE ~have_set_snapshot_strategy[r]
        <5>1. cur_block_id'[r] = 0  BY <1>6, <1>8, <4>2
        <5>2. queue'[r] = << >>
          <6>1. queue'[r] = << >> \o TransfersOf(c, 0, v)  BY <1>6, <1>8, <4>2
          <6>. QED  BY <6>1, TransfersNone
        <5>. QED  BY <1>2, <1>4, <4>2, <5>1, <5>2 DEF IdleBeforeStrategy, IsCopyOf
      <4>. QED  BY <4>1, <4>2
    <3>. QED  BY <1>9, <1>10, <2>1, <3>1
  <2>2. CASE q # r
    <3>1. QueueInOrder(q) /\ IdleBeforeStrategy(q) /\ OnSchedule(q, sent)
      BY DEF IInv
    <3>2. Received(q)' = Received(q)  BY <1>5, <2>2 DEF Received
    <3>. QED  BY <1>2, <1>5, <2>2, <3>1, <3>2
              DEF QueueInOrder, IdleBeforeStrategy, OnSchedule, AtStep, IsCopyOf
  <2>. QED  BY <2>1, <2>2
<1>12. ASSUME NEW q \in Ranks
       PROVE  InStep(q, GetPeerRank(q))' /\ ReceivedInPlace(q, GetPeerRank(q))'
  <2> DEFINE p == GetPeerRank(q)
  <2>1. p \in Ranks /\ p # q /\ GetPeerRank(p) = q  BY PeerSymmetric
  <2>2. InStep(q, p) /\ InStep(p, q) /\ ReceivedInPlace(q, p)  BY <2>1 DEF IInv
  <2>3. /\ Received(q)' = Received(q) /\ Received(p)' = Received(p)
        /\ q # r => queue'[q] = queue[q]
        /\ p # r => queue'[p] = queue[p]
    BY <1>5, <1>11, <2>1
  <2> HIDE DEF p, c, v
  <2>4. ReceivedInPlace(q, p)'
    BY <1>2, <2>2, <2>3 DEF ReceivedInPlace, CurrentReceived
  <2>5. InStep(q, p)'  BY <1>2, <2>2, <2>3 DEF InStep, Behind, AtStep
  <2>. QED  BY <2>4, <2>5 DEF p
<1>13. LatestArrived'
  BY <1>2 DEF IInv, LatestArrived, LatestReceived, LatestCompletedSnapshotVersion, IsCopyOf
<1>. QED  BY <1>1, <1>5, <1>11, <1>12, <1>13 DEF IInv

(* What a transfer does, seen from one side: block Received(r) of the peer
   arrives in its place in the current version, at the peer's present step. *)
LEMMA ExchangeSide ==
    ASSUME NEW sent, IInv(sent), NEW r \in Ranks, Exchange(r),
           NEW q \in {r, GetPeerRank(r)}, NEW p \in {r, GetPeerRank(r)}, p # q
    PROVE  /\ q \in Ranks /\ p = GetPeerRank(q) /\ q = GetPeerRank(p)
           /\ snapshot_current_version[q] = snapshot_current_version[p]
           /\ Received(q) = Received(p)
           /\ ~AtStep(q)
           /\ have_set_snapshot_strategy[q]
           /\ Received(q) \in Blocks
           /\ Received(q)' = Received(q) + 1
           /\ QueueInOrder(q)'
           /\ \A b \in Blocks : CurrentReceived(q)'[b] =
                 IF b = Received(q) THEN LiveBlock(p, b) ELSE CurrentReceived(q)[b]
           /\ LatestReceived(q)' = LatestReceived(q)
<1>1. TypeOK  BY DEF IInv
<1>2. GetPeerRank(r) \in Ranks /\ GetPeerRank(r) # r /\ GetPeerRank(GetPeerRank(r)) = r
  BY PeerSymmetric
<1>3. q \in Ranks /\ p \in Ranks /\ p = GetPeerRank(q) /\ q = GetPeerRank(p)
  BY <1>2
<1>4. queue[q] # << >> /\ queue[p] # << >>  BY <1>3 DEF Exchange
<1>5. InStep(q, p)  BY <1>3 DEF IInv
<1>6. snapshot_current_version[q] = snapshot_current_version[p]
      /\ Received(q) = Received(p) /\ ~AtStep(q)
  BY <1>4, <1>5 DEF InStep, Behind
<1>7. have_set_snapshot_strategy[q]  BY <1>3, <1>4 DEF IInv, IdleBeforeStrategy
<1> DEFINE f == Received(q)
           v == snapshot_current_version[q]
<1>8. /\ f \in Nat /\ v \in Versions
      /\ Len(queue[q]) \in Nat \ {0} /\ f + Len(queue[q]) = cur_block_id[q]
      /\ Len(queue[p]) \in Nat \ {0} /\ f + Len(queue[p]) = cur_block_id[p]
      /\ cur_block_id[q] \in 0 .. TotalBlocks /\ cur_block_id[p] \in 0 .. TotalBlocks
      /\ TotalBlocks \in Nat
  <2>1. QueueInOrder(q) /\ QueueInOrder(p)  BY <1>3 DEF IInv
  <2>2. queue[q] \in Seq(Transfers) /\ queue[p] \in Seq(Transfers)
    BY <1>1, <1>3 DEF TypeOK
  <2>3. Len(queue[q]) \in Nat \ {0} /\ Len(queue[p]) \in Nat \ {0}
    BY <1>4, <2>2, EmptySeq
  <2>4. cur_block_id[q] \in 0 .. TotalBlocks /\ cur_block_id[p] \in 0 .. TotalBlocks
        /\ v \in Versions /\ TotalBlocks \in Nat
    BY <1>1, <1>3, OptimizerAssumption DEF TypeOK
  <2>5. f = cur_block_id[q] - Len(queue[q]) /\ f = cur_block_id[p] - Len(queue[p]) /\ f >= 0
    BY <1>6, <2>1 DEF QueueInOrder, Received
  <2> HIDE DEF f, v
  <2>. QED  BY <2>3, <2>4, <2>5
<1>9. queue[q] = TransfersOf(f, Len(queue[q]), v) /\ queue[p] = TransfersOf(f, Len(queue[p]), v)
  BY <1>3, <1>6 DEF IInv, QueueInOrder
<1> HIDE DEF f, v
<1>10. f \in Blocks  BY <1>8 DEF Blocks
<1>11. /\ Head(queue[q]) = [version |-> v, block |-> f]
       /\ Head(queue[p]) = [version |-> v, block |-> f]
       /\ Tail(queue[q]) = TransfersOf(f + 1, Len(queue[q]) - 1, v)
  <2>1. f + Len(queue[q]) <= TotalBlocks /\ f + Len(queue[p]) <= TotalBlocks
    BY <1>8
  <2>. QED  BY ZenonT(60), <1>8, <1>9, <2>1, TransfersTail
<1>12. queue'[q] = Tail(queue[q])  BY <1>1, <1>2 DEF Exchange, TypeOK
<1>13. cur_block_id' = cur_block_id /\ snapshot_current_version' = snapshot_current_version
  BY DEF Exchange, buffers
<1>14. Len(queue'[q]) = Len(queue[q]) - 1
  <2> DEFINE l == Len(queue[q])
             c == cur_block_id[q]
             g == f + 1
             m == l - 1
  <2>1. l \in Nat \ {0} /\ f \in Nat /\ f + l = c /\ c \in 0 .. TotalBlocks
        /\ TotalBlocks \in Nat
    BY <1>8
  <2>2. queue'[q] = TransfersOf(g, m, v)  BY <1>11, <1>12
  <2> HIDE DEF c, l
  <2>3. g \in Nat /\ m \in Nat /\ g + m <= TotalBlocks  BY <2>1
  <2> HIDE DEF g, m
  <2>4. Len(TransfersOf(g, m, v)) = m  BY <1>8, <2>3, TransfersType
  <2>. QED  BY <2>2, <2>4 DEF m, l
<1>15. Received(q)' = f + 1  BY <1>8, <1>13, <1>14 DEF Received
<1>16. QueueInOrder(q)'
  BY <1>8, <1>11, <1>12, <1>13, <1>14, <1>15 DEF QueueInOrder, v
<1>17. received'[q] = [received[q] EXCEPT ![v][f] = LiveBlock(p, f)]
  <2> DEFINE o == GetPeerRank(r)
             m == Head(queue[r])
             n == Head(queue[o])
             c == LiveBlock(o, n.block)
             d == LiveBlock(r, m.block)
  <2>1. received' = [received EXCEPT ![r][m.version][m.block] = c,
                                               ![o][n.version][n.block] = d]
    BY DEF Exchange
  <2>2. {q, p} = {r, o} /\ o \in Ranks /\ o # r  BY <1>2, <1>3
  <2>3. m.version = v /\ m.block = f /\ n.version = v /\ n.block = f
    BY <1>11, <2>2
  <2>4. c = LiveBlock(o, f) /\ d = LiveBlock(r, f)  BY <2>3
  <2> HIDE DEF o, m, n, c, d
  <2>5. /\ received'[r] = [received[r] EXCEPT ![m.version][m.block] = c]
        /\ received'[o] = [received[o] EXCEPT ![n.version][n.block] = d]
    <3> DEFINE first == [received EXCEPT ![r][m.version][m.block] = c]
    <3>1. /\ first[r] = [received[r] EXCEPT ![m.version][m.block] = c]
          /\ first[o] = received[o]
          /\ DOMAIN first = Ranks
      BY <1>1, <2>2 DEF TypeOK
    <3>2. received' = [first EXCEPT ![o][n.version][n.block] = d]  BY <2>1
    <3> HIDE DEF first
    <3>. QED  BY <2>2, <3>1, <3>2
  <2>6. /\ received'[r] = [received[r] EXCEPT ![v][f] = LiveBlock(o, f)]
        /\ received'[o] = [received[o] EXCEPT ![v][f] = LiveBlock(r, f)]
    BY <2>3, <2>4, <2>5
  <2>7. CASE q = r /\ p = o  BY <2>6, <2>7
  <2>8. CASE q = o /\ p = r  BY <2>6, <2>8
  <2>. QED  BY <2>2, <2>7, <2>8
<1>18. \A b \in Blocks : CurrentReceived(q)'[b] =
                 IF b = f THEN LiveBlock(p, b) ELSE CurrentReceived(q)[b]
  <2> DEFINE x == LiveBlock(p, f)
             t == received[q]
  <2>1. CurrentReceived(q) = t[v] /\ CurrentReceived(q)' = received'[q][v]
    BY <1>13 DEF CurrentReceived, v
  <2>2. t \in [Versions -> [Blocks -> Contents]]  BY <1>1, <1>3 DEF TypeOK
  <2>3. received'[q] = [t EXCEPT ![v][f] = x]  BY <1>17
  <2> HIDE DEF t, x
  <2>4. \A b \in Blocks : received'[q][v][b] = IF b = f THEN x ELSE t[v][b]
    BY <1>8, <1>10, <2>2, <2>3
  <2>. QED  BY <2>1, <2>4 DEF x
<1>19. LatestReceived(q)' = LatestReceived(q)
  <2>1. LatestCompletedSnapshotVersion(q) # v  BY <1>1, <1>3, LatestFacts DEF v
  <2>2. LatestCompletedSnapshotVersion(q)' = LatestCompletedSnapshotVersion(q)
    BY <1>13 DEF LatestCompletedSnapshotVersion
  <2>. QED  BY <1>1, <1>3, <1>17, <2>1, <2>2 DEF LatestReceived, TypeOK
<1>. QED  BY ZenonT(60), <1>3, <1>6, <1>7, <1>10, <1>15, <1>16, <1>18, <1>19 DEF f

(* The block that arrives extends the copy of the current version; the
   latest completed version is the other one. *)
LEMMA ExchangeCopy ==
    ASSUME NEW sent, IInv(sent), NEW r \in Ranks, Exchange(r),
           NEW q \in {r, GetPeerRank(r)}
    PROVE  /\ InStep(q, GetPeerRank(q))'
           /\ ReceivedInPlace(q, GetPeerRank(q))'
           /\ LatestReceived(q)' = LatestReceived(q)
<1>1. PICK p \in {r, GetPeerRank(r)} : p # q  BY PeerSymmetric
<1> DEFINE f == Received(q)
           old == CurrentReceived(q)
           new == CurrentReceived(q)'
<1>2. /\ q \in Ranks /\ p = GetPeerRank(q)
      /\ snapshot_current_version[q] = snapshot_current_version[p]
      /\ Received(q) = Received(p) /\ ~AtStep(q)
      /\ f \in Blocks /\ Received(q)' = f + 1
      /\ LatestReceived(q)' = LatestReceived(q)
  BY <1>1, ExchangeSide
<1>3. \A b \in Blocks : new[b] = IF b = f THEN LiveBlock(p, b) ELSE old[b]
  BY <1>1, ExchangeSide
<1>4. Received(p)' = Received(p) + 1  BY <1>1, ExchangeSide
<1>5. UNCHANGED <<host, buffers>>  BY DEF Exchange
<1>6. /\ \A b \in Blocks : b < f => old[b] = [rank |-> p, step |-> old[0].step, block |-> b]
      /\ 0 < f => old[0].step = live[p]
  BY <1>2, OptimizerAssumption DEF IInv, ReceivedInPlace, Blocks
<1>7. InStep(q, p)'  BY <1>2, <1>4, <1>5 DEF InStep, AtStep, host, buffers
<1>8. ReceivedInPlace(q, p)'
  <2>1. \A b \in Blocks : LiveBlock(p, b) = [rank |-> p, step |-> live[p], block |-> b]
    BY DEF LiveBlock
  <2>2. 0 \in Blocks /\ f \in Nat  BY <1>2, OptimizerAssumption DEF Blocks
  <2> HIDE DEF f, old, new
  <2>3. new[0].step = live[p]
    <3>1. CASE f = 0  BY <1>3, <2>1, <2>2, <3>1
    <3>2. CASE f # 0  BY <1>3, <1>6, <2>2, <3>2
    <3>. QED  BY <3>1, <3>2
  <2>4. ASSUME NEW b \in Blocks, b < f + 1
        PROVE  new[b] = [rank |-> p, step |-> live[p], block |-> b]
    <3>1. CASE b = f  BY <1>3, <2>1, <3>1
    <3>2. CASE b # f
      <4>1. b < f /\ f # 0 /\ 0 < f  BY <2>2, <2>4, <3>2 DEF Blocks
      <4>. QED  BY <1>3, <1>6, <3>2, <4>1
    <3>. QED  BY <3>1, <3>2
  <2>5. live' = live  BY <1>5 DEF host
  <2>. QED  BY <1>2, <2>3, <2>4, <2>5 DEF ReceivedInPlace, new, f
<1>. QED  BY <1>2, <1>7, <1>8

(* A transfer preserves the invariant, and no rank's latest completed
   version is written to. *)
LEMMA ExchangeInv ==
    ASSUME NEW sent, IInv(sent), NEW r \in Ranks, Exchange(r)
    PROVE  IInv(sent)' /\ \A q \in Ranks : LatestReceived(q)' = LatestReceived(q)
<1> DEFINE o == GetPeerRank(r)
<1>1. TypeOK /\ TypeOK'  BY NextType DEF IInv, Next, RankStep
<1>2. o \in Ranks /\ o # r /\ GetPeerRank(o) = r  BY PeerSymmetric
<1>3. UNCHANGED <<host, buffers>>  BY DEF Exchange
<1>4. ASSUME NEW q \in Ranks, q \in {r, o}
      PROVE  /\ QueueInOrder(q)' /\ have_set_snapshot_strategy[q]
             /\ InStep(q, GetPeerRank(q))' /\ ReceivedInPlace(q, GetPeerRank(q))'
             /\ LatestReceived(q)' = LatestReceived(q)
  <2>1. PICK p \in {r, o} : p # q  BY <1>2
  <2>2. QueueInOrder(q)' /\ have_set_snapshot_strategy[q]
    BY <1>4, <2>1, ExchangeSide
  <2>. QED  BY <1>4, <2>2, ExchangeCopy
<1>5. ASSUME NEW q \in Ranks, q \notin {r, o}
      PROVE  /\ queue'[q] = queue[q] /\ received'[q] = received[q]
             /\ Received(q)' = Received(q)
  <2>1. queue'[q] = queue[q]  BY <1>1, <1>5 DEF Exchange, TypeOK
  <2>2. received'[q] = received[q]  BY <1>1, <1>5 DEF Exchange, TypeOK
  <2>. QED  BY <1>3, <2>1, <2>2 DEF Received, buffers
<1>6. ASSUME NEW q \in Ranks, q \notin {r, o}
      PROVE  /\ QueueInOrder(q)'
             /\ InStep(q, GetPeerRank(q))' /\ ReceivedInPlace(q, GetPeerRank(q))'
             /\ LatestReceived(q)' = LatestReceived(q)
  <2> DEFINE p == GetPeerRank(q)
  <2>1. p \in Ranks /\ p \notin {r, o}  BY <1>2, <1>6, PeerSymmetric
  <2>2. QueueInOrder(q) /\ InStep(q, p) /\ ReceivedInPlace(q, p)  BY DEF IInv
  <2>3. /\ queue'[q] = queue[q] /\ received'[q] = received[q]
        /\ Received(q)' = Received(q)
        /\ queue'[p] = queue[p] /\ Received(p)' = Received(p)
    BY <1>5, <1>6, <2>1
  <2>4. QueueInOrder(q)'  BY <1>3, <2>2, <2>3 DEF QueueInOrder, buffers
  <2> HIDE DEF p
  <2>5. InStep(q, p)'
    BY <1>3, <2>2, <2>3 DEF InStep, Behind, AtStep, host, buffers
  <2>6. ReceivedInPlace(q, p)'
    BY <1>3, <2>2, <2>3 DEF ReceivedInPlace, CurrentReceived, host, buffers
  <2>7. LatestReceived(q)' = LatestReceived(q)
    BY <1>3, <2>3 DEF LatestReceived, LatestCompletedSnapshotVersion, buffers
  <2>. QED  BY <2>4, <2>5, <2>6, <2>7 DEF p
<1>7. ASSUME NEW q \in Ranks
      PROVE  /\ QueueInOrder(q)'
             /\ InStep(q, GetPeerRank(q))' /\ ReceivedInPlace(q, GetPeerRank(q))'
             /\ LatestReceived(q)' = LatestReceived(q)
  BY <1>4, <1>6
<1>8. ASSUME NEW q \in Ranks PROVE OnSchedule(q, sent)'
  BY <1>3 DEF OnSchedule, AtStep, host, buffers, IInv
<1>9. ASSUME NEW q \in Ranks PROVE IdleBeforeStrategy(q)'
  <2>1. CASE q \in {r, o}  BY <1>3, <1>4, <2>1 DEF IdleBeforeStrategy, buffers
  <2>2. CASE q \notin {r, o}
    <3>1. IdleBeforeStrategy(q)  BY DEF IInv
    <3>2. queue'[q] = queue[q] /\ received'[q] = received[q]  BY <1>5, <2>2
    <3>. QED  BY <1>3, <3>1, <3>2 DEF IdleBeforeStrategy, buffers, IsCopyOf
  <2>. QED  BY <2>1, <2>2
<1>10. LatestArrived'  BY <1>7 DEF IInv, LatestArrived, IsCopyOf
<1>. QED  BY <1>1, <1>7, <1>8, <1>9, <1>10 DEF IInv

(* A rank that turns to the other version has received all of the one it
   leaves, and nothing of the one it turns to. *)
LEMMA UpdateSide ==
    ASSUME NEW sent, Covered(sent), IInv(sent), NEW r \in Ranks,
           UpdateLocalOptimizerSnapshot(r)
    PROVE  /\ snapshot_current_version'[r] # snapshot_current_version[r]
           /\ snapshot_current_version'[r] \in Versions
           /\ queue[r] = << >> /\ Received(r) = cur_block_id[r]
           /\ Received(r)' = 0
           /\ QueueInOrder(r)' /\ IdleBeforeStrategy(r)' /\ OnSchedule(r, sent)'
           /\ IF SetsStrategy(r)
                THEN LatestReceived(r)' = [b \in Blocks |-> LiveBlock(r, b)]
                ELSE LatestReceived(r)' = CurrentReceived(r)
           /\ have_set_snapshot_strategy[r] => Received(r) = TotalBlocks
           /\ IsCopyOf(LatestReceived(r), r)' \/ IsCopyOf(LatestReceived(r), GetPeerRank(r))'
<1> DEFINE p == GetPeerRank(r)
           v == snapshot_current_version[r]
           w == NextVersion(v)
           own == [b \in Blocks |-> LiveBlock(r, b)]
<1>1. TypeOK /\ TypeOK'  BY NextType DEF IInv, Next, RankStep
<1>2. /\ v \in Versions /\ w \in Versions /\ w # v /\ w = 1 - v
      /\ TotalBlocks \in Nat \ {0} /\ Mode \in {"naive", "interleave"}
  BY <1>1, VersionFacts, OptimizerAssumption DEF TypeOK
<1>3. phase[r] = "update" /\ AtStep(r)
  BY DEF UpdateLocalOptimizerSnapshot, AtStep
<1>5. /\ QueueInOrder(r) /\ IdleBeforeStrategy(r) /\ OnSchedule(r, sent)
      /\ InStep(r, p) /\ ReceivedInPlace(r, p)
  BY DEF IInv
<1>6. queue[r] = << >>  BY <1>3, <1>5 DEF InStep, Behind
<1>7. Received(r) = cur_block_id[r]  BY <1>1, <1>6 DEF Received, TypeOK
<1>8. /\ phase'[r] = "sync"
      /\ comm_gap_id'[r] = -1
      /\ snapshot_current_version'[r] = w
      /\ cur_block_id'[r] = IF Mode = "naive" THEN TotalBlocks ELSE 0
      /\ UNCHANGED live
  BY <1>1 DEF UpdateLocalOptimizerSnapshot, TypeOK
<1>9. queue'[r] = IF Mode = "naive" THEN TransfersOf(0, TotalBlocks, w) ELSE << >>
  <2>1. CASE Mode = "naive"
    <3>1. queue'[r] = << >> \o TransfersOf(0, TotalBlocks, w)
      BY <1>1, <1>6, <2>1 DEF UpdateLocalOptimizerSnapshot, TypeOK
    <3>2. TransfersOf(0, TotalBlocks, w) \in Seq(Transfers)
      BY <1>2, TransfersType
    <3>. QED  BY <2>1, <3>1, <3>2
  <2>2. CASE Mode # "naive"
    BY <1>1, <1>6, <2>2 DEF UpdateLocalOptimizerSnapshot, TypeOK
  <2>. QED  BY <2>1, <2>2
<1>10. \/ /\ SetsStrategy(r) /\ have_set_snapshot_strategy'[r]
          /\ received'[r] = [x \in Versions |-> own]
       \/ /\ ~SetsStrategy(r)
          /\ UNCHANGED <<have_set_snapshot_strategy, received>>
  BY <1>1 DEF UpdateLocalOptimizerSnapshot, TypeOK
<1> HIDE DEF v, w, own
<1>11. Len(queue'[r]) = cur_block_id'[r]  BY <1>2, <1>8, <1>9, TransfersType
<1>12. Received(r)' = 0  BY <1>1, <1>2, <1>8, <1>11 DEF Received
<1>13. QueueInOrder(r)'
  <2>1. queue'[r] = TransfersOf(0, cur_block_id'[r], w)
    BY <1>8, <1>9, TransfersNone
  <2>. QED  BY <1>8, <1>11, <1>12, <2>1 DEF QueueInOrder
<1>14. IdleBeforeStrategy(r)'
  <2>1. SUFFICES ASSUME ~have_set_snapshot_strategy'[r] PROVE IdleBeforeStrategy(r)'
    BY DEF IdleBeforeStrategy
  <2>2. /\ ~SetsStrategy(r) /\ ~have_set_snapshot_strategy[r]
        /\ received' = received
    BY <1>10, <2>1
  <2>3. Mode = "interleave"  BY <1>2, <2>2 DEF SetsStrategy
  <2>4. cur_block_id'[r] = 0 /\ queue'[r] = << >>  BY <1>8, <1>9, <2>3
  <2>. QED  BY <1>5, <2>2, <2>4 DEF IdleBeforeStrategy, IsCopyOf
<1>15. OnSchedule(r, sent)'
  <2>1. CASE Mode = "naive"  BY <1>8, <2>1 DEF OnSchedule, AtStep
  <2>2. CASE Mode # "naive"
    BY <1>8, <2>2 DEF OnSchedule, AtStep, Covered, SentByHook
  <2>. QED  BY <2>1, <2>2
<1>16. LatestReceived(r)' = received'[r][v]
  <2>1. LatestCompletedSnapshotVersion(r)' = 1 - w
    BY <1>2, <1>8, VersionFacts DEF LatestCompletedSnapshotVersion
  <2>2. 1 - w = v  BY <1>2 DEF Versions
  <2>. QED  BY <2>1, <2>2 DEF LatestReceived
<1>17. /\ SetsStrategy(r) => LatestReceived(r)' = own
       /\ ~SetsStrategy(r) => LatestReceived(r)' = CurrentReceived(r)
  BY <1>2, <1>10, <1>16 DEF CurrentReceived, v
<1>18. have_set_snapshot_strategy[r] => Received(r) = TotalBlocks
  BY <1>3, <1>5, <1>7 DEF OnSchedule
<1>19. IsCopyOf(LatestReceived(r), r)' \/ IsCopyOf(LatestReceived(r), p)'
  <2>1. CASE SetsStrategy(r)
    <3>1. LatestReceived(r)' = own  BY <1>17, <2>1
    <3>2. 0 \in Blocks  BY <1>2 DEF Blocks
    <3>3. IsCopyOf(own, r)  BY <3>2 DEF IsCopyOf, own, LiveBlock
    <3>. QED  BY <3>1, <3>3 DEF IsCopyOf
  <2>2. CASE ~SetsStrategy(r) /\ ~have_set_snapshot_strategy[r]
    <3>1. LatestReceived(r)' = received[r][v]  BY <1>10, <1>16, <2>2
    <3>. QED  BY <1>2, <1>5, <2>2, <3>1 DEF IdleBeforeStrategy, IsCopyOf
  <2>3. CASE ~SetsStrategy(r) /\ have_set_snapshot_strategy[r]
    <3>1. LatestReceived(r)' = CurrentReceived(r)  BY <1>17, <2>3
    <3>2. Received(r) = TotalBlocks  BY <1>18, <2>3
    <3>3. \A b \in Blocks : b < Received(r)  BY <1>2, <3>2 DEF Blocks
    <3> HIDE DEF p
    <3>. QED  BY <1>5, <3>1, <3>3 DEF ReceivedInPlace, IsCopyOf
  <2>. QED  BY <2>1, <2>2, <2>3
<1>. QED
  BY <1>2, <1>6, <1>7, <1>8, <1>12, <1>13, <1>14, <1>15, <1>17, <1>18, <1>19 DEF v, own

(* Turning to the other version preserves the invariant, and changes no
   other rank's latest completed version. *)
LEMMA UpdateInv ==
    ASSUME NEW sent, Covered(sent), IInv(sent), NEW r \in Ranks,
           UpdateLocalOptimizerSnapshot(r)
    PROVE  /\ IInv(sent)'
           /\ snapshot_current_version'[r] # snapshot_current_version[r]
           /\ \A q \in Ranks : q # r => LatestReceived(q)' = LatestReceived(q)
<1>1. TypeOK /\ TypeOK'  BY NextType DEF IInv, Next, RankStep
<1>2. /\ snapshot_current_version'[r] # snapshot_current_version[r]
      /\ snapshot_current_version'[r] \in Versions
      /\ queue[r] = << >> /\ Received(r) = cur_block_id[r]
      /\ Received(r)' = 0
      /\ QueueInOrder(r)' /\ IdleBeforeStrategy(r)' /\ OnSchedule(r, sent)'
      /\ IsCopyOf(LatestReceived(r), r)' \/ IsCopyOf(LatestReceived(r), GetPeerRank(r))'
  BY UpdateSide
<1>3. phase[r] = "update" /\ AtStep(r) /\ phase'[r] = "sync" /\ UNCHANGED <<live, hook>>
  BY <1>1 DEF UpdateLocalOptimizerSnapshot, AtStep, TypeOK
<1>4. ASSUME NEW q \in Ranks, q # r
      PROVE  /\ phase'[q] = phase[q] /\ comm_gap_id'[q] = comm_gap_id[q]
             /\ snapshot_current_version'[q] = snapshot_current_version[q]
             /\ have_set_snapshot_strategy'[q] = have_set_snapshot_strategy[q]
             /\ received'[q] = received[q]
             /\ cur_block_id'[q] = cur_block_id[q] /\ queue'[q] = queue[q]
  <2>1. CASE SetsStrategy(r)
    BY <1>1, <1>4, <2>1 DEF UpdateLocalOptimizerSnapshot, TypeOK
  <2>2. CASE ~SetsStrategy(r)
    BY <1>1, <1>4, <2>2 DEF UpdateLocalOptimizerSnapshot, TypeOK
  <2>. QED  BY <2>1, <2>2
<1>5. ASSUME NEW q \in Ranks, q # r
      PROVE  /\ Received(q)' = Received(q)
             /\ QueueInOrder(q)' /\ IdleBeforeStrategy(q)' /\ OnSchedule(q, sent)'
             /\ LatestReceived(q)' = LatestReceived(q)
  <2>1. Received(q)' = Received(q)  BY <1>4, <1>5 DEF Received
  <2>2. QueueInOrder(q) /\ IdleBeforeStrategy(q) /\ OnSchedule(q, sent)
    BY DEF IInv
  <2>3. QueueInOrder(q)'  BY <1>4, <1>5, <2>1, <2>2 DEF QueueInOrder
  <2>4. IdleBeforeStrategy(q)'
    BY <1>4, <1>5, <2>2 DEF IdleBeforeStrategy, IsCopyOf
  <2>5. OnSchedule(q, sent)'  BY <1>3, <1>4, <1>5, <2>2 DEF OnSchedule, AtStep
  <2>6. LatestReceived(q)' = LatestReceived(q)
    BY <1>4, <1>5 DEF LatestReceived, LatestCompletedSnapshotVersion
  <2>. QED  BY <2>1, <2>3, <2>4, <2>5, <2>6
<1>6. ASSUME NEW q \in Ranks PROVE ReceivedInPlace(q, GetPeerRank(q))'
  <2>1. CASE q = r  BY <1>2, <2>1 DEF ReceivedInPlace, Blocks
  <2>2. CASE q # r
    <3>1. ReceivedInPlace(q, GetPeerRank(q))  BY DEF IInv
    <3>. QED  BY <1>3, <1>4, <1>5, <2>2, <3>1 DEF ReceivedInPlace, CurrentReceived
  <2>. QED  BY <2>1, <2>2
<1>7. /\ InStep(r, GetPeerRank(r))' /\ InStep(GetPeerRank(r), r)'
  <2> DEFINE p == GetPeerRank(r)
  <2>1. p \in Ranks /\ p # r  BY PeerSymmetric
  <2>2. InStep(r, p)  BY DEF IInv
  <2>3. /\ phase'[p] = phase[p] /\ queue'[p] = queue[p] /\ Received(p)' = Received(p)
        /\ snapshot_current_version'[p] = snapshot_current_version[p]
    BY <1>4, <1>5, <2>1
  <2> HIDE DEF p
  <2>4. ~AtStep(r)' /\ phase[r] \notin {"train", "sync"} /\ (AtStep(p)' <=> AtStep(p))
    BY <1>3, <2>3 DEF AtStep
  <2>5. CASE snapshot_current_version[r] = snapshot_current_version[p]
    <3>1. Behind(p, r)'
      BY <1>2, <1>3, <2>2, <2>3, <2>4, <2>5 DEF InStep, Behind
    <3>. QED  BY <3>1 DEF InStep, p
  <2>6. CASE snapshot_current_version[r] # snapshot_current_version[p]
    <3>1. Received(p) = 0 /\ ~AtStep(p)  BY <1>3, <2>2, <2>6 DEF InStep, Behind
    <3>2. snapshot_current_version'[r] = snapshot_current_version'[p]
      BY <1>1, <1>2, <2>1, <2>3, <2>6 DEF TypeOK, Versions
    <3>. QED  BY <1>2, <2>3, <2>4, <3>1, <3>2 DEF InStep, p
  <2>. QED  BY <2>5, <2>6
<1>8. ASSUME NEW q \in Ranks PROVE InStep(q, GetPeerRank(q))'
  <2>1. CASE q = r \/ q = GetPeerRank(r)  BY <1>7, <2>1, PeerSymmetric
  <2>2. CASE q # r /\ q # GetPeerRank(r)
    <3> DEFINE p == GetPeerRank(q)
    <3>1. p \in Ranks /\ p # r  BY <2>2, PeerSymmetric
    <3>2. InStep(q, p)  BY DEF IInv
    <3>3. /\ phase'[p] = phase[p] /\ queue'[p] = queue[p] /\ Received(p)' = Received(p)
          /\ snapshot_current_version'[p] = snapshot_current_version[p]
      BY <1>4, <1>5, <3>1
    <3>4. /\ phase'[q] = phase[q] /\ queue'[q] = queue[q] /\ Received(q)' = Received(q)
          /\ snapshot_current_version'[q] = snapshot_current_version[q]
      BY <1>4, <1>5, <2>2
    <3> HIDE DEF p
    <3>. QED  BY <3>2, <3>3, <3>4 DEF InStep, Behind, AtStep, p
  <2>. QED  BY <2>1, <2>2
<1>9. LatestArrived'
  <2> SUFFICES ASSUME NEW q \in Ranks
               PROVE  IsCopyOf(LatestReceived(q), GetPeerRank(q))' \/ IsCopyOf(LatestReceived(q), q)'
    BY DEF LatestArrived
  <2>1. CASE q = r  BY <1>2, <2>1
  <2>2. CASE q # r  BY <1>5, <2>2 DEF IInv, LatestArrived, IsCopyOf
  <2>. QED  BY <2>1, <2>2
<1>10. ASSUME NEW q \in Ranks
       PROVE  QueueInOrder(q)' /\ IdleBeforeStrategy(q)' /\ OnSchedule(q, sent)'
  BY <1>2, <1>5
<1>11. IInv(sent)'  BY <1>1, <1>6, <1>8, <1>9, <1>10 DEF IInv
<1>. QED  BY <1>2, <1>5, <1>11

(* The invariant is preserved by every step. *)
LEMMA NextInv ==
    ASSUME NEW sent, Covered(sent), IInv(sent), [Next]_vars
    PROVE  IInv(sent)'
<1>1. TypeOK'  BY NextType DEF IInv
<1>2. ASSUME NEW r \in Ranks, CollectiveAndHook(r) PROVE IInv(sent)'
  BY <1>2, HookInv
<1>3. ASSUME NEW r \in Ranks, Exchange(r) PROVE IInv(sent)'
  BY <1>3, ExchangeInv
<1>4. ASSUME NEW r \in Ranks, ApplyStep(r) PROVE IInv(sent)'  BY <1>4, ApplyInv
<1>5. ASSUME NEW r \in Ranks, UpdateLocalOptimizerSnapshot(r) PROVE IInv(sent)'
  BY <1>5, UpdateInv
<1>6. ASSUME NEW r \in Ranks, EndIteration(r) PROVE IInv(sent)'
  BY <1>6, EndIterationInv
<1>7. CASE OverflowCheck  BY <1>7, OverflowInv
<1>8. ASSUME NEW r \in Ranks, SaveOptimizerSnapshotToDisk(r) \/ Interrupt(r) PROVE IInv(sent)'
  <2>1. /\ UNCHANGED <<buffers, received, queue, live, hook>>
        /\ \A q \in Ranks : phase'[q] = phase[q] \/ phase'[q] \in {"exiting", "exited", "crashed"}
    BY <1>8 DEF SaveOptimizerSnapshotToDisk, Interrupt, IInv, TypeOK, device
  <2>. QED  BY <1>1, <2>1, LeaveInv
<1>9. ASSUME NEW m \in MachineRanks, Crash(m) PROVE IInv(sent)'
  <2>1. /\ UNCHANGED <<buffers, received, queue, live, hook>>
        /\ \A q \in Ranks : phase'[q] = phase[q] \/ phase'[q] \in {"exiting", "exited", "crashed"}
    BY <1>9 DEF Crash, device
  <2>. QED  BY <1>1, <2>1, LeaveInv
<1>10. ASSUME NEW r \in Ranks, Copy(r) PROVE IInv(sent)'
  <2>1. UNCHANGED <<buffers, received, queue, live, hook, phase>>
    BY <1>10 DEF Copy, host
  <2>. QED  BY <1>1, <2>1, LeaveInv
<1>11. CASE UNCHANGED vars
  <2>1. UNCHANGED <<buffers, received, queue, live, hook, phase>>
    BY <1>11 DEF vars, host, device
  <2>. QED  BY <1>1, <2>1, LeaveInv
<1>. QED
  BY <1>2, <1>3, <1>4, <1>5, <1>6, <1>7, <1>8, <1>9, <1>10, <1>11 DEF Next, RankStep

(* No step writes to a latest completed version: all but exchanges and
   updates leave the CPU buffers alone. *)
LEMMA NextStable ==
    ASSUME NEW sent, Covered(sent), IInv(sent), [Next]_vars, NEW r \in Ranks,
           snapshot_current_version'[r] = snapshot_current_version[r]
    PROVE  LatestReceived(r)' = LatestReceived(r)
<1>1. ASSUME NEW q \in Ranks, Exchange(q) PROVE LatestReceived(r)' = LatestReceived(r)
  BY <1>1, ExchangeInv
<1>2. ASSUME NEW q \in Ranks, UpdateLocalOptimizerSnapshot(q)
      PROVE  LatestReceived(r)' = LatestReceived(r)
  BY <1>2, UpdateInv
<1>3. CASE UNCHANGED received
  BY <1>3 DEF LatestReceived, LatestCompletedSnapshotVersion
<1>4. ASSUME NEW q \in Ranks,
             \/ CollectiveAndHook(q) \/ Copy(q) \/ ApplyStep(q) \/ EndIteration(q)
             \/ SaveOptimizerSnapshotToDisk(q) \/ Interrupt(q)
      PROVE  UNCHANGED received
  BY <1>4 DEF CollectiveAndHook, Copy, ApplyStep, EndIteration,
              SaveOptimizerSnapshotToDisk, Interrupt, device
<1>5. CASE OverflowCheck \/ UNCHANGED vars
  BY <1>3, <1>5 DEF OverflowCheck, vars, device
<1>6. ASSUME NEW m \in MachineRanks, Crash(m) PROVE UNCHANGED received
  BY <1>6 DEF Crash, device
<1>. QED  BY <1>1, <1>2, <1>3, <1>4, <1>5, <1>6 DEF Next, RankStep

----------------------------------------------------------------------------
(* The copy stream and what CPU memory holds. *)

(* An operation keeps its buffer while others are issued behind it, and
   the operation before it takes the other one. *)
LEMMA BufferMoves ==
    ASSUME TypeOK, NEW r \in Ranks, NEW n \in Nat, NEW k \in Int,
           snapshot_gpu_buffer_id'[r] = (snapshot_gpu_buffer_id[r] + n) % 2
    PROVE  (snapshot_gpu_buffer_id'[r] - (k + n)) % 2 = BufferOf(r, k)
<1> DEFINE a == snapshot_gpu_buffer_id[r]
           h == (a + n) \div 2
           d == (a + n) % 2
<1>1. a \in Nat  BY BufferIdType
<1>2. h \in Int /\ d \in Int /\ a + n = 2 * h + d  BY <1>1
<1>3. /\ (snapshot_gpu_buffer_id'[r] - (k + n)) % 2 = (d - (k + n)) % 2
      /\ BufferOf(r, k) = (a - k) % 2
  BY DEF BufferOf
<1> HIDE DEF a, h, d
<1>4. d - (k + n) = (a - k) - 2 * h  BY <1>1, <1>2
<1>5. ((a - k) - 2 * h) % 2 = (a - k) % 2  BY <1>1, <1>2
<1>. QED  BY <1>3, <1>4, <1>5

LEMMA BufferOther ==
    ASSUME TypeOK, NEW r \in Ranks, NEW k \in Int
    PROVE  BufferOf(r, k + 1) # BufferOf(r, k)
<1>1. snapshot_gpu_buffer_id[r] \in Int  BY BufferIdType
<1>. QED  BY <1>1 DEF BufferOf

LEMMA CopiesType ==
    ASSUME TypeOK, NEW r \in Ranks
    PROVE  /\ copies[r] \in Seq(Transfers) /\ Len(copies[r]) \in Nat
           /\ queue[r] \in Seq(Transfers) /\ Len(queue[r]) \in Nat
           /\ cur_block_id[r] \in 0 .. TotalBlocks /\ TotalBlocks \in Nat \ {0}
           /\ Copied(r) \in Int /\ Copied(r) + Len(copies[r]) = cur_block_id[r]
           /\ Received(r) \in Int /\ Received(r) + Len(queue[r]) = cur_block_id[r]
           /\ copies[r] = << >> <=> Len(copies[r]) = 0
<1>1. copies[r] \in Seq(Transfers) /\ queue[r] \in Seq(Transfers)
      /\ cur_block_id[r] \in 0 .. TotalBlocks /\ TotalBlocks \in Nat \ {0}
  BY OptimizerAssumption DEF TypeOK
<1>2. Len(copies[r]) \in Nat /\ Len(queue[r]) \in Nat
      /\ (copies[r] = << >> <=> Len(copies[r]) = 0)
  BY <1>1, EmptySeq
<1>. QED  BY <1>1, <1>2 DEF Copied, Received

(* Copies are late exactly when no block of the current version has been
   issued but some are left. *)
LEMMA LateWhen ==
    ASSUME TypeOK, NEW r \in Ranks, CopiesInOrder(r)
    PROVE  /\ Late(r) <=> cur_block_id[r] = 0 /\ copies[r] # << >>
           /\ ~Late(r) => InTurn(r)
<1>1. Late(r) => cur_block_id[r] = 0 /\ copies[r] # << >>
  BY CopiesType DEF Late
<1>2. InTurn(r) /\ cur_block_id[r] = 0 => copies[r] = << >>
  BY CopiesType DEF InTurn
<1>. QED  BY <1>1, <1>2 DEF CopiesInOrder

(* A step that leaves the buffers and streams of r alone. *)
LEMMA StreamsFrame ==
    ASSUME TypeOK, NEW r \in Ranks, Streams(r),
           cur_block_id'[r] = cur_block_id[r],
           snapshot_current_version'[r] = snapshot_current_version[r],
           have_set_snapshot_strategy'[r] = have_set_snapshot_strategy[r],
           snapshot_gpu_buffer_id'[r] = snapshot_gpu_buffer_id[r],
           gpu'[r] = gpu[r], tensor_blocks'[r] = tensor_blocks[r],
           queue'[r] = queue[r], copies'[r] = copies[r],
           received'[r] = received[r], spoilt'[r] = spoilt[r],
           phase'[r] \in {"train", "apply", "update"} =>
               phase[r] \in {"train", "apply", "update"} \/ copies[r] = << >>
    PROVE  Streams(r)'
<1>1. CopiesInOrder(r) /\ BuffersHold(r) /\ CopiedHeld(r) /\ KeepsReceived(r)
  BY DEF Streams
<1>2. /\ Copied(r)' = Copied(r) /\ Received(r)' = Received(r)
      /\ LatestCompletedSnapshotVersion(r)' = LatestCompletedSnapshotVersion(r)
      /\ CurrentReceived(r)' = CurrentReceived(r) /\ CurrentCopy(r)' = CurrentCopy(r)
      /\ LatestReceived(r)' = LatestReceived(r) /\ LatestCopy(r)' = LatestCopy(r)
      /\ \A k : BufferOf(r, k)' = BufferOf(r, k)
  BY DEF Copied, Received, LatestCompletedSnapshotVersion, CurrentReceived, CurrentCopy,
         LatestReceived, LatestCopy, BufferOf
<1>3. InTurn(r) => InTurn(r)'  BY <1>2 DEF InTurn
<1>4. Late(r) => Late(r)'
  <2>1. Late(r) => phase'[r] \notin {"train", "apply", "update"}
    <3>1. Late(r) => phase[r] \notin {"train", "apply", "update"} /\ copies[r] # << >>
      BY <1>1, LateWhen DEF Late
    <3>. QED  BY <3>1
  <2>. QED  BY <1>2, <2>1 DEF Late
<1>5. Late(r)' => Late(r)
  <2>1. Late(r)' => cur_block_id[r] = 0 /\ Len(copies[r]) # 0  BY DEF Late
  <2>2. Len(copies[r]) # 0 => copies[r] # << >>  BY CopiesType
  <2>. QED  BY <1>1, <2>1, <2>2, LateWhen
<1>6. CopiesInOrder(r)'  BY <1>1, <1>3, <1>4 DEF CopiesInOrder
<1>7. BuffersHold(r)'  BY <1>1, <1>2, <1>5 DEF BuffersHold
<1>8. CopiedHeld(r)'  BY <1>1, <1>2 DEF CopiedHeld
<1>9. KeepsReceived(r)'  BY <1>1, <1>2 DEF KeepsReceived, InDoubt
<1>. QED  BY <1>6, <1>7, <1>8, <1>9 DEF Streams

LEMMA InitStreams == Init => StreamInv
<1> SUFFICES ASSUME Init, NEW r \in Ranks PROVE Streams(r)  BY DEF StreamInv
<1>1. /\ copies[r] = << >> /\ queue[r] = << >> /\ cur_block_id[r] = 0
      /\ received = tensor_blocks /\ snapshot_current_version[r] = 0
  BY DEF Init
<1>2. TypeOK  BY InitType
<1>3. Copied(r) = 0
  <2>1. Len(copies[r]) = 0  BY <1>1
  <2>2. cur_block_id[r] = 0  BY <1>1
  <2>3. Copied(r) \in Int /\ Copied(r) + Len(copies[r]) = cur_block_id[r]
    BY <1>2, CopiesType
  <2>. QED  BY <2>1, <2>2, <2>3
<1>4. InTurn(r)  BY <1>1, <1>3, TransfersNone DEF InTurn
<1>5. ~Late(r)  BY <1>1, <1>2, CopiesType DEF Late
<1>6. CopiesInOrder(r)  BY <1>1, <1>4 DEF CopiesInOrder
<1>7. BuffersHold(r)  BY <1>1, <1>5 DEF BuffersHold
<1>8. CopiedHeld(r)  BY <1>3, OptimizerAssumption DEF CopiedHeld, Blocks
<1>9. KeepsReceived(r)  BY <1>1 DEF KeepsReceived, LatestCopy, LatestReceived
<1>. QED  BY <1>6, <1>7, <1>8, <1>9 DEF Streams

(* The oldest operation of a stream. *)
LEMMA OldestTransfer ==
    ASSUME NEW s \in Seq(Transfers), s # << >>, NEW f \in Nat, NEW v \in Versions,
           s = TransfersOf(f, Len(s), v), f + Len(s) <= TotalBlocks
    PROVE  /\ Len(s) \in Nat \ {0}
           /\ f \in Blocks
           /\ Head(s) = [version |-> v, block |-> f]
           /\ Len(Tail(s)) = Len(s) - 1
           /\ Tail(s) = TransfersOf(f + 1, Len(s) - 1, v)
<1> DEFINE n == Len(s)
<1>1. n \in Nat \ {0} /\ TotalBlocks \in Nat  BY EmptySeq, OptimizerAssumption
<1>2. Len(Tail(s)) = n - 1  BY <1>1
<1> HIDE DEF n
<1>3. /\ Head(TransfersOf(f, n, v)) = [version |-> v, block |-> f]
      /\ Tail(TransfersOf(f, n, v)) = TransfersOf(f + 1, n - 1, v)
  BY <1>1, TransfersTail DEF n
<1>4. f \in Blocks  BY <1>1 DEF Blocks, n
<1>. QED  BY <1>1, <1>2, <1>3, <1>4 DEF n

(* A transfer fills the buffer of its receive. *)
LEMMA ExchangeBuffer ==
    ASSUME NEW sent, IInv(sent), NEW r \in Ranks, Exchange(r),
           NEW q \in {r, GetPeerRank(r)}, NEW p \in {r, GetPeerRank(r)}, p # q
    PROVE  /\ gpu'[q] = [gpu[q] EXCEPT ![BufferOf(q, Len(queue[q]))] =
                            LiveBlock(p, Received(q))]
           /\ Len(queue'[q]) = Len(queue[q]) - 1 /\ Len(queue[q]) \in Nat \ {0}
<1> DEFINE o == GetPeerRank(r)
           m == Head(queue[r])
           n == Head(queue[o])
           c == LiveBlock(o, n.block)
           d == LiveBlock(r, m.block)
           i == BufferOf(r, Len(queue[r]))
           j == BufferOf(o, Len(queue[o]))
<1>1. TypeOK  BY DEF IInv
<1>2. o \in Ranks /\ o # r  BY PeerSymmetric
<1>3. queue[r] # << >> /\ queue[o] # << >>  BY DEF Exchange
<1>4. Received(r) = Received(o)
  <2>1. InStep(r, o)  BY DEF IInv
  <2>. QED  BY <1>3, <2>1 DEF InStep, Behind
<1>5. ASSUME NEW x \in {r, o}
      PROVE  /\ Head(queue[x]).block = Received(x)
             /\ Len(queue'[x]) = Len(queue[x]) - 1 /\ Len(queue[x]) \in Nat \ {0}
  <2>1. x \in Ranks  BY <1>2
  <2>2. QueueInOrder(x) /\ snapshot_current_version[x] \in Versions
    BY <1>1, <2>1 DEF IInv, TypeOK
  <2>3. /\ queue[x] \in Seq(Transfers) /\ Received(x) \in Nat
        /\ Received(x) + Len(queue[x]) <= TotalBlocks
    BY <1>1, <2>1, <2>2, CopiesType DEF QueueInOrder
  <2>4. queue[x] = TransfersOf(Received(x), Len(queue[x]), snapshot_current_version[x])
    BY <2>2 DEF QueueInOrder
  <2>5. /\ Head(queue[x]) = [version |-> snapshot_current_version[x], block |-> Received(x)]
        /\ Len(Tail(queue[x])) = Len(queue[x]) - 1 /\ Len(queue[x]) \in Nat \ {0}
    BY ZenonT(60), <1>3, <2>2, <2>3, <2>4, OldestTransfer
  <2>6. queue'[x] = Tail(queue[x])  BY <1>1, <1>2 DEF Exchange, TypeOK
  <2>. QED  BY <2>5, <2>6
<1>6. c = LiveBlock(o, Received(r)) /\ d = LiveBlock(r, Received(o))
  BY <1>4, <1>5
<1>7. gpu' = [gpu EXCEPT ![r][i] = c, ![o][j] = d]  BY DEF Exchange
<1> HIDE DEF o, m, n, c, d, i, j
<1>8. /\ gpu'[r] = [gpu[r] EXCEPT ![i] = c]
      /\ gpu'[o] = [gpu[o] EXCEPT ![j] = d]
  <2> DEFINE first == [gpu EXCEPT ![r][i] = c]
  <2>1. /\ first[r] = [gpu[r] EXCEPT ![i] = c]
        /\ first[o] = gpu[o]
        /\ DOMAIN first = Ranks
    BY <1>1, <1>2 DEF TypeOK
  <2>2. gpu' = [first EXCEPT ![o][j] = d]  BY <1>7
  <2> HIDE DEF first
  <2>. QED  BY <1>2, <2>1, <2>2
<1>9. Len(queue'[q]) = Len(queue[q]) - 1 /\ Len(queue[q]) \in Nat \ {0}
  BY <1>5 DEF o
<1>10. CASE q = r /\ p = o  BY <1>6, <1>8, <1>9, <1>10 DEF i
<1>11. CASE q = o /\ p = r  BY <1>4, <1>6, <1>8, <1>9, <1>11 DEF j
<1>. QED  BY <1>10, <1>11 DEF o

(* A collective issues copies behind those of the same blocks. *)
LEMMA HookStreams ==
    ASSUME NEW sent, Covered(sent), IInv(sent), NEW r \in Ranks, CollectiveAndHook(r),
           Streams(r)
    PROVE  Streams(r)'
<1> DEFINE c == cur_block_id[r]
           v == snapshot_current_version[r]
           n == BlocksToSend(c, Strategy[comm_gap_id[r]])
           issued == TransfersOf(c, n, v)
           k == Copied(r)
           l == Len(copies[r])
<1>1. TypeOK /\ TypeOK'  BY NextType DEF IInv, Next, RankStep
<1>2. /\ CopiesInOrder(r) /\ BuffersHold(r) /\ CopiedHeld(r) /\ KeepsReceived(r)
      /\ phase[r] = "train" /\ ~Late(r) /\ InTurn(r)
  <2>1. phase[r] = "train"  BY DEF CollectiveAndHook
  <2>2. ~Late(r)  BY <2>1 DEF Late
  <2>. QED  BY <2>1, <2>2 DEF Streams, CopiesInOrder
<1>3. UNCHANGED <<phase, snapshot_current_version, have_set_snapshot_strategy,
                  gpu, tensor_blocks, received, spoilt>>
  BY DEF CollectiveAndHook
<1>4. CASE ~(IsSnapshotStep(r) /\ Mode = "interleave" /\ comm_gap_id[r] \in DOMAIN Strategy)
  <2>1. UNCHANGED <<queue, copies, cur_block_id, snapshot_gpu_buffer_id>>
    BY <1>4 DEF CollectiveAndHook, StrategyOf
  <2>. QED  BY <1>1, <1>3, <2>1, StreamsFrame
<1>5. CASE IsSnapshotStep(r) /\ Mode = "interleave" /\ comm_gap_id[r] \in DOMAIN Strategy
  <2>1. /\ n \in Nat /\ c \in 0 .. TotalBlocks /\ c + n \in 0 .. TotalBlocks
        /\ v \in Versions /\ TotalBlocks \in Nat
    <3>1. c \in 0 .. TotalBlocks /\ v \in Versions /\ TotalBlocks \in Nat
      BY <1>1, OptimizerAssumption DEF TypeOK
    <3>2. Strategy[comm_gap_id[r]] \in Nat \cup {-1}
      BY <1>5, OptimizerAssumption
    <3> HIDE DEF c, v
    <3>. QED  BY <3>1, <3>2, BlocksToSendType
  <2>2. /\ queue'[r] = queue[r] \o issued
        /\ copies'[r] = copies[r] \o issued
        /\ cur_block_id'[r] = c + n
        /\ snapshot_gpu_buffer_id'[r] = (snapshot_gpu_buffer_id[r] + n) % 2
    BY <1>1, <1>5 DEF CollectiveAndHook, TypeOK, StrategyOf
  <2>3. /\ k \in Nat /\ l \in Nat /\ k + l = c /\ copies[r] = TransfersOf(k, l, v)
        /\ copies[r] \in Seq(Transfers)
    BY <1>1, <1>2, CopiesType DEF InTurn
  <2> HIDE DEF n, c, v, k, l, issued
  <2>4. issued \in Seq(Transfers) /\ Len(issued) = n
    BY <2>1, TransfersType DEF issued
  <2>5. copies'[r] = TransfersOf(k, l + n, v) /\ Len(copies'[r]) = l + n
    <3>1. k + l + n <= TotalBlocks  BY <2>1, <2>3
    <3>2. TransfersOf(k, l, v) \o TransfersOf(k + l, n, v) = TransfersOf(k, l + n, v)
      BY ZenonT(60), <2>1, <2>3, <3>1, TransfersConcat
    <3>3. copies'[r] = TransfersOf(k, l + n, v)  BY <2>2, <2>3, <3>2 DEF issued
    <3>4. l + n \in Nat /\ k + (l + n) <= TotalBlocks  BY <2>1, <2>3, <3>1
    <3>. QED  BY <2>1, <2>3, <3>3, <3>4, TransfersType
  <2>6. /\ Copied(r)' = k
        /\ Received(r)' = Received(r)
        /\ Len(queue'[r]) = Len(queue[r]) + n /\ Len(queue[r]) \in Nat
        /\ v' = v
    <3>1. Copied(r)' = k  BY <2>1, <2>2, <2>3, <2>5 DEF Copied
    <3>2. Received(r)' = Received(r) /\ Len(queue[r]) \in Nat
      BY <1>1, HookInv, CopiesType
    <3>3. Len(queue'[r]) = Len(queue[r]) + n
      <4>1. queue[r] \in Seq(Transfers)  BY <1>1, CopiesType
      <4>. QED  BY <2>2, <2>4, <4>1, ConcatProperties
    <3>. QED  BY <1>3, <3>1, <3>2, <3>3 DEF v
  <2>7. InTurn(r)' /\ ~Late(r)'
    BY <1>2, <1>3, <2>3, <2>5, <2>6 DEF InTurn, Late, v
  <2>8. CopiesInOrder(r)'
    BY <1>3, <1>5, <2>7 DEF CopiesInOrder, IsSnapshotStep
  <2>9. BuffersHold(r)'
    <3> SUFFICES ASSUME NEW i \in 1 .. cur_block_id'[r], i - Len(queue'[r]) \in {1, 2}
                 PROVE  gpu'[r][BufferOf(r, i)'] = CurrentReceived(r)'[cur_block_id'[r] - i]
      BY <2>7 DEF BuffersHold
    <3> DEFINE h == i - n
    <3>1. /\ h \in 1 .. c /\ h - Len(queue[r]) \in {1, 2} /\ i = h + n
          /\ cur_block_id'[r] - i = c - h
      <4> DEFINE y == Len(queue[r])
                 z == cur_block_id'[r]
      <4>1. y \in Nat /\ z = c + n /\ i \in 1 .. z /\ i - (y + n) \in {1, 2}
        BY <2>2, <2>6
      <4> HIDE DEF y, z
      <4>2. h \in 1 .. c /\ h - y \in {1, 2} /\ i = h + n /\ z - i = c - h
        BY <2>1, <4>1
      <4>. QED  BY <4>2 DEF y, z
    <3>. HIDE DEF h
    <3>2. (snapshot_gpu_buffer_id'[r] - (h + n)) % 2 = BufferOf(r, h)
      BY <1>1, <2>1, <2>2, <3>1, BufferMoves
    <3>3. gpu[r][BufferOf(r, h)] = CurrentReceived(r)[c - h]
      BY <1>2, <3>1 DEF BuffersHold, c
    <3>4. CurrentReceived(r)' = CurrentReceived(r)  BY <1>3 DEF CurrentReceived
    <3>5. BufferOf(r, i)' = BufferOf(r, h)  BY <3>1, <3>2 DEF BufferOf
    <3>. QED  BY <1>3, <3>1, <3>3, <3>4, <3>5
  <2>10. CopiedHeld(r)'
    BY <1>2, <1>3, <2>6 DEF CopiedHeld, CurrentCopy, CurrentReceived, k
  <2>11. KeepsReceived(r)'
    <3>1. UNCHANGED <<LatestCompletedSnapshotVersion(r), LatestCopy(r), LatestReceived(r)>>
      BY <1>3 DEF LatestCompletedSnapshotVersion, LatestCopy, LatestReceived
    <3>2. \A i \in DOMAIN copies[r] : i \in DOMAIN copies'[r] /\ copies'[r][i] = copies[r][i]
      BY <2>2, <2>3, <2>4
    <3>3. ASSUME NEW b \in Blocks, InDoubt(r, b) PROVE InDoubt(r, b)'
      BY <1>3, <3>1, <3>2, <3>3 DEF InDoubt
    <3>. QED  BY <1>2, <3>1, <3>3 DEF KeepsReceived
  <2>. QED  BY <2>8, <2>9, <2>10, <2>11 DEF Streams
<1>. QED  BY <1>4, <1>5

(* A block that arrives is in its buffer, and so is the block before it:
   that one took the other buffer. *)
LEMMA ExchangeStreams ==
    ASSUME NEW sent, IInv(sent), NEW r \in Ranks, Exchange(r),
           NEW q \in {r, GetPeerRank(r)}, Streams(q)
    PROVE  Streams(q)'
<1>1. PICK p \in {r, GetPeerRank(r)} : p # q  BY PeerSymmetric
<1> DEFINE f == Received(q)
           l == Len(queue[q])
           c == cur_block_id[q]
           x == LiveBlock(p, f)
<1>2. /\ q \in Ranks /\ have_set_snapshot_strategy[q]
      /\ f \in Blocks /\ Received(q)' = f + 1
      /\ LatestReceived(q)' = LatestReceived(q)
      /\ \A b \in Blocks : CurrentReceived(q)'[b] =
            IF b = f THEN LiveBlock(p, b) ELSE CurrentReceived(q)[b]
  BY <1>1, ExchangeSide
<1>3. /\ gpu'[q] = [gpu[q] EXCEPT ![BufferOf(q, l)] = x]
      /\ Len(queue'[q]) = l - 1 /\ l \in Nat \ {0}
  BY ZenonT(60), <1>1, ExchangeBuffer
<1>4. UNCHANGED <<host, buffers, tensor_blocks, copies, spoilt, file>>
  BY DEF Exchange
<1>5. TypeOK /\ TypeOK'  BY NextType DEF IInv, Next, RankStep
<1>6. /\ c \in 0 .. TotalBlocks /\ TotalBlocks \in Nat /\ f + l = c /\ f \in Nat
      /\ gpu[q] \in [Buffers -> Contents]
      /\ \A k \in Int : BufferOf(q, k) \in Buffers
  <2>1. c \in 0 .. TotalBlocks /\ TotalBlocks \in Nat /\ f + l = c
    BY <1>2, <1>5, CopiesType
  <2>2. f \in Nat  BY <1>2 DEF Blocks
  <2>3. gpu[q] \in [Buffers -> Contents]  BY <1>2, <1>5 DEF TypeOK
  <2>4. \A k \in Int : BufferOf(q, k) \in Buffers  BY <1>2, <1>5, BufferType
  <2>. QED  BY <2>1, <2>2, <2>3, <2>4
<1>7. CopiesInOrder(q) /\ BuffersHold(q) /\ CopiedHeld(q) /\ KeepsReceived(q)
  BY DEF Streams
<1>8. ~Late(q) /\ ~Late(q)' /\ InTurn(q) /\ c # 0
  <2>2. c # 0
    <3> HIDE DEF f, l, c
    <3>. QED  BY <1>3, <1>6
  <2>3. ~Late(q) /\ InTurn(q)  BY <1>2, <1>5, <1>7, <2>2, LateWhen
  <2>4. ~Late(q)'  BY <1>4, <2>2 DEF Late, buffers
  <2>. QED  BY <2>2, <2>3, <2>4
<1>9. Copied(q)' = Copied(q)  BY <1>4 DEF Copied, buffers
<1>10. CopiesInOrder(q)'
  <2>1. InTurn(q)'  BY <1>4, <1>8, <1>9 DEF InTurn, buffers
  <2>. QED  BY <1>2, <1>4, <1>7, <2>1 DEF CopiesInOrder, host, buffers
<1>11. BuffersHold(q)'
  <2> SUFFICES ASSUME NEW k \in 1 .. cur_block_id'[q], k - Len(queue'[q]) \in {1, 2}
               PROVE  gpu'[q][BufferOf(q, k)'] = CurrentReceived(q)'[cur_block_id'[q] - k]
    BY <1>8 DEF BuffersHold
  <2>1. BufferOf(q, k)' = BufferOf(q, k) /\ cur_block_id'[q] = c
    BY <1>4 DEF BufferOf, buffers
  <2>2. k \in 1 .. c /\ (k = l \/ (k = l + 1 /\ k - l \in {1, 2}))
    <3>1. k \in 1 .. c /\ k - (l - 1) \in {1, 2}  BY <1>3, <2>1
    <3> HIDE DEF f, l, c
    <3>. QED  BY <1>3, <1>6, <3>1
  <2>3. BufferOf(q, l) \in Buffers  BY <1>3, <1>6
  <2>4. CASE k = l
    <3>1. c - k = f
      <4> HIDE DEF f, l, c
      <4>. QED  BY <1>3, <1>6, <2>4
    <3>2. gpu'[q][BufferOf(q, k)] = x  BY <1>3, <1>6, <2>3, <2>4
    <3>3. CurrentReceived(q)'[f] = x  BY <1>2
    <3> HIDE DEF f, l, c, x
    <3>. QED  BY <2>1, <3>1, <3>2, <3>3
  <2>5. CASE k = l + 1
    <3>1. c - k \in Blocks /\ c - k # f
      <4> HIDE DEF f, l, c
      <4>. QED  BY <1>2, <1>3, <1>6, <2>2, <2>5 DEF Blocks
    <3>2. BufferOf(q, l + 1) # BufferOf(q, l)
      <4>1. l \in Int  BY <1>3
      <4> HIDE DEF l
      <4>. QED  BY <1>2, <1>5, <4>1, BufferOther
    <3>3. gpu[q][BufferOf(q, k)] = CurrentReceived(q)[c - k]
      BY <1>7, <2>2, <2>5 DEF BuffersHold
    <3>4. gpu'[q][BufferOf(q, k)] = gpu[q][BufferOf(q, k)]
      <4>1. BufferOf(q, k) \in Buffers  BY <1>6, <2>2
      <4>. QED  BY <1>3, <1>6, <2>3, <2>5, <3>2, <4>1
    <3>5. CurrentReceived(q)'[c - k] = CurrentReceived(q)[c - k]  BY <1>2, <3>1
    <3>. QED  BY <2>1, <3>3, <3>4, <3>5
  <2>. QED  BY <2>2, <2>4, <2>5
<1>12. CopiedHeld(q)'
  <2> SUFFICES ASSUME NEW b \in Blocks, b < Copied(q)'
               PROVE  \/ [version |-> snapshot_current_version[q], block |-> b] \in spoilt[q]
                      \/ b < f + 1 /\ CurrentCopy(q)'[b] = CurrentReceived(q)'[b]
    BY <1>2, <1>4 DEF CopiedHeld, buffers
  <2>1. \/ [version |-> snapshot_current_version[q], block |-> b] \in spoilt[q]
        \/ b < f /\ CurrentCopy(q)[b] = CurrentReceived(q)[b]
    BY <1>7, <1>9 DEF CopiedHeld
  <2>2. CurrentCopy(q)' = CurrentCopy(q)  BY <1>4 DEF CurrentCopy, buffers
  <2>3. b \in Nat /\ f \in Nat  BY <1>6 DEF Blocks
  <2>4. b < f => b # f /\ b < f + 1
    <3> HIDE DEF f
    <3>. QED  BY <2>3
  <2>5. b < f => CurrentReceived(q)'[b] = CurrentReceived(q)[b]  BY <1>2, <2>4
  <2>. QED  BY <2>1, <2>2, <2>4, <2>5
<1>13. KeepsReceived(q)'
  <2>1. LatestCopy(q)' = LatestCopy(q)
    BY <1>4 DEF LatestCopy, LatestCompletedSnapshotVersion, buffers
  <2>2. \A b \in Blocks : InDoubt(q, b)' <=> InDoubt(q, b)
    BY <1>4 DEF InDoubt, LatestCompletedSnapshotVersion, buffers
  <2>. QED  BY <1>2, <1>7, <2>1, <2>2 DEF KeepsReceived
<1>. QED  BY <1>10, <1>11, <1>12, <1>13 DEF Streams

(* What a copy does to the rank whose stream does it. *)
LEMMA CopySide ==
    ASSUME TypeOK, NEW r \in Ranks, Copy(r), CopiesInOrder(r)
    PROVE  LET l == Len(copies[r])
               v == IF Late(r) THEN LatestCompletedSnapshotVersion(r)
                               ELSE snapshot_current_version[r]
               f == IF Late(r) THEN TotalBlocks - l ELSE Copied(r)
           IN  /\ l \in Nat \ {0} /\ f \in Blocks /\ v \in Versions
               /\ Len(copies'[r]) = l - 1
               /\ copies[r] = TransfersOf(f, l, v)
               /\ copies'[r] = TransfersOf(f + 1, l - 1, v)
               /\ tensor_blocks'[r] =
                     [tensor_blocks[r] EXCEPT ![v][f] = gpu[r][BufferOf(r, l)]]
               /\ spoilt'[r] = IF InTime(r)
                                 THEN spoilt[r] \ {[version |-> v, block |-> f]}
                                 ELSE spoilt[r] \cup {[version |-> v, block |-> f]}
<1> DEFINE l == Len(copies[r])
           v == IF Late(r) THEN LatestCompletedSnapshotVersion(r)
                           ELSE snapshot_current_version[r]
           f == IF Late(r) THEN TotalBlocks - l ELSE Copied(r)
           c == Head(copies[r])
<1>1. copies[r] # << >> /\ copies[r] \in Seq(Transfers)
      /\ l \in Nat \ {0} /\ TotalBlocks \in Nat /\ cur_block_id[r] \in 0 .. TotalBlocks
  <2>1. copies[r] # << >>  BY DEF Copy
  <2>. QED  BY <2>1, CopiesType
<1>2. v \in Versions  BY LatestFacts DEF TypeOK
<1>3. f \in Nat /\ f + l <= TotalBlocks /\ copies[r] = TransfersOf(f, l, v)
  <2>1. CASE Late(r)  BY <1>1, <2>1 DEF Late
  <2>2. CASE ~Late(r)
    <3>1. InTurn(r)  BY <2>2, LateWhen
    <3>2. Copied(r) \in Nat /\ Copied(r) + Len(copies[r]) = cur_block_id[r]
      BY <3>1, CopiesType DEF InTurn
    <3>. QED  BY <1>1, <2>2, <3>1, <3>2 DEF InTurn
  <2>. QED  BY <2>1, <2>2
<1> HIDE DEF v, f
<1>4. /\ f \in Blocks /\ c = [version |-> v, block |-> f]
      /\ Len(Tail(copies[r])) = l - 1
      /\ Tail(copies[r]) = TransfersOf(f + 1, l - 1, v)
  BY ZenonT(60), <1>1, <1>2, <1>3, OldestTransfer
<1>5. /\ copies' = [copies EXCEPT ![r] = Tail(@)]
      /\ tensor_blocks' = [tensor_blocks EXCEPT ![r][c.version][c.block] =
                              gpu[r][BufferOf(r, l)]]
      /\ spoilt' = [spoilt EXCEPT ![r] = IF InTime(r) THEN @ \ {c} ELSE @ \cup {c}]
  BY DEF Copy
<1>6. c.version = v /\ c.block = f  BY <1>4
<1> HIDE DEF c
<1>7. copies'[r] = Tail(copies[r])  BY <1>5 DEF TypeOK
<1>8. tensor_blocks'[r] = [tensor_blocks[r] EXCEPT ![v][f] = gpu[r][BufferOf(r, l)]]
  BY <1>5, <1>6 DEF TypeOK
<1>9. spoilt'[r] = IF InTime(r) THEN spoilt[r] \ {c} ELSE spoilt[r] \cup {c}
  BY <1>5 DEF TypeOK
<1>10. /\ Len(copies'[r]) = l - 1 /\ copies'[r] = TransfersOf(f + 1, l - 1, v)
       /\ spoilt'[r] = IF InTime(r)
                         THEN spoilt[r] \ {[version |-> v, block |-> f]}
                         ELSE spoilt[r] \cup {[version |-> v, block |-> f]}
  BY <1>4, <1>7, <1>9
<1>. QED  BY ZenonT(60), <1>1, <1>2, <1>3, <1>4, <1>8, <1>10 DEF l, v, f

(* A copy in time brings what was received; one out of time is remembered. *)
LEMMA CopyStreams ==
    ASSUME TypeOK, NEW r \in Ranks, Copy(r), Streams(r),
           Received(r) >= 0
    PROVE  Streams(r)'
<1> DEFINE l == Len(copies[r])
           cur == snapshot_current_version[r]
           late == LatestCompletedSnapshotVersion(r)
           c == cur_block_id[r]
           q == Len(queue[r])
           x == gpu[r][BufferOf(r, l)]
<1>1. CopiesInOrder(r) /\ BuffersHold(r) /\ CopiedHeld(r) /\ KeepsReceived(r)
  BY DEF Streams
<1>2. UNCHANGED <<host, buffers, gpu, queue, received, file>> /\ copies[r] # << >>
  BY DEF Copy
<1>3. /\ Received(r)' = Received(r)
      /\ Late(r) => c = 0
      /\ CurrentReceived(r)' = CurrentReceived(r) /\ LatestReceived(r)' = LatestReceived(r)
      /\ late' = late /\ cur' = cur
      /\ \A k : BufferOf(r, k)' = BufferOf(r, k)
      /\ q' = q /\ c' = c /\ gpu' = gpu
  BY <1>1, <1>2, LateWhen DEF Received, CurrentReceived, LatestReceived,
         LatestCompletedSnapshotVersion, BufferOf, buffers
<1>4. /\ late \in Versions /\ cur \in Versions /\ late # cur
      /\ c \in 0 .. TotalBlocks /\ TotalBlocks \in Nat
      /\ q \in Nat /\ l \in Nat \ {0}
      /\ Copied(r) \in Int /\ Copied(r) + l = c /\ Received(r) + q = c /\ Received(r) \in Nat
  <2>1. late \in Versions /\ late # cur /\ cur \in Versions
    BY LatestFacts DEF TypeOK
  <2>2. /\ c \in 0 .. TotalBlocks /\ TotalBlocks \in Nat /\ q \in Nat /\ l \in Nat
        /\ (copies[r] = << >> <=> l = 0)
        /\ Copied(r) \in Int /\ Copied(r) + l = c
        /\ Received(r) \in Int /\ Received(r) + q = c
    BY CopiesType
  <2> HIDE DEF l, cur, late, c, q, x
  <2>. QED  BY <1>2, <2>1, <2>2
<1>5. ~(Mode = "naive" /\ phase[r] \in {"train", "apply", "update"})
      /\ have_set_snapshot_strategy[r]
  BY <1>1, <1>2 DEF CopiesInOrder
<1>6. tensor_blocks[r] \in [Versions -> [Blocks -> Contents]]  BY DEF TypeOK
<1>7. ASSUME ~Late(r) PROVE Streams(r)'
  <2> DEFINE f == Copied(r)
             t == [version |-> cur, block |-> f]
  <2>1. /\ f \in Blocks
        /\ Len(copies'[r]) = l - 1
        /\ copies[r] = TransfersOf(f, l, cur)
        /\ copies'[r] = TransfersOf(f + 1, l - 1, cur)
        /\ tensor_blocks'[r] = [tensor_blocks[r] EXCEPT ![cur][f] = x]
        /\ spoilt'[r] = IF InTime(r) THEN spoilt[r] \ {t} ELSE spoilt[r] \cup {t}
    BY <1>1, <1>7, CopySide
  <2> HIDE DEF l, cur, late, c, q, x, f, t
  <2>2. Copied(r)' = f + 1  BY <1>3, <1>4, <2>1 DEF Copied, c, f
  <2>3. InTurn(r)' /\ ~Late(r)'
    <3>1. InTurn(r)'  BY <1>3, <1>4, <2>1, <2>2 DEF InTurn, cur, Blocks
    <3>2. c # 0
      <4>1. f \in Nat  BY <2>1 DEF Blocks
      <4>. QED  BY <1>4, <4>1 DEF f
    <3>3. ~Late(r)'  BY <1>3, <3>2 DEF Late, c
    <3>. QED  BY <3>1, <3>3
  <2>4. CopiesInOrder(r)'  BY <1>2, <1>5, <2>3 DEF CopiesInOrder, host, buffers
  <2>5. BuffersHold(r)'
    <3> SUFFICES ASSUME NEW k \in 1 .. c', k - q' \in {1, 2}
                 PROVE  gpu'[r][BufferOf(r, k)'] = CurrentReceived(r)'[c' - k]
      BY <2>3 DEF BuffersHold, c, q
    <3>1. gpu[r][BufferOf(r, k)] = CurrentReceived(r)[c - k]
      BY <1>1, <1>3 DEF BuffersHold, c, q
    <3>. QED  BY <1>3, <3>1
  <2>6. InTime(r) => f < Received(r) /\ x = CurrentReceived(r)[f]
    <3> SUFFICES ASSUME InTime(r) PROVE f < Received(r) /\ x = CurrentReceived(r)[f]
      OBVIOUS
    <3>1. l - q \in {1, 2}  BY DEF InTime, l, q
    <3>2. f \in Nat  BY <2>1 DEF Blocks
    <3>3. l \in 1 .. c /\ c - l = f /\ f < Received(r)
      BY <1>4, <3>1, <3>2 DEF f
    <3>4. gpu[r][BufferOf(r, l)] = CurrentReceived(r)[c - l]
      BY <1>1, <3>1, <3>3 DEF BuffersHold, c, q
    <3>. QED  BY <3>3, <3>4 DEF x
  <2>7. \A b \in Blocks : CurrentCopy(r)'[b] = IF b = f THEN x ELSE CurrentCopy(r)[b]
    <3>1. CurrentCopy(r)' = tensor_blocks'[r][cur] /\ CurrentCopy(r) = tensor_blocks[r][cur]
      BY <1>3 DEF CurrentCopy, cur
    <3>. QED  BY <1>4, <1>6, <2>1, <3>1
  <2>8. CopiedHeld(r)'
    <3> SUFFICES ASSUME NEW b \in Blocks, b < f + 1
                 PROVE  \/ [version |-> cur, block |-> b] \in spoilt'[r]
                        \/ b < Received(r) /\ CurrentCopy(r)'[b] = CurrentReceived(r)[b]
      <4>1. /\ snapshot_current_version'[r] = cur /\ Copied(r)' = f + 1
            /\ Received(r)' = Received(r) /\ CurrentReceived(r)' = CurrentReceived(r)
        BY <1>3, <2>2 DEF cur
      <4>. QED  BY <4>1 DEF CopiedHeld
    <3>1. CASE b = f  BY <2>1, <2>6, <2>7, <3>1 DEF t
    <3>2. CASE b # f
      <4>1. b < f  BY <2>1, <3>2 DEF Blocks
      <4>2. \/ [version |-> cur, block |-> b] \in spoilt[r]
            \/ b < Received(r) /\ CurrentCopy(r)[b] = CurrentReceived(r)[b]
        BY <1>1, <4>1 DEF CopiedHeld, cur, f
      <4>3. [version |-> cur, block |-> b] # t  BY <3>2 DEF t
      <4>. QED  BY <2>1, <2>7, <3>2, <4>2, <4>3
    <3>. QED  BY <3>1, <3>2
  <2>9. LatestCopy(r)' = LatestCopy(r)
    <3>1. LatestCopy(r)' = tensor_blocks'[r][late] /\ LatestCopy(r) = tensor_blocks[r][late]
      BY <1>3 DEF LatestCopy, late
    <3>. QED  BY <1>4, <1>6, <2>1, <3>1
  <2>10. KeepsReceived(r)'
    <3> SUFFICES ASSUME NEW b \in Blocks
                 PROVE  InDoubt(r, b)' \/ LatestCopy(r)'[b] = LatestReceived(r)'[b]
      BY DEF KeepsReceived
    <3> DEFINE y == [version |-> late, block |-> b]
    <3>1. y # t  BY <1>4 DEF t
    <3>2. \A i \in DOMAIN copies[r] : copies[r][i] # y
      BY <1>4, <2>1 DEF TransfersOf
    <3>3. InDoubt(r, b) => y \in spoilt[r]  BY <3>2 DEF InDoubt, late
    <3>4. y \in spoilt'[r] => InDoubt(r, b)'  BY <1>3 DEF InDoubt, late
    <3> HIDE DEF y
    <3>5. InDoubt(r, b) => InDoubt(r, b)'  BY <2>1, <3>1, <3>3, <3>4
    <3>. QED  BY <1>1, <1>3, <2>9, <3>5 DEF KeepsReceived
  <2>. QED  BY <2>4, <2>5, <2>8, <2>10 DEF Streams
<1>8. ASSUME Late(r) PROVE Streams(r)'
  <2> DEFINE f == TotalBlocks - l
             t == [version |-> late, block |-> f]
  <2>1. /\ f \in Blocks
        /\ Len(copies'[r]) = l - 1
        /\ copies[r] = TransfersOf(f, l, late)
        /\ copies'[r] = TransfersOf(f + 1, l - 1, late)
        /\ tensor_blocks'[r] = [tensor_blocks[r] EXCEPT ![late][f] = x]
        /\ spoilt'[r] = IF InTime(r) THEN spoilt[r] \ {t} ELSE spoilt[r] \cup {t}
    BY <1>1, <1>8, CopySide
  <2>2. c = 0 /\ q = 0 /\ l \in 1 .. TotalBlocks /\ Copied(r)' = 0 - (l - 1)
    <3>1. c = 0 /\ queue[r] = << >> /\ l \in 1 .. TotalBlocks  BY <1>8 DEF Late
    <3>2. q = 0  BY <3>1
    <3>3. Copied(r)' = c' - Len(copies'[r])  BY DEF Copied
    <3> HIDE DEF l, c, q
    <3>. QED  BY <1>3, <2>1, <3>1, <3>2, <3>3
  <2>3. CopiesInOrder(r)'
    <3>1. ASSUME l = 1 PROVE InTurn(r)'
      <4>1. Copied(r)' = 0 /\ Len(copies'[r]) = 0  BY <2>1, <2>2, <3>1
      <4>2. copies'[r] = TransfersOf(f + 1, 0, late)  BY <2>1, <3>1
      <4>3. copies'[r] = << >>  BY <4>2, TransfersNone
      <4>. QED  BY <4>1, <4>3, TransfersNone DEF InTurn
    <3>2. ASSUME l # 1 PROVE Late(r)'
      <4>1. /\ Len(copies'[r]) \in 1 .. TotalBlocks
            /\ TotalBlocks - Len(copies'[r]) = f + 1
        <5>1. /\ Len(copies'[r]) = l - 1 /\ l \in 1 .. TotalBlocks /\ TotalBlocks \in Nat
              /\ f = TotalBlocks - l
          BY <1>4, <2>1, <2>2
        <5> HIDE DEF l, f
        <5>. QED  BY <3>2, <5>1
      <4>2. copies'[r] = TransfersOf(TotalBlocks - Len(copies'[r]), Len(copies'[r]), late')
        BY <1>3, <2>1, <4>1
      <4>. QED  BY <1>2, <1>8, <4>1, <4>2 DEF Late, host, buffers
    <3>. QED  BY <1>2, <1>5, <3>1, <3>2 DEF CopiesInOrder, host, buffers
  <2> HIDE DEF l, cur, late, c, q, x, f, t
  <2>4. BuffersHold(r)'
    <3> SUFFICES ASSUME NEW k \in 1 .. Len(copies'[r]), k \in {1, 2}
                 PROVE  gpu[r][BufferOf(r, k)] = LatestReceived(r)[TotalBlocks - k]
      BY <1>3, <2>2 DEF BuffersHold, c
    <3>1. k \in 1 .. l  BY <1>4, <2>1
    <3>. QED  BY <1>1, <1>8, <3>1 DEF BuffersHold, l
  <2>5. InTime(r) => x = LatestReceived(r)[f]
    <3>1. InTime(r) => l \in {1, 2} /\ l \in 1 .. l
      <4>1. InTime(r) => l - q \in {1, 2}  BY DEF InTime, l, q
      <4>. QED  BY <1>4, <2>2, <4>1
    <3>. QED  BY <1>1, <1>8, <3>1 DEF BuffersHold, l, x, f
  <2>6. CopiedHeld(r)'
    <3>1. \A b \in Blocks : ~(b < Copied(r)')  BY <1>4, <2>2 DEF Blocks
    <3>. QED  BY <3>1 DEF CopiedHeld
  <2>7. \A b \in Blocks : LatestCopy(r)'[b] = IF b = f THEN x ELSE LatestCopy(r)[b]
    <3>1. LatestCopy(r)' = tensor_blocks'[r][late] /\ LatestCopy(r) = tensor_blocks[r][late]
      BY <1>3 DEF LatestCopy, late
    <3>. QED  BY <1>4, <1>6, <2>1, <3>1
  <2>8. KeepsReceived(r)'
    <3> SUFFICES ASSUME NEW b \in Blocks
                 PROVE  InDoubt(r, b)' \/ LatestCopy(r)'[b] = LatestReceived(r)[b]
      BY <1>3 DEF KeepsReceived
    <3> DEFINE y == [version |-> late, block |-> b]
    <3>1. y \in spoilt'[r] => InDoubt(r, b)'  BY <1>3 DEF InDoubt, late
    <3>2. CASE b = f
      <4>1. y = t  BY <3>2 DEF t
      <4>2. InTime(r) => LatestCopy(r)'[b] = LatestReceived(r)[b]
        BY <2>5, <2>7, <3>2
      <4>3. ~InTime(r) => y \in spoilt'[r]  BY <2>1, <4>1
      <4>. QED  BY <3>1, <4>2, <4>3
    <3>3. CASE b # f
      <4>1. y # t  BY <3>3 DEF t
      <4>2. y \in spoilt[r] => y \in spoilt'[r]  BY <2>1, <4>1
      <4>3. ASSUME NEW i \in DOMAIN copies[r], copies[r][i] = y PROVE InDoubt(r, b)'
        <5>1. i \in 1 .. l /\ copies[r][i] = [version |-> late, block |-> f + i - 1]
          BY <1>4, <2>1 DEF TransfersOf
        <5>2. b = f + i - 1  BY <4>3, <5>1
        <5>3. f \in Nat  BY <2>1 DEF Blocks
        <5>4. i - 1 \in 1 .. l - 1 /\ b = (f + 1) + (i - 1) - 1
          BY <1>4, <3>3, <5>1, <5>2, <5>3
        <5>5. /\ i - 1 \in DOMAIN copies'[r]
              /\ copies'[r][i - 1] = [version |-> late, block |-> (f + 1) + (i - 1) - 1]
          BY <2>1, <5>4 DEF TransfersOf
        <5>6. copies'[r][i - 1] = y  BY <5>4, <5>5
        <5>. QED  BY <1>3, <5>5, <5>6 DEF InDoubt, late
      <4>4. InDoubt(r, b) => InDoubt(r, b)'
        BY <3>1, <4>2, <4>3 DEF InDoubt, late
      <4>5. LatestCopy(r)'[b] = LatestCopy(r)[b]  BY <2>7, <3>3
      <4>. QED  BY <1>1, <4>4, <4>5 DEF KeepsReceived
    <3>. QED  BY <3>2, <3>3
  <2>. QED  BY <2>3, <2>4, <2>6, <2>8 DEF Streams
<1>. QED  BY <1>7, <1>8

(* A rank that turns leaves behind what it has copied, and copies that are
   late when the turn does not wait for them. *)
LEMMA UpdateStreams ==
    ASSUME NEW sent, Covered(sent), IInv(sent), NEW r \in Ranks,
           UpdateLocalOptimizerSnapshot(r), Streams(r)
    PROVE  Streams(r)'
<1> DEFINE l == Len(copies[r])
           v == snapshot_current_version[r]
           w == NextVersion(v)
           own == [b \in Blocks |-> LiveBlock(r, b)]
           issued == IF Mode = "naive" THEN TransfersOf(0, TotalBlocks, w) ELSE << >>
<1>1. TypeOK /\ TypeOK'  BY NextType DEF IInv, Next, RankStep
<1>2. /\ v \in Versions /\ w \in Versions /\ w # v /\ w = 1 - v
      /\ TotalBlocks \in Nat \ {0} /\ Mode \in {"naive", "interleave"}
  BY <1>1, VersionFacts, OptimizerAssumption DEF TypeOK
<1>3. /\ phase[r] = "update" /\ phase'[r] = "sync"
      /\ snapshot_current_version'[r] = w
      /\ cur_block_id'[r] = IF Mode = "naive" THEN TotalBlocks ELSE 0
      /\ copies'[r] = copies[r] \o issued
      /\ snapshot_gpu_buffer_id'[r] = (snapshot_gpu_buffer_id[r] + Len(issued)) % 2
      /\ UNCHANGED spoilt
  BY <1>1 DEF UpdateLocalOptimizerSnapshot, TypeOK
<1>4. CopiesInOrder(r) /\ BuffersHold(r) /\ CopiedHeld(r) /\ KeepsReceived(r)
  BY DEF Streams
<1>5. InTurn(r) /\ ~Late(r)  BY <1>3, <1>4 DEF CopiesInOrder, Late
<1>6. /\ queue[r] = << >> /\ Received(r) = cur_block_id[r] /\ Received(r)' = 0
      /\ have_set_snapshot_strategy[r] => cur_block_id[r] = TotalBlocks
  BY UpdateSide
<1>7. /\ copies[r] \in Seq(Transfers) /\ l \in Nat /\ cur_block_id[r] \in 0 .. TotalBlocks
      /\ Copied(r) \in Nat /\ Copied(r) + l = cur_block_id[r]
      /\ (copies[r] = << >> <=> l = 0)
      /\ copies[r] = TransfersOf(Copied(r), l, v)
  BY <1>1, <1>5, CopiesType DEF InTurn
<1>8. LatestCompletedSnapshotVersion(r)' = v /\ LatestCompletedSnapshotVersion(r) = w
  <2>1. LatestCompletedSnapshotVersion(r)' = 1 - w
    BY <1>2, <1>3, VersionFacts DEF LatestCompletedSnapshotVersion
  <2>2. 1 - w = v  BY <1>2 DEF Versions
  <2>. QED  BY <1>1, <1>2, <2>1, <2>2, LatestFacts
<1>9. /\ LatestCopy(r)' = tensor_blocks'[r][v] /\ LatestReceived(r)' = received'[r][v]
      /\ LatestCopy(r) = tensor_blocks[r][w] /\ LatestReceived(r) = received[r][w]
      /\ CurrentCopy(r) = tensor_blocks[r][v] /\ CurrentReceived(r) = received[r][v]
  BY <1>8 DEF LatestCopy, LatestReceived, CurrentCopy, CurrentReceived
<1>10. \/ /\ SetsStrategy(r) /\ ~have_set_snapshot_strategy[r]
          /\ have_set_snapshot_strategy'[r]
          /\ tensor_blocks'[r] = [i \in Versions |-> own]
          /\ received'[r] = [i \in Versions |-> own]
       \/ /\ ~SetsStrategy(r)
          /\ UNCHANGED <<have_set_snapshot_strategy, tensor_blocks, received, gpu>>
  BY <1>1 DEF UpdateLocalOptimizerSnapshot, TypeOK, SetsStrategy
<1>11. /\ ~SetsStrategy(r) /\ ~have_set_snapshot_strategy[r] => Mode = "interleave"
       /\ ~have_set_snapshot_strategy[r] => copies[r] = << >> /\ tensor_blocks[r] = received[r]
       /\ Mode = "naive" => copies[r] = << >>
  BY <1>2, <1>3, <1>4 DEF SetsStrategy, CopiesInOrder
<1> HIDE DEF l, v, w, own, issued
<1>12. CASE copies[r] = << >>
  <2>1. copies'[r] = TransfersOf(0, cur_block_id'[r], w)
    <3>1. copies'[r] = << >> \o issued  BY <1>3, <1>12
    <3>2. issued = TransfersOf(0, cur_block_id'[r], w)
      BY <1>3, TransfersNone DEF issued
    <3>3. issued \in Seq(Transfers)  BY <1>2, <1>3, <3>2, TransfersType
    <3>. QED  BY <3>1, <3>2, <3>3
  <2>2. Len(copies'[r]) = cur_block_id'[r] /\ cur_block_id'[r] \in Nat
    BY <1>2, <1>3, <2>1, TransfersType
  <2>3. Copied(r)' = 0  BY <2>2 DEF Copied
  <2>4. InTurn(r)'
    <3>1. copies'[r] = TransfersOf(0, Len(copies'[r]), snapshot_current_version'[r])
      BY <1>3, <2>1, <2>2
    <3>. QED  BY <2>3, <3>1 DEF InTurn
  <2>5. ~Late(r)'
    <3>1. Late(r)' => cur_block_id'[r] = 0 /\ Len(copies'[r]) # 0  BY DEF Late
    <3>. QED  BY <2>2, <3>1
  <2>6. CopiesInOrder(r)'
    <3>1. ~have_set_snapshot_strategy'[r] => copies'[r] = << >> /\ tensor_blocks'[r] = received'[r]
      <4> SUFFICES ASSUME ~have_set_snapshot_strategy'[r]
                   PROVE  copies'[r] = << >> /\ tensor_blocks'[r] = received'[r]
        OBVIOUS
      <4>1. ~SetsStrategy(r) /\ ~have_set_snapshot_strategy[r]
            /\ UNCHANGED <<tensor_blocks, received>>
        BY <1>10
      <4>2. cur_block_id'[r] = 0  BY <1>2, <1>3, <1>11, <4>1
      <4>. QED  BY <1>11, <2>1, <4>1, <4>2, TransfersNone
    <3>. QED  BY <1>3, <2>4, <3>1 DEF CopiesInOrder
  <2>7. BuffersHold(r)'
    <3>1. Len(queue'[r]) = cur_block_id'[r]
      <4>1. 0 = cur_block_id'[r] - Len(queue'[r]) /\ Len(queue'[r]) \in Nat
        BY <1>1, <1>6 DEF Received, TypeOK
      <4>. QED  BY <2>2, <4>1
    <3>2. \A k \in 1 .. cur_block_id'[r] : k - Len(queue'[r]) \notin {1, 2}
      BY <2>2, <3>1
    <3>. QED  BY <2>5, <3>2 DEF BuffersHold
  <2>8. CopiedHeld(r)'
    <3>1. \A b \in Blocks : ~(b < Copied(r)')  BY <2>3 DEF Blocks
    <3>. QED  BY <3>1 DEF CopiedHeld
  <2>9. KeepsReceived(r)'
    <3> SUFFICES ASSUME NEW b \in Blocks
                 PROVE  InDoubt(r, b)' \/ LatestCopy(r)'[b] = LatestReceived(r)'[b]
      BY DEF KeepsReceived
    <3>1. CASE ~have_set_snapshot_strategy[r]
      <4>1. tensor_blocks'[r] = received'[r]  BY <1>10, <1>11, <3>1
      <4>. QED  BY <1>9, <4>1
    <3>2. CASE have_set_snapshot_strategy[r]
      <4>1. b < Copied(r)
        <5>1. Copied(r) = TotalBlocks  BY <1>2, <1>6, <1>7, <1>12, <3>2
        <5>. QED  BY <1>2, <5>1 DEF Blocks
      <4>2. \/ [version |-> v, block |-> b] \in spoilt[r]
            \/ CurrentCopy(r)[b] = CurrentReceived(r)[b]
        BY <1>4, <4>1 DEF CopiedHeld, v
      <4>3. UNCHANGED <<tensor_blocks, received>>  BY <1>10, <3>2
      <4>. QED  BY <1>3, <1>8, <1>9, <4>2, <4>3 DEF InDoubt
    <3>. QED  BY <3>1, <3>2
  <2>. QED  BY <2>6, <2>7, <2>8, <2>9 DEF Streams
<1>13. CASE copies[r] # << >>
  <2> DEFINE f == Copied(r)
  <2>1. /\ have_set_snapshot_strategy[r] /\ ~SetsStrategy(r) /\ Mode = "interleave"
        /\ UNCHANGED <<have_set_snapshot_strategy, tensor_blocks, received, gpu>>
    BY <1>2, <1>10, <1>11, <1>13
  <2>2. /\ issued = << >> /\ copies'[r] = copies[r] /\ cur_block_id'[r] = 0
    <3>1. issued = << >>  BY <2>1 DEF issued
    <3>. QED  BY <1>3, <1>7, <2>1, <3>1
  <2>3. f = TotalBlocks - l /\ l \in 1 .. TotalBlocks /\ f \in Nat
    BY <1>2, <1>6, <1>7, <1>13, <2>1
  <2> HIDE DEF f
  <2>4. Late(r)'
    <3>1. queue'[r] = << >>
      <4>1. 0 = cur_block_id'[r] - Len(queue'[r]) /\ queue'[r] \in Seq(Transfers)
        BY <1>1, <1>6 DEF Received, TypeOK
      <4>2. Len(queue'[r]) = 0  BY <2>2, <4>1
      <4>. QED  BY <4>1, <4>2, EmptySeq
    <3>2. Len(copies'[r]) = l  BY <2>2 DEF l
    <3>3. copies'[r] = TransfersOf(TotalBlocks - Len(copies'[r]), Len(copies'[r]),
                                   LatestCompletedSnapshotVersion(r)')
      BY <1>7, <1>8, <2>2, <2>3, <3>2 DEF f
    <3>. QED  BY <1>3, <2>1, <2>2, <2>3, <3>1, <3>2, <3>3 DEF Late
  <2>5. CopiesInOrder(r)'  BY <1>3, <2>1, <2>4 DEF CopiesInOrder
  <2>6. BuffersHold(r)'
    <3> SUFFICES ASSUME NEW k \in 1 .. Len(copies'[r]), k \in {1, 2}
                 PROVE  gpu'[r][BufferOf(r, k)'] = LatestReceived(r)'[TotalBlocks - k]
      BY <2>2 DEF BuffersHold
    <3>1. k \in 1 .. cur_block_id[r] /\ k - Len(queue[r]) \in {1, 2}
          /\ cur_block_id[r] = TotalBlocks
      <4>1. Len(queue[r]) = 0 /\ cur_block_id[r] = TotalBlocks  BY <1>6, <2>1
      <4>2. k \in 1 .. l  BY <2>2 DEF l
      <4>3. k - 0 \in {1, 2} /\ k \in 1 .. TotalBlocks  BY <1>2, <2>3, <4>2
      <4>. QED  BY <4>1, <4>3
    <3>2. gpu[r][BufferOf(r, k)] = CurrentReceived(r)[TotalBlocks - k]
      BY <1>4, <3>1 DEF BuffersHold
    <3>3. BufferOf(r, k)' = BufferOf(r, k)
      <4>1. snapshot_gpu_buffer_id'[r] = (snapshot_gpu_buffer_id[r] + 0) % 2
        BY <1>3, <2>2
      <4>2. (snapshot_gpu_buffer_id'[r] - (k + 0)) % 2 = BufferOf(r, k)
        BY <1>1, <4>1, BufferMoves
      <4>. QED  BY <4>2 DEF BufferOf
    <3>. QED  BY <1>9, <2>1, <3>2, <3>3
  <2>7. CopiedHeld(r)'
    <3>1. Copied(r)' = 0 - l  BY <2>2 DEF Copied, l
    <3>2. \A b \in Blocks : ~(b < Copied(r)')  BY <2>3, <3>1 DEF Blocks
    <3>. QED  BY <3>2 DEF CopiedHeld
  <2>8. KeepsReceived(r)'
    <3> SUFFICES ASSUME NEW b \in Blocks
                 PROVE  InDoubt(r, b)' \/ LatestCopy(r)'[b] = LatestReceived(r)'[b]
      BY DEF KeepsReceived
    <3>1. CASE b < f
      <4>1. \/ [version |-> v, block |-> b] \in spoilt[r]
            \/ CurrentCopy(r)[b] = CurrentReceived(r)[b]
        BY <1>4, <3>1 DEF CopiedHeld, v, f
      <4>. QED  BY <1>3, <1>8, <1>9, <2>1, <4>1 DEF InDoubt
    <3>2. CASE ~(b < f)
      <4> DEFINE i == b - f + 1
      <4>1. i \in 1 .. l /\ f + i - 1 = b  BY <1>2, <2>3, <3>2 DEF Blocks
      <4> HIDE DEF i
      <4>2. i \in DOMAIN copies[r] /\ copies[r][i] = [version |-> v, block |-> b]
        BY <1>7, <4>1 DEF TransfersOf, f
      <4>. QED  BY <1>8, <2>2, <4>2 DEF InDoubt
    <3>. QED  BY <3>1, <3>2
  <2>. QED  BY <2>5, <2>6, <2>7, <2>8 DEF Streams
<1>. QED  BY <1>12, <1>13

(* Of the other ranks, a step of rank r touches the peer's in a transfer. *)
LEMMA NextStreams ==
    ASSUME NEW sent, Covered(sent), IInv(sent), StreamInv, [Next]_vars
    PROVE  StreamInv'
<1> SUFFICES ASSUME NEW q \in Ranks PROVE Streams(q)'  BY DEF StreamInv
<1>1. TypeOK /\ Streams(q)  BY DEF IInv, StreamInv
<1>2. ASSUME cur_block_id'[q] = cur_block_id[q],
             snapshot_current_version'[q] = snapshot_current_version[q],
             have_set_snapshot_strategy'[q] = have_set_snapshot_strategy[q],
             snapshot_gpu_buffer_id'[q] = snapshot_gpu_buffer_id[q],
             gpu'[q] = gpu[q], tensor_blocks'[q] = tensor_blocks[q],
             queue'[q] = queue[q], copies'[q] = copies[q],
             received'[q] = received[q], spoilt'[q] = spoilt[q],
             phase'[q] \in {"train", "apply", "update"} =>
                 phase[q] \in {"train", "apply", "update"} \/ copies[q] = << >>
      PROVE  Streams(q)'
  BY <1>1, <1>2, StreamsFrame
<1>3. ASSUME UNCHANGED <<buffers, device>>,
             phase'[q] \in {"train", "apply", "update"} =>
                 phase[q] \in {"train", "apply", "update"} \/ copies[q] = << >>
      PROVE  Streams(q)'
  BY <1>2, <1>3 DEF buffers, device
<1>4. ASSUME NEW r \in Ranks, CollectiveAndHook(r) PROVE Streams(q)'
  <2>1. CASE q = r  BY <1>1, <1>4, <2>1, HookStreams
  <2>2. CASE q # r
    <3>1. UNCHANGED <<phase, snapshot_current_version, have_set_snapshot_strategy,
                      gpu, tensor_blocks, received, spoilt>>
      BY <1>4 DEF CollectiveAndHook
    <3>2. /\ queue'[q] = queue[q] /\ copies'[q] = copies[q]
          /\ cur_block_id'[q] = cur_block_id[q]
          /\ snapshot_gpu_buffer_id'[q] = snapshot_gpu_buffer_id[q]
      BY <1>1, <1>4, <2>2 DEF CollectiveAndHook, TypeOK
    <3>. QED  BY <1>2, <3>1, <3>2
  <2>. QED  BY <2>1, <2>2
<1>5. ASSUME NEW r \in Ranks, Exchange(r) PROVE Streams(q)'
  <2>1. CASE q \in {r, GetPeerRank(r)}  BY <1>1, <1>5, <2>1, ExchangeStreams
  <2>2. CASE q \notin {r, GetPeerRank(r)}
    <3>1. UNCHANGED <<host, buffers, tensor_blocks, copies, spoilt>>
      BY <1>5 DEF Exchange
    <3>2. queue'[q] = queue[q]  BY <1>1, <1>5, <2>2 DEF Exchange, TypeOK
    <3>3. received'[q] = received[q]  BY <1>1, <1>5, <2>2 DEF Exchange, TypeOK
    <3>4. gpu'[q] = gpu[q]  BY <1>1, <1>5, <2>2 DEF Exchange, TypeOK
    <3>. QED  BY <1>2, <3>1, <3>2, <3>3, <3>4 DEF host, buffers
  <2>. QED  BY <2>1, <2>2
<1>6. ASSUME NEW r \in Ranks, Copy(r) PROVE Streams(q)'
  <2>1. CASE q = r
    <3>1. Received(q) >= 0  BY DEF IInv, QueueInOrder
    <3>. QED  BY <1>1, <1>6, <2>1, <3>1, CopyStreams
  <2>2. CASE q # r
    <3>1. UNCHANGED <<host, buffers, gpu, queue, received>>  BY <1>6 DEF Copy
    <3>2. /\ copies'[q] = copies[q] /\ spoilt'[q] = spoilt[q]
          /\ tensor_blocks'[q] = tensor_blocks[q]
      BY <1>1, <1>6, <2>2 DEF Copy, TypeOK
    <3>. QED  BY <1>2, <3>1, <3>2 DEF host, buffers
  <2>. QED  BY <2>1, <2>2
<1>7. ASSUME NEW r \in Ranks, UpdateLocalOptimizerSnapshot(r) PROVE Streams(q)'
  <2>1. CASE q = r  BY <1>1, <1>7, <2>1, UpdateStreams
  <2>2. CASE q # r
    <3>1. /\ cur_block_id'[q] = cur_block_id[q] /\ phase'[q] = phase[q]
          /\ snapshot_current_version'[q] = snapshot_current_version[q]
          /\ snapshot_gpu_buffer_id'[q] = snapshot_gpu_buffer_id[q]
          /\ queue'[q] = queue[q] /\ copies'[q] = copies[q] /\ spoilt'[q] = spoilt[q]
      BY <1>1, <1>7, <2>2 DEF UpdateLocalOptimizerSnapshot, TypeOK
    <3>2. /\ have_set_snapshot_strategy'[q] = have_set_snapshot_strategy[q]
          /\ gpu'[q] = gpu[q] /\ tensor_blocks'[q] = tensor_blocks[q]
          /\ received'[q] = received[q]
      <4>1. CASE SetsStrategy(r)
        BY <1>1, <1>7, <2>2, <4>1 DEF UpdateLocalOptimizerSnapshot, TypeOK
      <4>2. CASE ~SetsStrategy(r)
        BY <1>7, <4>2 DEF UpdateLocalOptimizerSnapshot
      <4>. QED  BY <4>1, <4>2
    <3>. QED  BY <1>2, <3>1, <3>2
  <2>. QED  BY <2>1, <2>2
<1>8. ASSUME NEW r \in Ranks,
             ApplyStep(r) \/ SaveOptimizerSnapshotToDisk(r) \/ Interrupt(r)
      PROVE  Streams(q)'
  <2>1. UNCHANGED <<buffers, device>>
    BY <1>8 DEF ApplyStep, SaveOptimizerSnapshotToDisk, Interrupt
  <2>2. phase'[q] \in {"train", "apply", "update"} => phase[q] \in {"train", "apply", "update"}
    BY <1>1, <1>8 DEF ApplyStep, SaveOptimizerSnapshotToDisk, Interrupt, TypeOK
  <2>. QED  BY <1>3, <2>1, <2>2
<1>9. ASSUME NEW r \in Ranks, EndIteration(r) PROVE Streams(q)'
  <2>1. UNCHANGED <<buffers, device>> /\ copies[r] = << >> /\ (q # r => phase'[q] = phase[q])
    BY <1>1, <1>9 DEF EndIteration, TypeOK
  <2>. QED  BY <1>3, <2>1
<1>10. CASE OverflowCheck
  <2>1. UNCHANGED <<buffers, device>> /\ phase[q] = "train"
    BY <1>10 DEF OverflowCheck
  <2>. QED  BY <1>3, <2>1
<1>11. ASSUME NEW m \in MachineRanks, Crash(m) PROVE Streams(q)'
  <2>1. UNCHANGED <<buffers, device>> /\ phase'[q] \in {phase[q], "crashed"}
    BY <1>11 DEF Crash
  <2>. QED  BY <1>3, <2>1
<1>12. CASE UNCHANGED vars
  <2>1. UNCHANGED <<host, buffers, device>>  BY <1>12 DEF vars
  <2>. QED  BY <1>3, <2>1 DEF host
<1>. QED
  BY <1>4, <1>5, <1>6, <1>7, <1>8, <1>9, <1>10, <1>11, <1>12 DEF Next, RankStep

(* A rank at the same version has its latest copy written to by the copies
   that are late only. *)
LEMMA NextKept ==
    ASSUME NEW sent, IInv(sent), StreamInv, [Next]_vars, NEW r \in Ranks,
           snapshot_current_version'[r] = snapshot_current_version[r],
           ~(Copy(r) /\ Late(r))
    PROVE  LatestCopy(r)' = LatestCopy(r)
<1>1. TypeOK /\ CopiesInOrder(r)  BY DEF IInv, StreamInv, Streams
<1>2. LatestCompletedSnapshotVersion(r)' = LatestCompletedSnapshotVersion(r)
  BY DEF LatestCompletedSnapshotVersion
<1>3. CASE tensor_blocks'[r] = tensor_blocks[r]  BY <1>2, <1>3 DEF LatestCopy
<1>4. CASE Copy(r)
  <2> DEFINE late == LatestCompletedSnapshotVersion(r)
             cur == snapshot_current_version[r]
             f == Copied(r)
             x == gpu[r][BufferOf(r, Len(copies[r]))]
  <2>1. tensor_blocks'[r] = [tensor_blocks[r] EXCEPT ![cur][f] = x]
    BY <1>1, <1>4, CopySide
  <2>2. late \in Versions /\ cur \in Versions /\ late # cur
    BY <1>1, LatestFacts DEF TypeOK
  <2>3. tensor_blocks[r] \in [Versions -> [Blocks -> Contents]]
    BY <1>1 DEF TypeOK
  <2> HIDE DEF cur, f, x
  <2>4. tensor_blocks'[r][late] = tensor_blocks[r][late]
    <3> HIDE DEF late
    <3>. QED  BY <2>1, <2>2, <2>3
  <2>. QED  BY <1>2, <2>4 DEF LatestCopy
<1>5. ASSUME NEW q \in Ranks, Copy(q), q # r PROVE tensor_blocks'[r] = tensor_blocks[r]
  BY <1>1, <1>5 DEF Copy, TypeOK
<1>6. ASSUME NEW q \in Ranks, UpdateLocalOptimizerSnapshot(q)
      PROVE  tensor_blocks'[r] = tensor_blocks[r]
  <2>1. q # r
    <3>1. snapshot_current_version'[q] = NextVersion(snapshot_current_version[q])
      BY <1>1, <1>6 DEF UpdateLocalOptimizerSnapshot, TypeOK
    <3>2. NextVersion(snapshot_current_version[q]) # snapshot_current_version[q]
      BY <1>1, VersionFacts DEF TypeOK
    <3>. QED  BY <3>1, <3>2
  <2>2. CASE SetsStrategy(q)
    BY <1>1, <1>6, <2>1, <2>2 DEF UpdateLocalOptimizerSnapshot, TypeOK
  <2>3. CASE ~SetsStrategy(q)  BY <1>6, <2>3 DEF UpdateLocalOptimizerSnapshot
  <2>. QED  BY <2>2, <2>3
<1>7. ASSUME NEW q \in Ranks,
             \/ CollectiveAndHook(q) \/ Exchange(q) \/ ApplyStep(q) \/ EndIteration(q)
             \/ SaveOptimizerSnapshotToDisk(q) \/ Interrupt(q)
      PROVE  tensor_blocks'[r] = tensor_blocks[r]
  BY <1>7 DEF CollectiveAndHook, Exchange, ApplyStep, EndIteration,
              SaveOptimizerSnapshotToDisk, Interrupt, device
<1>8. ASSUME NEW m \in MachineRanks, Crash(m) PROVE tensor_blocks'[r] = tensor_blocks[r]
  BY <1>8 DEF Crash, device
<1>9. CASE OverflowCheck \/ UNCHANGED vars
  BY <1>3, <1>9 DEF OverflowCheck, vars, device
<1>. QED  BY <1>3, <1>4, <1>5, <1>6, <1>7, <1>8, <1>9 DEF Next, RankStep

(* In naive mode, and in interleave mode with a strategy that sends every
   block in the gaps an iteration reaches, the latest version has been
   received whole and of one step in every reachable state, and CPU memory
   holds it but for the blocks whose copy is still to come or was out of
   time: whatever the order in which the two streams of the ranks run, for
   any number of machines, GPUs, blocks and hooks, with interrupts and the
   loss of a machine. *)
THEOREM LatestCheckpointIsComplete ==
    ASSUME Mode = "naive" \/ StrategyCovers
    PROVE  Spec => []LatestIsComplete
<1>1. PICK sent : Covered(sent)  BY DEF StrategyCovers, Covered
<1>2. Init => IInv(sent) /\ StreamInv  BY InitInv, InitStreams
<1>3. IInv(sent) /\ StreamInv /\ [Next]_vars => (IInv(sent) /\ StreamInv)'
  BY <1>1, NextInv, NextStreams
<1>4. IInv(sent) /\ StreamInv => LatestIsComplete
  BY DEF IInv, LatestArrived, StreamInv, Streams, LatestIsComplete
<1>. QED  BY <1>2, <1>3, <1>4, PTL DEF Spec

(* Under the same condition, while a rank stays at its version nothing is
   received into the one a failure would be recovered from; and nothing is
   written to it in CPU memory in naive mode, nor, in interleave mode,
   from the start of an iteration to its turn. *)
THEOREM LatestCheckpointIsStable ==
    ASSUME Mode = "naive" \/ StrategyCovers
    PROVE  Spec => LatestIsStable
<1>1. PICK sent : Covered(sent)  BY DEF StrategyCovers, Covered
<1>2. Init => IInv(sent) /\ StreamInv  BY InitInv, InitStreams
<1>3. IInv(sent) /\ StreamInv /\ [Next]_vars => (IInv(sent) /\ StreamInv)'
  BY <1>1, NextInv, NextStreams
<1>4. IInv(sent) /\ StreamInv /\ [Next]_vars => [KeepsLatest]_vars
  <2> SUFFICES ASSUME IInv(sent), StreamInv, [Next]_vars, NEW r \in Ranks,
                      snapshot_current_version'[r] = snapshot_current_version[r]
               PROVE  /\ LatestReceived(r)' = LatestReceived(r)
                      /\ Mode = "naive" \/ phase[r] \in {"train", "apply", "update"}
                            => LatestCopy(r)' = LatestCopy(r)
    BY DEF KeepsLatest
  <2>1. LatestReceived(r)' = LatestReceived(r)  BY <1>1, NextStable
  <2>2. Mode = "naive" \/ phase[r] \in {"train", "apply", "update"} => ~Late(r)
    BY DEF Late
  <2>3. ~Late(r) => LatestCopy(r)' = LatestCopy(r)  BY NextKept
  <2>. QED  BY <2>1, <2>2, <2>3
<1>. QED  BY <1>2, <1>3, <1>4, PTL DEF Spec, LatestIsStable

----------------------------------------------------------------------------
(* Rounds and the age of the checkpoints. *)

(* The versions take turns: a rank that has not turned to the next version
   in round n is one that has done so in round n - 1. *)
LEMMA RoundParity ==
    ASSUME NEW n \in Nat \cup {-1}
    PROVE  /\ (n + 1) % 2 \in Versions
           /\ ((n + 1) + 1) % 2 = 1 - ((n + 1) % 2)
  BY DEF Versions

(* A rank has made as many updates as there were rounds, or one less. *)
LEMMA RoundTurns ==
    ASSUME TypeOK, NEW r \in Ranks, NEW n \in Nat \cup {-1}
    PROVE  /\ Updated(r, n + 1) <=> ~Updated(r, n)
           /\ Updates(r, n) \in Nat \cup {-1}
           /\ n <= Updates(r, n) /\ Updates(r, n) <= n + 1
<1>1. snapshot_current_version[r] \in Versions  BY DEF TypeOK
<1>2. /\ (n + 1) % 2 \in Versions
      /\ ((n + 1) + 1) % 2 = 1 - ((n + 1) % 2)
  BY RoundParity
<1>3. Updated(r, n + 1) <=> ~Updated(r, n)
  <2> DEFINE x == (n + 1) % 2
             y == ((n + 1) + 1) % 2
  <2>1. x \in Versions /\ y = 1 - x  BY <1>2
  <2>2. Updated(r, n + 1) <=> snapshot_current_version[r] = y  BY DEF Updated
  <2>3. Updated(r, n) <=> snapshot_current_version[r] = x  BY DEF Updated
  <2> HIDE DEF x, y
  <2>. QED  BY <1>1, <2>1, <2>2, <2>3 DEF Versions
<1>4. Updates(r, n) \in {n, n + 1}  BY DEF Updates
<1>. QED  BY <1>3, <1>4

(* Before the first round all ranks have made all their updates: none. *)
LEMMA InitAge == Init => AgeInv(-1)
<1> SUFFICES ASSUME Init, NEW r \in Ranks
             PROVE  InRound(r, -1) /\ CopiesOfRound(r, Updates(r, -1))
  BY DEF AgeInv
<1>1. 0 % 2 = 0 /\ -1 + 1 = 0  OBVIOUS
<1>2. Updated(r, -1)  BY <1>1 DEF Updated, Init
<1>3. Updates(r, -1) = 0  BY <1>1, <1>2 DEF Updates
<1>4. InRound(r, -1)  BY <1>1, <1>2 DEF InRound, Init
<1>5. CopiesOfRound(r, 0)
  BY OptimizerAssumption DEF CopiesOfRound, Init, LastSetup
<1>. QED  BY <1>3, <1>4, <1>5

(* A rank that turns to no other version and takes no optimizer step stays
   in its round. *)
LEMMA SameRound ==
    ASSUME NEW n \in Nat \cup {-1}, NEW q \in Ranks, TypeOK,
           InRound(q, n), CopiesOfRound(q, Updates(q, n)),
           snapshot_current_version'[q] = snapshot_current_version[q],
           live'[q] = live[q],
           have_set_snapshot_strategy'[q] = have_set_snapshot_strategy[q],
           saved_dicts'[q] = saved_dicts[q],
           LatestReceived(q)' = LatestReceived(q),
           ~Updated(q, n) => queue'[q] = << >>,
           have_set_snapshot_strategy[q] /\ Received(q)' > 0
             => CurrentReceived(q)'[0].step = Updates(q, n),
           \/ phase'[q] \in {phase[q], "exiting", "exited", "crashed"} /\ iter'[q] = iter[q]
           \/ phase[q] = "train" /\ phase'[q] = "sync" /\ iter'[q] = iter[q]
           \/ phase[q] = "sync" /\ phase'[q] \in {"train", "exiting"} /\ iter'[q] = iter[q] + 1
    PROVE  InRound(q, n)' /\ CopiesOfRound(q, Updates(q, n))'
<1>1. (Updated(q, n)' <=> Updated(q, n)) /\ Updates(q, n)' = Updates(q, n)
  BY DEF Updated, Updates
<1>2. Updates(q, n) \in Nat \cup {-1} /\ iter[q] \in Nat
  BY RoundTurns DEF TypeOK
<1>3. InRound(q, n)'  BY <1>1 DEF InRound
<1>4. SetAt(q)' = SetAt(q)  BY DEF SetAt
<1>5. CASE have_set_snapshot_strategy[q]
  <2>1. CopiesOfRound(q, Updates(q, n))'
    BY <1>1, <1>4, <1>5 DEF CopiesOfRound, IsCopyOf
  <2>. QED  BY <1>3, <2>1
<1>6. CASE ~have_set_snapshot_strategy[q]
  <2> DEFINE m == Updates(q, n)
  <2>1. /\ m < LastSetup
        /\ phase[q] \in {"train", "apply", "update"} => m <= iter[q]
        /\ phase[q] = "sync" => m <= iter[q] + 1
    BY <1>6 DEF CopiesOfRound
  <2>2. m' = m /\ m \in Nat \cup {-1}  BY <1>1, <1>2
  <2> HIDE DEF m
  <2>3. /\ phase'[q] \in {"train", "apply", "update"} => m <= iter'[q]
        /\ phase'[q] = "sync" => m <= iter'[q] + 1
    BY <1>2, <2>1, <2>2
  <2>4. (m < LastSetup)'  BY <2>1, <2>2 DEF LastSetup
  <2>5. CopiesOfRound(q, m)'  BY <1>6, <2>2, <2>3, <2>4 DEF CopiesOfRound
  <2>. QED  BY <1>3, <2>5 DEF m
<1>. QED  BY <1>5, <1>6

(* Steps that leave the buffers alone and take no optimizer step. *)
LEMMA FrameAge ==
    ASSUME NEW n, AgeInv(n), TypeOK, UNCHANGED <<buffers, received, queue, live>>,
           \A q \in Ranks :
               \/ phase'[q] \in {phase[q], "exiting", "exited", "crashed"} /\ iter'[q] = iter[q]
               \/ phase[q] = "train" /\ phase'[q] = "sync" /\ iter'[q] = iter[q]
               \/ /\ phase[q] = "sync" /\ phase'[q] \in {"train", "exiting"}
                  /\ iter'[q] = iter[q] + 1
    PROVE  AgeInv(n)'
<1>1. n \in Nat \cup {-1}  BY DEF AgeInv
<1> SUFFICES ASSUME NEW q \in Ranks
             PROVE  InRound(q, n)' /\ CopiesOfRound(q, Updates(q, n))'
  BY <1>1 DEF AgeInv
<1>2. InRound(q, n) /\ CopiesOfRound(q, Updates(q, n))  BY DEF AgeInv
<1>3. /\ Received(q)' = Received(q) /\ CurrentReceived(q)' = CurrentReceived(q)
      /\ LatestReceived(q)' = LatestReceived(q)
  BY DEF Received, CurrentReceived, LatestReceived, LatestCompletedSnapshotVersion, buffers
<1>4. ~Updated(q, n) => queue'[q] = << >>  BY <1>2 DEF InRound
<1>5. have_set_snapshot_strategy[q] /\ Received(q)' > 0
         => CurrentReceived(q)'[0].step = Updates(q, n)
  BY <1>2, <1>3 DEF CopiesOfRound
<1>. QED  BY <1>1, <1>2, <1>3, <1>4, <1>5, SameRound DEF buffers

(* A collective queues blocks only in a rank that has turned to its next
   version. *)
LEMMA HookAge ==
    ASSUME NEW sent, Covered(sent), IInv(sent), NEW n, AgeInv(n),
           NEW r \in Ranks, CollectiveAndHook(r)
    PROVE  AgeInv(n)'
<1>1. TypeOK /\ n \in Nat \cup {-1}  BY DEF IInv, AgeInv
<1>2. \A q \in Ranks : /\ Received(q)' = Received(q)
                       /\ q # r => queue'[q] = queue[q]
  BY HookInv
<1>3. /\ phase[r] = "train"
      /\ UNCHANGED <<phase, iter, live, snapshot_current_version, saved_dicts,
                     have_set_snapshot_strategy, received>>
  BY DEF CollectiveAndHook
<1> SUFFICES ASSUME NEW q \in Ranks
             PROVE  InRound(q, n)' /\ CopiesOfRound(q, Updates(q, n))'
  BY <1>1 DEF AgeInv
<1>4. InRound(q, n) /\ CopiesOfRound(q, Updates(q, n))  BY DEF AgeInv
<1>5. CurrentReceived(q)' = CurrentReceived(q) /\ LatestReceived(q)' = LatestReceived(q)
  BY <1>3 DEF CurrentReceived, LatestReceived, LatestCompletedSnapshotVersion
<1>6. Received(q)' = Received(q)  BY <1>2
<1>7. have_set_snapshot_strategy[q] /\ Received(q)' > 0
         => CurrentReceived(q)'[0].step = Updates(q, n)
  BY <1>4, <1>5, <1>6 DEF CopiesOfRound
<1>8. ~Updated(q, n) => queue'[q] = << >>
  <2>1. CASE q = r  BY <1>3, <1>4, <2>1 DEF InRound
  <2>2. CASE q # r
    <3>1. queue'[q] = queue[q]  BY <1>2, <2>2
    <3>. QED  BY <1>4, <3>1 DEF InRound
  <2>. QED  BY <2>1, <2>2
<1>. QED  BY <1>1, <1>3, <1>4, <1>5, <1>7, <1>8, SameRound

(* What is transferred is of the step of the round: both peers have turned
   to their next version. *)
LEMMA ExchangeAge ==
    ASSUME NEW sent, IInv(sent), NEW n, AgeInv(n), NEW r \in Ranks, Exchange(r)
    PROVE  AgeInv(n)'
<1> DEFINE o == GetPeerRank(r)
<1>1. TypeOK /\ n \in Nat \cup {-1}  BY DEF IInv, AgeInv
<1>2. o \in Ranks /\ o # r  BY PeerSymmetric
<1>3. UNCHANGED <<host, buffers>>  BY DEF Exchange
<1>4. queue[r] # << >> /\ queue[o] # << >>  BY DEF Exchange
<1>5. \A q \in Ranks : InRound(q, n) /\ CopiesOfRound(q, Updates(q, n))
  BY DEF AgeInv
<1>6. \A q \in {r, o} : Updated(q, n) /\ live[q] = n + 1 /\ Updates(q, n) = n + 1
  BY <1>2, <1>4, <1>5 DEF InRound, Updates
<1> HIDE DEF o
<1>7. ASSUME NEW q \in Ranks
      PROVE  /\ ~Updated(q, n) => queue'[q] = << >>
             /\ have_set_snapshot_strategy[q] /\ Received(q)' > 0
                  => CurrentReceived(q)'[0].step = Updates(q, n)
  <2>1. CASE q \in {r, o}
    <3>1. PICK p \in {r, o} : p # q  BY <1>2
    <3>2. /\ have_set_snapshot_strategy[q]
          /\ Received(q) \in Blocks
          /\ \A b \in Blocks : CurrentReceived(q)'[b] =
                IF b = Received(q) THEN LiveBlock(p, b) ELSE CurrentReceived(q)[b]
      BY <2>1, <3>1, ExchangeSide DEF o
    <3>3. 0 \in Blocks  BY OptimizerAssumption DEF Blocks
    <3>4. LiveBlock(p, 0).step = n + 1  BY <1>6 DEF LiveBlock
    <3>5. CASE Received(q) = 0  BY <1>6, <2>1, <3>2, <3>3, <3>4, <3>5
    <3>6. CASE Received(q) # 0
      <4>1. Received(q) > 0  BY <3>2, <3>6 DEF Blocks
      <4>2. CurrentReceived(q)'[0] = CurrentReceived(q)[0]  BY <3>2, <3>3, <3>6
      <4>. QED  BY <1>5, <1>6, <2>1, <3>2, <4>1, <4>2 DEF CopiesOfRound
    <3>. QED  BY <3>5, <3>6
  <2>2. CASE q \notin {r, o}
    <3>1. queue'[q] = queue[q]  BY <1>1, <2>2 DEF Exchange, TypeOK, o
    <3>2. received'[q] = received[q]  BY <1>1, <2>2 DEF Exchange, TypeOK, o
    <3>3. Received(q)' = Received(q) /\ CurrentReceived(q)' = CurrentReceived(q)
      BY <1>3, <3>1, <3>2 DEF Received, CurrentReceived, buffers
    <3>. QED  BY <1>5, <3>1, <3>3 DEF InRound, CopiesOfRound
  <2>. QED  BY <2>1, <2>2
<1> SUFFICES ASSUME NEW q \in Ranks
             PROVE  InRound(q, n)' /\ CopiesOfRound(q, Updates(q, n))'
  BY <1>1 DEF AgeInv
<1>8. LatestReceived(q)' = LatestReceived(q)  BY ExchangeInv
<1>. QED  BY <1>1, <1>3, <1>5, <1>7, <1>8, SameRound DEF host, buffers

(* An optimizer step that is taken begins a round: every rank has finished
   the round before. *)
LEMMA OverflowAge ==
    ASSUME TypeOK, NEW n, AgeInv(n), OverflowCheck
    PROVE  \/ AgeInv(n)' /\ \A q \in Ranks : phase'[q] = "sync"
           \/ AgeInv(n + 1)' /\ \A q \in Ranks : phase'[q] = "apply"
<1>1. n \in Nat \cup {-1} /\ n + 1 \in Nat  BY DEF AgeInv
<1>2. /\ \A q \in Ranks : phase[q] = "train" /\ queue[q] = << >>
      /\ UNCHANGED <<iter, live, buffers, received, queue>>
      /\ \/ \A q \in Ranks : phase'[q] = "sync"
         \/ \A q \in Ranks : phase'[q] = "apply"
  BY DEF OverflowCheck, device
<1>3. CASE \A q \in Ranks : phase'[q] = "sync"
  <2>1. UNCHANGED <<buffers, received, queue, live>>  BY <1>2
  <2>2. \A q \in Ranks : /\ phase[q] = "train" /\ phase'[q] = "sync"
                         /\ iter'[q] = iter[q]
    BY <1>2, <1>3
  <2>3. AgeInv(n)'  BY <2>1, <2>2, FrameAge
  <2>. QED  BY <1>3, <2>3
<1>4. CASE \A q \in Ranks : phase'[q] = "apply"
  <2>1. ASSUME NEW q \in Ranks
        PROVE  InRound(q, n + 1)' /\ CopiesOfRound(q, Updates(q, n + 1))'
    <3>1. InRound(q, n) /\ CopiesOfRound(q, Updates(q, n))  BY DEF AgeInv
    <3>2. Updated(q, n) /\ live[q] = n + 1  BY <1>2, <3>1 DEF InRound
    <3>3. ~Updated(q, n + 1)  BY <1>1, <3>2, RoundTurns
    <3>4. Updates(q, n) = n + 1 /\ Updates(q, n + 1) = n + 1
      BY <3>2, <3>3 DEF Updates
    <3>5. ~Updated(q, n + 1)' /\ Updates(q, n + 1)' = n + 1
      BY <1>2, <3>3, <3>4 DEF Updated, Updates, buffers
    <3>6. InRound(q, n + 1)'  BY <1>1, <1>2, <1>4, <3>2, <3>5 DEF InRound
    <3>7. LatestReceived(q)' = LatestReceived(q) /\ CurrentReceived(q)' = CurrentReceived(q)
          /\ Received(q)' = Received(q)
      BY <1>2 DEF LatestReceived, LatestCompletedSnapshotVersion, CurrentReceived, Received, buffers
    <3>8. CopiesOfRound(q, n + 1)'
      BY <1>2, <1>4, <3>1, <3>4, <3>7 DEF CopiesOfRound, buffers, SetAt, LastSetup, IsCopyOf
    <3>. QED  BY <3>5, <3>6, <3>8
  <2>. QED  BY <1>1, <1>4, <2>1 DEF AgeInv
<1>. QED  BY <1>2, <1>3, <1>4

(* An optimizer step takes a rank from the step its round starts from to
   the next. *)
LEMMA ApplyAge ==
    ASSUME TypeOK, NEW n, AgeInv(n), NEW r \in Ranks, ApplyStep(r)
    PROVE  AgeInv(n)' /\ live[r] = n
<1>1. n \in Nat \cup {-1}  BY DEF AgeInv
<1>2. /\ phase[r] = "apply" /\ phase'[r] = "update" /\ live'[r] = live[r] + 1
      /\ UNCHANGED <<iter, buffers, received, queue>>
      /\ \A q \in Ranks : q # r => phase'[q] = phase[q] /\ live'[q] = live[q]
  BY DEF ApplyStep, TypeOK, device
<1>3. \A q \in Ranks : InRound(q, n) /\ CopiesOfRound(q, Updates(q, n))
  BY DEF AgeInv
<1>4. live[r] = n /\ ~Updated(r, n)  BY <1>2, <1>3 DEF InRound
<1>5. ASSUME NEW q \in Ranks
      PROVE  InRound(q, n)' /\ CopiesOfRound(q, Updates(q, n))'
  <2>1. Updates(q, n)' = Updates(q, n) /\ (Updated(q, n)' <=> Updated(q, n))
    BY <1>2 DEF Updated, Updates, buffers
  <2>2. InRound(q, n)'
    <3>1. CASE q = r  BY <1>1, <1>2, <1>3, <1>4, <2>1, <3>1 DEF InRound
    <3>2. CASE q # r  BY <1>2, <1>3, <2>1, <3>2 DEF InRound
    <3>. QED  BY <3>1, <3>2
  <2>3. LatestReceived(q)' = LatestReceived(q) /\ CurrentReceived(q)' = CurrentReceived(q)
        /\ Received(q)' = Received(q)
    BY <1>2 DEF LatestReceived, LatestCompletedSnapshotVersion, CurrentReceived, Received, buffers
  <2>4. \/ phase'[q] = phase[q]
        \/ phase[q] = "apply" /\ phase'[q] = "update"
    BY <1>2
  <2>5. CopiesOfRound(q, Updates(q, n))'
    BY <1>2, <1>3, <2>1, <2>3, <2>4
       DEF CopiesOfRound, buffers, SetAt, LastSetup, IsCopyOf
  <2>. QED  BY <2>2, <2>5
<1>. QED  BY <1>1, <1>4, <1>5 DEF AgeInv

(* Turning to the next version: what was received in the version left is
   the peer's state of the step before, or the rank sets up its buffers. *)
LEMMA UpdateAge ==
    ASSUME NEW sent, Covered(sent), IInv(sent), NEW n, AgeInv(n),
           NEW r \in Ranks, UpdateLocalOptimizerSnapshot(r)
    PROVE  /\ AgeInv(n)'
           /\ ~Updated(r, n) /\ Updated(r, n)'
<1>1. TypeOK /\ n \in Nat \cup {-1} /\ Mode \in {"naive", "interleave"}
      /\ ProfileSteps \in Nat \ {0} /\ TotalBlocks \in Nat \ {0}
  BY OptimizerAssumption DEF IInv, AgeInv
<1>2. \A q \in Ranks : InRound(q, n) /\ CopiesOfRound(q, Updates(q, n))
  BY DEF AgeInv
<1>3. /\ phase[r] = "update" /\ phase'[r] = "sync"
      /\ UNCHANGED <<iter, live>>
      /\ snapshot_current_version'[r] = NextVersion(snapshot_current_version[r])
  BY <1>1 DEF UpdateLocalOptimizerSnapshot, TypeOK
<1>4. live[r] = n + 1 /\ ~Updated(r, n) /\ n >= 0  BY <1>2, <1>3 DEF InRound
<1>5. Updated(r, n)'
  <2> DEFINE x == (n + 1) % 2
             v == snapshot_current_version[r]
  <2>1. x \in Versions  BY <1>1, RoundParity
  <2>2. v \in Versions /\ v # x  BY <1>1, <1>4 DEF TypeOK, Updated
  <2>3. snapshot_current_version'[r] = 1 - v  BY <1>3, <2>2, VersionFacts
  <2>4. Updated(r, n)' <=> snapshot_current_version'[r] = x  BY DEF Updated
  <2> HIDE DEF x, v
  <2>. QED  BY <2>1, <2>2, <2>3, <2>4 DEF Versions
<1>6. Updates(r, n) = n /\ Updates(r, n)' = n + 1  BY <1>4, <1>5 DEF Updates
<1>7. /\ Received(r)' = 0 /\ queue[r] = << >>
      /\ have_set_snapshot_strategy[r] => Received(r) = TotalBlocks
  BY UpdateSide
<1>8. InRound(r, n)'  BY <1>1, <1>3, <1>4, <1>5 DEF InRound
<1>9. CopiesOfRound(r, n + 1)'
  <2>1. CASE SetsStrategy(r)
    <3> DEFINE own == [b \in Blocks |-> LiveBlock(r, b)]
    <3>1. /\ have_set_snapshot_strategy'[r]
          /\ saved_dicts'[r] = own
      BY <1>1, <2>1 DEF UpdateLocalOptimizerSnapshot, TypeOK
    <3>2. LatestReceived(r)' = own  BY <2>1, UpdateSide
    <3>3. 0 \in Blocks  BY <1>1 DEF Blocks
    <3>4. IsCopyOf(own, r) /\ own[0].step = n + 1
      BY <1>4, <3>3 DEF IsCopyOf, LiveBlock
    <3> HIDE DEF own
    <3>5. SetAt(r)' = n + 1 /\ IsCopyOf(LatestReceived(r), r)'
      BY <3>1, <3>2, <3>4 DEF SetAt, IsCopyOf
    <3>6. n < LastSetup  BY <1>2, <1>6, <2>1 DEF SetsStrategy, CopiesOfRound
    <3>7. n + 1 \in 1 .. LastSetup  BY <1>1, <1>4, <3>6 DEF LastSetup
    <3>8. LastSetup' = LastSetup  BY DEF LastSetup
    <3> DEFINE m == n + 1
    <3>9. /\ SetAt(r)' = m /\ m \in 1 .. LastSetup /\ m \in Nat
          /\ IsCopyOf(LatestReceived(r), r)' /\ Received(r)' = 0
      BY <1>1, <1>7, <3>5, <3>7
    <3> HIDE DEF m
    <3>10. CopiesOfRound(r, m)'  BY <3>1, <3>8, <3>9 DEF CopiesOfRound
    <3>. QED  BY <3>10 DEF m
  <2>2. CASE ~SetsStrategy(r) /\ have_set_snapshot_strategy[r]
    <3>1. /\ UNCHANGED <<have_set_snapshot_strategy, saved_dicts>>
      BY <2>2 DEF UpdateLocalOptimizerSnapshot
    <3>2. LatestReceived(r)' = CurrentReceived(r)  BY <2>2, UpdateSide
    <3>3. CopiesOfRound(r, n) /\ Received(r) = TotalBlocks
      <4>1. CopiesOfRound(r, Updates(r, n))  BY <1>2
      <4>2. CopiesOfRound(r, n)  BY <1>6, <4>1
      <4>. QED  BY <1>7, <2>2, <4>2
    <3>4. SetAt(r) \in 1 .. LastSetup /\ SetAt(r) <= n /\ CurrentReceived(r)[0].step = n
      BY <1>1, <2>2, <3>3 DEF CopiesOfRound
    <3>5. IsCopyOf(CurrentReceived(r), GetPeerRank(r))
      <4>1. ReceivedInPlace(r, GetPeerRank(r))  BY DEF IInv
      <4>. QED  BY <1>1, <3>3, <4>1 DEF ReceivedInPlace, IsCopyOf, Blocks
    <3>6. SetAt(r)' = SetAt(r) /\ LastSetup' = LastSetup
      BY <3>1 DEF SetAt, LastSetup
    <3>7. IsCopyOf(LatestReceived(r), GetPeerRank(r))' /\ LatestReceived(r)'[0].step = (n + 1) - 1
      BY <1>1, <3>2, <3>4, <3>5 DEF IsCopyOf
    <3>8. SetAt(r)' < n + 1  BY <1>1, <3>4, <3>6 DEF LastSetup
    <3> DEFINE m == n + 1
    <3>9. /\ SetAt(r)' \in 1 .. LastSetup' /\ SetAt(r)' < m /\ SetAt(r)' # m
          /\ m \in Nat /\ Received(r)' = 0 /\ have_set_snapshot_strategy'[r]
          /\ IsCopyOf(LatestReceived(r), GetPeerRank(r))' /\ LatestReceived(r)'[0].step = m - 1
      BY <1>1, <1>7, <2>2, <3>1, <3>4, <3>6, <3>7, <3>8 DEF LastSetup
    <3> HIDE DEF m
    <3>10. CopiesOfRound(r, m)'  BY <3>9 DEF CopiesOfRound
    <3>. QED  BY <3>10 DEF m
  <2>3. CASE ~SetsStrategy(r) /\ ~have_set_snapshot_strategy[r]
    <3>1. have_set_snapshot_strategy' = have_set_snapshot_strategy
      BY <2>3 DEF UpdateLocalOptimizerSnapshot
    <3>2. CopiesOfRound(r, n)  BY <1>2, <1>6
    <3>3. n <= iter[r]  BY <1>3, <2>3, <3>2 DEF CopiesOfRound
    <3>4. Mode = "interleave" /\ iter[r] < ProfileSteps
      BY <1>1, <2>3 DEF SetsStrategy, TypeOK
    <3>5. n + 1 < LastSetup /\ n + 1 <= iter[r] + 1
      BY <1>1, <3>3, <3>4 DEF LastSetup, TypeOK
    <3>. QED  BY <1>3, <2>3, <3>1, <3>5 DEF CopiesOfRound, LastSetup
  <2>. QED  BY <2>1, <2>2, <2>3
<1>10. ASSUME NEW q \in Ranks, q # r
       PROVE  InRound(q, n)' /\ CopiesOfRound(q, Updates(q, n))'
  <2>1. /\ phase'[q] = phase[q] /\ snapshot_current_version'[q] = snapshot_current_version[q]
        /\ have_set_snapshot_strategy'[q] = have_set_snapshot_strategy[q]
        /\ saved_dicts'[q] = saved_dicts[q]
        /\ received'[q] = received[q]
        /\ cur_block_id'[q] = cur_block_id[q] /\ queue'[q] = queue[q]
    <3>1. CASE SetsStrategy(r)
      BY <1>1, <1>10, <3>1 DEF UpdateLocalOptimizerSnapshot, TypeOK
    <3>2. CASE ~SetsStrategy(r)
      BY <1>1, <1>10, <3>2 DEF UpdateLocalOptimizerSnapshot, TypeOK
    <3>. QED  BY <3>1, <3>2
  <2>2. LatestReceived(q)' = LatestReceived(q) /\ CurrentReceived(q)' = CurrentReceived(q)
        /\ Received(q)' = Received(q)
    BY <2>1 DEF LatestReceived, LatestCompletedSnapshotVersion, CurrentReceived, Received
  <2>3. InRound(q, n) /\ CopiesOfRound(q, Updates(q, n))  BY <1>2
  <2>4. ~Updated(q, n) => queue'[q] = << >>  BY <2>1, <2>3 DEF InRound
  <2>5. have_set_snapshot_strategy[q] /\ Received(q)' > 0
           => CurrentReceived(q)'[0].step = Updates(q, n)
    BY <2>2, <2>3 DEF CopiesOfRound
  <2>. QED  BY <1>1, <1>3, <2>1, <2>2, <2>3, <2>4, <2>5, SameRound
<1>11. AgeInv(n)'
  <2>1. \A q \in Ranks : InRound(q, n)' /\ CopiesOfRound(q, Updates(q, n))'
    BY <1>6, <1>8, <1>9, <1>10
  <2>. QED  BY <1>1, <2>1 DEF AgeInv
<1>. QED  BY <1>4, <1>5, <1>11

(* Steps stay in their round, or begin the next one. *)
LEMMA NextAge ==
    ASSUME NEW sent, Covered(sent), IInv(sent), NEW n, AgeInv(n), [Next]_vars
    PROVE  \/ AgeInv(n)' /\ (OverflowCheck => \A q \in Ranks : phase'[q] = "sync")
           \/ AgeInv(n + 1)' /\ OverflowCheck /\ \A q \in Ranks : phase'[q] = "apply"
<1>1. TypeOK  BY DEF IInv
<1>2. ASSUME NEW r \in Ranks, CollectiveAndHook(r) PROVE AgeInv(n)'
  BY <1>2, HookAge
<1>3. ASSUME NEW r \in Ranks, Exchange(r) PROVE AgeInv(n)'
  BY <1>3, ExchangeAge
<1>4. ASSUME NEW r \in Ranks, ApplyStep(r) PROVE AgeInv(n)'
  BY <1>1, <1>4, ApplyAge
<1>5. ASSUME NEW r \in Ranks, UpdateLocalOptimizerSnapshot(r) PROVE AgeInv(n)'
  BY <1>5, UpdateAge
<1>6. ASSUME NEW r \in Ranks, EndIteration(r) PROVE AgeInv(n)'
  <2>1. /\ UNCHANGED <<buffers, received, queue, live>>
        /\ phase[r] = "sync" /\ phase'[r] \in {"train", "exiting"} /\ iter'[r] = iter[r] + 1
        /\ \A q \in Ranks : q # r => phase'[q] = phase[q] /\ iter'[q] = iter[q]
    BY <1>1, <1>6 DEF EndIteration, TypeOK, device
  <2>. QED  BY <1>1, <2>1, FrameAge
<1>7. ASSUME NEW r \in Ranks, SaveOptimizerSnapshotToDisk(r) \/ Interrupt(r)
      PROVE  AgeInv(n)'
  <2>1. /\ UNCHANGED <<buffers, received, queue, live, iter>>
        /\ \A q \in Ranks : phase'[q] \in {phase[q], "exiting", "exited", "crashed"}
    BY <1>1, <1>7 DEF SaveOptimizerSnapshotToDisk, Interrupt, TypeOK, device
  <2>. QED  BY <1>1, <2>1, FrameAge
<1>8. ASSUME NEW m \in MachineRanks, Crash(m) PROVE AgeInv(n)'
  <2>1. /\ UNCHANGED <<buffers, received, queue, live, iter>>
        /\ \A q \in Ranks : phase'[q] \in {phase[q], "exiting", "exited", "crashed"}
    BY <1>8 DEF Crash, device
  <2>. QED  BY <1>1, <2>1, FrameAge
<1>9. ASSUME UNCHANGED vars \/ \E r \in Ranks : Copy(r) PROVE AgeInv(n)'
  <2>1. /\ UNCHANGED <<buffers, received, queue, live, iter>>
        /\ \A q \in Ranks : phase'[q] \in {phase[q], "exiting", "exited", "crashed"}
    BY <1>9 DEF vars, Copy, host, device
  <2>. QED  BY <1>1, <2>1, FrameAge
<1>10. CASE OverflowCheck  BY <1>1, <1>10, OverflowAge
<1>11. CASE ~OverflowCheck
  <2>1. AgeInv(n)'
    BY <1>2, <1>3, <1>4, <1>5, <1>6, <1>7, <1>8, <1>9, <1>11 DEF Next, RankStep
  <2>. QED  BY <1>11, <2>1
<1>. QED  BY <1>10, <1>11

----------------------------------------------------------------------------
(* The age of what CPU memory holds. *)

(* Steps that leave the copy stream, the buffers and CPU memory of q alone. *)
LEMMA OldFrame ==
    ASSUME TypeOK, NEW q \in Ranks, Streams(q), NEW m \in Nat \cup {-1}, OldInRound(q, m),
           gpu'[q] = gpu[q], tensor_blocks'[q] = tensor_blocks[q],
           snapshot_current_version'[q] = snapshot_current_version[q],
           saved_dicts'[q] = saved_dicts[q],
           Copied(q)' = Copied(q),
           Late(q)' => cur_block_id[q] = 0 /\ copies'[q] = copies[q]
    PROVE  OldInRound(q, m)'
<1>1. CopiesInOrder(q)  BY DEF Streams
<1>2. /\ LatestCompletedSnapshotVersion(q)' = LatestCompletedSnapshotVersion(q)
      /\ CurrentCopy(q)' = CurrentCopy(q) /\ LatestCopy(q)' = LatestCopy(q)
      /\ SetAt(q)' = SetAt(q)
  BY DEF LatestCompletedSnapshotVersion, CurrentCopy, LatestCopy, SetAt
<1>3. Late(q)' => Late(q) /\ copies'[q] = copies[q]
  <2>1. Late(q)' => Len(copies'[q]) # 0 /\ copies'[q] = copies[q] /\ cur_block_id[q] = 0
    BY DEF Late
  <2>. QED  BY <1>1, <2>1, LateWhen, CopiesType
<1>. QED  BY <1>2, <1>3 DEF OldInRound, OlderThan

(* A receive brings the state of the round's step; copies wait. *)
LEMMA OldExchange ==
    ASSUME NEW sent, IInv(sent), StreamInv, NEW n, AgeInv(n), OldInv(n),
           NEW r \in Ranks, Exchange(r)
    PROVE  OldInv(n)'
<1> DEFINE o == GetPeerRank(r)
<1>1. TypeOK /\ n \in Nat \cup {-1}  BY DEF IInv, AgeInv
<1>2. o \in Ranks /\ o # r /\ GetPeerRank(o) = r  BY PeerSymmetric
<1>3. /\ UNCHANGED <<host, buffers, tensor_blocks, copies, spoilt, file>>
      /\ queue[r] # << >> /\ queue[o] # << >>
  BY DEF Exchange
<1>4. \A q \in Ranks : Updates(q, n)' = Updates(q, n) /\ Copied(q)' = Copied(q)
  BY <1>3 DEF Updates, Updated, Copied, buffers
<1>5. ASSUME NEW q \in {r, o} PROVE OldInRound(q, Updates(q, n))'
  <2> DEFINE p == GetPeerRank(q)
             m == Updates(q, n)
             i == BufferOf(q, Len(queue[q]))
             x == LiveBlock(p, Received(q))
  <2>1. q \in Ranks /\ p \in {r, o} /\ p \in Ranks /\ p # q  BY <1>2
  <2>2. InRound(q, n) /\ InRound(p, n) /\ OldInRound(q, m)
    BY <2>1 DEF AgeInv, OldInv
  <2>3. m = n + 1 /\ live[p] \in Nat /\ live[p] <= m
    <3>1. Updated(q, n)  BY <1>3, <2>2 DEF InRound
    <3>2. live[p] \in {n, n + 1} /\ live[p] \in Nat
      BY <1>1, <2>1, <2>2 DEF InRound, TypeOK
    <3>. QED  BY <1>1, <3>1, <3>2 DEF Updates
  <2>4. gpu'[q] = [gpu[q] EXCEPT ![i] = x]  BY <2>1, ExchangeBuffer
  <2>5. gpu[q] \in [Buffers -> Contents]  BY <1>1, <2>1 DEF TypeOK
  <2>6. m' = m  BY <1>4, <2>1
  <2>7. x.step = live[p]  BY DEF LiveBlock
  <2> HIDE DEF m, i, x
  <2>8. \A k \in Buffers : OlderThan(gpu'[q][k], q, m + 1)
    <3>1. ASSUME NEW k \in Buffers PROVE OlderThan(gpu'[q][k], q, m + 1)
      <4>1. CASE k = i
        <5>1. gpu'[q][k] = x  BY <2>4, <2>5, <4>1
        <5>. QED  BY <1>1, <2>3, <2>7, <5>1 DEF OlderThan
      <4>2. CASE k # i
        <5>1. gpu'[q][k] = gpu[q][k]  BY <2>4, <2>5, <4>2
        <5>. QED  BY <2>2, <5>1 DEF OldInRound
      <4>. QED  BY <4>1, <4>2
    <3>. QED  BY <3>1
  <2>9. /\ CurrentCopy(q)' = CurrentCopy(q) /\ Copied(q)' = Copied(q)
        /\ tensor_blocks' = tensor_blocks
    BY <1>3, <1>4, <2>1 DEF CurrentCopy, buffers
  <2>10. ~Late(q)'
    <3>1. Received(q) >= 0 /\ queue[q] # << >>
      BY <1>3, <2>1 DEF IInv, QueueInOrder
    <3>2. cur_block_id[q] # 0  BY <1>1, <2>1, <3>1, CopiesType
    <3>. QED  BY <1>3, <3>2 DEF Late, buffers
  <2>. QED  BY <2>2, <2>6, <2>8, <2>9, <2>10 DEF OldInRound, OlderThan, m
<1>6. ASSUME NEW q \in Ranks, q \notin {r, o} PROVE OldInRound(q, Updates(q, n))'
  <2>1. gpu'[q] = gpu[q]  BY <1>1, <1>2, <1>6 DEF Exchange, TypeOK
  <2>2. OldInRound(q, Updates(q, n)) /\ Streams(q) /\ Updates(q, n) \in Nat \cup {-1}
    BY <1>1, RoundTurns DEF OldInv, StreamInv
  <2>3. UNCHANGED <<tensor_blocks, snapshot_current_version, saved_dicts, copies, cur_block_id>>
    BY <1>3 DEF buffers
  <2>4. Late(q)' => cur_block_id[q] = 0  BY <2>3 DEF Late
  <2> DEFINE m == Updates(q, n)
  <2>5. m' = m /\ m \in Nat \cup {-1} /\ OldInRound(q, m)  BY <1>4, <2>2
  <2> HIDE DEF m
  <2>6. OldInRound(q, m)'
    BY ZenonT(60), <1>1, <1>4, <2>1, <2>2, <2>3, <2>4, <2>5, OldFrame
  <2>. QED  BY <2>6 DEF m
<1>. QED  BY <1>5, <1>6 DEF OldInv

(* A copy writes what a buffer holds, in the block that was due. *)
LEMMA OldCopy ==
    ASSUME TypeOK, StreamInv, NEW n \in Nat \cup {-1}, OldInv(n),
           NEW r \in Ranks, Copy(r)
    PROVE  OldInv(n)'
<1>1. UNCHANGED <<host, buffers, gpu, queue, received, file>>  BY DEF Copy
<1>2. \A q \in Ranks : Updates(q, n)' = Updates(q, n)
  BY <1>1 DEF Updates, Updated, buffers
<1>3. OldInRound(r, Updates(r, n))'
  <2> DEFINE m == Updates(r, n)
             l == Len(copies[r])
             late == LatestCompletedSnapshotVersion(r)
             cur == snapshot_current_version[r]
             v == IF Late(r) THEN late ELSE cur
             f == IF Late(r) THEN TotalBlocks - l ELSE Copied(r)
             x == gpu[r][BufferOf(r, l)]
  <2>1. CopiesInOrder(r) /\ OldInRound(r, m) /\ m \in Nat \cup {-1}
    BY RoundTurns DEF StreamInv, Streams, OldInv
  <2>2. /\ l \in Nat \ {0} /\ f \in Blocks /\ v \in Versions
        /\ Len(copies'[r]) = l - 1
        /\ tensor_blocks'[r] = [tensor_blocks[r] EXCEPT ![v][f] = x]
    BY <2>1, CopySide
  <2>3. /\ late \in Versions /\ cur \in Versions /\ late # cur
        /\ tensor_blocks[r] \in [Versions -> [Blocks -> Contents]]
        /\ Copied(r) \in Int /\ TotalBlocks \in Nat /\ cur_block_id[r] \in Nat
        /\ Copied(r) + l = cur_block_id[r]
    <3>1. late \in Versions /\ cur \in Versions /\ late # cur
      BY LatestFacts DEF TypeOK
    <3>2. tensor_blocks[r] \in [Versions -> [Blocks -> Contents]]
      BY DEF TypeOK
    <3>3. /\ Copied(r) \in Int /\ TotalBlocks \in Nat
          /\ cur_block_id[r] \in 0 .. TotalBlocks /\ Copied(r) + l = cur_block_id[r]
      BY CopiesType
    <3>. QED  BY <3>1, <3>2, <3>3
  <2>5. OlderThan(x, r, m + 1)
    <3>1. l \in Int /\ BufferOf(r, l) \in Buffers  BY <2>2, BufferType
    <3>. QED  BY <2>1, <3>1 DEF OldInRound
  <2>6. /\ CurrentCopy(r) = tensor_blocks[r][cur] /\ CurrentCopy(r)' = tensor_blocks'[r][cur]
        /\ LatestCopy(r) = tensor_blocks[r][late] /\ LatestCopy(r)' = tensor_blocks'[r][late]
        /\ SetAt(r)' = SetAt(r) /\ Copied(r)' = Copied(r) + 1 /\ m' = m
        /\ gpu' = gpu
    <3>1. Copied(r)' = cur_block_id[r] - (l - 1)
      BY <1>1, <2>2 DEF Copied, buffers
    <3>2. Copied(r)' = Copied(r) + 1  BY <2>2, <2>3, <3>1
    <3>. QED  BY <1>1, <1>2, <3>2 DEF CurrentCopy, LatestCopy, SetAt,
                 LatestCompletedSnapshotVersion, buffers
  <2>7. Late(r)' => Late(r)
    <3>1. Late(r)' => cur_block_id[r] = 0 /\ copies[r] # << >>
      BY <1>1, <2>2, EmptySeq DEF Late, buffers
    <3>. QED  BY <2>1, <3>1, LateWhen
  <2>8. Late(r) => v = late /\ f = TotalBlocks - l  OBVIOUS
  <2>9. ~Late(r) => v = cur /\ f = Copied(r)  OBVIOUS
  <2>10. \A w \in Versions, b \in Blocks :
            tensor_blocks'[r][w][b] = IF w = v /\ b = f THEN x ELSE tensor_blocks[r][w][b]
    <3> HIDE DEF v, f, x
    <3>. QED  BY <2>2, <2>3
  <2>11. \A b \in Blocks : CurrentCopy(r)'[b] = IF cur = v /\ b = f THEN x ELSE CurrentCopy(r)[b]
    BY <2>3, <2>6, <2>10
  <2>12. \A b \in Blocks : LatestCopy(r)'[b] = IF late = v /\ b = f THEN x ELSE LatestCopy(r)[b]
    BY <2>3, <2>6, <2>10
  <2> HIDE DEF m, l, late, cur, v, f, x
  <2>13. /\ \A i \in Buffers : OlderThan(gpu[r][i], r, m + 1)
         /\ \A w \in Versions, b \in Blocks : OlderThan(tensor_blocks[r][w][b], r, m + 1)
         /\ \A b \in Blocks : b >= Copied(r) => OlderThan(CurrentCopy(r)[b], r, m)
         /\ Late(r) => /\ m > SetAt(r)
                       /\ \A b \in Blocks : b >= TotalBlocks - l => OlderThan(LatestCopy(r)[b], r, m - 1)
    BY <2>1 DEF OldInRound, l
  <2>14. \A w \in Versions, b \in Blocks : OlderThan(tensor_blocks'[r][w][b], r, m + 1)
    BY <2>5, <2>10, <2>13
  <2>15. \A b \in Blocks : b >= Copied(r)' => OlderThan(CurrentCopy(r)'[b], r, m)
    <3>1. ASSUME NEW b \in Blocks, b >= Copied(r)'
          PROVE  b >= Copied(r) /\ ~(cur = v /\ b = f)
      <4>1. b \in Int  BY <2>3 DEF Blocks
      <4>. QED  BY <2>3, <2>6, <2>8, <2>9, <3>1, <4>1
    <3>2. ASSUME NEW b \in Blocks, b >= Copied(r)' PROVE OlderThan(CurrentCopy(r)'[b], r, m)
      BY <2>11, <2>13, <3>1, <3>2
    <3>. QED  BY <3>2
  <2>16. Late(r)' => /\ m > SetAt(r)
                     /\ \A b \in Blocks : b >= TotalBlocks - Len(copies'[r]) =>
                            OlderThan(LatestCopy(r)'[b], r, m - 1)
    <3> SUFFICES ASSUME Late(r)', NEW b \in Blocks
                 PROVE  /\ m > SetAt(r)
                        /\ b >= TotalBlocks - Len(copies'[r]) => OlderThan(LatestCopy(r)'[b], r, m - 1)
      BY <2>7, <2>13
    <3>1. b \in Int /\ f = TotalBlocks - l  BY <2>3, <2>7, <2>8 DEF Blocks
    <3>2. b >= TotalBlocks - Len(copies'[r]) => b >= TotalBlocks - l /\ b # f
      BY <2>2, <2>3, <3>1
    <3>. QED  BY <2>7, <2>12, <2>13, <3>2
  <2>17. OldInRound(r, m)'
    BY <2>6, <2>13, <2>14, <2>15, <2>16 DEF OldInRound, OlderThan
  <2>. QED  BY <2>17 DEF m
<1>4. ASSUME NEW q \in Ranks, q # r PROVE OldInRound(q, Updates(q, n))'
  <2>1. copies'[q] = copies[q] /\ tensor_blocks'[q] = tensor_blocks[q]
    BY <1>4 DEF Copy, TypeOK
  <2>2. OldInRound(q, Updates(q, n)) /\ Streams(q) /\ Updates(q, n) \in Nat \cup {-1}
    BY RoundTurns DEF OldInv, StreamInv
  <2>3. /\ gpu'[q] = gpu[q] /\ snapshot_current_version'[q] = snapshot_current_version[q]
        /\ saved_dicts'[q] = saved_dicts[q] /\ Copied(q)' = Copied(q)
        /\ Late(q)' => cur_block_id[q] = 0 /\ copies'[q] = copies[q]
    BY <1>1, <2>1 DEF buffers, Copied, Late
  <2> DEFINE m == Updates(q, n)
  <2>4. m' = m /\ m \in Nat \cup {-1} /\ OldInRound(q, m)  BY <1>2, <2>2
  <2> HIDE DEF m
  <2>5. OldInRound(q, m)'  BY ZenonT(60), <2>1, <2>2, <2>3, <2>4, OldFrame
  <2>. QED  BY <2>5 DEF m
<1>. QED  BY <1>3, <1>4 DEF OldInv

(* A hook issues as many copies as it counts blocks. *)
LEMMA HookCopied ==
    ASSUME TypeOK, NEW r \in Ranks, CollectiveAndHook(r)
    PROVE  \A q \in Ranks :
              /\ Copied(q)' = Copied(q)
              /\ q # r => cur_block_id'[q] = cur_block_id[q] /\ copies'[q] = copies[q]
<1> DEFINE c == cur_block_id[r]
           v == snapshot_current_version[r]
           n == BlocksToSend(c, Strategy[comm_gap_id[r]])
           issued == TransfersOf(c, n, v)
<1>1. CASE ~(IsSnapshotStep(r) /\ Mode = "interleave" /\ comm_gap_id[r] \in DOMAIN Strategy)
  <2>1. UNCHANGED <<copies, cur_block_id>>
    BY <1>1 DEF CollectiveAndHook, StrategyOf
  <2>. QED  BY <2>1 DEF Copied
<1>2. CASE IsSnapshotStep(r) /\ Mode = "interleave" /\ comm_gap_id[r] \in DOMAIN Strategy
  <2>1. /\ copies' = [copies EXCEPT ![r] = @ \o issued]
        /\ cur_block_id' = [cur_block_id EXCEPT ![r] = @ + n]
    BY <1>2 DEF CollectiveAndHook, StrategyOf
  <2>2. \A q \in Ranks : q # r => cur_block_id'[q] = cur_block_id[q] /\ copies'[q] = copies[q]
    BY <2>1 DEF TypeOK
  <2>3. Copied(r)' = Copied(r)
    <3>1. /\ c \in 0 .. TotalBlocks /\ c + n \in 0 .. TotalBlocks /\ n \in Nat
          /\ v \in Versions /\ TotalBlocks \in Nat
      <4>1. c \in 0 .. TotalBlocks /\ v \in Versions /\ TotalBlocks \in Nat
        BY OptimizerAssumption DEF TypeOK
      <4>2. Strategy[comm_gap_id[r]] \in Nat \cup {-1}
        BY <1>2, OptimizerAssumption
      <4> HIDE DEF c, v
      <4>. QED  BY <4>1, <4>2, BlocksToSendType
    <3>2. /\ copies'[r] = copies[r] \o issued /\ cur_block_id'[r] = c + n
          /\ copies[r] \in Seq(Transfers) /\ Len(copies[r]) \in Nat
      BY <2>1, CopiesType DEF TypeOK
    <3> HIDE DEF c, n, v, issued
    <3>3. issued \in Seq(Transfers) /\ Len(issued) = n
      BY <3>1, TransfersType DEF issued
    <3>4. Len(copies'[r]) = Len(copies[r]) + n  BY <3>2, <3>3, ConcatProperties
    <3>5. Copied(r) = c - Len(copies[r]) /\ Copied(r)' = (c + n) - Len(copies'[r])
      BY <3>2 DEF Copied, c
    <3>. QED  BY <3>1, <3>2, <3>4, <3>5
  <2>. QED  BY <2>2, <2>3 DEF Copied
<1>. QED  BY <1>1, <1>2

(* A turn makes the blocks left to copy those of the latest version. *)
LEMMA OldUpdate ==
    ASSUME NEW sent, Covered(sent), IInv(sent), StreamInv, NEW n, AgeInv(n), OldInv(n),
           NEW r \in Ranks, UpdateLocalOptimizerSnapshot(r)
    PROVE  OldInv(n)'
<1>1. TypeOK /\ n \in Nat \cup {-1}  BY DEF IInv, AgeInv
<1>2. AgeInv(n)' /\ ~Updated(r, n) /\ Updated(r, n)'  BY UpdateAge
<1>3. Updates(r, n) = n /\ Updates(r, n)' = n + 1  BY <1>2 DEF Updates
<1>4. OldInRound(r, n + 1)'
  <2> DEFINE own == [b \in Blocks |-> LiveBlock(r, b)]
             p == GetPeerRank(r)
  <2>1. /\ OldInRound(r, n) /\ CopiesInOrder(r) /\ CopiesOfRound(r, n) /\ n >= 0
    <3>1. CopiesOfRound(r, Updates(r, n)) /\ OldInRound(r, Updates(r, n)) /\ InRound(r, n)
      BY DEF AgeInv, OldInv
    <3>2. CopiesOfRound(r, n) /\ OldInRound(r, n)  BY <1>3, <3>1
    <3>. QED  BY <1>2, <3>1, <3>2 DEF StreamInv, Streams, InRound
  <2>2. /\ p \in Ranks /\ p # r
        /\ TotalBlocks \in Nat /\ Copied(r) + Len(copies[r]) = cur_block_id[r]
        /\ Copied(r) \in Int /\ Len(copies[r]) \in Nat
        /\ (copies[r] = << >> <=> Len(copies[r]) = 0)
    BY <1>1, PeerSymmetric, CopiesType
  <2>3. /\ phase[r] = "update"
        /\ cur_block_id'[r] = IF Mode = "naive" THEN TotalBlocks ELSE 0
        /\ Mode = "interleave" => copies'[r] = copies[r] \o << >>
    BY <1>1, OptimizerAssumption DEF UpdateLocalOptimizerSnapshot, TypeOK
  <2>4. Mode = "interleave" => copies'[r] = copies[r]  BY <1>1, <2>3 DEF TypeOK
  <2>5. have_set_snapshot_strategy[r] => cur_block_id[r] = TotalBlocks
    BY UpdateSide
  <2>6. /\ LatestCompletedSnapshotVersion(r)' = snapshot_current_version[r]
        /\ snapshot_current_version'[r] \in Versions
        /\ snapshot_current_version[r] \in Versions
    <3>1. /\ snapshot_current_version[r] \in Versions
          /\ snapshot_current_version'[r] = NextVersion(snapshot_current_version[r])
      BY <1>1 DEF UpdateLocalOptimizerSnapshot, TypeOK
    <3> DEFINE v == snapshot_current_version[r]
               w == NextVersion(v)
    <3>2. v \in Versions /\ w \in Versions /\ w = 1 - v  BY <3>1, VersionFacts
    <3>3. LatestCompletedSnapshotVersion(r)' = (w - 1) % 2
      BY <3>1 DEF LatestCompletedSnapshotVersion
    <3> HIDE DEF w
    <3>4. (w - 1) % 2 = 1 - w  BY <3>2, VersionFacts
    <3>5. 1 - w = v  BY <3>2 DEF Versions
    <3>. QED  BY <3>1, <3>2, <3>3, <3>4, <3>5 DEF w
  <2>7. \/ /\ ~have_set_snapshot_strategy[r] /\ SetsStrategy(r)
           /\ tensor_blocks'[r] = [v \in Versions |-> own]
           /\ gpu'[r] = [i \in Buffers |-> Zeros]
        \/ /\ ~SetsStrategy(r)
           /\ UNCHANGED <<have_set_snapshot_strategy, tensor_blocks, gpu, saved_dicts>>
    BY <1>1 DEF UpdateLocalOptimizerSnapshot, TypeOK, SetsStrategy
  <2>8. /\ LatestCopy(r)' = tensor_blocks'[r][snapshot_current_version[r]]
        /\ CurrentCopy(r)' = tensor_blocks'[r][snapshot_current_version'[r]]
        /\ CurrentCopy(r) = tensor_blocks[r][snapshot_current_version[r]]
    BY <2>6 DEF LatestCopy, CurrentCopy
  <2>9. /\ \A i \in Buffers : OlderThan(gpu[r][i], r, n + 1)
        /\ \A v \in Versions, b \in Blocks : OlderThan(tensor_blocks[r][v][b], r, n + 1)
        /\ \A b \in Blocks : b >= Copied(r) => OlderThan(CurrentCopy(r)[b], r, n)
    BY <2>1 DEF OldInRound
  <2>10. ASSUME NEW i \in Buffers PROVE OlderThan(gpu'[r][i], r, (n + 1) + 1)
    <3>1. CASE gpu'[r] = gpu[r]
      <4>1. OlderThan(gpu[r][i], r, n + 1) /\ gpu[r][i].step \in Nat
        BY <1>1, <2>9 DEF TypeOK, Contents
      <4>. QED  BY <1>1, <3>1, <4>1 DEF OlderThan
    <3>2. CASE gpu'[r] = [k \in Buffers |-> Zeros]
      <4>1. gpu'[r][i].rank = -1  BY <3>2 DEF Zeros
      <4>2. p # -1  BY <2>2, GroupAssumption DEF Ranks, WorldSize
      <4>. QED  BY <4>1, <4>2 DEF OlderThan
    <3>. QED  BY <2>7, <3>1, <3>2
  <2>11. ASSUME NEW v \in Versions, NEW b \in Blocks
         PROVE  OlderThan(tensor_blocks'[r][v][b], r, n + 1)
    <3>1. CASE tensor_blocks'[r] = tensor_blocks[r]  BY <2>9, <3>1
    <3>2. CASE tensor_blocks'[r] = [w \in Versions |-> own]
      <4>1. tensor_blocks'[r][v][b].rank = r  BY <3>2 DEF LiveBlock
      <4>. QED  BY <2>2, <4>1 DEF OlderThan
    <3>. QED  BY <2>7, <3>1, <3>2
  <2>12. ASSUME NEW v \in Versions, NEW b \in Blocks
         PROVE  OlderThan(tensor_blocks'[r][v][b], r, (n + 1) + 1)
    <3>1. CASE tensor_blocks'[r] = tensor_blocks[r]
      <4>1. tensor_blocks[r][v][b].step \in Nat  BY <1>1 DEF TypeOK, Contents
      <4>. QED  BY <1>1, <2>11, <3>1, <4>1 DEF OlderThan
    <3>2. CASE tensor_blocks'[r] = [w \in Versions |-> own]
      <4>1. tensor_blocks'[r][v][b].rank = r  BY <3>2 DEF LiveBlock
      <4>. QED  BY <2>2, <4>1 DEF OlderThan
    <3>. QED  BY <2>7, <3>1, <3>2
  <2>13. \A b \in Blocks : OlderThan(CurrentCopy(r)'[b], r, n + 1)
    BY <2>6, <2>8, <2>11
  <2>14. ASSUME Late(r)'
         PROVE  /\ n + 1 > SetAt(r)'
                /\ \A b \in Blocks : b >= TotalBlocks - Len(copies'[r]) =>
                       OlderThan(LatestCopy(r)'[b], r, (n + 1) - 1)
    <3>1. Mode = "interleave" /\ have_set_snapshot_strategy'[r] /\ Len(copies'[r]) # 0
      BY <2>14 DEF Late
    <3>2. copies'[r] = copies[r] /\ copies[r] # << >>  BY <2>2, <2>4, <3>1
    <3>3. have_set_snapshot_strategy[r] /\ ~SetsStrategy(r)
      BY <2>1, <3>2 DEF CopiesInOrder, SetsStrategy
    <3>4. UNCHANGED <<tensor_blocks, saved_dicts>>  BY <2>7, <3>3
    <3>5. SetAt(r)' = SetAt(r) /\ SetAt(r) <= n /\ SetAt(r) \in Int
      BY <2>1, <3>3, <3>4, OptimizerAssumption DEF SetAt, CopiesOfRound, LastSetup
    <3>6. Copied(r) = TotalBlocks - Len(copies'[r])  BY <2>2, <2>5, <3>2, <3>3
    <3>7. LatestCopy(r)' = CurrentCopy(r) /\ (n + 1) - 1 = n
      BY <1>1, <2>8, <3>4
    <3>. QED  BY <1>1, <2>9, <3>5, <3>6, <3>7
  <2>. QED  BY <2>10, <2>12, <2>13, <2>14 DEF OldInRound, OlderThan
<1>5. ASSUME NEW q \in Ranks, q # r PROVE OldInRound(q, Updates(q, n))'
  <2>1. /\ snapshot_current_version'[q] = snapshot_current_version[q]
        /\ saved_dicts'[q] = saved_dicts[q]
        /\ gpu'[q] = gpu[q] /\ tensor_blocks'[q] = tensor_blocks[q]
        /\ cur_block_id'[q] = cur_block_id[q] /\ copies'[q] = copies[q]
    <3>1. CASE SetsStrategy(r)
      BY <1>1, <1>5, <3>1 DEF UpdateLocalOptimizerSnapshot, TypeOK
    <3>2. CASE ~SetsStrategy(r)
      BY <1>1, <1>5, <3>2 DEF UpdateLocalOptimizerSnapshot, TypeOK
    <3>. QED  BY <3>1, <3>2
  <2>2. OldInRound(q, Updates(q, n)) /\ Streams(q) /\ Updates(q, n) \in Nat \cup {-1}
    BY <1>1, RoundTurns DEF OldInv, StreamInv
  <2>3. /\ Copied(q)' = Copied(q) /\ Updates(q, n)' = Updates(q, n)
        /\ Late(q)' => cur_block_id[q] = 0
    BY <2>1 DEF Copied, Late, Updates, Updated
  <2> DEFINE m == Updates(q, n)
  <2>4. m' = m /\ m \in Nat \cup {-1} /\ OldInRound(q, m)  BY <2>2, <2>3
  <2> HIDE DEF m
  <2>5. OldInRound(q, m)'
    BY ZenonT(60), <1>1, <2>1, <2>2, <2>3, <2>4, OldFrame
  <2>. QED  BY <2>5 DEF m
<1>6. OldInRound(r, Updates(r, n))'
  <2> DEFINE m == Updates(r, n)
  <2>1. m' = n + 1  BY <1>3
  <2> HIDE DEF m
  <2>2. OldInRound(r, m)'  BY <1>4, <2>1 DEF OldInRound
  <2>. QED  BY <2>2 DEF m
<1>. QED  BY <1>5, <1>6 DEF OldInv

LEMMA InitOld == Init => OldInv(-1)
<1> SUFFICES ASSUME Init, NEW r \in Ranks PROVE OldInRound(r, Updates(r, -1))
  BY DEF OldInv
<1>1. 0 % 2 = 0 /\ -1 + 1 = 0  OBVIOUS
<1>2. Updates(r, -1) = 0  BY <1>1 DEF Updated, Updates, Init
<1>3. GetPeerRank(r) # r /\ GetPeerRank(r) # -1 /\ snapshot_current_version[r] \in Versions
  BY PeerSymmetric, GroupAssumption DEF Init, Versions, Ranks, WorldSize
<1>4. ~Late(r)  BY DEF Late, Init
<1>5. /\ \A i \in Buffers : gpu[r][i].rank = -1
      /\ \A v \in Versions, b \in Blocks : tensor_blocks[r][v][b].rank = r
  BY DEF Init, Zeros, LiveBlock
<1>6. OldInRound(r, 0)
  BY <1>3, <1>4, <1>5 DEF OldInRound, OlderThan, CurrentCopy
<1>. QED  BY <1>2, <1>6

(* The age of the contents moves on with the round. *)
LEMMA NextOld ==
    ASSUME NEW sent, Covered(sent), IInv(sent), StreamInv, NEW n, AgeInv(n), OldInv(n),
           [Next]_vars
    PROVE  \/ AgeInv(n)' /\ OldInv(n)'
           \/ AgeInv(n + 1)' /\ OldInv(n + 1)'
<1>1. TypeOK /\ n \in Nat \cup {-1} /\ n + 1 \in Nat  BY DEF IInv, AgeInv
<1>2. ASSUME UNCHANGED <<gpu, tensor_blocks, snapshot_current_version, saved_dicts>>,
             NEW k \in Nat \cup {-1}, \A q \in Ranks : Updates(q, k) = Updates(q, n),
             \A q \in Ranks : /\ Copied(q)' = Copied(q)
                              /\ Late(q)' => cur_block_id[q] = 0 /\ copies'[q] = copies[q]
      PROVE  OldInv(k)'
  <2>1. ASSUME NEW q \in Ranks PROVE OldInRound(q, Updates(q, k))'
    <3> DEFINE m == Updates(q, k)
    <3>1. m' = m /\ m \in Nat \cup {-1} /\ OldInRound(q, m) /\ Streams(q)
      <4>1. m = Updates(q, n) /\ m \in Nat \cup {-1}  BY <1>1, <1>2, RoundTurns
      <4>2. m' = m  BY <1>2 DEF Updates, Updated
      <4>. QED  BY <4>1, <4>2 DEF OldInv, StreamInv
    <3>2. /\ gpu'[q] = gpu[q] /\ tensor_blocks'[q] = tensor_blocks[q]
          /\ snapshot_current_version'[q] = snapshot_current_version[q]
          /\ saved_dicts'[q] = saved_dicts[q] /\ Copied(q)' = Copied(q)
          /\ Late(q)' => cur_block_id[q] = 0 /\ copies'[q] = copies[q]
      BY <1>2
    <3> HIDE DEF m
    <3>3. OldInRound(q, m)'  BY ZenonT(60), <1>1, <3>1, <3>2, OldFrame
    <3>. QED  BY <3>3 DEF m
  <2>. QED  BY <2>1 DEF OldInv
<1>3. CASE UNCHANGED <<gpu, tensor_blocks, snapshot_current_version, saved_dicts,
                       cur_block_id, copies>>
  <2>1. \A q \in Ranks : /\ Copied(q)' = Copied(q)
                         /\ Late(q)' => cur_block_id[q] = 0 /\ copies'[q] = copies[q]
    BY <1>3 DEF Copied, Late
  <2>2. OldInv(n)'  BY <1>1, <1>2, <1>3, <2>1
  <2>3. CASE AgeInv(n)'  BY <2>2, <2>3
  <2>4. CASE AgeInv(n + 1)' /\ OverflowCheck
    <3>1. \A q \in Ranks : Updates(q, n + 1) = Updates(q, n)
      <4> SUFFICES ASSUME NEW q \in Ranks PROVE Updates(q, n + 1) = Updates(q, n)
        OBVIOUS
      <4>1. InRound(q, n) /\ phase[q] = "train"
        BY <2>4 DEF AgeInv, OverflowCheck
      <4>2. Updated(q, n) /\ ~Updated(q, n + 1)
        BY <1>1, <4>1, RoundTurns DEF InRound
      <4>. QED  BY <4>2 DEF Updates
    <3>2. OldInv(n + 1)'  BY <1>1, <1>2, <1>3, <2>1, <3>1
    <3>. QED  BY <2>4, <3>2
  <2>. QED  BY <2>3, <2>4, NextAge
<1>4. ASSUME NEW r \in Ranks,
             \/ CollectiveAndHook(r) \/ Exchange(r) \/ Copy(r)
             \/ UpdateLocalOptimizerSnapshot(r)
      PROVE  AgeInv(n)' /\ OldInv(n)'
  <2>1. CASE Exchange(r)  BY <2>1, ExchangeAge, OldExchange
  <2>2. CASE Copy(r)
    <3>1. AgeInv(n)'
      <4>1. /\ UNCHANGED <<buffers, received, queue, live, iter>>
            /\ \A q \in Ranks : phase'[q] \in {phase[q], "exiting", "exited", "crashed"}
        BY <2>2 DEF Copy, host
      <4>. QED  BY <1>1, <4>1, FrameAge
    <3>. QED  BY <1>1, <2>2, <3>1, OldCopy
  <2>3. CASE UpdateLocalOptimizerSnapshot(r)  BY <2>3, UpdateAge, OldUpdate
  <2>4. CASE CollectiveAndHook(r)
    <3>1. /\ UNCHANGED <<gpu, tensor_blocks, snapshot_current_version, saved_dicts, phase>>
          /\ phase[r] = "train"
      BY <2>4 DEF CollectiveAndHook
    <3>2. \A q \in Ranks :
             /\ Copied(q)' = Copied(q)
             /\ q # r => cur_block_id'[q] = cur_block_id[q] /\ copies'[q] = copies[q]
      BY <1>1, <2>4, HookCopied
    <3>3. \A q \in Ranks : Late(q)' => cur_block_id[q] = 0 /\ copies'[q] = copies[q]
      BY <3>1, <3>2 DEF Late
    <3>4. OldInv(n)'  BY <1>1, <1>2, <3>1, <3>2, <3>3
    <3>. QED  BY <2>4, <3>4, HookAge
  <2>. QED  BY <1>4, <2>1, <2>2, <2>3, <2>4
<1>5. ASSUME NEW r \in Ranks,
             \/ ApplyStep(r) \/ EndIteration(r) \/ SaveOptimizerSnapshotToDisk(r)
             \/ Interrupt(r)
      PROVE  UNCHANGED <<gpu, tensor_blocks, snapshot_current_version, saved_dicts,
                         cur_block_id, copies>>
  BY <1>5 DEF ApplyStep, EndIteration, SaveOptimizerSnapshotToDisk, Interrupt, buffers, device
<1>6. ASSUME NEW m \in MachineRanks, Crash(m)
      PROVE  UNCHANGED <<gpu, tensor_blocks, snapshot_current_version, saved_dicts,
                         cur_block_id, copies>>
  BY <1>6 DEF Crash, buffers, device
<1>7. CASE OverflowCheck \/ UNCHANGED vars
  BY <1>3, <1>7 DEF OverflowCheck, vars, buffers, device
<1>. QED  BY <1>3, <1>4, <1>5, <1>6, <1>7 DEF Next, RankStep

----------------------------------------------------------------------------
(* SnapshotOptimizer implements CheckpointStore. *)

(* A copy is of one rank only. *)
LEMMA OneOwner ==
    ASSUME NEW c, NEW p, NEW q, IsCopyOf(c, p), IsCopyOf(c, q)
    PROVE  p = q
<1>1. 0 \in Blocks  BY OptimizerAssumption DEF Blocks
<1>2. c[0] = [rank |-> p, step |-> c[0].step, block |-> 0]
      /\ c[0] = [rank |-> q, step |-> c[0].step, block |-> 0]
  BY <1>1 DEF IsCopyOf
<1>3. c[0].rank = p /\ c[0].rank = q
  <2> DEFINE s == c[0].step
             x == c[0]
  <2>1. x = [rank |-> p, step |-> s, block |-> 0] /\ x = [rank |-> q, step |-> s, block |-> 0]
    BY <1>2
  <2> HIDE DEF s, x
  <2>2. x.rank = p  BY <2>1
  <2>3. x.rank = q  BY <2>1
  <2>. QED  BY <2>2, <2>3 DEF x
<1>. QED  BY <1>3

(* The checkpoint of a rank, from the round of its peer. *)
LEMMA CopyStepOfRound ==
    ASSUME NEW sent, IInv(sent), NEW n, AgeInv(n), NEW r \in Ranks
    PROVE  LET q == GetPeerRank(r)
           IN  CopyStep(r) = IF have_set_snapshot_strategy[q] /\ SetAt(q) < Updates(q, n)
                               THEN Updates(q, n) - 1 ELSE 0
<1> DEFINE q == GetPeerRank(r)
           c == LatestReceived(q)
<1>1. q \in Ranks /\ q # r /\ GetPeerRank(q) = r  BY PeerSymmetric
<1>2. TypeOK /\ n \in Nat \cup {-1} /\ 0 \in Blocks
  BY OptimizerAssumption DEF IInv, AgeInv, Blocks
<1>3. CopiesOfRound(q, Updates(q, n)) /\ IdleBeforeStrategy(q)
  BY <1>1 DEF AgeInv, IInv
<1>4. Updates(q, n) \in Nat \cup {-1}  BY <1>1, <1>2, RoundTurns
<1>5. LatestCompletedSnapshotVersion(q) \in Versions
  BY <1>1, <1>2, LatestFacts
<1>6. CopyStep(r) = IF IsCopyOf(c, r) THEN c[0].step ELSE IF IsCopyOf(c, q) THEN 0 ELSE -1
  BY DEF CopyStep, PeerOf
<1> HIDE DEF q, c
<1>7. IsCopyOf(c, q) => ~IsCopyOf(c, r)  BY <1>1, OneOwner
<1>8. CASE ~have_set_snapshot_strategy[q]
  <2>1. IsCopyOf(c, q)
    BY <1>3, <1>5, <1>8 DEF IdleBeforeStrategy, c, LatestReceived
  <2>. QED  BY <1>6, <1>7, <1>8, <2>1 DEF q
<1>9. CASE have_set_snapshot_strategy[q] /\ Updates(q, n) = SetAt(q)
  <2>1. IsCopyOf(c, q)  BY <1>3, <1>9 DEF CopiesOfRound, c
  <2>2. ~(SetAt(q) < Updates(q, n))  BY <1>4, <1>9
  <2>. QED  BY <1>6, <1>7, <2>1, <2>2 DEF q
<1>10. CASE have_set_snapshot_strategy[q] /\ Updates(q, n) # SetAt(q)
  <2>1. SetAt(q) \in Nat /\ SetAt(q) <= Updates(q, n)
    BY <1>3, <1>10 DEF CopiesOfRound
  <2>2. SetAt(q) < Updates(q, n)  BY <1>4, <1>10, <2>1
  <2>3. IsCopyOf(c, r) /\ c[0].step = Updates(q, n) - 1
    BY <1>1, <1>3, <1>10, <2>2 DEF CopiesOfRound, c
  <2>. QED  BY <1>6, <1>10, <2>2, <2>3 DEF q
<1>. QED  BY <1>8, <1>9, <1>10

(* The store's state is that of the ranks' live steps and checkpoints. *)
LEMMA SameCheckpoint ==
    ASSUME NEW r \in Ranks, LatestReceived(GetPeerRank(r))' = LatestReceived(GetPeerRank(r))
    PROVE  /\ CopyStep(r)' = CopyStep(r)
           /\ LatestCopy(GetPeerRank(r))' = LatestCopy(GetPeerRank(r)) => Kept(r)' = Kept(r)
<1> DEFINE q == GetPeerRank(r)
<1>1. q \in Ranks /\ PeerOf[r] = q /\ PeerOf'[r] = q
  BY PeerSymmetric DEF PeerOf
<1>2. LatestReceived(q)' = LatestReceived(q)
      /\ (LatestCopy(GetPeerRank(r))' = LatestCopy(GetPeerRank(r)) => LatestCopy(q)' = LatestCopy(q))
  OBVIOUS
<1> HIDE DEF q
<1>3. CopyStep(r)' = CopyStep(r)
  BY <1>1, <1>2 DEF CopyStep, IsCopyOf, PeerOf, q
<1>4. LatestCopy(q)' = LatestCopy(q) => Kept(r)' = Kept(r)
  BY <1>1, <1>2 DEF Kept, PeerOf
<1>. QED  BY <1>2, <1>3, <1>4 DEF q

LEMMA StoreUnchanged ==
    ASSUME UNCHANGED live, \A q \in Ranks : /\ LatestReceived(q)' = LatestReceived(q)
                                            /\ LatestCopy(q)' = LatestCopy(q)
    PROVE  UNCHANGED <<live, [r \in Ranks |-> CopyStep(r)], [r \in Ranks |-> Kept(r)]>>
<1>1. ASSUME NEW r \in Ranks PROVE CopyStep(r)' = CopyStep(r) /\ Kept(r)' = Kept(r)
  BY PeerSymmetric, SameCheckpoint
<1>. QED  BY <1>1

(* At the start nothing is trained and nothing is stored. *)
LEMMA StoreInit == Init => Store!Init
<1> SUFFICES ASSUME Init PROVE Store!Init  OBVIOUS
<1>1. IInv(0) /\ AgeInv(-1)  BY InitInv, InitAge
<1>2. ASSUME NEW r \in Ranks PROVE CopyStep(r) = 0
  <2>1. ~have_set_snapshot_strategy[GetPeerRank(r)]  BY PeerSymmetric DEF Init
  <2>. QED  BY <1>1, <2>1, CopyStepOfRound
<1>3. ASSUME NEW r \in Ranks PROVE Kept(r) = TRUE
  BY DEF Init, Kept, LatestCopy, LatestReceived
<1>. QED  BY <1>2, <1>3 DEF Init, Store!Init, Store!NoCopy

(* An optimizer step: the checkpoint is at most one step old before it. *)
LEMMA StoreTrain ==
    ASSUME NEW sent, IInv(sent), NEW n, AgeInv(n), NEW r \in Ranks, ApplyStep(r)
    PROVE  Store!Train(r)
<1> DEFINE q == GetPeerRank(r)
           m == Updates(q, n)
           first == IF Mode = "naive" THEN 2 ELSE ProfileSteps + 2
<1>1. TypeOK /\ n \in Nat \cup {-1} /\ ProfileSteps \in Nat \ {0}
  BY OptimizerAssumption DEF IInv, AgeInv
<1>2. q \in Ranks  BY PeerSymmetric
<1>3. live[r] = n  BY <1>1, ApplyAge
<1>4. m \in Nat \cup {-1} /\ n <= m /\ m <= n + 1  BY <1>1, <1>2, RoundTurns
<1>5. CopiesOfRound(q, m)  BY <1>2 DEF AgeInv
<1>6. /\ ~have_set_snapshot_strategy[q] => m < LastSetup
      /\ have_set_snapshot_strategy[q]
           => SetAt(q) \in 1 .. LastSetup /\ SetAt(q) <= m
  BY <1>5 DEF CopiesOfRound
<1>7. CopyStep(r) = IF have_set_snapshot_strategy[q] /\ SetAt(q) < m THEN m - 1 ELSE 0
  BY CopyStepOfRound
<1>8. first = LastSetup + 1 /\ LastSetup \in Nat  BY <1>1 DEF LastSetup
<1> HIDE DEF q, m, first
<1>9. IF CopyStep(r) = 0 THEN live[r] < first ELSE live[r] - CopyStep(r) < 2
  <2>1. CASE have_set_snapshot_strategy[q] /\ SetAt(q) < m
    <3>1. SetAt(q) \in Nat \ {0}  BY <1>6, <1>8, <2>1
    <3>2. CopyStep(r) = m - 1 /\ m - 1 # 0  BY <1>4, <1>7, <2>1, <3>1
    <3>. QED  BY <1>1, <1>3, <1>4, <3>2
  <2>2. CASE have_set_snapshot_strategy[q] /\ ~(SetAt(q) < m)
    BY <1>1, <1>3, <1>4, <1>6, <1>7, <1>8, <2>2
  <2>3. CASE ~have_set_snapshot_strategy[q]
    BY <1>1, <1>3, <1>4, <1>6, <1>7, <1>8, <2>3
  <2>. QED  BY <2>1, <2>2, <2>3
<1>10. live' = [live EXCEPT ![r] = @ + 1]  BY DEF ApplyStep, device
<1>11. ASSUME NEW x \in Ranks PROVE CopyStep(x)' = CopyStep(x) /\ Kept(x)' = Kept(x)
  <2>1. \A y \in Ranks : LatestReceived(y)' = LatestReceived(y) /\ LatestCopy(y)' = LatestCopy(y)
    BY DEF ApplyStep, LatestReceived, LatestCopy, LatestCompletedSnapshotVersion, buffers, device
  <2>. QED  BY <2>1, PeerSymmetric, SameCheckpoint
<1>. QED  BY <1>9, <1>10, <1>11 DEF Store!Train, Store!NoCopy, first

(* Turning to the next version replaces the checkpoint of the peer by the
   one of the step before, or leaves it none while the buffers are set up. *)
LEMMA StoreCheckpoint ==
    ASSUME NEW sent, Covered(sent), IInv(sent), StreamInv, NEW n, AgeInv(n),
           NEW q \in Ranks, UpdateLocalOptimizerSnapshot(q)
    PROVE  \/ Store!Checkpoint(GetPeerRank(q))
           \/ UNCHANGED <<live, [x \in Ranks |-> CopyStep(x)], [x \in Ranks |-> Kept(x)]>>
<1> DEFINE r == GetPeerRank(q)
           old == CopyStep(r)
           new == CopyStep(r)'
<1>1. IInv(sent)' /\ AgeInv(n)' /\ ~Updated(q, n) /\ Updated(q, n)'
  BY UpdateInv, UpdateAge
<1>2. r \in Ranks /\ GetPeerRank(r) = q  BY PeerSymmetric
<1>3. UNCHANGED live  BY DEF UpdateLocalOptimizerSnapshot
<1>4. Updates(q, n) = n /\ Updates(q, n)' = n + 1  BY <1>1 DEF Updates
<1>5. old = IF have_set_snapshot_strategy[q] /\ SetAt(q) < n THEN n - 1 ELSE 0
  BY <1>2, <1>4, CopyStepOfRound
<1>6. TypeOK /\ n \in Nat \cup {-1} /\ TypeOK' /\ n >= 0 /\ live[r] \in {n, n + 1}
  <2>1. InRound(q, n) /\ InRound(r, n)  BY <1>2 DEF AgeInv
  <2>. QED  BY <1>1, <2>1 DEF IInv, AgeInv, InRound
<1> DEFINE c == LatestReceived(q)'
<1>7. new = IF IsCopyOf(c, r) THEN c[0].step ELSE IF IsCopyOf(c, q) THEN 0 ELSE -1
  BY <1>2 DEF CopyStep, PeerOf
<1>8. CopiesOfRound(q, n + 1)' /\ IdleBeforeStrategy(q)'
  <2>1. CopiesOfRound(q, Updates(q, n))'  BY <1>1 DEF AgeInv
  <2>. QED  BY <1>1, <1>4, <2>1 DEF IInv, CopiesOfRound
<1> HIDE DEF c
<1>9. IsCopyOf(c, q) => new = 0  BY <1>2, <1>7, OneOwner, PeerSymmetric
<1>10. ASSUME NEW x \in Ranks, x # r
       PROVE  CopyStep(x)' = CopyStep(x) /\ Kept(x)' = Kept(x)
  <2> DEFINE p == GetPeerRank(x)
  <2>1. p \in Ranks /\ p # q  BY <1>2, <1>10, PeerSymmetric
  <2>2. LatestReceived(p)' = LatestReceived(p)  BY <2>1, UpdateInv
  <2>3. tensor_blocks'[p] = tensor_blocks[p]
    <3>1. CASE SetsStrategy(q)
      BY <1>6, <2>1, <3>1 DEF UpdateLocalOptimizerSnapshot, TypeOK
    <3>2. CASE ~SetsStrategy(q)  BY <2>1, <3>2 DEF UpdateLocalOptimizerSnapshot
    <3>. QED  BY <3>1, <3>2
  <2>4. snapshot_current_version'[p] = snapshot_current_version[p]
    BY <1>6, <2>1 DEF UpdateLocalOptimizerSnapshot, TypeOK
  <2>5. LatestCopy(p)' = LatestCopy(p)
    BY <2>3, <2>4 DEF LatestCopy, LatestCompletedSnapshotVersion
  <2>. QED  BY <2>2, <2>5, SameCheckpoint
<1>11. CASE ~have_set_snapshot_strategy[q]
  <2>1. old = 0  BY <1>5, <1>11
  <2>2. IsCopyOf(c, q)
    <3>1. CASE SetsStrategy(q)
      <4> DEFINE own == [b \in Blocks |-> LiveBlock(q, b)]
      <4>1. 0 \in Blocks  BY OptimizerAssumption DEF Blocks
      <4>2. IsCopyOf(own, q)  BY <4>1 DEF IsCopyOf, LiveBlock
      <4>3. c = own  BY <3>1, UpdateSide DEF c
      <4> HIDE DEF own
      <4>. QED  BY <4>2, <4>3
    <3>2. CASE ~SetsStrategy(q)
      <4>1. ~have_set_snapshot_strategy'[q]
        BY <1>11, <3>2 DEF UpdateLocalOptimizerSnapshot
      <4>2. LatestCompletedSnapshotVersion(q)' \in Versions
        <5>1. snapshot_current_version'[q] \in Versions  BY <1>6 DEF TypeOK
        <5>2. (snapshot_current_version'[q] - 1) % 2 = 1 - snapshot_current_version'[q]
          BY <5>1, VersionFacts
        <5>. QED  BY <5>1, <5>2 DEF LatestCompletedSnapshotVersion, Versions
      <4>. QED  BY <1>8, <4>1, <4>2 DEF IdleBeforeStrategy, IsCopyOf, c, LatestReceived
    <3>. QED  BY <3>1, <3>2
  <2>3. new = old  BY <1>9, <2>1, <2>2
  <2>4. Kept(r) = TRUE /\ Kept(r)' = TRUE
    <3>1. tensor_blocks[q] = received[q]
      BY <1>11 DEF StreamInv, Streams, CopiesInOrder
    <3>2. tensor_blocks'[q] = received'[q]
      <4>1. CASE SetsStrategy(q)
        BY <1>6, <4>1 DEF UpdateLocalOptimizerSnapshot, TypeOK
      <4>2. CASE ~SetsStrategy(q)
        BY <3>1, <4>2 DEF UpdateLocalOptimizerSnapshot
      <4>. QED  BY <4>1, <4>2
    <3>3. PeerOf[r] = q /\ PeerOf'[r] = q  BY <1>2 DEF PeerOf
    <3>. QED  BY <3>1, <3>2, <3>3 DEF Kept, LatestCopy, LatestReceived
  <2>5. \A x \in Ranks : CopyStep(x)' = CopyStep(x) /\ Kept(x)' = Kept(x)
    BY <1>10, <2>3, <2>4
  <2>. QED  BY <1>3, <2>5
<1>12. CASE have_set_snapshot_strategy[q]
  <2>1. /\ have_set_snapshot_strategy'[q] /\ SetAt(q)' = SetAt(q)
    BY <1>12 DEF UpdateLocalOptimizerSnapshot, SetsStrategy, SetAt
  <2>2. SetAt(q) \in Nat \ {0} /\ SetAt(q) <= n
    <3>1. CopiesOfRound(q, n)
      <4>1. CopiesOfRound(q, Updates(q, n))  BY DEF AgeInv
      <4>. QED  BY <1>4, <4>1
    <3>. QED  BY <1>12, <3>1, OptimizerAssumption DEF CopiesOfRound, LastSetup
  <2>3. IsCopyOf(c, r) /\ c[0].step = (n + 1) - 1
    <3>1. n + 1 > SetAt(q)'  BY <1>6, <2>1, <2>2
    <3>. QED  BY <1>8, <2>1, <3>1 DEF CopiesOfRound, IsCopyOf, c
  <2>4. new = n  BY <1>6, <1>7, <2>3
  <2>5. live[r] \in Nat  BY <1>2, <1>6 DEF TypeOK
  <2>6. old \in Int /\ n \in old + 1 .. live[r]  BY <1>5, <1>6, <2>2, <2>5
  <2>7. [x \in Ranks |-> CopyStep(x)]' = [[x \in Ranks |-> CopyStep(x)] EXCEPT ![r] = n]
    <3>1. \A x \in Ranks : CopyStep(x)' = IF x = r THEN n ELSE CopyStep(x)
      BY <1>10, <2>4
    <3>. QED  BY <1>2, <3>1
  <2>8. n \in [x \in Ranks |-> CopyStep(x)][r] + 1 .. live[r]  BY <1>2, <2>6
  <2>10. /\ [x \in Ranks |-> Kept(x)]' = [[x \in Ranks |-> Kept(x)] EXCEPT ![r] = Kept(r)']
         /\ Kept(r)' \in BOOLEAN
    <3>1. \A x \in Ranks : x # r => Kept(x)' = Kept(x)  BY <1>10
    <3>2. Kept(r)' \in BOOLEAN  BY DEF Kept
    <3>. QED  BY <1>2, <3>1, <3>2
  <2>9. Store!Checkpoint(r)  BY <1>3, <2>7, <2>8, <2>10 DEF Store!Checkpoint
  <2>. QED  BY <2>9
<1>. QED  BY <1>11, <1>12

(* A late copy finds an older block than the one that was received: it can
   make a checkpoint whole, and never one that was whole before. *)
LEMMA StoreKeep ==
    ASSUME NEW sent, Covered(sent), IInv(sent), StreamInv, NEW n, AgeInv(n), OldInv(n),
           NEW q \in Ranks, Copy(q)
    PROVE  \/ Store!Keep(GetPeerRank(q))
           \/ UNCHANGED <<live, [x \in Ranks |-> CopyStep(x)], [x \in Ranks |-> Kept(x)]>>
<1> DEFINE r == GetPeerRank(q)
<1>1. TypeOK /\ n \in Nat \cup {-1} /\ [Next]_vars
  BY DEF IInv, AgeInv, Next, RankStep
<1>2. r \in Ranks /\ GetPeerRank(r) = q  BY PeerSymmetric
<1>3. UNCHANGED <<host, buffers, received>>  BY DEF Copy
<1>4. \A p \in Ranks : LatestReceived(p)' = LatestReceived(p)
  BY <1>3 DEF LatestReceived, LatestCompletedSnapshotVersion, buffers
<1>5. \A p \in Ranks : p # q \/ ~Late(q) => LatestCopy(p)' = LatestCopy(p)
  <2> SUFFICES ASSUME NEW p \in Ranks, p # q \/ ~Late(q) PROVE LatestCopy(p)' = LatestCopy(p)
    OBVIOUS
  <2>1. snapshot_current_version'[p] = snapshot_current_version[p]
    BY <1>3 DEF buffers
  <2>2. CASE p = q  BY <1>1, <2>1, <2>2, NextKept
  <2>3. CASE p # q
    <3>1. tensor_blocks'[p] = tensor_blocks[p]  BY <1>1, <2>3 DEF Copy, TypeOK
    <3>. QED  BY <2>1, <3>1 DEF LatestCopy, LatestCompletedSnapshotVersion
  <2>. QED  BY <2>2, <2>3
<1>6. CASE ~Late(q)  BY <1>3, <1>4, <1>5, <1>6, StoreUnchanged DEF host
<1>7. CASE Late(q)
  <2> DEFINE m == Updates(q, n)
             b == TotalBlocks - Len(copies[q])
             c == LatestReceived(q)
             d == LatestCopy(q)
  <2>1. CopiesOfRound(q, m) /\ OldInRound(q, m) /\ m \in Nat \cup {-1}
    BY <1>1, RoundTurns DEF AgeInv, OldInv
  <2>2. have_set_snapshot_strategy[q] /\ Len(copies[q]) \in 1 .. TotalBlocks
    BY <1>7 DEF Late
  <2>3. b \in Blocks /\ b >= TotalBlocks - Len(copies[q])
    BY <2>2, OptimizerAssumption DEF Blocks
  <2>4. m > SetAt(q) /\ OlderThan(d[b], q, m - 1)
    BY <1>7, <2>1, <2>3 DEF OldInRound
  <2>5. IsCopyOf(c, r) /\ c[0].step = m - 1
    BY <2>1, <2>2, <2>4 DEF CopiesOfRound
  <2> HIDE DEF m, b, c, d
  <2>6. c[b].rank = r /\ c[b].step = m - 1
    <3>1. c[b] = [rank |-> r, step |-> c[0].step, block |-> b]
      BY <2>3, <2>5 DEF IsCopyOf
    <3> DEFINE x == c[b]
               s == c[0].step
    <3>2. x = [rank |-> r, step |-> s, block |-> b] /\ s = m - 1  BY <2>5, <3>1
    <3> HIDE DEF x, s
    <3>3. x.rank = r /\ x.step = m - 1  BY <3>2
    <3>. QED  BY <3>3 DEF x
  <2>7. d # c  BY <2>1, <2>4, <2>6 DEF OlderThan
  <2>8. Kept(r) = FALSE  BY <1>2, <2>7 DEF Kept, PeerOf, c, d
  <2>9. \A x \in Ranks : CopyStep(x)' = CopyStep(x) /\ (x # r => Kept(x)' = Kept(x))
    <3> SUFFICES ASSUME NEW x \in Ranks
                 PROVE  CopyStep(x)' = CopyStep(x) /\ (x # r => Kept(x)' = Kept(x))
      OBVIOUS
    <3>1. GetPeerRank(x) \in Ranks /\ (x # r => GetPeerRank(x) # q)
      BY PeerSymmetric
    <3>. QED  BY <1>4, <1>5, <3>1, SameCheckpoint
  <2>10. CASE Kept(r)'
    <3>1. [x \in Ranks |-> Kept(x)]' = [[x \in Ranks |-> Kept(x)] EXCEPT ![r] = TRUE]
      <4>1. \A x \in Ranks : Kept(x)' = IF x = r THEN TRUE ELSE Kept(x)
        <5>1. Kept(r)' = TRUE  BY <2>10 DEF Kept
        <5>. QED  BY <2>9, <5>1
      <4>. QED  BY <1>2, <4>1
    <3>2. UNCHANGED <<live, [x \in Ranks |-> CopyStep(x)]>>
      BY <1>3, <2>9 DEF host
    <3>3. ~[x \in Ranks |-> Kept(x)][r]  BY <1>2, <2>8
    <3>. QED  BY <3>1, <3>2, <3>3 DEF Store!Keep
  <2>11. CASE ~Kept(r)'
    <3>1. Kept(r)' = FALSE  BY <2>11 DEF Kept
    <3>2. \A x \in Ranks : CopyStep(x)' = CopyStep(x) /\ Kept(x)' = Kept(x)
      BY <2>8, <2>9, <3>1
    <3>. QED  BY <1>3, <3>2 DEF host
  <2>. QED  BY <2>10, <2>11
<1>. QED  BY <1>6, <1>7

(* Every step trains, replaces one checkpoint, makes one whole, or changes
   nothing stored. *)
LEMMA StoreNext ==
    ASSUME NEW sent, Covered(sent), IInv(sent), StreamInv, NEW n, AgeInv(n), OldInv(n),
           [Next]_vars
    PROVE  [Store!Next]_<<live, [r \in Ranks |-> CopyStep(r)], [r \in Ranks |-> Kept(r)]>>
<1> DEFINE Stutter == UNCHANGED <<live, [r \in Ranks |-> CopyStep(r)], [r \in Ranks |-> Kept(r)]>>
<1>1. ASSUME NEW r \in Ranks, ApplyStep(r) PROVE Store!Next
  BY <1>1, StoreTrain DEF Store!Next
<1>2. ASSUME NEW r \in Ranks, UpdateLocalOptimizerSnapshot(r) PROVE Store!Next \/ Stutter
  BY <1>2, StoreCheckpoint, PeerSymmetric DEF Store!Next
<1>3. ASSUME NEW r \in Ranks, Copy(r) PROVE Store!Next \/ Stutter
  BY <1>3, StoreKeep, PeerSymmetric DEF Store!Next
<1>4. ASSUME NEW r \in Ranks, Exchange(r) PROVE Stutter
  <2>1. UNCHANGED <<live, tensor_blocks, snapshot_current_version>>
    BY <1>4 DEF Exchange, host, buffers
  <2>2. \A q \in Ranks : LatestReceived(q)' = LatestReceived(q) /\ LatestCopy(q)' = LatestCopy(q)
    BY <1>4, <2>1, ExchangeInv DEF LatestCopy, LatestCompletedSnapshotVersion
  <2>. QED  BY <2>1, <2>2, StoreUnchanged
<1>5. ASSUME UNCHANGED <<live, received, tensor_blocks, snapshot_current_version>> PROVE Stutter
  <2>1. \A q \in Ranks : LatestReceived(q)' = LatestReceived(q) /\ LatestCopy(q)' = LatestCopy(q)
    BY <1>5 DEF LatestReceived, LatestCopy, LatestCompletedSnapshotVersion
  <2>. QED  BY <1>5, <2>1, StoreUnchanged
<1>6. ASSUME NEW r \in Ranks,
             \/ CollectiveAndHook(r) \/ EndIteration(r)
             \/ SaveOptimizerSnapshotToDisk(r) \/ Interrupt(r)
      PROVE  UNCHANGED <<live, received, tensor_blocks, snapshot_current_version>>
  BY <1>6 DEF CollectiveAndHook, EndIteration, SaveOptimizerSnapshotToDisk, Interrupt, buffers, device
<1>7. ASSUME OverflowCheck \/ UNCHANGED vars
      PROVE  UNCHANGED <<live, received, tensor_blocks, snapshot_current_version>>
  BY <1>7 DEF OverflowCheck, vars, host, buffers, device
<1>8. ASSUME NEW m \in MachineRanks, Crash(m)
      PROVE  UNCHANGED <<live, received, tensor_blocks, snapshot_current_version>>
  BY <1>8 DEF Crash, buffers, device
<1> HIDE DEF Stutter
<1>9. Store!Next \/ Stutter
  <2>1. CASE OverflowCheck \/ UNCHANGED vars  BY <1>5, <1>7, <2>1
  <2>2. ASSUME NEW r \in Ranks, RankStep(r) \/ Interrupt(r)
        PROVE  Store!Next \/ Stutter
    BY <1>1, <1>2, <1>3, <1>4, <1>5, <1>6, <2>2 DEF RankStep
  <2>3. ASSUME NEW m \in MachineRanks, Crash(m) PROVE Stutter
    BY <1>5, <1>8, <2>3
  <2>. QED  BY <2>1, <2>2, <2>3 DEF Next
<1>. QED  BY <1>9 DEF Stutter

(* Versions, blocks, gaps, GPU buffers, the two streams, overflows,
   interrupts and the loss of a machine implement the store of
   CheckpointStore: the checkpoint of a rank, as its peer received it, is
   replaced at once by a complete newer one, the first is there after two
   steps (naive) or two after profiling, from then on no rank gets more
   than two steps ahead of its checkpoint, and a checkpoint that is whole
   in the peer's CPU memory stays so until it is replaced. *)
THEOREM StoreIsImplemented ==
    ASSUME Mode = "naive" \/ StrategyCovers
    PROVE  Spec => ImplementsStore
<1>1. PICK sent : Covered(sent)  BY DEF StrategyCovers, Covered
<1> DEFINE Inv == /\ IInv(sent) /\ StreamInv
                  /\ \E n \in Nat \cup {-1} : AgeInv(n) /\ OldInv(n)
<1>2. Init => Inv  BY InitInv, InitStreams, InitAge, InitOld
<1>3. Inv /\ [Next]_vars => Inv'
  <2> SUFFICES ASSUME Inv, [Next]_vars PROVE Inv'  OBVIOUS
  <2>1. PICK n \in Nat \cup {-1} : AgeInv(n) /\ OldInv(n)  OBVIOUS
  <2>2. IInv(sent)' /\ StreamInv'  BY <1>1, NextInv, NextStreams
  <2>3. \/ AgeInv(n)' /\ OldInv(n)'
        \/ AgeInv(n + 1)' /\ OldInv(n + 1)'
    BY <1>1, <2>1, NextOld
  <2>4. n + 1 \in Nat \cup {-1}  BY <2>1
  <2>. QED  BY <2>1, <2>2, <2>3, <2>4
<1>4. Init => Store!Init  BY StoreInit
<1>5. Inv /\ [Next]_vars
        => [Store!Next]_<<live, [r \in Ranks |-> CopyStep(r)], [r \in Ranks |-> Kept(r)]>>
  BY <1>1, StoreNext
<1> HIDE DEF Inv
<1>. QED  BY <1>2, <1>3, <1>4, <1>5, PTL DEF Spec, ImplementsStore, Store!Spec

----------------------------------------------------------------------------
(* The loss of a machine is covered. *)

(* Ranks in the same iteration, or one at the beginning of the next one. *)
LEMMA NearNext ==
    ASSUME TypeOK, Near, [Next]_vars
    PROVE  Near'
<1> SUFFICES ASSUME NEW r \in Ranks, NEW q \in Ranks PROVE NearIteration(r, q)'
  BY DEF Near
<1>1. NearIteration(r, q) /\ NearIteration(q, r)  BY DEF Near
<1>2. HooksPerIter \in Nat \ {0} /\ iter[r] \in Nat /\ iter[q] \in Nat
  BY OptimizerAssumption DEF TypeOK
<1>3. CASE /\ iter'[r] = iter[r] /\ iter'[q] = iter[q] /\ hook'[r] = hook[r]
           /\ phase'[r] \in {"apply", "update", "sync"}
                => phase[r] \in {"apply", "update", "sync"}
           /\ phase'[r] = "train" => phase[r] = "train"
  BY <1>1, <1>3 DEF NearIteration
<1>4. ASSUME NEW x \in Ranks, CollectiveAndHook(x) PROVE NearIteration(r, q)'
  <2>1. UNCHANGED <<phase, iter>>  BY <1>4 DEF CollectiveAndHook
  <2>2. CASE x = r
    <3>1. iter[q] = iter[r]
      BY <1>4, <2>2 DEF CollectiveAndHook, CollectiveDone
    <3>. QED  BY <1>2, <2>1, <3>1 DEF NearIteration
  <2>3. CASE x # r
    <3>1. hook'[r] = hook[r]  BY <1>4, <2>3 DEF CollectiveAndHook, TypeOK
    <3>. QED  BY <1>3, <2>1, <3>1
  <2>. QED  BY <2>2, <2>3
<1>5. CASE OverflowCheck
  <2>1. /\ phase[r] = "train" /\ hook[r] = HooksPerIter /\ UNCHANGED iter
    BY <1>5 DEF OverflowCheck, device
  <2>2. ~(iter[r] > iter[q])  BY <1>1, <1>2, <2>1 DEF NearIteration
  <2>. QED  BY <2>1, <2>2 DEF NearIteration
<1>6. ASSUME NEW x \in Ranks, EndIteration(x) PROVE NearIteration(r, q)'
  <2>1. /\ phase[x] = "sync" /\ iter'[x] = iter[x] + 1
        /\ phase'[x] = "exiting" \/ (phase'[x] = "train" /\ hook'[x] = 0)
        /\ \A y \in Ranks : y # x => iter'[y] = iter[y] /\ phase'[y] = phase[y]
                                     /\ hook'[y] = hook[y]
    BY <1>6 DEF EndIteration, TypeOK, device
  <2>2. CASE x = r /\ x = q  BY <1>2, <2>1, <2>2 DEF NearIteration
  <2>3. CASE x = r /\ x # q
    <3>1. ~(iter[r] > iter[q]) /\ iter'[q] = iter[q]
      BY <1>1, <2>1, <2>3 DEF NearIteration
    <3>2. iter'[r] = iter[r] + 1 /\ phase'[r] \notin {"apply", "update", "sync"}
          /\ (phase'[r] = "train" => hook'[r] = 0)
      BY <2>1, <2>3
    <3>3. iter'[r] > iter'[q] => iter'[r] = iter'[q] + 1  BY <1>2, <3>1, <3>2
    <3>. QED  BY <3>2, <3>3 DEF NearIteration
  <2>4. CASE x # r /\ x = q
    <3>1. iter'[q] = iter[q] + 1 /\ iter'[r] = iter[r]  BY <2>1, <2>4
    <3>2. iter[r] > iter[q] => iter[r] = iter[q] + 1  BY <1>1 DEF NearIteration
    <3>3. ~(iter'[r] > iter'[q])  BY <1>2, <3>1, <3>2
    <3>. QED  BY <3>3 DEF NearIteration
  <2>5. CASE x # r /\ x # q  BY <1>3, <2>1, <2>5
  <2>. QED  BY <2>2, <2>3, <2>4, <2>5
<1>7. ASSUME NEW x \in Ranks,
             \/ Exchange(x) \/ Copy(x) \/ ApplyStep(x) \/ UpdateLocalOptimizerSnapshot(x)
             \/ SaveOptimizerSnapshotToDisk(x) \/ Interrupt(x)
      PROVE  NearIteration(r, q)'
  <2>1. UNCHANGED <<iter, hook>>
    BY ZenonT(60), <1>7 DEF Exchange, Copy, ApplyStep, UpdateLocalOptimizerSnapshot,
                SaveOptimizerSnapshotToDisk, Interrupt, host, device
  <2>2. \/ phase'[r] \in {phase[r], "exiting", "exited"}
        \/ phase[r] \in {"apply", "update"} /\ phase'[r] \in {"update", "sync"}
    BY <1>7 DEF Exchange, Copy, ApplyStep, UpdateLocalOptimizerSnapshot,
                SaveOptimizerSnapshotToDisk, Interrupt, host, TypeOK, device
  <2>. QED  BY <1>3, <2>1, <2>2
<1>8. ASSUME NEW m \in MachineRanks, Crash(m) PROVE NearIteration(r, q)'
  <2>1. UNCHANGED <<iter, hook>> /\ phase'[r] \in {phase[r], "crashed"}
    BY <1>8 DEF Crash, device
  <2>. QED  BY <1>3, <2>1
<1>9. CASE UNCHANGED vars  BY <1>3, <1>9 DEF vars, host, device
<1>. QED  BY <1>4, <1>5, <1>6, <1>7, <1>8, <1>9 DEF Next, RankStep

(* Steps that set up no buffers and begin nobody's step. *)
LEMMA SetUpFrame ==
    ASSUME NEW n, SetUp(n),
           UNCHANGED <<snapshot_current_version, have_set_snapshot_strategy, saved_dicts>>,
           \A q \in Ranks : AtStep(q)' => AtStep(q) /\ iter'[q] = iter[q]
    PROVE  SetUp(n)'
<1> SUFFICES ASSUME NEW r \in Ranks, NEW q \in Ranks PROVE SetUpTogether(r, q, n)'
  BY DEF SetUp
<1>1. SetUpTogether(r, q, n)  BY DEF SetUp
<1>2. /\ Updates(q, n)' = Updates(q, n) /\ (Updated(r, n)' <=> Updated(r, n))
      /\ SetAt(r)' = SetAt(r) /\ SetAt(q)' = SetAt(q)
  BY DEF Updates, Updated, SetAt
<1>3. AtStep(q)' => AtStep(q) /\ (Ready(q)' <=> Ready(q))  BY DEF Ready
<1>. QED  BY <1>1, <1>2, <1>3 DEF SetUpTogether

(* Turning to the next version sets up the buffers if and only if the
   ranks that have done so in this round have set them up. *)
LEMMA SetUpUpdate ==
    ASSUME NEW sent, Covered(sent), IInv(sent), NEW n, AgeInv(n), Near, SetUp(n),
           NEW x \in Ranks, UpdateLocalOptimizerSnapshot(x)
    PROVE  SetUp(n)'
<1> SUFFICES ASSUME NEW r \in Ranks, NEW q \in Ranks PROVE SetUpTogether(r, q, n)'
  BY DEF SetUp
<1>1. TypeOK /\ n \in Nat \cup {-1} /\ Mode \in {"naive", "interleave"}
      /\ \A y \in Ranks : iter[y] \in Nat
  BY OptimizerAssumption DEF IInv, AgeInv, TypeOK
<1>2. /\ phase[x] = "update" /\ phase'[x] = "sync" /\ AtStep(x) /\ ~AtStep(x)'
      /\ UNCHANGED <<iter, live>>
  BY <1>1 DEF UpdateLocalOptimizerSnapshot, AtStep, TypeOK
<1>3. \A y \in Ranks : /\ InRound(y, n) /\ CopiesOfRound(y, Updates(y, n))
                       /\ Updates(y, n) \in {n, n + 1}
  BY DEF AgeInv, Updates
<1>4. live[x] = n + 1 /\ ~Updated(x, n) /\ Updated(x, n)'
      /\ Updates(x, n) = n /\ Updates(x, n)' = n + 1
  <2>1. ~Updated(x, n) /\ Updated(x, n)'  BY UpdateAge
  <2>. QED  BY <1>2, <1>3, <2>1 DEF InRound, Updates
<1>5. ASSUME NEW y \in Ranks, y # x
      PROVE  /\ Updates(y, n)' = Updates(y, n) /\ (Updated(y, n)' <=> Updated(y, n))
             /\ SetAt(y)' = SetAt(y) /\ (AtStep(y)' <=> AtStep(y))
             /\ have_set_snapshot_strategy'[y] = have_set_snapshot_strategy[y]
  <2>1. /\ phase'[y] = phase[y] /\ snapshot_current_version'[y] = snapshot_current_version[y]
        /\ have_set_snapshot_strategy'[y] = have_set_snapshot_strategy[y]
        /\ saved_dicts'[y] = saved_dicts[y]
    <3>1. CASE SetsStrategy(x)
      BY <1>1, <1>5, <3>1 DEF UpdateLocalOptimizerSnapshot, TypeOK
    <3>2. CASE ~SetsStrategy(x)
      BY <1>1, <1>5, <3>2 DEF UpdateLocalOptimizerSnapshot, TypeOK
    <3>. QED  BY <3>1, <3>2
  <2>. QED  BY <2>1 DEF Updates, Updated, SetAt, AtStep
<1>6. \/ /\ ~have_set_snapshot_strategy[x] /\ Ready(x)
         /\ have_set_snapshot_strategy'[x] /\ SetAt(x)' = n + 1
      \/ /\ ~have_set_snapshot_strategy[x] /\ ~Ready(x)
         /\ ~have_set_snapshot_strategy'[x]
      \/ /\ have_set_snapshot_strategy[x] /\ have_set_snapshot_strategy'[x]
         /\ SetAt(x)' = SetAt(x) /\ SetAt(x) \in Nat /\ SetAt(x) <= n
  <2>1. CASE SetsStrategy(x)
    <3> DEFINE own == [b \in Blocks |-> LiveBlock(x, b)]
    <3>1. have_set_snapshot_strategy'[x] /\ saved_dicts'[x] = own
      BY <1>1, <2>1 DEF UpdateLocalOptimizerSnapshot, TypeOK
    <3>2. 0 \in Blocks  BY OptimizerAssumption DEF Blocks
    <3>3. own[0].step = n + 1  BY <1>4, <3>2 DEF LiveBlock
    <3> HIDE DEF own
    <3>. QED  BY <2>1, <3>1, <3>3 DEF SetsStrategy, Ready, SetAt
  <2>2. CASE ~SetsStrategy(x)
    <3>1. UNCHANGED <<have_set_snapshot_strategy, saved_dicts>>
      BY <2>2 DEF UpdateLocalOptimizerSnapshot
    <3>2. ~have_set_snapshot_strategy[x] => ~Ready(x)
      BY <2>2 DEF SetsStrategy, Ready
    <3>3. have_set_snapshot_strategy[x] => SetAt(x) \in Nat /\ SetAt(x) <= n
      <4>1. CopiesOfRound(x, n)  BY <1>3, <1>4
      <4>. QED  BY <4>1, OptimizerAssumption DEF CopiesOfRound, LastSetup
    <3>. QED  BY <3>1, <3>2, <3>3 DEF SetAt
  <2>. QED  BY <2>1, <2>2
<1>7. SetUpTogether(r, q, n) /\ SetUpTogether(q, r, n)  BY DEF SetUp
<1>8. \A y \in Ranks : Ready(y)' <=> Ready(y)  BY <1>2 DEF Ready
<1>9. CASE r = x /\ q = x  BY <1>1, <1>2, <1>6, <1>9 DEF SetUpTogether
<1>10. CASE r # x /\ q # x  BY <1>5, <1>7, <1>8, <1>10 DEF SetUpTogether
<1>11. CASE r # x /\ q = x
  <2>1. ASSUME have_set_snapshot_strategy[r], n + 1 >= SetAt(r)
        PROVE  have_set_snapshot_strategy'[x] /\ SetAt(x)' <= SetAt(r)
    <3>1. SetAt(r) \in Nat
      BY <1>3, <2>1, OptimizerAssumption DEF CopiesOfRound, LastSetup
    <3>2. CASE n >= SetAt(r)
      <4>1. have_set_snapshot_strategy[x] /\ SetAt(x) <= SetAt(r)
        BY <1>4, <1>7, <1>11, <2>1, <3>2 DEF SetUpTogether
      <4>. QED  BY <1>6, <4>1
    <3>3. CASE SetAt(r) = n + 1
      <4>1. Ready(x)  BY <1>2, <1>7, <1>11, <2>1, <3>3 DEF SetUpTogether
      <4>. QED  BY <1>1, <1>6, <3>3, <4>1
    <3>. QED  BY <1>1, <2>1, <3>1, <3>2, <3>3
  <2>. QED  BY <1>2, <1>4, <1>5, <1>11, <2>1 DEF SetUpTogether
<1>12. CASE r = x /\ q # x
  <2>1. AtStep(q) => iter[q] = iter[x]
    <3>1. NearIteration(x, q) /\ NearIteration(q, x)  BY DEF Near
    <3>. QED  BY <1>1, <1>2, <3>1 DEF NearIteration, AtStep
  <2>2. AtStep(q) => (Ready(q) <=> Ready(x))  BY <2>1 DEF Ready
  <2>3. ASSUME have_set_snapshot_strategy'[x], Updates(q, n) >= SetAt(x)'
        PROVE  have_set_snapshot_strategy[q] /\ SetAt(q) <= SetAt(x)'
    <3>1. CASE have_set_snapshot_strategy[x]
      <4>1. SetAt(x)' = SetAt(x)  BY <1>6, <3>1
      <4>. QED  BY <1>7, <1>12, <2>3, <3>1, <4>1 DEF SetUpTogether
    <3>2. CASE ~have_set_snapshot_strategy[x]
      <4>1. Ready(x) /\ SetAt(x)' = n + 1  BY <1>6, <2>3, <3>2
      <4>2. Updated(q, n) /\ Updates(q, n) = n + 1
        BY <1>1, <2>3, <4>1 DEF Updates
      <4>3. have_set_snapshot_strategy[q]
        BY <1>2, <1>7, <1>12, <4>1, <4>2 DEF SetUpTogether
      <4>4. SetAt(q) <= n + 1  BY <1>3, <4>2, <4>3 DEF CopiesOfRound
      <4>. QED  BY <4>1, <4>3, <4>4
    <3>. QED  BY <3>1, <3>2
  <2>4. ASSUME AtStep(q), have_set_snapshot_strategy'[x], SetAt(x)' = n + 1
        PROVE  Ready(q)
    BY <1>1, <1>6, <2>2, <2>4
  <2>5. ASSUME AtStep(q), ~have_set_snapshot_strategy'[x]
        PROVE  ~Ready(q)
    BY <1>6, <2>2, <2>5
  <2>. QED  BY <1>5, <1>8, <1>12, <2>3, <2>4, <2>5 DEF SetUpTogether
<1>. QED  BY <1>9, <1>10, <1>11, <1>12

(* No second machine is lost. *)
LEMMA OneLostNext ==
    ASSUME TypeOK, OneMachineLost, [Next]_vars
    PROVE  OneMachineLost'
<1>1. ASSUME \A r \in Ranks : phase'[r] = "crashed" => phase[r] = "crashed"
      PROVE  OneMachineLost'
  BY <1>1 DEF OneMachineLost
<1>2. ASSUME NEW m \in MachineRanks, Crash(m) PROVE OneMachineLost'
  <2>1. \A r \in Ranks : phase'[r] = "crashed" => MachineOf(r) = m
    BY <1>2 DEF Crash, device
  <2>. QED  BY <2>1 DEF OneMachineLost
<1>3. ASSUME NEW x \in Ranks, RankStep(x) \/ Interrupt(x) PROVE OneMachineLost'
  <2>1. \A r \in Ranks : phase'[r] = "crashed" => phase[r] = "crashed"
    <3> TAKE r \in Ranks
    <3>1. phase \in [Ranks -> Phases]  BY DEF TypeOK
    <3>2. \/ UNCHANGED phase
          \/ \E p \in Phases \ {"crashed"} : phase' = [phase EXCEPT ![x] = p]
      BY <1>3 DEF RankStep, CollectiveAndHook, Exchange, Copy, ApplyStep, EndIteration,
                  UpdateLocalOptimizerSnapshot, SaveOptimizerSnapshotToDisk, Interrupt,
                  host, Phases, device
    <3>. QED  BY <3>1, <3>2
  <2>. QED  BY <1>1, <2>1
<1>4. CASE OverflowCheck \/ UNCHANGED vars
  BY <1>1, <1>4 DEF OverflowCheck, vars, host, device
<1>. QED  BY <1>2, <1>3, <1>4 DEF Next

(* The invariant of losses holds at the start, in round -1. *)
LEMMA InitLoss == Init => LossInv(-1)
<1> SUFFICES ASSUME Init PROVE LossInv(-1)  OBVIOUS
<1>1. Near  BY DEF Init, Near, NearIteration
<1>2. SetUp(-1)  BY DEF Init, SetUp, SetUpTogether, AtStep
<1>3. OneMachineLost  BY DEF Init, OneMachineLost
<1>. QED  BY <1>1, <1>2, <1>3 DEF LossInv

(* A round that begins: nobody has set up buffers at its step yet. *)
LEMMA SetUpBegin ==
    ASSUME TypeOK, NEW n, AgeInv(n), SetUp(n), OverflowCheck,
           \A q \in Ranks : phase'[q] = "apply"
    PROVE  SetUp(n + 1)'
<1> SUFFICES ASSUME NEW r \in Ranks, NEW q \in Ranks PROVE SetUpTogether(r, q, n + 1)'
  BY DEF SetUp
<1>1. n \in Nat \cup {-1}  BY DEF AgeInv
<1>2. /\ \A y \in Ranks : phase[y] = "train"
      /\ UNCHANGED buffers
  BY DEF OverflowCheck, device
<1>3. \A y \in Ranks : /\ Updated(y, n) /\ ~Updated(y, n + 1)
                       /\ Updates(y, n) = n + 1 /\ Updates(y, n + 1) = n + 1
                       /\ CopiesOfRound(y, n + 1)
  <2> TAKE y \in Ranks
  <2>1. InRound(y, n) /\ CopiesOfRound(y, Updates(y, n))  BY DEF AgeInv
  <2>2. Updated(y, n)  BY <1>2, <2>1 DEF InRound
  <2>3. ~Updated(y, n + 1)  BY <1>1, <2>2, RoundTurns
  <2>. QED  BY <2>1, <2>2, <2>3 DEF Updates
<1>4. \A y \in Ranks : /\ ~Updated(y, n + 1)' /\ Updates(y, n + 1)' = n + 1
                       /\ SetAt(y)' = SetAt(y)
  BY <1>2, <1>3 DEF Updated, Updates, SetAt, buffers
<1>5. have_set_snapshot_strategy[r] => SetAt(r) # (n + 1) + 1
  <2>1. have_set_snapshot_strategy[r] => SetAt(r) \in Nat /\ SetAt(r) <= n + 1
    BY <1>3, OptimizerAssumption DEF CopiesOfRound, LastSetup
  <2>. QED  BY <1>1, <2>1
<1>6. SetUpTogether(r, q, n)  BY DEF SetUp
<1>7. have_set_snapshot_strategy[r] /\ n + 1 >= SetAt(r) =>
          have_set_snapshot_strategy[q] /\ SetAt(q) <= SetAt(r)
  BY <1>3, <1>6 DEF SetUpTogether
<1>. QED  BY <1>2, <1>4, <1>5, <1>7 DEF SetUpTogether, buffers

(* The round and the invariant of losses move on together. *)
LEMMA NextLoss ==
    ASSUME NEW sent, Covered(sent), IInv(sent), NEW n, AgeInv(n), LossInv(n), [Next]_vars
    PROVE  \/ AgeInv(n)' /\ LossInv(n)'
           \/ AgeInv(n + 1)' /\ LossInv(n + 1)'
<1>1. TypeOK /\ Near /\ SetUp(n) /\ OneMachineLost  BY DEF IInv, LossInv
<1>2. Near' /\ OneMachineLost'
  <2>1. Near'  BY <1>1, NearNext
  <2>2. OneMachineLost'  BY <1>1, OneLostNext
  <2>. QED  BY <2>1, <2>2
<1>3. CASE OverflowCheck /\ \A q \in Ranks : phase'[q] = "apply"
  <2>1. SetUp(n + 1)'  BY <1>1, <1>3, SetUpBegin
  <2>2. AgeInv(n + 1)'
    <3>1. \A q \in Ranks : phase'[q] # "sync"  BY <1>3
    <3>2. \/ AgeInv(n)' /\ \A q \in Ranks : phase'[q] = "sync"
          \/ AgeInv(n + 1)' /\ \A q \in Ranks : phase'[q] = "apply"
      BY <1>1, <1>3, OverflowAge
    <3>3. 0 \in Ranks  BY GroupAssumption DEF Ranks, WorldSize
    <3>. QED  BY <3>1, <3>2, <3>3
  <2>. QED  BY <1>2, <2>1, <2>2 DEF LossInv
<1>4. CASE ~(OverflowCheck /\ \A q \in Ranks : phase'[q] = "apply")
  <2>1. AgeInv(n)' /\ (OverflowCheck => \A q \in Ranks : phase'[q] = "sync")
    BY <1>4, NextAge
  <2>2. ASSUME UNCHANGED <<snapshot_current_version, have_set_snapshot_strategy, saved_dicts>>,
               \A q \in Ranks : AtStep(q)' => AtStep(q) /\ iter'[q] = iter[q]
        PROVE  SetUp(n)'
    BY <1>1, <2>2, SetUpFrame
  <2>3. SetUp(n)'
    <3>1. ASSUME NEW r \in Ranks, UpdateLocalOptimizerSnapshot(r) PROVE SetUp(n)'
      BY <1>1, <3>1, SetUpUpdate
    <3>2. ASSUME NEW r \in Ranks,
                 \/ CollectiveAndHook(r) \/ Exchange(r) \/ Copy(r) \/ ApplyStep(r)
                 \/ SaveOptimizerSnapshotToDisk(r) \/ Interrupt(r) \/ EndIteration(r)
          PROVE  SetUp(n)'
      <4>1. UNCHANGED <<snapshot_current_version, have_set_snapshot_strategy, saved_dicts>>
        BY <3>2 DEF CollectiveAndHook, Exchange, Copy, ApplyStep, SaveOptimizerSnapshotToDisk,
                    Interrupt, EndIteration, buffers, device
      <4>2. ASSUME NEW q \in Ranks, AtStep(q)' PROVE AtStep(q) /\ iter'[q] = iter[q]
        <5>1. CASE CollectiveAndHook(r) \/ Exchange(r) \/ Copy(r)
          BY <4>2, <5>1 DEF CollectiveAndHook, Exchange, Copy, AtStep, host
        <5>2. CASE ApplyStep(r)
          BY <1>1, <4>2, <5>2 DEF ApplyStep, AtStep, TypeOK, device
        <5>3. CASE SaveOptimizerSnapshotToDisk(r)
          BY <1>1, <4>2, <5>3 DEF SaveOptimizerSnapshotToDisk, AtStep, TypeOK, device
        <5>4. CASE Interrupt(r)
          BY <1>1, <4>2, <5>4 DEF Interrupt, AtStep, TypeOK, device
        <5>5. CASE EndIteration(r)
          BY <1>1, <4>2, <5>5 DEF EndIteration, AtStep, TypeOK, device
        <5>. QED  BY <3>2, <5>1, <5>2, <5>3, <5>4, <5>5
      <4>. QED  BY <2>2, <4>1, <4>2
    <3>3. CASE OverflowCheck
      <4>1. UNCHANGED buffers /\ \A q \in Ranks : ~AtStep(q)'
        BY <2>1, <3>3 DEF OverflowCheck, AtStep, device
      <4>. QED  BY <2>2, <4>1 DEF buffers
    <3>4. ASSUME NEW m \in MachineRanks, Crash(m) PROVE SetUp(n)'
      <4>1. UNCHANGED buffers /\ \A q \in Ranks : AtStep(q)' => AtStep(q) /\ iter'[q] = iter[q]
        BY <3>4 DEF Crash, AtStep, device
      <4>. QED  BY <2>2, <4>1 DEF buffers
    <3>5. CASE UNCHANGED vars
      BY <2>2, <3>5 DEF vars, host, buffers, AtStep, device
    <3>. QED  BY <3>1, <3>2, <3>3, <3>4, <3>5 DEF Next, RankStep
  <2>. QED  BY <1>2, <2>1, <2>3 DEF LossInv
<1>. QED  BY <1>3, <1>4

(* The rounds of a lost rank and of its peer differ by at most one update. *)
LEMMA LossCovered ==
    ASSUME NEW sent, IInv(sent), StreamInv, NEW n, AgeInv(n), LossInv(n)
    PROVE  LossIsCovered
<1> SUFFICES ASSUME NEW r \in Ranks, phase[r] = "crashed"
             PROVE  LET q == GetPeerRank(r)
                    IN  /\ phase[q] # "crashed"
                        /\ (/\ have_set_snapshot_strategy[r]
                            /\ live[r] >= saved_dicts[r][0].step + 2
                            /\ phase[q] # "exited")
                           => /\ IsCopyOf(LatestReceived(q), r)
                              /\ live[r] - LatestReceived(q)[0].step \in 0 .. 2
                              /\ KeepsReceived(q)
  BY DEF LossIsCovered
<1> DEFINE q == GetPeerRank(r)
<1>1. q \in Ranks /\ GetPeerRank(q) = r /\ MachineOf(q) # MachineOf(r)
  BY PeerSymmetric
<1>2. phase[q] # "crashed" /\ KeepsReceived(q)
  BY <1>1 DEF LossInv, OneMachineLost, StreamInv, Streams
<1>3. /\ InRound(r, n) /\ CopiesOfRound(r, Updates(r, n))
      /\ InRound(q, n) /\ CopiesOfRound(q, Updates(q, n))
      /\ SetUpTogether(r, q, n)
      /\ n \in Nat \cup {-1} /\ TypeOK
  BY <1>1 DEF AgeInv, LossInv, SetUp, IInv
<1>4. /\ Updates(q, n) \in {n, n + 1} /\ live[r] \in {n, n + 1}
  BY <1>3 DEF InRound, Updates
<1> HIDE DEF q
<1>5. ASSUME have_set_snapshot_strategy[r], live[r] >= SetAt(r) + 2
      PROVE  IsCopyOf(LatestReceived(q), r) /\ live[r] - LatestReceived(q)[0].step \in 0 .. 2
  <2>1. SetAt(r) \in Nat
    BY <1>3, <1>5, OptimizerAssumption DEF CopiesOfRound, LastSetup
  <2>2. Updates(q, n) > SetAt(r)  BY <1>3, <1>4, <1>5, <2>1
  <2>3. have_set_snapshot_strategy[q] /\ SetAt(q) <= SetAt(r)
    BY <1>3, <1>4, <1>5, <2>1, <2>2 DEF SetUpTogether
  <2>4. SetAt(q) \in Nat
    BY <1>3, <2>3, OptimizerAssumption DEF CopiesOfRound, LastSetup
  <2>5. Updates(q, n) > SetAt(q)  BY <1>3, <1>4, <2>1, <2>2, <2>3, <2>4
  <2>6. IsCopyOf(LatestReceived(q), r) /\ LatestReceived(q)[0].step = Updates(q, n) - 1
    BY <1>1, <1>3, <2>3, <2>5 DEF CopiesOfRound
  <2>7. live[r] - (Updates(q, n) - 1) \in 0 .. 2  BY <1>3, <1>4
  <2>. QED  BY <2>6, <2>7
<1>. QED  BY <1>2, <1>5 DEF q, SetAt

(* The loss of a machine is covered: the peers of its ranks are elsewhere;
   and, once a rank has trained two steps with its buffers set up, its
   peer has received its whole state at one step, at most two optimizer
   steps ago, and holds each block of it in CPU memory unless the copy of
   the block is still to come or was out of time.  Nothing is claimed of
   the peer's file: it is of the state at start-up. *)
THEOREM LossOfAMachineIsCovered ==
    ASSUME Mode = "naive" \/ StrategyCovers
    PROVE  Spec => []LossIsCovered
<1>1. PICK sent : Covered(sent)  BY DEF StrategyCovers, Covered
<1> DEFINE Inv == /\ IInv(sent) /\ StreamInv
                  /\ \E n \in Nat \cup {-1} : AgeInv(n) /\ LossInv(n)
<1>2. Init => Inv  BY InitInv, InitStreams, InitAge, InitLoss
<1>3. Inv /\ [Next]_vars => Inv'
  <2> SUFFICES ASSUME Inv, [Next]_vars PROVE Inv'  OBVIOUS
  <2>1. PICK n \in Nat \cup {-1} : AgeInv(n) /\ LossInv(n)  OBVIOUS
  <2>2. IInv(sent)' /\ StreamInv'  BY <1>1, NextInv, NextStreams
  <2>3. \/ AgeInv(n)' /\ LossInv(n)'
        \/ AgeInv(n + 1)' /\ LossInv(n + 1)'
    BY <1>1, <2>1, NextLoss
  <2>4. n + 1 \in Nat \cup {-1}  BY <2>1
  <2>. QED  BY <2>1, <2>2, <2>3, <2>4
<1>4. Inv => LossIsCovered  BY LossCovered
<1> HIDE DEF Inv
<1>. QED  BY <1>2, <1>3, <1>4, PTL DEF Spec
=============================================================================
