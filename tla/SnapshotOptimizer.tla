------------------------- MODULE SnapshotOptimizer -------------------------
(***************************************************************************)
(* In-memory checkpointing of optimizer states (snapshot_comm.py), with    *)
(* the training iteration that drives it (ZeRO-3 step and hooks, and the   *)
(* loop of examples/GPT/pretrain_gpt.py).                                  *)
(*                                                                         *)
(* Every rank keeps two versions of its peer's optimizer state in CPU      *)
(* memory, block by block.  Blocks are exchanged with the peer right after *)
(* the optimizer step (mode "naive"), or in the idle gaps of the network   *)
(* of the next iteration (mode "interleave", following a strategy).  After *)
(* each optimizer step the rank turns to the other version, and the one it *)
(* leaves counts as the latest completed checkpoint.                       *)
(*                                                                         *)
(* For each block the host issues two operations: on the communication     *)
(* stream a paired send and receive, into one of two GPU buffers in turn,  *)
(* and on the copy stream a copy from that buffer to CPU memory.  A stream *)
(* does its operations in order; nothing orders the two streams but the    *)
(* synchronization of the device at the end of an iteration.               *)
(***************************************************************************)
EXTENDS GroupPolicy, Sequences

CONSTANTS
    Mode,            \* snapshot_settings.snapshot_mode: "naive" or "interleave"
    TotalBlocks,     \* blocks of one rank's optimizer state
    HooksPerIter,    \* allgathers and reduce-scatters of one iteration
    Strategy,        \* planner's result: gap id -> blocks to send (-1: the rest)
    ProfileSteps,    \* comm_profile_steps
    MaxIter,         \* iterations before the training loop ends
    Drifting,        \* ranks whose two streams may drift apart: a bound of the
                     \* runs, in the code they may at every rank
    AllowInterrupt,  \* may a process be stopped by an exception or a signal?
    AllowCrash       \* may a machine be lost?

Blocks == 0 .. TotalBlocks - 1
Versions == {0, 1}          \* snapshot_versions = 2
Buffers == {0, 1}           \* snapshot_gpu_versions = 2

ASSUME OptimizerAssumption ==
    /\ Mode \in {"naive", "interleave"}
    /\ TotalBlocks \in Nat \ {0}
    /\ HooksPerIter \in Nat \ {0}
    /\ DOMAIN Strategy \subseteq Nat
    /\ \A g \in DOMAIN Strategy : Strategy[g] \in Nat \cup {-1}
    /\ ProfileSteps \in Nat \ {0}
    /\ MaxIter \in Nat
    /\ Drifting \subseteq Ranks
    /\ {AllowInterrupt, AllowCrash} \subseteq BOOLEAN

(* What a block of memory holds: block "block" of the state of rank "rank"
   after "step" optimizer steps, or the zeros of a new GPU buffer. *)
Contents == [rank : Ranks \cup {-1}, step : Nat, block : Blocks]
Zeros == [rank |-> -1, step |-> 0, block |-> 0]

(* A block on its way: the block sent, also the block received, and the
   version that receives it. *)
Transfers == [version : Versions, block : Blocks]

NoFile == [written |-> FALSE]

VARIABLES
    phase,         \* where the host program of a rank is
    iter,          \* global_step
    live,          \* optimizer steps applied to the state on the GPU
    hook,          \* collectives of this iteration completed by the host
    comm_gap_id,
    cur_block_id,
    snapshot_current_version,
    have_set_snapshot_strategy,
    have_local,    \* local_optimizer_state_dict is not None
    snapshot_gpu_buffer_id,
    gpu,           \* snapshot_gpu_buffers
    tensor_blocks, \* the pinned CPU blocks, per version
    queue,         \* transfers issued on checkpoint_comm_stream, not yet done
    copies,        \* copies issued on checkpoint_copy_stream, not yet done
    received,      \* history: the blocks as they arrived from the network
    spoilt,        \* history: the blocks whose last copy was out of time
    saved_dicts,   \* own state loaded into optimizer_state_dicts at start-up
    file           \* what the rank wrote to disk

host == <<phase, iter, live, hook>>
buffers == <<comm_gap_id, cur_block_id, snapshot_current_version,
             have_set_snapshot_strategy, have_local, saved_dicts,
             snapshot_gpu_buffer_id>>
device == <<gpu, tensor_blocks, queue, copies, received, spoilt>>
vars == <<host, buffers, device, file>>

Phases == {"train", "apply", "update", "sync", "exiting", "exited", "crashed"}

----------------------------------------------------------------------------
(* A block of rank r's own live state. *)
LiveBlock(r, b) == [rank |-> r, step |-> live[r], block |-> b]

(* Mistakes the runs must notice; each has the parameters of the operator
   it would replace.  Only every other step is a snapshot step: *)
OddSnapshotStep(r) == have_set_snapshot_strategy[r] /\ live[r] % 2 = 1

(* the version is never changed; *)
SameVersion(v) == v

(* rank 0 does not broadcast its strategy; *)
StrategyOfRank0(r) == IF r = 0 THEN Strategy ELSE << >>

(* the last block of the planned ones is not sent; *)
OneBlockShort(from, planned) ==
    LET remaining == TotalBlocks - from
    IN  IF planned = -1 \/ planned >= remaining THEN remaining - 1 ELSE planned

(* blocks are always received in the first of the two versions; *)
TransfersToVersion0(from, n, version) ==
    [i \in 1 .. n |-> [version |-> 0, block |-> from + i - 1]]

(* snapshot_gpu_buffer_id is never moved on: one buffer serves all blocks. *)
OneBuffer(r, pending) == 0

(* With snapshot_freq = 1, the value of the only SnapshotOptimizer that is
   created, every step whose strategy is set is a snapshot step. *)
IsSnapshotStep(r) == have_set_snapshot_strategy[r]

(* reset_cpu_buffer: the other of the two versions. *)
NextVersion(v) == (v + 1) % 2

LatestCompletedSnapshotVersion(r) == (snapshot_current_version[r] - 1) % 2

LatestCopy(r) == tensor_blocks[r][LatestCompletedSnapshotVersion(r)]

LatestReceived(r) == received[r][LatestCompletedSnapshotVersion(r)]

(* What save_optimizer_snapshot_to_disk writes as the remote snapshot: the
   dictionary loaded at start-up.  The blocks that receive the peer's data
   are views of pin_memory() of its tensors, which is a copy of a tensor
   not yet pinned: the dictionary never changes. *)
RemoteSnapshot(r) == saved_dicts[r]

(* The blocks take the two GPU buffers in turn: the one of the operation
   that has "pending" operations, itself included, left in its stream. *)
BufferOf(r, pending) == (snapshot_gpu_buffer_id[r] - pending) % 2

Min2(a, b) == IF a < b THEN a ELSE b

(* Rank 0 computes the strategy and broadcasts it: all ranks follow it. *)
StrategyOf(r) == Strategy

(* The number of blocks remote_snapshot_blocks sends from block "from" on
   when the strategy says "planned". *)
BlocksToSend(from, planned) ==
    LET remaining == TotalBlocks - from
    IN  IF planned = -1 THEN remaining ELSE Min2(planned, remaining)

(* Transfers of n consecutive blocks, each received where it was sent from. *)
TransfersOf(from, n, version) ==
    [i \in 1 .. n |-> [version |-> version, block |-> from + i - 1]]

Init ==
    /\ phase = [r \in Ranks |-> "train"]
    /\ iter = [r \in Ranks |-> 0]
    /\ live = [r \in Ranks |-> 0]
    /\ hook = [r \in Ranks |-> 0]
    /\ comm_gap_id = [r \in Ranks |-> -1]
    /\ cur_block_id = [r \in Ranks |-> 0]
    /\ snapshot_current_version = [r \in Ranks |-> 0]
    /\ have_set_snapshot_strategy = [r \in Ranks |-> FALSE]
    /\ have_local = [r \in Ranks |-> FALSE]
    /\ tensor_blocks = [r \in Ranks |-> [v \in Versions |->
                           [b \in Blocks |-> LiveBlock(r, b)]]]
    /\ snapshot_gpu_buffer_id = [r \in Ranks |-> 0]
    /\ gpu = [r \in Ranks |-> [i \in Buffers |-> Zeros]]
    /\ received = tensor_blocks
    /\ queue = [r \in Ranks |-> << >>] /\ copies = queue
    /\ spoilt = [r \in Ranks |-> {}]
    /\ saved_dicts = [r \in Ranks |-> [b \in Blocks |-> LiveBlock(r, b)]]
    /\ file = [r \in Ranks |-> NoFile]

----------------------------------------------------------------------------
(* A collective returns on the host of r once every rank has launched it. *)
CollectiveDone(r) ==
    \A q \in Ranks :
        /\ iter[q] = iter[r]
        /\ \/ hook[q] > hook[r]
           \/ hook[q] = hook[r] /\ phase[q] = "train"

(* One allgather or reduce-scatter of the iteration, and the hook after
   it, remote_snapshot: in interleave mode, the blocks the strategy has
   for this gap are issued, as many as are left; the gap id moves on. *)
CollectiveAndHook(r) ==
    /\ phase[r] = "train"
    /\ hook[r] < HooksPerIter
    /\ CollectiveDone(r)
    /\ hook' = [hook EXCEPT ![r] = @ + 1]
    /\ IF IsSnapshotStep(r)
         THEN comm_gap_id' = [comm_gap_id EXCEPT ![r] = @ + 1]
         ELSE UNCHANGED comm_gap_id
    /\ IF IsSnapshotStep(r) /\ Mode = "interleave" /\ comm_gap_id[r] \in DOMAIN StrategyOf(r)
         THEN LET n == BlocksToSend(cur_block_id[r], StrategyOf(r)[comm_gap_id[r]])
                  issued == TransfersOf(cur_block_id[r], n, snapshot_current_version[r])
              IN  /\ queue' = [queue EXCEPT ![r] = @ \o issued]
                  /\ copies' = [copies EXCEPT ![r] = @ \o issued]
                  /\ cur_block_id' = [cur_block_id EXCEPT ![r] = @ + n]
                  /\ snapshot_gpu_buffer_id' =
                         [snapshot_gpu_buffer_id EXCEPT ![r] = (@ + n) % 2]
         ELSE UNCHANGED <<queue, copies, cur_block_id, snapshot_gpu_buffer_id>>
    /\ UNCHANGED <<phase, iter, live, snapshot_current_version, file, saved_dicts,
                   have_set_snapshot_strategy, have_local, gpu, tensor_blocks,
                   received, spoilt>>

(* The streams of r do not drift: what was received has been copied. *)
InStride(r) == r \in Drifting \/ Len(copies[r]) = Len(queue[r])

(* The communication stream: the oldest transfers of two peers meet, and
   each side's block reaches a GPU buffer of the other. *)
Exchange(r) ==
    LET p == GetPeerRank(r)
        mine == Head(queue[r])
        theirs == Head(queue[p])
        toMe == LiveBlock(p, theirs.block)
        toPeer == LiveBlock(r, mine.block)
    IN  /\ queue[r] # << >> /\ queue[p] # << >>
        /\ {phase[r], phase[p]} \cap {"exited", "crashed"} = {}
        /\ InStride(r) /\ InStride(p)
        /\ queue' = [queue EXCEPT ![r] = Tail(@), ![p] = Tail(@)]
        /\ gpu' = [gpu EXCEPT ![r][BufferOf(r, Len(queue[r]))] = toMe,
                              ![p][BufferOf(p, Len(queue[p]))] = toPeer]
        /\ received' = [received EXCEPT ![r][mine.version][mine.block] = toMe,
                                        ![p][theirs.version][theirs.block] = toPeer]
        /\ UNCHANGED <<host, buffers, tensor_blocks, copies, spoilt, file>>

(* The oldest copy finds its block in the GPU buffer: it has been received,
   and the block after the next, which takes the same buffer, has not. *)
InTime(r) == Len(copies[r]) - Len(queue[r]) \in {1, 2}

(* The copy stream: the oldest copy writes to CPU memory what its buffer
   holds.  (A copy that overlaps with a receive into its buffer may write
   a part of each block; it is out of time as well.) *)
Copy(r) ==
    LET c == Head(copies[r])
    IN  /\ copies[r] # << >>
        /\ phase[r] \notin {"exited", "crashed"}
        /\ r \in Drifting \/ InTime(r)
        /\ copies' = [copies EXCEPT ![r] = Tail(@)]
        /\ tensor_blocks' = [tensor_blocks EXCEPT
               ![r][c.version][c.block] = gpu[r][BufferOf(r, Len(copies[r]))]]
        /\ spoilt' = [spoilt EXCEPT ![r] = IF InTime(r) THEN @ \ {c} ELSE @ \cup {c}]
        /\ UNCHANGED <<host, buffers, gpu, queue, received, file>>

(* The overflow check of the optimizer is all-reduced: the ranks agree to
   skip the step or to take it.  The streams of the gradients wait for the
   communication stream before. *)
OverflowCheck ==
    /\ \A r \in Ranks : phase[r] = "train" /\ hook[r] = HooksPerIter /\ queue[r] = << >>
    /\ \E overflow \in BOOLEAN :
           phase' = [r \in Ranks |-> IF overflow THEN "sync" ELSE "apply"]
    /\ UNCHANGED <<iter, live, hook, buffers, device, file>>

(* The optimizer updates the state of rank r in place. *)
ApplyStep(r) ==
    /\ phase[r] = "apply"
    /\ phase' = [phase EXCEPT ![r] = "update"]
    /\ live' = [live EXCEPT ![r] = @ + 1]
    /\ UNCHANGED <<iter, hook, buffers, device, file>>

(* Does this call set up the buffers and the strategy?  Profiling is over
   once the loop has counted ProfileSteps iterations. *)
SetsStrategy(r) ==
    /\ ~have_set_snapshot_strategy[r]
    /\ Mode = "interleave" => iter[r] >= ProfileSteps

(* update_local_optimizer_snapshot, called by step() unless it overflowed:
   the rank turns to the other version; the first call (after profiling,
   in interleave mode) loads its own state into both versions; in naive
   mode all blocks are issued. *)
UpdateLocalOptimizerSnapshot(r) ==
    LET version == NextVersion(snapshot_current_version[r])
        snapshotNow == Mode = "naive"
        issued == IF snapshotNow THEN TransfersOf(0, TotalBlocks, version) ELSE << >>
        own == [b \in Blocks |-> LiveBlock(r, b)]
    IN  /\ phase[r] = "update"
        /\ phase' = [phase EXCEPT ![r] = "sync"]
        /\ have_local' = [have_local EXCEPT ![r] = TRUE]
        /\ comm_gap_id' = [comm_gap_id EXCEPT ![r] = -1]
        /\ snapshot_current_version' = [snapshot_current_version EXCEPT ![r] = version]
        /\ IF SetsStrategy(r)
             THEN /\ have_set_snapshot_strategy' =
                         [have_set_snapshot_strategy EXCEPT ![r] = TRUE]
                  /\ tensor_blocks' =
                         [tensor_blocks EXCEPT ![r] = [v \in Versions |-> own]]
                  /\ received' = [received EXCEPT ![r] = [v \in Versions |-> own]]
                  /\ gpu' = [gpu EXCEPT ![r] = [i \in Buffers |-> Zeros]]
                  /\ saved_dicts' = [saved_dicts EXCEPT ![r] = own]
             ELSE UNCHANGED <<have_set_snapshot_strategy, tensor_blocks, received,
                              gpu, saved_dicts>>
        /\ cur_block_id' = [cur_block_id EXCEPT ![r] =
                               IF snapshotNow THEN TotalBlocks ELSE 0]
        /\ queue' = [queue EXCEPT ![r] = @ \o issued]
        /\ copies' = [copies EXCEPT ![r] = @ \o issued]
        /\ snapshot_gpu_buffer_id' =
               [snapshot_gpu_buffer_id EXCEPT ![r] = (@ + Len(issued)) % 2]
        /\ UNCHANGED <<iter, live, hook, spoilt, file>>

(* torch.cuda.synchronize() at the end of an iteration, then the loop
   counts it and starts the next one or leaves. *)
EndIteration(r) ==
    /\ phase[r] = "sync"
    /\ queue[r] = << >> /\ copies[r] = << >>
    /\ iter' = [iter EXCEPT ![r] = @ + 1]
    /\ IF iter[r] + 1 >= MaxIter
         THEN /\ phase' = [phase EXCEPT ![r] = "exiting"]
              /\ UNCHANGED hook
         ELSE /\ phase' = [phase EXCEPT ![r] = "train"]
              /\ hook' = [hook EXCEPT ![r] = 0]
    /\ UNCHANGED <<live, buffers, device, file>>

(* save_optimizer_snapshot_to_disk, at the end of the loop or at exit: it
   writes nothing before the first update; it synchronizes the device and
   writes the live state, then the remote snapshot and its record.  Before
   the buffers exist the remote snapshot raises AttributeError. *)
SaveOptimizerSnapshotToDisk(r) ==
    /\ phase[r] = "exiting"
    /\ have_local[r] => queue[r] = << >> /\ copies[r] = << >>
    /\ phase' = [phase EXCEPT ![r] = "exited"]
    /\ IF ~have_local[r]
         THEN UNCHANGED file
         ELSE file' = [file EXCEPT ![r] =
                [written |-> TRUE, local |-> live[r], iteration |-> iter[r],
                 remote |-> IF have_set_snapshot_strategy[r]
                              THEN RemoteSnapshot(r) ELSE << >>]]
    /\ UNCHANGED <<iter, live, hook, buffers, device>>

(* An exception ends the host program of r between two of its steps: exit
   handlers run.  (A signal does the same: the handler is called with two
   arguments it does not take.) *)
Interrupt(r) ==
    /\ AllowInterrupt
    /\ phase[r] \in {"train", "apply", "update", "sync"}
    /\ phase' = [phase EXCEPT ![r] = "exiting"]
    /\ UNCHANGED <<iter, live, hook, buffers, device, file>>

(* A machine is lost with the memory of all its ranks; only one is. *)
Crash(m) ==
    /\ AllowCrash
    /\ \A r \in Ranks : phase[r] # "crashed"
    /\ phase' = [r \in Ranks |-> IF MachineOf(r) = m THEN "crashed" ELSE phase[r]]
    /\ UNCHANGED <<iter, live, hook, buffers, device, file>>

RankStep(r) ==
    \/ CollectiveAndHook(r)
    \/ Exchange(r)
    \/ Copy(r)
    \/ ApplyStep(r)
    \/ UpdateLocalOptimizerSnapshot(r)
    \/ EndIteration(r)
    \/ SaveOptimizerSnapshotToDisk(r)

Next ==
    \/ \E r \in Ranks : RankStep(r) \/ Interrupt(r)
    \/ OverflowCheck
    \/ \E m \in MachineRanks : Crash(m)

Spec == Init /\ [][Next]_vars

(* The host programs and the devices keep running; nothing forces a fault. *)
FairSpec ==
    /\ Spec
    /\ WF_vars(OverflowCheck)
    /\ \A r \in Ranks : WF_vars(RankStep(r))

----------------------------------------------------------------------------
(* c holds every block of the state of rank p, each in its place and all
   of the same optimizer step. *)
IsCopyOf(c, p) ==
    \A b \in Blocks : c[b] = [rank |-> p, step |-> c[0].step, block |-> b]

TypeOK ==
    /\ phase \in [Ranks -> Phases]
    /\ iter \in [Ranks -> Nat]
    /\ live \in [Ranks -> Nat]
    /\ hook \in [Ranks -> 0 .. HooksPerIter]
    /\ comm_gap_id \in [Ranks -> Nat \cup {-1}]
    /\ cur_block_id \in [Ranks -> 0 .. TotalBlocks]
    /\ snapshot_current_version \in [Ranks -> Versions]
    /\ have_set_snapshot_strategy \in [Ranks -> BOOLEAN]
    /\ have_local \in [Ranks -> BOOLEAN]
    /\ tensor_blocks \in [Ranks -> [Versions -> [Blocks -> Contents]]]
    /\ snapshot_gpu_buffer_id \in [Ranks -> Buffers]
    /\ gpu \in [Ranks -> [Buffers -> Contents]]
    /\ received \in [Ranks -> [Versions -> [Blocks -> Contents]]]
    /\ queue \in [Ranks -> Seq(Transfers)]
    /\ copies \in [Ranks -> Seq(Transfers)]
    /\ spoilt \in [Ranks -> SUBSET Transfers]
    /\ saved_dicts \in [Ranks -> [Blocks -> Contents]]
    /\ DOMAIN file = Ranks

(* The copy of the block of the latest version to CPU memory is still to
   be done, or was done out of time: nothing orders it. *)
InDoubt(r, b) ==
    LET c == [version |-> LatestCompletedSnapshotVersion(r), block |-> b]
    IN  c \in spoilt[r] \/ \E i \in DOMAIN copies[r] : copies[r][i] = c

(* CPU memory holds the blocks of the latest version as they were received. *)
KeepsReceived(r) ==
    \A b \in Blocks : InDoubt(r, b) \/ LatestCopy(r)[b] = LatestReceived(r)[b]

(* Of the version latest_completed_snapshot_version names, every block has
   been received, of the peer's state at one single step or, until the
   first exchange, of the rank's own: no iteration leaves blocks unsent
   when reset_cpu_buffer turns to the other version.  CPU memory holds
   them, but for those the copy stream, which the turn does not wait for,
   has still to copy or has copied out of time. *)
LatestIsComplete ==
    \A r \in Ranks : /\ \/ IsCopyOf(LatestReceived(r), GetPeerRank(r))
                        \/ IsCopyOf(LatestReceived(r), r)
                     /\ KeepsReceived(r)

(* Once the device is synchronized, the latest version is in CPU memory
   the whole state of the peer at one step, or the rank's own. *)
RemoteCheckpointIsOfThePeer ==
    \A r \in Ranks : phase[r] = "train" =>
        \/ IsCopyOf(LatestCopy(r), GetPeerRank(r))
        \/ IsCopyOf(LatestCopy(r), r)

(* The file a rank writes as the remote checkpoint is of its peer's state,
   if the peer's blocks have been received since the buffers were set up. *)
RemoteFileIsOfThePeer ==
    \A r \in Ranks :
        file[r].written /\ IsCopyOf(LatestReceived(r), GetPeerRank(r)) =>
            IsCopyOf(file[r].remote, GetPeerRank(r))

(* The strategy sends every block in the gaps one iteration reaches: with
   the n-th hook seeing gap id n - 2, "sent" counts the blocks queued after
   n hooks and ends at all of them. *)
SentByHook(sent) ==
    /\ sent \in [0 .. HooksPerIter -> 0 .. TotalBlocks]
    /\ sent[0] = 0
    /\ \A n \in 0 .. HooksPerIter - 1 :
           sent[n + 1] = sent[n] + (IF n - 1 \in DOMAIN Strategy
                                      THEN BlocksToSend(sent[n], Strategy[n - 1])
                                      ELSE 0)
    /\ sent[HooksPerIter] = TotalBlocks

StrategyCovers == \E sent \in [0 .. HooksPerIter -> 0 .. TotalBlocks] : SentByHook(sent)

(* While a rank does not turn to another version, no receive is aimed at
   the version a failure would be recovered from, and none of its blocks
   in CPU memory is written to but by the copies that were late for the
   turn: they are done before the next iteration, and there are none when
   the device is synchronized between the exchange and the turn (naive). *)
KeepsLatest ==
    \A r \in Ranks : snapshot_current_version'[r] = snapshot_current_version[r] =>
        /\ LatestReceived(r)' = LatestReceived(r)
        /\ Mode = "naive" \/ phase[r] \in {"train", "apply", "update"}
              => LatestCopy(r)' = LatestCopy(r)
LatestIsStable == [][KeepsLatest]_vars

(* When a machine is lost, the peer of each of its ranks is not; and while
   the peer's process lives, then, unless the rank had not trained two
   steps since the buffers were set up, the peer's latest version is the
   whole state of the lost rank, at most two optimizer steps old: received,
   and in CPU memory but for the blocks in doubt. *)
LossIsCovered ==
    \A r \in Ranks :
        LET q == GetPeerRank(r)
        IN  phase[r] = "crashed" =>
              /\ phase[q] # "crashed"
              /\ (/\ have_set_snapshot_strategy[r]
                  /\ live[r] >= saved_dicts[r][0].step + 2
                  /\ phase[q] # "exited")
                 => /\ IsCopyOf(LatestReceived(q), r)
                    /\ live[r] - LatestReceived(q)[0].step \in 0 .. 2
                    /\ KeepsReceived(q)

(* The checkpoint of rank r as its peer received it: its step, 0 while the
   peer still has its own state there, -1 when it is of no single step;
   and whether the peer's CPU memory holds it whole. *)
PeerOf == [r \in Ranks |-> GetPeerRank(r)]
CopyStep(r) ==
    LET q == PeerOf[r]
    IN  IF IsCopyOf(LatestReceived(q), r) THEN LatestReceived(q)[0].step
        ELSE IF IsCopyOf(LatestReceived(q), q) THEN 0
        ELSE -1
Kept(r) == LatestCopy(PeerOf[r]) = LatestReceived(PeerOf[r])

Store == INSTANCE CheckpointStore
           WITH copy <- [r \in Ranks |-> CopyStep(r)],
                kept <- [r \in Ranks |-> Kept(r)], MaxLag <- 2,
                FirstBy <- IF Mode = "naive" THEN 2 ELSE ProfileSteps + 2

(* Versions, blocks, gaps, buffers and streams together implement the
   store: the checkpoint of a rank only ever changes to a complete newer
   one, the first is there two steps after the buffers are set up,
   training is never more than two steps ahead, and a checkpoint that is
   whole in the peer's CPU memory stays so until the next one. *)
ImplementsStore == Store!Spec

(* The paired transfers never block the peers on each other: every
   iteration ends and every rank writes its files, or else a fault stopped
   one of them before its last iteration. *)
Stopped(r) ==
    \/ phase[r] = "crashed"
    \/ phase[r] \in {"exiting", "exited"} /\ iter[r] < MaxIter
EveryRankSaves ==
    <>((\A r \in Ranks : phase[r] = "exited") \/ (\E r \in Ranks : Stopped(r)))
=============================================================================
