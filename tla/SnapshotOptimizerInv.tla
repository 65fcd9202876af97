----------------------- MODULE SnapshotOptimizerInv ------------------------
(***************************************************************************)
(* The inductive invariants behind LatestIsComplete, LatestIsStable,       *)
(* ImplementsStore and LossIsCovered.  "sent" counts the blocks a covering *)
(* strategy has issued after each hook (SentByHook).                       *)
(***************************************************************************)
EXTENDS SnapshotOptimizer

(* The blocks of the current version that have arrived. *)
Received(r) == cur_block_id[r] - Len(queue[r])

CurrentReceived(r) == received[r][snapshot_current_version[r]]

AtStep(r) == phase[r] \in {"apply", "update"}

(* The queue holds the blocks between the received ones and cur_block_id,
   in order, all aimed at the current version. *)
QueueInOrder(r) ==
    /\ Received(r) >= 0
    /\ queue[r] = TransfersOf(Received(r), Len(queue[r]), snapshot_current_version[r])

(* Before the strategy is set the buffers are those of the start. *)
IdleBeforeStrategy(r) ==
    ~have_set_snapshot_strategy[r] =>
        /\ cur_block_id[r] = 0
        /\ queue[r] = << >>
        /\ \A v \in Versions : IsCopyOf(received[r][v], r)

(* Hooks stay on schedule: the gap id and the blocks queued are those of
   the hook count, unless an overflow follows a finished exchange. *)
OnSchedule(r, sent) ==
    have_set_snapshot_strategy[r] =>
        /\ Mode = "naive" => cur_block_id[r] = TotalBlocks
        /\ phase[r] = "train" =>
              \/ cur_block_id[r] = TotalBlocks
              \/ comm_gap_id[r] = hook[r] - 1 /\ cur_block_id[r] = sent[hook[r]]
        /\ phase[r] = "sync" =>
              \/ cur_block_id[r] = TotalBlocks
              \/ comm_gap_id[r] = -1 /\ cur_block_id[r] = sent[0]
        /\ AtStep(r) => cur_block_id[r] = TotalBlocks

(* x has not turned to the next version yet although y has: nothing can be
   exchanged before it does. *)
Behind(x, y) ==
    /\ snapshot_current_version[x] # snapshot_current_version[y]
    /\ queue[x] = << >>
    /\ Received(y) = 0
    /\ phase[x] \notin {"train", "sync"}
    /\ ~AtStep(y)

(* Peers have turned to the same version and received the same blocks, or
   one of them is behind. *)
InStep(r, p) ==
    \/ /\ snapshot_current_version[r] = snapshot_current_version[p]
       /\ Received(r) = Received(p)
       /\ AtStep(r) => /\ queue[r] = << >> /\ queue[p] = << >>
                       /\ phase[p] \notin {"train", "sync"}
    \/ Behind(r, p)
    \/ Behind(p, r)

(* The received blocks of the current version are of the peer, in place,
   and of one step: the peer's present one while more are to come. *)
ReceivedInPlace(r, p) ==
    /\ \A b \in Blocks : b < Received(r) =>
           CurrentReceived(r)[b] = [rank |-> p, step |-> CurrentReceived(r)[0].step, block |-> b]
    /\ 0 < Received(r) /\ Received(r) < TotalBlocks =>
           CurrentReceived(r)[0].step = live[p]

LatestArrived ==
    \A r \in Ranks : \/ IsCopyOf(LatestReceived(r), GetPeerRank(r))
                     \/ IsCopyOf(LatestReceived(r), r)

IInv(sent) ==
    /\ TypeOK
    /\ \A r \in Ranks :
          /\ QueueInOrder(r)
          /\ IdleBeforeStrategy(r)
          /\ OnSchedule(r, sent)
          /\ InStep(r, GetPeerRank(r))
          /\ ReceivedInPlace(r, GetPeerRank(r))
    /\ LatestArrived

(* The copy stream: the blocks of the current version it has copied. *)
Copied(r) == cur_block_id[r] - Len(copies[r])

CurrentCopy(r) == tensor_blocks[r][snapshot_current_version[r]]

(* The copies that are left are of the current version, in order; or of
   the latest one, its last blocks, between the turn and the end of the
   iteration. *)
InTurn(r) ==
    /\ Copied(r) >= 0
    /\ copies[r] = TransfersOf(Copied(r), Len(copies[r]), snapshot_current_version[r])

Late(r) ==
    /\ Mode = "interleave"
    /\ have_set_snapshot_strategy[r]
    /\ phase[r] \notin {"train", "apply", "update"}
    /\ cur_block_id[r] = 0 /\ queue[r] = << >>
    /\ Len(copies[r]) \in 1 .. TotalBlocks
    /\ copies[r] = TransfersOf(TotalBlocks - Len(copies[r]), Len(copies[r]),
                               LatestCompletedSnapshotVersion(r))

CopiesInOrder(r) ==
    /\ InTurn(r) \/ Late(r)
    /\ Mode = "naive" /\ phase[r] \in {"train", "apply", "update"} => copies[r] = << >>
    /\ ~have_set_snapshot_strategy[r] =>
          copies[r] = << >> /\ tensor_blocks[r] = received[r]

(* The last two blocks received are in the GPU buffers: the block that has
   k operations, its own included, behind it in the order of issue. *)
BuffersHold(r) ==
    /\ \A k \in 1 .. cur_block_id[r] :
           k - Len(queue[r]) \in {1, 2} =>
               gpu[r][BufferOf(r, k)] = CurrentReceived(r)[cur_block_id[r] - k]
    /\ Late(r) => \A k \in 1 .. Len(copies[r]) :
           k \in {1, 2} => gpu[r][BufferOf(r, k)] = LatestReceived(r)[TotalBlocks - k]

(* What has been copied of the current version is what was received, or
   known to be out of time, as all is that was copied before it came. *)
CopiedHeld(r) ==
    \A b \in Blocks : b < Copied(r) =>
        \/ [version |-> snapshot_current_version[r], block |-> b] \in spoilt[r]
        \/ b < Received(r) /\ CurrentCopy(r)[b] = CurrentReceived(r)[b]

Streams(r) == CopiesInOrder(r) /\ BuffersHold(r) /\ CopiedHeld(r) /\ KeepsReceived(r)

StreamInv == \A r \in Ranks : Streams(r)

(* Rounds: a round begins when an overflow check lets the ranks take their
   step n + 1, and each rank in it takes the step and then turns to the
   next version.  The version says whether it has: it is the number of
   updates modulo two. *)
Updated(r, n) == snapshot_current_version[r] = (n + 1) % 2
Updates(r, n) == IF Updated(r, n) THEN n + 1 ELSE n

InRound(r, n) ==
    /\ live[r] \in {n, n + 1}
    /\ Updated(r, n) => live[r] = n + 1
    /\ ~Updated(r, n) => queue[r] = << >> /\ n >= 0
    /\ phase[r] \in {"train", "sync"} => Updated(r, n)
    /\ phase[r] = "apply" => live[r] = n /\ ~Updated(r, n)
    /\ phase[r] = "update" => live[r] = n + 1 /\ ~Updated(r, n)

(* The step at which a rank has set up its buffers. *)
SetAt(r) == saved_dicts[r][0].step
LastSetup == IF Mode = "naive" THEN 1 ELSE ProfileSteps + 1

(* After m updates the latest checkpoint is of step m - 1 of the peer, and
   what has been received since is of step m. *)
CopiesOfRound(r, m) ==
    /\ have_set_snapshot_strategy[r] =>
          /\ SetAt(r) \in 1 .. LastSetup /\ SetAt(r) <= m
          /\ m = SetAt(r) => IsCopyOf(LatestReceived(r), r)
          /\ m > SetAt(r) => /\ IsCopyOf(LatestReceived(r), GetPeerRank(r))
                             /\ LatestReceived(r)[0].step = m - 1
          /\ Received(r) > 0 => CurrentReceived(r)[0].step = m
    /\ ~have_set_snapshot_strategy[r] =>
          /\ m < LastSetup
          /\ phase[r] \in {"train", "apply", "update"} => m <= iter[r]
          /\ phase[r] = "sync" => m <= iter[r] + 1

(* After m updates, no block of the peer on r is of a later step than m;
   those still to be copied are older than what is to replace them. *)
OlderThan(c, r, m) == c.rank = GetPeerRank(r) => c.step < m

OldInRound(r, m) ==
    /\ \A i \in Buffers : OlderThan(gpu[r][i], r, m + 1)
    /\ \A v \in Versions, b \in Blocks : OlderThan(tensor_blocks[r][v][b], r, m + 1)
    /\ \A b \in Blocks : b >= Copied(r) => OlderThan(CurrentCopy(r)[b], r, m)
    /\ Late(r) =>
          /\ m > SetAt(r)
          /\ \A b \in Blocks : b >= TotalBlocks - Len(copies[r]) =>
                 OlderThan(LatestCopy(r)[b], r, m - 1)

OldInv(n) == \A r \in Ranks : OldInRound(r, Updates(r, n))

AgeInv(n) ==
    /\ n \in Nat \cup {-1}
    /\ \A r \in Ranks : InRound(r, n) /\ CopiesOfRound(r, Updates(r, n))

(* Nobody begins a round, or gets through a collective, while others are
   in another iteration. *)
NearIteration(r, q) ==
    iter[r] > iter[q] =>
        /\ iter[r] = iter[q] + 1
        /\ phase[r] \notin {"apply", "update", "sync"}
        /\ phase[r] = "train" => hook[r] = 0

(* All ranks set up their buffers in the same round. *)
Ready(r) == Mode = "interleave" => iter[r] >= ProfileSteps

SetUpTogether(r, q, n) ==
    /\ have_set_snapshot_strategy[r] /\ Updates(q, n) >= SetAt(r) =>
          have_set_snapshot_strategy[q] /\ SetAt(q) <= SetAt(r)
    /\ AtStep(q) =>
          /\ have_set_snapshot_strategy[r] /\ SetAt(r) = n + 1 => Ready(q)
          /\ ~have_set_snapshot_strategy[r] /\ Updated(r, n) => ~Ready(q)

OneMachineLost ==
    \A r, q \in Ranks :
        phase[r] = "crashed" /\ phase[q] = "crashed" => MachineOf(r) = MachineOf(q)

Near == \A r, q \in Ranks : NearIteration(r, q)
SetUp(n) == \A r, q \in Ranks : SetUpTogether(r, q, n)

LossInv(n) == Near /\ SetUp(n) /\ OneMachineLost
=============================================================================
