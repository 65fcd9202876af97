-------------------------- MODULE CheckpointStore --------------------------
(***************************************************************************)
(* What in-memory checkpointing promises, without versions, blocks, gaps,  *)
(* buffers or streams: for every rank there is one checkpoint of its state *)
(* at some step, replaced atomically by newer and newer ones.  Training    *)
(* takes at most FirstBy steps without one, and from then on it never gets *)
(* more than MaxLag steps ahead of it.  It is not promised that the memory *)
(* of the peer holds what was received: a checkpoint may be whole there at *)
(* once, later or never, but once whole it stays so until it is replaced.  *)
(***************************************************************************)
EXTENDS Integers

CONSTANTS
    Ranks,
    FirstBy,    \* steps a rank may take without a checkpoint, at least 1
    MaxLag      \* steps a rank may be ahead of its checkpoint, at least 1

VARIABLES
    live,    \* optimizer steps applied to the state of each rank
    copy,    \* the step of the rank's checkpoint, 0 while there is none
    kept     \* is the rank's checkpoint whole in the memory of its peer?

NoCopy == 0

Init ==
    /\ live = [r \in Ranks |-> 0]
    /\ copy = [r \in Ranks |-> NoCopy]
    /\ kept = [r \in Ranks |-> TRUE]

Train(r) ==
    /\ IF copy[r] = NoCopy THEN live[r] < FirstBy ELSE live[r] - copy[r] < MaxLag
    /\ live' = [live EXCEPT ![r] = @ + 1]
    /\ UNCHANGED <<copy, kept>>

Checkpoint(r) ==
    /\ \E s \in copy[r] + 1 .. live[r] : copy' = [copy EXCEPT ![r] = s]
    /\ \E whole \in BOOLEAN : kept' = [kept EXCEPT ![r] = whole]
    /\ UNCHANGED live

Keep(r) ==
    /\ ~kept[r]
    /\ kept' = [kept EXCEPT ![r] = TRUE]
    /\ UNCHANGED <<live, copy>>

Next == \E r \in Ranks : Train(r) \/ Checkpoint(r) \/ Keep(r)

Spec == Init /\ [][Next]_<<live, copy, kept>>

=============================================================================
