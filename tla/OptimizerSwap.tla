---------------------------- MODULE OptimizerSwap ----------------------------
(* ZeRO-3 with the optimizer on NVMe: one rank's PipelinedOptimizerSwapper,
   the gradient swapper that shares its write handle, the pool of pinned
   buffers both take from, and the threads of the two I/O handles.  The host
   thread partitions gradients during the backward pass and then updates one
   sub-group after another; while it updates one, the next may be read and the
   one before may be written.

   A tensor is the pair of the file it belongs to and the version it has: the
   number of updates for a state tensor, the batch for a piece of a gradient. *)
EXTENDS Integers, Sequences, FiniteSets, SequencesExt

CONSTANTS NumThreads,    \* threads of an I/O handle, aio_config["thread_count"]
          NumGroups,     \* sub-groups of the optimizer
          NumStates,     \* state tensors of a sub-group, the parameter first
          NumPieces,     \* pieces of a sub-group's gradient
          Configs        \* the settings to explore

(* The asynchronous I/O handle (csrc/aio/py_lib): a request is queued at every
   thread of the handle, each thread transfers its own share of the bytes, and
   wait() takes one completion of every thread for each request that is
   pending. *)
Threads == 1..NumThreads

NewHandle == [work    |-> [t \in Threads |-> << >>],
              done    |-> [t \in Threads |-> 0],
              pending |-> 0]

(* _schedule_aio_work for each of a sequence of requests. *)
Submit(h, requests) ==
  [h EXCEPT !.work = [t \in Threads |-> h.work[t] \o requests],
            !.pending = @ + Len(requests)]

(* A thread has transferred its share of the request at the head of its queue. *)
Ran(h, t) == [h EXCEPT !.work[t] = Tail(@), !.done[t] = @ + 1]

(* wait() can return: _wait_for_aio_work finds a completion at every thread
   for each pending request. *)
FirstThreadIsDone(h) == h.done[1] >= h.pending                     \* a mistake
OneMoreIsDone(h) == \A t \in Threads : h.done[t] > h.pending       \* a mistake
WaitReturns(h) == \A t \in Threads : h.done[t] >= h.pending

(* The handle after wait(); the number wait() returns is h.pending before. *)
Waited(h) == [h EXCEPT !.done = [t \in Threads |-> h.done[t] - h.pending],
                       !.pending = 0]

(* The requests that some thread has not transferred yet, with the thread. *)
Unfinished(h) ==
  UNION {{<<t, h.work[t][i]>> : i \in DOMAIN h.work[t]} : t \in Threads}

------------------------------------------------------------------------------
Groups == 1..NumGroups
States == 1..NumStates
Pieces == 1..NumPieces

(* The sub-groups the swapper has in its buffers at once: the one that is
   updated, with pipeline_read the next one, with pipeline_write the last one. *)
InBuffers(c) == LET wanted == 1 + (IF c.read THEN 1 ELSE 0)
                                + (IF c.write THEN 1 ELSE 0)
                    there == Cardinality(c.swappable)
                IN  IF wanted < there THEN wanted ELSE there

(* swappable: the sub-groups that are kept on NVMe; large: the pieces that go
   to a file of their own; buffers: buffer_count; batches: a bound. *)
ConfigOK(c) == /\ c.swappable \in (SUBSET Groups) \ {{}}
               /\ c.large \in SUBSET (Groups \X Pieces)
               /\ c.read \in BOOLEAN /\ c.write \in BOOLEAN
               /\ c.read \/ c.write
               /\ c.buffers \in Nat
               /\ c.buffers >= (NumStates + 1) * InBuffers(c)
               /\ c.batches \in Nat

ASSUME SwapAssumption ==
  /\ {NumThreads, NumGroups, NumStates, NumPieces} \subseteq Nat \ {0}
  /\ \A c \in Configs : ConfigOK(c)

StateFile(g, k) == <<"state", g, k>>
GradFile(g, p) == <<"gradient", g, p>>
Files == {StateFile(g, k) : g \in Groups, k \in States}
           \cup {GradFile(g, p) : g \in Groups, p \in Pieces}
NoFile == <<"none", 0, 0>>
Nothing == <<NoFile, 0>>

VARIABLES
  cfg,        \* the setting of this execution
  at,         \* where the host thread is
  group,      \* the sub-group it works on
  batch,      \* the batch, 0 while the optimizer states are initialised
  arrived,    \* the pieces of the gradient partitioned in this batch
  updates,    \* per sub-group, the updates so far
  free,       \* SwapBufferManager.free_buffer_index
  grads,      \* the AsyncTensorSwapper of the gradients
  info,       \* swap_params_info
  ops,        \* swap_ops
  reads,      \* read_aio_handle
  writes,     \* write_aio_handle
  memory,     \* the pinned buffers: per buffer, piece and thread a tensor
  disk,       \* the files: per file and thread a tensor
  raised      \* an assertion failed

vars == <<cfg, at, group, batch, arrived, updates, free, grads, info, ops,
          reads, writes, memory, disk, raised>>

Buffers == 1..cfg.buffers
None == [group |-> 0, buffers |-> << >>, states |-> << >>, count |-> 0]

Init ==
  /\ cfg \in Configs
  /\ at = "swap_in" /\ batch = 0 /\ arrived = {} /\ raised = FALSE
  /\ group \in cfg.swappable /\ \A g \in cfg.swappable : group <= g
  /\ updates = [g \in Groups |-> 0]
  /\ free = [i \in Buffers |-> i]
  /\ grads = [all |-> << >>, free |-> << >>, swapping |-> << >>, current |-> 0,
              fill |-> [b \in Buffers |-> << >>], pending |-> 0, next |-> NoFile]
  /\ info = [g \in Groups |-> [tensors |-> 1, swapped |-> {}, unswapped |-> {}]]
  /\ ops = [sync_in |-> None, async_in |-> None,
            sync_out |-> None, async_out |-> None]
  /\ reads = NewHandle /\ writes = NewHandle
  /\ memory = [b \in Buffers |-> [p \in Pieces |-> [t \in Threads |-> Nothing]]]
  /\ disk = [f \in Files |-> [t \in Threads |->
               IF f[1] = "state" /\ f[3] = 1 THEN <<f, 0>> ELSE Nothing]]

-----------------------------------------------------------------------------
(* The pool of buffers: the last ones are allocated, freed ones are appended. *)
CanAllocate(pool, n) == n <= Len(pool)
Allocated(pool, n) == SubSeq(pool, Len(pool) - n + 1, Len(pool))
Remaining(pool, n) == SubSeq(pool, 1, Len(pool) - n)
Freed(pool, buffers) == pool \o buffers

Request(isRead, b, pieces, f) ==
  [read |-> isRead, buffer |-> b, pieces |-> pieces, file |-> f]

Filled(mem, b, pieces, value) ==
  [mem EXCEPT ![b] = [p \in Pieces |-> IF p \in pieces
                                       THEN [t \in Threads |-> value] ELSE @[p]]]

(* A thread of a handle transfers its share of the next request. *)
Transfer(h, t) ==
  LET r == Head(h.work[t])
      source == {memory[r.buffer][p][t] : p \in r.pieces}
  IN  IF r.read
      THEN /\ memory' = [memory EXCEPT ![r.buffer] = [p \in Pieces |->
                           IF p \in r.pieces THEN [@[p] EXCEPT ![t] = disk[r.file][t]]
                                             ELSE @[p]]]
           /\ UNCHANGED disk
      ELSE /\ disk' = [disk EXCEPT ![r.file][t] =
                         IF Cardinality(source) = 1
                         THEN CHOOSE v \in source : TRUE ELSE Nothing]
           /\ UNCHANGED memory

ReadThread(t) ==
  /\ reads.work[t] # << >>
  /\ Transfer(reads, t)
  /\ reads' = Ran(reads, t)
  /\ UNCHANGED <<cfg, at, group, batch, arrived, updates, free, grads, info, ops,
                 writes, raised>>

WriteThread(t) ==
  /\ writes.work[t] # << >>
  /\ Transfer(writes, t)
  /\ writes' = Ran(writes, t)
  /\ UNCHANGED <<cfg, at, group, batch, arrived, updates, free, grads, info, ops,
                 reads, raised>>

-----------------------------------------------------------------------------
(* The gradient swapper. *)
HasBuffers == grads.all # << >>
HasSpace(s) == Len(s.fill[s.current]) < NumPieces
NextBuffer(s) == [s EXCEPT !.current = Last(s.free), !.free = Front(@)]

(* _swap_out_ready_buffers for the current buffer. *)
WritesOf(s) ==
  [i \in 1..Len(s.fill[s.current]) |->
     Request(FALSE, s.current, {i}, s.fill[s.current][i])]
FreedAtOnce(s) == [s EXCEPT !.free = Append(@, s.current), !.current = 0,
                            !.pending = @ + Len(s.fill[s.current])]  \* a mistake
Flushed(s) == [s EXCEPT !.swapping = Append(@, s.current), !.current = 0,
                        !.pending = @ + Len(s.fill[s.current])]

(* _wait_for_swap_complete, after the handle's wait has returned. *)
SwapComplete(s) == [s EXCEPT !.free = @ \o s.swapping, !.swapping = << >>,
                             !.pending = 0,
                             !.fill = [b \in DOMAIN @ |-> << >>]]

(* SwapBuffer.insert_tensor of the gradient that has just arrived. *)
Insert(s, f) ==
  /\ grads' = [s EXCEPT !.fill[s.current] = Append(@, f)]
  /\ memory' = Filled(memory, s.current, {Len(s.fill[s.current]) + 1}, <<f, batch>>)

(* swap_out_gradients for a piece that is too small for a file. *)
KeepGradient(g, p) ==
  /\ at = "backward" /\ batch <= cfg.batches /\ ~raised
  /\ <<g, p>> \notin arrived \cup cfg.large
  /\ arrived' = arrived \cup {<<g, p>>}
  /\ info' = [info EXCEPT ![g].unswapped =
                {v \in @ : v[1] # GradFile(g, p)} \cup {<<GradFile(g, p), batch>>}]
  /\ UNCHANGED <<cfg, at, group, batch, updates, free, grads, ops, reads, writes,
                 memory, disk, raised>>

(* swap_out_gradients for a piece that goes to a file: the first of a step
   takes every free buffer.  A full buffer is written while another is filled;
   when none is left the host waits for all of them. *)
SwapOutGradient(g, p) ==
  LET f == GradFile(g, p)
      s == IF HasBuffers THEN grads
           ELSE [grads EXCEPT !.all = free, !.free = free]
  IN  /\ at = "backward" /\ batch <= cfg.batches /\ ~raised
      /\ <<g, p>> \in cfg.large \ arrived
      /\ arrived' = arrived \cup {<<g, p>>}
      /\ info' = [info EXCEPT ![g].swapped = @ \cup {p}]
      /\ free' = IF HasBuffers THEN free ELSE << >>
      /\ \/ /\ s.current = 0
            /\ Insert(NextBuffer(s), f)
            /\ UNCHANGED <<at, writes>>
         \/ /\ s.current # 0 /\ HasSpace(s)
            /\ Insert(s, f)
            /\ UNCHANGED <<at, writes>>
         \/ /\ s.current # 0 /\ ~HasSpace(s) /\ s.free # << >>
            /\ writes' = Submit(writes, WritesOf(s))
            /\ Insert(NextBuffer(Flushed(s)), f)
            /\ UNCHANGED at
         \/ /\ s.current # 0 /\ ~HasSpace(s) /\ s.free = << >>
            /\ writes' = Submit(writes, WritesOf(s))
            /\ grads' = [Flushed(s) EXCEPT !.next = f]
            /\ at' = "no_space"
            /\ UNCHANGED memory
      /\ UNCHANGED <<cfg, group, batch, updates, ops, reads, disk, raised>>

(* The wait for the gradient swapper's writes; wait() on the shared handle
   counts every request, the swapper only its own. *)
GradientsAreWritten ==
  /\ WaitReturns(writes)
  /\ writes' = Waited(writes)
  /\ raised' = (writes.pending # grads.pending)

MakeSpace ==
  /\ at = "no_space" /\ ~raised
  /\ GradientsAreWritten
  /\ Insert([NextBuffer(SwapComplete(grads)) EXCEPT !.next = NoFile], grads.next)
  /\ at' = "backward"
  /\ UNCHANGED <<cfg, group, batch, arrived, updates, free, info, ops, reads, disk>>

(* Every piece has arrived: an overflow skips the step, the buffers stay with
   the gradient swapper; otherwise the sub-groups are updated in order. *)
BackwardIsOver == at = "backward" /\ batch <= cfg.batches /\ ~raised
                  /\ arrived = cfg.swappable \X Pieces

Overflow ==
  /\ BackwardIsOver
  /\ batch' = batch + 1 /\ arrived' = {}
  /\ UNCHANGED <<cfg, at, group, updates, free, grads, info, ops, reads, writes,
                 memory, disk, raised>>

Following(g) == {h \in cfg.swappable : h > g}
First(S) == CHOOSE g \in S : \A h \in S : g <= h

StepBegins ==
  /\ BackwardIsOver
  /\ at' = "swap_in" /\ group' = First(cfg.swappable)
  /\ UNCHANGED <<cfg, batch, arrived, updates, free, grads, info, ops, reads,
                 writes, memory, disk, raised>>

-----------------------------------------------------------------------------
(* swap_in_optimizer_state. *)

(* _flush_gradient_swapper *)
FlushGradients ==
  /\ at = "swap_in" /\ ~raised /\ HasBuffers
  /\ writes' = IF grads.current = 0 THEN writes ELSE Submit(writes, WritesOf(grads))
  /\ grads' = IF grads.current = 0 THEN grads ELSE Flushed(grads)
  /\ at' = "flush"
  /\ UNCHANGED <<cfg, group, batch, arrived, updates, free, info, ops, reads,
                 memory, disk, raised>>

ReleaseBuffers ==
  /\ at = "flush" /\ ~raised
  /\ GradientsAreWritten
  /\ free' = Freed(free, grads.all)
  /\ grads' = [SwapComplete(grads) EXCEPT !.all = << >>, !.free = << >>]
  /\ at' = "swap_in"
  /\ UNCHANGED <<cfg, group, batch, arrived, updates, info, ops, reads, memory, disk>>

(* _swap_in_optimizer_state: the states of a sub-group and the pieces of its
   gradient are requested, the pieces kept in memory are copied. *)
HasGradients(g) == info[g].swapped # {} \/ info[g].unswapped # {}
ReadCount(g) == info[g].tensors + (IF HasGradients(g) THEN 1 ELSE 0)

ReadsFor(g, bs) ==
  [k \in 1..info[g].tensors |-> Request(TRUE, bs[k], Pieces, StateFile(g, k))]
    \o SetToSeq({Request(TRUE, Last(bs), {p}, GradFile(g, p)) : p \in info[g].swapped})

CopiedInto(g, b) ==
  [memory EXCEPT ![b] = [p \in Pieces |->
     LET kept == {v \in info[g].unswapped : v[1] = GradFile(g, p)}
     IN  IF kept = {} THEN @[p]
         ELSE [t \in Threads |-> CHOOSE v \in kept : TRUE]]]

SwapIn(g, held, slot) ==
  LET bs == Allocated(free, ReadCount(g)) IN
  /\ CanAllocate(free, ReadCount(g))
  /\ free' = Remaining(free, ReadCount(g))
  /\ memory' = CopiedInto(g, Last(bs))
  /\ info' = [info EXCEPT ![g].unswapped = {}]
  /\ ops' = [held EXCEPT ![slot] =
               [group |-> g, buffers |-> bs,
                states |-> SubSeq(bs, 1, info[g].tensors),
                count |-> Len(ReadsFor(g, bs))]]

BeginSwapIn ==
  /\ at = "swap_in" /\ ~raised /\ ~HasBuffers
  /\ IF ops.async_in # None
     THEN /\ raised' = (ops.async_in.group # group \/ ops.sync_in # None)
          /\ ops' = [ops EXCEPT !.sync_in = ops.async_in, !.async_in = None]
          /\ UNCHANGED <<free, info, reads, memory>>
     ELSE IF CanAllocate(free, ReadCount(group)) /\ ops.sync_in = None
     THEN /\ SwapIn(group, ops, "sync_in")
          /\ reads' = Submit(reads, ReadsFor(group, Allocated(free, ReadCount(group))))
          /\ UNCHANGED raised
     ELSE /\ raised' = TRUE
          /\ UNCHANGED <<free, info, ops, reads, memory>>
  /\ at' = "wait_in"
  /\ UNCHANGED <<cfg, group, batch, arrived, updates, grads, writes, disk>>

(* The sub-group has been read; with pipeline_read the next one is requested. *)
EndSwapIn ==
  /\ at = "wait_in" /\ ~raised
  /\ WaitReturns(reads)
  /\ LET next == First(Following(group)) IN
     IF reads.pending # ops.sync_in.count
     THEN /\ raised' = TRUE
          /\ UNCHANGED <<free, info, ops, reads, memory>>
     ELSE IF ~cfg.read \/ Following(group) = {}
     THEN /\ reads' = Waited(reads)
          /\ UNCHANGED <<free, info, ops, memory, raised>>
     ELSE IF CanAllocate(free, ReadCount(next)) /\ ops.async_in = None
     THEN /\ SwapIn(next, ops, "async_in")
          /\ reads' = Submit(Waited(reads),
                             ReadsFor(next, Allocated(free, ReadCount(next))))
          /\ UNCHANGED raised
     ELSE /\ raised' = TRUE
          /\ UNCHANGED <<free, info, ops, reads, memory>>
  /\ at' = "update"
  /\ UNCHANGED <<cfg, group, batch, arrived, updates, grads, writes, disk>>

(* _optimizer_step *)
OptimizerStep ==
  /\ at = "update" /\ ~raised
  /\ updates' = [updates EXCEPT ![group] = @ + 1]
  /\ memory' = [b \in Buffers |->
       IF \E k \in DOMAIN ops.sync_in.states : ops.sync_in.states[k] = b
       THEN LET k == CHOOSE k \in DOMAIN ops.sync_in.states : ops.sync_in.states[k] = b
            IN  Filled(memory, b, Pieces, <<StateFile(group, k), updates[group] + 1>>)[b]
       ELSE memory[b]]
  /\ at' = "swap_out"
  /\ UNCHANGED <<cfg, group, batch, arrived, free, grads, info, ops, reads, writes,
                 disk, raised>>

-----------------------------------------------------------------------------
(* swap_out_optimizer_state. *)

(* After the last sub-group the step, or the initialisation, is over. *)
NextGroup ==
  IF Following(group) # {}
  THEN /\ group' = First(Following(group)) /\ at' = "swap_in"
       /\ UNCHANGED <<batch, arrived>>
  ELSE /\ at' = "backward" /\ batch' = batch + 1 /\ arrived' = {}
       /\ UNCHANGED group

(* The write is completed by the next swap_out, except the last one of a step. *)
Deferred(g) == cfg.write /\ Following(g) # {}

(* The buffers to free after the write: those of the states and the gradient,
   and the new ones. *)
OutBuffers(op, new) == op.buffers \o new

(* The write of the previous sub-group is completed first.  The states the
   optimizer has just created are not pinned: they are copied to new buffers. *)
SwapOut ==
  LET before == ops.async_out
      pool == Freed(free, before.buffers)
      new == NumStates - info[group].tensors
      bs == ops.sync_in.states \o Allocated(pool, new)
      op == [group |-> group, states |-> bs, count |-> Len(bs),
             buffers |-> OutBuffers(ops.sync_in, Allocated(pool, new))]
      waited == IF before = None THEN writes ELSE Waited(writes)
  IN  /\ at = "swap_out" /\ ~raised
      /\ before # None => WaitReturns(writes)
      /\ IF \/ before # None /\ writes.pending # before.count
            \/ ops.sync_in.group # group
            \/ ~CanAllocate(pool, new)
         THEN /\ raised' = TRUE
              /\ UNCHANGED <<at, group, batch, arrived, free, info, ops, writes, memory>>
         ELSE /\ free' = Remaining(pool, new)
              /\ info' = [info EXCEPT ![group].tensors = NumStates]
              /\ memory' = [b \in Buffers |->
                   IF \E k \in DOMAIN bs : k > info[group].tensors /\ bs[k] = b
                   THEN LET k == CHOOSE k \in DOMAIN bs : bs[k] = b
                        IN  Filled(memory, b, Pieces, <<StateFile(group, k), updates[group]>>)[b]
                   ELSE memory[b]]
              /\ writes' = Submit(waited, [k \in States |->
                             Request(FALSE, bs[k], Pieces, StateFile(group, k))])
              /\ ops' = [ops EXCEPT !.sync_in = None,
                                    !.async_out = IF Deferred(group) THEN op ELSE None,
                                    !.sync_out = IF Deferred(group) THEN None ELSE op]
              /\ UNCHANGED raised
              /\ IF Deferred(group) THEN NextGroup
                 ELSE at' = "wait_out" /\ UNCHANGED <<group, batch, arrived>>
      /\ UNCHANGED <<cfg, updates, grads, reads, disk>>

(* _complete_swap_out of a write that is not deferred. *)
CompleteSwapOut ==
  /\ at = "wait_out" /\ ~raised
  /\ WaitReturns(writes)
  /\ raised' = (writes.pending # ops.sync_out.count)
  /\ writes' = Waited(writes)
  /\ free' = Freed(free, ops.sync_out.buffers)
  /\ ops' = [ops EXCEPT !.sync_out = None]
  /\ NextGroup
  /\ UNCHANGED <<cfg, updates, grads, info, reads, memory, disk>>

Host ==
  \/ \E g \in cfg.swappable, p \in Pieces : KeepGradient(g, p) \/ SwapOutGradient(g, p)
  \/ MakeSpace \/ Overflow \/ StepBegins \/ FlushGradients \/ ReleaseBuffers
  \/ BeginSwapIn \/ EndSwapIn \/ OptimizerStep \/ SwapOut \/ CompleteSwapOut

Next == Host \/ \E t \in Threads : ReadThread(t) \/ WriteThread(t)

Spec == Init /\ [][Next]_vars
          /\ WF_vars(Host)
          /\ \A t \in Threads : WF_vars(ReadThread(t)) /\ WF_vars(WriteThread(t))

-----------------------------------------------------------------------------
Held(op) == ToSet(op.buffers)
HeldBy == <<ToSet(free), ToSet(grads.all), Held(ops.sync_in), Held(ops.async_in),
            Held(ops.sync_out), Held(ops.async_out)>>

(* The optimizer updates a sub-group with its own newest states and with the
   whole gradient of the batch: no read has overtaken the write of the step
   before, no skipped batch left its gradient behind, no buffer was given to
   someone else while it was filled.  Between two steps the files hold the
   newest states: the last write is never deferred past the end of the step. *)
NewestStatesAreUsed ==
  /\ at = "update" /\ ~raised =>
       /\ \A k \in DOMAIN ops.sync_in.states, p \in Pieces, t \in Threads :
            memory[ops.sync_in.states[k]][p][t] = <<StateFile(group, k), updates[group]>>
       /\ batch > 0 => \A p \in Pieces, t \in Threads :
            memory[Last(ops.sync_in.buffers)][p][t] = <<GradFile(group, p), batch>>
  /\ at = "backward" => \A g \in cfg.swappable, k \in States, t \in Threads :
                           disk[StateFile(g, k)][t] = <<StateFile(g, k), updates[g]>>

(* No assertion of the swappers fails: the pool has the buffers a sub-group
   needs however reads and writes overlap, and every wait finds exactly the
   requests its caller counted although gradients and states share a handle.
   Every buffer has one owner: it is free, with the gradient swapper, or held
   by one swap operation.  And one whose write has not reached every thread
   still holds the tensor that is to be written, and nobody can be given it. *)
BuffersAreKept ==
  /\ ~raised
  /\ UNION {HeldBy[i] : i \in DOMAIN HeldBy} = Buffers
  /\ \A i, j \in DOMAIN HeldBy : i # j => HeldBy[i] \cap HeldBy[j] = {}
  /\ \A tr \in Unfinished(writes) :
       /\ \A p \in tr[2].pieces : memory[tr[2].buffer][p][tr[1]][1] = tr[2].file
       /\ tr[2].buffer \notin ToSet(free) \cup ToSet(grads.free)

(* A step that has begun ends: no wait of the host is for a request that the
   threads will not complete. *)
EveryStepEnds == at # "backward" ~> at = "backward"
==============================================================================
