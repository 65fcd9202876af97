# Gemini in TLA+

Gemini (SOSP '23) adds in-memory checkpointing to DeepSpeed: every rank keeps
the optimizer state of a rank on another machine in its CPU memory, sends its
own there between the messages of training, and agents on the machines detect
failures and restart training. The code of Gemini proper is
`src/deepspeed/runtime/snapshot/`, with hooks in the ZeRO-3 optimizer and the
parameter coordinator; the rest of the repository is DeepSpeed, whose own
concurrent and stateful parts (pipeline, ZeRO, swapping, checkpoints on disk)
and planning algorithms are modelled too.

This directory specifies that code in TLA+, checks it with TLC on small
instances and proves theorems about it with TLAPS.

## Inventory

Paths are below `src/deepspeed/runtime/` unless they begin with `deepspeed/`,
`csrc/` or `examples/`.

| part | code | state | operations | interacts with |
|---|---|---|---|---|
| placement | `snapshot/snapshot_policy.py`, `snapshot_group.py` | groups of machines and of ranks, fixed | `get_group`, `get_peer_rank`, `get_machine_group` | asked by the optimizer and by recovery |
| in-memory checkpointing | `snapshot/snapshot_comm.py` | two versions of CPU blocks, current version, block and gap counters, strategy, two CUDA streams, bounce buffers | `update_local_optimizer_snapshot`, `remote_snapshot`, `snapshot`, `save_optimizer_snapshot_to_disk` | called by step and hooks; exchanges blocks with the peer |
| planner | `snapshot/snapshot_strategy.py` | the profile, the strategy | `extract_data`, `get_snapshot_strategy` | rank 0 plans, the result is broadcast |
| settings, profilers | `snapshot/snapshot_global_variables.py`, `snapshot_profiler.py` | global step, profiling mode, events of the last iteration | `set_global_step`, `profile_comm_time_gap` | training loop, hooks |
| training iteration | `zero/stage3.py`, `examples/GPT/pretrain_gpt.py` | live optimizer state, global step | hooks after collectives, overflow check, step, synchronize | all ranks, through collectives |
| parameter coordinator | `zero/partitioned_param_coordinator.py`, `zero/parameter_offload.py` | status and active modules of parameters, trace, fetch queue, registry of parameters in flight | `fetch_sub_module`, `release_sub_module`, `reset_step` | hooks of the modules; two coordinators, for training and evaluation, share the parameters |
| record and recovery | `snapshot/snapshot_record.py`, `snapshot_recover.py`, `boto3_agent.py` | files, lists of machines, host file | `write`, `recover_GPU_snapshot`, `diff_ips`, `update_hostfile` | MPI between two machines, AWS |
| worker agent | `snapshot/agent_etcd.py` | phase, root's last counter, fault count | heartbeat, watchdog of the root, vote, election | etcd, starts a root agent |
| root agent | `snapshot/root_agent_etcd.py` | counters of the agents, failed machines, fault count, phase | heartbeat, failure declaration, kill, replace, recover, restart | etcd, ssh, AWS |
| etcd client | `snapshot/etcd_client.py` | keys of etcd | read, write, folders, delete | agents |
| engine checkpoints | `engine.py` (`save_checkpoint`, `load_checkpoint`), `checkpoint_engine/` | files by tag, `latest`, step counters | save, load | all ranks, through barriers and the disk |
| pipeline | `pipe/schedule.py`, `pipe/engine.py`, `pipe/p2p.py` | step of the schedule, buffers, losses, gradients | instructions of a step | neighbours, by blocking sends and receives |
| ZeRO 1 and 2 | `zero/stage_1_and_2.py`, `fp16/loss_scaler.py` | buckets, accumulated and offloaded gradients, overflow flag, scale | hooks of gradients, reduction on its own stream, `step` | all ranks, through collectives |
| optimizer swapping | `swap_tensor/*.py`, `csrc/aio/py_lib/` | pool of pinned buffers, requests, operations of the threads | swap in, swap out, wait | host thread and I/O threads |
| kernels | `csrc/transformer/`, `csrc/quantization/`, `csrc/lamb/` | none, but the cache of inference | launches of a grid of threads | called by the layers, with sizes these compute |
| CPU optimizers | `csrc/adam/`, `csrc/adagrad/`, `csrc/includes/cpu_adam.h`, `deepspeed/ops/adam/cpu_adam.py` | steps and betas, two host buffers, two streams | `step`, `step_plus_copy` | ZeRO with CPU offload |
| planners of DeepSpeed | `utils.py`, `pipe/topology.py`, `deepspeed/elasticity/`, `deepspeed/checkpoint/`, `deepspeed/moe/`, `deepspeed/launcher/`, `config.py`, `lr_schedules.py`, `pipe/module.py`, `zero/tiling.py`, `zero/contiguous_memory_allocator.py`, `deepspeed/ops/sparse_attention/` | none, or some counters | pure functions | each rank computes them for itself |
| other | elastic agent, inference engine, compression, tuning, profiling | - | - | - |

What is hard in this code, and what makes each part correct:

* *In-memory checkpointing.* Peers run up to an update apart, transfers are
  matched by nothing but their order, and what is received passes through two
  GPU buffers to the CPU on a second stream that nothing orders. Correct means:
  the version that counts as completed was received whole and of one step, it
  is in CPU memory, nobody writes to it, it is never more than two steps old,
  and the transfers never leave the peers waiting for each other. The second of
  these the code does not ensure.
* *Planner.* It must not slow training down (nothing beyond what a gap
  carries) and must place all blocks if that can be done.
* *Agents.* Timeouts, late votes, crashes of agent, root and machine; no agent
  that runs may be restarted, training is restarted once for a failure, an
  agent that died comes back, and a root agent is replaced when, and only
  when, it is down.
* *Recovery.* Four lists of machines, of which three come from places that do
  not know ranks; a replacement must get the files of its own ranks, machines
  that did not fail must keep theirs, and all must restart from one iteration.
* *Checkpoints on disk.* A process may die between any two writes; what is
  loaded must be of one save, on all ranks.
* *Pipeline.* Blocking exchanges and formulas over parities: neighbours must
  never wait for each other, nor confuse micro-batches, shapes or buffers.
* *Parameter coordinator.* A parameter may be shared, prefetched, persistent;
  it must be there while a module that uses it runs, and gone later.
* *ZeRO 1 and 2.* Buckets that take turns with a reduction in progress, slices
  that cross partitions, an overflow seen by one rank in one micro-step.
* *Swapping.* Reads, updates and writes of different sub-groups overlap, in one
  pool of buffers and over counters that they share.

`PROJECT.json` lists every part with its status, and the hazards with the line
where each bites.

## Modules

| module | models |
|---|---|
| `GroupPolicy` | who exchanges checkpoints with whom |
| `SnapshotStrategy` | the planner as an operator |
| `SnapshotOptimizer` | checkpointing with its buffers and two streams, and the training iteration that drives it, on all ranks |
| `SnapshotOptimizerInv` | the inductive invariants |
| `SnapshotOptimizerProofs` | that the exchange is symmetric and leaves the machine, type correctness, the safety properties, and that `CheckpointStore` is implemented (TLAPS) |
| `CheckpointStore` | what checkpointing promises, implemented by `SnapshotOptimizer` |
| `MCSnapshotOptimizer` | strategies and instances for TLC |
| `AgentProtocol` | worker agents, root agents and etcd: heartbeats, watchdogs, votes, election, recovery; the inductive invariants, and the timing condition one of them needs |
| `AgentProtocolProofs` | type correctness, four properties under that condition, and that failures are noticed in time (TLAPS) |
| `RecoverSnapshot` | replacement of machines and recovery of their files; uses `GroupPolicy` |
| `RecoverSnapshotProofs` | nobody loads another's state; survivors keep their ranks; replaced machines are restored (TLAPS) |
| `EngineCheckpoint` | checkpoints of the engine on disk, with deaths and restarts |
| `EngineCheckpointProofs` | saves that returned are on disk, and one save is loaded by all (TLAPS) |
| `PipeSchedule`, `PipeEngine`, `MCPipeEngine` | the instructions of a stage; the stages that execute them; programs for TLC |
| `PipeEngineProofs` | neighbours agree on what they exchange and in which shape, batches are whole, buffers suffice (TLAPS) |
| `ParamCoordinator`, `MCParamCoordinator` | fetch, prefetch, release; models of modules for TLC |
| `ParamCoordinatorProofs` | active modules have their parameters, and no check of the coordinator fails (TLAPS) |
| `ZeroPartition`, `ZeroGradients`, `MCZeroGradients` | partitions and slices; the way of a gradient through them, with the loss scale; layouts for TLC |
| `ZeroGradientsProofs` | a step uses the gradients of its batch, is skipped for overflows only, each element goes to its owner, and the scale is earned (TLAPS) |
| `OptimizerSwap`, `MCOptimizerSwap` | the thread pool of an I/O handle and the pipelined swapper over two handles; settings for TLC |
| `OptimizerSwapProofs` | updates use the newest states and gradients, and buffers are enough and in one place each (TLAPS) |
| `ProcessTopology` | the grid of processes |
| `ZeroShards` | where the elements of parameters lie: flat groups of stages 1 and 2 saved, restored and consolidated; shards of stage 3 gathered, scattered and consolidated |
| `CheckpointReshape` | files read on another grid; weights merged or split for another number of ranks; the layers and files of a stage |
| `Launcher`, `MoE`, `TrainingSettings` | the processes of a job; slots, groups and files of experts; the sizes of a batch, elastic batch sizes and learning rates |
| `PipeModule` | layers split into stages and tiles; layers, tied modules, files and seeds of pipeline stages |
| `SparseLayout` | patterns of sparse attention |
| `ContiguousMemory` | the allocator that cuts tensors from one buffer and moves them |
| `ActivationCheckpoints` | functions called again in the backward pass: their arguments in partitions, on the CPU, in contiguous buffers, and the random numbers |
| `MCQuestions`, `MCSettings`, `MCModelParts` | how algorithms are asked; the questions about the modules of the five lines above |
| `TensorKernels` | kernels of training and inference that work element by element or move tensors: GELU, dropout, transforms, rotary embedding, the cache of keys and values |
| `RowKernels` | kernels that reduce rows: softmax, layer normalization and their gradients, quantizers, LAMB |
| `CpuOptimizers` | Adam and Adagrad on the CPU: tiles, buffers, copies to the GPU, steps of the bias correction |
| `MCKernels` | the questions about the kernels |
| `MCPlanners` | all planners, `SnapshotStrategy` included, on every small input: a behaviour asks a question and gets the answer |

### How SnapshotOptimizer corresponds to the code

A rank's host program is a cycle of phases: `train` (forward and backward, one
`CollectiveAndHook` per all-gather or reduce-scatter), `apply` and `update`
(`step()` after the overflow check: the state changes, then
`update_local_optimizer_snapshot`), `sync` (`torch.cuda.synchronize` and the
counting of the loop), and at the end `exiting` and `exited`.

* `queue[r]` is the communication stream: transfers issued and not done.
  `Exchange` takes the oldest transfer of two peers together, as the paired
  `isend`/`irecv` do, and delivers each block to a GPU buffer of the other
  side. What arrives is the state on the peer's GPU at that moment, since the
  tensors sent are views of the live state.
* `copies[r]` is the copy stream: `Copy` does the oldest copy, from whatever its
  GPU buffer holds by then to the block in CPU memory. The host issues a
  transfer and its copy together (`snapshot`), and the two buffers in turn
  (`BufferOf`). Nothing orders the two streams: a copy may run before its block
  is received, after the buffer was filled again, or after the rank has turned
  to the other version. Only `torch.cuda.synchronize`, at the end of an iteration
  and before a file is written, waits for both. `received` and `spoilt` are
  histories: what came from the network, and which blocks were last copied
  out of time.
* `Drifting` is a bound of the runs: the ranks whose streams drift apart. At
  the others each block is copied before the next is received. The theorems
  hold for every set of ranks.
* A block of memory is a record of whose state it is, of which step and which
  block, which is all that completeness and freshness need.
* A collective lets a rank go on when all ranks have launched it. That is the
  only thing, with the overflow check, that keeps ranks together.
* `OverflowCheck` is one action of all ranks: it is an all-reduce. It waits for
  the queues, because the streams of the gradients wait for the communication
  stream (`stream.wait_stream`).
* `UpdateLocalOptimizerSnapshot` is the whole method: it turns the version,
  sets the buffers up the first time (from the end of profiling on, in
  interleave mode), and queues all blocks in naive mode. The setup needs the
  broadcast of the plan: all ranks have the same plan (`StrategyOf`).
* `RemoteSnapshot` is what a rank writes for its peer: the dictionary loaded at
  start-up. The blocks that receive are views of what `pin_memory()` returns,
  which for the pageable tensors of `torch.load` is a copy. (The stand-in for
  `torch.cuda` in `sitecustomize.py`, for tests without a GPU, returns the
  tensor itself; it is not part of the system.)
* `Interrupt` (an exception, or a signal) sends a rank to its exit handler from
  any point between two steps, `Crash` takes a machine with all its ranks.

### How AgentProtocol corresponds to the code

All waiting in the agents is `time.sleep`, and everything that can go wrong
between them is a matter of when they look. The model therefore has a clock in
seconds; `wake` and `beatAt` of a process are the times at which the main
thread or daemon and the heartbeat thread return from their sleeps, and `Tick`
does not pass a time at which somebody has to act. Threads that are due at the
same second act in any order. Only two things take an unknown time: starting a
process (`StartDelay`) and a health check of the GPUs (`CheckDelay`).

* `agent` is a worker agent process. Its stages follow `Agent.__init__`:
  `AgentStarts` is `init_etcd` with the vote, `AgentCounts` is
  `wait_for_all_agents`, `AgentIsUp` the first health check, after which the
  heartbeat (`AgentBeats`) and the watchdog (`AgentWatches`, `AgentElects`) run
  as two threads. There is room for two agents on a machine, which is what
  starting one that still runs leads to. `blind` is an agent whose watchdog
  thread ended by an exception; the process and its heartbeat go on.
* `root` is a root agent process: `RootStarts`, `RootBeats` (its heartbeat
  thread), `RootInitPhase` and `RootForgetsVotes` (`init_phase` before and after
  its sleep) and `RootReceives` (a round of `recv_heartbeat_signal`). Several may
  run: nothing in the code stops an old one.
* `votes`, `heartbeat` and `rootHeart` are the keys of etcd, -1 for a missing
  one. Heartbeat messages are their counters; the status in them is read by
  nobody. The rank of the root agent is only logged, and the addresses of the
  agents are constant.
* `launches` counts starts and restarts of training. The failure type is always
  `OTHER_ERROR_CODE` (`get_failure_type`), so that `failure_recovery` kills the
  training, restarts agents over ssh and restarts the training; over ssh nothing
  starts on a machine that is lost. The guards on `phase` never stop anything,
  since each phase is left in the call that enters it.
* The limit of 200 misses before the first counter was seen plays no part: the
  first counter read is always a new one.
* `AgentFails`, `RootFails` and `MachineFails` happen at any time, `MaxFaults`
  times; a machine takes with it the root agent that runs on it.

`now`, `launches`, `faults`, `downSince` and `rootLoss` only observe.

### How RecoverSnapshot corresponds to the code

The root agent takes this way for a fatal error; `get_failure_type` names none
yet (`root_agent_etcd.py:145`), and `failure_recovery` is called without a type,
so that the module is about code that is complete but not reached. Failures are
found in heartbeat rounds; a rank that never had an agent is waited for forever
(stage `unheard`). An address is a number; the
lists are `asg` (instances that run), `agent_ips` (etcd), `ips_list` and
`pre_ips_list` (root agent) and `hostfile` (whose order gives the ranks of
training). A state is the rank it is of and the failure it was saved at.
`Fail` writes what the exit handlers write, or nothing where the processes of a
machine are killed; a file is taken to hold what its record names, since what
ranks write there is the subject of `SnapshotOptimizer`. `TerminateInstances`,
`DiffIps`, `StartMpi`, `MpiEnds`, `UpdateHostfile` are the steps of
`replace_instances`, and `ScaleUp` is AWS. AWS lists the instances in any order
(`Listings`), and `diff_ips` pairs two sets turned into lists: `Bijections` are
all pairings the sets' order may give.

`RecoverGpuSnapshot` is a pair of processes of the MPI program. The source reads
the template and the record and sends the optimizer states (`SendOptim`), renames
its own file, reads and sends the model states (`SendModel`) and saves them
with the iteration of the record (`SaveModel`); the destination saves both
(`ReceiveOptim`, `ReceiveModel`). Where a template, a record or a file is missing
the source raises, and its partner waits: the job hangs, or mpirun ends it
(`MpiAborts`), and the root agent, which does not look at the result, goes on
with the next pair. With ZeRO-3 the model files of all ranks are alike but for
what the optimizer files restore anyway, so that a model file is the iteration
it carries.

### How EngineCheckpoint corresponds to the code

Each rank is a program counter through `save_checkpoint`; a barrier or
all-reduce is `Join` followed by a step that needs `Everybody`. Files are
opened (`...Begins`, the file is then `Partial`) and closed (`...Ends`). `Die`
ends a process between any two of them, `Restart` starts all ranks again with
`load_checkpoint`: the tag in `latest`, the model, and the optimizer only if
the files of all ranks are there. A state is the step of training and the life
of the job that computed it, in the files and on the ranks (`weights`,
`optimizer`); after a load that mixes two lives, the steps that follow are told
apart by the present life only. `begun` is a history of the states of which a
file was opened. All ranks share one disk.

### How PipeSchedule and PipeEngine correspond to the code

`PipeSchedule` has the formulas of `TrainSchedule` and `InferenceSchedule`;
`TrainStep` and `InferenceStep` give the list of instructions of a step.
`PipeEngine` is a loop over calls, steps and instructions per stage. An
exchange is one action of both stages, as a blocking send and receive without
buffering; a stage's shape message precedes data while `first_output_send`
holds or `pipe_recv_buf` is unset, which the curriculum resets. The value of a
tensor is the micro-batch it comes from and its shape. Data-parallel and tied
reductions are actions of the stages that take part.

### How ParamCoordinator corresponds to the code

The hooks of a pass are a sequence of `pre` and `post` events of modules; each
event is the whole `fetch_sub_module` or `release_sub_module` with trace
recording, draining of the queue, prefetch and cached release sets. Errors the
code raises are recorded in `errors`. Passes of training and evaluation
alternate, with a coordinator each.

`NothingIsRaised` says that there are no errors where every pass of a kind runs
the same modules (`Stable`), or where nothing is prefetched and no pass goes on
where another one ends (`NoneGoesOn`). The second condition is the code's:
`trace_prologue` reads the module that is expected next in
`__submodule_order[step_id]` (`partitioned_param_coordinator.py:148`), and after
the last module of the recorded pass there is none. Passes that differ otherwise
only make the coordinator record again. The hooks of a pass are paired
(`HooksArePaired`): the one after a module fires once for one before it.

### How ZeroGradients corresponds to the code

One rank, since all run the same collectives in the same order. A gradient is
the bag of its contributions; the action per parameter is the hook with all it
calls (bucket, reduction of a full one, copy to partitions or host memory).
With overlapped communication the reduction is a `job` that a stream does at
any later moment until the host waits for it. The loss scaler is a record and
operators on it; scales are exponents of two.

### How OptimizerSwap corresponds to the code

The host thread goes through the sub-groups of `step`; an I/O handle is a queue
per thread, and each operation takes effect, thread by thread, in its own
action. The memory is a map from buffers to tensors, a tensor being the file it
belongs to and its version, so that a buffer reused too early shows as wrong
content.

### How ActivationCheckpoints corresponds to the code

`CheckpointForward` and `CheckpointBackward` are the two static methods of
`CheckpointFunction`, `DropBuffers` is `reset()`, and `Configure` what
`configure` makes of arguments and file. All ranks of a tensor-parallel group
do the same, so that a piece of memory is a function of the rank, an all-gather
takes what each has, and a tensor is a place in memory, dimensions and a
device: that the data of the caller's own tensor is replaced
(`arg.data = inp.data`) is a change of its place. Every element is named, so
that a slot overwritten, a partition of another rank or one that was not
gathered shows. A random state is its seed and the number of draws. What a
function sees and draws is recorded at both calls.

### How the kernels correspond to the code

A kernel is an operator from the sizes of a launch to the set of what its
threads write, as triples of place, operands and, for some, the use made of
them; the index arithmetic of blocks, warps and threads is that of the code.
An operand is a place of an input, and a sum or a maximum is the bag or set of
the places that enter it, so that a row counted twice, cut short or taken of
its neighbour shows. Numbers of threads, warps, registers and iterations are
constants, and the instances make them small. Two modules need more than one
launch: the cache of keys and values of `TensorKernels` is kept over the calls
of a generation, and `CpuOptimizers` has the contents of two host buffers and
of the parameters on the GPU, where a copy that was started but not waited for
may run now or later. Sets of operands stand for what the values would be; the
rounding of halves is not in the model, and matrix products are whole.

## Runs

| run | asks | bounds |
|---|---|---|
| `opt_naive` | naive mode with two GPUs per machine, a machine lost | 4 ranks, 2 blocks, 3 iterations, the streams of rank 0 drift |
| `opt_interleave` | interleave mode with faults, refinement and liveness | 2 ranks, 3 blocks in two gaps of four, 4 iterations, one of them profiled, the streams of rank 0 drift |
| `streams` | is the CPU copy the peer's state? **violated** | 2 ranks, 3 blocks, 3 iterations, the streams of rank 0 drift |
| `agents_detect` | agents die under a root agent that lives: noticed and restarted in time, nobody else is? | 2 machines, one failure, periods of the code, 85 s |
| `agents_failover` | is a lost root agent replaced? | 2 machines, a root agent or a machine lost, 60 s |
| `recover` | do machines of two groups keep their places and states, are new ones restored, and is training started? | 4 machines in pairs, 2 GPUs each, one failure of any machines, AWS lists in any order |
| `ckpt` | is what a save has written what the next job loads? | 3 ranks, saves after steps 1 and 2, 3 steps, 2 deaths |
| `pipe` | do stages agree, keep their buffers and end? | 3 stages, up to 5 micro-batches, programs of up to 3 calls, lengths that change |
| `params` | are parameters there when needed? | 4 modules with shared and persistent parameters, 5 configurations, 4 passes |
| `zero` | does a step use the gradients of its batch? | layouts of 3 parameters over 2 or 3 ranks, 7 modes, 4 micro-steps |
| `swap` | is the newest state updated, and no buffer shared? | 3 sub-groups, 2 state tensors, 2 gradient pieces, 2 threads, as few buffers as allowed |
| `planners` | the planners against what they promise | `planners.cfg` and the question sets in `MCPlanners`, `MCSettings`, `MCModelParts` and `MCKernels`: some 187,000 questions |

Why the bounds are enough. In-memory checkpointing: the versions take turns
with period two, and the setup is over after two iterations, so four iterations
turn to both versions with blocks of the peer in both, and an overflow may come
in any of them; three blocks are the least that make a first, a middle and a
last one, and the least for which a GPU buffer is used twice in an iteration;
ranks interact only through their peer and through collectives, so that two
ranks show every interaction but the pairing itself, for which `opt_naive` has
four. The streams of one rank drift: what a rank copies concerns nobody else,
and the proofs have all of them drift. `MaxIter` is the end of the training
loop, not an artificial cut.

Agents: `MaxTime` cuts the runs. The launch takes about ten seconds and the
grace of the root agent twenty. The 85 seconds of `agents_detect` leave ten
rounds: a failure is noticed after at most four, the recovery takes two or
three, so that failures in the first rounds are seen to their end. In
`agents_failover` the loss of a root agent is repaired within twenty seconds of
at most sixty. `MaxRoots = 2` is the old root agent's successors: agents on two
machines can elect no more than two at a time. `RootLossIsRepaired` is stated
for elections that find no vote of an earlier one, and for clusters in which an
agent still watches, for the two hazards these conditions name are real.

Recovery: four machines make two groups, so that a failure may hit one group
or both, one machine of a group or the whole of it. That a later failure finds
the files and lists of an earlier one is covered by the proofs, which bound no
constant, and by the same configuration with `Machines = 2` and
`MaxFailures = 3`, which passes as well (7,682 states).

Pipeline: three stages are the least with a first, a middle and a last one and
both parities; one and two micro-batches are fewer than stages, five more than
any number of buffers. ZeRO: 4 micro-steps are two batches of two, or four,
which is more than the windows of the scale. Swapping: three sub-groups are one
that is updated, one that is read and one that is written. Parameter
coordinator: the first pass records, the second uses the trace, and two more
allow evaluation between. Kernels: a block of `RowKernels` has 256 threads in
warps of 16, or 16 threads in warps of four, and two registers or iterations
each, and rows are shorter and longer than a warp, a block and all its
registers, up to the lengths where a launch takes another kernel; the tiles of
`CpuOptimizers` have 32 elements, and calls have up to five of them and a rest.
Allocator: six places and six calls with tensors of up to three are enough to
join neighbours on both sides and to move two tensors. Activations: two calls
with their backward passes in any order, on one or two ranks, with one or two
arguments, are the least in which a tensor is shared and a buffer runs out.
Checkpoints: three ranks have one that is neither
rank 0 nor last, and two deaths let a job die that was started again.

Deadlock checking is off where a program ends: training, the clock of the
agents, the calls of a pipeline, or the answered question. That these programs
do not end early is said by the liveness properties.

*Fairness*. `FairSpec` of `SnapshotOptimizer`: each rank's host program and
stream continue, and the overflow check happens once all are there. Of
`PipeEngine`: each stage, and each pair of stages that can exchange, goes on.
Of `EngineCheckpoint`: each rank that lives goes on; the job is started again
when one has died. Of `RecoverSnapshot`: the root agent and the processes of
the MPI job go on, and AWS replaces what was terminated; that mpirun ends a job
in which a process has raised (`MpiAborts`) is not assumed. Of `OptimizerSwap`
(its `Spec`): the host thread and each I/O thread go on. That is what running
processes and devices do; faults are never forced. The agents need no
fairness: every property names a deadline in seconds (`FailureIsNoticed`,
`RecoveryEnds`, `RootLossIsRepaired`), and time cannot pass a thread that is
due.

## Proofs

For every number of machines, GPUs, blocks, hooks and iterations, with
interrupts and the loss of a machine:

* `PeerSymmetric`: the peer of a rank is on another machine, and its peer is
  the rank.
* `TypeCorrect`: `Spec => []TypeOK`.
* `LatestCheckpointIsComplete`: under the assumption
  `Mode = "naive" \/ StrategyCovers`, the version named latest completed was
  received whole and of one step, and is in CPU memory but for the blocks in
  doubt (`InDoubt`): those whose copy is still to come or was out of time.
* `LatestCheckpointIsStable`: under the same assumption nothing is received into
  it while it is the latest, and no copy writes to it but, in interleave mode,
  those the turn did not wait for, until the device is synchronized.
* `StoreIsImplemented`: under the same assumption every step of
  `SnapshotOptimizer`, interrupts and the loss of a machine included, is a step
  of `CheckpointStore` or changes nothing that `CheckpointStore` sees. The store
  does not promise that a checkpoint is whole in the peer's memory, only that
  once whole it stays so until the next one: more the code does not give.
* `LossOfAMachineIsCovered`: under the same assumption the peers of lost ranks
  live elsewhere, and each has received the whole state of the lost rank, at
  most two optimizer steps old, and has it in CPU memory but for the blocks in
  doubt. Of the file a peer writes it says nothing (see
  `RemoteFileIsOfThePeer` below).

All four hold whatever the order in which the two streams of each rank run.

For every number of machines and every period, delay and bound of the agents:

* `AgentTypeCorrect`: `Spec => []TypeOK`, with any failures.
* `RunningAgentsAreLeftAlone` and `RunningRootIsKept`: under `TimelyAgents` no
  agent that runs is started a second time, and no agent votes against a root
  agent that beats.
* `EveryRestartHasItsFault`: under `TimelyAgents` the training processes are
  started once, and once more for each fault.
* `FailureIsNoticedInTime`: with any failures, periods and delays, a root agent
  whose warm-up is over restarts a machine without an agent within four rounds.
* `WarmUpEndsUnlessLost`: under `TimelyAgents`, in a warm-up in which every
  machine has an agent and a heartbeat, the round that ends it is not later than
  the start of an agent, its health checks and two rounds. `RecoveryEndsInTime`:
  with at most one fault (`MaxFaults <= 1`) no other warm-up is possible.

`StrategyCovers` says that the blocks queued hook by hook add up to all of them
in one iteration. It is needed, and the planner does not ensure it: see
"Assumptions that matter". The properties are not inductive. `IInv` of
`SnapshotOptimizerInv` adds what makes the part about the network so: the queue is the next blocks in order, all
aimed at the current version (`QueueInOrder`); a rank has queued exactly what the strategy says for the hooks
it has passed (`OnSchedule`); two peers are at the same version with the same
number of blocks received, or one has not turned yet and then neither has
anything to exchange (`InStep`); the blocks received are of one step, the
peer's present one while some are missing (`ReceivedInPlace`). A rank that
turns has therefore received all. The proof has a lemma per action. The type
invariants and `IInv` are proved and so are not listed in the runs; adding
`TypeOK`, or `ProofInvariant` of `MCSnapshotOptimizer`, to a configuration
checks them.

`StreamInv` is about the copy stream. The copies that are left are of the
current version, in order, or, between the turn and the end of the iteration,
the last blocks of the latest one (`CopiesInOrder`); the two GPU buffers hold
the last two blocks received (`BuffersHold`); so a copy that finds its block
received, and the block after the next not, is in time and copies what was
received, and what was copied otherwise is known as `spoilt` (`CopiedHeld`). A
block that is spoilt stays so until it is copied again in time, or until the
version is received again.

The abstract store knows only of each rank's checkpoint and its step, so the
refinement needs to know how steps and versions go together. `AgeInv` says so
with *rounds*: a round begins when an overflow check lets all ranks take their
step `n + 1`, and a rank is either before its update of the round or after it,
which the version alone tells, as it is the number of updates modulo two. After
`m` updates the latest checkpoint is the peer's step `m - 1`, and what has been
received since is of step `m`. That a checkpoint which is whole in CPU memory
stays so needs `OldInv`: of the blocks a late copy has still to write, memory
holds older ones, so that the checkpoint was not whole before. `StoreNext` of
the proofs follows from these, one lemma per action. A loss needs more:
`LossInv` says that ranks are never more than an iteration apart
(`NearIteration`), that two peers set up their buffers in the same round
(`SetUpTogether`), and that one machine at most was lost. The rounds of a lost
rank and of its peer then differ by one update.

`TimelyAgents` says that only worker agents fail and that
`HeartbeatPeriod + CheckDelay < Timer`: with the periods of the code, that a
health check takes less than two seconds. It is sufficient for these proofs,
since an agent that runs is then not silent even for one round; the failures it
excludes are those of "Assumptions that matter". `IInv` of `AgentProtocol` says when
a counter that the root agent has seen was written: if the agent has not beaten
since, its next heartbeat is due before the root agent's next round
(`RootHearsAgents`), and no thread is later than it may be (`ThreadsOnTime`).
`AgentsHearRoot` is the same for the agents that watch the root agent, and
`CountersAreCurrent` says whose counters are in etcd. For an agent that was
just restarted it says that the old counter is one the root agent has seen, so
that the warm-up does not end before the new process has beaten.

`LaunchInv` counts: launches and machines without an agent together are at most
one more than the faults. A fault adds to both sides; a restart needs a machine
that is down, and since no agent that runs is restarted, it takes away what it
adds. `WatchInv` needs no condition, as it only speaks of the root agent: the
last round in which it may still be silent about a machine that is down
(`LastRound`: as many rounds as misses are left, `Timer` apart) is never later
than four rounds after the agent's end or the end of the warm-up. A heartbeat
that was written before the end and is seen late costs the fourth round.

`EndsInv` joins the two and is about the warm-up. All agents have voted when the
root agent starts, and the votes are gone when its rounds begin, so an agent
that still waits for them never leaves (`AllHaveVoted`) and its machine never
gets a heartbeat; every other agent that has not beaten does so by a time that
its stage tells (`FirstBeatBy`, `StartsOnTime`). Once all heartbeats are there,
either the next round is within `Timer` of that time, or no machine
will be silent in it (`WarmUpEnds`). An agent lost meanwhile would keep the
warm-up going for ever; `LaunchesCounted` says that this takes two launches and
with `LaunchInv` two faults, except in the first warm-up, where every heartbeat
in etcd is new to the root agent whether its agent lives or not.

For every model, trace and configuration of the parameter coordinator:

* `ActiveModulesTheorem`: a module whose hooks have fired has its parameters.
  `IInv` says that a parameter is released only when its set of active modules
  is empty, and that this set has every module between its two hooks. It is an
  invariant without any assumption on order, sharing or prefetch.
* `NothingIsRaisedTheorem`: under the condition of `NothingIsRaised` no check of
  the coordinator fails, whatever modules share, is persistent or prefetched,
  and however little may be gathered or prefetched at a time.

The invariant of the second, `RInv`, says where a coordinator is. A complete
trace (`IsTrace`) is that of one of the passes of its kind, with the parameters
of a module in any order but each once; the queue is what is left of the trace
after its first `q` uses, all uses left are of the current step or later, and a
parameter is marked with the last of its uses before (`QueueAt`). What is
registered is used later in the pass and by nobody now (`RegisteredOK`), so the
registry is empty when the pass ends and nothing in flight is released; and a
hook after a module that is still to come finds the module active or the hook
before it to come first (`OpenOK`). The property is not inductive without all of
these: whether a release is legal depends on what was prefetched steps ago, and
that on the order of the queue. The trace is made by folds and recursive
functions of the community modules over sequences of any length. The induction
theorems of the library take an operator, which the provers cannot instantiate,
but the well-foundedness of the naturals is about sets: `Induction` is obtained
from `WFMin`, and used on the set of lengths for which a statement holds. With
it `FlattenSeqIs`, `SetToSeqIs`, `PopUntilStops` and `LastUseIs` say what the
operators compute, `ParamTraceIsTrace` that the recorded trace is one,
`DiscardFollows` and `PrefetchFollows` that the queue stays where it should be,
and there is a lemma for each handler.

For every number of stages, and every sequence of calls:

* `NeighboursMeetTheorem`: in a step of training, a stage sends if and only if
  its neighbour receives, and the same micro-batch. The heart is
  `SchedulesMatch`, arithmetic about parities of stage and step; the invariant
  is only that steps are natural numbers.
* `BatchesAreWholeTheorem`: an optimizer step has the gradients of all
  micro-batches of its batch, each once, and a call ends with all its losses,
  each from its own label.
* `InputsAreKeptTheorem`: `TrainBuffers` is enough for the inputs.
* `SizesAgreeTheorem`: neighbours agree on shapes, for every curriculum.

The invariant of these three, `PipeInv`, says that the place of a stage (call,
step, instruction) determines the rest: how often it has executed each
instruction (`Num`), which inputs and outputs are in which buffers
(`HasInputs`, `HasOutputs`, `NoInputsLeft`), what it has accumulated
(`HasGrads`, `Losses`) and drawn (`Draws`), and whether its shapes have been
reset (`Shapes`). `InStep` relates neighbours: both have exchanged as much, or
one is a call ahead. The properties are not inductive without it, as what a
stage receives depends on where its neighbour is. Most of the proof is about
the schedule: `StepAdds` says that `Forwards` and `Backwards`, closed forms of
the numbers of passes before a step, grow with the instructions of the step,
`CommandsOrdered` that these come in an order that does not depend on the step,
and `AtInput` to `AtOptimizerStep` what an instruction therefore finds when it
is its turn. A call carries with it how many micro-batches the calls before it
draw and how many of them train; `PipeAssumption` fixes these numbers, which
spares the proofs an induction over programs.

For every number of machines, GPUs and failures:

* `NobodyLoadsAnothersTheorem`: whatever fails and however AWS lists machines,
  no rank finds another one's state in the file it loads. `FilesAreOwn` says of
  each file name that it holds the state of that rank or nothing.
* `SurvivorsTheorem`: training starts on exactly the instances that run, and a
  machine that did not fail keeps the ranks it had. The list of the root agent,
  whatever its order, is of the running instances (`ListIsOfTheGroup`), and an
  update changes a list only where the address is no longer among them.
* `RestoredTheorem`: a machine that was replaced, and its partner, start with
  the optimizer and model states of the failure, if all failed machines have
  partners that live, this one has saved, and the list of the root agent and
  the host file have both machines at the same places. `RestoredInTurn` says of
  each GPU of the two how far its part of the job has come, or that its turn is
  still to come and its source is still there; no two of the pairs that wait
  have the same destination. `RecordsComeWithFiles` says that a record of the
  last failure comes with a template, a model file and a file of the rank
  itself until that is renamed, so that no process of such a job raises. The
  invariant is the conjunction of these with `ListTypes` and `FilesAreOwn`.

No theorem assumes anything of the order in which AWS lists instances.

For every number of ranks and tags, and deaths at any moment:

* `ReturnedSavesTheorem`: a save that returned on all ranks stays on disk, or
  was begun again.
* `OneSaveTheorem`: all ranks load the weights of one save, and all or none of
  them an optimizer, which is that of the very state the weights are of; only
  where two lives of the job have written that tag may it be of the other life,
  at the same step (`SavedAgain`). A whole file is of the step its tag names and
  of a save that was begun (`OfTag`). `EngineCheckpoint` gives collectives no name: a rank passes one when all
  others have joined as many. The invariant counts them. Between two steps
  of training a rank joins all collectives of a save or none (`Idle`,
  `Saving`), and what it has written, dead or alive, is known from its count
  (`Counted`, `Written`, `SaveIsWhole`).

For every number of sub-groups, states, pieces of a gradient, threads and
buffers of the optimizer swapper, whatever is large enough to be swapped and
whichever of reads and writes are pipelined:

* `NewestStatesTheorem`: an update finds the newest states and the whole
  gradient of its batch, and between two steps the files hold the newest
  states.
* `BuffersTheorem`: no assertion of the swappers fails, every buffer has one
  owner, and one that is still being written keeps its tensor and is handed to
  nobody.

The assumption on the number of buffers is the least one: a set of them
for each sub-group that can be in flight at once. The invariant, `SwapInv`, has
two halves. One says where the host is: which operations can be under way at
which place of the step (`Progress`), how many tensors a sub-group has by now
(`Created`), what an operation holds (`OpsOK`), and that each buffer is in one
place of one of the six sequences it can be in (`Pool`), whose lengths
therefore add up to all of them: what is not held by the operations in flight
is free, and is enough for the next one (`EnoughFree`). The gradient swapper
gives its buffers back before the first of them starts; its own buffers are
free, being written or the current one (`GradsOK`, `Filling`). The other half
says where the newest tensors are. A state is in its file, in a write that is
still queued, or in the memory of the update that just made it
(`StatesOnDisk`); every tensor an operation waits for has arrived or is still in
the queue of the thread that reads it (`ReadsOK`, `InMemory`); every queued
write has the newest tensor in its buffer (`WritesOK`); a gradient too small
for a file is remembered until it is taken (`SmallKept`), and for one in a file
the last write that is queued decides (`LargeKept`), which also covers a
gradient that is swapped out again before its write is over. Neither property
is inductive: a thread completes its share of a request alone, and that a
buffer still holds what the thread is to write follows from who owns it. The
proof has a lemma for each action of the host and of the threads.

For every layout of parameters over ranks, size of the bucket, number of
micro-steps in a batch, order in which autograd produces gradients, overflows,
stage, overlapping, offloading and settings of the loss scaler:

* `StepUsesTheBatchTheorem`: assuming `StaticOffload`, a step applies to every
  parameter this rank owns the gradients of the batch, each micro-step once and
  averaged once, and no assertion of the reduction fails.
* `OnlyOverflowsAreSkippedTheorem`: under the same assumption a step is skipped
  if a gradient it would apply has overflowed, and only in a batch that has an
  overflow.
* `ScaleIsEarnedTheorem`: assuming `ScalesFit`, the scale grows with each
  `scale_window` steps in a row without an overflow and at no other time, and
  shrinks at overflows only.
* `EveryElementHasItsOwnerTheorem`: each element of a bucket is in exactly one
  slice, which goes to the rank whose partition holds it, and the flat gradient
  of a rank is made of its partition, each element at its place.

`StaticOffload` says that no configuration that offloads has a model whose
micro-steps leave parameters out, and `ScalesFit` that no scale starts below
the least one; both are needed (see "Assumptions that matter"). The invariant,
`IInv`, tells for each parameter of this rank where its gradient is. Of the
micro-steps that have used it (`Uses`), those before the present one are put
aside (`Old`), in `averaged_gradients` or on the CPU, and the others are on
their way (`New`). The gradient of a parameter that autograd has yet to produce,
or that is in the bucket or in the job of the reduction stream (`Pending`),
waits (`Waits`): it has the micro-steps expected and was not averaged. Every
other one is done (`Done`): averaged once and where the step or the next
micro-step looks for it, and a gradient that has overflowed has set the flag.
What makes this inductive is that nothing is lost on the way. `Lists` says that a
parameter is in one place only and once; `Buffers` that the cells of what is in
the bucket or in the job still hold it, as a bucket is filled only up to its
size and never in the buffer that the stream reads; `Phases` that the epilogue
leaves nothing behind. There is a lemma for each action. What a job does to the
memory is a fold over its parameters: `JobFields` says that it places each of
them and touches no other, from `Induction`, as in `ParamCoordinatorProofs`.
`ScaleInv` of the third theorem ties the scaler's counters to the steps since
the last overflow.

The fourth needs of the state only that the bucket is a list of parameters
(`ListedInv`); the work is in what the functions of `ZeroPartition` compute. The
rows of this arithmetic are cuts (`Cut`): of the flat buffer into parameters,
of the bucket into parameters, parts and slices. Each place of a cut lies in one
piece (`CutCovers`, `CutOnce`). The holders of a parameter are an interval of
ranks (`HoldersAre`) and its parts lie one after the other, each inside the
partition of its rank (`PartsAlong`), and so do those of a bucket
(`BucketAlong`). The parameters of a partition are an interval as well
(`PartitionSpans`). The two loops build their lists in steps (`LoopSteps`); what
is proved of each list is that it covers what came before, each place with its
owner (`SlicesOK`, kept by `SliceGoesOn`; `PlacesOK`, kept by `PlaceAdded`).

Only model-checked:

* all liveness properties (out of the prover's reach, as is ENABLED);
* `RootLossIsRepaired`: it holds for the instance of its run only, elections
  among two agents with one failure of the root agent or its machine (see
  "Assumptions that matter");
* the planners (`planners`): one operator that states what each computes covers
  many modules, among them those with RECURSIVE operators, which no proof can
  reach; and some of it holds within the bounds of the inputs only (at most ten
  data parallel ranks, for the order of file names).

The assumptions of the proofs are the named ASSUMEs on the constants and the
conditions the theorems state. `agents_detect` takes no time for health checks
(`CheckDelay = 0`); the proofs hold for any time that satisfies `TimelyAgents`.

## What the violated run says

`streams` checks a sentence of the documentation, "`x_y.pt` is the remote
checkpoint for `Rank y` stored in `Rank x`" (`src/README.md:387`), of what is in
CPU memory. `snapshot()` queues a receive on the communication stream and the
copy of what it receives on the copy stream, and nothing orders the two. The
copy may run before its receive, or after the buffer was filled again, and the
latest version in CPU memory, the remote checkpoint, is then not a state of
the peer (`snapshot_comm.py:283`).

## Statements the code does not keep

The modules state these as the documentation or the comments have them. No
configuration names them; as an INVARIANT of the one given, each is violated.

* `RemoteFileIsOfThePeer`, with `streams.cfg` and `Drifting = {}`: the same
  sentence of the file. What is received is whole, but the file is written from
  the dictionary of start-up, of which the memory that receives is a pinned copy
  (`snapshot_comm.py:188` and `446`): `x_y.pt` is the state of rank x.
* `NewInstancesAreRecovered`, with two machines of one GPU in `recover.cfg`:
  "recover snapshot to newly added instances" (`root_agent_etcd.py:331`). The
  previous addresses are the listing of the scaling group (line 335), in the
  order AWS gives it (`boto3_agent.py:40`), failed machines are numbers of
  ranks: rank 0 of the listing is a machine that did not fail, it is sent the
  files, and the new machine gets none.
* `AllRestartFromOneIteration`, with four machines of one GPU in `recover.cfg`:
  "rename the filename of local checkpoint for recovery"
  (`snapshot_recover.py:66`). Only the machines of a recovery pair give their
  files the names under which training loads them. The others have saved as
  well, but start from the checkpoint written before training (line 71).
* `TagNamesOneCheckpoint`, with `ckpt.cfg`: "Checkpoint tag used as a unique
  identifier for the checkpoint" (`engine.py:2911`). A job dies in a save, the
  restarted job repeats the step and saves under the same tag, rank 0 publishes
  it and dies before the others have overwritten their files (line 2960). The
  third job trains with the model of one life and optimizer states of another.
  They are of one step, so that nothing notices.

## Assumptions that matter

These are settings under which a checked property is false; changing the
constant reproduces the trace.

* `agents_detect` with `MaxFaults = 2`: an agent that dies before the warm-up
  after the first failure has ended is never restarted, and no later failure
  is recovered (`RecoveryEnds`; `root_agent_etcd.py:206`).
* `agents_detect` with `Faults = {"root"}`: an agent that looks at the root's
  heartbeat while the key does not exist loses its watchdog to a `TypeError`,
  does not vote, is taken for failed and started twice (`OneAgentPerMachine`;
  `agent_etcd.py:188`).
* `agents_detect` with `Faults = {"machine"}`: the new root agent takes an old
  heartbeat of the lost machine for a new one and recovers the failure twice
  (`OneLaunchPerFault`; `root_agent_etcd.py:62`).
* `opt_interleave` with `Strategy <- LeftoverStrategy`: blocks planned for after
  the last gap are never sent (`LatestIsComplete`; `snapshot_strategy.py:91`
  "-1 indicates snapshot all the left blocks", `README.md:375`).
* `zero` with `dynamic |-> TRUE` in a mode that offloads: a parameter that takes
  no part in a batch keeps its gradient in host memory, and the step uses it
  (`StepUsesTheBatch`; `stage_1_and_2.py:1119`; `config-json.md:626` allows
  unused parameters).
* `zero` with a `min_scale` above `init_scale`: the first overflow that counts
  raises the scale (`ScaleIsEarned`; `loss_scaler.py:159`).
* `params` with a pass of training that differs from the trace: the
  coordinator raises its tracing error once parameters are prefetched.
* `RecoverSnapshot`: all ranks of a machine save, or none does (`silent`), and
  the disk of a machine has the optimizer files of its own ranks only;
  `_get_all_zero_checkpoint_names` of the engine, which asks for those of all
  ranks on every machine, is in `EngineCheckpoint`, where the disk is shared.
* `planners`: the exceptions that `StagesAreBalanced`, `ElasticConfigIsSound` and
  `ShardsKeepTheirPlace` name are the code's: a first layer heavier than all
  others together (`[3, 1, 1]` over two stages becomes `[0, 0, 3]`,
  `utils.py:620`), a limit below one micro-batch per rank, and more than ten
  data-parallel ranks, whose files are listed 1, 10, 2 (`reshape_utils.py:16`).
  With elastic checkpoints of ZeRO 1 and 2, optimizer states are cut at a
  multiple of the ranks and weights at a multiple of twice the ranks
  (`stage_1_and_2.py:2103` and `2082`): five elements over two ranks are kept
  as 4 and 1, and their momenta come back as 3 and 2, on the same two ranks.
  Dealt parameters come back in another order on another number of ranks;
  weights are loaded by at most as many ranks as wrote them (`stage_1_and_2.py:2200`). A
  final linear layer is split among ranks but not merged
  (`state_dict_factory.py:379` and `427`), and layers that the stages cannot
  share equally belong to none (`deepspeed_checkpoint.py:239`). An allocator
  that has to move tensors raises a `KeyError` if one of them was never
  assigned to a parameter (`contiguous_memory_allocator.py:136`). With
  partitioned activations a checkpointed function that is called again gets a
  `None` after every argument that is no tensor (`checkpointing.py:442`), and
  the partition of one with fewer elements than the ranks' square
  (`checkpointing.py:270`); tensors whose size the ranks do not divide are
  refused (`checkpointing.py:254`), a tensor used by two calls is seen cut by
  the second (`checkpointing.py:447`), and contiguous buffers have room for as
  many calls before a backward pass as `number_checkpoints` says, of tensors of
  one size (`checkpointing.py:415`).
* `planners`, kernels: each property of `MCKernels` names the shapes for which a
  kernel does not do what its caller takes it to do. The softmax of training
  leaves out half of the rows of four to seven keys, rows beyond a whole
  multiple of those of a block, and reads the next row between 512 and 1024
  keys; its gradient leaves out the last rows if their number is no multiple
  of four. The attention of inference ignores scale and alibi in single
  precision, and counts its window off by one for generated tokens. The cache
  of keys and values is not the one of the batch for more than one sequence.
  Quantizers read maxima that no thread has written, if the groups of the last
  block are small, and the asymmetric stochastic launch runs the symmetric
  kernel. CPU Adam addresses the rest of a call in half precision as if it were
  in single precision, and its copies may be overtaken.

## Not modelled

Arithmetic and the contents of tensors; timing events; the state of etcd
itself, taken to be one consistent store; partitions between an agent and etcd;
NVMe prefetch of parameters and the swapper without pipeline; gradient
clipping; quantization while weights are loaded; the engine outside its
checkpoints; the rendezvous of the elastic agent, which is code of torch; the
values kernels compute, their order of sums and the products of cuBLAS; the
inference engine, compression, autotuning and profiling, which are numeric or
tools. `PROJECT.json` has the reason per component.

## What is left of the plan

1. The parameter swapper and NVMe prefetch, composed with `ParamCoordinator`.
2. An abstract checkpoint store that `EngineCheckpoint` and `SnapshotOptimizer`
   both implement.
