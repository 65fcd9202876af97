-------------------------- MODULE ParamCoordinator --------------------------
(***************************************************************************)
(* Fetching, prefetching and releasing the parameters of a ZeRO-3 model    *)
(* (zero/partitioned_param_coordinator.py), driven by the hooks of the     *)
(* modules (parameter_offload.py) and by the optimizer (stage3.py).  Two   *)
(* coordinators, one for training and one for evaluation, each with its    *)
(* own trace, act on the same parameters.                                  *)
(***************************************************************************)
EXTENDS Integers, Sequences, FiniteSets, Functions, SequencesExt

CONSTANTS
    Modules, Params,
    Models,   \* of: parameters of each module, numel, persistent ones, and
              \* the hooks that fire in the passes of training and evaluation
    Configs,  \* stage3 sizes: prefetch bucket, live and reuse limits
    MaxPasses

Kinds == {"train", "eval"}
Hooks == [hook : {"pre", "post"}, module : Modules]

(* The hook after a module fires once, and after a hook before it.  There
   may be hooks before a module that none after it follows: in the
   backward pass, of modules whose inputs need no gradient. *)
HooksArePaired(p) ==
    \A j \in DOMAIN p : p[j].hook = "post" =>
        \E i \in 1 .. j - 1 :
            /\ p[i] = [hook |-> "pre", module |-> p[j].module]
            /\ \A l \in i .. j - 1 : p[l] # p[j]

ASSUME CoordinatorAssumption ==
    /\ IsFiniteSet(Params)
    /\ \A m \in Models :
          /\ m.params \in [Modules -> SUBSET Params]
          /\ m.numel \in [Params -> Nat \ {0}]
          /\ m.persistent \subseteq Params
          /\ \A k \in Kinds :
                /\ IsFiniteSet(m.passes[k])
                /\ \A p \in m.passes[k] : p \in Seq(Hooks) /\ HooksArePaired(p)
    /\ \A c \in Configs : c.bucket \in Nat /\ c.live \in Nat /\ c.reuse \in Nat
    /\ MaxPasses \in Nat

VARIABLES
    model, config,
    status,       \* ds_status of each parameter
    active,       \* ds_active_sub_modules
    coordinators,
    pass,         \* the kind of the pass in progress, or "none"
    todo,         \* hooks that are still to fire in it
    passes,       \* passes begun
    due,          \* what has not been done since the last pass
    errors        \* what was raised

vars == <<model, config, status, active, coordinators, pass, todo, passes, due, errors>>

Never == -1000    \* default of most_recent_step_id_param_fetched_for

NewCoordinator ==
    [trace_mode |-> "record", step_id |-> 0,
     submodule_order |-> << >>, param_order |-> << >>, param_queue |-> << >>,
     most_recent |-> [p \in Params |-> Never],
     n_available |-> 0,
     registry |-> {},  \* parameters in flight, with what their handle completes
     cached |-> {}]    \* results of __params_to_release

Init ==
    /\ model \in Models /\ config \in Configs
    /\ status = [p \in Params |-> "not_available"]
    /\ active = [p \in Params |-> {}]
    /\ coordinators = [k \in Kinds |-> NewCoordinator]
    /\ pass = "none" /\ todo = << >> /\ passes = 0 /\ due = {}
    /\ errors = {}

Numel(params) == SumFunctionOnSet(model.numel, params)
ParamsOf(m) == model.params[m]
Registered(c) == {r.param : r \in c.registry}

----------------------------------------------------------------------------
(* Tracing. *)


Traced(c, m) == c.step_id < Len(c.submodule_order)
                /\ c.submodule_order[c.step_id + 1] = m

InvalidateTrace(c) ==
    [c EXCEPT !.trace_mode = "invalid", !.submodule_order = << >>,
              !.param_order = << >>, !.param_queue = << >>,
              !.most_recent = [p \in Params |-> Never]]

TracePrologue(c, m) ==
    IF c.trace_mode = "complete" /\ ~Traced(c, m) THEN InvalidateTrace(c) ELSE c


RecordModule(c, m) ==
    IF c.trace_mode = "record"
    THEN [c EXCEPT !.submodule_order = Append(@, m)] ELSE c

(* construct_parameter_trace_from_module_trace *)
ParamTrace(order) ==
    FlattenSeq([i \in 1 .. Len(order) |->
        [j \in 1 .. Cardinality(ParamsOf(order[i])) |->
            [param |-> SetToSeq(ParamsOf(order[i]))[j], last_used |-> i - 1]]])

----------------------------------------------------------------------------
(* fetch_sub_module, on a coordinator c and the status of the parameters. *)

NotAvailable(params, stat) == {p \in params : stat[p] = "not_available"}

SetStatus(stat, params, new) ==
    [p \in Params |-> IF p \in params THEN new ELSE stat[p]]


(* __all_gather_params: one handle for all that are not available. *)
AllGather(c, params) ==
    [c EXCEPT !.n_available = @ + Numel(params),
              !.registry = @ \cup {[param |-> p, completes |-> params] : p \in params}]

(* What the handles of the parameters complete: of a coalesced all-gather,
   all parameters, the others of which stay in the registry. *)
Completed(c, params) ==
    UNION {r.completes : r \in {s \in c.registry : s.param \in params}}

WaitFor(c, params) ==
    [c EXCEPT !.registry =
        {[r EXCEPT !.completes = @ \ Completed(c, params)] :
             r \in {s \in c.registry : s.param \notin params}}]

First(n, queue) == SubSeq(queue, 1, n)
Dropped(n, queue) == SubSeq(queue, n + 1, Len(queue))
ParamsIn(queue) == {queue[i].param : i \in 1 .. Len(queue)}

(* The queue is popped until enough is gone, or all. *)
PopUntil(queue, enough) ==
    LET stops == enough \cup {Len(queue)}
    IN  First(CHOOSE n \in stops : \A i \in stops : n <= i, queue)

LastUse(queue, p, default) ==
    LET uses == {i \in 1 .. Len(queue) : queue[i].param = p}
    IN  IF uses = {} THEN default
        ELSE queue[CHOOSE i \in uses : \A j \in uses : j <= i].last_used

(* Mistake: uses of the current step count as not prefetched. *)
FetchedAgain(c, params) == {p \in params : c.most_recent[p] <= c.step_id}

NotAlreadyFetched(c, params) == {p \in params : c.most_recent[p] < c.step_id}

Discarded(c, params) ==
    PopUntil(c.param_queue, {n \in 0 .. Len(c.param_queue) :
        Cardinality(ParamsIn(First(n, c.param_queue)))
            >= Cardinality(NotAlreadyFetched(c, params))})

(* The parameters that the module needs leave the queue of prefetches. *)
DiscardFromQueue(c, params) ==
    LET gone == Discarded(c, params)
    IN  [c EXCEPT !.param_queue = Dropped(Len(gone), @),
                  !.most_recent = [p \in Params |-> LastUse(gone, p, @[p])]]

MaxParamsToPrefetch(c) ==
    IF config.live - c.n_available < config.bucket
    THEN config.live - c.n_available ELSE config.bucket

Considered(c, stat) ==
    PopUntil(c.param_queue, {n \in 0 .. Len(c.param_queue) :
        Numel(NotAvailable(ParamsIn(First(n, c.param_queue)), stat))
            >= MaxParamsToPrefetch(c)})

ToPrefetch(c, stat) == NotAvailable(ParamsIn(Considered(c, stat)), stat)

Later(x, y) == IF x < y THEN y ELSE x

Prefetch(c, stat) ==
    IF config.bucket = 0 THEN c ELSE
    LET seen == Considered(c, stat)
        marked == [c EXCEPT !.param_queue = Dropped(Len(seen), @),
                            !.most_recent = [p \in Params |->
                                Later(@[p], LastUse(seen, p, Never))]]
    IN  AllGather(marked, ToPrefetch(c, stat))


----------------------------------------------------------------------------
(* Actions. *)

Running == errors = {}

(* A pass begins: the first of its hooks is about to fire. *)
BeginPass(kind) ==
    /\ Running /\ pass = "none" /\ passes < MaxPasses
    /\ pass' = kind
    /\ todo' \in model.passes[kind]
    /\ passes' = passes + 1
    /\ UNCHANGED <<model, config, status, active, coordinators, due, errors>>

AtHook(hook) == Running /\ pass # "none" /\ todo # << >> /\ Head(todo).hook = hook

(* pre_sub_module_forward_function and ..._backward_function *)
PreSubModule ==
    /\ AtHook("pre")
    /\ LET m == Head(todo).module
           params == ParamsOf(m)
           c == RecordModule(TracePrologue(coordinators[pass], m), m)
           needed == NotAvailable(params, status)
           gathering == AllGather(c, needed)
           waited == WaitFor(gathering, params)
           fetched == SetStatus(status, needed \cup Completed(gathering, params),
                                "available")
           tracing == waited.trace_mode = "complete"
           discarded == DiscardFromQueue(waited, params)
           prefetched == IF tracing /\ config.bucket > 0
                         THEN ToPrefetch(discarded, fetched) ELSE {}
       IN  /\ errors' =
                  {e \in {"index out of range"} :
                      coordinators[pass].trace_mode = "complete"
                      /\ coordinators[pass].step_id >= Len(coordinators[pass].submodule_order)}
                  \cup {e \in {"already in registry"} :
                      needed \cap Registered(c) # {}
                      \/ prefetched \cap Registered(waited) # {}}
                  \cup {e \in {"not available"} : \E p \in params : fetched[p] # "available"}
                  \cup {e \in {"tracing error"} :
                      tracing /\ ParamsIn(Discarded(waited, params))
                                     # NotAlreadyFetched(waited, params)}
           /\ coordinators' = [coordinators EXCEPT ![pass] =
                  [IF tracing THEN Prefetch(discarded, fetched) ELSE waited
                      EXCEPT !.step_id = @ + 1]]
           /\ status' = SetStatus(fetched, prefetched, "inflight")
           /\ active' = [p \in Params |-> IF p \in params THEN active[p] \cup {m}
                                          ELSE active[p]]
    /\ todo' = Tail(todo)
    /\ UNCHANGED <<model, config, pass, passes, due>>

(* __params_to_release, for a complete trace. *)
ReusedSoon(c) ==
    LET rest == Dropped(c.step_id, c.submodule_order)
        before[i \in 1 .. Len(rest) + 1] ==
            IF i = 1 THEN 0 ELSE before[i - 1] + Numel(ParamsOf(rest[i - 1]))
    IN  UNION {ParamsOf(rest[i]) : i \in {j \in 1 .. Len(rest) : before[j] < config.reuse}}

ParamsToRelease(c, m) ==
    {p \in ParamsOf(m) \ model.persistent : c.most_recent[p] <= c.step_id} \ ReusedSoon(c)

(* It is memoized on the module and step_id. *)
Remembered(c, m) == {e \in c.cached : e.module = m /\ e.step_id = c.step_id}

CachedParamsToRelease(c, m) ==
    IF Remembered(c, m) # {} THEN (CHOOSE e \in Remembered(c, m) : TRUE).params
    ELSE ParamsToRelease(c, m)

(* Mistake: a parameter is released under another module that uses it. *)
ForgetsActive(inactive, params) == {p \in params : status[p] = "available"}

(* __release_param: what is available and not used by an active module. *)
Releasable(inactive, params) ==
    {p \in params : status[p] = "available" /\ inactive[p] = {}}

(* release_sub_module *)
PostSubModule ==
    /\ AtHook("post")
    /\ LET m == Head(todo).module
           c == coordinators[pass]
           complete == c.trace_mode = "complete"
           inactive == [p \in Params |-> active[p] \ (IF p \in ParamsOf(m) THEN {m} ELSE {})]
           released == Releasable(inactive,
                           IF complete THEN CachedParamsToRelease(c, m) ELSE ParamsOf(m))
       IN  /\ active' = inactive
           /\ status' = SetStatus(status, released, "not_available")
           /\ coordinators' = [coordinators EXCEPT ![pass] =
                  [c EXCEPT !.n_available = @ - Numel(released),
                            !.cached = IF complete THEN @ \cup
                                {[module |-> m, step_id |-> c.step_id,
                                  params |-> CachedParamsToRelease(c, m)]} ELSE @]]
    /\ todo' = Tail(todo)
    /\ UNCHANGED <<model, config, pass, passes, due, errors>>

(* reset_step, at the end of a backward, or of a forward without gradients. *)
ResetStep ==
    /\ Running /\ pass # "none" /\ todo = << >>
    /\ LET c == coordinators[pass]
           mode == CASE c.trace_mode = "record" -> "complete"
                     [] c.trace_mode = "invalid" -> "record"
                     [] OTHER -> c.trace_mode
           order == IF c.trace_mode = "record" THEN ParamTrace(c.submodule_order)
                    ELSE c.param_order
       IN  /\ errors' = {e \in {"inflight at reset"} : c.registry # {}}
           /\ coordinators' = [coordinators EXCEPT ![pass] =
                  [c EXCEPT !.trace_mode = mode, !.step_id = 0, !.n_available = 0,
                            !.param_order = order, !.param_queue = order,
                            !.most_recent = [p \in Params |-> Never]]]
    /\ pass' = "none"
    /\ due' = due \cup {"checkpoint"} \cup {d \in {"step"} : pass = "train"}
    /\ UNCHANGED <<model, config, status, active, todo, passes>>

(* partition_all_parameters with the coordinator of the module's mode, in
   the optimizer step and before a checkpoint is written; then the
   persistent parameters are gathered, but not after an overflow. *)
PartitionAll(kind, gather) ==
    /\ Running /\ pass = "none"
    /\ LET c == coordinators[kind]
           released == Releasable([p \in Params |-> {}], Params)
       IN  /\ errors' = {e \in {"inflight at release"} :
                             c.registry # {} \/ \E p \in Params : status[p] = "inflight"}
           /\ coordinators' = [coordinators EXCEPT ![kind].n_available = @ - Numel(released)]
           /\ status' = [p \in Params |-> IF gather /\ p \in model.persistent
                                          THEN "available" ELSE "not_available"]
    /\ active' = [p \in Params |-> {}]
    /\ UNCHANGED <<model, config, pass, todo, passes>>

(* Gradients may be accumulated over several passes before a step, and a
   checkpoint written in either mode: each at most once after a pass. *)
Step(overflow) ==
    /\ "step" \in due /\ due' = due \ {"step"}
    /\ PartitionAll("train", ~overflow)

Checkpoint(kind) ==
    /\ "checkpoint" \in due /\ due' = due \ {"checkpoint"}
    /\ PartitionAll(kind, TRUE)

Next ==
    \/ \E kind \in Kinds : BeginPass(kind)
    \/ PreSubModule \/ PostSubModule \/ ResetStep
    \/ \E overflow \in BOOLEAN : Step(overflow)
    \/ \E kind \in Kinds : Checkpoint(kind)

Spec == Init /\ [][Next]_vars

----------------------------------------------------------------------------
(* Between the hook before and the hook after a module, all its parameters
   are gathered: also those it shares with a module that ends earlier,
   those prefetched with another module's in one collective, and those
   that the other coordinator released. *)
ActiveModulesHaveTheirParams ==
    Running => \A p \in Params : active[p] # {} => status[p] = "available"

Stable == \A k \in Kinds : Cardinality(model.passes[k]) = 1

(* Where modules start in the first n hooks of a pass. *)
Starts(p, n) == {i \in 1 .. n : p[i].hook = "pre"}
StartsOf(p) == Starts(p, Len(p))

(* Pass q starts the modules of p, in the same order, and then more. *)
GoesOn(p, q) ==
    /\ Cardinality(StartsOf(p)) < Cardinality(StartsOf(q))
    /\ \A i \in StartsOf(p), j \in StartsOf(q) :
           Cardinality(Starts(p, i)) = Cardinality(Starts(q, j)) => p[i].module = q[j].module

NoneGoesOn == \A k \in Kinds : \A p, q \in model.passes[k] : ~GoesOn(p, q)

(* As long as every pass of a kind runs the same modules, none of the
   checks of the coordinator fails: the queue of prefetches follows the
   trace, nothing is gathered twice, and what is prefetched is used before
   the pass ends.  Passes may differ if nothing is prefetched and none
   goes on where another ends: trace_prologue reads the module that is
   expected next, and after the last one there is none. *)
NothingIsRaised == Stable \/ (config.bucket = 0 /\ NoneGoesOn) => errors = {}
=============================================================================
