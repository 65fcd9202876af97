----------------------------- MODULE PipeEngine -----------------------------
(***************************************************************************)
(* The stages of one pipeline (pipe/engine.py) executing the schedules of  *)
(* PipeSchedule: each its own loop over batches, steps and instructions,   *)
(* with blocking sends and receives between neighbours, one receive buffer *)
(* for activations and one for gradients, and buffers of tensors that are  *)
(* reused modulo their number.                                             *)
(*                                                                         *)
(* A tensor is represented by the micro batch it was computed from and its *)
(* shape, which is what a mistake of the schedule would confuse.  A micro  *)
(* batch is a position of one of two data iterators.                       *)
(***************************************************************************)
EXTENDS PipeSchedule, FiniteSets

CONSTANTS
    NumStages,
    Programs,     \* sequences of calls of train_batch and eval_batch
    Difficulties, \* curricula: difficulty (sequence length) of a global step
    Tied          \* stages that share the weights of a tied layer

Stages == 0 .. NumStages - 1
Last == NumStages - 1
Kinds == {"train", "eval"}

(* A call of train_batch or eval_batch with its number of micro batches.
   How many of each kind the calls before it draw, and how many of them
   train, is noted with it: it follows from the calls. *)
Call == [kind : Kinds, micro : Nat \ {0}, drawn : [Kinds -> Nat], trained : Nat]

IsFirst(c) == c.drawn = [k \in Kinds |-> 0] /\ c.trained = 0
Follows(c, next) ==
    /\ next.drawn = [c.drawn EXCEPT ![c.kind] = @ + c.micro]
    /\ next.trained = IF c.kind = "train" THEN c.trained + 1 ELSE c.trained

ASSUME PipeAssumption ==
    /\ NumStages \in Nat \ {0, 1}
    /\ \A p \in Programs :
           /\ p \in Seq(Call)
           /\ \A i \in DOMAIN p : IF i = 1 THEN IsFirst(p[1]) ELSE Follows(p[i - 1], p[i])
    /\ \A d \in Difficulties : \A g \in DOMAIN d : d[g] \in Nat \ {0}
    /\ Tied \subseteq Stages

None == [of |-> [from |-> "none", at |-> 0]]

VARIABLES
    program,    \* the calls, the same on all stages
    difficulty, \* the curriculum, the same on all stages
    barrier,    \* is there a barrier between the steps of a schedule?
    batch,      \* the call a stage is in
    at,         \* where in it: "begin", "barrier", "steps" or "end"
    step, pc,   \* step of the schedule, and instruction of the step
    drawn,      \* micro batches drawn from the iterators, on each stage
    inputs, labels, outputs, \* pipe_buffers
    loss,       \* self.loss
    fwd_outputs,
    pipe_recv_buf, grad_layer, first_output_send,
    accumulated, \* what was added to the gradients since the last step
    global_steps, first_step

control == <<batch, at, step, pc>>
setup == <<program, difficulty, barrier>>
buffers == <<inputs, labels, outputs, loss, fwd_outputs>>
shapes == <<pipe_recv_buf, first_output_send>>
vars == <<setup, control, drawn, buffers, shapes, grad_layer, accumulated,
          global_steps, first_step>>

MaxBuffers == NumStages + 1
BufferIds == 0 .. MaxBuffers - 1

Finished(s) == batch[s] > Len(program)
Kind(s) == program[batch[s]].kind
M(s) == program[batch[s]].micro

TotalSteps(s) == IF Kind(s) = "train" THEN TrainTotalSteps(NumStages, M(s))
                 ELSE InferenceTotalSteps(NumStages, M(s))

Commands(s) == IF Kind(s) = "train" THEN TrainStep(NumStages, M(s), s, step[s])
               ELSE InferenceStep(NumStages, M(s), s, step[s])

(* The instruction that stage s is about to execute. *)
Current(s) ==
    IF ~Finished(s) /\ at[s] = "steps" /\ pc[s] <= Len(Commands(s))
    THEN Commands(s)[pc[s]] ELSE Instr("none", -1)

At(s, name) == Current(s).name = name
Buf(s) == Current(s).buffer

Init ==
    /\ program \in Programs
    /\ difficulty \in Difficulties
    /\ barrier \in BOOLEAN
    /\ batch = [s \in Stages |-> 1]
    /\ at = [s \in Stages |-> "begin"]
    /\ step = [s \in Stages |-> 0]
    /\ pc = [s \in Stages |-> 1]
    /\ drawn = [s \in Stages |-> [k \in Kinds |-> 0]]
    /\ inputs = [s \in Stages |-> [b \in BufferIds |-> None]]
    /\ labels = inputs
    /\ outputs = inputs
    /\ loss = None
    /\ fwd_outputs = << >>
    /\ pipe_recv_buf = [s \in Stages |-> 0]
    /\ grad_layer = [s \in Stages |-> None]
    /\ first_output_send = [s \in Stages |-> TRUE]
    /\ accumulated = [s \in Stages |-> << >>]
    /\ global_steps = [s \in Stages |-> 0]
    /\ first_step = [s \in Stages |-> TRUE]

----------------------------------------------------------------------------
(* Mistake that the runs must notice: the step that begins is compared
   with the one after it. *)
ShapeLooksAhead(s) ==
    difficulty[global_steps[s] + 2] # difficulty[global_steps[s] + 1]

(* Does a call reset the shapes?  Both train_batch and eval_batch do when
   the difficulty of the coming step is not that of the last one. *)
ShapeChanges(s) ==
    \/ global_steps[s] = 0 \/ first_step[s]
    \/ difficulty[global_steps[s] + 1] # difficulty[global_steps[s]]

(* The start of train_batch or eval_batch, up to the schedule. *)
BeginBatch(s) ==
    /\ ~Finished(s) /\ at[s] = "begin"
    /\ at' = [at EXCEPT ![s] = IF Kind(s) = "eval" THEN "barrier" ELSE "steps"]
    /\ IF ShapeChanges(s)
       THEN /\ first_output_send' = [first_output_send EXCEPT ![s] = TRUE]
            /\ pipe_recv_buf' = [pipe_recv_buf EXCEPT ![s] = 0]
            /\ grad_layer' = [grad_layer EXCEPT ![s] = None]
       ELSE UNCHANGED <<shapes, grad_layer>>
    /\ first_step' = [first_step EXCEPT
                         ![s] = @ /\ ~(global_steps[s] = 0 \/ first_step[s])]
    /\ fwd_outputs' = IF s = Last THEN << >> ELSE fwd_outputs
    /\ UNCHANGED <<setup, batch, step, pc, drawn, inputs, labels, outputs, loss,
                   accumulated, global_steps>>

(* Stage t is past the point "where" of the call that s is in. *)
Reached(t, s, where) == batch[t] > batch[s] \/ (batch[t] = batch[s] /\ where)

(* eval_batch: dist.barrier() *)
PassBarrier(s) ==
    /\ ~Finished(s) /\ at[s] = "barrier"
    /\ \A t \in Stages : Reached(t, s, at[t] # "begin")
    /\ at' = [at EXCEPT ![s] = "steps"]
    /\ UNCHANGED <<setup, batch, step, pc, drawn, buffers, shapes, grad_layer,
                   accumulated, global_steps, first_step>>

Advance(stages) ==
    /\ pc' = [s \in Stages |-> IF s \in stages THEN pc[s] + 1 ELSE pc[s]]
    /\ UNCHANGED <<setup, batch, at, step>>

(* The sequence length of the batches of this step. *)
Shape(s) == difficulty[global_steps[s] + 1]

LoadMicroBatch(s) ==
    LET b == Buf(s)
        micro == [from |-> Kind(s), at |-> drawn[s][Kind(s)]]
    IN  /\ At(s, "LoadMicroBatch")
        /\ drawn' = [drawn EXCEPT ![s][Kind(s)] = @ + 1]
        /\ inputs' = IF s # 0 THEN inputs ELSE
               [inputs EXCEPT ![s][b] = [of |-> micro, shape |-> Shape(s), grad |-> None]]
        /\ labels' = IF s # Last THEN labels ELSE
               [labels EXCEPT ![s][b] = [of |-> micro]]
        /\ Advance({s})
        /\ UNCHANGED <<outputs, loss, fwd_outputs, shapes, grad_layer,
                       accumulated, global_steps, first_step>>

ForwardPass(s) ==
    LET b == Buf(s)
        input == inputs[s][b]
    IN  /\ At(s, "ForwardPass")
        /\ input # None
        /\ outputs' = [outputs EXCEPT ![s][b] = [of |-> input.of, shape |-> input.shape]]
        /\ IF s = Last
           THEN /\ loss' = [of |-> input.of, label |-> labels[s][b].of]
                /\ fwd_outputs' = Append(fwd_outputs, loss')
           ELSE UNCHANGED <<loss, fwd_outputs>>
        /\ Advance({s})
        /\ UNCHANGED <<drawn, inputs, labels, shapes, grad_layer, accumulated,
                       global_steps, first_step>>

(* The gradient reaches the input that the output was computed from. *)
WithGradient(s, micro, gradient) ==
    [b \in DOMAIN inputs[s] |->
        IF inputs[s][b] # None /\ inputs[s][b].of = micro
        THEN [inputs[s][b] EXCEPT !.grad = gradient] ELSE inputs[s][b]]

(* The last stage starts from the loss, the others from what they received
   for the output in the buffer, which they free. *)
BackwardPass(s) ==
    LET b == Buf(s)
        from == IF s = Last THEN loss ELSE outputs[s][b]
        gradient == IF s = Last THEN loss.of ELSE grad_layer[s].of
    IN  /\ At(s, "BackwardPass")
        /\ from # None
        /\ accumulated' = [accumulated EXCEPT ![s] =
                              Append(@, [output |-> from.of, grad |-> gradient])]
        /\ inputs' = [inputs EXCEPT ![s] = WithGradient(s, from.of, gradient)]
        /\ outputs' = IF s = Last THEN outputs ELSE [outputs EXCEPT ![s][b] = None]
        /\ Advance({s})
        /\ UNCHANGED <<drawn, labels, loss, fwd_outputs, shapes, grad_layer,
                       global_steps, first_step>>

(* SendActivation of s and RecvActivation of the next stage.  The first
   one is preceded by the shape, for which the receiver allocates its
   buffer; what the two ends expect must agree, or both are stuck. *)
ExchangeActivation(s) ==
    /\ At(s, "SendActivation") /\ At(s + 1, "RecvActivation")
    /\ LET message == outputs[s][Buf(s)] IN
       /\ message # None
       /\ IF first_output_send[s] THEN pipe_recv_buf[s + 1] = 0
          ELSE pipe_recv_buf[s + 1] = message.shape
       /\ pipe_recv_buf' = [pipe_recv_buf EXCEPT ![s + 1] = message.shape]
       /\ inputs' = [inputs EXCEPT ![s + 1][Buf(s + 1)] =
              [of |-> message.of, shape |-> message.shape, grad |-> None]]
    /\ first_output_send' = [first_output_send EXCEPT ![s] = FALSE]
    /\ Advance({s, s + 1})
    /\ UNCHANGED <<drawn, labels, outputs, loss, fwd_outputs, grad_layer,
                   accumulated, global_steps, first_step>>

(* SendGrad of s, which frees the input, and RecvGrad of the stage before,
   whose receive buffer gets the shape of its output when it has none. *)
ExchangeGrad(s) ==
    /\ At(s, "SendGrad") /\ At(s - 1, "RecvGrad")
    /\ LET message == inputs[s][Buf(s)]
           output == outputs[s - 1][Buf(s - 1)]
       IN  /\ message # None /\ message.grad # None /\ output # None
           /\ message.shape = (IF grad_layer[s - 1] = None THEN output.shape
                               ELSE grad_layer[s - 1].shape)
           /\ grad_layer' = [grad_layer EXCEPT ![s - 1] =
                  [of |-> message.grad, shape |-> message.shape]]
    /\ inputs' = [inputs EXCEPT ![s][Buf(s)] = None]
    /\ Advance({s, s - 1})
    /\ UNCHANGED <<drawn, labels, outputs, loss, fwd_outputs, shapes,
                   accumulated, global_steps, first_step>>

(* An all-reduce of the stages that share weights. *)
ReduceTiedGrads(s) ==
    /\ At(s, "ReduceTiedGrads")
    /\ s \in Tied => \A t \in Tied :
           Reached(t, s, \/ at[t] = "end"
                         \/ at[t] = "steps" /\ step[t] = TotalSteps(t) - 1
                            /\ \E i \in 1 .. Len(Commands(t)) :
                                  i <= pc[t] /\ Commands(t)[i].name = "ReduceTiedGrads")
    /\ Advance({s})
    /\ UNCHANGED <<drawn, buffers, shapes, grad_layer, accumulated, global_steps, first_step>>

(* With the replicas of the same stage, which are not modelled. *)
ReduceGrads(s) ==
    /\ At(s, "ReduceGrads")
    /\ Advance({s})
    /\ UNCHANGED <<drawn, buffers, shapes, grad_layer, accumulated, global_steps, first_step>>

OptimizerStep(s) ==
    /\ At(s, "OptimizerStep")
    /\ accumulated' = [accumulated EXCEPT ![s] = << >>]
    /\ global_steps' = [global_steps EXCEPT ![s] = @ + 1]
    /\ Advance({s})
    /\ UNCHANGED <<drawn, buffers, shapes, grad_layer, first_step>>

(* _exec_schedule goes to the next step, with or without a barrier. *)
EndStep(s) ==
    LET done(t) == at[t] = "steps" /\ pc[t] > Len(Commands(t))
        last == step[s] = TotalSteps(s) - 1
    IN  /\ ~Finished(s) /\ done(s)
        /\ barrier => \A t \in Stages :
               Reached(t, s, at[t] = "end" \/ step[t] > step[s]
                             \/ (step[t] = step[s] /\ done(t)))
        /\ step' = [step EXCEPT ![s] = IF last THEN 0 ELSE @ + 1]
        /\ pc' = [pc EXCEPT ![s] = 1]
        /\ at' = [at EXCEPT ![s] = IF last THEN "end" ELSE @]
        /\ UNCHANGED <<setup, batch, drawn, buffers, shapes, grad_layer,
                       accumulated, global_steps, first_step>>

(* _aggregate_total_loss or _bcast_pipe_scalar: a broadcast of the last
   stage; then the call returns. *)
EndBatch(s) ==
    /\ ~Finished(s) /\ at[s] = "end"
    /\ Reached(Last, s, at[Last] = "end")
    /\ batch' = [batch EXCEPT ![s] = @ + 1]
    /\ at' = [at EXCEPT ![s] = "begin"]
    /\ UNCHANGED <<setup, step, pc, drawn, buffers, shapes, grad_layer,
                   accumulated, global_steps, first_step>>

StageNext(s) ==
    \/ BeginBatch(s) \/ PassBarrier(s) \/ EndStep(s) \/ EndBatch(s)
    \/ ReduceTiedGrads(s) \/ ReduceGrads(s) \/ OptimizerStep(s)
    \/ LoadMicroBatch(s) \/ ForwardPass(s) \/ BackwardPass(s)

Next ==
    \/ \E s \in Stages : StageNext(s)
    \/ \E s \in Stages \ {Last} : ExchangeActivation(s)
    \/ \E s \in Stages \ {0} : ExchangeGrad(s)

Spec == Init /\ [][Next]_vars

(* Every stage goes on with what it can do, and so does every pair. *)
FairSpec ==
    /\ Spec
    /\ \A s \in Stages : WF_vars(StageNext(s))
    /\ \A s \in Stages \ {Last} : WF_vars(ExchangeActivation(s))
    /\ \A s \in Stages \ {0} : WF_vars(ExchangeGrad(s))

----------------------------------------------------------------------------
(* The micro batches of the call a stage is in, by their place in the
   iterator, given that n of them have been drawn before the call. *)
MicroBatchesFrom(kind, n, count) == [i \in 1 .. count |-> [from |-> kind, at |-> n + i - 1]]

Wanted(s) == MicroBatchesFrom(Kind(s), program[batch[s]].drawn[Kind(s)], M(s))

(* In the step of training that a stage is in, it sends an activation if
   and only if the next stage receives one in that step of its own, of the
   same micro batch, and the same for gradients on the way back.  Neither
   asks the other: each computes its micro batch from step and parity. *)
NeighboursMeet ==
    \A s \in Stages \ {Last} : ~Finished(s) /\ Kind(s) = "train" =>
        LET k == step[s]
            n == M(s)
        IN  /\ SendsActivation(NumStages, n, s, k) <=>
                    RecvsActivation(NumStages, n, s + 1, k)
            /\ RecvsGrad(NumStages, n, s, k) <=> SendsGrad(NumStages, n, s + 1, k)
            /\ SendsActivation(NumStages, n, s, k) =>
                    PrevMicroBatch(NumStages, s, k) = StepMicroBatch(NumStages, s + 1, k)
            /\ RecvsGrad(NumStages, n, s, k) =>
                    StepMicroBatch(NumStages, s, k) = PrevMicroBatch(NumStages, s + 1, k)

(* A batch counts as a whole.  When a stage takes the optimizer step, every
   micro batch has been backpropagated through it once, in order, each with
   the gradient of its own output: TrainSchedule computes which buffer
   holds what from the step alone, and grad_layer and self.loss are single
   variables.  And a call returns the loss of all of its micro batches,
   each computed from the labels that belong to it: first and last stage
   draw from iterators of their own, at different times, and may be a call
   apart. *)
BatchesAreWhole ==
    /\ \A s \in Stages : At(s, "OptimizerStep") =>
           accumulated[s] = [i \in 1 .. M(s) |->
                                [output |-> Wanted(s)[i], grad |-> Wanted(s)[i]]]
    /\ (~Finished(Last) /\ at[Last] = "end") =>
           fwd_outputs = [i \in 1 .. M(Last) |->
                             [of |-> Wanted(Last)[i], label |-> Wanted(Last)[i]]]

(* No input is overwritten while its gradient is still to be sent: stages
   reuse buffers modulo num_pipe_buffers, and in a forward step receive
   the next input before they send the previous gradient. *)
InputsAreNotOverwritten ==
    \A s \in Stages \ {0} :
        At(s, "RecvActivation") /\ Kind(s) = "train" =>
            inputs[s][Buf(s)] = None \/ inputs[s][Buf(s)].of.from = "eval"

(* "the two pipe stages need to issue the send/recv with the same buffer
   sizes or else there is a deadlock": two stages that are about to
   exchange agree on whether the shape is sent first and on the shape, for
   any curriculum and any sequence of training and evaluation. *)
SizesAgree ==
    /\ \A s \in Stages \ {Last} :
           At(s, "SendActivation") /\ At(s + 1, "RecvActivation")
               /\ outputs[s][Buf(s)] # None =>
           pipe_recv_buf[s + 1] =
               IF first_output_send[s] THEN 0 ELSE outputs[s][Buf(s)].shape
    /\ \A s \in Stages \ {0} :
           At(s, "SendGrad") /\ At(s - 1, "RecvGrad")
               /\ inputs[s][Buf(s)] # None /\ grad_layer[s - 1] # None =>
           grad_layer[s - 1].shape = inputs[s][Buf(s)].shape

(* All calls end, with blocking sends and receives, whatever the number of
   micro batches, and also with a barrier between the steps of the
   schedule, as its documentation claims. *)
EveryBatchEnds == <>(\A s \in Stages : Finished(s))

=============================================================================
