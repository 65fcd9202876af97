---------------------------- MODULE PipeSchedule ----------------------------
(***************************************************************************)
(* The instruction schedules of pipeline parallelism (pipe/schedule.py).   *)
(* A schedule gives each stage s of S, for each step k of a batch of M     *)
(* micro batches, the sequence of instructions that the stage executes.    *)
(* Everything here is a function of S, M, s and k: no stage asks another   *)
(* which instruction it is at.                                             *)
(***************************************************************************)
EXTENDS Integers, Sequences

(* An instruction, on a pipeline buffer (-1: not on a buffer). *)
Instr(name, buffer) == [name |-> name, buffer |-> buffer]

Only(condition, instruction) == IF condition THEN <<instruction>> ELSE << >>

IsEven(x) == x % 2 = 0

ValidMicroBatch(M, m) == 0 <= m /\ m < M
ValidStage(S, s) == 0 <= s /\ s < S

(* Mistakes that the runs must notice.  One buffer less; *)
TightBuffers(S, M, s) ==
    LET wanted == IF S - s < M THEN S - s ELSE M
    IN  IF wanted > 2 THEN wanted ELSE 2

(* a backward step that is one micro batch late on odd stages; *)
LateBackward(S, s, k) ==
    IF IsEven(k) THEN k \div 2 - S + s \div 2
    ELSE (k - 1) \div 2 - S + 1 + s \div 2

(* one step less than the batch needs; *)
ShortSchedule(S, M) == 2 * (M + S - 1) - 1

----------------------------------------------------------------------------
(* TrainSchedule: one forward, one backward.  Stages of one parity do a
   forward step while the others do a backward step. *)

TrainBuffers(S, M, s) ==
    LET wanted == IF S - s + 1 < M THEN S - s + 1 ELSE M
    IN  IF wanted > 2 THEN wanted ELSE 2

TrainTotalSteps(S, M) == 2 * (M + S - 1)

IsForward(s, k) == IsEven(k) <=> IsEven(s)

(* _even_step_forward_id and _odd_step_forward_id *)
ForwardId(s, k) ==
    IF IsEven(k) THEN k \div 2 - s \div 2 ELSE (k - 1) \div 2 - s \div 2

(* _even_step_backward_id (odd stages) and _odd_step_backward_id (even). *)
BackwardId(S, s, k) ==
    IF IsEven(k) THEN k \div 2 - S + (s + 1) \div 2
    ELSE (k - 1) \div 2 - S + 1 + s \div 2

StepMicroBatch(S, s, k) ==
    IF IsForward(s, k) THEN ForwardId(s, k) ELSE BackwardId(S, s, k)

(* The micro batch of the step before; -1 before the first one. *)
PrevMicroBatch(S, s, k) == IF k = 0 THEN -1 ELSE StepMicroBatch(S, s, k - 1)


(* What a stage exchanges with its neighbours in step k. *)
RecvsActivation(S, M, s, k) ==
    /\ IsForward(s, k)
    /\ ValidMicroBatch(M, StepMicroBatch(S, s, k)) /\ ValidStage(S, s - 1)

SendsGrad(S, M, s, k) ==
    /\ IsForward(s, k)
    /\ ValidMicroBatch(M, PrevMicroBatch(S, s, k)) /\ ValidStage(S, s - 1)

SendsActivation(S, M, s, k) ==
    /\ ~IsForward(s, k)
    /\ ValidMicroBatch(M, PrevMicroBatch(S, s, k)) /\ ValidStage(S, s + 1)

RecvsGrad(S, M, s, k) ==
    /\ ~IsForward(s, k)
    /\ ValidMicroBatch(M, StepMicroBatch(S, s, k)) /\ ValidStage(S, s + 1)

(* Mistake: every stage receives before it sends. *)
RecvsFirst(S, M, s, k) ==
    LET curr == StepMicroBatch(S, s, k) % TrainBuffers(S, M, s)
        prev == PrevMicroBatch(S, s, k) % TrainBuffers(S, M, s)
    IN  IF IsForward(s, k)
        THEN Only(RecvsActivation(S, M, s, k), Instr("RecvActivation", curr))
             \o Only(SendsGrad(S, M, s, k), Instr("SendGrad", prev))
        ELSE Only(RecvsGrad(S, M, s, k), Instr("RecvGrad", curr))
             \o Only(SendsActivation(S, M, s, k), Instr("SendActivation", prev))

TrainExchanges(S, M, s, k) ==
    LET curr == StepMicroBatch(S, s, k) % TrainBuffers(S, M, s)
        prev == PrevMicroBatch(S, s, k) % TrainBuffers(S, M, s)
    IN  IF IsForward(s, k)
        THEN Only(RecvsActivation(S, M, s, k), Instr("RecvActivation", curr))
             \o Only(SendsGrad(S, M, s, k), Instr("SendGrad", prev))
        ELSE Only(SendsActivation(S, M, s, k), Instr("SendActivation", prev))
             \o Only(RecvsGrad(S, M, s, k), Instr("RecvGrad", curr))

TrainStep(S, M, s, k) ==
    LET m == StepMicroBatch(S, s, k)
        curr == m % TrainBuffers(S, M, s)
        valid == ValidMicroBatch(M, m)
        forward == IsForward(s, k)
    IN  TrainExchanges(S, M, s, k)
        \o Only(s \in {0, S - 1} /\ forward /\ valid, Instr("LoadMicroBatch", curr))
        \o Only(valid, Instr(IF forward THEN "ForwardPass" ELSE "BackwardPass", curr))
        \o (IF k = TrainTotalSteps(S, M) - 1
            THEN <<Instr("ReduceTiedGrads", -1), Instr("ReduceGrads", -1),
                   Instr("OptimizerStep", -1)>>
            ELSE << >>)

----------------------------------------------------------------------------
(* InferenceSchedule: a stage receives into one buffer while it sends the
   other; even stages send first, odd ones receive first. *)

InferenceTotalSteps(S, M) == M + S - 1

RecvBuf(s, k) == IF IsEven(s) THEN k % 2 ELSE (k + 1) % 2
SendBuf(s, k) == IF IsEven(s) THEN (k + 1) % 2 ELSE k % 2

InferenceStep(S, M, s, k) ==
    LET m == k - s
        valid == ValidMicroBatch(M, m)
        send == Only(ValidStage(S, s + 1) /\ ValidMicroBatch(M, m - 1),
                     Instr("SendActivation", SendBuf(s, k)))
        recv == Only(ValidStage(S, s - 1) /\ valid,
                     Instr("RecvActivation", RecvBuf(s, k)))
    IN  Only(s \in {0, S - 1} /\ valid, Instr("LoadMicroBatch", RecvBuf(s, k)))
        \o (IF IsEven(s) THEN send \o recv ELSE recv \o send)
        \o Only(valid, Instr("ForwardPass", RecvBuf(s, k)))

=============================================================================
