-------------------------- MODULE PipeEngineProofs --------------------------
(***************************************************************************)
(* Proofs about the pipeline engine, for any number of stages, micro       *)
(* batches and calls: neighbours agree on what they exchange at every step *)
(* of the schedule, buffers are not overwritten while they are in use, and *)
(* a batch is trained on as a whole.                                       *)
(***************************************************************************)
EXTENDS PipeEngine, SequenceTheorems, TLAPS

LEMMA NeighboursAlternate ==
    ASSUME NEW s \in Nat, NEW k \in Nat
    PROVE  /\ IsForward(s + 1, k) <=> ~IsForward(s, k)
           /\ k > 0 => (IsForward(s, k - 1) <=> ~IsForward(s, k))
BY DEF IsForward, IsEven

(* A stage that does a backward step k did a forward step before, and the
   next stage does the forward step of the same micro batch now. *)
LEMMA ActivationsMeet ==
    ASSUME NEW S \in Nat, NEW s \in Nat, NEW k \in Nat, k > 0, ~IsForward(s, k)
    PROVE  PrevMicroBatch(S, s, k) = StepMicroBatch(S, s + 1, k)
<1>1. IsForward(s, k - 1) /\ IsForward(s + 1, k)  BY NeighboursAlternate
<1>2. PrevMicroBatch(S, s, k) = ForwardId(s, k - 1)
  BY <1>1 DEF PrevMicroBatch, StepMicroBatch
<1>3. StepMicroBatch(S, s + 1, k) = ForwardId(s + 1, k)
  BY <1>1 DEF StepMicroBatch
<1>4. CASE IsEven(k)
  <2>1. ~IsEven(s) /\ ~IsEven(k - 1) /\ k \div 2 = (k - 2) \div 2 + 1
    BY <1>4 DEF IsForward, IsEven
  <2>2. (s + 1) \div 2 = s \div 2 + 1  BY <2>1 DEF IsEven
  <2> QED  BY <1>2, <1>3, <1>4, <2>1, <2>2 DEF ForwardId
<1>5. CASE ~IsEven(k)
  <2>1. IsEven(s) /\ IsEven(k - 1)  BY <1>5 DEF IsForward, IsEven
  <2>2. (s + 1) \div 2 = s \div 2  BY <2>1 DEF IsEven
  <2> QED  BY <1>2, <1>3, <1>5, <2>1, <2>2 DEF ForwardId
<1> QED  BY <1>4, <1>5

(* And the next stage sends it back the gradient of its own last step. *)
LEMMA GradientsMeet ==
    ASSUME NEW S \in Nat, NEW s \in Nat, NEW k \in Nat, k > 0, ~IsForward(s, k)
    PROVE  StepMicroBatch(S, s, k) = PrevMicroBatch(S, s + 1, k)
<1>1. ~IsForward(s + 1, k - 1)  BY NeighboursAlternate
<1>2. StepMicroBatch(S, s, k) = BackwardId(S, s, k)  BY DEF StepMicroBatch
<1>3. PrevMicroBatch(S, s + 1, k) = BackwardId(S, s + 1, k - 1)
  BY <1>1 DEF PrevMicroBatch, StepMicroBatch
<1>4. CASE IsEven(k)
  <2>1. ~IsEven(s) /\ ~IsEven(k - 1) /\ k \div 2 = (k - 2) \div 2 + 1
    BY <1>4 DEF IsForward, IsEven
  <2> QED  BY <1>2, <1>3, <1>4, <2>1 DEF BackwardId
<1>5. CASE ~IsEven(k)
  <2>1. IsEven(s) /\ IsEven(k - 1)  BY <1>5 DEF IsForward, IsEven
  <2>2. ((s + 1) + 1) \div 2 = s \div 2 + 1  BY <2>1 DEF IsEven
  <2> QED  BY <1>2, <1>3, <1>5, <2>1, <2>2 DEF BackwardId
<1> QED  BY <1>4, <1>5

(* Before the first step nothing was computed, and in the first step no
   stage but stage 0 has a micro batch. *)
LEMMA NothingInTheFirstStep ==
    ASSUME NEW S \in Nat, NEW n, NEW s \in Nat, s + 1 < S, ~IsForward(s, 0)
    PROVE  /\ ~ValidMicroBatch(n, PrevMicroBatch(S, s, 0))
           /\ ~ValidMicroBatch(n, PrevMicroBatch(S, s + 1, 0))
           /\ ~ValidMicroBatch(n, StepMicroBatch(S, s + 1, 0))
           /\ ~ValidMicroBatch(n, StepMicroBatch(S, s, 0))
<1>1. PrevMicroBatch(S, s, 0) = -1 /\ PrevMicroBatch(S, s + 1, 0) = -1
  BY DEF PrevMicroBatch
<1>2. IsEven(0) /\ ~IsEven(s) /\ IsForward(s + 1, 0)
  BY NeighboursAlternate DEF IsForward, IsEven
<1>3. StepMicroBatch(S, s + 1, 0) = -((s + 1) \div 2) /\ (s + 1) \div 2 > 0
  BY <1>2 DEF StepMicroBatch, ForwardId, IsEven
<1>4. StepMicroBatch(S, s, 0) = (s + 1) \div 2 - S /\ (s + 1) \div 2 < S
  BY <1>2 DEF StepMicroBatch, BackwardId, IsEven
<1> QED  BY <1>1, <1>3, <1>4 DEF ValidMicroBatch

(* The schedules of two neighbours match at every step, whatever the
   number of stages and of micro batches. *)
LEMMA SchedulesMatch ==
    ASSUME NEW S \in Nat, NEW n, NEW s \in Nat, s + 1 < S, NEW k \in Nat
    PROVE  /\ SendsActivation(S, n, s, k) <=> RecvsActivation(S, n, s + 1, k)
           /\ RecvsGrad(S, n, s, k) <=> SendsGrad(S, n, s + 1, k)
           /\ SendsActivation(S, n, s, k) =>
                   PrevMicroBatch(S, s, k) = StepMicroBatch(S, s + 1, k)
           /\ RecvsGrad(S, n, s, k) =>
                   StepMicroBatch(S, s, k) = PrevMicroBatch(S, s + 1, k)
<1>1. ValidStage(S, s + 1) /\ ValidStage(S, (s + 1) - 1)  BY DEF ValidStage
<1>2. CASE IsForward(s, k)
  BY <1>2, NeighboursAlternate DEF SendsActivation, RecvsActivation, SendsGrad, RecvsGrad
<1>3. CASE ~IsForward(s, k) /\ k = 0
  <2>1. /\ ~ValidMicroBatch(n, PrevMicroBatch(S, s, k))
        /\ ~ValidMicroBatch(n, PrevMicroBatch(S, s + 1, k))
        /\ ~ValidMicroBatch(n, StepMicroBatch(S, s + 1, k))
        /\ ~ValidMicroBatch(n, StepMicroBatch(S, s, k))
    BY <1>3, NothingInTheFirstStep
  <2> QED  BY <2>1 DEF SendsActivation, RecvsActivation, SendsGrad, RecvsGrad
<1>4. CASE ~IsForward(s, k) /\ k > 0
  <2>1. IsForward(s + 1, k)  BY <1>4, NeighboursAlternate
  <2> QED
    BY <1>1, <1>4, <2>1, ActivationsMeet, GradientsMeet
       DEF SendsActivation, RecvsActivation, SendsGrad, RecvsGrad
<1> QED  BY <1>2, <1>3, <1>4

----------------------------------------------------------------------------
StepsAreNumbers == step \in [Stages -> Nat]

LEMMA InitSteps == Init => StepsAreNumbers
BY DEF Init, StepsAreNumbers

LEMMA NextSteps == StepsAreNumbers /\ [Next]_vars => StepsAreNumbers'
<1> SUFFICES ASSUME StepsAreNumbers, [Next]_vars PROVE StepsAreNumbers'
  OBVIOUS
<1>1. ASSUME NEW s \in Stages, EndStep(s) PROVE StepsAreNumbers'
  BY <1>1 DEF EndStep, StepsAreNumbers
<1>2. ASSUME NEW s \in Stages, StageNext(s), ~EndStep(s) PROVE step' = step
  BY <1>2 DEF StageNext, BeginBatch, PassBarrier, EndBatch, ReduceTiedGrads, ReduceGrads,
              OptimizerStep, LoadMicroBatch, ForwardPass, BackwardPass, Advance
<1>3. ASSUME NEW s \in Stages \ {Last}, ExchangeActivation(s) PROVE step' = step
  BY <1>3 DEF ExchangeActivation, Advance
<1>4. ASSUME NEW s \in Stages \ {0}, ExchangeGrad(s) PROVE step' = step
  BY <1>4 DEF ExchangeGrad, Advance
<1>5. CASE UNCHANGED vars  BY <1>5 DEF StepsAreNumbers, vars, control
<1> QED  BY <1>1, <1>2, <1>3, <1>4, <1>5 DEF Next, StepsAreNumbers

LEMMA StepsMeet == StepsAreNumbers => NeighboursMeet
<1> SUFFICES ASSUME StepsAreNumbers, NEW s \in Stages \ {Last}
             PROVE  LET k == step[s]
                        n == M(s)
                    IN  /\ SendsActivation(NumStages, n, s, k) <=>
                                RecvsActivation(NumStages, n, s + 1, k)
                        /\ RecvsGrad(NumStages, n, s, k) <=> SendsGrad(NumStages, n, s + 1, k)
                        /\ SendsActivation(NumStages, n, s, k) =>
                                PrevMicroBatch(NumStages, s, k) = StepMicroBatch(NumStages, s + 1, k)
                        /\ RecvsGrad(NumStages, n, s, k) =>
                                StepMicroBatch(NumStages, s, k) = PrevMicroBatch(NumStages, s + 1, k)
  BY DEF NeighboursMeet
<1>1. NumStages \in Nat /\ s \in Nat /\ s + 1 < NumStages /\ step[s] \in Nat
  BY PipeAssumption DEF Stages, Last, StepsAreNumbers
<1> QED  BY <1>1, SchedulesMatch

(* Two neighbouring stages of any pipeline, in any sequence of batches,
   never disagree on what they exchange in a step of training: one sends
   if and only if the other receives, and the same micro batch
   (TrainSchedule of pipe/schedule.py). *)
THEOREM NeighboursMeetTheorem == Spec => []NeighboursMeet
<1>1. Init => StepsAreNumbers  BY InitSteps
<1>2. StepsAreNumbers /\ [Next]_vars => StepsAreNumbers'  BY NextSteps
<1>3. StepsAreNumbers => NeighboursMeet  BY StepsMeet
<1> QED  BY <1>1, <1>2, <1>3, PTL DEF Spec

----------------------------------------------------------------------------
(* What a call of train_batch or eval_batch has a stage do, in steps of
   some instructions each. *)

(* The first p - 1 instructions of a step have been executed, one of them
   has this name. *)
Did(list, p, name) == \E i \in 1 .. Len(list) : i < p /\ list[i].name = name
Count(x) == IF x THEN 1 ELSE 0

BuffersFor(c, s) == IF c.kind = "train" THEN TrainBuffers(NumStages, c.micro, s) ELSE 2

(* The forward and backward passes that stage s does before step k of a
   call, which is the number of activations that it receives and of
   gradients that it receives. *)
Within(n, x) == IF x < 0 THEN 0 ELSE IF x < n THEN x ELSE n
Forwards(c, s, k) ==
    Within(c.micro, IF c.kind = "train" THEN (k + 1 - s) \div 2 ELSE k - s)
Backwards(c, s, k) ==
    IF c.kind = "train" THEN Within(c.micro, (k + s + 2 - 2 * NumStages) \div 2) ELSE 0
Gradients(c) == IF c.kind = "train" THEN c.micro ELSE 0

CommandsOf(c, s, k) ==
    IF c.kind = "train" THEN TrainStep(NumStages, c.micro, s, k)
    ELSE InferenceStep(NumStages, c.micro, s, k)
StepsOf(c) == IF c.kind = "train" THEN TrainTotalSteps(NumStages, c.micro)
              ELSE InferenceTotalSteps(NumStages, c.micro)

----------------------------------------------------------------------------
(* The instructions of a step. *)
Names == {"LoadMicroBatch", "ForwardPass", "BackwardPass", "SendActivation",
          "RecvActivation", "SendGrad", "RecvGrad", "ReduceTiedGrads", "ReduceGrads",
          "OptimizerStep"}
Instructions == [name : Names, buffer : Int]
Has(list, y) == \E i \in 1 .. Len(list) : list[i] = y

(* No instruction occurs twice in a step, and what needs another one comes
   after it: instructions are in the order of these ranks, in training and
   in the evaluation of a stage that receives first or sends first. *)
Rank(order, name) ==
    IF name = "LoadMicroBatch" THEN IF order = "train" THEN 2 ELSE -1
    ELSE IF name = "RecvActivation" THEN IF order = "even" THEN 1 ELSE 0
    ELSE IF name = "SendActivation" THEN IF order = "odd" THEN 1 ELSE 0
    ELSE IF name \in {"SendGrad", "RecvGrad"} THEN 1
    ELSE IF name \in {"ForwardPass", "BackwardPass"} THEN 3
    ELSE IF name = "ReduceTiedGrads" THEN 4
    ELSE IF name = "ReduceGrads" THEN 5 ELSE 6

Ordered(order, list, from, to) ==
    /\ list \in Seq(Instructions)
    /\ \A i \in 1 .. Len(list) : Rank(order, list[i].name) \in from .. to - 1
    /\ \A i, j \in 1 .. Len(list) :
           i < j => Rank(order, list[i].name) < Rank(order, list[j].name)

(* A list of one instruction, or of none if its condition fails, is in
   order. *)
LEMMA OneInstruction ==
    ASSUME NEW order, NEW n \in Int, NEW next, next = n + 1,
           NEW c \in BOOLEAN, NEW x \in Instructions, Rank(order, x.name) = n
    PROVE  Ordered(order, Only(c, x), n, next)
<1>1. CASE c
  <2>1. Only(c, x) = <<x>>  BY <1>1 DEF Only
  <2>2. <<x>> \in Seq(Instructions) /\ Len(<<x>>) = 1 /\ <<x>>[1] = x  OBVIOUS
  <2>3. n \in n .. next - 1 /\ \A i \in 1 .. 1 : i = 1  OBVIOUS
  <2> DEFINE L == <<x>>
  <2>4. L \in Seq(Instructions) /\ Len(L) = 1 /\ L[1] = x  BY <2>2
  <2> HIDE DEF L
  <2>5. Ordered(order, L, n, next)  BY <2>3, <2>4 DEF Ordered
  <2> QED  BY <2>1, <2>5 DEF L
<1>2. CASE ~c
  <2>1. Only(c, x) = << >>  BY <1>2 DEF Only
  <2> QED  BY <2>1 DEF Ordered
<1> QED  BY <1>1, <1>2

LEMMA HasOne ==
    ASSUME NEW c, NEW x, NEW y
    PROVE  Has(Only(c, x), y) <=> c /\ y = x
<1>1. CASE c
  <2>1. Only(c, x) = <<x>>  BY <1>1 DEF Only
  <2>2. Len(<<x>>) = 1 /\ <<x>>[1] = x /\ \A i \in 1 .. 1 : i = 1  OBVIOUS
  <2>3. Has(<<x>>, y) <=> y = x  BY <2>2 DEF Has
  <2> QED  BY <1>1, <2>1, <2>3
<1>2. CASE ~c
  <2>1. Only(c, x) = << >>  BY <1>2 DEF Only
  <2> QED  BY <1>2, <2>1 DEF Has
<1> QED  BY <1>1, <1>2

(* Lists in order may be joined. *)
LEMMA Widened ==
    ASSUME NEW order, NEW a \in Int, NEW b \in Int, NEW d \in Int, b <= d,
           NEW P, Ordered(order, P, a, b)
    PROVE  Ordered(order, P, a, d)
<1>1. a .. b - 1 \subseteq a .. d - 1  OBVIOUS
<1>2. \A i \in 1 .. Len(P) : Rank(order, P[i].name) \in a .. d - 1
  BY <1>1 DEF Ordered
<1> QED  BY <1>2 DEF Ordered

LEMMA Joined ==
    ASSUME NEW order, NEW a \in Int, NEW b \in Int, NEW d \in Int, a <= b, b <= d,
           NEW P, NEW Q, Ordered(order, P, a, b), Ordered(order, Q, b, d)
    PROVE  /\ Ordered(order, P \o Q, a, d)
           /\ \A y : Has(P \o Q, y) <=> Has(P, y) \/ Has(Q, y)
<1> DEFINE L == P \o Q
<1>1. P \in Seq(Instructions) /\ Q \in Seq(Instructions)  BY DEF Ordered
<1>2. /\ L \in Seq(Instructions) /\ Len(L) = Len(P) + Len(Q)
      /\ \A i \in 1 .. Len(P) + Len(Q) : L[i] = IF i <= Len(P) THEN P[i] ELSE Q[i - Len(P)]
  BY <1>1, ConcatProperties
<1>3. Len(P) \in Nat /\ Len(Q) \in Nat  BY <1>1
<1> HIDE DEF L
<1>4. \A i \in 1 .. Len(L) :
          \/ i \in 1 .. Len(P) /\ L[i] = P[i]
          \/ i > Len(P) /\ i - Len(P) \in 1 .. Len(Q) /\ L[i] = Q[i - Len(P)]
  BY <1>2, <1>3
<1>5. \A i \in 1 .. Len(P) : i \in 1 .. Len(L) /\ L[i] = P[i]  BY <1>2, <1>3
<1>6. \A i \in 1 .. Len(Q) : i + Len(P) \in 1 .. Len(L) /\ L[i + Len(P)] = Q[i]
  <2> TAKE i \in 1 .. Len(Q)
  <2>1. i + Len(P) \in 1 .. Len(P) + Len(Q) /\ ~(i + Len(P) <= Len(P)) /\ (i + Len(P)) - Len(P) = i
    BY <1>3
  <2> QED  BY <1>2, <2>1
<1>7. ASSUME NEW i \in 1 .. Len(L) PROVE Rank(order, L[i].name) \in a .. d - 1
  <2>1. CASE i \in 1 .. Len(P) /\ L[i] = P[i]  BY <2>1 DEF Ordered
  <2>2. CASE i - Len(P) \in 1 .. Len(Q) /\ L[i] = Q[i - Len(P)]
    <3>1. Rank(order, Q[i - Len(P)].name) \in b .. d - 1  BY <2>2 DEF Ordered
    <3> QED  BY <2>2, <3>1
  <2> QED  BY <1>4, <2>1, <2>2
<1>8. ASSUME NEW i \in 1 .. Len(L), NEW j \in 1 .. Len(L), i < j
      PROVE  Rank(order, L[i].name) < Rank(order, L[j].name)
  <2>1. CASE j \in 1 .. Len(P)
    <3>1. i \in 1 .. Len(P)  BY <1>2, <1>3, <1>8, <2>1
    <3>2. L[i] = P[i] /\ L[j] = P[j]  BY <1>5, <2>1, <3>1
    <3> QED  BY <1>8, <2>1, <3>1, <3>2 DEF Ordered
  <2>2. CASE j > Len(P) /\ i \in 1 .. Len(P)
    <3>1. Rank(order, L[i].name) \in a .. b - 1  BY <1>5, <2>2 DEF Ordered
    <3>2. Rank(order, L[j].name) \in b .. d - 1
      <4>1. j - Len(P) \in 1 .. Len(Q) /\ L[j] = Q[j - Len(P)]
        BY <1>3, <1>4, <2>2
      <4> QED  BY <4>1 DEF Ordered
    <3> DEFINE ri == Rank(order, L[i].name)
               rj == Rank(order, L[j].name)
    <3>3. ri \in a .. b - 1 /\ rj \in b .. d - 1  BY <3>1, <3>2
    <3> HIDE DEF ri, rj
    <3>4. ri < rj  BY <3>3
    <3> QED  BY <3>4 DEF ri, rj
  <2>3. CASE i > Len(P)
    <3>1. i - Len(P) \in 1 .. Len(Q) /\ L[i] = Q[i - Len(P)]
      BY <1>3, <1>4, <2>3
    <3>2. j - Len(P) \in 1 .. Len(Q) /\ L[j] = Q[j - Len(P)] /\ i - Len(P) < j - Len(P)
      BY <1>3, <1>4, <1>8, <2>3
    <3> QED  BY <3>1, <3>2 DEF Ordered
  <2> QED  BY <1>3, <1>4, <2>1, <2>2, <2>3
<1>9. ASSUME NEW y PROVE Has(L, y) <=> Has(P, y) \/ Has(Q, y)
  <2>1. Has(L, y) => Has(P, y) \/ Has(Q, y)  BY <1>4 DEF Has
  <2>2. Has(P, y) => Has(L, y)  BY <1>5 DEF Has
  <2>3. Has(Q, y) => Has(L, y)  BY <1>6 DEF Has
  <2> QED  BY <2>1, <2>2, <2>3
<1> QED  BY <1>2, <1>7, <1>8, <1>9 DEF L, Ordered

(* The constants of a stage. *)
LEMMA StageFacts ==
    /\ NumStages \in Nat /\ NumStages > 1
    /\ Stages = 0 .. NumStages - 1 /\ Last = NumStages - 1
    /\ 0 \in Stages /\ Last \in Stages
BY PipeAssumption DEF Stages, Last

(* Every stage has a buffer, and no more than the model has. *)
LEMMA BufferCount ==
    ASSUME NEW c \in Call, NEW s \in Stages
    PROVE  /\ BuffersFor(c, s) \in Nat \ {0}
           /\ BuffersFor(c, s) <= MaxBuffers
BY StageFacts DEF Call, BuffersFor, TrainBuffers, MaxBuffers

LEMMA MicroBatchTypes ==
    ASSUME NEW s \in Stages, NEW k \in Nat
    PROVE  /\ s \in Nat
           /\ StepMicroBatch(NumStages, s, k) \in Int
           /\ PrevMicroBatch(NumStages, s, k) \in Int
<1>1. s \in Nat /\ NumStages \in Nat  BY StageFacts
<1>2. \A j \in Int : ForwardId(s, j) \in Int /\ BackwardId(NumStages, s, j) \in Int
  BY <1>1 DEF ForwardId, BackwardId
<1>3. \A j \in Int : StepMicroBatch(NumStages, s, j) \in Int
  BY <1>2 DEF StepMicroBatch
<1>4. k - 1 \in Int /\ -1 \in Int  OBVIOUS
<1> QED  BY <1>1, <1>3, <1>4 DEF PrevMicroBatch

(* The instructions of one step of training, and their order. *)
TrainHas(n, s, k, y) ==
    LET m == StepMicroBatch(NumStages, s, k)
        curr == m % TrainBuffers(NumStages, n, s)
        prev == PrevMicroBatch(NumStages, s, k) % TrainBuffers(NumStages, n, s)
        valid == ValidMicroBatch(n, m)
    IN  \/ RecvsActivation(NumStages, n, s, k) /\ y = Instr("RecvActivation", curr)
        \/ SendsGrad(NumStages, n, s, k) /\ y = Instr("SendGrad", prev)
        \/ SendsActivation(NumStages, n, s, k) /\ y = Instr("SendActivation", prev)
        \/ RecvsGrad(NumStages, n, s, k) /\ y = Instr("RecvGrad", curr)
        \/ s \in {0, Last} /\ IsForward(s, k) /\ valid /\ y = Instr("LoadMicroBatch", curr)
        \/ IsForward(s, k) /\ valid /\ y = Instr("ForwardPass", curr)
        \/ ~IsForward(s, k) /\ valid /\ y = Instr("BackwardPass", curr)
        \/ k = TrainTotalSteps(NumStages, n) - 1 /\ y = Instr("ReduceTiedGrads", -1)
        \/ k = TrainTotalSteps(NumStages, n) - 1 /\ y = Instr("ReduceGrads", -1)
        \/ k = TrainTotalSteps(NumStages, n) - 1 /\ y = Instr("OptimizerStep", -1)

LEMMA TrainInstructions ==
    ASSUME NEW n \in Nat, NEW s \in Stages, NEW k \in Nat
    PROVE  /\ Ordered("train", TrainStep(NumStages, n, s, k), 0, 7)
           /\ \A y : Has(TrainStep(NumStages, n, s, k), y) <=> TrainHas(n, s, k, y)
<1> DEFINE S == NumStages
           m == StepMicroBatch(S, s, k)
           curr == m % TrainBuffers(S, n, s)
           prev == PrevMicroBatch(S, s, k) % TrainBuffers(S, n, s)
           valid == ValidMicroBatch(n, m)
           forward == IsForward(s, k)
           last == k = TrainTotalSteps(S, n) - 1
           ra == RecvsActivation(S, n, s, k)
           sg == SendsGrad(S, n, s, k)
           sa == SendsActivation(S, n, s, k)
           rg == RecvsGrad(S, n, s, k)
           ld == s \in {0, S - 1} /\ forward /\ valid
           pass == IF forward THEN "ForwardPass" ELSE "BackwardPass"
           o == "train"
<1>1. curr \in Int /\ prev \in Int
  <2>1. TrainBuffers(S, n, s) \in Nat \ {0}  BY StageFacts DEF TrainBuffers
  <2> QED  BY <2>1, MicroBatchTypes
<1>2. /\ forward \in BOOLEAN /\ valid \in BOOLEAN /\ ra \in BOOLEAN /\ sg \in BOOLEAN
      /\ sa \in BOOLEAN /\ rg \in BOOLEAN /\ ld \in BOOLEAN /\ last \in BOOLEAN
  BY DEF IsForward, ValidMicroBatch, RecvsActivation, SendsGrad, SendsActivation, RecvsGrad
<1>3. /\ forward => ~sa /\ ~rg
      /\ ~forward => ~ra /\ ~sg
  BY DEF RecvsActivation, SendsGrad, SendsActivation, RecvsGrad
<1>4a. \A x \in Names, b \in Int : Instr(x, b) \in Instructions
  BY DEF Instr, Instructions
<1>4b. pass \in Names /\ -1 \in Int  BY DEF Names
<1>4. /\ Instr("RecvActivation", curr) \in Instructions
      /\ Instr("SendActivation", prev) \in Instructions
      /\ Instr("RecvGrad", curr) \in Instructions
      /\ Instr("SendGrad", prev) \in Instructions
      /\ Instr("LoadMicroBatch", curr) \in Instructions
      /\ Instr(pass, curr) \in Instructions
      /\ Instr("ReduceTiedGrads", -1) \in Instructions
      /\ Instr("ReduceGrads", -1) \in Instructions
      /\ Instr("OptimizerStep", -1) \in Instructions
  BY <1>1, <1>4a, <1>4b DEF Names
<1>5. /\ Rank(o, Instr("RecvActivation", curr).name) = 0
      /\ Rank(o, Instr("SendActivation", prev).name) = 0
      /\ Rank(o, Instr("RecvGrad", curr).name) = 1
      /\ Rank(o, Instr("SendGrad", prev).name) = 1
      /\ Rank(o, Instr("LoadMicroBatch", curr).name) = 2
      /\ Rank(o, Instr(pass, curr).name) = 3
      /\ Rank(o, Instr("ReduceTiedGrads", -1).name) = 4
      /\ Rank(o, Instr("ReduceGrads", -1).name) = 5
      /\ Rank(o, Instr("OptimizerStep", -1).name) = 6
  BY DEF Instr, Rank
<1> HIDE DEF o
<1> DEFINE a1 == Only(ra, Instr("RecvActivation", curr))
           a2 == Only(sg, Instr("SendGrad", prev))
           b1 == Only(sa, Instr("SendActivation", prev))
           b2 == Only(rg, Instr("RecvGrad", curr))
           E == IF forward THEN a1 \o a2 ELSE b1 \o b2
           L == Only(ld, Instr("LoadMicroBatch", curr))
           P == Only(valid, Instr(pass, curr))
           T == IF last THEN <<Instr("ReduceTiedGrads", -1), Instr("ReduceGrads", -1),
                               Instr("OptimizerStep", -1)>> ELSE << >>
<1>6. TrainStep(S, n, s, k) = ((E \o L) \o P) \o T
  BY DEF TrainStep, TrainExchanges
<1> HIDE DEF curr, prev, valid, forward, last, ra, sg, sa, rg, ld, pass
<1>7. /\ Ordered(o, a1, 0, 1) /\ Ordered(o, a2, 1, 2)
      /\ Ordered(o, b1, 0, 1) /\ Ordered(o, b2, 1, 2)
      /\ Ordered(o, L, 2, 3) /\ Ordered(o, P, 3, 4)
      /\ \A y : Has(a1, y) <=> ra /\ y = Instr("RecvActivation", curr)
      /\ \A y : Has(a2, y) <=> sg /\ y = Instr("SendGrad", prev)
      /\ \A y : Has(b1, y) <=> sa /\ y = Instr("SendActivation", prev)
      /\ \A y : Has(b2, y) <=> rg /\ y = Instr("RecvGrad", curr)
      /\ \A y : Has(L, y) <=> ld /\ y = Instr("LoadMicroBatch", curr)
      /\ \A y : Has(P, y) <=> valid /\ y = Instr(pass, curr)
  <2>1. Ordered(o, a1, 0, 1) /\ \A y : Has(a1, y) <=> ra /\ y = Instr("RecvActivation", curr)
    <3> DEFINE x == Instr("RecvActivation", curr)
    <3>1. x \in Instructions /\ Rank(o, x.name) = 0 /\ ra \in BOOLEAN
      BY <1>2, <1>4, <1>5
    <3> HIDE DEF x
    <3>2. Ordered(o, Only(ra, x), 0, 1)  BY <3>1, OneInstruction
    <3>3. \A y : Has(Only(ra, x), y) <=> ra /\ y = x  BY HasOne
    <3> QED  BY <3>2, <3>3 DEF x
  <2>2. Ordered(o, a2, 1, 2) /\ \A y : Has(a2, y) <=> sg /\ y = Instr("SendGrad", prev)
    <3> DEFINE x == Instr("SendGrad", prev)
    <3>1. x \in Instructions /\ Rank(o, x.name) = 1 /\ sg \in BOOLEAN
      BY <1>2, <1>4, <1>5
    <3> HIDE DEF x
    <3>2. Ordered(o, Only(sg, x), 1, 2)  BY <3>1, OneInstruction
    <3>3. \A y : Has(Only(sg, x), y) <=> sg /\ y = x  BY HasOne
    <3> QED  BY <3>2, <3>3 DEF x
  <2>3. Ordered(o, b1, 0, 1) /\ \A y : Has(b1, y) <=> sa /\ y = Instr("SendActivation", prev)
    <3> DEFINE x == Instr("SendActivation", prev)
    <3>1. x \in Instructions /\ Rank(o, x.name) = 0 /\ sa \in BOOLEAN
      BY <1>2, <1>4, <1>5
    <3> HIDE DEF x
    <3>2. Ordered(o, Only(sa, x), 0, 1)  BY <3>1, OneInstruction
    <3>3. \A y : Has(Only(sa, x), y) <=> sa /\ y = x  BY HasOne
    <3> QED  BY <3>2, <3>3 DEF x
  <2>4. Ordered(o, b2, 1, 2) /\ \A y : Has(b2, y) <=> rg /\ y = Instr("RecvGrad", curr)
    <3> DEFINE x == Instr("RecvGrad", curr)
    <3>1. x \in Instructions /\ Rank(o, x.name) = 1 /\ rg \in BOOLEAN
      BY <1>2, <1>4, <1>5
    <3> HIDE DEF x
    <3>2. Ordered(o, Only(rg, x), 1, 2)  BY <3>1, OneInstruction
    <3>3. \A y : Has(Only(rg, x), y) <=> rg /\ y = x  BY HasOne
    <3> QED  BY <3>2, <3>3 DEF x
  <2>5. Ordered(o, L, 2, 3) /\ \A y : Has(L, y) <=> ld /\ y = Instr("LoadMicroBatch", curr)
    <3> DEFINE x == Instr("LoadMicroBatch", curr)
    <3>1. x \in Instructions /\ Rank(o, x.name) = 2 /\ ld \in BOOLEAN
      BY <1>2, <1>4, <1>5
    <3> HIDE DEF x
    <3>2. Ordered(o, Only(ld, x), 2, 3)  BY <3>1, OneInstruction
    <3>3. \A y : Has(Only(ld, x), y) <=> ld /\ y = x  BY HasOne
    <3> QED  BY <3>2, <3>3 DEF x
  <2>6. Ordered(o, P, 3, 4) /\ \A y : Has(P, y) <=> valid /\ y = Instr(pass, curr)
    <3> DEFINE x == Instr(pass, curr)
    <3>1. x \in Instructions /\ Rank(o, x.name) = 3 /\ valid \in BOOLEAN
      BY <1>2, <1>4, <1>5
    <3> HIDE DEF x
    <3>2. Ordered(o, Only(valid, x), 3, 4)  BY <3>1, OneInstruction
    <3>3. \A y : Has(Only(valid, x), y) <=> valid /\ y = x  BY HasOne
    <3> QED  BY <3>2, <3>3 DEF x
  <2> HIDE DEF a1, a2, b1, b2, L, P
  <2> QED  BY <2>1, <2>2, <2>3, <2>4, <2>5, <2>6
<1>8. /\ Ordered(o, T, 4, 7)
      /\ \A y : Has(T, y) <=> \/ last /\ y = Instr("ReduceTiedGrads", -1)
                              \/ last /\ y = Instr("ReduceGrads", -1)
                              \/ last /\ y = Instr("OptimizerStep", -1)
  <2> DEFINE x == Instr("ReduceTiedGrads", -1)
             y == Instr("ReduceGrads", -1)
             z == Instr("OptimizerStep", -1)
             X == <<x, y, z>>
  <2>1. /\ x \in Instructions /\ y \in Instructions /\ z \in Instructions
        /\ Rank(o, x.name) = 4 /\ Rank(o, y.name) = 5 /\ Rank(o, z.name) = 6
    BY <1>4, <1>5
  <2> HIDE DEF x, y, z
  <2>2. X \in Seq(Instructions) /\ Len(X) = 3 /\ X[1] = x /\ X[2] = y /\ X[3] = z
    BY <2>1
  <2>3. T = IF last THEN X ELSE << >>  BY DEF x, y, z
  <2> HIDE DEF X, T
  <2>4. \A i \in 1 .. 3 : i = 1 \/ i = 2 \/ i = 3  OBVIOUS
  <2>5. Ordered(o, X, 4, 7)
    <3>1. ASSUME NEW i \in 1 .. 3 PROVE Rank(o, X[i].name) = 3 + i
      BY <2>1, <2>2, <2>4
    <3> QED  BY <2>2, <3>1 DEF Ordered
  <2>6. \A u : Has(X, u) <=> u \in {x, y, z}  BY <2>2, <2>4 DEF Has
  <2>7. Ordered(o, << >>, 4, 7) /\ \A u : ~Has(<< >>, u)  BY DEF Ordered, Has
  <2>8. /\ Ordered(o, T, 4, 7)
        /\ \A u : Has(T, u) <=> last /\ u \in {x, y, z}
    BY <2>3, <2>5, <2>6, <2>7
  <2> QED  BY <2>8 DEF x, y, z
<1> HIDE DEF a1, a2, b1, b2, L, P
<1>9. /\ Ordered(o, E, 0, 2)
      /\ \A y : Has(E, y) <=> \/ ra /\ y = Instr("RecvActivation", curr)
                              \/ sg /\ y = Instr("SendGrad", prev)
                              \/ sa /\ y = Instr("SendActivation", prev)
                              \/ rg /\ y = Instr("RecvGrad", curr)
  <2>1. CASE forward
    <3>1. /\ Ordered(o, a1 \o a2, 0, 2)
          /\ \A y : Has(a1 \o a2, y) <=> Has(a1, y) \/ Has(a2, y)
      BY <1>7, Joined
    <3>2. E = a1 \o a2  BY <2>1
    <3> HIDE DEF E
    <3> QED  BY <1>3, <1>7, <2>1, <3>1, <3>2
  <2>2. CASE ~forward
    <3>1. /\ Ordered(o, b1 \o b2, 0, 2)
          /\ \A y : Has(b1 \o b2, y) <=> Has(b1, y) \/ Has(b2, y)
      BY <1>7, Joined
    <3>2. E = b1 \o b2  BY <2>2
    <3> HIDE DEF E
    <3> QED  BY <1>3, <1>7, <2>2, <3>1, <3>2
  <2> QED  BY <2>1, <2>2
<1> HIDE DEF E, T
<1>12. /\ Ordered(o, E \o L, 0, 3)
       /\ \A y : Has(E \o L, y) <=> Has(E, y) \/ Has(L, y)
  BY <1>7, <1>9, Joined
<1>13. /\ Ordered(o, (E \o L) \o P, 0, 4)
       /\ \A y : Has((E \o L) \o P, y) <=> Has(E \o L, y) \/ Has(P, y)
  BY <1>7, <1>12, Joined
<1>14. /\ Ordered(o, ((E \o L) \o P) \o T, 0, 7)
       /\ \A y : Has(((E \o L) \o P) \o T, y) <=> Has((E \o L) \o P, y) \/ Has(T, y)
  BY <1>8, <1>13, Joined
<1>15. ASSUME NEW y
       PROVE  Has(TrainStep(S, n, s, k), y) <=> TrainHas(n, s, k, y)
  <2>1. Has(TrainStep(S, n, s, k), y) <=>
            \/ ra /\ y = Instr("RecvActivation", curr)
            \/ sg /\ y = Instr("SendGrad", prev)
            \/ sa /\ y = Instr("SendActivation", prev)
            \/ rg /\ y = Instr("RecvGrad", curr)
            \/ ld /\ y = Instr("LoadMicroBatch", curr)
            \/ valid /\ y = Instr(pass, curr)
            \/ last /\ y = Instr("ReduceTiedGrads", -1)
            \/ last /\ y = Instr("ReduceGrads", -1)
            \/ last /\ y = Instr("OptimizerStep", -1)
    BY ZenonT(60), <1>6, <1>7, <1>8, <1>9, <1>12, <1>13, <1>14
  <2>2. valid /\ y = Instr(pass, curr) <=>
            \/ forward /\ valid /\ y = Instr("ForwardPass", curr)
            \/ ~forward /\ valid /\ y = Instr("BackwardPass", curr)
    BY DEF pass
  <2> QED
    BY <2>1, <2>2
       DEF TrainHas, Last, curr, prev, valid, forward, last, ra, sg, sa, rg, ld
<1> QED  BY <1>6, <1>14, <1>15 DEF o
(* The instructions of one step of evaluation, and their order. *)
EvalOrder(s) == IF IsEven(s) THEN "even" ELSE "odd"

EvalHas(n, s, k, y) ==
    LET valid == ValidMicroBatch(n, k - s)
        recv == RecvBuf(s, k)
    IN  \/ s > 0 /\ valid /\ y = Instr("RecvActivation", recv)
        \/ s < Last /\ ValidMicroBatch(n, k - s - 1) /\ y = Instr("SendActivation", SendBuf(s, k))
        \/ s \in {0, Last} /\ valid /\ y = Instr("LoadMicroBatch", recv)
        \/ valid /\ y = Instr("ForwardPass", recv)

LEMMA EvalInstructions ==
    ASSUME NEW n \in Nat, NEW s \in Stages, NEW k \in Nat
    PROVE  /\ Ordered(EvalOrder(s), InferenceStep(NumStages, n, s, k), -1, 4)
           /\ \A y : Has(InferenceStep(NumStages, n, s, k), y) <=> EvalHas(n, s, k, y)
<1> DEFINE S == NumStages
           m == k - s
           valid == ValidMicroBatch(n, m)
           sends == ValidStage(S, s + 1) /\ ValidMicroBatch(n, m - 1)
           recvs == ValidStage(S, s - 1) /\ valid
           ld == s \in {0, S - 1} /\ valid
           rb == RecvBuf(s, k)
           sb == SendBuf(s, k)
           o == EvalOrder(s)
           Send == Only(sends, Instr("SendActivation", sb))
           Recv == Only(recvs, Instr("RecvActivation", rb))
           L == Only(ld, Instr("LoadMicroBatch", rb))
           E == IF IsEven(s) THEN Send \o Recv ELSE Recv \o Send
           P == Only(valid, Instr("ForwardPass", rb))
<1>1. InferenceStep(S, n, s, k) = (L \o E) \o P  BY DEF InferenceStep
<1>2. rb \in Int /\ sb \in Int  BY MicroBatchTypes DEF RecvBuf, SendBuf
<1>3. valid \in BOOLEAN /\ sends \in BOOLEAN /\ recvs \in BOOLEAN /\ ld \in BOOLEAN
  BY DEF ValidStage, ValidMicroBatch
<1>4. \A x \in Names, b \in Int : Instr(x, b) \in Instructions /\ Instr(x, b).name = x
  BY DEF Instr, Instructions
<1>5. /\ Rank(o, "LoadMicroBatch") = -1
      /\ Rank(o, "SendActivation") = IF IsEven(s) THEN 0 ELSE 1
      /\ Rank(o, "RecvActivation") = IF IsEven(s) THEN 1 ELSE 0
      /\ Rank(o, "ForwardPass") = 3
  BY DEF Rank, EvalOrder
<1>6. {"LoadMicroBatch", "SendActivation", "RecvActivation", "ForwardPass"} \subseteq Names
  BY DEF Names
<1> HIDE DEF o, valid, sends, recvs, ld, rb, sb
<1>7. Ordered(o, L, -1, 0) /\ \A y : Has(L, y) <=> ld /\ y = Instr("LoadMicroBatch", rb)
  <2> DEFINE x == Instr("LoadMicroBatch", rb)
  <2>1. x \in Instructions /\ Rank(o, x.name) = -1  BY <1>2, <1>4, <1>5, <1>6
  <2> HIDE DEF x
  <2>2. Ordered(o, Only(ld, x), -1, 0)  BY <1>3, <2>1, OneInstruction
  <2>3. \A y : Has(Only(ld, x), y) <=> ld /\ y = x  BY HasOne
  <2> QED  BY <2>2, <2>3 DEF x
<1>8. Ordered(o, P, 3, 4) /\ \A y : Has(P, y) <=> valid /\ y = Instr("ForwardPass", rb)
  <2> DEFINE x == Instr("ForwardPass", rb)
  <2>1. x \in Instructions /\ Rank(o, x.name) = 3  BY <1>2, <1>4, <1>5, <1>6
  <2> HIDE DEF x
  <2>2. Ordered(o, Only(valid, x), 3, 4)  BY <1>3, <2>1, OneInstruction
  <2>3. \A y : Has(Only(valid, x), y) <=> valid /\ y = x  BY HasOne
  <2> QED  BY <2>2, <2>3 DEF x
<1>9. /\ Ordered(o, E, 0, 3)
      /\ \A y : Has(E, y) <=> \/ recvs /\ y = Instr("RecvActivation", rb)
                              \/ sends /\ y = Instr("SendActivation", sb)
  <2> DEFINE x == Instr("SendActivation", sb)
             z == Instr("RecvActivation", rb)
  <2>1. /\ x \in Instructions /\ x.name = "SendActivation"
        /\ z \in Instructions /\ z.name = "RecvActivation"
    BY <1>2, <1>4, <1>6
  <2> HIDE DEF x, z
  <2>2. \A y : Has(Only(sends, x), y) <=> sends /\ y = x  BY HasOne
  <2>3. \A y : Has(Only(recvs, z), y) <=> recvs /\ y = z  BY HasOne
  <2>4. CASE IsEven(s)
    <3>1. Rank(o, x.name) = 0 /\ Rank(o, z.name) = 1  BY <1>5, <2>1, <2>4
    <3>2. Ordered(o, Only(sends, x), 0, 1)  BY <1>3, <2>1, <3>1, OneInstruction
    <3>3. Ordered(o, Only(recvs, z), 1, 2)  BY <1>3, <2>1, <3>1, OneInstruction
    <3> DEFINE A == Only(sends, x)
               B == Only(recvs, z)
    <3>4. E = A \o B  BY <2>4 DEF x, z
    <3> HIDE DEF A, B, E
    <3>5. Ordered(o, A \o B, 0, 2) /\ \A y : Has(A \o B, y) <=> Has(A, y) \/ Has(B, y)
      BY <3>2, <3>3, Joined DEF A, B
    <3>6. Ordered(o, A \o B, 0, 3)  BY <3>5, Widened
    <3> QED  BY <2>2, <2>3, <3>4, <3>5, <3>6 DEF A, B, x, z
  <2>5. CASE ~IsEven(s)
    <3>1. Rank(o, x.name) = 1 /\ Rank(o, z.name) = 0  BY <1>5, <2>1, <2>5
    <3>2. Ordered(o, Only(sends, x), 1, 2)  BY <1>3, <2>1, <3>1, OneInstruction
    <3>3. Ordered(o, Only(recvs, z), 0, 1)  BY <1>3, <2>1, <3>1, OneInstruction
    <3> DEFINE A == Only(sends, x)
               B == Only(recvs, z)
    <3>4. E = B \o A  BY <2>5 DEF x, z
    <3> HIDE DEF A, B, E
    <3>5. Ordered(o, B \o A, 0, 2) /\ \A y : Has(B \o A, y) <=> Has(B, y) \/ Has(A, y)
      BY <3>2, <3>3, Joined DEF A, B
    <3>6. Ordered(o, B \o A, 0, 3)  BY <3>5, Widened
    <3> QED  BY <2>2, <2>3, <3>4, <3>5, <3>6 DEF A, B, x, z
  <2> QED  BY <2>4, <2>5
<1> HIDE DEF L, E, P
<1>10. /\ Ordered(o, L \o E, -1, 3)
       /\ \A y : Has(L \o E, y) <=> Has(L, y) \/ Has(E, y)
  BY <1>7, <1>9, Joined
<1>11. /\ Ordered(o, (L \o E) \o P, -1, 4)
       /\ \A y : Has((L \o E) \o P, y) <=> Has(L \o E, y) \/ Has(P, y)
  BY <1>8, <1>10, Joined
<1>12. /\ ValidStage(S, s + 1) <=> s < Last
       /\ ValidStage(S, s - 1) <=> s > 0
  BY StageFacts DEF ValidStage
<1>13. m - 1 = k - s - 1  OBVIOUS
<1>14. ASSUME NEW y
       PROVE  Has(InferenceStep(S, n, s, k), y) <=> EvalHas(n, s, k, y)
  <2>1. Has(InferenceStep(S, n, s, k), y) <=>
            \/ ld /\ y = Instr("LoadMicroBatch", rb)
            \/ recvs /\ y = Instr("RecvActivation", rb)
            \/ sends /\ y = Instr("SendActivation", sb)
            \/ valid /\ y = Instr("ForwardPass", rb)
    BY <1>1, <1>7, <1>8, <1>9, <1>10, <1>11
  <2> QED
    BY <1>12, <1>13, <2>1 DEF EvalHas, Last, valid, sends, recvs, ld, rb, sb
<1> QED  BY <1>1, <1>11, <1>14 DEF o

----------------------------------------------------------------------------
(* How often a stage has executed an instruction. *)

(* How often an instruction is executed before step k of a call, in the
   whole call, and up to a place of the call. *)
Occurs(list, name) == \E i \in 1 .. Len(list) : list[i].name = name

Total(c, name) ==
    IF name \in {"RecvGrad", "BackwardPass", "SendGrad"} THEN Gradients(c)
    ELSE IF name = "OptimizerStep" THEN Count(c.kind = "train") ELSE c.micro

Before(c, s, k, name) ==
    IF name = "SendActivation" THEN Forwards(c, s + 1, k)
    ELSE IF name \in {"RecvGrad", "BackwardPass"} THEN Backwards(c, s, k)
    ELSE IF name = "SendGrad" THEN Backwards(c, s - 1, k)
    ELSE IF name = "OptimizerStep" THEN IF k = StepsOf(c) THEN Total(c, name) ELSE 0
    ELSE Forwards(c, s, k)

Counted == {"LoadMicroBatch", "ForwardPass", "BackwardPass", "SendActivation",
            "RecvActivation", "SendGrad", "RecvGrad", "OptimizerStep"}

(* The instructions that a stage has. *)
Does(s, name) ==
    /\ name \in Counted
    /\ name = "LoadMicroBatch" => s \in {0, Last}
    /\ name \in {"RecvActivation", "SendGrad"} => s > 0
    /\ name \in {"SendActivation", "RecvGrad"} => s < Last

(* The length of a call. *)
LEMMA CallFacts ==
    ASSUME NEW c \in Call
    PROVE  /\ c.micro \in Nat /\ c.micro > 0 /\ c.kind \in {"train", "eval"}
           /\ StepsOf(c) \in Nat /\ StepsOf(c) > 0
           /\ c.kind = "train" => StepsOf(c) = 2 * (c.micro + NumStages - 1)
           /\ c.kind = "eval" => StepsOf(c) = c.micro + NumStages - 1
BY StageFacts DEF Call, Kinds, StepsOf, TrainTotalSteps, InferenceTotalSteps

LEMMA CountsAreNumbers ==
    ASSUME NEW c \in Call, NEW s \in Stages, NEW k \in Int, NEW name
    PROVE  /\ Forwards(c, s, k) \in Nat /\ Forwards(c, s + 1, k) \in Nat
           /\ Backwards(c, s, k) \in Nat /\ Backwards(c, s - 1, k) \in Nat
           /\ Before(c, s, k, name) \in Nat /\ Total(c, name) \in Nat
<1>1. NumStages \in Int /\ s \in Int /\ c.micro \in Nat
  BY StageFacts, CallFacts
<1>2. \A n \in Nat, x \in Int : Within(n, x) \in Nat  BY DEF Within
<1>3. \A t \in Int : Forwards(c, t, k) \in Nat /\ Backwards(c, t, k) \in Nat
  <2> TAKE t \in Int
  <2>1. (k + 1 - t) \div 2 \in Int /\ k - t \in Int /\ (k + t + 2 - 2 * NumStages) \div 2 \in Int
    BY <1>1
  <2> QED  BY <1>1, <1>2, <2>1 DEF Forwards, Backwards
<1>4. s + 1 \in Int /\ s - 1 \in Int  BY <1>1
<1>5. Total(c, name) \in Nat  BY <1>1 DEF Total, Gradients, Count
<1> QED  BY <1>1, <1>3, <1>4, <1>5 DEF Before

(* Nothing is done before the first step, everything before the last. *)
LEMMA NothingAtFirst ==
    ASSUME NEW c \in Call, NEW s \in Stages, NEW name, Does(s, name)
    PROVE  Before(c, s, 0, name) = 0
<1>1. /\ NumStages \in Nat /\ s \in Nat /\ s < NumStages /\ NumStages > 1
      /\ name = "SendGrad" => s > 0
  BY StageFacts DEF Does
<1>2. Forwards(c, s, 0) = 0 /\ Forwards(c, s + 1, 0) = 0 /\ Backwards(c, s, 0) = 0
  BY <1>1, CallFacts DEF Forwards, Backwards, Within
<1>3. s > 0 => Backwards(c, s - 1, 0) = 0
  BY <1>1, CallFacts DEF Forwards, Backwards, Within
<1> QED  BY <1>1, <1>2, <1>3, CallFacts DEF Before

LEMMA AllAtTheEnd ==
    ASSUME NEW c \in Call, NEW s \in Stages, NEW name, Does(s, name)
    PROVE  Before(c, s, StepsOf(c), name) = Total(c, name)
<1>1. /\ NumStages \in Nat /\ s \in Nat /\ s < NumStages /\ NumStages > 1
      /\ name = "SendActivation" => s + 1 < NumStages
      /\ name = "SendGrad" => s > 0
      /\ name \in Counted
  BY StageFacts DEF Does
<1>2. Forwards(c, s, StepsOf(c)) = c.micro /\ Backwards(c, s, StepsOf(c)) = Gradients(c)
  BY <1>1, CallFacts DEF Forwards, Backwards, Within, Gradients
<1>3. s + 1 < NumStages => Forwards(c, s + 1, StepsOf(c)) = c.micro
  BY <1>1, CallFacts DEF Forwards, Within
<1>4. s > 0 => Backwards(c, s - 1, StepsOf(c)) = Gradients(c)
  BY <1>1, CallFacts DEF Backwards, Within, Gradients
<1> QED  BY <1>1, <1>2, <1>3, <1>4 DEF Before, Total, Counted

LEMMA ModDistinct ==
    ASSUME NEW a \in Int, NEW b \in Int, NEW B \in Nat, a < b, b - a < B
    PROVE  a % B # b % B
<1> DEFINE u == a \div B
           v == b \div B
           q == v - u
<1>1. B > 0 /\ u \in Int /\ v \in Int /\ q \in Int  OBVIOUS
<1>2. a = (B * u) + (a % B) /\ b = (B * v) + (b % B)  BY <1>1
<1> HIDE DEF u, v
<1> SUFFICES ASSUME a % B = b % B PROVE FALSE  OBVIOUS
<1>3. b - a = (B * v) - (B * u)
  <2> DEFINE r == a % B
             x == B * u
             y == B * v
  <2>1. r \in Int /\ x \in Int /\ y \in Int /\ a = x + r /\ b = y + r
    BY <1>1, <1>2
  <2> HIDE DEF r, x, y
  <2>2. b - a = y - x  BY <2>1
  <2> QED  BY <2>2 DEF x, y
<1>4. b - a = B * q  BY <1>1, <1>3
<1> HIDE DEF q
<1>5. q <= 0 => B * q <= 0  BY <1>1
<1>6. q >= 1 => B * q >= B  BY <1>1
<1> QED  BY <1>1, <1>4, <1>5, <1>6

(* The micro batch that a stage computes or exchanges in a step of
   training is the number of those that it has done before. *)
ForwardOf(s, k) == (k + 1 - s) \div 2
BackwardOf(s, k) == (k + s + 2 - 2 * NumStages) \div 2

LEMMA ForwardNumbers ==
    ASSUME NEW s \in Stages, NEW k \in Nat, IsForward(s, k)
    PROVE  /\ StepMicroBatch(NumStages, s, k) = ForwardOf(s, k)
           /\ \/ PrevMicroBatch(NumStages, s, k) = BackwardOf(s - 1, k)
              \/ (PrevMicroBatch(NumStages, s, k) < 0 /\ BackwardOf(s - 1, k) < 0)
           /\ ForwardOf(s, k + 1) = ForwardOf(s, k) + 1 /\ ForwardOf(s + 1, k + 1) = ForwardOf(s + 1, k)
           /\ BackwardOf(s, k + 1) = BackwardOf(s, k) /\ BackwardOf(s - 1, k + 1) = BackwardOf(s - 1, k) + 1
           /\ ForwardOf(s, k) - BackwardOf(s - 1, k) = NumStages - s
           /\ BackwardOf(s, k) = BackwardOf(s - 1, k) + 1 /\ ForwardOf(s + 1, k) = ForwardOf(s, k)
<1>1. NumStages \in Nat /\ s \in Nat /\ s < NumStages /\ NumStages > 1
  BY StageFacts
<1>2. IsForward(s, k) <=> (k - s) % 2 = 0  BY <1>1 DEF IsForward, IsEven
<1>3. PICK h \in Int : k = s + 2 * h
  <2>1. k = s + 2 * ((k - s) \div 2)  BY <1>1, <1>2
  <2> QED  BY <1>1, <2>1
<1>4. ForwardOf(s, k) = h /\ ForwardOf(s, k + 1) = h + 1 /\ ForwardOf(s + 1, k) = h /\ ForwardOf(s + 1, k + 1) = h
  BY <1>1, <1>3 DEF ForwardOf
<1>5. /\ BackwardOf(s, k) = h + s + 1 - NumStages /\ BackwardOf(s, k + 1) = h + s + 1 - NumStages
      /\ BackwardOf(s - 1, k) = h + s - NumStages /\ BackwardOf(s - 1, k + 1) = h + s + 1 - NumStages
  BY <1>1, <1>3 DEF BackwardOf
<1>6. StepMicroBatch(NumStages, s, k) = h
  BY <1>1, <1>3 DEF StepMicroBatch, ForwardId, IsForward, IsEven
<1>7. k > 0 => PrevMicroBatch(NumStages, s, k) = h + s - NumStages
  <2>1. k > 0 => ~IsForward(s, k - 1)  BY <1>1 DEF IsForward, IsEven
  <2>2. IsEven(k - 1) => (k - 1) \div 2 - NumStages + (s + 1) \div 2 = h + s - NumStages
    BY <1>1, <1>3 DEF IsEven
  <2>3. ~IsEven(k - 1) => ((k - 1) - 1) \div 2 - NumStages + 1 + s \div 2 = h + s - NumStages
    BY <1>1, <1>3 DEF IsEven
  <2> QED  BY <2>1, <2>2, <2>3 DEF PrevMicroBatch, StepMicroBatch, BackwardId
<1>8. k = 0 => PrevMicroBatch(NumStages, s, k) < 0 /\ h + s - NumStages < 0
  BY <1>1, <1>3 DEF PrevMicroBatch
<1> QED  BY <1>1, <1>4, <1>5, <1>6, <1>7, <1>8

LEMMA BackwardNumbers ==
    ASSUME NEW s \in Stages, NEW k \in Nat, ~IsForward(s, k)
    PROVE  /\ StepMicroBatch(NumStages, s, k) = BackwardOf(s, k)
           /\ \/ PrevMicroBatch(NumStages, s, k) = ForwardOf(s + 1, k)
              \/ (PrevMicroBatch(NumStages, s, k) < 0 /\ ForwardOf(s + 1, k) < 0)
           /\ ForwardOf(s, k + 1) = ForwardOf(s, k) /\ ForwardOf(s + 1, k + 1) = ForwardOf(s + 1, k) + 1
           /\ BackwardOf(s, k + 1) = BackwardOf(s, k) + 1 /\ BackwardOf(s - 1, k + 1) = BackwardOf(s - 1, k)
           /\ ForwardOf(s, k) - BackwardOf(s, k) = NumStages - s
           /\ BackwardOf(s - 1, k) = BackwardOf(s, k) /\ ForwardOf(s, k) = ForwardOf(s + 1, k) + 1
<1>1. NumStages \in Nat /\ s \in Nat /\ s < NumStages /\ NumStages > 1
  BY StageFacts
<1>2. IsForward(s, k) <=> (k - s) % 2 = 0  BY <1>1 DEF IsForward, IsEven
<1>3. PICK h \in Int : k = s + 2 * h + 1
  <2>1. k = s + 2 * ((k - s) \div 2) + 1  BY <1>1, <1>2
  <2> QED  BY <1>1, <2>1
<1>4. ForwardOf(s, k) = h + 1 /\ ForwardOf(s, k + 1) = h + 1 /\ ForwardOf(s + 1, k) = h /\ ForwardOf(s + 1, k + 1) = h + 1
  BY <1>1, <1>3 DEF ForwardOf
<1>5. /\ BackwardOf(s, k) = h + s + 1 - NumStages /\ BackwardOf(s, k + 1) = h + s + 2 - NumStages
      /\ BackwardOf(s - 1, k) = h + s + 1 - NumStages /\ BackwardOf(s - 1, k + 1) = h + s + 1 - NumStages
  BY <1>1, <1>3 DEF BackwardOf
<1>6. StepMicroBatch(NumStages, s, k) = h + s + 1 - NumStages
  <2>1. IsEven(k) => k \div 2 - NumStages + (s + 1) \div 2 = h + s + 1 - NumStages
    BY <1>1, <1>3 DEF IsEven
  <2>2. ~IsEven(k) => (k - 1) \div 2 - NumStages + 1 + s \div 2 = h + s + 1 - NumStages
    BY <1>1, <1>3 DEF IsEven
  <2> QED  BY <2>1, <2>2 DEF StepMicroBatch, BackwardId
<1>7. k > 0 => PrevMicroBatch(NumStages, s, k) = h
  <2>1. k > 0 => IsForward(s, k - 1)  BY <1>1 DEF IsForward, IsEven
  <2>2. IsEven(k - 1) => (k - 1) \div 2 - s \div 2 = h
    BY <1>1, <1>3 DEF IsEven
  <2>3. ~IsEven(k - 1) => ((k - 1) - 1) \div 2 - s \div 2 = h
    BY <1>1, <1>3 DEF IsEven
  <2> QED  BY <2>1, <2>2, <2>3 DEF PrevMicroBatch, StepMicroBatch, ForwardId
<1>8. k = 0 => PrevMicroBatch(NumStages, s, k) < 0 /\ h < 0
  BY <1>1, <1>3 DEF PrevMicroBatch
<1> QED  BY <1>1, <1>4, <1>5, <1>6, <1>7, <1>8

(* The micro batch of an instruction, and whether the step has it. *)
TrainHasName(n, s, k, name) ==
    LET valid == ValidMicroBatch(n, StepMicroBatch(NumStages, s, k))
    IN  \/ name = "RecvActivation" /\ RecvsActivation(NumStages, n, s, k)
        \/ name = "SendGrad" /\ SendsGrad(NumStages, n, s, k)
        \/ name = "SendActivation" /\ SendsActivation(NumStages, n, s, k)
        \/ name = "RecvGrad" /\ RecvsGrad(NumStages, n, s, k)
        \/ name = "LoadMicroBatch" /\ s \in {0, Last} /\ IsForward(s, k) /\ valid
        \/ name = "ForwardPass" /\ IsForward(s, k) /\ valid
        \/ name = "BackwardPass" /\ ~IsForward(s, k) /\ valid
        \/ name = "OptimizerStep" /\ k = TrainTotalSteps(NumStages, n) - 1

(* An instruction occurs in a step if the micro batch that it is about is
   one of the call's. *)
LEMMA TrainOccurs ==
    ASSUME NEW n \in Nat, NEW s \in Stages, NEW k \in Nat, NEW name \in Counted
    PROVE  Occurs(TrainStep(NumStages, n, s, k), name) <=> TrainHasName(n, s, k, name)
<1> DEFINE list == TrainStep(NumStages, n, s, k)
<1>1. Occurs(list, name) <=> \E y : Has(list, y) /\ y.name = name
  BY DEF Occurs, Has
<1>2. \A y : Has(list, y) <=> TrainHas(n, s, k, y)  BY TrainInstructions
<1> HIDE DEF list
<1>3. Occurs(list, name) <=> \E y : TrainHas(n, s, k, y) /\ y.name = name
  BY <1>1, <1>2
<1>4. \A x, b : Instr(x, b).name = x  BY DEF Instr
<1>5. ASSUME NEW y, TrainHas(n, s, k, y), y.name = name PROVE TrainHasName(n, s, k, name)
  BY <1>4, <1>5 DEF TrainHas, TrainHasName, Counted
<1>6. ASSUME TrainHasName(n, s, k, name) PROVE \E y : TrainHas(n, s, k, y) /\ y.name = name
  <2> DEFINE m == StepMicroBatch(NumStages, s, k)
             curr == m % TrainBuffers(NumStages, n, s)
             prev == PrevMicroBatch(NumStages, s, k) % TrainBuffers(NumStages, n, s)
             y == Instr(name, IF name \in {"SendGrad", "SendActivation"} THEN prev
                              ELSE IF name = "OptimizerStep" THEN -1 ELSE curr)
  <2>1. TrainHas(n, s, k, y)  BY <1>6 DEF TrainHas, TrainHasName
  <2>2. y.name = name  BY <1>4
  <2> QED  BY <2>1, <2>2
<1> QED  BY <1>3, <1>5, <1>6 DEF list

EvalHasName(n, s, k, name) ==
    LET valid == ValidMicroBatch(n, k - s)
    IN  \/ name = "RecvActivation" /\ s > 0 /\ valid
        \/ name = "SendActivation" /\ s < Last /\ ValidMicroBatch(n, k - s - 1)
        \/ name = "LoadMicroBatch" /\ s \in {0, Last} /\ valid
        \/ name = "ForwardPass" /\ valid

LEMMA EvalOccurs ==
    ASSUME NEW n \in Nat, NEW s \in Stages, NEW k \in Nat, NEW name \in Counted
    PROVE  Occurs(InferenceStep(NumStages, n, s, k), name) <=> EvalHasName(n, s, k, name)
<1> DEFINE list == InferenceStep(NumStages, n, s, k)
<1>1. Occurs(list, name) <=> \E y : Has(list, y) /\ y.name = name
  BY DEF Occurs, Has
<1>2. \A y : Has(list, y) <=> EvalHas(n, s, k, y)  BY EvalInstructions
<1> HIDE DEF list
<1>3. Occurs(list, name) <=> \E y : EvalHas(n, s, k, y) /\ y.name = name
  BY <1>1, <1>2
<1>4. \A x, b : Instr(x, b).name = x  BY DEF Instr
<1>5. ASSUME NEW y, EvalHas(n, s, k, y), y.name = name PROVE EvalHasName(n, s, k, name)
  BY <1>4, <1>5 DEF EvalHas, EvalHasName, Counted
<1>6. ASSUME EvalHasName(n, s, k, name) PROVE \E y : EvalHas(n, s, k, y) /\ y.name = name
  <2> DEFINE y == Instr(name, IF name = "SendActivation" THEN SendBuf(s, k) ELSE RecvBuf(s, k))
  <2>1. EvalHas(n, s, k, y)  BY <1>6 DEF EvalHas, EvalHasName
  <2>2. y.name = name  BY <1>4
  <2> QED  BY <2>1, <2>2
<1> QED  BY <1>3, <1>5, <1>6 DEF list

(* A step adds one to what was done before it for every instruction of it. *)
LEMMA TrainAdds ==
    ASSUME NEW c \in Call, c.kind = "train", NEW s \in Stages,
           NEW k \in 0 .. StepsOf(c) - 1, NEW name, Does(s, name)
    PROVE  Before(c, s, k + 1, name) =
               Before(c, s, k, name) + Count(TrainHasName(c.micro, s, k, name))
<1> DEFINE S == NumStages
           n == c.micro
           m == StepMicroBatch(S, s, k)
           pm == PrevMicroBatch(S, s, k)
<1>1. /\ S \in Nat /\ s \in Nat /\ s < S /\ S > 1 /\ n \in Nat /\ n > 0 /\ k \in Nat
      /\ StepsOf(c) = TrainTotalSteps(S, n) /\ StepsOf(c) \in Nat /\ Last = S - 1
      /\ m \in Int /\ pm \in Int
  <2>1. S \in Nat /\ s \in Nat /\ s < S /\ S > 1 /\ n \in Nat /\ n > 0 /\ Last = S - 1
    BY StageFacts, CallFacts
  <2>2. StepsOf(c) = TrainTotalSteps(S, n) /\ StepsOf(c) \in Nat
    BY CallFacts DEF StepsOf
  <2>3. k \in Nat  BY <2>2
  <2> QED  BY <2>1, <2>2, <2>3, MicroBatchTypes
<1>2. /\ ForwardOf(s, k) \in Int /\ ForwardOf(s, k + 1) \in Int /\ BackwardOf(s, k) \in Int /\ BackwardOf(s, k + 1) \in Int
      /\ ForwardOf(s + 1, k) \in Int /\ ForwardOf(s + 1, k + 1) \in Int /\ BackwardOf(s - 1, k) \in Int
      /\ BackwardOf(s - 1, k + 1) \in Int
  BY <1>1 DEF ForwardOf, BackwardOf
<1>3. /\ Forwards(c, s, k) = Within(n, ForwardOf(s, k)) /\ Forwards(c, s, k + 1) = Within(n, ForwardOf(s, k + 1))
      /\ Forwards(c, s + 1, k) = Within(n, ForwardOf(s + 1, k))
      /\ Forwards(c, s + 1, k + 1) = Within(n, ForwardOf(s + 1, k + 1))
      /\ Backwards(c, s, k) = Within(n, BackwardOf(s, k))
      /\ Backwards(c, s, k + 1) = Within(n, BackwardOf(s, k + 1))
      /\ Backwards(c, s - 1, k) = Within(n, BackwardOf(s - 1, k))
      /\ Backwards(c, s - 1, k + 1) = Within(n, BackwardOf(s - 1, k + 1))
  BY DEF Forwards, Backwards, ForwardOf, BackwardOf
<1>4. \A x \in Int : Within(n, x + 1) = Within(n, x) + Count(0 <= x /\ x < n)
  BY <1>1 DEF Within, Count
<1>6. /\ ValidStage(S, s - 1) <=> s > 0
      /\ ValidStage(S, s + 1) <=> s < Last
  BY <1>1 DEF ValidStage
<1>7. /\ name = "LoadMicroBatch" => s \in {0, Last}
      /\ name \in {"RecvActivation", "SendGrad"} => s > 0
      /\ name \in {"SendActivation", "RecvGrad"} => s < Last
      /\ name \in Counted
  BY DEF Does
<1>10. Before(c, s, k, name) \in Nat /\ Before(c, s, k + 1, name) \in Nat
  BY <1>1, CountsAreNumbers
<1> HIDE DEF S, n, m, pm
<1>8. CASE IsForward(s, k)
  <2>1. /\ m = ForwardOf(s, k) /\ (pm = BackwardOf(s - 1, k) \/ (pm < 0 /\ BackwardOf(s - 1, k) < 0))
        /\ ForwardOf(s, k + 1) = ForwardOf(s, k) + 1 /\ ForwardOf(s + 1, k + 1) = ForwardOf(s + 1, k)
        /\ BackwardOf(s, k + 1) = BackwardOf(s, k) /\ BackwardOf(s - 1, k + 1) = BackwardOf(s - 1, k) + 1
    BY <1>1, <1>8, ForwardNumbers DEF S, m, pm
  <2>2. CASE name \in {"RecvActivation", "LoadMicroBatch", "ForwardPass"}
    <3>1. TrainHasName(n, s, k, name) <=> 0 <= ForwardOf(s, k) /\ ForwardOf(s, k) < n
      BY <1>6, <1>7, <1>8, <2>1, <2>2
         DEF TrainHasName, RecvsActivation, ValidMicroBatch, S, m
    <3>2. Before(c, s, k, name) = Within(n, ForwardOf(s, k))
          /\ Before(c, s, k + 1, name) = Within(n, ForwardOf(s, k) + 1)
      BY <1>3, <2>1, <2>2 DEF Before
    <3>3. Count(TrainHasName(n, s, k, name)) = Count(0 <= ForwardOf(s, k) /\ ForwardOf(s, k) < n)
      BY <3>1 DEF Count
    <3> QED  BY <1>2, <1>4, <3>2, <3>3 DEF n
  <2>3. CASE name = "SendGrad"
    <3>1. TrainHasName(n, s, k, name) <=> 0 <= BackwardOf(s - 1, k) /\ BackwardOf(s - 1, k) < n
      BY <1>1, <1>2, <1>6, <1>7, <1>8, <2>1, <2>3
         DEF TrainHasName, SendsGrad, ValidMicroBatch, S, pm
    <3>2. Before(c, s, k, name) = Within(n, BackwardOf(s - 1, k))
          /\ Before(c, s, k + 1, name) = Within(n, BackwardOf(s - 1, k) + 1)
      BY <1>3, <2>1, <2>3 DEF Before
    <3>3. Count(TrainHasName(n, s, k, name)) = Count(0 <= BackwardOf(s - 1, k) /\ BackwardOf(s - 1, k) < n)
      BY <3>1 DEF Count
    <3> QED  BY <1>2, <1>4, <3>2, <3>3 DEF n
  <2>4. CASE name \in {"SendActivation", "RecvGrad", "BackwardPass"}
    <3>1. ~TrainHasName(n, s, k, name)
      BY <1>8, <2>4 DEF TrainHasName, SendsActivation, RecvsGrad
    <3>2. Before(c, s, k + 1, name) = Before(c, s, k, name) /\ Before(c, s, k, name) \in Nat
      BY <1>1, <1>3, <2>1, <2>4, CountsAreNumbers DEF Before
    <3>3. Count(TrainHasName(n, s, k, name)) = Before(c, s, k + 1, name) - Before(c, s, k, name)
      BY <3>1, <3>2 DEF Count
    <3> QED  BY <1>10, <3>3 DEF n
  <2>5. CASE name = "OptimizerStep"
    <3>1. TrainHasName(n, s, k, name) <=> k = StepsOf(c) - 1
      BY <1>1, <2>5 DEF TrainHasName, S, n
    <3>2. Before(c, s, k, name) = 0 /\ Before(c, s, k + 1, name) = (IF k = StepsOf(c) - 1 THEN 1 ELSE 0)
      BY <1>1, <2>5 DEF Before, Total, Count
    <3>3. Count(TrainHasName(n, s, k, name)) = Before(c, s, k + 1, name) - Before(c, s, k, name)
      BY <3>1, <3>2 DEF Count
    <3> QED  BY <1>10, <3>3 DEF n
  <2> QED  BY <1>7, <2>2, <2>3, <2>4, <2>5 DEF Counted
<1>9. CASE ~IsForward(s, k)
  <2>1. /\ m = BackwardOf(s, k) /\ (pm = ForwardOf(s + 1, k) \/ (pm < 0 /\ ForwardOf(s + 1, k) < 0))
        /\ ForwardOf(s, k + 1) = ForwardOf(s, k) /\ ForwardOf(s + 1, k + 1) = ForwardOf(s + 1, k) + 1
        /\ BackwardOf(s, k + 1) = BackwardOf(s, k) + 1 /\ BackwardOf(s - 1, k + 1) = BackwardOf(s - 1, k)
    BY <1>1, <1>9, BackwardNumbers DEF S, m, pm
  <2>2. CASE name \in {"BackwardPass", "RecvGrad"}
    <3>1. TrainHasName(n, s, k, name) <=> 0 <= BackwardOf(s, k) /\ BackwardOf(s, k) < n
      BY <1>6, <1>7, <1>9, <2>1, <2>2
         DEF TrainHasName, RecvsGrad, ValidMicroBatch, S, m
    <3>2. Before(c, s, k, name) = Within(n, BackwardOf(s, k))
          /\ Before(c, s, k + 1, name) = Within(n, BackwardOf(s, k) + 1)
      BY <1>3, <2>1, <2>2 DEF Before
    <3>3. Count(TrainHasName(n, s, k, name)) = Count(0 <= BackwardOf(s, k) /\ BackwardOf(s, k) < n)
      BY <3>1 DEF Count
    <3> QED  BY <1>2, <1>4, <3>2, <3>3 DEF n
  <2>3. CASE name = "SendActivation"
    <3>1. TrainHasName(n, s, k, name) <=> 0 <= ForwardOf(s + 1, k) /\ ForwardOf(s + 1, k) < n
      BY <1>1, <1>2, <1>6, <1>7, <1>9, <2>1, <2>3
         DEF TrainHasName, SendsActivation, ValidMicroBatch, S, pm
    <3>2. Before(c, s, k, name) = Within(n, ForwardOf(s + 1, k))
          /\ Before(c, s, k + 1, name) = Within(n, ForwardOf(s + 1, k) + 1)
      BY <1>3, <2>1, <2>3 DEF Before
    <3>3. Count(TrainHasName(n, s, k, name)) = Count(0 <= ForwardOf(s + 1, k) /\ ForwardOf(s + 1, k) < n)
      BY <3>1 DEF Count
    <3> QED  BY <1>2, <1>4, <3>2, <3>3 DEF n
  <2>4. CASE name \in {"RecvActivation", "LoadMicroBatch", "ForwardPass", "SendGrad"}
    <3>1. ~TrainHasName(n, s, k, name)
      BY <1>9, <2>4 DEF TrainHasName, RecvsActivation, SendsGrad
    <3>2. Before(c, s, k + 1, name) = Before(c, s, k, name) /\ Before(c, s, k, name) \in Nat
      BY <1>1, <1>3, <2>1, <2>4, CountsAreNumbers DEF Before
    <3>3. Count(TrainHasName(n, s, k, name)) = Before(c, s, k + 1, name) - Before(c, s, k, name)
      BY <3>1, <3>2 DEF Count
    <3> QED  BY <1>10, <3>3 DEF n
  <2>5. CASE name = "OptimizerStep"
    <3>1. TrainHasName(n, s, k, name) <=> k = StepsOf(c) - 1
      BY <1>1, <2>5 DEF TrainHasName, S, n
    <3>2. Before(c, s, k, name) = 0 /\ Before(c, s, k + 1, name) = (IF k = StepsOf(c) - 1 THEN 1 ELSE 0)
      BY <1>1, <2>5 DEF Before, Total, Count
    <3>3. Count(TrainHasName(n, s, k, name)) = Before(c, s, k + 1, name) - Before(c, s, k, name)
      BY <3>1, <3>2 DEF Count
    <3> QED  BY <1>10, <3>3 DEF n
  <2> QED  BY <1>7, <2>2, <2>3, <2>4, <2>5 DEF Counted
<1> QED  BY <1>8, <1>9

LEMMA EvalAdds ==
    ASSUME NEW c \in Call, c.kind = "eval", NEW s \in Stages,
           NEW k \in 0 .. StepsOf(c) - 1, NEW name, Does(s, name)
    PROVE  Before(c, s, k + 1, name) =
               Before(c, s, k, name) + Count(EvalHasName(c.micro, s, k, name))
<1> DEFINE n == c.micro
<1>1. /\ s \in Nat /\ n \in Nat /\ n > 0 /\ k \in Nat
      /\ StepsOf(c) \in Nat
  BY StageFacts, CallFacts
<1>3. /\ \A t, j : Forwards(c, t, j) = Within(n, j - t)
      /\ \A t, j : Backwards(c, t, j) = 0
  BY DEF Forwards, Backwards
<1>4. \A x \in Int : Within(n, x + 1) = Within(n, x) + Count(0 <= x /\ x < n)
  BY <1>1 DEF Within, Count
<1>7. /\ name = "LoadMicroBatch" => s \in {0, Last}
      /\ name \in {"RecvActivation", "SendGrad"} => s > 0
      /\ name \in {"SendActivation", "RecvGrad"} => s < Last
      /\ name \in Counted
  BY DEF Does
<1> HIDE DEF n
<1>8. CASE name \in {"RecvActivation", "LoadMicroBatch", "ForwardPass"}
  <2> DEFINE x == k - s
  <2>1. EvalHasName(n, s, k, name) <=> 0 <= x /\ x < n
    BY <1>1, <1>7, <1>8 DEF EvalHasName, ValidMicroBatch
  <2>2. Before(c, s, k, name) = Within(n, x)
        /\ Before(c, s, k + 1, name) = Within(n, (k + 1) - s)
    BY <1>3, <1>8 DEF Before
  <2>3. (k + 1) - s = x + 1 /\ x \in Int  BY <1>1
  <2>4. Count(EvalHasName(n, s, k, name)) = Count(0 <= x /\ x < n)
    BY <2>1 DEF Count
  <2> HIDE DEF x
  <2> QED  BY <1>4, <2>2, <2>3, <2>4 DEF n
<1>9. CASE name = "SendActivation"
  <2> DEFINE x == k - (s + 1)
  <2>1. EvalHasName(n, s, k, name) <=> 0 <= x /\ x < n
    BY <1>1, <1>7, <1>9 DEF EvalHasName, ValidMicroBatch
  <2>2. Before(c, s, k, name) = Within(n, x)
        /\ Before(c, s, k + 1, name) = Within(n, (k + 1) - (s + 1))
    BY <1>3, <1>9 DEF Before
  <2>3. (k + 1) - (s + 1) = x + 1 /\ x \in Int  BY <1>1
  <2>4. Count(EvalHasName(n, s, k, name)) = Count(0 <= x /\ x < n)
    BY <2>1 DEF Count
  <2> HIDE DEF x
  <2> QED  BY <1>4, <2>2, <2>3, <2>4 DEF n
<1>10. CASE name \in {"RecvGrad", "BackwardPass", "SendGrad", "OptimizerStep"}
  <2>1. ~EvalHasName(n, s, k, name)  BY <1>10 DEF EvalHasName
  <2>2. Before(c, s, k, name) = 0 /\ Before(c, s, k + 1, name) = 0
    BY <1>3, <1>10 DEF Before, Total, Count
  <2> QED  BY <2>1, <2>2 DEF Count, n
<1> QED  BY <1>7, <1>8, <1>9, <1>10 DEF Counted

LEMMA StepAdds ==
    ASSUME NEW c \in Call, NEW s \in Stages,
           NEW k \in 0 .. StepsOf(c) - 1, NEW name, Does(s, name)
    PROVE  Before(c, s, k + 1, name) =
               Before(c, s, k, name) + Count(Occurs(CommandsOf(c, s, k), name))
<1>1. k \in Nat /\ c.micro \in Nat /\ c.kind \in {"train", "eval"} /\ name \in Counted
  BY CallFacts DEF Does
<1>2. CASE c.kind = "train"
  <2>1. Occurs(CommandsOf(c, s, k), name) <=> TrainHasName(c.micro, s, k, name)
    BY <1>1, <1>2, TrainOccurs DEF CommandsOf
  <2> QED  BY <1>2, <2>1, TrainAdds DEF Count
<1>3. CASE c.kind = "eval"
  <2>1. Occurs(CommandsOf(c, s, k), name) <=> EvalHasName(c.micro, s, k, name)
    BY <1>1, <1>3, EvalOccurs DEF CommandsOf
  <2> QED  BY <1>3, <2>1, EvalAdds DEF Count
<1> QED  BY <1>1, <1>2, <1>3

Order(c, s) == IF c.kind = "train" THEN "train" ELSE EvalOrder(s)

(* The instructions of every step are in order, *)
LEMMA CommandsOrdered ==
    ASSUME NEW c \in Call, NEW s \in Stages, NEW k \in Nat
    PROVE  Ordered(Order(c, s), CommandsOf(c, s, k), -1, 7)
<1>1. c.micro \in Nat  BY CallFacts
<1>2. ASSUME NEW o, NEW L, Ordered(o, L, 0, 7) \/ Ordered(o, L, -1, 4) PROVE Ordered(o, L, -1, 7)
  <2>1. 0 .. 7 - 1 \subseteq -1 .. 7 - 1 /\ -1 .. 4 - 1 \subseteq -1 .. 7 - 1
    OBVIOUS
  <2>2. \A i \in 1 .. Len(L) : Rank(o, L[i].name) \in -1 .. 7 - 1
    BY <1>2, <2>1 DEF Ordered
  <2> QED  BY <1>2, <2>2 DEF Ordered
<1>3. CASE c.kind = "train"
  <2>1. Ordered("train", TrainStep(NumStages, c.micro, s, k), 0, 7)
    BY <1>1, TrainInstructions
  <2> QED  BY <1>2, <1>3, <2>1 DEF Order, CommandsOf
<1>4. CASE c.kind # "train"
  <2>1. Ordered(EvalOrder(s), InferenceStep(NumStages, c.micro, s, k), -1, 4)
    BY <1>1, EvalInstructions
  <2> QED  BY <1>2, <1>4, <2>1 DEF Order, CommandsOf
<1> QED  BY <1>3, <1>4

(* What was executed, when the order is known. *)
LEMMA DidNone ==
    ASSUME NEW list, NEW name
    PROVE  ~Did(list, 1, name)
BY DEF Did

LEMMA DidAll ==
    ASSUME NEW S, NEW list \in Seq(S), NEW name
    PROVE  Did(list, Len(list) + 1, name) <=> Occurs(list, name)
BY DEF Did, Occurs

LEMMA DidNext ==
    ASSUME NEW S, NEW list \in Seq(S), NEW p \in 1 .. Len(list), NEW name
    PROVE  Did(list, p + 1, name) <=> (Did(list, p, name) \/ name = list[p].name)
<1>1. p \in Nat /\ Len(list) \in Nat  OBVIOUS
<1>2. \A i \in 1 .. Len(list) : i < p + 1 <=> i < p \/ i = p  BY <1>1
<1> QED  BY <1>2 DEF Did

LEMMA DidLater ==
    ASSUME NEW o, NEW list, Ordered(o, list, -1, 7), NEW p \in 1 .. Len(list), NEW name,
           Rank(o, name) >= Rank(o, list[p].name)
    PROVE  ~Did(list, p, name)
<1> SUFFICES ASSUME NEW i \in 1 .. Len(list), i < p, list[i].name = name PROVE FALSE
  BY DEF Did
<1> DEFINE a == Rank(o, list[i].name)
           b == Rank(o, list[p].name)
<1>1. a < b /\ a \in -1 .. 7 - 1 /\ b \in -1 .. 7 - 1 /\ a >= b  BY DEF Ordered
<1> HIDE DEF a, b
<1> QED  BY <1>1

LEMMA DidEarlier ==
    ASSUME NEW o, NEW list, Ordered(o, list, -1, 7), NEW p \in 1 .. Len(list), NEW name,
           Rank(o, name) < Rank(o, list[p].name)
    PROVE  Did(list, p, name) <=> Occurs(list, name)
<1>1. ASSUME NEW i \in 1 .. Len(list), list[i].name = name PROVE i < p
  <2> DEFINE a == Rank(o, list[i].name)
             b == Rank(o, list[p].name)
  <2>1. a < b /\ a \in -1 .. 7 - 1 /\ b \in -1 .. 7 - 1 /\ (p < i => b < a) /\ i # p
    BY <1>1 DEF Ordered
  <2> HIDE DEF a, b
  <2>2. ~(p < i)  BY <2>1
  <2>3. list \in Seq(Instructions)  BY DEF Ordered
  <2> QED  BY <2>1, <2>2, <2>3
<1> QED  BY <1>1 DEF Did, Occurs

(* How often an instruction was executed when a stage is at place p of
   step k. *)
NumberAt(c, s, k, p, name) == Before(c, s, k, name) + Count(Did(CommandsOf(c, s, k), p, name))

(* so the position of an instruction tells which of the others were
   executed; *)
LEMMA NumbersAt ==
    ASSUME NEW c \in Call, NEW s \in Stages, NEW k \in 0 .. StepsOf(c) - 1,
           NEW p \in 1 .. Len(CommandsOf(c, s, k)), NEW name, Does(s, name)
    PROVE  LET x == CommandsOf(c, s, k)[p].name
               o == Order(c, s)
           IN  /\ NumberAt(c, s, k, p, name) \in Nat
               /\ NumberAt(c, s, k, p, name) \in {Before(c, s, k, name), Before(c, s, k + 1, name)}
               /\ Rank(o, name) >= Rank(o, x) => NumberAt(c, s, k, p, name) = Before(c, s, k, name)
               /\ Rank(o, name) < Rank(o, x) => NumberAt(c, s, k, p, name) = Before(c, s, k + 1, name)
               /\ NumberAt(c, s, k, p + 1, name) =
                      NumberAt(c, s, k, p, name) + (IF name = x THEN 1 ELSE 0)
<1> DEFINE list == CommandsOf(c, s, k)
           x == list[p].name
           o == Order(c, s)
           old == Before(c, s, k, name)
           new == Before(c, s, k + 1, name)
<1>1. k \in Nat  BY CallFacts
<1>2. Ordered(o, list, -1, 7)  BY <1>1, CommandsOrdered
<1>3. new = old + Count(Occurs(list, name)) /\ old \in Nat
  BY <1>1, StepAdds, CountsAreNumbers
<1>4. NumberAt(c, s, k, p, name) = old + Count(Did(list, p, name))
      /\ NumberAt(c, s, k, p + 1, name) = old + Count(Did(list, p + 1, name))
  BY DEF NumberAt
<1>5. list \in Seq(Instructions) /\ p \in 1 .. Len(list)  BY <1>2 DEF Ordered
<1> HIDE DEF list, o, old, new
<1>6. Did(list, p + 1, name) <=> (Did(list, p, name) \/ name = x)
  BY <1>5, DidNext
<1>7. Did(list, p, name) => Occurs(list, name)  BY DEF Did, Occurs
<1>8. Rank(o, name) >= Rank(o, x) => ~Did(list, p, name)
  BY <1>2, <1>5, DidLater
<1>9. Rank(o, name) < Rank(o, x) => (Did(list, p, name) <=> Occurs(list, name))
  BY <1>2, <1>5, DidEarlier
<1>10. name = x => ~Did(list, p, name)
  <2>1. name = x => Rank(o, name) \in -1 .. 7 - 1 /\ Rank(o, x) = Rank(o, name)
    BY <1>2, <1>5 DEF Ordered
  <2>2. \A r \in -1 .. 7 - 1 : r >= r  OBVIOUS
  <2> QED  BY <1>8, <2>1, <2>2
<1>11. NumberAt(c, s, k, p + 1, name) = NumberAt(c, s, k, p, name) + (IF name = x THEN 1 ELSE 0)
  BY <1>3, <1>4, <1>6, <1>10 DEF Count
<1>12. NumberAt(c, s, k, p, name) \in {old, new} /\ NumberAt(c, s, k, p, name) \in Nat
  BY <1>3, <1>4, <1>7 DEF Count
<1>13. Rank(o, name) >= Rank(o, x) => NumberAt(c, s, k, p, name) = old
  BY <1>3, <1>4, <1>8 DEF Count
<1>14. Rank(o, name) < Rank(o, x) => NumberAt(c, s, k, p, name) = new
  BY <1>3, <1>4, <1>9 DEF Count
<1> QED  BY <1>11, <1>12, <1>13, <1>14 DEF list, x, o, old, new

(* and before the first and after the last one, none and all of them were. *)
LEMMA NumbersAround ==
    ASSUME NEW c \in Call, NEW s \in Stages, NEW k \in 0 .. StepsOf(c) - 1, NEW name, Does(s, name)
    PROVE  LET list == CommandsOf(c, s, k)
           IN  /\ NumberAt(c, s, k, 1, name) = Before(c, s, k, name)
               /\ NumberAt(c, s, k, Len(list) + 1, name) = Before(c, s, k + 1, name)
<1> DEFINE list == CommandsOf(c, s, k)
<1>1. k \in Nat  BY CallFacts
<1>2. list \in Seq(Instructions)  BY <1>1, CommandsOrdered DEF Ordered
<1>3. /\ Before(c, s, k + 1, name) = Before(c, s, k, name) + Count(Occurs(list, name))
      /\ Before(c, s, k, name) \in Nat
  BY <1>1, StepAdds, CountsAreNumbers
<1>4. ~Did(list, 1, name)  BY DidNone
<1>5. Did(list, Len(list) + 1, name) <=> Occurs(list, name)  BY <1>2, DidAll
<1>6. /\ NumberAt(c, s, k, 1, name) = Before(c, s, k, name) + Count(Did(list, 1, name))
      /\ NumberAt(c, s, k, Len(list) + 1, name) = Before(c, s, k, name) + Count(Did(list, Len(list) + 1, name))
  BY DEF NumberAt
<1> HIDE DEF list
<1>7. NumberAt(c, s, k, 1, name) = Before(c, s, k, name)
  BY <1>3, <1>4, <1>6 DEF Count
<1>8. NumberAt(c, s, k, Len(list) + 1, name) = Before(c, s, k + 1, name)
  BY <1>3, <1>5, <1>6 DEF Count
<1> QED  BY <1>7, <1>8 DEF list

(* How often a stage has executed its instructions, by its place in a call. *)
Counts(c, where, s, k, p) ==
    [name \in Counted |->
        IF ~Does(s, name) THEN 0
        ELSE IF where = "end" THEN Total(c, name)
        ELSE IF where = "steps" THEN NumberAt(c, s, k, p, name) ELSE 0]

(* A call begins with nothing done, and the end of a step is the beginning
   of the next. *)
LEMMA CountsOfBegin ==
    ASSUME NEW c \in Call, NEW s \in Stages, NEW where, where \notin {"steps", "end"},
           NEW k, NEW p
    PROVE  /\ Counts(c, where, s, k, p) = [name \in Counted |-> 0]
           /\ Counts(c, "steps", s, 0, 1) = [name \in Counted |-> 0]
<1>1. 0 \in 0 .. StepsOf(c) - 1  BY CallFacts
<1>2. ASSUME NEW name \in Counted, Does(s, name) PROVE NumberAt(c, s, 0, 1, name) = 0
  BY <1>1, <1>2, NumbersAround, NothingAtFirst
<1>3. Counts(c, where, s, k, p) = [name \in Counted |-> 0]  BY DEF Counts
<1>4. Counts(c, "steps", s, 0, 1) = [name \in Counted |-> 0]
  BY <1>2 DEF Counts
<1> QED  BY <1>3, <1>4

LEMMA CountsOfStep ==
    ASSUME NEW c \in Call, NEW s \in Stages, NEW k \in 0 .. StepsOf(c) - 1, NEW j, NEW p
    PROVE  LET n == Counts(c, "steps", s, k, Len(CommandsOf(c, s, k)) + 1)
           IN  /\ k < StepsOf(c) - 1 => Counts(c, "steps", s, k + 1, 1) = n
               /\ k = StepsOf(c) - 1 => Counts(c, "end", s, j, p) = n
<1> DEFINE q == Len(CommandsOf(c, s, k)) + 1
           n == Counts(c, "steps", s, k, q)
<1>1. ASSUME NEW name \in Counted, Does(s, name)
      PROVE NumberAt(c, s, k, q, name) = Before(c, s, k + 1, name)
  BY <1>1, NumbersAround
<1>2. CASE k < StepsOf(c) - 1
  <2>1. k + 1 \in 0 .. StepsOf(c) - 1 /\ k # StepsOf(c) - 1  BY <1>2, CallFacts
  <2>2. ASSUME NEW name \in Counted, Does(s, name)
        PROVE NumberAt(c, s, k + 1, 1, name) = Before(c, s, k + 1, name)
    BY <2>1, <2>2, NumbersAround
  <2> HIDE DEF q
  <2>3. Counts(c, "steps", s, k + 1, 1) = n  BY <1>1, <2>2 DEF Counts
  <2> QED  BY <2>1, <2>3 DEF q
<1>3. CASE k = StepsOf(c) - 1
  <2>1. k + 1 = StepsOf(c) /\ ~(k < StepsOf(c) - 1)  BY <1>3, CallFacts
  <2>2. ASSUME NEW name \in Counted, Does(s, name)
        PROVE Total(c, name) = Before(c, s, k + 1, name)
    BY <2>1, <2>2, AllAtTheEnd
  <2> HIDE DEF q
  <2>3. Counts(c, "end", s, j, p) = n  BY <1>1, <2>2 DEF Counts
  <2> QED  BY <2>1, <2>3 DEF q
<1> QED  BY <1>2, <1>3, CallFacts

LEMMA CountsAreFunctions ==
    ASSUME NEW c \in Call, NEW where, NEW s \in Stages, NEW k \in Int, NEW p
    PROVE  Counts(c, where, s, k, p) \in [Counted -> Nat]
<1>1. ASSUME NEW name PROVE Total(c, name) \in Nat /\ NumberAt(c, s, k, p, name) \in Nat
  BY CountsAreNumbers DEF NumberAt, Count
<1> QED  BY <1>1 DEF Counts

(* What is known of the instruction at some place. *)
LEMMA InstructionAt ==
    ASSUME NEW c \in Call, NEW s \in Stages, NEW k \in 0 .. StepsOf(c) - 1,
           NEW p \in 1 .. Len(CommandsOf(c, s, k))
    PROVE  LET x == CommandsOf(c, s, k)[p]
           IN  /\ x \in Instructions
               /\ c.kind = "train" => TrainHas(c.micro, s, k, x)
               /\ c.kind = "eval" => EvalHas(c.micro, s, k, x)
<1> DEFINE list == CommandsOf(c, s, k)
           x == list[p]
<1>1. k \in Nat /\ c.micro \in Nat /\ ~("train" = "eval")  BY CallFacts
<1>2. Has(list, x)  BY DEF Has
<1>3. list \in Seq(Instructions)  BY <1>1, CommandsOrdered DEF Ordered
<1>4. x \in Instructions  BY <1>3
<1>5. c.kind = "train" => TrainHas(c.micro, s, k, x)
  <2>1. c.kind = "train" => list = TrainStep(NumStages, c.micro, s, k)
    BY DEF CommandsOf
  <2> HIDE DEF list
  <2> QED  BY <1>1, <1>2, <2>1, TrainInstructions
<1>6. c.kind = "eval" => EvalHas(c.micro, s, k, x)
  <2>1. c.kind = "eval" => list = InferenceStep(NumStages, c.micro, s, k)
    BY DEF CommandsOf
  <2> HIDE DEF list
  <2> QED  BY <1>1, <1>2, <2>1, EvalInstructions
<1> QED  BY <1>4, <1>5, <1>6

(* A stage executes what it has to do only, and counts it. *)
LEMMA InstructionsAreDone ==
    ASSUME NEW c \in Call, NEW s \in Stages, NEW k \in 0 .. StepsOf(c) - 1,
           NEW p \in 1 .. Len(CommandsOf(c, s, k))
    PROVE  LET x == CommandsOf(c, s, k)[p].name
           IN  x \in Counted => Does(s, x)
<1> DEFINE x == CommandsOf(c, s, k)[p]
<1>1. /\ c.kind \in {"train", "eval"}
      /\ c.kind = "train" => TrainHas(c.micro, s, k, x)
      /\ c.kind = "eval" => EvalHas(c.micro, s, k, x)
  BY CallFacts, InstructionAt
<1>2. \A u, b : Instr(u, b).name = u  BY DEF Instr
<1>3. /\ ValidStage(NumStages, s - 1) <=> s > 0
      /\ ValidStage(NumStages, s + 1) <=> s < Last
  BY StageFacts DEF ValidStage
<1> HIDE DEF x
<1>4. TrainHas(c.micro, s, k, x) /\ x.name \in Counted => Does(s, x.name)
  BY <1>2, <1>3 DEF TrainHas, Does, Counted, RecvsActivation, SendsActivation, RecvsGrad, SendsGrad
<1>5. EvalHas(c.micro, s, k, x) /\ x.name \in Counted => Does(s, x.name)
  BY <1>2 DEF EvalHas, Does, Counted
<1> QED  BY <1>1, <1>4, <1>5 DEF x

LEMMA CountsAdvance ==
    ASSUME NEW c \in Call, NEW s \in Stages, NEW k \in 0 .. StepsOf(c) - 1,
           NEW p \in 1 .. Len(CommandsOf(c, s, k))
    PROVE  LET n == Counts(c, "steps", s, k, p)
               x == CommandsOf(c, s, k)[p].name
           IN  Counts(c, "steps", s, k, p + 1) =
                   IF x \in Counted THEN [n EXCEPT ![x] = @ + 1] ELSE n
<1> DEFINE n == Counts(c, "steps", s, k, p)
           x == CommandsOf(c, s, k)[p].name
           new == Counts(c, "steps", s, k, p + 1)
<1>1. x \in Counted => Does(s, x)  BY InstructionsAreDone
<1>2. ASSUME NEW name \in Counted, Does(s, name)
      PROVE  /\ NumberAt(c, s, k, p + 1, name) = NumberAt(c, s, k, p, name) + (IF name = x THEN 1 ELSE 0)
             /\ NumberAt(c, s, k, p, name) \in Nat
  BY <1>2, NumbersAt
<1> HIDE DEF x
<1>3. ASSUME NEW name \in Counted
      PROVE  new[name] = n[name] + (IF name = x THEN 1 ELSE 0) /\ n[name] \in Nat
  <2>1. CASE Does(s, name)  BY <1>2, <2>1 DEF Counts
  <2>2. CASE ~Does(s, name)  BY <1>1, <2>2 DEF Counts
  <2> QED  BY <2>1, <2>2
<1>4. /\ n = [name \in Counted |-> n[name]]
      /\ new = [name \in Counted |-> new[name]]
  BY DEF Counts
<1> HIDE DEF n, new
<1>5. CASE x \in Counted
  <2> DEFINE z == [n EXCEPT ![x] = @ + 1]
  <2>1. \A name \in Counted : z[name] = new[name]  BY <1>3, <1>4, <1>5
  <2>2. z = [name \in Counted |-> z[name]]  BY <1>4
  <2> HIDE DEF z
  <2>3. z = new  BY <1>4, <2>1, <2>2
  <2> QED  BY <1>5, <2>3 DEF z, n, x, new
<1>6. CASE x \notin Counted
  <2>1. \A name \in Counted : n[name] = new[name]  BY <1>3, <1>6
  <2>2. n = new  BY <1>4, <2>1
  <2> QED  BY <1>6, <2>2 DEF n, x, new
<1> QED  BY <1>5, <1>6

----------------------------------------------------------------------------
(* What an instruction finds when it is its turn: the number of its micro
   batch, and of those that the stage has received, computed and sent. *)

(* Training has a buffer for every micro batch under way, or for all of
   them. *)
LEMMA BufferBound ==
    ASSUME NEW c \in Call, NEW s \in Stages
    PROVE  LET B == BuffersFor(c, s)
           IN  /\ B \in Nat /\ B >= 2
               /\ c.kind = "train" => B >= c.micro \/ B >= NumStages - s + 1
               /\ c.kind = "eval" => B = 2
BY StageFacts, CallFacts DEF BuffersFor, TrainBuffers

(* The numbers of a forward step of training, whose micro batch is h and
   in which the gradient of g is sent. *)
LEMMA ForwardStep ==
    ASSUME NEW c \in Call, c.kind = "train", NEW s \in Stages, NEW k \in Nat, IsForward(s, k)
    PROVE  \E h, g \in Int :
               /\ h - g = NumStages - s
               /\ StepMicroBatch(NumStages, s, k) = h
               /\ \/ PrevMicroBatch(NumStages, s, k) = g
                  \/ (PrevMicroBatch(NumStages, s, k) < 0 /\ g < 0)
               /\ \A name \in {"LoadMicroBatch", "RecvActivation", "ForwardPass"} :
                      /\ Before(c, s, k, name) = Within(c.micro, h)
                      /\ Before(c, s, k + 1, name) = Within(c.micro, h + 1)
               /\ \A name \in {"RecvGrad", "BackwardPass"} :
                      /\ Before(c, s, k, name) = Within(c.micro, g + 1)
                      /\ Before(c, s, k + 1, name) = Within(c.micro, g + 1)
               /\ Before(c, s, k, "SendActivation") = Within(c.micro, h)
               /\ Before(c, s, k + 1, "SendActivation") = Within(c.micro, h)
               /\ Before(c, s, k, "SendGrad") = Within(c.micro, g)
               /\ Before(c, s, k + 1, "SendGrad") = Within(c.micro, g + 1)
<1> DEFINE h == ForwardOf(s, k)
           g == BackwardOf(s - 1, k)
<1>1. h \in Int /\ g \in Int  BY StageFacts DEF ForwardOf, BackwardOf
<1>2. \A t, j : /\ Forwards(c, t, j) = Within(c.micro, ForwardOf(t, j))
                /\ Backwards(c, t, j) = Within(c.micro, BackwardOf(t, j))
  BY DEF Forwards, Backwards, ForwardOf, BackwardOf
<1>3. /\ StepMicroBatch(NumStages, s, k) = h
      /\ \/ PrevMicroBatch(NumStages, s, k) = g
         \/ (PrevMicroBatch(NumStages, s, k) < 0 /\ g < 0)
      /\ ForwardOf(s, k + 1) = h + 1 /\ ForwardOf(s + 1, k + 1) = h
      /\ BackwardOf(s, k + 1) = g + 1 /\ BackwardOf(s - 1, k + 1) = g + 1
      /\ h - g = NumStages - s
      /\ BackwardOf(s, k) = g + 1 /\ ForwardOf(s + 1, k) = h
  BY ForwardNumbers
<1> HIDE DEF h, g
<1>4. /\ \A name \in {"LoadMicroBatch", "RecvActivation", "ForwardPass"} :
             /\ Before(c, s, k, name) = Within(c.micro, h)
             /\ Before(c, s, k + 1, name) = Within(c.micro, h + 1)
  BY <1>2, <1>3 DEF Before, h, g
<1>5. /\ \A name \in {"RecvGrad", "BackwardPass"} :
             /\ Before(c, s, k, name) = Within(c.micro, g + 1)
             /\ Before(c, s, k + 1, name) = Within(c.micro, g + 1)
      /\ Before(c, s, k, "SendActivation") = Within(c.micro, h)
      /\ Before(c, s, k + 1, "SendActivation") = Within(c.micro, h)
      /\ Before(c, s, k, "SendGrad") = Within(c.micro, g)
      /\ Before(c, s, k + 1, "SendGrad") = Within(c.micro, g + 1)
  BY <1>2, <1>3 DEF Before, h, g
<1> QED  BY <1>1, <1>3, <1>4, <1>5

(* The numbers of a backward step, whose micro batch is g and in which the
   activation of h - 1 is sent. *)
LEMMA BackwardStep ==
    ASSUME NEW c \in Call, c.kind = "train", NEW s \in Stages, NEW k \in Nat, ~IsForward(s, k)
    PROVE  \E h, g \in Int :
               /\ h - g = NumStages - s
               /\ StepMicroBatch(NumStages, s, k) = g
               /\ \/ PrevMicroBatch(NumStages, s, k) = h - 1
                  \/ (PrevMicroBatch(NumStages, s, k) < 0 /\ h - 1 < 0)
               /\ \A name \in {"LoadMicroBatch", "RecvActivation", "ForwardPass"} :
                      /\ Before(c, s, k, name) = Within(c.micro, h)
                      /\ Before(c, s, k + 1, name) = Within(c.micro, h)
               /\ \A name \in {"RecvGrad", "BackwardPass"} :
                      /\ Before(c, s, k, name) = Within(c.micro, g)
                      /\ Before(c, s, k + 1, name) = Within(c.micro, g + 1)
               /\ Before(c, s, k, "SendActivation") = Within(c.micro, h - 1)
               /\ Before(c, s, k + 1, "SendActivation") = Within(c.micro, h)
               /\ Before(c, s, k, "SendGrad") = Within(c.micro, g)
               /\ Before(c, s, k + 1, "SendGrad") = Within(c.micro, g)
<1> DEFINE h == ForwardOf(s, k)
           g == BackwardOf(s, k)
<1>1. h \in Int /\ g \in Int /\ ForwardOf(s + 1, k) \in Int
  BY StageFacts DEF ForwardOf, BackwardOf
<1>2. \A t, j : /\ Forwards(c, t, j) = Within(c.micro, ForwardOf(t, j))
                /\ Backwards(c, t, j) = Within(c.micro, BackwardOf(t, j))
  BY DEF Forwards, Backwards, ForwardOf, BackwardOf
<1>3. /\ StepMicroBatch(NumStages, s, k) = g
      /\ \/ PrevMicroBatch(NumStages, s, k) = ForwardOf(s + 1, k)
         \/ (PrevMicroBatch(NumStages, s, k) < 0 /\ ForwardOf(s + 1, k) < 0)
      /\ ForwardOf(s, k + 1) = h /\ ForwardOf(s + 1, k + 1) = ForwardOf(s + 1, k) + 1
      /\ BackwardOf(s, k + 1) = g + 1 /\ BackwardOf(s - 1, k + 1) = BackwardOf(s - 1, k)
      /\ h - g = NumStages - s
      /\ BackwardOf(s - 1, k) = g /\ h = ForwardOf(s + 1, k) + 1
  BY BackwardNumbers
<1>6. ForwardOf(s + 1, k) = h - 1 /\ ForwardOf(s + 1, k + 1) = h  BY <1>1, <1>3
<1> HIDE DEF h, g
<1>4. /\ \A name \in {"LoadMicroBatch", "RecvActivation", "ForwardPass"} :
             /\ Before(c, s, k, name) = Within(c.micro, h)
             /\ Before(c, s, k + 1, name) = Within(c.micro, h)
  BY <1>2, <1>3 DEF Before, h, g
<1>5. /\ \A name \in {"RecvGrad", "BackwardPass"} :
             /\ Before(c, s, k, name) = Within(c.micro, g)
             /\ Before(c, s, k + 1, name) = Within(c.micro, g + 1)
      /\ Before(c, s, k, "SendActivation") = Within(c.micro, h - 1)
      /\ Before(c, s, k + 1, "SendActivation") = Within(c.micro, h)
      /\ Before(c, s, k, "SendGrad") = Within(c.micro, g)
      /\ Before(c, s, k + 1, "SendGrad") = Within(c.micro, g)
  BY <1>2, <1>3, <1>6 DEF Before, h, g
<1>7. \/ PrevMicroBatch(NumStages, s, k) = h - 1
      \/ (PrevMicroBatch(NumStages, s, k) < 0 /\ h - 1 < 0)
  BY <1>3, <1>6
<1> QED  BY <1>1, <1>3, <1>4, <1>5, <1>7

(* An evaluation step. *)
LEMMA EvalStep ==
    ASSUME NEW c \in Call, c.kind = "eval", NEW s \in Stages, NEW k \in Nat
    PROVE  /\ \A name \in {"LoadMicroBatch", "RecvActivation", "ForwardPass"} :
                  /\ Before(c, s, k, name) = Within(c.micro, k - s)
                  /\ Before(c, s, k + 1, name) = Within(c.micro, k - s + 1)
           /\ \A name \in {"RecvGrad", "BackwardPass", "SendGrad"} :
                  Before(c, s, k, name) = 0 /\ Before(c, s, k + 1, name) = 0
           /\ Before(c, s, k, "SendActivation") = Within(c.micro, k - s - 1)
           /\ Before(c, s, k + 1, "SendActivation") = Within(c.micro, k - s)
           /\ RecvBuf(s, k) = (k - s) % 2
           /\ SendBuf(s, k) = (k - s - 1) % 2
<1>1. s \in Nat /\ k - (s + 1) = k - s - 1 /\ (k + 1) - s = k - s + 1
      /\ (k + 1) - (s + 1) = k - s
  BY StageFacts
<1>2. \A t, j : Forwards(c, t, j) = Within(c.micro, j - t) /\ Backwards(c, t, j) = 0
  BY DEF Forwards, Backwards
<1>3. RecvBuf(s, k) = (k - s) % 2 /\ SendBuf(s, k) = (k - s - 1) % 2
  BY <1>1 DEF RecvBuf, SendBuf, IsEven
<1>4. \A name \in {"LoadMicroBatch", "RecvActivation", "ForwardPass"} :
          /\ Before(c, s, k, name) = Within(c.micro, k - s)
          /\ Before(c, s, k + 1, name) = Within(c.micro, k - s + 1)
  BY <1>1, <1>2 DEF Before
<1>5. /\ \A name \in {"RecvGrad", "BackwardPass", "SendGrad"} :
             Before(c, s, k, name) = 0 /\ Before(c, s, k + 1, name) = 0
      /\ Before(c, s, k, "SendActivation") = Within(c.micro, k - s - 1)
      /\ Before(c, s, k + 1, "SendActivation") = Within(c.micro, k - s)
  BY <1>1, <1>2 DEF Before
<1> QED  BY <1>3, <1>4, <1>5

InputsOf(s, n) == IF s = 0 THEN n["LoadMicroBatch"] ELSE n["RecvActivation"]
First(c, s, n) == IF c.kind # "train" THEN n["ForwardPass"]
                  ELSE IF s = 0 THEN n["BackwardPass"] ELSE n["SendGrad"]
FirstOut(c, n) == IF c.kind = "train" THEN n["BackwardPass"] ELSE n["ForwardPass"] - 2

(* The counts at the place of an instruction, by its order in the step. *)
LEMMA CountsAt ==
    ASSUME NEW c \in Call, NEW s \in Stages, NEW k \in 0 .. StepsOf(c) - 1,
           NEW p \in 1 .. Len(CommandsOf(c, s, k)), NEW name, Does(s, name)
    PROVE  LET x == CommandsOf(c, s, k)[p].name
               o == Order(c, s)
               n == Counts(c, "steps", s, k, p)
           IN  /\ n[name] \in Nat
               /\ n[name] \in {Before(c, s, k, name), Before(c, s, k + 1, name)}
               /\ Rank(o, name) >= Rank(o, x) => n[name] = Before(c, s, k, name)
               /\ Rank(o, name) < Rank(o, x) => n[name] = Before(c, s, k + 1, name)
<1>1. Counts(c, "steps", s, k, p)[name] = NumberAt(c, s, k, p, name)
  BY DEF Counts, Does
<1> QED  BY <1>1, NumbersAt

(* What holds when a stage takes an input: there is a buffer for it. *)
InputFits(c, s, n, m, b) ==
    /\ m < c.micro /\ b = m % BuffersFor(c, s)
    /\ m - First(c, s, n) < BuffersFor(c, s)
    /\ First(c, s, n) <= m /\ n["BackwardPass"] <= m

(* The optimizer steps after all other instructions. *)
LEMMA NoStepYet ==
    ASSUME NEW c \in Call, NEW s \in Stages, NEW k \in 0 .. StepsOf(c) - 1,
           NEW p \in 1 .. Len(CommandsOf(c, s, k))
    PROVE  Counts(c, "steps", s, k, p)["OptimizerStep"] = 0
<1> DEFINE o == Order(c, s)
           list == CommandsOf(c, s, k)
<1>1. Does(s, "OptimizerStep")  BY DEF Does, Counted
<1>2. k \in Nat /\ k # StepsOf(c)  BY CallFacts
<1>3. Rank(o, list[p].name) \in -1 .. 6 /\ Rank(o, "OptimizerStep") = 6
  <2>1. Ordered(o, list, -1, 7)  BY <1>2, CommandsOrdered
  <2>2. \A i \in 1 .. Len(list) : Rank(o, list[i].name) \in -1 .. 7 - 1
    BY <2>1 DEF Ordered
  <2>3. 7 - 1 = 6  OBVIOUS
  <2> QED  BY <2>2, <2>3 DEF Rank
<1>4. Rank(o, "OptimizerStep") >= Rank(o, list[p].name)  BY <1>3
<1>5. Counts(c, "steps", s, k, p)["OptimizerStep"] = Before(c, s, k, "OptimizerStep")
  BY <1>1, <1>4, CountsAt
<1> QED  BY <1>2, <1>5 DEF Before

LEMMA DoesWhat ==
    ASSUME NEW s \in Stages
    PROVE  /\ Does(s, "ForwardPass") /\ Does(s, "BackwardPass") /\ Does(s, "OptimizerStep")
           /\ s = 0 \/ s = Last => Does(s, "LoadMicroBatch")
           /\ s # 0 => Does(s, "RecvActivation") /\ Does(s, "SendGrad") /\ s > 0
           /\ s # Last => Does(s, "SendActivation") /\ Does(s, "RecvGrad") /\ s < Last
BY StageFacts DEF Does, Counted

(* Where an input is taken, its buffer is the one of its number, and the
   input that was there last has been used up. *)
LEMMA AtInput ==
    ASSUME NEW c \in Call, NEW s \in Stages, NEW k \in 0 .. StepsOf(c) - 1,
           NEW p \in 1 .. Len(CommandsOf(c, s, k)),
           NEW name \in {"RecvActivation", "LoadMicroBatch"},
           CommandsOf(c, s, k)[p].name = name
    PROVE  LET n == Counts(c, "steps", s, k, p)
               b == CommandsOf(c, s, k)[p].buffer
           IN  /\ name = "RecvActivation" => s # 0
               /\ n[name] < c.micro /\ b = n[name] % BuffersFor(c, s)
               /\ (name = "RecvActivation" \/ s = 0) => InputFits(c, s, n, n[name], b)
               /\ n["ForwardPass"] = n[name]
<1> DEFINE x == CommandsOf(c, s, k)[p]
           n == Counts(c, "steps", s, k, p)
           B == BuffersFor(c, s)
           total == c.micro
<1>1. /\ k \in Nat /\ total \in Nat /\ s \in Nat /\ s < NumStages /\ NumStages \in Nat
      /\ c.kind \in {"train", "eval"}
  BY StageFacts, CallFacts
<1>2. /\ \A u, b : Instr(u, b).name = u /\ Instr(u, b).buffer = b  BY DEF Instr
<1>3. /\ B \in Nat /\ B >= 2
      /\ c.kind = "train" => B >= total \/ B >= NumStages - s + 1
  BY BufferBound
<1>4. Does(s, name) /\ Does(s, "ForwardPass") /\ Does(s, "BackwardPass")
      /\ (s # 0 => Does(s, "SendGrad"))
  <2>1. Does(s, name)  BY InstructionsAreDone DEF Counted
  <2> QED  BY <2>1, DoesWhat
<1>5. name = "RecvActivation" => s # 0  BY <1>4 DEF Does
<1>6. CASE c.kind = "train"
  <2>1. TrainHas(total, s, k, x)  BY <1>6, InstructionAt
  <2>2. /\ IsForward(s, k) /\ ValidMicroBatch(total, StepMicroBatch(NumStages, s, k))
        /\ x.buffer = StepMicroBatch(NumStages, s, k) % TrainBuffers(NumStages, total, s)
    BY <1>2, <2>1 DEF TrainHas, RecvsActivation
  <2>3. PICK h, g \in Int :
               /\ h - g = NumStages - s
               /\ StepMicroBatch(NumStages, s, k) = h
               /\ \A u \in {"LoadMicroBatch", "RecvActivation", "ForwardPass"} :
                      /\ Before(c, s, k, u) = Within(total, h)
                      /\ Before(c, s, k + 1, u) = Within(total, h + 1)
               /\ Before(c, s, k, "BackwardPass") = Within(total, g + 1)
               /\ Before(c, s, k + 1, "BackwardPass") = Within(total, g + 1)
               /\ Before(c, s, k, "SendGrad") = Within(total, g)
               /\ Before(c, s, k + 1, "SendGrad") = Within(total, g + 1)
    BY ZenonT(60), <1>1, <1>6, <2>2, ForwardStep
  <2>4. 0 <= h /\ h < total /\ x.buffer = h % B
    BY <1>6, <2>2, <2>3 DEF ValidMicroBatch, BuffersFor
  <2>5. n[name] = Within(total, h)
    <3>1. /\ Rank(Order(c, s), name) = Rank(Order(c, s), x.name)
          /\ Rank(Order(c, s), name) >= Rank(Order(c, s), name)
      BY <1>6 DEF Rank, Order
    <3> QED  BY <1>4, <2>3, <3>1, CountsAt
  <2>6. n["ForwardPass"] = Within(total, h)
    <3>1. Rank(Order(c, s), "ForwardPass") >= Rank(Order(c, s), x.name)
      BY <1>6 DEF Rank, Order
    <3> QED  BY <1>4, <2>3, <3>1, CountsAt
  <2>7. n["BackwardPass"] = Within(total, g + 1)  BY <1>4, <2>3, CountsAt
  <2>8. s # 0 => n["SendGrad"] \in {Within(total, g), Within(total, g + 1)}
    BY <1>4, <2>3, CountsAt
  <2> HIDE DEF n, B, x, total
  <2>9. n[name] = h /\ n["ForwardPass"] = h
    BY <1>1, <2>4, <2>5, <2>6 DEF Within
  <2>10. n["BackwardPass"] <= h /\ (s # 0 => n["SendGrad"] <= h)
    BY <1>1, <2>3, <2>4, <2>7, <2>8 DEF Within
  <2>11. (s = 0 => h - n["BackwardPass"] < B) /\ (s # 0 => h - n["SendGrad"] < B)
    BY SMTT(60), <1>1, <1>3, <1>6, <2>3, <2>4, <2>7, <2>8 DEF Within
  <2>12. InputFits(c, s, n, h, x.buffer)
    BY <1>6, <2>4, <2>10, <2>11 DEF InputFits, First, B, total
  <2> QED  BY <1>5, <2>4, <2>9, <2>12 DEF n, B, x, total
<1>7. CASE c.kind = "eval"
  <2>1. EvalHas(total, s, k, x)  BY <1>7, InstructionAt
  <2>2. ValidMicroBatch(total, k - s) /\ x.buffer = RecvBuf(s, k)
    BY <1>2, <2>1 DEF EvalHas
  <2>3. /\ \A u \in {"LoadMicroBatch", "RecvActivation", "ForwardPass"} :
               Before(c, s, k, u) = Within(total, k - s)
        /\ Before(c, s, k, "BackwardPass") = 0 /\ Before(c, s, k + 1, "BackwardPass") = 0
        /\ RecvBuf(s, k) = (k - s) % 2
    BY ZenonT(60), <1>1, <1>7, EvalStep
  <2>4. 0 <= k - s /\ k - s < total /\ x.buffer = (k - s) % B /\ B = 2
    BY <1>7, <2>2, <2>3, BufferBound DEF ValidMicroBatch
  <2>5. n[name] = Within(total, k - s)
    <3>1. /\ Rank(Order(c, s), name) = Rank(Order(c, s), x.name)
          /\ Rank(Order(c, s), name) >= Rank(Order(c, s), name)
      BY <1>7 DEF Rank, Order, EvalOrder
    <3> QED  BY <1>4, <2>3, <3>1, CountsAt
  <2>6. n["ForwardPass"] = Within(total, k - s)
    <3>1. Rank(Order(c, s), "ForwardPass") >= Rank(Order(c, s), x.name)
      BY <1>7 DEF Rank, Order, EvalOrder
    <3> QED  BY <1>4, <2>3, <3>1, CountsAt
  <2>7. n["BackwardPass"] = 0  BY <1>4, <2>3, CountsAt
  <2> DEFINE h == k - s
  <2>8. h \in Int  BY <1>1
  <2> HIDE DEF n, B, x, total
  <2>9. n[name] = k - s /\ n["ForwardPass"] = k - s
    BY <1>1, <2>4, <2>5, <2>6, <2>8 DEF Within
  <2>12. InputFits(c, s, n, k - s, x.buffer)
    BY <1>1, <1>7, <2>4, <2>7, <2>8, <2>9 DEF InputFits, First, B, total
  <2> QED  BY <1>1, <1>5, <2>4, <2>9, <2>12 DEF n, B, x, total
<1> QED  BY <1>1, <1>6, <1>7

LEMMA WithinIs ==
    ASSUME NEW n \in Nat, NEW x \in Int, 0 <= x, x <= n
    PROVE  Within(n, x) = x
BY DEF Within

LEMMA WithinBelow ==
    ASSUME NEW n \in Nat, NEW x \in Int, NEW y \in Nat, x <= y
    PROVE  Within(n, x) <= y
BY DEF Within

(* Where an output is computed, its input is there and the buffer of the
   output is free. *)
LEMMA AtForward ==
    ASSUME NEW c \in Call, NEW s \in Stages, NEW k \in 0 .. StepsOf(c) - 1,
           NEW p \in 1 .. Len(CommandsOf(c, s, k)),
           CommandsOf(c, s, k)[p].name = "ForwardPass"
    PROVE  LET n == Counts(c, "steps", s, k, p)
               b == CommandsOf(c, s, k)[p].buffer
               m == n["ForwardPass"]
           IN  /\ m < c.micro /\ b = m % BuffersFor(c, s)
               /\ First(c, s, n) <= m /\ m < InputsOf(s, n)
               /\ s = Last => n["LoadMicroBatch"] = m + 1
               /\ m - n["BackwardPass"] < BuffersFor(c, s) \/ c.kind # "train"
               /\ n["BackwardPass"] <= m
<1> DEFINE x == CommandsOf(c, s, k)[p]
           n == Counts(c, "steps", s, k, p)
           B == BuffersFor(c, s)
           total == c.micro
           Input == IF s \in {0, Last} THEN "LoadMicroBatch" ELSE "RecvActivation"
<1>1. /\ k \in Nat /\ total \in Nat /\ s \in Nat /\ s < NumStages /\ NumStages \in Nat
      /\ c.kind \in {"train", "eval"} /\ Last # 0 /\ Last = NumStages - 1
  BY StageFacts, CallFacts
<1>2. /\ \A u, b : Instr(u, b).name = u /\ Instr(u, b).buffer = b  BY DEF Instr
<1>3. /\ B \in Nat /\ B >= 2
      /\ c.kind = "train" => B >= total \/ B >= NumStages - s + 1
  BY BufferBound
<1>4. /\ Does(s, "ForwardPass") /\ Does(s, "BackwardPass")
      /\ (s # 0 => Does(s, "SendGrad") /\ Does(s, "RecvActivation"))
      /\ (s \in {0, Last} => Does(s, "LoadMicroBatch"))
  BY DoesWhat
<1>6. CASE c.kind = "train"
  <2>1. TrainHas(total, s, k, x)  BY <1>6, InstructionAt
  <2>2. /\ IsForward(s, k) /\ ValidMicroBatch(total, StepMicroBatch(NumStages, s, k))
        /\ x.buffer = StepMicroBatch(NumStages, s, k) % TrainBuffers(NumStages, total, s)
    BY <1>2, <2>1 DEF TrainHas
  <2>3. PICK h, g \in Int :
               /\ h - g = NumStages - s
               /\ StepMicroBatch(NumStages, s, k) = h
               /\ \A u \in {"LoadMicroBatch", "RecvActivation", "ForwardPass"} :
                      /\ Before(c, s, k, u) = Within(total, h)
                      /\ Before(c, s, k + 1, u) = Within(total, h + 1)
               /\ Before(c, s, k, "BackwardPass") = Within(total, g + 1)
               /\ Before(c, s, k + 1, "BackwardPass") = Within(total, g + 1)
               /\ Before(c, s, k, "SendGrad") = Within(total, g)
               /\ Before(c, s, k + 1, "SendGrad") = Within(total, g + 1)
    BY ZenonT(60), <1>1, <1>6, <2>2, ForwardStep
  <2>4. 0 <= h /\ h < total /\ x.buffer = h % B
    BY <1>6, <2>2, <2>3 DEF ValidMicroBatch, BuffersFor
  <2>5. n["ForwardPass"] = Within(total, h)
    <3>1. Rank(Order(c, s), "ForwardPass") >= Rank(Order(c, s), x.name)
      BY <1>6 DEF Rank, Order
    <3> QED  BY <1>4, <2>3, <3>1, CountsAt
  <2>6. /\ s \in {0, Last} => n["LoadMicroBatch"] = Within(total, h + 1)
        /\ s # 0 => n["RecvActivation"] = Within(total, h + 1)
    <3>1. /\ Rank(Order(c, s), "LoadMicroBatch") < Rank(Order(c, s), x.name)
          /\ Rank(Order(c, s), "RecvActivation") < Rank(Order(c, s), x.name)
      BY <1>6 DEF Rank, Order
    <3> QED  BY <1>4, <2>3, <3>1, CountsAt
  <2>7. n["BackwardPass"] = Within(total, g + 1)  BY <1>4, <2>3, CountsAt
  <2>8. s # 0 => n["SendGrad"] \in {Within(total, g), Within(total, g + 1)}
    BY <1>4, <2>3, CountsAt
  <2> HIDE DEF n, B, x, total
  <2>9. n["ForwardPass"] = h /\ Within(total, h + 1) = h + 1
    BY <1>1, <2>4, <2>5 DEF Within
  <2>10. n["BackwardPass"] <= h /\ (s # 0 => n["SendGrad"] <= h)
    BY <1>1, <2>3, <2>4, <2>7, <2>8 DEF Within
  <2>11. h - n["BackwardPass"] < B
    <3>1. n["BackwardPass"] >= g + 1 \/ (n["BackwardPass"] = total /\ total > 0)
          \/ total <= 0
      BY <1>1, <2>3, <2>7 DEF Within
    <3>2. n["BackwardPass"] >= 0  BY <1>1, <2>3, <2>7 DEF Within
    <3>3. n["BackwardPass"] \in Int /\ h \in Int /\ g \in Int /\ B \in Nat
      BY <1>1, <1>3, <2>3, <2>7 DEF Within
    <3>4. B >= total \/ (B >= NumStages - s + 1 /\ h - g = NumStages - s)
      BY <1>3, <1>6, <2>3
    <3>5. 0 <= h /\ h < total /\ total \in Nat /\ NumStages - s \in Nat
      BY <1>1, <2>4
    <3>6. CASE B >= total  BY <3>2, <3>3, <3>5, <3>6
    <3>7. CASE B >= NumStages - s + 1 /\ h - g = NumStages - s
      <4>1. h - n["BackwardPass"] < NumStages - s + 1
        BY <3>1, <3>2, <3>3, <3>5, <3>7
      <4> QED  BY <3>3, <3>5, <3>7, <4>1
    <3> QED  BY <3>4, <3>6, <3>7
  <2>12. First(c, s, n) <= h /\ InputsOf(s, n) = h + 1
    BY <1>6, <2>6, <2>9, <2>10 DEF First, InputsOf
  <2> QED  BY <2>4, <2>6, <2>9, <2>10, <2>11, <2>12 DEF n, B, x, total
<1>7. CASE c.kind = "eval"
  <2>1. EvalHas(total, s, k, x)  BY <1>7, InstructionAt
  <2>2. ValidMicroBatch(total, k - s) /\ x.buffer = RecvBuf(s, k)
    BY <1>2, <2>1 DEF EvalHas
  <2>3. /\ \A u \in {"LoadMicroBatch", "RecvActivation", "ForwardPass"} :
               /\ Before(c, s, k, u) = Within(total, k - s)
               /\ Before(c, s, k + 1, u) = Within(total, k - s + 1)
        /\ Before(c, s, k, "BackwardPass") = 0 /\ Before(c, s, k + 1, "BackwardPass") = 0
        /\ RecvBuf(s, k) = (k - s) % 2
    BY ZenonT(60), <1>1, <1>7, EvalStep
  <2>4. 0 <= k - s /\ k - s < total /\ x.buffer = (k - s) % B /\ B = 2
    BY <1>7, <2>2, <2>3, BufferBound DEF ValidMicroBatch
  <2>5. n["ForwardPass"] = Within(total, k - s)
    <3>1. Rank(Order(c, s), "ForwardPass") >= Rank(Order(c, s), x.name)
      BY <1>7 DEF Rank, Order, EvalOrder
    <3> QED  BY <1>4, <2>3, <3>1, CountsAt
  <2>6. /\ s \in {0, Last} => n["LoadMicroBatch"] = Within(total, k - s + 1)
        /\ s # 0 => n["RecvActivation"] = Within(total, k - s + 1)
    <3>2. /\ Before(c, s, k + 1, "LoadMicroBatch") = Within(total, k - s + 1)
          /\ Before(c, s, k + 1, "RecvActivation") = Within(total, k - s + 1)
      BY <2>3
    <3>1. /\ Rank(Order(c, s), "LoadMicroBatch") < Rank(Order(c, s), x.name)
          /\ Rank(Order(c, s), "RecvActivation") < Rank(Order(c, s), x.name)
      BY <1>7 DEF Rank, Order, EvalOrder
    <3> QED  BY <1>4, <3>1, <3>2, CountsAt
  <2>7. n["BackwardPass"] = 0  BY <1>4, <2>3, CountsAt
  <2> DEFINE h == k - s
  <2>8. h \in Int /\ h + 1 = k - s + 1 /\ h = k - s  BY <1>1
  <2>10. 0 <= h /\ h < total /\ n["ForwardPass"] = Within(total, h) /\ x.buffer = h % B
    BY <2>4, <2>5
  <2> HIDE DEF n, B, x, total, h
  <2>11. Within(total, h) = h /\ Within(total, h + 1) = h + 1
    <3>1. total \in Nat /\ h \in Int /\ h + 1 \in Int /\ h <= total /\ h + 1 <= total /\ 0 <= h + 1
      BY <1>1, <2>8, <2>10
    <3> QED  BY <2>10, <3>1, WithinIs
  <2>9. n["ForwardPass"] = h /\ Within(total, k - s + 1) = h + 1
    BY <2>8, <2>10, <2>11
  <2>12. First(c, s, n) <= h /\ InputsOf(s, n) = h + 1
    BY <1>1, <1>7, <2>6, <2>8, <2>9 DEF First, InputsOf
  <2>13. h < h + 1 /\ n["BackwardPass"] <= h /\ c.kind # "train" /\ (s = Last => n["LoadMicroBatch"] = h + 1)
    BY <1>1, <1>7, <2>6, <2>7, <2>8, <2>9, <2>10
  <2> QED  BY <2>9, <2>10, <2>12, <2>13 DEF n, B, x, total
<1> QED  BY <1>1, <1>6, <1>7

(* Where an activation is sent, it was computed and its gradient has not
   come. *)
LEMMA AtSendActivation ==
    ASSUME NEW c \in Call, NEW s \in Stages, NEW k \in 0 .. StepsOf(c) - 1,
           NEW p \in 1 .. Len(CommandsOf(c, s, k)),
           CommandsOf(c, s, k)[p].name = "SendActivation"
    PROVE  LET n == Counts(c, "steps", s, k, p)
               b == CommandsOf(c, s, k)[p].buffer
               m == n["SendActivation"]
           IN  /\ s # Last /\ m < c.micro /\ b = m % BuffersFor(c, s)
               /\ FirstOut(c, n) <= m /\ m < n["ForwardPass"]
<1> DEFINE x == CommandsOf(c, s, k)[p]
           n == Counts(c, "steps", s, k, p)
           B == BuffersFor(c, s)
           total == c.micro
<1>1. /\ k \in Nat /\ total \in Nat /\ s \in Nat /\ s < NumStages /\ NumStages \in Nat
      /\ c.kind \in {"train", "eval"} /\ Last = NumStages - 1
  BY StageFacts, CallFacts
<1>2. /\ \A u, b : Instr(u, b).name = u /\ Instr(u, b).buffer = b  BY DEF Instr
<1>4. Does(s, "ForwardPass") /\ Does(s, "BackwardPass") /\ Does(s, "SendActivation")
  BY InstructionsAreDone, DoesWhat DEF Counted
<1>5. s < Last  BY <1>4 DEF Does
<1>6. CASE c.kind = "train"
  <2>1. TrainHas(total, s, k, x)  BY <1>6, InstructionAt
  <2>2. /\ ~IsForward(s, k) /\ ValidMicroBatch(total, PrevMicroBatch(NumStages, s, k))
        /\ x.buffer = PrevMicroBatch(NumStages, s, k) % TrainBuffers(NumStages, total, s)
    BY <1>2, <2>1 DEF TrainHas, SendsActivation
  <2>3. PICK h, g \in Int :
               /\ h - g = NumStages - s
               /\ \/ PrevMicroBatch(NumStages, s, k) = h - 1
                  \/ (PrevMicroBatch(NumStages, s, k) < 0 /\ h - 1 < 0)
               /\ Before(c, s, k, "ForwardPass") = Within(total, h)
               /\ Before(c, s, k + 1, "ForwardPass") = Within(total, h)
               /\ Before(c, s, k, "BackwardPass") = Within(total, g)
               /\ Before(c, s, k, "SendActivation") = Within(total, h - 1)
    BY ZenonT(60), <1>1, <1>6, <2>2, BackwardStep
  <2>4. PrevMicroBatch(NumStages, s, k) = h - 1 /\ 0 <= h - 1 /\ h - 1 < total
    <3> DEFINE prev == PrevMicroBatch(NumStages, s, k)
    <3>1. /\ prev \in Int /\ 0 <= prev /\ prev < total
          /\ prev = h - 1 \/ (prev < 0 /\ h - 1 < 0)
      BY <1>1, <2>2, <2>3, MicroBatchTypes DEF ValidMicroBatch
    <3> HIDE DEF prev
    <3>2. prev = h - 1  BY <3>1
    <3> QED  BY <3>1, <3>2 DEF prev
  <2>5. x.buffer = (h - 1) % B  BY <1>6, <2>2, <2>4 DEF BuffersFor
  <2>6. n["ForwardPass"] = Within(total, h)  BY <1>4, <2>3, CountsAt
  <2>7. n["BackwardPass"] = Within(total, g) /\ n["SendActivation"] = Within(total, h - 1)
    <3>1. /\ Rank(Order(c, s), "BackwardPass") >= Rank(Order(c, s), x.name)
          /\ Rank(Order(c, s), "SendActivation") >= Rank(Order(c, s), x.name)
      BY <1>6 DEF Rank, Order
    <3> QED  BY <1>4, <2>3, <3>1, CountsAt
  <2> HIDE DEF n, B, x, total
  <2>8. n["ForwardPass"] = h /\ n["SendActivation"] = h - 1 /\ n["BackwardPass"] <= h - 1
    <3>1. h \in Int /\ g \in Int /\ g <= h - 2 /\ 0 <= h - 1 /\ h - 1 < total /\ total \in Nat
      BY <1>1, <1>5, <2>3, <2>4
    <3>2. h - 1 \in Nat /\ 0 <= h /\ h <= total /\ h - 1 <= total /\ g <= h - 1
      BY <3>1
    <3>3. Within(total, h) = h /\ Within(total, h - 1) = h - 1
      BY <3>1, <3>2, WithinIs
    <3>4. Within(total, g) <= h - 1  BY <3>1, <3>2, WithinBelow
    <3> QED  BY <2>6, <2>7, <3>3, <3>4
  <2>9. FirstOut(c, n) <= h - 1 /\ h - 1 < h  BY <1>6, <2>8 DEF FirstOut
  <2> QED  BY <1>1, <1>5, <2>4, <2>5, <2>8, <2>9 DEF n, B, x, total
<1>7. CASE c.kind = "eval"
  <2>1. EvalHas(total, s, k, x)  BY <1>7, InstructionAt
  <2>2. ValidMicroBatch(total, k - s - 1) /\ x.buffer = SendBuf(s, k)
    BY <1>2, <2>1 DEF EvalHas
  <2>3. /\ Before(c, s, k, "ForwardPass") = Within(total, k - s)
        /\ Before(c, s, k, "SendActivation") = Within(total, k - s - 1)
        /\ SendBuf(s, k) = (k - s - 1) % 2
    BY <1>1, <1>7, EvalStep
  <2>4. 0 <= k - s - 1 /\ k - s - 1 < total /\ x.buffer = (k - s - 1) % B
    BY <1>7, <2>2, <2>3, BufferBound DEF ValidMicroBatch
  <2>5. n["ForwardPass"] = Within(total, k - s) /\ n["SendActivation"] = Within(total, k - s - 1)
    <3>1. /\ Rank(Order(c, s), "ForwardPass") >= Rank(Order(c, s), x.name)
          /\ Rank(Order(c, s), "SendActivation") >= Rank(Order(c, s), x.name)
      BY <1>7 DEF Rank, Order, EvalOrder
    <3> QED  BY <1>4, <2>3, <3>1, CountsAt
  <2> DEFINE h == k - s - 1
  <2>6. h \in Int /\ k - s = h + 1  BY <1>1
  <2> HIDE DEF n, B, x, total
  <2>8. n["ForwardPass"] = h + 1 /\ n["SendActivation"] = h
    BY <1>1, <2>4, <2>5, <2>6 DEF Within
  <2>9. FirstOut(c, n) <= h /\ h < h + 1  BY <1>7, <2>6, <2>8 DEF FirstOut
  <2> QED  BY <1>1, <1>5, <2>4, <2>8, <2>9 DEF n, B, x, total
<1> QED  BY <1>1, <1>6, <1>7

LEMMA WithinAbove ==
    ASSUME NEW n \in Nat, NEW x \in Int, NEW g \in Nat, g < x, g < n
    PROVE  Within(n, x) > g /\ Within(n, x) <= x /\ Within(n, x) <= n /\ Within(n, x) \in Int
BY DEF Within

(* Gradients are exchanged and computed in training only. *)
LEMMA GradientsInTraining ==
    ASSUME NEW c \in Call, NEW s \in Stages, NEW k \in 0 .. StepsOf(c) - 1,
           NEW p \in 1 .. Len(CommandsOf(c, s, k)),
           CommandsOf(c, s, k)[p].name \in {"RecvGrad", "BackwardPass", "SendGrad", "OptimizerStep"}
    PROVE  c.kind = "train"
<1> DEFINE x == CommandsOf(c, s, k)[p]
<1>1. c.kind \in {"train", "eval"} /\ \A u, b : Instr(u, b).name = u
  BY CallFacts DEF Instr
<1>2. c.kind = "eval" => EvalHas(c.micro, s, k, x)  BY InstructionAt
<1>3. ~EvalHas(c.micro, s, k, x)  BY <1>1 DEF EvalHas
<1> QED  BY <1>1, <1>2, <1>3

(* Where a gradient is computed, its output is there and, unless the stage
   is the last one, the gradient of the output has just come. *)
LEMMA AtBackward ==
    ASSUME NEW c \in Call, NEW s \in Stages, NEW k \in 0 .. StepsOf(c) - 1,
           NEW p \in 1 .. Len(CommandsOf(c, s, k)),
           NEW name \in {"RecvGrad", "BackwardPass"},
           CommandsOf(c, s, k)[p].name = name
    PROVE  LET n == Counts(c, "steps", s, k, p)
               b == CommandsOf(c, s, k)[p].buffer
               m == n[name]
           IN  /\ m < c.micro /\ b = m % BuffersFor(c, s)
               /\ n["BackwardPass"] = m /\ m < n["ForwardPass"]
               /\ m < InputsOf(s, n) /\ First(c, s, n) <= m
               /\ n["ForwardPass"] - m <= BuffersFor(c, s)
               /\ s # Last /\ name = "BackwardPass" => n["RecvGrad"] = m + 1
               /\ s = Last => n["ForwardPass"] = m + 1
               /\ ~Did(CommandsOf(c, s, k), p, "OptimizerStep")
<1> DEFINE x == CommandsOf(c, s, k)[p]
           n == Counts(c, "steps", s, k, p)
           B == BuffersFor(c, s)
           total == c.micro
<1>1. /\ k \in Nat /\ total \in Nat /\ s \in Nat /\ s < NumStages /\ NumStages \in Nat
      /\ Last = NumStages - 1
  BY StageFacts, CallFacts
<1>2. /\ \A u, b : Instr(u, b).name = u /\ Instr(u, b).buffer = b  BY DEF Instr
<1>3. /\ B \in Nat /\ B >= 2
      /\ c.kind = "train" => B >= total \/ B >= NumStages - s + 1
  BY BufferBound
<1>4. /\ Does(s, "ForwardPass") /\ Does(s, "BackwardPass") /\ Does(s, name)
      /\ (s # 0 => Does(s, "SendGrad") /\ Does(s, "RecvActivation"))
      /\ (s = 0 => Does(s, "LoadMicroBatch"))
      /\ (s # Last => Does(s, "RecvGrad"))
  BY InstructionsAreDone, DoesWhat DEF Counted
<1>6. c.kind = "train"  BY GradientsInTraining
<1>7. TrainHas(total, s, k, x)  BY <1>6, InstructionAt
<1>8. /\ ~IsForward(s, k) /\ ValidMicroBatch(total, StepMicroBatch(NumStages, s, k))
      /\ x.buffer = StepMicroBatch(NumStages, s, k) % TrainBuffers(NumStages, total, s)
  BY <1>2, <1>7 DEF TrainHas, RecvsGrad
<1>9. PICK h, g \in Int :
               /\ h - g = NumStages - s
               /\ StepMicroBatch(NumStages, s, k) = g
               /\ \A u \in {"LoadMicroBatch", "RecvActivation", "ForwardPass"} :
                      /\ Before(c, s, k, u) = Within(c.micro, h)
                      /\ Before(c, s, k + 1, u) = Within(c.micro, h)
               /\ \A u \in {"RecvGrad", "BackwardPass"} :
                      /\ Before(c, s, k, u) = Within(c.micro, g)
                      /\ Before(c, s, k + 1, u) = Within(c.micro, g + 1)
               /\ Before(c, s, k, "SendGrad") = Within(c.micro, g)
               /\ Before(c, s, k + 1, "SendGrad") = Within(c.micro, g)
  BY <1>1, <1>6, <1>8, BackwardStep
<1>10. 0 <= g /\ g < total /\ x.buffer = g % B
  BY <1>6, <1>8, <1>9 DEF ValidMicroBatch, BuffersFor
<1>11. /\ n["ForwardPass"] = Within(total, h)
       /\ s # 0 => n["RecvActivation"] = Within(total, h)
       /\ s = 0 => n["LoadMicroBatch"] = Within(total, h)
       /\ s # 0 => n["SendGrad"] = Within(total, g)
  BY <1>4, <1>9, CountsAt
<1>12. n[name] = Within(total, g) /\ n["BackwardPass"] = Within(total, g)
  <2>1. /\ Rank(Order(c, s), name) >= Rank(Order(c, s), x.name)
        /\ Rank(Order(c, s), "BackwardPass") >= Rank(Order(c, s), x.name)
    BY <1>6 DEF Rank, Order
  <2> QED  BY <1>4, <1>9, <2>1, CountsAt
<1>13. s # Last /\ name = "BackwardPass" => n["RecvGrad"] = Within(total, g + 1)
  <2>1. name = "BackwardPass" => Rank(Order(c, s), "RecvGrad") < Rank(Order(c, s), x.name)
    BY <1>6 DEF Rank, Order
  <2> QED  BY <1>4, <1>9, <2>1, CountsAt
<1>14. ~Did(CommandsOf(c, s, k), p, "OptimizerStep")
  <2>1. Rank(Order(c, s), "OptimizerStep") >= Rank(Order(c, s), x.name)
    BY <1>6 DEF Rank, Order
  <2> QED  BY <1>1, <2>1, CommandsOrdered, DidLater
<1> HIDE DEF n, B, x, total
<1>15. Within(total, g) = g /\ Within(total, g + 1) = g + 1
  <2>1. g + 1 \in Int /\ 0 <= g + 1 /\ g + 1 <= total /\ g <= total /\ 0 <= g
    BY <1>1, <1>10
  <2> QED  BY <1>1, <2>1, WithinIs
<1>16. Within(total, h) > g /\ Within(total, h) - g <= B /\ (s = Last => Within(total, h) = g + 1)
  <2>1. h \in Int /\ g \in Int /\ g < h /\ 0 <= g /\ g < total /\ total \in Nat /\ (s = Last => h = g + 1)
        /\ (B >= total \/ B >= h - g + 1) /\ B \in Nat
    BY SMTT(60), <1>1, <1>3, <1>6, <1>9, <1>10
  <2>2. Within(total, h) > g /\ Within(total, h) <= h /\ Within(total, h) <= total /\ Within(total, h) \in Int
    BY <2>1 DEF Within
  <2> HIDE DEF Within
  <2> QED  BY <2>1, <2>2
<1>17. InputsOf(s, n) = Within(total, h) /\ First(c, s, n) = g
  BY <1>6, <1>11, <1>12, <1>15 DEF InputsOf, First
<1>18. g <= g  BY <1>1
<1> QED
  BY <1>10, <1>11, <1>12, <1>13, <1>14, <1>15, <1>16, <1>17, <1>18 DEF n, B, x, total

(* Where a gradient is sent, it was computed and its input is still there. *)
LEMMA AtSendGrad ==
    ASSUME NEW c \in Call, NEW s \in Stages, NEW k \in 0 .. StepsOf(c) - 1,
           NEW p \in 1 .. Len(CommandsOf(c, s, k)),
           CommandsOf(c, s, k)[p].name = "SendGrad"
    PROVE  LET n == Counts(c, "steps", s, k, p)
               b == CommandsOf(c, s, k)[p].buffer
               m == n["SendGrad"]
           IN  /\ s # 0 /\ m < c.micro /\ b = m % BuffersFor(c, s)
               /\ m < n["BackwardPass"] /\ m < n["RecvActivation"]
               /\ n["RecvActivation"] - m <= BuffersFor(c, s)
<1> DEFINE x == CommandsOf(c, s, k)[p]
           n == Counts(c, "steps", s, k, p)
           B == BuffersFor(c, s)
           total == c.micro
<1>1. /\ k \in Nat /\ total \in Nat /\ s \in Nat /\ s < NumStages /\ NumStages \in Nat
      /\ Last = NumStages - 1
  BY StageFacts, CallFacts
<1>2. /\ \A u, b : Instr(u, b).name = u /\ Instr(u, b).buffer = b  BY DEF Instr
<1>3. /\ B \in Nat /\ B >= 2
      /\ c.kind = "train" => B >= total \/ B >= NumStages - s + 1
  BY BufferBound
<1>4. Does(s, "SendGrad") /\ s # 0
  <2>1. Does(s, "SendGrad")  BY InstructionsAreDone DEF Counted
  <2> QED  BY <1>1, <2>1 DEF Does
<1>5. Does(s, "BackwardPass") /\ Does(s, "RecvActivation")  BY <1>4, DoesWhat
<1>6. c.kind = "train"  BY GradientsInTraining
<1>7. TrainHas(total, s, k, x)  BY <1>6, InstructionAt
<1>8. /\ IsForward(s, k) /\ ValidMicroBatch(total, PrevMicroBatch(NumStages, s, k))
      /\ x.buffer = PrevMicroBatch(NumStages, s, k) % TrainBuffers(NumStages, total, s)
  BY <1>2, <1>7 DEF TrainHas, SendsGrad
<1>9. PICK h, g \in Int :
               /\ h - g = NumStages - s
               /\ \/ PrevMicroBatch(NumStages, s, k) = g
                  \/ (PrevMicroBatch(NumStages, s, k) < 0 /\ g < 0)
               /\ Before(c, s, k, "RecvActivation") = Within(c.micro, h)
               /\ Before(c, s, k + 1, "RecvActivation") = Within(c.micro, h + 1)
               /\ Before(c, s, k, "BackwardPass") = Within(c.micro, g + 1)
               /\ Before(c, s, k + 1, "BackwardPass") = Within(c.micro, g + 1)
               /\ Before(c, s, k, "SendGrad") = Within(c.micro, g)
  BY SMTT(60), <1>1, <1>6, <1>8, ForwardStep
<1>10. PrevMicroBatch(NumStages, s, k) = g /\ 0 <= g /\ g < total
  <2> DEFINE prev == PrevMicroBatch(NumStages, s, k)
  <2>1. /\ prev \in Int /\ 0 <= prev /\ prev < total
        /\ prev = g \/ (prev < 0 /\ g < 0)
    BY <1>1, <1>8, <1>9, MicroBatchTypes DEF ValidMicroBatch
  <2> HIDE DEF prev
  <2>2. prev = g  BY <2>1
  <2> QED  BY <2>1, <2>2 DEF prev
<1>11. x.buffer = g % B  BY <1>6, <1>8, <1>10 DEF BuffersFor
<1>12. /\ n["RecvActivation"] \in {Within(total, h), Within(total, h + 1)}
       /\ n["BackwardPass"] = Within(total, g + 1)
  BY <1>5, <1>9, CountsAt
<1>13. n["SendGrad"] = Within(total, g)
  <2>1. Rank(Order(c, s), "SendGrad") >= Rank(Order(c, s), x.name)
    BY <1>6 DEF Rank, Order
  <2> QED  BY <1>4, <1>9, <2>1, CountsAt
<1> HIDE DEF n, B, x, total
<1>14. Within(total, g) = g /\ Within(total, g + 1) = g + 1
  <2>1. g + 1 \in Int /\ 0 <= g + 1 /\ g + 1 <= total /\ g <= total /\ 0 <= g
    BY <1>1, <1>10
  <2> QED  BY <1>1, <2>1, WithinIs
<1>15. \A w \in {Within(total, h), Within(total, h + 1)} : g < w /\ w - g <= B
  <2>1. h \in Int /\ g \in Int /\ g < h /\ 0 <= g /\ g < total /\ total \in Nat
        /\ (B >= total \/ B >= h - g + 1) /\ B \in Nat
    BY <1>1, <1>3, <1>6, <1>9, <1>10
  <2>2. /\ Within(total, h) > g /\ Within(total, h) <= h /\ Within(total, h) <= total /\ Within(total, h) \in Int
        /\ Within(total, h + 1) > g /\ Within(total, h + 1) <= h + 1 /\ Within(total, h + 1) <= total
        /\ Within(total, h + 1) \in Int
    <3>1. h + 1 \in Int /\ g < h + 1 /\ g \in Nat  BY <2>1
    <3> QED  BY <2>1, <3>1, WithinAbove
  <2> HIDE DEF Within
  <2> QED  BY <2>1, <2>2
<1>16. g < g + 1  BY <1>1
<1> QED
  BY <1>4, <1>10, <1>11, <1>12, <1>13, <1>14, <1>15, <1>16 DEF n, B, x, total

(* Where the optimizer steps, all gradients of the batch were computed. *)
LEMMA AtOptimizerStep ==
    ASSUME NEW c \in Call, NEW s \in Stages, NEW k \in 0 .. StepsOf(c) - 1,
           NEW p \in 1 .. Len(CommandsOf(c, s, k)),
           CommandsOf(c, s, k)[p].name = "OptimizerStep"
    PROVE  LET n == Counts(c, "steps", s, k, p)
           IN  /\ c.kind = "train" /\ n["BackwardPass"] = c.micro
               /\ n["OptimizerStep"] = 0
               /\ ~Did(CommandsOf(c, s, k), p, "OptimizerStep")
<1> DEFINE x == CommandsOf(c, s, k)[p]
           n == Counts(c, "steps", s, k, p)
<1>1. c.kind = "train"  BY GradientsInTraining
<1>2. TrainHas(c.micro, s, k, x) /\ \A u, b : Instr(u, b).name = u
  BY <1>1, InstructionAt DEF Instr
<1>3. k = StepsOf(c) - 1
  <2>1. k = TrainTotalSteps(NumStages, c.micro) - 1  BY <1>2 DEF TrainHas
  <2> QED  BY <1>1, <2>1 DEF StepsOf
<1>4. k + 1 = StepsOf(c) /\ k \in Nat /\ k # StepsOf(c)  BY <1>3, CallFacts
<1>5. Before(c, s, k + 1, "BackwardPass") = c.micro
  <2>1. Before(c, s, StepsOf(c), "BackwardPass") = Total(c, "BackwardPass")
    BY DoesWhat, AllAtTheEnd
  <2> QED  BY <1>1, <1>4, <2>1 DEF Total, Gradients
<1>6. /\ Rank(Order(c, s), "BackwardPass") < Rank(Order(c, s), x.name)
      /\ Rank(Order(c, s), "OptimizerStep") >= Rank(Order(c, s), x.name)
  BY <1>1 DEF Rank, Order
<1>7. n["BackwardPass"] = c.micro  BY <1>5, <1>6, DoesWhat, CountsAt
<1>8. n["OptimizerStep"] = 0
  <2>1. Before(c, s, k, "OptimizerStep") = 0  BY <1>4 DEF Before
  <2> QED  BY <1>6, <2>1, DoesWhat, CountsAt
<1>9. ~Did(CommandsOf(c, s, k), p, "OptimizerStep")
  BY <1>4, <1>6, CommandsOrdered, DidLater
<1> QED  BY <1>1, <1>7, <1>8, <1>9

----------------------------------------------------------------------------
(* What the buffers of a stage hold. *)

PlaceIn(c, s, m) == m % BuffersFor(c, s)
MicroOf(c, m) == [from |-> c.kind, at |-> c.drawn[c.kind] + m]

(* The inputs whose gradients are still to be sent are in their buffers, *)
KeepsInputs(c, s, n, shape, in) ==
    \A m \in 0 .. c.micro - 1 : First(c, s, n) <= m /\ m < InputsOf(s, n) =>
        in[PlaceIn(c, s, m)] =
            [of |-> MicroOf(c, m), shape |-> shape,
             grad |-> IF m < n["BackwardPass"] THEN MicroOf(c, m) ELSE None]

(* and the outputs whose gradients are still to come; *)
KeepsOutputs(c, s, n, shape, out) ==
    \A m \in 0 .. c.micro - 1 : FirstOut(c, n) <= m /\ m < n["ForwardPass"] =>
        out[PlaceIn(c, s, m)] = [of |-> MicroOf(c, m), shape |-> shape]

(* other buffers hold no inputs of training. *)
NoOtherInputs(c, s, n, in) ==
    \A b \in BufferIds :
        \/ in[b] = None
        \/ in[b].of.from = "eval"
        \/ /\ c.kind = "train"
           /\ \E m \in Nat : /\ n["SendGrad"] <= m /\ m < n["RecvActivation"]
                             /\ b = PlaceIn(c, s, m)

Buffers(in) == in = [b \in BufferIds |-> in[b]]

(* Numbers that are closer than the number of buffers have different
   buffers. *)
LEMMA PlacesAreBuffers ==
    ASSUME NEW c \in Call, NEW s \in Stages, NEW m \in Nat
    PROVE  PlaceIn(c, s, m) \in BufferIds
<1> DEFINE B == BuffersFor(c, s)
<1>1. B \in Nat \ {0} /\ B <= MaxBuffers /\ MaxBuffers \in Nat
  BY BufferCount, StageFacts DEF MaxBuffers
<1> HIDE DEF B
<1>2. m % B \in 0 .. B - 1  BY <1>1
<1> QED  BY <1>1, <1>2 DEF PlaceIn, BufferIds, B

LEMMA PlacesDiffer ==
    ASSUME NEW c \in Call, NEW s \in Stages, NEW m \in Nat, NEW j \in Nat, m < j,
           j - m < BuffersFor(c, s)
    PROVE  PlaceIn(c, s, m) # PlaceIn(c, s, j)
<1>1. BuffersFor(c, s) \in Nat  BY BufferCount
<1> QED  BY <1>1, ModDistinct DEF PlaceIn

(* An input is received or loaded. *)
LEMMA InputTaken ==
    ASSUME NEW c \in Call, NEW s \in Stages, NEW n \in [Counted -> Nat], NEW shape, NEW in,
           NEW name \in {"LoadMicroBatch", "RecvActivation"}, (name = "LoadMicroBatch") <=> s = 0,
           NEW b, Buffers(in), InputFits(c, s, n, n[name], b), KeepsInputs(c, s, n, shape, in)
    PROVE  KeepsInputs(c, s, [n EXCEPT ![name] = @ + 1], shape,
               [in EXCEPT ![b] = [of |-> MicroOf(c, n[name]), shape |-> shape, grad |-> None]])
<1> DEFINE new == [n EXCEPT ![name] = @ + 1]
           k == n[name]
           v == [of |-> MicroOf(c, k), shape |-> shape, grad |-> None]
           in2 == [in EXCEPT ![b] = v]
<1>1. k \in Nat /\ k < c.micro /\ b = PlaceIn(c, s, k) /\ k - First(c, s, n) < BuffersFor(c, s)
      /\ First(c, s, n) <= k /\ n["BackwardPass"] <= k /\ c.micro \in Nat /\ n["BackwardPass"] \in Nat
  BY CallFacts DEF InputFits, PlaceIn, Counted
<1>2. /\ InputsOf(s, n) = k /\ InputsOf(s, new) = k + 1 /\ First(c, s, new) = First(c, s, n)
      /\ new["BackwardPass"] = n["BackwardPass"] /\ First(c, s, n) \in Nat
  BY DEF InputsOf, First, Counted
<1>3. b \in BufferIds /\ BuffersFor(c, s) \in Nat
  BY <1>1, PlacesAreBuffers, BufferCount
<1>4. in2[b] = v /\ \A u \in BufferIds : u # b => in2[u] = in[u]
  BY <1>3 DEF Buffers
<1> HIDE DEF k, new, in2, v
<1>5. ASSUME NEW m \in 0 .. c.micro - 1, First(c, s, new) <= m, m < InputsOf(s, new)
      PROVE  in2[PlaceIn(c, s, m)] =
                [of |-> MicroOf(c, m), shape |-> shape,
                 grad |-> IF m < new["BackwardPass"] THEN MicroOf(c, m) ELSE None]
  <2>1. m \in Nat  BY <1>1
  <2>2. CASE m = k  BY <1>1, <1>2, <1>4, <2>2 DEF v
  <2>3. CASE m # k
    <3>1. m < k /\ First(c, s, n) <= m /\ m < InputsOf(s, n) /\ k - m < BuffersFor(c, s)
      BY <1>1, <1>2, <1>3, <1>5, <2>1, <2>3
    <3>2. PlaceIn(c, s, m) # b /\ PlaceIn(c, s, m) \in BufferIds
      BY <1>1, <2>1, <3>1, PlacesDiffer, PlacesAreBuffers
    <3> QED  BY <1>2, <1>4, <3>1, <3>2 DEF KeepsInputs
  <2> QED  BY <2>2, <2>3
<1>6. KeepsInputs(c, s, new, shape, in2)  BY <1>5 DEF KeepsInputs
<1> QED  BY <1>6 DEF k, new, in2, v

(* The same, for the stages that receive. *)
LEMMA InputReceived ==
    ASSUME NEW c \in Call, NEW s \in Stages, NEW n \in [Counted -> Nat], NEW in, NEW v,
           NEW b, Buffers(in), InputFits(c, s, n, n["RecvActivation"], b), s # 0,
           NoOtherInputs(c, s, n, in), v.of.from = c.kind
    PROVE  NoOtherInputs(c, s, [n EXCEPT !["RecvActivation"] = @ + 1], [in EXCEPT ![b] = v])
<1> DEFINE k == n["RecvActivation"]
           new == [n EXCEPT !["RecvActivation"] = @ + 1]
           in2 == [in EXCEPT ![b] = v]
<1>1. k \in Nat /\ b = PlaceIn(c, s, k) /\ (c.kind = "train" => n["SendGrad"] <= k)
      /\ c.kind \in {"train", "eval"} /\ n["SendGrad"] \in Nat
  BY CallFacts DEF InputFits, PlaceIn, Counted, First
<1>2. new["RecvActivation"] = k + 1 /\ new["SendGrad"] = n["SendGrad"]
  BY DEF Counted
<1>3. b \in BufferIds  BY <1>1, PlacesAreBuffers
<1>4. in2[b] = v /\ \A u \in BufferIds : u # b => in2[u] = in[u]
  BY <1>3 DEF Buffers
<1> HIDE DEF k, new, in2
<1>5. ASSUME NEW u \in BufferIds
      PROVE  \/ in2[u] = None
             \/ in2[u].of.from = "eval"
             \/ /\ c.kind = "train"
                /\ \E m \in Nat : new["SendGrad"] <= m /\ m < new["RecvActivation"] /\ u = PlaceIn(c, s, m)
  <2>1. CASE u = b
    <3>1. CASE c.kind = "eval"  BY <1>4, <2>1, <3>1
    <3>2. CASE c.kind = "train"
      <4>1. k \in Nat /\ new["SendGrad"] <= k /\ k < new["RecvActivation"] /\ u = PlaceIn(c, s, k)
        BY <1>1, <1>2, <2>1, <3>2
      <4> QED  BY <3>2, <4>1
    <3> QED  BY <1>1, <3>1, <3>2
  <2>2. CASE u # b
    <3>1. in2[u] = in[u]  BY <1>4, <2>2
    <3>2. CASE \E m \in Nat : n["SendGrad"] <= m /\ m < k /\ u = PlaceIn(c, s, m)
      <4>1. PICK m \in Nat : n["SendGrad"] <= m /\ m < k /\ u = PlaceIn(c, s, m)
        BY <3>2
      <4>2. new["SendGrad"] <= m /\ m < new["RecvActivation"]
        BY <1>1, <1>2, <4>1
      <4> QED  BY <3>1, <4>1, <4>2 DEF NoOtherInputs
    <3>3. CASE ~\E m \in Nat : n["SendGrad"] <= m /\ m < k /\ u = PlaceIn(c, s, m)
      BY <3>1, <3>3 DEF NoOtherInputs, k
    <3> QED  BY <3>2, <3>3
  <2> QED  BY <2>1, <2>2
<1>6. NoOtherInputs(c, s, new, in2)  BY <1>5 DEF NoOtherInputs
<1> QED  BY <1>6 DEF new, in2

(* The counts that the inputs and the outputs do not depend on. *)
LEMMA InputsStay ==
    ASSUME NEW c \in Call, NEW s \in Stages, NEW n \in [Counted -> Nat], NEW new \in [Counted -> Nat],
           NEW shape, NEW in, KeepsInputs(c, s, n, shape, in),
           InputsOf(s, new) = InputsOf(s, n), First(c, s, n) <= First(c, s, new),
           new["BackwardPass"] = n["BackwardPass"]
    PROVE  KeepsInputs(c, s, new, shape, in)
<1>1. c.micro \in Nat /\ First(c, s, n) \in Nat /\ First(c, s, new) \in Nat
  BY CallFacts DEF First, Counted
<1>2. \A m \in 0 .. c.micro - 1 : First(c, s, new) <= m => First(c, s, n) <= m
  BY <1>1
<1> QED  BY <1>2 DEF KeepsInputs

LEMMA OutputsStay ==
    ASSUME NEW c \in Call, NEW s \in Stages, NEW n \in [Counted -> Nat], NEW new \in [Counted -> Nat],
           NEW shape, NEW out, KeepsOutputs(c, s, n, shape, out),
           new["ForwardPass"] = n["ForwardPass"],
           new["BackwardPass"] = n["BackwardPass"]
    PROVE  KeepsOutputs(c, s, new, shape, out)
BY DEF KeepsOutputs, FirstOut

LEMMA OtherInputsStay ==
    ASSUME NEW c \in Call, NEW s \in Stages, NEW n \in [Counted -> Nat], NEW new \in [Counted -> Nat],
           NEW in, NoOtherInputs(c, s, n, in),
           new["RecvActivation"] = n["RecvActivation"], new["SendGrad"] = n["SendGrad"]
    PROVE  NoOtherInputs(c, s, new, in)
BY DEF NoOtherInputs

(* An output is computed. *)
LEMMA OutputComputed ==
    ASSUME NEW c \in Call, NEW s \in Stages, NEW n \in [Counted -> Nat], NEW shape, NEW out, NEW b,
           Buffers(out), KeepsOutputs(c, s, n, shape, out),
           n["ForwardPass"] < c.micro, b = n["ForwardPass"] % BuffersFor(c, s),
           n["ForwardPass"] - n["BackwardPass"] < BuffersFor(c, s) \/ c.kind # "train"
    PROVE  KeepsOutputs(c, s, [n EXCEPT !["ForwardPass"] = @ + 1], shape,
               [out EXCEPT ![b] = [of |-> MicroOf(c, n["ForwardPass"]), shape |-> shape]])
<1> DEFINE new == [n EXCEPT !["ForwardPass"] = @ + 1]
           k == n["ForwardPass"]
           v == [of |-> MicroOf(c, k), shape |-> shape]
           out2 == [out EXCEPT ![b] = v]
           B == BuffersFor(c, s)
<1>1. /\ k \in Nat /\ k < c.micro /\ b = PlaceIn(c, s, k)
      /\ c.micro \in Nat /\ n["BackwardPass"] \in Nat /\ B \in Nat /\ B >= 2
  BY CallFacts, BufferBound DEF PlaceIn, Counted
<1>2. /\ new["ForwardPass"] = k + 1 /\ new["BackwardPass"] = n["BackwardPass"]
  BY DEF Counted
<1>3. b \in BufferIds  BY <1>1, PlacesAreBuffers
<1>4. out2[b] = v /\ \A u \in BufferIds : u # b => out2[u] = out[u]
  BY <1>3 DEF Buffers
<1>5. k - n["BackwardPass"] < B \/ c.kind # "train"  OBVIOUS
<1> HIDE DEF k, new, out2, v, B
<1>6. ASSUME NEW m \in 0 .. c.micro - 1, FirstOut(c, new) <= m, m < new["ForwardPass"]
      PROVE  out2[PlaceIn(c, s, m)] = [of |-> MicroOf(c, m), shape |-> shape]
  <2>1. m \in Nat  BY <1>1
  <2>2. CASE m = k  BY <1>1, <1>4, <2>2 DEF v
  <2>3. CASE m # k
    <3>1. m < k  BY <1>1, <1>2, <1>6, <2>1, <2>3
    <3>2. k - m < B
      <4>1. CASE c.kind = "train"
        <5>1. n["BackwardPass"] <= m  BY <1>2, <1>6, <4>1 DEF FirstOut
        <5> QED  BY <1>1, <1>5, <2>1, <4>1, <5>1
      <4>2. CASE c.kind # "train"
        <5>3. new["ForwardPass"] - 2 <= m  BY <1>6, <4>2 DEF FirstOut
        <5>1. (k + 1) - 2 <= m  BY <1>2, <5>3
        <5> QED  BY <1>1, <2>1, <5>1
      <4> QED  BY <4>1, <4>2
    <3>3. FirstOut(c, n) <= m
      <4>1. CASE c.kind = "train"  BY <1>2, <1>6, <4>1 DEF FirstOut
      <4>2. CASE c.kind # "train"
        <5>3. new["ForwardPass"] - 2 <= m  BY <1>6, <4>2 DEF FirstOut
        <5>1. (k + 1) - 2 <= m  BY <1>2, <5>3
        <5>2. k - 2 <= m  BY <1>1, <2>1, <5>1
        <5> QED  BY <4>2, <5>2 DEF FirstOut, k
      <4> QED  BY <4>1, <4>2
    <3>4. PlaceIn(c, s, m) # b /\ PlaceIn(c, s, m) \in BufferIds
      BY <1>1, <2>1, <3>1, <3>2, PlacesDiffer, PlacesAreBuffers DEF B
    <3> QED  BY <1>4, <3>1, <3>3, <3>4 DEF KeepsOutputs, k
  <2> QED  BY <2>2, <2>3
<1>7. KeepsOutputs(c, s, new, shape, out2)  BY <1>6 DEF KeepsOutputs
<1> QED  BY <1>7 DEF k, new, out2, v

(* An output is freed after its backward pass, or kept by the last stage. *)
LEMMA OutputFreed ==
    ASSUME NEW c \in Call, NEW s \in Stages, NEW n \in [Counted -> Nat], NEW shape, NEW out, NEW b,
           Buffers(out), KeepsOutputs(c, s, n, shape, out), c.kind = "train",
           b = n["BackwardPass"] % BuffersFor(c, s),
           n["ForwardPass"] - n["BackwardPass"] <= BuffersFor(c, s)
    PROVE  KeepsOutputs(c, s, [n EXCEPT !["BackwardPass"] = @ + 1], shape, [out EXCEPT ![b] = None])
<1> DEFINE new == [n EXCEPT !["BackwardPass"] = @ + 1]
           k == n["BackwardPass"]
           out2 == [out EXCEPT ![b] = None]
           B == BuffersFor(c, s)
<1>1. /\ k \in Nat /\ b = PlaceIn(c, s, k) /\ c.micro \in Nat /\ n["ForwardPass"] \in Nat
      /\ B \in Nat /\ n["ForwardPass"] - k <= B
  BY CallFacts, BufferBound DEF PlaceIn, Counted
<1>2. /\ new["BackwardPass"] = k + 1 /\ new["ForwardPass"] = n["ForwardPass"]
  BY DEF Counted
<1>3. b \in BufferIds  BY <1>1, PlacesAreBuffers
<1>4. \A u \in BufferIds : u # b => out2[u] = out[u]  BY <1>3 DEF Buffers
<1> HIDE DEF k, new, out2, B
<1>5. ASSUME NEW m \in 0 .. c.micro - 1, FirstOut(c, new) <= m, m < new["ForwardPass"]
      PROVE  out2[PlaceIn(c, s, m)] = [of |-> MicroOf(c, m), shape |-> shape]
  <2>1. m \in Nat  BY <1>1
  <2>2. k < m /\ m - k < B /\ k <= m
    <3>1. k + 1 <= m  BY <1>2, <1>5 DEF FirstOut
    <3> QED  BY <1>1, <1>2, <1>5, <2>1, <3>1
  <2>3. PlaceIn(c, s, k) # PlaceIn(c, s, m) /\ PlaceIn(c, s, m) \in BufferIds
    BY <1>1, <2>1, <2>2, PlacesDiffer, PlacesAreBuffers DEF B
  <2>4. FirstOut(c, n) <= m /\ m < n["ForwardPass"]
    BY <1>2, <1>5, <2>2 DEF FirstOut, k
  <2> QED  BY <1>1, <1>4, <2>3, <2>4 DEF KeepsOutputs
<1>6. KeepsOutputs(c, s, new, shape, out2)  BY <1>5 DEF KeepsOutputs
<1> QED  BY <1>6 DEF new, out2

(* The gradient of an output reaches its input. *)
Graded(in, micro, gradient) ==
    [b \in DOMAIN in |-> IF in[b] # None /\ in[b].of = micro
                         THEN [in[b] EXCEPT !.grad = gradient] ELSE in[b]]

(* Two micro batches of a call are different. *)
LEMMA MicrosDiffer ==
    ASSUME NEW c \in Call, NEW m \in Nat, NEW j \in Nat, m # j
    PROVE  MicroOf(c, m) # MicroOf(c, j)
<1>1. c.drawn[c.kind] \in Nat  BY DEF Call
<1>2. MicroOf(c, m).at = c.drawn[c.kind] + m /\ MicroOf(c, j).at = c.drawn[c.kind] + j
  BY DEF MicroOf
<1> HIDE DEF MicroOf
<1>3. c.drawn[c.kind] + m # c.drawn[c.kind] + j  BY <1>1
<1> QED  BY <1>2, <1>3

LEMMA InputGraded ==
    ASSUME NEW c \in Call, NEW s \in Stages, NEW n \in [Counted -> Nat], NEW shape, NEW in,
           Buffers(in), KeepsInputs(c, s, n, shape, in), c.kind = "train"
    PROVE  KeepsInputs(c, s, [n EXCEPT !["BackwardPass"] = @ + 1], shape,
               Graded(in, MicroOf(c, n["BackwardPass"]), MicroOf(c, n["BackwardPass"])))
<1> DEFINE new == [n EXCEPT !["BackwardPass"] = @ + 1]
           k == n["BackwardPass"]
           v == MicroOf(c, k)
           in2 == Graded(in, v, v)
<1>1. k \in Nat /\ c.micro \in Nat  BY CallFacts DEF Counted
<1>2. /\ new["BackwardPass"] = k + 1 /\ InputsOf(s, new) = InputsOf(s, n)
      /\ \A m \in Int : First(c, s, new) <= m => First(c, s, n) <= m
  <2>1. /\ new["BackwardPass"] = k + 1 /\ new["SendGrad"] = n["SendGrad"]
        /\ new["LoadMicroBatch"] = n["LoadMicroBatch"] /\ new["RecvActivation"] = n["RecvActivation"]
    BY DEF Counted
  <2> HIDE DEF new
  <2> QED  BY <1>1, <2>1 DEF First, InputsOf
<1>3. \A b \in BufferIds : in2[b] = IF in[b] # None /\ in[b].of = v
                                    THEN [in[b] EXCEPT !.grad = v] ELSE in[b]
  BY DEF Graded, Buffers
<1> HIDE DEF k, new, in2
<1>5. ASSUME NEW m \in 0 .. c.micro - 1, First(c, s, new) <= m, m < InputsOf(s, new)
      PROVE  in2[PlaceIn(c, s, m)] =
                [of |-> MicroOf(c, m), shape |-> shape,
                 grad |-> IF m < new["BackwardPass"] THEN MicroOf(c, m) ELSE None]
  <2>1. m \in Nat /\ First(c, s, n) <= m /\ m < InputsOf(s, n)
    BY <1>1, <1>2, <1>5
  <2> DEFINE u == PlaceIn(c, s, m)
             x == [of |-> MicroOf(c, m), shape |-> shape,
                   grad |-> IF m < k THEN MicroOf(c, m) ELSE None]
  <2>2. u \in BufferIds /\ in[u] = x
    BY <2>1, PlacesAreBuffers DEF KeepsInputs, k
  <2>3. x # None /\ x.of = MicroOf(c, m)
    <3>1. "shape" \in DOMAIN x /\ "shape" \notin DOMAIN None  BY DEF None
    <3> QED  BY <3>1
  <2>4. CASE m = k
    <3>1. [x EXCEPT !.grad = v] = [of |-> MicroOf(c, m), shape |-> shape, grad |-> v]
      OBVIOUS
    <3>2. in2[u] = [of |-> MicroOf(c, m), shape |-> shape, grad |-> v]
      BY <1>3, <2>2, <2>3, <2>4, <3>1
    <3>3. m < new["BackwardPass"]  BY <1>1, <1>2, <2>4
    <3> QED  BY <2>4, <3>2, <3>3
  <2>5. CASE m # k
    <3>1. MicroOf(c, m) # v  BY <1>1, <2>1, <2>5, MicrosDiffer
    <3>2. in2[u] = x  BY <1>3, <2>2, <2>3, <3>1
    <3>3. m < k <=> m < new["BackwardPass"]  BY <1>1, <1>2, <2>1, <2>5
    <3> QED  BY <3>2, <3>3
  <2> QED  BY <2>4, <2>5
<1>6. KeepsInputs(c, s, new, shape, in2)  BY <1>5 DEF KeepsInputs
<1> QED  BY <1>6 DEF k, new, in2

LEMMA OtherInputsGraded ==
    ASSUME NEW c \in Call, NEW s \in Stages, NEW n \in [Counted -> Nat], NEW in,
           Buffers(in), NoOtherInputs(c, s, n, in), c.kind = "train", NEW m
    PROVE  NoOtherInputs(c, s, [n EXCEPT !["BackwardPass"] = @ + 1],
               Graded(in, MicroOf(c, m), MicroOf(c, m)))
<1> DEFINE new == [n EXCEPT !["BackwardPass"] = @ + 1]
           v == MicroOf(c, m)
           in2 == Graded(in, v, v)
<1>1. new["RecvActivation"] = n["RecvActivation"] /\ new["SendGrad"] = n["SendGrad"]
  BY DEF Counted
<1>2. v.from = "train"  BY DEF MicroOf
<1>3. \A b \in BufferIds : in2[b] = IF in[b] # None /\ in[b].of = v
                                    THEN [in[b] EXCEPT !.grad = v] ELSE in[b]
  BY DEF Graded, Buffers
<1> HIDE DEF new, in2, v
<1>4. \A b \in BufferIds : in[b] = None => in2[b] = None  BY <1>3
<1>5. \A b \in BufferIds : in[b].of.from = "eval" => in2[b] = in[b]
  BY <1>2, <1>3
<1>6. NoOtherInputs(c, s, new, in2)  BY <1>1, <1>4, <1>5 DEF NoOtherInputs
<1> QED  BY <1>6 DEF new, in2, v

(* The gradient of an input is sent, and the input freed. *)
LEMMA InputFreed ==
    ASSUME NEW c \in Call, NEW s \in Stages, NEW n \in [Counted -> Nat], NEW shape, NEW in, NEW b,
           Buffers(in), KeepsInputs(c, s, n, shape, in), NoOtherInputs(c, s, n, in),
           c.kind = "train", s # 0, b = n["SendGrad"] % BuffersFor(c, s),
           n["RecvActivation"] - n["SendGrad"] <= BuffersFor(c, s)
    PROVE  /\ KeepsInputs(c, s, [n EXCEPT !["SendGrad"] = @ + 1], shape, [in EXCEPT ![b] = None])
           /\ NoOtherInputs(c, s, [n EXCEPT !["SendGrad"] = @ + 1], [in EXCEPT ![b] = None])
<1> DEFINE new == [n EXCEPT !["SendGrad"] = @ + 1]
           k == n["SendGrad"]
           in2 == [in EXCEPT ![b] = None]
           B == BuffersFor(c, s)
           r == n["RecvActivation"]
<1>1. /\ k \in Nat /\ b = PlaceIn(c, s, k) /\ c.micro \in Nat /\ r \in Nat
      /\ B \in Nat /\ r - k <= B
  BY CallFacts, BufferBound DEF PlaceIn, Counted
<1>2. /\ new["SendGrad"] = k + 1 /\ new["RecvActivation"] = r
      /\ new["BackwardPass"] = n["BackwardPass"]
      /\ First(c, s, new) = k + 1 /\ First(c, s, n) = k /\ InputsOf(s, new) = r /\ InputsOf(s, n) = r
  BY DEF Counted, First, InputsOf
<1>3. b \in BufferIds  BY <1>1, PlacesAreBuffers
<1>4. in2[b] = None /\ \A u \in BufferIds : u # b => in2[u] = in[u]
  BY <1>3 DEF Buffers
<1> HIDE DEF k, new, in2, B, r
<1>5. ASSUME NEW m \in 0 .. c.micro - 1, First(c, s, new) <= m, m < InputsOf(s, new)
      PROVE  in2[PlaceIn(c, s, m)] =
                [of |-> MicroOf(c, m), shape |-> shape,
                 grad |-> IF m < new["BackwardPass"] THEN MicroOf(c, m) ELSE None]
  <2>1. m \in Nat /\ k < m /\ m - k < B /\ k <= m /\ m < r  BY <1>1, <1>2, <1>5
  <2>2. PlaceIn(c, s, k) # PlaceIn(c, s, m) /\ PlaceIn(c, s, m) \in BufferIds
    BY <1>1, <2>1, PlacesDiffer, PlacesAreBuffers DEF B
  <2> QED  BY <1>1, <1>2, <1>4, <2>1, <2>2 DEF KeepsInputs
<1>6. KeepsInputs(c, s, new, shape, in2)  BY <1>5 DEF KeepsInputs
<1>7. ASSUME NEW u \in BufferIds
      PROVE  \/ in2[u] = None
             \/ in2[u].of.from = "eval"
             \/ \E m \in Nat : new["SendGrad"] <= m /\ m < new["RecvActivation"] /\ u = PlaceIn(c, s, m)
  <2>1. CASE u = b  BY <1>4, <2>1
  <2>2. CASE u # b
    <3>1. in2[u] = in[u]  BY <1>4, <2>2
    <3>2. CASE \E m \in Nat : n["SendGrad"] <= m /\ m < r /\ u = PlaceIn(c, s, m)
      <4>1. PICK m \in Nat : k <= m /\ m < r /\ u = PlaceIn(c, s, m)
        BY <3>2 DEF k
      <4>2. m # k  BY <1>1, <2>2, <4>1
      <4>3. new["SendGrad"] <= m /\ m < new["RecvActivation"]
        BY <1>1, <1>2, <4>1, <4>2
      <4> QED  BY <4>1, <4>3
    <3>3. CASE ~\E m \in Nat : n["SendGrad"] <= m /\ m < r /\ u = PlaceIn(c, s, m)
      BY <3>1, <3>3 DEF NoOtherInputs, r
    <3> QED  BY <3>2, <3>3
  <2> QED  BY <2>1, <2>2
<1>8. NoOtherInputs(c, s, new, in2)  BY <1>7 DEF NoOtherInputs
<1> QED  BY <1>6, <1>8 DEF new, in2

----------------------------------------------------------------------------
(* The call a stage is in, and what it has done of it. *)
CallOf(s) == program[batch[s]]
Num(s) == Counts(CallOf(s), at[s], s, step[s], pc[s])
Dim(b) == difficulty[program[b].trained + 1]

Positions ==
    /\ program \in Programs
    /\ \A s \in Stages :
          /\ batch[s] \in 1 .. Len(program) + 1
          /\ at[s] \in {"begin", "barrier", "steps", "end"}
          /\ Finished(s) => at[s] = "begin"
          /\ at[s] # "steps" => step[s] = 0 /\ pc[s] = 1
          /\ at[s] = "steps" => /\ step[s] \in 0 .. StepsOf(CallOf(s)) - 1
                                /\ pc[s] \in 1 .. Len(CommandsOf(CallOf(s), s, step[s])) + 1

(* The functions of the state are functions. *)
OfStages(f) == f = [s \in Stages |-> f[s]]
Shapely ==
    /\ OfStages(batch) /\ OfStages(at) /\ OfStages(step) /\ OfStages(pc)
    /\ OfStages(drawn) /\ \A s \in Stages : drawn[s] = [k \in Kinds |-> drawn[s][k]]
    /\ OfStages(inputs) /\ \A s \in Stages : Buffers(inputs[s])
    /\ OfStages(labels) /\ \A s \in Stages : Buffers(labels[s])
    /\ OfStages(outputs) /\ \A s \in Stages : Buffers(outputs[s])
    /\ OfStages(pipe_recv_buf) /\ OfStages(grad_layer) /\ OfStages(first_output_send)
    /\ OfStages(accumulated) /\ OfStages(global_steps) /\ OfStages(first_step)

(* Neighbours have exchanged as much, or one is a call ahead. *)
Exchanged(s, t) ==
    \/ /\ batch[s] = batch[t]
       /\ Num(s)["SendActivation"] = Num(t)["RecvActivation"]
       /\ Num(s)["RecvGrad"] = Num(t)["SendGrad"]
    \/ /\ batch[s] = batch[t] + 1
       /\ Num(s)["SendActivation"] = 0 /\ Num(t)["RecvActivation"] = CallOf(t).micro
       /\ Num(s)["RecvGrad"] = 0 /\ Num(t)["SendGrad"] = Gradients(CallOf(t))
    \/ /\ batch[t] = batch[s] + 1
       /\ Num(t)["RecvActivation"] = 0 /\ Num(s)["SendActivation"] = CallOf(s).micro
       /\ Num(t)["SendGrad"] = 0 /\ Num(s)["RecvGrad"] = Gradients(CallOf(s))
InStep == \A s \in Stages \ {Last} : Exchanged(s, s + 1)

(* A loader has given the micro batches of earlier calls and those that
   the stage has loaded of this one. *)
Draws(s) ==
    (s \in {0, Last} /\ ~Finished(s)) => \A k \in Kinds :
        drawn[s][k] = CallOf(s).drawn[k] + (IF k = CallOf(s).kind THEN Num(s)["LoadMicroBatch"] ELSE 0)

(* The steps of the optimizer are the training calls done. *)
Trains(s) ==
    /\ first_step[s] <=> (batch[s] = 1 /\ at[s] = "begin")
    /\ ~Finished(s) => global_steps[s] = CallOf(s).trained + Num(s)["OptimizerStep"]

(* The buffers hold the inputs and outputs that the rest of the call
   needs, and nothing of training but those. *)
HasInputs(s) == ~Finished(s) => KeepsInputs(CallOf(s), s, Num(s), Dim(batch[s]), inputs[s])
HasOutputs(s) ==
    (~Finished(s) /\ s # Last) => KeepsOutputs(CallOf(s), s, Num(s), Dim(batch[s]), outputs[s])
NoInputsLeft(s) == s # 0 => NoOtherInputs(CallOf(s), s, Num(s), inputs[s])

Gradient(c, m) == [output |-> MicroOf(c, m), grad |-> MicroOf(c, m)]
(* The gradient last received is that of the last micro batch that came
   back, and the gradients accumulated are those of the backward passes so
   far, in order. *)
HasGrads(s) ==
    /\ (~Finished(s) /\ s # Last /\ Num(s)["RecvGrad"] > 0) =>
           grad_layer[s].of = MicroOf(CallOf(s), Num(s)["RecvGrad"] - 1)
    /\ accumulated[s] = IF Num(s)["OptimizerStep"] = 0
                        THEN [i \in 1 .. Num(s)["BackwardPass"] |-> Gradient(CallOf(s), i - 1)]
                        ELSE << >>

LossOf(c, m) == [of |-> MicroOf(c, m), label |-> MicroOf(c, m)]
(* On the last stage the losses so far are those of the micro batches so
   far, each from its own label. *)
Losses ==
    ~Finished(Last) =>
        LET c == CallOf(Last)
            n == Num(Last)
        IN  /\ n["LoadMicroBatch"] > n["ForwardPass"] =>
                   labels[Last][PlaceIn(c, Last, n["ForwardPass"])] =
                       [of |-> MicroOf(c, n["ForwardPass"])]
            /\ n["ForwardPass"] > 0 => loss = LossOf(c, n["ForwardPass"] - 1)
            /\ at[Last] # "begin" =>
                   fwd_outputs = [i \in 1 .. n["ForwardPass"] |-> LossOf(c, i - 1)]

(* A call resets the shapes. *)
Resets(b) == \/ b = 1 \/ program[b].trained = 0
             \/ difficulty[program[b].trained + 1] # difficulty[program[b].trained]
Shapes(s) ==
    /\ s # 0 => pipe_recv_buf[s] =
          IF at[s] = "begin" THEN IF batch[s] = 1 THEN 0 ELSE Dim(batch[s] - 1)
          ELSE IF Resets(batch[s]) /\ Num(s)["RecvActivation"] = 0 THEN 0 ELSE Dim(batch[s])
    /\ s # Last => (first_output_send[s] <=>
          IF at[s] = "begin" THEN batch[s] = 1 ELSE Resets(batch[s]) /\ Num(s)["SendActivation"] = 0)
    /\ IF at[s] = "begin" /\ batch[s] = 1 THEN grad_layer[s] = None
       ELSE grad_layer[s] # None =>
          grad_layer[s].shape = Dim(IF at[s] = "begin" THEN batch[s] - 1 ELSE batch[s])

StageInv(s) ==
    /\ Draws(s) /\ Trains(s) /\ HasInputs(s) /\ HasOutputs(s) /\ NoInputsLeft(s)
    /\ HasGrads(s) /\ Shapes(s)

(* The inductive invariant: where a stage is in its schedule determines
   what it has exchanged, what is in its buffers and what it has
   accumulated. *)
PipeInv ==
    /\ Positions /\ Shapely /\ InStep /\ Losses
    /\ \A s \in Stages : StageInv(s)

----------------------------------------------------------------------------
(* How the invariant is kept. *)

(* What is assumed of a program, for the call of a stage. *)
LEMMA ProgramFacts ==
    ASSUME program \in Programs
    PROVE  /\ program \in Seq(Call) /\ Len(program) \in Nat
           /\ \A b \in 1 .. Len(program) : program[b] \in Call
           /\ 1 \in 1 .. Len(program) => IsFirst(program[1])
           /\ \A b \in 1 .. Len(program) :
                  b + 1 \in 1 .. Len(program) => Follows(program[b], program[b + 1])
<1>1. program \in Seq(Call)
      /\ \A i \in DOMAIN program : IF i = 1 THEN IsFirst(program[1]) ELSE Follows(program[i - 1], program[i])
  BY PipeAssumption
<1>2. DOMAIN program = 1 .. Len(program) /\ Len(program) \in Nat  BY <1>1
<1>3. ASSUME NEW b \in 1 .. Len(program), b + 1 \in 1 .. Len(program)
      PROVE  Follows(program[b], program[b + 1])
  <2>1. b + 1 # 1 /\ (b + 1) - 1 = b  BY <1>2
  <2> QED  BY <1>1, <1>2, <1>3, <2>1
<1>4. \A b \in 1 .. Len(program) : program[b] \in Call  BY <1>1
<1>5. 1 \in 1 .. Len(program) => IsFirst(program[1])  BY <1>1, <1>2
<1> QED  BY <1>1, <1>2, <1>3, <1>4, <1>5

LEMMA CallFactsOf ==
    ASSUME Positions, NEW s \in Stages, ~Finished(s)
    PROVE  /\ CallOf(s) \in Call /\ batch[s] \in 1 .. Len(program)
           /\ Kind(s) = CallOf(s).kind /\ M(s) = CallOf(s).micro
           /\ TotalSteps(s) = StepsOf(CallOf(s))
           /\ Commands(s) = CommandsOf(CallOf(s), s, step[s])
<1>1. batch[s] \in 1 .. Len(program) + 1 /\ program \in Programs
  BY DEF Positions
<1>2. batch[s] \in 1 .. Len(program)  BY <1>1, ProgramFacts DEF Finished
<1> QED
  BY <1>1, <1>2, ProgramFacts
     DEF CallOf, Kind, M, TotalSteps, StepsOf, Commands, CommandsOf

(* A stage at an instruction. *)
LEMMA AtInstruction ==
    ASSUME Positions, NEW s \in Stages, NEW name \in Names, At(s, name)
    PROVE  LET c == CallOf(s)
               list == CommandsOf(c, s, step[s])
           IN  /\ ~Finished(s) /\ at[s] = "steps" /\ c \in Call
               /\ step[s] \in 0 .. StepsOf(c) - 1
               /\ pc[s] \in 1 .. Len(list) /\ list[pc[s]].name = name
               /\ Buf(s) = list[pc[s]].buffer
               /\ Num(s) = Counts(c, "steps", s, step[s], pc[s])
<1>1. ~Finished(s) /\ at[s] = "steps" /\ pc[s] <= Len(Commands(s))
  <2>1. Instr("none", -1).name = "none" /\ "none" \notin Names
    BY DEF Instr, Names
  <2> QED  BY <2>1 DEF At, Current
<1>2. Current(s) = Commands(s)[pc[s]]  BY <1>1 DEF Current
<1>3. /\ CallOf(s) \in Call /\ Commands(s) = CommandsOf(CallOf(s), s, step[s])
  BY <1>1, CallFactsOf
<1> DEFINE list == CommandsOf(CallOf(s), s, step[s])
<1>4. /\ step[s] \in 0 .. StepsOf(CallOf(s)) - 1
      /\ pc[s] \in 1 .. Len(list) + 1
  BY <1>1 DEF Positions
<1>5. list \in Seq(Instructions)
  BY <1>3, <1>4, CallFacts, CommandsOrdered DEF Ordered
<1>6. pc[s] \in 1 .. Len(list)  BY <1>1, <1>3, <1>4, <1>5
<1> QED  BY <1>1, <1>2, <1>3, <1>4, <1>6 DEF At, Buf, Num

(* A stage stays at its place in the program. *)
SamePlace(t) ==
    /\ program' = program /\ difficulty' = difficulty
    /\ batch'[t] = batch[t]
    /\ at'[t] = "begin" <=> at[t] = "begin"

LEMMA SamePlaceFacts ==
    ASSUME NEW t \in Stages, SamePlace(t)
    PROVE  /\ CallOf(t)' = CallOf(t) /\ (Finished(t)' <=> Finished(t))
           /\ Dim(batch[t])' = Dim(batch[t]) /\ Dim(batch[t] - 1)' = Dim(batch[t] - 1)
           /\ Resets(batch[t])' <=> Resets(batch[t])
BY DEF SamePlace, CallOf, Finished, Dim, Resets

(* Each part of the invariant of a stage holds as long as what it is about
   does not change. *)
LEMMA DrawsKept ==
    ASSUME NEW t \in Stages, SamePlace(t), Draws(t), drawn'[t] = drawn[t],
           Num(t)'["LoadMicroBatch"] = Num(t)["LoadMicroBatch"]
    PROVE  Draws(t)'
BY SamePlaceFacts DEF Draws

LEMMA TrainsKept ==
    ASSUME NEW t \in Stages, SamePlace(t), Trains(t),
           first_step'[t] = first_step[t], global_steps'[t] = global_steps[t],
           Num(t)'["OptimizerStep"] = Num(t)["OptimizerStep"]
    PROVE  Trains(t)'
BY SamePlaceFacts DEF Trains, SamePlace

LEMMA InputsKept ==
    ASSUME NEW t \in Stages, SamePlace(t), HasInputs(t), NoInputsLeft(t),
           inputs'[t] = inputs[t], Num(t)' = Num(t)
    PROVE  HasInputs(t)' /\ NoInputsLeft(t)'
BY SamePlaceFacts DEF HasInputs, NoInputsLeft

LEMMA OutputsKept ==
    ASSUME NEW t \in Stages, SamePlace(t), HasOutputs(t),
           outputs'[t] = outputs[t], Num(t)' = Num(t)
    PROVE  HasOutputs(t)'
BY SamePlaceFacts DEF HasOutputs

LEMMA GradsKept ==
    ASSUME NEW t \in Stages, SamePlace(t), HasGrads(t),
           grad_layer'[t] = grad_layer[t], accumulated'[t] = accumulated[t],
           Num(t)'["RecvGrad"] = Num(t)["RecvGrad"],
           Num(t)'["BackwardPass"] = Num(t)["BackwardPass"],
           Num(t)'["OptimizerStep"] = Num(t)["OptimizerStep"]
    PROVE  HasGrads(t)'
<1>1. CallOf(t)' = CallOf(t) /\ (Finished(t)' <=> Finished(t))
  BY SamePlaceFacts
<1> DEFINE n == Num(t)
           c == CallOf(t)
<1>2. /\ n'["RecvGrad"] = n["RecvGrad"] /\ n'["BackwardPass"] = n["BackwardPass"]
      /\ n'["OptimizerStep"] = n["OptimizerStep"] /\ c' = c
  BY <1>1
<1> QED  BY <1>1, <1>2 DEF HasGrads

LEMMA ShapesKept ==
    ASSUME NEW t \in Stages, SamePlace(t), Shapes(t),
           pipe_recv_buf'[t] = pipe_recv_buf[t], first_output_send'[t] = first_output_send[t],
           grad_layer'[t] = grad_layer[t],
           Num(t)'["RecvActivation"] = Num(t)["RecvActivation"],
           Num(t)'["SendActivation"] = Num(t)["SendActivation"]
    PROVE  Shapes(t)'
<1>1. /\ Dim(batch[t])' = Dim(batch[t]) /\ Dim(batch[t] - 1)' = Dim(batch[t] - 1)
      /\ Resets(batch[t])' <=> Resets(batch[t])
  BY SamePlaceFacts
<1>2. batch'[t] = batch[t] /\ (at'[t] = "begin" <=> at[t] = "begin")
  BY DEF SamePlace
<1> QED  BY <1>1, <1>2 DEF Shapes

LEMMA LossesKept ==
    ASSUME SamePlace(Last), Losses, labels'[Last] = labels[Last], UNCHANGED <<loss, fwd_outputs>>,
           Num(Last)'["LoadMicroBatch"] = Num(Last)["LoadMicroBatch"],
           Num(Last)'["ForwardPass"] = Num(Last)["ForwardPass"]
    PROVE  Losses'
<1>1. CallOf(Last)' = CallOf(Last) /\ (Finished(Last)' <=> Finished(Last))
  BY StageFacts, SamePlaceFacts
<1>2. at'[Last] = "begin" <=> at[Last] = "begin"  BY DEF SamePlace
<1> QED  BY <1>1, <1>2 DEF Losses

(* Nothing of a stage changes, except perhaps its place in the call. *)
SameData(t) ==
    /\ drawn'[t] = drawn[t] /\ inputs'[t] = inputs[t] /\ outputs'[t] = outputs[t]
    /\ grad_layer'[t] = grad_layer[t] /\ accumulated'[t] = accumulated[t]
    /\ pipe_recv_buf'[t] = pipe_recv_buf[t] /\ first_output_send'[t] = first_output_send[t]
    /\ first_step'[t] = first_step[t] /\ global_steps'[t] = global_steps[t]

LEMMA StageKept ==
    ASSUME NEW t \in Stages, SamePlace(t), SameData(t), StageInv(t), Num(t)' = Num(t)
    PROVE  StageInv(t)'
<1>1. Draws(t)' /\ Trains(t)'  BY DrawsKept, TrainsKept DEF StageInv, SameData
<1>2. HasInputs(t)' /\ NoInputsLeft(t)' /\ HasOutputs(t)'
  BY InputsKept, OutputsKept DEF StageInv, SameData
<1>3. HasGrads(t)' /\ Shapes(t)'
  BY GradsKept, ShapesKept DEF StageInv, SameData
<1> QED  BY <1>1, <1>2, <1>3 DEF StageInv

LEMMA InStepKept ==
    ASSUME InStep, \A t \in Stages :
               /\ SamePlace(t)
               /\ \A name \in {"SendActivation", "RecvActivation", "SendGrad", "RecvGrad"} :
                      Num(t)'[name] = Num(t)[name]
    PROVE  InStep'
<1> SUFFICES ASSUME NEW s \in Stages \ {Last} PROVE Exchanged(s, s + 1)'
  BY DEF InStep
<1>1. s + 1 \in Stages /\ s \in Stages  BY StageFacts
<1>2. ASSUME NEW t \in {s, s + 1}
      PROVE  /\ batch'[t] = batch[t] /\ CallOf(t)' = CallOf(t)
             /\ Num(t)'["SendActivation"] = Num(t)["SendActivation"]
             /\ Num(t)'["RecvActivation"] = Num(t)["RecvActivation"]
             /\ Num(t)'["SendGrad"] = Num(t)["SendGrad"]
             /\ Num(t)'["RecvGrad"] = Num(t)["RecvGrad"]
  <2>1. t \in Stages  BY <1>1
  <2> QED  BY <2>1, SamePlaceFacts DEF SamePlace
<1>3. Exchanged(s, s + 1)  BY DEF InStep
<1> QED  BY <1>2, <1>3 DEF Exchanged

(* Stages that execute an instruction go on to the next one. *)
LEMMA Advanced ==
    ASSUME Positions, NEW T, Advance(T), NEW s \in Stages, s \in T, NEW name \in Names, At(s, name)
    PROVE  /\ SamePlace(s) /\ CallOf(s)' = CallOf(s)
           /\ Num(s) \in [Counted -> Nat]
           /\ name \in Counted => Num(s)' = [Num(s) EXCEPT ![name] = @ + 1]
           /\ name \notin Counted => Num(s)' = Num(s)
           /\ Num(s)' \in [Counted -> Nat]
           /\ pc'[s] = pc[s] + 1
<1> DEFINE c == CallOf(s)
           list == CommandsOf(c, s, step[s])
<1>1. /\ program' = program /\ difficulty' = difficulty /\ batch' = batch /\ at' = at
      /\ step' = step /\ pc'[s] = pc[s] + 1
  BY DEF Advance, setup
<1>2. SamePlace(s) /\ CallOf(s)' = CallOf(s)  BY <1>1 DEF SamePlace, CallOf
<1>3. /\ at[s] = "steps" /\ c \in Call /\ step[s] \in 0 .. StepsOf(c) - 1
      /\ pc[s] \in 1 .. Len(list) /\ list[pc[s]].name = name
      /\ Num(s) = Counts(c, "steps", s, step[s], pc[s])
  BY AtInstruction
<1>4. Num(s)' = Counts(c, "steps", s, step[s], pc[s] + 1)
  BY <1>1, <1>2, <1>3 DEF Num
<1>5. step[s] \in Int  BY <1>3, CallFacts
<1> HIDE DEF c
<1>6. Num(s) \in [Counted -> Nat] /\ Num(s)' \in [Counted -> Nat]
  <2> DEFINE k == step[s]
  <2>1. c \in Call /\ k \in Int  BY <1>3, <1>5
  <2> HIDE DEF k
  <2>2. \A q : Counts(c, "steps", s, k, q) \in [Counted -> Nat]
    BY <2>1, CountsAreFunctions
  <2> QED  BY <1>3, <1>4, <2>2 DEF k
<1>7. Num(s)' = IF name \in Counted THEN [Num(s) EXCEPT ![name] = @ + 1] ELSE Num(s)
  BY ZenonT(60), <1>3, <1>4, CountsAdvance
<1> QED  BY <1>1, <1>2, <1>6, <1>7

(* Other stages stay where they are. *)
LEMMA NotAdvanced ==
    ASSUME NEW T, Advance(T), NEW t \in Stages, t \notin T
    PROVE  SamePlace(t) /\ CallOf(t)' = CallOf(t) /\ Num(t)' = Num(t)
<1>1. /\ program' = program /\ difficulty' = difficulty /\ batch' = batch /\ at' = at
      /\ step' = step /\ pc'[t] = pc[t]
  BY DEF Advance, setup
<1>2. SamePlace(t) /\ CallOf(t)' = CallOf(t)  BY <1>1 DEF SamePlace, CallOf
<1> QED  BY <1>1, <1>2 DEF Num

LEMMA AdvancedPositions ==
    ASSUME Positions, NEW T, Advance(T), \A s \in T : \E name \in Names : At(s, name)
    PROVE  Positions'
<1>1. /\ program' = program /\ batch' = batch /\ at' = at /\ step' = step
      /\ pc' = [s \in Stages |-> IF s \in T THEN pc[s] + 1 ELSE pc[s]]
  BY DEF Advance, setup
<1>2. \A s \in Stages : CallOf(s)' = CallOf(s) /\ (Finished(s)' <=> Finished(s))
  BY <1>1 DEF CallOf, Finished
<1>3. ASSUME NEW s \in Stages
      PROVE  /\ at[s] # "steps" => pc'[s] = pc[s]
             /\ at[s] = "steps" => pc'[s] \in 1 .. Len(CommandsOf(CallOf(s), s, step[s])) + 1
  <2>1. CASE s \in T
    <3>1. PICK name \in Names : At(s, name)  BY <2>1
    <3>2. /\ at[s] = "steps" /\ CallOf(s) \in Call /\ step[s] \in 0 .. StepsOf(CallOf(s)) - 1
          /\ pc[s] \in 1 .. Len(CommandsOf(CallOf(s), s, step[s]))
      BY <3>1, AtInstruction
    <3>3. CommandsOf(CallOf(s), s, step[s]) \in Seq(Instructions)
      BY <3>2, CallFacts, CommandsOrdered DEF Ordered
    <3>4. Len(CommandsOf(CallOf(s), s, step[s])) \in Nat  BY <3>3
    <3> QED  BY <1>1, <2>1, <3>2, <3>4
  <2>2. CASE s \notin T  BY <1>1, <2>2 DEF Positions
  <2> QED  BY <2>1, <2>2
<1> QED  BY <1>1, <1>2, <1>3 DEF Positions

(* A function of the stages, or of the buffers of the stages, is changed. *)
LEMMA ChangedAt ==
    ASSUME NEW f, OfStages(f), NEW s \in Stages, NEW v
    PROVE  LET g == [f EXCEPT ![s] = v]
           IN  OfStages(g) /\ g[s] = v /\ \A t \in Stages : t # s => g[t] = f[t]
<1> DEFINE g == [f EXCEPT ![s] = v]
           h == [t \in Stages |-> f[t]]
<1>1. f = h  BY DEF OfStages
<1>2. g = [h EXCEPT ![s] = v]  BY <1>1
<1> HIDE DEF g
<1>3. g = [t \in Stages |-> g[t]]  BY <1>2
<1>4. g[s] = v /\ \A t \in Stages : t # s => g[t] = f[t]  BY <1>2
<1> QED  BY <1>3, <1>4 DEF OfStages, g

LEMMA ChangedBuffer ==
    ASSUME NEW f, OfStages(f), \A t \in Stages : Buffers(f[t]), NEW s \in Stages, NEW b, NEW v
    PROVE  LET g == [f EXCEPT ![s][b] = v]
           IN  /\ OfStages(g) /\ g[s] = [f[s] EXCEPT ![b] = v]
               /\ \A t \in Stages : t # s => g[t] = f[t]
               /\ \A t \in Stages : Buffers(g[t])
<1> DEFINE in == f[s]
           g == [f EXCEPT ![s][b] = v]
           z == [in EXCEPT ![b] = v]
<1>1. g = [f EXCEPT ![s] = z]  OBVIOUS
<1>2. OfStages([f EXCEPT ![s] = z]) /\ [f EXCEPT ![s] = z][s] = z
      /\ \A t \in Stages : t # s => [f EXCEPT ![s] = z][t] = f[t]
  BY ChangedAt
<1>3. Buffers(z)
  <2> DEFINE h == [u \in BufferIds |-> in[u]]
  <2>1. in = h  BY DEF Buffers
  <2> HIDE DEF in
  <2>2. z = [h EXCEPT ![b] = v]  BY <2>1
  <2> HIDE DEF z
  <2>3. z = [u \in BufferIds |-> z[u]]  BY <2>2
  <2> QED  BY <2>3 DEF Buffers
<1> HIDE DEF z, g
<1>4. OfStages(g) /\ g[s] = z /\ \A t \in Stages : t # s => g[t] = f[t]
  BY <1>1, <1>2
<1>5. \A t \in Stages : Buffers(g[t])  BY <1>3, <1>4
<1> QED  BY <1>4, <1>5 DEF g, z

data == <<drawn, buffers, shapes, grad_layer, accumulated, global_steps, first_step>>

LEMMA SingleOfStages ==
    ASSUME NEW T, Advance(T), Shapely
    PROVE  OfStages(batch)' /\ OfStages(at)' /\ OfStages(step)' /\ OfStages(pc)'
<1>1. OfStages(batch) /\ OfStages(at) /\ OfStages(step)  BY DEF Shapely
<1>2. OfStages(batch)' /\ OfStages(at)' /\ OfStages(step)'
  BY <1>1 DEF OfStages, Advance
<1>3. OfStages(pc)'  BY DEF OfStages, Advance
<1> QED  BY <1>2, <1>3

(* Steps that only change the places of stages. *)
LEMMA OnlyPlaces ==
    ASSUME PipeInv, Positions', UNCHANGED data,
           OfStages(batch)', OfStages(at)', OfStages(step)', OfStages(pc)',
           \A t \in Stages : SamePlace(t) /\ Num(t)' = Num(t)
    PROVE  PipeInv'
<1>1. \A t \in Stages : SameData(t)  BY DEF SameData, data, buffers, shapes
<1>2. \A t \in Stages : StageInv(t)'  BY <1>1, StageKept DEF PipeInv
<1>3. InStep'  BY InStepKept DEF PipeInv
<1>4. Losses'  BY StageFacts, LossesKept DEF PipeInv, data, buffers
<1>5. Shapely'
  <2>1. Shapely  BY DEF PipeInv
  <2>2. /\ drawn' = drawn /\ inputs' = inputs /\ labels' = labels /\ outputs' = outputs
        /\ pipe_recv_buf' = pipe_recv_buf /\ grad_layer' = grad_layer
        /\ first_output_send' = first_output_send /\ accumulated' = accumulated
        /\ global_steps' = global_steps /\ first_step' = first_step
    BY DEF data, buffers, shapes
  <2> QED  BY <2>1, <2>2 DEF Shapely, OfStages
<1> QED  BY <1>2, <1>3, <1>4, <1>5 DEF PipeInv

(* Gradients are reduced; a barrier is passed; a step ends. *)
LEMMA ReducesKeep ==
    ASSUME PipeInv, NEW s \in Stages, ReduceGrads(s) \/ ReduceTiedGrads(s)
    PROVE  PipeInv'
<1>1. PICK name \in {"ReduceGrads", "ReduceTiedGrads"} : At(s, name)
  BY DEF ReduceGrads, ReduceTiedGrads
<1>2. Advance({s}) /\ UNCHANGED data  BY DEF ReduceGrads, ReduceTiedGrads, data
<1>3. name \in Names /\ name \notin Counted /\ Positions /\ Shapely
  BY DEF Names, Counted, PipeInv
<1>4. Positions'  BY <1>1, <1>2, <1>3, AdvancedPositions
<1>5. ASSUME NEW t \in Stages PROVE SamePlace(t) /\ Num(t)' = Num(t)
  <2>1. CASE t = s
    <3>1. s \in {s}  OBVIOUS
    <3> QED  BY <1>1, <1>2, <1>3, <2>1, <3>1, Advanced
  <2>2. CASE t # s
    <3>1. t \notin {s}  BY <2>2
    <3> QED  BY <1>2, <3>1, NotAdvanced
  <2> QED  BY <2>1, <2>2
<1> QED  BY <1>2, <1>3, <1>4, <1>5, SingleOfStages, OnlyPlaces

LEMMA PassBarrierKeeps ==
    ASSUME PipeInv, NEW s \in Stages, PassBarrier(s)
    PROVE  PipeInv'
<1>1. /\ ~Finished(s) /\ at[s] = "barrier" /\ at' = [at EXCEPT ![s] = "steps"]
      /\ program' = program /\ difficulty' = difficulty /\ batch' = batch
      /\ step' = step /\ pc' = pc /\ UNCHANGED data
  BY DEF PassBarrier, data, setup
<1>2. Positions /\ Shapely  BY DEF PipeInv
<1>3. OfStages(at)' /\ at'[s] = "steps" /\ \A t \in Stages : t # s => at'[t] = at[t]
  <2>1. OfStages(at)  BY <1>2 DEF Shapely
  <2> QED  BY <1>1, <2>1, ChangedAt DEF OfStages
<1>4. OfStages(batch)' /\ OfStages(step)' /\ OfStages(pc)'
  BY <1>1, <1>2 DEF Shapely, OfStages
<1>5. CallOf(s) \in Call /\ step[s] = 0 /\ pc[s] = 1
  BY <1>1, <1>2, CallFactsOf DEF Positions
<1>6. \A t \in Stages : SamePlace(t) /\ CallOf(t)' = CallOf(t) /\ (Finished(t)' <=> Finished(t))
  BY <1>1, <1>3 DEF SamePlace, CallOf, Finished
<1>7. Num(s)' = Num(s)
  <2>1. Num(s)' = Counts(CallOf(s), "steps", s, 0, 1)
    BY <1>1, <1>3, <1>5, <1>6 DEF Num
  <2>2. Num(s) = Counts(CallOf(s), "barrier", s, 0, 1) /\ "barrier" \notin {"steps", "end"}
    BY <1>1, <1>5 DEF Num
  <2> QED  BY <1>5, <2>1, <2>2, CountsOfBegin
<1>8. ASSUME NEW t \in Stages PROVE Num(t)' = Num(t)
  <2>1. CASE t # s  BY <1>1, <1>3, <1>6, <2>1 DEF Num
  <2> QED  BY <1>7, <2>1
<1>9. Positions'
  <2>1. 0 \in 0 .. StepsOf(CallOf(s)) - 1  BY <1>5, CallFacts
  <2>2. CommandsOf(CallOf(s), s, 0) \in Seq(Instructions)
    BY <1>5, CommandsOrdered DEF Ordered
  <2>3. 1 \in 1 .. Len(CommandsOf(CallOf(s), s, 0)) + 1  BY <2>2
  <2>4. ASSUME NEW t \in Stages
        PROVE /\ batch'[t] \in 1 .. Len(program) + 1
              /\ at'[t] \in {"begin", "barrier", "steps", "end"}
              /\ Finished(t) => at'[t] = "begin"
              /\ at'[t] # "steps" => step'[t] = 0 /\ pc'[t] = 1
              /\ at'[t] = "steps" => /\ step'[t] \in 0 .. StepsOf(CallOf(t)) - 1
                                     /\ pc'[t] \in 1 .. Len(CommandsOf(CallOf(t), t, step'[t])) + 1
    <3>1. CASE t = s  BY <1>1, <1>2, <1>3, <1>5, <2>1, <2>3, <3>1 DEF Positions
    <3>2. CASE t # s  BY <1>1, <1>2, <1>3, <3>2 DEF Positions
    <3> QED  BY <3>1, <3>2
  <2> QED  BY <1>1, <1>2, <1>6, <2>4 DEF Positions
<1> QED  BY <1>1, <1>3, <1>4, <1>6, <1>8, <1>9, OnlyPlaces

LEMMA EndStepKeeps ==
    ASSUME PipeInv, NEW s \in Stages, EndStep(s)
    PROVE  PipeInv'
<1> DEFINE c == CallOf(s)
           k == step[s]
           list == CommandsOf(c, s, k)
           final == k = StepsOf(c) - 1
<1>1. Positions /\ Shapely  BY DEF PipeInv
<1>2. /\ ~Finished(s) /\ at[s] = "steps" /\ pc[s] > Len(Commands(s))
      /\ step' = [step EXCEPT ![s] = IF step[s] = TotalSteps(s) - 1 THEN 0 ELSE step[s] + 1]
      /\ pc' = [pc EXCEPT ![s] = 1]
      /\ at' = [at EXCEPT ![s] = IF step[s] = TotalSteps(s) - 1 THEN "end" ELSE at[s]]
      /\ program' = program /\ difficulty' = difficulty /\ batch' = batch /\ UNCHANGED data
  BY DEF EndStep, data, setup
<1>3. c \in Call /\ TotalSteps(s) = StepsOf(c) /\ Commands(s) = list
  BY <1>1, <1>2, CallFactsOf
<1>4. /\ OfStages(step)' /\ step'[s] = (IF final THEN 0 ELSE k + 1)
      /\ \A t \in Stages : t # s => step'[t] = step[t]
  <2>1. OfStages(step)  BY <1>1 DEF Shapely
  <2> QED  BY <1>2, <1>3, <2>1, ChangedAt DEF OfStages
<1>5. /\ OfStages(at)' /\ at'[s] = (IF final THEN "end" ELSE "steps")
      /\ \A t \in Stages : t # s => at'[t] = at[t]
  <2>1. OfStages(at)  BY <1>1 DEF Shapely
  <2> QED  BY <1>2, <1>3, <2>1, ChangedAt DEF OfStages
<1>6. OfStages(pc)' /\ pc'[s] = 1 /\ \A t \in Stages : t # s => pc'[t] = pc[t]
  <2>1. OfStages(pc)  BY <1>1 DEF Shapely
  <2> QED  BY <1>2, <2>1, ChangedAt DEF OfStages
<1>7. OfStages(batch)'  BY <1>1, <1>2 DEF Shapely, OfStages
<1>8. \A t \in Stages : CallOf(t)' = CallOf(t) /\ (Finished(t)' <=> Finished(t))
  BY <1>2 DEF CallOf, Finished
<1>9. \A t \in Stages : SamePlace(t)  BY <1>2, <1>5 DEF SamePlace
<1>10. k \in 0 .. StepsOf(c) - 1 /\ pc[s] = Len(list) + 1 /\ list \in Seq(Instructions)
  <2>1. k \in 0 .. StepsOf(c) - 1 /\ pc[s] \in 1 .. Len(list) + 1
    BY <1>1, <1>2 DEF Positions
  <2>2. list \in Seq(Instructions)
    BY <1>3, <2>1, CallFacts, CommandsOrdered DEF Ordered
  <2>3. Len(list) \in Nat  BY <2>2
  <2> QED  BY <1>2, <1>3, <2>1, <2>2, <2>3
<1>11. Num(s) = Counts(c, "steps", s, k, Len(list) + 1)  BY <1>2, <1>10 DEF Num
<1>12. Num(s)' = Num(s)
  <2>1. CASE final
    <3>1. Num(s)' = Counts(c, "end", s, 0, 1)
      BY <1>4, <1>5, <1>6, <1>8, <2>1 DEF Num
    <3> HIDE DEF c
    <3> QED  BY <1>3, <1>10, <1>11, <2>1, <3>1, CountsOfStep
  <2>2. CASE ~final
    <3>1. Num(s)' = Counts(c, "steps", s, k + 1, 1)
      BY <1>4, <1>5, <1>6, <1>8, <2>2 DEF Num
    <3>2. k < StepsOf(c) - 1  BY <1>3, <1>10, <2>2, CallFacts
    <3> HIDE DEF c
    <3> QED  BY <1>3, <1>10, <1>11, <3>1, <3>2, CountsOfStep
  <2> QED  BY <2>1, <2>2
<1>13. ASSUME NEW t \in Stages PROVE Num(t)' = Num(t)
  <2>1. CASE t # s  BY <1>4, <1>5, <1>6, <1>8, <2>1 DEF Num
  <2> QED  BY <1>12, <2>1
<1>14. Positions'
  <2>1. ~final => /\ k + 1 \in 0 .. StepsOf(c) - 1
                  /\ 1 \in 1 .. Len(CommandsOf(c, s, k + 1)) + 1
    <3>1. ~final => k + 1 \in 0 .. StepsOf(c) - 1 /\ k + 1 \in Nat
      BY <1>3, <1>10, CallFacts
    <3>2. ~final => CommandsOf(c, s, k + 1) \in Seq(Instructions)
      BY <1>3, <3>1, CommandsOrdered DEF Ordered
    <3>3. ~final => Len(CommandsOf(c, s, k + 1)) \in Nat  BY <3>2
    <3> QED  BY <3>1, <3>3
  <2>4. ASSUME NEW t \in Stages
        PROVE /\ batch'[t] \in 1 .. Len(program) + 1
              /\ at'[t] \in {"begin", "barrier", "steps", "end"}
              /\ Finished(t) => at'[t] = "begin"
              /\ at'[t] # "steps" => step'[t] = 0 /\ pc'[t] = 1
              /\ at'[t] = "steps" => /\ step'[t] \in 0 .. StepsOf(CallOf(t)) - 1
                                     /\ pc'[t] \in 1 .. Len(CommandsOf(CallOf(t), t, step'[t])) + 1
    <3>1. CASE t = s
      <4>1. batch'[s] \in 1 .. Len(program) + 1  BY <1>1, <1>2 DEF Positions
      <4> QED  BY <1>2, <1>4, <1>5, <1>6, <2>1, <3>1, <4>1
    <3>2. CASE t # s  BY <1>1, <1>2, <1>4, <1>5, <1>6, <3>2 DEF Positions
    <3> QED  BY <3>1, <3>2
  <2> QED  BY <1>1, <1>2, <1>8, <2>4 DEF Positions
<1> QED  BY <1>2, <1>4, <1>5, <1>6, <1>7, <1>9, <1>13, <1>14, OnlyPlaces

(* Counts that the inputs, or the outputs, of a stage do not depend on. *)
LEMMA InputsStayed ==
    ASSUME NEW t \in Stages, SamePlace(t), CallOf(t) \in Call, HasInputs(t), inputs'[t] = inputs[t],
           Num(t) \in [Counted -> Nat], Num(t)' \in [Counted -> Nat],
           InputsOf(t, Num(t)') = InputsOf(t, Num(t)),
           First(CallOf(t), t, Num(t)) <= First(CallOf(t), t, Num(t)'),
           Num(t)'["BackwardPass"] = Num(t)["BackwardPass"]
    PROVE  HasInputs(t)'
<1> DEFINE c == CallOf(t)
           n == Num(t)
           new == Num(t)'
           shape == Dim(batch[t])
           in == inputs[t]
<1>1. /\ CallOf(t)' = c /\ (Finished(t)' <=> Finished(t)) /\ Dim(batch[t])' = shape
  BY SamePlaceFacts
<1>2. ~Finished(t) => KeepsInputs(c, t, n, shape, in)  BY DEF HasInputs
<1>3. /\ c \in Call /\ n \in [Counted -> Nat] /\ new \in [Counted -> Nat]
      /\ InputsOf(t, new) = InputsOf(t, n) /\ First(c, t, n) <= First(c, t, new)
      /\ new["BackwardPass"] = n["BackwardPass"] /\ Num(t)' = new /\ inputs'[t] = in
  OBVIOUS
<1> HIDE DEF c, n, new, shape, in
<1>4. KeepsInputs(c, t, n, shape, in) => KeepsInputs(c, t, new, shape, in)
  BY <1>3, InputsStay
<1> QED  BY <1>1, <1>2, <1>3, <1>4 DEF HasInputs

LEMMA NoInputsStayed ==
    ASSUME NEW t \in Stages, SamePlace(t), CallOf(t) \in Call, NoInputsLeft(t), inputs'[t] = inputs[t],
           Num(t) \in [Counted -> Nat], Num(t)' \in [Counted -> Nat],
           Num(t)'["RecvActivation"] = Num(t)["RecvActivation"],
           Num(t)'["SendGrad"] = Num(t)["SendGrad"]
    PROVE  NoInputsLeft(t)'
<1> DEFINE c == CallOf(t)
           n == Num(t)
           new == Num(t)'
           in == inputs[t]
<1>1. CallOf(t)' = c  BY SamePlaceFacts
<1>2. t # 0 => NoOtherInputs(c, t, n, in)  BY DEF NoInputsLeft
<1>3. /\ c \in Call /\ n \in [Counted -> Nat] /\ new \in [Counted -> Nat]
      /\ new["RecvActivation"] = n["RecvActivation"] /\ new["SendGrad"] = n["SendGrad"]
      /\ Num(t)' = new /\ inputs'[t] = in
  OBVIOUS
<1> HIDE DEF c, n, new, in
<1>4. NoOtherInputs(c, t, n, in) => NoOtherInputs(c, t, new, in)
  BY <1>3, OtherInputsStay
<1> QED  BY <1>1, <1>2, <1>3, <1>4 DEF NoInputsLeft

LEMMA OutputsStayed ==
    ASSUME NEW t \in Stages, SamePlace(t), CallOf(t) \in Call, HasOutputs(t), outputs'[t] = outputs[t],
           Num(t) \in [Counted -> Nat], Num(t)' \in [Counted -> Nat],
           Num(t)'["ForwardPass"] = Num(t)["ForwardPass"],
           Num(t)'["BackwardPass"] = Num(t)["BackwardPass"]
    PROVE  HasOutputs(t)'
<1> DEFINE c == CallOf(t)
           n == Num(t)
           new == Num(t)'
           shape == Dim(batch[t])
           out == outputs[t]
<1>1. /\ CallOf(t)' = c /\ (Finished(t)' <=> Finished(t)) /\ Dim(batch[t])' = shape
  BY SamePlaceFacts
<1>2. (~Finished(t) /\ t # Last) => KeepsOutputs(c, t, n, shape, out)
  BY DEF HasOutputs
<1>3. /\ c \in Call /\ n \in [Counted -> Nat] /\ new \in [Counted -> Nat]
      /\ new["ForwardPass"] = n["ForwardPass"]
      /\ new["BackwardPass"] = n["BackwardPass"] /\ Num(t)' = new /\ outputs'[t] = out
  OBVIOUS
<1> HIDE DEF c, n, new, shape, out
<1>4. KeepsOutputs(c, t, n, shape, out) => KeepsOutputs(c, t, new, shape, out)
  BY <1>3, OutputsStay
<1> QED  BY <1>1, <1>2, <1>3, <1>4 DEF HasOutputs

LEMMA Changed ==
    ASSUME NEW f, OfStages(f), NEW s \in Stages, NEW v, NEW g, g = [f EXCEPT ![s] = v]
    PROVE  OfStages(g) /\ g[s] = v /\ \A t \in Stages : t # s => g[t] = f[t]
BY ChangedAt DEF OfStages

LEMMA ChangedBuffers ==
    ASSUME NEW f, OfStages(f), \A t \in Stages : Buffers(f[t]), NEW s \in Stages, NEW b, NEW v,
           NEW g, g = [f EXCEPT ![s][b] = v]
    PROVE  /\ OfStages(g) /\ g[s] = [f[s] EXCEPT ![b] = v]
           /\ \A t \in Stages : t # s => g[t] = f[t]
           /\ \A t \in Stages : Buffers(g[t])
BY ChangedBuffer DEF OfStages

(* A stage executes an instruction of its own. *)
OwnNames == {"LoadMicroBatch", "ForwardPass", "BackwardPass", "OptimizerStep"}

LEMMA OwnInstruction ==
    ASSUME PipeInv, NEW s \in Stages, NEW name \in OwnNames, At(s, name), Advance({s}),
           \A t \in Stages : t # s => SameData(t), Shapely', StageInv(s)', Losses'
    PROVE  PipeInv'
<1>1. Positions /\ name \in Names /\ name \in Counted /\ s \in {s}
      /\ name \notin {"SendActivation", "RecvActivation", "SendGrad", "RecvGrad"}
  BY DEF PipeInv, OwnNames, Names, Counted
<1>2. Positions'  BY <1>1, AdvancedPositions
<1>3. \A t \in Stages : t # s => SamePlace(t) /\ Num(t)' = Num(t)
  <2> TAKE t \in Stages
  <2>1. t # s => t \notin {s}  OBVIOUS
  <2> QED  BY <2>1, NotAdvanced
<1>4. /\ SamePlace(s) /\ Num(s) \in [Counted -> Nat]
      /\ Num(s)' = [Num(s) EXCEPT ![name] = @ + 1]
  BY <1>1, Advanced
<1>5. \A t \in Stages : t # s => StageInv(t)'  BY <1>3, StageKept DEF PipeInv
<1>6. ASSUME NEW t \in Stages
      PROVE  /\ SamePlace(t)
             /\ \A u \in {"SendActivation", "RecvActivation", "SendGrad", "RecvGrad"} :
                    Num(t)'[u] = Num(t)[u]
  <2>1. CASE t = s
    <3>1. \A u \in Counted : u # name => Num(s)'[u] = Num(s)[u]  BY <1>4
    <3> QED  BY <1>1, <1>4, <2>1, <3>1 DEF Counted
  <2>2. CASE t # s  BY <1>3, <2>2
  <2> QED  BY <2>1, <2>2
<1>7. InStep'  BY <1>6, InStepKept DEF PipeInv
<1> QED  BY <1>2, <1>5, <1>7 DEF PipeInv

(* The optimizer takes the gradients of the batch. *)
LEMMA OptimizerStepKeeps ==
    ASSUME PipeInv, NEW s \in Stages, OptimizerStep(s)
    PROVE  PipeInv'
<1> DEFINE n == Num(s)
           new == [n EXCEPT !["OptimizerStep"] = @ + 1]
           c == CallOf(s)
<1>1. /\ At(s, "OptimizerStep") /\ Advance({s})
      /\ accumulated' = [accumulated EXCEPT ![s] = << >>]
      /\ global_steps' = [global_steps EXCEPT ![s] = global_steps[s] + 1]
      /\ drawn' = drawn /\ inputs' = inputs /\ labels' = labels /\ outputs' = outputs
      /\ loss' = loss /\ fwd_outputs' = fwd_outputs /\ pipe_recv_buf' = pipe_recv_buf
      /\ grad_layer' = grad_layer /\ first_output_send' = first_output_send
      /\ first_step' = first_step
  BY DEF OptimizerStep, buffers, shapes
<1>2. Positions /\ Shapely /\ StageInv(s) /\ Losses  BY DEF PipeInv
<1>3. "OptimizerStep" \in Names /\ "OptimizerStep" \in Counted /\ s \in {s}
      /\ "OptimizerStep" \in OwnNames
  BY DEF Names, Counted, OwnNames
<1>4. /\ SamePlace(s) /\ CallOf(s)' = c /\ n \in [Counted -> Nat] /\ Num(s)' = new
      /\ new \in [Counted -> Nat]
  BY <1>1, <1>2, <1>3, Advanced
<1>5. \A u \in Counted : u # "OptimizerStep" => new[u] = n[u]  BY <1>4
<1>6. new["OptimizerStep"] = n["OptimizerStep"] + 1 /\ n["OptimizerStep"] \in Nat
  BY <1>3, <1>4
<1>7. c \in Call /\ ~Finished(s) /\ at[s] = "steps"
  BY <1>1, <1>2, <1>3, AtInstruction
<1>8. /\ OfStages(accumulated') /\ accumulated'[s] = << >>
      /\ \A t \in Stages : t # s => accumulated'[t] = accumulated[t]
  <2>1. OfStages(accumulated)  BY <1>2 DEF Shapely
  <2> QED  BY <1>1, <2>1, Changed DEF OfStages
<1>9. /\ OfStages(global_steps') /\ global_steps'[s] = global_steps[s] + 1
      /\ \A t \in Stages : t # s => global_steps'[t] = global_steps[t]
  <2>1. OfStages(global_steps)  BY <1>2 DEF Shapely
  <2> QED  BY <1>1, <2>1, Changed DEF OfStages
<1>10. Shapely'
  <2>1. OfStages(accumulated)' /\ OfStages(global_steps)'
    BY <1>8, <1>9 DEF OfStages
  <2>2. OfStages(batch)' /\ OfStages(at)' /\ OfStages(step)' /\ OfStages(pc)'
    BY <1>1, <1>2, SingleOfStages
  <2> QED  BY <1>1, <1>2, <2>1, <2>2 DEF Shapely, OfStages
<1>11. \A t \in Stages : t # s => SameData(t)  BY <1>1, <1>8, <1>9 DEF SameData
<1> HIDE DEF n, new, c
<1>12. /\ \A u \in {"LoadMicroBatch", "ForwardPass", "BackwardPass", "SendActivation",
                    "RecvActivation", "SendGrad", "RecvGrad"} : Num(s)'[u] = Num(s)[u]
       /\ Num(s)'["OptimizerStep"] = Num(s)["OptimizerStep"] + 1
       /\ Num(s)["OptimizerStep"] \in Nat
       /\ \A u \in Counted : Num(s)[u] \in Nat
  BY <1>4, <1>5, <1>6 DEF Counted, n
<1>13. Losses'
  <2>1. CASE s = Last  BY <1>1, <1>2, <1>4, <1>12, <2>1, LossesKept
  <2>2. CASE s # Last
    <3>1. Last \in Stages /\ Last \notin {s}  BY <2>2, StageFacts
    <3>2. SamePlace(Last) /\ Num(Last)' = Num(Last)  BY <1>1, <3>1, NotAdvanced
    <3> QED  BY <1>1, <1>2, <3>2, LossesKept
  <2> QED  BY <2>1, <2>2
<1>14. StageInv(s)'
  <2>1. Draws(s)'  BY <1>1, <1>2, <1>4, <1>12, DrawsKept DEF StageInv
  <2>2. Trains(s)'
    <3>1. Trains(s)  BY <1>2 DEF StageInv
    <3>2. CallOf(s)' = CallOf(s) /\ CallOf(s).trained \in Nat
      BY <1>4, <1>7 DEF c, Call
    <3>3. global_steps'[s] = CallOf(s).trained + Num(s)'["OptimizerStep"]
      BY <1>7, <1>9, <1>12, <3>1, <3>2 DEF Trains
    <3> QED  BY <1>1, <1>4, <1>7, <3>1, <3>2, <3>3 DEF Trains, SamePlace
  <2>3. HasInputs(s)'
    <3>1. InputsOf(s, Num(s)') = InputsOf(s, Num(s)) /\ First(c, s, Num(s)') = First(c, s, Num(s))
          /\ First(c, s, Num(s)) \in Nat
      BY <1>12 DEF InputsOf, First, Counted
    <3>2. First(CallOf(s), s, Num(s)) <= First(CallOf(s), s, Num(s)')
      BY <3>1 DEF c
    <3>3. HasInputs(s) /\ CallOf(s) \in Call /\ Num(s) \in [Counted -> Nat]
          /\ Num(s)' \in [Counted -> Nat]
      BY <1>2, <1>4, <1>7 DEF StageInv, c, n, new
    <3> QED  BY <1>1, <1>4, <1>12, <3>1, <3>2, <3>3, InputsStayed
  <2>4. NoInputsLeft(s)'
    BY <1>1, <1>2, <1>4, <1>7, <1>12, NoInputsStayed DEF StageInv, c, n, new
  <2>5. HasOutputs(s)'
    BY <1>1, <1>2, <1>4, <1>7, <1>12, OutputsStayed DEF StageInv, c, n, new
  <2>6. HasGrads(s)'
    <3>1. HasGrads(s)  BY <1>2 DEF StageInv
    <3>2. ~(Num(s)'["OptimizerStep"] = 0)  BY <1>12
    <3>3. CallOf(s)' = CallOf(s) /\ (Finished(s)' <=> Finished(s))
      BY <1>4, SamePlaceFacts
    <3>4. (~Finished(s)' /\ s # Last /\ Num(s)'["RecvGrad"] > 0) =>
              grad_layer'[s].of = MicroOf(CallOf(s)', Num(s)'["RecvGrad"] - 1)
      BY <1>1, <1>12, <3>1, <3>3 DEF HasGrads
    <3> QED  BY <1>8, <3>2, <3>4 DEF HasGrads
  <2>7. Shapes(s)'  BY <1>1, <1>2, <1>4, <1>12, ShapesKept DEF StageInv
  <2> QED  BY <2>1, <2>2, <2>3, <2>4, <2>5, <2>6, <2>7 DEF StageInv
<1> QED  BY <1>1, <1>3, <1>10, <1>11, <1>13, <1>14, OwnInstruction

(* What is known before it. *)
LEMMA OwnFacts ==
    ASSUME PipeInv, NEW s \in Stages, NEW name \in OwnNames, At(s, name), Advance({s})
    PROVE  /\ Positions /\ Shapely /\ StageInv(s) /\ Losses
           /\ name \in Names /\ name \in Counted
           /\ CallOf(s) \in Call /\ ~Finished(s) /\ at[s] = "steps"
           /\ Num(s) \in [Counted -> Nat] /\ Num(s)' \in [Counted -> Nat]
           /\ Num(s)' = [Num(s) EXCEPT ![name] = @ + 1]
           /\ Num(s)'[name] = Num(s)[name] + 1
           /\ \A u \in Counted : Num(s)[u] \in Nat /\ (u # name => Num(s)'[u] = Num(s)[u])
           /\ SamePlace(s) /\ CallOf(s)' = CallOf(s) /\ ~Finished(s)'
           /\ Dim(batch[s])' = Dim(batch[s])
           /\ at'[s] = "steps" /\ batch'[s] = batch[s]
           /\ OfStages(batch)' /\ OfStages(at)' /\ OfStages(step)' /\ OfStages(pc)'
           /\ s # Last => SamePlace(Last) /\ Num(Last)' = Num(Last)
           /\ Num(s)["OptimizerStep"] = 0
<1>1. Positions /\ Shapely /\ StageInv(s) /\ Losses /\ name \in Names /\ name \in Counted /\ s \in {s}
  BY DEF PipeInv, OwnNames, Names, Counted
<1>2. CallOf(s) \in Call /\ ~Finished(s) /\ at[s] = "steps"
  BY <1>1, AtInstruction
<1>3. /\ SamePlace(s) /\ CallOf(s)' = CallOf(s) /\ Num(s) \in [Counted -> Nat]
      /\ Num(s)' \in [Counted -> Nat] /\ Num(s)' = [Num(s) EXCEPT ![name] = @ + 1]
  BY <1>1, Advanced
<1>4. ~Finished(s)' /\ Dim(batch[s])' = Dim(batch[s])
  BY <1>2, <1>3, SamePlaceFacts
<1>5. at'[s] = "steps" /\ batch'[s] = batch[s]  BY <1>2 DEF Advance
<1>6. OfStages(batch)' /\ OfStages(at)' /\ OfStages(step)' /\ OfStages(pc)'
  BY <1>1, SingleOfStages
<1>7. s # Last => SamePlace(Last) /\ Num(Last)' = Num(Last)
  <2>1. s # Last => Last \in Stages /\ Last \notin {s}  BY StageFacts
  <2> QED  BY <2>1, NotAdvanced
<1>8. /\ Num(s)'[name] = Num(s)[name] + 1
      /\ \A u \in Counted : Num(s)[u] \in Nat /\ (u # name => Num(s)'[u] = Num(s)[u])
  BY <1>1, <1>3
<1>9. Num(s)["OptimizerStep"] = 0
  <2> DEFINE c == CallOf(s)
             k == step[s]
             p == pc[s]
  <2>1. /\ c \in Call /\ k \in 0 .. StepsOf(c) - 1 /\ p \in 1 .. Len(CommandsOf(c, s, k))
        /\ Num(s) = Counts(c, "steps", s, k, p)
    BY <1>1, AtInstruction
  <2> HIDE DEF c, k, p
  <2> QED  BY <2>1, NoStepYet
<1> QED  BY <1>1, <1>2, <1>3, <1>4, <1>5, <1>6, <1>7, <1>8, <1>9

(* The first and the last stage load inputs and labels. *)
LEMMA LoadMicroBatchKeeps ==
    ASSUME PipeInv, NEW s \in Stages, LoadMicroBatch(s)
    PROVE  PipeInv'
<1> DEFINE n == Num(s)
           c == CallOf(s)
           b == Buf(s)
           m == n["LoadMicroBatch"]
           v == [of |-> MicroOf(c, m), shape |-> Dim(batch[s]), grad |-> None]
<1>1. /\ At(s, "LoadMicroBatch") /\ Advance({s})
      /\ drawn' = [drawn EXCEPT ![s][Kind(s)] = @ + 1]
      /\ inputs' = IF s # 0 THEN inputs ELSE
           [inputs EXCEPT ![s][b] = [of |-> [from |-> Kind(s), at |-> drawn[s][Kind(s)]],
                                     shape |-> Shape(s), grad |-> None]]
      /\ labels' = IF s # Last THEN labels ELSE
           [labels EXCEPT ![s][b] = [of |-> [from |-> Kind(s), at |-> drawn[s][Kind(s)]]]]
      /\ outputs' = outputs
      /\ loss' = loss /\ fwd_outputs' = fwd_outputs /\ pipe_recv_buf' = pipe_recv_buf
      /\ grad_layer' = grad_layer /\ first_output_send' = first_output_send
      /\ accumulated' = accumulated /\ global_steps' = global_steps
      /\ first_step' = first_step
  BY DEF LoadMicroBatch, shapes
<1>2. "LoadMicroBatch" \in OwnNames  BY DEF OwnNames
<1>3. /\ Positions /\ Shapely /\ StageInv(s) /\ Losses
      /\ "LoadMicroBatch" \in Names /\ "LoadMicroBatch" \in Counted
      /\ CallOf(s) \in Call /\ ~Finished(s) /\ at[s] = "steps"
      /\ Num(s) \in [Counted -> Nat] /\ Num(s)' \in [Counted -> Nat]
      /\ Num(s)' = [Num(s) EXCEPT !["LoadMicroBatch"] = @ + 1]
      /\ Num(s)'["LoadMicroBatch"] = Num(s)["LoadMicroBatch"] + 1
      /\ \A u \in Counted : Num(s)[u] \in Nat /\ (u # "LoadMicroBatch" => Num(s)'[u] = Num(s)[u])
      /\ SamePlace(s) /\ CallOf(s)' = CallOf(s) /\ ~Finished(s)'
      /\ Dim(batch[s])' = Dim(batch[s])
      /\ at'[s] = "steps" /\ batch'[s] = batch[s]
      /\ OfStages(batch)' /\ OfStages(at)' /\ OfStages(step)' /\ OfStages(pc)'
      /\ s # Last => SamePlace(Last) /\ Num(Last)' = Num(Last)
      /\ Num(s)["OptimizerStep"] = 0
  BY <1>1, <1>2, OwnFacts
<1>4. Kind(s) = c.kind /\ c.kind \in Kinds /\ c.drawn[c.kind] \in Nat /\ c.trained \in Nat
  BY <1>3, CallFactsOf DEF Call
<1>5. /\ (s = 0 \/ s = Last) /\ m < c.micro /\ b = m % BuffersFor(c, s)
      /\ n["ForwardPass"] = m
      /\ s = 0 => InputFits(c, s, n, m, b)
  <2> DEFINE k == step[s]
             p == pc[s]
  <2>1. /\ c \in Call /\ k \in 0 .. StepsOf(c) - 1 /\ p \in 1 .. Len(CommandsOf(c, s, k))
        /\ n = Counts(c, "steps", s, k, p) /\ b = CommandsOf(c, s, k)[p].buffer
        /\ CommandsOf(c, s, k)[p].name = "LoadMicroBatch"
    BY <1>1, <1>3, AtInstruction
  <2> HIDE DEF c, k, p, n, b
  <2>2. Does(s, "LoadMicroBatch")  BY <1>3, <2>1, InstructionsAreDone
  <2>3. s = 0 \/ s = Last  BY <2>2 DEF Does
  <2> QED  BY <2>1, <2>3, AtInput DEF m
<1>6. drawn[s][c.kind] = c.drawn[c.kind] + m
  BY <1>3, <1>4, <1>5 DEF StageInv, Draws
<1>7. /\ Shape(s) = Dim(batch[s])
      /\ [from |-> Kind(s), at |-> drawn[s][Kind(s)]] = MicroOf(c, m)
  <2>1. global_steps[s] = c.trained  BY <1>3, <1>4 DEF StageInv, Trains
  <2> QED  BY <1>4, <1>6, <2>1 DEF Shape, Dim, MicroOf, CallOf
<1>8. /\ OfStages(drawn') /\ \A t \in Stages : t # s => drawn'[t] = drawn[t]
      /\ drawn'[s] = [drawn[s] EXCEPT ![c.kind] = drawn[s][c.kind] + 1]
  <2> DEFINE w == [drawn[s] EXCEPT ![c.kind] = drawn[s][c.kind] + 1]
  <2>1. drawn' = [drawn EXCEPT ![s] = w]  BY <1>1, <1>4
  <2>2. OfStages(drawn)  BY <1>3 DEF Shapely
  <2> HIDE DEF w
  <2>3. OfStages(drawn') /\ drawn'[s] = w /\ \A t \in Stages : t # s => drawn'[t] = drawn[t]
    BY <2>1, <2>2, Changed DEF OfStages
  <2> QED  BY <2>3 DEF w
<1>9. /\ drawn'[s] = [k \in Kinds |-> drawn'[s][k]]
      /\ \A k \in Kinds : drawn'[s][k] = IF k = c.kind THEN c.drawn[k] + (m + 1) ELSE c.drawn[k]
  <2> DEFINE d == drawn[s]
             w == drawn'[s]
             h == [k \in Kinds |-> d[k]]
  <2>1. d = h  BY <1>3 DEF Shapely
  <2>2. w = [h EXCEPT ![c.kind] = d[c.kind] + 1]  BY <1>8, <2>1
  <2>3. \A k \in Kinds : c.drawn[k] \in Nat /\ d[k] = c.drawn[k] + (IF k = c.kind THEN m ELSE 0)
    BY <1>3, <1>4, <1>5 DEF StageInv, Draws, Call
  <2>4. m \in Nat  BY <1>3
  <2> HIDE DEF d, w, m, c
  <2>5. w = [k \in Kinds |-> w[k]]  BY <2>2
  <2>6. \A k \in Kinds : w[k] = IF k = c.kind THEN d[k] + 1 ELSE d[k]  BY <2>2
  <2>7. \A k \in Kinds : w[k] = IF k = c.kind THEN c.drawn[k] + (m + 1) ELSE c.drawn[k]
    BY <2>3, <2>4, <2>6
  <2> QED  BY <2>5, <2>7 DEF w
<1>10. /\ OfStages(inputs') /\ \A t \in Stages : Buffers(inputs'[t])
       /\ \A t \in Stages : t # s => inputs'[t] = inputs[t]
       /\ s = 0 => inputs'[s] = [inputs[s] EXCEPT ![b] = v]
       /\ s # 0 => inputs'[s] = inputs[s]
  <2>1. OfStages(inputs) /\ \A t \in Stages : Buffers(inputs[t])
    BY <1>3 DEF Shapely
  <2>2. CASE s = 0
    <3>1. inputs' = [inputs EXCEPT ![s][b] = v]  BY <1>1, <1>7, <2>2
    <3> HIDE DEF v, b
    <3> QED  BY ZenonT(60), <2>1, <2>2, <3>1, ChangedBuffers DEF OfStages
  <2>3. CASE s # 0
    <3>1. inputs' = inputs  BY <1>1, <2>3
    <3> QED  BY <2>1, <2>3, <3>1
  <2> QED  BY <2>2, <2>3
<1>11. /\ OfStages(labels') /\ \A t \in Stages : Buffers(labels'[t])
       /\ s = Last => labels'[s] = [labels[s] EXCEPT ![b] = [of |-> MicroOf(c, m)]]
       /\ s # Last => labels'[Last] = labels[Last]
  <2>1. OfStages(labels) /\ \A t \in Stages : Buffers(labels[t])
    BY <1>3 DEF Shapely
  <2>2. CASE s = Last
    <3> DEFINE z == [of |-> MicroOf(c, m)]
    <3>1. labels' = [labels EXCEPT ![s][b] = z]  BY <1>1, <1>7, <2>2
    <3> HIDE DEF z, b
    <3>2. /\ OfStages(labels') /\ \A t \in Stages : Buffers(labels'[t])
          /\ labels'[s] = [labels[s] EXCEPT ![b] = z]
      BY <2>1, <3>1, ChangedBuffers DEF OfStages
    <3> QED  BY <2>2, <3>2 DEF z
  <2>3. CASE s # Last
    <3>1. labels' = labels  BY <1>1, <2>3
    <3> QED  BY <2>1, <2>3, <3>1
  <2> QED  BY <2>2, <2>3
<1>12. Shapely'
  <2>1. OfStages(drawn)' /\ \A t \in Stages : drawn'[t] = [k \in Kinds |-> drawn'[t][k]]
    <3>1. \A t \in Stages : drawn[t] = [k \in Kinds |-> drawn[t][k]]
      BY <1>3 DEF Shapely
    <3>2. ASSUME NEW t \in Stages, t # s PROVE drawn'[t] = [k \in Kinds |-> drawn'[t][k]]
      BY <1>8, <3>1, <3>2
    <3>3. OfStages(drawn)'  BY <1>8 DEF OfStages
    <3> QED  BY <1>9, <3>2, <3>3
  <2>2. OfStages(inputs)' /\ OfStages(labels)'  BY <1>10, <1>11 DEF OfStages
  <2> QED
    BY ZenonT(60), <1>1, <1>3, <1>10, <1>11, <2>1, <2>2 DEF Shapely, OfStages
<1>13. \A t \in Stages : t # s => SameData(t)
  BY <1>1, <1>8, <1>10 DEF SameData
<1> HIDE DEF n, c, b, m, v
<1>14. Losses'
  <2>1. CASE s = Last
    <3>1. labels'[s][PlaceIn(c, s, m)] = [of |-> MicroOf(c, m)]
      <4>1. b = PlaceIn(c, s, m) /\ m \in Nat
        BY <1>3, <1>5, <2>1, StageFacts DEF PlaceIn, m, n
      <4>2. b \in BufferIds  BY <1>3, <4>1, PlacesAreBuffers DEF c
      <4>3. labels[s] = [u \in BufferIds |-> labels[s][u]]
        BY <1>3 DEF Shapely, Buffers
      <4> QED  BY <1>11, <2>1, <4>1, <4>2, <4>3
    <3>2. Num(s)'["ForwardPass"] = n["ForwardPass"] /\ n["ForwardPass"] = m
      BY <1>3, <1>5 DEF n, Counted
    <3>3. CallOf(Last)' = c /\ at'[Last] = "steps" /\ at[Last] = "steps" /\ ~Finished(Last)
      BY <1>3, <2>1 DEF c
    <3>4. /\ n["ForwardPass"] > 0 => loss = LossOf(c, n["ForwardPass"] - 1)
          /\ fwd_outputs = [i \in 1 .. n["ForwardPass"] |-> LossOf(c, i - 1)]
      BY <1>3, <2>1 DEF Losses, c, n
    <3>5. /\ labels'[Last][PlaceIn(c, Last, Num(Last)'["ForwardPass"])] =
                       [of |-> MicroOf(c, Num(Last)'["ForwardPass"])]
          /\ Num(Last)'["ForwardPass"] > 0 => loss' = LossOf(c, Num(Last)'["ForwardPass"] - 1)
          /\ fwd_outputs' = [i \in 1 .. Num(Last)'["ForwardPass"] |-> LossOf(c, i - 1)]
      BY <1>1, <2>1, <3>1, <3>2, <3>4
    <3> QED  BY <3>3, <3>5 DEF Losses
  <2>2. CASE s # Last  BY <1>1, <1>3, <1>11, <2>2, LossesKept
  <2> QED  BY <2>1, <2>2
<1>15. StageInv(s)'
  <2>1. Draws(s)'
    <3>1. Num(s)'["LoadMicroBatch"] = m + 1 /\ CallOf(s)' = c
      BY <1>3 DEF n, m, c
    <3>2. \A k \in Kinds : drawn'[s][k] = c.drawn[k] + (IF k = c.kind THEN m + 1 ELSE 0)
      <4>1. \A k \in Kinds : c.drawn[k] \in Nat  BY <1>3 DEF Call, c
      <4> QED  BY <1>9, <4>1
    <3> QED  BY <3>1, <3>2 DEF Draws
  <2>2. Trains(s)'  BY <1>1, <1>3, TrainsKept DEF StageInv, Counted
  <2>3. HasInputs(s)'
    <3>1. CASE s = 0
      <4>1. KeepsInputs(c, s, n, Dim(batch[s]), inputs[s])
        BY <1>3 DEF StageInv, HasInputs, c, n
      <4>2. InputFits(c, s, n, n["LoadMicroBatch"], b) /\ Buffers(inputs[s]) /\ c \in Call
            /\ n \in [Counted -> Nat] /\ ("LoadMicroBatch" = "LoadMicroBatch" <=> s = 0)
        BY <1>3, <1>5, <3>1 DEF Shapely, n, m, c
      <4>3. inputs'[s] = [inputs[s] EXCEPT ![b] = [of |-> MicroOf(c, n["LoadMicroBatch"]),
                                                  shape |-> Dim(batch[s]), grad |-> None]]
        BY <1>10, <3>1 DEF v, m
      <4>4. Num(s)' = [n EXCEPT !["LoadMicroBatch"] = @ + 1]  BY <1>3 DEF n
      <4> DEFINE shape == Dim(batch[s])
                 in == inputs[s]
      <4> HIDE DEF shape, in
      <4>5. KeepsInputs(c, s, [n EXCEPT !["LoadMicroBatch"] = @ + 1], shape,
                [in EXCEPT ![b] = [of |-> MicroOf(c, n["LoadMicroBatch"]), shape |-> shape, grad |-> None]])
        BY <4>1, <4>2, InputTaken DEF shape, in
      <4>6. KeepsInputs(c, s, Num(s)', Dim(batch[s]), inputs'[s])
        BY <4>3, <4>4, <4>5 DEF shape, in
      <4> QED  BY <1>3, <4>6 DEF HasInputs, c
    <3>2. CASE s # 0
      <4>1. /\ InputsOf(s, Num(s)') = InputsOf(s, Num(s))
            /\ First(CallOf(s), s, Num(s)) <= First(CallOf(s), s, Num(s)')
            /\ Num(s)'["BackwardPass"] = Num(s)["BackwardPass"]
        BY <1>3, <3>2 DEF InputsOf, First, Counted
      <4> QED  BY <1>3, <1>10, <3>2, <4>1, InputsStayed DEF StageInv
    <3> QED  BY <3>1, <3>2
  <2>4. NoInputsLeft(s)'
    <3>1. CASE s = 0  BY <3>1 DEF NoInputsLeft
    <3>2. CASE s # 0
      BY <1>3, <1>10, <3>2, NoInputsStayed DEF StageInv, Counted
    <3> QED  BY <3>1, <3>2
  <2>5. HasOutputs(s)'  BY <1>1, <1>3, OutputsStayed DEF StageInv, Counted
  <2>6. HasGrads(s)'  BY <1>1, <1>3, GradsKept DEF StageInv, Counted
  <2>7. Shapes(s)'  BY <1>1, <1>3, ShapesKept DEF StageInv, Counted
  <2> QED  BY <2>1, <2>2, <2>3, <2>4, <2>5, <2>6, <2>7 DEF StageInv
<1> QED  BY <1>1, <1>2, <1>12, <1>13, <1>14, <1>15, OwnInstruction

(* A sequence goes on with the next value of a function. *)
LEMMA OneMore ==
    ASSUME NEW m \in Nat, NEW f, f = [i \in 1 .. m + 1 |-> f[i]],
           NEW q, q = [i \in 1 .. m |-> f[i]]
    PROVE  Append(q, f[m + 1]) = f
<1> DEFINE S == {f[i] : i \in 1 .. m + 1}
           r == Append(q, f[m + 1])
<1>1. q \in [1 .. m -> S] /\ f \in [1 .. m + 1 -> S] /\ f[m + 1] \in S  OBVIOUS
<1> HIDE DEF S
<1>2. q \in Seq(S) /\ f \in Seq(S) /\ Len(q) = m /\ Len(f) = m + 1
  <2>1. m + 1 \in Nat  OBVIOUS
  <2>2. q \in Seq(S) /\ f \in Seq(S)  BY ZenonT(60), <1>1, <2>1, SeqDef
  <2>3. DOMAIN q = 1 .. m /\ DOMAIN f = 1 .. m + 1  BY <1>1
  <2>4. Len(q) \in Nat /\ Len(f) \in Nat /\ DOMAIN q = 1 .. Len(q) /\ DOMAIN f = 1 .. Len(f)
    BY <2>2, LenProperties
  <2> QED  BY <2>1, <2>2, <2>3, <2>4
<1>3. /\ r \in Seq(S) /\ Len(r) = m + 1
      /\ \A i \in 1 .. m : r[i] = q[i]
      /\ r[m + 1] = f[m + 1]
  BY <1>1, <1>2, AppendProperties
<1>4. \A i \in 1 .. m + 1 : r[i] = f[i]
  <2> TAKE i \in 1 .. m + 1
  <2>1. i \in 1 .. m \/ i = m + 1  OBVIOUS
  <2>2. i \in 1 .. m => q[i] = f[i]  OBVIOUS
  <2> QED  BY <1>3, <2>1, <2>2
<1> HIDE DEF r
<1>5. r = [i \in 1 .. m + 1 |-> r[i]]
  <2>1. r \in [1 .. Len(r) -> S]  BY <1>3, LenProperties
  <2> QED  BY <1>3, <2>1
<1>6. r = f  BY <1>4, <1>5
<1> QED  BY <1>6 DEF r

(* A stage computes an output, and on the last stage the loss. *)
LEMMA ForwardPassKeeps ==
    ASSUME PipeInv, NEW s \in Stages, ForwardPass(s)
    PROVE  PipeInv'
<1> DEFINE n == Num(s)
           c == CallOf(s)
           b == Buf(s)
           m == n["ForwardPass"]
           input == inputs[s][b]
           v == [of |-> MicroOf(c, m), shape |-> Dim(batch[s])]
<1>1. /\ At(s, "ForwardPass") /\ Advance({s}) /\ inputs[s][b] # None
      /\ outputs' = [outputs EXCEPT ![s][b] = [of |-> input.of, shape |-> input.shape]]
      /\ s = Last => /\ loss' = [of |-> input.of, label |-> labels[s][b].of]
                     /\ fwd_outputs' = Append(fwd_outputs, loss')
      /\ s # Last => loss' = loss /\ fwd_outputs' = fwd_outputs
      /\ drawn' = drawn /\ inputs' = inputs /\ labels' = labels
      /\ pipe_recv_buf' = pipe_recv_buf
      /\ grad_layer' = grad_layer /\ first_output_send' = first_output_send
      /\ accumulated' = accumulated /\ global_steps' = global_steps
      /\ first_step' = first_step
  BY DEF ForwardPass, shapes
<1>2. "ForwardPass" \in OwnNames  BY DEF OwnNames
<1>3. /\ Positions /\ Shapely /\ StageInv(s) /\ Losses
      /\ "ForwardPass" \in Names /\ "ForwardPass" \in Counted
      /\ CallOf(s) \in Call /\ ~Finished(s) /\ at[s] = "steps"
      /\ Num(s) \in [Counted -> Nat] /\ Num(s)' \in [Counted -> Nat]
      /\ Num(s)' = [Num(s) EXCEPT !["ForwardPass"] = @ + 1]
      /\ Num(s)'["ForwardPass"] = Num(s)["ForwardPass"] + 1
      /\ \A u \in Counted : Num(s)[u] \in Nat /\ (u # "ForwardPass" => Num(s)'[u] = Num(s)[u])
      /\ SamePlace(s) /\ CallOf(s)' = CallOf(s) /\ ~Finished(s)'
      /\ Dim(batch[s])' = Dim(batch[s])
      /\ at'[s] = "steps" /\ batch'[s] = batch[s]
      /\ OfStages(batch)' /\ OfStages(at)' /\ OfStages(step)' /\ OfStages(pc)'
      /\ s # Last => SamePlace(Last) /\ Num(Last)' = Num(Last)
      /\ Num(s)["OptimizerStep"] = 0
  BY <1>1, <1>2, OwnFacts
<1>4. /\ m < c.micro /\ b = m % BuffersFor(c, s)
      /\ First(c, s, n) <= m /\ m < InputsOf(s, n)
      /\ s = Last => n["LoadMicroBatch"] = m + 1
      /\ m - n["BackwardPass"] < BuffersFor(c, s) \/ c.kind # "train"
  <2> DEFINE k == step[s]
             p == pc[s]
  <2>1. /\ c \in Call /\ k \in 0 .. StepsOf(c) - 1 /\ p \in 1 .. Len(CommandsOf(c, s, k))
        /\ n = Counts(c, "steps", s, k, p) /\ b = CommandsOf(c, s, k)[p].buffer
        /\ CommandsOf(c, s, k)[p].name = "ForwardPass"
    BY <1>1, <1>3, AtInstruction
  <2> HIDE DEF c, k, p, n, b
  <2> QED  BY <2>1, AtForward DEF m
<1>5. b = PlaceIn(c, s, m) /\ m \in Nat /\ m \in 0 .. c.micro - 1 /\ b \in BufferIds
  <2>1. b = PlaceIn(c, s, m) /\ m \in Nat /\ c.micro \in Nat
    BY <1>3, <1>4, CallFacts DEF PlaceIn
  <2>2. m \in 0 .. c.micro - 1  BY <1>4, <2>1
  <2> HIDE DEF b, m
  <2> QED  BY <1>3, <2>1, <2>2, PlacesAreBuffers
<1>6. input.of = MicroOf(c, m) /\ input.shape = Dim(batch[s])
  <2>1. KeepsInputs(c, s, n, Dim(batch[s]), inputs[s])
    BY <1>3 DEF StageInv, HasInputs
  <2>2. inputs[s][PlaceIn(c, s, m)] =
            [of |-> MicroOf(c, m), shape |-> Dim(batch[s]),
             grad |-> IF m < n["BackwardPass"] THEN MicroOf(c, m) ELSE None]
    BY <1>4, <1>5, <2>1 DEF KeepsInputs
  <2> QED  BY <1>5, <2>2
<1>7. /\ OfStages(outputs') /\ \A t \in Stages : Buffers(outputs'[t])
      /\ \A t \in Stages : t # s => outputs'[t] = outputs[t]
      /\ outputs'[s] = [outputs[s] EXCEPT ![b] = v]
  <2>1. outputs' = [outputs EXCEPT ![s][b] = v]  BY <1>1, <1>6
  <2>2. OfStages(outputs) /\ \A t \in Stages : Buffers(outputs[t])
    BY <1>3 DEF Shapely
  <2> HIDE DEF v, b
  <2> QED  BY <2>1, <2>2, ChangedBuffers DEF OfStages
<1>8. Shapely'
  <2>1. OfStages(outputs)' /\ \A t \in Stages : Buffers(outputs[t])'
    BY <1>7 DEF OfStages
  <2>2. /\ OfStages(drawn)' /\ OfStages(inputs)' /\ OfStages(labels)' /\ OfStages(pipe_recv_buf)'
        /\ OfStages(grad_layer)' /\ OfStages(first_output_send)' /\ OfStages(accumulated)'
        /\ OfStages(global_steps)' /\ OfStages(first_step)'
    BY <1>1, <1>3 DEF Shapely, OfStages
  <2>3. \A t \in Stages : /\ drawn'[t] = [k \in Kinds |-> drawn'[t][k]]
                          /\ Buffers(inputs[t])' /\ Buffers(labels[t])'
    BY <1>1, <1>3 DEF Shapely
  <2> QED  BY <1>3, <2>1, <2>2, <2>3 DEF Shapely
<1>9. \A t \in Stages : t # s => SameData(t)  BY <1>1, <1>7 DEF SameData
<1>10. Losses'
  <2>1. CASE s = Last
    <3> DEFINE f == [i \in 1 .. m + 1 |-> LossOf(c, i - 1)]
    <3>1. /\ labels[s][b] = [of |-> MicroOf(c, m)]
          /\ fwd_outputs = [i \in 1 .. m |-> LossOf(c, i - 1)]
      <4>1. n["LoadMicroBatch"] > n["ForwardPass"] /\ at[Last] # "begin" /\ ~Finished(Last)
        BY <1>3, <1>4, <1>5, <2>1
      <4> QED  BY <1>5, <2>1, <4>1, <1>3 DEF Losses
    <3>2. loss' = LossOf(c, m)  BY <1>1, <1>6, <2>1, <3>1 DEF LossOf
    <3>3. fwd_outputs = [i \in 1 .. m |-> f[i]]
      <4>1. \A i \in 1 .. m : i \in 1 .. m + 1  BY <1>5
      <4> QED  BY <3>1, <4>1
    <3>4. f = [i \in 1 .. m + 1 |-> f[i]]  OBVIOUS
    <3>5. f[m + 1] = LossOf(c, m)
      <4>1. m + 1 \in 1 .. m + 1 /\ (m + 1) - 1 = m  BY <1>5
      <4> QED  BY <4>1
    <3> HIDE DEF f, m, c, n
    <3>6. fwd_outputs' = f
      <4>1. Append(fwd_outputs, f[m + 1]) = f  BY <1>5, <3>3, <3>4, OneMore
      <4> QED  BY <1>1, <2>1, <3>2, <3>5, <4>1
    <3>7. /\ Num(Last)'["ForwardPass"] = m + 1 /\ Num(Last)'["LoadMicroBatch"] = m + 1
          /\ CallOf(Last)' = c /\ (m + 1) - 1 = m
      BY <1>3, <1>4, <1>5, <2>1 DEF Counted, m, n, c
    <3>8. ~(m + 1 > m + 1)  BY <1>5
    <3> QED  BY <3>2, <3>6, <3>7, <3>8 DEF Losses, f
  <2>2. CASE s # Last  BY <1>1, <1>3, <2>2, LossesKept
  <2> QED  BY <2>1, <2>2
<1>11. StageInv(s)'
  <2>1. Draws(s)'  BY <1>1, <1>3, DrawsKept DEF StageInv, Counted
  <2>2. Trains(s)'  BY <1>1, <1>3, TrainsKept DEF StageInv, Counted
  <2>3. HasInputs(s)'
    <3>1. /\ InputsOf(s, Num(s)') = InputsOf(s, Num(s))
          /\ First(CallOf(s), s, Num(s)) <= First(CallOf(s), s, Num(s)')
          /\ Num(s)'["BackwardPass"] = Num(s)["BackwardPass"]
      BY <1>3 DEF InputsOf, First, Counted
    <3> QED  BY <1>1, <1>3, <3>1, InputsStayed DEF StageInv
  <2>4. NoInputsLeft(s)'  BY <1>1, <1>3, NoInputsStayed DEF StageInv, Counted
  <2>5. HasOutputs(s)'
    <3>1. CASE s = Last  BY <3>1 DEF HasOutputs
    <3>2. CASE s # Last
      <4> DEFINE shape == Dim(batch[s])
                 out == outputs[s]
      <4>1. KeepsOutputs(c, s, n, shape, out)
        BY <1>3, <3>2 DEF StageInv, HasOutputs
      <4>2. Buffers(out) /\ c \in Call /\ n \in [Counted -> Nat]
        BY <1>3 DEF Shapely
      <4>3. /\ CallOf(s)' = c /\ Num(s)' = [n EXCEPT !["ForwardPass"] = @ + 1]
            /\ Dim(batch[s])' = shape
            /\ outputs'[s] = [out EXCEPT ![b] = [of |-> MicroOf(c, n["ForwardPass"]), shape |-> shape]]
        BY <1>3, <1>7
      <4>4. /\ n["ForwardPass"] < c.micro /\ b = n["ForwardPass"] % BuffersFor(c, s)
            /\ n["ForwardPass"] - n["BackwardPass"] < BuffersFor(c, s) \/ c.kind # "train"
        BY <1>4
      <4> HIDE DEF shape, out, c, n, b, m, v
      <4>5. KeepsOutputs(c, s, [n EXCEPT !["ForwardPass"] = @ + 1], shape,
                [out EXCEPT ![b] = [of |-> MicroOf(c, n["ForwardPass"]), shape |-> shape]])
        BY <4>1, <4>2, <4>4, OutputComputed
      <4> QED  BY <4>3, <4>5 DEF HasOutputs
    <3> QED  BY <3>1, <3>2
  <2>6. HasGrads(s)'  BY <1>1, <1>3, GradsKept DEF StageInv, Counted
  <2>7. Shapes(s)'  BY <1>1, <1>3, ShapesKept DEF StageInv, Counted
  <2> QED  BY <2>1, <2>2, <2>3, <2>4, <2>5, <2>6, <2>7 DEF StageInv
<1> QED  BY <1>1, <1>2, <1>8, <1>9, <1>10, <1>11, OwnInstruction

(* A stage computes a gradient from the output, the gradient that it
   received and the input. *)
LEMMA BackwardPassKeeps ==
    ASSUME PipeInv, NEW s \in Stages, BackwardPass(s)
    PROVE  PipeInv'
<1> DEFINE n == Num(s)
           c == CallOf(s)
           b == Buf(s)
           m == n["BackwardPass"]
           from == IF s = Last THEN loss ELSE outputs[s][b]
           gradient == IF s = Last THEN loss.of ELSE grad_layer[s].of
           micro == MicroOf(c, m)
<1>1. /\ At(s, "BackwardPass") /\ Advance({s})
      /\ accumulated' = [accumulated EXCEPT ![s] =
                            Append(accumulated[s], [output |-> from.of, grad |-> gradient])]
      /\ inputs' = [inputs EXCEPT ![s] = WithGradient(s, from.of, gradient)]
      /\ outputs' = IF s = Last THEN outputs ELSE [outputs EXCEPT ![s][b] = None]
      /\ drawn' = drawn /\ labels' = labels /\ loss' = loss /\ fwd_outputs' = fwd_outputs
      /\ pipe_recv_buf' = pipe_recv_buf
      /\ grad_layer' = grad_layer /\ first_output_send' = first_output_send
      /\ global_steps' = global_steps /\ first_step' = first_step
  BY DEF BackwardPass, shapes
<1>2. "BackwardPass" \in OwnNames  BY DEF OwnNames
<1>3. /\ Positions /\ Shapely /\ StageInv(s) /\ Losses
      /\ "BackwardPass" \in Names /\ "BackwardPass" \in Counted
      /\ CallOf(s) \in Call /\ ~Finished(s) /\ at[s] = "steps"
      /\ Num(s) \in [Counted -> Nat] /\ Num(s)' \in [Counted -> Nat]
      /\ Num(s)' = [Num(s) EXCEPT !["BackwardPass"] = @ + 1]
      /\ Num(s)'["BackwardPass"] = Num(s)["BackwardPass"] + 1
      /\ \A u \in Counted : Num(s)[u] \in Nat /\ (u # "BackwardPass" => Num(s)'[u] = Num(s)[u])
      /\ SamePlace(s) /\ CallOf(s)' = CallOf(s) /\ ~Finished(s)'
      /\ Dim(batch[s])' = Dim(batch[s])
      /\ at'[s] = "steps" /\ batch'[s] = batch[s]
      /\ OfStages(batch)' /\ OfStages(at)' /\ OfStages(step)' /\ OfStages(pc)'
      /\ s # Last => SamePlace(Last) /\ Num(Last)' = Num(Last)
      /\ Num(s)["OptimizerStep"] = 0
  BY <1>1, <1>2, OwnFacts
<1>4. /\ c.kind = "train"
      /\ m < c.micro /\ b = m % BuffersFor(c, s) /\ m < n["ForwardPass"]
      /\ n["ForwardPass"] - m <= BuffersFor(c, s)
      /\ s # Last => n["RecvGrad"] = m + 1
      /\ s = Last => n["ForwardPass"] = m + 1
  <2> DEFINE k == step[s]
             p == pc[s]
  <2>1. /\ c \in Call /\ k \in 0 .. StepsOf(c) - 1 /\ p \in 1 .. Len(CommandsOf(c, s, k))
        /\ n = Counts(c, "steps", s, k, p) /\ b = CommandsOf(c, s, k)[p].buffer
        /\ CommandsOf(c, s, k)[p].name = "BackwardPass"
    BY <1>1, <1>3, AtInstruction
  <2> HIDE DEF c, k, p, n, b
  <2>2. c.kind = "train"  BY <2>1, GradientsInTraining
  <2> QED  BY <2>1, <2>2, AtBackward DEF m
<1>5. b = PlaceIn(c, s, m) /\ m \in Nat /\ m \in 0 .. c.micro - 1 /\ b \in BufferIds
  <2>1. b = PlaceIn(c, s, m) /\ m \in Nat /\ c.micro \in Nat
    BY <1>3, <1>4, CallFacts DEF PlaceIn
  <2>2. m \in 0 .. c.micro - 1  BY <1>4, <2>1
  <2> HIDE DEF b, m
  <2> QED  BY <1>3, <2>1, <2>2, PlacesAreBuffers
<1>6. from.of = micro /\ gradient = micro
  <2>1. (m + 1) - 1 = m /\ m + 1 > 0  BY <1>5
  <2>2. CASE s = Last
    <3>1. loss = LossOf(c, m)  BY <1>3, <1>4, <2>1, <2>2 DEF Losses
    <3> QED  BY <2>2, <3>1 DEF LossOf
  <2>3. CASE s # Last
    <3>1. grad_layer[s].of = MicroOf(c, m)
      BY <1>3, <1>4, <2>1, <2>3 DEF StageInv, HasGrads
    <3>2. KeepsOutputs(c, s, n, Dim(batch[s]), outputs[s])
      BY <1>3, <2>3 DEF StageInv, HasOutputs
    <3>3. FirstOut(c, n) <= m  BY <1>4, <1>5 DEF FirstOut
    <3>4. outputs[s][PlaceIn(c, s, m)] = [of |-> MicroOf(c, m), shape |-> Dim(batch[s])]
      BY <1>4, <1>5, <3>2, <3>3 DEF KeepsOutputs
    <3> QED  BY <1>5, <2>3, <3>1, <3>4
  <2> QED  BY <2>2, <2>3
<1>7. /\ OfStages(inputs') /\ \A t \in Stages : Buffers(inputs'[t])
      /\ \A t \in Stages : t # s => inputs'[t] = inputs[t]
      /\ inputs'[s] = Graded(inputs[s], micro, micro)
  <2> DEFINE w == Graded(inputs[s], micro, micro)
  <2>1. inputs' = [inputs EXCEPT ![s] = w]
    BY <1>1, <1>6 DEF WithGradient, Graded
  <2>2. OfStages(inputs) /\ \A t \in Stages : Buffers(inputs[t])
    BY <1>3 DEF Shapely
  <2>3. Buffers(w)
    <3> DEFINE in == inputs[s]
    <3>1. in = [u \in BufferIds |-> in[u]]  BY <2>2 DEF Buffers
    <3>2. DOMAIN in = BufferIds  BY <3>1
    <3> HIDE DEF in, micro
    <3>3. Buffers(Graded(in, micro, micro))  BY <3>2 DEF Graded, Buffers
    <3> QED  BY <3>3 DEF in
  <2> HIDE DEF w
  <2>4. OfStages(inputs') /\ inputs'[s] = w /\ \A t \in Stages : t # s => inputs'[t] = inputs[t]
    BY <2>1, <2>2, Changed DEF OfStages
  <2> QED  BY <2>2, <2>3, <2>4 DEF w
<1>8. /\ OfStages(outputs') /\ \A t \in Stages : Buffers(outputs'[t])
      /\ \A t \in Stages : t # s => outputs'[t] = outputs[t]
      /\ s # Last => outputs'[s] = [outputs[s] EXCEPT ![b] = None]
  <2>1. OfStages(outputs) /\ \A t \in Stages : Buffers(outputs[t])
    BY <1>3 DEF Shapely
  <2>2. CASE s # Last
    <3>1. outputs' = [outputs EXCEPT ![s][b] = None]  BY <1>1, <2>2
    <3> HIDE DEF b
    <3> QED  BY <2>1, <3>1, ChangedBuffers DEF OfStages
  <2>3. CASE s = Last
    <3>1. outputs' = outputs  BY <1>1, <2>3
    <3> QED  BY <2>1, <2>3, <3>1
  <2> QED  BY <2>2, <2>3
<1>9. /\ OfStages(accumulated') /\ \A t \in Stages : t # s => accumulated'[t] = accumulated[t]
      /\ accumulated'[s] = Append(accumulated[s], [output |-> micro, grad |-> micro])
  <2> DEFINE w == Append(accumulated[s], [output |-> micro, grad |-> micro])
  <2>1. accumulated' = [accumulated EXCEPT ![s] = w]  BY <1>1, <1>6
  <2>2. OfStages(accumulated)  BY <1>3 DEF Shapely
  <2> HIDE DEF w
  <2>3. /\ OfStages(accumulated') /\ accumulated'[s] = w
        /\ \A t \in Stages : t # s => accumulated'[t] = accumulated[t]
    BY <2>1, <2>2, Changed DEF OfStages
  <2> QED  BY <2>3 DEF w
<1>10. Shapely'
  <2>1. /\ OfStages(outputs)' /\ OfStages(inputs)' /\ OfStages(accumulated)'
        /\ \A t \in Stages : Buffers(outputs[t])' /\ Buffers(inputs[t])'
    BY <1>7, <1>8, <1>9 DEF OfStages
  <2>2. /\ OfStages(drawn)' /\ OfStages(labels)' /\ OfStages(pipe_recv_buf)'
        /\ OfStages(grad_layer)' /\ OfStages(first_output_send)'
        /\ OfStages(global_steps)' /\ OfStages(first_step)'
    BY <1>1, <1>3 DEF Shapely, OfStages
  <2>3. \A t \in Stages : /\ drawn'[t] = [k \in Kinds |-> drawn'[t][k]]
                          /\ Buffers(labels[t])'
    BY <1>1, <1>3 DEF Shapely
  <2> QED  BY <1>3, <2>1, <2>2, <2>3 DEF Shapely
<1>11. \A t \in Stages : t # s => SameData(t)
  BY <1>1, <1>7, <1>8, <1>9 DEF SameData
<1>12. Losses'
  <2>1. CASE s = Last  BY <1>1, <1>3, <2>1, LossesKept DEF Counted
  <2>2. CASE s # Last  BY <1>1, <1>3, <2>2, LossesKept
  <2> QED  BY <2>1, <2>2
<1>13. StageInv(s)'
  <2> DEFINE shape == Dim(batch[s])
             in == inputs[s]
             out == outputs[s]
  <2>1. Draws(s)'  BY <1>1, <1>3, DrawsKept DEF StageInv, Counted
  <2>2. Trains(s)'  BY <1>1, <1>3, TrainsKept DEF StageInv, Counted
  <2>3. /\ CallOf(s)' = c /\ Num(s)' = [n EXCEPT !["BackwardPass"] = @ + 1]
        /\ Dim(batch[s])' = shape /\ c \in Call /\ n \in [Counted -> Nat] /\ ~Finished(s)
        /\ Buffers(in) /\ Buffers(out)
        /\ KeepsInputs(c, s, n, shape, in)
        /\ s # 0 => NoOtherInputs(c, s, n, in)
        /\ s # Last => KeepsOutputs(c, s, n, shape, out)
    BY <1>3 DEF StageInv, HasInputs, HasOutputs, NoInputsLeft, Shapely
  <2>4. inputs'[s] = Graded(in, MicroOf(c, n["BackwardPass"]), MicroOf(c, n["BackwardPass"]))
        /\ n["BackwardPass"] = m
    BY <1>7
  <2>5. HasInputs(s)'
    <3> HIDE DEF shape, in, out, c, n, b, m
    <3>1. KeepsInputs(c, s, [n EXCEPT !["BackwardPass"] = @ + 1], shape,
              Graded(in, MicroOf(c, n["BackwardPass"]), MicroOf(c, n["BackwardPass"])))
      BY <1>4, <2>3, InputGraded
    <3> QED  BY <2>3, <2>4, <3>1 DEF HasInputs
  <2>6. NoInputsLeft(s)'
    <3> HIDE DEF shape, in, out, c, n, b, m
    <3>1. s # 0 => NoOtherInputs(c, s, [n EXCEPT !["BackwardPass"] = @ + 1],
                       Graded(in, MicroOf(c, m), MicroOf(c, m)))
      BY <1>4, <2>3, OtherInputsGraded
    <3> QED  BY <2>3, <2>4, <3>1 DEF NoInputsLeft
  <2>7. HasOutputs(s)'
    <3>1. CASE s = Last  BY <3>1 DEF HasOutputs
    <3>2. CASE s # Last
      <4>1. outputs'[s] = [out EXCEPT ![b] = None]  BY <1>8, <3>2
      <4>2. /\ b = n["BackwardPass"] % BuffersFor(c, s)
            /\ n["ForwardPass"] - n["BackwardPass"] <= BuffersFor(c, s)
        BY <1>4
      <4> HIDE DEF shape, in, out, c, n, b, m
      <4>3. KeepsOutputs(c, s, [n EXCEPT !["BackwardPass"] = @ + 1], shape, [out EXCEPT ![b] = None])
        BY <1>4, <2>3, <3>2, <4>2, OutputFreed
      <4> QED  BY <2>3, <4>1, <4>3 DEF HasOutputs
    <3> QED  BY <3>1, <3>2
  <2>8. HasGrads(s)'
    <3> DEFINE f == [i \in 1 .. m + 1 |-> Gradient(c, i - 1)]
    <3>1. accumulated[s] = [i \in 1 .. m |-> Gradient(c, i - 1)]
      BY <1>3 DEF StageInv, HasGrads
    <3>2. accumulated[s] = [i \in 1 .. m |-> f[i]]
      <4>1. \A i \in 1 .. m : i \in 1 .. m + 1  BY <1>5
      <4> QED  BY <3>1, <4>1
    <3>3. f = [i \in 1 .. m + 1 |-> f[i]]  OBVIOUS
    <3>4. f[m + 1] = [output |-> micro, grad |-> micro]
      <4>1. m + 1 \in 1 .. m + 1 /\ (m + 1) - 1 = m  BY <1>5
      <4> QED  BY <4>1 DEF Gradient
    <3> HIDE DEF f, m, c, n, micro
    <3>5. accumulated'[s] = f
      <4> DEFINE q == accumulated[s]
      <4>1. q = [i \in 1 .. m |-> f[i]]  BY <3>2
      <4> HIDE DEF q
      <4>2. Append(q, f[m + 1]) = f  BY <1>5, <3>3, <4>1, OneMore
      <4> QED  BY <1>9, <3>4, <4>2 DEF q
    <3>6. /\ Num(s)'["BackwardPass"] = m + 1 /\ Num(s)'["RecvGrad"] = Num(s)["RecvGrad"]
          /\ Num(s)'["OptimizerStep"] = 0 /\ CallOf(s)' = c
      BY <1>3 DEF Counted, m, n, c
    <3>7. (~Finished(s) /\ s # Last /\ Num(s)["RecvGrad"] > 0) =>
              grad_layer[s].of = MicroOf(c, Num(s)["RecvGrad"] - 1)
      BY <1>3 DEF StageInv, HasGrads, c
    <3> QED  BY <1>1, <1>3, <3>5, <3>6, <3>7 DEF HasGrads, f
  <2>9. Shapes(s)'  BY <1>1, <1>3, ShapesKept DEF StageInv, Counted
  <2> QED  BY <2>1, <2>2, <2>5, <2>6, <2>7, <2>8, <2>9 DEF StageInv
<1> QED  BY <1>1, <1>2, <1>10, <1>11, <1>12, <1>13, OwnInstruction

(* What is known of a stage that executes an instruction, perhaps with
   another one. *)
LEMMA ExecutingFacts ==
    ASSUME PipeInv, NEW T, Advance(T), NEW s \in Stages, s \in T, NEW name \in Counted, At(s, name)
    PROVE  /\ StageInv(s) /\ Buffers(inputs[s]) /\ Buffers(outputs[s])
           /\ CallOf(s) \in Call /\ ~Finished(s) /\ at[s] = "steps"
           /\ Num(s) \in [Counted -> Nat] /\ Num(s)' \in [Counted -> Nat]
           /\ Num(s)' = [Num(s) EXCEPT ![name] = @ + 1]
           /\ Num(s)'[name] = Num(s)[name] + 1
           /\ \A u \in Counted : Num(s)[u] \in Nat /\ (u # name => Num(s)'[u] = Num(s)[u])
           /\ SamePlace(s) /\ CallOf(s)' = CallOf(s) /\ ~Finished(s)'
           /\ Dim(batch[s])' = Dim(batch[s])
           /\ at'[s] = "steps" /\ batch'[s] = batch[s]
<1>1. Positions /\ Shapely /\ StageInv(s) /\ name \in Names
  BY DEF PipeInv, Names, Counted
<1>2. CallOf(s) \in Call /\ ~Finished(s) /\ at[s] = "steps"
  BY <1>1, AtInstruction
<1>3. /\ SamePlace(s) /\ CallOf(s)' = CallOf(s) /\ Num(s) \in [Counted -> Nat]
      /\ Num(s)' \in [Counted -> Nat] /\ Num(s)' = [Num(s) EXCEPT ![name] = @ + 1]
  BY <1>1, Advanced
<1>4. ~Finished(s)' /\ Dim(batch[s])' = Dim(batch[s])
  BY <1>2, <1>3, SamePlaceFacts
<1>5. at'[s] = "steps" /\ batch'[s] = batch[s]  BY <1>2 DEF Advance
<1>6. Buffers(inputs[s]) /\ Buffers(outputs[s])  BY <1>1 DEF Shapely
<1>7. /\ Num(s)'[name] = Num(s)[name] + 1
      /\ \A u \in Counted : Num(s)[u] \in Nat /\ (u # name => Num(s)'[u] = Num(s)[u])
  BY <1>3
<1> QED  BY <1>1, <1>2, <1>3, <1>4, <1>5, <1>6, <1>7

LEMMA ExchangedKept ==
    ASSUME NEW s \in Stages, NEW t \in Stages, Exchanged(s, t), SamePlace(s), SamePlace(t),
           Num(s)'["SendActivation"] = Num(s)["SendActivation"],
           Num(s)'["RecvGrad"] = Num(s)["RecvGrad"],
           Num(t)'["RecvActivation"] = Num(t)["RecvActivation"],
           Num(t)'["SendGrad"] = Num(t)["SendGrad"]
    PROVE  Exchanged(s, t)'
<1>1. /\ batch'[s] = batch[s] /\ CallOf(s)' = CallOf(s)
      /\ batch'[t] = batch[t] /\ CallOf(t)' = CallOf(t)
  BY SamePlaceFacts DEF SamePlace
<1> QED  BY <1>1 DEF Exchanged

(* Two stages exchange an activation or a gradient: the earlier one
   executes this, the later one that. *)
LEMMA ExchangeKeeps ==
    ASSUME PipeInv, NEW s \in Stages, NEW t \in Stages, t = s + 1,
           NEW here, NEW there,
           \/ here = "SendActivation" /\ there = "RecvActivation"
           \/ here = "RecvGrad" /\ there = "SendGrad",
           NEW T, T = {s, t}, Advance(T), At(s, here), At(t, there),
           batch[s] = batch[t], Num(s)[here] = Num(t)[there],
           labels' = labels, loss' = loss, fwd_outputs' = fwd_outputs, drawn' = drawn,
           outputs' = outputs,
           OfStages(inputs'), \A u \in Stages : Buffers(inputs'[u]),
           OfStages(pipe_recv_buf'), OfStages(first_output_send'), OfStages(grad_layer'),
           accumulated' = accumulated, global_steps' = global_steps, first_step' = first_step,
           \A u \in Stages : u # s /\ u # t => SameData(u),
           StageInv(s)', StageInv(t)'
    PROVE  PipeInv'
<1>1. Positions /\ Shapely /\ InStep /\ Losses /\ \A u \in Stages : StageInv(u)
  BY DEF PipeInv
<1>2. /\ here \in Counted /\ there \in Counted /\ here \in Names /\ there \in Names
      /\ here \notin {"LoadMicroBatch", "ForwardPass"} /\ there \notin {"LoadMicroBatch", "ForwardPass"}
      /\ here \notin {"RecvActivation", "SendGrad"} /\ there \notin {"SendActivation", "RecvGrad"}
  BY DEF Counted, Names
<1>3. Positions'  BY <1>1, <1>2, AdvancedPositions
<1>4. \A u \in Stages : u # s /\ u # t => SamePlace(u) /\ Num(u)' = Num(u)
  <2> TAKE u \in Stages
  <2>1. u # s /\ u # t => u \notin T  OBVIOUS
  <2> QED  BY <2>1, NotAdvanced
<1>5. /\ SamePlace(s) /\ Num(s)'[here] = Num(s)[here] + 1
      /\ \A u \in Counted : u # here => Num(s)'[u] = Num(s)[u]
  BY <1>2, ExecutingFacts
<1>6. /\ SamePlace(t) /\ Num(t)'[there] = Num(t)[there] + 1
      /\ \A u \in Counted : u # there => Num(t)'[u] = Num(t)[u]
  BY <1>2, ExecutingFacts
<1>7. \A u \in Stages : StageInv(u)'
  <2> TAKE u \in Stages
  <2>1. CASE u = s  BY <2>1
  <2>2. CASE u = t  BY <2>2
  <2>3. CASE u # s /\ u # t  BY <1>1, <1>4, <2>3, StageKept
  <2> QED  BY <2>1, <2>2, <2>3
<1>8. /\ s # Last /\ s # t /\ s \in Int  BY StageFacts
<1>9. Losses'
  <2>1. SamePlace(Last) /\ \A u \in {"LoadMicroBatch", "ForwardPass"} : Num(Last)'[u] = Num(Last)[u]
    <3>1. CASE Last = t  BY <1>2, <1>6, <3>1 DEF Counted
    <3>2. CASE Last # t  BY <1>4, <1>8, <3>2, StageFacts
    <3> QED  BY <3>1, <3>2
  <2>2. labels'[Last] = labels[Last]  OBVIOUS
  <2> QED  BY <1>1, <2>1, <2>2, LossesKept
<1>10. InStep'
  <2> SUFFICES ASSUME NEW u \in Stages \ {Last} PROVE Exchanged(u, u + 1)'
    BY DEF InStep
  <2>1. u + 1 \in Stages /\ u \in Stages /\ u \in Int /\ u # u + 1
    BY StageFacts
  <2>2. Exchanged(u, u + 1)  BY <1>1 DEF InStep
  <2>3. CASE u = s
    <3>1. Exchanged(s, t)  BY <2>2, <2>3
    <3>2. /\ Num(s)["SendActivation"] = Num(t)["RecvActivation"]
          /\ Num(s)["RecvGrad"] = Num(t)["SendGrad"]
      <4>1. /\ CallOf(s) \in Call /\ \A x \in Counted : Num(s)[x] \in Nat /\ Num(t)[x] \in Nat
            /\ batch[s] \in Nat
        <5>1. /\ CallOf(s) \in Call /\ \A x \in Counted : Num(s)[x] \in Nat
          BY <1>2, ExecutingFacts
        <5>2. \A x \in Counted : Num(t)[x] \in Nat  BY <1>2, ExecutingFacts
        <5>3. batch[s] \in Nat  BY <1>1, ProgramFacts DEF Positions
        <5> QED  BY <5>1, <5>2, <5>3
      <4>2. batch[s] # batch[t] + 1 /\ batch[t] # batch[s] + 1  BY <4>1
      <4> QED  BY <3>1, <4>2 DEF Exchanged
    <3>3. /\ Num(s)'["SendActivation"] = Num(t)'["RecvActivation"]
          /\ Num(s)'["RecvGrad"] = Num(t)'["SendGrad"]
      BY <1>2, <1>5, <1>6, <3>2 DEF Counted
    <3>4. batch'[s] = batch'[t]  BY <1>5, <1>6 DEF SamePlace
    <3>5. Exchanged(s, t)'  BY <3>3, <3>4 DEF Exchanged
    <3> QED  BY <2>3, <3>5
  <2>4. CASE u # s
    <3>1. u + 1 # t  BY <1>8, <2>1, <2>4
    <3>2. /\ SamePlace(u) /\ Num(u)'["SendActivation"] = Num(u)["SendActivation"]
          /\ Num(u)'["RecvGrad"] = Num(u)["RecvGrad"]
      <4>1. CASE u = t  BY <1>2, <1>6, <4>1 DEF Counted
      <4>2. CASE u # t  BY <1>4, <2>1, <2>4, <4>2
      <4> QED  BY <4>1, <4>2
    <3>3. /\ SamePlace(u + 1) /\ Num(u + 1)'["RecvActivation"] = Num(u + 1)["RecvActivation"]
          /\ Num(u + 1)'["SendGrad"] = Num(u + 1)["SendGrad"]
      <4> DEFINE w == u + 1
      <4>1. w \in Stages /\ w # t  BY <2>1, <3>1
      <4> HIDE DEF w
      <4>2. CASE w = s  BY <1>2, <1>5, <4>2 DEF Counted, w
      <4>3. CASE w # s
        <5>1. SamePlace(w) /\ Num(w)' = Num(w)  BY <1>4, <4>1, <4>3
        <5> QED  BY <5>1 DEF w
      <4> QED  BY <4>2, <4>3
    <3> QED  BY <2>1, <2>2, <3>2, <3>3, ExchangedKept
  <2> QED  BY <2>3, <2>4
<1>11. Shapely'
  <2>1. OfStages(batch)' /\ OfStages(at)' /\ OfStages(step)' /\ OfStages(pc)'
    BY <1>1, SingleOfStages
  <2>2. /\ OfStages(drawn)' /\ OfStages(labels)' /\ OfStages(outputs)'
        /\ OfStages(accumulated)' /\ OfStages(global_steps)' /\ OfStages(first_step)'
    BY <1>1 DEF Shapely, OfStages
  <2>3. /\ OfStages(inputs)' /\ OfStages(pipe_recv_buf)'
        /\ OfStages(first_output_send)' /\ OfStages(grad_layer)'
    BY DEF OfStages
  <2>4. \A u \in Stages : /\ drawn'[u] = [k \in Kinds |-> drawn'[u][k]]
                          /\ Buffers(labels[u])' /\ Buffers(outputs[u])' /\ Buffers(inputs[u])'
    BY <1>1 DEF Shapely
  <2> QED  BY <2>1, <2>2, <2>3, <2>4 DEF Shapely
<1> QED  BY <1>3, <1>7, <1>9, <1>10, <1>11 DEF PipeInv

(* Where two neighbours meet to exchange, they are in the same call and at
   the same micro batch of it. *)
LEMMA MeetingFacts ==
    ASSUME PipeInv, NEW s \in Stages, NEW name \in Counted, At(s, name)
    PROVE  /\ CallOf(s) \in Call /\ ~Finished(s) /\ at[s] = "steps" /\ StageInv(s)
           /\ CallOf(s).micro \in Nat /\ \A u \in Counted : Num(s)[u] \in Nat
<1> DEFINE c == CallOf(s)
           k == step[s]
           p == pc[s]
<1>1. Positions /\ StageInv(s) /\ name \in Names
  BY DEF PipeInv, Names, Counted
<1>2. /\ ~Finished(s) /\ at[s] = "steps" /\ c \in Call /\ k \in 0 .. StepsOf(c) - 1
      /\ Num(s) = Counts(c, "steps", s, k, p)
  BY <1>1, AtInstruction
<1> HIDE DEF c, k, p
<1>3. k \in Int /\ c.micro \in Nat  BY <1>2, CallFacts
<1>4. Num(s) \in [Counted -> Nat]
  <2>1. \A q : Counts(c, "steps", s, k, q) \in [Counted -> Nat]
    BY <1>2, <1>3, CountsAreFunctions
  <2> QED  BY <1>2, <2>1
<1> QED  BY <1>1, <1>2, <1>3, <1>4 DEF c

(* A stage sends the activation that its neighbour waits for, *)
LEMMA ActivationIsAwaited ==
    ASSUME PipeInv, NEW s \in Stages, NEW t \in Stages, t = s + 1,
           At(s, "SendActivation"), At(t, "RecvActivation")
    PROVE  LET c == CallOf(s)
               m == Num(s)["SendActivation"]
           IN  /\ batch[s] = batch[t] /\ CallOf(t) = c /\ Dim(batch[t]) = Dim(batch[s])
               /\ m \in Nat /\ Num(t)["RecvActivation"] = m
               /\ outputs[s][Buf(s)] = [of |-> MicroOf(c, m), shape |-> Dim(batch[s])]
               /\ InputFits(c, t, Num(t), m, Buf(t))
<1> DEFINE n == Num(s)
           r == Num(t)
           c == CallOf(s)
           d == CallOf(t)
           m == n["SendActivation"]
<1>1. "SendActivation" \in Counted /\ "RecvActivation" \in Counted
      /\ "SendActivation" \in Names /\ "RecvActivation" \in Names
  BY DEF Counted, Names
<1>2. Positions /\ Exchanged(s, t) /\ s # Last
  BY StageFacts DEF PipeInv, InStep
<1>3. /\ c \in Call /\ d \in Call /\ c.micro \in Nat /\ d.micro \in Nat
      /\ n["SendActivation"] \in Nat /\ r["RecvActivation"] \in Nat
      /\ StageInv(s) /\ ~Finished(s)
  BY <1>1, MeetingFacts
<1>4. m < c.micro /\ Buf(s) = m % BuffersFor(c, s) /\ FirstOut(c, n) <= m /\ m < n["ForwardPass"]
  <2> DEFINE k == step[s]
             p == pc[s]
             f == Buf(s)
  <2>1. /\ c \in Call /\ k \in 0 .. StepsOf(c) - 1 /\ p \in 1 .. Len(CommandsOf(c, s, k))
        /\ n = Counts(c, "steps", s, k, p) /\ f = CommandsOf(c, s, k)[p].buffer
        /\ CommandsOf(c, s, k)[p].name = "SendActivation"
    BY <1>1, <1>2, AtInstruction
  <2> HIDE DEF c, k, p, n, f
  <2>2. m < c.micro /\ f = m % BuffersFor(c, s) /\ FirstOut(c, n) <= m /\ m < n["ForwardPass"]
    BY <2>1, AtSendActivation DEF m
  <2> QED  BY <2>2 DEF f
<1>5. r["RecvActivation"] < d.micro /\ InputFits(d, t, r, r["RecvActivation"], Buf(t))
  <2> DEFINE k == step[t]
             p == pc[t]
             f == Buf(t)
  <2>1. /\ d \in Call /\ k \in 0 .. StepsOf(d) - 1 /\ p \in 1 .. Len(CommandsOf(d, t, k))
        /\ r = Counts(d, "steps", t, k, p) /\ f = CommandsOf(d, t, k)[p].buffer
        /\ CommandsOf(d, t, k)[p].name = "RecvActivation"
    BY <1>1, <1>2, AtInstruction
  <2> HIDE DEF d, k, p, r, f
  <2>2. r["RecvActivation"] < d.micro /\ InputFits(d, t, r, r["RecvActivation"], f)
    BY <2>1, AtInput
  <2> QED  BY <2>2 DEF f
<1>6. batch[s] = batch[t] /\ r["RecvActivation"] = m
  <2>1. m # c.micro /\ r["RecvActivation"] # d.micro  BY <1>3, <1>4, <1>5
  <2> QED  BY <1>2, <2>1 DEF Exchanged
<1>7. d = c /\ Dim(batch[t]) = Dim(batch[s])  BY <1>6 DEF CallOf
<1>8. outputs[s][Buf(s)] = [of |-> MicroOf(c, m), shape |-> Dim(batch[s])]
  <2>1. KeepsOutputs(c, s, n, Dim(batch[s]), outputs[s])
    BY <1>2, <1>3 DEF StageInv, HasOutputs
  <2>2. m \in 0 .. c.micro - 1  BY <1>3, <1>4
  <2>3. Buf(s) = PlaceIn(c, s, m)  BY <1>4 DEF PlaceIn
  <2> QED  BY <1>4, <2>1, <2>2, <2>3 DEF KeepsOutputs
<1> QED  BY <1>3, <1>5, <1>6, <1>7, <1>8

(* and gets the gradient that it waits for. *)
LEMMA GradientIsAwaited ==
    ASSUME PipeInv, NEW s \in Stages, NEW t \in Stages, t = s + 1,
           At(s, "RecvGrad"), At(t, "SendGrad")
    PROVE  LET c == CallOf(t)
               m == Num(t)["SendGrad"]
           IN  /\ batch[s] = batch[t] /\ CallOf(s) = c /\ Dim(batch[s]) = Dim(batch[t])
               /\ m \in Nat /\ Num(s)["RecvGrad"] = m /\ c.kind = "train"
               /\ inputs[t][Buf(t)] = [of |-> MicroOf(c, m), shape |-> Dim(batch[t]),
                                       grad |-> MicroOf(c, m)]
               /\ Buf(t) = m % BuffersFor(c, t)
               /\ Num(t)["RecvActivation"] - m <= BuffersFor(c, t)
<1> DEFINE n == Num(s)
           r == Num(t)
           c == CallOf(t)
           d == CallOf(s)
           m == r["SendGrad"]
<1>1. "SendGrad" \in Counted /\ "RecvGrad" \in Counted /\ "SendGrad" \in Names /\ "RecvGrad" \in Names
  BY DEF Counted, Names
<1>2. Positions /\ Exchanged(s, t) /\ s # Last /\ t # 0
  BY StageFacts DEF PipeInv, InStep
<1>3. /\ c \in Call /\ d \in Call /\ c.micro \in Nat /\ d.micro \in Nat
      /\ r["SendGrad"] \in Nat /\ n["RecvGrad"] \in Nat
      /\ StageInv(t) /\ ~Finished(t)
  BY <1>1, MeetingFacts
<1>4. /\ m < c.micro /\ Buf(t) = m % BuffersFor(c, t) /\ c.kind = "train"
      /\ m < r["BackwardPass"] /\ m < r["RecvActivation"]
      /\ r["RecvActivation"] - m <= BuffersFor(c, t)
  <2> DEFINE k == step[t]
             p == pc[t]
             f == Buf(t)
  <2>1. /\ c \in Call /\ k \in 0 .. StepsOf(c) - 1 /\ p \in 1 .. Len(CommandsOf(c, t, k))
        /\ r = Counts(c, "steps", t, k, p) /\ f = CommandsOf(c, t, k)[p].buffer
        /\ CommandsOf(c, t, k)[p].name = "SendGrad"
    BY <1>1, <1>2, AtInstruction
  <2> HIDE DEF c, k, p, r, f
  <2>2. c.kind = "train"  BY <2>1, GradientsInTraining
  <2>3. /\ m < c.micro /\ f = m % BuffersFor(c, t)
        /\ m < r["BackwardPass"] /\ m < r["RecvActivation"]
        /\ r["RecvActivation"] - m <= BuffersFor(c, t)
    BY <2>1, AtSendGrad DEF m
  <2> QED  BY <2>2, <2>3 DEF f
<1>5. n["RecvGrad"] < d.micro /\ d.kind = "train"
  <2> DEFINE k == step[s]
             p == pc[s]
  <2>1. /\ d \in Call /\ k \in 0 .. StepsOf(d) - 1 /\ p \in 1 .. Len(CommandsOf(d, s, k))
        /\ n = Counts(d, "steps", s, k, p)
        /\ CommandsOf(d, s, k)[p].name = "RecvGrad"
    BY <1>1, <1>2, AtInstruction
  <2> HIDE DEF d, k, p, n
  <2> QED  BY <2>1, AtBackward, GradientsInTraining
<1>6. batch[s] = batch[t] /\ n["RecvGrad"] = m
  <2>1. m # Gradients(c) /\ n["RecvGrad"] # Gradients(d)
    BY <1>3, <1>4, <1>5 DEF Gradients
  <2> QED  BY <1>2, <2>1 DEF Exchanged
<1>7. d = c /\ Dim(batch[s]) = Dim(batch[t])  BY <1>6 DEF CallOf
<1>8. inputs[t][Buf(t)] = [of |-> MicroOf(c, m), shape |-> Dim(batch[t]), grad |-> MicroOf(c, m)]
  <2>1. KeepsInputs(c, t, r, Dim(batch[t]), inputs[t])
    BY <1>2, <1>3 DEF StageInv, HasInputs
  <2>2. m \in 0 .. c.micro - 1  BY <1>3, <1>4
  <2>3. Buf(t) = PlaceIn(c, t, m)  BY <1>4 DEF PlaceIn
  <2>4. First(c, t, r) <= m /\ m < InputsOf(t, r)
    BY <1>2, <1>3, <1>4 DEF First, InputsOf
  <2> QED  BY <1>4, <2>1, <2>2, <2>3, <2>4 DEF KeepsInputs
<1> QED  BY <1>3, <1>4, <1>6, <1>7, <1>8

(* An activation goes to the next stage. *)
LEMMA ExchangeActivationKeeps ==
    ASSUME PipeInv, NEW s \in Stages \ {Last}, ExchangeActivation(s)
    PROVE  PipeInv'
<1> DEFINE t == s + 1
           n == Num(s)
           r == Num(t)
           c == CallOf(s)
           b == Buf(t)
           m == n["SendActivation"]
           message == outputs[s][Buf(s)]
           shape == Dim(batch[s])
           v == [of |-> MicroOf(c, m), shape |-> shape, grad |-> None]
           T == {s, t}
<1>1. /\ At(s, "SendActivation") /\ At(t, "RecvActivation") /\ Advance(T)
      /\ pipe_recv_buf' = [pipe_recv_buf EXCEPT ![t] = message.shape]
      /\ inputs' = [inputs EXCEPT ![t][b] =
                       [of |-> message.of, shape |-> message.shape, grad |-> None]]
      /\ first_output_send' = [first_output_send EXCEPT ![s] = FALSE]
      /\ drawn' = drawn /\ labels' = labels /\ outputs' = outputs /\ loss' = loss
      /\ fwd_outputs' = fwd_outputs /\ grad_layer' = grad_layer
      /\ accumulated' = accumulated /\ global_steps' = global_steps /\ first_step' = first_step
  BY DEF ExchangeActivation
<1>2. s \in Stages /\ t \in Stages /\ t # 0 /\ s # t /\ s # Last /\ s \in T /\ t \in T
  BY StageFacts
<1>3. "SendActivation" \in Counted /\ "RecvActivation" \in Counted
      /\ "SendActivation" \in Names /\ "RecvActivation" \in Names
  BY DEF Counted, Names
<1>4. Positions /\ Shapely /\ Exchanged(s, t)  BY DEF PipeInv, InStep
<1> HIDE DEF t, T
<1>5. /\ StageInv(s) /\ Buffers(inputs[s]) /\ Buffers(outputs[s])
      /\ CallOf(s) \in Call /\ ~Finished(s) /\ at[s] = "steps"
      /\ Num(s) \in [Counted -> Nat] /\ Num(s)' \in [Counted -> Nat]
      /\ Num(s)' = [Num(s) EXCEPT !["SendActivation"] = @ + 1]
      /\ Num(s)'["SendActivation"] = Num(s)["SendActivation"] + 1
      /\ \A u \in Counted : Num(s)[u] \in Nat /\ (u # "SendActivation" => Num(s)'[u] = Num(s)[u])
      /\ SamePlace(s) /\ CallOf(s)' = CallOf(s) /\ ~Finished(s)'
      /\ Dim(batch[s])' = Dim(batch[s])
      /\ at'[s] = "steps" /\ batch'[s] = batch[s]
  BY <1>1, <1>2, <1>3, ExecutingFacts
<1>6. /\ StageInv(t) /\ Buffers(inputs[t]) /\ Buffers(outputs[t])
      /\ CallOf(t) \in Call /\ ~Finished(t) /\ at[t] = "steps"
      /\ Num(t) \in [Counted -> Nat] /\ Num(t)' \in [Counted -> Nat]
      /\ Num(t)' = [Num(t) EXCEPT !["RecvActivation"] = @ + 1]
      /\ Num(t)'["RecvActivation"] = Num(t)["RecvActivation"] + 1
      /\ \A u \in Counted : Num(t)[u] \in Nat /\ (u # "RecvActivation" => Num(t)'[u] = Num(t)[u])
      /\ SamePlace(t) /\ CallOf(t)' = CallOf(t) /\ ~Finished(t)'
      /\ Dim(batch[t])' = Dim(batch[t])
      /\ at'[t] = "steps" /\ batch'[t] = batch[t]
  BY <1>1, <1>2, <1>3, ExecutingFacts
<1>9. /\ batch[s] = batch[t] /\ r["RecvActivation"] = m /\ CallOf(t) = c /\ Dim(batch[t]) = shape
      /\ m \in Nat /\ message = [of |-> MicroOf(c, m), shape |-> shape]
      /\ InputFits(c, t, r, r["RecvActivation"], b)
  BY <1>1, <1>2, ActivationIsAwaited DEF t
<1>10. message = [of |-> MicroOf(c, m), shape |-> shape]  BY <1>9
<1>11. /\ OfStages(inputs') /\ \A u \in Stages : Buffers(inputs'[u])
       /\ \A u \in Stages : u # t => inputs'[u] = inputs[u]
       /\ inputs'[t] = [inputs[t] EXCEPT ![b] = v]
  <2>1. OfStages(inputs) /\ \A u \in Stages : Buffers(inputs[u])
    BY <1>4 DEF Shapely
  <2>2. inputs' = [inputs EXCEPT ![t][b] = v]  BY <1>1, <1>10
  <2> HIDE DEF v, b
  <2> QED  BY <1>2, <2>1, <2>2, ChangedBuffers DEF OfStages
<1>12. /\ OfStages(pipe_recv_buf') /\ \A u \in Stages : u # t => pipe_recv_buf'[u] = pipe_recv_buf[u]
       /\ pipe_recv_buf'[t] = shape
  <2>1. OfStages(pipe_recv_buf)  BY <1>4 DEF Shapely
  <2>2. pipe_recv_buf' = [pipe_recv_buf EXCEPT ![t] = shape]  BY <1>1, <1>10
  <2> HIDE DEF shape
  <2> QED  BY <1>2, <2>1, <2>2, Changed DEF OfStages
<1>13. /\ OfStages(first_output_send')
       /\ \A u \in Stages : u # s => first_output_send'[u] = first_output_send[u]
       /\ first_output_send'[s] = FALSE
  <2>1. OfStages(first_output_send)  BY <1>4 DEF Shapely
  <2> QED  BY <1>1, <1>2, <2>1, Changed DEF OfStages
<1>14. OfStages(grad_layer')  BY <1>1, <1>4 DEF Shapely, OfStages
<1>15. \A u \in Stages : u # s /\ u # t => SameData(u)
  BY <1>1, <1>11, <1>12, <1>13 DEF SameData
<1>16. StageInv(s)'
  <2>1. Draws(s)'  BY <1>1, <1>2, <1>5, DrawsKept DEF StageInv, Counted
  <2>2. Trains(s)'  BY <1>1, <1>2, <1>5, TrainsKept DEF StageInv, Counted
  <2>3. inputs'[s] = inputs[s]  BY <1>2, <1>11
  <2>4. HasInputs(s)'
    <3>1. /\ InputsOf(s, Num(s)') = InputsOf(s, Num(s))
          /\ First(CallOf(s), s, Num(s)) <= First(CallOf(s), s, Num(s)')
          /\ Num(s)'["BackwardPass"] = Num(s)["BackwardPass"]
      BY <1>5 DEF InputsOf, First, Counted
    <3> QED  BY <1>2, <1>5, <2>3, <3>1, InputsStayed DEF StageInv
  <2>5. NoInputsLeft(s)'
    BY <1>2, <1>5, <2>3, NoInputsStayed DEF StageInv, Counted
  <2>6. HasOutputs(s)'
    BY <1>1, <1>2, <1>5, OutputsStayed DEF StageInv, Counted
  <2>7. HasGrads(s)'  BY <1>1, <1>2, <1>5, GradsKept DEF StageInv, Counted
  <2>8. Shapes(s)'
    <3>1. Shapes(s)  BY <1>5 DEF StageInv
    <3>2. /\ pipe_recv_buf'[s] = pipe_recv_buf[s] /\ grad_layer'[s] = grad_layer[s]
          /\ Num(s)'["RecvActivation"] = Num(s)["RecvActivation"]
          /\ (Resets(batch[s])' <=> Resets(batch[s]))
      BY <1>1, <1>2, <1>5, <1>12, SamePlaceFacts DEF Counted
    <3>3. Num(s)'["SendActivation"] # 0  BY <1>3, <1>5
    <3> QED  BY <1>5, <1>13, <3>1, <3>2, <3>3 DEF Shapes
  <2> QED  BY <2>1, <2>2, <2>4, <2>5, <2>6, <2>7, <2>8 DEF StageInv
<1>17. StageInv(t)'
  <2> DEFINE in == inputs[t]
  <2>1. Draws(t)'  BY <1>1, <1>2, <1>6, DrawsKept DEF StageInv, Counted
  <2>2. Trains(t)'  BY <1>1, <1>2, <1>6, TrainsKept DEF StageInv, Counted
  <2>3. /\ CallOf(t)' = c /\ Num(t)' = [r EXCEPT !["RecvActivation"] = @ + 1]
        /\ Dim(batch[t])' = shape /\ c \in Call /\ r \in [Counted -> Nat] /\ ~Finished(t)
        /\ Buffers(in) /\ KeepsInputs(c, t, r, shape, in) /\ NoOtherInputs(c, t, r, in)
        /\ inputs'[t] = [in EXCEPT ![b] = v]
        /\ InputFits(c, t, r, r["RecvActivation"], b)
    BY <1>2, <1>5, <1>6, <1>9, <1>11 DEF StageInv, HasInputs, NoInputsLeft
  <2>4. /\ v = [of |-> MicroOf(c, r["RecvActivation"]), shape |-> shape, grad |-> None]
        /\ v.of.from = c.kind
    BY <1>9 DEF MicroOf
  <2>5. HasInputs(t)'
    <3> HIDE DEF v, in, shape, c, r, b
    <3>1. KeepsInputs(c, t, [r EXCEPT !["RecvActivation"] = @ + 1], shape,
              [in EXCEPT ![b] = [of |-> MicroOf(c, r["RecvActivation"]), shape |-> shape, grad |-> None]])
      <4>1. "RecvActivation" \in {"LoadMicroBatch", "RecvActivation"}
            /\ ("RecvActivation" = "LoadMicroBatch" <=> t = 0)
        BY <1>2
      <4> QED  BY <1>2, <2>3, <4>1, InputTaken
    <3> QED  BY <2>3, <2>4, <3>1 DEF HasInputs
  <2>6. NoInputsLeft(t)'
    <3> HIDE DEF v, in, shape, c, r, b
    <3>1. NoOtherInputs(c, t, [r EXCEPT !["RecvActivation"] = @ + 1], [in EXCEPT ![b] = v])
      BY <1>2, <2>3, <2>4, InputReceived
    <3> QED  BY <2>3, <3>1 DEF NoInputsLeft
  <2>7. HasOutputs(t)'
    BY <1>1, <1>2, <1>6, OutputsStayed DEF StageInv, Counted
  <2>8. HasGrads(t)'  BY <1>1, <1>2, <1>6, GradsKept DEF StageInv, Counted
  <2>9. Shapes(t)'
    <3>1. Shapes(t)  BY <1>6 DEF StageInv
    <3>2. /\ first_output_send'[t] = first_output_send[t] /\ grad_layer'[t] = grad_layer[t]
          /\ Num(t)'["SendActivation"] = Num(t)["SendActivation"]
          /\ (Resets(batch[t])' <=> Resets(batch[t]))
      BY <1>1, <1>2, <1>6, <1>13, SamePlaceFacts DEF Counted
    <3>3. Num(t)'["RecvActivation"] # 0 /\ pipe_recv_buf'[t] = Dim(batch[t])'
      BY <1>3, <1>6, <1>9, <1>12
    <3> QED  BY <1>6, <3>1, <3>2, <3>3 DEF Shapes
  <2> QED  BY <2>1, <2>2, <2>5, <2>6, <2>7, <2>8, <2>9 DEF StageInv
<1>18. t = s + 1 /\ T = {s, t} /\ Num(s)["SendActivation"] = Num(t)["RecvActivation"]
  BY <1>9 DEF t, T
<1> QED
  BY <1>1, <1>2, <1>9, <1>11, <1>12, <1>13, <1>14, <1>15, <1>16, <1>17, <1>18, ExchangeKeeps

(* The gradient of an activation comes back. *)
LEMMA ExchangeGradKeeps ==
    ASSUME PipeInv, NEW t \in Stages \ {0}, ExchangeGrad(t)
    PROVE  PipeInv'
<1> DEFINE s == t - 1
           n == Num(s)
           r == Num(t)
           c == CallOf(t)
           b == Buf(t)
           m == r["SendGrad"]
           message == inputs[t][b]
           shape == Dim(batch[t])
           v == [of |-> MicroOf(c, m), shape |-> shape]
           T == {s, t}
<1>1. /\ At(t, "SendGrad") /\ At(s, "RecvGrad") /\ Advance(T)
      /\ grad_layer' = [grad_layer EXCEPT ![s] = [of |-> message.grad, shape |-> message.shape]]
      /\ inputs' = [inputs EXCEPT ![t][b] = None]
      /\ drawn' = drawn /\ labels' = labels /\ outputs' = outputs /\ loss' = loss
      /\ fwd_outputs' = fwd_outputs /\ pipe_recv_buf' = pipe_recv_buf
      /\ first_output_send' = first_output_send
      /\ accumulated' = accumulated /\ global_steps' = global_steps /\ first_step' = first_step
  <2>1. {t, t - 1} = {t - 1, t}  OBVIOUS
  <2> QED  BY <2>1 DEF ExchangeGrad, shapes
<1>2. s \in Stages /\ t \in Stages /\ t # 0 /\ s # t /\ s # Last /\ s \in T /\ t \in T /\ t = s + 1
  BY StageFacts
<1>3. "SendGrad" \in Counted /\ "RecvGrad" \in Counted /\ "SendGrad" \in Names /\ "RecvGrad" \in Names
  BY DEF Counted, Names
<1>4. Positions /\ Shapely /\ Exchanged(s, t)  BY <1>2 DEF PipeInv, InStep
<1> HIDE DEF s, T
<1>5. /\ StageInv(s) /\ Buffers(inputs[s]) /\ Buffers(outputs[s])
      /\ CallOf(s) \in Call /\ ~Finished(s) /\ at[s] = "steps"
      /\ Num(s) \in [Counted -> Nat] /\ Num(s)' \in [Counted -> Nat]
      /\ Num(s)' = [Num(s) EXCEPT !["RecvGrad"] = @ + 1]
      /\ Num(s)'["RecvGrad"] = Num(s)["RecvGrad"] + 1
      /\ \A u \in Counted : Num(s)[u] \in Nat /\ (u # "RecvGrad" => Num(s)'[u] = Num(s)[u])
      /\ SamePlace(s) /\ CallOf(s)' = CallOf(s) /\ ~Finished(s)'
      /\ Dim(batch[s])' = Dim(batch[s])
      /\ at'[s] = "steps" /\ batch'[s] = batch[s]
  BY <1>1, <1>2, <1>3, ExecutingFacts
<1>6. /\ StageInv(t) /\ Buffers(inputs[t]) /\ Buffers(outputs[t])
      /\ CallOf(t) \in Call /\ ~Finished(t) /\ at[t] = "steps"
      /\ Num(t) \in [Counted -> Nat] /\ Num(t)' \in [Counted -> Nat]
      /\ Num(t)' = [Num(t) EXCEPT !["SendGrad"] = @ + 1]
      /\ Num(t)'["SendGrad"] = Num(t)["SendGrad"] + 1
      /\ \A u \in Counted : Num(t)[u] \in Nat /\ (u # "SendGrad" => Num(t)'[u] = Num(t)[u])
      /\ SamePlace(t) /\ CallOf(t)' = CallOf(t) /\ ~Finished(t)'
      /\ Dim(batch[t])' = Dim(batch[t])
      /\ at'[t] = "steps" /\ batch'[t] = batch[t]
  BY <1>1, <1>2, <1>3, ExecutingFacts
<1>9. /\ batch[s] = batch[t] /\ n["RecvGrad"] = m /\ CallOf(s) = c /\ Dim(batch[s]) = shape
      /\ m \in Nat /\ c.kind = "train" /\ b = m % BuffersFor(c, t)
      /\ r["RecvActivation"] - m <= BuffersFor(c, t)
      /\ message = [of |-> MicroOf(c, m), shape |-> shape, grad |-> MicroOf(c, m)]
  BY <1>1, <1>2, GradientIsAwaited
<1>10. message = [of |-> MicroOf(c, m), shape |-> shape, grad |-> MicroOf(c, m)]
  BY <1>9
<1>11. /\ OfStages(inputs') /\ \A u \in Stages : Buffers(inputs'[u])
       /\ \A u \in Stages : u # t => inputs'[u] = inputs[u]
       /\ inputs'[t] = [inputs[t] EXCEPT ![b] = None]
  <2>1. OfStages(inputs) /\ \A u \in Stages : Buffers(inputs[u])
    BY <1>4 DEF Shapely
  <2> HIDE DEF b
  <2> QED  BY <1>1, <1>2, <2>1, ChangedBuffers DEF OfStages
<1>12. /\ OfStages(grad_layer') /\ \A u \in Stages : u # s => grad_layer'[u] = grad_layer[u]
       /\ grad_layer'[s] = v
  <2>1. OfStages(grad_layer)  BY <1>4 DEF Shapely
  <2>2. grad_layer' = [grad_layer EXCEPT ![s] = v]  BY <1>1, <1>10
  <2> HIDE DEF v
  <2> QED  BY <1>2, <2>1, <2>2, Changed DEF OfStages
<1>14. OfStages(pipe_recv_buf') /\ OfStages(first_output_send')
  BY <1>1, <1>4 DEF Shapely, OfStages
<1>15. \A u \in Stages : u # s /\ u # t => SameData(u)
  BY <1>1, <1>11, <1>12 DEF SameData
<1>16. StageInv(s)'
  <2>1. Draws(s)'  BY <1>1, <1>2, <1>5, DrawsKept DEF StageInv, Counted
  <2>2. Trains(s)'  BY <1>1, <1>2, <1>5, TrainsKept DEF StageInv, Counted
  <2>3. inputs'[s] = inputs[s]  BY <1>2, <1>11
  <2>4. HasInputs(s)'
    <3>1. /\ InputsOf(s, Num(s)') = InputsOf(s, Num(s))
          /\ First(CallOf(s), s, Num(s)) <= First(CallOf(s), s, Num(s)')
          /\ Num(s)'["BackwardPass"] = Num(s)["BackwardPass"]
      BY <1>5 DEF InputsOf, First, Counted
    <3> QED  BY <1>2, <1>5, <2>3, <3>1, InputsStayed DEF StageInv
  <2>5. NoInputsLeft(s)'
    BY <1>2, <1>5, <2>3, NoInputsStayed DEF StageInv, Counted
  <2>6. HasOutputs(s)'
    BY <1>1, <1>2, <1>5, OutputsStayed DEF StageInv, Counted
  <2>7. HasGrads(s)'
    <3>1. HasGrads(s)  BY <1>5 DEF StageInv
    <3>2. /\ accumulated'[s] = accumulated[s] /\ CallOf(s)' = CallOf(s)
          /\ Num(s)'["BackwardPass"] = Num(s)["BackwardPass"]
          /\ Num(s)'["OptimizerStep"] = Num(s)["OptimizerStep"]
      BY <1>1, <1>5 DEF Counted
    <3>3. Num(s)'["RecvGrad"] - 1 = m  BY <1>5, <1>9
    <3>4. grad_layer'[s].of = MicroOf(CallOf(s)', Num(s)'["RecvGrad"] - 1)
      BY <1>9, <1>12, <3>2, <3>3
    <3> QED  BY <3>1, <3>2, <3>4 DEF HasGrads
  <2>8. Shapes(s)'
    <3>1. Shapes(s)  BY <1>5 DEF StageInv
    <3>2. /\ pipe_recv_buf'[s] = pipe_recv_buf[s] /\ first_output_send'[s] = first_output_send[s]
          /\ Num(s)'["RecvActivation"] = Num(s)["RecvActivation"]
          /\ Num(s)'["SendActivation"] = Num(s)["SendActivation"]
          /\ (Resets(batch[s])' <=> Resets(batch[s]))
      BY <1>1, <1>2, <1>5, SamePlaceFacts DEF Counted
    <3>3. grad_layer'[s].shape = Dim(batch[s])'  BY <1>5, <1>9, <1>12
    <3> QED  BY <1>5, <3>1, <3>2, <3>3 DEF Shapes
  <2> QED  BY <2>1, <2>2, <2>4, <2>5, <2>6, <2>7, <2>8 DEF StageInv
<1>17. StageInv(t)'
  <2> DEFINE in == inputs[t]
  <2>1. Draws(t)'  BY <1>1, <1>2, <1>6, DrawsKept DEF StageInv, Counted
  <2>2. Trains(t)'  BY <1>1, <1>2, <1>6, TrainsKept DEF StageInv, Counted
  <2>3. /\ CallOf(t)' = c /\ Num(t)' = [r EXCEPT !["SendGrad"] = @ + 1]
        /\ Dim(batch[t])' = shape /\ c \in Call /\ r \in [Counted -> Nat] /\ ~Finished(t)
        /\ Buffers(in) /\ KeepsInputs(c, t, r, shape, in) /\ NoOtherInputs(c, t, r, in)
        /\ inputs'[t] = [in EXCEPT ![b] = None]
        /\ b = r["SendGrad"] % BuffersFor(c, t)
        /\ r["RecvActivation"] - r["SendGrad"] <= BuffersFor(c, t)
    BY <1>2, <1>6, <1>9, <1>11 DEF StageInv, HasInputs, NoInputsLeft
  <2>4. HasInputs(t)' /\ NoInputsLeft(t)'
    <3> HIDE DEF v, in, shape, c, r, b
    <3>1. /\ KeepsInputs(c, t, [r EXCEPT !["SendGrad"] = @ + 1], shape, [in EXCEPT ![b] = None])
          /\ NoOtherInputs(c, t, [r EXCEPT !["SendGrad"] = @ + 1], [in EXCEPT ![b] = None])
      BY <1>2, <1>9, <2>3, InputFreed
    <3> QED  BY <2>3, <3>1 DEF HasInputs, NoInputsLeft
  <2>5. HasOutputs(t)'
    BY <1>1, <1>2, <1>6, OutputsStayed DEF StageInv, Counted
  <2>6. grad_layer'[t] = grad_layer[t]  BY <1>2, <1>12
  <2>7. HasGrads(t)'
    BY <1>1, <1>2, <1>6, <2>6, GradsKept DEF StageInv, Counted
  <2>8. Shapes(t)'  BY <1>1, <1>2, <1>6, <2>6, ShapesKept DEF StageInv, Counted
  <2> QED  BY <2>1, <2>2, <2>4, <2>5, <2>7, <2>8 DEF StageInv
<1>18. T = {s, t} /\ Num(s)["RecvGrad"] = Num(t)["SendGrad"]  BY <1>9 DEF T
<1> QED
  BY <1>1, <1>2, <1>9, <1>11, <1>12, <1>14, <1>15, <1>16, <1>17, <1>18, ExchangeKeeps

(* A stage that waits at the barrier has done nothing of its call. *)
LEMMA NothingDone ==
    ASSUME NEW c, NEW s, NEW k, NEW p, NEW where \in {"begin", "barrier"}
    PROVE  Counts(c, where, s, k, p) = [name \in Counted |-> 0]
BY DEF Counts

LEMMA SameExchanges ==
    ASSUME InStep, program' = program, \A t \in Stages : batch'[t] = batch[t] /\ Num(t)' = Num(t)
    PROVE  InStep'
<1> SUFFICES ASSUME NEW s \in Stages \ {Last} PROVE Exchanged(s, s + 1)'
  BY DEF InStep
<1> DEFINE t == s + 1
<1>1. t \in Stages /\ s \in Stages  BY StageFacts
<1>2. Exchanged(s, t)  BY DEF InStep
<1> HIDE DEF t
<1>3. CallOf(s)' = CallOf(s) /\ CallOf(t)' = CallOf(t)  BY <1>1 DEF CallOf
<1>4. Exchanged(s, t)'  BY <1>1, <1>2, <1>3 DEF Exchanged
<1> QED  BY <1>4 DEF t

(* The shapes are reset when the difficulty changes, and it changes with
   the steps only. *)
LEMMA ShapesReset ==
    ASSUME Positions, NEW s \in Stages, Trains(s), ~Finished(s), at[s] = "begin",
           Num(s)["OptimizerStep"] = 0
    PROVE  /\ ShapeChanges(s) <=> Resets(batch[s])
           /\ ~Resets(batch[s]) => batch[s] # 1 /\ Dim(batch[s]) = Dim(batch[s] - 1)
<1> DEFINE b == batch[s]
           c == program[b]
           d == program[b - 1]
<1>1. /\ c \in Call /\ b \in 1 .. Len(program) /\ CallOf(s) = c /\ c.trained \in Nat
  BY CallFactsOf DEF CallOf, Call
<1>2. global_steps[s] = c.trained  BY <1>1 DEF Trains
<1>3. first_step[s] <=> b = 1  BY DEF Trains
<1>4. ShapeChanges(s) <=> Resets(b)  BY <1>2, <1>3 DEF ShapeChanges, Resets
<1>5. ASSUME ~Resets(b) PROVE b # 1 /\ Dim(b) = Dim(b - 1)
  <2>1. b # 1 /\ difficulty[c.trained + 1] = difficulty[c.trained]
    BY <1>5 DEF Resets
  <2>2. b - 1 \in 1 .. Len(program) /\ (b - 1) + 1 = b /\ program \in Programs
    BY <1>1, <2>1, ProgramFacts DEF Positions
  <2>3. Follows(d, c) /\ d \in Call  BY <1>1, <2>2, ProgramFacts
  <2>4. d.trained \in Nat  BY <2>3 DEF Call
  <2> HIDE DEF b, c, d
  <2>5. c.trained = d.trained + 1 \/ c.trained = d.trained  BY <2>3 DEF Follows
  <2>6. difficulty[c.trained + 1] = difficulty[d.trained + 1]
    BY <2>1, <2>4, <2>5
  <2> QED  BY <2>1, <2>6 DEF Dim, c, d
<1> QED  BY <1>4, <1>5

(* A stage begins a call. *)
LEMMA BeginBatchKeeps ==
    ASSUME PipeInv, NEW s \in Stages, BeginBatch(s)
    PROVE  PipeInv'
<1> DEFINE c == CallOf(s)
           n == Num(s)
           zero == [name \in Counted |-> 0]
<1>1. /\ ~Finished(s) /\ at[s] = "begin"
      /\ at' = [at EXCEPT ![s] = IF Kind(s) = "eval" THEN "barrier" ELSE "steps"]
      /\ first_step' = [first_step EXCEPT
                           ![s] = first_step[s] /\ ~(global_steps[s] = 0 \/ first_step[s])]
      /\ fwd_outputs' = IF s = Last THEN << >> ELSE fwd_outputs
      /\ program' = program /\ difficulty' = difficulty /\ batch' = batch
      /\ step' = step /\ pc' = pc /\ drawn' = drawn /\ inputs' = inputs /\ labels' = labels
      /\ outputs' = outputs /\ loss' = loss /\ accumulated' = accumulated
      /\ global_steps' = global_steps
  BY DEF BeginBatch, setup
<1>2. /\ ShapeChanges(s) => /\ first_output_send' = [first_output_send EXCEPT ![s] = TRUE]
                            /\ pipe_recv_buf' = [pipe_recv_buf EXCEPT ![s] = 0]
                            /\ grad_layer' = [grad_layer EXCEPT ![s] = None]
      /\ ~ShapeChanges(s) => /\ first_output_send' = first_output_send
                             /\ pipe_recv_buf' = pipe_recv_buf /\ grad_layer' = grad_layer
  BY DEF BeginBatch, shapes
<1>3. Positions /\ Shapely /\ InStep /\ Losses /\ StageInv(s)  BY DEF PipeInv
<1>4. c \in Call /\ Kind(s) = c.kind /\ step[s] = 0 /\ pc[s] = 1
  BY <1>1, <1>3, CallFactsOf DEF Positions
<1>5. /\ OfStages(at') /\ \A t \in Stages : t # s => at'[t] = at[t]
      /\ at'[s] = "barrier" \/ at'[s] = "steps"
  <2> DEFINE w == IF Kind(s) = "eval" THEN "barrier" ELSE "steps"
  <2>1. OfStages(at) /\ at' = [at EXCEPT ![s] = w]  BY <1>1, <1>3 DEF Shapely
  <2>2. w = "barrier" \/ w = "steps"  OBVIOUS
  <2> HIDE DEF w
  <2>3. OfStages(at') /\ at'[s] = w /\ \A t \in Stages : t # s => at'[t] = at[t]
    BY <2>1, Changed DEF OfStages
  <2> QED  BY <2>2, <2>3
<1>6. /\ OfStages(first_step') /\ \A t \in Stages : t # s => first_step'[t] = first_step[t]
      /\ ~first_step'[s]
  <2> DEFINE w == first_step[s] /\ ~(global_steps[s] = 0 \/ first_step[s])
  <2>1. OfStages(first_step) /\ first_step' = [first_step EXCEPT ![s] = w]
    BY <1>1, <1>3 DEF Shapely
  <2>2. ~w  OBVIOUS
  <2> HIDE DEF w
  <2>3. OfStages(first_step') /\ first_step'[s] = w
        /\ \A t \in Stages : t # s => first_step'[t] = first_step[t]
    BY <2>1, Changed DEF OfStages
  <2> QED  BY <2>2, <2>3
<1>7. /\ OfStages(first_output_send') /\ OfStages(pipe_recv_buf') /\ OfStages(grad_layer')
      /\ \A t \in Stages : t # s => /\ first_output_send'[t] = first_output_send[t]
                                    /\ pipe_recv_buf'[t] = pipe_recv_buf[t]
                                    /\ grad_layer'[t] = grad_layer[t]
      /\ ShapeChanges(s) => /\ first_output_send'[s] = TRUE
                            /\ pipe_recv_buf'[s] = 0 /\ grad_layer'[s] = None
      /\ ~ShapeChanges(s) => /\ first_output_send'[s] = first_output_send[s]
                             /\ pipe_recv_buf'[s] = pipe_recv_buf[s]
                             /\ grad_layer'[s] = grad_layer[s]
  <2>1. OfStages(first_output_send) /\ OfStages(pipe_recv_buf) /\ OfStages(grad_layer)
    BY <1>3 DEF Shapely
  <2>2. CASE ShapeChanges(s)
    <3>1. /\ OfStages(first_output_send') /\ first_output_send'[s] = TRUE
          /\ \A t \in Stages : t # s => first_output_send'[t] = first_output_send[t]
      BY <1>2, <2>1, <2>2, Changed DEF OfStages
    <3>2. /\ OfStages(pipe_recv_buf') /\ pipe_recv_buf'[s] = 0
          /\ \A t \in Stages : t # s => pipe_recv_buf'[t] = pipe_recv_buf[t]
      BY <1>2, <2>1, <2>2, Changed DEF OfStages
    <3>3. /\ OfStages(grad_layer') /\ grad_layer'[s] = None
          /\ \A t \in Stages : t # s => grad_layer'[t] = grad_layer[t]
      BY <1>2, <2>1, <2>2, Changed DEF OfStages
    <3> QED  BY <2>2, <3>1, <3>2, <3>3
  <2>3. CASE ~ShapeChanges(s)  BY <1>2, <2>1, <2>3 DEF OfStages
  <2> QED  BY <2>2, <2>3
<1>8. \A t \in Stages : CallOf(t)' = CallOf(t) /\ (Finished(t)' <=> Finished(t))
  BY <1>1 DEF CallOf, Finished
<1>9. n = zero /\ Num(s)' = zero
  <2>1. n = Counts(c, "begin", s, 0, 1)  BY <1>1, <1>4 DEF Num
  <2>2. Num(s)' = Counts(c, at'[s], s, 0, 1)  BY <1>1, <1>4, <1>8 DEF Num
  <2> HIDE DEF n, c
  <2>3. Counts(c, "begin", s, 0, 1) = zero /\ Counts(c, "barrier", s, 0, 1) = zero
    BY NothingDone
  <2>4. Counts(c, "steps", s, 0, 1) = zero  BY <1>4, CountsOfBegin
  <2> QED  BY <1>5, <2>1, <2>2, <2>3, <2>4
<1>10. \A t \in Stages : t # s => SamePlace(t) /\ SameData(t) /\ Num(t)' = Num(t)
  BY <1>1, <1>5, <1>6, <1>7, <1>8 DEF SamePlace, SameData, Num
<1>11. Positions'
  <2>1. 0 \in 0 .. StepsOf(c) - 1  BY <1>4, CallFacts
  <2>2. CommandsOf(c, s, 0) \in Seq(Instructions)
    BY <1>4, CommandsOrdered DEF Ordered
  <2>3. 1 \in 1 .. Len(CommandsOf(c, s, 0)) + 1  BY <2>2
  <2>4. ASSUME NEW t \in Stages
        PROVE /\ batch'[t] \in 1 .. Len(program) + 1
              /\ at'[t] \in {"begin", "barrier", "steps", "end"}
              /\ Finished(t) => at'[t] = "begin"
              /\ at'[t] # "steps" => step'[t] = 0 /\ pc'[t] = 1
              /\ at'[t] = "steps" => /\ step'[t] \in 0 .. StepsOf(CallOf(t)) - 1
                                     /\ pc'[t] \in 1 .. Len(CommandsOf(CallOf(t), t, step'[t])) + 1
    <3>1. CASE t = s  BY <1>1, <1>3, <1>4, <1>5, <2>1, <2>3, <3>1 DEF Positions
    <3>2. CASE t # s  BY <1>1, <1>3, <1>5, <3>2 DEF Positions
    <3> QED  BY <3>1, <3>2
  <2> QED  BY <1>1, <1>3, <1>8, <2>4 DEF Positions
<1>12. Shapely'
  <2>1. /\ OfStages(at)' /\ OfStages(first_step)' /\ OfStages(first_output_send)'
        /\ OfStages(pipe_recv_buf)' /\ OfStages(grad_layer)'
    BY <1>5, <1>6, <1>7 DEF OfStages
  <2>2. /\ OfStages(batch)' /\ OfStages(step)' /\ OfStages(pc)' /\ OfStages(drawn)'
        /\ OfStages(inputs)' /\ OfStages(labels)' /\ OfStages(outputs)'
        /\ OfStages(accumulated)' /\ OfStages(global_steps)'
    BY <1>1, <1>3 DEF Shapely, OfStages
  <2>3. \A t \in Stages : /\ drawn'[t] = [k \in Kinds |-> drawn'[t][k]]
                          /\ Buffers(labels[t])' /\ Buffers(outputs[t])' /\ Buffers(inputs[t])'
    BY <1>1, <1>3 DEF Shapely
  <2> QED  BY <2>1, <2>2, <2>3 DEF Shapely
<1>13. InStep'
  <2>1. \A t \in Stages : batch'[t] = batch[t] /\ Num(t)' = Num(t)
    BY <1>1, <1>9, <1>10
  <2> QED  BY <1>1, <1>3, <2>1, SameExchanges
<1>14. Losses'
  <2>1. CASE s = Last
    <3>1. Num(Last)'["ForwardPass"] = 0 /\ Num(Last)'["LoadMicroBatch"] = 0
      BY <1>9, <2>1 DEF Counted
    <3>2. fwd_outputs' = << >> /\ \A f : [i \in 1 .. 0 |-> f[i]] = << >>
      BY <1>1, <2>1
    <3>3. fwd_outputs' = [i \in 1 .. 0 |-> LossOf(CallOf(Last)', i - 1)]
      BY <3>2
    <3>4. ~(0 > 0)  OBVIOUS
    <3> QED  BY <3>1, <3>3, <3>4 DEF Losses
  <2>2. CASE s # Last  BY <1>1, <1>3, <1>10, <2>2, StageFacts, LossesKept
  <2> QED  BY <2>1, <2>2
<1>15. StageInv(s)'
  <2>1. /\ Num(s)' = Num(s) /\ CallOf(s)' = CallOf(s) /\ (Finished(s)' <=> Finished(s))
        /\ batch'[s] = batch[s] /\ Dim(batch[s])' = Dim(batch[s])
    BY <1>1, <1>8, <1>9 DEF Dim
  <2>2. Draws(s)'  BY <1>1, <1>3, <2>1 DEF StageInv, Draws
  <2>3. Trains(s)'
    <3>1. global_steps[s] = CallOf(s).trained + Num(s)["OptimizerStep"]
      BY <1>1, <1>3 DEF StageInv, Trains
    <3> QED  BY <1>1, <1>5, <1>6, <2>1, <3>1 DEF Trains
  <2>4. HasInputs(s)' /\ NoInputsLeft(s)' /\ HasOutputs(s)'
    BY <1>1, <1>3, <2>1 DEF StageInv, HasInputs, NoInputsLeft, HasOutputs
  <2>5. HasGrads(s)'
    <3>1. ~(Num(s)'["RecvGrad"] > 0)  BY <1>9 DEF Counted
    <3>2. accumulated'[s] = IF Num(s)["OptimizerStep"] = 0
                        THEN [i \in 1 .. Num(s)["BackwardPass"] |-> Gradient(CallOf(s), i - 1)]
                        ELSE << >>
      BY <1>1, <1>3 DEF StageInv, HasGrads
    <3> QED  BY <2>1, <3>1, <3>2 DEF HasGrads
  <2>6. Shapes(s)'
    <3>1. /\ ShapeChanges(s) <=> Resets(batch[s])
          /\ ~Resets(batch[s]) => batch[s] # 1 /\ Dim(batch[s]) = Dim(batch[s] - 1)
      <4>1. Num(s)["OptimizerStep"] = 0  BY <1>9 DEF Counted
      <4> QED  BY <1>1, <1>3, <4>1, ShapesReset DEF StageInv
    <3>2. Resets(batch[s])' <=> Resets(batch[s])  BY <1>1 DEF Resets
    <3>3. Num(s)'["RecvActivation"] = 0 /\ Num(s)'["SendActivation"] = 0
      BY <1>9 DEF Counted
    <3>4. at'[s] # "begin"  BY <1>5
    <3>5. Shapes(s)  BY <1>3 DEF StageInv
    <3>6. CASE Resets(batch[s])
      BY <1>7, <2>1, <3>1, <3>2, <3>3, <3>4, <3>6 DEF Shapes
    <3>7. CASE ~Resets(batch[s])
      <4>1. /\ s # 0 => pipe_recv_buf[s] = Dim(batch[s])
            /\ s # Last => ~first_output_send[s]
            /\ grad_layer[s] # None => grad_layer[s].shape = Dim(batch[s])
        BY <1>1, <3>1, <3>5, <3>7 DEF Shapes
      <4> QED  BY <1>7, <2>1, <3>1, <3>2, <3>3, <3>4, <3>7, <4>1 DEF Shapes
    <3> QED  BY <3>6, <3>7
  <2> QED  BY <2>2, <2>3, <2>4, <2>5, <2>6 DEF StageInv
<1>16. \A t \in Stages : StageInv(t)'
  <2> TAKE t \in Stages
  <2>1. t # s => StageInv(t)'  BY <1>10, StageKept DEF PipeInv
  <2> QED  BY <1>15, <2>1
<1> QED  BY <1>11, <1>12, <1>13, <1>14, <1>16 DEF PipeInv

(* Without inputs, outputs or gradients of a call, nothing is asked. *)
LEMMA NothingKept ==
    ASSUME NEW c, NEW s \in Stages, NEW shape, NEW in, NEW out
    PROVE  LET zero == [name \in Counted |-> 0]
           IN  (c \in Call => KeepsInputs(c, s, zero, shape, in) /\ KeepsOutputs(c, s, zero, shape, out))
<1> DEFINE zero == [name \in Counted |-> 0]
<1>1. zero["LoadMicroBatch"] = 0 /\ zero["RecvActivation"] = 0 /\ zero["ForwardPass"] = 0
  BY DEF Counted
<1>2. InputsOf(s, zero) = 0  BY <1>1 DEF InputsOf
<1> HIDE DEF zero
<1>3. ASSUME c \in Call PROVE KeepsInputs(c, s, zero, shape, in) /\ KeepsOutputs(c, s, zero, shape, out)
  <2>1. c.micro \in Nat  BY <1>3, CallFacts
  <2>2. \A m \in 0 .. c.micro - 1 : ~(m < 0)  BY <2>1
  <2> QED  BY <1>1, <1>2, <2>2 DEF KeepsInputs, KeepsOutputs
<1> QED  BY <1>3 DEF zero

(* At the start nothing was done. *)
LEMMA InitKeeps == Init => PipeInv
<1> SUFFICES ASSUME Init PROVE PipeInv  OBVIOUS
<1> DEFINE zero == [name \in Counted |-> 0]
<1>1. /\ program \in Programs /\ Len(program) \in Nat
      /\ batch = [s \in Stages |-> 1] /\ at = [s \in Stages |-> "begin"]
      /\ step = [s \in Stages |-> 0] /\ pc = [s \in Stages |-> 1]
      /\ drawn = [s \in Stages |-> [k \in Kinds |-> 0]]
      /\ inputs = [s \in Stages |-> [b \in BufferIds |-> None]]
      /\ labels = [s \in Stages |-> [b \in BufferIds |-> None]]
      /\ outputs = [s \in Stages |-> [b \in BufferIds |-> None]]
      /\ pipe_recv_buf = [s \in Stages |-> 0] /\ grad_layer = [s \in Stages |-> None]
      /\ first_output_send = [s \in Stages |-> TRUE]
      /\ accumulated = [s \in Stages |-> << >>]
      /\ global_steps = [s \in Stages |-> 0] /\ first_step = [s \in Stages |-> TRUE]
  BY ProgramFacts DEF Init
<1>2. \A s \in Stages : Num(s) = zero  BY <1>1, NothingDone DEF Num
<1>3. /\ zero["LoadMicroBatch"] = 0 /\ zero["RecvActivation"] = 0 /\ zero["ForwardPass"] = 0
      /\ zero["SendActivation"] = 0 /\ zero["SendGrad"] = 0 /\ zero["RecvGrad"] = 0
      /\ zero["BackwardPass"] = 0 /\ zero["OptimizerStep"] = 0
  BY DEF Counted
<1> HIDE DEF zero
<1>4. Positions
  <2>1. 1 \in 1 .. Len(program) + 1  BY <1>1
  <2> QED  BY <1>1, <2>1 DEF Positions
<1>5. Shapely
  <2>1. \A s \in Stages : Buffers([b \in BufferIds |-> None])  BY DEF Buffers
  <2>2. \A s \in Stages : Buffers(inputs[s]) /\ Buffers(labels[s]) /\ Buffers(outputs[s])
    BY <1>1, <2>1
  <2>3. \A s \in Stages : drawn[s] = [k \in Kinds |-> drawn[s][k]]  BY <1>1
  <2>4. /\ OfStages(batch) /\ OfStages(at) /\ OfStages(step) /\ OfStages(pc) /\ OfStages(drawn)
        /\ OfStages(inputs) /\ OfStages(labels) /\ OfStages(outputs) /\ OfStages(pipe_recv_buf)
        /\ OfStages(grad_layer) /\ OfStages(first_output_send) /\ OfStages(accumulated)
        /\ OfStages(global_steps) /\ OfStages(first_step)
    BY <1>1 DEF OfStages
  <2> QED  BY <2>2, <2>3, <2>4 DEF Shapely
<1>6. InStep
  <2> SUFFICES ASSUME NEW s \in Stages \ {Last} PROVE Exchanged(s, s + 1)
    BY DEF InStep
  <2>1. s + 1 \in Stages /\ s \in Stages  BY StageFacts
  <2> QED  BY <1>1, <1>2, <1>3, <2>1 DEF Exchanged
<1>7. Losses
  <2>1. Num(Last) = zero /\ at[Last] = "begin"  BY <1>1, <1>2, StageFacts
  <2>2. ~(0 > 0)  OBVIOUS
  <2> QED  BY <1>3, <2>1, <2>2 DEF Losses
<1>8. ASSUME NEW s \in Stages PROVE StageInv(s)
  <2>1. ~Finished(s) => CallOf(s) = program[1] /\ CallOf(s) \in Call /\ IsFirst(CallOf(s))
    <3>1. ~Finished(s) => 1 \in 1 .. Len(program) /\ batch[s] = 1
      BY <1>1 DEF Finished
    <3> QED  BY <1>1, <3>1, ProgramFacts DEF CallOf
  <2>2. Num(s) = zero /\ batch[s] = 1 /\ at[s] = "begin"  BY <1>1, <1>2
  <2>3. Draws(s)  BY <1>1, <1>3, <2>1, <2>2 DEF Draws, IsFirst
  <2>4. Trains(s)  BY <1>1, <1>3, <2>1, <2>2 DEF Trains, IsFirst
  <2>5. HasInputs(s) /\ HasOutputs(s)
    BY <2>1, <2>2, NothingKept DEF HasInputs, HasOutputs, zero
  <2>6. NoInputsLeft(s)  BY <1>1 DEF NoInputsLeft, NoOtherInputs
  <2>7. HasGrads(s)
    <3>1. accumulated[s] = << >> /\ ~(0 > 0)  BY <1>1
    <3>2. [i \in 1 .. 0 |-> Gradient(CallOf(s), i - 1)] = << >>  OBVIOUS
    <3> QED  BY <1>3, <2>2, <3>1, <3>2 DEF HasGrads
  <2>8. Shapes(s)  BY <1>1, <2>2 DEF Shapes
  <2> QED  BY <2>3, <2>4, <2>5, <2>6, <2>7, <2>8 DEF StageInv
<1> QED  BY <1>4, <1>5, <1>6, <1>7, <1>8 DEF PipeInv

(* A stage ends a call: everything was done, and nothing is of the next
   one. *)
LEMMA EndBatchKeeps ==
    ASSUME PipeInv, NEW s \in Stages, EndBatch(s)
    PROVE  PipeInv'
<1> DEFINE c == CallOf(s)
           n == Num(s)
           zero == [name \in Counted |-> 0]
<1>1. /\ ~Finished(s) /\ at[s] = "end"
      /\ batch' = [batch EXCEPT ![s] = batch[s] + 1] /\ at' = [at EXCEPT ![s] = "begin"]
      /\ program' = program /\ difficulty' = difficulty
      /\ step' = step /\ pc' = pc /\ drawn' = drawn /\ inputs' = inputs /\ labels' = labels
      /\ outputs' = outputs /\ loss' = loss /\ fwd_outputs' = fwd_outputs
      /\ pipe_recv_buf' = pipe_recv_buf /\ first_output_send' = first_output_send
      /\ grad_layer' = grad_layer /\ accumulated' = accumulated
      /\ global_steps' = global_steps /\ first_step' = first_step
  BY DEF EndBatch, setup, buffers, shapes
<1>2. Positions /\ Shapely /\ InStep /\ Losses /\ StageInv(s)  BY DEF PipeInv
<1>3. /\ c \in Call /\ step[s] = 0 /\ pc[s] = 1 /\ batch[s] \in 1 .. Len(program)
      /\ c = program[batch[s]] /\ program \in Programs
  BY <1>1, <1>2, CallFactsOf DEF Positions, CallOf
<1>4. /\ Len(program) \in Nat /\ batch[s] \in Nat /\ batch[s] >= 1
      /\ c.micro \in Nat /\ c.micro > 0 /\ c.kind \in {"train", "eval"} /\ c.trained \in Nat
  <2>1. Len(program) \in Nat  BY <1>3, ProgramFacts
  <2>2. batch[s] \in Nat /\ batch[s] >= 1  BY <1>3, <2>1
  <2>3. c \in Call  BY <1>3
  <2> HIDE DEF c
  <2>4. /\ c.micro \in Nat /\ c.micro > 0 /\ c.kind \in {"train", "eval"} /\ c.trained \in Nat
    BY <2>3, CallFacts DEF Call
  <2> QED  BY <2>1, <2>2, <2>4
<1>5. /\ OfStages(at') /\ at'[s] = "begin" /\ \A t \in Stages : t # s => at'[t] = at[t]
  BY <1>1, <1>2, Changed DEF Shapely, OfStages
<1>6. /\ OfStages(batch') /\ batch'[s] = batch[s] + 1
      /\ \A t \in Stages : t # s => batch'[t] = batch[t]
  BY <1>1, <1>2, Changed DEF Shapely, OfStages
<1>7. n = [name \in Counted |-> IF Does(s, name) THEN Total(c, name) ELSE 0]
  <2>1. n = Counts(c, "end", s, 0, 1)  BY <1>1, <1>3 DEF Num
  <2> HIDE DEF n, c
  <2> QED  BY <2>1 DEF Counts
<1>8. Num(s)' = zero
  <2>1. Num(s)' = Counts(CallOf(s)', "begin", s, 0, 1)
    BY <1>1, <1>3, <1>5 DEF Num
  <2> QED  BY <2>1, NothingDone
<1>9. /\ zero["LoadMicroBatch"] = 0 /\ zero["RecvActivation"] = 0 /\ zero["ForwardPass"] = 0
      /\ zero["SendActivation"] = 0 /\ zero["SendGrad"] = 0 /\ zero["RecvGrad"] = 0
      /\ zero["BackwardPass"] = 0 /\ zero["OptimizerStep"] = 0
  BY DEF Counted
<1> HIDE DEF zero, n
<1>10. /\ s \in {0, Last} => n["LoadMicroBatch"] = c.micro
       /\ n["ForwardPass"] = c.micro /\ n["BackwardPass"] = Gradients(c)
       /\ n["OptimizerStep"] = IF c.kind = "train" THEN 1 ELSE 0
       /\ s # 0 => n["RecvActivation"] = c.micro /\ n["SendGrad"] = Gradients(c)
       /\ s # Last => n["SendActivation"] = c.micro /\ n["RecvGrad"] = Gradients(c)
  <2>1. \A name \in Counted : Does(s, name) => n[name] = Total(c, name)
    BY <1>7
  <2>2. /\ Does(s, "ForwardPass") /\ Does(s, "BackwardPass") /\ Does(s, "OptimizerStep")
        /\ s \in {0, Last} => Does(s, "LoadMicroBatch")
        /\ s # 0 => Does(s, "RecvActivation") /\ Does(s, "SendGrad")
        /\ s # Last => Does(s, "SendActivation") /\ Does(s, "RecvGrad")
    BY DoesWhat
  <2> HIDE DEF c
  <2> QED  BY <2>1, <2>2 DEF Total, Counted, Count
<1>11. \A t \in Stages : t # s => SamePlace(t) /\ SameData(t) /\ Num(t)' = Num(t) /\ CallOf(t)' = CallOf(t)
  BY <1>1, <1>5, <1>6 DEF SamePlace, SameData, Num, CallOf
<1>12. ~Finished(s)' => /\ CallOf(s)' \in Call /\ Follows(c, CallOf(s)')
                        /\ CallOf(s)' = program[batch[s] + 1]
  <2>1. ~Finished(s)' => batch[s] + 1 \in 1 .. Len(program)
    BY <1>1, <1>4, <1>6 DEF Finished
  <2>2. CallOf(s)' = program[batch[s] + 1]  BY <1>1, <1>6 DEF CallOf
  <2> QED  BY <1>3, <2>1, <2>2, ProgramFacts
<1>13. Positions'
  <2>1. batch[s] + 1 \in 1 .. Len(program) + 1  BY <1>3, <1>4
  <2>2. ASSUME NEW t \in Stages
        PROVE /\ batch'[t] \in 1 .. Len(program) + 1
              /\ at'[t] \in {"begin", "barrier", "steps", "end"}
              /\ Finished(t)' => at'[t] = "begin"
              /\ at'[t] # "steps" => step'[t] = 0 /\ pc'[t] = 1
              /\ at'[t] = "steps" => /\ step'[t] \in 0 .. StepsOf(CallOf(t)') - 1
                                     /\ pc'[t] \in 1 .. Len(CommandsOf(CallOf(t)', t, step'[t])) + 1
    <3>1. CASE t = s  BY <1>1, <1>3, <1>5, <1>6, <2>1, <3>1
    <3>2. CASE t # s
      <4>1. Finished(t)' <=> Finished(t)  BY <1>1, <1>6, <3>2 DEF Finished
      <4> QED  BY <1>1, <1>2, <1>5, <1>6, <1>11, <3>2, <4>1 DEF Positions
    <3> QED  BY <3>1, <3>2
  <2> QED  BY <1>1, <1>3, <2>2 DEF Positions
<1>14. Shapely'
  <2>1. OfStages(at)' /\ OfStages(batch)'  BY <1>5, <1>6 DEF OfStages
  <2>2. /\ OfStages(step)' /\ OfStages(pc)' /\ OfStages(drawn)'
        /\ OfStages(inputs)' /\ OfStages(labels)' /\ OfStages(outputs)'
        /\ OfStages(first_step)' /\ OfStages(first_output_send)'
        /\ OfStages(pipe_recv_buf)' /\ OfStages(grad_layer)'
        /\ OfStages(accumulated)' /\ OfStages(global_steps)'
    BY <1>1, <1>2 DEF Shapely, OfStages
  <2>3. \A t \in Stages : /\ drawn'[t] = [k \in Kinds |-> drawn'[t][k]]
                          /\ Buffers(labels[t])' /\ Buffers(outputs[t])' /\ Buffers(inputs[t])'
    BY <1>1, <1>2 DEF Shapely
  <2> QED  BY <2>1, <2>2, <2>3 DEF Shapely
<1>15. InStep'
  <2> SUFFICES ASSUME NEW u \in Stages \ {Last} PROVE Exchanged(u, u + 1)'
    BY DEF InStep
  <2> DEFINE w == u + 1
  <2>1. u \in Stages /\ w \in Stages /\ u # w /\ w # 0 /\ u # Last
    BY StageFacts
  <2>2. Exchanged(u, w)  BY <1>2 DEF InStep
  <2>3. \A t \in Stages : batch[t] \in Nat  BY <1>2, <1>4 DEF Positions
  <2> HIDE DEF w
  <2>4. CASE u # s /\ w # s
    <3>1. Exchanged(u, w)'  BY <1>11, <2>1, <2>2, <2>4, ExchangedKept
    <3> QED  BY <3>1 DEF w
  <2>5. CASE u = s
    <3>1. /\ batch'[u] = batch[u] + 1 /\ batch'[w] = batch[w]
          /\ Num(u)' = zero /\ Num(w)' = Num(w) /\ CallOf(w)' = CallOf(w)
      BY <1>6, <1>8, <1>11, <2>1, <2>5
    <3>2. Num(u)["SendActivation"] = c.micro /\ Num(u)["RecvGrad"] = Gradients(c) /\ CallOf(u) = c
      BY <1>10, <2>1, <2>5 DEF n
    <3>3. c.micro # 0  BY <1>4
    <3>4. CASE batch[u] = batch[w]
      <4>1. CallOf(w) = c  BY <2>5, <3>4 DEF CallOf
      <4>2. batch[u] # batch[w] + 1 /\ batch[w] # batch[u] + 1
        BY <2>1, <2>3, <3>4
      <4>3. Num(w)["RecvActivation"] = c.micro /\ Num(w)["SendGrad"] = Gradients(c)
        BY <2>2, <3>2, <4>2 DEF Exchanged
      <4>4. Exchanged(u, w)'  BY <1>9, <3>1, <3>4, <4>1, <4>3 DEF Exchanged
      <4> QED  BY <4>4 DEF w
    <3>5. CASE batch[u] # batch[w]
      <4>1. batch[w] = batch[u] + 1 /\ Num(w)["RecvActivation"] = 0 /\ Num(w)["SendGrad"] = 0
        BY <2>2, <3>2, <3>3, <3>5 DEF Exchanged
      <4>2. Exchanged(u, w)'  BY <1>9, <3>1, <4>1 DEF Exchanged
      <4> QED  BY <4>2 DEF w
    <3> QED  BY <3>4, <3>5
  <2>6. CASE w = s
    <3>1. /\ batch'[w] = batch[w] + 1 /\ batch'[u] = batch[u]
          /\ Num(w)' = zero /\ Num(u)' = Num(u) /\ CallOf(u)' = CallOf(u)
      BY <1>6, <1>8, <1>11, <2>1, <2>6
    <3>2. Num(w)["RecvActivation"] = c.micro /\ Num(w)["SendGrad"] = Gradients(c) /\ CallOf(w) = c
      BY <1>10, <2>1, <2>6 DEF n
    <3>3. c.micro # 0  BY <1>4
    <3>4. CASE batch[u] = batch[w]
      <4>1. CallOf(u) = c  BY <2>6, <3>4 DEF CallOf
      <4>2. batch[u] # batch[w] + 1 /\ batch[w] # batch[u] + 1
        BY <2>1, <2>3, <3>4
      <4>3. Num(u)["SendActivation"] = c.micro /\ Num(u)["RecvGrad"] = Gradients(c)
        BY <2>2, <3>2, <4>2 DEF Exchanged
      <4>4. Exchanged(u, w)'  BY <1>9, <3>1, <3>4, <4>1, <4>3 DEF Exchanged
      <4> QED  BY <4>4 DEF w
    <3>5. CASE batch[u] # batch[w]
      <4>1. batch[u] = batch[w] + 1 /\ Num(u)["SendActivation"] = 0 /\ Num(u)["RecvGrad"] = 0
        BY <2>2, <3>2, <3>3, <3>5 DEF Exchanged
      <4>2. Exchanged(u, w)'  BY <1>9, <3>1, <4>1 DEF Exchanged
      <4> QED  BY <4>2 DEF w
    <3> QED  BY <3>4, <3>5
  <2> QED  BY <2>4, <2>5, <2>6
<1>16. Losses'
  <2>1. CASE s = Last
    <3>1. Num(Last)' = zero /\ at'[Last] = "begin" /\ ~(0 > 0)
      BY <1>5, <1>8, <2>1
    <3> QED  BY <1>9, <3>1 DEF Losses
  <2>2. CASE s # Last  BY <1>1, <1>2, <1>11, <2>2, StageFacts, LossesKept
  <2> QED  BY <2>1, <2>2
<1>17. StageInv(s)'
  <2>1. Draws(s)'
    <3>1. SUFFICES ASSUME s \in {0, Last}, ~Finished(s)', NEW k \in Kinds
          PROVE  drawn[s][k] = CallOf(s)'.drawn[k] + 0
      BY <1>1, <1>8, <1>9 DEF Draws
    <3>2. drawn[s][k] = c.drawn[k] + (IF k = c.kind THEN c.micro ELSE 0)
      BY <1>1, <1>2, <1>10, <3>1 DEF StageInv, Draws, n
    <3>3. CallOf(s)'.drawn = [c.drawn EXCEPT ![c.kind] = c.drawn[c.kind] + c.micro]
      BY <1>12, <3>1 DEF Follows
    <3>4. c.drawn \in [Kinds -> Nat] /\ c.kind \in Kinds  BY <1>3 DEF Call
    <3> DEFINE d == CallOf(s)'.drawn
               e == c.drawn
               x == c.kind
    <3>5. d = [e EXCEPT ![x] = e[x] + c.micro] /\ e \in [Kinds -> Nat] /\ x \in Kinds
      BY <3>3, <3>4
    <3> HIDE DEF d, e, x
    <3>6. d[k] = (IF k = x THEN e[k] + c.micro ELSE e[k]) /\ e[k] \in Nat
      BY <3>5
    <3>7. d[k] = e[k] + (IF k = x THEN c.micro ELSE 0) /\ d[k] + 0 = d[k]
      BY <1>4, <3>6
    <3> QED  BY <3>2, <3>7 DEF d, e, x
  <2>2. Trains(s)'
    <3>1. ~first_step[s] /\ global_steps[s] = c.trained + n["OptimizerStep"]
      BY <1>1, <1>2 DEF StageInv, Trains, n
    <3>2. batch[s] + 1 # 1  BY <1>4
    <3>3. ~Finished(s)' => global_steps[s] = CallOf(s)'.trained + 0
      <4>1. ~Finished(s)' => CallOf(s)'.trained = IF c.kind = "train" THEN c.trained + 1 ELSE c.trained
        BY <1>12 DEF Follows
      <4> QED  BY <1>4, <1>10, <3>1, <4>1
    <3> QED  BY <1>1, <1>6, <1>8, <1>9, <3>1, <3>2, <3>3 DEF Trains
  <2>3. HasInputs(s)' /\ HasOutputs(s)'
    <3> DEFINE d == CallOf(s)'
               shape == Dim(batch[s])'
               in == inputs'[s]
               out == outputs'[s]
    <3>1. ~Finished(s)' => d \in Call  BY <1>12
    <3>2. Num(s)' = zero  BY <1>8
    <3> HIDE DEF d, shape, in, out
    <3>3. ~Finished(s)' => KeepsInputs(d, s, zero, shape, in) /\ KeepsOutputs(d, s, zero, shape, out)
      BY <3>1, NothingKept DEF zero
    <3> QED  BY <3>2, <3>3 DEF HasInputs, HasOutputs, d, shape, in, out
  <2>4. NoInputsLeft(s)'
    <3>1. SUFFICES ASSUME s # 0, NEW b \in BufferIds
          PROVE  inputs[s][b] = None \/ inputs[s][b].of.from = "eval"
      BY <1>1 DEF NoInputsLeft, NoOtherInputs
    <3>2. NoOtherInputs(c, s, n, inputs[s])
      BY <1>2, <3>1 DEF StageInv, NoInputsLeft, n
    <3>3. c.kind = "train" => ~\E m \in Nat : n["SendGrad"] <= m /\ m < n["RecvActivation"]
      BY <1>4, <1>10, <3>1 DEF Gradients
    <3> QED  BY <3>2, <3>3 DEF NoOtherInputs
  <2>5. HasGrads(s)'
    <3>1. accumulated[s] = << >>
      <4>1. accumulated[s] = IF n["OptimizerStep"] = 0
                        THEN [i \in 1 .. n["BackwardPass"] |-> Gradient(c, i - 1)] ELSE << >>
        BY <1>2 DEF StageInv, HasGrads, n
      <4>2. n["OptimizerStep"] = 0 => n["BackwardPass"] = 0
        BY <1>4, <1>10 DEF Gradients
      <4>3. [i \in 1 .. 0 |-> Gradient(c, i - 1)] = << >>  OBVIOUS
      <4> QED  BY <4>1, <4>2, <4>3
    <3>2. [i \in 1 .. 0 |-> Gradient(CallOf(s)', i - 1)] = << >> /\ ~(0 > 0)
      OBVIOUS
    <3> QED  BY <1>1, <1>8, <1>9, <3>1, <3>2 DEF HasGrads
  <2>6. Shapes(s)'
    <3>1. Shapes(s)  BY <1>2 DEF StageInv
    <3>2. c.micro # 0 /\ batch[s] + 1 # 1 /\ (batch[s] + 1) - 1 = batch[s]
      BY <1>4
    <3>3. /\ s # 0 => pipe_recv_buf[s] = Dim(batch[s])
          /\ s # Last => ~first_output_send[s]
          /\ grad_layer[s] # None => grad_layer[s].shape = Dim(batch[s])
      BY <1>1, <1>10, <3>1, <3>2 DEF Shapes, n
    <3>4. Dim(batch[s] - 1)' = Dim(batch[s])  BY <1>1, <1>6, <3>2 DEF Dim
    <3> QED  BY <1>1, <1>5, <1>6, <3>2, <3>3, <3>4 DEF Shapes
  <2> QED  BY <2>1, <2>2, <2>3, <2>4, <2>5, <2>6 DEF StageInv
<1>18. \A t \in Stages : StageInv(t)'
  <2> TAKE t \in Stages
  <2>1. t # s => StageInv(t)'  BY <1>11, StageKept DEF PipeInv
  <2> QED  BY <1>17, <2>1
<1> QED  BY <1>13, <1>14, <1>15, <1>16, <1>18 DEF PipeInv

LEMMA StutterKeeps ==
    ASSUME PipeInv, UNCHANGED vars
    PROVE  PipeInv'
<1>1. /\ program' = program /\ difficulty' = difficulty /\ batch' = batch /\ at' = at
      /\ step' = step /\ pc' = pc /\ UNCHANGED data
  BY DEF vars, setup, control, data
<1>2. \A t \in Stages : SamePlace(t) /\ Num(t)' = Num(t)
  BY <1>1 DEF SamePlace, Num, CallOf
<1>3. Positions' /\ OfStages(batch)' /\ OfStages(at)' /\ OfStages(step)' /\ OfStages(pc)'
  <2>1. OfStages(batch) /\ OfStages(at) /\ OfStages(step) /\ OfStages(pc) /\ Positions
    BY DEF PipeInv, Shapely
  <2>2. Positions'  BY <1>1, <2>1 DEF Positions, CallOf, Finished
  <2> QED  BY <1>1, <2>1, <2>2 DEF OfStages
<1> QED  BY <1>1, <1>2, <1>3, OnlyPlaces

(* Every step keeps the invariant. *)
LEMMA PipeInvKept == PipeInv /\ [Next]_vars => PipeInv'
<1> SUFFICES ASSUME PipeInv, [Next]_vars PROVE PipeInv'  OBVIOUS
<1>1. ASSUME NEW s \in Stages, StageNext(s) PROVE PipeInv'
  <2>1. CASE BeginBatch(s)  BY <2>1, BeginBatchKeeps
  <2>2. CASE PassBarrier(s)  BY <2>2, PassBarrierKeeps
  <2>3. CASE EndStep(s)  BY <2>3, EndStepKeeps
  <2>4. CASE EndBatch(s)  BY <2>4, EndBatchKeeps
  <2>5. CASE ReduceTiedGrads(s)  BY <2>5, ReducesKeep
  <2>6. CASE ReduceGrads(s)  BY <2>6, ReducesKeep
  <2>7. CASE OptimizerStep(s)  BY <2>7, OptimizerStepKeeps
  <2>8. CASE LoadMicroBatch(s)  BY <2>8, LoadMicroBatchKeeps
  <2>9. CASE ForwardPass(s)  BY <2>9, ForwardPassKeeps
  <2>10. CASE BackwardPass(s)  BY <2>10, BackwardPassKeeps
  <2> QED
    BY <1>1, <2>1, <2>2, <2>3, <2>4, <2>5, <2>6, <2>7, <2>8, <2>9, <2>10 DEF StageNext
<1>2. ASSUME NEW s \in Stages \ {Last}, ExchangeActivation(s) PROVE PipeInv'
  BY <1>2, ExchangeActivationKeeps
<1>3. ASSUME NEW s \in Stages \ {0}, ExchangeGrad(s) PROVE PipeInv'
  BY <1>3, ExchangeGradKeeps
<1>4. CASE UNCHANGED vars  BY <1>4, StutterKeeps
<1> QED  BY <1>1, <1>2, <1>3, <1>4 DEF Next

LEMMA PipeInvHolds == Spec => []PipeInv
BY InitKeeps, PipeInvKept, PTL DEF Spec

(* The invariant implies the properties: a stage at its optimizer step has
   done all backward passes of the batch; *)
LEMMA StepHasWholeBatch ==
    ASSUME PipeInv, NEW s \in Stages, At(s, "OptimizerStep")
    PROVE  accumulated[s] = [i \in 1 .. M(s) |->
                                [output |-> Wanted(s)[i], grad |-> Wanted(s)[i]]]
<1> DEFINE c == CallOf(s)
           n == Num(s)
<1>1. Positions /\ "OptimizerStep" \in Names /\ "OptimizerStep" \in Counted /\ StageInv(s)
  BY DEF PipeInv, Names, Counted
<1>2. n["BackwardPass"] = c.micro /\ n["OptimizerStep"] = 0
  <2> DEFINE k == step[s]
             p == pc[s]
  <2>1. /\ c \in Call /\ k \in 0 .. StepsOf(c) - 1 /\ p \in 1 .. Len(CommandsOf(c, s, k))
        /\ n = Counts(c, "steps", s, k, p) /\ CommandsOf(c, s, k)[p].name = "OptimizerStep"
    BY <1>1, AtInstruction
  <2> HIDE DEF c, k, p, n
  <2> QED  BY <2>1, AtOptimizerStep
<1>3. accumulated[s] = [i \in 1 .. c.micro |-> Gradient(c, i - 1)]
  BY <1>1, <1>2 DEF StageInv, HasGrads
<1>4. c \in Call /\ M(s) = c.micro /\ Kind(s) = c.kind /\ ~Finished(s)
  BY <1>1, AtInstruction, CallFactsOf
<1>5. c.micro \in Nat /\ c.drawn[c.kind] \in Nat  BY <1>4, CallFacts DEF Call
<1>6. Wanted(s) = [i \in 1 .. c.micro |-> [from |-> c.kind, at |-> c.drawn[c.kind] + i - 1]]
  BY <1>4 DEF Wanted, MicroBatchesFrom, CallOf
<1>7. \A i \in 1 .. c.micro : Gradient(c, i - 1) = [output |-> Wanted(s)[i], grad |-> Wanted(s)[i]]
  <2> TAKE i \in 1 .. c.micro
  <2>1. c.drawn[c.kind] + (i - 1) = c.drawn[c.kind] + i - 1  BY <1>5
  <2>2. MicroOf(c, i - 1) = Wanted(s)[i]  BY <1>6, <2>1 DEF MicroOf
  <2> QED  BY <2>2 DEF Gradient
<1> HIDE DEF c
<1> QED  BY <1>3, <1>4, <1>7

(* the last stage at the end of a call has the losses of all its micro
   batches; *)
LEMMA LossesAreWhole ==
    ASSUME PipeInv, ~Finished(Last), at[Last] = "end"
    PROVE  fwd_outputs = [i \in 1 .. M(Last) |->
                             [of |-> Wanted(Last)[i], label |-> Wanted(Last)[i]]]
<1> DEFINE c == CallOf(Last)
           n == Num(Last)
<1>1. Positions /\ Losses /\ Last \in Stages  BY StageFacts DEF PipeInv
<1>2. c \in Call /\ M(Last) = c.micro /\ Kind(Last) = c.kind
  BY <1>1, CallFactsOf
<1>3. n["ForwardPass"] = c.micro
  <2>1. Does(Last, "ForwardPass") /\ "ForwardPass" \in Counted
    BY <1>1, DoesWhat DEF Counted
  <2> QED  BY <2>1 DEF Num, Counts, Total
<1>4. fwd_outputs = [i \in 1 .. c.micro |-> LossOf(c, i - 1)]
  BY <1>1, <1>3 DEF Losses
<1>5. c.micro \in Nat /\ c.drawn[c.kind] \in Nat  BY <1>2, CallFacts DEF Call
<1>6. Wanted(Last) = [i \in 1 .. c.micro |-> [from |-> c.kind, at |-> c.drawn[c.kind] + i - 1]]
  BY <1>2 DEF Wanted, MicroBatchesFrom, CallOf
<1>7. \A i \in 1 .. c.micro : LossOf(c, i - 1) = [of |-> Wanted(Last)[i], label |-> Wanted(Last)[i]]
  <2> TAKE i \in 1 .. c.micro
  <2>1. c.drawn[c.kind] + (i - 1) = c.drawn[c.kind] + i - 1  BY <1>5
  <2>2. MicroOf(c, i - 1) = Wanted(Last)[i]  BY <1>6, <2>1 DEF MicroOf
  <2> QED  BY <2>2 DEF LossOf
<1> HIDE DEF c
<1> QED  BY <1>2, <1>4, <1>7

(* a stage that takes an input has a free buffer; *)
LEMMA InputIsFree ==
    ASSUME PipeInv, NEW s \in Stages \ {0}, At(s, "RecvActivation")
    PROVE  inputs[s][Buf(s)] = None \/ inputs[s][Buf(s)].of.from = "eval"
<1> DEFINE c == CallOf(s)
           n == Num(s)
           b == Buf(s)
           r == n["RecvActivation"]
           g == n["SendGrad"]
<1>1. Positions /\ "RecvActivation" \in Names /\ "RecvActivation" \in Counted
      /\ "SendGrad" \in Counted /\ s \in Stages
  BY DEF PipeInv, Names, Counted
<1>2. /\ c \in Call /\ NoOtherInputs(c, s, n, inputs[s]) /\ r \in Nat /\ g \in Nat
  BY <1>1, MeetingFacts DEF StageInv, NoInputsLeft
<1>3. b = r % BuffersFor(c, s) /\ r - First(c, s, n) < BuffersFor(c, s)
  <2> DEFINE k == step[s]
             p == pc[s]
  <2>1. /\ c \in Call /\ k \in 0 .. StepsOf(c) - 1 /\ p \in 1 .. Len(CommandsOf(c, s, k))
        /\ n = Counts(c, "steps", s, k, p) /\ b = CommandsOf(c, s, k)[p].buffer
        /\ CommandsOf(c, s, k)[p].name = "RecvActivation"
    BY <1>1, AtInstruction
  <2> HIDE DEF c, k, p, n, b
  <2> QED  BY <1>1, <2>1, AtInput DEF r, InputFits
<1> HIDE DEF c, b, n
<1>4. b = PlaceIn(c, s, r) /\ b \in BufferIds
  BY <1>2, <1>3, PlacesAreBuffers DEF PlaceIn
<1>5. ~(c.kind = "train" /\ \E m \in Nat : g <= m /\ m < r /\ b = PlaceIn(c, s, m))
  <2> SUFFICES ASSUME c.kind = "train", NEW m \in Nat, g <= m, m < r, b = PlaceIn(c, s, m)
               PROVE  FALSE
    OBVIOUS
  <2>1. r - g < BuffersFor(c, s) /\ BuffersFor(c, s) \in Nat
    BY <1>2, <1>3, BufferBound DEF First
  <2>2. r - m < BuffersFor(c, s)  BY <1>2, <2>1
  <2> HIDE DEF r
  <2> QED  BY <1>2, <1>4, <2>2, PlacesDiffer
<1>6. inputs[s][b] = None \/ inputs[s][b].of.from = "eval"
  BY <1>2, <1>4, <1>5 DEF NoOtherInputs
<1> QED  BY <1>6 DEF b

(* and two neighbours that exchange an activation or a gradient have the
   same shape in mind. *)
LEMMA ActivationSizes ==
    ASSUME PipeInv, NEW s \in Stages \ {Last}, At(s, "SendActivation"), At(s + 1, "RecvActivation")
    PROVE  pipe_recv_buf[s + 1] =
               IF first_output_send[s] THEN 0 ELSE outputs[s][Buf(s)].shape
<1> DEFINE t == s + 1
<1>1. t \in Stages /\ s \in Stages /\ t # 0 /\ s # Last
      /\ "SendActivation" \in Counted /\ "RecvActivation" \in Counted
  BY StageFacts DEF Counted
<1>2. t = s + 1 /\ At(s, "SendActivation") /\ At(t, "RecvActivation")  OBVIOUS
<1> HIDE DEF t
<1>2a. /\ Num(t)["RecvActivation"] = Num(s)["SendActivation"]
       /\ batch[s] = batch[t] /\ Dim(batch[t]) = Dim(batch[s])
       /\ outputs[s][Buf(s)] = [of |-> MicroOf(CallOf(s), Num(s)["SendActivation"]),
                                shape |-> Dim(batch[s])]
  BY <1>1, <1>2, ActivationIsAwaited
<1>2b. outputs[s][Buf(s)].shape = Dim(batch[s])  BY <1>2a
<1>3. /\ at[s] = "steps" /\ at[t] = "steps" /\ Shapes(s) /\ Shapes(t)
  BY <1>1, MeetingFacts DEF StageInv, t
<1>4. pipe_recv_buf[t] = IF first_output_send[s] THEN 0 ELSE outputs[s][Buf(s)].shape
  <2>1. first_output_send[s] <=> Resets(batch[s]) /\ Num(s)["SendActivation"] = 0
    BY <1>1, <1>3 DEF Shapes
  <2>2. pipe_recv_buf[t] =
            IF Resets(batch[t]) /\ Num(t)["RecvActivation"] = 0 THEN 0 ELSE Dim(batch[t])
    BY <1>1, <1>3 DEF Shapes
  <2> QED  BY <1>2a, <1>2b, <2>1, <2>2
<1> QED  BY <1>4 DEF t

LEMMA GradientSizes ==
    ASSUME PipeInv, NEW t \in Stages \ {0}, At(t, "SendGrad"), At(t - 1, "RecvGrad"),
           grad_layer[t - 1] # None
    PROVE  grad_layer[t - 1].shape = inputs[t][Buf(t)].shape
<1> DEFINE s == t - 1
<1>1. t \in Stages /\ s \in Stages /\ t = s + 1 /\ "RecvGrad" \in Counted
  BY StageFacts DEF Counted
<1>2. At(s, "RecvGrad") /\ At(t, "SendGrad") /\ grad_layer[s] # None  OBVIOUS
<1>3. SUFFICES grad_layer[s].shape = inputs[t][Buf(t)].shape  OBVIOUS
<1> HIDE DEF s
<1>4. /\ Dim(batch[s]) = Dim(batch[t])
      /\ inputs[t][Buf(t)] = [of |-> MicroOf(CallOf(t), Num(t)["SendGrad"]), shape |-> Dim(batch[t]),
                              grad |-> MicroOf(CallOf(t), Num(t)["SendGrad"])]
  BY <1>1, <1>2, GradientIsAwaited
<1>5. inputs[t][Buf(t)].shape = Dim(batch[s])  BY <1>4
<1>6. at[s] = "steps" /\ Shapes(s)  BY <1>1, <1>2, MeetingFacts DEF StageInv
<1>7. grad_layer[s].shape = Dim(batch[s])  BY <1>2, <1>6 DEF Shapes
<1> QED  BY <1>5, <1>7

(* With any number of stages, any sequence of calls of train_batch and
   eval_batch and any interleaving of the stages, a stage that takes an
   optimizer step has accumulated the gradients of every micro batch of
   this batch, once and in order, each computed from the output and the
   output gradient of the same micro batch; and a call ends with the loss
   of every micro batch, computed from the label of the same micro batch
   (_exec_schedule and the _exec_ handlers of pipe/engine.py over the
   buffers of pipe/schedule.py). *)
THEOREM BatchesAreWholeTheorem == Spec => []BatchesAreWhole
<1>1. PipeInv => BatchesAreWhole
  BY StepHasWholeBatch, LossesAreWhole DEF BatchesAreWhole
<1> QED  BY <1>1, PipeInvHolds, PTL

(* No stage receives or loads an input into a buffer whose input of
   training it has not sent the gradient of: num_pipe_buffers is enough
   for the schedule, however the stages interleave. *)
THEOREM InputsAreKeptTheorem == Spec => []InputsAreNotOverwritten
<1>1. PipeInv => InputsAreNotOverwritten
  BY InputIsFree DEF InputsAreNotOverwritten
<1> QED  BY <1>1, PipeInvHolds, PTL

(* Two neighbours that exchange an activation or a gradient agree on its
   shape, also in the first batches after the difficulty of a curriculum
   has changed: the receiver's buffer is renewed whenever the shape is
   (reset_activation_shape of pipe/engine.py). *)
THEOREM SizesAgreeTheorem == Spec => []SizesAgree
<1>1. PipeInv => SizesAgree  BY ActivationSizes, GradientSizes DEF SizesAgree
<1> QED
  BY <1>1, PipeInvHolds, PTL
=============================================================================
