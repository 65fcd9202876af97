------------------------ MODULE AgentProtocolProofs ------------------------
(***************************************************************************)
(* Proofs about AgentProtocol, for every number of machines, every timing  *)
(* and every bound: type correctness, and, from the inductive invariants,  *)
(* that no running agent is restarted, that no agent votes while the root  *)
(* agent runs, that training is restarted once for a failure, that a       *)
(* failure is noticed in time, and that a warm-up ends.                    *)
(***************************************************************************)
EXTENDS AgentProtocol, FiniteSetTheorems, TLAPS

USE DEF Missing

(* The records every process starts from have their types. *)
LEMMA NoProcessType ==
    /\ NoAgent \in AgentState
    /\ NoRoot \in RootState
    /\ MachineRanks \subseteq Nat
    /\ 0 \in MachineRanks
BY AgentAssumption DEF NoAgent, AgentState, AgentStages, NoRoot, RootState, RootStages,
                       MachineRanks

(* The constants are numbers. *)
LEMMA Numbers ==
    /\ Timer \in Nat /\ PollPeriod \in Nat /\ HeartbeatPeriod \in Nat /\ Grace \in Nat
    /\ StartDelay \in Nat /\ CheckDelay \in Nat /\ Machines \in Nat \ {0}
    /\ HeartbeatPeriod > 0 /\ PollPeriod > 0
BY AgentAssumption

(* Starting a root agent gives a root state. *)
LEMMA RunRootAgentType ==
    ASSUME TypeOK, NEW m \in MachineRanks, NEW b \in BOOLEAN, RunRootAgent(m, b)
    PROVE  root' \in [Roots -> RootState]
<1>1. [NoRoot EXCEPT !.stage = "starting", !.machine = m, !.initMode = b, !.wake = now]
        \in RootState
  BY NoProcessType DEF TypeOK, RootState, RootStages, NoRoot
<1> QED BY <1>1 DEF TypeOK, RunRootAgent

(* A recovery keeps the type of the agents and of the launches. *)
LEMMA FailureRecoveryType ==
    ASSUME TypeOK, NEW failed, FailureRecovery(failed)
    PROVE  /\ agent' \in [Agents -> AgentState]
           /\ launches' \in Nat
<1>1. [NoAgent EXCEPT !.stage = "restarted", !.wake = now] \in AgentState
  BY NoProcessType DEF TypeOK, AgentState, AgentStages, NoAgent
<1> QED BY <1>1 DEF TypeOK, FailureRecovery

(* Every step of a worker agent keeps the types. *)
LEMMA AgentStepType ==
    ASSUME TypeOK, NEW a \in Agents, AgentStep(a)
    PROVE  TypeOK'
<1> USE Numbers
<1>0. a[1] \in MachineRanks /\ a \in DOMAIN agent /\ agent[a] \in AgentState /\ now \in Nat
  BY DEF TypeOK, Agents
<1>1. CASE AgentStarts(a)
  <2>1. agent' \in [Agents -> AgentState]
    BY <1>0, <1>1 DEF AgentStarts, TypeOK, AgentState, AgentStages
  <2> QED BY <1>0, <1>1, <2>1 DEF AgentStarts, TypeOK
<1>2. CASE AgentCounts(a)
  <2>1. agent' \in [Agents -> AgentState]
    <3>1. \/ agent' = [agent EXCEPT ![a].stage = "checking", ![a].wake = now]
          \/ agent' = [agent EXCEPT ![a].wake = now + PollPeriod]
      BY <1>2 DEF AgentCounts
    <3> QED BY <1>0, <3>1 DEF TypeOK, AgentState, AgentStages
  <2>2. root' \in [Roots -> RootState]
    BY <1>0, <1>2, RunRootAgentType DEF AgentCounts, TypeOK
  <2> QED BY <1>2, <2>1, <2>2 DEF AgentCounts, TypeOK, etcd
<1>3. CASE AgentIsUp(a)
  <2>1. agent' \in [Agents -> AgentState]
    BY <1>0, <1>3 DEF AgentIsUp, TypeOK, AgentState, AgentStages
  <2> QED BY <1>3, <2>1 DEF AgentIsUp, TypeOK, etcd
<1>4. CASE AgentBeats(a)
  <2>1. agent' \in [Agents -> AgentState]
    BY <1>0, <1>4 DEF AgentBeats, TypeOK, AgentState, AgentStages
  <2>2. agent[a].beats + 1 \in Nat  BY <1>0 DEF AgentState
  <2>3. heartbeat' \in [MachineRanks -> Nat \cup {Missing}]
    BY <1>0, <1>4, <2>2 DEF AgentBeats, TypeOK
  <2> QED BY <1>4, <2>1, <2>3 DEF AgentBeats, TypeOK
<1>5. CASE AgentWatches(a)
  <2>1. agent' \in [Agents -> AgentState]
    BY <1>0, <1>5 DEF AgentWatches, TypeOK, AgentState, AgentStages
  <2>2. votes' \subseteq MachineRanks  BY <1>0, <1>5 DEF AgentWatches, TypeOK
  <2> QED BY <1>5, <2>1, <2>2 DEF AgentWatches, TypeOK
<1>6. CASE AgentElects(a)
  <2>1. agent' \in [Agents -> AgentState]
    <3>1. \/ agent' = [agent EXCEPT ![a].stage = "blind"]
          \/ agent' = [agent EXCEPT ![a].stage = "watching", ![a].seen = Missing,
                                    ![a].wake = now + Timer]
      BY <1>6 DEF AgentElects
    <3> QED BY <1>0, <3>1 DEF TypeOK, AgentState, AgentStages
  <2>2. root' \in [Roots -> RootState]
    BY <1>0, <1>6, RunRootAgentType DEF AgentElects, TypeOK
  <2> QED BY <1>6, <2>1, <2>2 DEF AgentElects, TypeOK, etcd
<1> QED BY <1>1, <1>2, <1>3, <1>4, <1>5, <1>6 DEF AgentStep

(* Every step of a root agent keeps the types. *)
LEMMA RootStepType ==
    ASSUME TypeOK, NEW r \in Roots, RootStep(r)
    PROVE  TypeOK'
<1> USE Numbers
<1>0. r \in DOMAIN root /\ root[r] \in RootState /\ now \in Nat  BY DEF TypeOK
<1>1. CASE RootStarts(r)
  <2>1. root' \in [Roots -> RootState]
    BY SMTT(60), <1>0, <1>1 DEF RootStarts, TypeOK, RootState, RootStages, FirstBeatAfter
  <2> QED BY <1>1, <2>1 DEF RootStarts, TypeOK
<1>2. CASE RootBeats(r)
  <2>1. root' \in [Roots -> RootState]
    BY <1>0, <1>2 DEF RootBeats, TypeOK, RootState, RootStages
  <2>2. rootHeart' \in Nat  BY <1>0, <1>2 DEF RootBeats, RootState
  <2> QED BY <1>2, <2>1, <2>2 DEF RootBeats, TypeOK
<1>3. CASE RootInitPhase(r)
  <2> DEFINE next == [root[r] EXCEPT !.stage = "settling", !.wake = now + 2 * Timer]
  <2>1. next \in RootState /\ Recovering(next) \in RootState
    <3>1. now + 2 * Timer \in Nat  BY <1>0
    <3>2. next \in RootState  BY <1>0, <3>1 DEF RootState, RootStages
    <3> HIDE DEF next
    <3> QED BY <1>0, <3>2 DEF RootState, Recovering
  <2>2. root' = [root EXCEPT ![r] = next] \/ root' = [root EXCEPT ![r] = Recovering(next)]
    BY <1>3 DEF RootInitPhase
  <2>3. root' \in [Roots -> RootState]  BY <2>1, <2>2 DEF TypeOK
  <2>4. agent' \in [Agents -> AgentState] /\ launches' \in Nat
    BY <1>3, FailureRecoveryType DEF RootInitPhase, TypeOK
  <2>5. rootHeart' \in Nat \cup {Missing}  BY <1>3 DEF RootInitPhase, TypeOK
  <2> QED BY <1>3, <2>3, <2>4, <2>5 DEF RootInitPhase, TypeOK
<1>4. CASE RootForgetsVotes(r)
  <2>1. root' \in [Roots -> RootState]
    BY SMTT(60), <1>0, <1>4 DEF RootForgetsVotes, TypeOK, RootState, RootStages
  <2> QED BY <1>4, <2>1 DEF RootForgetsVotes, TypeOK
<1>5. CASE RootReceives(r)
  <2> DEFINE next == [root[r] EXCEPT !.wake = now + Timer, !.counters = Remembered(r)]
  <2>1. next \in RootState
    <3>1. now + Timer \in Nat /\ Remembered(r) \in [MachineRanks -> Nat \cup {Missing}]
      BY <1>0 DEF Remembered, TypeOK
    <3> QED BY <1>0, <3>1 DEF RootState
  <2>2. /\ [root[r] EXCEPT !.wake = now + Timer] \in RootState
        /\ [next EXCEPT !.warmup = FALSE, !.faulty = 0,
                        !.since = IF root[r].warmup THEN now ELSE @] \in RootState
        /\ [next EXCEPT !.faulty = @ + 1] \in RootState
        /\ Recovering([next EXCEPT !.faulty = 0]) \in RootState
    <3> HIDE DEF next
    <3>1. [root[r] EXCEPT !.wake = now + Timer] \in RootState
      BY <1>0 DEF RootState
    <3>2. [next EXCEPT !.warmup = FALSE, !.faulty = 0,
                       !.since = IF root[r].warmup THEN now ELSE @] \in RootState
      BY <1>0, <2>1 DEF RootState
    <3>3. [next EXCEPT !.faulty = @ + 1] \in RootState  BY <2>1 DEF RootState
    <3>4. Recovering([next EXCEPT !.faulty = 0]) \in RootState
      BY <1>0, <2>1 DEF RootState, Recovering
    <3> QED BY <3>1, <3>2, <3>3, <3>4
  <2>3. \/ root' = [root EXCEPT ![r].wake = now + Timer]
        \/ root' = [root EXCEPT ![r] = [next EXCEPT !.warmup = FALSE, !.faulty = 0,
                        !.since = IF root[r].warmup THEN now ELSE @]]
        \/ root' = [root EXCEPT ![r] = next]
        \/ root' = [root EXCEPT ![r] = [next EXCEPT !.faulty = @ + 1]]
        \/ root' = [root EXCEPT ![r] = Recovering([next EXCEPT !.faulty = 0])]
    BY <1>5 DEF RootReceives
  <2>4. root' \in [Roots -> RootState]
    <3> HIDE DEF next
    <3> QED BY <2>1, <2>2, <2>3 DEF TypeOK
  <2>5. agent' \in [Agents -> AgentState] /\ launches' \in Nat
    BY <1>5, FailureRecoveryType DEF RootReceives, TypeOK
  <2> QED BY <1>5, <2>4, <2>5 DEF RootReceives, TypeOK, etcd
<1> QED BY <1>1, <1>2, <1>3, <1>4, <1>5 DEF RootStep

(* So does a failure. *)
LEMMA FailureType ==
    ASSUME TypeOK,
           \/ \E a \in Agents : AgentFails(a)
           \/ \E r \in Roots : RootFails(r)
           \/ \E m \in MachineRanks : MachineFails(m)
    PROVE  TypeOK'
<1>0. now \in Nat /\ rootLoss \in [at : Nat, votes : SUBSET MachineRanks]
      /\ [at |-> now, votes |-> votes] \in [at : Nat, votes : SUBSET MachineRanks]
  BY DEF TypeOK
<1>1. ASSUME NEW a \in Agents, AgentFails(a) PROVE TypeOK'
  <2>1. agent' \in [Agents -> AgentState]
    BY <1>1, NoProcessType DEF AgentFails, TypeOK
  <2>2. downSince' \in [MachineRanks -> Nat]
    BY <1>0, <1>1 DEF AgentFails, TypeOK, Down
  <2> QED BY <1>1, <2>1, <2>2 DEF AgentFails, TypeOK, etcd
<1>2. ASSUME NEW r \in Roots, RootFails(r) PROVE TypeOK'
  <2>1. root' \in [Roots -> RootState]
    BY <1>2, NoProcessType DEF RootFails, TypeOK
  <2>2. rootLoss' \in [at : Nat, votes : SUBSET MachineRanks]
    <3>1. rootLoss' = rootLoss \/ rootLoss' = [at |-> now, votes |-> votes]
      BY <1>2 DEF RootFails, Loss
    <3> QED BY <1>0, <3>1
  <2>3. faults' \in Nat /\ UNCHANGED <<now, votes, heartbeat, rootHeart, agent, up,
                                       launches, downSince>>
    BY <1>2 DEF RootFails, TypeOK, etcd
  <2> QED BY <2>1, <2>2, <2>3 DEF TypeOK
<1>3. ASSUME NEW m \in MachineRanks, MachineFails(m) PROVE TypeOK'
  <2>1. agent' \in [Agents -> AgentState]
    BY <1>3, NoProcessType DEF MachineFails, TypeOK
  <2>2. root' \in [Roots -> RootState]
    BY <1>3, NoProcessType DEF MachineFails, TypeOK
  <2>3. downSince' \in [MachineRanks -> Nat]
    BY <1>0, <1>3 DEF MachineFails, TypeOK
  <2>4. rootLoss' \in [at : Nat, votes : SUBSET MachineRanks]
    BY <1>0, <1>3 DEF MachineFails, Loss
  <2> QED BY <1>3, <2>1, <2>2, <2>3, <2>4 DEF MachineFails, TypeOK, etcd
<1> QED BY <1>1, <1>2, <1>3

LEMMA AgentTypeInit ==
    ASSUME Init
    PROVE  TypeOK
<1>1. [NoAgent EXCEPT !.stage = "launched"] \in AgentState
  BY DEF NoAgent, AgentState, AgentStages
<1>2. agent \in [Agents -> AgentState] /\ root \in [Roots -> RootState]
  BY <1>1, NoProcessType DEF Init
<1> QED BY <1>2 DEF Init, TypeOK

LEMMA AgentTypeStep ==
    ASSUME TypeOK, [Next]_vars
    PROVE  TypeOK'
<1>1. CASE Tick  BY <1>1 DEF Tick, TypeOK, etcd
<1>2. CASE UNCHANGED vars  BY <1>2 DEF vars, etcd, TypeOK
<1> QED BY <1>1, <1>2, AgentStepType, RootStepType, FailureType DEF Next

(* The variables of AgentProtocol always have the types of TypeOK. *)
THEOREM AgentTypeCorrect == Spec => []TypeOK
<1>1. Init => TypeOK  BY AgentTypeInit
<1>2. TypeOK /\ [Next]_vars => TypeOK'  BY AgentTypeStep
<1> QED BY <1>1, <1>2, PTL DEF Spec

----------------------------------------------------------------------------
(* An agent is its machine and its slot; two that run on one machine are
   one. *)
LEMMA OnlyAgent ==
    ASSUME OneAgentPerMachine, NEW a \in Agents, NEW b \in Agents,
           AgentRuns(a), AgentRuns(b), a[1] = b[1]
    PROVE  a = b
<1>1. a = <<a[1], a[2]>> /\ b = <<b[1], b[2]>>
      /\ a[1] \in MachineRanks /\ a[2] \in {0, 1} /\ b[2] \in {0, 1}
  BY DEF Agents
<1>2. a[2] = b[2]  BY <1>1 DEF OneAgentPerMachine
<1> QED BY <1>1, <1>2

(* A step in which no agent starts keeps OneAgentPerMachine. *)
LEMMA NoneStarted ==
    ASSUME OneAgentPerMachine, \A b \in Agents : AgentRuns(b)' => AgentRuns(b)
    PROVE  OneAgentPerMachine'
BY DEF OneAgentPerMachine, Agents

(* The initial state. *)
LEMMA InitInv ==
    ASSUME Init, TypeOK
    PROVE  IInv
<1> USE NoProcessType DEF Init, AgentRuns, RootRuns, RootBeating, Beating, NoAgent, NoRoot
<1>1. \A a \in Agents : /\ agent[a].stage \in {"launched", "off"}
                        /\ agent[a].stage = "launched" => a[2] = 0
                        /\ agent[a].beats = 0 /\ agent[a].misses = 0
                        /\ heartbeat[a[1]] = Missing
  BY DEF Agents
<1>2. OneAgentPerMachine  BY <1>1 DEF OneAgentPerMachine, Agents
<1> QED BY <1>1, <1>2 DEF IInv, OneElection, CountersAreCurrent, ThreadsOnTime,
                          RootHearsAgents, AgentsHearRoot

(* The steps of a worker agent. *)
LEMMA AgentStartsInv ==
    ASSUME TimelyAgents, IInv, NEW a \in Agents, AgentStarts(a), TypeOK'
    PROVE  IInv'
<1> USE DEF AgentRuns, RootRuns, RootBeating, Beating
<1>0. agent[a] \in AgentState /\ now \in Nat  BY DEF IInv, TypeOK
<1>1. /\ \A b \in Agents : b # a => agent'[b] = agent[b]
      /\ agent'[a].stage \in {"counting", "checking"}
      /\ agent'[a].stage = "counting" => agent[a].stage = "launched"
      /\ agent'[a].beats = agent[a].beats /\ agent'[a].misses = agent[a].misses
      /\ agent'[a].seen = agent[a].seen
      /\ agent[a].stage \in {"launched", "restarted"}
      /\ UNCHANGED <<now, heartbeat, rootHeart, root>>
  BY <1>0 DEF AgentStarts, IInv, TypeOK, AgentState
<1>2. OneAgentPerMachine'  BY <1>1, NoneStarted DEF IInv
<1>3. OneElection'  BY <1>1 DEF IInv, OneElection
<1>4. CountersAreCurrent'  BY <1>1 DEF IInv, CountersAreCurrent
<1>5. ThreadsOnTime'  BY <1>1 DEF IInv, ThreadsOnTime
<1>6. RootHearsAgents'  BY <1>1 DEF IInv, RootHearsAgents, CountersAreCurrent
<1>7. AgentsHearRoot'  BY <1>1 DEF IInv, AgentsHearRoot
<1> QED BY <1>2, <1>3, <1>4, <1>5, <1>6, <1>7 DEF IInv

LEMMA AgentIsUpInv ==
    ASSUME TimelyAgents, IInv, NEW a \in Agents, AgentIsUp(a), TypeOK'
    PROVE  IInv'
<1> USE DEF AgentRuns, RootRuns, RootBeating, Beating
<1>0. agent[a] \in AgentState /\ now \in Nat  BY DEF IInv, TypeOK
<1>1. /\ \A b \in Agents : b # a => agent'[b] = agent[b]
      /\ agent[a].stage = "checking" /\ agent'[a].stage = "watching"
      /\ agent'[a].beatAt = now /\ agent'[a].seen = agent[a].seen
      /\ agent'[a].beats = agent[a].beats /\ agent'[a].misses = agent[a].misses
      /\ UNCHANGED <<now, heartbeat, rootHeart, root>>
  BY <1>0 DEF AgentIsUp, IInv, TypeOK, AgentState, etcd
<1>2. OneAgentPerMachine'  BY <1>1, NoneStarted DEF IInv
<1>3. OneElection'  BY <1>1 DEF IInv, OneElection
<1>4. CountersAreCurrent'  BY <1>1 DEF IInv, CountersAreCurrent
<1>5. ThreadsOnTime'  BY <1>0, <1>1, Numbers DEF IInv, ThreadsOnTime
<1>6. RootHearsAgents'  BY <1>1 DEF IInv, RootHearsAgents, CountersAreCurrent
<1>7. AgentsHearRoot'  BY <1>1 DEF IInv, AgentsHearRoot
<1> QED BY <1>2, <1>3, <1>4, <1>5, <1>6, <1>7 DEF IInv

(* The first agent of rank 0 starts the root agent; there was none. *)
LEMMA AgentCountsInv ==
    ASSUME TimelyAgents, IInv, NEW a \in Agents, AgentCounts(a), TypeOK'
    PROVE  IInv'
<1> USE DEF AgentRuns, RootRuns, RootBeating, Beating
<1>0. agent[a] \in AgentState /\ now \in Nat  BY DEF IInv, TypeOK
<1>1. /\ \A b \in Agents : b # a => agent'[b] = agent[b]
      /\ agent[a].stage = "counting" /\ agent'[a].stage \in {"counting", "checking"}
      /\ agent'[a].beats = agent[a].beats /\ agent'[a].misses = agent[a].misses
      /\ agent'[a].seen = agent[a].seen
      /\ UNCHANGED <<now, heartbeat, rootHeart>>
  <2>1. /\ \/ agent' = [agent EXCEPT ![a].stage = "checking", ![a].wake = now]
           \/ agent' = [agent EXCEPT ![a].wake = now + PollPeriod]
        /\ agent[a].stage = "counting"
        /\ UNCHANGED <<now, heartbeat, rootHeart>>
    BY DEF AgentCounts, etcd
  <2> QED BY <1>0, <2>1 DEF IInv, TypeOK, AgentState
<1>2. OneAgentPerMachine'  BY <1>1, NoneStarted DEF IInv
<1>3. CASE UNCHANGED root
  <2>1. OneElection'  BY <1>1, <1>3 DEF IInv, OneElection
  <2>2. CountersAreCurrent'  BY <1>1, <1>3 DEF IInv, CountersAreCurrent
  <2>3. ThreadsOnTime'  BY <1>1, <1>3 DEF IInv, ThreadsOnTime
  <2>4. RootHearsAgents'
    BY <1>1, <1>3 DEF IInv, RootHearsAgents, CountersAreCurrent
  <2>5. AgentsHearRoot'  BY <1>1, <1>3 DEF IInv, AgentsHearRoot
  <2> QED BY <1>2, <2>1, <2>2, <2>3, <2>4, <2>5 DEF IInv
<1>4. CASE ~UNCHANGED root
  <2>1. a[1] = 0 /\ agent'[a].stage = "checking" /\ RunRootAgent(a[1], TRUE)
    <3>1. /\ IsLeader(a, 0) /\ RunRootAgent(a[1], TRUE)
          /\ agent' = [agent EXCEPT ![a].stage = "checking", ![a].wake = now]
      BY <1>4 DEF AgentCounts
    <3> QED BY <1>0, <3>1 DEF IsLeader, IInv, TypeOK, AgentState
  <2>2. \A r \in Roots : root[r].stage = "off"
    BY <1>1, <2>1 DEF IInv, OneElection
  <2>3. PICK l : root' = [root EXCEPT ![l] =
                   [NoRoot EXCEPT !.stage = "starting", !.machine = a[1],
                                  !.initMode = TRUE, !.wake = now]]
    BY <1>4, <2>1 DEF RunRootAgent
  <2>4. \A r \in Roots :
            \/ root'[r] = root[r]
            \/ /\ r = l
               /\ root'[r].stage = "starting" /\ root'[r].initMode
               /\ root'[r].warmup /\ root'[r].beats = 0
    BY <2>3 DEF IInv, TypeOK, NoRoot
  <2>5. \A b \in Agents : b[1] = 0 => agent'[b].stage \notin {"launched", "counting"}
    <3>1. \A b \in Agents : b[1] = 0 /\ b[2] = 0 => b = a
      BY <1>1, <2>1 DEF IInv, OneElection, Agents
    <3> QED BY <1>1, <2>1, <3>1 DEF IInv, OneElection
  <2>6. OneElection'  BY <1>1, <2>1, <2>2, <2>4, <2>5 DEF IInv, OneElection
  <2>7. CountersAreCurrent'
    BY <1>1, <2>1, <2>2, <2>4 DEF IInv, CountersAreCurrent
  <2>8. ThreadsOnTime'  BY <1>1, <2>1, <2>2, <2>4 DEF IInv, ThreadsOnTime
  <2>9. RootHearsAgents'  BY <2>2, <2>4 DEF RootHearsAgents
  <2>10. AgentsHearRoot'  BY <1>1, <2>2 DEF IInv, AgentsHearRoot
  <2> QED BY <1>2, <2>6, <2>7, <2>8, <2>9, <2>10 DEF IInv
<1> QED BY <1>3, <1>4

LEMMA AgentBeatsInv ==
    ASSUME TimelyAgents, IInv, NEW a \in Agents, AgentBeats(a), TypeOK'
    PROVE  IInv'
<1> USE Numbers DEF AgentRuns, RootRuns, RootBeating, Beating
<1>0. /\ \A b \in Agents : agent[b] \in AgentState /\ b[1] \in MachineRanks
      /\ now \in Nat /\ \A r \in Roots : root[r] \in RootState
      /\ \A m \in MachineRanks : heartbeat[m] \in Nat \cup {Missing}
  BY DEF IInv, TypeOK, Agents
<1>1. /\ \A b \in Agents : b # a => agent'[b] = agent[b]
      /\ agent'[a].stage = agent[a].stage /\ Beating(a)
      /\ agent'[a].beats = agent[a].beats + 1 /\ agent'[a].misses = agent[a].misses
      /\ agent'[a].seen = agent[a].seen /\ agent'[a].wake = agent[a].wake
      /\ agent'[a].beatAt = now + HeartbeatPeriod /\ agent[a].beatAt <= now
      /\ heartbeat'[a[1]] = agent[a].beats + 1
      /\ \A m \in MachineRanks : m # a[1] => heartbeat'[m] = heartbeat[m]
      /\ UNCHANGED <<now, rootHeart, root>>
  BY <1>0 DEF AgentBeats, IInv, TypeOK, AgentState
<1>2. \A b \in Agents : b # a /\ AgentRuns(b) => b[1] # a[1]
  BY <1>1, OnlyAgent DEF IInv
<1>3. agent[a].beats \in Nat  BY <1>0 DEF AgentState
<1>4. OneAgentPerMachine'  BY <1>1, NoneStarted DEF IInv
<1>5. OneElection'  BY <1>1 DEF IInv, OneElection
<1>6. CountersAreCurrent'
  BY <1>0, <1>1, <1>2, <1>3 DEF IInv, CountersAreCurrent
<1>7. ThreadsOnTime'  BY <1>0, <1>1 DEF IInv, ThreadsOnTime
<1>8. RootHearsAgents'
  <2> SUFFICES ASSUME NEW r \in Roots, root[r].stage = "rounds", ~root[r].warmup,
                      NEW b \in Agents, agent'[b].stage # "off"
               PROVE  /\ agent'[b].beats > 0
                      /\ agent'[b].beats >= root[r].counters[b[1]]
                      /\ agent'[b].beats = root[r].counters[b[1]] =>
                             agent'[b].beatAt + Timer <= root[r].wake + HeartbeatPeriod
    BY <1>1 DEF RootHearsAgents
  <2>1. root[r].counters[b[1]] \in Int  BY <1>0 DEF RootState
  <2>2. CASE b = a  BY <1>1, <1>3, <2>1, <2>2 DEF IInv, RootHearsAgents
  <2>3. CASE b # a  BY <1>1, <2>3 DEF IInv, RootHearsAgents
  <2> QED BY <2>2, <2>3
<1>9. AgentsHearRoot'  BY <1>1 DEF IInv, AgentsHearRoot
<1> QED BY <1>4, <1>5, <1>6, <1>7, <1>8, <1>9 DEF IInv

(* A root agent that beats is heard: between two looks at its counter it
   beats at least once. *)
LEMMA RootIsHeard ==
    ASSUME TimelyAgents, IInv, NEW a \in Agents, agent[a].stage = "watching",
           now >= agent[a].wake, rootHeart # Missing
    PROVE  rootHeart > agent[a].seen
<1> USE Numbers DEF RootBeating
<1>0. /\ rootHeart \in Nat /\ agent[a].seen \in Nat \cup {Missing}
      /\ agent[a].wake \in Nat /\ now \in Nat
  BY DEF IInv, TypeOK, AgentState
<1>1. CASE agent[a].seen = Missing  BY <1>0, <1>1
<1>2. CASE agent[a].seen # Missing
  <2>1. PICK r \in Roots :
            /\ RootBeating(r)
            /\ agent[a].seen <= root[r].beats
            /\ agent[a].seen = root[r].beats =>
                   root[r].beatAt + Timer <= agent[a].wake + HeartbeatPeriod
    BY <1>2 DEF IInv, AgentsHearRoot
  <2>2. root[r].beats = rootHeart /\ now <= root[r].beatAt /\ root[r].beatAt \in Nat
    BY <2>1 DEF IInv, CountersAreCurrent, ThreadsOnTime, TypeOK, RootState
  <2>3. agent[a].seen # root[r].beats  BY <1>0, <2>1, <2>2 DEF TimelyAgents
  <2> QED BY <1>0, <2>1, <2>2, <2>3
<1> QED BY <1>1, <1>2

LEMMA AgentWatchesInv ==
    ASSUME TimelyAgents, IInv, NEW a \in Agents, AgentWatches(a), TypeOK'
    PROVE  /\ IInv'
           /\ agent'[a].stage # "voting"
<1> USE Numbers DEF AgentRuns, RootRuns, RootBeating, Beating
<1>0. agent[a] \in AgentState /\ now \in Nat /\ \A r \in Roots : root[r] \in RootState
  BY DEF IInv, TypeOK
<1>a. rootHeart # Missing => ~(rootHeart <= agent[a].seen)
  BY <1>0, RootIsHeard DEF AgentWatches, AgentState, IInv, TypeOK
<1>1. /\ \A b \in Agents : b # a => agent'[b] = agent[b]
      /\ agent[a].stage = "watching" /\ agent'[a].stage \in {"watching", "blind"}
      /\ agent'[a].beats = agent[a].beats /\ agent'[a].misses = 0
      /\ agent'[a].beatAt = agent[a].beatAt
      /\ \/ agent'[a].stage = "blind" /\ agent'[a].seen = agent[a].seen
         \/ rootHeart # Missing /\ agent'[a].seen = rootHeart /\ agent'[a].wake = now + Timer
      /\ UNCHANGED <<now, heartbeat, rootHeart, root>>
  BY <1>0, <1>a DEF AgentWatches, IInv, TypeOK, AgentState, OneElection
<1>2. OneAgentPerMachine'  BY <1>1, NoneStarted DEF IInv
<1>3. OneElection'  BY <1>1 DEF IInv, OneElection
<1>4. CountersAreCurrent'  BY <1>1 DEF IInv, CountersAreCurrent
<1>5. ThreadsOnTime'  BY <1>1 DEF IInv, ThreadsOnTime
<1>6. RootHearsAgents'  BY <1>1 DEF IInv, RootHearsAgents
<1>7. AgentsHearRoot'
  <2>1. CASE agent'[a].stage = "blind" /\ agent'[a].seen = agent[a].seen
    BY <1>1, <2>1 DEF IInv, AgentsHearRoot
  <2>2. CASE /\ rootHeart # Missing /\ agent'[a].seen = rootHeart
             /\ agent'[a].wake = now + Timer
    <3>1. PICK r \in Roots : RootBeating(r)
      BY <2>2 DEF IInv, CountersAreCurrent
    <3>2. root[r].beats = rootHeart /\ root[r].beatAt <= now + HeartbeatPeriod
      BY <3>1 DEF IInv, CountersAreCurrent, ThreadsOnTime
    <3>3. root[r].beatAt \in Nat /\ root[r].beats \in Nat
      BY <1>0 DEF RootState
    <3>4. root[r].beatAt + Timer <= agent'[a].wake + HeartbeatPeriod
      BY <1>0, <2>2, <3>2, <3>3
    <3> QED BY <1>1, <2>2, <3>1, <3>2, <3>3, <3>4 DEF IInv, AgentsHearRoot
  <2> QED BY <1>1, <2>1, <2>2
<1> QED BY <1>1, <1>2, <1>3, <1>4, <1>5, <1>6, <1>7 DEF IInv

(* There is no election: nobody votes again. *)
LEMMA AgentElectsNever ==
    ASSUME IInv, NEW a \in Agents
    PROVE  ~AgentElects(a)
BY DEF IInv, OneElection, AgentElects

----------------------------------------------------------------------------
(* The steps of the root agent. *)
LEMMA RootStartsInv ==
    ASSUME TimelyAgents, IInv, NEW r \in Roots, RootStarts(r), TypeOK'
    PROVE  IInv'
<1> USE Numbers DEF AgentRuns, RootRuns, RootBeating, Beating
<1>0. root[r] \in RootState /\ now \in Nat  BY DEF IInv, TypeOK
<1>1. /\ \A q \in Roots : q # r => root'[q] = root[q]
      /\ root[r].stage = "starting" /\ root'[r].stage = "init"
      /\ root'[r].beats = root[r].beats /\ root'[r].beatAt = now
      /\ root'[r].initMode = root[r].initMode /\ root'[r].warmup = root[r].warmup
      /\ rootHeart' = 0
      /\ UNCHANGED <<now, heartbeat, agent>>
  BY <1>0 DEF RootStarts, FirstBeatAfter, IInv, TypeOK, RootState
<1>2. \A q \in Roots : q # r => root[q].stage = "off"
  BY <1>1 DEF IInv, OneElection
<1>3. OneAgentPerMachine'  BY <1>1 DEF IInv, OneAgentPerMachine
<1>4. OneElection'  BY <1>1, <1>2 DEF IInv, OneElection
<1>5. CountersAreCurrent'  BY <1>1, <1>2 DEF IInv, CountersAreCurrent
<1>6. ThreadsOnTime'  BY <1>0, <1>1, <1>2 DEF IInv, ThreadsOnTime
<1>7. RootHearsAgents'  BY <1>1, <1>2 DEF RootHearsAgents
<1>8. AgentsHearRoot'  BY <1>1, <1>2 DEF IInv, AgentsHearRoot
<1> QED BY <1>3, <1>4, <1>5, <1>6, <1>7, <1>8 DEF IInv

LEMMA RootBeatsInv ==
    ASSUME TimelyAgents, IInv, NEW r \in Roots, RootBeats(r), TypeOK'
    PROVE  IInv'
<1> USE Numbers DEF AgentRuns, RootRuns, RootBeating, Beating
<1>0. root[r] \in RootState /\ now \in Nat /\ root[r].beats \in Nat
      /\ \A a \in Agents : agent[a] \in AgentState
  BY DEF IInv, TypeOK, RootState
<1>1. /\ \A q \in Roots : q # r => root'[q] = root[q]
      /\ RootBeating(r) /\ root'[r].stage = root[r].stage
      /\ root'[r].beats = root[r].beats + 1 /\ rootHeart' = root[r].beats + 1
      /\ root'[r].beatAt = now + HeartbeatPeriod
      /\ root'[r].wake = root[r].wake /\ root'[r].counters = root[r].counters
      /\ root'[r].initMode = root[r].initMode /\ root'[r].warmup = root[r].warmup
      /\ UNCHANGED <<now, heartbeat, agent>>
  BY <1>0 DEF RootBeats, IInv, TypeOK, RootState
<1>2. \A q \in Roots : q # r => root[q].stage = "off"
  BY <1>1 DEF IInv, OneElection
<1>3. OneAgentPerMachine'  BY <1>1 DEF IInv, OneAgentPerMachine
<1>4. OneElection'  BY <1>1, <1>2 DEF IInv, OneElection
<1>5. CountersAreCurrent'  BY <1>1, <1>2 DEF IInv, CountersAreCurrent
<1>6. ThreadsOnTime'  BY <1>0, <1>1, <1>2 DEF IInv, ThreadsOnTime
<1>7. RootHearsAgents'  BY <1>1, <1>2 DEF IInv, RootHearsAgents
<1>8. AgentsHearRoot'
  <2> SUFFICES ASSUME NEW a \in Agents, agent[a].seen # Missing
               PROVE  /\ agent[a].stage \in {"watching", "blind"}
                      /\ RootBeating(r)'
                      /\ agent[a].seen < root'[r].beats
    BY <1>0, <1>1 DEF AgentsHearRoot, AgentState
  <2>1. agent[a].stage \in {"watching", "blind"} /\ agent[a].seen <= root[r].beats
    BY <1>2 DEF IInv, AgentsHearRoot
  <2>2. agent[a].seen \in Nat \cup {Missing}  BY <1>0 DEF AgentState
  <2> QED BY <1>0, <1>1, <2>1, <2>2
<1> QED BY <1>3, <1>4, <1>5, <1>6, <1>7, <1>8 DEF IInv

LEMMA RootInitPhaseInv ==
    ASSUME TimelyAgents, IInv, NEW r \in Roots, RootInitPhase(r), TypeOK'
    PROVE  IInv'
<1> USE DEF AgentRuns, RootRuns, RootBeating, Beating
<1>0. root[r] \in RootState /\ now \in Nat  BY DEF IInv, TypeOK
<1>a. root[r].stage = "init" /\ root[r].initMode
  BY DEF RootInitPhase, IInv, OneElection
<1>b. /\ root' = [root EXCEPT ![r] = [root[r] EXCEPT !.stage = "settling",
                                                     !.wake = now + 2 * Timer]]
      /\ UNCHANGED <<now, heartbeat, rootHeart, agent>>
  BY <1>a DEF RootInitPhase
<1>1. /\ \A q \in Roots : q # r => root'[q] = root[q]
      /\ root'[r].stage = "settling"
      /\ root'[r].beats = root[r].beats /\ root'[r].beatAt = root[r].beatAt
      /\ root'[r].initMode = root[r].initMode /\ root'[r].warmup = root[r].warmup
  BY <1>0, <1>b DEF IInv, TypeOK, RootState
<1>2. OneAgentPerMachine'  BY <1>b DEF IInv, OneAgentPerMachine
<1>3. OneElection'  BY <1>1, <1>a, <1>b DEF IInv, OneElection
<1>4. CountersAreCurrent'  BY <1>1, <1>a, <1>b DEF IInv, CountersAreCurrent
<1>5. ThreadsOnTime'  BY <1>1, <1>a, <1>b DEF IInv, ThreadsOnTime
<1>6. RootHearsAgents'  BY <1>1, <1>b DEF IInv, RootHearsAgents
<1>7. AgentsHearRoot'  BY <1>1, <1>a, <1>b DEF IInv, AgentsHearRoot
<1> QED BY <1>2, <1>3, <1>4, <1>5, <1>6, <1>7 DEF IInv

LEMMA RootForgetsVotesInv ==
    ASSUME TimelyAgents, IInv, NEW r \in Roots, RootForgetsVotes(r), TypeOK'
    PROVE  IInv'
<1> USE DEF AgentRuns, RootRuns, RootBeating, Beating
<1>0. root[r] \in RootState /\ now \in Nat  BY DEF IInv, TypeOK
<1>1. /\ \A q \in Roots : q # r => root'[q] = root[q]
      /\ root[r].stage = "settling" /\ root'[r].stage = "rounds"
      /\ root'[r].beats = root[r].beats /\ root'[r].beatAt = root[r].beatAt
      /\ root'[r].initMode = root[r].initMode /\ root'[r].warmup = root[r].warmup
      /\ UNCHANGED <<now, heartbeat, rootHeart, agent>>
  BY <1>0 DEF RootForgetsVotes, IInv, TypeOK, RootState
<1>2. OneAgentPerMachine'  BY <1>1 DEF IInv, OneAgentPerMachine
<1>3. OneElection'  BY <1>1 DEF IInv, OneElection
<1>4. CountersAreCurrent'  BY <1>1 DEF IInv, CountersAreCurrent
<1>5. ThreadsOnTime'  BY <1>1 DEF IInv, ThreadsOnTime
<1>6. RootHearsAgents'  BY <1>1 DEF IInv, RootHearsAgents, OneElection
<1>7. AgentsHearRoot'  BY <1>1 DEF IInv, AgentsHearRoot
<1> QED BY <1>2, <1>3, <1>4, <1>5, <1>6, <1>7 DEF IInv

(* After the warm-up, a machine whose agent runs is never silent in a
   round of the root agent: between two rounds the agent beats at least
   once. *)
LEMMA RunningAgentIsHeard ==
    ASSUME TimelyAgents, IInv, NEW r \in Roots, root[r].stage = "rounds",
           ~root[r].warmup, now >= root[r].wake,
           NEW a \in Agents, AgentRuns(a)
    PROVE  a[1] \notin Silent(r)
<1> USE Numbers
<1>0. /\ now \in Nat /\ root[r].wake \in Nat /\ agent[a].beats \in Nat
      /\ agent[a].beatAt \in Nat /\ a[1] \in MachineRanks
      /\ root[r].counters[a[1]] \in Nat \cup {Missing}
  BY DEF IInv, TypeOK, RootState, AgentState, Agents
<1>1. /\ agent[a].beats > 0
      /\ agent[a].beats >= root[r].counters[a[1]]
      /\ agent[a].beats = root[r].counters[a[1]] =>
             agent[a].beatAt + Timer <= root[r].wake + HeartbeatPeriod
  BY DEF IInv, RootHearsAgents
<1>2. Beating(a) /\ heartbeat[a[1]] = agent[a].beats
  BY <1>1 DEF IInv, CountersAreCurrent
<1>3. now <= agent[a].beatAt + CheckDelay  BY <1>2 DEF IInv, ThreadsOnTime
<1>4. agent[a].beats # root[r].counters[a[1]]
  BY <1>0, <1>1, <1>3 DEF TimelyAgents
<1> QED BY <1>0, <1>1, <1>2, <1>4 DEF Silent

LEMMA RootReceivesInv ==
    ASSUME TimelyAgents, IInv, NEW r \in Roots, RootReceives(r), TypeOK'
    PROVE  IInv'
<1> USE Numbers DEF AgentRuns, RootRuns, RootBeating, Beating
<1>0. /\ root[r] \in RootState /\ now \in Nat
      /\ \A a \in Agents : agent[a] \in AgentState /\ a[1] \in MachineRanks
      /\ \A m \in MachineRanks : heartbeat[m] \in Nat \cup {Missing}
  BY DEF IInv, TypeOK, Agents
<1>1. /\ root[r].stage = "rounds" /\ now >= root[r].wake
      /\ UNCHANGED <<now, heartbeat, rootHeart>>
  BY DEF RootReceives, etcd
<1>2. \A q \in Roots : q # r => root[q].stage = "off"
  BY <1>1 DEF IInv, OneElection
(* What every branch leaves to the root agent. *)
<1> DEFINE next == [root[r] EXCEPT !.wake = now + Timer, !.counters = heartbeat]
           Kept == /\ \A q \in Roots : q # r => root'[q] = root[q]
                   /\ root'[r].stage = "rounds" /\ root'[r].initMode = root[r].initMode
                   /\ root'[r].beats = root[r].beats
                   /\ root'[r].beatAt = root[r].beatAt
                   /\ root'[r].wake = now + Timer
<1>3. Kept => ThreadsOnTime'
  <2>1. ASSUME Kept, NEW q \in Roots, root'[q].stage \in {"init", "settling", "rounds"}
        PROVE  root'[q].beatAt <= now + HeartbeatPeriod /\ now <= root'[q].beatAt
    BY <1>1, <2>1 DEF IInv, ThreadsOnTime
  <2>2. ASSUME NEW a \in Agents, agent'[a].stage \in {"watching", "voting", "blind"}
        PROVE  agent'[a] = agent[a]
    <3>1. UNCHANGED agent \/ \E failed : FailureRecovery(failed)
      BY DEF RootReceives
    <3> QED BY <2>2, <3>1 DEF FailureRecovery, NoAgent
  <2> QED BY <1>1, <2>1, <2>2 DEF IInv, ThreadsOnTime
<1>4. CASE \E m \in MachineRanks : heartbeat[m] = Missing
  <2>1. root' = [root EXCEPT ![r].wake = now + Timer] /\ UNCHANGED agent
    BY <1>4 DEF RootReceives
  <2>2. /\ Kept /\ root'[r].counters = root[r].counters
        /\ root'[r].warmup = root[r].warmup
    BY <1>0, <1>1, <2>1 DEF IInv, TypeOK, RootState
  <2>3. OneAgentPerMachine'  BY <2>1 DEF IInv, OneAgentPerMachine
  <2>4. OneElection'  BY <1>1, <1>2, <2>1, <2>2 DEF IInv, OneElection
  <2>5. CountersAreCurrent'
    BY <1>1, <1>2, <2>1, <2>2 DEF IInv, CountersAreCurrent
  <2>6. RootHearsAgents'
    <3>1. \A a \in Agents : agent[a].beatAt \in Nat  BY <1>0 DEF AgentState
    <3>2. root[r].wake \in Nat  BY <1>0 DEF RootState
    <3>3. now + Timer >= root[r].wake  BY <1>0, <1>1, <3>2
    <3> QED BY <1>0, <1>1, <1>2, <2>1, <2>2, <3>1, <3>2, <3>3 DEF IInv, RootHearsAgents
  <2>7. AgentsHearRoot'  BY <1>1, <1>2, <2>1, <2>2 DEF IInv, AgentsHearRoot
  <2> QED BY <1>3, <2>2, <2>3, <2>4, <2>5, <2>6, <2>7 DEF IInv
<1>5. CASE /\ \A m \in MachineRanks : heartbeat[m] # Missing
           /\ \/ Silent(r) = {}
              \/ root[r].warmup
              \/ root[r].faulty + 1 < MaxFaulty
  <2>1. /\ UNCHANGED agent
        /\ \/ /\ Silent(r) = {}
              /\ root' = [root EXCEPT ![r] =
                     [next EXCEPT !.warmup = FALSE, !.faulty = 0,
                                  !.since = IF root[r].warmup THEN now ELSE @]]
           \/ /\ root[r].warmup
              /\ root' = [root EXCEPT ![r] = next]
           \/ /\ ~root[r].warmup
              /\ root' = [root EXCEPT ![r] = [next EXCEPT !.faulty = @ + 1]]
    <3>1. root[r].faulty + 1 < MaxFaulty => ~(root[r].faulty + 1 >= MaxFaulty)
      BY <1>0 DEF RootState, MaxFaulty
    <3> QED BY <1>5, <3>1 DEF RootReceives, Remembered
  <2>2. /\ Kept /\ root'[r].counters = heartbeat
        /\ \/ Silent(r) = {} /\ ~root'[r].warmup
           \/ root'[r].warmup = root[r].warmup
    <3>1. r \in DOMAIN root /\ DOMAIN root = Roots  BY DEF IInv, TypeOK
    <3>2. /\ next.stage = "rounds" /\ next.initMode = root[r].initMode
          /\ next.beats = root[r].beats /\ next.beatAt = root[r].beatAt
          /\ next.wake = now + Timer /\ next.counters = heartbeat
          /\ next.warmup = root[r].warmup
          /\ next = [f \in DOMAIN root[r] |-> next[f]]
          /\ {"stage", "initMode", "beats", "beatAt", "wake", "counters", "warmup",
               "faulty", "since"} \subseteq DOMAIN root[r]
      BY <1>0, <1>1 DEF RootState
    <3> HIDE DEF next
    <3> QED BY ZenonT(60), <2>1, <3>1, <3>2
  <2>3. OneAgentPerMachine'  BY <2>1 DEF IInv, OneAgentPerMachine
  <2>4. OneElection'  BY <1>1, <1>2, <2>1, <2>2 DEF IInv, OneElection
  <2>5. CountersAreCurrent'
    <3>1. \A m \in MachineRanks : heartbeat[m] <= root'[r].counters[m]
      BY <1>0, <2>2
    <3> QED BY <1>0, <1>1, <1>2, <2>1, <2>2, <3>1 DEF IInv, CountersAreCurrent
  <2>6. RootHearsAgents'
    <3> SUFFICES ASSUME ~root'[r].warmup, NEW a \in Agents, AgentRuns(a)
                 PROVE  /\ agent[a].beats > 0
                        /\ agent[a].beats = heartbeat[a[1]]
                        /\ agent[a].beatAt <= now + HeartbeatPeriod
                        /\ agent[a].beats \in Nat /\ agent[a].beatAt \in Nat
      BY <1>0, <1>1, <1>2, <2>1, <2>2 DEF RootHearsAgents
    <3>1. agent[a].beats \in Nat /\ agent[a].beatAt \in Nat
      BY <1>0 DEF AgentState
    <3>2. agent[a].beats > 0
      <4>1. CASE Silent(r) = {}
        <5>1. ~(heartbeat[a[1]] <= root[r].counters[a[1]])
          BY <1>0, <4>1 DEF Silent
        <5>2. agent[a].beats # 0
          BY <1>0, <1>2, <1>5, <5>1 DEF IInv, CountersAreCurrent
        <5> QED BY <3>1, <5>2
      <4>2. CASE ~root[r].warmup  BY <1>1, <4>2 DEF IInv, RootHearsAgents
      <4> QED BY <2>2, <4>1, <4>2
    <3> QED BY <3>1, <3>2 DEF IInv, CountersAreCurrent, ThreadsOnTime
  <2>7. AgentsHearRoot'  BY <1>1, <1>2, <2>1, <2>2 DEF IInv, AgentsHearRoot
  <2> QED BY <1>3, <2>2, <2>3, <2>4, <2>5, <2>6, <2>7 DEF IInv
<1>6. CASE /\ \A m \in MachineRanks : heartbeat[m] # Missing
           /\ ~root[r].warmup
           /\ FailureRecovery(Silent(r))
           /\ root' = [root EXCEPT ![r] = Recovering([next EXCEPT !.faulty = 0])]
  <2>1. Kept /\ root'[r].counters = heartbeat /\ root'[r].warmup
    BY <1>0, <1>1, <1>6 DEF IInv, TypeOK, RootState, Recovering
  <2>2. \A a \in Agents : AgentRuns(a) => a[1] \notin Silent(r)
    BY <1>1, <1>6, RunningAgentIsHeard
  <2>3. \A m \in Silent(r) : ~AgentRuns(<<m, 0>>) /\ ~AgentRuns(<<m, 1>>)
    BY <2>2 DEF Agents, Silent
  <2>4. \A a \in Agents :
            \/ agent'[a] = agent[a]
            \/ /\ a[1] \in Silent(r) /\ a = <<a[1], 0>> /\ ~AgentRuns(a)
               /\ agent'[a].stage = "restarted" /\ agent'[a].seen = Missing
               /\ agent'[a].beats = 0 /\ agent'[a].misses = 0
    BY <1>6, <2>3 DEF FailureRecovery, ToRestart, NoAgent
  <2>5. OneAgentPerMachine'
    <3> SUFFICES ASSUME NEW m \in MachineRanks, AgentRuns(<<m, 0>>)', AgentRuns(<<m, 1>>)'
                 PROVE  FALSE
      BY DEF OneAgentPerMachine
    <3>1. <<m, 0>> \in Agents /\ <<m, 1>> \in Agents /\ <<m, 1>> # <<m, 0>>
      BY DEF Agents
    <3>2. AgentRuns(<<m, 1>>)  BY <2>4, <3>1
    <3>3. AgentRuns(<<m, 0>>)  BY <2>3, <2>4, <3>1, <3>2
    <3> QED BY <3>2, <3>3 DEF IInv, OneAgentPerMachine
  <2>6. OneElection'  BY <1>1, <1>2, <2>1, <2>4 DEF IInv, OneElection
  <2>7. CountersAreCurrent'
    <3>1. \A m \in MachineRanks : heartbeat[m] <= root'[r].counters[m]
      BY <1>0, <2>1
    <3> QED BY <1>0, <1>1, <1>2, <2>1, <2>4, <3>1 DEF IInv, CountersAreCurrent
  <2>8. RootHearsAgents'  BY <1>2, <2>1 DEF RootHearsAgents
  <2>9. AgentsHearRoot'  BY <1>1, <1>2, <2>1, <2>4 DEF IInv, AgentsHearRoot
  <2> QED BY <1>3, <2>1, <2>5, <2>6, <2>7, <2>8, <2>9 DEF IInv
<1>7. \/ \E m \in MachineRanks : heartbeat[m] = Missing
      \/ /\ \A m \in MachineRanks : heartbeat[m] # Missing
         /\ \/ Silent(r) = {}
            \/ root[r].warmup
            \/ root[r].faulty + 1 < MaxFaulty
            \/ /\ ~root[r].warmup
               /\ FailureRecovery(Silent(r))
               /\ root' = [root EXCEPT ![r] = Recovering([next EXCEPT !.faulty = 0])]
  BY DEF RootReceives, Remembered
<1> QED BY <1>4, <1>5, <1>6, <1>7

----------------------------------------------------------------------------
(* Failures of agents, and time. *)
LEMMA AgentFailsInv ==
    ASSUME TimelyAgents, IInv, NEW a \in Agents, AgentFails(a), TypeOK'
    PROVE  IInv'
<1> USE DEF AgentRuns, RootRuns, RootBeating, Beating
<1>1. /\ \A b \in Agents : b # a => agent'[b] = agent[b]
      /\ agent'[a].stage = "off" /\ agent'[a].seen = Missing
      /\ agent'[a].beats = 0 /\ agent'[a].misses = 0
      /\ UNCHANGED <<now, heartbeat, rootHeart, root>>
  BY DEF AgentFails, IInv, TypeOK, NoAgent, etcd
<1>2. OneAgentPerMachine'  BY <1>1, NoneStarted DEF IInv
<1>3. OneElection'  BY <1>1 DEF IInv, OneElection
<1>4. CountersAreCurrent'  BY <1>1 DEF IInv, CountersAreCurrent
<1>5. ThreadsOnTime'  BY <1>1 DEF IInv, ThreadsOnTime
<1>6. RootHearsAgents'  BY <1>1 DEF IInv, RootHearsAgents
<1>7. AgentsHearRoot'  BY <1>1 DEF IInv, AgentsHearRoot
<1> QED BY <1>2, <1>3, <1>4, <1>5, <1>6, <1>7 DEF IInv

LEMMA TickInv ==
    ASSUME TimelyAgents, IInv, Tick, TypeOK'
    PROVE  IInv'
<1> USE DEF AgentRuns, RootRuns, RootBeating, Beating
<1>1. now' = now + 1 /\ UNCHANGED <<heartbeat, rootHeart, agent, root>>
  BY DEF Tick, etcd
<1>2. OneAgentPerMachine' /\ OneElection' /\ CountersAreCurrent'
  BY <1>1 DEF IInv, OneAgentPerMachine, OneElection, CountersAreCurrent
<1>3. RootHearsAgents' /\ AgentsHearRoot'
  BY <1>1 DEF IInv, RootHearsAgents, AgentsHearRoot
<1>4. ThreadsOnTime'
  <2>0. now \in Nat  BY DEF IInv, TypeOK
  <2>1. ASSUME NEW a \in Agents, Beating(a)
        PROVE  agent[a].beatAt <= now' + HeartbeatPeriod /\ now' <= agent[a].beatAt + CheckDelay
    <3>1. agent[a].beatAt \in Nat  BY DEF IInv, TypeOK, AgentState
    <3>2. now < agent[a].beatAt + CheckDelay  BY <2>1 DEF Tick, AgentOnTime
    <3>3. agent[a].beatAt <= now + HeartbeatPeriod
      BY <2>1 DEF IInv, ThreadsOnTime
    <3> QED BY <1>1, <2>0, <3>1, <3>2, <3>3, Numbers
  <2>2. ASSUME NEW r \in Roots, RootBeating(r)
        PROVE  root[r].beatAt <= now' + HeartbeatPeriod /\ now' <= root[r].beatAt
    <3>1. root[r].beatAt \in Nat  BY DEF IInv, TypeOK, RootState
    <3>2. now < root[r].beatAt  BY <2>2 DEF Tick, RootOnTime
    <3>3. root[r].beatAt <= now + HeartbeatPeriod
      BY <2>2 DEF IInv, ThreadsOnTime
    <3> QED BY <1>1, <2>0, <3>1, <3>2, <3>3, Numbers
  <2> QED BY <1>1, <2>1, <2>2 DEF ThreadsOnTime
<1> QED BY <1>2, <1>3, <1>4 DEF IInv

(* Only agents fail, and the invariant is preserved by every step. *)
LEMMA StepInv ==
    ASSUME TimelyAgents, IInv, [Next]_vars
    PROVE  IInv'
<1>0. TypeOK'  BY AgentTypeStep DEF IInv
<1>1. CASE Tick  BY <1>0, <1>1, TickInv
<1>2. ASSUME NEW a \in Agents, AgentStep(a) PROVE IInv'
  BY <1>0, <1>2, AgentStartsInv, AgentCountsInv, AgentIsUpInv, AgentBeatsInv,
     AgentWatchesInv, AgentElectsNever DEF AgentStep
<1>3. ASSUME NEW a \in Agents, AgentFails(a) PROVE IInv'
  BY <1>0, <1>3, AgentFailsInv
<1>4. ASSUME NEW r \in Roots, RootStep(r) PROVE IInv'
  BY <1>0, <1>4, RootStartsInv, RootBeatsInv, RootInitPhaseInv, RootForgetsVotesInv,
     RootReceivesInv DEF RootStep
<1>5. ASSUME NEW r \in Roots PROVE ~RootFails(r)
  BY DEF RootFails, TimelyAgents
<1>6. ASSUME NEW m \in MachineRanks PROVE ~MachineFails(m)
  BY DEF MachineFails, TimelyAgents
<1>7. CASE UNCHANGED vars
  BY <1>7 DEF vars, etcd, IInv, TypeOK, OneAgentPerMachine, OneElection, CountersAreCurrent,
              ThreadsOnTime, RootHearsAgents, AgentsHearRoot, AgentRuns, RootRuns,
              RootBeating, Beating
<1> QED BY <1>1, <1>2, <1>3, <1>4, <1>5, <1>6, <1>7 DEF Next

LEMMA InvariantHolds == TimelyAgents => (Spec => []IInv)
<1> SUFFICES ASSUME TimelyAgents PROVE Spec => []IInv  OBVIOUS
<1>1. Init => IInv  BY InitInv, AgentTypeInit
<1>2. IInv /\ [Next]_vars => IInv'  BY StepInv
<1> QED BY <1>1, <1>2, PTL DEF Spec

(* If only worker agents fail, and they beat more often than the root
   agent looks, no agent that runs is taken for failed and restarted. *)
THEOREM RunningAgentsAreLeftAlone == TimelyAgents => (Spec => []OneAgentPerMachine)
<1>1. IInv => OneAgentPerMachine  BY DEF IInv
<1> QED BY <1>1, InvariantHolds, PTL

(* And no agent votes against a root agent that runs. *)
THEOREM RunningRootIsKept == TimelyAgents => (Spec => VoteMeansRootDown)
<1> SUFFICES ASSUME TimelyAgents PROVE Spec => VoteMeansRootDown  OBVIOUS
<1>1. IInv /\ [Next]_vars => [~VoteAgainstRoot]_vars
  <2> SUFFICES ASSUME IInv, [Next]_vars, VoteAgainstRoot PROVE FALSE  OBVIOUS
  <2>1. IInv'  BY StepInv
  <2> QED BY <2>1 DEF VoteAgainstRoot, IInv, OneElection
<1> QED BY <1>1, InvariantHolds, PTL DEF Spec, VoteMeansRootDown

----------------------------------------------------------------------------
(* Counting the machines that are down. *)
LEMMA DownIsFinite ==
    /\ IsFiniteSet(DownMachines) /\ IsFiniteSet(DownMachines')
    /\ Cardinality(DownMachines) \in Nat /\ Cardinality(DownMachines') \in Nat
<1>1. IsFiniteSet(MachineRanks)  BY Numbers, FS_Interval DEF MachineRanks
<1>2. DownMachines \subseteq MachineRanks /\ DownMachines' \subseteq MachineRanks
  BY DEF DownMachines
<1> QED BY <1>1, <1>2, FS_Subset, FS_CardinalityType

(* When no machine gets an agent or loses its last one, none is counted. *)
LEMMA SameDown ==
    ASSUME \A a \in Agents : AgentRuns(a)' = AgentRuns(a)
    PROVE  DownMachines' = DownMachines
BY DEF DownMachines, HasAgent

(* At most one machine goes down by one failure. *)
LEMMA OneMoreDown ==
    ASSUME NEW m, DownMachines' \subseteq DownMachines \cup {m}
    PROVE  Cardinality(DownMachines') <= Cardinality(DownMachines) + 1
<1>1. /\ IsFiniteSet(DownMachines \cup {m})
      /\ Cardinality(DownMachines \cup {m}) \in Nat
      /\ Cardinality(DownMachines \cup {m}) <= Cardinality(DownMachines) + 1
  BY DownIsFinite, FS_AddElement, FS_CardinalityType
<1>2. Cardinality(DownMachines') <= Cardinality(DownMachines \cup {m})
  BY <1>1, FS_Subset
<1> QED BY <1>1, <1>2, DownIsFinite

(* A restart of agents on a machine that was down leaves one less. *)
LEMMA OneLessDown ==
    ASSUME NEW m \in DownMachines, DownMachines' \subseteq DownMachines \ {m}
    PROVE  Cardinality(DownMachines') + 1 <= Cardinality(DownMachines)
<1>1. /\ IsFiniteSet(DownMachines \ {m})
      /\ Cardinality(DownMachines \ {m}) = Cardinality(DownMachines) - 1
  BY DownIsFinite, FS_RemoveElement
<1>2. Cardinality(DownMachines') <= Cardinality(DownMachines \ {m})
  BY <1>1, FS_Subset
<1> QED BY <1>1, <1>2, DownIsFinite

LEMMA LaunchInit ==
    ASSUME Init, IInv
    PROVE  LaunchInv
<1>1. \A m \in MachineRanks : <<m, 0>> \in Agents /\ AgentRuns(<<m, 0>>)
  BY DEF Init, Agents, AgentRuns, NoAgent
<1>2. DownMachines = {}  BY <1>1 DEF DownMachines, HasAgent
<1>3. Cardinality(DownMachines) = 0  BY <1>2, FS_EmptySet
<1> QED BY <1>3 DEF LaunchInv, Init

(* A step that starts or restarts no training, starts or stops no agent,
   and gets no root agent beyond its init phase. *)
LEMMA NoLaunch ==
    ASSUME LaunchInv, IInv', UNCHANGED <<launches, faults, up>>,
           \A a \in Agents : AgentRuns(a)' = AgentRuns(a),
           (\E r \in Roots : root[r].stage \in {"settling", "rounds"}) =>
               \E r \in Roots : root'[r].stage \in {"settling", "rounds"}
    PROVE  LaunchInv'
<1>1. DownMachines' = DownMachines  BY SameDown
<1> QED BY <1>1 DEF LaunchInv

(* A step of an agent concerns its own process, which runs before and
   after it. *)
LEMMA StepOfOneAgent ==
    ASSUME TypeOK, NEW a \in Agents, AgentStep(a)
    PROVE  /\ \A b \in Agents : b # a => agent'[b] = agent[b]
           /\ agent[a].stage # "off" /\ agent'[a].stage # "off"
<1> USE DEF TypeOK, AgentState
<1>1. CASE AgentStarts(a)  BY <1>1 DEF AgentStarts
<1>2. CASE AgentCounts(a)
  <2>1. \/ agent' = [agent EXCEPT ![a].stage = "checking", ![a].wake = now]
        \/ agent' = [agent EXCEPT ![a].wake = now + PollPeriod]
    BY <1>2 DEF AgentCounts
  <2> QED BY <1>2, <2>1 DEF AgentCounts
<1>3. CASE AgentIsUp(a)  BY <1>3 DEF AgentIsUp
<1>4. CASE AgentBeats(a)  BY <1>4 DEF AgentBeats, Beating
<1>5. CASE AgentWatches(a)  BY <1>5 DEF AgentWatches
<1>6. CASE AgentElects(a)
  <2>1. \/ agent' = [agent EXCEPT ![a].stage = "blind"]
        \/ agent' = [agent EXCEPT ![a].stage = "watching", ![a].seen = Missing,
                                  ![a].wake = now + Timer]
    BY <1>6 DEF AgentElects
  <2> QED BY <1>6, <2>1 DEF AgentElects
<1> QED BY <1>1, <1>2, <1>3, <1>4, <1>5, <1>6 DEF AgentStep

(* The steps of agents start no training. *)
LEMMA AgentStepLaunches ==
    ASSUME LaunchInv, IInv', NEW a \in Agents, AgentStep(a)
    PROVE  LaunchInv'
<1>1. TypeOK /\ a \in DOMAIN agent  BY DEF LaunchInv, IInv, TypeOK
<1>2. UNCHANGED <<launches, faults, up>>
  BY DEF AgentStep, AgentStarts, AgentCounts, AgentIsUp, AgentBeats, AgentWatches,
         AgentElects
<1>3. /\ \A b \in Agents : b # a => agent'[b] = agent[b]
      /\ agent[a].stage # "off" /\ agent'[a].stage # "off"
  BY <1>1, StepOfOneAgent
<1>4. (\E r \in Roots : root[r].stage \in {"settling", "rounds"}) => UNCHANGED root
  <2>1. IsLeader(a, 0) /\ agent[a].stage = "counting" =>
            \A r \in Roots : root[r].stage = "off"
    BY DEF LaunchInv, IInv, OneElection, IsLeader, RootRuns
  <2>2. agent[a].stage # "voting"  BY DEF LaunchInv, IInv, OneElection
  <2> QED BY <2>1, <2>2 DEF AgentStep, AgentStarts, AgentCounts, AgentIsUp, AgentBeats,
                            AgentWatches, AgentElects
<1> QED BY <1>2, <1>3, <1>4, NoLaunch DEF AgentRuns

(* What a round of a root agent does. *)
Waits(r) ==
    /\ \E m \in MachineRanks : heartbeat[m] = Missing
    /\ UNCHANGED <<agent, launches>>
    /\ root'[r].warmup = root[r].warmup /\ root'[r].faulty = root[r].faulty
    /\ root'[r].since = root[r].since /\ root'[r].counters = root[r].counters

HearsAll(r) ==
    /\ Silent(r) = {}
    /\ UNCHANGED <<agent, launches>>
    /\ ~root'[r].warmup /\ root'[r].faulty = 0
    /\ root'[r].since = IF root[r].warmup THEN now ELSE root[r].since
    /\ root'[r].counters = heartbeat

MissesSome(r) ==
    /\ Silent(r) # {}
    /\ UNCHANGED <<agent, launches>>
    /\ root'[r].warmup = root[r].warmup /\ root'[r].since = root[r].since
    /\ root'[r].counters = heartbeat
    /\ ~root[r].warmup => /\ root'[r].faulty = root[r].faulty + 1
                          /\ root'[r].faulty < MaxFaulty

Recovers(r) ==
    /\ Silent(r) # {} /\ ~root[r].warmup
    /\ FailureRecovery(Silent(r))
    /\ root'[r].warmup /\ root'[r].since = now

LEMMA RoundOutcome ==
    ASSUME TypeOK, NEW r \in Roots, RootReceives(r)
    PROVE  /\ root[r].stage = "rounds" /\ now >= root[r].wake
           /\ UNCHANGED <<now, votes, heartbeat, rootHeart, up, faults, downSince>>
           /\ \A q \in Roots : q # r => root'[q] = root[q]
           /\ root'[r].stage = "rounds" /\ root'[r].wake = now + Timer
           /\ \/ Waits(r)
              \/ /\ \A m \in MachineRanks : heartbeat[m] # Missing
                 /\ HearsAll(r) \/ MissesSome(r) \/ Recovers(r)
<1> DEFINE next == [root[r] EXCEPT !.wake = now + Timer, !.counters = heartbeat]
<1>1. /\ root[r].stage = "rounds" /\ now >= root[r].wake
      /\ UNCHANGED <<now, votes, heartbeat, rootHeart, up, faults, downSince>>
  BY DEF RootReceives, etcd
<1>2. root \in [Roots -> RootState] /\ root[r] \in RootState  BY DEF TypeOK
<1>3. /\ next.stage = "rounds" /\ next.wake = now + Timer /\ next.counters = heartbeat
      /\ next.warmup = root[r].warmup /\ next.faulty = root[r].faulty
      /\ next.since = root[r].since
      /\ next = [f \in DOMAIN root[r] |-> next[f]]
      /\ {"stage", "wake", "counters", "warmup", "faulty", "since"} \subseteq DOMAIN root[r]
  BY <1>1, <1>2 DEF RootState
<1> HIDE DEF next
<1>4. CASE /\ \E m \in MachineRanks : heartbeat[m] = Missing
           /\ root' = [root EXCEPT ![r].wake = now + Timer]
           /\ UNCHANGED <<agent, launches>>
  BY <1>1, <1>2, <1>4 DEF Waits, RootState
<1>5. CASE /\ \A m \in MachineRanks : heartbeat[m] # Missing
           /\ Silent(r) = {}
           /\ root' = [root EXCEPT ![r] =
                  [next EXCEPT !.warmup = FALSE, !.faulty = 0,
                               !.since = IF root[r].warmup THEN now ELSE @]]
           /\ UNCHANGED <<agent, launches>>
  <2>1. HearsAll(r)  BY <1>1, <1>2, <1>3, <1>5 DEF HearsAll
  <2> QED BY <1>1, <1>2, <1>3, <1>5, <2>1
<1>6. CASE /\ \A m \in MachineRanks : heartbeat[m] # Missing
           /\ Silent(r) # {} /\ root[r].warmup
           /\ root' = [root EXCEPT ![r] = next]
           /\ UNCHANGED <<agent, launches>>
  BY <1>1, <1>2, <1>3, <1>6 DEF MissesSome
<1>7. CASE /\ \A m \in MachineRanks : heartbeat[m] # Missing
           /\ Silent(r) # {} /\ ~root[r].warmup /\ root[r].faulty + 1 < MaxFaulty
           /\ root' = [root EXCEPT ![r] = [next EXCEPT !.faulty = @ + 1]]
           /\ UNCHANGED <<agent, launches>>
  <2>1. MissesSome(r)  BY <1>1, <1>2, <1>3, <1>7 DEF MissesSome
  <2> QED BY <1>1, <1>2, <1>3, <1>7, <2>1
<1>8. CASE /\ \A m \in MachineRanks : heartbeat[m] # Missing
           /\ Silent(r) # {} /\ ~root[r].warmup
           /\ FailureRecovery(Silent(r))
           /\ root' = [root EXCEPT ![r] = Recovering([next EXCEPT !.faulty = 0])]
  <2>1. Recovers(r)  BY <1>1, <1>2, <1>3, <1>8 DEF Recovers, Recovering
  <2> QED BY <1>1, <1>2, <1>3, <1>8, <2>1 DEF Recovering
<1> QED BY <1>4, <1>5, <1>6, <1>7, <1>8 DEF RootReceives, Remembered, next

(* The root agent starts the training once, and restarts it only when the
   machines it has missed are down: all of them get an agent again. *)
LEMMA RootStepLaunches ==
    ASSUME TimelyAgents, LaunchInv, IInv', NEW r \in Roots, RootStep(r)
    PROVE  LaunchInv'
<1> USE DEF LaunchInv, IInv, TypeOK
<1>0. /\ launches \in Nat /\ faults \in Nat
      /\ root \in [Roots -> RootState] /\ r \in DOMAIN root
  OBVIOUS
<1>1. CASE RootInitPhase(r)
  <2>1. root[r].stage = "init" /\ root[r].initMode
    BY <1>1 DEF RootInitPhase, OneElection, RootRuns
  <2>2. /\ launches' = launches + 1 /\ UNCHANGED <<faults, up, agent>>
        /\ root' = [root EXCEPT ![r] = [root[r] EXCEPT !.stage = "settling",
                                                      !.wake = now + 2 * Timer]]
    BY <1>1, <2>1 DEF RootInitPhase
  <2>3. \A q \in Roots : root[q].stage \notin {"settling", "rounds"}
    BY <2>1 DEF OneElection, RootRuns
  <2>4. root'[r].stage = "settling"  BY ZenonT(60), <1>0, <2>2 DEF RootState
  <2>5. DownMachines' = DownMachines  BY <2>2, SameDown DEF AgentRuns
  <2> QED BY <1>0, <2>2, <2>3, <2>4, <2>5, DownIsFinite
<1>2. CASE RootReceives(r) /\ Recovers(r)
  <2>1. /\ root[r].stage = "rounds" /\ ~root[r].warmup /\ now >= root[r].wake
        /\ FailureRecovery(Silent(r)) /\ Silent(r) # {}
        /\ UNCHANGED <<faults, up>>
        /\ root'[r].stage = "rounds"
    BY <1>2, RoundOutcome DEF Recovers
  <2>2. \A m \in Silent(r) : m \in DownMachines
    BY <2>1, RunningAgentIsHeard DEF DownMachines, HasAgent, Silent
  <2>3. PICK m \in Silent(r) : TRUE  BY <2>1
  <2>4. \A n \in MachineRanks : HasAgent(n) => HasAgent(n)'
    BY <2>1 DEF HasAgent, FailureRecovery, AgentRuns, NoAgent
  <2>5. HasAgent(m)'
    <3>1. ~AgentRuns(<<m, 0>>) /\ <<m, 0>> \in Agents /\ m \in up
      BY <2>2 DEF DownMachines, HasAgent, Agents, Silent
    <3>2. agent'[<<m, 0>>].stage = "restarted"
      BY <2>1, <3>1 DEF FailureRecovery, ToRestart, NoAgent
    <3> QED BY <3>1, <3>2 DEF HasAgent, AgentRuns
  <2>6. DownMachines' \subseteq DownMachines \ {m}
    BY <2>4, <2>5 DEF DownMachines
  <2>7. Cardinality(DownMachines') + 1 <= Cardinality(DownMachines)
    BY <2>2, <2>6, OneLessDown
  <2>8. launches' = launches + 1  BY <2>1 DEF FailureRecovery
  <2> QED BY <1>0, <2>1, <2>7, <2>8, DownIsFinite
<1>3. CASE RootReceives(r) /\ ~Recovers(r)
  <2>1. /\ UNCHANGED <<faults, up, agent, launches>>
        /\ root[r].stage = "rounds" /\ root'[r].stage = "rounds"
    BY <1>3, RoundOutcome DEF Waits, HearsAll, MissesSome
  <2> QED BY <1>3, <2>1, NoLaunch DEF AgentRuns
<1>4. CASE RootStarts(r) \/ RootBeats(r) \/ RootForgetsVotes(r)
  <2>1. /\ UNCHANGED <<launches, faults, up, agent>>
        /\ \A q \in Roots : q # r => root'[q] = root[q]
    BY <1>0, <1>4 DEF RootStarts, RootBeats, RootForgetsVotes
  <2>2. root[r].stage \in {"settling", "rounds"} => root'[r].stage \in {"settling", "rounds"}
    BY <1>0, <1>4 DEF RootStarts, RootBeats, RootForgetsVotes, RootState
  <2> QED BY <2>1, <2>2, NoLaunch DEF AgentRuns
<1> QED BY <1>1, <1>2, <1>3, <1>4 DEF RootStep

(* A failure is counted as one, and takes the agent of one machine. *)
LEMMA AgentFailsLaunches ==
    ASSUME LaunchInv, IInv', NEW a \in Agents, AgentFails(a)
    PROVE  LaunchInv'
<1>1. /\ faults' = faults + 1 /\ UNCHANGED <<launches, up, root>>
      /\ \A b \in Agents : b # a => agent'[b] = agent[b]
      /\ launches \in Nat /\ faults \in Nat
  BY DEF AgentFails, LaunchInv, IInv, TypeOK
<1>2. DownMachines' \subseteq DownMachines \cup {a[1]}
  BY <1>1 DEF DownMachines, HasAgent, AgentRuns
<1>3. Cardinality(DownMachines') <= Cardinality(DownMachines) + 1
  BY <1>2, OneMoreDown
<1> QED BY <1>1, <1>3, DownIsFinite DEF LaunchInv

LEMMA LaunchStep ==
    ASSUME TimelyAgents, LaunchInv, [Next]_vars
    PROVE  LaunchInv'
<1>0. IInv'  BY StepInv DEF LaunchInv
<1>1. CASE Tick  BY <1>0, <1>1, NoLaunch DEF Tick, AgentRuns
<1>2. CASE UNCHANGED vars  BY <1>0, <1>2, NoLaunch DEF vars, AgentRuns
<1>3. ASSUME NEW r \in Roots PROVE ~RootFails(r)
  BY DEF RootFails, TimelyAgents
<1>4. ASSUME NEW m \in MachineRanks PROVE ~MachineFails(m)
  BY DEF MachineFails, TimelyAgents
<1> QED BY <1>0, <1>1, <1>2, <1>3, <1>4, AgentStepLaunches, RootStepLaunches,
           AgentFailsLaunches DEF Next

(* Under the same condition the training is started once, and restarted at
   most once for each failure: what a round finds silent has failed since
   the last restart, and a restart answers all that is down. *)
THEOREM EveryRestartHasItsFault == TimelyAgents => (Spec => []OneLaunchPerFault)
<1> SUFFICES ASSUME TimelyAgents PROVE Spec => []OneLaunchPerFault  OBVIOUS
<1>1. Init => LaunchInv  BY InitInv, AgentTypeInit, LaunchInit
<1>2. LaunchInv /\ [Next]_vars => LaunchInv'  BY LaunchStep
<1>3. LaunchInv => OneLaunchPerFault
  BY DownIsFinite DEF LaunchInv, IInv, TypeOK, OneLaunchPerFault
<1> QED BY <1>1, <1>2, <1>3, PTL DEF Spec

----------------------------------------------------------------------------
(* A failure is noticed.  Here anything may fail, and the timing is any. *)
LEMMA LimitOfRounds == MaxFaulty = 3 /\ Timer \in Nat
BY Numbers DEF MaxFaulty

(* A step that is no round of r, in which no time passes: r goes on as it
   was, or is in warm-up; a machine that is down has been down all along
   or is down from now on, and only agents that run write heartbeats. *)
LEMMA BetweenRounds ==
    ASSUME WatchInv, TypeOK', NEW r \in Roots, UNCHANGED now,
           \/ /\ root'[r].warmup
              /\ root'[r].stage = "rounds" => now <= root'[r].wake
           \/ /\ root'[r].stage = root[r].stage /\ root'[r].warmup = root[r].warmup
              /\ root'[r].wake = root[r].wake /\ root'[r].faulty = root[r].faulty
              /\ root'[r].counters = root[r].counters
              /\ root'[r].since = root[r].since,
           \A m \in MachineRanks : /\ heartbeat[m] # Missing => heartbeat'[m] # Missing
                                   /\ m \in DownMachines' => heartbeat'[m] = heartbeat[m],
           \A m \in DownMachines' : \/ m \in DownMachines /\ downSince'[m] = downSince[m]
                                    \/ downSince'[m] = now
    PROVE  RoundsOnTime(r)' /\ NoticedInTime(r)'
<1> USE LimitOfRounds
<1>1. CASE root'[r].warmup  BY <1>1 DEF WatchInv, RoundsOnTime, NoticedInTime
<1>2. CASE ~root'[r].warmup
  <2>1. /\ root'[r].stage = root[r].stage /\ ~root[r].warmup
        /\ root'[r].wake = root[r].wake /\ root'[r].faulty = root[r].faulty
        /\ root'[r].counters = root[r].counters /\ root'[r].since = root[r].since
    BY <1>2
  <2>2. RoundsOnTime(r)'  BY <2>1 DEF WatchInv, RoundsOnTime
  <2>3. ASSUME NEW m \in DownMachines'
        PROVE  \/ LastRound(r, m)' <= downSince'[m] + (MaxFaulty + 1) * Timer
               \/ LastRound(r, m)' <= root'[r].since + (MaxFaulty + 1) * Timer
    <3>0. m \in MachineRanks  BY DEF DownMachines
    <3>1. CASE m \in DownMachines /\ downSince'[m] = downSince[m]
      <4>1. (m \in Silent(r))' <=> m \in Silent(r)  BY <2>1, <3>0 DEF Silent
      <4>2. LastRound(r, m)' = LastRound(r, m)
        BY <2>1, <4>1 DEF LastRound, RoundsLeft
      <4> QED BY <2>1, <3>1, <4>2 DEF WatchInv, NoticedInTime
    <3>2. CASE downSince'[m] = now
      <4>1. /\ root[r].wake \in Nat /\ now \in Nat /\ root[r].faulty \in Nat
            /\ root[r].wake <= now + Timer
        BY <2>1 DEF WatchInv, TypeOK, RootState, RoundsOnTime
      <4>2. RoundsLeft(r, m)' \in {3, 2 - root[r].faulty}
        BY <2>1 DEF RoundsLeft
      <4>3. RoundsLeft(r, m)' \in {-1, 0, 1, 2, 3}
        BY <2>1, <4>1, <4>2 DEF WatchInv, RoundsOnTime
      <4>4. RoundsLeft(r, m)' * Timer <= 3 * Timer  BY <4>3
      <4>5. RoundsLeft(r, m)' * Timer \in Int  BY <4>3
      <4>6. LastRound(r, m)' <= now + (MaxFaulty + 1) * Timer
        BY <2>1, <4>1, <4>4, <4>5 DEF LastRound
      <4> QED BY <3>2, <4>6
    <3> QED BY <3>1, <3>2
  <2> QED BY <2>2, <2>3 DEF NoticedInTime
<1> QED BY <1>1, <1>2

(* The round of r itself: a machine that is down is heard a last time, or
   is silent for one round more. *)
LEMMA InARound ==
    ASSUME WatchInv, TypeOK', NEW r \in Roots, RootReceives(r)
    PROVE  RoundsOnTime(r)' /\ NoticedInTime(r)'
<1> USE LimitOfRounds
<1>1. /\ root[r].stage = "rounds" /\ now >= root[r].wake
      /\ UNCHANGED <<now, heartbeat, downSince>>
      /\ root'[r].stage = "rounds" /\ root'[r].wake = now + Timer
      /\ \/ Waits(r)
         \/ /\ \A m \in MachineRanks : heartbeat[m] # Missing
            /\ HearsAll(r) \/ MissesSome(r) \/ Recovers(r)
  BY RoundOutcome DEF WatchInv
<1>2. /\ now \in Nat /\ root[r].wake \in Nat /\ root[r].faulty \in Nat
      /\ root[r].since \in Nat /\ root[r].warmup \in BOOLEAN
      /\ \A m \in MachineRanks : /\ heartbeat[m] \in Nat \cup {Missing}
                                  /\ downSince[m] \in Nat
  BY DEF WatchInv, TypeOK, RootState
<1>3. now = root[r].wake  BY <1>1, <1>2 DEF WatchInv, RoundsOnTime
<1>4. CASE root'[r].warmup  BY <1>1, <1>2, <1>4 DEF RoundsOnTime, NoticedInTime
<1>5. CASE ~root'[r].warmup
  <2>1. /\ \A m \in MachineRanks : heartbeat[m] # Missing
        /\ HearsAll(r) \/ (MissesSome(r) /\ ~root[r].warmup)
    BY <1>1, <1>5 DEF Waits, MissesSome, Recovers, WatchInv, RoundsOnTime
  <2>2. root'[r].counters = heartbeat  BY <2>1 DEF HearsAll, MissesSome
  <2>3. RoundsOnTime(r)'
    BY <1>1, <1>2, <2>1 DEF RoundsOnTime, HearsAll, MissesSome
  <2>4. ASSUME NEW m \in DownMachines'
        PROVE  \/ LastRound(r, m)' <= downSince'[m] + (MaxFaulty + 1) * Timer
               \/ LastRound(r, m)' <= root'[r].since + (MaxFaulty + 1) * Timer
    <3>0. m \in MachineRanks  BY DEF DownMachines
    <3>1. LastRound(r, m)' = now + Timer + (2 - root'[r].faulty) * Timer
      <4>1. (m \in Silent(r))'  BY <1>1, <1>2, <2>2, <3>0 DEF Silent
      <4> QED BY <1>1, <4>1 DEF LastRound, RoundsLeft
    <3>2. CASE HearsAll(r) /\ root[r].warmup  BY <1>2, <3>1, <3>2 DEF HearsAll
    <3>3. CASE ~root[r].warmup
      <4>1. m \in DownMachines
        BY <1>1, <2>1 DEF DownMachines, HasAgent, AgentRuns, HearsAll, MissesSome
      <4>2. /\ root'[r].since = root[r].since /\ root[r].faulty \in {0, 1, 2}
        BY <1>2, <2>1, <3>3 DEF HearsAll, MissesSome, WatchInv, RoundsOnTime
      <4>3. LastRound(r, m)' <= LastRound(r, m)
        <5>1. CASE HearsAll(r)
          <6>1. LastRound(r, m) = root[r].wake + 3 * Timer
            BY <5>1 DEF HearsAll, LastRound, RoundsLeft
          <6> QED BY <1>2, <1>3, <3>1, <5>1, <6>1 DEF HearsAll
        <5>2. CASE MissesSome(r)
          <6>1. root'[r].faulty = root[r].faulty + 1
            BY <3>3, <5>2 DEF MissesSome
          <6>2. LastRound(r, m)' = root[r].wake + (2 - root[r].faulty) * Timer
            BY <1>2, <1>3, <3>1, <4>2, <6>1
          <6>3. LastRound(r, m) \in {root[r].wake + (2 - root[r].faulty) * Timer,
                                     root[r].wake + 3 * Timer}
            BY DEF LastRound, RoundsLeft
          <6> QED BY <1>2, <4>2, <6>2, <6>3
        <5> QED BY <2>1, <5>1, <5>2
      <4>4. LastRound(r, m) \in Int /\ LastRound(r, m)' \in Int
        <5>1. RoundsLeft(r, m) \in {0, 1, 2, 3}  BY <4>2 DEF RoundsLeft
        <5>2. RoundsLeft(r, m) * Timer \in Int  BY <5>1
        <5>3. root'[r].faulty \in {0, 1, 2, 3}
          BY <2>1, <3>3, <4>2 DEF HearsAll, MissesSome
        <5> QED BY <1>2, <3>1, <5>2, <5>3 DEF LastRound
      <4> QED BY <1>1, <1>2, <3>0, <3>3, <4>1, <4>2, <4>3, <4>4 DEF WatchInv, NoticedInTime
    <3> QED BY <1>2, <2>1, <3>2, <3>3
  <2> QED BY <2>3, <2>4 DEF NoticedInTime
<1> QED BY <1>4, <1>5

(* The other steps are between two rounds. *)
LEMMA AgentStepNotices ==
    ASSUME WatchInv, TypeOK', NEW a \in Agents, AgentStep(a), NEW r \in Roots
    PROVE  RoundsOnTime(r)' /\ NoticedInTime(r)'
<1> USE DEF WatchInv
<1>1. UNCHANGED <<now, downSince>>
  BY DEF AgentStep, AgentStarts, AgentCounts, AgentIsUp, AgentBeats, AgentWatches,
         AgentElects
<1>2. DownMachines' = DownMachines  BY StepOfOneAgent, SameDown DEF AgentRuns
<1>3. root'[r] = root[r] \/ (root'[r].warmup /\ root'[r].stage = "starting")
  <2>1. UNCHANGED root \/ RunRootAgent(a[1], TRUE) \/ RunRootAgent(a[1], FALSE)
    BY DEF AgentStep, AgentStarts, AgentCounts, AgentIsUp, AgentBeats, AgentWatches,
           AgentElects
  <2>2. ASSUME NEW b \in BOOLEAN, RunRootAgent(a[1], b)
        PROVE  root'[r] = root[r] \/ (root'[r].warmup /\ root'[r].stage = "starting")
    <3> DEFINE new == [NoRoot EXCEPT !.stage = "starting", !.machine = a[1],
                                     !.initMode = b, !.wake = now]
    <3>1. PICK l : root' = root \/ root' = [root EXCEPT ![l] = new]
      BY <2>2 DEF RunRootAgent
    <3>2. new.warmup /\ new.stage = "starting"  BY DEF NoRoot
    <3> HIDE DEF new
    <3> QED BY <3>1, <3>2 DEF TypeOK
  <2> QED BY <2>1, <2>2
<1>4. \A m \in MachineRanks :
          \/ heartbeat'[m] = heartbeat[m]
          \/ m = a[1] /\ heartbeat'[m] = agent[a].beats + 1
  BY DEF AgentStep, AgentStarts, AgentCounts, AgentIsUp, AgentBeats, AgentWatches,
         AgentElects, TypeOK, etcd
<1>5. a[1] \notin DownMachines /\ agent[a].beats + 1 # Missing
  BY StepOfOneAgent DEF DownMachines, HasAgent, AgentRuns, TypeOK, AgentState
<1> QED BY <1>1, <1>2, <1>3, <1>4, <1>5, BetweenRounds

LEMMA RootStepNotices ==
    ASSUME WatchInv, TypeOK', NEW q \in Roots, RootStep(q), NEW r \in Roots
    PROVE  RoundsOnTime(r)' /\ NoticedInTime(r)'
<1> USE DEF WatchInv
<1>0. /\ root \in [Roots -> RootState] /\ now \in Nat /\ Grace \in Nat
      /\ root[r] \in RootState /\ root[q] \in RootState
  BY Numbers DEF TypeOK
<1>1. CASE r = q /\ RootReceives(q)  BY <1>1, InARound
<1>2. CASE r # q \/ ~RootReceives(q)
  <2>1. UNCHANGED <<now, heartbeat, downSince>>
    BY DEF RootStep, RootStarts, RootBeats, RootInitPhase, RootForgetsVotes, RootReceives, etcd
  <2>2. DownMachines' \subseteq DownMachines
    <3>1. UNCHANGED agent \/ \E failed : FailureRecovery(failed)
      BY DEF RootStep, RootStarts, RootBeats, RootInitPhase, RootForgetsVotes, RootReceives
    <3> QED BY <3>1 DEF DownMachines, HasAgent, AgentRuns, FailureRecovery, NoAgent
  <2>3. CASE r # q
    <3>1. root'[r] = root[r]
      <4>1. CASE RootReceives(q)  BY <2>3, <4>1, RoundOutcome
      <4>2. CASE ~RootReceives(q)
        BY <1>0, <2>3, <4>2 DEF RootStep, RootStarts, RootBeats, RootInitPhase,
                                RootForgetsVotes
      <4> QED BY <4>1, <4>2
    <3> QED BY <2>1, <2>2, <3>1, BetweenRounds
  <2>4. CASE r = q
    <3>1. CASE RootBeats(r)
      <4>1. /\ root'[r].stage = root[r].stage /\ root'[r].warmup = root[r].warmup
            /\ root'[r].wake = root[r].wake /\ root'[r].faulty = root[r].faulty
            /\ root'[r].counters = root[r].counters /\ root'[r].since = root[r].since
        BY <1>0, <3>1 DEF RootBeats, RootState
      <4> QED BY <2>1, <2>2, <4>1, BetweenRounds
    <3>2. CASE RootStarts(r) \/ RootInitPhase(r) \/ RootForgetsVotes(r)
      <4>1. root[r].stage # "rounds"
        BY <3>2 DEF RootStarts, RootInitPhase, RootForgetsVotes
      <4>2. root[r].warmup  BY <4>1 DEF RoundsOnTime
      <4>3. CASE RootStarts(r)
        <5>1. root'[r].warmup /\ root'[r].stage # "rounds"
          BY <1>0, <4>2, <4>3 DEF RootStarts, RootState
        <5> QED BY <2>1, <2>2, <5>1, BetweenRounds
      <4>4. CASE RootInitPhase(r)
        <5> DEFINE next == [root[r] EXCEPT !.stage = "settling", !.wake = now + 2 * Timer]
        <5>1. root' = [root EXCEPT ![r] = next] \/ root' = [root EXCEPT ![r] = Recovering(next)]
          BY <4>4 DEF RootInitPhase
        <5>2. root'[r] = next \/ root'[r] = Recovering(next)  BY <1>0, <5>1
        <5>3. /\ next.warmup /\ next.stage = "settling"
              /\ next = [f \in DOMAIN root[r] |-> next[f]]
              /\ {"stage", "warmup", "since"} \subseteq DOMAIN root[r]
          BY <1>0, <4>2 DEF RootState
        <5> HIDE DEF next
        <5>4. root'[r].warmup /\ root'[r].stage # "rounds"
          BY <5>2, <5>3 DEF Recovering
        <5> QED BY <2>1, <2>2, <5>4, BetweenRounds
      <4>5. CASE RootForgetsVotes(r)
        <5>1. root'[r].warmup /\ root'[r].wake = now + Grace
          BY <1>0, <4>2, <4>5 DEF RootForgetsVotes, RootState
        <5> QED BY <1>0, <2>1, <2>2, <5>1, BetweenRounds
      <4> QED BY <3>2, <4>3, <4>4, <4>5
    <3> QED BY <1>2, <2>4, <3>1, <3>2 DEF RootStep
  <2> QED BY <2>3, <2>4
<1> QED BY <1>1, <1>2

LEMMA FailureNotices ==
    ASSUME WatchInv, TypeOK', NEW r \in Roots,
           \/ \E a \in Agents : AgentFails(a)
           \/ \E q \in Roots : RootFails(q)
           \/ \E m \in MachineRanks : MachineFails(m)
    PROVE  RoundsOnTime(r)' /\ NoticedInTime(r)'
<1> USE DEF WatchInv
<1>1. UNCHANGED <<now, heartbeat>>
  BY DEF AgentFails, RootFails, MachineFails, etcd
<1>2. root'[r] = root[r] \/ (root'[r].warmup /\ root'[r].stage = "off")
  <2>1. root'[r] = root[r] \/ root'[r] = NoRoot
    BY DEF AgentFails, RootFails, MachineFails, TypeOK
  <2> QED BY <2>1 DEF NoRoot
<1>3. ASSUME NEW a \in Agents, AgentFails(a), NEW m \in DownMachines'
      PROVE  (m \in DownMachines /\ downSince'[m] = downSince[m]) \/ downSince'[m] = now
  <2>1. /\ \A b \in Agents : b # a => agent'[b] = agent[b]
        /\ downSince' = [downSince EXCEPT ![a[1]] = Down(a[1], Agents \ {a})]
        /\ m \in MachineRanks /\ a[1] \in MachineRanks
    BY <1>3 DEF AgentFails, DownMachines, TypeOK, Agents
  <2>2. CASE m = a[1]
    <3>1. ~\E b \in Agents \ {a} : b[1] = m /\ AgentRuns(b)
      BY <2>1 DEF DownMachines, HasAgent, AgentRuns
    <3> QED BY <2>1, <2>2, <3>1 DEF Down, TypeOK
  <2>3. CASE m # a[1]
    BY <2>1, <2>3 DEF DownMachines, HasAgent, AgentRuns, TypeOK
  <2> QED BY <2>2, <2>3
<1>4. ASSUME NEW q \in Roots, RootFails(q), NEW m \in DownMachines'
      PROVE  m \in DownMachines /\ downSince'[m] = downSince[m]
  BY <1>4 DEF RootFails, DownMachines, HasAgent, AgentRuns
<1>5. ASSUME NEW n \in MachineRanks, MachineFails(n), NEW m \in DownMachines'
      PROVE  (m \in DownMachines /\ downSince'[m] = downSince[m]) \/ downSince'[m] = now
  <2>1. /\ \A b \in Agents : b[1] # n => agent'[b] = agent[b]
        /\ m \in MachineRanks
        /\ downSince' = IF HasAgent(n) THEN [downSince EXCEPT ![n] = now] ELSE downSince
    BY <1>5 DEF MachineFails, DownMachines
  <2>2. CASE m = n  BY <2>1, <2>2 DEF DownMachines, TypeOK
  <2>3. CASE m # n  BY <2>1, <2>3 DEF DownMachines, HasAgent, AgentRuns, TypeOK
  <2> QED BY <2>2, <2>3
<1>6. \A m \in DownMachines' : \/ m \in DownMachines /\ downSince'[m] = downSince[m]
                               \/ downSince'[m] = now
  BY <1>3, <1>4, <1>5
<1> QED BY <1>1, <1>2, <1>6, BetweenRounds

LEMMA TickNotices ==
    ASSUME WatchInv, TypeOK', Tick, NEW r \in Roots
    PROVE  RoundsOnTime(r)' /\ NoticedInTime(r)'
<1>1. now' = now + 1 /\ UNCHANGED <<heartbeat, agent, root, downSince>>
  BY DEF Tick, etcd
<1>2. root[r].stage = "rounds" => now < root[r].wake
  BY DEF Tick, RootOnTime, RootRuns, Slack, WatchInv, TypeOK, RootState
<1>3. now \in Nat /\ root[r].wake \in Nat /\ Timer \in Nat
  BY Numbers DEF WatchInv, TypeOK, RootState
<1>4. RoundsOnTime(r)'  BY <1>1, <1>2, <1>3 DEF WatchInv, RoundsOnTime
<1>5. NoticedInTime(r)'
  BY <1>1 DEF WatchInv, NoticedInTime, DownMachines, HasAgent, AgentRuns, LastRound,
              RoundsLeft, Silent
<1> QED BY <1>4, <1>5

LEMMA NoticeStep ==
    ASSUME WatchInv, [Next]_vars
    PROVE  WatchInv'
<1>0. TypeOK'  BY AgentTypeStep DEF WatchInv
<1>1. CASE UNCHANGED vars
  BY <1>1 DEF vars, etcd, WatchInv, TypeOK, RoundsOnTime, NoticedInTime, DownMachines,
              HasAgent, AgentRuns, LastRound, RoundsLeft, Silent
<1>2. CASE Next
  <2>1. ASSUME NEW r \in Roots PROVE RoundsOnTime(r)' /\ NoticedInTime(r)'
    BY <1>0, <1>2, AgentStepNotices, RootStepNotices, FailureNotices, TickNotices DEF Next
  <2> QED BY <1>0, <2>1 DEF WatchInv
<1> QED BY <1>1, <1>2

(* After the warm-up every failure is noticed within four rounds, whatever
   fails and whatever the periods and delays are: a beat that was sent
   before the failure is read at most one round later, and each of the
   next three finds some machine silent or ends in a recovery. *)
THEOREM FailureIsNoticedInTime == Spec => []FailureIsNoticed
<1>1. Init => WatchInv
  <2> SUFFICES ASSUME Init PROVE WatchInv  OBVIOUS
  <2>1. \A r \in Roots : root[r] = NoRoot  BY DEF Init
  <2> QED BY <2>1, AgentTypeInit DEF WatchInv, RoundsOnTime, NoticedInTime, NoRoot
<1>2. WatchInv /\ [Next]_vars => WatchInv'  BY NoticeStep
<1>3. WatchInv => FailureIsNoticed
  <2> SUFFICES ASSUME WatchInv, NEW r \in Roots, NEW m \in MachineRanks,
                      root[r].stage = "rounds", ~root[r].warmup, ~HasAgent(m)
               PROVE  \/ now <= downSince[m] + 4 * Timer
                      \/ now <= root[r].since + 4 * Timer
    BY DEF FailureIsNoticed
  <2>1. /\ now \in Nat /\ root[r].wake \in Nat /\ root[r].since \in Nat
        /\ downSince[m] \in Nat /\ root[r].faulty \in Nat
        /\ now <= root[r].wake /\ root[r].faulty < 3
    BY LimitOfRounds DEF WatchInv, TypeOK, RootState, RoundsOnTime
  <2>2. m \in DownMachines  BY DEF DownMachines
  <2>3. RoundsLeft(r, m) \in {0, 1, 2, 3}
    BY <2>1, LimitOfRounds DEF RoundsLeft
  <2>4. RoundsLeft(r, m) * Timer \in Nat  BY <2>3, LimitOfRounds
  <2>5. now <= LastRound(r, m) /\ LastRound(r, m) \in Nat
    BY <2>1, <2>4 DEF LastRound
  <2> QED BY <2>1, <2>2, <2>5, LimitOfRounds DEF WatchInv, NoticedInTime
<1> QED BY <1>1, <1>2, <1>3, PTL DEF Spec
----------------------------------------------------------------------------
(* A warm-up ends.  Again only worker agents fail, and they beat in time. *)

(* What a step of a worker agent does to its own state, to the votes and
   to the heartbeats, when nobody votes again. *)
Enters(a, from, to) ==
    /\ agent[a].stage = from /\ agent'[a].stage = to
    /\ agent'[a].beats = agent[a].beats
    /\ UNCHANGED heartbeat

Votes(a) == Enters(a, "launched", "counting") /\ votes' = votes \cup {a[1]}

Checks(a) ==
    /\ \/ Enters(a, "restarted", "checking")
       \/ Enters(a, "counting", "checking") /\ votes = MachineRanks
    /\ agent'[a].wake = now
    /\ UNCHANGED votes

Watches(a) ==
    /\ \/ Enters(a, "counting", "counting")
       \/ Enters(a, "checking", "watching") /\ agent'[a].beatAt = now
       \/ /\ Enters(a, "watching", "watching") \/ Enters(a, "watching", "blind")
          /\ agent'[a].beatAt = agent[a].beatAt
    /\ UNCHANGED votes

Beats(a) ==
    /\ Beating(a) /\ now >= agent[a].beatAt
    /\ agent'[a].stage = agent[a].stage
    /\ agent'[a].beats = agent[a].beats + 1
    /\ agent'[a].beatAt = now + HeartbeatPeriod
    /\ heartbeat' = [heartbeat EXCEPT ![a[1]] = agent[a].beats + 1]
    /\ UNCHANGED votes

LEMMA AgentOutcome ==
    ASSUME TimelyAgents, IInv, NEW a \in Agents, AgentStep(a), TypeOK'
    PROVE  /\ UNCHANGED <<now, up, launches, faults, downSince>>
           /\ \A b \in Agents : b # a => agent'[b] = agent[b]
           /\ Votes(a) \/ Checks(a) \/ Watches(a) \/ Beats(a)
<1>1. UNCHANGED <<now, up, launches, faults, downSince>>
  BY DEF AgentStep, AgentStarts, AgentCounts, AgentIsUp, AgentBeats, AgentWatches,
         AgentElects
<1>2. \A b \in Agents : b # a => agent'[b] = agent[b]
  BY StepOfOneAgent DEF IInv
<1>3. agent \in [Agents -> AgentState] /\ agent[a] \in AgentState
  BY DEF IInv, TypeOK
<1>4. CASE AgentStarts(a)
  <2>1. CASE agent[a].stage = "launched"
    BY <1>3, <1>4, <2>1 DEF AgentStarts, Votes, Enters, AgentState
  <2>2. CASE agent[a].stage = "restarted"
    BY <1>3, <1>4, <2>2 DEF AgentStarts, Checks, Enters, AgentState
  <2> QED BY <1>1, <1>2, <1>4, <2>1, <2>2 DEF AgentStarts
<1>5. CASE AgentCounts(a)
  <2>1. agent[a].stage = "counting" /\ UNCHANGED <<votes, heartbeat>>
    BY <1>5 DEF AgentCounts, etcd
  <2>2. CASE votes = MachineRanks
    <3>1. agent' = [agent EXCEPT ![a].stage = "checking", ![a].wake = now]
      BY <1>5, <2>2 DEF AgentCounts
    <3> QED BY <1>1, <1>2, <1>3, <2>1, <2>2, <3>1 DEF Checks, Enters, AgentState
  <2>3. CASE votes # MachineRanks
    <3>1. agent' = [agent EXCEPT ![a].wake = now + PollPeriod]
      BY <1>5, <2>3 DEF AgentCounts
    <3> QED BY <1>1, <1>2, <1>3, <2>1, <3>1 DEF Watches, Enters, AgentState
  <2> QED BY <2>2, <2>3
<1>6. CASE AgentIsUp(a)
  BY <1>1, <1>2, <1>3, <1>6 DEF AgentIsUp, Watches, Enters, AgentState, etcd
<1>7. CASE AgentBeats(a)
  BY <1>1, <1>2, <1>3, <1>7 DEF AgentBeats, Beats, AgentState
<1>8. CASE AgentWatches(a)
  <2>1. agent'[a].stage # "voting"  BY <1>8, AgentWatchesInv
  <2>2. /\ agent[a].stage = "watching" /\ UNCHANGED heartbeat
        /\ \/ agent' = [agent EXCEPT ![a].stage = "blind"] /\ UNCHANGED votes
           \/ /\ agent' = [agent EXCEPT ![a].seen = rootHeart, ![a].misses = 0,
                                    ![a].wake = now + Timer]
              /\ UNCHANGED votes
           \/ /\ agent' = [agent EXCEPT ![a].misses = @ + 1, ![a].wake = now + Timer]
              /\ UNCHANGED votes
           \/ agent' = [agent EXCEPT ![a].stage = "voting", ![a].misses = 0,
                                    ![a].wake = now + Timer]
    BY <1>8 DEF AgentWatches
  <2> QED BY <1>1, <1>2, <1>3, <2>1, <2>2 DEF Watches, Enters, AgentState
<1>9. ~AgentElects(a)  BY AgentElectsNever
<1> QED BY <1>4, <1>5, <1>6, <1>7, <1>8, <1>9 DEF AgentStep

(* An agent starts a root agent only when all have voted, and there is
   none yet. *)
LEMMA AgentStartsRoot ==
    ASSUME IInv, NEW a \in Agents, AgentStep(a), NEW r \in Roots
    PROVE  \/ root'[r] = root[r]
           \/ /\ ~RootRuns(r) /\ votes = MachineRanks /\ UNCHANGED votes
              /\ agent[a].stage = "counting"
              /\ root'[r].stage = "starting"
              /\ root'[r].counters = [m \in MachineRanks |-> Missing]
<1>1. ~AgentElects(a)  BY AgentElectsNever
<1>2. \/ UNCHANGED root
      \/ /\ RunRootAgent(a[1], TRUE) /\ votes = MachineRanks /\ UNCHANGED votes
         /\ agent[a].stage = "counting" /\ IsLeader(a, 0)
  BY <1>1 DEF AgentStep, AgentStarts, AgentCounts, AgentIsUp, AgentBeats, AgentWatches, etcd
<1>3. CASE RunRootAgent(a[1], TRUE) /\ agent[a].stage = "counting" /\ IsLeader(a, 0)
  <2> DEFINE new == [NoRoot EXCEPT !.stage = "starting", !.machine = a[1],
                                   !.initMode = TRUE, !.wake = now]
  <2>1. PICK l : UNCHANGED root \/ root' = [root EXCEPT ![l] = new]
    BY <1>3 DEF RunRootAgent
  <2>2. new.stage = "starting" /\ new.counters = [m \in MachineRanks |-> Missing]
    BY DEF NoRoot
  <2> HIDE DEF new
  <2>3. root'[r] = root[r] \/ root'[r] = new  BY <2>1 DEF IInv, TypeOK
  <2>4. ~RootRuns(r)  BY <1>3 DEF IInv, OneElection, IsLeader
  <2> QED BY <1>2, <1>3, <2>2, <2>3, <2>4
<1> QED BY <1>2, <1>3

(* What a step of a worker agent keeps of EndsInv. *)
LEMMA AgentStepInTime ==
    ASSUME TimelyAgents, EndsInv, NEW a \in Agents, AgentStep(a), TypeOK'
    PROVE  StartsOnTime' /\ AllHaveVoted'
<1> USE DEF EndsInv, LaunchInv, IInv
<1>1. /\ UNCHANGED now
      /\ \A b \in Agents : b # a => agent'[b] = agent[b]
      /\ Votes(a) \/ Checks(a) \/ Watches(a) \/ Beats(a)
  BY AgentOutcome
<1>2. /\ now \in Nat /\ StartDelay \in Nat /\ CheckDelay \in Nat
      /\ agent[a].beats \in Nat /\ a[1] \in MachineRanks
  BY Numbers DEF TypeOK, AgentState, Agents
<1>3. StartsOnTime'
  <2>1. CASE Votes(a)
    BY <1>1, <2>1 DEF Votes, Enters, StartsOnTime, Beating, Slack
  <2>2. CASE Checks(a)
    BY <1>1, <1>2, <2>2 DEF Checks, Enters, StartsOnTime, Beating, Slack
  <2>3. CASE Watches(a)
    BY <1>1, <1>2, <2>3 DEF Watches, Enters, StartsOnTime, Beating, Slack
  <2>4. CASE Beats(a)
    BY <1>1, <1>2, <2>4 DEF Beats, StartsOnTime, Beating, Slack
  <2> QED BY <1>1, <2>1, <2>2, <2>3, <2>4
<1>4. \A b \in Agents : b # a /\ AgentRuns(b) => b[1] # a[1]
  BY StepOfOneAgent, OnlyAgent DEF AgentRuns
<1>5. \A b \in Agents : agent'[b].stage \in {"launched", "counting"} =>
          heartbeat'[b[1]] = Missing
  <2> SUFFICES ASSUME NEW b \in Agents, agent'[b].stage \in {"launched", "counting"}
               PROVE  heartbeat'[b[1]] = Missing
    OBVIOUS
  <2>1. CASE b = a
    BY <1>1, <2>1 DEF Votes, Checks, Watches, Beats, Beating, Enters, AllHaveVoted
  <2>2. CASE b # a
    <3>1. b[1] # a[1] /\ heartbeat[b[1]] = Missing /\ b[1] \in MachineRanks
      BY <1>1, <1>4, <2>2 DEF AgentRuns, AllHaveVoted, Agents
    <3> QED BY <1>1, <3>1 DEF Votes, Checks, Watches, Beats, Enters, TypeOK
  <2> QED BY <2>1, <2>2
<1>6. votes' = votes \/ (votes' = votes \cup {a[1]} /\ agent[a].stage = "launched")
  BY <1>1 DEF Votes, Checks, Watches, Beats, Enters
<1>7. \A b \in Agents : agent'[b].stage = "launched" => b # a /\ agent[b].stage = "launched"
  BY <1>1 DEF Votes, Checks, Watches, Beats, Beating, Enters
<1>8. \A b \in Agents : agent'[b].stage = "launched" => b[1] \notin votes'
  BY <1>4, <1>6, <1>7 DEF AllHaveVoted, AgentRuns
<1>9. \A r \in Roots : RootRuns(r)' => \A b \in Agents : agent'[b].stage # "launched"
  <2> SUFFICES ASSUME NEW r \in Roots, RootRuns(r)', NEW b \in Agents,
                      agent'[b].stage = "launched"
               PROVE  FALSE
    OBVIOUS
  <2>1. ~RootRuns(r)  BY <1>7 DEF AllHaveVoted
  <2>2. votes' = MachineRanks  BY <2>1, AgentStartsRoot DEF RootRuns
  <2> QED BY <1>8, <2>2 DEF Agents
<1>10. \A r \in Roots : root'[r].stage = "rounds" => votes' = {}
  <2> SUFFICES ASSUME NEW r \in Roots, root'[r].stage = "rounds" PROVE votes' = {}
    OBVIOUS
  <2>1. root[r].stage = "rounds"  BY AgentStartsRoot
  <2> QED BY <1>6, <2>1 DEF AllHaveVoted, RootRuns
<1> QED BY <1>3, <1>5, <1>8, <1>9, <1>10 DEF AllHaveVoted

(* No agent waits for the votes any more when rounds take place. *)
LEMMA AgentStepWarmsUp ==
    ASSUME TimelyAgents, EndsInv, NEW a \in Agents, AgentStep(a), TypeOK', NEW r \in Roots
    PROVE  LaunchesCounted(r)' /\ WarmUpEnds(r)'
<1> USE DEF EndsInv, LaunchInv, IInv
<1>1. /\ UNCHANGED <<now, launches>>
      /\ \A b \in Agents : b # a => agent'[b] = agent[b]
      /\ Votes(a) \/ Checks(a) \/ Watches(a) \/ Beats(a)
  BY AgentOutcome
<1>2. CASE root'[r] # root[r]
  BY <1>2, AgentStartsRoot DEF LaunchesCounted, WarmUpEnds, NothingSeen
<1>3. CASE root'[r] = root[r]
  <2>1. LaunchesCounted(r)'  BY <1>1, <1>3 DEF LaunchesCounted, NothingSeen
  <2> SUFFICES ASSUME root[r].stage = "rounds" PROVE WarmUpEnds(r)'
    BY <1>3, <2>1 DEF WarmUpEnds
  <2>2. votes = {} /\ ~Votes(a) /\ agent[a].stage # "launched"
    BY DEF AllHaveVoted, RootRuns, Votes, Enters
  <2>3. 0 \in MachineRanks  BY NoProcessType
  <2>4. ~Enters(a, "counting", "checking") \/ ~Checks(a)
    BY <2>2, <2>3 DEF Checks, Enters
  <2>5. /\ now \in Nat /\ StartDelay \in Nat /\ CheckDelay \in Nat /\ Timer \in Nat
        /\ a[1] \in MachineRanks /\ root[r].wake \in Nat /\ root[r].since \in Nat
        /\ agent[a].beats \in Nat /\ agent[a].wake \in Nat /\ agent[a].beatAt \in Nat
        /\ root[r].counters[a[1]] \in Nat \cup {Missing}
    BY Numbers DEF TypeOK, AgentState, RootState, Agents
  <2>6. AllBeatBy(r)' = AllBeatBy(r) /\ AllBeatBy(r) \in Nat /\ root[r].since <= AllBeatBy(r)
    BY <1>3, <2>5 DEF AllBeatBy
  <2>7. \A m \in MachineRanks : HasAgent(m)' <=> HasAgent(m)
    BY StepOfOneAgent DEF HasAgent, AgentRuns
  <2>8. ASSUME root[r].warmup, NEW b \in Agents, AgentRuns(b)', agent'[b].stage # "counting",
               agent'[b].beats = 0
        PROVE  FirstBeatBy(b)' <= AllBeatBy(r)
    <3>1. CASE b # a
      BY <1>1, <2>8, <3>1 DEF WarmUpEnds, AgentRuns, FirstBeatBy
    <3>2. CASE b = a
      <4>1. ~Beats(a)  BY <2>5, <2>8, <3>2 DEF Beats
      <4>2. CASE Checks(a)
        <5>1. Enters(a, "restarted", "checking") /\ agent'[a].wake = now
          BY <2>4, <4>2 DEF Checks
        <5>2. now <= agent[a].wake + StartDelay
          BY <5>1 DEF Enters, StartsOnTime, Slack
        <5>3. /\ FirstBeatBy(a) = agent[a].wake + StartDelay + 2 * CheckDelay
              /\ FirstBeatBy(a)' = now + 2 * CheckDelay
          BY <5>1 DEF Enters, FirstBeatBy
        <5>4. FirstBeatBy(a) <= AllBeatBy(r)
          BY <2>8, <3>2, <5>1 DEF Enters, WarmUpEnds, AgentRuns
        <5> QED BY <2>5, <2>6, <3>2, <5>2, <5>3, <5>4
      <4>3. CASE Watches(a)
        <5>1. /\ agent[a].stage \in {"checking", "watching"} /\ agent[a].beats = 0
              /\ agent'[a].stage \in {"watching", "blind"}
          BY <2>8, <3>2, <4>3 DEF Watches, Enters
        <5>2. FirstBeatBy(a) <= AllBeatBy(r)
          BY <2>8, <5>1 DEF WarmUpEnds, AgentRuns
        <5>3. CASE agent[a].stage = "checking"
          <6>1. now <= agent[a].wake + CheckDelay /\ agent'[a].beatAt = now
            BY <4>3, <5>3 DEF Watches, Enters, StartsOnTime, Slack
          <6>2. /\ FirstBeatBy(a) = agent[a].wake + 2 * CheckDelay
                /\ FirstBeatBy(a)' = now + CheckDelay
            BY <5>1, <5>3, <6>1 DEF FirstBeatBy
          <6> QED BY <2>5, <2>6, <3>2, <5>2, <6>1, <6>2
        <5>4. CASE agent[a].stage = "watching"
          BY <3>2, <4>3, <5>1, <5>2, <5>4 DEF Watches, Enters, FirstBeatBy
        <5> QED BY <5>1, <5>3, <5>4
      <4> QED BY <1>1, <2>2, <4>1, <4>2, <4>3
    <3> QED BY <3>1, <3>2
  <2>9. ASSUME root[r].warmup, \A m \in MachineRanks : heartbeat'[m] # Missing
        PROVE  \/ root[r].wake <= AllBeatBy(r) + Timer
               \/ /\ ~NothingSeen(r)
                  /\ \/ \E m \in MachineRanks : ~HasAgent(m)
                     \/ /\ root[r].wake <= AllBeatBy(r) + 2 * Timer
                        /\ \A b \in Agents : AgentRuns(b)' => WillBeHeard(r, b)'
    <3>1. CASE \E m \in MachineRanks : heartbeat[m] = Missing
      <4>1. PICK m \in MachineRanks : heartbeat[m] = Missing  BY <3>1
      <4>2. Beats(a) /\ a[1] = m
        BY <1>1, <2>9, <4>1 DEF Votes, Checks, Watches, Enters, Beats, TypeOK
      <4>3. agent[a].beats = 0 /\ AgentRuns(a) /\ Beating(a)
        <5>1. Beating(a) /\ AgentRuns(a)  BY <4>2 DEF Beats, Beating, AgentRuns
        <5>2. ~(agent[a].beats > 0)
          <6>1. heartbeat[a[1]] = -1  BY <4>1, <4>2
          <6>2. agent[a].beats > 0 => heartbeat[a[1]] = agent[a].beats
            BY <5>1 DEF CountersAreCurrent
          <6> QED BY <2>5, <6>1, <6>2
        <5> QED BY <2>5, <5>1, <5>2
      <4>4. now <= agent[a].beatAt + CheckDelay  BY <4>3 DEF ThreadsOnTime
      <4>5. FirstBeatBy(a) = agent[a].beatAt + CheckDelay
        BY <4>3 DEF FirstBeatBy, Beating
      <4>6. FirstBeatBy(a) <= AllBeatBy(r)
        BY <2>9, <4>3 DEF WarmUpEnds, Beating
      <4>7. root[r].wake <= now + Timer \/ root[r].wake <= root[r].since
        BY DEF WarmUpEnds
      <4> QED BY <2>5, <2>6, <4>4, <4>5, <4>6, <4>7
    <3>2. CASE \A m \in MachineRanks : heartbeat[m] # Missing
      <4>1. ASSUME \A b \in Agents : AgentRuns(b) => WillBeHeard(r, b),
                   NEW b \in Agents, AgentRuns(b)'
            PROVE  WillBeHeard(r, b)'
        <5>1. CASE b # a  BY <1>1, <1>3, <4>1, <5>1 DEF WillBeHeard, AgentRuns
        <5>2. CASE b = a
          <6>1. WillBeHeard(r, a)  BY <4>1, StepOfOneAgent DEF AgentRuns
          <6>2. agent[a].stage \in {"watching", "voting", "blind"}
            BY <6>1 DEF WillBeHeard, CountersAreCurrent, Beating
          <6>3. CASE Beats(a)
            <7>1. agent'[a].beats = agent[a].beats + 1  BY <6>3 DEF Beats
            <7>2. agent[a].beats >= root[r].counters[a[1]]
              BY <6>1 DEF WillBeHeard
            <7>3. agent'[a].beats > 0 /\ agent'[a].beats > root'[r].counters[a[1]]
              BY <1>3, <2>5, <7>1, <7>2
            <7>4. WillBeHeard(r, a)'  BY <1>3, <2>5, <7>1, <7>3 DEF WillBeHeard
            <7> QED BY <5>2, <7>4
          <6>4. CASE Watches(a)
            <7>1. agent'[a].beatAt = agent[a].beatAt /\ agent'[a].beats = agent[a].beats
              BY <6>2, <6>4 DEF Watches, Enters
            <7>2. WillBeHeard(r, a)'  BY <1>3, <6>1, <7>1 DEF WillBeHeard
            <7> QED BY <5>2, <7>2
          <6> QED BY <1>1, <2>2, <6>2, <6>3, <6>4 DEF Checks, Enters
        <5> QED BY <5>1, <5>2
      <4> QED BY <2>9, <3>2, <4>1 DEF WarmUpEnds
    <3> QED BY <3>1, <3>2
  <2>10. root[r].wake <= now + Timer \/ root[r].wake <= root[r].since
    BY DEF WarmUpEnds
  <2>11. NothingSeen(r)' <=> NothingSeen(r)  BY <1>3 DEF NothingSeen
  <2> QED BY <1>1, <1>3, <2>6, <2>7, <2>8, <2>9, <2>10, <2>11 DEF WarmUpEnds
<1> QED BY <1>2, <1>3

(* What a step of a root agent does to the agents: it may restart some
   that do not run. *)
LEMMA RootRestarts ==
    ASSUME TypeOK, NEW r \in Roots, RootStep(r)
    PROVE  /\ UNCHANGED <<now, heartbeat, faults>>
           /\ \A b \in Agents :
                  \/ agent'[b] = agent[b]
                  \/ /\ agent[b].stage = "off" /\ agent'[b].stage = "restarted"
                     /\ agent'[b].wake = now /\ agent'[b].beats = 0
           /\ RootRuns(r)
           /\ \A q \in Roots : q # r => root'[q] = root[q]
<1> USE DEF RootStep, RootStarts, RootBeats, RootInitPhase, RootForgetsVotes, RootReceives
<1>1. UNCHANGED <<now, heartbeat, faults>>  BY DEF etcd
<1>2. UNCHANGED agent \/ \E failed : FailureRecovery(failed)  OBVIOUS
<1>3. \A b \in Agents :
          \/ agent'[b] = agent[b]
          \/ /\ agent[b].stage = "off" /\ agent'[b].stage = "restarted"
             /\ agent'[b].wake = now /\ agent'[b].beats = 0
  BY ZenonT(60), <1>2 DEF FailureRecovery, NoAgent, AgentRuns
<1>4. RootRuns(r)  BY DEF RootRuns, RootBeating
<1>5. \A q \in Roots : q # r => root'[q] = root[q]
  <2>1. CASE RootReceives(r)  BY <2>1, RoundOutcome
  <2>2. CASE ~RootReceives(r)  BY <2>2 DEF TypeOK
  <2> QED BY <2>1, <2>2
<1> QED BY <1>1, <1>3, <1>4, <1>5

LEMMA RootStepInTime ==
    ASSUME TimelyAgents, EndsInv, NEW r \in Roots, RootStep(r), TypeOK'
    PROVE  StartsOnTime' /\ AllHaveVoted'
<1> USE DEF EndsInv, LaunchInv, IInv
<1>1. /\ UNCHANGED <<now, heartbeat>>
      /\ \A b \in Agents :
             \/ agent'[b] = agent[b]
             \/ /\ agent[b].stage = "off" /\ agent'[b].stage = "restarted"
                /\ agent'[b].wake = now /\ agent'[b].beats = 0
      /\ RootRuns(r)
      /\ \A q \in Roots : q # r => root'[q] = root[q]
  BY RootRestarts
<1>2. now \in Nat /\ StartDelay \in Nat  BY Numbers DEF TypeOK
<1>3. StartsOnTime'  BY <1>1, <1>2 DEF StartsOnTime, Slack, Beating
<1>4. /\ \A b \in Agents : agent'[b].stage \in {"launched", "counting"} =>
             heartbeat'[b[1]] = Missing
      /\ \A b \in Agents : agent'[b].stage # "launched"
  BY <1>1 DEF AllHaveVoted
<1>5. \A q \in Roots : q # r => root'[q].stage = "off"
  BY <1>1 DEF OneElection, RootRuns
<1>6. root'[r].stage = "rounds" => votes' = {}
  <2>1. CASE RootReceives(r)  BY <2>1, RoundOutcome DEF AllHaveVoted
  <2>2. CASE RootForgetsVotes(r)  BY <2>2 DEF RootForgetsVotes
  <2>3. CASE RootInitPhase(r)
    <3>1. root[r].stage = "init" /\ root[r].initMode
      BY <2>3 DEF RootInitPhase, OneElection, RootRuns
    <3>2. root' = [root EXCEPT ![r] = [root[r] EXCEPT !.stage = "settling",
                                                     !.wake = now + 2 * Timer]]
      BY <2>3, <3>1 DEF RootInitPhase
    <3> QED BY <3>2 DEF TypeOK, RootState
  <2>4. CASE RootStarts(r)  BY <2>4 DEF RootStarts, TypeOK, RootState
  <2>5. CASE RootBeats(r)
    BY <2>5 DEF RootBeats, AllHaveVoted, TypeOK, RootState
  <2> QED BY <2>1, <2>2, <2>3, <2>4, <2>5 DEF RootStep
<1> QED BY <1>3, <1>4, <1>5, <1>6 DEF AllHaveVoted

(* The state of a root agent, as far as its warm-up depends on it. *)
LEMMA OutsideARound ==
    ASSUME TimelyAgents, EndsInv, NEW r \in Roots, RootStep(r), ~RootReceives(r), TypeOK'
    PROVE  LaunchesCounted(r)' /\ WarmUpEnds(r)'
<1> USE DEF EndsInv, LaunchInv, IInv
<1>0. root \in [Roots -> RootState] /\ root[r] \in RootState /\ launches \in Nat /\ now \in Nat
  BY DEF TypeOK
<1>1. CASE RootStarts(r)
  <2>1. root'[r].stage = "init" /\ root'[r].counters = root[r].counters
        /\ root[r].stage = "starting"
    BY <1>0, <1>1 DEF RootStarts, RootState
  <2> QED BY <2>1 DEF LaunchesCounted, WarmUpEnds, NothingSeen
<1>2. CASE RootInitPhase(r)
  <2>1. root[r].stage = "init" /\ root[r].initMode
    BY <1>2 DEF RootInitPhase, OneElection, RootRuns
  <2>2. /\ launches' = launches + 1
        /\ root' = [root EXCEPT ![r] = [root[r] EXCEPT !.stage = "settling",
                                                      !.wake = now + 2 * Timer]]
    BY <1>2, <2>1 DEF RootInitPhase
  <2>3. root'[r].stage = "settling" /\ root'[r].counters = root[r].counters
    BY <1>0, <2>2 DEF RootState
  <2> QED BY <1>0, <2>1, <2>2, <2>3 DEF LaunchesCounted, WarmUpEnds, NothingSeen
<1>3. CASE RootBeats(r)
  <2>1. /\ root'[r].stage = root[r].stage /\ root'[r].warmup = root[r].warmup
        /\ root'[r].wake = root[r].wake /\ root'[r].since = root[r].since
        /\ root'[r].counters = root[r].counters
        /\ UNCHANGED <<now, launches, agent, heartbeat>>
    BY <1>0, <1>3 DEF RootBeats, RootState
  <2>2. LaunchesCounted(r)'  BY <2>1 DEF LaunchesCounted, NothingSeen
  <2>3. WarmUpEnds(r)'
    BY ZenonT(60), <2>1
       DEF WarmUpEnds, NothingSeen, WillBeHeard, AllBeatBy, FirstBeatBy, AgentRuns, HasAgent
  <2> QED BY <2>2, <2>3
<1>4. CASE RootForgetsVotes(r)
  <2>1. /\ root[r].stage = "settling" /\ root'[r].stage = "rounds"
        /\ root'[r].wake = now + Grace /\ root'[r].since = now + Grace
        /\ root'[r].counters = root[r].counters
        /\ UNCHANGED <<now, launches, agent, heartbeat>>
    BY <1>0, <1>4 DEF RootForgetsVotes, RootState
  <2>2. LaunchesCounted(r)'  BY <2>1 DEF LaunchesCounted, NothingSeen
  <2>3. /\ Grace \in Nat /\ StartDelay \in Nat /\ CheckDelay \in Nat /\ Timer \in Nat
    BY Numbers
  <2>4. AllBeatBy(r)' = now + Grace + StartDelay + 2 * CheckDelay
    BY <2>1 DEF AllBeatBy
  <2>5. ASSUME NEW b \in Agents, AgentRuns(b), agent[b].stage # "counting", agent[b].beats = 0
        PROVE  FirstBeatBy(b) <= AllBeatBy(r)'
    <3>1. agent[b].stage # "launched"  BY <2>1 DEF AllHaveVoted, RootRuns
    <3>2. agent[b].wake \in Nat /\ agent[b].beatAt \in Nat
      BY DEF TypeOK, AgentState
    <3>3. CASE agent[b].stage = "restarted"
      <4>1. agent[b].wake <= now  BY <3>3 DEF StartsOnTime
      <4> QED BY <1>0, <2>3, <2>4, <3>2, <3>3, <4>1 DEF FirstBeatBy
    <3>4. CASE agent[b].stage = "checking"
      <4>1. agent[b].wake <= now  BY <3>4 DEF StartsOnTime
      <4> QED BY <1>0, <2>3, <2>4, <3>2, <3>4, <4>1 DEF FirstBeatBy
    <3>5. CASE Beating(b)
      <4>1. agent[b].beatAt <= now  BY <2>5, <3>5 DEF StartsOnTime
      <4>2. FirstBeatBy(b) = agent[b].beatAt + CheckDelay
        BY <3>5 DEF FirstBeatBy, Beating
      <4> QED BY <1>0, <2>3, <2>4, <3>2, <4>1, <4>2
    <3>6. agent[b].stage \in AgentStages  BY DEF TypeOK, AgentState
    <3> QED BY <2>5, <3>1, <3>3, <3>4, <3>5, <3>6 DEF AgentStages, AgentRuns, Beating
  <2>6. root'[r].wake <= AllBeatBy(r)' + Timer  BY <1>0, <2>1, <2>3, <2>4
  <2>7. \A b \in Agents : FirstBeatBy(b)' = FirstBeatBy(b) /\ AgentRuns(b)' = AgentRuns(b)
    BY <2>1 DEF FirstBeatBy, AgentRuns
  <2>8. root'[r].wake <= root'[r].since  BY <1>0, <2>1, <2>3
  <2>9. WarmUpEnds(r)'  BY <2>1, <2>5, <2>6, <2>7, <2>8 DEF WarmUpEnds
  <2> QED BY <2>2, <2>9
<1> QED BY <1>1, <1>2, <1>3, <1>4 DEF RootStep

(* In a round of the warm-up whose predecessor took place after all agents
   have beaten, every machine is heard. *)
LEMMA AllAreHeard ==
    ASSUME TimelyAgents, IInv, NEW r \in Roots, root[r].stage = "rounds",
           now >= root[r].wake, \A m \in MachineRanks : HasAgent(m),
           \A a \in Agents : AgentRuns(a) => WillBeHeard(r, a)
    PROVE  Silent(r) = {}
<1> SUFFICES ASSUME NEW m \in MachineRanks, heartbeat[m] <= root[r].counters[m]
             PROVE  FALSE
  BY DEF Silent
<1>1. PICK a \in Agents : a[1] = m /\ AgentRuns(a)  BY DEF HasAgent
<1>2. /\ now \in Nat /\ root[r].wake \in Nat /\ agent[a].beats \in Nat
      /\ agent[a].beatAt \in Nat /\ root[r].counters[m] \in Nat \cup {Missing}
  BY DEF IInv, TypeOK, RootState, AgentState
<1>3. /\ agent[a].beats > 0 /\ agent[a].beats >= root[r].counters[m]
      /\ agent[a].beats = root[r].counters[m] =>
             agent[a].beatAt + Timer <= root[r].wake + HeartbeatPeriod
  BY <1>1 DEF WillBeHeard
<1>4. Beating(a) /\ heartbeat[m] = agent[a].beats
  BY <1>1, <1>3 DEF IInv, CountersAreCurrent
<1>5. now <= agent[a].beatAt + CheckDelay  BY <1>4 DEF IInv, ThreadsOnTime
<1>6. agent[a].beats = root[r].counters[m]  BY <1>2, <1>3, <1>4
<1> QED BY <1>2, <1>3, <1>5, <1>6, Numbers DEF TimelyAgents

(* An agent that has not beaten has time left to do so. *)
LEMMA FirstBeatIsAhead ==
    ASSUME IInv, StartsOnTime, AllHaveVoted, NEW r \in Roots, RootRuns(r),
           NEW a \in Agents, AgentRuns(a), agent[a].stage # "counting", agent[a].beats = 0
    PROVE  now <= FirstBeatBy(a) /\ FirstBeatBy(a) \in Nat
<1>1. /\ agent[a].wake \in Nat /\ agent[a].beatAt \in Nat /\ now \in Nat
      /\ StartDelay \in Nat /\ CheckDelay \in Nat /\ agent[a].stage \in AgentStages
  BY Numbers DEF IInv, TypeOK, AgentState
<1>2. CASE agent[a].stage = "restarted"
  <2>1. now <= agent[a].wake + StartDelay  BY <1>2 DEF StartsOnTime, Slack
  <2> QED BY <1>1, <1>2, <2>1 DEF FirstBeatBy
<1>3. CASE agent[a].stage = "checking"
  <2>1. now <= agent[a].wake + CheckDelay  BY <1>3 DEF StartsOnTime, Slack
  <2> QED BY <1>1, <1>3, <2>1 DEF FirstBeatBy
<1>4. CASE Beating(a)
  <2>1. now <= agent[a].beatAt + CheckDelay  BY <1>4 DEF IInv, ThreadsOnTime
  <2>2. FirstBeatBy(a) = agent[a].beatAt + CheckDelay
    BY <1>4 DEF FirstBeatBy, Beating
  <2> QED BY <1>1, <2>1, <2>2
<1>5. agent[a].stage # "launched"  BY DEF AllHaveVoted
<1> QED BY <1>1, <1>2, <1>3, <1>4, <1>5 DEF AgentStages, AgentRuns, Beating

(* The round itself.  One that ends the warm-up, or waits for a first
   heartbeat, or recovers, owes nothing; one of the warm-up that misses
   some machine either comes before the last first heartbeat or has seen
   all, and then the next one hears all. *)
LEMMA RoundWarmsUp ==
    ASSUME TimelyAgents, EndsInv, NEW r \in Roots, RootReceives(r), TypeOK'
    PROVE  LaunchesCounted(r)' /\ WarmUpEnds(r)'
<1> USE DEF EndsInv, LaunchInv, IInv
<1>1. /\ root[r].stage = "rounds" /\ now >= root[r].wake
      /\ UNCHANGED <<now, heartbeat>>
      /\ root'[r].stage = "rounds" /\ root'[r].wake = now + Timer
      /\ \/ Waits(r)
         \/ /\ \A m \in MachineRanks : heartbeat[m] # Missing
            /\ HearsAll(r) \/ MissesSome(r) \/ Recovers(r)
  BY RoundOutcome
<1>2. /\ now \in Nat /\ root[r].wake \in Nat /\ root[r].since \in Nat /\ launches \in Nat
      /\ StartDelay \in Nat /\ CheckDelay \in Nat /\ Timer \in Nat
      /\ \A m \in MachineRanks : heartbeat[m] \in Nat \cup {Missing}
      /\ 0 \in MachineRanks
  BY Numbers, NoProcessType DEF TypeOK, RootState
<1>3. now = root[r].wake  BY <1>1, <1>2 DEF WatchInv, RoundsOnTime
<1>4. launches >= 1  BY <1>1 DEF LaunchesCounted
<1>5. CASE Waits(r)
  <2>1. LaunchesCounted(r)'
    BY <1>1, <1>5 DEF Waits, LaunchesCounted, NothingSeen
  <2>2. AllBeatBy(r)' = AllBeatBy(r)  BY <1>5 DEF Waits, AllBeatBy
  <2>3. \A b \in Agents : FirstBeatBy(b)' = FirstBeatBy(b) /\ AgentRuns(b)' = AgentRuns(b)
    BY <1>5 DEF Waits, FirstBeatBy, AgentRuns
  <2>4. WarmUpEnds(r)'  BY <1>1, <1>2, <1>5, <2>2, <2>3 DEF Waits, WarmUpEnds
  <2> QED BY <2>1, <2>4
<1>6. CASE HearsAll(r)
  <2>1. ~root'[r].warmup /\ UNCHANGED launches  BY <1>6 DEF HearsAll
  <2>2. LaunchesCounted(r)'  BY <1>1, <1>4, <2>1 DEF LaunchesCounted
  <2>3. WarmUpEnds(r)'  BY <1>1, <1>2, <2>1 DEF WarmUpEnds
  <2> QED BY <2>2, <2>3
<1>7. CASE Recovers(r)
  <2>1. /\ FailureRecovery(Silent(r)) /\ ~root[r].warmup  BY <1>7 DEF Recovers
  <2>2. /\ root'[r].since = now /\ launches' = launches + 1
        /\ \A b \in Agents :
               \/ agent'[b] = agent[b]
               \/ agent'[b].stage = "restarted" /\ agent'[b].wake = now
    BY <1>7, <2>1 DEF Recovers, FailureRecovery, NoAgent
  <2>3. LaunchesCounted(r)'  BY <1>1, <1>2, <1>4, <2>2 DEF LaunchesCounted
  <2>4. AllBeatBy(r)' = now + StartDelay + 2 * CheckDelay
    BY <2>2 DEF AllBeatBy
  <2>5. ASSUME NEW b \in Agents, AgentRuns(b)', agent'[b].beats = 0
        PROVE  FirstBeatBy(b)' <= AllBeatBy(r)'
    <3>1. ~(AgentRuns(b) /\ agent[b].beats = 0)
      BY <1>1, <2>1 DEF RootHearsAgents
    <3>2. agent'[b].stage = "restarted" /\ agent'[b].wake = now
      BY <2>2, <2>5, <3>1 DEF AgentRuns
    <3> QED BY <1>2, <2>4, <3>2 DEF FirstBeatBy
  <2>6. root'[r].wake <= AllBeatBy(r)' + Timer  BY <1>1, <1>2, <2>4
  <2>7. WarmUpEnds(r)'  BY <1>1, <1>2, <2>5, <2>6 DEF WarmUpEnds
  <2> QED BY <2>3, <2>7
<1>8. CASE MissesSome(r) /\ \A m \in MachineRanks : heartbeat[m] # Missing
  <2>1. /\ Silent(r) # {} /\ UNCHANGED <<agent, launches>>
        /\ root'[r].warmup = root[r].warmup /\ root'[r].since = root[r].since
        /\ root'[r].counters = heartbeat
    BY <1>8 DEF MissesSome
  <2>2. CASE ~root[r].warmup
    BY <1>1, <1>2, <1>4, <2>1, <2>2 DEF LaunchesCounted, WarmUpEnds
  <2>3. CASE root[r].warmup
    <3>1. ~NothingSeen(r)  BY <1>2, <1>8, <2>1 DEF NothingSeen, Silent
    <3>2. LaunchesCounted(r)'  BY <1>1, <2>1, <2>3, <3>1 DEF LaunchesCounted
    <3>3. ~NothingSeen(r)'  BY <1>2, <1>8, <2>1 DEF NothingSeen
    <3>4. AllBeatBy(r)' = AllBeatBy(r) /\ AllBeatBy(r) \in Nat
      BY <1>2, <2>1 DEF AllBeatBy
    <3>5. \A b \in Agents : FirstBeatBy(b)' = FirstBeatBy(b) /\ AgentRuns(b)' = AgentRuns(b)
      BY <2>1 DEF FirstBeatBy, AgentRuns
    <3>6. ASSUME \A m \in MachineRanks : HasAgent(m)
          PROVE  root[r].wake <= AllBeatBy(r) + Timer
      <4>1. ~\A a \in Agents : AgentRuns(a) => WillBeHeard(r, a)
        BY <1>1, <2>1, <3>6, AllAreHeard
      <4> QED BY <1>1, <1>8, <2>3, <3>6, <4>1 DEF WarmUpEnds
    <3>7. ASSUME now > AllBeatBy(r), NEW b \in Agents, AgentRuns(b)
          PROVE  WillBeHeard(r, b)'
      <4>1. /\ agent[b].beats \in Nat /\ agent[b].beatAt \in Nat /\ b[1] \in MachineRanks
            /\ HeartbeatPeriod \in Nat
        BY Numbers DEF TypeOK, AgentState, Agents
      <4>2. agent[b].stage # "counting"  BY <1>8, <4>1 DEF AllHaveVoted
      <4>3. agent[b].beats # 0
        <5> SUFFICES ASSUME agent[b].beats = 0 PROVE FALSE  OBVIOUS
        <5>1. FirstBeatBy(b) <= AllBeatBy(r)
          BY <1>1, <2>3, <3>7, <4>2 DEF WarmUpEnds
        <5>2. now <= FirstBeatBy(b) /\ FirstBeatBy(b) \in Nat
          BY <1>1, <3>7, <4>2, FirstBeatIsAhead DEF RootRuns
        <5> QED BY <1>2, <3>4, <3>7, <5>1, <5>2
      <4>4. heartbeat[b[1]] = agent[b].beats /\ Beating(b)
        BY <3>7, <4>1, <4>3 DEF CountersAreCurrent
      <4>5. agent[b].beatAt <= now + HeartbeatPeriod  BY <4>4 DEF ThreadsOnTime
      <4>6. /\ agent'[b].beats > 0 /\ agent'[b].beats = root'[r].counters[b[1]]
            /\ agent'[b].beatAt + Timer <= root'[r].wake + HeartbeatPeriod
        BY <1>1, <1>2, <2>1, <4>1, <4>3, <4>4, <4>5
      <4> QED BY <4>1, <4>6, <2>1 DEF WillBeHeard
    <3>8. (\A m \in MachineRanks : HasAgent(m)) =>
              \/ root'[r].wake <= AllBeatBy(r) + Timer
              \/ /\ root'[r].wake <= AllBeatBy(r) + 2 * Timer
                 /\ \A b \in Agents : AgentRuns(b)' => WillBeHeard(r, b)'
      <4>1. CASE now > AllBeatBy(r)
        BY <1>1, <1>2, <1>3, <3>4, <3>5, <3>6, <3>7, <4>1
      <4>2. CASE ~(now > AllBeatBy(r))  BY <1>1, <1>2, <3>4, <4>2
      <4> QED BY <4>1, <4>2
    <3>9. \A m \in MachineRanks : HasAgent(m)' <=> HasAgent(m)
      BY <2>1 DEF HasAgent, AgentRuns
    <3>10. \A b \in Agents : AgentRuns(b)' /\ agent'[b].stage # "counting"
                             /\ agent'[b].beats = 0 => FirstBeatBy(b)' <= AllBeatBy(r)'
      BY <1>1, <2>1, <2>3, <3>4, <3>5 DEF WarmUpEnds
    <3>11. WarmUpEnds(r)'
      BY <1>1, <1>2, <3>3, <3>4, <3>8, <3>9, <3>10 DEF WarmUpEnds
    <3> QED BY <3>2, <3>11
  <2> QED BY <2>2, <2>3
<1> QED BY <1>1, <1>5, <1>6, <1>7, <1>8

(* A failure leaves its machine without an agent. *)
LEMMA AgentFailsInTime ==
    ASSUME TimelyAgents, EndsInv, NEW a \in Agents, AgentFails(a), TypeOK'
    PROVE  /\ StartsOnTime' /\ AllHaveVoted'
           /\ \A r \in Roots : LaunchesCounted(r)' /\ WarmUpEnds(r)'
<1> USE DEF EndsInv, LaunchInv, IInv
<1>1. /\ UNCHANGED <<now, heartbeat, votes, root, launches>>
      /\ \A b \in Agents : b # a => agent'[b] = agent[b]
      /\ AgentRuns(a) /\ agent'[a].stage = "off" /\ a[1] \in MachineRanks
  BY DEF AgentFails, TypeOK, NoAgent, etcd, Agents
<1>2. StartsOnTime'  BY <1>1 DEF StartsOnTime, Slack, Beating
<1>3. AllHaveVoted'  BY <1>1 DEF AllHaveVoted, RootRuns
<1>4. ASSUME NEW r \in Roots PROVE LaunchesCounted(r)'
  BY <1>1 DEF LaunchesCounted, NothingSeen
<1>5. ASSUME NEW r \in Roots PROVE WarmUpEnds(r)'
  <2>1. ~HasAgent(a[1])'
    <3>1. \A b \in Agents : b[1] = a[1] /\ b # a => ~AgentRuns(b)
      BY <1>1, OnlyAgent
    <3> QED BY <1>1, <3>1 DEF HasAgent, AgentRuns
  <2>2. \A b \in Agents : AgentRuns(b)' =>
            /\ AgentRuns(b) /\ agent'[b] = agent[b]
            /\ FirstBeatBy(b)' = FirstBeatBy(b)
    BY <1>1 DEF AgentRuns, FirstBeatBy
  <2>3. AllBeatBy(r)' = AllBeatBy(r) /\ (NothingSeen(r)' <=> NothingSeen(r))
    BY <1>1 DEF AllBeatBy, NothingSeen
  <2> QED BY <1>1, <2>1, <2>2, <2>3 DEF WarmUpEnds
<1> QED BY <1>2, <1>3, <1>4, <1>5

LEMMA TickInTime ==
    ASSUME TimelyAgents, EndsInv, Tick, TypeOK'
    PROVE  /\ StartsOnTime' /\ AllHaveVoted'
           /\ \A r \in Roots : LaunchesCounted(r)' /\ WarmUpEnds(r)'
<1> USE DEF EndsInv, LaunchInv, IInv
<1>1. now' = now + 1 /\ UNCHANGED <<heartbeat, votes, agent, root, launches>>
  BY DEF Tick, etcd
<1>2. /\ now \in Nat /\ StartDelay \in Nat /\ CheckDelay \in Nat /\ Timer \in Nat
      /\ \A a \in Agents : agent[a].wake \in Nat /\ agent[a].beatAt \in Nat
      /\ \A r \in Roots : root[r].wake \in Nat /\ root[r].since \in Nat
  BY Numbers DEF TypeOK, AgentState, RootState
<1>3. StartsOnTime'
  <2>1. ASSUME NEW a \in Agents, agent[a].stage \in {"restarted", "checking"}
        PROVE  /\ agent[a].wake <= now'
               /\ now' <= agent[a].wake + Slack(agent[a].stage)
    <3>1. agent[a].wake <= now  BY <2>1 DEF StartsOnTime
    <3>2. now < agent[a].wake + Slack(agent[a].stage)
      BY <2>1 DEF Tick, AgentOnTime
    <3>3. Slack(agent[a].stage) \in Nat  BY <1>2, <2>1 DEF Slack
    <3> QED BY <1>1, <1>2, <3>1, <3>2, <3>3
  <2>2. ASSUME NEW a \in Agents, Beating(a), agent[a].beats = 0
        PROVE  agent[a].beatAt <= now'
    <3>1. agent[a].beatAt <= now  BY <2>2 DEF StartsOnTime
    <3> QED BY <1>1, <1>2, <3>1
  <2> QED BY <1>1, <2>1, <2>2 DEF StartsOnTime, Beating
<1>4. AllHaveVoted'  BY <1>1 DEF AllHaveVoted, RootRuns
<1>5. ASSUME NEW r \in Roots PROVE LaunchesCounted(r)'
  BY <1>1 DEF LaunchesCounted, NothingSeen
<1>6. ASSUME NEW r \in Roots PROVE WarmUpEnds(r)'
  <2>1. \A b \in Agents : /\ AgentRuns(b)' <=> AgentRuns(b)
                          /\ FirstBeatBy(b)' = FirstBeatBy(b)
                          /\ WillBeHeard(r, b)' <=> WillBeHeard(r, b)
    BY <1>1 DEF AgentRuns, FirstBeatBy, WillBeHeard
  <2>2. /\ AllBeatBy(r)' = AllBeatBy(r) /\ (NothingSeen(r)' <=> NothingSeen(r))
        /\ \A m \in MachineRanks : HasAgent(m)' <=> HasAgent(m)
    BY <1>1 DEF AllBeatBy, NothingSeen, HasAgent, AgentRuns
  <2>3. root[r].wake <= now + Timer => root[r].wake <= now' + Timer
    BY <1>1, <1>2
  <2> QED BY <1>1, <2>1, <2>2, <2>3 DEF WarmUpEnds
<1> QED BY <1>3, <1>4, <1>5, <1>6

LEMMA EndsStep ==
    ASSUME TimelyAgents, EndsInv, [Next]_vars
    PROVE  EndsInv'
<1>1. LaunchInv' /\ WatchInv' /\ TypeOK'
  BY LaunchStep, NoticeStep DEF EndsInv, WatchInv
<1>2. faults' <= MaxFaults
  <2>1. \/ UNCHANGED faults
        \/ faults < MaxFaults /\ faults' = faults + 1
    <3>1. ASSUME NEW r \in Roots, RootStep(r) PROVE UNCHANGED faults
      BY <3>1, RootRestarts DEF EndsInv, WatchInv
    <3>2. ASSUME NEW a \in Agents, AgentStep(a) PROVE UNCHANGED faults
      BY <3>2 DEF AgentStep, AgentStarts, AgentCounts, AgentIsUp, AgentBeats, AgentWatches,
                  AgentElects
    <3> QED BY <3>1, <3>2 DEF Next, Tick, AgentFails, RootFails, MachineFails, vars
  <2>2. faults \in Nat /\ MaxFaults \in Nat
    BY AgentAssumption DEF EndsInv, WatchInv, TypeOK
  <2> QED BY <2>1, <2>2 DEF EndsInv
<1> DEFINE InTime == /\ StartsOnTime' /\ AllHaveVoted'
                     /\ \A r \in Roots : LaunchesCounted(r)' /\ WarmUpEnds(r)'
<1>3. ASSUME Tick PROVE InTime  BY <1>1, <1>3, TickInTime
<1>4. ASSUME NEW a \in Agents, AgentStep(a) PROVE InTime
  BY <1>1, <1>4, AgentStepInTime, AgentStepWarmsUp
<1>5. ASSUME NEW a \in Agents, AgentFails(a) PROVE InTime
  BY <1>1, <1>5, AgentFailsInTime
<1>6. ASSUME NEW q \in Roots, RootStep(q) PROVE InTime
  <2>1. StartsOnTime' /\ AllHaveVoted'  BY <1>1, <1>6, RootStepInTime
  <2>2. LaunchesCounted(q)' /\ WarmUpEnds(q)'
    BY <1>1, <1>6, OutsideARound, RoundWarmsUp
  <2>3. ASSUME NEW r \in Roots, r # q PROVE LaunchesCounted(r)' /\ WarmUpEnds(r)'
    <3>1. RootRuns(q) /\ root'[r] = root[r]
      BY <1>6, <2>3, RootRestarts DEF EndsInv, WatchInv
    <3>2. root[r].stage = "off"
      BY <2>3, <3>1 DEF EndsInv, LaunchInv, IInv, OneElection, RootRuns
    <3> QED BY <3>1, <3>2 DEF EndsInv, LaunchesCounted, WarmUpEnds, NothingSeen
  <2> QED BY <2>1, <2>2, <2>3
<1>7. ASSUME NEW r \in Roots PROVE ~RootFails(r)
  BY DEF RootFails, TimelyAgents
<1>8. ASSUME NEW m \in MachineRanks PROVE ~MachineFails(m)
  BY DEF MachineFails, TimelyAgents
<1>9. ASSUME UNCHANGED vars PROVE InTime
  <2>1. UNCHANGED <<now, heartbeat, votes, agent, root, launches>>
    BY <1>9 DEF vars, etcd
  <2>2. StartsOnTime' /\ AllHaveVoted'
    BY <2>1 DEF EndsInv, StartsOnTime, AllHaveVoted, Beating, RootRuns
  <2>3. \A r \in Roots : LaunchesCounted(r)' /\ WarmUpEnds(r)'
    BY <2>1 DEF EndsInv, LaunchesCounted, WarmUpEnds, NothingSeen, WillBeHeard, AllBeatBy,
                FirstBeatBy, AgentRuns, HasAgent
  <2> QED BY <2>2, <2>3
<1>10. InTime  BY <1>3, <1>4, <1>5, <1>6, <1>7, <1>8, <1>9 DEF Next
<1> QED BY <1>1, <1>2, <1>10 DEF EndsInv

(* No warm-up lasts longer than the start of an agent and its health
   checks, and two rounds, unless another agent is lost in it. *)
LEMMA EndsInvHolds == TimelyAgents => (Spec => []EndsInv)
<1> SUFFICES ASSUME TimelyAgents PROVE Spec => []EndsInv  OBVIOUS
<1>1. Init => EndsInv
  <2> SUFFICES ASSUME Init PROVE EndsInv  OBVIOUS
  <2>1. \A r \in Roots : root[r] = NoRoot  BY DEF Init
  <2>2. LaunchInv /\ TypeOK  BY InitInv, AgentTypeInit, LaunchInit
  <2>3. WatchInv
    BY <2>1, <2>2 DEF WatchInv, RoundsOnTime, NoticedInTime, NoRoot
  <2>4. \A a \in Agents : agent[a].stage \in {"launched", "off"} /\ a[1] \in MachineRanks
    BY DEF Init, NoAgent, Agents
  <2>5. StartsOnTime  BY <2>4 DEF StartsOnTime, Beating
  <2>6. AllHaveVoted  BY <2>1, <2>4 DEF Init, AllHaveVoted, RootRuns, NoRoot
  <2>7. \A r \in Roots : LaunchesCounted(r) /\ WarmUpEnds(r)
    BY <2>1 DEF LaunchesCounted, WarmUpEnds, NothingSeen, NoRoot
  <2>8. faults <= MaxFaults  BY AgentAssumption DEF Init
  <2> QED BY <2>2, <2>3, <2>5, <2>6, <2>7, <2>8 DEF EndsInv
<1>2. EndsInv /\ [Next]_vars => EndsInv'  BY EndsStep
<1> QED BY <1>1, <1>2, PTL DEF Spec

(* The bound on a warm-up in which every machine has an agent. *)
LEMMA EndsInTime ==
    ASSUME EndsInv, NEW r \in Roots, root[r].stage = "rounds", root[r].warmup,
           \A m \in MachineRanks : heartbeat[m] # Missing,
           NothingSeen(r) \/ \A m \in MachineRanks : HasAgent(m)
    PROVE  now <= root[r].since + StartDelay + 2 * CheckDelay + HeartbeatPeriod + 2 * Timer
<1>1. /\ now \in Nat /\ root[r].wake \in Nat /\ root[r].since \in Nat
      /\ StartDelay \in Nat /\ CheckDelay \in Nat /\ HeartbeatPeriod \in Nat /\ Timer \in Nat
  BY Numbers DEF EndsInv, WatchInv, TypeOK, RootState
<1>2. now <= root[r].wake  BY DEF EndsInv, WatchInv, RoundsOnTime
<1>3. root[r].wake <= AllBeatBy(r) + Timer \/ root[r].wake <= AllBeatBy(r) + 2 * Timer
  BY DEF EndsInv, WarmUpEnds
<1> QED BY <1>1, <1>2, <1>3 DEF AllBeatBy

(* If only worker agents fail and they beat in time, a warm-up in which
   every machine has an agent ends in time, however many have failed
   before. *)
THEOREM WarmUpEndsUnlessLost == TimelyAgents => (Spec => []EndsUnlessLost)
<1>1. EndsInv => EndsUnlessLost  BY EndsInTime DEF EndsUnlessLost
<1> QED BY <1>1, EndsInvHolds, PTL

(* With one failure every warm-up ends: the first cannot miss an agent
   that has beaten, and that of the restart comes after the failure. *)
THEOREM RecoveryEndsInTime ==
    TimelyAgents /\ MaxFaults <= 1 => (Spec => []RecoveryEnds)
<1> SUFFICES ASSUME TimelyAgents, MaxFaults <= 1 PROVE Spec => []RecoveryEnds
  OBVIOUS
<1>1. EndsInv => RecoveryEnds
  <2> SUFFICES ASSUME EndsInv, NEW r \in Roots, root[r].stage = "rounds", root[r].warmup,
                      \A m \in MachineRanks : heartbeat[m] # Missing
               PROVE  now <= root[r].since + StartDelay + 2 * CheckDelay
                               + HeartbeatPeriod + 2 * Timer
    BY DEF RecoveryEnds
  <2>1. ASSUME ~NothingSeen(r), NEW m \in MachineRanks, ~HasAgent(m) PROVE FALSE
    <3>1. launches >= 2 /\ launches \in Nat /\ faults \in Nat /\ MaxFaults \in Nat
      BY <2>1, AgentAssumption DEF EndsInv, LaunchesCounted, WatchInv, TypeOK
    <3>2. Cardinality(DownMachines) # 0
      BY <2>1, DownIsFinite, FS_EmptySet DEF DownMachines
    <3>3. launches + Cardinality(DownMachines) <= 1 + faults
      BY DEF EndsInv, LaunchInv
    <3> QED BY <3>1, <3>2, <3>3, DownIsFinite DEF EndsInv
  <2> QED BY <2>1, EndsInTime
<1> QED BY <1>1, EndsInvHolds, PTL
=============================================================================
