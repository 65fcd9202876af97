--------------------------- MODULE AgentProtocol ---------------------------
(***************************************************************************)
(* Failure detection and recovery by the agents (agent_etcd.py and         *)
(* root_agent_etcd.py over etcd_client.py).                                *)
(*                                                                         *)
(* One worker agent runs on each machine; one of them starts a root agent, *)
(* a process of its own.  Everybody writes heartbeats to etcd: the root    *)
(* agent restarts the agents, and the training, when heartbeats of a       *)
(* machine stop; the agents vote for another root agent when those of the  *)
(* root stop.  All waiting is time.sleep(): the model has a clock, in      *)
(* seconds, and a thread that sleeps has the time at which it wakes up.    *)
(* A thread acts as soon as it wakes up, but starting a process and        *)
(* checking the health of the GPUs take any time up to a bound.  Threads   *)
(* that wake up at the same time act in any order.                         *)
(***************************************************************************)
EXTENDS Integers, FiniteSets

CONSTANTS
    Machines,         \* args.ranks
    Timer,            \* args.timer of both agents: 5
    PollPeriod,       \* sleep between two looks at the first votes: 5
    HeartbeatPeriod,  \* timer of both heartbeat threads: 3
    Grace,            \* sleep of the root agent's daemon before its first round: 20
    StartDelay,       \* bound on the time it takes to start a process
    CheckDelay,       \* bound on the time one health check of the GPUs takes
    Faults,           \* what may fail: any of "agent", "root", "machine"
    MaxFaults,        \* bound on the number of failures
    MaxRoots,         \* bound on the root agents that run at the same time
    MaxTime           \* bound on the clock

ASSUME AgentAssumption ==
    /\ {Machines, Timer, PollPeriod, HeartbeatPeriod} \subseteq Nat \ {0}
    /\ {Grace, StartDelay, CheckDelay, MaxFaults, MaxRoots, MaxTime} \subseteq Nat
    /\ Faults \subseteq {"agent", "root", "machine"}

MachineRanks == 0 .. Machines - 1

(* Processes: there is room for two worker agents on each machine. *)
Agents == MachineRanks \X {0, 1}
Roots == 1 .. MaxRoots

(* A key of etcd that does not exist reads as "", here -1. *)
Missing == -1

VARIABLES
    now,
    votes,      \* /vote: the ranks that have voted
    heartbeat,  \* /agent/heartbeat: the counter of each rank
    rootHeart,  \* /root/heartbeat: the counter of the root agent
    agent,      \* the worker agents
    root,       \* the root agents
    up,         \* the machines that are not lost
    launches,   \* how often training was started or restarted
    faults,     \* how many failures there were
    downSince,  \* when the last agent process on a machine stopped
    rootLoss    \* when the last root agent stopped, and the votes there were

etcd == <<votes, heartbeat, rootHeart>>
vars == <<now, etcd, agent, root, up, launches, faults, downSince, rootLoss>>

(* launched, restarted: the process starts, in init mode or for a root
   agent that is alive; counting: waits for the first votes; checking: the
   first health check; watching: the daemon, between two checks of the
   root; voting: between its vote and its election; blind: the daemon died
   of an exception, the heartbeat goes on. *)
AgentStages == {"off", "launched", "restarted", "counting", "checking",
                "watching", "voting", "blind"}

(* starting; init: before init_phase; settling: in the sleep of
   init_phase; rounds: the daemon, which receives heartbeats. *)
RootStages == {"off", "starting", "init", "settling", "rounds"}

AgentState == [stage : AgentStages,
               wake : Nat,                \* when the main thread or daemon wakes up
               seen : Nat \cup {Missing}, \* root_agent_heartbeat_counter
               misses : Nat,              \* faulty_root_heartbeat_cnt
               beats : Nat,               \* heartbeat_counter
               beatAt : Nat]              \* when the heartbeat thread wakes up

RootState == [stage : RootStages,
              machine : MachineRanks,
              initMode : BOOLEAN,
              wake : Nat,
              beats : Nat,
              beatAt : Nat,
              counters : [MachineRanks -> Nat \cup {Missing}],
                                \* agent_heartbeat_counters
              warmup : BOOLEAN, \* wait_for_warmup
              faulty : Nat,     \* faulty_heartbeat_cnt
              since : Nat]      \* when warmup was last assigned

NoAgent == [stage |-> "off", wake |-> 0, seen |-> Missing, misses |-> 0,
            beats |-> 0, beatAt |-> 0]

NoRoot == [stage |-> "off", machine |-> 0, initMode |-> FALSE, wake |-> 0,
           beats |-> 0, beatAt |-> 0, counters |-> [m \in MachineRanks |-> Missing],
           warmup |-> TRUE, faulty |-> 0, since |-> 0]

----------------------------------------------------------------------------
AgentRuns(a) == agent[a].stage # "off"
RootRuns(r) == root[r].stage # "off"
Beating(a) == agent[a].stage \in {"watching", "voting", "blind"}
RootBeating(r) == root[r].stage \in {"init", "settling", "rounds"}
HasAgent(m) == \E a \in Agents : a[1] = m /\ AgentRuns(a)

(* min() of the ranks that voted. *)
Lowest(S) == CHOOSE m \in S : \A q \in S : m <= q

(* Mistakes the runs must notice.  Every agent starts a root agent; an
   agent keeps the limit of 200 misses; the root's heartbeat thread starts
   after init_phase; a machine is silent only if its counter has dropped;
   all agents are restarted; *)
EveryAgent(a, leader) == TRUE
UnloweredLimit == 200
AfterInitPhase == 2 * Timer
Dropped(r) == {m \in MachineRanks : heartbeat[m] < root[r].counters[m]}
AllThatAreUp(failed) == up

(* the root remembers the highest counter it has seen of a machine. *)
HighestCounter(r) ==
    [m \in MachineRanks |-> IF heartbeat[m] > root[r].counters[m] THEN heartbeat[m]
                                                                ELSE root[r].counters[m]]

(* Only the machine that is elected starts a root agent. *)
IsLeader(a, leader) == a[1] = leader

(* faulty_root_heartbeat_cnt and faulty_heartbeat_cnt at their limits. *)
MaxFaultyRoot == 2
MaxFaulty == 3

(* The root's heartbeat thread starts before init_phase, in its first
   second. *)
FirstBeatAfter == 0

(* The machines without a heartbeat since the last round of r. *)
Silent(r) == {m \in MachineRanks : heartbeat[m] <= root[r].counters[m]}

(* The counters r remembers after a round. *)
Remembered(r) == heartbeat

(* The votes say who is alive when a root agent takes over. *)
WithoutVote == MachineRanks \ votes

(* restart_agent(): over ssh, on machines that are up. *)
ToRestart(failed) == failed \cap up

(* run_root_agent() on machine m. *)
RunRootAgent(m, initMode) ==
    LET free == {r \in Roots : ~RootRuns(r)}
    IN  IF free = {} THEN UNCHANGED root
        ELSE root' = [root EXCEPT ![Lowest(free)] =
                 [NoRoot EXCEPT !.stage = "starting", !.machine = m,
                                !.initMode = initMode, !.wake = now]]

(* failure_recovery() of a root agent: the training processes are killed,
   the agents of the failed machines and then the training restarted.  The
   type of a failure is always OTHER_ERROR_CODE: no machine is replaced. *)
FailureRecovery(failed) ==
    LET slot(m) == IF AgentRuns(<<m, 0>>) THEN <<m, 1>> ELSE <<m, 0>>
    IN  /\ agent' = [a \in Agents |->
               IF a[1] \in ToRestart(failed) /\ a = slot(a[1]) /\ ~AgentRuns(a)
                 THEN [NoAgent EXCEPT !.stage = "restarted", !.wake = now]
                 ELSE agent[a]]
        /\ launches' = launches + 1

Recovering(state) == [state EXCEPT !.warmup = TRUE, !.since = now]

(* launch.py starts all agents in init mode, with nothing in etcd. *)
Init ==
    /\ now = 0
    /\ votes = {}
    /\ heartbeat = [m \in MachineRanks |-> Missing]
    /\ rootHeart = Missing
    /\ agent = [a \in Agents |-> IF a[2] = 0 THEN [NoAgent EXCEPT !.stage = "launched"]
                                             ELSE NoAgent]
    /\ root = [r \in Roots |-> NoRoot]
    /\ up = MachineRanks
    /\ launches = 0
    /\ faults = 0
    /\ downSince = [m \in MachineRanks |-> 0]
    /\ rootLoss = [at |-> 0, votes |-> MachineRanks]

----------------------------------------------------------------------------
(* A worker agent has started: in init mode it votes, and sleeps; for a
   root agent that is alive it goes on to the health check. *)
AgentStarts(a) ==
    /\ agent[a].stage \in {"launched", "restarted"}
    /\ IF agent[a].stage = "launched"
         THEN /\ votes' = votes \cup {a[1]}
              /\ agent' = [agent EXCEPT ![a].stage = "counting", ![a].wake = now + Timer]
         ELSE /\ UNCHANGED votes
              /\ agent' = [agent EXCEPT ![a].stage = "checking", ![a].wake = now]
    /\ UNCHANGED <<now, heartbeat, rootHeart, root, up, launches, faults, downSince, rootLoss>>

(* wait_for_all_agents(): all votes are there, rank 0 is the root and
   starts its root agent; or the agent looks again later. *)
AgentCounts(a) ==
    /\ agent[a].stage = "counting"
    /\ now >= agent[a].wake
    /\ IF votes = MachineRanks
         THEN /\ agent' = [agent EXCEPT ![a].stage = "checking", ![a].wake = now]
              /\ IF IsLeader(a, 0) THEN RunRootAgent(a[1], TRUE) ELSE UNCHANGED root
         ELSE /\ agent' = [agent EXCEPT ![a].wake = now + PollPeriod]
              /\ UNCHANGED root
    /\ UNCHANGED <<now, etcd, up, launches, faults, downSince, rootLoss>>

(* After the first health check the heartbeat thread and the daemon start. *)
AgentIsUp(a) ==
    /\ agent[a].stage = "checking"
    /\ agent' = [agent EXCEPT ![a].stage = "watching", ![a].wake = now, ![a].beatAt = now]
    /\ UNCHANGED <<now, etcd, root, up, launches, faults, downSince, rootLoss>>

(* One heartbeat of an agent, after another health check. *)
AgentBeats(a) ==
    /\ Beating(a)
    /\ now >= agent[a].beatAt
    /\ heartbeat' = [heartbeat EXCEPT ![a[1]] = agent[a].beats + 1]
    /\ agent' = [agent EXCEPT ![a].beats = @ + 1, ![a].beatAt = now + HeartbeatPeriod]
    /\ UNCHANGED <<now, votes, rootHeart, root, up, launches, faults, downSince, rootLoss>>

(* check_root_agent_heartbeat(): the counter is a new one; or it is missed
   for the first or the second time, and the agent votes; or the key does
   not exist, and the daemon ends with a TypeError.  (Misses count only
   after a first counter was seen, which is what seen > -1 means here.) *)
AgentWatches(a) ==
    /\ agent[a].stage = "watching"
    /\ now >= agent[a].wake
    /\ \/ /\ rootHeart = Missing
          /\ agent' = [agent EXCEPT ![a].stage = "blind"]
          /\ UNCHANGED votes
       \/ /\ rootHeart # Missing /\ rootHeart > agent[a].seen
          /\ agent' = [agent EXCEPT ![a].seen = rootHeart, ![a].misses = 0,
                                    ![a].wake = now + Timer]
          /\ UNCHANGED votes
       \/ /\ rootHeart # Missing /\ rootHeart <= agent[a].seen
          /\ agent[a].misses + 1 < MaxFaultyRoot
          /\ agent' = [agent EXCEPT ![a].misses = @ + 1, ![a].wake = now + Timer]
          /\ UNCHANGED votes
       \/ /\ rootHeart # Missing /\ rootHeart <= agent[a].seen
          /\ agent[a].misses + 1 >= MaxFaultyRoot
          /\ agent' = [agent EXCEPT ![a].stage = "voting", ![a].misses = 0,
                                    ![a].wake = now + Timer]
          /\ votes' = votes \cup {a[1]}
    /\ UNCHANGED <<now, heartbeat, rootHeart, root, up, launches, faults, downSince, rootLoss>>

(* select_leader(), after the sleep: the lowest rank that voted; if votes
   are gone, min() raises and the daemon ends. *)
AgentElects(a) ==
    /\ agent[a].stage = "voting"
    /\ now >= agent[a].wake
    /\ IF votes = {}
         THEN /\ agent' = [agent EXCEPT ![a].stage = "blind"]
              /\ UNCHANGED root
         ELSE /\ agent' = [agent EXCEPT ![a].stage = "watching", ![a].seen = Missing,
                                        ![a].wake = now + Timer]
              /\ IF IsLeader(a, Lowest(votes)) THEN RunRootAgent(a[1], FALSE)
                                               ELSE UNCHANGED root
    /\ UNCHANGED <<now, etcd, up, launches, faults, downSince, rootLoss>>

----------------------------------------------------------------------------
(* A root agent has started: it resets its heartbeat and starts its thread. *)
RootStarts(r) ==
    /\ root[r].stage = "starting"
    /\ rootHeart' = 0
    /\ root' = [root EXCEPT ![r].stage = "init", ![r].wake = now,
                            ![r].beatAt = now + FirstBeatAfter]
    /\ UNCHANGED <<now, votes, heartbeat, agent, up, launches, faults, downSince, rootLoss>>

RootBeats(r) ==
    /\ RootBeating(r)
    /\ now >= root[r].beatAt
    /\ rootHeart' = root[r].beats + 1
    /\ root' = [root EXCEPT ![r].beats = @ + 1, ![r].beatAt = now + HeartbeatPeriod]
    /\ UNCHANGED <<now, votes, heartbeat, agent, up, launches, faults, downSince, rootLoss>>

(* init_phase() up to its sleep: start training; or delete the heartbeat
   key, and recover the machines without a vote, if any. *)
RootInitPhase(r) ==
    /\ root[r].stage = "init"
    /\ LET next == [root[r] EXCEPT !.stage = "settling", !.wake = now + 2 * Timer]
       IN  \/ /\ root[r].initMode
              /\ launches' = launches + 1
              /\ root' = [root EXCEPT ![r] = next]
              /\ UNCHANGED <<rootHeart, agent>>
           \/ /\ ~root[r].initMode
              /\ rootHeart' = Missing
              /\ IF WithoutVote # {}
                   THEN /\ FailureRecovery(WithoutVote)
                        /\ root' = [root EXCEPT ![r] = Recovering(next)]
                   ELSE /\ root' = [root EXCEPT ![r] = next]
                        /\ UNCHANGED <<agent, launches>>
    /\ UNCHANGED <<now, votes, heartbeat, up, faults, downSince, rootLoss>>

(* init_phase() after its sleep: the votes are deleted.  The daemon starts
   and sleeps. *)
RootForgetsVotes(r) ==
    /\ root[r].stage = "settling"
    /\ now >= root[r].wake
    /\ votes' = {}
    /\ root' = [root EXCEPT ![r].stage = "rounds", ![r].wake = now + Grace,
                            ![r].since = now + Grace]
    /\ UNCHANGED <<now, heartbeat, rootHeart, agent, up, launches, faults, downSince, rootLoss>>

(* recv_heartbeat_signal(): while a heartbeat is missing altogether, wait.
   Otherwise a round in which every machine was heard ends the warm-up; in
   warm-up nothing else happens; after it, the third round in a row with a
   silent machine recovers the machines silent in this round. *)
RootReceives(r) ==
    /\ root[r].stage = "rounds"
    /\ now >= root[r].wake
    /\ LET next == [root[r] EXCEPT !.wake = now + Timer, !.counters = Remembered(r)]
       IN  \/ /\ \E m \in MachineRanks : heartbeat[m] = Missing
              /\ root' = [root EXCEPT ![r].wake = now + Timer]
              /\ UNCHANGED <<agent, launches>>
           \/ /\ \A m \in MachineRanks : heartbeat[m] # Missing
              /\ \/ /\ Silent(r) = {}
                    /\ root' = [root EXCEPT ![r] =
                           [next EXCEPT !.warmup = FALSE, !.faulty = 0,
                                        !.since = IF root[r].warmup THEN now ELSE @]]
                    /\ UNCHANGED <<agent, launches>>
                 \/ /\ Silent(r) # {} /\ root[r].warmup
                    /\ root' = [root EXCEPT ![r] = next]
                    /\ UNCHANGED <<agent, launches>>
                 \/ /\ Silent(r) # {} /\ ~root[r].warmup /\ root[r].faulty + 1 < MaxFaulty
                    /\ root' = [root EXCEPT ![r] = [next EXCEPT !.faulty = @ + 1]]
                    /\ UNCHANGED <<agent, launches>>
                 \/ /\ Silent(r) # {} /\ ~root[r].warmup /\ root[r].faulty + 1 >= MaxFaulty
                    /\ FailureRecovery(Silent(r))
                    /\ root' = [root EXCEPT ![r] =
                           Recovering([next EXCEPT !.faulty = 0])]
    /\ UNCHANGED <<now, etcd, up, faults, downSince, rootLoss>>

----------------------------------------------------------------------------
Down(m, left) == IF \E a \in left : a[1] = m /\ AgentRuns(a) THEN downSince[m] ELSE now
Loss(left) == IF \E r \in left : RootRuns(r) THEN rootLoss ELSE [at |-> now, votes |-> votes]

(* The process of a worker agent dies; its machine, and a root agent that
   it may have started, go on. *)
AgentFails(a) ==
    /\ "agent" \in Faults /\ faults < MaxFaults
    /\ AgentRuns(a)
    /\ agent' = [agent EXCEPT ![a] = NoAgent]
    /\ downSince' = [downSince EXCEPT ![a[1]] = Down(a[1], Agents \ {a})]
    /\ faults' = faults + 1
    /\ UNCHANGED <<now, etcd, root, up, launches, rootLoss>>

RootFails(r) ==
    /\ "root" \in Faults /\ faults < MaxFaults
    /\ RootRuns(r)
    /\ root' = [root EXCEPT ![r] = NoRoot]
    /\ rootLoss' = Loss(Roots \ {r})
    /\ faults' = faults + 1
    /\ UNCHANGED <<now, etcd, agent, up, launches, downSince>>

(* A machine is lost, with the agents on it. *)
MachineFails(m) ==
    /\ "machine" \in Faults /\ faults < MaxFaults
    /\ m \in up
    /\ up' = up \ {m}
    /\ agent' = [a \in Agents |-> IF a[1] = m THEN NoAgent ELSE agent[a]]
    /\ root' = [r \in Roots |-> IF root[r].machine = m THEN NoRoot ELSE root[r]]
    /\ downSince' = IF HasAgent(m) THEN [downSince EXCEPT ![m] = now] ELSE downSince
    /\ rootLoss' = IF \E r \in Roots : RootRuns(r)
                     THEN Loss({r \in Roots : root[r].machine # m}) ELSE rootLoss
    /\ faults' = faults + 1
    /\ UNCHANGED <<now, etcd, launches>>

(* When, at the latest, the threads of a process act. *)
Slack(stage) == CASE stage \in {"launched", "restarted", "starting"} -> StartDelay
                  [] stage = "checking" -> CheckDelay
                  [] OTHER -> 0

AgentOnTime(a) ==
    /\ agent[a].stage \notin {"off", "blind"} => now < agent[a].wake + Slack(agent[a].stage)
    /\ Beating(a) => now < agent[a].beatAt + CheckDelay

RootOnTime(r) ==
    /\ RootRuns(r) => now < root[r].wake + Slack(root[r].stage)
    /\ RootBeating(r) => now < root[r].beatAt

(* Time passes when no thread has to act before. *)
Tick ==
    /\ now < MaxTime
    /\ \A a \in Agents : AgentOnTime(a)
    /\ \A r \in Roots : RootOnTime(r)
    /\ now' = now + 1
    /\ UNCHANGED <<etcd, agent, root, up, launches, faults, downSince, rootLoss>>

AgentStep(a) ==
    \/ AgentStarts(a)
    \/ AgentCounts(a)
    \/ AgentIsUp(a)
    \/ AgentBeats(a)
    \/ AgentWatches(a)
    \/ AgentElects(a)

RootStep(r) ==
    \/ RootStarts(r)
    \/ RootBeats(r)
    \/ RootInitPhase(r)
    \/ RootForgetsVotes(r)
    \/ RootReceives(r)

Next ==
    \/ Tick
    \/ \E a \in Agents : AgentStep(a) \/ AgentFails(a)
    \/ \E r \in Roots : RootStep(r) \/ RootFails(r)
    \/ \E m \in MachineRanks : MachineFails(m)

Spec == Init /\ [][Next]_vars

----------------------------------------------------------------------------
TypeOK ==
    /\ now \in Nat
    /\ votes \subseteq MachineRanks
    /\ heartbeat \in [MachineRanks -> Nat \cup {Missing}]
    /\ rootHeart \in Nat \cup {Missing}
    /\ agent \in [Agents -> AgentState]
    /\ root \in [Roots -> RootState]
    /\ up \subseteq MachineRanks
    /\ launches \in Nat
    /\ faults \in Nat
    /\ downSince \in [MachineRanks -> Nat]
    /\ rootLoss \in [at : Nat, votes : SUBSET MachineRanks]

(* No agent that runs is taken for failed and started a second time. *)
OneAgentPerMachine ==
    \A m \in MachineRanks : ~(AgentRuns(<<m, 0>>) /\ AgentRuns(<<m, 1>>))

(* Training is restarted once for a failure, and never without one. *)
OneLaunchPerFault == launches <= 1 + faults

(* An agent votes because the root agent is down: never while one runs
   whose heartbeat has been started. *)
VoteAgainstRoot ==
    \E a \in Agents, r \in Roots :
        /\ agent[a].stage = "watching" /\ agent'[a].stage = "voting"
        /\ RootBeating(r)
VoteMeansRootDown == [][~VoteAgainstRoot]_vars

(* After the warm-up, an agent that dies is noticed within four rounds: it
   may have beaten right before it died, and three rounds are missed. *)
FailureIsNoticed ==
    \A r \in Roots, m \in MachineRanks :
        /\ root[r].stage = "rounds"
        /\ ~root[r].warmup
        /\ ~HasAgent(m)
        => \/ now <= downSince[m] + 4 * Timer
           \/ now <= root[r].since + 4 * Timer

(* Warm-up ends: within the time to start an agent and its two health
   checks, plus two rounds, every machine is heard again. *)
RecoveryEnds ==
    \A r \in Roots :
        /\ root[r].stage = "rounds"
        /\ root[r].warmup
        /\ \A m \in MachineRanks : heartbeat[m] # Missing
        => now <= root[r].since + StartDelay + 2 * CheckDelay + HeartbeatPeriod + 2 * Timer

(* If no vote of an earlier election is left when the root agent is lost,
   an agent that still watches starts another: after the last counter it
   reads two misses and the wait of the election. *)
RootLossIsRepaired ==
    /\ \A r \in Roots : ~RootRuns(r)
    /\ rootLoss.votes = {}
    /\ \E a \in Agents : agent[a].stage \in {"watching", "voting"}
    => now <= rootLoss.at + 4 * Timer

----------------------------------------------------------------------------
(* The inductive invariants.  IInv is behind OneAgentPerMachine and
   VoteMeansRootDown, for clusters in which worker agents may die but the
   root agent and the machines do not, and in which an agent, health check
   included, beats more often than the root agent looks; LaunchInv adds to
   it what OneLaunchPerFault needs.  WatchInv is behind FailureIsNoticed,
   for any failures and timing; EndsInv joins them and is behind
   RecoveryEnds. *)
TimelyAgents ==
    /\ Faults \subseteq {"agent"}
    /\ HeartbeatPeriod + CheckDelay < Timer

(* Agents of the first launch have not failed before, the one of rank 0
   starts the only root agent, and nobody votes again. *)
OneElection ==
    /\ \A a \in Agents :
           /\ agent[a].stage \in {"launched", "counting"} => a[2] = 0
           /\ agent[a].stage # "voting"
           /\ agent[a].misses = 0
    /\ \A r, q \in Roots : RootRuns(r) /\ RootRuns(q) => r = q
    /\ \A r \in Roots : RootRuns(r) =>
           /\ root[r].initMode
           /\ \A a \in Agents : a[1] = 0 =>
                  agent[a].stage \notin {"launched", "counting"}
    /\ \A r \in Roots : root[r].stage # "rounds" => root[r].warmup

(* The counters in etcd are those of the processes that write them.  While
   an agent has not beaten, the counter of its machine is absent, or the
   root agent has already seen it. *)
CountersAreCurrent ==
    /\ \A a \in Agents :
           /\ AgentRuns(a) /\ agent[a].beats > 0 => heartbeat[a[1]] = agent[a].beats
           /\ agent[a].beats > 0 => Beating(a)
           /\ AgentRuns(a) /\ agent[a].beats = 0 =>
                  \/ heartbeat[a[1]] = Missing
                  \/ \E r \in Roots : /\ root[r].stage = "rounds"
                                      /\ heartbeat[a[1]] <= root[r].counters[a[1]]
    /\ \A r \in Roots : /\ RootBeating(r) => rootHeart = root[r].beats
                        /\ root[r].stage = "starting" => root[r].beats = 0
    /\ (\A r \in Roots : ~RootBeating(r)) => rootHeart = Missing

(* No thread acts later than it may. *)
ThreadsOnTime ==
    /\ \A a \in Agents : Beating(a) =>
           /\ agent[a].beatAt <= now + HeartbeatPeriod
           /\ now <= agent[a].beatAt + CheckDelay
    /\ \A r \in Roots : RootBeating(r) =>
           /\ root[r].beatAt <= now + HeartbeatPeriod
           /\ now <= root[r].beatAt

(* A counter the root agent has seen was written before its last round,
   and no counter has dropped since. *)
RootHearsAgents ==
    \A r \in Roots : root[r].stage = "rounds" /\ ~root[r].warmup =>
        \A a \in Agents : AgentRuns(a) =>
            /\ agent[a].beats > 0
            /\ agent[a].beats >= root[r].counters[a[1]]
            /\ agent[a].beats = root[r].counters[a[1]] =>
                   agent[a].beatAt + Timer <= root[r].wake + HeartbeatPeriod

(* The same for the agents that watch the root agent. *)
AgentsHearRoot ==
    \A a \in Agents : agent[a].seen # Missing =>
        /\ agent[a].stage \in {"watching", "blind"}
        /\ \E r \in Roots :
              /\ RootBeating(r)
              /\ agent[a].seen <= root[r].beats
              /\ agent[a].stage = "watching" /\ agent[a].seen = root[r].beats =>
                     root[r].beatAt + Timer <= agent[a].wake + HeartbeatPeriod

(* The inductive invariant: restarts and votes happen only when a process
   is down, because what is read from etcd was written in time. *)
IInv ==
    /\ TypeOK
    /\ OneAgentPerMachine
    /\ OneElection
    /\ CountersAreCurrent
    /\ ThreadsOnTime
    /\ RootHearsAgents
    /\ AgentsHearRoot

----------------------------------------------------------------------------
(* A machine without an agent has had a failure that no restart of the
   training has answered; the first start is the root agent's. *)
DownMachines == {m \in MachineRanks : ~HasAgent(m)}

LaunchInv ==
    /\ IInv
    /\ up = MachineRanks
    /\ launches + Cardinality(DownMachines) <= 1 + faults
    /\ (\A r \in Roots : root[r].stage \notin {"settling", "rounds"}) =>
           launches + Cardinality(DownMachines) <= faults

----------------------------------------------------------------------------
(* A round takes place when it is due; those after the warm-up are Timer
   seconds apart. *)
RoundsOnTime(r) ==
    /\ root[r].stage = "rounds" => now <= root[r].wake
    /\ ~root[r].warmup =>
           /\ root[r].stage = "rounds"
           /\ root[r].faulty < MaxFaulty
           /\ root[r].wake <= now + Timer
           /\ \A m \in MachineRanks : heartbeat[m] # Missing

(* The round in which r restarts machine m at the latest if m stays
   silent: a heartbeat that r has not seen yet counts for one round more. *)
RoundsLeft(r, m) == IF m \in Silent(r) THEN MaxFaulty - 1 - root[r].faulty ELSE MaxFaulty
LastRound(r, m) == root[r].wake + RoundsLeft(r, m) * Timer

NoticedInTime(r) ==
    ~root[r].warmup =>
        \A m \in DownMachines :
            \/ LastRound(r, m) <= downSince[m] + (MaxFaulty + 1) * Timer
            \/ LastRound(r, m) <= root[r].since + (MaxFaulty + 1) * Timer

WatchInv == TypeOK /\ \A r \in Roots : RoundsOnTime(r) /\ NoticedInTime(r)

----------------------------------------------------------------------------
(* A process that starts has not begun in the future, and acts in time. *)
StartsOnTime ==
    \A a \in Agents :
        /\ agent[a].stage \in {"restarted", "checking"} =>
               /\ agent[a].wake <= now
               /\ now <= agent[a].wake + Slack(agent[a].stage)
        /\ Beating(a) /\ agent[a].beats = 0 => agent[a].beatAt <= now

(* A root agent starts when all agents have voted; when its rounds begin,
   the votes are gone.  No agent has run before one that counts them. *)
AllHaveVoted ==
    /\ \A a \in Agents : agent[a].stage \in {"launched", "counting"} =>
           heartbeat[a[1]] = Missing
    /\ \A a \in Agents : agent[a].stage = "launched" => a[1] \notin votes
    /\ \A r \in Roots : RootRuns(r) => \A a \in Agents : agent[a].stage # "launched"
    /\ \A r \in Roots : root[r].stage = "rounds" => votes = {}

(* When an agent that has not beaten writes its first heartbeat at the
   latest. *)
FirstBeatBy(a) ==
    CASE agent[a].stage = "restarted" -> agent[a].wake + StartDelay + 2 * CheckDelay
      [] agent[a].stage = "checking"  -> agent[a].wake + 2 * CheckDelay
      [] OTHER                        -> agent[a].beatAt + CheckDelay
AllBeatBy(r) == root[r].since + StartDelay + 2 * CheckDelay

(* The first warm-up, in which r has seen no counter, and a later one. *)
NothingSeen(r) == \A m \in MachineRanks : root[r].counters[m] = Missing
LaunchesCounted(r) ==
    /\ root[r].stage # "rounds" => NothingSeen(r)
    /\ root[r].stage \in {"settling", "rounds"} => launches >= 1
    /\ root[r].stage = "rounds" /\ root[r].warmup /\ ~NothingSeen(r) => launches >= 2

(* The next round finds the counter of m grown. *)
WillBeHeard(r, a) ==
    /\ agent[a].beats > 0
    /\ agent[a].beats >= root[r].counters[a[1]]
    /\ agent[a].beats = root[r].counters[a[1]] =>
           agent[a].beatAt + Timer <= root[r].wake + HeartbeatPeriod

(* In a warm-up in which no agent is lost all have beaten by a round that
   is at most Timer late, and the next round hears all of them. *)
WarmUpEnds(r) ==
    root[r].stage = "rounds" =>
        /\ root[r].wake <= now + Timer \/ root[r].wake <= root[r].since
        /\ root[r].warmup =>
               \A a \in Agents :
                   /\ AgentRuns(a) /\ agent[a].stage # "counting" /\ agent[a].beats = 0
                   => FirstBeatBy(a) <= AllBeatBy(r)
        /\ root[r].warmup /\ (\A m \in MachineRanks : heartbeat[m] # Missing) =>
               \/ root[r].wake <= AllBeatBy(r) + Timer
               \/ /\ ~NothingSeen(r)
                  /\ \/ \E m \in MachineRanks : ~HasAgent(m)
                     \/ /\ root[r].wake <= AllBeatBy(r) + 2 * Timer
                        /\ \A a \in Agents : AgentRuns(a) => WillBeHeard(r, a)

EndsInv ==
    /\ LaunchInv
    /\ WatchInv
    /\ faults <= MaxFaults
    /\ StartsOnTime
    /\ AllHaveVoted
    /\ \A r \in Roots : LaunchesCounted(r) /\ WarmUpEnds(r)

(* RecoveryEnds, unless another agent was lost. *)
EndsUnlessLost ==
    \A r \in Roots :
        /\ root[r].stage = "rounds"
        /\ root[r].warmup
        /\ \A m \in MachineRanks : heartbeat[m] # Missing /\ HasAgent(m)
        => now <= root[r].since + StartDelay + 2 * CheckDelay + HeartbeatPeriod + 2 * Timer
=============================================================================
