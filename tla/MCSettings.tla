----------------------------- MODULE MCSettings -----------------------------
(***************************************************************************)
(* Questions about how a job is set up: the processes the launcher starts, *)
(* the sizes of a batch, the schedule of the learning rate, the groups and *)
(* the files of a mixture of experts.                                      *)
(***************************************************************************)
EXTENDS MCQuestions, Launcher, MoE, TrainingSettings

(* Two hosts at most, one with a slot less, and specifications that name
   missing hosts and slots and repeat what they name. *)
SlotLists == {<< >>, <<0>>, <<1>>, <<0, 1>>, <<1, 0>>, <<1, 1>>, <<2>>}
Specs == [host : 1 .. 3, slots : SlotLists]
Asked == {<< >>} \cup {<<s>> : s \in Specs} \cup {<<s, t>> : s, t \in Specs}
Arguments(include, exclude, nodes, gpus, runners, visible) ==
    [of : {"launch"}, hostfile : {<< >>, <<2>>, <<3, 2>>, <<2, 2>>}, devices : {0, 2},
     include : include, exclude : exclude, nodes : nodes, gpus : gpus, visible : visible,
     force : BOOLEAN, runner : runners]
LaunchQuestions ==
    {q \in Arguments(Asked, {<< >>}, {-1}, {-1}, {"pdsh"}, {<< >>})
           \cup Arguments({<< >>}, Asked, {-1}, {-1}, {"pdsh"}, {<< >>})
           \cup Arguments({<< >>, <<[host |-> 1, slots |-> <<1>>]>>},
                          {<< >>, <<[host |-> 1, slots |-> <<0>>]>>},
                          {-1, 1, 2}, {-1, 1, 3}, {"pdsh", "openmpi", "mvapich"},
                          {<< >>, <<1>>}) :
        /\ q.hostfile # << >> => q.devices = 2 /\ q.visible = << >>
        /\ q.hostfile = << >> => q.runner = "pdsh"}

BatchQuestions ==
    [of : {"batch"}, train : 0 .. 12, micro : 0 .. 4, gas : 0 .. 3, world : 1 .. 3, then : 1 .. 12]

Iterations == 0 .. 14
LrQuestions ==
    [of : {"lr"}, kind : {"warmup", "decay"}, min : {0, 2}, max : {6}, own : {4, 9},
     warmup : {0, 2, 3, 5}, total : {1, 6, 10}]
    \cup [of : {"lr"}, kind : {"range"}, min : {1, 2}, size : 1 .. 3, rate : 1 .. 2,
          staircase : BOOLEAN]
    \cup [of : {"lr"}, kind : {"cycle"}, min : {1, 2}, max : {6}, minMom : {7}, maxMom : {9},
          first : 1 .. 4, second : 1 .. 3, decaySize : 0 .. 2, decay : 0 .. 2, momDecay : 0 .. 1]

ExpertQuestions ==
    {q \in [of : {"groups"}, world : {1, 2, 4, 6, 8}, mp : {1, 2}, ep : {1, 2, 4}, experts : {4, 8},
            tensor : BOOLEAN] : Divisible(q) /\ (q.tensor => q.mp > 1)}
SplitQuestions == [of : {"split"}, numel : SeqOf(1 .. 4, 4), most : 1 .. 5]

SettingsQuestions ==
    LaunchQuestions \cup BatchQuestions \cup LrQuestions \cup ExpertQuestions \cup SplitQuestions

----------------------------------------------------------------------------
(* No process is started if the launcher raises an error. *)
Launch == Answer("launch", IF Raises(question) THEN {} ELSE Launched(question))

CompleteBatch ==
    LET b == Completed(question.train, question.micro, question.gas, question.world)
        accepted == Consistent(b, question.world)
    IN  Answer("batch", [accepted |-> accepted, batch |-> b,
                         set |-> IF accepted THEN SetTrainBatchSize(b, question.then, question.world)
                                 ELSE b])

(* The rate of every batch, and the momentum of a cycle. *)
ScheduleRates ==
    Answer("lr",
        [rates |-> [t \in Iterations |->
             IF t = 0 THEN <<FirstRate(question), 1>> ELSE Rate(question, t - 1)],
         momenta |-> IF question.kind # "cycle" THEN << >>
                     ELSE [t \in Iterations |-> CycleMomentum(question, t - 1)]])

FormGroups ==
    Answer("groups", [groups  |-> CreateProcessGroups(question),
                      experts |-> [r \in 0 .. question.world - 1 |-> LocalExperts(question, r)],
                      written |-> FilesWritten(question),
                      read    |-> [r \in 0 .. question.world - 1 |-> Reads(question, r)]])

SplitGroups == Answer("split", SplitParams(question.numel, question.most))

AnswerSettings == Launch \/ CompleteBatch \/ ScheduleRates \/ FormGroups \/ SplitGroups

----------------------------------------------------------------------------
(* What was asked for: with --include the union of the specifications. *)
AskedOn(specs, h) ==
    LET info == HostInfo(ResourcePool(question))
    IN  UNION {IF Whole(specs[i]) THEN ToSet(info[h]) ELSE ToSet(specs[i].slots) :
                   i \in {i \in DOMAIN specs : specs[i].host = h}}
Wanted ==
    LET info   == HostInfo(ResourcePool(question))
        chosen == EffectiveInclude(question)
        On(h)  == IF chosen # << >> THEN AskedOn(chosen, h)
                  ELSE ToSet(info[h]) \ AskedOn(question.exclude, h)
        used(h) == /\ question.nodes > 0 => h <= question.nodes
                   /\ On(h) # {}
    IN  UNION {{h} \X (IF question.gpus > 0 THEN 0 .. question.gpus - 1 ELSE On(h)) :
                   h \in {h \in DOMAIN info : used(h)}}
NamedTwice(specs) == \E i, j \in DOMAIN specs : i # j /\ specs[i].host = specs[j].host

(* The processes started are those asked for, one for a device, numbered
   along the hosts, with three exceptions: of a host that --include names
   twice only the last slots are used, the devices of --num_gpus need not
   exist, and a single remote host is taken for the own one.  A limit on
   hosts or devices is refused only where there are not enough hosts, by
   the runners of MPI, and where CUDA_VISIBLE_DEVICES is taken for an
   --include that nobody asked for. *)
LaunchIsAsAsked ==
  /\ /\ Limited(question) /\ question.include = << >> /\ question.exclude = << >>
     /\ question.runner = "pdsh" /\ question.devices > 0
     => (answer = {} <=>
            /\ question.hostfile = << >>
            /\ question.nodes > 1 \/ (question.visible # << >> /\ question.gpus <= 0))
  /\ answer # {} =>
        LET ranks == {p.rank : p \in answer}
            places == {<<p.host, p.gpu>> : p \in answer}
            single == Cardinality({w[1] : w \in Wanted}) = 1 /\ ~question.force
        IN  /\ ranks = 0 .. Cardinality(answer) - 1
            /\ \A p \in answer : p.world = Cardinality(answer)
            /\ Cardinality(places) = Cardinality(answer)
            /\ \A p, q \in answer : p.host < q.host => p.rank < q.rank
            /\ ~NamedTwice(question.include) =>
                   places = (IF single THEN {<<Here, w[2]>> : w \in Wanted} ELSE Wanted)
            /\ (\A p \in places : p[2] \in 0 .. ResourcePool(question)[p[1]] - 1)
                   <=> \/ question.gpus <= 0
                       \/ \A w \in Wanted : question.gpus <=
                              ResourcePool(question)[IF single THEN Here ELSE w[1]]
                       \/ single /\ \A w \in Wanted : w[2] < ResourcePool(question)[Here]

(* A configuration is accepted if and only if sizes exist that complete
   it, and it keeps those that were given; of an accumulation alone the
   micro batch is not derived.  A batch size set later keeps the micro
   batch, and the sizes agree. *)
BatchIsConsistent ==
    LET given(x, y) == x = Missing \/ x = y
        completions == {b \in [train : 1 .. 36, micro : 1 .. 12, gas : 1 .. 12] :
            /\ Consistent(b, question.world)
            /\ given(question.train, b.train) /\ given(question.micro, b.micro)
            /\ given(question.gas, b.gas)}
    IN  /\ answer.accepted <=>
               completions # {} /\ (question.train # Missing \/ question.micro # Missing)
        /\ answer.accepted => /\ answer.batch \in completions
                              /\ Consistent(answer.set, question.world)
                              /\ answer.set.micro = answer.batch.micro

----------------------------------------------------------------------------
LOCAL Leq(x, y) == x[1] * y[2] <= y[1] * x[2]
LOCAL Rises(f, from, to) == \A t \in from .. to - 1 : Leq(f[t], f[t + 1])
LOCAL Falls(f, from, to) == \A t \in from .. to - 1 : Leq(f[t + 1], f[t])
LOCAL Same(x, y) == Leq(x, y) /\ Leq(y, x)
LOCAL Earliest(a, b) == Min({a, b})

(* A warm-up rises to its greatest rate, a decay falls to the least at the
   total number of steps, both within their limits, but the first batch is
   trained at the optimizer's own rate, and with less steps than those of
   the warm-up the greatest rate is missed.  A range test rises from its
   least rate.  A cycle is at its top after its first part, where the
   momentum is least, and at its bottom after the second; then the rate
   never rises, and the momentum passes its limit if it has a decay. *)
RatesKeepTheirShape ==
    LET last == 14
        rate == answer.rates
    IN  CASE question.kind \in {"warmup", "decay"} ->
               LET top == WarmupSteps(question) + 1
               IN  /\ \A t \in 1 .. last : Leq(<<question.min, 1>>, rate[t])
                                           /\ Leq(rate[t], <<question.max, 1>>)
                   /\ Same(rate[0], <<question.own, 1>>)
                   /\ Rises(rate, 1, top - 1)
                   /\ Falls(rate, top, last)
                   /\ question.kind = "warmup" \/ question.total >= WarmupSteps(question) + 1
                          => Same(rate[top], <<question.max, 1>>)
                   /\ question.kind = "decay" =>
                          \A t \in Max({question.total + 1, top}) .. last :
                              Same(rate[t], <<question.min, 1>>)
           [] question.kind = "range" ->
               /\ Same(rate[0], <<question.min, 1>>)
               /\ Rises(rate, 0, last)
               /\ \A t \in 0 .. last - question.size :
                      ~Leq(rate[t + question.size], rate[t])
           [] question.kind = "cycle" ->
               LET top    == question.first
                   bottom == TotalSize(question)
                   mom    == answer.momenta
               IN  /\ Same(rate[0], <<question.min, 1>>) /\ Same(rate[top], <<question.max, 1>>)
                   /\ Rises(rate, 0, top) /\ Falls(rate, top, last)
                   /\ Same(rate[bottom], <<question.min, 1>>)
                   /\ Same(mom[top], <<question.minMom, 1>>)
                   /\ \A t \in 0 .. last : Leq(<<question.minMom, 1>>, mom[t])
                   /\ (\A t \in 0 .. last : Leq(mom[t], <<question.maxMom, 1>>))
                          <=> SkipsDecay(question, question.momDecay)

----------------------------------------------------------------------------
(* The experts are all in every expert group, once; a group for averaging
   their gradients has all ranks with the same experts, of one slice if
   they are cut.  A rank finds its files if and only if model parallel
   ranks have groups of their own or there are none. *)
ExpertsHaveTheirGroups ==
    LET ranks == DOMAIN answer.experts
        Slice(r) == IF question.tensor THEN SliceOf(question, r) ELSE 0
    IN  /\ \A group \in answer.groups.expert :
               /\ UNION {answer.experts[r] : r \in ToSet(group)} = 0 .. question.experts - 1
               /\ \A i, j \in DOMAIN group : i # j =>
                      answer.experts[group[i]] \cap answer.experts[group[j]] = {}
        /\ \A r \in ranks :
               \E group \in answer.groups.data :
                   ToSet(group) = {s \in ranks : /\ answer.experts[s] = answer.experts[r]
                                                 /\ Slice(s) = Slice(r)}
        /\ (\A r \in ranks : answer.read[r] \subseteq answer.written)
               <=> question.mp = 1 \/ question.tensor \/ question.world = 1

(* Every parameter is in one group, in order, no group of several is too
   large, and none is empty unless the first parameter alone is too large. *)
GroupsAreWithinTheirSize ==
    LET Numel(group) == FoldSeq(LAMBDA k, n : question.numel[k] + n, 0, group)
    IN  /\ FlattenSeq(answer) = [k \in DOMAIN question.numel |-> k]
        /\ \A i \in DOMAIN answer : Len(answer[i]) > 1 => Numel(answer[i]) <= question.most
        /\ (\E i \in DOMAIN answer : answer[i] = << >>)
               <=> question.numel # << >> /\ question.numel[1] > question.most
=============================================================================
