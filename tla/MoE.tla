-------------------------------- MODULE MoE ---------------------------------
(***************************************************************************)
(* Which tokens an expert of a mixture-of-experts layer takes, and in      *)
(* which slot of its buffer (moe/sharded_moe.py, top1gating, top2gating).  *)
(* A choice is a sequence: the expert a token prefers, or 0 for an         *)
(* unused token (used_token).  A dispatch is a set of records: a token in  *)
(* a slot of an expert.                                                    *)
(***************************************************************************)
EXTENDS Integers, Sequences, SequencesExt, FiniteSets, FiniteSetsExt

Mask(choice, e) == {t \in DOMAIN choice : choice[t] = e}

(* ceil(tokens / experts * factor), and at least the minimum. *)
Capacity(tokens, experts, factor, minCapacity) ==
    Max({minCapacity, (tokens * factor + experts - 1) \div experts})

(* Without dropping, the buffer holds the most tokens an expert got on any
   rank (the all_reduce of exp_counts). *)
MostTokens(choices, experts) ==
    Max({Cardinality(Mask(choices[r], e)) : r \in DOMAIN choices, e \in 1 .. experts})

(* The k tokens of largest random value (_top_idx of the masked values): a
   token of another expert counts as zero and comes last. *)
TopIdx(mask, priority, k) ==
    LET value(t) == IF t \in mask THEN priority[t] ELSE 0
    IN  CHOOSE S \in kSubset(k, DOMAIN priority) :
            \A s \in S, t \in DOMAIN priority \ S : value(s) >= value(t)

(* The cumulative sum of a mask, less one: a token's slot. *)
Location(mask, t) == Cardinality({s \in mask : s <= t}) - 1

Top1(choice, experts, priority, capacity) ==
    LET kept(e) == Mask(choice, e) \cap TopIdx(Mask(choice, e), priority, capacity)
    IN  UNION {{[token |-> t, expert |-> e, slot |-> Location(kept(e), t)] : t \in kept(e)} :
               e \in 1 .. experts}

(* A mistake: second choices start at slot 0 again. *)
SlotsFromZero(first, e) == 0

(* The second choices of an expert come after all its first ones. *)
SecondOffset(first, e) == Cardinality(Mask(first, e))

Top2(first, second, experts, capacity) ==
    {d \in [token : DOMAIN first, expert : 1 .. experts, slot : 0 .. capacity - 1] :
        \/ /\ first[d.token] = d.expert
           /\ d.slot = Location(Mask(first, d.expert), d.token)
        \/ /\ second[d.token] = d.expert
           /\ d.slot = Location(Mask(second, d.expert), d.token) + SecondOffset(first, d.expert)}

----------------------------------------------------------------------------
(***************************************************************************)
(* The process groups of a mixture of experts (utils/groups.py), the files *)
(* its checkpoints have and who writes and reads them (runtime/engine.py), *)
(* and the groups of expert parameters of the optimizer (moe/utils.py).    *)
(*                                                                         *)
(* g is a grid of ranks: the size of the world, mp ranks of the model      *)
(* parallel group, ep ranks that share the experts, and whether experts    *)
(* are cut among the model parallel ranks (tensor).                        *)
(***************************************************************************)

LOCAL Ranks(g) == 0 .. g.world - 1

(* mpu, the model parallel unit: neighbours share a model. *)
SliceOf(g, r) == r % g.mp

(* Sizes that divide, or an assertion fails. *)
Divisible(g) ==
    /\ g.world % g.mp = 0
    /\ (IF g.tensor THEN g.world \div g.mp ELSE g.world) % g.ep = 0

(* A group is the sequence of its ranks.  _create_expert_and_data_parallel
   leaves the model parallel group out of account. *)
StridedRanks(first, last, stride) ==
    [i \in 1 .. (last - first) \div stride + 1 |-> first + (i - 1) * stride]
ExpertAndDataParallel(g) ==
    [expert |-> {StridedRanks(i * g.ep, (i + 1) * g.ep - 1, 1) : i \in 0 .. g.world \div g.ep - 1},
     data   |-> {StridedRanks(i, g.world - 1 - ((g.world - 1 - i) % g.ep), g.ep) :
                    i \in 0 .. g.ep - 1}]

(* _get_expert_parallel_ranks: the data parallel groups cut into runs of
   ep ranks; the ranks at one place of the runs have the same experts. *)
ExpertDataAndModelParallel(g) ==
    LET dp     == g.world \div g.mp
        DpRanks(i) == StridedRanks(i, g.world - g.mp + i, g.mp)
        Part(i, k) == SubSeq(DpRanks(i), k * g.ep + 1, (k + 1) * g.ep)
        parts  == 0 .. dp \div g.ep - 1
    IN  [expert |-> {Part(i, k) : i \in 0 .. g.mp - 1, k \in parts},
         data   |-> {[k \in 1 .. dp \div g.ep |-> Part(i, k - 1)[e]] :
                        i \in 0 .. g.mp - 1, e \in 1 .. g.ep}]

CreateProcessGroups(g) ==
    IF g.tensor THEN ExpertDataAndModelParallel(g) ELSE ExpertAndDataParallel(g)

(* A rank's group, and its place in the group. *)
GroupOf(groups, r) == CHOOSE group \in groups : Contains(group, r)
RankIn(groups, r) ==
    LET group == GroupOf(groups, r) IN (CHOOSE i \in DOMAIN group : group[i] = r) - 1
ExpertParallelRank(g, r) == RankIn(CreateProcessGroups(g).expert, r)
ExpertDataParallelRank(g, r) == RankIn(CreateProcessGroups(g).data, r)

(* The experts of a layer a rank has. *)
NumLocalExperts(g) == g.experts \div g.ep
LocalExperts(g, r) ==
    LET first == ExpertParallelRank(g, r) * NumLocalExperts(g)
    IN  first .. first + NumLocalExperts(g) - 1

----------------------------------------------------------------------------
ExpertFile(expert, mp) == <<"expert", expert, mp>>
OptimizerFile(expp, mp) == <<"optimizer", expp, mp>>
ModelFile(mp) == <<"model", 0, mp>>

(* _save_moe_checkpoint: the first rank of each data parallel group of the
   experts writes them, and its optimizer; the one with the first experts
   also writes the rest of the model. *)
Writes(g, r) ==
    LET mp   == SliceOf(g, r)
        expp == ExpertParallelRank(g, r)
    IN  IF ExpertDataParallelRank(g, r) # 0 THEN {}
        ELSE {ExpertFile(e, mp) : e \in LocalExperts(g, r)} \cup {OptimizerFile(expp, mp)}
             \cup (IF expp = 0 THEN {ModelFile(mp)} ELSE {})
FilesWritten(g) == UNION {Writes(g, r) : r \in Ranks(g)}

(* load_moe_state_dict, and the model's and the optimizer's file. *)
Reads(g, r) ==
    LET mp == SliceOf(g, r)
    IN  {ExpertFile(e, mp) : e \in LocalExperts(g, r)}
        \cup {OptimizerFile(ExpertParallelRank(g, r), mp), ModelFile(mp)}

----------------------------------------------------------------------------
(* split_params_into_different_moe_groups_for_optimizer: parameters, given
   by their sizes, fill groups in their order; a group that the next one
   does not fit into is closed, the first one too. *)
SplitParams(numel, maxGroupSize) ==
    LET Put(s, k) ==
            IF s.size + numel[k] <= maxGroupSize
            THEN [s EXCEPT !.size = @ + numel[k], !.group = Append(@, k)]
            ELSE [size |-> numel[k], group |-> <<k>>, groups |-> Append(s.groups, s.group)]
        end == FoldLeft(Put, [size |-> 0, group |-> << >>, groups |-> << >>],
                        [k \in DOMAIN numel |-> k])
    IN  IF end.group = << >> THEN end.groups ELSE Append(end.groups, end.group)
=============================================================================
