------------------------- MODULE MCParamCoordinator -------------------------
(* Instances of ParamCoordinator for TLC. *)
EXTENDS ParamCoordinator

Pre(m) == [hook |-> "pre", module |-> m]
Post(m) == [hook |-> "post", module |-> m]

(* The hooks of a model "top" that calls a list of children: forward, and
   backward in the opposite order, where the first child has no input that
   needs a gradient and so no hook after it. *)
Calls(list) == FlattenSeq([i \in 1 .. Len(list) |-> <<Pre(list[i]), Post(list[i])>>])
ForwardOf(list) == <<Pre("top")>> \o Calls(list) \o <<Post("top")>>
BackwardOf(list) ==
    <<Pre("top")>>
    \o FlattenSeq([i \in 1 .. Len(list) |->
           LET m == list[Len(list) - i + 1]
           IN  IF i = Len(list) THEN <<Pre(m)>> ELSE <<Pre(m), Post(m)>>])

TrainOf(list) == ForwardOf(list) \o BackwardOf(list)

ModelOf(params, numel, persistent, lists) ==
    [params |-> params, numel |-> numel, persistent |-> persistent,
     passes |-> [train |-> {TrainOf(l) : l \in lists}, eval |-> {ForwardOf(l) : l \in lists}]]

MCModules == {"top", "a", "b", "c"}
MCParams == {"p", "q", "r", "s"}

Sizes == [x \in MCParams |-> IF x = "s" THEN 1 ELSE 2]
Plain == [top |-> {}, a |-> {"p", "s"}, b |-> {"q"}, c |-> {"r"}]
(* "top" uses the parameter of "a" as an external one, and b and c share. *)
Shared == [top |-> {"p"}, a |-> {"p", "s"}, b |-> {"q"}, c |-> {"q", "r"}]

MCModels ==
    {ModelOf(ps, Sizes, per, {l}) : ps \in {Plain, Shared}, per \in {{}, {"s"}},
        l \in {<<"a", "b", "c">>, <<"a", "b", "a", "c">>}}
    \cup {ModelOf(Plain, Sizes, {"s"}, {<<"a", "b", "c">>, <<"a", "c">>})}

(* No prefetching; less than a module, a module, or all that is left ahead;
   with room for it, for less, or for none; releasing early or late. *)
Config(bucket, live, reuse) == [bucket |-> bucket, live |-> live, reuse |-> reuse]
MCConfigs == {Config(0, 9, 4), Config(2, 9, 1), Config(4, 3, 0), Config(9, 9, 4),
              Config(4, 5, 1)}
=============================================================================
