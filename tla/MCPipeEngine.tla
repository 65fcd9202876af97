---------------------------- MODULE MCPipeEngine ----------------------------
(* Instances of PipeEngine for TLC. *)
EXTENDS PipeEngine, Functions

Train(m) == [kind |-> "train", micro |-> m]
Eval(m) == [kind |-> "eval", micro |-> m]

(* A sequence of calls as a program. *)
Program(calls) ==
    [i \in DOMAIN calls |->
        [kind |-> calls[i].kind, micro |-> calls[i].micro,
         drawn |-> [k \in Kinds |->
             FoldFunctionOnSet(+, 0, [j \in DOMAIN calls |-> calls[j].micro],
                               {j \in 1 .. i - 1 : calls[j].kind = k})],
         trained |-> Cardinality({j \in 1 .. i - 1 : calls[j].kind = "train"})]]

(* Sequences of calls: fewer and more micro batches than stages, evaluation
   before, between and after training, and a batch size that changes. *)
MCPrograms ==
    {Program(calls) : calls \in
        {<<Train(m), Eval(m), Train(m)>> : m \in 1 .. 2}
        \cup {<<Train(5)>>, <<Eval(3), Train(3)>>, <<Train(1), Train(4)>>,
              <<Train(4), Eval(2), Eval(1)>>}}

(* The difficulty rises at the second step, at the third, or never. *)
MCDifficulties == {[g \in 0 .. 4 |-> IF g < n THEN 1 ELSE 2] : n \in 2 .. 4}

MCTied == {0, NumStages - 1}

=============================================================================
