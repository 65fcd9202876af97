---------------------------- MODULE MCQuestions ----------------------------
(***************************************************************************)
(* A behaviour of a pure algorithm: it asks one question, a record whose   *)
(* field "of" names the algorithm, and gets one answer.                    *)
(***************************************************************************)
CONSTANT None         \* no answer yet

VARIABLES question, answer

vars == <<question, answer>>

Answer(kind, what) ==
    question.of = kind /\ answer = None /\ answer' = what /\ UNCHANGED question

Answered(kind) == question.of = kind /\ answer # None
=============================================================================
