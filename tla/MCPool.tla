------------------------------- MODULE MCPool -------------------------------
(* An outside call with a batch of two, an outside call with one task, and a *)
(* call made from inside the body of t1.                                     *)
EXTENDS Pool, TLC

CONSTANTS c1, c2, c3, t1, t2, t3, t4

MCCallers == {c1, c2, c3}
MCTasks == {t1, t2, t3, t4}
MCBatch == c1 :> <<t1, t2>> @@ c2 :> <<t3>> @@ c3 :> <<t4>>
MCParent == c1 :> Outside @@ c2 :> Outside @@ c3 :> t1
=============================================================================
