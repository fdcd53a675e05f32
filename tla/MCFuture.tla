------------------------------ MODULE MCFuture ------------------------------
(* Two futures on a pool, one of them made inside the body of the other, and *)
(* one on the default pool; calls of Get on the inner and on that future.     *)
EXTENDS Future, TLC

CONSTANTS c1, c2, c3, t1, t2, t3, g1, g2, v1, e1

MCCallers == {c1, c2, c3}
MCTasks == {t1, t2, t3}
MCBatch == c1 :> <<t1>> @@ c2 :> <<t2>> @@ c3 :> <<t3>>
MCParent == c1 :> Outside @@ c2 :> t1 @@ c3 :> Outside
MCOnDefault == {c3}
MCGetters == {g1, g2}
MCTarget == g1 :> t2 @@ g2 :> t3
MCResults == {v1, e1}
=============================================================================
