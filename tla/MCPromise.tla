---------------------------- MODULE MCPromise -----------------------------
(* Three waiters of both kinds against two completers. *)
EXTENDS Promise

CONSTANTS g1, g2, s1, c1, c2, v1, v2, e1

MCGetters == {g1, g2}
MCSubscribers == {s1}
MCCompleters == {c1, c2}
MCValues == {v1, v2}
MCErrors == {e1}
=============================================================================
