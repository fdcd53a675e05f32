---------------------------- MODULE OneShotCell ----------------------------
(***************************************************************************)
(* What a promise promises: a cell that is settled at most once.  A reader *)
(* either returns the settled outcome, or gives up because its context was *)
(* cancelled, and it may give up only while the cell is still unsettled.   *)
(* A writer that comes second is refused.                                  *)
(***************************************************************************)
CONSTANTS
    Readers,     \* callers that wait for the outcome
    Writers,     \* callers that try to settle the cell
    Outcomes,    \* values and errors the cell may be settled with
    None,        \* "not settled" / "has not returned yet"
    CtxErr       \* what a reader that gave up returns

VARIABLES
    cell,        \* the outcome, or None
    got,         \* got[r]: what reader r returned, or None
    refused      \* the writers that were told the cell is settled already

vars == <<cell, got, refused>>

Init ==
    /\ cell = None
    /\ got = [r \in Readers |-> None]
    /\ refused = {}

Settle ==
    /\ cell = None
    /\ cell' \in Outcomes
    /\ UNCHANGED <<got, refused>>

Refuse(w) ==
    /\ cell # None
    /\ refused' = refused \cup {w}
    /\ UNCHANGED <<cell, got>>

Return(r) ==
    /\ cell # None
    /\ got[r] = None
    /\ got' = [got EXCEPT ![r] = cell]
    /\ UNCHANGED <<cell, refused>>

GiveUp(r) ==
    /\ cell = None
    /\ got[r] = None
    /\ got' = [got EXCEPT ![r] = CtxErr]
    /\ UNCHANGED <<cell, refused>>

Next ==
    \/ Settle
    \/ \E w \in Writers : Refuse(w)
    \/ \E r \in Readers : Return(r) \/ GiveUp(r)

Spec == Init /\ [][Next]_vars
=============================================================================
