---------------------------- MODULE MCHttpClient ----------------------------
(* Three concurrent calls, one of them not idempotent.                       *)
EXTENDS HttpClient

CONSTANTS g1, g2, p1

MCCalls == {g1, g2, p1}
MCIdempotent == {g1, g2}
=============================================================================
