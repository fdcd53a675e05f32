----------------------------- MODULE HttpClient -----------------------------
(***************************************************************************)
(* http_client/http_client.go: calls that go through one circuit breaker,  *)
(* and inside it through the retry loop of retry/retry.go.                 *)
(*                                                                         *)
(* The breaker is a library (sony/gobreaker), modelled from the settings   *)
(* circuit_breaker/gobreaker_impl.go gives it: a call is admitted under    *)
(* the current generation, and its result counts only in that generation.  *)
(* The HTTP library is fasthttp: a request it could not complete leaves an *)
(* empty response, whose status is 200.                                    *)
(***************************************************************************)
EXTENDS Retry, FiniteSets

CONSTANTS
    Calls,
    Idempotent,            \* the calls whose method is GET, HEAD, PUT, DELETE...
    ConsecutiveFailures,   \* the threshold of the breaker
    MaxRequests,           \* calls the half-open breaker admits
    MaxGenerations         \* bound: how often the breaker may change its state

ASSUME HttpClientAssumption ==
    /\ Idempotent \subseteq Calls
    /\ ConsecutiveFailures \in Nat \ {0} /\ MaxRequests \in Nat \ {0}
    /\ MaxGenerations \in Nat

VARIABLES
    ctx,          \* ctx[c]: "live", "cancelled" or "deadline"
    pc,           \* pc[c]: where the call is
    attempt,      \* attempt[c]: the attempts it has finished
    sent,         \* sent[c]: the requests it has sent
    result,       \* result[c]: [status, err] of its last attempt
    wait,         \* wait[c]: how long it sleeps before the next attempt
    admitted,     \* admitted[c]: the generation it was admitted in
    breaker,      \* the breaker: state, generation and counts
    expired       \* the open breaker's timeout has passed

vars == <<ctx, pc, attempt, sent, result, wait, admitted, breaker, expired>>

NoResult == [status |-> 0, err |-> "none"]
Outcomes ==
    {[status |-> 200, err |-> "none"],
     [status |-> 200, err |-> "net"],
     [status |-> 404, err |-> "http"],
     [status |-> 429, err |-> "http"],
     [status |-> 500, err |-> "http"]}
CtxOutcomes == [status : {0}, err : {"cancelled", "deadline"}]
Refused == [status |-> 0, err |-> "refused"]

TypeOK ==
    /\ ctx \in [Calls -> {"live", "cancelled", "deadline"}]
    /\ pc \in [Calls -> {"new", "loop", "sending", "waiting", "record", "done"}]
    /\ attempt \in [Calls -> 0 .. MaxAttempts]
    /\ sent \in [Calls -> 0 .. MaxAttempts]
    /\ result \in [Calls -> Outcomes \cup CtxOutcomes \cup {NoResult, Refused}]
    /\ wait \in [Calls -> Int]
    /\ admitted \in [Calls -> 0 .. MaxGenerations]
    /\ breaker \in [state : {"closed", "open", "half-open"}, generation : 0 .. MaxGenerations,
                    requests : 0 .. Cardinality(Calls),
                    failures : 0 .. Cardinality(Calls), successes : 0 .. Cardinality(Calls)]
    /\ expired \in BOOLEAN

State(s, g) ==
    [state |-> s, generation |-> g, requests |-> 0, failures |-> 0, successes |-> 0]

Init ==
    /\ ctx = [c \in Calls |-> "live"]
    /\ pc = [c \in Calls |-> "new"]
    /\ attempt = [c \in Calls |-> 0]
    /\ sent = [c \in Calls |-> 0]
    /\ result = [c \in Calls |-> NoResult]
    /\ wait = [c \in Calls |-> 0]
    /\ admitted = [c \in Calls |-> 0]
    /\ breaker = State("closed", 0)
    /\ expired = FALSE

-----------------------------------------------------------------------------
(* The environment. *)

CtxEnds(c) ==
    /\ ctx[c] = "live" /\ pc[c] # "done"
    /\ \E why \in {"cancelled", "deadline"} : ctx' = [ctx EXCEPT ![c] = why]
    /\ UNCHANGED <<pc, attempt, sent, result, wait, admitted, breaker, expired>>

TimeoutPasses ==
    /\ breaker.state = "open" /\ ~expired
    /\ breaker.generation < MaxGenerations
    /\ expired' = TRUE
    /\ UNCHANGED <<ctx, pc, attempt, sent, result, wait, admitted, breaker>>

-----------------------------------------------------------------------------
(* The breaker. *)

\* The state a call or a result finds: an open breaker whose timeout has
\* passed is half-open.
Current ==
    IF expired THEN State("half-open", breaker.generation + 1) ELSE breaker

Admits(b) ==
    \/ b.state = "closed"
    \/ b.state = "half-open" /\ b.requests < MaxRequests

Enter(c) ==
    /\ pc[c] = "new"
    /\ Admits(Current)
    /\ breaker' = [Current EXCEPT !.requests = @ + 1]
    /\ expired' = FALSE
    /\ admitted' = [admitted EXCEPT ![c] = Current.generation]
    /\ pc' = [pc EXCEPT ![c] = "loop"]
    /\ UNCHANGED <<ctx, attempt, sent, result, wait>>

Refuse(c) ==
    /\ pc[c] = "new"
    /\ ~Admits(Current)
    /\ breaker' = Current
    /\ expired' = FALSE
    /\ result' = [result EXCEPT ![c] = Refused]
    /\ pc' = [pc EXCEPT ![c] = "done"]
    /\ UNCHANGED <<ctx, attempt, sent, wait, admitted>>

\* Mutant: context cancellation is not filtered.
ShouldIgnoreOnlyHttp(r) == r.err = "http" /\ r.status < 500

\* ShouldIgnoreErrorForCircuitBreaker: 4xx and cancellations are no failures.
ShouldIgnoreError(r) == r.err = "cancelled" \/ (r.err = "http" /\ r.status < 500)
IsSuccessful(r) == r.err = "none" \/ ShouldIgnoreError(r)

\* The breaker after the result r of a call of its own generation.
After(b, r) ==
    LET g == b.generation + 1 IN
    CASE IsSuccessful(r) /\ b.state = "closed" -> [b EXCEPT !.failures = 0]
      [] IsSuccessful(r) /\ b.state = "half-open" ->
            IF b.successes + 1 >= MaxRequests THEN State("closed", g)
                                              ELSE [b EXCEPT !.successes = @ + 1]
      [] ~IsSuccessful(r) /\ b.state = "closed" ->
            IF b.failures + 1 >= ConsecutiveFailures THEN State("open", g)
                                                     ELSE [b EXCEPT !.failures = @ + 1]
      [] ~IsSuccessful(r) /\ b.state = "half-open" -> State("open", g)
      [] OTHER -> b

Record(c) ==
    /\ pc[c] = "record"
    /\ breaker' = IF admitted[c] = Current.generation THEN After(Current, result[c]) ELSE Current
    /\ breaker'.generation <= MaxGenerations
    /\ expired' = FALSE
    /\ pc' = [pc EXCEPT ![c] = "done"]
    /\ UNCHANGED <<ctx, attempt, sent, result, wait, admitted>>

-----------------------------------------------------------------------------
(* The retry loop. *)

\* ShouldRetryMethod, and a policy that allows more than one attempt.
Retries(c) == c \in Idempotent /\ MaxAttempts > 1

\* Mutant: the loop does not look at the context.
SendRegardless(c) ==
    /\ pc[c] = "loop"
    /\ sent' = [sent EXCEPT ![c] = @ + 1]
    /\ pc' = [pc EXCEPT ![c] = "sending"]
    /\ UNCHANGED <<ctx, attempt, result, wait, admitted, breaker, expired>>

\* A call that is not retried does not look at its context first.
Send(c) ==
    /\ pc[c] = "loop"
    /\ Retries(c) => ctx[c] = "live"
    /\ sent' = [sent EXCEPT ![c] = @ + 1]
    /\ pc' = [pc EXCEPT ![c] = "sending"]
    /\ UNCHANGED <<ctx, attempt, result, wait, admitted, breaker, expired>>

\* The loop ends with the last error, or with the context's.
Cancelled(c) ==
    /\ pc[c] = "loop"
    /\ Retries(c) /\ ctx[c] # "live"
    /\ result' = [result EXCEPT ![c] =
                     IF @.err # "none" THEN @ ELSE [status |-> 0, err |-> ctx[c]]]
    /\ pc' = [pc EXCEPT ![c] = "record"]
    /\ UNCHANGED <<ctx, attempt, sent, wait, admitted, breaker, expired>>

\* performRequest looks at the context when the request has come back.
PerformRequest(c, r) ==
    /\ pc[c] = "sending"
    /\ IF ctx[c] = "live" THEN r \in Outcomes ELSE r = [status |-> 0, err |-> ctx[c]]
    /\ attempt' = [attempt EXCEPT ![c] = @ + 1]
    /\ result' = [result EXCEPT ![c] = r]
    /\ IF Retries(c) /\ ShouldRetry(r.status, r.err) /\ attempt[c] + 1 < MaxAttempts
       THEN /\ pc' = [pc EXCEPT ![c] = "waiting"]
            /\ \E d \in CalculateBackoff(attempt[c]) : wait' = [wait EXCEPT ![c] = d]
       ELSE /\ pc' = [pc EXCEPT ![c] = "record"]
            /\ UNCHANGED wait
    /\ UNCHANGED <<ctx, sent, admitted, breaker, expired>>

\* The timer; the next turn of the loop looks at the context.
WaitOver(c) ==
    /\ pc[c] = "waiting"
    /\ pc' = [pc EXCEPT ![c] = "loop"]
    /\ UNCHANGED <<ctx, attempt, sent, result, wait, admitted, breaker, expired>>

WaitCancelled(c) ==
    /\ pc[c] = "waiting"
    /\ ctx[c] # "live"
    /\ pc' = [pc EXCEPT ![c] = "record"]
    /\ UNCHANGED <<ctx, attempt, sent, result, wait, admitted, breaker, expired>>

-----------------------------------------------------------------------------
Step(c) ==
    \/ Enter(c) \/ Refuse(c) \/ Send(c) \/ Cancelled(c)
    \/ \E r \in Outcomes \cup CtxOutcomes : PerformRequest(c, r)
    \/ WaitOver(c) \/ WaitCancelled(c) \/ Record(c)

Next ==
    \/ \E c \in Calls : Step(c) \/ CtxEnds(c)
    \/ TimeoutPasses

Spec == Init /\ [][Next]_vars

-----------------------------------------------------------------------------
(* "a request whose first attempt may already have reached the server is   *)
(* not sent twice" (http_client/README.md:430), and once a context is done *)
(* a call that retries sends no more: the loop asks before every attempt   *)
(* (retry.go:174-182).                                                     *)
SendsWithReason ==
    [][\A c \in Calls : sent'[c] > sent[c] /\ sent[c] > 0 =>
          /\ c \in Idempotent
          /\ ctx[c] = "live"
          /\ result[c].err # "none"]_vars

(* A breaker is opened only by the result of a call that met a server in   *)
(* trouble or ran out of time, never by a cancellation or by a 4xx         *)
(* (http_client/README.md:167-171), whatever calls overlap with it and     *)
(* with the earlier states of the breaker; and it opens either in a trial  *)
(* or after the configured run of failures.                                *)
OpensForAReason ==
    [][breaker'.state = "open" /\ breaker.state # "open" =>
          \E c \in Calls :
             /\ pc[c] = "record" /\ pc'[c] = "done"
             /\ result[c].err \in {"net", "deadline"} \/ result[c].status >= 500
             /\ admitted[c] = breaker.generation
             /\ breaker.state = "closed" => breaker.failures = ConsecutiveFailures - 1]_vars

(* The pauses never exceed the policy's maximum, and never shrink to       *)
(* nothing (retry.go:86-92).                                               *)
WaitsAreBounded ==
    \A c \in Calls : pc[c] = "waiting" => wait[c] \in 1 .. MaxInterval

(* What the documentation says of network errors: a call that is retried   *)
(* at all returns one only when its attempts are used up or its context is *)
(* done.                                                                   *)
NetworkErrorsAreRetried ==
    \A c \in Calls : pc[c] = "done" /\ Retries(c) /\ result[c].err = "net" =>
        attempt[c] = MaxAttempts \/ ctx[c] # "live"
=============================================================================
