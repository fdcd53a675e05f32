--------------------------- MODULE HttpClientProofs ---------------------------
(***************************************************************************)
(* Proofs about the HTTP client: no request is sent twice without a reason *)
(* (SendsWithReason), and the breaker opens only because a server was in   *)
(* trouble (OpensForAReason), for any number of overlapping calls, any     *)
(* policy and any settings of the breaker.                                 *)
(***************************************************************************)
EXTENDS HttpClient, TLAPS

-----------------------------------------------------------------------------
(* The inductive invariant. *)

Breakers ==
    [state : {"closed", "open", "half-open"}, generation : Nat, requests : Nat,
     failures : Nat, successes : Nat]

StateInv ==
    /\ ctx \in [Calls -> {"live", "cancelled", "deadline"}]
    /\ pc \in [Calls -> {"new", "loop", "sending", "waiting", "record", "done"}]
    /\ attempt \in [Calls -> Nat]
    /\ sent \in [Calls -> Nat]
    /\ result \in [Calls -> Outcomes \cup CtxOutcomes \cup {NoResult, Refused}]
    /\ admitted \in [Calls -> Nat]
    /\ breaker \in Breakers
    /\ expired \in BOOLEAN

(* A closed breaker has seen fewer failures in a row than open it, and only an open one's    *)
(* timeout passes.                                                                           *)
BreakerInv ==
    /\ breaker.state = "closed" => breaker.failures < ConsecutiveFailures
    /\ expired => breaker.state = "open"

(* A call comes back to the loop, or waits, only when it is one that is retried and its last *)
(* attempt failed; and what it has to record is the result of a request or of its context.   *)
CallInv(c) ==
    /\ pc[c] = "new" => sent[c] = 0 /\ result[c] = NoResult
    /\ pc[c] \in {"loop", "waiting"} =>
          /\ sent[c] > 0 => Retries(c) /\ result[c].err # "none"
          /\ result[c] # Refused
    /\ pc[c] \in {"sending", "waiting"} => sent[c] > 0
    /\ pc[c] = "record" => result[c] \in Outcomes \cup CtxOutcomes

IInv == StateInv /\ BreakerInv /\ \A c \in Calls : CallInv(c)

-----------------------------------------------------------------------------
(* Errors and results *)

LEMMA OutcomeErrors ==
    /\ \A r \in Outcomes : /\ r.err \in {"none", "net", "http"} /\ r.status \in Nat
                           /\ ShouldRetry(r.status, r.err) => r.err # "none"
    /\ \A r \in CtxOutcomes : r.err \in {"cancelled", "deadline"} /\ r.status = 0
    /\ NoResult.err = "none" /\ NoResult.status = 0
    /\ Refused.err = "refused"
    /\ Refused \notin Outcomes \cup CtxOutcomes
BY DEF Outcomes, CtxOutcomes, ShouldRetry, NoResult, Refused

LEMMA NoRefusal ==
    ASSUME StateInv, NEW c \in Calls, result[c] # Refused, result[c].err # "none"
    PROVE  result[c] \in Outcomes \cup CtxOutcomes
BY OutcomeErrors DEF StateInv

-----------------------------------------------------------------------------
(* The breaker *)

LEMMA BreakerFields ==
    ASSUME NEW b \in Breakers
    PROVE  /\ \A n \in Nat : [b EXCEPT !.failures = n] \in Breakers
           /\ \A n \in Nat : [b EXCEPT !.successes = n] \in Breakers
           /\ \A n \in Nat : [b EXCEPT !.requests = n] \in Breakers
           /\ b.generation \in Nat /\ b.failures \in Nat /\ b.successes \in Nat /\ b.requests \in Nat
           /\ b.state \in {"closed", "open", "half-open"}
BY DEF Breakers

LEMMA StateIsABreaker ==
    \A s \in {"closed", "open", "half-open"}, g \in Nat :
        State(s, g) \in Breakers /\ State(s, g).state = s /\ State(s, g).failures = 0
BY DEF State, Breakers

LEMMA CurrentBreaker ==
    ASSUME IInv
    PROVE  /\ Current \in Breakers
           /\ Current.state = "closed" => Current.failures < ConsecutiveFailures
           /\ Current.state \in {"closed", "open"} => Current = breaker
<1>1. breaker.generation + 1 \in Nat
  BY BreakerFields DEF IInv, StateInv
<1>2. CASE expired
  BY <1>1, <1>2, StateIsABreaker DEF Current, IInv
<1>3. CASE ~expired
  BY <1>3 DEF Current, IInv, StateInv, BreakerInv
<1>4. QED
  BY <1>2, <1>3

\* The breaker after a result: it opens only after a failure, and from the closed state only
\* after the configured run of them.
LEMMA AfterResult ==
    ASSUME NEW b \in Breakers, NEW r,
           b.state = "closed" => b.failures < ConsecutiveFailures
    PROVE  /\ After(b, r) \in Breakers
           /\ After(b, r).state = "closed" => After(b, r).failures < ConsecutiveFailures
           /\ After(b, r).state = "open" /\ b.state # "open" =>
                 /\ ~IsSuccessful(r)
                 /\ b.state = "closed" => b.failures = ConsecutiveFailures - 1
<1>1. ConsecutiveFailures \in Nat \ {0} /\ b.generation + 1 \in Nat
  BY HttpClientAssumption, BreakerFields
<1>2. /\ b.failures \in Nat /\ b.successes \in Nat /\ b.failures + 1 \in Nat /\ b.successes + 1 \in Nat
      /\ b.state \in {"closed", "open", "half-open"}
  BY BreakerFields
<1>3. CASE b.state = "closed" /\ IsSuccessful(r)
  <2>1. After(b, r) = [b EXCEPT !.failures = 0]
    BY <1>3 DEF After
  <2>2. [b EXCEPT !.failures = 0] \in Breakers
    BY BreakerFields
  <2>3. [b EXCEPT !.failures = 0].state = "closed" /\ [b EXCEPT !.failures = 0].failures = 0
    BY <1>3 DEF Breakers
  <2>4. QED
    BY <1>1, <2>1, <2>2, <2>3
<1>4. CASE b.state = "closed" /\ ~IsSuccessful(r)
  <2>1. After(b, r) = IF b.failures + 1 >= ConsecutiveFailures THEN State("open", b.generation + 1)
                      ELSE [b EXCEPT !.failures = b.failures + 1]
    BY <1>4 DEF After
  <2>2. CASE b.failures + 1 >= ConsecutiveFailures
    BY <1>1, <1>2, <1>4, <2>1, <2>2, StateIsABreaker
  <2>3. CASE ~(b.failures + 1 >= ConsecutiveFailures)
    <3>1. [b EXCEPT !.failures = b.failures + 1] \in Breakers
      BY <1>2, BreakerFields
    <3>2. /\ [b EXCEPT !.failures = b.failures + 1].state = "closed"
          /\ [b EXCEPT !.failures = b.failures + 1].failures = b.failures + 1
      BY <1>4 DEF Breakers
    <3>3. QED
      BY <1>1, <1>2, <2>1, <2>3, <3>1, <3>2
  <2>4. QED
    BY <2>2, <2>3
<1>5. CASE b.state = "half-open" /\ IsSuccessful(r)
  <2>1. After(b, r) = IF b.successes + 1 >= MaxRequests THEN State("closed", b.generation + 1)
                      ELSE [b EXCEPT !.successes = b.successes + 1]
    BY <1>5 DEF After
  <2>2. CASE b.successes + 1 >= MaxRequests
    BY <1>1, <2>1, <2>2, StateIsABreaker
  <2>3. CASE ~(b.successes + 1 >= MaxRequests)
    <3>1. [b EXCEPT !.successes = b.successes + 1] \in Breakers
      BY <1>2, BreakerFields
    <3>2. [b EXCEPT !.successes = b.successes + 1].state = "half-open"
      BY <1>5 DEF Breakers
    <3>3. QED
      BY <2>1, <2>3, <3>1, <3>2
  <2>4. QED
    BY <2>2, <2>3
<1>6. CASE b.state = "half-open" /\ ~IsSuccessful(r)
  <2>1. After(b, r) = State("open", b.generation + 1)
    BY <1>6 DEF After
  <2>2. QED
    BY <1>1, <1>6, <2>1, StateIsABreaker
<1>7. CASE b.state = "open"
  <2>1. After(b, r) = b
    BY <1>7 DEF After
  <2>2. QED
    BY <1>7, <2>1
<1>8. QED
  BY <1>2, <1>3, <1>4, <1>5, <1>6, <1>7

-----------------------------------------------------------------------------
(* The steps *)

\* A call moves on; the others, and the breaker's promises, stay.
LEMMA CallStepIInv ==
    ASSUME IInv, NEW c \in Calls, StateInv', BreakerInv', CallInv(c)',
           \A d \in Calls \ {c} : pc'[d] = pc[d] /\ sent'[d] = sent[d] /\ result'[d] = result[d]
    PROVE  IInv'
<1>1. ASSUME NEW d \in Calls \ {c} PROVE CallInv(d)'
  BY DEF IInv, CallInv, Retries
<1>2. QED
  BY <1>1 DEF IInv

LEMMA CtxEndsIInv ==
    ASSUME IInv, NEW c \in Calls, CtxEnds(c)
    PROVE  IInv'
<1> USE DEF CtxEnds
<1>1. StateInv' /\ BreakerInv'
  BY DEF IInv, StateInv, BreakerInv
<1>2. \A d \in Calls : CallInv(d)'
  BY DEF IInv, CallInv, Retries
<1>3. QED
  BY <1>1, <1>2 DEF IInv

LEMMA TimeoutPassesIInv ==
    ASSUME IInv, TimeoutPasses
    PROVE  IInv'
BY DEF IInv, StateInv, BreakerInv, CallInv, Retries, TimeoutPasses

LEMMA EnterIInv ==
    ASSUME IInv, NEW c \in Calls, Enter(c)
    PROVE  IInv'
<1> USE DEF Enter
<1>1. /\ Current.requests + 1 \in Nat /\ Current.generation \in Nat
      /\ [Current EXCEPT !.requests = Current.requests + 1] \in Breakers
  BY CurrentBreaker, BreakerFields
<1>2. breaker' = [Current EXCEPT !.requests = Current.requests + 1]
  OBVIOUS
<1>3. breaker'.state = Current.state /\ breaker'.failures = Current.failures
  BY <1>2, CurrentBreaker DEF Breakers
<1>4. StateInv'
  BY <1>1, <1>2 DEF IInv, StateInv
<1>5. BreakerInv'
  BY <1>3, CurrentBreaker DEF BreakerInv
<1>6. CallInv(c)'
  BY OutcomeErrors DEF IInv, StateInv, CallInv, NoResult, Refused
<1>7. QED
  BY <1>4, <1>5, <1>6, CallStepIInv DEF IInv, StateInv

LEMMA RefuseIInv ==
    ASSUME IInv, NEW c \in Calls, Refuse(c)
    PROVE  IInv'
<1> USE DEF Refuse
<1>1. StateInv'
  BY CurrentBreaker DEF IInv, StateInv
<1>2. BreakerInv'
  BY CurrentBreaker DEF BreakerInv
<1>3. CallInv(c)'
  BY DEF IInv, StateInv, CallInv
<1>4. QED
  BY <1>1, <1>2, <1>3, CallStepIInv DEF IInv, StateInv

LEMMA SendIInv ==
    ASSUME IInv, NEW c \in Calls, Send(c)
    PROVE  IInv'
<1> USE DEF Send
<1>1. StateInv' /\ BreakerInv'
  BY DEF IInv, StateInv, BreakerInv
<1>2. CallInv(c)'
  BY DEF IInv, StateInv, CallInv
<1>3. QED
  BY <1>1, <1>2, CallStepIInv DEF IInv, StateInv

LEMMA CancelledIInv ==
    ASSUME IInv, NEW c \in Calls, Cancelled(c)
    PROVE  IInv'
<1> USE DEF Cancelled
<1>1. [status |-> 0, err |-> ctx[c]] \in CtxOutcomes
  BY DEF IInv, StateInv, CtxOutcomes
<1>2. result[c].err # "none" => result[c] \in Outcomes \cup CtxOutcomes
  BY NoRefusal DEF IInv, CallInv
<1>3. result'[c] \in Outcomes \cup CtxOutcomes /\ pc'[c] = "record"
  BY <1>1, <1>2 DEF IInv, StateInv
<1>4. StateInv'
  BY <1>1, <1>2 DEF IInv, StateInv
<1>5. BreakerInv'
  BY DEF IInv, BreakerInv
<1>6. CallInv(c)'
  BY <1>3 DEF CallInv
<1>7. QED
  BY <1>4, <1>5, <1>6, CallStepIInv DEF IInv, StateInv

LEMMA PerformRequestIInv ==
    ASSUME IInv, NEW c \in Calls, NEW r \in Outcomes \cup CtxOutcomes, PerformRequest(c, r)
    PROVE  IInv'
<1> USE DEF PerformRequest
<1>1. StateInv' /\ BreakerInv'
  BY DEF IInv, StateInv, BreakerInv
<1>2. sent'[c] = sent[c] /\ sent[c] \in Nat /\ sent[c] > 0 /\ result'[c] = r
  BY DEF IInv, StateInv, CallInv
<1>3. \/ pc'[c] = "waiting" /\ Retries(c) /\ ShouldRetry(r.status, r.err)
      \/ pc'[c] = "record"
  BY DEF IInv, StateInv
<1>4. ShouldRetry(r.status, r.err) => r.err # "none"
  BY OutcomeErrors
<1>5. CallInv(c)'
  BY <1>2, <1>3, <1>4, OutcomeErrors DEF CallInv, Retries
<1>6. QED
  BY <1>1, <1>5, CallStepIInv DEF IInv, StateInv

LEMMA WaitIInv ==
    ASSUME IInv, NEW c \in Calls, WaitOver(c) \/ WaitCancelled(c)
    PROVE  IInv'
<1> USE DEF WaitOver, WaitCancelled
<1>1. StateInv' /\ BreakerInv'
  BY DEF IInv, StateInv, BreakerInv
<1>2. pc[c] = "waiting" /\ sent[c] > 0 /\ Retries(c) /\ result[c].err # "none" /\ result[c] # Refused
  BY DEF IInv, CallInv
<1>3. result[c] \in Outcomes \cup CtxOutcomes
  BY <1>2, NoRefusal DEF IInv
<1>4. CallInv(c)'
  BY <1>2, <1>3 DEF IInv, StateInv, CallInv, Retries
<1>5. QED
  BY <1>1, <1>4, CallStepIInv DEF IInv, StateInv

LEMMA RecordIInv ==
    ASSUME IInv, NEW c \in Calls, Record(c)
    PROVE  IInv'
<1> USE DEF Record
<1>1. /\ breaker' \in Breakers
      /\ breaker'.state = "closed" => breaker'.failures < ConsecutiveFailures
  BY CurrentBreaker, AfterResult
<1>2. StateInv'
  BY <1>1 DEF IInv, StateInv
<1>3. BreakerInv'
  BY <1>1 DEF BreakerInv
<1>4. CallInv(c)'
  BY DEF IInv, StateInv, CallInv
<1>5. QED
  BY <1>2, <1>3, <1>4, CallStepIInv DEF IInv, StateInv

LEMMA InitIInv == Init => IInv
<1> SUFFICES ASSUME Init PROVE IInv
  OBVIOUS
<1>1. StateInv
  BY StateIsABreaker DEF Init, StateInv
<1>2. BreakerInv
  BY StateIsABreaker, HttpClientAssumption DEF Init, BreakerInv
<1>3. \A c \in Calls : CallInv(c)
  BY DEF Init, CallInv
<1>4. QED
  BY <1>1, <1>2, <1>3 DEF IInv

LEMMA NextIInv == IInv /\ [Next]_vars => IInv'
<1> SUFFICES ASSUME IInv, [Next]_vars PROVE IInv'
  OBVIOUS
<1>1. ASSUME NEW c \in Calls, Step(c) PROVE IInv'
  BY <1>1, EnterIInv, RefuseIInv, SendIInv, CancelledIInv, PerformRequestIInv, WaitIInv,
     RecordIInv DEF Step
<1>2. ASSUME NEW c \in Calls, CtxEnds(c) PROVE IInv'
  BY <1>2, CtxEndsIInv
<1>3. CASE TimeoutPasses
  BY <1>3, TimeoutPassesIInv
<1>4. CASE UNCHANGED vars
  BY <1>4 DEF IInv, StateInv, BreakerInv, CallInv, Retries, vars
<1>5. QED
  BY <1>1, <1>2, <1>3, <1>4 DEF Next

THEOREM SpecIInv == Spec => []IInv
BY InitIInv, NextIInv, PTL DEF Spec

-----------------------------------------------------------------------------
(* What a step never does *)

LEMMA StepSendsWithReason ==
    ASSUME IInv, [Next]_vars, NEW c \in Calls, sent'[c] > sent[c], sent[c] > 0
    PROVE  c \in Idempotent /\ ctx[c] = "live" /\ result[c].err # "none"
<1>1. ASSUME sent' = sent PROVE FALSE
  BY <1>1 DEF IInv, StateInv
<1>2. PICK d \in Calls : Send(d)
  BY <1>1 DEF Next, Step, vars, Enter, Refuse, Cancelled, PerformRequest, WaitOver,
              WaitCancelled, Record, CtxEnds, TimeoutPasses
<1>3. d = c
  BY <1>2 DEF Send, IInv, StateInv
<1>4. QED
  BY <1>2, <1>3 DEF Send, IInv, CallInv, Retries

\* A retried request may have reached the server: it is sent again only for a call whose method
\* is idempotent, whose context is live and whose last attempt failed (retry.go:174-182).
THEOREM NothingSentTwice == Spec => SendsWithReason
<1>1. IInv /\ [Next]_vars =>
          [\A c \in Calls : sent'[c] > sent[c] /\ sent[c] > 0 =>
              /\ c \in Idempotent
              /\ ctx[c] = "live"
              /\ result[c].err # "none"]_vars
  BY StepSendsWithReason
<1>2. QED
  BY <1>1, SpecIInv, PTL DEF Spec, SendsWithReason

LEMMA FailuresAreTrouble ==
    ASSUME NEW r \in Outcomes \cup CtxOutcomes, ~IsSuccessful(r)
    PROVE  r.err \in {"net", "deadline"} \/ r.status >= 500
BY OutcomeErrors DEF IsSuccessful, ShouldIgnoreError

LEMMA StepOpensForAReason ==
    ASSUME IInv, [Next]_vars, breaker'.state = "open", breaker.state # "open"
    PROVE  \E c \in Calls :
              /\ pc[c] = "record" /\ pc'[c] = "done"
              /\ result[c].err \in {"net", "deadline"} \/ result[c].status >= 500
              /\ admitted[c] = breaker.generation
              /\ breaker.state = "closed" => breaker.failures = ConsecutiveFailures - 1
<1>1. Current.state # "open" /\ Current = breaker
  BY DEF Current, IInv, BreakerInv
<1>2. ASSUME NEW c \in Calls, Enter(c) PROVE FALSE
  <2>1. breaker' = [Current EXCEPT !.requests = Current.requests + 1]
    BY <1>2 DEF Enter
  <2>2. breaker'.state = Current.state
    BY <2>1, CurrentBreaker DEF Breakers
  <2>3. QED
    BY <1>1, <2>2
<1>3. PICK c \in Calls : Record(c)
  BY <1>1, <1>2 DEF Next, Step, vars, Refuse, Send, Cancelled, PerformRequest, WaitOver,
                    WaitCancelled, CtxEnds, TimeoutPasses
<1>4. pc[c] = "record" /\ pc'[c] = "done" /\ result[c] \in Outcomes \cup CtxOutcomes
  BY <1>3 DEF Record, IInv, StateInv, CallInv
<1>5. admitted[c] = breaker.generation /\ breaker' = After(breaker, result[c])
  BY <1>1, <1>3 DEF Record
<1>6. breaker \in Breakers /\ (breaker.state = "closed" => breaker.failures < ConsecutiveFailures)
  BY DEF IInv, StateInv, BreakerInv
<1>7. /\ ~IsSuccessful(result[c])
      /\ breaker.state = "closed" => breaker.failures = ConsecutiveFailures - 1
  BY <1>5, <1>6, AfterResult
<1>8. QED
  BY <1>4, <1>5, <1>7, FailuresAreTrouble

\* The breaker opens only by the result of a call of its own generation that met a server in
\* trouble or ran out of time, in a trial or at the end of the configured run of failures
\* (gobreaker_impl.go, http_client.go).
THEOREM OpensOnlyForTrouble == Spec => OpensForAReason
<1>1. IInv /\ [Next]_vars =>
          [breaker'.state = "open" /\ breaker.state # "open" =>
              \E c \in Calls :
                 /\ pc[c] = "record" /\ pc'[c] = "done"
                 /\ result[c].err \in {"net", "deadline"} \/ result[c].status >= 500
                 /\ admitted[c] = breaker.generation
                 /\ breaker.state = "closed" => breaker.failures = ConsecutiveFailures - 1]_vars
  BY StepOpensForAReason
<1>2. QED
  BY <1>1, SpecIInv, PTL DEF Spec, OpensForAReason
==============================================================================
