------------------------------- MODULE Retry --------------------------------
(***************************************************************************)
(* retry/retry.go: which attempts are repeated, and how long a caller      *)
(* waits before the next one.  A time.Duration is an integer of Width      *)
(* bits; the coefficient of the policy is a natural number here.           *)
(***************************************************************************)
EXTENDS Integers

CONSTANTS
    MaxAttempts,
    InitialInterval,
    BackoffCoefficient,
    MaxInterval,
    Width                \* the width of a time.Duration

ASSUME RetryAssumption ==
    /\ MaxAttempts \in Nat /\ InitialInterval \in Nat
    /\ BackoffCoefficient \in Nat \ {0}
    /\ MaxInterval \in Nat \ {0} /\ Width \in Nat \ {0}

MaxDuration == 2 ^ (Width - 1) - 1

\* time.Duration(backoff): what a float64 beyond the range becomes depends
\* on the machine (the least integer on amd64, the greatest on arm64).
ToDuration(x) == IF x <= MaxDuration THEN {x} ELSE {-MaxDuration - 1, MaxDuration}

\* The durations CalculateBackoff may return.
CalculateBackoff(attempt) ==
    {IF d > MaxInterval THEN MaxInterval ELSE d :
        d \in ToDuration(InitialInterval * BackoffCoefficient ^ attempt)}

\* Errors: "none", "http" for a status that is not 2xx, "net", "cancelled"
\* and "deadline".  A status of 0 means that there is no response.
ShouldRetry(status, err) ==
    /\ err \notin {"cancelled", "deadline"}
    /\ \/ status >= 500 /\ status < 600
       \/ status = 429
       \/ status = 0 /\ err # "none"
=============================================================================
