------------------------------ MODULE Promise ------------------------------
(***************************************************************************)
(* promise/promise.go: a one-shot promise shared by goroutines.            *)
(*                                                                         *)
(* Resolve, Reject, addChannel and removeChannel run under p.mutex.        *)
(* addChannel and removeChannel never block inside it and are one step     *)
(* each, enabled while the mutex is free.  complete() delivers to the      *)
(* registered channels one by one while it holds the mutex, and every      *)
(* receive (which takes no mutex) may interleave with it.                  *)
(*                                                                         *)
(* Every waiter (a call of Get, or of Chan) has the channel that           *)
(* addChannel made for it, of capacity one, and is named like it.          *)
(***************************************************************************)
EXTENDS FiniteSets

CONSTANTS
    Getters,       \* goroutines that call Get(ctx)
    Subscribers,   \* goroutines that call Chan() and receive from it once
    Completers,    \* goroutines that call Resolve or Reject
    Values,        \* what Resolve may be given
    Errors,        \* what Reject may be given, besides nil
    Nil,           \* a nil pointer; an empty buffer; "no result yet"
    Free,          \* the mutex is held by nobody
    CtxErr,        \* ctx.Err()
    ErrChannelClosed,
    ErrPromiseResolved,
    ErrAlreadyResolved,
    ErrNilError,
    Ok             \* a nil error returned by Resolve or Reject

Waiters == Getters \cup Subscribers
Outcomes == Values \cup Errors

ASSUME PromiseAssumption ==
    /\ Getters \cap Subscribers = {}
    /\ Waiters \cap Completers = {}
    /\ Free \notin Completers
    /\ Values \cap Errors = {}
    /\ Nil \notin Outcomes
    /\ {CtxErr, ErrChannelClosed, ErrPromiseResolved} \cap Outcomes = {}
    /\ CtxErr # ErrChannelClosed
    /\ Nil \notin {CtxErr, ErrChannelClosed, ErrPromiseResolved,
                  ErrAlreadyResolved, ErrNilError, Ok}
    /\ Ok \notin {ErrAlreadyResolved, ErrNilError}
    /\ ErrAlreadyResolved # ErrNilError

VARIABLES
    value,      \* p.value: Nil or a value
    error,      \* p.error: Nil or an error
    resolved,   \* p.resolved
    channels,   \* p.channels: while complete() runs, those not served yet
    mutex,      \* the completer inside complete(), or Free
    buf,        \* buf[w]: the element buffered in w's channel, or Nil
    closed,     \* closed[w]: w's channel is closed
    pc,         \* where each goroutine is
    ctxDone,    \* ctxDone[g]: the context given to Get is cancelled
    ret         \* what the call of each goroutine returned, or Nil

vars == <<value, error, resolved, channels, mutex, buf, closed, pc, ctxDone, ret>>
shared == <<value, error, resolved, mutex>>

Procs == Waiters \cup Completers
WaiterPC == {"idle", "try", "select", "ctxTry", "remove", "recv", "done"}
CompleterPC == {"idle", "complete", "done"}

TypeOK ==
    /\ value \in Values \cup {Nil}
    /\ error \in Errors \cup {Nil}
    /\ resolved \in BOOLEAN
    /\ channels \subseteq Waiters
    /\ mutex \in Completers \cup {Free}
    /\ buf \in [Waiters -> Outcomes \cup {Nil}]
    /\ closed \in [Waiters -> BOOLEAN]
    /\ pc \in [Procs -> WaiterPC \cup CompleterPC]
    /\ ctxDone \in [Getters -> BOOLEAN]
    /\ ret \in [Procs -> Outcomes \cup {Nil, CtxErr, ErrChannelClosed,
                                         ErrAlreadyResolved, ErrNilError, Ok}]

\* New
Init ==
    /\ value = Nil
    /\ error = Nil
    /\ resolved = FALSE
    /\ channels = {}
    /\ mutex = Free
    /\ buf = [w \in Waiters |-> Nil]
    /\ closed = [w \in Waiters |-> FALSE]
    /\ pc = [p \in Procs |-> "idle"]
    /\ ctxDone = [g \in Getters |-> FALSE]
    /\ ret = [p \in Procs |-> Nil]

\* getResolvedValue: the value pointer is looked at before the error pointer.
getResolvedValue ==
    IF value # Nil THEN value ELSE IF error # Nil THEN error ELSE ErrPromiseResolved

-----------------------------------------------------------------------------
(* Resolve and Reject *)

\* complete() once the mutex is held and p.value or p.error is stored.
BeginComplete(c) ==
    /\ resolved' = TRUE
    /\ mutex' = c
    /\ pc' = [pc EXCEPT ![c] = "complete"]
    /\ UNCHANGED <<channels, buf, closed, ctxDone, ret>>

ReturnEarly(c, err) ==
    /\ pc' = [pc EXCEPT ![c] = "done"]
    /\ ret' = [ret EXCEPT ![c] = err]
    /\ UNCHANGED <<value, error, resolved, channels, mutex, buf, closed, ctxDone>>

Resolve(c, v) ==
    /\ pc[c] = "idle"
    /\ mutex = Free
    /\ \/ resolved /\ ReturnEarly(c, ErrAlreadyResolved)
       \/ /\ ~resolved
          /\ value' = v
          /\ error' = error
          /\ BeginComplete(c)

\* Mutant: Reject does not look at p.resolved.
RejectUnchecked(c, e) ==
    /\ pc[c] = "idle"
    /\ mutex = Free
    /\ error' = e
    /\ value' = value
    /\ BeginComplete(c)

Reject(c, e) ==
    /\ pc[c] = "idle"
    /\ mutex = Free
    /\ \/ resolved /\ ReturnEarly(c, ErrAlreadyResolved)
       \/ /\ ~resolved
          /\ error' = e
          /\ value' = value
          /\ BeginComplete(c)

\* Reject(nil) returns before it takes the mutex.
RejectNil(c) ==
    /\ pc[c] = "idle"
    /\ ReturnEarly(c, ErrNilError)

\* Mutant: the channels are unbuffered, so a send needs a goroutine that receives.
DeliverUnbuffered(c, w) ==
    /\ pc[c] = "complete"
    /\ w \in channels
    /\ pc[w] \in {"select", "recv"}
    /\ buf' = [buf EXCEPT ![w] = getResolvedValue]
    /\ closed' = [closed EXCEPT ![w] = TRUE]
    /\ channels' = channels \ {w}
    /\ UNCHANGED <<shared, pc, ctxDone, ret>>

\* One iteration of complete()'s loop.  The send blocks while the buffer is full.
Deliver(c, w) ==
    /\ pc[c] = "complete"
    /\ w \in channels
    /\ buf[w] = Nil
    /\ buf' = [buf EXCEPT ![w] = getResolvedValue]
    /\ closed' = [closed EXCEPT ![w] = TRUE]
    /\ channels' = channels \ {w}
    /\ UNCHANGED <<shared, pc, ctxDone, ret>>

EndComplete(c) ==
    /\ pc[c] = "complete"
    /\ channels = {}
    /\ mutex' = Free
    /\ pc' = [pc EXCEPT ![c] = "done"]
    /\ ret' = [ret EXCEPT ![c] = Ok]
    /\ UNCHANGED <<value, error, resolved, channels, buf, closed, ctxDone>>

-----------------------------------------------------------------------------
(* Get and Chan *)

\* addChannel; Get goes on to tryReadResult, Chan hands the channel out.
addChannel(w) ==
    /\ pc[w] = "idle"
    /\ mutex = Free
    /\ pc' = [pc EXCEPT ![w] = IF w \in Getters THEN "try" ELSE "recv"]
    /\ \/ /\ resolved
          /\ buf' = [buf EXCEPT ![w] = getResolvedValue]
          /\ closed' = [closed EXCEPT ![w] = TRUE]
          /\ UNCHANGED channels
       \/ /\ ~resolved
          /\ channels' = channels \cup {w}
          /\ UNCHANGED <<buf, closed>>
    /\ UNCHANGED <<shared, ctxDone, ret>>

Readable(w) == buf[w] # Nil \/ closed[w]

\* readResult of what a receive from w's channel yields.
readResult(w) == IF buf[w] # Nil THEN buf[w] ELSE ErrChannelClosed

\* A receive that succeeds, and the return that follows it.
Receive(w) ==
    /\ Readable(w)
    /\ buf' = [buf EXCEPT ![w] = Nil]
    /\ ret' = [ret EXCEPT ![w] = readResult(w)]
    /\ pc' = [pc EXCEPT ![w] = "done"]
    /\ UNCHANGED <<shared, channels, closed, ctxDone>>

Goto(w, label) ==
    /\ pc' = [pc EXCEPT ![w] = label]
    /\ UNCHANGED <<shared, channels, buf, closed, ctxDone, ret>>

\* The non-blocking read before the select, and the one after ctx.Done().
tryReadResult(w) ==
    /\ pc[w] \in {"try", "ctxTry"}
    /\ \/ Receive(w)
       \/ /\ ~Readable(w)
          /\ Goto(w, IF pc[w] = "try" THEN "select" ELSE "remove")

\* The select of Get: when both cases are ready either one is taken.
Select(g) ==
    /\ pc[g] = "select"
    /\ \/ Receive(g)
       \/ ctxDone[g] /\ Goto(g, "ctxTry")

\* Mutant: removeChannel does not look at p.resolved.
removeChannelUnchecked(g) ==
    /\ pc[g] = "remove"
    /\ mutex = Free
    /\ channels' = channels \ {g}
    /\ closed' = [closed EXCEPT ![g] = TRUE]
    /\ ret' = [ret EXCEPT ![g] = CtxErr]
    /\ pc' = [pc EXCEPT ![g] = "done"]
    /\ UNCHANGED <<shared, buf, ctxDone>>

\* Mutant: the channel is closed but stays registered.
removeChannelKept(g) ==
    /\ pc[g] = "remove"
    /\ mutex = Free
    /\ \/ resolved /\ Goto(g, "recv")
       \/ /\ ~resolved
          /\ closed' = [closed EXCEPT ![g] = TRUE]
          /\ ret' = [ret EXCEPT ![g] = CtxErr]
          /\ pc' = [pc EXCEPT ![g] = "done"]
          /\ UNCHANGED <<shared, channels, buf, ctxDone>>

removeChannel(g) ==
    /\ pc[g] = "remove"
    /\ mutex = Free
    /\ \/ resolved /\ Goto(g, "recv")
       \/ /\ ~resolved
          /\ channels' = channels \ {g}
          /\ closed' = [closed EXCEPT ![g] = closed[g] \/ g \in channels]
          /\ ret' = [ret EXCEPT ![g] = CtxErr]
          /\ pc' = [pc EXCEPT ![g] = "done"]
          /\ UNCHANGED <<shared, buf, ctxDone>>

\* The last receive of Get, and the receive of whoever called Chan.
BlockingReceive(w) ==
    /\ pc[w] = "recv"
    /\ Receive(w)

\* The caller's context is cancelled or its deadline passes.
Cancel(g) ==
    /\ ~ctxDone[g]
    /\ ctxDone' = [ctxDone EXCEPT ![g] = TRUE]
    /\ UNCHANGED <<shared, channels, buf, closed, pc, ret>>

-----------------------------------------------------------------------------
CompleterStep(c) == EndComplete(c) \/ \E w \in Waiters : Deliver(c, w)

WaiterStep(w) == tryReadResult(w) \/ Select(w) \/ removeChannel(w) \/ BlockingReceive(w)

Next ==
    \/ \E c \in Completers :
          \/ \E v \in Values : Resolve(c, v)
          \/ \E e \in Errors : Reject(c, e)
          \/ RejectNil(c)
          \/ CompleterStep(c)
    \/ \E w \in Waiters : addChannel(w) \/ WaiterStep(w)
    \/ \E g \in Getters : Cancel(g)

\* Calls and cancellations are the environment's; a goroutine inside a call
\* is scheduled eventually.
Fairness ==
    /\ \A c \in Completers : WF_vars(CompleterStep(c))
    /\ \A w \in Waiters : WF_vars(WaiterStep(w))

Spec == Init /\ [][Next]_vars
FairSpec == Spec /\ Fairness

-----------------------------------------------------------------------------
(* What must hold *)

\* No step can panic or hang in complete() or removeChannel(): a channel that
\* is still registered is open and empty, so the send never blocks while the
\* mutex is held and close is never called twice.
RegisteredChannelsOpen ==
    \A w \in channels : ~closed[w] /\ buf[w] = Nil

\* At most one Resolve or Reject succeeds, and no completer is refused before
\* one has succeeded or is succeeding, however the calls interleave.
SingleWinner ==
    LET Winners == {c \in Completers : ret[c] = Ok \/ pc[c] = "complete"}
    IN  /\ \A c, d \in Winners : c = d
        /\ (\E c \in Completers : ret[c] = ErrAlreadyResolved) => Winners # {}

\* A call of Get that has given up with its context's error has left nothing
\* behind: its channel is unregistered and no outcome is stranded in it.
GiveUpLeavesNothing ==
    \A g \in Getters : ret[g] = CtxErr => g \notin channels /\ buf[g] = Nil

Cell ==
    INSTANCE OneShotCell
    WITH Readers <- Waiters,
         Writers <- Completers,
         None <- Nil,
         cell <- IF resolved THEN getResolvedValue ELSE Nil,
         got <- [w \in Waiters |-> ret[w]],
         refused <- {c \in Completers : ret[c] = ErrAlreadyResolved}

\* The promise implements the one-shot cell: every Get and every receive from
\* Chan yields the one outcome of the promise, the outcome never changes, and
\* Get returns its context's error only if the promise is not resolved at
\* that moment.
ImplementsCell == Cell!Spec

\* A Get that has registered its channel returns once the promise is resolved
\* or its context is cancelled, a receive from Chan once it is resolved, and
\* Resolve and Reject always do, whatever the waiters do meanwhile.
CallsReturn ==
    /\ \A w \in Waiters :
          (pc[w] # "idle" /\ (resolved \/ (w \in Getters /\ ctxDone[w]))) ~> pc[w] = "done"
    /\ \A c \in Completers : pc[c] = "complete" ~> pc[c] = "done"
=============================================================================
