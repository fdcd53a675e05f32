------------------------------- MODULE Future -------------------------------
(***************************************************************************)
(* future/future.go: a future is a promise whose body runs as a task of a  *)
(* pool.  New calls poolExecutor.Execute(ctx, f.run) in the caller's       *)
(* goroutine and only logs its error; f.run settles the promise.           *)
(*                                                                         *)
(* The pool is the module Pool: every task is the run of a future, and New *)
(* is the pool call that submits it.  The callers in OnDefault use the     *)
(* default pool, which starts a goroutine per task.  The promise is used   *)
(* as the one-shot cell that Promise is shown to implement.                *)
(***************************************************************************)
EXTENDS Pool

CONSTANTS
    OnDefault,    \* the calls of New that use pool.Default
    Getters,      \* calls of Get
    Target,       \* Target[g]: the future that getter g waits for
    Results,      \* values and errors a body may return
    CtxErr        \* ctx.Err()

ASSUME FutureAssumption ==
    /\ OnDefault \subseteq Callers
    /\ Target \in [Getters -> Tasks]
    /\ \A t \in Tasks : \E c \in Callers : Batch[c] = <<t>>
    /\ Nil \notin Results /\ CtxErr \notin Results /\ CtxErr # Nil

VARIABLES
    outcome,      \* outcome[t]: what the promise of future t holds, or Nil
    gpc,          \* gpc[g]: where the call of Get is
    got,          \* got[g]: what it returned, or Nil
    getDone       \* the getters whose context is cancelled

fvars == <<vars, outcome, gpc, got, getDone>>
getters == <<gpc, got, getDone>>

FutureInit ==
    /\ Init
    /\ outcome = [t \in Tasks |-> Nil]
    /\ gpc = [g \in Getters |-> "idle"]
    /\ got = [g \in Getters |-> Nil]
    /\ getDone = {}

-----------------------------------------------------------------------------
(* New and run *)

\* DefaultImpl.ExecuteTask: never refused, never blocks.
DefaultExecute(c) ==
    /\ c \in OnDefault
    /\ pc[c] = "idle"
    /\ Parent[c] # Outside => task[Parent[c]] = "running"
    /\ pc' = [pc EXCEPT ![c] = "done"]
    /\ ret' = [ret EXCEPT ![c] = Ok]
    /\ task' = [task EXCEPT ![Batch[c][1]] = "running"]
    /\ handed' = [handed EXCEPT ![Batch[c][1]] = @ + 1]
    /\ UNCHANGED <<lifecycle, mutex, op, next, callDone, workers>>

PoolStep ==
    \/ Start
    \/ Stop
    \/ \E p \in Gens : CancelPool(p)
    \/ \E c \in Callers :
          \/ c \notin OnDefault /\ Call(c)
          \/ Lock(c)
          \/ \E i \in 1 .. Size : Send(c, i)
          \/ c \notin OnDefault /\ CancelCall(c)  \* the default pool ignores it
          \/ DefaultExecute(c)
    \/ \E w \in Workers : WorkerLeave(w) \/ WorkerAgain(w)

\* Mutant: run does not reject the promise when the body fails.
runUnsettled(t, r) ==
    /\ Finish(t)
    /\ UNCHANGED <<outcome, getters>>

\* The body of future t returns r, and run resolves or rejects the promise.  A
\* second settlement would be refused.
run(t, r) ==
    /\ Finish(t)
    /\ outcome' = [outcome EXCEPT ![t] = IF @ = Nil THEN r ELSE @]
    /\ UNCHANGED getters

-----------------------------------------------------------------------------
(* Get *)

\* New has returned the future, whatever Execute said.
Get(g) ==
    /\ gpc[g] = "idle"
    /\ pc[Owner(Target[g])] = "done"
    /\ gpc' = [gpc EXCEPT ![g] = "wait"]
    /\ UNCHANGED <<vars, outcome, got, getDone>>

GetReturns(g) ==
    /\ gpc[g] = "wait"
    /\ \/ /\ outcome[Target[g]] # Nil
          /\ got' = [got EXCEPT ![g] = outcome[Target[g]]]
       \/ /\ outcome[Target[g]] = Nil
          /\ g \in getDone
          /\ got' = [got EXCEPT ![g] = CtxErr]
    /\ gpc' = [gpc EXCEPT ![g] = "done"]
    /\ UNCHANGED <<vars, outcome, getDone>>

CancelGet(g) ==
    /\ g \notin getDone
    /\ getDone' = getDone \cup {g}
    /\ UNCHANGED <<vars, outcome, gpc, got>>

-----------------------------------------------------------------------------
FutureNext ==
    \/ PoolStep /\ UNCHANGED <<outcome, getters>>
    \/ \E t \in Tasks, r \in Results : run(t, r)
    \/ \E g \in Getters : Get(g) \/ GetReturns(g) \/ CancelGet(g)

\* As in Pool; a Get that may return does.
FutureFairness ==
    /\ \A c \in Callers :
          /\ WF_fvars(c \notin OnDefault /\ Parent[c] # Outside /\ Call(c)
                          /\ UNCHANGED <<outcome, getters>>)
          /\ WF_fvars(Parent[c] # Outside /\ DefaultExecute(c)
                          /\ UNCHANGED <<outcome, getters>>)
          /\ WF_fvars(Lock(c) /\ UNCHANGED <<outcome, getters>>)
          /\ WF_fvars((\E i \in 1 .. Size : Send(c, i)) /\ UNCHANGED <<outcome, getters>>)
    /\ \A w \in Workers :
          /\ WF_fvars(WorkerLeave(w) /\ UNCHANGED <<outcome, getters>>)
          /\ WF_fvars(WorkerAgain(w) /\ UNCHANGED <<outcome, getters>>)
    /\ \A t \in Tasks : WF_fvars(\E r \in Results : run(t, r))
    /\ \A g \in Getters : WF_fvars(GetReturns(g))

FutureSpec == FutureInit /\ [][FutureNext]_fvars
FairFutureSpec == FutureSpec /\ FutureFairness

-----------------------------------------------------------------------------
(* What must hold *)

\* A future accepted by its pool is settled, even if every context is cancelled
\* and the pool is stopped, unless its body hangs in the pool itself.  And the
\* only way a Get with a live context waits for ever: New was refused by a pool
\* that is not started (the error is logged and the promise left pending), or
\* the pool is stuck.
FuturesSettle ==
    /\ \A c \in Callers : ret[c] = Ok ~> (outcome[Batch[c][1]] # Nil \/ CallHangs)
    /\ \A g \in Getters :
          gpc[g] = "wait"
              ~> (gpc[g] = "done" \/ CallHangs \/ ret[Owner(Target[g])] = ErrNotStarted)
=============================================================================
