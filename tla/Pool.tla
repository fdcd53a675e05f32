-------------------------------- MODULE Pool --------------------------------
(***************************************************************************)
(* pool/pool.go: a pool of Size workers fed through an unbuffered channel. *)
(*                                                                         *)
(* Start makes a new channel and a new set of workers each time, so a      *)
(* start is a generation and a worker is a pair <<generation, number>>.    *)
(* Start and Stop never block inside p.mutex and are one step each.        *)
(* ExecuteTask keeps p.mutex while it sends, and a send on the unbuffered  *)
(* channel happens together with the receive of an idle worker.            *)
(*                                                                         *)
(* A caller is one call of Execute or ExecuteTask, made from outside the   *)
(* pool or from inside the body of one of its tasks.                       *)
(***************************************************************************)
EXTENDS Naturals, Sequences, FiniteSets

CONSTANTS
    Size,         \* p.size
    Callers,      \* calls of Execute and ExecuteTask
    Tasks,        \* the tasks they submit
    Batch,        \* Batch[c]: the tasks of caller c, in order
    Parent,       \* Parent[c]: the task whose body makes the call, or Outside
    Outside,
    Nil,          \* no task; no result yet
    Free,         \* the mutex is held by nobody
    Ok, ErrNotStarted,
    MaxStarts     \* bound: how often Start may succeed

ASSUME PoolAssumption ==
    /\ Size \in Nat
    /\ MaxStarts \in Nat
    /\ Batch \in [Callers -> Seq(Tasks)]
    /\ \A c \in Callers : Batch[c] # <<>>
    /\ \A c, d \in Callers : \A i \in DOMAIN Batch[c], j \in DOMAIN Batch[d] :
          Batch[c][i] = Batch[d][j] => c = d /\ i = j
    /\ Parent \in [Callers -> Tasks \cup {Outside}]
    /\ Outside \notin Tasks /\ Nil \notin Tasks
    /\ Free \notin Callers
    /\ Nil # Ok /\ Nil # ErrNotStarted /\ Ok # ErrNotStarted

VARIABLES
    started,      \* p.started
    gen,          \* the number of successful Starts: p.channel is its channel
    closed,       \* the generations whose channel Stop has closed
    poolDone,     \* the generations whose Start context is cancelled
    mutex,        \* the caller inside ExecuteTask, or Free
    pc,           \* pc[c]: where the call is
    op,           \* op[c]: which of the two operations it is
    next,         \* next[c]: index in Batch[c] of the task to send next
    ret,          \* ret[c]: what the call returned, or Nil
    callDone,     \* the callers whose context is cancelled
    worker,       \* worker[w]: where the worker is
    watching,     \* watching[w]: the task it waits for, or Nil
    task,         \* task[t]: what became of the task
    handed        \* handed[t]: how often the task was handed to a worker

vars == <<started, gen, closed, poolDone, mutex, pc, op, next, ret, callDone,
          worker, watching, task, handed>>
lifecycle == <<started, gen, closed, poolDone>>
calls == <<mutex, pc, op, next, ret, callDone>>
workers == <<worker, watching>>
tasks == <<task, handed>>

Gens == 1 .. MaxStarts
Workers == Gens \X (1 .. Size)
Owner(t) == CHOOSE c \in Callers : \E i \in DOMAIN Batch[c] : Batch[c][i] = t

TypeOK ==
    /\ started \in BOOLEAN
    /\ gen \in 0 .. MaxStarts
    /\ closed \subseteq 1 .. gen
    /\ poolDone \subseteq 1 .. gen
    /\ mutex \in Callers \cup {Free}
    /\ pc \in [Callers -> {"idle", "lock", "send", "done"}]
    /\ op \in [Callers -> {"Execute", "ExecuteTask"}]
    /\ next \in [Callers -> Nat \ {0}]
    /\ ret \in [Callers -> {Nil, Ok, ErrNotStarted}]
    /\ callDone \subseteq Callers
    /\ worker \in [Workers -> {"none", "select", "watch", "exit"}]
    /\ watching \in [Workers -> Tasks \cup {Nil}]
    /\ task \in [Tasks -> {"new", "running", "finished"}]
    /\ handed \in [Tasks -> Nat]

\* New
Init ==
    /\ started = FALSE
    /\ gen = 0
    /\ closed = {}
    /\ poolDone = {}
    /\ mutex = Free
    /\ pc = [c \in Callers |-> "idle"]
    /\ op \in [Callers -> {"Execute", "ExecuteTask"}]
    /\ \A c \in Callers : Len(Batch[c]) = 1 => op[c] = "Execute"  \* no difference
    /\ next = [c \in Callers |-> 1]
    /\ ret = [c \in Callers |-> Nil]
    /\ callDone = {}
    /\ worker = [w \in Workers |-> "none"]
    /\ watching = [w \in Workers |-> Nil]
    /\ task = [t \in Tasks |-> "new"]
    /\ handed = [t \in Tasks |-> 0]

-----------------------------------------------------------------------------
(* Start and Stop; ErrAlreadyStarted and ErrAlreadyStopped change nothing *)

Start ==
    /\ mutex = Free
    /\ ~started
    /\ gen < MaxStarts
    /\ gen' = gen + 1
    /\ worker' = [w \in Workers |-> IF w[1] = gen' THEN "select" ELSE worker[w]]
    /\ started' = TRUE
    /\ UNCHANGED <<closed, poolDone, calls, watching, tasks>>

\* Mutant: Stop does not take the mutex.
StopUnlocked ==
    /\ started
    /\ closed' = closed \cup {gen}
    /\ started' = FALSE
    /\ UNCHANGED <<gen, poolDone, calls, workers, tasks>>

\* Mutant: Stop does not close the channel.
StopUnclosed ==
    /\ mutex = Free
    /\ started
    /\ started' = FALSE
    /\ UNCHANGED <<gen, closed, poolDone, calls, workers, tasks>>

Stop ==
    /\ mutex = Free
    /\ started
    /\ closed' = closed \cup {gen}
    /\ started' = FALSE
    /\ UNCHANGED <<gen, poolDone, calls, workers, tasks>>

\* The context given to the g-th Start is cancelled.
CancelPool(g) ==
    /\ g <= gen
    /\ g \notin poolDone
    /\ poolDone' = poolDone \cup {g}
    /\ UNCHANGED <<started, gen, closed, calls, workers, tasks>>

-----------------------------------------------------------------------------
(* Execute and ExecuteTask *)

Call(c) ==
    /\ pc[c] = "idle"
    /\ Parent[c] # Outside => task[Parent[c]] = "running"
    /\ pc' = [pc EXCEPT ![c] = "lock"]
    /\ UNCHANGED <<lifecycle, mutex, op, next, ret, callDone, workers, tasks>>

Lock(c) ==
    /\ pc[c] = "lock"
    /\ mutex = Free
    /\ \/ /\ started
          /\ mutex' = c
          /\ pc' = [pc EXCEPT ![c] = "send"]
          /\ UNCHANGED ret
       \/ /\ ~started
          /\ pc' = [pc EXCEPT ![c] = "done"]
          /\ ret' = [ret EXCEPT ![c] = ErrNotStarted]
          /\ UNCHANGED mutex
    /\ UNCHANGED <<lifecycle, op, next, callDone, workers, tasks>>

\* What the worker does with a task it receives: run it in a goroutine of its
\* own and wait for it.
Hand(w, t) ==
    /\ worker' = [worker EXCEPT ![w] = "watch"]
    /\ watching' = [watching EXCEPT ![w] = t]
    /\ task' = [task EXCEPT ![t] = "running"]
    /\ handed' = [handed EXCEPT ![t] = handed[t] + 1]

\* After a send: ExecuteTask goes on with the mutex held, Execute calls
\* ExecuteTask once per function and so gives the mutex up in between.
Advance(c) ==
    LET last == next[c] = Len(Batch[c])
    IN  /\ next' = [next EXCEPT ![c] = next[c] + 1]
        /\ mutex' = IF last \/ op[c] = "Execute" THEN Free ELSE c
        /\ pc' = [pc EXCEPT ![c] = IF last THEN "done"
                                   ELSE IF op[c] = "Execute" THEN "lock" ELSE "send"]
        /\ ret' = [ret EXCEPT ![c] = IF last THEN Ok ELSE Nil]

\* p.channel <- taskContext{...}, received by an idle worker of this start.
Send(c, i) ==
    /\ pc[c] = "send"
    /\ worker[<<gen, i>>] = "select"
    /\ Hand(<<gen, i>>, Batch[c][next[c]])
    /\ Advance(c)
    /\ UNCHANGED <<lifecycle, op, callDone>>

\* The context given to Execute is cancelled; nothing in ExecuteTask looks at it.
CancelCall(c) ==
    /\ c \notin callDone
    /\ callDone' = callDone \cup {c}
    /\ UNCHANGED <<lifecycle, mutex, pc, op, next, ret, workers, tasks>>

-----------------------------------------------------------------------------
(* startWorker and the goroutine of a task *)

\* The worker returns: its start's context is done, or its channel is closed.
WorkerLeave(w) ==
    /\ \/ worker[w] \in {"select", "watch"} /\ w[1] \in poolDone
       \/ worker[w] = "select" /\ w[1] \in closed
    /\ worker' = [worker EXCEPT ![w] = "exit"]
    /\ watching' = [watching EXCEPT ![w] = Nil]
    /\ UNCHANGED <<lifecycle, calls, tasks>>

\* Mutant: the worker does not wait for its task.
WorkerAgainEager(w) ==
    /\ worker[w] = "watch"
    /\ worker' = [worker EXCEPT ![w] = "select"]
    /\ watching' = [watching EXCEPT ![w] = Nil]
    /\ UNCHANGED <<lifecycle, calls, tasks>>

\* Mutant: the worker waits for its task whatever happens to the task's context.
WorkerAgainPatient(w) ==
    /\ worker[w] = "watch"
    /\ task[watching[w]] = "finished"
    /\ worker' = [worker EXCEPT ![w] = "select"]
    /\ watching' = [watching EXCEPT ![w] = Nil]
    /\ UNCHANGED <<lifecycle, calls, tasks>>

\* The worker looks for the next task: this one is finished, or its context is
\* done and it is left running on its own.
WorkerAgain(w) ==
    /\ worker[w] = "watch"
    /\ task[watching[w]] = "finished" \/ Owner(watching[w]) \in callDone
    /\ worker' = [worker EXCEPT ![w] = "select"]
    /\ watching' = [watching EXCEPT ![w] = Nil]
    /\ UNCHANGED <<lifecycle, calls, tasks>>

\* The calls that the body of task t makes on this pool.
CallsOf(t) == {c \in Callers : Parent[c] = t}

\* task.Run returns.
Finish(t) ==
    /\ task[t] = "running"
    /\ \A c \in CallsOf(t) : pc[c] = "done"
    /\ task' = [task EXCEPT ![t] = "finished"]
    /\ UNCHANGED <<lifecycle, calls, workers, handed>>

-----------------------------------------------------------------------------
Next ==
    \/ Start
    \/ Stop
    \/ \E g \in Gens : CancelPool(g)
    \/ \E c \in Callers :
          \/ Call(c)
          \/ Lock(c)
          \/ \E i \in 1 .. Size : Send(c, i)
          \/ CancelCall(c)
    \/ \E w \in Workers : WorkerLeave(w) \/ WorkerAgain(w)
    \/ \E t \in Tasks : Finish(t)

\* Goroutines are scheduled, task bodies end (once the calls they make have
\* returned) and make their calls; Start, Stop and cancellations may never come.
Fairness ==
    /\ \A c \in Callers :
          /\ WF_vars(Parent[c] # Outside /\ Call(c))
          /\ WF_vars(Lock(c))
          /\ WF_vars(\E i \in 1 .. Size : Send(c, i))
    /\ \A w \in Workers : WF_vars(WorkerLeave(w)) /\ WF_vars(WorkerAgain(w))
    /\ \A t \in Tasks : WF_vars(Finish(t))

Spec == Init /\ [][Next]_vars
FairSpec == Spec /\ Fairness

-----------------------------------------------------------------------------
(* What must hold *)

\* ExecuteTask never sends on a channel that Stop has closed (a panic): while
\* a call is sending, the pool stays started and the channel open.
NoSendOnClosed == \A c \in Callers : pc[c] = "send" => started /\ gen \notin closed

\* A task is handed to at most one worker, and a call returns nil only when
\* every one of its tasks has been handed over; a call that is refused may have
\* handed over a part of its batch, but only in the form Execute.
\*
\* Every running task occupies a worker of its own unless its context or the
\* context of a start is cancelled: below that, a pool runs at most Size tasks
\* per start.  (After a cancellation abandoned tasks run on beside new ones.)
TasksAreAccounted ==
    /\ \A t \in Tasks : handed[t] <= 1
    /\ \A c \in Callers : \A i \in DOMAIN Batch[c] :
          /\ ret[c] = Ok => handed[Batch[c][i]] = 1
          /\ ret[c] = ErrNotStarted /\ op[c] = "ExecuteTask" => handed[Batch[c][i]] = 0
    /\ poolDone = {} =>
          \A t \in Tasks : task[t] = "running" /\ Owner(t) \notin callDone
                               => \E w \in Workers : watching[w] = t
    /\ \A v, w \in Workers : watching[v] = watching[w] /\ watching[v] # Nil => v = w

\* Nobody will receive from the current channel before a call on this very
\* pool returns: every worker has left, or waits for a live task whose body is
\* inside Execute.
Stuck ==
    \A i \in 1 .. Size :
        LET w == <<gen, i>>
        IN  \/ worker[w] = "exit"
            \/ /\ worker[w] = "watch"
               /\ Owner(watching[w]) \notin callDone
               /\ \E c \in CallsOf(watching[w]) : pc[c] \in {"lock", "send"}

CallHangs == (\E c \in Callers : pc[c] = "send") /\ Stuck

\* Execute and ExecuteTask return, although they ignore their context and block
\* with the mutex held, unless the pool is stuck: it has no worker, its start's
\* context was cancelled without Stop, or all workers wait for calls on the pool.
CallsReturn ==
    \A c \in Callers : pc[c] \in {"lock", "send"} ~> (pc[c] = "done" \/ CallHangs)

\* The workers of a start that was stopped leave, once their tasks let them.
StopDrains ==
    \A w \in Workers :
        (w[1] < gen \/ (w[1] = gen /\ ~started)) ~> (worker[w] = "exit" \/ CallHangs)
=============================================================================
