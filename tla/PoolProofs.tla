----------------------------- MODULE PoolProofs -----------------------------
(***************************************************************************)
(* Proofs about Pool, for any pool size, number of starts, callers and     *)
(* batches, calls from inside tasks included.                              *)
(*                                                                         *)
(* The inductive invariant ties a call to the mutex (the sender holds it,  *)
(* so the pool cannot be stopped under it), the tasks handed over to the   *)
(* progress of the call that submits them, and a worker to its task.       *)
(*                                                                         *)
(* The last part shows that the futures of Future use the pool as its      *)
(* callers do, so that all this holds of the pool under them.              *)
(***************************************************************************)
EXTENDS Future, TLAPS

\* The pool is started, with an open channel, as long as a call is sending.
ChannelInv ==
    /\ started => gen \in Gens /\ gen \notin closed
    /\ \A c \in Callers : pc[c] = "send" => mutex = c /\ started

\* How far a call is: ExecuteTask lets go of the mutex only when it returns.
CallInv ==
    \A c \in Callers :
        /\ pc[c] # "done" => ret[c] = Nil /\ next[c] <= Len(Batch[c])
        /\ ret[c] = Ok => next[c] = Len(Batch[c]) + 1
        /\ op[c] = "ExecuteTask" /\ (pc[c] \in {"idle", "lock"} \/ ret[c] = ErrNotStarted)
              => next[c] = 1

\* Exactly the tasks before next[c] have been handed over, once.
HandedInv ==
    /\ \A c \in Callers : \A i \in DOMAIN Batch[c] :
          handed[Batch[c][i]] = IF i < next[c] THEN 1 ELSE 0
    /\ \A t \in Tasks : handed[t] <= 1

\* A worker has a task exactly while it waits for it, and has it alone; a task
\* without a worker is over, or was left behind after a cancellation.
WatchInv ==
    /\ \A w \in Workers :
          /\ watching[w] # Nil <=> worker[w] = "watch"
          /\ watching[w] # Nil => w[1] <= gen /\ handed[watching[w]] = 1
    /\ \A v, w \in Workers : watching[v] = watching[w] /\ watching[v] # Nil => v = w
    /\ \A t \in Tasks :
          task[t] = "running" =>
              \/ poolDone # {}
              \/ Owner(t) \in callDone
              \/ \E w \in Workers : watching[w] = t

IInv == TypeOK /\ ChannelInv /\ CallInv /\ HandedInv /\ WatchInv

-----------------------------------------------------------------------------
(* Batches *)

LEMMA BatchParts ==
    ASSUME NEW c \in Callers
    PROVE  /\ Batch[c] \in Seq(Tasks)
           /\ Len(Batch[c]) \in Nat /\ Len(Batch[c]) >= 1
           /\ DOMAIN Batch[c] = 1 .. Len(Batch[c])
           /\ \A i \in 1 .. Len(Batch[c]) : Batch[c][i] \in Tasks
<1>1. Batch[c] \in Seq(Tasks) /\ Batch[c] # <<>>
  BY PoolAssumption
<1>2. QED
  BY <1>1

LEMMA InitIInv == Init => IInv
<1> SUFFICES ASSUME Init PROVE IInv
  OBVIOUS
<1> USE PoolAssumption DEF Init
<1>1. TypeOK
  <2>1. gen \in 0 .. MaxStarts /\ closed \subseteq 1 .. gen /\ poolDone \subseteq 1 .. gen
    OBVIOUS
  <2>2. /\ next \in [Callers -> Nat \ {0}]
        /\ handed \in [Tasks -> Nat]
        /\ task \in [Tasks -> {"new", "running", "finished"}]
    OBVIOUS
  <2>3. /\ worker \in [Workers -> {"none", "select", "watch", "exit"}]
        /\ watching \in [Workers -> Tasks \cup {Nil}]
    OBVIOUS
  <2>4. QED
    BY <2>1, <2>2, <2>3 DEF TypeOK
<1>2. ChannelInv
  BY DEF ChannelInv
<1>3. CallInv
  BY BatchParts DEF CallInv
<1>4. HandedInv
  <2>1. \A c \in Callers : \A i \in DOMAIN Batch[c] : ~(i < next[c]) /\ Batch[c][i] \in Tasks
    BY BatchParts
  <2>2. QED
    BY <2>1 DEF HandedInv
<1>5. WatchInv
  BY DEF WatchInv
<1>6. QED
  BY <1>1, <1>2, <1>3, <1>4, <1>5 DEF IInv

-----------------------------------------------------------------------------
(* Start and Stop *)

LEMMA StartIInv == IInv /\ Start => IInv'
<1> SUFFICES ASSUME IInv, Start PROVE IInv'
  OBVIOUS
<1> USE PoolAssumption DEF IInv, Start, calls, tasks, Gens
<1>1. TypeOK'
  BY DEF TypeOK
<1>2. ChannelInv'
  BY DEF TypeOK, ChannelInv
<1>3. CallInv' /\ HandedInv'
  BY DEF CallInv, HandedInv
<1>4. WatchInv'
  <2>1. \A w \in Workers : w[1] = gen + 1 => watching[w] = Nil
    BY DEF TypeOK, WatchInv
  <2>2. \A w \in Workers : w[1] # gen + 1 => worker'[w] = worker[w]
    BY DEF TypeOK
  <2>3. \A w \in Workers : w[1] = gen + 1 => worker'[w] = "select"
    BY DEF TypeOK
  <2>4. \A w \in Workers : w[1] \in Nat
    BY DEF Workers
  <2>5. gen \in Nat /\ gen' = gen + 1
    BY DEF TypeOK
  <2>6. UNCHANGED <<watching, task, handed, callDone, poolDone>>
    OBVIOUS
  <2> HIDE DEF Start, calls, tasks, Gens
  <2>7. ASSUME NEW w \in Workers
        PROVE  /\ watching[w] # Nil <=> worker'[w] = "watch"
               /\ watching[w] # Nil => w[1] <= gen' /\ handed[watching[w]] = 1
    BY <2>1, <2>2, <2>3, <2>4, <2>5 DEF WatchInv
  <2>8. QED
    BY <2>6, <2>7 DEF WatchInv
<1>5. QED
  BY <1>1, <1>2, <1>3, <1>4

LEMMA StopIInv == IInv /\ Stop => IInv'
<1> SUFFICES ASSUME IInv, Stop PROVE IInv'
  OBVIOUS
<1> USE PoolAssumption DEF IInv, Stop, calls, workers, tasks
<1>1. TypeOK'
  <2>1. gen \in Nat /\ gen \in 1 .. gen
    BY DEF ChannelInv, Gens
  <2>2. closed' \subseteq 1 .. gen
    BY <2>1 DEF TypeOK
  <2>3. QED
    BY <2>2 DEF TypeOK
<1>2. ChannelInv'
  BY DEF TypeOK, ChannelInv
<1>3. CallInv' /\ HandedInv' /\ WatchInv'
  BY DEF CallInv, HandedInv, WatchInv
<1>4. QED
  BY <1>1, <1>2, <1>3

LEMMA CancelPoolIInv ==
    ASSUME IInv, NEW g \in Gens, CancelPool(g)
    PROVE  IInv'
<1> USE PoolAssumption DEF IInv, CancelPool, calls, workers, tasks
<1>1. TypeOK'
  BY DEF TypeOK, Gens
<1>2. ChannelInv' /\ CallInv' /\ HandedInv' /\ WatchInv'
  BY DEF ChannelInv, CallInv, HandedInv, WatchInv
<1>3. QED
  BY <1>1, <1>2

-----------------------------------------------------------------------------
(* Execute and ExecuteTask *)

LEMMA CallIInv ==
    ASSUME IInv, NEW c \in Callers, Call(c)
    PROVE  IInv'
<1> USE PoolAssumption DEF IInv, Call, lifecycle, workers, tasks
<1>1. TypeOK'
  BY DEF TypeOK
<1>2. ChannelInv' /\ CallInv'
  BY DEF TypeOK, ChannelInv, CallInv
<1>3. HandedInv' /\ WatchInv'
  BY DEF HandedInv, WatchInv
<1>4. QED
  BY <1>1, <1>2, <1>3

LEMMA LockIInv ==
    ASSUME IInv, NEW c \in Callers, Lock(c)
    PROVE  IInv'
<1> USE PoolAssumption DEF IInv, Lock, lifecycle, workers, tasks
<1>1. TypeOK'
  BY DEF TypeOK
<1>2. ChannelInv'
  BY DEF TypeOK, ChannelInv
<1>3. CallInv'
  BY DEF TypeOK, CallInv
<1>4. HandedInv' /\ WatchInv'
  BY DEF HandedInv, WatchInv
<1>5. QED
  BY <1>1, <1>2, <1>3, <1>4

LEMMA CancelCallIInv ==
    ASSUME IInv, NEW c \in Callers, CancelCall(c)
    PROVE  IInv'
<1> USE PoolAssumption DEF IInv, CancelCall, lifecycle, workers, tasks
<1>1. TypeOK'
  BY DEF TypeOK
<1>2. ChannelInv' /\ CallInv' /\ HandedInv' /\ WatchInv'
  BY DEF ChannelInv, CallInv, HandedInv, WatchInv
<1>3. QED
  BY <1>1, <1>2

\* A send hands over the next task of the batch, which nobody has had, to a
\* worker that has none.
LEMMA SendIInv ==
    ASSUME IInv, NEW c \in Callers, NEW i \in 1 .. Size, Send(c, i)
    PROVE  IInv'
<1> DEFINE w == <<gen, i>>
           t == Batch[c][next[c]]
<1> USE PoolAssumption DEF IInv, Send, Hand, Advance, lifecycle
<1>0. /\ w \in Workers /\ w[1] = gen
      /\ next[c] \in 1 .. Len(Batch[c]) /\ t \in Tasks /\ Len(Batch[c]) \in Nat
      /\ mutex = c /\ started
  <2>1. mutex = c /\ started /\ gen \in Gens
    BY DEF ChannelInv
  <2>2. next[c] \in Nat \ {0} /\ next[c] <= Len(Batch[c])
    BY DEF TypeOK, CallInv
  <2>3. QED
    BY <2>1, <2>2, BatchParts DEF Workers
<1>1. TypeOK'
  <2>1. /\ worker' \in [Workers -> {"none", "select", "watch", "exit"}]
        /\ watching' \in [Workers -> Tasks \cup {Nil}]
        /\ task' \in [Tasks -> {"new", "running", "finished"}]
        /\ handed' \in [Tasks -> Nat]
    BY <1>0 DEF TypeOK
  <2>2. /\ next' \in [Callers -> Nat \ {0}]
        /\ mutex' \in Callers \cup {Free}
        /\ pc' \in [Callers -> {"idle", "lock", "send", "done"}]
        /\ ret' \in [Callers -> {Nil, Ok, ErrNotStarted}]
    BY <1>0 DEF TypeOK
  <2>3. QED
    BY <2>1, <2>2 DEF TypeOK
<1>2. ChannelInv'
  BY <1>0 DEF TypeOK, ChannelInv
<1>3. CallInv'
  BY <1>0 DEF TypeOK, CallInv
<1>4. handed[t] = 0 /\ handed' = [handed EXCEPT ![t] = 1]
  <2>1. next[c] \in DOMAIN Batch[c] /\ ~(next[c] < next[c])
    BY <1>0, BatchParts
  <2>2. handed[t] = 0
    BY <2>1 DEF HandedInv
  <2>3. QED
    BY <2>2
<1>5. HandedInv'
  <2>1. ASSUME NEW d \in Callers, NEW j \in DOMAIN Batch[d]
        PROVE  handed'[Batch[d][j]] = IF j < next'[d] THEN 1 ELSE 0
    <3>1. /\ j \in Nat /\ Batch[d][j] \in Tasks
          /\ Batch[d][j] = t => d = c /\ j = next[c]
      BY <1>0, BatchParts
    <3>2. next'[c] = next[c] + 1 /\ (d # c => next'[d] = next[d])
      BY DEF TypeOK
    <3>3. CASE d = c /\ j = next[c]
      BY <1>0, <1>4, <3>1, <3>2, <3>3 DEF TypeOK
    <3>4. CASE d # c \/ j # next[c]
      <4>1. handed'[Batch[d][j]] = handed[Batch[d][j]]
        BY <1>4, <3>1, <3>4 DEF TypeOK
      <4>2. j < next'[d] <=> j < next[d]
        BY <1>0, <3>1, <3>2, <3>4 DEF TypeOK
      <4>3. QED
        BY <4>1, <4>2 DEF HandedInv
    <3>5. QED
      BY <3>3, <3>4
  <2>2. \A u \in Tasks : handed'[u] <= 1
    BY <1>0, <1>4 DEF TypeOK, HandedInv
  <2>3. QED
    BY <2>1, <2>2 DEF HandedInv
<1>6. WatchInv'
  <2>0. worker[w] = "select" /\ t # Nil
    BY <1>0
  <2>1. /\ watching[w] = Nil
        /\ \A v \in Workers : watching[v] # t
    <3> HIDE DEF w, t
    <3>1. QED
      BY <1>0, <1>4, <2>0 DEF WatchInv
  <2>2. /\ watching' = [watching EXCEPT ![w] = t]
        /\ worker' = [worker EXCEPT ![w] = "watch"]
        /\ task' = [task EXCEPT ![t] = "running"]
    OBVIOUS
  <2> HIDE DEF w, t, Send, Hand, Advance
  <2>3. UNCHANGED <<gen, poolDone, callDone>>
    BY DEF Send
  <2>4. \A v \in Workers : /\ watching'[v] = IF v = w THEN t ELSE watching[v]
                           /\ worker'[v] = IF v = w THEN "watch" ELSE worker[v]
    BY <2>2 DEF TypeOK
  <2>5. t # Nil
    BY <1>0
  <2>6. ASSUME NEW v \in Workers
        PROVE  /\ watching'[v] # Nil <=> worker'[v] = "watch"
               /\ watching'[v] # Nil => v[1] <= gen' /\ handed'[watching'[v]] = 1
    <3>1. CASE v = w
      BY <1>0, <1>4, <2>3, <2>4, <2>5, <3>1 DEF TypeOK
    <3>2. CASE v # w
      BY <1>0, <1>4, <2>1, <2>3, <2>4, <3>2 DEF TypeOK, WatchInv
    <3>3. QED
      BY <3>1, <3>2
  <2>7. \A u, v \in Workers : watching'[u] = watching'[v] /\ watching'[u] # Nil => u = v
    BY <2>1, <2>4 DEF WatchInv
  <2>8. ASSUME NEW u \in Tasks, task'[u] = "running", poolDone = {}, Owner(u) \notin callDone
        PROVE  \E v \in Workers : watching'[v] = u
    <3>1. CASE u = t
      BY <1>0, <2>4, <3>1
    <3>2. CASE u # t
      <4>1. PICK v \in Workers : watching[v] = u
        BY <1>0, <2>2, <2>8, <3>2 DEF TypeOK, WatchInv
      <4>2. v # w
        BY <2>1, <4>1
      <4>3. QED
        BY <2>4, <4>1, <4>2
    <3>3. QED
      BY <3>1, <3>2
  <2>9. QED
    BY <2>3, <2>6, <2>7, <2>8 DEF WatchInv
<1>7. QED
  BY <1>1, <1>2, <1>3, <1>5, <1>6

-----------------------------------------------------------------------------
(* The workers *)

\* What the two ways a worker gives up its task have in common: the task it
\* leaves is over, or its context or the context of a start is cancelled.
LEMMA LetGoIInv ==
    ASSUME IInv, NEW w \in Workers, NEW to \in {"select", "exit"},
           worker' = [worker EXCEPT ![w] = to],
           watching' = [watching EXCEPT ![w] = Nil],
           UNCHANGED <<lifecycle, calls, tasks>>,
           watching[w] # Nil => \/ task[watching[w]] = "finished"
                                \/ Owner(watching[w]) \in callDone
                                \/ poolDone # {}
    PROVE  IInv'
<1> USE PoolAssumption DEF IInv, lifecycle, calls, tasks
<1>1. TypeOK'
  BY DEF TypeOK
<1>2. ChannelInv' /\ CallInv' /\ HandedInv'
  BY DEF ChannelInv, CallInv, HandedInv
<1>3. WatchInv'
  <2>1. \A v \in Workers : /\ watching'[v] = IF v = w THEN Nil ELSE watching[v]
                           /\ worker'[v] = IF v = w THEN to ELSE worker[v]
    BY DEF TypeOK
  <2>2. \A v \in Workers :
           /\ watching'[v] # Nil <=> worker'[v] = "watch"
           /\ watching'[v] # Nil => v[1] <= gen /\ handed[watching'[v]] = 1
    BY <2>1 DEF WatchInv
  <2>3. \A u, v \in Workers : watching'[u] = watching'[v] /\ watching'[u] # Nil => u = v
    BY <2>1 DEF WatchInv
  <2>4. ASSUME NEW u \in Tasks, task[u] = "running", poolDone = {}, Owner(u) \notin callDone
        PROVE  \E v \in Workers : watching'[v] = u
    <3>1. PICK v \in Workers : watching[v] = u
      BY <2>4 DEF WatchInv
    <3>2. v # w
      BY <2>4, <3>1
    <3>3. QED
      BY <2>1, <3>1, <3>2
  <2>5. QED
    BY <2>2, <2>3, <2>4 DEF WatchInv
<1>4. QED
  BY <1>1, <1>2, <1>3

LEMMA WorkerLeaveIInv ==
    ASSUME IInv, NEW w \in Workers, WorkerLeave(w)
    PROVE  IInv'
<1>1. watching[w] # Nil => poolDone # {}
  BY DEF WorkerLeave, IInv, WatchInv
<1>2. QED
  BY <1>1, LetGoIInv DEF WorkerLeave

LEMMA WorkerAgainIInv ==
    ASSUME IInv, NEW w \in Workers, WorkerAgain(w)
    PROVE  IInv'
BY LetGoIInv DEF WorkerAgain

LEMMA FinishIInv ==
    ASSUME IInv, NEW t \in Tasks, Finish(t)
    PROVE  IInv'
<1> USE PoolAssumption DEF IInv, Finish, lifecycle, calls, workers
<1>1. TypeOK'
  BY DEF TypeOK
<1>2. ChannelInv' /\ CallInv' /\ HandedInv'
  BY DEF ChannelInv, CallInv, HandedInv
<1>3. WatchInv'
  <2>1. \A u \in Tasks : task'[u] = "running" => task[u] = "running"
    BY DEF TypeOK
  <2>2. QED
    BY <2>1 DEF WatchInv
<1>4. QED
  BY <1>1, <1>2, <1>3

LEMMA NextIInv == IInv /\ [Next]_vars => IInv'
<1> SUFFICES ASSUME IInv, [Next]_vars PROVE IInv'
  OBVIOUS
<1>1. CASE Start
  BY <1>1, StartIInv
<1>2. CASE Stop
  BY <1>2, StopIInv
<1>3. CASE \E g \in Gens : CancelPool(g)
  BY <1>3, CancelPoolIInv
<1>4. CASE \E c \in Callers :
              \/ Call(c)
              \/ Lock(c)
              \/ \E i \in 1 .. Size : Send(c, i)
              \/ CancelCall(c)
  BY <1>4, CallIInv, LockIInv, SendIInv, CancelCallIInv
<1>5. CASE \E w \in Workers : WorkerLeave(w) \/ WorkerAgain(w)
  BY <1>5, WorkerLeaveIInv, WorkerAgainIInv
<1>6. CASE \E t \in Tasks : Finish(t)
  BY <1>6, FinishIInv
<1>7. CASE UNCHANGED vars
  <2>1. TypeOK' /\ ChannelInv' /\ CallInv'
    BY <1>7 DEF vars, IInv, TypeOK, ChannelInv, CallInv
  <2>2. HandedInv' /\ WatchInv'
    BY <1>7 DEF vars, IInv, HandedInv, WatchInv
  <2>3. QED
    BY <2>1, <2>2 DEF IInv
<1>8. QED
  BY <1>1, <1>2, <1>3, <1>4, <1>5, <1>6, <1>7 DEF Next

LEMMA SpecIInv == Spec => []IInv
BY InitIInv, NextIInv, PTL DEF Spec

-----------------------------------------------------------------------------
\* ExecuteTask never sends on a channel that Stop has closed, however often the
\* pool is started and stopped: the sender holds the mutex Stop needs.
THEOREM SendsAreSafe == Spec => []NoSendOnClosed
<1>1. IInv => NoSendOnClosed
  BY DEF IInv, ChannelInv, NoSendOnClosed
<1>2. QED
  BY <1>1, SpecIInv, PTL

\* No task is handed to two workers; a call that returns nil has handed over
\* its whole batch and a refused ExecuteTask none of it; and every running task
\* has a worker of its own as long as nothing is cancelled.
THEOREM EveryTaskAccounted == Spec => []TasksAreAccounted
<1>1. IInv => TasksAreAccounted
  <2> SUFFICES ASSUME IInv PROVE TasksAreAccounted
    OBVIOUS
  <2> USE PoolAssumption DEF IInv
  <2>1. ASSUME NEW c \in Callers, NEW i \in DOMAIN Batch[c]
        PROVE  /\ ret[c] = Ok => handed[Batch[c][i]] = 1
               /\ ret[c] = ErrNotStarted /\ op[c] = "ExecuteTask" => handed[Batch[c][i]] = 0
    <3>1. i \in Nat /\ i >= 1 /\ i <= Len(Batch[c]) /\ Len(Batch[c]) \in Nat
      BY BatchParts
    <3>2. ret[c] = Ok => i < next[c]
      BY <3>1 DEF CallInv
    <3>3. ret[c] = ErrNotStarted /\ op[c] = "ExecuteTask" => ~(i < next[c])
      BY <3>1 DEF CallInv
    <3>4. QED
      BY <3>2, <3>3 DEF HandedInv
  <2>2. QED
    BY <2>1 DEF HandedInv, WatchInv, TasksAreAccounted
<1>2. QED
  BY <1>1, SpecIInv, PTL

-----------------------------------------------------------------------------
(* The pool under the futures: the calls of New that use it, and the       *)
(* futures they make.  To the pool, a call from inside the body of a       *)
(* future of the default pool comes from outside.                          *)

PoolCallers == Callers \ OnDefault
PoolTasks == {t \in Tasks : Owner(t) \notin OnDefault}

OfCallers(f) == [c \in PoolCallers |-> f[c]]
OfTasks(f) == [t \in PoolTasks |-> f[t]]
PoolParent == [c \in PoolCallers |-> IF Parent[c] \in PoolTasks THEN Parent[c] ELSE Outside]

UnderFutures == INSTANCE Pool WITH
    Callers <- PoolCallers, Tasks <- PoolTasks, Batch <- OfCallers(Batch), Parent <- PoolParent,
    pc <- OfCallers(pc), op <- OfCallers(op), next <- OfCallers(next), ret <- OfCallers(ret),
    task <- OfTasks(task), handed <- OfTasks(handed)

\* A future is one call with one task; those of the default pool never queue,
\* and no worker of the pool waits for one.
FutureInv ==
    /\ pc \in [Callers -> {"idle", "lock", "send", "done"}]
    /\ op \in [Callers -> {"Execute", "ExecuteTask"}]
    /\ next \in [Callers -> Nat] /\ ret \in [Callers -> {Nil, Ok, ErrNotStarted}]
    /\ task \in [Tasks -> {"new", "running", "finished"}] /\ handed \in [Tasks -> Nat]
    /\ worker \in [Workers -> {"none", "select", "watch", "exit"}]
    /\ watching \in [Workers -> PoolTasks \cup {Nil}]
    /\ \A c \in Callers : pc[c] # "done" => next[c] = 1
    /\ \A c \in OnDefault : pc[c] \in {"idle", "done"}
    /\ \A w \in Workers : worker[w] = "watch" => watching[w] # Nil

LEMMA OneTaskEach ==
    ASSUME NEW c \in Callers
    PROVE  /\ Len(Batch[c]) = 1 /\ DOMAIN Batch[c] = {1} /\ Batch[c][1] \in Tasks
           /\ Owner(Batch[c][1]) = c
           /\ Batch[c][1] \in PoolTasks <=> c \notin OnDefault
<1>1. /\ Batch[c] \in Seq(Tasks) /\ Len(Batch[c]) \in Nat /\ Len(Batch[c]) >= 1
      /\ DOMAIN Batch[c] = 1 .. Len(Batch[c])
      /\ \A i \in 1 .. Len(Batch[c]) : Batch[c][i] \in Tasks
  BY BatchParts
<1>2. \A d \in Callers : \A i \in DOMAIN Batch[c], j \in DOMAIN Batch[d] :
         Batch[c][i] = Batch[d][j] => c = d /\ i = j
  BY PoolAssumption
<1>3. \A i \in DOMAIN Batch[c] : i = 1
  <2>1. SUFFICES ASSUME NEW i \in DOMAIN Batch[c]
                 PROVE  i = 1
    OBVIOUS
  <2>2. PICK d \in Callers : Batch[d] = <<Batch[c][i]>>
    BY <1>1, FutureAssumption
  <2>3. 1 \in DOMAIN Batch[d] /\ Batch[d][1] = Batch[c][i]
    BY <2>2
  <2>4. QED
    BY <1>2, <2>3
<1>4. Len(Batch[c]) = 1 /\ DOMAIN Batch[c] = {1} /\ Batch[c][1] \in Tasks
  <2>1. 1 \in 1 .. Len(Batch[c]) /\ Len(Batch[c]) \in 1 .. Len(Batch[c])
    BY <1>1
  <2>2. Len(Batch[c]) = 1
    BY <1>1, <1>3, <2>1
  <2>3. QED
    BY <1>1, <2>1, <2>2
<1>5. Owner(Batch[c][1]) = c
  <2>1. \A d \in Callers : (\E j \in DOMAIN Batch[d] : Batch[d][j] = Batch[c][1]) <=> d = c
    BY <1>2, <1>4
  <2>2. QED
    BY <2>1 DEF Owner
<1>6. QED
  BY <1>4, <1>5 DEF PoolTasks

\* The pool takes the owner of a future for the same call.
LEMMA SameOwner ==
    ASSUME NEW t \in PoolTasks
    PROVE  UnderFutures!Owner(t) = Owner(t)
<1>1. PICK c \in Callers : Batch[c] = <<t>>
  BY FutureAssumption DEF PoolTasks
<1>2. Owner(t) = c /\ c \in PoolCallers
  BY <1>1, OneTaskEach DEF PoolTasks, PoolCallers
<1>3. \A d \in PoolCallers : (\E j \in DOMAIN OfCallers(Batch)[d] : OfCallers(Batch)[d][j] = t) <=> d = c
  <2>1. \A d \in PoolCallers : (\E j \in DOMAIN Batch[d] : Batch[d][j] = t) <=> d = c
    BY <1>1, <1>2, PoolAssumption DEF PoolCallers
  <2>2. QED
    BY <2>1 DEF OfCallers
<1>4. QED
  BY <1>2, <1>3 DEF UnderFutures!Owner

LEMMA FutureInitInv == FutureInit => FutureInv /\ UnderFutures!Init
<1> SUFFICES ASSUME FutureInit PROVE FutureInv /\ UnderFutures!Init
  OBVIOUS
<1> USE DEF FutureInit, Init
<1>1. FutureInv
  <2>1. /\ pc \in [Callers -> {"idle", "lock", "send", "done"}]
        /\ op \in [Callers -> {"Execute", "ExecuteTask"}]
        /\ next \in [Callers -> Nat] /\ ret \in [Callers -> {Nil, Ok, ErrNotStarted}]
        /\ task \in [Tasks -> {"new", "running", "finished"}] /\ handed \in [Tasks -> Nat]
    OBVIOUS
  <2>2. /\ worker \in [Workers -> {"none", "select", "watch", "exit"}]
        /\ watching \in [Workers -> PoolTasks \cup {Nil}]
        /\ \A w \in Workers : worker[w] # "watch"
    OBVIOUS
  <2>3. \A c \in Callers : pc[c] = "idle" /\ next[c] = 1
    OBVIOUS
  <2>4. OnDefault \subseteq Callers
    BY FutureAssumption
  <2>5. QED
    BY <2>1, <2>2, <2>3, <2>4 DEF FutureInv
<1>2. UnderFutures!Init
  <2>1. /\ OfCallers(pc) = [c \in PoolCallers |-> "idle"]
        /\ OfCallers(next) = [c \in PoolCallers |-> 1]
        /\ OfCallers(ret) = [c \in PoolCallers |-> Nil]
        /\ OfTasks(task) = [t \in PoolTasks |-> "new"]
        /\ OfTasks(handed) = [t \in PoolTasks |-> 0]
    BY DEF OfCallers, OfTasks, PoolCallers, PoolTasks
  <2>2. /\ OfCallers(op) \in [PoolCallers -> {"Execute", "ExecuteTask"}]
        /\ \A c \in PoolCallers : Len(OfCallers(Batch)[c]) = 1 => OfCallers(op)[c] = "Execute"
    BY DEF OfCallers, PoolCallers
  <2>3. UnderFutures!Workers = Workers
    BY DEF Workers, Gens, UnderFutures!Workers, UnderFutures!Gens
  <2>4. QED
    BY <2>1, <2>2, <2>3 DEF UnderFutures!Init
<1>3. QED
  BY <1>1, <1>2

\* A step of the lifecycle or of a worker touches no call and no future.
LEMMA LifecycleSteps ==
    ASSUME FutureInv,
           \/ Start \/ Stop \/ \E g \in Gens : CancelPool(g)
           \/ \E w \in Workers : WorkerLeave(w) \/ WorkerAgain(w)
    PROVE  FutureInv' /\ UnderFutures!Next
<1>0. UnderFutures!Gens = Gens /\ UnderFutures!Workers = Workers
  BY DEF UnderFutures!Gens, Gens, UnderFutures!Workers, Workers
<1> USE DEF UnderFutures!calls, calls, UnderFutures!tasks, tasks,
            UnderFutures!workers, workers, UnderFutures!lifecycle, lifecycle
<1>1. CASE Start
  <2>1. FutureInv'
    BY <1>1 DEF Start, FutureInv
  <2>2. UnderFutures!Start
    BY <1>0, <1>1 DEF Start, UnderFutures!Start
  <2>3. QED
    BY <2>1, <2>2 DEF UnderFutures!Next
<1>2. CASE Stop
  <2>1. FutureInv'
    BY <1>2 DEF Stop, FutureInv
  <2>2. UnderFutures!Stop
    BY <1>2 DEF Stop, UnderFutures!Stop
  <2>3. QED
    BY <1>0, <2>1, <2>2 DEF UnderFutures!Next
<1>3. CASE \E g \in Gens : CancelPool(g)
  <2>1. PICK g \in Gens : CancelPool(g)
    BY <1>3
  <2>2. FutureInv'
    BY <2>1 DEF CancelPool, FutureInv
  <2>3. UnderFutures!CancelPool(g)
    BY <2>1 DEF CancelPool, UnderFutures!CancelPool
  <2>4. QED
    BY <1>0, <2>2, <2>3 DEF UnderFutures!Next
<1>4. ASSUME NEW w \in Workers, WorkerLeave(w)
      PROVE  FutureInv' /\ UnderFutures!Next
  <2>1. FutureInv'
    BY <1>4 DEF WorkerLeave, FutureInv
  <2>2. UnderFutures!WorkerLeave(w)
    BY <1>4, <1>0 DEF WorkerLeave, UnderFutures!WorkerLeave
  <2>3. QED
    BY <1>0, <2>1, <2>2 DEF UnderFutures!Next
<1>5. ASSUME NEW w \in Workers, WorkerAgain(w)
      PROVE  FutureInv' /\ UnderFutures!Next
  <2>1. FutureInv'
    BY <1>5 DEF WorkerAgain, FutureInv
  <2>2. watching[w] \in PoolTasks
    BY <1>5 DEF WorkerAgain, FutureInv
  <2>3. OfTasks(task)[watching[w]] = task[watching[w]] /\ UnderFutures!Owner(watching[w]) = Owner(watching[w])
    BY <2>2, SameOwner DEF OfTasks
  <2>4. UnderFutures!WorkerAgain(w)
    BY <1>5, <2>3 DEF WorkerAgain, UnderFutures!WorkerAgain
  <2>5. QED
    BY <1>0, <2>1, <2>4 DEF UnderFutures!Next
<1>6. QED
  BY <1>1, <1>2, <1>3, <1>4, <1>5

\* A call of New that uses the pool.
LEMMA CallSteps ==
    ASSUME FutureInv, NEW c \in Callers, c \notin OnDefault, Call(c) \/ Lock(c) \/ CancelCall(c)
    PROVE  FutureInv' /\ UnderFutures!Next
<1> USE DEF UnderFutures!calls, calls, UnderFutures!tasks, tasks,
            UnderFutures!workers, workers, UnderFutures!lifecycle, lifecycle
<1>0. /\ c \in PoolCallers /\ OfCallers(pc)[c] = pc[c]
      /\ \A e : OfCallers([pc EXCEPT ![c] = e]) = [OfCallers(pc) EXCEPT ![c] = e]
      /\ \A e : OfCallers([ret EXCEPT ![c] = e]) = [OfCallers(ret) EXCEPT ![c] = e]
  <2>1. c \in PoolCallers /\ DOMAIN pc = Callers /\ DOMAIN ret = Callers
    BY DEF FutureInv, PoolCallers
  <2>2. OfCallers(pc)[c] = pc[c]
    BY <2>1 DEF OfCallers
  <2>3. ASSUME NEW e
        PROVE  OfCallers([pc EXCEPT ![c] = e]) = [OfCallers(pc) EXCEPT ![c] = e]
    BY <2>1 DEF OfCallers, PoolCallers
  <2>4. ASSUME NEW e
        PROVE  OfCallers([ret EXCEPT ![c] = e]) = [OfCallers(ret) EXCEPT ![c] = e]
    BY <2>1 DEF OfCallers, PoolCallers
  <2>5. QED
    BY <2>1, <2>2, <2>3, <2>4
<1>1. CASE Call(c)
  <2>1. FutureInv'
    BY <1>1 DEF Call, FutureInv
  <2>2. PoolParent[c] # Outside => OfTasks(task)[PoolParent[c]] = "running"
    BY <1>0, <1>1 DEF Call, PoolParent, OfTasks
  <2>3. UnderFutures!Call(c)
    BY <1>0, <1>1, <2>2 DEF Call, UnderFutures!Call
  <2>4. QED
    BY <1>0, <2>1, <2>3 DEF UnderFutures!Next
<1>2. CASE Lock(c)
  <2>1. FutureInv'
    <3>1. pc' \in [Callers -> {"idle", "lock", "send", "done"}] /\ ret' \in [Callers -> {Nil, Ok, ErrNotStarted}]
      BY <1>2 DEF Lock, FutureInv
    <3>2. \A d \in Callers : pc'[d] # "done" => pc[d] # "done"
      BY <1>2 DEF Lock, FutureInv
    <3>3. \A d \in OnDefault : pc'[d] = pc[d]
      BY <1>2, <1>0, FutureAssumption DEF Lock, FutureInv, PoolCallers
    <3>4. QED
      BY <1>2, <3>1, <3>2, <3>3 DEF Lock, FutureInv
  <2>2. UnderFutures!Lock(c)
    BY <1>0, <1>2 DEF Lock, UnderFutures!Lock
  <2>3. QED
    BY <1>0, <2>1, <2>2 DEF UnderFutures!Next
<1>3. CASE CancelCall(c)
  <2>1. FutureInv'
    BY <1>3 DEF CancelCall, FutureInv
  <2>2. UnderFutures!CancelCall(c)
    BY <1>3 DEF CancelCall, UnderFutures!CancelCall
  <2>3. QED
    BY <1>0, <2>1, <2>2 DEF UnderFutures!Next
<1>4. QED
  BY <1>1, <1>2, <1>3

\* The task of a call of New goes to a worker of the pool.
LEMMA SendStep ==
    ASSUME FutureInv, NEW c \in Callers, NEW i \in 1 .. Size, Send(c, i)
    PROVE  FutureInv' /\ UnderFutures!Next
<1> DEFINE t == Batch[c][1]
           w == <<gen, i>>
<1>1. c \in PoolCallers /\ next[c] = 1 /\ t \in PoolTasks /\ t \in Tasks /\ Len(Batch[c]) = 1
  BY OneTaskEach DEF Send, FutureInv, PoolCallers
<1>2. /\ DOMAIN pc = Callers /\ DOMAIN ret = Callers /\ DOMAIN next = Callers
      /\ DOMAIN task = Tasks /\ DOMAIN handed = Tasks
  BY DEF FutureInv
<1>3. /\ pc[c] = "send" /\ worker[w] = "select"
      /\ worker' = [worker EXCEPT ![w] = "watch"] /\ watching' = [watching EXCEPT ![w] = t]
      /\ task' = [task EXCEPT ![t] = "running"] /\ handed' = [handed EXCEPT ![t] = handed[t] + 1]
      /\ next' = [next EXCEPT ![c] = 2] /\ mutex' = Free
      /\ pc' = [pc EXCEPT ![c] = "done"] /\ ret' = [ret EXCEPT ![c] = Ok]
      /\ UNCHANGED <<lifecycle, op, callDone>>
  BY <1>1 DEF Send, Hand, Advance
<1> HIDE DEF t, w
<1>4. FutureInv'
  <2>1. t # Nil
    BY <1>1, PoolAssumption
  <2>2. QED
    <3>1. /\ pc' \in [Callers -> {"idle", "lock", "send", "done"}]
          /\ next' \in [Callers -> Nat] /\ ret' \in [Callers -> {Nil, Ok, ErrNotStarted}]
          /\ task' \in [Tasks -> {"new", "running", "finished"}] /\ handed' \in [Tasks -> Nat]
      BY <1>1, <1>3 DEF FutureInv
    <3>2. /\ worker' \in [Workers -> {"none", "select", "watch", "exit"}]
          /\ watching' \in [Workers -> PoolTasks \cup {Nil}]
          /\ \A v \in Workers : worker'[v] = "watch" => watching'[v] # Nil
      BY <1>1, <1>3, <2>1 DEF FutureInv
    <3>3. /\ \A d \in Callers : pc'[d] # "done" => next'[d] = 1
          /\ \A d \in OnDefault : pc'[d] \in {"idle", "done"}
      BY <1>1, <1>3 DEF FutureInv
    <3>4. QED
      BY <1>3, <3>1, <3>2, <3>3 DEF FutureInv
<1>5. /\ OfCallers(pc') = [OfCallers(pc) EXCEPT ![c] = "done"] /\ OfCallers(pc)[c] = pc[c]
      /\ OfCallers(ret') = [OfCallers(ret) EXCEPT ![c] = Ok]
      /\ OfCallers(next') = [OfCallers(next) EXCEPT ![c] = 2] /\ OfCallers(next)[c] = 1
      /\ OfTasks(task') = [OfTasks(task) EXCEPT ![t] = "running"]
      /\ OfTasks(handed') = [OfTasks(handed) EXCEPT ![t] = OfTasks(handed)[t] + 1]
      /\ OfCallers(Batch)[c] = Batch[c] /\ OfCallers(op') = OfCallers(op)
  <2>1. OfCallers(pc') = [OfCallers(pc) EXCEPT ![c] = "done"] /\ OfCallers(pc)[c] = pc[c]
    BY <1>1, <1>2, <1>3 DEF OfCallers, PoolCallers
  <2>2. OfCallers(ret') = [OfCallers(ret) EXCEPT ![c] = Ok]
    BY <1>1, <1>2, <1>3 DEF OfCallers, PoolCallers
  <2>3. OfCallers(next') = [OfCallers(next) EXCEPT ![c] = 2] /\ OfCallers(next)[c] = 1
    BY <1>1, <1>2, <1>3 DEF OfCallers, PoolCallers
  <2>4. OfTasks(task') = [OfTasks(task) EXCEPT ![t] = "running"]
    BY <1>1, <1>2, <1>3 DEF OfTasks, PoolTasks
  <2>5. OfTasks(handed') = [OfTasks(handed) EXCEPT ![t] = OfTasks(handed)[t] + 1]
    BY <1>1, <1>2, <1>3 DEF OfTasks, PoolTasks
  <2>6. OfCallers(Batch)[c] = Batch[c] /\ OfCallers(op') = OfCallers(op)
    BY <1>1, <1>3 DEF OfCallers
  <2>7. QED
    BY <2>1, <2>2, <2>3, <2>4, <2>5, <2>6
<1>6. UnderFutures!Hand(w, t)
  BY <1>3, <1>5 DEF UnderFutures!Hand
<1>7. UnderFutures!Advance(c)
  <2>1. OfCallers(next)[c] = Len(OfCallers(Batch)[c]) /\ OfCallers(next)[c] + 1 = 2
    BY <1>1, <1>5
  <2>2. QED
    BY <1>3, <1>5, <2>1 DEF UnderFutures!Advance
<1>8. UnderFutures!Send(c, i)
  BY <1>3, <1>5, <1>6, <1>7 DEF UnderFutures!Send, UnderFutures!lifecycle, lifecycle, t, w
<1>9. QED
  BY <1>1, <1>4, <1>8 DEF UnderFutures!Next

\* The default pool starts a goroutine, and the pool knows nothing of it.
LEMMA DefaultStep ==
    ASSUME FutureInv, NEW c \in Callers, DefaultExecute(c)
    PROVE  FutureInv' /\ UNCHANGED UnderFutures!vars
<1>1. c \notin PoolCallers /\ Batch[c][1] \notin PoolTasks /\ Batch[c][1] \in Tasks
  BY OneTaskEach DEF DefaultExecute, PoolCallers
<1>2. FutureInv'
  BY <1>1 DEF DefaultExecute, FutureInv, workers
<1>3. /\ DOMAIN pc = Callers /\ DOMAIN ret = Callers /\ DOMAIN task = Tasks /\ DOMAIN handed = Tasks
  BY DEF FutureInv
<1>4. /\ OfCallers(pc') = OfCallers(pc) /\ OfCallers(ret') = OfCallers(ret)
      /\ OfTasks(task') = OfTasks(task) /\ OfTasks(handed') = OfTasks(handed)
  <2>1. OfCallers(pc') = OfCallers(pc) /\ OfCallers(ret') = OfCallers(ret)
    BY <1>1, <1>3 DEF DefaultExecute, OfCallers, PoolCallers
  <2>2. OfTasks(task') = OfTasks(task) /\ OfTasks(handed') = OfTasks(handed)
    BY <1>1, <1>3 DEF DefaultExecute, OfTasks, PoolTasks
  <2>3. QED
    BY <2>1, <2>2
<1>5. QED
  BY <1>2, <1>4 DEF DefaultExecute, UnderFutures!vars, lifecycle, workers

\* A body returns: in the pool, or beside it.
LEMMA RunStep ==
    ASSUME FutureInv, NEW t \in Tasks, Finish(t)
    PROVE  FutureInv' /\ (UnderFutures!Next \/ UNCHANGED UnderFutures!vars)
<1>1. FutureInv'
  BY DEF Finish, FutureInv, calls, workers
<1>2. DOMAIN task = Tasks /\ task' = [task EXCEPT ![t] = "finished"] /\ UNCHANGED <<lifecycle, calls, workers, handed>>
  BY DEF Finish, FutureInv
<1>3. CASE t \in PoolTasks
  <2>1. /\ OfTasks(task') = [OfTasks(task) EXCEPT ![t] = "finished"] /\ OfTasks(task)[t] = task[t]
    BY <1>2, <1>3 DEF OfTasks, PoolTasks
  <2>2. \A c \in UnderFutures!CallsOf(t) : OfCallers(pc)[c] = "done"
    <3>1. SUFFICES ASSUME NEW c \in PoolCallers, PoolParent[c] = t
                   PROVE  pc[c] = "done"
      BY DEF UnderFutures!CallsOf, OfCallers
    <3>2. Parent[c] = t
      BY <1>3, <3>1, PoolAssumption DEF PoolParent, PoolTasks
    <3>3. QED
      BY <3>1, <3>2 DEF Finish, CallsOf, PoolCallers
  <2>3. UnderFutures!Finish(t)
    BY <1>2, <2>1, <2>2 DEF Finish, UnderFutures!Finish, UnderFutures!lifecycle, UnderFutures!calls,
                            UnderFutures!workers, lifecycle, calls, workers
  <2>4. QED
    BY <1>1, <1>3, <2>3 DEF UnderFutures!Next
<1>4. CASE t \notin PoolTasks
  <2>1. OfTasks(task') = OfTasks(task)
    BY <1>2, <1>4 DEF OfTasks, PoolTasks
  <2>2. QED
    BY <1>1, <1>2, <2>1 DEF UnderFutures!vars, lifecycle, calls, workers
<1>5. QED
  BY <1>3, <1>4

LEMMA FutureStep ==
    ASSUME FutureInv, [FutureNext]_fvars
    PROVE  FutureInv' /\ [UnderFutures!Next]_(UnderFutures!vars)
<1>1. CASE UNCHANGED vars
  BY <1>1 DEF vars, FutureInv, UnderFutures!vars
<1>2. CASE PoolStep
  <2>1. CASE \/ Start \/ Stop \/ \E g \in Gens : CancelPool(g)
            \/ \E w \in Workers : WorkerLeave(w) \/ WorkerAgain(w)
    BY <2>1, LifecycleSteps
  <2>2. CASE \E c \in Callers : \/ c \notin OnDefault /\ (Call(c) \/ CancelCall(c))
                                \/ Lock(c) \/ DefaultExecute(c)
                                \/ \E i \in 1 .. Size : Send(c, i)
    <3>1. PICK c \in Callers : \/ c \notin OnDefault /\ (Call(c) \/ CancelCall(c))
                               \/ Lock(c) \/ DefaultExecute(c)
                               \/ \E i \in 1 .. Size : Send(c, i)
      BY <2>2
    <3>2. Lock(c) => c \notin OnDefault
      BY DEF Lock, FutureInv
    <3>3. QED
      BY <3>1, <3>2, CallSteps, SendStep, DefaultStep
  <2>3. QED
    BY <1>2, <2>1, <2>2 DEF PoolStep
<1>3. CASE \E t \in Tasks : Finish(t)
  BY <1>3, RunStep
<1>4. QED
  BY <1>1, <1>2, <1>3 DEF FutureNext, fvars, run, Get, GetReturns, CancelGet

\* The pool under the futures (future.New, poolExecutor.Execute) behaves as
\* Pool promises, whatever futures of the default pool run beside it or call
\* it from inside their bodies: every initial state and step of FutureSpec is
\* one of Pool, or changes nothing of the pool.
THEOREM FuturesUseAPool == FutureSpec => UnderFutures!Spec
<1>1. FutureInit => FutureInv /\ UnderFutures!Init
  BY FutureInitInv
<1>2. FutureInv /\ [FutureNext]_fvars => FutureInv' /\ [UnderFutures!Next]_(UnderFutures!vars)
  BY FutureStep
<1>3. QED
  BY <1>1, <1>2, PTL DEF FutureSpec, UnderFutures!Spec
=============================================================================
