--------------------------- MODULE PromiseProofs ---------------------------
(***************************************************************************)
(* Proofs about Promise, for any number of waiters and completers and any  *)
(* set of values and errors.                                               *)
(*                                                                         *)
(* The inductive invariant says where an outcome can be: nowhere before    *)
(* the promise is resolved; afterwards every waiter inside a call either   *)
(* is still registered (and then the completer is delivering) or has the   *)
(* outcome in its buffer.  The safety properties and the refinement of     *)
(* OneShotCell follow from it.                                             *)
(***************************************************************************)
EXTENDS Promise, TLAPS

Calling == WaiterPC \ {"idle", "done"}

\* The outcome is stored exactly when the promise is resolved.
OutcomeInv ==
    /\ ~resolved => value = Nil /\ error = Nil
    /\ resolved => value # Nil \/ error # Nil

\* The mutex is kept across steps only by the completer that delivers.
MutexInv ==
    /\ \A c \in Completers : pc[c] = "complete" <=> mutex = c
    /\ mutex # Free => resolved
    /\ resolved /\ channels # {} => mutex # Free

\* Where the outcome of a waiter is.
ChannelInv ==
    \A w \in Waiters :
        /\ pc[w] \in WaiterPC
        /\ w \in channels => ~closed[w] /\ buf[w] = Nil /\ pc[w] \in Calling
        /\ buf[w] # Nil => /\ resolved
                           /\ buf[w] = getResolvedValue
                           /\ closed[w]
                           /\ pc[w] \in Calling
        /\ closed[w] => pc[w] = "done" \/ buf[w] # Nil
        /\ pc[w] \in Calling => w \in channels \/ buf[w] # Nil
        /\ ret[w] = Nil <=> pc[w] # "done"

\* Who resolved the promise.
Winners == {c \in Completers : ret[c] = Ok \/ pc[c] = "complete"}

WinnerInv ==
    /\ \A c \in Completers : pc[c] # "done" => ret[c] = Nil
    /\ \A c \in Completers : ret[c] = ErrAlreadyResolved => resolved
    /\ \A c, d \in Winners : c = d
    /\ resolved <=> Winners # {}

IInv == TypeOK /\ OutcomeInv /\ MutexInv /\ ChannelInv /\ WinnerInv

-----------------------------------------------------------------------------
LEMMA InitIInv == Init => IInv
BY PromiseAssumption
DEF Init, IInv, TypeOK, OutcomeInv, MutexInv, ChannelInv, WinnerInv, Winners,
    Waiters, Procs, WaiterPC, CompleterPC, Calling

\* A step that leaves every variable unchanged preserves the invariant.
LEMMA StutterIInv == IInv /\ UNCHANGED vars => IInv'
BY DEF vars, IInv, TypeOK, OutcomeInv, MutexInv, ChannelInv, WinnerInv, Winners,
       getResolvedValue

\* What getResolvedValue returns once the promise is resolved.
LEMMA ResolvedOutcome == TypeOK /\ OutcomeInv /\ resolved => getResolvedValue \in Outcomes
BY PromiseAssumption DEF TypeOK, OutcomeInv, getResolvedValue, Outcomes

\* Resolve and Reject when the promise is not resolved yet.
LEMMA BeginCompleteIInv ==
    ASSUME IInv, NEW c \in Completers, pc[c] = "idle", mutex = Free, ~resolved,
           BeginComplete(c),
           value' \in Values \cup {Nil}, error' \in Errors \cup {Nil},
           value' # Nil \/ error' # Nil
    PROVE  IInv'
<1> USE PromiseAssumption DEF IInv, BeginComplete
<1>1. TypeOK'
  BY DEF TypeOK, Procs, WaiterPC, CompleterPC
<1>2. OutcomeInv'
  BY DEF OutcomeInv
<1>3. MutexInv'
  BY DEF TypeOK, MutexInv, Procs
<1>4. ChannelInv'
  BY DEF TypeOK, ChannelInv, Procs
<1>5. WinnerInv'
  BY DEF TypeOK, WinnerInv, Winners, Procs
<1>6. QED
  BY <1>1, <1>2, <1>3, <1>4, <1>5

LEMMA ReturnEarlyIInv ==
    ASSUME IInv, NEW c \in Completers, pc[c] = "idle",
           NEW err \in {ErrAlreadyResolved, ErrNilError},
           err = ErrAlreadyResolved => resolved,
           ReturnEarly(c, err)
    PROVE  IInv'
<1> USE PromiseAssumption DEF IInv, ReturnEarly
<1>1. TypeOK'
  BY DEF TypeOK, Procs, WaiterPC, CompleterPC
<1>2. OutcomeInv'
  BY DEF OutcomeInv
<1>3. MutexInv'
  BY DEF TypeOK, MutexInv, Procs
<1>4. ChannelInv'
  BY DEF TypeOK, ChannelInv, Procs, getResolvedValue
<1>5. WinnerInv'
  BY DEF TypeOK, WinnerInv, Winners, Procs
<1>6. QED
  BY <1>1, <1>2, <1>3, <1>4, <1>5

LEMMA DeliverIInv ==
    ASSUME IInv, NEW c \in Completers, NEW w \in Waiters, Deliver(c, w)
    PROVE  IInv'
<1> USE PromiseAssumption DEF IInv, Deliver, shared
<1>0. resolved /\ getResolvedValue \in Outcomes /\ getResolvedValue # Nil
  BY ResolvedOutcome DEF MutexInv
<1>1. TypeOK'
  BY <1>0 DEF TypeOK
<1>2. OutcomeInv'
  BY DEF OutcomeInv
<1>3. MutexInv'
  BY DEF TypeOK, MutexInv
<1>4. ChannelInv'
  BY <1>0 DEF TypeOK, ChannelInv, getResolvedValue
<1>5. WinnerInv'
  BY DEF TypeOK, WinnerInv, Winners
<1>6. QED
  BY <1>1, <1>2, <1>3, <1>4, <1>5

LEMMA EndCompleteIInv ==
    ASSUME IInv, NEW c \in Completers, EndComplete(c)
    PROVE  IInv'
<1> USE PromiseAssumption DEF IInv, EndComplete
<1>1. TypeOK'
  BY DEF TypeOK, Procs, WaiterPC, CompleterPC
<1>2. OutcomeInv'
  BY DEF OutcomeInv
<1>3. MutexInv'
  BY DEF TypeOK, MutexInv, Procs
<1>4. ChannelInv'
  BY DEF TypeOK, ChannelInv, Procs, getResolvedValue
<1>5. WinnerInv'
  BY DEF TypeOK, WinnerInv, Winners, Procs
<1>6. QED
  BY <1>1, <1>2, <1>3, <1>4, <1>5

LEMMA addChannelIInv ==
    ASSUME IInv, NEW w \in Waiters, addChannel(w)
    PROVE  IInv'
<1> USE PromiseAssumption DEF IInv, addChannel, shared
<1>0. resolved => getResolvedValue \in Outcomes /\ getResolvedValue # Nil
  BY ResolvedOutcome
<1>1. TypeOK'
  BY <1>0 DEF TypeOK, Procs, WaiterPC, CompleterPC
<1>2. OutcomeInv'
  BY DEF OutcomeInv
<1>3. MutexInv'
  BY DEF TypeOK, MutexInv, Procs, Waiters
<1>4. ChannelInv'
  BY <1>0 DEF TypeOK, ChannelInv, Procs, getResolvedValue, WaiterPC, Calling
<1>5. WinnerInv'
  BY DEF TypeOK, WinnerInv, Winners, Procs
<1>6. QED
  BY <1>1, <1>2, <1>3, <1>4, <1>5

LEMMA ReceiveIInv ==
    ASSUME IInv, NEW w \in Waiters, pc[w] \in Calling, Receive(w)
    PROVE  IInv'
<1> USE PromiseAssumption DEF IInv, Receive, shared
<1>0. w \notin channels /\ buf[w] # Nil /\ readResult(w) = buf[w]
  BY DEF ChannelInv, Readable, readResult, Calling
<1>1. TypeOK'
  BY <1>0 DEF TypeOK, Procs, WaiterPC, CompleterPC
<1>2. OutcomeInv'
  BY DEF OutcomeInv
<1>3. MutexInv'
  BY DEF TypeOK, MutexInv, Procs, Calling, WaiterPC
<1>4. ChannelInv'
  BY <1>0 DEF TypeOK, ChannelInv, Procs, getResolvedValue, WaiterPC, Calling
<1>5. WinnerInv'
  BY DEF TypeOK, WinnerInv, Winners, Procs
<1>6. QED
  BY <1>1, <1>2, <1>3, <1>4, <1>5

LEMMA GotoIInv ==
    ASSUME IInv, NEW w \in Waiters, pc[w] \in Calling, NEW label \in Calling,
           Goto(w, label)
    PROVE  IInv'
<1> USE PromiseAssumption DEF IInv, Goto, shared
<1>1. TypeOK'
  BY DEF TypeOK, Procs, Calling, WaiterPC, CompleterPC
<1>2. OutcomeInv'
  BY DEF OutcomeInv
<1>3. MutexInv'
  BY DEF TypeOK, MutexInv, Procs
<1>4. ChannelInv'
  BY DEF TypeOK, ChannelInv, Procs, getResolvedValue, WaiterPC, Calling
<1>5. WinnerInv'
  BY DEF TypeOK, WinnerInv, Winners, Procs
<1>6. QED
  BY <1>1, <1>2, <1>3, <1>4, <1>5

LEMMA removeChannelIInv ==
    ASSUME IInv, NEW w \in Waiters, removeChannel(w)
    PROVE  IInv'
<1> USE PromiseAssumption DEF IInv
<1>1. CASE resolved
  BY <1>1, GotoIInv DEF removeChannel, Calling, WaiterPC
<1>2. CASE ~resolved
  <2> USE <1>2 DEF removeChannel, shared
  <2>0. w \in channels /\ ~closed[w] /\ buf[w] = Nil
    BY DEF ChannelInv, Calling, WaiterPC
  <2>1. TypeOK'
    BY DEF TypeOK, Procs, WaiterPC, CompleterPC
  <2>2. OutcomeInv'
    BY DEF OutcomeInv
  <2>3. MutexInv'
    BY DEF TypeOK, MutexInv, Procs
  <2>4. ChannelInv'
    BY <2>0 DEF TypeOK, ChannelInv, Procs, getResolvedValue, WaiterPC, Calling
  <2>5. WinnerInv'
    BY DEF TypeOK, WinnerInv, Winners, Procs
  <2>6. QED
    BY <2>1, <2>2, <2>3, <2>4, <2>5
<1>3. QED
  BY <1>1, <1>2

LEMMA CancelIInv ==
    ASSUME IInv, NEW g \in Getters, Cancel(g)
    PROVE  IInv'
BY DEF Cancel, shared, IInv, TypeOK, OutcomeInv, MutexInv, ChannelInv, WinnerInv,
       Winners, getResolvedValue

LEMMA NextIInv == IInv /\ [Next]_vars => IInv'
<1> SUFFICES ASSUME IInv, [Next]_vars PROVE IInv'
  OBVIOUS
<1> USE PromiseAssumption
<1>1. ASSUME NEW c \in Completers, NEW v \in Values, Resolve(c, v) PROVE IInv'
  BY <1>1, BeginCompleteIInv, ReturnEarlyIInv DEF Resolve, IInv, TypeOK, OutcomeInv, Outcomes
<1>2. ASSUME NEW c \in Completers, NEW e \in Errors, Reject(c, e) PROVE IInv'
  BY <1>2, BeginCompleteIInv, ReturnEarlyIInv DEF Reject, IInv, TypeOK, OutcomeInv, Outcomes
<1>3. ASSUME NEW c \in Completers, RejectNil(c) PROVE IInv'
  BY <1>3, ReturnEarlyIInv DEF RejectNil
<1>4. ASSUME NEW c \in Completers, CompleterStep(c) PROVE IInv'
  BY <1>4, EndCompleteIInv, DeliverIInv DEF CompleterStep
<1>5. ASSUME NEW w \in Waiters, addChannel(w) PROVE IInv'
  BY <1>5, addChannelIInv
<1>6. ASSUME NEW w \in Waiters, WaiterStep(w) PROVE IInv'
  BY <1>6, ReceiveIInv, GotoIInv, removeChannelIInv
     DEF WaiterStep, tryReadResult, Select, BlockingReceive, Calling, WaiterPC
<1>7. ASSUME NEW g \in Getters, Cancel(g) PROVE IInv'
  BY <1>7, CancelIInv
<1>8. CASE UNCHANGED vars
  BY <1>8, StutterIInv
<1>9. QED
  BY <1>1, <1>2, <1>3, <1>4, <1>5, <1>6, <1>7, <1>8 DEF Next

LEMMA SpecIInv == Spec => []IInv
BY InitIInv, NextIInv, PTL DEF Spec

-----------------------------------------------------------------------------
\* Every reachable state of the promise is well typed; in particular what is
\* buffered for a waiter is always a real value or error, never the
\* "resolved, but both value and error are nil" error of getResolvedValue.
THEOREM TypeCorrect == Spec => []TypeOK
<1>1. IInv => TypeOK
  BY DEF IInv
<1>2. QED
  BY <1>1, SpecIInv, PTL

\* complete() and removeChannel() never send on or close a closed channel, and
\* complete() never blocks on a full one.
THEOREM ChannelsSafe == Spec => []RegisteredChannelsOpen
<1>1. IInv => RegisteredChannelsOpen
  BY DEF IInv, TypeOK, ChannelInv, RegisteredChannelsOpen
<1>2. QED
  BY <1>1, SpecIInv, PTL

\* At most one Resolve or Reject succeeds.
THEOREM OneWinner == Spec => []SingleWinner
<1>1. IInv => SingleWinner
  BY DEF IInv, WinnerInv, Winners, SingleWinner
<1>2. QED
  BY <1>1, SpecIInv, PTL

\* A Get that gave up leaves no channel and no outcome behind.
THEOREM GiveUpClean == Spec => []GiveUpLeavesNothing
<1>1. IInv => GiveUpLeavesNothing
  BY PromiseAssumption DEF IInv, ChannelInv, Waiters, GiveUpLeavesNothing, Calling
<1>2. QED
  BY <1>1, SpecIInv, PTL

-----------------------------------------------------------------------------
(* Refinement of OneShotCell *)

cellBar == IF resolved THEN getResolvedValue ELSE Nil
gotBar == [w \in Waiters |-> ret[w]]
refusedBar == {c \in Completers : ret[c] = ErrAlreadyResolved}

\* A step that changes neither the outcome nor any return value is a stutter.
LEMMA InvisibleStep ==
    ASSUME UNCHANGED <<value, error, resolved, ret>>
    PROVE  UNCHANGED Cell!vars
BY DEF Cell!vars, getResolvedValue

LEMMA ReturnEarlyRefines ==
    ASSUME IInv, NEW c \in Completers, pc[c] = "idle",
           NEW err \in {ErrAlreadyResolved, ErrNilError},
           err = ErrAlreadyResolved => resolved,
           ReturnEarly(c, err)
    PROVE  [Cell!Next]_Cell!vars
<1> USE PromiseAssumption DEF IInv, TypeOK, ReturnEarly, Procs
<1>1. UNCHANGED <<cellBar, gotBar>>
  BY DEF cellBar, gotBar, getResolvedValue
<1>2. CASE err = ErrAlreadyResolved
  <2>1. refusedBar' = refusedBar \cup {c}
    BY <1>2 DEF refusedBar
  <2>2. cellBar # Nil
    BY <1>2, ResolvedOutcome DEF cellBar
  <2>3. Cell!Refuse(c)
    BY <1>1, <2>1, <2>2 DEF Cell!Refuse, cellBar, gotBar, refusedBar
  <2>4. QED
    BY <2>3 DEF Cell!Next
<1>3. CASE err = ErrNilError
  <2>1. refusedBar' = refusedBar
    BY <1>3 DEF refusedBar, WinnerInv
  <2>2. QED
    BY <1>1, <2>1 DEF Cell!vars, cellBar, gotBar, refusedBar
<1>4. QED
  BY <1>2, <1>3

LEMMA BeginCompleteRefines ==
    ASSUME IInv, NEW c \in Completers, ~resolved, BeginComplete(c),
           value' \in Values \cup {Nil}, error' \in Errors \cup {Nil},
           value' # Nil \/ error' # Nil
    PROVE  [Cell!Next]_Cell!vars
<1> USE PromiseAssumption DEF BeginComplete
<1>1. cellBar = Nil /\ cellBar' \in Outcomes
  BY DEF cellBar, getResolvedValue, Outcomes
<1>2. UNCHANGED <<gotBar, refusedBar>>
  BY DEF gotBar, refusedBar
<1>3. Cell!Settle
  BY <1>1, <1>2 DEF Cell!Settle, cellBar, gotBar, refusedBar
<1>4. QED
  BY <1>3 DEF Cell!Next

LEMMA EndCompleteRefines ==
    ASSUME IInv, NEW c \in Completers, EndComplete(c)
    PROVE  [Cell!Next]_Cell!vars
<1> USE PromiseAssumption DEF IInv, TypeOK, EndComplete, Procs
<1>1. UNCHANGED <<cellBar, gotBar>>
  BY DEF cellBar, gotBar, getResolvedValue
<1>2. refusedBar' = refusedBar
  BY DEF refusedBar, WinnerInv
<1>3. QED
  BY <1>1, <1>2 DEF Cell!vars, cellBar, gotBar, refusedBar

LEMMA ReceiveRefines ==
    ASSUME IInv, NEW w \in Waiters, pc[w] \in Calling, Receive(w)
    PROVE  [Cell!Next]_Cell!vars
<1> USE PromiseAssumption DEF IInv, TypeOK, Receive, Procs, shared
<1>1. buf[w] # Nil /\ readResult(w) = buf[w] /\ resolved /\ buf[w] = getResolvedValue
  BY DEF ChannelInv, Readable, readResult, Calling
<1>2. cellBar # Nil /\ cellBar' = cellBar
  BY <1>1 DEF cellBar, getResolvedValue
<1>3. gotBar[w] = Nil /\ gotBar' = [gotBar EXCEPT ![w] = cellBar]
  BY <1>1 DEF gotBar, cellBar, ChannelInv, Calling
<1>4. refusedBar' = refusedBar
  BY DEF refusedBar
<1>5. Cell!Return(w)
  BY <1>2, <1>3, <1>4 DEF Cell!Return, cellBar, gotBar, refusedBar
<1>6. QED
  BY <1>5 DEF Cell!Next

LEMMA removeChannelRefines ==
    ASSUME IInv, NEW w \in Waiters, removeChannel(w)
    PROVE  [Cell!Next]_Cell!vars
<1> USE PromiseAssumption DEF IInv, TypeOK, removeChannel, Procs, shared
<1>1. CASE resolved
  BY <1>1, InvisibleStep DEF Goto
<1>2. CASE ~resolved
  <2>1. cellBar = Nil /\ cellBar' = cellBar
    BY <1>2 DEF cellBar
  <2>2. gotBar[w] = Nil /\ gotBar' = [gotBar EXCEPT ![w] = CtxErr]
    BY <1>2 DEF gotBar, ChannelInv
  <2>3. refusedBar' = refusedBar
    BY <1>2 DEF refusedBar
  <2>4. Cell!GiveUp(w)
    BY <2>1, <2>2, <2>3 DEF Cell!GiveUp, cellBar, gotBar, refusedBar
  <2>5. QED
    BY <2>4 DEF Cell!Next
<1>3. QED
  BY <1>1, <1>2

\* The promise implements the one-shot cell (ImplementsCell): every waiter
\* gets the one outcome, and gives up only while there is none.
THEOREM PromiseImplementsCell == Spec => ImplementsCell
<1>1. Init => Cell!Init
  BY PromiseAssumption DEF Init, Cell!Init, Procs, getResolvedValue
<1>2. IInv /\ [Next]_vars => [Cell!Next]_Cell!vars
  <2> SUFFICES ASSUME IInv, [Next]_vars PROVE [Cell!Next]_Cell!vars
    OBVIOUS
  <2> USE PromiseAssumption
  <2>1. ASSUME NEW c \in Completers, NEW v \in Values, Resolve(c, v)
        PROVE  [Cell!Next]_Cell!vars
    BY <2>1, BeginCompleteRefines, ReturnEarlyRefines
       DEF Resolve, IInv, TypeOK, OutcomeInv, Outcomes
  <2>2. ASSUME NEW c \in Completers, NEW e \in Errors, Reject(c, e)
        PROVE  [Cell!Next]_Cell!vars
    BY <2>2, BeginCompleteRefines, ReturnEarlyRefines
       DEF Reject, IInv, TypeOK, OutcomeInv, Outcomes
  <2>3. ASSUME NEW c \in Completers, RejectNil(c) PROVE [Cell!Next]_Cell!vars
    BY <2>3, ReturnEarlyRefines DEF RejectNil
  <2>4. ASSUME NEW c \in Completers, CompleterStep(c) PROVE [Cell!Next]_Cell!vars
    BY <2>4, EndCompleteRefines, InvisibleStep DEF CompleterStep, Deliver, shared
  <2>5. ASSUME NEW w \in Waiters, addChannel(w) PROVE [Cell!Next]_Cell!vars
    BY <2>5, InvisibleStep DEF addChannel, shared
  <2>6. ASSUME NEW w \in Waiters, WaiterStep(w) PROVE [Cell!Next]_Cell!vars
    BY <2>6, ReceiveRefines, removeChannelRefines, InvisibleStep
       DEF WaiterStep, tryReadResult, Select, BlockingReceive, Goto, shared,
           Calling, WaiterPC
  <2>7. ASSUME NEW g \in Getters, Cancel(g) PROVE [Cell!Next]_Cell!vars
    BY <2>7, InvisibleStep DEF Cancel, shared
  <2>8. CASE UNCHANGED vars
    BY <2>8, InvisibleStep DEF vars
  <2>9. QED
    BY <2>1, <2>2, <2>3, <2>4, <2>5, <2>6, <2>7, <2>8 DEF Next
<1>3. QED
  BY <1>1, <1>2, SpecIInv, PTL DEF Spec, ImplementsCell, Cell!Spec
=============================================================================
