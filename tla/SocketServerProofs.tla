------------------------- MODULE SocketServerProofs -------------------------
(***************************************************************************)
(* Proofs about SocketServer, for any transport, any connections and any   *)
(* number of starts.                                                       *)
(*                                                                         *)
(* The inductive invariant says what the actors of Lifecycle.Shutdown can  *)
(* hold: only the Start that is running can be in the lifecycle, and once  *)
(* anyone has taken it, it is not there again; what an actor still holds   *)
(* of an earlier Start does no harm to the running one.  The three safety  *)
(* properties each need that, and a part of their own: why the running     *)
(* Start is not intact any more (ReasonInv), who may have removed its      *)
(* socket file (FileInv), and how far a session is (SessionInv).           *)
(***************************************************************************)
EXTENDS SocketServer, TLAPS

Running == {"listening", "loop", "accept"}
Ending == {"disarm", "shutdown", "removing", "wait"}
Shutting == {"closing", "removing", "done"}

\* The running Start, and the watchers of the earlier ones.
StartInv ==
    /\ pc # "off" => n \in Starts
    /\ resource # NoStart => resource = n /\ pc \in {"loop", "accept", "disarm"}
    /\ accepting # NoStart <=> pc = "accept"
    /\ accepting # NoStart => accepting = n
    /\ \A s \in cancelled \cup handlerClosed : s <= n
    /\ n \in handlerClosed => pc = "off"
    /\ \A s \in Starts : watcher[s] # "none" => s <= n /\ (s = n => pc # "listening")
    /\ \A s \in Starts : s < n \/ (s = n /\ pc \in {"shutdown", "removing", "wait", "off"})
                            => s \in disarmed

\* What the actors have taken out of the lifecycle.
TakenInv ==
    /\ \A a \in Actors : taken[a] # NoStart =>
          taken[a] <= n /\ (taken[a] = n => resource = NoStart /\ pc # "listening")
    /\ taken[Starter] # NoStart => pc = "shutdown"
    /\ \A s \in Starts : watcher[s] = "fired" => s \in cancelled
    /\ n \in Starts /\ watcher[n] \in {"closing", "removing"} => resource = NoStart

\* The running Start was asked to end, or is about to be ended by a late watcher.
Reason == asked # {} \/ LateWatcher(n)

Disturbed ==
    \/ n \in cancelled
    \/ n \notin open
    \/ \E a \in Actors : taken[a] = n
    \/ pc # "listening" /\ resource = NoStart

ReasonInv ==
    /\ pc \in Running /\ Disturbed => Reason
    /\ pc \in Ending /\ ~failed => Reason

\* The socket file while a Start listens, and after it.
FileInv ==
    transport = "unix" =>
        /\ pc = "listening" \/ resource # NoStart =>
              socketFile = n \/ fileLost \/ LateWatcher(n)
        /\ pc \in {"wait", "off"} => socketFile = NoStart

\* How far a session is.
SessionInv ==
    \A c \in Conns :
        /\ home[c] <= n
        /\ conn[c] = "none" <=> home[c] = NoStart
        /\ conn[c] \in {"none", "open"} => c \notin connected
        /\ conn[c] = "session" => c \in connected
        /\ onClose[c] = IF conn[c] = "gone" /\ c \in connected THEN 1 ELSE 0
        /\ home[c] \in handlerClosed => conn[c] = "gone"

IInv == TypeOK /\ StartInv /\ TakenInv /\ ReasonInv /\ FileInv /\ SessionInv

-----------------------------------------------------------------------------
LEMMA ActorsDiffer ==
    /\ Stopper \in Actors /\ Starter \in Actors /\ Stopper # Starter
    /\ \A s \in Starts : /\ Watcher(s) \in Actors
                         /\ Watcher(s) # Stopper /\ Watcher(s) # Starter
                         /\ \A t \in Starts : Watcher(s) = Watcher(t) => s = t
BY DEF Actors, Stopper, Starter, Watcher

\* No watcher goes back, so once there is a late one there is one for the rest
\* of this Start.
LEMMA LateStays ==
    ASSUME NEW m, disarmed \subseteq disarmed',
           \A t \in Starts : t < m /\ watcher[t] \in Shutting => watcher'[t] \in Shutting,
           LateWatcher(m)
    PROVE  LateWatcher(m)'
BY DEF LateWatcher, Shutting

LEMMA InitIInv == Init => IInv
<1> SUFFICES ASSUME Init PROVE IInv
  OBVIOUS
<1> USE ServerAssumption DEF Init, NoStart
<1>1. TypeOK
  <2>1. /\ taken \in [Actors -> Starts \cup {NoStart}]
        /\ watcher \in [Starts -> {"none", "armed", "fired", "closing", "removing", "done"}]
        /\ conn \in [Conns -> {"none", "open", "session", "closing", "gone"}]
        /\ home \in [Conns -> Starts \cup {NoStart}]
        /\ onClose \in [Conns -> 0 .. 1]
    OBVIOUS
  <2>2. n \in 0 .. MaxStarts
    OBVIOUS
  <2>3. /\ cancelled \subseteq Starts /\ open \subseteq Starts /\ disarmed \subseteq Starts
        /\ connected \subseteq Conns /\ handlerClosed \subseteq Starts
        /\ asked \subseteq {"cancel", "Stop"}
    OBVIOUS
  <2>4. QED
    BY <2>1, <2>2, <2>3 DEF TypeOK
<1>2. StartInv
  BY DEF StartInv, Starts
<1>3. TakenInv
  BY ActorsDiffer DEF TakenInv, Starts
<1>4. ReasonInv
  BY DEF ReasonInv, Running, Ending
<1>5. FileInv
  BY DEF FileInv
<1>6. SessionInv
  BY DEF SessionInv
<1>7. QED
  BY <1>1, <1>2, <1>3, <1>4, <1>5, <1>6 DEF IInv

-----------------------------------------------------------------------------
(* The sessions: they change nothing the lifecycle looks at *)

LEMMA SessionStep ==
    ASSUME IInv, UNCHANGED elsewhere, SessionInv',
           conn' \in [Conns -> {"none", "open", "session", "closing", "gone"}],
           connected' \subseteq Conns, onClose' \in [Conns -> 0 .. 1]
    PROVE  IInv'
<1> USE DEF elsewhere, start, lifecycle, watch, outside, IInv
<1>1. TypeOK'
  BY DEF TypeOK
<1>2. StartInv' /\ TakenInv' /\ FileInv'
  BY DEF StartInv, TakenInv, FileInv, LateWatcher
<1>3. ReasonInv'
  BY DEF ReasonInv, Disturbed, Reason, LateWatcher
<1>4. QED
  BY <1>1, <1>2, <1>3

LEMMA OpenClientIInv ==
    ASSUME IInv, NEW c \in Conns, OpenClient(c) \/ OpenClientFails(c)
    PROVE  IInv'
<1>1. UNCHANGED <<elsewhere, onClose>>
  BY DEF OpenClient, OpenClientFails
<1>2. /\ conn' \in [Conns -> {"none", "open", "session", "closing", "gone"}]
      /\ connected' \subseteq Conns
  BY DEF OpenClient, OpenClientFails, IInv, TypeOK
<1>3. SessionInv'
  BY <1>1 DEF OpenClient, OpenClientFails, IInv, TypeOK, SessionInv, elsewhere, start
<1>4. QED
  BY <1>1, <1>2, <1>3, SessionStep DEF IInv, TypeOK

LEMMA SessionEndsIInv ==
    ASSUME IInv, NEW c \in Conns, SessionEnds(c)
    PROVE  IInv'
<1>1. UNCHANGED <<elsewhere, connected, onClose>>
  BY DEF SessionEnds
<1>2. conn' \in [Conns -> {"none", "open", "session", "closing", "gone"}]
  BY DEF SessionEnds, IInv, TypeOK
<1>3. SessionInv'
  BY <1>1 DEF SessionEnds, IInv, TypeOK, SessionInv, elsewhere, start
<1>4. QED
  BY <1>1, <1>2, <1>3, SessionStep DEF IInv, TypeOK

LEMMA CloseIInv ==
    ASSUME IInv, NEW c \in Conns, CloseClient(c) \/ CloseClients(c)
    PROVE  IInv'
<1>1. UNCHANGED <<elsewhere, connected>>
  BY DEF CloseClient, CloseClients
<1>2. /\ conn' = [conn EXCEPT ![c] = "gone"]
      /\ onClose' = [onClose EXCEPT ![c] = IF c \in connected THEN 1 ELSE 0]
  BY DEF CloseClient, CloseClients, IInv, TypeOK, SessionInv
<1>3. /\ conn' \in [Conns -> {"none", "open", "session", "closing", "gone"}]
      /\ onClose' \in [Conns -> 0 .. 1]
  BY <1>2 DEF IInv, TypeOK
<1>4. SessionInv'
  <2>1. conn[c] # "none"
    BY DEF CloseClient, CloseClients
  <2>2. QED
    BY <1>1, <1>2, <2>1 DEF IInv, TypeOK, SessionInv, elsewhere, start
<1>5. QED
  BY <1>1, <1>3, <1>4, SessionStep DEF IInv, TypeOK

-----------------------------------------------------------------------------
(* Lifecycle.Shutdown *)

\* What every step of a shutdown leaves alone: the running Start's number, its
\* sessions, and why it ends.
LEMMA ShutdownSessions ==
    ASSUME IInv, UNCHANGED <<n, sessions>>
    PROVE  SessionInv'
BY DEF IInv, SessionInv, sessions

\* Whoever takes the running Start out of the lifecycle has been asked to, or is
\* a late watcher from now on.
LEMMA StopIInv == IInv /\ Stop => IInv'
<1> SUFFICES ASSUME IInv, Stop PROVE IInv'
  OBVIOUS
<1> USE ServerAssumption, ActorsDiffer DEF IInv, Stop, Take, start, watch, NoStart
<1>1. TypeOK'
  BY DEF TypeOK, sessions
<1>2. StartInv'
  BY DEF TypeOK, StartInv, sessions
<1>3. TakenInv'
  <2>1. resource # 0 => resource = n /\ n <= n /\ pc # "listening"
    BY DEF TypeOK, StartInv, Starts
  <2>2. \A a \in Actors : taken'[a] = IF a = Stopper THEN resource ELSE taken[a]
    BY DEF TypeOK
  <2>3. QED
    BY <2>1, <2>2 DEF TypeOK, TakenInv
<1>4. ReasonInv'
  <2>1. CASE resource = 0
    <3>1. pc \in Running => n # 0
      BY DEF StartInv, Starts, Running
    <3>2. pc \in Running /\ Disturbed' => Disturbed
      BY <2>1, <3>1 DEF TypeOK, Disturbed
    <3>3. Reason' = Reason
      BY <2>1 DEF Reason, LateWatcher
    <3>4. QED
      BY <3>2, <3>3 DEF ReasonInv
  <2>2. CASE resource # 0
    BY <2>2 DEF ReasonInv, Reason
  <2>3. QED
    BY <2>1, <2>2
<1>5. FileInv'
  BY DEF FileInv, LateWatcher
<1>6. SessionInv'
  BY ShutdownSessions
<1>7. QED
  BY <1>1, <1>2, <1>3, <1>4, <1>5, <1>6

\* A watcher that is shutting down belongs to an earlier Start and is late, or to
\* this one, which is not in the lifecycle any more.
LEMMA WatcherIsLate ==
    ASSUME IInv, NEW s \in Starts, watcher[s] \notin {"none", "armed"}, s # n,
           UNCHANGED <<n, disarmed>>, watcher'[s] \in Shutting
    PROVE  LateWatcher(n)'
<1>1. s <= n /\ n \in Nat /\ s \in Nat
  BY DEF IInv, TypeOK, StartInv, Starts
<1>2. s < n /\ s \in disarmed
  BY <1>1 DEF IInv, StartInv
<1>3. QED
  BY <1>2 DEF LateWatcher, Shutting

\* What cancel and the closing of the listener do.
LEMMA FinishFacts ==
    ASSUME IInv, NEW a \in Actors, Finish(a), UNCHANGED <<transport, n>>
    PROVE  /\ taken' \in [Actors -> Starts \cup {NoStart}]
           /\ cancelled' \subseteq Starts /\ open' \subseteq Starts
           /\ socketFile' \in Starts \cup {NoStart}
           /\ \A b \in Actors : taken'[b] = IF b = a THEN NoStart ELSE taken[b]
           /\ \A s \in cancelled' : s <= n
           /\ cancelled \subseteq cancelled'
           /\ n # NoStart /\ (n \in cancelled' \/ n \notin open')
                 => n \in cancelled \/ n \notin open \/ taken[a] = n
           /\ socketFile' # socketFile
                 => taken[a] # NoStart /\ transport = "unix" /\ socketFile' = NoStart
           /\ transport = "unix" /\ taken[a] # NoStart => socketFile' = NoStart
BY DEF Finish, Unlink, IInv, TypeOK, StartInv, TakenInv

\* Giving back what was taken disturbs a running Start no more than before.
LEMMA FinishDisturbs ==
    ASSUME IInv, NEW a \in Actors, Finish(a), UNCHANGED <<transport, n, pc, resource>>,
           pc \in Running, Disturbed'
    PROVE  Disturbed
<1>1. n # NoStart
  BY DEF IInv, StartInv, Running, Starts, NoStart
<1>2. QED
  BY <1>1, FinishFacts DEF Disturbed

\* While a Start listens, nobody holds it.
LEMMA ListeningIsFree ==
    ASSUME IInv, NEW a \in Actors, pc = "listening" \/ resource # NoStart
    PROVE  n # NoStart /\ taken[a] # n
BY DEF IInv, StartInv, TakenInv, Starts, NoStart

LEMMA StopFinishesIInv == IInv /\ StopFinishes => IInv'
<1> SUFFICES ASSUME IInv, StopFinishes PROVE IInv'
  OBVIOUS
<1>0. /\ Finish(Stopper) /\ Stopper \in Actors /\ StopUnlinks
      /\ UNCHANGED <<transport, n, pc, accepting, failed, resource, watch, sessions, asked>>
      /\ stopping' \in {"no", "removing"}
  BY ActorsDiffer DEF StopFinishes, start, Afterwards
<1> USE <1>0, ActorsDiffer DEF watch
<1>1. TypeOK'
  BY FinishFacts DEF IInv, TypeOK, sessions, StopUnlinks
<1>2. StartInv'
  BY FinishFacts DEF IInv, StartInv, sessions
<1>3. TakenInv'
  BY FinishFacts DEF IInv, TakenInv, NoStart
<1>4. ReasonInv'
  BY FinishDisturbs DEF IInv, ReasonInv, Reason, LateWatcher
<1>5. FileInv'
  BY FinishFacts, ListeningIsFree DEF IInv, FileInv, StopUnlinks, LateWatcher
<1>6. SessionInv'
  BY ShutdownSessions
<1>7. QED
  BY <1>1, <1>2, <1>3, <1>4, <1>5, <1>6 DEF IInv

LEMMA StopRemovesIInv == IInv /\ StopRemoves => IInv'
<1> SUFFICES ASSUME IInv, StopRemoves PROVE IInv'
  OBVIOUS
<1> USE DEF StopRemoves, start, lifecycle, watch, Unlink, StopUnlinks
<1>1. TypeOK'
  BY DEF IInv, TypeOK, sessions
<1>2. StartInv' /\ TakenInv'
  BY DEF IInv, StartInv, TakenInv, sessions
<1>3. ReasonInv'
  BY DEF IInv, ReasonInv, Disturbed, Reason, LateWatcher
<1>4. FileInv'
  BY ListeningIsFree, ActorsDiffer DEF IInv, FileInv, LateWatcher
<1>5. SessionInv'
  BY ShutdownSessions
<1>6. QED
  BY <1>1, <1>2, <1>3, <1>4, <1>5 DEF IInv

\* The watcher has seen its context done, or that its Start is over.
LEMMA WatcherFiresIInv ==
    ASSUME IInv, NEW s \in Starts, WatcherFires(s) \/ WatcherLeaves(s)
    PROVE  IInv'
<1> USE DEF start, lifecycle, outside
<1>1. /\ UNCHANGED <<start, lifecycle, cancelled, open, disarmed, sessions, asked, outside>>
      /\ watcher[s] = "armed" /\ watcher' \in [Starts -> {"none", "armed", "fired", "closing", "removing", "done"}]
      /\ \A t \in Starts : t # s => watcher'[t] = watcher[t]
      /\ (watcher'[s] = "fired" /\ s \in cancelled) \/ watcher'[s] = "done"
  BY DEF WatcherFires, WatcherLeaves, IInv, TypeOK
<1> USE <1>1
<1>2. TypeOK'
  BY DEF IInv, TypeOK, sessions
<1>3. StartInv' /\ TakenInv'
  BY DEF IInv, StartInv, TakenInv, sessions
<1>4. LateWatcher(n) => LateWatcher(n)'
  BY LateStays DEF Shutting
<1>5. ReasonInv' /\ FileInv'
  BY <1>4 DEF IInv, ReasonInv, Disturbed, Reason, FileInv
<1>6. SessionInv'
  BY ShutdownSessions
<1>7. QED
  BY <1>2, <1>3, <1>5, <1>6 DEF IInv

LEMMA WatcherTakesIInv ==
    ASSUME IInv, NEW s \in Starts, WatcherTakes(s)
    PROVE  IInv'
<1> USE ActorsDiffer DEF start, outside
<1>1. /\ UNCHANGED <<start, cancelled, open, disarmed, sessions, asked, outside>>
      /\ resource' = NoStart
      /\ taken' = [taken EXCEPT ![Watcher(s)] = resource]
      /\ watcher[s] = "fired" /\ watcher' = [watcher EXCEPT ![s] = "closing"]
  BY DEF WatcherTakes, Take
<1> USE <1>1
<1>2. TypeOK'
  BY DEF IInv, TypeOK, sessions
<1>3. StartInv'
  BY DEF IInv, TypeOK, StartInv, sessions
<1>4. TakenInv'
  <2>1. resource # NoStart => resource = n /\ n <= n /\ pc # "listening"
    BY DEF IInv, TypeOK, StartInv, Starts
  <2>2. \A a \in Actors : taken'[a] = IF a = Watcher(s) THEN resource ELSE taken[a]
    BY DEF IInv, TypeOK
  <2>3. QED
    BY <2>1, <2>2 DEF IInv, TypeOK, TakenInv
<1>5. LateWatcher(n) => LateWatcher(n)'
  BY LateStays DEF Shutting, IInv, TypeOK
<1>6. ReasonInv'
  <2>1. pc \in Running => Reason'
    <3>1. CASE s = n
      BY <3>1, <1>5 DEF IInv, TakenInv, ReasonInv, Disturbed, Reason
    <3>2. CASE s # n
      BY <3>2, WatcherIsLate DEF Reason, Shutting, IInv, TypeOK
    <3>3. QED
      BY <3>1, <3>2
  <2>2. QED
    BY <2>1, <1>5 DEF IInv, ReasonInv, Reason
<1>7. FileInv'
  BY <1>5 DEF IInv, FileInv
<1>8. SessionInv'
  BY ShutdownSessions
<1>9. QED
  BY <1>2, <1>3, <1>4, <1>6, <1>7, <1>8 DEF IInv

LEMMA WatcherFinishesIInv ==
    ASSUME IInv, NEW s \in Starts, WatcherFinishes(s)
    PROVE  IInv'
<1>0. /\ Finish(Watcher(s)) /\ Watcher(s) \in Actors
      /\ UNCHANGED <<transport, n, pc, accepting, failed, resource, disarmed, stopping,
                     sessions, asked, fileLost>>
      /\ watcher[s] = "closing"
      /\ watcher' \in [Starts -> {"none", "armed", "fired", "closing", "removing", "done"}]
      /\ watcher'[s] \in {"removing", "done"}
      /\ \A t \in Starts : t # s => watcher'[t] = watcher[t]
  BY ActorsDiffer DEF WatcherFinishes, start, Afterwards, IInv, TypeOK
<1> USE <1>0, ActorsDiffer
<1>1. TypeOK'
  BY FinishFacts DEF IInv, TypeOK, sessions
<1>2. StartInv'
  BY FinishFacts DEF IInv, StartInv, sessions
<1>3. TakenInv'
  BY FinishFacts DEF IInv, TakenInv, NoStart
<1>4. LateWatcher(n) => LateWatcher(n)'
  BY LateStays DEF Shutting
<1>5. ReasonInv'
  BY <1>4, FinishDisturbs DEF IInv, ReasonInv, Reason
<1>6. FileInv'
  <2>1. s # n => LateWatcher(n)'
    BY WatcherIsLate DEF Shutting
  <2>2. s = n => pc # "listening" /\ resource = NoStart
    BY DEF IInv, StartInv, TakenInv
  <2>3. QED
    BY <2>1, <2>2, FinishFacts DEF IInv, FileInv
<1>7. SessionInv'
  BY ShutdownSessions
<1>8. QED
  BY <1>1, <1>2, <1>3, <1>5, <1>6, <1>7 DEF IInv

LEMMA WatcherRemovesIInv ==
    ASSUME IInv, NEW s \in Starts, WatcherRemoves(s)
    PROVE  IInv'
<1> USE DEF start, lifecycle
<1>0. /\ UNCHANGED <<transport, start, lifecycle, cancelled, open, disarmed, stopping,
                     sessions, asked, fileLost>>
      /\ Unlink /\ watcher[s] = "removing"
      /\ watcher' = [watcher EXCEPT ![s] = "done"]
  BY DEF WatcherRemoves
<1> USE <1>0
<1>1. TypeOK'
  BY DEF IInv, TypeOK, sessions, Unlink
<1>2. StartInv' /\ TakenInv'
  BY DEF IInv, TypeOK, StartInv, TakenInv, sessions
<1>3. LateWatcher(n) => LateWatcher(n)'
  BY LateStays DEF Shutting, IInv, TypeOK
<1>4. ReasonInv'
  BY <1>3 DEF IInv, ReasonInv, Disturbed, Reason
<1>5. FileInv'
  <2>1. s # n => LateWatcher(n)'
    BY WatcherIsLate DEF Shutting, IInv, TypeOK
  <2>2. s = n => pc # "listening" /\ resource = NoStart
    BY DEF IInv, StartInv, TakenInv
  <2>3. QED
    BY <2>1, <2>2 DEF IInv, FileInv, Unlink
<1>6. SessionInv'
  BY ShutdownSessions
<1>7. QED
  BY <1>1, <1>2, <1>4, <1>5, <1>6 DEF IInv

-----------------------------------------------------------------------------
(* Start *)

\* Nothing that is held, cancelled or watched belongs to the new Start.
LEMMA StartIInv == IInv /\ Start => IInv'
<1> SUFFICES ASSUME IInv, Start PROVE IInv'
  OBVIOUS
<1> USE DEF Start, Bind, lifecycle, watch, sessions
<1>0. /\ n' = n + 1 /\ n \in Nat /\ n' \in Starts /\ n' # NoStart
      /\ pc = "off" /\ pc' = "listening" /\ resource = NoStart
  BY ServerAssumption DEF IInv, TypeOK, StartInv, Starts, NoStart
<1>1. TypeOK'
  <2>1. n' \in 0 .. MaxStarts
    BY <1>0, ServerAssumption DEF Starts
  <2>2. /\ socketFile' \in Starts \cup {NoStart}
        /\ accepting' \in Starts \cup {NoStart}
        /\ resource' \in Starts \cup {NoStart}
        /\ open' \subseteq Starts
    BY <1>0 DEF IInv, TypeOK
  <2>3. QED
    BY <1>0, <2>1, <2>2 DEF IInv, TypeOK
<1>2. StartInv'
  <2>1. \A s \in Starts : s < n' => s <= n
    BY <1>0 DEF Starts
  <2>2. \A s \in Starts : s <= n => s < n \/ s = n
    BY <1>0 DEF Starts
  <2>3. \A s \in Starts : s <= n => s <= n' /\ s # n'
    BY <1>0 DEF Starts
  <2>4. cancelled \subseteq Starts /\ handlerClosed \subseteq Starts
    BY DEF IInv, TypeOK
  <2>5. \A s \in cancelled \cup handlerClosed : s <= n' /\ s # n'
    BY <2>3, <2>4 DEF IInv, StartInv
  <2>6. \A s \in Starts : watcher[s] # "none" => s <= n' /\ s # n'
    BY <2>3 DEF IInv, StartInv
  <2>7. \A s \in Starts : s < n' => s \in disarmed
    BY <1>0, <2>1, <2>2 DEF IInv, StartInv
  <2>8. accepting = NoStart
    BY <1>0 DEF IInv, StartInv
  <2>9. QED
    BY <1>0, <2>5, <2>6, <2>7, <2>8 DEF StartInv
<1>3. \A a \in Actors : taken[a] # NoStart => taken[a] <= n' /\ taken[a] # n'
  BY <1>0 DEF IInv, TypeOK, TakenInv, Starts
<1>4. TakenInv'
  <2>1. watcher[n'] = "none"
    BY <1>0 DEF IInv, TypeOK, StartInv, Starts
  <2>2. QED
    BY <1>0, <1>3, <2>1 DEF IInv, TakenInv
<1>5. ReasonInv'
  <2>1. n' \notin cancelled
    BY <1>0 DEF IInv, StartInv
  <2>2. \A a \in Actors : taken[a] # n'
    BY <1>0, <1>3
  <2>3. ~Disturbed'
    BY <1>0, <2>1, <2>2 DEF Disturbed
  <2>4. QED
    BY <1>0, <2>3 DEF ReasonInv, Ending
<1>6. FileInv'
  BY <1>0 DEF IInv, FileInv
<1>7. SessionInv'
  BY <1>0 DEF IInv, TypeOK, SessionInv, Starts, NoStart
<1>8. QED
  BY <1>1, <1>2, <1>4, <1>5, <1>6, <1>7 DEF IInv

LEMMA SetIInv == IInv /\ Set => IInv'
<1> SUFFICES ASSUME IInv, Set PROVE IInv'
  OBVIOUS
<1> USE DEF Set, outside
<1>0. n \in Starts /\ n # NoStart /\ n <= n
  BY DEF IInv, StartInv, Starts, NoStart
<1>1. TypeOK'
  BY <1>0 DEF IInv, TypeOK, sessions
<1>2. StartInv'
  BY <1>0 DEF IInv, TypeOK, StartInv, sessions
<1>3. TakenInv'
  BY <1>0 DEF IInv, TypeOK, TakenInv, StartInv
<1>4. LateWatcher(n) => LateWatcher(n)'
  BY LateStays DEF Shutting, IInv, TypeOK, StartInv
<1>5. ReasonInv'
  BY <1>0, <1>4 DEF IInv, ReasonInv, Disturbed, Reason, Running, Ending
<1>6. FileInv'
  BY <1>4 DEF IInv, FileInv
<1>7. SessionInv'
  BY ShutdownSessions
<1>8. QED
  BY <1>1, <1>2, <1>3, <1>5, <1>6, <1>7 DEF IInv

LEMMA CancelIInv == IInv /\ Cancel => IInv'
<1> SUFFICES ASSUME IInv, Cancel PROVE IInv'
  OBVIOUS
<1> USE DEF Cancel, start, lifecycle, watch, outside
<1>0. n \in Starts /\ n <= n
  BY DEF IInv, StartInv, Starts
<1>1. TypeOK'
  BY <1>0 DEF IInv, TypeOK, sessions
<1>2. StartInv' /\ TakenInv'
  BY <1>0 DEF IInv, StartInv, TakenInv, sessions
<1>3. ReasonInv' /\ FileInv'
  BY DEF IInv, ReasonInv, Reason, FileInv, LateWatcher
<1>4. SessionInv'
  BY ShutdownSessions
<1>5. QED
  BY <1>1, <1>2, <1>3, <1>4 DEF IInv

\* A step of the accept loop: it goes on, or it ends for a reason.
LEMMA LoopIInv ==
    ASSUME IInv, pc \in {"loop", "accept"},
           pc' \in {"loop", "accept", "disarm"},
           accepting' = IF pc' = "accept" THEN n ELSE NoStart,
           pc' = "accept" => resource = n,
           failed' \in BOOLEAN,
           pc' = "disarm" /\ ~failed' => Disturbed,
           UNCHANGED <<n, lifecycle, cancelled, open, watch, handlerClosed, asked, outside>>,
           SessionInv',
           conn' \in [Conns -> {"none", "open", "session", "closing", "gone"}],
           home' \in [Conns -> Starts \cup {NoStart}],
           connected' \subseteq Conns, onClose' \in [Conns -> 0 .. 1]
    PROVE  IInv'
<1> USE DEF lifecycle, watch, outside
<1>0. n \in Starts /\ n # NoStart
  BY DEF IInv, StartInv, Starts, NoStart
<1>1. TypeOK'
  BY <1>0 DEF IInv, TypeOK
<1>2. StartInv'
  BY <1>0 DEF IInv, StartInv
<1>3. TakenInv'
  BY DEF IInv, TakenInv
<1>4. Disturbed' => Disturbed
  BY DEF Disturbed
<1>5. Reason' = Reason /\ LateWatcher(n)' = LateWatcher(n)
  BY DEF Reason, LateWatcher
<1>6. ReasonInv'
  BY <1>4, <1>5 DEF IInv, ReasonInv, Running, Ending
<1>7. FileInv'
  BY <1>5 DEF IInv, FileInv
<1>8. QED
  BY <1>1, <1>2, <1>3, <1>6, <1>7 DEF IInv

LEMMA AcceptLoopIInv == IInv /\ AcceptLoop => IInv'
<1> SUFFICES ASSUME IInv, AcceptLoop PROVE IInv'
  OBVIOUS
<1>1. /\ pc = "loop" /\ n \in Starts /\ accepting = NoStart
      /\ UNCHANGED <<n, failed, lifecycle, cancelled, open, watch, sessions, asked, outside>>
  BY DEF AcceptLoop, IInv, StartInv
<1>2. \/ pc' = "disarm" /\ accepting' = NoStart /\ (n \in cancelled \/ resource = NoStart)
      \/ pc' = "accept" /\ accepting' = n /\ resource = n
  BY <1>1 DEF AcceptLoop, IInv, StartInv
<1>3. pc' = "disarm" => Disturbed
  BY <1>1, <1>2 DEF Disturbed
<1>4. SessionInv'
  BY <1>1, ShutdownSessions
<1>5. QED
  BY <1>1, <1>2, <1>3, <1>4, LoopIInv DEF sessions, IInv, TypeOK

\* What holds when Accept was called.
LEMMA Accepting ==
    ASSUME IInv, pc = "accept" \/ accepting # NoStart
    PROVE  pc = "accept" /\ accepting = n /\ n \in Starts /\ n # NoStart /\ n \notin handlerClosed
BY DEF IInv, StartInv, Starts, NoStart

LEMMA NewSession ==
    ASSUME IInv, NEW c \in Conns, n \in Starts, n # NoStart, n \notin handlerClosed,
           UNCHANGED <<n, handlerClosed>>,
           home' = [home EXCEPT ![c] = n],
           \/ /\ conn[c] = "none" /\ conn' = [conn EXCEPT ![c] = "open"]
              /\ UNCHANGED <<connected, onClose>>
           \/ /\ conn' = [conn EXCEPT ![c] = "session"] /\ connected' = connected \cup {c}
              /\ onClose' = [onClose EXCEPT ![c] = 0]
    PROVE  SessionInv'
<1> SUFFICES ASSUME NEW d \in Conns
             PROVE  /\ home'[d] <= n
                    /\ conn'[d] = "none" <=> home'[d] = NoStart
                    /\ conn'[d] \in {"none", "open"} => d \notin connected'
                    /\ conn'[d] = "session" => d \in connected'
                    /\ onClose'[d] = IF conn'[d] = "gone" /\ d \in connected' THEN 1 ELSE 0
                    /\ home'[d] \in handlerClosed => conn'[d] = "gone"
  BY DEF SessionInv
<1>1. n <= n
  BY DEF Starts
<1>2. CASE d = c
  BY <1>1, <1>2 DEF IInv, TypeOK, SessionInv
<1>3. CASE d # c
  BY <1>3 DEF IInv, TypeOK, SessionInv
<1>4. QED
  BY <1>2, <1>3

LEMMA AcceptIInv ==
    ASSUME IInv, NEW c \in Conns, Accept(c) \/ FirstDatagram(c)
    PROVE  IInv'
<1>1. /\ pc = "accept" /\ accepting = n /\ n \in Starts /\ n # NoStart /\ n \notin handlerClosed
      /\ pc' = "loop" /\ accepting' = NoStart
      /\ UNCHANGED <<n, failed, lifecycle, cancelled, open, watch, handlerClosed, asked, outside>>
      /\ home' = [home EXCEPT ![c] = n]
  BY Accepting DEF Accept, FirstDatagram, Returns
<1>2. SessionInv'
  BY <1>1, NewSession DEF Accept, FirstDatagram
<1>3. /\ conn' \in [Conns -> {"none", "open", "session", "closing", "gone"}]
      /\ home' \in [Conns -> Starts \cup {NoStart}]
      /\ connected' \subseteq Conns /\ onClose' \in [Conns -> 0 .. 1]
  BY <1>1 DEF Accept, FirstDatagram, IInv, TypeOK
<1>4. QED
  BY <1>1, <1>2, <1>3, LoopIInv DEF IInv, TypeOK

LEMMA AcceptReturnsIInv == IInv /\ (Datagram \/ AcceptClosed \/ AcceptFails) => IInv'
<1> SUFFICES ASSUME IInv, Datagram \/ AcceptClosed \/ AcceptFails PROVE IInv'
  OBVIOUS
<1>1. /\ pc = "accept" /\ accepting = n /\ pc' \in {"loop", "disarm"} /\ accepting' = NoStart
      /\ UNCHANGED <<n, lifecycle, cancelled, open, watch, sessions, asked, outside>>
      /\ failed' \in BOOLEAN
      /\ pc' = "disarm" /\ ~failed' => n \in cancelled \/ n \notin open
  BY Accepting DEF Datagram, AcceptClosed, AcceptFails, Returns, IInv, TypeOK
<1>2. SessionInv'
  BY <1>1, ShutdownSessions
<1>3. QED
  BY <1>1, <1>2, LoopIInv DEF sessions, IInv, TypeOK, Disturbed

LEMMA DisarmIInv == IInv /\ Disarm => IInv'
<1> SUFFICES ASSUME IInv, Disarm PROVE IInv'
  OBVIOUS
<1> USE ActorsDiffer DEF Disarm, Take, outside
<1>0. n \in Starts /\ n # NoStart /\ n <= n
  BY DEF IInv, StartInv, Starts, NoStart
<1>1. TypeOK'
  BY <1>0 DEF IInv, TypeOK, sessions
<1>2. StartInv'
  BY <1>0 DEF IInv, TypeOK, StartInv, sessions
<1>3. TakenInv'
  <2>1. resource # NoStart => resource = n
    BY DEF IInv, StartInv
  <2>2. \A a \in Actors : taken'[a] = IF a = Starter THEN resource ELSE taken[a]
    BY DEF IInv, TypeOK
  <2>3. QED
    BY <1>0, <2>1, <2>2 DEF IInv, TypeOK, TakenInv
<1>4. LateWatcher(n) => LateWatcher(n)'
  BY LateStays DEF Shutting
<1>5. ReasonInv' /\ FileInv'
  BY <1>4 DEF IInv, ReasonInv, Reason, FileInv, Running, Ending
<1>6. SessionInv'
  BY ShutdownSessions
<1>7. QED
  BY <1>1, <1>2, <1>3, <1>5, <1>6 DEF IInv

LEMMA StartFinishesIInv == IInv /\ StartFinishes => IInv'
<1> SUFFICES ASSUME IInv, StartFinishes PROVE IInv'
  OBVIOUS
<1>0. /\ Finish(Starter) /\ Starter \in Actors
      /\ UNCHANGED <<transport, n, accepting, failed, resource, watch, stopping, sessions,
                     asked, fileLost>>
      /\ pc = "shutdown" /\ pc' = IF transport = "unix" THEN "removing" ELSE "wait"
  BY ActorsDiffer DEF StartFinishes, Afterwards
<1> USE <1>0, ActorsDiffer DEF watch
<1>1. TypeOK'
  BY FinishFacts DEF IInv, TypeOK, sessions
<1>2. StartInv'
  BY FinishFacts DEF IInv, StartInv, sessions
<1>3. TakenInv'
  BY FinishFacts DEF IInv, TakenInv, NoStart
<1>4. LateWatcher(n)' = LateWatcher(n)
  BY DEF LateWatcher
<1>5. ReasonInv' /\ FileInv'
  BY <1>4 DEF IInv, StartInv, ReasonInv, Reason, FileInv, Running, Ending
<1>6. SessionInv'
  BY ShutdownSessions
<1>7. QED
  BY <1>1, <1>2, <1>3, <1>5, <1>6 DEF IInv

LEMMA StartRemovesIInv == IInv /\ StartRemoves => IInv'
<1> SUFFICES ASSUME IInv, StartRemoves PROVE IInv'
  OBVIOUS
<1> USE DEF StartRemoves, Unlink, lifecycle, watch
<1>1. TypeOK'
  BY DEF IInv, TypeOK, sessions
<1>2. StartInv' /\ TakenInv'
  BY DEF IInv, StartInv, TakenInv, sessions
<1>3. LateWatcher(n)' = LateWatcher(n)
  BY DEF LateWatcher
<1>4. ReasonInv' /\ FileInv'
  BY <1>3 DEF IInv, StartInv, ReasonInv, Reason, FileInv, Running, Ending
<1>5. SessionInv'
  BY ShutdownSessions
<1>6. QED
  BY <1>1, <1>2, <1>4, <1>5 DEF IInv

\* Wait has seen every session of this Start over, and no new one can come.
LEMMA StartReturnsIInv == IInv /\ StartReturns => IInv'
<1> SUFFICES ASSUME IInv, StartReturns PROVE IInv'
  OBVIOUS
<1> USE DEF StartReturns, lifecycle, watch, outside
<1>0. n \in Starts /\ n # NoStart /\ n <= n
  BY DEF IInv, StartInv, Starts, NoStart
<1>1. TypeOK'
  BY <1>0 DEF IInv, TypeOK
<1>2. StartInv' /\ TakenInv'
  BY <1>0 DEF IInv, StartInv, TakenInv
<1>3. ReasonInv' /\ FileInv'
  BY DEF IInv, StartInv, ReasonInv, FileInv, Running, Ending
<1>4. SessionInv'
  <2>1. \A c \in Conns : home[c] = n => conn[c] = "gone"
    BY <1>0 DEF IInv, SessionInv, SessionsOver
  <2>2. QED
    BY <2>1 DEF IInv, SessionInv
<1>5. QED
  BY <1>1, <1>2, <1>3, <1>4 DEF IInv

-----------------------------------------------------------------------------
LEMMA NextIInv == IInv /\ [Next]_vars => IInv'
<1> SUFFICES ASSUME IInv, [Next]_vars PROVE IInv'
  OBVIOUS
<1>1. CASE Start \/ Cancel
  BY <1>1, StartIInv, CancelIInv
<1>2. CASE StartStep
  BY <1>2, SetIInv, AcceptLoopIInv, AcceptReturnsIInv, DisarmIInv, StartFinishesIInv,
     StartRemovesIInv, StartReturnsIInv, CloseIInv DEF StartStep
<1>3. CASE AcceptFails \/ Datagram
  BY <1>3, AcceptReturnsIInv
<1>4. CASE Stop \/ StopFinishes \/ StopRemoves
  BY <1>4, StopIInv, StopFinishesIInv, StopRemovesIInv
<1>5. ASSUME NEW s \in Starts, WatcherStep(s) PROVE IInv'
  BY <1>5, WatcherFiresIInv, WatcherTakesIInv, WatcherFinishesIInv, WatcherRemovesIInv
     DEF WatcherStep
<1>6. ASSUME NEW c \in Conns, Accept(c) \/ FirstDatagram(c) PROVE IInv'
  BY <1>6, AcceptIInv
<1>7. ASSUME NEW c \in Conns,
             OpenClient(c) \/ OpenClientFails(c) \/ SessionEnds(c) \/ CloseClient(c)
      PROVE  IInv'
  BY <1>7, OpenClientIInv, SessionEndsIInv, CloseIInv
<1>8. CASE UNCHANGED vars
  <2>1. UNCHANGED elsewhere /\ UNCHANGED <<conn, connected, onClose>>
    BY <1>8 DEF vars, elsewhere, start, lifecycle, watch, outside
  <2>2. SessionInv'
    BY <1>8 DEF vars, IInv, SessionInv
  <2>3. QED
    BY <2>1, <2>2, SessionStep DEF IInv, TypeOK
<1>9. QED
  BY <1>1, <1>2, <1>3, <1>4, <1>5, <1>6, <1>7, <1>8 DEF Next

LEMMA SpecIInv == Spec => []IInv
BY InitIInv, NextIInv, PTL DEF Spec

-----------------------------------------------------------------------------
\* When Start calls handler.Close, every connection it accepted is over, and
\* every client that was connected has had OnClose exactly once; nothing that
\* later Starts do changes that.
THEOREM HandlerIsClosedLast == Spec => []HandlerClosedLast
<1>1. IInv => HandlerClosedLast
  BY DEF IInv, SessionInv, HandlerClosedLast
<1>2. QED
  BY <1>1, SpecIInv, PTL

\* A Start ends only because of its context, of Stop, of an error of Accept, or
\* of the watcher of an earlier Start that came late.
THEOREM StartEndsForAReason == Spec => []EndsForAReason
<1>1. IInv => EndsForAReason
  BY DEF IInv, ReasonInv, Reason, Ending, EndsForAReason
<1>2. QED
  BY <1>1, SpecIInv, PTL

\* The Unix server can be dialled while its Start is in the lifecycle, unless a
\* Stop that took another Start or a late watcher has removed its file; no file
\* outlives its Start.
THEOREM SocketFileIsThere == Spec => []SocketFileStays
<1>1. IInv => SocketFileStays
  BY DEF IInv, StartInv, FileInv, SocketFileStays
<1>2. QED
  BY <1>1, SpecIInv, PTL
=============================================================================
