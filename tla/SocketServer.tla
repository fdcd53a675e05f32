---------------------------- MODULE SocketServer ----------------------------
(***************************************************************************)
(* The TCP, Unix socket and UDP servers: net/tcp/server.go,                *)
(* net/unix/server.go, net/udp/server.go, and what they share,             *)
(* net/internal/server (Lifecycle, the accept loop and the session of a    *)
(* connection).  The three are one protocol; where they differ an action   *)
(* asks for the transport, which never changes.                            *)
(*                                                                         *)
(* A server is started several times, one Start after the other, and a     *)
(* Start is named by its number.  Lifecycle.Shutdown is called by Stop, by *)
(* the goroutine that watches the context of a Start, and by Start itself: *)
(* each call takes listener and cancel function under the mutex, and then, *)
(* outside of it, calls cancel and closes the listener.                    *)
(***************************************************************************)
EXTENDS Naturals

CONSTANTS
    Transports,    \* the servers: some of "tcp", "unix", "udp"
    Peers,         \* Peers[t]: connections that clients open; UDP: remote addresses
    MaxStarts      \* bound: how often Start is called

ASSUME ServerAssumption ==
    /\ MaxStarts \in Nat
    /\ Transports \subseteq {"tcp", "unix", "udp"}
    /\ DOMAIN Peers = Transports

Conns == UNION {Peers[t] : t \in Transports}

Starts == 1 .. MaxStarts
Stopper == <<"Stop", 0>>
Starter == <<"Start", 0>>
Watcher(s) == <<"watcher", s>>
Actors == {Stopper, Starter} \cup {Watcher(s) : s \in Starts}
NoStart == 0

VARIABLES
    transport,     \* which of the servers this is
    n,             \* the number of the last call of Start
    pc,            \* where that call is; "off" once it has returned
    accepting,     \* the listener that Accept was called on
    resource,      \* the Start whose listener and cancel the lifecycle holds
    taken,         \* taken[a]: the Start that Shutdown by actor a has taken
    cancelled,     \* the Starts whose own context is done
    open,          \* the Starts whose listener is open
    watcher,       \* watcher[s]: the goroutine watching the context of s
    disarmed,      \* the Starts that have closed ctxDone
    stopping,      \* where a call of Stop is
    socketFile,    \* the Start whose socket is at the address (Unix)
    conn,          \* conn[c]: where the goroutine of connection c is
    home,          \* home[c]: the Start that accepted c
    connected,     \* the connections whose OnConnect succeeded (history)
    onClose,       \* onClose[c]: how often OnClose was called (history)
    handlerClosed, \* the Starts that called handler.Close (history)
    failed,        \* Accept of the last Start failed
    asked,         \* how the last Start was asked to end (history)
    fileLost       \* Stop removed its socket file, not its listener (history)

vars == <<transport, n, pc, accepting, resource, taken, cancelled, open, watcher,
          disarmed, stopping, socketFile, conn, home, connected, onClose,
          handlerClosed, failed, asked, fileLost>>
start == <<n, pc, accepting, failed>>
lifecycle == <<resource, taken>>
watch == <<watcher, disarmed>>
sessions == <<conn, home, connected, onClose, handlerClosed>>
outside == <<transport, stopping, socketFile, fileLost>>

TypeOK ==
    /\ transport \in Transports
    /\ stopping \in {"no", "closing", "removing"}
    /\ socketFile \in Starts \cup {NoStart}
    /\ n \in 0 .. MaxStarts
    /\ pc \in {"off", "listening", "loop", "accept", "disarm", "shutdown",
              "removing", "wait"}
    /\ accepting \in Starts \cup {NoStart}
    /\ resource \in Starts \cup {NoStart}
    /\ taken \in [Actors -> Starts \cup {NoStart}]
    /\ cancelled \subseteq Starts
    /\ open \subseteq Starts
    /\ watcher \in [Starts -> {"none", "armed", "fired", "closing", "removing", "done"}]
    /\ disarmed \subseteq Starts
    /\ conn \in [Conns -> {"none", "open", "session", "closing", "gone"}]
    /\ home \in [Conns -> Starts \cup {NoStart}]
    /\ connected \subseteq Conns
    /\ onClose \in [Conns -> 0 .. 1]
    /\ handlerClosed \subseteq Starts
    /\ failed \in BOOLEAN
    /\ asked \subseteq {"cancel", "Stop"}
    /\ fileLost \in BOOLEAN

Init ==
    /\ transport \in Transports
    /\ stopping = "no"
    /\ socketFile = NoStart
    /\ n = 0
    /\ pc = "off"
    /\ accepting = NoStart
    /\ resource = NoStart
    /\ taken = [a \in Actors |-> NoStart]
    /\ cancelled = {}
    /\ open = {}
    /\ watcher = [s \in Starts |-> "none"]
    /\ disarmed = {}
    /\ conn = [c \in Conns |-> "none"]
    /\ home = [c \in Conns |-> NoStart]
    /\ connected = {}
    /\ onClose = [c \in Conns |-> 0]
    /\ handlerClosed = {}
    /\ failed = FALSE
    /\ asked = {}
    /\ fileLost = FALSE

-----------------------------------------------------------------------------
(* Lifecycle.Shutdown, by any actor *)

\* Under the mutex: take what the lifecycle holds.
Take(a) ==
    /\ taken' = [taken EXCEPT ![a] = resource]
    /\ resource' = NoStart

\* A Unix listener that is closed unlinks its address, whoever listens there;
\* removeSocketFile does the same.
Unlink == socketFile' = IF transport = "unix" THEN NoStart ELSE socketFile

\* Mutant: cancel is not called.
FinishQuietly(a) ==
    /\ taken' = [taken EXCEPT ![a] = NoStart]
    /\ open' = open \ {taken[a]}
    /\ IF taken[a] = NoStart THEN UNCHANGED socketFile ELSE Unlink
    /\ UNCHANGED cancelled

\* Outside of it: call cancel and close the listener.
Finish(a) ==
    /\ taken' = [taken EXCEPT ![a] = NoStart]
    /\ cancelled' = cancelled \cup ({taken[a]} \ {NoStart})
    /\ open' = open \ {taken[a]}
    /\ IF taken[a] = NoStart THEN UNCHANGED socketFile ELSE Unlink

\* Where a shutdown goes on: the Unix server also removes its socket file.
Afterwards(end) == IF transport = "unix" THEN "removing" ELSE end

\* Stop.  With nothing in the lifecycle only a socket file is left to remove.
Stop ==
    /\ stopping = "no"
    /\ resource # NoStart \/ transport = "unix"
    /\ Take(Stopper)
    /\ stopping' = IF resource = NoStart THEN "removing" ELSE "closing"
    /\ asked' = IF resource = NoStart THEN asked ELSE asked \cup {"Stop"}
    /\ UNCHANGED <<transport, start, cancelled, open, watch, socketFile, sessions, fileLost>>

\* Stop is about to unlink a file; it took no listener of that Start, or that of
\* an earlier one.
StopUnlinks ==
    fileLost' = (fileLost \/ socketFile \notin {taken[Stopper], NoStart})

StopFinishes ==
    /\ stopping = "closing"
    /\ Finish(Stopper)
    /\ StopUnlinks
    /\ stopping' = Afterwards("no")
    /\ UNCHANGED <<transport, start, resource, watch, sessions, asked>>

StopRemoves ==
    /\ stopping = "removing"
    /\ Unlink
    /\ StopUnlinks
    /\ stopping' = "no"
    /\ UNCHANGED <<transport, start, lifecycle, cancelled, open, watch, sessions, asked>>

\* The watcher's select; when its Start has ended and its context is done too,
\* either case may be chosen.
WatcherFires(s) ==
    /\ watcher[s] = "armed"
    /\ s \in cancelled
    /\ watcher' = [watcher EXCEPT ![s] = "fired"]
    /\ UNCHANGED <<start, lifecycle, cancelled, open, disarmed, sessions, asked, outside>>

WatcherLeaves(s) ==
    /\ watcher[s] = "armed"
    /\ s \in disarmed
    /\ watcher' = [watcher EXCEPT ![s] = "done"]
    /\ UNCHANGED <<start, lifecycle, cancelled, open, disarmed, sessions, asked, outside>>

WatcherTakes(s) ==
    /\ watcher[s] = "fired"
    /\ Take(Watcher(s))
    /\ watcher' = [watcher EXCEPT ![s] = "closing"]
    /\ UNCHANGED <<start, cancelled, open, disarmed, sessions, asked, outside>>

WatcherFinishes(s) ==
    /\ watcher[s] = "closing"
    /\ Finish(Watcher(s))
    /\ watcher' = [watcher EXCEPT ![s] = Afterwards("done")]
    /\ UNCHANGED <<transport, start, resource, disarmed, stopping, sessions, asked, fileLost>>

WatcherRemoves(s) ==
    /\ watcher[s] = "removing"
    /\ Unlink
    /\ watcher' = [watcher EXCEPT ![s] = "done"]
    /\ UNCHANGED <<transport, start, lifecycle, cancelled, open, disarmed, stopping,
                   sessions, asked, fileLost>>

-----------------------------------------------------------------------------
(* Start *)

\* Mutant: the stale socket file is removed after Listen.
BindEarly == socketFile' = IF transport = "unix" THEN NoStart ELSE socketFile

\* The Unix server removes a stale socket file, and Listen makes a new one.
Bind == socketFile' = IF transport = "unix" THEN n + 1 ELSE socketFile

\* Start, up to a successful Listen.  (A failed Listen changes nothing.)
Start ==
    /\ pc = "off"
    /\ n < MaxStarts
    /\ n' = n + 1
    /\ Bind
    /\ open' = open \cup {n'}
    /\ pc' = "listening"
    /\ failed' = FALSE /\ asked' = {} /\ fileLost' = FALSE
    /\ UNCHANGED <<transport, accepting, lifecycle, cancelled, watch, stopping, sessions>>

\* lifecycle.Set, and the watcher is started.
Set ==
    /\ pc = "listening"
    /\ resource' = n
    /\ watcher' = [watcher EXCEPT ![n] = "armed"]
    /\ pc' = "loop"
    /\ UNCHANGED <<n, accepting, failed, taken, cancelled, open, disarmed, sessions, asked, outside>>

\* The caller's context ends, while the context of Start is not yet done.
Cancel ==
    /\ pc # "off"
    /\ n \notin cancelled
    /\ cancelled' = cancelled \cup {n}
    /\ asked' = asked \cup {"cancel"}
    /\ UNCHANGED <<start, lifecycle, open, watch, sessions, outside>>

\* The top of the loop: the context and the lifecycle are looked at.
AcceptLoop ==
    /\ pc = "loop"
    /\ IF n \in cancelled \/ resource = NoStart
       THEN pc' = "disarm" /\ UNCHANGED accepting
       ELSE pc' = "accept" /\ accepting' = resource
    /\ UNCHANGED <<n, failed, lifecycle, cancelled, open, watch, sessions, asked, outside>>

\* Accept, or the read of a datagram, returns, and the loop goes on or ends.
Returns(to) ==
    /\ pc = "accept"
    /\ pc' = to
    /\ accepting' = NoStart

\* Mutant: Start ends after the first connection.
AcceptOnce(c) ==
    /\ transport # "udp"
    /\ accepting \in open
    /\ c \in Peers[transport]
    /\ conn[c] = "none"
    /\ conn' = [conn EXCEPT ![c] = "open"]
    /\ home' = [home EXCEPT ![c] = n]
    /\ Returns("disarm")
    /\ UNCHANGED <<n, failed, lifecycle, cancelled, open, watch, connected, onClose,
                   handlerClosed, asked, outside>>

Accept(c) ==
    /\ transport # "udp"
    /\ accepting \in open
    /\ c \in Peers[transport]
    /\ conn[c] = "none"
    /\ conn' = [conn EXCEPT ![c] = "open"]
    /\ home' = [home EXCEPT ![c] = n]
    /\ Returns("loop")
    /\ UNCHANGED <<n, failed, lifecycle, cancelled, open, watch, connected, onClose,
                   handlerClosed, asked, outside>>

\* The UDP server reads a datagram, and handles it in its own goroutine: the client
\* of a known address gets the message, which leaves no trace ...
Datagram ==
    /\ transport = "udp"
    /\ accepting \in open
    /\ Returns("loop")
    /\ UNCHANGED <<n, failed, lifecycle, cancelled, open, watch, sessions, asked, outside>>

\* ... and at a new address the handler and OnConnect make one.  (When they fail,
\* the datagram is lost, without a trace.)
FirstDatagram(c) ==
    /\ transport = "udp"
    /\ accepting \in open
    /\ c \in Peers[transport]
    /\ conn[c] # "session"
    /\ conn' = [conn EXCEPT ![c] = "session"]
    /\ home' = [home EXCEPT ![c] = n]
    /\ connected' = connected \cup {c}
    /\ onClose' = [onClose EXCEPT ![c] = 0]
    /\ Returns("loop")
    /\ UNCHANGED <<n, failed, lifecycle, cancelled, open, watch, handlerClosed, asked, outside>>

\* Accept fails: the listener is closed, or the context is done, and the loop
\* ends without an error ...
AcceptClosed ==
    /\ accepting # NoStart
    /\ accepting \notin open
    /\ Returns("disarm")
    /\ UNCHANGED <<n, failed, lifecycle, cancelled, open, watch, sessions, asked, outside>>

\* ... or something else is wrong.
AcceptFails ==
    /\ accepting \in open
    /\ Returns("disarm")
    /\ failed' = (n \notin cancelled)
    /\ UNCHANGED <<n, lifecycle, cancelled, open, watch, sessions, asked, outside>>

\* close(ctxDone), and the first half of Start's own shutdown.
Disarm ==
    /\ pc = "disarm"
    /\ disarmed' = disarmed \cup {n}
    /\ Take(Starter)
    /\ pc' = "shutdown"
    /\ UNCHANGED <<n, accepting, failed, cancelled, open, watcher, sessions, asked, outside>>

StartFinishes ==
    /\ pc = "shutdown"
    /\ Finish(Starter)
    /\ pc' = Afterwards("wait")
    /\ UNCHANGED <<transport, n, accepting, failed, resource, watch, stopping, sessions,
                   asked, fileLost>>

StartRemoves ==
    /\ pc = "removing"
    /\ Unlink
    /\ pc' = "wait"
    /\ UNCHANGED <<transport, n, accepting, failed, lifecycle, cancelled, open, watch,
                   stopping, sessions, asked, fileLost>>

SessionsOver == \A c \in Conns : conn[c] \in {"none", "gone"}

\* Mutant: Start does not wait for the sessions.
StartReturnsEarly ==
    /\ pc = "wait"
    /\ handlerClosed' = IF failed THEN handlerClosed ELSE handlerClosed \cup {n}
    /\ cancelled' = cancelled \cup {n}
    /\ pc' = "off"
    /\ UNCHANGED <<n, accepting, failed, lifecycle, open, watch, conn, home, connected,
                   onClose, asked, outside>>

\* lifecycle.Wait; handler.Close, but not after a failed Accept; and the deferred
\* cancel.
StartReturns ==
    /\ pc = "wait"
    /\ SessionsOver
    /\ handlerClosed' = IF failed THEN handlerClosed ELSE handlerClosed \cup {n}
    /\ cancelled' = cancelled \cup {n}
    /\ pc' = "off"
    /\ UNCHANGED <<n, accepting, failed, lifecycle, open, watch, conn, home, connected,
                   onClose, asked, outside>>

-----------------------------------------------------------------------------
(* HandleStreamConnection *)

\* What no session touches.
elsewhere == <<start, lifecycle, cancelled, open, watch, home, handlerClosed, asked, outside>>

\* Handle and OnConnect succeed.
OpenClient(c) ==
    /\ conn[c] = "open"
    /\ connected' = connected \cup {c}
    /\ conn' = [conn EXCEPT ![c] = "session"]
    /\ UNCHANGED <<elsewhere, onClose>>

\* Handle or OnConnect fails: there is no client to close.
OpenClientFails(c) ==
    /\ conn[c] = "open"
    /\ conn' = [conn EXCEPT ![c] = "closing"]
    /\ UNCHANGED <<elsewhere, connected, onClose>>

\* The session ends: the context is done, or the peer is gone.
SessionEnds(c) ==
    /\ transport # "udp"
    /\ conn[c] = "session"
    /\ conn' = [conn EXCEPT ![c] = "closing"]
    /\ UNCHANGED <<elsewhere, connected, onClose>>

\* CloseClient and Close of the connection.
CloseClient(c) ==
    /\ conn[c] = "closing"
    /\ onClose' = [onClose EXCEPT ![c] = IF c \in connected THEN @ + 1 ELSE @]
    /\ conn' = [conn EXCEPT ![c] = "gone"]
    /\ UNCHANGED <<elsewhere, connected>>

\* closeClients of the UDP server, one client after the other: after Wait, on
\* either way out of Start.
CloseClients(c) ==
    /\ transport = "udp"
    /\ pc = "wait"
    /\ conn[c] = "session"
    /\ onClose' = [onClose EXCEPT ![c] = @ + 1]
    /\ conn' = [conn EXCEPT ![c] = "gone"]
    /\ UNCHANGED <<elsewhere, connected>>

-----------------------------------------------------------------------------
WatcherStep(s) ==
    \/ WatcherFires(s) \/ WatcherLeaves(s) \/ WatcherTakes(s)
    \/ WatcherFinishes(s) \/ WatcherRemoves(s)

StartStep ==
    \/ Set \/ AcceptLoop \/ AcceptClosed \/ Disarm
    \/ StartFinishes \/ StartRemoves \/ StartReturns
    \/ \E c \in Conns : CloseClients(c)

Next ==
    \/ Start \/ StartStep \/ AcceptFails \/ Datagram \/ Cancel
    \/ Stop \/ StopFinishes \/ StopRemoves
    \/ \E s \in Starts : WatcherStep(s)
    \/ \E c \in Conns : \/ Accept(c) \/ FirstDatagram(c) \/ OpenClient(c)
                        \/ OpenClientFails(c) \/ SessionEnds(c) \/ CloseClient(c)

\* Goroutines run.  A session must end only once its context is done: the
\* connection is closed then, and its message channel with it.
Fairness ==
    /\ WF_vars(StartStep)
    /\ WF_vars(StopFinishes \/ StopRemoves)
    /\ \A s \in Starts : WF_vars(WatcherStep(s))
    /\ \A c \in Conns :
          /\ WF_vars(OpenClient(c) \/ OpenClientFails(c))
          /\ WF_vars(home[c] \in cancelled /\ SessionEnds(c))
          /\ WF_vars(CloseClient(c))

Spec == Init /\ [][Next]_vars
FairSpec == Spec /\ Fairness

-----------------------------------------------------------------------------
(* What must hold *)

\* handler.Close comes last: every connection that this Start accepted is over,
\* and every client that was connected has had its OnClose, exactly once.
HandlerClosedLast ==
    \A c \in Conns : home[c] \in handlerClosed =>
        /\ conn[c] = "gone"
        /\ onClose[c] = IF c \in connected THEN 1 ELSE 0

\* The watcher of an earlier Start chose the context when that Start had ended.
LateWatcher(s) ==
    \E t \in Starts : t < s /\ watcher[t] \in {"closing", "removing", "done"} /\ t \in disarmed

\* A Start that ended while nobody cancelled its context or called Stop, and
\* whose Accept did not fail, was shut down by the watcher of an earlier Start
\* that had ended when its context was done: the only one that can do so.
EndsForAReason ==
    (pc \in {"disarm", "shutdown", "removing", "wait"} /\ ~failed) =>
        asked # {} \/ LateWatcher(n)

\* The address of the Unix server: a Start that is in the lifecycle can be dialled
\* there, unless a Stop that did not find it or the late watcher of an earlier
\* Start has removed its file; and no file outlives its Start.
SocketFileStays ==
    transport = "unix" =>
        /\ (resource \in {socketFile, NoStart}) \/ fileLost \/ LateWatcher(resource)
        /\ pc \in {"wait", "off"} => socketFile = NoStart

\* A Stop that finds a running Start, or a cancelled context, ends Start, its
\* sessions included.
StopEndsStart ==
    \A s \in Starts : (s = n /\ asked # {}) ~> (n > s \/ pc = "off")
=============================================================================
