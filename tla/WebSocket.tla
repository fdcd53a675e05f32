----------------------------- MODULE WebSocket ------------------------------
(***************************************************************************)
(* The sessions of the websocket server, net/websocket/server.go and       *)
(* connection.go, with the goroutine that net/protocol reads a message in. *)
(* A session is a hijacked connection of the HTTP server: it learns that   *)
(* the server shuts down from the channel `done`, which a watcher waits    *)
(* for.  Peers may send, stop reading or go away at any time.              *)
(***************************************************************************)
EXTENDS Naturals

CONSTANT Peers      \* the websocket clients

VARIABLES
    ws,             \* ws[c]: the session of client c
    done            \* the HTTP server has closed its channel `done`

(* pc: where handleConnection is; ctx: its context is done; closed: the network connection is; *)
(* watcher and disarmed: watchDone; frame and queue: the goroutine of protocol.Read and its    *)
(* channel; writing: a Write holds the connection's mutex; connected, onClose: history;        *)
(* raced: two goroutines read the connection (history).                                        *)
NoSession ==
    [pc |-> "none", ctx |-> FALSE, closed |-> FALSE, watcher |-> "none", disarmed |-> FALSE,
     frame |-> "none", queue |-> 0, writing |-> FALSE, connected |-> FALSE, onClose |-> 0,
     raced |-> FALSE]

WSInit == ws = [c \in Peers |-> NoSession] /\ done = FALSE

At(c, pc) == ws[c].pc = pc

-----------------------------------------------------------------------------
(* handleConnection *)

(* Handle: the connection is upgraded, and the watcher started. *)
Upgrade(c) ==
    /\ At(c, "none")
    /\ ws' = [ws EXCEPT ![c].pc = "opening", ![c].watcher = "armed"]

(* Handler.Handle and OnConnect; a client that failed to connect is not closed *)
OpenClient(c) ==
    /\ At(c, "opening")
    /\ ws' = [ws EXCEPT ![c].pc = "reading", ![c].connected = TRUE]

OpenClientFails(c) ==
    /\ At(c, "opening")
    /\ ws' = [ws EXCEPT ![c].pc = "closing"]

(* NextReader returns a message, and protocol.Read starts to read it, unless the context is done. *)
NextReader(c) ==
    /\ At(c, "reading") /\ ~ws[c].closed
    /\ ws' = [ws EXCEPT ![c].pc = "handling", ![c].queue = 0,
                        ![c].frame = IF ws[c].ctx THEN "ended" ELSE "reading",
                        ![c].raced = @ \/ ws[c].frame = "reading"]

(* ... or an error: the connection is closed, or the peer has gone or said goodbye. *)
NextReaderFails(c) ==
    /\ At(c, "reading")
    /\ ws' = [ws EXCEPT ![c].pc = "leaving"]

(* handleMessages: a message for OnWrite *)
HandleMessage(c) ==
    /\ At(c, "handling") /\ ws[c].queue = 1
    /\ ws' = [ws EXCEPT ![c].queue = 0]

(* Mutant: handleMessages reads one message and returns. *)
EndsAfterMessage(c) == ws[c].queue = 1

(* ... until the channel is closed or the context is done *)
MessagesEnd(c) == ws[c].ctx \/ (ws[c].frame = "ended" /\ ws[c].queue = 0)

HandlingEnds(c) ==
    /\ At(c, "handling") /\ MessagesEnd(c)
    /\ ws' = [ws EXCEPT ![c].pc = "reading"]

(* The deferred calls: CloseClient, ... *)
CloseClient(c) ==
    /\ At(c, "leaving")
    /\ ws' = [ws EXCEPT ![c].pc = "closing", ![c].onClose = @ + 1]

(* ... Close of the connection, which waits for its mutex, ... *)
CloseConnection(c) ==
    /\ At(c, "closing") /\ ~ws[c].writing
    /\ ws' = [ws EXCEPT ![c].pc = "unwatching", ![c].closed = TRUE]

(* ... stopWatchingRequest, and cancel. *)
Unwatch(c) ==
    /\ At(c, "unwatching")
    /\ ws' = [ws EXCEPT ![c].pc = "over", ![c].disarmed = TRUE, ![c].ctx = TRUE]

-----------------------------------------------------------------------------
(* The goroutine of protocol.Read: the rest of the message arrives, or nothing more does, ... *)
ReadChunk(c) ==
    /\ ws[c].frame = "reading" /\ ~ws[c].closed
    /\ \E next \in {"sending", "ended"} : ws' = [ws EXCEPT ![c].frame = next]

ReadFails(c) ==
    /\ ws[c].frame = "reading" /\ ws[c].closed
    /\ ws' = [ws EXCEPT ![c].frame = "ended"]

(* ... and send passes it on, unless the context is done first. *)
Send(c) ==
    /\ ws[c].frame = "sending"
    /\ \/ ws[c].queue = 0 /\ ~ws[c].ctx /\ ws' = [ws EXCEPT ![c].frame = "reading", ![c].queue = 1]
       \/ ws[c].ctx /\ ws' = [ws EXCEPT ![c].frame = "ended"]

-----------------------------------------------------------------------------
(* watchDone: cancel, and then the connection is closed, without its mutex *)
WatcherCancels(c) ==
    /\ ws[c].watcher = "armed" /\ done
    /\ ws' = [ws EXCEPT ![c].watcher = "fired", ![c].ctx = TRUE]

(* Mutant: the watcher closes the connection through Connection.Close. *)
WatcherClosesLocked(c) ==
    /\ ws[c].watcher = "fired" /\ ~ws[c].writing
    /\ ws' = [ws EXCEPT ![c].watcher = "gone", ![c].closed = TRUE]

WatcherCloses(c) ==
    /\ ws[c].watcher = "fired"
    /\ ws' = [ws EXCEPT ![c].watcher = "gone", ![c].closed = TRUE]

WatcherLeaves(c) ==
    /\ ws[c].watcher = "armed" /\ ws[c].disarmed
    /\ ws' = [ws EXCEPT ![c].watcher = "gone"]

-----------------------------------------------------------------------------
(* Connection.Write, by any goroutine that has the connection, holds the mutex until the peer *)
(* has read, or the connection is closed; a closed one fails at once.                         *)
Write(c) ==
    /\ ws[c].connected /\ ~ws[c].writing /\ ~ws[c].closed
    /\ ws' = [ws EXCEPT ![c].writing = TRUE]

WriteReturns(c) ==
    /\ ws[c].writing
    /\ ws' = [ws EXCEPT ![c].writing = FALSE]

-----------------------------------------------------------------------------
SessionStep(c) ==
    \/ OpenClient(c) \/ OpenClientFails(c)
    \/ HandleMessage(c) \/ HandlingEnds(c)
    \/ CloseClient(c) \/ CloseConnection(c) \/ Unwatch(c)

FrameStep(c) == ReadFails(c) \/ Send(c)

WatcherStep(c) == WatcherCancels(c) \/ WatcherCloses(c) \/ WatcherLeaves(c)

PeerStep(c) ==
    NextReader(c) \/ NextReaderFails(c) \/ ReadChunk(c) \/ Write(c) \/ WriteReturns(c)

WSNext(c) == SessionStep(c) \/ FrameStep(c) \/ WatcherStep(c) \/ PeerStep(c)

(* A connected client gets exactly one OnClose, after its last message (server.go             *)
(* handleConnection's defers); and while the server runs a connection has one reader: the     *)
(* next message is asked for only when protocol.Read has done with the last.                  *)
SessionsAreOrderly ==
    \A c \in Peers :
        /\ (At(c, "over") => ws[c].onClose = IF ws[c].connected THEN 1 ELSE 0)
        /\ (ws[c].raced => done)

(* A shutdown of the HTTP server ends every session, even one that a Write is stuck in        *)
(* (server.go watchDone).                                                                     *)
SessionsEnd == \A c \in Peers : done ~> (At(c, "none") \/ At(c, "over"))
=============================================================================
