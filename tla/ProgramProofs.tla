---------------------------- MODULE ProgramProofs ----------------------------
(***************************************************************************)
(* Proofs about the parts that MCProgram runs.                             *)
(*                                                                         *)
(* The services of a program and its websocket sessions: a session ends in *)
(* order (SessionsAreOrderly), and a service that was stopped has stopped  *)
(* (StoppedMeansStopped), for any clients, services and names.             *)
(*                                                                         *)
(* The caches and the preloader: what they answer was stored recently      *)
(* enough (AnswersAreFresh), and only the deletion of an expired entry can *)
(* race in the map (MapRacesOnlyOnExpiry), for any number of goroutines,   *)
(* any lifetime of a value and any length of time.                         *)
(*                                                                         *)
(* The Runs of a flow engine: the responses say what happened              *)
(* (ResponsesTellTruth), and no output of a command is lost                *)
(* (OutputIsKept), for any actions, environments and number of Runs.       *)
(*                                                                         *)
(* The generator and the handlers it writes: a run that succeeds leaves    *)
(* what a run from nothing would (SuccessIsCurrent), a dao file that was   *)
(* edited survives (HandWrittenSurvives), the document refers to nothing   *)
(* it does not hold (SpecIsClosed), "try to run gen again" helps           *)
(* (RunAgainHelps), and the handlers keep what they promise                *)
(* (HandlerKeepsPromises), for any sources, requests, runs and failures.   *)
(***************************************************************************)
EXTENDS Services, Caches, Flow, Gen, TLAPS,
        FiniteSetTheorems, SequenceTheorems, WellFoundedInduction

(* The services without their fairness. *)
ServicesSpec == ServicesInit /\ [][ServicesNext]_servicesVars

Sessions ==
    [pc : {"none", "opening", "reading", "handling", "leaving", "closing", "unwatching", "over"},
     ctx : BOOLEAN, closed : BOOLEAN, watcher : {"none", "armed", "fired", "gone"},
     disarmed : BOOLEAN, frame : {"none", "reading", "sending", "ended"}, queue : 0 .. 1,
     writing : BOOLEAN, connected : BOOLEAN, onClose : 0 .. 1, raced : BOOLEAN]

StopStages == {"called", "connected", "draining", "stopped", "failed"}

ServicesTypeOK ==
    /\ main \in {"waiting", "interrupted", "stopping", "done"}
    /\ stop \in [DOMAIN stop -> StopStages]
    /\ serving \in {"none", "binding", "serving", "sending", "ended"}
    /\ connected \in BOOLEAN /\ bound \in BOOLEAN /\ request \in BOOLEAN
    /\ wasBound \in BOOLEAN /\ stopErr \in BOOLEAN /\ done \in BOOLEAN
    /\ listen \in {"off", "listening", "returned"}
    /\ ws \in [Peers -> Sessions]

-----------------------------------------------------------------------------
(* The inductive invariants. *)

(* OnClose is owed from a successful OnConnect until CloseClient. *)
OwedClose(s) ==
    /\ s.pc \in {"none", "opening"} => ~s.connected /\ s.onClose = 0 /\ s.frame = "none"
    /\ s.pc \in {"reading", "handling", "leaving"} => s.connected /\ s.onClose = 0
    /\ s.pc \in {"closing", "unwatching", "over"} => s.onClose = IF s.connected THEN 1 ELSE 0

(* Before the end of the session only a shutdown ends its context, and only then does the    *)
(* session ask for a message while the last is still being read.                             *)
OneReader(s) ==
    /\ s.ctx => done \/ s.pc = "over"
    /\ s.pc = "reading" /\ s.frame \in {"reading", "sending"} => done
    /\ s.raced => done

SessionInv == \A c \in Peers : OwedClose(ws[c]) /\ OneReader(ws[c])

(* The listener is open only while the server is served, which makes it connected. *)
ServingInv ==
    /\ serving # "none" => connected /\ listen # "off"
    /\ bound => serving = "serving"
    /\ wasBound => serving \notin {"none", "binding"}

(* Until the Stop of an open server has returned, one of the goroutines of Shutdown still    *)
(* has to close it, or to wait for its requests.                                             *)
StopInv ==
    /\ main \in {"waiting", "interrupted"} => ~wasBound /\ DOMAIN stop = {}
    /\ main = "done" => AllStopped
    /\ wasBound /\ bound => \E name \in DOMAIN stop : stop[name] = "connected"
    /\ wasBound /\ ~bound =>
          stopErr \/ ~request \/ \E name \in DOMAIN stop : stop[name] = "draining"

ServicesIInv == ServicesTypeOK /\ SessionInv /\ ServingInv /\ StopInv

-----------------------------------------------------------------------------
(* The sessions *)

Orderly(c) == ws[c] \in Sessions /\ OwedClose(ws[c]) /\ OneReader(ws[c])

\* A step of a session changes that session alone.
LEMMA OneSession ==
    ASSUME NEW c \in Peers, Upgrade(c) \/ WSNext(c), ws \in [Peers -> Sessions]
    PROVE  /\ \A d \in Peers : d # c => ws'[d] = ws[d]
           /\ ws' = [d \in Peers |-> ws'[d]]
BY DEF WSNext, SessionStep, FrameStep, WatcherStep, PeerStep, Upgrade, OpenClient, OpenClientFails,
       HandleMessage, HandlingEnds, CloseClient, CloseConnection, Unwatch, ReadFails, Send,
       WatcherCancels, WatcherCloses, WatcherLeaves, NextReader, NextReaderFails, ReadChunk,
       Write, WriteReturns

\* Whatever the session, its goroutines and its peer do, it stays orderly.
LEMMA OrderlyStep ==
    ASSUME NEW c \in Peers, Upgrade(c) \/ WSNext(c), UNCHANGED done,
           ws \in [Peers -> Sessions], Orderly(c)
    PROVE  Orderly(c)'
<1> USE DEF Orderly, OwedClose, OneReader, Sessions
<1>1. Upgrade(c) => Orderly(c)'
  <2> SUFFICES ASSUME Upgrade(c) PROVE Orderly(c)'
    OBVIOUS
  <2>1. ws'[c] = [ws[c] EXCEPT !.pc = "opening", !.watcher = "armed"]
    BY DEF Upgrade
  <2>2. ws'[c] \in Sessions
    BY <2>1
  <2>3. OwedClose(ws[c])' /\ OneReader(ws[c])'
    BY <2>1 DEF Upgrade, At
  <2>4. QED
    BY <2>2, <2>3
<1>2. OpenClient(c) => Orderly(c)'
  BY DEF OpenClient, At
<1>3. OpenClientFails(c) => Orderly(c)'
  BY DEF OpenClientFails, At
<1>4. HandleMessage(c) => Orderly(c)'
  BY DEF HandleMessage, At
<1>5. HandlingEnds(c) => Orderly(c)'
  BY DEF HandlingEnds, At, MessagesEnd
<1>6. CloseClient(c) => Orderly(c)'
  BY DEF CloseClient, At
<1>7. CloseConnection(c) => Orderly(c)'
  <2> SUFFICES ASSUME CloseConnection(c) PROVE Orderly(c)'
    OBVIOUS
  <2>1. ws'[c] = [ws[c] EXCEPT !.pc = "unwatching", !.closed = TRUE]
    BY DEF CloseConnection
  <2>2. ws'[c] \in Sessions
    BY <2>1
  <2>3. OwedClose(ws[c])' /\ OneReader(ws[c])'
    BY <2>1 DEF CloseConnection, At
  <2>4. QED
    BY <2>2, <2>3
<1>8. Unwatch(c) => Orderly(c)'
  <2> SUFFICES ASSUME Unwatch(c) PROVE Orderly(c)'
    OBVIOUS
  <2>1. ws'[c] = [ws[c] EXCEPT !.pc = "over", !.disarmed = TRUE, !.ctx = TRUE]
    BY DEF Unwatch
  <2>2. ws'[c] \in Sessions
    BY <2>1
  <2>3. OwedClose(ws[c])' /\ OneReader(ws[c])'
    BY <2>1 DEF Unwatch, At
  <2>4. QED
    BY <2>2, <2>3
<1>9. ReadFails(c) => Orderly(c)'
  BY DEF ReadFails, At
<1>10. Send(c) => Orderly(c)'
  BY DEF Send, At
<1>11. WatcherCancels(c) => Orderly(c)'
  <2> SUFFICES ASSUME WatcherCancels(c) PROVE Orderly(c)'
    OBVIOUS
  <2>1. ws'[c] = [ws[c] EXCEPT !.watcher = "fired", !.ctx = TRUE]
    BY DEF WatcherCancels
  <2>2. ws'[c] \in Sessions
    BY <2>1
  <2>3. OwedClose(ws[c])' /\ OneReader(ws[c])'
    BY <2>1 DEF WatcherCancels, At
  <2>4. QED
    BY <2>2, <2>3
<1>12. WatcherCloses(c) => Orderly(c)'
  <2> SUFFICES ASSUME WatcherCloses(c) PROVE Orderly(c)'
    OBVIOUS
  <2>1. ws'[c] = [ws[c] EXCEPT !.watcher = "gone", !.closed = TRUE]
    BY DEF WatcherCloses
  <2>2. ws'[c] \in Sessions
    BY <2>1
  <2>3. OwedClose(ws[c])' /\ OneReader(ws[c])'
    BY <2>1 DEF WatcherCloses, At
  <2>4. QED
    BY <2>2, <2>3
<1>13. WatcherLeaves(c) => Orderly(c)'
  BY DEF WatcherLeaves, At
<1>14. NextReader(c) => Orderly(c)'
  <2> SUFFICES ASSUME NextReader(c) PROVE Orderly(c)'
    OBVIOUS
  <2> DEFINE fr == IF ws[c].ctx THEN "ended" ELSE "reading"
             ra == ws[c].raced \/ ws[c].frame = "reading"
  <2>1. ws'[c] = [ws[c] EXCEPT !.pc = "handling", !.queue = 0, !.frame = fr, !.raced = ra]
    BY DEF NextReader
  <2>2. fr \in {"reading", "ended"} /\ (ra = TRUE \/ ra = FALSE)
    OBVIOUS
  <2>3. ws'[c] \in Sessions
    <3> HIDE DEF fr, ra, Sessions
    <3>1. \A s \in Sessions : [s EXCEPT !.pc = "handling"] \in Sessions
      BY DEF Sessions
    <3>2. \A s \in Sessions : [s EXCEPT !.queue = 0] \in Sessions
      BY DEF Sessions
    <3>3. \A s \in Sessions : [s EXCEPT !.frame = fr] \in Sessions
      BY <2>2 DEF Sessions
    <3>4. \A s \in Sessions : [s EXCEPT !.raced = ra] \in Sessions
      BY <2>2 DEF Sessions
    <3> DEFINE s1 == [ws[c] EXCEPT !.pc = "handling"]
               s2 == [s1 EXCEPT !.queue = 0]
               s3 == [s2 EXCEPT !.frame = fr]
    <3>5. s1 \in Sessions /\ ws'[c] = [s3 EXCEPT !.raced = ra]
      BY <2>1, <3>1
    <3>6. s2 \in Sessions
      BY <3>2, <3>5
    <3>7. s3 \in Sessions
      BY <3>3, <3>6
    <3>8. QED
      BY <3>4, <3>5, <3>7
  <2>4. OwedClose(ws[c])' /\ OneReader(ws[c])'
    BY <2>1 DEF NextReader, At
  <2>5. QED
    BY <2>3, <2>4
<1>15. NextReaderFails(c) => Orderly(c)'
  BY DEF NextReaderFails, At
<1>16. ReadChunk(c) => Orderly(c)'
  BY DEF ReadChunk, At
<1>17. Write(c) => Orderly(c)'
  <2> SUFFICES ASSUME Write(c) PROVE Orderly(c)'
    OBVIOUS
  <2>1. ws'[c] = [ws[c] EXCEPT !.writing = TRUE]
    BY DEF Write
  <2>2. ws'[c] \in Sessions
    BY <2>1
  <2>3. OwedClose(ws[c])' /\ OneReader(ws[c])'
    BY <2>1 DEF Write, At
  <2>4. QED
    BY <2>2, <2>3
<1>18. WriteReturns(c) => Orderly(c)'
  <2> SUFFICES ASSUME WriteReturns(c) PROVE Orderly(c)'
    OBVIOUS
  <2>1. ws'[c] = [ws[c] EXCEPT !.writing = FALSE]
    BY DEF WriteReturns
  <2>2. ws'[c] \in Sessions
    BY <2>1
  <2>3. OwedClose(ws[c])' /\ OneReader(ws[c])'
    BY <2>1 DEF WriteReturns, At
  <2>4. QED
    BY <2>2, <2>3
<1>19. QED
  BY <1>1, <1>2, <1>3, <1>4, <1>5, <1>6, <1>7, <1>8, <1>9, <1>10, <1>11, <1>12, <1>13, <1>14, <1>15, <1>16, <1>17, <1>18 DEF WSNext, SessionStep, FrameStep, WatcherStep, PeerStep

\* The step of one session keeps all of them orderly.
LEMMA SessionStepInv ==
    ASSUME NEW c \in Peers, Upgrade(c) \/ WSNext(c), UNCHANGED done,
           ws \in [Peers -> Sessions], SessionInv
    PROVE  ws' \in [Peers -> Sessions] /\ SessionInv'
<1>1. /\ \A d \in Peers : d # c => ws'[d] = ws[d]
      /\ ws' = [d \in Peers |-> ws'[d]]
  BY OneSession
<1>2. \A d \in Peers : Orderly(d)
  BY DEF Orderly, SessionInv
<1>3. Orderly(c)'
  BY <1>2, OrderlyStep
<1>4. \A d \in Peers : Orderly(d)'
  <2> SUFFICES ASSUME NEW d \in Peers, d # c PROVE Orderly(d)'
    BY <1>3
  <2> QED
    BY <1>1, <1>2 DEF Orderly, OwedClose, OneReader
<1>5. QED
  BY <1>1, <1>4 DEF Orderly, SessionInv

\* What leaves the sessions alone, or closes `done`, keeps them orderly.
LEMMA SessionsStay ==
    ASSUME UNCHANGED ws, done => done', SessionInv
    PROVE  SessionInv'
BY DEF SessionInv, OwedClose, OneReader

-----------------------------------------------------------------------------
(* control_flow *)

LEMMA ControlFlowIInv ==
    ServicesIInv /\ (\/ RegisterShutdownService \/ Cancel \/ WaitForInterrupt
             \/ Shutdown \/ ShutdownReturns) => ServicesIInv'
<1> SUFFICES ASSUME ServicesIInv,
                    \/ RegisterShutdownService \/ Cancel \/ WaitForInterrupt
                    \/ Shutdown \/ ShutdownReturns
             PROVE  ServicesIInv'
  OBVIOUS
<1> USE DEF RegisterShutdownService, Cancel, WaitForInterrupt, Shutdown, ShutdownReturns, httpVars
<1>1. ServicesTypeOK'
  BY DEF ServicesIInv, ServicesTypeOK, StopStages
<1>2. SessionInv'
  BY SessionsStay DEF ServicesIInv
<1>3. ServingInv'
  BY DEF ServicesIInv, ServingInv
<1>4. StopInv'
  <2>1. CASE Shutdown
    BY <2>1 DEF ServicesIInv, StopInv
  <2>2. CASE ~Shutdown
    BY <2>2 DEF ServicesIInv, ServicesTypeOK, StopInv, AllStopped
  <2>3. QED
    BY <2>1, <2>2
<1>5. QED
  BY <1>1, <1>2, <1>3, <1>4 DEF ServicesIInv

-----------------------------------------------------------------------------
(* The goroutines of Shutdown *)

\* A goroutine that has work left: Shutdown has begun and not returned.
LEMMA StillStopping ==
    ASSUME ServicesIInv, NEW name \in DOMAIN stop, stop[name] \in {"called", "connected", "draining"}
    PROVE  main = "stopping"
BY DEF ServicesIInv, ServicesTypeOK, StopInv, AllStopped

LEMMA StopServiceIInv ==
    ASSUME ServicesIInv, NEW name, StopService(name)
    PROVE  ServicesIInv'
<1> USE DEF StopService, cfVars, httpVars
<1>1. main = "stopping"
  BY StillStopping
<1>2. ServicesTypeOK'
  BY DEF ServicesIInv, ServicesTypeOK, StopStages
<1>3. SessionInv'
  BY SessionsStay DEF ServicesIInv
<1>4. ServingInv'
  BY DEF ServicesIInv, ServingInv
<1>5. StopInv'
  BY <1>1 DEF ServicesIInv, ServicesTypeOK, StopInv
<1>6. QED
  BY <1>2, <1>3, <1>4, <1>5 DEF ServicesIInv

\* Stop of a server that is open finds it connected.
LEMMA HttpStopIInv ==
    ASSUME ServicesIInv, NEW name, HttpStop(name)
    PROVE  ServicesIInv'
<1> USE DEF HttpStop, cfVars
<1>1. main = "stopping"
  BY StillStopping
<1>2. bound => connected
  BY DEF ServicesIInv, ServingInv
<1>3. ServicesTypeOK'
  BY DEF ServicesIInv, ServicesTypeOK, StopStages
<1>4. SessionInv'
  BY SessionsStay DEF ServicesIInv
<1>5. ServingInv'
  BY DEF ServicesIInv, ServingInv
<1>6. StopInv'
  BY <1>1, <1>2 DEF ServicesIInv, ServicesTypeOK, StopInv
<1>7. QED
  BY <1>3, <1>4, <1>5, <1>6 DEF ServicesIInv

\* The listener is closed by the goroutine that then waits for the requests.
LEMMA HttpShutdownIInv ==
    ASSUME ServicesIInv, NEW name, HttpShutdown(name)
    PROVE  ServicesIInv'
<1> USE DEF HttpShutdown, cfVars
<1>1. main = "stopping"
  BY StillStopping
<1>2. ServicesTypeOK'
  BY DEF ServicesIInv, ServicesTypeOK, StopStages
<1>3. SessionInv'
  BY SessionsStay DEF ServicesIInv
<1>4. ServingInv'
  BY DEF ServicesIInv, ServingInv
<1>5. StopInv'
  BY <1>1 DEF ServicesIInv, ServicesTypeOK, StopInv
<1>6. QED
  BY <1>2, <1>3, <1>4, <1>5 DEF ServicesIInv

LEMMA HttpDrainedIInv ==
    ASSUME ServicesIInv, NEW name, HttpDrained(name)
    PROVE  ServicesIInv'
<1> USE DEF HttpDrained, cfVars
<1>1. main = "stopping"
  BY StillStopping
<1>2. ServicesTypeOK'
  BY DEF ServicesIInv, ServicesTypeOK, StopStages
<1>3. SessionInv'
  BY SessionsStay DEF ServicesIInv
<1>4. ServingInv'
  BY DEF ServicesIInv, ServingInv
<1>5. StopInv'
  BY <1>1 DEF ServicesIInv, ServicesTypeOK, StopInv
<1>6. QED
  BY <1>2, <1>3, <1>4, <1>5 DEF ServicesIInv

-----------------------------------------------------------------------------
(* The server, its clients and the sessions *)

LEMMA ServerIInv ==
    ASSUME ServicesIInv, ListenAndServe \/ ListenReturns \/ Serve \/ Request
    PROVE  ServicesIInv'
<1> USE DEF ListenAndServe, ListenReturns, KeepConnected, Serve, Request, cfVars
<1>1. ServicesTypeOK'
  BY DEF ServicesIInv, ServicesTypeOK
<1>2. SessionInv'
  BY SessionsStay DEF ServicesIInv
<1>3. ServingInv'
  BY DEF ServicesIInv, ServicesTypeOK, ServingInv
<1>4. StopInv'
  BY DEF ServicesIInv, ServicesTypeOK, ServingInv, StopInv, AllStopped
<1>5. QED
  BY <1>1, <1>2, <1>3, <1>4 DEF ServicesIInv

LEMMA SessionIInv ==
    ASSUME ServicesIInv, NEW c \in Peers, Session(c)
    PROVE  ServicesIInv'
<1>1. /\ Upgrade(c) \/ WSNext(c)
      /\ UNCHANGED <<scenario, cfVars, stop, httpVars>>
  BY DEF Session, InSession
<1> USE DEF cfVars, httpVars
<1>2. ws' \in [Peers -> Sessions] /\ SessionInv'
  BY <1>1, SessionStepInv DEF ServicesIInv, ServicesTypeOK
<1>3. ServicesTypeOK'
  BY <1>1, <1>2 DEF ServicesIInv, ServicesTypeOK
<1>4. ServingInv' /\ StopInv'
  BY <1>1 DEF ServicesIInv, ServingInv, StopInv, AllStopped
<1>5. QED
  BY <1>2, <1>3, <1>4 DEF ServicesIInv

-----------------------------------------------------------------------------
(* The theorems *)

LEMMA ServicesInitIInv == ServicesInit => ServicesIInv
<1> SUFFICES ASSUME ServicesInit PROVE ServicesIInv
  OBVIOUS
<1> USE DEF ServicesInit, WSInit
<1>1. NoSession \in Sessions
  BY DEF NoSession, Sessions
<1>2. ServicesTypeOK
  <2>1. ws \in [Peers -> Sessions]
    BY <1>1
  <2>2. stop = [name \in {} |-> "called"]
    OBVIOUS
  <2>3. stop \in [DOMAIN stop -> StopStages]
    BY <2>2
  <2>4. QED
    BY <2>1, <2>3 DEF ServicesTypeOK
<1>3. SessionInv
  BY DEF SessionInv, OwedClose, OneReader, NoSession
<1>4. ServingInv /\ StopInv
  BY DEF ServingInv, StopInv
<1>5. QED
  BY <1>2, <1>3, <1>4 DEF ServicesIInv

LEMMA ServicesNextIInv == ServicesIInv /\ [ServicesNext]_servicesVars => ServicesIInv'
<1> SUFFICES ASSUME ServicesIInv, [ServicesNext]_servicesVars PROVE ServicesIInv'
  OBVIOUS
<1>1. CASE \/ RegisterShutdownService \/ Cancel \/ WaitForInterrupt
           \/ Shutdown \/ ShutdownReturns
  BY <1>1, ControlFlowIInv
<1>2. ASSUME NEW name \in Names, StopStep(name) PROVE ServicesIInv'
  BY <1>2, StopServiceIInv, HttpStopIInv, HttpShutdownIInv, HttpDrainedIInv DEF StopStep
<1>3. CASE ListenAndServe \/ ListenReturns \/ Serve \/ Request
  BY <1>3, ServerIInv
<1>4. ASSUME NEW c \in Peers, Session(c) PROVE ServicesIInv'
  BY <1>4, SessionIInv
<1>5. CASE UNCHANGED servicesVars
  BY <1>5 DEF servicesVars, cfVars, httpVars, ServicesIInv, ServicesTypeOK, SessionInv, OwedClose,
              OneReader, ServingInv, StopInv, AllStopped
<1>6. QED
  BY <1>1, <1>2, <1>3, <1>4, <1>5 DEF ServicesNext

LEMMA ServicesSpecIInv == ServicesSpec => []ServicesIInv
BY ServicesInitIInv, ServicesNextIInv, PTL DEF ServicesSpec

(* Every client that connected gets exactly one OnClose, and before a shutdown a connection   *)
(* has one reader (net/websocket/server.go, handleConnection), for any number of clients.     *)
THEOREM SessionsOrderly == ServicesSpec => []SessionsAreOrderly
<1>1. ServicesIInv => SessionsAreOrderly
  BY DEF ServicesIInv, SessionInv, OwedClose, OneReader, SessionsAreOrderly, At
<1>2. QED
  BY <1>1, ServicesSpecIInv, PTL

(* When Shutdown has returned, every service it found has been stopped, and an HTTP server    *)
(* that was open is closed and has answered its requests or said that it has not              *)
(* (control_flow and http/server.go, Stop), for any services under any names.                 *)
THEOREM StoppedForGood == ServicesSpec => []StoppedMeansStopped
<1>1. ServicesIInv => StoppedMeansStopped
  BY DEF ServicesIInv, StopInv, AllStopped, StoppedMeansStopped
<1>2. QED
  BY <1>1, ServicesSpecIInv, PTL

-----------------------------------------------------------------------------
(* The caches and the preloader. *)

CachesSpec == CachesInit /\ [][CachesNext]_cachesVars

CacheStages == {"has", "get", "set", "delete"}
WritingStages == {"store", "stamp"}

UserStates ==
    [op : {"none", "proxy", "get", "set", "delete", "value", "refresh"},
     stage : {"idle", "answered", "load", "look", "wait", "take"} \cup CacheStages \cup WritingStages,
     lock : {"out", "in", "deleting"},
     val : Nat, err : BOOLEAN, vanished : BOOLEAN, raced : BOOLEAN, began : Nat, calls : Nat]

CachesTypeOK ==
    /\ kept \in {"memory", "redis", "preloader"}
    /\ now \in Nat \ {0} /\ source \in Nat
    /\ entry \in [val : Nat, expires : Nat]
    /\ current \in [val : Nat, old : Nat]
    /\ refreshed \in Int
    /\ loader \in Users \cup {0}
    /\ users \in [Users -> UserStates]
    /\ stores \subseteq [val : Nat, at : Nat]
    /\ crashed \in {"no", "expiry", "other"}

-----------------------------------------------------------------------------
(* The inductive invariant. *)

(* An entry was stored one lifetime before it expires. *)
EntryStored ==
    entry.val # 0 => \E w \in stores : w.val = entry.val /\ w.at + TTL = entry.expires

(* The mutex of the preloader: one goroutine loads, stores and stamps at a time. *)
LoaderInv(u) ==
    /\ users[u].stage \in CacheStages => kept # "preloader"
    /\ users[u].stage \in WritingStages => loader = u
    /\ kept = "preloader" /\ users[u].stage = "load" => loader = u
    /\ users[u].stage = "stamp" => current.val = users[u].val
    /\ users[u].lock # "out" => users[u].stage \in CacheStages
    /\ users[u].stage = "delete" => users[u].op \notin Judged

(* Outside a Refresh the preloader's value and its time belong together. *)
CurrentStored == \E w \in stores : w.val = current.val /\ w.at = refreshed
CurrentInv == Writing \/ refreshed = -TTL - 1 \/ CurrentStored

(* A goroutine that found the value young takes it before the next Refresh writes, or is one *)
(* that raced with it.                                                                       *)
TakeInv(u) ==
    /\ users[u].began <= now
    /\ users[u].stage \in {"look", "take"} => users[u].op = "value"
    /\ users[u].stage = "take" /\ ~users[u].raced =>
          ~Writing /\ CurrentStored /\ refreshed + TTL >= users[u].began

Fresh(u) ==
    (Stage(u, "answered") /\ ~users[u].err /\ ~users[u].raced) =>
        \/ users[u].vanished /\ users[u].val = 0
        \/ \E w \in stores : w.val = users[u].val /\ w.at + TTL >= users[u].began

UserInv(u) == LoaderInv(u) /\ TakeInv(u) /\ Fresh(u)

CachesIInv ==
    /\ CachesTypeOK
    /\ EntryStored
    /\ CurrentInv
    /\ \A u \in Users : UserInv(u)
    /\ crashed # "other"

-----------------------------------------------------------------------------
(* The records of the goroutines *)

LEMMA FieldUpdates ==
    ASSUME NEW r \in UserStates
    PROVE  /\ \A x \in {"idle", "answered", "load", "look", "wait", "take"}
                      \cup CacheStages \cup WritingStages :
                 [r EXCEPT !.stage = x] \in UserStates
           /\ \A x \in {"none", "proxy", "get", "set", "delete", "value", "refresh"} :
                 [r EXCEPT !.op = x] \in UserStates
           /\ \A x \in {"out", "in", "deleting"} : [r EXCEPT !.lock = x] \in UserStates
           /\ \A x \in Nat : /\ [r EXCEPT !.val = x] \in UserStates
                            /\ [r EXCEPT !.began = x] \in UserStates
                            /\ [r EXCEPT !.calls = x] \in UserStates
           /\ \A x \in BOOLEAN : /\ [r EXCEPT !.err = x] \in UserStates
                                /\ [r EXCEPT !.vanished = x] \in UserStates
                                /\ [r EXCEPT !.raced = x] \in UserStates
<1>1. \A x \in {"idle", "answered", "load", "look", "wait", "take"}
              \cup CacheStages \cup WritingStages :
         [r EXCEPT !.stage = x] \in UserStates
  BY DEF UserStates
<1>2. \A x \in {"none", "proxy", "get", "set", "delete", "value", "refresh"} :
         [r EXCEPT !.op = x] \in UserStates
  BY DEF UserStates
<1>3. \A x \in {"out", "in", "deleting"} : [r EXCEPT !.lock = x] \in UserStates
  BY DEF UserStates
<1>4. \A x \in Nat : [r EXCEPT !.val = x] \in UserStates
  BY DEF UserStates
<1>5. \A x \in Nat : [r EXCEPT !.began = x] \in UserStates
  BY DEF UserStates
<1>6. \A x \in Nat : [r EXCEPT !.calls = x] \in UserStates
  BY DEF UserStates
<1>7. \A x \in BOOLEAN : [r EXCEPT !.err = x] \in UserStates
  BY DEF UserStates
<1>8. \A x \in BOOLEAN : [r EXCEPT !.vanished = x] \in UserStates
  BY DEF UserStates
<1>9. \A x \in BOOLEAN : [r EXCEPT !.raced = x] \in UserStates
  BY DEF UserStates
<1>10. QED
  BY <1>1, <1>2, <1>3, <1>4, <1>5, <1>6, <1>7, <1>8, <1>9

LEMMA IdleState == Idle \in UserStates
BY DEF Idle, UserStates

\* What a call that returns leaves behind.
LEMMA Returned ==
    ASSUME users \in [Users -> UserStates], NEW u \in Users,
           NEW val \in Nat, NEW err \in BOOLEAN, NEW vanished \in BOOLEAN,
           ReturnWith(u, val, err, vanished)
    PROVE  /\ users' \in [Users -> UserStates]
           /\ \A v \in Users : v # u => users'[v] = users[v]
           /\ users'[u].stage \in {"idle", "answered"} /\ users'[u].lock = "out"
           /\ users'[u].began \in {0, users[u].began}
           /\ users'[u].stage = "answered" =>
                 /\ users'[u].val = val /\ users'[u].err = err
                 /\ users'[u].vanished = vanished
                 /\ users'[u].raced = users[u].raced
                 /\ users'[u].began = users[u].began
                 /\ users[u].op \in Judged
<1> DEFINE r == users[u]
           a1 == [r EXCEPT !.stage = "answered"]
           a2 == [a1 EXCEPT !.lock = "out"]
           a3 == [a2 EXCEPT !.val = val]
           a4 == [a3 EXCEPT !.err = err]
           a == [r EXCEPT !.stage = "answered", !.lock = "out", !.val = val, !.err = err,
                          !.vanished = vanished]
           b == [Idle EXCEPT !.calls = r.calls]
<1>1. r \in UserStates /\ r.calls \in Nat
  BY DEF UserStates
<1>2. a \in UserStates
  <2>1. a1 \in UserStates
    BY <1>1, FieldUpdates
  <2>2. a2 \in UserStates
    BY <2>1, FieldUpdates
  <2>3. a3 \in UserStates
    BY <2>2, FieldUpdates
  <2>4. a4 \in UserStates
    BY <2>3, FieldUpdates
  <2>5. [a4 EXCEPT !.vanished = vanished] \in UserStates
    BY <2>4, FieldUpdates
  <2>6. QED
    BY <2>5
<1>3. b \in UserStates
  BY <1>1, IdleState, FieldUpdates
<1>4. /\ (users'[u] = a /\ users[u].op \in Judged) \/ users'[u] = b
      /\ users' = [users EXCEPT ![u] = users'[u]]
  BY DEF ReturnWith
<1>5. /\ a.stage = "answered" /\ a.lock = "out" /\ a.began = r.began
      /\ a.val = val /\ a.err = err /\ a.vanished = vanished /\ a.raced = r.raced
  BY <1>1 DEF UserStates
<1>6. b.stage = "idle" /\ b.lock = "out" /\ b.began = 0
  BY DEF Idle
<1>7. QED
  <2> HIDE DEF a, b
  <2> QED
    BY <1>2, <1>3, <1>4, <1>5, <1>6

\* What a call that begins looks like.
LEMMA Begun ==
    ASSUME CachesTypeOK, NEW u \in Users,
           NEW op \in {"proxy", "get", "set", "delete", "value", "refresh"},
           NEW stage \in CacheStages \cup {"look", "wait"},
           BeginCall(u, op, stage)
    PROVE  /\ users' \in [Users -> UserStates]
           /\ \A v \in Users : v # u => users'[v] = users[v]
           /\ users[u].stage \in {"idle", "answered"}
           /\ users'[u].stage = stage /\ users'[u].op = op /\ users'[u].lock = "out"
           /\ users'[u].began <= now
<1> DEFINE t == IF op \in Judged THEN now ELSE 0
           n == users[u].calls + 1
           a1 == [Idle EXCEPT !.op = op]
           a2 == [a1 EXCEPT !.stage = stage]
           a3 == [a2 EXCEPT !.calls = n]
           a == [Idle EXCEPT !.op = op, !.stage = stage, !.calls = n, !.began = t]
<1>1. n \in Nat
  <2>1. users[u].calls \in Nat
    BY DEF CachesTypeOK, UserStates
  <2>2. QED
    BY <2>1
<1>2. t \in Nat /\ t <= now
  BY DEF CachesTypeOK
<1> HIDE DEF n, t
<1>3. a \in UserStates
  <2>1. a1 \in UserStates
    BY IdleState, FieldUpdates
  <2>2. a2 \in UserStates
    BY <2>1, FieldUpdates
  <2>3. a3 \in UserStates
    BY <1>1, <2>2, FieldUpdates
  <2>4. [a3 EXCEPT !.began = t] \in UserStates
    BY <1>2, <2>3, FieldUpdates
  <2>5. QED
    BY <2>4
<1>4. a.stage = stage /\ a.op = op /\ a.lock = "out" /\ a.began = t
  BY DEF Idle
<1>5. users[u].stage \in {"idle", "answered"} /\ users' = [users EXCEPT ![u] = a]
  BY DEF BeginCall, n, t
<1>6. QED
  <2> HIDE DEF a
  <2> QED
    BY <1>2, <1>3, <1>4, <1>5 DEF CachesTypeOK

-----------------------------------------------------------------------------
(* A step of one goroutine that does not write for the preloader *)

LEMMA OneUserStep ==
    ASSUME CachesIInv, NEW u \in Users,
           \A v \in Users : v # u => users'[v] = users[v],
           users[u].stage \notin WritingStages, users'[u].stage \notin WritingStages,
           UNCHANGED <<kept, now, current, refreshed, loader>>, stores \subseteq stores',
           UserInv(u)'
    PROVE  CurrentInv' /\ \A v \in Users : UserInv(v)'
<1>1. Writing' <=> Writing
  BY DEF Writing, WritingStages
<1>2. CurrentStored => CurrentStored'
  BY DEF CurrentStored
<1>3. CurrentInv'
  BY <1>1, <1>2 DEF CachesIInv, CurrentInv
<1>4. ASSUME NEW v \in Users, v # u PROVE UserInv(v)'
  <2>1. users'[v] = users[v] /\ UserInv(v)
    BY <1>4 DEF CachesIInv
  <2>2. LoaderInv(v)'
    BY <2>1 DEF UserInv, LoaderInv
  <2>3. TakeInv(v)'
    BY <1>1, <1>2, <2>1 DEF UserInv, TakeInv
  <2>4. Fresh(v)'
    BY <2>1 DEF UserInv, Fresh, Stage
  <2>5. QED
    BY <2>2, <2>3, <2>4 DEF UserInv
<1>5. QED
  BY <1>3, <1>4

\* A call that begins.
LEMMA BeginIInv ==
    ASSUME CachesIInv, NEW u \in Users,
           NEW op \in {"proxy", "get", "set", "delete", "value", "refresh"},
           NEW stage \in CacheStages \cup {"look", "wait"},
           BeginCall(u, op, stage),
           stage \in CacheStages => kept # "preloader",
           stage = "look" => op = "value",
           stage = "delete" => op = "delete",
           UNCHANGED <<kept, now, source, entry, current, refreshed, loader, stores, crashed>>
    PROVE  CachesIInv'
<1>1. /\ users' \in [Users -> UserStates]
      /\ \A v \in Users : v # u => users'[v] = users[v]
      /\ users[u].stage \in {"idle", "answered"}
      /\ users'[u].stage = stage /\ users'[u].op = op /\ users'[u].lock = "out"
      /\ users'[u].began <= now
  BY Begun DEF CachesIInv
<1>2. CachesTypeOK' /\ EntryStored'
  BY <1>1 DEF CachesIInv, CachesTypeOK, EntryStored
<1>3. UserInv(u)'
  <2>1. LoaderInv(u)'
    BY <1>1 DEF LoaderInv, CacheStages, WritingStages, Judged
  <2>2. TakeInv(u)'
    BY <1>1 DEF TakeInv, CacheStages
  <2>3. Fresh(u)'
    BY <1>1 DEF Fresh, Stage, CacheStages
  <2>4. QED
    BY <2>1, <2>2, <2>3 DEF UserInv
<1>4. CurrentInv' /\ \A v \in Users : UserInv(v)'
  BY <1>1, <1>3, OneUserStep DEF WritingStages, CacheStages
<1>5. QED
  BY <1>2, <1>4 DEF CachesIInv

\* A call that returns with an error, with the default or with a value that is fresh.
LEMMA ReturnInv ==
    ASSUME CachesIInv, NEW u \in Users,
           NEW val \in Nat, NEW err \in BOOLEAN, NEW vanished \in BOOLEAN,
           ReturnWith(u, val, err, vanished),
           UNCHANGED now,
           \/ err \/ users[u].raced \/ users[u].op \notin Judged
           \/ vanished /\ val = 0
           \/ \E w \in stores' : w.val = val /\ w.at + TTL >= users[u].began
    PROVE  /\ users' \in [Users -> UserStates]
           /\ \A v \in Users : v # u => users'[v] = users[v]
           /\ users'[u].stage \in {"idle", "answered"}
           /\ UserInv(u)'
<1>1. users \in [Users -> UserStates] /\ now \in Nat /\ users[u].began <= now
  BY DEF CachesIInv, CachesTypeOK, UserInv, TakeInv
<1>2. /\ users' \in [Users -> UserStates]
      /\ \A v \in Users : v # u => users'[v] = users[v]
      /\ users'[u].stage \in {"idle", "answered"} /\ users'[u].lock = "out"
      /\ users'[u].began \in {0, users[u].began}
      /\ users'[u].stage = "answered" =>
            /\ users'[u].val = val /\ users'[u].err = err
            /\ users'[u].vanished = vanished
            /\ users'[u].raced = users[u].raced
            /\ users'[u].began = users[u].began
            /\ users[u].op \in Judged
  BY <1>1, Returned
<1>3. LoaderInv(u)'
  BY <1>2 DEF LoaderInv, CacheStages, WritingStages
<1>4. TakeInv(u)'
  BY <1>1, <1>2 DEF TakeInv
<1>5. Fresh(u)'
  <2>1. CASE err \/ users[u].raced \/ users[u].op \notin Judged
    BY <1>2, <2>1 DEF Fresh, Stage
  <2>2. CASE vanished /\ val = 0
    BY <1>2, <2>2 DEF Fresh, Stage
  <2>3. CASE \E w \in stores' : w.val = val /\ w.at + TTL >= users[u].began
    <3>1. PICK w \in stores' : w.val = val /\ w.at + TTL >= users[u].began
      BY <2>3
    <3>2. QED
      BY <1>2, <3>1 DEF Fresh, Stage
  <2>4. QED
    BY <2>1, <2>2, <2>3
<1>6. QED
  BY <1>2, <1>3, <1>4, <1>5 DEF UserInv

\* A step inside a call: the answer is not yet known.
LEMMA OnwardsInv ==
    ASSUME CachesIInv, NEW u \in Users,
           users'[u] \in UserStates,
           users' = [users EXCEPT ![u] = users'[u]],
           users'[u].began = users[u].began, users'[u].op = users[u].op,
           users[u].stage \notin WritingStages,
           users'[u].stage \in CacheStages \cup {"load", "wait"},
           users'[u].stage \in CacheStages => kept # "preloader",
           users'[u].stage = "load" => kept # "preloader",
           users'[u].lock # "out" => users'[u].stage \in CacheStages,
           users'[u].stage = "delete" => users[u].stage = "delete",
           UNCHANGED <<kept, now, source, entry, current, refreshed, loader, stores>>,
           crashed' \in {"no", "expiry"}
    PROVE  CachesIInv'
<1>1. CachesTypeOK' /\ EntryStored' /\ crashed' # "other"
  BY DEF CachesIInv, CachesTypeOK, EntryStored
<1>2. UserInv(u)'
  <2>1. LoaderInv(u)'
    BY DEF CachesIInv, UserInv, LoaderInv, CacheStages, WritingStages
  <2>2. TakeInv(u)'
    BY DEF CachesIInv, UserInv, TakeInv, CacheStages
  <2>3. Fresh(u)'
    BY DEF Fresh, Stage, CacheStages
  <2>4. QED
    BY <2>1, <2>2, <2>3 DEF UserInv
<1>3. CurrentInv' /\ \A v \in Users : UserInv(v)'
  <2>1. \A v \in Users : v # u => users'[v] = users[v]
    BY DEF CachesIInv, CachesTypeOK
  <2>2. users'[u].stage \notin WritingStages
    BY DEF CacheStages, WritingStages
  <2>3. QED
    BY <1>2, <2>1, <2>2, OneUserStep
<1>4. QED
  BY <1>1, <1>3 DEF CachesIInv

-----------------------------------------------------------------------------
(* cache.Impl and cache.ProxyImpl *)

LEMMA CacheCallIInv ==
    ASSUME CachesIInv, NEW u \in Users, CacheCall(u)
    PROVE  CachesIInv'
BY BeginIInv DEF CacheCall, CacheStages

\* Only the deletion of an expired entry finds another goroutine inside.
LEMMA EnterIInv ==
    ASSUME CachesIInv, NEW u \in Users, crashed = "no", Enter(u)
    PROVE  CachesIInv'
<1>1. users[u] \in UserStates /\ UserInv(u)
  BY DEF CachesIInv, CachesTypeOK
<1>2. users' = [users EXCEPT ![u] = [users[u] EXCEPT !.lock = "in"]]
  BY DEF Enter
<1>3. users'[u] = [users[u] EXCEPT !.lock = "in"]
  BY <1>2 DEF CachesIInv, CachesTypeOK
<1>4. users'[u] \in UserStates
  BY <1>1, <1>3, FieldUpdates
<1>5. /\ users'[u].began = users[u].began /\ users'[u].op = users[u].op
      /\ users'[u].stage = users[u].stage
  BY <1>1, <1>3 DEF UserStates
<1>6. users[u].stage \in CacheStages
  BY DEF Enter, CacheStages
<1>7. crashed' \in {"no", "expiry"}
  <2>1. ~(users[u].stage \in {"set", "delete"} /\ Inside # {})
    BY DEF Enter, Reading
  <2>2. QED
    BY <2>1 DEF Enter, Crash
<1>8. QED
  BY <1>1, <1>2, <1>3, <1>4, <1>5, <1>6, <1>7, OnwardsInv
  DEF Enter, UserInv, LoaderInv, CacheStages, WritingStages

\* ReturnInv for a call of a cache.
LEMMA CacheReturn ==
    ASSUME CachesIInv, NEW u \in Users,
           NEW val \in Nat, NEW err \in BOOLEAN, NEW vanished \in BOOLEAN,
           ReturnWith(u, val, err, vanished),
           \/ err \/ users[u].raced \/ users[u].op \notin Judged
           \/ vanished /\ val = 0
           \/ \E w \in stores' : w.val = val /\ w.at + TTL >= users[u].began,
           users[u].stage \notin WritingStages,
           UNCHANGED <<kept, now, source, current, refreshed, loader, crashed>>,
           stores \subseteq stores', stores' \subseteq [val : Nat, at : Nat],
           entry' \in [val : Nat, expires : Nat], EntryStored'
    PROVE  CachesIInv'
<1>1. /\ users' \in [Users -> UserStates]
      /\ \A v \in Users : v # u => users'[v] = users[v]
      /\ users'[u].stage \in {"idle", "answered"}
      /\ UserInv(u)'
  BY ReturnInv
<1>2. CachesTypeOK'
  BY <1>1 DEF CachesIInv, CachesTypeOK
<1>3. CurrentInv' /\ \A v \in Users : UserInv(v)'
  BY <1>1, OneUserStep DEF WritingStages
<1>4. QED
  BY <1>2, <1>3 DEF CachesIInv

LEMMA HasIInv ==
    ASSUME CachesIInv, NEW u \in Users, Has(u)
    PROVE  CachesIInv'
<1>1. users[u] \in UserStates /\ UserInv(u) /\ users[u].stage = "has" /\ kept # "preloader"
  BY DEF CachesIInv, CachesTypeOK, UserInv, LoaderInv, CacheStages, Has, Ready, Stage
<1>2. ASSUME NEW stage \in {"get", "load"}, Go(u, stage) PROVE CachesIInv'
  <2> DEFINE a == [users[u] EXCEPT !.stage = stage]
             b == [a EXCEPT !.lock = "out"]
  <2>1. a \in UserStates
    BY <1>1, FieldUpdates DEF CacheStages
  <2>2. b \in UserStates
    BY <2>1, FieldUpdates
  <2>3. users' = [users EXCEPT ![u] = b]
    BY <1>2 DEF Go
  <2>4. users'[u] = b
    BY <2>3 DEF CachesIInv, CachesTypeOK
  <2>5. b.began = users[u].began /\ b.op = users[u].op /\ b.stage = stage /\ b.lock = "out"
    BY <1>1 DEF UserStates
  <2> HIDE DEF b
  <2>6. UNCHANGED <<kept, now, source, entry, current, refreshed, loader, stores, crashed>>
    BY DEF Has
  <2>7. crashed' \in {"no", "expiry"}
    BY <2>6 DEF CachesIInv, CachesTypeOK
  <2>8. QED
    BY <1>1, <2>2, <2>3, <2>4, <2>5, <2>6, <2>7, OnwardsInv DEF CacheStages, WritingStages
<1>3. ASSUME Answer(u, 0, TRUE) PROVE CachesIInv'
  <2>1. EntryStored'
    BY DEF CachesIInv, EntryStored, Has
  <2>2. QED
    BY <1>1, <1>3, <2>1, CacheReturn DEF Answer, Has, WritingStages, CachesIInv, CachesTypeOK
<1>4. QED
  BY <1>2, <1>3 DEF Has

LEMMA FindsExpiredIInv ==
    ASSUME CachesIInv, NEW u \in Users, crashed = "no", FindsExpired(u)
    PROVE  CachesIInv'
<1>1. users[u] \in UserStates /\ UserInv(u) /\ users[u].stage = "get"
  BY DEF CachesIInv, CachesTypeOK, FindsExpired, Ready, Stage
<1>2. users' = [users EXCEPT ![u] = [users[u] EXCEPT !.lock = "deleting"]]
  BY DEF FindsExpired
<1>3. users'[u] = [users[u] EXCEPT !.lock = "deleting"]
  BY <1>2 DEF CachesIInv, CachesTypeOK
<1>4. users'[u] \in UserStates
  BY <1>1, <1>3, FieldUpdates
<1>5. /\ users'[u].began = users[u].began /\ users'[u].op = users[u].op
      /\ users'[u].stage = users[u].stage
  BY <1>1, <1>3 DEF UserStates
<1>6. crashed' \in {"no", "expiry"}
  BY DEF FindsExpired, Crash
<1>7. QED
  BY <1>1, <1>2, <1>3, <1>4, <1>5, <1>6, OnwardsInv
  DEF FindsExpired, UserInv, LoaderInv, CacheStages, WritingStages

LEMMA DeletesExpiredIInv ==
    ASSUME CachesIInv, NEW u \in Users, DeletesExpired(u)
    PROVE  CachesIInv'
<1>1. users[u].stage \in CacheStages
  BY DEF CachesIInv, UserInv, LoaderInv, DeletesExpired
<1>2. entry' \in [val : Nat, expires : Nat] /\ EntryStored'
  BY DEF DeletesExpired, NoEntry, EntryStored
<1>3. QED
  BY <1>1, <1>2, CacheReturn DEF DeletesExpired, CacheStages, WritingStages, CachesIInv, CachesTypeOK

\* An entry that has not expired was stored less than a lifetime ago.
LEMMA GetIInv ==
    ASSUME CachesIInv, NEW u \in Users, Get(u)
    PROVE  CachesIInv'
<1>1. users[u].stage \notin WritingStages
  BY DEF Get, Ready, Stage, WritingStages
<1>2. EntryStored' /\ entry' \in [val : Nat, expires : Nat] /\ stores' = stores
  BY DEF CachesIInv, CachesTypeOK, EntryStored, Get
<1>3. ASSUME entry.val # 0, ~Expired(entry), Answer(u, entry.val, FALSE) PROVE CachesIInv'
  <2>1. PICK w \in stores : w.val = entry.val /\ w.at + TTL = entry.expires
    BY <1>3 DEF CachesIInv, EntryStored
  <2>2. /\ entry.val \in Nat /\ entry.expires \in Nat /\ now \in Nat
        /\ users[u].began \in Nat /\ users[u].began <= now
    BY DEF CachesIInv, CachesTypeOK, UserStates, UserInv, TakeInv
  <2>3. w.at + TTL >= users[u].began
    BY <1>3, <2>1, <2>2 DEF Expired
  <2>4. QED
    BY <1>1, <1>2, <1>3, <2>1, <2>2, <2>3, CacheReturn DEF Answer, Get, CachesIInv, CachesTypeOK
<1>4. ASSUME ReturnWith(u, 0, FALSE, TRUE) PROVE CachesIInv'
  BY <1>1, <1>2, <1>4, CacheReturn DEF Get, CachesIInv, CachesTypeOK
<1>5. ASSUME Answer(u, 0, TRUE) PROVE CachesIInv'
  BY <1>1, <1>2, <1>5, CacheReturn DEF Answer, Get, CachesIInv, CachesTypeOK
<1>6. QED
  BY <1>3, <1>4, <1>5 DEF Get

LEMMA LoadIInv ==
    ASSUME CachesIInv, NEW u \in Users, Load(u)
    PROVE  CachesIInv'
<1>1. users[u] \in UserStates /\ users[u].stage = "load" /\ kept # "preloader" /\ UserInv(u)
  BY DEF CachesIInv, CachesTypeOK, Load, Stage
<1>2. ASSUME users' = [users EXCEPT ![u].stage = "set", ![u].val = source] PROVE CachesIInv'
  <2> DEFINE a == [users[u] EXCEPT !.stage = "set"]
             b == [a EXCEPT !.val = source]
  <2>1. a \in UserStates
    BY <1>1, FieldUpdates DEF CacheStages
  <2>2. b \in UserStates
    BY <2>1, FieldUpdates DEF CachesIInv, CachesTypeOK
  <2>3. users' = [users EXCEPT ![u] = b]
    BY <1>2
  <2>4. users'[u] = b
    BY <2>3 DEF CachesIInv, CachesTypeOK
  <2>5. b.began = users[u].began /\ b.op = users[u].op /\ b.stage = "set"
    BY <1>1 DEF UserStates
  <2> HIDE DEF b
  <2>6. UNCHANGED <<kept, now, source, entry, current, refreshed, loader, stores, crashed>>
    BY DEF Load
  <2>7. crashed' \in {"no", "expiry"}
    BY <2>6 DEF CachesIInv, CachesTypeOK
  <2>8. QED
    BY <1>1, <2>2, <2>3, <2>4, <2>5, <2>6, <2>7, OnwardsInv DEF CacheStages, WritingStages
<1>3. ASSUME Answer(u, 0, TRUE) PROVE CachesIInv'
  <2>1. EntryStored'
    BY DEF CachesIInv, EntryStored, Load
  <2>2. QED
    BY <1>1, <1>3, <2>1, CacheReturn DEF Answer, Load, WritingStages, CachesIInv, CachesTypeOK
<1>4. QED
  BY <1>2, <1>3 DEF Load

\* What is stored now is fresh for a call that has begun.
LEMMA SetIInv ==
    ASSUME CachesIInv, NEW u \in Users, Set(u)
    PROVE  CachesIInv'
<1> DEFINE val == IF users[u].op = "proxy" THEN users[u].val ELSE source
           w == [val |-> val, at |-> now]
<1>1. users[u].stage \notin WritingStages
  BY DEF Set, Ready, Stage, WritingStages
<1>2. /\ val \in Nat /\ now \in Nat /\ now + TTL \in Nat /\ TTL \in Nat
      /\ users[u].began \in Nat /\ users[u].began <= now
  BY CachesAssumption DEF CachesIInv, CachesTypeOK, UserStates, UserInv, TakeInv
<1>3. ASSUME entry' = [val |-> val, expires |-> now + TTL], stores' = stores \cup {w},
             Answer(u, val, FALSE)
      PROVE  CachesIInv'
  <2> HIDE DEF val
  <2>1. w \in stores' /\ w.val = val /\ w.at = now
    BY <1>3
  <2>2. EntryStored' /\ entry' \in [val : Nat, expires : Nat]
    BY <1>2, <1>3, <2>1 DEF EntryStored
  <2>3. stores \subseteq stores' /\ stores' \subseteq [val : Nat, at : Nat]
    BY <1>2, <1>3 DEF CachesIInv, CachesTypeOK
  <2>4. w.at + TTL >= users[u].began
    BY <1>2, <2>1
  <2>5. QED
    BY <1>1, <1>2, <1>3, <2>1, <2>2, <2>3, <2>4, CacheReturn DEF Answer, Set
<1>4. ASSUME UNCHANGED <<entry, stores>>, Answer(u, 0, TRUE) PROVE CachesIInv'
  <2>1. EntryStored' /\ entry' \in [val : Nat, expires : Nat]
    BY <1>4 DEF CachesIInv, CachesTypeOK, EntryStored
  <2>2. QED
    BY <1>1, <1>4, <2>1, CacheReturn DEF Answer, Set, CachesIInv, CachesTypeOK
<1>5. QED
  BY <1>3, <1>4 DEF Set

LEMMA DeleteIInv ==
    ASSUME CachesIInv, NEW u \in Users, Delete(u)
    PROVE  CachesIInv'
<1>1. users[u].stage = "delete" /\ users[u].op \notin Judged
  BY DEF CachesIInv, UserInv, LoaderInv, Delete, Ready, Stage
<1>2. entry' \in [val : Nat, expires : Nat] /\ EntryStored'
  <2>1. NoEntry \in [val : Nat, expires : Nat] /\ NoEntry.val = 0
    BY DEF NoEntry
  <2>2. entry' \in {entry, NoEntry} /\ stores' = stores
    BY DEF Delete
  <2>3. QED
    BY <2>1, <2>2 DEF CachesIInv, CachesTypeOK, EntryStored
<1>3. Answer(u, 0, FALSE) \/ Answer(u, 0, TRUE)
  BY DEF Delete
<1>4. ASSUME NEW err \in BOOLEAN, Answer(u, 0, err) PROVE CachesIInv'
  BY <1>1, <1>2, <1>4, CacheReturn DEF Answer, Delete, WritingStages, CachesIInv, CachesTypeOK
<1>5. QED
  BY <1>3, <1>4

-----------------------------------------------------------------------------
(* preloader.Impl *)

LEMMA PreloaderCallIInv ==
    ASSUME CachesIInv, NEW u \in Users, PreloaderCall(u)
    PROVE  CachesIInv'
BY BeginIInv DEF PreloaderCall, CacheStages

\* A value that is found young, with no Refresh writing, was stored less than a lifetime ago.
LEMMA ValueIInv ==
    ASSUME CachesIInv, NEW u \in Users, Value(u)
    PROVE  CachesIInv'
<1>1. /\ users[u] \in UserStates /\ users[u].stage = "look" /\ UserInv(u)
      /\ UNCHANGED <<kept, now, source, entry, current, refreshed, loader, stores, crashed>>
      /\ now \in Nat \ {0} /\ refreshed \in Int /\ TTL \in Nat /\ users[u].began \in Nat
      /\ users[u].lock = "out"
  BY CachesAssumption DEF CachesIInv, CachesTypeOK, UserStates, Value, Stage, UserInv, LoaderInv, CacheStages
<1>2. PICK old \in {now > refreshed + TTL} \cup (IF users[u].raced \/ Writing THEN BOOLEAN ELSE {}) :
         users' = [users EXCEPT ![u].stage = IF old THEN "wait" ELSE "take",
                                ![u].raced = @ \/ Writing]
  BY DEF Value
<1> DEFINE st == IF old THEN "wait" ELSE "take"
           ra == users[u].raced \/ Writing
           a == [users[u] EXCEPT !.stage = st]
           b == [a EXCEPT !.raced = ra]
<1>3. st \in {"wait", "take"} /\ ra \in BOOLEAN
  OBVIOUS
<1>4. a \in UserStates
  BY <1>1, <1>3, FieldUpdates
<1>5. b \in UserStates
  BY <1>3, <1>4, FieldUpdates
<1>6. users' = [users EXCEPT ![u] = b]
  BY <1>2
<1>7. /\ users'[u] = b /\ \A v \in Users : v # u => users'[v] = users[v]
      /\ users' \in [Users -> UserStates]
  BY <1>5, <1>6 DEF CachesIInv, CachesTypeOK
<1>8. /\ b.began = users[u].began /\ b.op = users[u].op /\ b.stage = st
      /\ b.lock = "out" /\ b.raced = ra
  BY <1>1 DEF UserStates
<1>9. ~ra /\ st = "take" => now <= refreshed + TTL
  <2> SUFFICES ASSUME ~ra, st = "take" PROVE ~(now > refreshed + TTL)
    BY <1>1
  <2>1. old = (now > refreshed + TTL)
    BY <1>2
  <2>2. ~old
    OBVIOUS
  <2>3. QED
    BY <2>1, <2>2
<1> HIDE DEF b, st, ra
<1>10. Writing' <=> Writing
  BY <1>1, <1>3, <1>7, <1>8 DEF Writing
<1>11. UserInv(u)'
  <2>1. LoaderInv(u)'
    BY <1>3, <1>7, <1>8 DEF LoaderInv, CacheStages, WritingStages
  <2>2. TakeInv(u)'
    <3>1. users[u].op = "value" /\ users[u].began <= now
      BY <1>1 DEF UserInv, TakeInv
    <3>2. ASSUME ~ra, st = "take" PROVE ~Writing /\ CurrentStored /\ refreshed + TTL >= users[u].began
      <4>1. now <= refreshed + TTL
        BY <1>9, <3>2
      <4>2. ~Writing /\ refreshed # -TTL - 1
        BY <1>1, <3>2, <4>1 DEF ra
      <4>3. QED
        BY <1>1, <3>1, <4>1, <4>2 DEF CachesIInv, CurrentInv
    <3>3. CurrentStored => CurrentStored'
      BY <1>1 DEF CurrentStored
    <3>4. QED
      BY <1>1, <1>7, <1>8, <1>10, <3>1, <3>2, <3>3 DEF TakeInv
  <2>3. Fresh(u)'
    BY <1>3, <1>7, <1>8 DEF Fresh, Stage
  <2>4. QED
    BY <2>1, <2>2, <2>3 DEF UserInv
<1>12. CurrentInv' /\ \A v \in Users : UserInv(v)'
  <2>1. users[u].stage \notin WritingStages /\ users'[u].stage \notin WritingStages
    BY <1>1, <1>3, <1>7, <1>8 DEF WritingStages
  <2>2. QED
    BY <1>1, <1>7, <1>11, <2>1, OneUserStep
<1>13. QED
  BY <1>1, <1>7, <1>12 DEF CachesIInv, CachesTypeOK, EntryStored

LEMMA TakeCurrentIInv ==
    ASSUME CachesIInv, NEW u \in Users, TakeCurrent(u)
    PROVE  CachesIInv'
<1>1. /\ users[u].stage = "take" /\ TakeInv(u)
      /\ UNCHANGED <<kept, now, source, entry, current, refreshed, loader, stores, crashed>>
  BY DEF CachesIInv, UserInv, TakeCurrent, Stage
<1>2. PICK val \in {current.val} \cup (IF users[u].raced THEN {current.old} ELSE {}) :
         ReturnWith(u, val, FALSE, FALSE)
  BY DEF TakeCurrent, Answer
<1>3. val \in Nat
  BY DEF CachesIInv, CachesTypeOK
<1>4. users[u].raced \/ \E w \in stores' : w.val = val /\ w.at + TTL >= users[u].began
  BY <1>1, <1>2 DEF TakeInv, CurrentStored
<1>5. EntryStored' /\ entry' \in [val : Nat, expires : Nat]
  BY <1>1 DEF CachesIInv, CachesTypeOK, EntryStored
<1>6. QED
  BY <1>1, <1>2, <1>3, <1>4, <1>5, CacheReturn DEF WritingStages, CachesIInv, CachesTypeOK

\* Nobody holds the mutex: nobody loads or writes.
LEMMA RefreshLocksIInv ==
    ASSUME CachesIInv, NEW u \in Users, RefreshLocks(u)
    PROVE  CachesIInv'
<1> DEFINE a == [users[u] EXCEPT !.stage = "load"]
           b == [a EXCEPT !.lock = "out"]
<1>1. /\ users[u] \in UserStates /\ users[u].stage = "wait" /\ UserInv(u)
      /\ loader = 0 /\ loader' = u
      /\ UNCHANGED <<kept, now, source, entry, current, refreshed, stores, crashed>>
  BY DEF CachesIInv, CachesTypeOK, RefreshLocks, Stage
<1>2. a \in UserStates
  BY <1>1, FieldUpdates
<1>3. b \in UserStates
  BY <1>2, FieldUpdates
<1>4. users' = [users EXCEPT ![u] = b]
  BY DEF RefreshLocks, Go
<1>5. /\ users'[u] = b /\ \A v \in Users : v # u => users'[v] = users[v]
      /\ users' \in [Users -> UserStates]
  BY <1>3, <1>4 DEF CachesIInv, CachesTypeOK
<1>6. b.began = users[u].began /\ b.stage = "load" /\ b.lock = "out"
  BY <1>1 DEF UserStates
<1> HIDE DEF b
<1>7. Writing' <=> Writing
  BY <1>1, <1>5, <1>6 DEF Writing
<1>8. CurrentStored => CurrentStored'
  BY <1>1 DEF CurrentStored
<1>9. ASSUME NEW v \in Users PROVE UserInv(v)'
  <2>1. UserInv(v) /\ loader # v
    BY <1>1, CachesAssumption DEF CachesIInv
  <2>2. CASE v = u
    <3>1. LoaderInv(v)'
      BY <1>1, <1>5, <1>6, <2>2 DEF LoaderInv, CacheStages, WritingStages
    <3>2. TakeInv(v)'
      BY <1>1, <1>5, <1>6, <2>2 DEF UserInv, TakeInv
    <3>3. Fresh(v)'
      BY <1>5, <1>6, <2>2 DEF Fresh, Stage
    <3>4. QED
      BY <3>1, <3>2, <3>3 DEF UserInv
  <2>3. CASE v # u
    <3>1. LoaderInv(v)'
      BY <1>1, <1>5, <2>1, <2>3 DEF UserInv, LoaderInv
    <3>2. TakeInv(v)'
      BY <1>1, <1>5, <1>7, <1>8, <2>1, <2>3 DEF UserInv, TakeInv
    <3>3. Fresh(v)'
      BY <1>1, <1>5, <2>1, <2>3 DEF UserInv, Fresh, Stage
    <3>4. QED
      BY <3>1, <3>2, <3>3 DEF UserInv
  <2>4. QED
    BY <2>2, <2>3
<1>10. CachesTypeOK' /\ EntryStored' /\ CurrentInv'
  BY <1>1, <1>5, <1>7, <1>8 DEF CachesIInv, CachesTypeOK, EntryStored, CurrentInv
<1>11. QED
  BY <1>1, <1>9, <1>10 DEF CachesIInv

\* Only the holder of the mutex loads, stores or stamps.
LEMMA OneLoader ==
    ASSUME CachesIInv, NEW u \in Users,
           users[u].stage \in WritingStages \/ (kept = "preloader" /\ users[u].stage = "load")
    PROVE  /\ loader = u
           /\ \A v \in Users : v # u =>
                 /\ users[v].stage \notin WritingStages
                 /\ kept = "preloader" => users[v].stage # "load"
BY DEF CachesIInv, UserInv, LoaderInv

\* Whoever is between the age and the value now races with the Refresh.
LEMMA RefreshLoadsIInv ==
    ASSUME CachesIInv, NEW u \in Users, RefreshLoads(u)
    PROVE  CachesIInv'
<1>1. /\ users \in [Users -> UserStates] /\ users[u] \in UserStates
      /\ kept = "preloader" /\ users[u].stage = "load" /\ UserInv(u)
      /\ UNCHANGED <<kept, now, source, entry, current, refreshed, stores, crashed>>
  BY DEF CachesIInv, CachesTypeOK, RefreshLoads, Stage
<1>2. loader = u /\ \A v \in Users : v # u => users[v].stage \notin WritingStages \cup {"load"}
  BY <1>1, OneLoader
<1>3. EntryStored' /\ (CurrentStored => CurrentStored')
  BY <1>1 DEF CachesIInv, EntryStored, CurrentStored
<1>4. ASSUME users' = Races([users EXCEPT ![u].stage = "store", ![u].val = source]),
             UNCHANGED <<refreshed, loader>>
      PROVE  CachesIInv'
  <2> DEFINE a == [users[u] EXCEPT !.stage = "store"]
             b == [a EXCEPT !.val = source]
             us == [users EXCEPT ![u] = b]
             Reads(v) == us[v].op = "value" /\ us[v].stage \in {"look", "take"}
  <2>1. a \in UserStates
    BY <1>1, FieldUpdates DEF WritingStages
  <2>2. b \in UserStates
    BY <2>1, FieldUpdates DEF CachesIInv, CachesTypeOK
  <2>3. b.began = users[u].began /\ b.stage = "store" /\ b.lock = users[u].lock
    BY <1>1 DEF UserStates
  <2>4. us \in [Users -> UserStates] /\ us[u] = b /\ \A v \in Users : v # u => us[v] = users[v]
    BY <1>1, <2>2
  <2>5. users' = [v \in Users |-> IF Reads(v) THEN [us[v] EXCEPT !.raced = TRUE] ELSE us[v]]
    <3>1. us = [users EXCEPT ![u].stage = "store", ![u].val = source]
      OBVIOUS
    <3> HIDE DEF us
    <3>2. QED
      BY <1>4, <3>1 DEF Races
  <2> HIDE DEF b, us
  <2>6. \A v \in Users : [us[v] EXCEPT !.raced = TRUE] \in UserStates
    BY <2>4, FieldUpdates
  <2>7. users' \in [Users -> UserStates]
    BY <2>4, <2>5, <2>6
  <2>8. users'[u] = b
    BY <2>3, <2>4, <2>5
  <2>9. \A v \in Users : v # u =>
           /\ users[v].op = "value" /\ users[v].stage \in {"look", "take"} =>
                 users'[v] = [users[v] EXCEPT !.raced = TRUE]
           /\ ~(users[v].op = "value" /\ users[v].stage \in {"look", "take"}) =>
                 users'[v] = users[v]
    BY <2>4, <2>5
  <2>10. Writing'
    BY <2>3, <2>8 DEF Writing
  <2>11. UserInv(u)'
    <3>1. LoaderInv(u)'
      BY <1>1, <1>2, <1>4, <2>3, <2>8 DEF UserInv, LoaderInv, CacheStages, WritingStages
    <3>2. TakeInv(u)'
      BY <1>1, <2>3, <2>8 DEF UserInv, TakeInv
    <3>3. Fresh(u)'
      BY <2>3, <2>8 DEF Fresh, Stage
    <3>4. QED
      BY <3>1, <3>2, <3>3 DEF UserInv
  <2>12. ASSUME NEW v \in Users, v # u PROVE UserInv(v)'
    <3>1. UserInv(v) /\ users[v] \in UserStates
      BY <1>1 DEF CachesIInv
    <3>2. CASE users[v].op = "value" /\ users[v].stage \in {"look", "take"}
      <4>1. /\ users'[v].stage = users[v].stage /\ users'[v].lock = users[v].lock
            /\ users'[v].op = "value" /\ users'[v].raced
            /\ users'[v].began = users[v].began
        BY <2>9, <2>12, <3>1, <3>2 DEF UserStates
      <4>2. LoaderInv(v)'
        BY <1>1, <3>1, <3>2, <4>1 DEF UserInv, LoaderInv, CacheStages, WritingStages
      <4>3. TakeInv(v)'
        BY <1>1, <3>1, <4>1 DEF UserInv, TakeInv
      <4>4. Fresh(v)'
        BY <4>1 DEF Fresh
      <4>5. QED
        BY <4>2, <4>3, <4>4 DEF UserInv
    <3>3. CASE ~(users[v].op = "value" /\ users[v].stage \in {"look", "take"})
      <4>1. users'[v] = users[v]
        BY <2>9, <2>12, <3>3
      <4>2. LoaderInv(v)'
        BY <1>1, <1>4, <3>1, <4>1 DEF UserInv, LoaderInv
      <4>3. TakeInv(v)'
        BY <1>1, <3>1, <3>3, <4>1 DEF UserInv, TakeInv
      <4>4. Fresh(v)'
        BY <1>1, <3>1, <4>1 DEF UserInv, Fresh, Stage
      <4>5. QED
        BY <4>2, <4>3, <4>4 DEF UserInv
    <3>4. QED
      BY <3>2, <3>3
  <2>13. CachesTypeOK' /\ CurrentInv'
    BY <1>1, <1>4, <2>7, <2>10 DEF CachesIInv, CachesTypeOK, CurrentInv
  <2>14. QED
    BY <1>1, <1>3, <2>11, <2>12, <2>13 DEF CachesIInv
<1>5. ASSUME Answer(u, 0, TRUE), loader' = 0, UNCHANGED refreshed PROVE CachesIInv'
  <2>1. /\ users' \in [Users -> UserStates]
        /\ \A v \in Users : v # u => users'[v] = users[v]
        /\ users'[u].stage \in {"idle", "answered"}
        /\ UserInv(u)'
    BY <1>1, <1>5, ReturnInv DEF Answer
  <2>2. Writing' <=> Writing
    BY <1>1, <2>1 DEF Writing
  <2>3. ASSUME NEW v \in Users, v # u PROVE UserInv(v)'
    <3>1. UserInv(v) /\ users'[v] = users[v]
      BY <2>1, <2>3 DEF CachesIInv
    <3>2. LoaderInv(v)'
      BY <1>1, <1>2, <2>3, <3>1 DEF UserInv, LoaderInv, WritingStages
    <3>3. TakeInv(v)'
      BY <1>1, <1>3, <1>5, <2>2, <3>1 DEF UserInv, TakeInv
    <3>4. Fresh(v)'
      BY <1>1, <3>1 DEF UserInv, Fresh, Stage
    <3>5. QED
      BY <3>2, <3>3, <3>4 DEF UserInv
  <2>4. CachesTypeOK' /\ CurrentInv'
    BY <1>1, <1>3, <1>5, <2>1, <2>2 DEF CachesIInv, CachesTypeOK, CurrentInv
  <2>5. QED
    BY <1>1, <1>3, <2>1, <2>3, <2>4 DEF CachesIInv
<1>6. QED
  BY <1>4, <1>5 DEF RefreshLoads

LEMMA RefreshStoresIInv ==
    ASSUME CachesIInv, NEW u \in Users, RefreshStores(u)
    PROVE  CachesIInv'
<1> DEFINE a == [users[u] EXCEPT !.stage = "stamp"]
           b == [a EXCEPT !.lock = "out"]
<1>1. /\ users \in [Users -> UserStates] /\ users[u] \in UserStates
      /\ users[u].stage = "store" /\ UserInv(u)
      /\ current' = [val |-> users[u].val, old |-> current.val]
      /\ UNCHANGED <<kept, now, source, entry, refreshed, loader, stores, crashed>>
  BY DEF CachesIInv, CachesTypeOK, RefreshStores, Stage
<1>2. loader = u /\ \A v \in Users : v # u => users[v].stage \notin WritingStages
  BY <1>1, OneLoader DEF WritingStages
<1>3. a \in UserStates
  BY <1>1, FieldUpdates DEF WritingStages
<1>4. b \in UserStates
  BY <1>3, FieldUpdates
<1>5. users' = [users EXCEPT ![u] = b]
  BY DEF RefreshStores, Go
<1>6. /\ users'[u] = b /\ \A v \in Users : v # u => users'[v] = users[v]
      /\ users' \in [Users -> UserStates]
  BY <1>1, <1>4, <1>5
<1>7. /\ b.began = users[u].began /\ b.stage = "stamp" /\ b.lock = "out"
      /\ b.val = users[u].val /\ users[u].val \in Nat
  BY <1>1 DEF UserStates
<1> HIDE DEF b
<1>8. Writing /\ Writing'
  BY <1>1, <1>6, <1>7 DEF Writing
<1>9. ASSUME NEW v \in Users PROVE UserInv(v)'
  <2>1. UserInv(v)
    BY DEF CachesIInv
  <2>2. CASE v = u
    <3>1. LoaderInv(v)'
      BY <1>1, <1>2, <1>6, <1>7, <2>2 DEF LoaderInv, CacheStages, WritingStages
    <3>2. TakeInv(v)'
      BY <1>1, <1>6, <1>7, <2>2 DEF UserInv, TakeInv
    <3>3. Fresh(v)'
      BY <1>6, <1>7, <2>2 DEF Fresh, Stage
    <3>4. QED
      BY <3>1, <3>2, <3>3 DEF UserInv
  <2>3. CASE v # u
    <3>1. LoaderInv(v)'
      BY <1>1, <1>2, <1>6, <2>1, <2>3 DEF UserInv, LoaderInv, WritingStages
    <3>2. TakeInv(v)'
      BY <1>1, <1>6, <1>8, <2>1, <2>3 DEF UserInv, TakeInv
    <3>3. Fresh(v)'
      BY <1>1, <1>6, <2>1, <2>3 DEF UserInv, Fresh, Stage
    <3>4. QED
      BY <3>1, <3>2, <3>3 DEF UserInv
  <2>4. QED
    BY <2>2, <2>3
<1>10. CachesTypeOK' /\ EntryStored' /\ CurrentInv'
  <2>1. current' \in [val : Nat, old : Nat]
    BY <1>1, <1>7 DEF CachesIInv, CachesTypeOK
  <2>2. QED
    BY <1>1, <1>6, <1>8, <2>1 DEF CachesIInv, CachesTypeOK, EntryStored, CurrentInv
<1>11. QED
  BY <1>1, <1>9, <1>10 DEF CachesIInv

\* The value and its time belong together again before the mutex is free.
LEMMA RefreshReturnsIInv ==
    ASSUME CachesIInv, NEW u \in Users, RefreshReturns(u)
    PROVE  CachesIInv'
<1> DEFINE w == [val |-> users[u].val, at |-> now]
<1>1. /\ users \in [Users -> UserStates] /\ users[u] \in UserStates
      /\ users[u].stage = "stamp" /\ UserInv(u)
      /\ refreshed' = now /\ stores' = stores \cup {w} /\ loader' = 0
      /\ ReturnWith(u, users[u].val, FALSE, FALSE)
      /\ UNCHANGED <<kept, now, source, entry, current, crashed>>
  BY DEF CachesIInv, CachesTypeOK, RefreshReturns, Stage, Answer
<1>2. loader = u /\ \A v \in Users : v # u =>
         users[v].stage \notin WritingStages /\ (kept = "preloader" => users[v].stage # "load")
  BY <1>1, OneLoader DEF WritingStages
<1>3. /\ users[u].val \in Nat /\ users[u].val = current.val
      /\ now \in Nat /\ users[u].began \in Nat /\ users[u].began <= now /\ TTL \in Nat
  BY <1>1, CachesAssumption DEF CachesIInv, CachesTypeOK, UserStates, UserInv, LoaderInv, TakeInv
<1>4. w \in stores' /\ w.val = users[u].val /\ w.at = now /\ w \in [val : Nat, at : Nat]
  BY <1>1, <1>3
<1> HIDE DEF w
<1>5. \E x \in stores' : x.val = users[u].val /\ x.at + TTL >= users[u].began
  <2>1. w.at + TTL >= users[u].began
    BY <1>3, <1>4
  <2>2. QED
    BY <1>4, <2>1
<1>6. /\ users' \in [Users -> UserStates]
      /\ \A v \in Users : v # u => users'[v] = users[v]
      /\ users'[u].stage \in {"idle", "answered"}
      /\ UserInv(u)'
  BY <1>1, <1>3, <1>5, ReturnInv
<1>7. Writing
  BY <1>1 DEF Writing
<1>8. ASSUME NEW v \in Users, v # u PROVE UserInv(v)'
  <2>1. UserInv(v) /\ users'[v] = users[v]
    BY <1>6, <1>8 DEF CachesIInv
  <2>2. LoaderInv(v)'
    BY <1>1, <1>2, <1>8, <2>1 DEF UserInv, LoaderInv, WritingStages
  <2>3. TakeInv(v)'
    BY <1>1, <1>7, <2>1 DEF UserInv, TakeInv
  <2>4. Fresh(v)'
    BY <1>1, <2>1 DEF UserInv, Fresh, Stage
  <2>5. QED
    BY <2>2, <2>3, <2>4 DEF UserInv
<1>9. CurrentInv'
  BY <1>1, <1>3, <1>4 DEF CurrentInv, CurrentStored
<1>10. CachesTypeOK' /\ EntryStored'
  <2>1. stores' \subseteq [val : Nat, at : Nat]
    BY <1>1, <1>4 DEF CachesIInv, CachesTypeOK
  <2>2. CachesTypeOK'
    BY <1>1, <1>6, <2>1 DEF CachesIInv, CachesTypeOK
  <2>3. EntryStored'
    BY <1>1 DEF CachesIInv, EntryStored
  <2>4. QED
    BY <2>2, <2>3
<1>11. QED
  BY <1>1, <1>6, <1>8, <1>9, <1>10 DEF CachesIInv

-----------------------------------------------------------------------------
(* The theorems *)

LEMMA TimeIInv ==
    ASSUME CachesIInv, Tick \/ Update
    PROVE  CachesIInv'
<1>1. /\ UNCHANGED <<kept, entry, current, refreshed, loader, users, stores, crashed>>
      /\ now' \in Nat \ {0} /\ now <= now' /\ now \in Nat /\ source' \in Nat
  BY DEF CachesIInv, CachesTypeOK, Tick, Update
<1>2. CachesTypeOK' /\ EntryStored' /\ CurrentInv'
  BY <1>1 DEF CachesIInv, CachesTypeOK, EntryStored, CurrentInv, CurrentStored, Writing
<1>3. ASSUME NEW u \in Users PROVE UserInv(u)'
  <2>1. UserInv(u) /\ users[u].began \in Nat
    BY DEF CachesIInv, CachesTypeOK, UserStates
  <2>2. LoaderInv(u)' /\ Fresh(u)'
    BY <1>1, <2>1 DEF UserInv, LoaderInv, Fresh, Stage
  <2>3. TakeInv(u)'
    BY <1>1, <2>1 DEF UserInv, TakeInv, CurrentStored, Writing
  <2>4. QED
    BY <2>2, <2>3 DEF UserInv
<1>4. QED
  BY <1>1, <1>2, <1>3 DEF CachesIInv

LEMMA CachesInitIInv == CachesInit => CachesIInv
<1> SUFFICES ASSUME CachesInit PROVE CachesIInv
  OBVIOUS
<1>1. users \in [Users -> UserStates]
  BY IdleState DEF CachesInit
<1>2. CachesTypeOK
  BY <1>1, CachesAssumption DEF CachesInit, CachesTypeOK, NoEntry
<1>3. EntryStored /\ CurrentInv /\ crashed # "other"
  BY DEF CachesInit, EntryStored, CurrentInv, NoEntry
<1>4. ASSUME NEW u \in Users PROVE UserInv(u)
  BY DEF CachesInit, UserInv, LoaderInv, TakeInv, Fresh, Stage, Idle, CacheStages, WritingStages
<1>5. QED
  BY <1>2, <1>3, <1>4 DEF CachesIInv

LEMMA CachesNextIInv == CachesIInv /\ [CachesNext]_cachesVars => CachesIInv'
<1> SUFFICES ASSUME CachesIInv, [CachesNext]_cachesVars PROVE CachesIInv'
  OBVIOUS
<1>1. CASE Tick \/ Update
  BY <1>1, TimeIInv
<1>2. ASSUME NEW u \in Users, crashed = "no", UserStep(u) PROVE CachesIInv'
  BY <1>2, CacheCallIInv, EnterIInv, HasIInv, FindsExpiredIInv, DeletesExpiredIInv, GetIInv,
     LoadIInv, SetIInv, DeleteIInv, PreloaderCallIInv, ValueIInv, TakeCurrentIInv,
     RefreshLocksIInv, RefreshLoadsIInv, RefreshStoresIInv, RefreshReturnsIInv
  DEF UserStep
<1>3. CASE UNCHANGED cachesVars
  BY <1>3 DEF cachesVars, CachesIInv, CachesTypeOK, EntryStored, CurrentInv, CurrentStored, Writing,
              UserInv, LoaderInv, TakeInv, Fresh, Stage
<1>4. QED
  BY <1>1, <1>2, <1>3 DEF CachesNext

LEMMA CachesSpecIInv == CachesSpec => []CachesIInv
BY CachesInitIInv, CachesNextIInv, PTL DEF CachesSpec

(* What ProxyImpl.Get and the preloader's Value answer without an error was stored no more    *)
(* than TTL before the call began, or during it, unless the key vanished or the call raced    *)
(* with a Refresh: for any number of goroutines and any TTL.                                  *)
THEOREM FreshAnswers == CachesSpec => []AnswersAreFresh
<1>1. CachesIInv => AnswersAreFresh
  BY DEF CachesIInv, UserInv, Fresh, AnswersAreFresh
<1>2. QED
  BY <1>1, CachesSpecIInv, PTL

(* The RWMutex of the memory provider keeps writers out of the map, but for the deletion of   *)
(* an expired entry under the read lock (memory.go:62).                                       *)
THEOREM RacesOnlyOnExpiry == CachesSpec => []MapRacesOnlyOnExpiry
<1>1. CachesIInv => MapRacesOnlyOnExpiry
  BY DEF CachesIInv, MapRacesOnlyOnExpiry
<1>2. QED
  BY <1>1, CachesSpecIInv, PTL

-----------------------------------------------------------------------------
(* The Runs of a flow engine. *)

(* The Runs of an engine without their fairness. *)
FlowSpec == FlowInit /\ [][FlowNext]_flowVars

ActionNames == {config[i].name : i \in DOMAIN config}
Outputs == {Nothing} \cup ({"out", "err"} \X Nat \X Nat)
Replies == [exit : {-1, 0, 1}, out : Outputs, err : Outputs, skipped : BOOLEAN]
InCommand == {"exec", "stdout", "stderr", "code", "fail"}
Runs ==
    [n : Nat, pc : {"idle", "action", "returned"} \cup InCommand, i : Nat \ {0},
     responses : UNION {[S -> Replies] : S \in SUBSET ActionNames},
     data : Nat, failed : BOOLEAN, ctx : {"live", "cancelled"}, resp : Replies, ran : BOOLEAN,
     wrote : SUBSET Outputs, lost : SUBSET Outputs]

FlowTypeOK ==
    /\ config \in Configs
    /\ run \in Runs
    /\ run.n > 0 => env \in Envs

(* The response of a command is kept apart until its action is over, and a command is under   *)
(* way only when the action is one and its condition, if it has one, holds.                   *)
WhereInv ==
    /\ run.pc = "idle" <=> run.n = 0
    /\ run.i <= Len(config) + 1
    /\ run.data < run.i
    /\ run.failed => run.pc = "returned"
    /\ run.ran => /\ run.i <= Len(config)
                  /\ run.pc \in {"stdout", "stderr", "code", "fail"} \/ run.failed
    /\ run.pc \in {"stdout", "stderr", "code", "fail"} => run.ran
    /\ run.pc \in InCommand =>
          /\ run.i <= Len(config)
          /\ Options(Action)["command"] /\ Count(Options(Action)) = 1
          /\ WhenIsClear(Action) => env.context[Action.when.key]
    /\ ~run.resp.skipped

(* The output of a command that is not in a response, or about to be, is where its action     *)
(* wants it.                                                                                  *)
Output(i) == <<"out", run.n, i>>
InFile(i) ==
    /\ config[i].stdout.kind # "none"
    /\ \/ LET f == File(config[i], config[i].stdout) IN f \in DOMAIN disk /\ disk[f] = Output(i)
       \/ Output(i) \in run.lost
       \/ Rewritten(i)

KeptInv ==
    /\ run.wrote \subseteq {Nothing} \cup {Output(i) : i \in 1 .. run.i}
    /\ ~run.ran => Output(run.i) \notin run.wrote
    /\ run.pc = "stdout" /\ Output(run.i) \in run.wrote => run.resp.out = Output(run.i)
    /\ Validate(config) => \A i \in DOMAIN config : Output(i) \in run.wrote =>
          \/ /\ config[i].name \in DOMAIN run.responses
             /\ run.responses[config[i].name].out = Output(i)
          \/ i = run.i /\ run.pc \in InCommand /\ run.resp.out = Output(i)
          \/ InFile(i)

FlowIInv == FlowTypeOK /\ WhereInv /\ ResponsesTellTruth /\ KeptInv

-----------------------------------------------------------------------------
(* Actions, their conditions and their responses *)

LEMMA ConfigParts ==
    ASSUME FlowTypeOK
    PROVE  Len(config) \in Nat /\ DOMAIN config = 1 .. Len(config)
<1>1. config \in Seq({config[i] : i \in DOMAIN config})
  BY FlowAssumption DEF FlowTypeOK
<1>2. QED
  BY <1>1

(* Validate gives every action a name of its own. *)
LEMMA NamesDiffer ==
    ASSUME FlowTypeOK, Validate(config),
           NEW i \in DOMAIN config, NEW j \in DOMAIN config, i # j
    PROVE  config[i].name # config[j].name
<1>1. i \in Nat /\ j \in Nat /\ i >= 1 /\ j >= 1 /\ (i < j \/ j < i)
  BY ConfigParts
<1>2. CASE i < j
  <2>1. i \in 1 .. (j - 1)
    BY <1>1, <1>2
  <2>2. QED
    BY <2>1 DEF Validate
<1>3. CASE j < i
  <2>1. j \in 1 .. (i - 1)
    BY <1>1, <1>3
  <2>2. QED
    BY <2>1 DEF Validate
<1>4. QED
  BY <1>1, <1>2, <1>3

(* An action that is run has one kind. *)
LEMMA OneKind ==
    ASSUME NEW a, Count(Options(a)) = 1,
           NEW k \in DOMAIN Options(a), NEW l \in DOMAIN Options(a), Options(a)[k], Options(a)[l]
    PROVE  k = l
<1> DEFINE Kinds == {m \in DOMAIN Options(a) : Options(a)[m]}
<1>1. IsFiniteSet({"trigger", "result", "command", "script", "script_file"})
  <2>1. IsFiniteSet({"trigger"})
    BY FS_Singleton
  <2>2. IsFiniteSet({"trigger"} \cup {"result"})
    BY <2>1, FS_AddElement
  <2>3. IsFiniteSet(({"trigger"} \cup {"result"}) \cup {"command"})
    BY <2>2, FS_AddElement
  <2>4. IsFiniteSet((({"trigger"} \cup {"result"}) \cup {"command"}) \cup {"script"})
    BY <2>3, FS_AddElement
  <2>5. IsFiniteSet(((({"trigger"} \cup {"result"}) \cup {"command"}) \cup {"script"}) \cup {"script_file"})
    BY <2>4, FS_AddElement
  <2>6. QED
    BY <2>5
<1>2. IsFiniteSet(Kinds)
  BY <1>1, FS_Subset DEF Options
<1>3. PICK x : Kinds = {x}
  BY <1>2, FS_Singleton DEF Count
<1>4. k \in Kinds /\ l \in Kinds
  OBVIOUS
<1>5. QED
  BY <1>3, <1>4

(* A condition that reads a key of the environment has its value there, whatever the globals. *)
LEMMA WhenHolds ==
    ASSUME NEW a, NEW g, WhenIsClear(a), ActionWhen(a, g).ok
    PROVE  ActionWhen(a, g).val = env.context[a.when.key]
<1>1. engine.script
  BY DEF WhenIsClear, ActionWhen, EvalScript
<1>2. ActionWhen(a, g) = Execute(a.when, g)
  BY <1>1 DEF WhenIsClear, ActionWhen, EvalScript
<1>3. /\ a.when.key \in DOMAIN SetContext(g)
      /\ SetContext(g)[a.when.key] = env.context[a.when.key]
  BY DEF WhenIsClear, SetContext
<1>4. QED
  BY <1>2, <1>3 DEF Execute, WhenIsClear

LEMMA ContextIsBoolean ==
    ASSUME FlowTypeOK, run.n > 0, NEW a, WhenIsClear(a)
    PROVE  env.context[a.when.key] \in BOOLEAN
BY FlowAssumption DEF FlowTypeOK, WhenIsClear

(* What Record makes of the responses. *)
LEMMA Recorded ==
    ASSUME FlowTypeOK, run.i <= Len(config), NEW resp \in Replies
    PROVE  /\ Record(Action.name, resp) \in UNION {[S -> Replies] : S \in SUBSET ActionNames}
           /\ DOMAIN Record(Action.name, resp) = DOMAIN run.responses \cup {Action.name}
           /\ Record(Action.name, resp)[Action.name] = resp
           /\ \A m \in DOMAIN run.responses :
                 m # Action.name => Record(Action.name, resp)[m] = run.responses[m]
<1>1. Action.name \in ActionNames
  BY ConfigParts DEF FlowTypeOK, Runs, Action, ActionNames
<1>2. /\ DOMAIN run.responses \in SUBSET ActionNames
      /\ \A m \in DOMAIN run.responses : run.responses[m] \in Replies
  BY DEF FlowTypeOK, Runs
<1> DEFINE S == DOMAIN run.responses \cup {Action.name}
<1>3. Record(Action.name, resp) \in [S -> Replies]
  BY <1>2 DEF Record
<1>4. S \in SUBSET ActionNames
  BY <1>1, <1>2
<1>5. QED
  BY <1>3, <1>4 DEF Record

LEMMA NewResponse ==
    /\ NewActionResponse \in Replies
    /\ NewActionResponse.exit = 0 /\ ~NewActionResponse.skipped
    /\ [NewActionResponse EXCEPT !.skipped = TRUE] \in Replies
    /\ [NewActionResponse EXCEPT !.skipped = TRUE].skipped
    /\ [NewActionResponse EXCEPT !.skipped = TRUE].exit = 0
BY DEF NewActionResponse, Replies, Outputs

-----------------------------------------------------------------------------
(* Files: what is in one stays there as long as no file is written. *)

LEMMA FilesStay ==
    ASSUME UNCHANGED <<config, env>>
    PROVE  /\ \A a, t : File(a, t)' = File(a, t)
           /\ \A i : Rewritten(i)' <=> Rewritten(i)
BY DEF File, WorkDir, Rooted, Rewritten

LEMMA SameFiles ==
    ASSUME UNCHANGED <<config, env, disk>>, run'.n = run.n, run.lost \subseteq run'.lost,
           NEW i, InFile(i)
    PROVE  InFile(i)'
<1>1. Output(i)' = Output(i)
  BY DEF Output
<1>2. CASE Output(i) \in run.lost
  BY <1>1, <1>2 DEF InFile
<1>3. CASE Rewritten(i)
  BY <1>3, FilesStay DEF InFile
<1>4. CASE /\ File(config[i], config[i].stdout) \in DOMAIN disk
           /\ disk[File(config[i], config[i].stdout)] = Output(i)
  BY <1>1, <1>4, FilesStay DEF InFile
<1>5. QED
  BY <1>2, <1>3, <1>4 DEF InFile

-----------------------------------------------------------------------------
(* The next action *)

LEMMA PassedIInv ==
    ASSUME FlowIInv, UNCHANGED <<config, env, disk>>,
           run.pc \in {"action", "code"}, run.i <= Len(config), NEW resp \in Replies,
           run' \in Runs, run'.n = run.n, run'.pc = "action", run'.i = run.i + 1,
           run'.responses = Record(Action.name, resp),
           ~run'.failed, ~run'.ran, ~run'.resp.skipped,
           run'.wrote = run.wrote, run'.lost = run.lost,
           \/ run'.data = run.i
           \/ /\ run'.data = run.data
              /\ Action.result.set /\ Action.result.script.kind # "none" => resp.skipped,
           WhenIsClear(Action) => resp.skipped = ~env.context[Action.when.key],
           resp.exit # 0 => ~Action.failIfNonZeroCode,
           Validate(config) /\ Output(run.i) \in run.wrote =>
              resp.out = Output(run.i) \/ InFile(run.i)
    PROVE  FlowIInv'
<1> USE DEF FlowIInv
<1>1. FlowTypeOK'
  BY DEF FlowTypeOK, Runs, ActionNames
<1>2. /\ run.i \in Nat \ {0} /\ run.i \in DOMAIN config /\ run.data \in Nat /\ run.n \in Nat
      /\ DOMAIN config = 1 .. Len(config) /\ Len(config) \in Nat
  BY ConfigParts DEF FlowTypeOK, Runs
<1>3. WhereInv'
  BY <1>2 DEF WhereInv, InCommand
<1>4. ResponsesTellTruth'
  <2> SUFFICES ASSUME Validate(config), run.n > 0 PROVE ResponsesTellTruth'
    BY DEF ResponsesTellTruth, Validate
  <2>1. ~run.failed
    BY DEF WhereInv
  <2>2. DOMAIN run'.responses = {config[i].name : i \in {j \in DOMAIN config : j < run.i + 1}}
    <3>1. DOMAIN run.responses = {config[i].name : i \in {j \in DOMAIN config : j < run.i}}
      BY <2>1 DEF ResponsesTellTruth, Reached
    <3>2. {j \in DOMAIN config : j < run.i + 1} = {j \in DOMAIN config : j < run.i} \cup {run.i}
      BY <1>2
    <3>3. {config[i].name : i \in {j \in DOMAIN config : j < run.i} \cup {run.i}}
            = {config[i].name : i \in {j \in DOMAIN config : j < run.i}} \cup {Action.name}
      BY DEF Action
    <3>4. QED
      BY <3>1, <3>2, <3>3, Recorded
  <2>3. ASSUME NEW i \in DOMAIN config, i < run.i
        PROVE  run'.responses[config[i].name] = run.responses[config[i].name]
    <3>1. config[i].name # Action.name
      BY <1>2, <2>3, NamesDiffer DEF Action
    <3>2. config[i].name \in DOMAIN run.responses
      BY <2>3 DEF ResponsesTellTruth, Reached
    <3>3. QED
      BY <3>1, <3>2, Recorded
  <2>4. run'.responses[config[run.i].name] = resp
    BY Recorded DEF Action
  <2>5. ASSUME NEW i \in DOMAIN config, i < run.i + 1
        PROVE  LET r == run'.responses[config[i].name] IN
               /\ WhenIsClear(config[i]) => r.skipped = ~env.context[config[i].when.key]
               /\ r.exit # 0 => ~config[i].failIfNonZeroCode
               /\ i > run'.data /\ config[i].result.set /\ config[i].result.script.kind # "none"
                     => r.skipped
    <3>1. CASE i < run.i
      <4>1. i > run'.data => i > run.data
        BY <1>2, <3>1
      <4>2. QED
        BY <2>3, <3>1, <4>1 DEF ResponsesTellTruth, Reached
    <3>2. CASE i = run.i
      BY <2>4, <3>2, <1>2 DEF Action
    <3>3. QED
      BY <1>2, <2>5, <3>1, <3>2
  <2>6. QED
    BY <2>2, <2>5 DEF ResponsesTellTruth, Reached, WhenIsClear
<1>5. KeptInv'
  <2>1. /\ run.wrote \subseteq {Nothing} \cup {Output(i) : i \in 1 .. run.i}
        /\ 1 .. run.i \subseteq 1 .. (run.i + 1)
    BY <1>2 DEF KeptInv
  <2>2. \A i \in 1 .. run.i : Output(i) # <<"out", run.n, run.i + 1>>
    BY <1>2 DEF Output
  <2>3. run'.wrote \subseteq {Nothing} \cup {<<"out", run'.n, i>> : i \in 1 .. run'.i}
    BY <2>1 DEF Output
  <2>4. <<"out", run.n, run.i + 1>> \notin run.wrote
    BY <2>1, <2>2 DEF Nothing
  <2>5. ASSUME Validate(config), NEW i \in DOMAIN config, Output(i) \in run.wrote
        PROVE  \/ /\ config[i].name \in DOMAIN run'.responses
                  /\ run'.responses[config[i].name].out = Output(i)
               \/ InFile(i)
    <3>1. CASE i = run.i
      BY <3>1, <2>5, Recorded DEF Action
    <3>2. CASE i # run.i
      <4>1. config[i].name # Action.name
        BY <1>2, <3>2, <2>5, NamesDiffer DEF Action
      <4>2. \/ /\ config[i].name \in DOMAIN run.responses
               /\ run.responses[config[i].name].out = Output(i)
            \/ InFile(i)
        BY <2>5, <3>2 DEF KeptInv
      <4>3. QED
        BY <4>1, <4>2, Recorded
    <3>3. QED
      BY <3>1, <3>2
  <2>6. \A i \in DOMAIN config : InFile(i) => InFile(i)'
    BY SameFiles
  <2>7. QED
    BY <2>3, <2>4, <2>5, <2>6 DEF KeptInv, Output, Validate
<1>6. QED
  BY <1>1, <1>3, <1>4, <1>5

LEMMA SucceedIInv ==
    ASSUME FlowIInv, UNCHANGED <<config, env, disk>>,
           run.pc \in {"action", "code"}, run.i <= Len(config), NEW resp \in Replies,
           Succeed(resp),
           Action.result.set /\ Action.result.script.kind # "none" => resp.skipped,
           WhenIsClear(Action) => resp.skipped = ~env.context[Action.when.key],
           resp.exit # 0 => ~Action.failIfNonZeroCode,
           Validate(config) /\ Output(run.i) \in run.wrote =>
              resp.out = Output(run.i) \/ InFile(run.i)
    PROVE  FlowIInv'
<1>1. run \in Runs /\ ~run.failed
  BY DEF FlowIInv, FlowTypeOK, WhereInv
<1>2. Record(Action.name, resp) \in UNION {[S -> Replies] : S \in SUBSET ActionNames}
  BY Recorded DEF FlowIInv
<1>3. /\ run' \in Runs /\ run'.n = run.n /\ run'.pc = "action" /\ run'.i = run.i + 1
      /\ run'.responses = Record(Action.name, resp)
      /\ run'.failed = run.failed /\ ~run'.ran /\ run'.resp = NewActionResponse
      /\ run'.wrote = run.wrote /\ run'.lost = run.lost /\ run'.data = run.data
  <2>1. NewActionResponse \in Replies /\ run.i + 1 \in Nat \ {0}
    BY <1>1, NewResponse DEF Runs
  <2>2. QED
    BY <1>1, <1>2, <2>1 DEF Runs, Succeed
<1>4. ~run'.failed /\ ~run'.resp.skipped
  BY <1>1, <1>3, NewResponse
<1>5. QED
  BY <1>3, <1>4, PassedIInv

(* Nothing but the context of the Run changes, or it ends after its last action. *)
LEMMA QuietIInv ==
    ASSUME FlowIInv, UNCHANGED <<config, env, disk>>, run' \in Runs,
           run'.n = run.n, run'.i = run.i, run'.responses = run.responses, run'.data = run.data,
           run'.failed = run.failed, run'.resp = run.resp, run'.ran = run.ran,
           run'.wrote = run.wrote, run'.lost = run.lost,
           \/ run'.pc = run.pc
           \/ run.pc = "action" /\ run'.pc = "returned"
    PROVE  FlowIInv'
<1> USE DEF FlowIInv
<1>1. FlowTypeOK'
  BY DEF FlowTypeOK, Runs, ActionNames
<1>2. WhereInv'
  BY DEF WhereInv, InCommand, Action, WhenIsClear
<1>3. ResponsesTellTruth'
  <2>1. Action' = Action /\ (Validate(config)' <=> Validate(config))
    BY DEF Action, Validate
  <2>2. \A a : WhenIsClear(a)' <=> WhenIsClear(a)
    BY DEF WhenIsClear
  <2>3. \A i : Reached(i)' <=> Reached(i)
    BY DEF Reached
  <2>4. QED
    BY <2>1, <2>2, <2>3 DEF ResponsesTellTruth
<1>4. KeptInv'
  <2>1. \A i : Output(i)' = Output(i)
    BY DEF Output
  <2>2. run'.pc \notin InCommand => run'.pc # "stdout"
    BY DEF InCommand
  <2>3. run.pc \in InCommand => run'.pc = run.pc
    BY DEF InCommand
  <2>4. run.lost \subseteq run'.lost
    OBVIOUS
  <2>5. Validate(config)' <=> Validate(config)
    BY DEF Validate
  <2>6. \A i : InFile(i) => InFile(i)'
    BY <2>4, SameFiles
  <2>7. run'.pc = "stdout" => run.pc = "stdout"
    OBVIOUS
  <2>8. run'.wrote \subseteq {Nothing} \cup {Output(i)' : i \in 1 .. run'.i}
    BY <2>1 DEF KeptInv, Output
  <2>10. ASSUME Validate(config), NEW i \in DOMAIN config, Output(i) \in run.wrote
         PROVE  \/ /\ config[i].name \in DOMAIN run.responses
                   /\ run.responses[config[i].name].out = Output(i)
                \/ i = run.i /\ run'.pc \in InCommand /\ run.resp.out = Output(i)
                \/ InFile(i)'
    BY <2>3, <2>6, <2>10 DEF KeptInv
  <2>11. QED
    BY <2>1, <2>5, <2>7, <2>8, <2>10 DEF KeptInv, Output
<1>5. QED
  BY <1>1, <1>2, <1>3, <1>4

(* An action fails before it started a command, or its command failed. *)
LEMMA FailIInv ==
    ASSUME FlowIInv, UNCHANGED <<config, env, disk>>, run.i <= Len(config), NEW responses,
           Fail(responses),
           \/ run.pc = "action" /\ responses = run.responses
           \/ run.pc = "fail" /\ responses = Record(Action.name, run.resp)
    PROVE  FlowIInv'
<1> USE DEF FlowIInv
<1>1. /\ run \in Runs /\ ~run.failed /\ run.resp \in Replies
      /\ run.pc = "action" => ~run.ran
      /\ run.pc = "fail" => run.ran
  BY DEF FlowTypeOK, WhereInv, Runs
<1>2. /\ run.i \in Nat \ {0} /\ run.i \in DOMAIN config
      /\ DOMAIN config = 1 .. Len(config) /\ Len(config) \in Nat
  BY ConfigParts DEF FlowTypeOK, Runs
<1>3. responses \in UNION {[S -> Replies] : S \in SUBSET ActionNames}
  BY <1>1, Recorded DEF Runs
<1>4. /\ run' \in Runs /\ run'.n = run.n /\ run'.pc = "returned" /\ run'.i = run.i
      /\ run'.responses = responses /\ run'.failed
      /\ run'.ran = run.ran /\ run'.resp = run.resp
      /\ run'.wrote = run.wrote /\ run'.lost = run.lost /\ run'.data = run.data
  BY <1>1, <1>3 DEF Runs, Fail
<1>5. FlowTypeOK'
  BY <1>4 DEF FlowTypeOK, Runs, ActionNames
<1>6. WhereInv'
  BY <1>1, <1>4 DEF WhereInv, InCommand
<1>7. /\ DOMAIN responses = DOMAIN run.responses \cup IF run.ran THEN {Action.name} ELSE {}
      /\ run.ran => responses[Action.name] = run.resp
      /\ ~run.ran => responses = run.responses
      /\ \A m \in DOMAIN run.responses :
            m # Action.name \/ ~run.ran => responses[m] = run.responses[m]
  <2>1. CASE run.pc = "action"
    BY <1>1, <2>1
  <2>2. CASE run.pc = "fail"
    <3>1. run.ran /\ responses = Record(Action.name, run.resp)
      BY <1>1, <2>2
    <3>2. /\ DOMAIN responses = DOMAIN run.responses \cup {Action.name}
          /\ responses[Action.name] = run.resp
          /\ \A m \in DOMAIN run.responses : m # Action.name => responses[m] = run.responses[m]
      BY <1>1, <3>1, Recorded
    <3>3. QED
      BY <3>1, <3>2
  <2>3. QED
    BY <2>1, <2>2
<1>8. ResponsesTellTruth'
  <2> SUFFICES ASSUME Validate(config), run.n > 0 PROVE ResponsesTellTruth'
    BY <1>4 DEF ResponsesTellTruth, Validate
  <2>1. DOMAIN run.responses = {config[i].name : i \in {j \in DOMAIN config : j < run.i}}
    BY <1>1 DEF ResponsesTellTruth, Reached
  <2>2. ASSUME NEW i \in DOMAIN config, i < run.i
        PROVE  responses[config[i].name] = run.responses[config[i].name]
    <3>1. config[i].name # Action.name
      BY <1>2, <2>2, NamesDiffer DEF Action
    <3>2. QED
      BY <1>7, <2>1, <2>2, <3>1
  <2>3. Action' = Action
    BY <1>4 DEF Action
  <2>4. QED
    BY <1>4, <1>7, <2>1, <2>2, <2>3 DEF ResponsesTellTruth, Reached, WhenIsClear
<1>9. KeptInv'
  <2>1. \A i : Output(i)' = Output(i)
    BY <1>4 DEF Output
  <2>2. run'.wrote \subseteq {Nothing} \cup {Output(i)' : i \in 1 .. run'.i}
    BY <1>4, <2>1 DEF KeptInv, Output
  <2>3. ASSUME Validate(config), NEW i \in DOMAIN config, Output(i) \in run.wrote
        PROVE  \/ /\ config[i].name \in DOMAIN responses
                  /\ responses[config[i].name].out = Output(i)
               \/ InFile(i)
    <3>1. \/ /\ config[i].name \in DOMAIN run.responses
             /\ run.responses[config[i].name].out = Output(i)
          \/ i = run.i /\ run.pc \in InCommand /\ run.resp.out = Output(i)
          \/ InFile(i)
      BY <2>3 DEF KeptInv
    <3>2. CASE i = run.i /\ run.pc \in InCommand /\ run.resp.out = Output(i)
      BY <1>1, <1>7, <3>2 DEF Action, InCommand
    <3>3. CASE i = run.i /\ ~run.ran
      BY <2>3, <3>3 DEF KeptInv
    <3>4. CASE i # run.i
      <4>1. config[i].name # Action.name
        BY <1>2, <2>3, <3>4, NamesDiffer DEF Action
      <4>2. QED
        BY <1>7, <3>1, <3>4, <4>1
    <3>5. CASE i = run.i /\ run.ran
      <4>1. config[i].name \notin DOMAIN run.responses
        <5>1. /\ run.n > 0
              /\ config[i].name = Action.name
          BY <1>1, <3>5 DEF WhereInv, Action, FlowTypeOK, Runs
        <5>2. DOMAIN run.responses = {config[l].name : l \in {j \in DOMAIN config : j < run.i}}
          BY <1>1, <2>3, <5>1 DEF ResponsesTellTruth, Reached
        <5>3. \A l \in DOMAIN config : l < run.i => config[l].name # config[i].name
          BY <1>2, <2>3, <3>5, NamesDiffer
        <5>4. QED
          BY <5>2, <5>3
      <4>2. QED
        BY <3>1, <3>2, <4>1
    <3>6. QED
      BY <3>3, <3>4, <3>5
  <2>4. \A i : InFile(i) => InFile(i)'
    BY <1>4, SameFiles
  <2>5. Validate(config)' <=> Validate(config)
    BY DEF Validate
  <2>6. ~run'.ran => Output(run'.i) \notin run'.wrote
    BY <1>4 DEF KeptInv
  <2>7. ASSUME Validate(config), NEW i \in DOMAIN config, Output(i) \in run.wrote
        PROVE  \/ /\ config[i].name \in DOMAIN run'.responses
                  /\ run'.responses[config[i].name].out = Output(i)
               \/ InFile(i)'
    BY <1>4, <2>3, <2>4, <2>7
  <2>8. QED
    BY <1>4, <2>1, <2>2, <2>5, <2>6, <2>7 DEF KeptInv, Output
<1>10. QED
  BY <1>5, <1>6, <1>8, <1>9

-----------------------------------------------------------------------------
(* Commands *)

(* A step inside a command, which leaves the responses alone. *)
LEMMA CommandIInv ==
    ASSUME FlowIInv, UNCHANGED <<config, env>>, run' \in Runs,
           run.pc \in InCommand \cup {"action"}, run.i <= Len(config),
           run'.n = run.n, run'.i = run.i, run'.responses = run.responses, run'.data = run.data,
           run'.failed = run.failed, ~run'.resp.skipped,
           run'.pc \in InCommand, run'.ran <=> run'.pc # "exec",
           Options(Action)["command"], Count(Options(Action)) = 1,
           WhenIsClear(Action) => env.context[Action.when.key],
           KeptInv'
    PROVE  FlowIInv'
<1> USE DEF FlowIInv
<1>1. FlowTypeOK'
  BY DEF FlowTypeOK, Runs, ActionNames
<1>2. Action' = Action /\ (Validate(config)' <=> Validate(config))
  BY DEF Action, Validate
<1>3. \A a : WhenIsClear(a)' <=> WhenIsClear(a)
  BY DEF WhenIsClear
<1>4. \A i : Reached(i)' <=> Reached(i)
  BY DEF Reached
<1>5. ~run.failed /\ ~run'.failed /\ run.n # 0
  BY DEF WhereInv, InCommand
<1>6. WhereInv'
  BY <1>2, <1>3, <1>5 DEF WhereInv, InCommand, Options, Count
<1>7. ResponsesTellTruth'
  BY <1>2, <1>3, <1>4, <1>5 DEF ResponsesTellTruth
<1>8. QED
  BY <1>1, <1>6, <1>7

(* A step inside a command that leaves files and output alone. *)
LEMMA UnwrittenIInv ==
    ASSUME FlowIInv, UNCHANGED <<config, env, disk>>, run' \in Runs,
           run.pc \in InCommand \cup {"action"}, run.i <= Len(config),
           run'.n = run.n, run'.i = run.i, run'.responses = run.responses, run'.data = run.data,
           run'.failed = run.failed, run'.resp = run.resp, run'.ran = run.ran,
           run'.wrote = run.wrote, run'.lost = run.lost,
           run'.pc \in InCommand \ {"stdout"}, run'.ran <=> run'.pc # "exec",
           Options(Action)["command"], Count(Options(Action)) = 1,
           WhenIsClear(Action) => env.context[Action.when.key]
    PROVE  FlowIInv'
<1> USE DEF FlowIInv
<1>1. \A i : Output(i)' = Output(i)
  BY DEF Output
<1>2. \A i : InFile(i) => InFile(i)'
  BY SameFiles
<1>3. Validate(config)' <=> Validate(config)
  BY DEF Validate
<1>4. run'.wrote \subseteq {Nothing} \cup {Output(i)' : i \in 1 .. run'.i}
  BY <1>1 DEF KeptInv, Output
<1>5. ~run'.ran => Output(run.i) \notin run'.wrote
  BY DEF KeptInv
<1>6. ASSUME Validate(config), NEW i \in DOMAIN config, Output(i) \in run.wrote
      PROVE  \/ /\ config[i].name \in DOMAIN run.responses
                /\ run.responses[config[i].name].out = Output(i)
             \/ i = run.i /\ run'.pc \in InCommand /\ run.resp.out = Output(i)
             \/ InFile(i)'
  BY <1>2, <1>6 DEF KeptInv
<1>7. KeptInv'
  BY <1>1, <1>3, <1>4, <1>5, <1>6 DEF KeptInv, Output
<1>8. ~run'.resp.skipped
  BY DEF WhereInv
<1>9. QED
  BY <1>7, <1>8, CommandIInv

LEMMA PrepareCommandIInv == FlowIInv /\ PrepareCommand => FlowIInv'
<1> SUFFICES ASSUME FlowIInv, PrepareCommand PROVE FlowIInv'
  OBVIOUS
<1>1. /\ UNCHANGED <<config, env, disk>>
      /\ run.pc = "action" /\ run.i <= Len(config)
      /\ Options(Action)["command"] /\ Count(Options(Action)) = 1
      /\ ActionWhen(Action, js).ok /\ ActionWhen(Action, js).val
  BY DEF PrepareCommand, Acting, ValueToBool
<1>2. Fail(run.responses) \/ run' = [run EXCEPT !.pc = "exec"]
  BY DEF PrepareCommand
<1>3. CASE Fail(run.responses)
  BY <1>1, <1>3, FailIInv
<1>4. CASE run' = [run EXCEPT !.pc = "exec"]
  <2>1. run \in Runs /\ ~run.ran
    BY <1>1 DEF FlowIInv, FlowTypeOK, WhereInv
  <2>2. /\ run' \in Runs /\ run'.n = run.n /\ run'.i = run.i /\ run'.responses = run.responses
        /\ run'.data = run.data /\ run'.failed = run.failed /\ run'.resp = run.resp
        /\ run'.ran = run.ran /\ run'.wrote = run.wrote /\ run'.lost = run.lost
        /\ run'.pc = "exec"
    BY <1>4, <2>1 DEF Runs, InCommand
  <2>3. WhenIsClear(Action) => env.context[Action.when.key]
    BY <1>1, WhenHolds
  <2>4. run'.pc \in InCommand \ {"stdout"} /\ run.pc \in InCommand \cup {"action"}
    BY <1>1, <2>2 DEF InCommand
  <2>5. run'.ran <=> run'.pc # "exec"
    BY <2>1, <2>2
  <2>6. QED
    BY <1>1, <2>2, <2>3, <2>4, <2>5, UnwrittenIInv
<1>5. QED
  BY <1>2, <1>3, <1>4

LEMMA ExecIInv == FlowIInv /\ Exec => FlowIInv'
<1> SUFFICES ASSUME FlowIInv, Exec PROVE FlowIInv'
  OBVIOUS
<1>1. PICK o \in CliExec :
        run' = [run EXCEPT !.pc = IF o.exit = -1 THEN "fail" ELSE "stdout",
                  !.ran = TRUE,
                  !.resp = [NewActionResponse EXCEPT !.exit = o.exit, !.out = o.out, !.err = o.err],
                  !.wrote = @ \cup {o.out}]
  BY DEF Exec
<1> DEFINE resp == [NewActionResponse EXCEPT !.exit = o.exit, !.out = o.out, !.err = o.err]
<1>2. /\ UNCHANGED <<config, env, disk>> /\ run.pc = "exec" /\ run \in Runs
      /\ ~run.ran /\ ~run.failed /\ run.i <= Len(config)
      /\ Options(Action)["command"] /\ Count(Options(Action)) = 1
      /\ WhenIsClear(Action) => env.context[Action.when.key]
  BY DEF Exec, FlowIInv, FlowTypeOK, WhereInv, InCommand
<1>3. /\ run.n \in Nat /\ run.i \in Nat \ {0}
      /\ Nothing \in Outputs /\ Token("out") \in Outputs /\ Token("err") \in Outputs
      /\ Token("out") = Output(run.i)
  BY <1>2 DEF Runs, Outputs, Token, Output
<1>4. /\ o.exit \in {-1, 0, 1} /\ o.out \in {Nothing, Output(run.i)}
      /\ o.out \in Outputs /\ o.err \in Outputs
  BY <1>3 DEF CliExec, ExecCommand
<1>5. /\ resp \in Replies /\ resp.out = o.out /\ ~resp.skipped
  BY <1>4 DEF NewActionResponse, Replies
<1>6. /\ run' \in Runs /\ run'.n = run.n /\ run'.i = run.i /\ run'.responses = run.responses
      /\ run'.data = run.data /\ run'.failed = run.failed /\ run'.resp = resp
      /\ run'.ran /\ run'.wrote = run.wrote \cup {o.out} /\ run'.lost = run.lost
      /\ run'.pc \in {"fail", "stdout"}
  BY <1>1, <1>2, <1>4, <1>5 DEF Runs, InCommand
<1>7. KeptInv'
  <2> HIDE DEF resp
  <2>1. \A i : Output(i)' = Output(i)
    BY <1>6 DEF Output
  <2>2. \A i : InFile(i) => InFile(i)'
    BY <1>2, <1>6, SameFiles
  <2>3. Validate(config)' <=> Validate(config)
    BY <1>2 DEF Validate
  <2>4. run'.wrote \subseteq {Nothing} \cup {Output(i)' : i \in 1 .. run'.i}
    <3>1. run.wrote \subseteq {Nothing} \cup {Output(i) : i \in 1 .. run.i}
      BY DEF FlowIInv, KeptInv
    <3>2. run.i \in 1 .. run.i
      BY <1>3
    <3>3. QED
      BY <1>4, <1>6, <2>1, <3>1, <3>2
  <2>5. Nothing # Output(run.i) /\ Output(run.i) \notin run.wrote
    BY <1>2 DEF Nothing, Output, FlowIInv, KeptInv
  <2>6. Output(run.i) \in run'.wrote => resp.out = Output(run.i)
    BY <1>4, <1>5, <1>6, <2>5
  <2>7. \A i \in Nat : Output(i) = Output(run.i) => i = run.i
    BY DEF Output
  <2>8. ASSUME Validate(config), NEW i \in DOMAIN config, Output(i) \in run'.wrote, i # run.i
        PROVE  \/ /\ config[i].name \in DOMAIN run.responses
                  /\ run.responses[config[i].name].out = Output(i)
               \/ InFile(i)'
    <3>1. i \in Nat
      BY <2>8, ConfigParts DEF FlowIInv
    <3>2. Output(i) # Nothing /\ Output(i) # Output(run.i)
      BY <2>7, <2>8, <3>1 DEF Nothing, Output
    <3>3. Output(i) \in run.wrote
      BY <1>4, <1>6, <2>8, <3>2
    <3>4. QED
      BY <2>2, <2>8, <3>3 DEF FlowIInv, KeptInv
  <2>9. run'.pc \in InCommand
    BY <1>6 DEF InCommand
  <2>10. Validate(config) => \A i \in DOMAIN config : Output(i) \in run'.wrote =>
            \/ /\ config[i].name \in DOMAIN run'.responses
               /\ run'.responses[config[i].name].out = Output(i)
            \/ i = run'.i /\ run'.pc \in InCommand /\ run'.resp.out = Output(i)
            \/ InFile(i)'
    BY <1>6, <2>6, <2>8, <2>9
  <2>11. (run.pc = "stdout" /\ Output(run.i) \in run.wrote => run.resp.out = Output(run.i))'
    BY <1>6, <2>6 DEF Output
  <2>12. (Validate(config) => \A i \in DOMAIN config : Output(i) \in run.wrote =>
            \/ /\ config[i].name \in DOMAIN run.responses
               /\ run.responses[config[i].name].out = Output(i)
            \/ i = run.i /\ run.pc \in InCommand /\ run.resp.out = Output(i)
            \/ InFile(i))'
    BY <1>2, <2>1, <2>3, <2>10
  <2>13. QED
    BY <1>6, <2>4, <2>11, <2>12 DEF KeptInv
<1>8. run'.pc \in InCommand /\ (run'.ran <=> run'.pc # "exec") /\ run.pc \in InCommand \cup {"action"}
  BY <1>2, <1>6 DEF InCommand
<1>9. ~run'.resp.skipped
  BY <1>5, <1>6
<1>10. QED
  BY <1>2, <1>6, <1>7, <1>8, <1>9, CommandIInv

(* Writing a file *)

LEMMA WrittenOver ==
    ASSUME NEW file, NEW token, disk' = Written(file, token), UNCHANGED <<config, env>>,
           run'.n = run.n, run.lost \subseteq run'.lost, NEW i, InFile(i),
           File(config[i], config[i].stdout) = file => Rewritten(i)
    PROVE  InFile(i)'
<1> DEFINE f == File(config[i], config[i].stdout)
<1>1. Output(i)' = Output(i)
  BY DEF Output
<1>2. CASE Output(i) \in run.lost
  BY <1>1, <1>2 DEF InFile
<1>3. CASE Rewritten(i)
  BY <1>3, FilesStay DEF InFile
<1>4. CASE f \in DOMAIN disk /\ disk[f] = Output(i) /\ f # file
  <2>1. f \in DOMAIN disk' /\ disk'[f] = Output(i)
    BY <1>4 DEF Written
  <2>2. QED
    BY <1>1, <2>1, FilesStay DEF InFile
<1>5. QED
  BY <1>2, <1>3, <1>4 DEF InFile

LEMMA OutputsOfNow ==
    ASSUME FlowIInv, NEW i \in DOMAIN config, Output(i) \in run.wrote
    PROVE  i \in 1 .. run.i
<1>1. i \in Nat
  BY ConfigParts DEF FlowIInv
<1>2. \A j \in 1 .. run.i : Output(j) = Output(i) => j = i
  BY DEF Output
<1>3. Output(i) # Nothing
  BY DEF Output, Nothing
<1>4. QED
  BY <1>2, <1>3 DEF FlowIInv, KeptInv

LEMMA RewrittenLater ==
    ASSUME FlowIInv, run.i <= Len(config), NEW i \in DOMAIN config, i < run.i,
           NEW t \in {Action.stdout, Action.stderr}, t.kind # "none",
           File(config[i], config[i].stdout) = File(Action, t)
    PROVE  Rewritten(i)
<1>1. run.i \in DOMAIN config /\ run.i > i
  BY ConfigParts DEF FlowIInv, FlowTypeOK, Runs
<1>2. QED
  BY <1>1 DEF Rewritten, Action

LEMMA RewrittenAtOnce ==
    ASSUME FlowIInv, run.i <= Len(config), Action.stderr.kind # "none",
           File(Action, Action.stdout) = File(Action, Action.stderr)
    PROVE  Rewritten(run.i)
<1>1. run.i \in DOMAIN config
  BY ConfigParts DEF FlowIInv, FlowTypeOK, Runs
<1>2. Action.stderr.says = Action.stdout.says
  BY DEF File
<1>3. QED
  BY <1>1, <1>2 DEF Rewritten, Action

LEMMA InACommand ==
    ASSUME FlowIInv, run.pc \in {"stdout", "stderr", "code", "fail"}
    PROVE  /\ run \in Runs /\ run.ran /\ ~run.failed /\ run.i <= Len(config)
           /\ run.i \in DOMAIN config /\ run.n \in Nat /\ run.resp \in Replies /\ ~run.resp.skipped
           /\ Options(Action)["command"] /\ Count(Options(Action)) = 1
           /\ WhenIsClear(Action) => env.context[Action.when.key]
<1>1. run \in Runs /\ run.ran /\ ~run.failed /\ run.i <= Len(config)
  BY DEF FlowIInv, FlowTypeOK, WhereInv
<1>2. run.i \in DOMAIN config /\ run.n \in Nat /\ run.resp \in Replies
  BY <1>1, ConfigParts DEF FlowIInv, FlowTypeOK, Runs
<1>3. run.pc \in InCommand
  BY DEF InCommand
<1>4. QED
  BY <1>1, <1>2, <1>3 DEF FlowIInv, WhereInv

(* A step that writes one of the two streams, or fails to. *)
LEMMA StreamIInv ==
    ASSUME FlowIInv, run.pc \in {"stdout", "stderr"}, UNCHANGED <<config, env>>, run' \in Runs,
           run'.n = run.n, run'.i = run.i, run'.responses = run.responses, run'.data = run.data,
           run'.failed = run.failed, ~run'.resp.skipped, run'.ran = run.ran,
           run'.wrote = run.wrote, run'.pc \in {"stderr", "code", "fail"},
           \A i \in DOMAIN config : Output(i) \in run.wrote /\ InFile(i) /\ i < run.i => InFile(i)',
           \A i \in DOMAIN config : i = run.i /\ Validate(config) /\ Output(i) \in run.wrote =>
              \/ /\ config[i].name \in DOMAIN run.responses
                 /\ run.responses[config[i].name].out = Output(i)
              \/ run'.resp.out = Output(i)
              \/ InFile(i)'
    PROVE  FlowIInv'
<1>1. /\ run \in Runs /\ run.ran /\ ~run.failed /\ run.i <= Len(config)
      /\ run.i \in DOMAIN config
      /\ Options(Action)["command"] /\ Count(Options(Action)) = 1
      /\ WhenIsClear(Action) => env.context[Action.when.key]
  BY InACommand
<1>2. \A i : Output(i)' = Output(i)
  BY DEF Output
<1>3. run'.wrote \subseteq {Nothing} \cup {Output(i)' : i \in 1 .. run'.i}
  BY <1>2 DEF FlowIInv, KeptInv
<1>4. Validate(config)' <=> Validate(config)
  BY DEF Validate
<1>5. run'.pc \in InCommand /\ run.pc \in InCommand \cup {"action"} /\ run'.pc # "stdout"
  BY DEF InCommand
<1>6. ASSUME Validate(config), NEW i \in DOMAIN config, Output(i) \in run.wrote
      PROVE  \/ /\ config[i].name \in DOMAIN run'.responses
                /\ run'.responses[config[i].name].out = Output(i)
             \/ i = run'.i /\ run'.pc \in InCommand /\ run'.resp.out = Output(i)
             \/ InFile(i)'
  <2>1. CASE i = run.i
    BY <1>5, <1>6, <2>1
  <2>2. CASE i # run.i
    <3>1. i < run.i
      BY <1>1, <1>6, <2>2, OutputsOfNow DEF Runs
    <3>2. \/ /\ config[i].name \in DOMAIN run.responses
             /\ run.responses[config[i].name].out = Output(i)
          \/ InFile(i)
      BY <1>6, <2>2 DEF FlowIInv, KeptInv
    <3>3. QED
      BY <1>6, <3>1, <3>2
  <2>3. QED
    BY <2>1, <2>2
<1>7. KeptInv'
  BY <1>1, <1>2, <1>3, <1>4, <1>5, <1>6 DEF KeptInv, Output
<1>8. run'.ran <=> run'.pc # "exec"
  BY <1>1
<1>9. QED
  BY <1>1, <1>5, <1>7, <1>8, CommandIInv

LEMMA WriteStdoutIInv == FlowIInv /\ WriteStdout => FlowIInv'
<1> SUFFICES ASSUME FlowIInv, WriteStdout PROVE FlowIInv'
  OBVIOUS
<1> DEFINE file == File(Action, Action.stdout)
<1>1. /\ run.pc = "stdout" /\ UNCHANGED <<config, env>>
      /\ \/ /\ run' = [run EXCEPT !.pc = "stderr"]
            /\ UNCHANGED disk
         \/ /\ Action.stdout.kind # "none"
            /\ run' = [run EXCEPT !.pc = "stderr", !.resp["out"] = Nothing]
            /\ disk' = Written(file, run.resp["out"])
         \/ /\ Action.stdout.kind # "none"
            /\ run' = [run EXCEPT !.pc = "fail", !.resp["out"] = Nothing, !.lost = @ \cup {Token("out")}]
            /\ UNCHANGED disk
  BY DEF WriteStdout, WriteOutput
<1>2. /\ run \in Runs /\ ~run.failed /\ run.i <= Len(config) /\ run.i \in DOMAIN config
      /\ run.n \in Nat /\ run.resp \in Replies /\ ~run.resp.skipped
  BY <1>1, InACommand
<1>3. /\ run.i \in Nat /\ Nothing \in Outputs /\ Token("out") \in Outputs
      /\ Token("out") = Output(run.i)
  BY <1>2 DEF Runs, Outputs, Token, Output
<1>4. [run.resp EXCEPT !.out = Nothing] \in Replies /\ ~[run.resp EXCEPT !.out = Nothing].skipped
  BY <1>2, <1>3 DEF Replies
<1>5. /\ run' \in Runs /\ run'.n = run.n /\ run'.i = run.i /\ run'.responses = run.responses
      /\ run'.data = run.data /\ run'.failed = run.failed /\ run'.ran = run.ran
      /\ run'.wrote = run.wrote /\ run.lost \subseteq run'.lost
      /\ run'.pc \in {"stderr", "fail"} /\ ~run'.resp.skipped
  <2>1. CASE run' = [run EXCEPT !.pc = "stderr"]
    BY <1>2, <2>1 DEF Runs, InCommand
  <2>2. CASE run' = [run EXCEPT !.pc = "stderr", !.resp["out"] = Nothing]
    BY <1>2, <1>4, <2>2 DEF Runs, InCommand
  <2>3. CASE run' = [run EXCEPT !.pc = "fail", !.resp["out"] = Nothing, !.lost = @ \cup {Token("out")}]
    BY <1>2, <1>3, <1>4, <2>3 DEF Runs, InCommand
  <2>4. QED
    BY <1>1, <2>1, <2>2, <2>3
<1>6. ASSUME NEW i \in DOMAIN config, InFile(i), i < run.i
      PROVE  InFile(i)'
  <2>1. CASE UNCHANGED disk
    BY <1>1, <1>5, <1>6, <2>1, SameFiles
  <2>2. CASE Action.stdout.kind # "none" /\ disk' = Written(file, run.resp["out"])
    BY <1>1, <1>2, <1>5, <1>6, <2>2, WrittenOver, RewrittenLater
  <2>3. QED
    BY <1>1, <2>1, <2>2
<1>7. ASSUME NEW i \in DOMAIN config, i = run.i, Output(i) \in run.wrote
      PROVE  run'.resp.out = Output(i) \/ InFile(i)'
  <2>1. run.resp.out = Output(i)
    BY <1>1, <1>7 DEF FlowIInv, KeptInv
  <2>2. Output(i)' = Output(i) /\ config[i] = Action /\ File(Action, Action.stdout)' = file
    <3>1. Action' = Action
      BY <1>1, <1>5 DEF Action
    <3>2. File(Action, Action.stdout)' = file
      BY <1>1, <3>1 DEF File, WorkDir, Rooted
    <3>3. QED
      BY <1>5, <1>7, <3>2 DEF Output, Action
  <2>3. CASE run' = [run EXCEPT !.pc = "stderr"]
    BY <1>2, <2>1, <2>3 DEF Runs
  <2>4. CASE Action.stdout.kind # "none" /\ disk' = Written(file, run.resp["out"])
    <3>1. file \in DOMAIN disk' /\ disk'[file] = Output(i)
      BY <2>1, <2>4 DEF Written
    <3>2. QED
      BY <1>1, <1>5, <2>2, <2>4, <3>1 DEF InFile, Output, File, WorkDir, Rooted
  <2>5. CASE Action.stdout.kind # "none" /\ Token("out") \in run'.lost
    BY <1>1, <1>3, <1>7, <2>2, <2>5 DEF InFile
  <2>6. run' = [run EXCEPT !.pc = "fail", !.resp["out"] = Nothing, !.lost = @ \cup {Token("out")}]
          => Token("out") \in run'.lost
    BY <1>2 DEF Runs
  <2>7. QED
    BY <1>1, <2>3, <2>4, <2>5, <2>6
<1>8. QED
  BY <1>1, <1>5, <1>6, <1>7, StreamIInv

LEMMA WriteStderrIInv == FlowIInv /\ WriteStderr => FlowIInv'
<1> SUFFICES ASSUME FlowIInv, WriteStderr PROVE FlowIInv'
  OBVIOUS
<1> DEFINE file == File(Action, Action.stderr)
<1>1. /\ run.pc = "stderr" /\ UNCHANGED <<config, env>>
      /\ \/ /\ run' = [run EXCEPT !.pc = "code"]
            /\ UNCHANGED disk
         \/ /\ Action.stderr.kind # "none"
            /\ run' = [run EXCEPT !.pc = "code", !.resp["err"] = Nothing]
            /\ disk' = Written(file, run.resp["err"])
         \/ /\ Action.stderr.kind # "none"
            /\ run' = [run EXCEPT !.pc = "fail", !.resp["err"] = Nothing, !.lost = @ \cup {Token("err")}]
            /\ UNCHANGED disk
  BY DEF WriteStderr, WriteOutput
<1>2. /\ run \in Runs /\ ~run.failed /\ run.i <= Len(config) /\ run.i \in DOMAIN config
      /\ run.n \in Nat /\ run.resp \in Replies /\ ~run.resp.skipped
  BY <1>1, InACommand
<1>3. Nothing \in Outputs /\ Token("err") \in Outputs
  BY <1>2 DEF Runs, Outputs, Token
<1>4. /\ [run.resp EXCEPT !.err = Nothing] \in Replies
      /\ ~[run.resp EXCEPT !.err = Nothing].skipped
      /\ [run.resp EXCEPT !.err = Nothing].out = run.resp.out
  BY <1>2, <1>3 DEF Replies
<1>5. /\ run' \in Runs /\ run'.n = run.n /\ run'.i = run.i /\ run'.responses = run.responses
      /\ run'.data = run.data /\ run'.failed = run.failed /\ run'.ran = run.ran
      /\ run'.wrote = run.wrote /\ run.lost \subseteq run'.lost
      /\ run'.pc \in {"code", "fail"} /\ ~run'.resp.skipped /\ run'.resp.out = run.resp.out
  <2>1. CASE run' = [run EXCEPT !.pc = "code"]
    BY <1>2, <2>1 DEF Runs, InCommand
  <2>2. CASE run' = [run EXCEPT !.pc = "code", !.resp["err"] = Nothing]
    BY <1>2, <1>4, <2>2 DEF Runs, InCommand
  <2>3. CASE run' = [run EXCEPT !.pc = "fail", !.resp["err"] = Nothing, !.lost = @ \cup {Token("err")}]
    BY <1>2, <1>3, <1>4, <2>3 DEF Runs, InCommand
  <2>4. QED
    BY <1>1, <2>1, <2>2, <2>3
<1>6. ASSUME NEW i \in DOMAIN config, InFile(i), i <= run.i
      PROVE  InFile(i)'
  <2>1. CASE UNCHANGED disk
    BY <1>1, <1>5, <1>6, <2>1, SameFiles
  <2>2. CASE Action.stderr.kind # "none" /\ disk' = Written(file, run.resp["err"])
    <3>1. CASE i = run.i
      <4>1. config[i] = Action
        BY <3>1 DEF Action
      <4>2. QED
        BY <1>1, <1>2, <1>5, <1>6, <2>2, <3>1, <4>1, WrittenOver, RewrittenAtOnce
    <3>2. CASE i < run.i
      BY <1>1, <1>2, <1>5, <1>6, <2>2, <3>2, WrittenOver, RewrittenLater
    <3>3. i \in Nat /\ run.i \in Nat
      BY <1>2, ConfigParts DEF FlowIInv, Runs
    <3>4. QED
      BY <1>6, <3>1, <3>2, <3>3
  <2>3. QED
    BY <1>1, <2>1, <2>2
<1>7. ASSUME NEW i \in DOMAIN config, i = run.i, Validate(config), Output(i) \in run.wrote
      PROVE  \/ /\ config[i].name \in DOMAIN run.responses
                /\ run.responses[config[i].name].out = Output(i)
             \/ run'.resp.out = Output(i)
             \/ InFile(i)'
  <2>1. i <= run.i
    BY <1>2, <1>7 DEF Runs
  <2>2. QED
    BY <1>5, <1>6, <1>7, <2>1 DEF FlowIInv, KeptInv
<1>8. \A i \in DOMAIN config : i < run.i => i <= run.i
  BY <1>2, ConfigParts DEF FlowIInv, Runs
<1>9. QED
  BY <1>1, <1>5, <1>6, <1>7, <1>8, StreamIInv

LEMMA CheckCodeIInv == FlowIInv /\ CheckCode => FlowIInv'
<1> SUFFICES ASSUME FlowIInv, CheckCode PROVE FlowIInv'
  OBVIOUS
<1>1. run.pc = "code" /\ UNCHANGED <<config, env, disk>>
  BY DEF CheckCode
<1>2. /\ run \in Runs /\ run.ran /\ ~run.failed /\ run.i <= Len(config) /\ run.i \in DOMAIN config
      /\ run.n \in Nat /\ run.resp \in Replies /\ ~run.resp.skipped
      /\ Options(Action)["command"] /\ Count(Options(Action)) = 1
      /\ WhenIsClear(Action) => env.context[Action.when.key]
  BY <1>1, InACommand
<1>3. CASE run' = [run EXCEPT !.pc = "fail"]
  <2>1. /\ run' \in Runs /\ run'.n = run.n /\ run'.i = run.i /\ run'.responses = run.responses
        /\ run'.data = run.data /\ run'.failed = run.failed /\ run'.resp = run.resp
        /\ run'.ran = run.ran /\ run'.wrote = run.wrote /\ run'.lost = run.lost
        /\ run'.pc = "fail"
    BY <1>2, <1>3 DEF Runs, InCommand
  <2>2. run'.pc \in InCommand \ {"stdout"} /\ run.pc \in InCommand \cup {"action"}
    BY <1>1, <2>1 DEF InCommand
  <2>3. QED
    BY <1>1, <1>2, <2>1, <2>2, UnwrittenIInv
<1>4. CASE Succeed(run.resp) /\ ~(Action.failIfNonZeroCode /\ run.resp.exit # 0)
  <2>1. ~Action.result.set
    <3>1. DOMAIN Options(Action) = {"trigger", "result", "command", "script", "script_file"}
      BY DEF Options
    <3>2. ~Options(Action)["result"]
      BY <1>2, <3>1, OneKind
    <3>3. QED
      BY <3>2 DEF Options
  <2>2. WhenIsClear(Action) => run.resp.skipped = ~env.context[Action.when.key]
    <3>1. run.n > 0
      BY <1>1, <1>2 DEF FlowIInv, WhereInv
    <3>2. WhenIsClear(Action) => env.context[Action.when.key] \in BOOLEAN
      BY <3>1, ContextIsBoolean DEF FlowIInv
    <3>3. run.resp.skipped \in BOOLEAN
      BY <1>2 DEF Replies
    <3>4. QED
      BY <1>2, <3>2, <3>3
  <2>3. ASSUME Validate(config), Output(run.i) \in run.wrote
        PROVE  run.resp.out = Output(run.i) \/ InFile(run.i)
    <3>1. config[run.i].name \notin DOMAIN run.responses
      <4>1. run.n > 0
        BY <1>1, <1>2 DEF FlowIInv, WhereInv
      <4>2. DOMAIN run.responses = {config[l].name : l \in {j \in DOMAIN config : j < run.i}}
        BY <1>2, <2>3, <4>1 DEF FlowIInv, ResponsesTellTruth, Reached
      <4>3. \A l \in DOMAIN config : l < run.i => config[l].name # config[run.i].name
        <5>1. run.i \in Nat
          BY <1>2 DEF Runs
        <5>2. \A l \in DOMAIN config : l < run.i => l # run.i
          BY <5>1
        <5>3. QED
          BY <1>2, <2>3, <5>2, NamesDiffer DEF FlowIInv
      <4>4. QED
        BY <4>2, <4>3
    <3>2. QED
      BY <1>2, <2>3, <3>1 DEF FlowIInv, KeptInv
  <2>4. QED
    BY <1>1, <1>2, <1>4, <2>1, <2>2, <2>3, SucceedIInv
<1>5. QED
  BY <1>3, <1>4 DEF CheckCode

LEMMA FailCommandIInv == FlowIInv /\ FailCommand => FlowIInv'
<1> SUFFICES ASSUME FlowIInv, FailCommand PROVE FlowIInv'
  OBVIOUS
<1>1. /\ run.pc = "fail" /\ UNCHANGED <<config, env, disk>>
      /\ Fail(Record(Action.name, run.resp))
  BY DEF FailCommand
<1>2. run.i <= Len(config)
  BY <1>1, InACommand
<1>3. QED
  BY <1>1, <1>2, FailIInv

-----------------------------------------------------------------------------
(* The other actions *)

LEMMA BeginRunIInv == FlowIInv /\ Begin => FlowIInv'
<1> SUFFICES ASSUME FlowIInv, Begin PROVE FlowIInv'
  OBVIOUS
<1>1. /\ run' = NewRun(run.n + 1, "action") /\ env' \in Envs /\ UNCHANGED <<config, disk>>
  BY DEF Begin
<1>2. config \in Configs /\ run.n \in Nat /\ Len(config) \in Nat /\ DOMAIN config = 1 .. Len(config)
  BY ConfigParts DEF FlowIInv, FlowTypeOK, Runs
<1>3. /\ run'.n = run.n + 1 /\ run'.pc = "action" /\ run'.i = 1 /\ run'.responses = <<>>
      /\ run'.data = 0 /\ run'.failed = FALSE /\ run'.resp = NewActionResponse
      /\ run'.ran = FALSE /\ run'.wrote = {} /\ run'.lost = {}
  BY <1>1 DEF NewRun
<1>4. <<>> \in UNION {[S -> Replies] : S \in SUBSET ActionNames} /\ DOMAIN <<>> = {}
  <2>1. <<>> \in [{} -> Replies] /\ {} \in SUBSET ActionNames
    OBVIOUS
  <2>2. QED
    BY <2>1
<1>5. FlowTypeOK'
  <2>1. run' \in Runs
    <3>1. NewActionResponse \in Replies /\ run.n + 1 \in Nat
      BY <1>2, NewResponse
    <3>2. QED
      BY <1>1, <1>4, <3>1 DEF NewRun, Runs
  <2>2. QED
    BY <1>1, <1>2, <2>1 DEF FlowTypeOK, Runs, ActionNames
<1>6. WhereInv'
  BY <1>2, <1>3, NewResponse DEF WhereInv, InCommand
<1>7. ResponsesTellTruth'
  BY <1>1, <1>2, <1>3, <1>4 DEF ResponsesTellTruth, Reached
<1>8. KeptInv'
  BY <1>3 DEF KeptInv
<1>9. QED
  BY <1>5, <1>6, <1>7, <1>8 DEF FlowIInv

LEMMA RefuseIInv == FlowIInv /\ Refuse => FlowIInv'
<1> SUFFICES ASSUME FlowIInv, Refuse PROVE FlowIInv'
  OBVIOUS
<1> DEFINE w == ActionWhen(Action, js)
           skipped == [NewActionResponse EXCEPT !.skipped = TRUE]
<1>1. /\ run.pc = "action" /\ run.i <= Len(config) /\ UNCHANGED <<config, env, disk>>
      /\ \/ Fail(run.responses)
         \/ w.ok /\ ~w.val /\ Succeed(skipped)
  BY DEF Refuse, ValueToBool
<1>2. CASE Fail(run.responses)
  BY <1>1, <1>2, FailIInv
<1>3. CASE w.ok /\ ~w.val /\ Succeed(skipped)
  <2>1. skipped \in Replies /\ skipped.skipped = TRUE /\ skipped.exit = 0
    BY NewResponse DEF Replies
  <2>2. WhenIsClear(Action) => skipped.skipped = ~env.context[Action.when.key]
    BY <1>3, <2>1, WhenHolds
  <2>3. Output(run.i) \notin run.wrote
    BY <1>1 DEF FlowIInv, WhereInv, KeptInv
  <2>4. QED
    BY <1>1, <1>3, <2>1, <2>2, <2>3, SucceedIInv
<1>4. QED
  BY <1>1, <1>2, <1>3

(* An action that is run, and is not a result or a command, and succeeds. *)
LEMMA DoneIInv ==
    ASSUME FlowIInv, NEW k \in {"trigger", "result", "script", "script_file"}, Acting(k),
           UNCHANGED <<config, env, disk>>, Succeed(NewActionResponse),
           k # "result" \/ Action.result.script.kind = "none"
    PROVE  FlowIInv'
<1>1. /\ run.pc = "action" /\ run.i <= Len(config)
      /\ Options(Action)[k] /\ Count(Options(Action)) = 1
      /\ ActionWhen(Action, js).ok /\ ActionWhen(Action, js).val
  BY DEF Acting, ValueToBool
<1>2. Action.result.set => Action.result.script.kind = "none"
  <2>1. DOMAIN Options(Action) = {"trigger", "result", "command", "script", "script_file"}
    BY DEF Options
  <2>2. Options(Action)["result"] => k = "result"
    BY <1>1, <2>1, OneKind
  <2>3. QED
    BY <2>2 DEF Options
<1>3. WhenIsClear(Action) => NewActionResponse.skipped = ~env.context[Action.when.key]
  <2>1. run.n > 0
    BY <1>1 DEF FlowIInv, WhereInv, FlowTypeOK, Runs
  <2>2. WhenIsClear(Action) => env.context[Action.when.key] = TRUE
    BY <1>1, <2>1, WhenHolds, ContextIsBoolean DEF FlowIInv
  <2>3. NewActionResponse.skipped = FALSE
    BY DEF NewActionResponse
  <2>4. QED
    BY <2>2, <2>3
<1>4. Output(run.i) \notin run.wrote
  BY <1>1 DEF FlowIInv, WhereInv, KeptInv
<1>5. NewActionResponse \in Replies /\ NewActionResponse.exit = 0
  BY NewResponse
<1>6. QED
  BY <1>1, <1>2, <1>3, <1>4, <1>5, SucceedIInv

LEMMA RunActionResultIInv == FlowIInv /\ RunActionResult => FlowIInv'
<1> SUFFICES ASSUME FlowIInv, RunActionResult PROVE FlowIInv'
  OBVIOUS
<1> DEFINE resulted == [run EXCEPT !.i = @ + 1, !.data = run.i,
                              !.responses = Record(Action.name, NewActionResponse)]
<1>1. /\ run.pc = "action" /\ run.i <= Len(config) /\ UNCHANGED <<config, env, disk>>
      /\ Acting("result")
      /\ ActionWhen(Action, js).ok /\ ActionWhen(Action, js).val
      /\ \/ Action.result.script.kind = "none" /\ Succeed(NewActionResponse)
         \/ run' = resulted
         \/ Fail(run.responses)
  BY DEF RunActionResult, Acting, ValueToBool
<1>2. CASE Action.result.script.kind = "none" /\ Succeed(NewActionResponse)
  BY <1>1, <1>2, DoneIInv
<1>3. CASE Fail(run.responses)
  BY <1>1, <1>3, FailIInv
<1>4. CASE run' = resulted
  <2>1. run \in Runs /\ ~run.failed /\ ~run.ran /\ ~run.resp.skipped
    BY <1>1 DEF FlowIInv, FlowTypeOK, WhereInv
  <2>2. /\ NewActionResponse \in Replies /\ run.i + 1 \in Nat \ {0} /\ run.i \in Nat
        /\ NewActionResponse.exit = 0
    BY <2>1, NewResponse DEF Runs
  <2>3. Record(Action.name, NewActionResponse) \in UNION {[S -> Replies] : S \in SUBSET ActionNames}
    BY <1>1, <2>2, Recorded DEF FlowIInv
  <2>4. /\ run' \in Runs /\ run'.n = run.n /\ run'.pc = "action" /\ run'.i = run.i + 1
        /\ run'.responses = Record(Action.name, NewActionResponse)
        /\ run'.failed = run.failed /\ run'.ran = run.ran /\ run'.resp = run.resp
        /\ run'.wrote = run.wrote /\ run'.lost = run.lost /\ run'.data = run.i
    BY <1>1, <1>4, <2>1, <2>2, <2>3 DEF Runs
  <2>5. WhenIsClear(Action) => NewActionResponse.skipped = ~env.context[Action.when.key]
    <3>1. run.n > 0
      BY <1>1 DEF FlowIInv, WhereInv, FlowTypeOK, Runs
    <3>2. WhenIsClear(Action) => env.context[Action.when.key] = TRUE
      BY <1>1, <3>1, WhenHolds, ContextIsBoolean DEF FlowIInv
    <3>3. NewActionResponse.skipped = FALSE
      BY DEF NewActionResponse
    <3>4. QED
      BY <3>2, <3>3
  <2>6. Output(run.i) \notin run.wrote
    BY <2>1 DEF FlowIInv, KeptInv
  <2>7. QED
    BY <1>1, <2>1, <2>2, <2>4, <2>5, <2>6, PassedIInv
<1>5. QED
  BY <1>1, <1>2, <1>3, <1>4

LEMMA OtherActionsIInv ==
    ASSUME FlowIInv, RunActionTrigger \/ RunActionScript \/ RunActionScriptFile
    PROVE  FlowIInv'
<1>1. PICK k \in {"trigger", "script", "script_file"} :
        /\ Acting(k) /\ UNCHANGED <<config, env, disk>>
        /\ Succeed(NewActionResponse) \/ Fail(run.responses)
  BY DEF RunActionTrigger, RunActionScript, RunActionScriptFile, RunScriptCode
<1>2. run.pc = "action" /\ run.i <= Len(config)
  BY <1>1 DEF Acting
<1>3. QED
  BY <1>1, <1>2, DoneIInv, FailIInv

LEMMA QuietActionsIInv ==
    ASSUME FlowIInv,
           CancelRun \/ End \/ (\E t \in async : CallTrigger(t)) \/ UNCHANGED flowVars
    PROVE  FlowIInv'
<1>1. run \in Runs /\ UNCHANGED <<config, disk, env>>
  BY DEF FlowIInv, FlowTypeOK, CancelRun, End, CallTrigger, flowVars
<1>2. \/ run' = [run EXCEPT !.ctx = "cancelled"]
      \/ run.pc = "action" /\ run' = [run EXCEPT !.pc = "returned"]
      \/ run' = run
  BY DEF CancelRun, End, CallTrigger, flowVars
<1>3. /\ run' \in Runs /\ run'.n = run.n /\ run'.i = run.i /\ run'.responses = run.responses
      /\ run'.data = run.data /\ run'.failed = run.failed /\ run'.resp = run.resp
      /\ run'.ran = run.ran /\ run'.wrote = run.wrote /\ run'.lost = run.lost
      /\ run'.pc = run.pc \/ (run.pc = "action" /\ run'.pc = "returned")
  BY <1>1, <1>2 DEF Runs
<1>4. QED
  BY <1>1, <1>3, QuietIInv

LEMMA FlowInitIInv == FlowInit => FlowIInv
<1> SUFFICES ASSUME FlowInit PROVE FlowIInv
  OBVIOUS
<1>1. /\ run = NewRun(0, "idle") /\ config \in Configs
  BY DEF FlowInit
<1>2. /\ run.n = 0 /\ run.pc = "idle" /\ run.i = 1 /\ run.responses = <<>>
      /\ run.data = 0 /\ run.failed = FALSE /\ run.resp = NewActionResponse
      /\ run.ran = FALSE /\ run.wrote = {} /\ run.lost = {}
  BY <1>1 DEF NewRun
<1>3. <<>> \in UNION {[S -> Replies] : S \in SUBSET ActionNames}
  <2>1. <<>> \in [{} -> Replies] /\ {} \in SUBSET ActionNames
    OBVIOUS
  <2>2. QED
    BY <2>1
<1>4. FlowTypeOK
  <2>1. NewActionResponse \in Replies
    BY NewResponse
  <2>2. run \in Runs
    BY <1>1, <1>3, <2>1 DEF NewRun, Runs
  <2>3. QED
    BY <1>1, <1>2, <2>2 DEF FlowTypeOK
<1>5. Len(config) \in Nat
  BY <1>4, ConfigParts
<1>6. WhereInv
  BY <1>2, <1>5, NewResponse DEF WhereInv, InCommand
<1>7. ResponsesTellTruth
  BY <1>2 DEF ResponsesTellTruth
<1>8. KeptInv
  BY <1>2 DEF KeptInv
<1>9. QED
  BY <1>4, <1>6, <1>7, <1>8 DEF FlowIInv

LEMMA FlowSpecIInv == FlowSpec => []FlowIInv
<1>1. FlowIInv /\ [FlowNext]_flowVars => FlowIInv'
  BY BeginRunIInv, RefuseIInv, RunActionResultIInv, OtherActionsIInv, PrepareCommandIInv, ExecIInv,
     WriteStdoutIInv, WriteStderrIInv, CheckCodeIInv, FailCommandIInv, QuietActionsIInv
  DEF FlowNext
<1>2. QED
  BY FlowInitIInv, <1>1, PTL DEF FlowSpec

(* The responses of a Run are those of the actions it went through, skipped exactly when its  *)
(* own environment says so (flow.go Run), for any actions, environments and number of Runs.   *)
THEOREM ResponsesAreTrue == FlowSpec => []ResponsesTellTruth
<1>1. FlowIInv => ResponsesTellTruth
  BY DEF FlowIInv
<1>2. QED
  BY <1>1, FlowSpecIInv, PTL

(* The standard output of a command is in its response or in its file, unless a write failed  *)
(* or the same file was written again (flow.go runActionCommand).                             *)
THEOREM NoOutputIsLost == FlowSpec => []OutputIsKept
<1>1. FlowIInv => OutputIsKept
  <2> SUFFICES ASSUME FlowIInv, NEW i \in DOMAIN config,
                      Reached(i) \/ (i = run.i /\ run.pc = "returned" /\ run.ran),
                      Validate(config), Output(i) \in run.wrote
               PROVE  \/ /\ config[i].name \in DOMAIN run.responses
                         /\ run.responses[config[i].name].out = Output(i)
                      \/ \E f \in DOMAIN disk : disk[f] = Output(i)
                      \/ Output(i) \in run.lost
                      \/ config[i].stdout.kind # "none" /\ Rewritten(i)
    BY DEF OutputIsKept, Output
  <2>1. ~(i = run.i /\ run.pc \in InCommand)
    BY ConfigParts DEF Reached, InCommand, FlowIInv, FlowTypeOK, Runs
  <2>2. \/ /\ config[i].name \in DOMAIN run.responses
           /\ run.responses[config[i].name].out = Output(i)
        \/ InFile(i)
    BY <2>1 DEF FlowIInv, KeptInv
  <2>3. QED
    BY <2>2 DEF InFile
<1>2. QED
  BY <1>1, FlowSpecIInv, PTL

-----------------------------------------------------------------------------
(* The generator: gen/gen.go, gen/api.go, and the handlers it writes. *)

(* Lists.  A list is a sequence, of whatever it holds. *)

LEMMA ListDef ==
    ASSUME NEW s, IsList(s)
    PROVE  /\ s \in Seq(ToSet(s)) /\ Len(s) \in Nat /\ DOMAIN s = 1 .. Len(s)
           /\ \A i \in DOMAIN s : s[i] \in ToSet(s)
BY DEF IsList, ToSet

LEMMA ListOfSeq ==
    ASSUME NEW X, NEW s \in Seq(X)
    PROVE  IsList(s) /\ ToSet(s) \subseteq X
<1>1. s \in [1 .. Len(s) -> X] /\ Len(s) \in Nat /\ DOMAIN s = 1 .. Len(s)
  OBVIOUS
<1>2. s \in [1 .. Len(s) -> ToSet(s)]
  BY <1>1 DEF ToSet
<1>3. s \in Seq(ToSet(s))
  BY <1>1, <1>2
<1>4. QED
  BY <1>1, <1>3 DEF IsList, ToSet

LEMMA ConcatLists ==
    ASSUME NEW s, NEW t, IsList(s), IsList(t)
    PROVE  IsList(s \o t) /\ ToSet(s \o t) = ToSet(s) \cup ToSet(t)
<1> DEFINE X == ToSet(s) \cup ToSet(t)
<1>1. s \in Seq(X) /\ t \in Seq(X)
  BY ListDef
<1> HIDE DEF X
<1>2. /\ s \o t \in Seq(X) /\ Len(s \o t) = Len(s) + Len(t)
      /\ \A i \in 1 .. Len(s) + Len(t) :
            (s \o t)[i] = IF i <= Len(s) THEN s[i] ELSE t[i - Len(s)]
  BY <1>1
<1>3. IsList(s \o t) /\ ToSet(s \o t) \subseteq X
  BY <1>2, ListOfSeq
<1>4. ASSUME NEW x \in ToSet(s) PROVE x \in ToSet(s \o t)
  <2>1. PICK i \in 1 .. Len(s) : s[i] = x
    BY ListDef DEF ToSet
  <2>2. i \in DOMAIN (s \o t) /\ (s \o t)[i] = x
    BY <1>1, <1>2, <2>1
  <2>3. QED
    BY <2>2 DEF ToSet
<1>5. ASSUME NEW x \in ToSet(t) PROVE x \in ToSet(s \o t)
  <2>1. PICK i \in 1 .. Len(t) : t[i] = x
    BY ListDef DEF ToSet
  <2>2. Len(s) + i \in DOMAIN (s \o t) /\ (s \o t)[Len(s) + i] = x
    BY <1>1, <1>2, <2>1
  <2>3. QED
    BY <2>2 DEF ToSet
<1>6. QED
  BY <1>3, <1>4, <1>5 DEF X

LEMMA TailOfList ==
    ASSUME NEW s, IsList(s), s # <<>>
    PROVE  IsList(Tail(s)) /\ ToSet(s) = {Head(s)} \cup ToSet(Tail(s))
<1> DEFINE X == ToSet(s)
<1>1. s \in Seq(X)
  BY ListDef
<1>2. /\ Tail(s) \in Seq(X) /\ Len(Tail(s)) = Len(s) - 1 /\ Len(s) \in Nat /\ Len(s) # 0
      /\ \A i \in 1 .. Len(s) - 1 : Tail(s)[i] = s[i + 1]
      /\ Head(s) = s[1]
  <2> HIDE DEF X
  <2>1. QED
    BY <1>1
<1>3. IsList(Tail(s)) /\ ToSet(Tail(s)) \subseteq X
  BY <1>2, ListOfSeq
<1>4. Head(s) \in X
  BY <1>1, <1>2 DEF ToSet
<1>5. ASSUME NEW x \in X, x # Head(s) PROVE x \in ToSet(Tail(s))
  <2>1. PICK i \in 1 .. Len(s) : s[i] = x
    BY ListDef DEF ToSet
  <2>2. i - 1 \in 1 .. Len(s) - 1 /\ Tail(s)[i - 1] = x
    BY <1>2, <1>5, <2>1
  <2>3. i - 1 \in DOMAIN Tail(s)
    BY <1>2, <2>2
  <2>4. QED
    BY <2>2, <2>3 DEF ToSet
<1>6. QED
  BY <1>3, <1>4, <1>5

LEMMA OneList ==
    ASSUME NEW x
    PROVE  IsList(<<x>>) /\ ToSet(<<x>>) = {x}
BY DEF IsList, ToSet

LEMMA NoList == IsList(<<>>) /\ ToSet(<<>>) = {}
BY DEF IsList, ToSet

(* < is well-founded on the numbers: the least counterexample stands for an induction. *)
LEMMA LeastNumber ==
    ASSUME NEW S \in SUBSET Nat, S # {}
    PROVE  \E m \in S : \A n \in S : m <= n
<1> DEFINE R == {ss \in Nat \X Nat : ss[1] < ss[2]}
<1>1. IsWellFoundedOn(R, Nat)
  BY NatLessThanWellFounded DEF OpToRel
<1>2. \A x, y \in S : ~(<<y, x>> \in R) => x <= y
  OBVIOUS
<1> HIDE DEF R
<1>3. \E x \in S : \A y \in S : ~(<<y, x>> \in R)
  BY <1>1, WFMin
<1>4. QED
  BY <1>2, <1>3

(* What holds at 0 and, wherever it holds, at the next number. *)
LEMMA UpTo ==
    ASSUME NEW n \in Nat, NEW S, 0 \in S, \A i \in 0 .. n - 1 : i \in S => i + 1 \in S
    PROVE  0 .. n \subseteq S
<1> DEFINE T == (0 .. n) \ S
<1> SUFFICES ASSUME T # {} PROVE FALSE
  OBVIOUS
<1>1. T \in SUBSET Nat
  OBVIOUS
<1> HIDE DEF T
<1>2. PICK k \in T : \A l \in T : k <= l
  BY <1>1, LeastNumber
<1>3. k \in 0 .. n /\ k \notin S /\ k # 0
  BY DEF T
<1>4. k - 1 \in 0 .. n - 1 /\ k - 1 \in 0 .. n /\ ~(k <= k - 1) /\ k - 1 + 1 = k
  BY <1>3
<1>5. k - 1 \in S
  BY <1>2, <1>4 DEF T
<1>6. QED
  BY <1>3, <1>4, <1>5

(* The first error of a list of verdicts. *)
LEMMA FirstError ==
    ASSUME NEW s, IsList(s)
    PROVE  /\ FirstOf(s) = NoErr <=> \A i \in DOMAIN s : s[i] = NoErr
           /\ FirstOf(s) # NoErr => FirstOf(s) \in ToSet(s)
<1> DEFINE bad == {i \in DOMAIN s : s[i] # NoErr}
<1>1. CASE bad = {}
  BY <1>1 DEF FirstOf
<1>2. CASE bad # {}
  <2>1. bad \in SUBSET Nat
    BY ListDef
  <2>2. PICK k \in bad : \A j \in bad : k <= j
    <3> HIDE DEF bad
    <3>1. QED
      BY <1>2, <2>1, LeastNumber
  <2>3. \E i \in bad : \A j \in bad : i <= j
    BY <2>2
  <2>4. (CHOOSE i \in bad : \A j \in bad : i <= j) \in bad
    <3> HIDE DEF bad
    <3>1. QED
      BY <2>3
  <2>5. FirstOf(s) = s[CHOOSE i \in bad : \A j \in bad : i <= j]
    BY <1>2 DEF FirstOf
  <2>6. QED
    BY <2>4, <2>5 DEF ToSet
<1>3. QED
  BY <1>1, <1>2

-----------------------------------------------------------------------------
(* A request on its way through the middlewares and the handler. *)

Passes(f, n, middlewares, req) ==
    f = [i \in 0 .. n |-> IF i = 0 THEN [ctx |-> NewCtx, stopped |-> FALSE]
                          ELSE Pass(req, f[i - 1], middlewares[i])]

LEMMA PassesExists ==
    ASSUME NEW middlewares, NEW req, NEW n \in Nat
    PROVE  \E f : Passes(f, n, middlewares, req)
<1> DEFINE start == [ctx |-> NewCtx, stopped |-> FALSE]
           S == {k \in 0 .. n : \E f : Passes(f, k, middlewares, req)}
<1>1. 0 \in S
  <2>1. Passes([i \in 0 .. 0 |-> start], 0, middlewares, req)
    BY DEF Passes
  <2>2. QED
    BY <2>1
<1>2. ASSUME NEW k \in 0 .. n - 1, k \in S PROVE k + 1 \in S
  <2>1. PICK f : Passes(f, k, middlewares, req)
    BY <1>2
  <2> DEFINE g == [i \in 0 .. k + 1 |->
                      IF i = k + 1 THEN Pass(req, f[k], middlewares[i]) ELSE f[i]]
  <2>2. ASSUME NEW i \in 0 .. k + 1
        PROVE  g[i] = IF i = 0 THEN start ELSE Pass(req, g[i - 1], middlewares[i])
    <3>1. i \in 0 .. k => f[i] = IF i = 0 THEN start ELSE Pass(req, f[i - 1], middlewares[i])
      BY <2>1, Zenon DEF Passes
    <3>2. CASE i = k + 1
      <4>1. i # 0 /\ i - 1 = k /\ k \in 0 .. k + 1 /\ k # k + 1
        BY <3>2
      <4>2. g[i - 1] = f[k]
        BY <4>1
      <4>3. QED
        BY <3>2, <4>1, <4>2
    <3>3. CASE i # k + 1
      <4>1. i \in 0 .. k /\ (i # 0 => i - 1 \in 0 .. k + 1 /\ i - 1 # k + 1)
        BY <3>3
      <4>2. QED
        BY <3>1, <3>3, <4>1
    <3>4. QED
      BY <3>2, <3>3
  <2>3. g = [i \in 0 .. k + 1 |-> IF i = 0 THEN start ELSE Pass(req, g[i - 1], middlewares[i])]
    BY <2>2
  <2>4. Passes(g, k + 1, middlewares, req)
    <3> HIDE DEF g
    <3>1. QED
      BY <2>3 DEF Passes
  <2>5. k + 1 \in 0 .. n
    OBVIOUS
  <2>6. QED
    BY <2>4, <2>5
<1>3. 0 .. n \subseteq S
  <2> HIDE DEF S
  <2>1. QED
    BY <1>1, <1>2, UpTo
<1>4. n \in S
  BY <1>3
<1>5. QED
  BY <1>4

LEMMA ThroughIs ==
    ASSUME NEW req, NEW middlewares, Len(middlewares) \in Nat
    PROVE  \E f : /\ Passes(f, Len(middlewares), middlewares, req)
                  /\ Through(middlewares, req) = f[Len(middlewares)]
<1> DEFINE n == Len(middlewares)
           g == CHOOSE f : Passes(f, n, middlewares, req)
<1>1. Passes(g, n, middlewares, req)
  <2>1. \E f : Passes(f, n, middlewares, req)
    BY PassesExists
  <2>2. QED
    BY <2>1
<1>2. Through(middlewares, req) = g[n]
  BY DEF Through, Passes
<1>3. QED
  BY <1>1, <1>2

Formats == {"json", "application/protobuf", "application/x-protobuf", "unknown"}

LEMMA FormatIs ==
    ASSUME NEW header
    PROVE  getAcceptFormat(header) \in Formats
<1>1. \A type : mediaTypeToFormat(type) \in Formats
  BY DEF mediaTypeToFormat, Formats
<1>2. QED
  BY <1>1 DEF getAcceptFormat, Formats

(* What the middlewares can make of a request, and of which they are. *)
Ids(req) == {"none", "generated", req.id}
Ctxs(ids) ==
    [status : {200}, type : Formats \cup {"none"}, body : {"none", "ok"},
     headers : SUBSET {"Access-Control-Allow"}, renderer : BOOLEAN, id : ids, error : {FALSE}]
Passing(req) == [ctx : Ctxs(Ids(req)), stopped : BOOLEAN]

PassedBy(at, req, names) ==
    /\ at \in Passing(req)
    /\ at.stopped <=> req.method = "OPTIONS" /\ "cors" \in names
    /\ ~at.stopped => (at.ctx.renderer <=> "renderer" \in names)

LEMMA CtxStep ==
    ASSUME NEW ids, NEW context \in Ctxs(ids)
    PROVE  /\ [context EXCEPT !.renderer = TRUE] \in Ctxs(ids)
           /\ [context EXCEPT !.renderer = TRUE].renderer = TRUE
           /\ addHeaders(context) \in Ctxs(ids) /\ addHeaders(context).renderer = context.renderer
           /\ \A req : EmptyOk(context, req) \in Ctxs(ids)
<1>1. ASSUME NEW type \in Formats
      PROVE  [context EXCEPT !.status = 200, !.type = type, !.body = "ok"] \in Ctxs(ids)
  BY <1>1 DEF Ctxs
<1>2. ASSUME NEW req PROVE EmptyOk(context, req) \in Ctxs(ids)
  <2>1. getAcceptFormat(req.accept) \in Formats
    BY FormatIs
  <2>2. EmptyOk(context, req) = context
        \/ EmptyOk(context, req) =
            [context EXCEPT !.status = 200, !.type = getAcceptFormat(req.accept), !.body = "ok"]
    BY DEF EmptyOk, Ok, withResponseRenderer, renderResponse
  <2>3. QED
    BY <1>1, <2>1, <2>2
<1>3. addHeaders(context) \in Ctxs(ids) /\ addHeaders(context).renderer = context.renderer
  BY DEF Ctxs, addHeaders
<1>4. QED
  BY <1>2, <1>3 DEF Ctxs

LEMMA PassStep ==
    ASSUME NEW at, NEW req, NEW names, NEW m \in {"metadata", "renderer", "cors"},
           PassedBy(at, req, names)
    PROVE  PassedBy(Pass(req, at, m), req, names \cup {m})
<1> DEFINE to == Pass(req, at, m)
           ids == Ids(req)
<1>1. at \in Passing(req) /\ at.stopped \in BOOLEAN /\ at.ctx \in Ctxs(ids)
      /\ at = [ctx |-> at.ctx, stopped |-> at.stopped]
  BY DEF PassedBy, Passing
<1>a. \A context : context \in Ctxs(ids) => [at EXCEPT !.ctx = context] \in Passing(req)
                                    /\ [at EXCEPT !.ctx = context].ctx = context
                                    /\ [at EXCEPT !.ctx = context].stopped = at.stopped
  BY <1>1 DEF Passing
<1>2. CASE at.stopped
  <2>1. to = at
    BY <1>2 DEF Pass
  <2>2. QED
    BY <1>2, <2>1 DEF PassedBy
<1>3. CASE ~at.stopped /\ m = "renderer"
  <2> DEFINE context == [at.ctx EXCEPT !.renderer = TRUE]
  <2>1. to = [at EXCEPT !.ctx = context]
    BY <1>3 DEF Pass, ResponseRendererMiddleware
  <2>2. context \in Ctxs(ids) /\ context.renderer = TRUE
    BY <1>1, CtxStep
  <2> HIDE DEF context
  <2>3. to \in Passing(req) /\ to.stopped = at.stopped /\ to.ctx.renderer = TRUE
    BY <1>a, <2>1, <2>2
  <2>4. QED
    BY <1>3, <2>3 DEF PassedBy
<1>4. CASE ~at.stopped /\ m = "metadata"
  <2> DEFINE id == IF req.id = "" THEN "generated" ELSE req.id
         context == [at.ctx EXCEPT !.id = id]
  <2>1. to = [at EXCEPT !.ctx = context]
    BY <1>4 DEF Pass, RequestMetadataMiddleware
  <2>2. id \in ids
    BY DEF Ids
  <2>3. context \in Ctxs(ids) /\ context.renderer = at.ctx.renderer
    <3> HIDE DEF id, ids
    <3>1. QED
      BY <1>1, <2>2 DEF Ctxs
  <2> HIDE DEF context
  <2>4. to \in Passing(req) /\ to.stopped = at.stopped /\ to.ctx.renderer = at.ctx.renderer
    BY <1>a, <2>1, <2>3
  <2>5. QED
    BY <1>4, <2>4 DEF PassedBy
<1>5. CASE ~at.stopped /\ m = "cors"
  <2> DEFINE context == addHeaders(at.ctx)
  <2>1. to = IF req.method = "OPTIONS" THEN [ctx |-> EmptyOk(context, req), stopped |-> TRUE]
             ELSE [at EXCEPT !.ctx = context]
    BY <1>5 DEF Pass, CorsMiddleware
  <2>2. context \in Ctxs(ids) /\ context.renderer = at.ctx.renderer
    BY <1>1, CtxStep
  <2>3. EmptyOk(context, req) \in Ctxs(ids)
    BY <2>2, CtxStep
  <2> HIDE DEF context
  <2>4. CASE req.method = "OPTIONS"
    <3>1. to \in Passing(req) /\ to.stopped = TRUE
      BY <2>1, <2>3, <2>4 DEF Passing
    <3>2. "cors" \in names \cup {m}
      BY <1>5
    <3>3. QED
      BY <2>4, <3>1, <3>2 DEF PassedBy
  <2>5. CASE req.method # "OPTIONS"
    <3>1. /\ to \in Passing(req) /\ to.stopped = at.stopped /\ to.ctx.renderer = at.ctx.renderer
      BY <1>a, <2>1, <2>2, <2>5
    <3>2. QED
      BY <1>5, <2>5, <3>1 DEF PassedBy
  <2>6. QED
    BY <2>4, <2>5
<1>6. QED
  BY <1>2, <1>3, <1>4, <1>5

LEMMA ThroughMiddlewares ==
    ASSUME NEW req, NEW middlewares \in Seq({"metadata", "renderer", "cors"})
    PROVE  PassedBy(Through(middlewares, req), req, ToSet(middlewares))
<1> DEFINE n == Len(middlewares)
           names(i) == {middlewares[j] : j \in 1 .. i}
<1>1. n \in Nat /\ DOMAIN middlewares = 1 .. n
      /\ \A i \in 1 .. n : middlewares[i] \in {"metadata", "renderer", "cors"}
  OBVIOUS
<1>2. PICK f : Passes(f, n, middlewares, req) /\ Through(middlewares, req) = f[n]
  BY <1>1, ThroughIs
<1>3. \A i \in 0 .. n : f[i] = IF i = 0 THEN [ctx |-> NewCtx, stopped |-> FALSE]
                               ELSE Pass(req, f[i - 1], middlewares[i])
  BY <1>2, Zenon DEF Passes
<1> DEFINE S == {i \in 0 .. n : PassedBy(f[i], req, names(i))}
<1> HIDE DEF n
<1>4. 0 \in S
  <2>1. 0 \in 0 .. n
    BY <1>1
  <2>2. f[0] = [ctx |-> NewCtx, stopped |-> FALSE]
    BY <1>3, <2>1
  <2>3. names(0) = {}
    BY 1 .. 0 = {}
  <2>4. PassedBy([ctx |-> NewCtx, stopped |-> FALSE], req, {})
    BY DEF PassedBy, Passing, NewCtx, Ctxs, Ids
  <2>5. QED
    <3> HIDE DEF names
    <3>1. QED
      BY <2>1, <2>2, <2>3, <2>4
<1>5. ASSUME NEW i \in 0 .. n - 1, i \in S PROVE i + 1 \in S
  <2>1. /\ i + 1 \in 0 .. n /\ i + 1 \in 1 .. n /\ i + 1 # 0 /\ i + 1 - 1 = i
        /\ names(i + 1) = names(i) \cup {middlewares[i + 1]}
    BY <1>1
  <2>2. f[i + 1] = Pass(req, f[i], middlewares[i + 1])
    BY <1>3, <2>1
  <2>3. PassedBy(f[i + 1], req, names(i) \cup {middlewares[i + 1]})
    <3>1. middlewares[i + 1] \in {"metadata", "renderer", "cors"}
      BY <1>1, <2>1
    <3>2. PassedBy(f[i], req, names(i))
      BY <1>5
    <3> HIDE DEF names
    <3>3. PassedBy(Pass(req, f[i], middlewares[i + 1]), req, names(i) \cup {middlewares[i + 1]})
      BY <3>1, <3>2, PassStep
    <3>4. QED
      BY <2>2, <3>3
  <2>4. QED
    BY <2>1, <2>3
<1>6. n \in S
  <2> HIDE DEF S
  <2>1. QED
    BY <1>1, <1>4, <1>5, UpTo
<1>7. names(n) = ToSet(middlewares)
  BY <1>1 DEF ToSet
<1>8. QED
  <2> HIDE DEF names
  <2>1. PassedBy(f[n], req, names(n))
    BY <1>6
  <2>2. QED
    BY <1>2, <1>7, <2>1

LEMMA ListLike ==
    ASSUME NEW s, IsList(s), NEW f, DOMAIN f = DOMAIN s, f = [i \in DOMAIN s |-> f[i]]
    PROVE  IsList(f) /\ ToSet(f) = {f[i] : i \in DOMAIN s}
<1> DEFINE n == Len(s)
           X == {f[i] : i \in DOMAIN f}
<1>1. n \in Nat /\ DOMAIN s = 1 .. n
  BY ListDef
<1> HIDE DEF n
<1>2. f \in [1 .. n -> X]
  BY <1>1
<1>3. f \in Seq(X)
  BY <1>1, <1>2
<1>4. QED
  BY <1>3 DEF IsList, ToSet

(* A method of the generated controller that the handlers' generator accepted. *)
GoodMethod(m) ==
    /\ IsList(m.op.params)
    /\ \A i \in DOMAIN m.op.params : HandlerParamError(m.op.params[i]) = NoErr
    /\ m.params = HasParams(m.op)
    /\ m.isHttp = m.op.http

(* A request the method's parameters are all looked up in. *)
FitFor(m, e) ==
    /\ e \in Exchanges
    /\ {m.op.params[i].name : i \in DOMAIN m.op.params} \subseteq DOMAIN e.request.values

(* What lets the handler call the controller. *)
ParameterFine(p, value) ==
    /\ p.required => value \notin {"missing", "blank"}
    /\ value = "malformed" => p.model = NoType /\ p.format = NoType /\ p.type = "string"

RequestFine(op, req) ==
    /\ op.security # <<>> =>
            LET identity == GetAuthorizationBearerToken(req.token)
            IN  identity # "error" /\ (op.authRequired => identity = "somebody")
    /\ \A i \in DOMAIN op.params : ParameterFine(op.params[i], req.values[op.params[i].name])
    /\ op.requestModel # NoModel =>
            req.body = "good" /\ getAcceptFormat(req.contentType) # "unknown"
    /\ op.files # {} => req.files = "good"

(* The conversions of a parameter the generator accepts are the ones whose   *)
(* failure the handler answers.                                              *)
LEMMA ParameterAnswerIs ==
    ASSUME NEW p, HandlerParamError(p) = NoErr,
           NEW value \in {"missing", "blank", "malformed", "good"}
    PROVE  ParameterAnswer(p, value) = NoErr <=> ParameterFine(p, value)
<1>1. p.model = NoType /\ p.format = NoType => p.type \in {"string", "bool"}
  BY DEF HandlerParamError, ParamError, NoErr
<1>2. CASE value \in {"missing", "blank"}
  <2>1. Trimmed(value) = ""
    BY <1>2 DEF Trimmed
  <2>2. CASE p.required
    BY <1>2, <2>1, <2>2 DEF ParameterAnswer, ParameterFine, NoErr
  <2>3. CASE ~p.required
    BY <1>2, <2>1, <2>3 DEF ParameterAnswer, ParameterFine, NoErr
  <2>4. QED
    BY <2>2, <2>3
<1>3. CASE value \in {"malformed", "good"}
  <2>1. Trimmed(value) = value
    BY <1>3 DEF Trimmed
  <2>2. QED
    BY <1>1, <1>3, <2>1 DEF ParameterAnswer, ParameterFine, NoErr
<1>4. QED
  BY <1>2, <1>3

LEMMA SecurityAnswerIs ==
    ASSUME NEW op, NEW req
    PROVE  SecurityAnswer(op, req) = NoErr <=>
             (op.security # <<>> =>
                LET identity == GetAuthorizationBearerToken(req.token)
                IN  identity # "error" /\ (op.authRequired => identity = "somebody"))
<1> DEFINE identity == GetAuthorizationBearerToken(req.token)
<1>1. identity \in {"nobody", "error", "somebody"}
  BY DEF GetAuthorizationBearerToken
<1>2. SecurityAnswer(op, req) =
        IF op.security = <<>> THEN NoErr
        ELSE IF identity = "error" THEN "error"
        ELSE IF identity = "nobody" /\ op.authRequired THEN "ErrUnauthorized"
        ELSE NoErr
  BY DEF SecurityAnswer
<1> HIDE DEF identity
<1>3. CASE op.authRequired
  BY <1>1, <1>2, <1>3 DEF NoErr, identity
<1>4. CASE ~op.authRequired
  BY <1>1, <1>2, <1>4 DEF NoErr, identity
<1>5. QED
  BY <1>3, <1>4

LEMMA EarlyAnswerIs ==
    ASSUME NEW m, NEW e, GoodMethod(m), FitFor(m, e)
    PROVE  EarlyAnswer(m.op, e.request) = NoErr <=> RequestFine(m.op, e.request)
<1> DEFINE op == m.op
           req == e.request
           value(i) == req.values[op.params[i].name]
           middle == [i \in DOMAIN op.params |-> ParameterAnswer(op.params[i], value(i))]
           first == SecurityAnswer(op, req)
           body == IF op.requestModel # NoModel /\ ~ReadBody(req) THEN "ErrBadRequest" ELSE NoErr
           files == IF op.files # {} /\ req.files = "bad" THEN "error" ELSE NoErr
           all == <<first>> \o middle \o <<body, files>>
<1>1. EarlyAnswer(op, req) = FirstOf(all)
  BY DEF EarlyAnswer
<1>2. IsList(middle) /\ ToSet(middle) = {ParameterAnswer(op.params[i], value(i)) : i \in DOMAIN op.params}
  <2>1. IsList(op.params)
    BY DEF GoodMethod
  <2>2. DOMAIN middle = DOMAIN op.params /\ middle = [i \in DOMAIN op.params |-> middle[i]]
    OBVIOUS
  <2>3. IsList(middle) /\ ToSet(middle) = {middle[i] : i \in DOMAIN op.params}
    <3> HIDE DEF middle
    <3>1. QED
      BY <2>1, <2>2, ListLike
  <2>4. QED
    BY <2>3
<1>3. IsList(<<first>>) /\ ToSet(<<first>>) = {first}
  BY OneList
<1>4. IsList(<<body, files>>) /\ ToSet(<<body, files>>) = {body, files}
  <2> HIDE DEF body, files
  <2>1. QED
    BY DEF IsList, ToSet
<1>5. IsList(all) /\ ToSet(all) = {first} \cup ToSet(middle) \cup {body, files}
  <2> HIDE DEF first, middle, body, files
  <2>1. IsList(<<first>> \o middle) /\ ToSet(<<first>> \o middle) = {first} \cup ToSet(middle)
    BY <1>2, <1>3, ConcatLists
  <2>2. QED
    BY <1>4, <2>1, ConcatLists
<1>6. FirstOf(all) = NoErr <=> \A x \in ToSet(all) : x = NoErr
  <2> HIDE DEF all
  <2>1. FirstOf(all) = NoErr <=> \A i \in DOMAIN all : all[i] = NoErr
    BY <1>5, FirstError
  <2>2. QED
    BY <2>1 DEF ToSet
<1>7. FirstOf(all) = NoErr <=> /\ first = NoErr /\ body = NoErr /\ files = NoErr
                              /\ \A i \in DOMAIN op.params : ParameterAnswer(op.params[i], value(i)) = NoErr
  <2> HIDE DEF first, middle, body, files, all
  <2>1. QED
    BY <1>2, <1>5, <1>6
<1>8. \A i \in DOMAIN op.params :
        ParameterAnswer(op.params[i], value(i)) = NoErr <=> ParameterFine(op.params[i], value(i))
  <2> TAKE i \in DOMAIN op.params
  <2>1. HandlerParamError(op.params[i]) = NoErr
    BY DEF GoodMethod
  <2>2. op.params[i].name \in DOMAIN req.values
    BY DEF FitFor
  <2>3. value(i) \in {"missing", "blank", "malformed", "good"}
    BY <2>2, ExchangesAssumption DEF FitFor
  <2>4. QED
    BY <2>1, <2>3, ParameterAnswerIs
<1>9. req.files \in {"good", "bad"}
  BY ExchangesAssumption DEF FitFor
<1>10. files = NoErr <=> (op.files # {} => req.files = "good")
  BY <1>9 DEF NoErr
<1>11. body = NoErr <=> (op.requestModel # NoModel =>
            req.body = "good" /\ getAcceptFormat(req.contentType) # "unknown")
  BY DEF NoErr, ReadBody
<1>12. first = NoErr <=> (op.security # <<>> =>
                LET identity == GetAuthorizationBearerToken(req.token)
                IN  identity # "error" /\ (op.authRequired => identity = "somebody"))
  BY SecurityAnswerIs
<1>13. QED
  <2> HIDE DEF first, body, files, value, op, req, all
  <2>1. RequestFine(op, req) <=>
            /\ first = NoErr /\ body = NoErr /\ files = NoErr
            /\ \A i \in DOMAIN op.params : ParameterAnswer(op.params[i], value(i)) = NoErr
    BY <1>8, <1>10, <1>11, <1>12 DEF RequestFine, value
  <2>2. QED
    BY <1>1, <1>7, <2>1 DEF op, req

(* An operation without parameters has nothing a request could lack. *)
LEMMA NothingToLack ==
    ASSUME NEW m, NEW req, GoodMethod(m), ~m.params
    PROVE  RequestFine(m.op, req)
<1>1. /\ m.op.params = <<>> /\ m.op.requestModel = NoModel /\ m.op.files = {} /\ m.op.security = <<>>
  BY DEF GoodMethod, HasParams
<1>2. DOMAIN m.op.params = {}
  BY <1>1
<1>3. QED
  BY <1>1, <1>2 DEF RequestFine

(* What a client that can be answered is sent. *)
ToldTruly(context, req) ==
    /\ \A err : /\ HandleError(context, req, err).status \notin 200 .. 299
                /\ HandleError(context, req, err).error = TRUE
    /\ Ok(context, req, "model").status = 200

LEMMA Rendered ==
    ASSUME NEW req, NEW ids, NEW context \in Ctxs(ids), context.renderer = TRUE,
           getAcceptFormat(req.accept) # "unknown"
    PROVE  ToldTruly(context, req)
<1>1. ASSUME NEW err
      PROVE  /\ HandleError(context, req, err).status \notin 200 .. 299
             /\ HandleError(context, req, err).error = TRUE
  <2>1. ErrorStatus(err) \in {400, 404, 401, 403, 500}
    BY DEF ErrorStatus
  <2> DEFINE failed == [context EXCEPT !.error = TRUE]
             status == ErrorStatus(err)
  <2>2. HandleError(context, req, err) =
          [failed EXCEPT !.status = status, !.type = getAcceptFormat(req.accept), !.body = "error"]
    BY DEF HandleError, withResponseRenderer, renderResponse
  <2>3. failed.error = TRUE /\ failed \in [{"status", "type", "body", "headers", "renderer", "id", "error"} ->
                                            {failed[k] : k \in DOMAIN failed}]
    BY DEF Ctxs
  <2> HIDE DEF failed, status
  <2>4. QED
    BY <2>1, <2>2, <2>3 DEF status
<1>2. Ok(context, req, "model").status = 200
  BY DEF Ok, withResponseRenderer, renderResponse, Ctxs
<1>3. QED
  BY <1>1, <1>2 DEF ToldTruly

LEMMA AnswerKeepsPromises ==
    ASSUME GoodMethod(served.method), FitFor(served.method, served.exchange),
           served = Answered(served.method, served.exchange)
    PROVE  HandlerKeepsPromises
<1> DEFINE m == served.method
           e == served.exchange
           op == m.op
           req == e.request
           at == Through(e.middlewares, req)
           preflight == req.method = "OPTIONS" /\ "cors" \in ToSet(e.middlewares)
           handled == Handle(m, req, e.reply, at.ctx)
           early == IF m.params THEN EarlyAnswer(op, req) ELSE NoErr
           ids == Ids(req)
           success == served.ctx.status \in 200 .. 299
<1>1. /\ at \in Passing(req) /\ (at.stopped <=> preflight)
      /\ ~at.stopped => (at.ctx.renderer <=> "renderer" \in ToSet(e.middlewares))
      /\ at.ctx \in Ctxs(ids) /\ at.stopped \in BOOLEAN
      /\ at.ctx.status = 200 /\ at.ctx.renderer \in BOOLEAN
  <2>1. PassedBy(at, req, ToSet(e.middlewares))
    BY ExchangesAssumption, ThroughMiddlewares DEF FitFor
  <2> HIDE DEF at
  <2>2. QED
    BY <2>1 DEF PassedBy, Passing, Ctxs
<1>2. /\ served.log = RequestLog(served.ctx, m.url)
      /\ at.stopped => served.ctx = at.ctx /\ served.call = Untouched
      /\ ~at.stopped => served.ctx = handled.ctx /\ served.call = handled.call
  <2> DEFINE end == IF at.stopped THEN [ctx |-> at.ctx, call |-> Untouched] ELSE handled
  <2>1. served = [method |-> m, exchange |-> e, ctx |-> end.ctx, call |-> end.call,
                  log |-> RequestLog(end.ctx, m.url)]
    BY Zenon DEF Answered
  <2> HIDE DEF handled, at, e
  <2>2. served.ctx = end.ctx /\ served.call = end.call /\ served.log = RequestLog(end.ctx, served.method.url)
    <3> HIDE DEF end
    <3>1. QED
      BY <2>1
  <2>3. QED
    BY <2>2
<1>3. early = NoErr <=> RequestFine(op, req)
  <2>1. CASE m.params
    BY <2>1, EarlyAnswerIs
  <2>2. CASE ~m.params
    BY <2>2, NothingToLack
  <2>3. QED
    BY <2>1, <2>2
<1>4. early # NoErr => /\ handled.ctx = HandleError(at.ctx, req, {early})
                       /\ handled.call = Untouched
  BY DEF Handle
<1>5. early = NoErr => /\ handled.call.called = TRUE
                       /\ e.reply.err # {} => handled.ctx = HandleError(at.ctx, req, e.reply.err)
                       /\ e.reply.err = {} /\ ~m.isHttp => handled.ctx = Ok(at.ctx, req, "model")
  BY DEF Handle
<1>6. Untouched.called = FALSE
  BY DEF Untouched
<1>7. Answerable(e) /\ ~at.stopped =>
        /\ \A err : /\ HandleError(at.ctx, req, err).status \notin 200 .. 299
                    /\ HandleError(at.ctx, req, err).error = TRUE
        /\ Ok(at.ctx, req, "model").status = 200
  <2> SUFFICES ASSUME Answerable(e), ~at.stopped
               PROVE  /\ \A err : /\ HandleError(at.ctx, req, err).status \notin 200 .. 299
                                  /\ HandleError(at.ctx, req, err).error = TRUE
                      /\ Ok(at.ctx, req, "model").status = 200
    OBVIOUS
  <2> HIDE DEF at, req, ids
  <2>1. at.ctx \in Ctxs(ids) /\ at.ctx.renderer = TRUE
    BY <1>1 DEF Answerable
  <2>2. getAcceptFormat(req.accept) # "unknown"
    BY DEF Answerable, req
  <2>3. ToldTruly(at.ctx, req)
    BY <2>1, <2>2, Rendered
  <2>4. QED
    BY <2>3, Zenon DEF ToldTruly
<1>8. m.isHttp = op.http
  BY DEF GoodMethod
<1> HIDE DEF at, handled, early, preflight, req, op, e, m
<1>9. served.call.called <=> ~preflight /\ RequestFine(op, req)
  BY <1>1, <1>2, <1>3, <1>4, <1>5, <1>6
<1>10. Answerable(e) /\ ~preflight /\ ~(op.http /\ served.call.called) =>
            (success <=> served.call.called /\ e.reply.err = {})
  <2> SUFFICES ASSUME Answerable(e), ~preflight, ~(op.http /\ served.call.called)
               PROVE  success <=> served.call.called /\ e.reply.err = {}
    OBVIOUS
  <2>1. 200 \in 200 .. 299
    OBVIOUS
  <2>2. CASE early # NoErr
    BY <1>1, <1>2, <1>4, <1>6, <1>7, <2>2
  <2>3. CASE early = NoErr
    BY <1>1, <1>2, <1>5, <1>7, <1>8, <2>1, <2>3
  <2>4. QED
    BY <2>2, <2>3
<1>11. Answerable(e) /\ served.call.called /\ e.reply.err # {} => ~success
  BY <1>1, <1>2, <1>3, <1>5, <1>7, <1>9
<1>12. Answerable(e) /\ ~success /\ ~served.call.called => served.ctx.error
  <2> SUFFICES ASSUME Answerable(e), ~success, ~served.call.called
               PROVE  served.ctx.error
    OBVIOUS
  <2>1. 200 \in 200 .. 299
    OBVIOUS
  <2>2. ~at.stopped /\ early # NoErr
    BY <1>1, <1>2, <1>3, <1>9, <2>1
  <2>3. QED
    BY <1>2, <1>4, <1>7, <2>2
<1>13. \A i \in DOMAIN served.log : served.log[i].success = success
  <2> DEFINE line == [success |-> success, error |-> served.ctx.error, id |-> served.ctx.id]
  <2>1. served.log = IF m.url = "/healthcheck" THEN <<>> ELSE <<line>>
    BY <1>2 DEF RequestLog
  <2>2. line.success = success
    OBVIOUS
  <2> HIDE DEF line
  <2>3. QED
    <3> HIDE DEF success
    <3>1. QED
      BY <2>1, <2>2
<1>14. RequestFine(op, req) <=>
        /\ op.security # <<>> =>
                GetAuthorizationBearerToken(req.token) # "error"
                /\ (op.authRequired => GetAuthorizationBearerToken(req.token) = "somebody")
        /\ \A i \in DOMAIN op.params :
            /\ op.params[i].required => req.values[op.params[i].name] \notin {"missing", "blank"}
            /\ req.values[op.params[i].name] = "malformed" =>
                op.params[i].model = NoType /\ op.params[i].format = NoType /\ op.params[i].type = "string"
        /\ op.requestModel # NoModel =>
                req.body = "good" /\ getAcceptFormat(req.contentType) # "unknown"
        /\ op.files # {} => req.files = "good"
  BY DEF RequestFine, ParameterFine
<1>15. QED
  BY <1>9, <1>10, <1>11, <1>12, <1>13, <1>14, Zenon
  DEF HandlerKeepsPromises, op, req, preflight, success, e, m

-----------------------------------------------------------------------------
(* The steps of a run. *)

RestIs(s, k, t) ==
    /\ Len(s) \in Nat /\ Len(t) = Len(s) - k /\ DOMAIN s = 1 .. Len(s)
    /\ t = <<>> <=> k = Len(s)
    /\ t # <<>> => /\ Head(t) = s[k + 1] /\ k + 1 \in 1 .. Len(s)
                   /\ Tail(t) = SubSeq(s, k + 2, Len(s))

LEMMA RestOfList ==
    ASSUME NEW s, IsList(s), NEW k \in 0 .. Len(s), NEW t, t = SubSeq(s, k + 1, Len(s))
    PROVE  RestIs(s, k, t)
<1> DEFINE n == Len(s)
           X == ToSet(s)
<1>1. s \in Seq(X) /\ n \in Nat /\ DOMAIN s = 1 .. n /\ k \in 0 .. n
  BY ListDef
<1> HIDE DEF X
<1>2. t \in Seq(X) /\ Len(t) = n - k /\ \A i \in 1 .. n - k : t[i] = s[k + i]
  <2>1. k + 1 \in Int /\ n \in Int /\ \A i \in k + 1 .. n : s[i] \in X
    BY <1>1
  <2>2. t = SubSeq(s, k + 1, n)
    OBVIOUS
  <2> HIDE DEF n
  <2>3. /\ t \in Seq(X) /\ Len(t) = IF k + 1 <= n THEN n - (k + 1) + 1 ELSE 0
        /\ \A i \in 1 .. n - (k + 1) + 1 : t[i] = s[k + 1 + i - 1]
    BY <2>1, <2>2, SubSeqProperties
  <2>4. Len(t) = n - k
    BY <1>1, <2>3
  <2>5. \A i \in 1 .. n - k : i \in 1 .. n - (k + 1) + 1 /\ k + 1 + i - 1 = k + i
    BY <1>1
  <2>6. QED
    BY <2>3, <2>4, <2>5
<1> HIDE DEF n
<1>3. t = <<>> <=> k = n
  <2>1. t = <<>> <=> Len(t) = 0
    BY <1>2, EmptySeq
  <2>2. QED
    BY <1>1, <1>2, <2>1
<1>4. ASSUME t # <<>>
      PROVE  Head(t) = s[k + 1] /\ k + 1 \in 1 .. n /\ Tail(t) = SubSeq(s, k + 2, n)
  <2>1. k + 1 \in 1 .. n /\ 1 \in 1 .. n - k
    BY <1>1, <1>3, <1>4
  <2>2. Head(t) = s[k + 1]
    BY <1>2, <1>4, <2>1
  <2>3. Tail(t) = [i \in 1 .. n - k - 1 |-> t[i + 1]]
    BY <1>1, <1>2, <1>4
  <2>4. SubSeq(s, k + 2, n) = [i \in 1 .. n - k - 1 |-> s[k + 2 + i - 1]]
    BY <1>1, <2>1
  <2>5. \A i \in 1 .. n - k - 1 : t[i + 1] = s[k + 2 + i - 1]
    <3> TAKE i \in 1 .. n - k - 1
    <3>1. i + 1 \in 1 .. n - k /\ k + (i + 1) = k + 2 + i - 1
      BY <1>1, <2>1
    <3>2. QED
      BY <1>2, <3>1
  <2>6. QED
    BY <2>1, <2>2, <2>3, <2>4, <2>5
<1>5. QED
  BY <1>1, <1>2, <1>3, <1>4 DEF n, RestIs

(* Where a run is. *)
AtDaos == {"dao", "daoGen", "skeleton", "nextDao"}
PastDaos == {"readApi", "apiGen", "spec", "controller", "router", "done"}
PastEnums == {"daos"} \cup AtDaos \cup PastDaos
PastApiGen == {"spec", "controller", "router", "done"}
Pcs == {"idle", "readEnums", "enumsSql", "enumsGo"} \cup PastEnums

DaosDoneSoFar == Len(src.daos) - Len(todo)

(* What is still to do of the daos is the rest of their list. *)
GenShape ==
    /\ src \in Projects
    /\ tree = [f \in Files |-> tree[f]]
    /\ pc \in Pcs
    /\ pc \in AtDaos =>
        /\ DaosDoneSoFar \in 0 .. Len(src.daos)
        /\ todo = SubSeq(src.daos, DaosDoneSoFar + 1, Len(src.daos))
    /\ pc \in AtDaos \ {"dao"} => todo # <<>> /\ ~Head(todo).hidden

(* A step that leaves every other file as it was; only one of Files is there. *)
PutFile(f, x) ==
    /\ tree' = [g \in Files |-> tree'[g]]
    /\ \A g \in Files \ {f} : tree'[g] = tree[g]
    /\ f \in Files => tree'[f] = x

GoesOn(from, to) == pc = from /\ pc' = to /\ UNCHANGED <<src, bin, result, served>>
Puts(from, f, x, to) == f \in Files /\ PutFile(f, x) /\ GoesOn(from, to) /\ UNCHANGED todo

(* A run that ends with an error, which leaves at most a torn file. *)
AgainErrors == {"errNoSchemaFound", "errUnknownEnum"}
Tears == \E f : PutFile(f, Torn) /\ \A d \in DaoNames : f = <<"dao", d>> => tree[f] # Edited
Stops ==
    /\ pc # "idle" /\ pc' = "idle" /\ todo' = <<>> /\ bin' = NoRegistry
    /\ UNCHANGED <<src, served>>
    /\ result' # NoErr
    /\ tree' = tree \/ Tears
    /\ result' \in AgainErrors => tree' = tree /\ pc \in PastApiGen

(* A step of a run that writes nothing. *)
Moves ==
    /\ tree' = tree
    /\ \/ GoesOn("readEnums", "enumsSql") /\ todo' = todo
       \/ GoesOn("daos", "dao") /\ todo' = src.daos
       \/ GoesOn("dao", "dao") /\ todo # <<>> /\ Head(todo).hidden /\ todo' = Tail(todo)
       \/ /\ GoesOn("skeleton", "nextDao") /\ todo' = todo
          /\ tree[<<"dao", Head(todo).name>>].state # "absent"
       \/ GoesOn("nextDao", "dao") /\ todo' = Tail(todo)
       \/ GoesOn("dao", "readApi") /\ todo = <<>> /\ todo' = todo
       \/ GoesOn("readApi", "apiGen") /\ todo' = todo

(* A step that writes a file of the project, or of a dao. *)
Writes ==
    \/ Puts("enumsSql", Single("enums.sql"), Whole(generateEnums(src.enums)), "enumsGo")
    \/ Puts("enumsGo", Single("enums.go"), Whole(generateEnums(src.enums)), "daos")
    \/ Puts("apiGen", Single("gen.go"), Whole(generateApiGen(src.proto)), "spec")
    \/ /\ generateApi(src.api, src.proto, bin).err = NoErr
       /\ Puts("spec", Single("swagger"), Whole(generateApi(src.api, src.proto, bin).doc), "controller")
    \/ Puts("controller", Single("controller"), Whole(Controller(src.api)), "router")
    \/ /\ RouterError(src.api) = NoErr
       /\ Puts("router", Single("router"), Whole(Router(src.api)), "done")

WritesDao ==
    \E d \in {Head(todo)} :
        \/ /\ todo # <<>> /\ ~d.hidden
           /\ Puts("dao", <<"sql", d.name>>, Whole(generateFile(d).sql), "daoGen")
        \/ Puts("daoGen", <<"daoGen", d.name>>, Whole(generateFile(d).daoGen), "skeleton")
        \/ /\ tree[<<"dao", d.name>>] # Edited
           /\ Puts("skeleton", <<"dao", d.name>>, Whole(generateFile(d).dao), "nextDao")

(* What happens between runs. *)
Between ==
    /\ pc = "idle"
    /\ \/ Edit \/ Start \/ ServeRequest
       \/ \E d \in DaoNames : EditDao(d)

Ends == Done \/ UNCHANGED genVars

LEMMA PutOf ==
    ASSUME tree = [f \in Files |-> tree[f]], NEW f, NEW x, tree' = [tree EXCEPT ![f] = x]
    PROVE  PutFile(f, x)
BY DEF PutFile

LEMMA WriteOutcome ==
    ASSUME tree = [g \in Files |-> tree[g]], NEW f \in Files, NEW text, NEW next,
           pc # "idle", WriteFile(f, text, next),
           \A d \in DaoNames : f = <<"dao", d>> => tree[f] # Edited
    PROVE  Puts(pc, f, Whole(text), next) \/ Stops
<1>1. CASE tree' = [tree EXCEPT ![f] = Whole(text)] /\ pc' = next
           /\ UNCHANGED <<src, bin, todo, result, runs, genFaults, served>>
  <2>1. PutFile(f, Whole(text))
    BY <1>1, PutOf
  <2>2. QED
    BY <1>1, <2>1 DEF Puts, GoesOn
<1>2. CASE WriteFails(f)
  <2>1. tree' = tree \/ PutFile(f, Torn)
    BY <1>2, PutOf DEF WriteFails
  <2>2. tree' = tree \/ Tears
    BY <2>1 DEF Tears
  <2>3. QED
    BY <1>2, <2>2 DEF WriteFails, Return, Stops, NoErr, AgainErrors
<1>3. QED
  BY <1>1, <1>2 DEF WriteFile

LEMMA DaosLeft ==
    ASSUME GenShape, pc \in AtDaos
    PROVE  LET n == Len(src.daos)
               k == DaosDoneSoFar
           IN  /\ IsList(src.daos) /\ n \in Nat /\ DOMAIN src.daos = 1 .. n
               /\ k \in 0 .. n
               /\ todo = <<>> <=> k = n
               /\ todo # <<>> =>
                    /\ k + 1 \in 1 .. n
                    /\ Head(todo) = src.daos[k + 1] /\ Head(todo).name \in DaoNames
                    /\ Tail(todo) = SubSeq(src.daos, k + 2, n)
                    /\ Len(src.daos) - Len(Tail(todo)) = k + 1
<1> DEFINE s == src.daos
           k == DaosDoneSoFar
<1>1. IsList(s) /\ src \in Projects
  BY ProjectsAssumption DEF GenShape
<1>2. k \in 0 .. Len(s) /\ todo = SubSeq(s, k + 1, Len(s))
  BY DEF GenShape
<1>3. /\ Len(s) \in Nat /\ Len(todo) = Len(s) - k /\ DOMAIN s = 1 .. Len(s)
      /\ todo = <<>> <=> k = Len(s)
      /\ todo # <<>> => /\ Head(todo) = s[k + 1] /\ k + 1 \in 1 .. Len(s)
                        /\ Tail(todo) = SubSeq(s, k + 2, Len(s))
  <2>1. RestIs(s, k, todo)
    <3> HIDE DEF s, k
    <3>1. QED
      BY <1>1, <1>2, RestOfList
  <2>2. QED
    BY <2>1, Zenon DEF RestIs
<1>4. ASSUME todo # <<>> PROVE Head(todo).name \in DaoNames
  BY <1>1, <1>3, <1>4 DEF DaoNames
<1>5. ASSUME todo # <<>> PROVE Len(s) - Len(Tail(todo)) = k + 1
  <2> DEFINE n == Len(s)
             t == SubSeq(s, k + 2, n)
  <2>1. s \in Seq(ToSet(s)) /\ n \in Nat /\ k \in 0 .. n - 1 /\ DOMAIN s = 1 .. n
    BY <1>1, <1>2, <1>3, <1>5, ListDef
  <2>2. \A i \in k + 2 .. n : s[i] \in ToSet(s)
    BY <1>1, <2>1, ListDef
  <2> HIDE DEF n, k, s
  <2>3. Len(t) = IF k + 2 <= n THEN n - (k + 2) + 1 ELSE 0
    BY <2>1, <2>2, SubSeqProperties
  <2> HIDE DEF t
  <2>4. n - Len(t) = k + 1
    BY <2>1, <2>3
  <2>5. Tail(todo) = t
    BY <1>3, <1>5 DEF t, n
  <2>6. QED
    BY <2>4, <2>5 DEF n
<1>6. QED
  BY <1>1, <1>2, <1>3, <1>4, <1>5

(* The errors a source of a dao or the proto file is refused with. *)
LEMMA OtherErrors ==
    /\ \A dao, enums : FileError(dao, enums) \notin AgainErrors
    /\ \A proto : ApiGenError(proto) \notin AgainErrors
<1>1. \A f, enums : FieldError(f, enums) \notin AgainErrors
  BY DEF FieldError, AgainErrors, NoError
<1>2. ASSUME NEW fields, NEW enums PROVE ModelError(fields, enums) \notin AgainErrors
  <2> DEFINE bad == {i \in DOMAIN fields : FieldError(fields[i], enums) # NoError}
             at == CHOOSE i \in bad : \A j \in bad : i <= j
  <2>1. ModelError(fields, enums) = IF bad = {} THEN NoError ELSE FieldError(fields[at], enums)
    BY Zenon DEF ModelError
  <2> HIDE DEF bad, at
  <2>2. QED
    BY <1>1, <2>1 DEF AgainErrors, NoError
<1>3. \A dao, enums : FileError(dao, enums) \notin AgainErrors
  BY <1>2 DEF FileError, AgainErrors, NoError
<1>4. \A proto : ApiGenError(proto) \notin AgainErrors
  BY DEF ApiGenError, AgainErrors, NoErr
<1>5. QED
  BY <1>3, <1>4

LEMMA RejectStops ==
    ASSUME NEW error, Reject(error), pc # "idle", error \in AgainErrors => pc \in PastApiGen
    PROVE  Stops
BY DEF Reject, Return, Stops

(* Every step is of one of six kinds. *)
StepOfKind == Between \/ Ends \/ Stops \/ Moves \/ Writes \/ WritesDao

LEMMA WriteSingle ==
    ASSUME GenShape, NEW name \in SingleFiles, NEW text, NEW next, pc # "idle",
           WriteFile(Single(name), text, next)
    PROVE  Puts(pc, Single(name), Whole(text), next) \/ Stops
<1>1. Single(name) \in Files
  BY DEF Files, Single
<1>2. \A d \in DaoNames : Single(name) # <<"dao", d>>
  BY DEF Single, SingleFiles
<1>3. QED
  BY <1>1, <1>2, WriteOutcome DEF GenShape

LEMMA WriteOfDao ==
    ASSUME GenShape, NEW kind \in {"sql", "daoGen", "dao"}, NEW text, NEW next,
           pc \in AtDaos, todo # <<>>,
           WriteFile(<<kind, Head(todo).name>>, text, next),
           kind = "dao" => tree[<<"dao", Head(todo).name>>] # Edited
    PROVE  Puts(pc, <<kind, Head(todo).name>>, Whole(text), next) \/ Stops
<1>1. Head(todo).name \in DaoNames
  BY DaosLeft
<1>2. <<kind, Head(todo).name>> \in Files
  BY <1>1 DEF Files
<1>3. \A d \in DaoNames : <<kind, Head(todo).name>> = <<"dao", d>> => kind = "dao"
  OBVIOUS
<1>4. pc # "idle"
  BY DEF AtDaos
<1>5. QED
  BY <1>2, <1>3, <1>4, WriteOutcome DEF GenShape

LEMMA StepKinds ==
    ASSUME GenShape, [GenNext]_genVars
    PROVE  StepOfKind
<1>1. ASSUME Edit \/ Start \/ ServeRequest \/ \E d \in DaoNames : EditDao(d) PROVE Between
  BY <1>1 DEF Between, Edit, Start, ServeRequest, EditDao
<1>2. ASSUME SourceReadFails PROVE Stops
  <2>1. pc # "idle"
    BY <1>2 DEF SourceReadFails, AtDao
  <2>2. QED
    BY <1>2, <2>1 DEF SourceReadFails, Return, Stops, NoErr, AgainErrors
<1>3. ASSUME ReadEnums \/ ReadDaoDir \/ PassOverDao \/ NextDao \/ DaosDone \/ ReadApi PROVE Moves
  <2>1. CASE ReadEnums
    BY <2>1 DEF ReadEnums, Step, Moves, GoesOn
  <2>2. CASE ReadDaoDir
    BY <2>2 DEF ReadDaoDir, Step, Moves, GoesOn
  <2>3. CASE PassOverDao
    BY <2>3 DEF PassOverDao, Step, Moves, GoesOn
  <2>4. CASE NextDao
    BY <2>4 DEF NextDao, Step, Moves, GoesOn
  <2>5. CASE DaosDone
    BY <2>5 DEF DaosDone, Step, Moves, GoesOn
  <2>6. CASE ReadApi
    BY <2>6 DEF ReadApi, Step, Moves, GoesOn
  <2>7. QED
    BY <1>3, <2>1, <2>2, <2>3, <2>4, <2>5, <2>6
<1>4. ASSUME WriteEnumsSql PROVE Writes \/ Stops
  <2>1. Puts(pc, Single("enums.sql"), Whole(generateEnums(src.enums)), "enumsGo") \/ Stops
    BY <1>4, WriteSingle DEF WriteEnumsSql, SingleFiles
  <2>2. QED
    BY <1>4, <2>1 DEF WriteEnumsSql, Writes
<1>5. ASSUME WriteEnumsGo PROVE Writes \/ Stops
  <2>1. Puts(pc, Single("enums.go"), Whole(generateEnums(src.enums)), "daos") \/ Stops
    BY <1>5, WriteSingle DEF WriteEnumsGo, SingleFiles
  <2>2. QED
    BY <1>5, <2>1 DEF WriteEnumsGo, Writes
<1>6. ASSUME DaoRefused PROVE Stops
  <2> DEFINE error == FileError(Head(todo), src.enums)
  <2>1. error \notin AgainErrors
    BY OtherErrors
  <2>2. pc # "idle" /\ Reject(error)
    BY <1>6 DEF DaoRefused, AtDao
  <2> HIDE DEF error
  <2>3. QED
    BY <2>1, <2>2, RejectStops
<1>7. ASSUME WriteDaoSql PROVE WritesDao \/ Stops
  <2>1. pc = "dao" /\ todo # <<>> /\ ~Head(todo).hidden /\ pc \in AtDaos
    BY <1>7 DEF WriteDaoSql, AtDao, AtDaos
  <2>2. Puts(pc, <<"sql", Head(todo).name>>, Whole(generateFile(Head(todo)).sql), "daoGen") \/ Stops
    BY <1>7, <2>1, WriteOfDao DEF WriteDaoSql
  <2>3. QED
    BY <2>1, <2>2 DEF WritesDao
<1>8. ASSUME WriteDaoGen PROVE WritesDao \/ Stops
  <2>1. pc = "daoGen" /\ pc \in AtDaos /\ todo # <<>>
    BY <1>8 DEF WriteDaoGen, AtDaos, GenShape
  <2>2. Puts(pc, <<"daoGen", Head(todo).name>>, Whole(generateFile(Head(todo)).daoGen), "skeleton") \/ Stops
    BY <1>8, <2>1, WriteOfDao DEF WriteDaoGen
  <2>3. QED
    BY <2>1, <2>2 DEF WritesDao
<1>9. ASSUME WriteDao PROVE WritesDao \/ Moves \/ Stops
  <2>1. pc = "skeleton" /\ pc \in AtDaos /\ todo # <<>>
    BY <1>9 DEF WriteDao, AtDaos, GenShape
  <2>2. CASE tree[<<"dao", Head(todo).name>>].state = "absent"
    <3>1. tree[<<"dao", Head(todo).name>>] # Edited
      BY <2>2 DEF Edited
    <3>2. WriteFile(<<"dao", Head(todo).name>>, generateFile(Head(todo)).dao, "nextDao")
      BY <1>9, <2>2, Zenon DEF WriteDao
    <3>3. Puts(pc, <<"dao", Head(todo).name>>, Whole(generateFile(Head(todo)).dao), "nextDao") \/ Stops
      BY <2>1, <3>1, <3>2, WriteOfDao
    <3>4. QED
      BY <2>1, <3>1, <3>3 DEF WritesDao
  <2>3. CASE tree[<<"dao", Head(todo).name>>].state # "absent"
    BY <1>9, <2>3 DEF WriteDao, Step, Moves, GoesOn
  <2>4. QED
    BY <2>2, <2>3
<1>10. ASSUME WriteApiGen PROVE Writes \/ Stops
  <2>1. pc = "apiGen" /\ pc # "idle"
    BY <1>10 DEF WriteApiGen
  <2>2. CASE Reject(ApiGenError(src.proto))
    <3>1. ApiGenError(src.proto) \notin AgainErrors
      BY OtherErrors
    <3>2. QED
      BY <2>1, <2>2, <3>1, RejectStops
  <2>3. CASE WriteFile(Single("gen.go"), generateApiGen(src.proto), "spec")
    <3>1. Puts(pc, Single("gen.go"), Whole(generateApiGen(src.proto)), "spec") \/ Stops
      BY <2>1, <2>3, WriteSingle DEF SingleFiles
    <3>2. QED
      BY <2>1, <3>1 DEF Writes
  <2>4. QED
    BY <1>10, <2>2, <2>3 DEF WriteApiGen
<1>11. ASSUME WriteSpec PROVE Writes \/ Stops
  <2> DEFINE made == generateApi(src.api, src.proto, bin)
  <2>1. pc = "spec" /\ pc # "idle" /\ pc \in PastApiGen
    BY <1>11 DEF WriteSpec, PastApiGen
  <2>2. \/ Reject(made.err)
        \/ made.err = NoErr /\ WriteFile(Single("swagger"), made.doc, "controller")
    BY <1>11 DEF WriteSpec
  <2>3. CASE Reject(made.err)
    BY <2>1, <2>3, RejectStops
  <2>4. CASE made.err = NoErr /\ WriteFile(Single("swagger"), made.doc, "controller")
    <3>1. Puts(pc, Single("swagger"), Whole(made.doc), "controller") \/ Stops
      BY <2>1, <2>4, WriteSingle DEF SingleFiles
    <3>2. QED
      BY <2>1, <2>4, <3>1 DEF Writes
  <2>5. QED
    BY <2>2, <2>3, <2>4
<1>12. ASSUME WriteController PROVE Writes \/ Stops
  <2>1. pc = "controller" /\ pc # "idle" /\ pc \in PastApiGen
    BY <1>12 DEF WriteController, PastApiGen
  <2>2. CASE Reject(ControllerError(src.api))
    BY <2>1, <2>2, RejectStops
  <2>3. CASE WriteFile(Single("controller"), Controller(src.api), "router")
    <3>1. Puts(pc, Single("controller"), Whole(Controller(src.api)), "router") \/ Stops
      BY <2>1, <2>3, WriteSingle DEF SingleFiles
    <3>2. QED
      BY <2>1, <3>1 DEF Writes
  <2>4. QED
    BY <1>12, <2>2, <2>3 DEF WriteController
<1>13. ASSUME WriteRouter PROVE Writes \/ Stops
  <2>1. pc = "router" /\ pc # "idle" /\ pc \in PastApiGen
    BY <1>13 DEF WriteRouter, PastApiGen
  <2>2. CASE Reject(RouterError(src.api))
    BY <2>1, <2>2, RejectStops
  <2>3. CASE RouterError(src.api) = NoErr /\ WriteFile(Single("router"), Router(src.api), "done")
    <3>1. Puts(pc, Single("router"), Whole(Router(src.api)), "done") \/ Stops
      BY <2>1, <2>3, WriteSingle DEF SingleFiles
    <3>2. QED
      BY <2>1, <2>3, <3>1 DEF Writes
  <2>4. QED
    BY <1>13, <2>2, <2>3 DEF WriteRouter
<1>14. ASSUME Done \/ UNCHANGED genVars PROVE Ends
  BY <1>14 DEF Ends
<1>15. QED
  <2>1. GenNext \/ UNCHANGED genVars
    OBVIOUS
  <2>2. QED
    BY <1>1, <1>2, <1>3, <1>4, <1>5, <1>6, <1>7, <1>8, <1>9, <1>10, <1>11, <1>12, <1>13, <1>14, <2>1
    DEF GenNext, StepOfKind

LEMMA FileNames ==
    /\ \A a \in SingleFiles : Single(a) \in Files
    /\ \A a, b \in SingleFiles : Single(a) = Single(b) => a = b
    /\ \A a \in SingleFiles, k \in {"sql", "daoGen", "dao"} : \A d : Single(a) # <<k, d>>
    /\ \A k, l, c, d : <<k, c>> = <<l, d>> => k = l /\ c = d
    /\ \A k \in {"sql", "daoGen", "dao"}, d \in DaoNames : <<k, d>> \in Files
<1>1. \A a \in SingleFiles, k \in {"sql", "daoGen", "dao"} : \A d : Single(a) # <<k, d>>
  <2>1. \A a \in SingleFiles, k \in {"sql", "daoGen", "dao"} : a # k
    BY DEF SingleFiles
  <2>2. QED
    BY <2>1 DEF Single
<1>2. QED
  BY <1>1 DEF Files, Single

(* What becomes of a file in a step: it stays, or it is the one written. *)
LEMMA Unwritten ==
    ASSUME NEW f, NEW x, PutFile(f, x), NEW g \in Files
    PROVE  /\ g = f => tree'[g] = x
           /\ g # f => tree'[g] = tree[g]
BY DEF PutFile

LEMMA ShapeStep ==
    ASSUME GenShape, StepOfKind
    PROVE  GenShape'
<1> USE DEF AtDaos, PastDaos, PastEnums, Pcs
<1>1. CASE Between
  <2>1. CASE Edit
    BY <2>1 DEF Edit, GenShape
  <2>2. CASE Start
    BY <2>2 DEF Start, GenShape
  <2>3. CASE ServeRequest
    BY <2>3 DEF ServeRequest, GenShape
  <2>4. ASSUME NEW d \in DaoNames, EditDao(d) PROVE GenShape'
    BY <2>4 DEF EditDao, GenShape
  <2>5. QED
    BY <1>1, <2>1, <2>2, <2>3, <2>4 DEF Between
<1>2. CASE Ends
  BY <1>2 DEF Ends, Done, Return, GenShape, DaosDoneSoFar, genVars
<1>3. CASE Stops
  BY <1>3 DEF Stops, Tears, PutFile, GenShape
<1>4. CASE Moves
  <2>1. src' = src /\ tree' = tree
    BY <1>4 DEF Moves, GoesOn
  <2>2. CASE GoesOn("readEnums", "enumsSql") \/ GoesOn("dao", "readApi") \/ GoesOn("readApi", "apiGen")
    BY <2>1, <2>2 DEF GoesOn, GenShape
  <2>3. CASE GoesOn("daos", "dao") /\ todo' = src.daos
    <3>1. IsList(src.daos)
      BY ProjectsAssumption DEF GenShape
    <3>2. Len(src.daos) \in Nat /\ src.daos = SubSeq(src.daos, 1, Len(src.daos))
      <4>1. src.daos \in Seq(ToSet(src.daos))
        BY <3>1, ListDef
      <4>2. QED
        BY <4>1
    <3>3. DaosDoneSoFar' = 0
      BY <2>1, <2>3, <3>2 DEF DaosDoneSoFar
    <3>4. QED
      BY <2>1, <2>3, <3>2, <3>3 DEF GoesOn, GenShape
  <2>4. CASE pc \in AtDaos /\ pc' = "dao" /\ todo # <<>> /\ todo' = Tail(todo)
    <3> DEFINE n == Len(src.daos)
               k == DaosDoneSoFar
    <3>1. /\ DaosDoneSoFar' = DaosDoneSoFar + 1 /\ DaosDoneSoFar + 1 \in 1 .. Len(src.daos)
          /\ todo' = SubSeq(src.daos, DaosDoneSoFar + 2, Len(src.daos))
          /\ Len(src.daos) \in Nat /\ DaosDoneSoFar \in Nat
      <4>1. /\ k \in 0 .. n /\ n \in Nat /\ k + 1 \in 1 .. n
            /\ Tail(todo) = SubSeq(src.daos, k + 2, n)
            /\ n - Len(Tail(todo)) = k + 1
        BY <2>4, DaosLeft
      <4>2. DaosDoneSoFar' = n - Len(Tail(todo))
        BY <2>1, <2>4 DEF DaosDoneSoFar
      <4> HIDE DEF n, k
      <4>3. k \in Nat
        BY <4>1
      <4>4. QED
        BY <2>4, <4>1, <4>2, <4>3 DEF n, k
    <3>2. DaosDoneSoFar' \in 0 .. Len(src.daos) /\ DaosDoneSoFar' + 1 = DaosDoneSoFar + 2
      BY <3>1
    <3>3. QED
      BY <2>1, <2>4, <3>1, <3>2 DEF GenShape
  <2>5. CASE GoesOn("skeleton", "nextDao") /\ todo' = todo
    BY <2>1, <2>5 DEF GoesOn, GenShape, DaosDoneSoFar
  <2>6. QED
    BY <1>4, <2>2, <2>3, <2>4, <2>5 DEF Moves, GoesOn, GenShape
<1>5. CASE Writes
  <2>1. /\ src' = src /\ tree' = [f \in Files |-> tree'[f]] /\ todo' = todo
        /\ pc' \in Pcs \ AtDaos
    BY <1>5 DEF Writes, Puts, PutFile, GoesOn
  <2>2. QED
    BY <2>1 DEF GenShape
<1>6. CASE WritesDao
  <2>1. /\ src' = src /\ tree' = [f \in Files |-> tree'[f]] /\ todo' = todo
        /\ pc \in AtDaos /\ pc' \in AtDaos \ {"dao"}
        /\ pc = "dao" => todo # <<>> /\ ~Head(todo).hidden
    BY <1>6 DEF WritesDao, Puts, PutFile, GoesOn
  <2>2. QED
    BY <2>1 DEF GenShape, DaosDoneSoFar
<1>7. QED
  BY <1>1, <1>2, <1>3, <1>4, <1>5, <1>6 DEF StepOfKind

RouterOk ==
    tree[Single("router")].state = "whole" =>
        \E p \in Projects : RouterError(p.api) = NoErr /\ tree[Single("router")].what = Router(p.api)

ServedOk ==
    served # NoneServed =>
        /\ GoodMethod(served.method) /\ FitFor(served.method, served.exchange)
        /\ served = Answered(served.method, served.exchange)

(* A step other than the one that writes it leaves a whole file of the name  *)
(* as it was, or tears it.                                                   *)
LEMMA OtherSteps ==
    ASSUME GenShape, NEW name \in SingleFiles, tree'[Single(name)].state = "whole",
           \/ Between \/ Ends \/ Stops \/ Moves \/ WritesDao
           \/ \E a \in SingleFiles \ {name} : \E from, x, to : Puts(from, Single(a), x, to)
    PROVE  tree'[Single(name)] = tree[Single(name)]
<1> DEFINE g == Single(name)
<1>0. g \in Files
  BY FileNames
<1>1. CASE Between \/ Ends
  <2>1. CASE \E d \in DaoNames : EditDao(d)
    BY <2>1, <1>0, FileNames DEF EditDao, GenShape
  <2>2. CASE tree' = tree
    BY <2>2
  <2>3. QED
    BY <1>1, <2>1, <2>2 DEF Between, Ends, Edit, Start, ServeRequest, Done, genVars
<1>2. CASE Stops
  <2>1. ASSUME NEW f, PutFile(f, Torn) PROVE tree'[g] = tree[g]
    <3>1. tree'[g] # Torn
      BY DEF Torn
    <3>2. QED
      BY <1>0, <2>1, <3>1, Unwritten
  <2>2. QED
    BY <1>2, <2>1 DEF Stops, Tears
<1>3. CASE Moves
  BY <1>3 DEF Moves
<1>4. CASE WritesDao
  <2>1. PICK d : \E x : PutFile(<<"sql", d>>, x) \/ PutFile(<<"daoGen", d>>, x) \/ PutFile(<<"dao", d>>, x)
    BY <1>4 DEF WritesDao, Puts
  <2>2. QED
    BY <1>0, <2>1, FileNames, Unwritten
<1>5. CASE \E a \in SingleFiles \ {name} : \E from, x, to : Puts(from, Single(a), x, to)
  <2>1. PICK a \in SingleFiles \ {name} : \E x : PutFile(Single(a), x)
    BY <1>5 DEF Puts
  <2>2. QED
    BY <1>0, <2>1, FileNames, Unwritten
<1>6. QED
  BY <1>1, <1>2, <1>3, <1>4, <1>5

LEMMA RouterStep ==
    ASSUME GenShape, RouterOk, StepOfKind
    PROVE  RouterOk'
<1> DEFINE g == Single("router")
<1> SUFFICES ASSUME tree'[g].state = "whole"
             PROVE  \E p \in Projects : RouterError(p.api) = NoErr /\ tree'[g].what = Router(p.api)
  BY DEF RouterOk, Single
<1>1. CASE tree'[g] = tree[g]
  BY <1>1 DEF RouterOk
<1>2. CASE RouterError(src.api) = NoErr /\ Puts("router", g, Whole(Router(src.api)), "done")
  <2>1. tree'[g] = Whole(Router(src.api)) /\ src \in Projects
    BY <1>2 DEF Puts, PutFile, GenShape
  <2>2. tree'[g].what = Router(src.api)
    BY <2>1 DEF Whole
  <2>3. QED
    BY <1>2, <2>1, <2>2
<1>3. "router" \in SingleFiles
  BY DEF SingleFiles
<1>4. \/ Between \/ Ends \/ Stops \/ Moves \/ WritesDao
      \/ \E a \in SingleFiles \ {"router"} : \E from, x, to : Puts(from, Single(a), x, to)
      \/ RouterError(src.api) = NoErr /\ Puts("router", g, Whole(Router(src.api)), "done")
  BY DEF StepOfKind, Writes, SingleFiles
<1>5. QED
  BY <1>1, <1>2, <1>3, <1>4, OtherSteps

LEMMA HandlersAreGood ==
    ASSUME NEW p \in Projects, RouterError(p.api) = NoErr, NEW m \in Router(p.api).handlers
    PROVE  GoodMethod(m)
<1> DEFINE routes == p.api.routes
           kinds == [i \in DOMAIN routes |->
                        IF routes[i].op \in RouteOperations THEN NoErr ELSE "errUnknownOperationType"]
           params(i) == [k \in DOMAIN routes[i].params |-> HandlerParamError(routes[i].params[k])]
           ofRoute(i) == <<SchemesError(p.api, routes[i])>> \o params(i)
           verdicts == [i \in DOMAIN routes |-> FirstOf(ofRoute(i))]
<1>1. /\ IsList(routes) /\ \A i \in DOMAIN routes : IsList(routes[i].params)
  BY ProjectsAssumption
<1>2. PICK i \in DOMAIN routes : m = ControllerMethod(routes[i], p.api.errors)
  <2>1. m \in ToSet(ControllerMethods(p.api))
    BY DEF Router
  <2>2. QED
    BY <2>1 DEF ToSet, ControllerMethods
<1>3. /\ m.op = routes[i] /\ m.params = HasParams(routes[i]) /\ m.isHttp = routes[i].http
  <2> HIDE DEF routes
  <2>1. QED
    BY <1>2 DEF ControllerMethod
<1>4. FirstOf(kinds \o verdicts) = NoErr
  BY DEF RouterError
<1>5. IsList(kinds) /\ IsList(verdicts) /\ ToSet(verdicts) = {verdicts[j] : j \in DOMAIN routes}
  <2>1. DOMAIN kinds = DOMAIN routes /\ kinds = [j \in DOMAIN routes |-> kinds[j]]
    OBVIOUS
  <2>2. DOMAIN verdicts = DOMAIN routes /\ verdicts = [j \in DOMAIN routes |-> verdicts[j]]
    OBVIOUS
  <2> HIDE DEF kinds, verdicts, routes
  <2>3. QED
    BY <1>1, <2>1, <2>2, ListLike
<1>6. FirstOf(ofRoute(i)) = NoErr
  <2>1. verdicts[i] \in ToSet(verdicts) /\ verdicts[i] = FirstOf(ofRoute(i))
    BY <1>5
  <2> HIDE DEF kinds, verdicts, ofRoute
  <2>2. IsList(kinds \o verdicts) /\ verdicts[i] \in ToSet(kinds \o verdicts)
    BY <1>5, <2>1, ConcatLists
  <2>3. \A j \in DOMAIN (kinds \o verdicts) : (kinds \o verdicts)[j] = NoErr
    BY <1>4, <2>2, FirstError
  <2>4. QED
    BY <2>1, <2>2, <2>3 DEF ToSet
<1>7. \A k \in DOMAIN routes[i].params : HandlerParamError(routes[i].params[k]) = NoErr
  <2> DEFINE these == params(i)
             first == <<SchemesError(p.api, routes[i])>>
  <2>1. IsList(these) /\ ToSet(these) = {these[k] : k \in DOMAIN routes[i].params}
    <3>1. DOMAIN these = DOMAIN routes[i].params /\ these = [k \in DOMAIN routes[i].params |-> these[k]]
      OBVIOUS
    <3>2. IsList(routes[i].params)
      BY <1>1
    <3> HIDE DEF these, routes
    <3>3. QED
      BY <3>1, <3>2, ListLike
  <2>2. IsList(first)
    BY OneList
  <2>3. \A k \in DOMAIN routes[i].params : these[k] = HandlerParamError(routes[i].params[k])
    OBVIOUS
  <2>4. ofRoute(i) = first \o these
    OBVIOUS
  <2> HIDE DEF these, first, ofRoute
  <2>5. IsList(ofRoute(i)) /\ ToSet(these) \subseteq ToSet(ofRoute(i))
    BY <2>1, <2>2, <2>4, ConcatLists
  <2>6. \A j \in DOMAIN ofRoute(i) : ofRoute(i)[j] = NoErr
    BY <1>6, <2>5, FirstError
  <2>7. \A x \in ToSet(these) : x = NoErr
    BY <2>5, <2>6 DEF ToSet
  <2>8. QED
    BY <2>1, <2>3, <2>7
<1>8. IsList(m.op.params)
  BY <1>1, <1>3
<1>9. QED
  <2> HIDE DEF routes
  <2>1. QED
    BY <1>3, <1>7, <1>8 DEF GoodMethod

LEMMA ServedStep ==
    ASSUME GenShape, RouterOk, ServedOk, StepOfKind
    PROVE  ServedOk'
<1>1. CASE ServeRequest
  <2>1. PICK m \in tree[Single("router")].what.handlers, e \in Exchanges :
            /\ {m.op.params[i].name : i \in DOMAIN m.op.params} \subseteq DOMAIN e.request.values
            /\ served' = Answered(m, e)
    BY <1>1, Zenon DEF ServeRequest
  <2>2. tree[Single("router")].state = "whole"
    BY <1>1, Zenon DEF ServeRequest
  <2>3. GoodMethod(m)
    <3>1. PICK p \in Projects : RouterError(p.api) = NoErr /\ tree[Single("router")].what = Router(p.api)
      BY <2>2 DEF RouterOk
    <3>2. m \in Router(p.api).handlers
      BY <3>1
    <3>3. QED
      BY <3>1, <3>2, HandlersAreGood
  <2>4. FitFor(m, e)
    BY <2>1 DEF FitFor
  <2>5. Answered(m, e).method = m /\ Answered(m, e).exchange = e
    BY DEF Answered
  <2>6. QED
    BY <2>1, <2>3, <2>4, <2>5 DEF ServedOk
<1>2. CASE served' = NoneServed
  BY <1>2 DEF ServedOk
<1>3. CASE served' = served
  BY <1>3 DEF ServedOk
<1>4. QED
  BY <1>1, <1>2, <1>3 DEF StepOfKind, Between, Ends, Stops, Moves, Writes, WritesDao, Puts, GoesOn,
     Edit, Start, EditDao, Done, genVars

(* The registry a run is compiled with holds no model the sources lack. *)
PathsOf(proto) == {m.path : m \in proto.messages}

RegistryOk ==
    /\ tree[Single("gen.go")].state = "whole" =>
        \E p \in Projects : tree[Single("gen.go")].what = generateApiGen(p.proto)
    /\ pc # "idle" => bin.models \subseteq PathsOf(src.proto)

LEMMA RegistryStep ==
    ASSUME GenShape, RegistryOk, StepOfKind
    PROVE  RegistryOk'
<1> DEFINE g == Single("gen.go")
<1>1. ASSUME tree'[g].state = "whole"
      PROVE  \E p \in Projects : tree'[g].what = generateApiGen(p.proto)
  <2>1. CASE tree'[g] = tree[g]
    BY <1>1, <2>1 DEF RegistryOk
  <2>2. CASE Puts("apiGen", g, Whole(generateApiGen(src.proto)), "spec")
    <3>1. tree'[g] = Whole(generateApiGen(src.proto)) /\ src \in Projects
      BY <2>2 DEF Puts, PutFile, GenShape
    <3>2. tree'[g].what = generateApiGen(src.proto)
      BY <3>1 DEF Whole
    <3>3. QED
      BY <3>1, <3>2
  <2>3. "gen.go" \in SingleFiles
    BY DEF SingleFiles
  <2>4. \/ Between \/ Ends \/ Stops \/ Moves \/ WritesDao
        \/ \E a \in SingleFiles \ {"gen.go"} : \E from, x, to : Puts(from, Single(a), x, to)
        \/ Puts("apiGen", g, Whole(generateApiGen(src.proto)), "spec")
    BY DEF StepOfKind, Writes, SingleFiles
  <2>5. QED
    BY <1>1, <2>1, <2>2, <2>3, <2>4, OtherSteps
<1>2. CASE Start
  <2>1. bin' = Compiled /\ src' = src
    BY <1>2 DEF Start
  <2>2. NoRegistry.models = {}
    BY DEF NoRegistry
  <2>3. Compiled.models \subseteq PathsOf(src.proto)
    <3>1. CASE tree[g].state # "whole"
      BY <2>2, <3>1 DEF Compiled
    <3>2. CASE tree[g].state = "whole"
      <4>1. PICK p \in Projects : tree[g].what = generateApiGen(p.proto)
        BY <3>2 DEF RegistryOk
      <4>2. Compiled = [generateApiGen(p.proto) EXCEPT !.models = @ \cap PathsOf(src.proto)]
        BY <3>2, <4>1 DEF Compiled, PathsOf
      <4>3. QED
        BY <4>2 DEF generateApiGen
    <3>3. QED
      BY <3>1, <3>2
  <2>4. QED
    BY <1>1, <2>1, <2>3 DEF RegistryOk, Single
<1>3. CASE pc' = "idle" \/ (pc # "idle" /\ bin' = bin /\ src' = src)
  BY <1>1, <1>3 DEF RegistryOk, Single
<1>4. QED
  <2>1. Between => Start \/ pc' = "idle"
    BY DEF Between, Edit, ServeRequest, EditDao
  <2>2. Ends => pc' = "idle" \/ (pc # "idle" /\ bin' = bin /\ src' = src)
    BY DEF Ends, Done, Return, genVars
  <2>3. Stops => pc' = "idle"
    BY DEF Stops
  <2>4. Moves \/ Writes \/ WritesDao => pc # "idle" /\ bin' = bin /\ src' = src
    BY DEF Moves, Writes, WritesDao, Puts, GoesOn
  <2>5. QED
    BY <1>2, <1>3, <2>1, <2>2, <2>3, <2>4 DEF StepOfKind

(* A document on disk was made of some sources with some registry. *)
MadeOf(doc, p, r) ==
    /\ r.models \subseteq PathsOf(p.proto)
    /\ generateApi(p.api, p.proto, r).err = NoErr /\ doc = generateApi(p.api, p.proto, r).doc

SwaggerOk ==
    tree[Single("swagger")].state = "whole" =>
        \E p \in Projects : \E r : MadeOf(tree[Single("swagger")].what, p, r)

LEMMA SwaggerStep ==
    ASSUME GenShape, RegistryOk, SwaggerOk, StepOfKind
    PROVE  SwaggerOk'
<1> DEFINE g == Single("swagger")
           made == generateApi(src.api, src.proto, bin)
<1> SUFFICES ASSUME tree'[g].state = "whole"
             PROVE  \E p \in Projects : \E r : MadeOf(tree'[g].what, p, r)
  BY DEF SwaggerOk, Single, MadeOf
<1>1. CASE tree'[g] = tree[g]
  BY <1>1 DEF SwaggerOk
<1>2. CASE made.err = NoErr /\ Puts("spec", g, Whole(made.doc), "controller")
  <2>1. tree'[g] = Whole(made.doc) /\ src \in Projects
    <3> HIDE DEF made
    <3>1. QED
      BY <1>2 DEF Puts, PutFile, GenShape
  <2>2. tree'[g].what = made.doc
    <3> HIDE DEF made
    <3>1. QED
      BY <2>1 DEF Whole
  <2>3. bin.models \subseteq PathsOf(src.proto)
    BY <1>2 DEF RegistryOk, Puts, GoesOn
  <2>4. MadeOf(tree'[g].what, src, bin)
    BY <1>2, <2>2, <2>3 DEF MadeOf
  <2>5. QED
    BY <2>1, <2>4
<1>3. "swagger" \in SingleFiles
  BY DEF SingleFiles
<1>4. \/ Between \/ Ends \/ Stops \/ Moves \/ WritesDao
      \/ \E a \in SingleFiles \ {"swagger"} : \E from, x, to : Puts(from, Single(a), x, to)
      \/ made.err = NoErr /\ Puts("spec", g, Whole(made.doc), "controller")
  BY DEF StepOfKind, Writes, SingleFiles
<1>5. QED
  <2> HIDE DEF made
  <2>1. QED
    BY <1>1, <1>2, <1>3, <1>4, OtherSteps

(* The files that are made once a run, and from which step on each is current. *)
EnumsSqlCurrent == tree[Single("enums.sql")] = Whole(generateEnums(src.enums))
EnumsGoCurrent == tree[Single("enums.go")] = Whole(generateEnums(src.enums))
GenGoCurrent == tree[Single("gen.go")] = Whole(generateApiGen(src.proto))
SwaggerMade ==
    /\ generateApi(src.api, src.proto, bin).err = NoErr
    /\ tree[Single("swagger")] = Whole(generateApi(src.api, src.proto, bin).doc)
ControllerCurrent == tree[Single("controller")] = Whole(Controller(src.api))
RouterCurrent == tree[Single("router")] = Whole(Router(src.api))

Succeeded == pc = "idle" /\ result = NoErr

SinglesOk ==
    /\ pc \in {"enumsGo"} \cup PastEnums \/ Succeeded => EnumsSqlCurrent
    /\ pc \in PastEnums \/ Succeeded => EnumsGoCurrent
    /\ pc \in PastApiGen \/ Succeeded \/ (pc = "idle" /\ result \in AgainErrors) => GenGoCurrent
    /\ pc \in {"controller", "router", "done"} => SwaggerMade
    /\ pc \in {"router", "done"} \/ Succeeded => ControllerCurrent
    /\ pc = "done" \/ Succeeded => RouterCurrent

(* Nothing a file was made of changes while a run is on. *)
LEMMA SinglesStay ==
    ASSUME src' = src, bin' = bin, NEW changed,
           \A a \in SingleFiles \ {changed} : tree'[Single(a)] = tree[Single(a)]
    PROVE  /\ changed # "enums.sql" => (EnumsSqlCurrent => EnumsSqlCurrent')
           /\ changed # "enums.go" => (EnumsGoCurrent => EnumsGoCurrent')
           /\ changed # "gen.go" => (GenGoCurrent => GenGoCurrent')
           /\ changed # "swagger" => (SwaggerMade => SwaggerMade')
           /\ changed # "controller" => (ControllerCurrent => ControllerCurrent')
           /\ changed # "router" => (RouterCurrent => RouterCurrent')
<1>1. changed # "swagger" => (SwaggerMade => SwaggerMade')
  <2> SUFFICES ASSUME changed # "swagger", SwaggerMade PROVE SwaggerMade'
    OBVIOUS
  <2>1. tree'[Single("swagger")] = tree[Single("swagger")]
    BY DEF SingleFiles
  <2>2. QED
    BY <2>1, Zenon DEF SwaggerMade, Single
<1>2. changed # "gen.go" => (GenGoCurrent => GenGoCurrent')
  <2> SUFFICES ASSUME changed # "gen.go", GenGoCurrent PROVE GenGoCurrent'
    OBVIOUS
  <2>1. tree'[Single("gen.go")] = tree[Single("gen.go")]
    BY DEF SingleFiles
  <2>2. QED
    BY <2>1, Zenon DEF GenGoCurrent, Single
<1>3. QED
  BY <1>1, <1>2 DEF SingleFiles, Single, EnumsSqlCurrent, EnumsGoCurrent, ControllerCurrent, RouterCurrent

LEMMA SinglesStep ==
    ASSUME GenShape, SinglesOk, StepOfKind
    PROVE  SinglesOk'
<1> USE DEF AtDaos, PastDaos, PastEnums, PastApiGen
<1>0. \A changed : (\A a \in SingleFiles : tree'[Single(a)] = tree[Single(a)]) =>
                       \A a \in SingleFiles \ {changed} : tree'[Single(a)] = tree[Single(a)]
  OBVIOUS
<1>1. CASE (\E d \in DaoNames : EditDao(d)) \/ ServeRequest \/ UNCHANGED genVars
  <2>1. \A a \in SingleFiles : tree'[Single(a)] = tree[Single(a)]
    BY <1>1, FileNames DEF EditDao, ServeRequest, genVars, GenShape
  <2>2. src' = src /\ bin' = bin /\ pc' = pc /\ result' = result
    BY <1>1 DEF EditDao, ServeRequest, genVars
  <2>3. \A a \in SingleFiles \ {"-"} : tree'[Single(a)] = tree[Single(a)]
    BY <2>1
  <2>4. /\ EnumsSqlCurrent => EnumsSqlCurrent'
        /\ EnumsGoCurrent => EnumsGoCurrent'
        /\ GenGoCurrent => GenGoCurrent'
        /\ SwaggerMade => SwaggerMade'
        /\ ControllerCurrent => ControllerCurrent'
        /\ RouterCurrent => RouterCurrent'
    BY <2>2, <2>3, SinglesStay
  <2>5. QED
    BY <2>2, <2>4 DEF SinglesOk, Succeeded
<1>2. CASE Edit \/ Start
  BY <1>2 DEF Edit, Start, SinglesOk, Succeeded, NotRun, NoErr, AgainErrors
<1>3. CASE Done
  <2>1. src' = src /\ tree' = tree /\ pc = "done" /\ pc' = "idle" /\ result' = NoErr
    BY <1>3 DEF Done, Return
  <2>2. EnumsSqlCurrent /\ EnumsGoCurrent /\ GenGoCurrent /\ ControllerCurrent /\ RouterCurrent
    BY <2>1 DEF SinglesOk
  <2>3. EnumsSqlCurrent' /\ EnumsGoCurrent' /\ GenGoCurrent' /\ ControllerCurrent' /\ RouterCurrent'
    BY <2>1, <2>2 DEF EnumsSqlCurrent, EnumsGoCurrent, GenGoCurrent, ControllerCurrent, RouterCurrent
  <2>4. QED
    BY <2>1, <2>3 DEF SinglesOk
<1>4. CASE Stops
  <2>1. pc' = "idle" /\ result' # NoErr /\ src' = src
        /\ (result' \in AgainErrors => tree' = tree /\ pc \in PastApiGen)
    BY <1>4 DEF Stops
  <2>2. result' \in AgainErrors => GenGoCurrent'
    <3>1. result' \in AgainErrors => tree' = tree /\ GenGoCurrent
      BY <2>1 DEF SinglesOk
    <3>2. QED
      BY <2>1, <3>1 DEF GenGoCurrent
  <2>3. QED
    BY <2>1, <2>2 DEF SinglesOk, Succeeded
<1>5. CASE Moves \/ WritesDao
  <2>1. \A a \in SingleFiles : tree'[Single(a)] = tree[Single(a)]
    <3>1. CASE WritesDao
      <4>1. PICK d : \E x : PutFile(<<"sql", d>>, x) \/ PutFile(<<"daoGen", d>>, x) \/ PutFile(<<"dao", d>>, x)
        BY <3>1 DEF WritesDao, Puts
      <4>2. QED
        BY <4>1, FileNames, Unwritten
    <3>2. QED
      BY <1>5, <3>1 DEF Moves
  <2>2. /\ src' = src /\ bin' = bin /\ result' = result /\ pc # "idle" /\ pc' # "idle"
        /\ pc' \in {"enumsGo"} \cup PastEnums => pc \in {"enumsGo"} \cup PastEnums
        /\ pc' \in PastEnums => pc \in PastEnums
        /\ pc' \notin PastApiGen
    BY <1>5 DEF Moves, WritesDao, Puts, GoesOn
  <2>3. \A a \in SingleFiles \ {"-"} : tree'[Single(a)] = tree[Single(a)]
    BY <2>1
  <2>4. /\ EnumsSqlCurrent => EnumsSqlCurrent'
        /\ EnumsGoCurrent => EnumsGoCurrent'
    BY <2>2, <2>3, SinglesStay
  <2>5. QED
    BY <2>2, <2>4 DEF SinglesOk, Succeeded
<1>6. CASE Writes
  <2>a. ASSUME NEW name \in SingleFiles, NEW from, NEW x, NEW to, Puts(from, Single(name), x, to)
        PROVE  /\ \A a \in SingleFiles \ {name} : tree'[Single(a)] = tree[Single(a)]
               /\ tree'[Single(name)] = x
               /\ src' = src /\ bin' = bin /\ result' = result /\ pc = from /\ pc' = to
    <3>1. PutFile(Single(name), x)
      BY <2>a DEF Puts
    <3>2. QED
      BY <2>a, <3>1, FileNames, Unwritten DEF Puts, GoesOn
  <2>1. CASE Puts("enumsSql", Single("enums.sql"), Whole(generateEnums(src.enums)), "enumsGo")
    <3>1. pc' = "enumsGo" /\ EnumsSqlCurrent'
      BY <2>1, <2>a DEF EnumsSqlCurrent, SingleFiles, Single
    <3>2. QED
      BY <3>1 DEF SinglesOk, Succeeded
  <2>2. CASE Puts("enumsGo", Single("enums.go"), Whole(generateEnums(src.enums)), "daos")
    <3>1. /\ pc = "enumsGo" /\ pc' = "daos" /\ EnumsGoCurrent' /\ src' = src /\ bin' = bin
          /\ \A a \in SingleFiles \ {"enums.go"} : tree'[Single(a)] = tree[Single(a)]
      BY <2>2, <2>a DEF EnumsGoCurrent, SingleFiles, Single
    <3>2. EnumsSqlCurrent'
      BY <3>1, SinglesStay DEF SinglesOk
    <3>3. QED
      BY <3>1, <3>2 DEF SinglesOk, Succeeded
  <2>3. CASE Puts("apiGen", Single("gen.go"), Whole(generateApiGen(src.proto)), "spec")
    <3>1. /\ pc = "apiGen" /\ pc' = "spec" /\ src' = src /\ bin' = bin
          /\ tree'[Single("gen.go")] = Whole(generateApiGen(src.proto))
          /\ \A a \in SingleFiles \ {"gen.go"} : tree'[Single(a)] = tree[Single(a)]
      BY <2>3, <2>a DEF SingleFiles
    <3>2. GenGoCurrent'
      BY <3>1 DEF GenGoCurrent, Single
    <3>3. EnumsSqlCurrent' /\ EnumsGoCurrent'
      BY <3>1, SinglesStay DEF SinglesOk
    <3>4. QED
      BY <3>1, <3>2, <3>3 DEF SinglesOk, Succeeded
  <2>4. CASE /\ generateApi(src.api, src.proto, bin).err = NoErr
             /\ Puts("spec", Single("swagger"), Whole(generateApi(src.api, src.proto, bin).doc), "controller")
    <3>1. /\ pc = "spec" /\ pc' = "controller" /\ src' = src /\ bin' = bin
          /\ tree'[Single("swagger")] = Whole(generateApi(src.api, src.proto, bin).doc)
          /\ \A a \in SingleFiles \ {"swagger"} : tree'[Single(a)] = tree[Single(a)]
      BY <2>4, <2>a DEF SingleFiles
    <3>2. SwaggerMade'
      BY <2>4, <3>1, Zenon DEF SwaggerMade, Single
    <3>3. EnumsSqlCurrent' /\ EnumsGoCurrent' /\ GenGoCurrent'
      BY <3>1, SinglesStay DEF SinglesOk
    <3>4. QED
      BY <3>1, <3>2, <3>3 DEF SinglesOk, Succeeded
  <2>5. CASE Puts("controller", Single("controller"), Whole(Controller(src.api)), "router")
    <3>1. /\ pc = "controller" /\ pc' = "router" /\ src' = src /\ bin' = bin
          /\ tree'[Single("controller")] = Whole(Controller(src.api))
          /\ \A a \in SingleFiles \ {"controller"} : tree'[Single(a)] = tree[Single(a)]
      BY <2>5, <2>a DEF SingleFiles
    <3>2. ControllerCurrent'
      BY <3>1 DEF ControllerCurrent, Single
    <3>3. EnumsSqlCurrent' /\ EnumsGoCurrent' /\ GenGoCurrent' /\ SwaggerMade'
      BY <3>1, SinglesStay DEF SinglesOk
    <3>4. QED
      BY <3>1, <3>2, <3>3 DEF SinglesOk, Succeeded
  <2>6. CASE Puts("router", Single("router"), Whole(Router(src.api)), "done")
    <3>1. /\ pc = "router" /\ pc' = "done" /\ src' = src /\ bin' = bin
          /\ tree'[Single("router")] = Whole(Router(src.api))
          /\ \A a \in SingleFiles \ {"router"} : tree'[Single(a)] = tree[Single(a)]
      BY <2>6, <2>a DEF SingleFiles
    <3>2. RouterCurrent'
      BY <3>1 DEF RouterCurrent, Single
    <3>3. EnumsSqlCurrent' /\ EnumsGoCurrent' /\ GenGoCurrent' /\ SwaggerMade' /\ ControllerCurrent'
      BY <3>1, SinglesStay DEF SinglesOk
    <3>4. QED
      BY <3>1, <3>2, <3>3 DEF SinglesOk, Succeeded
  <2>7. QED
    BY <1>6, <2>1, <2>2, <2>3, <2>4, <2>5, <2>6 DEF Writes
<1>7. QED
  BY <1>1, <1>2, <1>3, <1>4, <1>5, <1>6 DEF StepOfKind, Between, Ends

(* The sources of daos that are done.  A file two of them name is of the     *)
(* later one.                                                                *)
KeptBy(t, s, k, n) ==
    \A i \in 1 .. k : ~s[i].hidden =>
        /\ t[<<"dao", s[i].name>>].state # "absent"
        /\ (\A j \in i + 1 .. n : ~s[j].hidden => s[j].name # s[i].name) =>
                /\ t[<<"sql", s[i].name>>] = Whole(generateFile(s[i]).sql)
                /\ t[<<"daoGen", s[i].name>>] = Whole(generateFile(s[i]).daoGen)

DaosOk ==
    LET s == src.daos
        n == Len(src.daos)
        k == DaosDoneSoFar
    IN  /\ pc = "dao" => KeptBy(tree, s, k, k)
        /\ pc \in {"daoGen", "skeleton", "nextDao"} =>
            /\ KeptBy(tree, s, k, k + 1)
            /\ tree[<<"sql", Head(todo).name>>] = Whole(generateFile(Head(todo)).sql)
        /\ pc \in {"skeleton", "nextDao"} =>
            tree[<<"daoGen", Head(todo).name>>] = Whole(generateFile(Head(todo)).daoGen)
        /\ pc = "nextDao" => tree[<<"dao", Head(todo).name>>].state # "absent"
        /\ pc \in PastDaos \/ Succeeded => KeptBy(tree, s, n, n)

LEMMA KeptStays ==
    ASSUME NEW t, NEW u, NEW s, NEW k \in Nat, NEW n \in Nat, NEW m \in Nat, n <= m, KeptBy(t, s, k, n),
           \A i \in 1 .. k : ~s[i].hidden =>
               /\ t[<<"dao", s[i].name>>].state # "absent" => u[<<"dao", s[i].name>>].state # "absent"
               /\ (\A j \in i + 1 .. m : ~s[j].hidden => s[j].name # s[i].name) =>
                    /\ u[<<"sql", s[i].name>>] = t[<<"sql", s[i].name>>]
                    /\ u[<<"daoGen", s[i].name>>] = t[<<"daoGen", s[i].name>>]
    PROVE  KeptBy(u, s, k, m)
<1> SUFFICES ASSUME NEW i \in 1 .. k, ~s[i].hidden
             PROVE  /\ u[<<"dao", s[i].name>>].state # "absent"
                    /\ (\A j \in i + 1 .. m : ~s[j].hidden => s[j].name # s[i].name) =>
                            /\ u[<<"sql", s[i].name>>] = Whole(generateFile(s[i]).sql)
                            /\ u[<<"daoGen", s[i].name>>] = Whole(generateFile(s[i]).daoGen)
  BY DEF KeptBy
<1>1. (\A j \in i + 1 .. m : ~s[j].hidden => s[j].name # s[i].name) =>
        \A j \in i + 1 .. n : ~s[j].hidden => s[j].name # s[i].name
  OBVIOUS
<1>2. QED
  BY <1>1 DEF KeptBy

(* A write of a dao's file that is no migration of another dao. *)
LEMMA KeptAfterWrite ==
    ASSUME GenShape, pc \in AtDaos, todo # <<>>,
           NEW kind \in {"sql", "daoGen", "dao"}, NEW text, PutFile(<<kind, Head(todo).name>>, Whole(text)),
           NEW n \in {DaosDoneSoFar, DaosDoneSoFar + 1},
           KeptBy(tree, src.daos, DaosDoneSoFar, n), ~Head(todo).hidden
    PROVE  KeptBy(tree', src.daos, DaosDoneSoFar, DaosDoneSoFar + 1)
<1> DEFINE k == DaosDoneSoFar
           s == src.daos
<1>1. /\ k \in Nat /\ k + 1 \in DOMAIN s /\ Head(todo) = s[k + 1] /\ DOMAIN s = 1 .. Len(s)
      /\ Len(s) \in Nat /\ k + 1 <= Len(s)
  BY DaosLeft
<1>2. \A i \in 1 .. k : s[i].name \in DaoNames
  BY <1>1 DEF GenShape, DaoNames
<1> HIDE DEF k
<1>3. ASSUME NEW i \in 1 .. k, ~s[i].hidden
      PROVE  /\ tree[<<"dao", s[i].name>>].state # "absent" => tree'[<<"dao", s[i].name>>].state # "absent"
             /\ (\A j \in i + 1 .. k + 1 : ~s[j].hidden => s[j].name # s[i].name) =>
                    /\ tree'[<<"sql", s[i].name>>] = tree[<<"sql", s[i].name>>]
                    /\ tree'[<<"daoGen", s[i].name>>] = tree[<<"daoGen", s[i].name>>]
  <2>1. <<"dao", s[i].name>> \in Files /\ <<"sql", s[i].name>> \in Files /\ <<"daoGen", s[i].name>> \in Files
    BY <1>2, FileNames
  <2>2. Whole(text).state # "absent"
    BY DEF Whole
  <2>3. k + 1 \in i + 1 .. k + 1 /\ ~s[k + 1].hidden
    BY <1>1
  <2>4. (\A j \in i + 1 .. k + 1 : ~s[j].hidden => s[j].name # s[i].name) => Head(todo).name # s[i].name
    BY <1>1, <2>3
  <2>5. QED
    BY <2>1, <2>2, <2>4, FileNames, Unwritten
<1>4. n \in Nat /\ n <= k + 1 /\ k + 1 \in Nat
  BY <1>1 DEF k
<1>5. KeptBy(tree', s, k, k + 1)
  <2>1. KeptBy(tree, s, k, n)
    BY DEF k
  <2> HIDE DEF s
  <2>2. QED
    BY <1>1, <1>3, <1>4, <2>1, KeptStays
<1>6. QED
  BY <1>5 DEF k

LEMMA KeptOthers ==
    ASSUME GenShape, NEW k \in 0 .. Len(src.daos), NEW n \in Nat, KeptBy(tree, src.daos, k, n),
           NEW f, NEW x, PutFile(f, x), x.state # "absent",
           f \in Files /\ \A d : f # <<"sql", d>> /\ f # <<"daoGen", d>>
    PROVE  KeptBy(tree', src.daos, k, n)
<1> DEFINE s == src.daos
<1>1. IsList(s)
  BY ProjectsAssumption DEF GenShape
<1>2. Len(s) \in Nat /\ DOMAIN s = 1 .. Len(s) /\ k \in Nat
  BY <1>1, ListDef
<1>3. \A i \in 1 .. k : s[i].name \in DaoNames
  BY <1>2 DEF GenShape, DaoNames
<1>4. ASSUME NEW i \in 1 .. k
      PROVE  /\ tree[<<"dao", s[i].name>>].state # "absent" => tree'[<<"dao", s[i].name>>].state # "absent"
             /\ tree'[<<"sql", s[i].name>>] = tree[<<"sql", s[i].name>>]
             /\ tree'[<<"daoGen", s[i].name>>] = tree[<<"daoGen", s[i].name>>]
  <2>1. <<"dao", s[i].name>> \in Files /\ <<"sql", s[i].name>> \in Files /\ <<"daoGen", s[i].name>> \in Files
    BY <1>3, FileNames
  <2>2. QED
    BY <2>1, Unwritten
<1>5. KeptBy(tree', s, k, n)
  <2>1. KeptBy(tree, s, k, n) /\ n <= n
    OBVIOUS
  <2> HIDE DEF s
  <2>2. \A i \in 1 .. k : ~s[i].hidden =>
            /\ tree[<<"dao", s[i].name>>].state # "absent" => tree'[<<"dao", s[i].name>>].state # "absent"
            /\ (\A j \in i + 1 .. n : ~s[j].hidden => s[j].name # s[i].name) =>
                    /\ tree'[<<"sql", s[i].name>>] = tree[<<"sql", s[i].name>>]
                    /\ tree'[<<"daoGen", s[i].name>>] = tree[<<"daoGen", s[i].name>>]
    BY <1>4
  <2>3. QED
    BY <1>2, <2>1, <2>2, KeptStays
<1>6. QED
  BY <1>5

LEMMA DaosStep ==
    ASSUME GenShape, DaosOk, StepOfKind
    PROVE  DaosOk'
<1> USE DEF AtDaos, PastDaos
<1> DEFINE s == src.daos
           n == Len(s)
           k == DaosDoneSoFar
<1>0. IsList(s) /\ n \in Nat
  <2>1. IsList(s)
    BY ProjectsAssumption DEF GenShape
  <2>2. QED
    BY <2>1, ListDef
<1>1. CASE pc = "idle" /\ pc' = "idle" /\ src' = src /\ result' = result
           /\ (tree' = tree \/ \E d \in DaoNames : PutFile(<<"dao", d>>, Edited))
  <2>1. Succeeded => KeptBy(tree, s, n, n)
    BY DEF DaosOk
  <2>2. Succeeded => KeptBy(tree', s, n, n)
    <3>1. CASE tree' = tree
      BY <2>1, <3>1
    <3>2. ASSUME NEW d \in DaoNames, PutFile(<<"dao", d>>, Edited), KeptBy(tree, s, n, n)
          PROVE  KeptBy(tree', s, n, n)
      <4>1. <<"dao", d>> \in Files /\ Edited.state # "absent" /\ n \in 0 .. n
            /\ \A e : <<"dao", d>> # <<"sql", e>> /\ <<"dao", d>> # <<"daoGen", e>>
        BY <1>0, FileNames DEF Edited
      <4>2. QED
        BY <1>0, <3>2, <4>1, KeptOthers
    <3>3. QED
      BY <1>1, <2>1, <3>1, <3>2
  <2>3. QED
    BY <1>1, <2>2 DEF DaosOk, Succeeded
<1>2. CASE pc' \in {"idle", "readEnums"} /\ result' # NoErr
  BY <1>2 DEF DaosOk, Succeeded
<1>3. CASE Done \/ UNCHANGED genVars
  <2>1. CASE Done
    <3>1. pc = "done" /\ src' = src /\ tree' = tree /\ pc' = "idle"
      BY <2>1 DEF Done, Return
    <3>2. QED
      BY <3>1 DEF DaosOk
  <2>2. CASE UNCHANGED genVars
    BY <2>2 DEF DaosOk, genVars, DaosDoneSoFar, Succeeded
  <2>3. QED
    BY <1>3, <2>1, <2>2
<1>4. CASE Moves
  <2>1. src' = src /\ tree' = tree /\ result' = result
    BY <1>4 DEF Moves, GoesOn
  <2>2. CASE GoesOn("readEnums", "enumsSql")
    BY <2>2 DEF GoesOn, DaosOk, Succeeded
  <2>3. CASE GoesOn("daos", "dao") /\ todo' = src.daos
    <3>1. DaosDoneSoFar' = 0
      BY <1>0, <2>1, <2>3 DEF DaosDoneSoFar
    <3>2. KeptBy(tree', s, 0, 0)
      BY DEF KeptBy
    <3>3. QED
      BY <2>1, <2>3, <3>1, <3>2 DEF GoesOn, DaosOk, Succeeded
  <2>4. CASE GoesOn("dao", "dao") /\ todo # <<>> /\ Head(todo).hidden /\ todo' = Tail(todo)
    <3>1. k \in Nat /\ Head(todo) = s[k + 1] /\ n - Len(Tail(todo)) = k + 1
      BY <2>4, DaosLeft DEF GoesOn
    <3>2. DaosDoneSoFar' = k + 1
      BY <2>1, <2>4, <3>1 DEF DaosDoneSoFar
    <3>3. KeptBy(tree, s, k, k)
      BY <2>4 DEF DaosOk, GoesOn
    <3>4. KeptBy(tree, s, k + 1, k + 1)
      <4> HIDE DEF k, s
      <4>1. KeptBy(tree, s, k, k + 1)
        <5>1. k + 1 \in Nat /\ k <= k + 1
          BY <3>1
        <5>2. QED
          BY <3>1, <3>3, <5>1, KeptStays
      <4>2. \A i \in 1 .. k + 1 : i \in 1 .. k \/ i = k + 1
        BY <3>1
      <4>3. s[k + 1].hidden
        BY <2>4, <3>1
      <4>4. QED
        BY <4>1, <4>2, <4>3 DEF KeptBy
    <3>5. KeptBy(tree', s', k', k')
      BY <2>1, <3>2, <3>4
    <3>6. QED
      BY <2>4, <3>5 DEF GoesOn, DaosOk, Succeeded
  <2>5. CASE GoesOn("skeleton", "nextDao") /\ todo' = todo /\ tree[<<"dao", Head(todo).name>>].state # "absent"
    BY <2>1, <2>5 DEF GoesOn, DaosOk, DaosDoneSoFar, Succeeded
  <2>6. CASE GoesOn("nextDao", "dao") /\ todo' = Tail(todo)
    <3>0. todo # <<>> /\ pc \in AtDaos
      BY <2>6 DEF GoesOn, GenShape
    <3>1. k \in Nat /\ Head(todo) = s[k + 1] /\ n - Len(Tail(todo)) = k + 1
      BY <3>0, DaosLeft
    <3>2. DaosDoneSoFar' = k + 1
      BY <2>1, <2>6, <3>1 DEF DaosDoneSoFar
    <3>3. /\ KeptBy(tree, s, k, k + 1)
          /\ tree[<<"dao", s[k + 1].name>>].state # "absent"
          /\ tree[<<"sql", s[k + 1].name>>] = Whole(generateFile(s[k + 1]).sql)
          /\ tree[<<"daoGen", s[k + 1].name>>] = Whole(generateFile(s[k + 1]).daoGen)
      BY <2>6, <3>1 DEF DaosOk, GoesOn
    <3>4. KeptBy(tree, s, k + 1, k + 1)
      <4> HIDE DEF k, s
      <4>1. \A i \in 1 .. k + 1 : i \in 1 .. k \/ i = k + 1
        BY <3>1
      <4>2. QED
        BY <3>3, <4>1 DEF KeptBy
    <3>5. KeptBy(tree', s', k', k')
      BY <2>1, <3>2, <3>4
    <3>6. QED
      BY <2>6, <3>5 DEF GoesOn, DaosOk, Succeeded
  <2>7. CASE GoesOn("dao", "readApi") /\ todo = <<>>
    <3>1. k = n
      BY <2>7, DaosLeft DEF GoesOn
    <3>2. KeptBy(tree', s', n', n')
      BY <2>1, <2>7, <3>1 DEF DaosOk, GoesOn
    <3>3. QED
      BY <2>7, <3>2 DEF GoesOn, DaosOk, Succeeded
  <2>8. CASE GoesOn("readApi", "apiGen")
    BY <2>1, <2>8 DEF GoesOn, DaosOk, Succeeded
  <2>9. QED
    BY <1>4, <2>2, <2>3, <2>4, <2>5, <2>6, <2>7, <2>8 DEF Moves
<1>5. CASE Writes
  <2>1. /\ src' = src /\ result' = result /\ pc' \notin AtDaos \cup {"idle"}
        /\ pc' \in PastDaos => pc \in PastDaos
        /\ \E name \in SingleFiles : \E text : PutFile(Single(name), Whole(text))
    BY <1>5 DEF Writes, Puts, GoesOn, SingleFiles
  <2>2. PICK name \in SingleFiles : \E text : PutFile(Single(name), Whole(text))
    BY <2>1
  <2>3. PICK text : PutFile(Single(name), Whole(text))
    BY <2>2
  <2>4. pc \in PastDaos => KeptBy(tree', s, n, n)
    <3>1. Whole(text).state # "absent" /\ Single(name) \in Files /\ n \in 0 .. n
          /\ \A d : Single(name) # <<"sql", d>> /\ Single(name) # <<"daoGen", d>>
      BY <1>0, FileNames DEF Whole
    <3>2. pc \in PastDaos => KeptBy(tree, s, n, n)
      BY DEF DaosOk
    <3>3. QED
      BY <1>0, <2>3, <3>1, <3>2, KeptOthers
  <2>5. QED
    BY <2>1, <2>4 DEF DaosOk, Succeeded
<1>6. CASE WritesDao
  <2> DEFINE d == Head(todo)
  <2>0. /\ src' = src /\ todo' = todo /\ pc \in AtDaos /\ pc' \in AtDaos
        /\ DaosDoneSoFar' = k
    BY <1>6 DEF WritesDao, Puts, GoesOn, DaosDoneSoFar
  <2>a. /\ todo # <<>> /\ ~d.hidden /\ d.name \in DaoNames
    <3>1. todo # <<>> /\ ~d.hidden
      BY <1>6 DEF WritesDao, Puts, GoesOn, GenShape
    <3>2. QED
      BY <2>0, <3>1, DaosLeft
  <2>b. <<"sql", d.name>> \in Files /\ <<"daoGen", d.name>> \in Files /\ <<"dao", d.name>> \in Files
    BY <2>a, FileNames
  <2>1. CASE Puts("dao", <<"sql", d.name>>, Whole(generateFile(d).sql), "daoGen")
    <3>1. KeptBy(tree, s, k, k)
      BY <2>1 DEF DaosOk, Puts, GoesOn
    <3>2. KeptBy(tree', s, k, k + 1)
      BY <2>0, <2>1, <2>a, <3>1, KeptAfterWrite DEF Puts
    <3>3. tree'[<<"sql", d.name>>] = Whole(generateFile(d).sql)
      BY <2>1, <2>b, Unwritten DEF Puts
    <3>4. QED
      BY <2>0, <2>1, <3>2, <3>3 DEF DaosOk, Puts, GoesOn, Succeeded
  <2>2. CASE Puts("daoGen", <<"daoGen", d.name>>, Whole(generateFile(d).daoGen), "skeleton")
    <3>1. KeptBy(tree, s, k, k + 1) /\ tree[<<"sql", d.name>>] = Whole(generateFile(d).sql)
      BY <2>2 DEF DaosOk, Puts, GoesOn
    <3>2. KeptBy(tree', s, k, k + 1)
      BY <2>0, <2>2, <2>a, <3>1, KeptAfterWrite DEF Puts
    <3>3. tree'[<<"daoGen", d.name>>] = Whole(generateFile(d).daoGen)
          /\ tree'[<<"sql", d.name>>] = Whole(generateFile(d).sql)
      BY <2>2, <2>b, <3>1, FileNames, Unwritten DEF Puts
    <3>4. QED
      BY <2>0, <2>2, <3>2, <3>3 DEF DaosOk, Puts, GoesOn, Succeeded
  <2>3. CASE Puts("skeleton", <<"dao", d.name>>, Whole(generateFile(d).dao), "nextDao")
    <3>1. /\ KeptBy(tree, s, k, k + 1) /\ tree[<<"sql", d.name>>] = Whole(generateFile(d).sql)
          /\ tree[<<"daoGen", d.name>>] = Whole(generateFile(d).daoGen)
      BY <2>3 DEF DaosOk, Puts, GoesOn
    <3>2. KeptBy(tree', s, k, k + 1)
      BY <2>0, <2>3, <2>a, <3>1, KeptAfterWrite DEF Puts
    <3>3. /\ tree'[<<"dao", d.name>>] = Whole(generateFile(d).dao)
          /\ tree'[<<"daoGen", d.name>>] = Whole(generateFile(d).daoGen)
          /\ tree'[<<"sql", d.name>>] = Whole(generateFile(d).sql)
      BY <2>3, <2>b, <3>1, FileNames, Unwritten DEF Puts
    <3>4. tree'[<<"dao", d.name>>].state # "absent"
      BY <3>3 DEF Whole
    <3>5. QED
      BY <2>0, <2>3, <3>2, <3>3, <3>4 DEF DaosOk, Puts, GoesOn, Succeeded
  <2>4. QED
    BY <1>6, <2>1, <2>2, <2>3 DEF WritesDao
<1>7. QED
  <2>1. Between => \/ /\ pc = "idle" /\ pc' = "idle" /\ src' = src /\ result' = result
                      /\ tree' = tree \/ \E d \in DaoNames : PutFile(<<"dao", d>>, Edited)
                   \/ pc' \in {"idle", "readEnums"} /\ result' # NoErr
    <3>1. ASSUME NEW d \in DaoNames, EditDao(d) PROVE PutFile(<<"dao", d>>, Edited)
      BY <3>1, PutOf DEF EditDao, GenShape
    <3>2. QED
      BY <3>1 DEF Between, Edit, Start, ServeRequest, EditDao, NotRun, NoErr
  <2>2. Stops => pc' \in {"idle", "readEnums"} /\ result' # NoErr
    BY DEF Stops
  <2>3. QED
    BY <1>1, <1>2, <1>3, <1>4, <1>5, <1>6, <2>1, <2>2 DEF StepOfKind, Ends

(* The generator by itself, as MCProgram runs it. *)
GenSpec == GenInit /\ [][GenNext]_genVars

GenIInv == GenShape /\ RouterOk /\ ServedOk /\ RegistryOk /\ SwaggerOk /\ SinglesOk /\ DaosOk

LEMMA GenStarts == GenInit => GenIInv
<1> SUFFICES ASSUME GenInit PROVE GenIInv
  OBVIOUS
<1>1. /\ src \in Projects /\ tree = [f \in Files |-> Absent] /\ pc = "idle"
      /\ result = NotRun /\ served = NoneServed
  BY DEF GenInit
<1>2. GenShape
  BY <1>1 DEF GenShape, Pcs, AtDaos
<1>3. \A a \in SingleFiles : tree[Single(a)].state = "absent"
  BY <1>1, FileNames DEF Absent
<1>4. RouterOk /\ SwaggerOk /\ tree[Single("gen.go")].state # "whole"
  BY <1>3 DEF RouterOk, SwaggerOk, SingleFiles
<1>5. ~Succeeded /\ ~(result \in AgainErrors)
  BY <1>1 DEF Succeeded, NotRun, NoErr, AgainErrors
<1>6. SinglesOk /\ DaosOk
  BY <1>1, <1>5 DEF SinglesOk, DaosOk, PastEnums, AtDaos, PastDaos, PastApiGen
<1>7. QED
  BY <1>1, <1>2, <1>4, <1>6 DEF GenIInv, RegistryOk, ServedOk

LEMMA GenSteps == GenIInv /\ [GenNext]_genVars => GenIInv'
<1> SUFFICES ASSUME GenIInv, [GenNext]_genVars PROVE GenIInv'
  OBVIOUS
<1>1. StepOfKind
  BY StepKinds DEF GenIInv
<1>2. QED
  BY <1>1, ShapeStep, RouterStep, ServedStep, RegistryStep, SwaggerStep, SinglesStep, DaosStep DEF GenIInv

(* gen/gen.go, Generate: between any two of its writes, after whatever earlier *)
(* runs and failures, the rest of the list of daos is still to do, what is     *)
(* written is of the sources the run read, the document on disk was made of    *)
(* some sources, and the router and the last request served are of a router    *)
(* the generator accepted.                                                     *)
THEOREM GenAlways == GenSpec => []GenIInv
BY GenStarts, GenSteps, PTL DEF GenSpec

(* gen/gen.go, util.FileExists before the skeleton of a dao is written:        *)
(* no run, failing or not, changes a dao file the programmer has worked on.    *)
THEOREM HandWrittenDaosSurvive == GenSpec => HandWrittenSurvives
<1>1. ASSUME GenIInv, [GenNext]_genVars, NEW d \in DaoNames, tree[<<"dao", d>>] = Edited
      PROVE  tree'[<<"dao", d>>] = Edited
  <2> DEFINE g == <<"dao", d>>
  <2>0. GenShape /\ StepOfKind /\ g \in Files
    BY <1>1, StepKinds, FileNames DEF GenIInv
  <2>1. CASE Between
    <3>1. ASSUME NEW e \in DaoNames, EditDao(e) PROVE tree'[g] = Edited
      BY <1>1, <2>0, <3>1 DEF EditDao, GenShape
    <3>2. QED
      BY <1>1, <2>1, <3>1 DEF Between, Edit, Start, ServeRequest
  <2>2. CASE Ends \/ Moves
    BY <1>1, <2>2 DEF Ends, Done, genVars, Moves
  <2>3. CASE Stops
    <3>1. ASSUME NEW f, PutFile(f, Torn), \A e \in DaoNames : f = <<"dao", e>> => tree[f] # Edited
          PROVE  tree'[g] = Edited
      BY <1>1, <2>0, <3>1, Unwritten
    <3>2. QED
      BY <1>1, <2>3, <3>1 DEF Stops, Tears
  <2>4. CASE Writes
    <3>1. PICK name \in SingleFiles : \E x : PutFile(Single(name), x)
      BY <2>4 DEF Writes, Puts, SingleFiles
    <3>2. QED
      BY <1>1, <2>0, <3>1, FileNames, Unwritten
  <2>5. CASE WritesDao
    <3>1. PICK e : \/ \E x : PutFile(<<"sql", e>>, x) \/ PutFile(<<"daoGen", e>>, x)
                   \/ tree[<<"dao", e>>] # Edited /\ \E x : PutFile(<<"dao", e>>, x)
      BY <2>5 DEF WritesDao, Puts
    <3>2. QED
      BY <1>1, <2>0, <3>1, FileNames, Unwritten
  <2>6. QED
    BY <2>0, <2>1, <2>2, <2>3, <2>4, <2>5 DEF StepOfKind
<1>2. GenIInv /\ [GenNext]_genVars =>
        [\A d \in DaoNames : tree[<<"dao", d>>] = Edited => tree'[<<"dao", d>>] = Edited]_genVars
  BY <1>1
<1>3. QED
  BY <1>2, GenAlways, PTL DEF GenSpec, HandWrittenSurvives

(* The templates of gen/api.go's handlers: the controller is called exactly     *)
(* when the identity, the parameters, the body and the files the operation      *)
(* requires are there; a client that can be answered is told success only when  *)
(* it was called and did not fail; the log says what was answered.              *)
THEOREM HandlersKeepPromises == GenSpec => []HandlerKeepsPromises
<1>1. GenIInv => HandlerKeepsPromises
  <2>1. CASE served = NoneServed
    BY <2>1, Zenon DEF HandlerKeepsPromises
  <2>2. CASE served # NoneServed
    BY <2>2, AnswerKeepsPromises DEF GenIInv, ServedOk
  <2>3. QED
    BY <2>1, <2>2
<1>2. QED
  BY <1>1, GenAlways, PTL

-----------------------------------------------------------------------------
(* The walk of the document's generator. *)

EnvOf(api, proto, registry) ==
    [errors |-> api.errors, registry |-> registry,
     descriptors |-> proto.messages, fields |-> ModelsFields(proto)]

(* The lists of a project's sources, and a registry of none but its models. *)
GoodSources(api, proto, registry) ==
    /\ IsList(api.routes) /\ \A i \in DOMAIN api.routes : IsList(api.routes[i].responseModels)
    /\ IsFiniteSet(proto.messages)
    /\ \A m \in proto.messages :
        /\ IsList(m.elements)
        /\ \A i \in DOMAIN m.elements : IsList(m.elements[i].members)
    /\ registry.models \subseteq PathsOf(proto)

Elements(proto) == UNION {ToSet(m.elements) : m \in proto.messages}

(* The models an operation needs, and those a call will come to. *)
ModelsOf(op) ==
    IF op.hidden THEN {}
    ELSE (IF op.files = {} /\ op.requestModel # NoModel THEN {op.requestModel} ELSE {})
         \cup ToSet(op.responseModels)
Wants(c) ==
    IF c.call = "operation" THEN ModelsOf(c.op)
    ELSE IF c.call \in {"response", "model"} THEN {c.path}
    ELSE {}

GoodCall(api, proto, c) ==
    \/ \E op \in ToSet(api.routes) : c = OperationCall(op)
    \/ \E p \in NamedModels(api, proto) : c = ResponseCall(p)
    \/ \E e \in {NoErr, "errUnknownRouteOperation", "errAtoi"} : c = CheckCall(e)
    \/ \E p \in NamedModels(api, proto) : c = ModelCall(p)
    \/ \E p, g : \E el \in Elements(proto) : c = ElementCall(p, el, g)
    \/ \E p, g : \E f \in FieldsOfProto(proto) : c = FieldCall(p, f, g)
    \/ \E p : c = CloseCall(p)

(* What a call adds to the calls to make. *)
Follows(api, proto, visited, c, new) ==
    /\ IsList(new)
    /\ \A d \in ToSet(new) : GoodCall(api, proto, d)
    /\ \A d \in ToSet(new) : d.call = "close" =>
            c.call = "model" /\ Snake(d.path) = SchemaName(api.errors, c.path)
    /\ c.call = "model" => SchemaName(api.errors, c.path) \in visited \/ \E d \in ToSet(new) : d.call = "close"
    /\ c.call # "model" => \A p \in Wants(c) : \E d \in ToSet(new) : p \in Wants(d)
    /\ c.call = "field" => (c.field.type = "message" => \E d \in ToSet(new) : c.field.of \in Wants(d))

LEMMA FieldsOfElement ==
    ASSUME NEW api, NEW proto, NEW registry, GoodSources(api, proto, registry), NEW el \in Elements(proto)
    PROVE  IsList(FieldsIn(el)) /\ ToSet(FieldsIn(el)) \subseteq FieldsOfProto(proto)
<1>1. PICK m \in proto.messages : el \in ToSet(m.elements)
  BY DEF Elements
<1>2. IsList(el.members)
  BY <1>1 DEF GoodSources, ToSet
<1>3. IsList(FieldsIn(el))
  BY <1>2, OneList, NoList DEF FieldsIn
<1>4. QED
  BY <1>1, <1>3 DEF FieldsOfProto

LEMMA FieldsAreNamed ==
    ASSUME NEW api, NEW proto, NEW x \in FieldsOfProto(proto), x.type = "message"
    PROVE  x.of \in NamedModels(api, proto)
<1> DEFINE models == {f.of : f \in {g \in FieldsOfProto(proto) : g.type = "message"}}
<1>1. x.of \in models
  OBVIOUS
<1>2. models \subseteq NamedModels(api, proto)
  BY DEF NamedModels
<1> HIDE DEF models
<1>3. QED
  BY <1>1, <1>2

LEMMA OperationFollows ==
    ASSUME NEW api, NEW proto, NEW registry, GoodSources(api, proto, registry), NEW visited,
           NEW op \in ToSet(api.routes)
    PROVE  Follows(api, proto, visited, OperationCall(op), OperationCalls(op))
<1> DEFINE c == OperationCall(op)
           named == NamedModels(api, proto)
           a == IF op.files = {} /\ op.requestModel # NoModel THEN <<ModelCall(op.requestModel)>> ELSE <<>>
           b == [i \in DOMAIN op.responseModels |-> ResponseCall(op.responseModels[i])]
           z == <<CheckCall(RouteError(op))>>
<1>1. op.requestModel \in named /\ ToSet(op.responseModels) \subseteq named
  <2> DEFINE these == {ToSet(o.responseModels) \cup {o.requestModel} : o \in ToSet(api.routes)}
  <2>1. ToSet(op.responseModels) \cup {op.requestModel} \in these
    OBVIOUS
  <2>2. UNION these \subseteq named
    BY DEF NamedModels
  <2> HIDE DEF these, named
  <2>3. QED
    BY <2>1, <2>2
<1>2. IsList(op.responseModels)
  BY DEF GoodSources, ToSet
<1>3. IsList(a) /\ ToSet(a) = IF op.files = {} /\ op.requestModel # NoModel
                              THEN {ModelCall(op.requestModel)} ELSE {}
  BY OneList, NoList
<1>4. IsList(b) /\ ToSet(b) = {ResponseCall(p) : p \in ToSet(op.responseModels)}
  <2>1. DOMAIN b = DOMAIN op.responseModels /\ b = [i \in DOMAIN op.responseModels |-> b[i]]
    OBVIOUS
  <2>2. IsList(b) /\ ToSet(b) = {b[i] : i \in DOMAIN op.responseModels}
    <3> HIDE DEF b
    <3>1. QED
      BY <1>2, <2>1, ListLike
  <2>3. QED
    BY <2>2 DEF ToSet
<1>5. IsList(z) /\ ToSet(z) = {CheckCall(RouteError(op))}
  BY OneList
<1>6. CASE op.hidden
  <2>1. OperationCalls(op) = <<>> /\ Wants(c) = {} /\ c.call = "operation"
    BY <1>6 DEF OperationCalls, Wants, ModelsOf, OperationCall
  <2>2. QED
    BY <2>1, NoList DEF Follows
<1>7. CASE ~op.hidden
  <2>1. OperationCalls(op) = a \o b \o z
    BY <1>7 DEF OperationCalls
  <2>2. IsList(a \o b \o z) /\ ToSet(a \o b \o z) = ToSet(a) \cup ToSet(b) \cup ToSet(z)
    <3> HIDE DEF a, b, z
    <3>1. IsList(a \o b) /\ ToSet(a \o b) = ToSet(a) \cup ToSet(b)
      BY <1>3, <1>4, ConcatLists
    <3>2. QED
      BY <1>5, <3>1, ConcatLists
  <2> DEFINE new == OperationCalls(op)
  <2>3. IsList(new) /\ ToSet(new) = ToSet(a) \cup ToSet(b) \cup ToSet(z)
    BY <2>1, <2>2
  <2> HIDE DEF new
  <2>4. c.call = "operation" /\ Wants(c) = ModelsOf(op)
    BY DEF Wants, OperationCall
  <2>5. \A d \in ToSet(new) : GoodCall(api, proto, d) /\ d.call # "close"
    <3>1. \A d \in ToSet(a) : GoodCall(api, proto, d) /\ d.call # "close"
      BY <1>1, <1>3 DEF GoodCall, ModelCall
    <3>2. \A d \in ToSet(b) : GoodCall(api, proto, d) /\ d.call # "close"
      BY <1>1, <1>4 DEF GoodCall, ResponseCall
    <3>3. \A d \in ToSet(z) : GoodCall(api, proto, d) /\ d.call # "close"
      <4>1. RouteError(op) \in {NoErr, "errUnknownRouteOperation", "errAtoi"}
        BY DEF RouteError
      <4>2. QED
        BY <1>5, <4>1 DEF GoodCall, CheckCall
    <3> HIDE DEF a, b, z
    <3>4. QED
      BY <2>3, <3>1, <3>2, <3>3
  <2>6. \A p \in ModelsOf(op) : \E d \in ToSet(new) : p \in Wants(d)
    <3>1. ASSUME op.files = {}, op.requestModel # NoModel
          PROVE  /\ ModelCall(op.requestModel) \in ToSet(a)
                 /\ op.requestModel \in Wants(ModelCall(op.requestModel))
      BY <1>3, <3>1 DEF Wants, ModelCall
    <3>2. \A p \in ToSet(op.responseModels) : ResponseCall(p) \in ToSet(b) /\ p \in Wants(ResponseCall(p))
      BY <1>4 DEF Wants, ResponseCall
    <3> HIDE DEF a, b, z
    <3>3. QED
      BY <2>3, <3>1, <3>2 DEF ModelsOf
  <2>7. QED
    <3>1. Follows(api, proto, visited, c, new)
      <4> HIDE DEF c
      <4>1. QED
        BY <2>3, <2>4, <2>5, <2>6 DEF Follows
    <3>2. QED
      BY <3>1 DEF new
<1>8. QED
  BY <1>6, <1>7

LEMMA ModelFollows ==
    ASSUME NEW api, NEW proto, NEW registry, GoodSources(api, proto, registry),
           NEW st, DOMAIN st.schemas \subseteq st.visited, NEW p,
           addSchemaError(EnvOf(api, proto, registry), st, p) = NoErr
    PROVE  Follows(api, proto, st.visited, ModelCall(p), addSchema(EnvOf(api, proto, registry), st, p))
<1> DEFINE given == EnvOf(api, proto, registry)
           c == ModelCall(p)
           name == SchemaName(api.errors, p)
           model == Standing(api.errors, p)
           new == addSchema(given, st, p)
<1>0. given.errors = api.errors /\ given.registry = registry /\ given.descriptors = proto.messages
  BY DEF EnvOf
<1>1. c.call = "model" /\ c.path = p /\ name = Snake(model)
  BY DEF ModelCall, SchemaName
<1>2. CASE name \in st.visited
  <2>1. new = <<>>
    BY <1>0, <1>2 DEF addSchema
  <2>2. SchemaName(api.errors, c.path) \in st.visited
    BY <1>1, <1>2
  <2> HIDE DEF c, name, new
  <2>3. Follows(api, proto, st.visited, c, new)
    BY <1>1, <2>1, <2>2, NoList DEF Follows
  <2>4. QED
    BY <2>3 DEF c, new
<1>3. CASE name \notin st.visited
  <2>1. new = describeModel(proto.messages, model)
    BY <1>0, <1>3 DEF addSchema
  <2>2. model \in PathsOf(proto)
    <3>1. model \in registry.models
      BY <1>0, <1>1, <1>3 DEF addSchemaError, NoErr
    <3>2. QED
      BY <3>1 DEF GoodSources
  <2> DEFINE m == CHOOSE d \in proto.messages : d.path = model
             els == m.elements
             plain == [i \in DOMAIN els |-> ElementCall(model, els[i], FALSE)]
             grouped == [i \in DOMAIN els |-> ElementCall(model, els[i], TRUE)]
             end == <<CloseCall(model)>>
  <2>3. m \in proto.messages
    BY <2>2 DEF PathsOf
  <2>4. new = plain \o grouped \o end
    BY <2>1 DEF describeModel
  <2> HIDE DEF m
  <2>5. IsList(els) /\ \A i \in DOMAIN els : els[i] \in Elements(proto)
    BY <2>3 DEF GoodSources, Elements, ToSet
  <2>6. /\ IsList(plain) /\ ToSet(plain) = {plain[i] : i \in DOMAIN els}
        /\ IsList(grouped) /\ ToSet(grouped) = {grouped[i] : i \in DOMAIN els}
    <3>1. /\ DOMAIN plain = DOMAIN els /\ plain = [i \in DOMAIN els |-> plain[i]]
          /\ DOMAIN grouped = DOMAIN els /\ grouped = [i \in DOMAIN els |-> grouped[i]]
      OBVIOUS
    <3> HIDE DEF plain, grouped, els
    <3>2. QED
      BY <2>5, <3>1, ListLike
  <2>7. IsList(end) /\ ToSet(end) = {CloseCall(model)}
    BY OneList
  <2>8. IsList(new) /\ ToSet(new) = ToSet(plain) \cup ToSet(grouped) \cup {CloseCall(model)}
    <3> HIDE DEF plain, grouped, end, new, els
    <3>1. IsList(plain \o grouped) /\ ToSet(plain \o grouped) = ToSet(plain) \cup ToSet(grouped)
      BY <2>6, ConcatLists
    <3>2. QED
      BY <2>4, <2>7, <3>1, ConcatLists
  <2>9. \A d \in ToSet(plain) \cup ToSet(grouped) : GoodCall(api, proto, d) /\ d.call # "close"
    <3>1. \A i \in DOMAIN els :
            /\ GoodCall(api, proto, ElementCall(model, els[i], FALSE))
            /\ GoodCall(api, proto, ElementCall(model, els[i], TRUE))
            /\ ElementCall(model, els[i], FALSE).call # "close"
            /\ ElementCall(model, els[i], TRUE).call # "close"
      <4> HIDE DEF els, model
      <4>1. QED
        BY <2>5 DEF GoodCall, ElementCall
    <3> HIDE DEF els, model
    <3>2. QED
      BY <2>6, <3>1
  <2>10. /\ GoodCall(api, proto, CloseCall(model)) /\ CloseCall(model).call = "close"
         /\ CloseCall(model).path = model
    BY DEF GoodCall, CloseCall
  <2>11. Follows(api, proto, st.visited, c, new)
    <3> HIDE DEF plain, grouped, end, new, els, model, name, c
    <3>1. /\ \A d \in ToSet(new) : GoodCall(api, proto, d)
          /\ \A d \in ToSet(new) : d.call = "close" => d = CloseCall(model)
          /\ CloseCall(model) \in ToSet(new)
      BY <2>8, <2>9, <2>10
    <3>2. \A d \in ToSet(new) : d.call = "close" => Snake(d.path) = SchemaName(api.errors, c.path)
      BY <1>1, <2>10, <3>1 DEF name
    <3>3. QED
      BY <1>1, <2>8, <2>10, <3>1, <3>2 DEF Follows
  <2>12. QED
    BY <2>11
<1>4. QED
  BY <1>2, <1>3

LEMMA CallsFollow ==
    ASSUME NEW api, NEW proto, NEW registry, GoodSources(api, proto, registry),
           NEW st, DOMAIN st.schemas \subseteq st.visited,
           NEW c, GoodCall(api, proto, c), CallError(EnvOf(api, proto, registry), st, c) = NoErr
    PROVE  Follows(api, proto, st.visited, c, Calls(EnvOf(api, proto, registry), st, c))
<1> DEFINE given == EnvOf(api, proto, registry)
           named == NamedModels(api, proto)
           new == Calls(given, st, c)
<1>0. given.errors = api.errors
  BY DEF EnvOf
<1> HIDE DEF given
<1>1. CASE \E op \in ToSet(api.routes) : c = OperationCall(op)
  <2>1. PICK op \in ToSet(api.routes) : c = OperationCall(op)
    BY <1>1
  <2>2. new = OperationCalls(op)
    BY <2>1 DEF Calls, OperationCall
  <2>3. QED
    BY <2>1, <2>2, OperationFollows DEF given
<1>2. CASE \E p \in named : c = ResponseCall(p)
  <2>1. PICK p \in named : c = ResponseCall(p)
    BY <1>2
  <2> DEFINE e == StatusError(given.errors, p)
  <2>2. new = <<ModelCall(p), CheckCall(e)>> /\ c.call = "response" /\ Wants(c) = {p}
    BY <2>1 DEF Calls, ResponseCall, Wants
  <2>3. IsList(new) /\ ToSet(new) = {ModelCall(p), CheckCall(e)}
    <3> HIDE DEF e
    <3>1. QED
      BY <2>2 DEF IsList, ToSet
  <2>4. e \in {NoErr, "errUnknownRouteOperation", "errAtoi"}
    BY DEF StatusError
  <2>5. GoodCall(api, proto, ModelCall(p)) /\ ModelCall(p).call = "model" /\ p \in Wants(ModelCall(p))
    BY DEF GoodCall, ModelCall, Wants
  <2>6. GoodCall(api, proto, CheckCall(e)) /\ CheckCall(e).call = "check"
    <3> HIDE DEF e
    <3>1. QED
      BY <2>4 DEF GoodCall, CheckCall
  <2> HIDE DEF e, new
  <2>7. Follows(api, proto, st.visited, c, new)
    BY <2>2, <2>3, <2>5, <2>6 DEF Follows
  <2>8. QED
    BY <2>7 DEF new, given
<1>3. CASE \E p \in named : c = ModelCall(p)
  <2>1. PICK p \in named : c = ModelCall(p)
    BY <1>3
  <2>2. new = addSchema(given, st, p) /\ addSchemaError(given, st, p) = NoErr
    BY <2>1 DEF Calls, CallError, ModelCall, given
  <2>3. QED
    BY <2>1, <2>2, ModelFollows DEF given
<1>4. CASE \E p, g : \E el \in Elements(proto) : c = ElementCall(p, el, g)
  <2>1. PICK p, g : \E el \in Elements(proto) : c = ElementCall(p, el, g)
    BY <1>4
  <2>2. PICK el \in Elements(proto) : c = ElementCall(p, el, g)
    BY <2>1
  <2> DEFINE fields == FieldsIn(el)
             calls == [k \in DOMAIN fields |-> FieldCall(p, fields[k], GroupOf(el))]
  <2>3. c.call = "element" /\ Wants(c) = {} /\ (new = calls \/ new = <<>>)
    BY <2>2 DEF Calls, ElementCall, Wants
  <2>4. IsList(fields) /\ ToSet(fields) \subseteq FieldsOfProto(proto)
    BY FieldsOfElement
  <2>5. IsList(calls) /\ ToSet(calls) = {calls[k] : k \in DOMAIN fields}
    <3>1. DOMAIN calls = DOMAIN fields /\ calls = [k \in DOMAIN fields |-> calls[k]]
      OBVIOUS
    <3> HIDE DEF calls, fields
    <3>2. QED
      BY <2>4, <3>1, ListLike
  <2>6. \A d \in ToSet(calls) : GoodCall(api, proto, d) /\ d.call # "close"
    <3>1. \A k \in DOMAIN fields : fields[k] \in FieldsOfProto(proto)
      BY <2>4 DEF ToSet
    <3> HIDE DEF fields
    <3>2. \A k \in DOMAIN fields : GoodCall(api, proto, calls[k]) /\ calls[k].call # "close"
      BY <3>1 DEF GoodCall, FieldCall
    <3> HIDE DEF calls
    <3>3. QED
      BY <2>5, <3>2
  <2>7. IsList(new) /\ \A d \in ToSet(new) : GoodCall(api, proto, d) /\ d.call # "close"
    <3> HIDE DEF calls, new
    <3>1. QED
      BY <2>3, <2>5, <2>6, NoList
  <2> HIDE DEF new
  <2>8. Follows(api, proto, st.visited, c, new)
    BY <2>3, <2>7 DEF Follows
  <2>9. QED
    BY <2>8 DEF new, given
<1>5. CASE \E p, g : \E f \in FieldsOfProto(proto) : c = FieldCall(p, f, g)
  <2>1. PICK p, g : \E f \in FieldsOfProto(proto) : c = FieldCall(p, f, g)
    BY <1>5
  <2>2. PICK f \in FieldsOfProto(proto) : c = FieldCall(p, f, g)
    BY <2>1
  <2>3. c.call = "field" /\ c.field = f /\ Wants(c) = {}
    BY <2>2 DEF FieldCall, Wants
  <2>4. CASE f.type = "message"
    <3>1. f.of \in named
      BY <2>4, FieldsAreNamed
    <3>2. new = <<ModelCall(f.of)>>
      BY <2>3, <2>4 DEF Calls
    <3>3. IsList(new) /\ ToSet(new) = {ModelCall(f.of)}
      BY <3>2, OneList
    <3>4. /\ GoodCall(api, proto, ModelCall(f.of)) /\ ModelCall(f.of).call = "model"
          /\ f.of \in Wants(ModelCall(f.of))
      BY <3>1 DEF GoodCall, ModelCall, Wants
    <3> HIDE DEF new
    <3>5. Follows(api, proto, st.visited, c, new)
      BY <2>3, <3>3, <3>4 DEF Follows
    <3>6. QED
      BY <3>5 DEF new, given
  <2>5. CASE f.type # "message"
    <3>1. new = <<>>
      BY <2>3, <2>5 DEF Calls
    <3> HIDE DEF new
    <3>2. Follows(api, proto, st.visited, c, new)
      BY <2>3, <2>5, <3>1, NoList DEF Follows
    <3>3. QED
      BY <3>2 DEF new, given
  <2>6. QED
    BY <2>4, <2>5
<1>6. CASE \/ \E e \in {NoErr, "errUnknownRouteOperation", "errAtoi"} : c = CheckCall(e)
           \/ \E p : c = CloseCall(p)
  <2>1. c.call \in {"check", "close"}
    BY <1>6 DEF CheckCall, CloseCall
  <2>2. new = <<>> /\ Wants(c) = {}
    BY <2>1 DEF Calls, Wants
  <2> HIDE DEF new
  <2>3. Follows(api, proto, st.visited, c, new)
    BY <2>1, <2>2, NoList DEF Follows
  <2>4. QED
    BY <2>3 DEF new, given
<1>7. QED
  BY <1>1, <1>2, <1>3, <1>4, <1>5, <1>6 DEF GoodCall

(* A model the walk has visited, or will. *)
InReach(api, st, name) ==
    \/ name \in st.visited
    \/ \E c \in ToSet(st.todo) : \E p \in Wants(c) : name = SchemaName(api.errors, p)

(* The properties of a schema, those of its unions too, and where they are from. *)
PropertiesOf(s) == s.properties \cup UNION {u[2] : u \in s.unions}
FromMade(s, made) == \A x \in PropertiesOf(s) : \E y \in made : x = <<y.name, y.property>>

WalkState(st) ==
    st = [schemas |-> st.schemas, visited |-> st.visited, made |-> st.made, todo |-> st.todo, err |-> st.err]

CallsOk(api, proto, st) ==
    /\ WalkState(st)
    /\ IsList(st.todo)
    /\ \A c \in ToSet(st.todo) : GoodCall(api, proto, c)
    /\ DOMAIN st.schemas \subseteq st.visited

(* Whatever is referred to is in the document, or will be. *)
ClosedSoFar(api, st) ==
    /\ \A s \in st.visited :
        s \in DOMAIN st.schemas \/ \E c \in ToSet(st.todo) : c.call = "close" /\ s = Snake(c.path)
    /\ \A c \in ToSet(st.todo) : c.call = "close" => Snake(c.path) \in st.visited
    /\ \A y \in st.made : y.property.type \in {"ref", "map"} => InReach(api, st, y.property.ref)
    /\ \A op \in ToSet(api.routes) : \A p \in ModelsOf(op) : InReach(api, st, SchemaName(api.errors, p))
    /\ \A k \in DOMAIN st.schemas : FromMade(st.schemas[k], st.made)

(* Why the walk may end with an error that says to run gen again. *)
Explained(api, proto, registry, err) ==
    /\ err = "errNoSchemaFound" =>
        \E r \in NamedModels(api, proto) : Standing(api.errors, r) \notin registry.models
    /\ err = "errUnknownEnum" =>
        \E f \in FieldsOfProto(proto) : f.type = "enum" /\ f.of \notin DOMAIN registry.enums

WalkInv(api, proto, registry, st) ==
    /\ CallsOk(api, proto, st)
    /\ ClosedSoFar(api, st)
    /\ Explained(api, proto, registry, st.err)

(* What one call makes of the state. *)
CallMakes(api, proto, registry, st, to, c) ==
    /\ WalkState(to) /\ to.err = NoErr
    /\ to.todo = Calls(EnvOf(api, proto, registry), st, c) \o Tail(st.todo)
    /\ to.visited = st.visited \cup (IF c.call = "model" THEN {SchemaName(api.errors, c.path)} ELSE {})
    /\ to.made = st.made \cup (IF c.call = "field" THEN {Made(EnvOf(api, proto, registry), c)} ELSE {})
    /\ c.call # "close" => to.schemas = st.schemas
    /\ c.call = "close" =>
        /\ DOMAIN to.schemas = DOMAIN st.schemas \cup {Snake(c.path)}
        /\ \A k \in DOMAIN to.schemas :
            to.schemas[k] = IF k = Snake(c.path)
                            THEN SchemaOf(proto.messages, ModelsFields(proto), st.made, c.path)
                            ELSE st.schemas[k]

LEMMA WalkIs ==
    ASSUME NEW api, NEW proto, NEW registry, NEW st, WalkState(st), NEW to,
           to = Walk(EnvOf(api, proto, registry), st)
    PROVE  \/ to = st
           \/ /\ st.todo # <<>> /\ st.err = NoErr
              /\ CallError(EnvOf(api, proto, registry), st, Head(st.todo)) # NoErr
              /\ to = [st EXCEPT !.err = CallError(EnvOf(api, proto, registry), st, Head(st.todo))]
           \/ /\ st.todo # <<>> /\ st.err = NoErr
              /\ CallError(EnvOf(api, proto, registry), st, Head(st.todo)) = NoErr
              /\ CallMakes(api, proto, registry, st, to, Head(st.todo))
<1> DEFINE given == EnvOf(api, proto, registry)
           c == Head(st.todo)
<1>0. given.errors = api.errors /\ given.descriptors = proto.messages /\ given.fields = ModelsFields(proto)
  BY DEF EnvOf
<1> HIDE DEF given
<1>1. CASE st.todo = <<>> \/ st.err # NoErr
  BY <1>1 DEF Walk, given
<1>2. CASE st.todo # <<>> /\ st.err = NoErr /\ CallError(given, st, c) # NoErr
  <2>1. to = [st EXCEPT !.err = CallError(given, st, c)]
    BY <1>2, Zenon DEF Walk, given
  <2>2. QED
    BY <1>2, <2>1 DEF given
<1>3. CASE st.todo # <<>> /\ st.err = NoErr /\ CallError(given, st, c) = NoErr
  <2> DEFINE closed == [k \in DOMAIN st.schemas \cup {Snake(c.path)} |->
                            IF k = Snake(c.path) THEN SchemaOf(given.descriptors, given.fields, st.made, c.path)
                            ELSE st.schemas[k]]
  <2>1. to = [schemas |-> IF c.call = "close" THEN closed ELSE st.schemas,
              visited |-> st.visited \cup (IF c.call = "model" THEN {SchemaName(given.errors, c.path)} ELSE {}),
              made |-> st.made \cup (IF c.call = "field" THEN {Made(given, c)} ELSE {}),
              todo |-> Calls(given, st, c) \o Tail(st.todo),
              err |-> NoErr]
    BY <1>3, Zenon DEF Walk, given
  <2>2. /\ to.visited = st.visited \cup (IF c.call = "model" THEN {SchemaName(api.errors, c.path)} ELSE {})
        /\ to.made = st.made \cup (IF c.call = "field" THEN {Made(given, c)} ELSE {})
        /\ to.todo = Calls(given, st, c) \o Tail(st.todo)
        /\ to.err = NoErr /\ to.schemas = IF c.call = "close" THEN closed ELSE st.schemas
        /\ WalkState(to)
    <3> HIDE DEF closed, c
    <3>1. QED
      BY <1>0, <2>1 DEF WalkState
  <2>3. /\ DOMAIN closed = DOMAIN st.schemas \cup {Snake(c.path)}
        /\ \A k \in DOMAIN closed :
            closed[k] = IF k = Snake(c.path) THEN SchemaOf(proto.messages, ModelsFields(proto), st.made, c.path)
                        ELSE st.schemas[k]
    BY <1>0
  <2>4. CallMakes(api, proto, registry, st, to, c)
    <3> HIDE DEF closed, c
    <3>1. QED
      BY <2>2, <2>3 DEF CallMakes, given
  <2>5. QED
    BY <1>3, <2>4 DEF given
<1>4. QED
  BY <1>1, <1>2, <1>3 DEF given

(* The errors of a call that say to run gen again come from where they say. *)
LEMMA CallErrorExplained ==
    ASSUME NEW api, NEW proto, NEW registry, NEW st, NEW c, GoodCall(api, proto, c)
    PROVE  Explained(api, proto, registry, CallError(EnvOf(api, proto, registry), st, c))
<1> DEFINE given == EnvOf(api, proto, registry)
<1>0. given.errors = api.errors /\ given.registry = registry /\ given.fields = ModelsFields(proto)
  BY DEF EnvOf
<1> HIDE DEF given
<1>1. CASE \E op \in ToSet(api.routes) : c = OperationCall(op)
  <2>1. PICK op : c.call = "operation" /\ c.op = op
    BY <1>1 DEF OperationCall
  <2>2. SecurityError(op) \in {NoErr, "errOnlyOneSecurityAllowed", "panic"}
    BY DEF SecurityError
  <2>3. ParameterError(op) \in {NoErr, "errUnknownParameterType"}
    BY DEF ParameterError
  <2> DEFINE two == <<SecurityError(op), ParameterError(op)>>
  <2>4. IsList(two) /\ ToSet(two) = {SecurityError(op), ParameterError(op)}
    BY DEF IsList, ToSet
  <2>5. FirstOf(two) \in {NoErr, "errOnlyOneSecurityAllowed", "panic", "errUnknownParameterType"}
    <3> HIDE DEF two
    <3>1. QED
      BY <2>2, <2>3, <2>4, FirstError
  <2>6. CallError(given, st, c) \in {NoErr, "errOnlyOneSecurityAllowed", "panic", "errUnknownParameterType"}
    BY <2>1, <2>5 DEF CallError, OperationError
  <2>7. QED
    BY <2>6 DEF Explained, NoErr, given
<1>2. CASE \E p \in NamedModels(api, proto) : c = ResponseCall(p)
  <2>1. CallError(given, st, c) = NoErr
    BY <1>2 DEF CallError, ResponseCall
  <2>2. QED
    BY <2>1 DEF Explained, NoErr, given
<1>3. CASE \E e \in {NoErr, "errUnknownRouteOperation", "errAtoi"} : c = CheckCall(e)
  <2>1. CallError(given, st, c) \in {NoErr, "errUnknownRouteOperation", "errAtoi"}
    BY <1>3 DEF CallError, CheckCall
  <2>2. QED
    BY <2>1 DEF Explained, NoErr, given
<1>4. CASE \E p \in NamedModels(api, proto) : c = ModelCall(p)
  <2>1. PICK p \in NamedModels(api, proto) : c = ModelCall(p)
    BY <1>4
  <2>2. CallError(given, st, c) = addSchemaError(given, st, p)
    BY <2>1 DEF CallError, ModelCall
  <2>3. /\ addSchemaError(given, st, p) \in {NoErr, "panic", "errNoSchemaFound"}
        /\ addSchemaError(given, st, p) = "errNoSchemaFound" => Standing(api.errors, p) \notin registry.models
    BY <1>0 DEF addSchemaError, NoErr
  <2>4. QED
    BY <2>2, <2>3 DEF Explained, NoErr, given
<1>5. CASE \E p, g : \E el \in Elements(proto) : c = ElementCall(p, el, g)
  <2>1. CallError(given, st, c) = NoErr
    BY <1>5 DEF CallError, ElementCall
  <2>2. QED
    BY <2>1 DEF Explained, NoErr, given
<1>6. CASE \E p, g : \E f \in FieldsOfProto(proto) : c = FieldCall(p, f, g)
  <2>1. PICK p, g : \E f \in FieldsOfProto(proto) : c = FieldCall(p, f, g)
    BY <1>6
  <2>2. PICK f \in FieldsOfProto(proto) : c = FieldCall(p, f, g)
    BY <2>1
  <2>3. CallError(given, st, c) = PropertyError(given, p, f)
    BY <2>2 DEF CallError, FieldCall
  <2>4. /\ PropertyError(given, p, f) \in
            {NoErr, "errFieldNotFound", "panic", "errUnknownEnum", "errKindNotSupported"}
        /\ PropertyError(given, p, f) = "errUnknownEnum" => f.type = "enum" /\ f.of \notin DOMAIN registry.enums
    BY <1>0 DEF PropertyError, NoErr
  <2>5. QED
    BY <2>3, <2>4 DEF Explained, NoErr, given
<1>7. CASE \E p : c = CloseCall(p)
  <2>1. CallError(given, st, c) = NoErr
    BY <1>7 DEF CallError, CloseCall
  <2>2. QED
    BY <2>1 DEF Explained, NoErr, given
<1>8. QED
  BY <1>1, <1>2, <1>3, <1>4, <1>5, <1>6, <1>7 DEF GoodCall

LEMMA SchemaFromMade ==
    ASSUME NEW descriptors, NEW fields, NEW made, NEW path
    PROVE  FromMade(SchemaOf(descriptors, fields, made, path), made)
<1> DEFINE m == CHOOSE d \in descriptors : d.path = path
           properties(group) ==
               {<<x.name, x.property>> : x \in {y \in made : y.model = path /\ y.group = group}}
           plain == UNION {ToSet(FieldsIn(el)) : el \in {e \in ToSet(m.elements) : ~IsGroup(e)}}
           groups == {GroupOf(el) : el \in {e \in ToSet(m.elements) : IsGroup(e)}}
           required == {f.name : f \in {g \in plain : IsRequired(fields[path][g.name])}}
           s == SchemaOf(descriptors, fields, made, path)
<1>1. s = [properties |-> properties(NoGroup), required |-> required,
           unions |-> {<<group, properties(group)>> : group \in groups},
           top |-> plain = {} /\ Cardinality(groups) = 1, model |-> path]
  BY DEF SchemaOf
<1> HIDE DEF s, groups, plain, required, m
<1>2. s.properties = properties(NoGroup) /\ s.unions = {<<group, properties(group)>> : group \in groups}
  <2> HIDE DEF properties
  <2>1. QED
    BY <1>1
<1>3. ASSUME NEW group, NEW x \in properties(group)
      PROVE  \E y \in made : x = <<y.name, y.property>>
  BY <1>3
<1>4. ASSUME NEW x \in PropertiesOf(s) PROVE \E group : x \in properties(group)
  <2>1. CASE x \in s.properties
    <3> HIDE DEF properties
    <3>1. QED
      BY <1>2, <2>1
  <2>2. CASE x \in UNION {u[2] : u \in s.unions}
    <3> HIDE DEF properties
    <3>1. PICK u \in s.unions : x \in u[2]
      BY <2>2
    <3>2. PICK group \in groups : u = <<group, properties(group)>>
      BY <1>2, <3>1
    <3>3. QED
      BY <3>1, <3>2
  <2>3. QED
    BY <1>4, <2>1, <2>2 DEF PropertiesOf
<1>5. QED
  <2> HIDE DEF properties
  <2>1. FromMade(s, made)
    BY <1>3, <1>4 DEF FromMade
  <2>2. QED
    BY <2>1 DEF s

LEMMA MadeRefers ==
    ASSUME NEW given, NEW c, PropertyError(given, c.path, c.field) = NoErr,
           Made(given, c).property.type \in {"ref", "map"}
    PROVE  c.field.type = "message" /\ Made(given, c).property.ref = SchemaName(given.errors, c.field.of)
<1> DEFINE f == c.field
           flags == given.fields[c.path][f.name]
           property(type, ref) == [type |-> type, ref |-> ref, array |-> flags.repeated]
<1>1. f.type \in {"message", "enum"} \cup DOMAIN Scalars
  BY DEF PropertyError, NoErr
<1>2. Made(given, c).property = PropertyOf(given, c.path, f)
  BY DEF Made
<1>3. CASE f.type = "message"
  <2>1. PropertyOf(given, c.path, f) =
            property(IF flags.map THEN "map" ELSE "ref", SchemaName(given.errors, f.of))
    BY <1>3 DEF PropertyOf
  <2>2. QED
    BY <1>2, <1>3, <2>1
<1>4. CASE f.type = "enum"
  <2>1. PropertyOf(given, c.path, f) = property("enum", given.registry.enums[f.of])
    BY <1>4 DEF PropertyOf
  <2>2. QED
    BY <1>2, <2>1
<1>5. CASE f.type \in DOMAIN Scalars
  <2>1. f.type \in {"string", "bool", "int32", "int64", "uint64", "float", "double"}
    BY <1>5 DEF Scalars
  <2>2. PropertyOf(given, c.path, f) = property(Scalars[f.type], <<>>)
    BY <2>1 DEF PropertyOf
  <2>3. Scalars[f.type] \in {"string", "boolean", "integer", "number"}
    BY <2>1 DEF Scalars
  <2>4. QED
    BY <1>2, <2>2, <2>3
<1>6. QED
  BY <1>1, <1>3, <1>4, <1>5

LEMMA CallKeepsClosed ==
    ASSUME NEW api, NEW proto, NEW registry, GoodSources(api, proto, registry),
           NEW st, CallsOk(api, proto, st), ClosedSoFar(api, st), st.todo # <<>>,
           CallError(EnvOf(api, proto, registry), st, Head(st.todo)) = NoErr,
           NEW to, CallMakes(api, proto, registry, st, to, Head(st.todo))
    PROVE  CallsOk(api, proto, to) /\ ClosedSoFar(api, to)
<1> DEFINE given == EnvOf(api, proto, registry)
           c == Head(st.todo)
           rest == Tail(st.todo)
           new == Calls(given, st, c)
<1>0. given.errors = api.errors
  BY DEF EnvOf
<1>1. IsList(rest) /\ ToSet(st.todo) = {c} \cup ToSet(rest)
  <2>1. IsList(st.todo)
    BY DEF CallsOk
  <2>2. QED
    BY <2>1, TailOfList
<1> HIDE DEF c, rest
<1>2. GoodCall(api, proto, c)
  BY <1>1 DEF CallsOk
<1>3. Follows(api, proto, st.visited, c, new)
  <2>1. DOMAIN st.schemas \subseteq st.visited
    BY DEF CallsOk
  <2>2. QED
    BY <1>2, <2>1, CallsFollow DEF c
<1>4. IsList(to.todo) /\ ToSet(to.todo) = ToSet(new) \cup ToSet(rest)
  <2>1. to.todo = new \o rest /\ IsList(new)
    BY <1>3 DEF CallMakes, Follows, c, rest
  <2> HIDE DEF new
  <2>2. QED
    BY <1>1, <2>1, ConcatLists
<1>5. /\ WalkState(to)
      /\ to.visited = st.visited \cup (IF c.call = "model" THEN {SchemaName(api.errors, c.path)} ELSE {})
      /\ to.made = st.made \cup (IF c.call = "field" THEN {Made(given, c)} ELSE {})
      /\ c.call # "close" => to.schemas = st.schemas
      /\ c.call = "close" =>
            /\ DOMAIN to.schemas = DOMAIN st.schemas \cup {Snake(c.path)}
            /\ \A k \in DOMAIN to.schemas :
                to.schemas[k] = IF k = Snake(c.path)
                                THEN SchemaOf(proto.messages, ModelsFields(proto), st.made, c.path)
                                ELSE st.schemas[k]
  BY DEF CallMakes, c
<1> HIDE DEF new, given
<1>6. c.call = "close" => Snake(c.path) \in st.visited
  BY <1>1 DEF ClosedSoFar
<1>7. CallsOk(api, proto, to)
  <2>1. DOMAIN to.schemas \subseteq to.visited
    BY <1>5, <1>6 DEF CallsOk
  <2>2. \A d \in ToSet(to.todo) : GoodCall(api, proto, d)
    BY <1>1, <1>3, <1>4 DEF CallsOk, Follows
  <2>3. QED
    BY <1>4, <1>5, <2>1, <2>2 DEF CallsOk
<1>8. ASSUME NEW name, InReach(api, st, name) PROVE InReach(api, to, name)
  <2>1. CASE name \in st.visited
    BY <1>5, <2>1 DEF InReach
  <2>2. ASSUME NEW d \in ToSet(st.todo), NEW p \in Wants(d), name = SchemaName(api.errors, p)
        PROVE  InReach(api, to, name)
    <3>1. CASE d \in ToSet(rest)
      BY <1>4, <2>2, <3>1 DEF InReach
    <3>2. CASE d = c /\ c.call = "model"
      <4>1. p = c.path
        BY <2>2, <3>2 DEF Wants
      <4>2. QED
        BY <1>5, <2>2, <3>2, <4>1 DEF InReach
    <3>3. CASE d = c /\ c.call # "model"
      <4>1. PICK e \in ToSet(new) : p \in Wants(e)
        BY <1>3, <2>2, <3>3 DEF Follows
      <4>2. QED
        BY <1>4, <2>2, <4>1 DEF InReach
    <3>4. QED
      BY <1>1, <3>1, <3>2, <3>3
  <2>3. QED
    BY <1>8, <2>1, <2>2 DEF InReach
<1>9. \A s \in to.visited :
        s \in DOMAIN to.schemas \/ \E d \in ToSet(to.todo) : d.call = "close" /\ s = Snake(d.path)
  <2> SUFFICES ASSUME NEW s \in to.visited
               PROVE  s \in DOMAIN to.schemas \/ \E d \in ToSet(to.todo) : d.call = "close" /\ s = Snake(d.path)
    OBVIOUS
  <2>1. DOMAIN st.schemas \subseteq DOMAIN to.schemas
    BY <1>5
  <2>2. CASE s \in st.visited
    <3>1. CASE s \in DOMAIN st.schemas
      BY <2>1, <3>1
    <3>2. ASSUME NEW d \in ToSet(st.todo), d.call = "close", s = Snake(d.path)
          PROVE  s \in DOMAIN to.schemas \/ \E e \in ToSet(to.todo) : e.call = "close" /\ s = Snake(e.path)
      BY <1>1, <1>4, <1>5, <3>2
    <3>3. QED
      BY <2>2, <3>1, <3>2 DEF ClosedSoFar
  <2>3. CASE s \notin st.visited
    <3>1. c.call = "model" /\ s = SchemaName(api.errors, c.path)
      BY <1>5, <2>3
    <3>2. PICK d \in ToSet(new) : d.call = "close"
      BY <1>3, <2>3, <3>1 DEF Follows
    <3>3. s = Snake(d.path)
      BY <1>3, <3>1, <3>2 DEF Follows
    <3>4. QED
      BY <1>4, <3>2, <3>3
  <2>4. QED
    BY <2>2, <2>3
<1>10. \A d \in ToSet(to.todo) : d.call = "close" => Snake(d.path) \in to.visited
  <2> SUFFICES ASSUME NEW d \in ToSet(to.todo), d.call = "close" PROVE Snake(d.path) \in to.visited
    OBVIOUS
  <2>1. CASE d \in ToSet(new)
    BY <1>3, <1>5, <2>1 DEF Follows
  <2>2. CASE d \in ToSet(rest)
    BY <1>1, <1>5, <2>2 DEF ClosedSoFar
  <2>3. QED
    BY <1>4, <2>1, <2>2
<1>11. \A y \in to.made : y.property.type \in {"ref", "map"} => InReach(api, to, y.property.ref)
  <2> SUFFICES ASSUME NEW y \in to.made, y.property.type \in {"ref", "map"}
               PROVE  InReach(api, to, y.property.ref)
    OBVIOUS
  <2>1. CASE y \in st.made
    BY <1>8, <2>1 DEF ClosedSoFar
  <2>2. CASE y \notin st.made
    <3>1. c.call = "field" /\ y = Made(given, c)
      BY <1>5, <2>2
    <3>2. PropertyError(given, c.path, c.field) = NoErr
      BY <3>1 DEF CallError, c, given
    <3>3. c.field.type = "message" /\ y.property.ref = SchemaName(api.errors, c.field.of)
      BY <1>0, <3>1, <3>2, MadeRefers
    <3>4. PICK d \in ToSet(new) : c.field.of \in Wants(d)
      BY <1>3, <3>1, <3>3 DEF Follows
    <3>5. QED
      BY <1>4, <3>3, <3>4 DEF InReach
  <2>3. QED
    BY <2>1, <2>2
<1>12. \A k \in DOMAIN to.schemas : FromMade(to.schemas[k], to.made)
  <2> SUFFICES ASSUME NEW k \in DOMAIN to.schemas PROVE FromMade(to.schemas[k], to.made)
    OBVIOUS
  <2>1. FromMade(to.schemas[k], st.made)
    <3>1. CASE c.call = "close" /\ k = Snake(c.path)
      <4>1. to.schemas[k] = SchemaOf(proto.messages, ModelsFields(proto), st.made, c.path)
        BY <1>5, <3>1
      <4>2. QED
        BY <4>1, SchemaFromMade
    <3>2. CASE ~(c.call = "close" /\ k = Snake(c.path))
      <4>1. to.schemas[k] = st.schemas[k] /\ k \in DOMAIN st.schemas
        BY <1>5, <3>2
      <4>2. QED
        BY <4>1 DEF ClosedSoFar
    <3>3. QED
      BY <3>1, <3>2
  <2>2. st.made \subseteq to.made
    BY <1>5
  <2>3. QED
    BY <2>1, <2>2 DEF FromMade
<1>13. \A op \in ToSet(api.routes) : \A p \in ModelsOf(op) : InReach(api, to, SchemaName(api.errors, p))
  BY <1>8 DEF ClosedSoFar
<1>14. QED
  BY <1>7, <1>9, <1>10, <1>11, <1>12, <1>13 DEF ClosedSoFar

LEMMA WalkKeepsInv ==
    ASSUME NEW api, NEW proto, NEW registry, GoodSources(api, proto, registry),
           NEW st, WalkInv(api, proto, registry, st)
    PROVE  WalkInv(api, proto, registry, Walk(EnvOf(api, proto, registry), st))
<1> DEFINE given == EnvOf(api, proto, registry)
           to == Walk(given, st)
           c == Head(st.todo)
<1>0. WalkState(st) /\ CallsOk(api, proto, st) /\ ClosedSoFar(api, st)
  BY DEF WalkInv, CallsOk
<1>1. \/ to = st
      \/ /\ st.todo # <<>> /\ st.err = NoErr /\ CallError(given, st, c) # NoErr
         /\ to = [st EXCEPT !.err = CallError(given, st, c)]
      \/ /\ st.todo # <<>> /\ st.err = NoErr /\ CallError(given, st, c) = NoErr
         /\ CallMakes(api, proto, registry, st, to, c)
  <2> HIDE DEF to
  <2>1. to = Walk(EnvOf(api, proto, registry), st)
    BY DEF to
  <2>2. QED
    BY <1>0, <2>1, WalkIs
<1> HIDE DEF to, c
<1>2. CASE to = st
  BY <1>2 DEF to
<1>3. CASE /\ st.todo # <<>> /\ st.err = NoErr /\ CallError(given, st, c) # NoErr
           /\ to = [st EXCEPT !.err = CallError(given, st, c)]
  <2> DEFINE e == CallError(given, st, c)
  <2>1. /\ to.schemas = st.schemas /\ to.visited = st.visited /\ to.made = st.made /\ to.todo = st.todo
        /\ to.err = e /\ WalkState(to)
    <3> HIDE DEF e
    <3>1. QED
      BY <1>0, <1>3 DEF WalkState, e
  <2>2. GoodCall(api, proto, c)
    BY <1>0, <1>3, TailOfList DEF CallsOk, c
  <2>3. Explained(api, proto, registry, e)
    BY <2>2, CallErrorExplained
  <2> HIDE DEF e
  <2>4. \A name : InReach(api, st, name) => InReach(api, to, name)
    BY <2>1 DEF InReach
  <2>5. CallsOk(api, proto, to)
    BY <1>0, <2>1 DEF CallsOk
  <2>6. ClosedSoFar(api, to)
    BY <1>0, <2>1, <2>4 DEF ClosedSoFar
  <2>7. QED
    BY <2>1, <2>3, <2>5, <2>6 DEF WalkInv, to
<1>4. CASE /\ st.todo # <<>> /\ st.err = NoErr /\ CallError(given, st, c) = NoErr
           /\ CallMakes(api, proto, registry, st, to, c)
  <2>1. CallsOk(api, proto, to) /\ ClosedSoFar(api, to)
    BY <1>0, <1>4, CallKeepsClosed DEF c
  <2>2. to.err = NoErr
    BY <1>4 DEF CallMakes
  <2>3. QED
    BY <2>1, <2>2 DEF WalkInv, Explained, NoErr, to
<1>5. QED
  BY <1>1, <1>2, <1>3, <1>4

(* The union of finite sets, one for each member of a finite set. *)
LEMMA FiniteUnion ==
    ASSUME NEW S, IsFiniteSet(S), NEW f, f = [x \in S |-> f[x]], \A x \in S : IsFiniteSet(f[x])
    PROVE  IsFiniteSet(UNION {f[x] : x \in S})
<1> DEFINE T == {f[x] : x \in S}
<1>1. f \in Surjection(S, T)
  BY DEF Surjection
<1>2. \A U \in T : IsFiniteSet(U)
  OBVIOUS
<1> HIDE DEF T
<1>3. IsFiniteSet(T)
  BY <1>1, FS_Surjection
<1>4. IsFiniteSet(UNION T)
  BY <1>2, <1>3, FS_UNION
<1>5. QED
  BY <1>4 DEF T

LEMMA FiniteList ==
    ASSUME NEW s, IsList(s), NEW x
    PROVE  IsFiniteSet({x} \X DOMAIN s)
<1>1. Len(s) \in Nat /\ DOMAIN s = 1 .. Len(s)
  BY ListDef
<1>2. IsFiniteSet(1 .. Len(s))
  BY <1>1, FS_Interval
<1>3. QED
  BY <1>1, <1>2, FS_Singleton, FS_Product

LEMMA CallsAreFinite ==
    ASSUME NEW api, NEW proto, NEW registry, GoodSources(api, proto, registry)
    PROVE  MaxCallsOf(proto.messages, api.routes) \in Nat
<1> DEFINE messages == proto.messages
           routes == api.routes
           responses == UNION {{i} \X DOMAIN routes[i].responseModels : i \in DOMAIN routes}
           elements == UNION {{m} \X DOMAIN m.elements : m \in messages}
           fields == UNION {{e} \X DOMAIN FieldsIn(e[1].elements[e[2]]) : e \in elements}
<1>1. Len(routes) \in Nat /\ IsFiniteSet(DOMAIN routes)
  <2>1. Len(routes) \in Nat /\ DOMAIN routes = 1 .. Len(routes)
    BY ListDef DEF GoodSources
  <2>2. IsFiniteSet(1 .. Len(routes))
    <3> HIDE DEF routes
    <3>1. Len(routes) \in Int
      BY <2>1
    <3>2. QED
      BY <3>1, FS_Interval
  <2>3. QED
    BY <2>1, <2>2
<1>2. IsFiniteSet(responses)
  <2> DEFINE f == [i \in DOMAIN routes |-> {i} \X DOMAIN routes[i].responseModels]
  <2>1. \A i \in DOMAIN routes : IsFiniteSet({i} \X DOMAIN routes[i].responseModels)
    BY FiniteList DEF GoodSources
  <2>2. f = [i \in DOMAIN routes |-> f[i]] /\ \A i \in DOMAIN routes : IsFiniteSet(f[i])
    BY <2>1
  <2>3. {f[i] : i \in DOMAIN routes} = {{i} \X DOMAIN routes[i].responseModels : i \in DOMAIN routes}
    OBVIOUS
  <2> HIDE DEF f
  <2>4. IsFiniteSet(UNION {f[i] : i \in DOMAIN routes})
    BY <1>1, <2>2, FiniteUnion
  <2>5. QED
    BY <2>3, <2>4
<1>3. IsFiniteSet(elements)
  <2> DEFINE f == [m \in messages |-> {m} \X DOMAIN m.elements]
  <2>1. \A m \in messages : IsFiniteSet({m} \X DOMAIN m.elements)
    BY FiniteList DEF GoodSources
  <2>2. f = [m \in messages |-> f[m]] /\ \A m \in messages : IsFiniteSet(f[m])
    BY <2>1
  <2>3. {f[m] : m \in messages} = {{m} \X DOMAIN m.elements : m \in messages}
    OBVIOUS
  <2>4. IsFiniteSet(messages)
    BY DEF GoodSources
  <2> HIDE DEF f, messages
  <2>5. IsFiniteSet(UNION {f[m] : m \in messages})
    BY <2>2, <2>4, FiniteUnion
  <2>6. QED
    BY <2>3, <2>5
<1>4. IsFiniteSet(fields)
  <2> DEFINE f == [e \in elements |-> {e} \X DOMAIN FieldsIn(e[1].elements[e[2]])]
  <2>1. ASSUME NEW e \in elements PROVE IsFiniteSet({e} \X DOMAIN FieldsIn(e[1].elements[e[2]]))
    <3>1. PICK m \in messages : e \in {m} \X DOMAIN m.elements
      BY <2>1
    <3>2. e[1] = m /\ e[2] \in DOMAIN m.elements
      BY <3>1
    <3>3. m.elements[e[2]] \in Elements(proto)
      BY <3>1, <3>2 DEF Elements, ToSet
    <3>4. IsList(FieldsIn(e[1].elements[e[2]]))
      BY <3>2, <3>3, FieldsOfElement
    <3>5. QED
      BY <3>4, FiniteList
  <2> HIDE DEF elements
  <2>2. f = [e \in elements |-> f[e]] /\ \A e \in elements : IsFiniteSet(f[e])
    BY <2>1
  <2>3. {f[e] : e \in elements} = {{e} \X DOMAIN FieldsIn(e[1].elements[e[2]]) : e \in elements}
    OBVIOUS
  <2> HIDE DEF f
  <2>4. IsFiniteSet(UNION {f[e] : e \in elements})
    BY <1>3, <2>2, FiniteUnion
  <2>5. QED
    BY <2>3, <2>4
<1>5. IsFiniteSet(messages)
  BY DEF GoodSources
<1>6. /\ Cardinality(responses) \in Nat /\ Cardinality(elements) \in Nat /\ Cardinality(fields) \in Nat
      /\ Cardinality(messages) \in Nat
  <2> HIDE DEF responses, elements, fields, messages
  <2>1. QED
    BY <1>2, <1>3, <1>4, <1>5, FS_CardinalityType
<1>7. MaxCallsOf(messages, routes) = 3 * Len(routes) + 3 * Cardinality(responses)
        + Cardinality(messages) + 2 * Cardinality(elements) + 2 * Cardinality(fields)
  BY Zenon DEF MaxCallsOf
<1>8. QED
  <2> HIDE DEF responses, elements, fields
  <2>1. QED
    BY <1>1, <1>6, <1>7

(* The states of a walk. *)
Walks(f, n, given, routes) == f = [i \in 0 .. n |-> IF i = 0 THEN WalkStart(routes) ELSE Walk(given, f[i - 1])]

LEMMA WalksExists ==
    ASSUME NEW given, NEW routes, NEW n \in Nat
    PROVE  \E f : Walks(f, n, given, routes)
<1> DEFINE start == WalkStart(routes)
           S == {k \in 0 .. n : \E f : Walks(f, k, given, routes)}
<1> HIDE DEF start
<1>1. 0 \in S
  <2>1. Walks([i \in 0 .. 0 |-> start], 0, given, routes)
    BY DEF Walks, start
  <2>2. QED
    BY <2>1
<1>2. ASSUME NEW k \in 0 .. n - 1, k \in S PROVE k + 1 \in S
  <2>1. PICK f : Walks(f, k, given, routes)
    BY <1>2
  <2> DEFINE g == [i \in 0 .. k + 1 |-> IF i = k + 1 THEN Walk(given, f[k]) ELSE f[i]]
  <2>2. ASSUME NEW i \in 0 .. k + 1
        PROVE  g[i] = IF i = 0 THEN start ELSE Walk(given, g[i - 1])
    <3>1. i \in 0 .. k => f[i] = IF i = 0 THEN start ELSE Walk(given, f[i - 1])
      BY <2>1, Zenon DEF Walks, start
    <3>2. CASE i = k + 1
      <4>1. i # 0 /\ i - 1 = k /\ k \in 0 .. k + 1 /\ k # k + 1
        BY <3>2
      <4>2. g[i - 1] = f[k]
        BY <4>1
      <4>3. QED
        BY <3>2, <4>1, <4>2
    <3>3. CASE i # k + 1
      <4>1. i \in 0 .. k /\ (i # 0 => i - 1 \in 0 .. k + 1 /\ i - 1 # k + 1)
        BY <3>3
      <4>2. QED
        BY <3>1, <3>3, <4>1
    <3>4. QED
      BY <3>2, <3>3
  <2>3. g = [i \in 0 .. k + 1 |-> IF i = 0 THEN start ELSE Walk(given, g[i - 1])]
    BY <2>2
  <2>4. Walks(g, k + 1, given, routes)
    <3> HIDE DEF g
    <3>1. QED
      BY <2>3 DEF Walks, start
  <2>5. k + 1 \in 0 .. n
    OBVIOUS
  <2>6. QED
    BY <2>4, <2>5
<1>3. 0 .. n \subseteq S
  <2> HIDE DEF S
  <2>1. QED
    BY <1>1, <1>2, UpTo
<1>4. n \in S
  BY <1>3
<1>5. QED
  BY <1>4

(* A walk of n calls, and what is made of its end. *)
WalksTo(f, n, given, routes, end) ==
    /\ f[0] = WalkStart(routes) /\ \A i \in 0 .. n - 1 : f[i + 1] = Walk(given, f[i])
    /\ end = IF f[n].err = NoErr /\ f[n].todo # <<>> THEN [f[n] EXCEPT !.err = "panic"] ELSE f[n]

LEMMA WalkedIs ==
    ASSUME NEW given, NEW routes, MaxCallsOf(given.descriptors, routes) \in Nat
    PROVE  \E f : WalksTo(f, MaxCallsOf(given.descriptors, routes), given, routes, Walked(given, routes))
<1> DEFINE n == MaxCallsOf(given.descriptors, routes)
           g == CHOOSE f : Walks(f, n, given, routes)
<1>1. Walks(g, n, given, routes)
  <2>1. \E f : Walks(f, n, given, routes)
    BY WalksExists
  <2>2. QED
    BY <2>1
<1>2. Walked(given, routes) =
        IF g[n].err = NoErr /\ g[n].todo # <<>> THEN [g[n] EXCEPT !.err = "panic"] ELSE g[n]
  BY DEF Walked, Walks
<1>n. n \in Nat
  OBVIOUS
<1> HIDE DEF g, n
<1>3. \A i \in 0 .. n : g[i] = IF i = 0 THEN WalkStart(routes) ELSE Walk(given, g[i - 1])
  BY <1>1, Zenon DEF Walks
<1>4. g[0] = WalkStart(routes)
  BY <1>n, <1>3
<1>5. ASSUME NEW i \in 0 .. n - 1 PROVE g[i + 1] = Walk(given, g[i])
  <2>1. i + 1 \in 0 .. n /\ i + 1 # 0 /\ (i + 1) - 1 = i
    BY <1>n
  <2>2. QED
    BY <1>3, <2>1
<1>6. QED
  <2>1. WalksTo(g, n, given, routes, Walked(given, routes))
    BY <1>2, <1>4, <1>5 DEF WalksTo
  <2>2. QED
    BY <2>1 DEF n

LEMMA WalkStarts ==
    ASSUME NEW api, NEW proto, NEW registry, GoodSources(api, proto, registry)
    PROVE  WalkInv(api, proto, registry, WalkStart(api.routes))
<1> DEFINE routes == api.routes
           first == [i \in DOMAIN routes |-> OperationCall(routes[i])]
           st == WalkStart(routes)
<1>1. IsList(first) /\ ToSet(first) = {first[i] : i \in DOMAIN routes}
  <2>1. IsList(routes)
    BY DEF GoodSources
  <2>2. DOMAIN first = DOMAIN routes /\ first = [i \in DOMAIN routes |-> first[i]]
    OBVIOUS
  <2> HIDE DEF first, routes
  <2>3. QED
    BY <2>1, <2>2, ListLike
<1>2. ToSet(first) = {OperationCall(op) : op \in ToSet(routes)}
  BY <1>1 DEF ToSet
<1>3. /\ st.schemas = <<>> /\ st.visited = {} /\ st.made = {} /\ st.todo = first /\ st.err = NoErr
      /\ WalkState(st)
  <2>1. st = [schemas |-> <<>>, visited |-> {}, made |-> {}, todo |-> first, err |-> NoErr]
    BY DEF WalkStart
  <2> HIDE DEF first, st
  <2>2. QED
    BY <2>1 DEF WalkState
<1>4. DOMAIN st.schemas = {}
  BY <1>3
<1> HIDE DEF first, st
<1>5. CallsOk(api, proto, st)
  BY <1>1, <1>2, <1>3, <1>4 DEF CallsOk, GoodCall
<1>6. ASSUME NEW op \in ToSet(routes), NEW p \in ModelsOf(op)
      PROVE  InReach(api, st, SchemaName(api.errors, p))
  <2>1. OperationCall(op) \in ToSet(st.todo) /\ p \in Wants(OperationCall(op))
    BY <1>2, <1>3, <1>6 DEF Wants, OperationCall
  <2>2. QED
    BY <2>1 DEF InReach
<1>7. \A c \in ToSet(st.todo) : c.call # "close"
  BY <1>2, <1>3 DEF OperationCall
<1>8. ClosedSoFar(api, st)
  BY <1>3, <1>4, <1>6, <1>7 DEF ClosedSoFar
<1>9. QED
  BY <1>3, <1>5, <1>8 DEF WalkInv, Explained, NoErr, st

LEMMA WalkedOk ==
    ASSUME NEW api, NEW proto, NEW registry, GoodSources(api, proto, registry),
           NEW end, end = Walked(EnvOf(api, proto, registry), api.routes)
    PROVE  /\ Explained(api, proto, registry, end.err)
           /\ end.err = NoErr => end.todo = <<>> /\ WalkInv(api, proto, registry, end)
<1> DEFINE given == EnvOf(api, proto, registry)
           n == MaxCallsOf(given.descriptors, api.routes)
           Good(st) == WalkInv(api, proto, registry, st)
<1>1. n \in Nat
  BY CallsAreFinite DEF EnvOf
<1>a. PICK f : WalksTo(f, n, given, api.routes, end)
  BY <1>1, WalkedIs
<1>2. /\ f[0] = WalkStart(api.routes) /\ \A i \in 0 .. n - 1 : f[i + 1] = Walk(given, f[i])
      /\ end = IF f[n].err = NoErr /\ f[n].todo # <<>> THEN [f[n] EXCEPT !.err = "panic"] ELSE f[n]
  BY <1>a, Zenon DEF WalksTo
<1> DEFINE S == {i \in 0 .. n : Good(f[i])}
<1> HIDE DEF n
<1>3. 0 \in S
  BY <1>1, <1>2, WalkStarts
<1>4. ASSUME NEW i \in 0 .. n - 1, i \in S PROVE i + 1 \in S
  <2>1. Good(Walk(given, f[i]))
    BY <1>4, WalkKeepsInv
  <2>2. i + 1 \in 0 .. n /\ f[i + 1] = Walk(given, f[i])
    BY <1>1, <1>2
  <2>3. QED
    BY <2>1, <2>2
<1>5. Good(f[n])
  <2>1. 0 .. n \subseteq S
    <3> HIDE DEF S
    <3>1. QED
      BY <1>1, <1>3, <1>4, UpTo
  <2>2. n \in 0 .. n
    BY <1>1
  <2>3. QED
    BY <2>1, <2>2
<1>6. CASE f[n].err = NoErr /\ f[n].todo # <<>>
  <2> DEFINE last == f[n]
  <2>1. end = [last EXCEPT !.err = "panic"] /\ WalkState(last)
    BY <1>2, <1>5, <1>6 DEF WalkInv, CallsOk
  <2> HIDE DEF last
  <2>2. end.err = "panic"
    BY <2>1 DEF WalkState
  <2>3. QED
    BY <2>2 DEF Explained, NoErr
<1>7. CASE ~(f[n].err = NoErr /\ f[n].todo # <<>>)
  <2>1. end = f[n]
    BY <1>2, <1>7
  <2>2. QED
    BY <1>5, <1>7, <2>1 DEF WalkInv
<1>8. QED
  BY <1>6, <1>7

LEMMA SourcesAreGood ==
    ASSUME NEW p \in Projects, NEW registry, registry.models \subseteq PathsOf(p.proto)
    PROVE  GoodSources(p.api, p.proto, registry)
BY ProjectsAssumption DEF GoodSources

(* What generateApi makes of the end of the walk. *)
LEMMA ApiIs ==
    ASSUME NEW api, NEW proto, NEW registry, NEW end, end = Walked(EnvOf(api, proto, registry), api.routes)
    PROVE  \/ SchemeError(api) # NoErr
              /\ generateApi(api, proto, registry) = [err |-> SchemeError(api), doc |-> <<>>]
           \/ SchemeError(api) = NoErr /\ end.err # NoErr
              /\ generateApi(api, proto, registry) = [err |-> end.err, doc |-> <<>>]
           \/ SchemeError(api) = NoErr /\ end.err = NoErr
              /\ generateApi(api, proto, registry) =
                    [err |-> NoErr, doc |-> [schemas |-> end.schemas, paths |-> Paths(api.errors, api.routes)]]
<1>1. generateApi(api, proto, registry) =
        IF SchemeError(api) # NoErr THEN [err |-> SchemeError(api), doc |-> <<>>]
        ELSE IF end.err # NoErr THEN [err |-> end.err, doc |-> <<>>]
        ELSE [err |-> NoErr, doc |-> [schemas |-> end.schemas, paths |-> Paths(api.errors, api.routes)]]
  BY Zenon DEF generateApi, EnvOf
<1>2. QED
  BY <1>1

(* No reference of a document leads out of it. *)
RefsOf(s) == {x[2].ref : x \in {y \in PropertiesOf(s) : y[2].type \in {"ref", "map"}}}
Closed(doc) ==
    /\ \A k \in DOMAIN doc.schemas : RefsOf(doc.schemas[k]) \subseteq DOMAIN doc.schemas
    /\ \A p \in doc.paths :
        /\ p.requestModel # NoModel /\ p.body # <<"multipart">> => p.body \in DOMAIN doc.schemas
        /\ \A r \in p.responses : r.schema \in DOMAIN doc.schemas

LEMMA PathIs ==
    ASSUME NEW errors, NEW routes, NEW p \in Paths(errors, routes)
    PROVE  \E op \in ToSet(routes) :
            /\ ~op.hidden /\ p.requestModel = op.requestModel
            /\ p.body = RequestBody(errors, op) /\ p.responses = Responses(errors, op)
<1> DEFINE made(op) == [url |-> op.url, op |-> op.op, id |-> op.id, what |-> Documented(op),
                        body |-> RequestBody(errors, op), requestModel |-> op.requestModel,
                        responses |-> Responses(errors, op)]
<1>1. PICK op \in {o \in ToSet(routes) : ~o.hidden} : p = made(op)
  BY Zenon DEF Paths
<1>2. made(op).requestModel = op.requestModel /\ made(op).body = RequestBody(errors, op)
      /\ made(op).responses = Responses(errors, op)
  OBVIOUS
<1> HIDE DEF made
<1>3. QED
  BY <1>1, <1>2

LEMMA DocumentClosed ==
    ASSUME NEW api, NEW proto, NEW registry, GoodSources(api, proto, registry),
           generateApi(api, proto, registry).err = NoErr
    PROVE  Closed(generateApi(api, proto, registry).doc)
<1> DEFINE end == Walked(EnvOf(api, proto, registry), api.routes)
           doc == generateApi(api, proto, registry).doc
<1>1. /\ end.err = NoErr
      /\ generateApi(api, proto, registry) =
            [err |-> NoErr, doc |-> [schemas |-> end.schemas, paths |-> Paths(api.errors, api.routes)]]
  <2> HIDE DEF end
  <2>1. end = Walked(EnvOf(api, proto, registry), api.routes)
    BY DEF end
  <2>2. QED
    BY <2>1, ApiIs
<1>2. end.todo = <<>> /\ WalkInv(api, proto, registry, end)
  <2> HIDE DEF end
  <2>1. end = Walked(EnvOf(api, proto, registry), api.routes)
    BY DEF end
  <2>2. QED
    BY <1>1, <2>1, WalkedOk
<1> HIDE DEF end
<1>3. doc.schemas = end.schemas /\ doc.paths = Paths(api.errors, api.routes)
  BY <1>1
<1> HIDE DEF doc
<1>4. ToSet(end.todo) = {} /\ ClosedSoFar(api, end)
  BY <1>2, NoList DEF WalkInv
<1>5. \A name : InReach(api, end, name) => name \in DOMAIN end.schemas
  BY <1>4 DEF InReach, ClosedSoFar
<1>6. ASSUME NEW k \in DOMAIN doc.schemas, NEW ref \in RefsOf(doc.schemas[k]) PROVE ref \in DOMAIN doc.schemas
  <2>1. PICK x \in PropertiesOf(end.schemas[k]) : x[2].type \in {"ref", "map"} /\ ref = x[2].ref
    BY <1>3, <1>6 DEF RefsOf
  <2>2. PICK y \in end.made : x = <<y.name, y.property>>
    BY <1>3, <1>4, <2>1 DEF ClosedSoFar, FromMade
  <2>3. y.property = x[2]
    BY <2>2
  <2>4. QED
    BY <1>3, <1>4, <1>5, <2>1, <2>3 DEF ClosedSoFar
<1>7. ASSUME NEW p \in doc.paths
      PROVE  /\ p.requestModel # NoModel /\ p.body # <<"multipart">> => p.body \in DOMAIN doc.schemas
             /\ \A r \in p.responses : r.schema \in DOMAIN doc.schemas
  <2>1. PICK op \in ToSet(api.routes) :
            /\ ~op.hidden /\ p.requestModel = op.requestModel
            /\ p.body = RequestBody(api.errors, op) /\ p.responses = Responses(api.errors, op)
    BY <1>3, <1>7, PathIs
  <2>2. \A m \in ModelsOf(op) : SchemaName(api.errors, m) \in DOMAIN doc.schemas
    BY <1>3, <1>4, <1>5 DEF ClosedSoFar
  <2>3. ASSUME p.requestModel # NoModel, p.body # <<"multipart">> PROVE p.body \in DOMAIN doc.schemas
    <3>1. op.files = {} /\ p.body = SchemaName(api.errors, op.requestModel)
      BY <2>1, <2>3, Zenon DEF RequestBody
    <3>2. op.requestModel \in ModelsOf(op)
      BY <2>1, <2>3, <3>1 DEF ModelsOf
    <3>3. QED
      BY <2>2, <3>1, <3>2
  <2>4. ASSUME NEW r \in p.responses PROVE r.schema \in DOMAIN doc.schemas
    <3>1. PICK i \in DOMAIN op.responseModels : r.schema = SchemaName(api.errors, op.responseModels[i])
      BY <2>1, <2>4 DEF Responses
    <3>2. op.responseModels[i] \in ModelsOf(op)
      BY <2>1 DEF ModelsOf, ToSet
    <3>3. QED
      BY <2>2, <3>1, <3>2
  <2>5. QED
    BY <2>3, <2>4
<1>8. QED
  BY <1>6, <1>7 DEF Closed, doc

(* gen/api.go, addSchema and fieldToObjectProperty: every reference of the     *)
(* swagger document on disk, of a model inside itself, under an error code, in *)
(* a union or a map, leads to a schema that is in the document, whatever the   *)
(* sources and the registry compiled in.                                       *)
THEOREM DocumentIsClosed == GenSpec => []SpecIsClosed
<1>1. SwaggerOk => SpecIsClosed
  <2> DEFINE doc == tree[Single("swagger")].what
  <2>1. SUFFICES ASSUME SwaggerOk, tree[Single("swagger")].state = "whole" PROVE Closed(doc)
    BY DEF SpecIsClosed, Closed, RefsOf, PropertiesOf
  <2>2. PICK p \in Projects : \E r : MadeOf(doc, p, r)
    BY <2>1 DEF SwaggerOk
  <2>3. PICK r : MadeOf(doc, p, r)
    BY <2>2
  <2>4. GoodSources(p.api, p.proto, r) /\ generateApi(p.api, p.proto, r).err = NoErr
        /\ doc = generateApi(p.api, p.proto, r).doc
    BY <2>3, SourcesAreGood DEF MadeOf
  <2> HIDE DEF doc
  <2>5. QED
    BY <2>4, DocumentClosed
<1>2. GenIInv => SpecIsClosed
  BY <1>1 DEF GenIInv
<1>3. QED
  BY <1>2, GenAlways, PTL

(* gen/errors.go: errNoSchemaFound says "try to run gen again", and the same   *)
(* goes for an enum.  Whenever the generator says so, the registry it has left *)
(* on disk is that of the proto file, and a run compiled with such a registry  *)
(* says so only for what the sources name and the proto file does not declare. *)
THEOREM RunningAgainHelps == GenSpec => []RunAgainHelps
<1>1. ASSUME GenShape, SinglesOk PROVE RunAgainHelps
  <2> DEFINE api == src.api
             proto == src.proto
             made == generateApi(api, proto, bin)
             end == Walked(EnvOf(api, proto, bin), api.routes)
  <2>1. ASSUME result \in AgainErrors, pc = "idle" PROVE tree[Single("gen.go")] = Whole(generateApiGen(proto))
    BY <1>1, <2>1 DEF SinglesOk, GenGoCurrent
  <2>2. ASSUME bin = generateApiGen(proto) PROVE Explained(api, proto, bin, made.err)
    <3>1. bin.models = PathsOf(proto) /\ bin.enums = proto.enums
      BY <2>2 DEF generateApiGen, PathsOf
    <3>2. GoodSources(api, proto, bin)
      BY <1>1, <3>1, SourcesAreGood DEF GenShape
    <3>3. Explained(api, proto, bin, end.err)
      <4> HIDE DEF end
      <4>1. end = Walked(EnvOf(api, proto, bin), api.routes)
        BY DEF end
      <4>2. QED
        BY <3>2, <4>1, WalkedOk
    <3>4. made.err \in {NoErr, "errUnknownSecurityType", end.err}
      <4>1. SchemeError(api) \in {NoErr, "errUnknownSecurityType"}
        BY DEF SchemeError
      <4> HIDE DEF end, made
      <4>2. \/ made = [err |-> SchemeError(api), doc |-> <<>>]
            \/ made = [err |-> end.err, doc |-> <<>>]
            \/ made = [err |-> NoErr, doc |-> [schemas |-> end.schemas, paths |-> Paths(api.errors, api.routes)]]
        BY ApiIs DEF end, made
      <4>3. made.err \in {SchemeError(api), end.err, NoErr}
        BY <4>2
      <4>4. QED
        BY <4>1, <4>3
    <3> HIDE DEF end, made
    <3>5. QED
      BY <3>3, <3>4 DEF Explained, NoErr
  <2>3. bin = generateApiGen(proto) => bin.models = PathsOf(proto) /\ bin.enums = proto.enums
    BY DEF generateApiGen, PathsOf
  <2> HIDE DEF made
  <2>4. ASSUME bin = generateApiGen(proto)
        PROVE  /\ made.err = "errNoSchemaFound" =>
                    \E r \in NamedModels(api, proto) :
                        Standing(api.errors, r) \notin {m.path : m \in proto.messages}
               /\ made.err = "errUnknownEnum" =>
                    \E f \in FieldsOfProto(proto) : f.type = "enum" /\ f.of \notin DOMAIN proto.enums
    BY <2>2, <2>3, <2>4 DEF Explained, PathsOf
  <2>5. QED
    BY <2>1, <2>4, Zenon DEF RunAgainHelps, made, AgainErrors
<1>2. GenIInv => RunAgainHelps
  BY <1>1 DEF GenIInv
<1>3. QED
  BY <1>2, GenAlways, PTL

(* What one registry knows of the proto file, another knows too. *)
KnowsMore(proto, r1, r2) ==
    /\ r1.models \subseteq r2.models
    /\ \A f \in FieldsOfProto(proto) :
        f.type = "enum" /\ f.of \in DOMAIN r1.enums =>
            f.of \in DOMAIN r2.enums /\ r1.enums[f.of] = r2.enums[f.of]

LEMMA SameProperty ==
    ASSUME NEW api, NEW proto, NEW r1, NEW r2, KnowsMore(proto, r1, r2),
           NEW p, NEW f \in FieldsOfProto(proto), PropertyError(EnvOf(api, proto, r1), p, f) = NoErr
    PROVE  /\ PropertyError(EnvOf(api, proto, r2), p, f) = NoErr
           /\ PropertyOf(EnvOf(api, proto, r2), p, f) = PropertyOf(EnvOf(api, proto, r1), p, f)
<1> DEFINE e1 == EnvOf(api, proto, r1)
           e2 == EnvOf(api, proto, r2)
<1>1. /\ e1.fields = ModelsFields(proto) /\ e2.fields = ModelsFields(proto)
      /\ e1.errors = api.errors /\ e2.errors = api.errors /\ e1.registry = r1 /\ e2.registry = r2
  BY DEF EnvOf
<1> HIDE DEF e1, e2
<1>2. /\ p \in DOMAIN e1.fields /\ f.name \in DOMAIN e1.fields[p]
      /\ ~(f.type # "message" /\ e1.fields[p][f.name].map)
      /\ ~(f.type = "enum" /\ f.of \notin DOMAIN r1.enums)
      /\ f.type \in {"message", "enum"} \cup DOMAIN Scalars
  BY <1>1 DEF PropertyError, NoErr, e1
<1>3. f.type = "enum" => f.of \in DOMAIN r2.enums /\ r1.enums[f.of] = r2.enums[f.of]
  BY <1>2 DEF KnowsMore
<1>4. PropertyError(e2, p, f) = NoErr
  BY <1>1, <1>2, <1>3 DEF PropertyError
<1> DEFINE flags == ModelsFields(proto)[p][f.name]
           property(type, ref) == [type |-> type, ref |-> ref, array |-> flags.repeated]
<1>5. CASE f.type = "message"
  <2>1. /\ PropertyOf(e1, p, f) = property(IF flags.map THEN "map" ELSE "ref", SchemaName(api.errors, f.of))
        /\ PropertyOf(e2, p, f) = property(IF flags.map THEN "map" ELSE "ref", SchemaName(api.errors, f.of))
    BY <1>1, <1>5 DEF PropertyOf
  <2>2. QED
    BY <1>4, <2>1 DEF e1, e2
<1>6. CASE f.type = "enum"
  <2>1. /\ PropertyOf(e1, p, f) = property("enum", r1.enums[f.of])
        /\ PropertyOf(e2, p, f) = property("enum", r2.enums[f.of])
    BY <1>1, <1>6 DEF PropertyOf
  <2>2. QED
    BY <1>3, <1>4, <1>6, <2>1 DEF e1, e2
<1>7. CASE f.type \notin {"message", "enum"}
  <2>1. /\ PropertyOf(e1, p, f) = property(Scalars[f.type], <<>>)
        /\ PropertyOf(e2, p, f) = property(Scalars[f.type], <<>>)
    BY <1>1, <1>7 DEF PropertyOf
  <2>2. QED
    BY <1>4, <2>1 DEF e1, e2
<1>8. QED
  BY <1>5, <1>6, <1>7

LEMMA SameCall ==
    ASSUME NEW api, NEW proto, NEW r1, NEW r2, KnowsMore(proto, r1, r2),
           NEW st, NEW c, GoodCall(api, proto, c), CallError(EnvOf(api, proto, r1), st, c) = NoErr
    PROVE  /\ CallError(EnvOf(api, proto, r2), st, c) = NoErr
           /\ Calls(EnvOf(api, proto, r2), st, c) = Calls(EnvOf(api, proto, r1), st, c)
           /\ c.call = "field" => Made(EnvOf(api, proto, r2), c) = Made(EnvOf(api, proto, r1), c)
<1> DEFINE e1 == EnvOf(api, proto, r1)
           e2 == EnvOf(api, proto, r2)
<1>1. /\ e1.errors = api.errors /\ e2.errors = api.errors /\ e1.registry = r1 /\ e2.registry = r2
      /\ e1.descriptors = proto.messages /\ e2.descriptors = proto.messages
  BY DEF EnvOf
<1> HIDE DEF e1, e2
<1>2. \A p : addSchema(e2, st, p) = addSchema(e1, st, p)
  BY <1>1 DEF addSchema
<1>3. ASSUME NEW p, addSchemaError(e1, st, p) = NoErr PROVE addSchemaError(e2, st, p) = NoErr
  BY <1>1, <1>3 DEF addSchemaError, KnowsMore, NoErr
<1>4. Calls(e2, st, c) = Calls(e1, st, c)
  BY <1>1, <1>2, Zenon DEF Calls
<1>5. CASE c.call = "field"
  <2>1. c.field \in FieldsOfProto(proto)
    BY <1>5 DEF GoodCall, OperationCall, ResponseCall, CheckCall, ModelCall, ElementCall, FieldCall, CloseCall
  <2>2. PropertyError(e1, c.path, c.field) = NoErr
    BY <1>5 DEF CallError, e1
  <2>3. /\ PropertyError(e2, c.path, c.field) = NoErr
        /\ PropertyOf(e2, c.path, c.field) = PropertyOf(e1, c.path, c.field)
    BY <2>1, <2>2, SameProperty DEF e1, e2
  <2>4. CallError(e2, st, c) = NoErr
    BY <1>5, <2>3 DEF CallError
  <2>5. Made(e2, c) = Made(e1, c)
    BY <2>3 DEF Made
  <2>6. QED
    BY <1>4, <2>4, <2>5 DEF e1, e2
<1>6. CASE c.call = "model"
  <2>1. CallError(e2, st, c) = NoErr
    BY <1>3, <1>6 DEF CallError, e1
  <2>2. QED
    BY <1>4, <1>6, <2>1 DEF e1, e2
<1>7. CASE c.call \notin {"field", "model"}
  <2>1. CallError(e2, st, c) = CallError(e1, st, c)
    BY <1>7 DEF CallError
  <2>2. QED
    BY <1>4, <1>7, <2>1 DEF e1, e2
<1>8. QED
  BY <1>5, <1>6, <1>7

LEMMA SameStep ==
    ASSUME NEW api, NEW proto, NEW r1, NEW r2, KnowsMore(proto, r1, r2),
           NEW st, CallsOk(api, proto, st), Walk(EnvOf(api, proto, r1), st).err = NoErr
    PROVE  st.err = NoErr /\ Walk(EnvOf(api, proto, r2), st) = Walk(EnvOf(api, proto, r1), st)
<1> DEFINE e1 == EnvOf(api, proto, r1)
           e2 == EnvOf(api, proto, r2)
           c == Head(st.todo)
<1>1. /\ e1.errors = api.errors /\ e2.errors = api.errors
      /\ e1.descriptors = proto.messages /\ e2.descriptors = proto.messages
      /\ e1.fields = ModelsFields(proto) /\ e2.fields = ModelsFields(proto)
  BY DEF EnvOf
<1> HIDE DEF e1, e2
<1>2. CASE st.todo = <<>> \/ st.err # NoErr
  <2>1. Walk(e1, st) = st /\ Walk(e2, st) = st
    BY <1>2, Zenon DEF Walk
  <2>2. QED
    BY <2>1 DEF e1, e2
<1>3. CASE st.todo # <<>> /\ st.err = NoErr
  <2> DEFINE made(given) ==
        [schemas |->
            IF c.call = "close"
            THEN [k \in DOMAIN st.schemas \cup {Snake(c.path)} |->
                    IF k = Snake(c.path) THEN SchemaOf(given.descriptors, given.fields, st.made, c.path)
                    ELSE st.schemas[k]]
            ELSE st.schemas,
         visited |-> st.visited \cup (IF c.call = "model" THEN {SchemaName(given.errors, c.path)} ELSE {}),
         made |-> st.made \cup (IF c.call = "field" THEN {Made(given, c)} ELSE {}),
         todo |-> Calls(given, st, c) \o Tail(st.todo),
         err |-> NoErr]
  <2>1. \A given :
            Walk(given, st) = IF CallError(given, st, c) # NoErr THEN [st EXCEPT !.err = CallError(given, st, c)]
                              ELSE made(given)
    BY <1>3, Zenon DEF Walk
  <2>2. CallError(e1, st, c) = NoErr
    <3> DEFINE e == CallError(e1, st, c)
    <3>1. WalkState(st)
      BY DEF CallsOk
    <3>2. e # NoErr => Walk(e1, st) = [st EXCEPT !.err = e]
      BY <2>1, Zenon
    <3> HIDE DEF e
    <3>3. [st EXCEPT !.err = e].err = e
      BY <3>1 DEF WalkState
    <3>4. QED
      BY <3>2, <3>3 DEF e, e1
  <2>3. GoodCall(api, proto, c)
    BY <1>3, TailOfList DEF CallsOk
  <2>4. /\ CallError(e2, st, c) = NoErr /\ Calls(e2, st, c) = Calls(e1, st, c)
        /\ c.call = "field" => Made(e2, c) = Made(e1, c)
    <3> HIDE DEF c
    <3>1. QED
      BY <2>2, <2>3, SameCall DEF e1, e2
  <2>5. (IF c.call = "field" THEN {Made(e2, c)} ELSE {}) = (IF c.call = "field" THEN {Made(e1, c)} ELSE {})
    <3> HIDE DEF c
    <3>1. QED
      BY <2>4
  <2>6. made(e2) = made(e1)
    <3> HIDE DEF c
    <3>1. QED
      BY <1>1, <2>4, <2>5, Zenon
  <2> HIDE DEF made
  <2>7. Walk(e2, st) = Walk(e1, st)
    BY <2>1, <2>2, <2>4, <2>6
  <2>8. QED
    BY <1>3, <2>7 DEF e1, e2
<1>4. QED
  BY <1>2, <1>3

(* A document that one registry is enough for is the same with the other. *)
LEMMA SameDocument ==
    ASSUME NEW api, NEW proto, NEW r1, NEW r2, KnowsMore(proto, r1, r2), GoodSources(api, proto, r1),
           generateApi(api, proto, r1).err = NoErr
    PROVE  generateApi(api, proto, r2) = generateApi(api, proto, r1)
<1> DEFINE e1 == EnvOf(api, proto, r1)
           e2 == EnvOf(api, proto, r2)
           routes == api.routes
           n == MaxCallsOf(proto.messages, routes)
           end1 == Walked(e1, routes)
           end2 == Walked(e2, routes)
<1>1. n \in Nat /\ e1.descriptors = proto.messages /\ e2.descriptors = proto.messages
  <2>1. n \in Nat
    BY CallsAreFinite
  <2>2. QED
    BY <2>1 DEF EnvOf
<1> HIDE DEF e1, e2, n, end1, end2
<1>2. PICK f : WalksTo(f, n, e1, routes, end1)
  BY <1>1, WalkedIs DEF n, end1
<1>3. PICK g : WalksTo(g, n, e2, routes, end2)
  BY <1>1, WalkedIs DEF n, end2
<1>4. /\ f[0] = WalkStart(routes) /\ \A i \in 0 .. n - 1 : f[i + 1] = Walk(e1, f[i])
      /\ end1 = IF f[n].err = NoErr /\ f[n].todo # <<>> THEN [f[n] EXCEPT !.err = "panic"] ELSE f[n]
  BY <1>2, Zenon DEF WalksTo
<1>5. /\ g[0] = WalkStart(routes) /\ \A i \in 0 .. n - 1 : g[i + 1] = Walk(e2, g[i])
      /\ end2 = IF g[n].err = NoErr /\ g[n].todo # <<>> THEN [g[n] EXCEPT !.err = "panic"] ELSE g[n]
  BY <1>3, Zenon DEF WalksTo
<1> DEFINE Same(i) == WalkInv(api, proto, r1, f[i]) /\ (f[i].err = NoErr => g[i] = f[i])
           S == {i \in 0 .. n : Same(i)}
<1>6. 0 \in S
  <2>1. WalkInv(api, proto, r1, f[0])
    BY <1>4, WalkStarts
  <2>2. QED
    BY <1>1, <1>4, <1>5, <2>1
<1>7. ASSUME NEW i \in 0 .. n - 1, i \in S PROVE i + 1 \in S
  <2>1. i + 1 \in 0 .. n /\ f[i + 1] = Walk(e1, f[i]) /\ g[i + 1] = Walk(e2, g[i])
    BY <1>1, <1>4, <1>5
  <2>2. WalkInv(api, proto, r1, f[i + 1])
    BY <1>7, <2>1, WalkKeepsInv DEF e1
  <2>3. ASSUME f[i + 1].err = NoErr PROVE g[i + 1] = f[i + 1]
    <3>1. CallsOk(api, proto, f[i])
      BY <1>7 DEF WalkInv
    <3>2. f[i].err = NoErr /\ Walk(e2, f[i]) = Walk(e1, f[i])
      BY <2>1, <2>3, <3>1, SameStep DEF e1, e2
    <3>3. QED
      BY <1>7, <2>1, <3>2
  <2>4. QED
    BY <2>1, <2>2, <2>3
<1>8. Same(n)
  <2>1. 0 .. n \subseteq S
    <3> HIDE DEF S
    <3>1. QED
      BY <1>1, <1>6, <1>7, UpTo
  <2>2. n \in 0 .. n
    BY <1>1
  <2>3. QED
    BY <2>1, <2>2
<1>9. end1.err = NoErr
  BY ApiIs DEF end1, e1
<1>10. f[n].err = NoErr /\ f[n].todo = <<>>
  <2> DEFINE last == f[n]
  <2>1. WalkState(last)
    BY <1>8 DEF WalkInv, CallsOk
  <2> HIDE DEF last
  <2>2. [last EXCEPT !.err = "panic"].err = "panic"
    BY <2>1 DEF WalkState
  <2>3. QED
    BY <1>4, <1>9, <2>2 DEF last, NoErr
<1>11. end2 = end1
  BY <1>4, <1>5, <1>8, <1>10
<1>12. QED
  BY <1>11, Zenon DEF generateApi, EnvOf, end1, end2, e1, e2

LEMMA CurrentIs ==
    /\ Current(Single("enums.sql")) = generateEnums(src.enums)
    /\ Current(Single("enums.go")) = generateEnums(src.enums)
    /\ Current(Single("gen.go")) = generateApiGen(src.proto)
    /\ Current(Single("swagger")) = generateApi(src.api, src.proto, generateApiGen(src.proto)).doc
    /\ Current(Single("controller")) = Controller(src.api)
    /\ Current(Single("router")) = Router(src.api)
<1>1. \A a, b : a # b => Single(a) # Single(b)
  BY DEF Single
<1>2. QED
  BY <1>1 DEF Current

(* gen/gen.go, Generate: a run that returns nil leaves every generated file as *)
(* a run on these sources from nothing would have made it, whatever earlier    *)
(* runs did, failed at or were compiled with; the document too, unless the     *)
(* registry compiled in has other values for an enum.                          *)
THEOREM SuccessMeansCurrent == GenSpec => []SuccessIsCurrent
<1>1. ASSUME GenShape, RegistryOk, SinglesOk, DaosOk PROVE SuccessIsCurrent
  <2>1. ASSUME Succeeded, NEW f \in (SingleFiles \ {"swagger"}) \X {"-"} PROVE tree[f] = Whole(Current(f))
    <3>1. f \in {Single("enums.sql"), Single("enums.go"), Single("gen.go"), Single("controller"), Single("router")}
      BY DEF SingleFiles, Single
    <3>2. EnumsSqlCurrent /\ EnumsGoCurrent /\ GenGoCurrent /\ ControllerCurrent /\ RouterCurrent
      BY <1>1, <2>1 DEF SinglesOk
    <3>3. QED
      BY <3>1, <3>2, CurrentIs
         DEF EnumsSqlCurrent, EnumsGoCurrent, GenGoCurrent, ControllerCurrent, RouterCurrent
  <2>2. ASSUME Succeeded, NEW i \in DOMAIN src.daos, ~src.daos[i].hidden
        PROVE  /\ LastOfItsName(i) =>
                    /\ tree[<<"sql", src.daos[i].name>>] = Whole(generateFile(src.daos[i]).sql)
                    /\ tree[<<"daoGen", src.daos[i].name>>] = Whole(generateFile(src.daos[i]).daoGen)
               /\ tree[<<"dao", src.daos[i].name>>].state # "absent"
    <3> DEFINE s == src.daos
               n == Len(s)
    <3>1. n \in Nat /\ DOMAIN s = 1 .. n
      BY <1>1, ListDef, ProjectsAssumption DEF GenShape
    <3>2. KeptBy(tree, s, n, n)
      BY <1>1, <2>2 DEF DaosOk
    <3>3. LastOfItsName(i) => \A j \in i + 1 .. n : ~s[j].hidden => s[j].name # s[i].name
      BY <2>2, <3>1 DEF LastOfItsName
    <3> HIDE DEF s, n
    <3>4. i \in 1 .. n /\ ~s[i].hidden
      BY <2>2, <3>1 DEF s
    <3>5. QED
      BY <3>2, <3>3, <3>4, Zenon DEF KeptBy, s
  <2>3. ASSUME pc = "done", EnumsAgree(bin, src.proto)
        PROVE  tree[Single("swagger")] = Whole(Current(Single("swagger")))
    <3> DEFINE registry == generateApiGen(src.proto)
    <3>1. bin.models \subseteq PathsOf(src.proto) /\ src \in Projects
      BY <1>1, <2>3 DEF RegistryOk, GenShape
    <3>2. registry.models = PathsOf(src.proto) /\ registry.enums = src.proto.enums
      BY DEF generateApiGen, PathsOf
    <3>3. GoodSources(src.api, src.proto, bin)
      BY <3>1, SourcesAreGood
    <3> HIDE DEF registry
    <3>4. KnowsMore(src.proto, bin, registry)
      BY <2>3, <3>1, <3>2 DEF KnowsMore, EnumsAgree
    <3>5. SwaggerMade
      BY <1>1, <2>3 DEF SinglesOk
    <3>6. generateApi(src.api, src.proto, registry) = generateApi(src.api, src.proto, bin)
      BY <3>3, <3>4, <3>5, SameDocument DEF SwaggerMade
    <3>7. QED
      BY <3>5, <3>6, CurrentIs DEF SwaggerMade, registry
  <2>4. QED
    BY <2>1, <2>2, <2>3, Zenon DEF SuccessIsCurrent, Succeeded
<1>2. GenIInv => SuccessIsCurrent
  BY <1>1 DEF GenIInv
<1>3. QED
  BY <1>2, GenAlways, PTL
==============================================================================
