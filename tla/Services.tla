------------------------------ MODULE Services ------------------------------
(***************************************************************************)
(* How a program of these packages starts and ends: control_flow, which    *)
(* stops what was registered, http/server.go, one of the services, and the *)
(* websocket sessions of that server.  main waits for an interrupt or for  *)
(* the context to be cancelled, and calls Shutdown; another goroutine      *)
(* registers the services; a third calls ListenAndServe.  fasthttp's       *)
(* Server, external, is modelled by what http/server.go needs of it.       *)
(***************************************************************************)
EXTENDS WebSocket, Sequences

CONSTANT Scenarios  \* [services, peers]: the services in order of registration,
                    \* [name, kind], and the websocket clients that connect

VARIABLES
    scenario,
    registered,     \* how many services were registered
    services,       \* services[name]: the kind of the service under a name
    ctx,            \* the context of control_flow is done
    main,           \* where main is
    stop,           \* stop[name]: the goroutine of Shutdown for a name
    listen,         \* ListenAndServe
    connected,      \* Impl.connected
    serving,        \* its goroutine in serve
    bound,          \* fasthttp's listener is open
    request,        \* a request is handled
    wasBound,       \* the listener was open when Stop was called (history)
    stopErr         \* what Stop of the server returned

cfVars == <<registered, services, ctx, main>>
httpVars == <<listen, connected, serving, bound, request, wasBound, stopErr, done>>
servicesVars == <<scenario, cfVars, stop, httpVars, ws>>

Put(f, k, v) == [x \in DOMAIN f \cup {k} |-> IF x = k THEN v ELSE f[x]]

-----------------------------------------------------------------------------
(* control_flow *)

(* RegisterShutdownService and its variants: under the mutex, which Shutdown holds to its end. *)
(* The service of an earlier registration under the same name is forgotten.                    *)
MutexIsFree == main # "stopping"
RegisterShutdownService ==
    /\ MutexIsFree
    /\ registered < Len(scenario.services)
    /\ registered' = registered + 1
    /\ LET s == scenario.services[registered + 1] IN services' = Put(services, s.name, s.kind)
    /\ UNCHANGED <<scenario, ctx, main, stop, httpVars, ws>>

Cancel ==
    /\ ~ctx
    /\ ctx' = TRUE
    /\ UNCHANGED <<scenario, registered, services, main, stop, httpVars, ws>>

(* The context is done, or an interrupt comes, which cancels it. *)
WaitForInterrupt ==
    /\ main = "waiting"
    /\ main' = "interrupted"
    /\ ctx' = TRUE
    /\ UNCHANGED <<scenario, registered, services, stop, httpVars, ws>>

Shutdown ==
    /\ main = "interrupted"
    /\ main' = "stopping"
    /\ stop' = [name \in DOMAIN services |-> "called"]
    /\ UNCHANGED <<scenario, registered, services, ctx, httpVars, ws>>

(* wg.Wait *)
AllStopped == \A name \in DOMAIN stop : stop[name] \in {"stopped", "failed"}

ShutdownReturns ==
    /\ main = "stopping" /\ AllStopped
    /\ main' = "done"
    /\ UNCHANGED <<scenario, registered, services, ctx, stop, httpVars, ws>>

(* Stop of the adapters NewClosable, NewClosableWithError and NewStoppable; one whose service *)
(* registers another one waits for the mutex of the Shutdown that waits for it.               *)
StopService(name) ==
    /\ name \in DOMAIN stop /\ stop[name] = "called"
    /\ services[name] # "http"
    /\ services[name] = "registrar" => MutexIsFree
    /\ stop' = [stop EXCEPT ![name] = IF services[name] = "failing" THEN "failed" ELSE "stopped"]
    /\ UNCHANGED <<scenario, cfVars, httpVars, ws>>

-----------------------------------------------------------------------------
(* http/server.go *)

(* Mutant: the server counts as connected only while ListenAndServe runs. *)
ForgetConnected == connected' = FALSE

KeepConnected == UNCHANGED connected

(* The server is connected before it listens, and is served by a goroutine of its own. *)
ListenAndServe ==
    /\ listen = "off"
    /\ listen' = "listening" /\ connected' = TRUE /\ serving' = "binding"
    /\ UNCHANGED <<scenario, cfVars, stop, bound, request, wasBound, stopErr, done, ws>>

(* The select: a cancelled context leaves the goroutine behind, which goes on serving. *)
ListenReturns ==
    /\ listen = "listening"
    /\ \/ ctx /\ UNCHANGED serving
       \/ serving = "sending" /\ serving' = "ended"
    /\ listen' = "returned"
    /\ KeepConnected
    /\ UNCHANGED <<scenario, cfVars, stop, bound, request, wasBound, stopErr, done, ws>>

Serve ==
    /\ \/ serving = "binding" /\ serving' = "serving" /\ bound' = TRUE
       \/ serving = "binding" /\ serving' = "sending" /\ UNCHANGED bound     \* Listen fails
       \/ serving = "serving" /\ ~bound /\ serving' = "sending" /\ UNCHANGED bound
    /\ UNCHANGED <<scenario, cfVars, stop, listen, connected, request, wasBound, stopErr, done, ws>>

(* Stop looks at `connected` without the mutex. *)
HttpStop(name) ==
    /\ name \in DOMAIN stop /\ stop[name] = "called"
    /\ services[name] = "http"
    /\ wasBound' = bound
    /\ stop' = [stop EXCEPT ![name] = IF connected THEN "connected" ELSE "stopped"]
    /\ UNCHANGED <<scenario, cfVars, listen, connected, serving, bound, request, stopErr, done, ws>>

(* ShutdownWithContext: nothing without a listener; otherwise it closes it, and `done`, ... *)
HttpShutdown(name) ==
    /\ name \in DOMAIN stop /\ stop[name] = "connected"
    /\ bound' = FALSE
    /\ done' = (done \/ bound)
    /\ stop' = [stop EXCEPT ![name] = IF bound THEN "draining" ELSE "stopped"]
    /\ UNCHANGED <<scenario, cfVars, listen, connected, serving, request, wasBound, stopErr, ws>>

(* Mutant: Stop has no timeout. *)
TimeoutNever == FALSE

TimeoutMayFire == TRUE

(* ... and waits for the requests, but not longer than the timeout. *)
HttpDrained(name) ==
    /\ name \in DOMAIN stop /\ stop[name] = "draining"
    /\ \/ ~request /\ stop' = [stop EXCEPT ![name] = "stopped"] /\ UNCHANGED stopErr
       \/ TimeoutMayFire /\ stop' = [stop EXCEPT ![name] = "failed"] /\ stopErr' = TRUE
    /\ UNCHANGED <<scenario, cfVars, listen, connected, serving, bound, request, wasBound, done, ws>>

(* Clients of the server: a request may take for ever. *)
Request ==
    /\ request = FALSE => bound
    /\ request' = ~request
    /\ UNCHANGED <<scenario, cfVars, stop, listen, connected, serving, bound, wasBound, stopErr, done, ws>>

InSession(c, step) ==
    /\ c \in scenario.peers
    /\ step
    /\ UNCHANGED <<scenario, cfVars, stop, httpVars>>
Session(c) == InSession(c, bound /\ Upgrade(c)) \/ InSession(c, WSNext(c))

-----------------------------------------------------------------------------
ServicesInit ==
    /\ scenario \in Scenarios
    /\ registered = 0 /\ services = <<>> /\ ctx = FALSE /\ main = "waiting"
    /\ stop = <<>>
    /\ listen = "off" /\ connected = FALSE /\ serving = "none" /\ bound = FALSE
    /\ request = FALSE /\ wasBound = FALSE /\ stopErr = FALSE
    /\ WSInit

Names == UNION {{s.services[i].name : i \in DOMAIN s.services} : s \in Scenarios}
StopStep(name) == StopService(name) \/ HttpStop(name) \/ HttpShutdown(name) \/ HttpDrained(name)

ServicesNext ==
    \/ RegisterShutdownService \/ Cancel \/ WaitForInterrupt \/ Shutdown \/ ShutdownReturns
    \/ \E name \in Names : StopStep(name)
    \/ ListenAndServe \/ ListenReturns \/ Serve \/ Request
    \/ \E c \in Peers : Session(c)

(* Goroutines run.  What waits for a peer need only return once its connection is closed, and *)
(* a request need not end.                                                                    *)
ServicesFairness ==
    /\ \A name \in Names : WF_servicesVars(StopStep(name))
    /\ WF_servicesVars(Shutdown \/ ShutdownReturns)
    /\ \A c \in Peers :
           /\ WF_servicesVars(InSession(c, SessionStep(c)))
           /\ WF_servicesVars(InSession(c, FrameStep(c)))
           /\ WF_servicesVars(InSession(c, WatcherStep(c)))
           /\ WF_servicesVars(InSession(c, ws[c].closed /\ NextReaderFails(c)))
           /\ WF_servicesVars(InSession(c, ws[c].closed /\ WriteReturns(c)))

(* When Shutdown has returned, every service it found has been stopped, and the HTTP server   *)
(* for good if its listener was open when Stop was called: whether or not the context had     *)
(* already ended ListenAndServe, it is closed, and no request is left unless Stop said so.    *)
(* (A Stop that comes before the listener is bound does nothing, and the server starts        *)
(* afterwards.)                                                                               *)
StoppedMeansStopped ==
    main = "done" =>
        /\ \A name \in DOMAIN stop : stop[name] \in {"stopped", "failed"}
        /\ wasBound => /\ ~bound
                       /\ stopErr \/ ~request

(* Shutdown returns, though a request takes for ever or a service fails to stop, unless one   *)
(* registers another from its Stop: Shutdown holds the mutex until all have stopped.          *)
ShutdownEnds ==
    (main = "stopping") ~>
        (main = "done" \/ \E name \in DOMAIN stop : services[name] = "registrar")
=============================================================================
