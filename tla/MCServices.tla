----------------------------- MODULE MCServices -----------------------------
(***************************************************************************)
(* An HTTP server with a websocket client; with a service that fails to    *)
(* stop and was registered over another; and with one that registers a     *)
(* service from its own Stop.                                              *)
(***************************************************************************)
EXTENDS Services

Service(name, kind) == [name |-> name, kind |-> kind]
Http == Service("http", "http")

MCScenarios ==
    {[services |-> <<Http>>, peers |-> {"c"}],
     [services |-> <<Http, Service("db", "closable"), Service("db", "failing")>>, peers |-> {}],
     [services |-> <<Http, Service("cache", "registrar"), Service("db", "closable")>>, peers |-> {}]}
=============================================================================
