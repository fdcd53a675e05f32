--------------------------- MODULE MCSocketServer ---------------------------
(* A server that is started twice.  The sessions of the Unix server are those *)
(* of the TCP server: there, one is enough.                                   *)
EXTENDS SocketServer

CONSTANTS k1, k2

MCTransports == {"tcp", "unix", "udp"}
MCPeers == [t \in MCTransports |-> IF t = "unix" THEN {k1} ELSE {k1, k2}]
=============================================================================
