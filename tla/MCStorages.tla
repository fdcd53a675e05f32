------------------------------ MODULE MCStorages ------------------------------
(***************************************************************************)
(* Two storages, one at a time: `part` is the one that is called, the      *)
(* other stays in an initial state.                                        *)
(*                                                                         *)
(* sync: three backends, two paths, an upload of two chunks.               *)
(* object: two callers over two names that share a prefix, a large and a   *)
(* small content, and uploads of up to five chunks with a limit of two     *)
(* sources per composition: one pass, two passes, and more groups than a   *)
(* composition takes.                                                      *)
(***************************************************************************)
EXTENDS SyncStorage, ObjectStorage

CONSTANTS p1, p2, x, y

MCPaths == {p1, p2}
MCContents == {<<x>>}
MCChunkData == <<<<x>>, <<y>>>>

MCMatches == [d \in {"dir"} |-> {"dir/a", "dir2"}]
MCTargetOf == [u \in {"u1", "u2"} |-> "dir/a"]
MCLists == {<<>>, <<1>>, <<2, 1>>, <<1, 2, 3>>, <<1, 2, 3, 4, 5>>}
Holding(a, b) == [n \in {"dir/a", "dir2"} |-> IF n = "dir/a" THEN a ELSE b]
MCSeeds ==
    {[objects |-> Holding(Whole("large"), Absent), acked |-> [u \in {"u1", "u2"} |-> {}]],
     [objects |-> Holding(Absent, Whole("small")), acked |-> [u \in {"u1", "u2"} |-> IF u = "u1" THEN 1 .. 3 ELSE {}]],
     [objects |-> Holding(Absent, Absent), acked |-> [u \in {"u1", "u2"} |-> IF u = "u1" THEN 1 .. 5 ELSE {2}]]}

VARIABLE part

storagesVars == <<part, syncVars, objectVars>>

Init ==
    /\ part \in {"sync", "object"}
    /\ SyncInit
    /\ ObjectInit
    /\ part = "sync" => /\ backend = "gcs" /\ withRetry
                        /\ \A u \in Uploads : acked[u] = {}

Next ==
    /\ UNCHANGED part
    /\ \/ part = "sync" /\ SyncNext /\ UNCHANGED objectVars
       \/ part = "object" /\ ObjectNext /\ UNCHANGED syncVars

Spec == Init /\ [][Next]_storagesVars
===============================================================================
