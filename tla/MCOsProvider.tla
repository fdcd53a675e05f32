---------------------------- MODULE MCOsProvider ----------------------------
(* Two paths and one upload of two chunks; the chunks arrive in any order    *)
(* and one of the lists a caller completes with is out of order.             *)
EXTENDS OsProvider, TLC

CONSTANTS c1, c2, p1, p2, u1, x, y

MCSymmetry == Permutations({c1, c2})
MCPaths == {p1, p2}
MCUploads == {u1}
MCPathOf == [u \in MCUploads |-> p1]
MCChunkLists == {<<1, 2>>, <<2, 1>>}
MCContents == {<<x, y>>}
=============================================================================
