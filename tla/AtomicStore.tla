---------------------------- MODULE AtomicStore ----------------------------
(***************************************************************************)
(* What the disk provider promises its callers: a file appears under a     *)
(* name whole and in one step, as the copy of another file or as the       *)
(* concatenation of several, and a crash never damages it.  Only a file    *)
(* made by a plain Write is raw: it may be seen half-written, and a crash  *)
(* may cut it short.                                                       *)
(***************************************************************************)
EXTENDS Naturals, Sequences, SequencesExt

CONSTANTS
    Names,       \* every name a file can have
    Concats,     \* the lists of names whose files may be joined into one
    NoFile       \* there is no file of that name

VARIABLES
    files,       \* files[n]: the content of n, or NoFile
    raw          \* the names whose file came from a plain Write

vars == <<files, raw>>

Present == {n \in Names : files[n] # NoFile}
Joined(list) == FlattenSeq([i \in DOMAIN list |-> files[list[i]]])

Init ==
    /\ DOMAIN files = Names
    /\ raw = {}

\* A plain Write truncates the file and then fills it.
Truncate(n) ==
    /\ files' = [files EXCEPT ![n] = <<>>]
    /\ raw' = raw \cup {n}

Grow(n) ==
    /\ UNCHANGED raw
    /\ files' = [files EXCEPT ![n] = files'[n]]
    /\ IsPrefix(files[n], files'[n])

Install(n, content) ==
    /\ files' = [files EXCEPT ![n] = content]
    /\ raw' = raw \ {n}

Discard(ns) ==
    /\ files' = [n \in Names |-> IF n \in ns THEN NoFile ELSE files[n]]
    /\ raw' = raw \ ns

Rename(m, n) ==
    /\ files' = [files EXCEPT ![n] = files[m], ![m] = NoFile]
    /\ raw' = IF m \in raw THEN (raw \cup {n}) \ {m} ELSE raw \ {n}

Crash ==
    /\ UNCHANGED raw
    /\ files' = [n \in Names |-> IF n \in raw THEN files'[n] ELSE files[n]]
    /\ \A n \in raw : IsPrefix(files'[n], files[n])

Next ==
    \/ \E n \in Names : Truncate(n)
    \/ \E n \in raw : Grow(n)
    \/ \E m \in Present, n \in Names : Install(n, files[m]) \/ Rename(m, n)
    \/ \E list \in Concats, n \in Names :
          /\ \A i \in DOMAIN list : list[i] \in Present
          /\ Install(n, Joined(list))
    \/ \E ns \in SUBSET Present : Discard(ns)
    \/ Crash

Spec == Init /\ [][Next]_vars
=============================================================================
