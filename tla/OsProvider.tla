----------------------------- MODULE OsProvider -----------------------------
(***************************************************************************)
(* storage/providers/os.go: files on disk.                                 *)
(*                                                                         *)
(* Write fills the file in place.  Copy, CompleteMultipartUpload and the   *)
(* fallback of Move fill a temporary file beside the destination, sync it  *)
(* and rename it over the destination.  The machine may stop at any step;  *)
(* a file that was never synced may then have lost a part of its tail.     *)
(*                                                                         *)
(* A content is a sequence of blocks and one step moves one block.  A      *)
(* chunk of a multipart upload is a file of its own, and it is written by  *)
(* Write.  A call that fails before its first effect is no step.           *)
(***************************************************************************)
EXTENDS Naturals, Sequences, FiniteSets, SequencesExt

CONSTANTS
    Calls,        \* concurrent callers of the provider
    Paths,        \* the paths of objects
    Uploads,      \* ids of multipart uploads
    PathOf,       \* PathOf[u]: the path upload u was created for
    Numbers,      \* chunk numbers
    ChunkLists,   \* the lists of numbers a caller completes an upload with
    Contents,     \* what callers write
    NoFile, NoCall,
    MaxCrashes    \* bound: how often the machine may stop

ASSUME OsAssumption ==
    /\ PathOf \in [Uploads -> Paths]
    /\ ChunkLists \subseteq Seq(Numbers) \ {<<>>}
    /\ <<>> \notin Contents
    /\ MaxCrashes \in Nat

VARIABLES
    files,        \* files[n]: the content of the file n, or NoFile
    unsynced,     \* the names whose file is not known to be on the disk
    pc,           \* pc[c]: where the call is
    arg,          \* arg[c]: what it was called with, or NoCall
    rest,         \* rest[c]: blocks it has read or was given and not written
    todo,         \* todo[c]: the files it has yet to open
    tmp,          \* tmp[c]: the content of its temporary file, or NoFile
    crashes

vars == <<files, unsynced, pc, arg, rest, todo, tmp, crashes>>

Parts == Uploads \X Numbers
PartsOf(u) == {u} \X Numbers
Names == Paths \cup Parts
Blocks == UNION {Range(d) : d \in Contents}

CallTypes ==
    [op : {"write"}, data : Contents, to : Names]
        \cup [op : {"copy", "move"}, from : Names, to : Paths]
        \cup [op : {"complete"}, id : Uploads, list : ChunkLists, to : Paths]

\* What stands for "no file" and "no call" is neither.
ASSUME AbsenceAssumption ==
    /\ Contents \subseteq Seq(Blocks) /\ NoFile \notin Seq(Blocks)
    /\ NoCall \notin CallTypes

TypeOK ==
    /\ files \in [Names -> Seq(Blocks) \cup {NoFile}]
    /\ unsynced \subseteq {n \in Names : files[n] # NoFile}
    /\ pc \in [Calls -> {"idle", "write", "temp", "synced", "remove", "cleanup"}]
    /\ \A c \in Calls :
          /\ arg[c] \in CallTypes \cup {NoCall}
          /\ pc[c] = "idle" <=> arg[c] = NoCall
          /\ tmp[c] # NoFile <=> pc[c] \in {"temp", "synced"}
    /\ rest \in [Calls -> Seq(Blocks)]
    /\ todo \in [Calls -> Seq(Names)]
    /\ tmp \in [Calls -> Seq(Blocks) \cup {NoFile}]
    /\ crashes \in 0 .. MaxCrashes

Init ==
    /\ files \in [Names -> {NoFile}]
    /\ unsynced = {}
    /\ pc = [c \in Calls |-> "idle"]
    /\ arg = [c \in Calls |-> NoCall]
    /\ rest = [c \in Calls |-> <<>>]
    /\ todo = [c \in Calls |-> <<>>]
    /\ tmp = [c \in Calls |-> NoFile]
    /\ crashes = 0

-----------------------------------------------------------------------------
(* The discipline of the callers: nobody changes in place, or removes, a   *)
(* file that another call is using.  Calls may read the same file, and a   *)
(* copy and a completed upload may race for one destination.               *)

ChunkNames(u, list) == [i \in DOMAIN list |-> <<u, list[i]>>]

Reads(a) ==
    CASE a = NoCall -> {}
      [] a # NoCall /\ a.op = "copy" -> {a.from}
      [] OTHER -> {}
Installs(a) ==
    CASE a = NoCall -> {}
      [] a # NoCall /\ a.op \in {"copy", "complete"} -> {a.to}
      [] OTHER -> {}
Owns(a) ==
    CASE a = NoCall -> {}
      [] a # NoCall /\ a.op = "write" -> {a.to}
      [] a # NoCall /\ a.op = "move" -> {a.from, a.to}
      [] a # NoCall /\ a.op = "complete" -> PartsOf(a.id)
      [] OTHER -> {}

Compatible(a, b) ==
    /\ Owns(a) \cap (Reads(b) \cup Installs(b) \cup Owns(b)) = {}
    /\ Owns(b) \cap (Reads(a) \cup Installs(a)) = {}
    /\ Reads(a) \cap Installs(b) = {}
    /\ Reads(b) \cap Installs(a) = {}

MayCall(c, a) ==
    /\ pc[c] = "idle"
    /\ \A d \in Calls \ {c} : Compatible(a, arg[d])

Unused(ns) ==
    \A d \in Calls : ns \cap (Reads(arg[d]) \cup Installs(arg[d]) \cup Owns(arg[d])) = {}

Return(c) ==
    /\ pc' = [pc EXCEPT ![c] = "idle"]
    /\ arg' = [arg EXCEPT ![c] = NoCall]
    /\ rest' = [rest EXCEPT ![c] = <<>>]
    /\ todo' = [todo EXCEPT ![c] = <<>>]
    /\ tmp' = [tmp EXCEPT ![c] = NoFile]

RemoveAll(ns) ==
    /\ files' = [n \in Names |-> IF n \in ns THEN NoFile ELSE files[n]]
    /\ unsynced' = unsynced \ ns

-----------------------------------------------------------------------------
(* Write, of an object or of the chunk of an upload. *)

Write(c, data, name) ==
    LET a == [op |-> "write", data |-> data, to |-> name] IN
    /\ MayCall(c, a)
    /\ files' = [files EXCEPT ![name] = <<>>]
    /\ unsynced' = unsynced \cup {name}
    /\ pc' = [pc EXCEPT ![c] = "write"]
    /\ arg' = [arg EXCEPT ![c] = a]
    /\ rest' = [rest EXCEPT ![c] = data]
    /\ UNCHANGED <<todo, tmp, crashes>>

WriteBlock(c) ==
    /\ pc[c] = "write"
    /\ rest[c] # <<>>
    /\ files' = [files EXCEPT ![arg[c].to] = Append(@, Head(rest[c]))]
    /\ rest' = [rest EXCEPT ![c] = Tail(@)]
    /\ UNCHANGED <<unsynced, pc, arg, todo, tmp, crashes>>

\* With blocks left it is a failed copy: the file stays as it is.
WriteReturns(c) ==
    /\ pc[c] = "write"
    /\ Return(c)
    /\ UNCHANGED <<files, unsynced, crashes>>

-----------------------------------------------------------------------------
(* The temporary file of Copy, of Move's fallback and of a completion. *)

StartTemp(c, a, list) ==
    /\ pc' = [pc EXCEPT ![c] = "temp"]
    /\ arg' = [arg EXCEPT ![c] = a]
    /\ todo' = [todo EXCEPT ![c] = list]
    /\ tmp' = [tmp EXCEPT ![c] = <<>>]
    /\ UNCHANGED <<files, unsynced, rest, crashes>>

Copy(c, from, to) ==
    LET a == [op |-> "copy", from |-> from, to |-> to] IN
    /\ MayCall(c, a)
    /\ files[from] # NoFile
    /\ StartTemp(c, a, <<from>>)

\* The rename that usually does the whole work.
Move(c, from, to) ==
    /\ MayCall(c, [op |-> "move", from |-> from, to |-> to])
    /\ from # to
    /\ files[from] # NoFile
    /\ files' = [files EXCEPT ![to] = files[from], ![from] = NoFile]
    /\ unsynced' = IF from \in unsynced THEN (unsynced \cup {to}) \ {from}
                                        ELSE unsynced \ {to}
    /\ UNCHANGED <<pc, arg, rest, todo, tmp, crashes>>

\* The rename fails, for the two paths are on different devices.
MoveFallsBack(c, from, to) ==
    LET a == [op |-> "move", from |-> from, to |-> to] IN
    /\ MayCall(c, a)
    /\ from # to
    /\ files[from] # NoFile
    /\ StartTemp(c, a, <<from>>)

CompleteMultipartUpload(c, u, list) ==
    LET a == [op |-> "complete", id |-> u, list |-> list, to |-> PathOf[u]] IN
    /\ MayCall(c, a)
    /\ StartTemp(c, a, ChunkNames(u, list))

OpenNext(c) ==
    /\ pc[c] = "temp"
    /\ rest[c] = <<>>
    /\ todo[c] # <<>>
    /\ files[Head(todo[c])] # NoFile
    /\ rest' = [rest EXCEPT ![c] = files[Head(todo[c])]]
    /\ todo' = [todo EXCEPT ![c] = Tail(@)]
    /\ UNCHANGED <<files, unsynced, pc, arg, tmp, crashes>>

TempBlock(c) ==
    /\ pc[c] = "temp"
    /\ rest[c] # <<>>
    /\ tmp' = [tmp EXCEPT ![c] = Append(@, Head(rest[c]))]
    /\ rest' = [rest EXCEPT ![c] = Tail(@)]
    /\ UNCHANGED <<files, unsynced, pc, arg, todo, crashes>>

\* Mutant: the file is installed when the first chunk has been copied.
SyncTempEarly(c) ==
    /\ pc[c] = "temp"
    /\ rest[c] = <<>>
    /\ pc' = [pc EXCEPT ![c] = "synced"]
    /\ UNCHANGED <<files, unsynced, arg, rest, todo, tmp, crashes>>

SyncTemp(c) ==
    /\ pc[c] = "temp"
    /\ rest[c] = <<>>
    /\ todo[c] = <<>>
    /\ pc' = [pc EXCEPT ![c] = "synced"]
    /\ UNCHANGED <<files, unsynced, arg, rest, todo, tmp, crashes>>

\* Mutant: Move goes on to remove the source when Copy returned an error.
GiveUpIgnored(c) ==
    /\ pc[c] \in {"temp", "synced"}
    /\ IF arg[c].op = "move"
       THEN /\ pc' = [pc EXCEPT ![c] = "remove"]
            /\ tmp' = [tmp EXCEPT ![c] = NoFile]
            /\ UNCHANGED <<arg, rest, todo>>
       ELSE Return(c)
    /\ UNCHANGED <<files, unsynced, crashes>>

\* A read, a write, the sync or the rename fails, or a chunk is not there:
\* the deferred os.Remove takes the temporary file away.
GiveUp(c) ==
    /\ pc[c] \in {"temp", "synced"}
    /\ Return(c)
    /\ UNCHANGED <<files, unsynced, crashes>>

RenameTemp(c) ==
    /\ pc[c] = "synced"
    /\ files' = [files EXCEPT ![arg[c].to] = tmp[c]]
    /\ unsynced' = unsynced \ {arg[c].to}
    /\ IF arg[c].op = "copy"
       THEN Return(c)
       ELSE /\ pc' = [pc EXCEPT ![c] = IF arg[c].op = "move" THEN "remove" ELSE "cleanup"]
            /\ tmp' = [tmp EXCEPT ![c] = NoFile]
            /\ UNCHANGED <<arg, rest, todo>>
    /\ UNCHANGED crashes

RemoveSource(c) ==
    /\ pc[c] = "remove"
    /\ RemoveAll({arg[c].from})
    /\ Return(c)
    /\ UNCHANGED crashes

RemoveSourceFails(c) ==
    /\ pc[c] = "remove"
    /\ Return(c)
    /\ UNCHANGED <<files, unsynced, crashes>>

\* os.RemoveAll may fail half way; the completion has succeeded all the same.
CleanupMultipartDir(c) ==
    /\ pc[c] = "cleanup"
    /\ \E ns \in SUBSET PartsOf(arg[c].id) : RemoveAll(ns)
    /\ Return(c)
    /\ UNCHANGED crashes

-----------------------------------------------------------------------------
AbortMultipartUpload(u) ==
    /\ Unused(PartsOf(u))
    /\ \E ns \in SUBSET PartsOf(u) : RemoveAll(ns)
    /\ UNCHANGED <<pc, arg, rest, todo, tmp, crashes>>

DeleteFile(p) ==
    /\ Unused({p})
    /\ files[p] # NoFile
    /\ RemoveAll({p})
    /\ UNCHANGED <<pc, arg, rest, todo, tmp, crashes>>

\* The machine stops: no call returns, and what was not synced may be cut.
Crash ==
    /\ crashes < MaxCrashes
    /\ crashes' = crashes + 1
    /\ \E kept \in [unsynced -> UNION {Prefixes(files[n]) : n \in unsynced}] :
          /\ \A n \in unsynced : IsPrefix(kept[n], files[n])
          /\ files' = [n \in Names |-> IF n \in unsynced THEN kept[n] ELSE files[n]]
    /\ pc' = [c \in Calls |-> "idle"]
    /\ arg' = [c \in Calls |-> NoCall]
    /\ rest' = [c \in Calls |-> <<>>]
    /\ todo' = [c \in Calls |-> <<>>]
    /\ tmp' = [c \in Calls |-> NoFile]
    /\ UNCHANGED unsynced

Next ==
    \/ \E c \in Calls :
          \/ \E data \in Contents, name \in Names : Write(c, data, name)
          \/ WriteBlock(c) \/ WriteReturns(c)
          \/ \E from, to \in Paths :
                Copy(c, from, to) \/ Move(c, from, to) \/ MoveFallsBack(c, from, to)
          \/ \E u \in Uploads, list \in ChunkLists : CompleteMultipartUpload(c, u, list)
          \/ OpenNext(c) \/ TempBlock(c) \/ SyncTemp(c) \/ GiveUp(c) \/ RenameTemp(c)
          \/ RemoveSource(c) \/ RemoveSourceFails(c) \/ CleanupMultipartDir(c)
    \/ \E u \in Uploads : AbortMultipartUpload(u)
    \/ \E p \in Paths : DeleteFile(p)
    \/ Crash

Spec == Init /\ [][Next]_vars

-----------------------------------------------------------------------------
(* While Move's fallback is about to remove the source, the destination    *)
(* holds the same content and it is on the disk: whichever of the steps    *)
(* fails, and wherever the machine stops, the object exists under one of   *)
(* the two names (os.go:215-222).                                          *)
SourceSurvives ==
    \A c \in Calls : pc[c] = "remove" =>
        /\ files[arg[c].from] # NoFile
        /\ files[arg[c].to] = files[arg[c].from]
        /\ arg[c].to \notin unsynced

(* "so a crash never leaves a partial destination" (os.go:154-155): copies *)
(* and completed uploads appear whole, in one step, and stay whole.  This  *)
(* is AtomicStore with the temporary files, the calls and the syncing      *)
(* hidden.                                                                 *)
Store == INSTANCE AtomicStore WITH
    raw <- unsynced,
    Concats <- {ChunkNames(u, list) : u \in Uploads, list \in ChunkLists}
ImplementsStore == Store!Spec
=============================================================================
