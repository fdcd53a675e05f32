---------------------------- MODULE SyncStorage ----------------------------
(***************************************************************************)
(* storage/providers/sync.go: one storage kept on several backends.  Every *)
(* operation goes through the backends in order; the call to one backend   *)
(* is one step here.  It may fail without an effect, and a failed write    *)
(* may leave a part of the object behind, as the disk provider's does      *)
(* (os.go:88).                                                             *)
(*                                                                         *)
(* One caller makes one call after the other.  Directories are left out:   *)
(* MkDir and DeleteDir go through the backends as DeleteFile does.         *)
(***************************************************************************)
EXTENDS Naturals, Sequences, SequencesExt

CONSTANTS
    N,            \* len(s.storages)
    Paths,
    Contents,     \* what Write is given: sequences of blocks
    UploadPath,   \* the path of the one multipart upload
    ChunkData,    \* ChunkData[k]: the content of chunk number k
    NoFile, NoCall,
    MaxCalls,     \* bound: how many calls are made
    MaxFaults     \* bound: how many calls to a backend or to the spool fail

Storages == 1 .. N
Numbers == DOMAIN ChunkData
Orders == {list \in UNION {[1 .. n -> Numbers] : n \in 1 .. 2} : IsInjective(list)}
Joined(parts, list) == FlattenSeq([j \in DOMAIN list |-> parts[list[j]]])
Objects == Contents \cup {<<>>} \cup {Joined(ChunkData, list) : list \in Orders}

ASSUME SyncAssumption ==
    /\ N \in Nat \ {0}
    /\ UploadPath \in Paths
    /\ MaxCalls \in Nat /\ MaxFaults \in Nat

VARIABLES
    store,        \* store[s][p]: the object at path p of backend s, or NoFile
    open,         \* the backends on which the upload exists
    parts,        \* parts[s][k]: chunk k of the upload on backend s, or NoFile
    held,         \* the chunks the caller was given by UploadMultipartChunk
    pc,           \* "idle", or what the call under way does next
    call,         \* the call under way, or the last one
    i,            \* the backend it has come to
    undo,         \* the last backend the rollback goes to
    ret,          \* "ok" or "error" once it has returned
    before,       \* store when the call was made
    trouble,      \* what has failed in it
    calls, faults

syncVars == <<store, open, parts, held, pc, call, i, undo, ret, before, trouble, calls, faults>>
backends == <<store, open, parts>>

CallTypes ==
    {NoCall}
        \cup [op : {"Write"}, to : Paths, data : Contents]
        \cup [op : {"Copy", "Move"}, from : Paths, to : Paths]
        \cup [op : {"DeleteFile"}, path : Paths]
        \cup [op : {"Create", "Abort"}]
        \cup [op : {"Upload"}, k : Numbers]
        \cup [op : {"Complete"}, list : Orders]

TypeOK ==
    /\ store \in [Storages -> [Paths -> Objects \cup {NoFile}]]
    /\ open \subseteq Storages
    /\ \A s \in Storages, k \in Numbers :
          /\ parts[s][k] \in {NoFile, <<>>, ChunkData[k]}
          /\ parts[s][k] # NoFile => s \in open
    /\ held \subseteq Numbers
    /\ pc \in {"idle", "run", "undo", "delete"}
    /\ call \in CallTypes
    /\ i \in 1 .. N + 1 /\ undo \in 0 .. N
    /\ ret \in {"ok", "error"}
    /\ trouble \subseteq {"backend", "torn", "open", "close", "undo"}
    /\ calls \in 0 .. MaxCalls /\ faults \in 0 .. MaxFaults

SyncInit ==
    /\ store = [s \in Storages |-> [p \in Paths |-> NoFile]]
    /\ open = {}
    /\ parts = [s \in Storages |-> [k \in Numbers |-> NoFile]]
    /\ held = {}
    /\ pc = "idle" /\ call = NoCall /\ i = 1 /\ undo = 0 /\ ret = "ok"
    /\ before = store /\ trouble = {}
    /\ calls = 0 /\ faults = 0

-----------------------------------------------------------------------------
Call(c) ==
    /\ pc = "idle"
    /\ calls < MaxCalls
    /\ calls' = calls + 1
    /\ pc' = "run"
    /\ call' = c
    /\ i' = 1
    /\ before' = store
    /\ trouble' = {}
    /\ UNCHANGED <<backends, held, undo, ret, faults>>

Write(p, data) == Call([op |-> "Write", to |-> p, data |-> data])
Copy(p, q) == Call([op |-> "Copy", from |-> p, to |-> q])
\* "treat identical paths as a no-op"
Move(p, q) == p # q /\ Call([op |-> "Move", from |-> p, to |-> q])
DeleteFile(p) == Call([op |-> "DeleteFile", path |-> p])

\* The caller uses the upload it was given, and sends no chunk twice that
\* it already holds.
CreateMultipartUpload == open = {} /\ held = {} /\ Call([op |-> "Create"])
UploadMultipartChunk(k) ==
    open = Storages /\ k \notin held /\ Call([op |-> "Upload", k |-> k])
CompleteMultipartUpload(list) ==
    Range(list) \subseteq held /\ Call([op |-> "Complete", list |-> list])
AbortMultipartUpload == open # {} /\ Call([op |-> "Abort"])

Running(op) == pc = "run" /\ i <= N /\ call.op = op
Return(r) == pc' = "idle" /\ ret' = r
Fault(kind) ==
    /\ faults < MaxFaults
    /\ faults' = faults + 1
    /\ trouble' = trouble \cup {kind}
Onwards ==
    /\ i' = i + 1
    /\ UNCHANGED <<held, pc, call, undo, ret, before, trouble, calls, faults>>
Rollback(last) ==
    /\ undo' = last
    /\ i' = 1
    /\ pc' = "undo"
    /\ UNCHANGED ret

-----------------------------------------------------------------------------
(* Write *)

WriteOne ==
    /\ Running("Write")
    /\ store' = [store EXCEPT ![i][call.to] = call.data]
    /\ Onwards
    /\ UNCHANGED <<open, parts>>

\* The spooled source cannot be opened again: there is no rollback.
OpenSpoolFails ==
    /\ Running("Write") \/ Running("Upload")
    /\ Fault("open")
    /\ Return("error")
    /\ UNCHANGED <<backends, held, call, i, undo, before, calls>>

WriteOneFails ==
    /\ Running("Write")
    /\ \/ Fault("backend") /\ UNCHANGED store
       \/ Fault("torn") /\ store' = [store EXCEPT ![i][call.to] = <<>>]
    /\ Rollback(i - 1)
    /\ UNCHANGED <<open, parts, held, call, before, calls>>

\* The object is written and the spool cannot be closed: the rollback
\* includes this backend.
CloseSpoolFails ==
    /\ Running("Write")
    /\ Fault("close")
    /\ store' = [store EXCEPT ![i][call.to] = call.data]
    /\ Rollback(i)
    /\ UNCHANGED <<open, parts, held, call, before, calls>>

-----------------------------------------------------------------------------
(* Copy, and the first half of Move *)

Copying == Running("Copy") \/ Running("Move")

\* Mutant: each backend is moved on its own, the source going at once.
CopyOneMoves ==
    /\ Copying
    /\ store[i][call.from] # NoFile
    /\ store' = [store EXCEPT ![i][call.to] = store[i][call.from],
                              ![i][call.from] = IF call.op = "Move" THEN NoFile ELSE @]
    /\ Onwards
    /\ UNCHANGED <<open, parts>>

CopyOne ==
    /\ Copying
    /\ store[i][call.from] # NoFile
    /\ store' = [store EXCEPT ![i][call.to] = store[i][call.from]]
    /\ Onwards
    /\ UNCHANGED <<open, parts>>

CopyOneFails ==
    /\ Copying
    /\ IF store[i][call.from] = NoFile THEN UNCHANGED <<trouble, faults>> ELSE Fault("backend")
    /\ Rollback(i - 1)
    /\ UNCHANGED <<backends, held, call, before, calls>>

-----------------------------------------------------------------------------
(* The rollback: errors are logged, and it goes on. *)

\* Mutant: the rollback removes nothing.
UndoOneSkips ==
    /\ pc = "undo" /\ i <= undo
    /\ i' = i + 1
    /\ UNCHANGED <<backends, held, pc, call, undo, ret, before, trouble, calls, faults>>

UndoOne ==
    /\ pc = "undo" /\ i <= undo
    /\ IF call.op = "Create"
       THEN open' = open \ {i} /\ UNCHANGED <<store, parts>>
       ELSE store' = [store EXCEPT ![i][call.to] = NoFile] /\ UNCHANGED <<open, parts>>
    /\ i' = i + 1
    /\ UNCHANGED <<held, pc, call, undo, ret, before, trouble, calls, faults>>

UndoOneFails ==
    /\ pc = "undo" /\ i <= undo
    /\ Fault("undo")
    /\ i' = i + 1
    /\ UNCHANGED <<backends, held, pc, call, undo, ret, before, calls>>

UndoDone ==
    /\ pc = "undo" /\ i > undo
    /\ Return("error")
    /\ UNCHANGED <<backends, held, call, i, undo, before, trouble, calls, faults>>

-----------------------------------------------------------------------------
(* DeleteFile, and the second half of Move: the first error is returned. *)

DeleteName == IF call.op = "Move" THEN call.from ELSE call.path
Deleting == Running("DeleteFile") \/ (pc = "delete" /\ i <= N)

DeleteOne ==
    /\ Deleting
    /\ store[i][DeleteName] # NoFile
    /\ store' = [store EXCEPT ![i][DeleteName] = NoFile]
    /\ Onwards
    /\ UNCHANGED <<open, parts>>

DeleteOneFails ==
    /\ Deleting
    /\ IF store[i][DeleteName] = NoFile THEN UNCHANGED <<trouble, faults>> ELSE Fault("backend")
    /\ Return("error")
    /\ UNCHANGED <<backends, held, call, i, undo, before, calls>>

\* The copies are all made: Move goes on to the sources.
CopiesDone ==
    /\ pc = "run" /\ i > N
    /\ call.op = "Move"
    /\ pc' = "delete" /\ i' = 1
    /\ UNCHANGED <<backends, held, call, undo, ret, before, trouble, calls, faults>>

-----------------------------------------------------------------------------
(* The multipart upload *)

CreateOne ==
    /\ Running("Create")
    /\ open' = open \cup {i}
    /\ Onwards
    /\ UNCHANGED <<store, parts>>

CreateOneFails ==
    /\ Running("Create")
    /\ Fault("backend")
    /\ Rollback(i - 1)
    /\ UNCHANGED <<backends, held, call, before, calls>>

UploadOne ==
    /\ Running("Upload")
    /\ parts' = [parts EXCEPT ![i][call.k] = ChunkData[call.k]]
    /\ Onwards
    /\ UNCHANGED <<store, open>>

\* There is no rollback.  A spool that cannot be closed is an error too.
UploadOneFails ==
    /\ Running("Upload")
    /\ \/ Fault("backend") /\ UNCHANGED parts
       \/ Fault("close") /\ parts' = [parts EXCEPT ![i][call.k] = ChunkData[call.k]]
       \/ Fault("torn") /\ parts' = [parts EXCEPT ![i][call.k] = <<>>]
    /\ Return("error")
    /\ UNCHANGED <<store, open, held, call, i, undo, before, calls>>

Forget(s) ==
    /\ open' = open \ {s}
    /\ parts' = [parts EXCEPT ![s] = [k \in Numbers |-> NoFile]]

CompleteOne ==
    /\ Running("Complete")
    /\ i \in open
    /\ store' = [store EXCEPT ![i][UploadPath] = Joined(parts[i], call.list)]
    /\ Forget(i)
    /\ Onwards

\* A backend that has completed the upload knows it no longer.
CompleteOneFails ==
    /\ Running("Complete")
    /\ IF i \in open THEN Fault("backend") ELSE UNCHANGED <<trouble, faults>>
    /\ Return("error")
    /\ UNCHANGED <<backends, held, call, i, undo, before, calls>>

AbortOne ==
    /\ Running("Abort")
    /\ Forget(i)
    /\ Onwards
    /\ UNCHANGED store

\* The abort goes on with the other backends, and reports the error.
AbortOneFails ==
    /\ Running("Abort")
    /\ Fault("backend")
    /\ i' = i + 1
    /\ UNCHANGED <<backends, held, pc, call, undo, ret, before, calls>>

-----------------------------------------------------------------------------
\* Mutant: the errors of an abort are not joined.
AllDoneOk ==
    /\ pc \in {"run", "delete"} /\ i > N
    /\ pc = "run" => call.op # "Move"
    /\ Return("ok")
    /\ UNCHANGED <<backends, held, call, i, undo, before, trouble, calls, faults>>

\* Every backend has done its part.
AllDone ==
    /\ pc \in {"run", "delete"} /\ i > N
    /\ pc = "run" => call.op # "Move"
    /\ Return(IF call.op = "Abort" /\ trouble # {} THEN "error" ELSE "ok")
    /\ held' = CASE call.op = "Upload" -> held \cup {call.k}
                 [] call.op \in {"Complete", "Abort"} /\ trouble = {} -> {}
                 [] OTHER -> held
    /\ UNCHANGED <<backends, call, i, undo, before, trouble, calls, faults>>

SyncNext ==
    \/ \E p \in Paths, data \in Contents : Write(p, data)
    \/ \E p, q \in Paths : Copy(p, q) \/ Move(p, q)
    \/ \E p \in Paths : DeleteFile(p)
    \/ CreateMultipartUpload \/ AbortMultipartUpload
    \/ \E k \in Numbers : UploadMultipartChunk(k)
    \/ \E list \in Orders : CompleteMultipartUpload(list)
    \/ WriteOne \/ WriteOneFails \/ OpenSpoolFails \/ CloseSpoolFails
    \/ CopyOne \/ CopyOneFails \/ CopiesDone
    \/ DeleteOne \/ DeleteOneFails
    \/ CreateOne \/ CreateOneFails \/ UploadOne \/ UploadOneFails
    \/ CompleteOne \/ CompleteOneFails \/ AbortOne \/ AbortOneFails
    \/ UndoOne \/ UndoOneFails \/ UndoDone
    \/ AllDone

-----------------------------------------------------------------------------
(* What the reading operations answer while the backends in down fail. *)

FileExists(p) == \A s \in Storages : store[s][p] # NoFile

Serving(p, down) == {s \in Storages \ down : store[s][p] # NoFile}
ReadFile(p, down) ==
    IF Serving(p, down) = {} THEN NoFile
    ELSE store[CHOOSE s \in Serving(p, down) : \A t \in Serving(p, down) : s <= t][p]

EveryReader(p, answer) ==
    \A down \in SUBSET Storages : down # Storages => ReadFile(p, down) = answer

-----------------------------------------------------------------------------
Returned(op) == pc = "idle" /\ call # NoCall /\ call.op = op

(* A nil error means that it is done everywhere: whichever backends fail   *)
(* from then on, as long as one is left, ReadFile gives what was written,  *)
(* copied, moved or uploaded, and a file that was deleted is nowhere       *)
(* (sync.go:109-145, 213-227, 245-251, 399-420).                           *)
NilMeansEverywhere ==
    ret = "ok" =>
        /\ Returned("Write") => EveryReader(call.to, call.data)
        /\ Returned("Copy") \/ Returned("Move") => \A s \in Storages :
              /\ before[s][call.from] # NoFile
              /\ store[s][call.to] = before[s][call.from]
        /\ Returned("Move") => EveryReader(call.from, NoFile)
        /\ Returned("DeleteFile") => EveryReader(call.path, NoFile)
        /\ Returned("Complete") =>
              EveryReader(UploadPath, Joined(ChunkData, call.list)) /\ open = {}
        /\ Returned("Abort") => open = {}

(* What is left when one backend failed cleanly and the rollback found no  *)
(* trouble of its own (sync.go:118-140, 214-222): a name that was free is  *)
(* free again on all of them, unless a Move had made all of its copies;    *)
(* and an object that every backend had may be gone from those the new one *)
(* came to before, but the old one can still be read.                      *)
FailureIsUndone ==
    ret = "error" /\ trouble \subseteq {"backend"} =>
        /\ Returned("Write") \/ Returned("Copy") \/ Returned("Move") =>
              \A s \in Storages : before[s][call.to] = NoFile =>
                  \/ store[s][call.to] = NoFile
                  \/ /\ call.op = "Move"
                     /\ \A t \in Storages : store[t][call.to] = before[t][call.from]
        /\ Returned("Create") => open = {}
        /\ Returned("Write") \/ Returned("Copy") =>
              \A old \in Objects :
                  (\A s \in Storages : before[s][call.to] = old) => ReadFile(call.to, {}) = old

(* "delete the sources only after all copies succeed" (sync.go:237-240): a *)
(* Move never takes the source from one backend before every backend has   *)
(* the copy, so that a Move that fails loses nothing anywhere.             *)
MoveLosesNothing ==
    call # NoCall /\ call.op = "Move" =>
        \/ \A s \in Storages : store[s][call.from] = before[s][call.from]
        \/ \A s \in Storages : /\ before[s][call.from] # NoFile
                               /\ store[s][call.to] = before[s][call.from]
=============================================================================
