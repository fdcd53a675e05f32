--------------------------- MODULE StoragesProofs ---------------------------
(***************************************************************************)
(* Proofs about the two storages that MCStorages runs.                     *)
(*                                                                         *)
(* The replicated storage: what a nil error promises (NilMeansEverywhere), *)
(* what a failure leaves (FailureIsUndone) and what a Move may take away   *)
(* (MoveLosesNothing), for any number of backends, any paths, contents and *)
(* chunks, and any number of calls and faults.                             *)
(*                                                                         *)
(* The storage over a bucket: an uploaded chunk stays until its upload is  *)
(* completed or given up (ChunksSurvive), an object is never torn          *)
(* (WholeObjects), and a call that answers nil has done what it was asked  *)
(* (NilMeansDone), for any callers, names, uploads, lists of chunks and    *)
(* attempts.                                                               *)
(***************************************************************************)
EXTENDS SyncStorage, ObjectStorage, TLAPS, WellFoundedInduction, SequenceTheorems

(* The replicated storage alone. *)
SyncSpec == SyncInit /\ [][SyncNext]_syncVars

-----------------------------------------------------------------------------
(* The inductive invariant of the replicated storage. *)

Files == Objects \cup {NoFile}
Ops == {"Write", "Copy", "Move", "DeleteFile", "Create", "Upload", "Complete", "Abort"}

(* The call under way was given arguments of its kind. *)
CallInv ==
    pc # "idle" =>
        /\ call.op \in Ops
        /\ call.op \in {"Write", "Copy", "Move"} => call.to \in Paths
        /\ call.op = "Write" => call.data \in Contents
        /\ call.op \in {"Copy", "Move"} => call.from \in Paths
        /\ call.op = "Move" => call.from # call.to
        /\ call.op = "DeleteFile" => call.path \in Paths
        /\ call.op = "Upload" => call.k \in Numbers
        /\ call.op = "Complete" => call.list \in Orders
        /\ pc = "undo" => call.op \in {"Write", "Copy", "Move", "Create"}
        /\ pc = "delete" => call.op = "Move"

PartTypes == [Storages -> [Numbers -> {NoFile} \cup {<<>>} \cup Range(ChunkData)]]

(* A chunk that the caller holds is whole on every backend that knows the upload. *)
ChunkInv ==
    /\ parts \in PartTypes
    /\ \A k \in held, s \in open : parts[s][k] = ChunkData[k]
    /\ pc = "run" /\ call.op = "Create" => held = {}
    /\ pc = "run" /\ call.op = "Upload" =>
          /\ open = Storages /\ call.k \notin held
          /\ \A s \in Storages : s < i => parts[s][call.k] = ChunkData[call.k]
    /\ pc = "run" /\ call.op = "Complete" => Range(call.list) \subseteq held

Unchanged(s, p) == store[s][p] = before[s][p]

(* How far a call has come: what it has done on the backends before the one it is at. *)
RunInv ==
    pc = "run" => \A s \in Storages :
        /\ call.op = "Write" =>
              /\ s < i => store[s][call.to] = call.data
              /\ \A p \in Paths : s >= i \/ p # call.to => Unchanged(s, p)
        /\ call.op \in {"Copy", "Move"} =>
              /\ s < i => before[s][call.from] # NoFile /\ store[s][call.to] = before[s][call.from]
              /\ \A p \in Paths : s >= i \/ p # call.to => Unchanged(s, p)
        /\ call.op = "DeleteFile" /\ s < i => store[s][call.path] = NoFile
        /\ call.op = "Create" /\ s \in open => s < i
        /\ call.op = "Complete" /\ s < i =>
              store[s][UploadPath] = Joined(ChunkData, call.list) /\ s \notin open
        /\ call.op = "Abort" /\ s < i => s \notin open \/ trouble # {}

(* The second half of Move: every backend has the copy. *)
DeleteInv ==
    pc = "delete" => \A s \in Storages :
        /\ before[s][call.from] # NoFile /\ store[s][call.to] = before[s][call.from]
        /\ s < i => store[s][call.from] = NoFile

(* The rollback has removed the name from the backends it has come to, if nothing but the    *)
(* first fault went wrong, and the backends after the last it goes to are as they were: the  *)
(* last backend of all is one of them.                                                       *)
Clean == trouble \subseteq {"backend"}
UndoInv ==
    pc = "undo" =>
        /\ call.op # "Create" =>
              \A s \in Storages, p \in Paths : p # call.to => Unchanged(s, p)
        /\ call.op # "Create" /\ Clean =>
              /\ undo < N
              /\ \A s \in Storages : /\ s > undo => Unchanged(s, call.to)
                                     /\ s <= undo /\ s < i => store[s][call.to] = NoFile
        /\ call.op = "Create" /\ Clean => \A s \in open : i <= s /\ s <= undo

StateInv ==
    /\ store \in [Storages -> [Paths -> Files]]
    /\ open \subseteq Storages /\ held \subseteq Numbers
    /\ pc \in {"idle", "run", "undo", "delete"}
    /\ i \in 1 .. N + 1 /\ undo \in 0 .. N

(* What a call that has returned leaves on the backends. *)
Over == pc = "idle" /\ call # NoCall

EveryCopy == \A s \in Storages : before[s][call.from] # NoFile /\ store[s][call.to] = before[s][call.from]

NilInv ==
    Over /\ ret = "ok" =>
        /\ call.op = "Write" => \A s \in Storages : store[s][call.to] = call.data
        /\ call.op \in {"Copy", "Move"} => EveryCopy
        /\ call.op = "Move" => \A s \in Storages : store[s][call.from] = NoFile
        /\ call.op = "DeleteFile" => \A s \in Storages : store[s][call.path] = NoFile
        /\ call.op = "Complete" =>
              /\ \A s \in Storages : store[s][UploadPath] = Joined(ChunkData, call.list)
              /\ open = {}
        /\ call.op = "Abort" => open = {}

RolledBack(last) ==
    \A s \in Storages : IF s > last THEN Unchanged(s, call.to) ELSE store[s][call.to] = NoFile

FailInv ==
    Over /\ ret = "error" /\ Clean =>
        /\ call.op \in {"Write", "Copy"} => \E last \in 0 .. N - 1 : RolledBack(last)
        /\ call.op = "Move" => EveryCopy \/ \E last \in 0 .. N - 1 : RolledBack(last)
        /\ call.op = "Create" => open = {}

SourcesUnchanged == \A s \in Storages : Unchanged(s, call.from)
MoveInv == Over /\ call.op = "Move" => SourcesUnchanged \/ EveryCopy

ResultInv == NilInv /\ FailInv /\ MoveInv

IInv == StateInv /\ CallInv /\ ChunkInv /\ RunInv /\ DeleteInv /\ UndoInv /\ ResultInv

-----------------------------------------------------------------------------
(* One object, or one chunk, of one backend *)

LEMMA PutEffect ==
    ASSUME store \in [Storages -> [Paths -> Files]],
           NEW s \in Storages, NEW p \in Paths, NEW file \in Files,
           store' = [store EXCEPT ![s][p] = file]
    PROVE  /\ store' \in [Storages -> [Paths -> Files]]
           /\ store'[s][p] = file
           /\ \A t \in Storages, q \in Paths : t # s \/ q # p => store'[t][q] = store[t][q]
OBVIOUS

LEMMA ChunkInRange == \A k \in Numbers : ChunkData[k] \in Range(ChunkData)
BY DEF Numbers, Range

LEMMA FilesInObjects ==
    /\ Contents \subseteq Files /\ <<>> \in Files /\ NoFile \in Files
    /\ \A list \in Orders : Joined(ChunkData, list) \in Files
BY DEF Files, Objects

LEMMA StorageNumbers == N \in Nat \ {0} /\ Storages \subseteq Nat /\ \A s \in Storages : s <= N
BY SyncAssumption DEF Storages

\* What is true of a call that is still under way.
LEMMA NotOver == pc' # "idle" => ResultInv'
BY DEF ResultInv, NilInv, FailInv, MoveInv, Over

-----------------------------------------------------------------------------
(* A call is made *)

LEMMA CallIInv ==
    ASSUME IInv, NEW c, Call(c),
           c.op \in Ops,
           c.op \in {"Write", "Copy", "Move"} => c.to \in Paths,
           c.op = "Write" => c.data \in Contents,
           c.op \in {"Copy", "Move"} => c.from \in Paths,
           c.op = "Move" => c.from # c.to,
           c.op = "DeleteFile" => c.path \in Paths,
           c.op = "Create" => open = {} /\ held = {},
           c.op = "Upload" => c.k \in Numbers /\ open = Storages /\ c.k \notin held,
           c.op = "Complete" => c.list \in Orders /\ Range(c.list) \subseteq held
    PROVE  IInv'
<1> USE DEF Call, backends
<1>1. StateInv'
  BY StorageNumbers DEF IInv, StateInv
<1>2. CallInv'
  BY DEF CallInv
<1>3. \A s \in Storages : ~(s < i') /\ s >= i'
  BY StorageNumbers DEF Storages
<1>4. ChunkInv'
  BY <1>3 DEF IInv, ChunkInv, Ops
<1>5. RunInv'
  BY <1>3 DEF RunInv, Unchanged, Ops
<1>6. DeleteInv' /\ UndoInv' /\ ResultInv'
  BY NotOver DEF DeleteInv, UndoInv
<1>7. QED
  BY <1>1, <1>2, <1>4, <1>5, <1>6 DEF IInv

LEMMA CallsIInv ==
    ASSUME IInv,
           \/ \E p \in Paths, data \in Contents : Write(p, data)
           \/ \E p, q \in Paths : Copy(p, q) \/ Move(p, q)
           \/ \E p \in Paths : DeleteFile(p)
           \/ CreateMultipartUpload \/ AbortMultipartUpload
           \/ \E k \in Numbers : UploadMultipartChunk(k)
           \/ \E list \in Orders : CompleteMultipartUpload(list)
    PROVE  IInv'
<1>1. ASSUME NEW p \in Paths, NEW data \in Contents, Write(p, data) PROVE IInv'
  BY <1>1, CallIInv DEF Write, Ops
<1>2. ASSUME NEW p \in Paths, NEW q \in Paths, Copy(p, q) PROVE IInv'
  BY <1>2, CallIInv DEF Copy, Ops
<1>3. ASSUME NEW p \in Paths, NEW q \in Paths, Move(p, q) PROVE IInv'
  BY <1>3, CallIInv DEF Move, Ops
<1>4. ASSUME NEW p \in Paths, DeleteFile(p) PROVE IInv'
  BY <1>4, CallIInv DEF DeleteFile, Ops
<1>5. CASE CreateMultipartUpload
  BY <1>5, CallIInv DEF CreateMultipartUpload, Ops
<1>6. CASE AbortMultipartUpload
  BY <1>6, CallIInv DEF AbortMultipartUpload, Ops
<1>7. ASSUME NEW k \in Numbers, UploadMultipartChunk(k) PROVE IInv'
  BY <1>7, CallIInv DEF UploadMultipartChunk, Ops
<1>8. ASSUME NEW list \in Orders, CompleteMultipartUpload(list) PROVE IInv'
  BY <1>8, CallIInv DEF CompleteMultipartUpload, Ops
<1>9. QED
  BY <1>1, <1>2, <1>3, <1>4, <1>5, <1>6, <1>7, <1>8

-----------------------------------------------------------------------------
(* Write and Copy *)

\* The object goes to the next backend.
LEMMA PutOneIInv ==
    ASSUME IInv, pc = "run", i <= N, call.op \in {"Write", "Copy", "Move"},
           NEW file \in Files,
           store' = [store EXCEPT ![i][call.to] = file],
           call.op = "Write" => file = call.data,
           call.op \in {"Copy", "Move"} => file = before[i][call.from] /\ file # NoFile,
           Onwards, UNCHANGED <<open, parts>>
    PROVE  IInv'
<1> USE DEF Onwards
<1>1. i \in Storages /\ call.to \in Paths /\ i + 1 \in 1 .. N + 1
  BY StorageNumbers DEF IInv, StateInv, CallInv, Storages
<1>2. /\ store' \in [Storages -> [Paths -> Files]]
      /\ store'[i][call.to] = file
      /\ \A t \in Storages, q \in Paths : t # i \/ q # call.to => store'[t][q] = store[t][q]
  BY <1>1, PutEffect DEF IInv, StateInv
<1>3. StateInv' /\ CallInv'
  BY <1>1, <1>2 DEF IInv, StateInv, CallInv
<1>4. ChunkInv'
  BY DEF IInv, ChunkInv
<1>5. \A s \in Storages : /\ s < i + 1 => s < i \/ s = i
                          /\ s >= i + 1 => s >= i /\ s # i
  BY <1>1 DEF Storages
<1>6. RunInv'
  BY <1>1, <1>2, <1>5 DEF IInv, RunInv, Unchanged
<1>7. DeleteInv' /\ UndoInv' /\ ResultInv'
  BY NotOver DEF DeleteInv, UndoInv
<1>8. QED
  BY <1>3, <1>4, <1>6, <1>7 DEF IInv

LEMMA WriteOneIInv ==
    ASSUME IInv, WriteOne
    PROVE  IInv'
BY PutOneIInv, FilesInObjects DEF WriteOne, Running, IInv, CallInv

LEMMA CopyOneIInv ==
    ASSUME IInv, CopyOne
    PROVE  IInv'
<1>1. /\ pc = "run" /\ i <= N /\ call.op \in {"Copy", "Move"}
      /\ store[i][call.from] # NoFile
      /\ store' = [store EXCEPT ![i][call.to] = store[i][call.from]]
  BY DEF CopyOne, Copying, Running
<1>2. i \in Storages /\ call.from \in Paths
  BY <1>1, StorageNumbers DEF IInv, StateInv, CallInv, Storages
<1>3. store[i][call.from] = before[i][call.from] /\ store[i][call.from] \in Files
  BY <1>1, <1>2 DEF IInv, RunInv, Unchanged, StateInv, Storages
<1>4. QED
  BY <1>1, <1>3, PutOneIInv DEF CopyOne

\* A backend fails, or the spool does once the object is written: the rollback begins, and
\* when the fault was clean it stops before the last backend.
LEMMA RollbackIInv ==
    ASSUME IInv, pc = "run", i <= N, call.op \in {"Write", "Copy", "Move"},
           store' \in [Storages -> [Paths -> Files]],
           \A s \in Storages, p \in Paths : p # call.to => store'[s][p] = store[s][p],
           NEW last \in {i - 1, i}, Rollback(last),
           Clean' => last = i - 1 /\ store' = store,
           UNCHANGED <<open, parts, held, call, before>>
    PROVE  IInv'
<1> USE DEF Rollback
<1>1. last \in 0 .. N /\ 1 \in 1 .. N + 1 /\ i \in 1 .. N
  BY StorageNumbers DEF IInv, StateInv
<1>2. StateInv' /\ CallInv'
  BY <1>1 DEF IInv, StateInv, CallInv
<1>3. ChunkInv'
  BY DEF IInv, ChunkInv
<1>4. \A s \in Storages : (s > i - 1 => s >= i) /\ ~(s < 1)
  BY <1>1 DEF Storages
<1>5. UndoInv'
  <2>1. \A s \in Storages, p \in Paths : p # call.to => Unchanged(s, p)
    BY DEF IInv, RunInv
  <2>2. \A s \in Storages : s >= i => Unchanged(s, call.to)
    BY DEF IInv, RunInv, CallInv
  <2>3. i - 1 < N
    BY <1>1, StorageNumbers
  <2>4. QED
    BY <1>4, <2>1, <2>2, <2>3 DEF UndoInv, Unchanged
<1>6. RunInv' /\ DeleteInv' /\ ResultInv'
  BY NotOver DEF RunInv, DeleteInv
<1>7. QED
  BY <1>2, <1>3, <1>5, <1>6 DEF IInv

LEMMA WriteOneFailsIInv ==
    ASSUME IInv, WriteOneFails
    PROVE  IInv'
<1> USE DEF WriteOneFails, Running
<1>1. i \in Storages /\ call.to \in Paths /\ store \in [Storages -> [Paths -> Files]]
  BY StorageNumbers DEF IInv, StateInv, CallInv, Storages
<1>2. CASE Fault("backend") /\ UNCHANGED store
  BY <1>1, <1>2, RollbackIInv
<1>3. CASE Fault("torn") /\ store' = [store EXCEPT ![i][call.to] = <<>>]
  <2>1. /\ store' \in [Storages -> [Paths -> Files]]
        /\ \A t \in Storages, q \in Paths : q # call.to => store'[t][q] = store[t][q]
    BY <1>1, <1>3, PutEffect, FilesInObjects
  <2>2. ~Clean'
    BY <1>3 DEF Fault, Clean
  <2>3. QED
    BY <2>1, <2>2, RollbackIInv
<1>4. QED
  BY <1>2, <1>3

LEMMA CloseSpoolFailsIInv ==
    ASSUME IInv, CloseSpoolFails
    PROVE  IInv'
<1> USE DEF CloseSpoolFails, Running
<1>1. /\ i \in Storages /\ call.to \in Paths /\ call.data \in Files
      /\ store \in [Storages -> [Paths -> Files]]
  BY StorageNumbers, FilesInObjects DEF IInv, StateInv, CallInv, Storages
<1>2. /\ store' \in [Storages -> [Paths -> Files]]
      /\ \A t \in Storages, q \in Paths : q # call.to => store'[t][q] = store[t][q]
  BY <1>1, PutEffect
<1>3. ~Clean'
  BY DEF Fault, Clean
<1>4. QED
  BY <1>2, <1>3, RollbackIInv

LEMMA CopyOneFailsIInv ==
    ASSUME IInv, CopyOneFails
    PROVE  IInv'
<1>1. pc = "run" /\ i <= N /\ call.op \in {"Copy", "Move"}
  BY DEF CopyOneFails, Copying, Running
<1>2. store \in [Storages -> [Paths -> Files]]
  BY DEF IInv, StateInv
<1>3. QED
  BY <1>1, <1>2, RollbackIInv DEF CopyOneFails, backends

-----------------------------------------------------------------------------
(* Calls that return *)

LEMMA ReturnIInv ==
    ASSUME pc' = "idle", StateInv', ChunkInv', ResultInv'
    PROVE  IInv'
BY DEF IInv, CallInv, RunInv, DeleteInv, UndoInv

\* An error that leaves the backends as they are.
LEMMA ErrorIInv ==
    ASSUME IInv, Return("error"), UNCHANGED <<backends, held, call, i, undo, before>>,
           call.op = "Move" => SourcesUnchanged \/ EveryCopy,
           Clean' => /\ call.op \in {"Write", "Copy"} => \E last \in 0 .. N - 1 : RolledBack(last)
                     /\ call.op = "Move" => EveryCopy \/ \E last \in 0 .. N - 1 : RolledBack(last)
                     /\ call.op = "Create" => open = {}
    PROVE  IInv'
<1> USE DEF Return, backends
<1>1. StateInv' /\ ChunkInv'
  BY DEF IInv, StateInv, ChunkInv
<1>2. NilInv'
  BY DEF NilInv
<1>3. FailInv'
  BY DEF FailInv, EveryCopy, RolledBack, Unchanged
<1>4. MoveInv'
  BY DEF MoveInv, SourcesUnchanged, EveryCopy, Unchanged
<1>5. QED
  BY <1>1, <1>2, <1>3, <1>4, ReturnIInv DEF ResultInv

LEMMA OpenSpoolFailsIInv ==
    ASSUME IInv, OpenSpoolFails
    PROVE  IInv'
<1>1. call.op \in {"Write", "Upload"} /\ ~Clean'
  BY DEF OpenSpoolFails, Running, Fault, Clean
<1>2. QED
  BY <1>1, ErrorIInv DEF OpenSpoolFails

-----------------------------------------------------------------------------
(* The rollback *)

LEMMA UndoOneIInv ==
    ASSUME IInv, UndoOne
    PROVE  IInv'
<1> USE DEF UndoOne
<1>1. /\ pc = "undo" /\ i \in Storages /\ i \in Nat /\ i <= undo /\ undo <= N
      /\ i + 1 \in 1 .. N + 1
      /\ call.op \in {"Write", "Copy", "Move", "Create"}
  BY StorageNumbers DEF IInv, StateInv, CallInv, Storages
<1>2. \A s \in Storages : s < i + 1 => s < i \/ s = i
  BY <1>1 DEF Storages
<1>3. CallInv' /\ RunInv' /\ DeleteInv' /\ ResultInv'
  BY <1>1, NotOver DEF IInv, CallInv, RunInv, DeleteInv
<1>4. CASE call.op = "Create"
  <2>1. open' = open \ {i} /\ UNCHANGED <<store, parts>>
    BY <1>4
  <2>2. StateInv'
    BY <1>1, <2>1 DEF IInv, StateInv
  <2>3. ChunkInv'
    BY <1>1, <2>1 DEF IInv, ChunkInv
  <2>4. \A s \in Storages : i <= s /\ s # i => i + 1 <= s
    BY <1>1 DEF Storages
  <2>5. UndoInv'
    BY <1>1, <1>4, <2>1, <2>4 DEF IInv, StateInv, UndoInv, Clean
  <2>6. QED
    BY <1>3, <2>2, <2>3, <2>5 DEF IInv
<1>5. CASE call.op # "Create"
  <2>1. store' = [store EXCEPT ![i][call.to] = NoFile] /\ UNCHANGED <<open, parts>>
    BY <1>5
  <2>2. call.to \in Paths
    BY <1>1, <1>5 DEF IInv, CallInv
  <2>3. /\ store' \in [Storages -> [Paths -> Files]]
        /\ store'[i][call.to] = NoFile
        /\ \A t \in Storages, q \in Paths : t # i \/ q # call.to => store'[t][q] = store[t][q]
    BY <1>1, <2>1, <2>2, PutEffect, FilesInObjects DEF IInv, StateInv
  <2>4. StateInv'
    BY <1>1, <2>1, <2>3 DEF IInv, StateInv
  <2>5. ChunkInv'
    BY <1>1, <2>1 DEF IInv, ChunkInv
  <2>6. \A s \in Storages : s > undo => s # i
    BY <1>1 DEF Storages, IInv, StateInv
  <2>7. UndoInv'
    BY <1>1, <1>2, <1>5, <2>2, <2>3, <2>6 DEF IInv, UndoInv, Unchanged, Clean
  <2>8. QED
    BY <1>3, <2>4, <2>5, <2>7 DEF IInv
<1>6. QED
  BY <1>4, <1>5

LEMMA UndoOneFailsIInv ==
    ASSUME IInv, UndoOneFails
    PROVE  IInv'
<1> USE DEF UndoOneFails, backends
<1>1. ~Clean'
  BY DEF Fault, Clean
<1>2. pc = "undo" /\ i + 1 \in 1 .. N + 1
  BY StorageNumbers DEF IInv, StateInv
<1>3. StateInv' /\ CallInv' /\ ChunkInv'
  BY <1>2 DEF IInv, StateInv, CallInv, ChunkInv
<1>4. UndoInv'
  BY <1>1, <1>2 DEF IInv, UndoInv, Unchanged
<1>5. RunInv' /\ DeleteInv' /\ ResultInv'
  BY <1>2, NotOver DEF RunInv, DeleteInv
<1>6. QED
  BY <1>3, <1>4, <1>5 DEF IInv

LEMMA UndoDoneIInv ==
    ASSUME IInv, UndoDone
    PROVE  IInv'
<1> USE DEF UndoDone
<1>1. /\ pc = "undo" /\ i > undo /\ i \in Nat /\ undo \in Nat
      /\ call.op \in {"Write", "Copy", "Move", "Create"}
  BY StorageNumbers DEF IInv, StateInv, CallInv
<1>2. \A s \in Storages : (s <= undo => s < i) /\ ~(i <= s /\ s <= undo) /\ (s > undo \/ s <= undo)
  BY <1>1 DEF Storages
<1>3. call.op = "Move" => SourcesUnchanged
  BY <1>1 DEF IInv, CallInv, UndoInv, SourcesUnchanged
<1>4. ASSUME Clean, call.op # "Create" PROVE \E last \in 0 .. N - 1 : RolledBack(last)
  <2>1. undo \in 0 .. N - 1
    BY <1>1, <1>4, StorageNumbers DEF IInv, UndoInv
  <2>2. RolledBack(undo)
    BY <1>1, <1>2, <1>4 DEF IInv, UndoInv, RolledBack
  <2>3. QED
    BY <2>1, <2>2
<1>5. Clean /\ call.op = "Create" => open = {}
  BY <1>1, <1>2 DEF IInv, StateInv, UndoInv
<1>6. QED
  BY <1>1, <1>3, <1>4, <1>5, ErrorIInv DEF Clean

-----------------------------------------------------------------------------
(* Deletions *)

LEMMA CopiesDoneIInv ==
    ASSUME IInv, CopiesDone
    PROVE  IInv'
<1> USE DEF CopiesDone, backends
<1>1. pc = "run" /\ call.op = "Move" /\ i = N + 1 /\ N \in Nat
  BY StorageNumbers DEF IInv, StateInv
<1>2. \A s \in Storages : s < i /\ ~(s < 1)
  BY <1>1 DEF Storages
<1>3. StateInv' /\ CallInv' /\ ChunkInv'
  BY <1>1 DEF IInv, StateInv, CallInv, ChunkInv
<1>4. DeleteInv'
  BY <1>1, <1>2 DEF IInv, RunInv, DeleteInv
<1>5. RunInv' /\ UndoInv' /\ ResultInv'
  BY NotOver DEF RunInv, UndoInv
<1>6. QED
  BY <1>3, <1>4, <1>5 DEF IInv

LEMMA DeleteOneIInv ==
    ASSUME IInv, DeleteOne
    PROVE  IInv'
<1> USE DEF DeleteOne, Onwards
<1>1. /\ i \in Storages /\ DeleteName \in Paths /\ i + 1 \in 1 .. N + 1
      /\ \/ pc = "run" /\ call.op = "DeleteFile" /\ DeleteName = call.path
         \/ pc = "delete" /\ call.op = "Move" /\ DeleteName = call.from
      /\ pc' = pc /\ call' = call
  BY StorageNumbers DEF IInv, StateInv, CallInv, Storages, Deleting, Running, DeleteName
<1>2. /\ store' \in [Storages -> [Paths -> Files]]
      /\ store'[i][DeleteName] = NoFile
      /\ \A t \in Storages, q \in Paths : t # i \/ q # DeleteName => store'[t][q] = store[t][q]
  BY <1>1, PutEffect, FilesInObjects DEF IInv, StateInv
<1>3. StateInv' /\ CallInv' /\ ChunkInv'
  BY <1>1, <1>2 DEF IInv, StateInv, CallInv, ChunkInv
<1>4. \A s \in Storages : s < i + 1 => s < i \/ s = i
  BY <1>1 DEF Storages
<1>5. RunInv'
  BY <1>1, <1>2, <1>4 DEF IInv, RunInv
<1>6. DeleteInv'
  <2> SUFFICES ASSUME pc = "delete", NEW s \in Storages
               PROVE  /\ before[s][call.from] # NoFile /\ store'[s][call.to] = before[s][call.from]
                      /\ s < i + 1 => store'[s][call.from] = NoFile
    BY <1>1 DEF DeleteInv
  <2>1. call.from # call.to /\ call.to \in Paths /\ DeleteName = call.from
    BY <1>1 DEF IInv, CallInv
  <2>2. QED
    BY <1>1, <1>2, <1>4, <2>1 DEF IInv, DeleteInv
<1>7. UndoInv' /\ ResultInv'
  BY <1>1, NotOver DEF UndoInv
<1>8. QED
  BY <1>3, <1>5, <1>6, <1>7 DEF IInv

LEMMA DeleteOneFailsIInv ==
    ASSUME IInv, DeleteOneFails
    PROVE  IInv'
<1>1. \/ pc = "run" /\ call.op = "DeleteFile"
      \/ pc = "delete" /\ call.op = "Move"
  BY DEF IInv, CallInv, DeleteOneFails, Deleting, Running
<1>2. call.op = "Move" => EveryCopy
  BY <1>1 DEF IInv, DeleteInv, EveryCopy
<1>3. QED
  BY <1>1, <1>2, ErrorIInv DEF DeleteOneFails

-----------------------------------------------------------------------------
(* The multipart upload *)

LEMMA CreateOneIInv ==
    ASSUME IInv, CreateOne
    PROVE  IInv'
<1> USE DEF CreateOne, Running, Onwards
<1>1. i \in Storages /\ i + 1 \in 1 .. N + 1 /\ i \in Nat
  BY StorageNumbers DEF IInv, StateInv, Storages
<1>2. StateInv' /\ CallInv' /\ ChunkInv'
  BY <1>1 DEF IInv, StateInv, CallInv, ChunkInv
<1>3. \A s \in Storages : s < i \/ s = i => s < i + 1
  BY <1>1 DEF Storages
<1>4. RunInv'
  BY <1>1, <1>3 DEF IInv, RunInv
<1>5. DeleteInv' /\ UndoInv' /\ ResultInv'
  BY NotOver DEF DeleteInv, UndoInv
<1>6. QED
  BY <1>2, <1>4, <1>5 DEF IInv

LEMMA CreateOneFailsIInv ==
    ASSUME IInv, CreateOneFails
    PROVE  IInv'
<1> USE DEF CreateOneFails, Running, Rollback, backends
<1>1. i \in 1 .. N /\ i - 1 \in 0 .. N /\ 1 \in 1 .. N + 1
  BY StorageNumbers DEF IInv, StateInv
<1>2. StateInv' /\ CallInv' /\ ChunkInv'
  BY <1>1 DEF IInv, StateInv, CallInv, ChunkInv
<1>3. \A s \in Storages : s < i => 1 <= s /\ s <= i - 1
  BY <1>1 DEF Storages
<1>4. UndoInv'
  BY <1>1, <1>3 DEF IInv, StateInv, RunInv, UndoInv
<1>5. RunInv' /\ DeleteInv' /\ ResultInv'
  BY NotOver DEF RunInv, DeleteInv
<1>6. QED
  BY <1>2, <1>4, <1>5 DEF IInv

LEMMA UploadOneIInv ==
    ASSUME IInv, UploadOne
    PROVE  IInv'
<1> USE DEF UploadOne, Running, Onwards
<1>1. i \in Storages /\ i + 1 \in 1 .. N + 1 /\ call.k \in Numbers
  BY StorageNumbers DEF IInv, StateInv, CallInv, Storages
<1>parts. parts \in PartTypes /\ ChunkData[call.k] \in Range(ChunkData)
  BY <1>1, ChunkInRange DEF IInv, ChunkInv
<1>2. /\ parts' \in PartTypes
      /\ parts'[i][call.k] = ChunkData[call.k]
      /\ \A t \in Storages, l \in Numbers : t # i \/ l # call.k => parts'[t][l] = parts[t][l]
  BY <1>1, <1>parts DEF PartTypes
<1>3. StateInv' /\ CallInv'
  BY <1>1 DEF IInv, StateInv, CallInv
<1>4. \A s \in Storages : s < i + 1 => s < i \/ s = i
  BY <1>1 DEF Storages
<1>5. ChunkInv'
  BY <1>1, <1>2, <1>4 DEF IInv, StateInv, ChunkInv
<1>6. RunInv' /\ DeleteInv' /\ UndoInv' /\ ResultInv'
  BY NotOver DEF RunInv, DeleteInv, UndoInv
<1>7. QED
  BY <1>3, <1>5, <1>6 DEF IInv

LEMMA UploadOneFailsIInv ==
    ASSUME IInv, UploadOneFails
    PROVE  IInv'
<1> USE DEF UploadOneFails, Running, Return
<1>1. i \in Storages /\ call.k \in Numbers
  BY StorageNumbers DEF IInv, StateInv, CallInv, Storages
<1>parts. parts \in PartTypes /\ ChunkData[call.k] \in Range(ChunkData)
  BY <1>1, ChunkInRange DEF IInv, ChunkInv
<1>2. /\ parts' \in PartTypes
      /\ \A t \in Storages, l \in Numbers : l # call.k => parts'[t][l] = parts[t][l]
  <2>1. CASE UNCHANGED parts
    BY <1>parts, <2>1
  <2>2. CASE parts' = [parts EXCEPT ![i][call.k] = ChunkData[call.k]]
    BY <1>1, <1>parts, <2>2 DEF PartTypes
  <2>3. CASE parts' = [parts EXCEPT ![i][call.k] = <<>>]
    BY <1>1, <1>parts, <2>3 DEF PartTypes
  <2>4. QED
    BY <2>1, <2>2, <2>3
<1>3. StateInv'
  BY DEF IInv, StateInv
<1>4. ChunkInv'
  BY <1>2 DEF IInv, StateInv, ChunkInv
<1>5. ResultInv'
  BY DEF ResultInv, NilInv, FailInv, MoveInv
<1>6. QED
  BY <1>3, <1>4, <1>5, ReturnIInv

\* Completed or aborted: the backend knows the upload no longer.
LEMMA ForgetEffect ==
    ASSUME IInv, NEW s \in Storages, Forget(s), UNCHANGED held,
           pc = "run", pc' = pc, call' = call, call.op \in {"Complete", "Abort"}
    PROVE  /\ open' \subseteq open /\ s \notin open'
           /\ ChunkInv'
<1> USE DEF Forget
<1>1. open' \subseteq open /\ s \notin open'
  OBVIOUS
<1>2. /\ parts' \in PartTypes
      /\ \A t \in Storages : t # s => parts'[t] = parts[t]
  BY DEF IInv, ChunkInv, PartTypes
<1>3. QED
  BY <1>1, <1>2 DEF IInv, StateInv, ChunkInv

LEMMA CompleteOneIInv ==
    ASSUME IInv, CompleteOne
    PROVE  IInv'
<1> USE DEF CompleteOne, Running, Onwards
<1>1. i \in Storages /\ i + 1 \in 1 .. N + 1 /\ call.list \in Orders /\ UploadPath \in Paths
  BY StorageNumbers, SyncAssumption DEF IInv, StateInv, CallInv, Storages
<1>2. Joined(parts[i], call.list) = Joined(ChunkData, call.list)
  <2>1. \A j \in DOMAIN call.list : call.list[j] \in held
    BY DEF IInv, ChunkInv, Range
  <2>2. \A j \in DOMAIN call.list : parts[i][call.list[j]] = ChunkData[call.list[j]]
    BY <2>1 DEF IInv, ChunkInv
  <2>3. [j \in DOMAIN call.list |-> parts[i][call.list[j]]]
          = [j \in DOMAIN call.list |-> ChunkData[call.list[j]]]
    BY <2>2
  <2>4. QED
    BY <2>3 DEF Joined
<1>3. /\ store' \in [Storages -> [Paths -> Files]]
      /\ store'[i][UploadPath] = Joined(ChunkData, call.list)
      /\ \A t \in Storages, q \in Paths : t # i \/ q # UploadPath => store'[t][q] = store[t][q]
  BY <1>1, <1>2, PutEffect, FilesInObjects DEF IInv, StateInv
<1>4. open' \subseteq open /\ i \notin open' /\ ChunkInv'
  BY <1>1, ForgetEffect
<1>5. StateInv' /\ CallInv'
  BY <1>1, <1>3, <1>4 DEF IInv, StateInv, CallInv
<1>6. \A s \in Storages : s < i + 1 => s < i \/ s = i
  BY <1>1 DEF Storages
<1>7. RunInv'
  BY <1>1, <1>3, <1>4, <1>6 DEF IInv, RunInv
<1>8. DeleteInv' /\ UndoInv' /\ ResultInv'
  BY NotOver DEF DeleteInv, UndoInv
<1>9. QED
  BY <1>4, <1>5, <1>7, <1>8 DEF IInv

LEMMA CompleteOneFailsIInv ==
    ASSUME IInv, CompleteOneFails
    PROVE  IInv'
<1>1. call.op = "Complete"
  BY DEF CompleteOneFails, Running
<1>2. QED
  BY <1>1, ErrorIInv DEF CompleteOneFails

LEMMA AbortOneIInv ==
    ASSUME IInv, AbortOne
    PROVE  IInv'
<1> USE DEF AbortOne, Running, Onwards
<1>1. i \in Storages /\ i + 1 \in 1 .. N + 1
  BY StorageNumbers DEF IInv, StateInv, Storages
<1>2. open' \subseteq open /\ i \notin open' /\ ChunkInv'
  BY <1>1, ForgetEffect
<1>3. StateInv' /\ CallInv'
  BY <1>1, <1>2 DEF IInv, StateInv, CallInv
<1>4. \A s \in Storages : s < i + 1 => s < i \/ s = i
  BY <1>1 DEF Storages
<1>5. RunInv'
  BY <1>2, <1>4 DEF IInv, RunInv
<1>6. DeleteInv' /\ UndoInv' /\ ResultInv'
  BY NotOver DEF DeleteInv, UndoInv
<1>7. QED
  BY <1>2, <1>3, <1>5, <1>6 DEF IInv

LEMMA AbortOneFailsIInv ==
    ASSUME IInv, AbortOneFails
    PROVE  IInv'
<1> USE DEF AbortOneFails, Running, Fault, backends
<1>1. i + 1 \in 1 .. N + 1
  BY StorageNumbers DEF IInv, StateInv
<1>2. StateInv' /\ CallInv' /\ ChunkInv'
  BY <1>1 DEF IInv, StateInv, CallInv, ChunkInv
<1>3. RunInv'
  BY DEF RunInv
<1>4. DeleteInv' /\ UndoInv' /\ ResultInv'
  BY NotOver DEF DeleteInv, UndoInv
<1>5. QED
  BY <1>2, <1>3, <1>4 DEF IInv

\* Every backend has been gone through.
LEMMA AllDoneIInv ==
    ASSUME IInv, AllDone
    PROVE  IInv'
<1> USE DEF AllDone, Return, backends
<1>1. i = N + 1 /\ call.op \in Ops /\ (pc = "delete" => call.op = "Move")
  BY StorageNumbers DEF IInv, StateInv, CallInv
<1>2. \A s \in Storages : s < i
  BY <1>1, StorageNumbers
<1>3. /\ held' \subseteq Numbers
      /\ call.op = "Upload" => held' = held \cup {call.k}
      /\ call.op # "Upload" => held' \subseteq held
  BY DEF IInv, StateInv, CallInv
<1>4. StateInv'
  BY <1>3 DEF IInv, StateInv
<1>5. ChunkInv'
  <2>1. call.op = "Upload" => \A s \in open : parts[s][call.k] = ChunkData[call.k]
    BY <1>1, <1>2 DEF IInv, StateInv, ChunkInv
  <2>2. \A k \in held', s \in open : parts[s][k] = ChunkData[k]
    BY <1>3, <2>1 DEF IInv, ChunkInv
  <2>3. QED
    BY <2>2 DEF IInv, ChunkInv
<1>6. NilInv'
  <2> SUFFICES ASSUME ret' = "ok"
               PROVE  /\ call.op = "Write" => \A s \in Storages : store[s][call.to] = call.data
                      /\ call.op \in {"Copy", "Move"} => EveryCopy
                      /\ call.op = "Move" => \A s \in Storages : store[s][call.from] = NoFile
                      /\ call.op = "DeleteFile" => \A s \in Storages : store[s][call.path] = NoFile
                      /\ call.op = "Complete" =>
                            /\ \A s \in Storages : store[s][UploadPath] = Joined(ChunkData, call.list)
                            /\ open = {}
                      /\ call.op = "Abort" => open = {}
    BY DEF NilInv, EveryCopy
  <2>1. CASE pc = "run"
    <3>1. call.op # "Move" /\ (call.op = "Abort" => trouble = {})
      BY <2>1
    <3>2. QED
      BY <1>2, <2>1, <3>1 DEF IInv, StateInv, RunInv, EveryCopy
  <2>2. CASE pc = "delete"
    BY <1>1, <1>2, <2>2 DEF IInv, DeleteInv, EveryCopy
  <2>3. QED
    BY <2>1, <2>2
<1>7. call.op = "Move" => EveryCopy
  BY <1>1 DEF IInv, DeleteInv, EveryCopy
<1>8. FailInv' /\ MoveInv'
  BY <1>7 DEF FailInv, MoveInv, EveryCopy
<1>9. QED
  BY <1>4, <1>5, <1>6, <1>8, ReturnIInv DEF ResultInv

-----------------------------------------------------------------------------
(* The invariant *)

LEMMA InitIInv == SyncInit => IInv
<1> SUFFICES ASSUME SyncInit PROVE IInv
  OBVIOUS
<1> USE DEF SyncInit
<1>1. StateInv
  BY StorageNumbers, FilesInObjects DEF StateInv
<1>2. ChunkInv
  BY DEF ChunkInv, PartTypes
<1>3. CallInv /\ RunInv /\ DeleteInv /\ UndoInv
  BY DEF CallInv, RunInv, DeleteInv, UndoInv
<1>4. ResultInv
  BY DEF ResultInv, NilInv, FailInv, MoveInv, Over
<1>5. QED
  BY <1>1, <1>2, <1>3, <1>4 DEF IInv

LEMMA StutterIInv ==
    ASSUME IInv, UNCHANGED syncVars
    PROVE  IInv'
<1> USE DEF syncVars
<1>1. StateInv' /\ CallInv' /\ ChunkInv'
  BY DEF IInv, StateInv, CallInv, ChunkInv
<1>2. RunInv' /\ DeleteInv' /\ UndoInv'
  BY DEF IInv, RunInv, DeleteInv, UndoInv, Unchanged, Clean
<1>3. ResultInv'
  BY DEF IInv, ResultInv, NilInv, FailInv, MoveInv, Over, EveryCopy, RolledBack,
         SourcesUnchanged, Unchanged, Clean
<1>4. QED
  BY <1>1, <1>2, <1>3 DEF IInv

LEMMA NextIInv == IInv /\ [SyncNext]_syncVars => IInv'
<1> SUFFICES ASSUME IInv, [SyncNext]_syncVars PROVE IInv'
  OBVIOUS
<1>1. CASE UNCHANGED syncVars
  BY <1>1, StutterIInv
<1>2. CASE \/ \E p \in Paths, data \in Contents : Write(p, data)
           \/ \E p, q \in Paths : Copy(p, q) \/ Move(p, q)
           \/ \E p \in Paths : DeleteFile(p)
           \/ CreateMultipartUpload \/ AbortMultipartUpload
           \/ \E k \in Numbers : UploadMultipartChunk(k)
           \/ \E list \in Orders : CompleteMultipartUpload(list)
  BY <1>2, CallsIInv
<1>3. CASE WriteOne \/ WriteOneFails \/ OpenSpoolFails \/ CloseSpoolFails
  BY <1>3, WriteOneIInv, WriteOneFailsIInv, OpenSpoolFailsIInv, CloseSpoolFailsIInv
<1>4. CASE CopyOne \/ CopyOneFails \/ CopiesDone \/ DeleteOne \/ DeleteOneFails
  BY <1>4, CopyOneIInv, CopyOneFailsIInv, CopiesDoneIInv, DeleteOneIInv, DeleteOneFailsIInv
<1>5. CASE CreateOne \/ CreateOneFails \/ UploadOne \/ UploadOneFails
  BY <1>5, CreateOneIInv, CreateOneFailsIInv, UploadOneIInv, UploadOneFailsIInv
<1>6. CASE CompleteOne \/ CompleteOneFails \/ AbortOne \/ AbortOneFails
  BY <1>6, CompleteOneIInv, CompleteOneFailsIInv, AbortOneIInv, AbortOneFailsIInv
<1>7. CASE UndoOne \/ UndoOneFails \/ UndoDone \/ AllDone
  BY <1>7, UndoOneIInv, UndoOneFailsIInv, UndoDoneIInv, AllDoneIInv
<1>8. QED
  BY <1>1, <1>2, <1>3, <1>4, <1>5, <1>6, <1>7 DEF SyncNext

THEOREM SpecIInv == SyncSpec => []IInv
BY InitIInv, NextIInv, PTL DEF SyncSpec

-----------------------------------------------------------------------------
(* The least backend that serves a read: < is well-founded on the numbers. *)

LEMMA Least ==
    ASSUME NEW S \in SUBSET Nat, S # {}
    PROVE  \E m \in S : \A n \in S : m <= n
<1> DEFINE R == {ss \in Nat \X Nat : ss[1] < ss[2]}
<1>1. IsWellFoundedOn(R, Nat)
  BY NatLessThanWellFounded DEF OpToRel
<1>3. \A x, y \in S : ~(<<y, x>> \in R) => x <= y
  OBVIOUS
<1> HIDE DEF R
<1>2. \E x \in S : \A y \in S : ~(<<y, x>> \in R)
  BY <1>1, WFMin
<1>4. QED
  BY <1>2, <1>3

LEMMA ReadsAServing ==
    ASSUME NEW p, NEW down, Serving(p, down) # {}
    PROVE  \E s \in Serving(p, down) : ReadFile(p, down) = store[s][p]
<1> DEFINE S == Serving(p, down)
<1>1. S \in SUBSET Nat /\ S # {}
  BY StorageNumbers DEF Serving
<1> HIDE DEF S
<1>2. \E m \in S : \A n \in S : m <= n
  BY <1>1, Least
<1>3. (CHOOSE s \in S : \A t \in S : s <= t) \in S
  BY <1>2
<1>4. ReadFile(p, down) = store[CHOOSE s \in S : \A t \in S : s <= t][p]
  BY <1>1 DEF ReadFile, S
<1>5. QED
  BY <1>3, <1>4 DEF S

\* An object that is the same on every backend is what every reader gets.
LEMMA SameIsRead ==
    ASSUME NEW p, NEW file, \A s \in Storages : store[s][p] = file
    PROVE  EveryReader(p, file)
<1> SUFFICES ASSUME NEW down \in SUBSET Storages, down # Storages
             PROVE  ReadFile(p, down) = file
  BY DEF EveryReader
<1>1. CASE Serving(p, down) = {}
  <2>1. file = NoFile
    BY <1>1 DEF Serving
  <2>2. QED
    BY <1>1, <2>1 DEF ReadFile
<1>2. CASE Serving(p, down) # {}
  BY <1>2, ReadsAServing DEF Serving
<1>3. QED
  BY <1>1, <1>2

-----------------------------------------------------------------------------
(* What the invariant gives *)

LEMMA IInvNil == IInv => NilMeansEverywhere
<1> SUFFICES ASSUME IInv, ret = "ok", Over
             PROVE  /\ Returned("Write") => EveryReader(call.to, call.data)
                    /\ Returned("Copy") \/ Returned("Move") => \A s \in Storages :
                          /\ before[s][call.from] # NoFile
                          /\ store[s][call.to] = before[s][call.from]
                    /\ Returned("Move") => EveryReader(call.from, NoFile)
                    /\ Returned("DeleteFile") => EveryReader(call.path, NoFile)
                    /\ Returned("Complete") =>
                          EveryReader(UploadPath, Joined(ChunkData, call.list)) /\ open = {}
                    /\ Returned("Abort") => open = {}
  BY DEF NilMeansEverywhere, Returned, Over
<1>1. NilInv
  BY DEF IInv, ResultInv
<1>2. QED
  BY <1>1, SameIsRead DEF NilInv, Returned, EveryCopy

\* The rollback stops before the last backend, so that the old object can still be read.
LEMMA RolledBackReadsOld ==
    ASSUME NEW last \in 0 .. N - 1, RolledBack(last),
           NEW old, \A s \in Storages : before[s][call.to] = old
    PROVE  ReadFile(call.to, {}) = old
<1>1. N \in Storages /\ N > last
  BY StorageNumbers DEF Storages
<1>2. store[N][call.to] = old
  BY <1>1 DEF RolledBack, Unchanged
<1>3. \A s \in Storages : store[s][call.to] \in {old, NoFile}
  BY DEF RolledBack, Unchanged
<1>4. CASE Serving(call.to, {}) = {}
  <2>1. old = NoFile
    BY <1>1, <1>2, <1>4 DEF Serving
  <2>2. QED
    BY <1>4, <2>1 DEF ReadFile
<1>5. CASE Serving(call.to, {}) # {}
  <2>1. PICK s \in Serving(call.to, {}) : ReadFile(call.to, {}) = store[s][call.to]
    BY <1>5, ReadsAServing
  <2>2. s \in Storages /\ store[s][call.to] # NoFile
    BY DEF Serving
  <2>3. QED
    BY <1>3, <2>1, <2>2
<1>6. QED
  BY <1>4, <1>5

LEMMA IInvFailure == IInv => FailureIsUndone
<1> SUFFICES ASSUME IInv, ret = "error", Clean, Over
             PROVE  /\ call.op \in {"Write", "Copy", "Move"} =>
                          \A s \in Storages : before[s][call.to] = NoFile =>
                              \/ store[s][call.to] = NoFile
                              \/ /\ call.op = "Move"
                                 /\ \A t \in Storages : store[t][call.to] = before[t][call.from]
                    /\ call.op = "Create" => open = {}
                    /\ call.op \in {"Write", "Copy"} =>
                          \A old \in Objects :
                              (\A s \in Storages : before[s][call.to] = old) =>
                                  ReadFile(call.to, {}) = old
  BY DEF FailureIsUndone, Returned, Over, Clean
<1>1. FailInv
  BY DEF IInv, ResultInv
<1>2. \A last : RolledBack(last) =>
        \A s \in Storages : before[s][call.to] = NoFile => store[s][call.to] = NoFile
  BY DEF RolledBack, Unchanged
<1>3. call.op \in {"Write", "Copy"} =>
        \A s \in Storages : before[s][call.to] = NoFile => store[s][call.to] = NoFile
  BY <1>1, <1>2 DEF FailInv
<1>4. call.op = "Move" =>
        \A s \in Storages : before[s][call.to] = NoFile =>
            \/ store[s][call.to] = NoFile
            \/ \A t \in Storages : store[t][call.to] = before[t][call.from]
  BY <1>1, <1>2 DEF FailInv, EveryCopy
<1>5. call.op \in {"Write", "Copy"} =>
        \A old \in Objects :
            (\A s \in Storages : before[s][call.to] = old) => ReadFile(call.to, {}) = old
  BY <1>1, RolledBackReadsOld DEF FailInv
<1>6. QED
  BY <1>1, <1>3, <1>4, <1>5 DEF FailInv

LEMMA IInvMove == IInv => MoveLosesNothing
<1> SUFFICES ASSUME IInv, call # NoCall, call.op = "Move"
             PROVE  SourcesUnchanged \/ EveryCopy
  BY DEF MoveLosesNothing, SourcesUnchanged, EveryCopy, Unchanged
<1>1. CASE pc = "idle"
  BY <1>1 DEF IInv, ResultInv, MoveInv, Over
<1>2. CASE pc \in {"run", "undo"}
  <2>1. call.from \in Paths /\ call.from # call.to
    BY <1>2 DEF IInv, CallInv
  <2>2. QED
    BY <1>2, <2>1 DEF IInv, RunInv, UndoInv, SourcesUnchanged
<1>3. CASE pc = "delete"
  BY <1>3 DEF IInv, DeleteInv, EveryCopy
<1>4. QED
  BY <1>1, <1>2, <1>3 DEF IInv, StateInv

-----------------------------------------------------------------------------
(* The theorems *)

\* A nil error of a Write, Copy, Move, DeleteFile, Complete or Abort means that it is done on
\* every backend: whichever fail afterwards, as long as one is left, every reader sees it
\* (sync.go:109-145, 213-251, 399-420).
THEOREM NilIsEverywhere == SyncSpec => []NilMeansEverywhere
BY SpecIInv, IInvNil, PTL

\* One backend failed and the rollback found no trouble of its own: a name that was free is free
\* again everywhere, an upload that was not created exists nowhere, and an object that was
\* on every backend can still be read, the last backend having been left alone (sync.go:118-140).
THEOREM FailuresAreUndone == SyncSpec => []FailureIsUndone
BY SpecIInv, IInvFailure, PTL

\* A Move takes no source away before every backend has the copy, whatever fails and however the
\* rollback goes (sync.go:213-240).
THEOREM NothingIsLost == SyncSpec => []MoveLosesNothing
BY SpecIInv, IInvMove, PTL

-----------------------------------------------------------------------------
(* The buckets' part of MCStorages: initial states and steps. *)
ObjectSpec == ObjectInit /\ [][ObjectNext]_objectVars

-----------------------------------------------------------------------------
(* The inductive invariant of the uploads. *)

Places == (Names \cup {None}) \X (Uploads \cup {None}) \X {"object", "chunk", "group", None} \X Nat
RequestTypes ==
    [verb : {"get", "put", "delete", "copy", "copyLarge", "stat", "compose", "sweep", "finish",
             "fill", "begin", "drop"},
     from : Seq(Places), to : Places, gone : SUBSET Places,
     upload : Uploads \cup {None}, soft : BOOLEAN]

IsJob(j) ==
    j \in [call : Calls \cup {NoObjectCall}, op : {j.op}, todo : Seq(RequestTypes),
           attempt : {j.attempt}, read : {j.read}, err : {j.err}, opened : {j.opened},
           file : {j.file}, held : {j.held}, answer : {j.answer}]

ObjectTypeOK ==
    /\ job = [c \in Clients |-> job[c]]
    /\ \A c \in Clients : IsJob(job[c])
    /\ acked \in [Uploads -> SUBSET ChunkNumbers]
    /\ issued \subseteq Uploads
    /\ released \subseteq Uploads

(* An operation is the call's, or one that util.Copy makes. *)
OpFits(j) ==
    \/ j.op = j.call.op /\ j.call.op # "util.Copy"
    \/ j.call.op = "util.Copy" /\ j.op \in {"Copy", "ReadFile", "Write"}

(* A call that removes the chunks of an upload was told to; over are the uploads completed or *)
(* given up.                                                                                  *)
Asked(k, over) ==
    /\ k.op = "AbortMultipartUpload" => k.upload \in over
    /\ k.op = "DeleteDir" => \A u \in Uploads : TargetOf[u] \in Matches[k.name] => u \in over

(* A request that neither stores a chunk nor removes one that a caller may still want. *)
SparesChunks(r, over) ==
    /\ r.to[3] # "chunk"
    /\ \A u \in Uploads \ over, n \in ChunkNumbers : Chunk(u, n) \notin r.gone

(* A completion removes nothing before it has stored the object. *)
StoresFirst(j, over) ==
    /\ \A l \in DOMAIN j.todo :
          /\ j.todo[l].to[3] # "chunk"
          /\ j.todo[l].gone \subseteq PartsOf(j.call.upload)
          /\ j.todo[l].verb = "sweep" => j.todo[l].to = NoKey
    /\ \/ j.call.upload \in over
       \/ \E l \in DOMAIN j.todo :
             /\ j.todo[l].to = Object(j.call.name)
             /\ \A m \in 1 .. (l - 1) : j.todo[m].gone = {}

(* An upload has one request, which stores its chunk. *)
StoresChunk(j) ==
    /\ Len(j.todo) = 1 /\ j.read = 0
    /\ j.todo[1].verb = "put" /\ j.todo[1].gone = {}
    /\ j.todo[1].to = Chunk(j.call.upload, j.call.chunk)

TodoInv(j, over) ==
    /\ j.todo # <<>>
    /\ j.op = "UploadMultipartChunk" => StoresChunk(j)
    /\ j.op = "CompleteMultipartUpload" => StoresFirst(j, over)
    /\ j.op \notin {"UploadMultipartChunk", "CompleteMultipartUpload"} =>
          \A l \in DOMAIN j.todo : SparesChunks(j.todo[l], over)
    /\ \A l \in DOMAIN j.todo :
          /\ j.todo[l].verb = "stat" => l = 1 /\ Len(j.todo) >= 2
          /\ j.op \in {"UploadMultipartChunk", "CompleteMultipartUpload"} =>
                j.todo[l].verb \notin {"copy", "stat", "fill", "get"}

PendingInv(j, over) == j.answer = "pending" =>
    /\ j.call \in Calls
    /\ OpFits(j)
    /\ j.call.op = "Move" => j.call.name # j.call.to
    /\ Asked(j.call, over)
    /\ TodoInv(j, over)

(* Nothing removes a chunk of an upload that is neither made into its object nor given up,    *)
(* whether or not its caller still has the id.                                                *)
StoredInv ==
    \A u \in Uploads \ released, n \in ChunkNumbers :
        n \in acked[u] => bucket[Chunk(u, n)] = PieceOf(u, n)

ObjectIInv == ObjectTypeOK /\ StoredInv /\ \A c \in Clients : PendingInv(job[c], released)

-----------------------------------------------------------------------------
(* Keys, calls and requests *)

LEMMA KeyParts ==
    ASSUME ObjectStorageAssumption
    PROVE  /\ Keys \subseteq Places /\ NoKey \in Places /\ NoKey[3] = None
           /\ \A n \in Names : Object(n) \in Keys /\ Object(n)[2] = None /\ Object(n)[3] = "object"
           /\ \A u \in Uploads, n \in ChunkNumbers :
                 /\ Chunk(u, n) \in Keys /\ Chunk(u, n)[1] = TargetOf[u]
                 /\ Chunk(u, n)[2] = u /\ Chunk(u, n)[3] = "chunk"
                 /\ Chunk(u, n)[4] = n
           /\ \A u \in Uploads, n \in Nat :
                 Group(u, n) \in Places /\ Group(u, n)[2] = u /\ Group(u, n)[3] = "group"
BY DEF Keys, GroupNumbers, Places, NoKey, None, Object, Chunk, Group, ObjectStorageAssumption

(* What the arguments of each call are. *)
CallFits(k) ==
    /\ k.op \in {"DeleteFile", "DownloadFile", "DeleteDir", "Write", "WriteFile", "Copy", "Move", "util.Copy",
                 "CreateMultipartUpload", "AbortMultipartUpload", "UploadMultipartChunk",
                 "CompleteMultipartUpload"}
    /\ k.op = "DeleteDir" => k.name \in Dirs
    /\ k.op # "DeleteDir" => k.name \in Names
    /\ k.op \in {"Copy", "Move", "util.Copy"} => k.to \in Names
    /\ k.op \in {"CreateMultipartUpload", "AbortMultipartUpload", "UploadMultipartChunk",
                 "CompleteMultipartUpload"} => k.upload \in Uploads /\ k.name = TargetOf[k.upload]
    /\ k.op = "UploadMultipartChunk" => k.chunk \in ChunkNumbers
    /\ k.op = "CompleteMultipartUpload" => k.list \in Seq(ChunkNumbers)

LEMMA CallParts ==
    ASSUME ObjectStorageAssumption, NEW k \in Calls
    PROVE  CallFits(k)
<1>1. CASE k \in FileCalls
  BY <1>1 DEF FileCalls, CallsOf, CallFits
<1>2. CASE k \in DirCalls
  BY <1>2 DEF DirCalls, CallsOf, CallFits
<1>3. CASE k \in WriteCalls
  BY <1>3 DEF WriteCalls, CallsOf, CallFits
<1>4. CASE k \in PairCalls
  BY <1>4 DEF PairCalls, CallsOf, CallFits
<1>5. CASE k \in UploadCalls
  BY <1>5 DEF UploadCalls, CallsOf, CallFits, OnUpload
<1>6. CASE k \in ChunkCalls
  BY <1>6 DEF ChunkCalls, CallsOf, CallFits, OnUpload
<1>7. CASE k \in CompleteCalls
  BY <1>7 DEF CompleteCalls, CallsOf, CallFits, OnUpload, ObjectStorageAssumption
<1>8. QED
  BY <1>1, <1>2, <1>3, <1>4, <1>5, <1>6, <1>7 DEF Calls

LEMMA RequestParts ==
    ASSUME ObjectStorageAssumption
    PROVE  /\ \A v \in {"fill", "begin"} : Request(v) \in RequestTypes
           /\ \A k \in Places : Get(k) \in RequestTypes /\ Put(k) \in RequestTypes /\ Delete(k) \in RequestTypes
           /\ \A k, m \in Places : CopyObject(k, m) \in RequestTypes
           /\ \A s \in Seq(Places), k \in Places : Compose(s, k) \in RequestTypes
           /\ \A ks \in SUBSET Places, soft \in BOOLEAN : Sweep(ks, soft) \in RequestTypes
<1>1. NoKey \in Places
  BY KeyParts
<1>2. \A v \in {"get", "put", "delete", "copy", "compose", "sweep", "fill", "begin"} :
         Request(v) \in RequestTypes
  BY <1>1, SMT DEF Request, RequestTypes, None
<1>3. \A k \in Places : <<k>> \in Seq(Places) /\ {k} \in SUBSET Places
  OBVIOUS
<1>4. \A k \in Places : Get(k) \in RequestTypes /\ Put(k) \in RequestTypes /\ Delete(k) \in RequestTypes
  BY <1>2, <1>3 DEF Get, Put, Delete, RequestTypes
<1>5. \A k, m \in Places : CopyObject(k, m) \in RequestTypes
  BY <1>2, <1>3 DEF CopyObject, RequestTypes
<1>6. \A s \in Seq(Places), k \in Places : Compose(s, k) \in RequestTypes
  BY <1>2 DEF Compose, RequestTypes
<1>7. \A ks \in SUBSET Places, soft \in BOOLEAN : Sweep(ks, soft) \in RequestTypes
  BY <1>2 DEF Sweep, RequestTypes
<1>8. QED
  BY <1>2, <1>4, <1>5, <1>6, <1>7

(* A list of chunks is a list of places, and so is each part of it that composeAll takes. *)
LEMMA ChunksOfList ==
    ASSUME ObjectStorageAssumption, NEW u \in Uploads, NEW list \in Seq(ChunkNumbers)
    PROVE  [l \in DOMAIN list |-> Chunk(u, list[l])] \in Seq(Places)
<1>1. \A n \in ChunkNumbers : Chunk(u, n) \in Places
  BY KeyParts
<1>2. \A l \in DOMAIN list : list[l] \in ChunkNumbers
  OBVIOUS
<1>3. DOMAIN list = 1 .. Len(list) /\ Len(list) \in Nat
  OBVIOUS
<1>4. \A l \in 1 .. Len(list) : Chunk(u, list[l]) \in Places
  BY <1>1, <1>2, <1>3
<1>5. QED
  BY <1>3, <1>4

LEMMA PartOfSeq ==
    ASSUME NEW S, NEW s \in Seq(S), NEW from \in Nat, NEW last \in Int, last <= Len(s)
    PROVE  SubSeq(s, from + 1, last) \in Seq(S)
OBVIOUS

LEMMA ComposeAllParts ==
    ASSUME ObjectStorageAssumption, NEW u \in Uploads, NEW chunks \in Seq(Places)
    PROVE  /\ ComposeAll(u, chunks) \in Seq(RequestTypes)
           /\ ComposeAll(u, chunks) # <<>>
           /\ \A l \in DOMAIN ComposeAll(u, chunks) :
                 /\ ComposeAll(u, chunks)[l].gone = {}
                 /\ ComposeAll(u, chunks)[l].verb = "compose"
                 /\ ComposeAll(u, chunks)[l].to[3] # "chunk"
           /\ ComposeAll(u, chunks)[Len(ComposeAll(u, chunks))].to = Object(TargetOf[u])
<1> DEFINE groups == (Len(chunks) + ComposeLimit - 1) \div ComposeLimit
           Smaller(a, b) == IF a < b THEN a ELSE b
           sources(g) == SubSeq(chunks, (g - 1) * ComposeLimit + 1, Smaller(g * ComposeLimit, Len(chunks)))
           object == Object(TargetOf[u])
           first == [g \in 1 .. groups |-> Compose(sources(g), Group(u, g))]
           last == Compose([g \in 1 .. groups |-> Group(u, g)], object)
<1>1. object \in Places /\ object[3] = "object"
  BY KeyParts DEF ObjectStorageAssumption
<1>2. \A s \in Seq(Places), k \in Places :
         /\ Compose(s, k) \in RequestTypes
         /\ Compose(s, k).gone = {} /\ Compose(s, k).verb = "compose" /\ Compose(s, k).to = k
  BY RequestParts DEF Compose, Request
<1>3. groups \in Nat
  BY DEF ObjectStorageAssumption
<1>4. ASSUME NEW g \in 1 .. groups
      PROVE  sources(g) \in Seq(Places)
  <2>1. (g - 1) * ComposeLimit \in Nat /\ g * ComposeLimit \in Nat
    BY <1>3 DEF ObjectStorageAssumption
  <2>2. Smaller(g * ComposeLimit, Len(chunks)) \in Int /\ Smaller(g * ComposeLimit, Len(chunks)) <= Len(chunks)
    BY <2>1
  <2>3. QED
    BY <2>1, <2>2, PartOfSeq
<1> HIDE DEF groups, Smaller, sources, object
<1>5. \A g \in 1 .. groups : Group(u, g) \in Places /\ Group(u, g)[3] = "group"
  BY <1>3, KeyParts
<1>6. /\ first \in Seq(RequestTypes) /\ Len(first) = groups
      /\ \A g \in 1 .. groups : /\ first[g].gone = {} /\ first[g].verb = "compose"
                                /\ first[g].to[3] # "chunk"
  BY <1>2, <1>3, <1>4, <1>5
<1>7. last \in RequestTypes /\ last.gone = {} /\ last.verb = "compose" /\ last.to = object
  <2>1. [g \in 1 .. groups |-> Group(u, g)] \in Seq(Places)
    BY <1>3, <1>5
  <2>2. QED
    BY <2>1, <1>1, <1>2
<1> HIDE DEF first, last
<1>8. CASE Len(chunks) <= ComposeLimit
  <2>1. ComposeAll(u, chunks) = <<Compose(chunks, object)>>
    BY <1>8 DEF ComposeAll, object
  <2>2. QED
    BY <2>1, <1>1, <1>2 DEF object
<1>9. CASE ~(Len(chunks) <= ComposeLimit)
  <2>1. ComposeAll(u, chunks) = Append(first, last)
    BY <1>9 DEF ComposeAll, object, first, last, groups, sources, Smaller
  <2>2. QED
    BY <2>1, <1>1, <1>3, <1>6, <1>7 DEF object
<1>10. QED
  BY <1>8, <1>9

LEMMA CompleteUploadParts ==
    ASSUME ObjectStorageAssumption, NEW u \in Uploads, NEW list \in Seq(ChunkNumbers)
    PROVE  LET todo == CompleteUpload(u, list)
           IN  /\ todo \in Seq(RequestTypes) /\ todo # <<>>
               /\ \A l \in DOMAIN todo :
                     /\ todo[l].to[3] # "chunk"
                     /\ todo[l].gone \subseteq PartsOf(u)
                     /\ todo[l].verb = "sweep" => todo[l].to = NoKey
                     /\ todo[l].verb \in {"compose", "sweep", "finish"}
               /\ \E l \in DOMAIN todo :
                     /\ todo[l].to = Object(TargetOf[u])
                     /\ \A m \in 1 .. (l - 1) : todo[m].gone = {}
<1> DEFINE chunks == [l \in DOMAIN list |-> Chunk(u, list[l])]
           object == Object(TargetOf[u])
           sweep == Sweep(PartsOf(u), TRUE)
           finish == [Request("finish") EXCEPT !.from = chunks, !.to = object,
                                               !.gone = PartsOf(u), !.upload = u]
<1>1. chunks \in Seq(Places)
  BY ChunksOfList
<1>2. PartsOf(u) \subseteq Places
  BY KeyParts DEF PartsOf
<1>3. object \in Places /\ object[3] = "object"
  BY KeyParts DEF ObjectStorageAssumption
<1>4. /\ sweep \in RequestTypes /\ sweep.to = NoKey /\ sweep.to[3] # "chunk"
      /\ sweep.gone = PartsOf(u) /\ sweep.verb = "sweep"
  <2>1. sweep \in RequestTypes
    BY <1>2, RequestParts
  <2>2. QED
    BY <2>1, KeyParts DEF Sweep, Request, None
<1>5. /\ finish \in RequestTypes /\ finish.to = object /\ finish.to[3] # "chunk"
      /\ finish.gone = PartsOf(u) /\ finish.verb = "finish"
  BY <1>1, <1>2, <1>3, KeyParts DEF Request, RequestTypes
<1> DEFINE all == ComposeAll(u, chunks)
<1> HIDE DEF chunks
<1>6. CASE backend = "gcs"
  <2>1. CompleteUpload(u, list) = Append(all, sweep)
    BY <1>6 DEF CompleteUpload, chunks
  <2>2. /\ all \in Seq(RequestTypes) /\ all # <<>>
        /\ \A l \in DOMAIN all : all[l].gone = {} /\ all[l].verb = "compose" /\ all[l].to[3] # "chunk"
        /\ all[Len(all)].to = object
    BY <1>1, ComposeAllParts
  <2> HIDE DEF all, sweep, object
  <2>3. /\ Append(all, sweep) \in Seq(RequestTypes) /\ Append(all, sweep) # <<>>
        /\ DOMAIN Append(all, sweep) = 1 .. (Len(all) + 1) /\ Len(all) >= 1
        /\ \A l \in 1 .. Len(all) : Append(all, sweep)[l] = all[l]
        /\ Append(all, sweep)[Len(all) + 1] = sweep
    BY <2>2, <1>4
  <2>4. \A l \in 1 .. Len(all) : /\ all[l].gone = {} /\ all[l].verb = "compose"
                                 /\ all[l].to[3] # "chunk"
    BY <2>2
  <2>5. \A l \in DOMAIN Append(all, sweep) :
           /\ Append(all, sweep)[l].to[3] # "chunk"
           /\ Append(all, sweep)[l].gone \subseteq PartsOf(u)
           /\ Append(all, sweep)[l].verb = "sweep" => Append(all, sweep)[l].to = NoKey
           /\ Append(all, sweep)[l].verb \in {"compose", "sweep", "finish"}
    BY <2>3, <2>4, <1>4, <2>2
  <2>6. /\ Len(all) \in DOMAIN Append(all, sweep)
        /\ Append(all, sweep)[Len(all)].to = object
        /\ \A m \in 1 .. (Len(all) - 1) : Append(all, sweep)[m].gone = {}
    BY <2>3, <2>4, <2>2
  <2>7. QED
    BY <2>1, <2>3, <2>5, <2>6 DEF object
<1>7. CASE backend # "gcs"
  <2>1. CompleteUpload(u, list) = <<finish>>
    BY <1>7 DEF CompleteUpload, chunks
  <2> HIDE DEF finish, object
  <2>2. QED
    BY <2>1, <1>5 DEF object
<1>8. QED
  BY <1>6, <1>7

-----------------------------------------------------------------------------
(* Jobs *)

(* What was over stays so. *)
LEMMA MoreOver ==
    ASSUME NEW j, NEW over, NEW more, over \subseteq more, PendingInv(j, over)
    PROVE  PendingInv(j, more)
BY DEF PendingInv, TodoInv, Asked, SparesChunks, StoresFirst

(* A job that is over has no request left. *)
LEMMA EndedIsJob ==
    ASSUME NEW j, NEW answer, answer # "pending", NEW over
    PROVE  IsJob(Ended(j, answer)) /\ PendingInv(Ended(j, answer), over) /\ Ended(j, answer).answer = answer
<1> DEFINE e == Ended(j, answer)
<1>1. e \in [call : {NoObjectCall}, op : {None}, todo : {<<>>}, attempt : {0}, read : {0}, err : {None},
              opened : {Absent}, file : {j.file}, held : {Absent}, answer : {answer}]
  BY DEF Ended, NoJob
<1>2. <<>> \in Seq(RequestTypes)
  OBVIOUS
<1> HIDE DEF e
<1>3. IsJob(e) /\ e.answer = answer
  BY <1>1, <1>2 DEF IsJob
<1>4. QED
  BY <1>3 DEF PendingInv, e

(* The requests of the operations that neither store a chunk nor complete an upload. *)
LEMMA OtherRequests ==
    ASSUME ObjectStorageAssumption, NEW k \in Calls, NEW op, NEW over, Asked(k, over),
           \/ op = k.op /\ op # "util.Copy"
           \/ k.op = "util.Copy" /\ op \in {"Copy", "ReadFile", "Write"},
           op \notin {"UploadMultipartChunk", "CompleteMultipartUpload"}
    PROVE  LET todo == Requests(k, op)
           IN  /\ todo \in Seq(RequestTypes)
               /\ \A l \in DOMAIN todo : SparesChunks(todo[l], over) /\ todo[l].verb # "stat"
               /\ op # "CreateMultipartUpload" /\ (op = "Move" => k.name # k.to) => todo # <<>>
<1> USE CallParts, KeyParts, RequestParts
<1>0. CallFits(k)
  OBVIOUS
<1>1. \A n \in Names : /\ Object(n) \in Places
                       /\ \A u \in Uploads, m \in ChunkNumbers : Chunk(u, m) # Object(n)
  BY DEF Object, Chunk
<1> DEFINE Fine(r) == r \in RequestTypes /\ SparesChunks(r, over) /\ r.verb # "stat"
           Good(todo) == /\ todo \in Seq(RequestTypes)
                         /\ \A l \in DOMAIN todo : SparesChunks(todo[l], over) /\ todo[l].verb # "stat"
<1>2. /\ Good(<<>>)
      /\ \A r : Fine(r) => Good(<<r>>) /\ <<r>> # <<>>
      /\ \A r, q : Fine(r) /\ Fine(q) => Good(<<r, q>>) /\ <<r, q>> # <<>>
  OBVIOUS
<1>3. ASSUME NEW n \in Names
      PROVE  Fine(Get(Object(n))) /\ Fine(Put(Object(n))) /\ Fine(Delete(Object(n)))
  <2>1. Fine(Get(Object(n)))
    BY <1>1 DEF Get, Request, SparesChunks, None
  <2>2. Fine(Put(Object(n)))
    BY <1>1 DEF Put, Request, SparesChunks, None
  <2>3. Fine(Delete(Object(n)))
    <3>1. Delete(Object(n)) \in RequestTypes
      BY <1>1
    <3>2. /\ Delete(Object(n)).to = NoKey /\ Delete(Object(n)).gone = {Object(n)}
          /\ Delete(Object(n)).verb = "delete"
      BY DEF Delete, Request
    <3>3. QED
      BY <3>1, <3>2, <1>1 DEF SparesChunks, None
  <2>4. QED
    BY <2>1, <2>2, <2>3
<1>4. ASSUME NEW n \in Names, NEW m \in Names
      PROVE  Fine(CopyObject(Object(n), Object(m)))
  <2>1. CopyObject(Object(n), Object(m)) \in RequestTypes
    BY <1>1
  <2>2. SparesChunks(CopyObject(Object(n), Object(m)), over)
    BY <1>1 DEF CopyObject, Request, SparesChunks
  <2>3. QED
    BY <2>1, <2>2 DEF CopyObject, Request
<1>5. \A v \in {"fill", "begin"} : Fine(Request(v))
  BY DEF Request, SparesChunks, None
<1>20. ASSUME Good(Requests(k, op)),
               op # "CreateMultipartUpload" /\ (op = "Move" => k.name # k.to) => Requests(k, op) # <<>>
        PROVE  /\ Requests(k, op) \in Seq(RequestTypes)
               /\ \A l \in DOMAIN Requests(k, op) :
                     SparesChunks(Requests(k, op)[l], over) /\ Requests(k, op)[l].verb # "stat"
               /\ op # "CreateMultipartUpload" /\ (op = "Move" => k.name # k.to) => Requests(k, op) # <<>>
  BY <1>20
<1> HIDE DEF Fine, Good
<1>6. CASE op = "DeleteFile"
  <2>1. Requests(k, op) = <<Delete(Object(k.name))>>
    BY <1>6 DEF Requests
  <2>2. QED
    BY <1>2, <1>20, <2>1, <1>3, <1>6, <1>0 DEF CallFits
<1>7. CASE op = "DeleteDir"
  <2>1. Requests(k, op) = <<Sweep(Under(k.name), FALSE)>>
    BY <1>7 DEF Requests
  <2>2. Under(k.name) \subseteq Places
    BY DEF Under
  <2>3. \A u \in Uploads \ over, n \in ChunkNumbers : Chunk(u, n) \notin Under(k.name)
    BY <1>7 DEF Under, Asked
  <2>4. Fine(Sweep(Under(k.name), FALSE))
    BY <2>2, <2>3 DEF Sweep, Request, SparesChunks, None, Fine
  <2> DEFINE sweep == Sweep(Under(k.name), FALSE)
  <2> HIDE DEF sweep
  <2>5. Good(<<sweep>>) /\ <<sweep>> # <<>>
    BY <1>2, <2>4, Zenon DEF sweep
  <2>6. Requests(k, op) = <<sweep>>
    BY <2>1 DEF sweep
  <2>7. QED
    BY <2>5, <2>6, <1>20
<1>8. CASE op \in {"Write", "WriteFile"}
  <2>1. PICK n \in Names : Requests(k, op) = <<Put(Object(n))>>
    BY <1>8, <1>0 DEF Requests, CallFits
  <2>2. QED
    BY <1>2, <1>20, <2>1, <1>3, <1>8
<1>9. CASE op = "ReadFile"
  <2>1. Requests(k, op) = <<Get(Object(k.name))>>
    BY <1>9 DEF Requests
  <2>2. QED
    BY <1>2, <1>20, <2>1, <1>3, <1>9, <1>0 DEF CallFits
<1>10. CASE op = "DownloadFile"
  <2>1. Requests(k, op) = <<Get(Object(k.name)), Request("fill")>>
    BY <1>10 DEF Requests
  <2>2. QED
    BY <1>2, <1>20, <2>1, <1>3, <1>5, <1>10, <1>0 DEF CallFits
<1>11. CASE op = "Copy"
  <2>1. Requests(k, op) = <<CopyObject(Object(k.name), Object(k.to))>>
    BY <1>11 DEF Requests
  <2>2. QED
    BY <1>2, <1>20, <2>1, <1>4, <1>11, <1>0 DEF CallFits
<1>12. CASE op = "Move"
  <2>1. Object(k.name) = Object(k.to) => k.name = k.to
    BY DEF Object
  <2>2. \/ Requests(k, op) = <<>> /\ k.name = k.to
        \/ Requests(k, op) = <<CopyObject(Object(k.name), Object(k.to)), Delete(Object(k.name))>>
    BY <1>12, <2>1 DEF Requests, MoveRequests
  <2>3. k.name \in Names /\ k.to \in Names
    BY <1>12, <1>0 DEF CallFits
  <2>4. Fine(CopyObject(Object(k.name), Object(k.to))) /\ Fine(Delete(Object(k.name)))
    BY <2>3, <1>3, <1>4
  <2>5. CASE Requests(k, op) = <<>> /\ k.name = k.to
    BY <2>5, <1>2, <1>12, <1>20
  <2>6. CASE Requests(k, op) = <<CopyObject(Object(k.name), Object(k.to)), Delete(Object(k.name))>>
    <3> DEFINE copy == CopyObject(Object(k.name), Object(k.to))
               delete == Delete(Object(k.name))
    <3>1. Fine(copy) /\ Fine(delete) /\ Requests(k, op) = <<copy, delete>>
      BY <2>4, <2>6
    <3> HIDE DEF copy, delete
    <3>2. Good(<<copy, delete>>) /\ <<copy, delete>> # <<>>
      BY <3>1, <1>2, Zenon
    <3>3. QED
      BY <3>1, <3>2, <1>20
  <2>7. QED
    BY <2>2, <2>5, <2>6
<1>13. CASE op = "CreateMultipartUpload"
  <2> DEFINE create == [Request("begin") EXCEPT !.upload = k.upload]
  <2>1. Fine(create)
    BY <1>5, <1>13, <1>0 DEF Request, RequestTypes, SparesChunks, CallFits, Fine
  <2>2. Requests(k, op) = <<>> \/ Requests(k, op) = <<create>>
    BY <1>13 DEF Requests
  <2> HIDE DEF create
  <2>3. QED
    BY <1>2, <1>20, <2>1, <2>2, <1>13
<1>14. CASE op = "AbortMultipartUpload"
  <2> DEFINE drop == [Request("drop") EXCEPT !.gone = PartsOf(k.upload), !.upload = k.upload]
  <2>1. PartsOf(k.upload) \subseteq Places
    BY DEF PartsOf
  <2>2. \A u \in Uploads \ over, n \in ChunkNumbers : Chunk(u, n) \notin PartsOf(k.upload)
    BY <1>14 DEF PartsOf, Asked
  <2>3. Fine(Sweep(PartsOf(k.upload), FALSE))
    BY <2>1, <2>2 DEF Sweep, Request, SparesChunks, None, Fine
  <2>4. Fine(drop)
    BY <2>1, <2>2, <1>14, <1>0 DEF Request, RequestTypes, SparesChunks, CallFits, Fine, None
  <2>5. Requests(k, op) = <<Sweep(PartsOf(k.upload), FALSE)>> \/ Requests(k, op) = <<drop>>
    BY <1>14 DEF Requests
  <2> HIDE DEF drop
  <2> DEFINE sweep == Sweep(PartsOf(k.upload), FALSE)
  <2>6. Fine(sweep) /\ (Requests(k, op) = <<sweep>> \/ Requests(k, op) = <<drop>>)
    BY <2>3, <2>5
  <2> HIDE DEF sweep
  <2>7. Good(<<sweep>>) /\ <<sweep>> # <<>> /\ Good(<<drop>>) /\ <<drop>> # <<>>
    BY <2>4, <2>6, <1>2, Zenon
  <2>8. CASE Requests(k, op) = <<sweep>>
    BY <2>7, <2>8, <1>20
  <2>9. CASE Requests(k, op) = <<drop>>
    BY <2>7, <2>9, <1>20
  <2>10. QED
    BY <2>6, <2>8, <2>9
<1>15. QED
  BY <1>0, <1>6, <1>7, <1>8, <1>9, <1>10, <1>11, <1>12, <1>13, <1>14 DEF CallFits

(* A new attempt at an operation of a call sends its requests from the first. *)
LEMMA AttemptParts ==
    ASSUME ObjectStorageAssumption, NEW j, NEW over, IsJob(j), j.call \in Calls, OpFits(j),
           Asked(j.call, over), j.op = "UploadMultipartChunk" => j.read = 0
    PROVE  LET a == Attempt(j)
           IN  /\ IsJob(a) /\ a.call = j.call /\ a.op = j.op /\ a.answer = j.answer
               /\ TodoInv(a, over) \/ a.todo = <<>>
               /\ a.todo = <<>> => j.op = "CreateMultipartUpload" \/ (j.op = "Move" /\ j.call.name = j.call.to)
<1> DEFINE a == Attempt(j)
           k == j.call
<1>1. CallFits(k)
  BY CallParts
<1>2. \/ j.op = k.op /\ j.op # "util.Copy"
      \/ k.op = "util.Copy" /\ j.op \in {"Copy", "ReadFile", "Write"}
  BY DEF OpFits
<1>3. a.todo = Requests(k, j.op) /\ a.call = j.call /\ a.op = j.op /\ a.answer = j.answer
      /\ (j.op # "WriteFile" => a.read = j.read)
  BY DEF Attempt, IsJob
<1>4. ASSUME Requests(k, j.op) \in Seq(RequestTypes)
      PROVE  IsJob(a)
  BY <1>4 DEF Attempt, IsJob
<1> HIDE DEF a
<1>5. CASE j.op \notin {"UploadMultipartChunk", "CompleteMultipartUpload"}
  <2>1. /\ Requests(k, j.op) \in Seq(RequestTypes)
        /\ \A l \in DOMAIN Requests(k, j.op) :
              SparesChunks(Requests(k, j.op)[l], over) /\ Requests(k, j.op)[l].verb # "stat"
        /\ j.op # "CreateMultipartUpload" /\ (j.op = "Move" => k.name # k.to) => Requests(k, j.op) # <<>>
    BY <1>2, <1>5, OtherRequests
  <2>2. TodoInv(a, over) \/ a.todo = <<>>
    BY <2>1, <1>3, <1>5 DEF TodoInv
  <2>3. QED
    BY <2>1, <2>2, <1>3, <1>4 DEF a
<1>6. CASE j.op = "UploadMultipartChunk"
  <2> DEFINE put == [Put(Chunk(k.upload, k.chunk)) EXCEPT !.upload = IF backend = "s3" THEN k.upload ELSE None]
  <2>1. k.op = "UploadMultipartChunk" /\ k.upload \in Uploads /\ k.chunk \in ChunkNumbers
    BY <1>1, <1>2, <1>6 DEF CallFits
  <2>2. Chunk(k.upload, k.chunk) \in Places
    BY <2>1, KeyParts
  <2>3. Put(Chunk(k.upload, k.chunk)) \in RequestTypes
    BY <2>2, RequestParts
  <2>4. /\ put \in RequestTypes /\ put.verb = "put" /\ put.gone = {}
        /\ put.to = Chunk(k.upload, k.chunk)
    BY <2>1, <2>2, <2>3 DEF Put, Request, RequestTypes
  <2>5. Requests(k, j.op) = <<put>>
    BY <1>6 DEF Requests
  <2> HIDE DEF put
  <2>6. Requests(k, j.op) \in Seq(RequestTypes) /\ Requests(k, j.op) # <<>>
    BY <2>4, <2>5
  <2>7. StoresChunk(a)
    BY <2>4, <2>5, <1>3, <1>6 DEF StoresChunk
  <2>8. \A l \in DOMAIN a.todo : a.todo[l].verb = "put"
    BY <2>4, <2>5, <1>3
  <2>9. TodoInv(a, over)
    BY <2>6, <2>7, <2>8, <1>3, <1>6 DEF TodoInv
  <2>10. QED
    BY <2>6, <2>9, <1>3, <1>4 DEF a
<1>7. CASE j.op = "CompleteMultipartUpload"
  <2>1. k.op = "CompleteMultipartUpload" /\ k.upload \in Uploads /\ k.list \in Seq(ChunkNumbers)
        /\ k.name = TargetOf[k.upload]
    BY <1>1, <1>2, <1>7 DEF CallFits
  <2>2. Requests(k, j.op) = CompleteUpload(k.upload, k.list)
    BY <1>7 DEF Requests
  <2> DEFINE todo == CompleteUpload(k.upload, k.list)
  <2>3. /\ todo \in Seq(RequestTypes) /\ todo # <<>>
        /\ \A l \in DOMAIN todo :
              /\ todo[l].to[3] # "chunk"
              /\ todo[l].gone \subseteq PartsOf(k.upload)
              /\ todo[l].verb = "sweep" => todo[l].to = NoKey
              /\ todo[l].verb \in {"compose", "sweep", "finish"}
        /\ \E l \in DOMAIN todo :
              /\ todo[l].to = Object(TargetOf[k.upload])
              /\ \A m \in 1 .. (l - 1) : todo[m].gone = {}
    BY <2>1, CompleteUploadParts, Zenon
  <2>4. a.todo = todo
    BY <2>2, <1>3
  <2> HIDE DEF todo
  <2>5. StoresFirst(a, over)
    BY <2>1, <2>3, <2>4, <1>3 DEF StoresFirst
  <2>6. TodoInv(a, over)
    BY <2>3, <2>4, <2>5, <1>3, <1>7 DEF TodoInv
  <2>7. QED
    BY <2>3, <2>4, <2>6, <1>3, <1>4 DEF a, todo
<1>8. QED
  BY <1>5, <1>6, <1>7

(* The next operation of a call. *)
LEMMA EnterParts ==
    ASSUME ObjectStorageAssumption, NEW j, NEW over, NEW op, IsJob(j), j.call \in Calls,
           \/ op = j.call.op /\ op # "util.Copy"
           \/ j.call.op = "util.Copy" /\ op \in {"Copy", "ReadFile", "Write"},
           Asked(j.call, over), op = "UploadMultipartChunk" => j.read = 0
    PROVE  LET a == Enter(j, op)
           IN  /\ IsJob(a) /\ a.call = j.call /\ a.op = op /\ a.answer = j.answer
               /\ TodoInv(a, over) \/ a.todo = <<>>
               /\ a.todo = <<>> => op = "CreateMultipartUpload" \/ (op = "Move" /\ j.call.name = j.call.to)
<1> DEFINE entry == [j EXCEPT !.op = op, !.attempt = 0]
<1>1. IsJob(entry) /\ entry.call = j.call /\ entry.op = op /\ entry.read = j.read /\ entry.answer = j.answer
  BY DEF IsJob
<1>2. Enter(j, op) = Attempt(entry)
  BY DEF Enter
<1> HIDE DEF entry
<1>3. OpFits(entry)
  BY <1>1 DEF OpFits
<1>4. /\ entry.call \in Calls /\ Asked(entry.call, over)
      /\ entry.op = "UploadMultipartChunk" => entry.read = 0
  BY <1>1
<1>5. LET a == Attempt(entry)
      IN  /\ IsJob(a) /\ a.call = entry.call /\ a.op = entry.op /\ a.answer = entry.answer
          /\ TodoInv(a, over) \/ a.todo = <<>>
          /\ a.todo = <<>> =>
                \/ entry.op = "CreateMultipartUpload"
                \/ entry.op = "Move" /\ entry.call.name = entry.call.to
  BY <1>1, <1>3, <1>4, AttemptParts, Zenon
<1>6. QED
  BY <1>1, <1>2, <1>5

(* A call under way, whatever requests it has still to send. *)
UnderWay(j, over) ==
    /\ IsJob(j) /\ j.answer = "pending" /\ j.call \in Calls
    /\ OpFits(j)
    /\ j.call.op = "Move" => j.call.name # j.call.to
    /\ Asked(j.call, over)

LEMMA PendingIsUnderWay ==
    ASSUME NEW j, NEW over, UnderWay(j, over), TodoInv(j, over)
    PROVE  PendingInv(j, over)
BY DEF UnderWay, PendingInv

(* util.Copy goes on to read its source, or to write what it has read. *)
LEMMA StreamParts ==
    ASSUME ObjectStorageAssumption, NEW j, NEW over, IsJob(j), j.answer = "pending", j.call \in Calls,
           j.call.op = "util.Copy", Asked(j.call, over), NEW op \in {"ReadFile", "Write"}
    PROVE  IsJob(Enter(j, op)) /\ PendingInv(Enter(j, op), over) /\ Enter(j, op).answer = "pending"
<1> DEFINE next == Enter(j, op)
<1>1. /\ IsJob(next) /\ next.call = j.call /\ next.op = op /\ next.answer = "pending"
      /\ TodoInv(next, over)
  BY EnterParts
<1> HIDE DEF next
<1>2. PendingInv(next, over)
  BY <1>1 DEF PendingInv, OpFits
<1>3. QED
  BY <1>1, <1>2 DEF next

LEMMA GiveUpParts ==
    ASSUME ObjectStorageAssumption, NEW j, NEW over, UnderWay(j, over)
    PROVE  IsJob(GiveUp(j)) /\ PendingInv(GiveUp(j), over) /\ GiveUp(j).answer # "ok"
<1>1. CASE j.call.op = "util.Copy" /\ j.op = "Copy"
  <2>1. GiveUp(j) = Enter(j, "ReadFile")
    BY <1>1 DEF GiveUp
  <2>2. IsJob(j) /\ j.answer = "pending" /\ j.call \in Calls /\ Asked(j.call, over)
    BY DEF UnderWay
  <2>3. QED
    BY <2>1, <2>2, <1>1, StreamParts
<1>2. CASE ~(j.call.op = "util.Copy" /\ j.op = "Copy")
  BY <1>2, EndedIsJob DEF GiveUp
<1>3. QED
  BY <1>1, <1>2

LEMMA AfterErrorParts ==
    ASSUME ObjectStorageAssumption, NEW j, NEW over, UnderWay(j, over), NEW e, NEW after \in AfterError(j, e)
    PROVE  IsJob(after) /\ PendingInv(after, over) /\ after.answer # "ok"
<1>1. CASE after = GiveUp(j)
  BY <1>1, GiveUpParts
<1>2. CASE after = Attempt(j) /\ Retried(j.op)
  <2>1. j.op \notin {"UploadMultipartChunk", "CreateMultipartUpload"}
    BY <1>2 DEF Retried
  <2>2. /\ IsJob(after) /\ after.call = j.call /\ after.op = j.op /\ after.answer = "pending"
        /\ TodoInv(after, over)
    BY <2>1, <1>2, AttemptParts DEF UnderWay, OpFits
  <2>3. UnderWay(after, over)
    BY <2>2 DEF UnderWay, OpFits
  <2>4. QED
    BY <2>2, <2>3, PendingIsUnderWay
<1>3. QED
  BY <1>1, <1>2 DEF AfterError

(* The requests that are left when the first is done.  A completion that has stored its object *)
(* is over.                                                                                    *)
LEMMA RestOfTodo ==
    ASSUME NEW j, NEW over, NEW more, over \subseteq more, UnderWay(j, over), j.todo # <<>>,
           j.op = "UploadMultipartChunk" => Len(j.todo) = 1,
           j.op = "CompleteMultipartUpload" => StoresFirst(j, over),
           j.op \notin {"UploadMultipartChunk", "CompleteMultipartUpload"} =>
              \A l \in DOMAIN j.todo : SparesChunks(j.todo[l], over),
           \A l \in DOMAIN j.todo :
              /\ j.todo[l].verb = "stat" => l = 1 /\ Len(j.todo) >= 2
              /\ j.op \in {"UploadMultipartChunk", "CompleteMultipartUpload"} =>
                    j.todo[l].verb \notin {"copy", "stat", "fill", "get"},
           j.op = "CompleteMultipartUpload" /\ Head(j.todo).to = Object(j.call.name) =>
              j.call.upload \in more,
           Tail(j.todo) # <<>>
    PROVE  LET rest == [j EXCEPT !.todo = Tail(@)]
           IN  UnderWay(rest, more) /\ TodoInv(rest, more)
<1> DEFINE rest == [j EXCEPT !.todo = Tail(@)]
<1>1. j.todo \in Seq(RequestTypes)
  BY DEF UnderWay, IsJob
<1>2. /\ Tail(j.todo) \in Seq(RequestTypes) /\ Len(j.todo) \in Nat
      /\ Len(Tail(j.todo)) = Len(j.todo) - 1
      /\ \A l \in DOMAIN Tail(j.todo) : l \in Nat /\ l >= 1 /\ l + 1 \in DOMAIN j.todo
                                        /\ Tail(j.todo)[l] = j.todo[l + 1]
      /\ \A l \in DOMAIN j.todo : l \in Nat /\ l # 1 => l - 1 \in DOMAIN Tail(j.todo)
      /\ Head(j.todo) = j.todo[1]
      /\ \A l \in DOMAIN j.todo : l \in Nat /\ l >= 1
  BY <1>1
<1>3. /\ IsJob(rest) /\ rest.todo = Tail(j.todo) /\ rest.call = j.call /\ rest.op = j.op
      /\ rest.answer = j.answer
  BY <1>2 DEF UnderWay, IsJob
<1> HIDE DEF rest
<1>4. UnderWay(rest, more)
  BY <1>3 DEF UnderWay, OpFits, Asked
<1>5. j.op # "UploadMultipartChunk"
  BY <1>1
<1>6. j.op = "CompleteMultipartUpload" => StoresFirst(rest, more)
  <2>1. SUFFICES ASSUME j.op = "CompleteMultipartUpload"
                 PROVE  StoresFirst(rest, more)
    OBVIOUS
  <2>2. \A l \in DOMAIN rest.todo :
           /\ rest.todo[l].to[3] # "chunk"
           /\ rest.todo[l].gone \subseteq PartsOf(rest.call.upload)
           /\ rest.todo[l].verb = "sweep" => rest.todo[l].to = NoKey
    BY <2>1, <1>2, <1>3 DEF StoresFirst
  <2>3. CASE j.call.upload \in more
    BY <2>2, <2>3, <1>3 DEF StoresFirst
  <2>4. CASE j.call.upload \notin more
    <3>1. PICK l \in DOMAIN j.todo : /\ j.todo[l].to = Object(j.call.name)
                                     /\ \A m \in 1 .. (l - 1) : j.todo[m].gone = {}
      BY <2>1, <2>4 DEF StoresFirst
    <3>2. l # 1
      BY <3>1, <2>1, <2>4, <1>2
    <3>3. l - 1 \in DOMAIN rest.todo /\ rest.todo[l - 1].to = Object(rest.call.name)
      BY <3>1, <3>2, <1>2, <1>3
    <3>4. \A m \in 1 .. (l - 1 - 1) : rest.todo[m].gone = {}
      <4>1. SUFFICES ASSUME NEW m \in 1 .. (l - 1 - 1)
                     PROVE  rest.todo[m].gone = {}
        OBVIOUS
      <4>2. DOMAIN j.todo = 1 .. Len(j.todo) /\ DOMAIN Tail(j.todo) = 1 .. (Len(j.todo) - 1)
        <5>1. DOMAIN j.todo = 1 .. Len(j.todo)
          BY <1>1
        <5>2. DOMAIN Tail(j.todo) = 1 .. Len(Tail(j.todo))
          BY <1>2
        <5>3. QED
          BY <5>1, <5>2, <1>2
      <4>3. m \in DOMAIN Tail(j.todo) /\ m + 1 \in 1 .. (l - 1)
        BY <4>2, <1>2
      <4>4. QED
        BY <4>3, <3>1, <1>2, <1>3
    <3>5. QED
      BY <2>2, <3>3, <3>4 DEF StoresFirst
  <2>5. QED
    BY <2>3, <2>4
<1>7. j.op # "CompleteMultipartUpload" => \A l \in DOMAIN rest.todo : SparesChunks(rest.todo[l], more)
  BY <1>2, <1>3, <1>5 DEF SparesChunks
<1>8. \A l \in DOMAIN rest.todo :
         /\ rest.todo[l].verb # "stat"
         /\ rest.op = "CompleteMultipartUpload" => rest.todo[l].verb \notin {"copy", "stat", "fill", "get"}
  BY <1>2, <1>3
<1>9. TodoInv(rest, more)
  BY <1>3, <1>5, <1>6, <1>7, <1>8 DEF TodoInv
<1>10. QED
  BY <1>4, <1>9 DEF rest

(* What a call does after a request that succeeded. *)
LEMMA ProceedParts ==
    ASSUME ObjectStorageAssumption, NEW j, NEW over, NEW more, over \subseteq more,
           IsJob(j), j.answer = "pending", PendingInv(j, over),
           NEW went, IsJob(went), went.call = j.call, went.op = j.op, went.todo = j.todo,
           went.answer = j.answer,
           j.op = "CompleteMultipartUpload" /\ Head(j.todo).to = Object(j.call.name) =>
              j.call.upload \in more
    PROVE  IsJob(Proceed(went)) /\ PendingInv(Proceed(went), more)
<1> DEFINE rest == [went EXCEPT !.todo = Tail(@)]
<1>1. /\ j.todo \in Seq(RequestTypes) /\ j.todo # <<>>
      /\ Tail(j.todo) \in Seq(RequestTypes)
      /\ j.op = "UploadMultipartChunk" => Len(j.todo) = 1
  BY DEF IsJob, PendingInv, TodoInv, StoresChunk
<1>2. /\ IsJob(rest) /\ rest.todo = Tail(j.todo) /\ rest.call = j.call /\ rest.op = j.op
      /\ rest.answer = "pending"
  BY <1>1 DEF IsJob
<1>3. UnderWay(went, over)
  BY DEF UnderWay, PendingInv, OpFits
<1>4. /\ went.op = "UploadMultipartChunk" => Len(went.todo) = 1
      /\ went.op = "CompleteMultipartUpload" => StoresFirst(went, over)
      /\ went.op \notin {"UploadMultipartChunk", "CompleteMultipartUpload"} =>
            \A l \in DOMAIN went.todo : SparesChunks(went.todo[l], over)
      /\ \A l \in DOMAIN went.todo :
            /\ went.todo[l].verb = "stat" => l = 1 /\ Len(went.todo) >= 2
            /\ went.op \in {"UploadMultipartChunk", "CompleteMultipartUpload"} =>
                  went.todo[l].verb \notin {"copy", "stat", "fill", "get"}
      /\ went.op = "CompleteMultipartUpload" /\ Head(went.todo).to = Object(went.call.name) =>
            went.call.upload \in more
  BY <1>1 DEF PendingInv, TodoInv, StoresFirst
<1>9. Proceed(went) = IF rest.todo # <<>> THEN rest
                       ELSE IF went.call.op = "util.Copy" /\ went.op = "ReadFile" THEN Enter(rest, "Write")
                       ELSE Ended(went, "ok")
  BY DEF Proceed
<1>5. CASE Tail(j.todo) # <<>>
  <2>1. Proceed(went) = rest
    BY <1>5, <1>2, <1>9
  <2>2. UnderWay(rest, more) /\ TodoInv(rest, more)
    BY <1>1, <1>3, <1>4, <1>5, RestOfTodo
  <2> HIDE DEF rest
  <2>3. QED
    BY <2>1, <2>2, <1>2, PendingIsUnderWay
<1>6. CASE Tail(j.todo) = <<>> /\ j.call.op = "util.Copy" /\ j.op = "ReadFile"
  <2> HIDE DEF rest
  <2>1. Proceed(went) = Enter(rest, "Write")
    BY <1>6, <1>2, <1>9
  <2>2. rest.call \in Calls /\ Asked(rest.call, more)
    BY <1>2 DEF PendingInv, Asked
  <2>3. IsJob(rest) /\ rest.answer = "pending" /\ rest.call.op = "util.Copy"
    BY <1>2, <1>6
  <2>4. QED
    BY <2>1, <2>2, <2>3, StreamParts
<1>7. CASE Tail(j.todo) = <<>> /\ ~(j.call.op = "util.Copy" /\ j.op = "ReadFile")
  <2> HIDE DEF rest
  <2>1. Proceed(went) = Ended(went, "ok")
    BY <1>7, <1>2, <1>9
  <2>2. QED
    BY <2>1, EndedIsJob
<1>8. QED
  BY <1>5, <1>6, <1>7

(* What a call does after a request that failed. *)
LEMMA FailedParts ==
    ASSUME ObjectStorageAssumption, NEW j, NEW over,
           IsJob(j), j.answer = "pending", PendingInv(j, over),
           NEW went, IsJob(went), went.call = j.call, went.op = j.op, went.todo = j.todo,
           went.answer = j.answer, NEW e, NEW after \in Failed(went, e)
    PROVE  IsJob(after) /\ PendingInv(after, over) /\ after.answer # "ok"
<1> DEFINE r == Head(j.todo)
           size == [r EXCEPT !.verb = "stat", !.to = NoKey]
           asks == [went EXCEPT !.err = e, !.todo = <<size>> \o @]
<1>1. j.todo \in Seq(RequestTypes) /\ j.todo # <<>> /\ r \in RequestTypes /\ r = j.todo[1]
  BY DEF IsJob, PendingInv, TodoInv
<1>2. UnderWay(went, over)
  BY DEF UnderWay, PendingInv, OpFits
<1>3. CASE after = Ended(went, "logged")
  BY <1>3, EndedIsJob
<1>4. CASE after = asks /\ r.verb = "copy"
  <2>1. /\ size \in RequestTypes /\ size.verb = "stat" /\ size.gone = r.gone /\ size.to = NoKey
        /\ size.to[3] # "chunk"
    BY <1>1, KeyParts DEF RequestTypes, None
  <2> HIDE DEF size, r
  <2>2. /\ <<size>> \o j.todo \in Seq(RequestTypes) /\ <<size>> \o j.todo # <<>>
        /\ Len(<<size>> \o j.todo) = Len(j.todo) + 1 /\ Len(j.todo) >= 1
        /\ (<<size>> \o j.todo)[1] = size
        /\ \A l \in DOMAIN (<<size>> \o j.todo) :
              l \in Nat /\ (l # 1 => l - 1 \in DOMAIN j.todo /\ (<<size>> \o j.todo)[l] = j.todo[l - 1])
    BY <1>1, <2>1
  <2>3. /\ IsJob(asks) /\ asks.todo = <<size>> \o j.todo /\ asks.call = j.call /\ asks.op = j.op
        /\ asks.answer = "pending"
    BY <2>2 DEF IsJob
  <2> HIDE DEF asks
  <2>4. j.op \notin {"UploadMultipartChunk", "CompleteMultipartUpload"}
    <3>1. 1 \in DOMAIN j.todo /\ j.todo[1].verb = "copy"
      BY <1>1, <1>4
    <3>2. QED
      BY <3>1 DEF PendingInv, TodoInv
  <2>5. \A l \in DOMAIN j.todo : SparesChunks(j.todo[l], over)
    BY <2>4 DEF PendingInv, TodoInv
  <2>6. SparesChunks(size, over)
    <3>1. SparesChunks(j.todo[1], over)
      BY <2>5, <1>1
    <3>2. QED
      BY <3>1, <2>1, <1>1 DEF SparesChunks
  <2>7. \A l \in DOMAIN j.todo : j.todo[l].verb # "stat"
    BY <1>1, <1>4 DEF PendingInv, TodoInv
  <2>8. \A l \in DOMAIN asks.todo : /\ SparesChunks(asks.todo[l], over)
                                    /\ asks.todo[l].verb = "stat" => l = 1
    BY <2>2, <2>3, <2>5, <2>6, <2>7
  <2>9. TodoInv(asks, over)
    BY <2>2, <2>3, <2>4, <2>8 DEF TodoInv
  <2>10. UnderWay(asks, over)
    BY <2>3, <1>2 DEF UnderWay, OpFits
  <2>11. QED
    BY <1>4, <2>3, <2>9, <2>10, PendingIsUnderWay
<1>5. CASE \E f : after \in AfterError(went, f)
  BY <1>2, <1>5, AfterErrorParts
<1>6. QED
  BY <1>3, <1>4, <1>5 DEF Failed

(* The size of the source of a copy that failed is known: it is copied in parts. *)
LEMMA LargeParts ==
    ASSUME ObjectStorageAssumption, NEW j, NEW over,
           IsJob(j), j.answer = "pending", PendingInv(j, over), Head(j.todo).verb = "stat"
    PROVE  LET large == [j EXCEPT !.todo = <<[j.todo[2] EXCEPT !.verb = "copyLarge"]>> \o SubSeq(@, 3, Len(@))]
           IN  IsJob(large) /\ PendingInv(large, over)
<1> DEFINE copy == [j.todo[2] EXCEPT !.verb = "copyLarge"]
           rest == SubSeq(j.todo, 3, Len(j.todo))
           large == [j EXCEPT !.todo = <<copy>> \o SubSeq(@, 3, Len(@))]
<1>1. /\ j.todo \in Seq(RequestTypes) /\ j.todo # <<>> /\ Head(j.todo) = j.todo[1]
      /\ 1 \in DOMAIN j.todo /\ Len(j.todo) \in Nat
  BY DEF IsJob, PendingInv, TodoInv
<1>2. /\ Len(j.todo) >= 2
      /\ j.op \notin {"UploadMultipartChunk", "CompleteMultipartUpload"}
      /\ \A l \in DOMAIN j.todo : /\ SparesChunks(j.todo[l], over)
                                  /\ j.todo[l].verb = "stat" => l = 1
  BY <1>1 DEF PendingInv, TodoInv
<1>3. 2 \in DOMAIN j.todo
  BY <1>1, <1>2
<1>4. copy \in RequestTypes /\ copy.verb = "copyLarge" /\ copy.to = j.todo[2].to /\ copy.gone = j.todo[2].gone
  <2>1. j.todo[2] \in RequestTypes
    BY <1>1, <1>3
  <2>2. QED
    BY <2>1 DEF RequestTypes
<1>5. SparesChunks(copy, over)
  BY <1>2, <1>3, <1>4 DEF SparesChunks
<1>6. /\ rest \in Seq(RequestTypes)
      /\ \A l \in DOMAIN rest : l \in Nat /\ l >= 1 /\ l + 2 \in DOMAIN j.todo /\ rest[l] = j.todo[l + 2]
  BY <1>1, <1>2
<1> HIDE DEF copy, rest
<1>7. /\ <<copy>> \o rest \in Seq(RequestTypes) /\ <<copy>> \o rest # <<>>
      /\ \A l \in DOMAIN (<<copy>> \o rest) :
            \/ (<<copy>> \o rest)[l] = copy
            \/ l - 1 \in DOMAIN rest /\ (<<copy>> \o rest)[l] = rest[l - 1]
  BY <1>4, <1>6
<1>8. \A l \in DOMAIN (<<copy>> \o rest) :
         SparesChunks((<<copy>> \o rest)[l], over) /\ (<<copy>> \o rest)[l].verb # "stat"
  <2>1. SUFFICES ASSUME NEW l \in DOMAIN (<<copy>> \o rest)
                 PROVE  SparesChunks((<<copy>> \o rest)[l], over) /\ (<<copy>> \o rest)[l].verb # "stat"
    OBVIOUS
  <2>2. CASE (<<copy>> \o rest)[l] = copy
    BY <2>2, <1>4, <1>5
  <2>3. CASE l - 1 \in DOMAIN rest /\ (<<copy>> \o rest)[l] = rest[l - 1]
    <3>1. l - 1 + 2 \in DOMAIN j.todo /\ rest[l - 1] = j.todo[l - 1 + 2] /\ l - 1 \in Nat /\ l - 1 >= 1
      BY <2>3, <1>6
    <3>2. l - 1 + 2 # 1
      BY <3>1
    <3>3. QED
      BY <2>3, <3>1, <3>2, <1>2
  <2>4. QED
    BY <2>2, <2>3, <1>7
<1>9. /\ IsJob(large) /\ large.todo = <<copy>> \o rest /\ large.call = j.call /\ large.op = j.op
      /\ large.answer = "pending"
  BY <1>7 DEF IsJob, rest
<1> HIDE DEF large
<1>10. TodoInv(large, over)
  BY <1>2, <1>7, <1>8, <1>9 DEF TodoInv
<1>11. PendingInv(large, over)
  BY <1>9, <1>10 DEF PendingInv, OpFits
<1>12. QED
  BY <1>9, <1>11 DEF large, copy

(* A sweep of GCS deletes the next object of its listing. *)
LEMMA SweepParts ==
    ASSUME ObjectStorageAssumption, NEW j, NEW over, IsJob(j), j.answer = "pending", PendingInv(j, over),
           Head(j.todo).verb = "sweep", NEW key \in Head(j.todo).gone
    PROVE  LET after == [j EXCEPT !.todo = <<[Delete(key) EXCEPT !.soft = Head(j.todo).soft]>> \o @]
           IN  IsJob(after) /\ PendingInv(after, over)
<1> DEFINE r == Head(j.todo)
           next == [Delete(key) EXCEPT !.soft = r.soft]
           todo == <<next>> \o j.todo
           after == [j EXCEPT !.todo = <<next>> \o @]
<1>1. /\ j.todo \in Seq(RequestTypes) /\ j.todo # <<>> /\ r \in RequestTypes /\ r = j.todo[1]
      /\ 1 \in DOMAIN j.todo
  BY DEF IsJob, PendingInv, TodoInv
<1>2. key \in Places
  BY <1>1 DEF RequestTypes
<1>3. /\ next \in RequestTypes /\ next.verb = "delete" /\ next.gone = {key} /\ next.to = NoKey
      /\ next.to[3] # "chunk"
  <2>1. Delete(key) \in RequestTypes
    BY <1>2, RequestParts
  <2>2. next \in RequestTypes
    BY <2>1, <1>1 DEF RequestTypes
  <2>3. QED
    BY <2>2, KeyParts DEF Delete, Request, None
<1> HIDE DEF next, r
<1>4. /\ todo \in Seq(RequestTypes) /\ todo # <<>>
      /\ DOMAIN todo = 1 .. (Len(j.todo) + 1) /\ DOMAIN j.todo = 1 .. Len(j.todo) /\ Len(j.todo) \in Nat
      /\ todo[1] = next
      /\ \A l \in DOMAIN j.todo : todo[l + 1] = j.todo[l]
  BY <1>1, <1>3
<1>5. /\ IsJob(after) /\ after.todo = todo /\ after.call = j.call /\ after.op = j.op
      /\ after.answer = "pending"
  BY <1>4 DEF IsJob
<1> HIDE DEF after, todo
<1>6. \A l \in DOMAIN todo : \/ l = 1 /\ todo[l] = next
                             \/ l - 1 \in DOMAIN j.todo /\ todo[l] = j.todo[l - 1]
  <2>1. SUFFICES ASSUME NEW l \in DOMAIN todo, l # 1
                 PROVE  l - 1 \in DOMAIN j.todo /\ todo[l] = j.todo[l - 1]
    BY <1>4
  <2>2. l - 1 \in DOMAIN j.todo /\ l - 1 + 1 = l
    BY <1>4, <2>1
  <2>3. QED
    BY <2>2, <1>4
<1>7. j.op # "UploadMultipartChunk" /\ r.verb = "sweep"
  BY <1>1 DEF PendingInv, TodoInv, StoresChunk, r
<1>8. \A l \in DOMAIN j.todo : j.todo[l].verb # "stat"
  BY <1>1, <1>7 DEF PendingInv, TodoInv
<1>9. \A l \in DOMAIN todo :
         /\ todo[l].verb # "stat"
         /\ j.op = "CompleteMultipartUpload" => todo[l].verb \notin {"copy", "stat", "fill", "get"}
  BY <1>3, <1>6, <1>8 DEF PendingInv, TodoInv
<1>10. key \in r.gone
  BY DEF r
<1>11. CASE j.op = "CompleteMultipartUpload"
  <2>1. StoresFirst(j, over)
    BY <1>11 DEF PendingInv, TodoInv
  <2>2. \A l \in DOMAIN todo :
           /\ todo[l].to[3] # "chunk"
           /\ todo[l].gone \subseteq PartsOf(j.call.upload)
           /\ todo[l].verb = "sweep" => todo[l].to = NoKey
    BY <2>1, <1>1, <1>3, <1>6, <1>10 DEF StoresFirst
  <2>3. j.call.upload \in over
    <3>1. SUFFICES ASSUME NEW l \in DOMAIN j.todo, j.todo[l].to = Object(j.call.name),
                          \A m \in 1 .. (l - 1) : j.todo[m].gone = {}
                   PROVE  FALSE
      BY <2>1 DEF StoresFirst
    <3>2. r.to = NoKey
      BY <2>1, <1>1, <1>7 DEF StoresFirst
    <3>3. l # 1
      BY <3>1, <3>2, <1>1 DEF Object, NoKey, None
    <3>4. 1 \in 1 .. (l - 1)
      BY <3>3, <1>4
    <3>5. QED
      BY <3>1, <3>4, <1>1, <1>10
  <2>4. StoresFirst(after, over)
    BY <2>2, <2>3, <1>5 DEF StoresFirst
  <2>5. TodoInv(after, over)
    BY <2>4, <1>4, <1>5, <1>9, <1>11 DEF TodoInv
  <2>6. QED
    BY <2>5, <1>5 DEF PendingInv, OpFits, after, next, r
<1>12. CASE j.op # "CompleteMultipartUpload"
  <2>1. \A l \in DOMAIN j.todo : SparesChunks(j.todo[l], over)
    BY <1>7, <1>12 DEF PendingInv, TodoInv
  <2>2. SparesChunks(next, over)
    BY <2>1, <1>1, <1>3, <1>10 DEF SparesChunks
  <2>3. \A l \in DOMAIN todo : SparesChunks(todo[l], over)
    BY <2>1, <2>2, <1>6
  <2>4. TodoInv(after, over)
    BY <2>3, <1>4, <1>5, <1>7, <1>9, <1>12 DEF TodoInv
  <2>5. QED
    BY <2>4, <1>5 DEF PendingInv, OpFits, after, next, r
<1>13. QED
  BY <1>11, <1>12

-----------------------------------------------------------------------------
(* Chunks *)

(* The next request of a call removes no chunk that a caller may still want, except when it   *)
(* stores the object of the upload; and it stores no chunk, except the one it was given.      *)
LEMMA NextRequest ==
    ASSUME ObjectStorageAssumption, NEW j, NEW over, IsJob(j), j.answer = "pending", PendingInv(j, over)
    PROVE  LET r == Head(j.todo)
           IN  /\ r \in RequestTypes
               /\ \A u \in Uploads \ over, n \in ChunkNumbers : Chunk(u, n) \in r.gone =>
                     /\ j.op = "CompleteMultipartUpload" /\ u = j.call.upload
                     /\ r.to = Object(j.call.name) /\ r.verb # "sweep"
               /\ j.op # "UploadMultipartChunk" =>
                     \A u \in Uploads, n \in ChunkNumbers : Chunk(u, n) # r.to
               /\ j.op = "UploadMultipartChunk" =>
                     /\ j.call.op = "UploadMultipartChunk" /\ j.read = 0
                     /\ j.call.upload \in Uploads /\ j.call.chunk \in ChunkNumbers
                     /\ r.to = Chunk(j.call.upload, j.call.chunk) /\ r.verb = "put" /\ r.gone = {}
               /\ j.op = "CompleteMultipartUpload" => j.call.upload \in Uploads
<1> DEFINE r == Head(j.todo)
<1>1. /\ j.todo \in Seq(RequestTypes) /\ j.todo # <<>> /\ r \in RequestTypes /\ r = j.todo[1]
      /\ 1 \in DOMAIN j.todo
  BY DEF IsJob, PendingInv, TodoInv
<1>2. CallFits(j.call)
  BY CallParts DEF PendingInv
<1> HIDE DEF r
<1>3. CASE j.op = "UploadMultipartChunk"
  <2>1. StoresChunk(j) /\ j.call.op = "UploadMultipartChunk"
    BY <1>3 DEF PendingInv, TodoInv, OpFits
  <2>2. QED
    BY <2>1, <1>1, <1>2, <1>3 DEF StoresChunk, CallFits, r
<1>4. CASE j.op = "CompleteMultipartUpload"
  <2>1. StoresFirst(j, over) /\ j.call.op = "CompleteMultipartUpload"
    BY <1>4 DEF PendingInv, TodoInv, OpFits
  <2>2. r.to[3] # "chunk" /\ r.gone \subseteq PartsOf(j.call.upload) /\ (r.verb = "sweep" => r.to = NoKey)
    BY <2>1, <1>1 DEF StoresFirst
  <2>3. \A u \in Uploads, n \in ChunkNumbers : Chunk(u, n) # r.to
    BY <2>2, KeyParts
  <2>4. ASSUME NEW u \in Uploads \ over, NEW n \in ChunkNumbers, Chunk(u, n) \in r.gone
        PROVE  u = j.call.upload /\ r.to = Object(j.call.name) /\ r.verb # "sweep"
    <3>1. u = j.call.upload
      BY <2>2, <2>4, KeyParts DEF PartsOf
    <3>2. PICK l \in DOMAIN j.todo : /\ j.todo[l].to = Object(j.call.name)
                                     /\ \A m \in 1 .. (l - 1) : j.todo[m].gone = {}
      BY <2>1, <2>4, <3>1 DEF StoresFirst
    <3>3. l = 1
      <4>1. l \in Nat /\ l >= 1
        BY <1>1
      <4>2. l # 1 => 1 \in 1 .. (l - 1)
        BY <4>1
      <4>3. QED
        BY <4>2, <3>2, <2>4, <1>1
    <3>4. r.to = Object(j.call.name)
      BY <3>2, <3>3, <1>1
    <3>5. QED
      BY <3>1, <3>4, <2>2 DEF Object, NoKey, None
  <2>5. QED
    BY <2>1, <2>3, <2>4, <1>1, <1>2, <1>4 DEF CallFits, r
<1>5. CASE j.op \notin {"UploadMultipartChunk", "CompleteMultipartUpload"}
  <2>1. SparesChunks(r, over)
    BY <1>1, <1>5 DEF PendingInv, TodoInv
  <2>2. \A u \in Uploads, n \in ChunkNumbers : Chunk(u, n) # r.to
    BY <2>1, KeyParts DEF SparesChunks
  <2>3. QED
    BY <2>1, <2>2, <1>1, <1>5 DEF SparesChunks, r
<1>6. QED
  BY <1>3, <1>4, <1>5

LEMMA WholeOfOne ==
    ASSUME NEW e
    PROVE  SubSeq(<<e>>, 1, 1) = <<e>>
<1>1. <<e>> \in Seq({e}) /\ Len(<<e>>) = 1 /\ <<e>>[1] = e
  OBVIOUS
<1>2. SubSeq(<<e>>, 1, 1) \in Seq({e}) /\ Len(SubSeq(<<e>>, 1, 1)) = 1 /\ SubSeq(<<e>>, 1, 1)[1] = e
  BY <1>1
<1>3. \A s \in Seq({e}) : Len(s) = 1 /\ s[1] = e => s = <<e>>
  OBVIOUS
<1>4. QED
  BY <1>2, <1>3

(* A request that takes effect: an upload has stored its chunk, and other chunks stay. *)
LEMMA EffectKeeps ==
    ASSUME ObjectStorageAssumption, ObjectTypeOK, NEW c \in Clients, Pending(c),
           PendingInv(job[c], released), Effect(job[c], Head(job[c].todo))
    PROVE  /\ released \subseteq released' /\ released' \subseteq Uploads
           /\ job[c].op = "CompleteMultipartUpload" /\ Head(job[c].todo).to = Object(job[c].call.name) =>
                 job[c].call.upload \in released'
           /\ \A u \in Uploads \ released', n \in ChunkNumbers :
                 bucket[Chunk(u, n)] = PieceOf(u, n) => bucket'[Chunk(u, n)] = PieceOf(u, n)
           /\ job[c].op = "UploadMultipartChunk" =>
                 bucket'[Chunk(job[c].call.upload, job[c].call.chunk)]
                    = PieceOf(job[c].call.upload, job[c].call.chunk)
<1> DEFINE j == job[c]
           r == Head(j.todo)
<1>1. IsJob(j) /\ j.answer = "pending"
  BY DEF ObjectTypeOK, Pending
<1>2. /\ \A u \in Uploads \ released, n \in ChunkNumbers : Chunk(u, n) \in r.gone =>
            /\ j.op = "CompleteMultipartUpload" /\ u = j.call.upload
            /\ r.to = Object(j.call.name)
      /\ j.op # "UploadMultipartChunk" =>
            \A u \in Uploads, n \in ChunkNumbers : Chunk(u, n) # r.to
      /\ j.op = "UploadMultipartChunk" =>
            /\ j.call.op = "UploadMultipartChunk" /\ j.read = 0
            /\ j.call.upload \in Uploads /\ j.call.chunk \in ChunkNumbers
            /\ r.to = Chunk(j.call.upload, j.call.chunk) /\ r.verb = "put" /\ r.gone = {}
      /\ j.op = "CompleteMultipartUpload" => j.call.upload \in Uploads
  BY <1>1, NextRequest
<1>3. /\ bucket' = After(j, r)
      /\ released' = IF j.op = "CompleteMultipartUpload" /\ r.to = Object(j.call.name)
                     THEN released \cup {j.call.upload} ELSE released
  BY DEF Effect
<1> HIDE DEF j, r
<1>4. /\ released \subseteq released' /\ released' \subseteq Uploads
      /\ j.op = "CompleteMultipartUpload" /\ r.to = Object(j.call.name) => j.call.upload \in released'
  BY <1>2, <1>3 DEF ObjectTypeOK
<1>5. \A u \in Uploads, n \in ChunkNumbers : Chunk(u, n) \in Keys
  BY KeyParts
<1>6. \A u \in Uploads \ released', n \in ChunkNumbers : Chunk(u, n) \notin r.gone
  BY <1>2, <1>4
<1>7. \A u \in Uploads \ released', n \in ChunkNumbers :
         Chunk(u, n) # r.to => bucket'[Chunk(u, n)] = bucket[Chunk(u, n)]
  BY <1>3, <1>5, <1>6 DEF After, Listed
<1>8. CASE j.op = "UploadMultipartChunk"
  <2> DEFINE u == j.call.upload
             n == j.call.chunk
  <2>1. Content(j, r) = PieceOf(u, n)
    <3>1. Content(j, r) = Unread(j)
      BY <1>2, <1>8 DEF Content
    <3>2. Source(j) = PieceOf(u, n)
      BY <1>2, <1>8 DEF Source
    <3>3. SubSeq(PieceOf(u, n), 0 + 1, Len(PieceOf(u, n))) = PieceOf(u, n)
      <4>1. Len(PieceOf(u, n)) = 1
        BY DEF PieceOf
      <4>2. QED
        BY <4>1, WholeOfOne DEF PieceOf
    <3>4. QED
      BY <3>1, <3>2, <3>3, <1>2, <1>8 DEF Unread
  <2>2. bucket'[Chunk(u, n)] = PieceOf(u, n)
    BY <2>1, <1>2, <1>3, <1>5, <1>8 DEF After
  <2>3. \A v \in Uploads, m \in ChunkNumbers : Chunk(v, m) = Chunk(u, n) => v = u /\ m = n
    BY DEF Chunk
  <2>4. \A v \in Uploads \ released', m \in ChunkNumbers :
           bucket[Chunk(v, m)] = PieceOf(v, m) => bucket'[Chunk(v, m)] = PieceOf(v, m)
    BY <2>2, <2>3, <1>2, <1>7, <1>8
  <2>5. QED
    BY <2>2, <2>4, <1>4 DEF j, r
<1>9. CASE j.op # "UploadMultipartChunk"
  BY <1>2, <1>4, <1>7, <1>9 DEF j, r
<1>10. QED
  BY <1>8, <1>9

(* A request that failed before it took effect took no chunk. *)
LEMMA PartKeeps ==
    ASSUME ObjectStorageAssumption, ObjectTypeOK, NEW c \in Clients, Pending(c),
           PendingInv(job[c], released), bucket' \in AfterPart(Head(job[c].todo))
    PROVE  \A u \in Uploads \ released, n \in ChunkNumbers :
              bucket'[Chunk(u, n)] = bucket[Chunk(u, n)]
<1> DEFINE r == Head(job[c].todo)
<1>1. IsJob(job[c]) /\ job[c].answer = "pending"
  BY DEF ObjectTypeOK, Pending
<1>2. \A u \in Uploads \ released, n \in ChunkNumbers : Chunk(u, n) \in r.gone => r.verb # "sweep"
  BY <1>1, NextRequest
<1> HIDE DEF r
<1>3. PICK removed \in SUBSET (IF r.verb = "sweep" /\ backend = "s3" THEN Listed(r.gone) ELSE {}) :
         bucket' = [k \in Keys |-> IF k \in removed THEN Absent ELSE bucket[k]]
  BY DEF AfterPart, r
<1>4. \A u \in Uploads \ released, n \in ChunkNumbers : Chunk(u, n) \notin removed
  BY <1>2, <1>3 DEF Listed
<1>5. \A u \in Uploads, n \in ChunkNumbers : Chunk(u, n) \in Keys
  BY KeyParts
<1>6. QED
  BY <1>3, <1>4, <1>5

-----------------------------------------------------------------------------
(* Steps *)

LEMMA JobStep ==
    ASSUME ObjectIInv, NEW c \in Clients, NEW after, job' = [job EXCEPT ![c] = after],
           IsJob(after), PendingInv(after, released'), released \subseteq released'
    PROVE  /\ job' = [d \in Clients |-> job'[d]]
           /\ \A d \in Clients : IsJob(job'[d]) /\ PendingInv(job'[d], released')
<1>1. \A d \in Clients : job'[d] = IF d = c THEN after ELSE job[d]
  BY DEF ObjectIInv, ObjectTypeOK
<1>2. job' = [d \in Clients |-> job'[d]]
  BY DEF ObjectIInv, ObjectTypeOK
<1>3. \A d \in Clients : PendingInv(job[d], released')
  BY MoreOver DEF ObjectIInv
<1>4. QED
  BY <1>1, <1>2, <1>3 DEF ObjectIInv, ObjectTypeOK

LEMMA LearnedParts ==
    ASSUME ObjectTypeOK, NEW j, NEW after, Learned(j, after),
           j.op \in {"CreateMultipartUpload", "UploadMultipartChunk"} => j.call.upload \in Uploads,
           j.op = "UploadMultipartChunk" => j.call.chunk \in ChunkNumbers
    PROVE  /\ issued' \subseteq Uploads /\ acked' \in [Uploads -> SUBSET ChunkNumbers]
           /\ \A u \in Uploads, n \in ChunkNumbers : n \in acked'[u] =>
                 \/ n \in acked[u]
                 \/ /\ j.op = "UploadMultipartChunk" /\ after.answer = "ok"
                    /\ u = j.call.upload /\ n = j.call.chunk
<1>1. issued' \subseteq Uploads
  BY DEF Learned, ObjectTypeOK
<1>2. acked' \in [Uploads -> SUBSET ChunkNumbers]
  BY DEF Learned, ObjectTypeOK
<1>3. QED
  BY <1>1, <1>2 DEF Learned, ObjectTypeOK

(* What a call under way is about. *)
LEMMA PendingCall ==
    ASSUME ObjectStorageAssumption, ObjectIInv, NEW c \in Clients, Pending(c)
    PROVE  /\ IsJob(job[c]) /\ job[c].answer = "pending" /\ PendingInv(job[c], released)
           /\ job[c].op \in {"CreateMultipartUpload", "UploadMultipartChunk"} => job[c].call.upload \in Uploads
           /\ job[c].op = "UploadMultipartChunk" => job[c].call.chunk \in ChunkNumbers
<1>1. IsJob(job[c]) /\ job[c].answer = "pending" /\ PendingInv(job[c], released)
  BY DEF ObjectIInv, ObjectTypeOK, Pending
<1>2. job[c].call \in Calls /\ OpFits(job[c])
  BY <1>1 DEF PendingInv
<1>3. CallFits(job[c].call)
  BY <1>2, CallParts
<1>4. QED
  BY <1>1, <1>2, <1>3 DEF CallFits, OpFits

LEMMA AnsweredObjectIInv ==
    ASSUME ObjectStorageAssumption, ObjectIInv, NEW c \in Clients, Answered(c)
    PROVE  ObjectIInv'
<1> DEFINE j == job[c]
           r == Head(j.todo)
           read == [j EXCEPT !.opened = IF r.verb = "get" THEN Content(j, r) ELSE @,
                             !.read = IF r.verb = "put" THEN Len(Source(j)) ELSE @]
           after == Proceed(read)
<1>1. /\ Pending(c) /\ Effect(j, r) /\ job' = [job EXCEPT ![c] = after] /\ Learned(j, after)
  BY DEF Answered
<1>2. /\ IsJob(j) /\ j.answer = "pending" /\ PendingInv(j, released)
      /\ j.op \in {"CreateMultipartUpload", "UploadMultipartChunk"} => j.call.upload \in Uploads
      /\ j.op = "UploadMultipartChunk" => j.call.chunk \in ChunkNumbers
  BY <1>1, PendingCall
<1>3. ObjectTypeOK /\ StoredInv
  BY DEF ObjectIInv
<1>4. /\ released \subseteq released' /\ released' \subseteq Uploads
      /\ j.op = "CompleteMultipartUpload" /\ r.to = Object(j.call.name) => j.call.upload \in released'
      /\ \A u \in Uploads \ released', n \in ChunkNumbers :
            bucket[Chunk(u, n)] = PieceOf(u, n) => bucket'[Chunk(u, n)] = PieceOf(u, n)
      /\ j.op = "UploadMultipartChunk" =>
            bucket'[Chunk(j.call.upload, j.call.chunk)] = PieceOf(j.call.upload, j.call.chunk)
  BY <1>1, <1>2, <1>3, EffectKeeps
<1>5. /\ IsJob(read) /\ read.call = j.call /\ read.op = j.op /\ read.todo = j.todo
      /\ read.answer = j.answer
  BY <1>2 DEF IsJob
<1> HIDE DEF read
<1>6. IsJob(after) /\ PendingInv(after, released')
  BY <1>2, <1>4, <1>5, ProceedParts
<1> HIDE DEF after
<1>7. /\ job' = [d \in Clients |-> job'[d]]
      /\ \A d \in Clients : IsJob(job'[d]) /\ PendingInv(job'[d], released')
  BY <1>1, <1>4, <1>6, JobStep
<1>8. /\ issued' \subseteq Uploads /\ acked' \in [Uploads -> SUBSET ChunkNumbers]
      /\ \A u \in Uploads, n \in ChunkNumbers : n \in acked'[u] =>
            \/ n \in acked[u]
            \/ /\ j.op = "UploadMultipartChunk"
               /\ u = j.call.upload /\ n = j.call.chunk
  BY <1>1, <1>2, <1>3, LearnedParts
<1> HIDE DEF j, r
<1>9. StoredInv'
  <2>1. SUFFICES ASSUME NEW u \in Uploads \ released', NEW n \in ChunkNumbers, n \in acked'[u]
                 PROVE  bucket'[Chunk(u, n)] = PieceOf(u, n)
    BY DEF StoredInv, Chunk, PieceOf
  <2>2. CASE n \in acked[u]
    BY <2>2, <1>3, <1>4 DEF StoredInv
  <2>3. CASE j.op = "UploadMultipartChunk" /\ u = j.call.upload /\ n = j.call.chunk
    BY <2>3, <1>4
  <2>4. QED
    BY <2>1, <2>2, <2>3, <1>8
<1>10. QED
  BY <1>4, <1>7, <1>8, <1>9 DEF ObjectIInv, ObjectTypeOK

(* A step of a call that leaves the bucket and what is known of it alone. *)
LEMMA QuietObjectIInv ==
    ASSUME ObjectIInv, NEW c \in Clients, NEW after, job' = [job EXCEPT ![c] = after],
           IsJob(after), PendingInv(after, released), UNCHANGED <<bucket, issued, acked, released>>
    PROVE  ObjectIInv'
<1>1. PendingInv(after, released') /\ released \subseteq released'
  OBVIOUS
<1>2. /\ job' = [d \in Clients |-> job'[d]]
      /\ \A d \in Clients : IsJob(job'[d]) /\ PendingInv(job'[d], released')
  BY <1>1, JobStep
<1>3. StoredInv'
  BY DEF ObjectIInv, StoredInv, Chunk, PieceOf
<1>4. QED
  BY <1>2, <1>3 DEF ObjectIInv, ObjectTypeOK

LEMMA SizedIInv ==
    ASSUME ObjectStorageAssumption, ObjectIInv, NEW c \in Clients, Sized(c)
    PROVE  ObjectIInv'
<1> DEFINE j == job[c]
           large == [j EXCEPT !.todo = <<[j.todo[2] EXCEPT !.verb = "copyLarge"]>> \o SubSeq(@, 3, Len(@))]
<1>1. /\ Pending(c) /\ Head(j.todo).verb = "stat" /\ UNCHANGED <<bucket, issued, acked, released>>
      /\ \E after \in (IF IsLarge(j.held) THEN {large} ELSE AfterError(j, j.err)) :
            job' = [job EXCEPT ![c] = after]
  BY DEF Sized
<1>2. IsJob(j) /\ j.answer = "pending" /\ PendingInv(j, released)
  BY <1>1, PendingCall
<1>3. IsJob(large) /\ PendingInv(large, released)
  BY <1>1, <1>2, LargeParts
<1>4. UnderWay(j, released)
  BY <1>2 DEF UnderWay, PendingInv
<1> HIDE DEF large
<1>5. PICK after : /\ job' = [job EXCEPT ![c] = after]
                   /\ after = large \/ after \in AfterError(j, j.err)
  BY <1>1
<1>6. IsJob(after) /\ PendingInv(after, released)
  BY <1>3, <1>4, <1>5, AfterErrorParts
<1>7. QED
  BY <1>1, <1>5, <1>6, QuietObjectIInv

LEMMA FillIInv ==
    ASSUME ObjectStorageAssumption, ObjectIInv, NEW c \in Clients, Fill(c)
    PROVE  ObjectIInv'
<1> DEFINE j == job[c]
           With(f) == [j EXCEPT !.file = f]
<1>1. /\ Pending(c) /\ Head(j.todo).verb = "fill" /\ UNCHANGED <<bucket, issued, acked, released>>
      /\ \/ job' = [job EXCEPT ![c] = Proceed(With(j.opened))]
         \/ \E f, e : \E after \in AfterError(With(f), e) : job' = [job EXCEPT ![c] = after]
  BY DEF Fill
<1>2. IsJob(j) /\ j.answer = "pending" /\ PendingInv(j, released)
  BY <1>1, PendingCall
<1>3. j.op # "CompleteMultipartUpload"
  BY <1>1, <1>2 DEF IsJob, PendingInv, TodoInv
<1>4. \A f : /\ IsJob(With(f)) /\ With(f).call = j.call /\ With(f).op = j.op /\ With(f).todo = j.todo
             /\ With(f).answer = j.answer
  BY <1>2 DEF IsJob
<1> HIDE DEF With
<1>5. \A f : UnderWay(With(f), released)
  BY <1>2, <1>4 DEF UnderWay, PendingInv, OpFits
<1>6. CASE job' = [job EXCEPT ![c] = Proceed(With(j.opened))]
  <2>1. IsJob(Proceed(With(j.opened))) /\ PendingInv(Proceed(With(j.opened)), released)
    BY <1>2, <1>3, <1>4, ProceedParts
  <2>2. QED
    BY <1>1, <1>6, <2>1, QuietObjectIInv
<1>7. CASE \E f, e : \E after \in AfterError(With(f), e) : job' = [job EXCEPT ![c] = after]
  <2>1. PICK f, e : \E after \in AfterError(With(f), e) : job' = [job EXCEPT ![c] = after]
    BY <1>7
  <2>2. PICK after \in AfterError(With(f), e) : job' = [job EXCEPT ![c] = after]
    BY <2>1
  <2>3. IsJob(after) /\ PendingInv(after, released)
    BY <1>5, <2>2, AfterErrorParts
  <2>4. QED
    BY <1>1, <2>2, <2>3, QuietObjectIInv
<1>8. QED
  BY <1>1, <1>6, <1>7

LEMMA SweepsOneIInv ==
    ASSUME ObjectStorageAssumption, ObjectIInv, NEW c \in Clients, SweepsOne(c)
    PROVE  ObjectIInv'
<1> DEFINE j == job[c]
           r == Head(j.todo)
           left == Listed(r.gone)
           key == CHOOSE k \in left : TRUE
           next == [j EXCEPT !.todo = <<[Delete(key) EXCEPT !.soft = r.soft]>> \o @]
           after == IF left = {} THEN Proceed(j) ELSE next
<1>1. /\ Pending(c) /\ r.verb = "sweep" /\ job' = [job EXCEPT ![c] = after] /\ Learned(j, after)
      /\ UNCHANGED <<bucket, released>>
  BY DEF SweepsOne
<1>2. /\ IsJob(j) /\ j.answer = "pending" /\ PendingInv(j, released)
      /\ j.op \in {"CreateMultipartUpload", "UploadMultipartChunk"} => j.call.upload \in Uploads
      /\ j.op = "UploadMultipartChunk" => j.call.chunk \in ChunkNumbers
  BY <1>1, PendingCall
<1>3. j.op # "UploadMultipartChunk"
  BY <1>1, <1>2, NextRequest
<1>4. ~(j.op = "CompleteMultipartUpload" /\ r.to = Object(j.call.name))
  <2>1. SUFFICES ASSUME j.op = "CompleteMultipartUpload"
                 PROVE  r.to # Object(j.call.name)
    OBVIOUS
  <2>2. StoresFirst(j, released) /\ 1 \in DOMAIN j.todo /\ r = j.todo[1]
    BY <1>2, <2>1 DEF IsJob, PendingInv, TodoInv
  <2>3. r.to = NoKey
    BY <1>1, <2>2 DEF StoresFirst
  <2>4. QED
    BY <2>3 DEF NoKey, Object, None
<1>5. IsJob(Proceed(j)) /\ PendingInv(Proceed(j), released)
  BY <1>2, <1>4, ProceedParts
<1>6. left # {} => IsJob(next) /\ PendingInv(next, released)
  <2>1. SUFFICES ASSUME left # {}
                 PROVE  IsJob(next) /\ PendingInv(next, released)
    OBVIOUS
  <2>2. key \in r.gone
    BY <2>1 DEF Listed
  <2> HIDE DEF key
  <2>3. QED
    BY <1>1, <1>2, <2>2, SweepParts
<1> HIDE DEF next, left
<1>7. IsJob(after) /\ PendingInv(after, released)
  <2>1. CASE left = {}
    BY <2>1, <1>5
  <2>2. CASE left # {}
    BY <2>2, <1>6
  <2>3. QED
    BY <2>1, <2>2
<1> HIDE DEF after, r
<1>8. ObjectTypeOK /\ StoredInv
  BY DEF ObjectIInv
<1>9. /\ issued' \subseteq Uploads /\ acked' \in [Uploads -> SUBSET ChunkNumbers]
      /\ \A u \in Uploads, n \in ChunkNumbers : n \in acked'[u] => n \in acked[u]
  BY <1>1, <1>2, <1>3, <1>8, LearnedParts
<1>10. /\ job' = [d \in Clients |-> job'[d]]
       /\ \A d \in Clients : IsJob(job'[d]) /\ PendingInv(job'[d], released')
  <2>1. PendingInv(after, released') /\ released \subseteq released'
    BY <1>1, <1>7
  <2>2. QED
    BY <1>1, <1>7, <2>1, JobStep
<1>11. StoredInv'
  BY <1>1, <1>8, <1>9 DEF StoredInv, Chunk, PieceOf
<1>12. QED
  BY <1>1, <1>8, <1>9, <1>10, <1>11 DEF ObjectIInv, ObjectTypeOK

LEMMA FailsObjectIInv ==
    ASSUME ObjectStorageAssumption, ObjectIInv, NEW c \in Clients, Fails(c)
    PROVE  ObjectIInv'
<1> DEFINE j == job[c]
           r == Head(j.todo)
           With(n) == [j EXCEPT !.read = n]
<1>1. Pending(c)
  BY DEF Fails
<1> DEFINE Takes == \/ UNCHANGED <<bucket, released>>
                    \/ bucket' \in AfterPart(r) /\ UNCHANGED released
                    \/ Effect(j, r)
<1>13. PICK e, m : Takes /\ \E after \in Failed(With(m), e) :
                              job' = [job EXCEPT ![c] = after] /\ Learned(j, after)
  BY DEF Fails
<1>2. PICK after \in Failed(With(m), e) : job' = [job EXCEPT ![c] = after] /\ Learned(j, after)
  BY <1>13
<1>3. /\ IsJob(j) /\ j.answer = "pending" /\ PendingInv(j, released)
      /\ j.op \in {"CreateMultipartUpload", "UploadMultipartChunk"} => j.call.upload \in Uploads
      /\ j.op = "UploadMultipartChunk" => j.call.chunk \in ChunkNumbers
  BY <1>1, PendingCall
<1>4. ObjectTypeOK /\ StoredInv
  BY DEF ObjectIInv
<1>5. /\ IsJob(With(m)) /\ With(m).call = j.call /\ With(m).op = j.op /\ With(m).todo = j.todo
      /\ With(m).answer = j.answer
  BY <1>3 DEF IsJob
<1> HIDE DEF With
<1>6. IsJob(after) /\ PendingInv(after, released) /\ after.answer # "ok"
  BY <1>2, <1>3, <1>5, FailedParts
<1>7. /\ released \subseteq released' /\ released' \subseteq Uploads
      /\ \A u \in Uploads \ released', n \in ChunkNumbers :
            bucket[Chunk(u, n)] = PieceOf(u, n) => bucket'[Chunk(u, n)] = PieceOf(u, n)
  <2>1. CASE UNCHANGED <<bucket, released>>
    BY <2>1, <1>4 DEF ObjectTypeOK
  <2>2. CASE bucket' \in AfterPart(r) /\ UNCHANGED released
    <3>1. \A u \in Uploads \ released, n \in ChunkNumbers : bucket'[Chunk(u, n)] = bucket[Chunk(u, n)]
      BY <2>2, <1>1, <1>3, <1>4, PartKeeps
    <3>2. QED
      BY <2>2, <3>1, <1>4 DEF ObjectTypeOK
  <2>3. CASE Effect(j, r)
    BY <2>3, <1>1, <1>3, <1>4, EffectKeeps
  <2>4. QED
    BY <1>13, <2>1, <2>2, <2>3
<1>8. PendingInv(after, released')
  BY <1>6, <1>7, MoreOver
<1>9. /\ job' = [d \in Clients |-> job'[d]]
      /\ \A d \in Clients : IsJob(job'[d]) /\ PendingInv(job'[d], released')
  BY <1>2, <1>6, <1>7, <1>8, JobStep
<1>10. /\ issued' \subseteq Uploads /\ acked' \in [Uploads -> SUBSET ChunkNumbers]
       /\ \A u \in Uploads, n \in ChunkNumbers : n \in acked'[u] => n \in acked[u]
  BY <1>2, <1>3, <1>4, <1>6, LearnedParts
<1> HIDE DEF j, r
<1>11. StoredInv'
  <2>1. SUFFICES ASSUME NEW u \in Uploads \ released', NEW n \in ChunkNumbers, n \in acked'[u]
                 PROVE  bucket'[Chunk(u, n)] = PieceOf(u, n)
    BY DEF StoredInv, Chunk, PieceOf
  <2>2. u \notin released /\ n \in acked[u]
    BY <2>1, <1>7, <1>10
  <2>3. QED
    BY <2>1, <2>2, <1>4, <1>7 DEF StoredInv
<1>12. QED
  BY <1>7, <1>9, <1>10, <1>11 DEF ObjectIInv, ObjectTypeOK

(* A call that begins. *)
LEMMA StartedParts ==
    ASSUME ObjectStorageAssumption, NEW k \in Calls, NEW over, Asked(k, over)
    PROVE  /\ IsJob(Started(k)) /\ PendingInv(Started(k), over)
           /\ k.op = "UploadMultipartChunk" => Started(k).answer # "ok"
<1> DEFINE fresh == [NoJob EXCEPT !.call = k, !.answer = "pending",
                                  !.held = IF Reads(k) = {} THEN Absent ELSE bucket[Object(k.name)]]
           op == IF k.op = "util.Copy" THEN "Copy" ELSE k.op
           first == Enter(fresh, op)
<1>1. IsJob(fresh) /\ fresh.call = k /\ fresh.answer = "pending" /\ fresh.read = 0
  <2>1. <<>> \in Seq(RequestTypes)
    OBVIOUS
  <2>2. IsJob(NoJob)
    BY <2>1 DEF NoJob, IsJob
  <2>3. QED
    BY <2>2 DEF IsJob, NoJob
<1>2. Started(k) = IF k.op = "CompleteMultipartUpload" /\ k.list = <<>> THEN Ended(first, "error")
                   ELSE IF first.todo = <<>> THEN Ended(first, "ok") ELSE first
  BY DEF Started
<1> HIDE DEF fresh
<1>3. \/ op = k.op /\ op # "util.Copy"
      \/ k.op = "util.Copy" /\ op \in {"Copy", "ReadFile", "Write"}
  OBVIOUS
<1>4. op = "UploadMultipartChunk" => k.op = "UploadMultipartChunk"
  OBVIOUS
<1> HIDE DEF op
<1>5. /\ IsJob(first) /\ first.call = k /\ first.op = op /\ first.answer = "pending"
      /\ TodoInv(first, over) \/ first.todo = <<>>
      /\ first.todo = <<>> => op = "CreateMultipartUpload" \/ (op = "Move" /\ k.name = k.to)
  BY <1>1, <1>3, EnterParts
<1>10. first.todo = Requests(k, op)
  BY <1>1 DEF Enter, Attempt, IsJob
<1> HIDE DEF first
<1>6. CASE Started(k) = first /\ first.todo # <<>>
  <2>1. OpFits(first)
    BY <1>3, <1>5 DEF OpFits
  <2>2. first.call.op = "Move" => first.call.name # first.call.to
    <3>1. op = "Move" /\ k.name = k.to => Requests(k, op) = <<>>
      BY DEF Requests, MoveRequests
    <3>2. QED
      BY <3>1, <1>3, <1>5, <1>6, <1>10
  <2>3. PendingInv(first, over)
    BY <1>5, <1>6, <2>1, <2>2 DEF PendingInv
  <2>4. QED
    BY <1>5, <1>6, <2>3
<1>7. CASE Started(k) = Ended(first, "error")
  BY <1>7, EndedIsJob
<1>8. CASE Started(k) = Ended(first, "ok") /\ first.todo = <<>>
  <2>1. k.op # "UploadMultipartChunk"
    BY <1>3, <1>5, <1>8
  <2>2. QED
    BY <1>8, <2>1, EndedIsJob
<1>9. QED
  BY <1>2, <1>6, <1>7, <1>8

LEMMA BeginObjectIInv ==
    ASSUME ObjectStorageAssumption, ObjectIInv, NEW c \in Clients, NEW k \in Calls, Begin(c, k)
    PROVE  ObjectIInv'
<1> DEFINE after == Started(k)
<1>1. /\ released' = released \cup
            (IF k.op = "AbortMultipartUpload" THEN {k.upload}
             ELSE IF k.op = "DeleteDir" THEN {u \in Uploads : TargetOf[u] \in Matches[k.name]} ELSE {})
      /\ job' = [job EXCEPT ![c] = after]
      /\ Learned([call |-> k, op |-> k.op], after)
      /\ bucket' = bucket
  BY DEF Begin
<1>2. CallFits(k)
  BY CallParts
<1>3. ObjectTypeOK /\ StoredInv
  BY DEF ObjectIInv
<1>4. released \subseteq released' /\ released' \subseteq Uploads /\ Asked(k, released')
  BY <1>1, <1>2, <1>3 DEF ObjectTypeOK, CallFits, Asked
<1>5. /\ IsJob(after) /\ PendingInv(after, released')
      /\ k.op = "UploadMultipartChunk" => after.answer # "ok"
  BY <1>4, StartedParts
<1> HIDE DEF after
<1>6. /\ job' = [d \in Clients |-> job'[d]]
      /\ \A d \in Clients : IsJob(job'[d]) /\ PendingInv(job'[d], released')
  BY <1>1, <1>4, <1>5, JobStep
<1> DEFINE j == [call |-> k, op |-> k.op]
<1>7. /\ j.call = k /\ j.op = k.op
      /\ k.op \in {"CreateMultipartUpload", "UploadMultipartChunk"} => k.upload \in Uploads
      /\ k.op = "UploadMultipartChunk" => k.chunk \in ChunkNumbers
  BY <1>2 DEF CallFits
<1>8. Learned(j, after)
  BY <1>1
<1> HIDE DEF j
<1>9. /\ issued' \subseteq Uploads /\ acked' \in [Uploads -> SUBSET ChunkNumbers]
      /\ \A u \in Uploads, n \in ChunkNumbers : n \in acked'[u] => n \in acked[u]
  BY <1>3, <1>5, <1>7, <1>8, LearnedParts
<1>10. StoredInv'
  BY <1>1, <1>3, <1>4, <1>9 DEF StoredInv, Chunk, PieceOf
<1>11. QED
  BY <1>4, <1>6, <1>9, <1>10 DEF ObjectIInv, ObjectTypeOK

LEMMA ObjectInitIInv ==
    ASSUME ObjectStorageAssumption, ObjectInit
    PROVE  ObjectIInv
<1>1. PICK seed \in Seeds :
         /\ bucket = [k \in Keys |->
                        IF k[2] = None THEN seed.objects[k[1]]
                        ELSE IF k[3] = "chunk" /\ k[4] \in seed.acked[k[2]]
                        THEN PieceOf(k[2], k[4]) ELSE Absent]
         /\ acked = seed.acked
         /\ issued = {u \in Uploads : seed.acked[u] # {}}
  BY DEF ObjectInit
<1>2. job = [c \in Clients |-> NoJob] /\ released = {}
  BY DEF ObjectInit
<1>3. IsJob(NoJob) /\ PendingInv(NoJob, released)
  <2>1. <<>> \in Seq(RequestTypes)
    OBVIOUS
  <2>2. QED
    BY <2>1 DEF NoJob, IsJob, PendingInv
<1>4. ObjectTypeOK
  BY <1>1, <1>2, <1>3 DEF ObjectTypeOK, ObjectStorageAssumption
<1>5. StoredInv
  <2>1. SUFFICES ASSUME NEW u \in Uploads, NEW n \in ChunkNumbers, n \in acked[u]
                 PROVE  bucket[Chunk(u, n)] = PieceOf(u, n)
    BY DEF StoredInv
  <2>2. /\ Chunk(u, n) \in Keys /\ Chunk(u, n)[2] = u /\ Chunk(u, n)[3] = "chunk"
        /\ Chunk(u, n)[4] = n
    BY DEF Keys, Chunk
  <2>3. u # None
    BY DEF None, ObjectStorageAssumption
  <2> DEFINE key == Chunk(u, n)
  <2>4. n \in seed.acked[u]
    BY <1>1, <2>1
  <2> HIDE DEF key
  <2>5. key \in Keys /\ key[2] = u /\ key[3] = "chunk" /\ key[4] = n
    BY <2>2 DEF key
  <2>6. bucket[key] = PieceOf(key[2], key[4])
    BY <1>1, <2>3, <2>4, <2>5
  <2>7. QED
    BY <2>5, <2>6 DEF key
<1>6. QED
  BY <1>2, <1>3, <1>4, <1>5 DEF ObjectIInv

LEMMA ObjectNextIInv ==
    ASSUME ObjectStorageAssumption, ObjectIInv, [ObjectNext]_objectVars
    PROVE  ObjectIInv'
<1>1. CASE UNCHANGED objectVars
  BY <1>1 DEF objectVars, ObjectIInv, ObjectTypeOK, StoredInv, IsJob, PendingInv, Chunk, PieceOf
<1>2. CASE ObjectNext
  <2>1. PICK c \in Clients : (\E k \in Calls : Begin(c, k)) \/ Step(c)
    BY <1>2 DEF ObjectNext
  <2>2. QED
    BY <2>1, BeginObjectIInv, AnsweredObjectIInv, SizedIInv, SweepsOneIInv, FillIInv, FailsObjectIInv DEF Step
<1>3. QED
  BY <1>1, <1>2

LEMMA ObjectSpecIInv == ObjectSpec => []ObjectIInv
<1>1. ObjectInit => ObjectIInv
  BY ObjectInitIInv, ObjectStorageAssumption
<1>2. ObjectIInv /\ [ObjectNext]_objectVars => ObjectIInv'
  BY ObjectNextIInv, ObjectStorageAssumption
<1>3. QED
  BY <1>1, <1>2, PTL DEF ObjectSpec

(* The chunks a caller was told are stored stay until the upload is made into its object or   *)
(* is removed at a caller's request (gcs.composeAll, CompleteMultipartUpload of both          *)
(* backends), for any clients, uploads and lists, and whatever fails or is repeated.          *)
THEOREM ChunksAreKept == ObjectSpec => []ChunksSurvive
<1>1. ObjectIInv => ChunksSurvive
  BY DEF ObjectIInv, ObjectTypeOK, StoredInv, ChunksSurvive
<1>2. QED
  BY <1>1, ObjectSpecIInv, PTL

-----------------------------------------------------------------------------
(* The second inductive invariant of the uploads: what an object holds. *)

Lower(a, b) == IF a < b THEN a ELSE b
GroupsOf(list) == (Len(list) + ComposeLimit - 1) \div ComposeLimit
PartOf(list, g) == SubSeq(list, (g - 1) * ComposeLimit + 1, Lower(g * ComposeLimit, Len(list)))
ChunksAt(u, list) == [x \in DOMAIN list |-> Chunk(u, list[x])]
GroupsAt(u, list) == [g \in 1 .. GroupsOf(list) |-> Group(u, g)]

(* A request of a call k, made by the operation op, that leaves whole what it stores. *)
StoresWhole(r, k, op) ==
    /\ r.gone \subseteq Writes(k)
    /\ r.verb = "put" =>
          \/ op = "UploadMultipartChunk" /\ r.to = Chunk(k.upload, k.chunk)
          \/ op \in {"Write", "WriteFile"} /\ r.to \in Writes(k) /\ r.to[3] = "object"
    /\ r.verb # "put" /\ r.to # NoKey => r.to \in Writes(k) /\ r.to[3] = "object"
    /\ r.verb = "get" \/ (r.verb # "put" /\ r.to # NoKey) => \E n \in Names : r.from = <<Object(n)>>

(* What a completion has still to do: remove the parts, make the object of its chunks, or make *)
(* the groups it has not made and the object of them.                                          *)
OnlyRemoves(todo) == \A l \in DOMAIN todo : todo[l].to = NoKey
OnePass(k, todo) ==
    /\ todo[1].verb \in {"compose", "finish"} /\ todo[1].to = Object(k.name)
    /\ todo[1].from = ChunksAt(k.upload, k.list)
    /\ \A l \in DOMAIN todo : l # 1 => todo[l].to = NoKey
TwoPass(k, todo, made, b) ==
    LET left == GroupsOf(k.list) - made
    IN  /\ Len(todo) = left + 2
        /\ \A l \in 1 .. left + 1 : todo[l].verb = "compose" /\ todo[l].gone = {}
        /\ \A l \in 1 .. left : /\ todo[l].to = Group(k.upload, made + l)
                                /\ todo[l].from = ChunksAt(k.upload, PartOf(k.list, made + l))
        /\ todo[left + 1].to = Object(k.name) /\ todo[left + 1].from = GroupsAt(k.upload, k.list)
        /\ todo[left + 2].to = NoKey
        /\ \A g \in 1 .. made : b[Group(k.upload, g)] = UploadOf(k.upload, PartOf(k.list, g))
Completes(k, todo, b) ==
    /\ k.list # <<>> /\ \A l \in DOMAIN todo : todo[l].verb # "put"
    /\ \/ OnlyRemoves(todo)
       \/ OnePass(k, todo)
       \/ \E made \in 0 .. GroupsOf(k.list) : TwoPass(k, todo, made, b)

\* The requests of another operation; a put comes alone.
AllStoreWhole(todo, k, op) ==
    \A l \in DOMAIN todo : StoresWhole(todo[l], k, op) /\ (todo[l].verb = "put" => Len(todo) = 1)

WholeJob(j, b) ==
    /\ j.read = 0 /\ j.opened \in WholeContents
    /\ j.op = "CompleteMultipartUpload" => Completes(j.call, j.todo, b)
    /\ j.op # "CompleteMultipartUpload" => AllStoreWhole(j.todo, j.call, j.op)

(* What the bucket holds under the name of a chunk is the chunk. *)
Pieced == \A u \in Uploads, n \in ChunkNumbers : bucket[Chunk(u, n)] \in {Absent, PieceOf(u, n)}

WholeInv ==
    /\ WholeObjects /\ Pieced
    /\ \A c \in Clients : Pending(c) => WholeJob(job[c], bucket)
    /\ \A c, d \in Clients : c # d /\ Pending(c) /\ Pending(d) => Apart(job[c].call, job[d].call)

-----------------------------------------------------------------------------
(* FlattenSeq, which is defined by recursion over a sequence. *)

Flattens(f, n, seqs) ==
    f = [k \in 1 .. n |-> IF k = 1 THEN seqs[k] ELSE f[k - 1] \o seqs[k]]

\* The function of the definition is the only one of its kind.
LEMMA FlattensOnce ==
    ASSUME NEW n \in Nat, NEW s, NEW f, Flattens(f, n, s), NEW g, Flattens(g, n, s)
    PROVE  \A k \in 1 .. n : f[k] = g[k]
<1> DEFINE S == {k \in 1 .. n : f[k] # g[k]}
<1>1. \A k \in 1 .. n :
        /\ f[k] = IF k = 1 THEN s[k] ELSE f[k - 1] \o s[k]
        /\ g[k] = IF k = 1 THEN s[k] ELSE g[k - 1] \o s[k]
  BY Zenon DEF Flattens
<1> SUFFICES ASSUME S # {} PROVE FALSE
  OBVIOUS
<1>2. S \in SUBSET Nat
  OBVIOUS
<1> HIDE DEF S
<1>3. PICK k \in S : \A l \in S : k <= l
  BY <1>2, Least
<1>4. k \in 1 .. n /\ f[k] # g[k]
  BY DEF S
<1>5. k # 1 => k - 1 \in 1 .. n /\ f[k - 1] = g[k - 1]
  <2> SUFFICES ASSUME k # 1 PROVE k - 1 \in 1 .. n /\ f[k - 1] = g[k - 1]
    OBVIOUS
  <2>1. k - 1 \in 1 .. n /\ ~(k <= k - 1)
    BY <1>4
  <2>2. QED
    BY <1>3, <2>1 DEF S
<1>6. QED
  BY <1>1, <1>4, <1>5

LEMMA FlattenSeqIs ==
    ASSUME NEW X, NEW seqs \in Seq(X), seqs # <<>>,
           NEW f, Flattens(f, Len(seqs), seqs)
    PROVE  FlattenSeq(seqs) = f[Len(seqs)]
<1> DEFINE n == Len(seqs)
           g == CHOOSE g : Flattens(g, n, seqs)
<1>1. n \in Nat /\ n # 0 /\ n \in 1 .. n
  OBVIOUS
<1>2. Flattens(g, n, seqs)
  OBVIOUS
<1>3. FlattenSeq(seqs) = g[n]
  BY <1>1 DEF FlattenSeq, Flattens
<1>4. QED
  BY <1>1, <1>2, <1>3, FlattensOnce

LEMMA FlattenOne ==
    ASSUME NEW e
    PROVE  FlattenSeq(<<e>>) = e
<1> DEFINE f == [k \in 1 .. 1 |-> e]
<1>1. Flattens(f, 1, <<e>>)
  BY DEF Flattens
<1>2. <<e>> \in Seq({e}) /\ <<e>> # <<>> /\ Len(<<e>>) = 1
  OBVIOUS
<1>3. f[1] = e
  OBVIOUS
<1> HIDE DEF f
<1>4. QED
  BY <1>1, <1>2, <1>3, FlattenSeqIs

(* When the partial concatenations are the prefixes of a sequence e, at the lengths upTo, the *)
(* whole is e up to the last of them.                                                          *)
Prefix(e, n) == [x \in 1 .. n |-> e[x]]

LEMMA PrefixGrows ==
    ASSUME NEW X, NEW e \in Seq(X), NEW m \in 0 .. Len(e), NEW n \in 0 .. Len(e), m <= n
    PROVE  Prefix(e, m) \o SubSeq(e, m + 1, n) = Prefix(e, n)
<1>1. /\ Prefix(e, m) \in Seq(X) /\ Len(Prefix(e, m)) = m
      /\ Prefix(e, n) \in Seq(X) /\ Len(Prefix(e, n)) = n
  BY DEF Prefix
<1>2. SubSeq(e, m + 1, n) \in Seq(X) /\ Len(SubSeq(e, m + 1, n)) = n - m
  OBVIOUS
<1>3. \A x \in 1 .. n : (Prefix(e, m) \o SubSeq(e, m + 1, n))[x] = Prefix(e, n)[x]
  BY <1>1, <1>2 DEF Prefix
<1>4. /\ Prefix(e, m) \o SubSeq(e, m + 1, n) \in Seq(X)
      /\ Len(Prefix(e, m) \o SubSeq(e, m + 1, n)) = n
  BY <1>1, <1>2
<1>5. QED
  BY <1>1, <1>3, <1>4, SeqEqual

Chops(X, e, n, upTo, seqs) ==
    /\ e \in Seq(X) /\ n \in Nat \ {0}
    /\ \A k \in 0 .. n : upTo[k] \in 0 .. Len(e)
    /\ upTo[0] = 0 /\ \A k \in 1 .. n : upTo[k - 1] <= upTo[k]
    /\ seqs \in Seq(Seq(X)) /\ Len(seqs) = n
    /\ \A k \in 1 .. n : seqs[k] = SubSeq(e, upTo[k - 1] + 1, upTo[k])

LEMMA FlattenPrefixes ==
    ASSUME NEW X, NEW e, NEW n, NEW upTo, NEW seqs, Chops(X, e, n, upTo, seqs)
    PROVE  FlattenSeq(seqs) = Prefix(e, upTo[n])
<1> DEFINE f == [k \in 1 .. n |-> Prefix(e, upTo[k])]
<1>0. /\ e \in Seq(X) /\ n \in Nat \ {0}
      /\ \A k \in 0 .. n : upTo[k] \in 0 .. Len(e)
      /\ upTo[0] = 0 /\ \A k \in 1 .. n : upTo[k - 1] <= upTo[k]
      /\ seqs \in Seq(Seq(X)) /\ Len(seqs) = n
      /\ \A k \in 1 .. n : seqs[k] = SubSeq(e, upTo[k - 1] + 1, upTo[k])
  BY DEF Chops
<1>1. ASSUME NEW k \in 1 .. n
      PROVE  f[k] = IF k = 1 THEN seqs[k] ELSE f[k - 1] \o seqs[k]
  <2>1. /\ k - 1 \in 0 .. n /\ k \in 0 .. n
        /\ upTo[k - 1] \in 0 .. Len(e) /\ upTo[k] \in 0 .. Len(e) /\ upTo[k - 1] <= upTo[k]
    BY <1>0
  <2>2. Prefix(e, upTo[k - 1]) \o seqs[k] = Prefix(e, upTo[k])
    BY <1>0, <2>1, PrefixGrows
  <2>3. CASE k = 1
    <3>1. Prefix(e, 0) = <<>>
      BY DEF Prefix
    <3>2. seqs[k] \in Seq(X)
      BY <1>0
    <3>3. Prefix(e, upTo[k - 1]) = <<>>
      BY <1>0, <2>3, <3>1
    <3>4. <<>> \o seqs[k] = seqs[k]
      BY <3>2, ConcatEmptySeq
    <3>5. seqs[k] = Prefix(e, upTo[k])
      BY <2>2, <3>3, <3>4
    <3>6. QED
      BY <2>3, <3>5
  <2>4. CASE k # 1
    <3>1. k - 1 \in 1 .. n
      BY <1>0, <2>4
    <3>2. QED
      BY <2>2, <2>4, <3>1
  <2>5. QED
    BY <2>3, <2>4
<1>2. Flattens(f, n, seqs)
  BY <1>1, Zenon DEF Flattens
<1>3. f[n] = Prefix(e, upTo[n]) /\ seqs # <<>>
  BY <1>0
<1> HIDE DEF f
<1>4. QED
  BY <1>0, <1>2, <1>3, FlattenSeqIs


(* The content of a list of chunks, and of the groups it is chopped into. *)
Pieces(u, list) == [x \in 1 .. Len(list) |-> <<u, list[x]>>]

LEMMA FlattenPieces ==
    ASSUME NEW u, NEW list \in Seq(ChunkNumbers), list # <<>>
    PROVE  /\ FlattenSeq([x \in 1 .. Len(list) |-> PieceOf(u, list[x])]) = Pieces(u, list)
           /\ UploadOf(u, list) = Pieces(u, list)
<1> DEFINE n == Len(list)
           e == Pieces(u, list)
           X == {u} \X ChunkNumbers
           upTo == [k \in 0 .. n |-> k]
           seqs == [x \in 1 .. n |-> PieceOf(u, list[x])]
<1>1. n \in Nat \ {0} /\ DOMAIN list = 1 .. n
  OBVIOUS
<1>2. e \in Seq(X) /\ Len(e) = n /\ \A k \in 1 .. n : e[k] = <<u, list[k]>>
  BY DEF Pieces
<1>3. (\A k \in 0 .. n : upTo[k] \in 0 .. Len(e)) /\ upTo[0] = 0 /\ \A k \in 1 .. n : upTo[k - 1] <= upTo[k]
  BY <1>1, <1>2
<1>4. seqs \in Seq(Seq(X)) /\ Len(seqs) = n
  BY <1>1 DEF PieceOf
<1>5. ASSUME NEW k \in 1 .. n
      PROVE  seqs[k] = SubSeq(e, upTo[k - 1] + 1, upTo[k])
  <2>1. upTo[k - 1] = k - 1 /\ upTo[k] = k /\ k - 1 + 1 = k /\ k \in 1 .. Len(e)
    BY <1>1, <1>2
  <2>2. SubSeq(e, k, k) = <<e[k]>>
    <3>1. SubSeq(e, k, k) \in Seq(X) /\ Len(SubSeq(e, k, k)) = 1 /\ SubSeq(e, k, k)[1] = e[k]
      BY <1>2, <2>1
    <3>2. e[k] \in X /\ <<e[k]>> \in Seq(X) /\ Len(<<e[k]>>) = 1 /\ <<e[k]>>[1] = e[k]
      BY <1>2, <2>1
    <3>3. \A x \in 1 .. Len(SubSeq(e, k, k)) : SubSeq(e, k, k)[x] = <<e[k]>>[x]
      BY <3>1, <3>2
    <3> HIDE DEF X
    <3>4. QED
      BY <3>1, <3>2, <3>3, SeqEqual, Zenon
  <2>3. seqs[k] = <<e[k]>>
    BY <1>2 DEF PieceOf
  <2>4. QED
    BY <2>1, <2>2, <2>3
<1>6. upTo[n] = n /\ Prefix(e, n) = e
  BY <1>1 DEF Prefix, Pieces
<1> HIDE DEF e, seqs, upTo, n, X
<1>7. FlattenSeq(seqs) = e
  <2>1. FlattenSeq(seqs) = Prefix(e, upTo[n])
    <3>1. \A k \in 1 .. n : seqs[k] = SubSeq(e, upTo[k - 1] + 1, upTo[k])
      BY <1>5
    <3>2. Chops(X, e, n, upTo, seqs)
      BY <1>1, <1>2, <1>3, <1>4, <3>1 DEF Chops
    <3>3. QED
      BY <3>2, FlattenPrefixes
  <2>2. QED
    BY <2>1, <1>6
<1>8. FlattenSeq(seqs) = UploadOf(u, list)
  BY <1>1 DEF UploadOf, seqs
<1>9. QED
  BY <1>7, <1>8 DEF e, seqs, n

LEMMA GroupBounds ==
    ASSUME ObjectStorageAssumption, NEW n \in Nat \ {0}
    PROVE  LET G == (n + ComposeLimit - 1) \div ComposeLimit
           IN  /\ G \in 1 .. n
               /\ n <= G * ComposeLimit
               /\ \A g \in 1 .. G : /\ (g - 1) * ComposeLimit \in Nat /\ g * ComposeLimit \in Nat
                                    /\ (g - 1) * ComposeLimit < n
                                    /\ (g - 1) * ComposeLimit < g * ComposeLimit
<1> DEFINE L == ComposeLimit
           G == (n + L - 1) \div L
<1>1. L \in Nat /\ L >= 1
  BY DEF ObjectStorageAssumption
<1> HIDE DEF L
<1>2. G \in Nat /\ G * L <= n + L - 1 /\ n + L - 1 < G * L + L
  BY <1>1
<1> HIDE DEF G
<1>3. n <= G * L /\ G >= 1
  BY <1>1, <1>2
<1>4. G <= n
  <2>1. CASE G > n
    <3>1. (G - n) * L >= L /\ (n - 1) * L >= n - 1 /\ G * L = (G - n) * L + (n - 1) * L + L
      BY <1>1, <1>2, <2>1
    <3>2. QED
      BY <1>1, <1>2, <3>1
  <2>2. QED
    BY <1>2, <2>1
<1>5. ASSUME NEW g \in 1 .. G
      PROVE  /\ (g - 1) * L \in Nat /\ g * L \in Nat
             /\ (g - 1) * L < n
             /\ (g - 1) * L < g * L
  <2>1. g * L = (g - 1) * L + L /\ (g - 1) * L \in Nat
    BY <1>1, <1>2
  <2>2. (G - g) * L >= 0 /\ G * L = (G - g) * L + g * L
    BY <1>1, <1>2
  <2>3. QED
    BY <1>1, <1>2, <2>1, <2>2
<1>6. QED
  BY <1>2, <1>3, <1>4, <1>5 DEF G, L

LEMMA GroupParts ==
    ASSUME ObjectStorageAssumption, NEW list \in Seq(ChunkNumbers), list # <<>>
    PROVE  /\ GroupsOf(list) \in 1 .. Len(list)
           /\ \A g \in 1 .. GroupsOf(list) :
                 LET first == (g - 1) * ComposeLimit
                     last == Lower(g * ComposeLimit, Len(list))
                 IN  /\ first \in Nat /\ last \in Nat /\ first < last /\ last <= Len(list)
                     /\ PartOf(list, g) \in Seq(ChunkNumbers) /\ PartOf(list, g) # <<>>
                     /\ Len(PartOf(list, g)) = last - first
                     /\ \A x \in 1 .. last - first : PartOf(list, g)[x] = list[first + x]
<1> DEFINE n == Len(list)
           G == GroupsOf(list)
<1>1. n \in Nat \ {0}
  OBVIOUS
<1>2. /\ G \in 1 .. n
      /\ \A g \in 1 .. G : /\ (g - 1) * ComposeLimit \in Nat /\ g * ComposeLimit \in Nat
                           /\ (g - 1) * ComposeLimit < n
                           /\ (g - 1) * ComposeLimit < g * ComposeLimit
  BY <1>1, GroupBounds DEF GroupsOf
<1> HIDE DEF G
<1>3. ASSUME NEW g \in 1 .. G
      PROVE  LET first == (g - 1) * ComposeLimit
                 last == Lower(g * ComposeLimit, Len(list))
             IN  /\ first \in Nat /\ last \in Nat /\ first < last /\ last <= Len(list)
                 /\ PartOf(list, g) \in Seq(ChunkNumbers) /\ PartOf(list, g) # <<>>
                 /\ Len(PartOf(list, g)) = last - first
                 /\ \A x \in 1 .. last - first : PartOf(list, g)[x] = list[first + x]
  <2> DEFINE first == (g - 1) * ComposeLimit
             last == Lower(g * ComposeLimit, Len(list))
  <2>1. first \in Nat /\ last \in Nat /\ first < last /\ last <= n
    BY <1>1, <1>2 DEF Lower
  <2>2. PartOf(list, g) = SubSeq(list, first + 1, last)
    BY DEF PartOf
  <2> HIDE DEF first, last
  <2>3. /\ SubSeq(list, first + 1, last) \in Seq(ChunkNumbers)
        /\ Len(SubSeq(list, first + 1, last)) = last - first
        /\ \A x \in 1 .. last - first : SubSeq(list, first + 1, last)[x] = list[first + x]
    BY <2>1
  <2>4. /\ PartOf(list, g) \in Seq(ChunkNumbers) /\ PartOf(list, g) # <<>>
        /\ Len(PartOf(list, g)) = last - first
        /\ \A x \in 1 .. last - first : PartOf(list, g)[x] = list[first + x]
    BY <2>1, <2>2, <2>3
  <2>5. QED
    BY <2>1, <2>4 DEF first, last
<1>4. QED
  BY <1>2, <1>3 DEF G

LEMMA FlattenGroups ==
    ASSUME ObjectStorageAssumption, NEW u, NEW list \in Seq(ChunkNumbers), list # <<>>
    PROVE  FlattenSeq([g \in 1 .. GroupsOf(list) |-> Pieces(u, PartOf(list, g))]) = Pieces(u, list)
<1> DEFINE n == Len(list)
           G == GroupsOf(list)
           e == Pieces(u, list)
           X == {u} \X ChunkNumbers
           upTo == [k \in 0 .. G |-> IF k = 0 THEN 0 ELSE Lower(k * ComposeLimit, n)]
           seqs == [g \in 1 .. G |-> Pieces(u, PartOf(list, g))]
<1>1. G \in Nat \ {0} /\ n \in Nat \ {0} /\ n <= G * ComposeLimit /\ G * ComposeLimit \in Nat
  BY GroupParts, GroupBounds DEF GroupsOf
<1>2. e \in Seq(X) /\ Len(e) = n /\ \A k \in 1 .. n : e[k] = <<u, list[k]>>
  BY DEF Pieces
<1>3. \A g \in 1 .. G :
         LET first == (g - 1) * ComposeLimit
             last == Lower(g * ComposeLimit, n)
         IN  /\ first \in Nat /\ last \in Nat /\ first < last /\ last <= n
             /\ PartOf(list, g) \in Seq(ChunkNumbers) /\ PartOf(list, g) # <<>>
             /\ Len(PartOf(list, g)) = last - first
             /\ \A x \in 1 .. last - first : PartOf(list, g)[x] = list[first + x]
  BY GroupParts
<1> HIDE DEF n, G
<1>4. upTo[0] = 0 /\ upTo[G] = n
  BY <1>1 DEF Lower
<1>5. ASSUME NEW g \in 1 .. G
      PROVE  upTo[g - 1] = (g - 1) * ComposeLimit /\ upTo[g] = Lower(g * ComposeLimit, n)
  <2>1. g - 1 \in 0 .. G /\ g \in 0 .. G /\ g # 0
    BY <1>1
  <2>2. CASE g = 1
    <3>1. (g - 1) * ComposeLimit = 0
      BY <2>2 DEF ObjectStorageAssumption
    <3>2. QED
      BY <2>1, <2>2, <3>1
  <2>3. CASE g # 1
    <3>1. g - 1 \in 1 .. G
      BY <1>1, <2>3
    <3>2. (g - 1) * ComposeLimit \in Nat /\ (g - 1) * ComposeLimit < n
      <4>1. /\ (g - 1) * ComposeLimit \in Nat /\ Lower(g * ComposeLimit, n) \in Nat
            /\ (g - 1) * ComposeLimit < Lower(g * ComposeLimit, n) /\ Lower(g * ComposeLimit, n) <= n
        BY <1>3
      <4>2. QED
        BY <1>1, <4>1
    <3>3. upTo[g - 1] = Lower((g - 1) * ComposeLimit, n)
      BY <2>1, <3>1
    <3>4. QED
      BY <1>1, <2>1, <3>2, <3>3 DEF Lower
  <2>4. QED
    BY <2>2, <2>3
<1> HIDE DEF upTo
<1>6. ASSUME NEW g \in 1 .. G
      PROVE  upTo[g - 1] <= upTo[g] /\ upTo[g] \in 0 .. n
  BY <1>1, <1>3, <1>5
<1>7. \A k \in 0 .. G : upTo[k] \in 0 .. Len(e)
  <2>1. \A k \in 0 .. G : k = 0 \/ k \in 1 .. G
    BY <1>1
  <2>2. QED
    BY <1>1, <1>2, <1>4, <1>6, <2>1
<1>8. ASSUME NEW g \in 1 .. G
      PROVE  seqs[g] = SubSeq(e, upTo[g - 1] + 1, upTo[g]) /\ seqs[g] \in Seq(X)
  <2> DEFINE first == (g - 1) * ComposeLimit
             last == Lower(g * ComposeLimit, n)
             part == PartOf(list, g)
  <2>1. /\ first \in Nat /\ last \in Nat /\ first < last /\ last <= n
        /\ part \in Seq(ChunkNumbers) /\ Len(part) = last - first
        /\ \A x \in 1 .. last - first : part[x] = list[first + x]
    BY <1>3
  <2>2. upTo[g - 1] = first /\ upTo[g] = last
    BY <1>5
  <2>3. seqs[g] = Pieces(u, part)
    OBVIOUS
  <2> HIDE DEF first, last, part
  <2>4. /\ SubSeq(e, first + 1, last) \in Seq(X) /\ Len(SubSeq(e, first + 1, last)) = last - first
        /\ \A x \in 1 .. last - first : SubSeq(e, first + 1, last)[x] = e[first + x]
    <3> HIDE DEF e, X
    <3>1. QED
      BY <1>2, <2>1
  <2>5. /\ Pieces(u, part) \in Seq(X) /\ Len(Pieces(u, part)) = last - first
        /\ \A x \in 1 .. last - first : Pieces(u, part)[x] = <<u, part[x]>>
    BY <2>1 DEF Pieces
  <2>6. \A x \in 1 .. last - first : first + x \in 1 .. n
    BY <1>1, <2>1
  <2>7. \A x \in 1 .. Len(Pieces(u, part)) : Pieces(u, part)[x] = SubSeq(e, first + 1, last)[x]
    BY <1>2, <2>1, <2>4, <2>5, <2>6
  <2> HIDE DEF e, X, seqs
  <2>8. Len(Pieces(u, part)) = Len(SubSeq(e, first + 1, last))
    BY <2>4, <2>5
  <2>9. Pieces(u, part) = SubSeq(e, first + 1, last)
    BY <2>4, <2>5, <2>7, <2>8, SeqEqual, Zenon
  <2>10. QED
    BY <2>2, <2>3, <2>5, <2>9
<1>9. seqs \in Seq(Seq(X)) /\ Len(seqs) = G
  <2>1. \A g \in 1 .. G : Pieces(u, PartOf(list, g)) \in Seq(X)
    BY <1>8
  <2> HIDE DEF X
  <2>2. QED
    BY <1>1, <2>1
<1>10. Prefix(e, n) = e
  BY DEF Prefix, Pieces, n
<1> HIDE DEF e, seqs, X
<1>11. (\A k \in 1 .. G : upTo[k - 1] <= upTo[k]) /\ upTo[0] = 0
  BY <1>4, <1>6
<1>12. \A k \in 1 .. G : seqs[k] = SubSeq(e, upTo[k - 1] + 1, upTo[k])
  BY <1>8
<1>13. FlattenSeq(seqs) = Prefix(e, upTo[G])
  <2>1. e \in Seq(X) /\ G \in Nat \ {0} /\ seqs \in Seq(Seq(X)) /\ Len(seqs) = G
    BY <1>1, <1>2, <1>9
  <2>2. Chops(X, e, G, upTo, seqs)
    BY <2>1, <1>7, <1>11, <1>12, Zenon DEF Chops
  <2>3. QED
    BY <2>2, FlattenPrefixes
<1>14. QED
  BY <1>4, <1>10, <1>13 DEF e, seqs, G

-----------------------------------------------------------------------------
(* What requests store *)

LEMMA WholeIsSeq ==
    ASSUME ObjectStorageAssumption, NEW w \in WholeContents
    PROVE  SubSeq(w, 1, Len(w)) = w
<1>1. PICK S : w \in Seq(S)
  <2>1. CASE w = Absent
    <3>1. w \in Seq({<<"absent", 0>>})
      BY <2>1 DEF Absent
    <3>2. QED
      BY <3>1
  <2>2. CASE \E d \in Data : w = Whole(d)
    <3>1. PICK d \in Data : w = Whole(d)
      BY <2>2
    <3>2. w \in Seq(Data \X Nat)
      BY <3>1 DEF Whole
    <3>3. QED
      BY <3>2
  <2>3. CASE \E u \in Uploads, list \in ChunkLists \ {<<>>} : w = UploadOf(u, list)
    <3>1. PICK u \in Uploads, list \in ChunkLists \ {<<>>} : w = UploadOf(u, list)
      BY <2>3
    <3>2. list \in Seq(ChunkNumbers) /\ list # <<>>
      BY DEF ObjectStorageAssumption
    <3>3. w = Pieces(u, list)
      BY <3>1, <3>2, FlattenPieces
    <3>4. w \in Seq({u} \X ChunkNumbers)
      BY <3>2, <3>3 DEF Pieces
    <3>5. QED
      BY <3>4
  <2>4. QED
    BY <2>1, <2>2, <2>3 DEF WholeContents
<1>2. QED
  BY <1>1, SubSeqFull

\* The chunks of a list that are all there make the content of the list.
LEMMA ChunksMakeUpload ==
    ASSUME NEW u, NEW list \in Seq(ChunkNumbers), list # <<>>,
           \A n \in ChunkNumbers : bucket[Chunk(u, n)] \in {Absent, PieceOf(u, n)},
           \A x \in DOMAIN ChunksAt(u, list) : Present(ChunksAt(u, list)[x])
    PROVE  FlattenSeq([x \in DOMAIN ChunksAt(u, list) |-> bucket[ChunksAt(u, list)[x]]]) = UploadOf(u, list)
<1>1. /\ DOMAIN list = 1 .. Len(list) /\ DOMAIN ChunksAt(u, list) = DOMAIN list
      /\ \A x \in DOMAIN list : list[x] \in ChunkNumbers /\ ChunksAt(u, list)[x] = Chunk(u, list[x])
  BY DEF ChunksAt
<1>2. \A x \in 1 .. Len(list) : bucket[ChunksAt(u, list)[x]] = PieceOf(u, list[x])
  BY <1>1 DEF Present
<1>3. [x \in DOMAIN ChunksAt(u, list) |-> bucket[ChunksAt(u, list)[x]]]
         = [x \in 1 .. Len(list) |-> PieceOf(u, list[x])]
  BY <1>1, <1>2
<1>4. QED
  BY <1>3, FlattenPieces

\* The groups of a list make the content of the list.
LEMMA GroupsMakeUpload ==
    ASSUME ObjectStorageAssumption, NEW u, NEW list \in Seq(ChunkNumbers), list # <<>>,
           \A g \in 1 .. GroupsOf(list) : bucket[Group(u, g)] = UploadOf(u, PartOf(list, g))
    PROVE  FlattenSeq([x \in DOMAIN GroupsAt(u, list) |-> bucket[GroupsAt(u, list)[x]]]) = UploadOf(u, list)
<1>1. /\ DOMAIN GroupsAt(u, list) = 1 .. GroupsOf(list)
      /\ \A g \in 1 .. GroupsOf(list) : GroupsAt(u, list)[g] = Group(u, g)
  BY DEF GroupsAt
<1>2. \A g \in 1 .. GroupsOf(list) : PartOf(list, g) \in Seq(ChunkNumbers) /\ PartOf(list, g) # <<>>
  BY GroupParts
<1>3. \A g \in 1 .. GroupsOf(list) : bucket[GroupsAt(u, list)[g]] = Pieces(u, PartOf(list, g))
  BY <1>1, <1>2, FlattenPieces
<1>4. [x \in DOMAIN GroupsAt(u, list) |-> bucket[GroupsAt(u, list)[x]]]
         = [g \in 1 .. GroupsOf(list) |-> Pieces(u, PartOf(list, g))]
  BY <1>1, <1>3
<1>5. FlattenSeq([g \in 1 .. GroupsOf(list) |-> Pieces(u, PartOf(list, g))]) = Pieces(u, list)
  BY FlattenGroups
<1>6. UploadOf(u, list) = Pieces(u, list)
  BY FlattenPieces
<1>7. QED
  BY <1>4, <1>5, <1>6, Zenon

\* An object is copied and read as it is.
LEMMA ObjectMakesObject ==
    ASSUME NEW k
    PROVE  FlattenSeq([x \in DOMAIN <<k>> |-> bucket[<<k>>[x]]]) = bucket[k]
<1>1. [x \in DOMAIN <<k>> |-> bucket[<<k>>[x]]] = <<bucket[k]>>
  OBVIOUS
<1>2. QED
  BY <1>1, FlattenOne

LEMMA CompleteCallParts ==
    ASSUME ObjectStorageAssumption, NEW k \in Calls, k.op = "CompleteMultipartUpload"
    PROVE  /\ k.list \in ChunkLists /\ k.list \in Seq(ChunkNumbers) /\ k.upload \in Uploads
           /\ k.name = TargetOf[k.upload] /\ k.name \in Names
           /\ Writes(k) = {Object(k.name)} \cup PartsOf(k.upload)
           /\ k.list # <<>> => \A g \in 1 .. GroupsOf(k.list) : Group(k.upload, g) \in PartsOf(k.upload)
<1>1. k.list \in ChunkLists
  <2>1. k \notin FileCalls /\ k \notin DirCalls /\ k \notin WriteCalls /\ k \notin PairCalls
    BY DEF FileCalls, DirCalls, WriteCalls, PairCalls, CallsOf
  <2>2. k \notin UploadCalls /\ k \notin ChunkCalls
    BY DEF UploadCalls, ChunkCalls, OnUpload, CallsOf
  <2>3. k \in CompleteCalls
    BY <2>1, <2>2 DEF Calls
  <2>4. QED
    BY <2>3 DEF CompleteCalls, OnUpload, CallsOf
<1>2. /\ k.list \in Seq(ChunkNumbers) /\ k.upload \in Uploads
      /\ k.name = TargetOf[k.upload] /\ k.name \in Names
  BY CallParts DEF CallFits
<1>3. Writes(k) = {Object(k.name)} \cup PartsOf(k.upload)
  BY DEF Writes
<1>4. ASSUME k.list # <<>>, NEW g \in 1 .. GroupsOf(k.list)
      PROVE  Group(k.upload, g) \in PartsOf(k.upload)
  <2>1. GroupsOf(k.list) \in 1 .. Len(k.list)
    BY <1>2, <1>4, GroupParts
  <2>2. g \in 1 .. Len(k.list)
    BY <1>2, <2>1
  <2>3. g \in GroupNumbers
    BY <1>1, <2>2 DEF GroupNumbers
  <2>4. Group(k.upload, g) \in Keys
    BY <1>2, <2>3 DEF Keys
  <2>5. QED
    BY <2>4 DEF PartsOf, Group
<1>5. QED
  BY <1>1, <1>2, <1>3, <1>4

\* A request of a completion stores a whole object or a whole group, and leaves the rest of it
\* to do.
LEMMA CompleteStep ==
    ASSUME ObjectStorageAssumption, NEW j, NEW over, IsJob(j), j.answer = "pending", PendingInv(j, over),
           j.op = "CompleteMultipartUpload", Completes(j.call, j.todo, bucket),
           \A u \in Uploads, n \in ChunkNumbers : bucket[Chunk(u, n)] \in {Absent, PieceOf(u, n)}
    PROVE  LET r == Head(j.todo)
           IN  /\ r.to \in Writes(j.call) \cup {NoKey} /\ r.gone \subseteq Writes(j.call)
               /\ r.to[3] # "chunk" /\ r.verb # "put"
               /\ r.to[3] = "object" /\ Allowed(r) => Content(j, r) \in WholeContents
               /\ Allowed(r) /\ bucket' = After(j, r) /\ Tail(j.todo) # <<>>
                     => Completes(j.call, Tail(j.todo), bucket')
<1> DEFINE r == Head(j.todo)
           k == j.call
           u == k.upload
           list == k.list
           G == GroupsOf(list)
<1>1. /\ j.todo \in Seq(RequestTypes) /\ j.todo # <<>> /\ r \in RequestTypes /\ r = j.todo[1]
      /\ 1 \in DOMAIN j.todo /\ Len(j.todo) \in Nat
      /\ Len(Tail(j.todo)) = Len(j.todo) - 1
      /\ \A l \in 1 .. Len(j.todo) - 1 : Tail(j.todo)[l] = j.todo[l + 1]
      /\ DOMAIN Tail(j.todo) = 1 .. Len(j.todo) - 1 /\ DOMAIN j.todo = 1 .. Len(j.todo)
  BY DEF IsJob, PendingInv, TodoInv
<1>2. /\ k \in Calls /\ k.op = "CompleteMultipartUpload" /\ StoresFirst(j, over)
      /\ r.verb \notin {"copy", "stat", "fill", "get"}
  BY <1>1 DEF PendingInv, TodoInv, OpFits
<1>3. /\ r.to[3] # "chunk" /\ r.gone \subseteq PartsOf(u) /\ (r.verb = "sweep" => r.to = NoKey)
  BY <1>1, <1>2 DEF StoresFirst
<1>4. /\ list \in ChunkLists /\ list \in Seq(ChunkNumbers) /\ u \in Uploads /\ k.name \in Names
      /\ Writes(k) = {Object(k.name)} \cup PartsOf(u)
      /\ list # <<>> => \A g \in 1 .. G : Group(u, g) \in PartsOf(u)
  BY <1>2, CompleteCallParts
<1>5. list # <<>> /\ r.verb # "put" /\ \A l \in DOMAIN Tail(j.todo) : Tail(j.todo)[l].verb # "put"
  <2>1. list # <<>> /\ \A l \in DOMAIN j.todo : j.todo[l].verb # "put"
    BY DEF Completes
  <2>2. QED
    BY <1>1, <2>1
<1>6. UploadOf(u, list) \in WholeContents
  BY <1>4, <1>5 DEF WholeContents
<1>7. G \in Nat /\ \A g \in 1 .. G : PartOf(list, g) \in Seq(ChunkNumbers) /\ PartOf(list, g) # <<>>
  BY <1>4, <1>5, GroupParts
<1> DEFINE Good == /\ r.to \in Writes(k) \cup {NoKey}
                   /\ r.to[3] = "object" /\ Allowed(r) => Content(j, r) \in WholeContents
                   /\ Allowed(r) /\ bucket' = After(j, r) /\ Tail(j.todo) # <<>>
                         => Completes(k, Tail(j.todo), bucket')
<1>8. CASE OnlyRemoves(j.todo)
  <2>1. r.to = NoKey /\ NoKey[3] # "object"
    BY <1>1, <1>8 DEF OnlyRemoves, NoKey, None
  <2>2. OnlyRemoves(Tail(j.todo))
    BY <1>1, <1>8 DEF OnlyRemoves
  <2>3. Completes(k, Tail(j.todo), bucket')
    BY <1>5, <2>2 DEF Completes
  <2>4. Good
    BY <2>1, <2>3
  <2>5. QED
    BY <1>3, <1>4, <1>5, <2>4
<1>9. CASE OnePass(k, j.todo)
  <2>1. /\ r.verb \in {"compose", "finish"} /\ r.to = Object(k.name) /\ r.from = ChunksAt(u, list)
        /\ \A l \in DOMAIN j.todo : l # 1 => j.todo[l].to = NoKey
    BY <1>1, <1>9 DEF OnePass
  <2>2. ASSUME Allowed(r)
        PROVE  Content(j, r) \in WholeContents
    <3>1. \A x \in DOMAIN ChunksAt(u, list) : Present(ChunksAt(u, list)[x])
      BY <2>1, <2>2 DEF Allowed
    <3>2. FlattenSeq([x \in DOMAIN ChunksAt(u, list) |-> bucket[ChunksAt(u, list)[x]]]) = UploadOf(u, list)
      BY <1>4, <1>5, <3>1, ChunksMakeUpload
    <3>3. QED
      BY <1>6, <2>1, <3>2 DEF Content
  <2>3. OnlyRemoves(Tail(j.todo))
    BY <1>1, <2>1 DEF OnlyRemoves
  <2>4. Completes(k, Tail(j.todo), bucket')
    BY <1>5, <2>3 DEF Completes
  <2>5. Good
    BY <1>4, <2>1, <2>2, <2>4
  <2>6. QED
    BY <1>3, <1>4, <1>5, <2>5
<1>10. ASSUME NEW made \in 0 .. G, TwoPass(k, j.todo, made, bucket)
       PROVE  Good
  <2> DEFINE left == G - made
  <2>1. /\ Len(j.todo) = left + 2
        /\ \A l \in 1 .. left + 1 : j.todo[l].verb = "compose" /\ j.todo[l].gone = {}
        /\ \A l \in 1 .. left : /\ j.todo[l].to = Group(u, made + l)
                                /\ j.todo[l].from = ChunksAt(u, PartOf(list, made + l))
        /\ j.todo[left + 1].to = Object(k.name) /\ j.todo[left + 1].from = GroupsAt(u, list)
        /\ j.todo[left + 2].to = NoKey
        /\ \A g \in 1 .. made : bucket[Group(u, g)] = UploadOf(u, PartOf(list, g))
    BY <1>10 DEF TwoPass
  <2>2. made \in Nat /\ left \in Nat
    BY <1>7
  <2>3. CASE left = 0
    <3>1. made = G
      BY <1>7, <2>2, <2>3
    <3> HIDE DEF left
    <3>8. left + 1 = 1 /\ left + 2 = 2 /\ 1 \in 1 .. left + 1
      BY <2>3
    <3>9. Len(j.todo) = 2 /\ j.todo[1].verb = "compose" /\ j.todo[2].to = NoKey
      BY <2>1, <3>8
    <3>2. r.verb = "compose" /\ r.to = Object(k.name) /\ r.from = GroupsAt(u, list)
      BY <1>1, <2>1, <3>8, <3>9
    <3>3. FlattenSeq([x \in DOMAIN GroupsAt(u, list) |-> bucket[GroupsAt(u, list)[x]]]) = UploadOf(u, list)
      BY <1>4, <1>5, <2>1, <3>1, GroupsMakeUpload
    <3>4. Content(j, r) \in WholeContents
      BY <1>6, <3>2, <3>3 DEF Content
    <3>5. OnlyRemoves(Tail(j.todo))
      <4>1. DOMAIN Tail(j.todo) = 1 .. 1 /\ Tail(j.todo)[1] = j.todo[1 + 1]
        BY <1>1, <3>9
      <4>2. QED
        BY <3>9, <4>1 DEF OnlyRemoves
    <3>6. Completes(k, Tail(j.todo), bucket')
      BY <1>5, <3>5 DEF Completes
    <3>7. QED
      BY <1>4, <3>2, <3>4, <3>6
  <2>4. CASE left # 0
    <3> DEFINE more == made + 1
    <3>1. more \in 1 .. G /\ made \in Nat /\ G - more = left - 1 /\ left \in Nat /\ left >= 1
      BY <1>7, <2>2, <2>4
    <3>2. r.verb = "compose" /\ r.gone = {} /\ r.to = Group(u, more) /\ r.from = ChunksAt(u, PartOf(list, more))
      <4>1. 1 \in 1 .. left /\ 1 \in 1 .. left + 1
        BY <3>1
      <4>2. QED
        BY <1>1, <2>1, <4>1
    <3>3. Group(u, more) \in PartsOf(u) /\ Group(u, more)[3] = "group"
      BY <1>4, <1>5, <3>1 DEF Group
    <3>4. ASSUME Allowed(r), bucket' = After(j, r)
          PROVE  TwoPass(k, Tail(j.todo), more, bucket')
      <4>1. \A x \in DOMAIN ChunksAt(u, PartOf(list, more)) : Present(ChunksAt(u, PartOf(list, more))[x])
        BY <3>2, <3>4 DEF Allowed
      <4>2. Content(j, r) = UploadOf(u, PartOf(list, more))
        <5>1. PartOf(list, more) \in Seq(ChunkNumbers) /\ PartOf(list, more) # <<>>
          BY <1>7, <3>1
        <5> DEFINE part == PartOf(list, more)
        <5> HIDE DEF part
        <5>2. FlattenSeq([x \in DOMAIN ChunksAt(u, part) |-> bucket[ChunksAt(u, part)[x]]]) = UploadOf(u, part)
          BY <1>4, <4>1, <5>1, ChunksMakeUpload DEF part
        <5>3. QED
          BY <3>2, <5>2 DEF Content, part
      <4>3. bucket'[Group(u, more)] = UploadOf(u, PartOf(list, more))
        BY <3>2, <3>3, <3>4, <4>2 DEF After, PartsOf
      <4>4. ASSUME NEW g \in 1 .. made
            PROVE  bucket'[Group(u, g)] = UploadOf(u, PartOf(list, g))
        <5>1. g \in 1 .. G /\ g # more
          BY <1>7, <3>1
        <5>2. Group(u, g) \in Keys /\ Group(u, g) # r.to
          BY <1>4, <1>5, <3>2, <5>1 DEF PartsOf, Group
        <5>3. QED
          BY <2>1, <3>2, <3>4, <5>2 DEF After, Listed
      <4>5. \A g \in 1 .. more : bucket'[Group(u, g)] = UploadOf(u, PartOf(list, g))
        BY <3>1, <4>3, <4>4
      <4> DEFINE todo == Tail(j.todo)
      <4>6. Len(todo) = (left - 1) + 2 /\ \A l \in 1 .. left + 1 : todo[l] = j.todo[l + 1]
        BY <1>1, <2>1, <3>1
      <4> HIDE DEF todo
      <4>12. /\ todo[left] = j.todo[left + 1] /\ todo[left + 1] = j.todo[left + 2]
             /\ \A l \in 1 .. left : todo[l] = j.todo[l + 1] /\ l + 1 \in 1 .. left + 1
        <5>1. left \in 1 .. left + 1 /\ left + 1 \in 1 .. left + 1 /\ (left + 1) + 1 = left + 2
          BY <3>1
        <5>2. todo[left + 1] = j.todo[(left + 1) + 1]
          BY <4>6, <5>1
        <5>3. \A l \in 1 .. left : l \in 1 .. left + 1 /\ l + 1 \in 1 .. left + 1
          BY <3>1
        <5>4. QED
          BY <4>6, <5>1, <5>2, <5>3
      <4>7. /\ \A l \in 1 .. left : todo[l].verb = "compose" /\ todo[l].gone = {}
            /\ todo[left].to = Object(k.name) /\ todo[left].from = GroupsAt(u, list)
            /\ todo[left + 1].to = NoKey
        BY <2>1, <4>12
      <4>8. ASSUME NEW l \in 1 .. left - 1
            PROVE  todo[l].to = Group(u, more + l) /\ todo[l].from = ChunksAt(u, PartOf(list, more + l))
        <5>1. l + 1 \in 1 .. left /\ l \in 1 .. left + 1 /\ made + (l + 1) = more + l
          BY <3>1
        <5>2. /\ j.todo[l + 1].to = Group(u, made + (l + 1))
              /\ j.todo[l + 1].from = ChunksAt(u, PartOf(list, made + (l + 1)))
          BY <2>1, <5>1
        <5>3. todo[l] = j.todo[l + 1]
          BY <4>6, <5>1
        <5>4. QED
          BY <5>1, <5>2, <5>3
      <4> HIDE DEF more, left
      <4>9. (left - 1) + 1 = left /\ (left - 1) + 2 = left + 1
        BY <3>1
      <4>10. TwoPass(k, todo, more, bucket')
        BY <3>1, <4>5, <4>6, <4>7, <4>8, <4>9 DEF TwoPass
      <4>11. QED
        BY <4>10 DEF todo
    <3>5. Completes(k, Tail(j.todo), bucket') \/ ~Allowed(r) \/ bucket' # After(j, r)
      BY <1>5, <1>7, <3>1, <3>4 DEF Completes
    <3>6. QED
      BY <1>4, <3>2, <3>3, <3>5
  <2>5. QED
    BY <2>3, <2>4
<1>11. QED
  BY <1>3, <1>4, <1>5, <1>8, <1>9, <1>10 DEF Completes

\* So does a request of another call: it stores a chunk, what a caller wrote or what an object
\* holds.
LEMMA OtherStep ==
    ASSUME ObjectStorageAssumption, NEW j, NEW over, IsJob(j), j.answer = "pending", PendingInv(j, over),
           j.op # "CompleteMultipartUpload", WholeJob(j, bucket), WholeObjects
    PROVE  LET r == Head(j.todo)
           IN  /\ r.to \in Writes(j.call) \cup {NoKey} /\ r.gone \subseteq Writes(j.call)
               /\ r.to[3] = "object" \/ r.verb = "get" => Content(j, r) \in WholeContents
               /\ r.to[3] = "chunk" => /\ r.to = Chunk(j.call.upload, j.call.chunk)
                                       /\ Content(j, r) = PieceOf(j.call.upload, j.call.chunk)
<1> DEFINE r == Head(j.todo)
           k == j.call
<1>1. /\ r = j.todo[1] /\ 1 \in DOMAIN j.todo /\ k \in Calls
  BY DEF IsJob, PendingInv, TodoInv
<1>2. \/ j.op = k.op /\ k.op # "util.Copy"
      \/ k.op = "util.Copy" /\ j.op \in {"Copy", "ReadFile", "Write"}
  BY DEF PendingInv, OpFits
<1>3. CallFits(k)
  BY <1>1, CallParts
<1>4. StoresWhole(r, k, j.op) /\ j.read = 0 /\ j.opened \in WholeContents
  BY <1>1 DEF WholeJob, AllStoreWhole
<1> HIDE DEF r
<1>5. CASE r.verb = "put" /\ j.op = "UploadMultipartChunk" /\ r.to = Chunk(k.upload, k.chunk)
  <2>1. Content(j, r) = Unread(j)
    BY <1>5 DEF Content
  <2>2. Source(j) = PieceOf(k.upload, k.chunk)
    BY <1>2, <1>5 DEF Source
  <2>3. SubSeq(PieceOf(k.upload, k.chunk), 0 + 1, Len(PieceOf(k.upload, k.chunk))) = PieceOf(k.upload, k.chunk)
    <3>1. Len(PieceOf(k.upload, k.chunk)) = 1
      BY DEF PieceOf
    <3>2. QED
      BY <3>1, WholeOfOne DEF PieceOf
  <2>4. Content(j, r) = PieceOf(k.upload, k.chunk)
    BY <2>1, <2>2, <2>3, <1>4 DEF Unread
  <2>5. r.to \in Writes(k) /\ r.to[3] = "chunk"
    BY <1>2, <1>5 DEF Writes, Chunk
  <2>6. QED
    BY <2>4, <2>5, <1>4, <1>5 DEF StoresWhole, r
<1>6. CASE r.verb = "put" /\ j.op \in {"Write", "WriteFile"} /\ r.to \in Writes(k) /\ r.to[3] = "object"
  <2>1. Content(j, r) = Unread(j)
    BY <1>6 DEF Content
  <2>2. Source(j) \in WholeContents
    <3>1. CASE k.op = "util.Copy"
      BY <3>1, <1>4 DEF Source
    <3>2. CASE k.op \in {"Write", "WriteFile"}
      <4>1. k.data \in Data
        <5>1. /\ k \notin FileCalls /\ k \notin DirCalls /\ k \notin PairCalls
          BY <3>2 DEF FileCalls, DirCalls, PairCalls, CallsOf
        <5>2. k \notin UploadCalls /\ k \notin ChunkCalls /\ k \notin CompleteCalls
          BY <3>2 DEF UploadCalls, ChunkCalls, CompleteCalls, OnUpload, CallsOf
        <5>3. k \in WriteCalls
          BY <5>1, <5>2, <1>1 DEF Calls
        <5>4. QED
          BY <5>3 DEF WriteCalls, CallsOf
      <4>2. Source(j) = Whole(k.data)
        BY <3>2, <1>6 DEF Source
      <4>3. QED
        BY <4>1, <4>2 DEF WholeContents
    <3>3. QED
      BY <3>1, <3>2, <1>2, <1>6
  <2>3. SubSeq(Source(j), 0 + 1, Len(Source(j))) = Source(j)
    BY <2>2, WholeIsSeq
  <2>4. Content(j, r) \in WholeContents
    BY <2>1, <2>2, <2>3, <1>4 DEF Unread
  <2>5. QED
    BY <2>4, <1>4, <1>6 DEF StoresWhole, r
<1>7. CASE r.verb # "put"
  <2>1. /\ r.to \in Writes(k) \cup {NoKey} /\ r.gone \subseteq Writes(k)
        /\ r.to # NoKey => r.to[3] = "object"
        /\ r.verb = "get" \/ r.to # NoKey => \E n \in Names : r.from = <<Object(n)>>
    BY <1>4, <1>7 DEF StoresWhole
  <2>2. ASSUME NEW n \in Names, r.from = <<Object(n)>>
        PROVE  Content(j, r) \in WholeContents
    <3>1. Content(j, r) = bucket[Object(n)]
      BY <1>7, <2>2, ObjectMakesObject DEF Content
    <3>2. QED
      BY <3>1 DEF WholeObjects
  <2>3. NoKey[3] = None /\ None # "object" /\ None # "chunk"
    BY DEF NoKey, None
  <2>4. QED
    BY <2>1, <2>2, <2>3 DEF r
<1>8. QED
  BY <1>4, <1>5, <1>6, <1>7 DEF StoresWhole

(* A request that takes effect leaves every object and chunk whole, and what the call does not *)
(* write as it was.                                                                            *)
LEMMA EffectWhole ==
    ASSUME ObjectStorageAssumption, ObjectIInv, WholeInv, NEW c \in Clients, Pending(c),
           Allowed(Head(job[c].todo)), bucket' = After(job[c], Head(job[c].todo))
    PROVE  /\ WholeObjects' /\ Pieced'
           /\ \A key \in Keys \ Writes(job[c].call) : bucket'[key] = bucket[key]
           /\ job[c].op = "CompleteMultipartUpload" /\ Tail(job[c].todo) # <<>>
                 => Completes(job[c].call, Tail(job[c].todo), bucket')
           /\ Head(job[c].todo).verb = "get" => Content(job[c], Head(job[c].todo)) \in WholeContents
<1> DEFINE j == job[c]
           r == Head(j.todo)
           k == j.call
<1>1. IsJob(j) /\ j.answer = "pending" /\ PendingInv(j, released)
  BY PendingCall
<1>2. WholeJob(j, bucket) /\ WholeObjects /\ Pieced
  BY DEF WholeInv, Pieced
<1>3. /\ r.to \in Writes(k) \cup {NoKey} /\ r.gone \subseteq Writes(k)
      /\ r.to[3] = "object" => Content(j, r) \in WholeContents
      /\ r.to[3] = "chunk" => r.to = Chunk(k.upload, k.chunk) /\ Content(j, r) = PieceOf(k.upload, k.chunk)
      /\ j.op = "CompleteMultipartUpload" /\ Tail(j.todo) # <<>> => Completes(k, Tail(j.todo), bucket')
      /\ r.verb = "get" => Content(j, r) \in WholeContents
  <2>1. CASE j.op = "CompleteMultipartUpload"
    <3>1. Completes(k, j.todo, bucket)
      BY <1>2, <2>1 DEF WholeJob
    <3>2. r.verb # "get"
      BY <1>1, <2>1 DEF IsJob, PendingInv, TodoInv
    <3>3. QED
      BY <1>1, <1>2, <2>1, <3>1, <3>2, CompleteStep DEF Pieced
  <2>2. CASE j.op # "CompleteMultipartUpload"
    BY <1>1, <1>2, <2>2, OtherStep
  <2>3. QED
    BY <2>1, <2>2
<1>4. bucket' = After(j, r)
  OBVIOUS
<1> HIDE DEF j, r
<1>5. /\ \A n \in Names : Object(n) \in Keys /\ Object(n)[3] = "object"
      /\ \A u \in Uploads, n \in ChunkNumbers :
            /\ Chunk(u, n) \in Keys /\ Chunk(u, n)[3] = "chunk"
            /\ Chunk(u, n)[2] = u /\ Chunk(u, n)[4] = n
  BY KeyParts
<1>6. \A key \in Keys : /\ key = r.to => bucket'[key] = Content(j, r)
                        /\ key # r.to => bucket'[key] \in {Absent, bucket[key]}
                        /\ key # r.to /\ key \notin r.gone => bucket'[key] = bucket[key]
  BY <1>4 DEF After, Listed
<1>7. Absent \in WholeContents
  BY DEF WholeContents
<1>8. \A n \in Names : bucket'[Object(n)] \in WholeContents
  BY <1>2, <1>3, <1>5, <1>6, <1>7 DEF WholeObjects
<1>9. \A u \in Uploads, n \in ChunkNumbers : bucket'[Chunk(u, n)] \in {Absent, PieceOf(u, n)}
  <2>1. SUFFICES ASSUME NEW u \in Uploads, NEW n \in ChunkNumbers
                 PROVE  bucket'[Chunk(u, n)] \in {Absent, PieceOf(u, n)}
    OBVIOUS
  <2>2. CASE r.to = Chunk(u, n)
    <3>1. Chunk(u, n) = Chunk(k.upload, k.chunk) /\ bucket'[Chunk(u, n)] = PieceOf(k.upload, k.chunk)
      BY <1>3, <1>5, <1>6, <2>2
    <3>2. u = k.upload /\ n = k.chunk
      BY <3>1 DEF Chunk
    <3>3. QED
      BY <3>1, <3>2
  <2>3. CASE r.to # Chunk(u, n)
    BY <1>2, <1>5, <1>6, <2>3 DEF Pieced
  <2>4. QED
    BY <2>2, <2>3
<1>10. \A key \in Keys \ Writes(k) : bucket'[key] = bucket[key]
  <2>1. NoKey \notin Keys
    BY DEF NoKey, Keys, Object, Chunk, Group, None
  <2>2. QED
    BY <2>1, <1>3, <1>6
<1>11. WholeObjects' /\ Pieced'
  BY <1>8, <1>9, Zenon DEF WholeObjects, Pieced
<1>12. QED
  BY <1>3, <1>10, <1>11 DEF j, r

(* A request that fails before it took effect may have removed some of what it was to remove. *)
LEMMA PartWhole ==
    ASSUME ObjectStorageAssumption, ObjectIInv, WholeInv, NEW c \in Clients, Pending(c),
           bucket' \in AfterPart(Head(job[c].todo))
    PROVE  /\ WholeObjects' /\ Pieced'
           /\ \A key \in Keys \ Writes(job[c].call) : bucket'[key] = bucket[key]
<1> DEFINE j == job[c]
           r == Head(j.todo)
<1>1. IsJob(j) /\ j.answer = "pending" /\ PendingInv(j, released)
  BY PendingCall
<1>2. WholeJob(j, bucket) /\ WholeObjects /\ Pieced
  BY DEF WholeInv, Pieced
<1>3. r.gone \subseteq Writes(j.call)
  <2>1. CASE j.op = "CompleteMultipartUpload"
    <3>1. Completes(j.call, j.todo, bucket)
      BY <1>2, <2>1 DEF WholeJob
    <3>2. QED
      BY <1>1, <1>2, <2>1, <3>1, CompleteStep DEF Pieced
  <2>2. CASE j.op # "CompleteMultipartUpload"
    BY <1>1, <1>2, <2>2, OtherStep
  <2>3. QED
    BY <2>1, <2>2
<1> HIDE DEF r
<1>4. PICK removed \in SUBSET (IF r.verb = "sweep" /\ backend = "s3" THEN Listed(r.gone) ELSE {}) :
         bucket' = [k \in Keys |-> IF k \in removed THEN Absent ELSE bucket[k]]
  BY DEF AfterPart, r
<1>5. /\ \A key \in Keys : bucket'[key] \in {Absent, bucket[key]}
      /\ \A key \in Keys \ Writes(j.call) : bucket'[key] = bucket[key]
  BY <1>3, <1>4 DEF Listed
<1>6. Absent \in WholeContents
  BY DEF WholeContents
<1>7. /\ \A n \in Names : Object(n) \in Keys
      /\ \A u \in Uploads, n \in ChunkNumbers : Chunk(u, n) \in Keys
  BY KeyParts
<1>8. /\ \A n \in Names : bucket'[Object(n)] \in WholeContents
      /\ \A u \in Uploads, n \in ChunkNumbers : bucket'[Chunk(u, n)] \in {Absent, PieceOf(u, n)}
  BY <1>2, <1>5, <1>6, <1>7 DEF WholeObjects, Pieced
<1>9. WholeObjects' /\ Pieced'
  BY <1>8, Zenon DEF WholeObjects, Pieced
<1>10. QED
  BY <1>5, <1>9

-----------------------------------------------------------------------------
(* What requests an attempt sends *)

\* The chunks of a part of a list are the part of its chunks.
PartFits(u, list, m, n) == SubSeq(ChunksAt(u, list), m + 1, n) = ChunksAt(u, SubSeq(list, m + 1, n))

LEMMA ChunksAtPart ==
    ASSUME NEW u, NEW list \in Seq(ChunkNumbers), NEW m \in Nat, NEW n \in Nat, m <= n, n <= Len(list)
    PROVE  PartFits(u, list, m, n)
<1> DEFINE X == {Chunk(u, x) : x \in ChunkNumbers}
           whole == ChunksAt(u, list)
           part == SubSeq(list, m + 1, n)
<1>1. /\ part \in Seq(ChunkNumbers) /\ Len(part) = n - m
      /\ \A x \in 1 .. n - m : part[x] = list[m + x]
  OBVIOUS
<1>2. whole \in Seq(X) /\ Len(whole) = Len(list) /\ \A x \in 1 .. Len(list) : whole[x] = Chunk(u, list[x])
  BY DEF ChunksAt
<1> HIDE DEF whole, part
<1>3. /\ ChunksAt(u, part) \in Seq(X) /\ Len(ChunksAt(u, part)) = n - m
      /\ \A x \in 1 .. n - m : ChunksAt(u, part)[x] = Chunk(u, part[x])
  <2>1. n - m \in Nat /\ DOMAIN part = 1 .. n - m
    BY <1>1
  <2>2. ChunksAt(u, part) = [x \in 1 .. n - m |-> Chunk(u, part[x])]
    BY <2>1 DEF ChunksAt
  <2>3. \A x \in 1 .. n - m : Chunk(u, part[x]) \in X
    BY <1>1, <2>1
  <2> HIDE DEF X
  <2>4. QED
    BY <2>1, <2>2, <2>3
<1> HIDE DEF X
<1>4. /\ SubSeq(whole, m + 1, n) \in Seq(X) /\ Len(SubSeq(whole, m + 1, n)) = n - m
      /\ \A x \in 1 .. n - m : SubSeq(whole, m + 1, n)[x] = whole[m + x]
  BY <1>2
<1>5. \A x \in 1 .. n - m : m + x \in 1 .. Len(list)
  OBVIOUS
<1>6. \A x \in 1 .. Len(SubSeq(whole, m + 1, n)) : SubSeq(whole, m + 1, n)[x] = ChunksAt(u, part)[x]
  BY <1>1, <1>2, <1>3, <1>4, <1>5
<1>7. Len(SubSeq(whole, m + 1, n)) = Len(ChunksAt(u, part))
  BY <1>3, <1>4
<1>8. SubSeq(whole, m + 1, n) = ChunksAt(u, part)
  BY <1>3, <1>4, <1>6, <1>7, SeqEqual, Zenon
<1>9. QED
  BY <1>8 DEF PartFits, whole, part

LEMMA PartOfChunks ==
    ASSUME ObjectStorageAssumption, NEW u, NEW list \in Seq(ChunkNumbers), Len(list) > 0,
           NEW g \in 1 .. GroupsOf(list)
    PROVE  SubSeq(ChunksAt(u, list), (g - 1) * ComposeLimit + 1, Lower(g * ComposeLimit, Len(list)))
              = ChunksAt(u, PartOf(list, g))
<1>1. /\ (g - 1) * ComposeLimit \in Nat /\ Lower(g * ComposeLimit, Len(list)) \in Nat
      /\ (g - 1) * ComposeLimit < Lower(g * ComposeLimit, Len(list))
      /\ Lower(g * ComposeLimit, Len(list)) <= Len(list)
  <2>1. list # <<>>
    OBVIOUS
  <2>2. QED
    BY <2>1, GroupParts
<1>2. PICK x \in Nat, y \in Nat : x = (g - 1) * ComposeLimit /\ y = Lower(g * ComposeLimit, Len(list))
  BY <1>1
<1>3. x <= y /\ y <= Len(list)
  BY <1>1, <1>2
<1>4. PartFits(u, list, x, y)
  BY <1>3, ChunksAtPart
<1>5. QED
  BY <1>2, <1>4 DEF PartOf, PartFits

LEMMA ComposeIs ==
    ASSUME NEW from, NEW to
    PROVE  LET r == Compose(from, to)
           IN  r.verb = "compose" /\ r.from = from /\ r.to = to /\ r.gone = {}
BY DEF Compose, Request

\* A completion of GCS with more chunks than one composition takes.
LEMMA TwoPasses ==
    ASSUME ObjectStorageAssumption, NEW k, NEW b, k.list \in Seq(ChunkNumbers), k.list # <<>>,
           k.name = TargetOf[k.upload], Len(k.list) > ComposeLimit
    PROVE  TwoPass(k, Append(ComposeAll(k.upload, ChunksAt(k.upload, k.list)), Sweep(PartsOf(k.upload), TRUE)), 0, b)
<1> DEFINE u == k.upload
           list == k.list
           chunks == ChunksAt(u, list)
           G == GroupsOf(list)
           Smaller(x, y) == IF x < y THEN x ELSE y
           sources(g) == SubSeq(chunks, (g - 1) * ComposeLimit + 1, Smaller(g * ComposeLimit, Len(chunks)))
           first == [g \in 1 .. G |-> Compose(sources(g), Group(u, g))]
           last == Compose(GroupsAt(u, list), Object(TargetOf[u]))
           sweep == Sweep(PartsOf(u), TRUE)
           todo == Append(Append(first, last), sweep)
           X == {Compose(sources(g), Group(u, g)) : g \in 1 .. G}
<1>1. Len(chunks) = Len(list) /\ Len(list) \in Nat
  BY DEF ChunksAt
<1>2. G \in Nat
  BY GroupParts
<1>3. ComposeAll(u, chunks) = Append(first, last)
  <2>1. (Len(chunks) + ComposeLimit - 1) \div ComposeLimit = G
    BY <1>1 DEF GroupsOf
  <2>2. ~(Len(chunks) <= ComposeLimit)
    BY <1>1 DEF ObjectStorageAssumption
  <2> HIDE DEF G, chunks
  <2>3. QED
    BY <2>1, <2>2 DEF ComposeAll, GroupsAt, G
<1>4. ASSUME NEW g \in 1 .. G
      PROVE  sources(g) = ChunksAt(u, PartOf(list, g))
  <2>1. SubSeq(chunks, (g - 1) * ComposeLimit + 1, Lower(g * ComposeLimit, Len(list))) = ChunksAt(u, PartOf(list, g))
    <3>1. Len(list) > 0
      OBVIOUS
    <3>2. QED
      BY <3>1, PartOfChunks
  <2> HIDE DEF chunks
  <2>2. QED
    BY <1>1, <2>1 DEF Lower
<1> HIDE DEF sources, G, chunks
<1>5. /\ Len(first) = G
      /\ \A l \in 1 .. G : /\ first[l].verb = "compose" /\ first[l].gone = {}
                           /\ first[l].to = Group(u, l) /\ first[l].from = ChunksAt(u, PartOf(list, l))
  BY <1>2, <1>4, ComposeIs
<1>6. last.verb = "compose" /\ last.gone = {} /\ last.to = Object(k.name) /\ last.from = GroupsAt(u, list)
  BY ComposeIs
<1>7. sweep.to = NoKey
  BY DEF Sweep, Request
<1>8. first \in Seq(X)
  <2>1. \A g \in 1 .. G : Compose(sources(g), Group(u, g)) \in X
    BY Zenon
  <2> HIDE DEF X
  <2>2. QED
    BY <1>2, <2>1
<1> HIDE DEF first, last, sweep, X
<1>9. /\ Len(todo) = G + 2 /\ todo[G + 1] = last /\ todo[G + 2] = sweep
      /\ \A l \in 1 .. G : todo[l] = first[l]
  <2>1. /\ Append(first, last) \in Seq(X \cup {last})
        /\ Len(Append(first, last)) = G + 1 /\ Append(first, last)[G + 1] = last
        /\ \A l \in 1 .. G : Append(first, last)[l] = first[l]
    BY <1>2, <1>5, <1>8
  <2> DEFINE all == Append(first, last)
  <2> HIDE DEF all
  <2>2. /\ Len(Append(all, sweep)) = G + 1 + 1 /\ Append(all, sweep)[G + 1 + 1] = sweep
        /\ \A l \in 1 .. G + 1 : Append(all, sweep)[l] = all[l]
    BY <2>1, <1>2 DEF all
  <2>3. G + 1 + 1 = G + 2 /\ G + 1 \in 1 .. G + 1 /\ \A l \in 1 .. G : l \in 1 .. G + 1
    BY <1>2
  <2>4. QED
    BY <2>1, <2>2, <2>3 DEF all
<1> HIDE DEF todo
<1>10. \A l \in 1 .. G + 1 : todo[l].verb = "compose" /\ todo[l].gone = {}
  <2>1. \A l \in 1 .. G + 1 : l \in 1 .. G \/ l = G + 1
    BY <1>2
  <2>2. QED
    BY <1>5, <1>6, <1>9, <2>1
<1>11. \A l \in 1 .. G : todo[l].to = Group(u, 0 + l) /\ todo[l].from = ChunksAt(u, PartOf(list, 0 + l))
  BY <1>2, <1>5, <1>9
<1>12. G - 0 = G
  BY <1>2
<1>13. TwoPass(k, todo, 0, b)
  BY <1>6, <1>7, <1>9, <1>10, <1>11, <1>12 DEF TwoPass, G
<1>14. QED
  BY <1>3, <1>13 DEF todo, chunks, sweep

LEMMA CompleteRequests ==
    ASSUME ObjectStorageAssumption, NEW k, NEW b, k.list \in Seq(ChunkNumbers), k.list # <<>>,
           k.upload \in Uploads, k.name = TargetOf[k.upload]
    PROVE  Completes(k, CompleteUpload(k.upload, k.list), b)
<1> DEFINE u == k.upload
           chunks == ChunksAt(u, k.list)
           object == Object(TargetOf[u])
           sweep == Sweep(PartsOf(u), TRUE)
           finish == [Request("finish") EXCEPT !.from = chunks, !.to = object,
                                               !.gone = PartsOf(u), !.upload = u]
<1>1. Len(chunks) = Len(k.list) /\ Len(k.list) \in Nat /\ ComposeLimit \in Nat
  BY DEF ChunksAt, ObjectStorageAssumption
<1>2. CompleteUpload(u, k.list) = IF backend = "gcs" THEN Append(ComposeAll(u, chunks), sweep) ELSE <<finish>>
  BY DEF CompleteUpload, ChunksAt
<1>8. \A l \in DOMAIN CompleteUpload(u, k.list) : CompleteUpload(u, k.list)[l].verb # "put"
  <2>1. \A l \in DOMAIN CompleteUpload(u, k.list) :
           CompleteUpload(u, k.list)[l].verb \in {"compose", "sweep", "finish"}
    BY CompleteUploadParts
  <2>2. QED
    BY <2>1
<1>3. /\ finish.verb = "finish" /\ finish.to = object /\ finish.from = chunks
      /\ sweep.to = NoKey
  BY DEF Request, Sweep
<1> HIDE DEF finish, sweep
<1>4. CASE backend # "gcs"
  <2>1. OnePass(k, <<finish>>)
    BY <1>3 DEF OnePass
  <2>2. QED
    BY <1>2, <1>4, <1>8, <2>1 DEF Completes
<1>5. CASE backend = "gcs" /\ Len(k.list) <= ComposeLimit
  <2> DEFINE all == Compose(chunks, object)
  <2>1. ComposeAll(u, chunks) = <<all>>
    BY <1>1, <1>5 DEF ComposeAll
  <2>2. all.verb = "compose" /\ all.to = object /\ all.from = chunks
    BY ComposeIs
  <2> HIDE DEF all
  <2>3. /\ DOMAIN Append(<<all>>, sweep) = 1 .. 2
        /\ Append(<<all>>, sweep)[1] = all /\ Append(<<all>>, sweep)[2] = sweep
    <3>1. <<all>> \in Seq({all, sweep}) /\ Len(<<all>>) = 1 /\ <<all>>[1] = all /\ sweep \in {all, sweep}
      OBVIOUS
    <3>2. QED
      BY <3>1
  <2>4. OnePass(k, Append(<<all>>, sweep))
    BY <1>3, <2>2, <2>3 DEF OnePass
  <2>5. QED
    BY <1>2, <1>5, <1>8, <2>1, <2>4 DEF Completes
<1>6. CASE backend = "gcs" /\ ~(Len(k.list) <= ComposeLimit)
  <2>1. TwoPass(k, Append(ComposeAll(u, chunks), sweep), 0, b)
    <3>1. Len(k.list) > ComposeLimit
      BY <1>1, <1>6
    <3>2. QED
      BY <3>1, TwoPasses, Zenon DEF sweep
  <2>2. 0 \in 0 .. GroupsOf(k.list)
    BY GroupParts
  <2>3. QED
    BY <1>2, <1>6, <1>8, <2>1, <2>2 DEF Completes
<1>7. QED
  BY <1>4, <1>5, <1>6

LEMMA OtherStores ==
    ASSUME ObjectStorageAssumption, NEW k \in Calls, NEW op,
           \/ op = k.op /\ op # "util.Copy"
           \/ k.op = "util.Copy" /\ op \in {"Copy", "ReadFile", "Write"},
           op # "CompleteMultipartUpload"
    PROVE  AllStoreWhole(Requests(k, op), k, op)
<1>0. CallFits(k)
  BY CallParts
<1> DEFINE Fine(r) == StoresWhole(r, k, op) /\ r.verb # "put"
           Alone(r) == StoresWhole(r, k, op)
           Good(todo) == AllStoreWhole(todo, k, op)
<1>1. /\ Good(<<>>)
      /\ \A r : Alone(r) => Good(<<r>>)
      /\ \A r : Fine(r) => Alone(r)
      /\ \A r, q : Fine(r) /\ Fine(q) => Good(<<r, q>>)
  <2>1. Good(<<>>)
    BY DEF AllStoreWhole
  <2>2. ASSUME NEW r, Alone(r)
        PROVE  Good(<<r>>)
    BY <2>2 DEF AllStoreWhole
  <2>3. ASSUME NEW r, NEW q, Fine(r), Fine(q)
        PROVE  Good(<<r, q>>)
    <3>1. DOMAIN <<r, q>> = 1 .. 2 /\ <<r, q>>[1] = r /\ <<r, q>>[2] = q
      OBVIOUS
    <3>2. \A l \in DOMAIN <<r, q>> : <<r, q>>[l] = r \/ <<r, q>>[l] = q
      BY <3>1
    <3>3. QED
      BY <3>2, <2>3 DEF AllStoreWhole
  <2>4. QED
    BY <2>1, <2>2, <2>3
<1>2. Object(k.name)[3] = "object" /\ Object(k.to)[3] = "object"
  BY DEF Object
<1> HIDE DEF Alone, Good
<1>3. CASE op = "DeleteFile"
  <2>1. Requests(k, op) = <<Delete(Object(k.name))>> /\ Writes(k) = {Object(k.name)}
    BY <1>3 DEF Requests, Writes
  <2>2. Fine(Delete(Object(k.name)))
    BY <2>1, <1>3 DEF StoresWhole, Delete, Request
  <2> HIDE DEF Fine
  <2>3. QED
    BY <2>1, <2>2, <1>1 DEF Good
<1>4. CASE op = "DeleteDir"
  <2>1. Requests(k, op) = <<Sweep(Under(k.name), FALSE)>> /\ Writes(k) = Under(k.name)
    BY <1>4 DEF Requests, Writes
  <2>2. Fine(Sweep(Under(k.name), FALSE))
    BY <2>1, <1>4 DEF StoresWhole, Sweep, Request
  <2> HIDE DEF Fine
  <2>3. QED
    BY <2>1, <2>2, <1>1 DEF Good
<1>5. CASE op \in {"Write", "WriteFile"}
  <2>1. PICK n : Requests(k, op) = <<Put(Object(n))>> /\ Writes(k) = {Object(n)} /\ Object(n)[3] = "object"
    BY <1>2, <1>5 DEF Requests, Writes
  <2>2. Alone(Put(Object(n)))
    BY <2>1, <1>5 DEF Alone, StoresWhole, Put, Request
  <2>3. QED
    BY <2>1, <2>2, <1>1 DEF Good
<1>6. CASE op \in {"ReadFile", "DownloadFile"}
  <2>1. k.name \in Names
    BY <1>0, <1>6 DEF CallFits
  <2>2. Fine(Get(Object(k.name)))
    BY <2>1, <1>6 DEF StoresWhole, Get, Request
  <2>3. Fine(Request("fill"))
    BY <1>6 DEF StoresWhole, Request
  <2>4. Requests(k, op) \in {<<Get(Object(k.name))>>, <<Get(Object(k.name)), Request("fill")>>}
    BY <1>6 DEF Requests
  <2> HIDE DEF Fine
  <2>5. Good(<<Get(Object(k.name))>>) /\ Good(<<Get(Object(k.name)), Request("fill")>>)
    BY <2>2, <2>3, <1>1, Zenon
  <2>6. QED
    BY <2>4, <2>5 DEF Good
<1>7. CASE op = "Copy" \/ op = "Move"
  <2> DEFINE copy == CopyObject(Object(k.name), Object(k.to))
             delete == Delete(Object(k.name))
  <2>1. k.name \in Names /\ Object(k.to) \in Writes(k) /\ (op = "Move" => Object(k.name) \in Writes(k))
    BY <1>0, <1>7 DEF CallFits, Writes
  <2>2. Fine(copy)
    BY <2>1, <1>2 DEF StoresWhole, CopyObject, Request
  <2>3. op = "Move" => Fine(delete)
    BY <2>1 DEF StoresWhole, Delete, Request
  <2>4. \/ Requests(k, op) = <<copy>>
        \/ op = "Move" /\ Requests(k, op) \in {<<>>, <<copy, delete>>}
    BY <1>7 DEF Requests, MoveRequests
  <2> HIDE DEF Fine, copy, delete
  <2>5. Good(<<>>) /\ Good(<<copy>>) /\ (op = "Move" => Good(<<copy, delete>>))
    BY <2>2, <2>3, <1>1, Zenon
  <2>6. QED
    BY <2>4, <2>5 DEF Good
<1>8. CASE op = "CreateMultipartUpload"
  <2> DEFINE create == [Request("begin") EXCEPT !.upload = k.upload]
  <2>1. Fine(create)
    BY <1>8 DEF Request, StoresWhole
  <2>2. Requests(k, op) = <<>> \/ Requests(k, op) = <<create>>
    BY <1>8 DEF Requests
  <2> HIDE DEF Fine, create
  <2>3. QED
    BY <2>1, <2>2, <1>1 DEF Good
<1>9. CASE op = "UploadMultipartChunk"
  <2> DEFINE put == [Put(Chunk(k.upload, k.chunk)) EXCEPT !.upload = IF backend = "s3" THEN k.upload ELSE None]
  <2>1. put.verb = "put" /\ put.to = Chunk(k.upload, k.chunk) /\ put.gone = {}
    BY DEF Put, Request
  <2>2. Requests(k, op) = <<put>>
    BY <1>9 DEF Requests
  <2> HIDE DEF put
  <2>3. Alone(put)
    BY <2>1, <1>9 DEF Alone, StoresWhole
  <2>4. QED
    BY <2>2, <2>3, <1>1 DEF Good
<1>10. CASE op = "AbortMultipartUpload"
  <2> DEFINE drop == [Request("drop") EXCEPT !.gone = PartsOf(k.upload), !.upload = k.upload]
             sweep == Sweep(PartsOf(k.upload), FALSE)
  <2>1. Writes(k) = PartsOf(k.upload)
    BY <1>10 DEF Writes
  <2>2. Fine(drop)
    BY <2>1, <1>10 DEF Request, StoresWhole
  <2>3. Fine(sweep)
    BY <2>1, <1>10 DEF Sweep, Request, StoresWhole
  <2>4. Requests(k, op) = <<sweep>> \/ Requests(k, op) = <<drop>>
    BY <1>10 DEF Requests
  <2> HIDE DEF Fine, drop, sweep
  <2>5. Good(<<sweep>>) /\ Good(<<drop>>)
    BY <2>2, <2>3, <1>1, Zenon
  <2>6. QED
    BY <2>4, <2>5 DEF Good
<1>11. QED
  BY <1>0, <1>3, <1>4, <1>5, <1>6, <1>7, <1>8, <1>9, <1>10 DEF CallFits

-----------------------------------------------------------------------------
(* What a call has still to do leaves whole what it stores. *)

\* A call that starts an attempt has sent nothing of its source, or opens it anew.
Ready(j) ==
    /\ IsJob(j) /\ j.call \in Calls /\ OpFits(j) /\ j.opened \in WholeContents
    /\ j.read = 0 \/ j.op = "WriteFile"
    /\ j.op = "CompleteMultipartUpload" => j.call.list # <<>>

LEMMA AttemptWhole ==
    ASSUME ObjectStorageAssumption, NEW j, Ready(j), NEW b
    PROVE  WholeJob(Attempt(j), b) /\ Attempt(j).call = j.call
<1> DEFINE a == Attempt(j)
           k == j.call
<1>1. /\ a.todo = Requests(k, j.op) /\ a.call = k /\ a.op = j.op /\ a.opened = j.opened
      /\ a.read = IF j.op = "WriteFile" THEN 0 ELSE j.read
  BY DEF Attempt, IsJob, Ready
<1> HIDE DEF a
<1>2. /\ k \in Calls /\ (j.read = 0 \/ j.op = "WriteFile") /\ j.opened \in WholeContents
      /\ \/ j.op = k.op /\ j.op # "util.Copy"
         \/ k.op = "util.Copy" /\ j.op \in {"Copy", "ReadFile", "Write"}
      /\ j.op = "CompleteMultipartUpload" => k.op = "CompleteMultipartUpload" /\ k.list # <<>>
  BY DEF Ready, OpFits
<1>3. CASE j.op = "CompleteMultipartUpload"
  <2>1. Requests(k, j.op) = CompleteUpload(k.upload, k.list)
    BY <1>3 DEF Requests
  <2>2. Completes(k, CompleteUpload(k.upload, k.list), b)
    BY <1>2, <1>3, CompleteCallParts, CompleteRequests
  <2>3. QED
    BY <1>1, <1>2, <1>3, <2>1, <2>2 DEF WholeJob, a
<1>4. CASE j.op # "CompleteMultipartUpload"
  <2>1. AllStoreWhole(Requests(k, j.op), k, j.op)
    BY <1>2, <1>4, OtherStores
  <2>2. QED
    BY <1>1, <1>2, <1>4, <2>1 DEF WholeJob, a
<1>5. QED
  BY <1>3, <1>4

\* The next operation of a call.
LEMMA EnterWhole ==
    ASSUME ObjectStorageAssumption, NEW j, NEW op, IsJob(j), j.call \in Calls,
           j.opened \in WholeContents, j.read = 0,
           \/ op = j.call.op /\ op # "util.Copy"
           \/ j.call.op = "util.Copy" /\ op \in {"Copy", "ReadFile", "Write"},
           op = "CompleteMultipartUpload" => j.call.list # <<>>, NEW b
    PROVE  WholeJob(Enter(j, op), b) /\ Enter(j, op).call = j.call
<1> DEFINE entry == [j EXCEPT !.op = op, !.attempt = 0]
<1>1. /\ IsJob(entry) /\ entry.call = j.call /\ entry.op = op /\ entry.read = j.read
      /\ entry.opened = j.opened
  BY DEF IsJob
<1>2. Enter(j, op) = Attempt(entry)
  BY DEF Enter
<1> HIDE DEF entry
<1>3. Ready(entry)
  BY <1>1 DEF Ready, OpFits
<1>4. QED
  BY <1>1, <1>2, <1>3, AttemptWhole

\* After an error the call goes on with a new attempt, or by streaming.
LEMMA AfterErrorWhole ==
    ASSUME ObjectStorageAssumption, NEW j, NEW over, UnderWay(j, over), j.opened \in WholeContents,
           j.read = 0 \/ j.op \in {"Write", "WriteFile", "UploadMultipartChunk"},
           NEW e, NEW after \in AfterError(j, e), after.answer = "pending", NEW b
    PROVE  WholeJob(after, b) /\ after.call = j.call
<1>1. /\ IsJob(j) /\ j.call \in Calls /\ OpFits(j)
  BY DEF UnderWay
<1>2. CASE after = GiveUp(j)
  <2>1. j.call.op = "util.Copy" /\ j.op = "Copy" /\ after = Enter(j, "ReadFile")
    <3>1. Ended(j, "error").answer = "error"
      BY DEF Ended, NoJob
    <3>2. QED
      BY <1>2, <3>1 DEF GiveUp
  <2>2. QED
    BY <1>1, <2>1, EnterWhole
<1>3. CASE after = Attempt(j) /\ Retried(j.op)
  <2>1. j.op \notin {"Write", "UploadMultipartChunk", "CompleteMultipartUpload"}
    BY <1>3 DEF Retried
  <2>2. Ready(j)
    BY <1>1, <2>1 DEF Ready
  <2>3. QED
    BY <1>3, <2>2, AttemptWhole
<1>4. QED
  BY <1>2, <1>3 DEF AfterError

\* What a job in flight is, before its next request.
LEMMA PendingWhole ==
    ASSUME ObjectStorageAssumption, NEW j, NEW over, IsJob(j), j.answer = "pending", PendingInv(j, over), NEW b,
           WholeJob(j, b)
    PROVE  /\ j.todo \in Seq(RequestTypes) /\ j.todo # <<>> /\ 1 \in DOMAIN j.todo
           /\ Head(j.todo) = j.todo[1] /\ Head(j.todo) \in RequestTypes
           /\ j.call \in Calls /\ j.read = 0 /\ j.opened \in WholeContents
           /\ Head(j.todo).verb = "put" =>
                 /\ j.op \in {"Write", "WriteFile", "UploadMultipartChunk"} /\ Len(j.todo) = 1
<1>1. /\ j.todo \in Seq(RequestTypes) /\ j.todo # <<>> /\ 1 \in DOMAIN j.todo
      /\ Head(j.todo) = j.todo[1] /\ Head(j.todo) \in RequestTypes /\ j.call \in Calls
  BY DEF IsJob, PendingInv, TodoInv
<1>2. j.read = 0 /\ j.opened \in WholeContents
  BY DEF WholeJob
<1>3. CASE j.op = "CompleteMultipartUpload"
  BY <1>1, <1>2, <1>3 DEF WholeJob, Completes
<1>4. CASE j.op # "CompleteMultipartUpload"
  BY <1>1, <1>2, <1>4 DEF WholeJob, AllStoreWhole, StoresWhole
<1>5. QED
  BY <1>3, <1>4

\* What a call does after a request that succeeded.
LEMMA ProceedWhole ==
    ASSUME ObjectStorageAssumption, NEW j, NEW over, IsJob(j), j.answer = "pending", PendingInv(j, over),
           NEW b, WholeJob(j, b),
           NEW went, IsJob(went), went.call = j.call, went.op = j.op, went.todo = j.todo,
           went.opened \in WholeContents, went.read = 0 \/ Head(j.todo).verb = "put", NEW after,
           j.op = "CompleteMultipartUpload" /\ Tail(j.todo) # <<>> => Completes(j.call, Tail(j.todo), after),
           Proceed(went).answer = "pending"
    PROVE  WholeJob(Proceed(went), after) /\ Proceed(went).call = j.call
<1> DEFINE rest == [went EXCEPT !.todo = Tail(@)]
<1>1. /\ j.todo \in Seq(RequestTypes) /\ j.todo # <<>> /\ j.call \in Calls
      /\ Head(j.todo).verb = "put" =>
            /\ j.op \in {"Write", "WriteFile", "UploadMultipartChunk"} /\ Len(j.todo) = 1
  BY PendingWhole
<1>2. /\ Tail(j.todo) \in Seq(RequestTypes) /\ Len(Tail(j.todo)) = Len(j.todo) - 1
      /\ \A l \in DOMAIN Tail(j.todo) : l + 1 \in DOMAIN j.todo /\ Tail(j.todo)[l] = j.todo[l + 1]
      /\ Len(j.todo) = 1 => Tail(j.todo) = <<>>
  <2>1. /\ Tail(j.todo) \in Seq(RequestTypes) /\ Len(Tail(j.todo)) = Len(j.todo) - 1
        /\ \A l \in DOMAIN Tail(j.todo) : l + 1 \in DOMAIN j.todo /\ Tail(j.todo)[l] = j.todo[l + 1]
    BY <1>1
  <2>2. Len(Tail(j.todo)) = 0 => Tail(j.todo) = <<>>
    BY <2>1, EmptySeq
  <2>3. QED
    BY <2>1, <2>2
<1>3. /\ IsJob(rest) /\ rest.todo = Tail(j.todo) /\ rest.call = j.call /\ rest.op = j.op
      /\ rest.opened = went.opened /\ rest.read = went.read
  BY <1>2 DEF IsJob
<1>4. Proceed(went) = IF rest.todo # <<>> THEN rest
                      ELSE IF went.call.op = "util.Copy" /\ went.op = "ReadFile" THEN Enter(rest, "Write")
                      ELSE Ended(went, "ok")
  BY DEF Proceed
<1> HIDE DEF rest
<1>5. CASE Tail(j.todo) # <<>>
  <2>1. Proceed(went) = rest /\ rest.read = 0 /\ rest.opened \in WholeContents
    BY <1>1, <1>2, <1>3, <1>4, <1>5
  <2>2. j.op # "CompleteMultipartUpload" => AllStoreWhole(Tail(j.todo), j.call, j.op)
    <3>1. SUFFICES ASSUME j.op # "CompleteMultipartUpload"
                   PROVE  AllStoreWhole(Tail(j.todo), j.call, j.op)
      OBVIOUS
    <3>2. AllStoreWhole(j.todo, j.call, j.op)
      BY <3>1 DEF WholeJob
    <3>3. Len(j.todo) # 1
      BY <1>2, <1>5
    <3>4. QED
      BY <1>2, <3>2, <3>3 DEF AllStoreWhole
  <2>3. WholeJob(rest, after)
    BY <1>3, <1>5, <2>1, <2>2 DEF WholeJob
  <2>4. QED
    BY <1>3, <2>1, <2>3
<1>6. CASE Tail(j.todo) = <<>> /\ j.call.op = "util.Copy" /\ j.op = "ReadFile"
  <2>1. Proceed(went) = Enter(rest, "Write") /\ rest.read = 0
    BY <1>1, <1>3, <1>4, <1>6
  <2>2. IsJob(rest) /\ rest.call \in Calls /\ rest.opened \in WholeContents /\ rest.call.op = "util.Copy"
    BY <1>1, <1>3, <1>6
  <2>3. WholeJob(Enter(rest, "Write"), after) /\ Enter(rest, "Write").call = rest.call
    <3> DEFINE op == "Write"
    <3>1. /\ rest.call.op = "util.Copy" /\ op \in {"Copy", "ReadFile", "Write"} /\ rest.read = 0
          /\ op # "CompleteMultipartUpload"
      BY <2>1, <2>2
    <3> HIDE DEF op
    <3>2. WholeJob(Enter(rest, op), after) /\ Enter(rest, op).call = rest.call
      BY <2>2, <3>1, EnterWhole
    <3>3. QED
      BY <3>2 DEF op
  <2>4. QED
    BY <1>3, <2>1, <2>3
<1>7. CASE Tail(j.todo) = <<>> /\ ~(j.call.op = "util.Copy" /\ j.op = "ReadFile")
  <2>1. Proceed(went) = Ended(went, "ok")
    BY <1>3, <1>4, <1>7
  <2>2. QED
    BY <2>1 DEF Ended, NoJob
<1>8. QED
  BY <1>5, <1>6, <1>7

\* What a call does after a request that failed.  A completion is not tried again.
LEMMA FailedWhole ==
    ASSUME ObjectStorageAssumption, NEW j, NEW over, IsJob(j), j.answer = "pending", PendingInv(j, over),
           NEW b, WholeJob(j, b),
           NEW went, IsJob(went), went.call = j.call, went.op = j.op, went.todo = j.todo,
           went.answer = j.answer, went.opened = j.opened, went.read = 0 \/ Head(j.todo).verb = "put",
           NEW e, NEW after \in Failed(went, e), after.answer = "pending", NEW later
    PROVE  WholeJob(after, later) /\ after.call = j.call
<1> DEFINE r == Head(j.todo)
           size == [r EXCEPT !.verb = "stat", !.to = NoKey]
           asks == [went EXCEPT !.err = e, !.todo = <<size>> \o @]
<1>1. /\ j.todo \in Seq(RequestTypes) /\ j.todo # <<>> /\ r \in RequestTypes /\ r = j.todo[1]
      /\ 1 \in DOMAIN j.todo /\ j.opened \in WholeContents
      /\ r.verb = "put" => j.op \in {"Write", "WriteFile", "UploadMultipartChunk"}
  BY PendingWhole
<1>2. UnderWay(went, over)
  BY DEF UnderWay, PendingInv, OpFits
<1>3. CASE after = Ended(went, "logged")
  BY <1>3 DEF Ended, NoJob
<1>4. CASE after = asks /\ r.verb = "copy"
  <2>1. /\ size \in RequestTypes /\ size.verb = "stat" /\ size.gone = r.gone /\ size.to = NoKey
    BY <1>1, KeyParts DEF RequestTypes
  <2> HIDE DEF size, r
  <2>2. /\ <<size>> \o j.todo \in Seq(RequestTypes)
        /\ Len(<<size>> \o j.todo) = Len(j.todo) + 1
        /\ (<<size>> \o j.todo)[1] = size
        /\ \A l \in DOMAIN (<<size>> \o j.todo) :
              l \in Nat /\ (l # 1 => l - 1 \in DOMAIN j.todo /\ (<<size>> \o j.todo)[l] = j.todo[l - 1])
    BY <1>1, <2>1
  <2>3. /\ asks.todo = <<size>> \o j.todo /\ asks.call = j.call /\ asks.op = j.op
        /\ asks.opened = j.opened /\ asks.read = went.read
    BY <2>2 DEF IsJob
  <2> HIDE DEF asks
  <2>4. j.op \notin {"UploadMultipartChunk", "CompleteMultipartUpload"} /\ went.read = 0
    BY <1>1, <1>4 DEF PendingInv, TodoInv, r
  <2>5. AllStoreWhole(j.todo, j.call, j.op)
    BY <2>4 DEF WholeJob
  <2>6. StoresWhole(size, j.call, j.op)
    <3>1. StoresWhole(r, j.call, j.op)
      BY <1>1, <2>5 DEF AllStoreWhole
    <3>2. QED
      BY <2>1, <3>1 DEF StoresWhole
  <2>7. \A l \in DOMAIN j.todo : j.todo[l].verb # "put"
    <3>1. SUFFICES ASSUME NEW l \in DOMAIN j.todo, j.todo[l].verb = "put"
                   PROVE  FALSE
      OBVIOUS
    <3>2. Len(j.todo) = 1
      BY <2>5, <3>1 DEF AllStoreWhole
    <3>3. l = 1
      BY <1>1, <3>2
    <3>4. QED
      BY <1>1, <1>4, <3>1, <3>3
  <2>8. AllStoreWhole(asks.todo, j.call, j.op)
    <3>1. \A l \in DOMAIN j.todo : StoresWhole(j.todo[l], j.call, j.op)
      BY <2>5 DEF AllStoreWhole
    <3>2. \A l \in DOMAIN asks.todo :
             StoresWhole(asks.todo[l], j.call, j.op) /\ asks.todo[l].verb # "put"
      BY <2>1, <2>2, <2>3, <2>6, <2>7, <3>1
    <3>3. QED
      BY <3>2 DEF AllStoreWhole
  <2>9. WholeJob(asks, later)
    BY <1>1, <2>3, <2>4, <2>8 DEF WholeJob
  <2>10. QED
    BY <1>4, <2>3, <2>9
<1>5. CASE \E f : after \in AfterError(went, f)
  <2>1. PICK f : after \in AfterError(went, f)
    BY <1>5
  <2>2. went.read = 0 \/ went.op \in {"Write", "WriteFile", "UploadMultipartChunk"}
    BY <1>1
  <2>3. went.opened \in WholeContents
    BY <1>1
  <2>4. WholeJob(after, later) /\ after.call = went.call
    BY <1>2, <2>1, <2>2, <2>3, AfterErrorWhole
  <2>5. QED
    BY <2>4
<1>6. QED
  BY <1>3, <1>4, <1>5 DEF Failed

\* The size of the source of a copy that failed is known: it is copied in parts.
LEMMA LargeWhole ==
    ASSUME ObjectStorageAssumption, NEW j, NEW over,
           IsJob(j), j.answer = "pending", PendingInv(j, over), Head(j.todo).verb = "stat",
           NEW b, WholeJob(j, b), NEW later
    PROVE  LET large == [j EXCEPT !.todo = <<[j.todo[2] EXCEPT !.verb = "copyLarge"]>> \o SubSeq(@, 3, Len(@))]
           IN  WholeJob(large, later) /\ large.call = j.call
<1> DEFINE copy == [j.todo[2] EXCEPT !.verb = "copyLarge"]
           rest == SubSeq(j.todo, 3, Len(j.todo))
           large == [j EXCEPT !.todo = <<copy>> \o SubSeq(@, 3, Len(@))]
<1>1. /\ j.todo \in Seq(RequestTypes) /\ j.todo # <<>> /\ Head(j.todo) = j.todo[1]
      /\ 1 \in DOMAIN j.todo /\ Len(j.todo) \in Nat
  BY DEF IsJob, PendingInv, TodoInv
<1>2. /\ Len(j.todo) >= 2
      /\ j.op \notin {"UploadMultipartChunk", "CompleteMultipartUpload"}
  BY <1>1 DEF PendingInv, TodoInv
<1>3. 2 \in DOMAIN j.todo /\ Len(j.todo) # 1
  BY <1>1, <1>2
<1>4. AllStoreWhole(j.todo, j.call, j.op)
  BY <1>2 DEF WholeJob
<1>5. \A l \in DOMAIN j.todo : StoresWhole(j.todo[l], j.call, j.op) /\ j.todo[l].verb # "put"
  BY <1>3, <1>4 DEF AllStoreWhole
<1>6. /\ copy \in RequestTypes /\ copy.verb = "copyLarge" /\ copy.to = j.todo[2].to
      /\ copy.gone = j.todo[2].gone /\ copy.from = j.todo[2].from
  <2>1. j.todo[2] \in RequestTypes
    BY <1>1, <1>3
  <2>2. QED
    BY <2>1 DEF RequestTypes
<1>7. StoresWhole(copy, j.call, j.op)
  <2>1. StoresWhole(j.todo[2], j.call, j.op) /\ j.todo[2].verb # "put"
    BY <1>3, <1>5
  <2> HIDE DEF copy
  <2>2. QED
    BY <1>6, <2>1 DEF StoresWhole
<1>8. /\ rest \in Seq(RequestTypes)
      /\ \A l \in DOMAIN rest : l + 2 \in DOMAIN j.todo /\ rest[l] = j.todo[l + 2]
  BY <1>1, <1>2
<1> HIDE DEF copy, rest
<1>9. /\ <<copy>> \o rest \in Seq(RequestTypes)
      /\ \A l \in DOMAIN (<<copy>> \o rest) :
            \/ (<<copy>> \o rest)[l] = copy
            \/ l - 1 \in DOMAIN rest /\ (<<copy>> \o rest)[l] = rest[l - 1]
  BY <1>6, <1>8
<1>10. AllStoreWhole(<<copy>> \o rest, j.call, j.op)
  <2>1. \A l \in DOMAIN rest : StoresWhole(rest[l], j.call, j.op) /\ rest[l].verb # "put"
    BY <1>5, <1>8
  <2>2. QED
    BY <1>6, <1>7, <1>9, <2>1 DEF AllStoreWhole
<1>11. /\ large.todo = <<copy>> \o rest /\ large.call = j.call /\ large.op = j.op
       /\ large.read = j.read /\ large.opened = j.opened
  BY <1>9 DEF IsJob, rest
<1> HIDE DEF large
<1>12. WholeJob(large, later)
  BY <1>2, <1>10, <1>11 DEF WholeJob
<1>13. QED
  BY <1>11, <1>12 DEF large, copy

\* A completion that sweeps has only the removal of the parts left.
LEMMA SweepRemoves ==
    ASSUME ObjectStorageAssumption, NEW j, NEW over, IsJob(j), j.answer = "pending", PendingInv(j, over),
           j.op = "CompleteMultipartUpload", Head(j.todo).verb = "sweep", NEW b,
           Completes(j.call, j.todo, b)
    PROVE  OnlyRemoves(j.todo) /\ (Tail(j.todo) # <<>> => Completes(j.call, Tail(j.todo), b))
<1>1. j.todo \in Seq(RequestTypes) /\ j.todo # <<>> /\ j.todo[1].verb = "sweep"
  BY DEF IsJob, PendingInv, TodoInv
<1>2. ~OnePass(j.call, j.todo)
  BY <1>1 DEF OnePass
<1>3. ASSUME NEW made \in 0 .. GroupsOf(j.call.list), TwoPass(j.call, j.todo, made, b)
      PROVE  FALSE
  <2>1. j.call \in Calls /\ j.call.op = "CompleteMultipartUpload" /\ j.call.list # <<>>
    BY DEF PendingInv, OpFits, Completes
  <2>2. j.call.list \in Seq(ChunkNumbers)
    BY <2>1, CompleteCallParts
  <2>3. GroupsOf(j.call.list) \in Nat
    BY <2>1, <2>2, GroupParts
  <2>4. 1 \in 1 .. (GroupsOf(j.call.list) - made) + 1
    BY <2>3
  <2>5. j.todo[1].verb = "compose"
    BY <1>3, <2>4 DEF TwoPass
  <2>6. QED
    BY <1>1, <2>5
<1>4. OnlyRemoves(j.todo)
  BY <1>2, <1>3 DEF Completes
<1>5. \A l \in DOMAIN Tail(j.todo) : l + 1 \in DOMAIN j.todo /\ Tail(j.todo)[l] = j.todo[l + 1]
  BY <1>1
<1>6. /\ OnlyRemoves(Tail(j.todo))
      /\ \A l \in DOMAIN Tail(j.todo) : Tail(j.todo)[l].verb # "put"
      /\ j.call.list # <<>>
  BY <1>4, <1>5 DEF OnlyRemoves, Completes
<1>7. QED
  BY <1>4, <1>6 DEF Completes

\* A sweep of GCS deletes the next object of its listing.
LEMMA SweepWhole ==
    ASSUME ObjectStorageAssumption, NEW j, NEW over, IsJob(j), j.answer = "pending", PendingInv(j, over),
           NEW b, WholeJob(j, b), Head(j.todo).verb = "sweep", NEW key \in Head(j.todo).gone
    PROVE  LET after == [j EXCEPT !.todo = <<[Delete(key) EXCEPT !.soft = Head(j.todo).soft]>> \o @]
           IN  WholeJob(after, b) /\ after.call = j.call
<1> DEFINE r == Head(j.todo)
           next == [Delete(key) EXCEPT !.soft = r.soft]
           after == [j EXCEPT !.todo = <<next>> \o @]
<1>1. /\ j.todo \in Seq(RequestTypes) /\ j.todo # <<>> /\ 1 \in DOMAIN j.todo /\ r = j.todo[1]
      /\ r \in RequestTypes
  BY PendingWhole
<1>2. next.verb = "delete" /\ next.to = NoKey /\ next.gone = {key} /\ key \in r.gone
  BY DEF Delete, Request
<1> HIDE DEF next, r
<1>3. \A l \in DOMAIN (<<next>> \o j.todo) :
         \/ (<<next>> \o j.todo)[l] = next
         \/ l - 1 \in DOMAIN j.todo /\ (<<next>> \o j.todo)[l] = j.todo[l - 1]
  <2>1. <<next>> \in Seq({next} \cup RequestTypes) /\ j.todo \in Seq({next} \cup RequestTypes)
        /\ Len(<<next>>) = 1 /\ <<next>>[1] = next
    BY <1>1
  <2>2. QED
    BY <2>1
<1>4. /\ after.todo = <<next>> \o j.todo /\ after.call = j.call /\ after.op = j.op
      /\ after.opened = j.opened /\ after.read = j.read
  BY DEF IsJob
<1> HIDE DEF after
<1>5. CASE j.op = "CompleteMultipartUpload"
  <2>1. Completes(j.call, j.todo, b)
    BY <1>5 DEF WholeJob
  <2>2. OnlyRemoves(j.todo)
    BY <1>5, <2>1, SweepRemoves DEF r
  <2>3. OnlyRemoves(after.todo) /\ \A l \in DOMAIN after.todo : after.todo[l].verb # "put"
    BY <1>2, <1>3, <1>4, <2>1, <2>2 DEF OnlyRemoves, Completes
  <2>4. Completes(j.call, after.todo, b)
    BY <2>1, <2>3 DEF Completes
  <2>5. QED
    BY <1>4, <1>5, <2>4 DEF WholeJob, after, next, r
<1>6. CASE j.op # "CompleteMultipartUpload"
  <2>1. AllStoreWhole(j.todo, j.call, j.op)
    BY <1>6 DEF WholeJob
  <2>2. \A l \in DOMAIN j.todo : j.todo[l].verb # "put"
    <3>1. SUFFICES ASSUME NEW l \in DOMAIN j.todo, j.todo[l].verb = "put"
                   PROVE  FALSE
      OBVIOUS
    <3>2. Len(j.todo) = 1
      BY <2>1, <3>1 DEF AllStoreWhole
    <3>3. l = 1
      BY <1>1, <3>2
    <3>4. QED
      BY <1>1, <3>1, <3>3 DEF r
  <2>3. StoresWhole(next, j.call, j.op)
    <3>1. StoresWhole(r, j.call, j.op)
      BY <1>1, <2>1 DEF AllStoreWhole
    <3>2. QED
      BY <1>2, <3>1 DEF StoresWhole
  <2>4. AllStoreWhole(after.todo, j.call, j.op)
    BY <1>2, <1>3, <1>4, <2>1, <2>2, <2>3 DEF AllStoreWhole
  <2>5. QED
    BY <1>4, <1>6, <2>4 DEF WholeJob, after, next, r
<1>7. QED
  BY <1>5, <1>6

\* A call that begins.
LEMMA StartedWhole ==
    ASSUME ObjectStorageAssumption, NEW k \in Calls, Started(k).answer = "pending", NEW b
    PROVE  WholeJob(Started(k), b) /\ Started(k).call = k
<1> DEFINE fresh == [NoJob EXCEPT !.call = k, !.answer = "pending",
                                  !.held = IF Reads(k) = {} THEN Absent ELSE bucket[Object(k.name)]]
           op == IF k.op = "util.Copy" THEN "Copy" ELSE k.op
           first == Enter(fresh, op)
<1>1. IsJob(fresh) /\ fresh.call = k /\ fresh.read = 0 /\ fresh.opened \in WholeContents
  <2>1. <<>> \in Seq(RequestTypes)
    OBVIOUS
  <2>2. IsJob(NoJob)
    BY <2>1 DEF NoJob, IsJob
  <2>3. NoJob.opened = Absent /\ Absent \in WholeContents
    BY DEF NoJob, WholeContents
  <2>4. QED
    BY <2>2, <2>3 DEF IsJob, NoJob
<1>2. Started(k) = IF k.op = "CompleteMultipartUpload" /\ k.list = <<>> THEN Ended(first, "error")
                   ELSE IF first.todo = <<>> THEN Ended(first, "ok") ELSE first
  BY DEF Started
<1>3. Ended(first, "error").answer # "pending" /\ Ended(first, "ok").answer # "pending"
  BY DEF Ended, NoJob
<1> HIDE DEF fresh
<1>4. /\ \/ op = k.op /\ op # "util.Copy"
         \/ k.op = "util.Copy" /\ op \in {"Copy", "ReadFile", "Write"}
      /\ op = "CompleteMultipartUpload" => k.op = "CompleteMultipartUpload"
  OBVIOUS
<1> HIDE DEF op, first
<1>5. Started(k) = first /\ (k.op = "CompleteMultipartUpload" => k.list # <<>>)
  BY <1>2, <1>3
<1>6. WholeJob(Enter(fresh, op), b) /\ Enter(fresh, op).call = fresh.call
  BY <1>1, <1>4, <1>5, EnterWhole
<1>7. QED
  BY <1>1, <1>5, <1>6 DEF first

-----------------------------------------------------------------------------
(* Steps *)

\* A call that goes on, or ends, leaves what the other calls still have to do: they write
\* other keys.
LEMMA JobWhole ==
    ASSUME ObjectStorageAssumption, ObjectIInv, WholeInv, NEW c \in Clients, NEW k, NEW after,
           job' = [job EXCEPT ![c] = after],
           WholeObjects', Pieced',
           \A key \in Keys \ Writes(k) : bucket'[key] = bucket[key],
           \A d \in Clients \ {c} : Pending(d) => Apart(k, job[d].call) /\ Apart(job[d].call, k),
           after.answer = "pending" => after.call = k /\ WholeJob(after, bucket')
    PROVE  WholeInv'
<1>1. \A d \in Clients : job'[d] = IF d = c THEN after ELSE job[d]
  BY DEF ObjectIInv, ObjectTypeOK
<1>2. ASSUME NEW d \in Clients \ {c}, Pending(d)
      PROVE  WholeJob(job[d], bucket')
  <2> DEFINE j == job[d]
             u == j.call.upload
             list == j.call.list
  <2>1. WholeJob(j, bucket) /\ PendingInv(j, released) /\ j.answer = "pending"
    BY <1>2, PendingCall DEF WholeInv
  <2>2. CASE j.op # "CompleteMultipartUpload"
    BY <2>1, <2>2 DEF WholeJob
  <2>3. CASE j.op = "CompleteMultipartUpload"
    <3>1. Completes(j.call, j.todo, bucket)
      BY <2>1, <2>3 DEF WholeJob
    <3>2. /\ j.call \in Calls /\ j.call.op = "CompleteMultipartUpload" /\ list # <<>>
      BY <2>1, <2>3, <3>1 DEF PendingInv, OpFits, Completes
    <3>3. /\ Writes(j.call) = {Object(j.call.name)} \cup PartsOf(u)
          /\ \A g \in 1 .. GroupsOf(list) : Group(u, g) \in PartsOf(u)
          /\ list \in Seq(ChunkNumbers)
      BY <3>2, CompleteCallParts
    <3>4. Writes(k) \cap Writes(j.call) = {}
      BY <1>2 DEF Apart
    <3>5. \A g \in 1 .. GroupsOf(list) : bucket'[Group(u, g)] = bucket[Group(u, g)]
      BY <3>3, <3>4 DEF PartsOf
    <3>6. GroupsOf(list) \in Nat
      BY <3>2, <3>3, GroupParts
    <3> HIDE DEF j
    <3>7. ASSUME NEW made \in 0 .. GroupsOf(list), TwoPass(j.call, j.todo, made, bucket)
          PROVE  TwoPass(j.call, j.todo, made, bucket')
      <4>1. \A g \in 1 .. made : g \in 1 .. GroupsOf(list)
        BY <3>6
      <4>2. QED
        BY <3>5, <3>7, <4>1 DEF TwoPass
    <3>8. Completes(j.call, j.todo, bucket')
      BY <3>1, <3>7 DEF Completes
    <3>9. QED
      BY <2>1, <2>3, <3>8 DEF WholeJob, j
  <2>4. QED
    BY <2>2, <2>3
<1>3. ASSUME NEW d \in Clients, Pending(d)'
      PROVE  WholeJob(job'[d], bucket')
  <2>1. job'[d].answer = "pending"
    BY <1>3 DEF Pending
  <2>2. CASE d = c
    BY <1>1, <2>1, <2>2
  <2>3. CASE d # c
    BY <1>1, <1>2, <2>1, <2>3 DEF Pending
  <2>4. QED
    BY <2>2, <2>3
<1>4. ASSUME NEW d \in Clients, NEW e \in Clients, d # e, Pending(d)', Pending(e)'
      PROVE  Apart(job'[d].call, job'[e].call)
  <2>1. job'[d].answer = "pending" /\ job'[e].answer = "pending"
    BY <1>4 DEF Pending
  <2>2. CASE d # c /\ e # c
    BY <1>1, <1>4, <2>1, <2>2 DEF WholeInv, Pending
  <2>3. CASE d = c
    BY <1>1, <1>4, <2>1, <2>3 DEF Pending
  <2>4. CASE e = c
    BY <1>1, <1>4, <2>1, <2>4 DEF Pending
  <2>5. QED
    BY <2>2, <2>3, <2>4
<1>5. QED
  BY <1>3, <1>4, Zenon DEF WholeInv

\* The calls of others are kept apart from the one of a client in flight.
LEMMA OthersApart ==
    ASSUME WholeInv, NEW c \in Clients, Pending(c)
    PROVE  \A d \in Clients \ {c} : Pending(d) => Apart(job[c].call, job[d].call) /\ Apart(job[d].call, job[c].call)
BY DEF WholeInv

LEMMA BucketKept ==
    ASSUME WholeInv, bucket' = bucket
    PROVE  /\ WholeObjects' /\ Pieced'
           /\ \A keys : \A key \in Keys \ keys : bucket'[key] = bucket[key]
<1>1. \A n \in Names : bucket'[Object(n)] \in WholeContents
  BY DEF WholeInv, WholeObjects
<1>2. \A u \in Uploads, n \in ChunkNumbers : bucket'[Chunk(u, n)] \in {Absent, PieceOf(u, n)}
  BY DEF WholeInv, Pieced
<1>3. WholeObjects' /\ Pieced'
  BY <1>1, <1>2, Zenon DEF WholeObjects, Pieced
<1>4. QED
  BY <1>3

LEMMA AnsweredWhole ==
    ASSUME ObjectStorageAssumption, ObjectIInv, WholeInv, NEW c \in Clients, Answered(c)
    PROVE  WholeInv'
<1> DEFINE j == job[c]
           r == Head(j.todo)
           read == [j EXCEPT !.opened = IF r.verb = "get" THEN Content(j, r) ELSE @,
                             !.read = IF r.verb = "put" THEN Len(Source(j)) ELSE @]
           after == Proceed(read)
<1>1. /\ Pending(c) /\ Allowed(r) /\ bucket' = After(j, r) /\ job' = [job EXCEPT ![c] = after]
  BY DEF Answered, Effect
<1>2. IsJob(j) /\ j.answer = "pending" /\ PendingInv(j, released) /\ WholeJob(j, bucket)
  BY <1>1, PendingCall DEF WholeInv
<1>3. j.read = 0 /\ j.opened \in WholeContents
  BY <1>2 DEF WholeJob
<1>4. /\ WholeObjects' /\ Pieced'
      /\ \A key \in Keys \ Writes(j.call) : bucket'[key] = bucket[key]
      /\ j.op = "CompleteMultipartUpload" /\ Tail(j.todo) # <<>> => Completes(j.call, Tail(j.todo), bucket')
      /\ r.verb = "get" => Content(j, r) \in WholeContents
  BY <1>1, EffectWhole
<1>5. /\ IsJob(read) /\ read.call = j.call /\ read.op = j.op /\ read.todo = j.todo
      /\ read.opened \in WholeContents /\ (read.read = 0 \/ r.verb = "put")
  BY <1>2, <1>3, <1>4 DEF IsJob
<1> HIDE DEF read
<1>6. after.answer = "pending" => after.call = j.call /\ WholeJob(after, bucket')
  BY <1>2, <1>4, <1>5, ProceedWhole
<1>7. \A d \in Clients \ {c} : Pending(d) => Apart(j.call, job[d].call) /\ Apart(job[d].call, j.call)
  BY <1>1, OthersApart
<1> HIDE DEF j, r, after
<1>8. QED
  BY <1>1, <1>4, <1>6, <1>7, JobWhole

\* A step of a call that leaves the bucket alone.
LEMMA QuietWhole ==
    ASSUME ObjectStorageAssumption, ObjectIInv, WholeInv, NEW c \in Clients, Pending(c), NEW after,
           job' = [job EXCEPT ![c] = after], bucket' = bucket,
           after.answer = "pending" => after.call = job[c].call /\ WholeJob(after, bucket)
    PROVE  WholeInv'
<1> DEFINE k == job[c].call
<1>1. /\ WholeObjects' /\ Pieced'
      /\ \A key \in Keys \ Writes(k) : bucket'[key] = bucket[key]
  BY BucketKept
<1>2. \A d \in Clients \ {c} : Pending(d) => Apart(k, job[d].call) /\ Apart(job[d].call, k)
  BY OthersApart
<1>3. after.answer = "pending" => after.call = k /\ WholeJob(after, bucket')
  OBVIOUS
<1> HIDE DEF k
<1>4. QED
  BY <1>1, <1>2, <1>3, JobWhole

LEMMA SizedWhole ==
    ASSUME ObjectStorageAssumption, ObjectIInv, WholeInv, NEW c \in Clients, Sized(c)
    PROVE  WholeInv'
<1> DEFINE j == job[c]
           large == [j EXCEPT !.todo = <<[j.todo[2] EXCEPT !.verb = "copyLarge"]>> \o SubSeq(@, 3, Len(@))]
<1>1. /\ Pending(c) /\ Head(j.todo).verb = "stat" /\ bucket' = bucket
      /\ \E after \in (IF IsLarge(j.held) THEN {large} ELSE AfterError(j, j.err)) :
            job' = [job EXCEPT ![c] = after]
  BY DEF Sized
<1>2. IsJob(j) /\ j.answer = "pending" /\ PendingInv(j, released) /\ WholeJob(j, bucket)
  BY <1>1, PendingCall DEF WholeInv
<1>3. WholeJob(large, bucket) /\ large.call = j.call
  BY <1>1, <1>2, LargeWhole
<1>4. UnderWay(j, released) /\ j.read = 0 /\ j.opened \in WholeContents
  BY <1>2 DEF UnderWay, PendingInv, WholeJob
<1> HIDE DEF large
<1>5. PICK after : /\ job' = [job EXCEPT ![c] = after]
                   /\ after = large \/ after \in AfterError(j, j.err)
  BY <1>1
<1>6. after.answer = "pending" => after.call = j.call /\ WholeJob(after, bucket)
  BY <1>3, <1>4, <1>5, AfterErrorWhole
<1>7. QED
  BY <1>1, <1>5, <1>6, QuietWhole

LEMMA SweepsOneWhole ==
    ASSUME ObjectStorageAssumption, ObjectIInv, WholeInv, NEW c \in Clients, SweepsOne(c)
    PROVE  WholeInv'
<1> DEFINE j == job[c]
           r == Head(j.todo)
           left == Listed(r.gone)
           key == CHOOSE k \in left : TRUE
           next == [j EXCEPT !.todo = <<[Delete(key) EXCEPT !.soft = r.soft]>> \o @]
           after == IF left = {} THEN Proceed(j) ELSE next
<1>1. /\ Pending(c) /\ r.verb = "sweep" /\ job' = [job EXCEPT ![c] = after] /\ bucket' = bucket
  BY DEF SweepsOne
<1>2. IsJob(j) /\ j.answer = "pending" /\ PendingInv(j, released) /\ WholeJob(j, bucket)
  BY <1>1, PendingCall DEF WholeInv
<1>3. j.read = 0 /\ j.opened \in WholeContents
  BY <1>2 DEF WholeJob
<1>4. left # {} => WholeJob(next, bucket) /\ next.call = j.call
  <2>1. SUFFICES ASSUME left # {}
                 PROVE  WholeJob(next, bucket) /\ next.call = j.call
    OBVIOUS
  <2>2. key \in r.gone
    BY <2>1 DEF Listed
  <2> HIDE DEF key
  <2>3. QED
    BY <1>1, <1>2, <2>2, SweepWhole
<1>5. j.op = "CompleteMultipartUpload" /\ Tail(j.todo) # <<>> => Completes(j.call, Tail(j.todo), bucket)
  <2>1. SUFFICES ASSUME j.op = "CompleteMultipartUpload", Tail(j.todo) # <<>>
                 PROVE  Completes(j.call, Tail(j.todo), bucket)
    OBVIOUS
  <2>2. Completes(j.call, j.todo, bucket)
    BY <1>2, <2>1 DEF WholeJob
  <2>3. QED
    BY <1>1, <1>2, <2>1, <2>2, SweepRemoves
<1>6. Proceed(j).answer = "pending" => Proceed(j).call = j.call /\ WholeJob(Proceed(j), bucket)
  BY <1>2, <1>3, <1>5, ProceedWhole
<1> HIDE DEF next, left
<1>7. after.answer = "pending" => after.call = j.call /\ WholeJob(after, bucket)
  BY <1>4, <1>6
<1> HIDE DEF after
<1>8. QED
  BY <1>1, <1>7, QuietWhole

LEMMA FillWhole ==
    ASSUME ObjectStorageAssumption, ObjectIInv, WholeInv, NEW c \in Clients, Fill(c)
    PROVE  WholeInv'
<1> DEFINE j == job[c]
           With(f) == [j EXCEPT !.file = f]
<1>1. /\ Pending(c) /\ Head(j.todo).verb = "fill" /\ bucket' = bucket
      /\ \/ job' = [job EXCEPT ![c] = Proceed(With(j.opened))]
         \/ \E f, e : \E after \in AfterError(With(f), e) : job' = [job EXCEPT ![c] = after]
  BY DEF Fill
<1>2. IsJob(j) /\ j.answer = "pending" /\ PendingInv(j, released) /\ WholeJob(j, bucket)
  BY <1>1, PendingCall DEF WholeInv
<1>3. j.op # "CompleteMultipartUpload" /\ j.read = 0 /\ j.opened \in WholeContents
  BY <1>1, <1>2 DEF IsJob, PendingInv, TodoInv, WholeJob
<1>4. \A f : /\ IsJob(With(f)) /\ With(f).call = j.call /\ With(f).op = j.op /\ With(f).todo = j.todo
             /\ With(f).answer = j.answer /\ With(f).read = 0 /\ With(f).opened \in WholeContents
  BY <1>2, <1>3 DEF IsJob
<1> HIDE DEF With
<1>5. \A f : UnderWay(With(f), released)
  BY <1>2, <1>4 DEF UnderWay, PendingInv, OpFits
<1>6. CASE job' = [job EXCEPT ![c] = Proceed(With(j.opened))]
  <2> DEFINE went == With(j.opened)
  <2>1. /\ IsJob(went) /\ went.call = j.call /\ went.op = j.op /\ went.todo = j.todo
        /\ went.read = 0 /\ went.opened \in WholeContents
    BY <1>4
  <2> HIDE DEF went
  <2>2. Proceed(went).answer = "pending" => Proceed(went).call = j.call /\ WholeJob(Proceed(went), bucket)
    BY <1>2, <1>3, <2>1, ProceedWhole
  <2>3. job' = [job EXCEPT ![c] = Proceed(went)]
    BY <1>6 DEF went
  <2>4. QED
    BY <1>1, <2>2, <2>3, QuietWhole
<1>7. CASE \E f, e : \E after \in AfterError(With(f), e) : job' = [job EXCEPT ![c] = after]
  <2>1. PICK f, e : \E after \in AfterError(With(f), e) : job' = [job EXCEPT ![c] = after]
    BY <1>7
  <2>2. PICK after \in AfterError(With(f), e) : job' = [job EXCEPT ![c] = after]
    BY <2>1
  <2> DEFINE went == With(f)
  <2>3. /\ UnderWay(went, released) /\ went.read = 0 /\ went.opened \in WholeContents /\ went.call = j.call
        /\ after \in AfterError(went, e)
    BY <1>4, <1>5, <2>2
  <2> HIDE DEF went
  <2>4. after.answer = "pending" => after.call = j.call /\ WholeJob(after, bucket)
    BY <2>3, AfterErrorWhole
  <2>5. QED
    BY <1>1, <2>2, <2>4, QuietWhole
<1>8. QED
  BY <1>1, <1>6, <1>7

LEMMA FailsWhole ==
    ASSUME ObjectStorageAssumption, ObjectIInv, WholeInv, NEW c \in Clients, Fails(c)
    PROVE  WholeInv'
<1> DEFINE j == job[c]
           r == Head(j.todo)
           With(n) == [j EXCEPT !.read = n]
           Takes == \/ bucket' = bucket
                    \/ bucket' \in AfterPart(r)
                    \/ Allowed(r) /\ bucket' = After(j, r)
<1>1. Pending(c)
  BY DEF Fails
<1>2. PICK e, m : /\ Takes /\ (m = j.read \/ r.verb = "put")
                  /\ \E after \in Failed(With(m), e) : job' = [job EXCEPT ![c] = after]
  BY DEF Fails, Effect
<1>3. PICK after \in Failed(With(m), e) : job' = [job EXCEPT ![c] = after]
  BY <1>2
<1>4. IsJob(j) /\ j.answer = "pending" /\ PendingInv(j, released) /\ WholeJob(j, bucket)
  BY <1>1, PendingCall DEF WholeInv
<1>5. j.read = 0
  BY <1>4 DEF WholeJob
<1>6. /\ IsJob(With(m)) /\ With(m).call = j.call /\ With(m).op = j.op /\ With(m).todo = j.todo
      /\ With(m).answer = j.answer /\ With(m).opened = j.opened /\ (With(m).read = 0 \/ r.verb = "put")
  BY <1>2, <1>4, <1>5 DEF IsJob
<1> HIDE DEF With
<1>7. ASSUME after.answer = "pending"
      PROVE  after.call = j.call /\ WholeJob(after, bucket')
  <2> DEFINE went == With(m)
  <2>1. /\ IsJob(went) /\ went.call = j.call /\ went.op = j.op /\ went.todo = j.todo
        /\ went.answer = j.answer /\ went.opened = j.opened
        /\ went.read = 0 \/ r.verb = "put"
        /\ after \in Failed(went, e)
    BY <1>3, <1>6
  <2> HIDE DEF went
  <2>2. QED
    BY <1>4, <1>7, <2>1, FailedWhole
<1>8. WholeObjects' /\ Pieced' /\ \A key \in Keys \ Writes(j.call) : bucket'[key] = bucket[key]
  <2>1. CASE bucket' = bucket
    BY <2>1, BucketKept
  <2>2. CASE bucket' \in AfterPart(r)
    BY <1>1, <2>2, PartWhole
  <2>3. CASE Allowed(r) /\ bucket' = After(j, r)
    BY <1>1, <2>3, EffectWhole
  <2>4. QED
    BY <1>2, <2>1, <2>2, <2>3
<1>9. \A d \in Clients \ {c} : Pending(d) => Apart(j.call, job[d].call) /\ Apart(job[d].call, j.call)
  BY <1>1, OthersApart
<1> HIDE DEF j, r
<1>10. QED
  BY <1>3, <1>7, <1>8, <1>9, JobWhole

LEMMA BeginWhole ==
    ASSUME ObjectStorageAssumption, ObjectIInv, WholeInv, NEW c \in Clients, NEW k \in Calls, Begin(c, k)
    PROVE  WholeInv'
<1> DEFINE after == Started(k)
<1>1. /\ job' = [job EXCEPT ![c] = after] /\ bucket' = bucket
      /\ \A d \in Clients : Pending(d) => Apart(k, job[d].call)
  BY DEF Begin
<1>2. after.answer = "pending" => after.call = k /\ WholeJob(after, bucket')
  BY StartedWhole
<1>3. \A d \in Clients \ {c} : Pending(d) => Apart(k, job[d].call) /\ Apart(job[d].call, k)
  BY <1>1 DEF Apart
<1>4. /\ WholeObjects' /\ Pieced'
      /\ \A key \in Keys \ Writes(k) : bucket'[key] = bucket[key]
  BY <1>1, BucketKept
<1> HIDE DEF after
<1>5. QED
  BY <1>1, <1>2, <1>3, <1>4, JobWhole

LEMMA WholeInit ==
    ASSUME ObjectStorageAssumption, SeedsAssumption, ObjectInit
    PROVE  WholeInv
<1>1. PICK seed \in Seeds :
         bucket = [k \in Keys |->
                      IF k[2] = None THEN seed.objects[k[1]]
                      ELSE IF k[3] = "chunk" /\ k[4] \in seed.acked[k[2]]
                      THEN PieceOf(k[2], k[4]) ELSE Absent]
  BY DEF ObjectInit
<1>2. \A c \in Clients : ~Pending(c)
  BY DEF ObjectInit, Pending, NoJob
<1>3. ASSUME NEW n \in Names
      PROVE  bucket[Object(n)] \in WholeContents
  <2>1. Object(n) \in Keys /\ Object(n)[2] = None /\ Object(n)[1] = n
    BY KeyParts DEF Object
  <2> DEFINE key == Object(n)
  <2> HIDE DEF key
  <2>2. key \in Keys /\ key[2] = None /\ key[1] = n => bucket[key] = seed.objects[n]
    BY <1>1
  <2>3. QED
    BY <2>1, <2>2 DEF key, SeedsAssumption
<1>4. ASSUME NEW u \in Uploads, NEW n \in ChunkNumbers
      PROVE  bucket[Chunk(u, n)] \in {Absent, PieceOf(u, n)}
  <2>1. /\ Chunk(u, n) \in Keys /\ Chunk(u, n)[2] = u /\ Chunk(u, n)[4] = n /\ u # None
    BY KeyParts DEF ObjectStorageAssumption, None
  <2> DEFINE key == Chunk(u, n)
  <2> HIDE DEF key
  <2>2. key \in Keys /\ key[2] = u /\ key[4] = n /\ u # None => bucket[key] \in {Absent, PieceOf(u, n)}
    BY <1>1
  <2>3. QED
    BY <2>1, <2>2 DEF key
<1>5. QED
  BY <1>2, <1>3, <1>4 DEF WholeInv, WholeObjects, Pieced

LEMMA WholeNext ==
    ASSUME ObjectStorageAssumption, ObjectIInv, WholeInv, [ObjectNext]_objectVars
    PROVE  WholeInv'
<1>1. CASE UNCHANGED objectVars
  <2>1. bucket' = bucket /\ job' = job
    BY <1>1 DEF objectVars
  <2>2. WholeObjects' /\ Pieced'
    BY <2>1, BucketKept
  <2>3. QED
    BY <2>1, <2>2 DEF WholeInv, Pending
<1>2. CASE ObjectNext
  <2>1. PICK c \in Clients : (\E k \in Calls : Begin(c, k)) \/ Step(c)
    BY <1>2 DEF ObjectNext
  <2>2. QED
    BY <2>1, BeginWhole, AnsweredWhole, SizedWhole, SweepsOneWhole, FillWhole, FailsWhole DEF Step
<1>3. QED
  BY <1>1, <1>2

(* An object is never torn (StorageProvider of both backends, withRetry, util.Copy and         *)
(* gcs.composeAll): what a name holds is the whole of what a caller wrote, or the chunks of a  *)
(* completed list in their order, for any clients, names, contents, uploads, lists and limit   *)
(* of a composition, and however attempts failed, were repeated or lost their answers.         *)
THEOREM ObjectsAreWhole == ObjectSpec => []WholeObjects
<1>1. ObjectInit => WholeInv
  BY WholeInit, ObjectStorageAssumption, SeedsAssumption
<1>2. ObjectIInv /\ WholeInv /\ [ObjectNext]_objectVars => WholeInv'
  BY WholeNext, ObjectStorageAssumption
<1>3. WholeInv => WholeObjects
  BY DEF WholeInv
<1>4. QED
  BY <1>1, <1>2, <1>3, ObjectSpecIInv, PTL DEF ObjectSpec

-----------------------------------------------------------------------------
(* The third inductive invariant of the uploads: what a call in flight has kept of what it was *)
(* asked, and what it has still to send for the rest.                                          *)

Copies(r, k) == /\ r.verb \in {"copy", "copyLarge"}
                /\ r.from = <<Object(k.name)>> /\ r.to = Object(k.to) /\ r.gone = {}
Sizes(r) == r.verb = "stat" /\ r.to = NoKey /\ r.gone = {}
Gets(r, k) == r.verb = "get" /\ r.from = <<Object(k.name)>> /\ r.to = NoKey /\ r.gone = {}
Fills(r) == r.verb = "fill" /\ r.to = NoKey /\ r.gone = {}
Deletes(r, k) == r.verb = "delete" /\ r.to = NoKey /\ r.gone = {Object(k.name)}
Puts(r, key) == r.verb = "put" /\ r.to = key /\ r.gone = {}

\* A request of a call k, made by the operation op.  Soft are those of a completion that store
\* nothing, and no others.
Sends(r, k, op) ==
    /\ r.soft <=> op = "CompleteMultipartUpload" /\ r.to = NoKey
    /\ op = "DeleteFile" => Deletes(r, k)
    /\ op \in {"DeleteDir", "AbortMultipartUpload"} => r.verb \in {"delete", "sweep", "drop"}
    /\ op \in {"Write", "WriteFile"} => Puts(r, Object(IF k.op = "util.Copy" THEN k.to ELSE k.name))
    /\ op = "ReadFile" => Gets(r, k)
    /\ op = "DownloadFile" => Gets(r, k) \/ Fills(r)
    /\ op = "Copy" => Sizes(r) \/ Copies(r, k)
    /\ op = "Move" => Sizes(r) \/ Copies(r, k) \/ Deletes(r, k)
    /\ op = "CreateMultipartUpload" => r.verb = "begin"
    /\ op = "UploadMultipartChunk" => r.verb = "put"
    /\ op = "CompleteMultipartUpload" => r.verb \in {"compose", "finish", "delete", "sweep"}

\* The last request of an attempt, and the last but one.
IsLast(r, k, op, service) ==
    /\ op = "DeleteDir" => r.verb = "sweep" /\ r.to = NoKey /\ r.gone = Under(k.name)
    /\ op = "DownloadFile" => Fills(r)
    /\ op = "Copy" => Copies(r, k)
    /\ op = "Move" => Deletes(r, k)
    /\ op \in {"AbortMultipartUpload", "CompleteMultipartUpload"} =>
          /\ r.gone = PartsOf(k.upload)
          /\ \/ service = "gcs" /\ r.verb = "sweep" /\ r.to = NoKey
             \/ service = "s3" /\ r.verb = "drop" /\ r.to = NoKey
             \/ service = "s3" /\ r.verb = "finish" /\ r.to # NoKey
IsLastButOne(r, k, op) ==
    /\ op = "DownloadFile" => Gets(r, k)
    /\ op = "Move" => Copies(r, k)
LeadsTo(todo, k, op, service) ==
    /\ \A l \in DOMAIN todo : /\ Sends(todo[l], k, op)
                              /\ op = "Move" /\ todo[l].verb = "delete" => l = Len(todo)
    /\ IsLast(todo[Len(todo)], k, op, service)
    /\ Len(todo) > 1 => IsLastButOne(todo[Len(todo) - 1], k, op)

\* What a call was asked to read or move is still there: where it was or, for Move, where it
\* is to be.
Kept(k, it, b) ==
    /\ k.op \in {"Copy", "util.Copy", "DownloadFile"} => b[Object(k.name)] = it
    /\ k.op = "Move" => \/ b[Object(k.name)] = it
                        \/ b[Object(k.name)] = Absent /\ b[Object(k.to)] = it

\* What a call has done that its last request relies on.
HasDone(j, todo, b) ==
    /\ j.op = "Move" /\ Len(todo) = 1 => b[Object(j.call.to)] = j.held
    /\ j.op = "DownloadFile" /\ Len(todo) = 1 => j.opened = j.held /\ j.held # Absent
    /\ j.call.op = "util.Copy" /\ j.op = "Write" => j.opened = j.held
    /\ j.op = "CompleteMultipartUpload" /\ OnlyRemoves(todo) =>
          b[Object(j.call.name)] = UploadOf(j.call.upload, j.call.list)

OnCourse(j, b, service) ==
    /\ LeadsTo(j.todo, j.call, j.op, service)
    /\ Kept(j.call, j.held, b)
    /\ HasDone(j, j.todo, b)

CourseInv ==
    /\ backend \in {"gcs", "s3"}
    /\ \A c \in Clients : Pending(c) => OnCourse(job[c], bucket, backend)

-----------------------------------------------------------------------------
(* What requests an attempt sends, and in what order *)

LEMMA ComposeAllStores ==
    ASSUME ObjectStorageAssumption, NEW u \in Uploads, NEW chunks \in Seq(Places),
           NEW l \in DOMAIN ComposeAll(u, chunks)
    PROVE  ComposeAll(u, chunks)[l].soft = FALSE /\ ComposeAll(u, chunks)[l].to # NoKey
<1> DEFINE groups == (Len(chunks) + ComposeLimit - 1) \div ComposeLimit
           Smaller(a, b) == IF a < b THEN a ELSE b
           sources(g) == SubSeq(chunks, (g - 1) * ComposeLimit + 1, Smaller(g * ComposeLimit, Len(chunks)))
           object == Object(TargetOf[u])
           first == [g \in 1 .. groups |-> Compose(sources(g), Group(u, g))]
           last == Compose([g \in 1 .. groups |-> Group(u, g)], object)
<1>1. \A s, k : Compose(s, k).soft = FALSE /\ Compose(s, k).to = k
  BY DEF Compose, Request
<1>2. object # NoKey /\ \A g : Group(u, g) # NoKey
  BY DEF Object, Group, NoKey, None
<1>3. groups \in Nat
  BY DEF ObjectStorageAssumption
<1> HIDE DEF groups, sources, object
<1>4. /\ last.soft = FALSE /\ last.to # NoKey
      /\ \A g \in 1 .. groups : first[g].soft = FALSE /\ first[g].to # NoKey
  BY <1>1, <1>2
<1>5. first \in Seq({first[g] : g \in 1 .. groups} \cup {last}) /\ Len(first) = groups
  BY <1>3
<1> HIDE DEF first, last
<1>6. CASE Len(chunks) <= ComposeLimit
  <2>1. ComposeAll(u, chunks) = <<Compose(chunks, object)>>
    BY <1>6 DEF ComposeAll, object
  <2>2. ComposeAll(u, chunks)[l] = Compose(chunks, object)
    BY <2>1
  <2>3. QED
    BY <2>2, <1>1, <1>2
<1>7. CASE ~(Len(chunks) <= ComposeLimit)
  <2>1. ComposeAll(u, chunks) = Append(first, last)
    BY <1>7 DEF ComposeAll, object, first, last, groups, sources, Smaller
  <2>2. ComposeAll(u, chunks)[l] = last \/ \E g \in 1 .. groups : ComposeAll(u, chunks)[l] = first[g]
    BY <2>1, <1>3, <1>5
  <2>3. QED
    BY <2>2, <1>4
<1>8. QED
  BY <1>6, <1>7

LEMMA CompleteEnds ==
    ASSUME ObjectStorageAssumption, NEW u \in Uploads, NEW list \in Seq(ChunkNumbers), backend \in {"gcs", "s3"}
    PROVE  LET todo == CompleteUpload(u, list)
           IN  /\ \A l \in DOMAIN todo : todo[l].soft \in BOOLEAN /\ (todo[l].soft <=> todo[l].to = NoKey)
               /\ todo[Len(todo)].gone = PartsOf(u)
               /\ \/ backend = "gcs" /\ todo[Len(todo)].verb = "sweep" /\ todo[Len(todo)].to = NoKey
                  \/ backend = "s3" /\ todo[Len(todo)].verb = "finish" /\ todo[Len(todo)].to # NoKey
<1> DEFINE chunks == [l \in DOMAIN list |-> Chunk(u, list[l])]
           all == ComposeAll(u, chunks)
           sweep == Sweep(PartsOf(u), TRUE)
           finish == [Request("finish") EXCEPT !.from = chunks, !.to = Object(TargetOf[u]),
                                               !.gone = PartsOf(u), !.upload = u]
<1>1. chunks \in Seq(Places)
  BY ChunksOfList
<1>2. /\ sweep.to = NoKey /\ sweep.gone = PartsOf(u) /\ sweep.verb = "sweep" /\ sweep.soft = TRUE
      /\ finish.to # NoKey /\ finish.gone = PartsOf(u) /\ finish.verb = "finish" /\ finish.soft = FALSE
  BY DEF Sweep, Request, Object, NoKey, None
<1>3. CompleteUpload(u, list) = IF backend = "gcs" THEN Append(all, sweep) ELSE <<finish>>
  BY DEF CompleteUpload
<1>4. all \in Seq(RequestTypes) /\ \A l \in DOMAIN all : all[l].soft = FALSE /\ all[l].to # NoKey
  <2> HIDE DEF chunks
  <2>1. QED
    BY <1>1, ComposeAllParts, ComposeAllStores
<1>5. CASE backend = "gcs"
  <2> HIDE DEF all, sweep
  <2>1. all \in Seq(RequestTypes \cup {sweep})
    BY <1>4
  <2>2. /\ Len(Append(all, sweep)) = Len(all) + 1 /\ Append(all, sweep)[Len(all) + 1] = sweep
        /\ \A l \in DOMAIN Append(all, sweep) :
              Append(all, sweep)[l] = sweep \/ (l \in DOMAIN all /\ Append(all, sweep)[l] = all[l])
    BY <2>1
  <2> HIDE DEF finish
  <2>3. QED
    BY <1>2, <1>3, <1>4, <1>5, <2>2
<1>6. CASE backend = "s3"
  <2> HIDE DEF all, sweep, finish
  <2>1. CompleteUpload(u, list) = <<finish>>
    BY <1>3, <1>6
  <2>2. Len(<<finish>>) = 1 /\ \A l \in DOMAIN <<finish>> : <<finish>>[l] = finish
    OBVIOUS
  <2>3. Len(<<finish>>) \in DOMAIN <<finish>>
    OBVIOUS
  <2>4. QED
    BY <1>2, <1>6, <2>1, <2>2, <2>3, Zenon
<1>7. QED
  BY <1>5, <1>6

LEMMA RequestsLead ==
    ASSUME ObjectStorageAssumption, NEW k \in Calls, NEW op, backend \in {"gcs", "s3"},
           \/ op = k.op /\ op # "util.Copy"
           \/ k.op = "util.Copy" /\ op \in {"Copy", "ReadFile", "Write"},
           op = "Move" => k.name # k.to
    PROVE  LeadsTo(Requests(k, op), k, op, backend)
<1>0. CallFits(k)
  BY CallParts
<1> DEFINE Good(todo) == LeadsTo(todo, k, op, backend)
           Alone(r) == Sends(r, k, op) /\ IsLast(r, k, op, backend)
           Follow(r, q) == /\ Sends(r, k, op) /\ IsLastButOne(r, k, op)
                           /\ Sends(q, k, op) /\ IsLast(q, k, op, backend)
                           /\ op = "Move" => r.verb # "delete"
<1>1. /\ \A r : Alone(r) => Good(<<r>>)
      /\ \A r, q : Follow(r, q) => Good(<<r, q>>)
  <2>1. ASSUME NEW r, Alone(r)
        PROVE  Good(<<r>>)
    BY <2>1 DEF LeadsTo
  <2>2. ASSUME NEW r, NEW q, Follow(r, q)
        PROVE  Good(<<r, q>>)
    <3>1. /\ DOMAIN <<r, q>> = 1 .. 2 /\ <<r, q>>[1] = r /\ <<r, q>>[2] = q /\ Len(<<r, q>>) = 2
          /\ 2 - 1 = 1
      OBVIOUS
    <3>2. \A l \in DOMAIN <<r, q>> : (l = 1 /\ <<r, q>>[l] = r) \/ (l = 2 /\ <<r, q>>[l] = q)
      BY <3>1
    <3>3. QED
      BY <2>2, <3>1, <3>2 DEF LeadsTo
  <2>3. QED
    BY <2>1, <2>2
<1> HIDE DEF Good
<1> USE DEF Sends, IsLast, IsLastButOne
<1>3. CASE op = "DeleteFile"
  <2>1. Requests(k, op) = <<Delete(Object(k.name))>>
    BY <1>3 DEF Requests
  <2>2. Alone(Delete(Object(k.name)))
    BY <1>3 DEF Deletes, Delete, Request
  <2> HIDE DEF Alone
  <2>3. QED
    BY <2>1, <2>2, <1>1 DEF Good
<1>4. CASE op = "DeleteDir"
  <2>1. Requests(k, op) = <<Sweep(Under(k.name), FALSE)>>
    BY <1>4 DEF Requests
  <2>2. Alone(Sweep(Under(k.name), FALSE))
    BY <1>4 DEF Sweep, Request
  <2> HIDE DEF Alone
  <2>3. QED
    BY <2>1, <2>2, <1>1 DEF Good
<1>5. CASE op \in {"Write", "WriteFile"}
  <2> DEFINE put == Put(Object(IF k.op = "util.Copy" THEN k.to ELSE k.name))
  <2>1. Requests(k, op) = <<put>>
    BY <1>5 DEF Requests
  <2>2. Alone(put)
    BY <1>5 DEF Puts, Put, Request
  <2> HIDE DEF Alone, put
  <2>3. QED
    BY <2>1, <2>2, <1>1 DEF Good
<1>6. CASE op = "ReadFile"
  <2>1. Requests(k, op) = <<Get(Object(k.name))>>
    BY <1>6 DEF Requests
  <2>2. Alone(Get(Object(k.name)))
    BY <1>6 DEF Gets, Get, Request
  <2> HIDE DEF Alone
  <2>3. QED
    BY <2>1, <2>2, <1>1 DEF Good
<1>7. CASE op = "DownloadFile"
  <2>1. Requests(k, op) = <<Get(Object(k.name)), Request("fill")>>
    BY <1>7 DEF Requests
  <2>2. Follow(Get(Object(k.name)), Request("fill"))
    BY <1>7 DEF Gets, Fills, Get, Request
  <2> HIDE DEF Follow
  <2>3. QED
    BY <2>1, <2>2, <1>1 DEF Good
<1>8. CASE op = "Copy"
  <2>1. Requests(k, op) = <<CopyObject(Object(k.name), Object(k.to))>>
    BY <1>8 DEF Requests
  <2>2. Alone(CopyObject(Object(k.name), Object(k.to)))
    BY <1>8 DEF Copies, CopyObject, Request
  <2> HIDE DEF Alone
  <2>3. QED
    BY <2>1, <2>2, <1>1 DEF Good
<1>9. CASE op = "Move"
  <2> DEFINE copy == CopyObject(Object(k.name), Object(k.to))
             delete == Delete(Object(k.name))
  <2>1. Object(k.name) # Object(k.to)
    BY <1>9 DEF Object
  <2>2. Requests(k, op) = <<copy, delete>>
    BY <1>9, <2>1 DEF Requests, MoveRequests
  <2>3. Follow(copy, delete)
    BY <1>9 DEF Copies, Deletes, CopyObject, Delete, Request
  <2> HIDE DEF Follow, copy, delete
  <2>4. QED
    BY <2>2, <2>3, <1>1 DEF Good
<1>10. CASE op = "CreateMultipartUpload"
  <2> DEFINE create == [Request("begin") EXCEPT !.upload = k.upload]
  <2>1. Alone(create)
    BY <1>10 DEF Request
  <2>2. Requests(k, op) = <<>> \/ Requests(k, op) = <<create>>
    BY <1>10 DEF Requests
  <2>3. Good(<<>>)
    BY <1>10 DEF Good, LeadsTo
  <2> HIDE DEF Alone, create
  <2>4. QED
    BY <2>1, <2>2, <2>3, <1>1 DEF Good
<1>11. CASE op = "UploadMultipartChunk"
  <2> DEFINE put == [Put(Chunk(k.upload, k.chunk)) EXCEPT !.upload = IF backend = "s3" THEN k.upload ELSE None]
  <2>1. Requests(k, op) = <<put>>
    BY <1>11 DEF Requests
  <2>2. Alone(put)
    BY <1>11 DEF Put, Request
  <2> HIDE DEF Alone, put
  <2>3. QED
    BY <2>1, <2>2, <1>1 DEF Good
<1>12. CASE op = "AbortMultipartUpload"
  <2> DEFINE drop == [Request("drop") EXCEPT !.gone = PartsOf(k.upload), !.upload = k.upload]
             sweep == Sweep(PartsOf(k.upload), FALSE)
  <2>1. Requests(k, op) = IF backend = "gcs" THEN <<sweep>> ELSE <<drop>>
    BY <1>12 DEF Requests
  <2>2. backend = "gcs" => Alone(sweep)
    BY <1>12 DEF Sweep, Request
  <2>3. backend = "s3" => Alone(drop)
    BY <1>12 DEF Request
  <2> HIDE DEF Alone, drop, sweep
  <2>4. QED
    BY <2>1, <2>2, <2>3, <1>1 DEF Good
<1>13. CASE op = "CompleteMultipartUpload"
  <2> DEFINE todo == CompleteUpload(k.upload, k.list)
  <2>1. Requests(k, op) = todo /\ k.upload \in Uploads /\ k.list \in Seq(ChunkNumbers)
    BY <1>0, <1>13 DEF Requests, CallFits
  <2>2. \A l \in DOMAIN todo : todo[l].verb \in {"compose", "sweep", "finish"}
    BY <2>1, CompleteUploadParts
  <2>3. /\ \A l \in DOMAIN todo : todo[l].soft <=> todo[l].to = NoKey
        /\ todo[Len(todo)].gone = PartsOf(k.upload)
        /\ \/ backend = "gcs" /\ todo[Len(todo)].verb = "sweep" /\ todo[Len(todo)].to = NoKey
           \/ backend = "s3" /\ todo[Len(todo)].verb = "finish" /\ todo[Len(todo)].to # NoKey
    BY <2>1, CompleteEnds
  <2> HIDE DEF todo
  <2>4. /\ \A l \in DOMAIN todo : Sends(todo[l], k, op)
        /\ IsLast(todo[Len(todo)], k, op, backend)
        /\ IsLastButOne(todo[Len(todo) - 1], k, op)
    BY <1>13, <2>2, <2>3
  <2>5. LeadsTo(todo, k, op, backend)
    BY <1>13, <2>4 DEF LeadsTo
  <2>6. QED
    BY <2>1, <2>5
<1>14. QED
  BY <1>0, <1>3, <1>4, <1>5, <1>6, <1>7, <1>8, <1>9, <1>10, <1>11, <1>12, <1>13 DEF CallFits

-----------------------------------------------------------------------------
(* What a call does next *)

\* A call that starts an attempt, whatever it had still to send.
OnRoute(j, b) ==
    /\ IsJob(j) /\ j.call \in Calls /\ OpFits(j) /\ (j.call.op = "Move" => j.call.name # j.call.to)
    /\ Kept(j.call, j.held, b)
    /\ j.call.op = "util.Copy" /\ j.op = "Write" => j.opened = j.held

LEMMA AttemptCourse ==
    ASSUME ObjectStorageAssumption, backend \in {"gcs", "s3"}, NEW j, NEW b, OnRoute(j, b)
    PROVE  OnCourse(Attempt(j), b, backend)
<1> DEFINE a == Attempt(j)
           k == j.call
           todo == Requests(k, j.op)
<1>1. /\ a.todo = todo /\ a.call = k /\ a.op = j.op /\ a.opened = j.opened /\ a.held = j.held
  BY DEF Attempt, IsJob, OnRoute
<1> HIDE DEF a
<1>2. /\ k \in Calls /\ (k.op = "Move" => k.name # k.to)
      /\ \/ j.op = k.op /\ j.op # "util.Copy"
         \/ k.op = "util.Copy" /\ j.op \in {"Copy", "ReadFile", "Write"}
  BY DEF OnRoute, OpFits
<1>3. LeadsTo(todo, k, j.op, backend)
  BY <1>2, RequestsLead
<1>4. j.op = "Move" => Len(todo) = 2
  <2>1. Object(k.name) = Object(k.to) => k.name = k.to
    BY DEF Object
  <2>2. QED
    BY <1>2, <2>1 DEF Requests, MoveRequests
<1>5. j.op = "DownloadFile" => Len(todo) = 2
  BY DEF Requests
<1>6. ~(j.op = "CompleteMultipartUpload" /\ OnlyRemoves(todo))
  <2>1. SUFFICES ASSUME j.op = "CompleteMultipartUpload", OnlyRemoves(todo)
                 PROVE  FALSE
    OBVIOUS
  <2>2. k.op = "CompleteMultipartUpload" /\ todo = CompleteUpload(k.upload, k.list)
    BY <1>2, <2>1 DEF Requests
  <2>3. k.upload \in Uploads /\ k.list \in Seq(ChunkNumbers)
    BY <1>2, <2>2, CallParts DEF CallFits
  <2>4. \E l \in DOMAIN todo : todo[l].to = Object(TargetOf[k.upload])
    BY <2>2, <2>3, CompleteUploadParts
  <2>5. Object(TargetOf[k.upload]) # NoKey
    BY DEF Object, NoKey, None
  <2>6. QED
    BY <2>1, <2>4, <2>5 DEF OnlyRemoves
<1> HIDE DEF todo
<1>7. HasDone(a, todo, b)
  <2>1. /\ ~(a.op = "Move" /\ Len(todo) = 1) /\ ~(a.op = "DownloadFile" /\ Len(todo) = 1)
        /\ ~(a.op = "CompleteMultipartUpload" /\ OnlyRemoves(todo))
    BY <1>1, <1>4, <1>5, <1>6
  <2>2. a.call.op = "util.Copy" /\ a.op = "Write" => a.opened = a.held
    BY <1>1 DEF OnRoute
  <2>3. QED
    BY <2>1, <2>2 DEF HasDone
<1>8. QED
  BY <1>1, <1>3, <1>7 DEF OnCourse, OnRoute, a

\* The next operation of a call.
LEMMA EnterCourse ==
    ASSUME ObjectStorageAssumption, backend \in {"gcs", "s3"}, NEW j, NEW op, NEW b,
           IsJob(j), j.call \in Calls, j.call.op = "Move" => j.call.name # j.call.to,
           \/ op = j.call.op /\ op # "util.Copy"
           \/ j.call.op = "util.Copy" /\ op \in {"Copy", "ReadFile", "Write"},
           Kept(j.call, j.held, b), op = "Write" /\ j.call.op = "util.Copy" => j.opened = j.held
    PROVE  OnCourse(Enter(j, op), b, backend)
<1> DEFINE entry == [j EXCEPT !.op = op, !.attempt = 0]
<1>1. /\ IsJob(entry) /\ entry.call = j.call /\ entry.op = op
      /\ entry.opened = j.opened /\ entry.held = j.held
  BY DEF IsJob
<1>2. Enter(j, op) = Attempt(entry)
  BY DEF Enter
<1> HIDE DEF entry
<1>3. OnRoute(entry, b)
  BY <1>1 DEF OnRoute, OpFits
<1>4. QED
  BY <1>2, <1>3, AttemptCourse

\* After an error the call goes on with a new attempt, or by streaming, or fails.
LEMMA AfterErrorCourse ==
    ASSUME ObjectStorageAssumption, backend \in {"gcs", "s3"}, NEW j, NEW b, OnRoute(j, b),
           NEW e, NEW after \in AfterError(j, e)
    PROVE  /\ after.answer \notin {"ok", "logged"} \/ after.answer = j.answer
           /\ after.answer = "pending" => OnCourse(after, b, backend)
<1>1. CASE after = Attempt(j)
  <2>1. after.answer = j.answer
    BY <1>1 DEF Attempt, OnRoute, IsJob
  <2>2. QED
    BY <1>1, <2>1, AttemptCourse
<1>2. CASE after = GiveUp(j) /\ j.call.op = "util.Copy" /\ j.op = "Copy"
  <2> DEFINE op == "ReadFile"
  <2>1. after = Enter(j, op)
    BY <1>2 DEF GiveUp
  <2>2. after.answer = j.answer
    BY <2>1 DEF Enter, Attempt, OnRoute, IsJob
  <2>3. /\ op \in {"Copy", "ReadFile", "Write"} /\ op # "Write"
        /\ IsJob(j) /\ j.call \in Calls /\ Kept(j.call, j.held, b)
        /\ (j.call.op = "Move" => j.call.name # j.call.to)
    BY DEF OnRoute
  <2> HIDE DEF op
  <2>4. OnCourse(Enter(j, op), b, backend)
    BY <1>2, <2>3, EnterCourse
  <2>5. QED
    BY <2>1, <2>2, <2>4
<1>3. CASE after = GiveUp(j) /\ ~(j.call.op = "util.Copy" /\ j.op = "Copy")
  <2>1. after = Ended(j, "error")
    BY <1>3 DEF GiveUp
  <2>2. QED
    BY <2>1 DEF Ended, NoJob
<1>4. QED
  BY <1>1, <1>2, <1>3 DEF AfterError

LEMMA TailLeads ==
    ASSUME NEW todo \in Seq(RequestTypes), Tail(todo) # <<>>, todo # <<>>, NEW k, NEW op, NEW service,
           LeadsTo(todo, k, op, service)
    PROVE  LeadsTo(Tail(todo), k, op, service)
<1> DEFINE rest == Tail(todo)
           n == Len(todo)
<1>1. /\ rest \in Seq(RequestTypes) /\ Len(rest) = n - 1 /\ n \in Nat
      /\ \A l \in 1 .. n - 1 : l + 1 \in DOMAIN todo /\ rest[l] = todo[l + 1]
      /\ DOMAIN rest = 1 .. n - 1
  OBVIOUS
<1>2. n - 1 >= 1
  <2>1. n - 1 # 0
    BY <1>1, EmptySeq
  <2>2. QED
    BY <1>1, <2>1
<1> HIDE DEF rest
<1>3. rest[Len(rest)] = todo[n]
  BY <1>1, <1>2
<1>4. Len(rest) > 1 => n > 1 /\ rest[Len(rest) - 1] = todo[n - 1]
  BY <1>1, <1>2
<1>5. ASSUME NEW l \in DOMAIN rest
      PROVE  Sends(rest[l], k, op) /\ (op = "Move" /\ rest[l].verb = "delete" => l = Len(rest))
  <2>1. l \in 1 .. n - 1 /\ l + 1 \in DOMAIN todo /\ rest[l] = todo[l + 1]
    BY <1>1, <1>5
  <2>2. Sends(rest[l], k, op) /\ (op = "Move" /\ rest[l].verb = "delete" => l + 1 = n)
    BY <2>1 DEF LeadsTo
  <2> HIDE DEF n
  <2>3. QED
    BY <1>1, <2>1, <2>2
<1>6. IsLast(rest[Len(rest)], k, op, service)
  BY <1>3 DEF LeadsTo
<1>7. Len(rest) > 1 => IsLastButOne(rest[Len(rest) - 1], k, op)
  BY <1>4 DEF LeadsTo
<1>8. QED
  BY <1>5, <1>6, <1>7 DEF LeadsTo, rest

LEMMA PrefixLeads ==
    ASSUME NEW todo \in Seq(RequestTypes), todo # <<>>, NEW k, NEW op, NEW service,
           LeadsTo(todo, k, op, service),
           NEW r, Sends(r, k, op), op = "Move" => r.verb # "delete",
           Len(todo) = 1 => IsLastButOne(r, k, op)
    PROVE  /\ LeadsTo(<<r>> \o todo, k, op, service) /\ Len(<<r>> \o todo) = Len(todo) + 1 /\ Len(todo) >= 1
           /\ \A l \in DOMAIN todo : \E m \in DOMAIN (<<r>> \o todo) : (<<r>> \o todo)[m] = todo[l]
<1> DEFINE more == <<r>> \o todo
           n == Len(todo)
<1>1. n \in Nat /\ n >= 1 /\ DOMAIN todo = 1 .. n
  OBVIOUS
<1>2. /\ Len(more) = n + 1 /\ DOMAIN more = 1 .. n + 1
      /\ \A l \in 1 .. n + 1 : more[l] = IF l = 1 THEN r ELSE todo[l - 1]
  <2>1. <<r>> \in Seq({r} \cup RequestTypes) /\ todo \in Seq({r} \cup RequestTypes)
        /\ Len(<<r>>) = 1 /\ <<r>>[1] = r
    OBVIOUS
  <2>2. QED
    BY <2>1
<1> HIDE DEF more, n
<1>3. more[Len(more)] = todo[n]
  BY <1>1, <1>2
<1>4. IsLastButOne(more[Len(more) - 1], k, op)
  <2>1. CASE n = 1
    BY <1>2, <2>1 DEF n
  <2>2. CASE n > 1
    <3>1. more[Len(more) - 1] = todo[n - 1]
      BY <1>1, <1>2, <2>2
    <3>2. QED
      BY <2>2, <3>1 DEF LeadsTo, n
  <2>3. QED
    BY <1>1, <2>1, <2>2
<1>5. ASSUME NEW l \in DOMAIN more
      PROVE  Sends(more[l], k, op) /\ (op = "Move" /\ more[l].verb = "delete" => l = Len(more))
  <2>1. CASE l = 1
    BY <1>2, <2>1
  <2>2. CASE l # 1
    <3>1. l \in 1 .. n + 1 /\ l - 1 \in DOMAIN todo /\ more[l] = todo[l - 1]
      BY <1>1, <1>2, <1>5, <2>2
    <3>2. Sends(more[l], k, op) /\ (op = "Move" /\ more[l].verb = "delete" => l - 1 = n)
      BY <3>1 DEF LeadsTo, n
    <3>3. QED
      BY <1>1, <1>2, <3>1, <3>2
  <2>3. QED
    BY <2>1, <2>2
<1>6. IsLast(more[Len(more)], k, op, service)
  BY <1>3 DEF LeadsTo, n
<1>7. ASSUME NEW l \in DOMAIN todo
      PROVE  \E m \in DOMAIN more : more[m] = todo[l]
  <2>1. l + 1 \in DOMAIN more /\ more[l + 1] = todo[l]
    BY <1>1, <1>2, <1>7
  <2>2. QED
    BY <2>1
<1>8. LeadsTo(more, k, op, service)
  BY <1>4, <1>5, <1>6 DEF LeadsTo
<1>9. QED
  BY <1>1, <1>2, <1>7, <1>8 DEF more, n

\* What a call does after a request that succeeded.
LEMMA ProceedCourse ==
    ASSUME ObjectStorageAssumption, backend \in {"gcs", "s3"}, NEW j, NEW over, PendingInv(j, over),
           IsJob(j), j.answer = "pending", NEW b, LeadsTo(j.todo, j.call, j.op, backend),
           NEW went, IsJob(went), went.call = j.call, went.op = j.op, went.todo = j.todo, went.answer = "pending",
           Kept(went.call, went.held, b),
           IF Tail(j.todo) = <<>> THEN j.call.op = "util.Copy" /\ j.op = "ReadFile" => went.opened = went.held
           ELSE HasDone(went, Tail(j.todo), b)
    PROVE  /\ Proceed(went).answer = "pending" => OnCourse(Proceed(went), b, backend)
           /\ Proceed(went).answer # "pending" =>
                 /\ Tail(j.todo) = <<>> /\ ~(j.call.op = "util.Copy" /\ j.op = "ReadFile")
                 /\ Proceed(went) = Ended(went, "ok")
<1> DEFINE rest == [went EXCEPT !.todo = Tail(@)]
<1>1. /\ j.todo \in Seq(RequestTypes) /\ j.todo # <<>> /\ j.call \in Calls
      /\ j.call.op = "Move" => j.call.name # j.call.to
  BY DEF IsJob, PendingInv, TodoInv
<1>2. Tail(j.todo) \in Seq(RequestTypes)
  BY <1>1
<1>3. /\ IsJob(rest) /\ rest.todo = Tail(j.todo) /\ rest.call = j.call /\ rest.op = j.op
      /\ rest.opened = went.opened /\ rest.held = went.held /\ rest.answer = "pending"
  BY <1>2 DEF IsJob
<1>4. Proceed(went) = IF rest.todo # <<>> THEN rest
                      ELSE IF went.call.op = "util.Copy" /\ went.op = "ReadFile" THEN Enter(rest, "Write")
                      ELSE Ended(went, "ok")
  BY DEF Proceed
<1> HIDE DEF rest
<1>5. CASE Tail(j.todo) # <<>>
  <2>1. Proceed(went) = rest
    BY <1>3, <1>4, <1>5
  <2>2. LeadsTo(rest.todo, rest.call, rest.op, backend)
    BY <1>1, <1>3, <1>5, TailLeads
  <2>3. HasDone(rest, rest.todo, b)
    BY <1>3, <1>5 DEF HasDone
  <2>4. OnCourse(rest, b, backend)
    BY <1>3, <2>2, <2>3 DEF OnCourse
  <2>5. QED
    BY <1>3, <2>1, <2>4
<1>6. CASE Tail(j.todo) = <<>> /\ j.call.op = "util.Copy" /\ j.op = "ReadFile"
  <2> DEFINE op == "Write"
  <2>1. Proceed(went) = Enter(rest, op)
    BY <1>3, <1>4, <1>6
  <2>2. /\ rest.call.op = "util.Copy" /\ op \in {"Copy", "ReadFile", "Write"}
        /\ rest.opened = rest.held /\ Kept(rest.call, rest.held, b)
        /\ rest.call \in Calls /\ (rest.call.op = "Move" => rest.call.name # rest.call.to)
    BY <1>1, <1>3, <1>6
  <2>3. Enter(rest, op).answer = "pending"
    BY <1>3 DEF Enter, Attempt, IsJob
  <2> HIDE DEF op
  <2>4. OnCourse(Enter(rest, op), b, backend)
    BY <1>3, <2>2, EnterCourse
  <2>5. QED
    BY <2>1, <2>3, <2>4
<1>7. CASE Tail(j.todo) = <<>> /\ ~(j.call.op = "util.Copy" /\ j.op = "ReadFile")
  <2>1. Proceed(went) = Ended(went, "ok")
    BY <1>3, <1>4, <1>7
  <2>2. Ended(went, "ok").answer # "pending"
    BY DEF Ended, NoJob
  <2>3. QED
    BY <1>7, <2>1, <2>2
<1>8. QED
  BY <1>5, <1>6, <1>7

\* What a call does after a request that failed: none that fails returns nil, but a completion
\* whose object is stored.
LEMMA FailedCourse ==
    ASSUME ObjectStorageAssumption, backend \in {"gcs", "s3"}, NEW j, NEW over, PendingInv(j, over),
           IsJob(j), j.answer = "pending", NEW b, LeadsTo(j.todo, j.call, j.op, backend),
           NEW went, IsJob(went), went.call = j.call, went.op = j.op, went.todo = j.todo, went.answer = "pending",
           Kept(went.call, went.held, b),
           went.call.op = "util.Copy" /\ went.op = "Write" => went.opened = went.held,
           NEW e, NEW after \in Failed(went, e)
    PROVE  /\ after.answer = "pending" => OnCourse(after, b, backend)
           /\ after.answer # "ok" /\ (after.answer = "logged" => Head(j.todo).soft)
<1> DEFINE r == Head(j.todo)
           size == [r EXCEPT !.verb = "stat", !.to = NoKey]
           asks == [went EXCEPT !.err = e, !.todo = <<size>> \o @]
<1>1. /\ j.todo \in Seq(RequestTypes) /\ j.todo # <<>> /\ r \in RequestTypes /\ r = j.todo[1]
      /\ 1 \in DOMAIN j.todo
  BY DEF IsJob, PendingInv, TodoInv
<1>2. OnRoute(went, b)
  BY DEF OnRoute, PendingInv, OpFits
<1>3. CASE after = Ended(went, "logged") /\ r.soft
  BY <1>3 DEF Ended, NoJob
<1>4. CASE after = asks /\ r.verb = "copy"
  <2>1. /\ size \in RequestTypes /\ size.verb = "stat" /\ size.gone = r.gone /\ size.to = NoKey
        /\ size.soft = r.soft
    BY <1>1, KeyParts DEF RequestTypes
  <2> HIDE DEF size, r
  <2>2. Sends(r, j.call, j.op) /\ (Len(j.todo) = 1 => IsLast(r, j.call, j.op, backend))
    BY <1>1 DEF LeadsTo
  <2>3. j.op \in {"Copy", "Move"}
    <3>1. \/ j.op = j.call.op /\ j.op # "util.Copy"
          \/ j.op \in {"Copy", "ReadFile", "Write"}
      BY DEF PendingInv, OpFits
    <3>2. CallFits(j.call)
      BY CallParts DEF PendingInv
    <3>3. QED
      BY <2>2, <3>1, <3>2, <1>4 DEF Sends, CallFits, Deletes, Puts, Gets, Fills
  <2>4. Copies(r, j.call) /\ ~r.soft
    BY <1>4, <2>2, <2>3 DEF Sends, Sizes, Deletes
  <2>5. Sends(size, j.call, j.op)
    BY <2>1, <2>3, <2>4 DEF Sends, Sizes, Copies
  <2>6. Len(j.todo) = 1 => IsLastButOne(size, j.call, j.op)
    BY <1>4, <2>2, <2>3 DEF IsLast, IsLastButOne, Deletes
  <2>7. /\ LeadsTo(<<size>> \o j.todo, j.call, j.op, backend)
        /\ Len(<<size>> \o j.todo) = Len(j.todo) + 1 /\ Len(j.todo) >= 1
    BY <1>1, <2>1, <2>5, <2>6, PrefixLeads
  <2>8. <<size>> \o j.todo \in Seq(RequestTypes)
    BY <1>1, <2>1
  <2>9. /\ asks.todo = <<size>> \o j.todo /\ asks.call = j.call /\ asks.op = j.op
        /\ asks.held = went.held /\ asks.opened = went.opened /\ asks.answer = "pending"
    BY <2>8 DEF IsJob
  <2> HIDE DEF asks
  <2>10. HasDone(asks, asks.todo, b)
    <3>1. Len(asks.todo) # 1
      <4>1. Len(j.todo) \in Nat
        BY <1>1
      <4>2. QED
        BY <2>7, <2>9, <4>1
    <3>2. QED
      BY <2>3, <2>9, <3>1 DEF HasDone
  <2>11. OnCourse(asks, b, backend)
    BY <2>7, <2>9, <2>10 DEF OnCourse
  <2>12. QED
    BY <1>4, <2>9, <2>11
<1>5. CASE \E f : after \in AfterError(went, f)
  <2>1. PICK f : after \in AfterError(went, f)
    BY <1>5
  <2>2. /\ after.answer \notin {"ok", "logged"} \/ after.answer = went.answer
        /\ after.answer = "pending" => OnCourse(after, b, backend)
    BY <1>2, <2>1, AfterErrorCourse
  <2>3. QED
    BY <2>2
<1>6. QED
  BY <1>3, <1>4, <1>5 DEF Failed

\* The size of the source of a copy that failed is known: it is copied in parts.
LEMMA LargeCourse ==
    ASSUME ObjectStorageAssumption, NEW j, NEW over, PendingInv(j, over), IsJob(j), j.answer = "pending",
           Head(j.todo).verb = "stat", NEW b, NEW service, OnCourse(j, b, service)
    PROVE  LET large == [j EXCEPT !.todo = <<[j.todo[2] EXCEPT !.verb = "copyLarge"]>> \o SubSeq(@, 3, Len(@))]
           IN  OnCourse(large, b, service) /\ large.answer = "pending"
<1> DEFINE copy == [j.todo[2] EXCEPT !.verb = "copyLarge"]
           rest == SubSeq(j.todo, 3, Len(j.todo))
           more == <<copy>> \o rest
           large == [j EXCEPT !.todo = <<copy>> \o SubSeq(@, 3, Len(@))]
           n == Len(j.todo)
           k == j.call
<1>1. /\ j.todo \in Seq(RequestTypes) /\ j.todo # <<>> /\ Head(j.todo) = j.todo[1]
      /\ 1 \in DOMAIN j.todo /\ n \in Nat /\ DOMAIN j.todo = 1 .. n
  BY DEF IsJob, PendingInv, TodoInv
<1>2. n >= 2 /\ 2 \in DOMAIN j.todo
  BY <1>1 DEF PendingInv, TodoInv
<1> HIDE DEF n
<1>3. j.todo[2].verb # "stat" /\ j.todo[2] \in RequestTypes
  BY <1>1, <1>2 DEF PendingInv, TodoInv
<1>4. LeadsTo(j.todo, k, j.op, service)
  BY DEF OnCourse
<1>5. Sends(j.todo[1], k, j.op) /\ Sends(j.todo[2], k, j.op)
  BY <1>1, <1>2, <1>4 DEF LeadsTo
<1>6. j.op \in {"Copy", "Move"}
  <2>1. \/ j.op = k.op /\ j.op # "util.Copy"
        \/ j.op \in {"Copy", "ReadFile", "Write"}
    BY DEF PendingInv, OpFits
  <2>2. CallFits(k)
    BY CallParts DEF PendingInv
  <2>3. QED
    BY <1>1, <1>5, <2>1, <2>2 DEF Sends, CallFits, Deletes, Puts, Gets, Fills
<1>7. j.op = "Move" => n > 2
  <2>1. SUFFICES ASSUME j.op = "Move", n = 2
                 PROVE  FALSE
    BY <1>1, <1>2
  <2>2. n > 1 /\ n - 1 = 1
    BY <2>1
  <2>3. IsLastButOne(j.todo[1], k, j.op)
    BY <1>4, <2>2 DEF LeadsTo, n
  <2>4. QED
    BY <1>1, <2>1, <2>3 DEF IsLastButOne, Copies
<1>8. Copies(j.todo[2], k) /\ ~j.todo[2].soft
  <2>1. j.op = "Move" => j.todo[2].verb # "delete"
    <3>1. SUFFICES ASSUME j.op = "Move", j.todo[2].verb = "delete"
                   PROVE  FALSE
      OBVIOUS
    <3>2. 2 = n
      BY <1>2, <1>4, <3>1 DEF LeadsTo, n
    <3>3. QED
      BY <1>7, <3>1, <3>2
  <2>2. QED
    BY <1>3, <1>5, <1>6, <2>1 DEF Sends, Sizes, Deletes
<1>9. /\ copy \in RequestTypes /\ copy.verb = "copyLarge" /\ copy.to = j.todo[2].to
      /\ copy.gone = j.todo[2].gone /\ copy.from = j.todo[2].from /\ copy.soft = j.todo[2].soft
  BY <1>3 DEF RequestTypes
<1> HIDE DEF copy
<1>10. Copies(copy, k) /\ Sends(copy, k, j.op)
  BY <1>6, <1>8, <1>9 DEF Copies, Sends
<1>11. /\ rest \in Seq(RequestTypes) /\ Len(rest) = n - 2
       /\ \A l \in 1 .. n - 2 : rest[l] = j.todo[l + 2]
  BY <1>1, <1>2 DEF n
<1> HIDE DEF rest
<1>12. /\ more \in Seq(RequestTypes) /\ Len(more) = n - 1 /\ DOMAIN more = 1 .. n - 1
       /\ \A l \in 1 .. n - 1 : more[l] = IF l = 1 THEN copy ELSE j.todo[l + 1]
  BY <1>1, <1>2, <1>9, <1>11
<1> HIDE DEF more
<1>13. LeadsTo(more, k, j.op, service)
  <2>1. ASSUME NEW l \in DOMAIN more
        PROVE  Sends(more[l], k, j.op) /\ (j.op = "Move" /\ more[l].verb = "delete" => l = Len(more))
    <3>1. CASE l = 1
      BY <1>9, <1>10, <1>12, <2>1, <3>1
    <3>2. CASE l # 1
      <4>1. l + 1 \in DOMAIN j.todo /\ more[l] = j.todo[l + 1] /\ l \in Nat
        BY <1>1, <1>12, <2>1, <3>2
      <4>2. Sends(more[l], k, j.op) /\ (j.op = "Move" /\ more[l].verb = "delete" => l + 1 = n)
        BY <1>4, <4>1 DEF LeadsTo, n
      <4>3. QED
        BY <1>1, <1>12, <4>1, <4>2
    <3>3. QED
      BY <3>1, <3>2
  <2>2. IsLast(more[Len(more)], k, j.op, service)
    <3>1. CASE n = 2
      <4>1. more[Len(more)] = copy /\ j.op = "Copy"
        BY <1>6, <1>7, <1>12, <3>1
      <4>2. QED
        BY <1>10, <4>1 DEF IsLast
    <3>2. CASE n # 2
      <4>1. more[Len(more)] = j.todo[n]
        BY <1>1, <1>2, <1>12, <3>2
      <4>2. QED
        BY <1>4, <4>1 DEF LeadsTo, n
    <3>3. QED
      BY <3>1, <3>2
  <2>3. ASSUME Len(more) > 1
        PROVE  IsLastButOne(more[Len(more) - 1], k, j.op)
    <3>1. CASE n = 3
      <4>1. more[Len(more) - 1] = copy
        BY <1>12, <3>1
      <4>2. QED
        BY <1>6, <1>10, <4>1 DEF IsLastButOne
    <3>2. CASE n # 3
      <4>1. more[Len(more) - 1] = j.todo[n - 1] /\ n > 1
        BY <1>1, <1>2, <1>12, <2>3, <3>2
      <4>2. QED
        BY <1>4, <4>1 DEF LeadsTo, n
    <3>3. QED
      BY <3>1, <3>2
  <2>4. QED
    BY <2>1, <2>2, <2>3 DEF LeadsTo
<1>14. /\ large.todo = more /\ large.call = k /\ large.op = j.op
       /\ large.held = j.held /\ large.opened = j.opened /\ large.answer = "pending"
  BY DEF IsJob, more, rest, n
<1> HIDE DEF large
<1>15. HasDone(large, more, b)
  <2>1. ~(j.op = "Move" /\ Len(more) = 1)
    BY <1>1, <1>7, <1>12
  <2>2. QED
    BY <1>6, <1>14, <2>1 DEF HasDone
<1>16. OnCourse(large, b, service)
  BY <1>13, <1>14, <1>15 DEF OnCourse
<1>17. QED
  BY <1>14, <1>16 DEF large, copy

\* A sweep of GCS deletes the next object of its listing.
LEMMA SweepCourse ==
    ASSUME ObjectStorageAssumption, NEW j, NEW over, PendingInv(j, over), IsJob(j), j.answer = "pending",
           Head(j.todo).verb = "sweep", NEW key, NEW b, NEW service, OnCourse(j, b, service)
    PROVE  LET after == [j EXCEPT !.todo = <<[Delete(key) EXCEPT !.soft = Head(j.todo).soft]>> \o @]
           IN  OnCourse(after, b, service) /\ after.answer = "pending"
<1> DEFINE r == Head(j.todo)
           next == [Delete(key) EXCEPT !.soft = r.soft]
           more == <<next>> \o j.todo
           after == [j EXCEPT !.todo = <<next>> \o @]
           k == j.call
<1>1. /\ j.todo \in Seq(RequestTypes) /\ j.todo # <<>> /\ r = j.todo[1] /\ 1 \in DOMAIN j.todo
      /\ Len(j.todo) \in Nat /\ r \in RequestTypes
  BY DEF IsJob, PendingInv, TodoInv
<1>2. next.verb = "delete" /\ next.to = NoKey /\ next.soft = r.soft
  BY DEF Delete, Request
<1> HIDE DEF next, r
<1>3. LeadsTo(j.todo, k, j.op, service) /\ Sends(r, k, j.op)
  BY <1>1 DEF OnCourse, LeadsTo
<1>4. j.op \in {"DeleteDir", "AbortMultipartUpload", "CompleteMultipartUpload"}
  <2>1. \/ j.op = k.op /\ j.op # "util.Copy"
        \/ j.op \in {"Copy", "ReadFile", "Write"}
    BY DEF PendingInv, OpFits
  <2>2. CallFits(k)
    BY CallParts DEF PendingInv
  <2>3. r.verb = "sweep"
    BY DEF r
  <2>4. QED
    BY <1>3, <2>1, <2>2, <2>3 DEF Sends, CallFits, Deletes, Puts, Gets, Fills, Copies, Sizes
<1>5. j.op = "CompleteMultipartUpload" => r.to = NoKey
  BY <1>1 DEF PendingInv, TodoInv, StoresFirst, r
<1>6. Sends(next, k, j.op) /\ IsLastButOne(next, k, j.op)
  BY <1>2, <1>3, <1>4, <1>5 DEF Sends, IsLastButOne
<1>7. /\ LeadsTo(more, k, j.op, service) /\ Len(more) = Len(j.todo) + 1
      /\ \A l \in DOMAIN j.todo : \E m \in DOMAIN more : more[m] = j.todo[l]
  <2>1. (j.op = "Move" => next.verb # "delete") /\ (Len(j.todo) = 1 => IsLastButOne(next, k, j.op))
    BY <1>4, <1>6
  <2>2. QED
    BY <1>1, <1>3, <1>6, <2>1, PrefixLeads
<1>8. /\ after.todo = more /\ after.call = k /\ after.op = j.op
      /\ after.held = j.held /\ after.opened = j.opened /\ after.answer = "pending"
  BY DEF IsJob
<1> HIDE DEF after, more
<1>9. OnlyRemoves(more) => OnlyRemoves(j.todo)
  BY <1>7 DEF OnlyRemoves
<1>10. HasDone(after, more, b)
  BY <1>4, <1>8, <1>9 DEF HasDone, OnCourse
<1>11. OnCourse(after, b, service)
  BY <1>7, <1>8, <1>10 DEF OnCourse
<1>12. QED
  BY <1>8, <1>11 DEF after, next, r

\* A call that begins.
LEMMA StartedCourse ==
    ASSUME ObjectStorageAssumption, backend \in {"gcs", "s3"}, NEW k \in Calls, Started(k).answer = "pending",
           k.op = "Move" => k.name # k.to
    PROVE  OnCourse(Started(k), bucket, backend)
<1> DEFINE there == IF Reads(k) = {} THEN Absent ELSE bucket[Object(k.name)]
           fresh == [NoJob EXCEPT !.call = k, !.answer = "pending", !.held = there]
           op == IF k.op = "util.Copy" THEN "Copy" ELSE k.op
           first == Enter(fresh, op)
<1>1. IsJob(fresh) /\ fresh.call = k /\ fresh.held = there
  <2>1. <<>> \in Seq(RequestTypes)
    OBVIOUS
  <2>2. IsJob(NoJob)
    BY <2>1 DEF NoJob, IsJob
  <2>3. QED
    BY <2>2 DEF IsJob, NoJob
<1>2. Started(k) = IF k.op = "CompleteMultipartUpload" /\ k.list = <<>> THEN Ended(first, "error")
                   ELSE IF first.todo = <<>> THEN Ended(first, "ok") ELSE first
  BY DEF Started
<1>3. Ended(first, "error").answer # "pending" /\ Ended(first, "ok").answer # "pending"
  BY DEF Ended, NoJob
<1>4. Kept(k, there, bucket)
  BY DEF Kept, Reads
<1> HIDE DEF fresh, there
<1>5. /\ \/ op = k.op /\ op # "util.Copy"
         \/ k.op = "util.Copy" /\ op \in {"Copy", "ReadFile", "Write"}
      /\ ~(op = "Write" /\ k.op = "util.Copy")
  OBVIOUS
<1> HIDE DEF op, first
<1>6. Started(k) = first
  BY <1>2, <1>3
<1>7. OnCourse(Enter(fresh, op), bucket, backend)
  BY <1>1, <1>4, <1>5, EnterCourse
<1>8. QED
  BY <1>6, <1>7 DEF first

-----------------------------------------------------------------------------
(* What a request does to the bucket *)

LEMMA EffectIs ==
    ASSUME NEW j, NEW r, bucket' = After(j, r), NEW key \in Keys
    PROVE  /\ key = r.to => bucket'[key] = Content(j, r)
           /\ key # r.to /\ key \notin r.gone => bucket'[key] = bucket[key]
           /\ key # r.to /\ key \in r.gone /\ r.verb # "sweep" => bucket'[key] = Absent
           /\ key # r.to /\ key \in r.gone /\ (backend = "s3" => key[2] = None) => bucket'[key] = Absent
BY DEF After, Listed

LEMMA PartIs ==
    ASSUME NEW r, bucket' \in AfterPart(r), NEW key \in Keys, key \notin r.gone \/ r.verb # "sweep"
    PROVE  bucket'[key] = bucket[key]
BY DEF AfterPart, Listed

\* A put sends the whole of its source.
LEMMA PutsWhole ==
    ASSUME ObjectStorageAssumption, NEW j, j.read = 0, j.opened \in WholeContents,
           j.op \in {"Write", "WriteFile"}, NEW r, r.verb = "put"
    PROVE  Content(j, r) = IF j.call.op = "util.Copy" THEN j.opened ELSE Whole(j.call.data)
<1> DEFINE s == Source(j)
<1>1. s = IF j.call.op = "util.Copy" THEN j.opened ELSE Whole(j.call.data)
  BY DEF Source
<1>2. SubSeq(s, 1, Len(s)) = s
  <2>1. CASE j.call.op = "util.Copy"
    BY <1>1, <2>1, WholeIsSeq
  <2>2. CASE j.call.op # "util.Copy"
    <3>1. s \in Seq({j.call.data} \X {1, 2})
      BY <1>1, <2>2 DEF Whole
    <3>2. QED
      BY <3>1, SubSeqFull
  <2>3. QED
    BY <2>1, <2>2
<1>3. Content(j, r) = SubSeq(s, 0 + 1, Len(s))
  BY DEF Content, Unread
<1> HIDE DEF s
<1>4. QED
  BY <1>1, <1>2, <1>3

\* A completion makes the object of the chunks of its list, and then it has only to remove them.
LEMMA CompleteMakes ==
    ASSUME ObjectStorageAssumption, NEW j, NEW over, IsJob(j), j.answer = "pending", PendingInv(j, over),
           j.op = "CompleteMultipartUpload", Completes(j.call, j.todo, bucket), Pieced
    PROVE  LET r == Head(j.todo)
           IN  /\ r.to = NoKey => OnlyRemoves(j.todo)
               /\ OnlyRemoves(Tail(j.todo)) => r.to \in {NoKey, Object(j.call.name)}
               /\ Allowed(r) /\ r.to = Object(j.call.name) =>
                     Content(j, r) = UploadOf(j.call.upload, j.call.list)
<1> DEFINE r == Head(j.todo)
           k == j.call
           u == k.upload
           list == k.list
           G == GroupsOf(list)
<1>1. /\ j.todo \in Seq(RequestTypes) /\ j.todo # <<>> /\ r = j.todo[1] /\ 1 \in DOMAIN j.todo
      /\ DOMAIN Tail(j.todo) = 1 .. Len(j.todo) - 1 /\ Len(j.todo) \in Nat
      /\ \A l \in 1 .. Len(j.todo) - 1 : Tail(j.todo)[l] = j.todo[l + 1]
  BY DEF IsJob, PendingInv, TodoInv
<1>2. /\ k \in Calls /\ k.op = "CompleteMultipartUpload" /\ list # <<>> /\ list \in Seq(ChunkNumbers)
      /\ u \in Uploads
  BY CompleteCallParts DEF PendingInv, OpFits, Completes
<1>3. G \in Nat
  BY <1>2, GroupParts
<1>4. Object(k.name) # NoKey /\ \A g : Group(u, g) # NoKey /\ Group(u, g) # Object(k.name)
  BY DEF Object, NoKey, None, Group
<1> HIDE DEF r, G
<1>5. CASE OnlyRemoves(j.todo)
  <2>1. r.to = NoKey
    BY <1>1, <1>5 DEF OnlyRemoves
  <2>2. QED
    BY <1>4, <1>5, <2>1 DEF r
<1>6. CASE OnePass(k, j.todo)
  <2>1. r.verb # "put" /\ r.to = Object(k.name) /\ r.from = ChunksAt(u, list)
    BY <1>1, <1>6 DEF OnePass
  <2>2. Allowed(r) => Content(j, r) = UploadOf(u, list)
    <3>1. SUFFICES ASSUME Allowed(r)
                   PROVE  Content(j, r) = UploadOf(u, list)
      OBVIOUS
    <3>2. \A x \in DOMAIN ChunksAt(u, list) : Present(ChunksAt(u, list)[x])
      BY <2>1, <3>1 DEF Allowed
    <3>3. \A n \in ChunkNumbers : bucket[Chunk(u, n)] \in {Absent, PieceOf(u, n)}
      BY <1>2 DEF Pieced
    <3>4. Content(j, r) = FlattenSeq([x \in DOMAIN ChunksAt(u, list) |-> bucket[ChunksAt(u, list)[x]]])
      BY <2>1 DEF Content
    <3> HIDE DEF u, list
    <3>5. QED
      BY <1>2, <3>2, <3>3, <3>4, ChunksMakeUpload
  <2>3. QED
    BY <1>4, <2>1, <2>2 DEF r
<1>7. CASE \E made \in 0 .. G : TwoPass(k, j.todo, made, bucket)
  <2>1. PICK made \in 0 .. G : TwoPass(k, j.todo, made, bucket)
    BY <1>7
  <2> DEFINE left == G - made
  <2>2. left \in Nat
    BY <1>3
  <2>3. /\ Len(j.todo) = left + 2 /\ j.todo[left + 1].to = Object(k.name)
        /\ j.todo[left + 1].from = GroupsAt(u, list)
        /\ \A l \in 1 .. left + 1 : j.todo[l].verb = "compose"
        /\ \A l \in 1 .. left : j.todo[l].to = Group(u, made + l)
        /\ \A g \in 1 .. made : bucket[Group(u, g)] = UploadOf(u, PartOf(list, g))
    BY <2>1 DEF TwoPass, G
  <2> HIDE DEF left
  <2>4. CASE left = 0
    <3>1. r.to = Object(k.name) /\ r.from = GroupsAt(u, list) /\ r.verb # "put" /\ made = G
      <4>1. j.todo[1].verb = "compose"
        BY <2>3, <2>4
      <4>2. made = G
        BY <1>3, <2>4 DEF left
      <4>3. QED
        BY <1>1, <2>3, <2>4, <4>1, <4>2
    <3>2. Content(j, r) = FlattenSeq([x \in DOMAIN GroupsAt(u, list) |-> bucket[GroupsAt(u, list)[x]]])
      BY <3>1 DEF Content
    <3>3. \A g \in 1 .. GroupsOf(list) : bucket[Group(u, g)] = UploadOf(u, PartOf(list, g))
      BY <2>3, <3>1 DEF G
    <3> HIDE DEF u, list
    <3>4. FlattenSeq([x \in DOMAIN GroupsAt(u, list) |-> bucket[GroupsAt(u, list)[x]]]) = UploadOf(u, list)
      BY <1>2, <3>3, GroupsMakeUpload
    <3>5. QED
      BY <1>4, <3>1, <3>2, <3>4 DEF r, u, list
  <2>5. CASE left # 0
    <3>1. r.to = Group(u, made + 1)
      <4>1. 1 \in 1 .. left
        BY <2>2, <2>5
      <4>2. QED
        BY <1>1, <2>3, <4>1
    <3>2. left \in 1 .. Len(j.todo) - 1 /\ Tail(j.todo)[left].to = Object(k.name)
      BY <1>1, <2>2, <2>3, <2>5
    <3>3. ~OnlyRemoves(Tail(j.todo))
      BY <1>1, <1>4, <3>2 DEF OnlyRemoves
    <3>4. QED
      BY <1>4, <3>1, <3>3 DEF r
  <2>6. QED
    BY <2>4, <2>5
<1>8. QED
  BY <1>5, <1>6, <1>7 DEF Completes, G

\* A call in flight, before its next request.
LEMMA PendingCourse ==
    ASSUME ObjectStorageAssumption, ObjectIInv, WholeInv, CourseInv, NEW c \in Clients, Pending(c)
    PROVE  LET j == job[c]
               r == Head(j.todo)
           IN  /\ IsJob(j) /\ j.answer = "pending" /\ PendingInv(j, released) /\ WholeJob(j, bucket)
               /\ backend \in {"gcs", "s3"}
               /\ LeadsTo(j.todo, j.call, j.op, backend)
               /\ Kept(j.call, j.held, bucket) /\ HasDone(j, j.todo, bucket)
               /\ Sends(r, j.call, j.op) /\ j.call \in Calls /\ CallFits(j.call)
               /\ \/ j.op = j.call.op /\ j.op # "util.Copy"
                  \/ j.call.op = "util.Copy" /\ j.op \in {"Copy", "ReadFile", "Write"}
               /\ j.call.op = "Move" => j.call.name # j.call.to
               /\ j.op = "Move" /\ r.verb = "delete" => Len(j.todo) = 1
<1>1. /\ IsJob(job[c]) /\ job[c].answer = "pending" /\ PendingInv(job[c], released)
      /\ WholeJob(job[c], bucket)
  BY PendingCall DEF WholeInv
<1>2. OnCourse(job[c], bucket, backend) /\ backend \in {"gcs", "s3"}
  BY DEF CourseInv
<1> DEFINE j == job[c]
<1> HIDE DEF j
<1>3. 1 \in DOMAIN j.todo /\ Head(j.todo) = j.todo[1]
  BY <1>1 DEF IsJob, PendingInv, TodoInv, j
<1>4. LeadsTo(j.todo, j.call, j.op, backend) /\ Kept(j.call, j.held, bucket) /\ HasDone(j, j.todo, bucket)
  BY <1>2 DEF OnCourse, j
<1>5. Sends(Head(j.todo), j.call, j.op) /\ (j.op = "Move" /\ Head(j.todo).verb = "delete" => Len(j.todo) = 1)
  BY <1>3, <1>4 DEF LeadsTo
<1>6. /\ j.call \in Calls /\ OpFits(j) /\ (j.call.op = "Move" => j.call.name # j.call.to)
  BY <1>1 DEF PendingInv, j
<1>7. CallFits(j.call)
  BY <1>6, CallParts
<1>8. QED
  BY <1>1, <1>2, <1>4, <1>5, <1>6, <1>7 DEF OpFits, j

\* What a request that takes effect leaves of what the call was asked, and what it has done.
LEMMA EffectKept ==
    ASSUME ObjectStorageAssumption, ObjectIInv, WholeInv, CourseInv, NEW c \in Clients, Pending(c),
           Allowed(Head(job[c].todo)), bucket' = After(job[c], Head(job[c].todo))
    PROVE  LET j == job[c]
               k == j.call
               r == Head(j.todo)
           IN  /\ Kept(k, j.held, bucket')
               /\ j.op \in {"Copy", "Move"} /\ Copies(r, k) => bucket'[Object(k.to)] = j.held
               /\ j.op = "Move" /\ Deletes(r, k) =>
                     bucket'[Object(k.to)] = j.held /\ bucket'[Object(k.name)] = Absent
               /\ k.op = "util.Copy" /\ j.op = "Write" => bucket'[Object(k.to)] = j.held
               /\ Gets(r, k) /\ k.op \in {"util.Copy", "DownloadFile"} =>
                     Content(j, r) = j.held /\ j.held # Absent
<1> DEFINE j == job[c]
           k == j.call
           r == Head(j.todo)
           from == Object(k.name)
           to == Object(k.to)
<1>1. /\ WholeJob(j, bucket) /\ Kept(k, j.held, bucket) /\ HasDone(j, j.todo, bucket)
      /\ Sends(r, k, j.op) /\ CallFits(k) /\ (k.op = "Move" => k.name # k.to)
      /\ \/ j.op = k.op /\ j.op # "util.Copy"
         \/ k.op = "util.Copy" /\ j.op \in {"Copy", "ReadFile", "Write"}
      /\ j.op = "Move" /\ r.verb = "delete" => Len(j.todo) = 1
  BY PendingCourse
<1>2. Allowed(r) /\ bucket' = After(j, r)
  OBVIOUS
<1> HIDE DEF j, r
<1>3. \A key \in Keys : /\ key = r.to => bucket'[key] = Content(j, r)
                        /\ key # r.to /\ key \notin r.gone => bucket'[key] = bucket[key]
                        /\ key # r.to /\ key \in r.gone /\ r.verb # "sweep" => bucket'[key] = Absent
  BY <1>2, EffectIs
<1>4. \A n \in Names : Object(n) \in Keys /\ Object(n) # NoKey
  BY KeyParts DEF None
<1>5. /\ k.op # "DeleteDir" => from \in Keys /\ from # NoKey
      /\ k.op \in {"Copy", "Move", "util.Copy"} => to \in Keys /\ to # NoKey
  BY <1>1, <1>4 DEF CallFits
<1>6. k.op = "Move" => from # to
  BY <1>1 DEF Object
<1> HIDE DEF k, from, to
<1>7. r.from = <<from>> /\ r.verb # "put" => Content(j, r) = bucket[from] /\ bucket[from] # Absent
  <2>1. SUFFICES ASSUME r.from = <<from>>, r.verb # "put"
                 PROVE  Content(j, r) = bucket[from] /\ bucket[from] # Absent
    OBVIOUS
  <2>2. Content(j, r) = bucket[from]
    BY <2>1, ObjectMakesObject DEF Content
  <2>3. 1 \in DOMAIN r.from /\ r.from[1] = from
    BY <2>1
  <2>4. QED
    BY <1>2, <2>2, <2>3 DEF Allowed, Present
<1>8. Copies(r, k) => r.to = to /\ r.gone = {} /\ Content(j, r) = bucket[from] /\ bucket[from] # Absent
  BY <1>7 DEF Copies, from, to
<1>9. Gets(r, k) => r.to = NoKey /\ r.gone = {} /\ Content(j, r) = bucket[from] /\ bucket[from] # Absent
  BY <1>7 DEF Gets, from
<1>10. Sizes(r) \/ Fills(r) \/ Gets(r, k) => \A key \in Keys : key # NoKey => bucket'[key] = bucket[key]
  BY <1>3 DEF Sizes, Fills, Gets
<1>11. Kept(k, j.held, bucket) <=>
          /\ k.op \in {"Copy", "util.Copy", "DownloadFile"} => bucket[from] = j.held
          /\ k.op = "Move" => bucket[from] = j.held \/ (bucket[from] = Absent /\ bucket[to] = j.held)
  BY DEF Kept, from, to
<1>12. Kept(k, j.held, bucket') <=>
          /\ k.op \in {"Copy", "util.Copy", "DownloadFile"} => bucket'[from] = j.held
          /\ k.op = "Move" => bucket'[from] = j.held \/ (bucket'[from] = Absent /\ bucket'[to] = j.held)
  BY DEF Kept, from, to
<1>13. Deletes(r, k) => r.to = NoKey /\ r.gone = {from} /\ r.verb = "delete"
  BY DEF Deletes, from
<1>14. CASE j.op = "Copy"
  <2>1. /\ k.op \in {"Copy", "util.Copy"} /\ bucket[from] = j.held /\ from \in Keys /\ to \in Keys
        /\ from # NoKey
    BY <1>1, <1>5, <1>11, <1>14
  <2>2. Sizes(r) \/ Copies(r, k)
    BY <1>1, <1>14 DEF Sends
  <2>3. Copies(r, k) => bucket'[from] = j.held /\ bucket'[to] = j.held
    BY <1>3, <1>8, <2>1
  <2>4. Sizes(r) => bucket'[from] = j.held
    BY <1>10, <2>1
  <2>5. ~Gets(r, k)
    BY <2>2 DEF Sizes, Copies, Gets
  <2>6. QED
    BY <1>12, <1>14, <2>1, <2>2, <2>3, <2>4, <2>5 DEF to, from, j, k, r
<1>15. CASE j.op = "Move"
  <2>1. /\ k.op = "Move" /\ from \in Keys /\ to \in Keys /\ from # NoKey /\ to # NoKey /\ from # to
        /\ bucket[from] = j.held \/ (bucket[from] = Absent /\ bucket[to] = j.held)
    BY <1>1, <1>5, <1>6, <1>11, <1>15
  <2>2. Sizes(r) \/ Copies(r, k) \/ Deletes(r, k)
    BY <1>1, <1>15 DEF Sends
  <2>3. Copies(r, k) => bucket'[from] = j.held /\ bucket'[to] = j.held
    BY <1>3, <1>8, <2>1
  <2>4. Deletes(r, k) => bucket'[from] = Absent /\ bucket'[to] = j.held
    <3>1. SUFFICES ASSUME Deletes(r, k)
                   PROVE  bucket'[from] = Absent /\ bucket'[to] = j.held
      OBVIOUS
    <3>2. Len(j.todo) = 1
      BY <1>1, <1>13, <1>15, <3>1
    <3>3. bucket[to] = j.held
      BY <1>1, <1>15, <3>2 DEF HasDone, to, k
    <3>4. QED
      BY <1>3, <1>13, <2>1, <3>1, <3>3
  <2>5. Sizes(r) => bucket'[from] = bucket[from] /\ bucket'[to] = bucket[to]
    BY <1>10, <2>1
  <2>6. Kept(k, j.held, bucket')
    BY <1>12, <2>1, <2>2, <2>3, <2>4, <2>5
  <2>7. QED
    BY <1>15, <2>1, <2>3, <2>4, <2>6 DEF to, from, j, k, r
<1>16. CASE j.op \in {"ReadFile", "DownloadFile"}
  <2>1. /\ k.op \in {"util.Copy", "DownloadFile"} /\ bucket[from] = j.held /\ from \in Keys /\ from # NoKey
    BY <1>1, <1>5, <1>11, <1>16 DEF CallFits
  <2>2. Gets(r, k) \/ Fills(r)
    BY <1>1, <1>16 DEF Sends
  <2>3. bucket'[from] = j.held
    BY <1>10, <2>1, <2>2
  <2>4. Gets(r, k) => Content(j, r) = j.held /\ j.held # Absent
    BY <1>9, <2>1
  <2>5. QED
    BY <1>12, <1>16, <2>1, <2>3, <2>4 DEF to, from, j, k, r
<1>17. CASE j.op = "Write" /\ k.op = "util.Copy"
  <2>1. bucket[from] = j.held /\ from \in Keys /\ to \in Keys /\ from # NoKey
    BY <1>1, <1>5, <1>11, <1>17
  <2>2. Puts(r, to)
    BY <1>1, <1>17 DEF Sends, to
  <2>3. r.verb = "put" /\ r.to = to /\ r.gone = {}
    BY <2>2 DEF Puts
  <2>4. Content(j, r) = j.held
    <3>1. j.read = 0 /\ j.opened \in WholeContents /\ j.opened = j.held
      BY <1>1, <1>17 DEF WholeJob, HasDone, k
    <3>2. QED
      BY <1>17, <2>3, <3>1, PutsWhole DEF k
  <2>5. bucket'[from] = j.held /\ bucket'[to] = j.held
    BY <1>3, <2>1, <2>3, <2>4
  <2>6. ~Gets(r, k)
    BY <2>3 DEF Gets
  <2>7. QED
    BY <1>12, <1>17, <2>1, <2>5, <2>6 DEF to, from, j, k, r
<1>18. CASE k.op \notin {"Copy", "util.Copy", "DownloadFile", "Move"}
  BY <1>1, <1>12, <1>18 DEF j, k, r
<1>19. QED
  BY <1>1, <1>14, <1>15, <1>16, <1>17, <1>18

\* Nor does one that fails before it took effect.
LEMMA PartKept ==
    ASSUME ObjectStorageAssumption, ObjectIInv, WholeInv, CourseInv, NEW c \in Clients, Pending(c),
           bucket' = bucket \/ bucket' \in AfterPart(Head(job[c].todo))
    PROVE  Kept(job[c].call, job[c].held, bucket')
<1> DEFINE j == job[c]
           k == j.call
           r == Head(j.todo)
<1>1. /\ Kept(k, j.held, bucket) /\ Sends(r, k, j.op) /\ CallFits(k)
      /\ \/ j.op = k.op /\ j.op # "util.Copy"
         \/ k.op = "util.Copy" /\ j.op \in {"Copy", "ReadFile", "Write"}
  BY PendingCourse
<1> HIDE DEF j, r
<1>2. /\ k.op # "DeleteDir" => Object(k.name) \in Keys
      /\ k.op \in {"Copy", "Move", "util.Copy"} => Object(k.to) \in Keys
  BY <1>1, KeyParts DEF CallFits
<1>3. CASE k.op \in {"Copy", "util.Copy", "DownloadFile", "Move"}
  <2>1. j.op \in {"Copy", "ReadFile", "Write", "DownloadFile", "Move"}
    BY <1>1, <1>3
  <2>2. r.verb # "sweep"
    BY <1>1, <2>1 DEF Sends, Copies, Sizes, Gets, Fills, Puts, Deletes
  <2>3. \A key \in Keys : bucket'[key] = bucket[key]
    BY <2>2, PartIs DEF r, j
  <2>4. QED
    BY <1>1, <1>2, <1>3, <2>3 DEF Kept, j
<1>4. CASE k.op \notin {"Copy", "util.Copy", "DownloadFile", "Move"}
  BY <1>4 DEF Kept, j
<1>5. QED
  BY <1>3, <1>4

-----------------------------------------------------------------------------
(* What a call has done when it returns nil *)

LEMMA MadeOfUpload ==
    ASSUME ObjectStorageAssumption, NEW u \in Uploads
    PROVE  /\ \A n \in ChunkNumbers : Chunk(u, n) \in PartsOf(u)
           /\ \A g \in GroupNumbers : Group(u, g) \in PartsOf(u)
           /\ PartsOf(u) \subseteq Keys
           /\ \A n \in Names : Object(n) \notin PartsOf(u)
<1>1. \A n \in ChunkNumbers : Chunk(u, n) \in PartsOf(u)
  BY KeyParts DEF PartsOf
<1>2. \A g \in GroupNumbers : Group(u, g) \in Keys /\ Group(u, g)[2] = u
  BY DEF Keys, Group
<1>3. \A g \in GroupNumbers : Group(u, g) \in PartsOf(u)
  BY <1>2 DEF PartsOf
<1>4. PartsOf(u) \subseteq Keys
  BY DEF PartsOf
<1>5. u # None
  BY DEF ObjectStorageAssumption, None
<1>6. \A n \in Names : Object(n)[2] # u
  BY <1>5, KeyParts
<1>7. \A n \in Names : Object(n) \notin PartsOf(u)
  BY <1>6 DEF PartsOf
<1>8. QED
  BY <1>1, <1>3, <1>4, <1>7

LEMMA DoneIf ==
    ASSUME ObjectStorageAssumption, NEW j, NEW after, NEW b, CallFits(j.call),
           j.call.op \in {"Write", "WriteFile"} => b[Object(j.call.name)] = Whole(j.call.data),
           j.call.op = "DeleteFile" => b[Object(j.call.name)] = Absent,
           j.call.op = "DeleteDir" =>
              \A key \in Under(j.call.name) : backend = "gcs" \/ key[2] = None => b[key] = Absent,
           j.call.op = "DownloadFile" => after.file = j.held /\ j.held # Absent,
           j.call.op \in {"Copy", "util.Copy", "Move"} => b[Object(j.call.to)] = j.held,
           j.call.op = "Move" => b[Object(j.call.name)] = Absent,
           j.call.op = "UploadMultipartChunk" =>
              b[Chunk(j.call.upload, j.call.chunk)] = PieceOf(j.call.upload, j.call.chunk),
           j.call.op = "CompleteMultipartUpload" =>
              b[Object(j.call.name)] = UploadOf(j.call.upload, j.call.list),
           (j.call.op = "CompleteMultipartUpload" /\ after.answer = "ok") \/ j.call.op = "AbortMultipartUpload"
              => \A key \in PartsOf(j.call.upload) : b[key] = Absent
    PROVE  Done(j, after, b)
<1> DEFINE k == j.call
           u == k.upload
           made == {Chunk(u, n) : n \in ChunkNumbers} \cup {Group(u, g) : g \in GroupNumbers}
<1>1. CASE k.op \in {"CompleteMultipartUpload", "AbortMultipartUpload"}
  <2>1. made \subseteq PartsOf(u)
    BY <1>1, MadeOfUpload DEF CallFits
  <2>2. (k.op = "CompleteMultipartUpload" /\ after.answer = "ok") \/ k.op = "AbortMultipartUpload"
           => \A key \in made : b[key] = Absent
    BY <2>1
  <2> HIDE DEF made
  <2>3. CASE k.op = "CompleteMultipartUpload"
    <3>1. Done(j, after, b) <=>
            /\ b[Object(k.name)] = UploadOf(u, k.list)
            /\ after.answer = "ok" => \A key \in made : b[key] = Absent
      BY <2>3 DEF Done, made
    <3>2. QED
      BY <2>2, <2>3, <3>1
  <2>4. CASE k.op = "AbortMultipartUpload"
    <3>1. Done(j, after, b) <=> \A key \in made : b[key] = Absent
      BY <2>4 DEF Done, made
    <3>2. QED
      BY <2>2, <2>4, <3>1
  <2>5. QED
    BY <1>1, <2>3, <2>4
<1>2. CASE k.op \notin {"CompleteMultipartUpload", "AbortMultipartUpload"}
  BY <1>2 DEF Done, CallFits
<1>3. QED
  BY <1>1, <1>2

\* The only request that is left to a call is the last one of its attempt.
LEMMA LastOfTodo ==
    ASSUME ObjectStorageAssumption, NEW j, NEW over, PendingInv(j, over), IsJob(j), j.answer = "pending",
           Tail(j.todo) = <<>>, NEW k, NEW op, NEW service, LeadsTo(j.todo, k, op, service)
    PROVE  Len(j.todo) = 1 /\ IsLast(Head(j.todo), k, op, service)
<1>1. j.todo \in Seq(RequestTypes) /\ j.todo # <<>> /\ Head(j.todo) = j.todo[1]
  BY DEF IsJob, PendingInv, TodoInv
<1>2. Len(Tail(j.todo)) = Len(j.todo) - 1 /\ Len(j.todo) \in Nat
  BY <1>1
<1>3. Len(Tail(j.todo)) = 0
  <2>1. Len(<<>>) = 0
    OBVIOUS
  <2>2. QED
    BY <2>1
<1>4. Len(j.todo) = 1
  BY <1>2, <1>3
<1>5. QED
  BY <1>1, <1>4 DEF LeadsTo

LEMMA AnsweredDone ==
    ASSUME ObjectStorageAssumption, ObjectIInv, WholeInv, CourseInv, NEW c \in Clients, Pending(c),
           Effect(job[c], Head(job[c].todo)), Allowed(Head(job[c].todo)),
           Head(job[c].todo).verb \notin {"stat", "fill"},
           Head(job[c].todo).verb = "sweep" => backend = "s3", Tail(job[c].todo) = <<>>,
           ~(job[c].call.op = "util.Copy" /\ job[c].op = "ReadFile"), NEW after
    PROVE  Done(job[c], after, bucket')
<1> DEFINE j == job[c]
           k == j.call
           r == Head(j.todo)
<1>1. /\ IsJob(j) /\ j.answer = "pending" /\ PendingInv(j, released) /\ WholeJob(j, bucket)
      /\ backend \in {"gcs", "s3"} /\ LeadsTo(j.todo, k, j.op, backend)
      /\ HasDone(j, j.todo, bucket)
      /\ Sends(r, k, j.op) /\ CallFits(k) /\ k \in Calls
      /\ \/ j.op = k.op /\ j.op # "util.Copy"
         \/ k.op = "util.Copy" /\ j.op \in {"Copy", "ReadFile", "Write"}
  BY PendingCourse
<1>2. bucket' = After(j, r) /\ r.verb \notin {"stat", "fill"} /\ (r.verb = "sweep" => backend = "s3") /\ Allowed(r)
  BY DEF Effect
<1>3. /\ j.op \in {"Copy", "Move"} /\ Copies(r, k) => bucket'[Object(k.to)] = j.held
      /\ j.op = "Move" /\ Deletes(r, k) =>
            bucket'[Object(k.to)] = j.held /\ bucket'[Object(k.name)] = Absent
      /\ k.op = "util.Copy" /\ j.op = "Write" => bucket'[Object(k.to)] = j.held
  BY <1>2, EffectKept
<1>4. IsLast(r, k, j.op, backend)
  BY <1>1, LastOfTodo
<1>5. k.op = "UploadMultipartChunk" => bucket'[Chunk(k.upload, k.chunk)] = PieceOf(k.upload, k.chunk)
  BY <1>1, EffectKeeps DEF ObjectIInv
<1>6. ~(k.op = "util.Copy" /\ j.op = "ReadFile")
  OBVIOUS
<1>7. k.op = "CompleteMultipartUpload" =>
         /\ Completes(k, j.todo, bucket) /\ Pieced
         /\ Allowed(r) /\ r.to = Object(k.name) => Content(j, r) = UploadOf(k.upload, k.list)
         /\ OnlyRemoves(Tail(j.todo)) => r.to \in {NoKey, Object(k.name)}
  <2>1. SUFFICES ASSUME k.op = "CompleteMultipartUpload"
                 PROVE  /\ Completes(k, j.todo, bucket) /\ Pieced
                        /\ Allowed(r) /\ r.to = Object(k.name) => Content(j, r) = UploadOf(k.upload, k.list)
                        /\ OnlyRemoves(Tail(j.todo)) => r.to \in {NoKey, Object(k.name)}
    OBVIOUS
  <2>2. j.op = "CompleteMultipartUpload" /\ Completes(k, j.todo, bucket) /\ Pieced
    BY <1>1, <2>1 DEF WholeJob, WholeInv
  <2>3. QED
    BY <1>1, <2>2, CompleteMakes
<1>8. OnlyRemoves(Tail(j.todo))
  BY DEF OnlyRemoves
<1> HIDE DEF j, r
<1>9. \A key \in Keys : /\ key = r.to => bucket'[key] = Content(j, r)
                        /\ key # r.to /\ key \in r.gone /\ r.verb # "sweep" => bucket'[key] = Absent
                        /\ key # r.to /\ key \in r.gone /\ (backend = "s3" => key[2] = None) => bucket'[key] = Absent
  BY <1>2, EffectIs
<1>10. \A n \in Names : Object(n) \in Keys /\ Object(n) # NoKey
  BY KeyParts DEF None
<1> HIDE DEF k
<1>11. k.op \in {"Write", "WriteFile"} => bucket'[Object(k.name)] = Whole(k.data)
  <2>1. SUFFICES ASSUME k.op \in {"Write", "WriteFile"}
                 PROVE  bucket'[Object(k.name)] = Whole(k.data)
    OBVIOUS
  <2>2. j.op = k.op /\ Puts(r, Object(k.name)) /\ j.read = 0 /\ j.opened \in WholeContents
    BY <1>1, <2>1 DEF Sends, WholeJob
  <2>3. r.verb = "put" /\ r.to = Object(k.name) /\ Object(k.name) \in Keys
    BY <1>1, <1>10, <2>1, <2>2 DEF Puts, CallFits
  <2>4. Content(j, r) = Whole(k.data)
    BY <2>1, <2>2, <2>3, PutsWhole DEF k
  <2>5. QED
    BY <1>9, <2>3, <2>4
<1>12. k.op = "DeleteFile" => bucket'[Object(k.name)] = Absent
  <2>1. SUFFICES ASSUME k.op = "DeleteFile"
                 PROVE  bucket'[Object(k.name)] = Absent
    OBVIOUS
  <2>2. /\ r.verb = "delete" /\ r.to = NoKey /\ r.gone = {Object(k.name)}
        /\ Object(k.name) \in Keys /\ Object(k.name) # NoKey
    BY <1>1, <1>10, <2>1 DEF Sends, Deletes, CallFits
  <2>3. QED
    BY <1>9, <2>2
<1>13. k.op = "DeleteDir" =>
          \A key \in Under(k.name) : backend = "gcs" \/ key[2] = None => bucket'[key] = Absent
  <2>1. SUFFICES ASSUME k.op = "DeleteDir", NEW key \in Under(k.name), backend = "gcs" \/ key[2] = None
                 PROVE  bucket'[key] = Absent
    OBVIOUS
  <2>2. r.verb = "sweep" /\ r.to = NoKey /\ r.gone = Under(k.name) /\ backend = "s3"
    BY <1>1, <1>2, <1>4, <2>1 DEF IsLast
  <2>3. key \in Keys /\ key # NoKey /\ key \in r.gone /\ key[2] = None
    <3>1. NoKey \notin Keys
      BY DEF NoKey, Keys, Object, Chunk, Group, None
    <3>2. QED
      BY <2>1, <2>2, <3>1 DEF Under
  <2>4. QED
    BY <1>9, <2>2, <2>3
<1>14. k.op # "DownloadFile"
  BY <1>1, <1>2, <1>4 DEF IsLast, Fills
<1>15. k.op \in {"Copy", "util.Copy", "Move"} => bucket'[Object(k.to)] = j.held
  <2>1. j.op = "Copy" => Copies(r, k)
    BY <1>4 DEF IsLast
  <2>2. j.op = "Move" => Deletes(r, k)
    BY <1>4 DEF IsLast
  <2>3. QED
    BY <1>1, <1>3, <1>6, <2>1, <2>2 DEF j, k, r
<1>16. k.op = "Move" => bucket'[Object(k.name)] = Absent
  <2>1. j.op = "Move" => Deletes(r, k)
    BY <1>4 DEF IsLast
  <2>2. QED
    BY <1>1, <1>3, <2>1 DEF j, k, r
<1>17. k.op \in {"CompleteMultipartUpload", "AbortMultipartUpload"} =>
          \A key \in PartsOf(k.upload) : bucket'[key] = Absent
  <2>1. SUFFICES ASSUME k.op \in {"CompleteMultipartUpload", "AbortMultipartUpload"},
                        NEW key \in PartsOf(k.upload)
                 PROVE  bucket'[key] = Absent
    OBVIOUS
  <2>2. r.gone = PartsOf(k.upload) /\ r.verb \in {"sweep", "drop", "finish"} /\ r.verb # "sweep"
    BY <1>1, <1>2, <1>4, <2>1 DEF IsLast
  <2>3. k.upload \in Uploads /\ k.name \in Names
    BY <1>1, <2>1 DEF CallFits
  <2>4. key \in Keys /\ key # Object(k.name) /\ key # NoKey
    <3>1. NoKey \notin Keys
      BY DEF NoKey, Keys, Object, Chunk, Group, None
    <3>2. QED
      BY <2>1, <2>3, <3>1, MadeOfUpload
  <2>5. r.to \in {NoKey, Object(k.name)}
    <3>1. CASE k.op = "CompleteMultipartUpload"
      BY <1>7, <1>8, <3>1 DEF j, k, r
    <3>2. CASE k.op = "AbortMultipartUpload"
      BY <1>1, <1>4, <2>2, <3>2 DEF IsLast, Sends
    <3>3. QED
      BY <2>1, <3>1, <3>2
  <2>6. QED
    BY <1>9, <2>1, <2>2, <2>4, <2>5
<1>18. k.op = "CompleteMultipartUpload" => bucket'[Object(k.name)] = UploadOf(k.upload, k.list)
  <2>1. SUFFICES ASSUME k.op = "CompleteMultipartUpload"
                 PROVE  bucket'[Object(k.name)] = UploadOf(k.upload, k.list)
    OBVIOUS
  <2>2. r.to # NoKey
    <3>1. j.op = "CompleteMultipartUpload"
      BY <1>1, <2>1
    <3>2. \/ backend = "gcs" /\ r.verb = "sweep"
          \/ backend = "s3" /\ r.verb = "drop"
          \/ backend = "s3" /\ r.verb = "finish" /\ r.to # NoKey
      BY <1>4, <3>1 DEF IsLast
    <3>3. r.verb \in {"compose", "finish", "delete", "sweep"}
      BY <1>1, <3>1 DEF Sends
    <3>4. QED
      BY <1>2, <3>2, <3>3
  <2>3. r.to = Object(k.name) /\ Content(j, r) = UploadOf(k.upload, k.list)
    BY <1>2, <1>7, <1>8, <2>1, <2>2 DEF j, k, r
  <2>4. Object(k.name) \in Keys
    BY <1>1, <1>10, <2>1 DEF CallFits
  <2>5. QED
    BY <1>9, <2>3, <2>4
<1>19. QED
  BY <1>1, <1>5, <1>11, <1>12, <1>13, <1>14, <1>15, <1>16, <1>17, <1>18, DoneIf DEF j, k, r

-----------------------------------------------------------------------------
(* Every step of the uploads keeps the invariant *)

\* What a step tells the caller d; NilMeansDone says so of every client.
Tells(d) == Pending(d) =>
    /\ job'[d].answer \in {"ok", "logged"} => Done(job[d], job'[d], bucket')
    /\ job[d].op = "Move" /\ job[d].held # Absent =>
          job[d].held \in {bucket'[Object(job[d].call.name)], bucket'[Object(job[d].call.to)]}

\* What the calls of others rely on is not what a call k may write.
LEMMA OthersCourse ==
    ASSUME ObjectStorageAssumption, ObjectIInv, WholeInv, CourseInv, NEW d \in Clients, Pending(d),
           NEW k, Apart(k, job[d].call), \A key \in Keys \ Writes(k) : bucket'[key] = bucket[key]
    PROVE  OnCourse(job[d], bucket', backend)
<1> DEFINE j == job[d]
           l == j.call
<1>1. /\ OnCourse(j, bucket, backend) /\ LeadsTo(j.todo, l, j.op, backend) /\ Kept(l, j.held, bucket)
      /\ HasDone(j, j.todo, bucket) /\ CallFits(l)
      /\ \/ j.op = l.op /\ j.op # "util.Copy"
         \/ l.op = "util.Copy" /\ j.op \in {"Copy", "ReadFile", "Write"}
  BY PendingCourse DEF CourseInv
<1>2. \A key \in Keys : key \in Writes(l) \cup Reads(l) => bucket'[key] = bucket[key]
  BY DEF Apart
<1>3. \A n \in Names : Object(n) \in Keys
  BY KeyParts
<1> HIDE DEF j
<1>4. l.op \in {"Copy", "Move", "util.Copy", "DownloadFile"} => bucket'[Object(l.name)] = bucket[Object(l.name)]
  <2>1. SUFFICES ASSUME l.op \in {"Copy", "Move", "util.Copy", "DownloadFile"}
                 PROVE  bucket'[Object(l.name)] = bucket[Object(l.name)]
    OBVIOUS
  <2>2. Object(l.name) \in Keys /\ Object(l.name) \in Reads(l)
    BY <1>1, <1>3, <2>1 DEF CallFits, Reads
  <2>3. QED
    BY <1>2, <2>2
<1>5. l.op = "Move" => bucket'[Object(l.to)] = bucket[Object(l.to)]
  <2>1. SUFFICES ASSUME l.op = "Move"
                 PROVE  bucket'[Object(l.to)] = bucket[Object(l.to)]
    OBVIOUS
  <2>2. Object(l.to) \in Keys /\ Object(l.to) \in Writes(l)
    BY <1>1, <1>3, <2>1 DEF CallFits, Writes
  <2>3. QED
    BY <1>2, <2>2
<1>6. l.op = "CompleteMultipartUpload" => bucket'[Object(l.name)] = bucket[Object(l.name)]
  <2>1. SUFFICES ASSUME l.op = "CompleteMultipartUpload"
                 PROVE  bucket'[Object(l.name)] = bucket[Object(l.name)]
    OBVIOUS
  <2>2. Object(l.name) \in Keys /\ Object(l.name) \in Writes(l)
    BY <1>1, <1>3, <2>1 DEF CallFits, Writes
  <2>3. QED
    BY <1>2, <2>2
<1>7. Kept(l, j.held, bucket')
  BY <1>1, <1>4, <1>5 DEF Kept
<1>8. HasDone(j, j.todo, bucket')
  BY <1>1, <1>5, <1>6 DEF HasDone
<1>9. QED
  BY <1>1, <1>7, <1>8 DEF OnCourse, j

LEMMA JobCourse ==
    ASSUME ObjectStorageAssumption, ObjectIInv, WholeInv, CourseInv, NEW c \in Clients, NEW k, NEW after,
           job' = [job EXCEPT ![c] = after], backend' = backend,
           \A key \in Keys \ Writes(k) : bucket'[key] = bucket[key],
           \A d \in Clients \ {c} : Pending(d) => Apart(k, job[d].call),
           after.answer = "pending" => OnCourse(after, bucket', backend),
           Pending(c) => /\ Kept(job[c].call, job[c].held, bucket')
                         /\ after.answer \in {"ok", "logged"} => Done(job[c], after, bucket')
    PROVE  CourseInv' /\ \A d \in Clients : Tells(d)
<1>1. \A d \in Clients : job'[d] = IF d = c THEN after ELSE job[d]
  BY DEF ObjectIInv, ObjectTypeOK
<1>2. ASSUME NEW d \in Clients \ {c}, Pending(d)
      PROVE  OnCourse(job[d], bucket', backend)
  BY <1>2, OthersCourse
<1>3. ASSUME NEW d \in Clients, Pending(d)'
      PROVE  OnCourse(job'[d], bucket', backend')
  <2>1. job'[d].answer = "pending"
    BY <1>3 DEF Pending
  <2>2. CASE d = c
    BY <1>1, <2>1, <2>2
  <2>3. CASE d # c
    BY <1>1, <1>2, <2>1, <2>3 DEF Pending
  <2>4. QED
    BY <2>2, <2>3
<1>4. backend' \in {"gcs", "s3"}
  BY DEF CourseInv
<1>5. CourseInv'
  BY <1>3, <1>4, Zenon DEF CourseInv
<1>6. ASSUME NEW d \in Clients, Pending(d)
      PROVE  /\ job'[d].answer \in {"ok", "logged"} => Done(job[d], job'[d], bucket')
             /\ job[d].op = "Move" /\ job[d].held # Absent =>
                   job[d].held \in {bucket'[Object(job[d].call.name)], bucket'[Object(job[d].call.to)]}
  <2>1. Kept(job[d].call, job[d].held, bucket')
    <3>1. CASE d = c
      BY <1>6, <3>1
    <3>2. CASE d # c
      BY <1>2, <1>6, <3>2 DEF OnCourse
    <3>3. QED
      BY <3>1, <3>2
  <2>2. job[d].op = "Move" => job[d].call.op = "Move"
    BY <1>6, PendingCourse
  <2>3. job'[d].answer \in {"ok", "logged"} => Done(job[d], job'[d], bucket')
    <3>1. CASE d = c
      BY <1>1, <1>6, <3>1
    <3>2. CASE d # c
      BY <1>1, <1>6, <3>2 DEF Pending
    <3>3. QED
      BY <3>1, <3>2
  <2>4. QED
    BY <2>1, <2>2, <2>3 DEF Kept
<1>7. QED
  BY <1>5, <1>6 DEF Tells

\* A step of a call that leaves the bucket alone.
LEMMA QuietCourse ==
    ASSUME ObjectStorageAssumption, ObjectIInv, WholeInv, CourseInv, NEW c \in Clients, Pending(c), NEW after,
           job' = [job EXCEPT ![c] = after], backend' = backend, bucket' = bucket,
           after.answer = "pending" => OnCourse(after, bucket, backend),
           after.answer \in {"ok", "logged"} => Done(job[c], after, bucket)
    PROVE  CourseInv' /\ \A d \in Clients : Tells(d)
<1> DEFINE k == job[c].call
<1>1. \A key \in Keys \ Writes(k) : bucket'[key] = bucket[key]
  OBVIOUS
<1>2. \A d \in Clients \ {c} : Pending(d) => Apart(k, job[d].call)
  BY OthersApart
<1>3. after.answer = "pending" => OnCourse(after, bucket', backend)
  OBVIOUS
<1>4. Kept(job[c].call, job[c].held, bucket')
  BY PendingCourse
<1>5. after.answer \in {"ok", "logged"} => Done(job[c], after, bucket')
  OBVIOUS
<1> HIDE DEF k
<1>6. QED
  BY <1>1, <1>2, <1>3, <1>4, <1>5, JobCourse

LEMMA SizedCourse ==
    ASSUME ObjectStorageAssumption, ObjectIInv, WholeInv, CourseInv, NEW c \in Clients, Sized(c)
    PROVE  CourseInv' /\ \A d \in Clients : Tells(d)
<1> DEFINE j == job[c]
           large == [j EXCEPT !.todo = <<[j.todo[2] EXCEPT !.verb = "copyLarge"]>> \o SubSeq(@, 3, Len(@))]
<1>1. /\ Pending(c) /\ Head(j.todo).verb = "stat" /\ bucket' = bucket /\ backend' = backend
      /\ \E after \in (IF IsLarge(j.held) THEN {large} ELSE AfterError(j, j.err)) :
            job' = [job EXCEPT ![c] = after]
  BY DEF Sized
<1>2. /\ IsJob(j) /\ j.answer = "pending" /\ PendingInv(j, released) /\ backend \in {"gcs", "s3"}
      /\ LeadsTo(j.todo, j.call, j.op, backend) /\ Kept(j.call, j.held, bucket) /\ HasDone(j, j.todo, bucket)
  BY <1>1, PendingCourse
<1>3. OnCourse(j, bucket, backend)
  BY <1>2 DEF OnCourse
<1>4. OnCourse(large, bucket, backend) /\ large.answer = "pending"
  BY <1>1, <1>2, <1>3, LargeCourse
<1>5. OnRoute(j, bucket)
  BY <1>2 DEF OnRoute, PendingInv, HasDone
<1> HIDE DEF large
<1>6. PICK after : /\ job' = [job EXCEPT ![c] = after]
                   /\ after = large \/ after \in AfterError(j, j.err)
  BY <1>1
<1>7. /\ after.answer = "pending" => OnCourse(after, bucket, backend)
      /\ after.answer \notin {"ok", "logged"}
  <2>1. CASE after = large
    BY <1>4, <2>1
  <2>2. CASE after \in AfterError(j, j.err)
    BY <1>2, <1>5, <2>2, AfterErrorCourse
  <2>3. QED
    BY <1>6, <2>1, <2>2
<1>8. QED
  BY <1>1, <1>6, <1>7, QuietCourse

\* The object a completion has made stays while it removes the chunks.
LEMMA ObjectStays ==
    ASSUME ObjectStorageAssumption, ObjectIInv, WholeInv, CourseInv, NEW c \in Clients, Pending(c),
           job[c].op = "CompleteMultipartUpload", Head(job[c].todo).to = NoKey,
           \/ bucket' = bucket
           \/ bucket' \in AfterPart(Head(job[c].todo))
           \/ bucket' = After(job[c], Head(job[c].todo))
    PROVE  /\ job[c].call.op = "CompleteMultipartUpload"
           /\ bucket'[Object(job[c].call.name)] = UploadOf(job[c].call.upload, job[c].call.list)
<1> DEFINE j == job[c]
           k == j.call
           r == Head(j.todo)
<1>1. /\ IsJob(j) /\ j.answer = "pending" /\ PendingInv(j, released) /\ WholeJob(j, bucket)
      /\ HasDone(j, j.todo, bucket) /\ CallFits(k)
      /\ \/ j.op = k.op
         \/ k.op = "util.Copy" /\ j.op \in {"Copy", "ReadFile", "Write"}
  BY PendingCourse
<1>2. k.op = "CompleteMultipartUpload" /\ k.upload \in Uploads /\ k.name \in Names
  BY <1>1 DEF CallFits
<1>3. Completes(k, j.todo, bucket) /\ Pieced
  BY <1>1 DEF WholeJob, WholeInv
<1>4. OnlyRemoves(j.todo)
  BY <1>1, <1>3, CompleteMakes
<1>5. bucket[Object(k.name)] = UploadOf(k.upload, k.list)
  BY <1>1, <1>4 DEF HasDone
<1>6. r.gone \subseteq PartsOf(k.upload)
  <2>1. 1 \in DOMAIN j.todo /\ r = j.todo[1]
    BY <1>1 DEF IsJob, PendingInv, TodoInv
  <2>2. QED
    BY <1>1, <2>1 DEF PendingInv, TodoInv, StoresFirst
<1>7. Object(k.name) \in Keys /\ Object(k.name) # r.to /\ Object(k.name) \notin r.gone
  <2>1. Object(k.name) # NoKey
    BY DEF Object, NoKey, None
  <2>2. QED
    BY <1>2, <1>6, <2>1, KeyParts, MadeOfUpload
<1> HIDE DEF j, r
<1>8. bucket'[Object(k.name)] = bucket[Object(k.name)]
  <2> DEFINE key == Object(k.name)
  <2>1. key \in Keys /\ key # r.to /\ key \notin r.gone
    BY <1>7
  <2> HIDE DEF key
  <2>2. CASE bucket' \in AfterPart(r)
    BY <2>1, <2>2, PartIs DEF key
  <2>3. CASE bucket' = After(j, r)
    BY <2>1, <2>3, EffectIs DEF key
  <2>4. QED
    BY <2>2, <2>3 DEF j, r
<1>9. QED
  BY <1>2, <1>5, <1>8 DEF j

\* The last but one request of an attempt.
LEMMA LastButOneOfTodo ==
    ASSUME ObjectStorageAssumption, NEW j, NEW over, PendingInv(j, over), IsJob(j), j.answer = "pending",
           Tail(j.todo) # <<>>, Len(Tail(j.todo)) = 1, NEW k, NEW op, NEW service,
           LeadsTo(j.todo, k, op, service)
    PROVE  IsLastButOne(Head(j.todo), k, op)
<1>1. j.todo \in Seq(RequestTypes) /\ j.todo # <<>> /\ Head(j.todo) = j.todo[1]
  BY DEF IsJob, PendingInv, TodoInv
<1>2. Len(Tail(j.todo)) = Len(j.todo) - 1 /\ Len(j.todo) \in Nat
  BY <1>1
<1>3. Len(j.todo) > 1 /\ Len(j.todo) - 1 = 1
  BY <1>2
<1>4. QED
  BY <1>1, <1>3 DEF LeadsTo

LEMMA AnsweredCourse ==
    ASSUME ObjectStorageAssumption, ObjectIInv, WholeInv, CourseInv, NEW c \in Clients, Answered(c)
    PROVE  CourseInv' /\ \A d \in Clients : Tells(d)
<1> DEFINE j == job[c]
           k == j.call
           r == Head(j.todo)
           read == [j EXCEPT !.opened = IF r.verb = "get" THEN Content(j, r) ELSE @,
                             !.read = IF r.verb = "put" THEN Len(Source(j)) ELSE @]
           after == Proceed(read)
<1>1. /\ Pending(c) /\ Allowed(r) /\ Effect(j, r) /\ bucket' = After(j, r)
      /\ job' = [job EXCEPT ![c] = after] /\ backend' = backend
      /\ r.verb \notin {"stat", "fill"} /\ (r.verb = "sweep" => backend = "s3")
  BY DEF Answered, Effect
<1>2. /\ IsJob(j) /\ j.answer = "pending" /\ PendingInv(j, released) /\ WholeJob(j, bucket)
      /\ backend \in {"gcs", "s3"}
      /\ LeadsTo(j.todo, k, j.op, backend) /\ HasDone(j, j.todo, bucket)
      /\ Sends(r, k, j.op) /\ CallFits(k)
      /\ \/ j.op = k.op /\ j.op # "util.Copy"
         \/ k.op = "util.Copy" /\ j.op \in {"Copy", "ReadFile", "Write"}
  BY <1>1, PendingCourse
<1>3. \A key \in Keys \ Writes(k) : bucket'[key] = bucket[key]
  BY <1>1, EffectWhole
<1>4. /\ Kept(k, j.held, bucket')
      /\ j.op \in {"Copy", "Move"} /\ Copies(r, k) => bucket'[Object(k.to)] = j.held
      /\ Gets(r, k) /\ k.op \in {"util.Copy", "DownloadFile"} => Content(j, r) = j.held /\ j.held # Absent
  BY <1>1, EffectKept
<1>5. \A d \in Clients \ {c} : Pending(d) => Apart(k, job[d].call)
  BY <1>1, OthersApart
<1>6. /\ IsJob(read) /\ read.call = k /\ read.op = j.op /\ read.todo = j.todo /\ read.answer = "pending"
      /\ read.held = j.held /\ read.opened = IF r.verb = "get" THEN Content(j, r) ELSE j.opened
  BY <1>2 DEF IsJob
<1> HIDE DEF read
<1>7. k.op = "util.Copy" /\ j.op = "ReadFile" => read.opened = read.held
  <2>1. SUFFICES ASSUME k.op = "util.Copy", j.op = "ReadFile"
                 PROVE  read.opened = read.held
    OBVIOUS
  <2>2. Gets(r, k)
    BY <1>2, <2>1 DEF Sends
  <2>3. r.verb = "get"
    BY <2>2 DEF Gets
  <2>4. QED
    BY <1>4, <1>6, <2>1, <2>2, <2>3
<1>8. ASSUME Tail(j.todo) # <<>>
      PROVE  HasDone(read, Tail(j.todo), bucket')
  <2>0. Len(Tail(j.todo)) = 1 => IsLastButOne(r, k, j.op)
    BY <1>2, <1>8, LastButOneOfTodo
  <2>1. ASSUME j.op = "Move", Len(Tail(j.todo)) = 1
        PROVE  bucket'[Object(k.to)] = j.held
    <3>1. Copies(r, k)
      BY <2>0, <2>1 DEF IsLastButOne
    <3>2. QED
      BY <1>4, <2>1, <3>1
  <2>2. ASSUME j.op = "DownloadFile", Len(Tail(j.todo)) = 1
        PROVE  read.opened = j.held /\ j.held # Absent
    <3>1. Gets(r, k) /\ k.op = "DownloadFile"
      BY <1>2, <2>0, <2>2 DEF IsLastButOne
    <3>2. r.verb = "get"
      BY <3>1 DEF Gets
    <3>3. QED
      BY <1>4, <1>6, <3>1, <3>2
  <2>3. ASSUME k.op = "util.Copy", j.op = "Write"
        PROVE  read.opened = j.held
    <3>1. j.opened = j.held
      BY <1>2, <2>3 DEF HasDone
    <3>2. r.verb = "put"
      BY <1>2, <2>3 DEF Sends, Puts
    <3>3. QED
      BY <1>6, <3>1, <3>2
  <2>4. ASSUME j.op = "CompleteMultipartUpload", OnlyRemoves(Tail(j.todo))
        PROVE  bucket'[Object(k.name)] = UploadOf(k.upload, k.list)
    <3>1. Completes(k, j.todo, bucket) /\ Pieced
      BY <1>2, <2>4 DEF WholeJob, WholeInv
    <3>2. /\ r.to \in {NoKey, Object(k.name)}
          /\ r.to = Object(k.name) => Content(j, r) = UploadOf(k.upload, k.list)
      BY <1>1, <1>2, <2>4, <3>1, CompleteMakes
    <3>3. CASE r.to = NoKey
      BY <1>1, <2>4, <3>3, ObjectStays
    <3>4. CASE r.to = Object(k.name)
      <4>1. Object(k.name) \in Keys
        BY <1>2, <2>4, KeyParts DEF CallFits
      <4> HIDE DEF j, r, k
      <4>2. bucket'[r.to] = Content(j, r)
        BY <1>1, <3>4, <4>1, EffectIs
      <4>3. QED
        BY <3>2, <3>4, <4>2
    <3>5. QED
      BY <3>2, <3>3, <3>4
  <2> HIDE DEF j, k, r
  <2>5. QED
    BY <1>6, <2>1, <2>2, <2>3, <2>4 DEF HasDone
<1>9. /\ Proceed(read).answer = "pending" => OnCourse(Proceed(read), bucket', backend)
      /\ Proceed(read).answer # "pending" =>
            /\ Tail(j.todo) = <<>> /\ ~(k.op = "util.Copy" /\ j.op = "ReadFile")
            /\ Proceed(read) = Ended(read, "ok")
  <2>1. IF Tail(j.todo) = <<>> THEN k.op = "util.Copy" /\ j.op = "ReadFile" => read.opened = read.held
        ELSE HasDone(read, Tail(j.todo), bucket')
    BY <1>7, <1>8
  <2>2. QED
    BY <1>2, <1>4, <1>6, <2>1, ProceedCourse
<1>10. after.answer \in {"ok", "logged"} => Done(j, after, bucket')
  <2>1. SUFFICES ASSUME after.answer \in {"ok", "logged"}
                 PROVE  Done(j, after, bucket')
    OBVIOUS
  <2>2. Tail(j.todo) = <<>> /\ ~(k.op = "util.Copy" /\ j.op = "ReadFile")
    BY <1>9, <2>1
  <2> HIDE DEF after
  <2>3. QED
    BY <1>1, <2>2, AnsweredDone
<1> HIDE DEF k, after
<1>11. after.answer = "pending" => OnCourse(after, bucket', backend)
  BY <1>9 DEF after
<1>12. Kept(j.call, j.held, bucket')
  BY <1>4 DEF k
<1>13. QED
  BY <1>1, <1>3, <1>5, <1>10, <1>11, <1>12, JobCourse

LEMMA SweepsOneCourse ==
    ASSUME ObjectStorageAssumption, ObjectIInv, WholeInv, CourseInv, NEW c \in Clients, SweepsOne(c)
    PROVE  CourseInv' /\ \A d \in Clients : Tells(d)
<1> DEFINE j == job[c]
           k == j.call
           r == Head(j.todo)
           left == Listed(r.gone)
           key == CHOOSE x \in left : TRUE
           next == [j EXCEPT !.todo = <<[Delete(key) EXCEPT !.soft = r.soft]>> \o @]
           after == IF left = {} THEN Proceed(j) ELSE next
<1>1. /\ Pending(c) /\ r.verb = "sweep" /\ backend = "gcs"
      /\ job' = [job EXCEPT ![c] = after] /\ bucket' = bucket /\ backend' = backend
  BY DEF SweepsOne
<1>2. /\ IsJob(j) /\ j.answer = "pending" /\ PendingInv(j, released) /\ WholeJob(j, bucket)
      /\ LeadsTo(j.todo, k, j.op, backend) /\ Kept(k, j.held, bucket) /\ HasDone(j, j.todo, bucket)
      /\ Sends(r, k, j.op) /\ CallFits(k)
      /\ \/ j.op = k.op /\ j.op # "util.Copy"
         \/ k.op = "util.Copy" /\ j.op \in {"Copy", "ReadFile", "Write"}
  BY <1>1, PendingCourse
<1>3. OnCourse(j, bucket, backend) /\ backend \in {"gcs", "s3"}
  BY <1>1, <1>2 DEF OnCourse
<1>4. OnCourse(next, bucket, backend) /\ next.answer = "pending"
  <2> HIDE DEF key
  <2>1. QED
    BY <1>1, <1>2, <1>3, SweepCourse
<1>5. j.op = k.op /\ k.op \in {"DeleteDir", "AbortMultipartUpload", "CompleteMultipartUpload"}
  <2> HIDE DEF j, k, r
  <2>1. QED
    BY <1>1, <1>2 DEF Sends, CallFits, Deletes, Puts, Gets, Fills, Copies, Sizes
<1>6. k.op = "CompleteMultipartUpload" => bucket[Object(k.name)] = UploadOf(k.upload, k.list)
  <2>1. SUFFICES ASSUME k.op = "CompleteMultipartUpload"
                 PROVE  bucket[Object(k.name)] = UploadOf(k.upload, k.list)
    OBVIOUS
  <2>2. Completes(k, j.todo, bucket)
    BY <1>2, <1>5, <2>1 DEF WholeJob
  <2>3. OnlyRemoves(j.todo)
    BY <1>1, <1>2, <1>5, <2>1, <2>2, SweepRemoves
  <2>4. QED
    BY <1>2, <1>5, <2>1, <2>3 DEF HasDone
<1>7. /\ Proceed(j).answer = "pending" => OnCourse(Proceed(j), bucket, backend)
      /\ Proceed(j).answer # "pending" => Tail(j.todo) = <<>>
  <2>1. ~(k.op = "util.Copy" /\ j.op = "ReadFile")
    BY <1>5
  <2>2. Tail(j.todo) # <<>> => HasDone(j, Tail(j.todo), bucket)
    BY <1>5, <1>6 DEF HasDone
  <2>3. IF Tail(j.todo) = <<>> THEN k.op = "util.Copy" /\ j.op = "ReadFile" => j.opened = j.held
        ELSE HasDone(j, Tail(j.todo), bucket)
    BY <2>1, <2>2
  <2>4. QED
    BY <1>2, <1>3, <2>3, ProceedCourse
<1>8. ASSUME left = {}, Tail(j.todo) = <<>>, NEW over
      PROVE  Done(j, over, bucket)
  <2>1. IsLast(r, k, j.op, backend)
    BY <1>2, <1>8, LastOfTodo
  <2>2. \A x \in r.gone : bucket[x] = Absent
    BY <1>1, <1>8 DEF Listed
  <2>3. k.op = "DeleteDir" => \A x \in Under(k.name) : backend = "gcs" \/ x[2] = None => bucket[x] = Absent
    BY <1>5, <2>1, <2>2 DEF IsLast
  <2>4. (k.op = "CompleteMultipartUpload" /\ over.answer = "ok") \/ k.op = "AbortMultipartUpload"
           => \A x \in PartsOf(k.upload) : bucket[x] = Absent
    BY <1>5, <2>1, <2>2 DEF IsLast
  <2> HIDE DEF j
  <2>5. QED
    BY <1>2, <1>5, <1>6, <2>3, <2>4, DoneIf
<1> HIDE DEF next, left
<1>9. after.answer = "pending" => OnCourse(after, bucket, backend)
  BY <1>4, <1>7
<1>10. after.answer \in {"ok", "logged"} => Done(j, after, bucket)
  BY <1>4, <1>7, <1>8
<1> HIDE DEF after
<1>11. QED
  BY <1>1, <1>9, <1>10, QuietCourse

LEMMA FillCourse ==
    ASSUME ObjectStorageAssumption, ObjectIInv, WholeInv, CourseInv, NEW c \in Clients, Fill(c)
    PROVE  CourseInv' /\ \A d \in Clients : Tells(d)
<1> DEFINE j == job[c]
           k == j.call
           r == Head(j.todo)
           With(f) == [j EXCEPT !.file = f]
<1>1. /\ Pending(c) /\ r.verb = "fill" /\ bucket' = bucket /\ backend' = backend
      /\ \/ job' = [job EXCEPT ![c] = Proceed(With(j.opened))]
         \/ \E f, e : \E after \in AfterError(With(f), e) : job' = [job EXCEPT ![c] = after]
  BY DEF Fill
<1>2. /\ IsJob(j) /\ j.answer = "pending" /\ PendingInv(j, released) /\ backend \in {"gcs", "s3"}
      /\ LeadsTo(j.todo, k, j.op, backend) /\ Kept(k, j.held, bucket) /\ HasDone(j, j.todo, bucket)
      /\ Sends(r, k, j.op) /\ CallFits(k)
      /\ \/ j.op = k.op /\ j.op # "util.Copy"
         \/ k.op = "util.Copy" /\ j.op \in {"Copy", "ReadFile", "Write"}
  BY <1>1, PendingCourse
<1>3. j.op = "DownloadFile" /\ k.op = "DownloadFile"
  <2> HIDE DEF j, k, r
  <2>1. QED
    BY <1>1, <1>2 DEF Sends, CallFits, Deletes, Puts, Gets, Copies, Sizes
<1>4. \A f : /\ IsJob(With(f)) /\ With(f).call = k /\ With(f).op = j.op /\ With(f).todo = j.todo
             /\ With(f).answer = j.answer /\ With(f).opened = j.opened /\ With(f).held = j.held
             /\ With(f).file = f
  BY <1>2 DEF IsJob
<1> HIDE DEF With
<1>5. CASE job' = [job EXCEPT ![c] = Proceed(With(j.opened))]
  <2> DEFINE went == With(j.opened)
             after == Proceed(went)
  <2>1. /\ IsJob(went) /\ went.call = k /\ went.op = j.op /\ went.todo = j.todo /\ went.answer = "pending"
        /\ went.opened = j.opened /\ went.held = j.held /\ went.file = j.opened
    BY <1>2, <1>4
  <2> HIDE DEF went
  <2>2. Tail(j.todo) # <<>> => HasDone(went, Tail(j.todo), bucket)
    <3>1. SUFFICES ASSUME Tail(j.todo) # <<>>, Len(Tail(j.todo)) = 1
                   PROVE  FALSE
      BY <1>3, <2>1 DEF HasDone
    <3>2. IsLastButOne(r, k, j.op)
      BY <1>2, <3>1, LastButOneOfTodo
    <3>3. QED
      BY <1>1, <1>3, <3>2 DEF IsLastButOne, Gets
  <2>3. /\ after.answer = "pending" => OnCourse(after, bucket, backend)
        /\ after.answer # "pending" => Tail(j.todo) = <<>> /\ after = Ended(went, "ok")
    <3>1. IF Tail(j.todo) = <<>> THEN k.op = "util.Copy" /\ j.op = "ReadFile" => went.opened = went.held
          ELSE HasDone(went, Tail(j.todo), bucket)
      BY <1>3, <2>2
    <3>2. QED
      BY <1>2, <2>1, <3>1, ProceedCourse
  <2>4. after.answer \in {"ok", "logged"} => Done(j, after, bucket)
    <3>1. SUFFICES ASSUME after.answer \in {"ok", "logged"}
                   PROVE  Done(j, after, bucket)
      OBVIOUS
    <3>2. Tail(j.todo) = <<>> /\ after = Ended(went, "ok")
      BY <2>3, <3>1
    <3>3. Len(j.todo) = 1
      BY <1>2, <3>2, LastOfTodo
    <3>4. j.opened = j.held /\ j.held # Absent
      BY <1>2, <1>3, <3>3 DEF HasDone
    <3>5. after.file = j.held
      BY <2>1, <3>2, <3>4 DEF Ended, NoJob
    <3> HIDE DEF j, after
    <3>6. QED
      BY <1>2, <1>3, <3>4, <3>5, DoneIf
  <2>5. job' = [job EXCEPT ![c] = after]
    BY <1>5 DEF went
  <2> HIDE DEF after
  <2>6. QED
    BY <1>1, <2>3, <2>4, <2>5, QuietCourse
<1>6. CASE \E f, e : \E after \in AfterError(With(f), e) : job' = [job EXCEPT ![c] = after]
  <2>1. PICK f, e : \E after \in AfterError(With(f), e) : job' = [job EXCEPT ![c] = after]
    BY <1>6
  <2>2. PICK after \in AfterError(With(f), e) : job' = [job EXCEPT ![c] = after]
    BY <2>1
  <2> DEFINE went == With(f)
  <2>3. /\ OnRoute(went, bucket) /\ went.answer = "pending" /\ after \in AfterError(went, e)
    BY <1>2, <1>3, <1>4, <2>2 DEF OnRoute, PendingInv, OpFits
  <2> HIDE DEF went
  <2>4. /\ after.answer = "pending" => OnCourse(after, bucket, backend)
        /\ after.answer \notin {"ok", "logged"}
    BY <1>2, <2>3, AfterErrorCourse
  <2>5. QED
    BY <1>1, <2>2, <2>4, QuietCourse
<1>7. QED
  BY <1>1, <1>5, <1>6

LEMMA FailsCourse ==
    ASSUME ObjectStorageAssumption, ObjectIInv, WholeInv, CourseInv, NEW c \in Clients, Fails(c)
    PROVE  CourseInv' /\ \A d \in Clients : Tells(d)
<1> DEFINE j == job[c]
           k == j.call
           r == Head(j.todo)
           With(n) == [j EXCEPT !.read = n]
           Takes == \/ bucket' = bucket
                    \/ bucket' \in AfterPart(r)
                    \/ Allowed(r) /\ bucket' = After(j, r)
<1>1. Pending(c) /\ backend' = backend
  BY DEF Fails
<1>2. PICK e, m : Takes /\ \E after \in Failed(With(m), e) : job' = [job EXCEPT ![c] = after]
  BY DEF Fails, Effect
<1>3. PICK after \in Failed(With(m), e) : job' = [job EXCEPT ![c] = after]
  BY <1>2
<1>4. /\ IsJob(j) /\ j.answer = "pending" /\ PendingInv(j, released) /\ backend \in {"gcs", "s3"}
      /\ LeadsTo(j.todo, k, j.op, backend) /\ HasDone(j, j.todo, bucket)
      /\ Sends(r, k, j.op) /\ CallFits(k)
  BY <1>1, PendingCourse
<1>5. Kept(k, j.held, bucket')
  <2>1. CASE bucket' = bucket \/ bucket' \in AfterPart(r)
    BY <1>1, <2>1, PartKept
  <2>2. CASE Allowed(r) /\ bucket' = After(j, r)
    BY <1>1, <2>2, EffectKept
  <2>3. QED
    BY <1>2, <2>1, <2>2
<1>6. \A key \in Keys \ Writes(k) : bucket'[key] = bucket[key]
  <2>1. CASE bucket' = bucket
    BY <2>1
  <2>2. CASE bucket' \in AfterPart(r)
    BY <1>1, <2>2, PartWhole
  <2>3. CASE Allowed(r) /\ bucket' = After(j, r)
    BY <1>1, <2>3, EffectWhole
  <2>4. QED
    BY <1>2, <2>1, <2>2, <2>3
<1>7. \A d \in Clients \ {c} : Pending(d) => Apart(k, job[d].call)
  BY <1>1, OthersApart
<1>8. /\ after.answer = "pending" => OnCourse(after, bucket', backend)
      /\ after.answer # "ok" /\ (after.answer = "logged" => r.soft)
  <2> DEFINE went == With(m)
  <2>1. /\ IsJob(went) /\ went.call = k /\ went.op = j.op /\ went.todo = j.todo /\ went.answer = "pending"
        /\ went.opened = j.opened /\ went.held = j.held /\ after \in Failed(went, e)
    BY <1>3, <1>4 DEF IsJob
  <2> HIDE DEF went
  <2>2. went.call.op = "util.Copy" /\ went.op = "Write" => went.opened = went.held
    BY <1>4, <2>1 DEF HasDone
  <2>3. Kept(went.call, went.held, bucket')
    BY <1>5, <2>1
  <2>4. QED
    BY <1>4, <2>1, <2>2, <2>3, FailedCourse
<1>9. after.answer \in {"ok", "logged"} => Done(j, after, bucket')
  <2>1. SUFFICES ASSUME after.answer = "logged"
                 PROVE  Done(j, after, bucket')
    BY <1>8
  <2>2. j.op = "CompleteMultipartUpload" /\ r.to = NoKey
    BY <1>4, <1>8, <2>1 DEF Sends
  <2>3. /\ k.op = "CompleteMultipartUpload"
        /\ bucket'[Object(k.name)] = UploadOf(k.upload, k.list)
    BY <1>1, <1>2, <2>2, ObjectStays
  <2> HIDE DEF j
  <2>4. QED
    BY <1>4, <2>1, <2>3, DoneIf
<1> HIDE DEF k
<1>10. Kept(j.call, j.held, bucket')
  BY <1>5 DEF k
<1>11. QED
  BY <1>1, <1>3, <1>6, <1>7, <1>8, <1>9, <1>10, JobCourse

LEMMA BeginCourse ==
    ASSUME ObjectStorageAssumption, ObjectIInv, WholeInv, CourseInv, NEW c \in Clients, NEW k \in Calls,
           Begin(c, k)
    PROVE  CourseInv' /\ \A d \in Clients : Tells(d)
<1> DEFINE after == Started(k)
<1>1. /\ ~Pending(c) /\ job' = [job EXCEPT ![c] = after] /\ bucket' = bucket /\ backend' = backend
      /\ \A d \in Clients : Pending(d) => Apart(k, job[d].call)
  BY DEF Begin
<1>2. backend \in {"gcs", "s3"}
  BY DEF CourseInv
<1>3. after.answer = "pending" => OnCourse(after, bucket', backend)
  <2>1. SUFFICES ASSUME after.answer = "pending"
                 PROVE  OnCourse(after, bucket, backend)
    BY <1>1
  <2> DEFINE op == IF k.op = "util.Copy" THEN "Copy" ELSE k.op
             fresh == [NoJob EXCEPT !.call = k, !.answer = "pending",
                                    !.held = IF Reads(k) = {} THEN Absent ELSE bucket[Object(k.name)]]
             first == Enter(fresh, op)
  <2>2. after = IF k.op = "CompleteMultipartUpload" /\ k.list = <<>> THEN Ended(first, "error")
                ELSE IF first.todo = <<>> THEN Ended(first, "ok") ELSE first
    BY DEF Started
  <2>3. first.todo = Requests(k, op)
    BY DEF Enter, Attempt, NoJob
  <2>4. k.op = "Move" => k.name # k.to
    <3>1. SUFFICES ASSUME k.op = "Move", k.name = k.to
                   PROVE  FALSE
      OBVIOUS
    <3>2. Requests(k, op) = <<>>
      BY <3>1 DEF Requests, MoveRequests
    <3> HIDE DEF first, after
    <3>3. after = Ended(first, "ok")
      BY <2>2, <2>3, <3>1, <3>2
    <3>4. QED
      BY <2>1, <3>3 DEF Ended, NoJob
  <2>5. QED
    BY <1>2, <2>1, <2>4, StartedCourse
<1>4. \A key \in Keys \ Writes(k) : bucket'[key] = bucket[key]
  BY <1>1
<1> HIDE DEF after
<1>5. QED
  BY <1>1, <1>3, <1>4, JobCourse

LEMMA CourseInit ==
    ASSUME ObjectStorageAssumption, ObjectInit
    PROVE  CourseInv
BY DEF ObjectInit, ObjectStorageAssumption, CourseInv, Pending, NoJob

LEMMA CourseNext ==
    ASSUME ObjectStorageAssumption, ObjectIInv, WholeInv, CourseInv, [ObjectNext]_objectVars
    PROVE  CourseInv' /\ (UNCHANGED objectVars \/ \A d \in Clients : Tells(d))
<1>1. CASE UNCHANGED objectVars
  BY <1>1 DEF objectVars, CourseInv, Pending
<1>2. CASE ObjectNext
  <2>1. PICK c \in Clients : (\E k \in Calls : Begin(c, k)) \/ Step(c)
    BY <1>2 DEF ObjectNext
  <2>2. QED
    BY <2>1, BeginCourse, AnsweredCourse, SizedCourse, SweepsOneCourse, FillCourse, FailsCourse DEF Step
<1>3. QED
  BY <1>1, <1>2

(* A call that returns nil has done all it was asked (the operations of storage.Impl over      *)
(* both backends, withRetry and util.Copy), and what a Move was asked to move is under the old *)
(* name or the new one at every step of it, for any clients, names, contents, uploads, lists   *)
(* and limit of a composition, and however attempts failed, were repeated or lost their        *)
(* answers.                                                                                    *)
THEOREM NilIsDone == ObjectSpec => NilMeansDone
<1> DEFINE Told == \A c \in Clients : Pending(c) =>
               /\ job'[c].answer \in {"ok", "logged"} => Done(job[c], job'[c], bucket')
               /\ job[c].op = "Move" /\ job[c].held # Absent =>
                   job[c].held \in {bucket'[Object(job[c].call.name)], bucket'[Object(job[c].call.to)]}
<1>1. ObjectInit => WholeInv /\ CourseInv
  BY WholeInit, CourseInit, ObjectStorageAssumption, SeedsAssumption
<1>2. ObjectIInv /\ WholeInv /\ CourseInv /\ [ObjectNext]_objectVars => WholeInv' /\ CourseInv'
  BY WholeNext, CourseNext, ObjectStorageAssumption
<1>3. ObjectIInv /\ WholeInv /\ CourseInv /\ [ObjectNext]_objectVars => [Told]_objectVars
  BY CourseNext, ObjectStorageAssumption DEF Tells
<1>4. NilMeansDone <=> [][Told]_objectVars
  BY DEF NilMeansDone
<1> HIDE DEF Told
<1>5. ObjectSpec => [][Told]_objectVars
  BY <1>1, <1>2, <1>3, ObjectSpecIInv, PTL DEF ObjectSpec
<1>6. QED
  BY <1>4, <1>5
=============================================================================
