--------------------------- MODULE ObjectStorage ---------------------------
(***************************************************************************)
(* storage.Impl over a bucket: storage/impl.go with the retry of           *)
(* storage/retry_option.go, util.Copy of storage/util.go, and the two      *)
(* object-store clients, gcs/gcs.go and s3/s3.go.                          *)
(*                                                                         *)
(* A call is the sequence of requests it has still to send (todo).  Any    *)
(* request may be answered; fail before it took effect; or take effect     *)
(* and lose its answer.  A failed attempt is repeated from its first       *)
(* request when the operation is one that withRetry wraps and the error is *)
(* transient.  The service behind the clients is modelled from the answers *)
(* the clients handle; one request is atomic there, and no request of an   *)
(* abandoned attempt takes effect later.                                   *)
(*                                                                         *)
(* An object is the sequence of its pieces.  On GCS the chunks and groups  *)
(* of a multipart upload are objects under <name>.parts/<upload>; on S3    *)
(* the chunks are parts the service keeps, which no listing shows.         *)
(***************************************************************************)
EXTENDS Integers, Sequences, SequencesExt

CONSTANTS
    Clients,        \* goroutines that call the storage
    Backends,       \* a subset of {"gcs", "s3"}
    Names,          \* object names
    Dirs,           \* names given to DeleteDir
    Matches,        \* Matches[d]: the object names that begin with d
    Data,           \* what callers write
    LargeData,      \* data over MaxSingleCopySize
    Uploads,        \* multipart upload ids
    TargetOf,       \* TargetOf[u]: the object upload u makes
    ChunkNumbers,
    ChunkLists,     \* lists of chunk numbers given to CompleteMultipartUpload
    Seeds,          \* contents of the bucket a process may start from
    ComposeLimit,   \* gcsMaxComposeSources
    MaxAttempts,    \* of the retry policy
    MaxObjectCalls        \* bound: calls made in a behaviour

ASSUME ObjectStorageAssumption ==
    /\ Backends \subseteq {"gcs", "s3"} /\ LargeData \subseteq Data
    /\ Matches \in [Dirs -> SUBSET Names] /\ TargetOf \in [Uploads -> Names]
    /\ ChunkNumbers \subseteq Nat \ {0} /\ ChunkLists \subseteq Seq(ChunkNumbers)
    /\ ComposeLimit \in Nat \ {0} /\ MaxAttempts \in Nat \ {0} /\ MaxObjectCalls \in Nat
    /\ "none" \notin Uploads
    /\ \A seed \in Seeds : seed.acked \in [Uploads -> SUBSET ChunkNumbers]

VARIABLES
    backend,    \* the client in use: "gcs" or "s3"
    withRetry,  \* was the storage built WithRetry?
    bucket,     \* the content at each key
    sessions,   \* the multipart uploads S3 holds
    job,        \* job[c]: the call of c, or its last one
    begun,      \* how many calls have begun
    issued,     \* uploads whose ids callers hold
    acked,      \* acked[u]: the chunks UploadMultipartChunk confirmed
    released    \* uploads completed, or that a caller asked to remove

objectVars == <<backend, withRetry, bucket, sessions, job, begun, issued, acked, released>>

None == "none"

-----------------------------------------------------------------------------
(* Keys and contents. *)

Object(n) == <<n, None, "object", 0>>
Chunk(u, k) == <<TargetOf[u], u, "chunk", k>>

\* Mutant: the groups lie beside the parts directory.
StrayGroup(u, g) == <<TargetOf[u], None, "group", g>>
Group(u, g) == <<TargetOf[u], u, "group", g>>

\* There are never more groups than chunks.
GroupNumbers == UNION {1 .. Len(list) : list \in ChunkLists}

Keys == {Object(n) : n \in Names} \cup {Chunk(u, k) : u \in Uploads, k \in ChunkNumbers}
        \cup {Group(u, g) : u \in Uploads, g \in GroupNumbers}

PartsOf(u) == {k \in Keys : k[2] = u}
NoKey == <<None, None, None, 0>>

Absent == << <<"absent", 0>> >>
Whole(d) == << <<d, 1>>, <<d, 2>> >>
PieceOf(u, k) == << <<u, k>> >>
IsLarge(content) == \E d \in LargeData : content = Whole(d)
UploadOf(u, list) == FlattenSeq([i \in DOMAIN list |-> PieceOf(u, list[i])])

\* What an object may hold: the whole of what a caller wrote, or the chunks
\* of a completed list in their order.
WholeContents == {Absent} \cup {Whole(d) : d \in Data}
                 \cup {UploadOf(u, l) : u \in Uploads, l \in ChunkLists \ {<<>>}}

ASSUME SeedsAssumption == \A seed \in Seeds : \A n \in Names : seed.objects[n] \in WholeContents

\* The keys a listing by prefix shows.
Listed(keys) == {k \in keys : bucket[k] # Absent /\ (backend = "s3" => k[2] = None)}
Under(d) == {k \in Keys : k[1] \in Matches[d]}

-----------------------------------------------------------------------------
(* Calls.  The arguments a call has no use for are None or <<>>. *)

NoObjectCall == [op |-> None, name |-> None, to |-> None, data |-> None,
           upload |-> None, chunk |-> 0, list |-> <<>>]

CallsOf(ops, names, tos, data, uploads, chunks, lists) ==
    [op : ops, name : names, to : tos, data : data, upload : uploads, chunk : chunks, list : lists]
OnUpload(calls) == {k \in calls : k.name = TargetOf[k.upload]}

FileCalls == CallsOf({"DeleteFile", "DownloadFile"}, Names, {None}, {None}, {None}, {0}, {<<>>})
DirCalls == CallsOf({"DeleteDir"}, Dirs, {None}, {None}, {None}, {0}, {<<>>})
WriteCalls == CallsOf({"Write", "WriteFile"}, Names, {None}, Data, {None}, {0}, {<<>>})
PairCalls == CallsOf({"Copy", "Move", "util.Copy"}, Names, Names, {None}, {None}, {0}, {<<>>})
UploadCalls == OnUpload(CallsOf({"CreateMultipartUpload", "AbortMultipartUpload"}, Names, {None}, {None},
                                Uploads, {0}, {<<>>}))
ChunkCalls == OnUpload(CallsOf({"UploadMultipartChunk"}, Names, {None}, {None}, Uploads, ChunkNumbers, {<<>>}))
CompleteCalls == OnUpload(CallsOf({"CompleteMultipartUpload"}, Names, {None}, {None}, Uploads, {0}, ChunkLists))

Calls == FileCalls \cup DirCalls \cup WriteCalls \cup PairCalls
         \cup UploadCalls \cup ChunkCalls \cup CompleteCalls

\* A caller creates an upload once, and uploads, completes or aborts it with
\* the id it was given; it completes with chunks it holds.
Legal(k) ==
    /\ k.op = "CreateMultipartUpload" => k.upload \notin issued \cup sessions \cup released
    /\ k.op \in {"UploadMultipartChunk", "CompleteMultipartUpload", "AbortMultipartUpload"}
          => k.upload \in issued
    /\ k.op = "CompleteMultipartUpload" => Range(k.list) \subseteq acked[k.upload]

Reads(k) == IF k.op \in {"Copy", "Move", "util.Copy", "DownloadFile"}
            THEN {Object(k.name)} ELSE {}
Writes(k) ==
    CASE k.op \in {"Write", "WriteFile", "DeleteFile"} -> {Object(k.name)}
      [] k.op = "DeleteDir" -> Under(k.name)
      [] k.op \in {"Copy", "util.Copy"} -> {Object(k.to)}
      [] k.op = "Move" -> {Object(k.name), Object(k.to)}
      [] k.op = "UploadMultipartChunk" -> {Chunk(k.upload, k.chunk)}
      [] k.op = "CompleteMultipartUpload" -> {Object(k.name)} \cup PartsOf(k.upload)
      [] k.op = "AbortMultipartUpload" -> PartsOf(k.upload)
      [] OTHER -> {}

\* Callers keep calls apart that would change what the other one uses.
Apart(k, l) == Writes(k) \cap (Writes(l) \cup Reads(l)) = {} /\ Reads(k) \cap Writes(l) = {}

-----------------------------------------------------------------------------
(* Requests.  A request reads the keys in from, stores a content at to and *)
(* removes the keys in gone.  A soft request only logs its failure.        *)

Request(verb) == [verb |-> verb, from |-> <<>>, to |-> NoKey, gone |-> {},
                  upload |-> None, soft |-> FALSE]

Get(k) == [Request("get") EXCEPT !.from = <<k>>]
Put(k) == [Request("put") EXCEPT !.to = k]
Delete(k) == [Request("delete") EXCEPT !.gone = {k}]
CopyObject(from, to) == [Request("copy") EXCEPT !.from = <<from>>, !.to = to]
Compose(from, to) == [Request("compose") EXCEPT !.from = from, !.to = to]
Sweep(keys, soft) == [Request("sweep") EXCEPT !.gone = keys, !.soft = soft]

\* Mutant: the chunks are removed as soon as a group holds them.
FreeingComposeAll(u, chunks) ==
    LET groups == (Len(chunks) + ComposeLimit - 1) \div ComposeLimit
        Least(a, b) == IF a < b THEN a ELSE b
        sources(g) == SubSeq(chunks, (g - 1) * ComposeLimit + 1, Least(g * ComposeLimit, Len(chunks)))
    IN  IF Len(chunks) <= ComposeLimit
        THEN <<Compose(chunks, Object(TargetOf[u]))>>
        ELSE Append([g \in 1..groups |-> [Compose(sources(g), Group(u, g)) EXCEPT !.gone = Range(sources(g))]],
                    Compose([g \in 1..groups |-> Group(u, g)], Object(TargetOf[u])))

\* gcs.composeAll: groups of at most ComposeLimit chunks, then the groups.
ComposeAll(u, chunks) ==
    LET groups == (Len(chunks) + ComposeLimit - 1) \div ComposeLimit
        Least(a, b) == IF a < b THEN a ELSE b
        sources(g) == SubSeq(chunks, (g - 1) * ComposeLimit + 1, Least(g * ComposeLimit, Len(chunks)))
    IN  IF Len(chunks) <= ComposeLimit
        THEN <<Compose(chunks, Object(TargetOf[u]))>>
        ELSE Append([g \in 1..groups |-> Compose(sources(g), Group(u, g))],
                    Compose([g \in 1..groups |-> Group(u, g)], Object(TargetOf[u])))

CompleteUpload(u, list) ==
    LET chunks == [i \in DOMAIN list |-> Chunk(u, list[i])]
    IN  IF backend = "gcs"
        THEN Append(ComposeAll(u, chunks), Sweep(PartsOf(u), TRUE))
        ELSE <<[Request("finish") EXCEPT !.from = chunks, !.to = Object(TargetOf[u]),
                                         !.gone = PartsOf(u), !.upload = u]>>

\* StorageProvider.Move of both backends.
MoveRequests(from, to) == IF from = to THEN <<>> ELSE <<CopyObject(from, to), Delete(from)>>

\* The requests an attempt at an operation on storage.Impl sends, "fill"
\* standing for the writing of the local file.
Requests(k, op) ==
    CASE op = "DeleteFile" -> <<Delete(Object(k.name))>>
      [] op = "DeleteDir" -> <<Sweep(Under(k.name), FALSE)>>
      [] op = "Write" -> <<Put(Object(IF k.op = "util.Copy" THEN k.to ELSE k.name))>>
      [] op = "WriteFile" -> <<Put(Object(k.name))>>
      [] op = "ReadFile" -> <<Get(Object(k.name))>>
      [] op = "DownloadFile" -> <<Get(Object(k.name)), Request("fill")>>
      [] op = "Copy" -> <<CopyObject(Object(k.name), Object(k.to))>>
      [] op = "Move" -> MoveRequests(Object(k.name), Object(k.to))
      [] op = "CreateMultipartUpload" ->
            IF backend = "gcs" THEN <<>> ELSE <<[Request("begin") EXCEPT !.upload = k.upload]>>
      [] op = "UploadMultipartChunk" ->
            <<[Put(Chunk(k.upload, k.chunk)) EXCEPT !.upload = IF backend = "s3" THEN k.upload ELSE None]>>
      [] op = "CompleteMultipartUpload" -> CompleteUpload(k.upload, k.list)
      [] op = "AbortMultipartUpload" ->
            IF backend = "gcs" THEN <<Sweep(PartsOf(k.upload), FALSE)>>
            ELSE <<[Request("drop") EXCEPT !.gone = PartsOf(k.upload), !.upload = k.upload]>>

\* Mutant: withRetry wraps the streaming operations as well.
WrapsAll(op) == TRUE

\* The operations withRetry wraps.
Retried(op) == op \notin {"Write", "CreateMultipartUpload", "UploadMultipartChunk",
                          "CompleteMultipartUpload", "AbortMultipartUpload"}

\* The pieces a put sends: what is left of its reader.
Source(j) == IF j.call.op = "util.Copy" THEN j.opened
             ELSE IF j.op = "UploadMultipartChunk" THEN PieceOf(j.call.upload, j.call.chunk)
             ELSE Whole(j.call.data)
Unread(j) == SubSeq(Source(j), j.read + 1, Len(Source(j)))

-----------------------------------------------------------------------------
(* Jobs.  answer is "pending" while the call is in flight, then "ok",      *)
(* "error", or "logged": nil, but an error was logged on the way.          *)

NoJob == [call |-> NoObjectCall, op |-> None, todo |-> <<>>, attempt |-> 0, read |-> 0, err |-> None,
          opened |-> Absent, file |-> Absent, held |-> Absent, answer |-> "ok"]

\* An attempt: WriteFile opens its file anew, the other readers go on.
Attempt(j) == [j EXCEPT !.todo = Requests(j.call, j.op), !.attempt = @ + 1, !.err = None,
                        !.read = IF j.op = "WriteFile" THEN 0 ELSE @]

\* The next operation of a call, with an attempt count of its own.
Enter(j, op) == Attempt([j EXCEPT !.op = op, !.attempt = 0])

\* A job that is over: what it left is its answer and the local file.
Ended(j, answer) == [NoJob EXCEPT !.answer = answer, !.file = j.file]

\* The call goes on after a request that succeeded.
Proceed(j) ==
    LET rest == [j EXCEPT !.todo = Tail(@)]
    IN  IF rest.todo # <<>> THEN rest
        ELSE IF j.call.op = "util.Copy" /\ j.op = "ReadFile" THEN Enter(rest, "Write")
        ELSE Ended(j, "ok")

\* The operation returns an error: util.Copy falls back to streaming.
GiveUp(j) ==
    IF j.call.op = "util.Copy" /\ j.op = "Copy"
    THEN Enter(j, "ReadFile")
    ELSE Ended(j, "error")

\* retry.DoWithCondition: the wait before an attempt also ends when the context does.
AfterError(j, e) ==
    IF withRetry /\ Retried(j.op) /\ e = "transient" /\ j.attempt < MaxAttempts
    THEN {Attempt(j), GiveUp(j)} ELSE {GiveUp(j)}

\* A request failed.  s3.Copy keeps the error of the single copy, asks for
\* the size of the source and copies a large one in parts.
Failed(j, e) ==
    LET r == Head(j.todo)
    IN  IF r.soft THEN {Ended(j, "logged")}
        ELSE IF backend = "s3" /\ r.verb = "copy"
             THEN {[j EXCEPT !.err = e, !.todo = <<[r EXCEPT !.verb = "stat", !.to = NoKey]>> \o @]}
        ELSE AfterError(j, IF r.verb = "stat" THEN j.err ELSE e)

-----------------------------------------------------------------------------
(* The service. *)

Present(k) == bucket[k] # Absent

\* What the service refuses: a source or, on GCS, a removed object that does
\* not exist; too many sources; a single copy of a large object; parts of an
\* upload that is not open, or listed out of order.
Allowed(r) ==
    /\ \A i \in DOMAIN r.from : Present(r.from[i])
    /\ r.verb = "compose" => Len(r.from) <= ComposeLimit
    /\ r.verb = "delete" /\ backend = "gcs" => \A k \in r.gone : Present(k)
    /\ r.verb = "copy" /\ backend = "s3" => ~IsLarge(bucket[r.from[1]])
    /\ r.upload # None /\ r.verb # "begin" => r.upload \in sessions
    /\ r.verb = "finish" => \A i, l \in DOMAIN r.from : i < l => r.from[i][4] < r.from[l][4]

Content(j, r) == IF r.verb = "put" THEN Unread(j)
                 ELSE FlattenSeq([i \in DOMAIN r.from |-> bucket[r.from[i]]])

After(j, r) == [k \in Keys |-> IF k = r.to THEN Content(j, r)
                               ELSE IF k \in Listed(r.gone) \/ (r.verb # "sweep" /\ k \in r.gone)
                               THEN Absent ELSE bucket[k]]

\* The bucket after a request that failed: the bulk delete of S3 may have
\* removed some of the keys.
AfterPart(r) == {[k \in Keys |-> IF k \in removed THEN Absent ELSE bucket[k]] :
                    removed \in SUBSET (IF r.verb = "sweep" /\ backend = "s3"
                                        THEN Listed(r.gone) ELSE {})}

Effect(j, r) ==
    /\ bucket' = After(j, r)
    /\ sessions' = CASE r.verb = "begin" -> sessions \cup {r.upload}
                 [] r.verb \in {"finish", "drop"} -> sessions \ {r.upload}
                 [] OTHER -> sessions
    /\ released' = IF j.op = "CompleteMultipartUpload" /\ r.to = Object(j.call.name)
                   THEN released \cup {j.call.upload} ELSE released

-----------------------------------------------------------------------------
ObjectInit ==
    /\ backend \in Backends /\ withRetry \in BOOLEAN
    /\ \E seed \in Seeds :
        /\ bucket = [k \in Keys |->
                        IF k[2] = None THEN seed.objects[k[1]]
                        ELSE IF k[3] = "chunk" /\ k[4] \in seed.acked[k[2]]
                        THEN PieceOf(k[2], k[4]) ELSE Absent]
        /\ acked = seed.acked
        /\ issued = {u \in Uploads : seed.acked[u] # {}}
    /\ sessions = IF backend = "s3" THEN issued ELSE {}
    /\ job = [c \in Clients |-> NoJob] /\ begun = 0 /\ released = {}

Pending(c) == job[c].answer = "pending"

\* What callers learn when job j goes on as, or ends in, the job after.
Learned(j, after) ==
    /\ issued' = IF after.answer \notin {"ok", "logged"} THEN issued
                 ELSE IF j.op = "CreateMultipartUpload" THEN issued \cup {j.call.upload}
                 ELSE IF j.op \in {"CompleteMultipartUpload", "AbortMultipartUpload"}
                 THEN issued \ {j.call.upload} ELSE issued
    /\ acked' = IF after.answer = "ok" /\ j.op = "UploadMultipartChunk"
                THEN [acked EXCEPT ![j.call.upload] = @ \cup {j.call.chunk}] ELSE acked

\* A call that needs no request answers at once: a self-move, the creation of
\* an upload on GCS, and ErrNoChunks.
Started(k) ==
    LET first == Enter([NoJob EXCEPT !.call = k, !.answer = "pending",
                                     !.held = IF Reads(k) = {} THEN Absent ELSE bucket[Object(k.name)]],
                       IF k.op = "util.Copy" THEN "Copy" ELSE k.op)
    IN  IF k.op = "CompleteMultipartUpload" /\ k.list = <<>>
        THEN Ended(first, "error")
        ELSE IF first.todo = <<>> THEN Ended(first, "ok") ELSE first

Begin(c, k) ==
    /\ ~Pending(c) /\ begun < MaxObjectCalls /\ Legal(k)
    /\ \A d \in Clients : Pending(d) => Apart(k, job[d].call)
    /\ begun' = begun + 1
    /\ released' = released \cup
            (IF k.op = "AbortMultipartUpload" THEN {k.upload}
             ELSE IF k.op = "DeleteDir" THEN {u \in Uploads : TargetOf[u] \in Matches[k.name]} ELSE {})
    /\ job' = [job EXCEPT ![c] = Started(k)]
    /\ Learned([call |-> k, op |-> k.op], Started(k))
    /\ UNCHANGED <<backend, withRetry, bucket, sessions>>

\* The request succeeds.
Answered(c) ==
    LET j == job[c]
        r == Head(j.todo)
        read == [j EXCEPT !.opened = IF r.verb = "get" THEN Content(j, r) ELSE @,
                          !.read = IF r.verb = "put" THEN Len(Source(j)) ELSE @]
    IN  /\ Pending(c) /\ r.verb \notin {"stat", "fill"} /\ Allowed(r)
        /\ r.verb = "sweep" => backend = "s3"
        /\ Effect(j, r)
        /\ job' = [job EXCEPT ![c] = Proceed(read)]
        /\ Learned(j, Proceed(read))
        /\ UNCHANGED <<backend, withRetry, begun>>

\* The size of the source of a copy that failed: over the limit, it is
\* copied in parts; else the error of the copy stands.
Sized(c) ==
    LET j == job[c]
        large == [j EXCEPT !.todo = <<[j.todo[2] EXCEPT !.verb = "copyLarge"]>> \o SubSeq(@, 3, Len(@))]
    IN  /\ Pending(c) /\ Head(j.todo).verb = "stat" /\ Allowed(Head(j.todo))
        /\ \E after \in (IF IsLarge(j.held) THEN {large} ELSE AfterError(j, j.err)) :
                job' = [job EXCEPT ![c] = after]
        /\ UNCHANGED <<backend, withRetry, bucket, sessions, begun, issued, acked, released>>

\* gcs.DeleteDir: the next object of the listing is deleted, or there is none.
SweepsOne(c) ==
    LET j == job[c]
        r == Head(j.todo)
        left == Listed(r.gone)
        next == [Delete(CHOOSE k \in left : TRUE) EXCEPT !.soft = r.soft]
        after == IF left = {} THEN Proceed(j) ELSE [j EXCEPT !.todo = <<next>> \o @]
    IN  /\ Pending(c) /\ r.verb = "sweep" /\ backend = "gcs"
        /\ job' = [job EXCEPT ![c] = after]
        /\ Learned(j, after)
        /\ UNCHANGED <<backend, withRetry, bucket, sessions, begun, released>>

\* DownloadFile creates the file anew and copies the stream into it; either
\* end may fail on the way, and closing the file may.
Fill(c) ==
    LET j == job[c]
    IN  /\ Pending(c) /\ Head(j.todo).verb = "fill"
        /\ \/ job' = [job EXCEPT ![c] = Proceed([j EXCEPT !.file = j.opened])]
           \/ \E file \in {j.file} \cup {SubSeq(j.opened, 1, n) : n \in 0 .. Len(j.opened)},
                 e \in {"transient", "permanent"} :
                \E after \in AfterError([j EXCEPT !.file = file], e) :
                    job' = [job EXCEPT ![c] = after]
        /\ UNCHANGED <<backend, withRetry, bucket, sessions, begun, issued, acked, released>>

\* The request fails: the service refuses it, or the network or the context
\* fails it before it took effect (a put may have read some of its source)
\* or after.
Fails(c) ==
    LET j == job[c]
        r == Head(j.todo)
        consumed == IF r.verb = "put" THEN j.read .. Len(Source(j)) ELSE {j.read}
    IN  /\ Pending(c) /\ r.verb # "fill"
        /\ \E e \in {"transient", "permanent"}, n \in consumed :
            /\ \/ ~Allowed(r) /\ e = "permanent" /\ UNCHANGED <<bucket, sessions, released>>
               \/ bucket' \in AfterPart(r) /\ UNCHANGED <<sessions, released>>
               \/ /\ Allowed(r) /\ r.verb \notin {"get", "stat", "sweep"}
                  /\ n = Len(Source(j)) \/ r.verb # "put"
                  /\ Effect(j, r)
            /\ \E after \in Failed([j EXCEPT !.read = n], e) :
                /\ job' = [job EXCEPT ![c] = after]
                /\ Learned(j, after)
        /\ UNCHANGED <<backend, withRetry, begun>>

Step(c) == Answered(c) \/ Sized(c) \/ SweepsOne(c) \/ Fill(c) \/ Fails(c)

ObjectNext == \E c \in Clients : (\E k \in Calls : Begin(c, k)) \/ Step(c)

-----------------------------------------------------------------------------
(* An object is never torn: what a name holds is the whole of what a       *)
(* caller wrote, or the chunks of a completed list in their order, however *)
(* attempts failed, were repeated or lost their answers.                   *)
WholeObjects == \A n \in Names : bucket[Object(n)] \in WholeContents

\* What the end of job j, after, and the bucket b are when the answer is nil.
Done(j, after, b) ==
    LET k == j.call
        gone(keys) == \A key \in keys : b[key] = Absent
        made(u) == {Chunk(u, n) : n \in ChunkNumbers} \cup {Group(u, g) : g \in GroupNumbers}
    IN  CASE k.op \in {"Write", "WriteFile"} -> b[Object(k.name)] = Whole(k.data)
          [] k.op = "DeleteFile" -> gone({Object(k.name)})
          [] k.op = "DeleteDir" ->
                gone({key \in Under(k.name) : backend = "gcs" \/ key[2] = None})
          [] k.op = "DownloadFile" -> after.file = j.held /\ j.held # Absent
          [] k.op \in {"Copy", "util.Copy"} -> b[Object(k.to)] = j.held
          [] k.op = "Move" -> /\ b[Object(k.to)] = j.held
                              /\ k.name # k.to => gone({Object(k.name)})
          [] k.op = "UploadMultipartChunk" ->
                b[Chunk(k.upload, k.chunk)] = PieceOf(k.upload, k.chunk)
          [] k.op = "CompleteMultipartUpload" ->
                /\ b[Object(k.name)] = UploadOf(k.upload, k.list)
                /\ after.answer = "ok" => gone(made(k.upload))
          [] k.op = "AbortMultipartUpload" -> gone(made(k.upload))
          [] OTHER -> TRUE

(* A call that returns nil has done all it was asked: the content is where *)
(* it should be and whole, and what was to go is gone, the group objects   *)
(* of a two-pass composition included unless their removal was logged as   *)
(* failed.  And what a Move was asked to move is under the old name or the *)
(* new one at every step of it and when it returns, whatever was retried.  *)
NilMeansDone ==
    [][\A c \in Clients : Pending(c) =>
        /\ job'[c].answer \in {"ok", "logged"} => Done(job[c], job'[c], bucket')
        /\ job[c].op = "Move" /\ job[c].held # Absent =>
            job[c].held \in {bucket'[Object(job[c].call.name)], bucket'[Object(job[c].call.to)]}]_objectVars

(* The chunks a caller was told are stored stay until the upload is made   *)
(* into its object or is removed at a caller's request: a completion that  *)
(* failed half-way can be tried again.                                     *)
ChunksSurvive ==
    \A u \in issued \ released, k \in ChunkNumbers :
        k \in acked[u] => bucket[Chunk(u, k)] = PieceOf(u, k)
=============================================================================
