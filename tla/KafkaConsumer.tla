--------------------------- MODULE KafkaConsumer ---------------------------
(***************************************************************************)
(* kafka/consumer.go: the sequential loop of Consume, its retries, skips   *)
(* and stops, and what it commits, with a context cancelled, Stop called   *)
(* and the process restarted at any point.                                 *)
(*                                                                         *)
(* The kgo client is external: it keeps a fetch position per partition,    *)
(* which starts at the committed offset when the client is made and moves  *)
(* past everything PollFetches returns; CommitRecords commits the offset   *)
(* after one record, CommitUncommittedOffsets all fetch positions, and     *)
(* either may fail.  Records are <<partition, offset>>.                    *)
(***************************************************************************)
EXTENDS Integers, FiniteSets

CONSTANTS
    Partitions,
    EndOffset,            \* bound: partition p holds the offsets 0 .. EndOffset[p] - 1
    Undecodable,          \* the records protocol.Decode fails on
    Configs,              \* the configurations of the consumer
    MaxPoll,              \* bound: records per partition that one poll returns
    None                  \* no record

Records == UNION {{p} \X (0 .. EndOffset[p] - 1) : p \in Partitions}
OffsetMaps == {f \in [Partitions -> Nat] : \A p \in Partitions : f[p] <= EndOffset[p]}

ASSUME ConsumerAssumption ==
    /\ EndOffset \in [Partitions -> Nat]
    /\ MaxPoll \in Nat
    /\ Configs \subseteq
          [autoCommit : BOOLEAN,        \* config.AutoCommit()
           maxAttempts : Nat,           \* maxProcessingAttempts; 0: no limit
           decodeHandler : BOOLEAN,     \* a DecodeErrorHandler is configured
           failedHandler : BOOLEAN,     \* a FailedMessageHandler is configured
           retryPolicy : BOOLEAN,       \* configured: no delay of our own
           userCommits : BOOLEAN]       \* the handler may call Commit itself
    /\ Undecodable \subseteq Records
    /\ None \notin Records

VARIABLES
    config,        \* the configuration; it never changes
    committed,     \* the group's committed offset per partition (broker)
    client,        \* c.client: "nil" or "open"
    position,      \* the client's fetch position per partition
    pc,            \* where Consume is; "off" outside of it
    ctxDone,       \* the context of Consume is cancelled
    cursor,        \* the next record of the batch per partition
    failed,        \* failed: the partitions given up in this batch
    cur,           \* the record processRecord works on, or None
    attempts,      \* c.attempts; 0 stands for no entry
    done,          \* records handled, or skipped on purpose (history)
    stoppedAt,     \* records processRecord has given up on (history)
    unseen,        \* records polled and passed over (history)
    byUser         \* records the handler has committed itself (history)

vars == <<config, committed, client, position, pc, ctxDone, cursor, failed, cur,
          attempts, done, stoppedAt, unseen, byUser>>
history == <<done, stoppedAt, unseen, byUser>>

AutoCommit == config.autoCommit
MaxAttempts == config.maxAttempts
HasDecodeHandler == config.decodeHandler
HasFailedHandler == config.failedHandler
HasRetryPolicy == config.retryPolicy
UserCommits == config.userCommits

TypeOK ==
    /\ config \in Configs
    /\ committed \in OffsetMaps
    /\ client \in {"nil", "open"}
    /\ position \in OffsetMaps
    /\ pc \in {"off", "poll", "fetched", "batch", "handle", "delay"}
    /\ ctxDone \in BOOLEAN
    /\ cursor \in OffsetMaps
    /\ \A p \in Partitions : cursor[p] <= position[p]
    /\ failed \subseteq Partitions
    /\ cur \in Records \cup {None}
    /\ attempts \in [Records -> Nat]
    /\ \A r \in Records : attempts[r] = 0 \/ attempts[r] < MaxAttempts
    /\ done \subseteq Records
    /\ stoppedAt \subseteq Records
    /\ unseen \subseteq Records
    /\ byUser \subseteq Records

Init ==
    /\ config \in Configs
    /\ committed = [p \in Partitions |-> 0]
    /\ client = "nil"
    /\ position = [p \in Partitions |-> 0]
    /\ pc = "off"
    /\ ctxDone = FALSE
    /\ cursor = [p \in Partitions |-> 0]
    /\ failed = {}
    /\ cur = None
    /\ attempts = [r \in Records |-> 0]
    /\ done = {}
    /\ stoppedAt = {}
    /\ unseen = {}
    /\ byUser = {}

\* What is polled and not processed yet.
Pending == {r \in Records : cursor[r[1]] <= r[2] /\ r[2] < position[r[1]]}

-----------------------------------------------------------------------------
(* Consume, up to the batch *)

\* Consume with a fresh context: ensureConnected keeps an open client and
\* otherwise makes one, which resumes at the committed offsets.
Consume ==
    /\ pc = "off"
    /\ client' = "open"
    /\ position' = IF client = "nil" THEN committed ELSE position
    /\ cursor' = position'
    /\ pc' = "poll"
    /\ ctxDone' = FALSE
    /\ UNCHANGED <<committed, failed, cur, attempts, history>>

Cancel ==
    /\ pc # "off"
    /\ ~ctxDone
    /\ ctxDone' = TRUE
    /\ UNCHANGED <<committed, client, position, pc, cursor, failed, cur, attempts, history>>

\* flushOffsets: everything that was polled is committed, processed or not; the
\* request may fail, and does on a client that Stop has closed.
flushOffsets ==
    committed' \in IF AutoCommit /\ client = "open" THEN {committed, position}
                                                    ELSE {committed}

\* Consume returns because its context is done.
Return ==
    /\ flushOffsets
    /\ unseen' = unseen \cup Pending
    /\ cursor' = position
    /\ failed' = {}
    /\ pc' = "off"
    /\ UNCHANGED <<client, position, ctxDone, cur, attempts, done, stoppedAt, byUser>>

LoopTop ==
    /\ pc = "poll"
    /\ ctxDone
    /\ Return

\* PollFetches: returns records, or nothing when the context is done or the
\* client is closed (then at once, every time).
PollFetches ==
    /\ pc = "poll"
    /\ ~ctxDone
    /\ \E more \in [Partitions -> 0 .. MaxPoll] :
          /\ \A p \in Partitions : position[p] + more[p] <= EndOffset[p]
          /\ position' = [p \in Partitions |-> position[p] + more[p]]
    /\ client = "nil" <=> position' = position
    /\ pc' = "fetched"
    /\ UNCHANGED <<committed, client, ctxDone, cursor, failed, cur, attempts, history>>

PollInterrupted ==
    /\ pc = "poll"
    /\ ctxDone
    /\ pc' = "fetched"
    /\ UNCHANGED <<committed, client, position, ctxDone, cursor, failed, cur, attempts, history>>

\* After PollFetches: a cancelled context drops the batch.
Fetched ==
    /\ pc = "fetched"
    /\ \/ ctxDone /\ Return
       \/ /\ ~ctxDone
          /\ pc' = "batch"
          /\ failed' = {}
          /\ UNCHANGED <<committed, client, position, ctxDone, cursor, cur, attempts, history>>

-----------------------------------------------------------------------------
(* processRecord *)

\* commitRecord: fails when Stop has dropped the client, and may fail anyway.
commitRecord(r) ==
    committed' \in IF client = "open"
                   THEN {committed, [committed EXCEPT ![r[1]] = r[2] + 1]}
                   ELSE {committed}

\* The record is through: handled, or skipped on purpose.
Dispose(r) ==
    /\ done' = done \cup {r}
    /\ cursor' = [cursor EXCEPT ![r[1]] = r[2] + 1]
    /\ cur' = None
    /\ pc' = "batch"
    /\ IF AutoCommit THEN commitRecord(r) ELSE UNCHANGED committed
    /\ UNCHANGED <<client, position, ctxDone, failed, stoppedAt, unseen, byUser>>

\* processRecord returns true: the rest of the partition's batch is given up.
StopPartition(r) ==
    /\ failed' = failed \cup {r[1]}
    /\ stoppedAt' = stoppedAt \cup {r}
    /\ cursor' = [cursor EXCEPT ![r[1]] = r[2] + 1]
    /\ cur' = None
    /\ pc' = "batch"
    /\ UNCHANGED <<committed, client, position, ctxDone, done, unseen, byUser>>

\* Mutant: the record is committed before it is handled.
NextRecordCommits(p) ==
    /\ pc = "batch"
    /\ p \notin failed
    /\ cursor[p] < position[p]
    /\ <<p, cursor[p]>> \notin Undecodable
    /\ cur' = <<p, cursor[p]>>
    /\ pc' = "handle"
    /\ IF AutoCommit THEN commitRecord(cur') ELSE UNCHANGED committed
    /\ UNCHANGED <<client, position, ctxDone, cursor, failed, attempts, history>>

\* EachRecord: the next record of partition p goes to the handler, unless it
\* cannot be decoded or the partition has failed in this batch.
NextRecord(p) ==
    /\ pc = "batch"
    /\ p \notin failed
    /\ cursor[p] < position[p]
    /\ <<p, cursor[p]>> \notin Undecodable
    /\ cur' = <<p, cursor[p]>>
    /\ pc' = "handle"
    /\ UNCHANGED <<committed, client, position, ctxDone, cursor, failed, attempts, history>>

\* The records of a failed partition are passed over.
PassOver(p) ==
    /\ pc = "batch"
    /\ p \in failed
    /\ cursor[p] < position[p]
    /\ cursor' = [cursor EXCEPT ![p] = position[p]]
    /\ unseen' = unseen \cup {r \in Pending : r[1] = p}
    /\ UNCHANGED <<committed, client, position, pc, ctxDone, failed, cur, attempts, done, stoppedAt, byUser>>

\* Decode fails: skipped, or rejected by the DecodeErrorHandler.
DecodeFails(p) ==
    LET r == <<p, cursor[p]>>
    IN  /\ pc = "batch"
        /\ p \notin failed
        /\ cursor[p] < position[p]
        /\ r \in Undecodable
        /\ Dispose(r) \/ (HasDecodeHandler /\ StopPartition(r))
        /\ UNCHANGED attempts

BatchEnd ==
    /\ pc = "batch"
    /\ Pending = {}
    /\ pc' = "poll"
    /\ UNCHANGED <<committed, client, position, ctxDone, cursor, failed, cur, attempts, history>>

\* The handler calls Commit on its message; it may still fail afterwards.
UserCommit ==
    /\ UserCommits
    /\ pc = "handle"
    /\ client = "open"
    /\ committed' = [committed EXCEPT ![cur[1]] = cur[2] + 1]
    /\ byUser' = byUser \cup {cur}
    /\ UNCHANGED <<client, position, pc, ctxDone, cursor, failed, cur, attempts, done, stoppedAt, unseen>>

HandlerSucceeds ==
    /\ pc = "handle"
    /\ attempts' = [attempts EXCEPT ![cur] = 0]
    /\ Dispose(cur)

\* Mutant: a retry does not look at the context.
RetryDeaf ==
    /\ pc' = "delay"
    /\ UNCHANGED <<committed, client, position, ctxDone, cursor, failed, cur, history>>

\* actionRetry: a cancelled context stops the partition.
Retry ==
    \/ ctxDone /\ StopPartition(cur)
    \/ /\ ~ctxDone
       /\ pc' = "delay"
       /\ UNCHANGED <<committed, client, position, ctxDone, cursor, failed, cur, history>>

\* Mutant: the attempts are not counted.
HandlerFailsUncounted ==
    /\ pc = "handle"
    /\ Retry
    /\ UNCHANGED attempts

\* The handler has failed, retries included: handleFailedRecord.
HandlerFails ==
    /\ pc = "handle"
    /\ \/ MaxAttempts = 0 /\ Retry /\ UNCHANGED attempts
       \/ /\ attempts[cur] + 1 < MaxAttempts
          /\ Retry
          /\ attempts' = [attempts EXCEPT ![cur] = @ + 1]
       \/ /\ MaxAttempts > 0 /\ attempts[cur] + 1 >= MaxAttempts
          /\ Dispose(cur) \/ (HasFailedHandler /\ StopPartition(cur))
          /\ attempts' = [attempts EXCEPT ![cur] = 0]

\* Between two rounds: without a retry policy the consumer waits, and watches
\* the context while it does.
Delay ==
    /\ pc = "delay"
    /\ \/ ~HasRetryPolicy /\ ctxDone /\ StopPartition(cur)
       \/ /\ pc' = "handle"
          /\ UNCHANGED <<committed, client, position, ctxDone, cursor, failed, cur, history>>
    /\ UNCHANGED attempts

-----------------------------------------------------------------------------
(* Stop and restart *)

\* Stop closes the client and forgets it, but does not end a running Consume.
Stop ==
    /\ client = "open"
    /\ client' = "nil"
    /\ UNCHANGED <<committed, position, pc, ctxDone, cursor, failed, cur, attempts, history>>

\* The process is killed and started again: only the broker's offsets survive.
Restart ==
    /\ client' = "nil"
    /\ pc' = "off"
    /\ ctxDone' = FALSE
    /\ position' = committed
    /\ cursor' = committed
    /\ failed' = {}
    /\ cur' = None
    /\ attempts' = [r \in Records |-> 0]
    /\ UNCHANGED <<committed, history>>

-----------------------------------------------------------------------------
Handler == HandlerSucceeds \/ HandlerFails

LoopStep ==
    \/ LoopTop \/ PollFetches \/ PollInterrupted \/ Fetched \/ BatchEnd
    \/ \E p \in Partitions : NextRecord(p) \/ PassOver(p) \/ DecodeFails(p)
    \/ Handler \/ Delay

Next ==
    /\ Consume \/ Cancel \/ LoopStep \/ UserCommit \/ Stop \/ Restart
    /\ UNCHANGED config

\* The goroutine inside Consume runs and the handler returns.
Spec == Init /\ [][Next]_vars
FairSpec == Spec /\ WF_vars(LoopStep /\ UNCHANGED config)

-----------------------------------------------------------------------------
(* What must hold *)

\* Whatever is committed was handled, skipped on purpose, committed by the
\* handler itself, or left behind by a stop of its partition or a shutdown: no
\* offset is committed before its record has been looked at.  Without
\* AutoCommit the consumer commits nothing on its own, on no path.
CommitsExplained ==
    IF AutoCommit
    THEN \A r \in Records :
            r[2] < committed[r[1]] => r \in done \cup stoppedAt \cup unseen \cup byUser
    ELSE \A p \in Partitions :
            committed[p] = 0 \/ <<p, committed[p] - 1>> \in byUser

\* A record is not retried for ever when the attempts are limited.
RecordsGetThrough ==
    MaxAttempts > 0 => (pc = "handle" ~> pc \notin {"handle", "delay"})

\* A cancelled context ends Consume, wherever the loop is, also on a client
\* that Stop has closed.
CancelEndsConsume == (ctxDone /\ pc # "off") ~> pc = "off"

\* What the comment of processRecord says stopping is for: no commit goes past
\* a record that failed.
NeverPastFailed ==
    \A r \in stoppedAt : r[2] < committed[r[1]] => r \in done \cup byUser
=============================================================================
