------------------------ MODULE KafkaConsumerProofs ------------------------
(***************************************************************************)
(* Proofs about KafkaConsumer, for any partitions, records, poll sizes and *)
(* configurations.                                                         *)
(*                                                                         *)
(* CommitsExplained is not inductive: a commit of the fetch positions, or  *)
(* of one record, commits everything below it, so the invariant has to say *)
(* that everything the loop has moved past (the cursor), and not only what *)
(* is committed, is explained; that the record in the handler is the one   *)
(* at the cursor of its partition; and that the loop has moved past all it *)
(* polled when it is left.                                                 *)
(***************************************************************************)
EXTENDS KafkaConsumer, TLAPS

\* The record in the handler is the next one of its partition.
CurInv ==
    pc \in {"handle", "delay"} =>
        /\ cur \in Records
        /\ cur[2] = cursor[cur[1]]
        /\ cursor[cur[1]] < position[cur[1]]

\* Outside of Consume nothing is pending.
OffInv == pc = "off" => cursor = position

Explained == done \cup stoppedAt \cup unseen \cup byUser

\* What the loop has moved past, or is committed, is explained, in every
\* configuration.
PassedInv ==
    \A r \in Records :
        r[2] < cursor[r[1]] \/ r[2] < committed[r[1]] => r \in Explained

\* Without AutoCommit only the handler commits.
ManualInv ==
    ~AutoCommit =>
        \A p \in Partitions : committed[p] = 0 \/ <<p, committed[p] - 1>> \in byUser

IInv == TypeOK /\ CurInv /\ OffInv /\ PassedInv /\ ManualInv

-----------------------------------------------------------------------------
(* Records and offsets *)

LEMMA RecordParts ==
    ASSUME NEW r \in Records
    PROVE  /\ r[1] \in Partitions
           /\ r[2] \in Nat
           /\ r[2] < EndOffset[r[1]]
           /\ r = <<r[1], r[2]>>
BY ConsumerAssumption DEF Records

LEMMA RecordAt ==
    ASSUME NEW p \in Partitions, NEW i \in Nat, i < EndOffset[p]
    PROVE  <<p, i>> \in Records
BY ConsumerAssumption DEF Records

\* Going past a record keeps an offset map one.
LEMMA PastRecord ==
    ASSUME NEW f \in OffsetMaps, NEW r \in Records
    PROVE  [f EXCEPT ![r[1]] = r[2] + 1] \in OffsetMaps
BY RecordParts, ConsumerAssumption DEF OffsetMaps

\* The record at the cursor of a partition that has one pending.
LEMMA CursorRecord ==
    ASSUME TypeOK, NEW p \in Partitions, cursor[p] < position[p]
    PROVE  <<p, cursor[p]>> \in Records
BY RecordAt, ConsumerAssumption DEF TypeOK, OffsetMaps

\* A record that is neither past nor pending has not been polled.
LEMMA PendingOrPast ==
    ASSUME TypeOK, NEW r \in Records, r[2] < position[r[1]]
    PROVE  r[2] < cursor[r[1]] \/ r \in Pending
BY RecordParts DEF Pending, TypeOK, OffsetMaps

LEMMA InitIInv == Init => IInv
<1> SUFFICES ASSUME Init PROVE IInv
  OBVIOUS
<1> USE ConsumerAssumption DEF Init
<1>1. TypeOK
  <2>1. [p \in Partitions |-> 0] \in OffsetMaps
    BY DEF OffsetMaps
  <2>2. \A p \in Partitions : cursor[p] <= position[p]
    OBVIOUS
  <2>3. attempts \in [Records -> Nat] /\ \A r \in Records : attempts[r] = 0
    OBVIOUS
  <2>4. QED
    BY <2>1, <2>2, <2>3 DEF TypeOK
<1>2. PassedInv
  BY RecordParts DEF PassedInv
<1>3. CurInv /\ OffInv /\ ManualInv
  BY DEF CurInv, OffInv, ManualInv
<1>4. QED
  BY <1>1, <1>2, <1>3 DEF IInv

-----------------------------------------------------------------------------
(* The two ways past a record *)

\* Either way the loop moves past the record at a cursor, which is explained
\* from then on; at most this very record is committed.
LEMMA PastCursor ==
    ASSUME IInv, NEW r \in Records, r[2] = cursor[r[1]], cursor[r[1]] < position[r[1]],
           cursor' = [cursor EXCEPT ![r[1]] = r[2] + 1],
           committed' \in {committed, [committed EXCEPT ![r[1]] = r[2] + 1]},
           Explained \cup {r} \subseteq Explained',
           pc' = "batch", position' = position
    PROVE  /\ cursor' \in OffsetMaps /\ committed' \in OffsetMaps
           /\ \A p \in Partitions : cursor'[p] <= position'[p]
           /\ CurInv' /\ OffInv' /\ PassedInv'
<1>1. cursor' \in OffsetMaps /\ committed' \in OffsetMaps
  BY PastRecord DEF IInv, TypeOK
<1>2. \A p \in Partitions : cursor'[p] <= position'[p]
  <2> SUFFICES ASSUME NEW p \in Partitions PROVE cursor'[p] <= position'[p]
    OBVIOUS
  <2>1. /\ cursor \in [Partitions -> Nat] /\ position \in [Partitions -> Nat]
        /\ cursor[p] <= position[p]
    BY DEF IInv, TypeOK, OffsetMaps
  <2>2. r[1] \in Partitions /\ r[2] \in Nat
    BY RecordParts
  <2>3. QED
    BY <2>1, <2>2
<1>3. CurInv' /\ OffInv'
  BY DEF CurInv, OffInv
<1>4. PassedInv'
  <2> SUFFICES ASSUME NEW s \in Records, s[2] < cursor'[s[1]] \/ s[2] < committed'[s[1]]
               PROVE  s \in Explained'
    BY DEF PassedInv
  <2>1. /\ s[1] \in Partitions /\ s[2] \in Nat /\ s = <<s[1], s[2]>>
        /\ r[1] \in Partitions /\ r[2] \in Nat /\ r = <<r[1], r[2]>>
    BY RecordParts
  <2>2. cursor \in [Partitions -> Nat] /\ committed \in [Partitions -> Nat]
    BY DEF IInv, TypeOK, OffsetMaps
  <2>3. CASE s[1] = r[1] /\ s[2] = r[2]
    BY <2>1, <2>3
  <2>4. CASE s[1] # r[1] \/ s[2] # r[2]
    <3>1. s[2] < cursor[s[1]] \/ s[2] < committed[s[1]]
      BY <2>1, <2>2, <2>4
    <3>2. QED
      BY <3>1 DEF IInv, PassedInv
  <2>5. QED
    BY <2>3, <2>4
<1>5. QED
  BY <1>1, <1>2, <1>3, <1>4

LEMMA DisposeIInv ==
    ASSUME IInv, NEW r \in Records, r[2] = cursor[r[1]], cursor[r[1]] < position[r[1]],
           Dispose(r), UNCHANGED config,
           attempts' \in [Records -> Nat],
           \A q \in Records : attempts'[q] = 0 \/ attempts'[q] < MaxAttempts
    PROVE  IInv'
<1> USE DEF Dispose
<1>1. committed' \in {committed, [committed EXCEPT ![r[1]] = r[2] + 1]}
  BY DEF commitRecord
<1>2. Explained \cup {r} \subseteq Explained'
  BY DEF Explained
<1>3. /\ cursor' \in OffsetMaps /\ committed' \in OffsetMaps
      /\ \A p \in Partitions : cursor'[p] <= position'[p]
      /\ CurInv' /\ OffInv' /\ PassedInv'
  BY <1>1, <1>2, PastCursor
<1>4. TypeOK'
  BY <1>3 DEF IInv, TypeOK, MaxAttempts
<1>5. ManualInv'
  BY DEF IInv, ManualInv, AutoCommit
<1>6. QED
  BY <1>3, <1>4, <1>5 DEF IInv

LEMMA StopPartitionIInv ==
    ASSUME IInv, NEW r \in Records, r[2] = cursor[r[1]], cursor[r[1]] < position[r[1]],
           StopPartition(r), UNCHANGED config,
           attempts' \in [Records -> Nat],
           \A q \in Records : attempts'[q] = 0 \/ attempts'[q] < MaxAttempts
    PROVE  IInv'
<1> USE DEF StopPartition
<1>1. Explained \cup {r} \subseteq Explained'
  BY DEF Explained
<1>2. /\ cursor' \in OffsetMaps /\ committed' \in OffsetMaps
      /\ \A p \in Partitions : cursor'[p] <= position'[p]
      /\ CurInv' /\ OffInv' /\ PassedInv'
  BY <1>1, PastCursor
<1>3. failed' \subseteq Partitions
  BY RecordParts DEF IInv, TypeOK
<1>4. TypeOK'
  BY <1>2, <1>3 DEF IInv, TypeOK, MaxAttempts
<1>5. ManualInv'
  BY DEF IInv, ManualInv, AutoCommit
<1>6. QED
  BY <1>2, <1>4, <1>5 DEF IInv

-----------------------------------------------------------------------------
(* Consume, up to the batch *)

\* The loop is left: what was polled and not looked at counts as seen off.
LEMMA ReturnIInv == IInv /\ Return /\ UNCHANGED config => IInv'
<1> SUFFICES ASSUME IInv, Return, UNCHANGED config PROVE IInv'
  OBVIOUS
<1> USE DEF Return
<1>1. committed' \in {committed, position} /\ (~AutoCommit => committed' = committed)
  BY DEF flushOffsets
<1>2. TypeOK'
  <2>1. \A p \in Partitions : position[p] <= position[p]
    BY DEF IInv, TypeOK, OffsetMaps
  <2>2. QED
    BY <1>1, <2>1 DEF IInv, TypeOK, MaxAttempts, Pending
<1>3. PassedInv'
  <2> SUFFICES ASSUME NEW r \in Records, r[2] < position[r[1]] \/ r[2] < committed[r[1]]
               PROVE  r \in Explained'
    BY <1>1 DEF PassedInv
  <2>1. r[2] < cursor[r[1]] \/ r[2] < committed[r[1]] \/ r \in Pending
    BY PendingOrPast DEF IInv
  <2>2. QED
    BY <2>1 DEF IInv, PassedInv, Explained
<1>4. CurInv' /\ OffInv'
  BY DEF CurInv, OffInv
<1>5. ManualInv'
  BY <1>1 DEF IInv, ManualInv, AutoCommit
<1>6. QED
  BY <1>2, <1>3, <1>4, <1>5 DEF IInv

\* With a new client the loop starts at what is committed, with an old one at
\* the end of what was polled: in both cases all below is explained.
LEMMA ConsumeIInv == IInv /\ Consume /\ UNCHANGED config => IInv'
<1> SUFFICES ASSUME IInv, Consume, UNCHANGED config PROVE IInv'
  OBVIOUS
<1> USE DEF Consume, history
<1>1. position' \in {committed, cursor} /\ cursor' = position'
  BY DEF IInv, OffInv
<1>2. TypeOK'
  <2>1. position' \in OffsetMaps /\ \A p \in Partitions : cursor'[p] <= position'[p]
    BY <1>1 DEF IInv, TypeOK, OffsetMaps
  <2>2. QED
    BY <1>1, <2>1 DEF IInv, TypeOK, MaxAttempts
<1>3. PassedInv'
  BY <1>1 DEF IInv, PassedInv, Explained
<1>4. CurInv' /\ OffInv' /\ ManualInv'
  BY DEF IInv, CurInv, OffInv, ManualInv, AutoCommit
<1>5. QED
  BY <1>2, <1>3, <1>4 DEF IInv

LEMMA PollFetchesIInv == IInv /\ PollFetches /\ UNCHANGED config => IInv'
<1> SUFFICES ASSUME IInv, PollFetches, UNCHANGED config PROVE IInv'
  OBVIOUS
<1> USE DEF PollFetches, history
<1>1. position' \in OffsetMaps /\ \A p \in Partitions : cursor[p] <= position'[p]
  <2>1. PICK more \in [Partitions -> 0 .. MaxPoll] :
          /\ \A p \in Partitions : position[p] + more[p] <= EndOffset[p]
          /\ position' = [p \in Partitions |-> position[p] + more[p]]
    OBVIOUS
  <2>2. /\ position \in [Partitions -> Nat] /\ cursor \in [Partitions -> Nat]
        /\ \A p \in Partitions : cursor[p] <= position[p]
    BY DEF IInv, TypeOK, OffsetMaps
  <2>3. \A p \in Partitions : more[p] \in Nat
    BY ConsumerAssumption
  <2>4. QED
    BY <2>1, <2>2, <2>3 DEF OffsetMaps
<1>2. TypeOK'
  BY <1>1 DEF IInv, TypeOK, MaxAttempts
<1>3. PassedInv'
  BY DEF IInv, PassedInv, Explained
<1>4. CurInv' /\ OffInv' /\ ManualInv'
  BY DEF IInv, CurInv, OffInv, ManualInv, AutoCommit
<1>5. QED
  BY <1>2, <1>3, <1>4 DEF IInv

-----------------------------------------------------------------------------
(* The other steps *)

\* A step that commits nothing and moves no position or cursor.
LEMMA QuietIInv ==
    ASSUME IInv, UNCHANGED <<config, committed, position, cursor, history>>, TypeOK',
           pc' = "off" => pc = "off",
           pc' \in {"handle", "delay"} => pc \in {"handle", "delay"} /\ cur' = cur
    PROVE  IInv'
BY DEF history, IInv, CurInv, OffInv, PassedInv, ManualInv, AutoCommit, Explained

LEMMA NextRecordIInv ==
    ASSUME IInv, NEW p \in Partitions, NextRecord(p), UNCHANGED config
    PROVE  IInv'
<1> USE DEF NextRecord, history
<1>1. cur' \in Records
  BY CursorRecord DEF IInv
<1>2. TypeOK'
  BY <1>1 DEF IInv, TypeOK, MaxAttempts
<1>3. CurInv'
  BY <1>1 DEF CurInv
<1>4. OffInv' /\ PassedInv' /\ ManualInv'
  BY DEF IInv, OffInv, PassedInv, ManualInv, AutoCommit, Explained
<1>5. QED
  BY <1>2, <1>3, <1>4 DEF IInv

LEMMA PassOverIInv ==
    ASSUME IInv, NEW p \in Partitions, PassOver(p), UNCHANGED config
    PROVE  IInv'
<1> USE DEF PassOver
<1>1. cursor' \in OffsetMaps /\ \A q \in Partitions : cursor'[q] <= position[q]
  BY DEF IInv, TypeOK, OffsetMaps
<1>2. TypeOK'
  BY <1>1 DEF IInv, TypeOK, MaxAttempts, Pending
<1>3. PassedInv'
  <2> SUFFICES ASSUME NEW r \in Records, r[2] < cursor'[r[1]] \/ r[2] < committed[r[1]]
               PROVE  r \in Explained'
    BY DEF PassedInv
  <2>1. \/ r[2] < cursor[r[1]] \/ r[2] < committed[r[1]]
        \/ r[1] = p /\ r \in Pending
    BY PendingOrPast, RecordParts DEF IInv, TypeOK, OffsetMaps
  <2>2. QED
    BY <2>1 DEF IInv, PassedInv, Explained
<1>4. CurInv' /\ OffInv' /\ ManualInv'
  BY DEF IInv, CurInv, OffInv, ManualInv, AutoCommit
<1>5. QED
  BY <1>2, <1>3, <1>4 DEF IInv

LEMMA DecodeFailsIInv ==
    ASSUME IInv, NEW p \in Partitions, DecodeFails(p), UNCHANGED config
    PROVE  IInv'
<1> DEFINE r == <<p, cursor[p]>>
<1>1. r \in Records /\ r[2] = cursor[r[1]] /\ cursor[r[1]] < position[r[1]]
  BY CursorRecord DEF DecodeFails, IInv
<1>2. Dispose(r) \/ StopPartition(r)
  BY DEF DecodeFails
<1>3. /\ attempts' \in [Records -> Nat]
      /\ \A q \in Records : attempts'[q] = 0 \/ attempts'[q] < MaxAttempts
  BY DEF DecodeFails, IInv, TypeOK
<1> HIDE DEF r
<1>4. QED
  BY <1>1, <1>2, <1>3, DisposeIInv, StopPartitionIInv

LEMMA HandlerSucceedsIInv == IInv /\ HandlerSucceeds /\ UNCHANGED config => IInv'
<1> SUFFICES ASSUME IInv, HandlerSucceeds, UNCHANGED config PROVE IInv'
  OBVIOUS
<1>1. cur \in Records /\ cur[2] = cursor[cur[1]] /\ cursor[cur[1]] < position[cur[1]]
  BY DEF HandlerSucceeds, IInv, CurInv
<1>2. /\ attempts' \in [Records -> Nat]
      /\ \A q \in Records : attempts'[q] = 0 \/ attempts'[q] < MaxAttempts
  BY <1>1 DEF HandlerSucceeds, IInv, TypeOK
<1>3. QED
  BY <1>1, <1>2, DisposeIInv DEF HandlerSucceeds

LEMMA RetryIInv ==
    ASSUME IInv, pc = "handle", Retry, UNCHANGED config,
           attempts' \in [Records -> Nat],
           \A q \in Records : attempts'[q] = 0 \/ attempts'[q] < MaxAttempts
    PROVE  IInv'
<1>1. CASE ctxDone /\ StopPartition(cur)
  BY <1>1, StopPartitionIInv DEF IInv, CurInv
<1>2. CASE /\ pc' = "delay"
           /\ UNCHANGED <<committed, client, position, ctxDone, cursor, failed, cur, history>>
  <2>1. TypeOK'
    BY <1>2 DEF history, IInv, TypeOK, MaxAttempts
  <2>2. QED
    BY <1>2, <2>1, QuietIInv
<1>3. QED
  BY <1>1, <1>2 DEF Retry

LEMMA HandlerFailsIInv == IInv /\ HandlerFails /\ UNCHANGED config => IInv'
<1> SUFFICES ASSUME IInv, HandlerFails, UNCHANGED config PROVE IInv'
  OBVIOUS
<1>1. /\ pc = "handle"
      /\ cur \in Records /\ cur[2] = cursor[cur[1]] /\ cursor[cur[1]] < position[cur[1]]
  BY DEF HandlerFails, IInv, CurInv
<1>2. /\ attempts' \in [Records -> Nat]
      /\ \A q \in Records : attempts'[q] = 0 \/ attempts'[q] < MaxAttempts
  BY <1>1 DEF HandlerFails, IInv, TypeOK
<1>3. Retry \/ Dispose(cur) \/ StopPartition(cur)
  BY DEF HandlerFails
<1>4. QED
  BY <1>1, <1>2, <1>3, RetryIInv, DisposeIInv, StopPartitionIInv

LEMMA DelayIInv == IInv /\ Delay /\ UNCHANGED config => IInv'
<1> SUFFICES ASSUME IInv, Delay, UNCHANGED config PROVE IInv'
  OBVIOUS
<1>1. /\ pc = "delay"
      /\ cur \in Records /\ cur[2] = cursor[cur[1]] /\ cursor[cur[1]] < position[cur[1]]
  BY DEF Delay, IInv, CurInv
<1>2. /\ attempts' \in [Records -> Nat]
      /\ \A q \in Records : attempts'[q] = 0 \/ attempts'[q] < MaxAttempts
  BY DEF Delay, IInv, TypeOK
<1>3. CASE StopPartition(cur)
  BY <1>1, <1>2, <1>3, StopPartitionIInv
<1>4. CASE /\ pc' = "handle"
           /\ UNCHANGED <<committed, client, position, ctxDone, cursor, failed, cur, history>>
  <2>1. TypeOK'
    BY <1>2, <1>4 DEF history, IInv, TypeOK, MaxAttempts
  <2>2. QED
    BY <1>1, <1>4, <2>1, QuietIInv
<1>5. QED
  BY <1>3, <1>4 DEF Delay

LEMMA UserCommitIInv == IInv /\ UserCommit /\ UNCHANGED config => IInv'
<1> SUFFICES ASSUME IInv, UserCommit, UNCHANGED config PROVE IInv'
  OBVIOUS
<1> USE DEF UserCommit
<1>1. cur \in Records /\ cur[2] = cursor[cur[1]]
  BY DEF IInv, CurInv
<1>2. committed' \in OffsetMaps
  BY <1>1, PastRecord DEF IInv, TypeOK
<1>3. TypeOK'
  BY <1>1, <1>2 DEF IInv, TypeOK, MaxAttempts
<1>4. PassedInv'
  <2> SUFFICES ASSUME NEW r \in Records, r[2] < cursor[r[1]] \/ r[2] < committed'[r[1]]
               PROVE  r \in Explained'
    BY DEF PassedInv
  <2>1. r = cur \/ r[2] < cursor[r[1]] \/ r[2] < committed[r[1]]
    <3>1. /\ r[1] \in Partitions /\ r[2] \in Nat /\ r = <<r[1], r[2]>>
          /\ cur[1] \in Partitions /\ cur[2] \in Nat /\ cur = <<cur[1], cur[2]>>
      BY <1>1, RecordParts
    <3>2. cursor \in [Partitions -> Nat] /\ committed \in [Partitions -> Nat]
      BY DEF IInv, TypeOK, OffsetMaps
    <3>3. CASE r[1] = cur[1] /\ r[2] = cur[2]
      BY <3>1, <3>3
    <3>4. CASE r[1] # cur[1] \/ r[2] # cur[2]
      BY <1>1, <3>1, <3>2, <3>4
    <3>5. QED
      BY <3>3, <3>4
  <2>2. QED
    BY <2>1 DEF IInv, PassedInv, Explained
<1>5. ManualInv'
  <2>1. \A p \in Partitions : p # cur[1] => committed'[p] = committed[p]
    BY DEF IInv, TypeOK, OffsetMaps
  <2>2. committed'[cur[1]] = cur[2] + 1 /\ cur[2] \in Nat /\ cur = <<cur[1], cur[2]>>
    BY <1>1, RecordParts DEF IInv, TypeOK, OffsetMaps
  <2>3. <<cur[1], committed'[cur[1]] - 1>> \in byUser'
    BY <2>2
  <2>4. QED
    BY <2>1, <2>3 DEF IInv, ManualInv, AutoCommit
<1>6. CurInv' /\ OffInv'
  BY DEF IInv, CurInv, OffInv
<1>7. QED
  BY <1>3, <1>4, <1>5, <1>6 DEF IInv

\* Everything but the broker's offsets is lost, and those are explained.
LEMMA RestartIInv == IInv /\ Restart /\ UNCHANGED config => IInv'
<1> SUFFICES ASSUME IInv, Restart, UNCHANGED config PROVE IInv'
  OBVIOUS
<1> USE DEF Restart, history
<1>1. TypeOK'
  <2>1. \A p \in Partitions : cursor'[p] <= position'[p]
    BY DEF IInv, TypeOK, OffsetMaps
  <2>2. QED
    BY <2>1 DEF IInv, TypeOK, MaxAttempts
<1>2. PassedInv'
  BY DEF IInv, PassedInv, Explained
<1>3. CurInv' /\ OffInv' /\ ManualInv'
  BY DEF IInv, CurInv, OffInv, ManualInv, AutoCommit
<1>4. QED
  BY <1>1, <1>2, <1>3 DEF IInv

-----------------------------------------------------------------------------
LEMMA LoopStepIInv == IInv /\ LoopStep /\ UNCHANGED config => IInv'
<1> SUFFICES ASSUME IInv, LoopStep, UNCHANGED config PROVE IInv'
  OBVIOUS
<1>1. CASE LoopTop
  BY <1>1, ReturnIInv DEF LoopTop
<1>2. CASE PollFetches
  BY <1>2, PollFetchesIInv
<1>3. CASE PollInterrupted
  <2>1. TypeOK'
    BY <1>3 DEF PollInterrupted, history, IInv, TypeOK, MaxAttempts
  <2>2. QED
    BY <1>3, <2>1, QuietIInv DEF PollInterrupted
<1>4. CASE Fetched
  <2>1. CASE Return
    BY <2>1, ReturnIInv
  <2>2. CASE ~Return
    <3>1. TypeOK'
      BY <1>4, <2>2 DEF Fetched, history, IInv, TypeOK, MaxAttempts
    <3>2. QED
      BY <1>4, <2>2, <3>1, QuietIInv DEF Fetched
  <2>3. QED
    BY <2>1, <2>2
<1>5. CASE BatchEnd
  <2>1. TypeOK'
    BY <1>5 DEF BatchEnd, history, IInv, TypeOK, MaxAttempts
  <2>2. QED
    BY <1>5, <2>1, QuietIInv DEF BatchEnd
<1>6. CASE \E p \in Partitions : NextRecord(p) \/ PassOver(p) \/ DecodeFails(p)
  BY <1>6, NextRecordIInv, PassOverIInv, DecodeFailsIInv
<1>7. CASE Handler
  BY <1>7, HandlerSucceedsIInv, HandlerFailsIInv DEF Handler
<1>8. CASE Delay
  BY <1>8, DelayIInv
<1>9. QED
  BY <1>1, <1>2, <1>3, <1>4, <1>5, <1>6, <1>7, <1>8 DEF LoopStep

LEMMA NextIInv == IInv /\ [Next]_vars => IInv'
<1> SUFFICES ASSUME IInv, [Next]_vars PROVE IInv'
  OBVIOUS
<1>1. CASE Consume /\ UNCHANGED config
  BY <1>1, ConsumeIInv
<1>2. CASE Cancel /\ UNCHANGED config
  <2>1. TypeOK'
    BY <1>2 DEF Cancel, history, IInv, TypeOK, MaxAttempts
  <2>2. QED
    BY <1>2, <2>1, QuietIInv DEF Cancel
<1>3. CASE LoopStep /\ UNCHANGED config
  BY <1>3, LoopStepIInv
<1>4. CASE UserCommit /\ UNCHANGED config
  BY <1>4, UserCommitIInv
<1>5. CASE Stop /\ UNCHANGED config
  <2>1. TypeOK'
    BY <1>5 DEF Stop, history, IInv, TypeOK, MaxAttempts
  <2>2. QED
    BY <1>5, <2>1, QuietIInv DEF Stop
<1>6. CASE Restart /\ UNCHANGED config
  BY <1>6, RestartIInv
<1>7. CASE UNCHANGED vars
  <2>1. TypeOK'
    BY <1>7 DEF vars, history, IInv, TypeOK, MaxAttempts
  <2>2. QED
    BY <1>7, <2>1, QuietIInv DEF vars, history
<1>8. QED
  BY <1>1, <1>2, <1>3, <1>4, <1>5, <1>6, <1>7 DEF Next

LEMMA SpecIInv == Spec => []IInv
BY InitIInv, NextIInv, PTL DEF Spec

-----------------------------------------------------------------------------
\* Every reachable state is well typed: the loop never goes past what it has
\* polled, and no record has had as many failed attempts as it may have.
THEOREM TypeCorrect == Spec => []TypeOK
<1>1. IInv => TypeOK
  BY DEF IInv
<1>2. QED
  BY <1>1, SpecIInv, PTL

\* No offset is committed before its record has been handled, skipped on
\* purpose, committed by the handler, or left behind by a stop of its partition
\* or a shutdown; without AutoCommit the consumer commits nothing on its own.
THEOREM CommitsAreExplained == Spec => []CommitsExplained
<1>1. IInv => CommitsExplained
  BY DEF IInv, PassedInv, ManualInv, Explained, CommitsExplained
<1>2. QED
  BY <1>1, SpecIInv, PTL
=============================================================================
