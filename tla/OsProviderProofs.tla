--------------------------- MODULE OsProviderProofs ---------------------------
(***************************************************************************)
(* Proofs about the disk provider: the fallback of Move never removes the  *)
(* only copy (SourceSurvives), and what Copy, Move and a completed upload  *)
(* make appears whole and stays whole, which is AtomicStore                *)
(* (ImplementsStore); for any callers, paths, uploads, contents and        *)
(* number of crashes.                                                      *)
(***************************************************************************)
EXTENDS OsProvider, TLAPS, WellFoundedInduction, SequenceTheorems

-----------------------------------------------------------------------------
(* The inductive invariant. *)

File == Seq(Blocks)

StateInv ==
    /\ files \in [Names -> File \cup {NoFile}]
    /\ unsynced \subseteq {n \in Names : files[n] # NoFile}
    /\ pc \in [Calls -> {"idle", "write", "temp", "synced", "remove", "cleanup"}]
    /\ arg \in [Calls -> CallTypes \cup {NoCall}]
    /\ rest \in [Calls -> File]
    /\ todo \in [Calls -> Seq(Names)]
    /\ tmp \in [Calls -> File \cup {NoFile}]

(* A call was given arguments of its kind. *)
ArgInv(c) ==
    /\ pc[c] = "idle" <=> arg[c] = NoCall
    /\ pc[c] = "idle" => rest[c] = <<>>
    /\ pc[c] = "write" => arg[c].op = "write"
    /\ pc[c] \in {"temp", "synced"} => arg[c].op \in {"copy", "move", "complete"} /\ tmp[c] # NoFile
    /\ pc[c] = "remove" => arg[c].op = "move"
    /\ pc[c] = "cleanup" => arg[c].op = "complete"
    /\ pc[c] # "idle" /\ arg[c].op = "move" => arg[c].from # arg[c].to

(* What a temporary file is made from, and how far it has come: the files of done have been *)
(* read, and what has not been written of them is in rest.                                  *)
Sources(a) == IF a.op = "complete" THEN ChunkNames(a.id, a.list) ELSE <<a.from>>
Content(list) == FlattenSeq([j \in DOMAIN list |-> files[list[j]]])
AllPresent(list) == \A j \in DOMAIN list : files[list[j]] # NoFile

TempInv(c) ==
    /\ pc[c] = "temp" => \E done \in Seq(Names) :
          /\ Sources(arg[c]) = done \o todo[c]
          /\ AllPresent(done)
          /\ tmp[c] \o rest[c] = Content(done)
    /\ pc[c] = "synced" =>
          /\ AllPresent(Sources(arg[c]))
          /\ tmp[c] = Content(Sources(arg[c]))

WriteInv(c) == pc[c] = "write" => arg[c].to \in unsynced

RemoveInv(c) ==
    pc[c] = "remove" =>
        /\ files[arg[c].from] # NoFile
        /\ files[arg[c].to] = files[arg[c].from]
        /\ arg[c].to \notin unsynced

CallInv(c) == ArgInv(c) /\ TempInv(c) /\ WriteInv(c) /\ RemoveInv(c)

(* The calls under way keep out of each other's files. *)
ApartInv == \A c, d \in Calls : c # d => Compatible(arg[c], arg[d])

IInv == StateInv /\ ApartInv /\ \A c \in Calls : CallInv(c)

-----------------------------------------------------------------------------
(* FlattenSeq, which is defined by recursion over a sequence.  The least     *)
(* counterexample stands in for an induction.                                *)

LEMMA Least ==
    ASSUME NEW S \in SUBSET Nat, S # {}
    PROVE  \E m \in S : \A n \in S : m <= n
<1> DEFINE R == {ss \in Nat \X Nat : ss[1] < ss[2]}
<1>1. IsWellFoundedOn(R, Nat)
  BY NatLessThanWellFounded DEF OpToRel
<1>2. \A x, y \in S : ~(<<y, x>> \in R) => x <= y
  OBVIOUS
<1> HIDE DEF R
<1>3. \E x \in S : \A y \in S : ~(<<y, x>> \in R)
  BY <1>1, WFMin
<1>4. QED
  BY <1>2, <1>3

Flattens(f, n, seqs) ==
    f = [k \in 1 .. n |-> IF k = 1 THEN seqs[k] ELSE f[k - 1] \o seqs[k]]

LEMMA FlattensExists ==
    ASSUME NEW seqs
    PROVE  \A n \in Nat : \E f : Flattens(f, n, seqs)
<1> DEFINE S == {n \in Nat : ~\E f : Flattens(f, n, seqs)}
<1> SUFFICES ASSUME S # {} PROVE FALSE
  OBVIOUS
<1>1. PICK m \in S : \A n \in S : m <= n
  BY Least
<1>2. CASE m = 0
  <2>1. Flattens([k \in 1 .. 0 |-> 0], 0, seqs)
    BY DEF Flattens
  <2>2. QED
    BY <1>2, <2>1
<1>3. CASE m # 0
  <2>1. m - 1 \in Nat /\ m - 1 \notin S
    BY <1>1, <1>3
  <2>2. PICK f : Flattens(f, m - 1, seqs)
    BY <2>1
  <2> DEFINE g == [k \in 1 .. m |-> IF k = m THEN IF m = 1 THEN seqs[m] ELSE f[m - 1] \o seqs[m]
                                             ELSE f[k]]
  <2>3. ASSUME NEW k \in 1 .. m
        PROVE  g[k] = IF k = 1 THEN seqs[k] ELSE g[k - 1] \o seqs[k]
    <3>1. CASE k = m
      BY <1>1, <1>3, <3>1
    <3>2. CASE k # m
      <4>1. k \in 1 .. m - 1 /\ g[k] = f[k] /\ (k # 1 => k - 1 \in 1 .. m - 1 /\ g[k - 1] = f[k - 1])
        BY <1>1, <3>2
      <4>2. f[k] = IF k = 1 THEN seqs[k] ELSE f[k - 1] \o seqs[k]
        BY <2>2, <4>1 DEF Flattens
      <4>3. QED
        BY <4>1, <4>2
    <3>3. QED
      BY <3>1, <3>2
  <2>4. Flattens(g, m, seqs)
    BY <2>3, Zenon DEF Flattens
  <2>5. QED
    BY <2>4
<1>4. QED
  BY <1>2, <1>3

\* Two of them agree where both are defined.
LEMMA FlattensAgree ==
    ASSUME NEW s, NEW t, NEW m \in Nat, NEW n \in Nat, m <= n,
           \A k \in 1 .. m : s[k] = t[k],
           NEW f, Flattens(f, m, s), NEW g, Flattens(g, n, t)
    PROVE  \A k \in 1 .. m : f[k] = g[k]
<1> DEFINE S == {k \in 1 .. m : f[k] # g[k]}
<1>1. \A k \in 1 .. m :
        /\ f[k] = IF k = 1 THEN s[k] ELSE f[k - 1] \o s[k]
        /\ g[k] = IF k = 1 THEN t[k] ELSE g[k - 1] \o t[k]
  <2> TAKE k \in 1 .. m
  <2>1. k \in 1 .. n
    OBVIOUS
  <2>2. QED
    BY <2>1, Zenon DEF Flattens
<1> SUFFICES ASSUME S # {} PROVE FALSE
  OBVIOUS
<1>2. S \in SUBSET Nat
  OBVIOUS
<1> HIDE DEF S
<1>3. PICK k \in S : \A l \in S : k <= l
  BY <1>2, Least
<1>4. k \in 1 .. m /\ f[k] # g[k]
  BY DEF S
<1>5. k # 1 => k - 1 \in 1 .. m /\ f[k - 1] = g[k - 1]
  <2> SUFFICES ASSUME k # 1 PROVE k - 1 \in 1 .. m /\ f[k - 1] = g[k - 1]
    OBVIOUS
  <2>1. k - 1 \in 1 .. m /\ ~(k <= k - 1)
    BY <1>4
  <2>2. QED
    BY <1>3, <2>1 DEF S
<1>6. QED
  BY <1>1, <1>4, <1>5

LEMMA FlattenSeqIs ==
    ASSUME NEW X, NEW seqs \in Seq(X), seqs # <<>>,
           NEW f, Flattens(f, Len(seqs), seqs)
    PROVE  FlattenSeq(seqs) = f[Len(seqs)]
<1> DEFINE n == Len(seqs)
           g == CHOOSE g : Flattens(g, n, seqs)
<1>1. n \in Nat /\ n # 0 /\ n \in 1 .. n
  OBVIOUS
<1>2. Flattens(g, n, seqs)
  BY <1>1
<1>3. FlattenSeq(seqs) = g[n]
  BY <1>1 DEF FlattenSeq, Flattens
<1>4. QED
  BY <1>1, <1>2, <1>3, FlattensAgree

LEMMA FlattenOne ==
    ASSUME NEW e
    PROVE  FlattenSeq(<<e>>) = e
<1> DEFINE f == [k \in 1 .. 1 |-> e]
<1>1. Flattens(f, 1, <<e>>)
  BY DEF Flattens
<1>2. <<e>> \in Seq({e}) /\ <<e>> # <<>> /\ Len(<<e>>) = 1
  OBVIOUS
<1>3. f[1] = e
  OBVIOUS
<1> HIDE DEF f
<1>4. QED
  BY <1>1, <1>2, <1>3, FlattenSeqIs

LEMMA FlattenAppend ==
    ASSUME NEW X, NEW seqs \in Seq(X), NEW e \in X, seqs # <<>>
    PROVE  FlattenSeq(Append(seqs, e)) = FlattenSeq(seqs) \o e
<1> DEFINE n == Len(seqs)
           t == Append(seqs, e)
<1>1. n \in Nat /\ n # 0 /\ n + 1 \in Nat
  OBVIOUS
<1>2. t \in Seq(X) /\ t # <<>> /\ Len(t) = n + 1 /\ t[n + 1] = e
  OBVIOUS
<1>3. \A k \in 1 .. n : seqs[k] = t[k]
  OBVIOUS
<1>4. PICK f : Flattens(f, n, seqs)
  BY <1>1, FlattensExists
<1>5. PICK g : Flattens(g, n + 1, t)
  BY <1>1, FlattensExists
<1>6. FlattenSeq(seqs) = f[n]
  BY <1>4, FlattenSeqIs
<1> HIDE DEF t, n
<1>7. FlattenSeq(t) = g[n + 1]
  BY <1>2, <1>5, FlattenSeqIs
<1>8. f[n] = g[n]
  <2>1. n <= n + 1 /\ n \in 1 .. n
    BY <1>1
  <2>2. QED
    BY <1>1, <1>3, <1>4, <1>5, <2>1, FlattensAgree
<1>9. g[n + 1] = g[n] \o t[n + 1]
  <2>1. n + 1 \in 1 .. n + 1 /\ n + 1 # 1 /\ (n + 1) - 1 = n
    BY <1>1
  <2>2. g[n + 1] = IF n + 1 = 1 THEN t[n + 1] ELSE g[(n + 1) - 1] \o t[n + 1]
    BY <1>5, <2>1, Zenon DEF Flattens
  <2>3. QED
    BY <2>1, <2>2
<1>10. QED
  BY <1>2, <1>6, <1>7, <1>8, <1>9 DEF t

-----------------------------------------------------------------------------
(* What a call may touch *)

LEMMA Footprint ==
    ASSUME NEW a \in CallTypes
    PROVE  /\ a # NoCall
           /\ a.op = "write" =>
                 /\ Reads(a) = {} /\ Installs(a) = {} /\ Owns(a) = {a.to}
                 /\ a.to \in Names /\ a.data \in Contents
           /\ a.op = "copy" =>
                 /\ Reads(a) = {a.from} /\ Installs(a) = {a.to} /\ Owns(a) = {}
                 /\ a.from \in Names /\ a.to \in Paths
           /\ a.op = "move" =>
                 /\ Reads(a) = {} /\ Installs(a) = {} /\ Owns(a) = {a.from, a.to}
                 /\ a.from \in Names /\ a.to \in Paths
           /\ a.op = "complete" =>
                 /\ Reads(a) = {} /\ Installs(a) = {a.to} /\ Owns(a) = PartsOf(a.id)
                 /\ a.id \in Uploads /\ a.list \in ChunkLists /\ a.to \in Paths
           /\ a.op \in {"write", "copy", "move", "complete"}
BY AbsenceAssumption DEF CallTypes, Reads, Installs, Owns

LEMMA NoFootprint == Reads(NoCall) = {} /\ Installs(NoCall) = {} /\ Owns(NoCall) = {}
BY DEF Reads, Installs, Owns

LEMMA SourcesAre ==
    ASSUME NEW a \in CallTypes, a.op \in {"copy", "move", "complete"}
    PROVE  /\ Sources(a) \in Seq(Names)
           /\ \A j \in DOMAIN Sources(a) : Sources(a)[j] \in Reads(a) \cup Owns(a)
<1>1. CASE a.op = "complete"
  <2>1. a.id \in Uploads /\ a.list \in Seq(Numbers) /\ Owns(a) = PartsOf(a.id)
    BY <1>1, Footprint, OsAssumption
  <2>2. Sources(a) = [j \in 1 .. Len(a.list) |-> <<a.id, a.list[j]>>]
    BY <1>1, <2>1 DEF Sources, ChunkNames
  <2>3. \A j \in 1 .. Len(a.list) : <<a.id, a.list[j]>> \in PartsOf(a.id)
    BY <2>1 DEF PartsOf
  <2>4. PartsOf(a.id) \subseteq Names
    BY <2>1 DEF PartsOf, Parts, Names
  <2>5. QED
    BY <2>1, <2>2, <2>3, <2>4
<1>2. CASE a.op # "complete"
  BY <1>2, Footprint DEF Sources
<1>3. QED
  BY <1>1, <1>2

\* A call whose own state and whose files are left alone is as it was.
LEMMA CallKept ==
    ASSUME StateInv, NEW d \in Calls, CallInv(d),
           arg[d] = NoCall \/
           \A n \in Reads(arg[d]) \cup Owns(arg[d]) :
               files'[n] = files[n] /\ (n \in unsynced' <=> n \in unsynced),
           pc'[d] = pc[d], arg'[d] = arg[d], rest'[d] = rest[d], todo'[d] = todo[d], tmp'[d] = tmp[d]
    PROVE  CallInv(d)'
<1>1. ArgInv(d)'
  BY DEF CallInv, ArgInv
<1>2. CASE arg[d] = NoCall
  <2>1. pc[d] = "idle"
    BY <1>2 DEF CallInv, ArgInv
  <2>2. QED
    BY <1>1, <2>1 DEF CallInv, TempInv, WriteInv, RemoveInv
<1>3. CASE arg[d] # NoCall
  <2>1. arg[d] \in CallTypes
    BY <1>3 DEF StateInv
  <2>2. \A n \in Reads(arg[d]) \cup Owns(arg[d]) :
           files'[n] = files[n] /\ (n \in unsynced' <=> n \in unsynced)
    BY <1>3
  <2>3. WriteInv(d)'
    BY <2>1, <2>2, Footprint DEF CallInv, ArgInv, WriteInv
  <2>4. RemoveInv(d)'
    BY <2>1, <2>2, Footprint DEF CallInv, ArgInv, RemoveInv
  <2>5. TempInv(d)'
    <3>1. ASSUME pc[d] \in {"temp", "synced"}, NEW list \in Seq(Names), NEW tail \in Seq(Names),
                 Sources(arg[d]) = list \o tail
          PROVE  /\ AllPresent(list)' <=> AllPresent(list)
                 /\ Content(list)' = Content(list)
      <4>1. \A j \in DOMAIN list : j \in DOMAIN Sources(arg[d]) /\ list[j] = Sources(arg[d])[j]
        BY <3>1
      <4>2. \A j \in DOMAIN list : files'[list[j]] = files[list[j]]
        BY <2>1, <2>2, <3>1, <4>1, SourcesAre DEF CallInv, ArgInv
      <4>3. [j \in DOMAIN list |-> files'[list[j]]] = [j \in DOMAIN list |-> files[list[j]]]
        BY <4>2
      <4>4. QED
        BY <4>2, <4>3 DEF AllPresent, Content
    <3>2. CASE pc[d] = "temp"
      <4>1. PICK done \in Seq(Names) : /\ Sources(arg[d]) = done \o todo[d]
                                       /\ AllPresent(done)
                                       /\ tmp[d] \o rest[d] = Content(done)
        BY <3>2 DEF CallInv, TempInv
      <4>2. todo[d] \in Seq(Names)
        BY DEF StateInv
      <4>3. AllPresent(done)' /\ Content(done)' = Content(done)
        BY <3>1, <3>2, <4>1, <4>2
      <4>4. Sources(arg'[d]) = done \o todo'[d] /\ tmp'[d] \o rest'[d] = Content(done)'
        BY <4>1, <4>3
      <4>5. QED
        BY <3>2, <4>3, <4>4 DEF TempInv
    <3>3. CASE pc[d] = "synced"
      <4>1. Sources(arg[d]) \in Seq(Names)
        BY <2>1, <3>3, SourcesAre DEF CallInv, ArgInv
      <4>2. Sources(arg[d]) = Sources(arg[d]) \o <<>> /\ <<>> \in Seq(Names)
        BY <4>1
      <4>3. /\ AllPresent(Sources(arg[d]))' <=> AllPresent(Sources(arg[d]))
            /\ Content(Sources(arg[d]))' = Content(Sources(arg[d]))
        <5> DEFINE list == Sources(arg[d])
        <5>1. \A j \in DOMAIN list : files'[list[j]] = files[list[j]]
          BY <2>1, <2>2, <3>3, SourcesAre DEF CallInv, ArgInv
        <5>2. arg'[d] = arg[d]
          OBVIOUS
        <5>3. Sources(arg[d])' = list
          BY <5>2 DEF Sources, ChunkNames
        <5> HIDE DEF list
        <5>4. [j \in DOMAIN list |-> files'[list[j]]] = [j \in DOMAIN list |-> files[list[j]]]
          BY <5>1
        <5>5. QED
          BY <5>1, <5>3, <5>4 DEF AllPresent, Content, list
      <4>4. QED
        BY <3>3, <4>3 DEF CallInv, TempInv, Sources, ChunkNames
    <3>4. QED
      BY <3>2, <3>3 DEF TempInv
  <2>6. QED
    BY <1>1, <2>3, <2>4, <2>5 DEF CallInv
<1>4. QED
  BY <1>2, <1>3

-----------------------------------------------------------------------------
(* A step of one call *)

\* It touches nothing outside what the arguments a let it touch.
LEMMA StepIInv ==
    ASSUME IInv, NEW c \in Calls, NEW a \in CallTypes,
           \A d \in Calls \ {c} : Compatible(a, arg[d]),
           \A n \in Names \ (Owns(a) \cup Installs(a)) :
               files'[n] = files[n] /\ (n \in unsynced' <=> n \in unsynced),
           \A d \in Calls \ {c} : /\ pc'[d] = pc[d] /\ arg'[d] = arg[d] /\ rest'[d] = rest[d]
                                  /\ todo'[d] = todo[d] /\ tmp'[d] = tmp[d],
           arg'[c] \in {a, NoCall},
           StateInv', CallInv(c)'
    PROVE  IInv'
<1>1. ASSUME NEW d \in Calls \ {c} PROVE CallInv(d)'
  <2>1. CASE arg[d] = NoCall
    BY <2>1, CallKept DEF IInv
  <2>2. CASE arg[d] # NoCall
    <3>1. arg[d] \in CallTypes /\ Compatible(a, arg[d])
      BY <2>2 DEF IInv, StateInv
    <3>2. Reads(arg[d]) \cup Owns(arg[d]) \subseteq Names
      BY <3>1, Footprint DEF Names, PartsOf, Parts
    <3>3. \A n \in Reads(arg[d]) \cup Owns(arg[d]) : n \notin Owns(a) \cup Installs(a)
      BY <3>1 DEF Compatible
    <3>4. \A n \in Reads(arg[d]) \cup Owns(arg[d]) :
             files'[n] = files[n] /\ (n \in unsynced' <=> n \in unsynced)
      BY <3>2, <3>3
    <3>5. QED
      BY <3>4, CallKept DEF IInv
  <2>3. QED
    BY <2>1, <2>2
<1>2. ASSUME NEW d \in Calls, NEW e \in Calls, d # e PROVE Compatible(arg'[d], arg'[e])
  <2>1. \A x : Compatible(NoCall, x) /\ Compatible(x, NoCall)
    BY NoFootprint DEF Compatible
  <2>2. \A x, y : Compatible(x, y) => Compatible(y, x)
    BY DEF Compatible
  <2>3. CASE d # c /\ e # c
    BY <1>2, <2>3 DEF IInv, ApartInv
  <2>4. CASE d = c
    BY <1>2, <2>1, <2>4
  <2>5. CASE e = c
    BY <1>2, <2>1, <2>2, <2>5
  <2>6. QED
    BY <2>3, <2>4, <2>5
<1>3. ApartInv'
  BY <1>2 DEF ApartInv
<1>4. \A d \in Calls : CallInv(d)'
  BY <1>1
<1>5. QED
  BY <1>3, <1>4 DEF IInv

LEMMA MayCallApart ==
    ASSUME NEW c \in Calls, NEW a, MayCall(c, a)
    PROVE  pc[c] = "idle" /\ \A d \in Calls \ {c} : Compatible(a, arg[d])
BY DEF MayCall

LEMMA CallApart ==
    ASSUME IInv, NEW c \in Calls, pc[c] # "idle"
    PROVE  arg[c] \in CallTypes /\ \A d \in Calls \ {c} : Compatible(arg[c], arg[d])
BY DEF IInv, StateInv, ApartInv, CallInv, ArgInv

\* The call returns.
LEMMA ReturnEffect ==
    ASSUME StateInv, NEW c \in Calls, Return(c)
    PROVE  /\ pc' \in [Calls -> {"idle", "write", "temp", "synced", "remove", "cleanup"}]
           /\ arg' \in [Calls -> CallTypes \cup {NoCall}]
           /\ rest' \in [Calls -> File]
           /\ todo' \in [Calls -> Seq(Names)]
           /\ tmp' \in [Calls -> File \cup {NoFile}]
           /\ arg'[c] = NoCall
           /\ CallInv(c)'
           /\ \A d \in Calls \ {c} : /\ pc'[d] = pc[d] /\ arg'[d] = arg[d] /\ rest'[d] = rest[d]
                                     /\ todo'[d] = todo[d] /\ tmp'[d] = tmp[d]
<1>1. <<>> \in File /\ <<>> \in Seq(Names)
  BY DEF File
<1>2. /\ pc' \in [Calls -> {"idle", "write", "temp", "synced", "remove", "cleanup"}]
      /\ arg' \in [Calls -> CallTypes \cup {NoCall}]
      /\ rest' \in [Calls -> File]
      /\ todo' \in [Calls -> Seq(Names)]
      /\ tmp' \in [Calls -> File \cup {NoFile}]
  BY <1>1 DEF StateInv, Return
<1>3. pc'[c] = "idle" /\ arg'[c] = NoCall /\ rest'[c] = <<>>
  BY DEF StateInv, Return
<1>4. CallInv(c)'
  BY <1>3 DEF CallInv, ArgInv, TempInv, WriteInv, RemoveInv
<1>5. \A d \in Calls \ {c} : /\ pc'[d] = pc[d] /\ arg'[d] = arg[d] /\ rest'[d] = rest[d]
                             /\ todo'[d] = todo[d] /\ tmp'[d] = tmp[d]
  BY DEF StateInv, Return
<1>6. QED
  BY <1>2, <1>3, <1>4, <1>5

LEMMA ReturnsIInv ==
    ASSUME IInv, NEW c \in Calls, pc[c] # "idle", Return(c),
           files' \in [Names -> File \cup {NoFile}],
           unsynced' \subseteq {n \in Names : files'[n] # NoFile},
           \A n \in Names \ (Owns(arg[c]) \cup Installs(arg[c])) :
               files'[n] = files[n] /\ (n \in unsynced' <=> n \in unsynced)
    PROVE  IInv'
<1>1. StateInv
  BY DEF IInv
<1>2. StateInv'
  BY <1>1, ReturnEffect DEF StateInv
<1>3. QED
  BY <1>1, <1>2, CallApart, ReturnEffect, StepIInv

LEMMA RemoveAllEffect ==
    ASSUME StateInv, NEW ns, RemoveAll(ns)
    PROVE  /\ files' \in [Names -> File \cup {NoFile}]
           /\ unsynced' \subseteq {n \in Names : files'[n] # NoFile}
           /\ \A n \in Names \ ns : files'[n] = files[n] /\ (n \in unsynced' <=> n \in unsynced)
BY DEF StateInv, RemoveAll

LEMMA RemoveSourceIInv ==
    ASSUME IInv, NEW c \in Calls, RemoveSource(c) \/ RemoveSourceFails(c)
    PROVE  IInv'
<1>1. pc[c] = "remove" /\ Return(c)
  BY DEF RemoveSource, RemoveSourceFails
<1>2. CASE RemoveSource(c)
  <2>1. arg[c].from \in Owns(arg[c])
    BY <1>1, CallApart, Footprint DEF IInv, CallInv, ArgInv
  <2>2. QED
    BY <1>1, <1>2, <2>1, RemoveAllEffect, ReturnsIInv DEF RemoveSource, IInv
<1>3. CASE RemoveSourceFails(c)
  BY <1>1, <1>3, ReturnsIInv DEF RemoveSourceFails, IInv, StateInv
<1>4. QED
  BY <1>2, <1>3

LEMMA CleanupIInv ==
    ASSUME IInv, NEW c \in Calls, CleanupMultipartDir(c)
    PROVE  IInv'
<1>1. pc[c] = "cleanup" /\ Return(c)
  BY DEF CleanupMultipartDir
<1>2. PICK ns \in SUBSET PartsOf(arg[c].id) : RemoveAll(ns)
  BY DEF CleanupMultipartDir
<1>3. ns \subseteq Owns(arg[c])
  BY <1>1, CallApart, Footprint DEF IInv, CallInv, ArgInv
<1>4. QED
  BY <1>1, <1>2, <1>3, RemoveAllEffect, ReturnsIInv DEF IInv

LEMMA GiveUpIInv ==
    ASSUME IInv, NEW c \in Calls, GiveUp(c) \/ WriteReturns(c)
    PROVE  IInv'
BY ReturnsIInv DEF GiveUp, WriteReturns, IInv, StateInv

-----------------------------------------------------------------------------
(* The content of a list of files *)

LEMMA ContentOne ==
    ASSUME NEW n \in Names
    PROVE  Content(<<n>>) = files[n]
<1>1. [j \in DOMAIN <<n>> |-> files[<<n>>[j]]] = <<files[n]>>
  OBVIOUS
<1>2. QED
  BY <1>1, FlattenOne DEF Content

LEMMA ContentAppend ==
    ASSUME StateInv, NEW list \in Seq(Names), AllPresent(list),
           NEW n \in Names, files[n] # NoFile
    PROVE  Content(Append(list, n)) = Content(list) \o files[n]
<1> DEFINE s == [j \in 1 .. Len(list) |-> files[list[j]]]
<1>1. files[n] \in File
  BY DEF StateInv
<1>2. \A j \in 1 .. Len(list) : files[list[j]] \in File
  BY DEF StateInv, AllPresent
<1>3. s \in Seq(File) /\ Len(s) = Len(list)
  BY <1>2
<1>4. [j \in DOMAIN Append(list, n) |-> files[Append(list, n)[j]]] = Append(s, files[n])
  OBVIOUS
<1>5. [j \in DOMAIN list |-> files[list[j]]] = s
  OBVIOUS
<1>6. CASE list = <<>>
  <2>1. Append(list, n) = <<n>> /\ s = <<>>
    BY <1>3, <1>6
  <2>2. Content(list) = <<>>
    BY <1>5, <2>1 DEF Content, FlattenSeq
  <2>3. <<>> \o files[n] = files[n]
    BY <1>1 DEF File
  <2>4. QED
    BY <2>1, <2>2, <2>3, ContentOne
<1>7. CASE list # <<>>
  <2>1. s # <<>>
    BY <1>3, <1>7
  <2> HIDE DEF s
  <2>2. FlattenSeq(Append(s, files[n])) = FlattenSeq(s) \o files[n]
    BY <1>1, <1>3, <2>1, FlattenAppend
  <2>3. QED
    BY <1>4, <1>5, <2>2 DEF Content
<1>8. QED
  BY <1>6, <1>7

LEMMA MoveBlock ==
    ASSUME NEW X, NEW s \in Seq(X), NEW t \in Seq(X), t # <<>>
    PROVE  /\ Append(s, Head(t)) \in Seq(X) /\ Tail(t) \in Seq(X)
           /\ Append(s, Head(t)) \o Tail(t) = s \o t
<1>1. Head(t) \in X /\ Tail(t) \in Seq(X) /\ Append(s, Head(t)) \in Seq(X)
  OBVIOUS
<1>2. Len(Append(s, Head(t)) \o Tail(t)) = Len(s \o t)
  BY <1>1
<1>3. \A j \in 1 .. Len(s \o t) : (Append(s, Head(t)) \o Tail(t))[j] = (s \o t)[j]
  BY <1>1
<1>4. Append(s, Head(t)) \o Tail(t) \in Seq(X) /\ s \o t \in Seq(X)
  BY <1>1
<1>5. QED
  BY <1>2, <1>3, <1>4, SeqEqual

-----------------------------------------------------------------------------
(* Write *)

\* One file gets a new content.
LEMMA PutEffect ==
    ASSUME StateInv, NEW n \in Names, NEW content \in File,
           files' = [files EXCEPT ![n] = content],
           unsynced' \in {unsynced, unsynced \cup {n}, unsynced \ {n}}
    PROVE  /\ files' \in [Names -> File \cup {NoFile}]
           /\ unsynced' \subseteq {m \in Names : files'[m] # NoFile}
           /\ files'[n] = content
           /\ \A m \in Names \ {n} : files'[m] = files[m] /\ (m \in unsynced' <=> m \in unsynced)
BY AbsenceAssumption DEF StateInv, File

LEMMA WriteIInv ==
    ASSUME IInv, NEW c \in Calls, NEW data \in Contents, NEW name \in Names, Write(c, data, name)
    PROVE  IInv'
<1> DEFINE a == [op |-> "write", data |-> data, to |-> name]
<1>1. a \in CallTypes /\ a # NoCall /\ a.op = "write" /\ a.to = name
  BY AbsenceAssumption DEF CallTypes
<1>2. Owns(a) = {name} /\ Installs(a) = {}
  BY <1>1, Footprint
<1>3. /\ MayCall(c, a)
      /\ files' = [files EXCEPT ![name] = <<>>]
      /\ unsynced' = unsynced \cup {name}
      /\ pc' = [pc EXCEPT ![c] = "write"]
      /\ arg' = [arg EXCEPT ![c] = a]
      /\ rest' = [rest EXCEPT ![c] = data]
      /\ UNCHANGED <<todo, tmp, crashes>>
  BY DEF Write
<1> HIDE DEF a
<1>4. StateInv /\ <<>> \in File /\ data \in File
  BY AbsenceAssumption DEF IInv, File
<1>5. /\ files' \in [Names -> File \cup {NoFile}]
      /\ unsynced' \subseteq {m \in Names : files'[m] # NoFile}
      /\ \A m \in Names \ {name} : files'[m] = files[m] /\ (m \in unsynced' <=> m \in unsynced)
  BY <1>3, <1>4, PutEffect
<1>6. StateInv'
  BY <1>1, <1>3, <1>4, <1>5 DEF StateInv
<1>7. pc'[c] = "write" /\ arg'[c] = a
  BY <1>3, <1>4 DEF StateInv
<1>8. CallInv(c)'
  <2>1. arg'[c].op = "write" /\ arg'[c].to = name /\ arg'[c] # NoCall /\ name \in unsynced'
    BY <1>1, <1>3, <1>7
  <2>2. QED
    BY <1>7, <2>1 DEF CallInv, ArgInv, TempInv, WriteInv, RemoveInv
<1>9. \A d \in Calls \ {c} : Compatible(a, arg[d])
  BY <1>3, MayCallApart
<1>10. \A d \in Calls \ {c} : /\ pc'[d] = pc[d] /\ arg'[d] = arg[d] /\ rest'[d] = rest[d]
                              /\ todo'[d] = todo[d] /\ tmp'[d] = tmp[d]
  BY <1>3, <1>4 DEF StateInv
<1>11. QED
  BY <1>1, <1>2, <1>5, <1>6, <1>7, <1>8, <1>9, <1>10, StepIInv

LEMMA WriteBlockIInv ==
    ASSUME IInv, NEW c \in Calls, WriteBlock(c)
    PROVE  IInv'
<1> DEFINE n == arg[c].to
<1>1. /\ pc[c] = "write" /\ rest[c] # <<>>
      /\ files' = [files EXCEPT ![n] = Append(files[n], Head(rest[c]))]
      /\ rest' = [rest EXCEPT ![c] = Tail(@)]
      /\ UNCHANGED <<unsynced, pc, arg, todo, tmp>>
  BY DEF WriteBlock
<1>2. StateInv /\ arg[c] \in CallTypes /\ arg[c].op = "write"
  BY <1>1, CallApart DEF IInv, CallInv, ArgInv
<1>3. n \in Names /\ Owns(arg[c]) = {n} /\ Installs(arg[c]) = {} /\ n \in unsynced
  BY <1>1, <1>2, Footprint DEF IInv, CallInv, WriteInv
<1>4. files[n] \in File /\ rest[c] \in File
  BY <1>2, <1>3 DEF StateInv
<1>5. Append(files[n], Head(rest[c])) \in File /\ Tail(rest[c]) \in File
  BY <1>1, <1>4, MoveBlock DEF File
<1>6. /\ files' \in [Names -> File \cup {NoFile}]
      /\ unsynced' \subseteq {m \in Names : files'[m] # NoFile}
      /\ \A m \in Names \ {n} : files'[m] = files[m] /\ (m \in unsynced' <=> m \in unsynced)
  BY <1>1, <1>2, <1>3, <1>5, PutEffect
<1>7. StateInv'
  BY <1>1, <1>2, <1>5, <1>6 DEF StateInv
<1>8. CallInv(c)'
  BY <1>1, <1>2, <1>3 DEF IInv, CallInv, ArgInv, TempInv, WriteInv, RemoveInv
<1>9. \A d \in Calls \ {c} : Compatible(arg[c], arg[d])
  BY <1>1, CallApart
<1>10. \A d \in Calls \ {c} : /\ pc'[d] = pc[d] /\ arg'[d] = arg[d] /\ rest'[d] = rest[d]
                              /\ todo'[d] = todo[d] /\ tmp'[d] = tmp[d]
  BY <1>1, <1>2 DEF StateInv
<1>11. QED
  BY <1>1, <1>2, <1>3, <1>6, <1>7, <1>8, <1>9, <1>10, StepIInv

-----------------------------------------------------------------------------
(* The temporary file *)

LEMMA StartTempIInv ==
    ASSUME IInv, NEW c \in Calls, NEW a \in CallTypes, MayCall(c, a),
           a.op \in {"copy", "move", "complete"},
           a.op = "move" => a.from # a.to,
           StartTemp(c, a, Sources(a))
    PROVE  IInv'
<1> USE DEF StartTemp
<1>1. /\ StateInv /\ <<>> \in File /\ <<>> \in Seq(Names) /\ Sources(a) \in Seq(Names)
      /\ a # NoCall
  BY SourcesAre, Footprint DEF IInv, File
<1>2. StateInv'
  BY <1>1 DEF StateInv
<1>3. /\ pc'[c] = "temp" /\ arg'[c] = a /\ rest'[c] = rest[c]
      /\ todo'[c] = Sources(a) /\ tmp'[c] = <<>>
  BY <1>1 DEF StateInv
<1>4. rest[c] = <<>>
  BY MayCallApart DEF IInv, CallInv, ArgInv
<1>5. TempInv(c)'
  <2>1. Content(<<>>) = <<>>
    BY DEF Content, FlattenSeq
  <2>2. Content(<<>>)' = <<>>
    BY <2>1 DEF Content
  <2>3. Sources(arg'[c]) = <<>> \o todo'[c]
    BY <1>1, <1>3
  <2>4. AllPresent(<<>>)'
    BY DEF AllPresent
  <2>5. tmp'[c] \o rest'[c] = <<>>
    BY <1>3, <1>4
  <2>6. QED
    BY <1>1, <1>3, <2>2, <2>3, <2>4, <2>5 DEF TempInv
<1>6. CallInv(c)'
  <2>1. <<>> # NoFile
    BY <1>1, AbsenceAssumption DEF File
  <2>2. QED
    BY <1>1, <1>3, <1>4, <1>5, <2>1 DEF CallInv, ArgInv, WriteInv, RemoveInv
<1>7. \A d \in Calls \ {c} : Compatible(a, arg[d])
  BY MayCallApart
<1>8. \A d \in Calls \ {c} : /\ pc'[d] = pc[d] /\ arg'[d] = arg[d] /\ rest'[d] = rest[d]
                             /\ todo'[d] = todo[d] /\ tmp'[d] = tmp[d]
  BY <1>1 DEF StateInv
<1>9. QED
  BY <1>2, <1>3, <1>6, <1>7, <1>8, StepIInv

LEMMA CopyIInv ==
    ASSUME IInv, NEW c \in Calls, NEW from \in Paths, NEW to \in Paths, Copy(c, from, to)
    PROVE  IInv'
<1> DEFINE a == [op |-> "copy", from |-> from, to |-> to]
<1>1. a \in CallTypes /\ a.op = "copy"
  BY DEF CallTypes, Names
<1>2. Sources(a) = <<from>>
  BY DEF Sources
<1>3. MayCall(c, a) /\ StartTemp(c, a, <<from>>)
  BY DEF Copy
<1> HIDE DEF a
<1>4. QED
  BY <1>1, <1>2, <1>3, StartTempIInv

LEMMA MoveFallsBackIInv ==
    ASSUME IInv, NEW c \in Calls, NEW from \in Paths, NEW to \in Paths, MoveFallsBack(c, from, to)
    PROVE  IInv'
<1> DEFINE a == [op |-> "move", from |-> from, to |-> to]
<1>1. a \in CallTypes /\ a.op = "move" /\ a.from # a.to
  BY DEF CallTypes, Names, MoveFallsBack
<1>2. Sources(a) = <<from>>
  BY DEF Sources
<1>3. MayCall(c, a) /\ StartTemp(c, a, <<from>>)
  BY DEF MoveFallsBack
<1> HIDE DEF a
<1>4. QED
  BY <1>1, <1>2, <1>3, StartTempIInv

LEMMA CompleteIInv ==
    ASSUME IInv, NEW c \in Calls, NEW u \in Uploads, NEW list \in ChunkLists,
           CompleteMultipartUpload(c, u, list)
    PROVE  IInv'
<1> DEFINE a == [op |-> "complete", id |-> u, list |-> list, to |-> PathOf[u]]
<1>1. a \in CallTypes /\ a.op = "complete"
  BY OsAssumption DEF CallTypes
<1>2. Sources(a) = ChunkNames(u, list)
  BY DEF Sources
<1>3. MayCall(c, a) /\ StartTemp(c, a, ChunkNames(u, list))
  BY DEF CompleteMultipartUpload
<1> HIDE DEF a
<1>4. QED
  BY <1>1, <1>2, <1>3, StartTempIInv

\* A step that only moves the call on.
LEMMA LocalIInv ==
    ASSUME IInv, NEW c \in Calls, pc[c] # "idle", UNCHANGED <<files, unsynced, arg>>,
           \A d \in Calls \ {c} : /\ pc'[d] = pc[d] /\ rest'[d] = rest[d]
                                  /\ todo'[d] = todo[d] /\ tmp'[d] = tmp[d],
           StateInv', CallInv(c)'
    PROVE  IInv'
BY CallApart, StepIInv

LEMMA OpenNextIInv ==
    ASSUME IInv, NEW c \in Calls, OpenNext(c)
    PROVE  IInv'
<1> USE DEF OpenNext
<1> DEFINE n == Head(todo[c])
<1>1. StateInv /\ CallInv(c) /\ todo[c] \in Seq(Names) /\ tmp[c] \in File
  BY DEF IInv, StateInv, CallInv, ArgInv
<1>2. n \in Names /\ Tail(todo[c]) \in Seq(Names) /\ files[n] \in File
  BY <1>1 DEF StateInv
<1>3. StateInv'
  BY <1>1, <1>2 DEF StateInv
<1>4. pc'[c] = "temp" /\ arg'[c] = arg[c] /\ rest'[c] = files[n] /\ todo'[c] = Tail(todo[c]) /\ tmp'[c] = tmp[c]
  BY <1>1 DEF StateInv
<1>5. TempInv(c)'
  <2>1. PICK done \in Seq(Names) : /\ Sources(arg[c]) = done \o todo[c]
                                   /\ AllPresent(done)
                                   /\ tmp[c] \o rest[c] = Content(done)
    BY <1>1 DEF CallInv, TempInv
  <2>next. /\ Append(done, n) \in Seq(Names)
           /\ Append(done, n) \o Tail(todo[c]) = done \o todo[c]
    BY <1>1, MoveBlock
  <2>2. PICK more \in Seq(Names) : more = Append(done, n)
    BY <2>next, Zenon
  <2>3. more \o Tail(todo[c]) = done \o todo[c]
    BY <2>next, <2>2
  <2>4. AllPresent(more)
    BY <1>2, <2>1, <2>2 DEF AllPresent
  <2>5. tmp[c] \o files[n] = Content(more)
    <3>1. tmp[c] = Content(done)
      BY <1>1, <2>1 DEF File
    <3>2. QED
      BY <1>1, <1>2, <2>1, <2>2, <3>1, ContentAppend
  <2>6. AllPresent(more)' /\ Content(more)' = Content(more)
    BY <2>4 DEF AllPresent, Content
  <2>7. Sources(arg'[c]) = more \o todo'[c] /\ tmp'[c] \o rest'[c] = Content(more)'
    BY <1>4, <2>1, <2>3, <2>5, <2>6
  <2>8. QED
    BY <1>4, <2>2, <2>6, <2>7 DEF TempInv
<1>6. CallInv(c)'
  BY <1>1, <1>4, <1>5 DEF CallInv, ArgInv, WriteInv, RemoveInv
<1>7. \A d \in Calls \ {c} : /\ pc'[d] = pc[d] /\ rest'[d] = rest[d]
                             /\ todo'[d] = todo[d] /\ tmp'[d] = tmp[d]
  BY <1>1 DEF StateInv
<1>8. QED
  BY <1>3, <1>6, <1>7, LocalIInv

LEMMA TempBlockIInv ==
    ASSUME IInv, NEW c \in Calls, TempBlock(c)
    PROVE  IInv'
<1> USE DEF TempBlock
<1>1. StateInv /\ CallInv(c) /\ tmp[c] \in File /\ rest[c] \in File
  BY DEF IInv, StateInv, CallInv, ArgInv
<1>2. /\ Append(tmp[c], Head(rest[c])) \in File /\ Tail(rest[c]) \in File
      /\ Append(tmp[c], Head(rest[c])) \o Tail(rest[c]) = tmp[c] \o rest[c]
  BY <1>1, MoveBlock DEF File
<1>3. StateInv'
  BY <1>1, <1>2 DEF StateInv
<1>4. /\ pc'[c] = "temp" /\ arg'[c] = arg[c] /\ todo'[c] = todo[c]
      /\ tmp'[c] = Append(tmp[c], Head(rest[c])) /\ rest'[c] = Tail(rest[c])
  BY <1>1 DEF StateInv
<1>5. TempInv(c)'
  <2>1. tmp'[c] \o rest'[c] = tmp[c] \o rest[c]
    BY <1>2, <1>4
  <2>2. QED
    BY <1>1, <1>4, <2>1 DEF CallInv, TempInv, AllPresent, Content, Sources, ChunkNames
<1>6. CallInv(c)'
  <2>1. tmp'[c] # NoFile
    BY <1>2, <1>4, AbsenceAssumption DEF File
  <2>2. QED
    BY <1>1, <1>4, <1>5, <2>1 DEF CallInv, ArgInv, WriteInv, RemoveInv
<1>7. \A d \in Calls \ {c} : /\ pc'[d] = pc[d] /\ rest'[d] = rest[d]
                             /\ todo'[d] = todo[d] /\ tmp'[d] = tmp[d]
  BY <1>1 DEF StateInv
<1>8. QED
  BY <1>3, <1>6, <1>7, LocalIInv

LEMMA SyncTempIInv ==
    ASSUME IInv, NEW c \in Calls, SyncTemp(c)
    PROVE  IInv'
<1> USE DEF SyncTemp
<1>1. StateInv /\ CallInv(c) /\ tmp[c] \in File
  BY DEF IInv, StateInv, CallInv, ArgInv
<1>2. StateInv'
  BY <1>1 DEF StateInv
<1>3. pc'[c] = "synced" /\ arg'[c] = arg[c] /\ tmp'[c] = tmp[c] /\ rest'[c] = rest[c]
  BY <1>1 DEF StateInv
<1>4. TempInv(c)'
  <2>1. PICK done \in Seq(Names) : /\ Sources(arg[c]) = done \o todo[c]
                                   /\ AllPresent(done)
                                   /\ tmp[c] \o rest[c] = Content(done)
    BY <1>1 DEF CallInv, TempInv
  <2>2. Sources(arg[c]) = done /\ tmp[c] = Content(done)
    BY <1>1, <2>1 DEF File
  <2>3. AllPresent(done)' /\ Content(done)' = Content(done)
    BY <2>1 DEF AllPresent, Content
  <2>4. Sources(arg[c])' = done
    BY <2>2 DEF Sources, ChunkNames
  <2>5. AllPresent(Sources(arg[c]))' /\ tmp'[c] = Content(Sources(arg[c]))'
    BY <1>3, <2>2, <2>3, <2>4 DEF AllPresent, Content
  <2>6. QED
    BY <1>3, <2>5 DEF TempInv
<1>5. CallInv(c)'
  BY <1>1, <1>3, <1>4 DEF CallInv, ArgInv, WriteInv, RemoveInv
<1>6. \A d \in Calls \ {c} : /\ pc'[d] = pc[d] /\ rest'[d] = rest[d]
                             /\ todo'[d] = todo[d] /\ tmp'[d] = tmp[d]
  BY <1>1 DEF StateInv
<1>7. QED
  BY <1>2, <1>5, <1>6, LocalIInv

\* What the temporary file holds when it is renamed.
LEMMA SyncedTemp ==
    ASSUME IInv, NEW c \in Calls, pc[c] = "synced"
    PROVE  /\ arg[c] \in CallTypes /\ arg[c].op \in {"copy", "move", "complete"}
           /\ arg[c].to \in Owns(arg[c]) \cup Installs(arg[c])
           /\ arg[c].to \in Names
           /\ tmp[c] \in File
           /\ tmp[c] = Content(Sources(arg[c])) /\ AllPresent(Sources(arg[c]))
           /\ arg[c].op \in {"copy", "move"} =>
                 arg[c].from \in Names /\ files[arg[c].from] # NoFile /\ tmp[c] = files[arg[c].from]
<1>1. /\ arg[c] \in CallTypes /\ arg[c].op \in {"copy", "move", "complete"}
      /\ tmp[c] = Content(Sources(arg[c])) /\ AllPresent(Sources(arg[c]))
      /\ tmp[c] \in File
  BY CallApart DEF IInv, StateInv, CallInv, ArgInv, TempInv
<1>2. arg[c].to \in Owns(arg[c]) \cup Installs(arg[c]) /\ arg[c].to \in Names
  BY <1>1, Footprint DEF Names
<1>3. ASSUME arg[c].op \in {"copy", "move"}
      PROVE  arg[c].from \in Names /\ files[arg[c].from] # NoFile /\ tmp[c] = files[arg[c].from]
  <2>1. Sources(arg[c]) = <<arg[c].from>> /\ arg[c].from \in Names
    BY <1>1, <1>3, Footprint DEF Sources
  <2>2. Content(<<arg[c].from>>) = files[arg[c].from]
    BY <2>1, ContentOne
  <2>3. QED
    BY <1>1, <2>1, <2>2 DEF AllPresent
<1>4. QED
  BY <1>1, <1>2, <1>3

LEMMA RenameTempIInv ==
    ASSUME IInv, NEW c \in Calls, RenameTemp(c)
    PROVE  IInv'
<1> DEFINE n == arg[c].to
<1>1. pc[c] = "synced" /\ files' = [files EXCEPT ![n] = tmp[c]] /\ unsynced' = unsynced \ {n}
  BY DEF RenameTemp
<1>2. /\ StateInv /\ CallInv(c) /\ n \in Names /\ tmp[c] \in File
      /\ n \in Owns(arg[c]) \cup Installs(arg[c])
  BY <1>1, SyncedTemp DEF IInv
<1>3. /\ files' \in [Names -> File \cup {NoFile}]
      /\ unsynced' \subseteq {m \in Names : files'[m] # NoFile}
      /\ files'[n] = tmp[c]
      /\ \A m \in Names \ {n} : files'[m] = files[m] /\ (m \in unsynced' <=> m \in unsynced)
  BY <1>1, <1>2, PutEffect
<1>4. CASE arg[c].op = "copy"
  BY <1>1, <1>2, <1>3, <1>4, ReturnsIInv DEF RenameTemp
<1>5. CASE arg[c].op # "copy"
  <2>1. /\ pc' = [pc EXCEPT ![c] = IF arg[c].op = "move" THEN "remove" ELSE "cleanup"]
        /\ tmp' = [tmp EXCEPT ![c] = NoFile]
        /\ UNCHANGED <<arg, rest, todo>>
    BY <1>5 DEF RenameTemp
  <2>2. StateInv'
    BY <1>2, <1>3, <2>1 DEF StateInv
  <2>3. /\ pc'[c] = IF arg[c].op = "move" THEN "remove" ELSE "cleanup"
        /\ arg'[c] = arg[c] /\ rest'[c] = rest[c]
    BY <1>2, <2>1 DEF StateInv
  <2>4. ArgInv(c)'
    BY <1>1, <1>2, <1>5, <2>3 DEF CallInv, ArgInv
  <2>5. RemoveInv(c)'
    <3> SUFFICES ASSUME arg[c].op = "move" PROVE RemoveInv(c)'
      BY <2>3 DEF RemoveInv
    <3>1. arg[c].from # n /\ arg[c].from \in Names /\ files[arg[c].from] # NoFile
          /\ tmp[c] = files[arg[c].from]
      BY <1>1, <1>2, SyncedTemp DEF CallInv, ArgInv
    <3>2. files'[arg[c].from] = files[arg[c].from]
      BY <1>3, <3>1
    <3>3. QED
      BY <1>1, <1>3, <2>3, <3>1, <3>2 DEF RemoveInv
  <2>6. TempInv(c)' /\ WriteInv(c)'
    BY <2>3 DEF TempInv, WriteInv
  <2>7. CallInv(c)'
    BY <2>4, <2>5, <2>6 DEF CallInv
  <2>8. arg[c] \in CallTypes /\ \A d \in Calls \ {c} : Compatible(arg[c], arg[d])
    BY <1>1, CallApart
  <2>9. \A d \in Calls \ {c} : /\ pc'[d] = pc[d] /\ arg'[d] = arg[d] /\ rest'[d] = rest[d]
                               /\ todo'[d] = todo[d] /\ tmp'[d] = tmp[d]
    BY <1>2, <2>1 DEF StateInv
  <2>10. \A m \in Names \ (Owns(arg[c]) \cup Installs(arg[c])) :
            files'[m] = files[m] /\ (m \in unsynced' <=> m \in unsynced)
    BY <1>2, <1>3
  <2>11. QED
    BY <2>2, <2>3, <2>7, <2>8, <2>9, <2>10, StepIInv
<1>6. QED
  BY <1>4, <1>5

-----------------------------------------------------------------------------
(* The operations of one step, and crashes *)

LEMMA MoveIInv ==
    ASSUME IInv, NEW c \in Calls, NEW from \in Paths, NEW to \in Paths, Move(c, from, to)
    PROVE  IInv'
<1> DEFINE a == [op |-> "move", from |-> from, to |-> to]
<1>1. a \in CallTypes /\ a.op = "move" /\ a.from = from /\ a.to = to /\ from \in Names /\ to \in Names
  BY DEF CallTypes, Names
<1>2. Owns(a) = {from, to}
  BY <1>1, Footprint
<1>3. MayCall(c, a)
  BY DEF Move
<1> HIDE DEF a
<1>4. StateInv /\ pc[c] = "idle" /\ arg[c] = NoCall /\ \A d \in Calls \ {c} : Compatible(a, arg[d])
  BY <1>3, MayCallApart DEF IInv, CallInv, ArgInv
<1>5. StateInv'
  BY <1>1, <1>4 DEF StateInv, Move
<1>6. \A n \in Names \ {from, to} : files'[n] = files[n] /\ (n \in unsynced' <=> n \in unsynced)
  BY <1>1, <1>4 DEF StateInv, Move
<1>7. CallInv(c)'
  BY <1>4, CallKept DEF IInv, Move
<1>8. QED
  BY <1>1, <1>2, <1>4, <1>5, <1>6, <1>7, StepIInv DEF Move

LEMMA UnusedIInv ==
    ASSUME IInv, NEW ns, Unused(ns), RemoveAll(ns), UNCHANGED <<pc, arg, rest, todo, tmp>>
    PROVE  IInv'
<1>1. /\ StateInv
      /\ files' \in [Names -> File \cup {NoFile}]
      /\ unsynced' \subseteq {n \in Names : files'[n] # NoFile}
      /\ \A n \in Names \ ns : files'[n] = files[n] /\ (n \in unsynced' <=> n \in unsynced)
  BY RemoveAllEffect DEF IInv
<1>2. StateInv'
  BY <1>1 DEF StateInv
<1>3. ASSUME NEW d \in Calls PROVE CallInv(d)'
  <2>1. CASE arg[d] = NoCall
    BY <1>1, <2>1, CallKept DEF IInv
  <2>2. CASE arg[d] # NoCall
    <3>1. arg[d] \in CallTypes
      BY <1>1, <2>2 DEF StateInv
    <3>2. Reads(arg[d]) \cup Owns(arg[d]) \subseteq Names
      BY <3>1, Footprint DEF Names, PartsOf, Parts
    <3>3. \A n \in Reads(arg[d]) \cup Owns(arg[d]) : n \notin ns
      BY DEF Unused
    <3>4. \A n \in Reads(arg[d]) \cup Owns(arg[d]) :
             files'[n] = files[n] /\ (n \in unsynced' <=> n \in unsynced)
      BY <1>1, <3>2, <3>3
    <3>5. QED
      BY <1>1, <3>4, CallKept DEF IInv
  <2>3. QED
    BY <2>1, <2>2
<1>4. ApartInv'
  BY DEF IInv, ApartInv, Compatible, Reads, Installs, Owns, PartsOf
<1>5. QED
  BY <1>2, <1>3, <1>4 DEF IInv

LEMMA AbortIInv ==
    ASSUME IInv, NEW u \in Uploads, AbortMultipartUpload(u)
    PROVE  IInv'
<1>1. PICK ns \in SUBSET PartsOf(u) : RemoveAll(ns)
  BY DEF AbortMultipartUpload
<1>2. Unused(ns)
  BY DEF AbortMultipartUpload, Unused
<1>3. QED
  BY <1>1, <1>2, UnusedIInv DEF AbortMultipartUpload

LEMMA DeleteFileIInv ==
    ASSUME IInv, NEW p \in Paths, DeleteFile(p)
    PROVE  IInv'
BY UnusedIInv DEF DeleteFile

\* What is left of a file is a prefix of it.
LEMMA CrashEffect ==
    ASSUME IInv, Crash
    PROVE  /\ files' \in [Names -> File \cup {NoFile}]
           /\ unsynced' = unsynced /\ unsynced \subseteq {n \in Names : files'[n] # NoFile}
           /\ \A n \in unsynced : IsPrefix(files'[n], files[n])
           /\ \A n \in Names \ unsynced : files'[n] = files[n]
<1> DEFINE Kept == UNION {Prefixes(files[n]) : n \in unsynced}
<1>1. PICK kept \in [unsynced -> Kept] :
        /\ \A n \in unsynced : IsPrefix(kept[n], files[n])
        /\ files' = [n \in Names |-> IF n \in unsynced THEN kept[n] ELSE files[n]]
  BY DEF Crash
<1>2. StateInv /\ unsynced' = unsynced /\ unsynced \subseteq Names
  BY DEF IInv, StateInv, Crash
<1>3. Kept \subseteq File
  <2>1. ASSUME NEW n \in unsynced PROVE Prefixes(files[n]) \subseteq File
    <3>1. files[n] \in Seq(Blocks)
      BY <1>2 DEF StateInv, File
    <3>2. \A l \in 0 .. Len(files[n]) : SubSeq(files[n], 1, l) \in Seq(Blocks)
      BY <3>1, SubSeqProperties
    <3>3. QED
      BY <3>2 DEF Prefixes, File
  <2>2. QED
    BY <2>1
<1>4. \A n \in unsynced : kept[n] \in File /\ kept[n] # NoFile
  BY <1>1, <1>3, AbsenceAssumption DEF File
<1>5. QED
  BY <1>1, <1>2, <1>4 DEF StateInv

LEMMA CrashIInv ==
    ASSUME IInv, Crash
    PROVE  IInv'
<1>1. /\ StateInv
      /\ pc' = [c \in Calls |-> "idle"]
      /\ arg' = [c \in Calls |-> NoCall]
      /\ rest' = [c \in Calls |-> <<>>]
      /\ todo' = [c \in Calls |-> <<>>]
      /\ tmp' = [c \in Calls |-> NoFile]
  BY DEF IInv, Crash
<1>2. StateInv'
  BY <1>1, CrashEffect DEF StateInv, File
<1>3. \A c \in Calls : CallInv(c)'
  BY <1>1 DEF CallInv, ArgInv, TempInv, WriteInv, RemoveInv
<1>4. ApartInv'
  BY <1>1, NoFootprint DEF ApartInv, Compatible
<1>5. QED
  BY <1>2, <1>3, <1>4 DEF IInv

-----------------------------------------------------------------------------
(* The invariant *)

LEMMA InitIInv == Init => IInv
<1> SUFFICES ASSUME Init PROVE IInv
  OBVIOUS
<1>1. StateInv
  BY DEF Init, StateInv, File
<1>2. \A c \in Calls : CallInv(c)
  BY DEF Init, CallInv, ArgInv, TempInv, WriteInv, RemoveInv
<1>3. ApartInv
  BY NoFootprint DEF Init, ApartInv, Compatible
<1>4. QED
  BY <1>1, <1>2, <1>3 DEF IInv

LEMMA StutterIInv ==
    ASSUME IInv, UNCHANGED vars
    PROVE  IInv'
<1>1. StateInv'
  BY DEF IInv, StateInv, vars
<1>2. \A c \in Calls : CallInv(c)'
  BY CallKept DEF IInv, vars
<1>3. ApartInv'
  BY DEF IInv, ApartInv, Compatible, Reads, Installs, Owns, PartsOf, vars
<1>4. QED
  BY <1>1, <1>2, <1>3 DEF IInv

LEMMA NextIInv == IInv /\ [Next]_vars => IInv'
<1> SUFFICES ASSUME IInv, [Next]_vars PROVE IInv'
  OBVIOUS
<1>1. ASSUME NEW c \in Calls,
             \/ \E data \in Contents, name \in Names : Write(c, data, name)
             \/ WriteBlock(c) \/ WriteReturns(c)
      PROVE  IInv'
  BY <1>1, WriteIInv, WriteBlockIInv, GiveUpIInv
<1>2. ASSUME NEW c \in Calls,
             \/ \E from, to \in Paths :
                   Copy(c, from, to) \/ Move(c, from, to) \/ MoveFallsBack(c, from, to)
             \/ \E u \in Uploads, list \in ChunkLists : CompleteMultipartUpload(c, u, list)
      PROVE  IInv'
  BY <1>2, CopyIInv, MoveIInv, MoveFallsBackIInv, CompleteIInv
<1>3. ASSUME NEW c \in Calls,
             \/ OpenNext(c) \/ TempBlock(c) \/ SyncTemp(c) \/ GiveUp(c) \/ RenameTemp(c)
             \/ RemoveSource(c) \/ RemoveSourceFails(c) \/ CleanupMultipartDir(c)
      PROVE  IInv'
  BY <1>3, OpenNextIInv, TempBlockIInv, SyncTempIInv, GiveUpIInv, RenameTempIInv,
     RemoveSourceIInv, CleanupIInv
<1>4. CASE \/ \E u \in Uploads : AbortMultipartUpload(u)
           \/ \E p \in Paths : DeleteFile(p)
           \/ Crash
  BY <1>4, AbortIInv, DeleteFileIInv, CrashIInv
<1>5. CASE UNCHANGED vars
  BY <1>5, StutterIInv
<1>6. QED
  BY <1>1, <1>2, <1>3, <1>4, <1>5 DEF Next

THEOREM SpecIInv == Spec => []IInv
BY InitIInv, NextIInv, PTL DEF Spec

\* While the fallback of Move is about to remove the source, the destination holds the same
\* content and it is on the disk, whatever other calls do (os.go:215-222).
THEOREM SourceIsNeverLost == Spec => []SourceSurvives
<1>1. IInv => SourceSurvives
  BY DEF IInv, CallInv, RemoveInv, SourceSurvives
<1>2. QED
  BY <1>1, SpecIInv, PTL

-----------------------------------------------------------------------------
(* The abstract store: every step is one of its steps, or none.  Three of   *)
(* its steps are named here, for each is taken by several actions.          *)

LEMMA InstallsFile ==
    ASSUME NEW m \in Names, files[m] # NoFile, NEW n \in Names,
           files' = [files EXCEPT ![n] = files[m]], unsynced' = unsynced \ {n}
    PROVE  Store!Next
<1>1. m \in Store!Present
  BY DEF Store!Present
<1>2. Store!Install(n, files[m])
  BY DEF Store!Install
<1>3. QED
  BY <1>1, <1>2 DEF Store!Next

LEMMA InstallsJoined ==
    ASSUME NEW u \in Uploads, NEW list \in ChunkLists, AllPresent(ChunkNames(u, list)),
           ChunkNames(u, list) \in Seq(Names), NEW n \in Names,
           files' = [files EXCEPT ![n] = Content(ChunkNames(u, list))],
           unsynced' = unsynced \ {n}
    PROVE  Store!Next
<1> DEFINE names == ChunkNames(u, list)
<1>1. names \in {ChunkNames(v, l) : v \in Uploads, l \in ChunkLists}
  OBVIOUS
<1>2. \A j \in DOMAIN names : names[j] \in Store!Present
  BY DEF AllPresent, Store!Present
<1>3. Store!Install(n, Store!Joined(names))
  <2>1. Store!Joined(names) = Content(names)
    BY DEF Store!Joined, Content, FlattenSeq, Store!FlattenSeq
  <2>2. QED
    BY <2>1 DEF Store!Install
<1> HIDE DEF names
<1>4. QED
  BY <1>1, <1>2, <1>3 DEF Store!Next

LEMMA Discards ==
    ASSUME StateInv, NEW ns, RemoveAll(ns)
    PROVE  Store!Next
<1> DEFINE gone == {n \in Names : n \in ns /\ files[n] # NoFile}
<1>1. gone \in SUBSET Store!Present
  BY DEF Store!Present
<1>2. files' = [n \in Names |-> IF n \in gone THEN NoFile ELSE files[n]]
  BY DEF RemoveAll, StateInv
<1>3. unsynced' = unsynced \ gone
  BY DEF RemoveAll, StateInv
<1> HIDE DEF gone
<1>4. QED
  BY <1>1, <1>2, <1>3 DEF Store!Next, Store!Discard

LEMMA WritesRaw ==
    ASSUME IInv, NEW c \in Calls,
           (\E data \in Contents, name \in Names : Write(c, data, name)) \/ WriteBlock(c)
    PROVE  Store!Next
<1>1. ASSUME NEW data \in Contents, NEW name \in Names, Write(c, data, name)
      PROVE  Store!Next
  <2>1. Store!Truncate(name)
    BY <1>1 DEF Write, Store!Truncate
  <2>2. QED
    BY <2>1 DEF Store!Next
<1>2. CASE WriteBlock(c)
  <2> DEFINE n == arg[c].to
  <2>1. /\ pc[c] = "write" /\ rest[c] # <<>>
        /\ files' = [files EXCEPT ![n] = Append(files[n], Head(rest[c]))] /\ UNCHANGED unsynced
    BY <1>2 DEF WriteBlock
  <2>2. n \in unsynced /\ StateInv
    BY <2>1 DEF IInv, CallInv, WriteInv
  <2>3. n \in Names /\ files[n] \in Seq(Blocks) /\ Head(rest[c]) \in Blocks
    BY <2>1, <2>2 DEF StateInv, File
  <2>4. files'[n] = Append(files[n], Head(rest[c]))
    BY <2>1, <2>2, <2>3 DEF StateInv
  <2>5. IsPrefix(files[n], Append(files[n], Head(rest[c])))
    BY <2>3 DEF IsPrefix
  <2>6. Store!Grow(n)
    BY <2>1, <2>4, <2>5 DEF Store!Grow, IsPrefix, Store!IsPrefix
  <2>7. QED
    BY <2>2, <2>6 DEF Store!Next
<1>3. QED
  BY <1>1, <1>2

LEMMA RenamesWhole ==
    ASSUME IInv, NEW c \in Calls, RenameTemp(c)
    PROVE  Store!Next
<1> DEFINE n == arg[c].to
<1>1. pc[c] = "synced" /\ files' = [files EXCEPT ![n] = tmp[c]] /\ unsynced' = unsynced \ {n}
  BY DEF RenameTemp
<1>2. n \in Names /\ arg[c] \in CallTypes
  BY <1>1, SyncedTemp
<1>3. CASE arg[c].op \in {"copy", "move"}
  <2>1. arg[c].from \in Names /\ files[arg[c].from] # NoFile /\ tmp[c] = files[arg[c].from]
    BY <1>1, <1>3, SyncedTemp
  <2>2. QED
    BY <1>1, <1>2, <2>1, InstallsFile
<1>4. CASE arg[c].op = "complete"
  <2>1. arg[c].id \in Uploads /\ arg[c].list \in ChunkLists
    BY <1>2, <1>4, Footprint
  <2>2. Sources(arg[c]) = ChunkNames(arg[c].id, arg[c].list) /\ Sources(arg[c]) \in Seq(Names)
    BY <1>2, <1>4, SourcesAre DEF Sources
  <2>3. tmp[c] = Content(Sources(arg[c])) /\ AllPresent(Sources(arg[c]))
    BY <1>1, SyncedTemp
  <2>4. QED
    BY <1>1, <1>2, <2>1, <2>2, <2>3, InstallsJoined
<1>5. QED
  BY <1>1, <1>3, <1>4, SyncedTemp

LEMMA MovesWhole ==
    ASSUME IInv, NEW c \in Calls, NEW from \in Paths, NEW to \in Paths, Move(c, from, to)
    PROVE  Store!Next
<1>1. from \in Store!Present /\ to \in Names
  BY DEF Move, Store!Present, Names
<1>2. Store!Rename(from, to)
  BY DEF Move, Store!Rename
<1>3. QED
  BY <1>1, <1>2 DEF Store!Next

LEMMA CrashCutsRaw ==
    ASSUME IInv, Crash
    PROVE  Store!Next
<1>1. files' = [n \in Names |-> IF n \in unsynced THEN files'[n] ELSE files[n]]
  BY CrashEffect
<1>2. \A n \in unsynced : Store!IsPrefix(files'[n], files[n])
  BY CrashEffect DEF IsPrefix, Store!IsPrefix
<1>3. Store!Crash
  BY <1>1, <1>2, CrashEffect DEF Store!Crash
<1>4. QED
  BY <1>3 DEF Store!Next

LEMMA StepRefines == IInv /\ [Next]_vars => [Store!Next]_(Store!vars)
<1> SUFFICES ASSUME IInv, [Next]_vars PROVE Store!Next \/ UNCHANGED <<files, unsynced>>
  BY DEF Store!vars
<1>1. ASSUME NEW c \in Calls,
             \/ \E data \in Contents, name \in Names : Write(c, data, name)
             \/ WriteBlock(c) \/ RenameTemp(c)
             \/ \E from, to \in Paths : Move(c, from, to)
      PROVE  Store!Next
  BY <1>1, WritesRaw, RenamesWhole, MovesWhole
<1>2. ASSUME NEW c \in Calls,
             \/ WriteReturns(c)
             \/ \E from, to \in Paths : Copy(c, from, to) \/ MoveFallsBack(c, from, to)
             \/ \E u \in Uploads, list \in ChunkLists : CompleteMultipartUpload(c, u, list)
             \/ OpenNext(c) \/ TempBlock(c) \/ SyncTemp(c) \/ GiveUp(c) \/ RemoveSourceFails(c)
      PROVE  UNCHANGED <<files, unsynced>>
  BY <1>2 DEF WriteReturns, Copy, MoveFallsBack, CompleteMultipartUpload, StartTemp,
              OpenNext, TempBlock, SyncTemp, GiveUp, RemoveSourceFails
<1>3. ASSUME NEW c \in Calls, RemoveSource(c) \/ CleanupMultipartDir(c)
      PROVE  Store!Next
  BY <1>3, Discards DEF RemoveSource, CleanupMultipartDir, IInv
<1>4. CASE \/ \E u \in Uploads : AbortMultipartUpload(u)
           \/ \E p \in Paths : DeleteFile(p)
  BY <1>4, Discards DEF AbortMultipartUpload, DeleteFile, IInv
<1>5. CASE Crash
  BY <1>5, CrashCutsRaw
<1>6. CASE UNCHANGED vars
  BY <1>6 DEF vars
<1>7. QED
  BY <1>1, <1>2, <1>3, <1>4, <1>5, <1>6 DEF Next

\* Copies, moves and completed uploads appear whole and in one step, and a crash never leaves a
\* part of one: the provider implements the abstract store (os.go:154-155).
THEOREM AppearsWhole == Spec => ImplementsStore
<1>1. Init => Store!Init
  BY DEF Init, Store!Init
<1>2. QED
  BY <1>1, SpecIInv, StepRefines, PTL DEF Spec, ImplementsStore, Store!Spec
==============================================================================
