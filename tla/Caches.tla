------------------------------- MODULE Caches -------------------------------
(***************************************************************************)
(* Values that are kept for a while: cache.Impl and cache.ProxyImpl over   *)
(* the memory or the Redis provider, and the preloader.  Goroutines call   *)
(* them for one key, while time passes and the value at the source         *)
(* changes: a value is the number of a version, and 0 is the default.      *)
(***************************************************************************)
EXTENDS Integers, FiniteSets

CONSTANTS
    Users,       \* goroutines that use the cache or the preloader
    TTL,         \* how long a value is kept
    MaxTime,     \* bound on the clock
    MaxCalls     \* MaxCalls[u]: bound on the calls of a goroutine

ASSUME CachesAssumption ==
    /\ 0 \notin Users
    /\ TTL \in Nat /\ MaxTime \in Nat
    /\ MaxCalls \in [Users -> Nat]

VARIABLES
    kept,        \* which it is: a cache over "memory" or "redis", or a "preloader"
    now,         \* the clock
    source,      \* the version a loader gets
    entry,       \* the provider's entry for the key: [val, expires], val 0 for none
    current,     \* the preloader's currentValue, and the one it replaced: [val, old]
    refreshed,   \* its lastRefreshAt
    loader,      \* the goroutine that holds the preloader's mutex, or 0
    users,       \* where each goroutine is
    stores,      \* what was stored, and when: [val, at] (history)
    crashed      \* "no", or how a map was written by one goroutine while another used it

cachesVars == <<kept, now, source, entry, current, refreshed, loader, users, stores, crashed>>

NoEntry == [val |-> 0, expires |-> 0]
Idle == [op |-> "none", stage |-> "idle", lock |-> "out", val |-> 0, err |-> FALSE,
         vanished |-> FALSE, raced |-> FALSE, began |-> 0, calls |-> 0]

-----------------------------------------------------------------------------
(* What the calls are made of.  A stage is one call of the provider. *)

Stage(u, s) == users[u].stage = s
Inside == {u \in Users : users[u].lock # "out"}

(* Mutant: an entry is expired once the clock is past its lifetime counted twice. *)
ExpiresLate(e) == now > e.expires + TTL

Expired(e) == now > e.expires

Go(u, stage) == users' = [users EXCEPT ![u].stage = stage, ![u].lock = "out"]
Judged == {"proxy", "value"}     \* the calls a property is about
ReturnWith(u, val, err, vanished) ==
    users' = [users EXCEPT ![u] =
        IF @.op \in Judged
        THEN [@ EXCEPT !.stage = "answered", !.lock = "out", !.val = val, !.err = err, !.vanished = vanished]
        ELSE [Idle EXCEPT !.calls = users[u].calls]]
Answer(u, val, err) == ReturnWith(u, val, err, FALSE)

BeginCall(u, op, stage) ==
    /\ users[u].stage \in {"idle", "answered"}
    /\ users[u].calls < MaxCalls[u]
    /\ users' = [users EXCEPT ![u] = [Idle EXCEPT !.op = op, !.stage = stage, !.calls = users[u].calls + 1,
                                                  !.began = IF op \in Judged THEN now ELSE 0]]

CacheCall(u) ==
    /\ kept # "preloader"
    /\ \/ BeginCall(u, "proxy", "has")
       \/ BeginCall(u, "get", "get")
       \/ BeginCall(u, "set", "set")
       \/ BeginCall(u, "delete", "delete")
    /\ UNCHANGED <<kept, now, source, entry, current, refreshed, loader, stores, crashed>>

(* Mutant: Set takes the read lock. *)
LockedForReading(stage) == stage \in {"has", "get", "set"}

(* Memory's RWMutex: Has and Get share it. *)
Reading(stage) == stage \in {"has", "get"}

Crash(expired) == crashed' = IF crashed = "no" THEN (IF expired THEN "expiry" ELSE "other") ELSE crashed

(* The lock is taken, and the map is looked at. *)
Enter(u) ==
    /\ kept = "memory"
    /\ users[u].lock = "out" /\ users[u].stage \in {"has", "get", "set", "delete"}
    /\ IF Reading(users[u].stage) THEN \A v \in Inside : Reading(users[v].stage) ELSE Inside = {}
    /\ users' = [users EXCEPT ![u].lock = "in"]
    /\ \/ /\ \E v \in Inside : users[v].lock = "deleting"
          /\ Crash(TRUE)
       \/ /\ users[u].stage \in {"set", "delete"} /\ Inside # {}
          /\ Crash(FALSE)
       \/ UNCHANGED crashed
    /\ UNCHANGED <<kept, now, source, entry, current, refreshed, loader, stores>>

Ready(u, stage) == Stage(u, stage) /\ (kept = "memory" => users[u].lock = "in")

(* ProxyImpl.Get: Has, and with a key in the cache its Get, otherwise the getter's. *)
(* Memory.Has does not look at the expiry; Redis has dropped an expired key.      *)
Has(u) ==
    /\ Ready(u, "has")
    /\ \/ /\ Go(u, IF entry.val # 0 /\ (kept = "redis" => ~Expired(entry)) THEN "get" ELSE "load")
       \/ kept = "redis" /\ Answer(u, 0, TRUE)
    /\ UNCHANGED <<kept, now, source, entry, current, refreshed, loader, stores, crashed>>

(* Memory.Get deletes an expired entry, while it holds the lock for reading: with another *)
(* goroutine inside, the runtime may stop the program.                                    *)
FindsExpired(u) ==
    /\ kept = "memory" /\ Ready(u, "get")
    /\ entry.val # 0 /\ Expired(entry)
    /\ users' = [users EXCEPT ![u].lock = "deleting"]
    /\ \/ Inside # {u} /\ Crash(TRUE)
       \/ UNCHANGED crashed
    /\ UNCHANGED <<kept, now, source, entry, current, refreshed, loader, stores>>

DeletesExpired(u) ==
    /\ users[u].lock = "deleting"
    /\ entry' = NoEntry
    /\ ReturnWith(u, 0, FALSE, TRUE)
    /\ UNCHANGED <<kept, now, source, current, refreshed, loader, stores, crashed>>

(* Impl.Get: a key that is not there is the default, without an error.  Here and in Impl.Set *)
(* the marshaller may fail, and Redis.                                                       *)
Get(u) ==
    /\ Ready(u, "get")
    /\ kept = "memory" => entry.val = 0 \/ ~Expired(entry)
    /\ \/ /\ entry.val # 0 /\ ~Expired(entry)
          /\ Answer(u, entry.val, FALSE)
       \/ /\ entry.val = 0 \/ Expired(entry)
          /\ ReturnWith(u, 0, FALSE, TRUE)
       \/ Answer(u, 0, TRUE)
    /\ UNCHANGED <<kept, now, source, entry, current, refreshed, loader, stores, crashed>>

Load(u) ==
    /\ Stage(u, "load") /\ kept # "preloader"
    /\ \/ users' = [users EXCEPT ![u].stage = "set", ![u].val = source]
       \/ Answer(u, 0, TRUE)
    /\ UNCHANGED <<kept, now, source, entry, current, refreshed, loader, stores, crashed>>

Set(u) ==
    /\ Ready(u, "set")
    /\ LET val == IF users[u].op = "proxy" THEN users[u].val ELSE source IN
       \/ /\ entry' = [val |-> val, expires |-> now + TTL]
          /\ stores' = stores \cup {[val |-> val, at |-> now]}
          /\ Answer(u, val, FALSE)
       \/ UNCHANGED <<entry, stores>> /\ Answer(u, 0, TRUE)
    /\ UNCHANGED <<kept, now, source, current, refreshed, loader, crashed>>

Delete(u) ==
    /\ Ready(u, "delete")
    /\ \/ entry' = NoEntry /\ Answer(u, 0, FALSE)
       \/ kept = "redis" /\ UNCHANGED entry /\ Answer(u, 0, TRUE)
    /\ UNCHANGED <<kept, now, source, current, refreshed, loader, stores, crashed>>

-----------------------------------------------------------------------------
(* preloader.Impl *)

(* Value takes no lock.  While Refresh writes, what it reads is a data race: the age may be  *)
(* either, and so may the value.                                                             *)
Writing == \E v \in Users : users[v].stage \in {"store", "stamp"}
Races(us) == [v \in Users |->
    IF us[v].op = "value" /\ us[v].stage \in {"look", "take"} THEN [us[v] EXCEPT !.raced = TRUE] ELSE us[v]]

PreloaderCall(u) ==
    /\ kept = "preloader"
    /\ BeginCall(u, "value", "look") \/ BeginCall(u, "refresh", "wait")
    /\ UNCHANGED <<kept, now, source, entry, current, refreshed, loader, stores, crashed>>

Value(u) ==
    /\ Stage(u, "look")
    /\ \E old \in {now > refreshed + TTL} \cup (IF users[u].raced \/ Writing THEN BOOLEAN ELSE {}) :
           users' = [users EXCEPT ![u].stage = IF old THEN "wait" ELSE "take",
                                  ![u].raced = @ \/ Writing]
    /\ UNCHANGED <<kept, now, source, entry, current, refreshed, loader, stores, crashed>>

TakeCurrent(u) ==
    /\ Stage(u, "take")
    /\ \E val \in {current.val} \cup (IF users[u].raced THEN {current.old} ELSE {}) : Answer(u, val, FALSE)
    /\ UNCHANGED <<kept, now, source, entry, current, refreshed, loader, stores, crashed>>

(* Refresh, under the mutex: the loader is called again by everyone who waited for it. *)
RefreshLocks(u) ==
    /\ Stage(u, "wait") /\ loader = 0
    /\ loader' = u
    /\ Go(u, "load")
    /\ UNCHANGED <<kept, now, source, entry, current, refreshed, stores, crashed>>

RefreshLoads(u) ==
    /\ kept = "preloader" /\ Stage(u, "load")
    /\ \/ /\ users' = Races([users EXCEPT ![u].stage = "store", ![u].val = source])
          /\ UNCHANGED <<refreshed, loader>>
       \/ Answer(u, 0, TRUE) /\ loader' = 0 /\ UNCHANGED refreshed
    /\ UNCHANGED <<kept, now, source, entry, current, stores, crashed>>

RefreshStores(u) ==
    /\ Stage(u, "store")
    /\ current' = [val |-> users[u].val, old |-> current.val]
    /\ Go(u, "stamp")
    /\ UNCHANGED <<kept, now, source, entry, refreshed, loader, stores, crashed>>

RefreshReturns(u) ==
    /\ Stage(u, "stamp")
    /\ refreshed' = now
    /\ stores' = stores \cup {[val |-> users[u].val, at |-> now]}
    /\ Answer(u, users[u].val, FALSE)
    /\ loader' = 0
    /\ UNCHANGED <<kept, now, source, entry, current, crashed>>

-----------------------------------------------------------------------------
Tick ==
    /\ now < MaxTime
    /\ now' = now + 1
    /\ UNCHANGED <<kept, source, entry, current, refreshed, loader, users, stores, crashed>>

(* The value at the source is a new version at every time. *)
Update ==
    /\ source < now
    /\ source' = now
    /\ UNCHANGED <<kept, now, entry, current, refreshed, loader, users, stores, crashed>>

CachesInit ==
    /\ kept \in {"memory", "redis", "preloader"}
    /\ now = 1 /\ source = 1
    /\ entry = NoEntry
    /\ current = [val |-> 0, old |-> 0] /\ refreshed = -TTL - 1 /\ loader = 0 /\ stores = {}
    /\ users = [u \in Users |-> Idle]
    /\ crashed = "no"

UserStep(u) ==
    \/ CacheCall(u) \/ Enter(u) \/ Has(u) \/ FindsExpired(u) \/ DeletesExpired(u) \/ Get(u)
    \/ Load(u) \/ Set(u) \/ Delete(u)
    \/ PreloaderCall(u) \/ Value(u) \/ TakeCurrent(u)
    \/ RefreshLocks(u) \/ RefreshLoads(u) \/ RefreshStores(u) \/ RefreshReturns(u)

CachesNext == crashed = "no" /\ (Tick \/ Update \/ \E u \in Users : UserStep(u))

(* The map of the memory provider is written by one goroutine at a time, except that Get      *)
(* deletes an expired entry under the read lock (memory.go:62): only that can stop the        *)
(* program.                                                                                   *)
MapRacesOnlyOnExpiry == crashed # "other"

(* What ProxyImpl.Get, or Value of the preloader, answers without an error was stored no more *)
(* than TTL before the call, or during it, whoever stores, deletes, fails to load or waits at  *)
(* the same time.  The default takes its place only when the key vanished between Has and Get, *)
(* as an expired key of the memory provider, whose Has does not look at the expiry, always     *)
(* does; and a Value that races with the writes of a Refresh is as old as what that replaced.  *)
AnswersAreFresh ==
    \A u \in Users :
        (Stage(u, "answered") /\ ~users[u].err /\ ~users[u].raced) =>
            \/ users[u].vanished /\ users[u].val = 0
            \/ \E w \in stores : w.val = users[u].val /\ w.at + TTL >= users[u].began
=============================================================================
