----------------------------- MODULE MultiLevel -----------------------------
(***************************************************************************)
(* cache_multi.go: an LRU in every process over one shared Redis or NATS   *)
(* level, the invalidation events of that level, and the callback of       *)
(* NewDriver that marks their keys, for one cache key.  An entry is the    *)
(* version of the row it was loaded from.  Each process has one caller, so *)
(* LockOrWait, the LRU's, is always won; Driver has the callers that wait. *)
(***************************************************************************)
EXTENDS Integers, FiniteSets

CONSTANTS
    Nodes,        \* processes: one caller and one watcher goroutine each
    Backends,     \* subset of {"redis", "nats"}: the shared level
    EntityKey,    \* the key contains ":", as "User:42" does
    Tracking,     \* subset of BOOLEAN: the values of tracked
    Mishaps,      \* the kinds of mishap that may happen, by name:
                  \*   "get", "load", "add", "del", "publish": that call fails
                  \*   "lost": Redis does not deliver a message
                  \*   "restart": a process goes down and comes back
                  \*   "expire", "evict": a TTL runs out, a query asks to Evict
    MaxQueries,   \* bound: number of queries issued
    MaxWrites,    \* bound: number of mutations
    MaxMishaps,   \* bound: number of mishaps in a behaviour
    MaxPending    \* bound: events for the key that wait in one process; they
                  \* are all alike, and one more is not told apart from these

ASSUME MultiLevelAssumption ==
    /\ Backends \subseteq {"redis", "nats"}
    /\ EntityKey \in BOOLEAN /\ Tracking \subseteq BOOLEAN
    /\ MaxQueries \in Nat /\ MaxWrites \in Nat /\ MaxMishaps \in Nat
    /\ MaxPending \in Nat \ {0}

VARIABLES
    backend,
    tracked,      \* a ChangeSet, and queries addressed by entity key
    local,        \* local[n]: the entry in n's LRU, if any
    shared,       \* the entry in the shared level, if any
    pending,      \* pending[n]: events n has yet to handle
    marked,       \* n's ChangeSet has a mark on the key
    pc,           \* pc[n]: the next step of n's query
    after,        \* after[n]: where n's caller goes on after Del
    got,          \* got[n]: the version n's caller has loaded
    watch,        \* watch[n]: the next step of n's watcher
    db,           \* number of mutations committed
    queries,      \* number of queries issued
    mishaps,      \* number of mishaps so far
    owed          \* ghost: processes that were denied an event or whose Add
                  \* failed half way, until their LRU entry is replaced or gone

callVars == <<pc, after, got, queries>>
vars == <<backend, tracked, local, shared, pending, marked, callVars, watch, db,
          mishaps, owed>>

Stages == {"idle", "get", "check", "drop", "dropShared", "dropPublish", "unmark",
           "load", "add", "addShared", "create", "publish", "clear"}

\* No entry, or one.
Entries == {e \in SUBSET Nat : \A v, w \in e : v = w}

TypeOK == /\ backend \in Backends
          /\ tracked \in Tracking
          /\ local \in [Nodes -> Entries]
          /\ shared \in Entries
          /\ pending \in [Nodes -> 0..MaxPending]
          /\ marked \in [Nodes -> BOOLEAN]
          /\ pc \in [Nodes -> Stages]
          /\ after \in [Nodes -> {"idle", "unmark"}]
          /\ got \in [Nodes -> Nat]
          /\ watch \in [Nodes -> {"idle", "dropShared", "publish", "mark"}]
          /\ db \in Nat /\ queries \in Nat /\ mishaps \in Nat
          /\ owed \subseteq Nodes

\* A NATS watcher is first sent the last change of the key, made before it
\* started.
Backlog == IF backend = "redis" THEN {0} ELSE IF shared # {} THEN {1} ELSE {0, 1}

Init == /\ backend \in Backends
        /\ tracked \in Tracking
        /\ local = [n \in Nodes |-> {}]
        /\ shared \in {{}, {0}}
        /\ pending \in [Nodes -> Backlog]
        /\ marked = [n \in Nodes |-> FALSE]
        /\ pc = [n \in Nodes |-> "idle"]
        /\ after = [n \in Nodes |-> "idle"]
        /\ got = [n \in Nodes |-> 0]
        /\ watch = [n \in Nodes |-> "idle"]
        /\ db = 0 /\ queries = 0 /\ mishaps = 0
        /\ owed = {}

Goto(n, s) == pc' = [pc EXCEPT ![n] = s]

Mishap(kind) == /\ kind \in Mishaps
                /\ mishaps < MaxMishaps
                /\ mishaps' = mishaps + 1

AsPlanned == UNCHANGED mishaps

\* An event reaches every process, the one it comes from included.
Notify == pending' = [n \in Nodes |->
                        IF pending[n] < MaxPending THEN pending[n] + 1 ELSE MaxPending]

\* A NATS watcher sees the write itself; Redis publishes in a second call.
Written == IF backend = "nats" THEN Notify ELSE UNCHANGED pending

\* The LRU's entry is replaced or removed.
SetLocal(n, e) == /\ local' = [local EXCEPT ![n] = e]
                  /\ owed' = owed \ {n}

(***************************************************************************)
(* Query: the levels in their order, the mark, and the database.           *)
(***************************************************************************)
\* A hit is checked against the ChangeSet first.
AfterHit == IF tracked THEN "check" ELSE "idle"

Query(n) ==
    /\ pc[n] = "idle"
    /\ queries < MaxQueries
    /\ queries' = queries + 1
    /\ Goto(n, IF local[n] # {} THEN AfterHit ELSE "get")
    /\ UNCHANGED <<backend, tracked, local, shared, pending, marked, after, got,
                   watch, db, mishaps, owed>>

\* Get at the shared level, whose entry is not copied into the LRU.  An error
\* sends the query to the database.
GetShared(n) ==
    /\ pc[n] = "get"
    /\ \/ AsPlanned /\ Goto(n, IF shared # {} THEN AfterHit ELSE "load")
       \/ Mishap("get") /\ Goto(n, "idle")
    /\ UNCHANGED <<backend, tracked, local, shared, pending, marked, after, got,
                   queries, watch, db, owed>>

Check(n) ==
    /\ pc[n] = "check"
    /\ Goto(n, IF marked[n] THEN "drop" ELSE "idle")
    /\ after' = [after EXCEPT ![n] = IF marked[n] THEN "unmark" ELSE "idle"]
    /\ UNCHANGED <<backend, tracked, local, shared, pending, marked, got, queries,
                   watch, db, mishaps, owed>>

\* A query that is to Evict its key, and then goes to the database.
Evict(n) ==
    /\ pc[n] = "idle"
    /\ queries < MaxQueries
    /\ queries' = queries + 1
    /\ Mishap("evict")
    /\ Goto(n, "drop")
    /\ UNCHANGED <<backend, tracked, local, shared, pending, marked, after, got, watch,
                   db, owed>>

\* Del, level by level: a failure of the shared one is not looked at.
Drop(n) ==
    /\ pc[n] = "drop"
    /\ SetLocal(n, {})
    /\ Goto(n, "dropShared")
    /\ UNCHANGED <<backend, tracked, shared, pending, marked, after, got, queries,
                   watch, db, mishaps>>

DropShared(n) ==
    /\ pc[n] = "dropShared"
    /\ \/ /\ AsPlanned
          /\ shared' = {}
          /\ Written
          /\ Goto(n, IF backend = "redis" THEN "dropPublish" ELSE after[n])
       \/ Mishap("del") /\ Goto(n, after[n]) /\ UNCHANGED <<shared, pending>>
    /\ UNCHANGED <<backend, tracked, local, marked, after, got, queries, watch, db,
                   owed>>

\* Redis: a failed PUBLISH is not looked at either.
PublishTo(next, n) ==
    /\ Goto(n, next)
    /\ \/ AsPlanned /\ Notify /\ UNCHANGED owed
       \/ Mishap("publish") /\ owed' = Nodes /\ UNCHANGED pending
    /\ UNCHANGED <<backend, tracked, local, shared, marked, after, got, queries, watch,
                   db>>

DropPublish(n) == pc[n] = "dropPublish" /\ PublishTo(after[n], n)

Unmark(n) ==
    /\ pc[n] = "unmark"
    /\ marked' = [marked EXCEPT ![n] = FALSE]
    /\ after' = [after EXCEPT ![n] = "idle"]
    /\ Goto(n, "load")
    /\ UNCHANGED <<backend, tracked, local, shared, pending, got, queries, watch, db,
                   mishaps, owed>>

(***************************************************************************)
(* The load, and Add level by level.                                       *)
(***************************************************************************)
Load(n) ==
    /\ pc[n] = "load"
    /\ \/ AsPlanned /\ got' = [got EXCEPT ![n] = db] /\ Goto(n, "add")
       \/ Mishap("load") /\ Goto(n, "idle") /\ UNCHANGED got
    /\ UNCHANGED <<backend, tracked, local, shared, pending, marked, after, queries,
                   watch, db, owed>>

AddLocal(n) ==
    /\ pc[n] = "add"
    /\ SetLocal(n, {got[n]})
    /\ Goto(n, "addShared")
    /\ UNCHANGED <<backend, tracked, shared, pending, marked, after, got, queries, watch,
                   db, mishaps>>

\* Mutant of AddShared: the rows are added to those of the entry that is there.
AddToShared(n) ==
    /\ pc[n] = "addShared"
    /\ \/ /\ AsPlanned
          /\ shared' = shared \cup {got[n]}
          /\ Written
          /\ Goto(n, IF backend = "redis" THEN "publish" ELSE "clear")
          /\ UNCHANGED owed
       \/ /\ Mishap("add")
          /\ owed' = owed \cup {n}
          /\ Goto(n, "clear")
          /\ UNCHANGED <<shared, pending>>
    /\ UNCHANGED <<backend, tracked, local, marked, after, got, queries, watch, db>>

\* One write; but NATS deletes what is there before it creates an entry that
\* has a TTL.  A failure leaves the entry in the LRU.
AddShared(n) ==
    /\ pc[n] = "addShared"
    /\ \/ /\ AsPlanned
          /\ shared' = {got[n]}
          /\ Written
          /\ Goto(n, IF backend = "redis" THEN "publish" ELSE "clear")
          /\ UNCHANGED owed
       \/ /\ backend = "nats" /\ AsPlanned
          /\ shared' = {}
          /\ Written
          /\ Goto(n, "create")
          /\ UNCHANGED owed
       \/ /\ Mishap("add")
          /\ owed' = owed \cup {n}
          /\ Goto(n, "clear")
          /\ UNCHANGED <<shared, pending>>
    /\ UNCHANGED <<backend, tracked, local, marked, after, got, queries, watch, db>>

\* Somebody else may have created the entry in the meantime.
Create(n) ==
    /\ pc[n] = "create"
    /\ \/ shared = {} /\ AsPlanned /\ shared' = {got[n]} /\ Written
       \/ shared # {} /\ AsPlanned /\ UNCHANGED <<shared, pending>>
       \/ Mishap("add") /\ UNCHANGED <<shared, pending>>
    /\ Goto(n, "clear")
    /\ UNCHANGED <<backend, tracked, local, marked, after, got, queries, watch, db, owed>>

Publish(n) == pc[n] = "publish" /\ PublishTo("clear", n)

\* Add is over, or has failed: the mark is cleared either way.
Clear(n) ==
    /\ pc[n] = "clear"
    /\ marked' = [marked EXCEPT ![n] = FALSE]
    /\ got' = [got EXCEPT ![n] = 0]
    /\ Goto(n, "idle")
    /\ UNCHANGED <<backend, tracked, local, shared, pending, after, queries, watch, db,
                   mishaps, owed>>

(***************************************************************************)
(* The watcher: delete the event's key from every level, then mark it.     *)
(***************************************************************************)
\* NATS names the key with "_" for ":", which is another key to the LRU and
\* the ChangeSet but the same one to the shared level.
Known == backend = "redis" \/ ~EntityKey

\* Mutant of Take: the LRU is left alone.
TakeOnly(n) ==
    /\ watch[n] = "idle" /\ pending[n] > 0
    /\ pending' = [pending EXCEPT ![n] = pending[n] - 1]
    /\ watch' = [watch EXCEPT ![n] = "dropShared"]
    /\ UNCHANGED <<backend, tracked, local, shared, marked, callVars, db, mishaps, owed>>

\* Mutant of Take: an event waits until the mark of the last is cleared.
TakeUnmarked(n) ==
    /\ watch[n] = "idle" /\ pending[n] > 0 /\ ~marked[n]
    /\ pending' = [pending EXCEPT ![n] = pending[n] - 1]
    /\ IF Known THEN SetLocal(n, {}) ELSE UNCHANGED <<local, owed>>
    /\ watch' = [watch EXCEPT ![n] = "dropShared"]
    /\ UNCHANGED <<backend, tracked, shared, marked, callVars, db, mishaps>>

Take(n) ==
    /\ watch[n] = "idle" /\ pending[n] > 0
    /\ pending' = [pending EXCEPT ![n] = pending[n] - 1]
    /\ IF Known THEN SetLocal(n, {}) ELSE UNCHANGED <<local, owed>>
    /\ watch' = [watch EXCEPT ![n] = "dropShared"]
    /\ UNCHANGED <<backend, tracked, shared, marked, callVars, db, mishaps>>

\* The shared level publishes this deletion, too.
WatchDrop(n) ==
    /\ watch[n] = "dropShared"
    /\ \/ /\ AsPlanned
          /\ shared' = {}
          /\ Written
          /\ watch' = [watch EXCEPT ![n] = IF backend = "redis" THEN "publish" ELSE "mark"]
       \/ /\ Mishap("del")
          /\ watch' = [watch EXCEPT ![n] = "mark"]
          /\ UNCHANGED <<shared, pending>>
    /\ UNCHANGED <<backend, tracked, local, marked, callVars, db, owed>>

WatchPublish(n) ==
    /\ watch[n] = "publish"
    /\ watch' = [watch EXCEPT ![n] = "mark"]
    /\ \/ AsPlanned /\ Notify /\ UNCHANGED owed
       \/ Mishap("publish") /\ owed' = Nodes /\ UNCHANGED pending
    /\ UNCHANGED <<backend, tracked, local, shared, marked, callVars, db>>

WatchMark(n) ==
    /\ watch[n] = "mark"
    /\ watch' = [watch EXCEPT ![n] = "idle"]
    /\ marked' = [marked EXCEPT ![n] = marked[n] \/ (tracked /\ Known)]
    /\ UNCHANGED <<backend, tracked, local, shared, pending, callVars, db, mishaps, owed>>

(***************************************************************************)
(* What happens around them.                                               *)
(***************************************************************************)
\* A mutation in process n marks the key there, and nowhere else.
Mutate(n) ==
    /\ db < MaxWrites
    /\ db' = db + 1
    /\ marked' = [marked EXCEPT ![n] = tracked]
    /\ UNCHANGED <<backend, tracked, local, shared, pending, callVars, watch, mishaps, owed>>

\* A mark counts for as long as entries live, and the collector may drop it
\* sooner; time is left out, so it may stop to count at any moment.
MarkAges(n) ==
    /\ marked[n]
    /\ marked' = [marked EXCEPT ![n] = FALSE]
    /\ UNCHANGED <<backend, tracked, local, shared, pending, callVars, watch, db, mishaps,
                   owed>>

ExpireLocal(n) ==
    /\ local[n] # {}
    /\ Mishap("expire")
    /\ SetLocal(n, {})
    /\ UNCHANGED <<backend, tracked, shared, pending, marked, callVars, watch, db>>

ExpireShared ==
    /\ shared # {}
    /\ Mishap("expire")
    /\ shared' = {}
    /\ UNCHANGED <<backend, tracked, local, pending, marked, callVars, watch, db, owed>>

\* Redis Pub/Sub delivers at most once.
Lose(n) ==
    /\ backend = "redis" /\ pending[n] > 0
    /\ Mishap("lost")
    /\ pending' = [pending EXCEPT ![n] = pending[n] - 1]
    /\ owed' = owed \cup {n}
    /\ UNCHANGED <<backend, tracked, local, shared, marked, callVars, watch, db>>

\* What a process was about to publish is never published.
Restart(n) ==
    /\ Mishap("restart")
    /\ local' = [local EXCEPT ![n] = {}]
    /\ marked' = [marked EXCEPT ![n] = FALSE]
    /\ \E k \in Backlog : pending' = [pending EXCEPT ![n] = k]
    /\ Goto(n, "idle")
    /\ after' = [after EXCEPT ![n] = "idle"]
    /\ got' = [got EXCEPT ![n] = 0]
    /\ watch' = [watch EXCEPT ![n] = "idle"]
    /\ owed' = (IF pc[n] = "publish" THEN Nodes ELSE owed) \ {n}
    /\ UNCHANGED <<backend, tracked, shared, queries, db>>

Call(n) == \/ GetShared(n) \/ Check(n) \/ Drop(n) \/ DropShared(n) \/ DropPublish(n)
           \/ Unmark(n) \/ Load(n) \/ AddLocal(n) \/ AddShared(n) \/ Create(n)
           \/ Publish(n) \/ Clear(n)

Watch(n) == Take(n) \/ WatchDrop(n) \/ WatchPublish(n) \/ WatchMark(n)

Next == \/ \E n \in Nodes : \/ Query(n) \/ Evict(n) \/ Call(n) \/ Watch(n) \/ Mutate(n)
                            \/ MarkAges(n) \/ ExpireLocal(n) \/ Lose(n) \/ Restart(n)
        \/ ExpireShared

Spec == Init /\ [][Next]_vars

\* Goroutines that can run do; nobody has to query, to mutate or to fail.
FairSpec == Spec /\ \A n \in Nodes : WF_vars(Call(n)) /\ WF_vars(Watch(n))

(***************************************************************************)
(* Properties.                                                             *)
(***************************************************************************)
\* The LRU does not serve what the shared level has replaced.
Agree(n) == local[n] = {} \/ shared = {} \/ local[n] = shared

\* Something is on its way that will settle the difference.
Underway(n) == \/ pending[n] > 0
               \/ pc[n] \in {"addShared", "create"}
               \/ \E m \in Nodes : pc[m] = "publish"

\* WatchInvalidations keeps the LRUs in line with the shared level: whatever
\* the order of Adds, deletions, events and restarts of several processes, an
\* LRU entry differs from the shared one only until an event arrives or an Add
\* ends, unless a failed Add or a lost event came between.
Coherent == \A n \in Nodes : Agree(n) \/ Underway(n) \/ n \in owed

\* And it does not stay so, however often the levels change.
Reconciled == \A n \in Nodes : []<>(Agree(n) \/ n \in owed)

\* "Subsequent identical queries replay the recorded rows directly from cache
\* [...] provided the entry has not expired or been evicted": one process, no
\* mutation, no mishap, and only the first query loads.
Replayed == Cardinality(Nodes) = 1 /\ db = 0 /\ mishaps = 0 =>
               \A n \in Nodes : pc[n] = "load" => queries = 1
=============================================================================
