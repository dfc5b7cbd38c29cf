----------------------------- MODULE RemoteStore -----------------------------
(***************************************************************************)
(* One cache key on a shared server, a NATS KV bucket or Redis: its data,  *)
(* the lock key beside it, the heartbeat keys of the client processes, and *)
(* the events the server sends to those that watch the lock.  Time is left *)
(* out: a key with a TTL may expire whenever nobody renews it.             *)
(***************************************************************************)
EXTENDS Integers

CONSTANTS
    Nodes,        \* client processes, each with its own cache value
    Procs,        \* goroutines that query
    NodeOf,       \* the process a goroutine belongs to
    Backends      \* subset of {"nats", "poll", "events"}

ASSUME RemoteStoreAssumption ==
    /\ NodeOf \in [Procs -> Nodes]
    /\ Backends \subseteq {"nats", "poll", "events"}

VARIABLES
    backend,      \* natscache; rueidiscache or rediscache; rediscache with events
    data,         \* the server has an entry under the key
    lock,         \* the lock key: at most one record
    revision,     \* number of times the lock was taken
    beats,        \* the heartbeat keys present
    ids,          \* number of heartbeat ids generated
    client,       \* client[n]: the id field of n's cache value, or NoId
    up,           \* up[n]: process n is running
    subs,         \* the callers whose subscription to the lock key is active
    late,         \* those whose last subscription was late to become active
    event         \* event[p]: the first event waiting in p's subscription

NoId == 0
NoEvent == "none"

LockType == [rev : Nat, id : Nat, owner : Procs]

StoreTypeOK == /\ backend \in Backends
               /\ data \in BOOLEAN
               /\ lock \in SUBSET LockType
               /\ \A l, m \in lock : l = m
               /\ revision \in Nat
               /\ beats \subseteq Nat
               /\ ids \in Nat
               /\ client \in [Nodes -> Nat]
               /\ up \in [Nodes -> BOOLEAN]
               /\ subs \subseteq Procs
               /\ late \subseteq Procs
               /\ event \in [Procs -> {NoEvent, "gone", "set"}]

StoreInit == /\ backend \in Backends
             /\ data = FALSE
             /\ lock = {}
             /\ revision = 0
             /\ beats = {}
             /\ ids = 0
             /\ client = [n \in Nodes |-> NoId]
             /\ up = [n \in Nodes |-> TRUE]
             /\ subs = {}
             /\ late = {}
             /\ event = [p \in Procs |-> NoEvent]

lockVars == <<lock, revision, event>>
beatVars == <<beats, ids, client>>

\* An event reaches the active subscriptions; a subscriber acts on the first.
Publish(what) ==
    event' = [p \in Procs |-> IF p \in subs /\ event[p] = NoEvent THEN what ELSE event[p]]

\* Mutant of TakeLock: every holder has a lock key of its own.
TakeOwnLock(p, id) ==
    /\ lock' = lock \cup {[rev |-> revision + 1, id |-> id, owner |-> p]}
    /\ revision' = revision + 1
    /\ UNCHANGED event

\* Mutant of TakeLock: a plain SET replaces the lock that is there.
SetLock(p, id) ==
    /\ lock' = {[rev |-> revision + 1, id |-> id, owner |-> p]}
    /\ revision' = revision + 1
    /\ UNCHANGED event

\* kv.Create, or SET NX: only the keyspace channel reports it to a waiter (the
\* NATS watcher ignores puts).
TakeLock(p, id) ==
    /\ lock = {}
    /\ lock' = {[rev |-> revision + 1, id |-> id, owner |-> p]}
    /\ revision' = revision + 1
    /\ IF backend = "events" THEN Publish("set") ELSE UNCHANGED event

\* The lock key is deleted, purged or expires.
DropLock == /\ lock' = {}
            /\ Publish("gone")
            /\ UNCHANGED revision

\* Mutant of PurgeRevision: compared with the revision of something older.
PurgeOlder(rev) ==
    IF \E l \in lock : l.rev < rev THEN DropLock ELSE UNCHANGED lockVars

\* kv.Purge with LastRevision(rev).
PurgeRevision(rev) ==
    IF \E l \in lock : l.rev = rev THEN DropLock ELSE UNCHANGED lockVars

\* The delkey script: delete the lock if it holds this client id.
DelKey(id) ==
    IF \E l \in lock : l.id = id THEN DropLock ELSE UNCHANGED lockVars

\* refresh() renews the heartbeat under n's client id every 5 of its 10 s.
Refreshed(id) == \E n \in Nodes : up[n] /\ client[n] = id
==============================================================================
