---------------------------- MODULE RemoteCaller ----------------------------
(***************************************************************************)
(* One query of driver.go (Query, queryWithStampedeLock, recorder.Close)   *)
(* over a remote cache: miss, heartbeat, LockOrWait, load, Add, release.   *)
(* The waiting half of LockOrWait is in NatsLock and RedisLock.            *)
(***************************************************************************)
EXTENDS RemoteStore

CONSTANTS
    Mishaps,      \* the kinds of mishap that may happen, by name:
                  \*   "get", "beat", "lock", "quit", "load", "add": that call fails
                  \*   "reply", "release": a lock or release call is lost
                  \*   "stale": rueidis' client-side cache lags behind
                  \*   "late": PSubscribe returns before the subscription is active
                  \*   "lapse", "slow": a live heartbeat, a held lock expires
                  \*   "gone", "crash": the entry goes, a process goes down
    MaxQueries,   \* bound: number of queries issued
    MaxMishaps    \* bound: number of mishaps in a behaviour

ASSUME RemoteCallerAssumption ==
    /\ MaxQueries \in Nat /\ MaxMishaps \in Nat

VARIABLES
    pc,           \* pc[p]: the next step of p's query
    hid,          \* hid[p]: the heartbeat id keepalive returned
    mine,         \* mine[p]: revision of the lock p won and has not released, or 0
    seen,         \* seen[p]: the lock record p waits on, {} if none
    queries,      \* number of queries issued
    mishaps,      \* number of mishaps so far
    prompt        \* so far every holder's heartbeat was created and renewed in
                  \* time, and every lock released before its TTL

callVars == <<pc, hid, mine, seen, queries>>
vars == <<backend, data, lockVars, beatVars, up, subs, late, callVars, mishaps, prompt>>

\* Stages in which the caller blocks inside wait().
Waiting == {"recheck", "lookup", "probe", "watch", "listen", "reread", "purge",
            "poll", "compare", "subscribe", "check"}
Holding == {"load", "add", "create", "release"}
Stages  == {"idle", "direct", "peek", "keep", "announce", "acquire"} \cup Waiting \cup Holding

CallTypeOK == /\ pc \in [Procs -> Stages]
              /\ hid \in [Procs -> Nat]
              /\ mine \in [Procs -> Nat]
              /\ seen \in [Procs -> SUBSET LockType]
              /\ queries \in Nat
              /\ mishaps \in Nat
              /\ prompt \in BOOLEAN

CallInit == /\ pc = [p \in Procs |-> "idle"]
            /\ hid = [p \in Procs |-> NoId]
            /\ mine = [p \in Procs |-> 0]
            /\ seen = [p \in Procs |-> {}]
            /\ queries = 0
            /\ mishaps = 0
            /\ prompt = TRUE

Goto(p, s) == pc' = [pc EXCEPT ![p] = s]

Forget(p) == hid' = [hid EXCEPT ![p] = NoId]

Mishap(kind) == /\ kind \in Mishaps
                /\ mishaps < MaxMishaps
                /\ mishaps' = mishaps + 1

AsPlanned == UNCHANGED mishaps

Untimely(kind) == Mishap(kind) /\ prompt' = FALSE

\* rueidis answers from its client-side cache, which may lag behind the server.
StaleAbsent == backend = "poll" /\ Mishap("stale")

\* Where LockOrWait begins: NATS looks for the entry once more.
Start == IF backend = "nats" THEN "peek" ELSE "keep"

\* Query: a hit returns, a miss goes on to LockOrWait, and after any other
\* error of Get the query goes to the database, past lock and recorder.
Query(p) ==
    /\ pc[p] = "idle"
    /\ up[NodeOf[p]]
    /\ queries < MaxQueries
    /\ queries' = queries + 1
    /\ \/ data /\ AsPlanned /\ UNCHANGED pc
       \/ ~data /\ AsPlanned /\ Goto(p, Start)
       \/ data /\ StaleAbsent /\ Goto(p, Start)
       \/ Mishap("get") /\ Goto(p, "direct")
    /\ UNCHANGED <<backend, data, lockVars, beatVars, up, subs, late, hid, mine, seen, prompt>>

\* The database's answer is returned as it is: nothing is stored.
Direct(p) ==
    /\ pc[p] = "direct"
    /\ Goto(p, "idle")
    /\ UNCHANGED <<backend, data, lockVars, beatVars, up, subs, late, hid, mine, seen,
                   queries, mishaps, prompt>>

\* keepalive reads the id of the process, before it makes a new one.
Keepalive(p) ==
    LET n == NodeOf[p] IN
    /\ pc[p] = "keep"
    /\ IF client[n] = NoId
       THEN Goto(p, "announce") /\ UNCHANGED hid
       ELSE Goto(p, "acquire") /\ hid' = [hid EXCEPT ![p] = client[n]]
    /\ UNCHANGED <<backend, data, lockVars, beatVars, up, subs, late, mine, seen, queries,
                   mishaps, prompt>>

\* n's new heartbeat and its id.
Name(n, id) == /\ ids' = id
               /\ beats' = beats \cup {id}
               /\ client' = [client EXCEPT ![n] = id]

\* Mutant of Announce: the id is replaced without a look at the one there.
AnnounceAnyway(p) ==
    /\ pc[p] = "announce"
    /\ Name(NodeOf[p], ids + 1)
    /\ hid' = [hid EXCEPT ![p] = ids + 1]
    /\ Goto(p, "acquire")
    /\ UNCHANGED <<backend, data, lockVars, up, subs, late, mine, seen, queries, mishaps,
                   prompt>>

\* keepalive creates a heartbeat and, under the mutex, makes its id that of
\* the process unless another caller was faster: a heartbeat that loses is
\* left out, no lock will carry its id.  When it cannot be created the Redis
\* caches load without the lock, and NATS uses the id all the same.
Announce(p) ==
    LET n == NodeOf[p] IN
    /\ pc[p] = "announce"
    /\ \/ /\ client[n] = NoId
          /\ Name(n, ids + 1)
          /\ hid' = [hid EXCEPT ![p] = ids + 1]
          /\ Goto(p, "acquire")
          /\ AsPlanned /\ UNCHANGED prompt
       \/ /\ client[n] # NoId
          /\ hid' = [hid EXCEPT ![p] = client[n]]
          /\ Goto(p, "acquire")
          /\ AsPlanned /\ UNCHANGED <<beatVars, prompt>>
       \/ /\ backend = "nats" /\ Untimely("beat")
          /\ ids' = ids + 1
          /\ hid' = [hid EXCEPT ![p] = ids + 1]
          /\ Goto(p, "acquire")
          /\ UNCHANGED <<beats, client>>
       \/ /\ backend # "nats" /\ Mishap("beat")
          /\ Goto(p, "load")
          /\ UNCHANGED <<hid, beatVars, prompt>>
    /\ UNCHANGED <<backend, data, lockVars, up, subs, late, mine, seen, queries>>

\* kv.Create, or the acquireLock script, which also returns the holder's id.
\* Only a winner keeps the id, for its release.
Acquire(p) ==
    /\ pc[p] = "acquire"
    /\ \/ /\ TakeLock(p, hid[p])
          /\ mine' = [mine EXCEPT ![p] = revision + 1]
          /\ Goto(p, "load")
          /\ AsPlanned /\ UNCHANGED <<hid, seen>>
       \/ /\ lock # {}
          /\ IF backend = "nats"
             THEN Goto(p, "recheck") /\ UNCHANGED seen
             ELSE /\ Goto(p, IF backend = "events" THEN "subscribe" ELSE "poll")
                  /\ seen' = [seen EXCEPT ![p] = lock]
          /\ Forget(p)
          /\ AsPlanned /\ UNCHANGED <<lockVars, mine>>
       \/ /\ Mishap("lock")
          /\ Goto(p, "load")
          /\ Forget(p)
          /\ UNCHANGED <<lockVars, mine, seen>>
       \/ /\ Mishap("reply")
          /\ TakeLock(p, hid[p])
          /\ Goto(p, "load")
          /\ Forget(p)
          /\ UNCHANGED <<mine, seen>>
    /\ UNCHANGED <<backend, data, beatVars, up, subs, late, queries, prompt>>

\* The database answers, or nothing is stored: the query, its rows or their
\* Close failed.
Load(p) ==
    /\ pc[p] = "load"
    /\ \/ AsPlanned /\ Goto(p, "add")
       \/ Mishap("load") /\ Goto(p, "release")
    /\ UNCHANGED <<backend, data, lockVars, beatVars, up, subs, late, hid, mine, seen,
                   queries, prompt>>

\* Add: one call, but for NATS entries with a TTL, which are deleted first.
Add(p) ==
    /\ pc[p] = "add"
    /\ \/ data' = TRUE /\ AsPlanned /\ Goto(p, "release")
       \/ backend = "nats" /\ data' = FALSE /\ AsPlanned /\ Goto(p, "create")
       \/ Mishap("add") /\ Goto(p, "release") /\ UNCHANGED data
    /\ UNCHANGED <<backend, lockVars, beatVars, up, subs, late, hid, mine, seen, queries,
                   prompt>>

CreateEntry(p) ==
    /\ pc[p] = "create"
    /\ \/ data' = TRUE /\ AsPlanned
       \/ Mishap("add") /\ UNCHANGED data
    /\ Goto(p, "release")
    /\ UNCHANGED <<backend, lockVars, beatVars, up, subs, late, hid, mine, seen, queries,
                   prompt>>

\* What release removes: NATS goes by the revision it created, Redis by id.
Unlock(p) ==
    IF backend = "nats" THEN PurgeRevision(mine[p]) ELSE DelKey(hid[p])

\* A caller that did not win has no release to call; the error of a release is
\* ignored, and the lock stays.
Release(p) ==
    /\ pc[p] = "release"
    /\ \/ mine[p] = 0 /\ AsPlanned /\ UNCHANGED lockVars
       \/ mine[p] # 0 /\ AsPlanned /\ Unlock(p)
       \/ mine[p] # 0 /\ Mishap("release") /\ UNCHANGED lockVars
    /\ mine' = [mine EXCEPT ![p] = 0]
    /\ Forget(p)
    /\ Goto(p, "idle")
    /\ UNCHANGED <<backend, data, beatVars, up, subs, late, seen, queries, prompt>>
=============================================================================
