------------------------------- MODULE Driver -------------------------------
(***************************************************************************)
(* driver.go and hook.go: concurrent Query calls through the caching       *)
(* driver over one in-process cache level, with the stampede lock, the     *)
(* ChangeSet and the mutations that mark it.                               *)
(*                                                                         *)
(* A row is abstracted to the version db[k] of its last committed          *)
(* mutation.  One process is one goroutine that issues queries one after   *)
(* the other; pc says which call of driver.go it is about to make.         *)
(***************************************************************************)
EXTENDS ChangeSet, LocalCache

CONSTANTS
    Procs,           \* goroutines that query
    Detached,        \* the ones whose context carries no cache
    Writers,         \* goroutines that mutate
    Kinds,           \* subset of {"one", "bulk", "tx"}: the mutations made
    Silent,          \* the kinds whose changed IDs the hook may fail to extract
    Options,         \* the context options (and configured log) queries use
    UseChangeSet,    \* the driver has a ChangeSet
    TTL, KeyTTL,     \* Options.TTL and Options.KeyTTL of the driver
    Failures,        \* the database, the rows or the encoding may fail
    Cancels,         \* a waiting caller's context may end
    Overlap,         \* FALSE: the application runs one operation at a time
    Stalls,          \* time may pass between Get's hit and its ChangeSet check
    MaxQueries,      \* bound: number of queries issued
    MaxWrites        \* bound: number of mutations issued

OptionType == [mode : {"cache", "skip", "evict"}, ref : BOOLEAN,
               ttl : Int, skipNotFound : BOOLEAN]

ASSUME DriverAssumption ==
    /\ Keys # {}
    /\ Detached \subseteq Procs
    /\ Kinds \subseteq {"one", "bulk", "tx"} /\ Silent \subseteq Kinds
    /\ Options \subseteq OptionType
    /\ UseChangeSet \in BOOLEAN /\ Failures \in BOOLEAN /\ Cancels \in BOOLEAN
    /\ Overlap \in BOOLEAN
    /\ Stalls \in BOOLEAN
    /\ TTL \in Int /\ KeyTTL \in Int
    /\ MaxQueries \in Nat /\ MaxWrites \in Nat

VARIABLES
    pc,         \* pc[p]: the next step of p's query
    call,       \* call[p]: the key and resolved options of p's query
    chan,       \* chan[p]: the channel p registered, or waits on; or NoChan
    got,        \* got[p]: the version p obtained from the cache or database
    queries,    \* number of queries issued
    db,         \* db[k]: number of mutations of k committed
    mutation,   \* mutation[w]: the mutation w is executing
    writes,     \* number of mutations issued
    acked,      \* ghost: acked[k], the version of k the application knows of
    floor       \* ghost: floor[p], acked[key] when p's query began

procVars  == <<pc, call, chan, got, queries, floor>>
writeVars == <<db, mutation, writes, acked>>
cacheVars == <<backend, items, waits, issued, closed, panicked>>
vars == <<now, changes, cacheVars, procVars, writeVars>>

Quiet    == {"idle", "done"}
Stages   == Quiet \cup {"direct", "expired", "check", "evictStale",
              "clearStale", "lock", "wait", "expiredAgain", "load", "rows",
              "notify", "clear", "release"}
Steps    == {"idle", "stamp", "apply", "commit"}
NoVer    == -1

CallType == [key : Keys, ref : BOOLEAN, ttl : Int, skipNotFound : BOOLEAN]
MutationType == [step : Steps, kind : {"none", "one", "bulk", "tx"},
                 keys : SUBSET Keys, marks : SUBSET Keys, stamp : Nat,
                 vers : [Keys -> Nat]]

NoCall == [key |-> CHOOSE k \in Keys : TRUE, ref |-> FALSE, ttl |-> 0,
           skipNotFound |-> FALSE]
Rest == [step |-> "idle", kind |-> "none", keys |-> {}, marks |-> {}, stamp |-> 0,
         vers |-> [k \in Keys |-> 0]]

AllQuiet == /\ \A p \in Procs : pc[p] \in Quiet
            /\ \A w \in Writers : mutation[w].step = "idle"

Init == /\ ClockInit
        /\ CSInit
        /\ LCInit
        /\ pc = [p \in Procs |-> "idle"]
        /\ call = [p \in Procs |-> NoCall]
        /\ chan = [p \in Procs |-> NoChan]
        /\ got = [p \in Procs |-> NoVer]
        /\ queries = 0
        /\ db = [k \in Keys |-> 0]
        /\ mutation = [w \in Writers |-> Rest]
        /\ writes = 0
        /\ acked = [k \in Keys |-> 0]
        /\ floor = [p \in Procs |-> 0]

Goto(p, s) == pc' = [pc EXCEPT ![p] = s]

(***************************************************************************)
(* Query: options, then the cache.                                         *)
(***************************************************************************)
EffectiveTTL(o) == IF o.ttl # 0 THEN o.ttl
                   ELSE IF o.ref /\ KeyTTL > 0 THEN KeyTTL ELSE TTL

\* The context-level caches find no cache in the context of a detached caller.
NoCache(p) == p \in Detached /\ backend # "lru"

Reachable(p, k) == IF NoCache(p) THEN {} ELSE Lookup(k)

Issue(p, k, o) ==
    /\ pc[p] \in Quiet
    /\ queries < MaxQueries
    /\ Overlap \/ AllQuiet
    /\ queries' = queries + 1
    /\ call' = [call EXCEPT ![p] = [key |-> k, ref |-> o.ref,
                   ttl |-> EffectiveTTL(o), skipNotFound |-> o.skipNotFound]]
    /\ floor' = [floor EXCEPT ![p] = IF o.ref THEN acked[k] ELSE 0]
    /\ UNCHANGED <<now, changes, backend, lockVars, chan, writeVars>>

\* A hit is checked against the ChangeSet first when the query is key-addressed.
AfterHit(o) == IF UseChangeSet /\ o.ref THEN "check" ELSE "done"

QueryGet(p, k, o) ==
    /\ o.mode = "cache"
    /\ Issue(p, k, o)
    /\ UNCHANGED items
    /\ \/ /\ Reachable(p, k) = {}
          /\ Goto(p, "lock")
          /\ got' = [got EXCEPT ![p] = NoVer]
       \/ \E e \in Reachable(p, k) :
             IF Expired(e)
             THEN Goto(p, "expired") /\ got' = [got EXCEPT ![p] = NoVer]
             ELSE Goto(p, AfterHit(o)) /\ got' = [got EXCEPT ![p] = e.ver]

\* Skip goes straight to the database; Evict deletes the entry first.
QuerySkip(p, k, o) ==
    /\ o.mode \in {"skip", "evict"}
    /\ Issue(p, k, o)
    /\ IF o.mode = "evict" /\ ~NoCache(p) THEN Del(k) ELSE UNCHANGED items
    /\ Goto(p, "direct")
    /\ got' = [got EXCEPT ![p] = NoVer]

Direct(p) ==
    /\ pc[p] = "direct"
    /\ \/ /\ Goto(p, "done")
          /\ got' = [got EXCEPT ![p] = db[call[p].key]]
       \/ /\ Failures
          /\ Goto(p, "idle")
          /\ UNCHANGED got
    /\ UNCHANGED <<now, changes, cacheVars, call, chan, queries, floor, writeVars>>

\* Get's removal of the entry it found expired, after which Query goes to
\* the lock and a waiter falls back to the database.
RemoveExpired(p) ==
    /\ pc[p] \in {"expired", "expiredAgain"}
    /\ Del(call[p].key)
    /\ Goto(p, IF pc[p] = "expired" THEN "lock" ELSE "load")
    /\ UNCHANGED <<now, changes, backend, lockVars, call, chan, got, queries,
                   floor, writeVars>>

CheckChanged(p) ==
    /\ pc[p] = "check"
    /\ IF Changed(call[p].key, now - call[p].ttl)
       THEN Goto(p, "evictStale") /\ got' = [got EXCEPT ![p] = NoVer]
       ELSE Goto(p, "done") /\ UNCHANGED got
    /\ UNCHANGED <<now, changes, cacheVars, call, chan, queries, floor, writeVars>>

EvictStale(p) ==
    /\ pc[p] = "evictStale"
    /\ Del(call[p].key)
    /\ Goto(p, "clearStale")
    /\ UNCHANGED <<now, changes, backend, lockVars, call, chan, got, queries,
                   floor, writeVars>>

ClearStale(p) ==
    /\ pc[p] = "clearStale"
    /\ Clear(call[p].key)
    /\ Goto(p, "lock")
    /\ UNCHANGED <<now, cacheVars, call, chan, got, queries, floor, writeVars>>

(***************************************************************************)
(* queryWithStampedeLock.                                                  *)
(***************************************************************************)
\* A cache without a StampedeLocker, and contextcache on a context without a
\* cache, let the caller load with nothing to release.
Lock(p) ==
    LET k == call[p].key IN
    /\ pc[p] = "lock"
    /\ \/ /\ ~HasLocker \/ NoCache(p)
          /\ Goto(p, "load")
          /\ UNCHANGED <<lockVars, chan>>
       \/ /\ HasLocker /\ ~NoCache(p) /\ waits[k] # NoChan
          /\ Goto(p, "wait")
          /\ chan' = [chan EXCEPT ![p] = waits[k]]
          /\ UNCHANGED lockVars
       \/ /\ HasLocker /\ ~NoCache(p) /\ waits[k] = NoChan
          /\ Register(k)
          /\ Goto(p, "load")
          /\ chan' = [chan EXCEPT ![p] = issued + 1]
    /\ UNCHANGED <<now, changes, backend, items, call, got, queries, floor, writeVars>>

\* Mutant of Wake: a wait that returned no entry is taken for a hit.
WakeAnyway(p) ==
    LET found == Lookup(call[p].key) IN
    /\ pc[p] = "wait"
    /\ chan[p] \in closed
    /\ chan' = [chan EXCEPT ![p] = NoChan]
    /\ Goto(p, "done")
    /\ \/ found = {} /\ UNCHANGED got
       \/ \E e \in found : got' = [got EXCEPT ![p] = e.ver]
    /\ UNCHANGED <<now, changes, cacheVars, call, queries, floor, writeVars>>

\* wait returns: a hit is served without consulting the ChangeSet, anything
\* else falls back to the database without the lock.
Wake(p) ==
    LET found == Lookup(call[p].key) IN
    /\ pc[p] = "wait"
    /\ chan[p] \in closed
    /\ chan' = [chan EXCEPT ![p] = NoChan]
    /\ \/ /\ found = {}
          /\ Goto(p, "load")
          /\ UNCHANGED got
       \/ \E e \in found :
             IF Expired(e)
             THEN Goto(p, "expiredAgain") /\ UNCHANGED got
             ELSE Goto(p, "done") /\ got' = [got EXCEPT ![p] = e.ver]
    /\ UNCHANGED <<now, changes, cacheVars, call, queries, floor, writeVars>>

\* The caller's context ends while it waits: it falls back to the database.
CancelWait(p) ==
    /\ Cancels
    /\ pc[p] = "wait"
    /\ Goto(p, "load")
    /\ chan' = [chan EXCEPT ![p] = NoChan]
    /\ UNCHANGED <<now, changes, cacheVars, call, got, queries, floor, writeVars>>

\* Mutant of Load: a failed query returns without calling release.
LoadKeepsLock(p) ==
    /\ pc[p] = "load"
    /\ \/ /\ Goto(p, "rows")
          /\ got' = [got EXCEPT ![p] = db[call[p].key]]
       \/ /\ Failures
          /\ Goto(p, "idle")
          /\ UNCHANGED got
    /\ UNCHANGED <<now, changes, cacheVars, call, chan, queries, floor, writeVars>>

\* The database answers with rows, or fails and the lock is given back.
Load(p) ==
    /\ pc[p] = "load"
    /\ \/ /\ Goto(p, "rows")
          /\ got' = [got EXCEPT ![p] = db[call[p].key]]
       \/ /\ Failures
          /\ Goto(p, "release")
          /\ UNCHANGED got
    /\ UNCHANGED <<now, changes, cacheVars, call, chan, queries, floor, writeVars>>

AfterAdd(p) == IF UseChangeSet /\ call[p].ref THEN "clear" ELSE "release"

\* recorder.Close that stores nothing: the rows failed to close, or the
\* result is empty and SkipNotFound was asked for.
CloseDiscard(p) ==
    /\ pc[p] = "rows"
    /\ Failures \/ call[p].skipNotFound
    /\ Goto(p, "release")
    /\ UNCHANGED <<now, changes, cacheVars, call, chan, got, queries, floor, writeVars>>

\* LRU.Add could not gob-encode the entry: nothing is stored and nobody is
\* notified, yet onClose goes on to clear the mark.
CloseAddError(p) ==
    /\ pc[p] = "rows"
    /\ Failures /\ backend = "lru" /\ call[p].key \notin Blank
    /\ Goto(p, AfterAdd(p))
    /\ UNCHANGED <<now, changes, cacheVars, call, chan, got, queries, floor, writeVars>>

\* recorder.Close up to the point where the entry is in the cache.
CloseAdd(p) ==
    LET k == call[p].key IN
    /\ pc[p] = "rows"
    /\ \/ /\ NoCache(p)
          /\ Goto(p, AfterAdd(p))
          /\ UNCHANGED <<items, lockVars>>
       \/ /\ ~NoCache(p) /\ backend = "lru"
          /\ LruAdd(k, got[p], call[p].ttl)
          /\ Goto(p, IF k \in Blank THEN AfterAdd(p) ELSE "notify")
          /\ UNCHANGED lockVars
       \/ /\ ~NoCache(p) /\ backend = "context"
          /\ ContextAdd(k, got[p], call[p].ttl)
          /\ Goto(p, AfterAdd(p))
       \/ /\ ~NoCache(p) /\ backend = "memory"
          /\ MemoryAdd(k, got[p])
          /\ Goto(p, AfterAdd(p))
          /\ UNCHANGED lockVars
    /\ UNCHANGED <<now, changes, backend, call, chan, got, queries, floor, writeVars>>

NotifyWaiters(p) ==
    /\ pc[p] = "notify"
    /\ Notify(call[p].key)
    /\ Goto(p, AfterAdd(p))
    /\ UNCHANGED <<now, changes, backend, items, call, chan, got, queries, floor,
                   writeVars>>

ClearMark(p) ==
    /\ pc[p] = "clear"
    /\ Clear(call[p].key)
    /\ Goto(p, "release")
    /\ UNCHANGED <<now, cacheVars, call, chan, got, queries, floor, writeVars>>

\* The deferred release of recorder.Close, or the one after a failed query.
ReleaseLock(p) ==
    /\ pc[p] = "release"
    /\ Release(call[p].key, chan[p])
    /\ chan' = [chan EXCEPT ![p] = NoChan]
    /\ Goto(p, IF got[p] = NoVer THEN "idle" ELSE "done")
    /\ UNCHANGED <<now, changes, backend, items, call, got, queries, floor, writeVars>>

(***************************************************************************)
(* Mutations through the DataChangeNotify hook.                            *)
(***************************************************************************)
\* UpdateOne names one entity; a bulk mutation may touch several.  The IDs
\* the hook asks the generated code for afterwards may be any part of them:
\* a predicate that no longer holds, or an ID that is not an int.
KeySets(kind) == IF kind = "bulk" THEN (SUBSET Keys) \ {{}} ELSE {{k} : k \in Keys}
Extracted(kind, ks) == CASE ~UseChangeSet                  -> {{}}
                         [] UseChangeSet /\ kind \in Silent -> SUBSET ks
                         [] OTHER                          -> {ks}

NewVersions(ks) == [k \in Keys |-> IF k \in ks THEN db[k] + 1 ELSE 0]
Commit(vers) == db' = [k \in Keys |-> IF vers[k] > 0 THEN vers[k] ELSE db[k]]
Acknowledge(vers) ==
    acked' = [k \in Keys |-> IF vers[k] > acked[k] THEN vers[k] ELSE acked[k]]

\* next.Mutate: the round trip to the database takes time.
RoundTrip(w) ==
    /\ mutation[w].step = "idle"
    /\ writes < MaxWrites
    /\ Overlap \/ AllQuiet
    /\ writes' = writes + 1
    /\ Tick

\* Outside a transaction the change is committed when next.Mutate returns.
Mutate(w, kind, ks, marks) ==
    LET vers == IF kind = "tx" THEN [k \in Keys |-> 0] ELSE NewVersions(ks) IN
    /\ RoundTrip(w)
    /\ Commit(vers)
    /\ mutation' = [mutation EXCEPT ![w] =
          [step |-> "stamp", kind |-> kind, keys |-> ks, marks |-> marks,
           stamp |-> 0, vers |-> vers]]
    /\ UNCHANGED <<changes, cacheVars, procVars, acked>>

\* next.Mutate fails, perhaps after the database has committed the change:
\* the hook returns the error and marks nothing.
MutateFails(w, kind, ks) ==
    /\ Failures
    /\ RoundTrip(w)
    /\ \/ UNCHANGED db
       \/ kind # "tx" /\ Commit(NewVersions(ks))
    /\ UNCHANGED <<changes, cacheVars, procVars, mutation, acked>>

\* Mark reads the clock before it takes the lock.
StampMark(w) ==
    /\ mutation[w].step = "stamp"
    /\ mutation[w].marks # {}
    /\ mutation' = [mutation EXCEPT ![w].step = "apply", ![w].stamp = now]
    /\ UNCHANGED <<now, changes, cacheVars, procVars, db, writes, acked>>

\* The hook returns to the application, or to its open transaction.
Return(w) ==
    /\ mutation' = [mutation EXCEPT ![w] =
          IF mutation[w].kind = "tx"
          THEN [mutation[w] EXCEPT !.step = "commit"] ELSE Rest]
    /\ Acknowledge(mutation[w].vers)
    /\ UNCHANGED <<now, cacheVars, procVars, db, writes>>

ApplyMark(w) ==
    /\ mutation[w].step = "apply"
    /\ Mark(mutation[w].marks, mutation[w].stamp)
    /\ Return(w)

\* There is no ChangeSet, or no ID could be extracted: nothing is marked.
ReturnUnmarked(w) ==
    /\ mutation[w].step = "stamp"
    /\ mutation[w].marks = {}
    /\ UNCHANGED changes
    /\ Return(w)

\* The application ends its transaction.
CommitTx(w) ==
    LET vers == NewVersions(mutation[w].keys) IN
    /\ mutation[w].step = "commit"
    /\ \/ Commit(vers) /\ Acknowledge(vers)
       \/ Failures /\ UNCHANGED <<db, acked>>
    /\ mutation' = [mutation EXCEPT ![w] = Rest]
    /\ UNCHANGED <<now, changes, cacheVars, procVars, writes>>

(***************************************************************************)
(* The system.                                                             *)
(***************************************************************************)
\* The steps of a query that need nobody else: what fairness is asked of.
Advance(p) ==
    \/ Direct(p) \/ RemoveExpired(p) \/ CheckChanged(p) \/ EvictStale(p)
    \/ ClearStale(p) \/ Lock(p) \/ Wake(p) \/ Load(p) \/ CloseDiscard(p)
    \/ CloseAddError(p) \/ CloseAdd(p) \/ NotifyWaiters(p) \/ ClearMark(p)
    \/ ReleaseLock(p)

Query(p) == \E k \in Keys, o \in Options : QueryGet(p, k, o) \/ QuerySkip(p, k, o)

Mutator(w) ==
    \/ \E kind \in Kinds : \E ks \in KeySets(kind) :
          \/ \E marks \in Extracted(kind, ks) : Mutate(w, kind, ks, marks)
          \/ MutateFails(w, kind, ks)
    \/ StampMark(w) \/ ApplyMark(w) \/ ReturnUnmarked(w) \/ CommitTx(w)

Pass == /\ Stalls \/ \A p \in Procs : pc[p] # "check"
        /\ Tick
        /\ UNCHANGED <<changes, cacheVars, procVars, writeVars>>

Collect == gc /\ UNCHANGED <<now, cacheVars, procVars, writeVars>>

\* Everything has returned; without this stutter TLC would report the end of
\* a bounded behaviour as a deadlock.
Rested == AllQuiet /\ UNCHANGED vars

Next == \/ \E p \in Procs : Query(p) \/ Advance(p) \/ CancelWait(p)
        \/ \E w \in Writers : Mutator(w)
        \/ Pass
        \/ Collect
        \/ Rested

Fairness == \A p \in Procs : WF_vars(Advance(p))

Spec == Init /\ [][Next]_vars
FairSpec == Spec /\ Fairness

(***************************************************************************)
(* Properties.                                                             *)
(***************************************************************************)
\* Every variable holds a value of its type: the maps of LRU and memoryCache
\* hold at most one entry and one wait channel per key, the ChangeSet at most
\* one mark.
ProcTypeOK == /\ pc \in [Procs -> Stages]
              /\ call \in [Procs -> CallType]
              /\ chan \in [Procs -> Nat]
              /\ got \in [Procs -> Nat \cup {NoVer}]
              /\ \A p \in Procs : pc[p] \in {"check", "rows", "done"} => got[p] \in Nat
              /\ queries \in Nat
              /\ floor \in [Procs -> Nat]

WriteTypeOK == /\ db \in [Keys -> Nat]
               /\ mutation \in [Writers -> MutationType]
               /\ writes \in Nat
               /\ acked \in [Keys -> Nat]

TypeOK == now \in Nat /\ CSTypeOK /\ LCTypeOK /\ ProcTypeOK /\ WriteTypeOK

\* The callers that hold a lock: they registered a channel and have not
\* called release yet.
Holders == {p \in Procs :
              /\ pc[p] \in {"load", "rows", "notify", "clear", "release"}
              /\ chan[p] # NoChan}

\* The wait channels of LockOrWait are closed by Add and by release, in any
\* interleaving of winners, fallback loaders and later rounds: no channel is
\* ever closed a second time (which panics).
NoPanic == ~panicked

\* A caller blocked in wait() is never forgotten: its channel is closed, or
\* still registered for its key and owned by a caller that has yet to run its
\* Add or its release.
NoOrphanedWaiter ==
    \A p \in Procs : pc[p] = "wait" =>
        \/ chan[p] \in closed
        \/ /\ waits[call[p].key] = chan[p]
           /\ \E w \in Holders : chan[w] = chan[p] /\ call[w].key = call[p].key

\* Why: a registered channel is open and has one holder, of its own key; a
\* channel somebody waits on is registered until it is closed.
RoundInv ==
    /\ ~panicked
    /\ \A k \in Keys : waits[k] # NoChan =>
          /\ waits[k] \notin closed
          /\ \E w \in Holders : chan[w] = waits[k] /\ call[w].key = k
    /\ \A p \in Procs : chan[p] # NoChan =>
          /\ chan[p] <= issued
          /\ pc[p] = "wait" \/ p \in Holders
    /\ \A p \in Procs : pc[p] = "wait" =>
          chan[p] \in closed \/ waits[call[p].key] = chan[p]
    /\ \A p \in Procs : pc[p] = "wait" => chan[p] # NoChan
    /\ \A p, r \in Holders : chan[p] = chan[r] => p = r
    /\ \A c \in closed : c <= issued

\* Stampede protection: never two callers of one key at the database at once.
\* (The LRU stores nothing under the blank key, so it protects nothing there.)
SingleLoader ==
    \A p, r \in Procs :
        /\ pc[p] \in {"load", "rows"}
        /\ pc[r] \in {"load", "rows"}
        /\ call[p].key = call[r].key
        /\ call[p].key \notin Blank
        => p = r

\* The local lock is a StampedeGate: a key's round is open while a channel is
\* registered for it, and its waiters are those whose own channel is not closed
\* yet.  Rounds never overlap, and a channel is unregistered only together with
\* the wake-up of all its waiters, whatever fails and whoever stores the entry.
RoundWinner(k) == {p \in Holders : chan[p] = waits[k] /\ call[p].key = k}
RoundWaiters(k) == {p \in Procs : /\ pc[p] = "wait" /\ call[p].key = k
                                  /\ chan[p] \notin closed}

Gate == INSTANCE StampedeGate
        WITH winner <- [k \in Keys |-> RoundWinner(k)],
             waiters <- [k \in Keys |-> RoundWaiters(k)]

RefinesGate == Gate!Spec

\* Mutation-aware invalidation: a key-addressed query never returns a version
\* older than one whose mutation had returned before the query began.
FreshAfterMutation == \A p \in Procs : pc[p] = "done" => got[p] >= floor[p]

\* Every query returns: no caller waits for ever on a winner that failed,
\* was discarded, or whose entry another caller stored, expired or evicted.
QueryReturns == \A p \in Procs : pc[p] \notin Quiet ~> pc[p] \in Quiet
=============================================================================
