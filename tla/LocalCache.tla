----------------------------- MODULE LocalCache -----------------------------
(***************************************************************************)
(* The in-process cache levels: lrucache.LRU, the contextcache package and *)
(* the memoryCache behind entcache.ContextLevel.  `backend' says which one *)
(* the driver was configured with.  An entry is the version of the row it  *)
(* was loaded from and its expiry; a wait channel is a serial number.      *)
(***************************************************************************)
EXTENDS Clock, FiniteSets

CONSTANTS
    Backends,     \* subset of {"lru", "context", "memory"}
    Capacity,     \* maxEntries of the LRU
    Blank         \* the keys whose fmt.Sprint is ""

ASSUME LocalCacheAssumption == /\ Backends \subseteq {"lru", "context", "memory"}
                               /\ Capacity \in Nat \ {0}
                               /\ Blank \subseteq Keys

VARIABLES
    backend,
    items,        \* items[k]: the cached entry, if any
    waits,        \* waits[k]: the channel registered for k, or NoChan
    issued,       \* number of channels made so far
    closed,       \* the channels that have been closed
    panicked      \* TRUE once a closed channel was closed again

NoChan == 0

Entry == [ver : Nat, exp : Maybe(Int)]

LCTypeOK == /\ backend \in Backends
            /\ items \in [Keys -> Maybe(Entry)]
            /\ waits \in [Keys -> Nat]
            /\ issued \in Nat
            /\ closed \subseteq Nat
            /\ panicked \in BOOLEAN

LCInit == /\ backend \in Backends
          /\ items = [k \in Keys |-> {}]
          /\ waits = [k \in Keys |-> NoChan]
          /\ issued = 0
          /\ closed = {}
          /\ panicked = FALSE

lockVars == <<waits, issued, closed, panicked>>

(***************************************************************************)
(* Get and Del.                                                            *)
(***************************************************************************)
Expired(e) == \E x \in e.exp : now > x

LruGet(k) == IF k \in Blank THEN {} ELSE items[k]

ContextGet(k) == items[k]

MemoryGet(k) == items[k]

\* The entry Get finds in the map; an expired one is reported as not found
\* and removed by a separate step.
Lookup(k) == CASE backend = "lru"     -> LruGet(k)
               [] backend = "context" -> ContextGet(k)
               [] backend = "memory"  -> MemoryGet(k)

Del(k) == items' = [items EXCEPT ![k] = {}]

(***************************************************************************)
(* LockOrWait: the registered channel decides who loads.                   *)
(***************************************************************************)
HasLocker == backend # "memory"

Register(k) == /\ issued' = issued + 1
               /\ waits' = [waits EXCEPT ![k] = issued + 1]
               /\ UNCHANGED <<closed, panicked>>

Close(c) == /\ closed' = closed \cup {c}
            /\ panicked' = (panicked \/ c \in closed)

\* Mutant of Notify: the closed channel stays registered.
NotifyKeeping(k) ==
    \/ /\ waits[k] # NoChan
       /\ Close(waits[k])
       /\ UNCHANGED <<waits, issued>>
    \/ /\ waits[k] = NoChan
       /\ UNCHANGED lockVars

\* The tail of Add: wake the waiters of whatever channel is registered.
Notify(k) ==
    \/ /\ waits[k] # NoChan
       /\ Close(waits[k])
       /\ waits' = [waits EXCEPT ![k] = NoChan]
       /\ UNCHANGED issued
    \/ /\ waits[k] = NoChan
       /\ UNCHANGED lockVars

\* Mutant of Release: whatever round is open is ended.
ReleaseAny(k, c) ==
    \/ /\ c # NoChan
       /\ waits[k] # NoChan
       /\ Close(waits[k])
       /\ waits' = [waits EXCEPT ![k] = NoChan]
       /\ UNCHANGED issued
    \/ /\ c = NoChan \/ waits[k] = NoChan
       /\ UNCHANGED lockVars

\* Mutant of Release: the channel is unregistered but not closed.
ReleaseSilently(k, c) ==
    /\ waits' = [waits EXCEPT ![k] = IF waits[k] = c THEN NoChan ELSE waits[k]]
    /\ UNCHANGED <<issued, closed, panicked>>

\* The release closure of the winner that registered channel c; a caller
\* that holds no lock (c = NoChan) has no closure to call.
Release(k, c) ==
    \/ /\ c # NoChan
       /\ waits[k] = c
       /\ Close(c)
       /\ waits' = [waits EXCEPT ![k] = NoChan]
       /\ UNCHANGED issued
    \/ /\ c = NoChan \/ waits[k] # c
       /\ UNCHANGED lockVars

(***************************************************************************)
(* Add.                                                                    *)
(***************************************************************************)
\* The keys the bounded LRU keeps besides k: a full cache drops one of them.
\* Which one is the library's recency order, left open here.
LruKept(k) ==
    LET others == {j \in Keys \ {k} : items[j] # {}}
    IN  IF items[k] # {} \/ Cardinality(others) < Capacity
        THEN {others}
        ELSE {others \ {j} : j \in others}

\* LRU.Add up to cache.Add; the waiters are notified by a later step.
LruAdd(k, v, ttl) ==
    IF k \in Blank
    THEN UNCHANGED items
    ELSE \E kept \in LruKept(k) :
           items' = [j \in Keys |->
              IF j = k
              THEN {[ver |-> v, exp |-> IF ttl = 0 THEN {} ELSE {now + ttl}]}
              ELSE IF j \in kept THEN items[j] ELSE {}]

\* memoryCache.Add of contextcache: map and channel change under one lock.
ContextAdd(k, v, ttl) ==
    /\ items' = [items EXCEPT ![k] =
          IF ttl < 0 THEN {}
          ELSE {[ver |-> v, exp |-> IF ttl > 0 THEN {now + ttl} ELSE {}]}]
    /\ Notify(k)

\* memoryCache.Add of the core package ignores the TTL.
MemoryAdd(k, v) == items' = [items EXCEPT ![k] = {[ver |-> v, exp |-> {}]}]
=============================================================================
