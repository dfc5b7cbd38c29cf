---------------------------- MODULE FreshProofs ----------------------------
(***************************************************************************)
(* Mutation-aware invalidation works when nothing overlaps: with one cache,*)
(* an LRU or that of a context, one operation at a time, hooks that know   *)
(* the mutated entities, and a single TTL for key-addressed queries that is*)
(* the longest in use and no longer than the ChangeSet's GC interval.      *)
(***************************************************************************)
EXTENDS DriverProofs

\* The TTL of a key-addressed query that does not bring its own.
KeyAge == IF KeyTTL > 0 THEN KeyTTL ELSE TTL

\* The configurations the theorem is about.
Serialized ==
    /\ ~Overlap /\ ~Stalls /\ UseChangeSet
    /\ Backends \subseteq {"lru", "context"}
    /\ "context" \in Backends => Detached = {}
    /\ Silent = {}
    /\ KeyAge <= GCInterval
    /\ \A o \in Options : /\ 0 < EffectiveTTL(o) /\ EffectiveTTL(o) <= KeyAge
                          /\ o.ref => EffectiveTTL(o) = KeyAge

(***************************************************************************)
(* The inductive invariant, in five parts.                                 *)
(***************************************************************************)
Idle == {w \in Writers : mutation[w].step = "idle"}
Active == {p \in Procs : pc[p] \notin Quiet}

\* One operation at a time; hence nobody ever waits for another's load.
SerialInv ==
    /\ \/ backend = "lru"
       \/ backend = "context" /\ Detached = {}
    /\ \A p, r \in Active : p = r
    /\ \A w \in Writers \ Idle : Active = {} /\ \A v \in Writers \ Idle : v = w
    /\ \A p \in Procs : pc[p] \notin {"wait", "expiredAgain"}
    /\ \A w \in Writers \ Idle : /\ mutation[w].marks = mutation[w].keys
                                 /\ mutation[w].keys # {}

\* What the application has been told of is committed.
VersionInv ==
    /\ \A k \in Keys : acked[k] <= db[k]
    /\ \A w \in Writers : \A k \in Keys :
          /\ mutation[w].vers[k] <= db[k]
          /\ k \notin mutation[w].keys => mutation[w].vers[k] = 0
    /\ \A p \in Procs : floor[p] <= acked[call[p].key]

\* The keys of mutations under way, and of those whose mark is yet to come.
Mutating == {k \in Keys : \E w \in Writers \ Idle : k \in mutation[w].keys}
Pending  == {k \in Keys : \E w \in Writers : /\ mutation[w].step \in {"stamp", "apply"}
                                             /\ k \in mutation[w].keys}

\* An entry the application knows to be outdated, or that a mutation is about
\* to outdate, has expired, is marked for as long as it can live, or is about
\* to be.
EntryInv ==
    \A k \in Keys : \A e \in items[k] :
        /\ backend = "lru" => k \notin Blank
        /\ e.exp # {}
        /\ \A x \in e.exp :
              /\ x <= now + KeyAge
              /\ e.ver < acked[k] \/ k \in Mutating =>
                    \/ x < now
                    \/ \E t \in changes[k] : t + KeyAge > x
                    \/ k \in Pending

\* The mark of a mutation outlives every entry cached when it began.
MarkInv ==
    \A w \in Writers : \A k \in mutation[w].keys : \A e \in items[k] : \A x \in e.exp :
        /\ mutation[w].step = "stamp" => x < now + KeyAge
        /\ mutation[w].step = "apply" => x < mutation[w].stamp + KeyAge

\* What a query knows at each of its steps.
Sound ==
    {p \in Procs :
        /\ p \in Active => /\ 0 < call[p].ttl /\ call[p].ttl <= KeyAge
                           /\ call[p].ref => call[p].ttl = KeyAge
        /\ ~call[p].ref => floor[p] = 0
        /\ pc[p] \in {"direct", "expired", "evictStale", "clearStale", "lock", "load"}
              => got[p] = NoVer
        /\ pc[p] = "check" =>
              /\ call[p].ref
              /\ got[p] >= floor[p] \/ \E t \in changes[call[p].key] : t + KeyAge > now
        /\ pc[p] \in {"clearStale", "lock", "load", "rows"} => items[call[p].key] = {}
        /\ pc[p] \in {"notify", "clear"} =>
              \A e \in items[call[p].key] : e.ver = db[call[p].key]
        /\ pc[p] \in {"rows", "notify", "clear"} => got[p] = db[call[p].key]
        /\ pc[p] = "release" => got[p] \in {NoVer, db[call[p].key]}
        /\ pc[p] = "done" => got[p] >= floor[p]}

QueryInv == Procs \subseteq Sound

FreshInv == SerialInv /\ VersionInv /\ EntryInv /\ MarkInv /\ QueryInv

LEMMA FreshImplies == QueryInv => FreshAfterMutation
BY DEF QueryInv, Sound, FreshAfterMutation

LEMMA KeyAgeType == KeyAge \in Int
BY DriverAssumption DEF KeyAge

LEMMA ItemType ==
    ASSUME TypeOK, NEW k \in Keys, NEW e \in items[k]
    PROVE  e.ver \in Nat /\ e.exp \in SUBSET Int
<1>1. e \in Entry
  BY MaybeElement DEF TypeOK, LCTypeOK
<1>2. e.exp \in Maybe(Int)
  BY <1>1 DEF Entry
<1> QED
  BY <1>1, <1>2 DEF Entry, Maybe

\* At the start there is nothing cached, changed or under way.
LEMMA InitFresh == ASSUME Serialized PROVE Init => FreshInv
<1> SUFFICES ASSUME Init PROVE FreshInv
  OBVIOUS
<1>1. Idle = Writers /\ Active = {}
  BY DEF Init, Idle, Active, Rest, Quiet
<1>2. SerialInv
  <2>1. backend \in Backends
    BY DEF Init, LCInit
  <2>2. \A p \in Procs : pc[p] = "idle"
    BY DEF Init
  <2> QED
    BY <1>1, <2>1, <2>2 DEF SerialInv, Serialized
<1>3. VersionInv
  BY NoCallType DEF Init, VersionInv, Rest, CallType
<1>4. EntryInv /\ MarkInv
  BY RestType DEF Init, LCInit, EntryInv, MarkInv, Rest
<1>5. QueryInv
  BY <1>1 DEF Init, QueryInv, Sound, NoCall
<1> QED
  BY <1>2, <1>3, <1>4, <1>5 DEF FreshInv

(***************************************************************************)
(* A query moves while everybody else rests.                               *)
(***************************************************************************)
\* The goroutine p takes a step of a query: it was at work, or starts now.
Turn(p) == /\ p \in Active \/ AllQuiet
           /\ UNCHANGED writeVars /\ UNCHANGED now /\ UNCHANGED backend
           /\ \A q \in Procs \ {p} : /\ pc'[q] = pc[q] /\ call'[q] = call[q]
                                     /\ floor'[q] = floor[q] /\ got'[q] = got[q]

LEMMA TurnAlone ==
    ASSUME TypeOK, SerialInv, NEW p \in Procs, Turn(p)
    PROVE  /\ Idle = Writers
           /\ \A q \in Procs \ {p} : pc[q] \in Quiet
<1>1. CASE AllQuiet
  BY <1>1 DEF AllQuiet, Idle
<1>2. CASE p \in Active
  BY <1>2 DEF SerialInv, Idle, Active
<1> QED
  BY <1>1, <1>2 DEF Turn

LEMMA TurnSerial ==
    ASSUME TypeOK, SerialInv, NEW p \in Procs, Turn(p), pc'[p] \notin {"wait", "expiredAgain"}
    PROVE  SerialInv' /\ MarkInv'
<1>1. Idle = Writers /\ \A q \in Procs \ {p} : pc[q] \in Quiet
  BY TurnAlone
<1>2. Idle' = Writers
  BY <1>1 DEF Turn, writeVars, Idle
<1>3. Active' \subseteq {p}
  BY <1>1 DEF Turn, Active
<1>4. MarkInv'
  BY <1>2 DEF MarkInv, Idle
<1> QED
  BY <1>2, <1>3, <1>4 DEF SerialInv, Turn

LEMMA TurnQuery ==
    ASSUME TypeOK, SerialInv, QueryInv, NEW p \in Procs, Turn(p), p \in Sound'
    PROVE  QueryInv'
<1> SUFFICES ASSUME NEW q \in Procs \ {p} PROVE q \in Sound'
  BY DEF QueryInv
<1>1. pc[q] \in Quiet /\ pc'[q] = pc[q] /\ call'[q] = call[q] /\ floor'[q] = floor[q]
      /\ got'[q] = got[q]
  BY TurnAlone DEF Turn
<1>2. q \notin Active'
  BY <1>1 DEF Active
<1>3. q \in Sound
  BY DEF QueryInv
<1> QED
  BY <1>1, <1>2, <1>3 DEF Sound, Quiet

\* Neither the map nor the ChangeSet, nor the query itself, is altered.
LEMMA Steady ==
    ASSUME TypeOK, FreshInv, NEW p \in Procs, p \in Active, Turn(p),
           UNCHANGED items, UNCHANGED changes, UNCHANGED call, UNCHANGED floor,
           pc'[p] \notin {"wait", "expiredAgain"}, p \in Sound'
    PROVE  FreshInv'
<1>1. SerialInv' /\ MarkInv' /\ QueryInv'
  BY TurnSerial, TurnQuery DEF FreshInv
<1>2. UNCHANGED acked /\ UNCHANGED db /\ UNCHANGED mutation
  BY DEF Turn, writeVars
<1>3. VersionInv'
  BY <1>2 DEF FreshInv, VersionInv
<1>4. Mutating' = Mutating /\ Pending' = Pending
  BY <1>2 DEF Mutating, Pending, Idle
<1>5. EntryInv'
  BY <1>2, <1>4 DEF FreshInv, EntryInv, Turn
<1> QED
  BY <1>1, <1>3, <1>5 DEF FreshInv

LEMMA Resolved ==
    ASSUME TypeOK, NEW p \in Procs
    PROVE  /\ call[p].key \in Keys /\ call[p].ttl \in Int
           /\ got[p] \in Nat \cup {NoVer} /\ floor[p] \in Nat
           /\ acked[call[p].key] \in Nat /\ db[call[p].key] \in Nat
BY DEF TypeOK, ProcTypeOK, WriteTypeOK, CallType

\* What a query reads from the database is what the application knows, or newer.
LEMMA CommittedIsFresh ==
    ASSUME TypeOK, VersionInv, NEW p \in Procs
    PROVE  db[call[p].key] >= floor[p]
BY Resolved DEF VersionInv

\* Nobody else holds the lock of the key.
LEMMA LockIsFree ==
    ASSUME TypeOK, RoundInv, SerialInv, NEW p \in Procs, pc[p] = "lock"
    PROVE  waits[call[p].key] = NoChan
<1> SUFFICES ASSUME waits[call[p].key] # NoChan PROVE FALSE
  OBVIOUS
<1>1. PICK w \in Holders : chan[w] = waits[call[p].key]
  BY Resolved DEF RoundInv
<1>2. w \in Active /\ p \in Active /\ w # p
  BY <1>1 DEF Holders, Active, Quiet
<1> QED
  BY <1>2 DEF SerialInv

LEMMA SteadyFresh ==
    ASSUME Serialized, TypeOK, RoundInv, FreshInv, NEW p \in Procs,
           \/ Direct(p) \/ CheckChanged(p) \/ Lock(p) \/ Wake(p) \/ CancelWait(p) \/ Load(p)
           \/ CloseDiscard(p) \/ CloseAddError(p) \/ NotifyWaiters(p) \/ ReleaseLock(p)
    PROVE  FreshInv'
<1>k. p \in Sound /\ SerialInv /\ VersionInv
  BY DEF FreshInv, QueryInv
<1>t. /\ pc \in [Procs -> Stages] /\ got \in [Procs -> Nat \cup {NoVer}]
  BY DEF TypeOK, ProcTypeOK
<1>d. db[call[p].key] >= floor[p]
  BY <1>k, CommittedIsFresh
<1>1. CASE Direct(p)
  <2>1. p \in Active /\ Turn(p)
    BY <1>1, <1>t DEF Direct, Goto, Active, Quiet, Turn, cacheVars
  <2>2. p \in Sound'
    BY <1>1, <1>t, <1>k, <1>d DEF Direct, Goto, Sound, Active, Quiet, writeVars
  <2>3. pc'[p] \in {"done", "idle"}
    BY <1>1, <1>t DEF Direct, Goto
  <2> QED
    BY <1>1, <2>1, <2>2, <2>3, Steady DEF Direct, cacheVars
<1>2. CASE CheckChanged(p)
  <2>1. p \in Active /\ Turn(p)
    BY <1>2, <1>t DEF CheckChanged, Goto, Active, Quiet, Turn, cacheVars
  <2>2. p \in Sound'
    <3>1. call[p].ttl = KeyAge /\ call[p].ref
      BY <1>2, <1>k DEF CheckChanged, Sound, Active, Quiet
    <3>2. changes[call[p].key] \in SUBSET Nat
      BY Resolved DEF TypeOK, CSTypeOK, Maybe
    <3>3. now \in Nat
      BY DEF TypeOK
    <3>4. CASE Changed(call[p].key, now - call[p].ttl)
      BY <1>2, <3>1, <3>4, <1>t, <1>k DEF CheckChanged, Goto, Sound, Active, Quiet
    <3>5. CASE ~Changed(call[p].key, now - call[p].ttl)
      <4>1. ~\E t \in changes[call[p].key] : t + KeyAge > now
        BY <3>1, <3>2, <3>3, <3>5, KeyAgeType DEF Changed
      <4>2. got[p] >= floor[p]
        BY <1>2, <1>k, <4>1 DEF CheckChanged, Sound
      <4> QED
        BY <1>2, <3>1, <3>5, <4>2, <1>t, <1>k DEF CheckChanged, Goto, Sound, Active, Quiet
    <3> QED
      BY <3>4, <3>5
  <2>3. pc'[p] \in {"done", "evictStale"}
    BY <1>2, <1>t DEF CheckChanged, Goto
  <2> QED
    BY <1>2, <2>1, <2>2, <2>3, Steady DEF CheckChanged, cacheVars
<1>3. CASE Lock(p)
  <2>1. p \in Active /\ Turn(p)
    BY <1>3, <1>t DEF Lock, Goto, Active, Quiet, Turn, cacheVars
  <2>2. pc'[p] = "load"
    BY <1>3, <1>t, <1>k, LockIsFree DEF Lock, Goto
  <2>3. p \in Sound'
    BY <1>3, <2>2, <1>t, <1>k DEF Lock, Sound, Active, Quiet
  <2> QED
    BY <1>3, <2>1, <2>2, <2>3, Steady DEF Lock, cacheVars
<1>4. CASE Wake(p) \/ CancelWait(p)
  BY <1>4, <1>k DEF Wake, CancelWait, SerialInv
<1>5. CASE Load(p)
  <2>1. p \in Active /\ Turn(p)
    BY <1>5, <1>t DEF Load, Goto, Active, Quiet, Turn, cacheVars
  <2>2. p \in Sound'
    BY <1>5, <1>t, <1>k DEF Load, Goto, Sound, Active, Quiet, writeVars, cacheVars
  <2>3. pc'[p] \in {"rows", "release"}
    BY <1>5, <1>t DEF Load, Goto
  <2> QED
    BY <1>5, <2>1, <2>2, <2>3, Steady DEF Load, cacheVars
<1>6. CASE CloseDiscard(p) \/ CloseAddError(p)
  <2>1. p \in Active /\ Turn(p)
    BY <1>6, <1>t DEF CloseDiscard, CloseAddError, Goto, Active, Quiet, Turn, cacheVars
  <2>2. p \in Sound'
    BY <1>6, <1>t, <1>k DEF CloseDiscard, CloseAddError, AfterAdd, Goto, Sound, Active,
                            Quiet, writeVars, cacheVars
  <2>3. pc'[p] \in {"clear", "release"}
    BY <1>6, <1>t DEF CloseDiscard, CloseAddError, AfterAdd, Goto
  <2> QED
    BY <1>6, <2>1, <2>2, <2>3, Steady DEF CloseDiscard, CloseAddError, cacheVars
<1>7. CASE NotifyWaiters(p)
  <2>1. p \in Active /\ Turn(p)
    BY <1>7, <1>t DEF NotifyWaiters, Goto, Active, Quiet, Turn
  <2>2. p \in Sound'
    BY <1>7, <1>t, <1>k DEF NotifyWaiters, AfterAdd, Goto, Sound, Active, Quiet, writeVars
  <2>3. pc'[p] \in {"clear", "release"}
    BY <1>7, <1>t DEF NotifyWaiters, AfterAdd, Goto
  <2> QED
    BY <1>7, <2>1, <2>2, <2>3, Steady DEF NotifyWaiters
<1>8. CASE ReleaseLock(p)
  <2>1. p \in Active /\ Turn(p)
    BY <1>8, <1>t DEF ReleaseLock, Goto, Active, Quiet, Turn
  <2>2. p \in Sound'
    BY <1>8, <1>t, <1>k, <1>d DEF ReleaseLock, Goto, Sound, Active, Quiet, writeVars
  <2>3. pc'[p] \in {"idle", "done"}
    BY <1>8, <1>t DEF ReleaseLock, Goto
  <2> QED
    BY <1>8, <2>1, <2>2, <2>3, Steady DEF ReleaseLock
<1> QED
  BY <1>1, <1>2, <1>3, <1>4, <1>5, <1>6, <1>7, <1>8

\* An entry is deleted.
LEMMA DelFresh ==
    ASSUME Serialized, TypeOK, FreshInv, NEW p \in Procs,
           RemoveExpired(p) \/ EvictStale(p)
    PROVE  FreshInv'
<1> DEFINE k == call[p].key
<1>k. p \in Sound /\ SerialInv /\ VersionInv /\ EntryInv
  BY DEF FreshInv, QueryInv
<1>t. /\ pc \in [Procs -> Stages] /\ items \in [Keys -> Maybe(Entry)] /\ k \in Keys
  BY Resolved DEF TypeOK, ProcTypeOK, LCTypeOK
<1>1. p \in Active /\ Turn(p)
  BY <1>t DEF RemoveExpired, EvictStale, Goto, Active, Quiet, Turn
<1>2. pc[p] # "expiredAgain"
  BY <1>k DEF SerialInv
<1>3. pc'[p] \in {"lock", "clearStale"}
  BY <1>2, <1>t DEF RemoveExpired, EvictStale, Goto
<1>4. items' = [items EXCEPT ![k] = {}]
  BY DEF RemoveExpired, EvictStale, Del
<1>5. p \in Sound'
  BY <1>2, <1>3, <1>4, <1>t, <1>k
  DEF RemoveExpired, EvictStale, Sound, Active, Quiet
<1>6. SerialInv' /\ MarkInv' /\ QueryInv'
  BY <1>1, <1>3, <1>5, TurnSerial, TurnQuery DEF FreshInv
<1>7. UNCHANGED acked /\ UNCHANGED db /\ UNCHANGED mutation /\ UNCHANGED now
      /\ UNCHANGED changes /\ UNCHANGED call /\ UNCHANGED floor
  BY <1>1 DEF Turn, writeVars, RemoveExpired, EvictStale
<1>8. VersionInv'
  BY <1>7, <1>k DEF VersionInv
<1>9. Mutating' = Mutating /\ Pending' = Pending
  BY <1>7 DEF Mutating, Pending, Idle
<1>10. \A j \in Keys : items'[j] \subseteq items[j]
  BY <1>4, <1>t
<1>11. EntryInv'
  BY <1>1, <1>7, <1>9, <1>10, <1>k DEF EntryInv, Turn
<1> QED
  BY <1>6, <1>8, <1>11 DEF FreshInv

\* A mark is cleared once the entry it spoke of is gone or replaced.
LEMMA ClearFresh ==
    ASSUME Serialized, TypeOK, FreshInv, NEW p \in Procs,
           ClearStale(p) \/ ClearMark(p)
    PROVE  FreshInv'
<1> DEFINE k == call[p].key
<1>k. p \in Sound /\ SerialInv /\ VersionInv /\ EntryInv
  BY DEF FreshInv, QueryInv
<1>t. /\ pc \in [Procs -> Stages] /\ changes \in [Keys -> Maybe(Nat)] /\ k \in Keys
  BY Resolved DEF TypeOK, ProcTypeOK, CSTypeOK
<1>1. p \in Active /\ Turn(p)
  BY <1>t DEF ClearStale, ClearMark, Goto, Active, Quiet, Turn, cacheVars
<1>3. pc'[p] \in {"lock", "release"}
  BY <1>t DEF ClearStale, ClearMark, Goto
<1>5. p \in Sound'
  BY <1>3, <1>t, <1>k
  DEF ClearStale, ClearMark, Goto, Sound, Active, Quiet, cacheVars, writeVars
<1>6. SerialInv' /\ MarkInv' /\ QueryInv'
  BY <1>1, <1>3, <1>5, TurnSerial, TurnQuery DEF FreshInv
<1>7. UNCHANGED acked /\ UNCHANGED db /\ UNCHANGED mutation /\ UNCHANGED now
      /\ UNCHANGED items /\ UNCHANGED call /\ UNCHANGED floor
  BY <1>1 DEF Turn, writeVars, ClearStale, ClearMark, cacheVars
<1>8. VersionInv'
  BY <1>7, <1>k DEF VersionInv
<1>9. Mutating' = Mutating /\ Pending' = Pending
  BY <1>7 DEF Mutating, Pending, Idle
<1>10. \A j \in Keys \ {k} : changes'[j] = changes[j]
  BY <1>t DEF ClearStale, ClearMark, Clear
<1>11. \A e \in items[k] : ~(e.ver < acked[k]) /\ k \notin Mutating
  <2>1. \A e \in items[k] : e.ver = db[k]
    BY <1>k DEF ClearStale, ClearMark, Sound
  <2>2. acked[k] <= db[k]
    BY <1>k, <1>t DEF VersionInv
  <2>3. k \notin Mutating
    BY <1>1, <1>k, TurnAlone DEF Mutating
  <2> QED
    BY <2>1, <2>2, <2>3, Resolved
<1>12. EntryInv'
  BY <1>1, <1>7, <1>9, <1>10, <1>11, <1>k DEF EntryInv, Turn
<1> QED
  BY <1>6, <1>8, <1>12 DEF FreshInv

\* The entry just loaded is stored.
LEMMA AddFresh ==
    ASSUME Serialized, TypeOK, FreshInv, NEW p \in Procs, CloseAdd(p)
    PROVE  FreshInv'
<1> DEFINE k == call[p].key
<1>k. p \in Sound /\ SerialInv /\ VersionInv /\ EntryInv
  BY DEF FreshInv, QueryInv
<1>b. backend \in {"lru", "context"} /\ ~NoCache(p)
  BY <1>k DEF SerialInv, NoCache
<1>t. /\ pc \in [Procs -> Stages] /\ items \in [Keys -> Maybe(Entry)] /\ k \in Keys
  BY Resolved DEF TypeOK, ProcTypeOK, LCTypeOK
<1>1. p \in Active /\ Turn(p)
  BY <1>t, <1>b DEF CloseAdd, Goto, Active, Quiet, Turn
<1>2. pc'[p] \in {"notify", "clear", "release"}
  BY <1>t, <1>b DEF CloseAdd, Goto, AfterAdd
<1>3. /\ pc[p] = "rows"
      /\ \/ backend = "lru" /\ LruAdd(k, got[p], call[p].ttl)
         \/ backend = "context" /\ ContextAdd(k, got[p], call[p].ttl)
  BY <1>b DEF CloseAdd
<1>4. call[p].ttl \in Int /\ 0 < call[p].ttl /\ call[p].ttl <= KeyAge /\ got[p] = db[k]
      /\ items[k] = {}
  BY <1>1, <1>3, <1>k, Resolved DEF Sound
<1>5. \A j \in Keys : j # k => items'[j] \subseteq items[j]
  BY <1>3, <1>t DEF LruAdd, ContextAdd
<1>6. \A e \in items'[k] : /\ backend = "lru" => k \notin Blank
                          /\ e = [ver |-> db[k], exp |-> {now + call[p].ttl}]
  <2>1. CASE backend = "lru" /\ k \in Blank
    BY <1>3, <1>4, <2>1 DEF LruAdd
  <2>2. CASE backend = "lru" /\ k \notin Blank
    BY <1>3, <1>4, <1>t, <2>2 DEF LruAdd
  <2>3. CASE backend = "context"
    BY <1>3, <1>4, <1>t, <2>3 DEF ContextAdd
  <2> QED
    BY <1>b, <2>1, <2>2, <2>3
<1>7. UNCHANGED acked /\ UNCHANGED db /\ UNCHANGED mutation /\ UNCHANGED now
      /\ UNCHANGED changes /\ UNCHANGED call /\ UNCHANGED floor /\ UNCHANGED got
  BY <1>1 DEF Turn, writeVars, CloseAdd
<1>8. p \in Sound'
  BY <1>2, <1>3, <1>4, <1>6, <1>7, <1>1, <1>k DEF Sound, Active
<1>9. SerialInv' /\ MarkInv' /\ QueryInv'
  BY <1>1, <1>2, <1>8, TurnSerial, TurnQuery DEF FreshInv
<1>10. VersionInv'
  BY <1>7, <1>k DEF VersionInv
<1>11. Mutating' = Mutating /\ Pending' = Pending /\ k \notin Mutating
  BY <1>7, <1>1, <1>k, TurnAlone DEF Mutating, Pending, Idle
<1>12. ~(db[k] < acked[k])
  BY <1>k, <1>t, Resolved DEF VersionInv
<1>13. now + call[p].ttl <= now + KeyAge
  BY <1>4, KeyAgeType DEF TypeOK
<1>14. EntryInv'
  <2> SUFFICES ASSUME NEW j \in Keys, NEW e \in items'[j]
               PROVE  /\ backend = "lru" => j \notin Blank
                      /\ e.exp # {}
                      /\ \A x \in e.exp :
                            /\ x <= now + KeyAge
                            /\ e.ver < acked[j] \/ j \in Mutating =>
                                  \/ x < now
                                  \/ \E t \in changes[j] : t + KeyAge > x
                                  \/ j \in Pending
    BY <1>1, <1>7, <1>11 DEF EntryInv, Turn
  <2>1. CASE j = k
    BY <2>1, <1>6, <1>11, <1>12, <1>13
  <2>2. CASE j # k
    BY <2>2, <1>5, <1>k DEF EntryInv
  <2> QED
    BY <2>1, <2>2
<1> QED
  BY <1>9, <1>10, <1>14 DEF FreshInv

\* A query begins: what holds whether or not it consults the cache.
LEMMA IssueFresh ==
    ASSUME Serialized, TypeOK, FreshInv, NEW p \in Procs, NEW k \in Keys, NEW o \in Options,
           Issue(p, k, o), \A j \in Keys : items'[j] \subseteq items[j],
           NEW s \in Stages \ {"wait", "expiredAgain"}, Goto(p, s),
           NEW v \in Nat \cup {NoVer}, got' = [got EXCEPT ![p] = v],
           p \in Sound'
    PROVE  FreshInv'
<1>t. /\ pc \in [Procs -> Stages] /\ got \in [Procs -> Nat \cup {NoVer}]
      /\ call \in [Procs -> CallType] /\ floor \in [Procs -> Nat] /\ acked \in [Keys -> Nat]
  BY DEF TypeOK, ProcTypeOK, WriteTypeOK
<1>1. Turn(p)
  BY <1>t DEF Issue, Goto, Turn, Serialized
<1>2. SerialInv' /\ MarkInv' /\ QueryInv'
  BY <1>1, <1>t, TurnSerial, TurnQuery DEF FreshInv, Goto
<1>3. UNCHANGED acked /\ UNCHANGED db /\ UNCHANGED mutation /\ UNCHANGED now
      /\ UNCHANGED changes
  BY DEF Issue, writeVars
<1>4. VersionInv'
  <2>1. call'[p].key = k /\ floor'[p] <= acked[k]
    BY <1>t DEF Issue
  <2>2. \A q \in Procs \ {p} : call'[q] = call[q] /\ floor'[q] = floor[q]
    BY <1>1 DEF Turn
  <2> QED
    BY <1>3, <2>1, <2>2 DEF FreshInv, VersionInv
<1>5. Mutating' = Mutating /\ Pending' = Pending
  BY <1>3 DEF Mutating, Pending, Idle
<1>6. EntryInv'
  BY <1>1, <1>3, <1>5 DEF FreshInv, EntryInv, Turn
<1> QED
  BY <1>2, <1>4, <1>6 DEF FreshInv

LEMMA IssueCall ==
    ASSUME Serialized, TypeOK, NEW p \in Procs, NEW k \in Keys, NEW o \in Options,
           Issue(p, k, o)
    PROVE  /\ call'[p].key = k /\ call'[p].ref = o.ref
           /\ 0 < call'[p].ttl /\ call'[p].ttl <= KeyAge
           /\ call'[p].ref => call'[p].ttl = KeyAge
           /\ floor'[p] = IF o.ref THEN acked[k] ELSE 0
           /\ o.ref \in BOOLEAN
<1>1. call \in [Procs -> CallType] /\ floor \in [Procs -> Nat]
  BY DEF TypeOK, ProcTypeOK
<1>2. o.ref \in BOOLEAN
  BY DriverAssumption DEF OptionType
<1> QED
  BY <1>1, <1>2 DEF Issue, Serialized

LEMMA QuerySkipFresh ==
    ASSUME Serialized, TypeOK, FreshInv, NEW p \in Procs, NEW k \in Keys, NEW o \in Options,
           QuerySkip(p, k, o)
    PROVE  FreshInv'
<1>t. /\ pc \in [Procs -> Stages] /\ got \in [Procs -> Nat \cup {NoVer}]
      /\ items \in [Keys -> Maybe(Entry)]
  BY DEF TypeOK, ProcTypeOK, LCTypeOK
<1>1. Issue(p, k, o) /\ Goto(p, "direct") /\ got' = [got EXCEPT ![p] = NoVer]
  BY DEF QuerySkip
<1>2. \A j \in Keys : items'[j] \subseteq items[j]
  BY <1>t DEF QuerySkip, Del
<1>3. pc'[p] = "direct" /\ got'[p] = NoVer
  BY <1>1, <1>t DEF Goto
<1>4. p \in Sound'
  BY <1>1, <1>3, IssueCall DEF Sound
<1> QED
  BY <1>1, <1>2, <1>4, IssueFresh DEF Stages

LEMMA QueryGetFresh ==
    ASSUME Serialized, TypeOK, FreshInv, NEW p \in Procs, NEW k \in Keys, NEW o \in Options,
           QueryGet(p, k, o)
    PROVE  FreshInv'
<1>t. /\ pc \in [Procs -> Stages] /\ got \in [Procs -> Nat \cup {NoVer}]
      /\ acked \in [Keys -> Nat] /\ now \in Nat
  BY DEF TypeOK, ProcTypeOK, LCTypeOK, WriteTypeOK
<1>k. SerialInv /\ EntryInv
  BY DEF FreshInv
<1>0. Reachable(p, k) = IF backend = "lru" /\ k \in Blank THEN {} ELSE items[k]
  BY <1>k DEF SerialInv, Reachable, NoCache, Lookup, LruGet, ContextGet
<1>1. Issue(p, k, o) /\ UNCHANGED items /\ UNCHANGED changes /\ UNCHANGED now
  BY DEF QueryGet, Issue
<1>2. CASE Reachable(p, k) = {} /\ Goto(p, "lock") /\ got' = [got EXCEPT ![p] = NoVer]
  <2>1. pc'[p] = "lock" /\ got'[p] = NoVer
    BY <1>2, <1>t DEF Goto
  <2>2. items[k] = {}
    BY <1>0, <1>2, <1>k DEF EntryInv
  <2>3. p \in Sound'
    BY <1>1, <2>1, <2>2, IssueCall DEF Sound
  <2> QED
    BY <1>1, <1>2, <2>3, IssueFresh DEF Stages
<1>3. ASSUME NEW e \in Reachable(p, k), Expired(e), Goto(p, "expired"),
             got' = [got EXCEPT ![p] = NoVer]
      PROVE  FreshInv'
  <2>1. pc'[p] = "expired" /\ got'[p] = NoVer
    BY <1>3, <1>t DEF Goto
  <2>3. p \in Sound'
    BY <1>1, <2>1, IssueCall DEF Sound
  <2> QED
    BY <1>1, <1>3, <2>3, IssueFresh DEF Stages
<1>4. ASSUME NEW e \in Reachable(p, k), ~Expired(e), Goto(p, AfterHit(o)),
             got' = [got EXCEPT ![p] = e.ver]
      PROVE  FreshInv'
  <2>0. e \in items[k]
    BY <1>0
  <2>1. AfterHit(o) = IF o.ref THEN "check" ELSE "done"
    BY DEF AfterHit, Serialized
  <2>2. pc'[p] = AfterHit(o) /\ got'[p] = e.ver /\ e.ver \in Nat /\ e.exp \in SUBSET Int
    BY <1>4, <1>t, <2>0, ItemType DEF Goto
  <2>3. ASSUME o.ref, e.ver < acked[k]
        PROVE  \E t \in changes[k] : t + KeyAge > now
    <3>1. PICK x \in e.exp : ~(now > x)
      BY <1>4, <1>k, <2>0 DEF EntryInv, Expired
    <3>2. k \notin Pending
      BY <1>1 DEF Issue, Serialized, AllQuiet, Pending
    <3>3. x \in Int /\ ~(x < now)
      BY <1>t, <2>2, <3>1
    <3>4. PICK t \in changes[k] : t + KeyAge > x
      BY <1>k, <2>0, <2>3, <3>1, <3>2, <3>3 DEF EntryInv
    <3>5. t \in Nat
      BY DEF TypeOK, CSTypeOK, Maybe
    <3> QED
      BY <1>t, <3>3, <3>4, <3>5, KeyAgeType
  <2>4. p \in Sound'
    <3>1. CASE o.ref
      <4>1. e.ver >= acked[k] \/ \E t \in changes[k] : t + KeyAge > now
        BY <1>t, <2>2, <2>3, <3>1
      <4> QED
        BY <1>1, <2>1, <2>2, <3>1, <4>1, IssueCall DEF Sound
    <3>2. CASE ~o.ref
      BY <1>1, <2>1, <2>2, <3>2, IssueCall DEF Sound, Active, Quiet
    <3> QED
      BY <3>1, <3>2
  <2> QED
    BY <1>1, <1>4, <2>1, <2>2, <2>4, IssueFresh DEF Stages, Quiet
<1> QED
  BY <1>2, <1>3, <1>4 DEF QueryGet

(***************************************************************************)
(* A mutation moves while every query rests.                               *)
(***************************************************************************)
LEMMA PausedQuery ==
    ASSUME QueryInv, Active = {}, UNCHANGED procVars
    PROVE  QueryInv' /\ Active' = {}
<1>1. UNCHANGED pc /\ UNCHANGED call /\ UNCHANGED got /\ UNCHANGED floor
  BY DEF procVars
<1>2. Active' = {}
  BY <1>1 DEF Active
<1>3. \A p \in Procs : p \in Sound /\ pc[p] \in Quiet
  BY DEF QueryInv, Active
<1>4. \A p \in Procs : p \in Sound'
  BY <1>1, <1>2, <1>3 DEF Sound, Quiet
<1> QED
  BY <1>2, <1>4 DEF QueryInv

\* A mutation starts only when no query and no mutation is under way.
LEMMA StartsAlone ==
    ASSUME Serialized, NEW w \in Writers, RoundTrip(w)
    PROVE  Idle = Writers /\ Active = {}
BY DEF RoundTrip, Serialized, AllQuiet, Idle, Active

\* The step of a mutation under way is the only thing that happens.
LEMMA MutatesAlone ==
    ASSUME Serialized, SerialInv, NEW w \in Writers, w \notin Idle
    PROVE  Active = {} /\ \A v \in Writers \ {w} : v \in Idle
BY DEF SerialInv

LEMMA CommitGrows ==
    ASSUME TypeOK, NEW v \in [Keys -> Nat], \A k \in Keys : v[k] = 0 \/ v[k] = db[k] + 1,
           Commit(v)
    PROVE  \A k \in Keys : db'[k] >= db[k] /\ db'[k] >= v[k] /\ db'[k] \in Nat
<1>1. db \in [Keys -> Nat]
  BY DEF TypeOK, WriteTypeOK
<1> QED
  BY <1>1 DEF Commit

LEMMA NewVersionsAre ==
    ASSUME TypeOK, NEW ks \in SUBSET Keys
    PROVE  /\ NewVersions(ks) \in [Keys -> Nat]
           /\ \A k \in Keys : NewVersions(ks)[k] = IF k \in ks THEN db[k] + 1 ELSE 0
BY DEF TypeOK, WriteTypeOK, NewVersions

LEMMA MutateFresh ==
    ASSUME Serialized, TypeOK, FreshInv, NEW w \in Writers, NEW kind \in Kinds,
           NEW ks \in KeySets(kind), NEW marks \in Extracted(kind, ks),
           Mutate(w, kind, ks, marks)
    PROVE  FreshInv'
<1> DEFINE v == IF kind = "tx" THEN [k \in Keys |-> 0] ELSE NewVersions(ks)
           m == [step |-> "stamp", kind |-> kind, keys |-> ks, marks |-> marks,
                 stamp |-> 0, vers |-> v]
<1>0. marks = ks /\ ks # {} /\ ks \in SUBSET Keys
  <2>1. Extracted(kind, ks) = {ks}
    BY DEF Extracted, Serialized
  <2>2. ks # {} /\ ks \in SUBSET Keys
    <3>1. CASE kind = "bulk"
      BY <3>1 DEF KeySets
    <3>2. CASE kind # "bulk"
      BY <3>2 DEF KeySets
    <3> QED
      BY <3>1, <3>2
  <2> QED
    BY <2>1, <2>2
<1>1. Idle = Writers /\ Active = {}
  BY StartsAlone DEF Mutate
<1>2. /\ Commit(v) /\ mutation' = [mutation EXCEPT ![w] = m]
      /\ now' = now + 1
      /\ UNCHANGED changes /\ UNCHANGED items /\ UNCHANGED backend
      /\ UNCHANGED procVars /\ UNCHANGED acked
  BY DEF Mutate, RoundTrip, Tick, cacheVars
<1>3. v \in [Keys -> Nat] /\ \A k \in Keys : v[k] = 0 \/ (v[k] = db[k] + 1 /\ k \in ks)
  BY <1>0, NewVersionsAre
<1>4. \A k \in Keys : db'[k] >= db[k] /\ db'[k] >= v[k] /\ db'[k] \in Nat
  BY <1>2, <1>3, CommitGrows
<1>t. /\ mutation \in [Writers -> MutationType] /\ now \in Nat
      /\ db \in [Keys -> Nat] /\ acked \in [Keys -> Nat]
      /\ \A u \in Writers : mutation[u].vers \in [Keys -> Nat]
  BY DEF TypeOK, WriteTypeOK, MutationType
<1> HIDE DEF v
<1>5. mutation'[w] = m /\ \A u \in Writers \ {w} : mutation'[u] = mutation[u]
  BY <1>2, <1>t
<1>6. Writers \ Idle' = {w}
  BY <1>1, <1>5 DEF Idle
<1>7. QueryInv' /\ Active' = {}
  BY <1>1, <1>2, PausedQuery DEF FreshInv
<1>8. UNCHANGED pc /\ UNCHANGED call /\ UNCHANGED floor
  BY <1>2 DEF procVars
<1>9. SerialInv'
  BY <1>0, <1>2, <1>5, <1>6, <1>7, <1>8 DEF FreshInv, SerialInv
<1>10. VersionInv'
  <2>1. \A k \in Keys : acked'[k] <= db'[k]
    BY <1>2, <1>4, <1>t DEF FreshInv, VersionInv
  <2>2. \A k \in Keys : /\ mutation'[w].vers[k] <= db'[k]
                        /\ k \notin mutation'[w].keys => mutation'[w].vers[k] = 0
    BY <1>3, <1>4, <1>5, <1>t
  <2>3. ASSUME NEW u \in Writers \ {w}, NEW k \in Keys
        PROVE  /\ mutation'[u].vers[k] <= db'[k]
               /\ k \notin mutation'[u].keys => mutation'[u].vers[k] = 0
    BY <1>4, <1>5, <1>t DEF FreshInv, VersionInv
  <2>4. \A p \in Procs : floor'[p] <= acked'[call'[p].key]
    BY <1>2, <1>8 DEF FreshInv, VersionInv
  <2> QED
    BY <2>1, <2>2, <2>3, <2>4 DEF VersionInv
<1>11. ks \subseteq Pending' /\ Mutating' = ks
  BY <1>0, <1>5, <1>6 DEF Pending, Mutating
<1>12. Pending = {} /\ Mutating = {}
  BY <1>1 DEF Pending, Mutating, Idle
<1>13. \A k \in Keys : \A e \in items[k] : e.exp \in SUBSET Int
  BY ItemType
<1>14. EntryInv'
  <2> SUFFICES ASSUME NEW k \in Keys, NEW e \in items[k], NEW x \in e.exp
               PROVE  /\ x <= now' + KeyAge
                      /\ e.ver < acked[k] \/ k \in Mutating' =>
                            \/ x < now'
                            \/ \E t \in changes[k] : t + KeyAge > x
                            \/ k \in Pending'
    BY <1>2 DEF FreshInv, EntryInv
  <2>1. x \in Int
    BY <1>13
  <2>2. x <= now + KeyAge
    BY DEF FreshInv, EntryInv
  <2>3. x <= now' + KeyAge
    BY <1>2, <1>t, <2>1, <2>2, KeyAgeType
  <2>4. e.ver < acked[k] => x < now \/ \E t \in changes[k] : t + KeyAge > x
    BY <1>12 DEF FreshInv, EntryInv
  <2>5. x < now => x < now'
    BY <1>2, <1>t, <2>1
  <2> QED
    BY <1>11, <2>3, <2>4, <2>5
<1>15. MarkInv'
  <2> SUFFICES ASSUME NEW k \in ks, NEW e \in items[k], NEW x \in e.exp
               PROVE  x < now' + KeyAge
    BY <1>1, <1>2, <1>5 DEF MarkInv, Idle
  <2>1. x \in Int /\ x <= now + KeyAge
    BY <1>0, <1>13 DEF FreshInv, EntryInv
  <2> QED
    BY <1>2, <1>t, <2>1, KeyAgeType
<1> QED
  BY <1>7, <1>9, <1>10, <1>14, <1>15 DEF FreshInv

\* What was before a moment is before every later one.
LEMMA LaterBounds ==
    ASSUME NEW a \in Nat, NEW b \in Nat, b >= a, NEW r \in Int, NEW x \in Int
    PROVE  /\ x < a => x < b
           /\ x <= a + r => x <= b + r
           /\ x < a + r => x < b + r
OBVIOUS

\* The clock moves and the database may, nothing else.
LEMMA LaterFresh ==
    ASSUME TypeOK, FreshInv, now' \in Nat, now' >= now,
           \A k \in Keys : db'[k] >= db[k] /\ db'[k] \in Nat,
           UNCHANGED changes, UNCHANGED items, UNCHANGED backend, UNCHANGED procVars,
           UNCHANGED mutation, UNCHANGED acked, QueryInv'
    PROVE  FreshInv'
<1>t. /\ now \in Nat /\ db \in [Keys -> Nat] /\ acked \in [Keys -> Nat]
      /\ \A u \in Writers : mutation[u].vers \in [Keys -> Nat]
      /\ \A u \in Writers : mutation[u].keys \in SUBSET Keys
  BY DEF TypeOK, WriteTypeOK, MutationType
<1>1. UNCHANGED pc /\ UNCHANGED call /\ UNCHANGED floor
  BY DEF procVars
<1>2. Idle' = Idle /\ Active' = Active
  BY <1>1 DEF Idle, Active
<1>3. Mutating' = Mutating /\ Pending' = Pending
  BY <1>2 DEF Mutating, Pending
<1>4. SerialInv'
  BY <1>1, <1>2 DEF FreshInv, SerialInv
<1>5. VersionInv'
  BY <1>1, <1>t DEF FreshInv, VersionInv
<1>6. \A k \in Keys : \A e \in items[k] : e.exp \in SUBSET Int
  BY ItemType
<1>7. EntryInv'
  <2> SUFFICES ASSUME NEW k \in Keys, NEW e \in items[k], NEW x \in e.exp
               PROVE  /\ x <= now' + KeyAge
                      /\ e.ver < acked[k] \/ k \in Mutating =>
                            \/ x < now'
                            \/ \E t \in changes[k] : t + KeyAge > x
                            \/ k \in Pending
    BY <1>3 DEF FreshInv, EntryInv
  <2>1. x \in Int /\ x <= now + KeyAge
    BY <1>6 DEF FreshInv, EntryInv
  <2>2. x <= now' + KeyAge /\ (x < now => x < now')
    BY <1>t, <2>1, KeyAgeType, LaterBounds
  <2>3. e.ver < acked[k] \/ k \in Mutating =>
           x < now \/ (\E t \in changes[k] : t + KeyAge > x) \/ k \in Pending
    BY DEF FreshInv, EntryInv
  <2> QED
    BY <2>2, <2>3
<1>8. MarkInv'
  <2> SUFFICES ASSUME NEW w \in Writers, NEW k \in mutation[w].keys, NEW e \in items[k],
                      NEW x \in e.exp
               PROVE  x < now + KeyAge => x < now' + KeyAge
    BY DEF FreshInv, MarkInv
  <2>1. x \in Int
    BY <1>6, <1>t
  <2> QED
    BY <1>t, <2>1, KeyAgeType, LaterBounds
<1> QED
  BY <1>4, <1>5, <1>7, <1>8 DEF FreshInv

LEMMA MutateFailsFresh ==
    ASSUME Serialized, TypeOK, FreshInv, NEW w \in Writers, NEW kind \in Kinds,
           NEW ks \in KeySets(kind), MutateFails(w, kind, ks)
    PROVE  FreshInv'
<1>0. ks \in SUBSET Keys
  BY DEF KeySets
<1>1. Active = {}
  BY StartsAlone DEF MutateFails
<1>2. /\ now' = now + 1 /\ UNCHANGED procVars /\ UNCHANGED items /\ UNCHANGED backend
      /\ UNCHANGED changes /\ UNCHANGED mutation /\ UNCHANGED acked
      /\ UNCHANGED db \/ Commit(NewVersions(ks))
  BY DEF MutateFails, RoundTrip, Tick, cacheVars
<1>3. \A k \in Keys : db'[k] >= db[k] /\ db'[k] \in Nat
  <2>1. db \in [Keys -> Nat]
    BY DEF TypeOK, WriteTypeOK
  <2>2. CASE UNCHANGED db
    BY <2>1, <2>2
  <2>3. CASE Commit(NewVersions(ks))
    BY <1>0, <2>3, NewVersionsAre, CommitGrows
  <2> QED
    BY <1>2, <2>2, <2>3
<1>4. QueryInv'
  BY <1>1, <1>2, PausedQuery DEF FreshInv
<1>5. now \in Nat
  BY DEF TypeOK
<1> QED
  BY <1>2, <1>3, <1>4, <1>5, LaterFresh

LEMMA StampFresh ==
    ASSUME Serialized, TypeOK, FreshInv, NEW w \in Writers, StampMark(w)
    PROVE  FreshInv'
<1>t. /\ mutation \in [Writers -> MutationType] /\ now \in Nat
  BY DEF TypeOK, WriteTypeOK
<1>0. mutation[w] \in MutationType /\ mutation[w].step = "stamp" /\ w \notin Idle
  BY <1>t DEF StampMark, Idle
<1>1. Active = {} /\ \A v \in Writers \ {w} : v \in Idle
  BY <1>0, MutatesAlone DEF FreshInv
<1>2. /\ UNCHANGED now /\ UNCHANGED procVars /\ UNCHANGED items /\ UNCHANGED backend
      /\ UNCHANGED changes /\ UNCHANGED db /\ UNCHANGED acked
  BY DEF StampMark, cacheVars
<1>3. /\ mutation'[w].step = "apply" /\ mutation'[w].stamp = now
      /\ mutation'[w].keys = mutation[w].keys /\ mutation'[w].marks = mutation[w].marks
      /\ mutation'[w].vers = mutation[w].vers
      /\ \A u \in Writers \ {w} : mutation'[u] = mutation[u]
  BY <1>t, <1>0 DEF StampMark, MutationType
<1>4. QueryInv' /\ Active' = {}
  BY <1>1, <1>2, PausedQuery DEF FreshInv
<1>5. UNCHANGED pc /\ UNCHANGED call /\ UNCHANGED floor
  BY <1>2 DEF procVars
<1>6. Idle' = Idle
  BY <1>0, <1>3 DEF Idle
<1>7. Mutating' = Mutating /\ Pending' = Pending
  BY <1>0, <1>3, <1>6 DEF Mutating, Pending
<1>8. SerialInv'
  BY <1>2, <1>3, <1>4, <1>5, <1>6 DEF FreshInv, SerialInv
<1>9. VersionInv'
  BY <1>2, <1>3, <1>5 DEF FreshInv, VersionInv
<1>10. EntryInv'
  BY <1>2, <1>7 DEF FreshInv, EntryInv
<1>11. MarkInv'
  BY <1>0, <1>1, <1>2, <1>3 DEF FreshInv, MarkInv, Idle
<1> QED
  BY <1>4, <1>8, <1>9, <1>10, <1>11 DEF FreshInv

\* The hook returns: what its mutation outdated is marked by now.
LEMMA ApplyFresh ==
    ASSUME Serialized, TypeOK, FreshInv, NEW w \in Writers, ApplyMark(w)
    PROVE  FreshInv'
<1> DEFINE ks == mutation[w].keys
<1>t. /\ mutation \in [Writers -> MutationType] /\ now \in Nat
      /\ changes \in [Keys -> Maybe(Nat)] /\ acked \in [Keys -> Nat]
      /\ db \in [Keys -> Nat]
  BY DEF TypeOK, WriteTypeOK, CSTypeOK
<1>0. mutation[w] \in MutationType /\ mutation[w].step = "apply" /\ w \notin Idle
  BY <1>t DEF ApplyMark, Idle
<1>m. mutation[w].vers \in [Keys -> Nat] /\ ks \in SUBSET Keys
  BY <1>0 DEF MutationType
<1>1. Active = {} /\ \A v \in Writers \ {w} : v \in Idle
  BY <1>0, MutatesAlone DEF FreshInv
<1>2. /\ UNCHANGED now /\ UNCHANGED procVars /\ UNCHANGED items /\ UNCHANGED backend
      /\ UNCHANGED db
  BY DEF ApplyMark, Return, cacheVars
<1>3. \/ mutation'[w] = Rest
      \/ /\ mutation'[w].step = "commit" /\ mutation'[w].keys = ks
         /\ mutation'[w].marks = mutation[w].marks /\ mutation'[w].vers = mutation[w].vers
  BY <1>t, <1>0 DEF ApplyMark, Return, MutationType
<1>4. \A u \in Writers \ {w} : mutation'[u] = mutation[u]
  BY <1>t DEF ApplyMark, Return
<1>5. QueryInv' /\ Active' = {}
  BY <1>1, <1>2, PausedQuery DEF FreshInv
<1>6. UNCHANGED pc /\ UNCHANGED call /\ UNCHANGED floor
  BY <1>2 DEF procVars
<1>7. Writers \ Idle' \subseteq {w} /\ mutation[w].marks = ks /\ ks # {}
  BY <1>0, <1>1, <1>4 DEF Idle, FreshInv, SerialInv
<1>8. SerialInv'
  <2>1. w \notin Idle' => mutation'[w].marks = ks /\ mutation'[w].keys = ks
    BY <1>3, <1>7 DEF Idle, Rest
  <2> QED
    BY <1>2, <1>5, <1>6, <1>7, <2>1 DEF FreshInv, SerialInv
<1>9. \A k \in Keys : /\ acked'[k] \in {acked[k], mutation[w].vers[k]}
                      /\ acked'[k] >= acked[k]
                      /\ k \notin ks => acked'[k] = acked[k]
  <2>1. acked' = [k \in Keys |-> IF mutation[w].vers[k] > acked[k]
                                 THEN mutation[w].vers[k] ELSE acked[k]]
    BY DEF ApplyMark, Return, Acknowledge
  <2>2. \A k \in Keys \ ks : mutation[w].vers[k] = 0
    BY DEF FreshInv, VersionInv
  <2> QED
    BY <1>t, <1>m, <2>1, <2>2
<1>10. VersionInv'
  <2>1. \A k \in Keys : acked'[k] <= db'[k]
    BY <1>2, <1>9 DEF FreshInv, VersionInv
  <2>2. ASSUME NEW k \in Keys
        PROVE  /\ mutation'[w].vers[k] <= db'[k]
               /\ k \notin mutation'[w].keys => mutation'[w].vers[k] = 0
    BY <1>2, <1>3, <1>t DEF FreshInv, VersionInv, Rest
  <2>3. ASSUME NEW p \in Procs
        PROVE  floor[p] <= acked'[call[p].key]
    <3>1. call[p].key \in Keys /\ floor[p] \in Nat
      BY Resolved
    <3>2. floor[p] <= acked[call[p].key]
      BY DEF FreshInv, VersionInv
    <3>3. acked'[call[p].key] \in Nat
      BY <3>1, <1>9, <1>t, <1>m
    <3> QED
      BY <1>9, <1>t, <3>1, <3>2, <3>3
  <2> QED
    BY <1>2, <1>4, <1>6, <2>1, <2>2, <2>3 DEF FreshInv, VersionInv
<1>11. \A k \in Keys : /\ k \in ks => changes'[k] = {mutation[w].stamp}
                       /\ k \notin ks => changes'[k] = changes[k]
  BY <1>7 DEF ApplyMark, Mark
<1>12. /\ Mutating' \subseteq ks
       /\ Pending \subseteq ks
  BY <1>0, <1>1, <1>3, <1>4, <1>7 DEF Mutating, Pending, Idle, Rest
<1>13. EntryInv'
  <2> SUFFICES ASSUME NEW k \in Keys, NEW e \in items[k], NEW x \in e.exp
               PROVE  /\ x <= now + KeyAge
                      /\ e.ver < acked'[k] \/ k \in Mutating' =>
                            \/ x < now
                            \/ \E t \in changes'[k] : t + KeyAge > x
                            \/ k \in Pending'
    BY <1>2 DEF FreshInv, EntryInv
  <2>1. x <= now + KeyAge
    BY DEF FreshInv, EntryInv
  <2>2. CASE k \in ks
    <3>1. x < mutation[w].stamp + KeyAge
      BY <1>0, <2>2 DEF FreshInv, MarkInv
    <3>2. mutation[w].stamp \in Nat /\ x \in Int
      BY <1>0, ItemType DEF MutationType
    <3> QED
      BY <1>11, <2>1, <2>2, <3>1, <3>2, KeyAgeType
  <2>3. CASE k \notin ks
    BY <1>9, <1>11, <1>12, <2>1, <2>3 DEF FreshInv, EntryInv
  <2> QED
    BY <2>2, <2>3
<1>14. MarkInv'
  BY <1>1, <1>3, <1>4 DEF MarkInv, Idle, Rest
<1> QED
  BY <1>5, <1>8, <1>10, <1>13, <1>14 DEF FreshInv

LEMMA CommitFresh ==
    ASSUME Serialized, TypeOK, FreshInv, NEW w \in Writers, CommitTx(w)
    PROVE  FreshInv'
<1> DEFINE ks == mutation[w].keys
           v == NewVersions(ks)
<1>t. /\ mutation \in [Writers -> MutationType] /\ now \in Nat
      /\ acked \in [Keys -> Nat] /\ db \in [Keys -> Nat]
      /\ \A u \in Writers : mutation[u].vers \in [Keys -> Nat]
  BY DEF TypeOK, WriteTypeOK, MutationType
<1>0. ks \in SUBSET Keys /\ mutation[w].step = "commit" /\ w \notin Idle
  BY <1>t DEF CommitTx, Idle, MutationType
<1>1. Active = {} /\ \A u \in Writers \ {w} : u \in Idle
  BY <1>0, MutatesAlone DEF FreshInv
<1>2. /\ UNCHANGED now /\ UNCHANGED procVars /\ UNCHANGED items /\ UNCHANGED backend
      /\ UNCHANGED changes
  BY DEF CommitTx, cacheVars
<1>3. mutation'[w] = Rest /\ \A u \in Writers \ {w} : mutation'[u] = mutation[u]
  BY <1>t DEF CommitTx
<1>4. v \in [Keys -> Nat] /\ \A k \in Keys : v[k] = IF k \in ks THEN db[k] + 1 ELSE 0
  BY <1>0, NewVersionsAre
<1>v. \/ Commit(v) /\ Acknowledge(v)
      \/ UNCHANGED db /\ UNCHANGED acked
  BY DEF CommitTx
<1> HIDE DEF v
<1>5. \A k \in Keys : /\ db'[k] >= db[k] /\ db'[k] \in Nat
                      /\ acked'[k] >= acked[k] /\ acked'[k] \in Nat
                      /\ acked'[k] <= db'[k]
                      /\ k \notin ks => acked'[k] = acked[k]
  <2>1. \A k \in Keys : acked[k] <= db[k]
    BY DEF FreshInv, VersionInv
  <2>2. CASE Commit(v) /\ Acknowledge(v)
    BY <1>t, <1>4, <2>1, <2>2 DEF Commit, Acknowledge
  <2>3. CASE UNCHANGED db /\ UNCHANGED acked
    BY <1>t, <2>1, <2>3
  <2> QED
    BY <1>v, <2>2, <2>3
<1>6. QueryInv' /\ Active' = {}
  BY <1>1, <1>2, PausedQuery DEF FreshInv
<1>7. UNCHANGED pc /\ UNCHANGED call /\ UNCHANGED floor
  BY <1>2 DEF procVars
<1>8. Idle' = Writers /\ Mutating' = {}
  BY <1>1, <1>3 DEF Idle, Mutating, Rest
<1>9. SerialInv'
  BY <1>2, <1>6, <1>7, <1>8 DEF FreshInv, SerialInv
<1>10. VersionInv'
  <2>2. ASSUME NEW u \in Writers, NEW k \in Keys
        PROVE  /\ mutation'[u].vers[k] <= db'[k]
               /\ k \notin mutation'[u].keys => mutation'[u].vers[k] = 0
    <3>1. CASE u = w
      BY <1>3, <1>5, <3>1 DEF Rest
    <3>2. CASE u # w
      BY <1>3, <1>5, <1>t, <3>2 DEF FreshInv, VersionInv
    <3> QED
      BY <3>1, <3>2
  <2>3. ASSUME NEW p \in Procs
        PROVE  floor[p] <= acked'[call[p].key]
    BY <1>5, <1>t, Resolved DEF FreshInv, VersionInv
  <2> QED
    BY <1>5, <1>7, <2>2, <2>3 DEF VersionInv
<1>11. Pending = {} /\ (\A k \in ks : k \in Mutating)
  BY <1>0, <1>1 DEF Pending, Mutating, Idle
<1>12. EntryInv'
  <2> SUFFICES ASSUME NEW k \in Keys, NEW e \in items[k], NEW x \in e.exp
               PROVE  /\ x <= now + KeyAge
                      /\ e.ver < acked'[k] => x < now \/ \E t \in changes[k] : t + KeyAge > x
    BY <1>2, <1>8 DEF FreshInv, EntryInv
  <2>1. x <= now + KeyAge
    BY DEF FreshInv, EntryInv
  <2>2. e.ver < acked[k] \/ k \in Mutating =>
           x < now \/ \E t \in changes[k] : t + KeyAge > x
    BY <1>11 DEF FreshInv, EntryInv
  <2> QED
    BY <1>5, <1>11, <2>1, <2>2
<1>13. MarkInv'
  BY <1>8 DEF MarkInv, Idle
<1> QED
  BY <1>6, <1>9, <1>10, <1>12, <1>13 DEF FreshInv

LEMMA MutatorFresh ==
    ASSUME Serialized, TypeOK, FreshInv, NEW w \in Writers, Mutator(w)
    PROVE  FreshInv'
<1>1. CASE ReturnUnmarked(w)
  <2>1. w \notin Idle
    BY <1>1 DEF ReturnUnmarked, Idle
  <2> QED
    BY <1>1, <2>1 DEF ReturnUnmarked, FreshInv, SerialInv
<1> QED
  BY <1>1, MutateFresh, MutateFailsFresh, StampFresh, ApplyFresh, CommitFresh DEF Mutator

(***************************************************************************)
(* Time passes.                                                            *)
(***************************************************************************)
LEMMA PassFresh ==
    ASSUME Serialized, TypeOK, FreshInv, Pass
    PROVE  FreshInv'
<1>1. /\ now' = now + 1 /\ UNCHANGED procVars /\ UNCHANGED items /\ UNCHANGED backend
      /\ UNCHANGED changes /\ UNCHANGED mutation /\ UNCHANGED acked /\ UNCHANGED db
      /\ \A p \in Procs : pc[p] # "check"
  BY DEF Pass, Tick, cacheVars, writeVars, Serialized
<1>2. UNCHANGED pc /\ UNCHANGED call /\ UNCHANGED floor /\ UNCHANGED got
  BY <1>1 DEF procVars
<1>3. Active' = Active
  BY <1>2 DEF Active
<1>4. QueryInv'
  BY <1>1, <1>2, <1>3 DEF FreshInv, QueryInv, Sound
<1>5. now \in Nat /\ db \in [Keys -> Nat]
  BY DEF TypeOK, WriteTypeOK
<1> QED
  BY <1>1, <1>4, <1>5, LaterFresh

\* The ChangeSet forgets a mark only when no entry can outlive it.
LEMMA CollectFresh ==
    ASSUME Serialized, TypeOK, FreshInv, Collect
    PROVE  FreshInv'
<1>1. /\ UNCHANGED now /\ UNCHANGED procVars /\ UNCHANGED items /\ UNCHANGED backend
      /\ UNCHANGED mutation /\ UNCHANGED acked /\ UNCHANGED db
      /\ changes' = [k \in Keys |-> {t \in changes[k] : ~(t < now - GCInterval)}]
  BY DEF Collect, gc, cacheVars, writeVars
<1>2. UNCHANGED pc /\ UNCHANGED call /\ UNCHANGED floor /\ UNCHANGED got
  BY <1>1 DEF procVars
<1>3. Active' = Active /\ Idle' = Idle
  BY <1>1, <1>2 DEF Active, Idle
<1>4. Mutating' = Mutating /\ Pending' = Pending
  BY <1>1, <1>3 DEF Mutating, Pending
<1>t. /\ now \in Nat /\ KeyAge \in Int /\ GCInterval \in Int /\ KeyAge <= GCInterval
      /\ changes \in [Keys -> Maybe(Nat)]
  BY KeyAgeType, GCType DEF TypeOK, CSTypeOK, Serialized
<1>5. ASSUME NEW k \in Keys, NEW x \in Int, NEW t \in changes[k], t + KeyAge > x, ~(x < now)
      PROVE  t \in changes'[k]
  <2>1. t \in Nat
    BY <1>t, MaybeElement
  <2>2. ~(t < now - GCInterval)
    BY <1>5, <1>t, <2>1
  <2> QED
    BY <1>1, <2>2
<1>6. QueryInv'
  <2> SUFFICES ASSUME NEW p \in Procs PROVE p \in Sound'
    BY DEF QueryInv
  <2>1. p \in Sound /\ call[p].key \in Keys
    BY Resolved DEF FreshInv, QueryInv
  <2>2. (\E t \in changes[call[p].key] : t + KeyAge > now) =>
           \E t \in changes'[call[p].key] : t + KeyAge > now
    BY <1>t, <1>5, <2>1
  <2> QED
    BY <1>1, <1>2, <1>3, <2>1, <2>2 DEF Sound
<1>7. EntryInv'
  <2> SUFFICES ASSUME NEW k \in Keys, NEW e \in items[k], NEW x \in e.exp
               PROVE  /\ x <= now + KeyAge
                      /\ e.ver < acked[k] \/ k \in Mutating =>
                            \/ x < now
                            \/ \E t \in changes'[k] : t + KeyAge > x
                            \/ k \in Pending
    BY <1>1, <1>4 DEF FreshInv, EntryInv
  <2>1. x \in Int
    BY ItemType
  <2>2. /\ x <= now + KeyAge
        /\ e.ver < acked[k] \/ k \in Mutating =>
              x < now \/ (\E t \in changes[k] : t + KeyAge > x) \/ k \in Pending
    BY DEF FreshInv, EntryInv
  <2> QED
    BY <1>5, <2>1, <2>2
<1>8. SerialInv' /\ VersionInv' /\ MarkInv'
  BY <1>1, <1>2, <1>3 DEF FreshInv, SerialInv, VersionInv, MarkInv
<1> QED
  BY <1>6, <1>7, <1>8 DEF FreshInv

LEMMA StutterFresh == ASSUME FreshInv, UNCHANGED vars PROVE FreshInv'
<1>1. /\ UNCHANGED now /\ UNCHANGED items /\ UNCHANGED backend /\ UNCHANGED mutation
      /\ UNCHANGED acked /\ UNCHANGED db /\ UNCHANGED changes
      /\ UNCHANGED pc /\ UNCHANGED call /\ UNCHANGED floor /\ UNCHANGED got
  BY DEF vars, cacheVars, procVars, writeVars
<1>2. Active' = Active /\ Idle' = Idle
  BY <1>1 DEF Active, Idle
<1>3. Mutating' = Mutating /\ Pending' = Pending
  BY <1>1, <1>2 DEF Mutating, Pending
<1>4. SerialInv' /\ VersionInv' /\ MarkInv' /\ EntryInv'
  BY <1>1, <1>2, <1>3 DEF FreshInv, SerialInv, VersionInv, MarkInv, EntryInv
<1>5. QueryInv'
  BY <1>1, <1>2 DEF FreshInv, QueryInv, Sound
<1> QED
  BY <1>4, <1>5 DEF FreshInv

LEMMA StepFresh ==
    ASSUME Serialized
    PROVE  TypeOK /\ RoundInv /\ FreshInv /\ [Next]_vars => FreshInv'
<1> SUFFICES ASSUME TypeOK, RoundInv, FreshInv, [Next]_vars PROVE FreshInv'
  OBVIOUS
<1>1. ASSUME NEW p \in Procs, Query(p) PROVE FreshInv'
  BY <1>1, QueryGetFresh, QuerySkipFresh DEF Query
<1>2. ASSUME NEW p \in Procs, Advance(p) \/ CancelWait(p) PROVE FreshInv'
  BY <1>2, SteadyFresh, DelFresh, ClearFresh, AddFresh DEF Advance
<1>3. ASSUME NEW w \in Writers, Mutator(w) PROVE FreshInv'
  BY <1>3, MutatorFresh
<1>4. CASE Pass \/ Collect \/ UNCHANGED vars
  BY <1>4, PassFresh, CollectFresh, StutterFresh
<1> QED
  BY <1>1, <1>2, <1>3, <1>4 DEF Next, Rested

\* Where operations do not overlap and marks outlive entries, a key-addressed
\* query returns no version older than a mutation the application knows of.
THEOREM ReadsAreFresh == ASSUME Serialized PROVE Spec => []FreshAfterMutation
<1>1. Init => FreshInv
  BY InitFresh
<1>2. TypeOK /\ RoundInv /\ FreshInv /\ [Next]_vars => FreshInv'
  BY StepFresh
<1>3. FreshInv => FreshAfterMutation
  BY FreshImplies DEF FreshInv
<1> QED
  BY <1>1, <1>2, <1>3, TypeCorrect, RoundsAreOwned, PTL DEF Spec
=============================================================================
