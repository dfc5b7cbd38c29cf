---------------------------- MODULE DriverProofs ----------------------------
(***************************************************************************)
(* Theorems about the driver and its stampede lock, for any number of      *)
(* keys, goroutines and mutations, any backend and any bound.              *)
(***************************************************************************)
EXTENDS Driver, TLAPS

LEMMA NoCallType == NoCall \in CallType
BY DriverAssumption DEF NoCall, CallType

LEMMA RestType == Rest \in MutationType
BY DEF Rest, MutationType, Steps

\* Options resolve to a TTL.
LEMMA TTLType == \A o \in Options : EffectiveTTL(o) \in Int
BY DriverAssumption DEF EffectiveTTL, OptionType

LEMMA GCType == GCInterval \in Int
BY ChangeSetAssumption DEF GCInterval

(***************************************************************************)
(* Values that may be absent.                                              *)
(***************************************************************************)
LEMMA MaybeEmpty == \A S : {} \in Maybe(S)
BY DEF Maybe

LEMMA MaybeOne == \A S : \A x \in S : {x} \in Maybe(S)
BY DEF Maybe

LEMMA MaybeElement == \A S : \A s \in Maybe(S) : \A x \in s : x \in S
BY DEF Maybe

LEMMA MaybeSubset == \A S : \A s \in Maybe(S) : \A r \in SUBSET s : r \in Maybe(S)
BY DEF Maybe

(***************************************************************************)
(* The operations of the caches.                                           *)
(***************************************************************************)
\* Whatever entry Get returns is one the map holds.
LEMMA LookupItems ==
    ASSUME LCTypeOK, NEW k \in Keys
    PROVE  Lookup(k) \in {{}, items[k]}
BY LocalCacheAssumption DEF LCTypeOK, Lookup, LruGet, ContextGet, MemoryGet

\* A version read from the cache is a version of the database.
LEMMA LookupVersion ==
    ASSUME LCTypeOK, NEW k \in Keys, NEW e \in Lookup(k)
    PROVE  e.ver \in Nat
<1>1. e \in items[k]
  BY LookupItems
<1>2. e \in Entry
  BY <1>1, MaybeElement DEF LCTypeOK
<1> QED
  BY <1>2 DEF Entry

LEMMA ReachableVersion ==
    ASSUME LCTypeOK, NEW p \in Procs, NEW k \in Keys, NEW e \in Reachable(p, k)
    PROVE  e.ver \in Nat
BY LookupVersion DEF Reachable

\* Deleting an entry, and each backend's Add, leave a well-formed map.
LEMMA DelType ==
    ASSUME LCTypeOK, NEW k \in Keys, Del(k)
    PROVE  items' \in [Keys -> Maybe(Entry)]
BY MaybeEmpty DEF LCTypeOK, Del

LEMMA EntryType ==
    ASSUME NEW v \in Nat, NEW x \in Int
    PROVE  /\ {[ver |-> v, exp |-> {x}]} \in Maybe(Entry)
           /\ {[ver |-> v, exp |-> {}]} \in Maybe(Entry)
<1>1. {x} \in Maybe(Int) /\ {} \in Maybe(Int)
  BY MaybeOne, MaybeEmpty
<1>2. [ver |-> v, exp |-> {x}] \in Entry /\ [ver |-> v, exp |-> {}] \in Entry
  BY <1>1 DEF Entry
<1> QED
  BY <1>2, MaybeOne

LEMMA LruAddType ==
    ASSUME LCTypeOK, now \in Nat, NEW k \in Keys, NEW v \in Nat, NEW ttl \in Int,
           LruAdd(k, v, ttl)
    PROVE  items' \in [Keys -> Maybe(Entry)]
<1> DEFINE x == IF ttl = 0 THEN {} ELSE {now + ttl}
<1>1. {[ver |-> v, exp |-> x]} \in Maybe(Entry)
  <2>1. now + ttl \in Int
    OBVIOUS
  <2>2. CASE ttl = 0
    BY <2>2, EntryType
  <2>3. CASE ttl # 0
    BY <2>1, <2>3, EntryType
  <2> QED
    BY <2>2, <2>3
<1>2. CASE k \in Blank
  BY <1>2 DEF LruAdd, LCTypeOK
<1>3. CASE k \notin Blank
  <2>1. PICK kept : items' = [j \in Keys |->
              IF j = k THEN {[ver |-> v, exp |-> x]}
              ELSE IF j \in kept THEN items[j] ELSE {}]
    BY <1>3 DEF LruAdd
  <2> HIDE DEF x
  <2> QED
    BY <2>1, <1>1, MaybeEmpty DEF LCTypeOK
<1> QED
  BY <1>2, <1>3

LEMMA ContextAddType ==
    ASSUME LCTypeOK, now \in Nat, NEW k \in Keys, NEW v \in Nat, NEW ttl \in Int,
           ContextAdd(k, v, ttl)
    PROVE  items' \in [Keys -> Maybe(Entry)]
<1> DEFINE x == IF ttl > 0 THEN {now + ttl} ELSE {}
<1>1. {[ver |-> v, exp |-> x]} \in Maybe(Entry)
  <2>1. now + ttl \in Int
    OBVIOUS
  <2>2. CASE ttl > 0
    BY <2>1, <2>2, EntryType
  <2>3. CASE ~(ttl > 0)
    BY <2>3, EntryType
  <2> QED
    BY <2>2, <2>3
<1>2. items' = [items EXCEPT ![k] = IF ttl < 0 THEN {} ELSE {[ver |-> v, exp |-> x]}]
  BY DEF ContextAdd
<1> HIDE DEF x
<1> QED
  BY <1>1, <1>2, MaybeEmpty DEF LCTypeOK

LEMMA MemoryAddType ==
    ASSUME LCTypeOK, NEW k \in Keys, NEW v \in Nat, MemoryAdd(k, v)
    PROVE  items' \in [Keys -> Maybe(Entry)]
<1>1. {[ver |-> v, exp |-> {}]} \in Maybe(Entry)
  BY EntryType, 0 \in Int
<1> QED
  BY <1>1 DEF LCTypeOK, MemoryAdd

\* Closing channels keeps the channel variables in their types.
LEMMA NotifyType ==
    ASSUME LCTypeOK, NEW k \in Keys, Notify(k)
    PROVE  /\ waits' \in [Keys -> Nat] /\ issued' \in Nat
           /\ closed' \subseteq Nat /\ panicked' \in BOOLEAN
<1>1. CASE waits[k] # NoChan
  <2>1. waits' \in [Keys -> Nat] /\ issued' \in Nat
    BY <1>1 DEF LCTypeOK, Notify, NoChan
  <2>2. Close(waits[k])
    BY <1>1 DEF Notify, NoChan
  <2>3. closed' \subseteq Nat
    BY <2>2 DEF LCTypeOK, Close
  <2>4. panicked' \in BOOLEAN
    BY <2>2, Zenon DEF LCTypeOK, Close
  <2> QED
    BY <2>1, <2>3, <2>4
<1>2. CASE ~(waits[k] # NoChan)
  BY <1>2 DEF LCTypeOK, Notify, lockVars
<1> QED
  BY <1>1, <1>2

LEMMA ReleaseType ==
    ASSUME LCTypeOK, NEW k \in Keys, NEW c \in Nat, Release(k, c)
    PROVE  /\ waits' \in [Keys -> Nat] /\ issued' \in Nat
           /\ closed' \subseteq Nat /\ panicked' \in BOOLEAN
<1>1. CASE c # NoChan /\ waits[k] = c
  <2>1. waits' \in [Keys -> Nat] /\ issued' \in Nat
    BY <1>1 DEF LCTypeOK, Release, NoChan
  <2>2. Close(waits[k])
    BY <1>1 DEF Release, NoChan
  <2>3. closed' \subseteq Nat
    BY <2>2 DEF LCTypeOK, Close
  <2>4. panicked' \in BOOLEAN
    BY <2>2, Zenon DEF LCTypeOK, Close
  <2> QED
    BY <2>1, <2>3, <2>4
<1>2. CASE ~(c # NoChan /\ waits[k] = c)
  BY <1>2 DEF LCTypeOK, Release, lockVars
<1> QED
  BY <1>1, <1>2

LEMMA RegisterType ==
    ASSUME LCTypeOK, NEW k \in Keys, Register(k)
    PROVE  /\ waits' \in [Keys -> Nat] /\ issued' \in Nat
           /\ closed' \subseteq Nat /\ panicked' \in BOOLEAN
BY DEF LCTypeOK, Register

LEMMA ClearType ==
    ASSUME CSTypeOK, NEW k \in Keys, Clear(k)
    PROVE  CSTypeOK'
BY MaybeEmpty DEF CSTypeOK, Clear

LEMMA MarkType ==
    ASSUME CSTypeOK, NEW ks, NEW t \in Nat, Mark(ks, t)
    PROVE  CSTypeOK'
BY MaybeOne DEF CSTypeOK, Mark

LEMMA GCKeepsType == ASSUME CSTypeOK, gc PROVE CSTypeOK'
<1>1. \A k \in Keys : {t \in changes[k] : ~(t < now - GCInterval)} \in SUBSET changes[k]
  OBVIOUS
<1>2. \A k \in Keys : {t \in changes[k] : ~(t < now - GCInterval)} \in Maybe(Nat)
  BY <1>1, MaybeSubset DEF CSTypeOK
<1> QED
  BY <1>2 DEF CSTypeOK, gc

(***************************************************************************)
(* The type invariant.                                                     *)
(***************************************************************************)
LEMMA CSFrame == ASSUME CSTypeOK, UNCHANGED changes PROVE CSTypeOK'
BY DEF CSTypeOK

LEMMA LCFrame == ASSUME LCTypeOK, UNCHANGED cacheVars PROVE LCTypeOK'
BY DEF LCTypeOK, cacheVars

LEMMA LCItemsFrame ==
    ASSUME LCTypeOK, UNCHANGED <<backend, lockVars>>, items' \in [Keys -> Maybe(Entry)]
    PROVE  LCTypeOK'
BY DEF LCTypeOK, lockVars

LEMMA ProcFrame == ASSUME ProcTypeOK, UNCHANGED procVars PROVE ProcTypeOK'
BY DEF ProcTypeOK, procVars

LEMMA WriteFrame == ASSUME WriteTypeOK, UNCHANGED writeVars PROVE WriteTypeOK'
BY DEF WriteTypeOK, writeVars

LEMMA InitType == Init => TypeOK
<1> SUFFICES ASSUME Init PROVE TypeOK
  OBVIOUS
<1>1. now \in Nat /\ CSTypeOK
  BY MaybeEmpty DEF Init, ClockInit, CSInit, CSTypeOK
<1>2. LCTypeOK
  BY MaybeEmpty DEF Init, LCInit, LCTypeOK, NoChan
<1>3. ProcTypeOK
  BY NoCallType DEF Init, ProcTypeOK, NoChan, NoVer, Stages, Quiet
<1>4. WriteTypeOK
  BY RestType DEF Init, WriteTypeOK
<1> QED
  BY <1>1, <1>2, <1>3, <1>4 DEF TypeOK

\* The steps of a query keep the types.
LEMMA QueryGetType ==
    ASSUME TypeOK, NEW p \in Procs, NEW k \in Keys, NEW o \in Options, QueryGet(p, k, o)
    PROVE  TypeOK'
<1>1. call' \in [Procs -> CallType]
  BY TTLType, DriverAssumption DEF QueryGet, Issue, TypeOK, ProcTypeOK, WriteTypeOK, CallType, OptionType
<1>2. got' \in [Procs -> Nat \cup {NoVer}]
  BY ReachableVersion DEF QueryGet, TypeOK, ProcTypeOK
<1>3. /\ pc' \in [Procs -> Stages]
      /\ \A r \in Procs : pc'[r] \in {"check", "rows", "done"} => got'[r] \in Nat
  BY ReachableVersion DEF QueryGet, TypeOK, ProcTypeOK, Goto, Stages, AfterHit, Quiet
<1>4. queries' \in Nat /\ floor' \in [Procs -> Nat] /\ chan' \in [Procs -> Nat]
  BY DEF QueryGet, Issue, TypeOK, ProcTypeOK, WriteTypeOK
<1>5. UNCHANGED now /\ UNCHANGED changes /\ UNCHANGED cacheVars /\ UNCHANGED writeVars
  BY DEF QueryGet, Issue, lockVars, cacheVars, writeVars
<1>6. ProcTypeOK'
  BY <1>1, <1>2, <1>3, <1>4 DEF ProcTypeOK
<1> QED
  BY <1>5, <1>6, CSFrame, LCFrame, WriteFrame DEF TypeOK

LEMMA QuerySkipType ==
    ASSUME TypeOK, NEW p \in Procs, NEW k \in Keys, NEW o \in Options, QuerySkip(p, k, o)
    PROVE  TypeOK'
<1>1. call' \in [Procs -> CallType]
  BY TTLType, DriverAssumption
  DEF QuerySkip, Issue, TypeOK, ProcTypeOK, CallType, OptionType
<1>2. /\ got' \in [Procs -> Nat \cup {NoVer}]
      /\ pc' \in [Procs -> Stages]
      /\ \A r \in Procs : pc'[r] \in {"check", "rows", "done"} => got'[r] \in Nat
      /\ queries' \in Nat /\ floor' \in [Procs -> Nat] /\ chan' \in [Procs -> Nat]
  BY DEF QuerySkip, Issue, TypeOK, ProcTypeOK, WriteTypeOK, Goto, Stages, Quiet
<1>3. items' \in [Keys -> Maybe(Entry)]
  BY DelType DEF QuerySkip, TypeOK, LCTypeOK
<1>4. /\ UNCHANGED now /\ UNCHANGED changes /\ UNCHANGED writeVars
      /\ UNCHANGED <<backend, lockVars>>
  BY DEF QuerySkip, Issue, lockVars
<1>5. ProcTypeOK'
  BY <1>1, <1>2 DEF ProcTypeOK
<1> QED
  BY <1>3, <1>4, <1>5, CSFrame, LCItemsFrame, WriteFrame DEF TypeOK

\* A step that only moves the query: no shared state changes.
LEMMA ProcStepType ==
    ASSUME TypeOK, ProcTypeOK', UNCHANGED <<now, changes, cacheVars, writeVars>>
    PROVE  TypeOK'
BY CSFrame, LCFrame, WriteFrame DEF TypeOK

LEMMA AdvanceType ==
    ASSUME TypeOK, NEW p \in Procs, Advance(p) \/ CancelWait(p)
    PROVE  TypeOK'
<1> USE DEF TypeOK, ProcTypeOK, Goto, Stages, Quiet
<1>k. call[p].key \in Keys /\ call[p].ttl \in Int
  BY DEF CallType
<1>a. AfterAdd(p) \in {"clear", "release"}
  BY DEF AfterAdd
<1>1. CASE Direct(p)
  <2>1. ProcTypeOK'
    BY <1>1, <1>a, <1>k DEF Direct, WriteTypeOK, NoChan
  <2>2. UNCHANGED <<now, changes, cacheVars, writeVars>>
    BY <1>1 DEF Direct
  <2> QED
    BY <2>1, <2>2, ProcStepType
<1>2. CASE CheckChanged(p)
  <2>1. ProcTypeOK'
    BY <1>2, <1>a, <1>k DEF CheckChanged, WriteTypeOK, NoChan
  <2>2. UNCHANGED <<now, changes, cacheVars, writeVars>>
    BY <1>2 DEF CheckChanged
  <2> QED
    BY <2>1, <2>2, ProcStepType
<1>3. CASE CancelWait(p)
  <2>1. ProcTypeOK'
    BY <1>3, <1>a, <1>k DEF CancelWait, WriteTypeOK, NoChan
  <2>2. UNCHANGED <<now, changes, cacheVars, writeVars>>
    BY <1>3 DEF CancelWait
  <2> QED
    BY <2>1, <2>2, ProcStepType
<1>4. CASE Load(p)
  <2>1. ProcTypeOK'
    BY <1>4, <1>a, <1>k DEF Load, WriteTypeOK, NoChan
  <2>2. UNCHANGED <<now, changes, cacheVars, writeVars>>
    BY <1>4 DEF Load
  <2> QED
    BY <2>1, <2>2, ProcStepType
<1>5. CASE CloseDiscard(p)
  <2>1. ProcTypeOK'
    BY <1>5, <1>a, <1>k DEF CloseDiscard, WriteTypeOK, NoChan
  <2>2. UNCHANGED <<now, changes, cacheVars, writeVars>>
    BY <1>5 DEF CloseDiscard
  <2> QED
    BY <2>1, <2>2, ProcStepType
<1>6. CASE CloseAddError(p)
  <2>1. ProcTypeOK'
    BY <1>6, <1>a, <1>k DEF CloseAddError, WriteTypeOK, NoChan
  <2>2. UNCHANGED <<now, changes, cacheVars, writeVars>>
    BY <1>6 DEF CloseAddError
  <2> QED
    BY <2>1, <2>2, ProcStepType
<1>7. CASE Wake(p)
  <2>1. \A e \in Lookup(call[p].key) : e.ver \in Nat
    BY <1>k, LookupVersion
  <2>2. ProcTypeOK'
    BY <1>7, <2>1 DEF Wake, NoChan
  <2>3. UNCHANGED <<now, changes, cacheVars, writeVars>>
    BY <1>7 DEF Wake
  <2> QED
    BY <2>2, <2>3, ProcStepType
<1>8. CASE RemoveExpired(p)
  <2>1. items' \in [Keys -> Maybe(Entry)]
    BY <1>8, <1>k, DelType DEF RemoveExpired
  <2>2. ProcTypeOK'
    BY <1>8 DEF RemoveExpired
  <2>3. /\ UNCHANGED now /\ UNCHANGED changes /\ UNCHANGED writeVars
        /\ UNCHANGED <<backend, lockVars>>
    BY <1>8 DEF RemoveExpired
  <2> QED
    BY <2>1, <2>2, <2>3, CSFrame, LCItemsFrame, WriteFrame
<1>9. CASE EvictStale(p)
  <2>1. items' \in [Keys -> Maybe(Entry)]
    BY <1>9, <1>k, DelType DEF EvictStale
  <2>2. ProcTypeOK'
    BY <1>9 DEF EvictStale
  <2>3. /\ UNCHANGED now /\ UNCHANGED changes /\ UNCHANGED writeVars
        /\ UNCHANGED <<backend, lockVars>>
    BY <1>9 DEF EvictStale
  <2> QED
    BY <2>1, <2>2, <2>3, CSFrame, LCItemsFrame, WriteFrame
<1>10. CASE ClearStale(p)
  <2>1. CSTypeOK'
    BY <1>10, <1>k, ClearType DEF ClearStale
  <2>2. ProcTypeOK'
    BY <1>10 DEF ClearStale
  <2>3. UNCHANGED now /\ UNCHANGED cacheVars /\ UNCHANGED writeVars
    BY <1>10 DEF ClearStale
  <2> QED
    BY <2>1, <2>2, <2>3, LCFrame, WriteFrame
<1>11. CASE ClearMark(p)
  <2>1. CSTypeOK'
    BY <1>11, <1>k, ClearType DEF ClearMark
  <2>2. ProcTypeOK'
    BY <1>11 DEF ClearMark
  <2>3. UNCHANGED now /\ UNCHANGED cacheVars /\ UNCHANGED writeVars
    BY <1>11 DEF ClearMark
  <2> QED
    BY <2>1, <2>2, <2>3, LCFrame, WriteFrame
<1>12. CASE Lock(p)
  <2>1. /\ waits' \in [Keys -> Nat] /\ issued' \in Nat
        /\ closed' \subseteq Nat /\ panicked' \in BOOLEAN
    BY <1>12, <1>k, RegisterType DEF Lock, LCTypeOK, lockVars
  <2>2. LCTypeOK'
    BY <1>12, <2>1 DEF Lock, LCTypeOK
  <2>3. ProcTypeOK'
    BY <1>12, <1>a, <1>k DEF Lock, LCTypeOK, NoChan
  <2>4. UNCHANGED now /\ UNCHANGED changes /\ UNCHANGED writeVars
    BY <1>12 DEF Lock
  <2> QED
    BY <2>2, <2>3, <2>4, CSFrame, WriteFrame
<1>13. CASE NotifyWaiters(p)
  <2>1. /\ waits' \in [Keys -> Nat] /\ issued' \in Nat
        /\ closed' \subseteq Nat /\ panicked' \in BOOLEAN
    BY <1>13, <1>k, NotifyType DEF NotifyWaiters, LCTypeOK, lockVars
  <2>2. LCTypeOK'
    BY <1>13, <2>1 DEF NotifyWaiters, LCTypeOK
  <2>3. ProcTypeOK'
    BY <1>13, <1>a, <1>k DEF NotifyWaiters, LCTypeOK, NoChan
  <2>4. UNCHANGED now /\ UNCHANGED changes /\ UNCHANGED writeVars
    BY <1>13 DEF NotifyWaiters
  <2> QED
    BY <2>2, <2>3, <2>4, CSFrame, WriteFrame
<1>14. CASE ReleaseLock(p)
  <2>1. /\ waits' \in [Keys -> Nat] /\ issued' \in Nat
        /\ closed' \subseteq Nat /\ panicked' \in BOOLEAN
    BY <1>14, <1>k, ReleaseType DEF ReleaseLock, LCTypeOK, lockVars
  <2>2. LCTypeOK'
    BY <1>14, <2>1 DEF ReleaseLock, LCTypeOK
  <2>3. ProcTypeOK'
    BY <1>14, <1>a, <1>k DEF ReleaseLock, LCTypeOK, NoChan
  <2>4. UNCHANGED now /\ UNCHANGED changes /\ UNCHANGED writeVars
    BY <1>14 DEF ReleaseLock
  <2> QED
    BY <2>2, <2>3, <2>4, CSFrame, WriteFrame
<1>15. CASE CloseAdd(p)
  <2>1. got[p] \in Nat
    BY <1>15 DEF CloseAdd
  <2>2. items' \in [Keys -> Maybe(Entry)]
    BY <1>15, <1>k, <2>1, LruAddType, ContextAddType, MemoryAddType
    DEF CloseAdd, LCTypeOK
  <2>3. /\ waits' \in [Keys -> Nat] /\ issued' \in Nat
        /\ closed' \subseteq Nat /\ panicked' \in BOOLEAN
    BY <1>15, <1>k, NotifyType DEF CloseAdd, ContextAdd, LCTypeOK, lockVars
  <2>4. LCTypeOK'
    BY <1>15, <2>2, <2>3 DEF CloseAdd, LCTypeOK
  <2>5. ProcTypeOK'
    BY <1>15, <1>a DEF CloseAdd
  <2>6. UNCHANGED now /\ UNCHANGED changes /\ UNCHANGED writeVars
    BY <1>15 DEF CloseAdd
  <2> QED
    BY <2>4, <2>5, <2>6, CSFrame, WriteFrame
<1> QED
  BY <1>1, <1>2, <1>3, <1>4, <1>5, <1>6, <1>7, <1>8, <1>9, <1>10, <1>11, <1>12, <1>13, <1>14, <1>15 DEF Advance

\* So do the steps of a mutation.
LEMMA VersionsType ==
    ASSUME WriteTypeOK, NEW ks \in SUBSET Keys
    PROVE  NewVersions(ks) \in [Keys -> Nat]
BY DEF WriteTypeOK, NewVersions

LEMMA CommitType ==
    ASSUME WriteTypeOK, NEW v \in [Keys -> Nat], Commit(v)
    PROVE  db' \in [Keys -> Nat]
BY DEF WriteTypeOK, Commit

LEMMA AcknowledgeType ==
    ASSUME WriteTypeOK, NEW v \in [Keys -> Nat], Acknowledge(v)
    PROVE  acked' \in [Keys -> Nat]
BY DEF WriteTypeOK, Acknowledge

LEMMA KeySetsType ==
    \A kind \in Kinds : \A ks \in KeySets(kind) : \A marks \in Extracted(kind, ks) :
        ks \in SUBSET Keys /\ marks \in SUBSET Keys
BY DEF KeySets, Extracted

LEMMA MutateType ==
    ASSUME TypeOK, NEW w \in Writers, NEW kind \in Kinds, NEW ks \in KeySets(kind),
           NEW marks \in Extracted(kind, ks), Mutate(w, kind, ks, marks)
    PROVE  TypeOK'
<1> DEFINE v == IF kind = "tx" THEN [k \in Keys |-> 0] ELSE NewVersions(ks)
           m == [step |-> "stamp", kind |-> kind, keys |-> ks, marks |-> marks,
                 stamp |-> 0, vers |-> v]
<1>1. v \in [Keys -> Nat]
  BY KeySetsType, VersionsType DEF TypeOK
<1>2. m \in MutationType
  BY <1>1, KeySetsType, DriverAssumption DEF MutationType, Steps
<1>3. Commit(v) /\ mutation' = [mutation EXCEPT ![w] = m]
  BY DEF Mutate
<1>4. db' \in [Keys -> Nat]
  BY <1>1, <1>3, CommitType DEF TypeOK
<1> HIDE DEF v, m
<1>5. mutation' \in [Writers -> MutationType]
  BY <1>2, <1>3 DEF TypeOK, WriteTypeOK
<1>6. WriteTypeOK' /\ now' \in Nat
  BY <1>4, <1>5 DEF Mutate, RoundTrip, Tick, TypeOK, WriteTypeOK
<1>7. UNCHANGED changes /\ UNCHANGED cacheVars /\ UNCHANGED procVars
  BY DEF Mutate
<1> QED
  BY <1>6, <1>7, CSFrame, LCFrame, ProcFrame DEF TypeOK

LEMMA MutateFailsType ==
    ASSUME TypeOK, NEW w \in Writers, NEW kind \in Kinds, NEW ks \in KeySets(kind),
           MutateFails(w, kind, ks)
    PROVE  TypeOK'
<1>1. NewVersions(ks) \in [Keys -> Nat]
  <2>1. ks \in SUBSET Keys
    BY DEF KeySets
  <2> QED
    BY <2>1, VersionsType DEF TypeOK
<1>2. db' \in [Keys -> Nat]
  BY <1>1, CommitType DEF MutateFails, TypeOK, WriteTypeOK
<1>3. WriteTypeOK' /\ now' \in Nat
  BY <1>2 DEF MutateFails, RoundTrip, Tick, TypeOK, WriteTypeOK
<1>4. UNCHANGED changes /\ UNCHANGED cacheVars /\ UNCHANGED procVars
  BY DEF MutateFails
<1> QED
  BY <1>3, <1>4, CSFrame, LCFrame, ProcFrame DEF TypeOK

LEMMA ReturnType ==
    ASSUME TypeOK, NEW w \in Writers, Return(w), CSTypeOK'
    PROVE  TypeOK'
<1>1. mutation[w] \in MutationType
  BY DEF TypeOK, WriteTypeOK
<1>2. mutation[w].vers \in [Keys -> Nat]
  BY <1>1 DEF MutationType
<1>3. acked' \in [Keys -> Nat]
  BY <1>2, AcknowledgeType DEF Return, TypeOK
<1>4. [mutation[w] EXCEPT !.step = "commit"] \in MutationType
  BY <1>1 DEF MutationType, Steps
<1>5. mutation' \in [Writers -> MutationType]
  BY <1>4, RestType DEF Return, TypeOK, WriteTypeOK
<1>6. WriteTypeOK'
  BY <1>3, <1>5 DEF Return, TypeOK, WriteTypeOK
<1>7. UNCHANGED now /\ UNCHANGED cacheVars /\ UNCHANGED procVars
  BY DEF Return
<1> QED
  BY <1>6, <1>7, LCFrame, ProcFrame DEF TypeOK

LEMMA MutatorType ==
    ASSUME TypeOK, NEW w \in Writers, Mutator(w)
    PROVE  TypeOK'
<1>m. mutation[w] \in MutationType
  BY DEF TypeOK, WriteTypeOK
<1>1. ASSUME NEW kind \in Kinds, NEW ks \in KeySets(kind),
             NEW marks \in Extracted(kind, ks), Mutate(w, kind, ks, marks)
      PROVE  TypeOK'
  BY <1>1, MutateType
<1>6. ASSUME NEW kind \in Kinds, NEW ks \in KeySets(kind), MutateFails(w, kind, ks)
      PROVE  TypeOK'
  BY <1>6, MutateFailsType
<1>2. CASE StampMark(w)
  <2>1. [mutation[w] EXCEPT !.step = "apply", !.stamp = now] \in MutationType
    BY <1>m DEF TypeOK, MutationType, Steps
  <2>2. mutation' \in [Writers -> MutationType]
    BY <1>2, <2>1 DEF StampMark, TypeOK, WriteTypeOK
  <2>3. WriteTypeOK'
    BY <1>2, <2>2 DEF StampMark, TypeOK, WriteTypeOK
  <2>4. UNCHANGED now /\ UNCHANGED changes /\ UNCHANGED cacheVars /\ UNCHANGED procVars
    BY <1>2 DEF StampMark
  <2> QED
    BY <2>3, <2>4, CSFrame, LCFrame, ProcFrame DEF TypeOK
<1>3. CASE ApplyMark(w)
  <2>1. mutation[w].stamp \in Nat
    BY <1>m DEF MutationType
  <2>2. CSTypeOK'
    BY <1>3, <2>1, MarkType DEF ApplyMark, TypeOK
  <2> QED
    BY <1>3, <2>2, ReturnType DEF ApplyMark
<1>4. CASE ReturnUnmarked(w)
  <2>1. CSTypeOK'
    BY <1>4, CSFrame DEF ReturnUnmarked, TypeOK
  <2> QED
    BY <1>4, <2>1, ReturnType DEF ReturnUnmarked
<1>5. CASE CommitTx(w)
  <2>1. NewVersions(mutation[w].keys) \in [Keys -> Nat]
    BY <1>m, VersionsType DEF MutationType, TypeOK
  <2>2. db' \in [Keys -> Nat] /\ acked' \in [Keys -> Nat]
    BY <1>5, <2>1, CommitType, AcknowledgeType DEF CommitTx, TypeOK, WriteTypeOK
  <2>3. WriteTypeOK'
    BY <1>5, <2>2, RestType DEF CommitTx, TypeOK, WriteTypeOK
  <2>4. UNCHANGED now /\ UNCHANGED changes /\ UNCHANGED cacheVars /\ UNCHANGED procVars
    BY <1>5 DEF CommitTx
  <2> QED
    BY <2>3, <2>4, CSFrame, LCFrame, ProcFrame DEF TypeOK
<1> QED
  BY <1>1, <1>2, <1>3, <1>4, <1>5, <1>6 DEF Mutator

LEMMA StepType == TypeOK /\ [Next]_vars => TypeOK'
<1> SUFFICES ASSUME TypeOK, [Next]_vars PROVE TypeOK'
  OBVIOUS
<1>1. ASSUME NEW p \in Procs, Query(p) PROVE TypeOK'
  BY <1>1, QueryGetType, QuerySkipType DEF Query
<1>2. ASSUME NEW p \in Procs, Advance(p) \/ CancelWait(p) PROVE TypeOK'
  BY <1>2, AdvanceType
<1>3. ASSUME NEW w \in Writers, Mutator(w) PROVE TypeOK'
  BY <1>3, MutatorType
<1>4. CASE Pass
  <2>1. now' \in Nat
    BY <1>4 DEF Pass, Tick, TypeOK
  <2>2. UNCHANGED changes /\ UNCHANGED cacheVars /\ UNCHANGED procVars /\ UNCHANGED writeVars
    BY <1>4 DEF Pass
  <2> QED
    BY <2>1, <2>2, CSFrame, LCFrame, ProcFrame, WriteFrame DEF TypeOK
<1>5. CASE Collect
  <2>1. CSTypeOK'
    BY <1>5, GCKeepsType DEF Collect, TypeOK
  <2>2. UNCHANGED now /\ UNCHANGED cacheVars /\ UNCHANGED procVars /\ UNCHANGED writeVars
    BY <1>5 DEF Collect
  <2> QED
    BY <2>1, <2>2, LCFrame, ProcFrame, WriteFrame DEF TypeOK
<1>6. CASE UNCHANGED vars
  <2>1. /\ UNCHANGED now /\ UNCHANGED changes /\ UNCHANGED cacheVars
        /\ UNCHANGED procVars /\ UNCHANGED writeVars
    BY <1>6 DEF vars
  <2> QED
    BY <2>1, CSFrame, LCFrame, ProcFrame, WriteFrame DEF TypeOK
<1> QED
  BY <1>1, <1>2, <1>3, <1>4, <1>5, <1>6 DEF Next, Rested

\* Every behaviour of the driver keeps its variables in their types.
THEOREM TypeCorrect == Spec => []TypeOK
BY InitType, StepType, PTL DEF Spec

(***************************************************************************)
(* The stampede lock: RoundInv is inductive.                               *)
(***************************************************************************)
\* A step that leaves every wait channel with whoever holds it or waits on it.
SameRoles == /\ UNCHANGED chan
             /\ Holders' = Holders
             /\ \A p \in Procs : (pc'[p] = "wait") <=> (pc[p] = "wait")
             /\ \A p \in Procs : chan[p] # NoChan => call'[p] = call[p]

\* What a step does to the rounds of the lock: nothing, ...
Neutral == SameRoles /\ UNCHANGED lockVars

\* ... Add wakes whoever waits for the registered round of k, ...
Notifies(k) == SameRoles /\ Notify(k)

\* ... p wins and registers a channel of its own, ...
Registers(p) == /\ pc[p] = "lock" /\ waits[call[p].key] = NoChan
                /\ Register(call[p].key)
                /\ Goto(p, "load") /\ chan' = [chan EXCEPT ![p] = issued + 1]
                /\ UNCHANGED call

\* ... p joins the registered round, ...
Joins(p) == /\ pc[p] = "lock" /\ waits[call[p].key] # NoChan
            /\ Goto(p, "wait") /\ chan' = [chan EXCEPT ![p] = waits[call[p].key]]
            /\ UNCHANGED lockVars /\ UNCHANGED call

\* ... p gives up its place without closing anything: a waiter that wakes or
\* is cancelled, or a holder whose round is over already, ...
Leaves(p) == /\ \A k \in Keys : waits[k] # NoChan /\ p \in Holders => waits[k] # chan[p]
             /\ \E s \in Stages \ {"wait"} : Goto(p, s)
             /\ chan' = [chan EXCEPT ![p] = NoChan]
             /\ UNCHANGED lockVars /\ UNCHANGED call

\* ... or the holder p, whose round is still open, closes it and leaves.
Ends(p) == /\ p \in Holders /\ waits[call[p].key] = chan[p]
           /\ Close(chan[p]) /\ UNCHANGED issued
           /\ waits' = [waits EXCEPT ![call[p].key] = NoChan]
           /\ \E s \in Quiet : Goto(p, s)
           /\ chan' = [chan EXCEPT ![p] = NoChan]
           /\ UNCHANGED call

RoundStep == \/ Neutral
             \/ \E k \in Keys : Notifies(k)
             \/ \E p \in Procs : Registers(p) \/ Joins(p) \/ Leaves(p) \/ Ends(p)

LEMMA InitRound == Init => RoundInv
BY DEF Init, LCInit, RoundInv, NoChan, Holders

LEMMA HoldersAreProcs == \A w \in Holders : w \in Procs /\ chan[w] # NoChan
BY DEF Holders

LEMMA NeutralRound ==
    ASSUME TypeOK, RoundInv, SameRoles, UNCHANGED lockVars
    PROVE  RoundInv'
<1>1. /\ waits' = waits /\ issued' = issued /\ closed' = closed
      /\ panicked' = panicked /\ chan' = chan /\ Holders' = Holders
  BY DEF SameRoles, lockVars
<1>2. \A w \in Holders : call'[w] = call[w]
  BY HoldersAreProcs DEF SameRoles
<1>3. \A p \in Procs : pc'[p] = "wait" => pc[p] = "wait" /\ call'[p] = call[p]
  BY DEF SameRoles, RoundInv
<1>4. ~panicked' /\ \A c \in closed' : c <= issued'
  BY <1>1 DEF RoundInv
<1>5. \A k \in Keys : waits'[k] # NoChan =>
        /\ waits'[k] \notin closed'
        /\ \E w \in Holders' : chan'[w] = waits'[k] /\ call'[w].key = k
  BY <1>1, <1>2 DEF RoundInv
<1>6. \A p \in Procs : chan'[p] # NoChan =>
        /\ chan'[p] <= issued'
        /\ (pc'[p] = "wait") \/ p \in Holders'
  BY <1>1 DEF RoundInv, SameRoles
<1>7. \A p \in Procs : pc'[p] = "wait" => chan'[p] # NoChan
  BY <1>1, <1>3 DEF RoundInv
<1>8. \A p \in Procs : pc'[p] = "wait" =>
        (chan'[p] \in closed') \/ (waits'[call'[p].key] = chan'[p])
  BY <1>1, <1>3 DEF RoundInv
<1>9. \A p, r \in Holders' : chan'[p] = chan'[r] => p = r
  BY <1>1 DEF RoundInv
<1> QED
  BY <1>4, <1>5, <1>6, <1>7, <1>8, <1>9 DEF RoundInv

LEMMA NotifyRound ==
    ASSUME TypeOK, RoundInv, SameRoles, NEW k \in Keys, Notify(k)
    PROVE  RoundInv'
<1>1. CASE waits[k] = NoChan
  BY <1>1, NeutralRound DEF Notify
<1>2. CASE waits[k] # NoChan
  <2>1. /\ waits' = [waits EXCEPT ![k] = NoChan] /\ issued' = issued
        /\ closed' = closed \cup {waits[k]} /\ panicked' = (panicked \/ waits[k] \in closed)
    BY <1>2 DEF Notify, Close
  <2>2. waits[k] \notin closed
    BY <1>2 DEF RoundInv
  <2>3. ~panicked'
    BY <2>1, <2>2 DEF RoundInv
  <2>4. \A j \in Keys \ {k} : waits[j] # NoChan => waits[j] # waits[k]
    BY <1>2 DEF RoundInv
  <2>5. \A j \in Keys : waits'[j] # NoChan =>
          /\ waits'[j] \notin closed'
          /\ \E w \in Holders' : chan'[w] = waits'[j] /\ call'[w].key = j
    <3> SUFFICES ASSUME NEW j \in Keys, waits'[j] # NoChan
                 PROVE  /\ waits'[j] \notin closed'
                        /\ \E w \in Holders' : chan'[w] = waits'[j] /\ call'[w].key = j
      OBVIOUS
    <3>1. j # k /\ waits'[j] = waits[j]
      BY <2>1 DEF TypeOK, LCTypeOK
    <3>2. waits[j] \notin closed'
      BY <2>1, <2>4, <3>1 DEF RoundInv
    <3>3. PICK w \in Holders : chan[w] = waits[j] /\ call[w].key = j
      BY <3>1 DEF RoundInv
    <3> QED
      BY <3>1, <3>2, <3>3, HoldersAreProcs DEF SameRoles
  <2>6. \A p \in Procs : pc'[p] = "wait" =>
          chan'[p] \in closed' \/ waits'[call'[p].key] = chan'[p]
    <3> SUFFICES ASSUME NEW p \in Procs, pc'[p] = "wait", chan[p] \notin closed'
                 PROVE  waits'[call'[p].key] = chan[p]
      BY DEF SameRoles
    <3>1. pc[p] = "wait" /\ chan[p] # NoChan /\ call'[p] = call[p]
      BY DEF SameRoles, RoundInv
    <3>2. waits[call[p].key] = chan[p] /\ chan[p] # waits[k]
      BY <2>1, <3>1 DEF RoundInv
    <3> QED
      BY <2>1, <3>1, <3>2 DEF TypeOK, LCTypeOK
  <2>7. \A c \in closed' : c <= issued'
    <3>1. waits[k] <= issued
      BY <1>2, HoldersAreProcs DEF RoundInv
    <3> QED
      BY <2>1, <3>1 DEF RoundInv
  <2>8. \A p \in Procs : chan'[p] # NoChan =>
          /\ chan'[p] <= issued'
          /\ (pc'[p] = "wait") \/ p \in Holders'
    BY <2>1 DEF SameRoles, RoundInv
  <2>10. \A p \in Procs : pc'[p] = "wait" => chan'[p] # NoChan
    BY DEF SameRoles, RoundInv
  <2>9. \A p, r \in Holders' : chan'[p] = chan'[r] => p = r
    BY DEF SameRoles, RoundInv
  <2> QED
    BY <2>3, <2>5, <2>6, <2>7, <2>8, <2>9, <2>10 DEF RoundInv
<1> QED
  BY <1>1, <1>2

\* A caller between two queries, or before its LockOrWait, has no channel.
LEMMA NoChannelYet ==
    ASSUME TypeOK, RoundInv, NEW p \in Procs,
           pc[p] \notin {"wait", "load", "rows", "notify", "clear", "release"}
    PROVE  chan[p] = NoChan
BY DEF TypeOK, ProcTypeOK, RoundInv, Holders

\* p moves on without entering or leaving wait, and keeps its channel.
LEMMA MoveRoles ==
    ASSUME TypeOK, RoundInv, NEW p \in Procs, NEW s \in Stages \ {"wait"},
           Goto(p, s), UNCHANGED chan, pc[p] # "wait",
           \A r \in Procs \ {p} : call'[r] = call[r],
           \/ chan[p] = NoChan
           \/ call'[p] = call[p] /\ s \in {"load", "rows", "notify", "clear", "release"}
    PROVE  SameRoles
<1>1. pc' = [pc EXCEPT ![p] = s] /\ pc \in [Procs -> Stages]
  BY DEF Goto, TypeOK, ProcTypeOK
<1>2. chan[p] # NoChan => pc[p] \in {"load", "rows", "notify", "clear", "release"}
  BY NoChannelYet
<1>3. Holders' = Holders
  BY <1>1, <1>2 DEF Holders
<1> QED
  BY <1>1, <1>3 DEF SameRoles

LEMMA QueryRound ==
    ASSUME TypeOK, RoundInv, NEW p \in Procs, Query(p)
    PROVE  RoundStep
<1>1. PICK k \in Keys, o \in Options : QueryGet(p, k, o) \/ QuerySkip(p, k, o)
  BY DEF Query
<1>2. Issue(p, k, o)
  BY <1>1 DEF QueryGet, QuerySkip
<1>3. chan[p] = NoChan /\ pc[p] # "wait"
  BY <1>2, NoChannelYet DEF Issue, Quiet
<1>4. UNCHANGED chan /\ UNCHANGED lockVars /\ \A r \in Procs \ {p} : call'[r] = call[r]
  BY <1>2 DEF Issue, lockVars, TypeOK, ProcTypeOK
<1>5. PICK s \in Stages \ {"wait"} : Goto(p, s)
  <2>1. CASE QueryGet(p, k, o)
    BY <2>1 DEF QueryGet, AfterHit, Stages, Quiet
  <2>2. CASE QuerySkip(p, k, o)
    BY <2>2 DEF QuerySkip, Stages, Quiet
  <2> QED
    BY <1>1, <2>1, <2>2
<1>6. SameRoles
  BY <1>3, <1>4, <1>5, MoveRoles
<1> QED
  BY <1>4, <1>6 DEF RoundStep, Neutral

\* The caller registers a channel of its own: nobody has seen its number.
LEMMA RegisterRound ==
    ASSUME TypeOK, RoundInv, NEW p \in Procs, NEW k \in Keys,
           call[p].key = k, Registers(p)
    PROVE  RoundInv'
<1> USE DEF Registers
<1>1. /\ waits' = [waits EXCEPT ![k] = issued + 1] /\ issued' = issued + 1
      /\ closed' = closed /\ panicked' = panicked
  BY DEF Register
<1>2. pc' = [pc EXCEPT ![p] = "load"]
  BY DEF Goto
<1>3. chan[p] = NoChan
  BY NoChannelYet
<1>4. Holders' = Holders \cup {p} /\ p \notin Holders
  BY <1>2, <1>3 DEF Holders, TypeOK, ProcTypeOK, LCTypeOK, NoChan
<1>5. /\ \A r \in Procs : chan[r] \in Nat /\ chan[r] <= issued
      /\ \A r \in Procs \ {p} : chan'[r] = chan[r] /\ pc'[r] = pc[r]
      /\ chan'[p] = issued + 1 /\ pc'[p] = "load" /\ issued \in Nat
  BY <1>2 DEF RoundInv, TypeOK, ProcTypeOK, LCTypeOK, NoChan
<1>6. \A j \in Keys : waits'[j] # NoChan =>
        /\ waits'[j] \notin closed'
        /\ \E w \in Holders' : chan'[w] = waits'[j] /\ call'[w].key = j
  <2> SUFFICES ASSUME NEW j \in Keys, waits'[j] # NoChan
               PROVE  /\ waits'[j] \notin closed'
                      /\ \E w \in Holders' : chan'[w] = waits'[j] /\ call'[w].key = j
    OBVIOUS
  <2>1. CASE j = k
    <3>1. waits'[j] = issued + 1
      BY <1>1, <2>1 DEF TypeOK, LCTypeOK
    <3>2. issued + 1 \notin closed
      BY <1>5 DEF RoundInv
    <3> QED
      BY <1>1, <1>4, <1>5, <2>1, <3>1, <3>2
  <2>2. CASE j # k
    <3>1. waits'[j] = waits[j]
      BY <1>1, <2>2 DEF TypeOK, LCTypeOK
    <3>2. PICK w \in Holders : chan[w] = waits[j] /\ call[w].key = j
      BY <3>1 DEF RoundInv
    <3>3. w \in Procs \ {p}
      BY <1>4, HoldersAreProcs
    <3>4. waits[j] \notin closed
      BY <3>1 DEF RoundInv
    <3> QED
      BY <1>1, <1>4, <1>5, <3>1, <3>2, <3>3, <3>4
  <2> QED
    BY <2>1, <2>2
<1>7. \A r \in Procs : chan'[r] # NoChan =>
        /\ chan'[r] <= issued'
        /\ (pc'[r] = "wait") \/ r \in Holders'
  BY <1>1, <1>4, <1>5 DEF RoundInv
<1>8. \A r \in Procs : pc'[r] = "wait" => chan'[r] # NoChan
  BY <1>5 DEF RoundInv
<1>9. \A r \in Procs : pc'[r] = "wait" =>
        (chan'[r] \in closed') \/ (waits'[call'[r].key] = chan'[r])
  <2> SUFFICES ASSUME NEW r \in Procs, pc'[r] = "wait", chan[r] \notin closed
               PROVE  waits'[call[r].key] = chan'[r]
    BY <1>1, <1>5
  <2>1. r # p /\ chan[r] # NoChan /\ waits[call[r].key] = chan[r]
    BY <1>5 DEF RoundInv
  <2>2. call[r].key # k
    BY <2>1
  <2> QED
    BY <1>1, <1>5, <2>1, <2>2 DEF TypeOK, LCTypeOK, ProcTypeOK, CallType
<1>10. \A q, r \in Holders' : chan'[q] = chan'[r] => q = r
  BY <1>4, <1>5, HoldersAreProcs DEF RoundInv
<1>11. ~panicked' /\ \A c \in closed' : c <= issued'
  BY <1>1, <1>5 DEF RoundInv, TypeOK, LCTypeOK
<1> QED
  BY <1>6, <1>7, <1>8, <1>9, <1>10, <1>11 DEF RoundInv


LEMMA JoinRound ==
    ASSUME TypeOK, RoundInv, NEW p \in Procs, Joins(p)
    PROVE  RoundInv'
<1> USE DEF Joins
<1>1. /\ waits' = waits /\ issued' = issued /\ closed' = closed /\ panicked' = panicked
  BY DEF lockVars
<1>2. pc' = [pc EXCEPT ![p] = "wait"]
  BY DEF Goto
<1>3. Holders' = Holders /\ p \notin Holders
  BY <1>2 DEF Holders, TypeOK, ProcTypeOK
<1>4. /\ \A r \in Procs \ {p} : chan'[r] = chan[r] /\ pc'[r] = pc[r]
      /\ chan'[p] = waits[call[p].key] /\ pc'[p] = "wait"
  BY <1>2 DEF TypeOK, ProcTypeOK
<1>5. \A w \in Holders : w \in Procs \ {p} /\ chan[w] # NoChan
  BY <1>3, HoldersAreProcs
<1>6. waits[call[p].key] <= issued
  <2>1. call[p].key \in Keys
    BY DEF TypeOK, ProcTypeOK, CallType
  <2> QED
    BY <1>5, <2>1 DEF RoundInv
<1>7. \A j \in Keys : waits'[j] # NoChan =>
        /\ waits'[j] \notin closed'
        /\ \E w \in Holders' : chan'[w] = waits'[j] /\ call'[w].key = j
  BY <1>1, <1>3, <1>4, <1>5 DEF RoundInv
<1>8. \A r \in Procs : chan'[r] # NoChan =>
        /\ chan'[r] <= issued'
        /\ (pc'[r] = "wait") \/ r \in Holders'
  BY <1>1, <1>3, <1>4, <1>6 DEF RoundInv
<1>9. \A r \in Procs : pc'[r] = "wait" => chan'[r] # NoChan
  BY <1>4 DEF RoundInv
<1>10. \A r \in Procs : pc'[r] = "wait" =>
        (chan'[r] \in closed') \/ (waits'[call'[r].key] = chan'[r])
  BY <1>1, <1>4 DEF RoundInv
<1>11. \A q, r \in Holders' : chan'[q] = chan'[r] => q = r
  BY <1>3, <1>4, <1>5 DEF RoundInv
<1>12. ~panicked' /\ \A c \in closed' : c <= issued'
  BY <1>1 DEF RoundInv
<1> QED
  BY <1>7, <1>8, <1>9, <1>10, <1>11, <1>12 DEF RoundInv

\* A caller gives up its place in a round, without closing anything: a waiter
\* that wakes or is cancelled, or a holder whose round is over already.
LEMMA LeaveRound ==
    ASSUME TypeOK, RoundInv, NEW p \in Procs, NEW s \in Stages \ {"wait"},
           \A k \in Keys : waits[k] # NoChan /\ p \in Holders => waits[k] # chan[p],
           UNCHANGED lockVars, UNCHANGED call,
           Goto(p, s), chan' = [chan EXCEPT ![p] = NoChan]
    PROVE  RoundInv'
<1>1. /\ waits' = waits /\ issued' = issued /\ closed' = closed /\ panicked' = panicked
  BY DEF lockVars
<1>2. pc' = [pc EXCEPT ![p] = s]
  BY DEF Goto
<1>3. Holders' = Holders \ {p}
  BY <1>2 DEF Holders, TypeOK, ProcTypeOK
<1>4. /\ \A r \in Procs \ {p} : chan'[r] = chan[r] /\ pc'[r] = pc[r]
      /\ chan'[p] = NoChan /\ pc'[p] = s
  BY <1>2 DEF TypeOK, ProcTypeOK
<1>5. \A j \in Keys : waits'[j] # NoChan =>
        /\ waits'[j] \notin closed'
        /\ \E w \in Holders' : chan'[w] = waits'[j] /\ call'[w].key = j
  <2> SUFFICES ASSUME NEW j \in Keys, waits[j] # NoChan
               PROVE  /\ waits[j] \notin closed
                      /\ \E w \in Holders' : chan'[w] = waits[j] /\ call[w].key = j
    BY <1>1
  <2>1. PICK w \in Holders : chan[w] = waits[j] /\ call[w].key = j
    BY DEF RoundInv
  <2>2. w # p
    BY <2>1
  <2> QED
    BY <1>3, <1>4, <2>1, <2>2, HoldersAreProcs DEF RoundInv
<1>6. \A r \in Procs : chan'[r] # NoChan =>
        /\ chan'[r] <= issued'
        /\ (pc'[r] = "wait") \/ r \in Holders'
  BY <1>1, <1>3, <1>4 DEF RoundInv
<1>7. \A r \in Procs : pc'[r] = "wait" => chan'[r] # NoChan
  BY <1>4 DEF RoundInv
<1>8. \A r \in Procs : pc'[r] = "wait" =>
        (chan'[r] \in closed') \/ (waits'[call'[r].key] = chan'[r])
  BY <1>1, <1>4 DEF RoundInv
<1>9. \A q, r \in Holders' : chan'[q] = chan'[r] => q = r
  BY <1>3, <1>4, HoldersAreProcs DEF RoundInv
<1>10. ~panicked' /\ \A c \in closed' : c <= issued'
  BY <1>1 DEF RoundInv
<1> QED
  BY <1>5, <1>6, <1>7, <1>8, <1>9, <1>10 DEF RoundInv

\* The holder whose round is still open closes it and leaves.
LEMMA EndRound ==
    ASSUME TypeOK, RoundInv, NEW p \in Holders, NEW s \in Quiet,
           waits[call[p].key] = chan[p], Close(chan[p]), UNCHANGED issued,
           waits' = [waits EXCEPT ![call[p].key] = NoChan], UNCHANGED call,
           Goto(p, s), chan' = [chan EXCEPT ![p] = NoChan]
    PROVE  RoundInv'
<1> DEFINE k == call[p].key
           c == chan[p]
<1>0. p \in Procs /\ c # NoChan /\ k \in Keys
  BY HoldersAreProcs DEF TypeOK, ProcTypeOK, CallType
<1>1. /\ waits' = [waits EXCEPT ![k] = NoChan] /\ issued' = issued
      /\ closed' = closed \cup {c} /\ panicked' = (panicked \/ c \in closed)
  BY DEF Close
<1>2. pc' = [pc EXCEPT ![p] = s]
  BY DEF Goto
<1>3. Holders' = Holders \ {p}
  BY <1>2 DEF Holders, Quiet, TypeOK, ProcTypeOK
<1>4. /\ \A r \in Procs \ {p} : chan'[r] = chan[r] /\ pc'[r] = pc[r]
      /\ chan'[p] = NoChan /\ pc'[p] = s /\ s # "wait"
  BY <1>0, <1>2 DEF TypeOK, ProcTypeOK, Quiet
<1>5. waits[k] # NoChan /\ waits[k] = c /\ c \notin closed /\ c <= issued
  BY <1>0 DEF RoundInv
<1>6. \A j \in Keys : waits'[j] # NoChan =>
        /\ waits'[j] \notin closed'
        /\ \E w \in Holders' : chan'[w] = waits'[j] /\ call'[w].key = j
  <2> SUFFICES ASSUME NEW j \in Keys, waits'[j] # NoChan
               PROVE  /\ waits'[j] \notin closed'
                      /\ \E w \in Holders' : chan'[w] = waits'[j] /\ call'[w].key = j
    OBVIOUS
  <2>1. j # k /\ waits'[j] = waits[j]
    BY <1>1 DEF TypeOK, LCTypeOK
  <2>2. PICK w \in Holders : chan[w] = waits[j] /\ call[w].key = j
    BY <2>1 DEF RoundInv
  <2>3. w # p /\ waits[j] # c
    BY <2>1, <2>2 DEF RoundInv
  <2>4. waits[j] \notin closed
    BY <2>1 DEF RoundInv
  <2> QED
    BY <1>1, <1>3, <1>4, <2>1, <2>2, <2>3, <2>4, HoldersAreProcs
<1>7. \A r \in Procs : chan'[r] # NoChan =>
        /\ chan'[r] <= issued'
        /\ (pc'[r] = "wait") \/ r \in Holders'
  BY <1>1, <1>3, <1>4 DEF RoundInv
<1>8. \A r \in Procs : pc'[r] = "wait" => chan'[r] # NoChan
  BY <1>4 DEF RoundInv
<1>9. \A r \in Procs : pc'[r] = "wait" =>
        (chan'[r] \in closed') \/ (waits'[call'[r].key] = chan'[r])
  <2> SUFFICES ASSUME NEW r \in Procs, pc'[r] = "wait", chan'[r] \notin closed'
               PROVE  waits'[call[r].key] = chan'[r]
    OBVIOUS
  <2>1. r # p /\ chan'[r] = chan[r] /\ pc[r] = "wait"
    BY <1>4
  <2>2. chan[r] \notin closed /\ chan[r] # c
    BY <1>1, <2>1
  <2>3. waits[call[r].key] = chan[r] /\ call[r].key # k
    BY <1>5, <2>1, <2>2 DEF RoundInv
  <2> QED
    BY <1>1, <2>1, <2>3 DEF TypeOK, LCTypeOK, ProcTypeOK, CallType
<1>10. \A q, r \in Holders' : chan'[q] = chan'[r] => q = r
  BY <1>3, <1>4, HoldersAreProcs DEF RoundInv
<1>11. ~panicked'
  BY <1>1, <1>5 DEF RoundInv
<1>12. \A d \in closed' : d <= issued'
  BY <1>1, <1>5 DEF RoundInv
<1> QED
  BY <1>6, <1>7, <1>8, <1>9, <1>10, <1>11, <1>12 DEF RoundInv

LEMMA AdvanceRound ==
    ASSUME TypeOK, RoundInv, NEW p \in Procs, Advance(p) \/ CancelWait(p)
    PROVE  RoundStep
<1>a. AfterAdd(p) \in {"clear", "release"}
  BY DEF AfterAdd
<1>k. call[p].key \in Keys
  BY DEF TypeOK, ProcTypeOK, CallType
<1>n. pc[p] \notin {"wait", "load", "rows", "notify", "clear", "release"} => chan[p] = NoChan
  BY NoChannelYet
<1>1. CASE Direct(p)
  <2>1. UNCHANGED lockVars /\ UNCHANGED chan /\ UNCHANGED call /\ pc[p] # "wait"
    BY <1>1 DEF Direct, cacheVars, lockVars
  <2>2. PICK s \in Stages \ {"wait"} : Goto(p, s) /\ (\/ chan[p] = NoChan
                  \/ s \in {"load", "rows", "notify", "clear", "release"})
    BY <1>1, <1>a, <1>n DEF Direct, Stages, Quiet
  <2> QED
    BY <2>1, <2>2, MoveRoles DEF RoundStep, Neutral
<1>2. CASE RemoveExpired(p)
  <2>1. UNCHANGED lockVars /\ UNCHANGED chan /\ UNCHANGED call /\ pc[p] # "wait"
    BY <1>2 DEF RemoveExpired, cacheVars, lockVars
  <2>2. PICK s \in Stages \ {"wait"} : Goto(p, s) /\ (\/ chan[p] = NoChan
                  \/ s \in {"load", "rows", "notify", "clear", "release"})
    BY <1>2, <1>a, <1>n DEF RemoveExpired, Stages, Quiet
  <2> QED
    BY <2>1, <2>2, MoveRoles DEF RoundStep, Neutral
<1>3. CASE CheckChanged(p)
  <2>1. UNCHANGED lockVars /\ UNCHANGED chan /\ UNCHANGED call /\ pc[p] # "wait"
    BY <1>3 DEF CheckChanged, cacheVars, lockVars
  <2>2. PICK s \in Stages \ {"wait"} : Goto(p, s) /\ (\/ chan[p] = NoChan
                  \/ s \in {"load", "rows", "notify", "clear", "release"})
    BY <1>3, <1>a, <1>n DEF CheckChanged, Stages, Quiet
  <2> QED
    BY <2>1, <2>2, MoveRoles DEF RoundStep, Neutral
<1>4. CASE EvictStale(p)
  <2>1. UNCHANGED lockVars /\ UNCHANGED chan /\ UNCHANGED call /\ pc[p] # "wait"
    BY <1>4 DEF EvictStale, cacheVars, lockVars
  <2>2. PICK s \in Stages \ {"wait"} : Goto(p, s) /\ (\/ chan[p] = NoChan
                  \/ s \in {"load", "rows", "notify", "clear", "release"})
    BY <1>4, <1>a, <1>n DEF EvictStale, Stages, Quiet
  <2> QED
    BY <2>1, <2>2, MoveRoles DEF RoundStep, Neutral
<1>5. CASE ClearStale(p)
  <2>1. UNCHANGED lockVars /\ UNCHANGED chan /\ UNCHANGED call /\ pc[p] # "wait"
    BY <1>5 DEF ClearStale, cacheVars, lockVars
  <2>2. PICK s \in Stages \ {"wait"} : Goto(p, s) /\ (\/ chan[p] = NoChan
                  \/ s \in {"load", "rows", "notify", "clear", "release"})
    BY <1>5, <1>a, <1>n DEF ClearStale, Stages, Quiet
  <2> QED
    BY <2>1, <2>2, MoveRoles DEF RoundStep, Neutral
<1>6. CASE Load(p)
  <2>1. UNCHANGED lockVars /\ UNCHANGED chan /\ UNCHANGED call /\ pc[p] # "wait"
    BY <1>6 DEF Load, cacheVars, lockVars
  <2>2. PICK s \in Stages \ {"wait"} : Goto(p, s) /\ (\/ chan[p] = NoChan
                  \/ s \in {"load", "rows", "notify", "clear", "release"})
    BY <1>6, <1>a, <1>n DEF Load, Stages, Quiet
  <2> QED
    BY <2>1, <2>2, MoveRoles DEF RoundStep, Neutral
<1>7. CASE CloseDiscard(p)
  <2>1. UNCHANGED lockVars /\ UNCHANGED chan /\ UNCHANGED call /\ pc[p] # "wait"
    BY <1>7 DEF CloseDiscard, cacheVars, lockVars
  <2>2. PICK s \in Stages \ {"wait"} : Goto(p, s) /\ (\/ chan[p] = NoChan
                  \/ s \in {"load", "rows", "notify", "clear", "release"})
    BY <1>7, <1>a, <1>n DEF CloseDiscard, Stages, Quiet
  <2> QED
    BY <2>1, <2>2, MoveRoles DEF RoundStep, Neutral
<1>8. CASE CloseAddError(p)
  <2>1. UNCHANGED lockVars /\ UNCHANGED chan /\ UNCHANGED call /\ pc[p] # "wait"
    BY <1>8 DEF CloseAddError, cacheVars, lockVars
  <2>2. PICK s \in Stages \ {"wait"} : Goto(p, s) /\ (\/ chan[p] = NoChan
                  \/ s \in {"load", "rows", "notify", "clear", "release"})
    BY <1>8, <1>a, <1>n DEF CloseAddError, Stages, Quiet
  <2> QED
    BY <2>1, <2>2, MoveRoles DEF RoundStep, Neutral
<1>9. CASE ClearMark(p)
  <2>1. UNCHANGED lockVars /\ UNCHANGED chan /\ UNCHANGED call /\ pc[p] # "wait"
    BY <1>9 DEF ClearMark, cacheVars, lockVars
  <2>2. PICK s \in Stages \ {"wait"} : Goto(p, s) /\ (\/ chan[p] = NoChan
                  \/ s \in {"load", "rows", "notify", "clear", "release"})
    BY <1>9, <1>a, <1>n DEF ClearMark, Stages, Quiet
  <2> QED
    BY <2>1, <2>2, MoveRoles DEF RoundStep, Neutral
<1>10. CASE NotifyWaiters(p)
  <2>1. /\ Notify(call[p].key) /\ Goto(p, AfterAdd(p)) /\ pc[p] = "notify"
        /\ UNCHANGED chan /\ UNCHANGED call
    BY <1>10 DEF NotifyWaiters
  <2>2. SameRoles
    BY <1>a, <2>1, MoveRoles DEF Stages
  <2> QED
    BY <1>k, <2>1, <2>2 DEF RoundStep, Notifies
<1>11. CASE CloseAdd(p)
  <2>1. PICK s \in {"notify", "clear", "release"} : Goto(p, s)
    BY <1>11, <1>a DEF CloseAdd
  <2>2. UNCHANGED chan /\ UNCHANGED call /\ pc[p] = "rows"
    BY <1>11 DEF CloseAdd
  <2>3. SameRoles
    BY <2>1, <2>2, MoveRoles DEF Stages
  <2>4. UNCHANGED lockVars \/ Notify(call[p].key)
    BY <1>11 DEF CloseAdd, ContextAdd
  <2> QED
    BY <1>k, <2>3, <2>4 DEF RoundStep, Notifies, Neutral
<1>12. CASE Lock(p)
  <2>1. CASE Goto(p, "load") /\ UNCHANGED lockVars /\ UNCHANGED chan
    <3>1. SameRoles
      BY <1>12, <1>n, <2>1, MoveRoles DEF Lock, Stages
    <3> QED
      BY <2>1, <3>1 DEF RoundStep, Neutral
  <2>2. CASE /\ waits[call[p].key] # NoChan /\ Goto(p, "wait") /\ UNCHANGED lockVars
             /\ chan' = [chan EXCEPT ![p] = waits[call[p].key]]
    BY <1>12, <2>2 DEF Lock, RoundStep, Joins
  <2>3. CASE /\ waits[call[p].key] = NoChan /\ Register(call[p].key) /\ Goto(p, "load")
             /\ chan' = [chan EXCEPT ![p] = issued + 1]
    BY <1>12, <1>k, <2>3 DEF Lock, RoundStep, Registers
  <2> QED
    BY <1>12, <2>1, <2>2, <2>3 DEF Lock
<1>13. CASE Wake(p) \/ CancelWait(p)
  <2>1. PICK s \in Stages \ {"wait"} : Goto(p, s)
    BY <1>13 DEF Wake, CancelWait, Stages, Quiet
  <2>2. /\ UNCHANGED lockVars /\ UNCHANGED call
        /\ chan' = [chan EXCEPT ![p] = NoChan] /\ p \notin Holders
    BY <1>13 DEF Wake, CancelWait, cacheVars, lockVars, Holders
  <2> QED
    BY <2>1, <2>2 DEF RoundStep, Leaves
<1>14. CASE ReleaseLock(p)
  <2>1. /\ pc[p] = "release" /\ UNCHANGED call /\ chan' = [chan EXCEPT ![p] = NoChan]
        /\ Release(call[p].key, chan[p])
    BY <1>14 DEF ReleaseLock
  <2>2. PICK s \in Quiet : Goto(p, s)
    BY <1>14 DEF ReleaseLock, Quiet
  <2>3. s \in Stages \ {"wait"}
    BY DEF Quiet, Stages
  <2>4. CASE chan[p] # NoChan /\ waits[call[p].key] = chan[p]
    <3>1. p \in Holders
      BY <2>1, <2>4 DEF Holders
    <3>2. /\ Close(chan[p]) /\ UNCHANGED issued
          /\ waits' = [waits EXCEPT ![call[p].key] = NoChan]
      BY <2>1, <2>4 DEF Release
    <3> QED
      BY <2>1, <2>2, <2>4, <3>1, <3>2 DEF RoundStep, Ends, Holders
  <2>5. CASE ~(chan[p] # NoChan /\ waits[call[p].key] = chan[p])
    <3>1. UNCHANGED lockVars
      BY <2>1, <2>5 DEF Release
    <3>2. ASSUME NEW k \in Keys, waits[k] # NoChan, p \in Holders, waits[k] = chan[p]
          PROVE  FALSE
      <4>1. PICK w \in Holders : chan[w] = waits[k] /\ call[w].key = k
        BY <3>2 DEF RoundInv
      <4>2. w = p
        BY <3>2, <4>1 DEF RoundInv
      <4> QED
        BY <2>5, <3>2, <4>1, <4>2
    <3> QED
      BY <2>1, <2>2, <2>3, <3>1, <3>2 DEF RoundStep, Leaves
  <2> QED
    BY <2>4, <2>5
<1> QED
  BY <1>1, <1>2, <1>3, <1>4, <1>5, <1>6, <1>7, <1>8, <1>9, <1>10, <1>11, <1>12,
     <1>13, <1>14 DEF Advance

\* Every step of the system is one of the six.
LEMMA StepKind == TypeOK /\ RoundInv /\ [Next]_vars => RoundStep
<1> SUFFICES ASSUME TypeOK, RoundInv, [Next]_vars PROVE RoundStep
  OBVIOUS
<1>1. ASSUME UNCHANGED cacheVars, UNCHANGED procVars PROVE RoundStep
  <2>1. UNCHANGED lockVars /\ UNCHANGED chan /\ UNCHANGED call /\ UNCHANGED pc
    BY <1>1 DEF cacheVars, procVars, lockVars
  <2>2. SameRoles
    BY <2>1 DEF SameRoles, Holders
  <2> QED
    BY <2>1, <2>2 DEF RoundStep, Neutral
<1>2. ASSUME NEW p \in Procs, Query(p) PROVE RoundStep
  BY <1>2, QueryRound
<1>3. ASSUME NEW p \in Procs, Advance(p) \/ CancelWait(p) PROVE RoundStep
  BY <1>3, AdvanceRound
<1>4. ASSUME NEW w \in Writers, Mutator(w) PROVE RoundStep
  BY <1>1, <1>4 DEF Mutator, Mutate, MutateFails, StampMark, ApplyMark, ReturnUnmarked,
                    Return, CommitTx
<1>5. CASE Pass \/ Collect
  BY <1>1, <1>5 DEF Pass, Collect
<1>6. CASE UNCHANGED vars
  BY <1>1, <1>6 DEF vars
<1> QED
  BY <1>2, <1>3, <1>4, <1>5, <1>6 DEF Next, Rested

LEMMA StepRound == TypeOK /\ RoundInv /\ [Next]_vars => RoundInv'
<1> SUFFICES ASSUME TypeOK, RoundInv, RoundStep PROVE RoundInv'
  BY StepKind
<1>1. CASE Neutral
  BY <1>1, NeutralRound DEF Neutral
<1>2. ASSUME NEW k \in Keys, Notifies(k) PROVE RoundInv'
  BY <1>2, NotifyRound DEF Notifies
<1>3. ASSUME NEW p \in Procs, Registers(p) PROVE RoundInv'
  <2>1. call[p].key \in Keys
    BY DEF TypeOK, ProcTypeOK, CallType
  <2> QED
    BY <1>3, <2>1, RegisterRound
<1>4. ASSUME NEW p \in Procs, Joins(p) PROVE RoundInv'
  BY <1>4, JoinRound
<1>5. ASSUME NEW p \in Procs, Leaves(p) PROVE RoundInv'
  BY <1>5, LeaveRound DEF Leaves
<1>6. ASSUME NEW p \in Procs, Ends(p) PROVE RoundInv'
  BY <1>6, EndRound DEF Ends
<1> QED
  BY <1>1, <1>2, <1>3, <1>4, <1>5, <1>6 DEF RoundStep

\* The round invariant holds in every behaviour.
THEOREM RoundsAreOwned == Spec => []RoundInv
<1>1. Init => TypeOK /\ RoundInv
  BY InitType, InitRound
<1>2. TypeOK /\ RoundInv /\ [Next]_vars => (TypeOK /\ RoundInv)'
  BY StepType, StepRound
<1> QED
  BY <1>1, <1>2, PTL DEF Spec

\* However Add, release and later rounds interleave, no wait channel is closed
\* twice: LockOrWait never panics.
THEOREM NeverPanics == Spec => []NoPanic
<1>1. RoundInv => NoPanic
  BY DEF RoundInv, NoPanic
<1> QED
  BY <1>1, RoundsAreOwned, PTL

\* Every caller blocked in wait() is owed a wake-up by a caller that holds the
\* lock of its key, or has been woken already.
THEOREM WaitersAreOwned == Spec => []NoOrphanedWaiter
<1>1. TypeOK /\ RoundInv => NoOrphanedWaiter
  <2> SUFFICES ASSUME TypeOK, RoundInv, NEW p \in Procs, pc[p] = "wait",
                      chan[p] \notin closed
               PROVE  /\ waits[call[p].key] = chan[p]
                      /\ \E w \in Holders : chan[w] = chan[p] /\ call[w].key = call[p].key
    BY DEF NoOrphanedWaiter
  <2>1. call[p].key \in Keys
    BY DEF TypeOK, ProcTypeOK, CallType
  <2> QED
    BY <2>1 DEF RoundInv
<1> QED
  BY <1>1, TypeCorrect, RoundsAreOwned, PTL
=============================================================================
