---------------------------- MODULE LoaderProofs ----------------------------
(***************************************************************************)
(* Stampede protection by an in-process level: two callers of one key are  *)
(* never at the database together, for any number of keys, goroutines,     *)
(* queries and mutations, as long as nothing comes between a winner's load *)
(* and its waiters: see Undisturbed.                                       *)
(***************************************************************************)
EXTENDS DriverProofs, FiniteSetTheorems

\* The keys under which every level keeps an entry.
Storable == Keys \ Blank

\* The configurations the theorem is about.  A failed load, a cancelled waiter,
\* SkipNotFound, a deleted, expired or evicted entry each send waiters to the
\* database side by side.
Undisturbed ==
    /\ ~Failures /\ ~Cancels /\ Detached = {}
    /\ Backends \subseteq {"lru", "context"}
    /\ "lru" \in Backends =>
          IsFiniteSet(Storable) /\ Cardinality(Storable) <= Capacity
    /\ \A o \in Options : /\ o.mode # "evict" /\ ~o.skipNotFound
                          /\ EffectiveTTL(o) = 0
                          /\ UseChangeSet => ~o.ref

(***************************************************************************)
(* The inductive invariant.                                                *)
(***************************************************************************)
\* What the hypotheses come to: no entry expires, no query asks for anything
\* else, no caller is on its way to remove an entry, and the LRU holds nothing
\* under a blank key.
KeptInv ==
    /\ \A k \in Keys : \A e \in items[k] : e.exp = {}
    /\ \A p \in Procs : call[p].ttl = 0 /\ ~call[p].skipNotFound
    /\ \A p \in Procs : pc[p] \notin {"check", "expired", "expiredAgain", "evictStale",
                                      "clearStale"}
    /\ backend = "lru" => \A k \in Blank : items[k] = {}

\* A loader owns the registered channel of its key until it, and nobody else,
\* notifies; once it has stored the entry the entry is there, so that whoever
\* its channel wakes finds it.
Loading(p) ==
    /\ pc[p] \in {"load", "rows", "notify"} =>
          chan[p] # NoChan /\ waits[call[p].key] = chan[p]
    /\ pc[p] \in {"notify", "clear", "release"} => items[call[p].key] # {}
    /\ pc[p] = "wait" /\ chan[p] \in closed => items[call[p].key] # {}

LoadingInv == \A p \in Procs : call[p].key \in Storable => Loading(p)

LoaderInv == TypeOK /\ RoundInv /\ KeptInv /\ LoadingInv

LEMMA InitLoader == Init => LoaderInv
<1> SUFFICES ASSUME Init PROVE LoaderInv
  OBVIOUS
<1>1. \A p \in Procs : pc[p] = "idle" /\ call[p] = NoCall
  BY DEF Init
<1>2. \A k \in Keys : items[k] = {}
  BY DEF Init, LCInit
<1>3. LoadingInv
  BY <1>1 DEF LoadingInv, Loading
<1>4. NoCall.ttl = 0 /\ ~NoCall.skipNotFound
  BY DEF NoCall
<1>5. KeptInv
  BY <1>1, <1>2, <1>4, LocalCacheAssumption DEF KeptInv
<1> QED
  BY <1>3, <1>5, InitType, InitRound DEF LoaderInv

LEMMA LoaderSingle == LoaderInv => SingleLoader
BY DEF LoaderInv, LoadingInv, Loading, Storable, RoundInv, Holders, SingleLoader,
       TypeOK, ProcTypeOK, CallType

(***************************************************************************)
(* Steps that leave the entries and a bystander's part in the lock alone.  *)
(***************************************************************************)
\* No entry disappears.
Grows == \A k \in Keys : items[k] # {} => items'[k] # {}

Bystander(r) == pc'[r] = pc[r] /\ call'[r] = call[r] /\ chan'[r] = chan[r]

LEMMA CallKey == ASSUME TypeOK, NEW p \in Procs PROVE call[p].key \in Keys
BY DEF TypeOK, ProcTypeOK, CallType

\* No round begins or ends.
LEMMA BystanderKept ==
    ASSUME LoaderInv, NEW r \in Procs, Bystander(r), Grows, UNCHANGED lockVars,
           call[r].key \in Storable
    PROVE  Loading(r)'
<1>1. call[r].key \in Keys /\ Loading(r)
  BY CallKey DEF LoaderInv, LoadingInv
<1> QED
  BY <1>1 DEF Bystander, Grows, lockVars, Loading

\* A round of k begins.
LEMMA BystanderRegister ==
    ASSUME LoaderInv, NEW r \in Procs, Bystander(r), UNCHANGED items,
           NEW k \in Keys, waits[k] = NoChan, Register(k), call[r].key \in Storable
    PROVE  Loading(r)'
<1>1. call[r].key \in Keys /\ Loading(r)
  BY CallKey DEF LoaderInv, LoadingInv
<1>2. waits[call[r].key] # NoChan => waits'[call[r].key] = waits[call[r].key]
  BY <1>1 DEF Register, LoaderInv, TypeOK, LCTypeOK
<1> QED
  BY <1>1, <1>2 DEF Bystander, Register, Loading

\* Two keys never share a registered channel.
LEMMA OneKeyPerChannel ==
    ASSUME LoaderInv, NEW k \in Keys, NEW j \in Keys, waits[k] # NoChan, waits[j] = waits[k]
    PROVE  j = k
BY DEF LoaderInv, RoundInv

\* p ends the round of k, by an Add, a notification or a release.
EndsRound(p, k) ==
    /\ waits[k] # NoChan
    /\ waits' = [waits EXCEPT ![k] = NoChan] /\ closed' = closed \cup {waits[k]}
    /\ k \in Storable => /\ p \in Holders /\ chan[p] = waits[k]
                         /\ items'[k] # {}

LEMMA BystanderEnd ==
    ASSUME LoaderInv, NEW p \in Procs, NEW r \in Procs \ {p}, Bystander(r), Grows,
           NEW k \in Keys, EndsRound(p, k), call[r].key \in Storable
    PROVE  Loading(r)'
<1> DEFINE j == call[r].key
<1>1. j \in Keys /\ Loading(r)
  BY CallKey DEF LoaderInv, LoadingInv
<1>2. waits' = [waits EXCEPT ![k] = NoChan] /\ waits \in [Keys -> Nat]
  BY DEF EndsRound, LoaderInv, TypeOK, LCTypeOK
<1>3. ASSUME pc[r] \in {"load", "rows", "notify"}
      PROVE  chan[r] # NoChan /\ waits'[j] = chan[r]
  <2>1. r \in Holders /\ chan[r] # NoChan /\ waits[j] = chan[r]
    BY <1>1, <1>3 DEF Loading, Holders
  <2>2. j # k
    <3> SUFFICES ASSUME j = k PROVE FALSE
      OBVIOUS
    <3>1. p \in Holders /\ chan[p] = chan[r]
      BY <2>1 DEF EndsRound
    <3> QED
      BY <2>1, <3>1 DEF LoaderInv, RoundInv
  <2> QED
    BY <1>1, <1>2, <2>1, <2>2
<1>4. ASSUME pc[r] = "wait", chan[r] \in closed' PROVE items'[j] # {}
  <2>1. CASE chan[r] \in closed
    BY <1>1, <1>4, <2>1 DEF Loading, Grows
  <2>2. CASE chan[r] \notin closed
    <3>1. waits[j] = chan[r] /\ chan[r] = waits[k]
      BY <1>4, <2>2 DEF LoaderInv, RoundInv, EndsRound
    <3>2. j = k
      BY <1>1, <3>1, OneKeyPerChannel DEF EndsRound
    <3> QED
      BY <3>2 DEF EndsRound
  <2> QED
    BY <2>1, <2>2
<1> QED
  BY <1>1, <1>3, <1>4 DEF Bystander, Loading, Grows

(***************************************************************************)
(* The entries stay.                                                       *)
(***************************************************************************)
\* An LRU with room for every storable key never drops another's entry.
LEMMA RoomForAll ==
    ASSUME Undisturbed, LoaderInv, backend = "lru", NEW k \in Storable, items[k] = {}
    PROVE  Cardinality({j \in Keys \ {k} : items[j] # {}}) < Capacity
<1> DEFINE others == {j \in Keys \ {k} : items[j] # {}}
<1>1. IsFiniteSet(Storable) /\ Cardinality(Storable) <= Capacity /\ Capacity \in Nat
  BY LocalCacheAssumption DEF Undisturbed, LoaderInv, TypeOK, LCTypeOK
<1>2. IsFiniteSet(Storable \ {k}) /\ Cardinality(Storable \ {k}) = Cardinality(Storable) - 1
  BY <1>1, FS_RemoveElement
<1>3. others \subseteq Storable \ {k}
  BY DEF Storable, LoaderInv, KeptInv
<1>4. Cardinality(others) <= Cardinality(Storable \ {k}) /\ IsFiniteSet(others)
  BY <1>2, <1>3, FS_Subset
<1>5. Cardinality(Storable) \in Nat /\ Cardinality(others) \in Nat
  BY <1>1, <1>4, FS_CardinalityType
<1> QED
  BY <1>1, <1>2, <1>4, <1>5

\* What an Add without a TTL leaves behind.
Stored(k) == /\ Grows
             /\ items'[k] # {}
             /\ \A j \in Keys : \A e \in items'[j] : e.exp = {}
             /\ backend = "lru" => \A j \in Blank : items'[j] = {}

LEMMA LruStores ==
    ASSUME Undisturbed, LoaderInv, backend = "lru", NEW k \in Storable, NEW v, LruAdd(k, v, 0)
    PROVE  Stored(k)
<1> DEFINE others == {j \in Keys \ {k} : items[j] # {}}
           new == {[ver |-> v, exp |-> {}]}
<1>1. k \in Keys /\ k \notin Blank /\ Blank \subseteq Keys
  BY LocalCacheAssumption DEF Storable
<1>2. LruKept(k) = {others}
  BY RoomForAll DEF LruKept
<1>3. items' = [j \in Keys |-> IF j = k THEN new ELSE IF j \in others THEN items[j] ELSE {}]
  BY <1>1, <1>2 DEF LruAdd
<1>4. items'[k] = new /\ \A j \in Keys \ {k} : items'[j] = items[j]
  BY <1>1, <1>3
<1>5. new # {} /\ \A e \in new : e.exp = {}
  OBVIOUS
<1> QED
  BY <1>1, <1>4, <1>5 DEF Stored, Grows, LoaderInv, KeptInv

LEMMA ContextStores ==
    ASSUME LoaderInv, backend = "context", NEW k \in Keys, NEW v, ContextAdd(k, v, 0)
    PROVE  Stored(k)
<1> DEFINE new == {[ver |-> v, exp |-> {}]}
<1>1. items' = [items EXCEPT ![k] = new]
  BY DEF ContextAdd
<1>2. items'[k] = new /\ \A j \in Keys \ {k} : items'[j] = items[j]
  BY <1>1 DEF LoaderInv, TypeOK, LCTypeOK
<1>3. new # {} /\ \A e \in new : e.exp = {}
  OBVIOUS
<1> QED
  BY <1>2, <1>3 DEF Stored, Grows, LoaderInv, KeptInv

(***************************************************************************)
(* The steps.                                                              *)
(***************************************************************************)
\* The stages that lead to the removal of an entry.
Removals == {"check", "expired", "expiredAgain", "evictStale", "clearStale"}

LEMMA StepKept ==
    ASSUME LoaderInv, UNCHANGED backend,
           UNCHANGED items \/ \E k \in Keys : Stored(k),
           \A p \in Procs : pc'[p] \notin Removals,
           \A p \in Procs : call'[p].ttl = 0 /\ ~call'[p].skipNotFound
    PROVE  KeptInv' /\ Grows
BY DEF LoaderInv, KeptInv, Removals, Stored, Grows

\* One caller moves; the others are bystanders.
LEMMA OneMoves ==
    ASSUME LoaderInv, NEW p \in Procs, NEW s, Goto(p, s),
           UNCHANGED chan \/ \E c \in Nat : chan' = [chan EXCEPT ![p] = c],
           UNCHANGED call \/ \E c \in CallType : call' = [call EXCEPT ![p] = c]
    PROVE  pc'[p] = s /\ \A r \in Procs \ {p} : Bystander(r)
BY DEF LoaderInv, TypeOK, ProcTypeOK, Goto, Bystander

\* The step of p that keeps the lock as it is.
LEMMA QuietStep ==
    ASSUME LoaderInv, NEW p \in Procs, NEW s, Goto(p, s), s \notin Removals,
           UNCHANGED <<backend, items, lockVars>>,
           UNCHANGED chan \/ \E c \in Nat : chan' = [chan EXCEPT ![p] = c],
           UNCHANGED call \/ \E c \in CallType : /\ call' = [call EXCEPT ![p] = c]
                                                 /\ c.ttl = 0 /\ ~c.skipNotFound,
           call'[p].key \in Storable => Loading(p)'
    PROVE  KeptInv' /\ LoadingInv'
<1>1. pc'[p] = s /\ \A r \in Procs \ {p} : Bystander(r)
  BY OneMoves
<1>2. \A r \in Procs : pc'[r] \notin Removals
  BY <1>1 DEF Bystander, LoaderInv, KeptInv, Removals
<1>3. \A r \in Procs : call'[r].ttl = 0 /\ ~call'[r].skipNotFound
  BY <1>1 DEF Bystander, LoaderInv, KeptInv, TypeOK, ProcTypeOK
<1>4. KeptInv' /\ Grows
  BY <1>2, <1>3, StepKept
<1>5. ASSUME NEW r \in Procs \ {p}, call'[r].key \in Storable PROVE Loading(r)'
  BY <1>1, <1>4, <1>5, BystanderKept DEF Bystander
<1> QED
  BY <1>4, <1>5 DEF LoadingInv, Storable

LEMMA QueryLoader ==
    ASSUME Undisturbed, LoaderInv, NEW p \in Procs, Query(p)
    PROVE  KeptInv' /\ LoadingInv'
<1>1. PICK k \in Keys, o \in Options : QueryGet(p, k, o) \/ QuerySkip(p, k, o)
  BY DEF Query
<1> DEFINE c == [key |-> k, ref |-> o.ref, ttl |-> EffectiveTTL(o),
                 skipNotFound |-> o.skipNotFound]
<1>2. /\ call' = [call EXCEPT ![p] = c] /\ UNCHANGED chan
      /\ UNCHANGED <<backend, lockVars>>
  BY <1>1 DEF QueryGet, QuerySkip, Issue
<1>3. c \in CallType /\ c.ttl = 0 /\ ~c.skipNotFound
  BY TTLType, DriverAssumption DEF CallType, OptionType, Undisturbed
<1>4. UNCHANGED items /\ \E s \in {"lock", "done", "direct"} : Goto(p, s)
  <2>1. CASE QueryGet(p, k, o)
    <3>1. \A e \in Reachable(p, k) : ~Expired(e)
      BY LookupItems DEF Reachable, LoaderInv, KeptInv, TypeOK, Expired
    <3>2. AfterHit(o) = "done"
      BY DEF AfterHit, Undisturbed
    <3> QED
      BY <2>1, <3>1, <3>2 DEF QueryGet
  <2>2. CASE QuerySkip(p, k, o)
    BY <2>2 DEF QuerySkip, Undisturbed
  <2> QED
    BY <1>1, <2>1, <2>2
<1>5. PICK s \in {"lock", "done", "direct"} : Goto(p, s)
  BY <1>4
<1>6. pc'[p] = s
  BY <1>5 DEF Goto, LoaderInv, TypeOK, ProcTypeOK
<1>7. Loading(p)'
  BY <1>6 DEF Loading
<1> QED
  BY <1>2, <1>3, <1>4, <1>5, <1>7, QuietStep DEF Removals

\* The step of p that ends the round of its key, if one is open.
LEMMA EndStep ==
    ASSUME LoaderInv, NEW p \in Procs, NEW s, Goto(p, s), s \notin Removals,
           UNCHANGED <<backend, call>>,
           UNCHANGED chan \/ \E c \in Nat : chan' = [chan EXCEPT ![p] = c],
           UNCHANGED items \/ \E k \in Keys : Stored(k),
           UNCHANGED lockVars \/ EndsRound(p, call[p].key),
           call[p].key \in Storable => Loading(p)'
    PROVE  KeptInv' /\ LoadingInv'
<1>1. pc'[p] = s /\ \A r \in Procs \ {p} : Bystander(r)
  BY OneMoves
<1>2. \A r \in Procs : pc'[r] \notin Removals
  BY <1>1 DEF Bystander, LoaderInv, KeptInv, Removals
<1>3. \A r \in Procs : call'[r].ttl = 0 /\ ~call'[r].skipNotFound
  BY DEF LoaderInv, KeptInv
<1>4. KeptInv' /\ Grows
  BY <1>2, <1>3, StepKept
<1>5. ASSUME NEW r \in Procs \ {p}, call'[r].key \in Storable PROVE Loading(r)'
  <2>1. call[p].key \in Keys
    BY CallKey DEF LoaderInv
  <2> QED
    BY <1>1, <1>4, <1>5, <2>1, BystanderKept, BystanderEnd DEF Bystander
<1> QED
  BY <1>4, <1>5 DEF LoadingInv, Storable

\* Where nothing disturbs, Get and the look after a wait find what is there.
LEMMA NothingExpires ==
    ASSUME LoaderInv, NEW k \in Keys
    PROVE  \A e \in Lookup(k) : ~Expired(e)
BY LookupItems DEF LoaderInv, KeptInv, TypeOK, Expired

LEMMA StorableFound ==
    ASSUME Undisturbed, LoaderInv, NEW k \in Storable
    PROVE  Lookup(k) = items[k]
<1>1. backend \in {"lru", "context"} /\ k \notin Blank
  BY DEF Undisturbed, LoaderInv, TypeOK, LCTypeOK, Storable
<1> QED
  BY <1>1 DEF Lookup, LruGet, ContextGet

LEMMA LockLoader ==
    ASSUME Undisturbed, LoaderInv, NEW p \in Procs, Lock(p)
    PROVE  KeptInv' /\ LoadingInv'
<1> DEFINE k == call[p].key
<1>k. k \in Keys /\ waits \in [Keys -> Nat] /\ issued \in Nat /\ chan \in [Procs -> Nat]
  BY CallKey DEF LoaderInv, TypeOK, LCTypeOK, ProcTypeOK
<1>l. HasLocker /\ ~NoCache(p)
  BY DEF HasLocker, NoCache, Undisturbed, LoaderInv, TypeOK, LCTypeOK
<1>u. UNCHANGED <<backend, items, call>>
  BY DEF Lock
<1>1. CASE waits[k] # NoChan
  <2>1. /\ Goto(p, "wait") /\ chan' = [chan EXCEPT ![p] = waits[k]] /\ UNCHANGED lockVars
    BY <1>1, <1>l DEF Lock
  <2>2. pc'[p] = "wait" /\ chan'[p] = waits[k] /\ waits[k] \notin closed'
    BY <1>1, <1>k, <2>1 DEF Goto, LoaderInv, TypeOK, ProcTypeOK, RoundInv, lockVars
  <2>3. Loading(p)'
    BY <2>2 DEF Loading
  <2> QED
    BY <1>k, <1>u, <2>1, <2>3, QuietStep DEF Removals
<1>2. CASE waits[k] = NoChan
  <2>1. Goto(p, "load") /\ chan' = [chan EXCEPT ![p] = issued + 1] /\ Register(k)
    BY <1>2, <1>l DEF Lock
  <2>2. pc'[p] = "load" /\ \A r \in Procs \ {p} : Bystander(r)
    <3>1. issued + 1 \in Nat
      BY <1>k
    <3> QED
      BY <1>u, <2>1, <3>1, OneMoves
  <2>3. chan'[p] = issued + 1 /\ waits'[k] = issued + 1 /\ issued + 1 # NoChan
    BY <1>k, <2>1 DEF Register, NoChan
  <2>4. Loading(p)'
    BY <1>u, <2>2, <2>3 DEF Loading
  <2>5. \A r \in Procs : pc'[r] \notin Removals
    BY <2>2 DEF Bystander, LoaderInv, KeptInv, Removals
  <2>6. KeptInv'
    BY <1>u, <2>5, StepKept DEF LoaderInv, KeptInv
  <2>7. ASSUME NEW r \in Procs \ {p}, call'[r].key \in Storable PROVE Loading(r)'
    BY <1>2, <1>k, <1>u, <2>1, <2>2, <2>7, BystanderRegister
  <2> QED
    BY <2>4, <2>6, <2>7 DEF LoadingInv, Storable
<1> QED
  BY <1>1, <1>2

LEMMA WakeLoader ==
    ASSUME Undisturbed, LoaderInv, NEW p \in Procs, Wake(p)
    PROVE  KeptInv' /\ LoadingInv'
<1> DEFINE k == call[p].key
<1>1. pc[p] = "wait" /\ chan[p] \in closed /\ chan' = [chan EXCEPT ![p] = NoChan]
      /\ UNCHANGED <<backend, items, lockVars>> /\ UNCHANGED call
  BY DEF Wake, cacheVars, lockVars
<1>2. k \in Keys /\ \A e \in Lookup(k) : ~Expired(e)
  BY CallKey, NothingExpires DEF LoaderInv
<1>3. PICK s \in {"load", "done"} : Goto(p, s) /\ (s = "load" => Lookup(k) = {})
  BY <1>2 DEF Wake
<1>4. pc'[p] = s
  BY <1>3 DEF Goto, LoaderInv, TypeOK, ProcTypeOK
<1>5. ASSUME k \in Storable PROVE s = "done"
  BY <1>1, <1>3, <1>5, StorableFound DEF LoaderInv, LoadingInv, Loading
<1>6. call'[p].key \in Storable => Loading(p)'
  BY <1>1, <1>4, <1>5 DEF Loading
<1>7. NoChan \in Nat
  BY DEF NoChan
<1> QED
  BY <1>1, <1>3, <1>6, <1>7, QuietStep DEF Removals

\* The end of an Add: its own round is closed if the key is storable, whatever
\* round is registered if it is not.
LEMMA NotifyEnds ==
    ASSUME LoaderInv, NEW p \in Procs, pc[p] \in {"rows", "notify"},
           Notify(call[p].key), call[p].key \in Storable => items'[call[p].key] # {}
    PROVE  UNCHANGED lockVars \/ EndsRound(p, call[p].key)
<1>1. call[p].key \in Storable =>
         p \in Holders /\ chan[p] = waits[call[p].key]
  BY DEF LoaderInv, LoadingInv, Loading, Holders
<1> QED
  BY <1>1 DEF Notify, Close, EndsRound

LEMMA CloseAddLoader ==
    ASSUME Undisturbed, LoaderInv, NEW p \in Procs, CloseAdd(p)
    PROVE  KeptInv' /\ LoadingInv'
<1> DEFINE k == call[p].key
<1>k. k \in Keys /\ call[p].ttl = 0 /\ ~NoCache(p)
  BY CallKey DEF LoaderInv, KeptInv, NoCache, Undisturbed
<1>b. backend \in {"lru", "context"}
  BY DEF Undisturbed, LoaderInv, TypeOK, LCTypeOK
<1>a. AfterAdd(p) \in {"clear", "release"}
  BY DEF AfterAdd
<1>u. pc[p] = "rows" /\ UNCHANGED <<backend, call>> /\ UNCHANGED chan
  BY DEF CloseAdd
<1>1. CASE backend = "lru" /\ k \in Blank
  <2>1. Goto(p, AfterAdd(p)) /\ UNCHANGED items /\ UNCHANGED lockVars
    BY <1>1, <1>k DEF CloseAdd, LruAdd
  <2> QED
    BY <1>1, <1>a, <1>u, <2>1, EndStep DEF Removals, Storable
<1>2. CASE backend = "lru" /\ k \notin Blank
  <2>1. Goto(p, "notify") /\ LruAdd(k, got[p], 0) /\ UNCHANGED lockVars
    BY <1>2, <1>k DEF CloseAdd
  <2>2. k \in Storable
    BY <1>2, <1>k DEF Storable
  <2>3. Stored(k)
    BY <1>2, <2>1, <2>2, LruStores
  <2>4. pc'[p] = "notify" /\ chan[p] # NoChan /\ waits[k] = chan[p]
    BY <1>u, <2>1, <2>2 DEF Goto, LoaderInv, TypeOK, ProcTypeOK, LoadingInv, Loading
  <2>5. Loading(p)'
    BY <1>u, <2>1, <2>3, <2>4 DEF Loading, Stored, lockVars
  <2> QED
    BY <1>k, <1>u, <2>1, <2>3, <2>5, EndStep DEF Removals
<1>3. CASE backend = "context"
  <2>1. Goto(p, AfterAdd(p)) /\ ContextAdd(k, got[p], 0)
    BY <1>3, <1>k DEF CloseAdd
  <2>2. Stored(k)
    BY <1>3, <1>k, <2>1, ContextStores
  <2>3. UNCHANGED lockVars \/ EndsRound(p, k)
    BY <1>u, <2>1, <2>2, NotifyEnds DEF ContextAdd, Stored
  <2>4. pc'[p] = AfterAdd(p)
    BY <2>1 DEF Goto, LoaderInv, TypeOK, ProcTypeOK
  <2>5. Loading(p)'
    BY <1>a, <1>u, <2>2, <2>4 DEF Loading, Stored
  <2> QED
    BY <1>a, <1>k, <1>u, <2>1, <2>2, <2>3, <2>5, EndStep DEF Removals
<1> QED
  BY <1>1, <1>2, <1>3, <1>b

LEMMA NotifyLoader ==
    ASSUME LoaderInv, NEW p \in Procs, NotifyWaiters(p)
    PROVE  KeptInv' /\ LoadingInv'
<1> DEFINE k == call[p].key
<1>1. /\ pc[p] = "notify" /\ Notify(k) /\ Goto(p, AfterAdd(p))
      /\ UNCHANGED <<backend, call>> /\ UNCHANGED chan /\ UNCHANGED items
  BY DEF NotifyWaiters
<1>2. AfterAdd(p) \in {"clear", "release"}
  BY DEF AfterAdd
<1>3. k \in Storable => items'[k] # {}
  BY <1>1 DEF LoaderInv, LoadingInv, Loading
<1>4. UNCHANGED lockVars \/ EndsRound(p, k)
  BY <1>1, <1>3, NotifyEnds
<1>5. pc'[p] = AfterAdd(p)
  BY <1>1 DEF Goto, LoaderInv, TypeOK, ProcTypeOK
<1>6. k \in Storable => Loading(p)'
  BY <1>1, <1>2, <1>3, <1>5 DEF Loading
<1> QED
  BY <1>1, <1>2, <1>4, <1>6, EndStep DEF Removals

LEMMA ReleaseLoader ==
    ASSUME LoaderInv, NEW p \in Procs, ReleaseLock(p)
    PROVE  KeptInv' /\ LoadingInv'
<1> DEFINE k == call[p].key
<1>1. /\ pc[p] = "release" /\ Release(k, chan[p]) /\ chan' = [chan EXCEPT ![p] = NoChan]
      /\ UNCHANGED <<backend, call>> /\ UNCHANGED items
  BY DEF ReleaseLock
<1>2. PICK s \in Quiet : Goto(p, s)
  BY DEF ReleaseLock, Quiet
<1>3. pc'[p] \in Quiet
  BY <1>2 DEF Goto, LoaderInv, TypeOK, ProcTypeOK
<1>4. Loading(p)'
  BY <1>3 DEF Loading, Quiet
<1>5. chan[p] # NoChan => p \in Holders
  BY <1>1 DEF Holders
<1>6. UNCHANGED lockVars \/ EndsRound(p, k)
  BY <1>1, <1>5 DEF Release, Close, EndsRound, LoaderInv, LoadingInv, Loading
<1>7. NoChan \in Nat /\ s \notin Removals
  BY DEF NoChan, Quiet, Removals
<1> QED
  BY <1>1, <1>2, <1>4, <1>6, <1>7, EndStep

LEMMA AdvanceLoader ==
    ASSUME Undisturbed, LoaderInv, NEW p \in Procs, Advance(p) \/ CancelWait(p)
    PROVE  KeptInv' /\ LoadingInv'
<1> DEFINE k == call[p].key
<1>a. AfterAdd(p) \in {"clear", "release"}
  BY DEF AfterAdd
<1>m. ASSUME NEW s, Goto(p, s) PROVE pc'[p] = s
  BY <1>m DEF Goto, LoaderInv, TypeOK, ProcTypeOK
<1>1. CASE Direct(p)
  <2>1. PICK s \in Quiet : Goto(p, s)
    BY <1>1 DEF Direct, Quiet
  <2>2. UNCHANGED <<backend, items, lockVars>> /\ UNCHANGED chan /\ UNCHANGED call
    BY <1>1 DEF Direct, cacheVars, lockVars
  <2>3. Loading(p)'
    BY <1>m, <2>1 DEF Loading, Quiet
  <2> QED
    BY <2>1, <2>2, <2>3, QuietStep DEF Removals, Quiet
<1>2. CASE Load(p)
  <2>1. pc[p] = "load" /\ Goto(p, "rows")
    BY <1>2 DEF Load, Undisturbed
  <2>2. UNCHANGED <<backend, items, lockVars>> /\ UNCHANGED chan /\ UNCHANGED call
    BY <1>2 DEF Load, cacheVars, lockVars
  <2>3. pc'[p] = "rows"
    BY <1>m, <2>1
  <2>4. k \in Storable => Loading(p)'
    BY <2>1, <2>2, <2>3 DEF Loading, LoaderInv, LoadingInv, lockVars
  <2> QED
    BY <2>1, <2>2, <2>4, QuietStep DEF Removals
<1>3. CASE ClearMark(p)
  <2>1. pc[p] = "clear" /\ Goto(p, "release")
    BY <1>3 DEF ClearMark
  <2>2. UNCHANGED <<backend, items, lockVars>> /\ UNCHANGED chan /\ UNCHANGED call
    BY <1>3 DEF ClearMark, cacheVars, lockVars
  <2>3. pc'[p] = "release"
    BY <1>m, <2>1
  <2>4. k \in Storable => Loading(p)'
    BY <2>1, <2>2, <2>3 DEF Loading, LoaderInv, LoadingInv
  <2> QED
    BY <2>1, <2>2, <2>4, QuietStep DEF Removals
<1>4. CASE RemoveExpired(p) \/ CheckChanged(p) \/ EvictStale(p) \/ ClearStale(p)
  BY <1>4 DEF RemoveExpired, CheckChanged, EvictStale, ClearStale, LoaderInv, KeptInv
<1>5. CASE CloseDiscard(p) \/ CloseAddError(p) \/ CancelWait(p)
  BY <1>5 DEF CloseDiscard, CloseAddError, CancelWait, Undisturbed, LoaderInv, KeptInv
<1> QED
  BY <1>1, <1>2, <1>3, <1>4, <1>5, LockLoader, WakeLoader, CloseAddLoader, NotifyLoader,
     ReleaseLoader DEF Advance

LEMMA StepLoader ==
    ASSUME Undisturbed, LoaderInv, [Next]_vars
    PROVE  LoaderInv'
<1>1. TypeOK' /\ RoundInv'
  BY StepType, StepRound DEF LoaderInv
<1>2. ASSUME UNCHANGED cacheVars, UNCHANGED procVars PROVE KeptInv' /\ LoadingInv'
  BY <1>2 DEF LoaderInv, KeptInv, LoadingInv, Loading, cacheVars, procVars, lockVars
<1>3. ASSUME NEW p \in Procs, Query(p) \/ Advance(p) \/ CancelWait(p)
      PROVE  KeptInv' /\ LoadingInv'
  BY <1>3, QueryLoader, AdvanceLoader
<1>4. ASSUME NEW w \in Writers, Mutator(w) PROVE KeptInv' /\ LoadingInv'
  BY <1>2, <1>4 DEF Mutator, Mutate, MutateFails, StampMark, ApplyMark, ReturnUnmarked,
                    Return, CommitTx
<1>5. ASSUME Pass \/ Collect \/ UNCHANGED vars PROVE KeptInv' /\ LoadingInv'
  BY <1>2, <1>5 DEF Pass, Collect, vars
<1>6. KeptInv' /\ LoadingInv'
  BY <1>3, <1>4, <1>5 DEF Next, Rested
<1> QED
  BY <1>1, <1>6 DEF LoaderInv

\* With the LRU (with room for all storable keys) or contextcache in front of a
\* database that answers, however queries, waits, loads, Adds and releases of any
\* number of goroutines interleave, LockOrWait lets one caller of a key at a time
\* reach the database, and no fallback after a wait ever adds a second one.
THEOREM OneLoader == ASSUME Undisturbed PROVE Spec => []SingleLoader
<1>1. LoaderInv /\ [Next]_vars => LoaderInv'
  BY StepLoader
<1> QED
  BY <1>1, InitLoader, LoaderSingle, PTL DEF Spec
=============================================================================
