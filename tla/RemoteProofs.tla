---------------------------- MODULE RemoteProofs ----------------------------
(***************************************************************************)
(* Theorems about the distributed stampede lock, for any number of         *)
(* processes, goroutines, queries and mishaps, and every backend.          *)
(***************************************************************************)
EXTENDS RemoteLock, FiniteSetTheorems, TLAPS

(***************************************************************************)
(* Type correctness.                                                       *)
(***************************************************************************)
LEMMA StartStage == Start \in Stages
BY DEF Start, Stages

LEMMA LockRecord ==
    ASSUME NEW p \in Procs, NEW id \in Nat, revision \in Nat
    PROVE  [rev |-> revision + 1, id |-> id, owner |-> p] \in LockType
BY DEF LockType

LEMMA NodeOfType == \A p \in Procs : NodeOf[p] \in Nodes
BY RemoteStoreAssumption

\* The operations on the lock key.
LEMMA PublishType ==
    ASSUME StoreTypeOK, NEW w \in {"gone", "set"}, Publish(w)
    PROVE  event' \in [Procs -> {NoEvent, "gone", "set"}]
BY DEF StoreTypeOK, Publish

LEMMA DropType ==
    ASSUME StoreTypeOK, DropLock
    PROVE  lock' = {} /\ revision' = revision /\ event' \in [Procs -> {NoEvent, "gone", "set"}]
BY PublishType DEF DropLock

\* Each of them leaves a well-formed lock.
LockOK == /\ lock \in SUBSET LockType
          /\ \A l, m \in lock : l = m
          /\ revision \in Nat
          /\ event \in [Procs -> {NoEvent, "gone", "set"}]

LEMMA TakeType ==
    ASSUME StoreTypeOK, NEW p \in Procs, NEW id \in Nat, TakeLock(p, id)
    PROVE  LockOK'
<1>1. /\ lock' = {[rev |-> revision + 1, id |-> id, owner |-> p]}
      /\ revision' = revision + 1
      /\ event' \in [Procs -> {NoEvent, "gone", "set"}]
  BY PublishType DEF TakeLock, StoreTypeOK
<1> QED
  BY <1>1, LockRecord DEF LockOK, StoreTypeOK

LEMMA RemovalType ==
    ASSUME StoreTypeOK, UNCHANGED lockVars \/ DropLock
    PROVE  LockOK'
<1>1. CASE UNCHANGED lockVars
  BY <1>1 DEF LockOK, StoreTypeOK, lockVars
<1>2. CASE DropLock
  BY <1>2, DropType DEF LockOK, StoreTypeOK
<1> QED
  BY <1>1, <1>2

LEMMA RemovalKind ==
    /\ \A rev : PurgeRevision(rev) => UNCHANGED lockVars \/ DropLock
    /\ \A id : DelKey(id) => UNCHANGED lockVars \/ DropLock
    /\ \A p : Unlock(p) => UNCHANGED lockVars \/ DropLock
BY DEF PurgeRevision, DelKey, Unlock

LEMMA UnsubscribeType ==
    ASSUME StoreTypeOK, NEW p \in Procs, Unsubscribe(p)
    PROVE  LockOK' /\ subs' \subseteq Procs
BY DEF StoreTypeOK, LockOK, Unsubscribe

\* The caller's part of the state, but for its hid and mine.
StageOK == pc \in [Procs -> Stages] /\ seen \in [Procs -> SUBSET LockType]

LEMMA LeaveType ==
    ASSUME TypeOK, NEW p \in Procs, NEW s \in Stages, LeaveWait(p, s)
    PROVE  StageOK'
BY DEF TypeOK, CallTypeOK, StageOK, LeaveWait, Goto

LEMMA CountType ==
    ASSUME TypeOK
    PROVE  /\ AsPlanned => mishaps' \in Nat
           /\ \A k : Mishap(k) => mishaps' \in Nat
           /\ \A k : Untimely(k) => mishaps' \in Nat
BY DEF TypeOK, CallTypeOK, AsPlanned, Mishap, Untimely

LEMMA PromptType ==
    /\ TypeOK /\ UNCHANGED prompt => prompt' \in BOOLEAN
    /\ \A k : Untimely(k) => prompt' \in BOOLEAN
BY DEF TypeOK, CallTypeOK, Untimely

LEMMA CallerType ==
    ASSUME TypeOK, NEW p \in Procs,
           \/ Query(p) \/ Direct(p) \/ Keepalive(p) \/ Announce(p) \/ Acquire(p)
           \/ Load(p) \/ Add(p) \/ CreateEntry(p) \/ Release(p)
    PROVE  TypeOK'
<1> USE CountType DEF AsPlanned, Goto, StaleAbsent, callVars, beatVars
<1>1. CASE Query(p) \/ Direct(p)
  <2>1. PICK s \in {"idle", "direct", Start} : pc' = [pc EXCEPT ![p] = s]
    BY <1>1 DEF Query, Direct, TypeOK, CallTypeOK
  <2>2. s \in Stages
    BY <2>1, StartStage DEF Stages
  <2>3. queries' \in Nat /\ mishaps' \in Nat
    BY <1>1 DEF Query, Direct, TypeOK, CallTypeOK
  <2>4. UNCHANGED <<backend, data, lock, revision, event, beats, ids, client, up, subs,
                    late, hid, mine, seen, prompt>>
    BY <1>1 DEF Query, Direct, lockVars
  <2> QED
    BY <2>1, <2>2, <2>3, <2>4 DEF TypeOK, StoreTypeOK, CallTypeOK
<1>2. CASE Keepalive(p)
  BY <1>2, NodeOfType DEF Keepalive, lockVars, TypeOK, StoreTypeOK, CallTypeOK, Stages
<1>3. CASE Announce(p)
  <2>1. prompt' \in BOOLEAN
    BY <1>3, PromptType DEF Announce
  <2>2. beats' \subseteq Nat
    <3>1. beats' \in {beats, beats \cup {ids + 1}}
      BY <1>3 DEF Announce, Name
    <3> QED
      BY <3>1 DEF TypeOK, StoreTypeOK
  <2> QED
    BY <1>3, <2>1, <2>2, NodeOfType DEF Announce, Name, lockVars, TypeOK, StoreTypeOK, CallTypeOK, Stages, Holding
<1>4. CASE Acquire(p)
  BY <1>4, TakeType DEF Acquire, Forget, LockOK, lockVars, TypeOK, StoreTypeOK, CallTypeOK, Stages, Holding, Waiting, NoId
<1>5. CASE Load(p)
  BY <1>5 DEF Load, lockVars, TypeOK, StoreTypeOK, CallTypeOK, Stages, Holding
<1>6. CASE Add(p)
  BY <1>6 DEF Add, lockVars, TypeOK, StoreTypeOK, CallTypeOK, Stages, Holding
<1>7. CASE CreateEntry(p)
  BY <1>7 DEF CreateEntry, lockVars, TypeOK, StoreTypeOK, CallTypeOK, Stages, Holding
<1>8. CASE Release(p)
  <2>1. LockOK'
    BY <1>8, RemovalType, RemovalKind DEF Release, TypeOK
  <2> QED
    BY <1>8, <2>1 DEF Release, Forget, LockOK, TypeOK, StoreTypeOK, CallTypeOK, Stages, NoId
<1> QED
  BY <1>1, <1>2, <1>3, <1>4, <1>5, <1>6, <1>7, <1>8

LEMMA WaiterType ==
    ASSUME TypeOK, NEW p \in Procs,
           \/ Probe(p) \/ Woken(p) \/ Reread(p) \/ Purge(p)
           \/ NatsWait(p) \/ RedisWait(p) \/ QuitWait(p) \/ Activate(p)
    PROVE  TypeOK'
<1> USE CountType, StartStage DEF AsPlanned, Goto, StaleAbsent, beatVars, unread, others
<1>1. CASE Probe(p)
  BY <1>1 DEF Probe, lockVars, TypeOK, StoreTypeOK, CallTypeOK, Stages, Waiting
<1>2. CASE Woken(p) \/ HolderLost(p)
  BY <1>2, UnsubscribeType DEF Woken, HolderLost, LockOK, TypeOK, StoreTypeOK, CallTypeOK, Stages, Waiting
<1>3. CASE Reread(p)
  <2>1. StageOK'
    BY <1>3, LeaveType DEF Reread, Stages
  <2> QED
    BY <1>3, <2>1 DEF Reread, StageOK, lockVars, TypeOK, StoreTypeOK, CallTypeOK
<1>4. CASE Purge(p)
  <2>1. StageOK' /\ LockOK'
    BY <1>4, LeaveType, RemovalType, RemovalKind DEF Purge, TypeOK
  <2> QED
    BY <1>4, <2>1 DEF Purge, StageOK, LockOK, TypeOK, StoreTypeOK, CallTypeOK
<1>5. CASE Peek(p) \/ Recheck(p)
  BY <1>5 DEF Peek, Recheck, lockVars, TypeOK, StoreTypeOK, CallTypeOK, Stages, Waiting
<1>6. CASE Lookup(p)
  BY <1>6 DEF Lookup, lockVars, TypeOK, StoreTypeOK, CallTypeOK, Stages, Waiting
<1>7. CASE Watch(p) \/ Subscribe(p)
  BY <1>7 DEF Watch, Subscribe, TypeOK, StoreTypeOK, CallTypeOK, Stages, Waiting
<1>8. CASE Poll(p)
  BY <1>8 DEF Poll, lockVars, TypeOK, StoreTypeOK, CallTypeOK, Stages, Waiting
<1>9. CASE Compare(p)
  <2>1. StageOK'
    BY <1>9, LeaveType DEF Compare, StageOK, TypeOK, CallTypeOK, Stages, Waiting
  <2> QED
    BY <1>9, <2>1 DEF Compare, StageOK, lockVars, TypeOK, StoreTypeOK, CallTypeOK
<1>10. CASE Check(p)
  BY <1>10, UnsubscribeType DEF Check, LockOK, lockVars, TypeOK, StoreTypeOK, CallTypeOK, Stages, Waiting
<1>11. CASE ChangedHands(p) \/ QuitWait(p)
  <2>1. StageOK' /\ LockOK' /\ subs' \subseteq Procs
    BY <1>11, LeaveType, UnsubscribeType DEF ChangedHands, QuitWait, TypeOK, Stages, Holding
  <2> QED
    BY <1>11, <2>1 DEF ChangedHands, QuitWait, StageOK, LockOK, TypeOK, StoreTypeOK, CallTypeOK
<1>12. CASE Activate(p)
  BY <1>12 DEF Activate, lockVars, TypeOK, StoreTypeOK, CallTypeOK
<1> QED
  BY <1>1, <1>2, <1>3, <1>4, <1>5, <1>6, <1>7, <1>8, <1>9, <1>10, <1>11, <1>12
     DEF NatsWait, RedisWait

LEMMA ServerType ==
    ASSUME TypeOK,
           \/ \E id \in beats : ExpireBeat(id)
           \/ \E n \in Nodes : Refresh(n) \/ Crash(n) \/ Close(n) \/ Restart(n)
           \/ DataGone \/ LockExpires
    PROVE  TypeOK'
<1> USE CountType DEF AsPlanned, callVars, beatVars
<1>1. ASSUME NEW id \in beats, ExpireBeat(id) PROVE TypeOK'
  <2>1. prompt' \in BOOLEAN
    BY <1>1, PromptType DEF ExpireBeat
  <2> QED
    BY <1>1, <2>1 DEF ExpireBeat, lockVars, TypeOK, StoreTypeOK, CallTypeOK
<1>2. ASSUME NEW n \in Nodes, Refresh(n) \/ Restart(n) PROVE TypeOK'
  <2>1. CASE Refresh(n)
    <3>1. beats' \subseteq Nat
      BY <2>1 DEF Refresh, TypeOK, StoreTypeOK
    <3> QED
      BY <2>1, <3>1 DEF Refresh, lockVars, TypeOK, StoreTypeOK, CallTypeOK
  <2>2. CASE Restart(n)
    BY <2>2 DEF Restart, lockVars, TypeOK, StoreTypeOK, CallTypeOK
  <2> QED
    BY <1>2, <2>1, <2>2
<1>3. ASSUME NEW n \in Nodes, Crash(n) \/ Close(n) PROVE TypeOK'
  <2>1. GoDown(n) /\ beats' \subseteq beats
    BY <1>3 DEF Crash, Close
  <2> QED
    BY <2>1 DEF GoDown, NoId, NoEvent, TypeOK, StoreTypeOK, CallTypeOK, Stages
<1>4. CASE DataGone
  BY <1>4 DEF DataGone, lockVars, TypeOK, StoreTypeOK, CallTypeOK
<1>5. CASE LockExpires
  <2>1. prompt' \in BOOLEAN
    BY <1>5, PromptType DEF LockExpires
  <2> QED
    BY <1>5, <2>1, DropType DEF LockExpires, TypeOK, StoreTypeOK, CallTypeOK
<1> QED
  BY <1>1, <1>2, <1>3, <1>4, <1>5

LEMMA StutterType == TypeOK /\ UNCHANGED vars => TypeOK'
BY DEF vars, callVars, beatVars, lockVars, TypeOK, StoreTypeOK, CallTypeOK

LEMMA InitType == Init => TypeOK
<1>1. Init => StoreTypeOK
  <2>1. Init => up \in [Nodes -> BOOLEAN]
    BY DEF Init, StoreInit
  <2>2. Init => data \in BOOLEAN
    BY DEF Init, StoreInit
  <2> QED
    BY <2>1, <2>2 DEF Init, StoreInit, StoreTypeOK, NoId, NoEvent
<1>2. Init => CallTypeOK
  BY DEF Init, CallInit, CallTypeOK, Stages, NoId
<1> QED
  BY <1>1, <1>2 DEF TypeOK

LEMMA TypeStep == TypeOK /\ [Next]_vars => TypeOK'
BY CallerType, WaiterType, ServerType, StutterType DEF Next, Step

\* Every variable of the distributed lock keeps its type.
THEOREM RemoteTypeCorrect == Spec => []TypeOK
BY InitType, TypeStep, PTL DEF Spec

(***************************************************************************)
(* Who owns what, whether or not anything was prompt.                      *)
(***************************************************************************)
\* p relies on the id in hid[p].
Named(p) == pc[p] = "acquire" \/ mine[p] # 0

\* The calls of a process that is down are gone; an id a caller relies on is
\* that of its process.
OwnCalls ==
    /\ \A p \in Procs : mine[p] # 0 => pc[p] \in Holding /\ mine[p] <= revision
    /\ \A p \in Procs : pc[p] # "idle" => up[NodeOf[p]]
    /\ \A p \in Procs : Named(p) => hid[p] # NoId /\ hid[p] <= ids
    /\ \A p \in Procs : Named(p) /\ backend # "nats" => client[NodeOf[p]] = hid[p]

\* No two processes have the same id.
OwnIds ==
    /\ \A n, m \in Nodes : client[n] # NoId /\ client[n] = client[m] => n = m
    /\ \A n \in Nodes : client[n] <= ids
    /\ \A id \in beats : id <= ids

\* The lock's revision is its owner's alone, its Redis id that of its process.
OwnLock ==
    \A l \in lock :
       /\ l.rev # 0 /\ l.rev <= revision /\ l.id <= ids /\ l.id # NoId
       /\ backend # "nats" =>
             \A n \in Nodes : client[n] = l.id => NodeOf[l.owner] = n
       /\ \A p \in Procs : mine[p] = l.rev => l.owner = p

\* A waiter waits on one record, which its revision identifies.
OwnSeen ==
    \A p \in Procs : \A l \in seen[p] :
       /\ l.rev <= revision /\ l.id <= ids
       /\ \A m \in seen[p] : l = m
       /\ \A m \in lock : l.rev = m.rev => l = m

Ownership == OwnCalls /\ OwnIds /\ OwnLock /\ OwnSeen

\* As long as everybody is prompt: a holder's own record is on the server,
\* under the heartbeat of its running process, and the id a purge relies on is
\* gone for good.
HolderInv ==
    /\ \A p \in Procs : mine[p] # 0 =>
          lock = {[rev |-> mine[p], id |-> hid[p], owner |-> p]}
    /\ \A p \in Procs : Named(p) => client[NodeOf[p]] = hid[p]
    /\ \A n \in Nodes : client[n] # NoId => up[n] /\ client[n] \in beats
    /\ \A p \in Procs : pc[p] = "purge" => \A l \in seen[p] : l.id \notin beats

(***************************************************************************)
(* The kinds of step.                                                      *)
(***************************************************************************)
serverVars == <<backend, lock, revision, beats, ids, client, up, prompt>>

\* p goes on without touching the lock or any id, and forgets at most what it
\* does not rely on.
Moves(p) ==
    /\ UNCHANGED <<serverVars, mine>>
    /\ up[NodeOf[p]]
    /\ \E s \in Stages \ {"acquire"} :
          /\ pc' = [pc EXCEPT ![p] = s]
          /\ mine[p] # 0 => s \in Holding
          /\ s = "purge" => seen' = seen /\ \A l \in seen[p] : l.id \notin beats
    /\ \E r \in {seen[p], lock, {}} : seen' = [seen EXCEPT ![p] = r]
    /\ \E i \in {hid[p], NoId} :
          hid' = [hid EXCEPT ![p] = i] /\ (mine[p] # 0 => i = hid[p])

\* p learns the id of its process, makes one, or uses one that is not there.
Learns(p) ==
    /\ UNCHANGED <<backend, lock, revision, up, mine, seen>>
    /\ pc[p] \in {"keep", "announce"}
    /\ pc' = [pc EXCEPT ![p] = "acquire"]
    /\ hid' = [hid EXCEPT ![p] = hid'[p]]
    /\ \/ /\ UNCHANGED <<beatVars, prompt>>
          /\ client[NodeOf[p]] # NoId /\ hid'[p] = client[NodeOf[p]]
       \/ /\ client[NodeOf[p]] = NoId
          /\ Name(NodeOf[p], ids + 1)
          /\ hid'[p] = ids + 1
          /\ UNCHANGED prompt
       \/ /\ backend = "nats" /\ prompt' = FALSE
          /\ ids' = ids + 1 /\ hid'[p] = ids + 1
          /\ UNCHANGED <<beats, client>>

\* p takes the lock, and may not get to know.
Takes(p) ==
    /\ UNCHANGED <<backend, beatVars, up, seen, prompt>>
    /\ pc[p] = "acquire" /\ lock = {}
    /\ pc' = [pc EXCEPT ![p] = "load"]
    /\ lock' = {[rev |-> revision + 1, id |-> hid[p], owner |-> p]}
    /\ revision' = revision + 1
    /\ \/ mine' = [mine EXCEPT ![p] = revision + 1] /\ hid' = hid
       \/ mine' = mine /\ hid' = [hid EXCEPT ![p] = NoId]

\* p gives its lock back.
Releases(p) ==
    /\ UNCHANGED <<backend, revision, beatVars, up, seen, prompt>>
    /\ pc[p] = "release"
    /\ pc' = [pc EXCEPT ![p] = "idle"]
    /\ mine' = [mine EXCEPT ![p] = 0]
    /\ hid' = [hid EXCEPT ![p] = NoId]
    /\ \/ lock' = lock
       \/ /\ lock' = {} /\ mine[p] # 0
          /\ \E l \in lock : IF backend = "nats" THEN l.rev = mine[p] ELSE l.id = hid[p]

\* p removes the lock it has waited for.
Purges(p) ==
    /\ UNCHANGED <<backend, revision, beatVars, up, mine, hid, prompt>>
    /\ pc[p] = "purge"
    /\ pc' = [pc EXCEPT ![p] = Start]
    /\ seen' = [seen EXCEPT ![p] = {}]
    /\ \/ lock' = lock
       \/ /\ lock' = {}
          /\ \E l \in lock, s \in seen[p] :
                IF backend = "nats" THEN l.rev = s.rev ELSE l.id = s.id

\* The lock, the entry or a heartbeat expires, or a heartbeat comes back.
Expires ==
    /\ UNCHANGED <<backend, revision, ids, client, up, pc, mine, hid, seen>>
    /\ \/ lock' = lock /\ UNCHANGED beats /\ UNCHANGED prompt
       \/ /\ lock' = {} /\ UNCHANGED beats
          /\ prompt' = FALSE \/ (UNCHANGED prompt /\ \E l \in lock : mine[l.owner] # l.rev)
       \/ /\ lock' = lock
          /\ \E id \in beats : beats' = beats \ {id} /\
                (prompt' = FALSE \/ (UNCHANGED prompt /\ ~Refreshed(id)))
       \/ /\ lock' = lock /\ UNCHANGED prompt
          /\ \E n \in Nodes : client[n] \notin beats /\ client[n] # NoId
                              /\ beats' = beats \cup {client[n]}

\* Process n goes down or comes up.
Switches(n) ==
    /\ UNCHANGED <<backend, lock, revision, ids, prompt>>
    /\ \/ GoDown(n) /\ beats' \in {beats, beats \ {client[n]}}
       \/ up' = [up EXCEPT ![n] = TRUE] /\ UNCHANGED <<beats, client, pc, mine, hid, seen>>

LockStep == \/ \E p \in Procs : \/ Moves(p) \/ Learns(p) \/ Takes(p) \/ Releases(p)
                                \/ Purges(p)
            \/ Expires
            \/ \E n \in Nodes : Switches(n)

LEMMA UnsubscribeKeepsLock == \A p : Unsubscribe(p) => lock' = lock /\ revision' = revision
BY DEF Unsubscribe

LEMMA UntimelyPrompt == \A k : Untimely(k) => prompt' = FALSE
BY DEF Untimely

LEMMA StartMoves == Start \in Stages \ {"acquire"} /\ Start # "purge" /\ Start # "idle"
BY DEF Start, Stages

LEMMA DropKeepsRevision == DropLock => lock' = {} /\ revision' = revision
BY DEF DropLock

\* The calls of a query up to its lock.
LEMMA CallerKind ==
    ASSUME TypeOK, Ownership, NEW p \in Procs,
           Query(p) \/ Direct(p) \/ Keepalive(p) \/ Announce(p) \/ Acquire(p)
    PROVE  Moves(p) \/ Learns(p) \/ Takes(p)
<1>0. /\ pc[p] \notin Holding => mine[p] = 0
      /\ pc[p] # "idle" => up[NodeOf[p]]
      /\ pc \in [Procs -> Stages] /\ hid \in [Procs -> Nat] /\ seen = [seen EXCEPT ![p] = seen[p]]
      /\ hid = [hid EXCEPT ![p] = hid[p]] /\ pc = [pc EXCEPT ![p] = pc[p]]
  BY DEF Ownership, OwnCalls, OwnSeen, TypeOK, CallTypeOK
<1> USE DEF Goto, serverVars, callVars, lockVars, beatVars
<1>1. CASE Query(p) \/ Direct(p)
  <2>1. PICK s \in {"idle", "direct", Start} : pc' = [pc EXCEPT ![p] = s]
    BY <1>0, <1>1 DEF Query, Direct
  <2>2. s \in Stages \ {"acquire"} /\ s # "purge"
    BY <2>1, StartMoves DEF Stages
  <2>3. UNCHANGED <<serverVars, mine, seen, hid>> /\ up[NodeOf[p]] /\ mine[p] = 0
    BY <1>0, <1>1 DEF Query, Direct, Holding
  <2> HIDE DEF serverVars
  <2> QED
    BY <1>0, <2>1, <2>2, <2>3 DEF Moves
<1>2. CASE Keepalive(p)
  <2>1. CASE client[NodeOf[p]] = NoId
    BY <1>0, <1>2, <2>1 DEF Keepalive, Moves, Stages, Holding
  <2>2. CASE client[NodeOf[p]] # NoId
    BY <1>0, <1>2, <2>2 DEF Keepalive, Learns
  <2> QED
    BY <2>1, <2>2
<1>3. CASE Announce(p)
  <2>1. CASE /\ pc' = [pc EXCEPT ![p] = "load"]
             /\ UNCHANGED <<hid, beatVars, prompt>>
    <3>1. /\ UNCHANGED <<backend, lock, revision, up, mine, seen>>
          /\ pc[p] = "announce" /\ mine[p] = 0
      BY <1>0, <1>3 DEF Announce, Holding
    <3>2. UNCHANGED <<serverVars, mine>> /\ hid' = [hid EXCEPT ![p] = hid[p]]
      BY <1>0, <2>1, <3>1
    <3>3. "load" \in Stages \ {"acquire"} /\ "load" \in Holding /\ up[NodeOf[p]]
      BY <1>0, <3>1 DEF Stages, Holding
    <3> HIDE DEF serverVars
    <3> QED
      BY <1>0, <2>1, <3>1, <3>2, <3>3 DEF Moves
  <2>2. CASE /\ pc' = [pc EXCEPT ![p] = "acquire"]
             /\ \/ /\ client[NodeOf[p]] = NoId
                   /\ Name(NodeOf[p], ids + 1)
                   /\ hid' = [hid EXCEPT ![p] = ids + 1]
                   /\ UNCHANGED prompt
                \/ /\ client[NodeOf[p]] # NoId
                   /\ hid' = [hid EXCEPT ![p] = client[NodeOf[p]]]
                   /\ UNCHANGED <<beatVars, prompt>>
                \/ /\ backend = "nats" /\ prompt' = FALSE
                   /\ ids' = ids + 1
                   /\ hid' = [hid EXCEPT ![p] = ids + 1]
                   /\ UNCHANGED <<beats, client>>
    BY <1>0, <1>3, <2>2 DEF Announce, Learns
  <2> QED
    BY <1>3, <2>1, <2>2, UntimelyPrompt DEF Announce
<1>4. CASE Acquire(p)
  <2>1. CASE TakeLock(p, hid[p])
    BY <1>0, <1>4, <2>1 DEF Acquire, Takes, TakeLock, Forget
  <2>2. CASE UNCHANGED lockVars
    <3>1. UNCHANGED <<serverVars, mine>> /\ hid' = [hid EXCEPT ![p] = NoId] /\ mine[p] = 0 /\ pc[p] = "acquire"
      BY <1>0, <1>4, <2>2 DEF Acquire, TakeLock, Forget, Holding, TypeOK, StoreTypeOK
    <3>2. \E s \in {"recheck", "subscribe", "poll", "load"} : pc' = [pc EXCEPT ![p] = s]
      BY <1>4, <2>2, <3>1 DEF Acquire
    <3>3. \E r \in {seen[p], lock, {}} : seen' = [seen EXCEPT ![p] = r]
      BY <1>0, <1>4, <2>2 DEF Acquire
    <3> QED
      BY <1>0, <3>1, <3>2, <3>3 DEF Moves, Stages, Holding, Waiting
  <2> QED
    BY <1>4, <2>1, <2>2 DEF Acquire
<1> QED
  BY <1>1, <1>2, <1>3, <1>4

\* The calls of a query that loads.
LEMMA LoaderKind ==
    ASSUME TypeOK, Ownership, NEW p \in Procs,
           Load(p) \/ Add(p) \/ CreateEntry(p) \/ Release(p)
    PROVE  Moves(p) \/ Releases(p)
<1>0. /\ pc[p] # "idle" => up[NodeOf[p]]
      /\ seen = [seen EXCEPT ![p] = seen[p]] /\ hid = [hid EXCEPT ![p] = hid[p]]
  BY DEF Ownership, OwnCalls, OwnSeen, TypeOK, CallTypeOK
<1> USE DEF Goto, serverVars, callVars, lockVars, beatVars
<1>1. CASE Load(p) \/ Add(p) \/ CreateEntry(p)
  <2>1. PICK s \in {"add", "create", "release"} : pc' = [pc EXCEPT ![p] = s]
    BY <1>1 DEF Load, Add, CreateEntry
  <2> QED
    BY <1>0, <1>1, <2>1 DEF Load, Add, CreateEntry, Moves, Stages, Holding
<1>2. CASE Release(p)
  BY <1>2 DEF Release, Forget, Releases, Unlock, PurgeRevision, DelKey, DropLock
<1> QED
  BY <1>1, <1>2

\* The calls of a query that waits.
LEMMA WaiterKind ==
    ASSUME TypeOK, Ownership, NEW p \in Procs,
           \/ Probe(p) \/ Woken(p) \/ Reread(p) \/ Purge(p)
           \/ NatsWait(p) \/ RedisWait(p) \/ QuitWait(p) \/ Activate(p)
    PROVE  Moves(p) \/ Purges(p)
<1> USE DEF Goto, serverVars, callVars, lockVars, beatVars, others, unread, LeaveWait
<1>0. ASSUME pc[p] \in {"peek"} \cup Waiting, UNCHANGED <<serverVars, mine, hid>>,
             NEW s \in Stages \ {"acquire"}, pc' = [pc EXCEPT ![p] = s],
             s = "purge" => seen' = seen /\ \A l \in seen[p] : l.id \notin beats,
             \E r \in {seen[p], lock, {}} : seen' = [seen EXCEPT ![p] = r]
      PROVE  Moves(p)
  <2>1. mine[p] = 0 /\ up[NodeOf[p]] /\ hid = [hid EXCEPT ![p] = hid[p]]
    BY <1>0 DEF Ownership, OwnCalls, OwnSeen, Holding, Waiting, TypeOK, CallTypeOK
  <2> QED
    BY <1>0, <2>1 DEF Moves
<1>1. seen = [seen EXCEPT ![p] = seen[p]] /\ pc = [pc EXCEPT ![p] = pc[p]] /\ pc[p] \in Stages
  BY DEF TypeOK, CallTypeOK
<1>2. CASE Probe(p)
  <2>1. PICK s \in {"purge", "watch", "poll"} :
           /\ pc' = [pc EXCEPT ![p] = s]
           /\ s = "purge" => \E l \in seen[p] : l.id \notin beats
    BY <1>2 DEF Probe
  <2>2. s = "purge" => \A l \in seen[p] : l.id \notin beats
    BY <2>1 DEF Ownership, OwnCalls, OwnSeen
  <2> QED
    BY <1>0, <1>1, <1>2, <2>1, <2>2 DEF Probe, Stages, Waiting
<1>3. CASE Woken(p)
  BY <1>0, <1>1, <1>3, UnsubscribeKeepsLock DEF Woken, Stages, Waiting
<1>4. CASE HolderLost(p)
  <2>1. \A l \in seen[p] : l.id \notin beats
    BY <1>4 DEF HolderLost, Ownership, OwnCalls, OwnSeen
  <2> QED
    BY <1>0, <1>1, <1>4, <2>1, UnsubscribeKeepsLock DEF HolderLost, Stages, Waiting
<1>5. CASE Reread(p)
  <2>1. PICK s \in {"idle", Start} : pc' = [pc EXCEPT ![p] = s]
    BY <1>5 DEF Reread
  <2> QED
    BY <1>0, <1>1, <1>5, <2>1, StartMoves DEF Reread, Stages, Waiting
<1>6. CASE Purge(p)
  BY <1>6 DEF Purge, Purges, PurgeRevision, DelKey, DropLock
<1>7. CASE Peek(p) \/ Recheck(p)
  <2>1. PICK s \in {"idle", "keep", "lookup"} : pc' = [pc EXCEPT ![p] = s]
    BY <1>7 DEF Peek, Recheck
  <2> QED
    BY <1>0, <1>1, <1>7, <2>1 DEF Peek, Recheck, Stages, Waiting
<1>8. CASE Lookup(p)
  <2>1. PICK s \in {"peek", "probe"} : pc' = [pc EXCEPT ![p] = s]
    BY <1>8 DEF Lookup
  <2> QED
    BY <1>0, <1>1, <1>8, <2>1 DEF Lookup, Stages, Waiting
<1>9. CASE Watch(p) \/ Subscribe(p)
  <2>1. PICK s \in {"listen", "check"} : pc' = [pc EXCEPT ![p] = s]
    BY <1>9 DEF Watch, Subscribe
  <2> QED
    BY <1>0, <1>1, <1>9, <2>1 DEF Watch, Subscribe, Stages, Waiting
<1>10. CASE Poll(p)
  <2>1. PICK s \in {"reread", "compare"} : pc' = [pc EXCEPT ![p] = s]
    BY <1>10 DEF Poll
  <2> QED
    BY <1>0, <1>1, <1>10, <2>1 DEF Poll, Stages, Waiting
<1>11. CASE Compare(p)
  <2>1. PICK s \in {Start, "probe"} : pc' = [pc EXCEPT ![p] = s]
    BY <1>11 DEF Compare
  <2> QED
    BY <1>0, <1>1, <1>11, <2>1, StartMoves DEF Compare, Stages, Waiting
<1>12. CASE Check(p)
  <2>1. PICK s \in {"reread", "listen"} : pc' = [pc EXCEPT ![p] = s]
    BY <1>12 DEF Check
  <2> QED
    BY <1>0, <1>1, <1>12, <2>1, UnsubscribeKeepsLock DEF Check, Stages, Waiting
<1>13. CASE ChangedHands(p)
  BY <1>0, <1>1, <1>13, StartMoves, UnsubscribeKeepsLock DEF ChangedHands, Waiting
<1>14. CASE QuitWait(p)
  BY <1>0, <1>1, <1>14, UnsubscribeKeepsLock DEF QuitWait, Stages, Waiting, Holding
<1>15. CASE Activate(p)
  BY <1>0, <1>1, <1>15 DEF Activate, Waiting
<1> QED
  BY <1>2, <1>3, <1>4, <1>5, <1>6, <1>7, <1>8, <1>9, <1>10, <1>11, <1>12, <1>13, <1>14, <1>15
     DEF NatsWait, RedisWait

LEMMA ServerKind ==
    ASSUME TypeOK,
           \/ \E id \in beats : ExpireBeat(id)
           \/ \E n \in Nodes : Refresh(n) \/ Crash(n) \/ Close(n) \/ Restart(n)
           \/ DataGone \/ LockExpires
    PROVE  LockStep
<1> USE DEF callVars, lockVars, beatVars
<1>1. ASSUME NEW id \in beats, ExpireBeat(id) PROVE Expires
  BY <1>1, UntimelyPrompt DEF ExpireBeat, Expires
<1>2. ASSUME NEW n \in Nodes, Refresh(n) PROVE Expires
  BY <1>2 DEF Refresh, Expires
<1>3. ASSUME NEW n \in Nodes, Crash(n) \/ Close(n) PROVE Switches(n)
  BY <1>3 DEF Crash, Close, GoDown, Switches
<1>4. ASSUME NEW n \in Nodes, Restart(n) PROVE Switches(n)
  BY <1>4 DEF Restart, Switches
<1>5. CASE DataGone
  BY <1>5 DEF DataGone, Expires, LockStep
<1>6. CASE LockExpires
  BY <1>6, UntimelyPrompt, DropKeepsRevision DEF LockExpires, Expires, LockStep
<1> QED
  BY <1>1, <1>2, <1>3, <1>4, <1>5, <1>6 DEF LockStep

LEMMA KindOfStep == TypeOK /\ Ownership /\ Next => LockStep
<1> SUFFICES ASSUME TypeOK, Ownership, Next PROVE LockStep
  OBVIOUS
<1>1. ASSUME NEW p \in Procs, Query(p) \/ Step(p) \/ QuitWait(p) \/ Activate(p)
      PROVE  LockStep
  BY <1>1, CallerKind, LoaderKind, WaiterKind DEF Step, LockStep
<1> QED
  BY <1>1, ServerKind DEF Next

(***************************************************************************)
(* Every kind of step keeps Ownership.                                     *)
(***************************************************************************)
LEMMA Records ==
    ASSUME TypeOK
    PROVE  /\ \A l \in lock : l.rev \in Nat /\ l.id \in Nat /\ l.owner \in Procs
           /\ \A p \in Procs : \A l \in seen[p] : l.rev \in Nat /\ l.id \in Nat
           /\ \A l, m \in lock : l = m
           /\ ids \in Nat /\ revision \in Nat
           /\ \A n \in Nodes : client[n] \in Nat
           /\ \A p \in Procs : hid[p] \in Nat /\ mine[p] \in Nat
           /\ \A id \in beats : id \in Nat
BY DEF TypeOK, StoreTypeOK, CallTypeOK, LockType

LEMMA Typed ==
    ASSUME TypeOK
    PROVE  /\ pc \in [Procs -> Stages] /\ hid \in [Procs -> Nat]
           /\ mine \in [Procs -> Nat] /\ seen \in [Procs -> SUBSET LockType]
           /\ client \in [Nodes -> Nat] /\ beats \subseteq Nat
BY DEF TypeOK, StoreTypeOK, CallTypeOK

LEMMA MovesKeeps ==
    ASSUME TypeOK, Ownership, NEW p \in Procs, Moves(p)
    PROVE  Ownership'
<1>1. PICK s \in Stages \ {"acquire"} :
         pc' = [pc EXCEPT ![p] = s] /\ (mine[p] # 0 => s \in Holding)
  BY DEF Moves
<1>2. PICK r \in {seen[p], lock, {}} : seen' = [seen EXCEPT ![p] = r]
  BY DEF Moves
<1>3. PICK i \in {hid[p], NoId} :
         hid' = [hid EXCEPT ![p] = i] /\ (mine[p] # 0 => i = hid[p])
  BY DEF Moves
<1>4. UNCHANGED <<serverVars, mine>> /\ up[NodeOf[p]]
  BY DEF Moves
<1>5. \A q \in Procs : /\ q # p => pc'[q] = pc[q] /\ hid'[q] = hid[q] /\ seen'[q] = seen[q]
                       /\ pc'[p] = s /\ hid'[p] = i /\ seen'[p] = r
  BY <1>1, <1>2, <1>3, Typed
<1>6. OwnCalls'
  BY <1>1, <1>3, <1>4, <1>5 DEF OwnCalls, Ownership, Named, serverVars
<1>7. OwnIds'
  BY <1>4 DEF OwnIds, Ownership, serverVars
<1>8. OwnLock'
  BY <1>4 DEF OwnLock, Ownership, serverVars
<1>9. OwnSeen'
  BY <1>2, <1>4, <1>5, Records DEF OwnSeen, OwnLock, Ownership, serverVars
<1> QED
  BY <1>6, <1>7, <1>8, <1>9 DEF Ownership

LEMMA LearnsKeeps ==
    ASSUME TypeOK, Ownership, NEW p \in Procs, Learns(p)
    PROVE  Ownership'
<1>1. /\ pc' = [pc EXCEPT ![p] = "acquire"] /\ hid' = [hid EXCEPT ![p] = hid'[p]]
      /\ UNCHANGED <<backend, lock, revision, up, mine, seen>>
      /\ pc[p] \in {"keep", "announce"}
  BY DEF Learns
<1>2. /\ \A q \in Procs : q # p => pc'[q] = pc[q] /\ hid'[q] = hid[q]
      /\ pc'[p] = "acquire"
  BY <1>1, Typed
<1>3. mine[p] = 0 /\ up[NodeOf[p]]
  BY <1>1 DEF Ownership, OwnCalls, Holding
<1>4. CASE /\ ids' = ids /\ beats' = beats /\ client' = client
           /\ client[NodeOf[p]] # NoId /\ hid'[p] = client[NodeOf[p]]
  <2>1. OwnCalls'
    BY <1>1, <1>2, <1>3, <1>4, NodeOfType DEF OwnCalls, OwnIds, Ownership, Named, Holding
  <2> QED
    BY <1>1, <1>4, <2>1 DEF OwnIds, OwnLock, OwnSeen, Ownership
<1>5. CASE /\ client[NodeOf[p]] = NoId /\ Name(NodeOf[p], ids + 1) /\ hid'[p] = ids + 1
  <2>1. /\ \A m \in Nodes : client'[m] = IF m = NodeOf[p] THEN ids + 1 ELSE client[m]
        /\ ids' = ids + 1 /\ beats' = beats \cup {ids + 1}
    BY <1>5, Typed DEF Name
  <2>2. OwnCalls'
    BY <1>1, <1>2, <1>3, <1>5, <2>1, NodeOfType, Records
       DEF OwnCalls, OwnIds, Ownership, Named, Holding, NoId
  <2>3. OwnIds'
    BY <2>1, Records DEF OwnIds, Ownership
  <2>4. OwnLock'
    BY <1>1, <2>1, Records DEF OwnLock, OwnIds, Ownership
  <2>5. OwnSeen'
    BY <1>1, <2>1, Records DEF OwnSeen, Ownership
  <2> QED
    BY <2>2, <2>3, <2>4, <2>5 DEF Ownership
<1>6. CASE /\ backend = "nats" /\ ids' = ids + 1 /\ hid'[p] = ids + 1
           /\ beats' = beats /\ client' = client
  <2>1. OwnCalls'
    BY <1>1, <1>2, <1>3, <1>6, Records DEF OwnCalls, Ownership, Named, Holding, NoId
  <2>2. OwnIds' /\ OwnLock' /\ OwnSeen'
    BY <1>1, <1>6, Records DEF OwnIds, OwnLock, OwnSeen, Ownership
  <2> QED
    BY <2>1, <2>2 DEF Ownership
<1> QED
  BY <1>4, <1>5, <1>6 DEF Learns, beatVars

LEMMA TakesKeeps ==
    ASSUME TypeOK, Ownership, NEW p \in Procs, Takes(p)
    PROVE  Ownership'
<1>1. /\ UNCHANGED <<backend, ids, beats, client, up, seen>> /\ pc[p] = "acquire"
      /\ pc' = [pc EXCEPT ![p] = "load"] /\ revision' = revision + 1
  BY DEF Takes, beatVars
<1>2. PICK l \in {[rev |-> revision + 1, id |-> hid[p], owner |-> p]} :
         lock' = {l} /\ l.rev = revision + 1 /\ l.id = hid[p] /\ l.owner = p
  BY DEF Takes
<1>3. mine[p] = 0 /\ Named(p) /\ up[NodeOf[p]]
  BY <1>1 DEF Ownership, OwnCalls, Holding, Named
<1>4. \A q \in Procs : q # p => pc'[q] = pc[q] /\ hid'[q] = hid[q] /\ mine'[q] = mine[q]
  BY <1>1, Typed DEF Takes
<1>5. pc'[p] = "load" /\ ((mine'[p] = revision + 1 /\ hid'[p] = hid[p]) \/ mine'[p] = 0)
  BY <1>1, <1>3, Typed DEF Takes
<1>6. OwnCalls'
  BY <1>1, <1>3, <1>4, <1>5, Records DEF OwnCalls, Ownership, Named, Holding
<1>7. OwnIds'
  BY <1>1 DEF OwnIds, Ownership
<1>8. OwnLock'
  <2>1. \A q \in Procs : mine'[q] = revision + 1 => q = p
    BY <1>4, Records DEF OwnCalls, Ownership
  <2>2. l.id <= ids /\ l.id # NoId
    BY <1>2, <1>3 DEF OwnCalls, Ownership
  <2>3. backend # "nats" => \A n \in Nodes : client[n] = l.id => NodeOf[p] = n
    BY <1>2, <1>3, <2>2, NodeOfType DEF OwnCalls, OwnIds, Ownership
  <2> QED
    BY <1>1, <1>2, <2>1, <2>2, <2>3, Records DEF OwnLock
<1>9. OwnSeen'
  BY <1>1, <1>2, Records DEF OwnSeen, Ownership
<1> QED
  BY <1>6, <1>7, <1>8, <1>9 DEF Ownership

LEMMA ReleasesKeeps ==
    ASSUME TypeOK, Ownership, NEW p \in Procs, Releases(p)
    PROVE  Ownership'
<1>1. /\ UNCHANGED <<backend, revision, ids, beats, client, up, seen>>
      /\ pc' = [pc EXCEPT ![p] = "idle"] /\ mine' = [mine EXCEPT ![p] = 0]
      /\ hid' = [hid EXCEPT ![p] = NoId]
      /\ lock' = lock \/ lock' = {}
  BY DEF Releases, beatVars
<1>2. \A q \in Procs : /\ q # p => pc'[q] = pc[q] /\ hid'[q] = hid[q] /\ mine'[q] = mine[q]
                       /\ pc'[p] = "idle" /\ mine'[p] = 0
  BY <1>1, Typed
<1>3. OwnCalls'
  BY <1>1, <1>2 DEF OwnCalls, Ownership, Named
<1>4. OwnIds' /\ OwnSeen'
  BY <1>1 DEF OwnIds, OwnSeen, Ownership
<1>5. OwnLock'
  <2>1. \A q \in Procs : mine'[q] = mine[q] \/ mine'[q] = 0
    BY <1>2
  <2> QED
    BY <1>1, <2>1 DEF OwnLock, Ownership
<1> QED
  BY <1>3, <1>4, <1>5 DEF Ownership

LEMMA PurgesKeeps ==
    ASSUME TypeOK, Ownership, NEW p \in Procs, Purges(p)
    PROVE  Ownership'
<1>1. /\ UNCHANGED <<backend, revision, ids, beats, client, up, mine, hid>>
      /\ pc[p] = "purge" /\ pc' = [pc EXCEPT ![p] = Start]
      /\ seen' = [seen EXCEPT ![p] = {}]
      /\ lock' = lock \/ lock' = {}
  BY DEF Purges, beatVars
<1>2. \A q \in Procs : /\ q # p => pc'[q] = pc[q] /\ seen'[q] = seen[q]
                       /\ pc'[p] = Start /\ seen'[p] = {}
  BY <1>1, Typed
<1>3. mine[p] = 0 /\ up[NodeOf[p]]
  BY <1>1 DEF Ownership, OwnCalls, Holding
<1>4. OwnCalls'
  BY <1>1, <1>2, <1>3, StartMoves DEF OwnCalls, Ownership, Named
<1>5. OwnIds' /\ OwnLock'
  BY <1>1 DEF OwnIds, OwnLock, Ownership
<1>6. OwnSeen'
  BY <1>1, <1>2 DEF OwnSeen, Ownership
<1> QED
  BY <1>4, <1>5, <1>6 DEF Ownership

LEMMA ExpiresKeeps ==
    ASSUME TypeOK, Ownership, Expires
    PROVE  Ownership'
<1>1. /\ UNCHANGED <<backend, revision, ids, client, up, pc, mine, hid, seen>>
      /\ lock' = lock \/ lock' = {}
  BY DEF Expires
<1>2. \A id \in beats' : id \in beats \/ \E n \in Nodes : id = client[n]
  BY DEF Expires
<1>3. OwnCalls'
  BY <1>1 DEF OwnCalls, Ownership, Named
<1>4. OwnIds'
  BY <1>1, <1>2 DEF OwnIds, Ownership
<1>5. OwnLock' /\ OwnSeen'
  BY <1>1 DEF OwnLock, OwnSeen, Ownership
<1> QED
  BY <1>3, <1>4, <1>5 DEF Ownership

LEMMA SwitchesKeeps ==
    ASSUME TypeOK, Ownership, NEW n \in Nodes, Switches(n)
    PROVE  Ownership'
<1>1. UNCHANGED <<backend, lock, revision, ids>>
  BY DEF Switches
<1>2. CASE /\ up' = [up EXCEPT ![n] = TRUE]
           /\ UNCHANGED <<beats, client, pc, mine, hid, seen>>
  <2>1. \A m \in Nodes : up[m] => up'[m]
    BY <1>2 DEF TypeOK, StoreTypeOK
  <2>2. OwnCalls'
    BY <1>1, <1>2, <2>1, NodeOfType DEF OwnCalls, Ownership, Named
  <2> QED
    BY <1>1, <1>2, <2>2 DEF OwnIds, OwnLock, OwnSeen, Ownership
<1>3. CASE GoDown(n) /\ beats' \in {beats, beats \ {client[n]}}
  <2>1. \A p \in Procs :
           IF NodeOf[p] = n
           THEN pc'[p] = "idle" /\ hid'[p] = NoId /\ mine'[p] = 0 /\ seen'[p] = {}
           ELSE pc'[p] = pc[p] /\ hid'[p] = hid[p] /\ mine'[p] = mine[p] /\ seen'[p] = seen[p]
    BY <1>3 DEF GoDown
  <2>2. \A m \in Nodes : /\ client'[m] = IF m = n THEN NoId ELSE client[m]
                         /\ m # n => up'[m] = up[m]
    BY <1>3, Typed DEF GoDown, TypeOK, StoreTypeOK
  <2>3. OwnCalls'
    BY <1>1, <2>1, <2>2, NodeOfType DEF OwnCalls, Ownership, Named
  <2>4. OwnIds'
    BY <1>1, <1>3, <2>2, Records DEF OwnIds, Ownership, NoId
  <2>5. OwnLock'
    BY <1>1, <2>1, <2>2, Records DEF OwnLock, Ownership
  <2>6. OwnSeen'
    BY <1>1, <2>1 DEF OwnSeen, Ownership
  <2> QED
    BY <2>3, <2>4, <2>5, <2>6 DEF Ownership
<1> QED
  BY <1>2, <1>3 DEF Switches

LEMMA OwnershipStep == TypeOK /\ Ownership /\ LockStep => Ownership'
BY MovesKeeps, LearnsKeeps, TakesKeeps, ReleasesKeeps, PurgesKeeps, ExpiresKeeps,
   SwitchesKeeps DEF LockStep

(***************************************************************************)
(* Prompt holders keep their lock: HolderInv.                              *)
(***************************************************************************)
LEMMA PromptIsPast == LockStep /\ prompt' => prompt
<1> SUFFICES ASSUME LockStep, prompt' PROVE prompt
  OBVIOUS
<1>1. ASSUME NEW p \in Procs, Moves(p) PROVE prompt
  BY <1>1 DEF Moves, serverVars
<1>2. ASSUME NEW p \in Procs, Learns(p) PROVE prompt
  BY <1>2 DEF Learns
<1>3. ASSUME NEW p \in Procs, Takes(p) \/ Releases(p) \/ Purges(p) PROVE prompt
  BY <1>3 DEF Takes, Releases, Purges
<1>4. CASE Expires
  BY <1>4 DEF Expires
<1>5. ASSUME NEW n \in Nodes, Switches(n) PROVE prompt
  BY <1>5 DEF Switches
<1> QED
  BY <1>1, <1>2, <1>3, <1>4, <1>5 DEF LockStep

\* At most one caller holds the lock.
LEMMA HoldersAgree ==
    ASSUME HolderInv, NEW p \in Procs, NEW q \in Procs, mine[p] # 0, mine[q] # 0
    PROVE  p = q
<1>1. [rev |-> mine[p], id |-> hid[p], owner |-> p] = [rev |-> mine[q], id |-> hid[q], owner |-> q]
  BY DEF HolderInv
<1> QED
  BY <1>1

LEMMA MovesHolds ==
    ASSUME TypeOK, Ownership, HolderInv, NEW p \in Procs, Moves(p)
    PROVE  HolderInv'
<1>1. PICK s \in Stages \ {"acquire"} :
         /\ pc' = [pc EXCEPT ![p] = s]
         /\ s = "purge" => seen' = seen /\ \A l \in seen[p] : l.id \notin beats
  BY DEF Moves
<1>2. PICK i \in {hid[p], NoId} :
         hid' = [hid EXCEPT ![p] = i] /\ (mine[p] # 0 => i = hid[p])
  BY DEF Moves
<1>3. PICK r \in {seen[p], lock, {}} : seen' = [seen EXCEPT ![p] = r]
  BY DEF Moves
<1>4. UNCHANGED <<lock, beats, client, up, mine>>
  BY DEF Moves, serverVars
<1>5. \A q \in Procs : /\ q # p => pc'[q] = pc[q] /\ hid'[q] = hid[q] /\ seen'[q] = seen[q]
                       /\ pc'[p] = s /\ hid'[p] = i
  BY <1>1, <1>2, <1>3, Typed
<1>6. \A q \in Procs : mine'[q] # 0 => lock' = {[rev |-> mine'[q], id |-> hid'[q], owner |-> q]}
  BY <1>2, <1>4, <1>5 DEF HolderInv
<1>7. \A q \in Procs : Named(q)' => client'[NodeOf[q]] = hid'[q]
  BY <1>2, <1>4, <1>5 DEF HolderInv, Named
<1>8. \A q \in Procs : pc'[q] = "purge" => \A l \in seen'[q] : l.id \notin beats'
  BY <1>1, <1>4, <1>5 DEF HolderInv
<1> QED
  BY <1>4, <1>6, <1>7, <1>8 DEF HolderInv

LEMMA LearnsHolds ==
    ASSUME TypeOK, Ownership, HolderInv, NEW p \in Procs, Learns(p), prompt'
    PROVE  HolderInv'
<1>1. /\ pc' = [pc EXCEPT ![p] = "acquire"] /\ hid' = [hid EXCEPT ![p] = hid'[p]]
      /\ UNCHANGED <<backend, lock, revision, up, mine, seen>>
      /\ pc[p] \in {"keep", "announce"}
  BY DEF Learns
<1>2. \A q \in Procs : q # p => pc'[q] = pc[q] /\ hid'[q] = hid[q]
  BY <1>1, Typed
<1>3. mine[p] = 0 /\ up[NodeOf[p]] /\ pc'[p] = "acquire"
  BY <1>1, Typed DEF Ownership, OwnCalls, Holding
<1>4. \A q \in Procs : mine'[q] # 0 => lock' = {[rev |-> mine'[q], id |-> hid'[q], owner |-> q]}
  BY <1>1, <1>2, <1>3 DEF HolderInv
<1>5. CASE /\ beats' = beats /\ client' = client
           /\ client[NodeOf[p]] # NoId /\ hid'[p] = client[NodeOf[p]]
  <2>1. \A q \in Procs : Named(q)' => client'[NodeOf[q]] = hid'[q]
    BY <1>1, <1>2, <1>5 DEF HolderInv, Named
  <2>2. \A q \in Procs : pc'[q] = "purge" => \A l \in seen'[q] : l.id \notin beats'
    BY <1>1, <1>2, <1>3, <1>5 DEF HolderInv
  <2> QED
    BY <1>1, <1>4, <1>5, <2>1, <2>2 DEF HolderInv
<1>6. CASE /\ client[NodeOf[p]] = NoId /\ Name(NodeOf[p], ids + 1) /\ hid'[p] = ids + 1
  <2>1. /\ \A m \in Nodes : client'[m] = IF m = NodeOf[p] THEN ids + 1 ELSE client[m]
        /\ beats' = beats \cup {ids + 1}
    BY <1>6, Typed DEF Name
  <2>2. \A q \in Procs : Named(q)' => client'[NodeOf[q]] = hid'[q]
    <3>1. \A q \in Procs : Named(q) => client[NodeOf[q]] = hid[q] /\ hid[q] # NoId
      BY DEF HolderInv, Ownership, OwnCalls
    <3> QED
      BY <1>1, <1>2, <1>6, <2>1, <3>1, NodeOfType DEF Named
  <2>3. \A n \in Nodes : client'[n] # NoId => up'[n] /\ client'[n] \in beats'
    BY <1>1, <1>3, <2>1, NodeOfType DEF HolderInv
  <2>4. \A q \in Procs : \A l \in seen[q] : l.id # ids + 1
    BY Records DEF OwnSeen, Ownership
  <2>5. \A q \in Procs : pc'[q] = "purge" => \A l \in seen'[q] : l.id \notin beats'
    BY <1>1, <1>2, <1>3, <2>1, <2>4 DEF HolderInv
  <2> QED
    BY <1>4, <2>2, <2>3, <2>5 DEF HolderInv
<1>7. CASE prompt' = FALSE
  BY <1>7
<1> QED
  BY <1>5, <1>6, <1>7 DEF Learns, beatVars

LEMMA TakesHolds ==
    ASSUME TypeOK, Ownership, HolderInv, NEW p \in Procs, Takes(p)
    PROVE  HolderInv'
<1>1. /\ UNCHANGED <<beats, client, up, seen>> /\ pc[p] = "acquire" /\ lock = {}
      /\ pc' = [pc EXCEPT ![p] = "load"]
      /\ lock' = {[rev |-> revision + 1, id |-> hid[p], owner |-> p]}
  BY DEF Takes, beatVars
<1>2. \A q \in Procs : mine[q] = 0
  BY <1>1 DEF HolderInv
<1>3. \A q \in Procs : q # p => pc'[q] = pc[q] /\ hid'[q] = hid[q] /\ mine'[q] = 0
  BY <1>1, <1>2, Typed DEF Takes
<1>4. pc'[p] = "load" /\ ((mine'[p] = revision + 1 /\ hid'[p] = hid[p]) \/ mine'[p] = 0)
  BY <1>1, <1>2, Typed DEF Takes
<1>5. \A q \in Procs : mine'[q] # 0 => lock' = {[rev |-> mine'[q], id |-> hid'[q], owner |-> q]}
  BY <1>1, <1>3, <1>4
<1>6. \A q \in Procs : Named(q)' => client'[NodeOf[q]] = hid'[q]
  BY <1>1, <1>3, <1>4 DEF HolderInv, Named
<1>7. \A q \in Procs : pc'[q] = "purge" => \A l \in seen'[q] : l.id \notin beats'
  BY <1>1, <1>3, <1>4 DEF HolderInv
<1> QED
  BY <1>1, <1>5, <1>6, <1>7 DEF HolderInv

LEMMA ReleasesHolds ==
    ASSUME TypeOK, Ownership, HolderInv, NEW p \in Procs, Releases(p)
    PROVE  HolderInv'
<1>1. /\ UNCHANGED <<beats, client, up, seen>> /\ (lock' # lock => mine[p] # 0)
      /\ pc' = [pc EXCEPT ![p] = "idle"] /\ mine' = [mine EXCEPT ![p] = 0]
      /\ hid' = [hid EXCEPT ![p] = NoId]
  BY DEF Releases, beatVars
<1>2. \A q \in Procs : /\ q # p => pc'[q] = pc[q] /\ hid'[q] = hid[q] /\ mine'[q] = mine[q]
                       /\ pc'[p] = "idle" /\ mine'[p] = 0
  BY <1>1, Typed
<1>3. \A q \in Procs : mine'[q] # 0 => lock' = {[rev |-> mine'[q], id |-> hid'[q], owner |-> q]}
  <2> SUFFICES ASSUME NEW q \in Procs, mine'[q] # 0
               PROVE  lock' = {[rev |-> mine'[q], id |-> hid'[q], owner |-> q]}
    OBVIOUS
  <2>1. q # p /\ mine[q] # 0 /\ hid'[q] = hid[q] /\ mine'[q] = mine[q]
    BY <1>2
  <2>2. mine[p] = 0
    BY <2>1, HoldersAgree
  <2> QED
    BY <1>1, <2>1, <2>2 DEF HolderInv
<1>4. \A q \in Procs : Named(q)' => client'[NodeOf[q]] = hid'[q]
  BY <1>1, <1>2 DEF HolderInv, Named
<1>5. \A q \in Procs : pc'[q] = "purge" => \A l \in seen'[q] : l.id \notin beats'
  BY <1>1, <1>2 DEF HolderInv
<1> QED
  BY <1>1, <1>3, <1>4, <1>5 DEF HolderInv

LEMMA PurgesHolds ==
    ASSUME TypeOK, Ownership, HolderInv, NEW p \in Procs, Purges(p)
    PROVE  HolderInv' /\ (lock' # lock => \A q \in Procs : mine[q] = 0)
<1>1. /\ UNCHANGED <<beats, client, up, mine, hid>>
      /\ pc[p] = "purge" /\ pc' = [pc EXCEPT ![p] = Start]
      /\ seen' = [seen EXCEPT ![p] = {}]
  BY DEF Purges, beatVars
<1>2. \A q \in Procs : /\ q # p => pc'[q] = pc[q] /\ seen'[q] = seen[q]
                       /\ pc'[p] = Start /\ seen'[p] = {}
  BY <1>1, Typed
<1>3. ASSUME lock' # lock, NEW q \in Procs, mine[q] # 0 PROVE FALSE
  <2>1. PICK l \in lock, s \in seen[p] :
           IF backend = "nats" THEN l.rev = s.rev ELSE l.id = s.id
    BY <1>3 DEF Purges
  <2>2. l.id = s.id
    BY <2>1 DEF OwnSeen, Ownership
  <2>3. l.id \notin beats
    BY <1>1, <2>2 DEF HolderInv
  <2>4. l.id = hid[q]
    BY <1>3 DEF HolderInv
  <2>5. hid[q] # NoId /\ client[NodeOf[q]] = hid[q]
    BY <1>3 DEF HolderInv, Ownership, OwnCalls, Named
  <2> QED
    BY <2>3, <2>4, <2>5, NodeOfType DEF HolderInv
<1>4. \A q \in Procs : mine'[q] # 0 => lock' = {[rev |-> mine'[q], id |-> hid'[q], owner |-> q]}
  BY <1>1, <1>3 DEF HolderInv
<1>5. \A q \in Procs : Named(q)' => client'[NodeOf[q]] = hid'[q]
  BY <1>1, <1>2, StartMoves DEF HolderInv, Named
<1>6. \A q \in Procs : pc'[q] = "purge" => \A l \in seen'[q] : l.id \notin beats'
  BY <1>1, <1>2 DEF HolderInv
<1> QED
  BY <1>1, <1>3, <1>4, <1>5, <1>6 DEF HolderInv

LEMMA ExpiresHolds ==
    ASSUME TypeOK, Ownership, HolderInv, Expires, prompt'
    PROVE  HolderInv'
<1>1. UNCHANGED <<client, up, pc, mine, hid, seen>>
  BY DEF Expires
<1>2. \A q \in Procs : Named(q)' => client'[NodeOf[q]] = hid'[q]
  BY <1>1 DEF HolderInv, Named
<1>3. CASE lock' = {} /\ UNCHANGED beats /\ \E l \in lock : mine[l.owner] # l.rev
  <2>1. \A q \in Procs : mine[q] = 0
    BY <1>3 DEF HolderInv
  <2> QED
    BY <1>1, <1>2, <1>3, <2>1 DEF HolderInv
<1>4. CASE lock' = lock /\ UNCHANGED beats
  BY <1>1, <1>2, <1>4 DEF HolderInv
<1>5. CASE lock' = lock /\ \E id \in beats : beats' = beats \ {id} /\ ~Refreshed(id)
  <2>1. \A n \in Nodes : client'[n] # NoId => up'[n] /\ client'[n] \in beats'
    BY <1>1, <1>5 DEF HolderInv, Refreshed
  <2>2. \A q \in Procs : pc'[q] = "purge" => \A l \in seen'[q] : l.id \notin beats'
    BY <1>1, <1>5 DEF HolderInv
  <2> QED
    BY <1>1, <1>2, <1>5, <2>1, <2>2 DEF HolderInv
<1>6. CASE \E n \in Nodes : client[n] \notin beats /\ client[n] # NoId
  BY <1>6 DEF HolderInv
<1>7. \/ lock' = {} /\ UNCHANGED beats /\ \E l \in lock : mine[l.owner] # l.rev
      \/ lock' = lock /\ UNCHANGED beats
      \/ lock' = lock /\ \E id \in beats : beats' = beats \ {id} /\ ~Refreshed(id)
      \/ \E n \in Nodes : client[n] \notin beats /\ client[n] # NoId
  BY DEF Expires
<1> QED
  BY <1>3, <1>4, <1>5, <1>6, <1>7

LEMMA SwitchesHolds ==
    ASSUME TypeOK, Ownership, HolderInv, NEW n \in Nodes, Switches(n)
    PROVE  HolderInv'
<1>1. UNCHANGED lock
  BY DEF Switches
<1>2. CASE /\ up' = [up EXCEPT ![n] = TRUE]
           /\ UNCHANGED <<beats, client, pc, mine, hid, seen>>
  <2>1. \A m \in Nodes : up[m] => up'[m]
    BY <1>2 DEF TypeOK, StoreTypeOK
  <2>2. \A m \in Nodes : client'[m] # NoId => up'[m] /\ client'[m] \in beats'
    BY <1>2, <2>1 DEF HolderInv
  <2> QED
    BY <1>1, <1>2, <2>2 DEF HolderInv, Named
<1>3. CASE GoDown(n) /\ beats' \in {beats, beats \ {client[n]}}
  <2>1. \A p \in Procs :
           IF NodeOf[p] = n
           THEN pc'[p] = "idle" /\ hid'[p] = NoId /\ mine'[p] = 0 /\ seen'[p] = {}
           ELSE pc'[p] = pc[p] /\ hid'[p] = hid[p] /\ mine'[p] = mine[p] /\ seen'[p] = seen[p]
    BY <1>3 DEF GoDown
  <2>2. \A m \in Nodes : client'[m] = IF m = n THEN NoId ELSE client[m]
    BY <1>3, Typed DEF GoDown
  <2>3. \A m \in Nodes : m # n /\ up[m] => up'[m]
    BY <1>3 DEF GoDown, TypeOK, StoreTypeOK
  <2>4. \A p \in Procs : mine'[p] # 0 => lock' = {[rev |-> mine'[p], id |-> hid'[p], owner |-> p]}
    BY <1>1, <2>1 DEF HolderInv
  <2>5. \A p \in Procs : Named(p)' => client'[NodeOf[p]] = hid'[p]
    BY <2>1, <2>2, NodeOfType DEF HolderInv, Named
  <2>6. \A m \in Nodes : client'[m] # NoId => up'[m] /\ client'[m] \in beats'
    BY <1>3, <2>2, <2>3 DEF HolderInv, OwnIds, Ownership
  <2>7. \A p \in Procs : pc'[p] = "purge" => \A l \in seen'[p] : l.id \notin beats'
    BY <1>3, <2>1 DEF HolderInv
  <2> QED
    BY <2>4, <2>5, <2>6, <2>7 DEF HolderInv
<1> QED
  BY <1>2, <1>3 DEF Switches

LEMMA HolderStep ==
    ASSUME TypeOK, Ownership, prompt => HolderInv, LockStep
    PROVE  (prompt => HolderInv)'
<1> SUFFICES ASSUME prompt' PROVE HolderInv'
  OBVIOUS
<1>1. HolderInv
  BY PromptIsPast
<1> QED
  BY <1>1, MovesHolds, LearnsHolds, TakesHolds, ReleasesHolds, PurgesHolds, ExpiresHolds,
     SwitchesHolds DEF LockStep

(***************************************************************************)
(* The invariant, and what it says of the lock.                            *)
(***************************************************************************)
LockInv == TypeOK /\ Ownership /\ (prompt => HolderInv)

LEMMA LockInit == Init => LockInv
<1> SUFFICES ASSUME Init PROVE LockInv
  OBVIOUS
<1>1. TypeOK
  BY InitType
<1>2. /\ lock = {} /\ revision = 0 /\ beats = {} /\ ids = 0 /\ \A n \in Nodes : client[n] = 0
      /\ \A p \in Procs : pc[p] = "idle" /\ mine[p] = 0 /\ seen[p] = {}
  BY DEF Init, StoreInit, CallInit, NoId
<1>3. Ownership
  BY <1>2 DEF Ownership, OwnCalls, OwnIds, OwnLock, OwnSeen, Named, NoId
<1>4. HolderInv
  BY <1>2 DEF HolderInv, Named, NoId
<1> QED
  BY <1>1, <1>3, <1>4 DEF LockInv

LEMMA LockNext == LockInv /\ [Next]_vars => LockInv'
<1> SUFFICES ASSUME LockInv, [Next]_vars PROVE LockInv'
  OBVIOUS
<1>1. TypeOK'
  BY TypeStep DEF LockInv
<1>2. CASE Next
  <2>1. LockStep
    BY <1>2, KindOfStep DEF LockInv
  <2>2. Ownership'
    BY <2>1, OwnershipStep DEF LockInv
  <2> QED
    BY <1>1, <2>1, <2>2, HolderStep DEF LockInv
<1>3. CASE UNCHANGED vars
  <2> USE <1>3 DEF vars, callVars, beatVars, lockVars
  <2>1. Ownership'
    BY DEF LockInv, Ownership, OwnCalls, OwnIds, OwnLock, OwnSeen, Named
  <2>2. HolderInv => HolderInv'
    BY DEF HolderInv, Named
  <2>3. prompt' = prompt
    OBVIOUS
  <2> QED
    BY <1>1, <2>1, <2>2, <2>3 DEF LockInv
<1> QED
  BY <1>2, <1>3

\* As long as holders are prompt, no two callers hold the lock of a key:
\* whatever fails, crashes, restarts, expires, is purged or lost on the way.
THEOREM OneHolderAlways == Spec => []OneHolder
<1>1. LockInv => OneHolder
  BY HoldersAgree DEF LockInv, OneHolder, Holders
<1> QED
  BY <1>1, LockInit, LockNext, PTL DEF Spec

\* Only a release or a purge removes the lock while its caller moves on.
LEMMA WhoRemoves ==
    ASSUME TypeOK, LockStep, NEW p \in Procs, NEW l \in lock, lock' = {}, pc'[p] # pc[p]
    PROVE  Releases(p) \/ Purges(p)
<1>1. ASSUME NEW q \in Procs, Releases(q) \/ Purges(q) PROVE Releases(p) \/ Purges(p)
  <2>1. q = p
    BY <1>1, Typed DEF Releases, Purges
  <2> QED
    BY <1>1, <2>1
<1>2. ASSUME NEW q \in Procs, Moves(q) \/ Learns(q) \/ Takes(q) PROVE FALSE
  BY <1>2 DEF Moves, Learns, Takes, serverVars
<1>3. ~Expires
  BY DEF Expires
<1>4. ASSUME NEW n \in Nodes, Switches(n) PROVE FALSE
  BY <1>4 DEF Switches
<1> QED
  BY <1>1, <1>2, <1>3, <1>4 DEF LockStep

\* A release removes no lock of another process, and a waiter no lock of a
\* prompt holder.
THEOREM NoForeignRemovalAlways == Spec => NoForeignRemoval
<1> DEFINE Removal ==
      \A p \in Procs : \A l \in lock : lock' = {} /\ pc'[p] # pc[p] =>
         /\ pc[p] = "release" =>
               NodeOf[l.owner] = NodeOf[p] /\ (backend = "nats" => l.owner = p)
         /\ pc[p] = "purge" /\ prompt => mine[l.owner] # l.rev
<1>1. ASSUME LockInv, Next PROVE Removal
  <2> SUFFICES ASSUME NEW p \in Procs, NEW l \in lock, lock' = {}, pc'[p] # pc[p]
               PROVE  /\ pc[p] = "release" =>
                            NodeOf[l.owner] = NodeOf[p] /\ (backend = "nats" => l.owner = p)
                      /\ pc[p] = "purge" /\ prompt => mine[l.owner] # l.rev
    OBVIOUS
  <2>1. TypeOK /\ Ownership /\ (prompt => HolderInv)
    BY <1>1 DEF LockInv
  <2>2. Releases(p) \/ Purges(p)
    BY <1>1, <2>1, KindOfStep, WhoRemoves
  <2>3. CASE Releases(p)
    <3>1. pc[p] = "release" /\ mine[p] # 0
      BY <2>3 DEF Releases
    <3>2. IF backend = "nats" THEN l.rev = mine[p] ELSE l.id = hid[p]
      BY <2>1, <2>3, Records DEF Releases
    <3>3. CASE backend = "nats"
      BY <2>1, <3>1, <3>2, <3>3 DEF Ownership, OwnLock
    <3>4. CASE backend # "nats"
      <4>1. client[NodeOf[p]] = l.id
        BY <2>1, <3>1, <3>2, <3>4 DEF Ownership, OwnCalls, Named
      <4> QED
        BY <2>1, <3>1, <3>4, <4>1, NodeOfType DEF Ownership, OwnLock
    <3> QED
      BY <3>3, <3>4
  <2>4. CASE Purges(p)
    <3>1. pc[p] = "purge" /\ l.owner \in Procs /\ l.rev # 0
      BY <2>1, <2>4, Records DEF Purges, Ownership, OwnLock
    <3> QED
      BY <2>1, <2>4, <3>1, PurgesHolds
  <2> QED
    BY <2>2, <2>3, <2>4
<1>2. LockInv /\ [Next]_vars => [Removal]_vars
  BY <1>1
<1> QED
  BY <1>2, LockInit, LockNext, PTL DEF Spec, NoForeignRemoval

(***************************************************************************)
(* No listener sleeps through the end of the lock, unless its subscription *)
(* was late.                                                               *)
(***************************************************************************)
Due(p) == lock # {} \/ event[p] # NoEvent

WakeInv == \A p \in Procs \ late :
    /\ pc[p] \in {"check", "listen"} => p \in subs
    /\ pc[p] = "listen" => Due(p)

\* Whatever happens to the lock, its subscribers stay alert.
LEMMA DueKept ==
    ASSUME TypeOK,
           UNCHANGED lockVars \/ DropLock \/ \E q, id : TakeLock(q, id),
           NEW p \in Procs, p \in subs, Due(p)
    PROVE  Due(p)'
<1>1. CASE UNCHANGED lockVars
  BY <1>1 DEF lockVars, Due
<1>2. CASE DropLock
  BY <1>2 DEF DropLock, Publish, Due, NoEvent
<1>3. CASE \E q, id : TakeLock(q, id)
  BY <1>3 DEF TakeLock, Due
<1> QED
  BY <1>1, <1>2, <1>3

\* A caller that neither waits for events nor is about to.
LEMMA OtherWake ==
    ASSUME TypeOK, WakeInv, NEW q \in Procs, NEW s \in Stages \ {"check", "listen"},
           pc' = [pc EXCEPT ![q] = s], subs' = subs, late' = late,
           UNCHANGED lockVars \/ DropLock \/ \E r, id : TakeLock(r, id)
    PROVE  WakeInv'
<1>1. pc \in [Procs -> Stages]
  BY Typed
<1> QED
  BY <1>1, DueKept DEF WakeInv

\* A caller that closes its subscription.
LEMMA CloserWake ==
    ASSUME TypeOK, WakeInv, NEW q \in Procs, NEW s \in Stages \ {"check", "listen"},
           pc' = [pc EXCEPT ![q] = s], late' = late, Unsubscribe(q)
    PROVE  WakeInv'
<1>1. pc \in [Procs -> Stages] /\ event \in [Procs -> {NoEvent, "gone", "set"}]
  BY Typed DEF TypeOK, StoreTypeOK
<1>2. \A p \in Procs : p # q => pc'[p] = pc[p] /\ (p \in subs => p \in subs')
                                 /\ (Due(p) => Due(p)')
  BY <1>1 DEF Unsubscribe, Due
<1> QED
  BY <1>1, <1>2 DEF WakeInv

\* A caller that opens one.
LEMMA OpenerWake ==
    ASSUME TypeOK, WakeInv, NEW q \in Procs,
           Watch(q) \/ Subscribe(q)
    PROVE  WakeInv'
<1>1. pc \in [Procs -> Stages] /\ event \in [Procs -> {NoEvent, "gone", "set"}]
  BY Typed DEF TypeOK, StoreTypeOK
<1>2. lock' = lock
  BY DEF Watch, Subscribe
<1>3. \/ subs' = subs \cup {q} /\ late' = late
      \/ subs' = subs \cup {q} /\ late' = late \ {q}
      \/ late' = late \cup {q} /\ subs' = subs
  <2>1. Watch(q) => subs' = subs \cup {q} /\ late' = late
    BY DEF Watch, others
  <2>2. Subscribe(q) => \/ subs' = subs \cup {q} /\ late' = late \ {q}
                        \/ late' = late \cup {q} /\ subs' = subs
    BY ZenonT(30) DEF Subscribe
  <2> QED
    BY <2>1, <2>2
<1>4. \A p \in Procs : p # q => pc'[p] = pc[p] /\ (Due(p) => Due(p)')
  BY <1>1 DEF Watch, Subscribe, Goto, Due
<1>5. pc'[q] = "listen" => Due(q)'
  <2>1. CASE Watch(q)
    BY <1>1, <2>1 DEF Watch, Goto, Due, NoEvent
  <2>2. CASE Subscribe(q)
    BY <1>1, <2>2 DEF Subscribe, Goto
  <2> QED
    BY <2>1, <2>2
<1>6. \A p \in Procs \ late' : (p # q => p \notin late) /\ (p = q => p \in subs')
                               /\ (p \in subs => p \in subs')
  BY <1>3
<1> QED
  BY <1>4, <1>5, <1>6 DEF WakeInv

LEMMA CheckWake ==
    ASSUME TypeOK, WakeInv, NEW q \in Procs, Check(q) \/ Activate(q)
    PROVE  WakeInv'
<1>1. CASE Check(q) /\ lock = {}
  BY <1>1, CloserWake DEF Check, Goto, others, Stages, Waiting
<1>2. CASE Check(q) /\ lock # {}
  <2>1. pc[q] = "check" /\ pc' = [pc EXCEPT ![q] = "listen"] /\ UNCHANGED <<subs, late, lock, event>>
    BY <1>2 DEF Check, Goto, lockVars, others
  <2> QED
    BY <1>2, <2>1, Typed DEF WakeInv, Due
<1>3. CASE Activate(q)
  <2>1. subs' = subs \cup {q} /\ UNCHANGED <<pc, late, lock, event>>
    BY <1>3 DEF Activate, unread, others, lockVars
  <2> QED
    BY <2>1 DEF WakeInv, Due
<1> QED
  BY <1>1, <1>2, <1>3

LEMMA CallerWake ==
    ASSUME TypeOK, WakeInv, NEW q \in Procs,
           Query(q) \/ Step(q) \/ QuitWait(q) \/ Activate(q)
    PROVE  WakeInv'
<1>0. pc = [pc EXCEPT ![q] = pc[q]] /\ pc[q] \in Stages
  BY Typed
<1> USE DEF Goto
<1>1. CASE Query(q) \/ Direct(q)
  <2>1. PICK s \in {"idle", "direct", Start} : pc' = [pc EXCEPT ![q] = s]
    BY <1>0, <1>1 DEF Query, Direct
  <2>2. s \in Stages \ {"check", "listen"}
    BY <2>1 DEF Start, Stages
  <2> QED
    BY <1>1, <2>1, <2>2, OtherWake DEF Query, Direct
<1>2. CASE Keepalive(q) \/ Announce(q)
  <2>1. PICK s \in {"announce", "acquire", "load"} : pc' = [pc EXCEPT ![q] = s]
    BY <1>2 DEF Keepalive, Announce
  <2>2. s \in Stages \ {"check", "listen"} /\ subs' = subs /\ late' = late /\ UNCHANGED lockVars
    BY <1>2 DEF Keepalive, Announce, Stages, Holding
  <2> QED
    BY <2>1, <2>2, OtherWake
<1>3. CASE Acquire(q)
  <2>1. PICK s \in {"load", "recheck", "subscribe", "poll"} : pc' = [pc EXCEPT ![q] = s]
    BY <1>3 DEF Acquire
  <2>2. s \in Stages \ {"check", "listen"} /\ subs' = subs /\ late' = late
    BY <1>3 DEF Acquire, Stages, Holding, Waiting
  <2>3. UNCHANGED lockVars \/ TakeLock(q, hid[q])
    BY <1>3 DEF Acquire
  <2> QED
    BY <2>1, <2>2, <2>3, OtherWake
<1>4. CASE Load(q) \/ Add(q) \/ CreateEntry(q)
  <2>1. PICK s \in {"add", "create", "release"} : pc' = [pc EXCEPT ![q] = s]
    BY <1>4 DEF Load, Add, CreateEntry
  <2>2. s \in Stages \ {"check", "listen"} /\ subs' = subs /\ late' = late /\ UNCHANGED lockVars
    BY <1>4 DEF Load, Add, CreateEntry, Stages, Holding
  <2> QED
    BY <2>1, <2>2, OtherWake
<1>5. CASE Release(q)
  <2>1. UNCHANGED lockVars \/ DropLock
    BY <1>5, RemovalKind DEF Release, Unlock
  <2> QED
    BY <1>5, <2>1, OtherWake DEF Release, Stages
<1>6. CASE Purge(q)
  <2>1. UNCHANGED lockVars \/ DropLock
    BY <1>6, RemovalKind DEF Purge
  <2>2. Start \in Stages \ {"check", "listen"}
    BY DEF Start, Stages
  <2> QED
    BY <1>6, <2>1, <2>2, OtherWake DEF Purge, LeaveWait, others
<1>7. CASE Probe(q) \/ Peek(q) \/ Recheck(q) \/ Lookup(q) \/ Poll(q) \/ Compare(q) \/ Reread(q)
  <2>1. PICK s \in {"purge", "watch", "poll", "idle", "keep", "lookup", "peek", "probe", "reread",
                    "compare", Start} : pc' = [pc EXCEPT ![q] = s]
    BY <1>7 DEF Probe, Peek, Recheck, Lookup, Poll, Compare, Reread, LeaveWait
  <2>2. s \in Stages \ {"check", "listen"}
    BY <2>1 DEF Start, Stages, Waiting
  <2>3. subs' = subs /\ late' = late /\ UNCHANGED lockVars
    BY <1>7 DEF Probe, Peek, Recheck, Lookup, Poll, Compare, Reread, LeaveWait, unread, others
  <2> QED
    BY <2>1, <2>2, <2>3, OtherWake
<1>8. CASE Woken(q) \/ HolderLost(q) \/ ChangedHands(q) \/ QuitWait(q)
  <2>1. PICK s \in {"reread", "purge", "load", Start} : pc' = [pc EXCEPT ![q] = s]
    BY <1>8 DEF Woken, HolderLost, ChangedHands, QuitWait, LeaveWait
  <2>2. s \in Stages \ {"check", "listen"}
    BY <2>1 DEF Start, Stages, Waiting, Holding
  <2> QED
    BY <1>8, <2>1, <2>2, CloserWake DEF Woken, HolderLost, ChangedHands, QuitWait, others
<1>9. CASE Watch(q) \/ Subscribe(q)
  BY <1>9, OpenerWake
<1>10. CASE Check(q) \/ Activate(q)
  BY <1>10, CheckWake
<1> QED
  BY <1>1, <1>2, <1>3, <1>4, <1>5, <1>6, <1>7, <1>8, <1>9, <1>10 DEF Step, NatsWait, RedisWait

LEMMA ServerWake ==
    ASSUME TypeOK, WakeInv,
           \/ \E id \in beats : ExpireBeat(id)
           \/ \E n \in Nodes : Refresh(n) \/ Crash(n) \/ Close(n) \/ Restart(n)
           \/ DataGone \/ LockExpires
    PROVE  WakeInv'
<1>1. CASE UNCHANGED <<pc, subs, late, lockVars>>
  BY <1>1 DEF WakeInv, Due, lockVars
<1>2. CASE LockExpires
  BY <1>2, DueKept DEF LockExpires, callVars, WakeInv
<1>3. ASSUME NEW n \in Nodes, GoDown(n) PROVE WakeInv'
  <2>1. \A p \in Procs : /\ pc'[p] \in {"check", "listen"} =>
                                NodeOf[p] # n /\ pc'[p] = pc[p]
                         /\ NodeOf[p] # n => event'[p] = event[p]
    BY <1>3 DEF GoDown
  <2>2. subs' = subs \ CallersOf(n) /\ lock' = lock /\ late' = late
    BY <1>3 DEF GoDown
  <2> QED
    BY <2>1, <2>2 DEF WakeInv, Due, CallersOf
<1>4. ASSUME NEW id \in beats, ExpireBeat(id) PROVE UNCHANGED <<pc, subs, late, lockVars>>
  BY <1>4 DEF ExpireBeat, callVars
<1>5. ASSUME NEW n \in Nodes, Refresh(n) \/ Restart(n) PROVE UNCHANGED <<pc, subs, late, lockVars>>
  BY <1>5 DEF Refresh, Restart, callVars
<1>6. CASE DataGone
  BY <1>1, <1>6 DEF DataGone, callVars
<1> QED
  BY <1>1, <1>2, <1>3, <1>4, <1>5, <1>6 DEF Crash, Close

\* A caller that listens for the end of the lock has the event, or the lock is
\* still there, unless its PSubscribe returned before it was active.
THEOREM ListenersWake == Spec => []WakeupDue
<1>1. Init => TypeOK /\ WakeInv
  BY InitType DEF Init, CallInit, WakeInv
<1>2. TypeOK /\ WakeInv /\ [Next]_vars => (TypeOK /\ WakeInv)'
  <2> SUFFICES ASSUME TypeOK, WakeInv, [Next]_vars PROVE (TypeOK /\ WakeInv)'
    OBVIOUS
  <2>1. TypeOK'
    BY TypeStep
  <2>2. CASE Next
    BY <2>1, <2>2, CallerWake, ServerWake DEF Next
  <2>3. CASE UNCHANGED vars
    BY <2>1, <2>3 DEF vars, callVars, lockVars, WakeInv, Due
  <2> QED
    BY <2>2, <2>3
<1>3. TypeOK /\ WakeInv => WakeupDue
  BY DEF WakeInv, WakeupDue, Alert, Due
<1> QED
  BY <1>1, <1>2, <1>3, PTL DEF Spec

(***************************************************************************)
(* One load more per mishap.                                               *)
(***************************************************************************)
\* The callers that went to the database without the lock.
Unlocked == {p \in AtDatabase : mine[p] = 0}

\* Each of them has a mishap to show for it.
UnlockedInv == IsFiniteSet(Unlocked) /\ Cardinality(Unlocked) <= mishaps

\* What a step does to them: nobody is added, ...
Kept == Unlocked' \subseteq Unlocked /\ mishaps' \in {mishaps, mishaps + 1}

\* ... or one caller is, by a mishap.
FallsBack(p) == Unlocked' \subseteq Unlocked \cup {p} /\ mishaps' = mishaps + 1

LEMMA CountStep ==
    /\ AsPlanned => mishaps' = mishaps
    /\ \A k : Mishap(k) => mishaps' = mishaps + 1
    /\ \A k : Untimely(k) => mishaps' = mishaps + 1
    /\ StaleAbsent => mishaps' = mishaps + 1
BY DEF AsPlanned, Mishap, Untimely, StaleAbsent

\* The caller p moves to stage s; nobody else's lock is touched.
LEMMA CallerMoves ==
    ASSUME TypeOK, NEW p \in Procs, NEW s, Goto(p, s),
           UNCHANGED mine \/ \E r : mine' = [mine EXCEPT ![p] = r]
    PROVE  /\ Unlocked' \subseteq Unlocked \cup {p}
           /\ p \in Unlocked \/ s \notin {"direct", "load", "add", "create"} \/ mine'[p] # 0
                => Unlocked' \subseteq Unlocked
<1>1. pc' = [pc EXCEPT ![p] = s] /\ pc'[p] = s /\ \A r \in Procs \ {p} : pc'[r] = pc[r]
  BY DEF Goto, TypeOK, CallTypeOK
<1>2. \A r \in Procs \ {p} : mine'[r] = mine[r]
  BY DEF TypeOK, CallTypeOK
<1> QED
  BY <1>1, <1>2 DEF Unlocked, AtDatabase

LEMMA CallerFalls ==
    ASSUME TypeOK, Ownership, NEW p \in Procs,
           Query(p) \/ Direct(p) \/ Keepalive(p) \/ Announce(p) \/ Acquire(p)
    PROVE  Kept \/ FallsBack(p)
<1> USE CountStep
<1>0. Start \notin {"direct", "load", "add", "create"}
  BY DEF Start
<1>1. CASE Query(p)
  <2>1. CASE UNCHANGED pc
    BY <1>1, <2>1 DEF Query, Kept, Unlocked, AtDatabase
  <2>2. CASE Goto(p, Start)
    BY <1>0, <1>1, <2>2, CallerMoves DEF Query, Kept
  <2>3. CASE Goto(p, "direct") /\ Mishap("get")
    BY <1>1, <2>3, CallerMoves DEF Query, FallsBack
  <2> QED
    BY <1>1, <2>1, <2>2, <2>3 DEF Query
<1>2. CASE Direct(p)
  BY <1>2, CallerMoves DEF Direct, Kept
<1>3. CASE Keepalive(p)
  <2>1. PICK s \in {"announce", "acquire"} : Goto(p, s)
    BY <1>3 DEF Keepalive
  <2> QED
    BY <1>3, <2>1, CallerMoves DEF Keepalive, Kept
<1>4. CASE Announce(p)
  <2>1. CASE Goto(p, "acquire")
    BY <1>4, <2>1, CallerMoves DEF Announce, Kept, AsPlanned
  <2>2. CASE Goto(p, "load") /\ Mishap("beat")
    BY <1>4, <2>2, CallerMoves DEF Announce, FallsBack
  <2> QED
    BY <1>4, <2>1, <2>2 DEF Announce
<1>5. CASE Acquire(p)
  <2>1. CASE mine' = [mine EXCEPT ![p] = revision + 1] /\ Goto(p, "load") /\ AsPlanned
    <3>1. mine'[p] # 0
      BY <2>1 DEF TypeOK, CallTypeOK, StoreTypeOK
    <3> QED
      BY <2>1, <3>1, CallerMoves DEF Kept
  <2>2. CASE AsPlanned /\ UNCHANGED mine /\ \E s \in {"recheck", "subscribe", "poll"} : Goto(p, s)
    BY <2>2, CallerMoves DEF Kept
  <2>3. CASE Goto(p, "load") /\ UNCHANGED mine /\ (Mishap("lock") \/ Mishap("reply"))
    BY <2>3, CallerMoves DEF FallsBack
  <2> QED
    BY <1>5, <2>1, <2>2, <2>3 DEF Acquire
<1> QED
  BY <1>1, <1>2, <1>3, <1>4, <1>5

LEMMA LoaderFalls ==
    ASSUME TypeOK, NEW p \in Procs,
           Load(p) \/ Add(p) \/ CreateEntry(p) \/ Release(p)
    PROVE  Kept
<1> USE CountStep
<1>1. CASE Load(p) \/ Add(p) \/ CreateEntry(p)
  <2>1. PICK s \in {"add", "create", "release"} : Goto(p, s)
    BY <1>1 DEF Load, Add, CreateEntry
  <2>2. UNCHANGED mine /\ pc[p] \in {"load", "add", "create"}
    BY <1>1 DEF Load, Add, CreateEntry
  <2>3. p \in Unlocked \/ mine'[p] # 0
    BY <2>2 DEF Unlocked, AtDatabase
  <2>4. mishaps' \in {mishaps, mishaps + 1}
    BY <1>1 DEF Load, Add, CreateEntry
  <2> QED
    BY <2>1, <2>2, <2>3, <2>4, CallerMoves DEF Kept
<1>2. CASE Release(p)
  <2>1. Goto(p, "idle") /\ mine' = [mine EXCEPT ![p] = 0]
    BY <1>2 DEF Release
  <2>2. mishaps' \in {mishaps, mishaps + 1}
    BY <1>2 DEF Release
  <2>3. Unlocked' \subseteq Unlocked
    <3>1. \E r : mine' = [mine EXCEPT ![p] = r]
      BY <2>1
    <3>2. Unlocked' \subseteq Unlocked \cup {p}
      BY <2>1, <3>1, CallerMoves
    <3>3. pc'[p] = "idle"
      BY <2>1 DEF Goto, TypeOK, CallTypeOK
    <3>4. p \notin Unlocked'
      BY <3>3 DEF Unlocked, AtDatabase
    <3> QED
      BY <3>2, <3>4
  <2> QED
    BY <2>2, <2>3 DEF Kept
<1> QED
  BY <1>1, <1>2

LEMMA WaiterFalls ==
    ASSUME TypeOK, NEW p \in Procs,
           \/ Probe(p) \/ Woken(p) \/ Reread(p) \/ Purge(p)
           \/ NatsWait(p) \/ RedisWait(p) \/ QuitWait(p) \/ Activate(p)
    PROVE  Kept \/ FallsBack(p)
<1> USE CountStep DEF others, unread
<1> DEFINE Calm == {"idle", "peek", "keep", "lookup", "probe", "purge", "watch", "poll",
                    "listen", "reread", "compare", "check"}
<1>0. Start \in Calm
  BY DEF Start
<1>1. ASSUME NEW s \in Calm, Goto(p, s), UNCHANGED mine, mishaps' \in {mishaps, mishaps + 1}
      PROVE  Kept
  BY <1>1, CallerMoves DEF Kept
<1>2. CASE Probe(p) \/ Woken(p) \/ Peek(p) \/ Recheck(p) \/ Lookup(p) \/ Watch(p) \/ HolderLost(p)
  BY <1>1, <1>2 DEF Probe, Woken, Peek, Recheck, Lookup, Watch, HolderLost
<1>3. CASE Reread(p) \/ Purge(p) \/ Compare(p) \/ ChangedHands(p)
  <2>1. mishaps' \in {mishaps, mishaps + 1} /\ UNCHANGED mine
    BY <1>3 DEF Reread, Purge, Compare, ChangedHands
  <2>2. PICK s \in Calm : Goto(p, s)
    BY <1>0, <1>3 DEF Reread, Purge, Compare, ChangedHands, LeaveWait
  <2> QED
    BY <1>1, <2>1, <2>2
<1>4. CASE Poll(p) \/ Subscribe(p) \/ Check(p)
  <2>1. mishaps' \in {mishaps, mishaps + 1} /\ UNCHANGED mine
    BY <1>4 DEF Poll, Subscribe, Check
  <2>2. PICK s \in Calm : Goto(p, s)
    BY <1>4 DEF Poll, Subscribe, Check
  <2> QED
    BY <1>1, <2>1, <2>2
<1>5. CASE QuitWait(p)
  BY <1>5, CallerMoves DEF QuitWait, LeaveWait, FallsBack
<1>6. CASE Activate(p)
  BY <1>6 DEF Activate, Kept, Unlocked, AtDatabase
<1> QED
  BY <1>2, <1>3, <1>4, <1>5, <1>6 DEF NatsWait, RedisWait

LEMMA ServerFalls ==
    ASSUME TypeOK,
           \/ \E id \in beats : ExpireBeat(id)
           \/ \E n \in Nodes : Refresh(n) \/ Crash(n) \/ Close(n) \/ Restart(n)
           \/ DataGone \/ LockExpires
    PROVE  Kept
<1> USE CountStep
<1>1. ASSUME UNCHANGED <<pc, mine>>, mishaps' \in {mishaps, mishaps + 1} PROVE Kept
  BY <1>1 DEF Kept, Unlocked, AtDatabase
<1>2. ASSUME NEW n \in Nodes, GoDown(n) PROVE Kept
  <2>1. Unlocked' \subseteq Unlocked
    BY <1>2 DEF GoDown, Unlocked, AtDatabase
  <2>2. mishaps' = mishaps + 1
    BY <1>2 DEF GoDown
  <2> QED
    BY <2>1, <2>2 DEF Kept
<1> QED
  BY <1>1, <1>2 DEF ExpireBeat, Refresh, Crash, Close, Restart, DataGone, LockExpires, callVars

LEMMA UnlockedStep ==
    ASSUME TypeOK, Ownership, UnlockedInv, [Next]_vars
    PROVE  UnlockedInv'
<1>0. mishaps \in Nat /\ Cardinality(Unlocked) \in Nat
  BY FS_CardinalityType DEF TypeOK, CallTypeOK, UnlockedInv
<1>1. ASSUME Kept PROVE UnlockedInv'
  <2>1. IsFiniteSet(Unlocked') /\ Cardinality(Unlocked') <= Cardinality(Unlocked)
    BY <1>1, FS_Subset DEF Kept, UnlockedInv
  <2>2. Cardinality(Unlocked') \in Nat
    BY <2>1, FS_CardinalityType
  <2> QED
    BY <1>0, <1>1, <2>1, <2>2 DEF Kept, UnlockedInv
<1>2. ASSUME NEW p \in Procs, FallsBack(p) PROVE UnlockedInv'
  <2> DEFINE more == Unlocked \cup {p}
  <2>0. IsFiniteSet(more) /\ Cardinality(more) \in {Cardinality(Unlocked), Cardinality(Unlocked) + 1}
    BY FS_AddElement DEF UnlockedInv
  <2>1. IsFiniteSet(more) /\ Cardinality(more) <= Cardinality(Unlocked) + 1
    BY <1>0, <2>0
  <2>2. IsFiniteSet(Unlocked') /\ Cardinality(Unlocked') <= Cardinality(more)
    BY <1>2, <2>1, FS_Subset DEF FallsBack
  <2>3. Cardinality(Unlocked') \in Nat /\ Cardinality(more) \in Nat
    BY <2>1, <2>2, FS_CardinalityType
  <2> QED
    BY <1>0, <1>2, <2>1, <2>2, <2>3 DEF FallsBack, UnlockedInv
<1>3. ASSUME UNCHANGED vars PROVE Kept
  BY <1>3 DEF vars, callVars, Kept, Unlocked, AtDatabase
<1> QED
  BY <1>1, <1>2, <1>3, CallerFalls, LoaderFalls, WaiterFalls, ServerFalls DEF Next, Step

LEMMA UnlockedInit == Init => UnlockedInv
<1> SUFFICES ASSUME Init PROVE UnlockedInv
  OBVIOUS
<1>1. Unlocked = {} /\ mishaps = 0
  BY DEF Init, CallInit, Unlocked, AtDatabase
<1> QED
  BY <1>1, FS_EmptySet DEF UnlockedInv

LEMMA LoadersBound ==
    ASSUME TypeOK, UnlockedInv, OneHolder
    PROVE  FewLoaders
<1> SUFFICES ASSUME prompt PROVE Cardinality(AtDatabase) <= 1 + mishaps
  BY DEF FewLoaders
<1> DEFINE locked == AtDatabase \ Unlocked
<1>1. \A p, r \in locked : p = r
  BY DEF Unlocked, AtDatabase, OneHolder, Holders
<1>2. \E h : AtDatabase \subseteq Unlocked \cup {h}
  <2>1. CASE locked = {}
    BY <2>1
  <2>2. CASE locked # {}
    BY <1>1, <2>2
  <2> QED
    BY <2>1, <2>2
<1>3. PICK h : AtDatabase \subseteq Unlocked \cup {h}
  BY <1>2
<1>4. /\ IsFiniteSet(Unlocked \cup {h})
      /\ Cardinality(Unlocked \cup {h}) \in {Cardinality(Unlocked), Cardinality(Unlocked) + 1}
  BY FS_AddElement DEF UnlockedInv
<1>5. /\ IsFiniteSet(AtDatabase)
      /\ Cardinality(AtDatabase) <= Cardinality(Unlocked \cup {h})
  BY <1>3, <1>4, FS_Subset
<1>6. Cardinality(AtDatabase) \in Nat /\ Cardinality(Unlocked) \in Nat /\ mishaps \in Nat
  BY <1>5, FS_CardinalityType DEF UnlockedInv, TypeOK, CallTypeOK
<1> QED
  BY <1>4, <1>5, <1>6 DEF UnlockedInv

\* Whatever fails, crashes, expires or is lost, as long as holders are prompt: a
\* waiter without an entry gets ErrRetryLocker and tries for the lock again, so
\* the callers at the database are the holder and those whose own call failed.
THEOREM FewLoadersAlways == Spec => []FewLoaders
<1>1. Init => LockInv /\ UnlockedInv
  BY LockInit, UnlockedInit
<1>2. LockInv /\ UnlockedInv /\ [Next]_vars => LockInv' /\ UnlockedInv'
  BY LockNext, UnlockedStep DEF LockInv
<1>3. LockInv /\ UnlockedInv => FewLoaders
  BY LoadersBound, HoldersAgree DEF LockInv, OneHolder, Holders
<1> QED
  BY <1>1, <1>2, <1>3, PTL DEF Spec
=============================================================================
