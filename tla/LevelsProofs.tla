---------------------------- MODULE LevelsProofs ----------------------------
(***************************************************************************)
(* Theorems about the multi-level cache, for any number of processes,      *)
(* queries, mutations, events and mishaps.                                 *)
(***************************************************************************)
EXTENDS MultiLevel, TLAPS

(***************************************************************************)
(* Type correctness.                                                       *)
(***************************************************************************)
LEMMA EntryType == {} \in Entries /\ \A v \in Nat : {v} \in Entries
BY DEF Entries

LEMMA NotifyType ==
    ASSUME TypeOK, Notify
    PROVE  /\ pending' \in [Nodes -> 0..MaxPending]
           /\ \A n \in Nodes : pending'[n] > 0
BY MultiLevelAssumption DEF Notify, TypeOK

LEMMA WrittenType ==
    ASSUME TypeOK, Written
    PROVE  pending' \in [Nodes -> 0..MaxPending]
BY NotifyType DEF Written, TypeOK

LEMMA AfterHitStage == AfterHit \in {"check", "idle"} /\ AfterHit \in Stages
BY DEF AfterHit, Stages

LEMMA CountType ==
    ASSUME TypeOK
    PROVE  (\A k : Mishap(k) => mishaps' \in Nat) /\ (AsPlanned => mishaps' \in Nat)
BY DEF TypeOK, Mishap, AsPlanned

LEMMA LookType ==
    ASSUME TypeOK, NEW n \in Nodes,
           Query(n) \/ GetShared(n) \/ Check(n) \/ Evict(n) \/ Load(n)
    PROVE  TypeOK'
<1> USE CountType DEF Goto, callVars
<1>1. CASE Query(n)
  BY <1>1, AfterHitStage DEF Query, TypeOK, Stages
<1>2. CASE GetShared(n)
  <2>1. \E s \in {AfterHit, "load", "idle"} : pc' = [pc EXCEPT ![n] = s]
    BY <1>2 DEF GetShared
  <2>2. mishaps' \in Nat
    BY <1>2 DEF GetShared
  <2> QED
    BY <1>2, <2>1, <2>2, AfterHitStage DEF GetShared, TypeOK, Stages
<1>3. CASE Check(n)
  BY <1>3 DEF Check, TypeOK, Stages
<1>4. CASE Evict(n)
  BY <1>4 DEF Evict, TypeOK, Stages
<1>5. CASE Load(n)
  <2>1. mishaps' \in Nat
    BY <1>5 DEF Load
  <2> QED
    BY <1>5, <2>1 DEF Load, TypeOK, Stages
<1> QED
  BY <1>1, <1>2, <1>3, <1>4, <1>5

LEMMA PublishToType ==
    ASSUME TypeOK, NEW n \in Nodes, NEW s \in Stages, PublishTo(s, n)
    PROVE  TypeOK'
<1>1. mishaps' \in Nat /\ pending' \in [Nodes -> 0..MaxPending] /\ owed' \subseteq Nodes
  BY CountType, NotifyType DEF PublishTo, TypeOK
<1> QED
  BY <1>1 DEF PublishTo, Goto, TypeOK

LEMMA WriteType ==
    ASSUME TypeOK, NEW n \in Nodes,
           \/ Drop(n) \/ DropShared(n) \/ DropPublish(n) \/ Unmark(n)
           \/ AddLocal(n) \/ AddShared(n) \/ Create(n) \/ Publish(n) \/ Clear(n)
    PROVE  TypeOK'
<1> USE EntryType DEF Goto, callVars, SetLocal
<1>0. after[n] \in Stages /\ got[n] \in Nat
  BY DEF TypeOK, Stages
<1>1. CASE Drop(n)
  BY <1>1 DEF Drop, TypeOK, Stages
<1>2. CASE DropShared(n)
  <2>1. /\ mishaps' \in Nat /\ pending' \in [Nodes -> 0..MaxPending] /\ shared' \in Entries
        /\ pc' \in [Nodes -> Stages]
    BY <1>0, <1>2, CountType, WrittenType DEF DropShared, TypeOK, Stages
  <2> QED
    BY <1>2, <2>1 DEF DropShared, TypeOK
<1>3. CASE DropPublish(n) \/ Publish(n)
  <2>1. "clear" \in Stages
    BY DEF Stages
  <2> QED
    BY <1>0, <1>3, <2>1, PublishToType DEF DropPublish, Publish
<1>4. CASE Unmark(n)
  BY <1>4 DEF Unmark, TypeOK, Stages
<1>5. CASE AddLocal(n)
  BY <1>0, <1>5 DEF AddLocal, TypeOK, Stages
<1>6. CASE AddShared(n)
  <2>1. /\ mishaps' \in Nat /\ pending' \in [Nodes -> 0..MaxPending] /\ shared' \in Entries
        /\ owed' \subseteq Nodes
    BY <1>0, <1>6, CountType, WrittenType DEF AddShared, TypeOK
  <2>2. pc' \in [Nodes -> Stages]
    BY <1>6 DEF AddShared, TypeOK, Stages
  <2> QED
    BY <1>6, <2>1, <2>2 DEF AddShared, TypeOK
<1>7. CASE Create(n)
  <2>1. mishaps' \in Nat /\ pending' \in [Nodes -> 0..MaxPending] /\ shared' \in Entries
    BY <1>0, <1>7, CountType, WrittenType DEF Create, TypeOK
  <2> QED
    BY <1>7, <2>1 DEF Create, TypeOK, Stages
<1>8. CASE Clear(n)
  BY <1>8 DEF Clear, TypeOK, Stages
<1> QED
  BY <1>1, <1>2, <1>3, <1>4, <1>5, <1>6, <1>7, <1>8

LEMMA WatchType ==
    ASSUME TypeOK, NEW n \in Nodes, Watch(n)
    PROVE  TypeOK'
<1> USE EntryType DEF callVars, SetLocal
<1>1. CASE Take(n)
  <2>1. local' \in [Nodes -> Entries] /\ owed' \subseteq Nodes
    BY <1>1 DEF Take, TypeOK
  <2>2. pending' \in [Nodes -> 0..MaxPending]
    <3>1. pending[n] - 1 \in 0..MaxPending
      BY <1>1, MultiLevelAssumption DEF Take, TypeOK
    <3> QED
      BY <1>1, <3>1 DEF Take, TypeOK
  <2> QED
    BY <1>1, <2>1, <2>2 DEF Take, TypeOK
<1>2. CASE WatchDrop(n)
  <2>1. /\ mishaps' \in Nat /\ pending' \in [Nodes -> 0..MaxPending] /\ shared' \in Entries
    BY <1>2, CountType, WrittenType DEF WatchDrop, TypeOK
  <2>2. watch' \in [Nodes -> {"idle", "dropShared", "publish", "mark"}]
    BY <1>2 DEF WatchDrop, TypeOK
  <2> QED
    BY <1>2, <2>1, <2>2 DEF WatchDrop, TypeOK
<1>3. CASE WatchPublish(n)
  <2>1. mishaps' \in Nat /\ pending' \in [Nodes -> 0..MaxPending] /\ owed' \subseteq Nodes
    BY <1>3, CountType, NotifyType DEF WatchPublish, TypeOK
  <2> QED
    BY <1>3, <2>1 DEF WatchPublish, TypeOK
<1>4. CASE WatchMark(n)
  <2>1. marked' \in [Nodes -> BOOLEAN]
    BY <1>4 DEF WatchMark, TypeOK
  <2>2. watch' \in [Nodes -> {"idle", "dropShared", "publish", "mark"}]
    BY <1>4 DEF WatchMark, TypeOK
  <2> QED
    BY <1>4, <2>1, <2>2 DEF WatchMark, TypeOK
<1> QED
  BY <1>1, <1>2, <1>3, <1>4 DEF Watch

LEMMA BacklogType == Backlog \subseteq 0..MaxPending
BY MultiLevelAssumption DEF Backlog

LEMMA AroundType ==
    ASSUME TypeOK,
           \/ \E n \in Nodes : Mutate(n) \/ MarkAges(n) \/ ExpireLocal(n) \/ Lose(n) \/ Restart(n)
           \/ ExpireShared
    PROVE  TypeOK'
<1> USE EntryType DEF callVars, SetLocal, Goto
<1>1. ASSUME NEW n \in Nodes, Mutate(n) PROVE TypeOK'
  <2>1. marked' \in [Nodes -> BOOLEAN]
    <3>1. tracked \in BOOLEAN
      BY MultiLevelAssumption DEF TypeOK
    <3> QED
      BY <1>1, <3>1 DEF Mutate, TypeOK
  <2> QED
    BY <1>1, <2>1 DEF Mutate, TypeOK
<1>2. ASSUME NEW n \in Nodes, ExpireLocal(n) PROVE TypeOK'
  BY <1>2, CountType DEF ExpireLocal, TypeOK
<1>3. ASSUME NEW n \in Nodes, Lose(n) PROVE TypeOK'
  <2>1. pending[n] - 1 \in 0..MaxPending
    BY <1>3, MultiLevelAssumption DEF Lose, TypeOK
  <2> QED
    BY <1>3, <2>1, CountType DEF Lose, TypeOK
<1>4. ASSUME NEW n \in Nodes, Restart(n) PROVE TypeOK'
  <2>1. pending' \in [Nodes -> 0..MaxPending] /\ mishaps' \in Nat
    BY <1>4, CountType, BacklogType DEF Restart, TypeOK
  <2>2. marked' \in [Nodes -> BOOLEAN]
    BY <1>4 DEF Restart, TypeOK
  <2>3. owed' \subseteq Nodes
    BY <1>4 DEF Restart, TypeOK
  <2> QED
    BY <1>4, <2>1, <2>2, <2>3 DEF Restart, TypeOK, Stages
<1>5. CASE ExpireShared
  BY <1>5, CountType DEF ExpireShared, TypeOK
<1>6. ASSUME NEW n \in Nodes, MarkAges(n) PROVE TypeOK'
  BY <1>6 DEF MarkAges, TypeOK
<1> QED
  BY <1>1, <1>2, <1>3, <1>4, <1>5, <1>6

LEMMA InitType == Init => TypeOK
<1> SUFFICES ASSUME Init PROVE TypeOK
  OBVIOUS
<1>1. marked \in [Nodes -> BOOLEAN] /\ tracked \in Tracking
  BY DEF Init
<1>2. pending \in [Nodes -> 0..MaxPending]
  BY BacklogType DEF Init
<1> QED
  BY <1>1, <1>2, EntryType DEF Init, TypeOK, Stages

LEMMA TypeStep == TypeOK /\ [Next]_vars => TypeOK'
<1> SUFFICES ASSUME TypeOK, [Next]_vars PROVE TypeOK'
  OBVIOUS
<1>1. CASE UNCHANGED vars
  BY <1>1 DEF vars, callVars, TypeOK
<1> QED
  BY <1>1, LookType, WriteType, WatchType, AroundType DEF Next, Call

\* Every variable of the multi-level cache keeps its type.
THEOREM LevelsTypeCorrect == Spec => []TypeOK
BY InitType, TypeStep, PTL DEF Spec

(***************************************************************************)
(* Coherence, if every event names its key as the LRU does.                *)
(***************************************************************************)
\* What an Add that has reached the shared level has left in the LRU; and once
\* it has deleted the entry there, its own event is waiting until it has been
\* applied to the LRU.
AddInv == \A n \in Nodes :
    /\ pc[n] \in {"addShared", "create"} => local[n] \in {{}, {got[n]}}
    /\ pc[n] = "create" => backend = "nats" /\ (local[n] = {} \/ pending[n] > 0)
    /\ pc[n] = "publish" => backend = "redis"

Writing == {"addShared", "create", "publish"}

\* A step of n's caller, away from the calls of Add, that leaves entries alone.
LEMMA LookCoheres ==
    ASSUME TypeOK, AddInv, Coherent, NEW n \in Nodes,
           pc[n] \notin Writing, NEW s \in Stages \ Writing, pc' = [pc EXCEPT ![n] = s],
           UNCHANGED <<backend, local, shared, pending, owed>>,
           \A m \in Nodes : m # n => got'[m] = got[m]
    PROVE  AddInv' /\ Coherent'
<1>1. pc \in [Nodes -> Stages]
  BY DEF TypeOK
<1>2. \A m \in Nodes : m # n => pc'[m] = pc[m]
  BY <1>1
<1>3. pc'[n] \notin Writing
  BY <1>1
<1>4. AddInv'
  BY <1>2, <1>3 DEF AddInv, Writing
<1>5. Coherent'
  BY <1>2, <1>3 DEF Coherent, Agree, Underway, Writing
<1> QED
  BY <1>4, <1>5

\* An event for everybody: something is underway everywhere.
LEMMA NotifyCoheres ==
    ASSUME TypeOK, Notify
    PROVE  Coherent' /\ \A n \in Nodes : pending'[n] > 0
BY NotifyType DEF Coherent, Underway

\* A deletion at the shared level.
LEMMA EmptyCoheres ==
    ASSUME shared' = {}
    PROVE  Coherent'
BY DEF Coherent, Agree

LEMMA CallCoheres ==
    ASSUME TypeOK, AddInv, Coherent, NEW n \in Nodes,
           Query(n) \/ Evict(n) \/ Call(n)
    PROVE  AddInv' /\ Coherent'
<1>0. /\ pc \in [Nodes -> Stages] /\ local \in [Nodes -> Entries] /\ got \in [Nodes -> Nat]
      /\ pending \in [Nodes -> 0..MaxPending] /\ owed \subseteq Nodes
  BY DEF TypeOK
<1> USE DEF Goto, callVars
<1>1. CASE Query(n) \/ GetShared(n) \/ Check(n) \/ Evict(n) \/ Load(n) \/ Unmark(n)
  <2>1. PICK s \in {AfterHit, "get", "load", "idle", "drop", "add"} : pc' = [pc EXCEPT ![n] = s]
    BY <1>1 DEF Query, GetShared, Check, Evict, Load, Unmark
  <2>2. s \in Stages \ Writing
    BY <2>1, AfterHitStage DEF Stages, Writing
  <2>3. pc[n] \notin Writing /\ UNCHANGED <<backend, local, shared, pending, owed>>
    BY <1>1 DEF Query, GetShared, Check, Evict, Load, Unmark, Writing
  <2>4. \A m \in Nodes : m # n => got'[m] = got[m]
    BY <1>0, <1>1 DEF Query, GetShared, Check, Evict, Load, Unmark
  <2> QED
    BY <2>1, <2>2, <2>3, <2>4, LookCoheres
<1>2. CASE Clear(n)
  BY <1>0, <1>2, LookCoheres DEF Clear, Writing, Stages
<1>3. CASE Drop(n)
  <2>1. /\ pc[n] = "drop" /\ pc' = [pc EXCEPT ![n] = "dropShared"]
        /\ local' = [local EXCEPT ![n] = {}] /\ owed' = owed \ {n}
        /\ UNCHANGED <<backend, shared, pending, got>>
    BY <1>3 DEF Drop, SetLocal
  <2>2. /\ \A m \in Nodes : m # n => pc'[m] = pc[m] /\ local'[m] = local[m]
        /\ pc'[n] = "dropShared" /\ local'[n] = {}
    BY <1>0, <2>1
  <2>3. AddInv'
    BY <2>1, <2>2 DEF AddInv
  <2>4. Coherent'
    BY <2>1, <2>2 DEF Coherent, Agree, Underway
  <2> QED
    BY <2>3, <2>4
<1>4. CASE DropShared(n)
  <2>1. PICK s \in {"dropPublish", "idle", "unmark"} : pc' = [pc EXCEPT ![n] = s]
    BY <1>4 DEF DropShared, TypeOK
  <2>2. CASE UNCHANGED <<shared, pending>>
    BY <1>4, <2>1, <2>2, LookCoheres DEF DropShared, Writing, Stages
  <2>3. CASE shared' = {} /\ Written
    <3>1. \A m \in Nodes : pending[m] > 0 => pending'[m] > 0
      BY <2>3, NotifyType DEF Written
    <3>2. pc[n] = "dropShared" /\ UNCHANGED <<backend, local, got>>
      BY <1>4 DEF DropShared
    <3>3. \A m \in Nodes : m # n => pc'[m] = pc[m]
      BY <1>0, <2>1
    <3>4. pc'[n] = s
      BY <1>0, <2>1
    <3>5. AddInv'
      BY <2>1, <3>1, <3>2, <3>3, <3>4 DEF AddInv
    <3> QED
      BY <2>3, <3>5, EmptyCoheres
  <2> QED
    BY <1>4, <2>2, <2>3 DEF DropShared
<1>5. CASE DropPublish(n) \/ Publish(n)
  <2>1. PICK s \in {"clear", "idle", "unmark"} : PublishTo(s, n) /\ pc' = [pc EXCEPT ![n] = s]
    BY <1>5 DEF DropPublish, Publish, PublishTo, TypeOK
  <2>2. UNCHANGED <<backend, local, got>>
    BY <2>1 DEF PublishTo
  <2>3. (Notify /\ UNCHANGED owed) \/ (owed' = Nodes /\ UNCHANGED pending)
    BY <2>1 DEF PublishTo
  <2>4. \A m \in Nodes : pending[m] > 0 => pending'[m] > 0
    BY <2>3, NotifyType
  <2>5. /\ \A m \in Nodes : m # n => pc'[m] = pc[m]
        /\ pc'[n] = s
    BY <1>0, <2>1
  <2>6. AddInv'
    BY <2>1, <2>2, <2>4, <2>5 DEF AddInv
  <2>7. Coherent'
    BY <2>3, NotifyCoheres DEF Coherent
  <2> QED
    BY <2>6, <2>7
<1>6. CASE AddLocal(n)
  <2>1. /\ pc[n] = "add" /\ pc' = [pc EXCEPT ![n] = "addShared"]
        /\ local' = [local EXCEPT ![n] = {got[n]}] /\ owed' = owed \ {n}
        /\ UNCHANGED <<backend, shared, pending, got>>
    BY <1>6 DEF AddLocal, SetLocal
  <2>2. /\ \A m \in Nodes : m # n => pc'[m] = pc[m] /\ local'[m] = local[m]
        /\ pc'[n] = "addShared" /\ local'[n] = {got[n]}
    BY <1>0, <2>1
  <2>3. AddInv'
    BY <2>1, <2>2 DEF AddInv
  <2>4. Coherent'
    BY <2>1, <2>2 DEF Coherent, Agree, Underway
  <2> QED
    BY <2>3, <2>4
<1>7. CASE AddShared(n)
  <2>1. pc[n] = "addShared" /\ UNCHANGED <<backend, local, got>>
    BY <1>7 DEF AddShared
  <2>2. CASE /\ shared' = {got[n]} /\ Written /\ UNCHANGED owed
             /\ pc' = [pc EXCEPT ![n] = IF backend = "redis" THEN "publish" ELSE "clear"]
    <3>1. \A m \in Nodes : pending[m] > 0 => pending'[m] > 0
      BY <2>2, NotifyType DEF Written
    <3>2. /\ \A m \in Nodes : m # n => pc'[m] = pc[m]
          /\ pc'[n] = IF backend = "redis" THEN "publish" ELSE "clear"
      BY <1>0, <2>2
    <3>3. AddInv'
      BY <2>1, <3>1, <3>2 DEF AddInv
    <3>4. CASE backend = "nats"
      BY <2>2, <3>3, <3>4, NotifyCoheres DEF Written
    <3>5. CASE backend # "nats"
      <4>1. pc'[n] = "publish"
        BY <3>2, <3>5, MultiLevelAssumption DEF TypeOK
      <4> QED
        BY <3>3, <4>1 DEF Coherent, Underway
    <3> QED
      BY <3>4, <3>5
  <2>3. CASE /\ backend = "nats" /\ shared' = {} /\ Written /\ UNCHANGED owed
             /\ pc' = [pc EXCEPT ![n] = "create"]
    <3>1. \A m \in Nodes : pending'[m] > 0
      BY <2>3, NotifyType DEF Written
    <3>2. /\ \A m \in Nodes : m # n => pc'[m] = pc[m]
          /\ pc'[n] = "create"
      BY <1>0, <2>3
    <3>3. AddInv'
      BY <2>1, <2>3, <3>1, <3>2 DEF AddInv
    <3> QED
      BY <2>3, <3>3, EmptyCoheres
  <2>4. CASE /\ owed' = owed \cup {n} /\ UNCHANGED <<shared, pending>>
             /\ pc' = [pc EXCEPT ![n] = "clear"]
    <3>1. /\ \A m \in Nodes : m # n => pc'[m] = pc[m]
          /\ pc'[n] = "clear"
      BY <1>0, <2>4
    <3>2. AddInv'
      BY <2>1, <2>4, <3>1 DEF AddInv
    <3>3. Coherent'
      BY <2>1, <2>4, <3>1 DEF Coherent, Agree, Underway
    <3> QED
      BY <3>2, <3>3
  <2> QED
    BY <1>7, <2>2, <2>3, <2>4 DEF AddShared
<1>8. CASE Create(n)
  <2>1. /\ pc[n] = "create" /\ UNCHANGED <<backend, local, got, owed>>
        /\ pc' = [pc EXCEPT ![n] = "clear"]
    BY <1>8 DEF Create
  <2>2. /\ \A m \in Nodes : m # n => pc'[m] = pc[m]
        /\ pc'[n] = "clear"
    BY <1>0, <2>1
  <2>3. backend = "nats" /\ (local[n] = {} \/ pending[n] > 0)
    BY <2>1 DEF AddInv
  <2>4. CASE Written
    <3>1. \A m \in Nodes : pending'[m] > 0
      BY <2>3, <2>4, NotifyType DEF Written
    <3>2. AddInv'
      BY <2>1, <2>2, <3>1 DEF AddInv
    <3> QED
      BY <2>3, <2>4, <3>2, NotifyCoheres DEF Written
  <2>5. CASE UNCHANGED <<shared, pending>>
    <3>1. AddInv'
      BY <2>1, <2>2, <2>5 DEF AddInv
    <3>2. Coherent'
      BY <2>1, <2>2, <2>3, <2>5 DEF Coherent, Agree, Underway
    <3> QED
      BY <3>1, <3>2
  <2> QED
    BY <1>8, <2>4, <2>5 DEF Create
<1> QED
  BY <1>1, <1>2, <1>3, <1>4, <1>5, <1>6, <1>7, <1>8 DEF Call

LEMMA WatchCoheres ==
    ASSUME TypeOK, AddInv, Coherent, Known, NEW n \in Nodes, Watch(n)
    PROVE  AddInv' /\ Coherent'
<1> USE DEF callVars
<1>1. CASE Take(n)
  <2>1. /\ UNCHANGED <<backend, shared, pc, got>>
        /\ pending' = [pending EXCEPT ![n] = pending[n] - 1]
        /\ local' = [local EXCEPT ![n] = {}] /\ owed' = owed \ {n}
    BY <1>1 DEF Take, SetLocal
  <2>2. /\ \A m \in Nodes : m # n => pending'[m] = pending[m] /\ local'[m] = local[m]
        /\ local'[n] = {}
    BY <2>1 DEF TypeOK
  <2>3. AddInv'
    BY <2>1, <2>2 DEF AddInv
  <2>4. Coherent'
    BY <2>1, <2>2 DEF Coherent, Agree, Underway
  <2> QED
    BY <2>3, <2>4
<1>2. CASE WatchDrop(n)
  <2>1. UNCHANGED <<backend, local, pc, got, owed>>
    BY <1>2 DEF WatchDrop
  <2>2. CASE UNCHANGED <<shared, pending>>
    BY <2>1, <2>2 DEF AddInv, Coherent, Agree, Underway
  <2>3. CASE shared' = {} /\ Written
    <3>1. \A m \in Nodes : pending[m] > 0 => pending'[m] > 0
      BY <2>3, NotifyType DEF Written
    <3> QED
      BY <2>1, <2>3, <3>1, EmptyCoheres DEF AddInv
  <2> QED
    BY <1>2, <2>2, <2>3 DEF WatchDrop
<1>3. CASE WatchPublish(n)
  <2>1. /\ UNCHANGED <<backend, local, shared, pc, got>>
        /\ (Notify /\ UNCHANGED owed) \/ (owed' = Nodes /\ UNCHANGED pending)
    BY <1>3 DEF WatchPublish
  <2>2. \A m \in Nodes : pending[m] > 0 => pending'[m] > 0
    BY <2>1, NotifyType
  <2>3. Coherent'
    BY <2>1, NotifyCoheres DEF Coherent
  <2> QED
    BY <2>1, <2>2, <2>3 DEF AddInv
<1>4. CASE WatchMark(n)
  BY <1>4 DEF WatchMark, AddInv, Coherent, Agree, Underway
<1> QED
  BY <1>1, <1>2, <1>3, <1>4 DEF Watch

LEMMA AroundCoheres ==
    ASSUME TypeOK, AddInv, Coherent,
           \/ \E n \in Nodes : Mutate(n) \/ MarkAges(n) \/ ExpireLocal(n) \/ Lose(n) \/ Restart(n)
           \/ ExpireShared
    PROVE  AddInv' /\ Coherent'
<1> USE DEF callVars, SetLocal, Goto
<1>1. ASSUME NEW n \in Nodes, Mutate(n) PROVE AddInv' /\ Coherent'
  BY <1>1 DEF Mutate, AddInv, Coherent, Agree, Underway
<1>2. ASSUME NEW n \in Nodes, ExpireLocal(n) PROVE AddInv' /\ Coherent'
  <2>1. /\ UNCHANGED <<backend, shared, pending, pc, got>> /\ owed' = owed \ {n}
        /\ \A m \in Nodes : m # n => local'[m] = local[m]
        /\ local'[n] = {}
    BY <1>2 DEF ExpireLocal, TypeOK
  <2> QED
    BY <2>1 DEF AddInv, Coherent, Agree, Underway
<1>3. ASSUME NEW n \in Nodes, Lose(n) PROVE AddInv' /\ Coherent'
  <2>1. /\ UNCHANGED <<backend, local, shared, pc, got>> /\ owed' = owed \cup {n}
        /\ \A m \in Nodes : m # n => pending'[m] = pending[m]
        /\ backend = "redis"
    BY <1>3 DEF Lose, TypeOK
  <2> QED
    BY <2>1 DEF AddInv, Coherent, Agree, Underway
<1>4. ASSUME NEW n \in Nodes, Restart(n) PROVE AddInv' /\ Coherent'
  <2>1. /\ UNCHANGED <<backend, shared>>
        /\ \A m \in Nodes : m # n => /\ pending'[m] = pending[m] /\ local'[m] = local[m]
                                       /\ pc'[m] = pc[m] /\ got'[m] = got[m]
        /\ pc'[n] = "idle" /\ local'[n] = {}
        /\ owed' = (IF pc[n] = "publish" THEN Nodes ELSE owed) \ {n}
    BY <1>4 DEF Restart, TypeOK
  <2>2. AddInv'
    BY <2>1 DEF AddInv
  <2>3. Coherent'
    BY <2>1 DEF Coherent, Agree, Underway
  <2> QED
    BY <2>2, <2>3
<1>5. CASE ExpireShared
  BY <1>5, EmptyCoheres DEF ExpireShared, AddInv
<1>6. ASSUME NEW n \in Nodes, MarkAges(n) PROVE AddInv' /\ Coherent'
  BY <1>6 DEF MarkAges, AddInv, Coherent, Agree, Underway
<1> QED
  BY <1>1, <1>2, <1>3, <1>4, <1>5, <1>6

\* However many processes there are and however their calls, the events and
\* the mishaps are interleaved, a process whose LRU entry differs from the
\* shared one has an event coming or an Add under way, unless it is owed one:
\* as long as no key contains ":", which NATS would report under another name.
THEOREM LevelsCohere == ~EntityKey /\ Spec => []Coherent
<1>1. Init => AddInv /\ Coherent
  BY DEF Init, AddInv, Coherent, Agree
<1>2. ASSUME ~EntityKey
      PROVE  TypeOK /\ AddInv /\ Coherent /\ [Next]_vars => (AddInv /\ Coherent)'
  <2> SUFFICES ASSUME TypeOK, AddInv, Coherent, [Next]_vars PROVE AddInv' /\ Coherent'
    OBVIOUS
  <2>1. Known
    BY <1>2 DEF Known
  <2>2. CASE UNCHANGED vars
    BY <2>2 DEF vars, callVars, AddInv, Coherent, Agree, Underway
  <2> QED
    BY <2>1, <2>2, CallCoheres, WatchCoheres, AroundCoheres DEF Next
<1>3. CASE EntityKey
  BY <1>3, PTL
<1>4. CASE ~EntityKey
  <2>1. TypeOK /\ AddInv /\ Coherent /\ [Next]_vars => (AddInv /\ Coherent)'
    BY <1>2, <1>4
  <2> QED
    BY <1>1, <2>1, InitType, TypeStep, PTL DEF Spec
<1> QED
  BY <1>3, <1>4
=============================================================================
