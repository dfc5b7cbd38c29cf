----------------------------- MODULE GateProofs -----------------------------
(***************************************************************************)
(* The local stampede lock implements StampedeGate: each of the six kinds  *)
(* of step in DriverProofs maps to a step of the gate or to a stutter.     *)
(***************************************************************************)
EXTENDS DriverProofs

Winners == [k \in Keys |-> RoundWinner(k)]
Waiters == [k \in Keys |-> RoundWaiters(k)]

\* Those who wait on the channel that is registered for k.
Enrolled(k) == {p \in Procs : /\ pc[p] = "wait" /\ call[p].key = k
                              /\ chan[p] = waits[k]}

\* They are the ones that have not been woken: no channel is unregistered
\* before it is closed, or stays registered after.
LEMMA WaitersAgree == ASSUME RoundInv, NEW k \in Keys PROVE RoundWaiters(k) = Enrolled(k)
<1> SUFFICES ASSUME NEW p \in Procs, pc[p] = "wait", call[p].key = k
             PROVE  chan[p] \notin closed <=> chan[p] = waits[k]
  BY DEF RoundWaiters, Enrolled
<1> QED
  BY DEF RoundInv

LEMMA WaitersStillAgree ==
    ASSUME RoundInv', NEW k \in Keys PROVE RoundWaiters(k)' = Enrolled(k)'
<1> SUFFICES ASSUME NEW p \in Procs, pc'[p] = "wait", call'[p].key = k
             PROVE  chan'[p] \notin closed' <=> chan'[p] = waits'[k]
  BY DEF RoundWaiters, Enrolled
<1> QED
  BY DEF RoundInv

\* A round that is open has a winner, one that is not has nobody.
LEMMA OpenRounds ==
    ASSUME TypeOK, RoundInv, NEW k \in Keys
    PROVE  /\ waits[k] = NoChan => RoundWinner(k) = {} /\ Enrolled(k) = {}
           /\ waits[k] # NoChan => RoundWinner(k) # {}
<1>1. CASE waits[k] = NoChan
  <2>1. \A p \in Holders : chan[p] # waits[k]
    BY <1>1, HoldersAreProcs
  <2>2. \A p \in Procs : pc[p] = "wait" => chan[p] # waits[k]
    BY <1>1 DEF RoundInv
  <2> QED
    BY <1>1, <2>1, <2>2 DEF RoundWinner, Enrolled
<1>2. CASE waits[k] # NoChan
  BY <1>2 DEF RoundInv, RoundWinner
<1> QED
  BY <1>1, <1>2

\* The mapping of the state after a step only depends on the roles and on
\* which channels are registered.
LEMMA SameRounds ==
    ASSUME TypeOK, RoundInv, SameRoles, NEW k \in Keys, waits'[k] = waits[k]
    PROVE  RoundWinner(k)' = RoundWinner(k) /\ Enrolled(k)' = Enrolled(k)
<1>1. \A p \in Holders : call'[p] = call[p]
  BY HoldersAreProcs DEF SameRoles
<1>2. \A p \in Procs : pc[p] = "wait" => call'[p] = call[p]
  BY DEF SameRoles, RoundInv
<1>3. RoundWinner(k)' = RoundWinner(k)
  BY <1>1 DEF SameRoles, RoundWinner
<1>4. Enrolled(k)' = Enrolled(k)
  BY <1>2 DEF SameRoles, Enrolled
<1> QED
  BY <1>3, <1>4

LEMMA NeutralGate ==
    ASSUME TypeOK, RoundInv, RoundInv', Neutral
    PROVE  Winners' = Winners /\ Waiters' = Waiters
<1>1. \A k \in Keys : waits'[k] = waits[k]
  BY DEF Neutral, lockVars
<1> QED
  BY <1>1, SameRounds, WaitersAgree, WaitersStillAgree DEF Neutral, Winners, Waiters

LEMMA NotifyGate ==
    ASSUME TypeOK, RoundInv, RoundInv', TypeOK', NEW k \in Keys, Notifies(k)
    PROVE  \/ Gate!EndRound(k)
           \/ Winners' = Winners /\ Waiters' = Waiters
<1>1. CASE waits[k] = NoChan
  BY <1>1, NeutralGate DEF Notifies, Notify, Neutral
<1>2. CASE waits[k] # NoChan
  <2>1. waits' = [waits EXCEPT ![k] = NoChan]
    BY <1>2 DEF Notifies, Notify
  <2>2. \A j \in Keys \ {k} : RoundWinner(j)' = RoundWinner(j) /\ Enrolled(j)' = Enrolled(j)
    BY <2>1, SameRounds DEF Notifies, TypeOK, LCTypeOK
  <2>3. waits'[k] = NoChan
    BY <2>1 DEF TypeOK, LCTypeOK
  <2>4. (waits[k] = NoChan)' => (RoundWinner(k) = {} /\ Enrolled(k) = {})'
    BY OpenRounds, PTL
  <2>5. RoundWinner(k)' = {} /\ Enrolled(k)' = {} /\ RoundWinner(k) # {}
    BY <1>2, <2>3, <2>4, OpenRounds
  <2> QED
    BY <2>2, <2>5, WaitersAgree, WaitersStillAgree DEF Gate!EndRound
<1> QED
  BY <1>1, <1>2

LEMMA RegisterGate ==
    ASSUME TypeOK, RoundInv, RoundInv', NEW p \in Procs, Registers(p),
           NEW k \in Keys, call[p].key = k
    PROVE  Gate!Win(k, p)
<1>1. /\ waits' = [waits EXCEPT ![k] = issued + 1] /\ UNCHANGED call
      /\ pc' = [pc EXCEPT ![p] = "load"] /\ chan' = [chan EXCEPT ![p] = issued + 1]
      /\ pc[p] = "lock" /\ waits[k] = NoChan
  BY DEF Registers, Register, Goto
<1>2. /\ \A q \in Procs \ {p} : chan'[q] = chan[q] /\ pc'[q] = pc[q]
      /\ chan'[p] = issued + 1 /\ pc'[p] = "load" /\ waits'[k] = issued + 1
      /\ \A j \in Keys \ {k} : waits'[j] = waits[j]
  BY <1>1 DEF TypeOK, ProcTypeOK, LCTypeOK
<1>3. issued \in Nat /\ \A q \in Procs : chan[q] \in Nat /\ chan[q] <= issued
  BY DEF TypeOK, ProcTypeOK, LCTypeOK, RoundInv, NoChan
<1>4. RoundWinner(k) = {}
  BY <1>1, OpenRounds
<1>5. RoundWinner(k)' = {p}
  BY <1>1, <1>2, <1>3 DEF RoundWinner, Holders, NoChan
<1>6. Enrolled(k)' = Enrolled(k)
  <2>1. Enrolled(k)' = {}
    BY <1>2, <1>3 DEF Enrolled
  <2> QED
    BY <1>1, <2>1, OpenRounds
<1>7. \A j \in Keys \ {k} : RoundWinner(j)' = RoundWinner(j) /\ Enrolled(j)' = Enrolled(j)
  BY <1>1, <1>2 DEF RoundWinner, Enrolled, Holders
<1> QED
  BY <1>4, <1>5, <1>6, <1>7, WaitersAgree, WaitersStillAgree DEF Gate!Win

LEMMA JoinGate ==
    ASSUME TypeOK, RoundInv, RoundInv', NEW p \in Procs, Joins(p),
           NEW k \in Keys, call[p].key = k
    PROVE  Gate!Join(k, p)
<1>1. /\ waits' = waits /\ UNCHANGED call /\ pc[p] = "lock" /\ waits[k] # NoChan
      /\ pc' = [pc EXCEPT ![p] = "wait"] /\ chan' = [chan EXCEPT ![p] = waits[k]]
  BY DEF Joins, lockVars, Goto
<1>2. /\ \A q \in Procs \ {p} : chan'[q] = chan[q] /\ pc'[q] = pc[q]
      /\ chan'[p] = waits[k] /\ pc'[p] = "wait"
  BY <1>1 DEF TypeOK, ProcTypeOK
<1>3. \A j \in Keys : RoundWinner(j)' = RoundWinner(j)
  BY <1>1, <1>2 DEF RoundWinner, Holders
<1>4. Enrolled(k)' = Enrolled(k) \cup {p}
  BY <1>1, <1>2 DEF Enrolled
<1>5. \A j \in Keys \ {k} : Enrolled(j)' = Enrolled(j)
  BY <1>1, <1>2 DEF Enrolled
<1>6. RoundWinner(k) # {}
  BY <1>1, OpenRounds
<1> QED
  BY <1>3, <1>4, <1>5, <1>6, WaitersAgree, WaitersStillAgree DEF Gate!Join

LEMMA LeaveGate ==
    ASSUME TypeOK, RoundInv, RoundInv', NEW p \in Procs, Leaves(p)
    PROVE  Gate!Leave({p})
<1>1. PICK s \in Stages \ {"wait"} : pc' = [pc EXCEPT ![p] = s]
  BY DEF Leaves, Goto
<1>2. /\ waits' = waits /\ UNCHANGED call /\ chan' = [chan EXCEPT ![p] = NoChan]
      /\ \A k \in Keys : waits[k] # NoChan /\ p \in Holders => waits[k] # chan[p]
  BY DEF Leaves, lockVars
<1>3. /\ \A q \in Procs \ {p} : chan'[q] = chan[q] /\ pc'[q] = pc[q]
      /\ chan'[p] = NoChan /\ pc'[p] # "wait"
  BY <1>1, <1>2 DEF TypeOK, ProcTypeOK
<1>4. ASSUME NEW k \in Keys PROVE RoundWinner(k)' = RoundWinner(k)
  <2>1. p \notin RoundWinner(k)
    BY <1>2, HoldersAreProcs DEF RoundWinner
  <2>2. p \notin RoundWinner(k)'
    BY <1>3 DEF RoundWinner, Holders
  <2> QED
    BY <1>2, <1>3, <2>1, <2>2 DEF RoundWinner, Holders
<1>5. ASSUME NEW k \in Keys PROVE Enrolled(k)' = Enrolled(k) \ {p}
  BY <1>2, <1>3 DEF Enrolled
<1> QED
  BY <1>4, <1>5, WaitersAgree, WaitersStillAgree DEF Gate!Leave

LEMMA EndGate ==
    ASSUME TypeOK, RoundInv, TypeOK', RoundInv', NEW p \in Procs, Ends(p),
           NEW k \in Keys, call[p].key = k
    PROVE  Gate!EndRound(k)
<1>1. PICK s \in Quiet : pc' = [pc EXCEPT ![p] = s]
  BY DEF Ends, Goto
<1>2. /\ waits' = [waits EXCEPT ![k] = NoChan] /\ UNCHANGED call /\ p \in Holders
      /\ waits[k] = chan[p] /\ chan[p] # NoChan /\ chan' = [chan EXCEPT ![p] = NoChan]
  BY HoldersAreProcs DEF Ends
<1>3. /\ \A q \in Procs \ {p} : chan'[q] = chan[q] /\ pc'[q] = pc[q]
      /\ chan'[p] = NoChan /\ pc[p] # "wait" /\ pc'[p] # "wait" /\ waits'[k] = NoChan
      /\ \A j \in Keys \ {k} : waits'[j] = waits[j]
  BY <1>1, <1>2 DEF TypeOK, ProcTypeOK, LCTypeOK, Quiet, Holders
<1>4. ASSUME NEW j \in Keys \ {k}
      PROVE  RoundWinner(j)' = RoundWinner(j) /\ Enrolled(j)' = Enrolled(j)
  BY <1>2, <1>3 DEF RoundWinner, Enrolled, Holders
<1>5. (waits[k] = NoChan)' => RoundWinner(k)' = {} /\ Enrolled(k)' = {}
  <2>1. \A j \in Keys : waits[j] = NoChan => RoundWinner(j) = {} /\ Enrolled(j) = {}
    BY OpenRounds
  <2> QED
    BY <1>2, <1>3 DEF RoundWinner, Enrolled, RoundInv, Holders
<1>6. RoundWinner(k) # {}
  BY <1>2, OpenRounds
<1> QED
  <2>1. RoundWinner(k)' = {} /\ RoundWaiters(k)' = {}
    BY <1>3, <1>5, WaitersStillAgree
  <2>2. \A j \in Keys \ {k} : RoundWaiters(j)' = RoundWaiters(j)
    BY <1>4, WaitersAgree, WaitersStillAgree
  <2> QED
    BY <1>4, <1>6, <2>1, <2>2 DEF Gate!EndRound

LEMMA InitGate == Init => Gate!Init
<1> SUFFICES ASSUME Init PROVE Gate!Init
  OBVIOUS
<1>1. \A p \in Procs : pc[p] = "idle"
  BY DEF Init
<1>2. \A k \in Keys : RoundWinner(k) = {} /\ RoundWaiters(k) = {}
  BY <1>1 DEF RoundWinner, RoundWaiters, Holders
<1> QED
  BY <1>2 DEF Gate!Init

LEMMA StepGate ==
    ASSUME TypeOK, RoundInv, TypeOK', RoundInv', RoundStep
    PROVE  [Gate!Next]_(Gate!vars)
<1>1. CASE Winners' = Winners /\ Waiters' = Waiters
  BY <1>1 DEF Winners, Waiters, Gate!vars
<1>2. CASE Neutral
  BY <1>1, <1>2, NeutralGate
<1>3. ASSUME NEW k \in Keys, Notifies(k) PROVE Gate!Next \/ (Winners' = Winners /\ Waiters' = Waiters)
  BY <1>3, NotifyGate DEF Gate!Next
<1>4. ASSUME NEW p \in Procs, Registers(p) \/ Joins(p) \/ Leaves(p) \/ Ends(p) PROVE Gate!Next
  <2>1. call[p].key \in Keys
    BY DEF TypeOK, ProcTypeOK, CallType
  <2>2. {p} \in SUBSET Procs
    OBVIOUS
  <2> QED
    BY <1>4, <2>1, <2>2, RegisterGate, JoinGate, LeaveGate, EndGate DEF Gate!Next
<1> QED
  BY <1>1, <1>2, <1>3, <1>4 DEF RoundStep

\* LockOrWait, wait, Add and release of the in-process levels, in every
\* interleaving and with every failure, behave as a StampedeGate.
THEOREM LocalLockIsAGate == Spec => RefinesGate
<1>1. Init => Gate!Init
  BY InitGate
<1>2. TypeOK /\ RoundInv /\ (TypeOK /\ RoundInv)' /\ [Next]_vars => [Gate!Next]_(Gate!vars)
  BY StepKind, StepGate
<1> QED
  BY <1>1, <1>2, TypeCorrect, RoundsAreOwned, PTL DEF Spec, RefinesGate, Gate!Spec
=============================================================================
