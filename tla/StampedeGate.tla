----------------------------- MODULE StampedeGate -----------------------------
(***************************************************************************)
(* What a StampedeLocker (entry.go) promises, whatever implements it: the  *)
(* callers that miss a key are gathered in rounds.  A round has one winner *)
(* and the callers that wait for it; nobody wins while a round is open,    *)
(* and its end wakes every one of its waiters at once.                     *)
(***************************************************************************)
CONSTANTS Keys, Procs

VARIABLES
    winner,      \* winner[k]: the winner of k's open round; {} if none is open
    waiters      \* waiters[k]: the callers waiting for k's open round

vars == <<winner, waiters>>

Init == /\ winner = [k \in Keys |-> {}]
        /\ waiters = [k \in Keys |-> {}]

\* LockOrWait returns won = true.
Win(k, p) == /\ winner[k] = {}
             /\ winner' = [winner EXCEPT ![k] = {p}]
             /\ UNCHANGED waiters

\* LockOrWait returns won = false and the caller blocks in wait.
Join(k, p) == /\ winner[k] # {}
              /\ waiters' = [waiters EXCEPT ![k] = @ \cup {p}]
              /\ UNCHANGED winner

\* Callers stop waiting before the round ends: a cancelled context, a failed
\* call, a process that goes down.
Leave(S) == /\ waiters' = [k \in Keys |-> waiters[k] \ S]
            /\ UNCHANGED winner

\* The entry was added, or release was called, or the lock of a winner that
\* is gone was taken away.
EndRound(k) == /\ winner[k] # {}
               /\ winner' = [winner EXCEPT ![k] = {}]
               /\ waiters' = [waiters EXCEPT ![k] = {}]

Next == \/ \E k \in Keys, p \in Procs : Win(k, p) \/ Join(k, p)
        \/ \E S \in SUBSET Procs : Leave(S)
        \/ \E k \in Keys : EndRound(k)

Spec == Init /\ [][Next]_vars

===============================================================================
