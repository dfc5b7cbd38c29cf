------------------------------- MODULE Clock -------------------------------
(***************************************************************************)
(* What every entcache component shares: the cache keys and the wall       *)
(* clock that time.Now() reads.  Time is counted in ticks; MaxTime bounds  *)
(* it.                                                                     *)
(***************************************************************************)
EXTENDS Integers

CONSTANTS
    Keys,        \* the cache keys (entity keys such as "User:42")
    MaxTime      \* bound: the clock stops here

ASSUME MaxTimeAssumption == MaxTime \in Nat

VARIABLE now

ClockInit == now = 0

Tick == /\ now < MaxTime
        /\ now' = now + 1

\* A value that may be absent (a nil pointer, a zero time.Time, a map miss)
\* is the empty set; a present one is a singleton.
Maybe(S) == {s \in SUBSET S : \A x, y \in s : x = y}
=============================================================================
