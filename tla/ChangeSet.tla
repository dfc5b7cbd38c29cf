----------------------------- MODULE ChangeSet -----------------------------
(***************************************************************************)
(* changeset.go: the table of entity keys changed by mutations.            *)
(***************************************************************************)
EXTENDS Clock

CONSTANTS
    ConfiguredGC,     \* the argument of NewChangeSet
    DefaultGC         \* defaultGCInterval

ASSUME ChangeSetAssumption == /\ ConfiguredGC \in Int
                              /\ DefaultGC \in Nat \ {0}

VARIABLE changes      \* changes[k]: the time k was last marked, if it is marked

CSTypeOK == changes \in [Keys -> Maybe(Nat)]

\* NewChangeSet: an interval that is not positive selects the default.
GCInterval == IF ConfiguredGC <= 0 THEN DefaultGC ELSE ConfiguredGC

CSInit == changes = [k \in Keys |-> {}]

\* The part of Mark done under the lock; t was read before the lock was taken.
Mark(ks, t) == changes' = [k \in Keys |-> IF k \in ks THEN {t} ELSE changes[k]]

Changed(k, since) == \E t \in changes[k] : t > since

Clear(k) == changes' = [changes EXCEPT ![k] = {}]

\* Mutant of gc: the cutoff is the time of the tick.
gcAll == /\ \E k \in Keys : \E t \in changes[k] : t < now
         /\ changes' = [k \in Keys |-> {t \in changes[k] : ~(t < now)}]

\* One tick of the gc goroutine.  A tick that removes nothing is a stutter.
gc == /\ \E k \in Keys : \E t \in changes[k] : t < now - GCInterval
      /\ changes' = [k \in Keys |->
                       {t \in changes[k] : ~(t < now - GCInterval)}]
=============================================================================
