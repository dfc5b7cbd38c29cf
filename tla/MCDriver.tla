------------------------------ MODULE MCDriver ------------------------------
(* Instances of Driver for TLC: the option records a configuration uses.    *)
EXTENDS Driver, TLC

Plain     == [mode |-> "cache", ref |-> FALSE, ttl |-> 0, skipNotFound |-> FALSE]
ByKey     == [Plain EXCEPT !.ref = TRUE]
Evicting  == [Plain EXCEPT !.mode = "evict"]

SingleOptions    == {Plain}
StampedeOptions  == {Plain, Evicting}
FreshOptions     == {Plain, ByKey, Evicting}
KeyOptions       == {ByKey}

\* Goroutines are interchangeable where none of them is detached.
Goroutines == Permutations(Procs)
=============================================================================
