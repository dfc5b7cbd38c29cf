---------------------------- MODULE MCRemoteLock ----------------------------
(* Instances of RemoteLock for TLC: two goroutines of one process and one    *)
(* of another.                                                               *)
EXTENDS RemoteLock, TLC
CONSTANTS p1, p2, p3, n1, n2

TwoAndOne == p1 :> n1 @@ p2 :> n1 @@ p3 :> n2
=============================================================================
