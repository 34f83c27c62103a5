-------------------------- MODULE MCAtomicJsonFile --------------------------
(* Three processes: one leaves a lock behind, the other two come across it.   *)
EXTENDS AtomicJsonFile, TLC

CONSTANTS p1, p2, p3

MCProcs == {p1, p2, p3}
MCMaxUpdates == p1 :> 2 @@ p2 :> 1 @@ p3 :> 1
=============================================================================
