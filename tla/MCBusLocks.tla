----------------------------- MODULE MCBusLocks -----------------------------
(***************************************************************************)
(* Two non-blocking masters and, after them in priority, a blocking one,   *)
(* on the memory of MCBus; each master with or without locks.  The burst   *)
(* runs from fast into slow memory.  The first two, with short rests,      *)
(* starve the third.                                                       *)
(***************************************************************************)
EXTENDS BusLocks, TLC

MCFast == {0, 4, 8}
MCSlow == {12}

LockMaster == {1, 2, 3}
LockBlocking == {3}
LockStart == 1 :> 8 @@ 2 :> 4 @@ 3 :> 4
=============================================================================
