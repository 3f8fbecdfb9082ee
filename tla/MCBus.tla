------------------------------- MODULE MCBus -------------------------------
(***************************************************************************)
(* Instances of the bus: three words of fast memory and one, the next, of  *)
(* slow memory.  Bursts of three words have a first, an inner and a last   *)
(* one.  A non-blocking master walks from fast into slow memory and on to  *)
(* an address that no slave covers.                                        *)
(***************************************************************************)
EXTENDS BusProperties, TLC

MCFast == {0, 4, 8}
MCSlow == {12}

\* Data and progress: two masters on the same words.
DataMaster == {1, 2}
DataBlocking == {2}
DataStart == 1 :> 8 @@ 2 :> 4

\* A burst that starts in the memory and leaves it.
OutsideMaster == {1}
OutsideStart == 1 :> 8
=============================================================================
