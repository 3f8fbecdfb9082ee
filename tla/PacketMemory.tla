---------------------------- MODULE PacketMemory ----------------------------
(***************************************************************************)
(* The packet memory MEM of simple_bus_master_com.  The generator reaches  *)
(* it as the slave of bus_communication, the communication thread reads    *)
(* and writes it directly; every address either of them uses is a word of  *)
(* the memory, so the address checks of the bus never fire here.           *)
(*                                                                         *)
(* The constructor computes its size as (start - start + 1) / 4 = 0, so    *)
(* nothing clears the words: they start with what the heap held, FreshMem. *)
(* FreshMem = {0} is the memory the constructor's loop means to produce.   *)
(***************************************************************************)
EXTENDS Wiring

CONSTANT FreshMem           \* what an uninitialised word may hold

VARIABLE pmem

PacketAddr == {4 * n : n \in 0..PacketWords + 1}

\* The address of the n-th word of the packet, n from 1.
WordAddr(n) == ComMemoryBegin + 8 + 4 * (n - 1)

PacketMemInit == pmem \in [PacketAddr -> FreshMem]

PacketWrite(a, v) == pmem' = [pmem EXCEPT ![a] = v]

ASSUME FreshMemAssumption == FreshMem \subseteq Word /\ FreshMem # {}
=============================================================================
