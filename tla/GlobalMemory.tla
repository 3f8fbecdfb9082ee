---------------------------- MODULE GlobalMemory ----------------------------
(***************************************************************************)
(* The global memory as its masters see it through simple_bus's direct     *)
(* interface: direct_read and direct_write find the slave by address and   *)
(* access it at once.  An access that is not word aligned, or that no      *)
(* slave covers, returns false and touches neither the memory nor the      *)
(* caller's variable; no caller in src/ looks at that result.              *)
(***************************************************************************)
EXTENDS Wiring

VARIABLE mem

\* The word aligned addresses that simple_bus_fast_mem covers.
GlobalAddr == {4 * n : n \in 0..(MemoryEnd \div 4)}

MemTypeOK == mem \in [GlobalAddr -> Word]

\* simple_bus_fast_mem's constructor clears the memory.
MemInit == mem = [a \in GlobalAddr |-> 0]

\* What the caller's variable holds after direct_read(&old, a).
DirectRead(a, old) == IF a \in GlobalAddr THEN mem[a] ELSE old

DirectWrite(a, v) ==
    mem' = IF a \in GlobalAddr THEN [mem EXCEPT ![a] = v] ELSE mem
=============================================================================
