------------------------------ MODULE CryptoDIP ------------------------------
(***************************************************************************)
(* The whole device: the four threads of simple_bus_test on their two      *)
(* memories.                                                               *)
(*                                                                         *)
(*   generator --packet memory--> communication --global memory-->         *)
(*                                      encryption --global memory--> gpu  *)
(*                                                                         *)
(* Each hand-over is a flag word that one thread raises and the other      *)
(* polls and clears.  Nothing else synchronises the threads, so the order  *)
(* of their steps within one instant is open at every instant.             *)
(***************************************************************************)
EXTENDS Generator, Communication, Encryption, Gpu

vars == <<delay, mem, pmem, genVars, comVars, encVars, gpuVars>>

Init ==
    /\ KernelInit /\ MemInit /\ PacketMemInit
    /\ GeneratorInit /\ CommunicationInit /\ EncryptionInit /\ GpuInit

GeneratorStep ==
    GenNext /\ UNCHANGED <<mem, comVars, encVars, gpuVars>>

CommunicationStep ==
    ComNext /\ UNCHANGED <<genVars, encVars, gpuVars>>

EncryptionStep ==
    EncNext /\ UNCHANGED <<pmem, genVars, comVars, gpuVars>>

GpuStep ==
    GpuNext /\ UNCHANGED <<pmem, genVars, comVars, encVars>>

TimeStep ==
    Advance /\ UNCHANGED <<mem, pmem, genVars, comVars, encVars, gpuVars>>

Next ==
    \/ GeneratorStep \/ CommunicationStep \/ EncryptionStep \/ GpuStep
    \/ TimeStep

\* The kernel keeps running threads that are due, and otherwise advances.
Spec == Init /\ [][Next]_vars /\ WF_vars(Next)
=============================================================================
