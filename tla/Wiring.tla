------------------------------- MODULE Wiring -------------------------------
(***************************************************************************)
(* The top level simple_bus_test: which threads there are, the addresses   *)
(* and the periods they are constructed with.  The two memories:           *)
(*                                                                         *)
(*   global memory (simple_bus_fast_mem behind bus)                        *)
(*       0 image begin   4 image end   8 crypto flag  12 gpu flag          *)
(*      16 first word of the image: its width, and 20 its height           *)
(*   packet memory (inside master_communication, behind bus_communication) *)
(*       0 operation flag   4 end flag   8.. the words of one packet       *)
(*                                                                         *)
(* The sizes and the periods are constants so that TLC checks small        *)
(* instances; the comment beside each gives the value the code ships.      *)
(***************************************************************************)
EXTENDS Words

CONSTANTS
    Timeout,        \* 30 ns: the period of an access to the global memory
    ComTimeout,     \* 5 ns: the period of an access to the packet memory
    CrcWords,       \* 16: words of a packet that carry the CRC text
    MemoryEnd,      \* 16777215: last byte of the global memory
    ImageMaxSize    \* 8294400: pixels the GPU has buffers for

Thread == {"generator", "communication", "encryption", "gpu"}

MemoryBegin == 0
ComMemoryBegin == 0
PacketWords == CrcWords + 1
ComMemoryEnd == 4 * (PacketWords + 2) - 1          \* 75

ImageBeginAddr == 0
ImageEndAddr == 4
CryptoOpflag == 8
GpuOpflag == 12
ImageWidthAddr == 16
ImageHeightAddr == 20
ComOpflag == 0
ComEndOpflag == 4

ASSUME WiringAssumption ==
    /\ Timeout \in Nat \ {0}
    /\ ComTimeout \in Nat \ {0}
    /\ CrcWords \in Nat
    /\ ImageMaxSize \in Nat
    /\ MemoryEnd \in Nat
    /\ (MemoryEnd + 1) % 4 = 0         \* sc_assert of simple_bus_fast_mem
    /\ MemoryEnd >= 23                 \* the flags and the image header fit

\* The constants that the threads store are ints.
ASSUME WordAssumption == {0, 1, 16, 24} \subseteq Word
=============================================================================
