------------------------------ MODULE DeviceRun ------------------------------
(***************************************************************************)
(* The device as sc_main runs it: sc_start(3000000, SC_NS) lets simulated  *)
(* time pass up to a limit.  Threads that are due at the limit do not run  *)
(* any more, and nothing runs after it.                                    *)
(***************************************************************************)
EXTENDS PacketTransfer

CONSTANT RunTime        \* 3000000 ns: how long sc_main lets the device run

VARIABLE now            \* simulated time

runVars == <<vars, now>>

RunInit == Init /\ now = 0

RunThread ==
    /\ now < RunTime
    /\ GeneratorStep \/ CommunicationStep \/ EncryptionStep \/ GpuStep
    /\ UNCHANGED now

\* Time passes to the thread due first, or ends before it is due.
RunTimeStep ==
    /\ now < RunTime
    /\ TimeStep
    /\ LET next == now + delay["gpu"] - delay'["gpu"]
       IN  now' = IF next > RunTime THEN RunTime ELSE next

RunNext == RunThread \/ RunTimeStep

RunSpec == RunInit /\ [][RunNext]_runVars /\ WF_runVars(RunNext)

ASSUME RunAssumption == RunTime \in Nat \ {0}

(***************************************************************************)
(* No packet takes less than a read of the operation flag by the generator *)
(* and one by the receiver, a write and a read of each word, and the write *)
(* of the pixel: the words stored so far bound the time that has passed.   *)
(***************************************************************************)
PacketTime == ComTimeout * (2 * PacketWords + 2) + Timeout

Stored == (memory_idx - 16) \div 4

Pace == Stored * PacketTime <= now

(***************************************************************************)
(* The simulated device gets as far as its description says: the image is  *)
(* received, decrypted and rotated before the simulation ends.             *)
(***************************************************************************)
RotatedInTime == <>(gpuPc = "stop")
=============================================================================
