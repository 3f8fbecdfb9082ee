---------------------------- MODULE Communication ----------------------------
(***************************************************************************)
(* simple_bus_master_com::main_action: the device's network port.  It      *)
(* collects each packet from the packet memory, checks its CRC, stores the *)
(* pixel of a good packet in the global memory and frees the packet slot.  *)
(* When the end flag is up it writes the image's range and starts the      *)
(* encryption module.                                                      *)
(*                                                                         *)
(* comPc names the wait the thread is at.  mydata is not kept: a word is   *)
(* pushed on the packet as it is read, the packet being local.             *)
(***************************************************************************)
EXTENDS SystemCKernel, PacketMemory, Packet

VARIABLES
    comPc,          \* the wait the communication thread is at
    read_en,        \* last flag read
    packet,         \* words of the packet received so far
    memory_idx      \* address for the next pixel

comVars == <<comPc, read_en, packet, memory_idx>>

CommunicationTypeOK ==
    /\ comPc \in {"start", "end", "op", "receive", "store", "ack",
                  "begin", "range", "crypto", "finish"}
    /\ read_en \in Word
    /\ packet \in Seq(Word)
    /\ Len(packet) <= PacketWords
    /\ memory_idx \in {16 + 4 * n : n \in 0..Len(Lines)}

CommunicationInit ==
    /\ comPc = "start"
    /\ read_en = 0 /\ packet = <<>> /\ memory_idx = 16

ComGoto(pc, period) ==
    /\ comPc' = pc
    /\ Wait("communication", period)

ComReady(pc) == Ready("communication") /\ comPc = pc

\* Clear the flags of the encryption module and the GPU in the global memory.
ComStart ==
    /\ ComReady("start")
    /\ mem' = [mem EXCEPT ![CryptoOpflag] = 0, ![GpuOpflag] = 0]
    /\ read_en' = pmem[ComEndOpflag]
    /\ ComGoto("end", ComTimeout)
    /\ UNCHANGED <<pmem, packet, memory_idx>>

\* The top of the loop; packet.clear() ends the branch of a received packet.
ComPoll ==
    /\ \/ ComReady("op") /\ read_en # 1
       \/ ComReady("ack")
       \/ ComReady("finish")
    /\ packet' = <<>>
    /\ read_en' = pmem[ComEndOpflag]
    /\ ComGoto("end", ComTimeout)
    /\ UNCHANGED <<mem, pmem, memory_idx>>

ComReadOpflag ==
    /\ ComReady("end") /\ read_en = 0
    /\ read_en' = pmem[ComOpflag]
    /\ ComGoto("op", ComTimeout)
    /\ UNCHANGED <<mem, pmem, packet, memory_idx>>

\* One iteration of the loop over the words of the packet.
ComReceiveWord ==
    /\ \/ ComReady("op") /\ read_en = 1
       \/ ComReady("receive")
    /\ Len(packet) < PacketWords
    /\ packet' = Append(packet, pmem[WordAddr(Len(packet) + 1)])
    /\ ComGoto("receive", ComTimeout)
    /\ UNCHANGED <<mem, pmem, read_en, memory_idx>>

PacketReceived == ComReady("receive") /\ Len(packet) = PacketWords

\* Mutant: the CRC of the packet is not checked.
ComStoreUnchecked ==
    /\ PacketReceived
    /\ DirectWrite(memory_idx, packet[PacketWords])
    /\ ComGoto("store", Timeout)
    /\ UNCHANGED <<pmem, read_en, packet, memory_idx>>

\* Mutant: the store takes no longer than an access to the packet memory.
ComStorePixelFast ==
    /\ PacketReceived /\ CheckCrc(packet)
    /\ DirectWrite(memory_idx, packet[PacketWords])
    /\ ComGoto("store", ComTimeout)
    /\ UNCHANGED <<pmem, read_en, packet, memory_idx>>

ComStorePixel ==
    /\ PacketReceived /\ CheckCrc(packet)
    /\ DirectWrite(memory_idx, packet[PacketWords])
    /\ ComGoto("store", Timeout)
    /\ UNCHANGED <<pmem, read_en, packet, memory_idx>>

\* Mutant: the slot is not freed.
ComReleaseKeepingFlag ==
    /\ \/ PacketReceived /\ ~CheckCrc(packet) /\ UNCHANGED memory_idx
       \/ ComReady("store") /\ memory_idx' = memory_idx + 4
    /\ ComGoto("ack", ComTimeout)
    /\ UNCHANGED <<mem, pmem, read_en, packet>>

\* Mutant: the address advances after a bad packet too.
ComReleaseAdvancing ==
    /\ \/ PacketReceived /\ ~CheckCrc(packet)
       \/ ComReady("store")
    /\ memory_idx' = memory_idx + 4
    /\ PacketWrite(ComOpflag, 0)
    /\ ComGoto("ack", ComTimeout)
    /\ UNCHANGED <<mem, read_en, packet>>

\* Free the slot: at once after a bad CRC, else once the pixel is stored.
ComRelease ==
    /\ \/ PacketReceived /\ ~CheckCrc(packet) /\ UNCHANGED memory_idx
       \/ ComReady("store") /\ memory_idx' = memory_idx + 4
    /\ PacketWrite(ComOpflag, 0)
    /\ ComGoto("ack", ComTimeout)
    /\ UNCHANGED <<mem, read_en, packet>>

\* FINISHED.  m_opflag and m_end_opflag address the packet memory, but their
\* values are also those of the words that hold the image's range.
ComSaveBegin ==
    /\ ComReady("end") /\ read_en # 0
    /\ DirectWrite(ComOpflag, ComMemoryBegin + 16)
    /\ ComGoto("begin", Timeout)
    /\ UNCHANGED <<pmem, read_en, packet, memory_idx>>

ComSaveEnd ==
    /\ ComReady("begin")
    /\ DirectWrite(ComEndOpflag, memory_idx)
    /\ ComGoto("range", Timeout)
    /\ UNCHANGED <<pmem, read_en, packet, memory_idx>>

ComStartCrypto ==
    /\ ComReady("range")
    /\ DirectWrite(CryptoOpflag, 1)
    /\ ComGoto("crypto", Timeout)
    /\ UNCHANGED <<pmem, read_en, packet, memory_idx>>

ComClearEnd ==
    /\ ComReady("crypto")
    /\ read_en' = 0
    /\ PacketWrite(ComEndOpflag, 0)
    /\ ComGoto("finish", ComTimeout)
    /\ UNCHANGED <<mem, packet, memory_idx>>

ComNext ==
    \/ ComStart \/ ComPoll \/ ComReadOpflag \/ ComReceiveWord
    \/ ComStorePixel \/ ComRelease
    \/ ComSaveBegin \/ ComSaveEnd \/ ComStartCrypto \/ ComClearEnd
=============================================================================
