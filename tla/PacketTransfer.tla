--------------------------- MODULE PacketTransfer ---------------------------
(***************************************************************************)
(* What is expected of the transfer of packets from the generator to the   *)
(* global memory.                                                          *)
(***************************************************************************)
EXTENDS CryptoDIP, FiniteSets

(***************************************************************************)
(* Type invariant of the composition: in particular a packet never grows   *)
(* beyond its words (packet.clear() of main_action in the communication    *)
(* module), and memory_idx counts no more pixels than there are lines.     *)
(***************************************************************************)
TypeOK ==
    /\ KernelTypeOK /\ MemTypeOK
    /\ pmem \in [PacketAddr -> Word]
    /\ GeneratorTypeOK /\ CommunicationTypeOK
    /\ EncryptionTypeOK /\ GpuTypeOK

(***************************************************************************)
(* While the communication module collects a packet, and until it has      *)
(* stored its pixel, what it collected are the words of the line that the  *)
(* generator sent last: no word of another packet, and no word the         *)
(* generator had not written yet.  The words travel one per 5 ns through a *)
(* memory both threads access, under the operation flag alone.             *)
(***************************************************************************)
PacketIntegrity ==
    comPc \in {"receive", "store"} =>
        \A n \in 1..Len(packet) : packet[n] = Stream(Lines[line])[n]

(***************************************************************************)
(* The two threads implement a one-slot channel: the slot is full from the *)
(* moment the generator raises the operation flag until the communication  *)
(* module clears it, and its content is what the words of the packet       *)
(* memory then decode to.                                                  *)
(***************************************************************************)
ValidLine(l) == l.crc = Sha(l.pixel)

DecodedLine ==
    [crc   |-> [n \in 1..CrcWords |-> pmem[WordAddr(n)]],
     pixel |-> pmem[WordAddr(PacketWords)]]

SlotFull == genPc # "start" /\ pmem[ComOpflag] = 1

LinesPut == IF genPc = "send" THEN line - 1 ELSE line

Channel == INSTANCE PacketChannel WITH
    Valid    <- ValidLine,
    put      <- LinesPut,
    slot     <- IF SlotFull THEN <<DecodedLine>> ELSE <<>>,
    imageEnd <- memory_idx

ChannelSafe == Channel!Safe
ChannelSpec == Channel!Spec

(***************************************************************************)
(* As long as the first image range has not been announced, the words      *)
(* stored from address 16 on are the pixels of the valid lines, in the     *)
(* order of the file and without a gap, and nothing is stored after them:  *)
(* a damaged line takes no place, and a pixel behind the end of the memory *)
(* disturbs no other.                                                      *)
(***************************************************************************)
ValidLines(n) == {m \in 1..n : ValidLine(Lines[m])}

\* Where the pixel of a valid line n belongs.
Place(n) == 12 + 4 * Cardinality(ValidLines(n))

StoredEnd == IF comPc = "store" THEN memory_idx + 4 ELSE memory_idx

StoredInOrder ==
    mem[ImageBeginAddr] = 0 =>
        \A a \in GlobalAddr : a >= 16 =>
            IF a < StoredEnd
              THEN \E n \in ValidLines(Len(Lines)) :
                       Place(n) = a /\ mem[a] = Lines[n].pixel
              ELSE mem[a] = 0

(***************************************************************************)
(* "Verify data integrity": of all pixels, a stored one is the only one    *)
(* whose CRC is that of its packet.                                        *)
(***************************************************************************)
CrcDeterminesPixel ==
    comPc = "store" =>
        \A p \in Word :
            (\A n \in 1..CrcWords : packet[n] = Sha(p)[n])
                => p = packet[PacketWords]

\* What the constructor of the packet memory means to achieve, of the word
\* for which it matters: nothing signals the end of the file at start.
EndFlagClear == pmem[ComEndOpflag] = 0

(***************************************************************************)
(* "check if received all packets": the communication module announces an  *)
(* image only when every line of the file went through the channel.        *)
(***************************************************************************)
FinishOnlyWhenComplete ==
    comPc \in {"begin", "range", "crypto"} =>
        line = Len(Lines) /\ genPc # "send" /\ pmem[ComOpflag] # 1

(***************************************************************************)
(* An image that does not fit the GPU's buffers is refused for good: from  *)
(* then on the flag stays raised and nothing is ever rotated; and the GPU  *)
(* reads the header again and again.  (If the end flag starts raised, the  *)
(* GPU may be given the header of an image that is still arriving.)        *)
(***************************************************************************)
Refused == gpuPc = "height" /\ Size > ImageMaxSize

Cleared == [n \in Cell |-> 0]

RefusedImageStays ==
    EndFlagClear => [](Refused => [](mem[GpuOpflag] = 1 /\ bufferB = Cleared))

RefusedForEver == EndFlagClear => [](Refused => []<>Refused)

(***************************************************************************)
(* "Tamanho max de imagem", "ERROR: image too big": an image with more     *)
(* pixels than the buffers hold is not rotated.  False: the size test      *)
(* looks at a product that may have overflown.  One lost line is enough.   *)
(* The words behind it move up, each meets the byte of the key stream of   *)
(* its neighbour, and if the line was one of the header, what the GPU      *)
(* takes for the height is a pixel.                                        *)
(***************************************************************************)
TooBigNotRotated ==
    gpuPc \in {"height", "fetch"} /\ Size <= ImageMaxSize => InBuffers

\* The end of the file is signalled eventually, and the encryption started.
EventuallyAnnounced == <>(comPc = "crypto" /\ line = Len(Lines))
=============================================================================
