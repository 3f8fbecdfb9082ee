-------------------------- MODULE MCPacketTransfer --------------------------
(***************************************************************************)
(* Four lines, the second with a CRC that does not match, through packets  *)
(* of two CRC words and a pixel, over every initial content of the two     *)
(* flags of the packet memory: cleared, raised, or any other value (9).    *)
(* The memory ends behind the second word of the image, so the third is    *)
(* lost; and the first two announce an image of width 1 and height 5,      *)
(* which does not fit into the GPU's buffers of four pixels.               *)
(***************************************************************************)
EXTENDS PacketTransfer, Bitwise

MCXorByte(a, b) == a ^^ b

\* Channels that are not 0, read as digits.
MCDigest(c) ==
    LET Value[n \in 0..Len(c)] == IF n = 0 THEN 0 ELSE 3 * Value[n - 1] + c[n]
    IN  <<Value[Len(c)] \div 8, Value[Len(c)] % 8>>

Good(p) == [crc |-> Sha(p), pixel |-> p]
MCLines == << Good(-85), [crc |-> Sha(118), pixel |-> 117], Good(-6), Good(37) >>
=============================================================================
