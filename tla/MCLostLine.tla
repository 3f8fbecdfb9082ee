----------------------------- MODULE MCLostLine -----------------------------
(***************************************************************************)
(* The tool's file of an image of width 2 and height 3, whose first pixel  *)
(* is a bright red, in bytes of two bits and packets of one CRC word.  The *)
(* CRC of its second line, the height, was damaged on the way.             *)
(***************************************************************************)
EXTENDS PacketTransfer, InputFile, Bitwise

MCXorByte(a, b) == a ^^ b

\* Channels that are not 0, read as digits.
MCDigest(c) ==
    LET Value[n \in 0..Len(c)] == IF n = 0 THEN 0 ELSE 3 * Value[n - 1] + c[n]
    IN  << Value[Len(c)] >>

MCImage == Elements(2, 3, <<-48, 8, 24, 36, 4, 116>>)

MCLines == [File(MCImage) EXCEPT ![2].crc = << -1 >>]
=============================================================================
