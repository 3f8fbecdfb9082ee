---------------------------- MODULE MCImageFlow ----------------------------
(***************************************************************************)
(* An image of width 2 and height 3 with six different pixels whose alpha  *)
(* channel is 0, as the tool makes them, in bytes of two bits and packets  *)
(* of one CRC word.                                                        *)
(***************************************************************************)
EXTENDS ImageFlow, Bitwise

MCXorByte(a, b) == a ^^ b

Text(v) == [n \in 1..CrcWords |-> IF n = 1 THEN v ELSE 0]

\* Channels that are not 0, read as digits.
MCDigest(c) ==
    LET Value[n \in 0..Len(c)] == IF n = 0 THEN 0 ELSE 3 * Value[n - 1] + c[n]
    IN  Text(Value[Len(c)])

MCImage == <<2, 3, 76, 8, 24, 36, 4, 116>>

\* What File makes of it, written out (FileAssumption compares the two).
MCLines ==
    << [crc |-> Text(26),  pixel |-> -88], [crc |-> Text(39),  pixel |-> -4],
       [crc |-> Text(0),   pixel |-> 25],  [crc |-> Text(46),  pixel |-> 93],
       [crc |-> Text(105), pixel |-> -25], [crc |-> Text(99),  pixel |-> -37],
       [crc |-> Text(83),  pixel |-> -82], [crc |-> Text(2),   pixel |-> -117] >>
=============================================================================
