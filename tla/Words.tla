-------------------------------- MODULE Words --------------------------------
(***************************************************************************)
(* An int of the program and the four bytes that a pixel packs in it.      *)
(* ByteSize scales both, so that TLC can check words of few values: bytes  *)
(* of 2 bits make words of 8.                                              *)
(***************************************************************************)
EXTENDS Integers, Sequences

CONSTANT ByteSize           \* 256: the values of a byte

Byte == 0..ByteSize - 1

\* The values of an int: as many negative ones as others.
WordSize == ByteSize * ByteSize * ByteSize * ByteSize
MaxInt == (WordSize \div 2) - 1
Word == MaxInt + 1 - WordSize .. MaxInt

\* What is left of a result that does not fit: its low bits.
Wrap(v) == LET low == v % WordSize
           IN  IF low > MaxInt THEN low - WordSize ELSE low

\* The channels of a pixel, red first; >> keeps the sign, & 0xff drops it.
unpack(pixel) ==
    << (pixel \div (ByteSize * ByteSize * ByteSize)) % ByteSize,
       (pixel \div (ByteSize * ByteSize)) % ByteSize,
       (pixel \div ByteSize) % ByteSize,
       pixel % ByteSize >>

pack(pix) ==
    Wrap(  pix[1] * (ByteSize * ByteSize * ByteSize)
         + pix[2] * (ByteSize * ByteSize)
         + pix[3] * ByteSize
         + pix[4])

ASSUME ByteAssumption == ByteSize \in Nat /\ ByteSize > 1
=============================================================================
