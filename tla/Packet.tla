------------------------------- MODULE Packet -------------------------------
(***************************************************************************)
(* A line of the input file and the packet made from it.  A line is a CRC  *)
(* text (64 characters, four to a word: CrcWords words) and a pixel (four  *)
(* channels in one word).                                                  *)
(*                                                                         *)
(* crc_generator makes a string of the four channels but digests only      *)
(* strlen of it: what follows a zero channel is not part of the CRC.       *)
(***************************************************************************)
EXTENDS GlobalMemory

CONSTANTS
    Lines,      \* the lines of ../resources/output.txt
    Digest(_)   \* the text of the SHA-256 of a string of channels

Line == [crc : [1..CrcWords -> Word], pixel : Word]

strlen(c) ==
    CHOOSE n \in 0..4 : /\ \A m \in 1..n : c[m] # 0
                        /\ n = 4 \/ c[n + 1] = 0

\* crc_generator: the CRC text of a pixel.
Sha(p) == LET c == unpack(p) IN Digest(SubSeq(c, 1, strlen(c)))

\* Gen_stream: the words of the CRC text, then the pixel.
Stream(l) ==
    [n \in 1..PacketWords |-> IF n <= CrcWords THEN l.crc[n] ELSE l.pixel]

\* check_crc(decode(packet)): the CRC computed for the pixel, which is the
\* last word, is compared with the words before it.
CheckCrc(packet) ==
    \A n \in 1..CrcWords : packet[n] = Sha(packet[PacketWords])[n]

ASSUME LinesAssumption ==
    /\ Lines \in Seq(Line)
    /\ \A p \in Word : Sha(p) \in [1..CrcWords -> Word]
    /\ \A n \in 0..Len(Lines) : 16 + 4 * n \in Word    \* memory_idx
=============================================================================
