------------------------------ MODULE InputFile ------------------------------
(***************************************************************************)
(* The offline tool in src/generator that prepares the input of the        *)
(* device: it puts width and height before the pixels of an image,         *)
(* encrypts all of them with RC4 and writes a line for each, with a CRC    *)
(* computed as the device computes it.                                     *)
(***************************************************************************)
EXTENDS Packet, Rc4

\* ModuleTest::ModuleTest: the header, then the pixels row by row.
Elements(columns, rows, pixels) == <<columns, rows>> \o pixels

\* The state of RC4 in the iteration of Encryption::run for element n.
Key[n \in Nat] == IF n = 0 THEN KSA ELSE NextKey(Key[n - 1])

Encrypted(elements) ==
    [n \in 1..Len(elements) |-> XorWord(elements[n], KeyByte(Key[n]))]

\* ModuleTest::crcGenerator: a line for each element.
File(elements) ==
    [n \in 1..Len(elements) |->
        LET p == Encrypted(elements)[n]
        IN  [crc |-> Sha(p), pixel |-> p]]
=============================================================================
