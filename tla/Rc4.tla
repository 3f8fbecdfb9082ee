--------------------------------- MODULE Rc4 ---------------------------------
(***************************************************************************)
(* RC4 as simple_bus_encryption and the input file generator both have it: *)
(* a key schedule over the key "coprojeto", and a key stream of which one  *)
(* byte is XORed on all four channels of a word.  The state is the         *)
(* permutation s and PRGA's indices i and j.                               *)
(***************************************************************************)
EXTENDS Words

CONSTANT XorByte(_, _)      \* the exclusive or of two bytes

key_c == <<99, 111, 112, 114, 111, 106, 101, 116, 111>>
size_key == 9

Rc4State == [s : [Byte -> Byte], i : Byte, j : Byte]

Exchange(s, i, j) == [s EXCEPT ![i] = s[j], ![j] = s[i]]

\* The permutation and j after n iterations of the key schedule.
Scheduled[n \in 0..ByteSize] ==
    IF n = 0
      THEN [s |-> [m \in Byte |-> m], j |-> 0]
      ELSE LET p == Scheduled[n - 1]
               i == n - 1
               j == (p.j + p.s[i] + key_c[(i % size_key) + 1]) % ByteSize
           IN  [s |-> Exchange(p.s, i, j), j |-> j]

\* The state in which PRGA enters its loop.
KSA == [s |-> Scheduled[ByteSize].s, i |-> 0, j |-> 0]

\* What one iteration of PRGA does to the state before it uses it.
NextKey(r) ==
    LET i == (r.i + 1) % ByteSize
        j == (r.j + r.s[i]) % ByteSize
    IN  [s |-> Exchange(r.s, i, j), i |-> i, j |-> j]

KeyByte(r) == r.s[(r.s[r.i] + r.s[r.j]) % ByteSize]

XorWord(p, b) ==
    LET c == unpack(p)
    IN  pack(<<XorByte(c[1], b), XorByte(c[2], b),
               XorByte(c[3], b), XorByte(c[4], b)>>)

ASSUME XorAssumption ==
    \A a, b \in Byte : XorByte(a, b) \in Byte /\ XorByte(XorByte(a, b), b) = a
=============================================================================
