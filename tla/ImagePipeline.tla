---------------------------- MODULE ImagePipeline ----------------------------
(***************************************************************************)
(* What the device does to an image, without the threads, flags and        *)
(* addresses that do it.  The words arrive in order, are decrypted in      *)
(* place one after the other, and are handed over when all of them are.    *)
(* The pixels are then turned by 90 degrees into a picture, and of the     *)
(* picture the header and one word go back to the memory.  An image that   *)
(* is too large stays where it is handed over.                             *)
(*                                                                         *)
(* The picture is made of the words from "first" on.  It should be 3, the  *)
(* word behind the header; it may be 1.                                    *)
(***************************************************************************)
EXTENDS Integers, Sequences

CONSTANTS
    Sent,       \* the encrypted words, as they are sent
    Image       \* what they encrypt: width, height and the pixels

VARIABLES
    stage,      \* what is being done
    words,      \* the words in the memory
    first,      \* the word taken for the first pixel, 0 before the rotation
    picture     \* the rotated image, by column and row

pipeVars == <<stage, words, first, picture>>

Width == Image[1]
Height == Image[2]

Point == (0..Height - 1) \X (0..Width - 1)

\* The words from f on, turned clockwise.
Turned(f) == [p \in Point |-> Image[f + (p[2] + (Height - 1 - p[1]) * Width)]]

Init == stage = "receive" /\ words = <<>> /\ first = 0 /\ picture = <<>>

Receive ==
    /\ stage = "receive" /\ Len(words) < Len(Sent)
    /\ words' = Append(words, Sent[Len(words) + 1])
    /\ UNCHANGED <<stage, first, picture>>

Announce ==
    /\ stage = "receive" /\ words = Sent
    /\ stage' = "decrypt"
    /\ UNCHANGED <<words, first, picture>>

\* The next word that is still encrypted.
Decrypt ==
    /\ stage = "decrypt"
    /\ \E n \in 1..Len(Sent) :
          /\ \A m \in 1..Len(Sent) : words[m] = IF m < n THEN Image[m] ELSE Sent[m]
          /\ words' = [words EXCEPT ![n] = Image[n]]
    /\ UNCHANGED <<stage, first, picture>>

HandOver ==
    /\ stage = "decrypt" /\ words = Image
    /\ stage' = "rotate"
    /\ UNCHANGED <<words, first, picture>>

Rotate ==
    /\ stage = "rotate" /\ stage' = "save"
    /\ \E f \in {1, 3} : first' = f /\ picture' = Turned(f)
    /\ words' = [words EXCEPT ![1] = Height]

SaveHeight ==
    /\ stage = "save"
    /\ words' = [words EXCEPT ![2] = Width]
    /\ UNCHANGED <<stage, first, picture>>

\* Every pixel of the picture goes to the same word.
SavedAt == first + Width - 1

SavePixel ==
    /\ stage = "save"
    /\ \E p \in Point : words' = [words EXCEPT ![SavedAt] = picture[p]]
    /\ UNCHANGED <<stage, first, picture>>

Finish ==
    /\ stage = "save" /\ stage' = "done"
    /\ words[SavedAt] = picture[<<Height - 1, Width - 1>>]
    /\ \A n \in {1, 2} \ {SavedAt} : words[n] = <<Height, Width>>[n]
    /\ UNCHANGED <<words, first, picture>>

Next ==
    \/ Receive \/ Announce \/ Decrypt \/ HandOver
    \/ Rotate \/ SaveHeight \/ SavePixel \/ Finish

Spec == Init /\ [][Next]_pipeVars
=============================================================================
