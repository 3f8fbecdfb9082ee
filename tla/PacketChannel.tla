---------------------------- MODULE PacketChannel ----------------------------
(***************************************************************************)
(* What the packet memory and its two flags promise: a channel with room   *)
(* for one line.  The lines of the file go through it in order, each once, *)
(* none is replaced before it was taken, and the receiver's image grows by *)
(* one word exactly when the line it takes is valid.                       *)
(***************************************************************************)
EXTENDS Integers, Sequences

CONSTANTS Lines, Valid(_)

VARIABLES
    put,        \* number of lines put into the channel
    slot,       \* <<>>, or <<l>> with the line in the channel
    imageEnd    \* address after the last word of the image

chanVars == <<put, slot, imageEnd>>

Init == put = 0 /\ slot = <<>> /\ imageEnd = 16

Put ==
    /\ slot = <<>> /\ put < Len(Lines)
    /\ put' = put + 1
    /\ slot' = <<Lines[put + 1]>>
    /\ UNCHANGED imageEnd

Take ==
    /\ slot # <<>>
    /\ slot' = <<>>
    /\ imageEnd' = IF Valid(slot[1]) THEN imageEnd + 4 ELSE imageEnd
    /\ UNCHANGED put

Safe == Init /\ [][Put \/ Take]_chanVars

\* Every line is put eventually, and every line put is taken.
Spec == Safe /\ WF_chanVars(Put) /\ WF_chanVars(Take)
=============================================================================
