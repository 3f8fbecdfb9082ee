----------------------------- MODULE BusService -----------------------------
(***************************************************************************)
(* What a bus promises to its callers.  Whatever its arbitration, locks    *)
(* and wait states (Safe): a caller has one request at a time; the words   *)
(* of a request are moved one by one, in order, each at once and exactly   *)
(* once, between the caller's buffer and the memory; a word the memory     *)
(* does not have ends the request; nothing else touches the memory, or a   *)
(* buffer whose request is not finished.  If the arbitration starves       *)
(* nobody (Spec): every request is finished eventually.                    *)
(***************************************************************************)
EXTENDS Integers

CONSTANTS Caller, Addr, NoRequest

VARIABLES
    words,      \* the memory
    buffer,     \* the callers' words
    request     \* of each caller: NoRequest, or what is still to be moved

serviceVars == <<words, buffer, request>>

Init ==
    /\ words = [a \in Addr |-> 0]
    /\ request = [m \in Caller |-> NoRequest]

OthersUntouched(m) ==
    \A n \in Caller \ {m} :
        buffer'[n] = buffer[n] /\ request'[n] = request[n]

\* The caller uses its buffer, or makes a request.
Call(m) ==
    /\ request[m] = NoRequest
    /\ request'[m] # NoRequest => request'[m].moved = 0
    /\ OthersUntouched(m)
    /\ UNCHANGED words

Move(m) ==
    /\ request[m] # NoRequest
    /\ LET r == request[m]
           a == r.address
       IN  /\ a \in Addr
           /\ IF r.do_write
                THEN /\ words' = [words EXCEPT ![a] = buffer[m][r.moved]]
                     /\ UNCHANGED buffer
                ELSE /\ buffer' = [buffer EXCEPT ![m][r.moved] = words[a]]
                     /\ UNCHANGED words
           /\ request' = [request EXCEPT ![m] =
                IF a = r.end_address THEN NoRequest
                ELSE [r EXCEPT !.address = a + 4, !.moved = @ + 1]]

Fail(m) ==
    /\ request[m] # NoRequest
    /\ request[m].address \notin Addr
    /\ request' = [request EXCEPT ![m] = NoRequest]
    /\ UNCHANGED <<words, buffer>>

Next == \E m \in Caller : Call(m) \/ Move(m) \/ Fail(m)

Safe == Init /\ [][Next]_serviceVars

Spec == Safe /\ \A m \in Caller : WF_serviceVars(Move(m) \/ Fail(m))
=============================================================================
