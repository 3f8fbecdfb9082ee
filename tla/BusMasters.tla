----------------------------- MODULE BusMasters -----------------------------
(***************************************************************************)
(* A bus in use: simple_bus_master_blocking and                            *)
(* simple_bus_master_non_blocking on one simple_bus and its slaves.        *)
(*                                                                         *)
(* Masters run at rising clock edges, in any order, the bus at falling     *)
(* ones.  wait(m_timeout, SC_NS) followed by wait() is a rest of any       *)
(* number of clock cycles: it covers every m_timeout.                      *)
(***************************************************************************)
EXTENDS SimpleBus

CONSTANTS
    Blocking,       \* the blocking masters; the others are non-blocking
    StartAddress,   \* m_address or m_start_address of each master
    BurstLength,    \* mylength, 0x10
    Span            \* 0x80: distance of a non-blocking master's last word

VARIABLES
    clock,          \* "low" or "high"
    due,            \* masters that are still to run at this rising edge
    m_lock,         \* which masters lock the bus; any choice
    pc,             \* where each master is
    i,              \* loop index of a blocking master
    addr, cnt       \* of a non-blocking master

masterVars == <<pc, i, addr, cnt>>

vars == <<busVars, slaveVars, clock, due, m_lock, masterVars>>

NonBlocking == Master \ Blocking

MastersTypeOK ==
    /\ clock \in {"low", "high"}
    /\ due \subseteq Master
    /\ m_lock \in [Master -> BOOLEAN]
    /\ pc \in [Master -> {"top", "read", "add", "write"}]
    /\ i \in [Blocking -> 0..BurstLength]
    /\ addr \in [NonBlocking -> Nat]
    /\ cnt \in [NonBlocking -> Nat]
    /\ \A m \in NonBlocking :
          addr[m] \in StartAddress[m]..StartAddress[m] + Span /\ cnt[m] <= Span + 1

Init ==
    /\ BusInit /\ SlavesInit
    /\ clock = "low" /\ due = {}
    /\ m_lock \in [Master -> BOOLEAN]
    /\ pc = [m \in Master |-> "top"]
    /\ i = [m \in Blocking |-> 0]
    /\ addr = [m \in NonBlocking |-> StartAddress[m]]
    /\ cnt = [m \in NonBlocking |-> 0]

Goto(m, at) == pc' = [pc EXCEPT ![m] = at]

\* The caller's buffer after mydata[n] += v.
AddTo(m, n, v) == buffer' = [buffer EXCEPT ![m][n] = (@ + v) % Modulus]

\* A thread goes on waiting, for its timeout or for its transfer's status.
Rest(m) ==
    /\ pc[m] = "top" \/ (m \in NonBlocking /\ ~Finished(m))
    /\ UNCHANGED <<busVars, masterVars>>

-----------------------------------------------------------------------------

BurstRead(m) ==
    /\ pc[m] = "top"
    /\ Burst(m, FALSE, StartAddress[m], BurstLength, m_lock[m])
    /\ Goto(m, "read")
    /\ i' = [i EXCEPT ![m] = 0]
    /\ UNCHANGED <<m_current_request, buffer, addr, cnt>>

\* One iteration of the loop that adds i to the i-th word.
Add(m) ==
    /\ pc[m] \in {"read", "add"} /\ i[m] < BurstLength
    /\ AddTo(m, i[m], i[m])
    /\ i' = [i EXCEPT ![m] = @ + 1]
    /\ Goto(m, "add")
    /\ UNCHANGED <<form, m_current_request, waiting, addr, cnt>>

BurstWrite(m) ==
    /\ pc[m] = "add" /\ i[m] = BurstLength
    /\ Burst(m, TRUE, StartAddress[m], BurstLength, m_lock[m])
    /\ Goto(m, "write")
    /\ UNCHANGED <<m_current_request, buffer, i, addr, cnt>>

BurstWritten(m) ==
    /\ pc[m] = "write"
    /\ Goto(m, "top")
    /\ UNCHANGED <<busVars, i, addr, cnt>>

-----------------------------------------------------------------------------

Read(m) ==
    /\ pc[m] = "top"
    /\ Request(m, FALSE, addr[m], 1, m_lock[m])
    /\ Goto(m, "read")
    /\ UNCHANGED <<m_current_request, waiting, buffer, i, addr, cnt>>

\* The word was read, or could not be: add cnt and write it back.
Write(m) ==
    /\ pc[m] = "read" /\ Finished(m)
    /\ AddTo(m, 0, cnt[m])
    /\ cnt' = [cnt EXCEPT ![m] = @ + 1]
    /\ Request(m, TRUE, addr[m], 1, m_lock[m])
    /\ Goto(m, "write")
    /\ UNCHANGED <<m_current_request, waiting, i, addr>>

\* Mutant: the next word is requested at once, without a rest.
WrittenRestless(m) ==
    /\ pc[m] = "write" /\ Finished(m)
    /\ LET wrap == addr[m] + 4 > StartAddress[m] + Span
       IN  /\ addr' = [addr EXCEPT ![m] = IF wrap THEN StartAddress[m] ELSE @ + 4]
           /\ cnt' = [cnt EXCEPT ![m] = IF wrap THEN 0 ELSE @]
    /\ Request(m, FALSE, addr'[m], 1, m_lock[m])
    /\ Goto(m, "read")
    /\ UNCHANGED <<m_current_request, waiting, buffer, i>>

\* The word was written: move on to the next, before the rest rather than
\* after it.
Written(m) ==
    /\ pc[m] = "write" /\ Finished(m)
    /\ LET wrap == addr[m] + 4 > StartAddress[m] + Span
       IN  /\ addr' = [addr EXCEPT ![m] = IF wrap THEN StartAddress[m] ELSE @ + 4]
           /\ cnt' = [cnt EXCEPT ![m] = IF wrap THEN 0 ELSE @]
    /\ Goto(m, "top")
    /\ UNCHANGED <<busVars, i>>

-----------------------------------------------------------------------------

RunMaster ==
    \E m \in due \ waiting :
        /\ due' = due \ {m}
        /\ \/ Rest(m)
           \/ m \in Blocking /\ (BurstRead(m) \/ Add(m) \/ BurstWrite(m) \/ BurstWritten(m))
           \/ m \in NonBlocking /\ (Read(m) \/ Write(m) \/ Written(m))
        /\ UNCHANGED <<slaveVars, clock, m_lock>>

RisingEdge ==
    /\ clock = "low"
    /\ clock' = "high" /\ due' = Master
    /\ WaitLoop
    /\ UNCHANGED <<busVars, words, m_lock, masterVars>>

FallingEdge ==
    /\ clock = "high" /\ due \subseteq waiting
    /\ clock' = "low" /\ due' = {}
    /\ MainAction
    /\ UNCHANGED <<m_lock, masterVars>>

Next == RunMaster \/ RisingEdge \/ FallingEdge

\* The clock never stops, and the masters that are due run before it falls.
Spec == Init /\ [][Next]_vars /\ WF_vars(Next)

ASSUME MastersAssumption ==
    /\ Blocking \subseteq Master
    /\ StartAddress \in [Master -> Nat]
    /\ BurstLength \in 1..MaxLength
    /\ Span \in Nat
=============================================================================
