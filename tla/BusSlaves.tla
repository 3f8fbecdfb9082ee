------------------------------ MODULE BusSlaves ------------------------------
(***************************************************************************)
(* The slaves of a simple_bus that serves requests: a simple_bus_fast_mem, *)
(* which answers at once, and a simple_bus_slow_mem, which makes the bus   *)
(* repeat the call until WaitStates rising clock edges have passed.  Both  *)
(* are sets of word addresses of one memory; the bus refuses to start when *)
(* two slaves overlap (end_of_elaboration).                                *)
(***************************************************************************)
EXTENDS Integers

CONSTANTS
    FastAddr,       \* the word addresses of the fast memory
    SlowAddr,       \* the word addresses of the slow memory
    WaitStates,     \* m_nr_wait_states
    Modulus         \* 2^32: words are unsigned, modulo this number

VARIABLES
    words,          \* what the two memories hold
    m_wait_count    \* of the slow memory: -1 when it is idle

slaveVars == <<words, m_wait_count>>

Word == 0..Modulus - 1

SlaveAddr == FastAddr \cup SlowAddr

SlavesTypeOK ==
    /\ words \in [SlaveAddr -> Word]
    /\ m_wait_count \in -1..WaitStates

SlavesInit ==
    /\ words = [a \in SlaveAddr |-> 0]
    /\ m_wait_count = -1

\* read and write: the answer is SIMPLE_BUS_OK ...
Answers(a) == a \in FastAddr \/ (a \in SlowAddr /\ m_wait_count = 0)

\* ... or SIMPLE_BUS_WAIT, from a slow memory that accepts a call or is busy.
Delays(a) == a \in SlowAddr /\ m_wait_count # 0

CountWaitStates ==
    m_wait_count' = IF m_wait_count < 0 THEN WaitStates ELSE m_wait_count

\* wait_loop, at every rising clock edge.
WaitLoop ==
    m_wait_count' = IF m_wait_count >= 0 THEN m_wait_count - 1
                                         ELSE m_wait_count

\* Without wait states the count is back at -1 before the call is repeated,
\* and the slow memory never answers.
ASSUME SlavesAssumption ==
    /\ FastAddr \subseteq {a \in Nat : a % 4 = 0}
    /\ SlowAddr \subseteq {a \in Nat : a % 4 = 0}
    /\ FastAddr \cap SlowAddr = {}
    /\ WaitStates \in Nat \ {0}
    /\ Modulus \in Nat \ {0}
=============================================================================
