------------------------------ MODULE BusLocks ------------------------------
(***************************************************************************)
(* What a lock and what a priority is worth, in history variables.  holder *)
(* is the master that moved a word with its lock granted and has not been  *)
(* without a request at a falling edge since then; granted tells whether   *)
(* that word is the last one it has moved.  overtaken counts, for each     *)
(* request, the turns that masters with a larger number, hence a lower     *)
(* priority, have had at the bus while it was open.                        *)
(***************************************************************************)
EXTENDS BusProperties

VARIABLES holder, granted, overtaken

lockingVars == <<vars, holder, granted, overtaken>>

HistoryInit ==
    /\ holder = None /\ granted = FALSE
    /\ overtaken = [m \in Master |-> 0]

MovedLocked(m) == m \in Selected /\ LockOf(m) = "GRANTED" /\ Answers(form[m].address)

Busy == m_current_request' # None

HolderNext ==
    IF clock = "high" /\ clock' = "low"
      THEN \/ \E m \in Master : MovedLocked(m) /\ holder' = m /\ granted' = TRUE
           \/ /\ \A m \in Master : ~MovedLocked(m)
              /\ holder' = IF holder \in Pending THEN holder ELSE None
              /\ granted' = (granted /\ Busy)
      ELSE UNCHANGED <<holder, granted>>

\* A word of n is moved, or its request refused.
Turn(n) == n \in Selected /\ ~Delays(form[n].address)

Overtakes(m) ==
    clock = "high" /\ clock' = "low" /\ \E n \in Master : n > m /\ Turn(n)

OvertakenNext ==
    overtaken' = [m \in Master |->
        IF m \notin Pending' THEN 0
        ELSE overtaken[m] + IF Overtakes(m) THEN 1 ELSE 0]

LockingSpec ==
    /\ Init /\ HistoryInit
    /\ [][Next /\ HolderNext /\ OvertakenNext]_lockingVars
    /\ WF_vars(Next)

(***************************************************************************)
(* "lock is set at previous call": after a word moved with a granted lock  *)
(* the master is served again before any other, whatever the priorities,   *)
(* if it has more words to move or makes its next request at once.         *)
(***************************************************************************)
GrantServed ==
    granted /\ holder \in Pending /\ clock = "high" => Selected \subseteq {holder}

(***************************************************************************)
(* "cannot break-in a locked burst": the bus works for the holder until it *)
(* has no more words to move.  False: the first rule of the arbiter does   *)
(* not grant the lock again, so clear_locks drops it after the second      *)
(* word, and the third one competes by priority.                           *)
(***************************************************************************)
HolderServed ==
    holder \in Pending /\ clock = "high" => Selected \subseteq {holder}

(***************************************************************************)
(* What a priority is worth: an open request, however many words it has,   *)
(* is passed over for masters of lower priority once, for the word a slow  *)
(* slave was working on, and a second time only if one of them locks the   *)
(* bus.                                                                    *)
(***************************************************************************)
OvertakenLimit ==
    \A m \in Master :
        overtaken[m] <= IF \E n \in Master : n > m /\ m_lock[n] THEN 2 ELSE 1
=============================================================================
