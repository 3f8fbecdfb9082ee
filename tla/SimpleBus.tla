------------------------------ MODULE SimpleBus ------------------------------
(***************************************************************************)
(* simple_bus with simple_bus_arbiter: requests, and what one falling      *)
(* clock edge (main_action) does with them.                                *)
(*                                                                         *)
(* A master is known by its unique priority and has one request form.      *)
(* get_request makes the form at the first request; here all forms exist,  *)
(* which is the same, as a form that was never used is neither pending nor *)
(* locked.  buffer[m] holds the words that the request's data pointer      *)
(* walks through: "data" is its offset there.                              *)
(***************************************************************************)
EXTENDS BusSlaves

CONSTANTS
    Master,         \* the unique priorities; the smallest number goes first
    MaxLength       \* 0x10: the longest burst, in words

VARIABLES
    form,                   \* m_requests
    m_current_request,      \* the master whose slave access goes on, or None
    waiting,                \* the masters in wait(request->transfer_done)
    buffer                  \* the masters' words

busVars == <<form, m_current_request, waiting, buffer>>

None == -1

Lock == {"NO", "SET", "GRANTED"}
Status == {"OK", "REQUEST", "WAIT", "ERROR"}

Form == [do_write : BOOLEAN, address : Nat, end_address : Nat,
         data : 0..MaxLength, lock : Lock, status : Status]

BusTypeOK ==
    /\ form \in [Master -> Form]
    /\ m_current_request \in Master \cup {None}
    /\ waiting \subseteq Master
    /\ buffer \in [Master -> [0..MaxLength - 1 -> Word]]
    /\ \A m \in Master :
          form[m].status \in {"REQUEST", "WAIT"} => form[m].data < MaxLength

BusInit ==
    /\ form = [m \in Master |->
                  [do_write |-> FALSE, address |-> 0, end_address |-> 0,
                   data |-> 0, lock |-> "NO", status |-> "OK"]]
    /\ m_current_request = None
    /\ waiting = {}
    /\ buffer \in [Master -> [0..MaxLength - 1 -> Word]]    \* uninitialised

-----------------------------------------------------------------------------
(* The interface: read, write, burst_read and burst_write fill in the form. *)

\* A lock that is set from the previous request is granted at once.
LockFor(m, lock) ==
    IF ~lock THEN form[m].lock
    ELSE IF form[m].lock = "SET" THEN "GRANTED" ELSE "SET"

Request(m, write, start, length, lock) ==
    form' = [form EXCEPT ![m] =
                [do_write |-> write, address |-> start,
                 end_address |-> start + (length - 1) * 4, data |-> 0,
                 lock |-> LockFor(m, lock), status |-> "REQUEST"]]

\* burst_read and burst_write then wait for the event transfer_done.
Burst(m, write, start, length, lock) ==
    /\ Request(m, write, start, length, lock)
    /\ waiting' = waiting \cup {m}

\* get_status
Finished(m) == form[m].status \in {"OK", "ERROR"}

-----------------------------------------------------------------------------
(* Which request the falling edge works on. *)

Pending == {m \in Master : form[m].status \in {"REQUEST", "WAIT"}}

LockedBurst == {m \in Pending : form[m].status = "WAIT" /\ form[m].lock = "SET"}

LockedCall == {m \in Pending : form[m].lock = "GRANTED"}

Best == {m \in Pending : \A n \in Pending : m <= n}

\* Mutant: a lock granted to the next call of a master does not count.
arbitrateIgnoringGrant == IF LockedBurst # {} THEN LockedBurst ELSE Best

\* The arbiter's three rules.  Its loops take the first request that meets a
\* rule; there is never a second one (OneLock in BusProperties).
arbitrate ==
    IF LockedBurst # {} THEN LockedBurst
    ELSE IF LockedCall # {} THEN LockedCall ELSE Best

Selected == IF m_current_request # None THEN {m_current_request} ELSE arbitrate

\* The lock of the selected request: the third rule grants it.
LockOf(m) ==
    IF /\ m_current_request = None /\ LockedBurst = {} /\ LockedCall = {}
       /\ form[m].lock # "NO"
      THEN "GRANTED" ELSE form[m].lock

\* Mutant: a lock that was set and not used stays set.
ClearLocksUsed(f) ==
    [m \in Master |->
        [f[m] EXCEPT !.lock = IF @ = "GRANTED" THEN "SET" ELSE @]]

\* clear_locks, once no slave access is going on.
ClearLocks(f) ==
    [m \in Master |->
        [f[m] EXCEPT !.lock = IF @ = "GRANTED" THEN "SET" ELSE "NO"]]

-----------------------------------------------------------------------------
(* main_action and handle_request. *)

NoRequest ==
    /\ Selected = {}
    /\ form' = ClearLocks(form)
    /\ UNCHANGED <<m_current_request, waiting, buffer, slaveVars>>

\* An address that is not word aligned or that no slave covers.  Nobody is
\* notified.
Refuse(m) ==
    /\ form[m].address \notin SlaveAddr
    /\ form' = ClearLocks([form EXCEPT ![m].status = "ERROR", ![m].lock = LockOf(m)])
    /\ m_current_request' = None
    /\ UNCHANGED <<waiting, buffer, slaveVars>>

\* Mutant: the bus forgets which request the slave is working on.
DelayForgetting(m) ==
    /\ Delays(form[m].address)
    /\ form' = [form EXCEPT ![m].status = "WAIT", ![m].lock = LockOf(m)]
    /\ m_current_request' = None
    /\ CountWaitStates
    /\ UNCHANGED <<words, waiting, buffer>>

\* The slave needs more cycles: the request stays the current one.
Delay(m) ==
    /\ Delays(form[m].address)
    /\ form' = [form EXCEPT ![m].status = "WAIT", ![m].lock = LockOf(m)]
    /\ m_current_request' = m
    /\ CountWaitStates
    /\ UNCHANGED <<words, waiting, buffer>>

\* Copy one word, in the direction of the request.
Copy(m) ==
    LET a == form[m].address  d == form[m].data
    IN  IF form[m].do_write
          THEN words' = [words EXCEPT ![a] = buffer[m][d]] /\ UNCHANGED buffer
          ELSE buffer' = [buffer EXCEPT ![m][d] = words[a]] /\ UNCHANGED words

\* Mutant: the end of the burst is noticed one word late.
LastWordLate(m) == form[m].address > form[m].end_address

\* Mutant: the last word is left out.
LastWordEarly(m) == form[m].address + 4 >= form[m].end_address

LastWord(m) == form[m].address + 4 > form[m].end_address

\* Mutant: the end of the transfer is not notified.
NotifyNobody(m) == UNCHANGED waiting

\* Mutant: every word is notified.
NotifyEachWord(m) == waiting' = waiting \ {m}

Notify(m) == waiting' = IF LastWord(m) THEN waiting \ {m} ELSE waiting

Transfer(m) ==
    /\ Answers(form[m].address)
    /\ Copy(m)
    /\ Notify(m)
    /\ form' = ClearLocks([form EXCEPT
                  ![m].address = @ + 4, ![m].data = @ + 1, ![m].lock = LockOf(m),
                  ![m].status = IF LastWord(m) THEN "OK" ELSE "WAIT"])
    /\ m_current_request' = None
    /\ UNCHANGED m_wait_count

MainAction ==
    \/ NoRequest
    \/ \E m \in Selected : Refuse(m) \/ Delay(m) \/ Transfer(m)

ASSUME BusAssumption ==
    /\ Master \subseteq Nat
    /\ MaxLength \in Nat \ {0}
=============================================================================
