------------------------------ MODULE BusProofs ------------------------------
(***************************************************************************)
(* The bus that serves requests.  None of its invariants is inductive by   *)
(* itself:                                                                 *)
(*   - a transfer stays within its caller's words because end_address      *)
(*     limits what is left of it, and a non-blocking master's cnt is the   *)
(*     distance it has walked (TransferInv, WalkInv);                      *)
(*   - the request that a slave works on is not replaced, because its      *)
(*     master cannot make another before it is served (RequestInv);        *)
(*   - the arbiter has one candidate under its lock rules, because the     *)
(*     locks are cleared whenever a word was moved (LockInv).              *)
(***************************************************************************)
EXTENDS BusProperties, FiniteSetTheorems, TLAPS

Open(m) == form[m].status \in {"REQUEST", "WAIT"}

\* The words a request has left fit into what is left of the buffer.
TransferInv ==
    \A m \in Master : Open(m) =>
        /\ form[m].address <= form[m].end_address
        /\ form[m].end_address + 4
              <= form[m].address + 4 * (MaxLength - form[m].data)

\* A non-blocking master adds the number of words it has walked.
WalkInv ==
    \A m \in NonBlocking :
        4 * cnt[m] = addr[m] - StartAddress[m]
                     + (IF pc[m] = "write" THEN 4 ELSE 0)

\* Who has an open request cannot make another one.
RequestInv ==
    \A m \in Master : Open(m) =>
        IF m \in Blocking THEN m \in waiting ELSE pc[m] \in {"read", "write"}

\* Masters whose lock may count at the arbiter's next decision.
Holds(m) ==
    form[m].lock = "GRANTED"
    \/ (form[m].lock = "SET" /\ form[m].status # "REQUEST")

LockInv ==
    /\ \A m \in Master : form[m].lock = "GRANTED" =>
          \/ form[m].status = "REQUEST"
          \/ form[m].status = "WAIT" /\ m = m_current_request
    /\ m_current_request = None =>
          \A m, n \in Master : Holds(m) /\ Holds(n) => m = n

BusInv == TypeOK /\ TransferInv /\ WalkInv /\ RequestInv

-----------------------------------------------------------------------------
(* Requests. *)

\* What a request leaves in the form, and that it touches no other.
LEMMA RequestForm ==
    ASSUME form \in [Master -> Form],
           NEW m \in Master, NEW write \in BOOLEAN, NEW start \in Nat,
           NEW length \in 1..MaxLength, NEW lock \in BOOLEAN,
           Request(m, write, start, length, lock)
    PROVE  /\ form' \in [Master -> Form]
           /\ form'[m].status = "REQUEST" /\ form'[m].data = 0
           /\ form'[m].address = start
           /\ form'[m].end_address = start + (length - 1) * 4
           /\ form'[m].lock = LockFor(m, lock)
           /\ \A n \in Master : n # m => form'[n] = form[n]
<1>1. MaxLength \in Nat \ {0} /\ 0 \in 0..MaxLength
  BY BusAssumption
<1>2. start + (length - 1) * 4 \in Nat
  BY <1>1
<1>3. LockFor(m, lock) \in Lock
  BY DEF LockFor, Lock, Form
<1> QED
  BY <1>1, <1>2, <1>3 DEF Request, Form, Status

\* The buffer keeps words.
LEMMA AddToType ==
    ASSUME buffer \in [Master -> [0..MaxLength - 1 -> Word]],
           NEW m \in Master, NEW n \in 0..MaxLength - 1, NEW v \in Nat,
           AddTo(m, n, v)
    PROVE  buffer' \in [Master -> [0..MaxLength - 1 -> Word]]
<1>1. Modulus \in Nat /\ Modulus > 0
  BY SlavesAssumption
<1>2. buffer[m] \in [0..MaxLength - 1 -> Word]
  OBVIOUS
<1> DEFINE old == buffer[m][n]
<1>3. old \in Nat
  BY <1>1, <1>2 DEF Word
<1> HIDE DEF old
<1>4. (old + v) % Modulus \in Word
  BY <1>1, <1>3 DEF Word
<1> USE DEF old
<1> QED
  BY <1>2, <1>4 DEF AddTo

\* A request that fits into the buffer keeps what holds of all transfers.
LEMMA RequestKeeps ==
    ASSUME BusTypeOK, TransferInv,
           NEW m \in Master, NEW write \in BOOLEAN, NEW start \in Nat,
           NEW length \in 1..MaxLength, NEW lock \in BOOLEAN,
           Request(m, write, start, length, lock),
           buffer' \in [Master -> [0..MaxLength - 1 -> Word]],
           waiting' \subseteq Master, UNCHANGED m_current_request
    PROVE  BusTypeOK' /\ TransferInv'
<1>1. MaxLength \in Nat \ {0}
  BY BusAssumption
<1>2. /\ form' \in [Master -> Form]
      /\ form'[m].data = 0 /\ form'[m].address = start
      /\ form'[m].end_address = start + (length - 1) * 4
      /\ \A n \in Master : n # m => form'[n] = form[n]
  BY RequestForm DEF BusTypeOK
<1>3. BusTypeOK'
  BY <1>1, <1>2 DEF BusTypeOK
<1>4. TransferInv'
  BY <1>1, <1>2 DEF TransferInv, Open
<1> QED
  BY <1>3, <1>4

-----------------------------------------------------------------------------
(* The masters. *)

\* A master that runs leaves the clock, the slaves and the other masters.
LEMMA MasterKeepsBus ==
    ASSUME BusInv, RunMaster
    PROVE  BusInv'
<1>1. PICK m \in due \ waiting :
         /\ due' = due \ {m}
         /\ \/ Rest(m)
            \/ m \in Blocking /\ (BurstRead(m) \/ Add(m) \/ BurstWrite(m) \/ BurstWritten(m))
            \/ m \in NonBlocking /\ (Read(m) \/ Write(m) \/ Written(m))
         /\ UNCHANGED <<slaveVars, clock, m_lock>>
  BY DEF RunMaster
<1>2. /\ m \in Master /\ m \notin waiting /\ m_lock[m] \in BOOLEAN
      /\ StartAddress[m] \in Nat /\ BurstLength \in 1..MaxLength
      /\ MaxLength \in Nat \ {0} /\ Span \in Nat /\ 1 \in 1..MaxLength
      /\ Blocking \subseteq Master /\ 0 \in 0..MaxLength - 1
  BY <1>1, BusAssumption, MastersAssumption DEF BusInv, TypeOK, MastersTypeOK
<1>3. SlavesTypeOK' /\ clock' \in {"low", "high"} /\ due' \subseteq Master
      /\ m_lock' \in [Master -> BOOLEAN]
  BY <1>1 DEF BusInv, TypeOK, SlavesTypeOK, MastersTypeOK, slaveVars
<1>4. CASE Rest(m)
  BY <1>1, <1>3, <1>4
  DEF Rest, BusInv, TypeOK, BusTypeOK, MastersTypeOK, busVars, masterVars,
      TransferInv, WalkInv, RequestInv, Open
<1>5. CASE m \in Blocking /\ (BurstRead(m) \/ BurstWrite(m))
  <2>1. PICK write \in BOOLEAN :
           Request(m, write, StartAddress[m], BurstLength, m_lock[m])
    BY <1>5 DEF BurstRead, BurstWrite, Burst
  <2>2. /\ waiting' = waiting \cup {m} /\ UNCHANGED <<m_current_request, buffer, addr, cnt>>
        /\ pc' \in [Master -> {"top", "read", "add", "write"}]
        /\ \A n \in Master : n # m => pc'[n] = pc[n]
    BY <1>2, <1>5
    DEF BurstRead, BurstWrite, Burst, Goto, BusInv, TypeOK, MastersTypeOK
  <2>8. i' \in [Blocking -> 0..BurstLength]
    <3>1. i \in [Blocking -> 0..BurstLength] /\ 0 \in 0..BurstLength
      BY <1>2 DEF BusInv, TypeOK, MastersTypeOK
    <3> QED
      BY <1>5, <3>1 DEF BurstRead, BurstWrite
  <2>3. BusTypeOK' /\ TransferInv'
    BY <1>2, <2>1, <2>2, RequestKeeps DEF BusInv, TypeOK, BusTypeOK
  <2>4. \A n \in Master : n # m => form'[n] = form[n]
    BY <1>2, <2>1, RequestForm DEF BusInv, TypeOK, BusTypeOK
  <2>5. MastersTypeOK'
    BY <1>3, <2>2, <2>8 DEF BusInv, TypeOK, MastersTypeOK
  <2>6. WalkInv'
    BY <1>5, <2>2 DEF BusInv, WalkInv, NonBlocking
  <2>7. RequestInv'
    BY <1>5, <2>2, <2>4 DEF BusInv, RequestInv, Open
  <2> QED
    BY <1>3, <2>3, <2>5, <2>6, <2>7 DEF BusInv, TypeOK
<1>6. CASE m \in Blocking /\ Add(m)
  <2>1. i[m] \in 0..MaxLength - 1 /\ i[m] \in Nat /\ i[m] + 1 \in 0..BurstLength
    BY <1>2, <1>6 DEF Add, BusInv, TypeOK, MastersTypeOK
  <2>2. buffer' \in [Master -> [0..MaxLength - 1 -> Word]]
    BY <1>2, <1>6, <2>1, AddToType DEF Add, BusInv, TypeOK, BusTypeOK
  <2>3. UNCHANGED <<form, m_current_request, waiting, addr, cnt>>
    BY <1>6 DEF Add
  <2>4. /\ pc' \in [Master -> {"top", "read", "add", "write"}]
        /\ i' \in [Blocking -> 0..BurstLength]
        /\ \A n \in Master : n # m => pc'[n] = pc[n]
    BY <1>2, <1>6, <2>1 DEF Add, Goto, BusInv, TypeOK, MastersTypeOK
  <2>5. BusTypeOK' /\ TransferInv'
    BY <2>2, <2>3 DEF BusInv, TypeOK, BusTypeOK, TransferInv, Open
  <2>6. MastersTypeOK'
    BY <1>3, <2>3, <2>4 DEF BusInv, TypeOK, MastersTypeOK
  <2>7. WalkInv' /\ RequestInv'
    BY <1>6, <2>3, <2>4
    DEF BusInv, WalkInv, RequestInv, Open, NonBlocking
  <2> QED
    BY <1>3, <2>5, <2>6, <2>7 DEF BusInv, TypeOK
<1>7. CASE m \in Blocking /\ BurstWritten(m)
  <2>1. /\ pc' \in [Master -> {"top", "read", "add", "write"}]
        /\ \A n \in Master : n # m => pc'[n] = pc[n]
        /\ UNCHANGED <<busVars, i, addr, cnt>>
    BY <1>2, <1>7 DEF BurstWritten, Goto, BusInv, TypeOK, MastersTypeOK
  <2>2. BusTypeOK' /\ TransferInv'
    BY <2>1 DEF BusInv, TypeOK, BusTypeOK, TransferInv, Open, busVars
  <2>3. MastersTypeOK'
    BY <1>3, <2>1 DEF BusInv, TypeOK, MastersTypeOK
  <2>4. WalkInv' /\ RequestInv'
    BY <1>7, <2>1 DEF BusInv, WalkInv, RequestInv, Open, NonBlocking, busVars
  <2> QED
    BY <1>3, <2>2, <2>3, <2>4 DEF BusInv, TypeOK
<1>8. ASSUME m \in NonBlocking
      PROVE  /\ addr[m] \in Nat /\ cnt[m] \in Nat
             /\ addr[m] \in StartAddress[m]..StartAddress[m] + Span
             /\ 4 * cnt[m] = addr[m] - StartAddress[m]
                             + (IF pc[m] = "write" THEN 4 ELSE 0)
  BY <1>8 DEF BusInv, TypeOK, MastersTypeOK, WalkInv
<1>9. CASE m \in NonBlocking /\ Read(m)
  <2>7. PICK write \in BOOLEAN : Request(m, write, addr[m], 1, m_lock[m])
    BY <1>9 DEF Read
  <2>1. /\ Request(m, write, addr[m], 1, m_lock[m])
        /\ UNCHANGED <<m_current_request, waiting, buffer, i, addr, cnt>>
        /\ pc[m] = "top" /\ pc'[m] = "read"
        /\ pc' \in [Master -> {"top", "read", "add", "write"}]
        /\ \A n \in Master : n # m => pc'[n] = pc[n]
    BY <1>2, <1>9, <2>7 DEF Read, Goto, BusInv, TypeOK, MastersTypeOK
  <2>2. BusTypeOK' /\ TransferInv'
    <3>1. /\ BusTypeOK /\ TransferInv /\ addr[m] \in Nat
          /\ buffer' \in [Master -> [0..MaxLength - 1 -> Word]]
          /\ waiting' \subseteq Master
      BY <1>8, <1>9, <2>1 DEF BusInv, TypeOK, BusTypeOK
    <3> QED
      BY <1>2, <2>1, <3>1, RequestKeeps
  <2>3. \A n \in Master : n # m => form'[n] = form[n]
    <3>1. form \in [Master -> Form] /\ addr[m] \in Nat
      BY <1>8, <1>9 DEF BusInv, TypeOK, BusTypeOK
    <3> QED
      BY <1>2, <2>1, <3>1, RequestForm
  <2>4. MastersTypeOK'
    BY <1>3, <2>1 DEF BusInv, TypeOK, MastersTypeOK
  <2>5. WalkInv'
    BY <1>2, <1>9, <2>1 DEF BusInv, WalkInv, NonBlocking
  <2>6. RequestInv'
    BY <1>9, <2>1, <2>3 DEF BusInv, RequestInv, Open, NonBlocking
  <2> QED
    BY <1>3, <2>2, <2>4, <2>5, <2>6 DEF BusInv, TypeOK
<1>10. CASE m \in NonBlocking /\ Write(m)
  <2>11. PICK write \in BOOLEAN : Request(m, write, addr[m], 1, m_lock[m])
    BY <1>10 DEF Write
  <2>1. /\ Request(m, write, addr[m], 1, m_lock[m]) /\ AddTo(m, 0, cnt[m])
        /\ UNCHANGED <<m_current_request, waiting, i, addr>>
        /\ pc[m] = "read" /\ pc'[m] = "write"
        /\ pc' \in [Master -> {"top", "read", "add", "write"}]
        /\ cnt' = [cnt EXCEPT ![m] = cnt[m] + 1]
        /\ \A n \in Master : n # m => pc'[n] = pc[n]
    BY <1>2, <1>10, <2>11 DEF Write, Goto, BusInv, TypeOK, MastersTypeOK
  <2>2. buffer' \in [Master -> [0..MaxLength - 1 -> Word]]
    BY <1>2, <1>8, <1>10, <2>1, AddToType DEF BusInv, TypeOK, BusTypeOK
  <2>3. BusTypeOK' /\ TransferInv'
    <3>1. /\ BusTypeOK /\ TransferInv /\ addr[m] \in Nat
          /\ waiting' \subseteq Master
      BY <1>8, <1>10, <2>1 DEF BusInv, TypeOK, BusTypeOK
    <3> QED
      BY <1>2, <2>1, <2>2, <3>1, RequestKeeps
  <2>4. \A n \in Master : n # m => form'[n] = form[n]
    <3>1. form \in [Master -> Form] /\ addr[m] \in Nat
      BY <1>8, <1>10 DEF BusInv, TypeOK, BusTypeOK
    <3> QED
      BY <1>2, <2>1, <3>1, RequestForm
  <2>5. /\ cnt' \in [NonBlocking -> Nat] /\ cnt'[m] = cnt[m] + 1
        /\ \A n \in NonBlocking : n # m => cnt'[n] = cnt[n]
    BY <1>8, <1>10, <2>1 DEF BusInv, TypeOK, MastersTypeOK
  <2>6. cnt'[m] <= Span + 1
    BY <1>2, <1>8, <1>10, <2>1, <2>5
  <2>7. MastersTypeOK'
    BY <1>3, <2>1, <2>5, <2>6 DEF BusInv, TypeOK, MastersTypeOK
  <2>8. 4 * cnt'[m] = addr'[m] - StartAddress[m] + 4
    BY <1>2, <1>8, <1>10, <2>1, <2>5
  <2>9. WalkInv'
    BY <1>10, <2>1, <2>5, <2>8 DEF BusInv, WalkInv, NonBlocking
  <2>10. RequestInv'
    BY <1>10, <2>1, <2>4 DEF BusInv, RequestInv, Open, NonBlocking
  <2> QED
    BY <1>3, <2>3, <2>7, <2>9, <2>10 DEF BusInv, TypeOK
<1>11. CASE m \in NonBlocking /\ Written(m)
  <2> DEFINE wrap == addr[m] + 4 > StartAddress[m] + Span
             a == IF wrap THEN StartAddress[m] ELSE addr[m] + 4
             c == IF wrap THEN 0 ELSE cnt[m]
  <2>1. /\ addr' = [addr EXCEPT ![m] = a] /\ cnt' = [cnt EXCEPT ![m] = c]
        /\ UNCHANGED <<busVars, i>>
        /\ pc[m] = "write" /\ Finished(m) /\ pc'[m] = "top"
        /\ pc' \in [Master -> {"top", "read", "add", "write"}]
        /\ \A n \in Master : n # m => pc'[n] = pc[n]
    BY <1>2, <1>11 DEF Written, Goto, BusInv, TypeOK, MastersTypeOK
  <2>2. /\ a \in StartAddress[m]..StartAddress[m] + Span /\ a \in Nat
        /\ c \in Nat /\ c <= Span + 1 /\ 4 * c = a - StartAddress[m]
    BY <1>2, <1>8, <1>11, <2>1
  <2> HIDE DEF a, c
  <2>3. /\ addr' \in [NonBlocking -> Nat] /\ cnt' \in [NonBlocking -> Nat]
        /\ addr'[m] = a /\ cnt'[m] = c
        /\ \A n \in NonBlocking : n # m => addr'[n] = addr[n] /\ cnt'[n] = cnt[n]
    BY <1>11, <2>1, <2>2 DEF BusInv, TypeOK, MastersTypeOK
  <2>4. BusTypeOK' /\ TransferInv'
    BY <2>1 DEF BusInv, TypeOK, BusTypeOK, TransferInv, Open, busVars
  <2>5. MastersTypeOK'
    BY <1>3, <2>1, <2>2, <2>3 DEF BusInv, TypeOK, MastersTypeOK
  <2>6. WalkInv'
    BY <1>2, <1>11, <2>1, <2>2, <2>3 DEF BusInv, WalkInv, NonBlocking
  <2>7. RequestInv'
    BY <1>11, <2>1
    DEF BusInv, RequestInv, Open, Finished, NonBlocking, busVars
  <2> QED
    BY <1>3, <2>4, <2>5, <2>6, <2>7 DEF BusInv, TypeOK
<1> QED
  BY <1>1, <1>4, <1>5, <1>6, <1>7, <1>9, <1>10, <1>11

\* All that a master may change in the forms is its own, when it has no open
\* request.
LEMMA MasterRequests ==
    ASSUME BusInv, RunMaster
    PROVE  /\ UNCHANGED <<slaveVars, clock, m_current_request>>
           /\ \/ UNCHANGED form
              \/ \E m \in Master :
                    /\ ~Open(m)
                    /\ form'[m].status = "REQUEST"
                    /\ \/ form'[m].lock = form[m].lock
                       \/ form'[m].lock = "SET" /\ form[m].lock # "SET"
                       \/ form'[m].lock = "GRANTED" /\ form[m].lock = "SET"
                    /\ \A n \in Master : n # m => form'[n] = form[n]
<1>1. PICK m \in due \ waiting :
         /\ \/ Rest(m)
            \/ m \in Blocking /\ (BurstRead(m) \/ Add(m) \/ BurstWrite(m) \/ BurstWritten(m))
            \/ m \in NonBlocking /\ (Read(m) \/ Write(m) \/ Written(m))
         /\ UNCHANGED <<slaveVars, clock, m_lock>>
  BY DEF RunMaster
<1>2. /\ m \in Master /\ m \notin waiting /\ m_lock[m] \in BOOLEAN
      /\ StartAddress[m] \in Nat /\ BurstLength \in 1..MaxLength
      /\ 1 \in 1..MaxLength /\ form \in [Master -> Form]
  BY <1>1, BusAssumption, MastersAssumption
  DEF BusInv, TypeOK, MastersTypeOK, BusTypeOK
<1>3. UNCHANGED m_current_request
  BY <1>1 DEF Rest, BurstRead, Add, BurstWrite, BurstWritten, Read, Write,
              Written, busVars
<1>4. ASSUME NEW write \in BOOLEAN, NEW start \in Nat,
             NEW length \in 1..MaxLength,
             Request(m, write, start, length, m_lock[m])
      PROVE  /\ form'[m].status = "REQUEST"
             /\ \/ form'[m].lock = form[m].lock
                \/ form'[m].lock = "SET" /\ form[m].lock # "SET"
                \/ form'[m].lock = "GRANTED" /\ form[m].lock = "SET"
             /\ \A n \in Master : n # m => form'[n] = form[n]
  <2>1. /\ form'[m].status = "REQUEST" /\ form'[m].lock = LockFor(m, m_lock[m])
        /\ \A n \in Master : n # m => form'[n] = form[n]
    BY <1>2, <1>4, RequestForm
  <2>2. \/ LockFor(m, m_lock[m]) = form[m].lock
        \/ LockFor(m, m_lock[m]) = "SET" /\ form[m].lock # "SET"
        \/ LockFor(m, m_lock[m]) = "GRANTED" /\ form[m].lock = "SET"
    BY DEF LockFor
  <2> QED
    BY <2>1, <2>2
<1>5. CASE m \in Blocking /\ (BurstRead(m) \/ BurstWrite(m))
  <2>1. PICK write \in BOOLEAN :
           Request(m, write, StartAddress[m], BurstLength, m_lock[m])
    BY <1>5 DEF BurstRead, BurstWrite, Burst
  <2>2. ~Open(m)
    BY <1>2, <1>5 DEF BusInv, RequestInv
  <2> QED
    BY <1>1, <1>2, <1>3, <1>4, <2>1, <2>2
<1>6. CASE m \in NonBlocking /\ (Read(m) \/ Write(m))
  <2>1. PICK write \in BOOLEAN : Request(m, write, addr[m], 1, m_lock[m])
    BY <1>6 DEF Read, Write
  <2>2. ~Open(m)
    BY <1>2, <1>6
    DEF Read, Write, BusInv, RequestInv, NonBlocking, Open, Finished
  <2>3. addr[m] \in Nat
    BY <1>6 DEF BusInv, TypeOK, MastersTypeOK
  <2> QED
    BY <1>1, <1>2, <1>3, <1>4, <2>1, <2>2, <2>3
<1>7. CASE Rest(m) \/ Add(m) \/ BurstWritten(m) \/ Written(m)
  BY <1>1, <1>3, <1>7 DEF Rest, Add, BurstWritten, Written, busVars
<1> QED
  BY <1>1, <1>5, <1>6, <1>7

\* The request that a slave works on is not replaced.
LEMMA MasterKeepsSlave ==
    ASSUME BusInv, SlaveFollowsBus, RunMaster
    PROVE  SlaveFollowsBus'
<1>1. UNCHANGED <<m_wait_count, clock, m_current_request>>
  BY MasterRequests DEF slaveVars
<1>2. ASSUME m_current_request # None
      PROVE  form'[m_current_request] = form[m_current_request]
  <2>1. m_current_request \in Master /\ Open(m_current_request)
    BY <1>2 DEF SlaveFollowsBus, Open, BusInv, TypeOK, BusTypeOK
  <2> QED
    BY <2>1, MasterRequests
<1> QED
  BY <1>1, <1>2 DEF SlaveFollowsBus

\* A new request takes over the lock of the one before.
LEMMA MasterKeepsLocks ==
    ASSUME BusInv, LockInv, RunMaster
    PROVE  LockInv'
<1>1. UNCHANGED m_current_request
  BY MasterRequests
<1>2. CASE UNCHANGED form
  BY <1>1, <1>2 DEF LockInv, Holds
<1>3. CASE ~UNCHANGED form
  <2>1. PICK m \in Master :
           /\ ~Open(m)
           /\ form'[m].status = "REQUEST"
           /\ \/ form'[m].lock = form[m].lock
              \/ form'[m].lock = "SET" /\ form[m].lock # "SET"
              \/ form'[m].lock = "GRANTED" /\ form[m].lock = "SET"
           /\ \A n \in Master : n # m => form'[n] = form[n]
    BY <1>3, MasterRequests
  <2>2. \A n \in Master : Holds(n)' => Holds(n)
    BY <2>1 DEF Holds, Open, LockInv
  <2> QED
    BY <1>1, <2>1, <2>2 DEF LockInv
<1> QED
  BY <1>2, <1>3

-----------------------------------------------------------------------------
(* The rising edge. *)

LEMMA RisingKeepsBus ==
    ASSUME BusInv, SlaveFollowsBus, LockInv, RisingEdge
    PROVE  BusInv' /\ SlaveFollowsBus' /\ LockInv'
<1>1. /\ UNCHANGED <<form, m_current_request, waiting, buffer, words, m_lock,
                     pc, i, addr, cnt>>
      /\ clock = "low" /\ clock' = "high" /\ due' = Master
  BY DEF RisingEdge, busVars, masterVars
<1>2. m_wait_count \in -1..WaitStates /\ WaitStates \in Nat
  BY SlavesAssumption DEF BusInv, TypeOK, SlavesTypeOK
<1>3. /\ m_wait_count' \in -1..WaitStates
      /\ m_wait_count' >= 0 <=> m_wait_count > 0
  BY <1>2 DEF RisingEdge, WaitLoop
<1>4. SlavesTypeOK' /\ BusTypeOK' /\ MastersTypeOK'
  BY <1>1, <1>3 DEF BusInv, TypeOK, SlavesTypeOK, BusTypeOK, MastersTypeOK
<1>5. TransferInv' /\ WalkInv' /\ RequestInv' /\ LockInv'
  BY <1>1 DEF BusInv, TransferInv, WalkInv, RequestInv, LockInv, Open, Holds
<1>6. m_current_request # None <=> m_wait_count > 0
  BY <1>1, <1>2 DEF SlaveFollowsBus
<1>7. m_wait_count' >= 0
         <=> m_wait_count' > 0 \/ (m_wait_count' = 0 /\ clock' = "high")
  BY <1>1, <1>3
<1>8. SlaveFollowsBus'
  BY <1>1, <1>3, <1>6, <1>7 DEF SlaveFollowsBus
<1> QED
  BY <1>4, <1>5, <1>8 DEF BusInv, TypeOK

-----------------------------------------------------------------------------
(* The falling edge. *)

\* Only an open request is selected, and the current one if there is one.
LEMMA SelectedIsOpen ==
    ASSUME BusInv, SlaveFollowsBus, NEW m \in Selected
    PROVE  /\ m \in Master /\ Open(m)
           /\ m_current_request # None => m = m_current_request
<1>1. CASE m_current_request # None
  BY <1>1 DEF Selected, SlaveFollowsBus, Open, BusInv, TypeOK, BusTypeOK
<1>2. CASE m_current_request = None
  BY <1>2 DEF Selected, arbitrate, LockedBurst, LockedCall, Best, Pending, Open
<1> QED
  BY <1>1, <1>2

\* Clearing the locks changes nothing else.
LEMMA ClearLocksForm ==
    ASSUME NEW f \in [Master -> Form]
    PROVE  /\ ClearLocks(f) \in [Master -> Form]
           /\ \A n \in Master :
                 LET c == ClearLocks(f)[n]
                 IN  /\ c.address = f[n].address
                     /\ c.end_address = f[n].end_address
                     /\ c.data = f[n].data /\ c.status = f[n].status
                     /\ c.lock = IF f[n].lock = "GRANTED" THEN "SET" ELSE "NO"
BY DEF ClearLocks, Form, Lock

LEMMA LockOfType ==
    ASSUME form \in [Master -> Form], NEW m \in Master
    PROVE  LockOf(m) \in Lock
BY DEF LockOf, Lock, Form

\* The copied word lands in the memory or in the caller's buffer.
LEMMA CopyType ==
    ASSUME BusInv, NEW m \in Master, Open(m), Answers(form[m].address), Copy(m)
    PROVE  /\ words' \in [SlaveAddr -> Word]
           /\ buffer' \in [Master -> [0..MaxLength - 1 -> Word]]
<1>1. /\ form[m].data \in 0..MaxLength - 1 /\ form[m].address \in SlaveAddr
      /\ words \in [SlaveAddr -> Word]
      /\ buffer \in [Master -> [0..MaxLength - 1 -> Word]]
  BY BusAssumption
  DEF BusInv, TypeOK, BusTypeOK, SlavesTypeOK, Form, Open, Answers, SlaveAddr
<1>2. buffer[m][form[m].data] \in Word /\ words[form[m].address] \in Word
  BY <1>1
<1>3. CASE form[m].do_write
  BY <1>1, <1>2, <1>3 DEF Copy
<1>4. CASE ~form[m].do_write
  <2>1. /\ buffer' = [buffer EXCEPT ![m][form[m].data] = words[form[m].address]]
        /\ words' = words
    BY <1>4 DEF Copy
  <2>2. buffer[m] \in [0..MaxLength - 1 -> Word]
    BY <1>1
  <2> QED
    BY <1>1, <1>2, <2>1, <2>2
<1> QED
  BY <1>3, <1>4

\* Nobody has an open request that had none, and nobody else's request moves.
LEMMA FallingForms ==
    ASSUME BusInv, form' \in [Master -> Form],
           waiting' \subseteq Master,
           words' \in [SlaveAddr -> Word],
           m_wait_count' \in -1..WaitStates,
           m_current_request' \in Master \cup {None},
           buffer' \in [Master -> [0..MaxLength - 1 -> Word]],
           clock' = "low", due' = {}, UNCHANGED <<m_lock, masterVars>>,
           \A n \in Master : Open(n)' =>
               /\ Open(n)
               /\ n \in waiting <=> n \in waiting'
               /\ form'[n].end_address = form[n].end_address
               /\ \/ /\ form'[n].address = form[n].address
                     /\ form'[n].data = form[n].data
                  \/ /\ form'[n].address = form[n].address + 4
                     /\ form'[n].data = form[n].data + 1
                     /\ form'[n].address <= form[n].end_address
    PROVE  BusInv'
<1>1. \A n \in Master : /\ form[n].address \in Nat /\ form[n].end_address \in Nat
                        /\ form[n].data \in 0..MaxLength
                        /\ form'[n].address \in Nat /\ form'[n].end_address \in Nat
                        /\ form'[n].data \in 0..MaxLength
  BY DEF BusInv, TypeOK, BusTypeOK, Form
<1>2. MaxLength \in Nat
  BY BusAssumption
<1>3. TransferInv'
  <2> SUFFICES ASSUME NEW n \in Master, Open(n)'
               PROVE  /\ form'[n].address <= form'[n].end_address
                      /\ form'[n].end_address + 4
                           <= form'[n].address + 4 * (MaxLength - form'[n].data)
    BY DEF TransferInv
  <2>1. /\ form[n].address <= form[n].end_address
        /\ form[n].end_address + 4 <= form[n].address + 4 * (MaxLength - form[n].data)
    BY DEF BusInv, TransferInv
  <2>2. /\ form'[n].end_address = form[n].end_address
        /\ \/ /\ form'[n].address = form[n].address
              /\ form'[n].data = form[n].data
           \/ /\ form'[n].address = form[n].address + 4
              /\ form'[n].data = form[n].data + 1
              /\ form'[n].address <= form[n].end_address
    OBVIOUS
  <2> DEFINE a == form[n].address   d == form[n].data   e == form[n].end_address
  <2>3. a \in Nat /\ d \in Nat /\ e \in Nat
    BY <1>1, <1>2
  <2>4. CASE form'[n].address = a /\ form'[n].data = d
    BY <2>1, <2>2, <2>4
  <2>5. CASE /\ form'[n].address = a + 4 /\ form'[n].data = d + 1
             /\ form'[n].address <= e
    <3>1. e + 4 <= (a + 4) + 4 * (MaxLength - (d + 1))
      <4>1. e + 4 <= a + 4 * (MaxLength - d)
        BY <2>1
      <4> HIDE DEF a, d, e
      <4> QED
        BY <1>2, <2>3, <4>1
    <3> QED
      BY <2>2, <2>5, <3>1
  <2> QED
    BY <2>2, <2>4, <2>5
<1>4. ASSUME NEW n \in Master, Open(n)'
      PROVE  form'[n].data < MaxLength
  <2> DEFINE a == form'[n].address   d == form'[n].data   e == form'[n].end_address
  <2>1. a \in Nat /\ d \in Nat /\ e \in Nat
    BY <1>1, <1>2
  <2>2. a <= e /\ e + 4 <= a + 4 * (MaxLength - d)
    BY <1>3, <1>4 DEF TransferInv
  <2> HIDE DEF a, d, e
  <2>3. d < MaxLength
    BY <1>2, <2>1, <2>2
  <2> QED
    BY <2>3 DEF d
<1>5. SlavesTypeOK' /\ BusTypeOK'
  BY <1>4 DEF SlavesTypeOK, BusTypeOK, Open
<1>6. MastersTypeOK'
  BY DEF BusInv, TypeOK, MastersTypeOK, masterVars
<1>7. WalkInv' /\ RequestInv'
  BY DEF BusInv, WalkInv, RequestInv, masterVars
<1> QED
  BY <1>3, <1>5, <1>6, <1>7 DEF BusInv, TypeOK

\* What the falling edge finds.
LEMMA BeforeFalling ==
    ASSUME BusInv, SlaveFollowsBus, clock = "high"
    PROVE  /\ m_wait_count \in -1..WaitStates /\ WaitStates \in Nat \ {0}
           /\ m_current_request # None <=> m_wait_count >= 0
           /\ form \in [Master -> Form] /\ waiting \subseteq Master
           /\ words \in [SlaveAddr -> Word]
           /\ buffer \in [Master -> [0..MaxLength - 1 -> Word]]
           /\ None \notin Master
<1>1. m_wait_count \in -1..WaitStates /\ WaitStates \in Nat \ {0}
  BY SlavesAssumption DEF BusInv, TypeOK, SlavesTypeOK
<1>2. m_current_request # None <=> m_wait_count >= 0
  BY <1>1 DEF SlaveFollowsBus
<1>3. None \notin Master
  BY BusAssumption DEF None
<1> QED
  BY <1>1, <1>2, <1>3 DEF BusInv, TypeOK, SlavesTypeOK, BusTypeOK

LEMMA NoRequestKeeps ==
    ASSUME BusInv, SlaveFollowsBus, LockInv, FallingEdge, NoRequest
    PROVE  BusInv' /\ SlaveFollowsBus' /\ LockInv'
<1>1. /\ clock = "high" /\ clock' = "low" /\ due' = {}
      /\ form' = ClearLocks(form) /\ Selected = {}
      /\ UNCHANGED <<m_lock, masterVars, m_current_request, waiting, buffer,
                     words, m_wait_count>>
  BY DEF FallingEdge, NoRequest, slaveVars
<1>2. m_current_request = None /\ LockedCall = {}
  BY <1>1 DEF Selected, arbitrate
<1>3. /\ form' \in [Master -> Form]
      /\ \A n \in Master :
            /\ form'[n].address = form[n].address
            /\ form'[n].end_address = form[n].end_address
            /\ form'[n].data = form[n].data /\ form'[n].status = form[n].status
            /\ form'[n].lock = IF form[n].lock = "GRANTED" THEN "SET" ELSE "NO"
  BY <1>1, BeforeFalling, ClearLocksForm
<1>4. BusInv'
  <2>1. \A n \in Master : Open(n)' => Open(n)
    BY <1>3 DEF Open
  <2>2. m_current_request' \in Master \cup {None}
    BY <1>1, <1>2
  <2> QED
    BY <1>1, <1>3, <2>1, <2>2, BeforeFalling, FallingForms
<1>5. \A n \in Master : form[n].lock # "GRANTED"
  BY <1>2 DEF LockInv, LockedCall, Pending
<1>6. \A n \in Master : form'[n].lock = "NO"
  BY <1>3, <1>5
<1>7. LockInv'
  BY <1>6 DEF LockInv, Holds
<1>8. SlaveFollowsBus'
  BY <1>1, <1>2, BeforeFalling DEF SlaveFollowsBus
<1> QED
  BY <1>4, <1>7, <1>8

\* Once the locks are cleared after a word or an error, none is granted, and
\* only the served one can be kept by a request that is not new.
LEMMA ServedKeepsLocks ==
    ASSUME BusInv, SlaveFollowsBus, LockInv, NEW m \in Selected,
           NEW f \in [Master -> Form], form' = ClearLocks(f),
           \A n \in Master : n # m => f[n] = form[n]
    PROVE  LockInv'
<1>1. m \in Master /\ (m_current_request # None => m = m_current_request)
  BY SelectedIsOpen
<1>2. \A n \in Master :
         /\ form'[n].status = f[n].status
         /\ form'[n].lock = IF f[n].lock = "GRANTED" THEN "SET" ELSE "NO"
  BY ClearLocksForm
<1>3. None \notin Master
  BY BusAssumption DEF None
<1>4. \A n \in Master : form'[n].lock # "GRANTED"
  BY <1>2
<1>5. ASSUME NEW n \in Master, Holds(n)', n # m
      PROVE  FALSE
  <2>1. form[n].lock = "GRANTED" /\ form[n].status # "REQUEST"
    BY <1>2, <1>4, <1>5 DEF Holds
  <2>2. n = m_current_request
    BY <2>1 DEF LockInv
  <2> QED
    BY <1>1, <1>3, <1>5, <2>2
<1> QED
  BY <1>4, <1>5 DEF LockInv

LEMMA RefuseKeeps ==
    ASSUME BusInv, SlaveFollowsBus, LockInv, FallingEdge,
           NEW m \in Selected, Refuse(m)
    PROVE  BusInv' /\ SlaveFollowsBus' /\ LockInv'
<1> DEFINE f == [form EXCEPT ![m].status = "ERROR", ![m].lock = LockOf(m)]
<1>1. /\ clock = "high" /\ clock' = "low" /\ due' = {}
      /\ form' = ClearLocks(f) /\ m_current_request' = None
      /\ form[m].address \notin SlaveAddr
      /\ UNCHANGED <<m_lock, masterVars, waiting, buffer, words, m_wait_count>>
  BY DEF FallingEdge, Refuse, slaveVars
<1>2. m \in Master /\ (m_current_request # None => m = m_current_request)
  BY SelectedIsOpen
<1>3. m_current_request = None
  BY <1>1, <1>2 DEF SlaveFollowsBus, SlaveAddr
<1>4. form \in [Master -> Form] /\ LockOf(m) \in Lock
  BY <1>1, <1>2, BeforeFalling, LockOfType
<1>5. /\ f \in [Master -> Form] /\ f[m].status = "ERROR"
      /\ \A n \in Master : n # m => f[n] = form[n]
  BY <1>2, <1>4 DEF Form, Status
<1> HIDE DEF f
<1>6. /\ form' \in [Master -> Form]
      /\ \A n \in Master :
            /\ form'[n].address = f[n].address
            /\ form'[n].end_address = f[n].end_address
            /\ form'[n].data = f[n].data /\ form'[n].status = f[n].status
  BY <1>1, <1>5, ClearLocksForm
<1>7. BusInv'
  <2>1. \A n \in Master : Open(n)' => n # m
    BY <1>5, <1>6 DEF Open
  <2>2. \A n \in Master : Open(n)' => f[n] = form[n]
    BY <1>5, <2>1
  <2>3. \A n \in Master : Open(n)' =>
           /\ Open(n) /\ form'[n].end_address = form[n].end_address
           /\ form'[n].address = form[n].address
           /\ form'[n].data = form[n].data
    BY <1>6, <2>2 DEF Open
  <2>4. m_current_request' \in Master \cup {None}
    BY <1>1
  <2> QED
    BY <1>1, <1>6, <2>3, <2>4, BeforeFalling, FallingForms
<1>8. LockInv'
  BY <1>1, <1>5, ServedKeepsLocks
<1>9. SlaveFollowsBus'
  BY <1>1, <1>3, BeforeFalling DEF SlaveFollowsBus
<1> QED
  BY <1>7, <1>8, <1>9

LEMMA DelayKeeps ==
    ASSUME BusInv, SlaveFollowsBus, LockInv, FallingEdge,
           NEW m \in Selected, Delay(m)
    PROVE  BusInv' /\ SlaveFollowsBus' /\ LockInv'
<1>1. /\ clock = "high" /\ clock' = "low" /\ due' = {}
      /\ form' = [form EXCEPT ![m].status = "WAIT", ![m].lock = LockOf(m)]
      /\ m_current_request' = m /\ CountWaitStates
      /\ form[m].address \in SlowAddr /\ m_wait_count # 0
      /\ UNCHANGED <<m_lock, masterVars, waiting, buffer, words>>
  BY DEF FallingEdge, Delay, Delays
<1>2. m \in Master /\ Open(m) /\ (m_current_request # None => m = m_current_request)
  BY SelectedIsOpen
<1>3. form \in [Master -> Form] /\ LockOf(m) \in Lock /\ m # None
  BY <1>1, <1>2, BeforeFalling, LockOfType
<1>4. /\ form' \in [Master -> Form] /\ form'[m].status = "WAIT"
      /\ form'[m].address = form[m].address /\ form'[m].data = form[m].data
      /\ form'[m].end_address = form[m].end_address
      /\ \A n \in Master : n # m => form'[n] = form[n]
  BY <1>1, <1>2, <1>3 DEF Form, Status
<1>5. m_wait_count' \in 1..WaitStates
  BY <1>1, BeforeFalling DEF CountWaitStates
<1>6. BusInv'
  <2>1. \A n \in Master : Open(n)' =>
           /\ Open(n) /\ form'[n].end_address = form[n].end_address
           /\ form'[n].address = form[n].address
           /\ form'[n].data = form[n].data
    BY <1>2, <1>4 DEF Open
  <2>2. m_current_request' \in Master \cup {None} /\ m_wait_count' \in -1..WaitStates
    BY <1>1, <1>2, <1>5, BeforeFalling
  <2> QED
    BY <1>1, <1>4, <2>1, <2>2, BeforeFalling, FallingForms
<1>7. SlaveFollowsBus'
  BY <1>1, <1>3, <1>4, <1>5 DEF SlaveFollowsBus
<1>8. ASSUME NEW n \in Master, form'[n].lock = "GRANTED"
      PROVE  form'[n].status = "REQUEST" \/ (form'[n].status = "WAIT" /\ n = m)
  <2>1. CASE n = m
    BY <1>4, <2>1
  <2>2. CASE n # m
    <3>1. form[n].status = "REQUEST" \/ n = m_current_request
      BY <1>4, <1>8, <2>2 DEF LockInv
    <3>2. n # None
      BY <1>1, BeforeFalling
    <3> QED
      BY <1>2, <1>4, <2>2, <3>1, <3>2
  <2> QED
    BY <2>1, <2>2
<1>9. LockInv'
  BY <1>1, <1>3, <1>8 DEF LockInv
<1> QED
  BY <1>6, <1>7, <1>9

LEMMA TransferKeeps ==
    ASSUME BusInv, SlaveFollowsBus, LockInv, FallingEdge,
           NEW m \in Selected, Transfer(m)
    PROVE  BusInv' /\ SlaveFollowsBus' /\ LockInv'
<1> DEFINE f == [form EXCEPT
                    ![m].address = @ + 4, ![m].data = @ + 1,
                    ![m].lock = LockOf(m),
                    ![m].status = IF LastWord(m) THEN "OK" ELSE "WAIT"]
<1>1. /\ clock = "high" /\ clock' = "low" /\ due' = {}
      /\ form' = ClearLocks(f) /\ m_current_request' = None
      /\ Answers(form[m].address) /\ Copy(m) /\ Notify(m)
      /\ UNCHANGED <<m_lock, masterVars, m_wait_count>>
  BY DEF FallingEdge, Transfer
<1>2. m \in Master /\ Open(m) /\ (m_current_request # None => m = m_current_request)
  BY SelectedIsOpen
<1>3. form \in [Master -> Form] /\ LockOf(m) \in Lock
  BY <1>1, <1>2, BeforeFalling, LockOfType
<1>4. /\ form[m].address \in Nat /\ form[m].end_address \in Nat
      /\ form[m].data + 1 \in 0..MaxLength
  BY <1>2, BusAssumption DEF BusInv, TypeOK, BusTypeOK, Form, Open
<1>5. /\ f \in [Master -> Form]
      /\ f[m].status = IF LastWord(m) THEN "OK" ELSE "WAIT"
      /\ f[m].address = form[m].address + 4 /\ f[m].data = form[m].data + 1
      /\ f[m].end_address = form[m].end_address
      /\ \A n \in Master : n # m => f[n] = form[n]
  <2>1. form[m].address + 4 \in Nat
    BY <1>4
  <2>2. (IF LastWord(m) THEN "OK" ELSE "WAIT") \in Status
    BY DEF Status
  <2> DEFINE g == [form[m] EXCEPT
                      !.address = @ + 4, !.data = @ + 1, !.lock = LockOf(m),
                      !.status = IF LastWord(m) THEN "OK" ELSE "WAIT"]
  <2>3. f = [form EXCEPT ![m] = g]
    BY <1>2, <1>3
  <2>4. /\ g \in Form /\ g.status = IF LastWord(m) THEN "OK" ELSE "WAIT"
        /\ g.address = form[m].address + 4 /\ g.data = form[m].data + 1
        /\ g.end_address = form[m].end_address
    BY <1>2, <1>3, <1>4, <2>1, <2>2 DEF Form
  <2> HIDE DEF g, f
  <2> QED
    BY <1>2, <1>3, <2>3, <2>4
<1> HIDE DEF f
<1>6. /\ form' \in [Master -> Form]
      /\ \A n \in Master :
            /\ form'[n].address = f[n].address
            /\ form'[n].end_address = f[n].end_address
            /\ form'[n].data = f[n].data /\ form'[n].status = f[n].status
  BY <1>1, <1>5, ClearLocksForm
<1>7. ASSUME NEW n \in Master, Open(n)'
      PROVE  /\ Open(n)
             /\ n \in waiting <=> n \in waiting'
             /\ form'[n].end_address = form[n].end_address
             /\ \/ /\ form'[n].address = form[n].address
                   /\ form'[n].data = form[n].data
                \/ /\ form'[n].address = form[n].address + 4
                   /\ form'[n].data = form[n].data + 1
                   /\ form'[n].address <= form[n].end_address
  <2>1. CASE n # m
    <3>1. f[n] = form[n]
      BY <1>5, <2>1
    <3> QED
      BY <1>1, <1>6, <1>7, <2>1, <3>1 DEF Open, Notify
  <2>2. CASE n = m
    <3>1. ~LastWord(m)
      BY <1>5, <1>6, <1>7, <2>2 DEF Open
    <3>2. form[m].address + 4 <= form[m].end_address
      BY <1>4, <3>1 DEF LastWord
    <3> QED
      BY <1>1, <1>2, <1>5, <1>6, <2>2, <3>1, <3>2 DEF Notify
  <2> QED
    BY <2>1, <2>2
<1>8. BusInv'
  <2>1. /\ words' \in [SlaveAddr -> Word]
        /\ buffer' \in [Master -> [0..MaxLength - 1 -> Word]]
    BY <1>1, <1>2, CopyType
  <2>2. waiting' \subseteq Master
    BY <1>1, BeforeFalling DEF Notify
  <2>3. m_wait_count' \in -1..WaitStates /\ m_current_request' \in Master \cup {None}
    BY <1>1, BeforeFalling
  <2> QED
    BY <1>1, <1>6, <1>7, <2>1, <2>2, <2>3, FallingForms
<1>9. LockInv'
  BY <1>1, <1>5, ServedKeepsLocks
<1>10. m_wait_count \in {-1, 0}
  <2>1. CASE m_current_request # None
    <3>1. form[m].address \in SlowAddr
      BY <1>2, <2>1 DEF SlaveFollowsBus
    <3> QED
      BY <1>1, <3>1, SlavesAssumption DEF Answers
  <2>2. CASE m_current_request = None
    BY <1>1, <2>2, BeforeFalling
  <2> QED
    BY <2>1, <2>2
<1>11. SlaveFollowsBus'
  BY <1>1, <1>10 DEF SlaveFollowsBus
<1> QED
  BY <1>8, <1>9, <1>11

-----------------------------------------------------------------------------
(* The specification. *)

LEMMA BusStart == Init => BusInv /\ SlaveFollowsBus /\ LockInv
<1> SUFFICES ASSUME Init PROVE BusInv /\ SlaveFollowsBus /\ LockInv
  OBVIOUS
<1>1. /\ MaxLength \in Nat \ {0} /\ WaitStates \in Nat \ {0}
      /\ Modulus \in Nat \ {0} /\ Blocking \subseteq Master
      /\ StartAddress \in [Master -> Nat] /\ BurstLength \in Nat /\ Span \in Nat
  BY SlavesAssumption, BusAssumption, MastersAssumption
<1>2. /\ \A m \in Master : ~Open(m) /\ form[m].lock = "NO"
      /\ m_current_request = None /\ m_wait_count = -1 /\ clock = "low"
  BY DEF Init, BusInit, SlavesInit, Open
<1>3. SlavesTypeOK
  BY <1>1 DEF Init, SlavesInit, SlavesTypeOK, Word
<1>4. BusTypeOK
  <2>1. form \in [Master -> Form]
    BY <1>1 DEF Init, BusInit, Form, Lock, Status
  <2> QED
    BY <1>2, <2>1 DEF Init, BusInit, BusTypeOK, Open
<1>5. MastersTypeOK
  BY <1>1 DEF Init, MastersTypeOK, NonBlocking
<1>6. WalkInv
  BY <1>1 DEF Init, WalkInv, NonBlocking
<1> QED
  BY <1>2, <1>3, <1>4, <1>5, <1>6
  DEF BusInv, TypeOK, TransferInv, RequestInv, SlaveFollowsBus, LockInv, Holds

LEMMA BusStep ==
    BusInv /\ SlaveFollowsBus /\ LockInv /\ [Next]_vars
        => BusInv' /\ SlaveFollowsBus' /\ LockInv'
<1> SUFFICES ASSUME BusInv, SlaveFollowsBus, LockInv, [Next]_vars
             PROVE  BusInv' /\ SlaveFollowsBus' /\ LockInv'
  OBVIOUS
<1>1. CASE RunMaster
  BY <1>1, MasterKeepsBus, MasterKeepsSlave, MasterKeepsLocks
<1>2. CASE RisingEdge
  BY <1>2, RisingKeepsBus
<1>3. CASE FallingEdge
  <2>1. NoRequest \/ \E m \in Selected : Refuse(m) \/ Delay(m) \/ Transfer(m)
    BY <1>3 DEF FallingEdge, MainAction
  <2> QED
    BY <1>3, <2>1, NoRequestKeeps, RefuseKeeps, DelayKeeps, TransferKeeps
<1>4. CASE UNCHANGED vars
  BY <1>4
  DEF vars, busVars, slaveVars, masterVars, BusInv, TypeOK, SlavesTypeOK,
      BusTypeOK, MastersTypeOK, TransferInv, WalkInv, RequestInv, Open,
      SlaveFollowsBus, LockInv, Holds
<1> QED
  BY <1>1, <1>2, <1>3, <1>4 DEF Next

LEMMA BusInvariance == Spec => [](BusInv /\ SlaveFollowsBus /\ LockInv)
BY BusStart, BusStep, PTL DEF Spec

(***************************************************************************)
(* No transfer of any master runs past the words of its caller, and no     *)
(* non-blocking master leaves its span: for every set of masters, memory,  *)
(* burst length and number of wait states.                                 *)
(***************************************************************************)
THEOREM BusTypeCorrect == Spec => []TypeOK
<1>1. BusInv => TypeOK
  BY DEF BusInv
<1> QED
  BY <1>1, BusInvariance, PTL

(***************************************************************************)
(* The slow memory counts for the bus's current request and for no other.  *)
(***************************************************************************)
THEOREM SlaveFollowsBusHolds == Spec => []SlaveFollowsBus
BY BusInvariance, PTL

(***************************************************************************)
(* The arbiter never has to choose between two locked requests, however    *)
(* many masters lock the bus.                                              *)
(***************************************************************************)
THEOREM OneLockHolds == Spec => []OneLock
<1>1. LockInv => OneLock
  <2> SUFFICES ASSUME LockInv, m_current_request = None
               PROVE  Cardinality(LockedBurst \cup LockedCall) <= 1
    BY DEF OneLock
  <2> DEFINE S == LockedBurst \cup LockedCall
  <2>1. \A m, n \in S : m = n
    BY DEF LockInv, Holds, LockedBurst, LockedCall, Pending
  <2>2. CASE S = {}
    BY <2>2, FS_EmptySet
  <2>3. CASE S # {}
    <3>1. PICK m : m \in S
      BY <2>3
    <3>2. S = {m}
      BY <2>1, <3>1
    <3> QED
      BY <3>2, FS_Singleton
  <2> QED
    BY <2>2, <2>3
<1> QED
  BY <1>1, BusInvariance, PTL
-----------------------------------------------------------------------------
(* The calls of the blocking masters. *)

\* What a burst has moved, and how far it goes.
BurstInv ==
    \A m \in Blocking : Open(m) =>
        /\ form[m].address = StartAddress[m] + 4 * form[m].data
        /\ form[m].end_address = StartAddress[m] + (BurstLength - 1) * 4

OutcomeInv == BurstOutcome /\ BurstInv

\* What OutcomeInv says of one master.
OutcomeOf(m) ==
    /\ pc[m] # "top" /\ m \notin waiting =>
          form[m].status = "OK" /\ form[m].data = BurstLength
    /\ m \in waiting /\ Finished(m) => form[m].status = "ERROR"
    /\ Open(m) =>
          /\ form[m].address = StartAddress[m] + 4 * form[m].data
          /\ form[m].end_address = StartAddress[m] + (BurstLength - 1) * 4

LEMMA OutcomeOfEach == OutcomeInv <=> \A m \in Blocking : OutcomeOf(m)
BY DEF OutcomeInv, BurstOutcome, BurstInv, OutcomeOf

LEMMA OutcomeStart == Init => OutcomeInv
BY MastersAssumption
DEF Init, BusInit, OutcomeInv, BurstOutcome, BurstInv, Open, Finished

\* Nothing that matters of a master changes but its lock.
LEMMA OutcomeSame ==
    ASSUME NEW m \in Blocking, OutcomeOf(m),
           pc'[m] = pc[m], m \in waiting' <=> m \in waiting,
           form'[m].status = form[m].status, form'[m].data = form[m].data,
           form'[m].address = form[m].address,
           form'[m].end_address = form[m].end_address
    PROVE  OutcomeOf(m)'
BY DEF OutcomeOf, Open, Finished

LEMMA MasterKeepsOutcome ==
    ASSUME BusInv, OutcomeInv, RunMaster
    PROVE  OutcomeInv'
<1>1. PICK m \in due \ waiting :
         \/ Rest(m)
         \/ m \in Blocking /\ (BurstRead(m) \/ Add(m) \/ BurstWrite(m) \/ BurstWritten(m))
         \/ m \in NonBlocking /\ (Read(m) \/ Write(m) \/ Written(m))
  BY DEF RunMaster
<1>2. /\ m \in Master /\ m \notin waiting /\ form \in [Master -> Form]
      /\ m_lock[m] \in BOOLEAN /\ StartAddress[m] \in Nat
      /\ BurstLength \in 1..MaxLength /\ 1 \in 1..MaxLength /\ Blocking \subseteq Master
      /\ pc \in [Master -> {"top", "read", "add", "write"}]
  BY <1>1, BusAssumption, MastersAssumption
  DEF BusInv, TypeOK, MastersTypeOK, BusTypeOK
<1> SUFFICES ASSUME NEW n \in Blocking PROVE OutcomeOf(n)'
  BY DEF OutcomeInv, BurstOutcome, BurstInv, OutcomeOf
<1>3. OutcomeOf(n) /\ n \in Master
  BY <1>2, OutcomeOfEach
<1>4. CASE m \in Blocking /\ (BurstRead(m) \/ BurstWrite(m))
  <2>1. PICK write \in BOOLEAN, at \in {"read", "write"} :
           /\ Request(m, write, StartAddress[m], BurstLength, m_lock[m])
           /\ waiting' = waiting \cup {m} /\ Goto(m, at)
    BY <1>4 DEF BurstRead, BurstWrite, Burst
  <2>2. /\ form'[m].status = "REQUEST" /\ form'[m].data = 0
        /\ form'[m].address = StartAddress[m]
        /\ form'[m].end_address = StartAddress[m] + (BurstLength - 1) * 4
        /\ \A l \in Master : l # m => form'[l] = form[l]
    BY <1>2, <2>1, RequestForm
  <2>3. CASE n = m
    BY <1>2, <2>1, <2>2, <2>3 DEF OutcomeOf, Finished
  <2>4. CASE n # m
    BY <1>2, <1>3, <2>1, <2>2, <2>4, OutcomeSame DEF Goto
  <2> QED
    BY <2>3, <2>4
<1>5. CASE m \in NonBlocking /\ (Read(m) \/ Write(m))
  <2>1. PICK write \in BOOLEAN : Request(m, write, addr[m], 1, m_lock[m])
    BY <1>5 DEF Read, Write
  <2>2. addr[m] \in Nat
    BY <1>5 DEF BusInv, TypeOK, MastersTypeOK
  <2>3. n # m /\ form'[n] = form[n]
    BY <1>2, <1>3, <1>5, <2>1, <2>2, RequestForm DEF NonBlocking
  <2>4. UNCHANGED waiting /\ pc'[n] = pc[n]
    BY <1>2, <1>3, <1>5, <2>3 DEF Read, Write, Goto
  <2> QED
    BY <1>3, <2>3, <2>4, OutcomeSame
<1>6. CASE m \in Blocking /\ (Add(m) \/ BurstWritten(m))
  <2>1. /\ UNCHANGED <<form, waiting>> /\ pc[m] # "top"
        /\ pc' = [pc EXCEPT ![m] = pc'[m]]
    BY <1>2, <1>6 DEF Add, BurstWritten, Goto, busVars
  <2>2. pc'[n] = "top" \/ pc[n] # "top"
    BY <1>2, <1>3, <2>1
  <2> QED
    BY <1>3, <2>1, <2>2 DEF OutcomeOf, Open, Finished
<1>7. CASE Rest(m) \/ (m \in NonBlocking /\ Written(m))
  <2>1. UNCHANGED <<form, waiting>> /\ pc'[n] = pc[n]
    BY <1>2, <1>3, <1>7
    DEF Rest, Written, Goto, NonBlocking, busVars, masterVars
  <2> QED
    BY <1>3, <2>1, OutcomeSame
<1> QED
  BY <1>1, <1>4, <1>5, <1>6, <1>7
\* The bus ends a call with its last word, and with no other.
LEMMA FallingKeepsOutcome ==
    ASSUME BusInv, SlaveFollowsBus, OutcomeInv, FallingEdge
    PROVE  OutcomeInv'
<1>1. /\ clock = "high" /\ MainAction /\ UNCHANGED pc
      /\ form \in [Master -> Form] /\ Blocking \subseteq Master
      /\ BurstLength \in Nat /\ StartAddress \in [Master -> Nat]
      /\ MaxLength \in Nat
  BY BusAssumption, MastersAssumption
  DEF FallingEdge, masterVars, BusInv, TypeOK, BusTypeOK
<1> SUFFICES ASSUME NEW n \in Blocking PROVE OutcomeOf(n)'
  BY DEF OutcomeInv, BurstOutcome, BurstInv, OutcomeOf
<1>2. OutcomeOf(n) /\ n \in Master
  BY <1>1, OutcomeOfEach
<1>3. CASE NoRequest
  <2>1. UNCHANGED waiting /\ form' = ClearLocks(form)
    BY <1>3 DEF NoRequest
  <2> QED
    BY <1>1, <1>2, <2>1, ClearLocksForm, OutcomeSame
<1>4. ASSUME NEW m \in Selected, Refuse(m)
      PROVE  OutcomeOf(n)'
  <2> DEFINE f == [form EXCEPT ![m].status = "ERROR", ![m].lock = LockOf(m)]
  <2>1. m \in Master /\ Open(m) /\ UNCHANGED waiting /\ form' = ClearLocks(f)
    BY <1>1, <1>4, SelectedIsOpen DEF Refuse
  <2>2. /\ f \in [Master -> Form] /\ f[m].status = "ERROR"
        /\ \A l \in Master : l # m => f[l] = form[l]
    BY <1>1, <2>1, LockOfType DEF Form, Status
  <2> HIDE DEF f
  <2>3. CASE n = m
    <3>1. n \in waiting' /\ form'[n].status = "ERROR"
      BY <1>2, <2>1, <2>2, <2>3, ClearLocksForm DEF BusInv, RequestInv
    <3> QED
      BY <3>1 DEF OutcomeOf, Open, Finished
  <2>4. CASE n # m
    <3>1. f[n] = form[n]
      BY <1>2, <2>2, <2>4
    <3> QED
      BY <1>1, <1>2, <2>1, <2>2, <3>1, ClearLocksForm, OutcomeSame
  <2> QED
    BY <2>3, <2>4
<1>5. ASSUME NEW m \in Selected, Delay(m)
      PROVE  OutcomeOf(n)'
  <2>1. /\ m \in Master /\ Open(m) /\ UNCHANGED waiting
        /\ form' = [form EXCEPT ![m].status = "WAIT", ![m].lock = LockOf(m)]
    BY <1>1, <1>5, SelectedIsOpen DEF Delay
  <2>2. /\ form'[m].status = "WAIT" /\ form'[m].data = form[m].data
        /\ form'[m].address = form[m].address
        /\ form'[m].end_address = form[m].end_address
        /\ \A l \in Master : l # m => form'[l] = form[l]
    BY <1>1, <2>1 DEF Form
  <2>3. CASE n = m
    <3>1. n \in waiting
      BY <1>2, <2>1, <2>3 DEF BusInv, RequestInv
    <3> QED
      BY <1>1, <1>2, <2>1, <2>2, <2>3, <3>1 DEF OutcomeOf, Open, Finished
  <2>4. CASE n # m
    BY <1>1, <1>2, <2>1, <2>2, <2>4, OutcomeSame
  <2> QED
    BY <2>3, <2>4
<1>6. ASSUME NEW m \in Selected, Transfer(m)
      PROVE  OutcomeOf(n)'
  <2> DEFINE f == [form EXCEPT
                      ![m].address = @ + 4, ![m].data = @ + 1,
                      ![m].lock = LockOf(m),
                      ![m].status = IF LastWord(m) THEN "OK" ELSE "WAIT"]
  <2>1. /\ m \in Master /\ Open(m) /\ form' = ClearLocks(f) /\ LockOf(m) \in Lock
        /\ waiting' = IF LastWord(m) THEN waiting \ {m} ELSE waiting
    BY <1>1, <1>6, SelectedIsOpen, LockOfType DEF Transfer, Notify
  <2>2. /\ form[m].address \in Nat /\ form[m].end_address \in Nat
        /\ form[m].data \in Nat /\ form[m].data + 1 \in 0..MaxLength
        /\ form[m].address <= form[m].end_address
    <3>1. form[m] \in Form
      BY <1>1, <2>1
    <3>2. form[m].data < MaxLength /\ form[m].address <= form[m].end_address
      BY <2>1 DEF BusInv, TypeOK, BusTypeOK, TransferInv, Open
    <3> QED
      BY <1>1, <3>1, <3>2 DEF Form
  <2>3. /\ f \in [Master -> Form]
        /\ f[m].status = IF LastWord(m) THEN "OK" ELSE "WAIT"
        /\ f[m].address = form[m].address + 4 /\ f[m].data = form[m].data + 1
        /\ f[m].end_address = form[m].end_address
        /\ \A l \in Master : l # m => f[l] = form[l]
    <3>1. form[m].address + 4 \in Nat
      BY <2>2
    <3>2. (IF LastWord(m) THEN "OK" ELSE "WAIT") \in Status
      BY DEF Status
    <3> DEFINE g == [form[m] EXCEPT
                        !.address = @ + 4, !.data = @ + 1, !.lock = LockOf(m),
                        !.status = IF LastWord(m) THEN "OK" ELSE "WAIT"]
    <3>3. f = [form EXCEPT ![m] = g]
      BY <1>1, <2>1
    <3>4. /\ g \in Form /\ g.status = IF LastWord(m) THEN "OK" ELSE "WAIT"
          /\ g.address = form[m].address + 4 /\ g.data = form[m].data + 1
          /\ g.end_address = form[m].end_address
      BY <1>1, <2>1, <2>2, <3>1, <3>2 DEF Form
    <3> HIDE DEF g, f
    <3> QED
      BY <1>1, <2>1, <3>3, <3>4
  <2> HIDE DEF f
  <2>4. /\ form'[n].address = f[n].address /\ form'[n].data = f[n].data
        /\ form'[n].end_address = f[n].end_address
        /\ form'[n].status = f[n].status
    BY <1>2, <2>1, <2>3, ClearLocksForm
  <2>5. CASE n # m
    <3>1. f[n] = form[n] /\ (n \in waiting' <=> n \in waiting)
      BY <1>2, <2>1, <2>3, <2>5
    <3> QED
      BY <1>1, <1>2, <2>4, <3>1, OutcomeSame
  <2>6. CASE n = m
    <3>1. /\ form[n].address = StartAddress[n] + 4 * form[n].data
          /\ form[n].end_address = StartAddress[n] + (BurstLength - 1) * 4
          /\ n \in waiting /\ StartAddress[n] \in Nat
      BY <1>1, <1>2, <2>1, <2>6 DEF OutcomeOf, BusInv, RequestInv
    <3>2. CASE LastWord(m)
      <4>1. form[n].data + 1 = BurstLength
        BY <1>1, <2>2, <2>6, <3>1, <3>2 DEF LastWord
      <4>2. n \notin waiting' /\ form'[n].status = "OK" /\ form'[n].data = BurstLength
        BY <2>1, <2>3, <2>4, <2>6, <3>2, <4>1
      <4> QED
        BY <4>2 DEF OutcomeOf, Open
    <3>3. CASE ~LastWord(m)
      <4>1. /\ n \in waiting' /\ form'[n].status = "WAIT"
            /\ form'[n].end_address = form[n].end_address
        BY <2>1, <2>3, <2>4, <2>6, <3>1, <3>3
      <4>2. form'[n].address = StartAddress[n] + 4 * form'[n].data
        BY <1>1, <2>2, <2>3, <2>4, <2>6, <3>1
      <4> QED
        BY <3>1, <4>1, <4>2 DEF OutcomeOf, Finished
    <3> QED
      BY <3>2, <3>3
  <2> QED
    BY <2>5, <2>6
<1> QED
  BY <1>1, <1>3, <1>4, <1>5, <1>6 DEF MainAction

LEMMA OutcomeStep ==
    BusInv /\ SlaveFollowsBus /\ OutcomeInv /\ [Next]_vars => OutcomeInv'
<1> SUFFICES ASSUME BusInv, SlaveFollowsBus, OutcomeInv, [Next]_vars
             PROVE  OutcomeInv'
  OBVIOUS
<1>1. CASE RisingEdge \/ UNCHANGED vars
  <2>1. UNCHANGED <<form, waiting, pc>>
    BY <1>1 DEF RisingEdge, vars, busVars, masterVars
  <2> QED
    BY <2>1 DEF OutcomeInv, BurstOutcome, BurstInv, Open, Finished
<1> QED
  BY <1>1, MasterKeepsOutcome, FallingKeepsOutcome DEF Next

(***************************************************************************)
(* A burst returns with all of its words or not at all, for every set of   *)
(* masters, burst length, memory and number of wait states.                *)
(***************************************************************************)
THEOREM BurstOutcomeHolds == Spec => []BurstOutcome
<1>1. OutcomeInv => BurstOutcome
  BY DEF OutcomeInv
<1> QED
  BY <1>1, BusInvariance, OutcomeStart, OutcomeStep, PTL DEF Spec

\* A failed request is closed, and only an open one can end the wait.
LEMMA FailedStays ==
    ASSUME NEW m \in Blocking, BusInv, SlaveFollowsBus, [Next]_vars,
           m \in waiting, form[m].status = "ERROR"
    PROVE  m \in waiting' /\ form'[m].status = "ERROR"
<1>1. m \in Master /\ ~Open(m) /\ form \in [Master -> Form]
  BY MastersAssumption DEF Open, BusInv, TypeOK, BusTypeOK
<1>2. CASE RisingEdge \/ UNCHANGED vars
  BY <1>2 DEF RisingEdge, vars, busVars
<1>3. CASE RunMaster
  <2>1. PICK n \in due \ waiting :
           /\ \/ Rest(n)
              \/ n \in Blocking /\ (BurstRead(n) \/ Add(n) \/ BurstWrite(n) \/ BurstWritten(n))
              \/ n \in NonBlocking /\ (Read(n) \/ Write(n) \/ Written(n))
    BY <1>3 DEF RunMaster
  <2>2. waiting' \in {waiting, waiting \cup {n}} /\ n # m
    BY <2>1
    DEF Rest, BurstRead, Add, BurstWrite, BurstWritten, Burst, Read, Write,
        Written, busVars
  <2>3. form'[m] = form[m]
    BY <1>1, <2>1, <2>2
    DEF Rest, BurstRead, Add, BurstWrite, BurstWritten, Burst, Read, Write,
        Written, Request, busVars
  <2> QED
    BY <2>2, <2>3
<1>4. CASE FallingEdge
  <2>1. CASE NoRequest
    BY <1>1, <2>1, ClearLocksForm DEF NoRequest
  <2>2. ASSUME NEW n \in Selected, Refuse(n) \/ Delay(n) \/ Transfer(n)
        PROVE  m \in waiting' /\ form'[m].status = "ERROR"
    <3>1. n \in Master /\ n # m
      BY <1>1, SelectedIsOpen
    <3>2. m \in waiting'
      BY <2>2, <3>1 DEF Refuse, Delay, Transfer, Notify
    <3>3. form'[m].status = form[m].status
      <4>1. ASSUME NEW f, f[m] = form[m], form' = ClearLocks(f)
            PROVE  form'[m].status = form[m].status
        <5>1. form[m] \in Form
          BY <1>1
        <5>2. form'[m] = [form[m] EXCEPT !.lock = IF @ = "GRANTED" THEN "SET" ELSE "NO"]
          BY <1>1, <4>1 DEF ClearLocks
        <5> QED
          BY <5>1, <5>2 DEF Form
      <4>2. CASE Refuse(n)
        <5> DEFINE f == [form EXCEPT ![n].status = "ERROR", ![n].lock = LockOf(n)]
        <5>1. f[m] = form[m] /\ form' = ClearLocks(f)
          BY <1>1, <3>1, <4>2 DEF Refuse
        <5> QED
          BY <4>1, <5>1
      <4>3. CASE Delay(n)
        BY <1>1, <3>1, <4>3 DEF Delay
      <4>4. CASE Transfer(n)
        <5> DEFINE f == [form EXCEPT
                            ![n].address = @ + 4, ![n].data = @ + 1,
                            ![n].lock = LockOf(n),
                            ![n].status = IF LastWord(n) THEN "OK" ELSE "WAIT"]
        <5>1. f[m] = form[m] /\ form' = ClearLocks(f)
          BY <1>1, <3>1, <4>4 DEF Transfer
        <5> QED
          BY <4>1, <5>1
      <4> QED
        BY <2>2, <4>2, <4>3, <4>4
    <3> QED
      BY <3>2, <3>3
  <2> QED
    BY <1>4, <2>1, <2>2 DEF FallingEdge, MainAction
<1> QED
  BY <1>2, <1>3, <1>4 DEF Next

(***************************************************************************)
(* The other side of it: the call of a blocking master that failed does    *)
(* not return, whatever the other masters do.                              *)
(***************************************************************************)
THEOREM FailedBurstWaits ==
    ASSUME NEW m \in Blocking
    PROVE  Spec => []((m \in waiting /\ form[m].status = "ERROR")
                          => [](m \in waiting))
<1> DEFINE Failed == m \in waiting /\ form[m].status = "ERROR"
           Inv == BusInv /\ SlaveFollowsBus
           Waits == m \in waiting
<1>1. Inv /\ Failed /\ [Next]_vars => Failed'
  BY FailedStays
<1>2. Failed => Waits
  OBVIOUS
<1>3. Spec => []Inv
  BY BusInvariance, PTL
<1> HIDE DEF Failed, Inv, Waits
<1>4. Spec => [](Failed => []Waits)
  BY <1>1, <1>2, <1>3, PTL DEF Spec
<1> QED
  BY <1>4 DEF Failed, Waits
=============================================================================
