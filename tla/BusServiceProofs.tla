-------------------------- MODULE BusServiceProofs --------------------------
(***************************************************************************)
(* The bus implements the service (BusService), as far as safety goes: its *)
(* initial states are states the service starts in, and each of its steps  *)
(* is a step of the service or none.  A falling edge that only delays, and *)
(* the clearing of locks, are no steps; a transfer is a move, a refusal a  *)
(* failure, and what a master does is a call.  The service ends a request  *)
(* with the word at end_address, the bus when address + 4 passes it: the   *)
(* same, as the two stay a multiple of 4 apart (AlignInv).  The other      *)
(* parts are about the locks and the priorities of the bus (BusLocks).     *)
(***************************************************************************)
EXTENDS BusLocks, BusProofs

AlignInv ==
    \A m \in Master : Open(m) =>
        \E k \in Nat : form[m].end_address = form[m].address + 4 * k

ServiceInv == BusInv /\ SlaveFollowsBus /\ LockInv /\ AlignInv

\* What the service knows of a request, and the step it takes.
Abstract(m) ==
    IF Finished(m) THEN <<>>
    ELSE [do_write |-> form[m].do_write,
          address |-> form[m].address,
          end_address |-> form[m].end_address,
          moved |-> form[m].data]

ServiceSafe == Service!Safe

ServiceStep == [Service!Next]_(Service!serviceVars)

-----------------------------------------------------------------------------

LEMMA AbstractRecord ==
    ASSUME NEW m \in Master, ~Finished(m)
    PROVE  /\ Abstract(m) # <<>>
           /\ Abstract(m) = [do_write |-> form[m].do_write,
                             address |-> form[m].address,
                             end_address |-> form[m].end_address,
                             moved |-> form[m].data]
<1> DEFINE r == [do_write |-> form[m].do_write,
                 address |-> form[m].address,
                 end_address |-> form[m].end_address,
                 moved |-> form[m].data]
<1>1. Abstract(m) = r
  BY DEF Abstract
<1>2. "moved" \in DOMAIN r
  OBVIOUS
<1>3. DOMAIN <<>> = {}
  OBVIOUS
<1> QED
  BY <1>1, <1>2, <1>3

Remaining == [do_write : BOOLEAN, address : Nat, end_address : Nat, moved : Nat]

LEMMA MovedOn ==
    ASSUME NEW r \in Remaining, NEW s \in Remaining,
           s.do_write = r.do_write, s.address = r.address + 4,
           s.end_address = r.end_address, s.moved = r.moved + 1
    PROVE  s = [r EXCEPT !.address = r.address + 4, !.moved = @ + 1]
BY DEF Remaining

LEMMA OpenOrFinished ==
    ASSUME BusTypeOK, NEW m \in Master
    PROVE  Finished(m) <=> ~Open(m)
BY DEF BusTypeOK, Form, Status, Finished, Open

LEMMA Stutter ==
    ASSUME UNCHANGED <<words, buffer>>,
           \A m \in Master : Abstract(m)' = Abstract(m)
    PROVE  ServiceStep
BY DEF ServiceStep, Service!serviceVars, Abstract

LEMMA AsCall ==
    ASSUME NEW m \in Master, Abstract(m) = <<>>,
           Abstract(m)' # <<>> => Abstract(m)'.moved = 0,
           \A n \in Master \ {m} :
               buffer'[n] = buffer[n] /\ Abstract(n)' = Abstract(n),
           UNCHANGED words
    PROVE  ServiceStep
<1>1. Service!Call(m)
  BY DEF Service!Call, Service!OthersUntouched, Abstract
<1> QED
  BY <1>1 DEF ServiceStep, Service!Next

LEMMA AsFail ==
    ASSUME NEW m \in Master, Abstract(m) # <<>>,
           Abstract(m).address \notin SlaveAddr, Abstract(m)' = <<>>,
           \A n \in Master \ {m} : Abstract(n)' = Abstract(n),
           UNCHANGED <<words, buffer>>
    PROVE  ServiceStep
<1>1. Service!Fail(m)
  BY DEF Service!Fail, Abstract
<1> QED
  BY <1>1 DEF ServiceStep, Service!Next

LEMMA AsMove ==
    ASSUME NEW m \in Master, Abstract(m) # <<>>,
           Abstract(m).address \in SlaveAddr,
           IF Abstract(m).do_write
             THEN /\ words' = [words EXCEPT ![Abstract(m).address] =
                                   buffer[m][Abstract(m).moved]]
                  /\ UNCHANGED buffer
             ELSE /\ buffer' = [buffer EXCEPT ![m][Abstract(m).moved] =
                                    words[Abstract(m).address]]
                  /\ UNCHANGED words,
           Abstract(m)' = IF Abstract(m).address = Abstract(m).end_address
                            THEN <<>>
                            ELSE [Abstract(m) EXCEPT
                                     !.address = Abstract(m).address + 4,
                                     !.moved = @ + 1],
           \A n \in Master \ {m} : Abstract(n)' = Abstract(n)
    PROVE  ServiceStep
<1> DEFINE R == [n \in Master |->
                   IF Finished(n) THEN <<>>
                   ELSE [do_write |-> form[n].do_write,
                         address |-> form[n].address,
                         end_address |-> form[n].end_address,
                         moved |-> form[n].data]]
<1>2. /\ R = [n \in Master |-> Abstract(n)]
      /\ R' = [n \in Master |-> Abstract(n)']
  BY DEF Abstract
<1>3. R[m] = Abstract(m)
  BY <1>2
<1>4. R' = [R EXCEPT ![m] =
              IF R[m].address = R[m].end_address THEN <<>>
              ELSE [R[m] EXCEPT !.address = R[m].address + 4, !.moved = @ + 1]]
  <2> HIDE DEF R
  <2> QED
    BY <1>2, <1>3
<1>5. /\ R[m] # <<>> /\ R[m].address \in SlaveAddr
      /\ IF R[m].do_write
           THEN /\ words' = [words EXCEPT ![R[m].address] = buffer[m][R[m].moved]]
                /\ UNCHANGED buffer
           ELSE /\ buffer' = [buffer EXCEPT ![m][R[m].moved] = words[R[m].address]]
                /\ UNCHANGED words
  <2> HIDE DEF R
  <2> QED
    BY <1>3
<1>1. Service!Move(m)
  BY <1>4, <1>5 DEF Service!Move
<1> QED
  BY <1>1 DEF ServiceStep, Service!Next

-----------------------------------------------------------------------------
(* The masters. *)

\* A master that runs uses its own buffer and makes its own request.
LEMMA MasterCalls ==
    ASSUME BusInv, RunMaster
    PROVE  /\ UNCHANGED words
           /\ \/ UNCHANGED <<form, buffer>>
              \/ \E m \in Master :
                    /\ ~Open(m)
                    /\ \A n \in Master \ {m} :
                          form'[n] = form[n] /\ buffer'[n] = buffer[n]
                    /\ \/ form'[m] = form[m]
                       \/ /\ form'[m].data = 0
                          /\ \E k \in Nat : form'[m].end_address
                                               = form'[m].address + 4 * k
<1>1. PICK m \in due \ waiting :
         /\ \/ Rest(m)
            \/ m \in Blocking /\ (BurstRead(m) \/ Add(m) \/ BurstWrite(m) \/ BurstWritten(m))
            \/ m \in NonBlocking /\ (Read(m) \/ Write(m) \/ Written(m))
         /\ UNCHANGED <<slaveVars, m_lock>>
  BY DEF RunMaster
<1>2. /\ m \in Master /\ m \notin waiting /\ m_lock[m] \in BOOLEAN
      /\ StartAddress[m] \in Nat /\ BurstLength \in 1..MaxLength
      /\ 1 \in 1..MaxLength /\ form \in [Master -> Form]
      /\ buffer \in [Master -> [0..MaxLength - 1 -> Word]]
      /\ UNCHANGED words /\ MaxLength \in Nat
  BY <1>1, BusAssumption, MastersAssumption
  DEF BusInv, TypeOK, MastersTypeOK, BusTypeOK, slaveVars
<1>3. ASSUME NEW write \in BOOLEAN, NEW start \in Nat,
             NEW length \in 1..MaxLength,
             Request(m, write, start, length, m_lock[m])
      PROVE  /\ form'[m].data = 0
             /\ \E k \in Nat : form'[m].end_address = form'[m].address + 4 * k
             /\ \A n \in Master \ {m} : form'[n] = form[n]
  <2>1. /\ form'[m].data = 0 /\ form'[m].address = start
        /\ form'[m].end_address = start + (length - 1) * 4
        /\ \A n \in Master : n # m => form'[n] = form[n]
    <3>1. form \in [Master -> Form] /\ m \in Master /\ m_lock[m] \in BOOLEAN
      BY <1>2
    <3> QED
      BY <1>3, <3>1, RequestForm
  <2>2. /\ length - 1 \in Nat
        /\ form'[m].end_address = form'[m].address + 4 * (length - 1)
    BY <1>2, <2>1
  <2> QED
    BY <2>1, <2>2
<1>4. ASSUME NEW n, NEW v, AddTo(m, n, v)
      PROVE  \A q \in Master \ {m} : buffer'[q] = buffer[q]
  BY <1>2, <1>4 DEF AddTo
<1>5. CASE m \in Blocking /\ (BurstRead(m) \/ BurstWrite(m))
  <2>1. PICK write \in BOOLEAN :
           /\ Request(m, write, StartAddress[m], BurstLength, m_lock[m])
           /\ UNCHANGED buffer
    BY <1>5 DEF BurstRead, BurstWrite, Burst
  <2>2. ~Open(m)
    BY <1>2, <1>5 DEF BusInv, RequestInv
  <2> QED
    BY <1>2, <1>3, <2>1, <2>2
<1>6. CASE m \in Blocking /\ Add(m)
  <2>1. ~Open(m)
    BY <1>2, <1>6 DEF BusInv, RequestInv
  <2>2. UNCHANGED form /\ AddTo(m, i[m], i[m])
    BY <1>6 DEF Add
  <2> QED
    BY <1>2, <1>4, <2>1, <2>2
<1>7. CASE m \in NonBlocking /\ Read(m)
  <2>1. PICK write \in BOOLEAN :
           Request(m, write, addr[m], 1, m_lock[m]) /\ UNCHANGED buffer
    BY <1>7 DEF Read
  <2>2. ~Open(m) /\ addr[m] \in Nat
    BY <1>2, <1>7
    DEF Read, BusInv, RequestInv, NonBlocking, TypeOK, MastersTypeOK
  <2> QED
    BY <1>2, <1>3, <2>1, <2>2
<1>8. CASE m \in NonBlocking /\ Write(m)
  <2>1. PICK write \in BOOLEAN :
           Request(m, write, addr[m], 1, m_lock[m]) /\ AddTo(m, 0, cnt[m])
    BY <1>8 DEF Write
  <2>2. ~Open(m) /\ addr[m] \in Nat
    BY <1>2, <1>8
    DEF Write, Finished, Open, BusInv, NonBlocking, TypeOK, MastersTypeOK
  <2> QED
    BY <1>2, <1>3, <1>4, <2>1, <2>2
<1>9. CASE Rest(m) \/ BurstWritten(m) \/ Written(m)
  BY <1>2, <1>9 DEF Rest, BurstWritten, Written, busVars
<1> QED
  BY <1>1, <1>5, <1>6, <1>7, <1>8, <1>9

LEMMA MasterSteps ==
    ASSUME ServiceInv, BusInv', RunMaster
    PROVE  ServiceStep /\ AlignInv'
<1>1. UNCHANGED words
  BY MasterCalls DEF ServiceInv
<1>2. CASE UNCHANGED <<form, buffer>>
  <2>1. \A m \in Master : Abstract(m)' = Abstract(m)
    BY <1>2 DEF Abstract, Finished
  <2> QED
    BY <1>1, <1>2, <2>1, Stutter DEF ServiceInv, AlignInv, Open
<1>3. CASE ~UNCHANGED <<form, buffer>>
  <2>1. PICK m \in Master :
           /\ ~Open(m)
           /\ \A n \in Master \ {m} :
                 form'[n] = form[n] /\ buffer'[n] = buffer[n]
           /\ \/ form'[m] = form[m]
              \/ /\ form'[m].data = 0
                 /\ \E k \in Nat : form'[m].end_address
                                      = form'[m].address + 4 * k
    BY <1>3, MasterCalls DEF ServiceInv
  <2>2. Finished(m)
    BY <2>1, OpenOrFinished DEF ServiceInv, BusInv, TypeOK
  <2>3. Abstract(m) = <<>>
    BY <2>2 DEF Abstract
  <2>4. Abstract(m)' # <<>> => Abstract(m)'.moved = 0
    BY <2>1, <2>2 DEF Abstract, Finished
  <2>5. \A n \in Master \ {m} :
           buffer'[n] = buffer[n] /\ Abstract(n)' = Abstract(n)
    BY <2>1 DEF Abstract, Finished
  <2>6. ServiceStep
    BY <1>1, <2>3, <2>4, <2>5, AsCall
  <2>7. AlignInv'
    BY <2>1 DEF ServiceInv, AlignInv, Open
  <2> QED
    BY <2>6, <2>7
<1> QED
  BY <1>2, <1>3

-----------------------------------------------------------------------------
(* The bus. *)

LEMMA NoRequestSteps ==
    ASSUME ServiceInv, FallingEdge, NoRequest
    PROVE  ServiceStep /\ AlignInv'
<1>1. /\ form' = ClearLocks(form) /\ UNCHANGED <<words, buffer>>
      /\ form \in [Master -> Form]
  BY DEF NoRequest, slaveVars, ServiceInv, BusInv, TypeOK, BusTypeOK
<1>2. \A n \in Master :
         /\ form'[n].do_write = form[n].do_write
         /\ form'[n].address = form[n].address
         /\ form'[n].end_address = form[n].end_address
         /\ form'[n].data = form[n].data /\ form'[n].status = form[n].status
  BY <1>1 DEF ClearLocks, Form
<1>3. \A n \in Master : Abstract(n)' = Abstract(n)
  BY <1>2 DEF Abstract, Finished
<1> QED
  BY <1>1, <1>2, <1>3, Stutter DEF ServiceInv, AlignInv, Open

LEMMA DelaySteps ==
    ASSUME ServiceInv, FallingEdge, NEW m \in Selected, Delay(m)
    PROVE  ServiceStep /\ AlignInv'
<1>1. /\ form' = [form EXCEPT ![m].status = "WAIT", ![m].lock = LockOf(m)]
      /\ UNCHANGED <<words, buffer>> /\ form \in [Master -> Form]
      /\ m \in Master /\ Open(m)
  BY SelectedIsOpen DEF Delay, ServiceInv, BusInv, TypeOK, BusTypeOK
<1>2. \A n \in Master :
         /\ form'[n].do_write = form[n].do_write
         /\ form'[n].address = form[n].address
         /\ form'[n].end_address = form[n].end_address
         /\ form'[n].data = form[n].data
         /\ n # m => form'[n].status = form[n].status
  BY <1>1 DEF Form
<1>3. form'[m].status = "WAIT"
  BY <1>1 DEF Form
<1>4. \A n \in Master : Finished(n)' <=> Finished(n)
  BY <1>1, <1>2, <1>3 DEF Finished, Open
<1>5. \A n \in Master : Abstract(n)' = Abstract(n)
  BY <1>2, <1>4 DEF Abstract
<1>6. \A n \in Master : Open(n)' => Open(n)
  BY <1>1, <1>2 DEF Open
<1> QED
  BY <1>1, <1>2, <1>5, <1>6, Stutter DEF ServiceInv, AlignInv

LEMMA RefuseSteps ==
    ASSUME ServiceInv, FallingEdge, NEW m \in Selected, Refuse(m)
    PROVE  ServiceStep /\ AlignInv'
<1> DEFINE f == [form EXCEPT ![m].status = "ERROR", ![m].lock = LockOf(m)]
<1>1. /\ form' = ClearLocks(f) /\ form[m].address \notin SlaveAddr
      /\ UNCHANGED <<words, buffer>> /\ form \in [Master -> Form]
      /\ m \in Master /\ Open(m) /\ ~Finished(m)
  BY SelectedIsOpen, OpenOrFinished
  DEF Refuse, slaveVars, ServiceInv, BusInv, TypeOK, BusTypeOK
<1>2. /\ f[m].status = "ERROR"
      /\ \A n \in Master : n # m => f[n] = form[n]
  BY <1>1 DEF Form
<1> HIDE DEF f
<1>3. \A n \in Master : form'[n] = [f[n] EXCEPT !.lock = IF @ = "GRANTED" THEN "SET" ELSE "NO"]
  BY <1>1 DEF ClearLocks
<1>4. form'[m].status = "ERROR"
  <2> USE DEF f
  <2> QED
    BY <1>1 DEF ClearLocks, Form
<1>5. ASSUME NEW n \in Master \ {m}
      PROVE  /\ form'[n].do_write = form[n].do_write
             /\ form'[n].address = form[n].address
             /\ form'[n].end_address = form[n].end_address
             /\ form'[n].data = form[n].data /\ form'[n].status = form[n].status
  <2>1. f[n] = form[n] /\ form[n] \in Form
    BY <1>1, <1>2
  <2>2. form'[n] = [form[n] EXCEPT !.lock = IF @ = "GRANTED" THEN "SET" ELSE "NO"]
    BY <1>3, <2>1
  <2> QED
    BY <2>1, <2>2 DEF Form
<1>6. \A n \in Master \ {m} : Abstract(n)' = Abstract(n)
  BY <1>5 DEF Abstract, Finished
<1>7. Abstract(m)' = <<>>
  BY <1>4 DEF Abstract, Finished
<1>8. Abstract(m) # <<>> /\ Abstract(m).address \notin SlaveAddr
  BY <1>1, AbstractRecord
<1>9. ServiceStep
  BY <1>1, <1>6, <1>7, <1>8, AsFail
<1>10. AlignInv'
  BY <1>4, <1>5 DEF ServiceInv, AlignInv, Open
<1> QED
  BY <1>9, <1>10

\* A transfer moves one word, and finishes the request with the last one.
LEMMA TransferSteps ==
    ASSUME ServiceInv, FallingEdge, NEW m \in Selected, Transfer(m)
    PROVE  ServiceStep /\ AlignInv'
<1> DEFINE status == IF LastWord(m) THEN "OK" ELSE "WAIT"
           g == [form[m] EXCEPT !.address = @ + 4, !.data = @ + 1,
                                !.lock = LockOf(m), !.status = status]
           f == [form EXCEPT ![m] = g]
           lock(n) == IF f[n].lock = "GRANTED" THEN "SET" ELSE "NO"
<1>1. /\ form \in [Master -> Form]
      /\ m \in Master /\ Open(m) /\ ~Finished(m) /\ form[m] \in Form
      /\ Answers(form[m].address) /\ Copy(m)
  BY SelectedIsOpen, OpenOrFinished
  DEF Transfer, ServiceInv, BusInv, TypeOK, BusTypeOK
<1>2. form' = [n \in Master |-> [f[n] EXCEPT !.lock = lock(n)]]
  <2>1. f = [form EXCEPT
                ![m].address = @ + 4, ![m].data = @ + 1, ![m].lock = LockOf(m),
                ![m].status = IF LastWord(m) THEN "OK" ELSE "WAIT"]
    BY <1>1
  <2>2. form' = ClearLocks(f)
    BY <2>1 DEF Transfer
  <2> HIDE DEF f
  <2> QED
    BY <2>2 DEF ClearLocks
<1>3. ASSUME NEW n \in Master \ {m}
      PROVE  /\ form'[n].do_write = form[n].do_write
             /\ form'[n].address = form[n].address
             /\ form'[n].end_address = form[n].end_address
             /\ form'[n].data = form[n].data /\ form'[n].status = form[n].status
  <2>1. f[n] = form[n] /\ form[n] \in Form
    BY <1>1
  <2> HIDE DEF f
  <2>2. form'[n] = [form[n] EXCEPT !.lock = lock(n)]
    BY <1>2, <2>1
  <2> HIDE DEF lock
  <2> QED
    BY <2>1, <2>2 DEF Form
<1>4. /\ form'[m].do_write = form[m].do_write
      /\ form'[m].address = form[m].address + 4
      /\ form'[m].end_address = form[m].end_address
      /\ form'[m].data = form[m].data + 1
      /\ form'[m].status = status
  <2>1. f[m] = g
    BY <1>1
  <2> HIDE DEF f
  <2>2. form'[m] = [g EXCEPT !.lock = lock(m)]
    BY <1>1, <1>2, <2>1
  <2> HIDE DEF lock, status
  <2> QED
    BY <1>1, <2>2 DEF Form
<1>5. \A n \in Master \ {m} : Abstract(n)' = Abstract(n)
  BY <1>3 DEF Abstract, Finished
<1>6. LastWord(m) <=> form[m].address = form[m].end_address
  <2>1. PICK k \in Nat : form[m].end_address = form[m].address + 4 * k
    BY <1>1 DEF ServiceInv, AlignInv
  <2>2. form[m].address \in Nat
    BY <1>1 DEF Form
  <2> QED
    BY <2>1, <2>2 DEF LastWord
<1>7. /\ Abstract(m) # <<>>
      /\ Abstract(m) = [do_write |-> form[m].do_write,
                        address |-> form[m].address,
                        end_address |-> form[m].end_address,
                        moved |-> form[m].data]
  BY <1>1, AbstractRecord
<1>8. Abstract(m)' = IF Abstract(m).address = Abstract(m).end_address
                       THEN <<>>
                       ELSE [Abstract(m) EXCEPT
                                !.address = Abstract(m).address + 4,
                                !.moved = @ + 1]
  <2>1. CASE LastWord(m)
    BY <1>4, <1>6, <1>7, <2>1 DEF Abstract, Finished
  <2>2. CASE ~LastWord(m)
    <3>1. ~Finished(m)'
      BY <1>4, <2>2 DEF Finished
    <3>2. Abstract(m)' = [do_write |-> form[m].do_write,
                          address |-> form[m].address + 4,
                          end_address |-> form[m].end_address,
                          moved |-> form[m].data + 1]
      BY <1>4, <3>1 DEF Abstract
    <3>3. Abstract(m).address # Abstract(m).end_address
      BY <1>6, <1>7, <2>2
    <3>4. Abstract(m) \in Remaining
      BY <1>1, <1>7 DEF Remaining, Form
    <3>5. /\ Abstract(m)' \in Remaining
          /\ Abstract(m)'.do_write = Abstract(m).do_write
          /\ Abstract(m)'.address = Abstract(m).address + 4
          /\ Abstract(m)'.end_address = Abstract(m).end_address
          /\ Abstract(m)'.moved = Abstract(m).moved + 1
      BY <1>1, <1>7, <3>2 DEF Remaining, Form
    <3> QED
      BY <3>3, <3>4, <3>5, MovedOn
  <2> QED
    BY <2>1, <2>2
<1>9. Abstract(m).address \in SlaveAddr
  BY <1>1, <1>7 DEF Answers, SlaveAddr
<1>10. IF Abstract(m).do_write
         THEN /\ words' = [words EXCEPT ![Abstract(m).address] =
                               buffer[m][Abstract(m).moved]]
              /\ UNCHANGED buffer
         ELSE /\ buffer' = [buffer EXCEPT ![m][Abstract(m).moved] =
                                words[Abstract(m).address]]
              /\ UNCHANGED words
  BY <1>1, <1>7 DEF Copy
<1>11. ServiceStep
  BY <1>1, <1>5, <1>7, <1>8, <1>9, <1>10, AsMove
<1>12. AlignInv'
  <2> SUFFICES ASSUME NEW n \in Master, Open(n)'
               PROVE  \E k \in Nat : form'[n].end_address = form'[n].address + 4 * k
    BY DEF AlignInv
  <2>1. CASE n # m
    BY <1>3, <2>1 DEF ServiceInv, AlignInv, Open
  <2>2. CASE n = m
    <3>1. form[m].address # form[m].end_address
      BY <1>4, <1>6, <2>2 DEF Open
    <3>2. PICK k \in Nat : form[m].end_address = form[m].address + 4 * k
      BY <1>1 DEF ServiceInv, AlignInv
    <3>3. form[m].address \in Nat
      BY <1>1 DEF Form
    <3>4. k - 1 \in Nat
      BY <3>1, <3>2, <3>3
    <3>5. form'[m].end_address = form'[m].address + 4 * (k - 1)
      BY <1>4, <3>2, <3>3
    <3> QED
      BY <2>2, <3>4, <3>5
  <2> QED
    BY <2>1, <2>2
<1> QED
  BY <1>11, <1>12

-----------------------------------------------------------------------------
(* The specification. *)

LEMMA ServiceStart == Init => Service!Init /\ AlignInv
<1> SUFFICES ASSUME Init PROVE Service!Init /\ AlignInv
  OBVIOUS
<1>1. \A m \in Master : Finished(m) /\ ~Open(m)
  BY DEF Init, BusInit, Finished, Open
<1>2. words = [a \in SlaveAddr |-> 0]
  BY DEF Init, SlavesInit
<1> QED
  BY <1>1, <1>2 DEF Service!Init, AlignInv

LEMMA ServiceKept ==
    ServiceInv /\ BusInv' /\ [Next]_vars => ServiceStep /\ AlignInv'
<1> SUFFICES ASSUME ServiceInv, BusInv', [Next]_vars
             PROVE  ServiceStep /\ AlignInv'
  OBVIOUS
<1>1. CASE RunMaster
  BY <1>1, MasterSteps
<1>2. CASE RisingEdge \/ UNCHANGED vars
  <2>1. UNCHANGED <<words, form, buffer>>
    BY <1>2 DEF RisingEdge, busVars, vars, slaveVars
  <2>2. \A m \in Master : Abstract(m)' = Abstract(m)
    BY <2>1 DEF Abstract, Finished
  <2> QED
    BY <2>1, <2>2, Stutter DEF ServiceInv, AlignInv, Open
<1>3. CASE FallingEdge
  <2>1. NoRequest \/ \E m \in Selected : Refuse(m) \/ Delay(m) \/ Transfer(m)
    BY <1>3 DEF FallingEdge, MainAction
  <2> QED
    BY <1>3, <2>1, NoRequestSteps, RefuseSteps, DelaySteps, TransferSteps
<1> QED
  BY <1>1, <1>2, <1>3 DEF Next

(***************************************************************************)
(* Whatever the masters, their priorities and locks, the wait states and   *)
(* the memory: the words of a request are moved one by one, in order, each *)
(* at once and exactly once, and nothing else touches the memory or the    *)
(* buffer of a request that is not finished.  This is the safety part of   *)
(* ServiceSpec; that every request is finished eventually stays with the   *)
(* model checker.                                                          *)
(***************************************************************************)
THEOREM ImplementsService == Spec => ServiceSafe
<1>1. Init => Service!Init /\ AlignInv
  BY ServiceStart
<1>2. /\ BusInv /\ SlaveFollowsBus /\ LockInv /\ AlignInv
      /\ BusInv' /\ [Next]_vars
   => AlignInv' /\ [Service!Next]_(Service!serviceVars)
  BY ServiceKept DEF ServiceInv, ServiceStep
<1> QED
  BY <1>1, <1>2, BusInvariance, PTL DEF Spec, ServiceSafe, Service!Safe

-----------------------------------------------------------------------------
(* What a lock is worth.  After a word moved with a granted lock the form  *)
(* of its master keeps the lock set, and only a lock that the master asks  *)
(* for can be set: whatever the master does next, more words of the same   *)
(* burst or a new request, meets one of the arbiter's two lock rules, and  *)
(* no other request meets one (LockInv of BusProofs).                      *)

\* Only a master that locks the bus has a lock.
AskedInv == \A m \in Master : form[m].lock # "NO" => m_lock[m]

\* The master that may count on the bus has the lock that counts.
GrantInv ==
    /\ holder \in Master \cup {None}
    /\ granted /\ holder # None =>
          IF m_current_request = None THEN Holds(holder)
                                      ELSE m_current_request = holder

GrantedInv == BusInv /\ SlaveFollowsBus /\ LockInv /\ AskedInv /\ GrantInv

-----------------------------------------------------------------------------

\* There is one request to select, at most.
LEMMA SelectedOnce ==
    ASSUME BusInv, SlaveFollowsBus, LockInv, NEW m \in Selected, NEW n \in Selected
    PROVE  m = n
<1>1. CASE m_current_request # None
  BY <1>1 DEF Selected
<1>2. CASE m_current_request = None
  <2>1. CASE LockedBurst # {} \/ LockedCall # {}
    BY <1>2, <2>1
    DEF Selected, arbitrate, LockedBurst, LockedCall, Pending, LockInv, Holds
  <2>2. CASE LockedBurst = {} /\ LockedCall = {}
    <3>1. m \in Best /\ n \in Best
      BY <1>2, <2>2 DEF Selected, arbitrate
    <3>2. m <= n /\ n <= m /\ m \in Nat /\ n \in Nat
      BY <3>1, BusAssumption DEF Best, Pending
    <3> QED
      BY <3>2
  <2> QED
    BY <2>1, <2>2
<1> QED
  BY <1>1, <1>2

\* The master that may count on the bus is selected when it has a request.
LEMMA HolderSelected ==
    ASSUME GrantedInv, granted, holder \in Pending
    PROVE  Selected \subseteq {holder}
<1>1. holder \in Master /\ holder # None
  BY BusAssumption DEF Pending, None
<1>2. CASE m_current_request # None
  BY <1>1, <1>2 DEF Selected, GrantedInv, GrantInv
<1>3. CASE m_current_request = None
  <2>1. Holds(holder)
    BY <1>1, <1>3 DEF GrantedInv, GrantInv
  <2>2. holder \in LockedBurst \cup LockedCall
    BY <2>1 DEF Holds, LockedBurst, LockedCall, Pending
  <2>3. \A n \in LockedBurst \cup LockedCall : n = holder
    BY <1>1, <1>3, <2>1
    DEF Holds, LockedBurst, LockedCall, Pending, GrantedInv, LockInv
  <2> QED
    BY <1>3, <2>2, <2>3 DEF Selected, arbitrate
<1> QED
  BY <1>2, <1>3

\* A master's step sets only a lock that the master asks for, and a lock
\* that was set is granted to the next request.
LEMMA MasterLocks ==
    ASSUME BusInv, RunMaster
    PROVE  /\ UNCHANGED m_lock
           /\ \A n \in Master :
                 \/ form'[n] = form[n]
                 \/ /\ ~Open(n) /\ form'[n].status = "REQUEST"
                    /\ form'[n].lock = LockFor(n, m_lock[n])
<1>1. PICK m \in due \ waiting :
         /\ \/ Rest(m)
            \/ m \in Blocking /\ (BurstRead(m) \/ Add(m) \/ BurstWrite(m) \/ BurstWritten(m))
            \/ m \in NonBlocking /\ (Read(m) \/ Write(m) \/ Written(m))
         /\ UNCHANGED <<slaveVars, clock, m_lock>>
  BY DEF RunMaster
<1>2. /\ m \in Master /\ m \notin waiting /\ m_lock[m] \in BOOLEAN
      /\ StartAddress[m] \in Nat /\ BurstLength \in 1..MaxLength
      /\ 1 \in 1..MaxLength /\ form \in [Master -> Form]
  BY <1>1, BusAssumption, MastersAssumption
  DEF BusInv, TypeOK, MastersTypeOK, BusTypeOK
<1>3. ASSUME NEW write \in BOOLEAN, NEW start \in Nat,
             NEW length \in 1..MaxLength,
             Request(m, write, start, length, m_lock[m])
      PROVE  /\ form'[m].status = "REQUEST"
             /\ form'[m].lock = LockFor(m, m_lock[m])
             /\ \A n \in Master : n # m => form'[n] = form[n]
  BY <1>2, <1>3, RequestForm
<1>4. CASE m \in Blocking /\ (BurstRead(m) \/ BurstWrite(m))
  <2>1. PICK write \in BOOLEAN :
           Request(m, write, StartAddress[m], BurstLength, m_lock[m])
    BY <1>4 DEF BurstRead, BurstWrite, Burst
  <2>2. ~Open(m)
    BY <1>2, <1>4 DEF BusInv, RequestInv
  <2> QED
    BY <1>1, <1>2, <1>3, <2>1, <2>2
<1>5. CASE m \in NonBlocking /\ (Read(m) \/ Write(m))
  <2>1. PICK write \in BOOLEAN : Request(m, write, addr[m], 1, m_lock[m])
    BY <1>5 DEF Read, Write
  <2>2. ~Open(m) /\ addr[m] \in Nat
    BY <1>2, <1>5
    DEF Read, Write, BusInv, RequestInv, NonBlocking, Open, Finished, TypeOK,
        MastersTypeOK
  <2> QED
    BY <1>1, <1>2, <1>3, <2>1, <2>2
<1>6. CASE Rest(m) \/ Add(m) \/ BurstWritten(m) \/ Written(m)
  BY <1>1, <1>6 DEF Rest, Add, BurstWritten, Written, busVars
<1> QED
  BY <1>1, <1>4, <1>5, <1>6

LEMMA MasterKeepsGrant ==
    ASSUME GrantedInv, BusInv', LockInv', RunMaster, UNCHANGED <<holder, granted>>
    PROVE  AskedInv' /\ GrantInv'
<1>1. /\ UNCHANGED <<m_current_request, m_lock>>
      /\ \A n \in Master :
            \/ form'[n] = form[n]
            \/ /\ ~Open(n) /\ form'[n].status = "REQUEST"
               /\ form'[n].lock = LockFor(n, m_lock[n])
  BY MasterLocks, MasterRequests DEF GrantedInv
<1>2. m_lock \in [Master -> BOOLEAN]
  BY DEF GrantedInv, BusInv, TypeOK, MastersTypeOK
<1>3. AskedInv'
  BY <1>1, <1>2 DEF GrantedInv, AskedInv, LockFor
<1>4. ASSUME granted, holder # None, m_current_request = None
      PROVE  Holds(holder)'
  <2>1. holder \in Master /\ Holds(holder)
    BY <1>4 DEF GrantedInv, GrantInv
  <2>2. CASE form'[holder] = form[holder]
    BY <1>1, <2>1, <2>2 DEF Holds
  <2>3. CASE /\ ~Open(holder) /\ form'[holder].status = "REQUEST"
             /\ form'[holder].lock = LockFor(holder, m_lock[holder])
    <3>1. form[holder].lock = "SET"
      BY <2>1, <2>3 DEF Holds, Open, GrantedInv, LockInv
    <3>2. m_lock[holder]
      BY <2>1, <3>1 DEF GrantedInv, AskedInv
    <3> QED
      BY <1>1, <2>3, <3>1, <3>2 DEF LockFor, Holds
  <2> QED
    BY <1>1, <2>1, <2>2, <2>3
<1>5. GrantInv'
  BY <1>1, <1>4 DEF GrantedInv, GrantInv
<1> QED
  BY <1>3, <1>5

LEMMA RisingKeepsGrant ==
    ASSUME GrantedInv, RisingEdge, UNCHANGED <<holder, granted>>
    PROVE  AskedInv' /\ GrantInv'
BY DEF GrantedInv, AskedInv, GrantInv, Holds, RisingEdge, busVars

-----------------------------------------------------------------------------
(* The falling edge. *)

\* The locks after an edge that served m.
LEMMA ServedLocks ==
    ASSUME GrantedInv, NEW m \in Selected, NEW status \in Status,
           NEW f \in [Master -> Form], form' = ClearLocks(f),
           f[m].lock = LockOf(m), f[m].status = status, UNCHANGED m_lock,
           \A n \in Master : n # m => f[n] = form[n]
    PROVE  /\ AskedInv'
           /\ LockOf(m) = "GRANTED" /\ status # "REQUEST" => Holds(m)'
<1>1. m \in Master
  BY SelectedIsOpen DEF GrantedInv
<1>2. \A n \in Master :
         /\ form'[n].status = f[n].status
         /\ form'[n].lock = IF f[n].lock = "GRANTED" THEN "SET" ELSE "NO"
  BY ClearLocksForm
<1>3. f[m].lock # "NO" => form[m].lock # "NO"
  BY DEF LockOf
<1>4. AskedInv'
  BY <1>1, <1>2, <1>3 DEF GrantedInv, AskedInv
<1>5. LockOf(m) = "GRANTED" /\ status # "REQUEST" => Holds(m)'
  BY <1>1, <1>2 DEF Holds
<1> QED
  BY <1>4, <1>5

LEMMA FallingKeepsGrant ==
    ASSUME GrantedInv, FallingEdge, HolderNext
    PROVE  AskedInv' /\ GrantInv'
<1>1. /\ clock = "high" /\ clock' = "low" /\ UNCHANGED m_lock
      /\ form \in [Master -> Form] /\ None \notin Master
      /\ BusInv /\ SlaveFollowsBus /\ LockInv
  BY BeforeFalling DEF FallingEdge, GrantedInv
<1>2. \/ \E m \in Master : MovedLocked(m) /\ holder' = m /\ granted' = TRUE
      \/ /\ \A m \in Master : ~MovedLocked(m)
         /\ holder' = IF holder \in Pending THEN holder ELSE None
         /\ granted' = (granted /\ Busy)
  BY <1>1 DEF HolderNext
<1>3. holder' \in Master \cup {None}
  BY <1>1, <1>2 DEF Pending
<1>4. CASE NoRequest
  <2>1. form' = ClearLocks(form) /\ m_current_request' = m_current_request /\ Selected = {}
    BY <1>4 DEF NoRequest
  <2>2. m_current_request' = None
    BY <2>1 DEF Selected
  <2>3. ~granted'
    BY <1>2, <2>1, <2>2 DEF MovedLocked, Busy
  <2>4. AskedInv'
    BY <1>1, <2>1, ClearLocksForm DEF GrantedInv, AskedInv
  <2> QED
    BY <1>3, <2>3, <2>4 DEF GrantInv
<1>5. ASSUME NEW m \in Selected, Refuse(m)
      PROVE  AskedInv' /\ GrantInv'
  <2> DEFINE f == [form EXCEPT ![m].status = "ERROR", ![m].lock = LockOf(m)]
  <2>1. /\ m \in Master /\ form' = ClearLocks(f) /\ m_current_request' = None
        /\ form[m].address \notin SlaveAddr /\ LockOf(m) \in Lock
    BY <1>1, <1>5, SelectedIsOpen, LockOfType DEF Refuse
  <2>2. /\ f \in [Master -> Form] /\ f[m].lock = LockOf(m) /\ f[m].status = "ERROR"
        /\ \A n \in Master : n # m => f[n] = form[n]
    BY <1>1, <2>1 DEF Form, Status
  <2> HIDE DEF f
  <2>3. "ERROR" \in Status
    BY DEF Status
  <2>4. AskedInv'
    BY <1>1, <2>1, <2>2, <2>3, ServedLocks
  <2>5. \A n \in Master : ~MovedLocked(n)
    BY <1>1, <2>1, SelectedOnce DEF MovedLocked, Answers, SlaveAddr
  <2>6. ~granted'
    BY <1>2, <2>1, <2>5 DEF Busy
  <2> QED
    BY <1>3, <2>4, <2>6 DEF GrantInv
<1>6. ASSUME NEW m \in Selected, Delay(m)
      PROVE  AskedInv' /\ GrantInv'
  <2>1. /\ m \in Master /\ m_current_request' = m
        /\ form' = [form EXCEPT ![m].status = "WAIT", ![m].lock = LockOf(m)]
        /\ Delays(form[m].address) /\ LockOf(m) \in Lock
    BY <1>1, <1>6, SelectedIsOpen, LockOfType DEF Delay
  <2>2. /\ form'[m].lock = LockOf(m)
        /\ \A n \in Master : n # m => form'[n] = form[n]
    BY <1>1, <2>1 DEF Form, Status
  <2>3. AskedInv'
    BY <1>1, <2>2 DEF GrantedInv, AskedInv, LockOf
  <2>4. \A n \in Master : ~MovedLocked(n)
    BY <1>1, <2>1, SelectedOnce, SlavesAssumption
    DEF MovedLocked, Answers, Delays
  <2>5. ASSUME granted', holder' # None
        PROVE  holder' = m
    <3>1. granted /\ holder \in Pending /\ holder' = holder
      BY <1>2, <2>4, <2>5
    <3> QED
      BY <3>1, HolderSelected
  <2> QED
    BY <1>1, <1>3, <2>1, <2>3, <2>5 DEF GrantInv
<1>7. ASSUME NEW m \in Selected, Transfer(m)
      PROVE  AskedInv' /\ GrantInv'
  <2> DEFINE status == IF LastWord(m) THEN "OK" ELSE "WAIT"
             f == [form EXCEPT
                      ![m].address = @ + 4, ![m].data = @ + 1,
                      ![m].lock = LockOf(m), ![m].status = status]
  <2>1. /\ m \in Master /\ form' = ClearLocks(f) /\ m_current_request' = None
        /\ Answers(form[m].address) /\ LockOf(m) \in Lock /\ Open(m)
    BY <1>1, <1>7, SelectedIsOpen, LockOfType DEF Transfer
  <2>2. form[m].data + 1 \in 0..MaxLength
    BY <1>1, <2>1, BusAssumption DEF BusInv, TypeOK, BusTypeOK, Open, Form
  <2>3. status \in Status /\ status # "REQUEST" /\ form[m] \in Form
    BY <1>1, <2>1 DEF Status
  <2> HIDE DEF status
  <2>4. /\ f \in [Master -> Form] /\ f[m].lock = LockOf(m) /\ f[m].status = status
        /\ \A n \in Master : n # m => f[n] = form[n]
    <3> DEFINE g == [form[m] EXCEPT !.address = @ + 4, !.data = @ + 1,
                                    !.lock = LockOf(m), !.status = status]
    <3>1. f = [form EXCEPT ![m] = g]
      BY <1>1, <2>1
    <3>2. g \in Form /\ g.lock = LockOf(m) /\ g.status = status
      <4>1. form[m].address + 4 \in Nat
        BY <2>3 DEF Form
      <4> QED
        BY <2>1, <2>2, <2>3, <4>1 DEF Form
    <3> HIDE DEF g, f
    <3> QED
      BY <1>1, <2>1, <3>1, <3>2
  <2> HIDE DEF f
  <2>5. AskedInv' /\ (LockOf(m) = "GRANTED" => Holds(m)')
    BY <1>1, <2>1, <2>3, <2>4, ServedLocks
  <2>6. ASSUME granted', holder' # None
        PROVE  Holds(holder)'
    <3>1. PICK n \in Master : MovedLocked(n) /\ holder' = n
      BY <1>2, <2>1, <2>6 DEF Busy
    <3>2. n = m /\ LockOf(m) = "GRANTED"
      BY <1>1, <3>1, SelectedOnce DEF MovedLocked
    <3>3. Holds(m)'
      BY <2>5, <3>2
    <3> QED
      BY <3>1, <3>2, <3>3 DEF Holds
  <2> QED
    BY <1>3, <2>1, <2>5, <2>6 DEF GrantInv
<1>8. NoRequest \/ \E m \in Selected : Refuse(m) \/ Delay(m) \/ Transfer(m)
  BY DEF FallingEdge, MainAction
<1> QED
  BY <1>4, <1>5, <1>6, <1>7, <1>8

-----------------------------------------------------------------------------
(* The specification. *)

LEMMA GrantStart ==
    Init /\ HistoryInit => AskedInv /\ GrantInv
BY DEF Init, BusInit, HistoryInit, AskedInv, GrantInv

LEMMA GrantStep ==
    ASSUME GrantedInv, BusInv', LockInv',
           [Next /\ HolderNext /\ OvertakenNext]_lockingVars
    PROVE  AskedInv' /\ GrantInv'
<1>1. CASE RunMaster /\ HolderNext
  <2>1. UNCHANGED clock
    BY <1>1 DEF RunMaster
  <2>2. UNCHANGED <<holder, granted>>
    BY <1>1, <2>1 DEF HolderNext
  <2> QED
    BY <1>1, <2>2, MasterKeepsGrant
<1>2. CASE RisingEdge /\ HolderNext
  <2>1. UNCHANGED <<holder, granted>>
    BY <1>2 DEF RisingEdge, HolderNext
  <2> QED
    BY <1>2, <2>1, RisingKeepsGrant
<1>3. CASE FallingEdge /\ HolderNext
  BY <1>3, FallingKeepsGrant
<1>4. CASE UNCHANGED lockingVars
  BY <1>4 DEF lockingVars, vars, busVars, GrantedInv, AskedInv, GrantInv, Holds
<1> QED
  BY <1>1, <1>2, <1>3, <1>4 DEF Next

(***************************************************************************)
(* "lock is set at previous call": after a word moved with a granted lock  *)
(* the master is served again before any other, if it has more words to    *)
(* move or makes its next request at once, whatever the number of masters, *)
(* their priorities, the memory and the wait states.                       *)
(***************************************************************************)
THEOREM GrantServedHolds == LockingSpec => []GrantServed
<1>1. Init /\ HistoryInit
         => BusInv /\ SlaveFollowsBus /\ LockInv /\ AskedInv /\ GrantInv
  BY BusStart, GrantStart
<1>2. BusInv /\ SlaveFollowsBus /\ LockInv /\ AskedInv /\ GrantInv
      /\ [Next /\ HolderNext /\ OvertakenNext]_lockingVars
         => BusInv' /\ SlaveFollowsBus' /\ LockInv' /\ AskedInv' /\ GrantInv'
  <2> SUFFICES ASSUME GrantedInv, [Next /\ HolderNext /\ OvertakenNext]_lockingVars
               PROVE  BusInv' /\ SlaveFollowsBus' /\ LockInv' /\ AskedInv' /\ GrantInv'
    BY DEF GrantedInv
  <2>1. BusInv' /\ SlaveFollowsBus' /\ LockInv'
    BY BusStep DEF GrantedInv, lockingVars
  <2> QED
    BY <2>1, GrantStep
<1>3. BusInv /\ SlaveFollowsBus /\ LockInv /\ AskedInv /\ GrantInv => GrantServed
  BY HolderSelected DEF GrantServed, GrantedInv
<1> QED
  BY <1>1, <1>2, <1>3, PTL DEF LockingSpec

-----------------------------------------------------------------------------
(* What a priority is worth.  A master of lower priority gets a turn while *)
(* a request of higher priority is open only if it is the one a slave      *)
(* works on or has a lock that counts (MayGo).  Its lock lasts for two     *)
(* turns: a lock that is granted becomes one that is set with the first    *)
(* turn, and none with the second, unless the master makes another request *)
(* at once, which only a non-blocking master does, to write what it read.  *)
(* TurnsLeft counts these turns, and what a request has been passed over   *)
(* and will yet be stays within the limit.                                 *)

\* Where a master stands while its request is open, and that the request of
\* a non-blocking master is for one word.
PendingInv ==
    \A n \in Master : Open(n) =>
        /\ pc[n] \in {"read", "write"}
        /\ n \in NonBlocking => form[n].address = form[n].end_address

\* A master without a request whose lock counts was served at the last
\* falling edge: unless it has to write what it read, it rests now.
RestInv ==
    /\ clock = "low" => due = {}
    /\ m_current_request = None =>
          \A n \in Master : Holds(n) /\ ~Open(n) =>
              \/ pc[n] \in {"read", "write"}
              \/ clock = "high" /\ n \notin due

MayGo(n) ==
    IF m_current_request = None THEN Holds(n) ELSE m_current_request = n

WritesBack(n) == n \in NonBlocking /\ pc[n] = "write"

TurnsLeft(n) ==
    IF Open(n) THEN IF form[n].lock = "GRANTED" /\ ~WritesBack(n) THEN 2 ELSE 1
    ELSE IF n \in NonBlocking /\ pc[n] = "read" THEN 1 ELSE 0

TurnLimit(m) == IF \E n \in Master : n > m /\ m_lock[n] THEN 2 ELSE 1

TurnsInv ==
    \A m, n \in Master : Open(m) /\ n > m /\ MayGo(n) =>
        overtaken[m] + TurnsLeft(n) <= TurnLimit(m)

CountInv ==
    /\ overtaken \in [Master -> Nat]
    /\ \A m \in Master :
          overtaken[m] <= TurnLimit(m) /\ (~Open(m) => overtaken[m] = 0)

OvertakenInv == PendingInv /\ RestInv /\ TurnsInv /\ CountInv

LEMMA OvertakenStart == Init /\ HistoryInit => OvertakenInv
BY DEF Init, BusInit, HistoryInit, OvertakenInv, PendingInv, RestInv,
       TurnsInv, CountInv, TurnLimit, Open, Holds

\* A request that nobody has overtaken yet is within the limit.
LEMMA FreshTurns ==
    ASSUME SlaveFollowsBus, AskedInv, NEW m \in Master, NEW n \in Master,
           n > m, MayGo(n)
    PROVE  TurnsLeft(n) <= TurnLimit(m)
<1>1. CASE m_lock[n]
  BY <1>1 DEF TurnsLeft, TurnLimit
<1>2. CASE ~m_lock[n]
  <2>1. form[n].lock = "NO"
    BY <1>2 DEF AskedInv
  <2>2. m_current_request = n /\ n # None
    BY <2>1, BusAssumption DEF MayGo, Holds, None
  <2>3. Open(n)
    BY <2>2 DEF SlaveFollowsBus, Open
  <2> QED
    BY <2>1, <2>3 DEF TurnsLeft, TurnLimit
<1> QED
  BY <1>1, <1>2

\* What one step of a master does to its request and its place.
LEMMA MasterMoves ==
    ASSUME BusInv, RunMaster
    PROVE  /\ UNCHANGED <<clock, m_current_request, m_lock>>
           /\ \E m \in Master \cap due :
                 /\ due' = due \ {m}
                 /\ \A n \in Master : n # m => form'[n] = form[n] /\ pc'[n] = pc[n]
                 /\ \/ UNCHANGED <<form, pc>> /\ (pc[m] = "top" \/ Open(m))
                    \/ ~Open(m) /\ UNCHANGED form /\ pc'[m] \in {"top", "add"}
                    \/ /\ ~Open(m) /\ form'[m].status = "REQUEST"
                       /\ form'[m].lock = LockFor(m, m_lock[m])
                       /\ m \in NonBlocking =>
                             form'[m].address = form'[m].end_address
                       /\ \/ pc[m] \in {"top", "add"} /\ pc'[m] \in {"read", "write"}
                          \/ m \in NonBlocking /\ pc[m] = "read" /\ pc'[m] = "write"
<1>1. PICK m \in due \ waiting :
         /\ due' = due \ {m}
         /\ \/ Rest(m)
            \/ m \in Blocking /\ (BurstRead(m) \/ Add(m) \/ BurstWrite(m) \/ BurstWritten(m))
            \/ m \in NonBlocking /\ (Read(m) \/ Write(m) \/ Written(m))
         /\ UNCHANGED <<slaveVars, clock, m_lock>>
  BY DEF RunMaster
<1>2. /\ m \in Master /\ m \notin waiting /\ m_lock[m] \in BOOLEAN
      /\ StartAddress[m] \in Nat /\ BurstLength \in 1..MaxLength
      /\ 1 \in 1..MaxLength /\ form \in [Master -> Form]
      /\ pc \in [Master -> {"top", "read", "add", "write"}]
  BY <1>1, BusAssumption, MastersAssumption
  DEF BusInv, TypeOK, MastersTypeOK, BusTypeOK
<1>3. UNCHANGED <<clock, m_current_request, m_lock>>
  BY <1>1 DEF Rest, BurstRead, Add, BurstWrite, BurstWritten, Read, Write,
              Written, busVars
<1>4. ASSUME NEW at \in {"top", "read", "add", "write"}, Goto(m, at)
      PROVE  pc'[m] = at /\ \A n \in Master : n # m => pc'[n] = pc[n]
  BY <1>2, <1>4 DEF Goto
<1>5. m \in Blocking => ~Open(m)
  BY <1>2 DEF BusInv, RequestInv
<1>6. Finished(m) => ~Open(m)
  BY DEF Finished, Open
<1>7. CASE Rest(m)
  <2>1. UNCHANGED <<form, pc>> /\ (pc[m] = "top" \/ ~Finished(m))
    BY <1>7 DEF Rest, busVars, masterVars
  <2>2. ~Finished(m) => Open(m)
    BY <1>2 DEF Finished, Open, Form, Status
  <2> QED
    BY <1>1, <1>2, <1>3, <2>1, <2>2
<1>8. CASE m \in Blocking /\ Add(m)
  <2>1. UNCHANGED form /\ Goto(m, "add")
    BY <1>8 DEF Add
  <2> QED
    BY <1>1, <1>2, <1>3, <1>4, <1>5, <1>8, <2>1
<1>9. CASE m \in Blocking /\ BurstWritten(m)
  <2>1. UNCHANGED form /\ Goto(m, "top")
    BY <1>9 DEF BurstWritten, busVars
  <2> QED
    BY <1>1, <1>2, <1>3, <1>4, <1>5, <1>9, <2>1
<1>10. CASE m \in NonBlocking /\ Written(m)
  <2>1. UNCHANGED form /\ Goto(m, "top") /\ ~Open(m)
    BY <1>6, <1>10 DEF Written, busVars
  <2> QED
    BY <1>1, <1>2, <1>3, <1>4, <2>1
<1>11. CASE m \in Blocking /\ (BurstRead(m) \/ BurstWrite(m))
  <2>1. PICK write \in BOOLEAN :
           Request(m, write, StartAddress[m], BurstLength, m_lock[m])
    BY <1>11 DEF BurstRead, BurstWrite, Burst
  <2>2. /\ form'[m].status = "REQUEST" /\ form'[m].lock = LockFor(m, m_lock[m])
        /\ \A n \in Master : n # m => form'[n] = form[n]
    BY <1>2, <2>1, RequestForm
  <2>3. pc[m] \in {"top", "add"} /\ (Goto(m, "read") \/ Goto(m, "write"))
    BY <1>11 DEF BurstRead, BurstWrite
  <2> QED
    BY <1>1, <1>2, <1>3, <1>4, <1>5, <1>11, <2>2, <2>3 DEF NonBlocking
<1>12. CASE m \in NonBlocking /\ (Read(m) \/ Write(m))
  <2>1. PICK write \in BOOLEAN : Request(m, write, addr[m], 1, m_lock[m])
    BY <1>12 DEF Read, Write
  <2>2. ~Open(m) /\ addr[m] \in Nat
    BY <1>2, <1>6, <1>12
    DEF Read, Write, BusInv, RequestInv, NonBlocking, Open, TypeOK, MastersTypeOK
  <2>3. /\ form'[m].status = "REQUEST" /\ form'[m].lock = LockFor(m, m_lock[m])
        /\ form'[m].address = form'[m].end_address
        /\ \A n \in Master : n # m => form'[n] = form[n]
    BY <1>2, <2>1, <2>2, RequestForm
  <2>4. \/ pc[m] = "top" /\ Goto(m, "read")
        \/ pc[m] = "read" /\ Goto(m, "write")
    BY <1>12 DEF Read, Write
  <2> QED
    BY <1>1, <1>2, <1>3, <1>4, <1>12, <2>2, <2>3, <2>4
<1> QED
  BY <1>1, <1>7, <1>8, <1>9, <1>10, <1>11, <1>12

\* Nobody is passed over, and who may go and has as many turns left could go
\* before.
LEMMA KeepsTurns ==
    ASSUME GrantedInv, OvertakenInv, UNCHANGED m_lock,
           overtaken' = [x \in Master |-> IF ~Open(x)' THEN 0 ELSE overtaken[x]],
           \A x, n \in Master : Open(x)' /\ n > x /\ MayGo(n)' =>
               MayGo(n) /\ TurnsLeft(n)' <= TurnsLeft(n)
    PROVE  TurnsInv' /\ CountInv'
<1>1. \A x \in Master :
         /\ overtaken[x] \in Nat /\ TurnLimit(x) \in {1, 2}
         /\ TurnLimit(x)' = TurnLimit(x) /\ overtaken[x] <= TurnLimit(x)
         /\ ~Open(x) => overtaken[x] = 0
  BY DEF OvertakenInv, CountInv, TurnLimit
<1>2. CountInv'
  BY <1>1 DEF CountInv
<1>3. ASSUME NEW x \in Master, NEW n \in Master, Open(x)', n > x, MayGo(n)'
      PROVE  overtaken'[x] + TurnsLeft(n)' <= TurnLimit(x)'
  <2>1. MayGo(n) /\ TurnsLeft(n)' <= TurnsLeft(n) /\ overtaken'[x] = overtaken[x]
    BY <1>3
  <2>2. overtaken[x] + TurnsLeft(n) <= TurnLimit(x)
    <3>1. CASE Open(x)
      BY <1>3, <2>1, <3>1 DEF OvertakenInv, TurnsInv
    <3>2. CASE ~Open(x)
      <4>1. TurnsLeft(n) <= TurnLimit(x)
        BY <1>3, <2>1, FreshTurns DEF GrantedInv
      <4>2. TurnsLeft(n) \in {0, 1, 2} /\ overtaken[x] = 0
        BY <1>1, <3>2 DEF TurnsLeft
      <4> QED
        BY <1>1, <4>1, <4>2
    <3> QED
      BY <3>1, <3>2
  <2>3. TurnsLeft(n) \in {0, 1, 2} /\ TurnsLeft(n)' \in {0, 1, 2}
    BY DEF TurnsLeft
  <2> QED
    BY <1>1, <2>1, <2>2, <2>3
<1>4. TurnsInv'
  BY <1>3 DEF TurnsInv
<1> QED
  BY <1>2, <1>4

\* A master that may go next and makes a request writes what it has read.
LEMMA MasterKeepsTurns ==
    ASSUME GrantedInv, OvertakenInv, RunMaster, NEW n \in Master, MayGo(n)'
    PROVE  MayGo(n) /\ TurnsLeft(n)' <= TurnsLeft(n)
<1>1. UNCHANGED <<clock, m_current_request, m_lock>>
  BY MasterMoves DEF GrantedInv
<1>2. PICK m \in Master \cap due :
         /\ \A k \in Master : k # m => form'[k] = form[k] /\ pc'[k] = pc[k]
         /\ \/ UNCHANGED <<form, pc>> /\ (pc[m] = "top" \/ Open(m))
            \/ ~Open(m) /\ UNCHANGED form /\ pc'[m] \in {"top", "add"}
            \/ /\ ~Open(m) /\ form'[m].status = "REQUEST"
               /\ form'[m].lock = LockFor(m, m_lock[m])
               /\ \/ pc[m] \in {"top", "add"} /\ pc'[m] \in {"read", "write"}
                  \/ m \in NonBlocking /\ pc[m] = "read" /\ pc'[m] = "write"
  BY MasterMoves DEF GrantedInv
<1>3. clock = "high" /\ None \notin Master
  <2>1. None \notin Master
    BY BusAssumption DEF None
  <2> QED
    BY <1>2, <2>1
    DEF OvertakenInv, RestInv, GrantedInv, BusInv, TypeOK, MastersTypeOK
<1>4. TurnsLeft(n) \in {0, 1, 2}
  BY DEF TurnsLeft
<1>5. CASE form'[n] = form[n] /\ pc'[n] = pc[n]
  <2>1. MayGo(n)
    BY <1>1, <1>5 DEF MayGo, Holds
  <2>2. TurnsLeft(n)' = TurnsLeft(n)
    BY <1>5 DEF TurnsLeft, Open, WritesBack
  <2> QED
    BY <1>4, <2>1, <2>2
<1>6. CASE n = m /\ ~Open(m) /\ UNCHANGED form /\ pc'[m] \in {"top", "add"}
  <2>1. MayGo(n)
    BY <1>1, <1>6 DEF MayGo, Holds
  <2>2. TurnsLeft(n)' = 0
    BY <1>6 DEF TurnsLeft, Open
  <2> QED
    BY <1>4, <2>1, <2>2
<1>7. CASE /\ n = m /\ ~Open(m) /\ form'[m].status = "REQUEST"
           /\ form'[m].lock = LockFor(m, m_lock[m])
           /\ \/ pc[m] \in {"top", "add"} /\ pc'[m] \in {"read", "write"}
              \/ m \in NonBlocking /\ pc[m] = "read" /\ pc'[m] = "write"
  <2>1. m_current_request = None
    BY <1>1, <1>3, <1>7 DEF MayGo, GrantedInv, SlaveFollowsBus, Open
  <2>2. form'[m].lock = "GRANTED"
    BY <1>1, <1>7, <2>1 DEF MayGo, Holds
  <2>3. form[m].lock # "GRANTED"
    BY <1>2, <1>7 DEF GrantedInv, LockInv, Open
  <2>4. form[m].lock = "SET" /\ form[m].status # "REQUEST"
    BY <1>7, <2>2, <2>3 DEF LockFor, Open
  <2>5. Holds(m)
    BY <2>4 DEF Holds
  <2>6. pc[m] \in {"read", "write"}
    BY <1>2, <1>3, <1>7, <2>1, <2>5 DEF OvertakenInv, RestInv
  <2>7. m \in NonBlocking /\ pc[m] = "read" /\ pc'[m] = "write"
    BY <1>7, <2>6
  <2>8. TurnsLeft(n) = 1 /\ TurnsLeft(n)' = 1
    BY <1>7, <2>7 DEF TurnsLeft, WritesBack, Open
  <2> QED
    BY <1>7, <2>1, <2>5, <2>8 DEF MayGo
<1> QED
  BY <1>2, <1>5, <1>6, <1>7

LEMMA MasterKeepsOvertaken ==
    ASSUME GrantedInv, OvertakenInv, RunMaster, OvertakenNext
    PROVE  OvertakenInv'
<1>1. UNCHANGED <<clock, m_current_request, m_lock>>
  BY MasterMoves DEF GrantedInv
<1>2. PICK m \in Master \cap due :
         /\ due' = due \ {m}
         /\ \A n \in Master : n # m => form'[n] = form[n] /\ pc'[n] = pc[n]
         /\ \/ UNCHANGED <<form, pc>>
            \/ ~Open(m) /\ UNCHANGED form
            \/ /\ pc'[m] \in {"read", "write"}
               /\ m \in NonBlocking => form'[m].address = form'[m].end_address
  BY MasterMoves DEF GrantedInv
<1>3. clock = "high"
  BY <1>2 DEF OvertakenInv, RestInv, GrantedInv, BusInv, TypeOK, MastersTypeOK
<1>4. PendingInv'
  BY <1>2 DEF OvertakenInv, PendingInv, Open
<1>5. RestInv'
  BY <1>1, <1>2, <1>3 DEF OvertakenInv, RestInv, Holds, Open
<1>6. overtaken' = [x \in Master |-> IF ~Open(x)' THEN 0 ELSE overtaken[x]]
  <2>1. \A x \in Master : ~Overtakes(x) /\ (x \in Pending' <=> Open(x)')
    BY <1>1, <1>3 DEF Overtakes, Pending, Open
  <2>2. \A x \in Master : overtaken[x] \in Nat
    BY DEF OvertakenInv, CountInv
  <2> QED
    BY <2>1, <2>2 DEF OvertakenNext
<1>7. TurnsInv' /\ CountInv'
  BY <1>1, <1>6, KeepsTurns, MasterKeepsTurns
<1> QED
  BY <1>4, <1>5, <1>7 DEF OvertakenInv

LEMMA RisingKeepsOvertaken ==
    ASSUME GrantedInv, OvertakenInv, RisingEdge, OvertakenNext
    PROVE  OvertakenInv'
<1>1. /\ clock = "low" /\ clock' = "high"
      /\ UNCHANGED <<form, m_current_request, m_lock, pc>>
  BY DEF RisingEdge, busVars, masterVars
<1>2. due = {}
  BY <1>1 DEF OvertakenInv, RestInv
<1>3. PendingInv'
  BY <1>1 DEF OvertakenInv, PendingInv, Open
<1>4. RestInv'
  BY <1>1 DEF OvertakenInv, RestInv, Holds, Open
<1>5. overtaken' = [x \in Master |-> IF ~Open(x)' THEN 0 ELSE overtaken[x]]
  <2>1. \A x \in Master : ~Overtakes(x) /\ (x \in Pending' <=> Open(x)')
    BY <1>1 DEF Overtakes, Pending, Open
  <2>2. \A x \in Master : overtaken[x] \in Nat
    BY DEF OvertakenInv, CountInv
  <2> QED
    BY <2>1, <2>2 DEF OvertakenNext
<1>6. \A n \in Master : MayGo(n)' => MayGo(n) /\ TurnsLeft(n)' <= TurnsLeft(n)
  BY <1>1 DEF MayGo, Holds, TurnsLeft, Open, WritesBack
<1>7. TurnsInv' /\ CountInv'
  BY <1>1, <1>5, <1>6, KeepsTurns
<1> QED
  BY <1>3, <1>4, <1>7 DEF OvertakenInv

\* Only a master that may go is selected before one of higher priority.
LEMMA PassedOver ==
    ASSUME GrantedInv, NEW s \in Selected, NEW x \in Master, Open(x), s > x
    PROVE  MayGo(s) /\ LockOf(s) = form[s].lock
<1>1. CASE m_current_request # None
  BY <1>1 DEF Selected, MayGo, LockOf
<1>2. CASE m_current_request = None /\ (LockedBurst # {} \/ LockedCall # {})
  BY <1>2
  DEF Selected, arbitrate, LockedBurst, LockedCall, Pending, MayGo, Holds, LockOf
<1>3. CASE m_current_request = None /\ LockedBurst = {} /\ LockedCall = {}
  <2>1. x \in Pending /\ s \in Best
    BY <1>3 DEF Selected, arbitrate, Pending, Open
  <2>2. s <= x /\ s \in Nat /\ x \in Nat
    BY <2>1, BusAssumption DEF Best, Pending
  <2> QED
    BY <2>2
<1> QED
  BY <1>1, <1>2, <1>3

\* After a turn of s only s can have a lock that counts, and has used one
\* turn of it.
LEMMA ServedTurns ==
    ASSUME GrantedInv, OvertakenInv, NEW s \in Selected,
           NEW f \in [Master -> Form], form' = ClearLocks(f),
           f[s].lock = LockOf(s), f[s].status \in {"OK", "WAIT", "ERROR"},
           s \in NonBlocking => f[s].status # "WAIT",
           \A n \in Master : n # s => f[n] = form[n],
           m_current_request' = None, ~Delays(form[s].address),
           clock = "high", clock' = "low", due' = {}, UNCHANGED <<m_lock, pc>>,
           OvertakenNext
    PROVE  OvertakenInv'
<1>1. /\ s \in Master /\ Open(s) /\ None \notin Master
      /\ m_current_request # None => s = m_current_request
      /\ BusInv /\ SlaveFollowsBus /\ LockInv
  BY SelectedIsOpen, BusAssumption DEF GrantedInv, None
<1>2. /\ \A n \in Master :
            /\ form'[n].status = f[n].status
            /\ form'[n].address = f[n].address
            /\ form'[n].end_address = f[n].end_address
            /\ form'[n].lock = IF f[n].lock = "GRANTED" THEN "SET" ELSE "NO"
      /\ \A n \in Master : f[n] \in Form
  BY ClearLocksForm
<1>3. ASSUME NEW n \in Master, MayGo(n)'
      PROVE  n = s /\ LockOf(s) = "GRANTED" /\ form'[s].lock = "SET"
  <2>1. f[n].lock = "GRANTED" /\ form'[n].lock = "SET" /\ f[n].status # "REQUEST"
    BY <1>2, <1>3 DEF MayGo, Holds
  <2>2. n = s
    BY <1>1, <2>1 DEF LockInv
  <2> QED
    BY <2>1, <2>2
<1>4. \A n \in Master : Open(n)' => Open(n)
  BY <1>1, <1>2 DEF Open
<1>5. PendingInv'
  <2> SUFFICES ASSUME NEW n \in Master, Open(n)'
               PROVE  /\ pc'[n] \in {"read", "write"}
                      /\ n \in NonBlocking => form'[n].address = form'[n].end_address
    BY DEF PendingInv
  <2>1. n = s => n \notin NonBlocking
    BY <1>2 DEF Open
  <2> QED
    BY <1>2, <1>4, <2>1 DEF OvertakenInv, PendingInv
<1>6. RestInv'
  BY <1>1, <1>3 DEF RestInv, MayGo, OvertakenInv, PendingInv
<1>7. \A x \in Master : Overtakes(x) <=> s > x
  <2>1. \A n \in Master : Turn(n) <=> n = s
    BY <1>1, SelectedOnce DEF Turn
  <2> QED
    BY <1>1, <2>1 DEF Overtakes
<1>8. \A x \in Master :
         /\ overtaken[x] \in Nat /\ TurnLimit(x) \in {1, 2}
         /\ TurnLimit(x)' = TurnLimit(x) /\ overtaken[x] <= TurnLimit(x)
         /\ overtaken'[x] = IF ~Open(x)' THEN 0
                            ELSE IF s > x THEN overtaken[x] + 1 ELSE overtaken[x]
  BY <1>7 DEF OvertakenInv, CountInv, TurnLimit, OvertakenNext, Pending, Open
<1>9. ASSUME NEW x \in Master, Open(x)', s > x
      PROVE  /\ LockOf(s) = form[s].lock
             /\ overtaken[x] + TurnsLeft(s) <= TurnLimit(x)
  <2>1. Open(x)
    BY <1>4, <1>9
  <2>2. MayGo(s) /\ LockOf(s) = form[s].lock
    BY <1>9, <2>1, PassedOver
  <2> QED
    BY <1>1, <1>9, <2>1, <2>2 DEF OvertakenInv, TurnsInv
<1>10. TurnsLeft(s) \in {1, 2}
  BY <1>1 DEF TurnsLeft
<1>11. CountInv'
  <2>1. overtaken' \in [Master -> Nat]
    <3>1. \A x \in Master : overtaken'[x] \in Nat
      BY <1>8
    <3> QED
      BY <3>1 DEF OvertakenNext
  <2>2. ASSUME NEW x \in Master
        PROVE  overtaken'[x] <= TurnLimit(x)' /\ (~Open(x)' => overtaken'[x] = 0)
    <3>1. CASE ~Open(x)'
      BY <1>8, <3>1
    <3>2. CASE Open(x)' /\ s > x
      BY <1>8, <1>9, <1>10, <3>2
    <3>3. CASE Open(x)' /\ ~(s > x)
      BY <1>8, <3>3
    <3> QED
      BY <3>1, <3>2, <3>3
  <2> QED
    BY <2>1, <2>2 DEF CountInv
<1>12. TurnsInv'
  <2> SUFFICES ASSUME NEW x \in Master, NEW n \in Master,
                      Open(x)', n > x, MayGo(n)'
               PROVE  overtaken'[x] + TurnsLeft(n)' <= TurnLimit(x)'
    BY DEF TurnsInv
  <2>1. n = s /\ s > x /\ form[s].lock = "GRANTED" /\ form'[s].lock = "SET"
    BY <1>3, <1>9
  <2>2. TurnsLeft(s)' + 1 <= TurnsLeft(s)
    <3>1. CASE Open(s)'
      <4>1. s \notin NonBlocking
        BY <1>1, <1>2, <3>1 DEF Open
      <4>2. TurnsLeft(s) = 2
        BY <1>1, <2>1, <4>1 DEF TurnsLeft, WritesBack
      <4>3. TurnsLeft(s)' = 1
        BY <2>1, <3>1 DEF TurnsLeft
      <4> QED
        BY <4>2, <4>3
    <3>2. CASE ~Open(s)'
      <4>1. TurnsLeft(s) = IF WritesBack(s) THEN 1 ELSE 2
        BY <1>1, <2>1 DEF TurnsLeft
      <4>2. TurnsLeft(s)' = IF s \in NonBlocking /\ pc[s] = "read" THEN 1 ELSE 0
        BY <3>2 DEF TurnsLeft
      <4> QED
        BY <4>1, <4>2 DEF WritesBack
    <3> QED
      BY <3>1, <3>2
  <2>3. TurnsLeft(s)' \in {0, 1, 2}
    BY DEF TurnsLeft
  <2> QED
    BY <1>8, <1>9, <1>10, <2>1, <2>2, <2>3
<1> QED
  BY <1>5, <1>6, <1>11, <1>12 DEF OvertakenInv

LEMMA FallingKeepsOvertaken ==
    ASSUME GrantedInv, OvertakenInv, FallingEdge, OvertakenNext
    PROVE  OvertakenInv'
<1>1. /\ clock = "high" /\ clock' = "low" /\ due' = {}
      /\ UNCHANGED <<m_lock, pc>>
      /\ form \in [Master -> Form] /\ None \notin Master
      /\ BusInv /\ SlaveFollowsBus /\ LockInv
  BY BeforeFalling DEF FallingEdge, GrantedInv, masterVars
<1>2. ASSUME \A n \in Master : ~Turn(n)
      PROVE  overtaken' = [x \in Master |-> IF ~Open(x)' THEN 0 ELSE overtaken[x]]
  <2>1. \A x \in Master : ~Overtakes(x) /\ (x \in Pending' <=> Open(x)')
    BY <1>2 DEF Overtakes, Pending, Open
  <2>2. \A x \in Master : overtaken[x] \in Nat
    BY DEF OvertakenInv, CountInv
  <2> QED
    BY <2>1, <2>2 DEF OvertakenNext
<1>3. CASE NoRequest
  <2>1. /\ Selected = {} /\ m_current_request = None /\ LockedCall = {}
        /\ m_current_request' = None /\ form' = ClearLocks(form)
    BY <1>3 DEF NoRequest, Selected, arbitrate
  <2>2. \A n \in Master :
           /\ form'[n].status = form[n].status
           /\ form'[n].address = form[n].address
           /\ form'[n].end_address = form[n].end_address
           /\ form'[n].lock = IF form[n].lock = "GRANTED" THEN "SET" ELSE "NO"
    BY <1>1, <2>1, ClearLocksForm
  <2>3. \A n \in Master : form[n].lock # "GRANTED"
    BY <1>1, <2>1 DEF LockInv, LockedCall, Pending
  <2>4. \A n \in Master : ~MayGo(n)' /\ ~Holds(n)'
    BY <2>1, <2>2, <2>3 DEF MayGo, Holds
  <2>5. PendingInv' /\ RestInv'
    BY <1>1, <2>2, <2>4 DEF OvertakenInv, PendingInv, RestInv, Open
  <2>6. TurnsInv' /\ CountInv'
    BY <1>1, <1>2, <2>1, <2>4, KeepsTurns DEF Turn
  <2> QED
    BY <2>5, <2>6 DEF OvertakenInv
<1>4. ASSUME NEW s \in Selected, Delay(s)
      PROVE  OvertakenInv'
  <2>1. /\ s \in Master /\ Open(s) /\ m_current_request' = s
        /\ form' = [form EXCEPT ![s].status = "WAIT", ![s].lock = LockOf(s)]
        /\ Delays(form[s].address) /\ LockOf(s) \in Lock
    BY <1>1, <1>4, SelectedIsOpen, LockOfType DEF Delay
  <2>2. /\ form'[s].lock = LockOf(s) /\ form'[s].status = "WAIT"
        /\ form'[s].address = form[s].address
        /\ form'[s].end_address = form[s].end_address
        /\ \A n \in Master : n # s => form'[n] = form[n]
    BY <1>1, <2>1 DEF Form, Status
  <2>3. \A n \in Master : ~Turn(n)
    BY <1>1, <2>1, SelectedOnce DEF Turn
  <2>4. \A n \in Master : Open(n)' => Open(n)
    BY <2>1, <2>2 DEF Open
  <2>5. PendingInv' /\ RestInv'
    BY <1>1, <2>1, <2>2, <2>4 DEF OvertakenInv, PendingInv, RestInv
  <2>6. ASSUME NEW x \in Master, NEW n \in Master, Open(x)', n > x, MayGo(n)'
        PROVE  MayGo(n) /\ TurnsLeft(n)' <= TurnsLeft(n)
    <3>1. n = s
      BY <1>1, <2>1, <2>6 DEF MayGo
    <3>2. MayGo(s) /\ LockOf(s) = form[s].lock
      BY <2>4, <2>6, <3>1, PassedOver
    <3>3. TurnsLeft(s)' = TurnsLeft(s)
      BY <1>1, <2>1, <2>2, <3>2 DEF TurnsLeft, Open, WritesBack
    <3>4. TurnsLeft(s) \in {0, 1, 2}
      BY DEF TurnsLeft
    <3> QED
      BY <3>1, <3>2, <3>3, <3>4
  <2>7. TurnsInv' /\ CountInv'
    BY <1>1, <1>2, <2>3, <2>6, KeepsTurns
  <2> QED
    BY <2>5, <2>7 DEF OvertakenInv
<1>5. ASSUME NEW s \in Selected, Refuse(s)
      PROVE  OvertakenInv'
  <2> DEFINE f == [form EXCEPT ![s].status = "ERROR", ![s].lock = LockOf(s)]
  <2>1. /\ s \in Master /\ form' = ClearLocks(f) /\ m_current_request' = None
        /\ ~Delays(form[s].address) /\ LockOf(s) \in Lock
    BY <1>1, <1>5, SelectedIsOpen, LockOfType DEF Refuse, Delays, SlaveAddr
  <2>2. /\ f \in [Master -> Form] /\ f[s].lock = LockOf(s) /\ f[s].status = "ERROR"
        /\ \A n \in Master : n # s => f[n] = form[n]
    BY <1>1, <2>1 DEF Form, Status
  <2> HIDE DEF f
  <2> QED
    BY <1>1, <2>1, <2>2, ServedTurns
<1>6. ASSUME NEW s \in Selected, Transfer(s)
      PROVE  OvertakenInv'
  <2> DEFINE status == IF LastWord(s) THEN "OK" ELSE "WAIT"
             g == [form[s] EXCEPT !.address = @ + 4, !.data = @ + 1,
                                  !.lock = LockOf(s), !.status = status]
             f == [form EXCEPT
                      ![s].address = @ + 4, ![s].data = @ + 1,
                      ![s].lock = LockOf(s), ![s].status = status]
  <2>1. /\ s \in Master /\ form' = ClearLocks(f) /\ m_current_request' = None
        /\ Answers(form[s].address) /\ LockOf(s) \in Lock /\ Open(s)
    BY <1>1, <1>6, SelectedIsOpen, LockOfType DEF Transfer
  <2>2. ~Delays(form[s].address)
    BY <2>1, SlavesAssumption DEF Answers, Delays
  <2>3. s \in NonBlocking => status # "WAIT"
    <3>1. form[s].address \in Nat
      BY <1>1, <2>1 DEF Form
    <3>2. s \in NonBlocking => LastWord(s)
      BY <2>1, <3>1 DEF OvertakenInv, PendingInv, LastWord
    <3> QED
      BY <3>2
  <2>4. form[s].data + 1 \in 0..MaxLength
    BY <1>1, <2>1, BusAssumption DEF BusInv, TypeOK, BusTypeOK, Open, Form
  <2>5. status \in Status /\ status \in {"OK", "WAIT", "ERROR"} /\ form[s] \in Form
    BY <1>1, <2>1 DEF Status
  <2> HIDE DEF status
  <2>6. f = [form EXCEPT ![s] = g]
    BY <1>1, <2>1
  <2>7. g \in Form /\ g.lock = LockOf(s) /\ g.status = status
    <3>1. form[s].address + 4 \in Nat
      BY <2>5 DEF Form
    <3> QED
      BY <2>1, <2>4, <2>5, <3>1 DEF Form
  <2> HIDE DEF g, f
  <2>8. /\ f \in [Master -> Form] /\ f[s].lock = LockOf(s) /\ f[s].status = status
        /\ \A n \in Master : n # s => f[n] = form[n]
    BY <1>1, <2>1, <2>6, <2>7
  <2> QED
    BY <1>1, <2>1, <2>2, <2>3, <2>5, <2>8, ServedTurns
<1>7. NoRequest \/ \E s \in Selected : Refuse(s) \/ Delay(s) \/ Transfer(s)
  BY DEF FallingEdge, MainAction
<1> QED
  BY <1>3, <1>4, <1>5, <1>6, <1>7

LEMMA OvertakenStep ==
    ASSUME GrantedInv, OvertakenInv,
           [Next /\ HolderNext /\ OvertakenNext]_lockingVars
    PROVE  OvertakenInv'
<1>1. CASE UNCHANGED lockingVars
  BY <1>1
  DEF lockingVars, vars, busVars, masterVars, OvertakenInv, PendingInv, RestInv,
      TurnsInv, CountInv, MayGo, TurnsLeft, TurnLimit, WritesBack, Holds, Open
<1>2. CASE Next /\ OvertakenNext
  BY <1>2, MasterKeepsOvertaken, RisingKeepsOvertaken, FallingKeepsOvertaken DEF Next
<1> QED
  BY <1>1, <1>2

(***************************************************************************)
(* An open request, of however many words, is passed over for masters of   *)
(* lower priority once at most, or twice if one of them locks the bus: for *)
(* any number of masters, of either kind, any memory, and any number of    *)
(* wait states.                                                            *)
(***************************************************************************)
THEOREM OvertakenLimitHolds == LockingSpec => []OvertakenLimit
<1> DEFINE Inv == GrantedInv /\ OvertakenInv
<1>1. Init /\ HistoryInit => Inv
  BY BusStart, GrantStart, OvertakenStart DEF GrantedInv
<1>2. Inv /\ [Next /\ HolderNext /\ OvertakenNext]_lockingVars => Inv'
  <2> SUFFICES ASSUME Inv, [Next /\ HolderNext /\ OvertakenNext]_lockingVars
               PROVE  Inv'
    OBVIOUS
  <2>1. BusInv' /\ SlaveFollowsBus' /\ LockInv'
    BY BusStep DEF GrantedInv, lockingVars
  <2>2. GrantedInv'
    BY <2>1, GrantStep DEF GrantedInv
  <2> QED
    BY <2>2, OvertakenStep
<1>3. Inv => OvertakenLimit
  BY DEF OvertakenInv, CountInv, TurnLimit, OvertakenLimit
<1> HIDE DEF Inv
<1> QED
  BY <1>1, <1>2, <1>3, PTL DEF LockingSpec
=============================================================================
