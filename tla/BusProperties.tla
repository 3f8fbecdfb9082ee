--------------------------- MODULE BusProperties ---------------------------
(***************************************************************************)
(* What is expected of the bus.                                            *)
(***************************************************************************)
EXTENDS BusMasters, FiniteSets

(***************************************************************************)
(* Type invariant: in particular a transfer never runs past the words of   *)
(* its caller, and a non-blocking master's address stays in its span.      *)
(***************************************************************************)
TypeOK == SlavesTypeOK /\ BusTypeOK /\ MastersTypeOK

(***************************************************************************)
(* The bus with its arbiter, locks, wait states and masters implements the *)
(* service.  That every request is finished eventually, the liveness of    *)
(* the service, holds for two masters, whose rests leave cycles for each   *)
(* other.  It is no claim about three: two of them can starve the third,   *)
(* and ServedDespiteOne says what is left.                                 *)
(***************************************************************************)
Service == INSTANCE BusService WITH
    Caller    <- Master,
    Addr      <- SlaveAddr,
    NoRequest <- <<>>,
    request   <- [m \in Master |->
                    IF Finished(m) THEN <<>>
                    ELSE [do_write |-> form[m].do_write,
                          address |-> form[m].address,
                          end_address |-> form[m].end_address,
                          moved |-> form[m].data]]

ServiceSpec == Service!Spec

(***************************************************************************)
(* "These are atomic requests and cannot be interrupted": the slow memory  *)
(* counts wait states for the current request of the bus and for no other, *)
(* and it is idle again before the bus turns to the next request.          *)
(***************************************************************************)
SlaveFollowsBus ==
    /\ m_current_request # None <=>
          m_wait_count > 0 \/ (m_wait_count = 0 /\ clock = "high")
    /\ m_current_request # None =>
          /\ form[m_current_request].address \in SlowAddr
          /\ form[m_current_request].status = "WAIT"

(***************************************************************************)
(* When the arbiter is called, at most one request meets its first two     *)
(* rules, so that it does not matter in which order its loops visit the    *)
(* requests.  While a slave is busy there may be two: the locks are not    *)
(* cleared then.                                                           *)
(***************************************************************************)
OneLock ==
    m_current_request = None => Cardinality(LockedBurst \cup LockedCall) <= 1

(***************************************************************************)
(* The event transfer_done is not remembered, so it has to come when the   *)
(* whole burst is done and while its caller waits: a call returns with all *)
(* of its words and the status OK, never with ERROR, and one whose caller  *)
(* waits in vain has failed.                                               *)
(***************************************************************************)
BurstOutcome ==
    \A m \in Blocking :
        /\ pc[m] # "top" /\ m \notin waiting =>
              form[m].status = "OK" /\ form[m].data = BurstLength
        /\ m \in waiting /\ Finished(m) => form[m].status = "ERROR"

(***************************************************************************)
(* The call of a blocking master returns, beside one other master.        *)
(***************************************************************************)
BurstReturns == \A m \in Blocking : m \in waiting ~> m \notin waiting

(***************************************************************************)
(* The fixed priorities starve a master if two masters before it go on     *)
(* making requests, but one alone cannot, even with locks: it rests after  *)
(* each of its transfers.  So if from some time on the requests before     *)
(* those of m are all of one master, p, what m requests is finished.       *)
(* (With p = m it has no master before it.)                                *)
(***************************************************************************)
OnlyPrecededBy(m, p) == \A n \in Pending : n < m => n = p

ServedDespiteOne ==
    \A m \in Master : \A p \in {n \in Master : n <= m} :
        <>[]OnlyPrecededBy(m, p) => (m \in Pending ~> m \notin Pending)
=============================================================================
