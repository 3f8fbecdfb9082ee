---------------------------- MODULE SystemCKernel ----------------------------
(***************************************************************************)
(* The part of the SystemC kernel that the design relies on.  A thread     *)
(* runs without preemption up to its next wait(T, SC_NS); delay[t] is the  *)
(* time left before thread t runs again.  All threads whose time has come  *)
(* run at the same instant, in an order the standard leaves open (IEEE     *)
(* 1666: implementation defined), so here in any order.  Time moves to the *)
(* next instant at which some thread is due, once no thread is ready.      *)
(***************************************************************************)
EXTENDS Wiring

VARIABLE delay

KernelTypeOK == delay \in [Thread -> Nat]

\* Every SC_THREAD is started when the simulation starts.
KernelInit == delay = [t \in Thread |-> 0]

Ready(t) == delay[t] = 0

\* The last thing each segment of a thread does: wait(T, SC_NS).
Wait(t, T) == delay' = [delay EXCEPT ![t] = T]

Advance ==
    \E t \in Thread :
        /\ delay[t] > 0
        /\ \A u \in Thread : delay[t] <= delay[u]
        /\ delay' = [u \in Thread |-> delay[u] - delay[t]]
=============================================================================
