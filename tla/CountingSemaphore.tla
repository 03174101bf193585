-------------------------- MODULE CountingSemaphore --------------------------
(***************************************************************************)
(* What a semaphore promises its users: permits are added, and taken one   *)
(* by one by threads that find one.  IdleWorkers uses its semaphore in     *)
(* this form, with atomic release and acquire.                             *)
(***************************************************************************)
EXTENDS Integers

CONSTANT Threads

VARIABLES
    count,      \* permits
    acquiring   \* the threads inside lf_semaphore_acquire

Init == count = 0 /\ acquiring = {}

Release == count' - count \in Nat /\ UNCHANGED acquiring

BeginAcquire(t) ==
    /\ t \notin acquiring
    /\ acquiring' = acquiring \cup {t}
    /\ UNCHANGED count

EndAcquire(t) ==
    /\ t \in acquiring
    /\ count > 0
    /\ count' = count - 1
    /\ acquiring' = acquiring \ {t}

Next ==
    \/ Release
    \/ \E t \in Threads : BeginAcquire(t) \/ EndAcquire(t)

Spec == Init /\ [][Next]_<<count, acquiring>>
=============================================================================
