----------------------------- MODULE IdleWorkers -----------------------------
(***************************************************************************)
(* The hand-shake by which the worker threads of a scheduler go idle and   *)
(* are woken again.  Every scheduler of the runtime repeats it: a worker   *)
(* with nothing to do atomically increments the number of idle workers; if *)
(* it is the last one it hands out work (or clears the counters, or        *)
(* advances the tag) on behalf of all, subtracts the number of workers it  *)
(* wakes and releases one semaphore permit for each of them but itself;    *)
(* otherwise it blocks on the semaphore.                                   *)
(*                                                                         *)
(* Four steps of the code are separate here because other threads can run  *)
(* between them: the atomic increment, the work of the last worker, the    *)
(* subtraction, and the release of the semaphore.                          *)
(***************************************************************************)
EXTENDS WorkerPool

VARIABLES
    idle,        \* _lf_sched_number_of_idle_workers
    permits,     \* the count of _lf_sched_semaphore
    phase,       \* where each worker is in _lf_sched_wait_for_work
    awaken,      \* the local workers_to_awaken of each worker
    shouldStop   \* _lf_sched_should_stop

idleVars == <<idle, permits, phase, awaken, shouldStop>>

\* "working": outside wait_for_work;  "last": saw that every worker is idle;
\* "release": has lowered idle, has not released the semaphore yet;
\* "blocked": in lf_semaphore_acquire.
Phases == {"working", "last", "release", "blocked"}

Blocked == {w \in Workers : phase[w] = "blocked"}

-----------------------------------------------------------------------------

IdleInit ==
    /\ idle = 0
    /\ permits = 0
    /\ phase = [w \in Workers |-> "working"]
    /\ awaken = [w \in Workers |-> 0]
    /\ shouldStop = FALSE

\* The atomic add_fetch returned fewer than all workers: block.
GoIdle(w) ==
    /\ phase[w] = "working"
    /\ ~shouldStop
    /\ idle + 1 # NumberOfWorkers
    /\ idle' = idle + 1
    /\ phase' = [phase EXCEPT ![w] = "blocked"]
    /\ UNCHANGED <<permits, awaken, shouldStop>>

\* The atomic add_fetch returned the number of workers: w is the last one.
GoIdleLast(w) ==
    /\ phase[w] = "working"
    /\ ~shouldStop
    /\ idle + 1 = NumberOfWorkers
    /\ idle' = idle + 1
    /\ phase' = [phase EXCEPT ![w] = "last"]
    /\ UNCHANGED <<permits, awaken, shouldStop>>

\* notify_workers, first half: idle is lowered by the k workers to wake, w
\* itself among them.
LowerIdle(w, k) ==
    /\ phase[w] = "last"
    /\ k \in 1 .. idle
    /\ awaken' = [awaken EXCEPT ![w] = k]
    /\ idle' = idle - k
    /\ phase' = [phase EXCEPT ![w] = "release"]
    /\ UNCHANGED <<permits, shouldStop>>

\* Mutant: w counts itself among the workers to release.
ReleaseSelfToo(w) ==
    /\ phase[w] = "release"
    /\ permits' = permits + awaken[w]
    /\ awaken' = [awaken EXCEPT ![w] = 0]
    /\ phase' = [phase EXCEPT ![w] = "working"]
    /\ UNCHANGED <<idle, shouldStop>>

\* notify_workers, second half: a permit for every worker to wake but w.
ReleasePermits(w) ==
    /\ phase[w] = "release"
    /\ permits' = IF awaken[w] > 1 THEN permits + (awaken[w] - 1) ELSE permits
    /\ awaken' = [awaken EXCEPT ![w] = 0]
    /\ phase' = [phase EXCEPT ![w] = "working"]
    /\ UNCHANGED <<idle, shouldStop>>

\* Mutant: acquire does not wait for a permit.
TakeWithoutWaiting(w) ==
    /\ phase[w] = "blocked"
    /\ permits' = permits - 1
    /\ phase' = [phase EXCEPT ![w] = "working"]
    /\ UNCHANGED <<idle, awaken, shouldStop>>

\* lf_semaphore_acquire returns.  Any blocked worker may take any permit.
TakePermit(w) ==
    /\ phase[w] = "blocked"
    /\ permits > 0
    /\ permits' = permits - 1
    /\ phase' = [phase EXCEPT ![w] = "working"]
    /\ UNCHANGED <<idle, awaken, shouldStop>>

\* signal_stop: idle keeps its value, every other worker gets a permit.
SignalStop(w) ==
    /\ phase[w] = "last"
    /\ shouldStop' = TRUE
    /\ permits' = permits + (NumberOfWorkers - 1)
    /\ phase' = [phase EXCEPT ![w] = "working"]
    /\ UNCHANGED <<idle, awaken>>

IdleNext ==
    \E w \in Workers :
        \/ GoIdle(w)
        \/ GoIdleLast(w)
        \/ \E k \in 1 .. idle : LowerIdle(w, k)
        \/ ReleasePermits(w)
        \/ TakePermit(w)
        \/ SignalStop(w)

IdleSpec == IdleInit /\ [][IdleNext]_idleVars

-----------------------------------------------------------------------------

IdleTypeOK ==
    /\ idle \in 0 .. NumberOfWorkers
    /\ permits \in 0 .. NumberOfWorkers
    /\ phase \in [Workers -> Phases]
    /\ awaken \in [Workers -> 0 .. NumberOfWorkers]
    /\ shouldStop \in BOOLEAN

\* The worker that hands out work, and later releases the semaphore, really
\* runs alone: every other worker is blocked and there is no permit to wake
\* it.  The code touches the queues, the counters and the non-atomic
\* "idle -= n" without a lock because of this ("All threads are idle").
LastIsAlone ==
    \A w \in Workers :
        phase[w] \in {"last", "release"} =>
            permits = 0 /\ \A v \in Workers \ {w} : phase[v] = "blocked"

\* No wake-up is lost or invented: outside the critical part of the last
\* worker, blocked workers are exactly those counted idle plus those a permit
\* is waiting for (after the stop signal, there is a permit for each).
PermitAccounting ==
    (\A w \in Workers : phase[w] \in {"working", "blocked"}) =>
        IF shouldStop
        THEN permits = Cardinality(Blocked)
        ELSE idle + permits = Cardinality(Blocked)

\* The workers never all sleep with nobody left to wake them.
SomebodyCanRun ==
    (\A w \in Workers : phase[w] = "blocked") => permits > 0

-----------------------------------------------------------------------------
(* The inductive invariant behind the three safety properties.             *)

LastState(w) ==
    phase[w] = "last" =>
        idle = NumberOfWorkers /\ ~shouldStop

ReleaseState(w) ==
    phase[w] = "release" =>
        /\ awaken[w] \in 1 .. NumberOfWorkers
        /\ idle = NumberOfWorkers - awaken[w]
        /\ ~shouldStop

IdleInv ==
    /\ IdleTypeOK
    /\ LastIsAlone
    /\ PermitAccounting
    /\ \A w \in Workers : LastState(w) /\ ReleaseState(w)
    /\ (\A w \in Workers : phase[w] \in {"working", "blocked"}) /\ ~shouldStop
            => idle < NumberOfWorkers
=============================================================================
