------------------------------ MODULE Semaphore ------------------------------
(***************************************************************************)
(* The counting semaphore of core/utils/semaphore.c: a count protected by  *)
(* a mutex and a condition variable that release broadcasts.               *)
(***************************************************************************)
EXTENDS Integers

CONSTANTS
    Threads,
    MaxRelease, \* bound: the largest number of permits one release adds
    MaxCount,   \* bound: no release once this many permits are there
    Nobody      \* not a thread: the mutex is free

ASSUME SemaphoreAssumption ==
    MaxRelease \in Nat /\ MaxCount \in Nat /\ Nobody \notin Threads

VARIABLES
    count,      \* semaphore->count
    owner,      \* owner of semaphore->mutex
    at,         \* where each thread is
    amount      \* the argument i of a thread's release

vars == <<count, owner, at, amount>>

\* "out": outside the semaphore;  "lock", "test", "asleep", "woken": in
\* acquire, wanting the mutex, in the while condition, in lf_cond_wait, and
\* woken from it but without the mutex;  "releasing", "broadcast": in release,
\* wanting the mutex, and before the broadcast;  "unlock": leaving.
Places == {"out", "lock", "test", "asleep", "woken", "releasing", "broadcast", "unlock"}

Init ==
    /\ count = 0
    /\ owner = Nobody
    /\ at = [t \in Threads |-> "out"]
    /\ amount = [t \in Threads |-> 0]

GoTo(t, place) == at' = [at EXCEPT ![t] = place]

Acquire(t) ==
    /\ at[t] = "out"
    /\ GoTo(t, "lock")
    /\ UNCHANGED <<count, owner, amount>>

\* Mutant: lf_cond_wait returns without the mutex.
LockUnlessWoken(t) ==
    /\ at[t] \in {"lock", "woken"}
    /\ at[t] = "lock" => owner = Nobody
    /\ owner' = t
    /\ GoTo(t, "test")
    /\ UNCHANGED <<count, amount>>

\* lf_mutex_lock, or the relocking at the end of lf_cond_wait.
Lock(t) ==
    /\ at[t] \in {"lock", "woken"}
    /\ owner = Nobody
    /\ owner' = t
    /\ GoTo(t, "test")
    /\ UNCHANGED <<count, amount>>

\* The while condition holds: lf_cond_wait gives up the mutex and sleeps.
CondWait(t) ==
    /\ at[t] = "test"
    /\ count = 0
    /\ owner' = Nobody
    /\ GoTo(t, "asleep")
    /\ UNCHANGED <<count, amount>>

\* Mutant: "if" for "while", the count is not tested again after a wake-up.
DecrementUntested(t) ==
    /\ at[t] = "test"
    /\ count' = count - 1
    /\ GoTo(t, "unlock")
    /\ UNCHANGED <<owner, amount>>

Decrement(t) ==
    /\ at[t] = "test"
    /\ count # 0
    /\ count' = count - 1
    /\ GoTo(t, "unlock")
    /\ UNCHANGED <<owner, amount>>

\* A condition variable may wake a thread for no reason.
SpuriousWakeup(t) ==
    /\ at[t] = "asleep"
    /\ GoTo(t, "woken")
    /\ UNCHANGED <<count, owner, amount>>

Release(t) ==
    /\ at[t] = "out"
    /\ count < MaxCount
    /\ \E i \in 0 .. MaxRelease : amount' = [amount EXCEPT ![t] = i]
    /\ GoTo(t, "releasing")
    /\ UNCHANGED <<count, owner>>

\* Mutant: the count is set, not increased.
LockAndSet(t) ==
    /\ at[t] = "releasing"
    /\ owner = Nobody
    /\ owner' = t
    /\ count' = amount[t]
    /\ GoTo(t, "broadcast")
    /\ UNCHANGED amount

LockAndAdd(t) ==
    /\ at[t] = "releasing"
    /\ owner = Nobody
    /\ owner' = t
    /\ count' = count + amount[t]
    /\ GoTo(t, "broadcast")
    /\ UNCHANGED amount

\* Mutant: cond_signal for cond_broadcast.
SignalOne(t) ==
    /\ at[t] = "broadcast"
    /\ \/ \E s \in Threads : /\ at[s] = "asleep"
                             /\ at' = [at EXCEPT ![s] = "woken", ![t] = "unlock"]
       \/ /\ \A s \in Threads : at[s] # "asleep"
          /\ GoTo(t, "unlock")
    /\ UNCHANGED <<count, owner, amount>>

Broadcast(t) ==
    /\ at[t] = "broadcast"
    /\ at' = [u \in Threads |-> IF u = t THEN "unlock"
                                ELSE IF at[u] = "asleep" THEN "woken" ELSE at[u]]
    /\ UNCHANGED <<count, owner, amount>>

Unlock(t) ==
    /\ at[t] = "unlock"
    /\ owner' = Nobody
    /\ amount' = [amount EXCEPT ![t] = 0]
    /\ GoTo(t, "out")
    /\ UNCHANGED count

Progress(t) ==
    \/ Lock(t) \/ CondWait(t) \/ Decrement(t)
    \/ LockAndAdd(t) \/ Broadcast(t) \/ Unlock(t)

Next == \E t \in Threads :
    Acquire(t) \/ Release(t) \/ SpuriousWakeup(t) \/ Progress(t)

Spec == Init /\ [][Next]_vars

-----------------------------------------------------------------------------

TypeOK ==
    /\ count \in Nat
    /\ owner \in Threads \cup {Nobody}
    /\ at \in [Threads -> Places]
    /\ amount \in [Threads -> 0 .. MaxRelease]

\* A thread is inside the critical section exactly when it owns the mutex.
OwnerInside ==
    \A t \in Threads :
        at[t] \in {"test", "broadcast", "unlock"} <=> owner = t

\* No wake-up is lost: a thread sleeps next to an available permit only while
\* a releaser is between its addition and its broadcast.  (One cond_signal
\* for several permits would break this.)
NoSleepNextToPermit ==
    (\E t \in Threads : at[t] = "asleep") /\ count > 0 =>
        \E u \in Threads : at[u] = "broadcast"

SemInv == TypeOK /\ OwnerInside /\ NoSleepNextToPermit

-----------------------------------------------------------------------------

Acquiring == {t \in Threads : at[t] \in {"lock", "test", "asleep", "woken"}}

\* The semaphore behaves as an atomic one: permits are taken one at a time,
\* never below zero, and only by threads that are acquiring.
Atomic == INSTANCE CountingSemaphore WITH acquiring <- Acquiring

ImplementsAtomic == Atomic!Spec
=============================================================================
