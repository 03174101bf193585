--------------------------- MODULE UtilitiesProofs ---------------------------
(***************************************************************************)
(* What two small parts promise to all the others.  For any number of      *)
(* threads, the semaphore built from a mutex and a condition variable      *)
(* never loses a wake-up and implements the atomic one.  Tags are totally  *)
(* ordered, and delays keep that order.                                    *)
(***************************************************************************)
EXTENDS Semaphore, Tags, TLAPS

LEMMA InitSemInv == Init => SemInv
<1> SUFFICES ASSUME Init PROVE SemInv
  OBVIOUS
<1> USE SemaphoreAssumption DEF Init
<1>1. TypeOK
  BY DEF TypeOK, Places
<1>2. OwnerInside /\ NoSleepNextToPermit
  BY DEF OwnerInside, NoSleepNextToPermit
<1> QED
  BY <1>1, <1>2 DEF SemInv

LEMMA StepKeepsSemInv == SemInv /\ [Next]_vars => SemInv'
<1> SUFFICES ASSUME SemInv, [Next]_vars PROVE SemInv'
  OBVIOUS
<1> USE SemaphoreAssumption DEF SemInv, GoTo
<1>1. CASE UNCHANGED vars
  BY <1>1 DEF vars, TypeOK, OwnerInside, NoSleepNextToPermit
<1>2. ASSUME NEW t \in Threads, Acquire(t) PROVE SemInv'
  BY <1>2 DEF Acquire, TypeOK, OwnerInside, NoSleepNextToPermit, Places
<1>3. ASSUME NEW t \in Threads, Release(t) PROVE SemInv'
  BY <1>3 DEF Release, TypeOK, OwnerInside, NoSleepNextToPermit, Places
<1>4. ASSUME NEW t \in Threads, SpuriousWakeup(t) PROVE SemInv'
  BY <1>4 DEF SpuriousWakeup, TypeOK, OwnerInside, NoSleepNextToPermit, Places
<1>5. ASSUME NEW t \in Threads, Lock(t) PROVE SemInv'
  BY <1>5 DEF Lock, TypeOK, OwnerInside, NoSleepNextToPermit, Places
<1>6. ASSUME NEW t \in Threads, CondWait(t) PROVE SemInv'
  BY <1>6 DEF CondWait, TypeOK, OwnerInside, NoSleepNextToPermit, Places
<1>7. ASSUME NEW t \in Threads, Decrement(t) PROVE SemInv'
  BY <1>7 DEF Decrement, TypeOK, OwnerInside, NoSleepNextToPermit, Places
<1>8. ASSUME NEW t \in Threads, LockAndAdd(t) PROVE SemInv'
  BY <1>8 DEF LockAndAdd, TypeOK, OwnerInside, NoSleepNextToPermit, Places
<1>9. ASSUME NEW t \in Threads, Broadcast(t) PROVE SemInv'
  BY <1>9 DEF Broadcast, TypeOK, OwnerInside, NoSleepNextToPermit, Places
<1>10. ASSUME NEW t \in Threads, Unlock(t) PROVE SemInv'
  BY <1>10 DEF Unlock, TypeOK, OwnerInside, NoSleepNextToPermit, Places
<1> QED
  BY <1>1, <1>2, <1>3, <1>4, <1>5, <1>6, <1>7, <1>8, <1>9, <1>10 DEF Next, Progress

\* Types, mutual exclusion and no lost wake-up hold in every reachable state.
THEOREM SemaphoreInvariant == Spec => []SemInv
  BY InitSemInv, StepKeepsSemInv, PTL DEF Spec

\* A thread never sleeps next to a permit, except until the pending broadcast.
THEOREM NoLostWakeup == Spec => []NoSleepNextToPermit
<1>1. SemInv => NoSleepNextToPermit
  BY DEF SemInv
<1> QED
  BY <1>1, SemaphoreInvariant, PTL

\* lf_semaphore_acquire and lf_semaphore_release implement the atomic
\* semaphore that the schedulers' hand-shake (IdleWorkers) is modelled with.
THEOREM SemaphoreImplementsAtomic == Spec => ImplementsAtomic
<1>1. Init => Atomic!Init
  BY DEF Init, Atomic!Init, Acquiring
<1>2. SemInv /\ [Next]_vars => [Atomic!Next]_<<count, Acquiring>>
  <2> SUFFICES ASSUME SemInv, [Next]_vars PROVE [Atomic!Next]_<<count, Acquiring>>
    OBVIOUS
  <2> USE DEF SemInv, TypeOK, GoTo, Acquiring
  <2>1. CASE UNCHANGED vars
    BY <2>1 DEF vars
  <2>2. ASSUME NEW t \in Threads, Acquire(t) PROVE Atomic!BeginAcquire(t)
    BY <2>2 DEF Acquire, Atomic!BeginAcquire
  <2>3. ASSUME NEW t \in Threads, Decrement(t) PROVE Atomic!EndAcquire(t)
    BY <2>3 DEF Decrement, Atomic!EndAcquire
  <2>4. ASSUME NEW t \in Threads, LockAndAdd(t) PROVE Atomic!Release
    BY <2>4, SemaphoreAssumption DEF LockAndAdd, Atomic!Release
  <2>5. ASSUME NEW t \in Threads,
               Release(t) \/ SpuriousWakeup(t) \/ Lock(t) \/ CondWait(t)
               \/ Broadcast(t) \/ Unlock(t)
        PROVE  UNCHANGED <<count, Acquiring>>
    BY <2>5 DEF Release, SpuriousWakeup, Lock, CondWait, Broadcast, Unlock
  <2> QED
    BY <2>1, <2>2, <2>3, <2>4, <2>5 DEF Next, Progress, Atomic!Next
<1> QED
  BY <1>1, <1>2, SemaphoreInvariant, PTL DEF Spec, ImplementsAtomic, Atomic!Spec

-----------------------------------------------------------------------------
(* Tags.                                                                   *)

\* The tags whose time is a value of the type instant_t.
TagInRange == (NEVER .. FOREVER) \X (0 .. UINT_MAX)

\* lf_tag_compare is an order: of two tags exactly one is before the other unless
\* they are equal, and tags in between are in between.
THEOREM TagsAreOrdered ==
    ASSUME NEW a \in Tag, NEW b \in Tag, NEW c \in Tag
    PROVE  /\ ~Before(a, a)
           /\ Before(a, b) => ~Before(b, a)
           /\ Before(a, b) \/ a = b \/ Before(b, a)
           /\ Before(a, b) /\ Before(b, c) => Before(a, c)
  BY TagsAssumption DEF Tag, Before

\* _lf_delay_tag returns a tag, no later than FOREVER.
THEOREM DelayedInRange ==
    ASSUME NEW g \in TagInRange, NEW d \in Nat
    PROVE  Delayed(g, d) \in TagInRange
  BY TagsAssumption DEF TagInRange, Delayed, NextMicrostep

\* A message is never delivered earlier than its sender was, unless the microstep
\* has run over: _lf_delay_tag with a delay that is not negative.
THEOREM DelayNotEarlier ==
    ASSUME NEW g \in TagInRange, NEW d \in Nat, d > 0 \/ g[2] < UINT_MAX
    PROVE  UpTo(g, Delayed(g, d)) \/ (d > 0 /\ g[1] = FOREVER)
  BY TagsAssumption DEF TagInRange, Delayed, NextMicrostep, UpTo, Before

\* The order of messages survives the delay of their connection: of two events one
\* behind the other the first is not delivered behind the second.  The RTI relies
\* on it when it compares delayed tags of different federates.
THEOREM DelayKeepsOrder ==
    ASSUME NEW a \in TagInRange, NEW b \in TagInRange, NEW d \in Nat,
           d > 0 \/ b[2] < UINT_MAX, UpTo(a, b)
    PROVE  UpTo(Delayed(a, d), Delayed(b, d))
<1>1. CASE d = 0
  BY <1>1, TagsAssumption DEF TagInRange, Delayed, NextMicrostep, UpTo, Before
<1>2. CASE d > 0
  BY <1>2, TagsAssumption DEF TagInRange, Delayed, UpTo, Before
<1> QED  BY <1>1, <1>2
=============================================================================
