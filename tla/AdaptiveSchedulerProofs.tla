----------------------- MODULE AdaptiveSchedulerProofs -----------------------
(***************************************************************************)
(* Theorems about the ADAPTIVE scheduler for every program and every       *)
(* number of workers, if lf_cond_wait returns only when it was asked to.   *)
(*                                                                         *)
(* First, the number of loose threads is right, and whoever goes on to     *)
(* another level or tag is alone.  LooseInv is the inductive invariant;    *)
(* there is one lemma for the steps that change neither the counters nor   *)
(* who waits, and one for each of the others.                              *)
(*                                                                         *)
(* Second, no reaction is lost, and each runs at its tag after all of      *)
(* lower levels.  WorkInv is the inductive invariant, on top of LooseInv,  *)
(* again with one lemma for each step; the refinement of LevelTags follows *)
(* from it, and that of TagExecution from LevelTags.                       *)
(***************************************************************************)
EXTENDS AdaptiveScheduler, FiniteSetTheorems, TLAPS

\* A worker in one of these modes is neither waiting nor about to, and does not go on
\* to another level or tag.
Busy == Modes \ (Moving \cup {"sleep", "asleep"})

-----------------------------------------------------------------------------
(* Counting workers.                                                       *)

LEMMA Counting ==
    ASSUME NEW S \in SUBSET Workers
    PROVE  /\ IsFiniteSet(S) /\ Cardinality(S) \in Nat
           /\ Cardinality(S) = 0 => S = {}
           /\ Cardinality(S) = 1 => \A v, w \in S : v = w
<1>1. IsFiniteSet(S)
  BY WorkersAssumption, FS_Subset
<1>2. Cardinality(S) \in Nat
  BY <1>1, FS_CardinalityType
<1>3. Cardinality(S) = 0 => S = {}
  BY <1>1, FS_EmptySet
<1>4. Cardinality(S) = 1 => \A v, w \in S : v = w
  <2>1. Cardinality(S) = 1 => \E x : S = {x}
    BY <1>1, FS_Singleton
  <2> QED
    BY <2>1
<1> QED
  BY <1>1, <1>2, <1>3, <1>4

\* What the number of loose threads says of those on their way.
LEMMA LooseMeans ==
    ASSUME LooseInv
    PROVE  /\ loose = 0 => \A v \in Workers : ~OnItsWay(v)
           /\ loose = 1 => \A v, w \in Workers : OnItsWay(v) /\ OnItsWay(w) => v = w
           /\ \A v \in Workers : OnItsWay(v) => loose >= 1
<1>1. OnTheirWay \in SUBSET Workers /\ loose = Cardinality(OnTheirWay)
  BY DEF LooseInv, LooseCounted, OnTheirWay
<1>2. \A v \in Workers : OnItsWay(v) <=> v \in OnTheirWay
  BY DEF OnTheirWay
<1>3. loose \in Nat /\ (loose = 0 => OnTheirWay = {})
  BY <1>1, Counting
<1>4. loose = 1 => \A v, w \in OnTheirWay : v = w
  BY <1>1, Counting
<1> QED
  BY <1>2, <1>3, <1>4

\* Busy workers are on their way, and have seen the present level counter.
LEMMA BusyIsLoose ==
    ASSUME LooseInv, NEW w \in Workers, mode[w] \in Busy
    PROVE  OnItsWay(w) /\ loose >= 1
<1>1. OnItsWay(w)
  BY DEF OnItsWay, Busy, Moving
<1> QED
  BY <1>1, LooseMeans

\* The groups awakened are the first workers.
LEMMA GroupIsInterval ==
    ASSUME WorkersNumbered, NEW n, NEW v \in Workers
    PROVE  /\ Group(n) \subseteq Workers /\ IsFiniteSet(Group(n))
           /\ Cardinality(Group(n)) \in Nat
           /\ v \in Group(n) <=> v < Cardinality(Group(n))
<1> DEFINE G == Group(n)
<1>1. G \in SUBSET Workers
  BY DEF Group
<1>2. IsFiniteSet(G) /\ Cardinality(G) \in Nat
  BY <1>1, Counting
<1>3. NumberOfWorkers \in Nat /\ Workers = 0 .. NumberOfWorkers - 1
  BY WorkersAssumption, FS_CardinalityType DEF NumberOfWorkers, WorkersNumbered
<1>4. \A u, x \in Workers : u \in G /\ x <= u => x \in G
  BY <1>3 DEF Group
<1>5. CASE v \in G
  <2>1. 0 .. v \in SUBSET G
    BY <1>3, <1>4, <1>5
  <2>2. Cardinality(0 .. v) = v + 1
    BY <1>3, FS_Interval
  <2>3. Cardinality(0 .. v) <= Cardinality(G)
    BY <1>2, <2>1, FS_Subset
  <2> QED
    BY <1>1, <1>2, <1>3, <1>5, <2>2, <2>3
<1>6. CASE v \notin G
  <2>1. G \in SUBSET (0 .. v - 1)
    BY <1>1, <1>3, <1>4, <1>6
  <2>2. IsFiniteSet(0 .. v - 1) /\ Cardinality(0 .. v - 1) = v
    <3>1. PICK b : b = v - 1
      OBVIOUS
    <3>2. b \in Int /\ v \in Nat /\ v = b + 1 /\ (0 > b <=> v = 0)
      BY <1>3, <3>1
    <3>3. IsFiniteSet(0 .. b) /\ Cardinality(0 .. b) = IF 0 > b THEN 0 ELSE b - 0 + 1
      BY <3>2, FS_Interval
    <3>4. IsFiniteSet(0 .. b) /\ Cardinality(0 .. b) = v
      BY <3>2, <3>3
    <3> QED
      BY <3>1, <3>4
  <2>3. Cardinality(G) <= Cardinality(0 .. v - 1)
    BY <2>1, <2>2, FS_Subset
  <2> QED
    BY <1>1, <1>2, <1>3, <1>6, <2>2, <2>3
<1> QED
  BY <1>5, <1>6

-----------------------------------------------------------------------------
(* The steps.                                                              *)

LEMMA InitImpliesLooseInv == Init => LooseInv
<1> SUFFICES ASSUME Init PROVE LooseInv
  OBVIOUS
<1>1. /\ mode = [w \in Workers |-> "get"] /\ snapshot = [w \in Workers |-> 0]
      /\ loose = Cardinality(Workers) /\ awakened = 0 /\ counter = 0
      /\ owner = None /\ signalled = {}
  BY DEF Init, ThreadsInit, MaxNumWorkers
<1>2. Cardinality(Workers) \in Nat
  BY WorkersAssumption, FS_CardinalityType
<1>3. OnTheirWay = Workers
  BY <1>1 DEF OnTheirWay, OnItsWay
<1>4. LooseTypeOK /\ LooseCounted /\ SignalsHold
  BY <1>1, <1>2, <1>3 DEF LooseTypeOK, LooseCounted, SignalsHold, Modes
<1>5. ASSUME NEW w \in Workers PROVE SnapshotHolds(w) /\ LockHolds(w) /\ MovesAlone(w)
  BY <1>1 DEF SnapshotHolds, LockHolds, MovesAlone, Moving
<1> QED
  BY <1>4, <1>5 DEF LooseInv

\* A step of one worker that was busy and stays so, and leaves the counters and the
\* mutex of others alone.
LEMMA QuietKeeps ==
    ASSUME LooseInv, NEW w \in Workers, mode[w] \in Busy, NEW m \in Busy, Enter(w, m),
           UNCHANGED <<looseVars, signalled>>,
           snapshot' \in [Workers -> Nat], owner' \in Workers \cup {None},
           \A v \in Workers \ {w} : snapshot'[v] = snapshot[v] /\ (owner = v => owner' = v),
           SnapshotHolds(w)', LockHolds(w)'
    PROVE  LooseInv'
<1> USE DEF looseVars
<1>1. mode \in [Workers -> Modes] /\ m \in Modes
  BY DEF LooseInv, LooseTypeOK, Busy
<1>2. mode' = [mode EXCEPT ![w] = m]
  BY DEF Enter
<1>3. mode'[w] = m /\ \A v \in Workers \ {w} : mode'[v] = mode[v]
  BY <1>1, <1>2
<1>4. mode' \in [Workers -> Modes]
  BY <1>1, <1>2
<1>5. LooseTypeOK'
  BY <1>4 DEF LooseInv, LooseTypeOK
<1>6. ASSUME NEW v \in Workers PROVE OnItsWay(v)' <=> OnItsWay(v)
  <2>1. CASE v = w
    BY <2>1, <1>3 DEF OnItsWay, Busy, Moving
  <2>2. CASE v # w
    BY <2>2, <1>3 DEF OnItsWay, MustWait
  <2> QED
    BY <2>1, <2>2
<1>7. LooseCounted'
  <2>1. OnTheirWay' = OnTheirWay
    BY <1>6 DEF OnTheirWay
  <2> QED
    BY <2>1 DEF LooseInv, LooseCounted
<1>8. SignalsHold'
  <2>1. ASSUME NEW v \in signalled PROVE v # w /\ v \in Workers
    BY DEF LooseInv, SignalsHold, LooseTypeOK, Busy
  <2> QED
    BY <2>1, <1>3 DEF LooseInv, SignalsHold, MustWait
<1>9. ASSUME NEW v \in Workers, v # w PROVE SnapshotHolds(v)' /\ LockHolds(v)'
  BY <1>3, <1>9 DEF LooseInv, SnapshotHolds, LockHolds
<1>10. ASSUME NEW v \in Workers PROVE MovesAlone(v)'
  <2>1. \A u \in Workers : mode'[u] \in Moving => u # w /\ mode[u] \in Moving
    BY <1>3 DEF Busy
  <2> QED
    BY <2>1 DEF LooseInv, MovesAlone
<1> QED
  BY <1>5, <1>7, <1>8, <1>9, <1>10 DEF LooseInv

\* A step of the worker that goes on to another level or tag.
LEMMA MoveKeeps ==
    ASSUME LooseInv, NEW w \in Workers, mode[w] \in Moving, NEW m \in Moving, Enter(w, m),
           UNCHANGED <<looseVars, snapshot, owner, signalled>>
    PROVE  LooseInv'
<1> USE DEF looseVars
<1>1. mode \in [Workers -> Modes] /\ m \in Modes
  BY DEF LooseInv, LooseTypeOK, Modes
<1>2. mode' = [mode EXCEPT ![w] = m]
  BY DEF Enter
<1>3. mode'[w] = m /\ \A v \in Workers \ {w} : mode'[v] = mode[v]
  BY <1>1, <1>2
<1>4. mode' \in [Workers -> Modes]
  BY <1>1, <1>2
<1>5. LooseTypeOK'
  BY <1>4 DEF LooseInv, LooseTypeOK
<1>6. ASSUME NEW v \in Workers PROVE OnItsWay(v)' <=> OnItsWay(v)
  <2>1. CASE v = w
    BY <2>1, <1>3 DEF OnItsWay, Moving
  <2>2. CASE v # w
    BY <2>2, <1>3 DEF OnItsWay, MustWait
  <2> QED
    BY <2>1, <2>2
<1>7. LooseCounted'
  <2>1. OnTheirWay' = OnTheirWay
    BY <1>6 DEF OnTheirWay
  <2> QED
    BY <2>1 DEF LooseInv, LooseCounted
<1>8. SignalsHold'
  <2>1. ASSUME NEW v \in signalled PROVE v # w /\ v \in Workers
    BY DEF LooseInv, SignalsHold, LooseTypeOK, Moving
  <2> QED
    BY <2>1, <1>3 DEF LooseInv, SignalsHold, MustWait
<1>9. ASSUME NEW v \in Workers PROVE SnapshotHolds(v)' /\ LockHolds(v)'
  <2>1. CASE v = w
    BY <2>1, <1>3 DEF LooseInv, SnapshotHolds, LockHolds, Moving
  <2>2. CASE v # w
    BY <2>2, <1>3 DEF LooseInv, SnapshotHolds, LockHolds
  <2> QED
    BY <2>1, <2>2
<1>10. ASSUME NEW v \in Workers PROVE MovesAlone(v)'
  <2>1. \A u \in Workers : mode'[u] \in Moving <=> mode[u] \in Moving
    BY <1>3
  <2> QED
    BY <2>1 DEF LooseInv, MovesAlone
<1> QED
  BY <1>5, <1>7, <1>8, <1>9, <1>10 DEF LooseInv

\* A worker finds nothing more at the level: it is loose no longer, and if nobody else
\* is, it goes on.
LEMMA FinishKeeps ==
    ASSUME LooseInv, NEW w \in Workers, Finish(w)
    PROVE  LooseInv'
<1> USE DEF looseVars, levelVars, ownVars
<1>1. /\ mode \in [Workers -> Modes] /\ mode[w] = "finish"
      /\ loose' = loose - 1
      /\ UNCHANGED <<awakened, counter, snapshot, owner, signalled>>
  BY DEF LooseInv, LooseTypeOK, Finish
<1>2. PICK m : m = IF loose = 1 THEN "advance" ELSE "sleep"
  OBVIOUS
<1>3. mode' = [mode EXCEPT ![w] = m] /\ m \in Modes
  BY <1>2 DEF Finish, Enter, Modes, Moving
<1>4. mode'[w] = m /\ (\A v \in Workers \ {w} : mode'[v] = mode[v]) /\ mode' \in [Workers -> Modes]
  BY <1>1, <1>3
<1>5. OnItsWay(w) /\ loose >= 1 /\ loose \in Nat
  BY <1>1, BusyIsLoose DEF Busy, Modes, Moving, LooseInv, LooseTypeOK
<1>6. LooseTypeOK'
  <2>1. loose' \in Nat
    BY <1>1, <1>5
  <2> QED
    BY <1>1, <1>4, <2>1 DEF LooseInv, LooseTypeOK
<1>7. snapshot[w] = counter
  BY <1>1 DEF LooseInv, SnapshotHolds
<1>8. \A v \in Workers : OnItsWay(v)' <=> OnItsWay(v) /\ v # w
  <2>1. ~OnItsWay(w)'
    BY <1>1, <1>2, <1>4, <1>7 DEF OnItsWay, MustWait
  <2>2. ASSUME NEW v \in Workers, v # w PROVE OnItsWay(v)' <=> OnItsWay(v)
    BY <1>1, <1>4, <2>2 DEF OnItsWay, MustWait
  <2> QED
    BY <2>1, <2>2
<1>9. LooseCounted'
  <2>1. OnTheirWay \in SUBSET Workers /\ w \in OnTheirWay
    BY <1>5 DEF OnTheirWay
  <2>2. OnTheirWay' = OnTheirWay \ {w}
    BY <1>8 DEF OnTheirWay
  <2>3. Cardinality(OnTheirWay \ {w}) = Cardinality(OnTheirWay) - 1
    BY <2>1, Counting, FS_RemoveElement
  <2> QED
    BY <1>1, <2>2, <2>3 DEF LooseInv, LooseCounted
<1>10. SignalsHold'
  <2>1. ASSUME NEW v \in signalled PROVE v # w /\ v \in Workers
    BY <1>1 DEF LooseInv, SignalsHold, LooseTypeOK
  <2> QED
    BY <1>1, <1>4, <2>1 DEF LooseInv, SignalsHold, MustWait
<1>11. ASSUME NEW v \in Workers PROVE SnapshotHolds(v)'
  <2>1. CASE v = w
    BY <2>1, <1>1, <1>7 DEF LooseInv, SnapshotHolds
  <2>2. CASE v # w
    BY <2>2, <1>1, <1>4 DEF LooseInv, SnapshotHolds
  <2> QED
    BY <2>1, <2>2
<1>12. ASSUME NEW v \in Workers PROVE LockHolds(v)'
  <2>1. CASE v = w
    BY <2>1, <1>1, <1>2, <1>4 DEF LooseInv, LockHolds
  <2>2. CASE v # w
    <3>1. mode[v] \in {"check", "finish"} => OnItsWay(v)
      BY DEF OnItsWay
    <3>2. mode[v] \in {"check", "finish"} => loose # 1
      BY <1>5, <2>2, <3>1, LooseMeans
    <3> QED
      BY <1>1, <1>4, <2>2, <3>2 DEF LooseInv, LockHolds
  <2> QED
    BY <2>1, <2>2
<1>13. ASSUME NEW v \in Workers PROVE MovesAlone(v)'
  <2>1. \A u \in Workers : mode[u] \notin Moving
    BY <1>5 DEF LooseInv, MovesAlone
  <2>2. \A u \in Workers : mode'[u] \in Moving => u = w /\ loose = 1
    BY <1>2, <1>4, <2>1 DEF Moving
  <2> QED
    BY <1>1, <2>2 DEF MovesAlone
<1> QED
  BY <1>6, <1>9, <1>10, <1>11, <1>12, <1>13 DEF LooseInv

\* A worker waits: whoever counts on it has awakened nobody since it looked.
LEMMA SleepKeeps ==
    ASSUME WorkersNumbered, LooseInv, NEW w \in Workers, Sleep(w)
    PROVE  LooseInv'
<1> USE DEF looseVars, levelVars, ownVars
<1>1. /\ mode \in [Workers -> Modes] /\ mode[w] = "sleep" /\ owner = w /\ owner' = None
      /\ UNCHANGED <<loose, awakened, counter, snapshot, signalled>>
  BY DEF LooseInv, LooseTypeOK, LockHolds, Sleep
<1>2. snapshot[w] = counter /\ MustWait(w)
  BY <1>1 DEF LooseInv, SnapshotHolds, MustWait
<1>3. mode' = [mode EXCEPT ![w] = "asleep"]
  BY <1>2 DEF Sleep, Enter
<1>4. mode'[w] = "asleep" /\ (\A v \in Workers \ {w} : mode'[v] = mode[v]) /\ mode' \in [Workers -> Modes]
  BY <1>1, <1>3 DEF Modes
<1>5. LooseTypeOK'
  BY <1>1, <1>4 DEF LooseInv, LooseTypeOK
<1>6. LooseCounted'
  <2>1. ~OnItsWay(w) /\ ~OnItsWay(w)'
    BY <1>1, <1>2, <1>4 DEF OnItsWay, MustWait
  <2>2. ASSUME NEW v \in Workers, v # w PROVE OnItsWay(v)' <=> OnItsWay(v)
    BY <1>1, <1>4, <2>2 DEF OnItsWay, MustWait
  <2>3. OnTheirWay' = OnTheirWay
    BY <2>1, <2>2 DEF OnTheirWay
  <2> QED
    BY <1>1, <2>3 DEF LooseInv, LooseCounted
<1>7. SignalsHold'
  <2>1. ASSUME NEW v \in signalled PROVE v # w /\ v \in Workers
    BY <1>1 DEF LooseInv, SignalsHold, LooseTypeOK
  <2> QED
    BY <1>1, <1>4, <2>1 DEF LooseInv, SignalsHold, MustWait
<1>8. ASSUME NEW v \in Workers PROVE SnapshotHolds(v)' /\ LockHolds(v)'
  <2>1. CASE v = w
    BY <2>1, <1>1, <1>2, <1>4 DEF LooseInv, SnapshotHolds, LockHolds
  <2>2. CASE v # w
    BY <2>2, <1>1, <1>4 DEF LooseInv, SnapshotHolds, LockHolds
  <2> QED
    BY <2>1, <2>2
<1>9. ASSUME NEW v \in Workers PROVE MovesAlone(v)'
  <2>1. \A u \in Workers : mode'[u] \in Moving => mode[u] \in Moving
    BY <1>4 DEF Moving
  <2> QED
    BY <1>1, <2>1 DEF LooseInv, MovesAlone
<1> QED
  BY <1>5, <1>6, <1>7, <1>8, <1>9 DEF LooseInv

\* A worker that was signalled is one of those to go on.
LEMMA WakeUpKeeps ==
    ASSUME ~Spurious, LooseInv, NEW w \in Workers, WakeUp(w)
    PROVE  LooseInv'
<1> USE DEF looseVars, levelVars, ownVars
<1>1. /\ mode \in [Workers -> Modes] /\ mode[w] = "asleep" /\ w \in signalled
      /\ signalled' = signalled \ {w}
      /\ UNCHANGED <<loose, awakened, counter, snapshot, owner>>
  BY DEF LooseInv, LooseTypeOK, WakeUp
<1>2. ~MustWait(w)
  BY <1>1 DEF LooseInv, SignalsHold
<1>3. mode' = [mode EXCEPT ![w] = "after"]
  BY <1>2 DEF WakeUp, Enter
<1>4. mode'[w] = "after" /\ (\A v \in Workers \ {w} : mode'[v] = mode[v]) /\ mode' \in [Workers -> Modes]
  BY <1>1, <1>3 DEF Modes
<1>5. LooseTypeOK'
  BY <1>1, <1>4 DEF LooseInv, LooseTypeOK
<1>6. LooseCounted'
  <2>1. OnItsWay(w) /\ OnItsWay(w)'
    BY <1>1, <1>2, <1>4 DEF OnItsWay
  <2>2. ASSUME NEW v \in Workers, v # w PROVE OnItsWay(v)' <=> OnItsWay(v)
    BY <1>1, <1>4, <2>2 DEF OnItsWay, MustWait
  <2>3. OnTheirWay' = OnTheirWay
    BY <2>1, <2>2 DEF OnTheirWay
  <2> QED
    BY <1>1, <2>3 DEF LooseInv, LooseCounted
<1>7. SignalsHold'
  BY <1>1, <1>4 DEF LooseInv, LooseTypeOK, SignalsHold, MustWait
<1>8. ASSUME NEW v \in Workers PROVE SnapshotHolds(v)' /\ LockHolds(v)'
  <2>1. CASE v = w
    BY <2>1, <1>1, <1>4 DEF LooseInv, SnapshotHolds, LockHolds
  <2>2. CASE v # w
    BY <2>2, <1>1, <1>4 DEF LooseInv, SnapshotHolds, LockHolds
  <2> QED
    BY <2>1, <2>2
<1>9. ASSUME NEW v \in Workers PROVE MovesAlone(v)'
  <2>1. \A u \in Workers : mode'[u] \in Moving => mode[u] \in Moving
    BY <1>4 DEF Moving
  <2> QED
    BY <1>1, <2>1 DEF LooseInv, MovesAlone
<1> QED
  BY <1>5, <1>6, <1>7, <1>8, <1>9 DEF LooseInv

\* While a worker goes on to another level or tag, all others wait or are about to.
LEMMA OthersWait ==
    ASSUME LooseInv, NEW w \in Workers, mode[w] \in Moving
    PROVE  /\ loose = 0 /\ signalled = {}
           /\ \A v \in Workers : ~OnItsWay(v)
           /\ \A v \in Workers \ {w} : mode[v] \in {"sleep", "asleep"}
<1>1. loose = 0 /\ \A v \in Workers : mode[v] \in Moving => v = w
  BY DEF LooseInv, MovesAlone
<1>2. \A v \in Workers : ~OnItsWay(v)
  BY <1>1, LooseMeans
<1>3. signalled = {}
  BY <1>2 DEF LooseInv, SignalsHold, OnItsWay, LooseTypeOK
<1>4. \A v \in Workers \ {w} : mode[v] \in {"sleep", "asleep"}
  BY <1>1, <1>2 DEF OnItsWay, Moving
<1> QED
  BY <1>1, <1>2, <1>3, <1>4

\* Worker 0 goes on alone, without the lock.
LEMMA GoOnAloneKeeps ==
    ASSUME WorkersNumbered, LooseInv, NEW w \in Workers, GoOnAlone(w)
    PROVE  LooseInv'
<1> USE DEF looseVars, levelVars, ownVars
<1>1. /\ mode \in [Workers -> Modes] /\ mode[w] \in Moving
      /\ mode' = [mode EXCEPT ![w] = "after"]
      /\ loose' = 1 /\ owner' = IF owner = w THEN None ELSE owner
      /\ UNCHANGED <<awakened, counter, snapshot, signalled>>
  BY DEF LooseInv, LooseTypeOK, GoOnAlone, Moving, Unlock, Enter
<1>2. mode'[w] = "after" /\ (\A v \in Workers \ {w} : mode'[v] = mode[v]) /\ mode' \in [Workers -> Modes]
  BY <1>1 DEF Modes
<1>3. /\ signalled = {} /\ \A v \in Workers : ~OnItsWay(v)
      /\ \A v \in Workers \ {w} : mode[v] \in {"sleep", "asleep"}
  BY <1>1, OthersWait
<1>4. LooseTypeOK'
  BY <1>1, <1>2 DEF LooseInv, LooseTypeOK
<1>5. LooseCounted'
  <2>1. OnItsWay(w)'
    BY <1>2 DEF OnItsWay
  <2>2. ASSUME NEW v \in Workers, v # w PROVE ~OnItsWay(v)'
    BY <1>1, <1>2, <1>3, <2>2 DEF OnItsWay, MustWait
  <2>3. OnTheirWay' = {w}
    BY <2>1, <2>2 DEF OnTheirWay
  <2>4. Cardinality({w}) = 1
    BY FS_Singleton
  <2> QED
    BY <1>1, <2>3, <2>4 DEF LooseCounted
<1>6. SignalsHold'
  BY <1>1, <1>3 DEF SignalsHold
<1>7. ASSUME NEW v \in Workers PROVE SnapshotHolds(v)' /\ LockHolds(v)'
  <2>1. CASE v = w
    BY <2>1, <1>1, <1>2 DEF LooseInv, SnapshotHolds, LockHolds
  <2>2. CASE v # w
    BY <2>2, <1>1, <1>2, <1>3 DEF LooseInv, SnapshotHolds, LockHolds
  <2> QED
    BY <2>1, <2>2
<1>8. ASSUME NEW v \in Workers PROVE MovesAlone(v)'
  BY <1>2, <1>3 DEF MovesAlone, Moving
<1> QED
  BY <1>4, <1>5, <1>6, <1>7, <1>8 DEF LooseInv

\* The workers of the groups awakened are loose from here on, and the one who
\* awakens them.
LEMMA AwakenKeeps ==
    ASSUME WorkersNumbered, LooseInv, NEW w \in Workers, AwakenWorkers(w)
    PROVE  LooseInv' /\ \A v \in Group(NumToAwaken) \cup {w} : OnItsWay(v)'
<1> USE DEF looseVars, levelVars, ownVars
<1>1. PICK n : n = NumToAwaken
  OBVIOUS
<1>2. PICK size : size = Cardinality(Group(n))
  OBVIOUS
<1>3. /\ mode \in [Workers -> Modes] /\ mode[w] \in Moving
      /\ mode' = [mode EXCEPT ![w] = "after"]
      /\ owner \in {w, None} /\ owner' = None
      /\ loose' = size + (IF w >= size THEN 1 ELSE 0)
      /\ awakened' = loose' /\ counter' = counter + 1
      /\ signalled' = signalled \cup {v \in Group(n) : mode[v] = "asleep"}
      /\ UNCHANGED snapshot
  BY <1>1, <1>2 DEF LooseInv, LooseTypeOK, AwakenWorkers, Moving, Enter
<1>4. mode'[w] = "after" /\ (\A v \in Workers \ {w} : mode'[v] = mode[v]) /\ mode' \in [Workers -> Modes]
  BY <1>3 DEF Modes
<1>5. /\ Group(n) \subseteq Workers /\ IsFiniteSet(Group(n)) /\ size \in Nat
      /\ \A v \in Workers : v \in Group(n) <=> v < size
  BY <1>2, GroupIsInterval
<1>6. Workers \subseteq Nat /\ None \notin Workers
  BY WorkersAssumption, FS_CardinalityType DEF WorkersNumbered, NumberOfWorkers
<1>7. \A v \in Workers \ {w} : mode[v] = "asleep"
  <2>1. \A v \in Workers \ {w} : mode[v] \in {"sleep", "asleep"}
    BY <1>3, OthersWait
  <2>2. \A v \in Workers \ {w} : mode[v] # "sleep"
    BY <1>3, <1>6 DEF LooseInv, LockHolds
  <2> QED
    BY <2>1, <2>2
<1>8. signalled' = Group(n) \ {w}
  <2>1. signalled = {}
    BY <1>3, OthersWait
  <2>2. mode[w] # "asleep"
    BY <1>3 DEF Moving
  <2> QED
    BY <1>3, <1>5, <1>7, <2>1, <2>2
<1>9. /\ size <= loose' /\ loose' \in Nat
      /\ \A v \in Workers : snapshot[v] <= counter /\ snapshot[v] # counter'
      /\ snapshot \in [Workers -> Nat] /\ counter \in Nat /\ counter' \in Nat
  <2>1. loose' \in Nat /\ size <= loose'
    BY <1>3, <1>5
  <2>2. counter \in Nat /\ counter' = counter + 1 /\ snapshot \in [Workers -> Nat]
    BY <1>3 DEF LooseInv, LooseTypeOK
  <2>3. \A v \in Workers : snapshot[v] <= counter
    BY DEF LooseInv, SnapshotHolds
  <2> QED
    BY <2>1, <2>2, <2>3
<1>10. \A v \in Group(n) : ~MustWait(v)'
  <2>1. SUFFICES ASSUME NEW v \in Group(n) PROVE ~MustWait(v)'
    OBVIOUS
  <2>2. v \in Workers /\ v \in Nat /\ v < size
    BY <1>5, <1>6
  <2>3. ~(v >= awakened') /\ snapshot'[v] # counter'
    <3>1. ~(v >= loose')
      BY <1>5, <1>9, <2>2
    <3>2. snapshot[v] # counter'
      BY <1>9, <2>2
    <3> QED
      BY <1>3, <3>1, <3>2
  <2> QED
    BY <2>3 DEF MustWait
<1>11. LooseTypeOK'
  BY <1>3, <1>4, <1>5, <1>8, <1>9 DEF LooseTypeOK
<1>12. \A v \in Workers : OnItsWay(v)' <=> v \in Group(n) \cup {w}
  <2>1. OnItsWay(w)'
    BY <1>4 DEF OnItsWay
  <2>2. ASSUME NEW v \in Workers, v # w PROVE OnItsWay(v)' <=> v \in Group(n)
    BY <1>4, <1>7, <1>8, <1>10, <2>2 DEF OnItsWay
  <2> QED
    BY <2>1, <2>2
<1>13. LooseCounted'
  <2>1. OnTheirWay' = Group(n) \cup {w}
    BY <1>5, <1>12 DEF OnTheirWay
  <2>2. Cardinality(Group(n) \cup {w}) = IF w \in Group(n) THEN size ELSE size + 1
    BY <1>2, <1>5, FS_AddElement
  <2>3. w \in Group(n) <=> ~(w >= size)
    BY <1>5, <1>6
  <2> QED
    BY <1>3, <1>5, <2>1, <2>2, <2>3 DEF LooseCounted
<1>14. SignalsHold'
  BY <1>4, <1>5, <1>7, <1>8, <1>10 DEF SignalsHold
<1>15. ASSUME NEW v \in Workers PROVE SnapshotHolds(v)'
  <2>1. snapshot'[v] <= counter'
    <3>1. snapshot[v] \in Nat /\ counter \in Nat /\ snapshot[v] <= counter
      BY <1>9
    <3>2. snapshot[v] <= counter + 1
      BY <3>1
    <3> QED
      BY <1>3, <3>2
  <2>2. mode'[v] \in {"after", "asleep"}
    BY <1>4, <1>7
  <2> QED
    BY <2>1, <2>2 DEF SnapshotHolds
<1>16. ASSUME NEW v \in Workers PROVE LockHolds(v)' /\ MovesAlone(v)'
  <2>1. mode'[v] \in {"after", "asleep"}
    BY <1>4, <1>7
  <2> QED
    BY <2>1 DEF LockHolds, MovesAlone, Moving
<1>17. \A v \in Group(NumToAwaken) \cup {w} : OnItsWay(v)'
  BY <1>1, <1>5, <1>12
<1> QED
  BY <1>11, <1>13, <1>14, <1>15, <1>16, <1>17 DEF LooseInv

-----------------------------------------------------------------------------
(* The steps of a busy worker.                                             *)

LEMMA QuietSteps ==
    ASSUME WorkersNumbered, LooseInv, NEW w \in Workers,
           \/ TakeSnapshot(w) \/ Take(w) \/ Reset(w) \/ LockIfNeeded(w) \/ Acquire(w)
           \/ Check(w) \/ After(w) \/ ClaimSlot(w) \/ StoreReaction(w) \/ Elsewhere(w)
    PROVE  LooseInv'
<1> USE DEF looseVars, ownVars, levelVars
<1>0. /\ mode \in [Workers -> Modes] /\ snapshot \in [Workers -> Nat] /\ counter \in Nat
      /\ owner \in Workers \cup {None} /\ loose \in Nat /\ None \notin Workers
  BY DEF LooseInv, LooseTypeOK, WorkersNumbered
<1>a. snapshot[w] <= counter /\ LockHolds(w) /\ SnapshotHolds(w)
  BY DEF LooseInv, SnapshotHolds
<1>b. ASSUME NEW m, mode' = [mode EXCEPT ![w] = m] PROVE mode'[w] = m
  BY <1>0, <1>b
\* Snapshots and the mutex stay as they are, and no check of them is due.
<1>1. ASSUME NEW m \in Busy \ {"check", "finish"}, Enter(w, m), mode[w] \in Busy,
             mode[w] \in {"get", "after", "exited"} => m \in {"get", "after", "exited"},
             UNCHANGED <<looseVars, signalled, snapshot, owner>>
      PROVE  LooseInv'
  <2>1. mode'[w] = m
    BY <1>1, <1>b DEF Enter
  <2>2. m \notin {"get", "after", "exited"} => snapshot[w] = counter
    BY <1>1, <1>a DEF SnapshotHolds, Busy
  <2>3. SnapshotHolds(w)'
    BY <1>1, <1>a, <2>1, <2>2 DEF SnapshotHolds, Busy
  <2>4. LockHolds(w)'
    BY <1>1, <2>1 DEF LockHolds, Busy
  <2> QED
    BY <1>0, <1>1, <2>3, <2>4, QuietKeeps
<1>2. CASE TakeSnapshot(w)
  <2>1. /\ mode[w] \in Busy /\ "take" \in Busy /\ Enter(w, "take")
        /\ snapshot' = [snapshot EXCEPT ![w] = counter]
        /\ UNCHANGED <<looseVars, signalled, owner>>
    BY <1>2 DEF TakeSnapshot, Busy, Modes, Moving
  <2>2. /\ snapshot'[w] = counter /\ \A v \in Workers \ {w} : snapshot'[v] = snapshot[v]
        /\ snapshot' \in [Workers -> Nat]
    BY <1>0, <2>1
  <2>3. mode'[w] = "take"
    BY <1>b, <2>1 DEF Enter
  <2>4. SnapshotHolds(w)' /\ LockHolds(w)'
    BY <1>0, <2>1, <2>2, <2>3 DEF SnapshotHolds, LockHolds
  <2> QED
    BY <1>0, <2>1, <2>2, <2>4, QuietKeeps
<1>3. CASE Take(w)
  <2>1. mode[w] = "take" /\ UNCHANGED <<looseVars, signalled, snapshot, owner>>
    BY <1>3 DEF Take
  <2>2. Enter(w, "reset") \/ Enter(w, "invoke")
    BY <1>3 DEF Take, Get
  <2> QED
    BY <1>1, <2>1, <2>2 DEF Busy, Modes, Moving
<1>4. CASE Reset(w)
  <2>1. mode[w] = "reset" /\ UNCHANGED <<looseVars, signalled, snapshot, owner>>
    BY <1>4 DEF Reset
  <2>2. Enter(w, "take") \/ Enter(w, "lock")
    BY <1>4 DEF Reset
  <2> QED
    BY <1>1, <2>1, <2>2 DEF Busy, Modes, Moving
<1>5. CASE LockIfNeeded(w)
  <2>1. mode[w] = "lock" /\ UNCHANGED <<looseVars, signalled, snapshot, owner>>
    BY <1>5 DEF LockIfNeeded, adaptiveVars
  <2>2. CASE Enter(w, "acquire")
    BY <1>1, <2>1, <2>2 DEF Busy, Modes, Moving
  <2>3. CASE loose <= 1 /\ Enter(w, "check")
    <3>1. mode[w] \in Busy /\ "check" \in Busy
      BY <2>1 DEF Busy, Modes, Moving
    <3>2. loose = 1
      BY <1>0, <2>3, <3>1, BusyIsLoose
    <3>3. mode'[w] = "check"
      BY <1>b, <2>3 DEF Enter
    <3>4. SnapshotHolds(w)' /\ LockHolds(w)'
      BY <1>a, <2>1, <3>2, <3>3 DEF SnapshotHolds, LockHolds
    <3> QED
      BY <1>0, <2>1, <2>3, <3>1, <3>4, QuietKeeps
  <2>4. Enter(w, "acquire") \/ (loose <= 1 /\ Enter(w, "check"))
    BY <1>0, <1>5 DEF LockIfNeeded
  <2> QED
    BY <2>2, <2>3, <2>4
<1>6. CASE Acquire(w)
  <2>1. /\ mode[w] = "acquire" /\ owner = None /\ owner' = w /\ Enter(w, "check")
        /\ UNCHANGED <<looseVars, signalled, snapshot>>
    BY <1>6 DEF Acquire
  <2>2. mode[w] \in Busy /\ "check" \in Busy
    BY <2>1 DEF Busy, Modes, Moving
  <2>3. mode'[w] = "check"
    BY <1>b, <2>1 DEF Enter
  <2>4. SnapshotHolds(w)' /\ LockHolds(w)'
    BY <1>a, <2>1, <2>3 DEF SnapshotHolds, LockHolds
  <2>5. owner' \in Workers \cup {None} /\ \A v \in Workers \ {w} : owner = v => owner' = v
    BY <1>0, <2>1
  <2> QED
    BY <1>0, <2>1, <2>2, <2>4, <2>5, QuietKeeps
<1>7. CASE Check(w)
  <2>1. mode[w] = "check" /\ UNCHANGED <<looseVars, signalled, snapshot>>
    BY <1>7 DEF Check
  <2>2. mode[w] \in Busy /\ "take" \in Busy /\ "finish" \in Busy
    BY <2>1 DEF Busy, Modes, Moving
  <2>3. CASE Enter(w, "finish") /\ owner' = owner
    <3>1. mode'[w] = "finish"
      BY <1>b, <2>3 DEF Enter
    <3>2. SnapshotHolds(w)' /\ LockHolds(w)'
      BY <1>a, <2>1, <2>3, <3>1 DEF SnapshotHolds, LockHolds
    <3> QED
      BY <1>0, <2>1, <2>2, <2>3, <3>2, QuietKeeps
  <2>4. CASE Enter(w, "take") /\ Unlock(w)
    <3>1. mode'[w] = "take"
      BY <1>b, <2>4 DEF Enter
    <3>2. SnapshotHolds(w)' /\ LockHolds(w)'
      BY <1>a, <2>1, <3>1 DEF SnapshotHolds, LockHolds
    <3>3. owner' \in Workers \cup {None} /\ \A v \in Workers \ {w} : owner = v => owner' = v
      BY <1>0, <2>4 DEF Unlock
    <3> QED
      BY <1>0, <2>1, <2>2, <2>4, <3>2, <3>3, QuietKeeps
  <2> QED
    BY <1>7, <2>3, <2>4 DEF Check
<1>8. CASE After(w)
  <2>1. mode[w] = "after" /\ UNCHANGED <<looseVars, signalled, snapshot, owner>>
    BY <1>8 DEF After, adaptiveVars
  <2>2. Enter(w, "exited") \/ Enter(w, "get")
    BY <1>8 DEF After
  <2> QED
    BY <1>1, <2>1, <2>2 DEF Busy, Modes, Moving
<1>9. CASE ClaimSlot(w)
  <2>1. /\ mode[w] = "trigger" /\ Enter(w, "store")
        /\ UNCHANGED <<looseVars, signalled, snapshot, owner>>
    BY <1>9 DEF ClaimSlot, Win
  <2> QED
    BY <1>1, <2>1 DEF Busy, Modes, Moving
<1>10. CASE StoreReaction(w)
  <2>1. /\ mode[w] = "store" /\ Enter(w, "trigger")
        /\ UNCHANGED <<looseVars, signalled, snapshot, owner>>
    BY <1>10 DEF StoreReaction
  <2> QED
    BY <1>1, <2>1 DEF Busy, Modes, Moving
<1>11. CASE Elsewhere(w)
  <2>1. UNCHANGED <<looseVars, signalled, snapshot, owner>>
    BY <1>11 DEF Elsewhere, adaptiveVars
  <2>2. \/ mode[w] = "invoke" /\ Enter(w, "trigger")
        \/ mode[w] = "trigger" /\ Enter(w, "get")
        \/ mode[w] = "trigger" /\ mode' = mode
    BY <1>11 DEF Elsewhere, Invoke, Lose, Done
  <2>3. mode[w] = "trigger" /\ mode' = mode => Enter(w, "trigger")
    BY <1>0 DEF Enter
  <2> QED
    BY <1>1, <2>1, <2>2, <2>3 DEF Busy, Modes, Moving
<1> QED
  BY <1>2, <1>3, <1>4, <1>5, <1>6, <1>7, <1>8, <1>9, <1>10, <1>11

LEMMA StepKeepsLooseInv ==
    ASSUME WorkersNumbered, ~Spurious, LooseInv, [Next]_vars
    PROVE  LooseInv'
<1>1. CASE UNCHANGED vars
  <2>1. UNCHANGED <<mode, loose, awakened, counter, snapshot, owner, signalled>>
    BY <1>1 DEF vars, threadVars, adaptiveVars, looseVars, ownVars
  <2> QED
    BY <2>1 DEF LooseInv, LooseTypeOK, LooseCounted, OnTheirWay, OnItsWay, MustWait, SignalsHold,
                SnapshotHolds, LockHolds, MovesAlone
<1>2. ASSUME NEW w \in Workers, Step(w) PROVE LooseInv'
  <2>1. CASE \/ TakeSnapshot(w) \/ Take(w) \/ Reset(w) \/ LockIfNeeded(w) \/ Acquire(w)
             \/ Check(w) \/ After(w) \/ ClaimSlot(w) \/ StoreReaction(w) \/ Elsewhere(w)
    BY <2>1, QuietSteps
  <2>2. CASE Finish(w)
    BY <2>2, FinishKeeps
  <2>3. CASE Sleep(w)
    BY <2>3, SleepKeeps
  <2>4. CASE WakeUp(w)
    BY <2>4, WakeUpKeeps
  <2>5. CASE NextLevel(w) \/ Stop(w) \/ AdvanceTag(w) \/ Look(w)
    <3>1. /\ mode[w] \in Moving
          /\ UNCHANGED <<looseVars, snapshot, owner, signalled>>
          /\ \E m \in Moving : Enter(w, m)
      BY <2>5 DEF NextLevel, Stop, AdvanceTag, Look, Moving, adaptiveVars, ownVars
    <3> QED
      BY <3>1, MoveKeeps
  <2>6. CASE GoOnAlone(w)
    BY <2>6, GoOnAloneKeeps
  <2>7. CASE AwakenWorkers(w)
    BY <2>7, AwakenKeeps
  <2> QED
    BY <1>2, <2>1, <2>2, <2>3, <2>4, <2>5, <2>6, <2>7 DEF Step
<1> QED
  BY <1>1, <1>2 DEF Next

-----------------------------------------------------------------------------
(* The theorems.                                                           *)

\* The inductive invariant: what the number of loose threads, the snapshots of the level
\* counter, the mutex and the signals say of who waits and who does not.
THEOREM AdaptiveInvariant ==
    ASSUME WorkersNumbered, ~Spurious
    PROVE  Spec => []LooseInv
<1>1. Init => LooseInv
  BY InitImpliesLooseInv
<1>2. LooseInv /\ [Next]_vars => LooseInv'
  BY StepKeepsLooseInv
<1> QED
  BY <1>1, <1>2, PTL DEF Spec

\* num_loose_threads counts the threads that do not wait, as worker_states.h says.
THEOREM AdaptiveLooseCounted ==
    ASSUME WorkersNumbered, ~Spurious
    PROVE  Spec => []LooseCounted
<1>1. LooseInv => LooseCounted
  BY DEF LooseInv
<1> QED
  BY <1>1, AdaptiveInvariant, PTL

\* The last loose thread, which goes on to another level or tag without the mutex, is
\* alone: all others wait until it awakens them.
THEOREM AdaptiveLastIsAlone ==
    ASSUME WorkersNumbered, ~Spurious
    PROVE  Spec => []LastIsAlone
<1>1. LooseInv => LastIsAlone
  BY OthersWait DEF LastIsAlone
<1> QED
  BY <1>1, AdaptiveInvariant, PTL

\* The assertions of worker_states.h: where it looks at num_loose_threads there is at
\* least one, and there are never more than workers.
THEOREM AdaptiveLooseInRange ==
    ASSUME WorkersNumbered, ~Spurious
    PROVE  Spec => []LooseInRange
<1>1. LooseInv => LooseInRange
  <2> SUFFICES ASSUME LooseInv PROVE LooseInRange
    OBVIOUS
  <2>1. loose \in Nat /\ loose <= MaxNumWorkers /\ MaxNumWorkers \in Nat
    <3>1. OnTheirWay \in SUBSET Workers
      BY DEF OnTheirWay
    <3>2. Cardinality(OnTheirWay) <= Cardinality(Workers)
      BY <3>1, WorkersAssumption, FS_Subset
    <3>3. Cardinality(Workers) \in Nat
      BY WorkersAssumption, FS_CardinalityType
    <3> QED
      BY <3>2, <3>3 DEF LooseInv, LooseCounted, LooseTypeOK, MaxNumWorkers
  <2>2. ASSUME NEW w \in Workers, mode[w] \in {"lock", "finish"} PROVE loose >= 1
    BY <2>2, BusyIsLoose DEF Busy, Modes, Moving
  <2> QED
    BY <2>1, <2>2 DEF LooseInRange
<1> QED
  BY <1>1, AdaptiveInvariant, PTL

-----------------------------------------------------------------------------
(* Lists and slots.                                                        *)

\* Level numbers and worker numbers are numbers, and None is not a reaction.
LEMMA DataFacts ==
    ASSUME WorkersNumbered
    PROVE  /\ MaxLevel \in Nat /\ Levels = 0 .. MaxLevel /\ Level \in [Reactions -> Levels]
           /\ None \notin Reactions
           /\ MaxNumWorkers \in Nat \ {0} /\ Workers = 0 .. MaxNumWorkers - 1 /\ 0 \in Workers
<1>1. MaxNumWorkers \in Nat /\ MaxNumWorkers # 0
  BY WorkersAssumption, FS_CardinalityType, FS_EmptySet DEF MaxNumWorkers
<1> QED
  BY <1>1, TagWorkersAssumption DEF WorkersNumbered, NumberOfWorkers, MaxNumWorkers, Levels

\* s lists each element of S, once.
Lists(s, S) ==
    /\ s \in Seq(S)
    /\ \A x \in S : \E i \in 1 .. Len(s) : s[i] = x
    /\ \A i, j \in 1 .. Len(s) : s[i] = s[j] => i = j

\* SetToSeq does, for a finite set.
LEMMA SetToSeqLists ==
    ASSUME NEW S, NEW s, IsFiniteSet(S), s = SetToSeq(S)
    PROVE  Lists(s, S)
<1>1. PICK n : n = Cardinality(S)
  OBVIOUS
<1>2. n \in Nat /\ ExistsBijection(1 .. n, S)
  BY <1>1, FS_CardinalityType
<1>3. \E f \in [1 .. n -> S] : IsInjective(f)
  BY <1>2 DEF ExistsBijection, Bijection, Injection
<1>4. s \in [1 .. n -> S] /\ IsInjective(s)
  BY <1>1, <1>3 DEF SetToSeq
<1>5. IsFiniteSet(1 .. n) /\ Cardinality(1 .. n) = n
  BY <1>2, FS_Interval
<1>6. s \in Injection(1 .. n, S)
  BY <1>4 DEF Injection
<1>7. s \in Surjection(1 .. n, S)
  BY <1>1, <1>5, <1>6, FS_Injection
<1>8. s \in Seq(S) /\ Len(s) = n
  BY <1>2, <1>4
<1>9. \A i, j \in 1 .. n : s[i] = s[j] => i = j
  BY <1>4 DEF IsInjective
<1> QED
  BY <1>7, <1>8, <1>9 DEF Surjection, Lists

\* A slot that is filled makes the array as long as needed, and changes no other.
LEMMA FilledSlots ==
    ASSUME NEW S, NEW s, NEW i, NEW r, NEW t,
           None \in S, s \in Seq(S), i \in Nat \ {0}, r \in S, t = Filled(s, i, r)
    PROVE  /\ t \in Seq(S) /\ i <= Len(t) /\ Len(s) <= Len(t) /\ t[i] = r
           /\ \A j \in 1 .. Len(s) : j # i => t[j] = s[j]
<1>1. PICK n : n = IF i > Len(s) THEN i ELSE Len(s)
  OBVIOUS
<1>2. n \in Nat /\ i <= n /\ Len(s) <= n
  BY <1>1
<1>3. t = [j \in 1 .. n |-> IF j = i THEN r ELSE IF j <= Len(s) THEN s[j] ELSE None]
  BY <1>1 DEF Filled
<1>4. \A j \in 1 .. n : t[j] = IF j = i THEN r ELSE IF j <= Len(s) THEN s[j] ELSE None
  BY <1>3
<1>5. \A j \in 1 .. n : t[j] \in S
  BY <1>4
<1>6. t \in Seq(S) /\ Len(t) = n
  BY <1>2, <1>3, <1>5
<1> QED
  BY <1>2, <1>4, <1>6

\* The lesser of two numbers.
LEMMA MinOfTwo ==
    ASSUME NEW a \in Nat, NEW b \in Nat
    PROVE  Min({a, b}) = IF a <= b THEN a ELSE b
<1>1. PICK m : m = IF a <= b THEN a ELSE b
  OBVIOUS
<1>2. m \in {a, b} /\ \A y \in {a, b} : m <= y
  BY <1>1
<1>3. \A x \in {a, b} : (\A y \in {a, b} : x <= y) => x = m
  BY <1>2
<1> QED
  BY <1>1, <1>2, <1>3 DEF Min

\* Of the workers of each level there are as many as the level has reactions, at most.
LEMMA WorkersOfLevels ==
    ASSUME WorkersNumbered, ProgramFits
    PROVE  /\ \A l \in Levels : MaxAtLevel(l) \in 1 .. MaxNumWorkers
           /\ NewNumWorkers \subseteq [Levels -> 1 .. MaxNumWorkers]
<1>1. ASSUME NEW l \in Levels PROVE MaxAtLevel(l) \in 1 .. MaxNumWorkers
  <2>1. AtLevel(l) \in SUBSET Reactions /\ AtLevel(l) # {}
    BY DEF AtLevel, ProgramFits
  <2>2. Cardinality(AtLevel(l)) \in Nat /\ Cardinality(AtLevel(l)) # 0
    BY <2>1, FS_Subset, FS_CardinalityType, FS_EmptySet DEF ProgramFits
  <2> QED
    BY <2>2, DataFacts, MinOfTwo DEF MaxAtLevel
<1> QED
  BY <1>1 DEF NewNumWorkers

\* Each reaction of R is in the list of its worker at its level, once.
Listed(s, R, num) ==
    /\ s \in [Levels -> [Workers -> Seq(Reactions \cup {None})]]
    /\ \A l \in Levels, v \in Workers : \A i \in 1 .. Len(s[l][v]) :
          s[l][v][i] \in R \cap AtLevel(l) /\ Hash[s[l][v][i]] % num[l] = v
    /\ \A l \in Levels, v \in Workers : \A i, j \in 1 .. Len(s[l][v]) :
          s[l][v][i] = s[l][v][j] => i = j
    /\ \A r \in R : \E v \in Workers : \E i \in 1 .. Len(s[Level[r]][v]) : s[Level[r]][v][i] = r

\* Reactions are put where they belong, each once.
LEMMA PutHolds ==
    ASSUME WorkersNumbered, ProgramFits, NEW R, NEW num, NEW there, NEW s,
           R \in SUBSET Reactions, num \in [Levels -> 1 .. MaxNumWorkers],
           there = [l \in Levels |-> [v \in Workers |-> <<>>]],
           s = Put(there, R, num)
    PROVE  Listed(s, R, num)
<1> DEFINE A(l, v) == {r \in R : Level[r] = l /\ Hash[r] % num[l] = v}
           to(l, v) == SetToSeq(A(l, v))
<1>0. R \subseteq Reactions
  OBVIOUS
<1>1. s = [l \in Levels |-> [v \in Workers |-> there[l][v] \o to(l, v)]]
  BY DEF Put
<1>2. ASSUME NEW l \in Levels, NEW v \in Workers
      PROVE  Lists(s[l][v], A(l, v))
  <2>1. PICK S : S = A(l, v)
    OBVIOUS
  <2>2. IsFiniteSet(S)
    BY <2>1, FS_Subset DEF ProgramFits
  <2>3. PICK t : t = SetToSeq(S)
    OBVIOUS
  <2>4. Lists(t, S)
    BY <2>2, <2>3, SetToSeqLists
  <2>5. s[l][v] = <<>> \o t
    <3>1. t = to(l, v)
      BY <2>1, <2>3
    <3>2. there[l][v] = <<>>
      OBVIOUS
    <3> HIDE DEF to
    <3>3. s[l] = [u \in Workers |-> there[l][u] \o to(l, u)]
      BY <1>1, Zenon
    <3>4. s[l][v] = there[l][v] \o to(l, v)
      BY <3>3, Zenon
    <3> QED
      BY <3>1, <3>2, <3>4, Zenon
  <2>6. s[l][v] = t
    BY <2>4, <2>5 DEF Lists
  <2> HIDE DEF A
  <2> QED
    BY <2>1, <2>4, <2>6
<1>3. ASSUME NEW l \in Levels, NEW v \in Workers
      PROVE  /\ \A i \in 1 .. Len(s[l][v]) : s[l][v][i] \in A(l, v)
             /\ s[l][v] \in Seq(Reactions \cup {None})
  <2>1. s[l][v] \in Seq(A(l, v))
    BY <1>2 DEF Lists
  <2>2. A(l, v) \subseteq Reactions \cup {None}
    BY <1>0
  <2> HIDE DEF A
  <2>3. PICK t : t = s[l][v]
    OBVIOUS
  <2>4. t \in Seq(A(l, v)) /\ \A i \in 1 .. Len(t) : t[i] \in A(l, v)
    BY <2>1, <2>3
  <2> QED
    BY <2>2, <2>3, <2>4
<1>4. s \in [Levels -> [Workers -> Seq(Reactions \cup {None})]]
  <2> HIDE DEF A
  <2>1. s = [l \in Levels |-> [v \in Workers |-> s[l][v]]]
    BY <1>1
  <2> QED
    BY <1>3, <2>1
<1>5. ASSUME NEW l \in Levels, NEW v \in Workers, NEW i \in 1 .. Len(s[l][v])
      PROVE  s[l][v][i] \in R \cap AtLevel(l) /\ Hash[s[l][v][i]] % num[l] = v
  BY <1>0, <1>3 DEF AtLevel
<1>6. ASSUME NEW r \in R
      PROVE  \E v \in Workers : \E i \in 1 .. Len(s[Level[r]][v]) : s[Level[r]][v][i] = r
  <2>1. Level[r] \in Levels /\ Hash[r] \in Nat /\ num[Level[r]] \in 1 .. MaxNumWorkers
    BY <1>0, DataFacts DEF ProgramFits
  <2>2. PICK v : v = Hash[r] % num[Level[r]]
    OBVIOUS
  <2>3. v \in 0 .. num[Level[r]] - 1
    BY <2>1, <2>2, DataFacts
  <2>4. v \in Workers
    BY <2>1, <2>3, DataFacts
  <2>5. r \in A(Level[r], v)
    BY <2>2
  <2> HIDE DEF A
  <2>6. Lists(s[Level[r]][v], A(Level[r], v))
    BY <1>2, <2>1, <2>4
  <2> QED
    BY <2>4, <2>5, <2>6 DEF Lists
<1> HIDE DEF A
<1> QED
  BY <1>2, <1>4, <1>5, <1>6 DEF Lists, Listed

-----------------------------------------------------------------------------
(* Where the reactions are: the steps.                                     *)

\* Next to a busy worker nobody goes on to another level or tag.
LEMMA NobodyMoves ==
    ASSUME LooseInv, NEW w \in Workers, mode[w] \in Busy
    PROVE  \A v \in Workers : mode[v] \notin Moving
BY BusyIsLoose DEF LooseInv, MovesAlone, LooseTypeOK

\* A step of one worker that leaves the slots alone and starts or finishes nothing.
\* Counts that are 0 or less may change, but stay so.
LEMMA SearchKeeps ==
    ASSUME WorkersNumbered, LooseInv, WorkInv, NEW w \in Workers, NEW m \in Modes \ {"store"},
           mode[w] # "store", Enter(w, m),
           UNCHANGED <<running, status, tagVars, slots, storing, levelVars>>,
           count' \in [Levels -> [Workers -> Int]],
           \A l \in Levels, v \in Workers :
              count'[l][v] = count[l][v] \/ (count[l][v] <= 0 /\ count'[l][v] <= 0),
           victim' \in [Workers -> Workers], pending' \in [Workers -> SUBSET Reactions],
           \A v \in Workers \ {w} : victim'[v] = victim[v] /\ pending'[v] = pending[v],
           CountsHold', LevelHolds', Holding(w)', SearchHolds(w)'
    PROVE  WorkInv'
<1> USE DEF levelVars, tagVars
<1>1. mode \in [Workers -> Modes] /\ mode' = [mode EXCEPT ![w] = m]
  BY DEF LooseInv, LooseTypeOK, Enter
<1>2. mode'[w] = m /\ \A v \in Workers \ {w} : mode'[v] = mode[v]
  BY <1>1
<1>3. /\ count \in [Levels -> [Workers -> Int]] /\ numWorkers \in [Levels -> 1 .. MaxNumWorkers]
      /\ current \in Levels /\ running \in [Workers -> Reactions \cup {None}]
      /\ storing \in [Workers -> [reaction : Reactions \cup {None}, worker : Workers, at : Nat]]
      /\ Level \in [Reactions -> Levels]
  BY DataFacts DEF WorkInv, TypeOK
<1>4. ASSUME NEW l \in Levels, NEW v \in Workers
      PROVE  /\ count[l][v] <= 0 => count'[l][v] <= 0
             /\ 1 .. count'[l][v] = 1 .. count[l][v]
  <2>1. count[l][v] \in Int /\ count'[l][v] \in Int
    BY <1>3
  <2> QED
    BY <2>1
<1>5. ASSUME NEW u \in Workers, NEW l, NEW v, NEW i PROVE Stores(u, l, v, i)' <=> Stores(u, l, v, i)
  BY <1>2 DEF Stores
<1>6. ASSUME NEW l \in Levels, NEW v \in Workers, NEW i PROVE InPlace(l, v, i)' <=> InPlace(l, v, i)
  BY <1>4, <1>5 DEF InPlace
<1>7. TypeOK'
  BY DEF WorkInv, TypeOK
<1>8. SlotsHold'
  <2> SUFFICES ASSUME NEW l \in Levels, NEW v \in Workers, NEW i \in 1 .. count'[l][v]
               PROVE  /\ l >= current /\ v < numWorkers[l]
                      /\ InPlace(l, v, i)' =>
                            /\ i <= Len(slots[l][v]) /\ slots[l][v][i] \in AtLevel(l)
                            /\ status[slots[l][v][i]] = "queued"
                            /\ \A u \in Workers : slots[l][v][i] \notin {running[u], storing[u].reaction}
    BY DEF SlotsHold
  <2>1. i \in 1 .. count[l][v] /\ (InPlace(l, v, i)' <=> InPlace(l, v, i))
    BY <1>4, <1>6
  <2> QED
    BY <2>1 DEF WorkInv, SlotsHold
<1>9. SlotsApart'
  <2> SUFFICES ASSUME NEW l \in Levels, NEW u \in Workers, NEW v \in Workers,
                      NEW i \in 1 .. count'[l][u], NEW j \in 1 .. count'[l][v],
                      InPlace(l, u, i)', InPlace(l, v, j)', slots[l][u][i] = slots[l][v][j]
               PROVE  u = v /\ i = j
    BY DEF SlotsApart
  <2>1. i \in 1 .. count[l][u] /\ j \in 1 .. count[l][v] /\ InPlace(l, u, i) /\ InPlace(l, v, j)
    BY <1>4, <1>6
  <2>2. SlotsApart
    BY DEF WorkInv
  <2> QED
    BY <2>1, <2>2, Zenon DEF SlotsApart
<1>10. QueuedHold'
  <2> SUFFICES ASSUME NEW r \in Reactions, status[r] = "queued",
                      \A u \in Workers : r \notin {running[u], storing[u].reaction}
               PROVE  \E v \in Workers : \E i \in 1 .. count'[Level[r]][v] :
                         InPlace(Level[r], v, i)' /\ slots[Level[r]][v][i] = r
    BY DEF QueuedHold
  <2>1. PICK v \in Workers, i \in Int :
           i \in 1 .. count[Level[r]][v] /\ InPlace(Level[r], v, i) /\ slots[Level[r]][v][i] = r
    BY DEF WorkInv, QueuedHold
  <2>2. i \in 1 .. count'[Level[r]][v] /\ InPlace(Level[r], v, i)'
    BY <1>3, <1>4, <1>6, <2>1
  <2> QED
    BY <2>1, <2>2
<1>11. ASSUME NEW u \in Workers, u # w PROVE Holding(u)'
  BY <1>2, <1>11 DEF WorkInv, Holding
<1>12. ASSUME NEW u \in Workers PROVE StoringHolds(u)'
  <2>1. CASE mode[u] # "store"
    BY <1>2, <2>1 DEF WorkInv, StoringHolds
  <2>2. CASE mode[u] = "store"
    <3>1. /\ mode'[u] = "store" /\ storing[u].reaction \in Reactions
          /\ storing[u].worker \in Workers /\ Level[storing[u].reaction] \in Levels
      BY <1>2, <1>3, <2>2 DEF WorkInv, StoringHolds
    <3>2. 1 .. count'[Level[storing[u].reaction]][storing[u].worker]
             = 1 .. count[Level[storing[u].reaction]][storing[u].worker]
      BY <1>4, <3>1
    <3>3. StoringHolds(u)
      BY DEF WorkInv
    <3> QED
      BY <1>5, <2>2, <3>1, <3>2, <3>3 DEF StoringHolds
  <2> QED
    BY <2>1, <2>2
<1>13. ASSUME NEW u \in Workers, u # w PROVE SearchHolds(u)'
  <2>1. mode'[u] = mode[u] /\ victim'[u] = victim[u] /\ victim[u] \in Workers
    BY <1>2, <1>13 DEF WorkInv, TypeOK
  <2>2. Passed(u)' = Passed(u) /\ Passed(u) \subseteq Workers
    BY <2>1 DEF Passed
  <2>3. Emptied => Emptied'
    BY <1>3, <1>4 DEF Emptied
  <2> QED
    BY <1>3, <1>4, <2>1, <2>2, <2>3 DEF WorkInv, SearchHolds
<1>14. ASSUME NEW u, NEW v \in Workers PROVE Apart(u, v)' <=> Apart(u, v)
  BY DEF Apart
<1> QED
  BY <1>7, <1>8, <1>9, <1>10, <1>11, <1>12, <1>13, <1>14 DEF WorkInv

\* Beyond the workers of a level no slot is in use.
LEMMA BeyondWorkers ==
    ASSUME WorkersNumbered, WorkInv, NEW l \in Levels, NEW v \in Workers,
           v >= numWorkers[l] \/ l < current
    PROVE  count[l][v] <= 0
<1>1. count[l][v] \in Int /\ numWorkers[l] \in Int /\ v \in Int /\ l \in Int /\ current \in Int
  BY DataFacts DEF WorkInv, TypeOK
<1>2. 1 \in 1 .. count[l][v] => v < numWorkers[l] /\ l >= current
  BY DEF WorkInv, SlotsHold
<1> QED
  BY <1>1, <1>2

\* The same, if the counts stay as they are and the reaction in hand, if any.
LEMMA WalkKeeps ==
    ASSUME WorkersNumbered, LooseInv, WorkInv, NEW w \in Workers,
           NEW m \in Modes \ {"store", "invoke", "trigger"},
           mode[w] \notin {"store", "invoke", "trigger", "reset"}, Enter(w, m),
           UNCHANGED <<workVars, status, tagVars, queueVars, levelVars>>,
           victim' \in [Workers -> Workers], \A v \in Workers \ {w} : victim'[v] = victim[v],
           LevelHolds', SearchHolds(w)'
    PROVE  WorkInv'
<1> USE DEF workVars, queueVars, levelVars
<1>1. mode \in [Workers -> Modes] /\ mode' = [mode EXCEPT ![w] = m]
  BY DEF LooseInv, LooseTypeOK, Enter
<1>2. mode'[w] = m /\ \A v \in Workers \ {w} : mode'[v] = mode[v]
  BY <1>1
<1>3. CountsHold'
  <2> SUFFICES ASSUME NEW l \in Levels, NEW v \in Workers, count[l][v] < 0
               PROVE  l = current /\ \E u \in Workers : mode'[u] = "reset" /\ victim'[u] = v
    BY DEF CountsHold
  <2>1. l = current /\ \E u \in Workers : mode[u] = "reset" /\ victim[u] = v
    BY DEF WorkInv, CountsHold
  <2> QED
    BY <1>2, <2>1
<1>4. Holding(w)'
  BY <1>2 DEF WorkInv, Holding
<1>5. count \in [Levels -> [Workers -> Int]] /\ pending \in [Workers -> SUBSET Reactions]
  BY DEF WorkInv, TypeOK
<1> QED
  BY <1>3, <1>4, <1>5, SearchKeeps

\* If worker 0 is loose it stays so, and looks for what is left unless nothing is.
LEMMA LevelKeeps ==
    ASSUME WorkersNumbered, LooseInv, WorkInv, NEW w \in Workers, mode[w] \in Busy,
           NEW m \in Busy, Enter(w, m), UNCHANGED <<looseVars, signalled, levelVars>>,
           \A v \in Workers \ {w} : snapshot'[v] = snapshot[v],
           Emptied => Emptied', SearchHolds(w)'
    PROVE  LevelHolds'
<1> USE DEF looseVars, levelVars
<1>1. mode \in [Workers -> Modes] /\ mode' = [mode EXCEPT ![w] = m]
  BY DEF LooseInv, LooseTypeOK, Enter
<1>2. mode'[w] = m /\ \A v \in Workers \ {w} : mode'[v] = mode[v]
  BY <1>1
<1>3. 0 \in Workers /\ 0 < numWorkers[current]
  BY DataFacts DEF WorkInv, TypeOK
<1>4. CASE w = 0
  <2>1. OnItsWay(0)'
    BY <1>2, <1>4 DEF OnItsWay, Busy, Moving
  <2>2. mode'[0] \in {"lock", "acquire", "check", "finish"} => Emptied'
    BY <1>3, <1>4 DEF SearchHolds
  <2> QED
    BY <2>1, <2>2 DEF LevelHolds
<1>5. CASE w # 0
  <2>1. mode'[0] = mode[0] /\ (OnItsWay(0)' <=> OnItsWay(0))
    BY <1>2, <1>3, <1>5 DEF OnItsWay, MustWait
  <2>2. \A u \in Workers : mode[u] \notin {"look", "awaken"}
    BY NobodyMoves DEF Moving
  <2> QED
    BY <2>1, <2>2 DEF WorkInv, LevelHolds
<1> QED
  BY <1>4, <1>5

\* The steps of the search that change no slot and no count.
LEMMA WalkSteps ==
    ASSUME WorkersNumbered, LooseInv, WorkInv, NEW w \in Workers,
           TakeSnapshot(w) \/ LockIfNeeded(w) \/ Acquire(w) \/ Check(w) \/ After(w)
    PROVE  WorkInv'
<1> USE DEF looseVars, ownVars
<1>1. PICK m \in {"take", "acquire", "check", "finish", "exited", "get"} :
         /\ Enter(w, m)
         /\ m = "take" => mode[w] \in {"get", "check"} /\ victim' = [victim EXCEPT ![w] = w]
         /\ m # "take" => UNCHANGED victim
         /\ m = "acquire" => mode[w] = "lock"
         /\ m = "check" => mode[w] \in {"lock", "acquire"}
         /\ m = "finish" => mode[w] = "check"
         /\ m \in {"exited", "get"} => mode[w] = "after"
  BY DEF TakeSnapshot, LockIfNeeded, Acquire, Check, After, adaptiveVars
<1>2. /\ UNCHANGED <<workVars, status, tagVars, queueVars, levelVars, looseVars, signalled>>
      /\ \A v \in Workers \ {w} : snapshot'[v] = snapshot[v]
  BY DEF TakeSnapshot, LockIfNeeded, Acquire, Check, After, adaptiveVars, LooseInv, LooseTypeOK
<1>3. mode \in [Workers -> Modes] /\ mode'[w] = m
  BY <1>1 DEF LooseInv, LooseTypeOK, Enter
<1>4. mode[w] \in Busy /\ m \in Busy
  BY <1>1, <1>3 DEF Busy, Modes, Moving
<1>5. victim \in [Workers -> Workers]
  BY DEF WorkInv, TypeOK
<1>6. victim' \in [Workers -> Workers] /\ \A v \in Workers \ {w} : victim'[v] = victim[v]
  BY <1>1, <1>5
<1>7. (Emptied => Emptied') /\ UNCHANGED <<current, numWorkers, count>>
  BY <1>2 DEF Emptied, queueVars, levelVars
<1>8. SearchHolds(w)'
  <2>1. CASE m = "take"
    <3>1. victim'[w] = w
      BY <1>1, <1>5, <2>1
    <3>2. \A v \in Workers : v \notin Passed(w)'
      BY <3>1, DataFacts DEF Passed
    <3> QED
      BY <1>3, <1>7, <2>1, <3>1, <3>2 DEF SearchHolds, Passed
  <2>2. CASE m # "take"
    BY <1>1, <1>3, <1>7, <2>2 DEF WorkInv, SearchHolds
  <2> QED
    BY <2>1, <2>2
<1>9. LevelHolds'
  BY <1>1, <1>2, <1>4, <1>7, <1>8, LevelKeeps
<1> QED
  BY <1>1, <1>2, <1>4, <1>6, <1>8, <1>9, WalkKeeps DEF Busy

\* A worker finds nothing in a queue, and takes note of it in vain.
LEMMA TakeNothing ==
    ASSUME WorkersNumbered, LooseInv, WorkInv, NEW w \in Workers, Take(w),
           count[current][victim[w]] <= 0
    PROVE  WorkInv'
<1> USE DEF looseVars, ownVars, levelVars, workVars
<1>1. /\ mode \in [Workers -> Modes] /\ count \in [Levels -> [Workers -> Int]]
      /\ current \in Levels /\ victim \in [Workers -> Workers]
      /\ numWorkers \in [Levels -> 1 .. MaxNumWorkers]
      /\ pending \in [Workers -> SUBSET Reactions]
  BY DEF LooseInv, LooseTypeOK, WorkInv, TypeOK
<1>2. PICK n \in Int : n = count[current][victim[w]] - 1
  BY <1>1
<1>3. n < 0
  BY <1>1, <1>2
<1>4. /\ mode[w] = "take" /\ Enter(w, "reset")
      /\ count' = [count EXCEPT ![current][victim[w]] = n]
      /\ UNCHANGED <<running, pending, status, tagVars, slots, storing, levelVars, looseVars,
                     ownVars, signalled>>
  BY <1>2 DEF Take
<1>5. /\ count' \in [Levels -> [Workers -> Int]]
      /\ \A l \in Levels, v \in Workers :
            count'[l][v] = IF l = current /\ v = victim[w] THEN n ELSE count[l][v]
  BY <1>1, <1>4
<1>6. mode'[w] = "reset" /\ \A v \in Workers \ {w} : mode'[v] = mode[v]
  BY <1>1, <1>4 DEF Enter
<1>7. \A l \in Levels, v \in Workers :
         count'[l][v] = count[l][v] \/ (count[l][v] <= 0 /\ count'[l][v] <= 0)
  BY <1>3, <1>5
<1>8. \A v \in Workers : count[current][v] <= 0 => count'[current][v] <= 0
  BY <1>1, <1>3, <1>5
<1>9. CountsHold'
  <2> SUFFICES ASSUME NEW l \in Levels, NEW v \in Workers, count'[l][v] < 0
               PROVE  l = current /\ \E u \in Workers : mode'[u] = "reset" /\ victim[u] = v
    BY <1>4 DEF CountsHold
  <2>1. CASE l = current /\ v = victim[w]
    BY <1>6, <2>1
  <2>2. CASE count'[l][v] = count[l][v]
    <3>1. l = current /\ \E u \in Workers : mode[u] = "reset" /\ victim[u] = v
      BY <2>2 DEF WorkInv, CountsHold
    <3> QED
      BY <1>4, <1>6, <3>1
  <2> QED
    BY <1>5, <2>1, <2>2
<1>10. SearchHolds(w)'
  <2>1. count'[current][victim[w]] <= 0
    BY <1>1, <1>3, <1>5
  <2>2. Passed(w)' = Passed(w) /\ Passed(w) \subseteq Workers
    BY <1>4 DEF Passed
  <2> QED
    BY <1>4, <1>6, <1>8, <2>1, <2>2 DEF WorkInv, SearchHolds
<1>11. mode[w] \in Busy /\ "reset" \in Busy
  BY <1>4 DEF Busy, Modes, Moving
<1>12. LevelHolds'
  <2>1. Emptied => Emptied'
    BY <1>4, <1>8 DEF Emptied
  <2>2. \A v \in Workers \ {w} : snapshot'[v] = snapshot[v]
    BY <1>4
  <2> QED
    BY <1>4, <1>10, <1>11, <2>1, <2>2, LevelKeeps
<1>13. Holding(w)'
  BY <1>4, <1>6 DEF WorkInv, Holding
<1>14. "reset" \in Modes \ {"store"} /\ mode[w] # "store"
  BY <1>4 DEF Modes
<1>15. /\ victim' \in [Workers -> Workers] /\ pending' \in [Workers -> SUBSET Reactions]
       /\ \A v \in Workers \ {w} : victim'[v] = victim[v] /\ pending'[v] = pending[v]
  BY <1>1, <1>4
<1> QED
  BY <1>4, <1>5, <1>7, <1>9, <1>10, <1>12, <1>13, <1>14, <1>15, SearchKeeps

\* It writes 0 again, and goes on to the next queue.  Back at its own, it has seen that
\* nothing is left at the level.
LEMMA ResetKeepsWork ==
    ASSUME WorkersNumbered, LooseInv, WorkInv, NEW w \in Workers, Reset(w)
    PROVE  WorkInv'
<1> USE DEF looseVars, ownVars, levelVars, workVars
<1>1. /\ mode \in [Workers -> Modes] /\ count \in [Levels -> [Workers -> Int]]
      /\ current \in Levels /\ victim \in [Workers -> Workers]
      /\ numWorkers \in [Levels -> 1 .. MaxNumWorkers]
      /\ pending \in [Workers -> SUBSET Reactions]
  BY DEF LooseInv, LooseTypeOK, WorkInv, TypeOK
<1>2. PICK v : v = victim[w]
  OBVIOUS
<1>3. PICK b : b = numWorkers[current]
  OBVIOUS
<1>4. PICK next : next = (v + 1) % b
  OBVIOUS
<1>5. PICK m : m = IF w < b /\ next # w THEN "take" ELSE "lock"
  OBVIOUS
<1>6. /\ v \in Workers /\ b \in 1 .. MaxNumWorkers /\ count[current][v] \in Int
      /\ Workers \subseteq Nat /\ MaxNumWorkers \in Nat /\ Workers = 0 .. MaxNumWorkers - 1
  BY <1>1, <1>2, <1>3, DataFacts
<1>7. /\ mode[w] = "reset" /\ Enter(w, m)
      /\ count' = [count EXCEPT ![current][v] = 0]
      /\ m = "take" => victim' = [victim EXCEPT ![w] = next]
      /\ m = "lock" => UNCHANGED victim
      /\ UNCHANGED <<running, pending, status, tagVars, slots, storing, levelVars, looseVars,
                     snapshot, signalled>>
  BY <1>2, <1>3, <1>4, <1>5 DEF Reset
<1>8. /\ count' \in [Levels -> [Workers -> Int]]
      /\ \A l \in Levels, u \in Workers :
            count'[l][u] = IF l = current /\ u = v THEN 0 ELSE count[l][u]
  <2>1. PICK n \in Int : n = 0
    OBVIOUS
  <2>2. count' = [count EXCEPT ![current][v] = n]
    BY <1>7, <2>1
  <2>3. /\ count' \in [Levels -> [Workers -> Int]]
        /\ \A l \in Levels, u \in Workers :
              count'[l][u] = IF l = current /\ u = v THEN n ELSE count[l][u]
    BY <1>1, <1>6, <2>2
  <2> QED
    BY <2>1, <2>3
<1>9. mode'[w] = m /\ \A u \in Workers \ {w} : mode'[u] = mode[u]
  BY <1>1, <1>7 DEF Enter
<1>10. count[current][v] <= 0
  BY <1>2, <1>7 DEF WorkInv, SearchHolds
<1>11. \A l \in Levels, u \in Workers :
          count'[l][u] = count[l][u] \/ (count[l][u] <= 0 /\ count'[l][u] <= 0)
  BY <1>8, <1>10
<1>12. \A u \in Workers : count[current][u] <= 0 => count'[current][u] <= 0
  BY <1>1, <1>8
<1>13. w < b => /\ v < b
                /\ \A u \in Workers : u \in Passed(w) => count[current][u] <= 0
  BY <1>2, <1>3, <1>7 DEF WorkInv, SearchHolds
<1>14. v < b => next = IF v + 1 = b THEN 0 ELSE v + 1
  <2>1. v \in Nat /\ b \in Nat
    BY <1>6
  <2> QED
    BY <1>4, <2>1
<1>15. /\ victim' \in [Workers -> Workers] /\ pending' \in [Workers -> SUBSET Reactions]
       /\ \A u \in Workers \ {w} : victim'[u] = victim[u] /\ pending'[u] = pending[u]
  <2>1. m = "take" => next \in Workers
    BY <1>5, <1>6, <1>13, <1>14
  <2> QED
    BY <1>1, <1>5, <1>7, <2>1
<1>16. CountsHold'
  <2> SUFFICES ASSUME NEW l \in Levels, NEW u \in Workers, count'[l][u] < 0
               PROVE  l = current /\ \E x \in Workers : mode'[x] = "reset" /\ victim'[x] = u
    BY <1>7 DEF CountsHold
  <2>1. count[l][u] < 0 /\ ~(l = current /\ u = v)
    BY <1>1, <1>8
  <2>2. PICK x \in Workers : l = current /\ mode[x] = "reset" /\ victim[x] = u
    BY <2>1 DEF WorkInv, CountsHold
  <2>3. x # w
    BY <1>2, <2>1, <2>2
  <2> QED
    BY <1>9, <1>15, <2>2, <2>3
<1>17. SearchHolds(w)'
  <2>1. CASE ~(w < b)
    BY <1>3, <1>5, <1>7, <1>9, <2>1 DEF SearchHolds
  <2>2. CASE w < b /\ next # w
    <3>1. m = "take" /\ victim'[w] = next
      BY <1>1, <1>5, <1>7, <2>2
    <3>2. next < b
      BY <1>6, <1>13, <1>14, <2>2
    <3>3. ASSUME NEW u \in Workers, u < b,
                 IF w <= next THEN w <= u /\ u < next ELSE w <= u \/ u < next
          PROVE  u = v \/ u \in Passed(w)
      <4>1. w \in Nat /\ u \in Nat /\ v \in Nat /\ b \in Nat
        BY <1>6
      <4>2. u = v \/ IF w <= v THEN w <= u /\ u < v ELSE w <= u \/ u < v
        BY <1>13, <1>14, <2>2, <3>3, <4>1
      <4> QED
        BY <1>2, <1>3, <3>3, <4>2 DEF Passed
    <3>4. ASSUME NEW u \in Passed(w)' PROVE u \in Workers /\ count'[current][u] <= 0
      <4>1. u \in Workers /\ (u = v \/ u \in Passed(w))
        BY <1>3, <1>7, <3>1, <3>3 DEF Passed
      <4> QED
        BY <1>10, <1>12, <1>13, <2>2, <4>1
    <3> QED
      BY <1>3, <1>7, <1>9, <3>1, <3>2, <3>4 DEF SearchHolds
  <2>3. CASE w < b /\ next = w
    <3>1. m = "lock"
      BY <1>5, <2>3
    <3>2. ASSUME NEW u \in Workers PROVE count'[current][u] <= 0
      <4>1. w \in Nat /\ u \in Nat /\ v \in Nat /\ b \in Nat
        BY <1>6
      <4>2. CASE u < b
        <5>1. u = v \/ IF w <= v THEN w <= u /\ u < v ELSE w <= u \/ u < v
          BY <1>13, <1>14, <2>3, <4>1, <4>2
        <5>2. u = v \/ u \in Passed(w)
          BY <1>2, <1>3, <4>2, <5>1 DEF Passed
        <5> QED
          BY <1>10, <1>12, <1>13, <2>3, <5>2
      <4>3. CASE ~(u < b)
        <5>1. count[current][u] <= 0
          BY <1>1, <1>3, <1>6, <4>1, <4>3, BeyondWorkers
        <5> QED
          BY <1>12, <5>1
      <4> QED
        BY <4>2, <4>3
    <3>3. Emptied'
      BY <1>7, <3>2 DEF Emptied
    <3> QED
      BY <1>9, <3>1, <3>3 DEF SearchHolds
  <2> QED
    BY <2>1, <2>2, <2>3
<1>18. mode[w] \in Busy /\ m \in Busy /\ m \in Modes \ {"store"} /\ mode[w] # "store"
  BY <1>5, <1>7 DEF Busy, Modes, Moving
<1>19. LevelHolds'
  <2>1. Emptied => Emptied'
    BY <1>7, <1>12 DEF Emptied
  <2>2. \A u \in Workers \ {w} : snapshot'[u] = snapshot[u]
    BY <1>7
  <2> QED
    BY <1>7, <1>17, <1>18, <2>1, <2>2, LevelKeeps
<1>20. Holding(w)'
  BY <1>5, <1>7, <1>9 DEF WorkInv, Holding
<1> QED
  BY <1>7, <1>8, <1>11, <1>15, <1>16, <1>17, <1>18, <1>19, <1>20, SearchKeeps

\* A worker is done with the level.  The search of worker 0 has shown that it is empty.
LEMMA FinishKeepsWork ==
    ASSUME WorkersNumbered, LooseInv, WorkInv, NEW w \in Workers, Finish(w)
    PROVE  WorkInv'
<1> USE DEF looseVars, ownVars, levelVars
<1>1. /\ mode[w] = "finish"
      /\ UNCHANGED <<workVars, status, tagVars, queueVars, levelVars, awakened, counter, victim,
                     snapshot, signalled>>
  BY DEF Finish
<1>2. PICK m \in {"advance", "sleep"} : Enter(w, m)
  BY DEF Finish
<1>3. mode \in [Workers -> Modes] /\ victim \in [Workers -> Workers]
  BY DEF LooseInv, LooseTypeOK, WorkInv, TypeOK
<1>4. mode'[w] = m /\ \A v \in Workers \ {w} : mode'[v] = mode[v]
  BY <1>2, <1>3 DEF Enter
<1>5. SearchHolds(w)'
  BY <1>4 DEF SearchHolds
<1>6. LevelHolds'
  <2>1. Emptied => Emptied'
    BY <1>1 DEF Emptied, queueVars
  <2>2. 0 \in Workers /\ 0 < numWorkers[current]
    BY DataFacts DEF WorkInv, TypeOK
  <2>3. mode[w] \in Busy
    BY <1>1 DEF Busy, Modes, Moving
  <2>4. \A u \in Workers : mode[u] \notin {"look", "awaken"}
    BY <2>3, NobodyMoves DEF Moving
  <2>5. CASE w = 0
    BY <1>1, <2>1, <2>2, <2>5 DEF WorkInv, SearchHolds, LevelHolds
  <2>6. CASE w # 0
    <3>1. mode'[0] = mode[0] /\ (OnItsWay(0)' <=> OnItsWay(0))
      BY <1>1, <1>4, <2>2, <2>6 DEF OnItsWay, MustWait
    <3> QED
      BY <2>1, <2>4, <3>1 DEF WorkInv, LevelHolds
  <2> QED
    BY <2>5, <2>6
<1>7. m \in Modes \ {"store", "invoke", "trigger"}
  BY DEF Modes, Moving
<1>8. victim' \in [Workers -> Workers] /\ \A v \in Workers \ {w} : victim'[v] = victim[v]
  BY <1>1, <1>3
<1> QED
  BY <1>1, <1>2, <1>5, <1>6, <1>7, <1>8, WalkKeeps

\* A worker waits, or comes from a wait.
LEMMA WaitSteps ==
    ASSUME WorkersNumbered, ~Spurious, LooseInv, WorkInv, NEW w \in Workers, Sleep(w) \/ WakeUp(w)
    PROVE  WorkInv'
<1> USE DEF looseVars, ownVars, levelVars
<1>1. /\ mode[w] \in {"sleep", "asleep"}
      /\ UNCHANGED <<workVars, status, tagVars, queueVars, levelVars, looseVars, victim, snapshot>>
      /\ \A v \in Workers \ {w} : v \in signalled <=> v \in signalled'
  BY DEF Sleep, WakeUp
<1>2. PICK m \in {"asleep", "after"} :
         Enter(w, m) /\ (m = "asleep" => ~OnItsWay(w))
  <2>1. CASE Sleep(w)
    BY <2>1 DEF Sleep, OnItsWay
  <2>2. CASE WakeUp(w)
    BY <2>2 DEF WakeUp, OnItsWay
  <2> QED
    BY <2>1, <2>2
<1>3. mode \in [Workers -> Modes] /\ victim \in [Workers -> Workers]
  BY DEF LooseInv, LooseTypeOK, WorkInv, TypeOK
<1>4. mode'[w] = m /\ \A v \in Workers \ {w} : mode'[v] = mode[v]
  BY <1>2, <1>3 DEF Enter
<1>5. SearchHolds(w)'
  BY <1>4 DEF SearchHolds
<1>6. LevelHolds'
  <2>1. Emptied => Emptied'
    BY <1>1 DEF Emptied, queueVars
  <2>2. 0 \in Workers
    BY DataFacts
  <2>3. CASE \E u \in Workers : mode[u] \in {"look", "awaken"}
    BY <1>1, <1>4, <2>3 DEF LevelHolds
  <2>4. CASE OnItsWay(0) /\ mode[0] \notin {"lock", "acquire", "check", "finish"}
    <3>1. CASE w = 0
      BY <1>2, <1>4, <2>4, <3>1 DEF LevelHolds, OnItsWay
    <3>2. CASE w # 0
      <4>1. mode'[0] = mode[0] /\ (OnItsWay(0)' <=> OnItsWay(0))
        BY <1>1, <1>4, <2>2, <3>2 DEF OnItsWay, MustWait
      <4> QED
        BY <2>4, <4>1 DEF LevelHolds
    <3> QED
      BY <3>1, <3>2
  <2> QED
    BY <2>1, <2>3, <2>4 DEF WorkInv, LevelHolds
<1>7. m \in Modes \ {"store", "invoke", "trigger"}
  BY DEF Modes, Moving
<1>8. victim' \in [Workers -> Workers] /\ \A v \in Workers \ {w} : victim'[v] = victim[v]
  BY <1>1, <1>3
<1> QED
  BY <1>1, <1>2, <1>5, <1>6, <1>7, <1>8, WalkKeeps

\* Before anybody goes on to another level, all queues of the present one are empty.
LEMMA NothingLeft ==
    ASSUME WorkersNumbered, LooseInv, WorkInv, NEW w \in Workers, mode[w] = "advance"
    PROVE  Emptied
<1>1. ~OnItsWay(0)
  BY DataFacts, OthersWait DEF Moving
<1>2. \A u \in Workers : mode[u] \notin {"look", "awaken"}
  BY DEF LooseInv, MovesAlone, Moving
<1> QED
  BY <1>1, <1>2 DEF WorkInv, LevelHolds

\* What is left at the level is looked at, before workers are awakened for it.
LEMMA LookKeepsWork ==
    ASSUME WorkersNumbered, LooseInv, WorkInv, NEW w \in Workers, Look(w)
    PROVE  WorkInv'
<1>1. /\ mode[w] = "look" /\ UNCHANGED <<workVars, status, tagVars, adaptiveVars>>
      /\ Enter(w, IF SomeReactions THEN "awaken" ELSE "advance")
  BY DEF Look
<1>2. UNCHANGED <<queueVars, levelVars, victim>>
  BY <1>1 DEF adaptiveVars, ownVars
<1>3. mode \in [Workers -> Modes] /\ victim \in [Workers -> Workers]
  BY DEF LooseInv, LooseTypeOK, WorkInv, TypeOK
<1>4. PICK m \in {"awaken", "advance"} : Enter(w, m) /\ (m = "advance" => ~SomeReactions)
  BY <1>1
<1>5. mode'[w] = m
  BY <1>3, <1>4 DEF Enter
<1>6. LevelHolds'
  <2>1. CASE m = "awaken"
    BY <1>5, <2>1 DEF LevelHolds
  <2>2. CASE m = "advance"
    <3>1. ASSUME NEW v \in Workers PROVE count[current][v] <= 0
      <4>1. count[current][v] \in Int /\ v \in Int /\ numWorkers[current] \in Int /\ v >= 0
        BY DataFacts DEF WorkInv, TypeOK
      <4>2. CASE v < numWorkers[current]
        BY <1>4, <2>2, <4>1, <4>2 DEF SomeReactions
      <4>3. CASE v >= numWorkers[current]
        BY <4>3, BeyondWorkers DEF WorkInv, TypeOK
      <4> QED
        BY <4>1, <4>2, <4>3
    <3> QED
      BY <1>2, <3>1 DEF LevelHolds, Emptied, queueVars, levelVars
  <2> QED
    BY <2>1, <2>2
<1>7. SearchHolds(w)'
  BY <1>5 DEF SearchHolds
<1>8. m \in Modes \ {"store", "invoke", "trigger"}
  BY DEF Modes, Moving
<1>9. victim' \in [Workers -> Workers] /\ \A v \in Workers \ {w} : victim'[v] = victim[v]
  BY <1>2, <1>3
<1> QED
  BY <1>1, <1>2, <1>4, <1>6, <1>7, <1>8, <1>9, WalkKeeps

\* Worker 0 is among those awakened, or goes on alone.
LEMMA AwakenSteps ==
    ASSUME WorkersNumbered, LooseInv, WorkInv, NEW w \in Workers, GoOnAlone(w) \/ AwakenWorkers(w)
    PROVE  WorkInv'
<1> USE DEF levelVars, ownVars
<1>1. /\ mode[w] = "awaken" /\ Enter(w, "after")
      /\ UNCHANGED <<workVars, status, tagVars, queueVars, levelVars, victim>>
  BY DEF GoOnAlone, AwakenWorkers
<1>2. mode \in [Workers -> Modes] /\ victim \in [Workers -> Workers]
  BY DEF LooseInv, LooseTypeOK, WorkInv, TypeOK
<1>3. mode'[w] = "after" /\ \A v \in Workers \ {w} : mode'[v] = mode[v]
  BY <1>1, <1>2 DEF Enter
<1>4. OnItsWay(0)'
  <2>1. CASE GoOnAlone(w)
    BY <1>3, <2>1 DEF GoOnAlone, OnItsWay
  <2>2. CASE AwakenWorkers(w)
    <3>1. 0 \in Group(NumToAwaken)
      BY DataFacts DEF Group
    <3> QED
      BY <2>2, <3>1, AwakenKeeps
  <2> QED
    BY <2>1, <2>2
<1>5. LevelHolds'
  <2>1. mode'[0] \in {"after", "sleep", "asleep"}
    BY <1>1, <1>3, DataFacts, OthersWait DEF Moving
  <2> QED
    BY <1>4, <2>1 DEF LevelHolds
<1>6. SearchHolds(w)'
  BY <1>3 DEF SearchHolds
<1>7. victim' \in [Workers -> Workers] /\ \A v \in Workers \ {w} : victim'[v] = victim[v]
  BY <1>1, <1>2
<1>8. "after" \in Modes \ {"store", "invoke", "trigger"}
  BY DEF Modes
<1> QED
  BY <1>1, <1>5, <1>6, <1>7, <1>8, WalkKeeps

\* A worker runs its reaction, or finds one that it is to trigger on its way already.
LEMMA HandStepsKeep ==
    ASSUME WorkersNumbered, LooseInv, WorkInv, NEW w \in Workers,
           (Invoke(w) \/ Lose(w)) /\ UNCHANGED adaptiveVars
    PROVE  WorkInv'
<1>1. /\ UNCHANGED <<running, status, tagVars, slots, storing, levelVars, count, victim, looseVars,
                     signalled, snapshot>>
      /\ mode[w] \in {"invoke", "trigger"}
  BY DEF Invoke, Lose, adaptiveVars, queueVars, ownVars, tagVars
<1>2. /\ mode \in [Workers -> Modes] /\ pending \in [Workers -> SUBSET Reactions]
      /\ count \in [Levels -> [Workers -> Int]] /\ victim \in [Workers -> Workers]
      /\ running \in [Workers -> Reactions \cup {None}] /\ current \in Levels
  BY DEF LooseInv, LooseTypeOK, WorkInv, TypeOK
<1>3. mode' = [mode EXCEPT ![w] = "trigger"]
  BY <1>2 DEF Invoke, Lose, Enter
<1>4. mode'[w] = "trigger" /\ \A v \in Workers \ {w} : mode'[v] = mode[v]
  BY <1>2, <1>3
<1>5. running[w] \in Reactions /\ Level[running[w]] = current
  BY <1>1, <1>2 DEF WorkInv, Holding
<1>6. PICK S : /\ pending' = [pending EXCEPT ![w] = S]
               /\ S \subseteq Reactions /\ \A r \in S : Level[r] > current
  <2>1. CASE Invoke(w)
    <3>1. PICK S \in Effects[running[w]] : pending' = [pending EXCEPT ![w] = S]
      BY <2>1 DEF Invoke
    <3>2. S \subseteq Reactions /\ \A r \in S : Level[running[w]] < Level[r]
      BY <1>5, <3>1, TagWorkersAssumption
    <3>3. \A r \in S : Level[r] > current
      BY <1>2, <1>5, <3>2, TagWorkersAssumption DEF Levels
    <3> QED
      BY <3>1, <3>2, <3>3
  <2>2. CASE Lose(w)
    <3>1. PICK r \in pending[w] : pending' = [pending EXCEPT ![w] = @ \ {r}]
      BY <2>2 DEF Lose
    <3>2. pending' = [pending EXCEPT ![w] = pending[w] \ {r}]
      BY <3>1
    <3>3. pending[w] \subseteq Reactions /\ \A q \in pending[w] : Level[q] > current
      BY <1>2 DEF WorkInv, Holding
    <3> QED
      BY <3>2, <3>3
  <2> QED
    BY <2>1, <2>2
<1>7. /\ pending' \in [Workers -> SUBSET Reactions] /\ pending'[w] = S
      /\ \A v \in Workers \ {w} : pending'[v] = pending[v]
  BY <1>2, <1>6
<1>8. Holding(w)'
  <2>1. UNCHANGED current
    BY <1>1 DEF levelVars
  <2> QED
    BY <1>1, <1>4, <1>6, <1>7, <2>1 DEF WorkInv, Holding
<1>9. SearchHolds(w)'
  BY <1>4 DEF SearchHolds
<1>10. CountsHold'
  <2> SUFFICES ASSUME NEW l \in Levels, NEW v \in Workers, count[l][v] < 0
               PROVE  l = current /\ \E u \in Workers : mode'[u] = "reset" /\ victim[u] = v
    BY <1>1 DEF CountsHold, levelVars
  <2>1. l = current /\ \E u \in Workers : mode[u] = "reset" /\ victim[u] = v
    BY DEF WorkInv, CountsHold
  <2> QED
    BY <1>1, <1>4, <2>1
<1>11. mode[w] \in Busy /\ "trigger" \in Busy /\ "trigger" \in Modes \ {"store"}
  BY <1>1 DEF Busy, Modes, Moving
<1>12. Enter(w, "trigger")
  BY <1>3 DEF Enter
<1>13. LevelHolds'
  <2>1. Emptied => Emptied'
    BY <1>1 DEF Emptied, levelVars
  <2>2. \A v \in Workers \ {w} : snapshot'[v] = snapshot[v]
    BY <1>1
  <2> QED
    BY <1>1, <1>9, <1>11, <1>12, <2>1, <2>2, LevelKeeps
<1> QED
  BY <1>1, <1>2, <1>7, <1>8, <1>9, <1>10, <1>11, <1>12, <1>13, SearchKeeps

\* A slot in use at the present level is filled: what a worker takes out of one is a
\* reaction of that level that nobody else has.
LEMMA SlotsAtLevel ==
    ASSUME WorkersNumbered, WorkInv, NEW v \in Workers, NEW i \in 1 .. count[current][v],
           NEW r, r = slots[current][v][i]
    PROVE  /\ InPlace(current, v, i) /\ i <= Len(slots[current][v])
           /\ r \in Reactions /\ r # None /\ Level[r] = current /\ status[r] = "queued"
           /\ \A u \in Workers : r \notin {running[u], storing[u].reaction}
<1>1. current \in Levels /\ current \in Int
  BY DataFacts DEF WorkInv, TypeOK
<1>2. ASSUME NEW u \in Workers PROVE ~Stores(u, current, v, i)
  BY <1>1 DEF WorkInv, StoringHolds, Stores
<1>3. InPlace(current, v, i)
  BY <1>2 DEF InPlace
<1>4. /\ i <= Len(slots[current][v]) /\ r \in AtLevel(current) /\ status[r] = "queued"
      /\ \A u \in Workers : r \notin {running[u], storing[u].reaction}
  BY <1>1, <1>3 DEF WorkInv, SlotsHold
<1> QED
  BY <1>3, <1>4, TagWorkersAssumption DEF AtLevel

\* Counting down to a reaction takes the last filled slot of the victim.
LEMMA TakeKeepsWork ==
    ASSUME WorkersNumbered, LooseInv, WorkInv, NEW w \in Workers, Take(w),
           count[current][victim[w]] > 0
    PROVE  WorkInv'
<1> USE DEF looseVars, ownVars, levelVars
<1>1. /\ mode \in [Workers -> Modes] /\ count \in [Levels -> [Workers -> Int]]
      /\ slots \in [Levels -> [Workers -> Seq(Reactions \cup {None})]]
      /\ current \in Levels /\ victim \in [Workers -> Workers]
      /\ running \in [Workers -> Reactions \cup {None}]
      /\ numWorkers \in [Levels -> 1 .. MaxNumWorkers]
      /\ storing \in [Workers -> [reaction : Reactions \cup {None}, worker : Workers, at : Nat]]
      /\ Level \in [Reactions -> Levels]
  BY DataFacts DEF LooseInv, LooseTypeOK, WorkInv, TypeOK
<1>2. PICK v \in Workers : v = victim[w]
  BY <1>1
<1>3. PICK n \in Int : n = count[current][v]
  BY <1>1
<1>4. PICK r : r = slots[current][v][n]
  OBVIOUS
<1>5. n > 0 /\ n \in 1 .. count[current][v]
  BY <1>2, <1>3
<1>6. /\ InPlace(current, v, n) /\ n <= Len(slots[current][v])
      /\ r \in Reactions /\ r # None /\ Level[r] = current /\ status[r] = "queued"
      /\ \A u \in Workers : r \notin {running[u], storing[u].reaction}
  BY <1>4, <1>5, SlotsAtLevel
<1>7. PICK t : t = [slots[current][v] EXCEPT ![n] = None]
  OBVIOUS
<1>8. PICK k \in Int : k = n - 1
  OBVIOUS
<1>9. /\ mode[w] = "take" /\ Enter(w, "invoke")
      /\ running' = [running EXCEPT ![w] = r]
      /\ count' = [count EXCEPT ![current][v] = k]
      /\ slots' = [slots EXCEPT ![current][v] = t]
      /\ UNCHANGED <<pending, status, tagVars, storing, levelVars, looseVars, ownVars, signalled>>
  BY <1>2, <1>3, <1>4, <1>5, <1>7, <1>8 DEF Take, Get
<1>10. mode'[w] = "invoke" /\ \A u \in Workers \ {w} : mode'[u] = mode[u]
  BY <1>1, <1>9 DEF Enter
<1>11. \A u \in Workers : running'[u] = IF u = w THEN r ELSE running[u]
  BY <1>1, <1>9
<1>12. \A l \in Levels, u \in Workers :
          count'[l][u] = IF l = current /\ u = v THEN k ELSE count[l][u]
  BY <1>1, <1>9
<1>13. /\ t \in Seq(Reactions \cup {None}) /\ Len(t) = Len(slots[current][v])
       /\ \A i \in 1 .. Len(t) : i # n => t[i] = slots[current][v][i]
  <2>1. PICK s \in Seq(Reactions \cup {None}) : s = slots[current][v]
    BY <1>1
  <2>2. t = [s EXCEPT ![n] = None]
    BY <1>7, <2>1
  <2>a. s \in [1 .. Len(s) -> Reactions \cup {None}] /\ Len(s) \in Nat
    OBVIOUS
  <2>3. t \in [1 .. Len(s) -> Reactions \cup {None}] /\ Len(s) \in Nat
    BY <2>2, <2>a
  <2>4. t \in Seq(Reactions \cup {None}) /\ Len(t) = Len(s)
    BY <2>3
  <2>5. \A i \in 1 .. Len(s) : i # n => t[i] = s[i]
    BY <2>2
  <2> QED
    BY <2>1, <2>4, <2>5
<1>14. \A l \in Levels, u \in Workers :
          slots'[l][u] = IF l = current /\ u = v THEN t ELSE slots[l][u]
  BY <1>1, <1>9
<1>15. TypeOK'
  <2>1. running' \in [Workers -> Reactions \cup {None}] /\ count' \in [Levels -> [Workers -> Int]]
    BY <1>1, <1>6, <1>9
  <2>2. slots' \in [Levels -> [Workers -> Seq(Reactions \cup {None})]]
    BY <1>1, <1>9, <1>13
  <2> QED
    BY <1>9, <2>1, <2>2 DEF WorkInv, TypeOK, tagVars
<1>16. ASSUME NEW u \in Workers, NEW l, NEW x, NEW i PROVE Stores(u, l, x, i)' <=> Stores(u, l, x, i)
  BY <1>9, <1>10 DEF Stores
\* All other slots are as before.
<1>17. ASSUME NEW l \in Levels, NEW u \in Workers, NEW i \in Int
       PROVE  /\ i \in 1 .. count'[l][u] <=>
                    i \in 1 .. count[l][u] /\ ~(l = current /\ u = v /\ i = n)
              /\ InPlace(l, u, i)' <=> InPlace(l, u, i) /\ ~(l = current /\ u = v /\ i = n)
              /\ InPlace(l, u, i)' => slots'[l][u][i] = slots[l][u][i]
              /\ Len(slots'[l][u]) = Len(slots[l][u])
  <2>1. i \in 1 .. count'[l][u] <=> i \in 1 .. count[l][u] /\ ~(l = current /\ u = v /\ i = n)
    <3>1. CASE l = current /\ u = v
      BY <1>3, <1>8, <1>12, <3>1
    <3>2. CASE ~(l = current /\ u = v)
      BY <1>12, <3>2
    <3> QED
      BY <3>1, <3>2
  <2>2. InPlace(l, u, i)' <=> InPlace(l, u, i) /\ ~(l = current /\ u = v /\ i = n)
    BY <1>16, <2>1 DEF InPlace
  <2>3. ASSUME InPlace(l, u, i)' PROVE slots'[l][u][i] = slots[l][u][i]
    <3>1. CASE l = current /\ u = v
      <4>1. i \in 1 .. count[current][v] /\ i # n
        BY <2>1, <2>3, <3>1 DEF InPlace
      <4>2. i <= Len(slots[current][v])
        BY <4>1, SlotsAtLevel
      <4>3. slots'[l][u] = t /\ i \in 1 .. Len(t)
        BY <1>13, <1>14, <3>1, <4>1, <4>2
      <4> QED
        BY <1>13, <3>1, <4>1, <4>3
    <3>2. CASE ~(l = current /\ u = v)
      BY <1>14, <3>2
    <3> QED
      BY <3>1, <3>2
  <2>4. Len(slots'[l][u]) = Len(slots[l][u])
    BY <1>13, <1>14
  <2> QED
    BY <2>1, <2>2, <2>3, <2>4
<1>18. ASSUME NEW l \in Levels, NEW u \in Workers, NEW i \in Int, InPlace(l, u, i)'
       PROVE  InPlace(l, u, i) /\ slots[l][u][i] # r
  <2>1. InPlace(l, u, i) /\ ~(l = current /\ u = v /\ i = n)
    BY <1>17, <1>18
  <2>2. i \in 1 .. count[l][u]
    BY <2>1 DEF InPlace
  <2>3. slots[l][u][i] \in AtLevel(l)
    BY <2>1, <2>2 DEF WorkInv, SlotsHold
  <2>4. slots[l][u][i] = r => l = current
    BY <1>6, <2>3 DEF AtLevel
  <2>5. l = current /\ slots[l][u][i] = r => u = v /\ i = n
    BY <1>1, <1>4, <1>5, <1>6, <2>1, <2>2 DEF WorkInv, SlotsApart
  <2> QED
    BY <2>1, <2>4, <2>5
<1>19. SlotsHold'
  <2> SUFFICES ASSUME NEW l \in Levels, NEW u \in Workers, NEW i \in 1 .. count'[l][u]
               PROVE  /\ l >= current /\ u < numWorkers[l]
                      /\ InPlace(l, u, i)' =>
                            /\ i <= Len(slots'[l][u]) /\ slots'[l][u][i] \in AtLevel(l)
                            /\ status[slots'[l][u][i]] = "queued"
                            /\ \A x \in Workers : slots'[l][u][i] \notin {running'[x], storing[x].reaction}
    BY <1>9 DEF SlotsHold
  <2>1. i \in Int /\ i \in 1 .. count[l][u]
    BY <1>17
  <2>2. l >= current /\ u < numWorkers[l]
    BY <2>1 DEF WorkInv, SlotsHold
  <2>3. ASSUME InPlace(l, u, i)'
        PROVE  /\ i <= Len(slots'[l][u]) /\ slots'[l][u][i] \in AtLevel(l)
               /\ status[slots'[l][u][i]] = "queued"
               /\ \A x \in Workers : slots'[l][u][i] \notin {running'[x], storing[x].reaction}
    <3>1. /\ InPlace(l, u, i) /\ slots'[l][u][i] = slots[l][u][i] /\ slots[l][u][i] # r
          /\ Len(slots'[l][u]) = Len(slots[l][u])
      BY <1>17, <1>18, <2>1, <2>3
    <3>2. /\ i <= Len(slots[l][u]) /\ slots[l][u][i] \in AtLevel(l)
          /\ status[slots[l][u][i]] = "queued"
          /\ \A x \in Workers : slots[l][u][i] \notin {running[x], storing[x].reaction}
      BY <2>1, <3>1 DEF WorkInv, SlotsHold
    <3> QED
      BY <1>11, <3>1, <3>2
  <2> QED
    BY <2>2, <2>3
<1>20. SlotsApart'
  <2> SUFFICES ASSUME NEW l \in Levels, NEW u \in Workers, NEW x \in Workers,
                      NEW i \in 1 .. count'[l][u], NEW j \in 1 .. count'[l][x],
                      InPlace(l, u, i)', InPlace(l, x, j)', slots'[l][u][i] = slots'[l][x][j]
               PROVE  u = x /\ i = j
    BY DEF SlotsApart
  <2>1. i \in Int /\ j \in Int
    OBVIOUS
  <2>2. /\ i \in 1 .. count[l][u] /\ j \in 1 .. count[l][x]
        /\ InPlace(l, u, i) /\ InPlace(l, x, j) /\ slots[l][u][i] = slots[l][x][j]
    BY <1>17, <2>1
  <2> QED
    BY <2>2 DEF WorkInv, SlotsApart
<1>21. QueuedHold'
  <2> SUFFICES ASSUME NEW q \in Reactions, status[q] = "queued",
                      \A u \in Workers : q \notin {running'[u], storing[u].reaction}
               PROVE  \E u \in Workers : \E i \in 1 .. count'[Level[q]][u] :
                         InPlace(Level[q], u, i)' /\ slots'[Level[q]][u][i] = q
    BY <1>9 DEF QueuedHold
  <2>1. q # r /\ \A u \in Workers : u # w => q # running[u]
    BY <1>11
  <2>2. q # running[w]
    BY <1>9, DataFacts DEF WorkInv, Holding
  <2>3. PICK u \in Workers, i \in Int :
           i \in 1 .. count[Level[q]][u] /\ InPlace(Level[q], u, i) /\ slots[Level[q]][u][i] = q
    BY <2>1, <2>2 DEF WorkInv, QueuedHold
  <2>4. ~(Level[q] = current /\ u = v /\ i = n)
    BY <1>4, <2>1, <2>3
  <2>5. Level[q] \in Levels
    BY <1>1
  <2>6. /\ i \in 1 .. count'[Level[q]][u] /\ InPlace(Level[q], u, i)'
        /\ slots'[Level[q]][u][i] = slots[Level[q]][u][i]
    BY <1>17, <2>3, <2>4, <2>5
  <2> QED
    BY <2>3, <2>6
<1>22. CountsHold'
  <2> SUFFICES ASSUME NEW l \in Levels, NEW u \in Workers, count'[l][u] < 0
               PROVE  l = current /\ \E x \in Workers : mode'[x] = "reset" /\ victim[x] = u
    BY <1>9 DEF CountsHold
  <2>1. count[l][u] < 0
    BY <1>5, <1>8, <1>12
  <2>2. PICK x \in Workers : l = current /\ mode[x] = "reset" /\ victim[x] = u
    BY <2>1 DEF WorkInv, CountsHold
  <2>3. x # w
    BY <1>9, <2>2
  <2> QED
    BY <1>10, <2>2, <2>3
<1>23. ASSUME NEW u \in Workers, count[current][u] <= 0 PROVE count'[current][u] <= 0
  <2>1. u # v
    BY <1>3, <1>5, <1>23
  <2>2. count'[current][u] = count[current][u]
    BY <1>1, <1>12, <2>1
  <2> QED
    BY <1>23, <2>2
<1>24. mode[w] \in Busy /\ "invoke" \in Busy
  BY <1>9 DEF Busy, Modes, Moving
<1>25. ASSUME NEW u \in Workers PROVE SearchHolds(u)'
  <2>1. CASE u = w
    BY <1>10, <2>1 DEF SearchHolds
  <2>2. CASE u # w
    <3>1. mode'[u] = mode[u] /\ victim'[u] = victim[u] /\ victim[u] \in Workers
      BY <1>1, <1>9, <1>10, <2>2
    <3>2. Passed(u)' = Passed(u) /\ Passed(u) \subseteq Workers
      BY <1>9 DEF Passed
    <3>3. Emptied => Emptied'
      BY <1>9, <1>23 DEF Emptied
    <3>4. UNCHANGED <<current, numWorkers>>
      BY <1>9
    <3> QED
      BY <1>23, <3>1, <3>2, <3>3, <3>4 DEF WorkInv, SearchHolds
  <2> QED
    BY <2>1, <2>2
<1>26. LevelHolds'
  <2>1. Emptied => Emptied'
    BY <1>9, <1>23 DEF Emptied
  <2>2. \A u \in Workers \ {w} : snapshot'[u] = snapshot[u]
    BY <1>9
  <2> QED
    BY <1>9, <1>24, <1>25, <2>1, <2>2, LevelKeeps
<1>27. ASSUME NEW u \in Workers PROVE Holding(u)'
  <2>1. CASE u = w
    <3>1. pending[w] = {}
      BY <1>9 DEF WorkInv, Holding
    <3> QED
      BY <1>6, <1>9, <1>10, <1>11, <2>1, <3>1 DEF Holding
  <2>2. CASE u # w
    BY <1>9, <1>10, <1>11, <2>2 DEF WorkInv, Holding
  <2> QED
    BY <2>1, <2>2
<1>28. ASSUME NEW u \in Workers PROVE StoringHolds(u)'
  <2>1. CASE mode[u] # "store"
    BY <1>9, <1>10, <2>1 DEF WorkInv, StoringHolds
  <2>2. CASE mode[u] = "store"
    <3>1. PICK q \in Reactions : q = storing[u].reaction
      BY <1>1, <2>2 DEF WorkInv, StoringHolds
    <3>2. PICK x \in Workers : x = storing[u].worker
      BY <1>1
    <3>3. /\ q # None /\ status[q] = "queued" /\ Level[q] > current
          /\ x < numWorkers[Level[q]] /\ storing[u].at \in 1 .. count[Level[q]][x]
          /\ \A y \in Workers \ {u} : ~Stores(y, Level[q], x, storing[u].at)
      BY <2>2, <3>1, <3>2 DEF WorkInv, StoringHolds
    <3>4. Level[q] \in Levels /\ Level[q] # current
      BY <1>1, <3>1, <3>3, DataFacts
    <3>5. count'[Level[q]][x] = count[Level[q]][x]
      BY <1>12, <3>4
    <3>6. mode'[u] = "store"
      BY <1>9, <1>10, <2>2
    <3> QED
      BY <1>9, <1>16, <3>1, <3>2, <3>3, <3>5, <3>6 DEF StoringHolds
  <2> QED
    BY <2>1, <2>2
<1>29. ASSUME NEW u \in Workers, NEW x \in Workers PROVE Apart(u, x)'
  BY <1>6, <1>9, <1>11 DEF WorkInv, Apart
<1> QED
  BY <1>15, <1>19, <1>20, <1>21, <1>22, <1>25, <1>26, <1>27, <1>28, <1>29 DEF WorkInv

\* A slot above the present level is claimed for a reaction that was in none.
LEMMA ClaimKeepsWork ==
    ASSUME WorkersNumbered, ProgramFits, LooseInv, WorkInv, NEW w \in Workers, ClaimSlot(w)
    PROVE  WorkInv'
<1> USE DEF looseVars, ownVars, levelVars
<1>1. /\ mode \in [Workers -> Modes] /\ count \in [Levels -> [Workers -> Int]]
      /\ status \in [Reactions -> {"inactive", "queued"}]
      /\ current \in Levels /\ pending \in [Workers -> SUBSET Reactions]
      /\ running \in [Workers -> Reactions \cup {None}]
      /\ numWorkers \in [Levels -> 1 .. MaxNumWorkers]
      /\ storing \in [Workers -> [reaction : Reactions \cup {None}, worker : Workers, at : Nat]]
      /\ Level \in [Reactions -> Levels]
  BY DataFacts DEF LooseInv, LooseTypeOK, WorkInv, TypeOK
<1>2. PICK r \in pending[w] :
         /\ Win(w, r)
         /\ count' = [count EXCEPT ![Level[r]][Hash[r] % numWorkers[Level[r]]] = @ + 1]
         /\ storing' = [storing EXCEPT ![w] =
               [reaction |-> r, worker |-> Hash[r] % numWorkers[Level[r]],
                at |-> count'[Level[r]][Hash[r] % numWorkers[Level[r]]]]]
  BY DEF ClaimSlot
<1>3. /\ mode[w] = "trigger" /\ r \in Reactions /\ r # None /\ status[r] = "inactive"
      /\ Level[r] > current /\ Level[r] \in Levels
  BY <1>1, <1>2, DataFacts DEF Win, Wins, WorkInv, Holding
<1>4. PICK l \in Levels : l = Level[r]
  BY <1>3
<1>5. PICK v : v = Hash[r] % numWorkers[l]
  OBVIOUS
<1>6. v \in Workers /\ v < numWorkers[l]
  <2>1. Hash[r] \in Nat /\ numWorkers[l] \in 1 .. MaxNumWorkers
    BY <1>1, <1>3 DEF ProgramFits
  <2>2. v \in 0 .. numWorkers[l] - 1
    BY <1>5, <2>1, DataFacts
  <2> QED
    BY <2>1, <2>2, DataFacts
<1>7. PICK k \in Int : k = count[l][v] + 1
  BY <1>1, <1>6
<1>8. /\ count' = [count EXCEPT ![l][v] = k]
      /\ \A x \in Levels, u \in Workers :
            count'[x][u] = IF x = l /\ u = v THEN k ELSE count[x][u]
      /\ count' \in [Levels -> [Workers -> Int]]
  <2>1. count' = [count EXCEPT ![l][v] = count[l][v] + 1]
    BY <1>1, <1>2, <1>4, <1>5, <1>6
  <2>2. count' = [count EXCEPT ![l][v] = k]
    BY <1>7, <2>1
  <2> QED
    BY <1>1, <1>6, <2>2
<1>9. count[l][v] >= 0 /\ k >= 1 /\ k \in Nat
  <2>1. ~(count[l][v] < 0)
    BY <1>1, <1>3, <1>4, <1>6, DataFacts DEF WorkInv, CountsHold
  <2> QED
    BY <1>1, <1>6, <1>7, <2>1
<1>10. PICK rec : rec = [reaction |-> r, worker |-> v, at |-> k]
  OBVIOUS
<1>11. /\ rec \in [reaction : Reactions \cup {None}, worker : Workers, at : Nat]
       /\ rec.reaction = r /\ rec.worker = v /\ rec.at = k
  BY <1>3, <1>6, <1>9, <1>10
<1>12. storing' = [storing EXCEPT ![w] = rec]
  <2>1. count'[l][v] = k
    BY <1>6, <1>8
  <2> QED
    BY <1>2, <1>4, <1>5, <1>10, <2>1
<1>13. /\ Enter(w, "store") /\ status' = [status EXCEPT ![r] = "queued"]
       /\ pending' = [pending EXCEPT ![w] = pending[w] \ {r}]
       /\ UNCHANGED <<running, tagVars, slots, levelVars, looseVars, ownVars, signalled>>
  BY <1>2 DEF ClaimSlot, Win
<1>14. mode'[w] = "store" /\ \A u \in Workers \ {w} : mode'[u] = mode[u]
  BY <1>1, <1>13 DEF Enter
<1>15. /\ storing'[w] = rec /\ \A u \in Workers \ {w} : storing'[u] = storing[u]
       /\ storing' \in [Workers -> [reaction : Reactions \cup {None}, worker : Workers, at : Nat]]
  BY <1>1, <1>11, <1>12
<1>16. \A q \in Reactions : status'[q] = IF q = r THEN "queued" ELSE status[q]
  BY <1>1, <1>3, <1>13
<1>17. /\ pending' \in [Workers -> SUBSET Reactions] /\ pending'[w] = pending[w] \ {r}
       /\ \A u \in Workers \ {w} : pending'[u] = pending[u]
  BY <1>1, <1>13
<1>18. TypeOK'
  <2>1. status' \in [Reactions -> {"inactive", "queued"}]
    BY <1>1, <1>3, <1>13
  <2> QED
    BY <1>8, <1>13, <1>15, <1>17, <2>1 DEF WorkInv, TypeOK, tagVars
<1>19. ASSUME NEW u \in Workers, NEW x, NEW y, NEW i
       PROVE  Stores(u, x, y, i)' <=> Stores(u, x, y, i) \/ (u = w /\ x = l /\ y = v /\ i = k)
  <2>1. CASE u = w
    BY <1>3, <1>4, <1>11, <1>14, <1>15, <2>1 DEF Stores
  <2>2. CASE u # w
    BY <1>14, <1>15, <2>2 DEF Stores
  <2> QED
    BY <2>1, <2>2
<1>20. ASSUME NEW x \in Levels, NEW u \in Workers, NEW i \in Int
       PROVE  /\ i \in 1 .. count'[x][u] <=> i \in 1 .. count[x][u] \/ (x = l /\ u = v /\ i = k)
              /\ i \in 1 .. count[x][u] => ~(x = l /\ u = v /\ i = k)
              /\ InPlace(x, u, i)' <=> InPlace(x, u, i)
  <2>1. i \in 1 .. count'[x][u] <=> i \in 1 .. count[x][u] \/ (x = l /\ u = v /\ i = k)
    <3>1. CASE x = l /\ u = v
      <4>1. count'[x][u] = k /\ k = count[x][u] + 1
        BY <1>7, <1>8, <3>1
      <4>2. count[x][u] \in Int /\ count[x][u] >= 0
        BY <1>1, <1>9, <3>1
      <4>3. \A c \in Int : c >= 0 /\ k = c + 1 => (i \in 1 .. k <=> i \in 1 .. c \/ i = k)
        OBVIOUS
      <4> QED
        BY <3>1, <4>1, <4>2, <4>3
    <3>2. CASE ~(x = l /\ u = v)
      BY <1>8, <3>2
    <3> QED
      BY <3>1, <3>2
  <2>2. i \in 1 .. count[x][u] => ~(x = l /\ u = v /\ i = k)
    BY <1>1, <1>6, <1>7
  <2>3. InPlace(x, u, i)' <=> InPlace(x, u, i)
    BY <1>19, <2>1, <2>2 DEF InPlace
  <2> QED
    BY <2>1, <2>2, <2>3
<1>21. SlotsHold'
  <2> SUFFICES ASSUME NEW x \in Levels, NEW u \in Workers, NEW i \in 1 .. count'[x][u]
               PROVE  /\ x >= current /\ u < numWorkers[x]
                      /\ InPlace(x, u, i)' =>
                            /\ i <= Len(slots[x][u]) /\ slots[x][u][i] \in AtLevel(x)
                            /\ status'[slots[x][u][i]] = "queued"
                            /\ \A y \in Workers : slots[x][u][i] \notin {running[y], storing'[y].reaction}
    BY <1>13 DEF SlotsHold
  <2>1. i \in Int /\ (i \in 1 .. count[x][u] \/ (x = l /\ u = v))
    BY <1>20
  <2>2. x >= current /\ u < numWorkers[x]
    <3>1. CASE i \in 1 .. count[x][u]
      BY <3>1 DEF WorkInv, SlotsHold
    <3>2. CASE x = l /\ u = v
      <4>1. current \in Int /\ l \in Int /\ l > current
        BY <1>1, <1>3, <1>4, DataFacts
      <4> QED
        BY <1>6, <3>2, <4>1
    <3> QED
      BY <2>1, <3>1, <3>2
  <2>3. ASSUME InPlace(x, u, i)'
        PROVE  /\ i <= Len(slots[x][u]) /\ slots[x][u][i] \in AtLevel(x)
               /\ status'[slots[x][u][i]] = "queued"
               /\ \A y \in Workers : slots[x][u][i] \notin {running[y], storing'[y].reaction}
    <3>1. InPlace(x, u, i) /\ i \in 1 .. count[x][u]
      BY <1>20, <2>1, <2>3 DEF InPlace
    <3>2. /\ i <= Len(slots[x][u]) /\ slots[x][u][i] \in AtLevel(x)
          /\ status[slots[x][u][i]] = "queued"
          /\ \A y \in Workers : slots[x][u][i] \notin {running[y], storing[y].reaction}
      BY <3>1 DEF WorkInv, SlotsHold
    <3>3. slots[x][u][i] # r /\ slots[x][u][i] \in Reactions
      BY <1>3, <3>2 DEF AtLevel
    <3> QED
      BY <1>11, <1>15, <1>16, <3>2, <3>3
  <2> QED
    BY <2>2, <2>3
<1>22. SlotsApart'
  <2> SUFFICES ASSUME NEW x \in Levels, NEW u \in Workers, NEW y \in Workers,
                      NEW i \in 1 .. count'[x][u], NEW j \in 1 .. count'[x][y],
                      InPlace(x, u, i)', InPlace(x, y, j)', slots[x][u][i] = slots[x][y][j]
               PROVE  u = y /\ i = j
    BY <1>13 DEF SlotsApart
  <2>1. i \in Int /\ j \in Int
    OBVIOUS
  <2>2. InPlace(x, u, i) /\ InPlace(x, y, j)
    BY <1>20, <2>1
  <2>3. i \in 1 .. count[x][u] /\ j \in 1 .. count[x][y]
    BY <2>2 DEF InPlace
  <2> QED
    BY <2>2, <2>3 DEF WorkInv, SlotsApart
<1>23. storing[w].reaction = None
  BY <1>3 DEF WorkInv, StoringHolds
<1>24. QueuedHold'
  <2> SUFFICES ASSUME NEW q \in Reactions, status'[q] = "queued",
                      \A u \in Workers : q \notin {running[u], storing'[u].reaction}
               PROVE  \E u \in Workers : \E i \in 1 .. count'[Level[q]][u] :
                         InPlace(Level[q], u, i)' /\ slots[Level[q]][u][i] = q
    BY <1>13 DEF QueuedHold
  <2>1. q # r /\ q # None
    BY <1>11, <1>15, DataFacts
  <2>2. status[q] = "queued" /\ \A u \in Workers : q \notin {running[u], storing[u].reaction}
    BY <1>15, <1>16, <1>23, <2>1
  <2>3. PICK u \in Workers, i \in Int :
           i \in 1 .. count[Level[q]][u] /\ InPlace(Level[q], u, i) /\ slots[Level[q]][u][i] = q
    BY <2>2 DEF WorkInv, QueuedHold
  <2>4. Level[q] \in Levels
    BY <1>1
  <2>5. i \in 1 .. count'[Level[q]][u] /\ InPlace(Level[q], u, i)'
    BY <1>20, <2>3, <2>4
  <2> QED
    BY <2>3, <2>5
<1>25. CountsHold'
  <2> SUFFICES ASSUME NEW x \in Levels, NEW u \in Workers, count'[x][u] < 0
               PROVE  x = current /\ \E y \in Workers : mode'[y] = "reset" /\ victim[y] = u
    BY <1>13 DEF CountsHold
  <2>1. count[x][u] < 0
    BY <1>8, <1>9
  <2>2. PICK y \in Workers : x = current /\ mode[y] = "reset" /\ victim[y] = u
    BY <2>1 DEF WorkInv, CountsHold
  <2>3. y # w
    BY <1>3, <2>2
  <2> QED
    BY <1>14, <2>2, <2>3
<1>26. \A u \in Workers : count'[current][u] = count[current][u]
  <2>1. l # current /\ current \in Levels
    BY <1>1, <1>3, <1>4, DataFacts
  <2> QED
    BY <1>8, <2>1
<1>27. mode[w] \in Busy /\ "store" \in Busy
  BY <1>3 DEF Busy, Modes, Moving
<1>28. ASSUME NEW u \in Workers PROVE SearchHolds(u)'
  <2>1. CASE u = w
    BY <1>14, <2>1 DEF SearchHolds
  <2>2. CASE u # w
    <3>1. mode'[u] = mode[u] /\ victim'[u] = victim[u] /\ victim[u] \in Workers
      BY <1>13, <1>14, <2>2 DEF WorkInv, TypeOK
    <3>2. Passed(u)' = Passed(u) /\ Passed(u) \subseteq Workers
      BY <1>13 DEF Passed
    <3>3. Emptied => Emptied'
      BY <1>13, <1>26 DEF Emptied
    <3>4. UNCHANGED <<current, numWorkers>>
      BY <1>13
    <3> QED
      BY <1>26, <3>1, <3>2, <3>3, <3>4 DEF WorkInv, SearchHolds
  <2> QED
    BY <2>1, <2>2
<1>29. LevelHolds'
  <2>1. Emptied => Emptied'
    BY <1>13, <1>26 DEF Emptied
  <2>2. \A u \in Workers \ {w} : snapshot'[u] = snapshot[u]
    BY <1>13
  <2> QED
    BY <1>13, <1>27, <1>28, <2>1, <2>2, LevelKeeps
<1>30. ASSUME NEW u \in Workers PROVE Holding(u)'
  <2>1. CASE u = w
    BY <1>3, <1>13, <1>14, <1>16, <1>17, <2>1, <1>1 DEF WorkInv, Holding
  <2>2. CASE u # w
    BY <1>1, <1>13, <1>14, <1>16, <1>17, <2>2 DEF WorkInv, Holding
  <2> QED
    BY <2>1, <2>2
<1>31. ASSUME NEW u \in Workers PROVE StoringHolds(u)'
  <2>1. CASE u = w
    <3>1. \A y \in Workers \ {w} : ~Stores(y, l, v, k)
      <4>1. SUFFICES ASSUME NEW y \in Workers, Stores(y, l, v, k) PROVE FALSE
        OBVIOUS
      <4>2. k \in 1 .. count[l][v]
        BY <4>1 DEF WorkInv, StoringHolds, Stores
      <4> QED
        BY <1>6, <1>20, <4>2
    <3>2. \A y \in Workers \ {w} : ~Stores(y, l, v, k)'
      BY <1>19, <3>1
    <3>3. k \in 1 .. count'[l][v]
      BY <1>6, <1>8, <1>9
    <3> QED
      BY <1>3, <1>4, <1>6, <1>11, <1>13, <1>14, <1>15, <1>16, <2>1, <3>2, <3>3 DEF StoringHolds
  <2>2. CASE u # w /\ mode[u] # "store"
    BY <1>14, <1>15, <2>2 DEF WorkInv, StoringHolds
  <2>3. CASE u # w /\ mode[u] = "store"
    <3>1. PICK q \in Reactions : q = storing[u].reaction
      BY <1>1, <2>3 DEF WorkInv, StoringHolds
    <3>2. PICK x \in Workers : x = storing[u].worker
      BY <1>1
    <3>3. PICK i \in Nat : i = storing[u].at
      BY <1>1
    <3>4. /\ q # None /\ status[q] = "queued" /\ Level[q] > current
          /\ x < numWorkers[Level[q]] /\ i \in 1 .. count[Level[q]][x]
          /\ \A y \in Workers \ {u} : ~Stores(y, Level[q], x, i)
      BY <2>3, <3>1, <3>2, <3>3 DEF WorkInv, StoringHolds
    <3>5. Level[q] \in Levels /\ i \in Int
      BY <1>1, <3>1
    <3>6. i \in 1 .. count'[Level[q]][x] /\ ~(Level[q] = l /\ x = v /\ i = k)
      BY <1>20, <3>4, <3>5
    <3>7. \A y \in Workers \ {u} : ~Stores(y, Level[q], x, i)'
      BY <1>19, <3>4, <3>6
    <3>8. mode'[u] = "store" /\ storing'[u] = storing[u] /\ status'[q] = "queued"
      BY <1>14, <1>15, <1>16, <2>3, <3>4
    <3> QED
      BY <1>13, <3>1, <3>2, <3>3, <3>4, <3>6, <3>7, <3>8 DEF StoringHolds
  <2> QED
    BY <2>1, <2>2, <2>3
<1>32. ASSUME NEW u \in Workers PROVE storing[u].reaction # r
  <2>1. storing[u].reaction # None => status[storing[u].reaction] = "queued"
    BY DEF WorkInv, StoringHolds
  <2> QED
    BY <1>3, <2>1
<1>33. ASSUME NEW u \in Workers, NEW x \in Workers PROVE Apart(u, x)'
  BY <1>11, <1>13, <1>15, <1>32 DEF WorkInv, Apart
<1> QED
  BY <1>18, <1>21, <1>22, <1>24, <1>25, <1>28, <1>29, <1>30, <1>31, <1>33 DEF WorkInv

\* The slot that was claimed is filled.
LEMMA StoreKeepsWork ==
    ASSUME WorkersNumbered, LooseInv, WorkInv, NEW w \in Workers, StoreReaction(w)
    PROVE  WorkInv'
<1> USE DEF looseVars, ownVars, levelVars, workVars
<1>1. /\ mode \in [Workers -> Modes] /\ count \in [Levels -> [Workers -> Int]]
      /\ slots \in [Levels -> [Workers -> Seq(Reactions \cup {None})]]
      /\ current \in Levels /\ victim \in [Workers -> Workers]
      /\ numWorkers \in [Levels -> 1 .. MaxNumWorkers]
      /\ storing \in [Workers -> [reaction : Reactions \cup {None}, worker : Workers, at : Nat]]
      /\ Level \in [Reactions -> Levels] /\ 0 \in Workers /\ None \notin Reactions
  BY DataFacts DEF LooseInv, LooseTypeOK, WorkInv, TypeOK
<1>2. PICK r : r = storing[w].reaction
  OBVIOUS
<1>3. PICK v \in Workers : v = storing[w].worker
  BY <1>1
<1>4. PICK k \in Nat : k = storing[w].at
  BY <1>1
<1>5. PICK l : l = Level[r]
  OBVIOUS
<1>6. mode[w] = "store" /\ Stores(w, l, v, k)
  BY <1>2, <1>3, <1>4, <1>5 DEF StoreReaction, Stores
<1>7. /\ r \in Reactions /\ r # None /\ l \in Levels
      /\ status[r] = "queued" /\ l > current /\ v < numWorkers[l]
      /\ k \in 1 .. count[l][v] /\ \A u \in Workers \ {w} : ~Stores(u, l, v, k)
  <2>1. StoringHolds(w) /\ storing[w].reaction \in Reactions \cup {None}
    BY <1>1 DEF WorkInv
  <2>2. /\ r # None /\ status[r] = "queued" /\ l > current /\ v < numWorkers[l]
        /\ k \in 1 .. count[l][v] /\ \A u \in Workers \ {w} : ~Stores(u, l, v, k)
    BY <1>2, <1>3, <1>4, <1>5, <1>6, <2>1 DEF StoringHolds
  <2> QED
    BY <1>1, <1>2, <1>5, <2>1, <2>2
<1>8. PICK t : t = Filled(slots[l][v], k, r)
  OBVIOUS
<1>9. /\ slots[l][v] \in Seq(Reactions \cup {None})
      /\ t \in Seq(Reactions \cup {None}) /\ k <= Len(t) /\ Len(slots[l][v]) <= Len(t) /\ t[k] = r
      /\ \A j \in 1 .. Len(slots[l][v]) : j # k => t[j] = slots[l][v][j]
  <2>1. PICK S : S = Reactions \cup {None}
    OBVIOUS
  <2>2. PICK s : s = slots[l][v]
    OBVIOUS
  <2>3. s \in Seq(S) /\ None \in S /\ r \in S
    BY <1>1, <1>7, <2>1, <2>2
  <2>4. count[l][v] \in Int
    <3>1. l \in Levels
      BY <1>7
    <3>2. count \in [Levels -> [Workers -> Int]]
      BY <1>1
    <3>3. count[l] \in [Workers -> Int]
      BY <3>1, <3>2, Zenon
    <3> QED
      BY <3>3, Zenon
  <2>5. k \in Nat \ {0}
    BY <1>7, <2>4
  <2>6. t = Filled(s, k, r)
    BY <1>8, <2>2
  <2>7. /\ t \in Seq(S) /\ k <= Len(t) /\ Len(s) <= Len(t) /\ t[k] = r
        /\ \A j \in 1 .. Len(s) : j # k => t[j] = s[j]
    BY <2>3, <2>5, <2>6, FilledSlots
  <2> QED
    BY <2>1, <2>2, <2>3, <2>7
<1>10. /\ slots' = [slots EXCEPT ![l][v] = t]
       /\ storing' = [storing EXCEPT ![w] = Nothing]
       /\ Enter(w, "trigger")
       /\ UNCHANGED <<running, pending, status, tagVars, count, levelVars, looseVars, ownVars, signalled>>
  <2>1. slots' = [slots EXCEPT ![l][v] = Filled(slots[l][v], k, r)]
    BY <1>1, <1>2, <1>3, <1>4, <1>5, <1>7 DEF StoreReaction
  <2> QED
    BY <1>8, <2>1 DEF StoreReaction
<1>11. mode'[w] = "trigger" /\ \A u \in Workers \ {w} : mode'[u] = mode[u]
  BY <1>1, <1>10 DEF Enter
<1>12. /\ slots' \in [Levels -> [Workers -> Seq(Reactions \cup {None})]]
       /\ \A x \in Levels, u \in Workers :
             slots'[x][u] = IF x = l /\ u = v THEN t ELSE slots[x][u]
  BY <1>1, <1>7, <1>9, <1>10
<1>13. /\ storing' \in [Workers -> [reaction : Reactions \cup {None}, worker : Workers, at : Nat]]
       /\ storing'[w].reaction = None /\ \A u \in Workers \ {w} : storing'[u] = storing[u]
  <2>1. /\ Nothing \in [reaction : Reactions \cup {None}, worker : Workers, at : Nat]
        /\ Nothing.reaction = None
    BY <1>1 DEF Nothing
  <2> QED
    BY <1>1, <1>10, <2>1
<1>14. TypeOK'
  BY <1>10, <1>12, <1>13 DEF WorkInv, TypeOK, tagVars
<1>15. ASSUME NEW u \in Workers, NEW x, NEW y, NEW i
       PROVE  Stores(u, x, y, i)' <=> Stores(u, x, y, i) /\ u # w
  <2>1. CASE u = w
    BY <1>11, <2>1 DEF Stores
  <2>2. CASE u # w
    BY <1>11, <1>13, <2>2 DEF Stores
  <2> QED
    BY <2>1, <2>2
<1>16. ASSUME NEW x \in Levels, NEW u \in Workers, NEW i
       PROVE  InPlace(x, u, i)' <=> InPlace(x, u, i) \/ (x = l /\ u = v /\ i = k)
  <2>1. CASE x = l /\ u = v /\ i = k
    <3>1. \A y \in Workers : ~Stores(y, x, u, i)'
      BY <1>7, <1>15, <2>1
    <3> QED
      BY <1>7, <1>10, <2>1, <3>1 DEF InPlace
  <2>2. CASE ~(x = l /\ u = v /\ i = k)
    <3>1. ~Stores(w, x, u, i)
      BY <1>2, <1>3, <1>4, <1>5, <2>2 DEF Stores
    <3>2. \A y \in Workers : Stores(y, x, u, i)' <=> Stores(y, x, u, i)
      BY <1>15, <3>1
    <3> QED
      BY <1>10, <2>2, <3>2 DEF InPlace
  <2> QED
    BY <2>1, <2>2
<1>17. slots'[l][v][k] = r /\ k <= Len(slots'[l][v])
  BY <1>7, <1>9, <1>12
\* The others are as before, and r is in none of them.
<1>18. ASSUME NEW x \in Levels, NEW u \in Workers, NEW i, InPlace(x, u, i)
       PROVE  /\ i \in 1 .. count[x][u] /\ i <= Len(slots'[x][u])
              /\ slots'[x][u][i] = slots[x][u][i] /\ slots[x][u][i] # r
              /\ slots[x][u][i] \in AtLevel(x) /\ status[slots[x][u][i]] = "queued"
              /\ \A y \in Workers : slots[x][u][i] \notin {running[y], storing[y].reaction}
  <2>1. i \in 1 .. count[x][u] /\ i \in Int /\ i >= 1
    <3>1. i \in 1 .. count[x][u]
      BY <1>18 DEF InPlace
    <3> QED
      BY <3>1
  <2>2. /\ i <= Len(slots[x][u])
        /\ slots[x][u][i] \in AtLevel(x) /\ status[slots[x][u][i]] = "queued"
        /\ \A y \in Workers : slots[x][u][i] \notin {running[y], storing[y].reaction}
    BY <1>18, <2>1 DEF WorkInv, SlotsHold
  <2>3. slots[x][u][i] # r
    BY <1>2, <2>2
  <2>4. CASE x = l /\ u = v
    <3>1. i # k
      BY <1>6, <1>18, <2>4 DEF InPlace
    <3>a. PICK s \in Seq(Reactions \cup {None}) : s = slots[l][v]
      BY <1>9
    <3>b. Len(s) \in Nat /\ i <= Len(s)
      BY <2>2, <2>4, <3>a
    <3>c. i \in 1 .. Len(s)
      BY <2>1, <3>b
    <3>d. Len(t) \in Nat
      BY <1>9
    <3>2. Len(slots[l][v]) \in Nat /\ Len(t) \in Nat /\ i \in 1 .. Len(slots[l][v])
      BY <3>a, <3>b, <3>c, <3>d
    <3>3. slots'[x][u][i] = slots[x][u][i] /\ i <= Len(t)
      BY <1>9, <1>12, <2>4, <3>1, <3>2
    <3> QED
      BY <1>12, <2>1, <2>2, <2>3, <2>4, <3>3
  <2>5. CASE ~(x = l /\ u = v)
    BY <1>12, <2>1, <2>2, <2>3, <2>5
  <2> QED
    BY <2>4, <2>5
<1>19. ASSUME NEW y \in Workers PROVE r # running[y] /\ r # storing'[y].reaction
  <2>1. running[y] # None => Level[running[y]] = current
    BY DEF WorkInv, Holding
  <2>2. l # current
    BY <1>1, <1>7, DataFacts
  <2>3. y # w => r # storing[y].reaction
    BY <1>2, <1>7 DEF WorkInv, Apart
  <2> QED
    BY <1>5, <1>7, <1>13, <2>1, <2>2, <2>3
<1>20. SlotsHold'
  <2> SUFFICES ASSUME NEW x \in Levels, NEW u \in Workers, NEW i \in 1 .. count[x][u]
               PROVE  /\ x >= current /\ u < numWorkers[x]
                      /\ InPlace(x, u, i)' =>
                            /\ i <= Len(slots'[x][u]) /\ slots'[x][u][i] \in AtLevel(x)
                            /\ status[slots'[x][u][i]] = "queued"
                            /\ \A y \in Workers : slots'[x][u][i] \notin {running[y], storing'[y].reaction}
    BY <1>10 DEF SlotsHold
  <2>1. x >= current /\ u < numWorkers[x]
    BY DEF WorkInv, SlotsHold
  <2>2. CASE InPlace(x, u, i)
    <3>1. /\ i <= Len(slots'[x][u]) /\ slots'[x][u][i] = slots[x][u][i]
          /\ slots[x][u][i] \in AtLevel(x) /\ status[slots[x][u][i]] = "queued"
          /\ \A y \in Workers : slots[x][u][i] \notin {running[y], storing[y].reaction}
      BY <1>18, <2>2
    <3>2. slots[x][u][i] # None
      BY <1>1, <3>1 DEF AtLevel
    <3>3. \A y \in Workers : slots[x][u][i] \notin {running[y], storing'[y].reaction}
      BY <1>13, <3>1, <3>2
    <3> QED
      BY <2>1, <3>1, <3>3
  <2>3. CASE x = l /\ u = v /\ i = k
    BY <1>5, <1>7, <1>17, <1>19, <2>1, <2>3 DEF AtLevel
  <2> QED
    BY <1>16, <2>1, <2>2, <2>3
<1>21. SlotsApart'
  <2> SUFFICES ASSUME NEW x \in Levels, NEW u \in Workers, NEW y \in Workers,
                      NEW i \in 1 .. count[x][u], NEW j \in 1 .. count[x][y],
                      InPlace(x, u, i)', InPlace(x, y, j)', slots'[x][u][i] = slots'[x][y][j]
               PROVE  u = y /\ i = j
    BY <1>10 DEF SlotsApart
  <2>1. CASE slots'[x][u][i] = r
    <3>1. ~InPlace(x, u, i)
      BY <1>18, <2>1
    <3>2. ~InPlace(x, y, j)
      <4>1. slots'[x][y][j] = r
        BY <2>1
      <4> QED
        BY <1>18, <4>1
    <3> QED
      BY <1>16, <3>1, <3>2
  <2>2. CASE slots'[x][u][i] # r
    <3>1. InPlace(x, u, i) /\ InPlace(x, y, j)
      BY <1>16, <1>17, <2>2
    <3>2. slots[x][u][i] = slots[x][y][j]
      BY <1>18, <3>1
    <3> QED
      BY <3>1, <3>2 DEF WorkInv, SlotsApart
  <2> QED
    BY <2>1, <2>2
<1>22. QueuedHold'
  <2> SUFFICES ASSUME NEW q \in Reactions, status[q] = "queued",
                      \A u \in Workers : q \notin {running[u], storing'[u].reaction}
               PROVE  \E u \in Workers : \E i \in 1 .. count[Level[q]][u] :
                         InPlace(Level[q], u, i)' /\ slots'[Level[q]][u][i] = q
    BY <1>10 DEF QueuedHold
  <2>1. CASE q = r
    BY <1>5, <1>7, <1>16, <1>17, <2>1
  <2>2. CASE q # r
    <3>1. \A u \in Workers : q \notin {running[u], storing[u].reaction}
      BY <1>2, <1>13, <2>2
    <3>2. PICK u \in Workers, i \in Int :
             i \in 1 .. count[Level[q]][u] /\ InPlace(Level[q], u, i) /\ slots[Level[q]][u][i] = q
      BY <3>1 DEF WorkInv, QueuedHold
    <3>3. Level[q] \in Levels
      BY <1>1
    <3>4. InPlace(Level[q], u, i)' /\ slots'[Level[q]][u][i] = q
      BY <1>16, <1>18, <3>2, <3>3
    <3> QED
      BY <3>2, <3>4
  <2> QED
    BY <2>1, <2>2
<1>23. CountsHold'
  <2> SUFFICES ASSUME NEW x \in Levels, NEW u \in Workers, count[x][u] < 0
               PROVE  x = current /\ \E y \in Workers : mode'[y] = "reset" /\ victim[y] = u
    BY <1>10 DEF CountsHold
  <2>1. PICK y \in Workers : x = current /\ mode[y] = "reset" /\ victim[y] = u
    BY DEF WorkInv, CountsHold
  <2>2. y # w
    BY <1>6, <2>1
  <2> QED
    BY <1>11, <2>1, <2>2
<1>24. mode[w] \in Busy /\ "trigger" \in Busy
  BY <1>6 DEF Busy, Modes, Moving
<1>25. ASSUME NEW u \in Workers PROVE SearchHolds(u)'
  <2>1. CASE u = w
    BY <1>11, <2>1 DEF SearchHolds
  <2>2. CASE u # w
    <3>1. mode'[u] = mode[u] /\ Passed(u)' = Passed(u) /\ (Emptied' <=> Emptied)
      BY <1>10, <1>11, <2>2 DEF Passed, Emptied
    <3>2. UNCHANGED <<current, numWorkers, count, victim>>
      BY <1>10
    <3> QED
      BY <3>1, <3>2 DEF WorkInv, SearchHolds
  <2> QED
    BY <2>1, <2>2
<1>26. LevelHolds'
  <2>1. Emptied => Emptied'
    BY <1>10 DEF Emptied
  <2>2. \A u \in Workers \ {w} : snapshot'[u] = snapshot[u]
    BY <1>10
  <2> QED
    BY <1>10, <1>24, <1>25, <2>1, <2>2, LevelKeeps
<1>27. ASSUME NEW u \in Workers PROVE Holding(u)'
  <2>1. CASE u = w
    BY <1>6, <1>10, <1>11, <2>1 DEF WorkInv, Holding
  <2>2. CASE u # w
    BY <1>10, <1>11, <2>2 DEF WorkInv, Holding
  <2> QED
    BY <2>1, <2>2
<1>28. ASSUME NEW u \in Workers PROVE StoringHolds(u)'
  <2>1. CASE u = w
    BY <1>11, <1>13, <2>1 DEF StoringHolds
  <2>2. CASE u # w
    <3>1. mode'[u] = mode[u] /\ storing'[u] = storing[u] /\ UNCHANGED <<status, current, count, numWorkers>>
      BY <1>10, <1>11, <1>13, <2>2
    <3>2. \A y \in Workers : \A a, b, c : ~Stores(y, a, b, c) => ~Stores(y, a, b, c)'
      BY <1>15
    <3> QED
      BY <3>1, <3>2 DEF WorkInv, StoringHolds
  <2> QED
    BY <2>1, <2>2
<1>29. ASSUME NEW u \in Workers, NEW x \in Workers PROVE Apart(u, x)'
  BY <1>10, <1>13 DEF WorkInv, Apart
<1> QED
  BY <1>14, <1>20, <1>21, <1>22, <1>23, <1>25, <1>26, <1>27, <1>28, <1>29 DEF WorkInv

\* The reaction that is done is in no slot.
LEMMA DoneKeepsWork ==
    ASSUME WorkersNumbered, LooseInv, WorkInv, NEW w \in Workers,
           Done(w, "queued", "get") /\ UNCHANGED adaptiveVars
    PROVE  WorkInv'
<1> USE DEF looseVars, ownVars, levelVars, queueVars
<1>1. /\ mode \in [Workers -> Modes] /\ status \in [Reactions -> {"inactive", "queued"}]
      /\ running \in [Workers -> Reactions \cup {None}] /\ Level \in [Reactions -> Levels]
      /\ storing \in [Workers -> [reaction : Reactions \cup {None}, worker : Workers, at : Nat]]
      /\ None \notin Reactions /\ current \in Levels
  BY DataFacts DEF LooseInv, LooseTypeOK, WorkInv, TypeOK
<1>2. PICK r : r = running[w]
  OBVIOUS
<1>3. /\ mode[w] = "trigger" /\ pending[w] = {} /\ Enter(w, "get")
      /\ status' = [status EXCEPT ![r] = "inactive"]
      /\ running' = [running EXCEPT ![w] = None]
      /\ UNCHANGED <<pending, tagVars, count, slots, storing, current, numWorkers, victim,
                     looseVars, snapshot, signalled>>
  BY <1>2 DEF Done, adaptiveVars
<1>4. r \in Reactions /\ r # None /\ Level[r] = current
  BY <1>1, <1>2, <1>3 DEF WorkInv, Holding
<1>5. mode'[w] = "get" /\ \A u \in Workers \ {w} : mode'[u] = mode[u]
  BY <1>1, <1>3 DEF Enter
<1>6. /\ \A q \in Reactions : status'[q] = IF q = r THEN "inactive" ELSE status[q]
      /\ status' \in [Reactions -> {"inactive", "queued"}]
  BY <1>1, <1>3
<1>7. /\ running'[w] = None /\ \A u \in Workers \ {w} : running'[u] = running[u]
      /\ running' \in [Workers -> Reactions \cup {None}]
  BY <1>1, <1>3
<1>8. TypeOK'
  BY <1>3, <1>6, <1>7 DEF WorkInv, TypeOK, tagVars
<1>9. ASSUME NEW u \in Workers, NEW x, NEW y, NEW i PROVE Stores(u, x, y, i)' <=> Stores(u, x, y, i)
  BY <1>3, <1>5 DEF Stores
<1>10. ASSUME NEW x, NEW y, NEW i PROVE InPlace(x, y, i)' <=> InPlace(x, y, i)
  BY <1>3, <1>9 DEF InPlace
<1>11. SlotsHold'
  <2> SUFFICES ASSUME NEW x \in Levels, NEW u \in Workers, NEW i \in 1 .. count[x][u]
               PROVE  /\ x >= current /\ u < numWorkers[x]
                      /\ InPlace(x, u, i)' =>
                            /\ i <= Len(slots[x][u]) /\ slots[x][u][i] \in AtLevel(x)
                            /\ status'[slots[x][u][i]] = "queued"
                            /\ \A y \in Workers : slots[x][u][i] \notin {running'[y], storing[y].reaction}
    BY <1>3 DEF SlotsHold
  <2>1. x >= current /\ u < numWorkers[x]
    BY DEF WorkInv, SlotsHold
  <2>2. ASSUME InPlace(x, u, i)
        PROVE  /\ i <= Len(slots[x][u]) /\ slots[x][u][i] \in AtLevel(x)
               /\ status'[slots[x][u][i]] = "queued"
               /\ \A y \in Workers : slots[x][u][i] \notin {running'[y], storing[y].reaction}
    <3>1. /\ i <= Len(slots[x][u]) /\ slots[x][u][i] \in AtLevel(x)
          /\ status[slots[x][u][i]] = "queued"
          /\ \A y \in Workers : slots[x][u][i] \notin {running[y], storing[y].reaction}
      BY <2>2 DEF WorkInv, SlotsHold
    <3>2. slots[x][u][i] \in Reactions /\ slots[x][u][i] # r
      BY <1>2, <3>1 DEF AtLevel
    <3> QED
      BY <1>1, <1>6, <1>7, <3>1, <3>2
  <2> QED
    BY <1>10, <2>1, <2>2
<1>12. SlotsApart'
  BY <1>3, <1>10 DEF WorkInv, SlotsApart
<1>13. QueuedHold'
  <2> SUFFICES ASSUME NEW q \in Reactions, status'[q] = "queued",
                      \A u \in Workers : q \notin {running'[u], storing[u].reaction}
               PROVE  \E u \in Workers : \E i \in 1 .. count[Level[q]][u] :
                         InPlace(Level[q], u, i)' /\ slots[Level[q]][u][i] = q
    BY <1>3 DEF QueuedHold
  <2>1. q # r /\ status[q] = "queued"
    BY <1>6
  <2>2. \A u \in Workers : q \notin {running[u], storing[u].reaction}
    BY <1>2, <1>7, <2>1
  <2> QED
    BY <1>10, <2>1, <2>2 DEF WorkInv, QueuedHold
<1>14. CountsHold'
  <2> SUFFICES ASSUME NEW x \in Levels, NEW u \in Workers, count[x][u] < 0
               PROVE  x = current /\ \E y \in Workers : mode'[y] = "reset" /\ victim[y] = u
    BY <1>3 DEF CountsHold
  <2>1. PICK y \in Workers : x = current /\ mode[y] = "reset" /\ victim[y] = u
    BY DEF WorkInv, CountsHold
  <2>2. y # w
    BY <1>3, <2>1
  <2> QED
    BY <1>5, <2>1, <2>2
<1>15. mode[w] \in Busy /\ "get" \in Busy
  BY <1>3 DEF Busy, Modes, Moving
<1>16. ASSUME NEW u \in Workers PROVE SearchHolds(u)'
  <2>1. CASE u = w
    BY <1>5, <2>1 DEF SearchHolds
  <2>2. CASE u # w
    <3>1. mode'[u] = mode[u] /\ Passed(u)' = Passed(u) /\ (Emptied' <=> Emptied)
      BY <1>3, <1>5, <2>2 DEF Passed, Emptied
    <3> QED
      BY <1>3, <3>1 DEF WorkInv, SearchHolds
  <2> QED
    BY <2>1, <2>2
<1>17. LevelHolds'
  <2>1. Emptied => Emptied'
    BY <1>3 DEF Emptied
  <2>2. \A u \in Workers \ {w} : snapshot'[u] = snapshot[u]
    BY <1>3
  <2> QED
    BY <1>3, <1>15, <1>16, <2>1, <2>2, LevelKeeps
<1>18. ASSUME NEW u \in Workers PROVE Holding(u)'
  <2>1. CASE u = w
    BY <1>3, <1>5, <1>7, <2>1 DEF WorkInv, Holding
  <2>2. CASE u # w
    <3>1. running[u] # None => running[u] # r /\ running[u] \in Reactions
      BY <1>1, <1>2, <2>2 DEF WorkInv, Apart
    <3> QED
      BY <1>3, <1>5, <1>6, <1>7, <2>2, <3>1 DEF WorkInv, Holding
  <2> QED
    BY <2>1, <2>2
<1>19. ASSUME NEW u \in Workers PROVE StoringHolds(u)'
  <2>1. CASE mode[u] # "store"
    BY <1>3, <1>5, <2>1 DEF WorkInv, StoringHolds
  <2>2. CASE mode[u] = "store"
    <3>1. PICK q \in Reactions : q = storing[u].reaction
      BY <1>1, <2>2 DEF WorkInv, StoringHolds
    <3>2. Level[q] > current /\ status[q] = "queued"
      BY <2>2, <3>1 DEF WorkInv, StoringHolds
    <3>3. q # r
      BY <1>1, <1>4, <3>2, DataFacts
    <3>4. status'[q] = "queued" /\ mode'[u] = "store"
      BY <1>3, <1>5, <1>6, <2>2, <3>2, <3>3
    <3> QED
      BY <1>3, <1>9, <2>2, <3>1, <3>4 DEF WorkInv, StoringHolds
  <2> QED
    BY <2>1, <2>2
<1>20. ASSUME NEW u \in Workers, NEW x \in Workers PROVE Apart(u, x)'
  BY <1>3, <1>7 DEF WorkInv, Apart
<1> QED
  BY <1>8, <1>11, <1>12, <1>13, <1>14, <1>16, <1>17, <1>18, <1>19, <1>20 DEF WorkInv

\* While somebody goes on to another level or tag, nobody has a reaction in hand, and no
\* count is negative.
LEMMA EmptyHanded ==
    ASSUME WorkersNumbered, LooseInv, WorkInv, NEW w \in Workers, mode[w] \in Moving
    PROVE  /\ \A v \in Workers : /\ mode[v] \in Moving \cup {"sleep", "asleep"}
                                 /\ v # w => mode[v] \in {"sleep", "asleep"}
                                 /\ running[v] = None /\ pending[v] = {}
                                 /\ storing[v].reaction = None
           /\ \A l \in Levels, v \in Workers : count[l][v] >= 0
<1>1. \A v \in Workers \ {w} : mode[v] \in {"sleep", "asleep"}
  BY OthersWait
<1>2. \A v \in Workers : mode[v] \in Moving \cup {"sleep", "asleep"}
  BY <1>1
<1>3. ASSUME NEW v \in Workers
      PROVE  running[v] = None /\ pending[v] = {} /\ storing[v].reaction = None
  BY <1>2 DEF WorkInv, Holding, StoringHolds, Moving
<1>4. ASSUME NEW l \in Levels, NEW v \in Workers PROVE count[l][v] >= 0
  <2>1. count[l][v] \in Int
    BY DEF WorkInv, TypeOK
  <2>2. \A u \in Workers : mode[u] # "reset"
    BY <1>2 DEF Moving
  <2> QED
    BY <2>1, <2>2 DEF WorkInv, CountsHold
<1> QED
  BY <1>1, <1>2, <1>3, <1>4

\* At the end of the last level no reaction is on its way.
LEMMA NoneQueued ==
    ASSUME WorkersNumbered, LooseInv, WorkInv, NEW w \in Workers, mode[w] = "advance",
           current = MaxLevel
    PROVE  /\ \A l \in Levels, v \in Workers : count[l][v] = 0
           /\ \A r \in Reactions : status[r] = "inactive"
<1>1. ASSUME NEW l \in Levels, NEW v \in Workers PROVE count[l][v] = 0
  <2>1. count[l][v] \in Int /\ l \in Int /\ l <= MaxLevel
    BY DataFacts DEF WorkInv, TypeOK
  <2>2. count[l][v] >= 0
    BY EmptyHanded DEF Moving
  <2>3. CASE l = current
    BY <2>1, <2>2, <2>3, NothingLeft DEF Emptied
  <2>4. CASE l < current
    BY <2>1, <2>2, <2>4, BeyondWorkers
  <2> QED
    BY <2>1, <2>3, <2>4, DataFacts
<1>2. ASSUME NEW r \in Reactions PROVE status[r] = "inactive"
  <2>1. \A u \in Workers : running[u] = None /\ storing[u].reaction = None
    BY EmptyHanded DEF Moving
  <2>2. r # None /\ Level[r] \in Levels
    BY DataFacts
  <2>3. \A v \in Workers : \A i \in 1 .. count[Level[r]][v] : FALSE
    BY <1>1, <2>2
  <2>4. status[r] # "queued"
    BY <2>1, <2>2, <2>3 DEF WorkInv, QueuedHold
  <2> QED
    BY <2>4 DEF WorkInv, TypeOK
<1> QED
  BY <1>1, <1>2

\* A step of the worker that goes on, to a level below which nothing is left.
LEMMA LevelSteps ==
    ASSUME WorkersNumbered, ProgramFits, LooseInv, WorkInv, NEW w \in Workers,
           NextLevel(w) \/ Stop(w)
    PROVE  WorkInv'
<1> USE DEF levelVars, ownVars, workVars, queueVars, looseVars
<1>1. /\ mode[w] = "advance"
      /\ UNCHANGED <<running, pending, status, tagVars, count, slots, storing, victim>>
  BY DEF NextLevel, Stop, tagVars
<1>2. PICK m \in {"look", "awaken"} : Enter(w, m)
  BY DEF NextLevel, Stop
<1>3. mode \in [Workers -> Modes]
  BY DEF LooseInv, LooseTypeOK
<1>4. mode'[w] = m /\ \A v \in Workers \ {w} : mode'[v] = mode[v]
  BY <1>2, <1>3 DEF Enter
<1>5. /\ \A v \in Workers : /\ running[v] = None /\ pending[v] = {}
                            /\ storing[v].reaction = None
                            /\ v # w => mode[v] \in {"sleep", "asleep"}
      /\ \A l \in Levels, v \in Workers : count[l][v] >= 0
  BY <1>1, EmptyHanded DEF Moving
<1>6. \A v \in Workers : mode[v] # "store" /\ mode'[v] \in {"look", "awaken", "sleep", "asleep"}
  BY <1>1, <1>4, <1>5
<1>7. /\ current' \in Levels /\ numWorkers' \in [Levels -> 1 .. MaxNumWorkers]
      /\ \A l \in Levels, v \in Workers : \A i \in 1 .. count[l][v] : l >= current' /\ v < numWorkers'[l]
  <2>1. current \in Levels /\ numWorkers \in [Levels -> 1 .. MaxNumWorkers]
    BY DEF WorkInv, TypeOK
  <2>2. CASE NextLevel(w)
    <3>1. current' = current + 1 /\ numWorkers' = numWorkers /\ current < MaxLevel
      BY <2>2 DEF NextLevel
    <3>2. current' \in Levels
      BY <2>1, <3>1, DataFacts
    <3>3. ASSUME NEW l \in Levels, NEW v \in Workers, NEW i \in 1 .. count[l][v]
          PROVE  l >= current' /\ v < numWorkers'[l]
      <4>1. l >= current /\ v < numWorkers[l]
        BY <3>3 DEF WorkInv, SlotsHold
      <4>2. count[l][v] \in Int /\ ~(count[l][v] <= 0)
        BY <3>3 DEF WorkInv, TypeOK
      <4>3. l # current
        BY <1>1, <4>2, NothingLeft DEF Emptied
      <4> QED
        BY <2>1, <3>1, <4>1, <4>3, DataFacts
    <3> QED
      BY <2>1, <3>1, <3>2, <3>3
  <2>3. CASE Stop(w)
    <3>1. current' = 0 /\ numWorkers' \in NewNumWorkers /\ current = MaxLevel
      BY <2>3 DEF Stop
    <3>2. \A l \in Levels, v \in Workers : count[l][v] = 0
      BY <1>1, <3>1, NoneQueued
    <3> QED
      BY <3>1, <3>2, DataFacts, WorkersOfLevels
  <2> QED
    BY <2>2, <2>3
<1>8. TypeOK'
  BY <1>1, <1>7 DEF WorkInv, TypeOK, tagVars
<1>9. ASSUME NEW u \in Workers, NEW l, NEW v, NEW i PROVE ~Stores(u, l, v, i) /\ ~Stores(u, l, v, i)'
  BY <1>6 DEF Stores
<1>10. ASSUME NEW l, NEW v, NEW i PROVE InPlace(l, v, i)' <=> InPlace(l, v, i)
  BY <1>1, <1>9 DEF InPlace
<1>11. SlotsHold'
  <2> SUFFICES ASSUME NEW l \in Levels, NEW v \in Workers, NEW i \in 1 .. count[l][v]
               PROVE  /\ l >= current' /\ v < numWorkers'[l]
                      /\ InPlace(l, v, i)' =>
                            /\ i <= Len(slots[l][v]) /\ slots[l][v][i] \in AtLevel(l)
                            /\ status[slots[l][v][i]] = "queued"
                            /\ \A u \in Workers : slots[l][v][i] \notin {running[u], storing[u].reaction}
    BY <1>1 DEF SlotsHold
  <2>1. InPlace(l, v, i) =>
                            /\ i <= Len(slots[l][v]) /\ slots[l][v][i] \in AtLevel(l)
                            /\ status[slots[l][v][i]] = "queued"
                            /\ \A u \in Workers : slots[l][v][i] \notin {running[u], storing[u].reaction}
    BY DEF WorkInv, SlotsHold
  <2> QED
    BY <1>7, <1>10, <2>1
<1>12. SlotsApart'
  BY <1>1, <1>10 DEF WorkInv, SlotsApart
<1>13. QueuedHold'
  BY <1>1, <1>10 DEF WorkInv, QueuedHold
<1>14. CountsHold'
  <2>1. \A l \in Levels, v \in Workers : count[l][v] \in Int /\ ~(count[l][v] < 0)
    BY <1>5 DEF WorkInv, TypeOK
  <2> QED
    BY <1>1, <2>1 DEF CountsHold
<1>15. LevelHolds'
  BY <1>4 DEF LevelHolds
<1>16. ASSUME NEW u \in Workers PROVE SearchHolds(u)' /\ Holding(u)' /\ StoringHolds(u)'
  <2>1. mode'[u] \in {"look", "awaken", "sleep", "asleep"}
    BY <1>6
  <2>2. SearchHolds(u)'
    BY <2>1 DEF SearchHolds
  <2>3. Holding(u)'
    BY <1>1, <1>5, <2>1 DEF Holding
  <2>4. StoringHolds(u)'
    BY <1>1, <1>5, <2>1 DEF StoringHolds
  <2> QED
    BY <2>2, <2>3, <2>4
<1>17. ASSUME NEW u \in Workers, NEW v \in Workers PROVE Apart(u, v)'
  BY <1>1, <1>5 DEF Apart
<1> QED
  BY <1>8, <1>11, <1>12, <1>13, <1>14, <1>15, <1>16, <1>17 DEF WorkInv

\* The reactions of a new tag are put into slots where there is no other.
LEMMA AdvanceKeepsWork ==
    ASSUME WorkersNumbered, ProgramFits, LooseInv, WorkInv, NEW w \in Workers, AdvanceTag(w)
    PROVE  WorkInv'
<1> USE DEF levelVars, ownVars, workVars, looseVars
<1>1. /\ mode[w] = "advance" /\ current = MaxLevel /\ current' = 0 /\ Enter(w, "look")
      /\ numWorkers' \in NewNumWorkers
      /\ count' = [l \in Levels |-> [v \in Workers |-> Len(slots'[l][v])]]
      /\ UNCHANGED <<running, pending, storing, victim>>
  BY DEF AdvanceTag
<1>2. PICK triggered \in SUBSET Reactions :
         /\ Advance(triggered) /\ Queued(triggered)
         /\ slots' = Put(Left, Fresh(triggered), numWorkers')
  BY DEF AdvanceTag
<1>3. PICK R : R = Fresh(triggered)
  OBVIOUS
<1>4. PICK num : num = numWorkers'
  OBVIOUS
<1>5. PICK s : s = slots'
  OBVIOUS
<1>6. /\ R \in SUBSET Reactions /\ R = triggered
      /\ status' = [r \in Reactions |-> IF r \in R THEN "queued" ELSE "inactive"]
  <2>1. \A r \in Reactions : status[r] = "inactive"
    BY <1>1, NoneQueued
  <2>2. R = triggered
    BY <1>3, <2>1 DEF Fresh, Wins
  <2> QED
    BY <1>2, <2>1, <2>2 DEF Queued, Wins
<1>7. num \in [Levels -> 1 .. MaxNumWorkers]
  BY <1>1, <1>4, WorkersOfLevels
<1>8. Left = [l \in Levels |-> [v \in Workers |-> <<>>]]
  <2>1. ASSUME NEW l \in Levels, NEW v \in Workers PROVE SubSeq(slots[l][v], 1, count[l][v]) = <<>>
    <3>1. count[l][v] = 0
      BY <1>1, NoneQueued
    <3> QED
      BY <3>1
  <2> QED
    BY <2>1 DEF Left
<1>9. /\ s \in [Levels -> [Workers -> Seq(Reactions \cup {None})]]
      /\ \A l \in Levels, v \in Workers : \A i \in 1 .. Len(s[l][v]) :
            s[l][v][i] \in R \cap AtLevel(l) /\ Hash[s[l][v][i]] % num[l] = v
      /\ \A l \in Levels, v \in Workers : \A i, j \in 1 .. Len(s[l][v]) :
            s[l][v][i] = s[l][v][j] => i = j
      /\ \A r \in R : \E v \in Workers : \E i \in 1 .. Len(s[Level[r]][v]) :
            s[Level[r]][v][i] = r
  <2>1. PICK there : there = Left
    OBVIOUS
  <2>2. s = Put(there, R, num)
    BY <1>2, <1>3, <1>4, <1>5, <2>1
  <2>3. there = [l \in Levels |-> [v \in Workers |-> <<>>]]
    BY <1>8, <2>1
  <2>4. Listed(s, R, num)
    BY <1>6, <1>7, <2>2, <2>3, PutHolds
  <2> QED
    BY <2>4 DEF Listed
<1>10. \A l \in Levels, v \in Workers : count'[l][v] = Len(s[l][v]) /\ Len(s[l][v]) \in Nat
  BY <1>1, <1>5, <1>9
<1>11. /\ \A v \in Workers : /\ running[v] = None /\ pending[v] = {}
                             /\ storing[v].reaction = None
                             /\ v # w => mode[v] \in {"sleep", "asleep"}
  BY <1>1, EmptyHanded DEF Moving
<1>12. mode'[w] = "look" /\ \A v \in Workers \ {w} : mode'[v] = mode[v]
  BY <1>1 DEF LooseInv, LooseTypeOK, Enter
<1>13. \A v \in Workers : mode'[v] \in {"look", "sleep", "asleep"}
  BY <1>11, <1>12
<1>14. TypeOK'
  <2>1. current' \in Levels /\ numWorkers' \in [Levels -> 1 .. MaxNumWorkers]
    BY <1>1, <1>4, <1>7, DataFacts
  <2>2. count' \in [Levels -> [Workers -> Int]]
    BY <1>1, <1>5, <1>10
  <2>3. status' \in [Reactions -> {"inactive", "queued"}]
    BY <1>6
  <2>4. tag' \in Nat /\ stopTag' \in Nat /\ completed' \in BOOLEAN
    BY <1>2 DEF Advance, WorkInv, TypeOK
  <2> QED
    BY <1>1, <1>5, <1>9, <2>1, <2>2, <2>3, <2>4 DEF WorkInv, TypeOK
<1>15. ASSUME NEW l \in Levels, NEW v \in Workers, NEW i
       PROVE  InPlace(l, v, i)' <=> i \in 1 .. Len(s[l][v])
  <2>1. \A u \in Workers : ~Stores(u, l, v, i)'
    BY <1>13 DEF Stores
  <2> QED
    BY <1>10, <2>1 DEF InPlace
<1>16. SlotsHold'
  <2> SUFFICES ASSUME NEW l \in Levels, NEW v \in Workers, NEW i \in 1 .. Len(s[l][v])
               PROVE  /\ l >= 0 /\ v < num[l]
                      /\ i <= Len(s[l][v]) /\ s[l][v][i] \in AtLevel(l)
                      /\ status'[s[l][v][i]] = "queued"
                      /\ \A u \in Workers : s[l][v][i] \notin {running[u], storing[u].reaction}
    BY <1>1, <1>4, <1>5, <1>10 DEF SlotsHold
  <2>1. PICK r : r = s[l][v][i]
    OBVIOUS
  <2>2. r \in R /\ r \in AtLevel(l) /\ Hash[r] % num[l] = v
    BY <1>9, <2>1
  <2>3. Hash[r] \in Nat /\ num[l] \in 1 .. MaxNumWorkers /\ r \in Reactions /\ r # None
    BY <1>6, <1>7, <2>2, DataFacts DEF ProgramFits
  <2>4. v < num[l]
    <3>1. num[l] \in Nat \ {0}
      BY <2>3, DataFacts
    <3>2. Hash[r] % num[l] \in 0 .. num[l] - 1
      BY <2>3, <3>1
    <3> QED
      BY <2>2, <3>1, <3>2
  <2>5. l >= 0 /\ i <= Len(s[l][v])
    BY <1>10, DataFacts
  <2>6. status'[r] = "queued"
    BY <1>6, <2>2, <2>3
  <2> QED
    BY <1>11, <2>1, <2>2, <2>3, <2>4, <2>5, <2>6
<1>17. SlotsApart'
  <2> SUFFICES ASSUME NEW l \in Levels, NEW u \in Workers, NEW v \in Workers,
                      NEW i \in 1 .. Len(s[l][u]), NEW j \in 1 .. Len(s[l][v]), s[l][u][i] = s[l][v][j]
               PROVE  u = v /\ i = j
    BY <1>5, <1>10 DEF SlotsApart
  <2>1. Hash[s[l][u][i]] % num[l] = u /\ Hash[s[l][v][j]] % num[l] = v
    BY <1>9
  <2>2. u = v
    BY <2>1
  <2> QED
    BY <1>9, <2>2
<1>18. QueuedHold'
  <2> SUFFICES ASSUME NEW r \in Reactions, status'[r] = "queued"
               PROVE  \E v \in Workers : \E i \in 1 .. count'[Level[r]][v] :
                         InPlace(Level[r], v, i)' /\ s[Level[r]][v][i] = r
    BY <1>5 DEF QueuedHold
  <2>1. r \in R /\ Level[r] \in Levels
    BY <1>6, DataFacts
  <2>2. PICK v \in Workers : \E i \in 1 .. Len(s[Level[r]][v]) : s[Level[r]][v][i] = r
    BY <1>9, <2>1
  <2>3. PICK i \in 1 .. Len(s[Level[r]][v]) : s[Level[r]][v][i] = r
    BY <2>2
  <2>4. i \in 1 .. count'[Level[r]][v] /\ InPlace(Level[r], v, i)'
    BY <1>10, <1>15, <2>1
  <2> QED
    BY <2>3, <2>4
<1>19. CountsHold'
  <2>1. \A l \in Levels, v \in Workers : ~(count'[l][v] < 0)
    BY <1>10
  <2> QED
    BY <2>1 DEF CountsHold
<1>20. LevelHolds'
  BY <1>12 DEF LevelHolds
<1>21. ASSUME NEW u \in Workers PROVE SearchHolds(u)' /\ Holding(u)' /\ StoringHolds(u)'
  <2>1. mode'[u] \in {"look", "sleep", "asleep"}
    BY <1>13
  <2>2. SearchHolds(u)'
    BY <2>1 DEF SearchHolds
  <2>3. Holding(u)'
    BY <1>1, <1>11, <2>1 DEF Holding
  <2>4. StoringHolds(u)'
    BY <1>1, <1>11, <2>1 DEF StoringHolds
  <2> QED
    BY <2>2, <2>3, <2>4
<1>22. ASSUME NEW u \in Workers, NEW v \in Workers PROVE Apart(u, v)'
  BY <1>1, <1>11 DEF Apart
<1> QED
  BY <1>14, <1>16, <1>17, <1>18, <1>19, <1>20, <1>21, <1>22 DEF WorkInv

\* At first the reactions of the start are in their slots, and all workers look.
LEMMA InitImpliesWorkInv ==
    ASSUME WorkersNumbered, ProgramFits, Init
    PROVE  WorkInv
<1>1. /\ mode = [w \in Workers |-> "get"] /\ running = [w \in Workers |-> None]
      /\ pending = [w \in Workers |-> {}] /\ tag = 0 /\ completed = FALSE /\ stopTag \in Nat
      /\ status = [r \in Reactions |-> IF r \in AtStart(stopTag) THEN "queued" ELSE "inactive"]
      /\ current = 0 /\ numWorkers = [l \in Levels |-> MaxAtLevel(l)]
      /\ slots = Put(NoReactions, AtStart(stopTag), numWorkers)
      /\ count = [l \in Levels |-> [v \in Workers |-> Len(slots[l][v])]]
      /\ storing = [w \in Workers |-> Nothing] /\ victim = [w \in Workers |-> w]
  BY TagWorkersAssumption DEF Init, ThreadsInit
<1>2. AtStart(stopTag) \in SUBSET Reactions
  BY TagWorkersAssumption DEF AtStart
<1>3. numWorkers \in [Levels -> 1 .. MaxNumWorkers]
  BY <1>1, WorkersOfLevels
<1>4. Listed(slots, AtStart(stopTag), numWorkers)
  <2>1. PICK there : there = NoReactions
    OBVIOUS
  <2>2. there = [l \in Levels |-> [v \in Workers |-> <<>>]]
    BY <2>1 DEF NoReactions
  <2>3. PICK R : R = AtStart(stopTag)
    OBVIOUS
  <2>4. slots = Put(there, R, numWorkers) /\ R \in SUBSET Reactions
    BY <1>1, <1>2, <2>1, <2>3
  <2>5. Listed(slots, R, numWorkers)
    BY <1>3, <2>2, <2>4, PutHolds
  <2> QED
    BY <2>3, <2>5
<1>5. \A l \in Levels, v \in Workers : count[l][v] = Len(slots[l][v]) /\ Len(slots[l][v]) \in Nat
  BY <1>1, <1>4 DEF Listed
<1>6. \A w \in Workers : /\ mode[w] = "get" /\ running[w] = None /\ pending[w] = {}
                         /\ storing[w].reaction = None /\ victim[w] = w
  BY <1>1 DEF Nothing
<1>7. TypeOK
  <2>1. current \in Levels
    BY <1>1, DataFacts
  <2>2. count \in [Levels -> [Workers -> Int]]
    BY <1>1, <1>5
  <2>3. Nothing \in [reaction : Reactions \cup {None}, worker : Workers, at : Nat]
    BY DataFacts DEF Nothing
  <2>4. /\ running \in [Workers -> Reactions \cup {None}] /\ pending \in [Workers -> SUBSET Reactions]
        /\ status \in [Reactions -> {"inactive", "queued"}]
        /\ storing \in [Workers -> [reaction : Reactions \cup {None}, worker : Workers, at : Nat]]
        /\ victim \in [Workers -> Workers]
    BY <1>1, <2>3
  <2> QED
    BY <1>1, <1>3, <1>4, <2>1, <2>2, <2>4 DEF TypeOK, Listed
<1>8. ASSUME NEW l \in Levels, NEW v \in Workers, NEW i
      PROVE  InPlace(l, v, i) <=> i \in 1 .. Len(slots[l][v])
  BY <1>5, <1>6 DEF InPlace, Stores
<1>9. SlotsHold
  <2>a. current = 0
    BY <1>1
  <2> SUFFICES ASSUME NEW l \in Levels, NEW v \in Workers, NEW i \in 1 .. Len(slots[l][v])
               PROVE  /\ l >= 0 /\ v < numWorkers[l]
                      /\ i <= Len(slots[l][v]) /\ slots[l][v][i] \in AtLevel(l)
                      /\ status[slots[l][v][i]] = "queued"
                      /\ \A u \in Workers : slots[l][v][i] \notin {running[u], storing[u].reaction}
    BY <1>5, <2>a DEF SlotsHold
  <2>1. PICK r : r = slots[l][v][i]
    OBVIOUS
  <2>2. r \in AtStart(stopTag) /\ r \in AtLevel(l) /\ Hash[r] % numWorkers[l] = v
    BY <1>4, <2>1 DEF Listed
  <2>3. Hash[r] \in Nat /\ numWorkers[l] \in 1 .. MaxNumWorkers /\ r \in Reactions /\ r # None
    BY <1>2, <1>3, <2>2, DataFacts DEF ProgramFits
  <2>4. v < numWorkers[l]
    <3>1. numWorkers[l] \in Nat \ {0}
      BY <2>3, DataFacts
    <3>2. Hash[r] % numWorkers[l] \in 0 .. numWorkers[l] - 1
      BY <2>3, <3>1
    <3> QED
      BY <2>2, <3>1, <3>2
  <2>5. l >= 0 /\ i <= Len(slots[l][v])
    BY <1>5, DataFacts
  <2>6. status[r] = "queued"
    BY <1>1, <2>2, <2>3
  <2> QED
    BY <1>6, <2>1, <2>2, <2>3, <2>4, <2>5, <2>6
<1>10. SlotsApart
  <2> SUFFICES ASSUME NEW l \in Levels, NEW u \in Workers, NEW v \in Workers,
                      NEW i \in 1 .. Len(slots[l][u]), NEW j \in 1 .. Len(slots[l][v]),
                      slots[l][u][i] = slots[l][v][j]
               PROVE  u = v /\ i = j
    BY <1>5 DEF SlotsApart
  <2>1. Hash[slots[l][u][i]] % numWorkers[l] = u /\ Hash[slots[l][v][j]] % numWorkers[l] = v
    BY <1>4 DEF Listed
  <2>2. u = v
    BY <2>1
  <2> QED
    BY <1>4, <2>2 DEF Listed
<1>11. QueuedHold
  <2> SUFFICES ASSUME NEW r \in Reactions, status[r] = "queued"
               PROVE  \E v \in Workers : \E i \in 1 .. count[Level[r]][v] :
                         InPlace(Level[r], v, i) /\ slots[Level[r]][v][i] = r
    BY DEF QueuedHold
  <2>1. r \in AtStart(stopTag) /\ Level[r] \in Levels
    BY <1>1, DataFacts
  <2>2. PICK v \in Workers : \E i \in 1 .. Len(slots[Level[r]][v]) : slots[Level[r]][v][i] = r
    BY <1>4, <2>1 DEF Listed
  <2>3. PICK i \in 1 .. Len(slots[Level[r]][v]) : slots[Level[r]][v][i] = r
    BY <2>2
  <2>4. i \in 1 .. count[Level[r]][v] /\ InPlace(Level[r], v, i)
    BY <1>5, <1>8, <2>1
  <2> QED
    BY <2>3, <2>4
<1>12. CountsHold
  <2>1. \A l \in Levels, v \in Workers : ~(count[l][v] < 0)
    BY <1>5
  <2> QED
    BY <2>1 DEF CountsHold
<1>13. LevelHolds
  BY <1>6, DataFacts DEF LevelHolds, OnItsWay
<1>14. ASSUME NEW w \in Workers PROVE Holding(w) /\ StoringHolds(w) /\ SearchHolds(w)
  BY <1>6 DEF Holding, StoringHolds, SearchHolds
<1>15. ASSUME NEW v \in Workers, NEW w \in Workers PROVE Apart(v, w)
  BY <1>6 DEF Apart
<1> QED
  BY <1>7, <1>9, <1>10, <1>11, <1>12, <1>13, <1>14, <1>15 DEF WorkInv

\* All steps.
LEMMA StepKeepsWorkInv ==
    ASSUME WorkersNumbered, ProgramFits, ~Spurious, LooseInv, WorkInv, [Next]_vars
    PROVE  WorkInv'
<1>1. CASE UNCHANGED vars
  <2>1. UNCHANGED <<mode, running, pending, status, tag, stopTag, completed, current, numWorkers,
                    count, slots, storing, victim, snapshot, awakened, counter, signalled>>
    BY <1>1 DEF vars, threadVars, workVars, tagVars, adaptiveVars, queueVars, levelVars, looseVars, ownVars
  <2>2. TypeOK'
    BY <2>1 DEF WorkInv, TypeOK
  <2>3. \A w \in Workers : Holding(w)' /\ StoringHolds(w)' /\ SearchHolds(w)'
    BY <2>1 DEF WorkInv, Holding, StoringHolds, SearchHolds, Stores, Passed, Emptied
  <2>4. SlotsHold' /\ SlotsApart' /\ QueuedHold'
    BY <2>1 DEF WorkInv, SlotsHold, SlotsApart, QueuedHold, InPlace, Stores
  <2>5. CountsHold' /\ LevelHolds' /\ \A v, w \in Workers : Apart(v, w)'
    BY <2>1 DEF WorkInv, CountsHold, LevelHolds, Emptied, OnItsWay, MustWait, Apart
  <2> QED
    BY <2>2, <2>3, <2>4, <2>5 DEF WorkInv
<1>2. ASSUME NEW w \in Workers, Step(w) PROVE WorkInv'
  <2>1. CASE TakeSnapshot(w) \/ LockIfNeeded(w) \/ Acquire(w) \/ Check(w) \/ After(w)
    BY <2>1, WalkSteps
  <2>2. CASE Take(w)
    <3>1. count[current][victim[w]] \in Int
      BY DEF WorkInv, TypeOK
    <3>2. count[current][victim[w]] <= 0 \/ count[current][victim[w]] > 0
      BY <3>1
    <3> QED
      BY <2>2, <3>2, TakeNothing, TakeKeepsWork
  <2>3. CASE Reset(w)
    BY <2>3, ResetKeepsWork
  <2>4. CASE Finish(w)
    BY <2>4, FinishKeepsWork
  <2>5. CASE Sleep(w) \/ WakeUp(w)
    BY <2>5, WaitSteps
  <2>6. CASE NextLevel(w) \/ Stop(w)
    BY <2>6, LevelSteps
  <2>7. CASE AdvanceTag(w)
    BY <2>7, AdvanceKeepsWork
  <2>8. CASE Look(w)
    BY <2>8, LookKeepsWork
  <2>9. CASE GoOnAlone(w) \/ AwakenWorkers(w)
    BY <2>9, AwakenSteps
  <2>10. CASE ClaimSlot(w)
    BY <2>10, ClaimKeepsWork
  <2>11. CASE StoreReaction(w)
    BY <2>11, StoreKeepsWork
  <2>12. CASE Elsewhere(w)
    BY <2>12, HandStepsKeep, DoneKeepsWork DEF Elsewhere
  <2> QED
    BY <1>2, <2>1, <2>2, <2>3, <2>4, <2>5, <2>6, <2>7, <2>8, <2>9, <2>10, <2>11, <2>12 DEF Step
<1> QED
  BY <1>1, <1>2 DEF Next

-----------------------------------------------------------------------------
(* What the scheduler promises.                                            *)

\* Nothing is seen of a step that starts, ends and triggers no reaction.
LEMMA SameTags ==
    ASSUME UNCHANGED <<tag, running, status>>
    PROVE  UNCHANGED LevelTags!vars
BY DEF Active, Todo, LevelTags!vars

\* What a worker takes out of a slot is of the level executed, and what else is on its
\* way is of that level or above.
LEMMA TakeStarts ==
    ASSUME WorkersNumbered, WorkInv, NEW w \in Workers, Take(w)
    PROVE  [\E r \in Reactions : LevelTags!Start(r)]_(LevelTags!vars)
<1>0. mode[w] = "take" /\ running[w] = None /\ UNCHANGED <<status, tag>>
  BY DEF Take, WorkInv, Holding, tagVars
<1>1. CASE count[current][victim[w]] <= 0
  BY <1>0, <1>1, SameTags DEF Take
<1>2. CASE ~(count[current][victim[w]] <= 0)
  <2>1. PICK v \in Workers, n \in Int : v = victim[w] /\ n = count[current][v]
    BY DEF WorkInv, TypeOK
  <2>2. n \in 1 .. count[current][v]
    BY <1>2, <2>1
  <2>3. PICK r : r = slots[current][v][n]
    OBVIOUS
  <2>4. /\ r \in Reactions /\ r # None /\ Level[r] = current /\ status[r] = "queued"
        /\ \A u \in Workers : r # running[u]
    BY <2>2, <2>3, SlotsAtLevel
  <2>5. running' = [running EXCEPT ![w] = r]
    BY <1>2, <2>1, <2>3 DEF Take, Get
  <2>6. \A u \in Workers : running'[u] = IF u = w THEN r ELSE running[u]
    BY <2>5 DEF WorkInv, TypeOK
  <2>7. Active' = Active \cup {r}
    BY <1>0, <2>4, <2>6 DEF Active
  <2>8. Todo' = Todo \ {r} /\ r \in Todo
    BY <1>0, <2>4, <2>7 DEF Todo, Active
  <2>9. ASSUME NEW q \in Reactions, status[q] = "queued" PROVE Level[q] >= current
    <3>1. CASE \E u \in Workers : q \in {running[u], storing[u].reaction}
      <4>1. q # None /\ current \in Int /\ Level[q] \in Int
        BY DataFacts DEF WorkInv, TypeOK
      <4>2. Level[q] = current \/ Level[q] > current
        BY <3>1, <4>1 DEF WorkInv, Holding, StoringHolds
      <4> QED
        BY <4>1, <4>2
    <3>2. CASE \E u \in Workers : \E i \in 1 .. count[Level[q]][u] : InPlace(Level[q], u, i)
      BY <3>2, DataFacts DEF WorkInv, SlotsHold
    <3> QED
      BY <2>9, <3>1, <3>2 DEF WorkInv, QueuedHold
  <2>10. \A q \in Todo \cup Active : q \in Reactions /\ status[q] = "queued"
    BY DEF Todo, Active, WorkInv, TypeOK, Holding
  <2>11. \A q \in Todo \cup Active : <<q, r>> \notin LowerLevel
    <3> SUFFICES ASSUME NEW q \in Todo \cup Active, Level[q] < Level[r] PROVE FALSE
      BY DEF LowerLevel
    <3>1. q \in Reactions /\ Level[q] >= current
      BY <2>9, <2>10
    <3>2. Level[q] \in Int /\ current \in Int
      BY <3>1, DataFacts DEF WorkInv, TypeOK
    <3> QED
      BY <2>4, <3>1, <3>2
  <2> QED
    BY <1>0, <2>4, <2>7, <2>8, <2>11 DEF LevelTags!Start
<1> QED
  BY <1>1, <1>2

\* Winning the compare-and-swap triggers a reaction.
LEMMA ClaimTriggers ==
    ASSUME WorkersNumbered, WorkInv, NEW w \in Workers, ClaimSlot(w)
    PROVE  \E q, r \in Reactions : LevelTags!Trigger(q, r)
<1>1. PICK r \in pending[w] : Win(w, r)
  BY DEF ClaimSlot
<1>2. /\ status[r] = "inactive" /\ mode[w] = "trigger"
      /\ status' = [status EXCEPT ![r] = "queued"] /\ UNCHANGED <<running, tag>>
  BY <1>1 DEF ClaimSlot, Win, Wins, tagVars
<1>3. r \in Reactions /\ r # None /\ running[w] \in Reactions /\ running[w] # None
  BY <1>2, DataFacts DEF WorkInv, TypeOK, Holding
<1>4. Active' = Active /\ running[w] \in Active /\ r \notin Active
  BY <1>2, <1>3 DEF Active, WorkInv, Holding
<1>5. \A q \in Reactions : status'[q] = IF q = r THEN "queued" ELSE status[q]
  BY <1>2 DEF WorkInv, TypeOK
<1>6. Todo' = Todo \cup {r}
  BY <1>2, <1>3, <1>4, <1>5 DEF Todo
<1> QED
  BY <1>2, <1>3, <1>4, <1>6 DEF LevelTags!Trigger

\* Writing inactive finishes it.
LEMMA DoneFinishes ==
    ASSUME WorkersNumbered, WorkInv, NEW w \in Workers, Done(w, "queued", "get")
    PROVE  \E r \in Reactions : LevelTags!Finish(r)
<1>1. PICK r : r = running[w]
  OBVIOUS
<1>2. /\ r \in Reactions /\ r # None /\ UNCHANGED tag
      /\ status' = [status EXCEPT ![r] = "inactive"]
      /\ running' = [running EXCEPT ![w] = None]
  BY <1>1, DataFacts DEF Done, tagVars, WorkInv, TypeOK, Holding
<1>3. \A v \in Workers : v # w => running[v] # r
  BY <1>1, <1>2 DEF WorkInv, Apart
<1>4. \A v \in Workers : running'[v] = IF v = w THEN None ELSE running[v]
  BY <1>2 DEF WorkInv, TypeOK
<1>5. Active' = Active \ {r} /\ r \in Active
  <2>1. \A q : q \in Active' <=> q \in Active \ {r}
    BY <1>1, <1>2, <1>3, <1>4 DEF Active
  <2> QED
    BY <2>1, <1>1, <1>2 DEF Active
<1>6. \A q \in Reactions : status'[q] = IF q = r THEN "inactive" ELSE status[q]
  BY <1>2 DEF WorkInv, TypeOK
<1>7. Todo' = Todo
  BY <1>5, <1>6 DEF Todo
<1> QED
  BY <1>2, <1>5, <1>7 DEF LevelTags!Finish

\* Advancing the tag finds no reaction left.
LEMMA AdvanceAdvances ==
    ASSUME WorkersNumbered, LooseInv, WorkInv, NEW w \in Workers, AdvanceTag(w)
    PROVE  [LevelTags!Advance]_(LevelTags!vars)
<1>1. PICK triggered \in SUBSET Reactions : Advance(triggered) /\ Queued(triggered)
  BY DEF AdvanceTag
<1>2. mode[w] = "advance" /\ current = MaxLevel /\ UNCHANGED running
  BY DEF AdvanceTag, workVars
<1>3. /\ \A r \in Reactions : status[r] = "inactive"
      /\ \A v \in Workers : running[v] = None
  BY <1>2, NoneQueued, EmptyHanded DEF Moving
<1>4. Active = {} /\ Active' = {} /\ Todo = {}
  BY <1>2, <1>3 DEF Active, Todo
<1>5. \A r \in Reactions : status'[r] = IF r \in triggered THEN "queued" ELSE "inactive"
  BY <1>1, <1>3 DEF Queued, Wins
<1>6. Todo' = triggered
  BY <1>4, <1>5 DEF Todo
<1>7. \/ triggered = {} /\ UNCHANGED tag
      \/ tag' = tag + 1
  BY <1>1 DEF Advance
<1> QED
  BY <1>4, <1>6, <1>7 DEF LevelTags!Advance, LevelTags!vars

\* The other steps are not seen.
LEMMA HiddenSteps ==
    ASSUME NEW w \in Workers,
           \/ TakeSnapshot(w) \/ Reset(w) \/ LockIfNeeded(w) \/ Acquire(w) \/ Check(w) \/ Finish(w)
           \/ Sleep(w) \/ WakeUp(w) \/ After(w) \/ NextLevel(w) \/ Stop(w) \/ Look(w)
           \/ GoOnAlone(w) \/ AwakenWorkers(w) \/ StoreReaction(w) \/ Invoke(w) \/ Lose(w)
           \/ UNCHANGED threadVars
    PROVE  UNCHANGED LevelTags!vars
<1>1. UNCHANGED <<tag, running, status>>
  BY DEF TakeSnapshot, Reset, LockIfNeeded, Acquire, Check, Finish, Sleep, WakeUp, After, NextLevel,
         Stop, Look, GoOnAlone, AwakenWorkers, StoreReaction, Invoke, Lose, threadVars, workVars, tagVars
<1> QED
  BY <1>1, SameTags

\* What is downstream of a reaction is of a higher level.
LEMMA DownstreamIsHigher == Downstream \subseteq LowerLevel
<1> SUFFICES ASSUME NEW p \in Downstream PROVE p \in LowerLevel
  OBVIOUS
<1>1. p \in Reactions \X Reactions /\ p[1] \in Reactions /\ p[2] \in Reactions
  BY DEF Downstream
<1>2. PICK S : S = {r \in Reactions : Level[p[1]] < Level[r]}
  OBVIOUS
<1>3. ASSUME NEW e \in MayTrigger, e[1] \in S \cup {p[1]} PROVE e[2] \in S
  <2>1. /\ e[1] \in Reactions /\ e[2] \in Reactions
        /\ \E set \in Effects[e[1]] : e[2] \in set
    BY DEF MayTrigger
  <2>2. Level[e[1]] < Level[e[2]] /\ Level \in [Reactions -> Int]
    BY <2>1, TagWorkersAssumption
  <2> QED
    BY <1>1, <1>2, <1>3, <2>1, <2>2
<1>4. p[2] \in S
  BY <1>2, <1>3 DEF Downstream
<1> QED
  BY <1>1, <1>2, <1>4 DEF LowerLevel

-----------------------------------------------------------------------------
(* The theorems about reactions.                                           *)

\* The inductive invariant: where the reactions that were triggered are, who may take
\* them, and that whoever goes on to another level leaves none behind.
THEOREM AdaptiveWorkInvariant ==
    ASSUME WorkersNumbered, ProgramFits, ~Spurious
    PROVE  Spec => [](LooseInv /\ WorkInv)
<1>1. Init => LooseInv /\ WorkInv
  BY InitImpliesLooseInv, InitImpliesWorkInv
<1>2. LooseInv /\ WorkInv /\ [Next]_vars => (LooseInv /\ WorkInv)'
  BY StepKeepsLooseInv, StepKeepsWorkInv
<1> QED
  BY <1>1, <1>2, PTL DEF Spec

\* The variables have their types.
THEOREM AdaptiveTypeCorrect ==
    ASSUME WorkersNumbered, ProgramFits, ~Spurious
    PROVE  Spec => [](LooseTypeOK /\ TypeOK)
<1>1. LooseInv /\ WorkInv => LooseTypeOK /\ TypeOK
  BY DEF LooseInv, WorkInv
<1> QED
  BY <1>1, AdaptiveWorkInvariant, PTL

\* No reaction is lost: one that was triggered lies in a slot that the workers of its level
\* will come to, or is in somebody's hands; and no slot is read before it was filled.
THEOREM AdaptiveWithinReach ==
    ASSUME WorkersNumbered, ProgramFits, ~Spurious
    PROVE  Spec => []WithinReach
<1>1. WorkInv => WithinReach
  <2> SUFFICES ASSUME WorkInv PROVE WithinReach
    OBVIOUS
  <2>1. ASSUME NEW r \in Reactions, status[r] = "queued",
               \A w \in Workers : running[w] # r /\ storing[w].reaction # r
        PROVE  InSlot(r)
    <3>1. PICK v \in Workers, i \in Int :
             i \in 1 .. count[Level[r]][v] /\ InPlace(Level[r], v, i) /\ slots[Level[r]][v][i] = r
      BY <2>1 DEF WorkInv, QueuedHold
    <3>2. PICK l \in Levels : l = Level[r]
      BY DataFacts
    <3>3. l >= current /\ v < numWorkers[l] /\ i <= Len(slots[l][v])
      BY <3>1, <3>2 DEF WorkInv, SlotsHold
    <3>4. l \in current .. MaxLevel /\ v \in 0 .. numWorkers[l] - 1
      <4>1. current \in Int /\ numWorkers[l] \in Int
        BY DataFacts DEF WorkInv, TypeOK
      <4> QED
        BY <3>2, <3>3, <4>1, DataFacts
    <3> QED
      BY <3>1, <3>2, <3>3, <3>4 DEF InSlot
  <2>2. ASSUME NEW w \in Workers
        PROVE  /\ mode[w] = "invoke" => running[w] # None
               /\ running[w] # None => Level[running[w]] = current
    BY DEF WorkInv, Holding
  <2> QED
    BY <2>1, <2>2 DEF WithinReach
<1> QED
  BY <1>1, AdaptiveWorkInvariant, PTL

\* For every program, ADAPTIVE runs a reaction at the tag that triggers it, once and
\* after all of lower levels, and the tag advances when none is left.
THEOREM AdaptiveImplementsLevelTags ==
    ASSUME WorkersNumbered, ProgramFits, ~Spurious
    PROVE  Spec => LevelTags!Spec
<1>1. Init => LevelTags!Init
  <2> SUFFICES ASSUME Init PROVE LevelTags!Init
    OBVIOUS
  <2>1. Active = {}
    BY DEF Init, ThreadsInit, Active
  <2>2. AtStart(stopTag) \subseteq Reactions
    BY TagWorkersAssumption DEF AtStart
  <2>3. Todo = AtStart(stopTag)
    BY <2>1, <2>2 DEF Init, ThreadsInit, Todo
  <2> QED
    BY <2>1, <2>3 DEF Init, ThreadsInit, LevelTags!Init
<1>2. LooseInv /\ WorkInv /\ [Next]_vars => [LevelTags!Next]_(LevelTags!vars)
  <2> SUFFICES ASSUME LooseInv, WorkInv, [Next]_vars PROVE [LevelTags!Next]_(LevelTags!vars)
    OBVIOUS
  <2>1. CASE UNCHANGED vars
    BY <2>1, SameTags DEF vars, threadVars, workVars, tagVars
  <2>2. ASSUME NEW w \in Workers, Step(w) PROVE [LevelTags!Next]_(LevelTags!vars)
    <3>1. CASE Take(w)
      BY <3>1, TakeStarts DEF LevelTags!Next
    <3>2. CASE ClaimSlot(w)
      BY <3>2, ClaimTriggers DEF LevelTags!Next
    <3>3. CASE Done(w, "queued", "get")
      BY <3>3, DoneFinishes DEF LevelTags!Next
    <3>4. CASE AdvanceTag(w)
      BY <3>4, AdvanceAdvances DEF LevelTags!Next
    <3> QED
      BY <2>2, <3>1, <3>2, <3>3, <3>4, HiddenSteps DEF Step, Elsewhere
  <2> QED
    BY <2>1, <2>2 DEF Next
<1> QED
  BY <1>1, <1>2, AdaptiveWorkInvariant, PTL DEF Spec, LevelTags!Spec

\* So a reaction runs after those it is downstream of: the promise that all of the
\* schedulers make.
THEOREM AdaptiveImplementsTagExecution ==
    ASSUME WorkersNumbered, ProgramFits, ~Spurious
    PROVE  Spec => ImplementsTagExecution
<1>1. LevelTags!Init => Tags!Init
  BY DEF LevelTags!Init, Tags!Init
<1>2. ASSUME NEW r, LevelTags!Start(r) PROVE Tags!Start(r)
  BY <1>2, DownstreamIsHigher DEF LevelTags!Start, Tags!Start
<1>3. [LevelTags!Next]_(LevelTags!vars) => [Tags!Next]_(Tags!vars)
  <2>1. LevelTags!vars = Tags!vars
    BY DEF LevelTags!vars, Tags!vars
  <2>2. ASSUME NEW r PROVE LevelTags!Finish(r) <=> Tags!Finish(r)
    BY DEF LevelTags!Finish, Tags!Finish
  <2>3. ASSUME NEW q, NEW r PROVE LevelTags!Trigger(q, r) <=> Tags!Trigger(q, r)
    BY DEF LevelTags!Trigger, Tags!Trigger
  <2>4. LevelTags!Advance <=> Tags!Advance
    BY DEF LevelTags!Advance, Tags!Advance
  <2>5. LevelTags!Next => Tags!Next
    BY <1>2, <2>2, <2>3, <2>4 DEF LevelTags!Next, Tags!Next
  <2>6. (LevelTags!vars)' = LevelTags!vars => (Tags!vars)' = Tags!vars
    BY DEF LevelTags!vars, Tags!vars
  <2> QED
    BY <2>5, <2>6
<1> QED
  BY <1>1, <1>3, AdaptiveImplementsLevelTags, PTL DEF LevelTags!Spec, Tags!Spec, ImplementsTagExecution
=============================================================================
