-------------------------- MODULE IdleWorkersProofs --------------------------
(***************************************************************************)
(* IdleInv is an inductive invariant of the idle hand-shake, for every     *)
(* finite set of workers; the safety properties of IdleWorkers follow.     *)
(* The schedulers that extend IdleWorkers reuse StepKeepsIdleInv.          *)
(***************************************************************************)
EXTENDS IdleWorkers, FiniteSetTheorems, TLAPS

\* Counting the workers: a positive natural number.
LEMMA WorkersCount ==
    /\ NumberOfWorkers \in Nat \ {0}
    /\ \A S \in SUBSET Workers : IsFiniteSet(S) /\ Cardinality(S) \in 0 .. NumberOfWorkers
<1>1. NumberOfWorkers \in Nat
  BY WorkersAssumption, FS_CardinalityType DEF NumberOfWorkers
<1>2. NumberOfWorkers # 0
  BY WorkersAssumption, FS_EmptySet DEF NumberOfWorkers
<1>3. \A S \in SUBSET Workers : IsFiniteSet(S) /\ Cardinality(S) \in 0 .. NumberOfWorkers
  <2> TAKE S \in SUBSET Workers
  <2>1. IsFiniteSet(S) /\ Cardinality(S) <= Cardinality(Workers)
    BY WorkersAssumption, FS_Subset
  <2>2. Cardinality(S) \in Nat
    BY <2>1, FS_CardinalityType
  <2> QED
    BY <2>1, <2>2, <1>1 DEF NumberOfWorkers
<1> QED
  BY <1>1, <1>2, <1>3

\* If every worker but w is blocked, then all workers but one are blocked.
LEMMA OthersBlockedCount ==
    ASSUME NEW w \in Workers, phase[w] # "blocked",
           \A v \in Workers \ {w} : phase[v] = "blocked"
    PROVE  Cardinality(Blocked) = NumberOfWorkers - 1
<1>1. Blocked = Workers \ {w}
  BY DEF Blocked
<1>2. Cardinality(Workers \ {w}) = Cardinality(Workers) - 1
  BY WorkersAssumption, FS_RemoveElement
<1> QED
  BY <1>1, <1>2 DEF NumberOfWorkers

\* Conversely, all workers but one can only be blocked if every other one is.
LEMMA AllButOneBlocked ==
    ASSUME NEW w \in Workers, phase[w] # "blocked",
           Cardinality(Blocked) >= NumberOfWorkers - 1
    PROVE  \A v \in Workers \ {w} : phase[v] = "blocked"
<1> SUFFICES ASSUME NEW v \in Workers \ {w}, phase[v] # "blocked"
             PROVE  FALSE
  OBVIOUS
<1>1. Blocked \in SUBSET ((Workers \ {w}) \ {v})
  BY DEF Blocked
<1>2. IsFiniteSet(Workers \ {w}) /\ Cardinality(Workers \ {w}) = NumberOfWorkers - 1
  BY WorkersAssumption, FS_RemoveElement DEF NumberOfWorkers
<1>3. /\ IsFiniteSet((Workers \ {w}) \ {v})
      /\ Cardinality((Workers \ {w}) \ {v}) = NumberOfWorkers - 2
  <2>1. /\ IsFiniteSet((Workers \ {w}) \ {v})
        /\ Cardinality((Workers \ {w}) \ {v}) = Cardinality(Workers \ {w}) - 1
    BY <1>2, FS_RemoveElement
  <2> QED
    BY <2>1, <1>2, WorkersCount
<1>4. Cardinality(Blocked) <= NumberOfWorkers - 2
  BY <1>1, <1>3, FS_Subset
<1>5. Cardinality(Blocked) \in Nat
  BY WorkersCount DEF Blocked
<1> QED
  BY <1>4, <1>5, WorkersCount

\* A worker that blocks adds one to the blocked workers.
LEMMA OneMoreBlocked ==
    ASSUME NEW w \in Workers, phase \in [Workers -> Phases], phase[w] # "blocked",
           phase' = [phase EXCEPT ![w] = "blocked"]
    PROVE  Cardinality(Blocked') = Cardinality(Blocked) + 1
<1>1. Blocked' = Blocked \cup {w} /\ w \notin Blocked
  BY DEF Blocked
<1>2. IsFiniteSet(Blocked)
  BY WorkersCount DEF Blocked
<1> QED
  BY <1>1, <1>2, FS_AddElement

\* A worker that is woken takes one from the blocked workers.
LEMMA OneLessBlocked ==
    ASSUME NEW w \in Workers, phase \in [Workers -> Phases], phase[w] = "blocked",
           phase' = [phase EXCEPT ![w] = "working"]
    PROVE  Cardinality(Blocked') = Cardinality(Blocked) - 1
<1>1. Blocked' = Blocked \ {w} /\ w \in Blocked
  BY DEF Blocked
<1>2. IsFiniteSet(Blocked)
  BY WorkersCount DEF Blocked
<1> QED
  BY <1>1, <1>2, FS_RemoveElement
-----------------------------------------------------------------------------

\* A working worker means that nobody is in the critical part.
LEMMA WorkingMeansNobodyLast ==
    ASSUME IdleInv, NEW w \in Workers, phase[w] \in {"working", "blocked"},
           phase[w] = "working" \/ permits > 0
    PROVE  \A v \in Workers : phase[v] \in {"working", "blocked"}
<1> SUFFICES ASSUME NEW v \in Workers, phase[v] \in {"last", "release"}
             PROVE  FALSE
  BY DEF IdleInv, IdleTypeOK, Phases
<1>1. permits = 0 /\ \A u \in Workers \ {v} : phase[u] = "blocked"
  BY DEF IdleInv, LastIsAlone
<1>2. w \in Workers \ {v}
  OBVIOUS
<1> QED
  BY <1>1, <1>2 DEF IdleInv, IdleTypeOK

LEMMA InitIdleInv == IdleInit => IdleInv
<1> SUFFICES ASSUME IdleInit PROVE IdleInv
  OBVIOUS
<1> USE DEF IdleInit
<1>1. Blocked = {}
  BY DEF Blocked
<1>2. Cardinality(Blocked) = 0
  BY <1>1, FS_EmptySet
<1>3. IdleTypeOK
  <2>1. 0 \in 0 .. NumberOfWorkers
    BY WorkersCount
  <2> QED
    BY <2>1 DEF IdleTypeOK, Phases
<1>4. LastIsAlone /\ \A w \in Workers : LastState(w) /\ ReleaseState(w)
  BY DEF LastIsAlone, LastState, ReleaseState
<1>5. PermitAccounting
  BY <1>2 DEF PermitAccounting
<1> QED
  BY <1>3, <1>4, <1>5, WorkersCount DEF IdleInv

LEMMA GoIdleKeeps ==
    ASSUME IdleInv, NEW w \in Workers, GoIdle(w)
    PROVE  IdleInv'
<1> USE WorkersCount DEF GoIdle
<1>0. \A v \in Workers : phase[v] \in {"working", "blocked"}
  BY WorkingMeansNobodyLast
<1>1. /\ \A v \in Workers : phase'[v] \in {"working", "blocked"}
      /\ phase' \in [Workers -> Phases]
  BY <1>0 DEF IdleInv, IdleTypeOK, Phases
<1>2. idle < NumberOfWorkers /\ idle' \in 0 .. NumberOfWorkers /\ idle' < NumberOfWorkers
  BY <1>0 DEF IdleInv, IdleTypeOK
<1>3. Cardinality(Blocked') = Cardinality(Blocked) + 1
  BY OneMoreBlocked DEF IdleInv, IdleTypeOK
<1>4. IdleTypeOK'
  BY <1>1, <1>2 DEF IdleInv, IdleTypeOK
<1>5. LastIsAlone' /\ \A v \in Workers : LastState(v)' /\ ReleaseState(v)'
  BY <1>1 DEF LastIsAlone, LastState, ReleaseState
<1>6. PermitAccounting'
  <2>1. idle + permits = Cardinality(Blocked)
    BY <1>0 DEF IdleInv, PermitAccounting
  <2>2. idle' + permits' = Cardinality(Blocked')
    BY <2>1, <1>3 DEF IdleInv, IdleTypeOK
  <2> QED
    BY <2>2 DEF PermitAccounting
<1> QED
  BY <1>1, <1>2, <1>4, <1>5, <1>6 DEF IdleInv

LEMMA GoIdleLastKeeps ==
    ASSUME IdleInv, NEW w \in Workers, GoIdleLast(w)
    PROVE  IdleInv'
<1> USE WorkersCount DEF GoIdleLast
<1>0. \A v \in Workers : phase[v] \in {"working", "blocked"}
  BY WorkingMeansNobodyLast
<1>1. idle + permits = Cardinality(Blocked)
  BY <1>0 DEF IdleInv, PermitAccounting
<1>2. Cardinality(Blocked) >= NumberOfWorkers - 1
  BY <1>1 DEF IdleInv, IdleTypeOK
<1>3. \A v \in Workers \ {w} : phase[v] = "blocked"
  BY <1>2, AllButOneBlocked
<1>4. Cardinality(Blocked) = NumberOfWorkers - 1
  BY <1>3, OthersBlockedCount
<1>5. permits = 0
  BY <1>1, <1>4 DEF IdleInv, IdleTypeOK
<1>6. /\ phase' \in [Workers -> Phases]
      /\ phase'[w] = "last"
      /\ \A v \in Workers \ {w} : phase'[v] = "blocked"
  BY <1>3 DEF IdleInv, IdleTypeOK, Phases
<1>7. IdleTypeOK'
  BY <1>6 DEF IdleInv, IdleTypeOK
<1>8. LastIsAlone' /\ PermitAccounting'
  BY <1>5, <1>6 DEF LastIsAlone, PermitAccounting
<1>9. \A v \in Workers : LastState(v)' /\ ReleaseState(v)'
  BY <1>6 DEF LastState, ReleaseState
<1> QED
  BY <1>6, <1>7, <1>8, <1>9 DEF IdleInv

LEMMA LowerIdleKeeps ==
    ASSUME IdleInv, NEW w \in Workers, NEW k, LowerIdle(w, k)
    PROVE  IdleInv'
<1> USE WorkersCount DEF LowerIdle
<1>1. idle = NumberOfWorkers /\ ~shouldStop /\ permits = 0
  BY DEF IdleInv, LastState, LastIsAlone
<1>2. \A v \in Workers \ {w} : phase[v] = "blocked"
  BY DEF IdleInv, LastIsAlone
<1>3. k \in 1 .. NumberOfWorkers /\ idle' = NumberOfWorkers - k
  BY <1>1
<1>4. /\ phase' \in [Workers -> Phases]
      /\ phase'[w] = "release"
      /\ \A v \in Workers \ {w} : phase'[v] = "blocked"
  BY <1>2 DEF IdleInv, IdleTypeOK, Phases
<1>5. awaken' \in [Workers -> 0 .. NumberOfWorkers] /\ awaken'[w] = k
  BY <1>3 DEF IdleInv, IdleTypeOK
<1>6. IdleTypeOK'
  BY <1>1, <1>3, <1>4, <1>5 DEF IdleInv, IdleTypeOK
<1>7. LastIsAlone' /\ PermitAccounting'
  BY <1>1, <1>4 DEF LastIsAlone, PermitAccounting
<1>8. \A v \in Workers : LastState(v)' /\ ReleaseState(v)'
  BY <1>1, <1>3, <1>4, <1>5 DEF LastState, ReleaseState
<1> QED
  BY <1>4, <1>6, <1>7, <1>8 DEF IdleInv

\* Leaving the critical part with n = NumberOfWorkers - 1 workers to account
\* for: shared by ReleasePermits and SignalStop.
LEMMA ReturnToWork ==
    ASSUME IdleInv, NEW w \in Workers, phase[w] \in {"last", "release"},
           phase' = [phase EXCEPT ![w] = "working"]
    PROVE  /\ phase' \in [Workers -> Phases]
           /\ \A v \in Workers : phase'[v] \in {"working", "blocked"}
           /\ Cardinality(Blocked') = NumberOfWorkers - 1
<1>1. \A v \in Workers \ {w} : phase[v] = "blocked"
  BY DEF IdleInv, LastIsAlone
<1>2. Cardinality(Blocked) = NumberOfWorkers - 1
  BY <1>1, OthersBlockedCount
<1>3. Blocked' = Blocked
  BY DEF IdleInv, IdleTypeOK, Blocked
<1> QED
  BY <1>1, <1>2, <1>3 DEF IdleInv, IdleTypeOK, Phases

LEMMA ReleasePermitsKeeps ==
    ASSUME IdleInv, NEW w \in Workers, ReleasePermits(w)
    PROVE  IdleInv'
<1> USE WorkersCount DEF ReleasePermits
<1>1. /\ phase' \in [Workers -> Phases]
      /\ \A v \in Workers : phase'[v] \in {"working", "blocked"}
      /\ Cardinality(Blocked') = NumberOfWorkers - 1
  BY ReturnToWork
<1>2. /\ permits = 0 /\ ~shouldStop
      /\ awaken[w] \in 1 .. NumberOfWorkers
      /\ idle = NumberOfWorkers - awaken[w]
  BY DEF IdleInv, LastIsAlone, ReleaseState
<1>3. permits' = awaken[w] - 1 /\ permits' \in 0 .. NumberOfWorkers
  BY <1>2
<1>4. IdleTypeOK'
  <2>1. 0 \in 0 .. NumberOfWorkers
    OBVIOUS
  <2> QED
    BY <2>1, <1>1, <1>3 DEF IdleInv, IdleTypeOK
<1>5. PermitAccounting'
  BY <1>1, <1>2, <1>3 DEF PermitAccounting
<1>6. LastIsAlone' /\ \A v \in Workers : LastState(v)' /\ ReleaseState(v)'
  BY <1>1 DEF LastIsAlone, LastState, ReleaseState
<1> QED
  BY <1>2, <1>4, <1>5, <1>6 DEF IdleInv

LEMMA SignalStopKeeps ==
    ASSUME IdleInv, NEW w \in Workers, SignalStop(w)
    PROVE  IdleInv'
<1> USE WorkersCount DEF SignalStop
<1>1. /\ phase' \in [Workers -> Phases]
      /\ \A v \in Workers : phase'[v] \in {"working", "blocked"}
      /\ Cardinality(Blocked') = NumberOfWorkers - 1
  BY ReturnToWork
<1>2. permits = 0 /\ permits' = NumberOfWorkers - 1
  BY DEF IdleInv, LastIsAlone
<1>3. IdleTypeOK'
  BY <1>1, <1>2 DEF IdleInv, IdleTypeOK
<1>4. PermitAccounting'
  BY <1>1, <1>2 DEF PermitAccounting
<1>5. LastIsAlone' /\ \A v \in Workers : LastState(v)' /\ ReleaseState(v)'
  BY <1>1 DEF LastIsAlone, LastState, ReleaseState
<1> QED
  BY <1>3, <1>4, <1>5 DEF IdleInv

LEMMA TakePermitKeeps ==
    ASSUME IdleInv, NEW w \in Workers, TakePermit(w)
    PROVE  IdleInv'
<1> USE WorkersCount DEF TakePermit
<1>0. \A v \in Workers : phase[v] \in {"working", "blocked"}
  BY WorkingMeansNobodyLast
<1>1. /\ \A v \in Workers : phase'[v] \in {"working", "blocked"}
      /\ phase' \in [Workers -> Phases]
  BY <1>0 DEF IdleInv, IdleTypeOK, Phases
<1>2. Cardinality(Blocked') = Cardinality(Blocked) - 1
  BY OneLessBlocked DEF IdleInv, IdleTypeOK
<1>3. IdleTypeOK'
  BY <1>1 DEF IdleInv, IdleTypeOK
<1>4. PermitAccounting'
  <2>1. IF shouldStop THEN permits = Cardinality(Blocked)
                      ELSE idle + permits = Cardinality(Blocked)
    BY <1>0 DEF IdleInv, PermitAccounting
  <2>2. IF shouldStop' THEN permits' = Cardinality(Blocked')
                       ELSE idle' + permits' = Cardinality(Blocked')
    BY <2>1, <1>2 DEF IdleInv, IdleTypeOK
  <2> QED
    BY <2>2 DEF PermitAccounting
<1>5. LastIsAlone' /\ \A v \in Workers : LastState(v)' /\ ReleaseState(v)'
  BY <1>1 DEF LastIsAlone, LastState, ReleaseState
<1> QED
  BY <1>0, <1>3, <1>4, <1>5 DEF IdleInv

-----------------------------------------------------------------------------

\* Every step of the hand-shake keeps the invariant.  The specifications of
\* the schedulers, whose steps are steps of the hand-shake or leave its
\* variables alone, inherit the invariant through this lemma.
LEMMA StepKeepsIdleInv == IdleInv /\ [IdleNext]_idleVars => IdleInv'
<1> SUFFICES ASSUME IdleInv, [IdleNext]_idleVars PROVE IdleInv'
  OBVIOUS
<1>1. CASE UNCHANGED idleVars
  <2>1. Blocked' = Blocked
    BY <1>1 DEF idleVars, Blocked
  <2> QED
    BY <1>1, <2>1 DEF idleVars, IdleInv, IdleTypeOK, LastIsAlone,
                      PermitAccounting, LastState, ReleaseState
<1>2. CASE IdleNext
  BY <1>2, GoIdleKeeps, GoIdleLastKeeps, LowerIdleKeeps, ReleasePermitsKeeps,
     TakePermitKeeps, SignalStopKeeps DEF IdleNext
<1> QED
  BY <1>1, <1>2

\* IdleInv says in particular that the workers never all sleep for good.
LEMMA IdleInvGivesSafety ==
    IdleInv => IdleTypeOK /\ LastIsAlone /\ PermitAccounting /\ SomebodyCanRun
<1> SUFFICES ASSUME IdleInv, \A w \in Workers : phase[w] = "blocked"
             PROVE  permits > 0
  BY DEF IdleInv, SomebodyCanRun
<1>1. Blocked = Workers
  BY DEF Blocked
<1>2. IF shouldStop THEN permits = NumberOfWorkers
                    ELSE idle + permits = NumberOfWorkers
  BY <1>1 DEF IdleInv, PermitAccounting, NumberOfWorkers
<1>3. ~shouldStop => idle < NumberOfWorkers
  BY DEF IdleInv
<1> QED
  BY <1>2, <1>3, WorkersCount DEF IdleInv, IdleTypeOK

\* The hand-shake of the schedulers (wait_for_work, notify_workers,
\* signal_stop) always satisfies the inductive invariant.
THEOREM IdleInvariant == IdleSpec => []IdleInv
  BY InitIdleInv, StepKeepsIdleInv, PTL DEF IdleSpec

\* The worker that hands out work is alone: its unlocked accesses to the
\* queues, the counters and the number of idle workers race with nobody.
THEOREM LastIsAloneTheorem == IdleSpec => []LastIsAlone
  BY IdleInvariant, IdleInvGivesSafety, PTL

\* Wake-ups are neither lost nor invented.
THEOREM PermitAccountingTheorem == IdleSpec => []PermitAccounting
  BY IdleInvariant, IdleInvGivesSafety, PTL

\* The workers never all sleep on the semaphore with no permit left.
THEOREM SomebodyCanRunTheorem == IdleSpec => []SomebodyCanRun
  BY IdleInvariant, IdleInvGivesSafety, PTL
=============================================================================
