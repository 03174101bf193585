-------------------------- MODULE NPSchedulerProofs --------------------------
(***************************************************************************)
(* Theorems about the NP scheduler for every number of workers and every   *)
(* program: it implements the idle hand-shake; a worker never pops the     *)
(* vector of a level that is not the current one; no two threads of the    *)
(* pool have the same number; a worker that inserts a reaction has a slot  *)
(* of the vector to itself; the index the last worker reads is the number  *)
(* of filled slots; and the whole implements TagExecution.                 *)
(*                                                                         *)
(* The last three rest on QueueInv, which says where every queued reaction *)
(* is.  There is one lemma for each action that touches a queue.           *)
(***************************************************************************)
EXTENDS NPScheduler, IdleWorkersProofs

-----------------------------------------------------------------------------
(* The idle hand-shake.                                                    *)

\* The steps that leave the hand-shake alone.
LEMMA OtherStepsLeaveIdleVars ==
    ASSUME NEW w \in Workers,
           \/ StartThread(w) \/ GetReadyReaction(w) \/ Execute(w)
           \/ ResetIndex(w) \/ StayAtTag(w) \/ AdvanceTag(w)
           \/ EventsPopped(w) \/ Distribute(w)
    PROVE  UNCHANGED idleVars
<1>1. CASE StartThread(w) \/ GetReadyReaction(w)
  BY <1>1 DEF StartThread, GetReadyReaction, Exit, ReadLevel, Pop, Take
<1>2. CASE Execute(w)
  BY <1>2 DEF Execute, RequestStop, Invoke, TriggerReaction, ClaimSlot,
              StoreReaction, DoneWithReaction
<1>3. CASE ResetIndex(w) \/ StayAtTag(w) \/ AdvanceTag(w) \/ EventsPopped(w)
  BY <1>3 DEF ResetIndex, StayAtTag, AdvanceTag, EventsPopped
<1>4. CASE Distribute(w)
  BY <1>4 DEF Distribute
<1> QED
  BY <1>1, <1>2, <1>3, <1>4

LEMMA NPStepIsHandshakeStep == [Next]_vars => [IdleNext]_idleVars
<1> SUFFICES ASSUME [Next]_vars PROVE [IdleNext]_idleVars
  OBVIOUS
<1>1. CASE UNCHANGED vars
  BY <1>1 DEF vars
<1>2. ASSUME NEW w \in Workers, WorkerStep(w) PROVE [IdleNext]_idleVars
  <2>1. CASE Block(w) \/ BlockLast(w) \/ Release(w) \/ Resume(w) \/ Stop(w)
    BY <2>1 DEF Block, BlockLast, Release, Resume, Stop, IdleNext
  <2>2. CASE NotifyWorkers(w)
    <3>1. PICK k \in 1 .. idle : LowerIdle(w, k)
      BY <2>2 DEF NotifyWorkers, LowerIdle
    <3> QED
      BY <3>1 DEF IdleNext
  <2> QED
    BY <1>2, <2>1, <2>2, OtherStepsLeaveIdleVars DEF WorkerStep, WaitForWork
<1> QED
  BY <1>1, <1>2 DEF Next

\* The NP scheduler implements the idle hand-shake.
THEOREM NPImplementsHandshake == Spec => IdleSpec
<1>1. Init => IdleInit
  BY DEF Init
<1> QED
  BY <1>1, NPStepIsHandshakeStep, PTL DEF Spec, IdleSpec

\* Hence the worker that distributes reactions, pops events and advances the
\* tag is alone.
THEOREM NPLastIsAlone == Spec => []LastIsAlone
  BY NPImplementsHandshake, LastIsAloneTheorem, PTL

\* Hence no wake-up of a worker is lost.
THEOREM NPSomebodyCanRun == Spec => []SomebodyCanRun
  BY NPImplementsHandshake, SomebodyCanRunTheorem, PTL

-----------------------------------------------------------------------------
(* Levels.                                                                 *)

\* What EXCEPT needs: the local variables are functions on the workers.
LocalShapes ==
    /\ mode \in [Workers -> Modes]
    /\ DOMAIN running = Workers
    /\ DOMAIN level = Workers
    /\ executing \in Int /\ nextLevel \in Int

LevelsHold == IdleInv /\ LocalShapes /\ LevelInv

\* Nobody is the last one while a worker runs.
LEMMA NobodyIsLast ==
    ASSUME IdleInv, NEW w \in Workers, phase[w] = "working"
    PROVE  \A v \in Workers : phase[v] # "last" /\ phase[v] # "release"
BY WorkingMeansNobodyLast

\* The others are about to read the level while one worker is the last.
LEMMA OthersGetReady ==
    ASSUME LevelsHold, NEW w \in Workers, phase[w] \in {"last", "release"}
    PROVE  \A v \in Workers \ {w} :
               phase[v] = "blocked" /\ mode[v] = "get" /\ running[v] = None
BY DEF LevelsHold, IdleInv, LastIsAlone, LevelInv, ModeOfPhase

\* A worker keeps the levels when it takes, runs and reports reactions.
LEMMA RunningKeepsLevels ==
    ASSUME LevelsHold, NEW w \in Workers,
           StartThread(w) \/ GetReadyReaction(w) \/ Execute(w)
    PROVE  LocalShapes' /\ LevelInv'
<1> USE DEF LevelsHold, LocalShapes, LevelInv, ModeOfPhase, LevelsAgree, LevelIsCurrent,
            Modes, Enter, idleVars, levelVars, workVars
<1>1. CASE StartThread(w)
  BY <1>1 DEF StartThread
<1>2. CASE Exit(w)
  BY <1>2 DEF Exit
<1>3. CASE ReadLevel(w)
  <2>1. executing = nextLevel - 1
    BY <1>3, NobodyIsLast DEF ReadLevel
  <2> QED
    BY <1>3, <2>1 DEF ReadLevel
<1>4. CASE Pop(w)
  BY <1>4 DEF Pop
<1>5. CASE Take(w)
  BY <1>5 DEF Take
<1>6. CASE RequestStop(w)
  BY <1>6 DEF RequestStop
<1>7. CASE Invoke(w)
  BY <1>7 DEF Invoke
<1>8. CASE TriggerReaction(w)
  BY <1>8 DEF TriggerReaction
<1>9. CASE ClaimSlot(w)
  BY <1>9 DEF ClaimSlot
<1>10. CASE StoreReaction(w)
  BY <1>10 DEF StoreReaction
<1>11. CASE DoneWithReaction(w)
  BY <1>11 DEF DoneWithReaction
<1> QED
  BY <1>1, <1>2, <1>3, <1>4, <1>5, <1>6, <1>7, <1>8, <1>9, <1>10, <1>11
     DEF GetReadyReaction, Execute

\* A worker keeps the levels when it goes idle and, as the last one, advances
\* level and tag.
LEMMA WaitingKeepsLevels ==
    ASSUME LevelsHold, NEW w \in Workers, WaitForWork(w)
    PROVE  LocalShapes' /\ LevelInv'
<1> USE DEF LevelsHold, LocalShapes, LevelInv, ModeOfPhase, LevelsAgree, LevelIsCurrent,
            Modes, Enter, idleVars, levelVars, workVars
<1>0. phase \in [Workers -> Phases]
  BY DEF IdleInv, IdleTypeOK
<1>1. CASE Block(w)
  BY <1>0, <1>1, NobodyIsLast DEF Block, GoIdle
<1>2. CASE BlockLast(w)
  BY <1>0, <1>2 DEF BlockLast, GoIdleLast
<1>3. CASE ResetIndex(w) \/ StayAtTag(w) \/ EventsPopped(w)
  <2>1. phase[w] = "last" /\ running[w] = None
    BY <1>3 DEF ResetIndex, StayAtTag, EventsPopped
  <2> QED
    BY <1>3, <2>1 DEF ResetIndex, StayAtTag, EventsPopped
<1>4. CASE Stop(w)
  <2>1. phase[w] = "last" /\ running[w] = None
    BY <1>4 DEF Stop
  <2>2. \A v \in Workers \ {w} :
            phase[v] = "blocked" /\ mode[v] = "get" /\ running[v] = None
    BY <2>1, OthersGetReady
  <2> QED
    BY <1>0, <1>4, <2>1, <2>2 DEF Stop, SignalStop
<1>5. CASE AdvanceTag(w)
  <2>1. phase[w] = "last" /\ running[w] = None
    BY <1>5 DEF AdvanceTag
  <2>2. \A v \in Workers \ {w} :
            phase[v] = "blocked" /\ mode[v] = "get" /\ running[v] = None
    BY <2>1, OthersGetReady
  <2>3. mode' = [mode EXCEPT ![w] = "trigger"] /\ nextLevel' = 0
    BY <1>5 DEF AdvanceTag
  <2>4. UNCHANGED <<phase, running, level, executing, shouldStop>>
    BY <1>5 DEF AdvanceTag
  <2>5. \A v \in Workers : ModeOfPhase(v)'
    BY <2>1, <2>2, <2>3, <2>4
  <2>6. LocalShapes' /\ LevelsAgree' /\ LevelIsCurrent'
    BY <2>1, <2>2, <2>3, <2>4
  <2> QED
    BY <2>5, <2>6
<1>6. CASE Distribute(w)
  <2>1. phase[w] = "last" /\ running[w] = None
    BY <1>6 DEF Distribute
  <2>2. \A v \in Workers \ {w} :
            phase[v] = "blocked" /\ mode[v] = "get" /\ running[v] = None
    BY <2>1, OthersGetReady
  <2>3. UNCHANGED <<phase, running, level, shouldStop>>
    BY <1>6 DEF Distribute
  <2>4. /\ executing' \in Int /\ nextLevel' \in Int
        /\ \/ mode' = [mode EXCEPT ![w] = "notify"] /\ executing' = nextLevel' - 1
           \/ mode' = [mode EXCEPT ![w] = "loop"]
    <3>1. MaxLevel \in Int /\ Ready \subseteq Int
      BY NPAssumption DEF Ready
    <3> QED
      BY <1>6, <3>1 DEF Distribute
  <2>5. \A v \in Workers : ModeOfPhase(v)'
    <3> SUFFICES ASSUME NEW v \in Workers PROVE ModeOfPhase(v)'
      OBVIOUS
    <3>1. CASE v = w
      BY <2>1, <2>3, <2>4, <3>1
    <3>2. CASE v # w
      BY <2>2, <2>3, <2>4, <3>2
    <3> QED
      BY <3>1, <3>2
  <2>6. LocalShapes' /\ LevelsAgree' /\ LevelIsCurrent'
    BY <2>1, <2>2, <2>3, <2>4
  <2> QED
    BY <2>5, <2>6
<1>7. CASE NotifyWorkers(w)
  <2>1. phase[w] = "last" /\ running[w] = None /\ mode[w] = "notify"
    BY <1>7 DEF NotifyWorkers, LowerIdle
  <2>2. \A v \in Workers \ {w} :
            phase[v] = "blocked" /\ mode[v] = "get" /\ running[v] = None
    BY <2>1, OthersGetReady
  <2>3. executing = nextLevel - 1
    BY <2>1, <2>2 DEF IdleInv, LastState
  <2> QED
    BY <1>0, <1>7, <2>1, <2>2, <2>3 DEF NotifyWorkers, LowerIdle
<1>8. CASE Release(w)
  <2>1. \A v \in Workers \ {w} :
            phase[v] = "blocked" /\ mode[v] = "get" /\ running[v] = None
    BY <1>8, OthersGetReady DEF Release, ReleasePermits
  <2> QED
    BY <1>0, <1>8, <2>1 DEF Release, ReleasePermits
<1>9. CASE Resume(w)
  BY <1>0, <1>9 DEF Resume, TakePermit
<1> QED
  BY <1>1, <1>2, <1>3, <1>4, <1>5, <1>6, <1>7, <1>8, <1>9 DEF WaitForWork

LEMMA StepKeepsLevels == LevelsHold /\ [Next]_vars => LevelsHold'
<1> SUFFICES ASSUME LevelsHold, [Next]_vars PROVE LevelsHold'
  OBVIOUS
<1>1. IdleInv'
  BY StepKeepsIdleInv, NPStepIsHandshakeStep DEF LevelsHold
<1>2. CASE UNCHANGED vars
  BY <1>1, <1>2 DEF vars, idleVars, workVars, levelVars, LevelsHold, LocalShapes,
         LevelInv, ModeOfPhase, LevelsAgree, LevelIsCurrent
<1>3. ASSUME NEW w \in Workers, WorkerStep(w) PROVE LevelsHold'
  BY <1>1, <1>3, RunningKeepsLevels, WaitingKeepsLevels DEF WorkerStep, LevelsHold
<1> QED
  BY <1>2, <1>3 DEF Next

\* The program starts with these facts.
LEMMA LevelsHoldAtStart == Init => LevelsHold
<1> SUFFICES ASSUME Init PROVE LevelsHold
  OBVIOUS
<1>1. IdleInit
  BY DEF Init
<1>2. IdleInv
  BY <1>1, InitIdleInv
<1> QED
  BY <1>1, <1>2 DEF Init, IdleInit, LevelsHold, LocalShapes, Modes, LevelInv, ModeOfPhase,
         LevelsAgree, LevelIsCurrent

\* The level a worker pops and the vector it reads are those of the level being
\* executed, for every number of workers and every program: the copies a worker
\* made of them earlier are not stale.
THEOREM NPLevelIsCurrent == Spec => []LevelIsCurrent
<1>1. LevelsHold => LevelIsCurrent
  BY DEF LevelsHold, LevelInv
<1> QED
  BY <1>1, LevelsHoldAtStart, StepKeepsLevels, PTL DEF Spec

-----------------------------------------------------------------------------
(* Worker numbers.                                                         *)

NumbersHold ==
    /\ LevelsHold
    /\ number \in [Workers -> Int] /\ threads \in Int
    /\ NumbersInv

\* A thread in the pool that makes a step which changes no number, neither
\* ends nor signals the stop leaves the numbers alone.
LEMMA InPoolKeepsNumbers ==
    ASSUME NumbersHold, NEW w \in Workers, NEW m \in Modes \ {"new", "exited"},
           mode[w] \notin {"new", "exited"}, mode' = [mode EXCEPT ![w] = m],
           UNCHANGED <<number, threads, shouldStop>>
    PROVE  number' \in [Workers -> Int] /\ threads' \in Int /\ NumbersInv'
<1>1. \A v \in Workers :
         /\ mode'[v] = "new" <=> mode[v] = "new"
         /\ mode'[v] = "exited" <=> mode[v] = "exited"
  BY DEF NumbersHold, LevelsHold, LocalShapes
<1> QED
  BY <1>1 DEF NumbersHold, NumbersInv, NumbersDiffer

LEMMA StepKeepsNumbers == NumbersHold /\ [Next]_vars => NumbersHold'
<1> SUFFICES ASSUME NumbersHold, [Next]_vars
             PROVE  number' \in [Workers -> Int] /\ threads' \in Int /\ NumbersInv'
  BY StepKeepsLevels DEF NumbersHold
<1> USE DEF threadVars
<1>1. CASE UNCHANGED vars
  BY <1>1 DEF vars, idleVars, NumbersHold, NumbersInv, NumbersDiffer
<1>2. ASSUME NEW w \in Workers, WorkerStep(w)
      PROVE  number' \in [Workers -> Int] /\ threads' \in Int /\ NumbersInv'
  <2>0. mode \in [Workers -> Modes]
    BY DEF NumbersHold, LevelsHold, LocalShapes
  <2>1. CASE StartThread(w)
    <3>1. ~shouldStop /\ \A v \in Workers \ {w} : mode[v] # "new" => number[v] < threads
      BY <2>1 DEF StartThread, NumbersHold, NumbersInv
    <3>2. mode' = [mode EXCEPT ![w] = "get"] /\ UNCHANGED shouldStop
      BY <2>1 DEF StartThread, Enter, idleVars
    <3>3. number' = [number EXCEPT ![w] = threads] /\ threads' = threads + 1
      BY <2>1 DEF StartThread
    <3> QED
      BY <2>0, <3>1, <3>2, <3>3 DEF NumbersHold, NumbersInv, NumbersDiffer
  <2>2. CASE Exit(w)
    <3>1. shouldStop /\ mode[w] = "get" /\ mode' = [mode EXCEPT ![w] = "exited"]
      BY <2>2 DEF Exit, Enter
    <3>2. UNCHANGED <<number, shouldStop>> /\ threads' = threads - 1
      BY <2>2 DEF Exit, idleVars
    <3> QED
      BY <2>0, <3>1, <3>2 DEF NumbersHold, NumbersInv, NumbersDiffer
  <2>3. CASE Stop(w)
    <3>1. phase[w] = "last" /\ mode[w] = "loop" /\ shouldStop'
      BY <2>3 DEF Stop, SignalStop
    <3>2. \A v \in Workers \ {w} : mode[v] = "get"
      BY <3>1, OthersGetReady DEF NumbersHold
    <3>3. mode' = [mode EXCEPT ![w] = "get"] /\ UNCHANGED <<number, threads>>
      BY <2>3 DEF Stop, Enter
    <3> QED
      BY <2>0, <3>1, <3>2, <3>3 DEF NumbersHold, NumbersInv, NumbersDiffer
  <2>4. CASE ReadLevel(w) \/ Pop(w) \/ Take(w)
    BY <2>4, InPoolKeepsNumbers DEF ReadLevel, Pop, Take, Enter, Modes, idleVars
  <2>5. CASE RequestStop(w) \/ Release(w) \/ Resume(w)
    BY <2>5 DEF RequestStop, Release, ReleasePermits, Resume, TakePermit, idleVars,
                NumbersHold, NumbersInv, NumbersDiffer
  <2>6. CASE TriggerReaction(w)
    <3>1. mode[w] = "trigger" /\ UNCHANGED <<number, threads, shouldStop>>
      BY <2>6 DEF TriggerReaction, idleVars
    <3>2. mode' = [mode EXCEPT ![w] = "insert"] \/ UNCHANGED mode
      BY <2>6 DEF TriggerReaction, Enter
    <3>3. CASE mode' = [mode EXCEPT ![w] = "insert"]
      BY <3>1, <3>3, InPoolKeepsNumbers DEF Modes
    <3>4. CASE UNCHANGED mode
      BY <3>1, <3>4 DEF NumbersHold, NumbersInv, NumbersDiffer
    <3> QED
      BY <3>2, <3>3, <3>4
  <2>7. CASE Invoke(w) \/ ClaimSlot(w) \/ StoreReaction(w) \/ DoneWithReaction(w)
    BY <2>7, InPoolKeepsNumbers
       DEF Invoke, ClaimSlot, StoreReaction, DoneWithReaction, Enter, Modes, idleVars
  <2>8. CASE Block(w) \/ BlockLast(w) \/ ResetIndex(w) \/ StayAtTag(w)
    BY <2>8, InPoolKeepsNumbers
       DEF Block, GoIdle, BlockLast, GoIdleLast, ResetIndex, StayAtTag, Enter, Modes, idleVars
  <2>9. CASE AdvanceTag(w)
    BY <2>9, InPoolKeepsNumbers DEF AdvanceTag, Enter, Modes, idleVars
  <2>10. CASE EventsPopped(w) \/ Distribute(w) \/ NotifyWorkers(w)
    BY <2>10, InPoolKeepsNumbers
       DEF EventsPopped, Distribute, NotifyWorkers, LowerIdle, Enter, Modes, idleVars
  <2> QED
    BY <1>2, <2>1, <2>2, <2>3, <2>4, <2>5, <2>6, <2>7, <2>8, <2>9, <2>10
       DEF WorkerStep, GetReadyReaction, Execute, WaitForWork
<1> QED
  BY <1>1, <1>2 DEF Next

\* Two threads of the pool never have the same number, for every number of
\* workers and every program, although numbers are given by counting the
\* threads and threads that end are no longer counted.
THEOREM NPNumbersDiffer == Spec => []NumbersDiffer
<1>1. Init => NumbersHold
  BY LevelsHoldAtStart DEF Init, IdleInit, NumbersHold, NumbersInv, NumbersDiffer
<1>2. NumbersHold => NumbersDiffer
  BY DEF NumbersHold, NumbersInv
<1> QED
  BY <1>1, <1>2, StepKeepsNumbers, PTL DEF Spec

-----------------------------------------------------------------------------
(* Where the queued reactions are.                                         *)

QueueTypes ==
    /\ running \in [Workers -> Reactions \cup {None}]
    /\ pending \in [Workers -> SUBSET Reactions]
    /\ inserting \in [Workers -> Reactions \cup {None}]
    /\ level \in [Workers -> Levels]
    /\ slot \in [Workers -> Int]
    /\ status \in [Reactions -> {"inactive", "queued"}]
    /\ index \in [Levels -> Int]
    /\ DOMAIN vector = Levels
    /\ \A l \in Levels : vector[l] \in [0 .. VectorSize(l) - 1 -> AtLevel(l) \cup {None}]
    /\ executing \in Levels
    /\ nextLevel \in 0 .. MaxLevel + 1
    /\ tag \in 0 .. stopTag /\ stopTag \in Nat /\ completed \in BOOLEAN

QueuesHold == LevelsHold /\ QueueTypes /\ QueueInv

\* The reactions of a level are finitely many, and all reactions have one.
LEMMA LevelFacts ==
    /\ MaxLevel \in Nat /\ None \notin Reactions
    /\ \A r \in Reactions : Level[r] \in Levels /\ r \in AtLevel(Level[r])
    /\ \A l \in Levels : IsFiniteSet(AtLevel(l)) /\ VectorSize(l) \in Nat \ {0}
<1>1. \A l \in Levels : IsFiniteSet(AtLevel(l)) /\ VectorSize(l) \in Nat \ {0}
  <2> TAKE l \in Levels
  <2>1. AtLevel(l) \in SUBSET Reactions /\ IsFiniteSet(Reactions) /\ AtLevel(l) # {}
    BY NPAssumption DEF AtLevel, Levels
  <2>2. IsFiniteSet(AtLevel(l))
    BY <2>1, FS_Subset
  <2> QED
    BY <2>1, <2>2, FS_CardinalityType, FS_EmptySet DEF VectorSize
<1> QED
  BY <1>1, NPAssumption DEF Levels, AtLevel

LEMMA SamePlaces ==
    ASSUME OnePlace, UNCHANGED <<status, vector, running, inserting>>
    PROVE  OnePlace'
BY DEF OnePlace

LEMMA SameSlots ==
    ASSUME SlotsFilled, UNCHANGED <<vector, index>>,
           \A w \in Workers, l \in Levels, i \in Int :
               /\ Storing(w, l, i)' <=> Storing(w, l, i)
               /\ Taking(w, l, i)' <=> Taking(w, l, i)
    PROVE  SlotsFilled'
<1> SUFFICES ASSUME NEW l \in Levels, NEW i \in 0 .. VectorSize(l) - 1
             PROVE  (vector[l][i] # None <=>
                        \/ i < index[l] /\ \A v \in Workers : ~Storing(v, l, i)
                        \/ \E v \in Workers : Taking(v, l, i))'
  BY DEF SlotsFilled
<1>1. i \in Int
  BY LevelFacts
<1>2. vector[l][i] # None <=>
          \/ i < index[l] /\ \A v \in Workers : ~Storing(v, l, i)
          \/ \E v \in Workers : Taking(v, l, i)
  BY DEF SlotsFilled
<1> QED
  BY <1>1, <1>2

\* What a step that touches no queue may do.
Untouched == UNCHANGED <<status, vector, index, executing, nextLevel, running, inserting, slot>>

\* A worker that goes from one place outside the queues to another one leaves the
\* queues as they are.
LEMMA QuietStep ==
    ASSUME QueuesHold, NEW w \in Workers, NEW m \in Modes, Untouched,
           mode' = [mode EXCEPT ![w] = m],
           mode[w] \notin {"insert", "store", "take"}, m \notin {"insert", "store", "take"},
           \/ m \in {"loop", "distribute"} <=> mode[w] \in {"loop", "distribute"}
           \/ nextLevel = 0,
           m \in {"idle", "reset"} => mode[w] \in {"idle", "reset"}, m # "notify"
    PROVE  /\ SlotsFilled' /\ SlotsClaimed' /\ SlotsPopped'
           /\ IndexCounts' /\ WorkSeen' /\ OnePlace'
<1> USE DEF QueuesHold, LevelsHold, LocalShapes, QueueInv, Untouched
<1>1. /\ \A v \in Workers : mode'[v] = IF v = w THEN m ELSE mode[v]
      /\ \A v \in Workers : \A q \in {"insert", "store", "take"} :
            mode'[v] = q <=> mode[v] = q
  OBVIOUS
<1>2. \A v \in Workers, l \in Levels, i \in Int :
         /\ Storing(v, l, i)' <=> Storing(v, l, i)
         /\ Taking(v, l, i)' <=> Taking(v, l, i)
  BY <1>1 DEF Storing, Taking
<1>3. SlotsFilled'
  BY <1>2, SameSlots
<1>4. SlotsClaimed' /\ SlotsPopped'
  BY <1>1 DEF SlotsClaimed, SlotsPopped
<1>5. IndexCounts'
  <2>1. \A l \in Levels : Slotted(l)' = Slotted(l)
    BY <1>1 DEF Slotted
  <2>2. \A l \in Levels : Closed(l)' <=> Closed(l)
    BY <1>1 DEF Closed, Levels
  <2> QED
    BY <2>1, <2>2 DEF IndexCounts
<1>6. WorkSeen'
  BY <1>1 DEF WorkSeen
<1>7. OnePlace'
  BY DEF OnePlace
<1> QED
  BY <1>3, <1>4, <1>5, <1>6, <1>7

\* The same for the part of a worker in the hand-shake.
LEMMA GoingKeepsQueues ==
    ASSUME QueuesHold, NEW w \in Workers, NEW m \in Modes, Untouched,
           mode' = [mode EXCEPT ![w] = m], UNCHANGED <<pending, shouldStop>>,
           mode[w] \notin {"trigger", "insert", "store", "take"},
           m \notin {"trigger", "insert", "store", "take"},
           m \in {"loop", "distribute"} <=> mode[w] \in {"loop", "distribute"},
           m \in {"idle", "reset"} => mode[w] \in {"idle", "reset"}, m # "notify",
           m = "reset" => executing = nextLevel - 1,
           shouldStop => m \in {"get", "exited"}
    PROVE  QueueInv'
<1> USE DEF QueuesHold, LevelsHold, LocalShapes, QueueInv, Untouched
<1>1. Upwards' /\ StopIsFinal'
  BY DEF Upwards, StopIsFinal
<1> QED
  BY <1>1, QuietStep

LEMMA HandshakeKeepsQueues ==
    ASSUME QueuesHold, NEW w \in Workers,
           \/ StartThread(w) \/ Exit(w) \/ ReadLevel(w) \/ Block(w) \/ BlockLast(w)
           \/ StayAtTag(w) \/ NotifyWorkers(w)
    PROVE  QueueInv'
<1> USE DEF idleVars, workVars, queueVars, levelVars, Enter, Modes, Untouched
<1>1. shouldStop => mode[w] \in {"get", "exited"}
  BY DEF QueuesHold, QueueInv, StopIsFinal
<1>2. CASE StartThread(w) \/ Exit(w) \/ ReadLevel(w)
  BY <1>1, <1>2, GoingKeepsQueues DEF StartThread, Exit, ReadLevel
<1>3. CASE Block(w) \/ StayAtTag(w) \/ NotifyWorkers(w)
  BY <1>1, <1>3, GoingKeepsQueues
     DEF Block, GoIdle, StayAtTag, NotifyWorkers, LowerIdle
<1>4. CASE BlockLast(w)
  <2>1. phase[w] = "working" /\ ~shouldStop
    BY <1>4 DEF BlockLast, GoIdleLast
  <2>2. executing = nextLevel - 1
    BY <2>1, NobodyIsLast DEF QueuesHold, LevelsHold, LevelInv, LevelsAgree
  <2> QED
    BY <1>4, <2>1, <2>2, GoingKeepsQueues DEF BlockLast, GoIdleLast
<1> QED
  BY <1>2, <1>3, <1>4

\* Permits and requests to stop have nothing to do with the queues.
LEMMA OutsideKeepsQueues ==
    ASSUME QueuesHold,
           UNCHANGED <<mode, workVars, queueVars, levelVars, shouldStop>>
    PROVE  QueueInv'
<1> USE DEF workVars, queueVars, levelVars, QueuesHold, QueueInv
<1>1. \A w \in Workers, l \in Levels, i \in Int :
         /\ Storing(w, l, i)' <=> Storing(w, l, i)
         /\ Taking(w, l, i)' <=> Taking(w, l, i)
  BY DEF Storing, Taking
<1>2. SlotsFilled'
  BY <1>1, SameSlots
<1>3. \A l \in Levels : Slotted(l)' = Slotted(l) /\ (Closed(l)' <=> Closed(l))
  BY DEF Slotted, Closed
<1>4. IndexCounts'
  BY <1>3 DEF IndexCounts
<1>5. SlotsClaimed' /\ SlotsPopped' /\ WorkSeen' /\ OnePlace' /\ Upwards' /\ StopIsFinal'
  BY DEF SlotsClaimed, SlotsPopped, WorkSeen, OnePlace, Upwards, StopIsFinal
<1> QED
  BY <1>2, <1>4, <1>5

LEMMA InvokeKeepsQueues ==
    ASSUME QueuesHold, NEW w \in Workers, Invoke(w)
    PROVE  QueueInv'
<1> USE DEF workVars, queueVars, levelVars, idleVars, Enter, Modes, Untouched
<1>1. PICK triggered \in Effects[running[w]] : pending' = [pending EXCEPT ![w] = triggered]
  BY DEF Invoke
<1>2. mode[w] = "invoke" /\ running[w] \in Reactions
  BY DEF Invoke, QueuesHold, LevelsHold, LevelInv, ModeOfPhase, QueueTypes
<1>3. \A r \in triggered : Level[r] > executing
  <2>1. Level[running[w]] = executing
    BY <1>2, LevelFacts DEF QueuesHold, QueueInv, Upwards
  <2>2. triggered \subseteq Reactions /\ \A r \in triggered : Level[running[w]] < Level[r]
    BY <1>2, NPAssumption
  <2> QED
    BY <2>1, <2>2
<1>4. /\ SlotsFilled' /\ SlotsClaimed' /\ SlotsPopped'
      /\ IndexCounts' /\ WorkSeen' /\ OnePlace'
  BY <1>2, QuietStep DEF Invoke
<1>5. Upwards' /\ StopIsFinal'
  BY <1>1, <1>2, <1>3, LevelFacts
     DEF Invoke, QueuesHold, LevelsHold, LocalShapes, QueueTypes, QueueInv, Upwards, StopIsFinal
<1> QED
  BY <1>4, <1>5 DEF QueueInv

LEMMA EventsPoppedKeepsQueues ==
    ASSUME QueuesHold, NEW w \in Workers, EventsPopped(w)
    PROVE  QueueInv'
<1> USE DEF workVars, queueVars, levelVars, idleVars, Enter, Modes, Untouched
<1>1. mode[w] = "trigger" /\ running[w] = None /\ pending[w] = {}
  BY DEF EventsPopped, QueuesHold, LevelsHold, LevelInv, ModeOfPhase
<1>2. nextLevel = 0
  BY <1>1 DEF QueuesHold, QueueInv, Upwards
<1>3. /\ SlotsFilled' /\ SlotsClaimed' /\ SlotsPopped'
      /\ IndexCounts' /\ WorkSeen' /\ OnePlace'
  BY <1>1, <1>2, QuietStep DEF EventsPopped
<1>4. Upwards' /\ StopIsFinal'
  BY <1>1, <1>2
     DEF EventsPopped, QueuesHold, LevelsHold, LocalShapes, QueueInv, Upwards, StopIsFinal
<1> QED
  BY <1>3, <1>4 DEF QueueInv
-----------------------------------------------------------------------------
(* Pushing and popping.                                                    *)

\* What a worker that is at work knows of the others.
LEMMA AtWork ==
    ASSUME QueuesHold, NEW w \in Workers, phase[w] = "working", ~shouldStop
    PROVE  /\ executing = nextLevel - 1
           /\ \A v \in Workers : mode[v] \notin {"reset", "loop", "distribute", "notify"}
           /\ \A v \in Workers :
                 mode[v] \in {"trigger", "insert", "store"} => running[v] # None
<1>1. \A v \in Workers : phase[v] # "last"
  BY NobodyIsLast DEF QueuesHold, LevelsHold
<1> QED
  BY <1>1 DEF QueuesHold, LevelsHold, LevelInv, LevelsAgree, ModeOfPhase

\* What a worker triggers has its level still to come; what it takes is at the
\* level below.
LEMMA OpenLevels ==
    ASSUME QueuesHold, NEW w \in Workers
    PROVE  /\ mode[w] \in {"trigger", "insert", "store"} =>
                 /\ ~shouldStop
                 /\ \A r \in pending[w] : Level[r] >= nextLevel
           /\ mode[w] \in {"insert", "store"} =>
                 inserting[w] \in Reactions /\ Level[inserting[w]] >= nextLevel
           /\ mode[w] \in {"pop", "take"} =>
                 /\ ~shouldStop /\ phase[w] = "working"
                 /\ level[w] = executing /\ executing = nextLevel - 1
<1> USE DEF QueuesHold, LevelsHold, QueueInv, QueueTypes
<1>1. mode[w] \notin {"get", "exited"} => ~shouldStop
  BY DEF StopIsFinal
<1>2. CASE mode[w] \in {"trigger", "insert", "store"} /\ running[w] = None
  <2>1. nextLevel = 0
    BY <1>2 DEF Upwards
  <2> QED
    BY <1>1, <1>2, <2>1, LevelFacts DEF Upwards, Levels
<1>3. CASE mode[w] \in {"trigger", "insert", "store"} /\ running[w] # None
  <2>1. phase[w] = "working"
    BY <1>3 DEF LevelInv, ModeOfPhase, IdleInv, IdleTypeOK, Phases
  <2>2. executing = nextLevel - 1
    BY <1>1, <1>3, <2>1, AtWork
  <2>3. \A r \in pending[w] : Level[r] > executing /\ Level[r] \in Int
    BY <1>3, LevelFacts DEF Upwards, Levels
  <2>4. mode[w] \in {"insert", "store"} =>
            inserting[w] \in Reactions /\ Level[inserting[w]] > executing
    BY <1>3 DEF Upwards
  <2>5. inserting[w] \in Reactions => Level[inserting[w]] \in Int
    BY LevelFacts DEF Levels
  <2>6. executing \in Int /\ nextLevel \in Int
    BY DEF Levels
  <2> QED
    BY <1>1, <1>3, <2>2, <2>3, <2>4, <2>5, <2>6
<1>4. mode[w] \in {"pop", "take"} => phase[w] = "working"
  BY DEF LevelInv, ModeOfPhase, IdleInv, IdleTypeOK, Phases
<1>5. mode[w] \in {"pop", "take"} => level[w] = executing /\ executing = nextLevel - 1
  BY DEF LevelInv, LevelIsCurrent
<1> QED
  BY <1>1, <1>2, <1>3, <1>4, <1>5

LEMMA PopKeepsQueues ==
    ASSUME QueuesHold, NEW w \in Workers, Pop(w)
    PROVE  QueueInv'
<1> USE DEF QueuesHold, LevelsHold, LocalShapes, QueueInv, QueueTypes
<1>1. mode[w] = "pop" /\ level[w] = executing /\ executing = nextLevel - 1
  BY OpenLevels DEF Pop
<1>2. \A v \in Workers : mode[v] \notin {"reset", "loop", "distribute", "notify"}
  BY <1>1, AtWork, OpenLevels
<1>3. /\ index' = [index EXCEPT ![executing] = @ - 1]
      /\ slot' = [slot EXCEPT ![w] = index[executing] - 1]
      /\ mode' = [mode EXCEPT ![w] = IF index[executing] - 1 >= 0 THEN "take" ELSE "idle"]
      /\ UNCHANGED <<running, pending, inserting, level, status, vector, executing,
                     nextLevel, shouldStop>>
  BY <1>1 DEF Pop, Enter, levelVars, idleVars
<1>4. /\ index[executing] \in Int /\ index[executing] <= VectorSize(executing)
      /\ executing \in Int /\ nextLevel \in Int
      /\ VectorSize(executing) \in Nat
  BY LevelFacts DEF IndexCounts, Levels
<1>5. \A v \in Workers, l \in Levels, i \in Int : Storing(v, l, i)' <=> Storing(v, l, i)
  BY <1>1, <1>3 DEF Storing
<1>6. \A v \in Workers, i \in Int : ~Storing(v, executing, i)
  BY <1>1, <1>4, OpenLevels DEF Storing
<1>7. \A v \in Workers, l \in Levels, i \in Int :
         Taking(v, l, i)' <=> \/ Taking(v, l, i)
                              \/ /\ v = w /\ l = executing
                                 /\ i = index[executing] - 1 /\ i >= 0
  BY <1>1, <1>3, <1>4 DEF Taking
<1>8. SlotsFilled'
  <2> SUFFICES ASSUME NEW l \in Levels, NEW i \in 0 .. VectorSize(l) - 1
               PROVE  (vector[l][i] # None <=>
                          \/ i < index[l] /\ \A v \in Workers : ~Storing(v, l, i)
                          \/ \E v \in Workers : Taking(v, l, i))'
    BY DEF SlotsFilled
  <2>1. i \in Int /\ i >= 0 /\ index[l] \in Int
    BY LevelFacts
  <2>2. vector[l][i] # None <=>
            \/ i < index[l] /\ \A v \in Workers : ~Storing(v, l, i)
            \/ \E v \in Workers : Taking(v, l, i)
    BY DEF SlotsFilled
  <2>3. (\A v \in Workers : ~Storing(v, l, i))' <=> \A v \in Workers : ~Storing(v, l, i)
    BY <2>1, <1>5
  <2>4. (\E v \in Workers : Taking(v, l, i))' <=>
            \/ \E v \in Workers : Taking(v, l, i)
            \/ l = executing /\ i = index[executing] - 1
    BY <2>1, <1>7
  <2>5. vector'[l][i] = vector[l][i]
    BY <1>3
  <2>6. CASE l # executing
    <3>1. index'[l] = index[l]
      BY <1>3, <2>6
    <3> QED
      BY <2>2, <2>3, <2>4, <2>5, <2>6, <3>1
  <2>7. CASE l = executing
    <3>1. index'[l] = index[l] - 1
      BY <1>3, <2>7
    <3>2. \A v \in Workers : ~Storing(v, l, i)
      BY <1>6, <2>1, <2>7
    <3> QED
      BY <2>1, <2>2, <2>3, <2>4, <2>5, <2>7, <3>1, <3>2
  <2> QED
    BY <2>6, <2>7
<1>9. SlotsClaimed'
  <2>1. \A v \in Workers : mode[v] = "store" =>
            inserting[v] \in Reactions /\ Level[inserting[v]] # executing
    BY <1>1, <1>4, OpenLevels
  <2> QED
    BY <1>1, <1>3, <2>1, LevelFacts DEF SlotsClaimed
<1>10. SlotsPopped'
  <2>1. \A v \in Workers : mode'[v] = "take" <=>
            \/ mode[v] = "take"
            \/ v = w /\ index[executing] - 1 >= 0
    BY <1>1, <1>3
  <2>2. slot'[w] = index[executing] - 1 /\ \A v \in Workers \ {w} : slot'[v] = slot[v]
    BY <1>3
  <2>3. index'[executing'] = index[executing] - 1
    BY <1>3
  <2>4. \A v \in Workers : mode[v] = "take" =>
           slot[v] \in 0 .. VectorSize(executing) - 1 /\ slot[v] >= index[executing]
    BY DEF SlotsPopped
  <2>5. \A v \in Workers : mode'[v] = "take" =>
           slot'[v] \in 0 .. VectorSize(executing) - 1 /\ slot'[v] >= index[executing] - 1
    BY <1>1, <1>4, <2>1, <2>2, <2>4
  <2>6. \A v, u \in Workers :
           v # u /\ mode'[v] = "take" /\ mode'[u] = "take" => slot'[v] # slot'[u]
    <3> SUFFICES ASSUME NEW v \in Workers, NEW u \in Workers, v # u,
                        mode'[v] = "take", mode'[u] = "take"
                 PROVE  slot'[v] # slot'[u]
      OBVIOUS
    <3>1. index[executing] \in Int
      BY LevelFacts
    <3>2. \A x \in Workers : x # w /\ mode'[x] = "take" =>
             /\ mode[x] = "take" /\ slot'[x] = slot[x]
             /\ slot[x] \in 0 .. VectorSize(executing) - 1 /\ slot[x] >= index[executing]
      BY <2>1, <2>2, <2>4
    <3>3. CASE v # w /\ u # w
      BY <3>2, <3>3 DEF SlotsPopped
    <3>4. CASE v = w
      BY <2>2, <3>1, <3>2, <3>4, LevelFacts
    <3>5. CASE u = w
      BY <2>2, <3>1, <3>2, <3>5, LevelFacts
    <3> QED
      BY <3>3, <3>4, <3>5
  <2> QED
    BY <1>3, <2>3, <2>5, <2>6 DEF SlotsPopped
<1>11. IndexCounts'
  <2>1. \A l \in Levels : Slotted(l)' = Slotted(l)
    BY <1>1, <1>3 DEF Slotted
  <2>2. \A l \in Levels : Closed(l)' => Closed(l) /\ l # executing
    BY <1>1, <1>2, <1>3 DEF Closed, Levels
  <2>3. \A l \in Levels : VectorSize(l) \in Int
    BY LevelFacts
  <2>4. \A l \in Levels : index'[l] = IF l = executing THEN index[l] - 1 ELSE index[l]
    BY <1>3
  <2>5. \A l \in Levels : l >= nextLevel => l # executing
    BY <1>1, <1>4
  <2> QED
    BY <1>3, <1>4, <2>1, <2>2, <2>3, <2>4, <2>5 DEF IndexCounts
<1>12. WorkSeen'
  BY <1>1, <1>2, <1>3, <1>4 DEF WorkSeen
<1>13. OnePlace' /\ Upwards' /\ StopIsFinal'
  <2>1. OnePlace'
    BY <1>3, SamePlaces
  <2>2. Upwards'
    BY <1>1, <1>3 DEF Upwards
  <2>3. StopIsFinal'
    BY <1>1, <1>3 DEF StopIsFinal
  <2> QED
    BY <2>1, <2>2, <2>3
<1> QED
  BY <1>8, <1>9, <1>10, <1>11, <1>12, <1>13

\* What is in a slot is a reaction of its level.
LEMMA SlotFacts ==
    ASSUME QueueTypes, NEW l \in Levels, NEW i \in 0 .. VectorSize(l) - 1
    PROVE  vector[l][i] # None => vector[l][i] \in Reactions /\ Level[vector[l][i]] = l
BY DEF QueueTypes, AtLevel

\* Nobody else is the last worker while one triggers reactions.
LEMMA NobodyElseIsLast ==
    ASSUME QueuesHold, NEW w \in Workers, mode[w] \in {"trigger", "insert", "store"}
    PROVE  /\ \A v \in Workers : mode[v] \notin {"reset", "loop", "distribute", "notify"}
           /\ \A v \in Workers : mode[v] = "idle" => executing = nextLevel - 1
<1> USE DEF QueuesHold, LevelsHold
<1>1. ~shouldStop
  BY OpenLevels
<1>2. phase[w] \in {"working", "last"}
  BY DEF LevelInv, ModeOfPhase, IdleInv, IdleTypeOK, Phases
<1>3. CASE phase[w] = "working"
  BY <1>1, <1>3, AtWork
<1>4. CASE phase[w] = "last"
  BY <1>4, OthersGetReady
<1> QED
  BY <1>2, <1>3, <1>4

LEMMA TakeKeepsQueues ==
    ASSUME QueuesHold, NEW w \in Workers, Take(w)
    PROVE  QueueInv' /\ running'[w] \in Reactions /\ Level[running'[w]] = executing
<1> USE DEF QueuesHold, LevelsHold, LocalShapes, QueueInv, QueueTypes
<1>1. mode[w] = "take" /\ running[w] = None /\ inserting[w] = None /\ pending[w] = {}
  BY DEF Take, LevelInv, ModeOfPhase, Upwards
<1>2. slot[w] \in 0 .. VectorSize(executing) - 1 /\ slot[w] >= index[executing]
  BY <1>1 DEF SlotsPopped
<1>3. PICK r \in Reactions : r = vector[executing][slot[w]] /\ Level[r] = executing
  <2>1. vector[executing][slot[w]] # None
    BY <1>1, <1>2, LevelFacts DEF SlotsFilled, Taking
  <2>2. vector[executing][slot[w]] \in AtLevel(executing) \cup {None}
    BY <1>2
  <2> QED
    BY <2>1, <2>2 DEF AtLevel
<1>4. /\ running' = [running EXCEPT ![w] = r]
      /\ vector' = [vector EXCEPT ![executing][slot[w]] = None]
      /\ mode' = [mode EXCEPT ![w] = "invoke"]
      /\ UNCHANGED <<pending, inserting, level, slot, status, index, executing,
                     nextLevel, shouldStop>>
  BY <1>3, LevelFacts DEF Take, Enter, levelVars, idleVars
<1>5. \A l \in Levels, i \in Int :
         i \in 0 .. VectorSize(l) - 1 =>
             vector'[l][i] = IF l = executing /\ i = slot[w] THEN None ELSE vector[l][i]
  BY <1>4
<1>6. \A v \in Workers, l \in Levels, i \in Int :
         /\ Storing(v, l, i)' <=> Storing(v, l, i)
         /\ Taking(v, l, i)' <=> Taking(v, l, i) /\ v # w
  BY <1>1, <1>4 DEF Storing, Taking
<1>7. SlotsFilled'
  <2> SUFFICES ASSUME NEW l \in Levels, NEW i \in 0 .. VectorSize(l) - 1
               PROVE  (vector[l][i] # None <=>
                          \/ i < index[l] /\ \A v \in Workers : ~Storing(v, l, i)
                          \/ \E v \in Workers : Taking(v, l, i))'
    BY DEF SlotsFilled
  <2>1. i \in Int /\ index[l] \in Int /\ slot[w] \in Int
    BY LevelFacts
  <2>2. vector[l][i] # None <=>
            \/ i < index[l] /\ \A v \in Workers : ~Storing(v, l, i)
            \/ \E v \in Workers : Taking(v, l, i)
    BY DEF SlotsFilled
  <2>3. (\A v \in Workers : ~Storing(v, l, i))' <=> \A v \in Workers : ~Storing(v, l, i)
    BY <2>1, <1>6
  <2>4. (\E v \in Workers : Taking(v, l, i))' <=> \E v \in Workers \ {w} : Taking(v, l, i)
    BY <2>1, <1>6
  <2>5. index'[l] = index[l]
    BY <1>4
  <2>6. CASE l = executing /\ i = slot[w]
    <3>1. \A v \in Workers \ {w} : ~Taking(v, l, i)
      BY <1>1, <2>6 DEF Taking, SlotsPopped
    <3>2. vector'[l][i] = None
      BY <1>5, <2>1, <2>6
    <3>3. ~(i < index[l])
      BY <1>2, <2>1, <2>6
    <3> QED
      BY <2>3, <2>4, <2>5, <3>1, <3>2, <3>3
  <2>7. CASE ~(l = executing /\ i = slot[w])
    <3>1. ~Taking(w, l, i)
      BY <2>7 DEF Taking
    <3>2. vector'[l][i] = vector[l][i]
      BY <1>5, <2>1, <2>7
    <3> QED
      BY <2>2, <2>3, <2>4, <2>5, <3>1, <3>2
  <2> QED
    BY <2>6, <2>7
<1>8. SlotsClaimed' /\ SlotsPopped'
  BY <1>1, <1>4 DEF SlotsClaimed, SlotsPopped
<1>9. IndexCounts'
  <2>1. \A l \in Levels : Slotted(l)' = Slotted(l) /\ (Closed(l)' <=> Closed(l))
    BY <1>1, <1>4 DEF Slotted, Closed
  <2> QED
    BY <1>4, <2>1 DEF IndexCounts
<1>10. OnePlace'
  <2>1. \A l \in Levels : \A i \in 0 .. VectorSize(l) - 1 :
           /\ vector[l][i] = r <=> l = executing /\ i = slot[w]
           /\ vector[l][i] # None => vector[l][i] \in Reactions
    <3> TAKE l \in Levels
    <3> TAKE i \in 0 .. VectorSize(l) - 1
    <3>1. vector[l][i] # None => vector[l][i] \in Reactions /\ Level[vector[l][i]] = l
      BY SlotFacts
    <3>2. vector[l][i] = r /\ l = executing => i = slot[w]
      BY <1>2, <1>3, LevelFacts DEF OnePlace
    <3> QED
      BY <1>3, <3>1, <3>2, LevelFacts
  <2>2. \A v \in Workers : running[v] # r /\ inserting[v] # r
    BY <1>2, <1>3, LevelFacts DEF OnePlace
  <2>3. \A l \in Levels : \A i \in 0 .. VectorSize(l) - 1 :
           vector'[l][i] = IF l = executing /\ i = slot[w] THEN None ELSE vector[l][i]
    BY <1>5
  <2>4. \A v \in Workers : running'[v] = IF v = w THEN r ELSE running[v]
    BY <1>4
  <2>5. \A q \in Reactions :
           status'[q] = "queued" <=>
               \/ \E i \in 0 .. VectorSize(Level[q]) - 1 : vector'[Level[q]][i] = q
               \/ \E v \in Workers : running'[v] = q \/ inserting'[v] = q
    <3> TAKE q \in Reactions
    <3>1. status[q] = "queued" <=>
             \/ \E i \in 0 .. VectorSize(Level[q]) - 1 : vector[Level[q]][i] = q
             \/ \E v \in Workers : running[v] = q \/ inserting[v] = q
      BY DEF OnePlace
    <3>2. status'[q] = status[q] /\ inserting' = inserting /\ q # None /\ Level[q] \in Levels
      BY <1>4, LevelFacts
    <3>3. CASE q = r
      BY <1>2, <1>3, <2>4, <3>1, <3>2, <3>3
    <3>4. CASE q # r
      <4>1. ASSUME NEW i \in 0 .. VectorSize(Level[q]) - 1
            PROVE  vector'[Level[q]][i] = q <=> vector[Level[q]][i] = q
        <5>1. vector[Level[q]][i] = r <=> Level[q] = executing /\ i = slot[w]
          BY <2>1, <3>2
        <5>2. vector'[Level[q]][i]
                 = IF Level[q] = executing /\ i = slot[w] THEN None ELSE vector[Level[q]][i]
          BY <2>3, <3>2
        <5> QED
          BY <3>2, <3>4, <5>1, <5>2
      <4>2. \A v \in Workers : running'[v] = q <=> running[v] = q
        BY <1>1, <2>4, <3>2, <3>4
      <4> QED
        BY <3>1, <3>2, <4>1, <4>2
    <3> QED
      BY <3>3, <3>4
  <2>6. \A l \in Levels : \A i, j \in 0 .. VectorSize(l) - 1 :
           vector'[l][i] # None /\ vector'[l][i] = vector'[l][j] => i = j
    BY <2>3 DEF OnePlace
  <2>7. \A l \in Levels : \A i \in 0 .. VectorSize(l) - 1 : \A v \in Workers :
           vector'[l][i] # None =>
               running'[v] # vector'[l][i] /\ inserting'[v] # vector'[l][i]
    BY <1>4, <2>1, <2>3, <2>4 DEF OnePlace
  <2>8. \A v, u \in Workers :
          /\ v # u /\ running'[v] # None => running'[v] # running'[u]
          /\ v # u /\ inserting'[v] # None => inserting'[v] # inserting'[u]
          /\ running'[v] # None => running'[v] # inserting'[u]
    BY <1>4, <2>2, <2>4 DEF OnePlace
  <2> QED
    BY <2>5, <2>6, <2>7, <2>8 DEF OnePlace
<1>11. WorkSeen' /\ Upwards' /\ StopIsFinal'
  <2>1. WorkSeen'
    BY <1>4 DEF WorkSeen
  <2>2. Upwards'
    BY <1>1, <1>3, <1>4 DEF Upwards
  <2>3. StopIsFinal'
    BY <1>1, <1>4 DEF StopIsFinal
  <2> QED
    BY <2>1, <2>2, <2>3
<1> QED
  BY <1>3, <1>4, <1>7, <1>8, <1>9, <1>10, <1>11

LEMMA TriggerKeepsQueues ==
    ASSUME QueuesHold, NEW w \in Workers, TriggerReaction(w)
    PROVE  QueueInv'
<1> USE DEF QueuesHold, LevelsHold, LocalShapes, QueueInv, QueueTypes
<1>1. mode[w] = "trigger" /\ inserting[w] = None
  BY DEF TriggerReaction, Upwards
<1>2. PICK r \in pending[w] :
         /\ pending' = [pending EXCEPT ![w] = @ \ {r}]
         /\ IF status[r] = "inactive"
            THEN /\ status' = [status EXCEPT ![r] = "queued"]
                 /\ inserting' = [inserting EXCEPT ![w] = r]
                 /\ mode' = [mode EXCEPT ![w] = "insert"]
            ELSE UNCHANGED <<status, inserting, mode>>
  BY DEF TriggerReaction, Enter
<1>3. UNCHANGED <<running, level, slot, vector, index, executing, nextLevel, shouldStop>>
  BY DEF TriggerReaction, levelVars, idleVars
<1>4. r \in Reactions /\ r # None /\ Level[r] \in Levels /\ Level[r] >= nextLevel /\ ~shouldStop
  BY <1>1, OpenLevels, LevelFacts
<1>5. \A v \in Workers, l \in Levels, i \in Int :
         /\ Storing(v, l, i)' <=> Storing(v, l, i)
         /\ Taking(v, l, i)' <=> Taking(v, l, i)
  BY <1>1, <1>2, <1>3 DEF Storing, Taking
<1>6. SlotsFilled'
  BY <1>3, <1>5, SameSlots
<1>7. SlotsClaimed' /\ SlotsPopped' /\ WorkSeen' /\ StopIsFinal'
  <2>1. \A v \in Workers : \A m \in {"store", "take", "idle", "reset", "notify"} :
           mode'[v] = m => mode[v] = m
    BY <1>1, <1>2
  <2>2. \A v \in Workers : mode'[v] = "store" => inserting'[v] = inserting[v]
    BY <1>1, <1>2
  <2> QED
    BY <1>3, <1>4, <2>1, <2>2 DEF SlotsClaimed, SlotsPopped, WorkSeen, StopIsFinal
<1>8. Upwards'
  BY <1>1, <1>2, <1>3, <1>4 DEF Upwards
<1>9. CASE status[r] = "inactive"
  <2>1. /\ \A q \in Reactions : status'[q] = IF q = r THEN "queued" ELSE status[q]
        /\ \A v \in Workers : inserting'[v] = IF v = w THEN r ELSE inserting[v]
        /\ \A v \in Workers : mode'[v] = IF v = w THEN "insert" ELSE mode[v]
    BY <1>2, <1>4, <1>9
  <2>2. /\ \A i \in 0 .. VectorSize(Level[r]) - 1 : vector[Level[r]][i] # r
        /\ \A v \in Workers : running[v] # r /\ inserting[v] # r
    BY <1>4, <1>9 DEF OnePlace
  <2>3. IndexCounts'
    <3>1. \A l \in Levels : Slotted(l)' = Slotted(l)
      <4> TAKE l \in Levels
      <4>1. \A q \in AtLevel(l) :
              (status[q] = "queued" /\ \A v \in Workers : mode[v] = "insert" => inserting[v] # q)'
              <=> status[q] = "queued" /\ \A v \in Workers : mode[v] = "insert" => inserting[v] # q
        BY <1>1, <1>9, <2>1 DEF AtLevel
      <4> QED
        BY <4>1 DEF Slotted
    <3>2. \A l \in Levels : Closed(l)' => Closed(l) /\ l # Level[r]
      BY <1>1, <1>3, <1>4, <2>1 DEF Closed, Levels
    <3>3. \A l \in Levels : Closed(l)' => \A q \in AtLevel(l) : status'[q] = "inactive"
      <4> SUFFICES ASSUME NEW l \in Levels, Closed(l)', NEW q \in AtLevel(l)
                   PROVE  status'[q] = "inactive"
        OBVIOUS
      <4>1. Closed(l) /\ l # Level[r]
        BY <3>2
      <4>2. status[q] = "inactive" /\ q \in Reactions /\ q # r
        BY <4>1 DEF IndexCounts, AtLevel
      <4> QED
        BY <2>1, <4>2
    <3> QED
      BY <1>3, <3>1, <3>2, <3>3 DEF IndexCounts
  <2>4. OnePlace'
    <3>1. \A q \in Reactions :
            status'[q] = "queued" <=>
               \/ \E i \in 0 .. VectorSize(Level[q]) - 1 : vector'[Level[q]][i] = q
               \/ \E v \in Workers : running'[v] = q \/ inserting'[v] = q
      <4> TAKE q \in Reactions
      <4>1. status[q] = "queued" <=>
               \/ \E i \in 0 .. VectorSize(Level[q]) - 1 : vector[Level[q]][i] = q
               \/ \E v \in Workers : running[v] = q \/ inserting[v] = q
        BY DEF OnePlace
      <4>2. q # r => \A v \in Workers : inserting'[v] = q <=> inserting[v] = q
        BY <1>1, <2>1, LevelFacts
      <4>3. q = r => inserting'[w] = q
        BY <2>1
      <4> QED
        BY <1>3, <2>1, <4>1, <4>2, <4>3
    <3>2. \A l \in Levels : \A i, j \in 0 .. VectorSize(l) - 1 :
             vector'[l][i] # None /\ vector'[l][i] = vector'[l][j] => i = j
      <4>1. UNCHANGED vector
        BY <1>3
      <4> QED
        BY <4>1 DEF OnePlace
    <3>3. \A l \in Levels : \A i \in 0 .. VectorSize(l) - 1 : \A v \in Workers :
             vector'[l][i] # None =>
                 running'[v] # vector'[l][i] /\ inserting'[v] # vector'[l][i]
      <4>1. \A l \in Levels : \A i \in 0 .. VectorSize(l) - 1 : vector[l][i] # r
        BY <1>4, <2>2, SlotFacts
      <4> QED
        BY <1>3, <2>1, <4>1 DEF OnePlace
    <3>4. \A v, u \in Workers :
             /\ v # u /\ running'[v] # None => running'[v] # running'[u]
             /\ v # u /\ inserting'[v] # None => inserting'[v] # inserting'[u]
             /\ running'[v] # None => running'[v] # inserting'[u]
      BY <1>3, <2>1, <2>2 DEF OnePlace
    <3> QED
      BY <3>1, <3>2, <3>3, <3>4 DEF OnePlace
  <2> QED
    BY <1>6, <1>7, <1>8, <2>3, <2>4
<1>10. CASE status[r] # "inactive"
  <2>1. UNCHANGED <<status, inserting, mode>>
    BY <1>2, <1>10
  <2>2. \A l \in Levels : Slotted(l)' = Slotted(l) /\ (Closed(l)' <=> Closed(l))
    BY <1>3, <2>1 DEF Slotted, Closed
  <2>3. IndexCounts'
    BY <1>3, <2>1, <2>2 DEF IndexCounts
  <2> QED
    BY <1>3, <1>6, <1>7, <1>8, <2>1, <2>3, SamePlaces
<1> QED
  BY <1>9, <1>10

LEMMA ClaimKeepsQueues ==
    ASSUME QueuesHold, NEW w \in Workers, ClaimSlot(w)
    PROVE  QueueInv'
<1> USE DEF QueuesHold, LevelsHold, LocalShapes, QueueInv, QueueTypes
<1>1. mode[w] = "insert"
  BY DEF ClaimSlot
<1>2. PICK r \in Reactions, h \in Levels :
         /\ inserting[w] = r /\ Level[r] = h /\ r # None
         /\ h >= nextLevel /\ ~shouldStop
  BY <1>1, OpenLevels, LevelFacts
<1>3. /\ \A v \in Workers : slot'[v] = IF v = w THEN index[h] ELSE slot[v]
      /\ \A l \in Levels : index'[l] = IF l = h THEN index[l] + 1 ELSE index[l]
      /\ \A v \in Workers : mode'[v] = IF v = w THEN "store" ELSE mode[v]
  BY <1>2 DEF ClaimSlot, Enter
<1>4. UNCHANGED <<running, pending, inserting, level, status, vector, executing, nextLevel,
                  shouldStop>>
  BY DEF ClaimSlot, idleVars, levelVars
<1>5. index[h] = Cardinality(Slotted(h)) /\ index[h] \in Nat
  <2>1. IsFiniteSet(Slotted(h))
    <3>1. Slotted(h) \in SUBSET AtLevel(h) /\ IsFiniteSet(AtLevel(h))
      BY LevelFacts DEF Slotted
    <3> QED
      BY <3>1, FS_Subset
  <2>2. Cardinality(Slotted(h)) \in Nat
    BY <2>1, FS_CardinalityType
  <2> QED
    BY <1>2, <2>2 DEF IndexCounts
<1>6. \A v \in Workers : mode[v] = "take" => executing # h
  BY <1>2, OpenLevels DEF Levels
<1>7. \A v \in Workers, l \in Levels, i \in Int :
         /\ Storing(v, l, i)' <=> Storing(v, l, i) \/ (v = w /\ l = h /\ i = index[h])
         /\ Taking(v, l, i)' <=> Taking(v, l, i)
  BY <1>1, <1>2, <1>3, <1>4 DEF Storing, Taking
<1>8. SlotsFilled'
  <2> SUFFICES ASSUME NEW l \in Levels, NEW i \in 0 .. VectorSize(l) - 1
               PROVE  (vector[l][i] # None <=>
                          \/ i < index[l] /\ \A v \in Workers : ~Storing(v, l, i)
                          \/ \E v \in Workers : Taking(v, l, i))'
    BY DEF SlotsFilled
  <2>1. i \in Int /\ index[l] \in Int
    BY LevelFacts
  <2>2. vector[l][i] # None <=>
            \/ i < index[l] /\ \A v \in Workers : ~Storing(v, l, i)
            \/ \E v \in Workers : Taking(v, l, i)
    BY DEF SlotsFilled
  <2>3. (\A v \in Workers : ~Storing(v, l, i))' <=>
            (\A v \in Workers : ~Storing(v, l, i)) /\ ~(l = h /\ i = index[h])
    BY <2>1, <1>7
  <2>4. (\E v \in Workers : Taking(v, l, i))' <=> \E v \in Workers : Taking(v, l, i)
    BY <2>1, <1>7
  <2>5. l = h => \A v \in Workers : ~Taking(v, l, i)
    BY <1>6 DEF Taking
  <2>6. vector'[l][i] = vector[l][i]
    BY <1>4
  <2>7. CASE l = h
    BY <1>3, <2>1, <2>2, <2>3, <2>4, <2>5, <2>6, <2>7
  <2>8. CASE l # h
    BY <1>3, <2>2, <2>3, <2>4, <2>6, <2>8
  <2> QED
    BY <2>7, <2>8
<1>9. SlotsClaimed'
  <2>1. \A v \in Workers : mode[v] = "store" =>
           inserting[v] \in Reactions /\ Level[inserting[v]] \in Levels
    BY OpenLevels, LevelFacts
  <2>2. \A v \in Workers : mode'[v] = "store" =>
           slot'[v] >= 0 /\ slot'[v] < index'[Level[inserting'[v]]]
    <3> SUFFICES ASSUME NEW v \in Workers, mode'[v] = "store"
                 PROVE  slot'[v] >= 0 /\ slot'[v] < index'[Level[inserting'[v]]]
      OBVIOUS
    <3>1. CASE v = w
      <4>1. slot'[v] = index[h] /\ index'[Level[inserting'[v]]] = index[h] + 1
        BY <1>2, <1>3, <1>4, <3>1
      <4> QED
        BY <1>5, <4>1
    <3>2. CASE v # w
      <4>1. mode[v] = "store" /\ slot'[v] = slot[v] /\ inserting'[v] = inserting[v]
        BY <1>3, <1>4, <3>2
      <4>2. /\ slot[v] >= 0 /\ slot[v] < index[Level[inserting[v]]]
            /\ slot[v] \in Int /\ index[Level[inserting[v]]] \in Int
        BY <2>1, <4>1 DEF SlotsClaimed
      <4>3. \/ index'[Level[inserting[v]]] = index[Level[inserting[v]]]
            \/ index'[Level[inserting[v]]] = index[Level[inserting[v]]] + 1
        BY <1>3, <2>1, <4>1
      <4> QED
        BY <4>1, <4>2, <4>3
    <3> QED
      BY <3>1, <3>2
  <2>3. \A v, u \in Workers :
           v # u /\ mode'[v] = "store" /\ mode'[u] = "store"
                 /\ Level[inserting'[v]] = Level[inserting'[u]] => slot'[v] # slot'[u]
    BY <1>1, <1>2, <1>3, <1>4, <1>5, <2>1 DEF SlotsClaimed
  <2> QED
    BY <2>2, <2>3 DEF SlotsClaimed
<1>10. SlotsPopped'
  <2>1. \A v \in Workers : mode'[v] = "take" => mode[v] = "take" /\ slot'[v] = slot[v]
    BY <1>1, <1>3
  <2>2. \A v \in Workers : mode[v] = "take" => index'[executing] = index[executing]
    BY <1>3, <1>6
  <2> QED
    BY <1>4, <2>1, <2>2 DEF SlotsPopped
<1>11. IndexCounts'
  <2>1. \A l \in Levels \ {h} : Slotted(l)' = Slotted(l)
    <3> SUFFICES ASSUME NEW l \in Levels \ {h}, NEW q \in AtLevel(l)
                 PROVE  (status[q] = "queued"
                           /\ \A v \in Workers : mode[v] = "insert" => inserting[v] # q)'
                        <=> status[q] = "queued"
                           /\ \A v \in Workers : mode[v] = "insert" => inserting[v] # q
      BY DEF Slotted
    <3>1. q # r
      BY <1>2 DEF AtLevel
    <3> QED
      BY <1>1, <1>2, <1>3, <1>4, <3>1
  <2>2. Slotted(h)' = Slotted(h) \cup {r} /\ r \notin Slotted(h)
    <3>1. status[r] = "queued" /\ \A v \in Workers \ {w} : inserting[v] # r
      BY <1>2 DEF OnePlace
    <3>2. r \in AtLevel(h)
      BY <1>2, LevelFacts
    <3>3. r \notin Slotted(h)
      BY <1>1, <1>2 DEF Slotted
    <3>4. r \in Slotted(h)'
      BY <1>3, <1>4, <3>1, <3>2 DEF Slotted
    <3>5. \A q \in AtLevel(h) : q # r => (q \in Slotted(h)' <=> q \in Slotted(h))
      BY <1>1, <1>2, <1>3, <1>4 DEF Slotted
    <3> QED
      BY <3>2, <3>3, <3>4, <3>5 DEF Slotted
  <2>3. /\ IsFiniteSet(Slotted(h)) /\ IsFiniteSet(AtLevel(h))
        /\ Slotted(h)' \in SUBSET AtLevel(h)
    <3>1. Slotted(h) \in SUBSET AtLevel(h) /\ IsFiniteSet(AtLevel(h))
      BY LevelFacts DEF Slotted
    <3>2. Slotted(h)' \in SUBSET AtLevel(h)
      BY DEF Slotted
    <3> QED
      BY <3>1, <3>2, FS_Subset
  <2>4. Cardinality(Slotted(h)') = index[h] + 1
    <3>1. Cardinality(Slotted(h) \cup {r}) = Cardinality(Slotted(h)) + 1
      BY <2>2, <2>3, FS_AddElement
    <3> QED
      BY <1>5, <2>2, <3>1
  <2>5. Cardinality(Slotted(h)') <= VectorSize(h)
    BY <2>3, FS_Subset DEF VectorSize
  <2>6. \A l \in Levels : Closed(l)' => Closed(l) /\ l # h
    BY <1>1, <1>2, <1>3, <1>4 DEF Closed, Levels
  <2> QED
    BY <1>3, <1>4, <2>1, <2>4, <2>5, <2>6 DEF IndexCounts
<1>12. WorkSeen'
  <2>1. \A v \in Workers : mode[v] \in {"idle", "reset", "notify"} => executing # h
    <3>1. \A v \in Workers : mode[v] \in {"idle", "reset", "notify"} => executing = nextLevel - 1
      BY <1>1, NobodyElseIsLast
    <3> QED
      BY <1>2, <3>1 DEF Levels
  <2> QED
    BY <1>1, <1>3, <1>4, <2>1 DEF WorkSeen
<1>13. OnePlace' /\ Upwards' /\ StopIsFinal'
  <2>1. OnePlace'
    BY <1>4, SamePlaces
  <2>2. Upwards'
    BY <1>1, <1>3, <1>4 DEF Upwards
  <2>3. StopIsFinal'
    BY <1>2, <1>4 DEF StopIsFinal
  <2> QED
    BY <2>1, <2>2, <2>3
<1> QED
  BY <1>8, <1>9, <1>10, <1>11, <1>12, <1>13

LEMMA StoreKeepsQueues ==
    ASSUME QueuesHold, NEW w \in Workers, StoreReaction(w)
    PROVE  QueueInv'
<1> USE DEF QueuesHold, LevelsHold, LocalShapes, QueueInv, QueueTypes
<1>1. mode[w] = "store"
  BY DEF StoreReaction
<1>2. PICK r \in Reactions, h \in Levels, k \in Int :
         /\ inserting[w] = r /\ Level[r] = h /\ r # None /\ slot[w] = k
         /\ h >= nextLevel /\ ~shouldStop
  BY <1>1, OpenLevels, LevelFacts
<1>3. k \in 0 .. VectorSize(h) - 1 /\ k < index[h]
  <2>1. k >= 0 /\ k < index[h] /\ index[h] <= VectorSize(h)
    BY <1>1, <1>2 DEF SlotsClaimed, IndexCounts
  <2> QED
    BY <2>1, LevelFacts
<1>4. /\ \A v \in Workers : inserting'[v] = IF v = w THEN None ELSE inserting[v]
      /\ \A v \in Workers : mode'[v] = IF v = w THEN "trigger" ELSE mode[v]
      /\ UNCHANGED <<running, pending, level, slot, status, index, executing, nextLevel,
                     shouldStop>>
  BY DEF StoreReaction, Enter, idleVars, levelVars
<1>5. \A l \in Levels : \A i \in 0 .. VectorSize(l) - 1 :
         vector'[l][i] = IF l = h /\ i = k THEN r ELSE vector[l][i]
  BY <1>2, <1>3 DEF StoreReaction
<1>6. \A v \in Workers, l \in Levels, i \in Int :
         /\ Storing(v, l, i)' <=> Storing(v, l, i) /\ v # w
         /\ Taking(v, l, i)' <=> Taking(v, l, i)
  BY <1>1, <1>4 DEF Storing, Taking
<1>7. \A v \in Workers : Storing(v, h, k) <=> v = w
  BY <1>1, <1>2 DEF Storing, SlotsClaimed
<1>8. SlotsFilled'
  <2> SUFFICES ASSUME NEW l \in Levels, NEW i \in 0 .. VectorSize(l) - 1
               PROVE  (vector[l][i] # None <=>
                          \/ i < index[l] /\ \A v \in Workers : ~Storing(v, l, i)
                          \/ \E v \in Workers : Taking(v, l, i))'
    BY DEF SlotsFilled
  <2>1. i \in Int /\ index'[l] = index[l]
    BY <1>4, LevelFacts
  <2>2. vector[l][i] # None <=>
            \/ i < index[l] /\ \A v \in Workers : ~Storing(v, l, i)
            \/ \E v \in Workers : Taking(v, l, i)
    BY DEF SlotsFilled
  <2>3. (\E v \in Workers : Taking(v, l, i))' <=> \E v \in Workers : Taking(v, l, i)
    BY <2>1, <1>6
  <2>4. (\A v \in Workers : ~Storing(v, l, i))' <=> \A v \in Workers \ {w} : ~Storing(v, l, i)
    BY <2>1, <1>6
  <2>5. CASE l = h /\ i = k
    <3>1. vector'[l][i] # None
      BY <1>2, <1>5, <2>5
    <3>2. (\A v \in Workers : ~Storing(v, l, i))'
      BY <1>7, <2>4, <2>5
    <3> QED
      BY <1>3, <2>1, <2>5, <3>1, <3>2
  <2>6. CASE ~(l = h /\ i = k)
    <3>1. ~Storing(w, l, i)
      BY <1>2, <2>6 DEF Storing
    <3>2. vector'[l][i] = vector[l][i]
      BY <1>5, <2>6
    <3> QED
      BY <2>1, <2>2, <2>3, <2>4, <3>1, <3>2
  <2> QED
    BY <2>5, <2>6
<1>9. SlotsClaimed' /\ SlotsPopped' /\ WorkSeen' /\ StopIsFinal'
  <2>1. \A v \in Workers : \A m \in {"store", "take", "idle", "reset", "notify"} :
           mode'[v] = m => mode[v] = m
    BY <1>1, <1>4
  <2>2. \A v \in Workers : mode'[v] = "store" => inserting'[v] = inserting[v]
    BY <1>1, <1>4
  <2> QED
    BY <1>2, <1>4, <2>1, <2>2 DEF SlotsClaimed, SlotsPopped, WorkSeen, StopIsFinal
<1>10. IndexCounts'
  <2>1. \A v \in Workers :
           /\ mode'[v] = "insert" <=> mode[v] = "insert"
           /\ mode[v] = "insert" => inserting'[v] = inserting[v]
    BY <1>1, <1>4
  <2>2. \A l \in Levels : Slotted(l)' = Slotted(l)
    BY <1>4, <2>1 DEF Slotted
  <2>3. \A l \in Levels : Closed(l)' <=> Closed(l)
    BY <1>1, <1>4 DEF Closed
  <2> QED
    BY <1>4, <2>2, <2>3 DEF IndexCounts
<1>11. Upwards'
  BY <1>1, <1>4 DEF Upwards
<1>12. OnePlace'
  <2>1. vector[h][k] = None
    <3>1. \A v \in Workers : ~Taking(v, h, k)
      BY <1>2, OpenLevels DEF Taking, Levels
    <3> QED
      BY <1>3, <1>7, <3>1 DEF SlotsFilled
  <2>2. /\ \A l \in Levels : \A i \in 0 .. VectorSize(l) - 1 : vector[l][i] # r
        /\ \A v \in Workers : running[v] # r
        /\ \A v \in Workers \ {w} : inserting[v] # r
        /\ status[r] = "queued"
    BY <1>2 DEF OnePlace
  <2>3. \A q \in Reactions :
          status'[q] = "queued" <=>
             \/ \E i \in 0 .. VectorSize(Level[q]) - 1 : vector'[Level[q]][i] = q
             \/ \E v \in Workers : running'[v] = q \/ inserting'[v] = q
    <3> TAKE q \in Reactions
    <3>1. status[q] = "queued" <=>
             \/ \E i \in 0 .. VectorSize(Level[q]) - 1 : vector[Level[q]][i] = q
             \/ \E v \in Workers : running[v] = q \/ inserting[v] = q
      BY DEF OnePlace
    <3>2. q # None /\ Level[q] \in Levels
      BY LevelFacts
    <3>3. CASE q = r
      BY <1>2, <1>3, <1>4, <1>5, <2>2, <3>3
    <3>4. CASE q # r
      <4>1. \A i \in 0 .. VectorSize(Level[q]) - 1 :
               vector'[Level[q]][i] = q <=> vector[Level[q]][i] = q
        BY <1>5, <2>1, <3>2, <3>4
      <4>2. \A v \in Workers : inserting'[v] = q <=> inserting[v] = q
        BY <1>2, <1>4, <3>2, <3>4
      <4> QED
        BY <1>4, <3>1, <4>1, <4>2
    <3> QED
      BY <3>3, <3>4
  <2>4. \A l \in Levels : \A i, j \in 0 .. VectorSize(l) - 1 :
           vector'[l][i] # None /\ vector'[l][i] = vector'[l][j] => i = j
    BY <1>5, <2>2 DEF OnePlace
  <2>5. \A l \in Levels : \A i \in 0 .. VectorSize(l) - 1 : \A v \in Workers :
           vector'[l][i] # None =>
               running'[v] # vector'[l][i] /\ inserting'[v] # vector'[l][i]
    <3> SUFFICES ASSUME NEW l \in Levels, NEW i \in 0 .. VectorSize(l) - 1, NEW v \in Workers,
                        vector'[l][i] # None
                 PROVE  running'[v] # vector'[l][i] /\ inserting'[v] # vector'[l][i]
      OBVIOUS
    <3>1. CASE l = h /\ i = k
      BY <1>2, <1>4, <1>5, <2>2, <3>1
    <3>2. CASE ~(l = h /\ i = k)
      <4>1. vector'[l][i] = vector[l][i]
        BY <1>5, <3>2
      <4>2. running[v] # vector[l][i] /\ inserting[v] # vector[l][i]
        BY <4>1 DEF OnePlace
      <4> QED
        BY <1>4, <4>1, <4>2
    <3> QED
      BY <3>1, <3>2
  <2>6. \A v, u \in Workers :
           /\ v # u /\ running'[v] # None => running'[v] # running'[u]
           /\ v # u /\ inserting'[v] # None => inserting'[v] # inserting'[u]
           /\ running'[v] # None => running'[v] # inserting'[u]
    BY <1>4 DEF OnePlace
  <2> QED
    BY <2>3, <2>4, <2>5, <2>6 DEF OnePlace
<1> QED
  BY <1>8, <1>9, <1>10, <1>11, <1>12

LEMMA DoneKeepsQueues ==
    ASSUME QueuesHold, NEW w \in Workers, DoneWithReaction(w)
    PROVE  QueueInv'
<1> USE DEF QueuesHold, LevelsHold, LocalShapes, QueueInv, QueueTypes
<1>1. mode[w] = "trigger" /\ inserting[w] = None /\ phase[w] = "working" /\ pending[w] = {}
  BY DEF DoneWithReaction, Upwards
<1>2. PICK r \in Reactions :
         running[w] = r /\ r # None /\ Level[r] = executing /\ executing = nextLevel - 1
  <2>1. running[w] \in Reactions /\ running[w] # None
    BY <1>1, LevelFacts DEF LevelInv, ModeOfPhase
  <2>2. executing = nextLevel - 1
    BY <1>1, AtWork, OpenLevels
  <2> QED
    BY <2>1, <2>2 DEF Upwards
<1>3. /\ \A v \in Workers : running'[v] = IF v = w THEN None ELSE running[v]
      /\ \A v \in Workers : mode'[v] = IF v = w THEN "get" ELSE mode[v]
      /\ \A q \in Reactions : status'[q] = IF q = r THEN "inactive" ELSE status[q]
      /\ UNCHANGED <<pending, inserting, level, slot, vector, index, executing, nextLevel,
                     shouldStop>>
  BY <1>2 DEF DoneWithReaction, Enter, idleVars, levelVars
<1>4. \A v \in Workers, l \in Levels, i \in Int :
         /\ Storing(v, l, i)' <=> Storing(v, l, i)
         /\ Taking(v, l, i)' <=> Taking(v, l, i)
  BY <1>1, <1>3 DEF Storing, Taking
<1>5. SlotsFilled'
  <2>1. UNCHANGED <<vector, index>>
    BY <1>3
  <2> QED
    BY <1>4, <2>1, SameSlots
<1>6. SlotsClaimed' /\ SlotsPopped' /\ WorkSeen' /\ StopIsFinal'
  <2>1. \A v \in Workers : \A m \in {"store", "take", "idle", "reset", "notify"} :
           mode'[v] = m => mode[v] = m
    BY <1>1, <1>3
  <2>2. ~shouldStop
    BY <1>1 DEF StopIsFinal
  <2> QED
    BY <1>3, <2>1, <2>2 DEF SlotsClaimed, SlotsPopped, WorkSeen, StopIsFinal
<1>7. IndexCounts'
  <2>1. \A l \in Levels : l >= nextLevel => Slotted(l)' = Slotted(l)
    <3> SUFFICES ASSUME NEW l \in Levels, l >= nextLevel, NEW q \in AtLevel(l)
                 PROVE  (status[q] = "queued"
                           /\ \A v \in Workers : mode[v] = "insert" => inserting[v] # q)'
                        <=> status[q] = "queued"
                           /\ \A v \in Workers : mode[v] = "insert" => inserting[v] # q
      BY <1>3 DEF Slotted
    <3>1. q # r
      BY <1>2 DEF AtLevel, Levels
    <3> QED
      BY <1>1, <1>3, <3>1 DEF AtLevel
  <2>2. \A l \in Levels : Closed(l)' <=> Closed(l)
    BY <1>1, <1>3 DEF Closed
  <2>3. \A l \in Levels : \A q \in AtLevel(l) : status[q] = "inactive" => status'[q] = "inactive"
    BY <1>3 DEF AtLevel
  <2>4. UNCHANGED <<index, nextLevel>>
    BY <1>3
  <2> QED
    BY <2>1, <2>2, <2>3, <2>4 DEF IndexCounts
<1>8. Upwards'
  BY <1>1, <1>3 DEF Upwards
<1>9. OnePlace'
  <2>1. /\ \A l \in Levels : \A i \in 0 .. VectorSize(l) - 1 : vector[l][i] # r
        /\ \A v \in Workers \ {w} : running[v] # r
        /\ \A v \in Workers : inserting[v] # r
    <3>1. r # None /\ r \in Reactions /\ running[w] = r /\ OnePlace
      BY <1>2
    <3> HIDE DEF QueuesHold, LevelsHold, LocalShapes, QueueInv, QueueTypes
    <3> QED
      BY <3>1 DEF OnePlace
  <2>2. \A q \in Reactions :
          status'[q] = "queued" <=>
             \/ \E i \in 0 .. VectorSize(Level[q]) - 1 : vector'[Level[q]][i] = q
             \/ \E v \in Workers : running'[v] = q \/ inserting'[v] = q
    <3> TAKE q \in Reactions
    <3>1. status[q] = "queued" <=>
             \/ \E i \in 0 .. VectorSize(Level[q]) - 1 : vector[Level[q]][i] = q
             \/ \E v \in Workers : running[v] = q \/ inserting[v] = q
      BY DEF OnePlace
    <3>2. q # None /\ Level[q] \in Levels
      BY LevelFacts
    <3>3. CASE q = r
      BY <1>2, <1>3, <2>1, <3>2, <3>3
    <3>4. CASE q # r
      BY <1>2, <1>3, <3>1, <3>2, <3>4
    <3> QED
      BY <3>3, <3>4
  <2>3. \A l \in Levels : \A i, j \in 0 .. VectorSize(l) - 1 :
           vector'[l][i] # None /\ vector'[l][i] = vector'[l][j] => i = j
    <3>1. UNCHANGED vector
      BY <1>3
    <3> QED
      BY <3>1 DEF OnePlace
  <2>4. \A l \in Levels : \A i \in 0 .. VectorSize(l) - 1 : \A v \in Workers :
           vector'[l][i] # None =>
               running'[v] # vector'[l][i] /\ inserting'[v] # vector'[l][i]
    <3> SUFFICES ASSUME NEW l \in Levels, NEW i \in 0 .. VectorSize(l) - 1, NEW v \in Workers,
                        vector'[l][i] # None
                 PROVE  running'[v] # vector'[l][i] /\ inserting'[v] # vector'[l][i]
      OBVIOUS
    <3>1. vector'[l][i] = vector[l][i]
      BY <1>3
    <3>2. running[v] # vector[l][i] /\ inserting[v] # vector[l][i]
      BY <3>1 DEF OnePlace
    <3> QED
      BY <1>3, <3>1, <3>2
  <2>5. \A v, u \in Workers :
           /\ v # u /\ running'[v] # None => running'[v] # running'[u]
           /\ v # u /\ inserting'[v] # None => inserting'[v] # inserting'[u]
           /\ running'[v] # None => running'[v] # inserting'[u]
    BY <1>3 DEF OnePlace
  <2> QED
    BY <2>2, <2>3, <2>4, <2>5 DEF OnePlace
<1> QED
  BY <1>5, <1>6, <1>7, <1>8, <1>9

-----------------------------------------------------------------------------
(* The last worker.                                                        *)

\* The others do nothing with the queues, and no reaction is running.
LEMMA LastSeesAll ==
    ASSUME QueuesHold, NEW w \in Workers,
           mode[w] \in {"reset", "loop", "distribute", "notify"}
    PROVE  /\ \A v \in Workers \ {w} : mode[v] = "get"
           /\ \A v \in Workers : running[v] = None /\ inserting[v] = None
           /\ ~shouldStop
<1>1. phase[w] = "last"
  BY DEF QueuesHold, LevelsHold, LevelInv, ModeOfPhase
<1>2. \A v \in Workers \ {w} : mode[v] = "get" /\ running[v] = None
  BY <1>1, OthersGetReady DEF QueuesHold
<1>3. running[w] = None
  BY DEF QueuesHold, LevelsHold, LevelInv, ModeOfPhase
<1>4. \A v \in Workers : inserting[v] = None
  BY <1>2 DEF QueuesHold, QueueInv, Upwards
<1>5. ~shouldStop
  BY DEF QueuesHold, QueueInv, StopIsFinal
<1> QED
  BY <1>2, <1>3, <1>4, <1>5

\* Then the filled slots of a vector are those below its index.
LEMMA LastSeesSlots ==
    ASSUME QueuesHold, NEW w \in Workers,
           mode[w] \in {"reset", "loop", "distribute", "notify"}
    PROVE  \A l \in Levels : \A i \in 0 .. VectorSize(l) - 1 :
               vector[l][i] # None <=> i < index[l]
<1>1. \A v \in Workers : mode[v] \notin {"store", "take"}
  BY LastSeesAll
<1> QED
  BY <1>1 DEF QueuesHold, QueueInv, SlotsFilled, Storing, Taking

\* And a level without filled slots has no queued reaction.
LEMMA EmptyMeansInactive ==
    ASSUME QueuesHold, NEW w \in Workers,
           mode[w] \in {"reset", "loop", "distribute", "notify"},
           NEW l \in Levels, index[l] <= 0
    PROVE  \A r \in AtLevel(l) : status[r] = "inactive"
<1> SUFFICES ASSUME NEW r \in AtLevel(l), status[r] = "queued" PROVE FALSE
  BY DEF QueuesHold, QueueTypes, AtLevel
<1>1. r \in Reactions /\ Level[r] = l /\ r # None
  BY LevelFacts DEF AtLevel
<1>2. PICK i \in 0 .. VectorSize(l) - 1 : vector[l][i] = r
  BY <1>1, LastSeesAll DEF QueuesHold, QueueInv, OnePlace
<1>3. i < index[l]
  BY <1>1, <1>2, LastSeesSlots
<1> QED
  BY <1>3, LevelFacts DEF QueuesHold, QueueTypes

\* The queues stay what they are when the last worker moves on.
LEMMA LastKeepsQueues ==
    ASSUME QueuesHold, NEW w \in Workers,
           mode[w] \in {"reset", "loop", "distribute", "notify"},
           NEW m \in Modes, mode' = [mode EXCEPT ![w] = m],
           m \notin {"idle", "reset", "take", "insert", "store"},
           UNCHANGED <<running, inserting, status, vector>>,
           IndexCounts', m = "notify" => index'[executing'] > 0,
           \A l \in Levels : index'[l] = index[l] \/ (index[l] < 0 /\ index'[l] = 0),
           \A v \in Workers \ {w} : pending'[v] = pending[v],
           pending'[w] # {} \/ m = "trigger" => m = "trigger" /\ nextLevel' = 0,
           shouldStop' => m = "get"
    PROVE  QueueInv'
<1> USE DEF QueuesHold, LevelsHold, LocalShapes, QueueInv, QueueTypes
<1>1. /\ \A v \in Workers \ {w} : mode[v] = "get" /\ mode'[v] = "get"
      /\ \A v \in Workers : running[v] = None /\ inserting[v] = None
      /\ mode'[w] = m
  BY LastSeesAll
<1>2. \A v \in Workers, l \in Levels, i \in Int : ~Storing(v, l, i)' /\ ~Taking(v, l, i)'
  BY <1>1 DEF Storing, Taking
<1>3. SlotsFilled'
  <2> SUFFICES ASSUME NEW l \in Levels, NEW i \in 0 .. VectorSize(l) - 1
               PROVE  (vector[l][i] # None <=>
                          \/ i < index[l] /\ \A v \in Workers : ~Storing(v, l, i)
                          \/ \E v \in Workers : Taking(v, l, i))'
    BY DEF SlotsFilled
  <2>1. i \in Int /\ i >= 0 /\ index[l] \in Int
    BY LevelFacts
  <2>2. vector[l][i] # None <=> i < index[l]
    BY LastSeesSlots
  <2>3. i < index[l] <=> i < index'[l]
    BY <2>1
  <2> QED
    BY <1>2, <2>1, <2>2, <2>3
<1>4. SlotsClaimed' /\ SlotsPopped' /\ StopIsFinal'
  BY <1>1 DEF SlotsClaimed, SlotsPopped, StopIsFinal
<1>5. WorkSeen'
  BY <1>1 DEF WorkSeen
<1>6. OnePlace'
  BY SamePlaces
<1>7. Upwards'
  BY <1>1 DEF Upwards
<1> QED
  BY <1>3, <1>4, <1>5, <1>6, <1>7

LEMMA ResetKeepsQueues ==
    ASSUME QueuesHold, NEW w \in Workers, ResetIndex(w)
    PROVE  QueueInv'
<1>1. mode[w] = "reset" /\ executing = nextLevel - 1 /\ index[executing] < 0
  BY DEF ResetIndex, QueuesHold, QueueInv, Upwards, WorkSeen
<1>2. /\ mode' = [mode EXCEPT ![w] = "loop"]
      /\ UNCHANGED <<running, pending, inserting, status, vector, executing, nextLevel,
                     shouldStop>>
  BY DEF ResetIndex, Enter, workVars, levelVars, idleVars
<1>3. \A l \in Levels : index'[l] = IF l = executing THEN 0 ELSE index[l]
  BY <1>1 DEF ResetIndex, QueuesHold, QueueTypes
<1>4. \A v \in Workers : mode[v] # "insert" /\ mode'[v] # "insert"
  BY <1>1, <1>2, LastSeesAll DEF QueuesHold, LevelsHold, LocalShapes
<1>5. IndexCounts'
  <2> SUFFICES ASSUME NEW l \in Levels
               PROVE  /\ index'[l] <= VectorSize(l)
                      /\ l >= nextLevel => index'[l] = Cardinality(Slotted(l)')
                      /\ l < nextLevel =>
                            index'[l] = 0 /\ \A r \in AtLevel(l) : status[r] = "inactive"
    BY <1>2 DEF IndexCounts, Closed
  <2>1. Slotted(l)' = Slotted(l)
    BY <1>2, <1>4 DEF Slotted
  <2>2. /\ index[l] <= VectorSize(l)
        /\ l >= nextLevel => index[l] = Cardinality(Slotted(l))
        /\ Closed(l) => index[l] = 0 /\ \A r \in AtLevel(l) : status[r] = "inactive"
    BY DEF QueuesHold, QueueInv, IndexCounts
  <2>3. l \in Int /\ nextLevel \in Int /\ executing \in Int /\ VectorSize(l) \in Nat
    BY LevelFacts DEF Levels, QueuesHold, LevelsHold, LocalShapes
  <2>4. CASE l = executing
    <3>1. index[l] <= 0 /\ mode[w] \in {"reset", "loop", "distribute", "notify"}
      <4>1. index[l] \in Int
        BY DEF QueuesHold, QueueTypes
      <4> QED
        BY <1>1, <2>4, <4>1
    <3>2. \A r \in AtLevel(l) : status[r] = "inactive"
      BY <3>1, EmptyMeansInactive
    <3> QED
      BY <1>1, <1>3, <2>3, <2>4, <3>2
  <2>5. CASE l # executing
    <3>1. l < nextLevel => Closed(l)
      BY <2>5 DEF Closed
    <3> QED
      BY <1>3, <2>1, <2>2, <2>5, <3>1
  <2> QED
    BY <2>4, <2>5
<1>6. pending'[w] = {}
  BY <1>1, <1>2 DEF QueuesHold, QueueInv, Upwards
<1>7. ~shouldStop
  BY <1>1, LastSeesAll
<1>8. \A l \in Levels : index'[l] = index[l] \/ (index[l] < 0 /\ index'[l] = 0)
  BY <1>1, <1>3
<1>9. "loop" \in Modes
  BY DEF Modes
<1> QED
  BY <1>1, <1>2, <1>5, <1>6, <1>7, <1>8, <1>9, LastKeepsQueues

\* When all levels are done, nothing is queued.
LEMMA LevelsDone ==
    ASSUME QueuesHold, NEW w \in Workers, mode[w] = "loop", nextLevel = MaxLevel + 1
    PROVE  \A l \in Levels : index[l] = 0 /\ \A r \in AtLevel(l) : status[r] = "inactive"
<1>1. \A l \in Levels : Closed(l)
  BY LevelFacts DEF Closed, Levels
<1> QED
  BY <1>1 DEF QueuesHold, QueueInv, IndexCounts

\* And the indexes are right for the next tag.
LEMMA LevelsOpenAgain ==
    ASSUME QueuesHold, NEW w \in Workers, mode[w] = "loop", nextLevel = MaxLevel + 1,
           UNCHANGED <<index, status>>, nextLevel' = 0
    PROVE  IndexCounts'
<1> SUFFICES ASSUME NEW l \in Levels
             PROVE  /\ index'[l] <= VectorSize(l)
                    /\ index'[l] = Cardinality(Slotted(l)')
  BY DEF IndexCounts, Closed, Levels
<1>1. index[l] = 0 /\ \A r \in AtLevel(l) : status[r] = "inactive"
  BY LevelsDone
<1>2. Slotted(l)' = {}
  BY <1>1 DEF Slotted
<1> QED
  BY <1>1, <1>2, LevelFacts, FS_EmptySet

LEMMA StopKeepsQueues ==
    ASSUME QueuesHold, NEW w \in Workers, Stop(w)
    PROVE  QueueInv'
<1>1. mode[w] = "loop" /\ nextLevel = MaxLevel + 1
  BY DEF Stop
<1>2. /\ mode' = [mode EXCEPT ![w] = "get"] /\ nextLevel' = 0
      /\ UNCHANGED <<running, pending, inserting, status, vector, index>>
  BY DEF Stop, Enter, workVars, queueVars
<1>3. IndexCounts'
  BY <1>1, <1>2, LevelsOpenAgain
<1>4. pending'[w] = {}
  BY <1>1, <1>2 DEF QueuesHold, QueueInv, Upwards
<1>5. "get" \in Modes
  BY DEF Modes
<1> QED
  BY <1>1, <1>2, <1>3, <1>4, <1>5, LastKeepsQueues

LEMMA AdvanceKeepsQueues ==
    ASSUME QueuesHold, NEW w \in Workers, AdvanceTag(w)
    PROVE  QueueInv'
<1>1. mode[w] = "loop" /\ nextLevel = MaxLevel + 1
  BY DEF AdvanceTag
<1>2. /\ mode' = [mode EXCEPT ![w] = "trigger"] /\ nextLevel' = 0
      /\ UNCHANGED <<running, inserting, status, vector, index, shouldStop>>
  BY DEF AdvanceTag, Enter, queueVars, idleVars
<1>3. IndexCounts'
  BY <1>1, <1>2, LevelsOpenAgain
<1>4. \A v \in Workers \ {w} : pending'[v] = pending[v]
  BY DEF AdvanceTag, QueuesHold, QueueTypes
<1>5. ~shouldStop
  BY <1>1, LastSeesAll
<1>6. "trigger" \in Modes
  BY DEF Modes
<1> QED
  BY <1>1, <1>2, <1>3, <1>4, <1>5, <1>6, LastKeepsQueues

LEMMA DistributeKeepsQueues ==
    ASSUME QueuesHold, NEW w \in Workers, Distribute(w)
    PROVE  QueueInv'
<1>0. "loop" \in Modes /\ "notify" \in Modes
  BY DEF Modes
<1>1. mode[w] = "distribute" /\ pending[w] = {} /\ ~shouldStop
  BY LastSeesAll DEF Distribute, QueuesHold, QueueInv, Upwards
<1>2. UNCHANGED <<running, pending, inserting, status, vector, index, shouldStop>>
  BY DEF Distribute, workVars, queueVars, idleVars
<1>3. \A l \in Levels :
         /\ l \in Int /\ index[l] \in Int /\ index[l] <= VectorSize(l)
         /\ l >= nextLevel => index[l] = Cardinality(Slotted(l)) /\ index[l] >= 0
         /\ l < nextLevel => index[l] = 0 /\ \A r \in AtLevel(l) : status[r] = "inactive"
  <2> TAKE l \in Levels
  <2>1. l < nextLevel => Closed(l)
    BY <1>1 DEF Closed
  <2>2. Cardinality(Slotted(l)) \in Nat
    <3>1. Slotted(l) \in SUBSET AtLevel(l) /\ IsFiniteSet(AtLevel(l))
      BY LevelFacts DEF Slotted
    <3> QED
      BY <3>1, FS_Subset, FS_CardinalityType
  <2> QED
    BY <2>1, <2>2, LevelFacts DEF Levels, QueuesHold, QueueTypes, QueueInv, IndexCounts
<1>4. \A l \in Levels : vector[l][0] # None <=> 0 < index[l]
  BY <1>1, LastSeesSlots, LevelFacts
<1>5. \A l \in Levels : l \notin Ready =>
         index[l] = 0 /\ \A r \in AtLevel(l) : status[r] = "inactive"
  <2> SUFFICES ASSUME NEW l \in Levels, l \notin Ready, l >= nextLevel
               PROVE  index[l] = 0 /\ \A r \in AtLevel(l) : status[r] = "inactive"
    BY <1>3 DEF Levels, QueuesHold, LevelsHold, LocalShapes
  <2>1. index[l] = 0
    BY <1>3, <1>4, LevelFacts DEF Ready, Levels, QueuesHold, LevelsHold, LocalShapes
  <2> QED
    BY <1>1, <2>1, EmptyMeansInactive
<1>6. \A m \in {"notify", "loop"} : mode' = [mode EXCEPT ![w] = m] =>
         \A l \in Levels : Slotted(l)' = Slotted(l)
  <2> TAKE m \in {"notify", "loop"}
  <2> HAVE mode' = [mode EXCEPT ![w] = m]
  <2>1. \A v \in Workers : mode[v] # "insert" /\ mode'[v] # "insert"
    BY <1>1, LastSeesAll DEF QueuesHold, LevelsHold, LocalShapes
  <2> QED
    BY <1>2, <2>1 DEF Slotted
<1>7. CASE /\ mode' = [mode EXCEPT ![w] = "notify"]
           /\ \E l \in Ready : (\A k \in Ready : l <= k) /\ executing' = l /\ nextLevel' = l + 1
  <2>1. PICK h \in Ready : (\A k \in Ready : h <= k) /\ executing' = h /\ nextLevel' = h + 1
    BY <1>7
  <2>2. h \in Levels /\ h >= nextLevel /\ index[h] > 0
    BY <1>4, LevelFacts DEF Ready, Levels, QueuesHold, QueueTypes
  <2>3. IndexCounts'
    <3> SUFFICES ASSUME NEW l \in Levels
                 PROVE  /\ index[l] <= VectorSize(l)
                        /\ l >= h + 1 => index[l] = Cardinality(Slotted(l))
                        /\ l < h => index[l] = 0 /\ \A r \in AtLevel(l) : status[r] = "inactive"
      <4>1. \A l \in Levels : Closed(l)' => l < h
        <5>1. \A v \in Workers : mode'[v] \notin {"loop", "distribute"}
          BY <1>1, <1>7, LastSeesAll DEF QueuesHold, LevelsHold, LocalShapes
        <5> QED
          BY <1>3, <2>1, <2>2, <5>1 DEF Closed
      <4> QED
        BY <1>2, <1>6, <1>7, <2>1, <4>1 DEF IndexCounts
    <3>1. l < h => l \notin Ready
      BY <1>3, <2>1, <2>2
    <3>2. h \in Int /\ nextLevel \in Int
      BY <1>3, <2>2 DEF QueuesHold, LevelsHold, LocalShapes
    <3> QED
      BY <1>3, <1>5, <2>2, <3>1, <3>2
  <2> QED
    BY <1>0, <1>1, <1>2, <1>7, <2>1, <2>2, <2>3, LastKeepsQueues
<1>8. CASE /\ Ready = {} /\ nextLevel' = MaxLevel + 1
           /\ mode' = [mode EXCEPT ![w] = "loop"]
  <2>1. IndexCounts'
    BY <1>2, <1>3, <1>5, <1>8, LevelFacts DEF IndexCounts, Levels
  <2> QED
    BY <1>0, <1>1, <1>2, <1>8, <2>1, LastKeepsQueues
<1> QED
  BY <1>7, <1>8 DEF Distribute, Enter

-----------------------------------------------------------------------------
(* The start.                                                              *)

\* The main thread inserts every reaction once.
LEMMA EnumerationFacts ==
    ASSUME NEW S, IsFiniteSet(S)
    PROVE  LET n == Cardinality(S)
               f == Enumeration(S)
           IN  /\ n \in Nat
               /\ f \in [0 .. n - 1 -> S]
               /\ \A r \in S : \E i \in 0 .. n - 1 : f[i] = r
               /\ \A i, j \in 0 .. n - 1 : f[i] = f[j] => i = j
<1> DEFINE n == Cardinality(S)
           f == Enumeration(S)
           Lists(g) == \A r \in S : \E i \in DOMAIN g : g[i] = r
<1>1. n \in Nat /\ ExistsBijection(1 .. n, S)
  BY FS_CardinalityType
<1>2. \E g \in [0 .. n - 1 -> S] : Lists(g)
  <2>1. PICK b \in [1 .. n -> S] : \A r \in S : \E i \in 1 .. n : b[i] = r
    BY <1>1 DEF ExistsBijection, Bijection, Surjection
  <2> DEFINE g == [i \in 0 .. n - 1 |-> b[i + 1]]
  <2>2. g \in [0 .. n - 1 -> S]
    BY <1>1
  <2>3. Lists(g)
    <3> TAKE r \in S
    <3>1. PICK i \in 1 .. n : b[i] = r
      BY <2>1
    <3>2. i - 1 \in 0 .. n - 1 /\ (i - 1) + 1 = i
      BY <1>1
    <3> QED
      BY <3>1, <3>2
  <2> QED
    BY <2>2, <2>3
<1>3. f \in [0 .. n - 1 -> S] /\ Lists(f)
  BY <1>2 DEF Enumeration
<1>4. f \in Surjection(0 .. n - 1, S)
  BY <1>3 DEF Surjection
<1>5. IsFiniteSet(0 .. n - 1) /\ Cardinality(0 .. n - 1) = n
  <2>1. 0 \in Int /\ n - 1 \in Int
    BY <1>1
  <2>2. /\ IsFiniteSet(0 .. n - 1)
        /\ Cardinality(0 .. n - 1) = IF 0 > n - 1 THEN 0 ELSE (n - 1) - 0 + 1
    BY <2>1, FS_Interval
  <2> HIDE DEF n
  <2> QED
    BY <1>1, <2>2
<1>6. f \in Injection(0 .. n - 1, S)
  BY <1>4, <1>5, FS_SurjSameCardinalityImpliesInj
<1>7. \A i, j \in 0 .. n - 1 : f[i] = f[j] => i = j
  BY <1>6 DEF Injection, IsInjective
<1> QED
  BY <1>1, <1>3, <1>7

LEMMA QueuesHoldAtStart == Init => QueuesHold
<1> SUFFICES ASSUME Init PROVE QueueTypes /\ QueueInv
  BY LevelsHoldAtStart DEF QueuesHold
<1>1. PICK timeout \in Timeouts :
         LET triggered == AtStart(timeout)
             start(l) == AtLevel(l) \cap triggered
         IN  /\ status = [r \in Reactions |->
                             IF r \in triggered THEN "queued" ELSE "inactive"]
             /\ index = [l \in Levels |-> Cardinality(start(l))]
             /\ vector = [l \in Levels |-> [i \in 0 .. VectorSize(l) - 1 |->
                   IF i < Cardinality(start(l)) THEN Enumeration(start(l))[i] ELSE None]]
             /\ stopTag = timeout
  BY DEF Init
<1> DEFINE T == AtStart(timeout)
           start(l) == AtLevel(l) \cap T
<1>2. /\ mode = [w \in Workers |-> "new"]
      /\ running = [w \in Workers |-> None] /\ inserting = [w \in Workers |-> None]
      /\ pending = [w \in Workers |-> {}]
      /\ level = [w \in Workers |-> 0] /\ slot = [w \in Workers |-> 0]
      /\ executing = 0 /\ nextLevel = 1 /\ ~shouldStop
  BY DEF Init, IdleInit
<1>3. T \subseteq Reactions /\ timeout \in Nat
  BY NPAssumption DEF AtStart
<1>4. \A r \in Reactions : status[r] = IF r \in T THEN "queued" ELSE "inactive"
  BY <1>1
<1>5. \A l \in Levels : index[l] = Cardinality(start(l))
  BY <1>1
<1>6. \A l \in Levels : \A i \in 0 .. VectorSize(l) - 1 :
         vector[l][i] = IF i < index[l] THEN Enumeration(start(l))[i] ELSE None
  BY <1>1, <1>5
<1>7. \A l \in Levels :
         /\ index[l] \in Nat /\ index[l] <= VectorSize(l)
         /\ Enumeration(start(l)) \in [0 .. index[l] - 1 -> start(l)]
         /\ \A r \in start(l) : \E i \in 0 .. index[l] - 1 : Enumeration(start(l))[i] = r
         /\ \A i, j \in 0 .. index[l] - 1 :
               Enumeration(start(l))[i] = Enumeration(start(l))[j] => i = j
  <2> TAKE l \in Levels
  <2> HIDE DEF T
  <2>1. start(l) \in SUBSET AtLevel(l) /\ IsFiniteSet(AtLevel(l))
    BY LevelFacts
  <2>2. IsFiniteSet(start(l)) /\ Cardinality(start(l)) <= VectorSize(l)
    BY <2>1, FS_Subset DEF VectorSize
  <2> HIDE DEF start
  <2> QED
    BY <1>5, <2>2, EnumerationFacts
<1> HIDE DEF T, start
<1>8. QueueTypes
  <2>1. \A l \in Levels : vector[l] \in [0 .. VectorSize(l) - 1 -> AtLevel(l) \cup {None}]
    <3> TAKE l \in Levels
    <3>1. \A i \in 0 .. VectorSize(l) - 1 : vector[l][i] \in AtLevel(l) \cup {None}
      <4> TAKE i \in 0 .. VectorSize(l) - 1
      <4>1. CASE i < index[l]
        <5>1. i \in 0 .. index[l] - 1
          BY <1>7, <4>1, LevelFacts
        <5>2. Enumeration(start(l))[i] \in AtLevel(l)
          BY <1>7, <5>1 DEF start
        <5> QED
          BY <1>6, <4>1, <5>2
      <4>2. CASE ~(i < index[l])
        BY <1>6, <4>2
      <4> QED
        BY <4>1, <4>2
    <3>2. vector[l] = [i \in 0 .. VectorSize(l) - 1 |-> vector[l][i]]
      BY <1>1
    <3> QED
      BY <3>1, <3>2
  <2>2. index \in [Levels -> Int] /\ DOMAIN vector = Levels
    <3>1. index = [l \in Levels |-> index[l]] /\ DOMAIN vector = Levels
      BY <1>1
    <3>2. \A l \in Levels : index[l] \in Int
      BY <1>7
    <3> QED
      BY <3>1, <3>2
  <2>3. status \in [Reactions -> {"inactive", "queued"}]
    BY <1>1
  <2>4. 0 \in Levels
    BY LevelFacts DEF Levels
  <2>5. /\ running \in [Workers -> Reactions \cup {None}]
        /\ pending \in [Workers -> SUBSET Reactions]
        /\ inserting \in [Workers -> Reactions \cup {None}]
        /\ level \in [Workers -> Levels]
        /\ slot \in [Workers -> Int]
    BY <1>2, <2>4
  <2>6. nextLevel \in 0 .. MaxLevel + 1 /\ executing \in Levels
    BY <1>2, <2>4, LevelFacts
  <2>7. tag \in 0 .. stopTag /\ stopTag \in Nat /\ completed \in BOOLEAN
    <3>1. stopTag = timeout
      BY <1>1
    <3>2. tag = 0 /\ completed \in BOOLEAN
      BY DEF Init
    <3> QED
      BY <1>3, <3>1, <3>2
  <2> QED
    BY <2>1, <2>2, <2>3, <2>5, <2>6, <2>7 DEF QueueTypes
<1>9. \A v \in Workers, l \in Levels, i \in Int : ~Storing(v, l, i) /\ ~Taking(v, l, i)
  BY <1>2 DEF Storing, Taking
<1>10. \A l \in Levels : \A i \in 0 .. VectorSize(l) - 1 :
          /\ i \in Int /\ (vector[l][i] # None <=> i < index[l])
          /\ i < index[l] =>
                i \in 0 .. index[l] - 1 /\ vector[l][i] = Enumeration(start(l))[i]
  <2> TAKE l \in Levels
  <2> TAKE i \in 0 .. VectorSize(l) - 1
  <2>1. i \in Int /\ i >= 0 /\ index[l] \in Nat
    BY <1>7, LevelFacts
  <2>2. i < index[l] => i \in 0 .. index[l] - 1
    BY <2>1
  <2>3. i < index[l] => Enumeration(start(l))[i] \in Reactions
    BY <1>3, <1>7, <2>2 DEF start
  <2> QED
    BY <1>6, <2>1, <2>2, <2>3, LevelFacts
<1>11. SlotsFilled
  BY <1>9, <1>10 DEF SlotsFilled
<1>12. SlotsClaimed /\ SlotsPopped /\ WorkSeen /\ StopIsFinal
  BY <1>2 DEF SlotsClaimed, SlotsPopped, WorkSeen, StopIsFinal
<1>13. IndexCounts
  <2>1. \A l \in Levels : Slotted(l) = start(l)
    BY <1>2, <1>4 DEF Slotted, AtLevel, start
  <2>2. \A l \in Levels : ~Closed(l)
    BY <1>2 DEF Closed, Levels
  <2> QED
    BY <1>5, <1>7, <2>1, <2>2 DEF IndexCounts
<1>14. OnePlace
  <2>1. \A r \in Reactions : status[r] = "queued" <=>
           \E i \in 0 .. VectorSize(Level[r]) - 1 : vector[Level[r]][i] = r
    <3> TAKE r \in Reactions
    <3>1. Level[r] \in Levels /\ r \in AtLevel(Level[r]) /\ r # None
      BY LevelFacts
    <3>2. ASSUME r \in T
          PROVE  \E i \in 0 .. VectorSize(Level[r]) - 1 : vector[Level[r]][i] = r
      <4>1. PICK i \in 0 .. index[Level[r]] - 1 : Enumeration(start(Level[r]))[i] = r
        BY <1>7, <3>1, <3>2 DEF start
      <4>2. i \in 0 .. VectorSize(Level[r]) - 1 /\ i < index[Level[r]]
        BY <1>7, <3>1, LevelFacts
      <4> QED
        BY <1>10, <3>1, <4>1, <4>2
    <3>3. ASSUME NEW i \in 0 .. VectorSize(Level[r]) - 1, vector[Level[r]][i] = r
          PROVE  r \in T
      <4>1. i \in 0 .. index[Level[r]] - 1 /\ r = Enumeration(start(Level[r]))[i]
        BY <1>10, <3>1, <3>3
      <4>2. r \in start(Level[r])
        BY <1>7, <3>1, <4>1
      <4> QED
        BY <4>2 DEF start
    <3> QED
      BY <1>4, <3>2, <3>3
  <2>2. \A l \in Levels : \A i, j \in 0 .. VectorSize(l) - 1 :
           vector[l][i] # None /\ vector[l][i] = vector[l][j] => i = j
    <3> TAKE l \in Levels
    <3> TAKE i, j \in 0 .. VectorSize(l) - 1
    <3> HAVE vector[l][i] # None /\ vector[l][i] = vector[l][j]
    <3>1. /\ i \in 0 .. index[l] - 1 /\ vector[l][i] = Enumeration(start(l))[i]
          /\ j \in 0 .. index[l] - 1 /\ vector[l][j] = Enumeration(start(l))[j]
      BY <1>10
    <3> QED
      BY <1>7, <3>1
  <2> QED
    BY <1>2, <2>1, <2>2, LevelFacts DEF OnePlace
<1>15. Upwards
  BY <1>2 DEF Upwards
<1> QED
  BY <1>8, <1>11, <1>12, <1>13, <1>14, <1>15 DEF QueueInv

-----------------------------------------------------------------------------
(* Every step.                                                             *)

LEMMA StepKeepsTypes ==
    ASSUME QueuesHold, NEW w \in Workers, WorkerStep(w)
    PROVE  QueueTypes'
<1> USE DEF idleVars, threadVars, workVars, queueVars, levelVars, tagVars
<1>1. CASE StartThread(w) \/ Exit(w)
  BY <1>1 DEF StartThread, Exit, QueuesHold, QueueTypes
<1>2. CASE ReadLevel(w)
  <2>1. nextLevel - 1 \in Levels
    BY <1>2, AtWork DEF ReadLevel, QueuesHold, QueueTypes
  <2> QED
    BY <1>2, <2>1 DEF ReadLevel, QueuesHold, QueueTypes
<1>3. CASE Pop(w)
  BY <1>3 DEF Pop, QueuesHold, QueueTypes
<1>4. CASE Take(w)
  <2>1. running'[w] \in Reactions
    BY <1>4, TakeKeepsQueues
  <2>2. running' \in [Workers -> Reactions \cup {None}]
    BY <1>4, <2>1 DEF Take, QueuesHold, QueueTypes
  <2>3. \A l \in Levels :
           vector'[l] \in [0 .. VectorSize(l) - 1 -> AtLevel(l) \cup {None}]
    BY <1>4 DEF Take, QueuesHold, QueueTypes
  <2> QED
    BY <1>4, <2>2, <2>3 DEF Take, QueuesHold, QueueTypes
<1>5. CASE RequestStop(w)
  BY <1>5 DEF RequestStop, QueuesHold, QueueTypes
<1>6. CASE Invoke(w)
  <2>1. running[w] \in Reactions
    BY <1>6 DEF Invoke, QueuesHold, LevelsHold, LevelInv, ModeOfPhase, QueueTypes
  <2>2. Effects[running[w]] \subseteq SUBSET Reactions
    BY <2>1, NPAssumption
  <2> QED
    BY <1>6, <2>2 DEF Invoke, QueuesHold, QueueTypes
<1>7. CASE TriggerReaction(w)
  <2>1. /\ pending' \in [Workers -> SUBSET Reactions]
        /\ status' \in [Reactions -> {"inactive", "queued"}]
        /\ inserting' \in [Workers -> Reactions \cup {None}]
    <3>1. PICK r \in pending[w] :
             /\ pending' = [pending EXCEPT ![w] = @ \ {r}]
             /\ \/ /\ status' = [status EXCEPT ![r] = "queued"]
                   /\ inserting' = [inserting EXCEPT ![w] = r]
                \/ UNCHANGED <<status, inserting>>
      BY <1>7 DEF TriggerReaction
    <3>2. r \in Reactions
      BY DEF QueuesHold, QueueTypes
    <3> QED
      BY <3>1, <3>2 DEF QueuesHold, QueueTypes
  <2> QED
    BY <1>7, <2>1 DEF TriggerReaction, QueuesHold, QueueTypes
<1>8. CASE ClaimSlot(w)
  <2>1. PICK h \in Levels : Level[inserting[w]] = h
    BY <1>8, OpenLevels, LevelFacts DEF ClaimSlot
  <2>2. slot' \in [Workers -> Int] /\ index' \in [Levels -> Int]
    BY <1>8, <2>1 DEF ClaimSlot, QueuesHold, QueueTypes
  <2> QED
    BY <1>8, <2>2 DEF ClaimSlot, QueuesHold, QueueTypes
<1>9. CASE StoreReaction(w)
  <2>1. PICK r \in Reactions : inserting[w] = r
    BY <1>9, OpenLevels DEF StoreReaction
  <2>2. \A l \in Levels :
           vector'[l] \in [0 .. VectorSize(l) - 1 -> AtLevel(l) \cup {None}]
    BY <1>9, <2>1, LevelFacts DEF StoreReaction, QueuesHold, QueueTypes
  <2> QED
    BY <1>9, <2>2 DEF StoreReaction, QueuesHold, QueueTypes
<1>10. CASE DoneWithReaction(w)
  BY <1>10 DEF DoneWithReaction, QueuesHold, QueueTypes
<1>11. CASE Block(w) \/ BlockLast(w) \/ ResetIndex(w) \/ StayAtTag(w) \/ EventsPopped(w)
            \/ NotifyWorkers(w) \/ Release(w) \/ Resume(w)
  BY <1>11 DEF Block, BlockLast, ResetIndex, StayAtTag, EventsPopped, NotifyWorkers, Release,
               Resume, QueuesHold, QueueTypes
<1>12. CASE Stop(w)
  BY <1>12, LevelFacts DEF Stop, QueuesHold, QueueTypes
<1>13. CASE AdvanceTag(w)
  <2>1. pending' \in [Workers -> SUBSET Reactions]
    <3>1. CASE tag >= stopTag
      BY <1>13, <3>1 DEF AdvanceTag, QueuesHold, QueueTypes
    <3>2. CASE ~(tag >= stopTag)
      <4>1. PICK popped \in Pops \cup {{}} : pending' = [pending EXCEPT ![w] =
                     popped \cup IF tag' >= stopTag' THEN Shutdown ELSE {}]
        BY <1>13, <3>2 DEF AdvanceTag
      <4>2. popped \subseteq Reactions /\ Shutdown \subseteq Reactions
        BY NPAssumption
      <4> QED
        BY <4>1, <4>2 DEF QueuesHold, QueueTypes
    <3> QED
      BY <3>1, <3>2
  <2>2. tag' \in 0 .. stopTag' /\ stopTag' \in Nat /\ completed' \in BOOLEAN
    BY <1>13 DEF AdvanceTag, QueuesHold, QueueTypes
  <2>3. nextLevel' \in 0 .. MaxLevel + 1
    BY <1>13, LevelFacts DEF AdvanceTag
  <2> QED
    BY <1>13, <2>1, <2>2, <2>3 DEF AdvanceTag, QueuesHold, QueueTypes
<1>14. CASE Distribute(w)
  <2>1. executing' \in Levels /\ nextLevel' \in 0 .. MaxLevel + 1
    <3>1. CASE \E l \in Ready : executing' = l /\ nextLevel' = l + 1
      <4>1. MaxLevel \in Nat
        BY LevelFacts
      <4>2. Ready \subseteq Levels
        BY <4>1 DEF Ready, Levels, QueuesHold, QueueTypes
      <4> QED
        BY <3>1, <4>1, <4>2 DEF Levels
    <3>2. CASE executing' \in {MaxLevel, executing} /\ nextLevel' = MaxLevel + 1
      BY <3>2, LevelFacts DEF Levels, QueuesHold, QueueTypes
    <3> QED
      BY <1>14, <3>1, <3>2 DEF Distribute
  <2> QED
    BY <1>14, <2>1 DEF Distribute, QueuesHold, QueueTypes
<1> QED
  BY <1>1, <1>2, <1>3, <1>4, <1>5, <1>6, <1>7, <1>8, <1>9, <1>10, <1>11, <1>12, <1>13, <1>14
     DEF WorkerStep, GetReadyReaction, Execute, WaitForWork

LEMMA StepKeepsQueues == QueuesHold /\ [Next]_vars => QueuesHold'
<1> SUFFICES ASSUME QueuesHold, [Next]_vars PROVE QueueTypes' /\ QueueInv'
  BY StepKeepsLevels DEF QueuesHold
<1>1. CASE UNCHANGED vars
  <2>1. QueueInv'
    BY <1>1, OutsideKeepsQueues DEF vars, idleVars
  <2>2. QueueTypes'
    BY <1>1 DEF vars, workVars, queueVars, levelVars, tagVars, QueuesHold, QueueTypes
  <2> QED
    BY <2>1, <2>2
<1>2. ASSUME NEW w \in Workers, WorkerStep(w) PROVE QueueInv'
  <2>1. CASE RequestStop(w) \/ Release(w) \/ Resume(w)
    BY <2>1, OutsideKeepsQueues
       DEF RequestStop, Release, ReleasePermits, Resume, TakePermit, idleVars
  <2> QED
    BY <1>2, <2>1, HandshakeKeepsQueues, PopKeepsQueues, TakeKeepsQueues, InvokeKeepsQueues,
       TriggerKeepsQueues, ClaimKeepsQueues, StoreKeepsQueues, DoneKeepsQueues,
       ResetKeepsQueues, StopKeepsQueues, AdvanceKeepsQueues, EventsPoppedKeepsQueues,
       DistributeKeepsQueues
       DEF WorkerStep, GetReadyReaction, Execute, WaitForWork
<1> QED
  BY <1>1, <1>2, StepKeepsTypes DEF Next

\* A worker that inserts a reaction has an empty slot of the vector to itself, for
\* every number of workers and every program.
THEOREM NPSlotIsFree == Spec => []SlotIsFree
<1>1. QueuesHold => SlotIsFree
  <2> SUFFICES ASSUME QueuesHold, NEW w \in Workers, mode[w] = "store"
               PROVE  LET l == Level[inserting[w]]
                      IN  /\ slot[w] \in 0 .. VectorSize(l) - 1
                          /\ vector[l][slot[w]] = None
                          /\ \A v \in Workers \ {w} :
                                mode[v] = "store" /\ Level[inserting[v]] = l
                                    => slot[v] # slot[w]
    BY DEF SlotIsFree
  <2>1. PICK h \in Levels : Level[inserting[w]] = h /\ h >= nextLevel
    BY OpenLevels, LevelFacts
  <2>2. slot[w] \in 0 .. VectorSize(h) - 1
    <3>1. slot[w] >= 0 /\ slot[w] < index[h] /\ index[h] <= VectorSize(h)
      BY <2>1 DEF QueuesHold, QueueInv, SlotsClaimed, IndexCounts
    <3> QED
      BY <3>1, LevelFacts DEF QueuesHold, QueueTypes
  <2>3. vector[h][slot[w]] = None
    <3>1. \A v \in Workers : ~Taking(v, h, slot[w])
      BY <2>1, OpenLevels DEF Taking, Levels, QueuesHold, LevelsHold, LocalShapes
    <3>2. Storing(w, h, slot[w])
      BY <2>1 DEF Storing
    <3> QED
      BY <2>2, <3>1, <3>2 DEF QueuesHold, QueueInv, SlotsFilled
  <2> QED
    BY <2>1, <2>2, <2>3 DEF QueuesHold, QueueInv, SlotsClaimed
<1> QED
  BY <1>1, QueuesHoldAtStart, StepKeepsQueues, PTL DEF Spec

\* The last worker wakes a worker for each reaction of the level, for every number
\* of workers and every program: the index it reads is the number of filled slots.
THEOREM NPNotifyCountsReactions == Spec => []NotifyCountsReactions
<1>1. QueuesHold => NotifyCountsReactions
  <2> SUFFICES ASSUME QueuesHold, NEW w \in Workers, mode[w] = "notify"
               PROVE  /\ index[executing] = Cardinality({i \in DOMAIN vector[executing] :
                                                            vector[executing][i] # None})
                      /\ index[executing] > 0
    BY DEF NotifyCountsReactions
  <2>1. index[executing] > 0 /\ index[executing] <= VectorSize(executing)
    BY DEF QueuesHold, QueueTypes, QueueInv, WorkSeen, IndexCounts
  <2>2. index[executing] \in Int /\ VectorSize(executing) \in Int /\ executing \in Levels
    BY LevelFacts DEF QueuesHold, QueueTypes
  <2>3. DOMAIN vector[executing] = 0 .. VectorSize(executing) - 1
    BY <2>2 DEF QueuesHold, QueueTypes
  <2>4. {i \in DOMAIN vector[executing] : vector[executing][i] # None}
            = 0 .. index[executing] - 1
    BY <2>1, <2>2, <2>3, LastSeesSlots
  <2>5. Cardinality(0 .. index[executing] - 1) = index[executing]
    <3>1. 0 \in Int /\ index[executing] - 1 \in Int
      BY <2>2
    <3>2. Cardinality(0 .. index[executing] - 1) =
              IF 0 > index[executing] - 1 THEN 0 ELSE (index[executing] - 1) - 0 + 1
      BY <3>1, FS_Interval
    <3> QED
      BY <2>1, <2>2, <3>2
  <2> QED
    BY <2>1, <2>4, <2>5
<1> QED
  BY <1>1, QueuesHoldAtStart, StepKeepsQueues, PTL DEF Spec

-----------------------------------------------------------------------------
(* Types.                                                                  *)

CountsHold ==
    /\ QueuesHold
    /\ number \in [Workers -> 0 .. NumberOfWorkers - 1]
    /\ ThreadsCounted

\* Threads join the pool when they start and leave it when they end.
LEMMA PoolMoves ==
    ASSUME LevelsHold, NEW w \in Workers, WorkerStep(w), ~StartThread(w), ~Exit(w)
    PROVE  UNCHANGED <<number, threads, InPool>>
<1> USE DEF threadVars
<1>1. UNCHANGED <<number, threads>>
  BY DEF WorkerStep, GetReadyReaction, ReadLevel, Pop, Take, Execute, RequestStop, Invoke,
         TriggerReaction, ClaimSlot, StoreReaction, DoneWithReaction, WaitForWork, Block,
         BlockLast, ResetIndex, StayAtTag, Stop, AdvanceTag, EventsPopped, Distribute,
         NotifyWorkers, Release, Resume
<1>2. \/ UNCHANGED mode
      \/ \E m \in Modes \ {"new", "exited"} :
            mode[w] \notin {"new", "exited"} /\ mode' = [mode EXCEPT ![w] = m]
  <2>1. CASE ReadLevel(w) \/ Pop(w) \/ Take(w)
    BY <2>1 DEF ReadLevel, Pop, Take, Enter, Modes
  <2>2. CASE Execute(w)
    BY <2>2 DEF Execute, RequestStop, Invoke, TriggerReaction, ClaimSlot, StoreReaction,
                DoneWithReaction, Enter, Modes
  <2>3. CASE Block(w) \/ BlockLast(w) \/ ResetIndex(w) \/ StayAtTag(w) \/ Stop(w)
             \/ AdvanceTag(w) \/ EventsPopped(w)
    BY <2>3 DEF Block, BlockLast, ResetIndex, StayAtTag, Stop, AdvanceTag, EventsPopped,
                Enter, Modes
  <2>4. CASE Distribute(w) \/ NotifyWorkers(w) \/ Release(w) \/ Resume(w)
    BY <2>4 DEF Distribute, NotifyWorkers, Release, Resume, Enter, Modes
  <2> QED
    BY <2>1, <2>2, <2>3, <2>4 DEF WorkerStep, GetReadyReaction, WaitForWork
<1>3. \A v \in Workers : mode'[v] \in {"new", "exited"} <=> mode[v] \in {"new", "exited"}
  BY <1>2 DEF LevelsHold, LocalShapes
<1> QED
  BY <1>1, <1>3 DEF InPool

LEMMA StepKeepsCounts == CountsHold /\ [Next]_vars => CountsHold'
<1> SUFFICES ASSUME CountsHold, [Next]_vars
             PROVE  number' \in [Workers -> 0 .. NumberOfWorkers - 1] /\ ThreadsCounted'
  BY StepKeepsQueues DEF CountsHold
<1> USE DEF CountsHold, ThreadsCounted
<1>1. IsFiniteSet(InPool) /\ Cardinality(InPool) \in 0 .. NumberOfWorkers
  BY WorkersCount DEF InPool
<1>2. CASE UNCHANGED vars
  BY <1>2 DEF vars, threadVars, InPool
<1>3. ASSUME NEW w \in Workers, WorkerStep(w)
      PROVE  number' \in [Workers -> 0 .. NumberOfWorkers - 1] /\ ThreadsCounted'
  <2>0. mode \in [Workers -> Modes]
    BY DEF QueuesHold, LevelsHold, LocalShapes
  <2>1. CASE StartThread(w)
    <3>1. /\ mode[w] = "new" /\ mode' = [mode EXCEPT ![w] = "get"]
          /\ number' = [number EXCEPT ![w] = threads] /\ threads' = threads + 1
      BY <2>1 DEF StartThread, Enter
    <3>2. InPool' = InPool \cup {w} /\ w \notin InPool
      BY <2>0, <3>1 DEF InPool
    <3>3. Cardinality(InPool') = threads + 1
      BY <1>1, <3>2, FS_AddElement
    <3>4. Cardinality(InPool') <= NumberOfWorkers
      <4>1. InPool' \in SUBSET Workers
        BY DEF InPool
      <4> QED
        BY <4>1, WorkersCount
    <3>5. threads \in 0 .. NumberOfWorkers - 1
      BY <1>1, <3>3, <3>4, WorkersCount
    <3> QED
      BY <3>1, <3>3, <3>5
  <2>2. CASE Exit(w)
    <3>1. /\ mode[w] = "get" /\ mode' = [mode EXCEPT ![w] = "exited"]
          /\ UNCHANGED number /\ threads' = threads - 1
      BY <2>2 DEF Exit, Enter
    <3>2. InPool' = InPool \ {w} /\ w \in InPool
      BY <2>0, <3>1 DEF InPool
    <3> QED
      BY <1>1, <3>1, <3>2, FS_RemoveElement
  <2>3. CASE ~StartThread(w) /\ ~Exit(w)
    BY <1>3, <2>3, PoolMoves DEF QueuesHold
  <2> QED
    BY <2>1, <2>2, <2>3
<1> QED
  BY <1>2, <1>3 DEF Next

\* The state keeps its types, for every number of workers and every program: all
\* indexes, slots, levels and worker numbers stay in range.
THEOREM NPTypeCorrect == Spec => []TypeOK
<1>1. Init => CountsHold
  <2> SUFFICES ASSUME Init PROVE CountsHold
    OBVIOUS
  <2>1. 0 \in 0 .. NumberOfWorkers - 1
    BY WorkersCount
  <2>2. InPool = {}
    BY DEF Init, InPool
  <2> QED
    BY <2>1, <2>2, QueuesHoldAtStart, FS_EmptySet DEF Init, CountsHold, ThreadsCounted
<1>2. CountsHold => TypeOK
  <2> SUFFICES ASSUME CountsHold PROVE TypeOK
    OBVIOUS
  <2>1. threads \in 0 .. NumberOfWorkers
    BY WorkersCount DEF CountsHold, ThreadsCounted, InPool
  <2>2. IdleTypeOK /\ mode \in [Workers -> Modes]
    BY DEF CountsHold, QueuesHold, LevelsHold, LocalShapes, IdleInv
  <2>3. QueueTypes /\ number \in [Workers -> 0 .. NumberOfWorkers - 1]
    BY DEF CountsHold, QueuesHold
  <2> QED
    BY <2>1, <2>2, <2>3 DEF TypeOK, QueueTypes
<1> QED
  BY <1>1, <1>2, StepKeepsCounts, PTL DEF Spec

-----------------------------------------------------------------------------
(* What the scheduler promises.                                            *)

\* Nothing is seen of a step that starts, ends and triggers no reaction.
LEMMA SameTags ==
    ASSUME UNCHANGED <<tag, running, status>>,
           \A w \in Workers : \A r \in Reactions :
               phase'[w] = "last" /\ r \in pending'[w] <=> phase[w] = "last" /\ r \in pending[w]
    PROVE  UNCHANGED Tags!vars
<1>1. Active' = Active
  BY DEF Active
<1>2. Todo' = Todo
  BY <1>1 DEF Todo
<1> QED
  BY <1>1, <1>2 DEF Tags!vars

LEMMA HiddenSteps ==
    ASSUME QueuesHold, NEW w \in Workers,
           \/ StartThread(w) \/ Exit(w) \/ ReadLevel(w) \/ Pop(w) \/ RequestStop(w)
           \/ Invoke(w) \/ ClaimSlot(w) \/ StoreReaction(w) \/ (WaitForWork(w) /\ ~AdvanceTag(w))
    PROVE  UNCHANGED Tags!vars
<1> USE DEF idleVars, workVars, queueVars, tagVars
<1>1. phase \in [Workers -> Phases]
  BY DEF QueuesHold, LevelsHold, IdleInv, IdleTypeOK
<1>2. UNCHANGED <<tag, running, status>>
  BY DEF StartThread, Exit, ReadLevel, Pop, RequestStop, Invoke, ClaimSlot, StoreReaction,
         WaitForWork, Block, BlockLast, ResetIndex, StayAtTag, Stop, EventsPopped,
         Distribute, NotifyWorkers, Release, Resume
<1>3. CASE StartThread(w) \/ Exit(w) \/ ReadLevel(w) \/ Pop(w) \/ RequestStop(w)
           \/ ClaimSlot(w) \/ StoreReaction(w) \/ ResetIndex(w) \/ StayAtTag(w)
           \/ EventsPopped(w) \/ Distribute(w)
  <2>1. UNCHANGED <<phase, pending>>
    BY <1>3 DEF StartThread, Exit, ReadLevel, Pop, RequestStop, ClaimSlot, StoreReaction,
                ResetIndex, StayAtTag, EventsPopped, Distribute
  <2> QED
    BY <1>2, <2>1, SameTags
<1>4. CASE Invoke(w)
  <2>1. phase[w] # "last" /\ UNCHANGED phase /\ \A v \in Workers \ {w} : pending'[v] = pending[v]
    BY <1>4 DEF Invoke, QueuesHold, LevelsHold, LevelInv, ModeOfPhase, QueueTypes
  <2> QED
    BY <1>2, <2>1, SameTags
<1>5. CASE Block(w) \/ Release(w) \/ Resume(w)
  <2>1. /\ phase[w] # "last" /\ phase'[w] # "last" /\ UNCHANGED pending
        /\ \A v \in Workers \ {w} : phase'[v] = phase[v]
    BY <1>1, <1>5 DEF Block, GoIdle, Release, ReleasePermits, Resume, TakePermit
  <2> QED
    BY <1>2, <2>1, SameTags
<1>6. CASE BlockLast(w) \/ Stop(w) \/ NotifyWorkers(w)
  <2>1. /\ mode[w] \notin {"trigger", "insert", "store"} /\ UNCHANGED pending
        /\ \A v \in Workers \ {w} : phase'[v] = phase[v]
    BY <1>1, <1>6 DEF BlockLast, GoIdleLast, Stop, SignalStop, NotifyWorkers, LowerIdle
  <2>2. pending[w] = {}
    BY <2>1 DEF QueuesHold, QueueInv, Upwards
  <2> QED
    BY <1>2, <2>1, <2>2, SameTags
<1> QED
  BY <1>3, <1>4, <1>5, <1>6 DEF WaitForWork

\* Taking a reaction starts it: it is queued, and nothing it must wait for is left.
LEMMA TakeStarts ==
    ASSUME QueuesHold, NEW w \in Workers, Take(w)
    PROVE  \E r \in Reactions : Tags!Start(r)
<1> USE DEF QueuesHold, LevelsHold, QueueInv, QueueTypes
<1>1. PICK r \in Reactions : r = running'[w] /\ Level[r] = executing /\ r # None
  BY TakeKeepsQueues, LevelFacts
<1>2. /\ mode[w] = "take" /\ running[w] = None /\ phase[w] = "working"
      /\ executing = nextLevel - 1 /\ ~shouldStop
  BY OpenLevels DEF Take, LevelInv, ModeOfPhase
<1>3. UNCHANGED <<tag, status, pending, phase>> /\ running' = [running EXCEPT ![w] = r]
  BY <1>1 DEF Take, idleVars, tagVars
<1>4. status[r] = "queued" /\ r \notin Active
  <2>1. slot[w] \in 0 .. VectorSize(executing) - 1 /\ vector[executing][slot[w]] = r
    BY <1>1, <1>2 DEF Take, SlotsPopped
  <2> QED
    BY <1>1, <2>1 DEF OnePlace, Active
<1>5. \A v \in Workers : phase[v] # "last"
  BY <1>2, NobodyIsLast
<1>6. \A q \in Reactions : status[q] = "queued" => ~(Level[q] < Level[r])
  <2> SUFFICES ASSUME NEW q \in Reactions, status[q] = "queued", Level[q] < executing
               PROVE  FALSE
    BY <1>1
  <2>1. Level[q] \in Levels /\ q \in AtLevel(Level[q])
    BY LevelFacts
  <2>2. Closed(Level[q])
    BY <1>2, <2>1 DEF Closed, Levels
  <2> QED
    BY <2>1, <2>2 DEF IndexCounts
<1>7. \A q \in Active : ~(Level[q] < Level[r])
  <2> TAKE q \in Active
  <2>1. PICK v \in Workers : q = running[v] /\ q # None
    BY DEF Active
  <2>2. Level[q] = executing
    BY <2>1 DEF Upwards
  <2>3. executing \in Int
    BY LevelFacts DEF Levels
  <2> QED
    BY <1>1, <2>2, <2>3
<1>8. Todo = {q \in Reactions \ Active : status[q] = "queued"}
  BY <1>5 DEF Todo
<1>9. Active' = Active \cup {r}
  <2>1. \A v \in Workers : running'[v] = IF v = w THEN r ELSE running[v]
    BY <1>3
  <2>2. \A q \in Active' : q \in Active \cup {r}
    <3> TAKE q \in Active'
    <3>1. PICK v \in Workers : q = running'[v] /\ q # None
      BY DEF Active
    <3> QED
      BY <2>1, <3>1 DEF Active
  <2>3. \A q \in Active \cup {r} : q \in Active'
    <3> TAKE q \in Active \cup {r}
    <3>1. CASE q = r
      BY <1>1, <2>1, <3>1 DEF Active
    <3>2. CASE q \in Active
      <4>1. PICK v \in Workers : q = running[v] /\ q # None
        BY <3>2 DEF Active
      <4> QED
        BY <1>2, <2>1, <4>1 DEF Active
    <3> QED
      BY <3>1, <3>2
  <2> QED
    BY <2>2, <2>3
<1>10. Todo' = {q \in Reactions \ Active' : status[q] = "queued"}
  BY <1>3, <1>5 DEF Todo
<1>11. Tags!Start(r)
  <2>1. r \in Todo
    BY <1>4, <1>8
  <2>2. \A q \in Todo \cup Active :
            <<q, r>> \notin {pair \in Reactions \X Reactions : Level[pair[1]] < Level[pair[2]]}
    BY <1>6, <1>7, <1>8
  <2>3. Todo' = Todo \ {r}
    BY <1>8, <1>9, <1>10
  <2> QED
    BY <1>3, <1>9, <2>1, <2>2, <2>3 DEF Tags!Start
<1> QED
  BY <1>11

\* A reaction that is done is no longer active.
LEMMA DoneFinishes ==
    ASSUME QueuesHold, NEW w \in Workers, DoneWithReaction(w)
    PROVE  \E r \in Reactions : Tags!Finish(r)
<1> USE DEF QueuesHold, LevelsHold, QueueInv, QueueTypes
<1>1. mode[w] = "trigger" /\ phase[w] = "working"
  BY DEF DoneWithReaction
<1>2. PICK r \in Reactions : running[w] = r /\ r # None
  BY <1>1, LevelFacts DEF LevelInv, ModeOfPhase
<1>3. /\ \A v \in Workers : running'[v] = IF v = w THEN None ELSE running[v]
      /\ \A q \in Reactions : status'[q] = IF q = r THEN "inactive" ELSE status[q]
      /\ UNCHANGED <<tag, phase, pending>>
  BY <1>2 DEF DoneWithReaction, idleVars, tagVars
<1>4. \A v \in Workers \ {w} : running[v] # r
  BY <1>2 DEF OnePlace
<1>5. Active' = Active \ {r} /\ r \in Active
  <2>1. \A q \in Active' : q \in Active \ {r}
    <3> TAKE q \in Active'
    <3>1. PICK v \in Workers : q = running'[v] /\ q # None
      BY DEF Active
    <3>2. v # w /\ q = running[v]
      BY <1>3, <3>1
    <3> QED
      BY <1>4, <3>1, <3>2 DEF Active
  <2>2. \A q \in Active \ {r} : q \in Active'
    <3> TAKE q \in Active \ {r}
    <3>1. PICK v \in Workers : q = running[v] /\ q # None
      BY DEF Active
    <3>2. q = running'[v]
      BY <1>2, <1>3, <3>1
    <3> QED
      BY <3>1, <3>2 DEF Active
  <2> QED
    BY <1>2, <2>1, <2>2 DEF Active
<1>6. \A v \in Workers : phase[v] # "last"
  BY <1>1, NobodyIsLast
<1>7. Todo = {q \in Reactions \ Active : status[q] = "queued"}
  BY <1>6 DEF Todo
<1>8. Todo' = {q \in Reactions \ Active' : status'[q] = "queued"}
  BY <1>3, <1>6 DEF Todo
<1>9. Todo' = Todo
  BY <1>3, <1>5, <1>7, <1>8
<1> QED
  BY <1>3, <1>5, <1>9 DEF Tags!Finish

\* What a running reaction triggers is to be executed from then on; what the worker
\* that pops events triggers was so already.
LEMMA TriggerTriggers ==
    ASSUME QueuesHold, NEW w \in Workers, TriggerReaction(w)
    PROVE  (\E q, r \in Reactions : Tags!Trigger(q, r)) \/ UNCHANGED Tags!vars
<1> USE DEF QueuesHold, LevelsHold, QueueInv, QueueTypes
<1>1. PICK r \in pending[w] :
         /\ pending' = [pending EXCEPT ![w] = @ \ {r}]
         /\ \/ status[r] = "inactive" /\ status' = [status EXCEPT ![r] = "queued"]
            \/ status[r] = "queued" /\ UNCHANGED status
  BY DEF TriggerReaction
<1>2. mode[w] = "trigger" /\ UNCHANGED <<tag, running, phase>> /\ r \in Reactions /\ r # None
  BY LevelFacts DEF TriggerReaction, idleVars, tagVars
<1>3. \A q \in Reactions : status'[q] = IF q = r THEN "queued" ELSE status[q]
  BY <1>1, <1>2
<1>4. \A v \in Workers : pending'[v] = IF v = w THEN pending[w] \ {r} ELSE pending[v]
  BY <1>1
<1>5. Active' = Active
  BY <1>2 DEF Active
<1>6. CASE running[w] = None
  <2>1. phase[w] = "last"
    BY <1>2, <1>6 DEF LevelInv, ModeOfPhase
  <2>2. ASSUME NEW q \in Reactions \ Active
        PROVE  \/ status'[q] = "queued"
               \/ \E v \in Workers : phase[v] = "last" /\ q \in pending'[v]
               <=>
               \/ status[q] = "queued"
               \/ \E v \in Workers : phase[v] = "last" /\ q \in pending[v]
    <3>1. CASE q = r
      BY <1>1, <1>3, <2>1, <3>1
    <3>2. CASE q # r
      <4>1. status'[q] = status[q]
        BY <1>3, <3>2
      <4>2. \A v \in Workers : q \in pending'[v] <=> q \in pending[v]
        BY <1>4, <3>2
      <4> QED
        BY <4>1, <4>2
    <3> QED
      BY <3>1, <3>2
  <2>3. Todo' = Todo
    BY <1>2, <1>5, <2>2 DEF Todo
  <2> QED
    BY <1>2, <1>5, <2>3 DEF Tags!vars
<1>7. CASE running[w] # None
  <2>1. phase[w] = "working"
    BY <1>2, <1>7 DEF LevelInv, ModeOfPhase, IdleInv, IdleTypeOK, Phases
  <2>2. \A v \in Workers : phase[v] # "last"
    BY <2>1, NobodyIsLast
  <2>3. /\ Todo = {q \in Reactions \ Active : status[q] = "queued"}
        /\ Todo' = {q \in Reactions \ Active : status'[q] = "queued"}
    BY <1>2, <1>5, <2>2 DEF Todo
  <2>4. CASE r \in Active \/ status[r] = "queued"
    <3>1. Todo' = Todo
      BY <1>1, <1>2, <1>3, <2>3, <2>4
    <3> QED
      BY <1>2, <1>5, <3>1 DEF Tags!vars
  <2>5. CASE r \notin Active
    <3>1. Todo' = Todo \cup {r}
      BY <1>2, <1>3, <2>3, <2>5
    <3>2. running[w] \in Active /\ running[w] \in Reactions
      BY <1>7 DEF Active
    <3> QED
      BY <1>2, <1>5, <2>5, <3>1, <3>2 DEF Tags!Trigger
  <2> QED
    BY <2>4, <2>5
<1> QED
  BY <1>6, <1>7

\* The tag advances when nothing is left to execute.
LEMMA AdvanceAdvances ==
    ASSUME QueuesHold, NEW w \in Workers, AdvanceTag(w)
    PROVE  Tags!Advance \/ UNCHANGED Tags!vars
<1> USE DEF QueuesHold, LevelsHold, QueueInv, QueueTypes
<1>1. mode[w] = "loop" /\ nextLevel = MaxLevel + 1
  BY DEF AdvanceTag
<1>2. UNCHANGED <<running, phase, status>>
  BY DEF AdvanceTag, idleVars, queueVars
<1>3. \A v \in Workers : running[v] = None
  BY <1>1, LastSeesAll
<1>4. Active = {} /\ Active' = {}
  BY <1>2, <1>3 DEF Active
<1>5. \A v \in Workers : phase[v] = "last" => pending[v] = {}
  <2>1. \A v \in Workers : mode[v] \in {"loop", "get"}
    BY <1>1, LastSeesAll
  <2> QED
    BY <2>1 DEF Upwards
<1>6. \A r \in Reactions : status[r] = "inactive"
  BY <1>1, LevelsDone, LevelFacts
<1>7. Todo = {}
  BY <1>5, <1>6 DEF Todo
<1>8. CASE tag >= stopTag
  <2>1. UNCHANGED <<tag, pending>>
    BY <1>8 DEF AdvanceTag
  <2> QED
    BY <1>2, <2>1, SameTags
<1>9. CASE ~(tag >= stopTag)
  <2>1. tag' = tag + 1
    BY <1>9 DEF AdvanceTag
  <2>2. Todo' \in SUBSET Reactions
    BY DEF Todo
  <2> QED
    BY <1>4, <1>7, <2>1, <2>2 DEF Tags!Advance
<1> QED
  BY <1>8, <1>9

\* The NP scheduler implements TagExecution, for every number of workers and every
\* program: what is triggered at a tag is executed at it, once and after what it
\* depends on, and the tag advances when nothing is left to execute.
THEOREM NPImplementsTagExecution == Spec => ImplementsTagExecution
<1>1. Init => Tags!Init
  <2> SUFFICES ASSUME Init PROVE Tags!Init
    OBVIOUS
  <2>1. PICK timeout \in Timeouts :
           status = [r \in Reactions |-> IF r \in AtStart(timeout) THEN "queued" ELSE "inactive"]
    BY DEF Init
  <2>2. tag = 0 /\ running = [w \in Workers |-> None] /\ pending = [w \in Workers |-> {}]
    BY DEF Init
  <2>3. Active = {}
    BY <2>2 DEF Active
  <2>4. AtStart(timeout) \subseteq Reactions
    BY NPAssumption DEF AtStart
  <2>5. Todo = AtStart(timeout)
    BY <2>1, <2>2, <2>3, <2>4 DEF Todo
  <2> QED
    BY <2>2, <2>3, <2>5 DEF Tags!Init
<1>2. QueuesHold /\ [Next]_vars => [Tags!Next]_(Tags!vars)
  <2> SUFFICES ASSUME QueuesHold, [Next]_vars PROVE [Tags!Next]_(Tags!vars)
    OBVIOUS
  <2>1. CASE UNCHANGED vars
    BY <2>1, SameTags DEF vars, idleVars, workVars, queueVars, tagVars
  <2>2. ASSUME NEW w \in Workers, WorkerStep(w) PROVE [Tags!Next]_(Tags!vars)
    <3>1. CASE Take(w)
      BY <3>1, TakeStarts DEF Tags!Next
    <3>2. CASE DoneWithReaction(w)
      BY <3>2, DoneFinishes DEF Tags!Next
    <3>3. CASE TriggerReaction(w)
      BY <3>3, TriggerTriggers DEF Tags!Next
    <3>4. CASE AdvanceTag(w)
      BY <3>4, AdvanceAdvances DEF Tags!Next
    <3> QED
      BY <2>2, <3>1, <3>2, <3>3, <3>4, HiddenSteps
         DEF WorkerStep, GetReadyReaction, Execute
  <2> QED
    BY <2>1, <2>2 DEF Next
<1> QED
  BY <1>1, <1>2, QueuesHoldAtStart, StepKeepsQueues, PTL
     DEF Spec, ImplementsTagExecution, Tags!Spec
=============================================================================
