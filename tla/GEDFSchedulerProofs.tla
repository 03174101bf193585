------------------------- MODULE GEDFSchedulerProofs -------------------------
(***************************************************************************)
(* Theorems about the GEDF_NP scheduler for every program and every number *)
(* of workers: it implements the idle hand-shake, forgets no reaction, and *)
(* implements TagExecution, where a reaction waits for all of lower        *)
(* levels.  GEDFInv is the inductive invariant; there is one lemma for the *)
(* steps that touch no queue and one for each action that does.            *)
(***************************************************************************)
EXTENDS GEDFScheduler, IdleWorkersProofs

\* The part of the invariant that the steps of the scheduler must keep by
\* themselves; IdleInv is kept because they are steps of the hand-shake.
QueueInv ==
    /\ TypeOK
    /\ \A w \in Workers : ModeOfPhase(w) /\ Holding(w)
    /\ \A v, w \in Workers : Apart(v, w)
    /\ QueuesHold
    /\ LevelsHold

-----------------------------------------------------------------------------
(* The idle hand-shake.                                                    *)

LEMMA StepIsHandshakeStep == [Next]_vars => [IdleNext]_idleVars
<1> SUFFICES ASSUME [Next]_vars PROVE [IdleNext]_idleVars
  OBVIOUS
<1>1. CASE UNCHANGED vars
  BY <1>1 DEF vars
<1>2. ASSUME NEW w \in Workers, Step(w) PROVE [IdleNext]_idleVars
  <2>1. CASE \/ Exit(w) \/ ReadLevel(w) \/ Pop(w) \/ TriggerReaction(w) \/ InsertReaction(w)
             \/ AdvanceTag(w) \/ StayAtTag(w) \/ Distribute(w)
    BY <2>1 DEF Exit, ReadLevel, Pop, TriggerReaction, InsertReaction, AdvanceTag, StayAtTag,
                Distribute
  <2>2. CASE Block(w) \/ BlockLast(w) \/ Stop(w)
    BY <2>2 DEF Block, BlockLast, Stop, IdleNext
  <2>3. CASE NotifyWorkers(w)
    <3>1. PICK k : LowerIdle(w, k)
      BY <2>3 DEF NotifyWorkers
    <3> QED
      BY <3>1 DEF IdleNext, LowerIdle
  <2>4. CASE Elsewhere(w)
    BY <2>4 DEF Elsewhere, IdleNext
  <2> QED
    BY <1>2, <2>1, <2>2, <2>3, <2>4 DEF Step
<1> QED
  BY <1>1, <1>2 DEF Next

\* The GEDF_NP scheduler implements the idle hand-shake.
THEOREM GEDFImplementsHandshake == Spec => IdleSpec
<1>1. Init => IdleInit
  BY DEF Init
<1> QED
  BY <1>1, StepIsHandshakeStep, PTL DEF Spec, IdleSpec

-----------------------------------------------------------------------------
(* Who is where.                                                           *)

\* While a worker is at work nobody distributes reactions.
LEMMA AtWork ==
    ASSUME GEDFInv, NEW w \in Workers, phase[w] = "working"
    PROVE  /\ \A v \in Workers : phase[v] \in {"working", "blocked"}
           /\ \A v \in Workers : mode[v] \notin LastModes
           /\ mode[w] \notin {"get", "exited"} => ~shouldStop
           /\ ~shouldStop => nextLevel = executing + 1
<1>1. \A v \in Workers : phase[v] \in {"working", "blocked"}
  BY WorkingMeansNobodyLast DEF GEDFInv
<1>2. \A v \in Workers : mode[v] \notin LastModes
  BY <1>1 DEF GEDFInv, ModeOfPhase, WorkingModes, LastModes
<1> QED
  BY <1>1, <1>2 DEF GEDFInv, ModeOfPhase, LevelsHold

\* The mode says in which phase of the hand-shake a worker is.
LEMMA PhaseOfMode ==
    ASSUME GEDFInv, NEW w \in Workers
    PROVE  /\ mode[w] \in LastModes => phase[w] = "last"
           /\ mode[w] \in WorkingModes \ {"get"} => phase[w] = "working"
BY DEF GEDFInv, ModeOfPhase, IdleInv, IdleTypeOK, Phases, WorkingModes, LastModes

\* The others sleep, with nothing in their hands, while the last one works.
LEMMA OthersSleep ==
    ASSUME GEDFInv, NEW w \in Workers, phase[w] = "last"
    PROVE  /\ \A v \in Workers \ {w} : phase[v] = "blocked" /\ mode[v] = "get"
           /\ \A v \in Workers : running[v] = None /\ inserting[v] = None /\ pending[v] = {}
           /\ ~shouldStop
<1>1. \A v \in Workers \ {w} : phase[v] = "blocked" /\ mode[v] = "get"
  BY DEF GEDFInv, IdleInv, LastIsAlone, ModeOfPhase
<1>2. mode[w] \in LastModes
  BY DEF GEDFInv, ModeOfPhase
<1>3. \A v \in Workers : running[v] = None /\ inserting[v] = None /\ pending[v] = {}
  BY <1>1, <1>2 DEF GEDFInv, Holding, LastModes
<1> QED
  BY <1>1, <1>3 DEF GEDFInv, IdleInv, LastState

LEMMA LevelFacts ==
    /\ MaxLevel \in Nat /\ 0 \in Levels
    /\ \A r \in Reactions : Level[r] \in Levels /\ Level[r] \in Nat
    /\ \A l \in Levels : l \in Nat /\ l <= MaxLevel
    /\ None \notin Reactions
BY TagWorkersAssumption DEF Levels

-----------------------------------------------------------------------------
(* The steps that touch no queue.                                          *)

\* What a step keeps that changes neither the queues nor what the workers hold.
LEMMA QuietStep ==
    ASSUME GEDFInv,
           UNCHANGED <<running, inserting, pending, status, tagVars, queue, executing, nextLevel>>,
           mode' \in [Workers -> WorkingModes \cup LastModes],
           \A v \in Workers : ModeOfPhase(v)',
           \A v \in Workers : mode'[v] # mode[v] =>
               mode[v] \notin {"invoke", "trigger", "insert"} /\ mode'[v] \notin {"invoke", "trigger", "insert"},
           LevelsHold'
    PROVE  QueueInv'
<1>1. TypeOK'
  BY DEF GEDFInv, TypeOK, tagVars
<1>2. \A v \in Workers : Holding(v)'
  BY DEF GEDFInv, Holding
<1>3. \A u, v \in Workers : Apart(u, v)'
  BY DEF GEDFInv, Apart
<1>4. QueuesHold'
  BY DEF GEDFInv, QueuesHold
<1> QED
  BY <1>1, <1>2, <1>3, <1>4 DEF QueueInv

LEMMA QuietStepsKeep ==
    ASSUME GEDFInv, NEW w \in Workers,
           \/ (ReleasePermits(w) \/ TakePermit(w)) /\ UNCHANGED <<threadVars, gedfVars>>
           \/ Exit(w) \/ ReadLevel(w) \/ Block(w) \/ BlockLast(w) \/ StayAtTag(w)
           \/ NotifyWorkers(w)
    PROVE  QueueInv'
<1> USE DEF threadVars, workVars, tagVars, gedfVars, idleVars, Enter, WorkingModes, LastModes
<1>0. /\ mode \in [Workers -> WorkingModes \cup LastModes]
      /\ phase \in [Workers -> Phases]
  BY DEF GEDFInv, TypeOK, IdleInv, IdleTypeOK
<1>1. CASE (ReleasePermits(w) \/ TakePermit(w)) /\ UNCHANGED <<threadVars, gedfVars>>
  <2>1. /\ phase[w] \in {"release", "blocked"} /\ UNCHANGED <<threadVars, gedfVars, shouldStop>>
        /\ phase' = [phase EXCEPT ![w] = "working"]
    BY <1>1 DEF ReleasePermits, TakePermit
  <2>2. \A v \in Workers : ModeOfPhase(v)'
    BY <2>1, <1>0 DEF GEDFInv, ModeOfPhase
  <2>3. LevelsHold'
    BY <2>1, <1>0 DEF GEDFInv, LevelsHold
  <2> QED
    BY <1>0, <2>1, <2>2, <2>3, QuietStep
<1>2. CASE Exit(w)
  <2>1. \A v \in Workers : ModeOfPhase(v)'
    BY <1>2, <1>0 DEF Exit, GEDFInv, ModeOfPhase
  <2>2. LevelsHold'
    BY <1>2, <1>0 DEF Exit, GEDFInv, LevelsHold
  <2> QED
    BY <1>2, <1>0, <2>1, <2>2, QuietStep DEF Exit
<1>3. CASE ReadLevel(w)
  <2>1. \A v \in Workers : ModeOfPhase(v)'
    BY <1>3, <1>0 DEF ReadLevel, GEDFInv, ModeOfPhase
  <2>2. LevelsHold'
    BY <1>3, <1>0 DEF ReadLevel, GEDFInv, LevelsHold
  <2> QED
    BY <1>3, <1>0, <2>1, <2>2, QuietStep DEF ReadLevel
<1>4. CASE Block(w)
  <2>1. \A v \in Workers : ModeOfPhase(v)'
    BY <1>4, <1>0 DEF Block, GoIdle, GEDFInv, ModeOfPhase
  <2>2. LevelsHold'
    BY <1>4, <1>0 DEF Block, GoIdle, GEDFInv, LevelsHold
  <2> QED
    BY <1>4, <1>0, <2>1, <2>2, QuietStep DEF Block, GoIdle
<1>5. CASE BlockLast(w)
  <2>1. \A v \in Workers : ModeOfPhase(v)'
    BY <1>5, <1>0 DEF BlockLast, GoIdleLast, GEDFInv, ModeOfPhase
  <2>2. nextLevel = executing + 1 /\ queue[executing] = {}
    BY <1>5, AtWork DEF BlockLast, GoIdleLast, GEDFInv, LevelsHold
  <2>3. \A l \in Levels : l < nextLevel => queue[l] = {}
    BY <2>2, LevelFacts DEF GEDFInv, LevelsHold, TypeOK
  <2>4. \A v \in Workers : mode[v] \notin LastModes
    BY <1>5, AtWork DEF BlockLast, GoIdleLast
  <2>5. LevelsHold'
    BY <1>5, <1>0, <2>2, <2>3, <2>4 DEF BlockLast, GoIdleLast, GEDFInv, LevelsHold
  <2> QED
    BY <1>5, <1>0, <2>1, <2>5, QuietStep DEF BlockLast, GoIdleLast
<1>6. CASE StayAtTag(w)
  <2>1. \A v \in Workers : ModeOfPhase(v)'
    BY <1>6, <1>0, PhaseOfMode DEF StayAtTag, GEDFInv, ModeOfPhase
  <2>2. LevelsHold'
    BY <1>6, <1>0 DEF StayAtTag, GEDFInv, LevelsHold
  <2> QED
    BY <1>6, <1>0, <2>1, <2>2, QuietStep DEF StayAtTag
<1>7. CASE NotifyWorkers(w)
  <2>1. PICK k : LowerIdle(w, k)
    BY <1>7 DEF NotifyWorkers
  <2>2. /\ mode[w] = "notify" /\ mode' = [mode EXCEPT ![w] = "get"]
        /\ UNCHANGED <<running, inserting, pending, status, tagVars, queue, executing, nextLevel>>
    BY <1>7 DEF NotifyWorkers
  <2>3. /\ phase[w] = "last" /\ phase' = [phase EXCEPT ![w] = "release"] /\ shouldStop' = shouldStop
    BY <2>1 DEF LowerIdle
  <2>4. \A v \in Workers : ModeOfPhase(v)'
    BY <1>0, <2>2, <2>3 DEF GEDFInv, ModeOfPhase
  <2>5. LevelsHold'
    BY <1>0, <2>2, <2>3 DEF GEDFInv, LevelsHold
  <2> QED
    BY <1>0, <2>2, <2>3, <2>4, <2>5, QuietStep
<1> QED
  BY <1>1, <1>2, <1>3, <1>4, <1>5, <1>6, <1>7

-----------------------------------------------------------------------------
(* Taking a reaction.                                                      *)

LEMMA PopKeeps ==
    ASSUME GEDFInv, NEW w \in Workers, Pop(w)
    PROVE  QueueInv'
<1> USE DEF Enter, WorkingModes, LastModes, tagVars, idleVars
<1>0. /\ mode[w] = "pop" /\ phase[w] = "working" /\ ~shouldStop
      /\ running[w] = None /\ inserting[w] = None /\ pending[w] = {}
      /\ nextLevel = executing + 1
      /\ UNCHANGED <<idleVars, pending, status, tagVars, inserting, executing, nextLevel>>
  BY PhaseOfMode, AtWork DEF Pop, GEDFInv, Holding
<1>1. CASE queue[executing] = {}
  <2>1. mode' = [mode EXCEPT ![w] = "idle"] /\ UNCHANGED <<running, queue>>
    BY <1>1 DEF Pop
  <2>2. \A v \in Workers : ModeOfPhase(v)'
    BY <1>0, <2>1 DEF GEDFInv, TypeOK, ModeOfPhase
  <2>3. LevelsHold'
    BY <1>0, <1>1, <2>1 DEF GEDFInv, TypeOK, LevelsHold
  <2> QED
    BY <1>0, <2>1, <2>2, <2>3, QuietStep DEF GEDFInv, TypeOK
<1>2. CASE queue[executing] # {}
  <2>1. PICK r \in queue[executing] :
           /\ queue' = [queue EXCEPT ![executing] = @ \ {r}]
           /\ running' = [running EXCEPT ![w] = r]
           /\ mode' = [mode EXCEPT ![w] = "invoke"]
    BY <1>2 DEF Pop, Get
  <2>2. /\ r \in Reactions /\ status[r] = "queued" /\ Level[r] = executing /\ r # None
        /\ \A v \in Workers : running[v] # r /\ inserting[v] # r
    BY LevelFacts DEF GEDFInv, TypeOK, QueuesHold
  <2>3. TypeOK'
    BY <1>0, <2>1, <2>2 DEF GEDFInv, TypeOK
  <2>4. \A v \in Workers : ModeOfPhase(v)' /\ Holding(v)'
    <3> SUFFICES ASSUME NEW v \in Workers PROVE ModeOfPhase(v)' /\ Holding(v)'
      OBVIOUS
    <3>1. CASE v = w
      BY <3>1, <1>0, <2>1, <2>2 DEF GEDFInv, TypeOK, ModeOfPhase, Holding
    <3>2. CASE v # w
      BY <3>2, <1>0, <2>1 DEF GEDFInv, TypeOK, ModeOfPhase, Holding
    <3> QED
      BY <3>1, <3>2
  <2>5. \A u, v \in Workers : Apart(u, v)'
    BY <1>0, <2>1, <2>2 DEF GEDFInv, TypeOK, Apart
  <2>6. QueuesHold'
    <3>1. \A l \in Levels : \A q \in queue'[l] : q \in queue[l] /\ q # r
      BY <2>1, <2>2 DEF GEDFInv, TypeOK, QueuesHold
    <3>2. \A q \in Reactions : q # r => (q \in queue'[Level[q]] <=> q \in queue[Level[q]])
      BY <2>1, LevelFacts DEF GEDFInv, TypeOK
    <3>3. \A v \in Workers : running'[v] = IF v = w THEN r ELSE running[v]
      BY <2>1 DEF GEDFInv, TypeOK
    <3>4. \A l \in Levels : \A q \in queue'[l] :
             /\ Level[q] = l /\ status'[q] = "queued"
             /\ \A v \in Workers : running'[v] # q /\ inserting'[v] # q
      BY <1>0, <3>1, <3>3 DEF GEDFInv, QueuesHold
    <3>5. ASSUME NEW q \in Reactions, status'[q] = "queued"
          PROVE  q \in queue'[Level[q]] \/ \E v \in Workers : running'[v] = q \/ inserting'[v] = q
      <4>1. CASE q = r
        BY <4>1, <3>3
      <4>2. CASE q # r
        <5>1. q \in queue[Level[q]] \/ \E v \in Workers : running[v] = q \/ inserting[v] = q
          BY <3>5, <1>0 DEF GEDFInv, QueuesHold
        <5> QED
          BY <4>2, <5>1, <3>2, <3>3, <1>0, LevelFacts
      <4> QED
        BY <4>1, <4>2
    <3> QED
      BY <3>4, <3>5 DEF QueuesHold
  <2>7. LevelsHold'
    BY <1>0, <2>1, AtWork DEF GEDFInv, TypeOK, LevelsHold
  <2> QED
    BY <2>3, <2>4, <2>5, <2>6, <2>7 DEF QueueInv
<1> QED
  BY <1>1, <1>2

-----------------------------------------------------------------------------
(* Running and triggering.                                                 *)

\* The level of what a reaction may trigger is above the level that is executed.
LEMMA InvokeKeeps ==
    ASSUME GEDFInv, NEW w \in Workers, Invoke(w), UNCHANGED <<idleVars, gedfVars>>
    PROVE  QueueInv'
<1> USE DEF Enter, WorkingModes, LastModes, tagVars, idleVars, gedfVars
<1>0. /\ mode[w] = "invoke" /\ phase[w] = "working"
      /\ running[w] \in Reactions /\ Level[running[w]] = executing
      /\ UNCHANGED <<idleVars, running, inserting, status, tagVars, queue, executing, nextLevel>>
      /\ mode' = [mode EXCEPT ![w] = "trigger"]
  BY PhaseOfMode DEF Invoke, GEDFInv, TypeOK, Holding
<1>1. PICK triggered \in Effects[running[w]] : pending' = [pending EXCEPT ![w] = triggered]
  BY DEF Invoke
<1>2. triggered \in SUBSET Reactions /\ \A r \in triggered : Level[r] > executing
  <2>1. \A r \in triggered : Level[running[w]] < Level[r]
    BY <1>0, <1>1, TagWorkersAssumption
  <2>2. triggered \in SUBSET Reactions
    BY <1>0, <1>1, TagWorkersAssumption
  <2> QED
    BY <1>0, <2>1, <2>2, LevelFacts
<1>3. TypeOK'
  BY <1>0, <1>1, <1>2 DEF GEDFInv, TypeOK
<1>4. \A v \in Workers : ModeOfPhase(v)' /\ Holding(v)'
  <2> SUFFICES ASSUME NEW v \in Workers PROVE ModeOfPhase(v)' /\ Holding(v)'
    OBVIOUS
  <2>1. CASE v = w
    BY <2>1, <1>0, <1>1, <1>2 DEF GEDFInv, TypeOK, ModeOfPhase, Holding
  <2>2. CASE v # w
    BY <2>2, <1>0, <1>1 DEF GEDFInv, TypeOK, ModeOfPhase, Holding
  <2> QED
    BY <2>1, <2>2
<1>5. \A u, v \in Workers : Apart(u, v)'
  BY <1>0 DEF GEDFInv, Apart
<1>6. QueuesHold' /\ LevelsHold'
  BY <1>0 DEF GEDFInv, TypeOK, QueuesHold, LevelsHold
<1> QED
  BY <1>3, <1>4, <1>5, <1>6 DEF QueueInv

LEMMA LoseKeeps ==
    ASSUME GEDFInv, NEW w \in Workers, Lose(w), UNCHANGED <<idleVars, gedfVars>>
    PROVE  QueueInv'
<1> USE DEF tagVars, idleVars, gedfVars
<1>0. /\ mode[w] = "trigger"
      /\ UNCHANGED <<mode, phase, shouldStop, running, inserting, status, tagVars, queue, executing, nextLevel>>
  BY DEF Lose
<1>1. PICK r \in pending[w] : pending' = [pending EXCEPT ![w] = @ \ {r}]
  BY DEF Lose
<1>2. \A v \in Workers : pending'[v] \subseteq pending[v]
  BY <1>1 DEF GEDFInv, TypeOK
<1>3. TypeOK'
  BY <1>0, <1>1 DEF GEDFInv, TypeOK
<1>4. \A v \in Workers : ModeOfPhase(v)' /\ Holding(v)'
  BY <1>0, <1>2 DEF GEDFInv, ModeOfPhase, Holding
<1>5. \A u, v \in Workers : Apart(u, v)'
  BY <1>0 DEF GEDFInv, Apart
<1>6. QueuesHold' /\ LevelsHold'
  BY <1>0 DEF GEDFInv, QueuesHold, LevelsHold
<1> QED
  BY <1>3, <1>4, <1>5, <1>6 DEF QueueInv

LEMMA TriggerKeeps ==
    ASSUME GEDFInv, NEW w \in Workers, TriggerReaction(w)
    PROVE  QueueInv'
<1> USE DEF Enter, WorkingModes, LastModes, tagVars, idleVars
<1>1. PICK r \in pending[w] :
         /\ Win(w, r)
         /\ inserting' = [inserting EXCEPT ![w] = r]
  BY DEF TriggerReaction
<1>2. /\ mode[w] = "trigger" /\ phase[w] = "working" /\ status[r] = "inactive"
      /\ r \in Reactions /\ r # None /\ Level[r] > executing
      /\ running[w] # None /\ inserting[w] = None
      /\ pending' = [pending EXCEPT ![w] = @ \ {r}]
      /\ status' = [status EXCEPT ![r] = "queued"]
      /\ mode' = [mode EXCEPT ![w] = "insert"]
      /\ UNCHANGED <<idleVars, running, tagVars, queue, executing, nextLevel>>
  BY <1>1, PhaseOfMode, LevelFacts DEF TriggerReaction, Win, Wins, GEDFInv, TypeOK, Holding
<1>3. /\ \A v \in Workers : running[v] # r /\ inserting[v] # r
      /\ \A l \in Levels : r \notin queue[l]
  BY <1>2 DEF GEDFInv, Holding, QueuesHold
<1>4. /\ \A q \in Reactions : status'[q] = IF q = r THEN "queued" ELSE status[q]
      /\ \A v \in Workers : /\ inserting'[v] = IF v = w THEN r ELSE inserting[v]
                            /\ pending'[v] \subseteq pending[v]
  BY <1>1, <1>2 DEF GEDFInv, TypeOK
<1>5. TypeOK'
  BY <1>1, <1>2 DEF GEDFInv, TypeOK
<1>6. \A v \in Workers : ModeOfPhase(v)' /\ Holding(v)'
  <2> SUFFICES ASSUME NEW v \in Workers PROVE ModeOfPhase(v)' /\ Holding(v)'
    OBVIOUS
  <2>1. CASE v = w
    BY <2>1, <1>2, <1>3, <1>4 DEF GEDFInv, TypeOK, ModeOfPhase, Holding
  <2>2. CASE v # w
    BY <2>2, <1>2, <1>3, <1>4 DEF GEDFInv, TypeOK, ModeOfPhase, Holding
  <2> QED
    BY <2>1, <2>2
<1>7. \A u, v \in Workers : Apart(u, v)'
  BY <1>2, <1>3, <1>4 DEF GEDFInv, Apart
<1>8. QueuesHold'
  <2>1. \A l \in Levels : \A q \in queue'[l] :
           /\ Level[q] = l /\ status'[q] = "queued"
           /\ \A v \in Workers : running'[v] # q /\ inserting'[v] # q
    BY <1>2, <1>3, <1>4 DEF GEDFInv, TypeOK, QueuesHold
  <2>2. ASSUME NEW q \in Reactions, status'[q] = "queued"
        PROVE  q \in queue'[Level[q]] \/ \E v \in Workers : running'[v] = q \/ inserting'[v] = q
    <3>1. CASE q = r
      BY <3>1, <1>4
    <3>2. CASE q # r
      BY <3>2, <2>2, <1>2, <1>4, LevelFacts DEF GEDFInv, QueuesHold
    <3> QED
      BY <3>1, <3>2
  <2> QED
    BY <2>1, <2>2 DEF QueuesHold
<1>9. LevelsHold'
  BY <1>2 DEF GEDFInv, TypeOK, LevelsHold
<1> QED
  BY <1>5, <1>6, <1>7, <1>8, <1>9 DEF QueueInv

LEMMA InsertKeeps ==
    ASSUME GEDFInv, NEW w \in Workers, InsertReaction(w)
    PROVE  QueueInv'
<1> USE DEF Enter, WorkingModes, LastModes, tagVars, idleVars, workVars
<1>1. PICK r : r = inserting[w]
  OBVIOUS
<1>2. /\ mode[w] = "insert" /\ phase[w] = "working" /\ ~shouldStop
      /\ r \in Reactions /\ r # None /\ status[r] = "queued" /\ Level[r] > executing
      /\ running[w] # None /\ nextLevel = executing + 1
      /\ inserting' = [inserting EXCEPT ![w] = None]
      /\ queue' = [queue EXCEPT ![Level[r]] = @ \cup {r}]
      /\ mode' = [mode EXCEPT ![w] = "trigger"]
      /\ UNCHANGED <<idleVars, running, pending, status, tagVars, executing, nextLevel>>
  BY <1>1, PhaseOfMode, AtWork, LevelFacts DEF InsertReaction, GEDFInv, TypeOK, Holding
<1>3. \A v \in Workers : running[v] # r /\ (v # w => inserting[v] # r)
  BY <1>1, <1>2 DEF GEDFInv, Apart
<1>4. /\ \A v \in Workers : inserting'[v] = IF v = w THEN None ELSE inserting[v]
      /\ \A l \in Levels : queue'[l] = IF l = Level[r] THEN queue[l] \cup {r} ELSE queue[l]
  BY <1>2, LevelFacts DEF GEDFInv, TypeOK
<1>5. TypeOK'
  BY <1>2, LevelFacts DEF GEDFInv, TypeOK
<1>6. \A v \in Workers : ModeOfPhase(v)' /\ Holding(v)'
  <2> SUFFICES ASSUME NEW v \in Workers PROVE ModeOfPhase(v)' /\ Holding(v)'
    OBVIOUS
  <2>1. CASE v = w
    BY <2>1, <1>2, <1>4 DEF GEDFInv, TypeOK, ModeOfPhase, Holding
  <2>2. CASE v # w
    BY <2>2, <1>2, <1>4 DEF GEDFInv, TypeOK, ModeOfPhase, Holding
  <2> QED
    BY <2>1, <2>2
<1>7. \A u, v \in Workers : Apart(u, v)'
  BY <1>2, <1>4 DEF GEDFInv, Apart
<1>8. QueuesHold'
  <2>1. ASSUME NEW l \in Levels, NEW q \in queue'[l]
        PROVE  /\ Level[q] = l /\ status'[q] = "queued"
               /\ \A v \in Workers : running'[v] # q /\ inserting'[v] # q
    <3>1. CASE q \in queue[l]
      <4>1. /\ Level[q] = l /\ status[q] = "queued"
            /\ \A v \in Workers : running[v] # q /\ inserting[v] # q
        BY <3>1 DEF GEDFInv, QueuesHold
      <4>2. q \in Reactions
        BY <3>1 DEF GEDFInv, TypeOK
      <4> QED
        BY <4>1, <4>2, <1>2, <1>4, LevelFacts
    <3>2. CASE q \notin queue[l]
      <4>1. q = r /\ l = Level[r]
        BY <3>2, <1>4
      <4> QED
        BY <4>1, <1>2, <1>3, <1>4
    <3> QED
      BY <3>1, <3>2
  <2>2. \A l \in Levels : \A q \in queue'[l] :
           /\ Level[q] = l /\ status'[q] = "queued"
           /\ \A v \in Workers : running'[v] # q /\ inserting'[v] # q
    BY <2>1
  <2>3. ASSUME NEW q \in Reactions, status'[q] = "queued"
        PROVE  q \in queue'[Level[q]] \/ \E v \in Workers : running'[v] = q \/ inserting'[v] = q
    <3>1. CASE q = r
      BY <3>1, <1>4, LevelFacts
    <3>2. CASE q # r
      BY <3>2, <2>3, <1>1, <1>2, <1>4, LevelFacts DEF GEDFInv, QueuesHold
    <3> QED
      BY <3>1, <3>2
  <2> QED
    BY <2>2, <2>3 DEF QueuesHold
<1>9. LevelsHold'
  <2>1. \A l \in Levels : queue'[l] # {} =>
           l >= nextLevel \/ (l = executing /\ nextLevel = executing + 1)
    BY <1>2, <1>4, LevelFacts DEF GEDFInv, LevelsHold, TypeOK
  <2>2. queue'[executing] = queue[executing]
    BY <1>2, <1>4, LevelFacts DEF GEDFInv, TypeOK
  <2>3. \A v \in Workers : mode'[v] \notin LastModes
    BY <1>2, AtWork DEF GEDFInv, TypeOK
  <2>4. \A v \in Workers : mode'[v] = "idle" => mode[v] = "idle"
    BY <1>2 DEF GEDFInv, TypeOK
  <2> QED
    BY <2>1, <2>2, <2>3, <2>4, <1>2 DEF GEDFInv, LevelsHold
<1> QED
  BY <1>5, <1>6, <1>7, <1>8, <1>9 DEF QueueInv

LEMMA DoneKeeps ==
    ASSUME GEDFInv, NEW w \in Workers, Done(w, "queued", "get"), UNCHANGED <<idleVars, gedfVars>>
    PROVE  QueueInv'
<1> USE DEF Enter, WorkingModes, LastModes, tagVars, idleVars, gedfVars
<1>1. PICK r : r = running[w]
  OBVIOUS
<1>2. /\ mode[w] = "trigger" /\ phase[w] = "working" /\ pending[w] = {}
      /\ r \in Reactions /\ r # None /\ inserting[w] = None
      /\ status' = [status EXCEPT ![r] = "inactive"]
      /\ running' = [running EXCEPT ![w] = None]
      /\ mode' = [mode EXCEPT ![w] = "get"]
      /\ UNCHANGED <<idleVars, inserting, pending, tagVars, queue, executing, nextLevel>>
  BY <1>1, PhaseOfMode, LevelFacts DEF Done, GEDFInv, TypeOK, Holding
<1>3. /\ \A v \in Workers : inserting[v] # r /\ (v # w => running[v] # r)
      /\ \A l \in Levels : r \notin queue[l]
  BY <1>1, <1>2 DEF GEDFInv, Apart, QueuesHold
<1>4. /\ \A v \in Workers : running'[v] = IF v = w THEN None ELSE running[v]
      /\ \A q \in Reactions : status'[q] = IF q = r THEN "inactive" ELSE status[q]
  BY <1>2 DEF GEDFInv, TypeOK
<1>5. TypeOK'
  BY <1>2 DEF GEDFInv, TypeOK
<1>6. \A v \in Workers : ModeOfPhase(v)' /\ Holding(v)'
  <2> SUFFICES ASSUME NEW v \in Workers PROVE ModeOfPhase(v)' /\ Holding(v)'
    OBVIOUS
  <2>1. CASE v = w
    BY <2>1, <1>2, <1>4 DEF GEDFInv, TypeOK, ModeOfPhase, Holding
  <2>2. CASE v # w
    BY <2>2, <1>2, <1>3, <1>4 DEF GEDFInv, TypeOK, ModeOfPhase, Holding
  <2> QED
    BY <2>1, <2>2
<1>7. \A u, v \in Workers : Apart(u, v)'
  BY <1>2, <1>4 DEF GEDFInv, Apart
<1>8. QueuesHold'
  <2>1. \A l \in Levels : \A q \in queue'[l] :
           /\ Level[q] = l /\ status'[q] = "queued"
           /\ \A v \in Workers : running'[v] # q /\ inserting'[v] # q
    BY <1>2, <1>3, <1>4, LevelFacts DEF GEDFInv, TypeOK, QueuesHold
  <2>2. ASSUME NEW q \in Reactions, status'[q] = "queued"
        PROVE  q \in queue'[Level[q]] \/ \E v \in Workers : running'[v] = q \/ inserting'[v] = q
    <3>1. q # r /\ status[q] = "queued"
      BY <2>2, <1>4
    <3> QED
      BY <3>1, <1>1, <1>2, <1>4 DEF GEDFInv, QueuesHold
  <2> QED
    BY <2>1, <2>2 DEF QueuesHold
<1>9. LevelsHold'
  BY <1>2 DEF GEDFInv, TypeOK, LevelsHold
<1> QED
  BY <1>5, <1>6, <1>7, <1>8, <1>9 DEF QueueInv

-----------------------------------------------------------------------------
(* Advancing level and tag.                                                *)

LEMMA StopKeeps ==
    ASSUME GEDFInv, NEW w \in Workers, Stop(w)
    PROVE  QueueInv'
<1> USE DEF Enter, WorkingModes, LastModes, tagVars, workVars
<1>1. /\ mode[w] = "loop" /\ phase[w] = "last" /\ nextLevel = MaxLevel + 1
      /\ nextLevel' = 0 /\ shouldStop' = TRUE
      /\ phase' = [phase EXCEPT ![w] = "working"]
      /\ mode' = [mode EXCEPT ![w] = "get"]
      /\ UNCHANGED <<running, pending, status, tagVars, inserting, queue, executing>>
  BY DEF Stop, SignalStop
<1>2. \A v \in Workers : mode'[v] = "get" /\ phase'[v] \in {"working", "blocked"}
  BY <1>1, OthersSleep DEF GEDFInv, TypeOK, IdleInv, IdleTypeOK
<1>3. TypeOK'
  BY <1>1, LevelFacts DEF GEDFInv, TypeOK
<1>4. \A v \in Workers : ModeOfPhase(v)' /\ Holding(v)'
  BY <1>1, <1>2, OthersSleep DEF GEDFInv, ModeOfPhase, Holding
<1>5. (\A u, v \in Workers : Apart(u, v)') /\ QueuesHold'
  BY <1>1 DEF GEDFInv, Apart, QueuesHold
<1>6. LevelsHold'
  BY <1>1, <1>2, LevelFacts DEF LevelsHold
<1> QED
  BY <1>3, <1>4, <1>5, <1>6 DEF QueueInv

\* The last worker sees no reaction in any queue, and none in anybody's hands: all
\* are inactive.
LEMMA AllInactive ==
    ASSUME GEDFInv, NEW w \in Workers, mode[w] = "loop", nextLevel = MaxLevel + 1
    PROVE  /\ \A r \in Reactions : status[r] = "inactive"
           /\ \A v \in Workers : running[v] = None
           /\ \A l \in Levels : queue[l] = {}
<1>1. phase[w] = "last"
  BY PhaseOfMode DEF LastModes
<1>2. \A v \in Workers : running[v] = None /\ inserting[v] = None
  BY <1>1, OthersSleep
<1>3. \A l \in Levels : queue[l] = {}
  BY LevelFacts DEF GEDFInv, LevelsHold
<1>4. \A r \in Reactions : status[r] # "queued"
  BY <1>2, <1>3, LevelFacts DEF GEDFInv, QueuesHold
<1> QED
  BY <1>2, <1>3, <1>4 DEF GEDFInv, TypeOK

LEMMA AdvanceKeeps ==
    ASSUME GEDFInv, NEW w \in Workers, AdvanceTag(w)
    PROVE  QueueInv'
<1> USE DEF Enter, WorkingModes, LastModes, idleVars, workVars
<1>1. PICK triggered \in SUBSET Reactions :
         /\ Advance(triggered) /\ Queued(triggered)
         /\ queue' = [l \in Levels |-> queue[l] \cup {r \in Fresh(triggered) : Level[r] = l}]
  BY DEF AdvanceTag
<1>2. /\ mode[w] = "loop" /\ phase[w] = "last" /\ nextLevel = MaxLevel + 1
      /\ nextLevel' = 0 /\ mode' = [mode EXCEPT ![w] = "distribute"]
      /\ UNCHANGED <<idleVars, running, pending, inserting, executing>>
  BY PhaseOfMode DEF AdvanceTag
<1>3. /\ \A r \in Reactions : status[r] = "inactive"
      /\ \A v \in Workers : running[v] = None /\ inserting[v] = None /\ pending[v] = {}
      /\ \A l \in Levels : queue[l] = {}
  BY <1>2, AllInactive, OthersSleep
<1>4. /\ \A r \in Reactions : status'[r] = IF r \in triggered THEN "queued" ELSE "inactive"
      /\ status' \in [Reactions -> {"inactive", "queued"}]
  BY <1>1, <1>3 DEF Queued, Wins
<1>5. \A l \in Levels : queue'[l] = {r \in triggered : Level[r] = l}
  BY <1>1, <1>3 DEF Fresh, Wins
<1>6. tag' \in Nat /\ stopTag' \in Nat /\ completed' \in BOOLEAN
  BY <1>1 DEF Advance, GEDFInv, TypeOK
<1>7. queue' \in [Levels -> SUBSET Reactions]
  BY <1>1, <1>3 DEF Fresh
<1>8. TypeOK'
  BY <1>2, <1>4, <1>6, <1>7, LevelFacts DEF GEDFInv, TypeOK
<1>9. \A v \in Workers : ModeOfPhase(v)' /\ Holding(v)'
  BY <1>2, <1>3, OthersSleep DEF GEDFInv, TypeOK, ModeOfPhase, Holding
<1>10. \A u, v \in Workers : Apart(u, v)'
  BY <1>2, <1>3 DEF Apart
<1>11. QueuesHold'
  BY <1>2, <1>3, <1>4, <1>5, LevelFacts DEF QueuesHold
<1>12. LevelsHold'
  BY <1>2, OthersSleep, LevelFacts DEF GEDFInv, TypeOK, LevelsHold
<1> QED
  BY <1>8, <1>9, <1>10, <1>11, <1>12 DEF QueueInv

LEMMA DistributeKeeps ==
    ASSUME GEDFInv, NEW w \in Workers, Distribute(w)
    PROVE  QueueInv'
<1> USE DEF Enter, WorkingModes, LastModes, idleVars, workVars, tagVars
<1>1. /\ mode[w] = "distribute" /\ phase[w] = "last"
      /\ UNCHANGED <<idleVars, running, pending, inserting, status, tagVars, queue>>
  BY PhaseOfMode DEF Distribute
<1>2. /\ \A v \in Workers : running[v] = None /\ inserting[v] = None /\ pending[v] = {}
      /\ \A v \in Workers \ {w} : mode[v] = "get"
      /\ \A l \in Levels : l < nextLevel => queue[l] = {}
      /\ ~shouldStop
  BY <1>1, OthersSleep DEF GEDFInv, LevelsHold
<1>3. \/ \E l \in nextLevel .. MaxLevel :
            /\ \A k \in nextLevel .. MaxLevel : queue[k] # {} => l <= k
            /\ executing' = l /\ nextLevel' = l + 1 /\ mode' = [mode EXCEPT ![w] = "notify"]
      \/ /\ \A k \in nextLevel .. MaxLevel : queue[k] = {}
         /\ nextLevel' = MaxLevel + 1 /\ executing' = executing
         /\ mode' = [mode EXCEPT ![w] = "loop"]
  BY DEF Distribute
<1>4. TypeOK' /\ LevelsHold'
  <2>1. CASE \E l \in nextLevel .. MaxLevel :
            /\ \A k \in nextLevel .. MaxLevel : queue[k] # {} => l <= k
            /\ executing' = l /\ nextLevel' = l + 1 /\ mode' = [mode EXCEPT ![w] = "notify"]
    <3>1. PICK l \in nextLevel .. MaxLevel :
            /\ \A k \in nextLevel .. MaxLevel : queue[k] # {} => l <= k
            /\ executing' = l /\ nextLevel' = l + 1 /\ mode' = [mode EXCEPT ![w] = "notify"]
      BY <2>1
    <3>2. l \in Levels /\ nextLevel \in Nat
      BY LevelFacts DEF GEDFInv, TypeOK, Levels
    <3>3. TypeOK'
      BY <1>1, <3>1, <3>2, LevelFacts DEF GEDFInv, TypeOK, Levels
    <3>4. \A k \in Levels : queue[k] # {} => k >= l
      BY <1>2, <3>1, <3>2, LevelFacts DEF Levels
    <3>5. \A k \in Levels : queue[k] # {} => k >= l + 1 \/ k = l
      BY <3>2, <3>4, LevelFacts
    <3>6. \A v \in Workers : mode'[v] = IF v = w THEN "notify" ELSE "get"
      BY <1>2, <3>1 DEF GEDFInv, TypeOK
    <3> QED
      BY <1>1, <3>1, <3>3, <3>5, <3>6 DEF LevelsHold
  <2>2. CASE /\ \A k \in nextLevel .. MaxLevel : queue[k] = {}
             /\ nextLevel' = MaxLevel + 1 /\ executing' = executing
             /\ mode' = [mode EXCEPT ![w] = "loop"]
    <3>1. TypeOK'
      BY <1>1, <2>2, LevelFacts DEF GEDFInv, TypeOK
    <3>2. \A k \in Levels : queue[k] = {}
      BY <1>2, <2>2, LevelFacts DEF GEDFInv, TypeOK, Levels
    <3>3. \A v \in Workers : mode'[v] = IF v = w THEN "loop" ELSE "get"
      BY <1>2, <2>2 DEF GEDFInv, TypeOK
    <3> QED
      BY <1>1, <2>2, <3>1, <3>2, <3>3 DEF LevelsHold
  <2> QED
    BY <1>3, <2>1, <2>2
<1>5. mode' = [mode EXCEPT ![w] = "notify"] \/ mode' = [mode EXCEPT ![w] = "loop"]
  BY <1>3
<1>6. \A v \in Workers : ModeOfPhase(v)' /\ Holding(v)'
  BY <1>1, <1>2, <1>5, OthersSleep DEF GEDFInv, TypeOK, ModeOfPhase, Holding
<1>7. (\A u, v \in Workers : Apart(u, v)') /\ QueuesHold'
  BY <1>1 DEF GEDFInv, Apart, QueuesHold
<1> QED
  BY <1>4, <1>6, <1>7 DEF QueueInv

-----------------------------------------------------------------------------
(* The theorems.                                                           *)

LEMMA InitHolds == Init => GEDFInv
<1> SUFFICES ASSUME Init PROVE GEDFInv
  OBVIOUS
<1> USE DEF Init, ThreadsInit, WorkingModes, LastModes
<1>1. AtStart(stopTag) \subseteq Reactions
  BY TagWorkersAssumption DEF AtStart
<1>2. TypeOK
  <2>1. queue \in [Levels -> SUBSET Reactions]
    <3>1. queue = [l \in Levels |-> {r \in AtStart(stopTag) : Level[r] = l}]
      OBVIOUS
    <3>2. \A l \in Levels : {r \in AtStart(stopTag) : Level[r] = l} \in SUBSET Reactions
      BY <1>1
    <3> QED
      BY <3>1, <3>2
  <2>2. completed \in BOOLEAN
    OBVIOUS
  <2>3. executing \in Levels /\ nextLevel \in 0 .. MaxLevel + 1
    BY LevelFacts
  <2>4. tag \in Nat /\ stopTag \in Nat
    BY TagWorkersAssumption
  <2>5. status \in [Reactions -> {"inactive", "queued"}]
    OBVIOUS
  <2> QED
    BY <2>1, <2>2, <2>3, <2>4, <2>5 DEF TypeOK
<1>3. \A w \in Workers : ModeOfPhase(w) /\ Holding(w)
  BY DEF IdleInit, ModeOfPhase, Holding
<1>4. \A v, w \in Workers : Apart(v, w)
  BY DEF Apart
<1>5. QueuesHold
  BY <1>1, LevelFacts DEF QueuesHold
<1>6. LevelsHold
  BY LevelFacts DEF LevelsHold
<1>7. IdleInv
  BY InitIdleInv
<1> QED
  BY <1>2, <1>3, <1>4, <1>5, <1>6, <1>7 DEF GEDFInv

LEMMA StepKeeps == GEDFInv /\ [Next]_vars => GEDFInv'
<1> SUFFICES ASSUME GEDFInv, [Next]_vars PROVE GEDFInv'
  OBVIOUS
<1>1. IdleInv'
  BY StepIsHandshakeStep, StepKeepsIdleInv DEF GEDFInv
<1>2. QueueInv'
  <2>1. CASE UNCHANGED vars
    BY <2>1 DEF vars, idleVars, threadVars, workVars, tagVars, gedfVars, GEDFInv, QueueInv, TypeOK,
                ModeOfPhase, Holding, Apart, QueuesHold, LevelsHold
  <2>2. ASSUME NEW w \in Workers, Step(w) PROVE QueueInv'
    BY <2>2, QuietStepsKeep, PopKeeps, InvokeKeeps, LoseKeeps, TriggerKeeps, InsertKeeps,
       DoneKeeps, StopKeeps, AdvanceKeeps, DistributeKeeps DEF Step, Elsewhere
  <2> QED
    BY <2>1, <2>2 DEF Next
<1> QED
  BY <1>1, <1>2 DEF GEDFInv, QueueInv

\* The inductive invariant always holds: every queued reaction is in the queue of its
\* level or in the hands of one worker, and nothing is left below the next level but
\* at the level that is executed.
THEOREM GEDFInvariant == Spec => []GEDFInv
  BY InitHolds, StepKeeps, PTL DEF Spec

\* Types, for every program.
THEOREM GEDFTypeCorrect == Spec => []TypeOK
<1>1. GEDFInv => TypeOK
  BY DEF GEDFInv
<1> QED
  BY <1>1, GEDFInvariant, PTL

\* No reaction that was triggered is forgotten at a level the workers have left: it
\* is in somebody's hands, or in a queue they come to yet.
THEOREM GEDFNoneForgotten == Spec => []NoneForgotten
<1>1. GEDFInv => NoneForgotten
  <2> SUFFICES ASSUME GEDFInv, NEW r \in Reactions, status[r] = "queued", r \in queue[Level[r]]
               PROVE  Level[r] >= nextLevel \/ executing = Level[r]
    BY DEF GEDFInv, QueuesHold, NoneForgotten
  <2> QED
    BY LevelFacts DEF GEDFInv, LevelsHold
<1> QED
  BY <1>1, GEDFInvariant, PTL

-----------------------------------------------------------------------------
(* What the scheduler promises.                                            *)

\* Nothing is seen of a step that starts, ends and triggers no reaction.
LEMMA SameTags ==
    ASSUME UNCHANGED <<tag, running, status>>
    PROVE  UNCHANGED LevelTags!vars
BY DEF Active, Todo, LevelTags!vars

\* What else is to be executed has no lower level than a reaction that is popped.
LEMMA PopStarts ==
    ASSUME GEDFInv, NEW w \in Workers, Pop(w)
    PROVE  [\E r \in Reactions : LevelTags!Start(r)]_(LevelTags!vars)
<1>0. /\ mode[w] = "pop" /\ phase[w] = "working" /\ ~shouldStop /\ running[w] = None
      /\ nextLevel = executing + 1 /\ UNCHANGED <<status, tag>>
  BY PhaseOfMode, AtWork DEF Pop, GEDFInv, Holding, WorkingModes, tagVars
<1>1. CASE queue[executing] = {}
  BY <1>0, <1>1, SameTags DEF Pop
<1>2. CASE queue[executing] # {}
  <2>1. PICK r \in queue[executing] : running' = [running EXCEPT ![w] = r]
    BY <1>2 DEF Pop, Get
  <2>2. /\ r \in Reactions /\ status[r] = "queued" /\ Level[r] = executing /\ r # None
        /\ \A v \in Workers : running[v] # r
    BY LevelFacts DEF GEDFInv, TypeOK, QueuesHold
  <2>3. \A v \in Workers : running'[v] = IF v = w THEN r ELSE running[v]
    BY <2>1 DEF GEDFInv, TypeOK
  <2>4. Active' = Active \cup {r}
    BY <1>0, <2>2, <2>3 DEF Active
  <2>5. Todo' = Todo \ {r} /\ r \in Todo
    BY <1>0, <2>2, <2>4 DEF Todo, Active
  <2>6. \A q \in Reactions : status[q] = "queued" => Level[q] >= executing
    <3> SUFFICES ASSUME NEW q \in Reactions, status[q] = "queued" PROVE Level[q] >= executing
      OBVIOUS
    <3>1. CASE q \in queue[Level[q]]
      BY <1>0, <3>1, LevelFacts DEF GEDFInv, TypeOK, LevelsHold
    <3>2. CASE \E v \in Workers : running[v] = q \/ inserting[v] = q
      BY <3>2, LevelFacts DEF GEDFInv, TypeOK, Holding
    <3> QED
      BY <3>1, <3>2 DEF GEDFInv, QueuesHold
  <2>7. \A q \in Todo \cup Active : q \in Reactions /\ status[q] = "queued"
    BY DEF Todo, Active, GEDFInv, TypeOK, Holding
  <2>8. \A q \in Todo \cup Active : <<q, r>> \notin LowerLevel
    <3> SUFFICES ASSUME NEW q \in Todo \cup Active, Level[q] < Level[r] PROVE FALSE
      BY DEF LowerLevel
    <3> QED
      BY <2>2, <2>6, <2>7, LevelFacts
  <2> QED
    BY <1>0, <2>2, <2>4, <2>5, <2>8 DEF LevelTags!Start
<1> QED
  BY <1>1, <1>2

LEMMA TriggerTriggers ==
    ASSUME GEDFInv, NEW w \in Workers, TriggerReaction(w)
    PROVE  \E q, r \in Reactions : LevelTags!Trigger(q, r)
<1>1. PICK r \in pending[w] : Win(w, r)
  BY DEF TriggerReaction
<1>2. /\ status[r] = "inactive" /\ mode[w] = "trigger"
      /\ status' = [status EXCEPT ![r] = "queued"] /\ UNCHANGED <<running, tag>>
  BY <1>1 DEF TriggerReaction, Win, Wins, tagVars
<1>3. r \in Reactions /\ running[w] \in Reactions
  BY <1>2 DEF GEDFInv, TypeOK, Holding
<1>4. Active' = Active /\ running[w] \in Active /\ r \notin Active
  BY <1>3, <1>2, LevelFacts DEF Active, GEDFInv, Holding
<1>5. \A q \in Reactions : status'[q] = IF q = r THEN "queued" ELSE status[q]
  BY <1>2 DEF GEDFInv, TypeOK
<1>6. Todo' = Todo \cup {r}
  BY <1>3, <1>2, <1>4, <1>5 DEF Todo
<1> QED
  BY <1>3, <1>2, <1>4, <1>6 DEF LevelTags!Trigger

LEMMA DoneFinishes ==
    ASSUME GEDFInv, NEW w \in Workers, Done(w, "queued", "get")
    PROVE  \E r \in Reactions : LevelTags!Finish(r)
<1>1. PICK r : r = running[w]
  OBVIOUS
<1>2. /\ r \in Reactions /\ r # None /\ UNCHANGED tag
      /\ status' = [status EXCEPT ![r] = "inactive"]
      /\ running' = [running EXCEPT ![w] = None]
  BY <1>1, LevelFacts DEF Done, tagVars, GEDFInv, TypeOK, Holding
<1>3. \A v \in Workers : v # w => running[v] # r
  BY <1>1, <1>2 DEF GEDFInv, Apart
<1>4. \A v \in Workers : running'[v] = IF v = w THEN None ELSE running[v]
  BY <1>2 DEF GEDFInv, TypeOK
<1>5. Active' = Active \ {r} /\ r \in Active
  <2>1. \A q : q \in Active' <=> q \in Active \ {r}
    BY <1>1, <1>2, <1>3, <1>4 DEF Active
  <2> QED
    BY <2>1, <1>1, <1>2 DEF Active
<1>6. \A q \in Reactions : status'[q] = IF q = r THEN "inactive" ELSE status[q]
  BY <1>2 DEF GEDFInv, TypeOK
<1>7. Todo' = Todo
  BY <1>5, <1>6 DEF Todo
<1> QED
  BY <1>2, <1>5, <1>7 DEF LevelTags!Finish

LEMMA AdvanceAdvances ==
    ASSUME GEDFInv, NEW w \in Workers, AdvanceTag(w)
    PROVE  [LevelTags!Advance]_(LevelTags!vars)
<1>1. PICK triggered \in SUBSET Reactions : Advance(triggered) /\ Queued(triggered)
  BY DEF AdvanceTag
<1>2. /\ \A r \in Reactions : status[r] = "inactive"
      /\ \A v \in Workers : running[v] = None
      /\ UNCHANGED running
  BY AllInactive DEF AdvanceTag, workVars
<1>3. Active = {} /\ Active' = {} /\ Todo = {}
  BY <1>2 DEF Active, Todo
<1>4. \A r \in Reactions : status'[r] = IF r \in triggered THEN "queued" ELSE "inactive"
  BY <1>1, <1>2 DEF Queued, Wins
<1>5. Todo' = triggered
  BY <1>3, <1>4 DEF Todo
<1>6. \/ triggered = {} /\ UNCHANGED tag
      \/ tag' = tag + 1
  BY <1>1 DEF Advance
<1> QED
  BY <1>3, <1>5, <1>6 DEF LevelTags!Advance, LevelTags!vars

LEMMA HiddenSteps ==
    ASSUME NEW w \in Workers,
           \/ Exit(w) \/ ReadLevel(w) \/ InsertReaction(w) \/ Block(w) \/ BlockLast(w) \/ Stop(w)
           \/ StayAtTag(w) \/ Distribute(w) \/ NotifyWorkers(w) \/ Invoke(w) \/ Lose(w)
           \/ UNCHANGED threadVars
    PROVE  UNCHANGED LevelTags!vars
<1>1. UNCHANGED <<tag, running, status>>
  BY DEF Exit, ReadLevel, InsertReaction, Block, BlockLast, Stop, StayAtTag, Distribute,
         NotifyWorkers, Invoke, Lose, threadVars, workVars, tagVars
<1> QED
  BY <1>1, SameTags

\* For every program, GEDF_NP runs a reaction at the tag that triggers it, once and
\* after all of lower levels, and the tag advances when none is left.
THEOREM GEDFImplementsLevelTags == Spec => LevelTags!Spec
<1>1. Init => LevelTags!Init
  <2> SUFFICES ASSUME Init PROVE LevelTags!Init
    OBVIOUS
  <2>1. Active = {}
    BY DEF Init, ThreadsInit, Active
  <2>2. AtStart(stopTag) \subseteq Reactions
    BY TagWorkersAssumption DEF AtStart
  <2>3. Todo = AtStart(stopTag)
    BY <2>1, <2>2 DEF Init, ThreadsInit, Todo
  <2> QED
    BY <2>1, <2>3 DEF Init, ThreadsInit, LevelTags!Init
<1>2. GEDFInv /\ [Next]_vars => [LevelTags!Next]_(LevelTags!vars)
  <2> SUFFICES ASSUME GEDFInv, [Next]_vars PROVE [LevelTags!Next]_(LevelTags!vars)
    OBVIOUS
  <2>1. CASE UNCHANGED vars
    BY <2>1, SameTags DEF vars, threadVars, workVars, tagVars
  <2>2. ASSUME NEW w \in Workers, Step(w) PROVE [LevelTags!Next]_(LevelTags!vars)
    <3>1. CASE Pop(w)
      BY <3>1, PopStarts DEF LevelTags!Next
    <3>2. CASE TriggerReaction(w)
      BY <3>2, TriggerTriggers DEF LevelTags!Next
    <3>3. CASE Done(w, "queued", "get")
      BY <3>3, DoneFinishes DEF LevelTags!Next
    <3>4. CASE AdvanceTag(w)
      BY <3>4, AdvanceAdvances DEF LevelTags!Next
    <3> QED
      BY <2>2, <3>1, <3>2, <3>3, <3>4, HiddenSteps DEF Step, Elsewhere
  <2> QED
    BY <2>1, <2>2 DEF Next
<1> QED
  BY <1>1, <1>2, GEDFInvariant, PTL DEF Spec, LevelTags!Spec

\* What is downstream of a reaction is of a higher level.
LEMMA DownstreamIsHigher == Downstream \subseteq LowerLevel
<1> SUFFICES ASSUME NEW p \in Downstream PROVE p \in LowerLevel
  OBVIOUS
<1>1. p \in Reactions \X Reactions /\ p[1] \in Reactions /\ p[2] \in Reactions
  BY DEF Downstream
<1>2. PICK S : S = {r \in Reactions : Level[p[1]] < Level[r]}
  OBVIOUS
<1>3. ASSUME NEW e \in MayTrigger, e[1] \in S \cup {p[1]} PROVE e[2] \in S
  <2>1. /\ e[1] \in Reactions /\ e[2] \in Reactions
        /\ \E set \in Effects[e[1]] : e[2] \in set
    BY DEF MayTrigger
  <2>2. Level[e[1]] < Level[e[2]] /\ Level \in [Reactions -> Int]
    BY <2>1, TagWorkersAssumption
  <2> QED
    BY <1>1, <1>2, <1>3, <2>1, <2>2
<1>4. p[2] \in S
  BY <1>2, <1>3 DEF Downstream
<1> QED
  BY <1>1, <1>2, <1>4 DEF LowerLevel

\* So a reaction runs after those it is downstream of: the promise that all of the
\* schedulers make.
THEOREM GEDFImplementsTagExecution == Spec => ImplementsTagExecution
<1>1. LevelTags!Init => Tags!Init
  BY DEF LevelTags!Init, Tags!Init
<1>2. ASSUME NEW r, LevelTags!Start(r) PROVE Tags!Start(r)
  BY <1>2, DownstreamIsHigher DEF LevelTags!Start, Tags!Start
<1>3. [LevelTags!Next]_(LevelTags!vars) => [Tags!Next]_(Tags!vars)
  <2>1. LevelTags!vars = Tags!vars
    BY DEF LevelTags!vars, Tags!vars
  <2>2. ASSUME NEW r PROVE LevelTags!Finish(r) <=> Tags!Finish(r)
    BY DEF LevelTags!Finish, Tags!Finish
  <2>3. ASSUME NEW q, NEW r PROVE LevelTags!Trigger(q, r) <=> Tags!Trigger(q, r)
    BY DEF LevelTags!Trigger, Tags!Trigger
  <2>4. LevelTags!Advance <=> Tags!Advance
    BY DEF LevelTags!Advance, Tags!Advance
  <2>5. LevelTags!Next => Tags!Next
    BY <1>2, <2>2, <2>3, <2>4 DEF LevelTags!Next, Tags!Next
  <2>6. (LevelTags!vars)' = LevelTags!vars => (Tags!vars)' = Tags!vars
    BY DEF LevelTags!vars, Tags!vars
  <2> QED
    BY <2>5, <2>6
<1> QED
  BY <1>1, <1>3, GEDFImplementsLevelTags, PTL DEF LevelTags!Spec, Tags!Spec, ImplementsTagExecution
=============================================================================
