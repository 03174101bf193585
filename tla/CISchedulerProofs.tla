--------------------------- MODULE CISchedulerProofs ---------------------------
(***************************************************************************)
(* Theorems about the GEDF_NP_CI scheduler for every program and every     *)
(* number of workers: it implements the idle hand-shake; a reaction that   *)
(* was triggered is in exactly one place; and, if deadlines and chains     *)
(* are handed on upstream, it implements TagExecution, where a reaction    *)
(* waits for those it is downstream of.  CIInv is the inductive invariant, *)
(* ChainsHold what it takes for the order.                                 *)
(***************************************************************************)
EXTENDS CIScheduler, IdleWorkersProofs

\* The part of the invariant that the steps of the scheduler must keep by
\* themselves; IdleInv is kept because they are steps of the hand-shake.
QueueInv ==
    /\ TypeOK
    /\ \A w \in Workers : ModeOfPhase(w) /\ Holding(w)
    /\ \A v, w \in Workers : Apart(v, w)
    /\ QueuesHold

-----------------------------------------------------------------------------
(* The idle hand-shake.                                                    *)

LEMMA StepIsHandshakeStep == [Next]_vars => [IdleNext]_idleVars
<1> SUFFICES ASSUME [Next]_vars PROVE [IdleNext]_idleVars
  OBVIOUS
<1>1. CASE UNCHANGED vars
  BY <1>1 DEF vars
<1>2. ASSUME NEW w \in Workers, Step(w) PROVE [IdleNext]_idleVars
  <2>1. CASE \/ Exit(w) \/ Pop(w) \/ TriggerReaction(w) \/ UpdateTriggered(w)
             \/ AdvanceTag(w) \/ Distribute(w)
    BY <2>1 DEF Exit, Pop, TriggerReaction, UpdateTriggered, AdvanceTag, Distribute
  <2>2. CASE Block(w) \/ BlockLast(w) \/ Stop(w)
    BY <2>2 DEF Block, BlockLast, Stop, IdleNext
  <2>3. CASE NotifyWorkers(w)
    <3>1. PICK k : LowerIdle(w, k)
      BY <2>3 DEF NotifyWorkers
    <3> QED
      BY <3>1 DEF IdleNext, LowerIdle
  <2>4. CASE Elsewhere(w)
    BY <2>4 DEF Elsewhere, IdleNext
  <2> QED
    BY <1>2, <2>1, <2>2, <2>3, <2>4 DEF Step
<1> QED
  BY <1>1, <1>2 DEF Next

\* The GEDF_NP_CI scheduler implements the idle hand-shake.
THEOREM CIImplementsHandshake == Spec => IdleSpec
<1>1. Init => IdleInit
  BY DEF Init
<1> QED
  BY <1>1, StepIsHandshakeStep, PTL DEF Spec, IdleSpec

-----------------------------------------------------------------------------
(* Who is where.                                                           *)

\* While a worker is at work nobody distributes reactions.
LEMMA AtWork ==
    ASSUME CIInv, NEW w \in Workers, phase[w] = "working"
    PROVE  /\ \A v \in Workers : phase[v] \in {"working", "blocked"}
           /\ \A v \in Workers : mode[v] \notin LastModes
           /\ mode[w] \notin {"get", "exited"} => ~shouldStop
<1>1. \A v \in Workers : phase[v] \in {"working", "blocked"}
  BY WorkingMeansNobodyLast DEF CIInv
<1>2. \A v \in Workers : mode[v] \notin LastModes
  BY <1>1 DEF CIInv, ModeOfPhase, WorkingModes, LastModes
<1> QED
  BY <1>1, <1>2 DEF CIInv, ModeOfPhase

\* The mode says in which phase of the hand-shake a worker is.
LEMMA PhaseOfMode ==
    ASSUME CIInv, NEW w \in Workers
    PROVE  /\ mode[w] \in LastModes => phase[w] = "last"
           /\ mode[w] \in WorkingModes \ {"get"} => phase[w] = "working"
BY DEF CIInv, ModeOfPhase, IdleInv, IdleTypeOK, Phases, WorkingModes, LastModes

\* The others sleep, and nobody has anything in his hands, while the last one works.
LEMMA OthersSleep ==
    ASSUME CIInv, NEW w \in Workers, phase[w] = "last"
    PROVE  /\ \A v \in Workers \ {w} : phase[v] = "blocked" /\ mode[v] = "get"
           /\ \A v \in Workers : running[v] = None /\ output[v] = {} /\ pending[v] = {}
           /\ ~shouldStop
<1>1. \A v \in Workers \ {w} : phase[v] = "blocked" /\ mode[v] = "get"
  BY DEF CIInv, IdleInv, LastIsAlone, ModeOfPhase
<1>2. mode[w] \in LastModes
  BY DEF CIInv, ModeOfPhase
<1>3. \A v \in Workers : running[v] = None /\ output[v] = {} /\ pending[v] = {}
  BY <1>1, <1>2 DEF CIInv, Holding, LastModes
<1> QED
  BY <1>1, <1>3 DEF CIInv, IdleInv, LastState

LEMMA NoneIsNoReaction == None \notin Reactions
BY TagWorkersAssumption

-----------------------------------------------------------------------------
(* The steps that touch no queue.                                          *)

\* What a step keeps that changes neither the queues nor what the workers hold.
LEMMA QuietStep ==
    ASSUME CIInv,
           UNCHANGED <<running, pending, output, status, tagVars, triggered, ready>>,
           mode' \in [Workers -> WorkingModes \cup LastModes],
           \A v \in Workers : ModeOfPhase(v)',
           \A v \in Workers : mode'[v] # mode[v] =>
               mode[v] \notin {"invoke", "trigger"} /\ mode'[v] \notin {"invoke", "trigger"},
           \A v \in Workers : mode'[v] \in {"wait", "idle", "loop"} => ready = {},
           \A v \in Workers : output[v] # {} => phase'[v] = "working" /\ mode'[v] # "idle"
    PROVE  QueueInv'
<1>1. TypeOK'
  BY DEF CIInv, TypeOK, tagVars
<1>2. \A v \in Workers : Holding(v)'
  BY DEF CIInv, Holding
<1>3. \A u, v \in Workers : Apart(u, v)'
  BY DEF CIInv, Apart
<1>4. QueuesHold'
  BY DEF CIInv, QueuesHold
<1> QED
  BY <1>1, <1>2, <1>3, <1>4 DEF QueueInv

LEMMA QuietStepsKeep ==
    ASSUME CIInv, NEW w \in Workers,
           \/ (ReleasePermits(w) \/ TakePermit(w)) /\ UNCHANGED <<threadVars, ciVars>>
           \/ Exit(w) \/ Block(w) \/ BlockLast(w) \/ Stop(w) \/ NotifyWorkers(w)
    PROVE  QueueInv'
<1> USE DEF threadVars, workVars, tagVars, ciVars, idleVars, Enter, WorkingModes, LastModes
<1>0. /\ mode \in [Workers -> WorkingModes \cup LastModes]
      /\ phase \in [Workers -> Phases]
      /\ \A v \in Workers : /\ ModeOfPhase(v)
                            /\ output[v] # {} => phase[v] = "working" /\ mode[v] # "idle"
                            /\ mode[v] \in {"wait", "idle", "loop"} => ready = {}
  BY DEF CIInv, TypeOK, IdleInv, IdleTypeOK, Holding
<1>1. CASE (ReleasePermits(w) \/ TakePermit(w)) /\ UNCHANGED <<threadVars, ciVars>>
  <2>1. /\ phase[w] \in {"release", "blocked"} /\ UNCHANGED <<threadVars, ciVars, shouldStop>>
        /\ phase' = [phase EXCEPT ![w] = "working"]
    BY <1>1 DEF ReleasePermits, TakePermit
  <2>2. \A v \in Workers : ModeOfPhase(v)'
    BY <2>1, <1>0 DEF ModeOfPhase
  <2> QED
    BY <1>0, <2>1, <2>2, QuietStep
<1>2. CASE Exit(w)
  <2>1. \A v \in Workers : ModeOfPhase(v)'
    BY <1>2, <1>0 DEF Exit, ModeOfPhase
  <2> QED
    BY <1>2, <1>0, <2>1, QuietStep DEF Exit
<1>3. CASE Block(w)
  <2>1. \A v \in Workers : ModeOfPhase(v)'
    BY <1>3, <1>0 DEF Block, GoIdle, ModeOfPhase
  <2> QED
    BY <1>3, <1>0, <2>1, QuietStep DEF Block, GoIdle
<1>4. CASE BlockLast(w)
  <2>1. \A v \in Workers : ModeOfPhase(v)'
    BY <1>4, <1>0 DEF BlockLast, GoIdleLast, ModeOfPhase
  <2> QED
    BY <1>4, <1>0, <2>1, QuietStep DEF BlockLast, GoIdleLast
<1>5. CASE Stop(w)
  <2>1. /\ mode[w] = "loop" /\ phase[w] = "last" /\ shouldStop' = TRUE
        /\ phase' = [phase EXCEPT ![w] = "working"] /\ mode' = [mode EXCEPT ![w] = "get"]
        /\ UNCHANGED <<workVars, status, tagVars, ciVars>>
    BY <1>5 DEF Stop, SignalStop
  <2>2. \A v \in Workers : mode'[v] = "get" /\ phase'[v] \in {"working", "blocked"} /\ output[v] = {}
    BY <1>0, <2>1, OthersSleep
  <2>3. \A v \in Workers : ModeOfPhase(v)'
    BY <2>2 DEF ModeOfPhase
  <2> QED
    BY <1>0, <2>1, <2>2, <2>3, QuietStep
<1>6. CASE NotifyWorkers(w)
  <2>1. PICK k : LowerIdle(w, k)
    BY <1>6 DEF NotifyWorkers
  <2>2. /\ mode[w] = "notify" /\ mode' = [mode EXCEPT ![w] = "get"]
        /\ UNCHANGED <<workVars, status, tagVars, ciVars>>
    BY <1>6 DEF NotifyWorkers
  <2>3. /\ phase[w] = "last" /\ phase' = [phase EXCEPT ![w] = "release"] /\ shouldStop' = shouldStop
    BY <2>1 DEF LowerIdle
  <2>4. \A v \in Workers : ModeOfPhase(v)'
    BY <1>0, <2>2, <2>3 DEF ModeOfPhase
  <2> QED
    BY <1>0, <2>2, <2>3, <2>4, QuietStep
<1> QED
  BY <1>1, <1>2, <1>3, <1>4, <1>5, <1>6

-----------------------------------------------------------------------------
(* Running and triggering.                                                 *)

LEMMA PopKeeps ==
    ASSUME CIInv, NEW w \in Workers, Pop(w)
    PROVE  QueueInv'
<1> USE DEF Enter, WorkingModes, LastModes, tagVars, idleVars
<1>0. /\ mode[w] = "get" /\ phase[w] = "working" /\ ~shouldStop
      /\ running[w] = None /\ pending[w] = {}
      /\ UNCHANGED <<idleVars, pending, status, tagVars, triggered, output>>
  BY DEF Pop, CIInv, Holding
<1>1. CASE ready = {}
  <2>1. mode' = [mode EXCEPT ![w] = "wait"] /\ UNCHANGED <<running, ready>>
    BY <1>0, <1>1 DEF Pop
  <2>2. \A v \in Workers : ModeOfPhase(v)'
    BY <1>0, <2>1 DEF CIInv, TypeOK, ModeOfPhase
  <2> QED
    BY <1>0, <1>1, <2>1, <2>2, QuietStep DEF CIInv, TypeOK, Holding
<1>2. CASE ready # {}
  <2>1. PICK r \in ready :
           /\ ready' = ready \ {r}
           /\ running' = [running EXCEPT ![w] = r]
           /\ mode' = [mode EXCEPT ![w] = "invoke"]
    BY <1>2 DEF Pop, Get
  <2>2. /\ r \in Reactions /\ status[r] = "running" /\ r # None
        /\ \A v \in Workers : running[v] # r /\ mode[v] \notin {"wait", "idle", "loop"}
    BY NoneIsNoReaction DEF CIInv, TypeOK, QueuesHold, Holding
  <2>3. \A v \in Workers : running'[v] = IF v = w THEN r ELSE running[v]
    BY <2>1 DEF CIInv, TypeOK
  <2>4. TypeOK'
    BY <1>0, <2>1, <2>2 DEF CIInv, TypeOK
  <2>5. \A v \in Workers : ModeOfPhase(v)' /\ Holding(v)'
    <3> SUFFICES ASSUME NEW v \in Workers PROVE ModeOfPhase(v)' /\ Holding(v)'
      OBVIOUS
    <3>1. CASE v = w
      BY <3>1, <1>0, <2>1, <2>2 DEF CIInv, TypeOK, ModeOfPhase, Holding
    <3>2. CASE v # w
      BY <3>2, <1>0, <2>1, <2>2 DEF CIInv, TypeOK, ModeOfPhase, Holding
    <3> QED
      BY <3>1, <3>2
  <2>6. \A u, v \in Workers : Apart(u, v)'
    BY <1>0, <2>2, <2>3 DEF CIInv, Apart
  <2>7. QueuesHold'
    <3>1. ASSUME NEW q \in Reactions, status[q] = "running"
          PROVE  q \in ready' \/ \E v \in Workers : running'[v] = q
      <4>1. CASE q = r
        BY <4>1, <2>3
      <4>2. CASE q # r
        BY <3>1, <4>2, <1>0, <2>1, <2>3, NoneIsNoReaction DEF CIInv, QueuesHold
      <4> QED
        BY <4>1, <4>2
    <3> QED
      BY <3>1, <1>0, <2>1 DEF CIInv, QueuesHold
  <2> QED
    BY <2>4, <2>5, <2>6, <2>7 DEF QueueInv
<1> QED
  BY <1>1, <1>2

LEMMA InvokeKeeps ==
    ASSUME CIInv, NEW w \in Workers, Invoke(w), UNCHANGED <<idleVars, ciVars>>
    PROVE  QueueInv'
<1> USE DEF Enter, WorkingModes, LastModes, tagVars, idleVars, ciVars
<1>0. /\ mode[w] = "invoke" /\ phase[w] = "working" /\ running[w] \in Reactions
      /\ UNCHANGED <<idleVars, running, status, tagVars, ciVars>>
      /\ mode' = [mode EXCEPT ![w] = "trigger"]
  BY PhaseOfMode DEF Invoke, CIInv, TypeOK, Holding
<1>1. PICK set \in Effects[running[w]] : pending' = [pending EXCEPT ![w] = set]
  BY DEF Invoke
<1>2. set \in SUBSET Reactions
  BY <1>0, <1>1, TagWorkersAssumption
<1>3. TypeOK'
  BY <1>0, <1>1, <1>2 DEF CIInv, TypeOK
<1>4. \A v \in Workers : ModeOfPhase(v)' /\ Holding(v)'
  <2> SUFFICES ASSUME NEW v \in Workers PROVE ModeOfPhase(v)' /\ Holding(v)'
    OBVIOUS
  <2>1. CASE v = w
    BY <2>1, <1>0, <1>1, <1>2 DEF CIInv, TypeOK, ModeOfPhase, Holding
  <2>2. CASE v # w
    BY <2>2, <1>0, <1>1 DEF CIInv, TypeOK, ModeOfPhase, Holding
  <2> QED
    BY <2>1, <2>2
<1>5. (\A u, v \in Workers : Apart(u, v)') /\ QueuesHold'
  BY <1>0 DEF CIInv, Apart, QueuesHold
<1> QED
  BY <1>3, <1>4, <1>5 DEF QueueInv

LEMMA LoseKeeps ==
    ASSUME CIInv, NEW w \in Workers, Lose(w), UNCHANGED <<idleVars, ciVars>>
    PROVE  QueueInv'
<1> USE DEF tagVars, idleVars, ciVars
<1>0. UNCHANGED <<mode, phase, shouldStop, running, status, tagVars, ciVars>>
  BY DEF Lose
<1>1. PICK r \in pending[w] : pending' = [pending EXCEPT ![w] = @ \ {r}]
  BY DEF Lose
<1>2. \A v \in Workers : pending'[v] \subseteq pending[v]
  BY <1>1 DEF CIInv, TypeOK
<1>3. TypeOK'
  BY <1>0, <1>1 DEF CIInv, TypeOK
<1>4. \A v \in Workers : ModeOfPhase(v)' /\ Holding(v)'
  BY <1>0, <1>2 DEF CIInv, ModeOfPhase, Holding
<1>5. (\A u, v \in Workers : Apart(u, v)') /\ QueuesHold'
  BY <1>0 DEF CIInv, Apart, QueuesHold
<1> QED
  BY <1>3, <1>4, <1>5 DEF QueueInv

LEMMA TriggerKeeps ==
    ASSUME CIInv, NEW w \in Workers, TriggerReaction(w)
    PROVE  QueueInv'
<1> USE DEF WorkingModes, LastModes, tagVars, idleVars
<1>1. PICK r \in pending[w] :
         /\ Win(w, r)
         /\ output' = [output EXCEPT ![w] = @ \cup {r}]
  BY DEF TriggerReaction
<1>2. /\ mode[w] = "trigger" /\ phase[w] = "working" /\ status[r] = "inactive"
      /\ r \in Reactions
      /\ pending' = [pending EXCEPT ![w] = @ \ {r}]
      /\ status' = [status EXCEPT ![r] = "queued"]
      /\ UNCHANGED <<idleVars, mode, running, tagVars, triggered, ready>>
  BY <1>1, PhaseOfMode DEF TriggerReaction, Win, Wins, CIInv, TypeOK
<1>3. /\ r \notin triggered /\ r \notin ready
      /\ \A v \in Workers : r \notin output[v] /\ (running[v] = r => running[v] = None)
  BY <1>2 DEF CIInv, QueuesHold, Holding
<1>4. /\ \A q \in Reactions : status'[q] = IF q = r THEN "queued" ELSE status[q]
      /\ \A v \in Workers : /\ output'[v] = IF v = w THEN output[v] \cup {r} ELSE output[v]
                            /\ pending'[v] \subseteq pending[v]
  BY <1>1, <1>2 DEF CIInv, TypeOK
<1>5. TypeOK'
  BY <1>1, <1>2 DEF CIInv, TypeOK
<1>6. \A v \in Workers : ModeOfPhase(v)' /\ Holding(v)'
  <2> SUFFICES ASSUME NEW v \in Workers PROVE ModeOfPhase(v)' /\ Holding(v)'
    OBVIOUS
  <2>1. ModeOfPhase(v)'
    BY <1>2 DEF CIInv, ModeOfPhase
  <2>2. running[v] # None => status'[running[v]] = "running" /\ running[v] \notin ready
    BY <1>3, <1>4 DEF CIInv, TypeOK, Holding
  <2>3. \A q \in output[v] : q \in Reactions /\ status[q] = "queued" /\ q \notin triggered
    BY DEF CIInv, TypeOK, Holding
  <2>4. \A q \in output'[v] : status'[q] = "queued" /\ q \notin triggered
    <3> SUFFICES ASSUME NEW q \in output'[v] PROVE status'[q] = "queued" /\ q \notin triggered
      OBVIOUS
    <3>1. q \in output[v] \/ q = r
      BY <1>4
    <3> QED
      BY <1>2, <1>3, <1>4, <2>3, <3>1
  <2>5. output'[v] # {} => phase[v] = "working" /\ mode[v] # "idle"
    BY <1>2, <1>4 DEF CIInv, Holding
  <2>6. pending'[v] # {} => mode[v] = "trigger"
    BY <1>4 DEF CIInv, Holding
  <2> QED
    BY <2>1, <2>2, <2>4, <2>5, <2>6, <1>2 DEF CIInv, Holding
<1>7. \A u, v \in Workers : Apart(u, v)'
  <2> SUFFICES ASSUME NEW u \in Workers, NEW v \in Workers, u # v PROVE Apart(u, v)'
    BY DEF Apart
  <2>1. ASSUME NEW q \in output'[u], q \in output'[v] PROVE FALSE
    <3>1. q # r
      BY <2>1, <1>3, <1>4
    <3>2. q \in output[u] /\ q \in output[v]
      BY <2>1, <3>1, <1>4
    <3> QED
      BY <3>2 DEF CIInv, Apart
  <2> QED
    BY <2>1, <1>2 DEF CIInv, Apart
<1>8. QueuesHold'
  <2>1. (\A q \in triggered' : status'[q] = "queued") /\ (\A q \in ready' : status'[q] = "running")
    BY <1>2, <1>3, <1>4 DEF CIInv, TypeOK, QueuesHold
  <2>2. ASSUME NEW q \in Reactions
        PROVE  /\ status'[q] = "queued" => q \in triggered' \/ \E v \in Workers : q \in output'[v]
               /\ status'[q] = "running" => q \in ready' \/ \E v \in Workers : running'[v] = q
    <3>1. CASE q = r
      BY <3>1, <1>4
    <3>2. CASE q # r
      BY <3>2, <1>2, <1>4 DEF CIInv, QueuesHold
    <3> QED
      BY <3>1, <3>2
  <2> QED
    BY <2>1, <2>2 DEF QueuesHold
<1> QED
  BY <1>5, <1>6, <1>7, <1>8 DEF QueueInv

LEMMA UpdateKeeps ==
    ASSUME CIInv, NEW w \in Workers, UpdateTriggered(w)
    PROVE  QueueInv'
<1> USE DEF Enter, WorkingModes, LastModes, tagVars, idleVars, workVars
<1>1. /\ mode[w] = "wait" /\ phase[w] = "working" /\ ready = {}
      /\ triggered' = triggered \cup output[w]
      /\ output' = [output EXCEPT ![w] = {}]
      /\ mode' = [mode EXCEPT ![w] = "idle"]
      /\ UNCHANGED <<idleVars, running, pending, status, tagVars, ready>>
  BY PhaseOfMode DEF UpdateTriggered, CIInv, Holding
<1>2. \A v \in Workers : output'[v] = IF v = w THEN {} ELSE output[v]
  BY <1>1 DEF CIInv, TypeOK
<1>3. TypeOK'
  BY <1>1 DEF CIInv, TypeOK
<1>4. \A v \in Workers : ModeOfPhase(v)' /\ Holding(v)'
  <2> SUFFICES ASSUME NEW v \in Workers PROVE ModeOfPhase(v)' /\ Holding(v)'
    OBVIOUS
  <2>1. CASE v = w
    BY <2>1, <1>1, <1>2 DEF CIInv, TypeOK, ModeOfPhase, Holding
  <2>2. CASE v # w
    <3>1. \A r \in output[v] : r \notin output[w]
      BY <2>2 DEF CIInv, Apart
    <3> QED
      BY <2>2, <3>1, <1>1, <1>2 DEF CIInv, TypeOK, ModeOfPhase, Holding
  <2> QED
    BY <2>1, <2>2
<1>5. \A u, v \in Workers : Apart(u, v)'
  BY <1>1, <1>2 DEF CIInv, Apart
<1>6. QueuesHold'
  <2>1. \A r \in triggered' : status'[r] = "queued"
    BY <1>1 DEF CIInv, QueuesHold, Holding
  <2>2. \A r \in Reactions : status[r] = "queued" =>
           r \in triggered' \/ \E v \in Workers : r \in output'[v]
    BY <1>1, <1>2 DEF CIInv, QueuesHold
  <2> QED
    BY <2>1, <2>2, <1>1 DEF CIInv, QueuesHold
<1> QED
  BY <1>3, <1>4, <1>5, <1>6 DEF QueueInv

LEMMA DoneKeeps ==
    ASSUME CIInv, NEW w \in Workers, Done(w, "running", "get"), UNCHANGED <<idleVars, ciVars>>
    PROVE  QueueInv'
<1> USE DEF Enter, WorkingModes, LastModes, tagVars, idleVars, ciVars
<1>1. PICK r : r = running[w]
  OBVIOUS
<1>2. /\ mode[w] = "trigger" /\ phase[w] = "working" /\ pending[w] = {}
      /\ r \in Reactions /\ r # None /\ status[r] = "running" /\ r \notin ready
      /\ status' = [status EXCEPT ![r] = "inactive"]
      /\ running' = [running EXCEPT ![w] = None]
      /\ mode' = [mode EXCEPT ![w] = "get"]
      /\ UNCHANGED <<idleVars, pending, tagVars, ciVars>>
  BY <1>1, PhaseOfMode, NoneIsNoReaction DEF Done, CIInv, TypeOK, Holding
<1>3. /\ \A v \in Workers : r \notin output[v] /\ (v # w => running[v] # r)
      /\ r \notin triggered
  BY <1>1, <1>2 DEF CIInv, Apart, QueuesHold, Holding
<1>4. /\ \A v \in Workers : running'[v] = IF v = w THEN None ELSE running[v]
      /\ \A q \in Reactions : status'[q] = IF q = r THEN "inactive" ELSE status[q]
  BY <1>2 DEF CIInv, TypeOK
<1>5. TypeOK'
  BY <1>2 DEF CIInv, TypeOK
<1>6. \A v \in Workers : ModeOfPhase(v)' /\ Holding(v)'
  <2> SUFFICES ASSUME NEW v \in Workers PROVE ModeOfPhase(v)' /\ Holding(v)'
    OBVIOUS
  <2>1. CASE v = w
    BY <2>1, <1>2, <1>3, <1>4 DEF CIInv, TypeOK, ModeOfPhase, Holding
  <2>2. CASE v # w
    BY <2>2, <1>2, <1>3, <1>4 DEF CIInv, TypeOK, ModeOfPhase, Holding
  <2> QED
    BY <2>1, <2>2
<1>7. \A u, v \in Workers : Apart(u, v)'
  BY <1>2, <1>4 DEF CIInv, Apart
<1>8. QueuesHold'
  <2>1. (\A q \in triggered' : status'[q] = "queued") /\ (\A q \in ready' : status'[q] = "running")
    BY <1>2, <1>3, <1>4 DEF CIInv, TypeOK, QueuesHold
  <2>2. ASSUME NEW q \in Reactions, q # r
        PROVE  /\ status'[q] = "queued" => q \in triggered' \/ \E v \in Workers : q \in output'[v]
               /\ status'[q] = "running" => q \in ready' \/ \E v \in Workers : running'[v] = q
    BY <2>2, <1>1, <1>2, <1>4 DEF CIInv, QueuesHold
  <2>3. status'[r] = "inactive"
    BY <1>2, <1>4
  <2> QED
    BY <2>1, <2>2, <2>3 DEF QueuesHold
<1> QED
  BY <1>5, <1>6, <1>7, <1>8 DEF QueueInv

-----------------------------------------------------------------------------
(* Distributing reactions and advancing the tag.                           *)

\* The assertion of the code: nothing is ready when the last worker distributes
\* reactions.  Those that are to be executed are in the triggered queue, all of them.
LEMMA LastSeesAll ==
    ASSUME CIInv, NEW w \in Workers, mode[w] = "loop"
    PROVE  /\ phase[w] = "last" /\ ready = {}
           /\ \A v \in Workers : running[v] = None /\ output[v] = {} /\ pending[v] = {}
           /\ \A r \in Reactions : status[r] = IF r \in triggered THEN "queued" ELSE "inactive"
<1>1. phase[w] = "last" /\ ready = {}
  BY PhaseOfMode DEF LastModes, CIInv, Holding
<1>2. \A v \in Workers : running[v] = None /\ output[v] = {} /\ pending[v] = {}
  BY <1>1, OthersSleep
<1>3. \A r \in Reactions : status[r] = IF r \in triggered THEN "queued" ELSE "inactive"
  BY <1>1, <1>2, NoneIsNoReaction DEF CIInv, TypeOK, QueuesHold
<1> QED
  BY <1>1, <1>2, <1>3

LEMMA AdvanceKeeps ==
    ASSUME CIInv, NEW w \in Workers, AdvanceTag(w)
    PROVE  QueueInv'
<1> USE DEF WorkingModes, LastModes, idleVars, workVars
<1>1. PICK popped \in SUBSET Reactions :
         Advance(popped) /\ Queued(popped) /\ triggered' = Fresh(popped)
  BY DEF AdvanceTag
<1>2. /\ mode[w] = "loop" /\ triggered = {}
      /\ UNCHANGED <<idleVars, mode, running, pending, output, ready>>
  BY DEF AdvanceTag
<1>3. /\ ready = {} /\ \A r \in Reactions : status[r] = "inactive"
      /\ \A v \in Workers : running[v] = None /\ output[v] = {} /\ pending[v] = {}
  BY <1>2, LastSeesAll
<1>4. /\ \A r \in Reactions : status'[r] = IF r \in popped THEN "queued" ELSE "inactive"
      /\ status' \in [Reactions -> {"inactive", "queued", "running"}]
      /\ triggered' = popped
  BY <1>1, <1>3 DEF Queued, Fresh, Wins
<1>5. tag' \in Nat /\ stopTag' \in Nat /\ completed' \in BOOLEAN
  BY <1>1 DEF Advance, CIInv, TypeOK
<1>6. TypeOK'
  BY <1>2, <1>4, <1>5 DEF CIInv, TypeOK
<1>7. \A v \in Workers : ModeOfPhase(v)' /\ Holding(v)'
  BY <1>2, <1>3 DEF CIInv, ModeOfPhase, Holding
<1>8. (\A u, v \in Workers : Apart(u, v)') /\ QueuesHold'
  BY <1>2, <1>3, <1>4 DEF Apart, QueuesHold
<1> QED
  BY <1>6, <1>7, <1>8 DEF QueueInv

LEMMA DistributeKeeps ==
    ASSUME CIInv, NEW w \in Workers, Distribute(w)
    PROVE  QueueInv'
<1> USE DEF Enter, WorkingModes, LastModes, idleVars, workVars, tagVars
<1>1. PICK distributed : distributed = {r \in triggered : ~IsBlocked(r)}
  OBVIOUS
<1>2. /\ mode[w] = "loop" /\ mode' = [mode EXCEPT ![w] = "notify"]
      /\ ready' = ready \cup distributed /\ triggered' = triggered \ distributed
      /\ status' = [r \in Reactions |-> IF r \in distributed THEN "running" ELSE status[r]]
      /\ UNCHANGED <<idleVars, running, pending, tagVars, output>>
  BY <1>1 DEF Distribute
<1>3. /\ phase[w] = "last" /\ ready' = distributed
      /\ \A v \in Workers : running[v] = None /\ output[v] = {} /\ pending[v] = {}
      /\ \A r \in Reactions : status[r] = IF r \in triggered THEN "queued" ELSE "inactive"
  BY <1>2, LastSeesAll
<1>4. distributed \subseteq triggered /\ triggered \subseteq Reactions
  BY <1>1 DEF CIInv, TypeOK
<1>5. \A r \in Reactions : status'[r] =
         IF r \in distributed THEN "running" ELSE IF r \in triggered' THEN "queued" ELSE "inactive"
  BY <1>2, <1>3
<1>6. TypeOK'
  BY <1>2, <1>3, <1>4 DEF CIInv, TypeOK
<1>7. \A v \in Workers : ModeOfPhase(v)' /\ Holding(v)'
  BY <1>2, <1>3, OthersSleep DEF CIInv, TypeOK, ModeOfPhase, Holding
<1>8. \A u, v \in Workers : Apart(u, v)'
  BY <1>2, <1>3 DEF Apart
<1>9. QueuesHold'
  BY <1>2, <1>3, <1>4, <1>5 DEF QueuesHold
<1> QED
  BY <1>6, <1>7, <1>8, <1>9 DEF QueueInv

-----------------------------------------------------------------------------
(* The theorems.                                                           *)

LEMMA InitHolds == Init => CIInv
<1> SUFFICES ASSUME Init PROVE CIInv
  OBVIOUS
<1> USE DEF Init, ThreadsInit, WorkingModes, LastModes
<1>1. AtStart(stopTag) \subseteq Reactions
  BY TagWorkersAssumption DEF AtStart
<1>2. TypeOK
  <2>1. triggered \in SUBSET Reactions /\ ready \in SUBSET Reactions
    BY <1>1
  <2>2. completed \in BOOLEAN
    OBVIOUS
  <2>3. tag \in Nat /\ stopTag \in Nat
    BY TagWorkersAssumption
  <2>4. status \in [Reactions -> {"inactive", "queued", "running"}]
    OBVIOUS
  <2> QED
    BY <2>1, <2>2, <2>3, <2>4 DEF TypeOK
<1>3. \A w \in Workers : ModeOfPhase(w) /\ Holding(w)
  BY DEF IdleInit, ModeOfPhase, Holding
<1>4. \A v, w \in Workers : Apart(v, w)
  BY DEF Apart
<1>5. QueuesHold
  BY <1>1 DEF QueuesHold
<1>6. IdleInv
  BY InitIdleInv
<1> QED
  BY <1>2, <1>3, <1>4, <1>5, <1>6 DEF CIInv

LEMMA StepKeeps == CIInv /\ [Next]_vars => CIInv'
<1> SUFFICES ASSUME CIInv, [Next]_vars PROVE CIInv'
  OBVIOUS
<1>1. IdleInv'
  BY StepIsHandshakeStep, StepKeepsIdleInv DEF CIInv
<1>2. QueueInv'
  <2>1. CASE UNCHANGED vars
    BY <2>1 DEF vars, idleVars, threadVars, workVars, tagVars, ciVars, CIInv, QueueInv, TypeOK,
                ModeOfPhase, Holding, Apart, QueuesHold
  <2>2. ASSUME NEW w \in Workers, Step(w) PROVE QueueInv'
    BY <2>2, QuietStepsKeep, PopKeeps, InvokeKeeps, LoseKeeps, TriggerKeeps, UpdateKeeps,
       DoneKeeps, AdvanceKeeps, DistributeKeeps DEF Step, Elsewhere
  <2> QED
    BY <2>1, <2>2 DEF Next
<1> QED
  BY <1>1, <1>2 DEF CIInv, QueueInv

\* The inductive invariant always holds: every reaction that was triggered is in the
\* queue or the hands its status says, and nothing is ready when the last worker
\* distributes reactions, as the code asserts.
THEOREM CIInvariant == Spec => []CIInv
  BY InitHolds, StepKeeps, PTL DEF Spec

\* Types, for every program.
THEOREM CITypeCorrect == Spec => []TypeOK
<1>1. CIInv => TypeOK
  BY DEF CIInv
<1> QED
  BY <1>1, CIInvariant, PTL

\* Workers that have a reaction, if no two of them have the same one.
LEMMA CountHolders ==
    ASSUME NEW S \in SUBSET Workers, \A v, w \in S : v = w
    PROVE  Cardinality(S) = IF S = {} THEN 0 ELSE 1
<1>1. CASE S = {}
  BY <1>1, FS_EmptySet
<1>2. CASE S # {}
  <2>1. PICK w \in S : S = {w}
    BY <1>2
  <2> QED
    BY <1>2, <2>1, FS_Singleton
<1> QED
  BY <1>1, <1>2

\* A reaction that was triggered is in exactly one place, any other in none: none is
\* executed twice and none is lost.
THEOREM CIOneQueue == Spec => []OneQueue
<1>1. CIInv => OneQueue
  <2> SUFFICES ASSUME CIInv, NEW r \in Reactions
               PROVE  Cardinality({w \in Workers : r \in output[w]})
                        + Cardinality({w \in Workers : running[w] = r})
                        + (IF r \in triggered THEN 1 ELSE 0) + (IF r \in ready THEN 1 ELSE 0)
                      = IF status[r] = "inactive" THEN 0 ELSE 1
    BY DEF OneQueue
  <2>1. PICK putters : putters = {w \in Workers : r \in output[w]}
    OBVIOUS
  <2>2. PICK runners : runners = {w \in Workers : running[w] = r}
    OBVIOUS
  <2>3. Cardinality(putters) = IF putters = {} THEN 0 ELSE 1
    <3>1. putters \in SUBSET Workers /\ \A v, w \in putters : v = w
      BY <2>1 DEF CIInv, Apart
    <3> QED
      BY <3>1, CountHolders
  <2>4. Cardinality(runners) = IF runners = {} THEN 0 ELSE 1
    <3>1. runners \in SUBSET Workers /\ \A v, w \in runners : v = w
      BY <2>2, NoneIsNoReaction DEF CIInv, Apart
    <3> QED
      BY <3>1, CountHolders
  <2>5. putters # {} => status[r] = "queued" /\ r \notin triggered
    BY <2>1 DEF CIInv, Holding
  <2>6. runners # {} => status[r] = "running" /\ r \notin ready
    BY <2>2, NoneIsNoReaction DEF CIInv, Holding
  <2>7. /\ r \in triggered => status[r] = "queued"
        /\ r \in ready => status[r] = "running"
        /\ status[r] = "queued" => r \in triggered \/ putters # {}
        /\ status[r] = "running" => r \in ready \/ runners # {}
        /\ status[r] \in {"inactive", "queued", "running"}
    BY <2>1, <2>2 DEF CIInv, QueuesHold, TypeOK
  <2>8. Cardinality(putters) + Cardinality(runners)
          + (IF r \in triggered THEN 1 ELSE 0) + (IF r \in ready THEN 1 ELSE 0)
        = IF status[r] = "inactive" THEN 0 ELSE 1
    BY <2>3, <2>4, <2>5, <2>6, <2>7
  <2> QED
    BY <2>1, <2>2, <2>8
<1> QED
  BY <1>1, CIInvariant, PTL

-----------------------------------------------------------------------------
(* Chains.                                                                 *)

\* What q may trigger is downstream of q, and so is what is downstream of that.
LEMMA DownstreamOfEffects ==
    ASSUME NEW q \in Reactions, NEW s \in Reactions, NEW r \in Reactions,
           NEW set \in Effects[q], s \in set, <<s, r>> \in Downstream
    PROVE  <<q, r>> \in Downstream
<1> SUFFICES ASSUME NEW S \in SUBSET Reactions,
                    \A e \in MayTrigger : e[1] \in S \cup {q} => e[2] \in S
             PROVE  r \in S
  BY DEF Downstream
<1>1. <<q, s>> \in MayTrigger
  BY DEF MayTrigger
<1>2. s \in S
  BY <1>1
<1>3. \A e \in MayTrigger : e[1] \in S \cup {s} => e[2] \in S
  BY <1>2
<1> QED
  BY <1>3 DEF Downstream

\* What is downstream of a reaction is of a higher level.
LEMMA DownstreamIsHigher ==
    ASSUME NEW q \in Reactions, NEW r \in Reactions, <<q, r>> \in Downstream
    PROVE  Level[q] < Level[r]
<1>1. PICK S : S = {s \in Reactions : Level[q] < Level[s]}
  OBVIOUS
<1>2. ASSUME NEW e \in MayTrigger, e[1] \in S \cup {q} PROVE e[2] \in S
  <2>1. /\ e[1] \in Reactions /\ e[2] \in Reactions
        /\ \E set \in Effects[e[1]] : e[2] \in set
    BY DEF MayTrigger
  <2>2. Level[e[1]] < Level[e[2]]
    BY <2>1, TagWorkersAssumption
  <2>3. Level \in [Reactions -> Int]
    BY TagWorkersAssumption
  <2> QED
    BY <1>1, <1>2, <2>1, <2>2, <2>3
<1>3. S \in SUBSET Reactions
  BY <1>1
<1>4. r \in S
  BY <1>2, <1>3 DEF Downstream
<1> QED
  BY <1>1, <1>4

\* What is to be executed yet, or to be triggered by a reaction that runs.
Waiting(q) == status[q] # "inactive" \/ \E w \in Workers : q \in pending[w]

\* A step after which no other reaction waits or runs keeps the order.
LEMMA NothingNewKeepsChains ==
    ASSUME ChainsHold,
           \A r \in Reactions : status'[r] = "running" => status[r] = "running",
           \A q \in Reactions : Waiting(q)' => Waiting(q)
    PROVE  ChainsHold'
BY DEF ChainsHold, Waiting

LEMMA InvokeKeepsChains ==
    ASSUME CIInv, ChainsHold, NEW w \in Workers, Invoke(w)
    PROVE  ChainsHold'
<1>1. /\ mode[w] = "invoke" /\ status' = status
      /\ running[w] \in Reactions /\ status[running[w]] = "running"
  BY DEF Invoke, CIInv, TypeOK, Holding
<1>2. PICK set \in Effects[running[w]] : pending' = [pending EXCEPT ![w] = set]
  BY DEF Invoke
<1>3. \A v \in Workers : pending'[v] = IF v = w THEN set ELSE pending[v]
  BY <1>2 DEF CIInv, TypeOK
<1> SUFFICES ASSUME NEW q \in Reactions, NEW r \in Reactions,
                    status[r] = "running", Waiting(q)', <<q, r>> \in Downstream
             PROVE  FALSE
  BY <1>1 DEF ChainsHold, Waiting
<1>4. CASE Waiting(q)
  BY <1>4 DEF ChainsHold, Waiting
<1>5. CASE ~Waiting(q)
  <2>1. q \in set
    BY <1>5, <1>1, <1>3 DEF Waiting
  <2>2. <<running[w], r>> \in Downstream
    BY <2>1, <1>1, DownstreamOfEffects
  <2> QED
    BY <2>2, <1>1 DEF ChainsHold
<1> QED
  BY <1>4, <1>5

LEMMA DistributeKeepsChains ==
    ASSUME CIInv, ChainsFollowEffects, NEW w \in Workers, Distribute(w)
    PROVE  ChainsHold'
<1>1. PICK distributed : distributed = {r \in triggered : ~IsBlocked(r)}
  OBVIOUS
<1>2. /\ mode[w] = "loop" /\ pending' = pending
      /\ status' = [r \in Reactions |-> IF r \in distributed THEN "running" ELSE status[r]]
  BY <1>1 DEF Distribute, workVars
<1>3. /\ \A v \in Workers : pending[v] = {}
      /\ \A r \in Reactions : status[r] = IF r \in triggered THEN "queued" ELSE "inactive"
  BY <1>2, LastSeesAll
<1> SUFFICES ASSUME NEW q \in Reactions, NEW r \in Reactions,
                    status'[r] = "running", status'[q] # "inactive", <<q, r>> \in Downstream
             PROVE  FALSE
  BY <1>2, <1>3 DEF ChainsHold
<1>4. r \in triggered /\ ~IsBlocked(r) /\ q \in triggered
  BY <1>1, <1>2, <1>3
<1>5. Index[q] < Index[r] /\ Chains[q] \cap Chains[r] # {}
  BY DEF ChainsFollowEffects
<1>6. Level[q] < Level[r]
  BY DownstreamIsHigher
<1> QED
  BY <1>4, <1>5, <1>6 DEF IsBlocked, HasPrecedenceOver

LEMMA StepKeepsChains ==
    ASSUME CIInv, ChainsHold, ChainsFollowEffects, [Next]_vars
    PROVE  ChainsHold'
<1>1. CASE UNCHANGED vars
  BY <1>1 DEF vars, threadVars, workVars, ChainsHold
<1>2. ASSUME NEW w \in Workers, Step(w) PROVE ChainsHold'
  <2>1. CASE \/ Exit(w) \/ Pop(w) \/ UpdateTriggered(w) \/ Block(w) \/ BlockLast(w) \/ Stop(w)
             \/ NotifyWorkers(w) \/ UNCHANGED threadVars
    <3>1. UNCHANGED <<pending, status>>
      BY <2>1 DEF Exit, Pop, UpdateTriggered, Block, BlockLast, Stop, NotifyWorkers, threadVars,
                  workVars
    <3> QED
      BY <3>1 DEF ChainsHold
  <2>2. CASE Lose(w)
    <3>1. status' = status /\ \A v \in Workers : pending'[v] \subseteq pending[v]
      BY <2>2 DEF Lose, CIInv, TypeOK
    <3> QED
      BY <3>1, NothingNewKeepsChains DEF Waiting
  <2>3. CASE TriggerReaction(w)
    <3>1. PICK r \in pending[w] : Win(w, r)
      BY <2>3 DEF TriggerReaction
    <3>2. /\ \A q \in Reactions : status'[q] = IF q = r THEN "queued" ELSE status[q]
          /\ \A v \in Workers : pending'[v] \subseteq pending[v]
      BY <3>1 DEF Win, CIInv, TypeOK
    <3> QED
      BY <3>1, <3>2, NothingNewKeepsChains DEF Waiting
  <2>4. CASE Done(w, "running", "get")
    <3>1. pending' = pending /\ \A q \in Reactions : status'[q] \in {status[q], "inactive"}
      BY <2>4 DEF Done, CIInv, TypeOK
    <3> QED
      BY <3>1, NothingNewKeepsChains DEF Waiting
  <2>5. CASE AdvanceTag(w)
    <3>1. PICK popped : Queued(popped)
      BY <2>5 DEF AdvanceTag
    <3>2. \A r \in Reactions : status[r] = "inactive"
      BY <2>5, LastSeesAll DEF AdvanceTag
    <3>3. \A r \in Reactions : status'[r] # "running"
      BY <3>1, <3>2 DEF Queued
    <3> QED
      BY <3>3 DEF ChainsHold
  <2> QED
    BY <1>2, <2>1, <2>2, <2>3, <2>4, <2>5, InvokeKeepsChains, DistributeKeepsChains
       DEF Step, Elsewhere
<1> QED
  BY <1>1, <1>2 DEF Next

-----------------------------------------------------------------------------
(* What the scheduler promises.                                            *)

\* Nothing is seen of a step that starts, ends and triggers no reaction.
LEMMA SameTags ==
    ASSUME UNCHANGED <<tag, running, status>>
    PROVE  UNCHANGED Tags!vars
BY DEF Active, Todo, Tags!vars

\* Active reactions have the status of running ones.
LEMMA ActiveRuns ==
    ASSUME CIInv
    PROVE  \A q \in Active : q \in Reactions /\ status[q] = "running"
BY DEF Active, CIInv, TypeOK, Holding

LEMMA PopStarts ==
    ASSUME CIInv, ChainsHold, NEW w \in Workers, Pop(w)
    PROVE  [\E r \in Reactions : Tags!Start(r)]_(Tags!vars)
<1>0. running[w] = None /\ UNCHANGED <<status, tag>>
  BY DEF Pop, CIInv, Holding, tagVars
<1>1. CASE ready = {}
  BY <1>0, <1>1, SameTags DEF Pop
<1>2. CASE ready # {}
  <2>1. PICK r \in ready : running' = [running EXCEPT ![w] = r]
    BY <1>2 DEF Pop, Get
  <2>2. /\ r \in Reactions /\ status[r] = "running" /\ r # None
        /\ \A v \in Workers : running[v] # r
    BY NoneIsNoReaction DEF CIInv, TypeOK, QueuesHold, Holding
  <2>3. \A v \in Workers : running'[v] = IF v = w THEN r ELSE running[v]
    BY <2>1 DEF CIInv, TypeOK
  <2>4. Active' = Active \cup {r}
    BY <1>0, <2>2, <2>3 DEF Active
  <2>5. Todo' = Todo \ {r} /\ r \in Todo
    BY <1>0, <2>2, <2>4 DEF Todo, Active
  <2>6. \A q \in Todo \cup Active : q \in Reactions /\ status[q] # "inactive"
    BY ActiveRuns DEF Todo
  <2>7. \A q \in Todo \cup Active : <<q, r>> \notin Downstream
    BY <2>2, <2>6 DEF ChainsHold
  <2> QED
    BY <1>0, <2>2, <2>4, <2>5, <2>7 DEF Tags!Start
<1> QED
  BY <1>1, <1>2

LEMMA TriggerTriggers ==
    ASSUME CIInv, NEW w \in Workers, TriggerReaction(w)
    PROVE  \E q, r \in Reactions : Tags!Trigger(q, r)
<1>1. PICK r \in pending[w] : Win(w, r)
  BY DEF TriggerReaction
<1>2. /\ status[r] = "inactive" /\ mode[w] = "trigger"
      /\ status' = [status EXCEPT ![r] = "queued"] /\ UNCHANGED <<running, tag>>
  BY <1>1 DEF TriggerReaction, Win, Wins, tagVars
<1>3. r \in Reactions /\ running[w] \in Reactions
  BY <1>2 DEF CIInv, TypeOK, Holding
<1>4. Active' = Active /\ running[w] \in Active /\ r \notin Active
  BY <1>2, <1>3, NoneIsNoReaction, ActiveRuns DEF Active
<1>5. \A q \in Reactions : status'[q] = IF q = r THEN "queued" ELSE status[q]
  BY <1>2 DEF CIInv, TypeOK
<1>6. Todo' = Todo \cup {r}
  BY <1>3, <1>4, <1>5 DEF Todo
<1> QED
  BY <1>2, <1>3, <1>4, <1>6 DEF Tags!Trigger

LEMMA DoneFinishes ==
    ASSUME CIInv, NEW w \in Workers, Done(w, "running", "get")
    PROVE  \E r \in Reactions : Tags!Finish(r)
<1>1. PICK r : r = running[w]
  OBVIOUS
<1>2. /\ r \in Reactions /\ r # None /\ UNCHANGED tag
      /\ status' = [status EXCEPT ![r] = "inactive"]
      /\ running' = [running EXCEPT ![w] = None]
  BY <1>1, NoneIsNoReaction DEF Done, tagVars, CIInv, TypeOK, Holding
<1>3. \A v \in Workers : v # w => running[v] # r
  BY <1>1, <1>2 DEF CIInv, Apart
<1>4. \A v \in Workers : running'[v] = IF v = w THEN None ELSE running[v]
  BY <1>2 DEF CIInv, TypeOK
<1>5. Active' = Active \ {r} /\ r \in Active
  <2>1. \A q : q \in Active' <=> q \in Active \ {r}
    BY <1>1, <1>2, <1>3, <1>4 DEF Active
  <2> QED
    BY <2>1, <1>1, <1>2 DEF Active
<1>6. \A q \in Reactions : status'[q] = IF q = r THEN "inactive" ELSE status[q]
  BY <1>2 DEF CIInv, TypeOK
<1>7. Todo' = Todo
  BY <1>5, <1>6 DEF Todo
<1> QED
  BY <1>2, <1>5, <1>7 DEF Tags!Finish

LEMMA AdvanceAdvances ==
    ASSUME CIInv, NEW w \in Workers, AdvanceTag(w)
    PROVE  [Tags!Advance]_(Tags!vars)
<1>1. PICK popped \in SUBSET Reactions : Advance(popped) /\ Queued(popped)
  BY DEF AdvanceTag
<1>2. /\ \A r \in Reactions : status[r] = "inactive"
      /\ \A v \in Workers : running[v] = None
      /\ UNCHANGED running
  BY LastSeesAll DEF AdvanceTag, workVars
<1>3. Active = {} /\ Active' = {} /\ Todo = {}
  BY <1>2 DEF Active, Todo
<1>4. \A r \in Reactions : status'[r] = IF r \in popped THEN "queued" ELSE "inactive"
  BY <1>1, <1>2 DEF Queued, Wins
<1>5. Todo' = popped
  BY <1>3, <1>4 DEF Todo
<1>6. \/ popped = {} /\ UNCHANGED tag
      \/ tag' = tag + 1
  BY <1>1 DEF Advance
<1> QED
  BY <1>3, <1>5, <1>6 DEF Tags!Advance, Tags!vars

\* A reaction that is distributed is to be executed before and after.
LEMMA DistributeHides ==
    ASSUME CIInv, NEW w \in Workers, Distribute(w)
    PROVE  UNCHANGED Tags!vars
<1>1. PICK distributed : distributed = {r \in triggered : ~IsBlocked(r)}
  OBVIOUS
<1>2. /\ UNCHANGED <<running, tag>>
      /\ status' = [r \in Reactions |-> IF r \in distributed THEN "running" ELSE status[r]]
  BY <1>1 DEF Distribute, workVars, tagVars
<1>3. \A r \in distributed : status[r] = "queued"
  BY <1>1 DEF CIInv, QueuesHold
<1>4. \A r \in Reactions : status'[r] # "inactive" <=> status[r] # "inactive"
  BY <1>2, <1>3
<1>5. Active' = Active
  BY <1>2 DEF Active
<1>6. Todo' = Todo
  BY <1>4, <1>5 DEF Todo
<1> QED
  BY <1>2, <1>5, <1>6 DEF Tags!vars

LEMMA HiddenSteps ==
    ASSUME NEW w \in Workers,
           \/ Exit(w) \/ UpdateTriggered(w) \/ Block(w) \/ BlockLast(w) \/ Stop(w)
           \/ NotifyWorkers(w) \/ Invoke(w) \/ Lose(w) \/ UNCHANGED threadVars
    PROVE  UNCHANGED Tags!vars
<1>1. UNCHANGED <<tag, running, status>>
  BY DEF Exit, UpdateTriggered, Block, BlockLast, Stop, NotifyWorkers, Invoke, Lose, threadVars,
         workVars, tagVars
<1> QED
  BY <1>1, SameTags

LEMMA StepIsTagStep ==
    ASSUME CIInv, ChainsHold, [Next]_vars
    PROVE  [Tags!Next]_(Tags!vars)
<1>1. CASE UNCHANGED vars
  BY <1>1, SameTags DEF vars, threadVars, workVars, tagVars
<1>2. ASSUME NEW w \in Workers, Step(w) PROVE [Tags!Next]_(Tags!vars)
  <2>1. CASE Pop(w)
    BY <2>1, PopStarts DEF Tags!Next
  <2>2. CASE TriggerReaction(w)
    BY <2>2, TriggerTriggers DEF Tags!Next
  <2>3. CASE Done(w, "running", "get")
    BY <2>3, DoneFinishes DEF Tags!Next
  <2>4. CASE AdvanceTag(w)
    BY <2>4, AdvanceAdvances DEF Tags!Next
  <2>5. CASE Distribute(w)
    BY <2>5, DistributeHides
  <2> QED
    BY <1>2, <2>1, <2>2, <2>3, <2>4, <2>5, HiddenSteps DEF Step, Elsewhere
<1> QED
  BY <1>1, <1>2 DEF Next

\* If deadlines and chains are handed on upstream, the GEDF_NP_CI scheduler implements
\* TagExecution for every program: a reaction runs at the tag that triggers it, once
\* and after those it is downstream of, and the tag advances when none is left.
THEOREM CIImplementsTagExecution ==
    ASSUME ChainsFollowEffects
    PROVE  Spec => ImplementsTagExecution
<1>1. Init => ChainsHold
  <2> SUFFICES ASSUME Init PROVE ChainsHold
    OBVIOUS
  <2>1. \A r \in Reactions : status[r] # "running"
    BY DEF Init, ThreadsInit
  <2> QED
    BY <2>1 DEF ChainsHold
<1>2. Init => Tags!Init
  <2> SUFFICES ASSUME Init PROVE Tags!Init
    OBVIOUS
  <2>1. Active = {}
    BY DEF Init, ThreadsInit, Active
  <2>2. AtStart(stopTag) \subseteq Reactions
    BY TagWorkersAssumption DEF AtStart
  <2>3. Todo = AtStart(stopTag)
    BY <2>1, <2>2 DEF Init, ThreadsInit, Todo
  <2> QED
    BY <2>1, <2>3 DEF Init, ThreadsInit, Tags!Init
<1>3. CIInv /\ ChainsHold /\ [Next]_vars => ChainsHold'
  BY StepKeepsChains
<1>4. CIInv /\ ChainsHold /\ [Next]_vars => [Tags!Next]_(Tags!vars)
  BY StepIsTagStep
<1> QED
  BY <1>1, <1>2, <1>3, <1>4, CIInvariant, PTL DEF Spec, ImplementsTagExecution, Tags!Spec
=============================================================================
