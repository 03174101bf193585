-------------------------- MODULE FSSchedulerProofs --------------------------
(***************************************************************************)
(* Theorems about the FS scheduler for every number of workers and every   *)
(* well-formed schedule: it is type correct, its SAC implements the idle   *)
(* hand-shake, and, if no counter has two writers of which one takes no    *)
(* lock, no increment is ever lost.                                        *)
(***************************************************************************)
EXTENDS FSScheduler, IdleWorkersProofs

-----------------------------------------------------------------------------
(* The instruction under a worker's program counter.                       *)

LEMMA InstOperands ==
    ASSUME PcOK, NEW w \in Workers
    PROVE  /\ Inst(w) \in Instructions
           /\ Inst(w).op \in {"BIT", "JMP"} =>
                Inst(w).rs1 \in Nat /\ Inst(w).rs1 < Len(Schedule[w])
           /\ Inst(w).op \in {"EXE", "EIT"} => Inst(w).rs1 \in Reactions
           /\ Inst(w).op \in {"ADV", "ADV2"} => Inst(w).rs1 \in Reactors /\ Inst(w).rs2 \in Nat
           /\ Inst(w).op \in {"INC", "INC2", "WU"} => Inst(w).rs1 \in Counters /\ Inst(w).rs2 \in Nat
           /\ Inst(w).op \notin {"JMP", "STP"} => pc[w] + 1 < Len(Schedule[w])
<1> DEFINE i == pc[w] + 1
<1>1. WellFormed(Schedule[w])
  BY FSAssumption
<1>2. Schedule[w] \in Seq(Instructions) /\ i \in 1 .. Len(Schedule[w])
  BY <1>1 DEF WellFormed, PcOK
<1>3. Inst(w) = Schedule[w][i] /\ Schedule[w][i] \in Instructions
  BY <1>2 DEF Inst
<1>4. Len(Schedule[w]) \in Nat
  BY <1>2
<1> QED
  BY <1>1, <1>2, <1>3, <1>4 DEF WellFormed, PcOK

\* Going to a line of the schedule keeps the program counter in the schedule.
LEMMA GotoKeepsPc ==
    ASSUME PcOK, NEW w \in Workers, NEW line \in Nat, line < Len(Schedule[w]),
           Goto(w, line)
    PROVE  PcOK'
  BY DEF Goto, PcOK

\* So does falling through any instruction but JMP and STP.
LEMMA StepKeepsPc ==
    ASSUME PcOK, NEW w \in Workers, Step(w), Inst(w).op \notin {"JMP", "STP"}
    PROVE  PcOK'
<1>1. pc[w] + 1 \in Nat /\ pc[w] + 1 < Len(Schedule[w])
  BY InstOperands DEF PcOK
<1> QED
  BY <1>1, GotoKeepsPc DEF Step

-----------------------------------------------------------------------------
(* SAC implements the idle hand-shake.                                     *)

\* A step of a worker is a step of the hand-shake or leaves it alone.
LEMMA StepIsHandshakeStep == [Next]_vars => [IdleNext]_idleVars
<1> SUFFICES ASSUME [Next]_vars PROVE [IdleNext]_idleVars
  OBVIOUS
<1>1. CASE UNCHANGED vars
  BY <1>1 DEF vars
<1>2. CASE Tick
  BY <1>2 DEF Tick
<1>3. ASSUME NEW w \in Workers, Execute(w) PROVE UNCHANGED idleVars
  BY <1>3 DEF Execute, BIT, EXE, EIT, DU, WU, ADV, ADV2, JMP, STP, INCLock,
              INC2Load, INCStore, LoadCounter
<1>4. ASSUME NEW w \in Workers, RunReaction(w) PROVE UNCHANGED idleVars
  BY <1>4 DEF RunReaction, Invoke, TriggerReaction, DoneWithReaction
<1>5. ASSUME NEW w \in Workers, Synchronize(w) PROVE [IdleNext]_idleVars
  <2>1. CASE SACBlock(w)
    BY <2>1 DEF SACBlock, IdleNext
  <2>2. CASE SACLast(w)
    BY <2>2 DEF SACLast, IdleNext
  <2>3. CASE ClearCounters(w)
    BY <2>3 DEF ClearCounters
  <2>4. CASE NotifyAll(w)
    <3>1. idle \in 1 .. idle /\ LowerIdle(w, idle)
      BY <2>4 DEF NotifyAll, LowerIdle
    <3> QED
      BY <3>1 DEF IdleNext
  <2>5. CASE SACRelease(w)
    BY <2>5 DEF SACRelease, IdleNext
  <2>6. CASE SACResume(w)
    BY <2>6 DEF SACResume, IdleNext
  <2> QED
    BY <1>5, <2>1, <2>2, <2>3, <2>4, <2>5, <2>6 DEF Synchronize
<1> QED
  BY <1>1, <1>2, <1>3, <1>4, <1>5 DEF Next, WorkerStep

LEMMA InitIsHandshakeInit == Init => IdleInit
  BY DEF Init, InitAt

\* The FS scheduler implements the idle hand-shake: whatever IdleWorkers
\* guarantees holds of SAC.
THEOREM FSImplementsHandshake == Spec => IdleSpec
  BY InitIsHandshakeInit, StepIsHandshakeStep, PTL DEF Spec, IdleSpec

\* Hence the worker that clears the counters in SAC is alone.
THEOREM FSLastIsAlone == Spec => []LastIsAlone
  BY FSImplementsHandshake, LastIsAloneTheorem, PTL

\* Hence SAC neither loses nor invents a permit.
THEOREM FSPermitAccounting == Spec => []PermitAccounting
  BY FSImplementsHandshake, PermitAccountingTheorem, PTL

-----------------------------------------------------------------------------
(* Type correctness, and where control can be.                             *)

\* The part of the invariant that does not depend on who writes a counter.
FSTypes == IdleInv /\ WorkerTypeOK /\ SharedTypeOK /\ Control

LEMMA InitFSTypes == Init => FSTypes
<1> SUFFICES ASSUME Init PROVE FSTypes
  OBVIOUS
<1> USE DEF Init, InitAt
<1>1. IdleInv
  BY InitIdleInv
<1>2. \A w \in Workers : Len(Schedule[w]) \in Nat /\ Len(Schedule[w]) > 0
  <2> TAKE w \in Workers
  <2>1. WellFormed(Schedule[w])
    BY FSAssumption
  <2> QED
    BY <2>1 DEF WellFormed
<1>3. WorkerTypeOK
  <2>1. PcOK
    BY <1>2 DEF PcOK
  <2>2. 0 \in 0 .. MaxIteration
    BY FSAssumption
  <2> QED
    BY <2>1, <2>2 DEF WorkerTypeOK, Modes
<1>4. SharedTypeOK
  <2>1. 0 \in 0 .. TagCap /\ 0 \in 0 .. MaxNow
    BY FSAssumption
  <2> QED
    BY <2>1 DEF SharedTypeOK
<1>5. Control
  BY DEF Control, WorkerControl, IdleInit
<1> QED
  BY <1>1, <1>3, <1>4, <1>5 DEF FSTypes

\* Control of the other workers is not disturbed by a step of w.
LEMMA ControlOfOthers ==
    ASSUME Control, NEW w \in Workers, WorkerControl(w)',
           \A v \in Workers \ {w} :
               /\ pc'[v] = pc[v] /\ mode'[v] = mode[v]
               /\ phase'[v] = phase[v] /\ running'[v] = running[v]
    PROVE  Control'
<1>1. \A v \in Workers \ {w} : WorkerControl(v)'
  BY DEF Control, WorkerControl, Inst
<1> QED
  BY <1>1 DEF Control

\* Instructions that only move the program counter.
LEMMA MovesKeep ==
    ASSUME FSTypes, NEW w \in Workers,
           BIT(w) \/ DU(w) \/ WU(w) \/ JMP(w) \/ ADV(w) \/ ADV2(w)
    PROVE  WorkerTypeOK' /\ SharedTypeOK' /\ Control'
<1> USE DEF FSTypes
<1>0. PcOK
  BY DEF WorkerTypeOK
<1>1. /\ phase[w] = "working" /\ mode[w] = "fetch"
      /\ UNCHANGED <<mode, phase, running, pending, status, counter, loaded, mutex,
                     now, owed, added>>
  BY DEF BIT, DU, WU, JMP, ADV, ADV2, At, idleVars, sharedVars, history
<1>2. PcOK' /\ \A v \in Workers \ {w} : pc'[v] = pc[v]
  <2>1. CASE Step(w) /\ Inst(w).op \notin {"JMP", "STP"}
    BY <2>1, <1>0, StepKeepsPc DEF Step, Goto, PcOK
  <2>2. CASE Goto(w, Inst(w).rs1) /\ Inst(w).op \in {"BIT", "JMP"}
    BY <2>2, <1>0, GotoKeepsPc, InstOperands DEF Goto, PcOK
  <2> QED
    BY <2>1, <2>2 DEF BIT, DU, WU, JMP, ADV, ADV2, At
<1>3. iteration' \in [Workers -> 0 .. MaxIteration]
  <2>1. CASE JMP(w)
    BY <2>1, FSAssumption DEF JMP, WorkerTypeOK, SmallerOf
  <2>2. CASE UNCHANGED iteration
    BY <2>2 DEF WorkerTypeOK
  <2> QED
    BY <2>1, <2>2 DEF BIT, DU, WU, ADV, ADV2, sharedVars
<1>4. tag' \in [Reactors -> 0 .. TagCap] /\ reached' \in [Reactors -> BOOLEAN]
  <2>1. CASE ADV(w) \/ ADV2(w)
    <3>1. Inst(w).rs1 \in Reactors /\ Inst(w).rs2 \in Nat /\ AdvanceReactor(w)
      BY <2>1, <1>0, InstOperands DEF ADV, ADV2, At
    <3> DEFINE r == Inst(w).rs1
               time == SmallerOf(tag[r] + Inst(w).rs2, TagCap)
    <3>2. time \in 0 .. TagCap
      BY <3>1, FSAssumption DEF SmallerOf, SharedTypeOK
    <3>3. /\ tag' = [tag EXCEPT ![r] = time]
          /\ reached' = [reached EXCEPT ![r] = @ \/ time > StopTime]
      BY <3>1 DEF AdvanceReactor
    <3> HIDE DEF time
    <3>4. tag' \in [Reactors -> 0 .. TagCap]
      BY <3>2, <3>3 DEF SharedTypeOK
    <3>5. reached' \in [Reactors -> BOOLEAN]
      BY <3>3 DEF SharedTypeOK
    <3> QED
      BY <3>4, <3>5
  <2>2. CASE UNCHANGED <<tag, reached>>
    BY <2>2 DEF SharedTypeOK
  <2> QED
    BY <2>1, <2>2 DEF BIT, DU, WU, JMP, sharedVars
<1>5. WorkerTypeOK'
  BY <1>1, <1>2, <1>3 DEF WorkerTypeOK
<1>6. SharedTypeOK'
  BY <1>1, <1>4 DEF SharedTypeOK
<1>7. WorkerControl(w)'
  BY <1>1 DEF WorkerControl
<1> QED
  BY <1>1, <1>2, <1>5, <1>6, <1>7, ControlOfOthers

\* EXE, EIT and STP: the worker leaves the loop, with or without a reaction.
LEMMA ReturnsKeep ==
    ASSUME FSTypes, NEW w \in Workers, EXE(w) \/ EIT(w) \/ STP(w)
    PROVE  WorkerTypeOK' /\ SharedTypeOK' /\ Control'
<1> USE DEF FSTypes
<1>0. PcOK
  BY DEF WorkerTypeOK
<1>1. /\ phase[w] = "working" /\ mode[w] = "fetch"
      /\ UNCHANGED <<phase, pending, sharedVars, history>>
  BY DEF EXE, EIT, STP, At, idleVars, ReturnReaction
<1>2. PcOK' /\ \A v \in Workers \ {w} : pc'[v] = pc[v]
  <2>1. CASE Step(w) /\ Inst(w).op \notin {"JMP", "STP"}
    BY <2>1, <1>0, StepKeepsPc DEF Step, Goto, PcOK
  <2>2. CASE UNCHANGED pc
    BY <2>2, <1>0 DEF PcOK
  <2> QED
    BY <2>1, <2>2 DEF EXE, EIT, STP, At
<1>3. /\ running' \in [Workers -> Reactions \cup {NoReaction}]
      /\ mode' \in [Workers -> Modes]
      /\ mode'[w] = "invoke" => running'[w] \in Reactions
      /\ mode'[w] \in {"fetch", "invoke", "exited"}
      /\ \A v \in Workers \ {w} : mode'[v] = mode[v] /\ running'[v] = running[v]
  <2>1. CASE ReturnReaction(w, Inst(w).rs1) /\ Inst(w).op \in {"EXE", "EIT"}
    <3>1. Inst(w).rs1 \in Reactions
      BY <2>1, <1>0, InstOperands
    <3> QED
      BY <2>1, <3>1 DEF ReturnReaction, WorkerTypeOK, Modes
  <2>2. CASE UNCHANGED <<running, mode>>
    BY <2>2, <1>1 DEF WorkerTypeOK, Modes
  <2>3. CASE STP(w)
    BY <2>3 DEF STP, WorkerTypeOK, Modes
  <2> QED
    BY <2>1, <2>2, <2>3 DEF EXE, EIT, At
<1>4. WorkerTypeOK' /\ SharedTypeOK'
  BY <1>1, <1>2, <1>3 DEF WorkerTypeOK, SharedTypeOK, sharedVars, history
<1>5. WorkerControl(w)'
  BY <1>1, <1>3 DEF WorkerControl
<1> QED
  BY <1>1, <1>2, <1>3, <1>4, <1>5, ControlOfOthers

\* INC and INC2: the load and the store.
LEMMA AddsKeep ==
    ASSUME FSTypes, NEW w \in Workers, INCLock(w) \/ INC2Load(w) \/ INCStore(w)
    PROVE  WorkerTypeOK' /\ SharedTypeOK' /\ Control'
<1> USE DEF FSTypes
<1>0. PcOK
  BY DEF WorkerTypeOK
<1>1. CASE INCLock(w) \/ INC2Load(w)
  <2>1. /\ Inst(w).op \in {"INC", "INC2"} /\ Inst(w).rs1 \in Counters
        /\ phase[w] = "working" /\ LoadCounter(w)
        /\ mutex' \in Workers \cup {NoWorker}
    BY <1>0, <1>1, InstOperands DEF INCLock, INC2Load, At, SharedTypeOK
  <2>2. /\ UNCHANGED <<phase, pc, running, pending, status, counter, tag, reached,
                       iteration, now, owed, added>>
        /\ loaded' = [loaded EXCEPT ![w] = counter[Inst(w).rs1]]
        /\ mode' = [mode EXCEPT ![w] = "add"]
    BY <2>1 DEF LoadCounter, idleVars, history
  <2>3. WorkerTypeOK'
    BY <2>2 DEF WorkerTypeOK, PcOK, Modes
  <2>4. SharedTypeOK'
    BY <2>1, <2>2 DEF SharedTypeOK
  <2>5. WorkerControl(w)' /\ \A v \in Workers \ {w} : mode'[v] = mode[v]
    BY <2>1, <2>2 DEF WorkerControl, WorkerTypeOK, Inst
  <2> QED
    BY <2>2, <2>3, <2>4, <2>5, ControlOfOthers
<1>2. CASE INCStore(w)
  <2> USE <1>2 DEF INCStore
  <2>1. Inst(w).op \in {"INC", "INC2"}
    BY DEF Control, WorkerControl
  <2>2. Inst(w).rs1 \in Counters /\ Inst(w).rs2 \in Nat
    BY <2>1, <1>0, InstOperands
  <2>3. UNCHANGED <<phase, running, pending, status, loaded, tag, reached,
                    iteration, now, owed>>
    BY DEF idleVars
  <2>4. PcOK' /\ \A v \in Workers \ {w} : pc'[v] = pc[v]
    BY <2>1, <1>0, StepKeepsPc DEF Step, Goto, PcOK
  <2>5. WorkerTypeOK'
    BY <2>3, <2>4 DEF WorkerTypeOK, Modes
  <2>6. counter' \in [Counters -> Nat] /\ added' \in [Counters -> Nat]
    BY <2>2 DEF SharedTypeOK
  <2>7. SharedTypeOK'
    BY <2>3, <2>6 DEF SharedTypeOK
  <2>8. WorkerControl(w)' /\ \A v \in Workers \ {w} : mode'[v] = mode[v]
    BY <2>3 DEF WorkerControl, WorkerTypeOK
  <2> QED
    BY <2>3, <2>4, <2>5, <2>7, <2>8, ControlOfOthers
<1> QED
  BY <1>1, <1>2

\* SAC: arriving, clearing, notifying, leaving.
LEMMA SynchronizeKeeps ==
    ASSUME FSTypes, NEW w \in Workers, Synchronize(w)
    PROVE  WorkerTypeOK' /\ SharedTypeOK' /\ Control'
<1> USE DEF FSTypes
<1>0. PcOK /\ phase \in [Workers -> Phases] /\ mode \in [Workers -> Modes]
  BY DEF WorkerTypeOK, IdleInv, IdleTypeOK
<1>1. CASE SACBlock(w) \/ NotifyAll(w)
  <2>1. /\ UNCHANGED <<workerVars, sharedVars, history>>
        /\ phase[w] = "working" \/ phase[w] = "last"
        /\ mode[w] = "fetch" /\ Inst(w).op = "SAC"
        /\ \A v \in Workers \ {w} : phase'[v] = phase[v]
    BY <1>0, <1>1 DEF SACBlock, NotifyAll, GoIdle, LowerIdle, At, Control, WorkerControl
  <2>2. WorkerTypeOK' /\ SharedTypeOK'
    BY <2>1 DEF WorkerTypeOK, SharedTypeOK, PcOK, workerVars, sharedVars, history
  <2>3. WorkerControl(w)'
    BY <2>1 DEF WorkerControl, Inst, workerVars
  <2> QED
    BY <2>1, <2>2, <2>3, ControlOfOthers DEF workerVars
<1>2. CASE SACLast(w)
  <2> USE <1>2 DEF SACLast, GoIdleLast, At
  <2>1. WorkerTypeOK' /\ SharedTypeOK'
    BY <1>0 DEF WorkerTypeOK, SharedTypeOK, PcOK, sharedVars, history, Modes
  <2>2. WorkerControl(w)'
    BY <1>0 DEF WorkerControl, Inst
  <2>3. \A v \in Workers \ {w} : phase'[v] = phase[v] /\ mode'[v] = mode[v]
    BY <1>0
  <2> QED
    BY <2>1, <2>2, <2>3, ControlOfOthers
<1>3. CASE ClearCounters(w)
  <2> USE <1>3 DEF ClearCounters
  <2>1. WorkerTypeOK' /\ SharedTypeOK'
    BY <1>0 DEF WorkerTypeOK, SharedTypeOK, PcOK, Modes
  <2>2. WorkerControl(w)'
    BY <1>0 DEF Control, WorkerControl, Inst, idleVars
  <2>3. \A v \in Workers \ {w} : phase'[v] = phase[v] /\ mode'[v] = mode[v]
    BY <1>0 DEF idleVars
  <2> QED
    BY <2>1, <2>2, <2>3, ControlOfOthers
<1>4. CASE SACRelease(w) \/ SACResume(w)
  <2>1. /\ phase[w] = "release" \/ phase[w] = "blocked"
        /\ Step(w) /\ owed' \subseteq Workers
        /\ phase' = [phase EXCEPT ![w] = "working"]
        /\ UNCHANGED <<mode, running, pending, sharedVars, added>>
    BY <1>4 DEF SACRelease, SACResume, ReleasePermits, TakePermit, WorkerTypeOK
  <2>2. Inst(w).op = "SAC" /\ mode[w] = "fetch"
    BY <2>1 DEF Control, WorkerControl
  <2>3. PcOK' /\ \A v \in Workers \ {w} : pc'[v] = pc[v]
    BY <2>1, <2>2, <1>0, StepKeepsPc DEF Step, Goto, PcOK
  <2>4. WorkerTypeOK' /\ SharedTypeOK'
    BY <2>1, <2>3 DEF WorkerTypeOK, SharedTypeOK, sharedVars
  <2>5. WorkerControl(w)' /\ \A v \in Workers \ {w} : phase'[v] = phase[v]
    BY <1>0, <2>1, <2>2 DEF WorkerControl
  <2> QED
    BY <2>1, <2>3, <2>4, <2>5, ControlOfOthers
<1> QED
  BY <1>1, <1>2, <1>3, <1>4 DEF Synchronize

\* Running a reaction, triggering the ones downstream, reporting it done.
LEMMA RunReactionKeeps ==
    ASSUME FSTypes, NEW w \in Workers, RunReaction(w)
    PROVE  WorkerTypeOK' /\ SharedTypeOK' /\ Control'
<1> USE DEF FSTypes
<1>0. phase[w] = "working" /\ running[w] \in Reactions /\ mode[w] \in {"invoke", "trigger"}
  BY DEF RunReaction, Invoke, TriggerReaction, DoneWithReaction, Control, WorkerControl
<1>1. CASE Invoke(w)
  <2> USE <1>1 DEF Invoke
  <2>1. pending' \in [Workers -> SUBSET Reactions]
    <3>1. PICK triggered \in Effects[running[w]] :
            pending' = [pending EXCEPT ![w] = triggered]
      OBVIOUS
    <3>2. triggered \in SUBSET Reactions
      BY <1>0, FSAssumption
    <3> QED
      BY <3>1, <3>2 DEF WorkerTypeOK
  <2>2. WorkerTypeOK' /\ SharedTypeOK'
    BY <2>1 DEF WorkerTypeOK, SharedTypeOK, PcOK, sharedVars, history, Modes
  <2>3. WorkerControl(w)' /\ \A v \in Workers \ {w} : mode'[v] = mode[v]
    BY <1>0 DEF WorkerControl, WorkerTypeOK, idleVars
  <2> QED
    BY <2>2, <2>3, ControlOfOthers DEF idleVars
<1>2. CASE TriggerReaction(w)
  <2>1. PICK r \in pending[w] :
          /\ status' = [status EXCEPT ![r] = "queued"]
          /\ pending' = [pending EXCEPT ![w] = @ \ {r}]
          /\ UNCHANGED <<idleVars, pc, mode, running, counter, loaded, mutex, tag,
                         reached, iteration, now, history>>
    BY <1>2 DEF TriggerReaction
  <2>2. r \in Reactions
    BY DEF WorkerTypeOK
  <2>3. WorkerTypeOK' /\ SharedTypeOK'
    BY <2>1, <2>2 DEF WorkerTypeOK, SharedTypeOK, PcOK, history
  <2>4. Control'
    BY <2>1 DEF Control, WorkerControl, Inst, idleVars
  <2> QED
    BY <2>3, <2>4
<1>3. CASE DoneWithReaction(w)
  <2> USE <1>3 DEF DoneWithReaction
  <2>1. WorkerTypeOK' /\ SharedTypeOK'
    BY <1>0 DEF WorkerTypeOK, SharedTypeOK, PcOK, history, Modes
  <2>2. /\ WorkerControl(w)'
        /\ \A v \in Workers \ {w} : mode'[v] = mode[v] /\ running'[v] = running[v]
    BY <1>0 DEF WorkerControl, WorkerTypeOK, idleVars
  <2> QED
    BY <2>1, <2>2, ControlOfOthers DEF idleVars
<1> QED
  BY <1>1, <1>2, <1>3 DEF RunReaction

LEMMA TickKeeps ==
    ASSUME FSTypes, Tick
    PROVE  WorkerTypeOK' /\ SharedTypeOK' /\ Control'
<1>1. WorkerTypeOK' /\ Control'
  BY DEF Tick, FSTypes, WorkerTypeOK, PcOK, Control, WorkerControl, Inst, idleVars,
         workerVars, history
<1>2. now' \in 0 .. MaxNow
  BY FSAssumption DEF Tick, FSTypes, SharedTypeOK
<1>3. SharedTypeOK'
  BY <1>2 DEF Tick, FSTypes, SharedTypeOK, history
<1> QED
  BY <1>1, <1>3

LEMMA StepKeepsFSTypes == FSTypes /\ [Next]_vars => FSTypes'
<1> SUFFICES ASSUME FSTypes, [Next]_vars PROVE FSTypes'
  OBVIOUS
<1>1. IdleInv'
  BY StepIsHandshakeStep, StepKeepsIdleInv DEF FSTypes
<1>2. CASE UNCHANGED vars
  <2>1. WorkerTypeOK' /\ SharedTypeOK' /\ Control'
    BY <1>2 DEF FSTypes, vars, idleVars, workerVars, sharedVars, history, WorkerTypeOK,
                SharedTypeOK, PcOK, Control, WorkerControl, Inst
  <2> QED
    BY <1>1, <2>1 DEF FSTypes
<1>3. CASE Next
  BY <1>1, <1>3, MovesKeep, ReturnsKeep, AddsKeep, SynchronizeKeeps, RunReactionKeeps,
     TickKeeps DEF Next, WorkerStep, Execute, FSTypes
<1> QED
  BY <1>2, <1>3

\* Every reachable state is well typed: in particular no program counter runs
\* off its schedule.
THEOREM FSTypeCorrect == Spec => []TypeOK
<1>1. FSTypes => TypeOK
  BY DEF FSTypes, TypeOK, IdleInv
<1> QED
  BY <1>1, InitFSTypes, StepKeepsFSTypes, PTL DEF Spec

-----------------------------------------------------------------------------
(* No increment is lost.                                                   *)

\* Under SingleWriter, two workers inside a += of one counter both hold the
\* mutex, which is absurd.
LEMMA OneAdder ==
    ASSUME SingleWriter, FSInv, NEW v \in Workers, NEW w \in Workers, v # w,
           mode[v] = "add", mode[w] = "add"
    PROVE  Inst(v).rs1 # Inst(w).rs1
<1> SUFFICES ASSUME Inst(v).rs1 = Inst(w).rs1 PROVE FALSE
  OBVIOUS
<1> DEFINE c == Inst(w).rs1
           i == pc[v] + 1
           j == pc[w] + 1
<1>1. /\ Inst(v).op \in {"INC", "INC2"} /\ Inst(w).op \in {"INC", "INC2"}
      /\ c \in Counters
  BY InstOperands DEF FSInv, WorkerTypeOK, Control, WorkerControl
<1>2. /\ i \in DOMAIN Schedule[v] /\ j \in DOMAIN Schedule[w]
      /\ Inst(v) = Schedule[v][i] /\ Inst(w) = Schedule[w][j]
  <2>1. /\ Schedule[v] \in Seq(Instructions) /\ Schedule[w] \in Seq(Instructions)
    BY FSAssumption DEF WellFormed
  <2> QED
    BY <2>1 DEF FSInv, WorkerTypeOK, PcOK, Inst
<1>3. i \in Increments(v, c) /\ j \in Increments(w, c)
  BY <1>1, <1>2 DEF Increments
<1>4. Inst(v).op = "INC" /\ Inst(w).op = "INC"
  BY <1>1, <1>2, <1>3 DEF SingleWriter
<1> QED
  BY <1>4 DEF FSInv, Adding

\* A step that neither enters nor leaves a += nor clears keeps the accounts.
LEMMA AccountsUntouched ==
    ASSUME Adding, CountersAccurate, UNCHANGED <<counter, added, loaded, mutex>>,
           \A w \in Workers : mode'[w] = "add" => mode[w] = "add" /\ pc'[w] = pc[w]
    PROVE  Adding' /\ CountersAccurate'
  BY DEF Adding, CountersAccurate, Inst

LEMMA AddsKeepAccounts ==
    ASSUME SingleWriter, FSInv, NEW w \in Workers,
           INCLock(w) \/ INC2Load(w) \/ INCStore(w)
    PROVE  Adding' /\ CountersAccurate'
<1>0. /\ PcOK /\ mode \in [Workers -> Modes] /\ loaded \in [Workers -> Nat]
      /\ counter \in [Counters -> Nat] /\ added = counter
      /\ \A v \in Workers : mode[v] = "add" => Inst(v).op \in {"INC", "INC2"}
  BY DEF FSInv, WorkerTypeOK, SharedTypeOK, Control, WorkerControl, CountersAccurate
<1>1. CASE INCLock(w) \/ INC2Load(w)
  <2>1. /\ UNCHANGED <<pc, counter, added>>
        /\ loaded' = [loaded EXCEPT ![w] = counter[Inst(w).rs1]]
        /\ mode' = [mode EXCEPT ![w] = "add"]
        /\ Inst(w).op = "INC" => mutex' = w
        /\ mutex = NoWorker \/ mutex' = mutex
    BY <1>1 DEF INCLock, INC2Load, LoadCounter, history, At
  <2>2. \A v \in Workers : mode[v] = "add" /\ Inst(v).op = "INC" => mutex = v
    BY DEF FSInv, Adding
  <2>3. Adding'
    <3> SUFFICES ASSUME NEW v \in Workers, mode'[v] = "add"
                 PROVE  /\ loaded'[v] = counter'[Inst(v)'.rs1]
                        /\ Inst(v)'.op = "INC" => mutex' = v
      BY DEF Adding
    <3>1. Inst(v)' = Inst(v)
      BY <2>1 DEF Inst
    <3>2. CASE v = w
      BY <1>0, <2>1, <3>1, <3>2
    <3>3. CASE v # w
      <4>1. mode[v] = "add" /\ loaded'[v] = loaded[v]
        BY <1>0, <2>1, <3>3
      <4>2. loaded[v] = counter[Inst(v).rs1]
        BY <4>1 DEF FSInv, Adding
      <4>3. Inst(v).op = "INC" => mutex' = v
        BY <2>1, <2>2, <4>1, FSAssumption
      <4> QED
        BY <2>1, <3>1, <4>1, <4>2, <4>3
    <3> QED
      BY <3>2, <3>3
  <2>4. CountersAccurate'
    BY <2>1, <1>0 DEF CountersAccurate
  <2> QED
    BY <2>3, <2>4
<1>2. CASE INCStore(w)
  <2> DEFINE c == Inst(w).rs1
  <2>1. c \in Counters /\ Inst(w).rs2 \in Nat /\ mode[w] = "add"
    BY <1>0, <1>2, InstOperands DEF INCStore
  <2>2. loaded[w] = counter[c]
    BY <2>1 DEF FSInv, Adding
  <2>3. /\ counter' = [counter EXCEPT ![c] = loaded[w] + Inst(w).rs2]
        /\ added' = [added EXCEPT ![c] = @ + Inst(w).rs2]
        /\ mode' = [mode EXCEPT ![w] = "fetch"]
        /\ mutex' = IF Inst(w).op = "INC" THEN NoWorker ELSE mutex
        /\ loaded' = loaded /\ pc' = [pc EXCEPT ![w] = pc[w] + 1]
    BY <1>2 DEF INCStore, Step, Goto
  <2>4. CountersAccurate'
    BY <1>0, <2>1, <2>2, <2>3 DEF CountersAccurate
  <2>5. Adding'
    <3> SUFFICES ASSUME NEW v \in Workers, mode'[v] = "add"
                 PROVE  /\ loaded'[v] = counter'[Inst(v)'.rs1]
                        /\ Inst(v)'.op = "INC" => mutex' = v
      BY DEF Adding
    <3>1. v # w /\ mode[v] = "add"
      BY <1>0, <2>3
    <3>2. Inst(v)' = Inst(v)
      BY <1>0, <2>3, <3>1 DEF Inst, PcOK
    <3>3. Inst(v).rs1 # c
      BY <2>1, <3>1, OneAdder
    <3>4. loaded'[v] = counter'[Inst(v).rs1]
      BY <1>0, <2>3, <3>1, <3>3 DEF FSInv, Adding
    <3>5. Inst(v).op = "INC" => mutex' = v
      <4>1. Inst(v).op = "INC" => mutex = v
        BY <3>1 DEF FSInv, Adding
      <4>2. Inst(w).op = "INC" => mutex = w
        BY <2>1 DEF FSInv, Adding
      <4> QED
        BY <2>3, <3>1, <4>1, <4>2
    <3> QED
      BY <3>2, <3>4, <3>5
  <2> QED
    BY <2>4, <2>5
<1> QED
  BY <1>1, <1>2

LEMMA ClearKeepsAccounts ==
    ASSUME FSInv, NEW w \in Workers, ClearCounters(w)
    PROVE  Adding' /\ CountersAccurate'
<1>1. CountersAccurate'
  BY DEF ClearCounters, CountersAccurate
<1>2. \A v \in Workers : mode'[v] # "add"
  <2> SUFFICES ASSUME NEW v \in Workers PROVE mode'[v] # "add"
    OBVIOUS
  <2>1. CASE v = w
    BY <2>1 DEF ClearCounters, FSInv, WorkerTypeOK
  <2>2. CASE v # w
    <3>1. phase[v] = "blocked"
      BY <2>2 DEF ClearCounters, FSInv, IdleInv, LastIsAlone
    <3>2. mode[v] # "add"
      BY <3>1 DEF FSInv, Control, WorkerControl
    <3> QED
      BY <2>2, <3>2 DEF ClearCounters, FSInv, WorkerTypeOK
  <2> QED
    BY <2>1, <2>2
<1>3. Adding'
  BY <1>2 DEF Adding
<1> QED
  BY <1>1, <1>3

LEMMA InitFSInv == Init => FSInv
<1> SUFFICES ASSUME Init PROVE FSInv
  OBVIOUS
<1>1. FSTypes
  BY InitFSTypes
<1>2. Adding /\ CountersAccurate
  BY DEF Init, InitAt, Adding, CountersAccurate
<1> QED
  BY <1>1, <1>2 DEF FSInv, FSTypes

LEMMA StepKeepsFSInv ==
    ASSUME SingleWriter, FSInv, [Next]_vars
    PROVE  FSInv'
<1>1. FSTypes'
  BY StepKeepsFSTypes DEF FSTypes, FSInv
<1>2. mode \in [Workers -> Modes] /\ pc \in [Workers -> Nat] /\ Adding /\ CountersAccurate
  BY DEF FSInv, WorkerTypeOK, PcOK
<1>3. Adding' /\ CountersAccurate'
  <2>1. CASE UNCHANGED vars \/ Tick
    <3>1. UNCHANGED <<counter, added, loaded, mutex, mode, pc>>
      BY <2>1 DEF vars, workerVars, sharedVars, history, Tick
    <3> QED
      BY <1>2, <3>1, AccountsUntouched
  <2>2. ASSUME NEW w \in Workers,
               BIT(w) \/ DU(w) \/ WU(w) \/ JMP(w) \/ ADV(w) \/ ADV2(w)
               \/ EXE(w) \/ EIT(w) \/ STP(w)
        PROVE  Adding' /\ CountersAccurate'
    <3>1. /\ UNCHANGED <<counter, added, loaded, mutex>>
          /\ mode[w] = "fetch"
          /\ \/ mode' = mode
             \/ mode' = [mode EXCEPT ![w] = "invoke"]
             \/ mode' = [mode EXCEPT ![w] = "exited"]
          /\ pc' = pc \/ \E line : pc' = [pc EXCEPT ![w] = line]
      BY <2>2 DEF BIT, DU, WU, JMP, ADV, ADV2, EXE, EIT, STP, At, ReturnReaction,
                  sharedVars, history, Step, Goto
    <3>2. \A v \in Workers : mode'[v] = "add" => mode[v] = "add" /\ pc'[v] = pc[v]
      BY <1>2, <3>1
    <3> QED
      BY <1>2, <3>1, <3>2, AccountsUntouched
  <2>3. ASSUME NEW w \in Workers, RunReaction(w)
        PROVE  Adding' /\ CountersAccurate'
    <3>1. /\ UNCHANGED <<counter, added, loaded, mutex, pc>>
          /\ \/ mode' = mode
             \/ mode' = [mode EXCEPT ![w] = "trigger"]
             \/ mode' = [mode EXCEPT ![w] = "fetch"]
      BY <2>3 DEF RunReaction, Invoke, TriggerReaction, DoneWithReaction, sharedVars, history
    <3>2. \A v \in Workers : mode'[v] = "add" => mode[v] = "add" /\ pc'[v] = pc[v]
      BY <1>2, <3>1
    <3> QED
      BY <1>2, <3>1, <3>2, AccountsUntouched
  <2>4. ASSUME NEW w \in Workers,
               SACBlock(w) \/ SACLast(w) \/ NotifyAll(w) \/ SACRelease(w) \/ SACResume(w)
        PROVE  Adding' /\ CountersAccurate'
    <3>1. mode[w] # "add"
      <4>1. At(w, "SAC") \/ phase[w] # "working"
        BY <2>4 DEF SACBlock, SACLast, NotifyAll, LowerIdle, SACRelease, ReleasePermits,
                    SACResume, TakePermit
      <4> QED
        BY <4>1 DEF At, FSInv, Control, WorkerControl
    <3>2. /\ UNCHANGED <<counter, added, loaded, mutex>>
          /\ mode' = mode \/ mode' = [mode EXCEPT ![w] = "clear"]
          /\ pc' = pc \/ pc' = [pc EXCEPT ![w] = pc[w] + 1]
      BY <2>4 DEF SACBlock, SACLast, NotifyAll, SACRelease, SACResume, workerVars,
                  sharedVars, history, Step, Goto
    <3>3. \A v \in Workers : mode'[v] = "add" => mode[v] = "add" /\ pc'[v] = pc[v]
      BY <1>2, <3>1, <3>2
    <3> QED
      BY <1>2, <3>2, <3>3, AccountsUntouched
  <2> QED
    BY <2>1, <2>2, <2>3, <2>4, AddsKeepAccounts, ClearKeepsAccounts
       DEF Next, WorkerStep, Execute, Synchronize
<1> QED
  BY <1>1, <1>3 DEF FSInv, FSTypes

\* No increment of a counter is lost, for any number of workers and any
\* schedule in which two workers write a counter only through INC.
THEOREM CountersAreAccurate ==
    ASSUME SingleWriter
    PROVE  Spec => []CountersAccurate
<1>1. FSInv /\ [Next]_vars => FSInv'
  BY StepKeepsFSInv
<1>2. FSInv => CountersAccurate
  BY DEF FSInv
<1> QED
  BY <1>1, <1>2, InitFSInv, PTL DEF Spec

\* A counter only shrinks in a step taken while every worker is in SAC.
LEMMA StepClearsTogether ==
    ASSUME FSInv, [Next]_vars, NEW c \in Counters, counter'[c] < counter[c]
    PROVE  \A w \in Workers : Inst(w).op = "SAC" /\ phase[w] # "working"
<1>0. counter \in [Counters -> Nat] /\ PcOK
  BY DEF FSInv, SharedTypeOK, WorkerTypeOK
<1>1. counter' # counter
  BY <1>0
<1>2. ASSUME NEW w \in Workers, INCStore(w) PROVE FALSE
  <2>1. /\ Inst(w).rs1 \in Counters /\ Inst(w).rs2 \in Nat
        /\ loaded[w] = counter[Inst(w).rs1]
    BY <1>0, <1>2, InstOperands DEF INCStore, FSInv, Control, WorkerControl, Adding
  <2>2. counter' = [counter EXCEPT ![Inst(w).rs1] = loaded[w] + Inst(w).rs2]
    BY <1>2 DEF INCStore
  <2> QED
    BY <1>0, <2>1, <2>2
<1>3. PICK w \in Workers : ClearCounters(w)
  <2>1. CASE UNCHANGED vars \/ Tick
    BY <1>1, <2>1 DEF vars, sharedVars, Tick
  <2>2. ASSUME NEW w \in Workers, Execute(w) \/ RunReaction(w) PROVE FALSE
    BY <1>1, <1>2, <2>2 DEF Execute, BIT, EXE, EIT, DU, WU, ADV, ADV2, JMP, STP, INCLock,
              INC2Load, LoadCounter, RunReaction, Invoke, TriggerReaction,
              DoneWithReaction, sharedVars
  <2>3. ASSUME NEW w \in Workers, Synchronize(w) PROVE ClearCounters(w)
    BY <1>1, <2>3 DEF Synchronize, SACBlock, SACLast, NotifyAll, SACRelease, SACResume,
              sharedVars
  <2> QED
    BY <2>1, <2>2, <2>3 DEF Next, WorkerStep
<1>4. \A v \in Workers : phase[v] # "working"
  BY <1>3 DEF ClearCounters, FSInv, IdleInv, LastIsAlone
<1> QED
  BY <1>4 DEF FSInv, Control, WorkerControl

\* Counters go back only inside a SAC all workers are in: no worker can have
\* an increment wiped out that it made after leaving the SAC.
THEOREM CountersClearedTogether ==
    ASSUME SingleWriter
    PROVE  Spec => ClearedTogether
<1>1. FSInv /\ [Next]_vars => FSInv'
  BY StepKeepsFSInv
<1>2. FSInv /\ [Next]_vars =>
        [(\E c \in Counters : counter'[c] < counter[c]) =>
            \A w \in Workers : Inst(w).op = "SAC" /\ phase[w] # "working"]_vars
  BY StepClearsTogether
<1> QED
  BY <1>1, <1>2, InitFSInv, PTL DEF Spec, ClearedTogether
=============================================================================
