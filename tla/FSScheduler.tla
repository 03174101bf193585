----------------------------- MODULE FSScheduler -----------------------------
(***************************************************************************)
(* The FS ("fully static") scheduler: every worker runs its own program, a *)
(* static schedule of instructions, and the scheduler is the virtual       *)
(* machine that executes them (core/threaded/scheduler_FS.c).  Workers     *)
(* meet only through counters (INC, INC2, WU), the status of reactions     *)
(* (EIT, and the triggering of downstream reactions), the tags and stop    *)
(* flags of reactors (ADV, ADV2, BIT), physical time (DU) and the idle     *)
(* hand-shake of IdleWorkers (SAC).                                        *)
(*                                                                         *)
(* The schedule is a parameter, as it is for the code.  Times are counted  *)
(* in a unit the schedule chooses; three counters that only ever grow are  *)
(* cut off at named bounds above every value they are compared with:       *)
(* TagCap, MaxIteration and MaxNow.                                        *)
(***************************************************************************)
EXTENDS IdleWorkers, Sequences

CONSTANTS
    Reactions,      \* indices of reaction_instances
    Reactors,       \* indices of reactor_self_instances
    Counters,       \* indices of counters
    Schedule,       \* static_schedules: worker -> sequence of instructions
    Effects,        \* reaction -> the sets of reactions one run may trigger
    TriggeredAtStart, \* reactions of the timers with offset 0
    Scanned,        \* 0 .. num_reactor_self_instances - 1
    StopTime,       \* the time of stop_tag
    TagCap,         \* bound: tags stop growing here (> StopTime)
    MaxIteration,   \* bound: hyperperiod_iterations stop growing here
    MaxNow,         \* bound: the physical clock stops here
    NoWorker,       \* not a worker: the mutex is free
    NoReaction      \* not a reaction: nothing is running

Ops == {"ADV", "ADV2", "BIT", "DU", "EIT", "EXE", "INC", "INC2", "JMP", "SAC",
        "STP", "WU"}

Instructions == [op : Ops, rs1 : Int, rs2 : Int]

\* What the code takes for granted of a schedule: operands are in range and
\* control never runs off its end.
WellFormed(schedule) ==
    /\ schedule \in Seq(Instructions) /\ Len(schedule) > 0
    /\ \A i \in 1 .. Len(schedule) : LET inst == schedule[i] IN
        /\ inst.op \in {"BIT", "JMP"} => inst.rs1 \in 0 .. Len(schedule) - 1
        /\ inst.op \in {"EXE", "EIT"} => inst.rs1 \in Reactions
        /\ inst.op \in {"ADV", "ADV2"} => inst.rs1 \in Reactors /\ inst.rs2 \in Nat
        /\ inst.op \in {"INC", "INC2", "WU"} => inst.rs1 \in Counters /\ inst.rs2 \in Nat
        /\ inst.op = "DU" => inst.rs1 \in Nat
        /\ inst.op \notin {"JMP", "STP"} => i < Len(schedule)

ASSUME FSAssumption ==
    /\ DOMAIN Schedule = Workers /\ \A w \in Workers : WellFormed(Schedule[w])
    /\ Effects \in [Reactions -> SUBSET SUBSET Reactions]
    /\ TriggeredAtStart \subseteq Reactions
    /\ Scanned \subseteq Reactors
    /\ StopTime \in Nat /\ TagCap \in Nat /\ MaxIteration \in Nat /\ MaxNow \in Nat
    /\ NoWorker \notin Workers /\ NoReaction \notin Reactions

VARIABLES
    pc,         \* line of the schedule each worker is at, from 0
    mode,       \* what the worker is doing outside wait_for_work
    running,    \* the reaction a worker executes
    pending,    \* downstream reactions it has still to trigger
    status,     \* status of each reaction
    counter,    \* counters
    loaded,     \* the value a worker read in the += of INC or INC2
    mutex,      \* owner of the global mutex
    tag,        \* time of each reactor's tag
    reached,    \* reactor_reached_stop_tag
    iteration,  \* hyperperiod_iterations
    now,        \* physical time since physical_start_time
    owed,       \* history: workers released by a SAC and not yet running
    added       \* history: what was added to each counter since its last clear

workerVars == <<pc, mode, running, pending>>
sharedVars == <<status, counter, loaded, mutex, tag, reached, iteration, now>>
history == <<owed, added>>
vars == <<idleVars, workerVars, sharedVars, history>>

\* "fetch": in the loop of lf_sched_get_ready_reaction; "add": between the
\* load and the store of a +=; "clear": last in SAC, counters not cleared yet;
\* "invoke": a reaction was returned and is about to run; "trigger": it has
\* run and its outputs are being scheduled; "exited": the thread has ended.
Modes == {"fetch", "add", "clear", "invoke", "trigger", "exited"}

SmallerOf(a, b) == IF a < b THEN a ELSE b

Inst(w) == Schedule[w][pc[w] + 1]

\* Worker w is about to execute an instruction with opcode op.
At(w, op) ==
    /\ phase[w] = "working"
    /\ mode[w] = "fetch"
    /\ Inst(w).op = op

Goto(w, line) == pc' = [pc EXCEPT ![w] = line]

Step(w) == Goto(w, pc[w] + 1)

-----------------------------------------------------------------------------

\* From given lines of the schedules, with the physical clock at a given time.
InitAt(line, time) ==
    /\ IdleInit
    /\ pc = line
    /\ mode = [w \in Workers |-> "fetch"]
    /\ running = [w \in Workers |-> NoReaction]
    /\ pending = [w \in Workers |-> {}]
    /\ status = [r \in Reactions |->
                    IF r \in TriggeredAtStart THEN "queued" ELSE "inactive"]
    /\ counter = [c \in Counters |-> 0]
    /\ loaded = [w \in Workers |-> 0]
    /\ mutex = NoWorker
    /\ tag = [r \in Reactors |-> 0]
    /\ reached = [r \in Reactors |-> FALSE]
    /\ iteration = [w \in Workers |-> 0]
    /\ now = time
    /\ owed = {}
    /\ added = [c \in Counters |-> 0]

Init == InitAt([w \in Workers |-> 0], 0)

\* Mutant: every reactor is scanned, also main, which no schedule advances.
BITScanningMain(w) ==
    /\ At(w, "BIT")
    /\ IF \A r \in Reactors : reached[r] THEN Goto(w, Inst(w).rs1) ELSE Step(w)
    /\ UNCHANGED <<idleVars, mode, running, pending, sharedVars, history>>

\* Branch if every scanned reactor has passed the stop tag.  The flags only
\* ever rise, so reading them one by one is reading them at once.
BIT(w) ==
    /\ At(w, "BIT")
    /\ IF \A r \in Scanned : reached[r] THEN Goto(w, Inst(w).rs1) ELSE Step(w)
    /\ UNCHANGED <<idleVars, mode, running, pending, sharedVars, history>>

\* Return the reaction r to the worker and leave the loop.
ReturnReaction(w, r) ==
    /\ running' = [running EXCEPT ![w] = r]
    /\ mode' = [mode EXCEPT ![w] = "invoke"]
    /\ UNCHANGED pending

EXE(w) ==
    /\ At(w, "EXE")
    /\ ReturnReaction(w, Inst(w).rs1)
    /\ Step(w)
    /\ UNCHANGED <<idleVars, sharedVars, history>>

EIT(w) ==
    /\ At(w, "EIT")
    /\ IF status[Inst(w).rs1] = "queued"
       THEN ReturnReaction(w, Inst(w).rs1)
       ELSE UNCHANGED <<running, mode, pending>>
    /\ Step(w)
    /\ UNCHANGED <<idleVars, sharedVars, history>>

\* Mutant: the iteration is not taken into account.
DUOfFirstLap(w) ==
    /\ At(w, "DU")
    /\ now >= SmallerOf(Inst(w).rs1, MaxNow)
    /\ Step(w)
    /\ UNCHANGED <<idleVars, mode, running, pending, sharedVars, history>>

\* Sleep until rs1 * (iteration + 1) after the start; rs2 is not read.
DU(w) ==
    /\ At(w, "DU")
    /\ now >= SmallerOf(Inst(w).rs1 * (iteration[w] + 1), MaxNow)
    /\ Step(w)
    /\ UNCHANGED <<idleVars, mode, running, pending, sharedVars, history>>

\* Mutants: the comparison of WU is off by one.
WUStrict(w) ==
    /\ At(w, "WU")
    /\ counter[Inst(w).rs1] > Inst(w).rs2
    /\ Step(w)
    /\ UNCHANGED <<idleVars, mode, running, pending, sharedVars, history>>

WUOneEarly(w) ==
    /\ At(w, "WU")
    /\ counter[Inst(w).rs1] + 1 >= Inst(w).rs2
    /\ Step(w)
    /\ UNCHANGED <<idleVars, mode, running, pending, sharedVars, history>>

\* Spin until the counter is large enough.
WU(w) ==
    /\ At(w, "WU")
    /\ counter[Inst(w).rs1] >= Inst(w).rs2
    /\ Step(w)
    /\ UNCHANGED <<idleVars, mode, running, pending, sharedVars, history>>

AdvanceReactor(w) ==
    LET r == Inst(w).rs1
        time == SmallerOf(tag[r] + Inst(w).rs2, TagCap)
    IN  /\ tag' = [tag EXCEPT ![r] = time]
        /\ reached' = [reached EXCEPT ![r] = @ \/ time > StopTime]

ADV(w) ==
    /\ At(w, "ADV")
    /\ mutex = NoWorker
    /\ AdvanceReactor(w)
    /\ Step(w)
    /\ UNCHANGED <<idleVars, mode, running, pending, status, counter, loaded,
                   mutex, iteration, now, history>>

\* The same without the mutex.
ADV2(w) ==
    /\ At(w, "ADV2")
    /\ AdvanceReactor(w)
    /\ Step(w)
    /\ UNCHANGED <<idleVars, mode, running, pending, status, counter, loaded,
                   mutex, iteration, now, history>>

JMP(w) ==
    /\ At(w, "JMP")
    /\ iteration' = IF Inst(w).rs2 = -1 THEN iteration
                    ELSE [iteration EXCEPT ![w] = SmallerOf(@ + 1, MaxIteration)]
    /\ Goto(w, Inst(w).rs1)
    /\ UNCHANGED <<idleVars, mode, running, pending, status, counter, loaded,
                   mutex, tag, reached, now, history>>

\* counters[rs1] += rs2 is a load and a store; INC holds the mutex for both.
LoadCounter(w) ==
    /\ loaded' = [loaded EXCEPT ![w] = counter[Inst(w).rs1]]
    /\ mode' = [mode EXCEPT ![w] = "add"]
    /\ UNCHANGED <<idleVars, pc, running, pending, status, counter, tag,
                   reached, iteration, now, history>>

\* Mutant: INC without the mutex.
INCUnlocked(w) ==
    /\ At(w, "INC")
    /\ mutex' = w
    /\ LoadCounter(w)

INCLock(w) ==
    /\ At(w, "INC")
    /\ mutex = NoWorker
    /\ mutex' = w
    /\ LoadCounter(w)

INC2Load(w) ==
    /\ At(w, "INC2")
    /\ LoadCounter(w)
    /\ UNCHANGED mutex

INCStore(w) ==
    /\ phase[w] = "working"
    /\ mode[w] = "add"
    /\ counter' = [counter EXCEPT ![Inst(w).rs1] = loaded[w] + Inst(w).rs2]
    /\ added' = [added EXCEPT ![Inst(w).rs1] = @ + Inst(w).rs2]
    /\ mutex' = IF Inst(w).op = "INC" THEN NoWorker ELSE mutex
    /\ mode' = [mode EXCEPT ![w] = "fetch"]
    /\ Step(w)
    /\ UNCHANGED <<idleVars, running, pending, status, loaded, tag, reached,
                   iteration, now, owed>>

\* STP returns NULL: the worker leaves its loop and the thread ends.
STP(w) ==
    /\ At(w, "STP")
    /\ mode' = [mode EXCEPT ![w] = "exited"]
    /\ UNCHANGED <<idleVars, pc, running, pending, sharedVars, history>>

-----------------------------------------------------------------------------
(* SAC: the idle hand-shake, with the counters cleared by the last worker. *)

SACBlock(w) ==
    /\ At(w, "SAC")
    /\ GoIdle(w)
    /\ UNCHANGED <<workerVars, sharedVars, history>>

\* Mutant: whoever comes to SAC takes itself for the last one.
SACWithoutWaiting(w) ==
    /\ At(w, "SAC")
    /\ ~shouldStop
    /\ idle' = SmallerOf(idle + 1, NumberOfWorkers)
    /\ phase' = [phase EXCEPT ![w] = "last"]
    /\ mode' = [mode EXCEPT ![w] = "clear"]
    /\ UNCHANGED <<permits, awaken, shouldStop, pc, running, pending, sharedVars,
                   history>>

SACLast(w) ==
    /\ At(w, "SAC")
    /\ GoIdleLast(w)
    /\ mode' = [mode EXCEPT ![w] = "clear"]
    /\ UNCHANGED <<pc, running, pending, sharedVars, history>>

\* "All threads are idle": the counters are cleared without a lock.
ClearCounters(w) ==
    /\ phase[w] = "last"
    /\ mode[w] = "clear"
    /\ counter' = [c \in Counters |-> 0]
    /\ added' = [c \in Counters |-> 0]
    /\ mode' = [mode EXCEPT ![w] = "fetch"]
    /\ UNCHANGED <<idleVars, pc, running, pending, status, loaded, mutex, tag,
                   reached, iteration, now, owed>>

NotifyAll(w) ==
    /\ mode[w] = "fetch"
    /\ LowerIdle(w, idle)
    /\ UNCHANGED <<workerVars, sharedVars, history>>

SACRelease(w) ==
    /\ ReleasePermits(w)
    /\ owed' = owed \cup (Workers \ {w})
    /\ Step(w)
    /\ UNCHANGED <<mode, running, pending, sharedVars, added>>

SACResume(w) ==
    /\ TakePermit(w)
    /\ owed' = owed \ {w}
    /\ Step(w)
    /\ UNCHANGED <<mode, running, pending, sharedVars, added>>

-----------------------------------------------------------------------------
(* The worker around the scheduler: run the reaction it was given, trigger *)
(* the reactions downstream of the outputs, report the reaction done.      *)

Invoke(w) ==
    /\ mode[w] = "invoke"
    /\ \E triggered \in Effects[running[w]] :
           pending' = [pending EXCEPT ![w] = triggered]
    /\ mode' = [mode EXCEPT ![w] = "trigger"]
    /\ UNCHANGED <<idleVars, pc, running, sharedVars, history>>

\* lf_sched_trigger_reaction: compare-and-swap inactive to queued.  A reaction
\* that is already queued stays so, and nothing is reported.
TriggerReaction(w) ==
    \E r \in pending[w] :
        /\ mode[w] = "trigger"
        /\ status' = [status EXCEPT ![r] = "queued"]
        /\ pending' = [pending EXCEPT ![w] = @ \ {r}]
        /\ UNCHANGED <<idleVars, pc, mode, running, counter, loaded, mutex, tag,
                       reached, iteration, now, history>>

\* lf_sched_done_with_reaction: compare-and-swap queued to inactive.  EXE may
\* have run a reaction that was inactive.
DoneWithReaction(w) ==
    /\ mode[w] = "trigger" /\ pending[w] = {}
    /\ status' = [status EXCEPT ![running[w]] = "inactive"]
    /\ running' = [running EXCEPT ![w] = NoReaction]
    /\ mode' = [mode EXCEPT ![w] = "fetch"]
    /\ UNCHANGED <<idleVars, pc, pending, counter, loaded, mutex, tag, reached,
                   iteration, now, history>>

\* Physical time passes.
Tick ==
    /\ now < MaxNow
    /\ now' = now + 1
    /\ UNCHANGED <<idleVars, workerVars, status, counter, loaded, mutex, tag,
                   reached, iteration, history>>

-----------------------------------------------------------------------------

Execute(w) ==
    \/ BIT(w) \/ EXE(w) \/ EIT(w) \/ DU(w) \/ WU(w)
    \/ ADV(w) \/ ADV2(w) \/ JMP(w) \/ STP(w)
    \/ INCLock(w) \/ INC2Load(w) \/ INCStore(w)

Synchronize(w) ==
    \/ SACBlock(w) \/ SACLast(w) \/ ClearCounters(w) \/ NotifyAll(w)
    \/ SACRelease(w) \/ SACResume(w)

RunReaction(w) == Invoke(w) \/ TriggerReaction(w) \/ DoneWithReaction(w)

WorkerStep(w) == Execute(w) \/ Synchronize(w) \/ RunReaction(w)

Next == (\E w \in Workers : WorkerStep(w)) \/ Tick

Spec == Init /\ [][Next]_vars

-----------------------------------------------------------------------------

PcOK == pc \in [Workers -> Nat] /\ \A w \in Workers : pc[w] < Len(Schedule[w])

WorkerTypeOK ==
    /\ PcOK
    /\ mode \in [Workers -> Modes]
    /\ running \in [Workers -> Reactions \cup {NoReaction}]
    /\ pending \in [Workers -> SUBSET Reactions]
    /\ iteration \in [Workers -> 0 .. MaxIteration]
    /\ owed \subseteq Workers

SharedTypeOK ==
    /\ status \in [Reactions -> {"inactive", "queued"}]
    /\ counter \in [Counters -> Nat] /\ added \in [Counters -> Nat]
    /\ loaded \in [Workers -> Nat]
    /\ mutex \in Workers \cup {NoWorker}
    /\ tag \in [Reactors -> 0 .. TagCap]
    /\ reached \in [Reactors -> BOOLEAN]
    /\ now \in 0 .. MaxNow

TypeOK == IdleTypeOK /\ WorkerTypeOK /\ SharedTypeOK

\* No increment of a counter is lost, although INC2 takes no lock, INC and
\* INC2 are a load and a store, and SAC clears the counters without the
\* mutex INC holds.  It needs one writer per counter (or the mutex) and every
\* other worker blocked while the last one clears.
CountersAccurate == counter = added

\* A worker that reaches an EIT finds its reaction queued: the WU or the
\* position before it made sure that the producer has run, and no trigger was
\* swallowed by the silent compare-and-swap of lf_sched_trigger_reaction.
\* (For schedules whose producers always produce.)
TriggeredWhenReached ==
    \A w \in Workers : At(w, "EIT") => status[Inst(w).rs1] = "queued"

\* SAC is a barrier: a worker gets out of it only if the worker that found
\* all of them inside has released it.
SACIsBarrier ==
    [][\A w \in Workers :
          phase[w] = "blocked" /\ phase'[w] = "working" => w \in owed]_vars

\* The counters go back to zero only inside a SAC that every worker is in.
ClearedTogether ==
    [][(\E c \in Counters : counter'[c] < counter[c]) =>
          \A w \in Workers : Inst(w).op = "SAC" /\ phase[w] # "working"]_vars

\* The busy-wait of a WU ends.
WUEnds == \A w \in Workers : At(w, "WU") ~> ~At(w, "WU")

-----------------------------------------------------------------------------
(* The inductive invariant behind CountersAccurate and ClearedTogether.    *)

\* What the phase and the mode of a worker say about its instruction.
WorkerControl(w) ==
    /\ phase[w] # "working" => Inst(w).op = "SAC" /\ mode[w] \in {"fetch", "clear"}
    /\ mode[w] = "clear" => phase[w] = "last"
    /\ mode[w] = "add" => Inst(w).op \in {"INC", "INC2"}
    /\ mode[w] \in {"invoke", "trigger"} => running[w] \in Reactions

Control == \A w \in Workers : WorkerControl(w)

\* What a worker loaded for a += is still what the counter holds.
Adding ==
    \A w \in Workers : mode[w] = "add" =>
        /\ loaded[w] = counter[Inst(w).rs1]
        /\ Inst(w).op = "INC" => mutex = w

FSInv == IdleInv /\ WorkerTypeOK /\ SharedTypeOK /\ Control /\ Adding /\ CountersAccurate

\* "The compiler needs to guarantee a single writer" (of a counter that INC2
\* increments): two workers write a counter only if both take the mutex.
Increments(w, c) == {i \in DOMAIN Schedule[w] :
    Schedule[w][i].op \in {"INC", "INC2"} /\ Schedule[w][i].rs1 = c}

SingleWriter ==
    \A c \in Counters : \A v, w \in Workers : v # w =>
        \A i \in Increments(v, c) : \A j \in Increments(w, c) :
            Schedule[v][i].op = "INC" /\ Schedule[w][j].op = "INC"

-----------------------------------------------------------------------------
(* The barrier SAC is meant to be.                                         *)

place == [w \in Workers |->
    CASE phase[w] = "working" -> "running"
      [] phase[w] = "blocked" /\ w \in owed -> "released"
      [] OTHER -> "waiting"]

Barrier == INSTANCE SyncBarrier
=============================================================================
