----------------------------- MODULE NPScheduler -----------------------------
(***************************************************************************)
(* The NP scheduler, the default one of the threaded runtime               *)
(* (core/threaded/scheduler_NP.c with scheduler_sync_tag_advance.c), and   *)
(* the worker threads around it (core/threaded/reactor_threaded.c).        *)
(*                                                                         *)
(* Triggered reactions are kept in one vector per level.  The workers pop  *)
(* the vector of the current level through an atomic index, push into the  *)
(* vectors of higher levels through theirs, and go idle when they find     *)
(* nothing.  The last one to go idle moves on to the next level that has   *)
(* reactions or, after the highest one, advances the tag.                  *)
(*                                                                         *)
(* A tag is the number of tags before it: the event queue is external, and *)
(* Pops says which reactions it may trigger.  The program is unfederated.  *)
(***************************************************************************)
EXTENDS IdleWorkers

CONSTANTS
    Reactions,
    MaxLevel,           \* max_reaction_level
    Level,              \* LF_LEVEL(index) of each reaction
    Effects,            \* reaction -> the sets of reactions one run may trigger
    Stoppers,           \* reactions that may call lf_request_stop
    TriggeredAtStart,   \* by startup and by timers without offset
    Pops,               \* sets of reactions that the events of a tag trigger
    Shutdown,           \* reactions triggered at the stop tag
    Timeouts,           \* bounds: what stop_tag may be at first
    None                \* NULL

ASSUME NPAssumption ==
    /\ MaxLevel \in Nat /\ Level \in [Reactions -> 0 .. MaxLevel]
    /\ IsFiniteSet(Reactions) /\ None \notin Reactions
    /\ \A l \in 0 .. MaxLevel : \E r \in Reactions : Level[r] = l
    /\ Effects \in [Reactions -> SUBSET SUBSET Reactions]
    /\ \A q \in Reactions : \A set \in Effects[q] : \A r \in set : Level[q] < Level[r]
    /\ Stoppers \subseteq Reactions /\ Shutdown \subseteq Reactions
    /\ TriggeredAtStart \subseteq Reactions /\ Pops \subseteq SUBSET Reactions
    /\ Timeouts \subseteq Nat

Levels == 0 .. MaxLevel

\* _lf_initialize_start_tag: with a timeout of 0 also the shutdown reactions.
AtStart(timeout) == TriggeredAtStart \cup IF timeout = 0 THEN Shutdown ELSE {}

AtLevel(l) == {r \in Reactions : Level[r] = l}

\* num_reactions_per_level
VectorSize(l) == Cardinality(AtLevel(l))

VARIABLES
    mode,       \* what each worker is doing outside wait_for_work
    number,     \* worker_number of each thread
    threads,    \* worker_thread_count
    running,    \* the reaction a worker executes
    pending,    \* reactions a worker has still to trigger
    inserting,  \* the reaction it is inserting into a vector
    level,      \* its copy of the current level
    slot,       \* the index it got from a vector
    status,     \* of each reaction
    vector,     \* _lf_sched_triggered_reactions
    index,      \* _lf_sched_indexes
    executing,  \* the level of _lf_sched_executing_reactions
    nextLevel,  \* _lf_sched_next_reaction_level
    tag,        \* current_tag
    stopTag,    \* stop_tag
    completed   \* _lf_logical_tag_completed

threadVars == <<number, threads>>
workVars == <<running, pending, inserting, level, slot>>
queueVars == <<status, vector, index>>
levelVars == <<executing, nextLevel>>
tagVars == <<tag, stopTag, completed>>
vars == <<idleVars, mode, threadVars, workVars, queueVars, levelVars, tagVars>>

\* "new": not started;  "get", "pop", "take": in lf_sched_get_ready_reaction,
\* at the loop condition, before the decrement of the index, before the read
\* of the slot;  "invoke", "trigger", "insert", "store": executing a reaction
\* or popping events, before the compare-and-swap, the increment of an index
\* and the write of a slot;  "idle": nothing to do;  "reset", "loop",
\* "distribute", "notify": the last idle worker;  "exited": out.
Modes == {"new", "get", "pop", "take", "invoke", "trigger", "insert", "store",
          "idle", "reset", "loop", "distribute", "notify", "exited"}

Enter(w, m) == mode' = [mode EXCEPT ![w] = m]

-----------------------------------------------------------------------------

\* The order in which the main thread inserts the reactions of a level.
Enumeration(S) ==
    CHOOSE f \in [0 .. Cardinality(S) - 1 -> S] : \A r \in S : \E i \in DOMAIN f : f[i] = r

Init ==
    \E timeout \in Timeouts :
    LET triggered == AtStart(timeout)
        start(l) == AtLevel(l) \cap triggered
    IN  /\ IdleInit
        /\ mode = [w \in Workers |-> "new"]
        /\ number = [w \in Workers |-> 0]
        /\ threads = 0
        /\ running = [w \in Workers |-> None]
        /\ pending = [w \in Workers |-> {}]
        /\ inserting = [w \in Workers |-> None]
        /\ level = [w \in Workers |-> 0]
        /\ slot = [w \in Workers |-> 0]
        /\ status = [r \in Reactions |->
                        IF r \in triggered THEN "queued" ELSE "inactive"]
        /\ index = [l \in Levels |-> Cardinality(start(l))]
        /\ vector = [l \in Levels |-> [i \in 0 .. VectorSize(l) - 1 |->
                        IF i < Cardinality(start(l)) THEN Enumeration(start(l))[i] ELSE None]]
        /\ executing = 0
        /\ nextLevel = 1
        /\ tag = 0
        /\ stopTag = timeout
        /\ completed = FALSE

\* worker: take a number.
StartThread(w) ==
    /\ mode[w] = "new"
    /\ number' = [number EXCEPT ![w] = threads]
    /\ threads' = threads + 1
    /\ Enter(w, "get")
    /\ UNCHANGED <<idleVars, workVars, queueVars, levelVars, tagVars>>

-----------------------------------------------------------------------------
(* lf_sched_get_ready_reaction                                             *)

\* The loop condition fails: the thread ends.
Exit(w) ==
    /\ phase[w] = "working" /\ mode[w] = "get"
    /\ shouldStop
    /\ threads' = threads - 1
    /\ Enter(w, "exited")
    /\ UNCHANGED <<idleVars, number, workVars, queueVars, levelVars, tagVars>>

ReadLevel(w) ==
    /\ phase[w] = "working" /\ mode[w] = "get"
    /\ ~shouldStop
    /\ level' = [level EXCEPT ![w] = nextLevel - 1]
    /\ Enter(w, "pop")
    /\ UNCHANGED <<idleVars, threadVars, running, pending, inserting, slot,
                   queueVars, levelVars, tagVars>>

Pop(w) ==
    /\ mode[w] = "pop"
    /\ index' = [index EXCEPT ![level[w]] = @ - 1]
    /\ slot' = [slot EXCEPT ![w] = index'[level[w]]]
    /\ Enter(w, IF slot'[w] >= 0 THEN "take" ELSE "idle")
    /\ UNCHANGED <<idleVars, threadVars, running, pending, inserting, level,
                   status, vector, levelVars, tagVars>>

Take(w) ==
    /\ mode[w] = "take"
    /\ running' = [running EXCEPT ![w] = vector[executing][slot[w]]]
    /\ vector' = [vector EXCEPT ![executing][slot[w]] = None]
    /\ Enter(w, IF running'[w] # None THEN "invoke" ELSE "idle")
    /\ UNCHANGED <<idleVars, threadVars, pending, inserting, level, slot,
                   status, index, levelVars, tagVars>>

-----------------------------------------------------------------------------
(* The worker runs the reaction and triggers those downstream of it.       *)

\* lf_request_stop: "the stop_tag will be the next microstep".
RequestStop(w) ==
    /\ mode[w] = "invoke" /\ running[w] \in Stoppers
    /\ tag < stopTag
    /\ stopTag' = tag + 1
    /\ UNCHANGED <<idleVars, mode, threadVars, workVars, queueVars, levelVars,
                   tag, completed>>

Invoke(w) ==
    /\ mode[w] = "invoke"
    /\ \E triggered \in Effects[running[w]] :
           pending' = [pending EXCEPT ![w] = triggered]
    /\ Enter(w, "trigger")
    /\ UNCHANGED <<idleVars, threadVars, running, inserting, level, slot,
                   queueVars, levelVars, tagVars>>

\* lf_sched_trigger_reaction: only the thread whose compare-and-swap succeeds
\* inserts the reaction.
TriggerReaction(w) ==
    /\ mode[w] = "trigger"
    /\ \E r \in pending[w] :
        /\ pending' = [pending EXCEPT ![w] = @ \ {r}]
        /\ IF status[r] = "inactive"
           THEN /\ status' = [status EXCEPT ![r] = "queued"]
                /\ inserting' = [inserting EXCEPT ![w] = r]
                /\ Enter(w, "insert")
           ELSE UNCHANGED <<status, inserting, mode>>
    /\ UNCHANGED <<idleVars, threadVars, running, level, slot, vector, index,
                   levelVars, tagVars>>

\* _lf_sched_insert_reaction: claim a slot of the vector, then fill it.
ClaimSlot(w) ==
    /\ mode[w] = "insert"
    /\ LET l == Level[inserting[w]]
       IN  /\ slot' = [slot EXCEPT ![w] = index[l]]
           /\ index' = [index EXCEPT ![l] = @ + 1]
    /\ Enter(w, "store")
    /\ UNCHANGED <<idleVars, threadVars, running, pending, inserting, level,
                   status, vector, levelVars, tagVars>>

StoreReaction(w) ==
    /\ mode[w] = "store"
    /\ vector' = [vector EXCEPT ![Level[inserting[w]]][slot[w]] = inserting[w]]
    /\ inserting' = [inserting EXCEPT ![w] = None]
    /\ Enter(w, "trigger")
    /\ UNCHANGED <<idleVars, threadVars, running, pending, level, slot, status,
                   index, levelVars, tagVars>>

\* lf_sched_done_with_reaction.  The code gives up if the status is not queued.
DoneWithReaction(w) ==
    /\ mode[w] = "trigger" /\ pending[w] = {}
    /\ phase[w] = "working"
    /\ status[running[w]] = "queued"
    /\ status' = [status EXCEPT ![running[w]] = "inactive"]
    /\ running' = [running EXCEPT ![w] = None]
    /\ Enter(w, "get")
    /\ UNCHANGED <<idleVars, threadVars, pending, inserting, level, slot,
                   vector, index, levelVars, tagVars>>

-----------------------------------------------------------------------------
(* _lf_sched_wait_for_work and the last idle worker.                       *)

\* Mutant: a worker without work ends at once.
LeaveThePool(w) ==
    /\ mode[w] = "idle"
    /\ threads' = threads - 1
    /\ Enter(w, "exited")
    /\ UNCHANGED <<idleVars, number, workVars, queueVars, levelVars, tagVars>>

Block(w) ==
    /\ mode[w] = "idle"
    /\ GoIdle(w)
    /\ Enter(w, "get")
    /\ UNCHANGED <<threadVars, workVars, queueVars, levelVars, tagVars>>

BlockLast(w) ==
    /\ mode[w] = "idle"
    /\ GoIdleLast(w)
    /\ Enter(w, "reset")
    /\ UNCHANGED <<threadVars, workVars, queueVars, levelVars, tagVars>>

\* Mutant: the index is not reset.
KeepIndex(w) ==
    /\ mode[w] = "reset"
    /\ Enter(w, "loop")
    /\ UNCHANGED <<idleVars, threadVars, workVars, queueVars, levelVars, tagVars>>

\* Mutant: the index of the next level is reset.
ResetNextIndex(w) ==
    /\ mode[w] = "reset"
    /\ index' = [l \in Levels |-> IF l = nextLevel THEN 0 ELSE index[l]]
    /\ Enter(w, "loop")
    /\ UNCHANGED <<idleVars, threadVars, workVars, status, vector, levelVars, tagVars>>

\* Workers that found nothing have left a negative index behind.
ResetIndex(w) ==
    /\ mode[w] = "reset"
    /\ index' = [index EXCEPT ![nextLevel - 1] = 0]
    /\ Enter(w, "loop")
    /\ UNCHANGED <<idleVars, threadVars, workVars, status, vector, levelVars, tagVars>>

StayAtTag(w) ==
    /\ mode[w] = "loop"
    /\ nextLevel # MaxLevel + 1
    /\ Enter(w, "distribute")
    /\ UNCHANGED <<idleVars, threadVars, workVars, queueVars, levelVars, tagVars>>

\* _lf_sched_should_stop_locked holds.
Stop(w) ==
    /\ mode[w] = "loop"
    /\ nextLevel = MaxLevel + 1
    /\ completed /\ tag >= stopTag
    /\ nextLevel' = 0
    /\ SignalStop(w)
    /\ Enter(w, "get")
    /\ UNCHANGED <<threadVars, workVars, queueVars, executing, tagVars>>

\* Mutant: the tag advances before the highest level was executed.
AdvanceOneLevelEarly(w) ==
    /\ mode[w] = "loop"
    /\ nextLevel >= MaxLevel
    /\ tag < stopTag
    /\ nextLevel' = 0
    /\ completed' = TRUE
    /\ \E popped \in Pops :
          /\ tag' = tag + 1
          /\ pending' = [pending EXCEPT ![w] = popped]
    /\ Enter(w, "trigger")
    /\ UNCHANGED <<idleVars, threadVars, running, inserting, level, slot,
                   queueVars, executing, stopTag>>

\* Mutant: nobody asks whether the stop tag was reached.
AdvanceAtStop(w) ==
    /\ mode[w] = "loop"
    /\ nextLevel = MaxLevel + 1
    /\ nextLevel' = 0
    /\ completed' = TRUE
    /\ IF tag >= stopTag
       THEN UNCHANGED <<tag, pending>>
       ELSE \E popped \in Pops :
               /\ tag' = tag + 1
               /\ pending' = [pending EXCEPT ![w] = popped]
    /\ Enter(w, "trigger")
    /\ UNCHANGED <<idleVars, threadVars, running, inserting, level, slot,
                   queueVars, executing, stopTag>>

\* _lf_next_locked: the next tag has events, or there are none left and it is
\* the stop tag.  At the stop tag shutdown reactions are triggered.  If the
\* first tag is the stop tag, nothing happens.
AdvanceTag(w) ==
    /\ mode[w] = "loop"
    /\ nextLevel = MaxLevel + 1
    /\ ~(completed /\ tag >= stopTag)
    /\ nextLevel' = 0
    /\ completed' = TRUE
    /\ IF tag >= stopTag
       THEN UNCHANGED <<tag, stopTag, pending>>
       ELSE \E popped \in Pops \cup {{}}, noEvents \in BOOLEAN :
               /\ noEvents => popped = {}
               /\ tag' = tag + 1
               /\ stopTag' = IF noEvents THEN tag + 1 ELSE stopTag
               /\ pending' = [pending EXCEPT ![w] =
                     popped \cup IF tag' >= stopTag' THEN Shutdown ELSE {}]
    /\ Enter(w, "trigger")
    /\ UNCHANGED <<idleVars, threadVars, running, inserting, level, slot,
                   queueVars, executing>>

\* _lf_pop_events has triggered all.
EventsPopped(w) ==
    /\ mode[w] = "trigger" /\ pending[w] = {}
    /\ phase[w] = "last"
    /\ Enter(w, "distribute")
    /\ UNCHANGED <<idleVars, threadVars, workVars, queueVars, levelVars, tagVars>>

\* _lf_sched_distribute_ready_reactions: the next level with a reaction.
Ready == {l \in nextLevel .. MaxLevel : vector[l][0] # None}

Distribute(w) ==
    /\ mode[w] = "distribute"
    /\ \/ \E l \in Ready :
             /\ \A k \in Ready : l <= k
             /\ executing' = l
             /\ nextLevel' = l + 1
             /\ Enter(w, "notify")
       \/ /\ Ready = {}
          /\ executing' = IF nextLevel <= MaxLevel THEN MaxLevel ELSE executing
          /\ nextLevel' = MaxLevel + 1
          /\ Enter(w, "loop")
    /\ UNCHANGED <<idleVars, threadVars, workVars, queueVars, tagVars>>

SmallerOf(a, b) == IF a < b THEN a ELSE b

NotifyWorkers(w) ==
    /\ mode[w] = "notify"
    /\ LowerIdle(w, SmallerOf(idle, index[nextLevel - 1]))
    /\ Enter(w, "get")
    /\ UNCHANGED <<threadVars, workVars, queueVars, levelVars, tagVars>>

Release(w) ==
    /\ ReleasePermits(w)
    /\ UNCHANGED <<mode, threadVars, workVars, queueVars, levelVars, tagVars>>

Resume(w) ==
    /\ TakePermit(w)
    /\ UNCHANGED <<mode, threadVars, workVars, queueVars, levelVars, tagVars>>

-----------------------------------------------------------------------------

GetReadyReaction(w) == Exit(w) \/ ReadLevel(w) \/ Pop(w) \/ Take(w)

Execute(w) ==
    \/ RequestStop(w) \/ Invoke(w) \/ TriggerReaction(w) \/ ClaimSlot(w)
    \/ StoreReaction(w) \/ DoneWithReaction(w)

WaitForWork(w) ==
    \/ Block(w) \/ BlockLast(w) \/ ResetIndex(w) \/ StayAtTag(w) \/ Stop(w)
    \/ AdvanceTag(w) \/ EventsPopped(w) \/ Distribute(w) \/ NotifyWorkers(w)
    \/ Release(w) \/ Resume(w)

WorkerStep(w) == StartThread(w) \/ GetReadyReaction(w) \/ Execute(w) \/ WaitForWork(w)

Next == \E w \in Workers : WorkerStep(w)

Spec == Init /\ [][Next]_vars

\* The operating system runs every thread that can run; a reaction does not
\* call lf_request_stop for ever.
Fairness == \A w \in Workers :
    WF_vars(StartThread(w) \/ GetReadyReaction(w) \/ Invoke(w) \/ TriggerReaction(w)
            \/ ClaimSlot(w) \/ StoreReaction(w) \/ DoneWithReaction(w) \/ WaitForWork(w))

FairSpec == Spec /\ Fairness

-----------------------------------------------------------------------------

TypeOK ==
    /\ IdleTypeOK
    /\ mode \in [Workers -> Modes]
    /\ number \in [Workers -> 0 .. NumberOfWorkers - 1]
    /\ threads \in 0 .. NumberOfWorkers
    /\ running \in [Workers -> Reactions \cup {None}]
    /\ pending \in [Workers -> SUBSET Reactions]
    /\ inserting \in [Workers -> Reactions \cup {None}]
    /\ level \in [Workers -> Levels]
    /\ slot \in [Workers -> Int]
    /\ status \in [Reactions -> {"inactive", "queued"}]
    /\ index \in [Levels -> Int]
    /\ DOMAIN vector = Levels
    /\ \A l \in Levels : vector[l] \in [0 .. VectorSize(l) - 1 -> AtLevel(l) \cup {None}]
    /\ executing \in Levels
    /\ nextLevel \in 0 .. MaxLevel + 1
    /\ tag \in 0 .. stopTag /\ stopTag \in Nat /\ completed \in BOOLEAN

\* Two threads that are in the pool never have the same number, although a
\* thread takes the number of threads for its own and gives it back when it
\* ends: no thread can end before all have started.
NumbersDiffer ==
    \A v, w \in Workers :
        v # w /\ mode[v] \notin {"new", "exited"} /\ mode[w] \notin {"new", "exited"}
            => number[v] # number[w]

\* A worker that inserts a reaction has a slot of the vector to itself, which
\* is empty: the atomic index never is negative when a worker increments it
\* (the assertion of _lf_sched_insert_reaction), and never exceeds the size.
SlotIsFree ==
    \A w \in Workers : mode[w] = "store" =>
        LET l == Level[inserting[w]]
        IN  /\ slot[w] \in 0 .. VectorSize(l) - 1
            /\ vector[l][slot[w]] = None
            /\ \A v \in Workers \ {w} :
                  mode[v] = "store" /\ Level[inserting[v]] = l => slot[v] # slot[w]

\* The last worker wakes as many workers as the level has reactions (or all):
\* the index, which the workers may have driven below zero, is the number of
\* filled slots again.
NotifyCountsReactions ==
    \A w \in Workers : mode[w] = "notify" =>
        /\ index[executing] = Cardinality({i \in DOMAIN vector[executing] :
                                             vector[executing][i] # None})
        /\ index[executing] > 0

\* The level a worker pops is the one being executed, also if it read it some
\* steps ago.
LevelIsCurrent ==
    \A w \in Workers : mode[w] \in {"pop", "take"} =>
        level[w] = executing /\ executing = nextLevel - 1

\* Every thread ends, however the workers and their permits interleave.
Termination == <>(\A w \in Workers : mode[w] = "exited")

-----------------------------------------------------------------------------
(* The inductive invariants behind LevelIsCurrent and NumbersDiffer.       *)

\* Which modes a worker can be in at each phase of the hand-shake.
ModeOfPhase(w) ==
    /\ phase[w] \in {"blocked", "release"} => mode[w] = "get"
    /\ phase[w] = "last" <=>
          \/ mode[w] \in {"reset", "loop", "distribute", "notify"}
          \/ mode[w] \in {"trigger", "insert", "store"} /\ running[w] = None
    /\ running[w] # None => mode[w] \in {"invoke", "trigger", "insert", "store"}
    /\ mode[w] = "invoke" => running[w] # None

\* Between the advances of the last worker the vector being popped is that of
\* the level below the next one.
LevelsAgree ==
    \/ shouldStop
    \/ \E w \in Workers : phase[w] = "last" /\ mode[w] # "notify"
    \/ executing = nextLevel - 1

LevelInv ==
    /\ \A w \in Workers : ModeOfPhase(w)
    /\ LevelsAgree
    /\ LevelIsCurrent

\* Threads end only after the stop signal, and then all have started.
NumbersInv ==
    /\ \A w \in Workers : mode[w] = "exited" => shouldStop
    /\ shouldStop => \A w \in Workers : mode[w] # "new"
    /\ ~shouldStop => \A w \in Workers : mode[w] # "new" => number[w] < threads
    /\ NumbersDiffer

-----------------------------------------------------------------------------
(* The inductive invariant behind SlotIsFree, NotifyCountsReactions and    *)
(* the refinement: where every queued reaction is.                         *)

\* How many slots of a vector are in use is its index.  Those who use the slots
\* in between are storing (and have claimed a slot below the index) or taking
\* (and have got one that is not below it any more).
Storing(w, l, i) == mode[w] = "store" /\ Level[inserting[w]] = l /\ slot[w] = i
Taking(w, l, i) == mode[w] = "take" /\ executing = l /\ slot[w] = i

SlotsFilled ==
    \A l \in Levels : \A i \in 0 .. VectorSize(l) - 1 :
        vector[l][i] # None <=>
            \/ i < index[l] /\ \A w \in Workers : ~Storing(w, l, i)
            \/ \E w \in Workers : Taking(w, l, i)

SlotsClaimed ==
    /\ \A w \in Workers : mode[w] = "store" =>
          slot[w] >= 0 /\ slot[w] < index[Level[inserting[w]]]
    /\ \A v, w \in Workers :
          v # w /\ mode[v] = "store" /\ mode[w] = "store"
                /\ Level[inserting[v]] = Level[inserting[w]] => slot[v] # slot[w]

SlotsPopped ==
    /\ \A w \in Workers : mode[w] = "take" =>
          slot[w] \in 0 .. VectorSize(executing) - 1 /\ slot[w] >= index[executing]
    /\ \A v, w \in Workers :
          v # w /\ mode[v] = "take" /\ mode[w] = "take" => slot[v] # slot[w]

\* The reactions of a level that have a slot of its vector, or had one.
Slotted(l) ==
    {r \in AtLevel(l) :
        status[r] = "queued" /\ \A w \in Workers : mode[w] = "insert" => inserting[w] # r}

\* The level is done with: it is below the one to come, and is not executed any more.
Closed(l) ==
    /\ l < nextLevel
    /\ l = executing => \E w \in Workers : mode[w] \in {"loop", "distribute"}

\* The index of a level still to come counts its reactions, which are no more than
\* it has slots; a level that is done with has none left.
IndexCounts ==
    \A l \in Levels :
        /\ index[l] <= VectorSize(l)
        /\ l >= nextLevel => index[l] = Cardinality(Slotted(l))
        /\ Closed(l) => index[l] = 0 /\ \A r \in AtLevel(l) : status[r] = "inactive"

\* A worker without work has seen that the vector is empty, and the last one that
\* there is something in the next one.
WorkSeen ==
    \A w \in Workers :
        /\ mode[w] \in {"idle", "reset"} => index[executing] < 0
        /\ mode[w] = "notify" => index[executing] > 0

\* A queued reaction is in one place: a slot of its level, with a worker that runs
\* it, or with one that inserts it.
OnePlace ==
    /\ \A r \in Reactions :
          status[r] = "queued" <=>
              \/ \E i \in 0 .. VectorSize(Level[r]) - 1 : vector[Level[r]][i] = r
              \/ \E w \in Workers : running[w] = r \/ inserting[w] = r
    /\ \A l \in Levels : \A i, j \in 0 .. VectorSize(l) - 1 :
          vector[l][i] # None /\ vector[l][i] = vector[l][j] => i = j
    /\ \A l \in Levels : \A i \in 0 .. VectorSize(l) - 1 : \A w \in Workers :
          vector[l][i] # None => running[w] # vector[l][i] /\ inserting[w] # vector[l][i]
    /\ \A v, w \in Workers :
          /\ v # w /\ running[v] # None => running[v] # running[w]
          /\ v # w /\ inserting[v] # None => inserting[v] # inserting[w]
          /\ running[v] # None => running[v] # inserting[w]

\* Reactions run at the level being executed and trigger those above it; what the
\* last worker triggers may be of any level.
Upwards ==
    \A w \in Workers :
        /\ running[w] # None =>
              /\ Level[running[w]] = executing
              /\ \A r \in pending[w] : Level[r] > executing
              /\ inserting[w] # None => Level[inserting[w]] > executing
        /\ mode[w] \in {"trigger", "insert", "store"} /\ running[w] = None => nextLevel = 0
        /\ mode[w] = "reset" => executing = nextLevel - 1
        /\ inserting[w] # None <=> mode[w] \in {"insert", "store"}
        /\ pending[w] # {} => mode[w] \in {"trigger", "insert", "store"}

\* After the stop signal the workers are on their way out.
StopIsFinal == shouldStop => \A w \in Workers : mode[w] \in {"get", "exited"}

QueueInv ==
    /\ SlotsFilled /\ SlotsClaimed /\ SlotsPopped
    /\ IndexCounts /\ WorkSeen /\ OnePlace /\ Upwards /\ StopIsFinal

\* The pool is counted by the threads that have started and not ended.
InPool == {w \in Workers : mode[w] \notin {"new", "exited"}}
ThreadsCounted == threads = Cardinality(InPool)

NPInv == IdleInv /\ LevelInv /\ NumbersInv /\ QueueInv /\ ThreadsCounted

-----------------------------------------------------------------------------
(* What the scheduler promises.                                            *)

Active == {running[w] : w \in Workers} \ {None}

\* Queued, or to be queued by the worker that pops the events of a new tag.
Todo ==
    {r \in Reactions \ Active :
        \/ status[r] = "queued"
        \/ \E w \in Workers : phase[w] = "last" /\ r \in pending[w]}

Tags == INSTANCE TagExecution WITH
    Precedence <- {pair \in Reactions \X Reactions : Level[pair[1]] < Level[pair[2]]},
    TriggeredAtStart <- {AtStart(timeout) : timeout \in Timeouts},
    todo <- Todo,
    active <- Active

ImplementsTagExecution == Tags!Spec
=============================================================================
