----------------------------- MODULE TagWorkers -----------------------------
(***************************************************************************)
(* What the worker threads do between getting a reaction from their        *)
(* scheduler and reporting it done (core/threaded/reactor_threaded.c), and *)
(* how a tag advances (core/threaded/scheduler_sync_tag_advance.c), for    *)
(* the schedulers that keep reactions in queues: GEDF_NP, GEDF_NP_CI and   *)
(* ADAPTIVE.  A tag is the number of tags before it: which reactions its   *)
(* events trigger is up to Pops.                                           *)
(***************************************************************************)
EXTENDS WorkerPool

CONSTANTS
    Reactions,
    MaxLevel,           \* max_reaction_level
    Level,              \* LF_LEVEL(index) of each reaction
    Effects,            \* reaction -> the sets of reactions one run may trigger
    TriggeredAtStart,   \* by startup and by timers without offset
    Pops,               \* sets of reactions that the events of a tag trigger
    Shutdown,           \* reactions triggered at the stop tag
    Timeouts,           \* bounds: what stop_tag may be at first
    None                \* NULL

ASSUME TagWorkersAssumption ==
    /\ MaxLevel \in Nat /\ Level \in [Reactions -> 0 .. MaxLevel]
    /\ Effects \in [Reactions -> SUBSET SUBSET Reactions]
    /\ \A q \in Reactions : \A set \in Effects[q] : \A r \in set : Level[q] < Level[r]
    /\ TriggeredAtStart \subseteq Reactions /\ Shutdown \subseteq Reactions
    /\ Pops \subseteq SUBSET Reactions /\ Timeouts \subseteq Nat
    /\ None \notin Reactions

Levels == 0 .. MaxLevel
AtStart(timeout) == TriggeredAtStart \cup IF timeout = 0 THEN Shutdown ELSE {}

VARIABLES
    mode,       \* what each worker is doing, "invoke" and "trigger" among it
    running,    \* the reaction a worker executes
    pending,    \* reactions a worker has still to trigger
    status,     \* of each reaction
    tag,        \* current_tag
    stopTag,    \* stop_tag
    completed   \* _lf_logical_tag_completed

tagVars == <<tag, stopTag, completed>>
workVars == <<running, pending>>
threadVars == <<mode, workVars, status, tagVars>>

Enter(w, m) == mode' = [mode EXCEPT ![w] = m]

\* From here on a worker starts at mode m.
ThreadsInit(m) ==
    /\ stopTag \in Timeouts
    /\ mode = [w \in Workers |-> m]
    /\ running = [w \in Workers |-> None]
    /\ pending = [w \in Workers |-> {}]
    /\ status = [r \in Reactions |-> IF r \in AtStart(stopTag) THEN "queued" ELSE "inactive"]
    /\ tag = 0 /\ completed = FALSE

\* lf_sched_get_ready_reaction returns r.
Get(w, r) ==
    /\ running' = [running EXCEPT ![w] = r]
    /\ Enter(w, "invoke")

\* The worker runs its reaction, and goes on to trigger those downstream.
Invoke(w) ==
    /\ mode[w] = "invoke"
    /\ \E triggered \in Effects[running[w]] : pending' = [pending EXCEPT ![w] = triggered]
    /\ Enter(w, "trigger")
    /\ UNCHANGED <<running, status, tagVars>>

\* The compare-and-swap of lf_sched_trigger_reaction, which fails for a reaction
\* that is on its way already.
Wins(r) == status[r] = "inactive"

Lose(w) ==
    /\ mode[w] = "trigger"
    /\ \E r \in pending[w] : ~Wins(r) /\ pending' = [pending EXCEPT ![w] = @ \ {r}]
    /\ UNCHANGED <<mode, running, status, tagVars>>

Win(w, r) ==
    /\ mode[w] = "trigger" /\ r \in pending[w] /\ Wins(r)
    /\ pending' = [pending EXCEPT ![w] = @ \ {r}]
    /\ status' = [status EXCEPT ![r] = "queued"]

\* lf_sched_done_with_reaction; the code gives up if the status is not this one.
Done(w, was, next) ==
    /\ mode[w] = "trigger" /\ pending[w] = {}
    /\ status[running[w]] = was
    /\ status' = [status EXCEPT ![running[w]] = "inactive"]
    /\ running' = [running EXCEPT ![w] = None]
    /\ Enter(w, next)
    /\ UNCHANGED <<pending, tagVars>>

\* _lf_sched_should_stop_locked
ShouldStop == completed /\ tag >= stopTag

\* _lf_sched_advance_tag_locked, when it is not time to stop: the events of the
\* next tag trigger these reactions.  The first tag may be the stop tag.
Advance(triggered) ==
    /\ ~ShouldStop
    /\ completed' = TRUE
    /\ IF tag >= stopTag THEN triggered = {} /\ UNCHANGED <<tag, stopTag>>
       ELSE \E popped \in Pops \cup {{}}, noEvents \in BOOLEAN :
               /\ noEvents => popped = {}
               /\ tag' = tag + 1
               /\ stopTag' = IF noEvents THEN tag + 1 ELSE stopTag
               /\ triggered = popped \cup IF tag' >= stopTag' THEN Shutdown ELSE {}

\* Those of them that are not queued already.
Fresh(triggered) == {r \in triggered : Wins(r)}
Queued(triggered) ==
    status' = [r \in Reactions |-> IF r \in triggered /\ Wins(r) THEN "queued" ELSE status[r]]

-----------------------------------------------------------------------------
(* What a scheduler promises, for reactions that depend on each other.     *)

MayTrigger == {p \in Reactions \X Reactions : \E set \in Effects[p[1]] : p[2] \in set}

\* r runs downstream of q: it is in every set that contains what q may trigger and
\* what the members of the set may trigger.
Downstream ==
    {p \in Reactions \X Reactions : \A S \in SUBSET Reactions :
        (\A e \in MayTrigger : e[1] \in S \cup {p[1]} => e[2] \in S) => p[2] \in S}

LowerLevel == {p \in Reactions \X Reactions : Level[p[1]] < Level[p[2]]}

Active == {running[w] : w \in Workers} \ {None}
Todo == {r \in Reactions \ Active : status[r] # "inactive"}

\* Every reaction is executed at its tag, once, after those it is downstream of.
Tags == INSTANCE TagExecution WITH
    Precedence <- Downstream,
    TriggeredAtStart <- {AtStart(timeout) : timeout \in Timeouts},
    todo <- Todo,
    active <- Active
ImplementsTagExecution == Tags!Spec

\* The same, after all of lower levels: what a scheduler that waits for levels promises.
LevelTags == INSTANCE TagExecution WITH
    Precedence <- LowerLevel,
    TriggeredAtStart <- {AtStart(timeout) : timeout \in Timeouts},
    todo <- Todo,
    active <- Active
=============================================================================
