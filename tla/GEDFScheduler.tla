---------------------------- MODULE GEDFScheduler ----------------------------
(***************************************************************************)
(* The GEDF_NP scheduler (core/threaded/scheduler_GEDF_NP.c): as NP, but   *)
(* each level has a priority queue and a mutex instead of a vector and an  *)
(* atomic index, and the reaction with the earliest deadline comes first.  *)
(***************************************************************************)
EXTENDS TagWorkers, IdleWorkers

CONSTANT Deadline   \* of each reaction, as the code generator propagates it

VARIABLES
    level,      \* current_level, a worker's copy
    inserting,  \* the reaction a worker is inserting
    queue,      \* _lf_sched_triggered_reactions
    executing,  \* the level of _lf_sched_executing_reactions
    nextLevel   \* _lf_sched_next_reaction_level

gedfVars == <<level, inserting, queue, executing, nextLevel>>
vars == <<idleVars, threadVars, gedfVars>>

Init ==
    /\ IdleInit
    /\ ThreadsInit("get")
    /\ level = [w \in Workers |-> 0]
    /\ inserting = [w \in Workers |-> None]
    /\ queue = [l \in Levels |-> {r \in AtStart(stopTag) : Level[r] = l}]
    /\ executing = 0
    /\ nextLevel = 1

-----------------------------------------------------------------------------
Exit(w) ==
    /\ phase[w] = "working" /\ mode[w] = "get" /\ shouldStop
    /\ Enter(w, "exited")
    /\ UNCHANGED <<idleVars, workVars, status, tagVars, gedfVars>>

ReadLevel(w) ==
    /\ phase[w] = "working" /\ mode[w] = "get" /\ ~shouldStop
    /\ level' = [level EXCEPT ![w] = nextLevel - 1]
    /\ Enter(w, "pop")
    /\ UNCHANGED <<idleVars, workVars, status, tagVars, inserting, queue, executing, nextLevel>>

Pop(w) ==
    /\ mode[w] = "pop"
    /\ IF queue[executing] = {}
       THEN Enter(w, "idle") /\ UNCHANGED <<running, queue>>
       ELSE \E r \in queue[executing] :
               /\ \A q \in queue[executing] : Deadline[r] <= Deadline[q]
               /\ queue' = [queue EXCEPT ![executing] = @ \ {r}]
               /\ Get(w, r)
    /\ UNCHANGED <<idleVars, pending, status, tagVars, level, inserting, executing, nextLevel>>

\* lf_sched_trigger_reaction: the status, then the queue of the level.
TriggerReaction(w) ==
    /\ \E r \in pending[w] : Win(w, r) /\ inserting' = [inserting EXCEPT ![w] = r]
    /\ Enter(w, "insert")
    /\ UNCHANGED <<idleVars, running, tagVars, level, queue, executing, nextLevel>>

InsertReaction(w) ==
    /\ mode[w] = "insert"
    /\ queue' = [queue EXCEPT ![Level[inserting[w]]] = @ \cup {inserting[w]}]
    /\ inserting' = [inserting EXCEPT ![w] = None]
    /\ Enter(w, "trigger")
    /\ UNCHANGED <<idleVars, workVars, status, tagVars, level, executing, nextLevel>>

Block(w) ==
    /\ mode[w] = "idle"
    /\ GoIdle(w)
    /\ Enter(w, "get")
    /\ UNCHANGED <<workVars, status, tagVars, gedfVars>>

BlockLast(w) ==
    /\ mode[w] = "idle"
    /\ GoIdleLast(w)
    /\ Enter(w, "loop")
    /\ UNCHANGED <<workVars, status, tagVars, gedfVars>>

\* _lf_sched_try_advance_tag_and_distribute
Stop(w) ==
    /\ mode[w] = "loop" /\ nextLevel = MaxLevel + 1 /\ ShouldStop
    /\ nextLevel' = 0
    /\ SignalStop(w)
    /\ Enter(w, "get")
    /\ UNCHANGED <<workVars, status, tagVars, level, inserting, queue, executing>>

\* Mutant: the next tag does not begin at level 0.
AdvanceWithoutReset(w) ==
    /\ mode[w] = "loop" /\ nextLevel = MaxLevel + 1
    /\ \E triggered \in SUBSET Reactions :
          /\ Advance(triggered) /\ Queued(triggered)
          /\ queue' = [l \in Levels |-> queue[l] \cup {r \in Fresh(triggered) : Level[r] = l}]
    /\ Enter(w, "distribute")
    /\ UNCHANGED <<idleVars, workVars, level, inserting, executing, nextLevel>>

AdvanceTag(w) ==
    /\ mode[w] = "loop" /\ nextLevel = MaxLevel + 1
    /\ nextLevel' = 0
    /\ \E triggered \in SUBSET Reactions :
          /\ Advance(triggered) /\ Queued(triggered)
          /\ queue' = [l \in Levels |-> queue[l] \cup {r \in Fresh(triggered) : Level[r] = l}]
    /\ Enter(w, "distribute")
    /\ UNCHANGED <<idleVars, workVars, level, inserting, executing>>

StayAtTag(w) ==
    /\ mode[w] = "loop" /\ nextLevel # MaxLevel + 1
    /\ Enter(w, "distribute")
    /\ UNCHANGED <<idleVars, workVars, status, tagVars, gedfVars>>

\* _lf_sched_distribute_ready_reactions: the next level with a reaction.
Distribute(w) ==
    LET ready == {l \in nextLevel .. MaxLevel : queue[l] # {}}
    IN  /\ mode[w] = "distribute"
        /\ \/ \E l \in ready :
                 /\ \A k \in ready : l <= k
                 /\ executing' = l /\ nextLevel' = l + 1
                 /\ Enter(w, "notify")
           \/ /\ ready = {}
              /\ nextLevel' = MaxLevel + 1
              /\ Enter(w, "loop") /\ UNCHANGED executing
        /\ UNCHANGED <<idleVars, workVars, status, tagVars, level, inserting, queue>>

NotifyWorkers(w) ==
    /\ mode[w] = "notify"
    /\ LowerIdle(w, LET n == Cardinality(queue[executing]) IN IF idle < n THEN idle ELSE n)
    /\ Enter(w, "get")
    /\ UNCHANGED <<workVars, status, tagVars, gedfVars>>

\* The steps of the hand-shake, and those that the scheduler has no part in.
Elsewhere(w) ==
    \/ (ReleasePermits(w) \/ TakePermit(w)) /\ UNCHANGED <<threadVars, gedfVars>>
    \/ (Invoke(w) \/ Lose(w) \/ Done(w, "queued", "get")) /\ UNCHANGED <<idleVars, gedfVars>>

Step(w) ==
    \/ Exit(w) \/ ReadLevel(w) \/ Pop(w) \/ TriggerReaction(w) \/ InsertReaction(w)
    \/ Block(w) \/ BlockLast(w) \/ Stop(w) \/ AdvanceTag(w) \/ StayAtTag(w)
    \/ Distribute(w) \/ NotifyWorkers(w) \/ Elsewhere(w)

Next == \E w \in Workers : Step(w)

Spec == Init /\ [][Next]_vars

-----------------------------------------------------------------------------
\* A reaction that was triggered is in the queue of its level, once, and the
\* workers come to that level yet.
NoneForgotten ==
    \A r \in Reactions : status[r] = "queued" =>
        \/ \E w \in Workers : running[w] = r \/ inserting[w] = r
        \/ r \in queue[Level[r]] /\ (Level[r] >= nextLevel \/ executing = Level[r])

-----------------------------------------------------------------------------
(* The inductive invariant behind them.                                    *)

WorkingModes == {"get", "exited", "pop", "idle", "invoke", "trigger", "insert"}
LastModes == {"loop", "distribute", "notify"}

TypeOK ==
    /\ mode \in [Workers -> WorkingModes \cup LastModes]
    /\ running \in [Workers -> Reactions \cup {None}]
    /\ inserting \in [Workers -> Reactions \cup {None}]
    /\ pending \in [Workers -> SUBSET Reactions]
    /\ status \in [Reactions -> {"inactive", "queued"}]
    /\ tag \in Nat /\ stopTag \in Nat /\ completed \in BOOLEAN
    /\ queue \in [Levels -> SUBSET Reactions]
    /\ executing \in Levels
    /\ nextLevel \in 0 .. MaxLevel + 1

ModeOfPhase(w) ==
    /\ phase[w] = "working" => mode[w] \in WorkingModes
    /\ phase[w] = "last" => mode[w] \in LastModes
    /\ phase[w] \in {"release", "blocked"} => mode[w] = "get"
    /\ shouldStop => mode[w] \in {"get", "exited"}

\* What a worker has in its hands: a reaction of the level that is executed, and
\* one of a higher level.
Holding(w) ==
    /\ running[w] # None <=> mode[w] \in {"invoke", "trigger", "insert"}
    /\ inserting[w] # None <=> mode[w] = "insert"
    /\ pending[w] # {} => mode[w] \in {"trigger", "insert"}
    /\ running[w] # None => status[running[w]] = "queued" /\ Level[running[w]] = executing
    /\ inserting[w] # None => status[inserting[w]] = "queued" /\ Level[inserting[w]] > executing
    /\ \A r \in pending[w] : Level[r] > executing

\* No two workers have the same reaction.
Apart(v, w) ==
    /\ running[v] # inserting[w] \/ running[v] = None
    /\ v # w => /\ running[v] # running[w] \/ running[v] = None
                /\ inserting[v] # inserting[w] \/ inserting[v] = None

QueuesHold ==
    /\ \A l \in Levels : \A r \in queue[l] :
          /\ Level[r] = l /\ status[r] = "queued"
          /\ \A w \in Workers : running[w] # r /\ inserting[w] # r
    /\ \A r \in Reactions : status[r] = "queued" =>
          r \in queue[Level[r]] \/ \E w \in Workers : running[w] = r \/ inserting[w] = r

\* The levels below the next one are done, but for the one that is executed.
LevelsHold ==
    /\ (\A w \in Workers : phase[w] # "last") /\ ~shouldStop => nextLevel = executing + 1
    /\ \A l \in Levels : queue[l] # {} => l >= nextLevel \/ (l = executing /\ nextLevel = executing + 1)
    /\ \A w \in Workers :
          /\ mode[w] = "loop" => nextLevel \in {executing + 1, MaxLevel + 1}
          /\ mode[w] = "notify" => nextLevel = executing + 1
          /\ mode[w] = "distribute" => nextLevel # MaxLevel + 1
          /\ mode[w] = "idle" => queue[executing] = {}
          /\ mode[w] \in {"loop", "distribute"} => \A l \in Levels : l < nextLevel => queue[l] = {}

GEDFInv ==
    /\ IdleInv
    /\ TypeOK
    /\ \A w \in Workers : ModeOfPhase(w) /\ Holding(w)
    /\ \A v, w \in Workers : Apart(v, w)
    /\ QueuesHold
    /\ LevelsHold
=============================================================================
