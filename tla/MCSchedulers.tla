---------------------------- MODULE MCSchedulers -----------------------------
(***************************************************************************)
(* The schedulers GEDF_NP, GEDF_NP_CI and ADAPTIVE on the same program.    *)
(* One of them is chosen at the start; the variables of the others keep    *)
(* their first values.                                                     *)
(***************************************************************************)
EXTENDS TagWorkers, TLC

CONSTANTS Deadline, Index, Chains, Hash, Spurious, Chosen

VARIABLES
    scheduler,                                                  \* the one chosen
    idle, permits, phase, awaken, shouldStop,                   \* of IdleWorkers
    level, inserting, queue, executing, nextLevel,              \* of GEDFScheduler
    triggered, output, ready,                                   \* of CIScheduler
    fast, current, count, slots, numWorkers, storing, victim,   \* of AdaptiveScheduler
    loose, awakened, counter, snapshot, owner, signalled, should_stop

G == INSTANCE GEDFScheduler
C == INSTANCE CIScheduler
A == INSTANCE AdaptiveScheduler

\* The code generator gives a reaction the deadline and the chains of those that
\* are downstream of it; no level is empty.
ASSUME SchedulersAssumption ==
    /\ C!ChainsFollowEffects
    /\ \A q, r \in Reactions : Index[q] = Index[r] => Level[q] = Level[r]
    /\ \A p \in Downstream : Deadline[p[1]] <= Deadline[p[2]]
    /\ A!WorkersNumbered /\ A!ProgramFits

idleVars == <<idle, permits, phase, awaken, shouldStop>>
gedfVars == <<level, inserting, queue, executing, nextLevel>>
ciVars == <<triggered, output, ready>>
adaptiveVars == <<fast, current, count, slots, numWorkers, storing, victim,
                  loose, awakened, counter, snapshot, owner, signalled, should_stop>>
vars == <<scheduler, threadVars, idleVars, gedfVars, ciVars, adaptiveVars>>

GEDFUnused == level = 0 /\ inserting = 0 /\ queue = 0 /\ executing = 0 /\ nextLevel = 0
CIUnused == triggered = 0 /\ output = 0 /\ ready = 0
AdaptiveUnused ==
    /\ fast = 0 /\ current = 0 /\ count = 0 /\ slots = 0 /\ numWorkers = 0 /\ storing = 0
    /\ victim = 0 /\ loose = 0 /\ awakened = 0 /\ counter = 0 /\ snapshot = 0 /\ owner = 0
    /\ signalled = 0 /\ should_stop = 0
IdleUnused == idle = 0 /\ permits = 0 /\ phase = 0 /\ awaken = 0 /\ shouldStop = 0

Init ==
    /\ scheduler \in Chosen
    /\ \/ scheduler = "GEDF_NP" /\ G!Init /\ CIUnused /\ AdaptiveUnused
       \/ scheduler = "GEDF_NP_CI" /\ C!Init /\ GEDFUnused /\ AdaptiveUnused
       \/ scheduler = "ADAPTIVE" /\ A!Init /\ GEDFUnused /\ CIUnused /\ IdleUnused

Step(w) ==
    /\ UNCHANGED scheduler
    /\ \/ scheduler = "GEDF_NP" /\ G!Step(w) /\ UNCHANGED <<ciVars, adaptiveVars>>
       \/ scheduler = "GEDF_NP_CI" /\ C!Step(w) /\ UNCHANGED <<gedfVars, adaptiveVars>>
       \/ scheduler = "ADAPTIVE" /\ A!Step(w) /\ UNCHANGED <<idleVars, gedfVars, ciVars>>

Ended == (\A w \in Workers : mode[w] = "exited") /\ UNCHANGED vars

Next == Ended \/ \E w \in Workers : Step(w)

\* The operating system runs every thread that can run.
FairSpec == Init /\ [][Next]_vars /\ \A w \in Workers : WF_vars(Step(w))

-----------------------------------------------------------------------------
\* a goes on with c, and b with d, and d with c or e.  The chains end at c and at e:
\* when a timer triggers a, d and e, then d is kept back for a, and e for d only.
MCLevel == [a |-> 0, b |-> 0, c |-> 2, d |-> 1, e |-> 2]
MCEffects == [a |-> {{"c"}, {}}, b |-> {{"d"}}, c |-> {{}}, d |-> {{"c"}, {"e"}}, e |-> {{}}]
MCDeadline == [a |-> 2, b |-> 3, c |-> 3, d |-> 3, e |-> 6]
MCIndex == [a |-> 20, b |-> 30, c |-> 32, d |-> 31, e |-> 62]
MCChains == [a |-> {1}, b |-> {1, 2}, c |-> {1}, d |-> {1, 2}, e |-> {2}]
MCHash == [a |-> 1, b |-> 0, c |-> 1, d |-> 0, e |-> 0]
MCPops == {{"a", "d", "e"}}

-----------------------------------------------------------------------------
\* Every thread ends; those of ADAPTIVE unless they go on for ever finding that
\* another is at their queue, and looking through all queues again because of it.
Termination ==
    \/ <>(\A w \in Workers : mode[w] = "exited")
    \/ []<>(scheduler = "ADAPTIVE" /\ \E w \in Workers : A!Disturbed(w))

\* A reaction that was triggered is in somebody's hands, or in one place that the
\* workers come to yet.
NothingLost ==
    /\ scheduler = "GEDF_NP" => G!NoneForgotten
    /\ scheduler = "GEDF_NP_CI" => C!OneQueue
    /\ scheduler = "ADAPTIVE" => A!WithinReach

\* The last of the loose threads of ADAPTIVE is alone: num_loose_threads is the
\* number of threads that do not wait.
LooseCounted == scheduler = "ADAPTIVE" => A!LooseCounted
=============================================================================
