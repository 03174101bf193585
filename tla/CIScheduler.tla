----------------------------- MODULE CIScheduler -----------------------------
(***************************************************************************)
(* The GEDF_NP_CI scheduler (core/threaded/scheduler_GEDF_NP_CI.c): there  *)
(* are no levels to wait for.  The last worker to go idle distributes the  *)
(* triggered reactions in the order of their indices, deadline before      *)
(* level; a reaction stays back if one of a lower level with a chain in    *)
(* common is among those distributed or kept back.                         *)
(***************************************************************************)
EXTENDS TagWorkers, IdleWorkers

CONSTANTS
    Index,      \* of each reaction, deadline and level in one number
    Chains      \* chain_id: the chains of dependencies each reaction is on

VARIABLES
    triggered,  \* _lf_sched_triggered_reactions
    output,     \* output_reactions of each worker
    ready       \* _lf_sched_executing_reactions, not yet taken

ciVars == <<triggered, output, ready>>
vars == <<idleVars, threadVars, ciVars>>

Init ==
    /\ IdleInit
    /\ ThreadsInit("get")
    /\ triggered = AtStart(stopTag)
    /\ output = [w \in Workers |-> {}]
    /\ ready = {}

-----------------------------------------------------------------------------
Exit(w) ==
    /\ phase[w] = "working" /\ mode[w] = "get" /\ shouldStop
    /\ Enter(w, "exited")
    /\ UNCHANGED <<idleVars, workVars, status, tagVars, ciVars>>

Pop(w) ==
    /\ phase[w] = "working" /\ mode[w] = "get" /\ ~shouldStop
    /\ IF ready = {} THEN Enter(w, "wait") /\ UNCHANGED <<running, ready>>
       ELSE \E r \in ready :
               /\ \A q \in ready : Index[r] <= Index[q]
               /\ Get(w, r)
               /\ ready' = ready \ {r}
    /\ UNCHANGED <<idleVars, pending, status, tagVars, triggered, output>>

TriggerReaction(w) ==
    /\ \E r \in pending[w] : Win(w, r) /\ output' = [output EXCEPT ![w] = @ \cup {r}]
    /\ UNCHANGED <<idleVars, mode, running, tagVars, triggered, ready>>

\* Mutant: the output queue is not emptied.
KeepOutput(w) ==
    /\ mode[w] = "wait"
    /\ triggered' = triggered \cup output[w]
    /\ Enter(w, "idle")
    /\ UNCHANGED <<idleVars, workVars, status, tagVars, output, ready>>

\* _lf_sched_wait_for_work: what the worker triggered is there for all.
UpdateTriggered(w) ==
    /\ mode[w] = "wait"
    /\ triggered' = triggered \cup output[w]
    /\ output' = [output EXCEPT ![w] = {}]
    /\ Enter(w, "idle")
    /\ UNCHANGED <<idleVars, workVars, status, tagVars, ready>>

Block(w) ==
    /\ mode[w] = "idle"
    /\ GoIdle(w)
    /\ Enter(w, "get")
    /\ UNCHANGED <<workVars, status, tagVars, ciVars>>

BlockLast(w) ==
    /\ mode[w] = "idle"
    /\ GoIdleLast(w)
    /\ Enter(w, "loop")
    /\ UNCHANGED <<workVars, status, tagVars, ciVars>>

\* _lf_sched_try_advance_tag_and_distribute, nothing is triggered: return true,
\* or the next tag.
Stop(w) ==
    /\ mode[w] = "loop" /\ triggered = {} /\ ShouldStop
    /\ SignalStop(w)
    /\ Enter(w, "get")
    /\ UNCHANGED <<workVars, status, tagVars, ciVars>>

AdvanceTag(w) ==
    /\ mode[w] = "loop" /\ triggered = {}
    /\ \E popped \in SUBSET Reactions :
          Advance(popped) /\ Queued(popped) /\ triggered' = Fresh(popped)
    /\ UNCHANGED <<idleVars, mode, workVars, output, ready>>

\* _lf_has_precedence_over
HasPrecedenceOver(q, r) == Level[q] < Level[r] /\ Chains[q] \cap Chains[r] # {}

\* Mutant: those that were kept back are not looked at.
BlockedByExecuting(r) ==
    \E q \in triggered :
        /\ Index[q] < Index[r] /\ HasPrecedenceOver(q, r)
        /\ ~\E p \in triggered : Index[p] < Index[q] /\ HasPrecedenceOver(p, q)

\* _lf_is_blocked_by_executing_or_blocked_reaction.  Nothing is ready at first, and
\* reactions are looked at in the order of their indices: those before r are, all of
\* them, among the executing ones or those that were kept back.  Reactions with the
\* same index have the same level, so it does not matter which of them comes first;
\* and none has precedence over those with the lowest index, which the code tests
\* before it searches the queues.
IsBlocked(r) == \E q \in triggered : Index[q] < Index[r] /\ HasPrecedenceOver(q, r)

\* _lf_sched_distribute_ready_reactions_locked
Distribute(w) ==
    LET distributed == {r \in triggered : ~IsBlocked(r)}
    IN  /\ mode[w] = "loop" /\ triggered # {}
        /\ ready' = ready \cup distributed
        /\ triggered' = triggered \ distributed
        /\ status' = [r \in Reactions |-> IF r \in distributed THEN "running" ELSE status[r]]
        /\ Enter(w, "notify")
        /\ UNCHANGED <<idleVars, workVars, tagVars, output>>

NotifyWorkers(w) ==
    /\ mode[w] = "notify"
    /\ LowerIdle(w, LET n == Cardinality(ready) IN IF idle < n THEN idle ELSE n)
    /\ Enter(w, "get")
    /\ UNCHANGED <<workVars, status, tagVars, ciVars>>

\* The steps of the hand-shake, and those that the scheduler has no part in.
Elsewhere(w) ==
    \/ (ReleasePermits(w) \/ TakePermit(w)) /\ UNCHANGED <<threadVars, ciVars>>
    \/ (Invoke(w) \/ Lose(w) \/ Done(w, "running", "get")) /\ UNCHANGED <<idleVars, ciVars>>

Step(w) ==
    \/ Exit(w) \/ Pop(w) \/ TriggerReaction(w) \/ UpdateTriggered(w)
    \/ Block(w) \/ BlockLast(w) \/ Stop(w) \/ AdvanceTag(w)
    \/ Distribute(w) \/ NotifyWorkers(w) \/ Elsewhere(w)

Next == \E w \in Workers : Step(w)

Spec == Init /\ [][Next]_vars

-----------------------------------------------------------------------------
\* A reaction that was triggered is in one queue, or in the hands of a worker:
\* when the last worker is about to advance the tag there is none.
OneQueue ==
    \A r \in Reactions :
        LET places == Cardinality({w \in Workers : r \in output[w]})
                        + Cardinality({w \in Workers : running[w] = r})
                        + (IF r \in triggered THEN 1 ELSE 0) + (IF r \in ready THEN 1 ELSE 0)
        IN  places = IF status[r] = "inactive" THEN 0 ELSE 1

\* What the code generator sees to: deadlines and chains are handed on upstream.
ChainsFollowEffects ==
    \A p \in Downstream : Index[p[1]] < Index[p[2]] /\ Chains[p[1]] \cap Chains[p[2]] # {}

-----------------------------------------------------------------------------
(* The inductive invariant behind them.                                    *)

WorkingModes == {"get", "exited", "invoke", "trigger", "wait", "idle"}
LastModes == {"loop", "notify"}

TypeOK ==
    /\ mode \in [Workers -> WorkingModes \cup LastModes]
    /\ running \in [Workers -> Reactions \cup {None}]
    /\ pending \in [Workers -> SUBSET Reactions]
    /\ output \in [Workers -> SUBSET Reactions]
    /\ status \in [Reactions -> {"inactive", "queued", "running"}]
    /\ tag \in Nat /\ stopTag \in Nat /\ completed \in BOOLEAN
    /\ triggered \in SUBSET Reactions /\ ready \in SUBSET Reactions

ModeOfPhase(w) ==
    /\ phase[w] = "working" => mode[w] \in WorkingModes
    /\ phase[w] = "last" => mode[w] \in LastModes
    /\ phase[w] \in {"release", "blocked"} => mode[w] = "get"
    /\ shouldStop => mode[w] \in {"get", "exited"}

\* A worker that goes idle has nothing in its hands, and found nothing ready.
Holding(w) ==
    /\ running[w] # None <=> mode[w] \in {"invoke", "trigger"}
    /\ running[w] # None => status[running[w]] = "running" /\ running[w] \notin ready
    /\ pending[w] # {} => mode[w] = "trigger"
    /\ output[w] # {} => phase[w] = "working" /\ mode[w] # "idle"
    /\ \A r \in output[w] : status[r] = "queued" /\ r \notin triggered
    /\ mode[w] \in {"wait", "idle", "loop"} => ready = {}

\* No two workers have the same reaction.
Apart(v, w) ==
    v # w => /\ running[v] # running[w] \/ running[v] = None
             /\ \A r \in output[v] : r \notin output[w]

QueuesHold ==
    /\ \A r \in triggered : status[r] = "queued"
    /\ \A r \in ready : status[r] = "running"
    /\ \A r \in Reactions :
          /\ status[r] = "queued" => r \in triggered \/ \E w \in Workers : r \in output[w]
          /\ status[r] = "running" => r \in ready \/ \E w \in Workers : running[w] = r

\* What is ready or runs is downstream of nothing that is executed or is to be.
ChainsHold ==
    \A q, r \in Reactions :
        /\ status[r] = "running"
        /\ status[q] # "inactive" \/ \E w \in Workers : q \in pending[w]
        => <<q, r>> \notin Downstream

CIInv ==
    /\ IdleInv
    /\ TypeOK
    /\ \A w \in Workers : ModeOfPhase(w) /\ Holding(w)
    /\ \A v, w \in Workers : Apart(v, w)
    /\ QueuesHold
=============================================================================
