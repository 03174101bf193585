---------------------------- MODULE TagExecution ----------------------------
(***************************************************************************)
(* What a scheduler of the runtime promises: every reaction triggered at a *)
(* tag is executed at that tag, once and not before the triggered          *)
(* reactions it depends on have finished; and the tag advances only when   *)
(* there is nothing left to execute.  How many threads do it is not seen.  *)
(***************************************************************************)
EXTENDS Naturals

CONSTANTS
    Reactions,
    Precedence,         \* pairs <<q, r>>: r must wait for q
    TriggeredAtStart    \* the sets of reactions the first tag may trigger

VARIABLES
    tag,        \* number of tags executed before the present one
    todo,       \* reactions triggered and not started
    active      \* reactions being executed

vars == <<tag, todo, active>>

Init == tag = 0 /\ todo \in TriggeredAtStart /\ active = {}

Start(r) ==
    /\ r \in todo
    /\ \A q \in todo \cup active : <<q, r>> \notin Precedence
    /\ todo' = todo \ {r}
    /\ active' = active \cup {r}
    /\ UNCHANGED tag

\* The reaction q triggers r, which may be to be executed already.
Trigger(q, r) ==
    /\ q \in active
    /\ r \notin active
    /\ todo' = todo \cup {r}
    /\ UNCHANGED <<tag, active>>

Finish(r) ==
    /\ r \in active
    /\ active' = active \ {r}
    /\ UNCHANGED <<tag, todo>>

Advance ==
    /\ todo = {} /\ active = {}
    /\ tag' = tag + 1
    /\ todo' \in SUBSET Reactions
    /\ UNCHANGED active

Next ==
    \/ \E r \in Reactions : Start(r) \/ Finish(r)
    \/ \E q, r \in Reactions : Trigger(q, r)
    \/ Advance

Spec == Init /\ [][Next]_vars
=============================================================================
