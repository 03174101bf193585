----------------------------- MODULE SyncBarrier -----------------------------
(***************************************************************************)
(* What SAC promises: "synchronize all workers until all execute SAC".     *)
(* Workers arrive one by one; once all wait, one of them opens the barrier *)
(* for all; nobody leaves it in any other way.                             *)
(***************************************************************************)
CONSTANT Workers

VARIABLE place  \* "running", "waiting" in the barrier, "released" from it

TypeOK == place \in [Workers -> {"running", "waiting", "released"}]

Init == place = [w \in Workers |-> "running"]

Arrive(w) ==
    /\ place[w] = "running"
    /\ place' = [place EXCEPT ![w] = "waiting"]

\* w runs on at once, the others when they are scheduled.
Open(w) ==
    /\ \A v \in Workers : place[v] = "waiting"
    /\ place' = [v \in Workers |-> IF v = w THEN "running" ELSE "released"]

Leave(w) ==
    /\ place[w] = "released"
    /\ place' = [place EXCEPT ![w] = "running"]

Next == \E w \in Workers : Arrive(w) \/ Open(w) \/ Leave(w)

Spec == Init /\ [][Next]_place
=============================================================================
