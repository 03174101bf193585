-------------------------------- MODULE MCNP ---------------------------------
(***************************************************************************)
(* NPScheduler on a diamond with a tail: a and b of level 0 trigger c and  *)
(* d of level 1, all of them may trigger e of level 2.                     *)
(***************************************************************************)
EXTENDS NPScheduler, TLC

DiamondLevel == [r \in {"a", "b", "c", "d", "e"} |->
    CASE r \in {"a", "b"} -> 0 [] r \in {"c", "d"} -> 1 [] OTHER -> 2]

DiamondEffects == [r \in {"a", "b", "c", "d", "e"} |->
    CASE r = "a" -> {{"c", "d"}, {"e"}}
      [] r = "b" -> {{"d"}}
      [] r \in {"c", "d"} -> {{"e"}, {}}
      [] OTHER -> {{}}]

DiamondPops == {{"a"}, {"c", "d"}}

\* The workers halt for good only when all have exited.
Done == (\A w \in Workers : mode[w] = "exited") /\ UNCHANGED vars

MCSpec == Init /\ [][Next \/ Done]_vars
MCFairSpec == MCSpec /\ Fairness
=============================================================================
