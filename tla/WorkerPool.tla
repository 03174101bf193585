----------------------------- MODULE WorkerPool -----------------------------
(* The worker threads of a threaded program.                               *)
EXTENDS Integers, FiniteSets

CONSTANT Workers

ASSUME WorkersAssumption == IsFiniteSet(Workers) /\ Workers # {}

NumberOfWorkers == Cardinality(Workers)
=============================================================================
