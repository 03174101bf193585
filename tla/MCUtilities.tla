---------------------------- MODULE MCUtilities -----------------------------
(***************************************************************************)
(* The parts of the runtime that keep state and run by themselves: the     *)
(* semaphore, vectors, sets of pointers, the trace, and the rounds of      *)
(* clock synchronization with two federates that have started.  One of     *)
(* them is used, the variables of the others keep their first values.      *)
(***************************************************************************)
EXTENDS Semaphore, ClockSync, TLC

CONSTANTS
    Elements, Garbage, FirstRequired, MaxSize,                  \* of Vector
    Items, LargestCapacity,                                     \* of HashSet
    Tracers, Outsiders, BufferCapacity, MaxRecords              \* of Trace

ASSUME UtilitiesAssumption ==
    /\ Garbage \notin Elements /\ Nobody \notin Tracers \cup Outsiders
    /\ 0 \in Tracers /\ Outsiders \cap Tracers = {} /\ BufferCapacity \in Nat \ {0}
    /\ Items \cap {0, 1} = {}

VARIABLES
    utility,                                                    \* the one used
    memory, size, votes, required, contents,                    \* of Vector
    table, nitems, deleted, members,                            \* of HashSet
    doing, mutex, used, buffer, place, file, open, headed, stopped, traced

V == INSTANCE Vector WITH FirstCapacity <- 1
H == INSTANCE HashSet WITH FirstCapacity <- 2
T == INSTANCE Trace

vectorVars == <<memory, size, votes, required, contents>>
setVars == <<table, nitems, deleted, members>>
traceVars == <<doing, mutex, used, buffer, place, file, open, headed, stopped, traced>>

MCInit ==
    /\ utility \in {"semaphore", "vector", "set", "trace", "clock"}
    /\ Init /\ V!Init /\ H!Init /\ ClockInit(<<"f", "g">>)
    /\ T!Init /\ (open \/ utility = "trace")

MCNext ==
    /\ UNCHANGED utility
    /\ \/ utility = "semaphore" /\ Next
          /\ UNCHANGED <<vectorVars, setVars, traceVars, clockVars>>
       \/ utility = "vector" /\ V!Next /\ UNCHANGED <<vars, setVars, traceVars, clockVars>>
       \/ utility = "set" /\ H!Next /\ UNCHANGED <<vars, vectorVars, traceVars, clockVars>>
       \/ utility = "trace" /\ T!Next /\ UNCHANGED <<vars, vectorVars, setVars, clockVars>>
       \/ utility = "clock" /\ ClockNext /\ UNCHANGED <<vars, vectorVars, setVars, traceVars>>

MCSpec == MCInit /\ [][MCNext]_<<utility, vars, vectorVars, setVars, traceVars, clockVars>>

-----------------------------------------------------------------------------
\* A vector keeps what was put into it while it grows and shrinks.
VectorKeepsContents == V!VectorKeepsContents

\* A set of pointers finds what was added and not removed, and nothing else.
HashSetHolds == H!HashSetHolds

\* No record of a buffer with one writer is lost, written twice or out of order.
TraceComplete == T!TraceComplete
=============================================================================
