-------------------------- MODULE MCFederationStart --------------------------
(***************************************************************************)
(* What is launched on the host, for TLC.                                  *)
(***************************************************************************)
EXTENDS FederationStart

P(n, i, c) == [fed |-> n, id |-> i, copy |-> c]

\* These processes, without connections and without clock synchronization.
Launch(procs) ==
    LET federations == {p.fed : p \in procs} IN
    [size |-> [n \in federations |-> Cardinality({p.id : p \in {q \in procs : q.fed = n}})],
     procs |-> procs,
     peers |-> [p \in procs |-> <<>>], inbound |-> [p \in procs |-> 0],
     sync |-> [n \in federations |-> "off"],
     proposal |-> [p \in procs |-> p.id + 1],
     sends |-> {}, ends |-> FALSE, order |-> <<>>]

Pair == {P("a", 0, 1), P("a", 1, 1)}

\* Both connect to each other and to the RTI, and send messages through it.
Peers == [Launch(Pair) EXCEPT !.peers = [p \in Pair |-> <<1 - p.id>>],
                              !.inbound = [p \in Pair |-> 1],
                              !.sends = {"MSG"}, !.ends = TRUE]

\* One federate is launched twice.
Twins == [Launch(Pair \cup {P("a", 0, 2)}) EXCEPT !.sync["a"] = "init"]

\* Two federations on one host.
Two == [Launch({P("a", 0, 1), P("b", 0, 1)}) EXCEPT !.sync["a"] = "init"]

\* Clock synchronization is on.
Synced == [Launch(Pair) EXCEPT !.sync["a"] = "on", !.ends = FALSE,
                               !.order = <<P("a", 0, 1), P("a", 1, 1)>>]
SyncedAlone == [Launch({P("a", 0, 1)}) EXCEPT !.sync["a"] = "on", !.ends = TRUE,
                                              !.order = <<P("a", 0, 1)>>]

MCScenarios == {Peers, Twins, Two, Synced, SyncedAlone}

\* A federate asks to stop as soon as it runs.
StoppingScenarios == {[Launch(Pair) EXCEPT !.sends = {"STOP_REQUEST"}]}
=============================================================================
