------------------------------ MODULE ClockSync ------------------------------
(***************************************************************************)
(* Clock synchronization between the RTI and its federates during          *)
(* execution (core/federated/clock-sync.c, clock_synchronization_thread of *)
(* core/federated/RTI/rti.c), over UDP: a packet is lost or arrives, maybe *)
(* late, in the order of sending.  Clock readings are replaced by the      *)
(* round they belong to; the arithmetic on them is in the first section.   *)
(* The timeouts of the sockets may expire at any moment.                   *)
(***************************************************************************)
EXTENDS Integers, Sequences

CONSTANTS
    Attempts,   \* the reads of one round, 5 in the code
    Exchanges,  \* _LF_CLOCK_SYNC_EXCHANGES_PER_INTERVAL
    MaxRounds   \* bound: rounds the RTI begins

ASSUME ClockSyncAssumption == Attempts \in Nat /\ Exchanges \in Nat

VARIABLES
    thread,     \* the RTI's clock_synchronization_thread
    listener,   \* listen_to_rti_UDP_thread of each federate
    down,       \* UDP packets to each federate
    up,         \* UDP packets to the RTI
    disturbed,  \* a packet was lost or waited for too long
    overdue     \* a packet of a round was still under way two rounds later

clockVars == <<thread, listener, down, up, disturbed, overdue>>

-----------------------------------------------------------------------------
\* handle_T4_clock_sync_message: the times t1, t2 are the snapshots of the T1
\* message, localDelay what passed until the T3 message was sent.
RoundTripDelay(t1, t4, localDelay) == (t4 - t1) - localDelay

\* Division by 2 rounds to zero.
Half(delay) == IF delay < 0 THEN -((-delay) \div 2) ELSE delay \div 2

EstimatedClockError(t1, t2, t4, localDelay) ==
    Half(RoundTripDelay(t1, t4, localDelay)) - (t2 - t1)

-----------------------------------------------------------------------------

\* The federates in the order of the RTI's array.
ClockInit(order) ==
    /\ thread = [order |-> order, pc |-> "off", at |-> 0, left |-> 0,
                 round |-> 0, any |-> FALSE]
    /\ listener = [f \in {order[i] : i \in DOMAIN order} |->
                    [pc |-> "T1",        \* waiting_for_T1, or "T4", or "probe"
                     T1 |-> 0,           \* round of the T1 snapshots
                     T4 |-> 0,           \* round the last T4 message answers
                     received |-> 0,     \* T4 messages in the current window
                     history |-> {},     \* samples summed up in history
                     offset |-> {}]]     \* those of the last adjustment
    /\ down = [f \in DOMAIN listener |-> <<>>]
    /\ up = <<>>
    /\ disturbed = FALSE /\ overdue = FALSE

\* What arrives of packets sent one after the other: those from some point on
\* are lost.
Arriving(packets) == {SubSeq(packets, 1, n) : n \in 0 .. Len(packets)}

Send(f, packets) ==
    \E some \in Arriving(packets) :
        /\ down' = [down EXCEPT ![f] = @ \o some]
        /\ disturbed' = (disturbed \/ some # packets)

Current == thread.order[thread.at]

\* The federate of the next turn, or the end of the round over all federates.
NextTurn(t) ==
    IF t.at < Len(t.order) THEN [t EXCEPT !.pc = "send", !.at = @ + 1]
    ELSE [t EXCEPT !.pc = IF t.any THEN "sleep" ELSE "done", !.at = 0]

\* The thread is created, and the start time comes.
StartThread ==
    /\ thread.pc = "off"
    /\ thread' = [thread EXCEPT !.pc = "sleep", !.any = TRUE]
    /\ UNCHANGED <<listener, down, up, disturbed, overdue>>

\* The period is over: a round begins.
BeginRound ==
    /\ thread.pc = "sleep" /\ thread.round < MaxRounds
    /\ thread' = NextTurn([thread EXCEPT !.any = FALSE, !.round = @ + 1])
    /\ UNCHANGED <<listener, down, up, disturbed, overdue>>

\* The rounds of the T1 messages on their way to a federate and of its answers.
UnderWay(f) ==
    {down[f][i].round : i \in {j \in DOMAIN down[f] : down[f][j].type = "T1"}}
        \cup {up[i].round : i \in {j \in DOMAIN up : up[j].from = f}}

\* send_physical_clock(T1), to the federates that are connected and enabled.
SendT1(enabled) ==
    /\ thread.pc = "send" /\ UNCHANGED <<listener, up>>
    /\ overdue' = (overdue \/ \E round \in UnderWay(Current) : round < thread.round - 1)
    /\ IF Current \in enabled
       THEN /\ thread' = [thread EXCEPT !.pc = "read", !.left = Attempts]
            /\ Send(Current, <<[type |-> "T1", round |-> thread.round]>>)
       ELSE /\ thread' = NextTurn(thread)
            /\ UNCHANGED <<down, disturbed>>

\* Mutant: an answer does not show that a federate is connected.
ReadT3Unnoted(enabled) ==
    /\ thread.pc = "read" /\ up # <<>> /\ up' = Tail(up) /\ UNCHANGED <<listener, overdue>>
    /\ Head(up).from = Current
    /\ thread' = NextTurn([thread EXCEPT !.left = @ - 1])
    /\ Send(Current, IF Current \notin enabled THEN <<>>
                     ELSE <<[type |-> "T4", round |-> Head(up).round],
                            [type |-> "probe", round |-> Head(up).round]>>)

\* A T3 message is read: the one of the federate waited for is answered with
\* T4 and the coded probe, another one is dropped.  An answer to the last
\* attempt does not show that a federate is connected.
ReadT3(enabled) ==
    /\ thread.pc = "read" /\ up # <<>> /\ up' = Tail(up) /\ UNCHANGED <<listener, overdue>>
    /\ LET t == [thread EXCEPT !.left = @ - 1]
           T3 == Head(up)
       IN  \/ /\ T3.from = Current
              /\ thread' = NextTurn([t EXCEPT !.any = @ \/ t.left > 0])
              /\ Send(Current, IF Current \notin enabled THEN <<>>
                               ELSE <<[type |-> "T4", round |-> T3.round],
                                      [type |-> "probe", round |-> T3.round]>>)
           \/ /\ T3.from # Current
              /\ thread' = IF t.left > 0 THEN t ELSE NextTurn(t)
              /\ UNCHANGED <<down, disturbed>>

\* The read times out, and the federate is given up for this round.
ReadTimeout(gone) ==
    /\ thread.pc = "read"
    /\ thread' = NextTurn(thread)
    /\ disturbed' = (disturbed \/ Current \notin gone
                        \/ \E i \in DOMAIN up : up[i].from = Current)
    /\ UNCHANGED <<listener, down, up, overdue>>

-----------------------------------------------------------------------------
\* listen_to_rti_UDP_thread of federate f.

\* It receives a packet of one of these types.
Receives(f, types) ==
    /\ down[f] # <<>> /\ Head(down[f]).type \in types
    /\ down' = [down EXCEPT ![f] = Tail(@)]
    /\ UNCHANGED <<thread, overdue>>

\* Mutant: a T1 message is taken while a T4 message is waited for.
HandleAnyT1(f) ==
    /\ listener[f].pc \in {"T1", "T4"} /\ Receives(f, {"T1"})
    /\ listener' = [listener EXCEPT ![f].pc = "T4", ![f].T1 = Head(down[f]).round]
    /\ up' = Append(up, [from |-> f, round |-> Head(down[f]).round])
    /\ UNCHANGED disturbed

\* handle_T1_clock_sync_message
HandleT1(f) ==
    /\ listener[f].pc = "T1" /\ Receives(f, {"T1"})
    /\ listener' = [listener EXCEPT ![f].pc = "T4", ![f].T1 = Head(down[f]).round]
    /\ \E some \in Arriving(<<[from |-> f, round |-> Head(down[f]).round]>>) :
        /\ up' = up \o some
        /\ disturbed' = (disturbed \/ some = <<>>)

\* handle_T4_clock_sync_message, up to its wait for the coded probe.
HandleT4(f) ==
    /\ listener[f].pc = "T4" /\ Receives(f, {"T4"})
    /\ listener' = [listener EXCEPT ![f].pc = "probe", ![f].received = @ + 1,
                                    ![f].T4 = Head(down[f]).round]
    /\ UNCHANGED <<up, disturbed>>

\* Any other packet is dropped, and ends the wait for T4.
DropPacket(f) ==
    /\ \/ listener[f].pc = "T1" /\ Receives(f, {"T4", "probe"})
       \/ listener[f].pc = "T4" /\ Receives(f, {"T1", "probe"})
    /\ listener' = [listener EXCEPT ![f].pc = "T1"]
    /\ UNCHANGED <<up, disturbed>>

\* reset_socket_stat
Reset(l) == [l EXCEPT !.received = 0, !.history = {}]

\* The coded probe: "congested" when its distance reaches the guard band,
\* "noisy" when the standard deviation of the window does.
AfterProbe(waiting, congested, noisy) ==
    LET l == [waiting EXCEPT !.pc = "T1"]
        sum == [l EXCEPT !.history = @ \cup {<<l.T1, l.T4>>}]
    IN  IF congested THEN [l EXCEPT !.received = @ - 1]
        ELSE IF l.received < Exchanges THEN sum
        ELSE IF noisy THEN Reset(sum)
        ELSE [Reset(sum) EXCEPT !.offset = sum.history]

HandleProbe(f) ==
    /\ listener[f].pc = "probe" /\ Receives(f, {"probe"})
    /\ \E congested, noisy \in BOOLEAN :
        listener' = [listener EXCEPT ![f] = AfterProbe(@, congested, noisy)]
    /\ UNCHANGED <<up, disturbed>>

\* The probe does not come in time, or something else is read in its place.
NoProbe(f) ==
    /\ listener[f].pc = "probe"
    /\ \/ Receives(f, {"T1", "T4"}) /\ UNCHANGED disturbed
       \/ disturbed' = TRUE /\ UNCHANGED <<thread, down, overdue>>
    /\ listener' = [listener EXCEPT ![f].pc = "T1"]
    /\ UNCHANGED up

Listener(f) ==
    HandleT1(f) \/ HandleT4(f) \/ DropPacket(f) \/ HandleProbe(f) \/ NoProbe(f)

-----------------------------------------------------------------------------

\* The clock thread and the listeners by themselves: which federates are connected
\* and enabled is up to the federation.
ClockNext ==
    \/ StartThread \/ BeginRound
    \/ \E enabled, gone \in SUBSET DOMAIN listener :
          SendT1(enabled) \/ ReadT3(enabled) \/ ReadTimeout(gone)
    \/ \E f \in DOMAIN listener : Listener(f)

-----------------------------------------------------------------------------

\* "Calculate the round trip delay from T1 to T4": the T4 reading of a sample was
\* taken in answer to the T3 message that its T1 reading caused.
SamplesAreRoundTrips ==
    \A f \in DOMAIN listener :
        \A s \in listener[f].history \cup listener[f].offset : s[1] = s[2]

\* It was, as long as no packet takes longer than the round after its own, whichever
\* packets are lost.
RoundTripsInTime == overdue \/ SamplesAreRoundTrips

-----------------------------------------------------------------------------
(* The inductive invariant behind it.                                      *)

Packets == [type : {"T1", "T4", "probe"}, round : Nat]
Listeners == [pc : {"T1", "T4", "probe"}, T1 : Nat, T4 : Nat, received : Int,
              history : SUBSET (Nat \X Nat), offset : SUBSET (Nat \X Nat)]

ClockThreads(federates) ==
    [order : Seq(federates), pc : {"off", "sleep", "send", "read", "done"},
     at : Nat, left : Int, round : Nat, any : BOOLEAN]

ClockTypeOK ==
    /\ thread \in ClockThreads(DOMAIN listener)
    /\ thread.pc \in {"off", "sleep"} => thread.at = 0
    /\ thread.pc \in {"send", "read"} => thread.at \in DOMAIN thread.order
    /\ listener \in [DOMAIN listener -> Listeners]
    /\ down \in [DOMAIN listener -> Seq(Packets)]
    /\ up \in Seq([from : DOMAIN listener, round : Nat])
    /\ overdue \in BOOLEAN

\* The RTI serves every federate, once in a round.
EachOnce ==
    /\ \A f \in DOMAIN listener : \E k \in DOMAIN thread.order : thread.order[k] = f
    /\ \A j, k \in DOMAIN thread.order : thread.order[j] = thread.order[k] => j = k

\* The last round in which the k-th federate had its turn.
LastTurn(k) ==
    IF \/ thread.pc = "send" /\ thread.at <= k
       \/ thread.pc = "read" /\ thread.at < k
    THEN thread.round - 1
    ELSE thread.round

\* Of the packets d on their way to a federate that has handled T1, the T1 messages
\* are later ones, in the order of the rounds, and a probe follows its T4 message.
InOrder(d, T1, last) ==
    /\ T1 <= last
    /\ \A i \in DOMAIN d :
          /\ d[i].type = "T1" => T1 < d[i].round /\ d[i].round <= last
          /\ d[i].type = "T4" => d[i].round <= T1
          /\ d[i].type = "probe" /\ i > 1 => d[i - 1].type = "T4"
    /\ \A i, j \in DOMAIN d :
          i < j /\ d[i].type = "T1" /\ d[j].type = "T1" => d[i].round < d[j].round

\* No packet takes longer than the round after its own.
Recent(d, last) == \A i \in DOMAIN d : d[i].type = "T1" => d[i].round >= last - 1

\* A T4 message that finds the listener waiting for it is of the round it waits for.
Matched(l, d) ==
    \A i \in DOMAIN d : d[i].type = "T4" =>
        /\ i = 1 /\ l.pc = "T4" => d[i].round = l.T1
        /\ i > 1 /\ d[i - 1].type = "T1" =>
              d[i - 1].round = d[i].round \/ (i = 2 /\ l.pc = "T4")

Sampled(l) ==
    /\ l.pc = "probe" => l.T1 = l.T4
    /\ \A s \in l.history \cup l.offset : s[1] = s[2]

\* A federate in state l, to which the packets d are under way.
InTime(l, d, last) ==
    InOrder(d, l.T1, last) /\ Recent(d, last) /\ Matched(l, d) /\ Sampled(l)

\* While the answer of a federate is under way it has not gone on: it waits for T4,
\* or has given up waiting because of the T1 message of the next round.
Answering(l, d, last) ==
    /\ l.T1 >= last - 1
    /\ \/ /\ l.pc = "T4"
          /\ d = <<>> \/ (Len(d) = 1 /\ d[1].type = "T1")
       \/ l.pc = "T1" /\ d = <<>> /\ last = l.T1 + 1

AnswersHold(k) ==
    \A j \in DOMAIN up : up[j].from = thread.order[k] =>
        /\ up[j].round = listener[thread.order[k]].T1
        /\ Answering(listener[thread.order[k]], down[thread.order[k]], LastTurn(k))

OneAnswer == \A i, j \in DOMAIN up : up[i].from = up[j].from => i = j

ClockInv ==
    /\ ClockTypeOK /\ EachOnce
    /\ overdue \/ /\ OneAnswer
                  /\ \A k \in DOMAIN thread.order :
                        /\ InTime(listener[thread.order[k]], down[thread.order[k]], LastTurn(k))
                        /\ AnswersHold(k)
=============================================================================
