---------------------------- MODULE FederationStart ----------------------------
(***************************************************************************)
(* How federations start (core/federated/RTI/rti.c from start_rti_server   *)
(* to wait_for_federates, and the connecting half of                       *)
(* core/federated/federate.c).  Several federations share one host: each   *)
(* RTI takes the first free port of a range, the federates knock at the    *)
(* ports until their own RTI acknowledges them, tell it their neighbours,  *)
(* synchronize their clocks, open a server and connect to each other, and  *)
(* agree on a start time.  Messages may then pass through the RTI.         *)
(*                                                                         *)
(* What is launched is left to a scenario, chosen at the start.  The       *)
(* bounded retries of a federate are taken as unbounded.                   *)
(***************************************************************************)
EXTENDS ClockSync, FiniteSets, SequencesExt

CONSTANTS
    RangeLimit,         \* PORT_RANGE_LIMIT; STARTING_PORT is 0
    DELAY_START,
    Scenarios
    \* Each has: size (federation -> number_of_federates), procs (the federate
    \* processes: records of fed, the federation, id and copy, a number),
    \* peers (process -> sequence of the ids it connects to), inbound (process
    \* -> number of inbound connections), sync (federation -> "off", "init" or
    \* "on"), proposal (process -> physical time), sends (types of messages), ends
    \* (whether federates resign), order (the processes clock synchronization
    \* serves).

\* Every federation has an RTI and federates, which connect to federates of their own.
\* The RTI has every federate once in its array.
ASSUME ScenariosAssumption ==
    \A s \in Scenarios :
        /\ s.size \in [DOMAIN s.size -> Nat \ {0}] /\ "none" \notin DOMAIN s.size
        /\ s.proposal \in [s.procs -> Nat]
        /\ \A p \in s.procs :
              /\ p.fed \in DOMAIN s.size
              /\ s.peers[p] \in Seq(0 .. s.size[p.fed] - 1)
        /\ s.sends \subseteq {"MSG", "STOP_REQUEST"}
        /\ s.order \in Seq(s.procs)
        /\ \A j, k \in DOMAIN s.order : s.order[j] = s.order[k] => j = k

ASSUME StartAssumption == RangeLimit \in Nat /\ DELAY_START \in Nat

\* The clock thread gives up a federate after more than one attempt (rti.c has 5). It is
\* that of one federation, and serves ids: each process in its order is the only one
\* that is launched with its id.
ASSUME SyncAssumption ==
    /\ Attempts > 1
    /\ \A s \in Scenarios :
          /\ \A n, m \in DOMAIN s.size : s.sync[n] = "on" /\ s.sync[m] = "on" => n = m
          /\ \A p \in ToSet(s.order) :
                /\ s.sync[p.fed] = "on" /\ p.id \in 0 .. s.size[p.fed] - 1
                /\ \A q \in s.procs : q.fed = p.fed /\ q.id = p.id => q = p

VARIABLES
    scenario,
    port,       \* port -> the RTI or process that listens there, or NoOne
    backlog,    \* RTI or process -> connections waiting to be accepted
    rti,        \* the state of each RTI
    proc,       \* the state of each federate process
    toProc,     \* process -> what its RTI or peer has written to it
    toRTI       \* process -> what it has written to its RTI

startVars == <<scenario, port, backlog, rti, proc, toProc, toRTI>>
vars == <<startVars, clockVars>>

NoPort == -1

\* Who may listen: an RTI, or a process.
RTIOf(n) == [fed |-> n, id |-> -1, copy |-> 0]
NoOne == RTIOf("none")
Ports == 0 .. RangeLimit + 1

Federations == DOMAIN scenario.size
Procs == scenario.procs
Ids(n) == 0 .. scenario.size[n] - 1

\* initialize_federate, for each; i is the number of federates connected.
InitRTIServer(size) ==
    [pc |-> "down", i |-> 0, with |-> NoOne, left |-> 0,
     state |-> [i \in 0 .. size - 1 |-> "NOT_CONNECTED"],
     socket |-> [i \in 0 .. size - 1 |-> NoOne],
     server |-> [i \in 0 .. size - 1 |-> NoPort],   \* server_port
     enabled |-> [i \in 0 .. size - 1 |-> TRUE],    \* clock_synchronization_enabled
     served |-> {},         \* processes whose federate_thread_TCP runs
     proposing |-> {},      \* those whose thread waits in handle_timestamp
     answered |-> {},       \* those among them that have got the start time
     proposed |-> 0, maxStart |-> 0,
     responder |-> "off"]   \* its thread: "on", then "over" if accept() times out

InitProc == [pc |-> "connect", uport |-> 0, left |-> 0, next |-> 1,
             peerPort |-> NoPort, accepted |-> 0, start |-> 0]

Init ==
    /\ scenario \in Scenarios
    /\ port = [p \in Ports |-> NoOne]
    /\ backlog = [o \in {RTIOf(n) : n \in Federations} \cup Procs |-> <<>>]
    /\ rti = [n \in Federations |-> InitRTIServer(scenario.size[n])]
    /\ proc = [p \in Procs |-> InitProc]
    /\ toProc = [p \in Procs |-> <<>>]
    /\ toRTI = [p \in Procs |-> <<>>]
    /\ ClockInit(scenario.order)

-----------------------------------------------------------------------------

Message(type, data) == [type |-> type, data |-> data]
Tell(p, type, data) ==
    toProc' = [toProc EXCEPT ![p] = Append(@, Message(type, data))]
Hears(p, type) ==
    /\ toProc[p] # <<>> /\ Head(toProc[p]).type = type
    /\ toProc' = [toProc EXCEPT ![p] = Tail(@)]
Data(p) == Head(toProc[p]).data

Write(p, messages) == toRTI' = [toRTI EXCEPT ![p] = @ \o messages]
Reads(n, p, type) ==
    /\ toRTI[p] # <<>> /\ Head(toRTI[p]).type = type
    /\ toRTI' = [toRTI EXCEPT ![p] = Tail(@)]

\* create_server: the first free port, if there is one.
Listen(owner) ==
    \E p \in Ports :
        /\ port[p] = NoOne /\ \A q \in Ports : q < p => port[q] # NoOne
        /\ port' = [port EXCEPT ![p] = owner]

\* The server of an owner closes, with the connections nobody has accepted.
Close(owner) ==
    /\ port' = [p \in Ports |-> IF port[p] = owner THEN NoOne ELSE port[p]]
    /\ backlog' = [backlog EXCEPT ![owner] = <<>>]
    /\ toProc' = [p \in Procs |-> IF p \in ToSet(backlog[owner])
                                  THEN Append(toProc[p], Message("CLOSED", 0))
                                  ELSE toProc[p]]

\* connect() to a port: it waits in the backlog of whoever listens there.
Queue(p, at) ==
    backlog' = [backlog EXCEPT ![port[at]] = Append(@, p)]
Listens(at) == at \in Ports /\ port[at] # NoOne

-----------------------------------------------------------------------------
\* The federate process p.

Is(p, pc) == p \in Procs /\ proc[p].pc = pc /\ UNCHANGED <<scenario, clockVars>>
Goes(p, pc) == proc' = [proc EXCEPT ![p].pc = pc]

\* Mutant: the scan of the ports starts above the first one when it is repeated.
ConnectAbove(p) ==
    /\ Is(p, "connect")
    /\ LET at == proc[p].uport IN
        IF Listens(at)
        THEN Queue(p, at) /\ Goes(p, "await")
        ELSE /\ proc' = [proc EXCEPT ![p].uport = IF at < RangeLimit THEN at + 1 ELSE 1]
             /\ UNCHANGED backlog
    /\ UNCHANGED <<port, rti, toProc, toRTI>>

\* connect_to_rti: knock at a port.  The scan is over the range and starts
\* again after it.
Connect(p) ==
    /\ Is(p, "connect")
    /\ LET at == proc[p].uport
           next == IF at <= RangeLimit THEN at + 1 ELSE at
       IN  IF Listens(at)
           THEN Queue(p, at) /\ Goes(p, "await")
           ELSE /\ proc' = [proc EXCEPT ![p].uport =
                                IF next = RangeLimit + 1 THEN 0 ELSE next]
                /\ UNCHANGED backlog
    /\ UNCHANGED <<port, rti, toProc, toRTI>>

\* The answer to MSG_TYPE_FED_IDS.  The wrong RTI makes it try the next port.
Answered(p) ==
    /\ Is(p, "await")
    /\ \/ /\ Hears(p, "ACK")
          /\ Write(p, <<Message("NEIGHBORS", 0),
                        Message("UDP_PORT", scenario.sync[p.fed])>>)
          /\ proc' = [proc EXCEPT ![p].left = Exchanges,
                ![p].pc = IF scenario.sync[p.fed] = "off" THEN "serve" ELSE "T1"]
       \/ /\ Hears(p, "REJECT") /\ UNCHANGED toRTI
          /\ IF Data(p) \in {"FEDERATION_ID_DOES_NOT_MATCH", "WRONG_SERVER"}
             THEN proc' = [proc EXCEPT ![p].uport = @ + 1, ![p].pc = "connect"]
             ELSE Goes(p, "quit")
       \/ Hears(p, "CLOSED") /\ Goes(p, "quit") /\ UNCHANGED toRTI
    /\ UNCHANGED <<port, backlog, rti>>

\* synchronize_initial_physical_clock_with_rti
InitialSync(p) ==
    /\ \/ Is(p, "T1") /\ Hears(p, "T1") /\ Goes(p, "T4")
          /\ Write(p, <<Message("T3", p.id)>>)
       \/ /\ Is(p, "T4") /\ Hears(p, "T4") /\ UNCHANGED toRTI
          /\ proc' = [proc EXCEPT ![p].left = @ - 1,
                ![p].pc = IF proc[p].left > 1 THEN "T1" ELSE "serve"]
    /\ UNCHANGED <<port, backlog, rti>>

\* create_server, when other federates connect to this one.
Serve(p) ==
    /\ Is(p, "serve") /\ Goes(p, "peers")
    /\ IF scenario.inbound[p] > 0
       THEN /\ Listen(p)
            /\ Write(p, <<Message("ADDRESS_AD", CHOOSE q \in Ports : port'[q] = p)>>)
       ELSE UNCHANGED <<port, toRTI>>
    /\ UNCHANGED <<backlog, rti, toProc>>

\* connect_to_federate: ask for the port until it is known, then connect, as
\* often as it takes; afterwards get_start_time_from_rti.
QueryPeer(p) ==
    /\ Is(p, "peers")
    /\ IF proc[p].next <= Len(scenario.peers[p])
       THEN /\ Write(p, <<Message("QUERY", scenario.peers[p][proc[p].next])>>)
            /\ Goes(p, "port")
       ELSE /\ Write(p, <<Message("TIMESTAMP", scenario.proposal[p])>>)
            /\ Goes(p, "start")
    /\ UNCHANGED <<port, backlog, rti, toProc>>

PeerPort(p) ==
    /\ Is(p, "port") /\ Hears(p, "PORT")
    /\ proc' = [proc EXCEPT ![p].peerPort = Data(p),
                    ![p].pc = IF Data(p) = NoPort THEN "peers" ELSE "knock"]
    /\ UNCHANGED <<port, backlog, rti, toRTI>>

ConnectPeer(p) ==
    /\ Is(p, "knock") /\ Listens(proc[p].peerPort)
    /\ Queue(p, proc[p].peerPort) /\ Goes(p, "peer")
    /\ UNCHANGED <<port, rti, toProc, toRTI>>

PeerAnswered(p) ==
    /\ Is(p, "peer")
    /\ \/ /\ Hears(p, "ACK")
          /\ proc' = [proc EXCEPT ![p].next = @ + 1, ![p].pc = "peers"]
       \/ Hears(p, "REJECT") /\ Goes(p, "knock")
       \/ Hears(p, "CLOSED") /\ Goes(p, "quit")
    /\ UNCHANGED <<port, backlog, rti, toRTI>>

\* handle_p2p_connections_from_federates, a thread of its own that ends when
\* all inbound connections are there.
AcceptPeer(p) ==
    /\ p \in Procs /\ proc[p].accepted < scenario.inbound[p] /\ backlog[p] # <<>>
    /\ LET q == Head(backlog[p])
           cause == IF proc[q].pc # "peer" THEN "WRONG_SERVER"
                    ELSE "FEDERATION_ID_DOES_NOT_MATCH"
           mine == proc[q].pc = "peer" /\ q.fed = p.fed
       IN  /\ backlog' = [backlog EXCEPT ![p] = Tail(@)]
           /\ IF mine
              THEN /\ Tell(q, "ACK", p.id)
                   /\ proc' = [proc EXCEPT ![p].accepted = @ + 1]
              ELSE Tell(q, "REJECT", cause) /\ UNCHANGED proc
    /\ UNCHANGED <<scenario, port, rti, toRTI, clockVars>>

\* get_start_time_from_rti: any other message makes the federate exit.
StartTime(p) ==
    /\ Is(p, "start") /\ toProc[p] # <<>>
    /\ toProc' = [toProc EXCEPT ![p] = Tail(@)]
    /\ proc' = IF Head(toProc[p]).type = "TIMESTAMP"
               THEN [proc EXCEPT ![p].start = Data(p), ![p].pc = "running"]
               ELSE [proc EXCEPT ![p].pc = "quit"]
    /\ UNCHANGED <<port, backlog, rti, toRTI>>

\* Execution: a message to another federate or a request to stop (bound: one at
\* a time), and what the listener for the RTI reads (module Federation).
Execute(p) ==
    /\ Is(p, "running") /\ UNCHANGED <<port, backlog, rti, proc>>
    /\ \/ /\ toRTI[p] = <<>> /\ UNCHANGED toProc
          /\ \E type \in scenario.sends : \E q \in Procs \ {p} :
                /\ q.fed = p.fed /\ q.id \in Ids(p.fed) /\ toProc[q] = <<>>
                /\ Write(p, <<Message(type, q.id)>>)
       \/ /\ toProc[p] # <<>> /\ UNCHANGED toRTI
          /\ toProc' = [toProc EXCEPT ![p] = Tail(@)]

\* terminate_execution
Resign(p) ==
    /\ Is(p, "running") /\ scenario.ends /\ Goes(p, "left") /\ Close(p)
    /\ Write(p, <<Message("RESIGN", 0)>>)
    /\ UNCHANGED rti

-----------------------------------------------------------------------------
\* The RTI of federation n.

\* start_rti_server
StartRTI(n) ==
    /\ n \in Federations /\ rti[n].pc = "down" /\ Listen(RTIOf(n))
    /\ rti' = [rti EXCEPT ![n].pc = "accept"]
    /\ UNCHANGED <<scenario, backlog, proc, toProc, toRTI, clockVars>>

\* Mutant: an id that is in use is accepted again.
CauseUnlessInUse(n, p) ==
    IF proc[p].pc = "peer" THEN "WRONG_SERVER"
    ELSE IF p.fed # n THEN "FEDERATION_ID_DOES_NOT_MATCH"
    ELSE IF p.id \notin Ids(n) THEN "FEDERATE_ID_OUT_OF_RANGE"
    ELSE "none"

\* receive_and_check_fed_id_message: why the first message of process p is not
\* accepted.
Cause(n, p) ==
    IF proc[p].pc = "peer" THEN "WRONG_SERVER"
    ELSE IF p.fed # n THEN "FEDERATION_ID_DOES_NOT_MATCH"
    ELSE IF p.id \notin Ids(n) THEN "FEDERATE_ID_OUT_OF_RANGE"
    ELSE IF rti[n].state[p.id] # "NOT_CONNECTED" THEN "FEDERATE_ID_IN_USE"
    ELSE "none"

\* connect_to_federates: the next connection.
Accept(n) ==
    /\ n \in Federations /\ rti[n].pc = "accept" /\ backlog[RTIOf(n)] # <<>>
    /\ LET p == Head(backlog[RTIOf(n)]) IN
        /\ backlog' = [backlog EXCEPT ![RTIOf(n)] = Tail(@)]
        /\ IF Cause(n, p) = "none"
           THEN /\ Tell(p, "ACK", 0)
                /\ rti' = [rti EXCEPT ![n].pc = "neighbors", ![n].with = p,
                            ![n].state[p.id] = "PENDING", ![n].socket[p.id] = p]
           ELSE Tell(p, "REJECT", Cause(n, p)) /\ UNCHANGED rti
    /\ UNCHANGED <<scenario, port, proc, toRTI, clockVars>>

\* The federate has joined: its thread runs; with the last one the responder
\* thread starts, and clock synchronization if it is on.
Joined(R) ==
    [R EXCEPT !.i = @ + 1, !.served = @ \cup {R.with},
              !.pc = IF R.i + 1 = Cardinality(DOMAIN R.state) THEN "respond" ELSE "accept",
              !.responder = IF R.i + 1 = Cardinality(DOMAIN R.state) THEN "on" ELSE "off"]

\* receive_connection_information, receive_udp_message_and_set_up_clock_sync
Handshake(n) ==
    /\ n \in Federations /\ UNCHANGED <<scenario, port, backlog, proc, clockVars>>
    /\ LET R == rti[n]
           p == R.with
           off == [R EXCEPT !.enabled[p.id] = FALSE]
           last == IF scenario.sync[n] = "on" THEN R ELSE off
       IN  \/ /\ R.pc = "neighbors" /\ Reads(n, p, "NEIGHBORS") /\ UNCHANGED toProc
              /\ rti' = [rti EXCEPT ![n].pc = "udp"]
           \/ /\ R.pc = "udp" /\ Reads(n, p, "UDP_PORT")
              /\ IF scenario.sync[n] = "off"
                 THEN rti' = [rti EXCEPT ![n] = Joined(off)] /\ UNCHANGED toProc
                 ELSE /\ rti' = [rti EXCEPT ![n].pc = "T3", ![n].left = Exchanges]
                      /\ Tell(p, "T1", 0)
           \/ /\ R.pc = "T3" /\ Reads(n, p, "T3")
              /\ IF R.left > 1
                 THEN /\ toProc' = [toProc EXCEPT ![p] =
                            @ \o <<Message("T4", 0), Message("T1", 0)>>]
                      /\ rti' = [rti EXCEPT ![n].left = @ - 1]
                 ELSE Tell(p, "T4", 0) /\ rti' = [rti EXCEPT ![n] = Joined(last)]

\* respond_to_erroneous_connections
Respond(n) ==
    /\ n \in Federations /\ rti[n].responder = "on"
    /\ backlog[RTIOf(n)] # <<>>
    /\ Tell(Head(backlog[RTIOf(n)]), "REJECT", "FEDERATION_ID_DOES_NOT_MATCH")
    /\ backlog' = [backlog EXCEPT ![RTIOf(n)] = Tail(@)]
    /\ UNCHANGED <<scenario, port, rti, proc, toRTI, clockVars>>

\* The accept() of this thread times out (TCP_TIMEOUT_TIME of the socket), too,
\* and an error ends the thread.
RespondTimeout(n) ==
    /\ n \in Federations /\ rti[n].responder = "on"
    /\ backlog[RTIOf(n)] = <<>>
    /\ rti' = [rti EXCEPT ![n].responder = "over"]
    /\ UNCHANGED <<scenario, port, backlog, toProc, proc, toRTI, clockVars>>

\* federate_thread_TCP for process p.
Threads(n, p) ==
    /\ n \in Federations /\ p \in rti[n].served \ rti[n].proposing
    /\ UNCHANGED <<scenario, port, backlog, proc, clockVars>>

\* Mutant: the last proposal counts, not the latest time.
HandleTimestampLast(n, p) ==
    /\ Threads(n, p) /\ Reads(n, p, "TIMESTAMP")
    /\ rti' = [rti EXCEPT ![n].proposed = @ + 1, ![n].proposing = @ \cup {p},
                          ![n].maxStart = Head(toRTI[p]).data]
    /\ UNCHANGED toProc

\* handle_timestamp, up to its wait for the other proposals.
HandleTimestamp(n, p) ==
    /\ Threads(n, p) /\ Reads(n, p, "TIMESTAMP")
    /\ rti' = [rti EXCEPT ![n].proposed = @ + 1, ![n].proposing = @ \cup {p},
                          ![n].maxStart = Max({@, Head(toRTI[p]).data})]
    /\ UNCHANGED toProc

\* All have proposed: the start time is written to the federate, outside the
\* lock, and then its state changes.
SendStartTime(n, p) ==
    /\ n \in Federations /\ p \in rti[n].proposing
    /\ rti[n].proposed = scenario.size[n]
    /\ IF p \notin rti[n].answered
       THEN /\ Tell(p, "TIMESTAMP", rti[n].maxStart + DELAY_START)
            /\ rti' = [rti EXCEPT ![n].answered = @ \cup {p}]
       ELSE /\ rti' = [rti EXCEPT ![n].state[p.id] = "GRANTED", ![n].proposing = @ \ {p}]
            /\ UNCHANGED toProc
    /\ UNCHANGED <<scenario, port, backlog, proc, toRTI, clockVars>>

\* handle_address_query, handle_address_ad
HandleAddress(n, p) ==
    /\ Threads(n, p)
    /\ \/ /\ Reads(n, p, "QUERY") /\ UNCHANGED rti
          /\ Tell(p, "PORT", rti[n].server[Head(toRTI[p]).data])
       \/ /\ Reads(n, p, "ADDRESS_AD") /\ UNCHANGED toProc
          /\ rti' = [rti EXCEPT ![n].server[p.id] = Head(toRTI[p]).data]

\* Mutant: a message does not wait for a federate that is PENDING.
ForwardAtOnce(n, p) ==
    /\ Threads(n, p) /\ UNCHANGED rti
    /\ \E type \in {"MSG", "STOP_REQUEST"} : Reads(n, p, type)
    /\ LET i == Head(toRTI[p]).data
       IN  IF rti[n].state[i] # "NOT_CONNECTED"
           THEN Tell(rti[n].socket[i], Head(toRTI[p]).type, p.id)
           ELSE UNCHANGED toProc

\* What the RTI sends to another federate during execution: a message waits
\* until that federate is no longer PENDING, a stop request does not.
Forward(n, p) ==
    /\ Threads(n, p) /\ UNCHANGED rti
    /\ LET i == Head(toRTI[p]).data
       IN  \/ /\ Reads(n, p, "MSG") /\ rti[n].state[i] # "PENDING"
              /\ IF rti[n].state[i] = "GRANTED" THEN Tell(rti[n].socket[i], "MSG", p.id)
                 ELSE UNCHANGED toProc
           \/ /\ Reads(n, p, "STOP_REQUEST")
              /\ IF rti[n].state[i] # "NOT_CONNECTED"
                 THEN Tell(rti[n].socket[i], "STOP_REQUEST", p.id)
                 ELSE UNCHANGED toProc

HandleResign(n, p) ==
    /\ Threads(n, p) /\ Reads(n, p, "RESIGN") /\ UNCHANGED toProc
    /\ rti' = [rti EXCEPT ![n].state[p.id] = "NOT_CONNECTED", ![n].served = @ \ {p}]

\* wait_for_federates: all threads have ended, and the server closes with the
\* connections nobody has accepted.
Shutdown(n) ==
    /\ n \in Federations /\ rti[n].pc = "respond" /\ rti[n].served = {}
    /\ rti' = [rti EXCEPT ![n].pc = "closed", ![n].responder = "off"]
    /\ Close(RTIOf(n))
    /\ UNCHANGED <<scenario, proc, toRTI, clockVars>>

-----------------------------------------------------------------------------
\* Clock synchronization, once the start time of its federation is agreed.

Served == {p \in Procs : \E n \in Federations :
            /\ p \in ToSet(rti[n].socket) /\ rti[n].state[p.id] # "NOT_CONNECTED"
            /\ rti[n].enabled[p.id]}
Left == {p \in Procs : proc[p].pc = "left"}

\* The end of connect_to_federates, and the wait for the start time.
StartClockThread ==
    /\ StartThread
    /\ \E n \in Federations :
        /\ scenario.sync[n] = "on" /\ rti[n].pc = "respond"
        /\ rti[n].proposed = scenario.size[n] /\ \E i \in Ids(n) : rti[n].enabled[i]

ClockThread ==
    /\ UNCHANGED startVars
    /\ \/ StartClockThread
       \/ BeginRound \/ SendT1(Served) \/ ReadT3(Served) \/ ReadTimeout(Left)

ListenUDP(p) ==
    p \in DOMAIN listener /\ proc[p].pc = "running" /\ Listener(p) /\ UNCHANGED startVars

-----------------------------------------------------------------------------

Process(p) ==
    \/ Connect(p) \/ Answered(p) \/ InitialSync(p) \/ Serve(p) \/ QueryPeer(p)
    \/ PeerPort(p) \/ ConnectPeer(p) \/ PeerAnswered(p) \/ StartTime(p)

Thread(n, p) ==
    \/ HandleTimestamp(n, p) \/ SendStartTime(n, p) \/ HandleAddress(n, p)
    \/ Forward(n, p) \/ HandleResign(n, p)

MainThread(n) == StartRTI(n) \/ Accept(n) \/ Handshake(n) \/ Shutdown(n)

AllProcs == UNION {s.procs : s \in Scenarios}
AllFederations == UNION {DOMAIN s.size : s \in Scenarios}

Next ==
    \/ \E p \in AllProcs :
        \/ Process(p) \/ AcceptPeer(p) \/ Execute(p) \/ Resign(p) \/ ListenUDP(p)
        \/ \E n \in AllFederations : Thread(n, p)
    \/ \E n \in AllFederations : MainThread(n) \/ Respond(n) \/ RespondTimeout(n)
    \/ ClockThread

Spec == Init /\ [][Next]_vars

\* Every thread is scheduled; no federate has to send, or to resign.
FairSpec ==
    /\ Spec
    /\ \A p \in AllProcs :
        /\ WF_vars(Process(p)) /\ WF_vars(AcceptPeer(p))
        /\ \A n \in AllFederations : WF_vars(Thread(n, p))
    /\ \A n \in AllFederations : WF_vars(MainThread(n)) /\ WF_vars(Respond(n))

-----------------------------------------------------------------------------

Started(p) == proc[p].start > 0

\* The federates of a federation start at the same time, which is DELAY_START
\* after the latest of the times that were proposed.
StartAgreed ==
    \A p \in Procs : Started(p) =>
        /\ \A q \in Procs : Started(q) /\ q.fed = p.fed => proc[p].start = proc[q].start
        /\ \A q \in ToSet(rti[p.fed].socket) :
            q = NoOne \/ scenario.proposal[q] + DELAY_START <= proc[p].start

\* An RTI serves its own federation only, and of the processes with the same
\* federate id one: the one it talks to.
OneProcessPerId ==
    \A p \in Procs :
        proc[p].pc \notin {"connect", "await", "quit"} =>
            rti[p.fed].socket[p.id] = p

\* "Need to make sure that the destination federate's thread has already sent
\* the starting MSG_TYPE_TIMESTAMP message": nothing else reaches a federate
\* that waits for it.
StartComesFirst ==
    \A p \in Procs : proc[p].pc = "start" /\ toProc[p] # <<>> =>
        Head(toProc[p]).type = "TIMESTAMP"

\* Every federate of every federation is started, unless it knocks at an RTI whose
\* responder has timed out, and waits there for an answer.
Unheard(p) ==
    /\ proc[p].pc = "await"
    /\ \E n \in Federations : rti[n].responder = "over" /\ p \in ToSet(backlog[RTIOf(n)])

EveryoneStarts ==
    \A n \in AllFederations : \A p \in AllProcs :
        n = p.fed =>
            <>(p \in Procs => \E q \in Procs : q.fed = n /\ q.id = p.id
                                              /\ (Started(q) \/ Unheard(q)))

\* While no packet is lost or late, clock synchronization goes on until the
\* federates have left.
SyncLasts ==
    thread.pc = "done" => disturbed \/ ToSet(thread.order) \subseteq Left

-----------------------------------------------------------------------------
(* The inductive invariant behind StartAgreed and OneProcessPerId.  R is   *)
(* the state of an RTI; me, in and out are the state of a process, what it *)
(* has yet to read and what its RTI has yet to read of it.                 *)

Owners == {RTIOf(n) : n \in Federations} \cup Procs

Processes ==
    [pc : {"connect", "await", "T1", "T4", "serve", "peers", "port", "knock", "peer",
           "start", "running", "left", "quit"},
     uport : Nat, left : Int, next : Nat \ {0}, peerPort : Ports \cup {NoPort},
     accepted : Nat, start : Nat]

Servers(n) ==
    [pc : {"down", "accept", "neighbors", "udp", "T3", "respond", "closed"},
     i : Nat, with : Procs \cup {NoOne}, left : Int,
     state : [Ids(n) -> {"NOT_CONNECTED", "PENDING", "GRANTED"}],
     socket : [Ids(n) -> Procs \cup {NoOne}],
     server : [Ids(n) -> Ports \cup {NoPort}],
     enabled : [Ids(n) -> BOOLEAN],
     served : SUBSET Procs, proposing : SUBSET Procs, answered : SUBSET Procs,
     proposed : Nat, maxStart : Nat, responder : {"off", "on", "over"}]

StartTypeOK ==
    /\ scenario \in Scenarios
    /\ port \in [Ports -> Owners \cup {NoOne}]
    /\ backlog \in [Owners -> Seq(Procs)]
    /\ DOMAIN rti = Federations /\ \A n \in Federations : rti[n] \in Servers(n)
    /\ proc \in [Procs -> Processes]
    /\ DOMAIN toProc = Procs /\ DOMAIN toRTI = Procs
    /\ \A p \in Procs : /\ toProc[p] \in Seq(ToSet(toProc[p]))
                        /\ toRTI[p] \in Seq(ToSet(toRTI[p]))

Has(queue, type) == \E m \in ToSet(queue) : m.type = type

\* The RTI talks to p as the federate with its id.
TalksTo(R, p) == p.id \in DOMAIN R.socket /\ R.socket[p.id] = p

Joining(R) == R.pc \in {"down", "accept", "neighbors", "udp", "T3"}
Agreed(n, R) == R.proposed = scenario.size[n]

\* The process that is about to join.
Newcomer(R) == IF R.pc \in {"neighbors", "udp", "T3"} THEN {R.with} ELSE {}

SocketsHold(n, R) ==
    /\ \A id \in Ids(n) : R.socket[id] # NoOne => R.socket[id].fed = n /\ R.socket[id].id = id
    /\ \A p \in R.served \cup R.proposing \cup Newcomer(R) : p \in Procs /\ TalksTo(R, p)

\* An id is free until a process has it, and is not given away again.
JoiningHolds(n, R) ==
    Joining(R) =>
        /\ ~Agreed(n, R) /\ R.i < scenario.size[n]
        /\ \A id \in Ids(n) : R.state[id] = "NOT_CONNECTED" => R.socket[id] = NoOne
        /\ R.with \in R.served => R.pc \in {"down", "accept"}

\* Until the last proposal is there, everybody the RTI talks to has a thread, or is about
\* to have one, and the proposals are counted right.
ProposalsHold(n, R) ==
    ~Agreed(n, R) =>
        /\ R.pc # "closed" /\ (R.pc = "respond" => R.i = scenario.size[n])
        /\ IsFiniteSet(R.served) /\ R.i = Cardinality(R.served)
        /\ R.proposing \subseteq R.served /\ R.proposed = Cardinality(R.proposing)
        /\ \A id \in Ids(n) : R.socket[id] \in R.served \cup Newcomer(R) \cup {NoOne}

ServerHolds(n, R) == SocketsHold(n, R) /\ JoiningHolds(n, R) /\ ProposalsHold(n, R)

\* A process that was acknowledged is the one its RTI talks to.
TalkHolds(R, p, me, in) ==
    me.pc \notin {"connect", "await", "quit"} \/ Has(in, "ACK") => TalksTo(R, p)

DataHold(p, in, out) ==
    /\ \A m \in ToSet(in) : m.type = "PORT" => m.data \in Ports \cup {NoPort}
    /\ \A m \in ToSet(out) :
          /\ m.type = "ADDRESS_AD" => m.data \in Ports
          /\ m.type = "QUERY" => m.data \in Ids(p.fed)

\* A proposal is the last thing a process says before it has the start time.
ProposalHolds(p, me, out) ==
    \A j \in DOMAIN out : out[j].type = "TIMESTAMP" =>
        /\ j = Len(out) /\ out[j].data = scenario.proposal[p]
        /\ me.pc \in {"start", "quit"}

\* Nobody has a start time before all have proposed one.
StartHolds(R, p, me, in, out) ==
    /\ \/ me.pc \in {"running", "left"} \/ me.start # 0
       \/ Has(in, "TIMESTAMP") \/ Has(out, "RESIGN")
       => Agreed(p.fed, R)
    /\ me.start \in {0, R.maxStart + DELAY_START}
    /\ \A m \in ToSet(in) : m.type = "TIMESTAMP" => m.data = R.maxStart + DELAY_START

\* A proposal that was counted is part of the maximum, and the only one of its process.
CountedHolds(R, p, me, out) ==
    p \in R.proposing \/ (Agreed(p.fed, R) /\ TalksTo(R, p)) =>
        /\ scenario.proposal[p] <= R.maxStart
        /\ ~Has(out, "TIMESTAMP") /\ me.pc \in {"start", "running", "left", "quit"}

ProcessHolds(R, p, me, in, out) ==
    /\ TalkHolds(R, p, me, in) /\ DataHold(p, in, out) /\ ProposalHolds(p, me, out)
    /\ StartHolds(R, p, me, in, out) /\ CountedHolds(R, p, me, out)

StartInv ==
    /\ StartTypeOK
    /\ \A n \in Federations : ServerHolds(n, rti[n])
    /\ \A p \in Procs : ProcessHolds(rti[p.fed], p, proc[p], toProc[p], toRTI[p])

-----------------------------------------------------------------------------
(* The inductive invariant behind StartComesFirst, on top of StartInv:     *)
(* whoever asks is in the state that reads the answer, and asks no more    *)
(* until it has it.                                                        *)

\* What a process that waits for an answer may read.
Awaits(pc, type) ==
    \/ pc \in {"await", "peer"} /\ type \in {"ACK", "REJECT", "CLOSED"}
    \/ pc = "port" /\ type = "PORT"
    \/ pc \in {"T1", "T4"} /\ type = pc

\* A message that the RTI of process p answers.
Question(p, m) ==
    m.type \in {"QUERY", "T3"} \/ (m.type = "UDP_PORT" /\ scenario.sync[p.fed] # "off")

\* The RTI synchronizes the clock of p.
Syncing(R, p) == R.pc = "T3" /\ R.with = p

\* A question is the last thing its process has said, and not answered yet.
QuestionsHold(p, me, in, out) ==
    \A j \in DOMAIN out : Question(p, out[j]) =>
        /\ j = Len(out) /\ in = <<>>
        /\ \/ out[j].type = "UDP_PORT" /\ me.pc = "T1" /\ me.left = Exchanges
           \/ out[j].type = "T3" /\ me.pc = "T4"
           \/ out[j].type = "QUERY" /\ me.pc = "port"

\* What a process finds is the answer it waits for; the RTI may begin the next exchange
\* of a synchronization together with the answer to the last one.
RepliesHold(me, in) ==
    me.pc \notin {"start", "running", "left", "quit"} =>
        \/ in = <<>>
        \/ Len(in) = 1 /\ Awaits(me.pc, in[1].type)
        \/ Len(in) = 2 /\ me.pc = "T4" /\ in[1].type = "T4" /\ in[2].type = "T1"

\* The RTI synchronizes a clock after it is asked to, and does not begin more exchanges
\* than the process counts on.
ExchangesHold(R, p, me, in) ==
    /\ Syncing(R, p) =>
          /\ me.pc \notin {"connect", "await"}
          /\ me.pc \in {"T1", "T4"} => R.left <= me.left
          /\ me.pc = "T4" => Len(in) # 1
    /\ me.pc = "T4" /\ Len(in) = 2 => me.left > 1 /\ (Syncing(R, p) => R.left < me.left)

\* Before the start time nothing comes to a process that waits for it.
FirstHolds(R, p, me, in) ==
    me.pc = "start" => IF p \in R.answered THEN in # <<>> /\ Head(in).type = "TIMESTAMP"
                       ELSE in = <<>>

SentHold(p, out) ==
    \A m \in ToSet(out) : /\ m.type # "STOP_REQUEST"
                          /\ m.type = "MSG" => m.data \in Ids(p.fed)

TurnHolds(R, p, me, in, out) ==
    /\ QuestionsHold(p, me, in, out) /\ RepliesHold(me, in) /\ ExchangesHold(R, p, me, in)
    /\ FirstHolds(R, p, me, in) /\ SentHold(p, out)

\* A federate that is GRANTED has got the start time.
TimesHold(n, R) ==
    /\ \A p \in R.answered : TalksTo(R, p) /\ Agreed(n, R)
    /\ \A id \in Ids(n) : R.state[id] = "GRANTED" => R.socket[id] \in R.answered

\* A process waits at one server, and has no answer yet.
ConnectionsHold ==
    \A o \in Owners : \A i \in DOMAIN backlog[o] :
        /\ proc[backlog[o][i]].pc \in {"await", "peer"} /\ toProc[backlog[o][i]] = <<>>
        /\ \A u \in Owners : \A j \in DOMAIN backlog[u] :
              backlog[o][i] = backlog[u][j] => o = u /\ i = j

FirstInv ==
    /\ "STOP_REQUEST" \notin scenario.sends
    /\ ConnectionsHold
    /\ \A n \in Federations : TimesHold(n, rti[n])
    /\ \A p \in Procs : TurnHolds(rti[p.fed], p, proc[p], toProc[p], toRTI[p])

-----------------------------------------------------------------------------
(* The inductive invariant behind SyncLasts, on top of StartInv.           *)

\* An RTI that has opened its federation talks to a process under every id, and no
\* longer serves one only after it has left.
MembersHold(n, R) ==
    /\ R.pc \in {"respond", "closed"} => \A id \in Ids(n) : R.socket[id] # NoOne
    /\ scenario.sync[n] = "on" => \A id \in Ids(n) : R.enabled[id]
    /\ \A id \in Ids(n) : R.state[id] = "NOT_CONNECTED" => R.socket[id] \in Left \cup {NoOne}

MembersInv ==
    /\ \A n \in Federations : MembersHold(n, rti[n])
    /\ \A p \in Procs : Has(toRTI[p], "RESIGN") => p \in Left

\* A T1 message waits for a federate that is still there only when the thread waits for
\* its answer, and then it is the only one.
AskedHolds(f) ==
    \A i \in DOMAIN down[f] : down[f][i].type = "T1" =>
        /\ thread.pc = "read" /\ f = Current /\ Len(up) = 0
        /\ \A j \in DOMAIN down[f] : down[f][j].type = "T1" => i = j

\* Nothing but the answer to the message of this turn comes to the thread, and who has
\* not answered in this round, or not in the last one, has left.
AnswerHolds ==
    /\ IF thread.pc = "read"
       THEN thread.left = Attempts /\ Len(up) <= 1 /\ (Len(up) = 1 => up[1].from = Current)
       ELSE Len(up) = 0
    /\ thread.pc \in {"send", "read"} /\ ~thread.any =>
          \A k \in 1 .. thread.at - 1 : thread.order[k] \in Left
    /\ thread.pc = "done" => \A k \in DOMAIN thread.order : thread.order[k] \in Left

SyncInv ==
    /\ MembersInv
    /\ thread.order = scenario.order
    /\ thread.pc # "off" =>
          \A k \in DOMAIN thread.order : rti[thread.order[k].fed].pc \in {"respond", "closed"}
    /\ disturbed \/ (AnswerHolds /\ \A f \in DOMAIN listener \ Left : AskedHolds(f))
=============================================================================
