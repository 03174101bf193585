------------------------------ MODULE Federation ------------------------------
(***************************************************************************)
(* A federation under centralized coordination: the RTI of module RTI and  *)
(* the federates (core/federated/federate.c, and the federated parts of    *)
(* core/threaded/reactor_threaded.c), joined by one FIFO (a TCP socket) in *)
(* each direction.  Every federate has two threads that share its mutex:   *)
(* the workers, taken as one, which execute tags and ask the RTI for the   *)
(* next one, and the listener, which handles the messages of the RTI.      *)
(*                                                                         *)
(* What a federate computes is left to a program, chosen at the start: its *)
(* connections with their delays, the tags of its own events, the order in *)
(* which the reactions of one tag read and write the ports, the timeout,   *)
(* and who may call lf_request_stop.  A port is named by the federate at   *)
(* its other end.  Times are relative to the start time, physical time     *)
(* passes at any moment, and all federates have been started (module       *)
(* FederationStart).                                                       *)
(***************************************************************************)
EXTENDS RTI

CONSTANTS
    Federates,  \* all federates a program may have
    MaxUnread,  \* bound: a worker sends when fewer messages are unread
    Programs
    \* Each has: up (federate -> sequence of federates), delay (<<u, d>> ->
    \* NEVER or a time), events (federate -> set of tags), order (federate ->
    \* sequence of <<"in", u>>, for the ports with a network input control
    \* reaction, and <<"out", d>>), stop (a tag), stoppers,
    \* shutdown (the federates whose shutdown reaction writes its ports) and
    \* crashers (those that may die).

VARIABLES
    program,    \* the program that runs
    rti,        \* the state of the RTI, with the sockets to the federates
    toRTI,      \* the sockets from the federates
    fed         \* the state of each federate

vars == <<program, rti, toRTI, fed>>

\* The federates of the program that runs.
Members == DOMAIN program.up

HasUp(f) == program.up[f] # <<>>
HasDown(f) == \E d \in Members : <<f, d>> \in DOMAIN program.delay

\* The ports of f, and those with a network input control reaction.
InPorts(f) == ToSet(program.up[f])
Controlled(f) == {u \in InPorts(f) : <<"in", u>> \in ToSet(program.order[f])}

InitFed(p, f) ==
    [cur |-> <<0, 0>>,              \* current_tag
     stop |-> p.stop,               \* stop_tag
     queue |-> p.events[f] \ {<<0, 0>>}, \* tags event_q holds an event for
     messages |-> {},               \* the messages among them
     lastTAG |-> NEVER_TAG,         \* _fed.last_TAG
     provisional |-> FALSE,         \* _fed.is_last_TAG_provisional
     waitingForTAG |-> FALSE,       \* _fed.waiting_for_TAG
     ask |-> NEVER_TAG,             \* parameter of _lf_send_next_event_tag
     poked |-> FALSE,               \* event_q_changed signalled since the wait
     lastLTC |-> NEVER_TAG,         \* _fed.last_sent_LTC
     sentStop |-> FALSE,            \* _fed.sent_a_stop_request_to_rti
     requestors |-> 0,              \* _lf_global_tag_advancement_barrier
     horizon |-> FOREVER_TAG,
     status |-> [u \in ToSet(p.up[f]) |-> "unknown"],
     known |-> [u \in ToSet(p.up[f]) |-> NEVER_TAG], \* last_known_status_tag
     waiting |-> {},                \* ports with is_a_control_reaction_waiting
     work |-> <<>>,                 \* what is left of the order at this tag
     triggered |-> FALSE,           \* some reaction is triggered at this tag
     started |-> FALSE,             \* _lf_execution_started
     completedOnce |-> FALSE,       \* _lf_logical_tag_completed
     pc |-> "start",
     failed |-> FALSE]              \* lf_print_error_and_exit was called

Init ==
    /\ program \in Programs
    /\ rti = InitRTI(program.up, program.delay)
    /\ toRTI = [f \in Members |-> <<>>]
    /\ fed = [f \in Members |-> InitFed(program, f)]

-----------------------------------------------------------------------------
\* Helpers: each maps the record F of a federate to the next one.

\* get_next_event_tag: the queue knows times only; an event of the current
\* time is taken to be one microstep away.
NextEventTag(F) ==
    LET time == Min({g[1] : g \in F.queue} \cup {FOREVER})
        next == IF F.queue = {} THEN FOREVER_TAG
                ELSE IF time = F.cur[1] THEN NextMicrostep(F.cur)
                ELSE <<time, 0>>
    IN  Earlier(next, F.stop)

\* get_current_port_status
PortStatus(F, u) ==
    IF F.status[u] # "unknown" THEN F.status[u]
    ELSE IF \/ UpTo(F.cur, F.known[u])
            \/ F.provisional /\ Before(F.cur, F.lastTAG)
    THEN "absent" ELSE "unknown"

\* Mutant: a tag granted provisionally is executed as if it were granted.
NoInputControl(F, f) ==
    [F EXCEPT !.work = SelectSeq(program.order[f], LAMBDA item : item[1] = "out")]

\* enqueue_network_control_reactions: the output ones at every tag, the input
\* ones only at a tag that was granted provisionally.
EnqueueControlReactions(F, f) ==
    LET provisional == HasUp(f) /\ F.lastTAG = F.cur /\ F.provisional
        asked == IF provisional THEN Controlled(f) ELSE {}
        status == [u \in InPorts(f) |->
                    IF u \in asked THEN PortStatus(F, u) ELSE F.status[u]]
        waiting == {u \in asked : status[u] = "unknown"}
    IN  [F EXCEPT !.status = status, !.waiting = waiting,
                  !.work = SelectSeq(program.order[f], LAMBDA item :
                                item[1] = "out" \/ item[2] \in waiting)]

\* _lf_increment_global_tag_barrier_already_locked
RaiseBarrier(F, g) ==
    LET future == Earlier(g, F.stop)
    IN  [F EXCEPT !.requestors = @ + 1,
                  !.horizon = IF Before(F.cur, future) THEN Earlier(@, future)
                              ELSE NextMicrostep(F.cur)]

\* Mutant: the barrier stays up.
KeepBarrier(F) == F

\* _lf_decrement_global_tag_barrier_locked
LowerBarrier(F) ==
    [F EXCEPT !.requestors = @ - 1,
              !.horizon = IF F.requestors = 1 THEN FOREVER_TAG ELSE @,
              !.failed = @ \/ F.requestors = 0]

\* update_last_known_status_on_input_port
UpdateKnown(F, u, g) ==
    IF Before(g, F.known[u]) THEN F
    ELSE [F EXCEPT !.known[u] = IF g = @ THEN NextMicrostep(g) ELSE g]

\* _lf_schedule_at_tag of a message tag after the current one.  Without an
\* event of the port at that time, an event of the current time that is not at
\* the next microstep gets one dummy too many before it.
Landing(F, u, g) ==
    LET chain == {m \in F.messages : m.from = u /\ m.at[1] = g[1]}
    IN  IF chain = {}
        THEN IF g[1] = F.cur[1] /\ g[2] > F.cur[2] + 1 THEN NextMicrostep(g) ELSE g
        ELSE IF \E m \in chain : m.at = g THEN NextMicrostep(g) ELSE g

ScheduleAtTag(F, u, g) ==
    IF Before(F.stop, g) THEN F
    ELSE LET at == Landing(F, u, g)
         IN  [F EXCEPT !.queue = @ \cup {at},
                       !.messages = @ \cup {[from |-> u, tag |-> g, at |-> at]}]

\* schedule_message_received_from_network_already_locked
ScheduleMessage(F, u, g) ==
    IF UpTo(g, F.cur) THEN [F EXCEPT !.failed = TRUE]
    ELSE [ScheduleAtTag(F, u, g) EXCEPT !.poked = TRUE]

\* The dummy events of a PTAG: for a later time their chain ends one microstep
\* before the tag, unless that is microstep 0.
DummiesUpTo(F, g) ==
    IF g[1] = FOREVER THEN F
    ELSE [F EXCEPT !.queue = @ \cup
            {IF g[1] = F.cur[1] \/ g[2] = 0 THEN g ELSE <<g[1], g[2] - 1>>}]

\* _lf_wait_on_global_tag_barrier has to wait before this tag.
HeldBack(F, g) == F.requestors > 0 /\ UpTo(F.horizon, g)

\* send_timed_message, send_port_absent_to_federate and
\* _lf_fd_send_stop_request_to_rti: what they write to the socket.
TaggedMessage(F, f, d) ==
    [type |-> "MSG", to |-> d, from |-> f, tag |-> Delayed(F.cur, program.delay[f, d])]
PortAbsent(F, f, d) == [TaggedMessage(F, f, d) EXCEPT !.type = "ABSENT"]
StopRequest(F) == [type |-> "STOP_REQUEST", tag |-> NextMicrostep(F.cur)]

Tell(f, messages) == toRTI' = [toRTI EXCEPT ![f] = @ \o messages]
Become(f, F) == fed' = [fed EXCEPT ![f] = F]

\* _lf_send_next_event_tag up to its wait for a grant, and what it sends.
AskFor(F, f, g, waitPc, goPc) ==
    LET asks == (HasUp(f) \/ HasDown(f)) /\ Before(F.lastTAG, g)
    IN  [sent |-> IF asks THEN <<[type |-> "NET", tag |-> g]>> ELSE <<>>,
         state |-> IF asks /\ HasUp(f)
                   THEN [F EXCEPT !.waitingForTAG = TRUE, !.ask = g,
                                  !.poked = FALSE, !.pc = waitPc]
                   ELSE [F EXCEPT !.ask = g, !.pc = goPc]]

Gone(f) == fed[f].failed \/ fed[f].pc = "crashed"
Live(f) == f \in Members /\ ~Gone(f) /\ UNCHANGED <<program, rti>>

\* Bound: the socket to the RTI has room.
Room(f) == Len(toRTI[f]) < MaxUnread

-----------------------------------------------------------------------------
\* The workers.

\* The end of _lf_initialize_start_tag; the tag that was granted is not looked at.
Begun(F, f) ==
    [EnqueueControlReactions(F, f) EXCEPT
        !.started = TRUE, !.pc = "exec", !.triggered = <<0, 0>> \in program.events[f]]

\* _lf_initialize_start_tag: ask for the start tag.
Start(f) ==
    /\ Live(f) /\ Room(f) /\ fed[f].pc = "start"
    /\ LET r == AskFor(fed[f], f, fed[f].cur, "waitStart", "exec")
       IN  /\ Tell(f, r.sent)
           /\ Become(f, IF r.state.pc = "exec" THEN Begun(r.state, f) ELSE r.state)

\* The wait of _lf_send_next_event_tag is over, or the queue has changed and
\* the RTI is told of the new next event.
Wake(f) ==
    /\ Live(f) /\ Room(f) /\ fed[f].pc \in {"waitStart", "wait"} /\ fed[f].poked
    /\ LET F == [fed[f] EXCEPT !.poked = FALSE]
           next == NextEventTag(F)
       IN  IF F.waitingForTAG
           THEN /\ Become(f, F)
                /\ Tell(f, IF next # F.ask THEN <<[type |-> "NET", tag |-> next]>>
                           ELSE <<>>)
           ELSE /\ Become(f,
                      IF F.pc = "waitStart" THEN Begun(F, f)
                      ELSE [F EXCEPT !.pc = IF Before(F.lastTAG, F.ask) THEN "again"
                                            ELSE "granted"])
                /\ UNCHANGED toRTI

\* wait_until_port_status_known, the body of a network input control reaction.
AwaitPort(f) ==
    /\ Live(f) /\ fed[f].pc = "exec" /\ fed[f].work # <<>>
    /\ LET F == fed[f]
           u == Head(F.work)[2]
       IN  /\ Head(F.work)[1] = "in" /\ PortStatus(F, u) # "unknown"
           /\ Become(f, [F EXCEPT !.status[u] = PortStatus(F, u),
                                  !.waiting = @ \ {u}, !.work = Tail(@)])
    /\ UNCHANGED toRTI

\* A reaction sets the port to d (send_timed_message, which drops a message
\* later than the stop tag), or the network output control reaction declares
\* it absent (send_port_absent_to_federate).
Output(f) ==
    /\ Live(f) /\ Room(f) /\ fed[f].pc = "exec" /\ fed[f].work # <<>>
    /\ LET F == fed[f]
           d == Head(F.work)[2]
           m == TaggedMessage(F, f, d)
       IN  /\ Head(F.work)[1] = "out"
           /\ Become(f, [F EXCEPT !.work = Tail(@)])
           /\ \/ /\ F.triggered \/ \E u \in InPorts(f) : F.status[u] = "present"
                 /\ Tell(f, IF Before(F.stop, m.tag) THEN <<>> ELSE <<m>>)
              \/ Tell(f, <<PortAbsent(F, f, d)>>)

\* _lf_sched_advance_tag_locked, and _lf_next_locked as far as the request.
CompleteTag(f) ==
    /\ Live(f) /\ Room(f)
    /\ fed[f].pc = "again" \/ (fed[f].pc = "exec" /\ fed[f].work = <<>>)
    /\ LET F == [fed[f] EXCEPT !.lastLTC = Later(@, fed[f].cur)]
           ltc == IF Before(fed[f].lastLTC, F.cur)
                  THEN <<[type |-> "LTC", tag |-> F.cur]>> ELSE <<>>
           r == AskFor([F EXCEPT !.completedOnce = TRUE], f, NextEventTag(F),
                       "wait", "granted")
       IN  IF F.completedOnce /\ UpTo(F.stop, F.cur)
           THEN Tell(f, ltc) /\ Become(f, [F EXCEPT !.pc = "stopping"])
           ELSE Tell(f, ltc \o r.sent) /\ Become(f, r.state)

\* _lf_start_time_step, the new tag and _lf_pop_events.
NewTag(F, f) ==
    LET time == NextEventTag(F)[1]
        cur == IF time = F.cur[1] THEN NextMicrostep(F.cur) ELSE <<time, 0>>
        popped == {m \in F.messages : m.at = cur}
        G == [F EXCEPT
                !.cur = cur, !.pc = "exec",
                !.triggered = \/ cur \in program.events[f]
                               \/ (f \in program.shutdown /\ UpTo(F.stop, cur)),
                !.queue = {g \in @ : Before(cur, g)},
                !.messages = @ \ popped,
                !.failed = @ \/ \E m \in popped : m.tag # cur,
                !.status = [u \in DOMAIN @ |->
                    IF \E m \in popped : m.from = u THEN "present" ELSE "unknown"]]
    IN  EnqueueControlReactions(G, f)

\* The rest of _lf_next_locked, once physical time has reached the next tag;
\* "barrier" is the wait of _lf_wait_on_global_tag_barrier.
Advance(f) ==
    /\ Live(f) /\ UNCHANGED toRTI
    /\ LET F == fed[f]
           next == NextEventTag(F)
           go == IF UpTo(F.stop, next) /\ UpTo(F.stop, F.cur)
                 THEN [F EXCEPT !.pc = "again"] ELSE NewTag(F, f)
       IN  \/ /\ F.pc = "granted" /\ next[1] # FOREVER
              /\ Become(f, IF HeldBack(F, next) THEN [F EXCEPT !.pc = "barrier"] ELSE go)
           \/ F.pc = "barrier" /\ F.requestors = 0 /\ Become(f, go)

\* lf_request_stop, from a reaction or from a thread of the application.
RequestStop(f) ==
    /\ Live(f) /\ f \in program.stoppers
    /\ LET F == fed[f] IN
        /\ F.started /\ F.pc \notin {"stopping", "exited", "resigned"}
        /\ Before(F.cur, F.stop) /\ ~F.sentStop
        /\ Become(f, [RaiseBarrier(F, F.cur) EXCEPT !.sentStop = TRUE])
        /\ Tell(f, <<StopRequest(F)>>)

\* The last worker ends with send_next_event_tag(FOREVER_TAG, false).
Exit(f) ==
    /\ Live(f) /\ Room(f) /\ fed[f].pc = "stopping"
    /\ Become(f, [fed[f] EXCEPT !.pc = "exited"])
    /\ Tell(f, AskFor(fed[f], f, FOREVER_TAG, "", "").sent)

\* terminate_execution
Resign(f) ==
    /\ Live(f) /\ Room(f) /\ fed[f].pc = "exited"
    /\ Become(f, [fed[f] EXCEPT !.pc = "resigned"])
    /\ Tell(f, <<[type |-> "RESIGN", tag |-> NEVER_TAG]>>)

\* The process of the federate dies.
Crash(f) ==
    /\ Live(f) /\ f \in program.crashers /\ fed[f].pc # "resigned"
    /\ Become(f, [fed[f] EXCEPT !.pc = "crashed"])
    /\ UNCHANGED toRTI

-----------------------------------------------------------------------------
\* The listener (listen_to_rti_TCP): one operator per message, from the record
\* of the federate to the next one and what it sends.

Quiet(F) == [state |-> F, sent |-> <<>>]

\* handle_tagged_message
OnMessage(F, m) ==
    LET G == UpdateKnown(F, m.from, m.tag)
    IN  Quiet(
        IF /\ UpTo(m.tag, F.cur)
           /\ \/ m.from \in F.waiting /\ F.status[m.from] = "unknown"
              \/ ~F.started
        THEN [G EXCEPT !.status[m.from] = "present"]
        ELSE IF UpTo(F.stop, F.cur) THEN G
        ELSE ScheduleMessage(G, m.from, m.tag))

\* handle_port_absent_message
OnAbsent(F, m) == Quiet(UpdateKnown(F, m.from, m.tag))

\* handle_tag_advance_grant
OnTAG(F, f, m) ==
    LET G == [F EXCEPT !.known = [u \in DOMAIN @ |->
                IF u \in Controlled(f) THEN Later(@[u], m.tag) ELSE @[u]]]
    IN  Quiet(IF Before(m.tag, F.lastTAG) THEN G
              ELSE [G EXCEPT !.lastTAG = m.tag, !.provisional = FALSE,
                             !.waitingForTAG = FALSE, !.poked = TRUE])

\* handle_provisional_tag_advance_grant
OnPTAG(F, m) ==
    LET G == [F EXCEPT !.lastTAG = m.tag, !.provisional = TRUE,
                       !.waitingForTAG = FALSE, !.poked = TRUE]
    IN  IF Before(m.tag, F.lastTAG) \/ (m.tag = F.lastTAG /\ ~F.provisional)
        THEN Quiet([F EXCEPT !.failed = TRUE])
        ELSE IF F.cur = m.tag THEN Quiet(G)
        ELSE IF Before(m.tag, F.cur)
        THEN [state |-> [G EXCEPT !.lastLTC = Later(@, m.tag)],
              sent |-> IF Before(F.lastLTC, m.tag)
                       THEN <<[type |-> "LTC", tag |-> m.tag]>> ELSE <<>>]
        ELSE Quiet(DummiesUpTo(G, m.tag))

\* Mutant: a tag that has passed here is agreed to.
ReplyAsAsked(F, m) ==
    IF F.sentStop THEN Quiet(F)
    ELSE [state |-> [RaiseBarrier(F, m.tag) EXCEPT !.sentStop = TRUE],
          sent |-> <<[type |-> "STOP_REPLY", tag |-> m.tag]>>]

\* handle_stop_request_message
OnStopRequest(F, m) ==
    IF F.sentStop THEN Quiet(F)
    ELSE LET g == IF UpTo(m.tag, F.cur) THEN NextMicrostep(F.cur) ELSE m.tag
         IN  [state |-> [RaiseBarrier(F, g) EXCEPT !.sentStop = TRUE],
              sent |-> <<[type |-> "STOP_REPLY", tag |-> g]>>]

\* handle_stop_granted_message
OnStopGranted(F, m) ==
    LET g == IF UpTo(m.tag, F.cur) THEN NextMicrostep(F.cur) ELSE m.tag
    IN  Quiet([LowerBarrier([F EXCEPT !.stop = g]) EXCEPT !.poked = TRUE])

Receive(F, f, m) ==
    CASE m.type = "MSG" -> OnMessage(F, m)
      [] m.type = "ABSENT" -> OnAbsent(F, m)
      [] m.type = "TAG" -> OnTAG(F, f, m)
      [] m.type = "PTAG" -> OnPTAG(F, m)
      [] m.type = "STOP_REQUEST" -> OnStopRequest(F, m)
      [] m.type = "STOP_GRANTED" -> OnStopGranted(F, m)

Take(f) ==
    /\ f \in Members /\ ~Gone(f) /\ rti.out[f] # <<>>
    /\ rti' = [rti EXCEPT !.out[f] = Tail(@)]

Listen(f) ==
    /\ Take(f)
    /\ LET r == Receive(fed[f], f, Head(rti.out[f]))
       IN  Become(f, r.state) /\ Tell(f, r.sent)
    /\ UNCHANGED program

\* The RTI's thread for federate f, which ends when f resigns.
Read(f) ==
    /\ f \in Members /\ rti.fed[f].connected /\ toRTI[f] # <<>>
    /\ toRTI' = [toRTI EXCEPT ![f] = Tail(@)]

Serve(f) ==
    /\ Read(f)
    /\ rti' = Handle(rti, f, Head(toRTI[f]))
    /\ UNCHANGED <<program, fed>>

\* The socket of a federate that is gone is closed; nobody downstream is told.
HangUp(f) ==
    /\ f \in Members /\ Gone(f) /\ rti.fed[f].connected /\ toRTI[f] = <<>>
    /\ rti' = [rti EXCEPT !.fed[f].connected = FALSE]
    /\ UNCHANGED <<program, fed, toRTI>>

-----------------------------------------------------------------------------

Workers(f) ==
    \/ Start(f) \/ Wake(f) \/ AwaitPort(f) \/ Output(f)
    \/ CompleteTag(f) \/ Advance(f) \/ Exit(f) \/ Resign(f)

Next ==
    \E f \in Federates :
        \/ Workers(f) \/ RequestStop(f) \/ Crash(f) \/ Listen(f)
        \/ Serve(f) \/ HangUp(f)

Spec == Init /\ [][Next]_vars

\* The threads of the federates and of the RTI are scheduled fairly; nobody has
\* to request a stop.  Only Serve(f) reads from the socket of f and only
\* Listen(f) takes from the one to f, whenever they can.
FairSpec ==
    Spec /\ \A f \in Federates :
        WF_vars(Workers(f)) /\ WF_rti(Take(f)) /\ WF_toRTI(Read(f))

-----------------------------------------------------------------------------

\* The messages to f that it has not handled yet.
InSocket(queue, f) == {m \in ToSet(queue) : m.type = "MSG" /\ m.to = f}
Unforwarded(f) == UNION {InSocket(toRTI[g], f) : g \in {g \in Members : rti.fed[g].connected}}
Underway(f) == Unforwarded(f) \cup InSocket(rti.out[f], f)

Ended(f) == fed[f].pc \in {"stopping", "exited", "resigned"}
Dead(f) == fed[f].pc = "crashed"

\* What MSG_TYPE_TAG_ADVANCE_GRANT and its provisional form promise: no message
\* the RTI has yet to forward to a federate is at or before the last tag it
\* granted, nor before the last one it granted provisionally.
GrantsHold ==
    \A f \in Members : \A m \in Unforwarded(f) :
        /\ Before(rti.fed[f].granted, m.tag)
        /\ UpTo(rti.fed[f].provisional, m.tag)

\* No federate gets ahead of a message: until it ends, what is under way to it
\* is for a later tag, or for the current one while the input control reaction
\* of the port waits (or execution has not begun), and what it has queued is
\* popped at the tag it was sent for.
MessagesOnTime ==
    \A f \in Members :
        /\ ~fed[f].failed
        /\ ~Ended(f) /\ ~Dead(f) => \A m \in Underway(f) :
            \/ Before(fed[f].cur, m.tag)
            \/ /\ m.tag = fed[f].cur
               /\ ~fed[f].started
                  \/ (m.from \in fed[f].waiting /\ fed[f].status[m.from] = "unknown")
        /\ \A m \in fed[f].messages : m.at = m.tag

\* No federate gives up: centralized coordination "should not have" messages
\* at or before the current tag, nor PTAGs at or before the last grant.
NoneFails == \A f \in Members : ~fed[f].failed

\* Federates that have ended have executed up to the same stop tag, and none
\* of them passed it.
StopTogether ==
    \A f, g \in Members :
        /\ Ended(f) => fed[f].cur = fed[f].stop
        /\ Ended(f) /\ Ended(g) => fed[f].stop = fed[g].stop

\* With a timeout, or once somebody has asked to stop, every federate comes to
\* its stop tag and resigns: no grant stays out for ever, no tag barrier stays
\* up and no port status stays unknown. Only those that wait for a federate that
\* has died, or for its agreement to stop, may be left behind.
Asked == \E f \in Members : fed[f].sentStop
AllResign ==
    (program.stop # FOREVER_TAG \/ Asked)
        ~> (\A f \in Members :
                \/ fed[f].pc = "resigned"
                \/ \E g \in Members : Dead(g) /\ (g = f \/ HasUp(f) \/ Asked))
=============================================================================
