--------------------------------- MODULE RTI ---------------------------------
(***************************************************************************)
(* The runtime infrastructure of a federation under centralized            *)
(* coordination (core/federated/RTI/rti.c, message_record.c).              *)
(*                                                                         *)
(* The RTI keeps a record of each federate and one handler per message     *)
(* type.  A handler runs with rti_mutex held, so it is an operator from    *)
(* the RTI's state to the next one; what it writes to the socket of a      *)
(* federate is appended to the sequence "out" of that federate.  The wait  *)
(* for a federate that is PENDING is in FederationStart.                   *)
(***************************************************************************)
EXTENDS Tags, Sequences, SequencesExt

\* initialize_federate, once its thread has sent the start time.
InitFederate ==
    [connected |-> TRUE, completed |-> NEVER_TAG, granted |-> NEVER_TAG,
     provisional |-> NEVER_TAG, next |-> NEVER_TAG, transit |-> {},
     requestedStop |-> FALSE]

\* up: the upstream federates of each one, in the order of the array (its domain
\* is 0 .. number_of_federates - 1); delay: of each connection.
InitRTI(up, delay) ==
    [fed |-> [f \in DOMAIN up |-> InitFederate], up |-> up, delay |-> delay,
     out |-> [f \in DOMAIN up |-> <<>>],
     maxStop |-> NEVER_TAG, stopGranted |-> FALSE]

Joined(R) == DOMAIN R.fed
Upstream(R, f) == R.up[f]
Downstream(R, f) == SetToSortSeq({d \in Joined(R) : <<f, d>> \in DOMAIN R.delay}, <)

Write(R, f, m) == [R EXCEPT !.out[f] = Append(@, m)]

\* send_tag_advance_grant
SendTAG(R, f, g) ==
    IF \/ ~R.fed[f].connected
       \/ UpTo(g, R.fed[f].granted)
       \/ Before(g, R.fed[f].provisional)
    THEN R
    ELSE Write([R EXCEPT !.fed[f].granted = g], f, [type |-> "TAG", tag |-> g])

\* transitive_next_event: the tag and the federates visited on the way.
RECURSIVE TransitiveNextEvent(_, _, _, _)
TransitiveNextEvent(R, f, candidate, visited) ==
    IF f \in visited \/ ~R.fed[f].connected
    THEN [tag |-> candidate, visited |-> visited]
    ELSE LET own == Later(Earlier(candidate, R.fed[f].next), <<0, 0>>)
             Visit(acc, u) ==
                LET r == TransitiveNextEvent(R, u, acc.tag, acc.visited)
                IN  [tag |-> Earlier(Delayed(r.tag, R.delay[u, f]), acc.tag),
                     visited |-> r.visited]
             all == FoldLeft(Visit, [tag |-> own, visited |-> visited \cup {f}],
                             Upstream(R, f))
         IN  [all EXCEPT !.tag = Later(@, R.fed[f].completed)]

NextEventFrom(R, f, visited) == TransitiveNextEvent(R, f, R.fed[f].next, visited)

\* send_provisional_tag_advance_grant, which goes on to the upstream ones.
RECURSIVE SendPTAG(_, _, _)
SendPTAG(R, f, g) ==
    IF \/ ~R.fed[f].connected
       \/ UpTo(g, R.fed[f].granted)
       \/ UpTo(g, R.fed[f].provisional)
    THEN R
    ELSE LET sent == Write([R EXCEPT !.fed[f].provisional = g], f,
                           [type |-> "PTAG", tag |-> g])
             Ask(S, u) ==
                IF S.fed[u].connected /\ UpTo(g, NextEventFrom(S, u, {}).tag)
                THEN SendPTAG(S, u, g) ELSE S
         IN  FoldLeft(Ask, sent, Upstream(R, f))

\* send_advance_grant_if_safe
SendAdvanceGrantIfSafe(R, f) ==
    LET me == R.fed[f]
        ups == SelectSeq(Upstream(R, f), LAMBDA u : R.fed[u].connected)
        completed ==
            FoldLeft(LAMBDA acc, u :
                        Earlier(Delayed(R.fed[u].completed, R.delay[u, f]), acc),
                     FOREVER_TAG, ups)
        Visit(acc, u) ==
            LET r == NextEventFrom(R, u, acc.visited)
            IN  [tag |-> Earlier(Delayed(r.tag, R.delay[u, f]), acc.tag),
                 visited |-> r.visited]
        t_d == FoldLeft(Visit, [tag |-> FOREVER_TAG, visited |-> {}], ups).tag
    IN  IF Before(me.granted, completed) THEN SendTAG(R, f, completed)
        ELSE IF /\ Before(me.next, t_d)
                /\ UpTo(me.provisional, t_d) /\ Before(me.granted, t_d)
        THEN SendTAG(R, f, me.next)
        ELSE IF /\ t_d = me.next
                /\ Before(me.provisional, t_d) /\ Before(me.granted, t_d)
        THEN SendPTAG(R, f, t_d)
        ELSE R

\* send_downstream_advance_grants_if_safe, with the federates visited.
RECURSIVE SendDownstream(_, _, _)
SendDownstream(R, f, visited) ==
    LET Visit(acc, d) ==
            IF d \in acc.visited THEN acc
            ELSE SendDownstream(SendAdvanceGrantIfSafe(acc.rti, d), d, acc.visited)
    IN  FoldLeft(Visit, [rti |-> R, visited |-> visited \cup {f}], Downstream(R, f))

GrantDownstream(R, f) == SendDownstream(R, f, {}).rti

\* Mutant: the record of the messages in transit is not consulted.
NoRecord(R, f) == FOREVER_TAG

\* add_in_transit_message_record, clean_in_transit_message_record_up_to_tag
AddInTransit(R, f, g) == [R EXCEPT !.fed[f].transit = @ \cup {g}]
CleanInTransit(R, f, g) == [R EXCEPT !.fed[f].transit = {h \in @ : Before(g, h)}]

\* get_minimum_in_transit_message_tag
MinInTransit(R, f) == FoldSet(Earlier, FOREVER_TAG, R.fed[f].transit)

\* update_federate_next_event_tag_locked
UpdateNextEvent(R, f, g) ==
    LET set == [R EXCEPT !.fed[f].next = Earlier(MinInTransit(R, f), g)]
        own == IF Upstream(R, f) # <<>> THEN SendAdvanceGrantIfSafe(set, f) ELSE set
    IN  GrantDownstream(own, f)

\* handle_next_event_tag
HandleNET(R, f, m) == UpdateNextEvent(R, f, m.tag)

\* handle_logical_tag_complete
HandleLTC(R, f, m) ==
    LET set == CleanInTransit([R EXCEPT !.fed[f].completed = m.tag], f, m.tag)
    IN  FoldLeft(LAMBDA S, d : GrantDownstream(SendAdvanceGrantIfSafe(S, d), d),
                 set, Downstream(R, f))

\* handle_timed_message
HandleTaggedMessage(R, f, m) ==
    IF ~R.fed[m.to].connected THEN R
    ELSE LET set == IF Before(R.fed[m.to].completed, m.tag)
                    THEN AddInTransit(R, m.to, m.tag) ELSE R
         IN  UpdateNextEvent(Write(set, m.to, m), m.to, m.tag)

\* handle_port_absent_message
HandlePortAbsent(R, f, m) == IF R.fed[m.to].connected THEN Write(R, m.to, m) ELSE R

\* _lf_rti_broadcast_stop_time_to_federates_already_locked
BroadcastStopTime(R) ==
    IF R.stopGranted THEN R
    ELSE [R EXCEPT
            !.stopGranted = TRUE,
            !.fed = [f \in Joined(R) |->
                IF @[f].connected THEN [@[f] EXCEPT !.next = Earlier(@, R.maxStop)]
                ELSE @[f]],
            !.out = [f \in Joined(R) |->
                IF R.fed[f].connected
                THEN Append(@[f], [type |-> "STOP_GRANTED", tag |-> R.maxStop])
                ELSE @[f]]]

\* num_feds_handling_stop = number_of_federates
AllHandleStop(R) == \A f \in Joined(R) : R.fed[f].requestedStop

\* mark_federate_requesting_stop
MarkRequestingStop(R, f) ==
    LET set == [R EXCEPT !.fed[f].requestedStop = TRUE]
    IN  IF AllHandleStop(set) THEN BroadcastStopTime(set) ELSE set

\* handle_stop_request_message
HandleStopRequest(R, f, m) ==
    IF R.fed[f].requestedStop THEN R
    ELSE LET marked == MarkRequestingStop([R EXCEPT !.maxStop = Later(@, m.tag)], f)
             request == [type |-> "STOP_REQUEST", tag |-> marked.maxStop]
             Forward(S, i) ==
                IF i = f \/ S.fed[i].requestedStop THEN S
                ELSE IF ~S.fed[i].connected THEN MarkRequestingStop(S, i)
                ELSE Write(S, i, request)
         IN  IF AllHandleStop(marked) THEN marked
             ELSE FoldLeft(Forward, marked, SetToSortSeq(Joined(R), <))

\* handle_stop_request_reply
HandleStopReply(R, f, m) ==
    MarkRequestingStop([R EXCEPT !.maxStop = Later(@, m.tag)], f)

\* handle_federate_resign
HandleResign(R, f) ==
    GrantDownstream([R EXCEPT !.fed[f].connected = FALSE,
                              !.fed[f].next = FOREVER_TAG], f)

\* federate_thread_TCP: the handler of a message from federate f.
Handle(R, f, m) ==
    CASE m.type = "NET" -> HandleNET(R, f, m)
      [] m.type = "LTC" -> HandleLTC(R, f, m)
      [] m.type = "MSG" -> HandleTaggedMessage(R, f, m)
      [] m.type = "ABSENT" -> HandlePortAbsent(R, f, m)
      [] m.type = "STOP_REQUEST" -> HandleStopRequest(R, f, m)
      [] m.type = "STOP_REPLY" -> HandleStopReply(R, f, m)
      [] m.type = "RESIGN" -> HandleResign(R, f)
=============================================================================
