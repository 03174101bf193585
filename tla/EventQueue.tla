----------------------------- MODULE EventQueue -----------------------------
(***************************************************************************)
(* The event queue and the schedule functions (core/reactor_common.c).     *)
(* The operators work on the record E of the runtime's globals: those of   *)
(* Tokens and                                                              *)
(*   cur, stop   current_tag, stop_tag                                     *)
(*   now         physical time, as far as anybody looked                   *)
(*   mem         the events allocated so far; an event is its position, 0  *)
(*               is NULL, and so is a trigger "none"                       *)
(*   eventQ, nextQ, recycleQ   event_q, next_q, recycle_q                  *)
(*   last        trigger->last, 0 before the first one                     *)
(* and, as history,                                                        *)
(*   agenda      every payload promised for an action with no minimum      *)
(*               spacing, [trigger, time, value], in the order of the calls *)
(*   lived       the local time of each mode since its last reset          *)
(*   diary       what the actions in modes wait for, [trigger, due], in    *)
(*               the local time of the mode                                *)
(*   drift       an event in a mode was handled at another local time      *)
(*   seen        the time of the last event of each action                 *)
(*   crowded     two of them came closer than the minimum spacing          *)
(***************************************************************************)
EXTENDS Tags, Sequences, PQueue, Tokens

VARIABLE program    \* the triggers, reactions, ports and modes

Trigger(t) == program.trigger[t]

Times(E) == [e \in DOMAIN E.mem |-> E.mem[e].time]
AfterStopTag(E, g) == Before(E.stop, g)
SetStopTag(E, g) == [E EXCEPT !.stop = Earlier(g, @)]

Event(time, t, token) ==
    [time |-> time, trigger |-> t, token |-> token, next |-> 0, dummy |-> FALSE]

FreshEvent(E) == IF E.recycleQ = <<>> THEN Len(E.mem) + 1 ELSE Head(E.recycleQ)

\* _lf_get_new_event, which is FreshEvent(E), filled in.
NewEvent(E, event) ==
    IF E.recycleQ = <<>> THEN [E EXCEPT !.mem = Append(@, event)]
    ELSE [E EXCEPT !.mem[Head(E.recycleQ)] = event, !.recycleQ = PopAnyOrder(@)]

\* _lf_recycle_event
RecycleEvent(E, e) ==
    [E EXCEPT !.mem[e] = Event(0, "none", 0), !.recycleQ = Append(@, e)]

\* The event of trigger t at this time in event_q, or 0.
Find(E, t, time) ==
    FindSame(E.eventQ, 1, time, {e \in DOMAIN E.mem : E.mem[e].trigger = t}, Times(E))
InQueue(E, e) == Find(E, E.mem[e].trigger, E.mem[e].time) # 0

Enqueue(E, e) == [E EXCEPT !.eventQ = PQInsert(@, e, Times(E))]

RECURSIVE Chain(_, _)
Chain(E, e) == IF e = 0 THEN <<>> ELSE <<e>> \o Chain(E, E.mem[e].next)
LastOf(E, e) == LET c == Chain(E, e) IN c[Len(c)]

\* The history of a payload that will be handled.
Promise(E, t, time, token) ==
    LET m == Trigger(t).mode
        value == IF token = 0 THEN 0 ELSE E.tok[token].value
    IN  IF Trigger(t).timer \/ Trigger(t).period >= 0 THEN E
        ELSE IF m # "none"
        THEN [E EXCEPT !.diary = @ \cup {[trigger |-> t, due |-> E.lived[m] + time - E.cur[1]]}]
        ELSE [E EXCEPT !.agenda = Append(@, [trigger |-> t, time |-> time, value |-> value])]

\* _lf_replace_token
ReplaceToken(E, e, token) ==
    LET old == E.mem[e].token
    IN  [IF old # token THEN DoneUsing(E, old) ELSE E EXCEPT !.mem[e].token = token]

\* The policies give the token back unless it is the one that is there.
GiveBack(E, e, token) == IF E.mem[e].token # token THEN DoneUsing(E, token) ELSE E

-----------------------------------------------------------------------------
\* _lf_schedule(trigger, extra_delay, token), from its new event e on.

\* The event is inserted at this time.
Insert(E, e, t, time) ==
    LET token == E.mem[e].token
        R == [E EXCEPT !.mem[e].time = time]
    IN  IF time > E.stop[1] THEN RecycleEvent(DoneUsing(E, token), e)
        ELSE Promise([Enqueue(R, e) EXCEPT !.last[t] = e], t, time, token)

\* The event lines up behind another one of its time.
LineUp(E, e, before) ==
    [E EXCEPT !.mem[e].time = E.mem[before].time, !.mem[before].next = e]

\* Mutant: behind the first one of its trigger and time.
ScheduleBehindFirst(E, e, t, time) ==
    LET found == Find(E, t, time)
    IN  IF found = 0 THEN Insert(E, e, t, time)
        ELSE Promise(LineUp(E, e, found), t, time, E.mem[e].token)

\* No minimum spacing: behind those of its trigger and time.  The early return
\* keeps the token.
ScheduleUnspaced(E, e, t, time) ==
    LET found == Find(E, t, time)
    IN  IF found = 0 THEN Insert(E, e, t, time)
        ELSE IF AfterStopTag(E, <<time, Len(Chain(E, found))>>) THEN RecycleEvent(E, e)
        ELSE Promise(LineUp(E, e, LastOf(E, found)), t, time, E.mem[e].token)

\* Too close to the last event: drop falls through to replace, and all of them
\* to the earliest time allowed.
ScheduleTooEarly(E, e, t, earliest) ==
    LET last == E.last[t]
        policy == Trigger(t).policy
        token == E.mem[e].token
        pendingNow == E.mem[last].time = E.cur[1] /\ InQueue(E, last)
    IN  CASE policy = "drop" /\ (Trigger(t).period > 0 \/ InQueue(E, last)) ->
                RecycleEvent(GiveBack(E, last, token), e)
          [] policy \in {"drop", "replace"} /\ (E.mem[last].time > E.cur[1] \/ pendingNow) ->
                RecycleEvent(ReplaceToken(E, last, token), e)
          [] policy = "defer" /\ pendingNow ->
                IF AfterStopTag(E, NextMicrostep(E.cur)) THEN RecycleEvent(E, e)
                ELSE [E EXCEPT !.mem[last].next = e]
          [] OTHER -> Insert(E, e, t, earliest)

Schedule(E, t, extraDelay, token) ==
    LET tr == Trigger(t)
        delay == (IF extraDelay < 0 THEN 0 ELSE extraDelay) + (IF tr.timer THEN 0 ELSE tr.offset)
        time == (IF tr.physical THEN E.now ELSE E.cur[1]) + delay
        e == FreshEvent(E)
        R == NewEvent(Retain(E, token), Event(0, t, token))
        earliest == R.mem[E.last[t]].time + tr.period
    IN  IF AfterStopTag(E, E.cur) THEN DoneUsing(E, token)
        ELSE IF tr.period < 0 THEN ScheduleUnspaced(R, e, t, time)
        ELSE IF tr.timer \/ E.last[t] = 0 THEN Insert(R, e, t, time)
        ELSE IF earliest >= time THEN ScheduleTooEarly(R, e, t, earliest)
        ELSE Insert(R, e, t, time)

\* _lf_schedule_value (and _lf_schedule_copy, _lf_schedule_int, which allocate the
\* value before)
ScheduleValue(E, a, extraDelay, value) ==
    LET R == TokenWithValue(E, <<"action", a>>, value)
    IN  Schedule(R, a, extraDelay, R.tmplt[<<"action", a>>])

-----------------------------------------------------------------------------
\* _lf_schedule_at_tag, as the transitions of modes call it: at microstep 0 of a
\* later time, or at the next microstep of the current time.  The next microstep
\* is taken for the one behind an event that is there.

AtLaterTime(E, e, t, found) ==
    LET F == [E EXCEPT !.mem[found].dummy = FALSE]
        token == E.mem[e].token
    IN  CASE Trigger(t).policy = "drop" -> RecycleEvent(GiveBack(F, found, token), e)
          [] Trigger(t).policy = "replace" -> RecycleEvent(ReplaceToken(F, found, token), e)
          [] OTHER ->
                IF AfterStopTag(E, <<E.mem[found].time, 1>>) THEN RecycleEvent(F, e)
                ELSE IF E.mem[found].next # 0 THEN F
                ELSE LineUp(F, e, found)

BehindFound(E, e, t, found) ==
    LET second == E.mem[found].next
        token == E.mem[e].token
    IN  IF second = 0 THEN LineUp(E, e, found)
        ELSE CASE Trigger(t).policy = "drop" -> RecycleEvent(GiveBack(E, second, token), e)
               [] Trigger(t).policy = "replace" -> RecycleEvent(ReplaceToken(E, second, token), e)
               [] OTHER ->
                     IF AfterStopTag(E, <<E.mem[found].time, E.cur[2] + 2>>) THEN RecycleEvent(E, e)
                     ELSE IF E.mem[second].next # 0 THEN E
                     ELSE LineUp(E, e, second)

ScheduleAtTag(E, t, g, token) ==
    LET e == FreshEvent(E)
        R == NewEvent(Retain(E, token), Event(g[1], t, token))
        found == Find(R, t, g[1])
    IN  IF UpTo(g, E.cur) THEN E
        ELSE IF AfterStopTag(E, g) THEN DoneUsing(Retain(E, token), token)
        ELSE IF found = 0 THEN Enqueue(R, e)
        ELSE IF g[2] = 0 THEN AtLaterTime(R, e, t, found)
        ELSE BehindFound(R, e, t, found)

\* _lf_create_dummy_events(NULL, time, NULL, 1): a place holder in event_q.
EnqueueDummy(E, time) ==
    Enqueue(NewEvent(E, [Event(time, "none", 0) EXCEPT !.dummy = TRUE]), FreshEvent(E))
=============================================================================
