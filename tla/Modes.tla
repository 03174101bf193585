------------------------------- MODULE Modes --------------------------------
(***************************************************************************)
(* Modal reactors (core/modal_models/modes.c).  A program has the modal    *)
(* reactors program.states, an enclosing one before an inner one; each has *)
(* its modes, an initial one, and a parent mode or "none".  To the record  *)
(* E of EventQueue the operators add                                       *)
(*   flags       mode->flags: ACTIVE, NEEDS_STARTUP, HAD_STARTUP and       *)
(*               NEEDS_RESET                                               *)
(*   current, next, change   mode state of each modal reactor              *)
(*   deactivated deactivation_time of each mode                            *)
(*   suspended   the suspended events, head first                          *)
(*   request     _lf_mode_triggered_reactions_request                      *)
(***************************************************************************)
EXTENDS EventQueue, SequencesExt

StartTime == 1  \* any time other than 0, which means "never" to deactivation_time

States == ToSet(program.states)
Modes == DOMAIN program.stateOf
StateOf(m) == program.stateOf[m]

\* _lf_mode_is_active, by the cached flag, and _lf_mode_is_active_fallback.
Active(E, m) == m = "none" \/ (m # "none" /\ "ACTIVE" \in E.flags[m])
RECURSIVE ActiveFallback(_, _)
ActiveFallback(E, m) ==
    m = "none" \/ (m # "none" /\ E.current[StateOf(m)] = m
                    /\ ActiveFallback(E, program.parent[StateOf(m)]))

\* One state after the other, in the order of the array.
OverStates(E, Do(_, _)) == FoldLeft(Do, E, program.states)

\* _lf_initialize_mode_states
InitializeModes(E) ==
    LET one(R, s) ==
            IF Active(R, program.parent[s])
            THEN [R EXCEPT !.flags[R.current[s]] = @ \cup {"ACTIVE", "NEEDS_STARTUP"}] ELSE R
    IN  [OverStates(E, one) EXCEPT !.request = @ \cup {"NEEDS_STARTUP"}]

\* _lf_handle_mode_startup_reset_reactions, the reactions: the startup ones of
\* modes entered for the first time, the reset ones of modes just reset.
ModeTriggered(E, startup, reset) ==
    LET due(flag, rs) ==
            IF flag \notin E.request THEN <<>>
            ELSE SelectSeq(rs, LAMBDA r : LET m == program.reaction[r].mode
                            IN m # "none" /\ Active(E, m) /\ flag \in E.flags[m])
    IN  due("NEEDS_STARTUP", startup) \o due("NEEDS_RESET", reset)

\* ... and the flags.
ModesTriggered(E) ==
    LET started(flags) ==
            IF "NEEDS_STARTUP" \in flags
            THEN (flags \ {"NEEDS_STARTUP", "NEEDS_RESET"}) \cup {"HAD_STARTUP"}
            ELSE flags \ {"NEEDS_RESET"}
        one(R, s) ==
            IF Active(R, R.current[s]) THEN [R EXCEPT !.flags[R.current[s]] = started(@)] ELSE R
    IN  [OverStates(E, one) EXCEPT !.request = {}]

-----------------------------------------------------------------------------
\* _lf_process_mode_changes

\* Mutant: the delay that remains counts from the transition.
RemainingFromNow(E, e, m) == E.mem[e].time - E.cur[1]

\* What an event still had to wait when its mode was left.
RemainingDelay(E, e, m) ==
    E.mem[e].time - (IF E.deactivated[m] # 0 THEN E.deactivated[m] ELSE StartTime)

\* A transition to mode m by history: the event resumes.  Its chain goes behind
\* the last event of its trigger, if that one has none.
Resume(E, e, m) ==
    LET t == E.mem[e].trigger
        d == RemainingDelay(E, e, m)
        g == IF d = 0 THEN NextMicrostep(E.cur) ELSE <<E.cur[1] + d, 0>>
        R == ScheduleAtTag(E, t, g, E.mem[e].token)
        last == R.last[t]
    IN  IF E.mem[e].next = 0 \/ last = 0 THEN R
        ELSE IF R.mem[last].next # 0 THEN R
        ELSE [R EXCEPT !.mem[last].next = E.mem[e].next]

\* The suspended events of mode m, which modal reactor s enters.
Reactivate(E, s, m) ==
    LET reset == E.change[s] = "reset"
        one(R, e) ==
            RecycleEvent(
                IF reset
                THEN IF Trigger(E.mem[e].trigger).timer
                     THEN Schedule(R, E.mem[e].trigger, Trigger(E.mem[e].trigger).offset, 0) ELSE R
                ELSE IF m # E.current[s] THEN Resume(R, e, m) ELSE R, e)
        own(e) == /\ E.mem[e].trigger # "none"
                  /\ Trigger(E.mem[e].trigger).mode = m
    IN  [FoldLeft(one, E, SelectSeq(E.suspended, own)) EXCEPT
            !.suspended = SelectSeq(@, LAMBDA e : ~own(e))]

\* The timers of mode m without a period fire again after a reset.
RestartTimers(E, m) ==
    FoldLeft(LAMBDA R, t : Schedule(R, t, Trigger(t).offset, 0), E,
             SelectSeq(program.timers, LAMBDA t : Trigger(t).period = 0 /\ Trigger(t).mode = m))

\* History: the local time of mode m begins anew.
Renewed(E, m) ==
    [E EXCEPT !.lived[m] = 0, !.diary = {d \in @ : Trigger(d.trigger).mode # m}]

\* A transition of modal reactor s: its own, or a reset that it inherits.
Enter(E, s) ==
    LET p == program.parent[s]
        inherits == p # "none" /\ (p # "none" => /\ E.next[StateOf(p)] = p
                                                 /\ E.change[StateOf(p)] = "reset")
        R == IF inherits THEN [E EXCEPT !.next[s] = program.initial[s], !.change[s] = "reset"] ELSE E
        m == R.next[s]
    IN  IF m = "none" THEN R
        ELSE Reactivate(IF R.change[s] = "reset" THEN RestartTimers(Renewed(R, m), m) ELSE R, s, m)

\* Mutant: only the modes that change lose and get the flag.
SwitchChanging(E, s) ==
    LET old == E.current[s]
        new == E.next[s]
    IN  IF new = "none" THEN E
        ELSE [E EXCEPT !.flags = [[@ EXCEPT ![old] = @ \ {"ACTIVE"}] EXCEPT ![new] = @ \cup {"ACTIVE"}],
                       !.deactivated[old] = E.cur[1], !.current[s] = new,
                       !.next[s] = "none", !.change[s] = "none"]

\* Modal reactor s changes its mode, and an inner one follows its parent.
SwitchMode(E, s) ==
    LET old == E.current[s]
        new == E.next[s]
        Off == [E EXCEPT !.flags[old] = @ \ {"ACTIVE"}]
        asked == IF "HAD_STARTUP" \in Off.flags[new] THEN {} ELSE {"NEEDS_STARTUP"}
        flags == IF E.change[s] = "reset" THEN Off.flags[new] \cup asked \cup {"NEEDS_RESET"}
                 ELSE (Off.flags[new] \cup asked) \ {"NEEDS_RESET"}
        On == IF new = "none" THEN Off
              ELSE [Off EXCEPT !.deactivated[old] = E.cur[1], !.current[s] = new,
                               !.flags[new] = flags, !.next[s] = "none", !.change[s] = "none"]
        m == On.current[s]
    IN  IF ~Active(On, program.parent[s]) THEN On
        ELSE [On EXCEPT !.flags[m] = @ \cup {"ACTIVE"},
                        !.request = @ \cup (On.flags[m] \cap {"NEEDS_STARTUP", "NEEDS_RESET"})]

\* The events of inactive modes leave event_q.
Suspend(E) ==
    LET inactive(e) == /\ E.mem[e].trigger # "none"
                       /\ ~Active(E, Trigger(E.mem[e].trigger).mode)
    IN  FoldLeft(LAMBDA R, e : [R EXCEPT !.eventQ = PQRemove(@, e, Times(R)),
                                         !.suspended = <<e>> \o @],
                 E, SelectSeq(E.eventQ, inactive))

ProcessModeChanges(E) ==
    LET Entered == OverStates(E, Enter)
        Switched == Suspend(OverStates(Entered, SwitchMode))
    IN  IF \A s \in States : Entered.next[s] = "none" THEN Entered
        ELSE IF Switched.request # {} THEN EnqueueDummy(Switched, E.cur[1]) ELSE Switched

\* _lf_terminate_modal_reactors
TerminateModes(E) ==
    [FoldLeft(RecycleEvent, E, E.suspended) EXCEPT !.suspended = <<>>]
=============================================================================
