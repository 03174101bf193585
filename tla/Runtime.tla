------------------------------ MODULE Runtime -------------------------------
(***************************************************************************)
(* The unthreaded runtime (core/reactor.c, with core/reactor_common.c):    *)
(* reactions run one at a time in the order of their indices, then modes   *)
(* change, then logical time moves to the next event, no earlier than      *)
(* physical time gets there.                                               *)
(*                                                                         *)
(* A program's reactions are sets of bodies, a body a sequence of calls of *)
(* the API; one of them is chosen whenever the reaction runs.  What the    *)
(* code generator emits (the start of timers, the lists of startup, reset  *)
(* and shutdown reactions) follows from the program.                       *)
(***************************************************************************)
EXTENDS Modes

CONSTANT Programs

VARIABLES
    pc,     \* "start", "step" in _lf_do_step, "next" and "sleep" in next, "ended", "done"
    env     \* the record E of the globals

vars == <<program, pc, env>>

Reaction(r) == program.reaction[r]
Templates == {<<"action", t>> : t \in DOMAIN program.trigger}
                \cup {<<"trigger", t>> : t \in DOMAIN program.trigger}
                \cup {<<"port", p>> : p \in DOMAIN program.port}

\* initialize, with a template token for every port and action.
InitEnv(p) ==
    LET triggers == DOMAIN p.trigger
        modes == DOMAIN p.stateOf
        states == ToSet(p.states)
        xs == {<<"action", t>> : t \in triggers} \cup {<<"port", q>> : q \in DOMAIN p.port}
        order == SetToSeq(xs)
    IN  [cur |-> <<StartTime, 0>>, now |-> StartTime, failed |-> FALSE,
         stop |-> IF p.timeout < 0 THEN FOREVER_TAG ELSE <<StartTime + p.timeout, 0>>,
         mem |-> <<>>, eventQ |-> <<>>, nextQ |-> <<>>, recycleQ |-> <<>>,
         last |-> [t \in triggers |-> 0], until |-> <<StartTime, 0>>,
         tok |-> [i \in DOMAIN order |-> [refs |-> 1, value |-> 0]], bin |-> {}, copies |-> <<>>,
         tmplt |-> [x \in xs \cup {<<"trigger", t>> : t \in triggers} |->
                        IF x \in xs THEN CHOOSE i \in DOMAIN order : order[i] = x ELSE 0],
         reactionQ |-> <<>>, status |-> [r \in DOMAIN p.reaction |-> "inactive"],
         running |-> "none", immediate |-> "none", present |-> {}, unmoded |-> {},
         flags |-> [m \in modes |-> {}], current |-> p.initial,
         next |-> [s \in states |-> "none"], change |-> [s \in states |-> "none"],
         deactivated |-> [m \in modes |-> 0], suspended |-> <<>>, request |-> {},
         budget |-> p.budget, made |-> 0, ran |-> <<>>,
         agenda |-> <<>>, lived |-> [m \in modes |-> 0], diary |-> {}, drift |-> FALSE,
         seen |-> [t \in triggers |-> 0], crowded |-> FALSE]

Init ==
    /\ program \in Programs
    /\ pc = "start"
    /\ env = InitEnv(program)

-----------------------------------------------------------------------------
ModeOf(E, r) == IF r \in E.unmoded THEN "none" ELSE Reaction(r).mode
Indices == [r \in DOMAIN program.reaction |-> Reaction(r).index]

\* _lf_trigger_reaction
TriggerReaction(E, r) ==
    IF ~Active(E, ModeOf(E, r)) \/ E.status[r] # "inactive" THEN E
    ELSE [E EXCEPT !.status[r] = "queued", !.reactionQ = PQInsert(@, r, Indices)]

TriggerAll(E, rs) == FoldLeft(TriggerReaction, E, rs)

\* Startup and reset reactions in modes.
HandleModeTriggered(E) ==
    ModesTriggered(TriggerAll(E, ModeTriggered(E, program.startup, program.reset)))

\* The startup reactions outside of modes, then those in modes.
TriggerStartup(E) ==
    HandleModeTriggered(TriggerAll(E, SelectSeq(program.startup, LAMBDA r : Reaction(r).mode = "none")))

\* _lf_handle_mode_shutdown_reactions, after the shutdown reactions outside of
\* modes: those of modes that were started run, active or not.
TriggerShutdown(E) ==
    LET due(r) == Reaction(r).mode = "none" \/ (Reaction(r).mode # "none"
                                                /\ "HAD_STARTUP" \in E.flags[Reaction(r).mode])
        rs == SelectSeq(program.shutdown, due)
    IN  TriggerAll([E EXCEPT !.unmoded = @ \cup ToSet(rs)], rs)

\* _lf_initialize_timer
InitializeTimer(E, t) ==
    LET tr == Trigger(t)
        e == FreshEvent(E)
        At(delay) == NewEvent(E, Event(E.cur[1] + delay, t, 0))
    IN  IF ~Active(E, tr.mode) THEN [At(tr.offset) EXCEPT !.suspended = <<e>> \o @]
        ELSE IF tr.offset > 0 THEN Enqueue(At(tr.offset), e)
        ELSE IF tr.period = 0 THEN TriggerAll(E, tr.reactions)
        ELSE TriggerAll(Enqueue(At(tr.period), e), tr.reactions)

-----------------------------------------------------------------------------
\* The calls of a reaction.

\* lf_set of a token, and the ports it reads.
SetPresent(E, p) == [E EXCEPT !.present = @ \cup {p}]
SetToken(E, p, t) == SetPresent(ReplaceTemplateToken(E, <<"port", p>>, t), p)
Writable(E, p) ==
    LET x == <<"port", p>>
    IN  IF IsWritable(E, x, program.port[p].destinations) THEN E.tmplt[x] ELSE FreshToken(E)

\* lf_request_stop
RequestStop(E) == SetStopTag(E, NextMicrostep(E.cur))

Call(E0, call) ==
    LET E == [E0 EXCEPT !.budget = @ - 1]
        made == E.made + 1
        Made == [E EXCEPT !.made = made]
    IN  CASE call[1] = "schedule" -> Schedule(E, call[2], call[3], 0)
          [] call[1] = "value" -> ScheduleValue(Made, call[2], call[3], made)
          [] call[1] = "set" -> SetPresent(TokenWithValue(Made, <<"port", call[2]>>, made), call[2])
          \* lf_schedule_token of an input's token
          [] call[1] = "delay" -> IF call[2] \notin E.present THEN E
                                  ELSE Schedule(E, call[3], call[4], E.tmplt[<<"port", call[2]>>])
          \* lf_set_token of a writable copy of an input
          [] call[1] = "pass" -> IF call[2] \notin E.present THEN E
                                 ELSE SetToken(WritableCopy(E, <<"port", call[2]>>,
                                                    program.port[call[2]].destinations),
                                               call[3], Writable(E, call[2]))
          [] call[1] = "mode" -> [E EXCEPT !.next[StateOf(call[2])] = call[2],
                                           !.change[StateOf(call[2])] = call[3]]
          [] call[1] = "stop" -> RequestStop(E)

\* Mutant: a reaction is executed at once though another one was triggered.
ChooseAlways(acc, d, r) ==
    IF d = acc.chosen THEN acc
    ELSE IF Reaction(d).last = r THEN [acc EXCEPT !.n = @ + 1, !.chosen = d]
    ELSE [E |-> TriggerReaction(acc.E, d), n |-> acc.n + 1, chosen |-> acc.chosen]

\* One reaction d that reads what reaction r produced: a first one that waits for
\* nothing else is executed at once, unless others turn up.
Choose(acc, d, r) ==
    LET n == acc.n + 1
    IN  IF d = acc.chosen THEN acc
        ELSE IF n = 1 /\ Reaction(d).last = r THEN [acc EXCEPT !.n = n, !.chosen = d]
        ELSE [E |-> TriggerReaction(IF acc.chosen = "none" THEN acc.E
                                    ELSE TriggerReaction(acc.E, acc.chosen), d),
              n |-> n, chosen |-> "none"]

\* schedule_output_reactions
ScheduleOutputReactions(E, r) ==
    LET produced == SelectSeq(Reaction(r).outputs, LAMBDA p : p \in E.present)
        readers == FlattenSeq([i \in DOMAIN produced |-> program.port[produced[i]].readers])
        acc == FoldLeft(LAMBDA a, d : Choose(a, d, r), [E |-> E, n |-> 0, chosen |-> "none"], readers)
    IN  [acc.E EXCEPT !.immediate = acc.chosen]

-----------------------------------------------------------------------------
\* A deadline of 0 is always violated.
Late(r) ==
    /\ Reaction(r).deadline >= 0
    /\ Reaction(r).deadline = 0 \/ env.now > env.cur[1] + Reaction(r).deadline

\* The reaction that was popped is done once nothing is left to run at once.
Finish(E) ==
    IF E.immediate # "none" THEN E
    ELSE [E EXCEPT !.status[E.running] = "inactive", !.running = "none"]

\* Reaction r runs, or the handler of its deadline; without a handler nothing.
Invoke(E, r) ==
    LET Ran == [E EXCEPT !.ran = Append(@, r), !.immediate = "none"]
        bodies == IF Late(r) THEN Reaction(r).handler ELSE Reaction(r).bodies
    IN  IF bodies = {} THEN env' = Finish([E EXCEPT !.immediate = "none"])
        ELSE \E body \in bodies :
                /\ Len(body) <= E.budget
                /\ env' = Finish(ScheduleOutputReactions(FoldLeft(Call, Ran, body), r))

\* _lf_do_step: the next reaction.
React ==
    /\ pc = "step" /\ env.running = "none" /\ env.reactionQ # <<>>
    /\ LET r == Head(env.reactionQ)
       IN  Invoke([env EXCEPT !.reactionQ = PQPop(@, Indices), !.running = r,
                              !.status[r] = "running"], r)
    /\ UNCHANGED <<program, pc>>

\* schedule_output_reactions, the reaction executed at once.
ReactAtOnce ==
    /\ pc = "step" /\ env.immediate # "none"
    /\ Invoke(env, env.immediate)
    /\ UNCHANGED <<program, pc>>

\* _lf_do_step, when no reaction is left.
EndStep ==
    /\ pc = "step" /\ env.running = "none" /\ env.reactionQ = <<>>
    /\ env' = ProcessModeChanges(env)
    /\ pc' = IF UpTo(env.stop, env.cur) THEN "ended" ELSE "next"
    /\ UNCHANGED program

\* lf_reactor_c_main, up to the first step.
Start ==
    /\ pc = "start" /\ pc' = "step" /\ UNCHANGED program
    /\ LET Begun == FoldLeft(InitializeTimer, TriggerStartup(InitializeModes(env)), program.timers)
       IN  env' = IF UpTo(Begun.stop, Begun.cur) THEN TriggerShutdown(Begun) ELSE Begun

\* Mutant: the stop tag is not looked at.
UntilNextEvent(E) ==
    IF E.eventQ = <<>> THEN FOREVER_TAG ELSE <<E.mem[Head(E.eventQ)].time, 0>>

\* get_next_event_tag, capped by the stop tag.
Until(E) ==
    LET time == E.mem[Head(E.eventQ)].time
    IN  IF E.eventQ = <<>> THEN E.stop
        ELSE Earlier(IF time = E.cur[1] THEN NextMicrostep(E.cur) ELSE <<time, 0>>, E.stop)

\* next, up to the wait.
AskNext ==
    /\ pc = "next" /\ pc' = "sleep" /\ UNCHANGED program
    /\ LET E == IF env.eventQ = <<>> /\ ~program.keepalive
                THEN SetStopTag(env, NextMicrostep(env.cur)) ELSE env
       IN  env' = [E EXCEPT !.until = Until(E)]

\* _lf_start_time_step
StartTimeStep(E) == [FreeTokenCopies(E) EXCEPT !.present = {}]

\* An event is handled: its reactions, the next one of a timer, its token.
Deliver(E, event) ==
    LET t == event.trigger
        tr == Trigger(t)
        R == TriggerAll(E, tr.reactions)
        S == IF tr.timer /\ tr.period > 0 THEN Schedule(R, t, tr.period, 0) ELSE R
    IN  DoneUsing(ReplaceTemplateToken(S, <<"trigger", t>>, event.token), event.token)

\* History: the time since the last event of an action with a minimum spacing.
Spaced(E, event) ==
    LET t == event.trigger
    IN  IF Trigger(t).timer \/ Trigger(t).period < 0 THEN E
        ELSE [E EXCEPT !.seen[t] = E.cur[1],
                       !.crowded = @ \/ (E.seen[t] > 0 /\ E.cur[1] - E.seen[t] < Trigger(t).period)]

\* History: the local time at which an event in a mode is handled.
Punctual(E, event) ==
    LET t == event.trigger
        m == Trigger(t).mode
        entry == [trigger |-> t, due |-> E.lived[m]]
    IN  IF m = "none" THEN E
        ELSE IF Trigger(t).timer
        THEN LET late == E.lived[m] - Trigger(t).offset
             IN  [E EXCEPT !.drift = @ \/ (IF Trigger(t).period = 0 THEN late # 0
                                           ELSE late % Trigger(t).period # 0)]
        ELSE [E EXCEPT !.drift = @ \/ entry \notin E.diary, !.diary = @ \ {entry}]

\* _lf_pop_events: the events of the current time, one of each chain.
RECURSIVE PopDue(_)
PopDue(E) ==
    IF E.eventQ = <<>> THEN E
    ELSE LET e == Head(E.eventQ)
             event == E.mem[e]
             R == [E EXCEPT !.eventQ = PQPop(@, Times(E)),
                            !.nextQ = IF event.next = 0 THEN @ ELSE Append(@, event.next)]
         IN  IF event.time # E.cur[1] THEN E
             ELSE IF event.dummy THEN PopDue(RecycleEvent(R, e))
             ELSE PopDue(RecycleEvent(Spaced(Punctual(Deliver(R, event), event), event), e))

RECURSIVE FromNextQ(_)
FromNextQ(E) ==
    IF E.nextQ = <<>> THEN E
    ELSE FromNextQ(Enqueue([E EXCEPT !.nextQ = PopAnyOrder(@)], Head(E.nextQ)))

PopEvents(E) == FromNextQ(PopDue(HandleModeTriggered(E)))

\* History: the first payloads of the current time are due.
Honour(E) ==
    LET due(i) == /\ E.agenda[i].time = E.cur[1]
                  /\ \A j \in 1 .. i - 1 : E.agenda[j].time # E.cur[1]
                                                \/ E.agenda[j].trigger # E.agenda[i].trigger
        rest == SelectSeq([i \in DOMAIN E.agenda |-> i], LAMBDA i : ~due(i))
    IN  [E EXCEPT !.agenda = [i \in DOMAIN rest |-> E.agenda[rest[i]]]]

\* _lf_advance_logical_time
AdvanceLogicalTime(E, time) ==
    IF E.cur[1] < time
    THEN [E EXCEPT !.cur = <<time, 0>>, !.ran = <<>>,
                   !.lived = [m \in Modes |-> @[m] + IF Active(E, m) THEN time - E.cur[1] ELSE 0]]
    ELSE IF E.cur[1] = time THEN [E EXCEPT !.cur = NextMicrostep(@), !.ran = <<>>]
    ELSE [E EXCEPT !.failed = TRUE]

\* next, once physical time gets there.
Wake ==
    /\ pc = "sleep" /\ env.until[1] < FOREVER /\ UNCHANGED program
    /\ LET Awake == [env EXCEPT !.now = IF @ < env.until[1] THEN env.until[1] ELSE @]
           E == AdvanceLogicalTime(Awake, env.until[1])
           Stopping == IF UpTo(E.stop, E.cur) THEN TriggerShutdown(E) ELSE E
       IN  IF E.failed THEN pc' = "done" /\ env' = E
           ELSE pc' = "step" /\ env' = PopEvents(StartTimeStep(Honour(Stopping)))

\* An interrupt schedules a physical action; a wait ends early, and next returns.
Interrupt(a) ==
    /\ pc \in {"step", "sleep"} /\ env.budget > 0
    /\ pc = "sleep" => env.now < env.until[1]
    /\ pc' = IF pc = "sleep" THEN "next" ELSE pc
    /\ env' = Call(env, <<"value", a, 0>>)
    /\ UNCHANGED program

Tick ==
    /\ pc \in {"step", "sleep"} /\ env.now < program.clock
    /\ env' = [env EXCEPT !.now = @ + 1]
    /\ UNCHANGED <<program, pc>>

\* termination
Terminate ==
    /\ pc = "ended" /\ pc' = "done" /\ UNCHANGED program
    /\ env' = FreeTemplates(TerminateModes(StartTimeStep(env)), Templates)

Thread == Start \/ React \/ ReactAtOnce \/ EndStep \/ AskNext \/ Wake \/ Terminate

Next == Thread \/ Tick \/ \E a \in program.external : Interrupt(a)

Spec == Init /\ [][Next]_vars

\* The one thread runs on; interrupts and the clock owe nothing, but a wait ends.
\* This is WF_vars(Thread), with the states in which Thread is enabled spelled
\* out: a reaction always has a body that the budget allows.
Ready == pc \in {"start", "step", "next", "ended"} \/ (pc = "sleep" /\ env.until[1] < FOREVER)
FairSpec == Spec /\ ([]<>(~Ready) \/ []<><<Thread>>_vars)

-----------------------------------------------------------------------------
\* The event queue is a heap and every event is in one place: waiting, in the
\* chain of a waiting event, suspended, or to be recycled.
Heads == env.eventQ \o env.suspended
Waiting == FlattenSeq([i \in DOMAIN Heads |-> Chain(env, Heads[i])])
EventsApart ==
    pc # "done" =>
        /\ PQIsValid(env.eventQ, Times(env))
        /\ LET places == Waiting \o env.recycleQ
           IN  /\ Len(places) = Cardinality(ToSet(places))
               /\ \A e \in ToSet(Waiting) : env.mem[e].time >= env.cur[1] \/ e \in
                    UNION {ToSet(Chain(env, s)) : s \in ToSet(env.suspended)}

\* Every payload that was promised waits for its tag: a later call for the same
\* action and time is handled one microstep later, nothing is lost or doubled.
Payloads(t, time) ==
    LET own == SelectSeq(env.agenda, LAMBDA p : p.trigger = t /\ p.time = time)
    IN  [i \in DOMAIN own |-> own[i].value]
Scheduled(t, time) ==
    LET c == Chain(env, Find(env, t, time))
    IN  [i \in DOMAIN c |-> IF env.mem[c[i]].token = 0 THEN 0
                             ELSE env.tok[env.mem[c[i]].token].value]
AgendaKept ==
    pc # "done" =>
        \A t \in DOMAIN program.trigger :
            (~Trigger(t).timer /\ Trigger(t).mode = "none" /\ Trigger(t).period < 0) =>
                \A time \in {p.time : p \in ToSet(env.agenda)}
                               \cup {env.mem[e].time : e \in ToSet(env.eventQ)} :
                    Scheduled(t, time) = Payloads(t, time)

\* No payload is freed while somebody still refers to it: a token counts at least
\* the templates, events and copies that point to it.
NoDangling ==
    \A k \in DOMAIN env.tok :
        LET users == Cardinality({x \in Templates : env.tmplt[x] = k})
                        + Cardinality({e \in ToSet(Waiting) : env.mem[e].token = k})
                        + Cardinality({i \in DOMAIN env.copies : env.copies[i] = k})
        IN  pc # "done" => users <= env.tok[k].refs /\ (k \in env.bin => users = 0)

\* Between two tags the cached flag of a mode says whether it and all modes
\* around it are current.
ModeFlagsAgree ==
    pc \in {"next", "sleep"} => \A m \in Modes : Active(env, m) <=> ActiveFallback(env, m)

\* Time stands still in a mode that is not active: what was scheduled there is
\* handled when its delay has passed in local time, and not missed.
LocalTime ==
    /\ ~env.drift
    /\ \A d \in env.diary : d.due >= env.lived[Trigger(d.trigger).mode]

\* A reaction runs once at a tag, not before one of its own reactor with a lower
\* index and not before one that writes a port it reads; when the tag is over,
\* whoever reads a port that was written has run, late ones apart.
Precedes(a, b) ==
    \/ Reaction(a).reactor = Reaction(b).reactor /\ Reaction(a).index < Reaction(b).index
    \/ \E p \in ToSet(Reaction(a).outputs) : b \in ToSet(program.port[p].readers)
RightOrder ==
    /\ \A i, j \in DOMAIN env.ran :
          i < j => env.ran[i] # env.ran[j] /\ ~Precedes(env.ran[j], env.ran[i])
    /\ pc \in {"next", "sleep"} =>
          \A p \in env.present : \A r \in ToSet(program.port[p].readers) :
              Reaction(r).deadline < 0 => r \in ToSet(env.ran)

\* What include/core/lf_types.h says of the default policy: the tag is adjusted so
\* that the minimum interarrival time is satisfied.
SpacingKept == ~env.crowded

\* With a timeout the program ends.
Termination == program.timeout >= 0 => <>(pc = "done")
=============================================================================
