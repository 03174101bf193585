----------------------------- MODULE MCRuntime ------------------------------
(***************************************************************************)
(* Small programs for Runtime.                                             *)
(***************************************************************************)
EXTENDS Runtime

MCNever == -1000
MCForever == 1000

Timer(offset, period, mode, reactions) ==
    [timer |-> TRUE, offset |-> offset, period |-> period, physical |-> FALSE,
     policy |-> "defer", mode |-> mode, reactions |-> reactions]
Action(offset, mode, reactions) ==
    [Timer(offset, -1, mode, reactions) EXCEPT !.timer = FALSE]
Physical(offset, reactions) == [Action(offset, "none", reactions) EXCEPT !.physical = TRUE]
WithSpacing(offset, spacing, policy, reactions) ==
    [Action(offset, "none", reactions) EXCEPT !.period = spacing, !.policy = policy]

\* A reaction with this index in a reactor of its own, unless it says otherwise.
React1(index, outputs, bodies) ==
    [index |-> index, reactor |-> index, deadline |-> -1, handler |-> {}, mode |-> "none",
     outputs |-> outputs, last |-> "none", bodies |-> bodies]
In(mode, r) == [r EXCEPT !.mode = mode]
Mine(reactor, r) == [r EXCEPT !.reactor = reactor]
Only(last, r) == [r EXCEPT !.last = last]
Within(deadline, handler, r) == [r EXCEPT !.deadline = deadline, !.handler = handler]

Plain(trigger, reaction) ==
    [trigger |-> trigger, reaction |-> reaction, port |-> <<>>, timers |-> <<>>,
     startup |-> <<"go">>, reset |-> <<>>, shutdown |-> <<>>,
     states |-> <<>>, stateOf |-> <<>>, initial |-> <<>>, parent |-> <<>>,
     timeout |-> 2, keepalive |-> FALSE, budget |-> 5, external |-> {}, clock |-> 0]

\* Two actions that line up payloads for each other, beside a timer.
Lines ==
    [Plain([a |-> Action(0, "none", <<"ra">>), b |-> Action(1, "none", <<"rb">>),
            t |-> Timer(1, 1, "none", <<"rt">>)],
           [go |-> React1(1, <<>>, {<<<<"value", "b", 0>>, <<"value", "b", 0>>>>,
                                    <<<<"value", "a", 0>>, <<"value", "a", 1>>>>}),
            ra |-> React1(2, <<>>, {<<>>, <<<<"value", "a", 0>>>>, <<<<"schedule", "b", 0>>>>}),
            rb |-> React1(3, <<>>, {<<>>, <<<<"value", "a", 0>>, <<"value", "a", 0>>>>}),
            rt |-> React1(4, <<>>, {<<>>, <<<<"value", "b", 0>>>>, <<<<"stop">>>>})])
     EXCEPT !.timers = <<"t">>, !.budget = 7]

\* A pipeline: payloads passed on, delayed and copied; the middle reactor reads
\* nothing else and runs at once.
Pipeline ==
    [Plain([t |-> Timer(0, 1, "none", <<"src">>), d |-> Action(0, "none", <<"late">>)],
           [src |-> React1(1, <<"p">>, {<<<<"set", "p">>>>, <<<<"set", "p">>, <<"set", "p">>>>}),
            mid |-> Only("src", React1(2, <<"q">>, {<<<<"pass", "p", "q">>>>,
                                                    <<<<"delay", "p", "d", 1>>>>})),
            log |-> Only("src", React1(3, <<>>, {<<>>, <<<<"delay", "p", "d", 0>>>>})),
            snk |-> Only("mid", React1(4, <<"o">>, {<<>>, <<<<"pass", "q", "o">>, <<"delay", "q", "d", 1>>>>})),
            late |-> React1(5, <<>>, {<<>>}),
            end |-> React1(6, <<>>, {<<>>})])
     EXCEPT !.port = [p |-> [readers |-> <<"mid", "log">>, destinations |-> 2],
                      q |-> [readers |-> <<"snk">>, destinations |-> 1],
                      o |-> [readers |-> <<>>, destinations |-> 0]],
            !.timers = <<"t">>, !.startup = <<>>, !.shutdown = <<"end">>, !.budget = 7]
\* Only one reader: the middle reactor does run at once.
Chained == [Pipeline EXCEPT !.port.p = [readers |-> <<"mid">>, destinations |-> 1]]

\* Interrupts with payloads, deadlines with and without a handler.
Sensor ==
    [Plain([s |-> Physical(0, <<"rs">>), u |-> Action(0, "none", <<"ru">>)],
           [go |-> React1(1, <<>>, {<<>>}),
            rs |-> Within(0, {<<<<"schedule", "u", 0>>>>}, React1(2, <<>>, {<<>>})),
            ru |-> Mine(2, Within(1, {}, React1(3, <<>>, {<<>>, <<<<"schedule", "u", 1>>>>})))])
     EXCEPT !.external = {"s"}, !.clock = 3, !.keepalive = TRUE]

\* A modal reactor whose modes have a timer and an action each.
Modal ==
    [Plain([t |-> Timer(1, 1, "none", <<"off", "on">>), t1 |-> Timer(0, 2, "m1", <<"r1">>),
            x1 |-> Action(2, "m1", <<"e1">>), t2 |-> Timer(1, 0, "m2", <<"r2">>)],
           [up1 |-> In("m1", Mine(1, React1(1, <<>>, {<<>>}))),
            up2 |-> In("m2", Mine(1, React1(2, <<>>, {<<>>}))),
            off |-> In("m1", Mine(1, React1(3, <<>>, {<<>>, <<<<"mode", "m2", "history">>>>,
                                                      <<<<"mode", "m2", "reset">>>>}))),
            on |-> In("m2", Mine(1, React1(4, <<>>, {<<>>, <<<<"mode", "m1", "history">>>>,
                                                     <<<<"mode", "m1", "reset">>>>}))),
            r1 |-> In("m1", Mine(1, React1(5, <<>>, {<<>>, <<<<"schedule", "x1", 0>>>>}))),
            e1 |-> In("m1", Mine(1, React1(6, <<>>, {<<>>}))),
            r2 |-> In("m2", Mine(1, React1(7, <<>>, {<<>>}))),
            z2 |-> In("m2", Mine(1, React1(8, <<>>, {<<>>})))])
     EXCEPT !.timers = <<"t", "t1", "t2">>, !.startup = <<"up1", "up2">>, !.reset = <<"up2">>,
            !.shutdown = <<"z2">>, !.timeout = 6, !.budget = 5,
            !.states = <<"M">>, !.stateOf = [m1 |-> "M", m2 |-> "M"],
            !.initial = [M |-> "m1"], !.parent = [M |-> "none"]]

\* A modal reactor inside mode m2 of another one, entered by a reset.
Nested ==
    [Plain([t |-> Timer(1, 1, "none", <<"off", "on", "flip", "flop">>),
            y1 |-> Action(2, "n1", <<"e1">>), t2 |-> Timer(0, 1, "n2", <<"r2">>)],
           [off |-> In("m1", Mine(1, React1(1, <<>>, {<<>>, <<<<"mode", "m2", "reset">>>>}))),
            on |-> In("m2", Mine(1, React1(2, <<>>, {<<>>, <<<<"mode", "m1", "history">>>>}))),
            flip |-> In("n1", React1(3, <<>>, {<<<<"schedule", "y1", 0>>>>, <<<<"mode", "n2", "history">>>>})),
            flop |-> In("n2", Mine(3, React1(4, <<>>, {<<>>, <<<<"mode", "n1", "history">>>>}))),
            e1 |-> In("n1", Mine(3, React1(5, <<>>, {<<>>}))),
            r2 |-> In("n2", Mine(3, React1(6, <<>>, {<<>>})))])
     EXCEPT !.timers = <<"t", "t2">>, !.startup = <<>>, !.timeout = 6, !.budget = 7,
            !.states = <<"M", "N">>, !.stateOf = [m1 |-> "M", m2 |-> "M", n1 |-> "N", n2 |-> "N"],
            !.initial = [M |-> "m1", N |-> "n1"], !.parent = [M |-> "none", N |-> "m2"]]

\* An action with a minimum spacing of 1 and one of the policies.
Spacings(policy, bodies) ==
    [Plain([a |-> WithSpacing(0, 1, policy, <<"ra">>), b |-> Action(0, "none", <<"rb">>)],
           [go |-> React1(1, <<>>, bodies),
            ra |-> React1(2, <<>>, {<<>>, <<<<"value", "a", 1>>>>}),
            rb |-> React1(3, <<>>, {<<>>, <<<<"value", "a", 0>>>>, <<<<"value", "a", 2>>, <<"value", "a", 0>>>>})])
     EXCEPT !.budget = 5, !.timeout = 4]
Twice == {<<<<"value", "a", 0>>, <<"value", "a", 0>>>>}
Apart == {<<<<"value", "a", 0>>, <<"value", "b", 0>>>>, <<<<"value", "b", 0>>>>}

MCPrograms == {Lines, Pipeline, Chained, Sensor, Modal, Nested, Spacings("defer", Apart)}
                 \cup {Spacings(p, Twice \cup Apart) : p \in {"drop", "replace"}}
MCDeferring == {Spacings("defer", Apart)}
=============================================================================
