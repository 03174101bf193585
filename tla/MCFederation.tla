---------------------------- MODULE MCFederation -----------------------------
(***************************************************************************)
(* Small federations for TLC.                                              *)
(***************************************************************************)
EXTENDS Federation

MCNever == -1
MCFederates == {0, 1, 2}

\* 0 sends to 1 at once.
Direct ==
    [up |-> 0 :> <<>> @@ 1 :> <<0>>, delay |-> <<0, 1>> :> NEVER,
     events |-> 0 :> {<<1, 0>>} @@ 1 :> {},
     order |-> 0 :> <<<<"out", 1>>>> @@ 1 :> <<<<"in", 0>>>>,
     stop |-> <<1, 0>>, stoppers |-> {}, crashers |-> {}, shutdown |-> {0}]

\* The same, and 1 may ask to stop; there is no timeout.
Stoppable ==
    [Direct EXCEPT !.stop = FOREVER_TAG, !.stoppers = {1},
                   !.shutdown = {},
                   !.events = 0 :> {<<1, 0>>} @@ 1 :> {}]

\* 0 sends to 1 with a delay, 1 has an event of its own at the same time.
Late ==
    [Direct EXCEPT !.delay = <<0, 1>> :> 1, !.stop = <<2, 0>>,
                   !.events = 0 :> {<<1, 0>>} @@ 1 :> {<<2, 0>>}]

\* The same, and each may die.
Mortal == [Late EXCEPT !.crashers = {0, 1}]

\* A cycle without delay: 0 writes before it reads, 1 answers what it reads.
Cycle ==
    [up |-> 0 :> <<1>> @@ 1 :> <<0>>,
     delay |-> <<0, 1>> :> NEVER @@ <<1, 0>> :> NEVER,
     events |-> 0 :> {<<1, 0>>} @@ 1 :> {},
     order |-> 0 :> <<<<"out", 1>>, <<"in", 1>>>>
            @@ 1 :> <<<<"in", 0>>, <<"out", 0>>>>,
     stop |-> <<1, 0>>, stoppers |-> {}, crashers |-> {}, shutdown |-> {0}]

\* A cycle with a delay on the way back.
Loop == [Cycle EXCEPT !.delay = <<0, 1>> :> NEVER @@ <<1, 0>> :> 1,
                      !.stop = <<2, 0>>, !.shutdown = {}]

\* The cycle, and both may stop it.
StoppedCycle == [Cycle EXCEPT !.stop = FOREVER_TAG, !.stoppers = {0, 1}, !.shutdown = {},
                              !.events = 0 :> {} @@ 1 :> {}]

\* 0 to 1 to 2.
Chain ==
    [up |-> 0 :> <<>> @@ 1 :> <<0>> @@ 2 :> <<1>>,
     delay |-> <<0, 1>> :> NEVER @@ <<1, 2>> :> 1,
     events |-> 0 :> {<<0, 0>>} @@ 1 :> {} @@ 2 :> {},
     order |-> 0 :> <<<<"out", 1>>>> @@ 1 :> <<<<"in", 0>>>>
            @@ 2 :> <<>>,
     stop |-> <<0, 0>>, stoppers |-> {}, crashers |-> {}, shutdown |-> {0}]

MCPrograms == {Direct, Mortal, Stoppable, Cycle, Loop, StoppedCycle, Chain}

\* 1 has told the RTI of an event of its own when a later message from 0 passes
\* through the RTI on its way to 1; 2 asks for a tag in between.
Raised ==
    [up |-> 0 :> <<>> @@ 1 :> <<0>> @@ 2 :> <<1>>,
     delay |-> (<<0, 1>> :> 2 @@ <<1, 2>> :> NEVER),
     events |-> 0 :> {<<0, 0>>} @@ 1 :> {<<1, 0>>} @@ 2 :> {<<1, 0>>},
     order |-> 0 :> <<<<"out", 1>>>> @@ 1 :> <<<<"out", 2>>>> @@ 2 :> <<>>,
     stop |-> <<2, 0>>, stoppers |-> {}, crashers |-> {}, shutdown |-> {}]

FailingPrograms == {Raised}
=============================================================================
