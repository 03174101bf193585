-------------------------------- MODULE MCFS ---------------------------------
(***************************************************************************)
(* FSScheduler on the schedules of ScheduleTest, with two workers.  The    *)
(* programs of a worker lie behind each other in one static schedule, and  *)
(* all workers start at the same program.                                  *)
(***************************************************************************)
EXTENDS FSScheduler, Schedules

\* source.0 always sets its output, which triggers sink.1; source2.0 sink.2.
TestEffects == [r \in 0 .. 4 |-> CASE r = 0 -> {{3}}
                                   [] r = 1 -> {{4}}
                                   [] OTHER -> {{}}]

\* Each worker's lap needs the other's: worker 0 waits for source.0, worker 1
\* for source2.0, before either can reach SAC.
Mutual ==
       0 :> <<I("BIT", 7, -1), I("EXE", 1, -1), I("INC2", 0, 1),
              I("WU", 1, 1), I("ADV2", 2, 2), I("SAC", -1, -1),
              I("JMP", 0, -1), I("STP", -1, -1)>>
    @@ 1 :> <<I("BIT", 10, -1), I("EXE", 0, -1), I("INC2", 1, 1),
              I("EIT", 3, -1), I("WU", 0, 1), I("EIT", 4, -1),
              I("ADV2", 1, 2), I("ADV2", 3, 2), I("SAC", -1, -1),
              I("JMP", 0, -1), I("STP", -1, -1)>>

Programs == <<V1, V2, V3, V4, V5, V6, V7, V8, V10, Mutual>>
RunAhead == {6, 7, 8}       \* those in which source2 may run twice before sink once
Timed == 9
Meeting == 10

\* The lines at which the programs of a worker start, and the one behind the last.
Starts(w) == FoldLeft(LAMBDA lines, p : Append(lines, Last(lines) + Len(p[w])), <<0>>, Programs)
Line == 0 :> Starts(0) @@ 1 :> Starts(1)

Shifted(code, by) ==
    [i \in DOMAIN code |->
        IF code[i].op \in {"BIT", "JMP"} THEN [code[i] EXCEPT !.rs1 = @ + by] ELSE code[i]]

Whole(w) == FlattenSeq([n \in 1 .. Len(Programs) |-> Shifted(Programs[n][w], Line[w][n])])
AllPrograms == 0 :> Whole(0) @@ 1 :> Whole(1)
Library == AllPrograms

\* The program being run.
Runs(n) == Line[0][n] <= pc[0] /\ pc[0] < Line[0][n + 1]

LibraryInit ==
    \E n \in 1 .. Len(Programs) :
        InitAt([w \in Workers |-> Line[w][n]], IF n = Timed THEN 0 ELSE MaxNow)

AllExited == \A w \in Workers : mode[w] = "exited"

\* The workers halt for good only when all have exited.
Done == AllExited /\ UNCHANGED vars

MCNext == Next \/ Done
MCFairness == (\A w \in Workers : WF_vars(WorkerStep(w))) /\ WF_vars(Tick)

\* One schedule, and all of them.
MCSpec == Init /\ [][MCNext]_vars
LibrarySpec == LibraryInit /\ [][MCNext]_vars /\ MCFairness

-----------------------------------------------------------------------------
\* Where no source runs ahead, every EIT finds its reaction queued.
TriggeredInOrder == (\A n \in RunAhead : ~Runs(n)) => TriggeredWhenReached

\* Logical time does not run ahead of physical time: a reaction released once
\* per hyperperiod (0 source.0, 1 source2.0) starts when its reactor's tag has
\* been reached by the physical clock.  The DU that ensures it uses the
\* worker's own iteration count.
NotBeforeTag ==
    Runs(Timed) => \A w \in Workers :
        At(w, "EXE") /\ Inst(w).rs1 \in {0, 1} => now >= tag[Inst(w).rs1 + 1]

\* Where the laps of the workers need each other, SAC is the barrier its comment
\* promises.
MutualBarrier ==
    /\ Runs(Meeting) => Barrier!Init
    /\ [][Runs(Meeting) => Barrier!Next]_place

\* ... and every worker exits.
Termination == Runs(Meeting) ~> AllExited
=============================================================================
