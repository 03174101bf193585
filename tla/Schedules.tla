------------------------------ MODULE Schedules ------------------------------
(***************************************************************************)
(* The hand-written static schedules of src/schedules for ScheduleTest, as *)
(* values of the constant Schedule of FSScheduler: worker 0 runs           *)
(* schedule_0, worker 1 runs schedule_1.                                   *)
(*   reactions: 0 source.0, 1 source2.0, 2 sink.0, 3 sink.1, 4 sink.2      *)
(*   reactors:  0 main, 1 source, 2 source2, 3 sink                        *)
(* Times are in units of 5 ms.                                             *)
(***************************************************************************)
EXTENDS Integers, SequencesExt

I(op, rs1, rs2) == [op |-> op, rs1 |-> rs1, rs2 |-> rs2]

\* Two counters, both workers increment them under the mutex.
V1 ==
       0 :> <<I("BIT", 13, -1), I("EXE", 2, -1), I("INC", 0, 1),
            I("WU", 0, 2), I("EIT", 3, -1), I("INC", 1, 1), I("WU", 1, 2),
            I("EIT", 4, -1), I("ADV", 3, 1), I("EXE", 2, -1),
            I("ADV", 3, 1), I("SAC", -1, -1), I("JMP", 0, -1),
            I("STP", -1, -1)>>
    @@ 1 :> <<I("BIT", 9, -1), I("EXE", 0, -1), I("INC", 0, 1),
            I("EXE", 1, -1), I("INC", 1, 1), I("ADV", 1, 2),
            I("ADV", 2, 2), I("SAC", -1, -1), I("JMP", 0, -1),
            I("STP", -1, -1)>>

\* V1 with both sources on worker 0 and the sink on worker 1.
V2 ==
       0 :> <<I("BIT", 9, -1), I("EXE", 0, -1), I("INC", 0, 1),
            I("EXE", 1, -1), I("INC", 1, 1), I("ADV", 1, 2), I("ADV", 2, 2),
            I("SAC", -1, -1), I("JMP", 0, -1), I("STP", -1, -1)>>
    @@ 1 :> <<I("BIT", 13, -1), I("EXE", 2, -1), I("INC", 0, 1), I("WU", 0, 2),
            I("EIT", 3, -1), I("INC", 1, 1), I("WU", 1, 2), I("EIT", 4, -1),
            I("ADV", 3, 1), I("EXE", 2, -1), I("ADV", 3, 1),
            I("SAC", -1, -1), I("JMP", 0, -1), I("STP", -1, -1)>>

\* One counter that only worker 0 writes, without a lock.
SingleWriterSchedule(adv) ==
       0 :> <<I("BIT", 9, -1), I("EXE", 0, -1), I("INC2", 0, 1),
            I("EXE", 1, -1), I("INC2", 0, 1), I(adv, 1, 2),
            I(adv, 2, 2), I("SAC", -1, -1), I("JMP", 0, -1),
            I("STP", -1, -1)>>
    @@ 1 :> <<I("BIT", 11, -1), I("EXE", 2, -1), I("WU", 0, 1),
            I("EIT", 3, -1), I("WU", 0, 2), I("EIT", 4, -1), I(adv, 3, 1),
            I("EXE", 2, -1), I(adv, 3, 1), I("SAC", -1, -1),
            I("JMP", 0, -1), I("STP", -1, -1)>>

V3 == SingleWriterSchedule("ADV")

\* ... and no lock for the tags either.
V4 == SingleWriterSchedule("ADV2")

\* source.0 on the worker of sink: one WU is left.  A lap of the schedule is n
\* hyperperiods.
Unrolled(n) ==
    LET source2 == <<I("EXE", 1, -1), I("INC2", 0, 1), I("ADV2", 2, 2)>>
        sink(i) == <<I("EXE", 0, -1), I("ADV2", 1, 2), I("EXE", 2, -1), I("EIT", 3, -1),
                     I("WU", 0, i), I("EIT", 4, -1), I("ADV2", 3, 1), I("EXE", 2, -1),
                     I("ADV2", 3, 1)>>
        whole(body) == <<I("BIT", Len(body) + 3, -1)>> \o body
                           \o <<I("SAC", -1, -1), I("JMP", 0, -1), I("STP", -1, -1)>>
    IN     0 :> whole(FlattenSeq([i \in 1 .. n |-> source2]))
        @@ 1 :> whole(FlattenSeq([i \in 1 .. n |-> sink(i)]))

V5 == Unrolled(1)
V6 == Unrolled(2)
V7 == Unrolled(3)
V8 == Unrolled(4)

\* WU to synchronize, DU to release tasks.
V10 ==
       0 :> <<I("BIT", 7, -1), I("EXE", 1, -1), I("INC2", 0, 1),
            I("ADV2", 2, 2), I("SAC", -1, -1), I("DU", 2, -1),
            I("JMP", 0, 1), I("STP", -1, -1)>>
    @@ 1 :> <<I("BIT", 14, -1), I("EXE", 0, -1), I("ADV2", 1, 2),
            I("EXE", 2, -1), I("EIT", 3, -1), I("WU", 0, 1),
            I("EIT", 4, -1), I("ADV2", 3, 1), I("DU", 1, -1),
            I("EXE", 2, -1), I("ADV2", 3, 1), I("SAC", -1, -1),
            I("DU", 2, -1), I("JMP", 0, 1), I("STP", -1, -1)>>
=============================================================================
