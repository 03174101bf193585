-------------------------------- MODULE Trace --------------------------------
(***************************************************************************)
(* Tracing (core/trace.c).  Records go to buffers in memory, and a buffer  *)
(* that is full to the file, under the mutex of the runtime, which is      *)
(* recursive.  A worker writes to the buffer of its number without a lock. *)
(* Whoever does not know a worker number holds the mutex and writes to     *)
(* buffer 0: here the threads that call lf_schedule, and user events.      *)
(* Worker 0 does not hold the mutex, so that the two may race.             *)
(***************************************************************************)
EXTENDS Integers, Sequences

LOCAL INSTANCE FiniteSets
LOCAL INSTANCE SequencesExt

CONSTANTS
    Tracers,        \* workers 0, 1, ...
    Outsiders,      \* threads that trace under the mutex
    BufferCapacity, \* TRACE_BUFFER_CAPACITY
    MaxRecords,     \* bound: so many records of each thread
    Nobody          \* the mutex is free

VARIABLES
    doing,      \* where each thread is
    mutex,      \* its owner
    used,       \* _lf_trace_buffer_size
    buffer,     \* _lf_trace_buffer
    place,      \* the i of a thread
    file,       \* headers, and blocks of records
    open,       \* _lf_trace_file # NULL, until tracing stops
    headed,     \* _lf_trace_header_written
    stopped,    \* _lf_trace_stop
    traced      \* history: records of each thread

vars == <<doing, mutex, used, buffer, place, file, open, headed, stopped, traced>>

Header == <<-1, <<>>>>
Nothing == <<>>     \* memory nobody wrote a record to
All == Tracers \cup Outsiders

\* The memory that can be written to, behind the end of the buffer too.
Reach == BufferCapacity + Cardinality(All) * MaxRecords

\* start_trace; the file may not open.
Init ==
    /\ doing = [t \in All |-> "run"]
    /\ mutex = Nobody
    /\ used = [w \in Tracers |-> 0]
    /\ buffer = [w \in Tracers |-> [i \in 1 .. Reach |-> Nothing]]
    /\ place = [t \in All |-> 0]
    /\ file = <<>>
    /\ open \in BOOLEAN
    /\ headed = FALSE /\ stopped = FALSE
    /\ traced = [t \in All |-> 0]

Enter(t, step) == doing' = [doing EXCEPT ![t] = step]

\* "int index = (worker >= 0) ? worker : 0"
Index(t) == IF t \in Tracers THEN t ELSE 0

\* tracepoint_reaction_starts and the like.
TraceAsWorker(t) ==
    /\ t \in Tracers /\ doing[t] = "run" /\ traced[t] < MaxRecords
    /\ Enter(t, "check")
    /\ UNCHANGED <<mutex, used, buffer, place, file, open, headed, stopped, traced>>

\* tracepoint_user_event, or tracepoint_schedule under the mutex of _lf_schedule.
TraceUnderMutex(t) ==
    /\ t \in Outsiders /\ doing[t] = "run" /\ traced[t] < MaxRecords
    /\ mutex = Nobody /\ mutex' = t
    /\ Enter(t, "check")
    /\ UNCHANGED <<used, buffer, place, file, open, headed, stopped, traced>>

Check(t) ==
    /\ doing[t] = "check"
    /\ Enter(t, IF used[Index(t)] >= BufferCapacity THEN "flush" ELSE "write")
    /\ UNCHANGED <<mutex, used, buffer, place, file, open, headed, stopped, traced>>

\* Mutant: flush_trace does not enter the critical section.
FlushUnlocked(t) ==
    /\ doing[t] = "flush"
    /\ Enter(t, IF stopped \/ ~open \/ used[Index(t)] = 0 THEN "leave" ELSE IF headed THEN "dump" ELSE "head")
    /\ UNCHANGED <<mutex, used, buffer, place, file, open, headed, stopped, traced>>

\* flush_trace enters the critical section, outsiders for the second time.
Flush(t) ==
    /\ doing[t] = "flush"
    /\ mutex \in {t, Nobody} /\ mutex' = t
    /\ Enter(t, IF stopped \/ ~open \/ used[Index(t)] = 0 THEN "leave" ELSE IF headed THEN "dump" ELSE "head")
    /\ UNCHANGED <<used, buffer, place, file, open, headed, stopped, traced>>

\* write_trace_header
WriteHeader(t) ==
    /\ doing[t] = "head"
    /\ file' = Append(file, Header)
    /\ headed' = TRUE
    /\ Enter(t, "dump")
    /\ UNCHANGED <<mutex, used, buffer, place, open, stopped, traced>>

Block(w) == <<w, SubSeq(buffer[w], 1, used[w])>>

\* Writing to the file may fail.
Dump(t) ==
    LET w == Index(t)
    IN  /\ doing[t] = "dump"
        /\ \/ file' = Append(file, Block(w)) /\ UNCHANGED open
           \/ open' = FALSE /\ UNCHANGED file
        /\ used' = [used EXCEPT ![w] = 0]
        /\ Enter(t, "leave")
        /\ UNCHANGED <<mutex, buffer, place, headed, stopped, traced>>

Leave(t) ==
    /\ doing[t] = "leave"
    /\ mutex' = IF t \in Outsiders THEN t ELSE Nobody
    /\ Enter(t, "write")
    /\ UNCHANGED <<used, buffer, place, file, open, headed, stopped, traced>>

\* Nothing keeps a thread from writing behind the end of its buffer.
Write(t) ==
    LET w == Index(t)
        i == used[w] + 1
        record == <<t, traced[t] + 1>>
    IN  /\ doing[t] = "write"
        /\ place' = [place EXCEPT ![t] = i]
        /\ buffer' = [buffer EXCEPT ![w][i] = record]
        /\ Enter(t, "count")
        /\ UNCHANGED <<mutex, used, file, open, headed, stopped, traced>>

\* The increment is not atomic: it may write what was read before.
Count(t) ==
    LET w == Index(t)
    IN  /\ doing[t] = "count"
        /\ \E n \in {place[t], used[w] + 1} : used' = [used EXCEPT ![w] = n]
        /\ traced' = [traced EXCEPT ![t] = @ + 1]
        /\ mutex' = IF t \in Outsiders THEN Nobody ELSE mutex
        /\ Enter(t, "run")
        /\ UNCHANGED <<buffer, place, file, open, headed, stopped>>

\* A worker thread ends.
End(t) ==
    /\ t \in Tracers /\ doing[t] = "run"
    /\ Enter(t, "ended")
    /\ UNCHANGED <<mutex, used, buffer, place, file, open, headed, stopped, traced>>

\* stop_trace, when the program has joined the workers: all buffers, 0 last.
StopTrace ==
    LET order == SelectSeq(SetToSortSeq(Tracers \ {0}, <) \o <<0>>, LAMBDA w : used[w] > 0)
        header == IF headed \/ order = <<>> THEN <<>> ELSE <<Header>>
    IN  /\ ~stopped /\ mutex = Nobody
        /\ \A w \in Tracers : doing[w] = "ended"
        /\ IF open THEN /\ file' = file \o header \o [i \in DOMAIN order |-> Block(order[i])]
                        /\ used' = [w \in Tracers |-> 0]
                        /\ headed' = (headed \/ order # <<>>)
           ELSE UNCHANGED <<file, used, headed>>
        /\ stopped' = TRUE
        /\ UNCHANGED <<doing, mutex, buffer, place, open, traced>>

Step(t) ==
    \/ TraceAsWorker(t) \/ TraceUnderMutex(t) \/ Check(t) \/ Flush(t) \/ WriteHeader(t) \/ Dump(t)
    \/ Leave(t) \/ Write(t) \/ Count(t) \/ End(t)

Next == StopTrace \/ \E t \in All : Step(t)

-----------------------------------------------------------------------------
\* The records of a buffer in the file.
Filed(w) ==
    LET blocks == SelectSeq(file, LAMBDA item : item[1] = w)
    IN  FlattenSeq([i \in DOMAIN blocks |-> blocks[i][2]])

\* Unless opening or writing the file failed, the file has one header, before all
\* records, and every record of a buffer with one writer is in the file or behind
\* the last one of it in the buffer, once and in order, and in the file at the end.
OneWriter(w) == w # 0 \/ \A t \in Outsiders : traced[t] = 0 /\ doing[t] = "run"
TraceComplete ==
    open =>
        /\ \A i \in DOMAIN file : file[i] = Header <=> i = 1
        /\ \A w \in Tracers : OneWriter(w) =>
              /\ Filed(w) \o SubSeq(buffer[w], 1, used[w]) = [i \in 1 .. traced[w] |-> <<w, i>>]
              /\ used[w] <= BufferCapacity
              /\ stopped => used[w] = 0
=============================================================================
