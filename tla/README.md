# ScheduleTest in TLA+

A model of the Lingua Franca C runtime in this repository, and of the
statically scheduled program `ScheduleTest.c` that runs on it: TLA+ modules
translated from the C code, TLC runs on small instances, and theorems proved
with TLAPS for every number of workers, every schedule and every program.

Paths below are relative to `src/`.

## The system

A Lingua Franca program is a set of *reactions* triggered by events with a
*tag* (time and microstep). The runtime executes the reactions of one tag in
an order that respects their dependencies, then advances to the next tag. A
program runs on one thread, on a pool of workers under one of several
schedulers, or as one of the federates of a federation.

| part | state | operations | talks to |
|---|---|---|---|
| worker threads (`core/threaded/reactor_threaded.c`) | `worker_thread_count`, `current_tag`, `stop_tag`, the tag barrier | `worker`, `_lf_worker_do_work`, `_lf_next_locked`, `wait_until`, `lf_request_stop` | the scheduler; the event queue; the RTI |
| idle hand-shake (FS, NP, GEDF_NP, GEDF_NP_CI, with `include/core/threaded/scheduler_instance.h`) | number of idle workers, `_lf_sched_semaphore`, `_lf_sched_should_stop` | `_lf_sched_wait_for_work`, `_lf_sched_notify_workers`, `_lf_sched_signal_stop` | the semaphore |
| semaphore (`core/utils/semaphore.c`) | count, mutex, condition | acquire, release | threads of the platform |
| FS scheduler (`core/threaded/scheduler_FS.c`) | program counters, counters, reaction status, reactor tags and stop flags | the twelve instructions ADV ... WU, `lf_sched_trigger_reaction`, `lf_sched_done_with_reaction` | the hand-shake (in SAC); the clock |
| static schedules (`schedules/v1.c` ... `v10.c`), `ScheduleTest.c` | none (constants) | - | interpreted by the FS scheduler |
| NP, GEDF_NP schedulers (`core/threaded/scheduler_NP.c`, `scheduler_GEDF_NP.c`) with tag advance (`scheduler_sync_tag_advance.c`) | one vector or queue per level, executing and next level | get, done, trigger, distribute, advance | the hand-shake; `_lf_next_locked` |
| GEDF_NP_CI scheduler (`scheduler_GEDF_NP_CI.c`) | triggered, executing and transfer queues, outputs of each worker | the same, with chain ids for levels | the same |
| adaptive scheduler (`scheduler_adaptive.c`, `worker_assignments.h`, `worker_states.h`, `data_collection.h`) | reactions by level and worker, loose threads, level counter | get (own, then stolen), assign, advance level, awaken a group | condition variables; `_lf_next_locked` |
| event queue (`core/reactor_common.c`, `lib/schedule.c`) | `event_q`, `next_q`, recycled events, `trigger->last` | `_lf_schedule`, `_lf_schedule_at_tag`, `_lf_pop_events` | tokens, schedulers |
| tokens (`core/lf_token.c`) | reference counts, templates, recycling bin | new, replace, writable copy, done using | event queue, reactions |
| modes (`core/modal_models/modes.c`) | active mode, flags, suspended events | mode changes at the end of a tag | event queue |
| unthreaded runtime (`core/reactor.c`) | reaction queue, sleep | one loop | event queue, tokens, modes |
| RTI (`core/federated/RTI/`) | per federate: completed, next event, granted tags, in-transit messages, stop state | NET, LTC, TAG, PTAG, tagged messages, absent ports, stop, resign | federates over sockets |
| federates (`core/federated/federate.c`) | last granted tags, outstanding stop, port status | send and receive the above | RTI, event queue, workers |
| clock synchronization (`core/federated/clock-sync.c`) | offset, window of samples | T1, T3, T4, coded probe | RTI over TCP and UDP |
| utilities (`core/utils/`) | heap, vectors, pointer sets | pure operations | everything |
| trace (`core/trace.c`) | one buffer per worker, file | trace point, flush, stop | workers, the mutex |
| platform, printing, `core/mixed_radix.c`, `core/port.c` | - | wrappers, output, arithmetic | - |

What is hard: workers touch shared structures with single atomic instructions
and otherwise rely on an argument in comments ("all threads are idle, therefore
there is no need to lock the mutex"), which holds only if the hand-shake that
makes a worker *the last one* is right. The event queue keeps pointers to
events that are recycled, chains them and suspends them with modes. The RTI
computes grants from what federates said some messages ago, while messages are
in transit. `PROJECT.json` lists these hazards at their lines, with the
properties that watch them.

## Modules

| module | models | role |
|---|---|---|
| `WorkerPool` | the set of workers | shared |
| `IdleWorkers`, `IdleWorkersProofs` | hand-shake of the schedulers | component; extended by `FSScheduler`, `NPScheduler`, `GEDFScheduler`, `CIScheduler` |
| `CountingSemaphore`, `Semaphore` | what a semaphore promises; `semaphore.c` | abstract; implements it |
| `Schedules`, `FSScheduler`, `SyncBarrier`, `MCFS`, `FSSchedulerProofs` | v1-v8, v10; the virtual machine of `scheduler_FS.c`; what SAC promises | component |
| `TagExecution` | what a scheduler promises | abstract |
| `NPScheduler`, `MCNP`, `NPSchedulerProofs` | `scheduler_NP.c`, tag advance, worker loop | implements `TagExecution` |
| `TagWorkers`, `GEDFScheduler`, `GEDFSchedulerProofs`, `CIScheduler`, `CISchedulerProofs`, `AdaptiveScheduler`, `AdaptiveSchedulerProofs`, `MCSchedulers` | the worker loop and tag advance, the three other schedulers | implement `TagExecution` |
| `Tags` | `tag.c` | shared by all below |
| `UtilitiesProofs` | theorems about `Semaphore` and `Tags` | proofs |
| `PQueue`, `Tokens`, `EventQueue`, `Modes`, `Runtime`, `MCRuntime` | `pqueue.c`, `lf_token.c`, `reactor_common.c`, `modes.c`, `reactor.c` | each extends the one before it |
| `RTI`, `Federation`, `MCFederation` | `rti.c`, `message_record.c`; `federate.c` and the federated parts of `reactor_threaded.c` | RTI as operators, composed with the federates |
| `ClockSync`, `FederationStart`, `FederationStartProofs`, `MCFederationStart` | `clock-sync.c`; joining and starting in `rti.c` and `federate.c` | component; composed with it |
| `Vector`, `HashSet`, `Trace`, `MCUtilities` | `vector.c`, `hashset.c`, `trace.c` | components, in one run with `Semaphore` and `ClockSync` |

### IdleWorkers

`idle`, `permits` and `shouldStop` are the three shared variables; `phase` is
the place of a worker in `_lf_sched_wait_for_work` and `awaken` the local
`workers_to_awaken`. The atomic increment (`GoIdle`, `GoIdleLast`), the work of
the last worker, the subtraction (`LowerIdle`) and the release of the semaphore
(`ReleasePermits`) are separate steps, because others may run in between.
`TakePermit` is atomic and takes a nameless permit; that this is right is what
`Semaphore` shows. `idle -= n` is one step although it is not atomic in C: it is
executed while `LastIsAlone`, so there is nobody to interleave with.

### Semaphore

One step per lock, test, wait, decrement, broadcast and unlock, with spurious
wake-ups. `ImplementsAtomic` maps `count` to itself and the threads inside
acquire to `acquiring`. `lf_semaphore_wait` has no caller. `MaxCount` bounds the
permits, `MaxRelease` the argument of a release.

### FSScheduler

`Schedule` is a constant function from workers to instruction sequences, and
each instruction is an action: the guard is its opcode, the assignments those of
`execute_inst_*`. Where the C code does a `+=` without an atomic instruction, the load
and the store are two steps (mode `"add"`), with the mutex for INC and without
for INC2; SAC is the hand-shake with the clearing of the counters by the last
worker as a step of its own (mode `"clear"`). WU is a guard that has to become
true, which is what its loop does; DU waits for `now`, which `Tick` advances.
`status` is the reaction status with the compare-and-swap of
`lf_sched_trigger_reaction`. `owed` and `added` are history variables: the workers a SAC has released
and which have not run yet, and what was added to a counter since it was last
cleared. They guard nothing.

`MCFS` puts the schedules v1 to v8 and v10, and one of its own whose laps need
each other, behind each other into one schedule with shifted jumps (`Library`),
and lets the workers start at any of them (`InitAt`): one run for all.

Abstracted: the body of a reaction is the set of reactions it may trigger
(`Effects`); times are counted in units of 5 ms; ADV and ADV2 take
the tag of a reactor as its time. A reaction triggered by a timer at each
hyperperiod is, as in `ScheduleTest.c`, executed by `EXE` unconditionally.

### NPScheduler

`vector`, `index`, `executing` and `nextLevel` are the fields of
`scheduler_instance.h`; `status` the reaction status. Each atomic instruction
and each unlocked read or write is a step: the read of the level, the decrement
of the index, the read of the slot (`ReadLevel`, `Pop`, `Take`), the
compare-and-swap, the increment, the write of the slot (`TriggerReaction`,
`ClaimSlot`, `StoreReaction`). `mode` says which of them comes next. The last
idle worker goes through `ResetIndex`, then either `Distribute` or, after the
highest level, `Stop` or `AdvanceTag`, which is `_lf_next_locked`: it chooses the
reactions that the popped events trigger (`Pops`), adds the shutdown reactions at the stop
tag, and inserts them by the same three steps as a worker does. `RequestStop` is
`lf_request_stop`. A write outside a vector has no effect in the model, and
`SlotIsFree` says there is none.

Abstracted: a tag is the number of tags before it; the event queue is `Pops`, of
which any element may come next, or none with the queue empty (`keepalive` off)
or not. Which reactions are at which level is `Level`; `NPAssumption` has a
reaction trigger only reactions of higher levels, which is how the compiler
assigns levels and what the vectors without a lock need.

`ImplementsTagExecution` maps the state to `TagExecution`: `active` is the set
of running reactions, `todo` those queued and not running, plus those the
worker that has advanced the tag has yet to insert.

### TagWorkers and the other schedulers

`TagWorkers` has the steps every queueing scheduler shares: getting, invoking,
triggering with the compare-and-swap, reporting done, and the choice of the next
tag. `GEDFScheduler` replaces the vector of a level by a queue under a mutex,
so insertion is one step, and pops by deadline. `CIScheduler` has no levels:
the last worker distributes what is not blocked by levels and chain ids; a worker
keeps what it triggers in its own output until then. The code pops the triggered
reactions in the order of their indices and compares each with those it has made
ready or set aside. As nothing is ready at first, these are all that were popped
before, and `IsBlocked` says so without the loop.

`AdaptiveScheduler` follows `get_reaction`, `try_advance_level`,
`worker_states_finished_with_level_locked` and `..._awaken_locked` step by step:
`slots` and `count` are the arrays, `loose`, `awakened`, `counter` and
`snapshot` the counters behind the condition variables, `owner` the mutex, which
a single loose thread does not take in fast mode. How many workers a level gets
(`numWorkers`) is up to measurements in the code and left open here.

`MCSchedulers` runs one of the three, chosen in the initial state; the variables of
the others are 0. The promise is `TagExecution` with the dependencies as its
order for all three. Two of them, GEDF_NP and the adaptive scheduler, promise the levels besides: they implement
`LevelTags`, `TagExecution` with all lower levels before a higher one, by theorem.

### Runtime and what it extends

The globals of the runtime are one record `env`, and the functions of
`pqueue.c`, `lf_token.c`, `reactor_common.c` and `modes.c` are operators from
one such record to the next, because one thread runs them without interruption;
the actions of `Runtime` are the steps of `reactor.c` between which an
interrupt may call `lf_schedule`: `Start`, one reaction (`React`, or `ReactAtOnce`
for a sole downstream reaction), the end of a step with its mode change
(`EndStep`), the choice of the next tag (`AskNext`), the wait (`Wake`),
`Terminate`, and `Interrupt` and `Tick` from outside.

An event is a position in `mem`, so that recycling and dangling pointers
(`trigger->last`, `next`) are as in C; the event queue is the heap of
`pqueue.c`. A token is a position in `tok` with its reference count. The body of
a reaction is one of some sequences of API calls. `agenda`, `lived`, `diary`,
`drift`, `seen`, `crowded` are history variables, which no guard reads.
In `Tokens` the token that leaves the bin is the least, in C the first of a
hash table.

### RTI and Federation

A handler of the RTI runs with `rti_mutex` held, so `RTI` has one operator per
handler, on a record with one field per global; what it writes to a federate's
socket is appended to `out`. `Federation` has one FIFO per direction and federate,
and per federate two threads: the workers (`Start`, `Wake`, `AwaitPort`, `Output`,
`CompleteTag`, `Advance`, `Exit`, `Resign`, together with `RequestStop`) and the
listener (`Listen`, one case per message type). A tag is executed in the order the program gives: the ports of a
cycle wait for their status in input control reactions, absent
messages are sent by output control reactions. `Crash` is the death of a
process: its socket is closed, which the RTI takes for "not connected".

### FederationStart and ClockSync

Several RTIs and federates share a host: they bind ports, knock, are rejected
or acknowledged, exchange neighbours, open servers and connect to each other,
propose start times and wait. The RTI's threads are actions of their own:
accepting (`MainThread`), one per federate (`Thread`), answering strangers (`Respond`, and `RespondTimeout`
when its accept times out), clock synchronization (`ClockThread`). UDP
packets are lost or late, but not reordered; a clock reading is the round it
belongs to. `ClockNext` is the clock exchange by itself, with any set of
federates enabled or gone; `FederationStart` takes its steps with those its own state
makes so, and `MCUtilities` runs it alone. `overdue` is a history variable: a
T1 message or its answer was still under way when the turn of its federate came
for the second time after it was sent.

### Vector, HashSet, Trace

`Vector` and `HashSet` keep the arrays as they are in memory, `contents` and
`members` record what the callers put in. `Trace` has one step per access to
`_lf_trace_buffer_size`, because worker 0 and the threads outside the pool
share buffer 0 with only the latter holding the mutex.


## Runs

| run | instance | shows |
|---|---|---|
| `FS` (`MCFS`) | 2 workers, ten programs, `StopTime` 4 | no increment is lost; no reaction is found untriggered or released before its time; every WU ends; counters are cleared only when all are in SAC; where laps need each other SAC is a barrier and all exit |
| `NP` (`MCNP`) | 3 workers, 5 reactions on 3 levels, timeout 0 or 2 | refinement of `TagExecution`, vectors, levels and numbers stay consistent, all threads end |
| `Schedulers` (`MCSchedulers`) | 3 workers, one of three schedulers, timeout 0 or 1 | the same promise for GEDF_NP, GEDF_NP_CI and the adaptive scheduler; nothing is lost (`NothingLost`): no reaction is forgotten at a level that was left (`NoneForgotten`), in two queues (`OneQueue`) or in a slot nobody looks at (`WithinReach`); the count of loose threads is right |
| `Runtime` (`MCRuntime`) | nine programs, 5 to 7 API calls each | payloads neither lost nor doubled, none freed while in use; local time of modes; order of reactions; the program ends |
| `Federation` (`MCFederation`) | seven federations of two or three | grants hold, messages are on time, all stop at one tag, all resign |
| `FederationStart` (`MCFederationStart`) | five launches on one host | one process per id, an agreed start time that comes first, a clock thread that goes on while federates answer, everybody starts |
| `Utilities` (`MCUtilities`) | semaphore, vector, pointer set, trace, clock rounds of two federates | no sleep next to a permit, the atomic semaphore; contents kept; records complete; samples of the clock are round trips as long as none is two rounds late |
| `FS_v5_barrier`, `FS_v6_trigger`, `FedFails`, `StartFails`, `SpacingFails` | one program each | violations, see Findings |

`FS`, `NP` and `Schedulers` halt with an explicit self-loop (`Done`, `Ended`), so a deadlock there means that threads wait for each other.
In the other runs the system really stops (programs end, federates exit, the
trace is closed), and the liveness properties say what must have happened by then.

Bounds, and why they are enough:

- **Workers.** Two are what `ScheduleTest` has. Three are the least number at
  which a worker can be at work while two others insert, block or take permits,
  and in the adaptive scheduler the least at which one steals while another advances
  the level.
- **FS.** Times count 5 ms. `StopTime` is four of them, so v8 gets to its
  second SAC in one lap and BIT both falls through and branches; `TagCap`,
  `MaxIteration` and `MaxNow` are above the values tags, laps and the clock are compared with. When a
  bound is reached the variable stays at it, so nothing blocks there.
- **NP.** Two reactions at a level that trigger the same one, one that skips a
  level, one that every path may trigger. The stop tag 2 has a first tag, one
  with popped events and the last one, reached by timeout, by request or for want of
  events; with the stop tag 0 the first tag is the last. An index runs below zero
  while another worker inserts.
- **Schedulers.** Of the reactions a timer triggers, the first is upstream of the
  second and the second of the third, with two chains, so that GEDF_NP_CI keeps
  one back for one worker and releases another; `Spurious` wake-ups are off here, see below.
- **Runtime.** Each program is the smallest that meets its subject: two
  actions that line up at one tag with microsteps (`Lines`), outputs passed on
  and copied with two readers or one (`Pipeline`, `Chained`), interrupts and
  deadlines (`Sensor`), two modes and history (`Modal`), a modal reactor inside a
  mode (`Nested`), minimum spacing under each policy (`Spacings`). The budget is the number of API calls.
- **Federation.** `MaxUnread` is the number of messages per socket not yet read
  that still lets a sender go on; 1 is enough for a message to cross any
  other on another socket, which is where the RTI's view is late. Times
  go up to 2, and `FOREVER` is 9, above every time plus every delay.
- **FederationStart.** `RangeLimit` 1 gives the federates two ports to knock at, as many
  as there are RTIs, so the second RTI finds the first port taken and its federate
  knocks at the wrong one first; two reads per clock round, one exchange
  and two rounds, so a packet of the first round can be read in the second.
  `ClockSync` by itself has a third round, as an answer has to be two rounds late to
  meet the wrong one, and two federates, as the clock thread ends after a round nobody answered.
- **Utilities.** A buffer of two records and three per writer, so that both
  buffers flush; five addresses in a table that grows to eight, some of which
  collide; a vector that grows to four elements and votes to shrink.

## Fairness

Weak fairness per worker in `FS`, `NP` and `Schedulers`: the operating system
schedules every thread that can run. It is weak and not strong: a permit that
others take before a blocked worker runs gives that worker nothing. So in FS a
worker may run ahead for ever while the other sleeps (this is the SAC of
`FS_v5_barrier`), and `Termination` of `FS` is claimed where each lap needs the
other worker. In NP the last worker releases exactly the permits of those it
wakes and cannot go round without them, so weak fairness does. `RequestStop`
is excluded (a reaction need not ask for a stop). `Tick` is fair in `FS`: the clock runs.

`Termination` of `Schedulers` excuses one behaviour of the adaptive
scheduler: `worker_assignments.h:194-199` looks through all queues again whenever
it was disturbed in one of them, and two workers may disturb each other for
ever. They would have to do so without end; the disjunct names it.

In `Runtime` the thread goes on and its waits end; interrupts and requests to
stop are owed to nobody. In `Federation` every process is scheduled, and every
socket is read: weak fairness of the workers, of the RTI's thread per federate
(`Take`) and of the listener (`Read`). Nobody has to ask for a stop, send
an early output or die, and `AllResign` excuses those who wait for a dead federate, for which the code
has no answer. In `FederationStart` every thread is scheduled, but no accept has to time
out (`RespondTimeout`), no packet has to be lost or to arrive, and
`EveryoneStarts` excuses a federate that knocks at an RTI whose
responder has ended (`Unheard`): it does knock for ever, see Findings.

## Proofs

All from `WorkersAssumption` (finitely many workers, at least one) and the named
assumptions of the module.

**IdleWorkersProofs.** `IdleInv` is inductive. `LastIsAlone` alone is not: that
all are idle must imply that all others are blocked *and* that no permit is
around. This is a counting argument: `PermitAccounting` says that `idle +
permits` is the number of blocked workers as long as nobody is last or
releasing; when the counter reaches the number of workers, all but one are
blocked, so `permits` is 0. `LastState` and `ReleaseState` remember the counter
through the two halves of `notify_workers`. There is a lemma per action;
`WorkingMeansNobodyLast` gives each of them the case it is in.

**FSSchedulerProofs.** Every step is a step of the hand-shake or leaves it alone
(`FSImplementsHandshake`), so the theorems above carry over to every schedule.
`FSTypeCorrect` needs that a well-formed schedule does not run off its end.
`CountersAreAccurate` assumes `SingleWriter`, the obligation a comment in the
code puts on the compiler: `FSInv` adds to the types what a worker's phase and
mode say about its instruction (`Control`) and that a loaded value is still the
counter's (`Adding`). The clear by the last worker is harmless because no other
worker can be in mode `"add"` then, which is `LastIsAlone` again; the same makes
`CountersClearedTogether`.

**NPSchedulerProofs.** The NP scheduler implements the hand-shake
(`NPImplementsHandshake`), hence `NPLastIsAlone` and `NPSomebodyCanRun`.
`NPLevelIsCurrent`: that a level read earlier is not stale is inductive together
with `ModeOfPhase` (in which modes a worker is at each phase: everybody but the
last one is about to read the level, not past it) and `LevelsAgree` (the
executing vector is that of the level below the next one, except while the last
worker moves it). `NPNumbersDiffer`: numbers are given by counting live threads,
which is sound only because a thread ends after the stop signal and the signal
needs every thread in the pool, blocked (`NumbersInv`).

The vectors are shared without a lock, so `SlotIsFree` needs an account of every
slot, `QueueInv`: a slot is filled if it is below the index and its claimant is not
still on the way to write it, or if a worker that popped it has not emptied it yet
(`SlotsFilled`, `SlotsClaimed`, `SlotsPopped`); the index of a level to come counts the
reactions that have or will have a slot (`IndexCounts`); and each reaction is in one place
(`OnePlace`). That nobody inserts where others pop is `Upwards`: workers insert only above the level
that is executed. From it follow `NPSlotIsFree`, `NPNotifyCountsReactions`, and
`NPImplementsTagExecution`: `Take` is `Start`, `DoneWithReaction` is `Finish`, winning the compare-and-swap is
`Trigger`, `AdvanceTag` is `Advance`, all others stutter. A reaction that starts is the one of the lowest
level left, because the levels below are closed and those of its level are not ordered.
`NPAssumption` has no empty level: `Distribute` reads slot 0 of each vector.

**GEDFSchedulerProofs.** The hand-shake again, and `GEDFInv`, which is smaller since a queue has no
slots: what a worker holds is of the level executed or above it (`Holding`), two
workers hold different reactions (`Apart`), what is queued is in the queue of its
level or held (`QueuesHold`), and the queues below the next level are empty but for the
one that is executed (`LevelsHold`). The last is not stable by itself: that a worker
in mode `"idle"` has seen the queue empty, and that nothing is inserted there any more,
is what lets the last one leave the level. It gives `GEDFNoneForgotten` and
`GEDFImplementsLevelTags`: a reaction starts when no lower level has one left. As effects
lead to higher levels only, what is downstream is higher (`DownstreamIsHigher`), and
`GEDFImplementsTagExecution` follows for the dependencies.

**CISchedulerProofs.** `CIInv` says which queue or worker has each reaction
(`CIOneQueue`). Lemma `LastSeesAll` is the assertion of `scheduler_GEDF_NP_CI.c:280`: when the last worker
comes to advance the tag, nothing is ready, runs or is in an output. For the order, `ChainsHold`: what is ready or
runs is downstream of nothing that is yet to run at this tag. `Invoke` keeps it
because what a reaction may trigger is downstream of it, `Distribute` because of
`ChainsFollowEffects`: a reaction has a lower index than those downstream of it, and a
chain in common. That is a hypothesis of `CIImplementsTagExecution`, since the code generator
owes it, and TLC evaluates it for the program it runs (`SchedulersAssumption`). `Downstream` is defined as
what every set closed under effects holds, so that facts about it need no induction.

**AdaptiveSchedulerProofs.** That `LooseCounted` holds takes `LooseInv`, since the count is given up by one
thread, set by another and looked at by all with and without the mutex. Every worker has
seen the present level counter unless it waits or comes from a wait (`SnapshotHolds`), so whoever gives up its
place in the count does wait; a worker that looks at the end of a level without the mutex is the only loose one
(`LockHolds`), so nobody decrements the count beside it; a worker that goes on to another level or tag finds the count
0 (`MovesAlone`); only workers that are to go on are signalled (`SignalsHold`). When workers are awakened,
all others have reached the wait, because the mutex is free. The groups end before a power of two,
so those awakened are the first so many workers (`GroupIsInterval`), as many as
`num_awakened` says. `AdaptiveLastIsAlone` is what the comments of the scheduler take for granted where it advances
without the mutex; `AdaptiveLooseInRange` are the assertions of `worker_states.h:148-149`, 174 and 180. Two
hypotheses: workers are numbered from 0 (`WorkersNumbered`), and `lf_cond_wait` returns only
if signalled (`~Spurious`), without which `LooseCounted` is false, see Findings.

`WorkInv` adds where the reactions are. A slot is claimed by counting up and filled later without a lock,
so a slot in use is filled unless somebody is on the way to fill it (`SlotsHold`, `StoringHolds`), and a
reaction that was triggered is in one slot or in one pair of hands (`QueuedHold`, `SlotsApart`, `Apart`). The workers
of the present level count down without a lock too. They find each slot filled because reactions go to levels above only
(`Holding`). A count below 0 is of the present level, and whoever found it is about to write 0 (`CountsHold`). The hard
part is that a level is left only when it is empty: a worker looks through the queues from its own on, round to its own
again, and has found each of those it passed empty (`SearchHolds`), and they stay so. But a worker with a number beyond the
`num_workers` of the level looks at nothing and may be the last to finish. What then tells that the level is empty is that
worker 0, which belongs to every level and is always among those awakened, has looked (`LevelHolds`).
From it follow `AdaptiveWithinReach`, `AdaptiveImplementsLevelTags` and, as for GEDF_NP, `AdaptiveImplementsTagExecution`:
counting down to a slot is `Start`, the compare-and-swap `Trigger`, writing `inactive` `Finish`, advancing from the last level `Advance`.
`ProgramFits` is one more hypothesis: a finite program without empty levels, and addresses that hash to natural numbers, in any way.

**UtilitiesProofs.**
*Semaphore.* The invariant says that if there is a permit, every thread
asleep is about to be woken by a broadcast that is still to come. Refinement:
`LockAndAdd` is `Release`, `Decrement` is `EndAcquire`, everything else stutters
or begins to acquire.
*Tags*, from `TagsAssumption` (NEVER is negative, FOREVER above 0): tags are totally ordered
by `lf_tag_compare`; a delay keeps a tag in the range the code can represent,
does not make it earlier and keeps the order of two tags, saturation at FOREVER
included. The RTI computes every grant with these two functions. Where a theorem
excludes microsteps at their maximum, it is because they wrap.

**FederationStartProofs.** *The clocks.* The estimate of the clock error is the error plus half the
asymmetry of the two delays, with C's division rounding towards zero
(`ErrorIsAsymmetry`), so that it is exact when the delays are equal. This needs the
readings of one sample to be of one round trip. The messages carry no round, so
it is a matter of timing: `RoundTrips` is that it holds for any number of federates, rounds and
losses as long as nothing is two rounds late, from `ClockSyncAssumption` and an order without
repetition; `StartRoundTrips` carries it over to `FederationStart`, whose steps are those of
`ClockNext` or leave it alone, from `ScenariosAssumption` (the same of its launches).
The invariant is `ClockInv`: the T1 messages to a federate come in the order of the rounds
(`InOrder`) and none is older than the round before (`Recent`); a federate has one answer under way at most (`OneAnswer`),
and while it has one, it waits for T4, or has given up because the T1 of the next round came
(`Answering`), so a T4 message that finds its listener waiting answers the T3 it waits for (`Matched`).
`LastTurn` says which round that is for a federate before and after its turn.

*The start.* `StartInv` has a part for each RTI and a part for each process, which see each other only through
the sockets. An id is free until a process has it, and while the RTI lets federates join it is
not given away again (`JoiningHolds`), so a process that has its acknowledgement is the one the RTI
talks to: `StartOneProcessPerId`. Until the last proposal has come, everybody the
RTI talks to has a thread, and the proposals are counted right (`ProposalsHold`); hence nobody is
told a start time before (`StartHolds`). A proposal that was counted is part of the
maximum, and there is no second one of its process (`CountedHolds`), so the maximum does not change
once somebody has been told: `StartIsAgreed`. From `ScenariosAssumption` (a launch
is well formed), `StartAssumption` and `ClockSyncAssumption`, for any number of federations,
processes and ports, with processes launched twice, rejected or gone.

That the start time comes first rests on what each message on a socket is an answer to. `FirstInv` says, on top of `StartInv`, that
a question (`QUERY`, `T3`, or `UDP_PORT` with synchronization) is the last thing its process
has said, and that the process is in the state that reads the answer, with nothing to read yet (`QuestionsHold`); what it
finds in such a state is that answer (`RepliesHold`). Two parties write unasked. A server that takes or drops a
connection writes to a process that waits at this server and at no other (`ConnectionsHold`).
The RTI sends the T1 of the next exchange together with the last T4, so it must not count more
exchanges than the federate (`ExchangesHold`), or a T1 would be the first thing read in place of the start
time. After that, a federate that waits for its start time has nothing to read until the RTI
writes it (`FirstHolds`), and messages are forwarded to a federate only when its state is
`GRANTED`, which its thread sets after that write (`TimesHold`): `StartTimeComesFirst`.
Its hypothesis is that no federate asks to stop; with stop requests the property is
false, see `StartFails` under Findings.

The clock thread of the RTI stops when a round has found nobody connected. That this means that
all have left is `ClockSyncLasts`, by `SyncInv`. The RTI goes on from `accept` only after as many
processes as it has ids, one per id, so that it has a process under every id (`EveryIdTaken`, the pigeonhole
principle) and the thread, which starts after that, never finds an empty place; and a federate whose state is
`NOT_CONNECTED` after that has resigned (`MembersHold`). While no packet is lost or late, only the federate whose
turn it is has a T1 message to answer (`AskedHolds`), so the first thing the thread reads
is the answer it waits for, and no attempt is spent on another one (`AnswerHolds`). On top of `StartInv` and `ClockInv`, from
`SyncAssumption`: more than one attempt (the code has 5), one federation with synchronization
on, and no second process under an id that the thread serves.

Only model-checked:

- liveness and fairness (`WUEnds`, `Termination`, `AllResign`, `EveryoneStarts`), which is out of the prover's reach;
- `MutualBarrier`, `TriggeredInOrder` and `NotBeforeTag`, which hold of the schedules in
  the run and not of every well-formed one;
- vectors, pointer sets and the trace: halving and doubling need facts about powers of two, probing
  and the order of records induction over data;
- the runtime and the RTI (`PQueue`, `Tokens`, `EventQueue`, `Modes`, `Runtime`, `RTI`, `Federation`), whose heap operations,
  chains of events and transitive grants are recursive operators.

## Findings

- `FS_v5_barrier`: SAC is documented as a barrier of all workers. The
  semaphore permits carry no name: a worker that runs ahead returns to SAC, blocks and
  takes the permit that was released for the other, so it passes the next SAC
  while the other worker is still in the previous one. The other schedules
  tolerate this (`FS` shows that counters and triggers stay right), and a schedule whose
  laps need both workers excludes it (`MutualBarrier`).
- `FS_v6_trigger`: in the unrolled v6 a producer runs twice before its consumer
  runs once. The compare-and-swap swallows the second trigger, so the consumer is
  skipped once.
- `FedFails`: `core/federated/RTI/rti.c:829` sets the next event of a
  destination to the tag of the message it forwards, also above an earlier event
  the destination has announced. A federate further down is granted a tag that a
  message still precedes, and exits.
- `StartFails`: `handle_stop_request_message` (`rti.c:1031`) does not wait, as
  the handlers of messages do (`rti.c:257`), until a federate was sent the start
  time. A federate that asks to stop at once makes another one read a stop
  request where it expects the start time, and exit.
- `SpacingFails`: the minimum spacing is measured from `trigger->last`, which
  after its handling is a recycled event of time 0, so the second event of an action is not spaced at all.

The following were met while translating and have no run of their own, because
they concern memory or input the models leave out, or because the surrounding
model takes the side of the code.

*Static schedules.* `ScheduleTest.c:686` gives BIT three reactors, the first of
which is main; no schedule advances main, so BIT never branches. `FS` uses the
three that are advanced. The comment of DU
(`core/threaded/scheduler_FS.c:195`) promises an offset operand `rs2` that the
code never reads, and `rs1 * (iteration + 1)` overflows in long runs.

*Schedulers.* `worker_states.h:137-139` counts the worker that awakens others
in `num_awakened`, with which waiting workers compare their own number, so one
worker too many may go on after a spurious wake-up: with `Spurious = TRUE`
`LooseCounted` does not hold, and the run has it `FALSE`. The adaptive fast mode advances the tag
without the mutex. An empty level makes `restrict_to_range(1, 0)`.

*Event queue and tokens.* Two calls with `defer` of one action at one tag end
the program (`reactor_common.c:1019` to 1271). `replace` follows a dangling `trigger->last`. An event for the current time that joins a chain may be
handled a microstep late (728-750, 690), and 941-947 count the microsteps of a chain from 0. Tokens leak at 425, 709-718, 777-785, 947-952 and 1011-1015. A sole downstream reaction
that was already triggered may run twice (1390). `lf_token.c:179` combines flags with
`&=`; the leak warning of 1752 comes before the free.

*Modes.* A transition of an inner reactor at the tag its outer mode is left takes
place (`reactor_common.c:645`). History of an outer mode does not resume the suspended events of
the inner one (`modes.c:404`); a nested initial mode never needs startup (200-201 against 461-470); chained
events are lost in history (429-433).

*RTI and federates.* An accept that times out ends the responder
(`rti.c:1958-1959`), although `net_common.h:62-64` promises an answer; a federate
of another federation then knocks for ever. The clock thread answers any T3 of the federate whose
turn it is (`rti.c:1355-1366`), and a T3 names no round: when it reads one two rounds late, the sample
pairs the T1 of this round with a T4 that answers the old T3 and was sent before the new one came, although `clock-sync.c:332`
speaks of "the round trip delay from T1 to T4". With `SamplesAreRoundTrips` among the invariants of
`Utilities.cfg`, TLC shows how; the estimate misses about half the round trip. After the wait for a pending
federate its state is not tested again (259). The clock thread ends for good after a
round in which no federate answered (1387). A round skipped for want of its
coded probe still counts as a T4 received (`clock-sync.c:363-367`).
RTI and federates disagree about the range of ports (`rti.c:199`,
`federate.c:1030`). Federation ids are compared over the length of the one received, so a prefix
matches (1598). With clock synchronization off at the RTI and initial at the
federate, the federate waits for ever. A NET in flight may
replace the next event that a stop has set. A federate that dies leaves those downstream
waiting, and a stop that lacks its answer is never granted (1469).

*Utilities.* `vector.h:64-69` speaks of NULL elements that `vector.c` does not
write, and `vector_new(0)` never grows. In `trace.c`, the comment of
`tracepoint_schedule` speaks of a mutex that worker 0 does not hold; after a failed
open or write the flush does nothing and records run past the buffer (288-292); a failing `stop_trace`
returns inside the critical section (441-445).

## Not modelled

- **PEDF_NP**: no build includes it and it does not compile against the present
  structures. Visible in it are an inverted assertion (409), a condition waited for without a loop (488) and a
  cast slot address (265).
- **v9**: it orders reactions by execution times alone, so no model decides it.
- **FEDERATED branches of the schedulers** (insertion at the current level
  under a mutex; the adaptive `get_reaction`), deadlines and STP violations on workers, and
  decentralized coordination. `Federation` has the centralized coordination with one worker thread.
- **Federates**: physical connections, HMAC authentication, the bound that
  physical actions put on a NET (`federate.c:2584-2598`); retries are unbounded.
- **`net_util`, platform layer, printing**: I/O and wrappers. Sockets are
  FIFOs, mutexes and condition variables do what they promise.
- **`mixed_radix`, `port`**: sequential arithmetic for generated code.
- **Parts of modelled files**: the registration table of the trace, statistics of
  the clock window, pqueue printing and priority changes, destructors of payloads.

Worth doing next: the `FEDERATED` insertion of the schedulers.
