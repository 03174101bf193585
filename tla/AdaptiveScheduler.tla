-------------------------- MODULE AdaptiveScheduler --------------------------
(***************************************************************************)
(* The ADAPTIVE scheduler (core/threaded/scheduler_adaptive.c, with        *)
(* include/core/threaded/worker_assignments.h, worker_states.h and         *)
(* data_collection.h), for programs that are not federated.  A reaction is *)
(* assigned to a worker when it is triggered; workers whose own reactions  *)
(* are done steal from the others.  Whoever finds nothing, and is the last *)
(* of the loose threads to do so, moves on to the next level or tag and    *)
(* awakens as many workers, in groups of 1, 1, 2, 4, ...  While one thread *)
(* is loose and the program does not wait for physical time, nobody locks. *)
(***************************************************************************)
EXTENDS TagWorkers, SequencesExt

CONSTANTS
    Hash,       \* of the address of each reaction
    Spurious    \* whether lf_cond_wait may return unasked

MaxNumWorkers == Cardinality(Workers)

VARIABLES
    fast,       \* the option: logical time does not wait for physical time
    current,    \* current_level
    count,      \* num_reactions_by_worker_by_level
    slots,      \* reactions_by_worker_by_level, None once a reaction was taken
    numWorkers, \* num_workers_by_level
    storing,    \* what a worker assigns, and to which slot
    victim,     \* the worker one takes reactions from
    loose,      \* num_loose_threads
    awakened,   \* num_awakened
    counter,    \* level_counter
    snapshot,   \* level_counter_snapshot
    owner,      \* of the mutex, or None
    signalled,  \* workers in lf_cond_wait that were signalled
    should_stop

queueVars == <<count, slots, storing>>
levelVars == <<current, numWorkers>>
looseVars == <<loose, awakened, counter>>
ownVars == <<victim, snapshot>>
adaptiveVars == <<fast, queueVars, levelVars, looseVars, ownVars, owner, signalled, should_stop>>
vars == <<threadVars, adaptiveVars>>

AtLevel(l) == {r \in Reactions : Level[r] = l}

\* max_num_workers_by_level
MaxAtLevel(l) == Min({Cardinality(AtLevel(l)), MaxNumWorkers})

\* worker_assignments_put of each of these reactions behind those that are there,
\* while nobody else looks.
Put(there, R, num) ==
    LET to(l, v) == SetToSeq({r \in R : Level[r] = l /\ Hash[r] % num[l] = v})
    IN  [l \in Levels |-> [v \in Workers |-> there[l][v] \o to(l, v)]]

NoReactions == [l \in Levels |-> [v \in Workers |-> <<>>]]

\* The reaction goes to the slot at, counted from 1, of the worker.
Nothing == [reaction |-> None, worker |-> 0, at |-> 0]

Init ==
    /\ ThreadsInit("get")
    /\ fast \in BOOLEAN
    /\ current = 0
    /\ numWorkers = [l \in Levels |-> MaxAtLevel(l)]
    /\ slots = Put(NoReactions, AtStart(stopTag), numWorkers)
    /\ count = [l \in Levels |-> [v \in Workers |-> Len(slots[l][v])]]
    /\ storing = [w \in Workers |-> Nothing]
    /\ victim = [w \in Workers |-> w]
    /\ loose = MaxNumWorkers /\ awakened = 0 /\ counter = 0
    /\ snapshot = [w \in Workers |-> 0]
    /\ owner = None /\ signalled = {}
    /\ should_stop = FALSE

-----------------------------------------------------------------------------
(* lf_sched_get_ready_reaction                                             *)

TakeSnapshot(w) ==
    /\ mode[w] = "get"
    /\ snapshot' = [snapshot EXCEPT ![w] = counter]
    /\ victim' = [victim EXCEPT ![w] = w]
    /\ Enter(w, "take")
    /\ UNCHANGED <<workVars, status, tagVars, fast, queueVars, levelVars, looseVars, owner,
                   signalled, should_stop>>

\* get_reaction: the decrement, then the slot, which is not read again.
Take(w) ==
    LET v == victim[w]
        n == count[current][v]
    IN  /\ mode[w] = "take"
        /\ count' = [count EXCEPT ![current][v] = n - 1]
        /\ IF n <= 0 THEN Enter(w, "reset") /\ UNCHANGED <<running, slots>>
           ELSE Get(w, slots[current][v][n]) /\ slots' = [slots EXCEPT ![current][v][n] = None]
        /\ UNCHANGED <<pending, status, tagVars, fast, storing, levelVars, looseVars, ownVars,
                       owner, signalled, should_stop>>

\* ... or the count is 0 again, and the next worker of the level has its turn.
Reset(w) ==
    LET next == (victim[w] + 1) % numWorkers[current]
    IN  /\ mode[w] = "reset"
        /\ count' = [count EXCEPT ![current][victim[w]] = 0]
        /\ IF w < numWorkers[current] /\ next # w
           THEN victim' = [victim EXCEPT ![w] = next] /\ Enter(w, "take")
           ELSE Enter(w, "lock") /\ UNCHANGED victim
        /\ UNCHANGED <<workVars, status, tagVars, fast, slots, storing, levelVars, looseVars,
                       snapshot, owner, signalled, should_stop>>

\* worker_states_lock: one loose thread needs no lock, if logical time does not wait.
LockIfNeeded(w) ==
    /\ mode[w] = "lock"
    /\ Enter(w, IF loose > 1 \/ ~fast THEN "acquire" ELSE "check")
    /\ UNCHANGED <<workVars, status, tagVars, adaptiveVars>>

Acquire(w) ==
    /\ mode[w] = "acquire" /\ owner = None
    /\ owner' = w
    /\ Enter(w, "check")
    /\ UNCHANGED <<workVars, status, tagVars, fast, queueVars, levelVars, looseVars, ownVars,
                   signalled, should_stop>>

Unlock(w) == owner' = IF owner = w THEN None ELSE owner

\* The count of the worker's queue is not 0, most likely because another worker has
\* decremented it and is about to write 0.
Disturbed(w) == mode[w] = "check" /\ count[current][w] # 0

\* worker_assignments_get_or_lock returns NULL, or tries again.
Check(w) ==
    /\ mode[w] = "check"
    /\ IF count[current][w] = 0 THEN Enter(w, "finish") /\ UNCHANGED <<owner, victim>>
       ELSE /\ Unlock(w)
            /\ victim' = [victim EXCEPT ![w] = w]
            /\ Enter(w, "take")
    /\ UNCHANGED <<workVars, status, tagVars, fast, queueVars, levelVars, looseVars, snapshot,
                   signalled, should_stop>>

\* worker_states_finished_with_level_locked
Finish(w) ==
    /\ mode[w] = "finish"
    /\ loose' = loose - 1
    /\ Enter(w, IF loose = 1 THEN "advance" ELSE "sleep")
    /\ UNCHANGED <<workVars, status, tagVars, fast, queueVars, levelVars, awakened, counter,
                   ownVars, owner, signalled, should_stop>>

-----------------------------------------------------------------------------
(* worker_states_sleep_and_unlock                                          *)

MustWait(w) == snapshot[w] = counter \/ w >= awakened

Sleep(w) ==
    /\ mode[w] = "sleep" /\ owner \in {w, None}
    /\ owner' = None
    /\ Enter(w, IF MustWait(w) THEN "asleep" ELSE "after")
    /\ UNCHANGED <<workVars, status, tagVars, fast, queueVars, levelVars, looseVars, ownVars,
                   signalled, should_stop>>

\* lf_cond_wait returns, and the predicate is looked at again.
WakeUp(w) ==
    /\ mode[w] = "asleep" /\ owner = None
    /\ w \in signalled \/ Spurious
    /\ signalled' = signalled \ {w}
    /\ Enter(w, IF MustWait(w) THEN "asleep" ELSE "after")
    /\ UNCHANGED <<workVars, status, tagVars, fast, queueVars, levelVars, looseVars, ownVars,
                   owner, should_stop>>

\* The end of the loop.
After(w) ==
    /\ mode[w] = "after"
    /\ Enter(w, IF should_stop THEN "exited" ELSE "get")
    /\ UNCHANGED <<workVars, status, tagVars, adaptiveVars>>

-----------------------------------------------------------------------------
(* advance_level_and_unlock                                                *)

NextLevel(w) ==
    /\ mode[w] = "advance" /\ current < MaxLevel
    /\ current' = current + 1
    /\ Enter(w, "look")
    /\ UNCHANGED <<workVars, status, tagVars, fast, queueVars, numWorkers, looseVars, ownVars,
                   owner, signalled, should_stop>>

\* What is left in the slots, nothing if all goes well.
Left == [l \in Levels |-> [v \in Workers |-> SubSeq(slots[l][v], 1, count[l][v])]]

\* data_collection_end_tag: at some tags, from measured times and by chance.
NewNumWorkers == {f \in [Levels -> 1 .. MaxNumWorkers] : \A l \in Levels : f[l] <= MaxAtLevel(l)}

Stop(w) ==
    /\ mode[w] = "advance" /\ current = MaxLevel
    /\ numWorkers' \in NewNumWorkers
    /\ current' = 0
    /\ ShouldStop
    /\ should_stop' = TRUE
    /\ Enter(w, "awaken")
    /\ UNCHANGED <<workVars, status, tagVars, fast, queueVars, looseVars, ownVars, owner, signalled>>

\* Mutant: the workers of each level are chosen after the reactions of the tag.
AdvanceBeforeMeasuring(w) ==
    /\ mode[w] = "advance" /\ current = MaxLevel
    /\ numWorkers' \in NewNumWorkers
    /\ current' = 0
    /\ \E triggered \in SUBSET Reactions :
          /\ Advance(triggered) /\ Queued(triggered)
          /\ slots' = Put(Left, Fresh(triggered), numWorkers)
    /\ count' = [l \in Levels |-> [v \in Workers |-> Len(slots'[l][v])]]
    /\ Enter(w, "look")
    /\ UNCHANGED <<workVars, fast, storing, looseVars, ownVars, owner, signalled, should_stop>>

AdvanceTag(w) ==
    /\ mode[w] = "advance" /\ current = MaxLevel
    /\ numWorkers' \in NewNumWorkers
    /\ current' = 0
    /\ \E triggered \in SUBSET Reactions :
          /\ Advance(triggered) /\ Queued(triggered)
          /\ slots' = Put(Left, Fresh(triggered), numWorkers')
    /\ count' = [l \in Levels |-> [v \in Workers |-> Len(slots'[l][v])]]
    /\ Enter(w, "look")
    /\ UNCHANGED <<workVars, fast, storing, looseVars, ownVars, owner, signalled, should_stop>>

\* get_num_reactions, of the workers of the current level.
NumReactions == MapThenSumSet(LAMBDA v : count[current][v], 0 .. numWorkers[current] - 1)

\* ... is not 0.
SomeReactions == \E v \in 0 .. numWorkers[current] - 1 : count[current][v] > 0

Look(w) ==
    /\ mode[w] = "look"
    /\ Enter(w, IF SomeReactions THEN "awaken" ELSE "advance")
    /\ UNCHANGED <<workVars, status, tagVars, adaptiveVars>>

NumToAwaken == IF should_stop THEN MaxNumWorkers ELSE Min({NumReactions, numWorkers[current]})

\* cond_of: the groups of workers, worker 0, worker 1, 2 and 3, 4 to 7, ..., end
\* before a power of two.  Worker 0 is in the first.
IsPowerOfTwo(p) == \E k \in 0 .. p : p = 2 ^ k

\* cumsum_of_worker_group_sizes: all up to the end of the group of worker n - 1.
Group(n) == {v \in Workers : v = 0 \/ \A p \in n .. 2 * n : IsPowerOfTwo(p) => v < p}

\* worker_states_awaken_locked.  Worker 0 goes on alone without further ado.
GoOnAlone(w) ==
    /\ mode[w] = "awaken" /\ w = 0 /\ NumToAwaken <= 1
    /\ loose' = 1
    /\ Unlock(w)
    /\ Enter(w, "after")
    /\ UNCHANGED <<workVars, status, tagVars, fast, queueVars, levelVars, awakened, counter,
                   ownVars, signalled, should_stop>>

\* Mutant: the caller does not count itself.
AwakenGroup(w) ==
    LET size == Cardinality(Group(NumToAwaken))
    IN  /\ mode[w] = "awaken" /\ ~(w = 0 /\ NumToAwaken <= 1)
        /\ owner \in {w, None}
        /\ loose' = size
        /\ awakened' = loose'
        /\ counter' = counter + 1
        /\ signalled' = signalled \cup {v \in Group(NumToAwaken) : mode[v] = "asleep"}
        /\ owner' = None
        /\ Enter(w, "after")
        /\ UNCHANGED <<workVars, status, tagVars, fast, queueVars, levelVars, ownVars, should_stop>>

\* Mutant: the last group is signalled only.
SignalLastGroup(w) ==
    LET size == Cardinality(Group(NumToAwaken))
    IN  /\ mode[w] = "awaken" /\ ~(w = 0 /\ NumToAwaken <= 1)
        /\ owner \in {w, None}
        /\ loose' = size + IF w >= size THEN 1 ELSE 0
        /\ awakened' = loose'
        /\ counter' = counter + 1
        /\ signalled' = signalled \cup {v \in Group(NumToAwaken) :
              mode[v] = "asleep" /\ NumToAwaken - 1 \in Group(v + 1)}
        /\ owner' = None
        /\ Enter(w, "after")
        /\ UNCHANGED <<workVars, status, tagVars, fast, queueVars, levelVars, ownVars, should_stop>>

AwakenWorkers(w) ==
    LET size == Cardinality(Group(NumToAwaken))
    IN  /\ mode[w] = "awaken" /\ ~(w = 0 /\ NumToAwaken <= 1)
        /\ owner \in {w, None}
        /\ loose' = size + IF w >= size THEN 1 ELSE 0
        /\ awakened' = loose'
        /\ counter' = counter + 1
        /\ signalled' = signalled \cup {v \in Group(NumToAwaken) : mode[v] = "asleep"}
        /\ owner' = None
        /\ Enter(w, "after")
        /\ UNCHANGED <<workVars, status, tagVars, fast, queueVars, levelVars, ownVars, should_stop>>

-----------------------------------------------------------------------------
(* lf_sched_trigger_reaction: claim a slot, then fill it.                  *)

ClaimSlot(w) ==
    /\ \E r \in pending[w] :
          LET l == Level[r]
              v == Hash[r] % numWorkers[l]
          IN  /\ Win(w, r)
              /\ count' = [count EXCEPT ![l][v] = @ + 1]
              /\ storing' = [storing EXCEPT ![w] =
                    [reaction |-> r, worker |-> v, at |-> count'[l][v]]]
    /\ Enter(w, "store")
    /\ UNCHANGED <<running, tagVars, fast, slots, levelVars, looseVars, ownVars, owner,
                   signalled, should_stop>>

\* The slots grow as they are used.
Filled(s, i, r) ==
    [j \in 1 .. IF i > Len(s) THEN i ELSE Len(s) |->
        IF j = i THEN r ELSE IF j <= Len(s) THEN s[j] ELSE None]

StoreReaction(w) ==
    LET s == storing[w]
    IN  /\ mode[w] = "store"
        /\ slots' = [slots EXCEPT ![Level[s.reaction]][s.worker] = Filled(@, s.at, s.reaction)]
        /\ storing' = [storing EXCEPT ![w] = Nothing]
        /\ Enter(w, "trigger")
        /\ UNCHANGED <<workVars, status, tagVars, fast, count, levelVars, looseVars, ownVars,
                       owner, signalled, should_stop>>

Elsewhere(w) == (Invoke(w) \/ Lose(w) \/ Done(w, "queued", "get")) /\ UNCHANGED adaptiveVars

Step(w) ==
    \/ TakeSnapshot(w) \/ Take(w) \/ Reset(w) \/ LockIfNeeded(w) \/ Acquire(w) \/ Check(w)
    \/ Finish(w) \/ Sleep(w) \/ WakeUp(w) \/ After(w) \/ NextLevel(w) \/ Stop(w)
    \/ AdvanceTag(w) \/ Look(w) \/ GoOnAlone(w) \/ AwakenWorkers(w)
    \/ ClaimSlot(w) \/ StoreReaction(w) \/ Elsewhere(w)

Next == \E w \in Workers : Step(w)

Spec == Init /\ [][Next]_vars

-----------------------------------------------------------------------------
\* num_loose_threads is, as include/core/threaded/worker_states.h says, the number
\* of threads that do not wait: those with something to do at this level and those
\* on their way out of a wait.  The last one of them therefore is alone.
OnItsWay(w) ==
    IF mode[w] \in {"sleep", "asleep"}
    THEN ~MustWait(w) /\ (mode[w] = "asleep" => w \in signalled)
    ELSE mode[w] \notin {"advance", "look", "awaken"}
OnTheirWay == {w \in Workers : OnItsWay(w)}
LooseCounted == loose = Cardinality(OnTheirWay)

\* A reaction that was triggered lies in a slot that the workers of its level will
\* come to, or is in somebody's hands; no slot is read before it was filled, and what
\* runs is of the present level.
InSlot(r) ==
    \E l \in current .. MaxLevel : \E v \in 0 .. numWorkers[l] - 1 :
        \E i \in 1 .. count[l][v] : i <= Len(slots[l][v]) /\ slots[l][v][i] = r
WithinReach ==
    /\ \A r \in Reactions : status[r] = "queued" =>
          \/ \E w \in Workers : running[w] = r \/ storing[w].reaction = r
          \/ InSlot(r)
    /\ \A w \in Workers : mode[w] = "invoke" => running[w] # None
    /\ \A w \in Workers : running[w] # None => Level[running[w]] = current

-----------------------------------------------------------------------------
(* Who is alone, and the inductive invariant behind it.                    *)

\* The workers have the numbers from 0.
WorkersNumbered == Workers = 0 .. NumberOfWorkers - 1 /\ None \notin Workers

\* At these steps a worker goes on to another level or tag, often without the lock.
Moving == {"advance", "look", "awaken"}

Modes == Moving \cup {"get", "take", "reset", "lock", "acquire", "check", "finish", "sleep",
                       "asleep", "after", "store", "invoke", "trigger", "exited"}

\* Whoever goes on to another level or tag is alone: all others wait, and are to wait
\* until it awakens them.
LastIsAlone ==
    \A w \in Workers : mode[w] \in Moving =>
        \A v \in Workers \ {w} :
            mode[v] \in {"sleep", "asleep"} /\ v \notin signalled

\* The assertions about num_loose_threads in worker_states.h.
LooseInRange ==
    \A w \in Workers : mode[w] \in {"lock", "finish"} => loose \in 1 .. MaxNumWorkers

LooseTypeOK ==
    /\ mode \in [Workers -> Modes]
    /\ loose \in Nat /\ awakened \in Nat /\ counter \in Nat
    /\ snapshot \in [Workers -> Nat] /\ owner \in Workers \cup {None}
    /\ signalled \subseteq Workers

\* A worker has seen the present level counter, unless it comes from a wait or is in one.
SnapshotHolds(w) ==
    /\ snapshot[w] <= counter
    /\ mode[w] \notin {"get", "after", "exited", "asleep"} => snapshot[w] = counter

\* A worker that has not locked the mutex at the end of a level has nobody to fear.
LockHolds(w) ==
    /\ mode[w] = "sleep" => owner = w
    /\ mode[w] \in {"check", "finish"} => owner = w \/ loose = 1

SignalsHold == \A w \in signalled : mode[w] = "asleep" /\ ~MustWait(w)

MovesAlone(w) ==
    mode[w] \in Moving => loose = 0 /\ \A v \in Workers : mode[v] \in Moving => v = w

LooseInv ==
    /\ LooseTypeOK /\ LooseCounted /\ SignalsHold
    /\ \A w \in Workers : SnapshotHolds(w) /\ LockHolds(w) /\ MovesAlone(w)

-----------------------------------------------------------------------------
(* Where the reactions are, and the inductive invariant behind WithinReach *)
(* and ImplementsTagExecution.                                             *)

\* The compiler puts a reaction at each level, and addresses are numbers.
ProgramFits ==
    /\ IsFiniteSet(Reactions) /\ Hash \in [Reactions -> Nat]
    /\ \A l \in Levels : AtLevel(l) # {}

TypeOK ==
    /\ running \in [Workers -> Reactions \cup {None}] /\ pending \in [Workers -> SUBSET Reactions]
    /\ status \in [Reactions -> {"inactive", "queued"}]
    /\ tag \in Nat /\ stopTag \in Nat /\ completed \in BOOLEAN
    /\ current \in Levels /\ numWorkers \in [Levels -> 1 .. MaxNumWorkers]
    /\ count \in [Levels -> [Workers -> Int]]
    /\ slots \in [Levels -> [Workers -> Seq(Reactions \cup {None})]]
    /\ storing \in [Workers -> [reaction : Reactions \cup {None}, worker : Workers, at : Nat]]
    /\ victim \in [Workers -> Workers]

\* What a worker runs is of the level executed, what it triggers above it.
Holding(w) ==
    /\ running[w] # None <=> mode[w] \in {"invoke", "trigger", "store"}
    /\ running[w] # None => status[running[w]] = "queued" /\ Level[running[w]] = current
    /\ \A r \in pending[w] : Level[r] > current
    /\ pending[w] # {} => mode[w] \in {"trigger", "store"}

\* A worker on its way to fill a slot has it to itself.
Stores(w, l, v, i) ==
    mode[w] = "store" /\ Level[storing[w].reaction] = l /\ storing[w].worker = v /\ storing[w].at = i
StoringHolds(w) ==
    IF mode[w] # "store" THEN storing[w].reaction = None
    ELSE LET r == storing[w].reaction
             v == storing[w].worker
         IN  /\ r # None /\ status[r] = "queued" /\ Level[r] > current
             /\ v < numWorkers[Level[r]] /\ storing[w].at \in 1 .. count[Level[r]][v]
             /\ \A u \in Workers \ {w} : ~Stores(u, Level[r], v, storing[w].at)

\* Two workers hold different reactions.
Apart(v, w) ==
    v # w =>
        /\ running[v] # None => running[v] # running[w]
        /\ storing[v].reaction # None => storing[v].reaction # storing[w].reaction

\* Slot i of worker v is filled.
InPlace(l, v, i) == i \in 1 .. count[l][v] /\ \A w \in Workers : ~Stores(w, l, v, i)

\* All slots in use are of the present level or above, filled or about to be.
SlotsHold ==
    \A l \in Levels, v \in Workers : \A i \in 1 .. count[l][v] :
        /\ l >= current /\ v < numWorkers[l]
        /\ InPlace(l, v, i) =>
              /\ i <= Len(slots[l][v]) /\ slots[l][v][i] \in AtLevel(l)
              /\ status[slots[l][v][i]] = "queued"
              /\ \A w \in Workers : slots[l][v][i] \notin {running[w], storing[w].reaction}

\* No reaction is in two of them.
SlotsApart ==
    \A l \in Levels, u, v \in Workers :
        \A i \in 1 .. count[l][u], j \in 1 .. count[l][v] :
            InPlace(l, u, i) /\ InPlace(l, v, j) /\ slots[l][u][i] = slots[l][v][j] =>
                u = v /\ i = j

\* A reaction that was triggered is in one of them, if nobody has it.
QueuedHold ==
    \A r \in Reactions : status[r] = "queued" =>
        \/ \E w \in Workers : r \in {running[w], storing[w].reaction}
        \/ \E v \in Workers : \E i \in 1 .. count[Level[r]][v] :
              InPlace(Level[r], v, i) /\ slots[Level[r]][v][i] = r

\* A count is negative only until whoever found nothing has written 0.
CountsHold ==
    \A l \in Levels, v \in Workers : count[l][v] < 0 =>
        l = current /\ \E w \in Workers : mode[w] = "reset" /\ victim[w] = v

\* Nothing is left to take at the present level.
Emptied == \A v \in Workers : count[current][v] <= 0

\* What a worker at the end of a level has seen: from its own queue on all were empty.
Passed(w) ==
    {v \in Workers : v < numWorkers[current] /\
        IF w <= victim[w] THEN w <= v /\ v < victim[w] ELSE w <= v \/ v < victim[w]}
SearchHolds(w) ==
    /\ mode[w] = "reset" => count[current][victim[w]] <= 0
    /\ w < numWorkers[current] =>
          /\ mode[w] \in {"take", "reset"} =>
                victim[w] < numWorkers[current] /\ \A v \in Passed(w) : count[current][v] <= 0
          /\ mode[w] \in {"lock", "acquire", "check", "finish"} => Emptied

\* If something is left, worker 0 looks for it, or is about to be awakened.
LevelHolds ==
    \/ Emptied
    \/ \E w \in Workers : mode[w] \in {"look", "awaken"}
    \/ OnItsWay(0) /\ mode[0] \notin {"lock", "acquire", "check", "finish"}

WorkInv ==
    /\ TypeOK /\ SlotsHold /\ SlotsApart /\ QueuedHold /\ CountsHold /\ LevelHolds
    /\ \A w \in Workers : Holding(w) /\ StoringHolds(w) /\ SearchHolds(w)
    /\ \A v, w \in Workers : Apart(v, w)
=============================================================================
