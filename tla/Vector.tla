------------------------------- MODULE Vector -------------------------------
(***************************************************************************)
(* The vectors of core/utils/vector.c: an array that doubles when it is    *)
(* full, and is halved, when an empty vector is popped, if votes for it    *)
(* have piled up.  What realloc adds and nobody wrote is Garbage.          *)
(***************************************************************************)
EXTENDS Integers, Sequences

LOCAL INSTANCE SequencesExt

CONSTANTS
    Elements,
    Garbage,            \* not an element: what uninitialized memory holds
    FirstCapacity,      \* "Must be more than 0"
    FirstRequired,      \* REQUIRED_VOTES_TO_SHRINK
    MaxSize             \* bound: no element is added behind this many

VARIABLES
    memory,     \* the array from start to end
    size,       \* next - start
    votes, required,
    contents    \* history: what the callers put into the vector

vars == <<memory, size, votes, required, contents>>

Fresh(capacity) == [i \in 1 .. capacity |-> Garbage]

Init ==
    /\ memory = Fresh(FirstCapacity)
    /\ size = 0
    /\ votes = 0 /\ required = FirstRequired
    /\ contents = <<>>

Capacity == Len(memory)

\* vector_resize, which gives up if asked for nothing.
Resized(array, capacity) ==
    IF capacity <= Len(array) THEN SubSeq(array, 1, capacity)
    ELSE array \o Fresh(capacity - Len(array))

\* "assert(size <= new_capacity)" is part of the guards of the callers.
Resize(capacity) ==
    IF capacity = 0 THEN UNCHANGED votes ELSE votes' = 0

\* Mutant: the vector grows one element too late.
PushLate(e) ==
    /\ size < MaxSize
    /\ IF size > Capacity
       THEN /\ required' = required + 1
            /\ Resize(Capacity * 2)
            /\ memory' = [Resized(memory, Capacity * 2) EXCEPT ![size + 1] = e]
       ELSE /\ memory' = [memory EXCEPT ![size + 1] = e]
            /\ UNCHANGED <<votes, required>>
    /\ size' = size + 1
    /\ contents' = Append(contents, e)

Push(e) ==
    /\ size < MaxSize
    /\ IF size = Capacity
       THEN /\ required' = required + 1
            /\ Resize(Capacity * 2)
            /\ memory' = [Resized(memory, Capacity * 2) EXCEPT ![size + 1] = e]
       ELSE /\ memory' = [memory EXCEPT ![size + 1] = e]
            /\ UNCHANGED <<votes, required>>
    /\ size' = size + 1
    /\ contents' = Append(contents, e)

PushAll(array) ==
    LET end == size + Len(array)
        there == IF end > Capacity THEN Resized(memory, end * 2) ELSE memory
    IN  /\ end <= MaxSize
        /\ IF end > Capacity THEN Resize(end * 2) ELSE UNCHANGED votes
        /\ memory' = [i \in 1 .. Len(there) |->
                         IF i \in size + 1 .. end THEN array[i - size] ELSE there[i]]
        /\ size' = end
        /\ contents' = contents \o array
        /\ UNCHANGED required

\* An empty vector returns NULL, and may shrink.
Pop ==
    /\ UNCHANGED required
    /\ IF size = 0
       THEN /\ IF votes >= required
               THEN /\ Resize(Capacity \div 2)
                    /\ memory' = IF Capacity = 1 THEN memory ELSE Resized(memory, Capacity \div 2)
               ELSE UNCHANGED <<votes, memory>>
            /\ UNCHANGED <<size, contents>>
       ELSE /\ size' = size - 1
            /\ contents' = Front(contents)
            /\ UNCHANGED <<votes, memory>>

\* The caller of vector_at writes through the pointer it gets.
AtAndSet(idx, e) ==
    LET next == IF idx + 1 > size THEN idx + 1 ELSE size
        doubled == CHOOSE c \in {Capacity * 2 ^ k : k \in 1 .. MaxSize} :
                      /\ c > idx
                      /\ c = Capacity * 2 \/ c \div 2 <= idx
        there == IF next >= Capacity THEN Resized(memory, doubled) ELSE memory
    IN  /\ idx < MaxSize
        /\ IF next >= Capacity
           THEN required' = required + 1 /\ Resize(doubled)
           ELSE UNCHANGED <<votes, required>>
        /\ size' = next
        /\ memory' = [there EXCEPT ![idx + 1] = e]
        /\ contents' = [i \in 1 .. next |->
                           IF i = idx + 1 THEN e ELSE IF i <= size THEN contents[i] ELSE there[i]]

Vote ==
    /\ votes' = IF size * 4 <= Capacity THEN votes + 1 ELSE 0
    /\ votes < required     \* bound: more votes make no difference
    /\ UNCHANGED <<memory, size, required, contents>>

\* Bounds: the vector grows that often.
Next ==
    /\ required <= FirstRequired + 2
    /\ \/ \E e \in Elements : Push(e)
       \/ \E e \in Elements : PushAll(<<e, e>>)
       \/ Pop
       \/ \E idx \in 0 .. MaxSize - 1, e \in Elements : AtAndSet(idx, e)
       \/ Vote

-----------------------------------------------------------------------------
\* Growing and shrinking lose nothing, every element is inside the array, and the
\* array never disappears.
VectorKeepsContents ==
    /\ Capacity > 0 /\ size <= Capacity
    /\ contents = SubSeq(memory, 1, size)
=============================================================================
