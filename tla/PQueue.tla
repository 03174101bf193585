------------------------------- MODULE PQueue -------------------------------
(***************************************************************************)
(* The priority queue of the runtime (core/utils/pqueue.c): a binary heap  *)
(* in an array, here a sequence, with the smallest priority at its head    *)
(* (in_reverse_order).  pri gives the priority of an element.  The queues  *)
(* that compare in_no_particular_order move nothing on their way.          *)
(***************************************************************************)
EXTENDS Integers, Sequences

PQSwap(q, i, j) == [q EXCEPT ![i] = q[j], ![j] = q[i]]

RECURSIVE BubbleUp(_, _, _)
BubbleUp(q, i, pri) ==
    IF i > 1 /\ pri[q[i \div 2]] > pri[q[i]]
    THEN BubbleUp(PQSwap(q, i, i \div 2), i \div 2, pri) ELSE q

\* Mutant: the left child is always taken for the smaller one.
LeftChild(q, i, pri) == IF 2 * i > Len(q) THEN 0 ELSE 2 * i

\* maxchild: the child with the smaller priority, 0 if there is none.
MaxChild(q, i, pri) ==
    IF 2 * i > Len(q) THEN 0
    ELSE IF 2 * i < Len(q) /\ pri[q[2 * i]] > pri[q[2 * i + 1]] THEN 2 * i + 1
    ELSE 2 * i

RECURSIVE PercolateDown(_, _, _)
PercolateDown(q, i, pri) ==
    LET child == MaxChild(q, i, pri)
    IN  IF child # 0 /\ pri[q[i]] > pri[q[child]]
        THEN PercolateDown(PQSwap(q, i, child), child, pri) ELSE q

\* pqueue_insert
PQInsert(q, d, pri) == BubbleUp(Append(q, d), Len(q) + 1, pri)

\* The last element takes the place of the one at position i.
LastInto(q, i) == SubSeq([q EXCEPT ![i] = q[Len(q)]], 1, Len(q) - 1)

\* pqueue_pop, of a queue that is not empty.
PQPop(q, pri) == IF Len(q) = 1 THEN <<>> ELSE PercolateDown(LastInto(q, 1), 1, pri)
PopAnyOrder(q) == LastInto(q, 1)

\* pqueue_remove, of an element that is in the queue.
PQRemove(q, d, pri) ==
    LET i == CHOOSE j \in DOMAIN q : q[j] = d
        r == LastInto(q, i)
    IN  IF i = Len(q) THEN r
        ELSE IF pri[d] > pri[r[i]] THEN BubbleUp(r, i, pri)
        ELSE PercolateDown(r, i, pri)

\* find_equal_same_priority: the first of the matching elements with priority p
\* in the subtree of position i, left before right, or 0.
RECURSIVE FindSame(_, _, _, _, _)
FindSame(q, i, p, matching, pri) ==
    IF i > Len(q) THEN 0
    ELSE IF pri[q[i]] > p THEN 0
    ELSE IF pri[q[i]] = p /\ q[i] \in matching THEN q[i]
    ELSE LET left == FindSame(q, 2 * i, p, matching, pri)
         IN  IF left # 0 THEN left ELSE FindSame(q, 2 * i + 1, p, matching, pri)

\* subtree_is_valid, of the whole queue.
PQIsValid(q, pri) == \A i \in 2 .. Len(q) : pri[q[i \div 2]] <= pri[q[i]]
=============================================================================
