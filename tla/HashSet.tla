------------------------------- MODULE HashSet -------------------------------
(***************************************************************************)
(* The sets of pointers of core/utils/hashset: open addressing; a removed  *)
(* item leaves a mark behind, and the table doubles when items and marks   *)
(* fill it.  The runtime keeps recycled tokens in one (core/lf_token.c).   *)
(***************************************************************************)
EXTENDS Integers, Sequences

LOCAL INSTANCE FiniteSets
LOCAL INSTANCE FiniteSetsExt
LOCAL INSTANCE SequencesExt

CONSTANTS
    Items,          \* addresses, none of them 0 or 1
    FirstCapacity,  \* 2 ^ nbits
    LargestCapacity \* bound: the table does not outgrow this

Empty == 0
Deleted == 1

VARIABLES
    table,          \* items, a function on 0 .. capacity - 1
    nitems, deleted,
    members         \* history: what the callers have in the set

vars == <<table, nitems, deleted, members>>

Cleared(capacity) == [i \in 0 .. capacity - 1 |-> Empty]

Init ==
    /\ table = Cleared(FirstCapacity)
    /\ nitems = 0 /\ deleted = 0
    /\ members = {}

CapacityOf(tab) == Cardinality(DOMAIN tab)

\* The k-th slot that is looked at; the step is odd, so they are all different.
Slot(tab, item, k) == (73 * item + 5009 * k) % CapacityOf(tab)

\* Where the loop over the slots ends: at the item, or at an empty slot.
Steps(tab, item) ==
    Min({k \in DOMAIN tab : tab[Slot(tab, item, k)] \in {Empty, item}})

Found(tab, item) == tab[Slot(tab, item, Steps(tab, item))] = item

\* The slots with a mark that are passed on the way.
Passed(tab, item) ==
    {k \in 0 .. Steps(tab, item) - 1 : tab[Slot(tab, item, k)] = Deleted}

\* hashset_add_member on [tab, n, del].
AddMember(set, item) ==
    IF item \in {Empty, Deleted} \/ Found(set.tab, item) THEN set
    ELSE LET free == Passed(set.tab, item)
             k == IF free = {} THEN Steps(set.tab, item) ELSE Min(free)
         IN  [tab |-> [set.tab EXCEPT ![Slot(set.tab, item, k)] = item],
              n |-> set.n + 1,
              del |-> IF free = {} THEN set.del ELSE set.del - 1]

\* Mutant: marks do not count.
RehashByItems(set) ==
    LET capacity == CapacityOf(set.tab)
    IN  IF 100 * set.n < 85 * capacity THEN set
        ELSE FoldLeft(AddMember, [tab |-> Cleared(2 * capacity), n |-> 0, del |-> 0],
                      [i \in 1 .. capacity |-> set.tab[i - 1]])

MaybeRehash(set) ==
    LET capacity == CapacityOf(set.tab)
    IN  IF 100 * (set.n + set.del) < 85 * capacity THEN set
        ELSE FoldLeft(AddMember, [tab |-> Cleared(2 * capacity), n |-> 0, del |-> 0],
                      [i \in 1 .. capacity |-> set.tab[i - 1]])

AddItem(item) ==
    LET set == MaybeRehash(AddMember([tab |-> table, n |-> nitems, del |-> deleted], item))
    IN  /\ CapacityOf(set.tab) <= LargestCapacity
        /\ table' = set.tab /\ nitems' = set.n /\ deleted' = set.del
        /\ members' = members \cup {item}

ClearSlot(i) ==
    /\ table' = [table EXCEPT ![i] = Deleted]
    /\ nitems' = nitems - 1 /\ deleted' = deleted + 1
    /\ members' = members \ {table[i]}

RemoveItem(item) ==
    IF Found(table, item) THEN ClearSlot(Slot(table, item, Steps(table, item)))
    ELSE UNCHANGED <<table, nitems, deleted>> /\ members' = members \ {item}

\* hashset_iterator_next: the next slot with an item, of those behind index.
Behind(index) == {i \in DOMAIN table : i > index /\ table[i] \notin {Empty, Deleted}}

\* _lf_new_token: the first item is taken out again.
TakeFirst == nitems > 0 /\ Behind(-1) # {} /\ ClearSlot(Min(Behind(-1)))

Next == TakeFirst \/ \E item \in Items : AddItem(item) \/ RemoveItem(item)

-----------------------------------------------------------------------------
\* The table holds what was added and not removed, every member where it is looked
\* for, and an empty slot at which each search ends.
HashSetHolds ==
    /\ \E i \in DOMAIN table : table[i] = Empty
    /\ {table[i] : i \in Behind(-1)} = members /\ Cardinality(Behind(-1)) = nitems
    /\ deleted = Cardinality({i \in DOMAIN table : table[i] = Deleted})
    /\ \A item \in Items : Found(table, item) <=> item \in members
=============================================================================
