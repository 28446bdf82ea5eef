--------------------------- MODULE CircularQueue ---------------------------
(***************************************************************************)
(* The circular queue of ds-c/ds_queue.c: a ring of slots that doubles     *)
(* when only one of them is free.  A slot holds what was last written to   *)
(* it, also after its item has left: shift returns the address of the slot.*)
(***************************************************************************)
EXTENDS Integers, Sequences, SequencesExt

CONSTANTS
    Values,         \* the items that clients push
    None,           \* NULL
    Garbage,        \* what is in memory nobody has written to
    Capacities,     \* the capacities that clients ask for
    MaxCapacity     \* bound: the queue is not expanded beyond it

ASSUME ItemAssumption == None \notin Values /\ Garbage \notin Values
ASSUME CapacityAssumption == Capacities \subseteq Nat /\ MaxCapacity \in Nat

VARIABLES
    queue,          \* the struct ds_circular_queue and its slots
    returned,       \* what the last shift returned: the item ...
    slot,           \* ... and the slot it is in; None when it is no longer there
    copied          \* the queue that the last copy made, None for none

vars == <<queue, returned, slot, copied>>

-----------------------------------------------------------------------------
(* Functions of a queue.                                                   *)

Ring(capacity, head, tail, items) ==
    [capacity |-> capacity, head |-> head, tail |-> tail, items |-> items]

Create(capacity) ==
    LET size == IF capacity > 0 THEN capacity ELSE 8
    IN  Ring(size, 0, 0, [i \in 0 .. size - 1 |-> Garbage])

Length(q) ==
    IF q.tail < q.head THEN q.capacity - q.head + q.tail ELSE q.tail - q.head

\* ds_circular_queue_at: the slot of the item at the index
SlotAt(q, index) ==
    IF q.head + index < q.capacity THEN q.head + index ELSE q.head + index - q.capacity

Contents(q) == [i \in 1 .. Length(q) |-> q.items[SlotAt(q, i - 1)]]

\* mutant: the items of part 2 stay where they are
Expanded_Unmoved(q) ==
    LET middle == q.capacity
        cycled == q.tail < q.head
    IN  Ring(2 * middle, q.head, IF cycled THEN q.tail + middle ELSE q.tail,
             [i \in 0 .. 2 * middle - 1 |-> IF i < middle THEN q.items[i] ELSE Garbage])

\* part 2 of a cycled queue, which may be empty, is copied behind part 1
Expanded(q) ==
    LET middle == q.capacity
        cycled == q.tail < q.head
    IN  Ring(2 * middle, q.head, IF cycled THEN q.tail + middle ELSE q.tail,
             [i \in 0 .. 2 * middle - 1 |->
                 IF i < middle THEN q.items[i]
                 ELSE IF cycled /\ i - middle < q.tail THEN q.items[i - middle]
                 ELSE Garbage])

\* mutant: the last free slot is used before the queue is expanded
Full_NoSpare(q) == Length(q) >= q.capacity

\* only one slot is free
Full(q) == Length(q) + 1 >= q.capacity

Circular(q, i) == IF i >= q.capacity THEN 0 ELSE i

Pushed(q, item) ==
    LET r == IF Full(q) THEN Expanded(q) ELSE q
    IN  Ring(r.capacity, r.head, Circular(r, r.tail + 1), [r.items EXCEPT ![r.tail] = item])

Shifted(q) == Ring(q.capacity, Circular(q, q.head + 1), q.tail, q.items)

\* An address is no item: what a copy holds in place of the item in a slot.
Address(i) == [address |-> i]

Copied(q) ==
    FoldLeft(LAMBDA new, index : Pushed(new, Address(SlotAt(q, index - 1))),
             Create(Length(q) + 1),
             [i \in 1 .. Length(q) |-> i])

-----------------------------------------------------------------------------

Push(v) ==
    /\ Full(queue) => 2 * queue.capacity <= MaxCapacity
    /\ queue' = Pushed(queue, v)
    /\ slot' = IF Full(queue) THEN None ELSE slot      \* realloc has moved the slots
    /\ UNCHANGED <<returned, copied>>

\* mutant: the head does not wrap
Shift_Unwrapped ==
    /\ queue.head # queue.tail
    /\ returned' = queue.items[queue.head]
    /\ slot' = queue.head
    /\ queue' = Ring(queue.capacity, queue.head + 1, queue.tail, queue.items)
    /\ UNCHANGED copied

Shift ==
    \/ /\ queue.head # queue.tail
       /\ returned' = queue.items[queue.head]
       /\ slot' = queue.head
       /\ queue' = Shifted(queue)
       /\ UNCHANGED copied
    \/ /\ queue.head = queue.tail
       /\ returned' = None
       /\ slot' = None
       /\ UNCHANGED <<queue, copied>>

Clear ==
    /\ queue' = Ring(queue.capacity, 0, 0, queue.items)
    /\ slot' = None
    /\ UNCHANGED <<returned, copied>>

Copy ==
    /\ copied' = Copied(queue)
    /\ UNCHANGED <<queue, returned, slot>>

Init ==
    /\ \E capacity \in Capacities : queue = Create(capacity)
    /\ returned = None
    /\ slot = None
    /\ copied = None

Next == (\E v \in Values : Push(v)) \/ Shift \/ Clear \/ Copy

Spec == Init /\ [][Next]_vars

-----------------------------------------------------------------------------
(* Properties.                                                             *)

RingOK(q) ==
    /\ q = Ring(q.capacity, q.head, q.tail, q.items)
    /\ q.capacity \in Nat \ {0}
    /\ q.head \in 0 .. q.capacity - 1
    /\ q.tail \in 0 .. q.capacity - 1
    /\ q.items \in [0 .. q.capacity - 1 -> Values \cup {Garbage}]

\* Head and tail are slots: with the length they determine, at least one slot is
\* free, and an empty queue cannot be taken for a full one.
TypeOK ==
    /\ RingOK(queue)
    /\ returned \in Values \cup {None}
    /\ slot \in (0 .. queue.capacity - 1) \cup {None}

\* However pushes, shifts, wraps and expansions follow each other, the queue is
\* a first-in-first-out queue, and shift never returns what nobody has pushed.
Fifo == INSTANCE FifoQueue WITH contents <- Contents(queue)
FifoSpec == Fifo!Spec

\* The item that shift returned is not erased: its slot stays the one that is
\* free, and no push writes to it until the next shift, clear or expansion.
ReturnedIntact == slot # None => queue.items[slot] = returned

\* ds_queue.h: a copy of the queue; it should have the items of the queue.
CopyHasSameItems ==
    [][copied' # copied => Contents(copied') = Contents(queue)]_vars

=============================================================================
