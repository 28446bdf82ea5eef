------------------------------ MODULE DynArray ------------------------------
(***************************************************************************)
(* The array of ds-c/ds_array.c: a buffer whose capacity doubles.  The     *)
(* slots that calloc gives are zero, those that realloc adds are not.  No  *)
(* slot is cleared when its item leaves.  The array stack of ds_stack.c    *)
(* is its append and a removal of the last item that leaves it there.      *)
(***************************************************************************)
EXTENDS QuickSort, ItemSequence

CONSTANTS
    Values,         \* the items that clients put into the array, integers
    Garbage,        \* what is in memory nobody has written to
    Capacities,     \* the capacities that clients ask for
    MaxCapacity,    \* bound: the array is not expanded beyond it
    HeapBase        \* an address: addresses are greater than items

ASSUME DynArrayAssumption ==
    /\ Values \subseteq Int /\ Garbage \in Int
    /\ Capacities \subseteq Nat /\ MaxCapacity \in Nat
    /\ HeapBase \in Int /\ \A v \in Values : v < HeapBase

VARIABLES
    capacity, count,    \* with `items', the fields of the struct
    comparing,          \* compare and assign are set
    promised            \* history: the contents that the calls so far promise

vars == <<capacity, count, items, comparing, frames, promised>>

\* no sort is going on
Idle == frames = <<>>

Contents == [i \in 1 .. count |-> items[i - 1]]

-----------------------------------------------------------------------------
(* Memory.                                                                 *)

\* mutant: the buffer is doubled once
Fits_Once(size, index) == size = IF index < capacity THEN capacity ELSE 2 * capacity

\* the capacity is doubled until the index is in the buffer
Fits(size, index) ==
    /\ \E n \in 0 .. size : size = capacity * 2 ^ n
    /\ index < size
    /\ size > capacity => size \div 2 <= index

\* _array_expand, as often as it takes
Expanded(size) == [i \in 0 .. size - 1 |-> IF i < capacity THEN items[i] ELSE Garbage]

\* DS_ARRAY_FOR_EACH_ITEM hands out the address of the item, not the item
AddressOf(index) == HeapBase + index

-----------------------------------------------------------------------------
(* Items.                                                                  *)

ArrayAssign(index, v) ==
    /\ Idle
    /\ \E size \in capacity .. MaxCapacity :
         /\ Fits(size, index)
         /\ capacity' = size
         /\ items' = [Expanded(size) EXCEPT ![index] = v]
    /\ count' = IF index >= count THEN index + 1 ELSE count
    /\ UNCHANGED <<comparing, frames>>

ArrayAppend(v) == ArrayAssign(count, v)

ArrayErase(index) ==
    /\ Idle
    /\ index < count
    /\ items' = [items EXCEPT ![index] = 0]
    /\ UNCHANGED <<capacity, count, comparing, frames>>

\* mutant: the items are moved one by one from the left, each over the next one
ArrayInsert_Forwards(index, v) ==
    /\ Idle
    /\ index < count
    /\ LET size == IF count >= capacity THEN 2 * capacity ELSE capacity IN
       /\ size <= MaxCapacity
       /\ capacity' = size
       /\ items' = [i \in 0 .. size - 1 |->
                       IF i < index \/ i > count THEN Expanded(size)[i]
                       ELSE IF i = index THEN v ELSE items[index]]
    /\ count' = count + 1
    /\ UNCHANGED <<comparing, frames>>

\* the items from the index on are moved by one slot; there is no such item when
\* the index is not in the array, which is an assignment
ArrayInsert(index, v) ==
    \/ index >= count /\ ArrayAssign(index, v)
    \/ /\ Idle
       /\ index < count
       /\ LET size == IF count >= capacity THEN 2 * capacity ELSE capacity IN
          /\ size <= MaxCapacity
          /\ capacity' = size
          /\ items' = [i \in 0 .. size - 1 |->
                          IF i < index \/ i > count THEN Expanded(size)[i]
                          ELSE IF i = index THEN v ELSE items[i - 1]]
       /\ count' = count + 1
       /\ UNCHANGED <<comparing, frames>>

\* the items behind the index are moved back by one slot, the last slot stays
ArrayRemove(index) ==
    /\ Idle
    /\ index < count
    /\ items' = [i \in 0 .. capacity - 1 |->
                    IF index <= i /\ i + 1 < count THEN items[i + 1] ELSE items[i]]
    /\ count' = count - 1
    /\ UNCHANGED <<capacity, comparing, frames>>

\* ds_array_stack_pop: the last item leaves the array, but not its slot
ArrayPop ==
    /\ Idle
    /\ count > 0
    /\ count' = count - 1
    /\ UNCHANGED <<capacity, items, comparing, frames>>

ArrayClear ==
    /\ Idle
    /\ count' = 0
    /\ UNCHANGED <<capacity, items, comparing, frames>>

-----------------------------------------------------------------------------
(* Order.                                                                  *)

\* before the first position that compares greater, where the address is compared
ArraySortInsert(v) ==
    LET greater == {i \in 0 .. count - 1 : comparing /\ AddressOf(i) > v} IN
    \E index \in 0 .. count :
        /\ \A i \in 0 .. index - 1 : i \notin greater
        /\ index < count => index \in greater
        /\ ArrayInsert(index, v)

\* nothing is sorted without a compare function, nor when there is nothing to sort
ArraySort ==
    /\ Idle
    /\ count > 1 /\ comparing
    /\ frames' = <<Frame(0, count - 1)>>
    /\ UNCHANGED <<capacity, count, items, comparing>>

\* ds_qsort_b
ArraySorting ==
    /\ SortStep
    /\ UNCHANGED <<capacity, count, comparing>>

-----------------------------------------------------------------------------

\* ds_array_create: eight slots for those who do not ask for any
Init ==
    /\ \E asked \in Capacities : capacity = IF asked > 0 THEN asked ELSE 8
    /\ count = 0
    /\ items = [i \in 0 .. capacity - 1 |-> 0]
    /\ comparing \in BOOLEAN
    /\ frames = <<>>
    /\ promised = <<>>

\* a sort keeps its promise when it is over
Sorting ==
    /\ ArraySorting
    /\ IF frames' = <<>> THEN promised' \in InOrder(promised) ELSE UNCHANGED promised

\* What a call promises is what a sequence does, and for sort_insert, which is to keep
\* the array sorted, what it can keep: the item comes to the front of an array that
\* compares, and to the end of another.
Next ==
    \/ \E v \in Values :
         \/ /\ ArrayAppend(v)
            /\ promised' = Append(promised, v)
         \/ /\ ArraySortInsert(v)
            /\ promised' = IF comparing THEN Inserted(promised, 0, v) ELSE Append(promised, v)
    \/ \E v \in Values, index \in 0 .. MaxCapacity - 1 :
         \/ /\ ArrayAssign(index, v)
            /\ promised' = Assigned(promised, index, v, items')
         \/ /\ ArrayInsert(index, v)
            /\ promised' = IF index < Len(promised) THEN Inserted(promised, index, v)
                           ELSE Assigned(promised, index, v, items')
    \/ \E index \in 0 .. count - 1 :
         \/ ArrayErase(index) /\ promised' = Erased(promised, index)
         \/ ArrayRemove(index) /\ promised' = Removed(promised, index)
    \/ ArrayPop /\ promised' = Front(promised)
    \/ ArrayClear /\ promised' = <<>>
    \/ ArraySort /\ UNCHANGED promised
    \/ Sorting

Spec == Init /\ [][Next]_vars

\* a program that sorts waits for the result
FairSpec == Spec /\ WF_vars(Sorting)

-----------------------------------------------------------------------------
(* Properties.                                                             *)

\* The count is at most the capacity, and the buffer is as large as the capacity:
\* no operation, and no step of a sort, is at a slot that is not there.
TypeOK ==
    /\ capacity \in Nat \ {0}
    /\ count \in 0 .. capacity
    /\ items \in [0 .. capacity - 1 -> Values \cup {0, Garbage}]
    /\ comparing \in BOOLEAN
    /\ \A n \in 1 .. Len(frames) :
         0 <= frames[n].begin /\ frames[n].begin < frames[n].end /\ frames[n].end < count

\* Each call leaves the contents that it promises: an item is where the call has put
\* it, none is lost or doubled when the buffer grows, when items move or in the hole of
\* a sort, and a sort leaves the items in order.
ItemsAsPromised == Idle => Contents = promised

=============================================================================
