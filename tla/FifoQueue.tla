----------------------------- MODULE FifoQueue -----------------------------
(***************************************************************************)
(* What the queues of ds-c promise, ds-c/ds_queue.h: items leave in the    *)
(* order in which they came.                                               *)
(***************************************************************************)
EXTENDS Sequences

CONSTANTS
    Values,         \* the items that clients push
    None            \* what shift returns when there is nothing to return

VARIABLES
    contents,       \* the items, the next to leave first
    returned        \* what shift returned last

\* append the item data to tail of the queue
Push(v) ==
    /\ contents' = Append(contents, v)
    /\ UNCHANGED returned

\* remove head item from the queue and return it
Shift ==
    \/ /\ contents # <<>>
       /\ returned' = Head(contents)
       /\ contents' = Tail(contents)
    \/ /\ contents = <<>>
       /\ returned' = None
       /\ UNCHANGED contents

Clear ==
    /\ contents' = <<>>
    /\ UNCHANGED returned

Init == contents = <<>> /\ returned = None

Next == (\E v \in Values : Push(v)) \/ Shift \/ Clear

Spec == Init /\ [][Next]_<<contents, returned>>

=============================================================================
