----------------------------- MODULE LifoStack -----------------------------
(***************************************************************************)
(* What the stacks of ds-c promise, ds-c/ds_stack.h: the item that came    *)
(* last leaves first.                                                      *)
(***************************************************************************)
EXTENDS Naturals, Sequences, SequencesExt

CONSTANTS
    Values,         \* the items that clients push
    None            \* what pop returns when there is nothing to return

VARIABLES
    contents,       \* the items, the last one on top
    returned        \* what pop returned last

\* push item to top of stack
Push(v) ==
    /\ contents' = Append(contents, v)
    /\ UNCHANGED returned

\* remove top item from the stack and return it
Pop ==
    \/ /\ contents # <<>>
       /\ returned' = Last(contents)
       /\ contents' = Front(contents)
    \/ /\ contents = <<>>
       /\ returned' = None
       /\ UNCHANGED contents

Clear ==
    /\ contents' = <<>>
    /\ UNCHANGED returned

Init == contents = <<>> /\ returned = None

Next == (\E v \in Values : Push(v)) \/ Pop \/ Clear

Spec == Init /\ [][Next]_<<contents, returned>>

=============================================================================
