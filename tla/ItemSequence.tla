---------------------------- MODULE ItemSequence ----------------------------
(***************************************************************************)
(* What the array and the chain table of ds-c promise, ds_array.h and      *)
(* ds_chain.h: the sequence of items that a call leaves, of the sequence   *)
(* it found.  An index counts from 0, as in the code.                      *)
(***************************************************************************)
EXTENDS Integers, Sequences, SequencesExt

\* set data to a position; a position that is skipped holds what memory does there
Assigned(s, index, v, memory) ==
    [i \in 1 .. (IF index < Len(s) THEN Len(s) ELSE index + 1) |->
        IF i = index + 1 THEN v ELSE IF i <= Len(s) THEN s[i] ELSE memory[i - 1]]

Erased(s, index) == [s EXCEPT ![index + 1] = 0]

\* insert data; the items from the position on go to the right
Inserted(s, index, v) == InsertAt(s, index + 1, v)

Removed(s, index) == RemoveAt(s, index + 1)

\* sort: the same items, in order; there is one such sequence
InOrder(s) ==
    {t \in {[i \in DOMAIN s |-> s[place[i]]] : place \in Bijection(DOMAIN s, DOMAIN s)} :
        \A i, j \in DOMAIN s : i <= j => t[i] <= t[j]}

=============================================================================
