----------------------------- MODULE QuickSort -----------------------------
(***************************************************************************)
(* The quick sort of ds-c/ds_base.c.  A call of ds_qsort_b is a frame:     *)
(* its arguments, its variables and where it is.  It takes the first item  *)
(* of its range out as the key, moves the hole that this leaves between    *)
(* the two ends until they meet, puts the key back there, and calls itself *)
(* for the items below the key and for those above it.                     *)
(***************************************************************************)
EXTENDS Integers, Sequences

VARIABLES
    items,      \* the array that is sorted, from index 0 on
    frames      \* the calls, the outermost first; none is no sort

Top == frames[Len(frames)]

\* a call for the items from begin to end: the first one is copied to the key
Frame(begin, end) ==
    [begin |-> begin, end |-> end, left |-> begin, right |-> end,
     key |-> items[begin], pc |-> "right"]

Become(frame) == frames' = [frames EXCEPT ![Len(frames)] = frame]

Goto(pc) == Become([Top EXCEPT !.pc = pc])

\* a recursive call; the caller goes on at pc when it has returned
Descend(pc, frame) ==
    frames' = Append([frames EXCEPT ![Len(frames)] = [Top EXCEPT !.pc = pc]], frame)

At(pc) == frames # <<>> /\ Top.pc = pc

-----------------------------------------------------------------------------
(* The two loops.                                                          *)

\* the hole is at the left; the last item below the key moves there, if there is one
SeekRight ==
    /\ At("right")
    /\ \/ /\ \A i \in Top.left + 1 .. Top.right : items[i] >= Top.key
          /\ Become([Top EXCEPT !.right = Top.left, !.pc = "put"])
          /\ UNCHANGED items
       \/ \E right \in Top.left + 1 .. Top.right :
            /\ items[right] < Top.key
            /\ \A i \in right + 1 .. Top.right : items[i] >= Top.key
            /\ items' = [items EXCEPT ![Top.left] = items[right]]
            /\ Become([Top EXCEPT !.left = Top.left + 1, !.right = right, !.pc = "left"])

\* the hole is at the right; the first item above the key moves there, if there is one
SeekLeft ==
    /\ At("left")
    /\ \/ /\ \A i \in Top.left .. Top.right - 1 : items[i] <= Top.key
          /\ Become([Top EXCEPT !.left = Top.right, !.pc = "put"])
          /\ UNCHANGED items
       \/ \E left \in Top.left .. Top.right - 1 :
            /\ items[left] > Top.key
            /\ \A i \in Top.left .. left - 1 : items[i] <= Top.key
            /\ items' = [items EXCEPT ![Top.right] = items[left]]
            /\ Become([Top EXCEPT !.left = left, !.right = Top.right - 1, !.pc = "right"])

-----------------------------------------------------------------------------
(* After them.                                                             *)

\* the key is put back, unless nothing has moved
PutBack ==
    /\ At("put")
    /\ items' = IF Top.begin < Top.left THEN [items EXCEPT ![Top.left] = Top.key] ELSE items
    /\ Goto("lower")

\* mutants: a lower part of two is not sorted; `while' in place of `if'
SortLower_NotTwo ==
    /\ At("lower")
    /\ IF Top.begin + 2 < Top.left THEN Descend("upper", Frame(Top.begin, Top.left - 1))
                                   ELSE Goto("upper")
    /\ UNCHANGED items

SortLower_Loop ==
    /\ At("lower")
    /\ IF Top.begin + 1 < Top.left THEN Descend("lower", Frame(Top.begin, Top.left - 1))
                                   ELSE Goto("upper")
    /\ UNCHANGED items

\* a part of less than two items is sorted
SortLower ==
    /\ At("lower")
    /\ IF Top.begin + 1 < Top.left THEN Descend("upper", Frame(Top.begin, Top.left - 1))
                                   ELSE Goto("upper")
    /\ UNCHANGED items

SortUpper ==
    /\ At("upper")
    /\ IF Top.left + 1 < Top.end THEN Descend("return", Frame(Top.left + 1, Top.end))
                                 ELSE Goto("return")
    /\ UNCHANGED items

Return ==
    /\ At("return")
    /\ frames' = SubSeq(frames, 1, Len(frames) - 1)
    /\ UNCHANGED items

SortStep == SeekRight \/ SeekLeft \/ PutBack \/ SortLower \/ SortUpper \/ Return

-----------------------------------------------------------------------------
(* Properties.                                                             *)

\* A call leaves its range in order, whatever it found there: the bounds of the
\* two recursive calls leave out no item but the key, which is in its place.
ReturnsSorted ==
    At("return") =>
        \A i \in Top.begin .. Top.end - 1 : items[i] <= items[i + 1]

\* A sort ends: the two ends meet, and every call is for fewer items.
SortEnds == (frames # <<>>) ~> (frames = <<>>)

=============================================================================
