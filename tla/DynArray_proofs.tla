--------------------------- MODULE DynArray_proofs ---------------------------
(***************************************************************************)
(* The array and its sort, for all values and all capacities: every slot   *)
(* an operation or a step of a sort works on is in the buffer, a sort      *)
(* leaves the items in order and loses none of them, and so each call      *)
(* leaves the contents that it promises.                                   *)
(***************************************************************************)
EXTENDS DynArray, FiniteSetTheorems, SequenceTheorems, TLAPS

Item == Values \cup {0, Garbage}

Pcs == {"right", "left", "put", "lower", "upper", "return"}

Frames == [begin : Nat, end : Nat, left : Nat, right : Nat, key : Item, pc : Pcs]

\* The ends of a call, below n, and its two variables between them.
InRange(f, n) ==
    /\ f.begin < f.end /\ f.end < n
    /\ f.begin <= f.left /\ f.left <= f.right /\ f.right <= f.end

\* The types of the fields, and of the calls, each in the range of the items.
Typed ==
    /\ capacity \in Nat \ {0}
    /\ count \in 0 .. capacity
    /\ items \in [0 .. capacity - 1 -> Item]
    /\ comparing \in BOOLEAN
    /\ frames \in Seq(Frames)
    /\ \A n \in 1 .. Len(frames) : InRange(frames[n], count)

-----------------------------------------------------------------------------
(* Calls.                                                                  *)

LEMMA ItemsAreNumbers == Item \subseteq Int
BY DynArrayAssumption DEF Item

\* A call of which the two variables and the place have changed.
LEMMA MoveFacts ==
    ASSUME NEW f \in Frames, NEW l \in Nat, NEW r \in Nat, NEW p \in Pcs
    PROVE  LET g == [f EXCEPT !.left = l, !.right = r, !.pc = p] IN
           /\ g \in Frames
           /\ g.begin = f.begin /\ g.end = f.end /\ g.key = f.key
           /\ g.left = l /\ g.right = r /\ g.pc = p
BY DEF Frames

LEMMA GotoFacts ==
    ASSUME NEW f \in Frames, NEW p \in Pcs
    PROVE  LET g == [f EXCEPT !.pc = p] IN
           /\ g \in Frames
           /\ g.begin = f.begin /\ g.end = f.end /\ g.key = f.key
           /\ g.left = f.left /\ g.right = f.right /\ g.pc = p
BY DEF Frames

\* A new call, for items that are there.
LEMMA FrameFacts ==
    ASSUME NEW b \in Nat, NEW e \in Nat, items[b] \in Item
    PROVE  /\ Frame(b, e) \in Frames
           /\ Frame(b, e).begin = b /\ Frame(b, e).end = e
           /\ Frame(b, e).left = b /\ Frame(b, e).right = e
           /\ Frame(b, e).key = items[b] /\ Frame(b, e).pc = "right"
BY DEF Frames, Frame, Pcs

LEMMA TopFacts ==
    ASSUME Typed, frames # <<>>
    PROVE  /\ Len(frames) \in Nat \ {0}
           /\ Top = frames[Len(frames)]
           /\ Top \in Frames
           /\ InRange(Top, count)
           /\ Top.begin \in Nat /\ Top.end \in Nat /\ Top.left \in Nat /\ Top.right \in Nat
           /\ Top.key \in Item /\ Top.pc \in Pcs
           /\ \A i \in Top.begin .. Top.end : i \in 0 .. capacity - 1 /\ items[i] \in Item
<1>1. /\ Len(frames) \in Nat \ {0}
      /\ Top \in Frames
      /\ InRange(Top, count)
  BY DEF Typed, Top
<1>2. /\ Top.begin \in Nat /\ Top.end \in Nat /\ Top.left \in Nat /\ Top.right \in Nat
      /\ Top.key \in Item /\ Top.pc \in Pcs
  BY <1>1 DEF Frames
<1>3. Top.end < count
  BY <1>1 DEF InRange
<1>4. \A i \in Top.begin .. Top.end : i \in 0 .. capacity - 1 /\ items[i] \in Item
  BY <1>2, <1>3 DEF Typed
<1> QED
  BY <1>1, <1>2, <1>4 DEF Top

\* What the three ways to change the calls do to them.
LEMMA BecomeFacts ==
    ASSUME frames \in Seq(Frames), frames # <<>>, NEW f \in Frames, Become(f)
    PROVE  /\ frames' \in Seq(Frames) /\ frames' # <<>>
           /\ Len(frames') = Len(frames)
           /\ frames'[Len(frames)] = f
           /\ \A m \in 1 .. Len(frames) - 1 : frames'[m] = frames[m]
BY DEF Become

LEMMA DescendFacts ==
    ASSUME frames \in Seq(Frames), frames # <<>>, NEW p \in Pcs, NEW f \in Frames, Descend(p, f)
    PROVE  /\ frames' \in Seq(Frames) /\ frames' # <<>>
           /\ Len(frames') = Len(frames) + 1
           /\ frames'[Len(frames) + 1] = f
           /\ frames'[Len(frames)] = [Top EXCEPT !.pc = p]
           /\ \A m \in 1 .. Len(frames) - 1 : frames'[m] = frames[m]
<1> DEFINE g == [Top EXCEPT !.pc = p]
<1>1. Top \in Frames
  BY DEF Top
<1>2. g \in Frames
  BY <1>1, GotoFacts
<1>3. frames' = Append([frames EXCEPT ![Len(frames)] = g], f)
  BY DEF Descend
<1> HIDE DEF g
<1> QED
  BY <1>2, <1>3 DEF g

LEMMA PopFacts ==
    ASSUME frames \in Seq(Frames), frames # <<>>,
           frames' = SubSeq(frames, 1, Len(frames) - 1)
    PROVE  /\ frames' \in Seq(Frames)
           /\ Len(frames') = Len(frames) - 1
           /\ \A m \in 1 .. Len(frames) - 1 : frames'[m] = frames[m]
<1> DEFINE n == Len(frames)
<1>1. n \in Nat \ {0} /\ \A i \in 1 .. n - 1 : frames[i] \in Frames
  OBVIOUS
<1> HIDE DEF n
<1>2. /\ SubSeq(frames, 1, n - 1) \in Seq(Frames)
      /\ Len(SubSeq(frames, 1, n - 1)) = IF 1 <= n - 1 THEN n - 1 ELSE 0
      /\ \A i \in 1 .. n - 1 : SubSeq(frames, 1, n - 1)[i] = frames[i]
  BY <1>1, SubSeqProperties
<1>3. frames' = SubSeq(frames, 1, n - 1)
  BY DEF n
<1>4. /\ frames' \in Seq(Frames)
      /\ Len(frames') = n - 1
      /\ \A i \in 1 .. n - 1 : frames'[i] = frames[i]
  BY <1>1, <1>2, <1>3
<1> QED
  BY <1>4 DEF n

-----------------------------------------------------------------------------
(* The bounds.                                                             *)

\* A step that changes only what the top call is at, and that inside its range.
LEMMA BecomeTyped ==
    ASSUME Typed, frames # <<>>, NEW f \in Frames, InRange(f, count), Become(f),
           items' \in [0 .. capacity - 1 -> Item], UNCHANGED <<capacity, count, comparing>>
    PROVE  Typed'
<1>1. /\ frames' \in Seq(Frames) /\ Len(frames') = Len(frames)
      /\ frames'[Len(frames)] = f
      /\ \A m \in 1 .. Len(frames) - 1 : frames'[m] = frames[m]
  BY BecomeFacts DEF Typed
<1>2. \A m \in 1 .. Len(frames') : InRange(frames'[m], count)
  BY <1>1 DEF Typed
<1> QED
  BY <1>1, <1>2 DEF Typed

\* What the two loops do to the call at work.
LEMMA SeekRightStep ==
    ASSUME Typed, SeekRight
    PROVE  \E g \in Frames :
             /\ Become(g) /\ g.begin = Top.begin /\ g.end = Top.end /\ g.key = Top.key
             /\ \/ /\ \A i \in Top.left + 1 .. Top.right : items[i] >= Top.key
                   /\ g.left = Top.left /\ g.right = Top.left /\ g.pc = "put"
                   /\ items' = items
                \/ \E y \in Top.left + 1 .. Top.right :
                     /\ items[y] < Top.key
                     /\ \A i \in y + 1 .. Top.right : items[i] >= Top.key
                     /\ g.left = Top.left + 1 /\ g.right = y /\ g.pc = "left"
                     /\ items' = [items EXCEPT ![Top.left] = items[y]]
<1>1. frames # <<>>
  BY DEF SeekRight, At
<1>2. Top \in Frames /\ Top.left \in Nat /\ Top.right \in Nat
  BY <1>1, TopFacts
<1>3. CASE /\ \A i \in Top.left + 1 .. Top.right : items[i] >= Top.key
           /\ Become([Top EXCEPT !.right = Top.left, !.pc = "put"])
           /\ UNCHANGED items
  <2> DEFINE g == [Top EXCEPT !.right = Top.left, !.pc = "put"]
  <2>1. /\ g \in Frames /\ g.begin = Top.begin /\ g.end = Top.end /\ g.key = Top.key
        /\ g.left = Top.left /\ g.right = Top.left /\ g.pc = "put"
    BY <1>2 DEF Frames, Pcs
  <2>2. Become(g)
    BY <1>3
  <2> HIDE DEF g
  <2> QED
    BY <1>3, <2>1, <2>2
<1>4. CASE \E right \in Top.left + 1 .. Top.right :
             /\ items[right] < Top.key
             /\ \A i \in right + 1 .. Top.right : items[i] >= Top.key
             /\ items' = [items EXCEPT ![Top.left] = items[right]]
             /\ Become([Top EXCEPT !.left = Top.left + 1, !.right = right, !.pc = "left"])
  <2>1. PICK y \in Top.left + 1 .. Top.right :
             /\ items[y] < Top.key
             /\ \A i \in y + 1 .. Top.right : items[i] >= Top.key
             /\ items' = [items EXCEPT ![Top.left] = items[y]]
             /\ Become([Top EXCEPT !.left = Top.left + 1, !.right = y, !.pc = "left"])
    BY <1>4
  <2> DEFINE g == [Top EXCEPT !.left = Top.left + 1, !.right = y, !.pc = "left"]
  <2>2. y \in Nat /\ Top.left + 1 \in Nat
    BY <1>2
  <2>3. /\ g \in Frames /\ g.begin = Top.begin /\ g.end = Top.end /\ g.key = Top.key
        /\ g.left = Top.left + 1 /\ g.right = y /\ g.pc = "left"
    BY <1>2, <2>2 DEF Frames, Pcs
  <2>4. Become(g)
    BY <2>1
  <2> HIDE DEF g
  <2> QED
    BY <2>1, <2>3, <2>4
<1> QED
  BY <1>3, <1>4 DEF SeekRight

LEMMA SeekLeftStep ==
    ASSUME Typed, SeekLeft
    PROVE  \E g \in Frames :
             /\ Become(g) /\ g.begin = Top.begin /\ g.end = Top.end /\ g.key = Top.key
             /\ \/ /\ \A i \in Top.left .. Top.right - 1 : items[i] <= Top.key
                   /\ g.left = Top.right /\ g.right = Top.right /\ g.pc = "put"
                   /\ items' = items
                \/ \E y \in Top.left .. Top.right - 1 :
                     /\ items[y] > Top.key
                     /\ \A i \in Top.left .. y - 1 : items[i] <= Top.key
                     /\ g.left = y /\ g.right = Top.right - 1 /\ g.pc = "right"
                     /\ items' = [items EXCEPT ![Top.right] = items[y]]
<1>1. frames # <<>>
  BY DEF SeekLeft, At
<1>2. Top \in Frames /\ Top.left \in Nat /\ Top.right \in Nat
  BY <1>1, TopFacts
<1>3. CASE /\ \A i \in Top.left .. Top.right - 1 : items[i] <= Top.key
           /\ Become([Top EXCEPT !.left = Top.right, !.pc = "put"])
           /\ UNCHANGED items
  <2> DEFINE g == [Top EXCEPT !.left = Top.right, !.pc = "put"]
  <2>1. /\ g \in Frames /\ g.begin = Top.begin /\ g.end = Top.end /\ g.key = Top.key
        /\ g.left = Top.right /\ g.right = Top.right /\ g.pc = "put"
    BY <1>2 DEF Frames, Pcs
  <2>2. Become(g)
    BY <1>3
  <2> HIDE DEF g
  <2> QED
    BY <1>3, <2>1, <2>2
<1>4. CASE \E left \in Top.left .. Top.right - 1 :
             /\ items[left] > Top.key
             /\ \A i \in Top.left .. left - 1 : items[i] <= Top.key
             /\ items' = [items EXCEPT ![Top.right] = items[left]]
             /\ Become([Top EXCEPT !.left = left, !.right = Top.right - 1, !.pc = "right"])
  <2>1. PICK y \in Top.left .. Top.right - 1 :
             /\ items[y] > Top.key
             /\ \A i \in Top.left .. y - 1 : items[i] <= Top.key
             /\ items' = [items EXCEPT ![Top.right] = items[y]]
             /\ Become([Top EXCEPT !.left = y, !.right = Top.right - 1, !.pc = "right"])
    BY <1>4
  <2> DEFINE g == [Top EXCEPT !.left = y, !.right = Top.right - 1, !.pc = "right"]
  <2>2. y \in Nat /\ Top.right - 1 \in Nat
    BY <1>2
  <2>3. /\ g \in Frames /\ g.begin = Top.begin /\ g.end = Top.end /\ g.key = Top.key
        /\ g.left = y /\ g.right = Top.right - 1 /\ g.pc = "right"
    BY <1>2, <2>2 DEF Frames, Pcs
  <2>4. Become(g)
    BY <2>1
  <2> HIDE DEF g
  <2> QED
    BY <2>1, <2>3, <2>4
<1> QED
  BY <1>3, <1>4 DEF SeekLeft

LEMMA SeekTyped ==
    ASSUME Typed, SeekRight \/ SeekLeft, UNCHANGED <<capacity, count, comparing>>
    PROVE  Typed'
<1>1. frames # <<>>
  BY DEF SeekRight, SeekLeft, At
<1> DEFINE i == Top.begin  l == Top.left  r == Top.right  j == Top.end
<1>2. /\ i \in Nat /\ j \in Nat /\ l \in Nat /\ r \in Nat
      /\ i < j /\ j < count /\ i <= l /\ l <= r /\ r <= j
      /\ \A p \in i .. j : p \in 0 .. capacity - 1 /\ items[p] \in Item
      /\ items \in [0 .. capacity - 1 -> Item]
  BY <1>1, TopFacts DEF InRange, Typed
<1>3. PICK g \in Frames :
        /\ Become(g) /\ g.begin = i /\ g.end = j
        /\ \/ g.left = l /\ g.right = l /\ items' = items
           \/ g.left = r /\ g.right = r /\ items' = items
           \/ \E y \in l + 1 .. r :
                g.left = l + 1 /\ g.right = y /\ items' = [items EXCEPT ![l] = items[y]]
           \/ \E y \in l .. r - 1 :
                g.left = y /\ g.right = r - 1 /\ items' = [items EXCEPT ![r] = items[y]]
  <2>1. CASE SeekRight
    BY <2>1, SeekRightStep
  <2>2. CASE SeekLeft
    BY <2>2, SeekLeftStep
  <2> QED
    BY <2>1, <2>2
<1> HIDE DEF i, l, r, j
<1>4. InRange(g, count)
  BY <1>2, <1>3 DEF InRange
<1>5. \A x, y \in i .. j : [items EXCEPT ![x] = items[y]] \in [0 .. capacity - 1 -> Item]
  BY <1>2
<1>6. l \in i .. j /\ r \in i .. j /\ \A y \in l .. r : y \in i .. j
  BY <1>2
<1>7. items' \in [0 .. capacity - 1 -> Item]
  BY <1>2, <1>3, <1>5, <1>6
<1> QED
  BY <1>1, <1>3, <1>4, <1>7, BecomeTyped

LEMMA GotoTyped ==
    ASSUME Typed, frames # <<>>, NEW p \in Pcs, Goto(p),
           items' \in [0 .. capacity - 1 -> Item], UNCHANGED <<capacity, count, comparing>>
    PROVE  Typed'
<1> DEFINE g == [Top EXCEPT !.pc = p]
<1>1. Top \in Frames /\ InRange(Top, count)
  BY TopFacts
<1>2. g \in Frames /\ g.begin = Top.begin /\ g.end = Top.end /\ g.left = Top.left /\ g.right = Top.right
  BY <1>1 DEF Frames
<1>3. Become(g)
  BY DEF Goto
<1> HIDE DEF g
<1>4. InRange(g, count)
  BY <1>1, <1>2 DEF InRange
<1> QED
  BY <1>2, <1>3, <1>4, BecomeTyped

LEMMA PutBackTyped ==
    ASSUME Typed, PutBack, UNCHANGED <<capacity, count, comparing>>
    PROVE  Typed'
<1>1. frames # <<>>
  BY DEF PutBack, At
<1>2. Top.left \in Top.begin .. Top.end /\ Top.key \in Item
  BY <1>1, TopFacts DEF InRange
<1>3. items' \in [0 .. capacity - 1 -> Item]
  BY <1>1, <1>2, TopFacts DEF PutBack, Typed
<1> QED
  BY <1>1, <1>3, GotoTyped DEF PutBack, Pcs

\* A recursive call, for at least two items of the range of the caller.
LEMMA DescendTyped ==
    ASSUME Typed, frames # <<>>, NEW p \in Pcs, NEW b \in Nat, NEW e \in Nat,
           Top.begin <= b, b < e, e <= Top.end, Descend(p, Frame(b, e)),
           UNCHANGED <<items, capacity, count, comparing>>
    PROVE  Typed'
<1> DEFINE g == [Top EXCEPT !.pc = p]
<1>1. /\ Len(frames) \in Nat \ {0} /\ Top \in Frames /\ InRange(Top, count)
      /\ Top.begin \in Nat /\ Top.end \in Nat
      /\ \A i \in Top.begin .. Top.end : items[i] \in Item
  BY TopFacts
<1>2. items[b] \in Item
  BY <1>1
<1>3. /\ Frame(b, e) \in Frames
      /\ Frame(b, e).begin = b /\ Frame(b, e).end = e
      /\ Frame(b, e).left = b /\ Frame(b, e).right = e
  BY <1>2, FrameFacts
<1>4. InRange(Frame(b, e), count)
  BY <1>1, <1>3 DEF InRange, Typed
<1>5. g \in Frames /\ g.begin = Top.begin /\ g.end = Top.end /\ g.left = Top.left /\ g.right = Top.right
  BY <1>1 DEF Frames
<1>6. /\ frames' \in Seq(Frames) /\ Len(frames') = Len(frames) + 1
      /\ frames'[Len(frames) + 1] = Frame(b, e)
      /\ frames'[Len(frames)] = g
      /\ \A m \in 1 .. Len(frames) - 1 : frames'[m] = frames[m]
  BY <1>3, DescendFacts DEF Typed
<1> HIDE DEF g
<1>7. InRange(g, count)
  BY <1>1, <1>5 DEF InRange
<1>8. \A m \in 1 .. Len(frames') :
        m \in 1 .. Len(frames) - 1 \/ m = Len(frames) \/ m = Len(frames) + 1
  BY <1>1, <1>6
<1>9. \A m \in 1 .. Len(frames) - 1 : InRange(frames'[m], count)
  BY <1>1, <1>6 DEF Typed
<1>10. \A m \in 1 .. Len(frames') : InRange(frames'[m], count)
  BY <1>4, <1>6, <1>7, <1>8, <1>9
<1> QED
  BY <1>6, <1>10 DEF Typed

LEMMA SortLowerTyped ==
    ASSUME Typed, SortLower, UNCHANGED <<capacity, count, comparing>>
    PROVE  Typed'
<1>1. frames # <<>> /\ UNCHANGED items
  BY DEF SortLower, At
<1>2. /\ InRange(Top, count)
      /\ Top.begin \in Nat /\ Top.end \in Nat /\ Top.left \in Nat /\ Top.right \in Nat
  BY <1>1, TopFacts
<1>3. CASE Top.begin + 1 < Top.left
  <2>1. Descend("upper", Frame(Top.begin, Top.left - 1))
    BY <1>3 DEF SortLower
  <2>2. Top.left - 1 \in Nat /\ Top.begin < Top.left - 1 /\ Top.left - 1 <= Top.end
    BY <1>2, <1>3 DEF InRange
  <2> QED
    BY <1>1, <1>2, <2>1, <2>2, DescendTyped DEF Pcs
<1>4. CASE ~(Top.begin + 1 < Top.left)
  BY <1>1, <1>4, GotoTyped DEF SortLower, Pcs, Typed
<1> QED
  BY <1>3, <1>4

LEMMA SortUpperTyped ==
    ASSUME Typed, SortUpper, UNCHANGED <<capacity, count, comparing>>
    PROVE  Typed'
<1>1. frames # <<>> /\ UNCHANGED items
  BY DEF SortUpper, At
<1>2. /\ InRange(Top, count)
      /\ Top.begin \in Nat /\ Top.end \in Nat /\ Top.left \in Nat /\ Top.right \in Nat
  BY <1>1, TopFacts
<1>3. CASE Top.left + 1 < Top.end
  <2>1. Descend("return", Frame(Top.left + 1, Top.end))
    BY <1>3 DEF SortUpper
  <2>2. Top.left + 1 \in Nat /\ Top.begin <= Top.left + 1
    BY <1>2 DEF InRange
  <2> QED
    BY <1>1, <1>2, <1>3, <2>1, <2>2, DescendTyped DEF Pcs
<1>4. CASE ~(Top.left + 1 < Top.end)
  BY <1>1, <1>4, GotoTyped DEF SortUpper, Pcs, Typed
<1> QED
  BY <1>3, <1>4

LEMMA ReturnTyped ==
    ASSUME Typed, Return, UNCHANGED <<capacity, count, comparing>>
    PROVE  Typed'
<1>1. frames # <<>> /\ UNCHANGED items /\ frames' = SubSeq(frames, 1, Len(frames) - 1)
  BY DEF Return, At
<1>2. /\ frames' \in Seq(Frames) /\ Len(frames') = Len(frames) - 1
      /\ \A m \in 1 .. Len(frames) - 1 : frames'[m] = frames[m]
  BY <1>1, PopFacts DEF Typed
<1>3. \A m \in 1 .. Len(frames') : InRange(frames'[m], count)
  BY <1>2 DEF Typed
<1> QED
  BY <1>1, <1>2, <1>3 DEF Typed

LEMMA SortingTyped ==
    ASSUME Typed, ArraySorting
    PROVE  Typed'
BY SeekTyped, PutBackTyped, SortLowerTyped, SortUpperTyped, ReturnTyped
   DEF ArraySorting, SortStep

LEMMA ArraySortTyped ==
    ASSUME Typed, ArraySort
    PROVE  Typed'
<1>1. /\ count \in Nat /\ count - 1 \in Nat /\ 0 \in Nat /\ 0 < count - 1
      /\ items[0] \in Item
      /\ frames' = <<Frame(0, count - 1)>>
      /\ UNCHANGED <<capacity, count, items, comparing>>
  BY DEF Typed, ArraySort
<1>2. /\ Frame(0, count - 1) \in Frames
      /\ Frame(0, count - 1).begin = 0 /\ Frame(0, count - 1).end = count - 1
      /\ Frame(0, count - 1).left = 0 /\ Frame(0, count - 1).right = count - 1
  BY <1>1, FrameFacts
<1>3. InRange(Frame(0, count - 1), count)
  BY <1>1, <1>2 DEF InRange
<1>4. frames' \in Seq(Frames) /\ Len(frames') = 1 /\ frames'[1] = Frame(0, count - 1)
  BY <1>1, <1>2
<1>5. \A m \in 1 .. Len(frames') : InRange(frames'[m], count)
  BY <1>3, <1>4
<1> QED
  BY <1>1, <1>4, <1>5 DEF Typed

\* The operations on items: no sort is going on before or after them.
LEMMA AssignTyped ==
    ASSUME Typed, NEW index \in Nat, NEW v \in Values, ArrayAssign(index, v)
    PROVE  Typed'
<1>1. PICK size \in capacity .. MaxCapacity :
        /\ Fits(size, index)
        /\ capacity' = size
        /\ items' = [Expanded(size) EXCEPT ![index] = v]
  BY DEF ArrayAssign
<1>2. size \in Nat \ {0} /\ capacity <= size /\ index < size
  BY <1>1, DynArrayAssumption DEF Typed, Fits
<1>3. Expanded(size) \in [0 .. size - 1 -> Item]
  BY <1>2 DEF Expanded, Item, Typed
<1>4. items' \in [0 .. size - 1 -> Item]
  BY <1>1, <1>2, <1>3 DEF Item
<1>5. count' \in 0 .. size
  BY <1>2 DEF ArrayAssign, Typed
<1>6. frames' = <<>> /\ comparing' = comparing
  BY DEF ArrayAssign, Idle
<1> QED
  BY <1>1, <1>2, <1>4, <1>5, <1>6 DEF Typed

LEMMA InsertTyped ==
    ASSUME Typed, NEW index \in Nat, NEW v \in Values, ArrayInsert(index, v)
    PROVE  Typed'
<1>1. CASE index >= count /\ ArrayAssign(index, v)
  BY <1>1, AssignTyped
<1>2. CASE ~(index >= count /\ ArrayAssign(index, v))
  <2> DEFINE size == IF count >= capacity THEN 2 * capacity ELSE capacity
  <2>1. /\ index < count
        /\ capacity' = size
        /\ items' = [i \in 0 .. size - 1 |->
                        IF i < index \/ i > count THEN Expanded(size)[i]
                        ELSE IF i = index THEN v ELSE items[i - 1]]
        /\ count' = count + 1
        /\ frames' = <<>> /\ comparing' = comparing
    BY <1>2 DEF ArrayInsert, Idle
  <2>2. size \in Nat \ {0} /\ capacity <= size /\ count + 1 \in 0 .. size
    BY DEF Typed
  <2> HIDE DEF size
  <2>3. \A i \in 0 .. size - 1 : Expanded(size)[i] \in Item
    BY <2>2 DEF Expanded, Item, Typed
  <2>4. \A i \in 0 .. size - 1 : i > index /\ i <= count => items[i - 1] \in Item
    BY <2>2 DEF Typed
  <2>5. \A i \in 0 .. size - 1 :
          (IF i < index \/ i > count THEN Expanded(size)[i]
           ELSE IF i = index THEN v ELSE items[i - 1]) \in Item
    BY <2>2, <2>3, <2>4 DEF Item, Typed
  <2>6. items' \in [0 .. size - 1 -> Item]
    BY <2>1, <2>5
  <2> QED
    BY <2>1, <2>2, <2>6 DEF Typed
<1> QED
  BY <1>1, <1>2

LEMMA RemoveTyped ==
    ASSUME Typed, NEW index \in Nat, ArrayErase(index) \/ ArrayRemove(index) \/ ArrayPop \/ ArrayClear
    PROVE  Typed'
<1>1. CASE ArrayErase(index)
  BY <1>1 DEF ArrayErase, Typed, Item
<1>2. CASE ArrayRemove(index)
  <2>1. items' \in [0 .. capacity - 1 -> Item]
    BY <1>2 DEF ArrayRemove, Typed
  <2> QED
    BY <1>2, <2>1 DEF ArrayRemove, Typed, Idle
<1>3. CASE ArrayPop
  BY <1>3 DEF ArrayPop, Typed, Idle
<1>4. CASE ArrayClear
  BY <1>4 DEF ArrayClear, Typed, Idle
<1> QED
  BY <1>1, <1>2, <1>3, <1>4

LEMMA InitTyped ==
    ASSUME Init
    PROVE  Typed
<1>1. /\ capacity \in Nat \ {0} /\ count = 0 /\ comparing \in BOOLEAN
      /\ items = [i \in 0 .. capacity - 1 |-> 0]
      /\ frames = <<>>
  BY DynArrayAssumption DEF Init
<1> QED
  BY <1>1 DEF Typed, Item

LEMMA StepTyped ==
    ASSUME Typed, [Next]_vars
    PROVE  Typed'
<1>1. \A index \in 0 .. MaxCapacity - 1 : index \in Nat
  BY DynArrayAssumption
<1>2. count \in Nat /\ \A index \in 0 .. count - 1 : index \in Nat
  BY DEF Typed
<1>3. ASSUME NEW v \in Values, ArrayAppend(v)
      PROVE  Typed'
  BY <1>2, <1>3, AssignTyped DEF ArrayAppend
<1>4. ASSUME NEW v \in Values, ArraySortInsert(v)
      PROVE  Typed'
  <2>1. PICK index \in 0 .. count : ArrayInsert(index, v)
    BY <1>4 DEF ArraySortInsert
  <2> QED
    BY <1>2, <2>1, InsertTyped
<1>5. ASSUME NEW v \in Values, NEW index \in 0 .. MaxCapacity - 1,
             ArrayAssign(index, v) \/ ArrayInsert(index, v)
      PROVE  Typed'
  BY <1>1, <1>5, AssignTyped, InsertTyped
<1>6. ASSUME NEW index \in 0 .. count - 1, ArrayErase(index) \/ ArrayRemove(index)
      PROVE  Typed'
  BY <1>2, <1>6, RemoveTyped
<1>7. CASE ArrayPop \/ ArrayClear
  BY <1>7, RemoveTyped
<1>8. CASE ArraySort \/ Sorting
  BY <1>8, ArraySortTyped, SortingTyped DEF Sorting
<1>9. CASE UNCHANGED vars
  BY <1>9 DEF vars, Typed
<1> QED
  BY <1>3, <1>4, <1>5, <1>6, <1>7, <1>8, <1>9 DEF Next

LEMMA TypedIsTypeOK ==
    ASSUME Typed
    PROVE  TypeOK
<1>1. ASSUME NEW n \in 1 .. Len(frames)
      PROVE  0 <= frames[n].begin /\ frames[n].begin < frames[n].end /\ frames[n].end < count
  <2>1. frames[n] \in Frames /\ InRange(frames[n], count)
    BY DEF Typed
  <2>2. frames[n].begin \in Nat
    BY <2>1 DEF Frames
  <2> QED
    BY <2>1, <2>2 DEF InRange
<1>2. /\ capacity \in Nat \ {0} /\ count \in 0 .. capacity /\ comparing \in BOOLEAN
      /\ items \in [0 .. capacity - 1 -> Values \cup {0, Garbage}]
  BY DEF Typed, Item
<1>3. \A n \in 1 .. Len(frames) :
        0 <= frames[n].begin /\ frames[n].begin < frames[n].end /\ frames[n].end < count
  BY <1>1
<1> QED
  BY <1>2, <1>3 DEF TypeOK

\* No operation on the array (ds_array.c) and no step of its sort (ds_qsort_b) is at
\* a slot that is not in the buffer: the count is at most the capacity, and every
\* call of the sort, however deep, is for a range of the items.
THEOREM ArrayInBounds == Spec => []TypeOK
<1>1. Init => Typed
  BY InitTyped
<1>2. Typed /\ [Next]_vars => Typed'
  BY StepTyped
<1>3. Typed => TypeOK
  BY TypedIsTypeOK
<1> QED
  BY <1>1, <1>2, <1>3, PTL DEF Spec

-----------------------------------------------------------------------------
(* The order that a sort leaves.                                           *)

Ascending(a, i, j) == \A p, q \in i .. j : p <= q => a[p] <= a[q]

\* From i to j, what is left of l is not above the key, what is right of r not below.
Around(a, i, l, r, j, key) ==
    /\ \A p \in i .. l - 1 : a[p] <= key
    /\ \A p \in r + 1 .. j : a[p] >= key

\* The key is back, between the two parts.
Parted(a, f) == Around(a, f.begin, f.left, f.left, f.end, a[f.left])

\* The call at work: nothing has moved yet as long as its left end is at its begin.
Working(a, f) ==
    /\ f.pc \in {"right", "left", "put"} =>
         /\ Around(a, f.begin, f.left, f.right, f.end, f.key)
         /\ f.left = f.begin => f.pc # "left" /\ a[f.left] = f.key
    /\ f.pc = "put" => f.left = f.right
    /\ f.pc \in {"lower", "upper", "return"} => Parted(a, f)
    /\ f.pc \in {"upper", "return"} => Ascending(a, f.begin, f.left - 1)
    /\ f.pc = "return" => Ascending(a, f.left + 1, f.end)

\* A call that waits for one of its two recursive calls.
Waiting(a, f) ==
    /\ f.pc \in {"upper", "return"}
    /\ Parted(a, f)
    /\ f.pc = "return" => Ascending(a, f.begin, f.left - 1)

\* The call d that c has made is for all of the items of a part.
Called(c, d) ==
    /\ c.pc = "upper" => d.begin = c.begin /\ d.end = c.left - 1
    /\ c.pc = "return" => d.begin = c.left + 1 /\ d.end = c.end

\* The call d, or one that it is under, was made by c: its key is from that part.
Under(a, c, d) ==
    /\ c.pc = "upper" => c.begin <= d.begin /\ d.end < c.left /\ d.key <= a[c.left]
    /\ c.pc = "return" => c.left < d.begin /\ d.end <= c.end /\ a[c.left] <= d.key

\* The invariant, of an array a and calls fs.
SortedBy(a, fs) ==
    /\ fs # <<>> => Working(a, fs[Len(fs)])
    /\ \A m \in 1 .. Len(fs) - 1 : Waiting(a, fs[m]) /\ Called(fs[m], fs[m + 1])
    /\ \A n \in 1 .. Len(fs) : \A m \in 1 .. n - 1 : Under(a, fs[m], fs[n])

\* A write of d is in its range, and of an item of that range or of the key.
Moves(a, d, b) ==
    \/ b = a
    \/ \E x \in d.begin .. d.end, v \in Item :
         /\ b = [a EXCEPT ![x] = v]
         /\ v = d.key \/ \E y \in d.begin .. d.end : v = a[y]

\* A write on one side of the key, of what may be there.
LEMMA WriteKeepsAround ==
    ASSUME NEW N \in Nat, NEW a \in [0 .. N - 1 -> Int], NEW i \in Nat, NEW l \in Nat, NEW j \in Nat,
           i <= l, l <= j, j < N, NEW x \in 0 .. N - 1, NEW v \in Int, NEW key \in Int,
           Around(a, i, l, l, j, key), x < l => v <= key, x > l => v >= key, x # l
    PROVE  /\ Around([a EXCEPT ![x] = v], i, l, l, j, key)
           /\ x > l /\ Ascending(a, i, l - 1) => Ascending([a EXCEPT ![x] = v], i, l - 1)
<1> DEFINE b == [a EXCEPT ![x] = v]
<1>1. \A p \in 0 .. N - 1 : b[p] \in Int /\ a[p] \in Int /\ (p # x => b[p] = a[p])
  OBVIOUS
<1>2. b[x] = v
  OBVIOUS
<1> HIDE DEF b
<1>3. \A p \in i .. l - 1 : b[p] <= key
  BY <1>1, <1>2 DEF Around
<1>4. \A p \in l + 1 .. j : b[p] >= key
  BY <1>1, <1>2 DEF Around
<1>5. ASSUME x > l, Ascending(a, i, l - 1)
      PROVE  Ascending(b, i, l - 1)
  BY <1>1, <1>5 DEF Ascending
<1> QED
  BY <1>3, <1>4, <1>5 DEF Around, b

\* Such a write leaves a call that waits for d as it is.
LEMMA MovesKeepWaiting ==
    ASSUME NEW N \in Nat, NEW a \in [0 .. N - 1 -> Item], NEW b \in [0 .. N - 1 -> Item],
           NEW c \in Frames, NEW d \in Frames, InRange(c, N), InRange(d, N),
           Waiting(a, c), Under(a, c, d), Moves(a, d, b)
    PROVE  Waiting(b, c) /\ b[c.left] = a[c.left]
<1>1. CASE b = a
  BY <1>1
<1>2. CASE b # a
  <2>1. PICK x \in d.begin .. d.end, v \in Item :
          /\ b = [a EXCEPT ![x] = v]
          /\ v = d.key \/ \E y \in d.begin .. d.end : v = a[y]
    BY <1>2 DEF Moves
  <2> DEFINE i == c.begin   l == c.left   j == c.end   k == a[c.left]
             db == d.begin  de == d.end
  <2>2. i \in Nat /\ j \in Nat /\ l \in Nat /\ i <= l /\ l <= j /\ j < N
    BY DEF Frames, InRange
  <2>3. db \in Nat /\ de \in Nat /\ de < N /\ d.key \in Item
    BY DEF Frames, InRange
  <2>4. a \in [0 .. N - 1 -> Int] /\ v \in Int /\ d.key \in Int
    BY <2>3, ItemsAreNumbers
  <2>5. k \in Int /\ Around(a, i, l, l, j, k)
    BY <2>2, <2>4 DEF Waiting, Parted
  <2>6. x \in db .. de /\ (v = d.key \/ \E y \in db .. de : v = a[y])
    BY <2>1
  <2>7. /\ c.pc = "upper" => i <= db /\ de < l /\ d.key <= k
        /\ c.pc = "return" => l < db /\ de <= j /\ k <= d.key /\ Ascending(a, i, l - 1)
        /\ c.pc \in {"upper", "return"}
    BY DEF Under, Waiting
  <2>8. b = [a EXCEPT ![x] = v]
    BY <2>1
  <2> HIDE DEF i, l, j, k, db, de
  <2>9. x \in 0 .. N - 1 /\ x # l /\ (x < l => v <= k) /\ (x > l => v >= k)
    <3>1. CASE c.pc = "upper"
      BY <2>2, <2>3, <2>4, <2>5, <2>6, <2>7, <3>1 DEF Around
    <3>2. CASE c.pc = "return"
      BY <2>2, <2>3, <2>4, <2>5, <2>6, <2>7, <3>2 DEF Around
    <3> QED
      BY <2>7, <3>1, <3>2
  <2>10. Around(b, i, l, l, j, k) /\ (x > l /\ Ascending(a, i, l - 1) => Ascending(b, i, l - 1))
    BY <2>2, <2>4, <2>5, <2>8, <2>9, WriteKeepsAround
  <2>11. b[l] = k
    BY <2>2, <2>8, <2>9 DEF k, l
  <2>12. c.pc = "return" => x > l
    BY <2>2, <2>3, <2>6, <2>7
  <2>13. c.pc = "return" => Ascending(b, i, l - 1)
    BY <2>7, <2>10, <2>12
  <2> QED
    BY <2>7, <2>10, <2>11, <2>13 DEF Waiting, Parted, i, l, j, k
<1> QED
  BY <1>1, <1>2

\* A step of the call at work, which keeps its range and its key.
LEMMA BecomeSorted ==
    ASSUME Typed, SortedBy(items, frames), frames # <<>>, NEW g \in Frames, Become(g),
           g.begin = Top.begin, g.end = Top.end, g.key = Top.key,
           items' \in [0 .. capacity - 1 -> Item], Moves(items, Top, items'), Working(items', g)
    PROVE  SortedBy(items', frames')
<1> DEFINE n == Len(frames)
<1>1. /\ n \in Nat \ {0} /\ Top = frames[n]
      /\ Top \in Frames /\ InRange(Top, count)
  BY TopFacts
<1>2. /\ frames' \in Seq(Frames) /\ frames' # <<>> /\ Len(frames') = n /\ frames'[n] = g
      /\ \A m \in 1 .. n - 1 : frames'[m] = frames[m]
  BY BecomeFacts DEF Typed
<1>3. \A m \in 1 .. n : frames[m] \in Frames /\ InRange(frames[m], count)
  BY DEF Typed
<1>4. capacity \in Nat /\ count \in Nat /\ count <= capacity /\ items \in [0 .. capacity - 1 -> Item]
  BY DEF Typed
<1>5. ASSUME NEW f \in Frames, InRange(f, count)
      PROVE  InRange(f, capacity)
  BY <1>4, <1>5 DEF InRange, Frames
<1>6. ASSUME NEW m \in 1 .. n - 1
      PROVE  Waiting(items', frames[m]) /\ items'[frames[m].left] = items[frames[m].left]
  <2>1. Waiting(items, frames[m]) /\ Under(items, frames[m], Top)
    BY <1>1 DEF SortedBy
  <2>2. frames[m] \in Frames /\ InRange(frames[m], capacity) /\ InRange(Top, capacity)
    BY <1>1, <1>3, <1>5
  <2> QED
    BY <1>1, <1>4, <2>1, <2>2, MovesKeepWaiting
<1> HIDE DEF n
<1>7. \A m \in 1 .. n - 1 : Waiting(items', frames'[m]) /\ Called(frames'[m], frames'[m + 1])
  <2> SUFFICES ASSUME NEW m \in 1 .. n - 1
               PROVE  Called(frames'[m], frames'[m + 1])
    BY <1>2, <1>6
  <2>1. Called(frames[m], frames[m + 1])
    BY DEF SortedBy, n
  <2>2. CASE m + 1 \in 1 .. n - 1
    BY <1>2, <2>1, <2>2
  <2>3. CASE m + 1 = n
    BY <1>1, <1>2, <2>1, <2>3 DEF Called
  <2> QED
    BY <1>1, <2>2, <2>3
<1>8. \A k \in 1 .. n : \A m \in 1 .. k - 1 : Under(items', frames'[m], frames'[k])
  <2> SUFFICES ASSUME NEW k \in 1 .. n, NEW m \in 1 .. k - 1
               PROVE  Under(items', frames'[m], frames'[k])
    OBVIOUS
  <2>1. m \in 1 .. n - 1 /\ Under(items, frames[m], frames[k])
    BY <1>1 DEF SortedBy, n
  <2>2. Under(items', frames[m], frames[k])
    BY <1>6, <2>1 DEF Under
  <2>3. CASE k \in 1 .. n - 1
    BY <1>2, <2>1, <2>2, <2>3
  <2>4. CASE k = n
    BY <1>1, <1>2, <2>1, <2>2, <2>4 DEF Under
  <2> QED
    BY <1>1, <2>3, <2>4
<1> QED
  BY <1>2, <1>7, <1>8 DEF SortedBy

\* What the two loops and the end of a call do to what is around the hole.
LEMMA SeekRightAround ==
    ASSUME NEW N \in Nat, NEW a \in [0 .. N - 1 -> Int], NEW i \in Nat, NEW l \in Nat, NEW r \in Nat,
           NEW j \in Nat, NEW key \in Int, i <= l, l <= r, r <= j, j < N, Around(a, i, l, r, j, key)
    PROVE  /\ (\A p \in l + 1 .. r : a[p] >= key) => Around(a, i, l, l, j, key)
           /\ \A y \in l + 1 .. r :
                a[y] < key /\ (\A p \in y + 1 .. r : a[p] >= key)
                  => Around([a EXCEPT ![l] = a[y]], i, l + 1, y, j, key)
<1>1. ASSUME \A p \in l + 1 .. r : a[p] >= key
      PROVE  Around(a, i, l, l, j, key)
  <2>1. \A p \in l + 1 .. j : p \in l + 1 .. r \/ p \in r + 1 .. j
    OBVIOUS
  <2> QED
    BY <1>1, <2>1 DEF Around
<1>2. ASSUME NEW y \in l + 1 .. r, a[y] < key, \A p \in y + 1 .. r : a[p] >= key
      PROVE  Around([a EXCEPT ![l] = a[y]], i, l + 1, y, j, key)
  <2> DEFINE b == [a EXCEPT ![l] = a[y]]
  <2>1. b[l] = a[y] /\ \A p \in 0 .. N - 1 : p # l => b[p] = a[p]
    OBVIOUS
  <2> HIDE DEF b
  <2>2. \A p \in i .. l + 1 - 1 : p = l \/ p \in i .. l - 1
    OBVIOUS
  <2>3. \A p \in i .. l - 1 : b[p] = a[p]
    BY <2>1
  <2>4. \A p \in i .. l + 1 - 1 : b[p] <= key
    BY <1>2, <2>1, <2>2, <2>3 DEF Around
  <2>5. \A p \in y + 1 .. j : b[p] = a[p] /\ (p \in y + 1 .. r \/ p \in r + 1 .. j)
    BY <2>1
  <2>6. \A p \in y + 1 .. j : b[p] >= key
    BY <1>2, <2>5 DEF Around
  <2> QED
    BY <2>4, <2>6 DEF Around, b
<1> QED
  BY <1>1, <1>2

LEMMA SeekLeftAround ==
    ASSUME NEW N \in Nat, NEW a \in [0 .. N - 1 -> Int], NEW i \in Nat, NEW l \in Nat, NEW r \in Nat,
           NEW j \in Nat, NEW key \in Int, i <= l, l <= r, r <= j, j < N, Around(a, i, l, r, j, key)
    PROVE  /\ (\A p \in l .. r - 1 : a[p] <= key) => Around(a, i, r, r, j, key)
           /\ \A y \in l .. r - 1 :
                a[y] > key /\ (\A p \in l .. y - 1 : a[p] <= key)
                  => Around([a EXCEPT ![r] = a[y]], i, y, r - 1, j, key)
<1>1. ASSUME \A p \in l .. r - 1 : a[p] <= key
      PROVE  Around(a, i, r, r, j, key)
  <2>1. \A p \in i .. r - 1 : p \in l .. r - 1 \/ p \in i .. l - 1
    OBVIOUS
  <2> QED
    BY <1>1, <2>1 DEF Around
<1>2. ASSUME NEW y \in l .. r - 1, a[y] > key, \A p \in l .. y - 1 : a[p] <= key
      PROVE  Around([a EXCEPT ![r] = a[y]], i, y, r - 1, j, key)
  <2> DEFINE b == [a EXCEPT ![r] = a[y]]
  <2>1. b[r] = a[y] /\ \A p \in 0 .. N - 1 : p # r => b[p] = a[p]
    OBVIOUS
  <2> HIDE DEF b
  <2>2. \A p \in r - 1 + 1 .. j : p = r \/ p \in r + 1 .. j
    OBVIOUS
  <2>3. \A p \in r + 1 .. j : b[p] = a[p]
    BY <2>1
  <2>4. \A p \in r - 1 + 1 .. j : b[p] >= key
    BY <1>2, <2>1, <2>2, <2>3 DEF Around
  <2>5. \A p \in i .. y - 1 : b[p] = a[p] /\ (p \in l .. y - 1 \/ p \in i .. l - 1)
    BY <2>1
  <2>6. \A p \in i .. y - 1 : b[p] <= key
    BY <1>2, <2>5 DEF Around
  <2> QED
    BY <2>4, <2>6 DEF Around, b
<1> QED
  BY <1>1, <1>2

LEMMA PutBackAround ==
    ASSUME NEW N \in Nat, NEW a \in [0 .. N - 1 -> Int], NEW i \in Nat, NEW l \in Nat,
           NEW j \in Nat, NEW key \in Int, i <= l, l <= j, j < N,
           Around(a, i, l, l, j, key), l = i => a[l] = key, NEW b,
           b = IF i < l THEN [a EXCEPT ![l] = key] ELSE a
    PROVE  Around(b, i, l, l, j, b[l])
<1>1. b[l] = key
  OBVIOUS
<1>2. \A p \in 0 .. N - 1 : p # l => b[p] = a[p]
  OBVIOUS
<1>3. \A p \in i .. l - 1 : b[p] = a[p]
  BY <1>2
<1>4. \A p \in l + 1 .. j : b[p] = a[p]
  BY <1>2
<1> QED
  BY <1>1, <1>3, <1>4 DEF Around

\* Two parts in order, and the key between them.
LEMMA AscendingJoin ==
    ASSUME NEW N \in Nat, NEW a \in [0 .. N - 1 -> Int], NEW i \in Nat, NEW l \in Nat, NEW j \in Nat,
           i <= l, l <= j, j < N, Around(a, i, l, l, j, a[l]),
           Ascending(a, i, l - 1), Ascending(a, l + 1, j)
    PROVE  Ascending(a, i, j)
<1> SUFFICES ASSUME NEW p \in i .. j, NEW q \in i .. j, p <= q
             PROVE  a[p] <= a[q]
  BY DEF Ascending
<1> DEFINE key == a[l]
<1>1. key \in Int /\ a[p] \in Int /\ a[q] \in Int
  OBVIOUS
<1>2. \A x \in i .. l - 1 : a[x] <= key
  BY DEF Around
<1>3. \A x \in l + 1 .. j : a[x] >= key
  BY DEF Around
<1>4. a[l] = key
  OBVIOUS
<1> HIDE DEF key
<1>5. CASE p \in i .. l - 1 /\ q \in i .. l - 1
  BY <1>5 DEF Ascending
<1>6. CASE p \in l + 1 .. j /\ q \in l + 1 .. j
  BY <1>6 DEF Ascending
<1>7. CASE p = q
  BY <1>1, <1>7
<1>8. CASE p # q /\ (p \in i .. l - 1 \/ p = l) /\ (q = l \/ q \in l + 1 .. j)
  BY <1>1, <1>2, <1>3, <1>4, <1>8
<1> QED
  BY <1>5, <1>6, <1>7, <1>8

\* The variables of the call at work.
LEMMA TopNumbers ==
    ASSUME Typed, frames # <<>>
    PROVE  /\ capacity \in Nat /\ count \in Nat /\ count <= capacity
           /\ items \in [0 .. capacity - 1 -> Item] /\ items \in [0 .. capacity - 1 -> Int]
           /\ Top.begin \in Nat /\ Top.left \in Nat /\ Top.right \in Nat /\ Top.end \in Nat
           /\ Top.begin <= Top.left /\ Top.left <= Top.right /\ Top.right <= Top.end
           /\ Top.begin < Top.end /\ Top.end < count /\ Top.end < capacity
           /\ Top.key \in Item /\ Top.key \in Int
<1>1. /\ InRange(Top, count) /\ Top.key \in Item
      /\ Top.begin \in Nat /\ Top.end \in Nat /\ Top.left \in Nat /\ Top.right \in Nat
  BY TopFacts
<1>2. capacity \in Nat /\ count \in Nat /\ count <= capacity /\ items \in [0 .. capacity - 1 -> Item]
  BY DEF Typed
<1>3. items \in [0 .. capacity - 1 -> Int] /\ Top.key \in Int
  BY <1>1, <1>2, ItemsAreNumbers
<1> QED
  BY <1>1, <1>2, <1>3 DEF InRange

LEMMA SeekRightSorted ==
    ASSUME Typed, SortedBy(items, frames), SeekRight
    PROVE  SortedBy(items', frames')
<1>1. frames # <<>> /\ Top.pc = "right"
  BY DEF SeekRight, At
<1> DEFINE i == Top.begin  l == Top.left  r == Top.right  j == Top.end  key == Top.key
<1>2. /\ capacity \in Nat /\ items \in [0 .. capacity - 1 -> Item] /\ items \in [0 .. capacity - 1 -> Int]
      /\ i \in Nat /\ l \in Nat /\ r \in Nat /\ j \in Nat /\ key \in Int
      /\ i <= l /\ l <= r /\ r <= j /\ j < capacity
  BY <1>1, TopNumbers
<1>3. Working(items, Top)
  BY <1>1 DEF SortedBy, Top
<1>4. Around(items, i, l, r, j, key) /\ (l = i => items[l] = key)
  BY <1>1, <1>3 DEF Working
<1>5. PICK g \in Frames :
        /\ Become(g) /\ g.begin = i /\ g.end = j /\ g.key = key
        /\ \/ /\ \A p \in l + 1 .. r : items[p] >= key
              /\ g.left = l /\ g.right = l /\ g.pc = "put" /\ items' = items
           \/ \E y \in l + 1 .. r :
                /\ items[y] < key /\ \A p \in y + 1 .. r : items[p] >= key
                /\ g.left = l + 1 /\ g.right = y /\ g.pc = "left"
                /\ items' = [items EXCEPT ![l] = items[y]]
  BY SeekRightStep
<1> HIDE DEF i, l, r, j, key
<1>6. CASE /\ \A p \in l + 1 .. r : items[p] >= key
           /\ g.left = l /\ g.right = l /\ g.pc = "put" /\ items' = items
  <2>1. Around(items, i, l, l, j, key)
    BY <1>2, <1>4, <1>6, SeekRightAround
  <2>2. l = i => items[l] = key
    BY <1>2, <1>4
  <2>3. Working(items', g)
    BY <1>5, <1>6, <2>1, <2>2 DEF Working
  <2> QED
    BY <1>1, <1>2, <1>5, <1>6, <2>3, BecomeSorted DEF Moves, i, j, key
<1>7. CASE \E y \in l + 1 .. r :
             /\ items[y] < key /\ \A p \in y + 1 .. r : items[p] >= key
             /\ g.left = l + 1 /\ g.right = y /\ g.pc = "left"
             /\ items' = [items EXCEPT ![l] = items[y]]
  <2>1. PICK y \in l + 1 .. r :
             /\ items[y] < key /\ \A p \in y + 1 .. r : items[p] >= key
             /\ g.left = l + 1 /\ g.right = y /\ g.pc = "left"
             /\ items' = [items EXCEPT ![l] = items[y]]
    BY <1>7
  <2>2. Around(items', i, l + 1, y, j, key)
    BY <1>2, <1>4, <2>1, SeekRightAround
  <2>3. l + 1 # i
    BY <1>2, <1>4
  <2>4. Working(items', g)
    BY <1>5, <2>1, <2>2, <2>3 DEF Working
  <2>5. y \in i .. j /\ l \in i .. j /\ items[y] \in Item
    BY <1>2
  <2>6. items' \in [0 .. capacity - 1 -> Item]
    BY <1>2, <2>1, <2>5
  <2>7. Moves(items, Top, items')
    BY <2>1, <2>5 DEF Moves, i, j
  <2> QED
    BY <1>1, <1>5, <2>4, <2>6, <2>7, BecomeSorted DEF i, j, key
<1> QED
  BY <1>5, <1>6, <1>7

LEMMA SeekLeftSorted ==
    ASSUME Typed, SortedBy(items, frames), SeekLeft
    PROVE  SortedBy(items', frames')
<1>1. frames # <<>> /\ Top.pc = "left"
  BY DEF SeekLeft, At
<1> DEFINE i == Top.begin  l == Top.left  r == Top.right  j == Top.end  key == Top.key
<1>2. /\ capacity \in Nat /\ items \in [0 .. capacity - 1 -> Item] /\ items \in [0 .. capacity - 1 -> Int]
      /\ i \in Nat /\ l \in Nat /\ r \in Nat /\ j \in Nat /\ key \in Int
      /\ i <= l /\ l <= r /\ r <= j /\ j < capacity
  BY <1>1, TopNumbers
<1>3. Working(items, Top)
  BY <1>1 DEF SortedBy, Top
<1>4. Around(items, i, l, r, j, key) /\ (l # i)
  BY <1>1, <1>3 DEF Working
<1>5. PICK g \in Frames :
        /\ Become(g) /\ g.begin = i /\ g.end = j /\ g.key = key
        /\ \/ /\ \A p \in l .. r - 1 : items[p] <= key
              /\ g.left = r /\ g.right = r /\ g.pc = "put" /\ items' = items
           \/ \E y \in l .. r - 1 :
                /\ items[y] > key /\ \A p \in l .. y - 1 : items[p] <= key
                /\ g.left = y /\ g.right = r - 1 /\ g.pc = "right"
                /\ items' = [items EXCEPT ![r] = items[y]]
  BY SeekLeftStep
<1> HIDE DEF i, l, r, j, key
<1>6. CASE /\ \A p \in l .. r - 1 : items[p] <= key
           /\ g.left = r /\ g.right = r /\ g.pc = "put" /\ items' = items
  <2>1. Around(items, i, r, r, j, key)
    BY <1>2, <1>4, <1>6, SeekLeftAround
  <2>2. r = i => items[r] = key
    BY <1>2, <1>4
  <2>3. Working(items', g)
    BY <1>5, <1>6, <2>1, <2>2 DEF Working
  <2> QED
    BY <1>1, <1>2, <1>5, <1>6, <2>3, BecomeSorted DEF Moves, i, j, key
<1>7. CASE \E y \in l .. r - 1 :
             /\ items[y] > key /\ \A p \in l .. y - 1 : items[p] <= key
             /\ g.left = y /\ g.right = r - 1 /\ g.pc = "right"
             /\ items' = [items EXCEPT ![r] = items[y]]
  <2>1. PICK y \in l .. r - 1 :
             /\ items[y] > key /\ \A p \in l .. y - 1 : items[p] <= key
             /\ g.left = y /\ g.right = r - 1 /\ g.pc = "right"
             /\ items' = [items EXCEPT ![r] = items[y]]
    BY <1>7
  <2>2. Around(items', i, y, r - 1, j, key)
    BY <1>2, <1>4, <2>1, SeekLeftAround
  <2>3. y # i
    BY <1>2, <1>4
  <2>4. Working(items', g)
    BY <1>5, <2>1, <2>2, <2>3 DEF Working
  <2>5. y \in i .. j /\ r \in i .. j /\ items[y] \in Item
    BY <1>2
  <2>6. items' \in [0 .. capacity - 1 -> Item]
    BY <1>2, <2>1, <2>5
  <2>7. Moves(items, Top, items')
    BY <2>1, <2>5 DEF Moves, i, j
  <2> QED
    BY <1>1, <1>5, <2>4, <2>6, <2>7, BecomeSorted DEF i, j, key
<1> QED
  BY <1>5, <1>6, <1>7

LEMMA PutBackSorted ==
    ASSUME Typed, SortedBy(items, frames), PutBack
    PROVE  SortedBy(items', frames')
<1>1. frames # <<>> /\ Top.pc = "put"
  BY DEF PutBack, At
<1> DEFINE i == Top.begin  l == Top.left  j == Top.end  key == Top.key
<1>2. /\ capacity \in Nat /\ items \in [0 .. capacity - 1 -> Item] /\ items \in [0 .. capacity - 1 -> Int]
      /\ i \in Nat /\ l \in Nat /\ j \in Nat /\ key \in Int /\ key \in Item
      /\ i <= l /\ l <= j /\ j < capacity
  BY <1>1, TopNumbers
<1>3. Around(items, i, l, l, j, key) /\ (l = i => items[l] = key)
  BY <1>1 DEF SortedBy, Top, Working
<1>4. Top \in Frames
  BY <1>1, TopFacts
<1>5. items' = IF i < l THEN [items EXCEPT ![l] = key] ELSE items
  BY DEF PutBack
<1> DEFINE g == [Top EXCEPT !.pc = "lower"]
<1>6. /\ g \in Frames /\ g.begin = i /\ g.end = j /\ g.key = key /\ g.left = l /\ g.pc = "lower"
  BY <1>4 DEF Frames, Pcs
<1>7. Become(g)
  BY DEF PutBack, Goto
<1> HIDE DEF g
<1>8. Around(items', i, l, l, j, items'[l])
  BY <1>2, <1>3, <1>5, PutBackAround
<1>9. Working(items', g)
  BY <1>6, <1>8 DEF Working, Parted
<1>10. items' \in [0 .. capacity - 1 -> Item]
  BY <1>2, <1>5
<1>11. i < l => l \in i .. j
  BY <1>2
<1>12. Moves(items, Top, items')
  BY <1>2, <1>5, <1>11 DEF Moves
<1> QED
  BY <1>1, <1>6, <1>7, <1>9, <1>10, <1>12, BecomeSorted

\* The call at work, when it is somewhere else.
TopAt(p) == [Top EXCEPT !.pc = p]

LEMMA TopAtFacts ==
    ASSUME Typed, frames # <<>>, NEW p \in Pcs
    PROVE  /\ TopAt(p) \in Frames
           /\ TopAt(p).begin = Top.begin /\ TopAt(p).end = Top.end /\ TopAt(p).key = Top.key
           /\ TopAt(p).left = Top.left /\ TopAt(p).pc = p
<1>1. Top \in Frames
  BY TopFacts
<1> QED
  BY <1>1 DEF Frames, TopAt

\* The call at work goes on to the next part, where there is nothing to sort.
LEMMA GotoSorted ==
    ASSUME Typed, SortedBy(items, frames), frames # <<>>, NEW p \in Pcs, Goto(p), UNCHANGED items,
           Working(items, TopAt(p))
    PROVE  SortedBy(items', frames')
<1>1. Become(TopAt(p))
  BY DEF Goto, TopAt
<1>2. items' \in [0 .. capacity - 1 -> Item]
  BY DEF Typed
<1> QED
  BY <1>1, <1>2, TopAtFacts, BecomeSorted DEF Moves

\* A recursive call: the caller waits, what the outer calls know of its range holds of
\* the range of the new one.
LEMMA DescendSorted ==
    ASSUME Typed, SortedBy(items, frames), frames # <<>>, NEW p \in Pcs, NEW b \in Nat, NEW e \in Nat,
           Top.begin <= b, b < e, e <= Top.end, Descend(p, Frame(b, e)), UNCHANGED items,
           Waiting(items, TopAt(p)),
           \/ p = "upper" /\ b = Top.begin /\ e = Top.left - 1
           \/ p = "return" /\ b = Top.left + 1 /\ e = Top.end
    PROVE  SortedBy(items', frames')
<1> DEFINE n == Len(frames)  g == TopAt(p)  d == Frame(b, e)
<1>1. /\ n \in Nat \ {0} /\ Top = frames[n] /\ Top \in Frames
      /\ Top.begin \in Nat /\ Top.end \in Nat /\ Top.left \in Nat
      /\ Top.begin <= Top.left /\ Top.left <= Top.end
      /\ items \in [0 .. capacity - 1 -> Int] /\ capacity \in Nat /\ Top.end < capacity
  BY TopFacts, TopNumbers
<1>2. items[b] \in Item
  BY TopFacts
<1>3. /\ d \in Frames /\ d.begin = b /\ d.end = e /\ d.left = b /\ d.right = e
      /\ d.key = items[b] /\ d.pc = "right"
  BY <1>2, FrameFacts
<1>4. /\ g.begin = Top.begin /\ g.end = Top.end /\ g.left = Top.left /\ g.key = Top.key
      /\ g.pc = p
  BY TopAtFacts
<1>5. /\ frames' \in Seq(Frames) /\ Len(frames') = n + 1
      /\ frames'[n + 1] = d
      /\ frames'[n] = g
      /\ \A m \in 1 .. n - 1 : frames'[m] = frames[m]
  BY <1>3, DescendFacts DEF Typed, TopAt
<1> HIDE DEF n, g, d
<1>6. Working(items, d)
  BY <1>3 DEF Working, Around
<1>7. Called(g, d) /\ Under(items, g, d)
  <2> DEFINE i == Top.begin  l == Top.left  j == Top.end  key == items[l]
  <2>1. Around(items, i, l, l, j, key)
    BY <1>4 DEF Waiting, Parted, g
  <2>2. i \in Nat /\ j \in Nat /\ l \in Nat
    BY <1>1
  <2>3. g.begin = i /\ g.left = l /\ g.end = j
    BY <1>4
  <2>4. \/ p = "upper" /\ b = i /\ e = l - 1
        \/ p = "return" /\ b = l + 1 /\ e = j
    OBVIOUS
  <2> HIDE DEF i, l, j, key
  <2>5. CASE p = "upper" /\ b = i /\ e = l - 1
    <3>1. items[b] <= key
      BY <2>1, <2>2, <2>5 DEF Around
    <3> QED
      BY <1>3, <1>4, <2>2, <2>3, <2>5, <3>1 DEF Called, Under, key
  <2>6. CASE p = "return" /\ b = l + 1 /\ e = j
    <3>1. key <= items[b]
      BY <2>1, <2>2, <2>6 DEF Around
    <3> QED
      BY <1>3, <1>4, <2>2, <2>3, <2>6, <3>1 DEF Called, Under, key
  <2> QED
    BY <2>4, <2>5, <2>6
<1>8. /\ \A m \in 1 .. n - 1 : Waiting(items, frames[m]) /\ Called(frames[m], frames[m + 1])
      /\ \A k \in 1 .. n : \A m \in 1 .. k - 1 : Under(items, frames[m], frames[k])
  BY DEF SortedBy, n
<1>9. ASSUME NEW m \in 1 .. n
       PROVE  Waiting(items, frames'[m]) /\ Called(frames'[m], frames'[m + 1])
  <2>1. CASE m = n
    BY <1>5, <1>7, <2>1 DEF g
  <2>2. CASE m + 1 = n
    <3>1. m \in 1 .. n - 1
      BY <1>1, <2>2
    <3>2. Waiting(items, frames[m]) /\ Called(frames[m], Top)
      BY <1>1, <1>8, <2>2, <3>1
    <3>3. frames'[m] = frames[m] /\ frames'[m + 1] = g
      BY <1>5, <2>2, <3>1
    <3> QED
      BY <1>4, <3>2, <3>3 DEF Called
  <2>3. CASE m + 1 \in 1 .. n - 1
    <3>1. m \in 1 .. n - 1
      BY <1>1, <2>3
    <3>2. frames'[m] = frames[m] /\ frames'[m + 1] = frames[m + 1]
      BY <1>5, <2>3, <3>1
    <3> QED
      BY <1>8, <3>1, <3>2
  <2> QED
    BY <1>1, <2>1, <2>2, <2>3
<1>10. ASSUME NEW m \in 1 .. n - 1
       PROVE  Under(items, frames[m], g) /\ Under(items, frames[m], d)
  <2> DEFINE c == frames[m]  i == c.begin  l == c.left  j == c.end  key == items[l]
             tb == Top.begin  te == Top.end
  <2>1. Under(items, c, Top) /\ Waiting(items, c)
    BY <1>1, <1>8
  <2>2. Under(items, c, g)
    BY <1>4, <2>1 DEF Under
  <2>3. c \in Frames
    BY <1>1 DEF Typed, n
  <2>4. i \in Nat /\ l \in Nat /\ j \in Nat /\ tb \in Nat /\ te \in Nat
    BY <1>1, <2>3 DEF Frames
  <2>5. Around(items, i, l, l, j, key)
    BY <2>1 DEF Waiting, Parted
  <2>6. /\ c.pc = "upper" => i <= tb /\ te < l
        /\ c.pc = "return" => l < tb /\ te <= j
    BY <2>1 DEF Under
  <2>7. tb <= b /\ b < e /\ e <= te
    OBVIOUS
  <2> HIDE DEF i, l, j, key, tb, te
  <2>8. CASE c.pc = "upper"
    <3>1. b \in i .. l - 1 /\ i <= b /\ e < l
      BY <2>4, <2>6, <2>7, <2>8
    <3>2. items[b] <= key
      BY <2>5, <3>1 DEF Around
    <3> QED
      BY <1>3, <2>2, <2>8, <3>1, <3>2 DEF Under, i, l, key
  <2>9. CASE c.pc = "return"
    <3>1. b \in l + 1 .. j /\ l < b /\ e <= j
      BY <2>4, <2>6, <2>7, <2>9
    <3>2. key <= items[b]
      BY <2>5, <3>1 DEF Around
    <3> QED
      BY <1>3, <2>2, <2>9, <3>1, <3>2 DEF Under, j, l, key
  <2> QED
    BY <2>1, <2>2, <2>8, <2>9 DEF Waiting
<1>11. ASSUME NEW k \in 1 .. n + 1, NEW m \in 1 .. k - 1
       PROVE  Under(items, frames'[m], frames'[k])
  <2>1. CASE k = n + 1 /\ m = n
    BY <1>5, <1>7, <2>1
  <2>2. CASE k = n + 1 /\ m \in 1 .. n - 1
    BY <1>5, <1>10, <2>2
  <2>3. CASE k = n
    BY <1>1, <1>5, <1>10, <2>3
  <2>4. CASE k \in 1 .. n - 1
    <3>1. k \in 1 .. n /\ m \in 1 .. n - 1
      BY <1>1, <2>4
    <3>2. Under(items, frames[m], frames[k])
      BY <1>8, <3>1
    <3> QED
      BY <1>5, <2>4, <3>1, <3>2
  <2> QED
    BY <1>1, <2>1, <2>2, <2>3, <2>4
<1>12. frames' # <<>> /\ Len(frames') - 1 = n
  BY <1>1, <1>5
<1> QED
  BY <1>1, <1>5, <1>6, <1>9, <1>11, <1>12 DEF SortedBy

LEMMA SortLowerSorted ==
    ASSUME Typed, SortedBy(items, frames), SortLower
    PROVE  SortedBy(items', frames')
<1> DEFINE g == TopAt("upper")
<1>1. frames # <<>> /\ Top.pc = "lower" /\ UNCHANGED items /\ "upper" \in Pcs
  BY DEF SortLower, At, Pcs
<1>2. /\ Top.begin \in Nat /\ Top.left \in Nat /\ Top.end \in Nat
      /\ Top.begin <= Top.left /\ Top.left <= Top.end
  BY <1>1, TopNumbers
<1>3. g.begin = Top.begin /\ g.end = Top.end /\ g.left = Top.left /\ g.pc = "upper"
  BY <1>1, TopAtFacts
<1>4. Parted(items, Top)
  BY <1>1 DEF SortedBy, Top, Working
<1> HIDE DEF g
<1>5. Parted(items, g)
  BY <1>3, <1>4 DEF Parted
<1>6. CASE Top.begin + 1 < Top.left
  <2>1. Descend("upper", Frame(Top.begin, Top.left - 1))
    BY <1>6 DEF SortLower
  <2>2. Waiting(items, g)
    BY <1>3, <1>5 DEF Waiting
  <2>3. Top.left - 1 \in Nat /\ Top.begin < Top.left - 1 /\ Top.left - 1 <= Top.end
    BY <1>2, <1>6
  <2> QED
    BY <1>1, <1>2, <2>1, <2>2, <2>3, DescendSorted DEF g
<1>7. CASE ~(Top.begin + 1 < Top.left)
  <2>1. Goto("upper")
    BY <1>7 DEF SortLower
  <2>2. Ascending(items, g.begin, g.left - 1)
    <3> DEFINE i == Top.begin  l == Top.left
    <3>1. i \in Nat /\ l \in Nat /\ ~(i + 1 < l)
      BY <1>2, <1>7
    <3>2. capacity \in Nat /\ l < capacity /\ items \in [0 .. capacity - 1 -> Int]
      BY <1>1, <1>2, TopNumbers
    <3> HIDE DEF i, l
    <3>3. ASSUME NEW p \in i .. l - 1, NEW q \in i .. l - 1
          PROVE  items[p] <= items[q]
      <4>1. p = q /\ p \in 0 .. capacity - 1
        BY <3>1, <3>2
      <4>2. items[p] \in Int
        BY <3>2, <4>1
      <4> QED
        BY <4>1, <4>2
    <3> QED
      BY <1>3, <3>3 DEF Ascending, i, l
  <2>3. Working(items, g)
    BY <1>3, <1>5, <2>2 DEF Working
  <2> QED
    BY <1>1, <2>1, <2>3, GotoSorted DEF g
<1> QED
  BY <1>6, <1>7

LEMMA SortUpperSorted ==
    ASSUME Typed, SortedBy(items, frames), SortUpper
    PROVE  SortedBy(items', frames')
<1> DEFINE g == TopAt("return")
<1>1. frames # <<>> /\ Top.pc = "upper" /\ UNCHANGED items /\ "return" \in Pcs
  BY DEF SortUpper, At, Pcs
<1>2. /\ Top.begin \in Nat /\ Top.left \in Nat /\ Top.end \in Nat
      /\ Top.begin <= Top.left /\ Top.left <= Top.end
  BY <1>1, TopNumbers
<1>3. g.begin = Top.begin /\ g.end = Top.end /\ g.left = Top.left /\ g.pc = "return"
  BY <1>1, TopAtFacts
<1>4. Parted(items, Top) /\ Ascending(items, Top.begin, Top.left - 1)
  BY <1>1 DEF SortedBy, Top, Working
<1> HIDE DEF g
<1>5. Parted(items, g) /\ Ascending(items, g.begin, g.left - 1)
  BY <1>3, <1>4 DEF Parted
<1>6. CASE Top.left + 1 < Top.end
  <2>1. Descend("return", Frame(Top.left + 1, Top.end))
    BY <1>6 DEF SortUpper
  <2>2. Waiting(items, g)
    BY <1>3, <1>5 DEF Waiting
  <2>3. Top.left + 1 \in Nat /\ Top.begin <= Top.left + 1
    BY <1>2
  <2> QED
    BY <1>1, <1>2, <1>6, <2>1, <2>2, <2>3, DescendSorted DEF g
<1>7. CASE ~(Top.left + 1 < Top.end)
  <2>1. Goto("return")
    BY <1>7 DEF SortUpper
  <2>2. Ascending(items, g.left + 1, g.end)
    <3>1. \A p, q \in Top.left + 1 .. Top.end : p = q
      BY <1>2, <1>7
    <3>2. \A p \in Top.left + 1 .. Top.end : items[p] \in Int
      BY <1>1, <1>2, TopNumbers
    <3>3. ASSUME NEW p \in Top.left + 1 .. Top.end, NEW q \in Top.left + 1 .. Top.end
          PROVE  items[p] <= items[q]
      BY <3>1, <3>2
    <3> QED
      BY <1>3, <3>3 DEF Ascending
  <2>3. Working(items, g)
    BY <1>3, <1>5, <2>2 DEF Working
  <2> QED
    BY <1>1, <2>1, <2>3, GotoSorted DEF g
<1> QED
  BY <1>6, <1>7

\* A call that returns has put its whole range in order.
LEMMA ReturnAscending ==
    ASSUME Typed, SortedBy(items, frames), At("return")
    PROVE  Ascending(items, Top.begin, Top.end)
<1>1. frames # <<>> /\ Top.pc = "return"
  BY DEF At
<1>2. /\ Parted(items, Top) /\ Ascending(items, Top.begin, Top.left - 1)
      /\ Ascending(items, Top.left + 1, Top.end)
  BY <1>1 DEF SortedBy, Top, Working
<1>3. /\ capacity \in Nat /\ items \in [0 .. capacity - 1 -> Int]
      /\ Top.begin \in Nat /\ Top.left \in Nat /\ Top.end \in Nat
      /\ Top.begin <= Top.left /\ Top.left <= Top.end /\ Top.end < capacity
  BY <1>1, TopNumbers
<1> QED
  BY <1>2, <1>3, AscendingJoin DEF Parted

LEMMA ReturnSorted ==
    ASSUME Typed, SortedBy(items, frames), Return
    PROVE  SortedBy(items', frames')
<1> DEFINE n == Len(frames)
<1>1. At("return") /\ frames # <<>> /\ UNCHANGED items /\ n \in Nat \ {0} /\ Top = frames[n]
  BY TopFacts DEF Return, At
<1>2. /\ frames' \in Seq(Frames) /\ Len(frames') = n - 1
      /\ \A m \in 1 .. n - 1 : frames'[m] = frames[m]
  BY <1>1, PopFacts DEF Return, Typed
<1>3. /\ \A m \in 1 .. n - 1 : Waiting(items, frames[m]) /\ Called(frames[m], frames[m + 1])
      /\ \A k \in 1 .. n : \A m \in 1 .. k - 1 : Under(items, frames[m], frames[k])
  BY DEF SortedBy
<1>4. \A m \in 1 .. n - 1 : frames[m] \in Frames
  BY DEF Typed
<1> HIDE DEF n
<1>5. ASSUME n # 1
      PROVE  Working(items, frames[n - 1])
  <2> DEFINE c == frames[n - 1]
  <2>1. n - 1 \in 1 .. n - 1 /\ n - 1 + 1 = n
    BY <1>1, <1>5
  <2>2. Waiting(items, c) /\ Called(c, Top)
    BY <1>1, <1>3, <2>1
  <2>3. Ascending(items, Top.begin, Top.end)
    BY <1>1, ReturnAscending
  <2>4. c.pc = "upper" => Ascending(items, c.begin, c.left - 1)
    BY <2>2, <2>3 DEF Called
  <2>5. c.pc = "return" => Ascending(items, c.left + 1, c.end)
    BY <2>2, <2>3 DEF Called
  <2> QED
    BY <2>2, <2>4, <2>5 DEF Working, Waiting
<1>6. frames' # <<>> => Working(items, frames'[Len(frames')])
  <2>1. CASE n = 1
    BY <1>2, <2>1
  <2>2. CASE n # 1
    BY <1>1, <1>2, <1>5, <2>2
  <2> QED
    BY <2>1, <2>2
<1>7. ASSUME NEW m \in 1 .. n - 2
      PROVE  Waiting(items, frames'[m]) /\ Called(frames'[m], frames'[m + 1])
  <2>1. m \in 1 .. n - 1 /\ m + 1 \in 1 .. n - 1
    BY <1>1
  <2> QED
    BY <1>2, <1>3, <2>1
<1>8. ASSUME NEW k \in 1 .. n - 1, NEW m \in 1 .. k - 1
      PROVE  Under(items, frames'[m], frames'[k])
  <2>1. k \in 1 .. n /\ m \in 1 .. n - 1
    BY <1>1
  <2> QED
    BY <1>2, <1>3, <2>1
<1>9. Len(frames') - 1 = n - 2
  BY <1>1, <1>2
<1> QED
  BY <1>1, <1>2, <1>6, <1>7, <1>8, <1>9 DEF SortedBy

LEMMA SortingSorted ==
    ASSUME Typed, SortedBy(items, frames), ArraySorting
    PROVE  SortedBy(items', frames')
BY SeekRightSorted, SeekLeftSorted, PutBackSorted, SortLowerSorted, SortUpperSorted, ReturnSorted
   DEF ArraySorting, SortStep

\* There is nothing to say when no sort is going on.
LEMMA IdleSorted ==
    ASSUME frames' = <<>>
    PROVE  SortedBy(items', frames')
BY DEF SortedBy

LEMMA ArraySortSorted ==
    ASSUME Typed, ArraySort
    PROVE  SortedBy(items', frames')
<1> DEFINE d == Frame(0, count - 1)
<1>1. /\ count \in Nat /\ count - 1 \in Nat /\ 0 \in Nat /\ items[0] \in Item
      /\ frames' = <<d>> /\ UNCHANGED items
  BY DEF Typed, ArraySort
<1>2. /\ d \in Frames /\ d.begin = 0 /\ d.end = count - 1 /\ d.left = 0 /\ d.right = count - 1
      /\ d.key = items[0] /\ d.pc = "right"
  BY <1>1, FrameFacts
<1> HIDE DEF d
<1>3. Working(items, d)
  BY <1>1, <1>2 DEF Working, Around
<1>4. Len(frames') = 1 /\ frames'[1] = d
  BY <1>1
<1> QED
  BY <1>1, <1>3, <1>4 DEF SortedBy

LEMMA StepSorted ==
    ASSUME Typed, SortedBy(items, frames), [Next]_vars
    PROVE  SortedBy(items', frames')
<1>1. CASE ArraySort
  BY <1>1, ArraySortSorted
<1>2. CASE Sorting
  BY <1>2, SortingSorted DEF Sorting
<1>3. CASE UNCHANGED vars
  BY <1>3 DEF vars
<1>4. CASE Next /\ ~ArraySort /\ ~Sorting
  <2>1. frames' = <<>>
    BY <1>4 DEF Next, ArrayAppend, ArraySortInsert, ArrayAssign, ArrayInsert, ArrayErase, ArrayRemove,
                ArrayPop, ArrayClear, Idle
  <2> QED
    BY <2>1, IdleSorted
<1> QED
  BY <1>1, <1>2, <1>3, <1>4

\* A call of ds_qsort_b leaves its range in order, for any items and however deep the
\* calls are: the calls that wait know where the key of their own is, and that what is
\* moved below them stays on its side of it.
THEOREM CallsReturnSorted == Spec => []ReturnsSorted
<1>1. Init => Typed /\ SortedBy(items, frames)
  <2>1. Init => frames = <<>>
    BY DEF Init
  <2>2. frames = <<>> => SortedBy(items, frames)
    BY DEF SortedBy
  <2> QED
    BY <2>1, <2>2, InitTyped
<1>2. Typed /\ SortedBy(items, frames) /\ [Next]_vars => (Typed /\ SortedBy(items, frames))'
  BY StepTyped, StepSorted
<1>3. Typed /\ SortedBy(items, frames) => ReturnsSorted
  <2> SUFFICES ASSUME Typed, SortedBy(items, frames), At("return"), NEW i \in Top.begin .. Top.end - 1
               PROVE  items[i] <= items[i + 1]
    BY DEF ReturnsSorted
  <2>1. Ascending(items, Top.begin, Top.end)
    BY ReturnAscending
  <2>2. Top.begin \in Nat /\ Top.end \in Nat
    BY TopNumbers DEF At
  <2>3. i \in Top.begin .. Top.end /\ i + 1 \in Top.begin .. Top.end /\ i <= i + 1
    BY <2>2
  <2> QED
    BY <2>1, <2>3 DEF Ascending
<1> QED
  BY <1>1, <1>2, <1>3, PTL DEF Spec

-----------------------------------------------------------------------------
(* The items that a sort leaves.                                           *)

\* The array with the key in the hole.
Whole(a, f) ==
    IF f.pc \in {"right", "put"} THEN [a EXCEPT ![f.left] = f.key]
    ELSE IF f.pc = "left" THEN [a EXCEPT ![f.right] = f.key] ELSE a

\* The array a has the items of s, from the slot 0 on, in some order.
Rearranged(a, s) ==
    \E place \in Bijection(1 .. Len(s), 1 .. Len(s)) : \A i \in 1 .. Len(s) : a[i - 1] = s[place[i]]

\* The array b is a, but for two of the items below n, which may be the same one.
Exchanged(a, b, n) ==
    \E x, y \in 0 .. n - 1 : \A z \in 0 .. n - 1 :
        b[z] = a[IF z = x THEN y ELSE IF z = y THEN x ELSE z]

\* The invariant: no item of s is lost while the array a is sorted, by calls fs.
KeptBy(a, fs, s, n) ==
    fs # <<>> =>
        /\ s \in Seq(Item) /\ Len(s) = n
        /\ fs[1].begin = 0 /\ fs[1].end = n - 1
        /\ Rearranged(Whole(a, fs[Len(fs)]), s)

Kept == KeptBy(items, frames, promised, count)

LEMMA SameRearranged ==
    ASSUME NEW s \in Seq(Item)
    PROVE  Rearranged([i \in 0 .. Len(s) - 1 |-> s[i + 1]], s)
<1> DEFINE n == Len(s)  place == [i \in 1 .. n |-> i]
<1>1. n \in Nat
  OBVIOUS
<1> HIDE DEF n
<1>2. place \in Bijection(1 .. n, 1 .. n)
  BY DEF Bijection, Injection, Surjection, IsInjective
<1>3. \A i \in 1 .. n : i - 1 \in 0 .. n - 1 /\ i - 1 + 1 = i /\ place[i] = i
  BY <1>1
<1> DEFINE a == [i \in 0 .. n - 1 |-> s[i + 1]]
<1>4. \A i \in 1 .. n : a[i - 1] = s[place[i]]
  BY <1>1, <1>3
<1> HIDE DEF place, a
<1>5. Rearranged(a, s)
  BY <1>2, <1>4 DEF Rearranged, n
<1> QED
  BY <1>5 DEF a, n

LEMMA ExchangedRearranged ==
    ASSUME NEW s \in Seq(Item), NEW a, NEW b, Rearranged(a, s), Exchanged(a, b, Len(s))
    PROVE  Rearranged(b, s)
<1> DEFINE n == Len(s)
<1>1. n \in Nat
  OBVIOUS
<1>2. PICK place \in Bijection(1 .. n, 1 .. n) : \A i \in 1 .. n : a[i - 1] = s[place[i]]
  BY DEF Rearranged
<1>3. PICK x \in 0 .. n - 1, y \in 0 .. n - 1 : \A z \in 0 .. n - 1 :
        b[z] = a[IF z = x THEN y ELSE IF z = y THEN x ELSE z]
  BY DEF Exchanged
<1> HIDE DEF n
<1> DEFINE t == [i \in 1 .. n |-> IF i = x + 1 THEN y + 1 ELSE IF i = y + 1 THEN x + 1 ELSE i]
           q == [i \in 1 .. n |-> place[t[i]]]
<1>4. \A i \in 1 .. n : t[i] \in 1 .. n /\ t[t[i]] = i
  BY <1>1
<1>5. \A i \in 1 .. n : b[i - 1] = a[t[i] - 1]
  BY <1>1, <1>3
<1> HIDE DEF t
<1>6. place \in [1 .. n -> 1 .. n]
  BY <1>2 DEF Bijection, Injection, IsInjective
<1>7. \A i, j \in 1 .. n : place[i] = place[j] => i = j
  BY <1>2 DEF Bijection, Injection, IsInjective
<1>8. \A k \in 1 .. n : \E i \in 1 .. n : place[i] = k
  BY <1>2 DEF Bijection, Surjection
<1>9. q \in [1 .. n -> 1 .. n]
  BY <1>4, <1>6
<1>10. \A i, j \in 1 .. n : q[i] = q[j] => i = j
  BY <1>4, <1>7
<1>11. \A k \in 1 .. n : \E i \in 1 .. n : q[i] = k
  BY <1>4, <1>8
<1>12. q \in Bijection(1 .. n, 1 .. n)
  BY <1>9, <1>10, <1>11 DEF Bijection, Injection, Surjection, IsInjective
<1>13. \A i \in 1 .. n : b[i - 1] = s[q[i]]
  BY <1>2, <1>4, <1>5
<1> QED
  BY <1>12, <1>13 DEF Rearranged, n

\* A step of the call at work.
LEMMA BecomeKept ==
    ASSUME Typed, Kept, frames # <<>>, NEW g \in Frames, Become(g),
           g.begin = Top.begin, g.end = Top.end, UNCHANGED <<promised, count>>,
           Exchanged(Whole(items, Top), Whole(items', g), count)
    PROVE  Kept'
<1> DEFINE n == Len(frames)
<1>1. n \in Nat \ {0} /\ Top = frames[n]
  BY TopFacts
<1>2. /\ frames' \in Seq(Frames) /\ frames' # <<>> /\ Len(frames') = n /\ frames'[n] = g
      /\ \A m \in 1 .. n - 1 : frames'[m] = frames[m]
  BY BecomeFacts DEF Typed
<1>3. /\ promised \in Seq(Item) /\ Len(promised) = count
      /\ frames[1].begin = 0 /\ frames[1].end = count - 1
      /\ Rearranged(Whole(items, Top), promised)
  BY <1>1 DEF Kept, KeptBy
<1> HIDE DEF n
<1>4. frames'[1].begin = 0 /\ frames'[1].end = count - 1
  BY <1>1, <1>2, <1>3
<1>5. Rearranged(Whole(items', g), promised)
  BY <1>3, ExchangedRearranged
<1> QED
  BY <1>2, <1>3, <1>4, <1>5 DEF Kept, KeptBy

LEMMA SameExchanged ==
    ASSUME NEW n \in Nat \ {0}, NEW a
    PROVE  Exchanged(a, a, n)
<1>1. 0 \in 0 .. n - 1 /\ \A z \in 0 .. n - 1 : a[z] = a[IF z = 0 THEN 0 ELSE IF z = 0 THEN 0 ELSE z]
  OBVIOUS
<1> QED
  BY <1>1 DEF Exchanged

\* The hole moves from x to y.
LEMMA HoleExchanged ==
    ASSUME NEW N \in Nat, NEW n \in 0 .. N, NEW a \in [0 .. N - 1 -> Item], NEW key \in Item,
           NEW x \in 0 .. n - 1, NEW y \in 0 .. n - 1, x # y,
           NEW b, b = [a EXCEPT ![x] = key],
           NEW c, c = [[a EXCEPT ![x] = a[y]] EXCEPT ![y] = key]
    PROVE  Exchanged(b, c, n)
<1>1. x \in 0 .. N - 1 /\ y \in 0 .. N - 1 /\ \A z \in 0 .. n - 1 : z \in 0 .. N - 1
  OBVIOUS
<1>2. b[x] = key /\ \A z \in 0 .. n - 1 : z # x => b[z] = a[z]
  BY <1>1
<1>3. c[x] = a[y] /\ c[y] = key /\ \A z \in 0 .. n - 1 : z # x /\ z # y => c[z] = a[z]
  BY <1>1
<1>4. \A z \in 0 .. n - 1 : c[z] = b[IF z = x THEN y ELSE IF z = y THEN x ELSE z]
  BY <1>2, <1>3
<1> QED
  BY <1>4 DEF Exchanged

LEMMA SeekRightKept ==
    ASSUME Typed, Kept, SeekRight, UNCHANGED <<promised, count>>
    PROVE  Kept'
<1>1. frames # <<>> /\ Top.pc = "right"
  BY DEF SeekRight, At
<1> DEFINE l == Top.left  r == Top.right  key == Top.key
<1>2. /\ capacity \in Nat /\ count \in 0 .. capacity /\ items \in [0 .. capacity - 1 -> Item]
      /\ l \in Nat /\ r \in Nat /\ l <= r /\ r < count /\ key \in Item
  BY <1>1, TopNumbers
<1>3. Whole(items, Top) = [items EXCEPT ![l] = key]
  BY <1>1 DEF Whole
<1>4. PICK g \in Frames :
        /\ Become(g) /\ g.begin = Top.begin /\ g.end = Top.end /\ g.key = key
        /\ \/ g.left = l /\ g.pc = "put" /\ items' = items
           \/ \E y \in l + 1 .. r :
                g.right = y /\ g.pc = "left" /\ items' = [items EXCEPT ![l] = items[y]]
  BY SeekRightStep
<1> HIDE DEF l, r, key
<1>5. Exchanged(Whole(items, Top), Whole(items', g), count)
  <2>1. CASE g.left = l /\ g.pc = "put" /\ items' = items
    <3>1. Whole(items', g) = Whole(items, Top)
      BY <1>3, <1>4, <2>1 DEF Whole
    <3>2. count \in Nat \ {0}
      BY <1>2
    <3> QED
      BY <3>1, <3>2, SameExchanged
  <2>2. CASE \E y \in l + 1 .. r :
               g.right = y /\ g.pc = "left" /\ items' = [items EXCEPT ![l] = items[y]]
    <3>1. PICK y \in l + 1 .. r :
               g.right = y /\ g.pc = "left" /\ items' = [items EXCEPT ![l] = items[y]]
      BY <2>2
    <3>2. Whole(items', g) = [[items EXCEPT ![l] = items[y]] EXCEPT ![y] = key]
      BY <1>4, <3>1 DEF Whole
    <3>3. l \in 0 .. count - 1 /\ y \in 0 .. count - 1 /\ l # y
      BY <1>2
    <3> QED
      BY <1>2, <1>3, <3>2, <3>3, HoleExchanged
  <2> QED
    BY <1>4, <2>1, <2>2
<1> QED
  BY <1>1, <1>4, <1>5, BecomeKept

LEMMA SeekLeftKept ==
    ASSUME Typed, Kept, SeekLeft, UNCHANGED <<promised, count>>
    PROVE  Kept'
<1>1. frames # <<>> /\ Top.pc = "left"
  BY DEF SeekLeft, At
<1> DEFINE l == Top.left  r == Top.right  key == Top.key
<1>2. /\ capacity \in Nat /\ count \in 0 .. capacity /\ items \in [0 .. capacity - 1 -> Item]
      /\ l \in Nat /\ r \in Nat /\ l <= r /\ r < count /\ key \in Item
  BY <1>1, TopNumbers
<1>3. Whole(items, Top) = [items EXCEPT ![r] = key]
  BY <1>1 DEF Whole
<1>4. PICK g \in Frames :
        /\ Become(g) /\ g.begin = Top.begin /\ g.end = Top.end /\ g.key = key
        /\ \/ g.left = r /\ g.pc = "put" /\ items' = items
           \/ \E y \in l .. r - 1 :
                g.left = y /\ g.pc = "right" /\ items' = [items EXCEPT ![r] = items[y]]
  BY SeekLeftStep
<1> HIDE DEF l, r, key
<1>5. Exchanged(Whole(items, Top), Whole(items', g), count)
  <2>1. CASE g.left = r /\ g.pc = "put" /\ items' = items
    <3>1. Whole(items', g) = Whole(items, Top)
      BY <1>3, <1>4, <2>1 DEF Whole
    <3>2. count \in Nat \ {0}
      BY <1>2
    <3> QED
      BY <3>1, <3>2, SameExchanged
  <2>2. CASE \E y \in l .. r - 1 :
               g.left = y /\ g.pc = "right" /\ items' = [items EXCEPT ![r] = items[y]]
    <3>1. PICK y \in l .. r - 1 :
               g.left = y /\ g.pc = "right" /\ items' = [items EXCEPT ![r] = items[y]]
      BY <2>2
    <3>2. Whole(items', g) = [[items EXCEPT ![r] = items[y]] EXCEPT ![y] = key]
      BY <1>4, <3>1 DEF Whole
    <3>3. r \in 0 .. count - 1 /\ y \in 0 .. count - 1 /\ r # y
      BY <1>2
    <3> QED
      BY <1>2, <1>3, <3>2, <3>3, HoleExchanged
  <2> QED
    BY <1>4, <2>1, <2>2
<1> QED
  BY <1>1, <1>4, <1>5, BecomeKept

\* The hole is filled; it holds the key already when nothing has moved.
LEMMA PutBackKept ==
    ASSUME Typed, SortedBy(items, frames), Kept, PutBack, UNCHANGED <<promised, count>>
    PROVE  Kept'
<1>1. frames # <<>> /\ Top.pc = "put" /\ "lower" \in Pcs
  BY DEF PutBack, At, Pcs
<1>2. /\ count \in Nat \ {0} /\ items \in [0 .. capacity - 1 -> Item]
      /\ Top.begin \in Nat /\ Top.left \in Nat /\ Top.begin <= Top.left
  BY <1>1, TopNumbers
<1>3. Top.left = Top.begin => items[Top.left] = Top.key
  BY <1>1 DEF SortedBy, Top, Working
<1> DEFINE g == TopAt("lower")
<1>4. g \in Frames /\ g.begin = Top.begin /\ g.end = Top.end /\ g.pc = "lower"
  BY <1>1, TopAtFacts
<1>5. Become(g)
  BY DEF PutBack, Goto, TopAt
<1> HIDE DEF g
<1>6. Whole(items, Top) = [items EXCEPT ![Top.left] = Top.key] /\ Whole(items', g) = items'
  BY <1>1, <1>4 DEF Whole
<1>7. items' = [items EXCEPT ![Top.left] = Top.key]
  <2>1. CASE Top.begin < Top.left
    BY <2>1 DEF PutBack
  <2>2. CASE ~(Top.begin < Top.left)
    <3>1. items' = items /\ items[Top.left] = Top.key
      BY <1>2, <1>3, <2>2 DEF PutBack
    <3> QED
      BY <1>2, <3>1
  <2> QED
    BY <2>1, <2>2
<1>8. Exchanged(Whole(items, Top), Whole(items', g), count)
  BY <1>2, <1>6, <1>7, SameExchanged
<1> QED
  BY <1>1, <1>4, <1>5, <1>8, BecomeKept

LEMMA DescendKept ==
    ASSUME Typed, Kept, frames # <<>>, Top.pc \in {"lower", "upper"}, NEW p \in Pcs,
           NEW b \in Nat, NEW e \in Nat, Top.begin <= b, b <= Top.end, Descend(p, Frame(b, e)),
           UNCHANGED <<items, promised, count>>
    PROVE  Kept'
<1> DEFINE n == Len(frames)  g == TopAt(p)  d == Frame(b, e)
<1>1. /\ n \in Nat \ {0} /\ Top = frames[n]
      /\ items \in [0 .. capacity - 1 -> Item] /\ items[b] \in Item
  BY TopFacts, TopNumbers
<1>2. d \in Frames /\ d.left = b /\ d.key = items[b] /\ d.pc = "right"
  BY <1>1, FrameFacts
<1>3. g.begin = Top.begin /\ g.end = Top.end
  BY TopAtFacts
<1>4. /\ frames' \in Seq(Frames) /\ frames' # <<>> /\ Len(frames') = n + 1
      /\ frames'[n + 1] = d
      /\ frames'[n] = g
      /\ \A m \in 1 .. n - 1 : frames'[m] = frames[m]
  BY <1>2, DescendFacts DEF Typed, TopAt
<1>5. /\ promised \in Seq(Item) /\ Len(promised) = count
      /\ frames[1].begin = 0 /\ frames[1].end = count - 1
      /\ Rearranged(Whole(items, frames[n]), promised)
  BY DEF Kept, KeptBy
<1> HIDE DEF n, g, d
<1>6. Whole(items, frames[n]) = items
  BY <1>1 DEF Whole
<1>7. Whole(items, d) = items
  BY <1>1, <1>2 DEF Whole
<1>8. frames'[1].begin = 0 /\ frames'[1].end = count - 1
  BY <1>1, <1>3, <1>4, <1>5
<1> QED
  BY <1>4, <1>5, <1>6, <1>7, <1>8 DEF Kept, KeptBy

LEMMA GotoKept ==
    ASSUME Typed, Kept, frames # <<>>, Top.pc \in {"lower", "upper"}, NEW p \in {"upper", "return"},
           Goto(p), UNCHANGED <<items, promised, count>>
    PROVE  Kept'
<1> DEFINE g == TopAt(p)
<1>1. p \in Pcs
  BY DEF Pcs
<1>2. g \in Frames /\ g.begin = Top.begin /\ g.end = Top.end /\ g.pc = p
  BY <1>1, TopAtFacts
<1>3. Become(g)
  BY DEF Goto, TopAt
<1> HIDE DEF g
<1>4. Whole(items, Top) = items /\ Whole(items', g) = items
  BY <1>2 DEF Whole
<1>5. count \in Nat \ {0}
  BY TopNumbers
<1> QED
  BY <1>2, <1>3, <1>4, <1>5, SameExchanged, BecomeKept

LEMMA SortPartsKept ==
    ASSUME Typed, Kept, SortLower \/ SortUpper, UNCHANGED <<promised, count>>
    PROVE  Kept'
<1>1. frames # <<>> /\ Top.pc \in {"lower", "upper"} /\ UNCHANGED items
      /\ "upper" \in Pcs /\ "return" \in Pcs
  BY DEF SortLower, SortUpper, At, Pcs
<1> DEFINE i == Top.begin  l == Top.left  j == Top.end
<1>2. i \in Nat /\ l \in Nat /\ j \in Nat /\ i <= l /\ l <= j
  BY <1>1, TopNumbers
<1>3. \/ Goto("upper") \/ Goto("return")
      \/ i + 1 < l /\ Descend("upper", Frame(i, l - 1))
      \/ l + 1 < j /\ Descend("return", Frame(l + 1, j))
  BY DEF SortLower, SortUpper
<1> HIDE DEF i, l, j
<1>4. CASE Goto("upper") \/ Goto("return")
  BY <1>1, <1>4, GotoKept
<1>5. CASE i + 1 < l /\ Descend("upper", Frame(i, l - 1))
  <2>1. l - 1 \in Nat /\ i <= i /\ i <= j
    BY <1>2, <1>5
  <2> QED
    BY <1>1, <1>2, <1>5, <2>1, DescendKept DEF i, j
<1>6. CASE l + 1 < j /\ Descend("return", Frame(l + 1, j))
  <2>1. l + 1 \in Nat /\ i <= l + 1 /\ l + 1 <= j
    BY <1>2, <1>6
  <2> QED
    BY <1>1, <1>2, <1>6, <2>1, DescendKept DEF i, j
<1> QED
  BY <1>3, <1>4, <1>5, <1>6

LEMMA ReturnKept ==
    ASSUME Typed, SortedBy(items, frames), Kept, Return, frames' # <<>>, UNCHANGED <<promised, count>>
    PROVE  Kept'
<1> DEFINE n == Len(frames)
<1>1. /\ frames # <<>> /\ Top.pc = "return" /\ UNCHANGED items
      /\ n \in Nat \ {0} /\ Top = frames[n]
  BY TopFacts DEF Return, At
<1>2. /\ frames' \in Seq(Frames) /\ Len(frames') = n - 1
      /\ \A m \in 1 .. n - 1 : frames'[m] = frames[m]
  BY <1>1, PopFacts DEF Return, Typed
<1>3. \A m \in 1 .. n - 1 : frames[m].pc \in {"upper", "return"}
  BY DEF SortedBy, Waiting
<1>4. /\ promised \in Seq(Item) /\ Len(promised) = count
      /\ frames[1].begin = 0 /\ frames[1].end = count - 1
      /\ Rearranged(Whole(items, frames[n]), promised)
  BY <1>1 DEF Kept, KeptBy
<1> HIDE DEF n
<1>5. n - 1 \in 1 .. n - 1 /\ 1 \in 1 .. n - 1
  BY <1>1, <1>2
<1>6. frames'[n - 1].pc \in {"upper", "return"} /\ frames'[1] = frames[1]
  BY <1>2, <1>3, <1>5
<1>7. Whole(items, frames[n]) = items /\ Whole(items, frames'[n - 1]) = items
  BY <1>1, <1>6 DEF Whole
<1> QED
  BY <1>1, <1>2, <1>4, <1>6, <1>7 DEF Kept, KeptBy

LEMMA ContentsFacts ==
    ASSUME NEW n \in Nat, NEW a, \A i \in 0 .. n - 1 : a[i] \in Item
    PROVE  /\ [i \in 1 .. n |-> a[i - 1]] \in Seq(Item)
           /\ Len([i \in 1 .. n |-> a[i - 1]]) = n
           /\ \A i \in 1 .. n : [k \in 1 .. n |-> a[k - 1]][i] = a[i - 1]
<1> DEFINE s == [i \in 1 .. n |-> a[i - 1]]
<1>1. \A i \in 1 .. n : a[i - 1] \in Item
  OBVIOUS
<1>2. s \in [1 .. n -> Item]
  BY <1>1
<1>3. \A i \in 1 .. n : s[i] = a[i - 1]
  OBVIOUS
<1> HIDE DEF s
<1>4. s \in Seq(Item) /\ Len(s) = n
  BY <1>2
<1> QED
  BY <1>3, <1>4 DEF s

\* A sort begins with all the items of the array.
LEMMA ArraySortKept ==
    ASSUME Typed, ItemsAsPromised, ArraySort, UNCHANGED promised
    PROVE  Kept'
<1> DEFINE d == Frame(0, count - 1)  s == [i \in 1 .. count |-> items[i - 1]]
<1>1. /\ count \in Nat \ {0} /\ count - 1 \in Nat /\ 0 \in Nat /\ items[0] \in Item
      /\ capacity \in Nat /\ count \in 0 .. capacity /\ items \in [0 .. capacity - 1 -> Item]
      /\ frames' = <<d>> /\ UNCHANGED <<items, count>>
  BY DEF Typed, ArraySort
<1>2. /\ d \in Frames /\ d.begin = 0 /\ d.end = count - 1 /\ d.left = 0
      /\ d.key = items[0] /\ d.pc = "right"
  BY <1>1, FrameFacts
<1>3. promised' = s
  BY DEF ArraySort, Contents, ItemsAsPromised
<1>4. s \in Seq(Item) /\ Len(s) = count /\ \A i \in 1 .. count : s[i] = items[i - 1]
  <2>1. \A i \in 0 .. count - 1 : items[i] \in Item
    BY <1>1
  <2> QED
    BY <1>1, <2>1, ContentsFacts
<1> HIDE DEF d, s
<1>5. Whole(items', d) = items
  BY <1>1, <1>2 DEF Whole
<1>6. Rearranged(items, s)
  <2>1. Rearranged([i \in 0 .. Len(s) - 1 |-> s[i + 1]], s)
    BY <1>4, SameRearranged
  <2> DEFINE t == [i \in 0 .. Len(s) - 1 |-> s[i + 1]]
  <2>2. \A i \in 1 .. Len(s) : t[i - 1] = items[i - 1]
    BY <1>1, <1>4
  <2> HIDE DEF t
  <2>3. Rearranged(t, s)
    BY <2>1 DEF t
  <2> QED
    BY <2>2, <2>3 DEF Rearranged
<1>7. Len(frames') = 1 /\ frames'[1] = d /\ frames' # <<>>
  BY <1>1
<1> QED
  BY <1>1, <1>2, <1>3, <1>4, <1>5, <1>6, <1>7 DEF Kept, KeptBy

LEMMA SortingKept ==
    ASSUME Typed, SortedBy(items, frames), Kept, Sorting
    PROVE  Kept'
<1>1. CASE frames' = <<>>
  BY <1>1 DEF Kept, KeptBy
<1>2. CASE frames' # <<>>
  <2>1. UNCHANGED <<promised, count>> /\ SortStep
    BY <1>2 DEF Sorting, ArraySorting
  <2> QED
    BY <1>2, <2>1, SeekRightKept, SeekLeftKept, PutBackKept, SortPartsKept, ReturnKept DEF SortStep
<1> QED
  BY <1>1, <1>2

LEMMA StepKept ==
    ASSUME Typed, SortedBy(items, frames), Kept, ItemsAsPromised, [Next]_vars
    PROVE  Kept'
<1>1. CASE ArraySort /\ UNCHANGED promised
  BY <1>1, ArraySortKept
<1>2. CASE Sorting
  BY <1>2, SortingKept
<1>3. CASE UNCHANGED vars
  BY <1>3 DEF vars, Kept
<1>4. CASE Next /\ ~(ArraySort /\ UNCHANGED promised) /\ ~Sorting
  <2>1. frames' = <<>>
    BY <1>4 DEF Next, ArrayAppend, ArraySortInsert, ArrayAssign, ArrayInsert, ArrayErase, ArrayRemove,
                ArrayPop, ArrayClear, Idle
  <2> QED
    BY <2>1 DEF Kept, KeptBy
<1> QED
  BY <1>1, <1>2, <1>3, <1>4

-----------------------------------------------------------------------------
(* What the array promises.                                                *)

LEMMA SameSequence ==
    ASSUME NEW s \in Seq(Item), NEW t \in Seq(Item), Len(s) = Len(t),
           \A i \in 1 .. Len(s) : s[i] = t[i]
    PROVE  s = t
BY SeqEqual

LEMMA JoinFacts ==
    ASSUME NEW p \in Seq(Item), NEW q \in Seq(Item), NEW r, r = p \o q
    PROVE  /\ r \in Seq(Item) /\ Len(r) = Len(p) + Len(q)
           /\ \A k \in 1 .. Len(p) : r[k] = p[k]
           /\ \A k \in Len(p) + 1 .. Len(p) + Len(q) : r[k] = q[k - Len(p)]
<1> DEFINE a == Len(p)  b == Len(q)
<1>1. a \in Nat /\ b \in Nat
  OBVIOUS
<1>2. /\ r \in Seq(Item) /\ Len(r) = a + b
      /\ \A k \in 1 .. a + b : r[k] = IF k <= a THEN p[k] ELSE q[k - a]
  BY ConcatProperties
<1> HIDE DEF a, b
<1>3. \A k \in 1 .. a : k \in 1 .. a + b /\ k <= a
  BY <1>1
<1>4. \A k \in a + 1 .. a + b : k \in 1 .. a + b /\ ~(k <= a)
  BY <1>1
<1>5. \A k \in 1 .. a : r[k] = p[k]
  BY <1>2, <1>3
<1>6. \A k \in a + 1 .. a + b : r[k] = q[k - a]
  BY <1>2, <1>4
<1> QED
  BY <1>2, <1>5, <1>6 DEF a, b

LEMMA InsertAtFacts ==
    ASSUME NEW s \in Seq(Item), NEW i \in 1 .. Len(s) + 1, NEW v \in Item
    PROVE  /\ InsertAt(s, i, v) \in Seq(Item)
           /\ Len(InsertAt(s, i, v)) = Len(s) + 1
           /\ \A k \in 1 .. Len(s) + 1 :
                InsertAt(s, i, v)[k] = IF k < i THEN s[k] ELSE IF k = i THEN v ELSE s[k - 1]
<1> DEFINE n == Len(s)  p == SubSeq(s, 1, i - 1)  q == SubSeq(s, i, n)  m == p \o <<v>>
<1>1. n \in Nat /\ i \in 1 .. n + 1 /\ \A k \in 1 .. n : s[k] \in Item
  OBVIOUS
<1>2. InsertAt(s, i, v) = m \o q
  BY DEF InsertAt
<1> HIDE DEF n
<1>3. p \in Seq(Item) /\ Len(p) = i - 1 /\ \A k \in 1 .. i - 1 : p[k] = s[k]
  <2>1. \A k \in 1 .. i - 1 : s[k] \in Item
    BY <1>1
  <2> QED
    BY <1>1, <2>1, SubSeqProperties
<1>4. q \in Seq(Item) /\ Len(q) = n - i + 1 /\ \A k \in 1 .. n - i + 1 : q[k] = s[i + k - 1]
  <2>1. \A k \in i .. n : s[k] \in Item
    BY <1>1
  <2> QED
    BY <1>1, <2>1, SubSeqProperties
<1> HIDE DEF p, q
<1>5. <<v>> \in Seq(Item) /\ Len(<<v>>) = 1 /\ <<v>>[1] = v
  OBVIOUS
<1>6. m \in Seq(Item) /\ Len(m) = i /\ m[i] = v /\ \A k \in 1 .. i - 1 : m[k] = s[k]
  <2>1. /\ m \in Seq(Item) /\ Len(m) = Len(p) + 1
        /\ \A k \in 1 .. Len(p) + 1 : m[k] = IF k <= Len(p) THEN p[k] ELSE <<v>>[k - Len(p)]
    BY <1>3, <1>5, ConcatProperties
  <2> HIDE DEF m
  <2> QED
    BY <1>1, <1>3, <1>5, <2>1
<1> HIDE DEF m
<1>7. n - i + 1 \in Nat /\ i \in Nat
  BY <1>1
<1> DEFINE r == m \o q
<1>0. r = m \o q
  OBVIOUS
<1> HIDE DEF r
<1>8. /\ r \in Seq(Item) /\ Len(r) = i + (n - i + 1)
      /\ \A k \in 1 .. i : r[k] = m[k]
      /\ \A k \in i + 1 .. i + (n - i + 1) : r[k] = q[k - i]
  <2>1. Len(m) \in Nat /\ Len(q) \in Nat /\ Len(m) = i /\ Len(q) = n - i + 1
    BY <1>4, <1>6, <1>7
  <2>2. /\ r \in Seq(Item) /\ Len(r) = Len(m) + Len(q)
        /\ \A k \in 1 .. Len(m) : r[k] = m[k]
        /\ \A k \in Len(m) + 1 .. Len(m) + Len(q) : r[k] = q[k - Len(m)]
    <3>1. m \in Seq(Item) /\ q \in Seq(Item)
      BY <1>4, <1>6
    <3> QED
      BY <1>0, <3>1, JoinFacts
  <2> QED
    BY <2>1, <2>2
<1>9. ASSUME NEW k \in 1 .. n + 1
      PROVE  r[k] = IF k < i THEN s[k] ELSE IF k = i THEN v ELSE s[k - 1]
  <2>1. CASE k <= i
    <3>1. k \in 1 .. i
      BY <1>1, <2>1
    <3>2. r[k] = m[k] /\ (k < i => k \in 1 .. i - 1)
      BY <1>1, <1>8, <3>1
    <3> QED
      BY <1>1, <1>6, <2>1, <3>1, <3>2
  <2>2. CASE k > i
    <3>1. /\ k \in i + 1 .. i + (n - i + 1) /\ k - i \in 1 .. n - i + 1
          /\ i + (k - i) - 1 = k - 1 /\ ~(k < i) /\ k # i
      BY <1>1, <2>2
    <3>2. r[k] = q[k - i] /\ q[k - i] = s[i + (k - i) - 1]
      BY <1>4, <1>8, <3>1
    <3> QED
      BY <3>1, <3>2
  <2> QED
    BY <1>1, <2>1, <2>2
<1>10. Len(r) = n + 1
  BY <1>1, <1>8
<1>11. InsertAt(s, i, v) = r
  BY <1>0, <1>2
<1> QED
  BY <1>8, <1>9, <1>10, <1>11 DEF n

LEMMA RemoveAtFacts ==
    ASSUME NEW s \in Seq(Item), NEW i \in 1 .. Len(s)
    PROVE  /\ RemoveAt(s, i) \in Seq(Item)
           /\ Len(RemoveAt(s, i)) = Len(s) - 1
           /\ \A k \in 1 .. Len(s) - 1 :
                RemoveAt(s, i)[k] = IF k < i THEN s[k] ELSE s[k + 1]
<1> DEFINE n == Len(s)  p == SubSeq(s, 1, i - 1)  q == SubSeq(s, i + 1, n)
<1>1. n \in Nat /\ i \in 1 .. n /\ \A k \in 1 .. n : s[k] \in Item
  OBVIOUS
<1>2. RemoveAt(s, i) = p \o q
  BY DEF RemoveAt
<1> HIDE DEF n
<1>3. p \in Seq(Item) /\ Len(p) = i - 1 /\ \A k \in 1 .. i - 1 : p[k] = s[k]
  <2>1. \A k \in 1 .. i - 1 : s[k] \in Item
    BY <1>1
  <2> QED
    BY <1>1, <2>1, SubSeqProperties
<1>4. q \in Seq(Item) /\ Len(q) = n - i /\ \A k \in 1 .. n - i : q[k] = s[i + k]
  <2>1. \A k \in i + 1 .. n : s[k] \in Item
    BY <1>1
  <2>2. /\ q \in Seq(Item) /\ Len(q) = IF i + 1 <= n THEN n - (i + 1) + 1 ELSE 0
        /\ \A k \in 1 .. n - (i + 1) + 1 : q[k] = s[i + 1 + k - 1]
    BY <1>1, <2>1, SubSeqProperties
  <2> HIDE DEF q
  <2>3. \A k \in 1 .. n - i : k \in 1 .. n - (i + 1) + 1 /\ i + 1 + k - 1 = i + k
    BY <1>1
  <2> QED
    BY <1>1, <2>2, <2>3
<1> HIDE DEF p, q
<1>5. n - i \in Nat /\ i - 1 \in Nat
  BY <1>1
<1> DEFINE r == p \o q
<1>0. r = p \o q
  OBVIOUS
<1> HIDE DEF r
<1>6. /\ r \in Seq(Item) /\ Len(r) = i - 1 + (n - i)
      /\ \A k \in 1 .. i - 1 : r[k] = p[k]
      /\ \A k \in i - 1 + 1 .. i - 1 + (n - i) : r[k] = q[k - (i - 1)]
  <2>1. Len(p) \in Nat /\ Len(q) \in Nat /\ Len(p) = i - 1 /\ Len(q) = n - i
    BY <1>3, <1>4, <1>5
  <2>2. /\ r \in Seq(Item) /\ Len(r) = Len(p) + Len(q)
        /\ \A k \in 1 .. Len(p) : r[k] = p[k]
        /\ \A k \in Len(p) + 1 .. Len(p) + Len(q) : r[k] = q[k - Len(p)]
    <3>1. p \in Seq(Item) /\ q \in Seq(Item)
      BY <1>3, <1>4
    <3> QED
      BY <1>0, <3>1, JoinFacts
  <2> QED
    BY <2>1, <2>2
<1>7. ASSUME NEW k \in 1 .. n - 1
      PROVE  r[k] = IF k < i THEN s[k] ELSE s[k + 1]
  <2>1. CASE k < i
    <3>1. k \in 1 .. i - 1
      BY <1>1, <2>1
    <3> QED
      BY <1>3, <1>6, <2>1, <3>1
  <2>2. CASE ~(k < i)
    <3>1. /\ k \in i - 1 + 1 .. i - 1 + (n - i) /\ k - (i - 1) \in 1 .. n - i
          /\ i + (k - (i - 1)) = k + 1
      BY <1>1, <2>2
    <3>2. r[k] = q[k - (i - 1)] /\ q[k - (i - 1)] = s[i + (k - (i - 1))]
      BY <1>4, <1>6, <3>1
    <3> QED
      BY <2>2, <3>1, <3>2
  <2> QED
    BY <2>1, <2>2
<1>8. Len(r) = n - 1
  BY <1>1, <1>6
<1>9. RemoveAt(s, i) = r
  BY <1>0, <1>2
<1> QED
  BY <1>6, <1>7, <1>8, <1>9 DEF n

LEMMA BufferFacts ==
    ASSUME NEW N \in Nat, NEW n \in 0 .. N, NEW a \in [0 .. N - 1 -> Item]
    PROVE  n \in Nat /\ \A i \in 0 .. n - 1 : a[i] \in Item
OBVIOUS

LEMMA ContentsAre ==
    ASSUME Typed
    PROVE  /\ Contents \in Seq(Item) /\ Len(Contents) = count /\ count \in Nat
           /\ \A i \in 1 .. count : Contents[i] = items[i - 1]
<1>1. count \in Nat /\ \A i \in 0 .. count - 1 : items[i] \in Item
  BY DEF Typed
<1> QED
  BY <1>1, ContentsFacts DEF Contents

\* The contents after a step.
LEMMA ContentsAfter ==
    ASSUME Typed'
    PROVE  /\ Contents' = [i \in 1 .. count' |-> items'[i - 1]]
           /\ Contents' \in Seq(Item) /\ Len(Contents') = count' /\ count' \in Nat
           /\ \A i \in 1 .. count' : Contents'[i] = items'[i - 1]
<1>1. count' \in Nat /\ \A i \in 0 .. count' - 1 : items'[i] \in Item
  <2>1. capacity' \in Nat /\ count' \in 0 .. capacity' /\ items' \in [0 .. capacity' - 1 -> Item]
    BY DEF Typed
  <2> QED
    BY <2>1, BufferFacts
<1>2. Contents' = [i \in 1 .. count' |-> items'[i - 1]]
  BY DEF Contents
<1> QED
  BY <1>1, <1>2, ContentsFacts

\* Behind the last item, an assignment and an insertion are the same.
LEMMA AtTheEnd ==
    ASSUME NEW s \in Seq(Item), NEW v \in Item, NEW memory
    PROVE  /\ Assigned(s, Len(s), v, memory) = Append(s, v)
           /\ Inserted(s, Len(s), v) = Append(s, v)
<1> DEFINE n == Len(s)  j == n + 1
<1>1. n \in Nat /\ j \in 1 .. n + 1 /\ ~(n < n) /\ s \in [1 .. n -> Item]
  OBVIOUS
<1>2. /\ Append(s, v) \in Seq(Item) /\ Len(Append(s, v)) = n + 1 /\ Append(s, v)[n + 1] = v
      /\ \A i \in 1 .. n : Append(s, v)[i] = s[i]
  OBVIOUS
<1>3. Append(s, v) = [i \in 1 .. n + 1 |-> Append(s, v)[i]]
  <2> DEFINE t == Append(s, v)
  <2>1. t \in Seq(Item) /\ Len(t) = n + 1
    BY <1>2
  <2> HIDE DEF t, n
  <2>2. t = [i \in 1 .. n + 1 |-> t[i]]
    BY <2>1
  <2> QED
    BY <2>2 DEF t
<1>4. Assigned(s, n, v, memory) = Append(s, v)
  <2>1. Assigned(s, n, v, memory) =
          [i \in 1 .. n + 1 |-> IF i = n + 1 THEN v ELSE IF i <= n THEN s[i] ELSE memory[i - 1]]
    BY <1>1 DEF Assigned
  <2>2. \A i \in 1 .. n + 1 :
          Append(s, v)[i] = IF i = n + 1 THEN v ELSE IF i <= n THEN s[i] ELSE memory[i - 1]
    BY <1>1, <1>2
  <2> HIDE DEF n
  <2> QED
    BY <1>3, <2>1, <2>2
<1>5. Inserted(s, n, v) = Append(s, v)
  <2> HIDE DEF j
  <2>1. /\ InsertAt(s, j, v) \in Seq(Item) /\ Len(InsertAt(s, j, v)) = Len(s) + 1
        /\ \A k \in 1 .. Len(s) + 1 :
             InsertAt(s, j, v)[k] = IF k < j THEN s[k] ELSE IF k = j THEN v ELSE s[k - 1]
    BY <1>1, InsertAtFacts
  <2> DEFINE t == InsertAt(s, j, v)
  <2>2. \A k \in 1 .. n + 1 : t[k] = Append(s, v)[k]
    BY <1>1, <1>2, <2>1 DEF j
  <2>3. t \in Seq(Item) /\ Len(t) = n + 1
    BY <2>1
  <2> HIDE DEF t
  <2>4. t = Append(s, v)
    BY <1>2, <2>2, <2>3, SameSequence
  <2> QED
    BY <2>4 DEF Inserted, t, j
<1> QED
  BY <1>4, <1>5

LEMMA AssignKeepsPromise ==
    ASSUME Typed, Typed', NEW v \in Values, NEW index \in Nat, ArrayAssign(index, v)
    PROVE  Contents' = Assigned(Contents, index, v, items')
<1>1. /\ count \in 0 .. capacity /\ capacity \in Nat
      /\ count' = IF index < count THEN count ELSE index + 1
  BY DEF ArrayAssign, Typed
<1>2. PICK size \in capacity .. MaxCapacity :
        index < size /\ items' = [Expanded(size) EXCEPT ![index] = v]
  BY DEF ArrayAssign, Fits
<1>3. items'[index] = v /\ \A i \in 0 .. count - 1 : i # index => items'[i] = items[i]
  <2>1. index \in 0 .. size - 1 /\ \A i \in 0 .. count - 1 : i \in 0 .. size - 1 /\ i < capacity
    BY <1>1, <1>2
  <2> QED
    BY <1>2, <2>1 DEF Expanded
<1>4. Len(Contents) = count /\ \A i \in 1 .. count : Contents[i] = items[i - 1]
  BY ContentsAre
<1>5. Contents' = [i \in 1 .. count' |-> items'[i - 1]] /\ count' \in Nat
  BY ContentsAfter
<1>6. Assigned(Contents, index, v, items') =
        [i \in 1 .. count' |->
            IF i = index + 1 THEN v ELSE IF i <= count THEN Contents[i] ELSE items'[i - 1]]
  BY <1>1, <1>4 DEF Assigned
<1>7. ASSUME NEW i \in 1 .. count'
      PROVE  items'[i - 1] =
               IF i = index + 1 THEN v ELSE IF i <= count THEN Contents[i] ELSE items'[i - 1]
  <2>1. CASE i = index + 1
    BY <1>3, <2>1
  <2>2. CASE i # index + 1 /\ i <= count
    <3>1. i \in 1 .. count /\ i - 1 \in 0 .. count - 1 /\ i - 1 # index
      BY <1>1, <1>5, <2>2
    <3> QED
      BY <1>3, <1>4, <2>2, <3>1
  <2>3. CASE i # index + 1 /\ ~(i <= count)
    BY <2>3
  <2> QED
    BY <2>1, <2>2, <2>3
<1> QED
  BY <1>5, <1>6, <1>7

LEMMA InsertKeepsPromise ==
    ASSUME Typed, Typed', NEW v \in Values, NEW index \in Nat, ArrayInsert(index, v)
    PROVE  Contents' = IF index < count THEN Inserted(Contents, index, v)
                       ELSE Assigned(Contents, index, v, items')
<1>0. count \in Nat
  BY DEF Typed
<1>1. CASE ~(index < count)
  <2>1. ArrayAssign(index, v)
    BY <1>1 DEF ArrayInsert
  <2> QED
    BY <1>1, <2>1, AssignKeepsPromise
<1>2. CASE index < count
  <2> DEFINE size == IF count >= capacity THEN 2 * capacity ELSE capacity
  <2>1. v \in Item /\ count' = count + 1 /\ count \in 0 .. capacity /\ capacity \in Nat \ {0}
    BY <1>0, <1>2 DEF ArrayInsert, Typed, Item
  <2>2. items' = [i \in 0 .. size - 1 |->
                    IF i < index \/ i > count THEN Expanded(size)[i]
                    ELSE IF i = index THEN v ELSE items[i - 1]]
    BY <1>0, <1>2 DEF ArrayInsert
  <2>3. size \in Nat /\ count < size
    BY <2>1
  <2> HIDE DEF size
  <2>4. /\ items'[index] = v
        /\ \A i \in 0 .. index - 1 : items'[i] = items[i]
        /\ \A i \in index + 1 .. count : items'[i] = items[i - 1]
    <3>1. index \in 0 .. size - 1 /\ ~(index < index \/ index > count)
      BY <1>2, <2>1, <2>3
    <3>2. \A i \in 0 .. index - 1 : i \in 0 .. size - 1 /\ i < index /\ i < capacity
      BY <1>2, <2>1, <2>3
    <3>3. \A i \in index + 1 .. count :
            i \in 0 .. size - 1 /\ ~(i < index \/ i > count) /\ i # index
      BY <2>1, <2>3
    <3>4. items'[index] = v
      BY <2>2, <3>1
    <3>5. \A i \in 0 .. index - 1 : items'[i] = items[i]
      BY <2>2, <3>2 DEF Expanded
    <3>6. \A i \in index + 1 .. count : items'[i] = items[i - 1]
      BY <2>2, <3>3
    <3> QED
      BY <3>4, <3>5, <3>6
  <2>5. Contents \in Seq(Item) /\ Len(Contents) = count /\ \A i \in 1 .. count : Contents[i] = items[i - 1]
    BY ContentsAre
  <2>6. Contents' \in Seq(Item) /\ Len(Contents') = count' /\ \A i \in 1 .. count' : Contents'[i] = items'[i - 1]
    BY ContentsAfter
  <2> DEFINE t == InsertAt(Contents, index + 1, v)
  <2>7. index + 1 \in 1 .. Len(Contents) + 1
    BY <1>2, <2>1, <2>5
  <2>8. /\ t \in Seq(Item) /\ Len(t) = count + 1
        /\ \A k \in 1 .. count + 1 :
             t[k] = IF k < index + 1 THEN Contents[k] ELSE IF k = index + 1 THEN v ELSE Contents[k - 1]
    <3> DEFINE j == index + 1
    <3>1. Contents \in Seq(Item) /\ j \in 1 .. Len(Contents) + 1 /\ v \in Item
      BY <2>1, <2>5, <2>7
    <3> HIDE DEF j
    <3>2. /\ InsertAt(Contents, j, v) \in Seq(Item)
          /\ Len(InsertAt(Contents, j, v)) = Len(Contents) + 1
          /\ \A k \in 1 .. Len(Contents) + 1 :
               InsertAt(Contents, j, v)[k] =
                   IF k < j THEN Contents[k] ELSE IF k = j THEN v ELSE Contents[k - 1]
      BY <3>1, InsertAtFacts
    <3> QED
      BY <2>5, <3>2 DEF j
  <2> HIDE DEF t
  <2>9. ASSUME NEW k \in 1 .. count + 1
        PROVE  Contents'[k] = t[k]
    <3>1. CASE k < index + 1
      <4>1. k \in 1 .. count /\ k \in 1 .. count' /\ k - 1 \in 0 .. index - 1
        BY <1>2, <2>1, <3>1
      <4> QED
        BY <2>4, <2>5, <2>6, <2>8, <3>1, <4>1
    <3>2. CASE k = index + 1
      <4>1. k \in 1 .. count' /\ k - 1 = index /\ ~(k < index + 1)
        BY <2>1, <3>2
      <4> QED
        BY <2>4, <2>6, <2>8, <3>2, <4>1
    <3>3. CASE k > index + 1
      <4>1. /\ k \in 1 .. count' /\ k - 1 \in 1 .. count /\ k - 1 \in index + 1 .. count
            /\ ~(k < index + 1) /\ k # index + 1
        BY <2>1, <3>3
      <4>2. Contents'[k] = items[k - 1 - 1] /\ Contents[k - 1] = items[k - 1 - 1]
        BY <2>4, <2>5, <2>6, <4>1
      <4> QED
        BY <2>8, <4>1, <4>2
    <3> QED
      BY <2>1, <3>1, <3>2, <3>3
  <2>10. Contents' = t
    BY <2>1, <2>6, <2>8, <2>9, SameSequence
  <2> QED
    BY <1>2, <2>10 DEF Inserted, t
<1> QED
  BY <1>1, <1>2

\* sort_insert compares addresses with the item, and those are greater than any item.
LEMMA SortInsertKeepsPromise ==
    ASSUME Typed, Typed', NEW v \in Values, ArraySortInsert(v)
    PROVE  Contents' = IF comparing THEN Inserted(Contents, 0, v) ELSE Append(Contents, v)
<1> DEFINE greater == {i \in 0 .. count - 1 : comparing /\ AddressOf(i) > v}
<1>1. /\ count \in Nat /\ comparing \in BOOLEAN /\ v \in Item
      /\ Contents \in Seq(Item) /\ Len(Contents) = count
  BY ContentsAre DEF Typed, Item
<1>2. PICK index \in 0 .. count :
        /\ \A i \in 0 .. index - 1 : i \notin greater
        /\ index < count => index \in greater
        /\ ArrayInsert(index, v)
  BY DEF ArraySortInsert
<1>3. comparing => \A i \in 0 .. count - 1 : i \in greater
  <2>1. \A i \in 0 .. count - 1 : HeapBase + i > v
    BY <1>1, DynArrayAssumption
  <2> QED
    BY <2>1 DEF AddressOf
<1>4. ~comparing => greater = {}
  OBVIOUS
<1> HIDE DEF greater
<1>5. index \in Nat
  BY <1>1
<1>6. Contents' = IF index < count THEN Inserted(Contents, index, v)
                  ELSE Assigned(Contents, index, v, items')
  BY <1>2, <1>5, InsertKeepsPromise
<1>7. /\ Assigned(Contents, count, v, items') = Append(Contents, v)
      /\ Inserted(Contents, count, v) = Append(Contents, v)
  BY <1>1, AtTheEnd
<1>8. CASE comparing
  <2>1. index = 0
    BY <1>1, <1>2, <1>3, <1>8
  <2> QED
    BY <1>1, <1>6, <1>7, <1>8, <2>1
<1>9. CASE ~comparing
  <2>1. index = count
    BY <1>1, <1>2, <1>4, <1>9
  <2> QED
    BY <1>1, <1>6, <1>7, <1>9, <2>1
<1> QED
  BY <1>1, <1>8, <1>9

LEMMA EraseKeepsPromise ==
    ASSUME Typed, Typed', NEW index \in 0 .. count - 1, ArrayErase(index)
    PROVE  Contents' = Erased(Contents, index)
<1>1. /\ items' = [items EXCEPT ![index] = 0] /\ count' = count
      /\ count \in 0 .. capacity /\ capacity \in Nat /\ items \in [0 .. capacity - 1 -> Item]
  BY DEF ArrayErase, Typed
<1>2. Contents \in [1 .. count -> Item] /\ \A i \in 1 .. count : Contents[i] = items[i - 1]
  BY ContentsAre
<1>3. Contents' = [i \in 1 .. count |-> items'[i - 1]]
  BY <1>1, ContentsAfter
<1>4. Erased(Contents, index) = [i \in 1 .. count |-> IF i = index + 1 THEN 0 ELSE Contents[i]]
  BY <1>2 DEF Erased
<1>5. ASSUME NEW i \in 1 .. count
      PROVE  items'[i - 1] = IF i = index + 1 THEN 0 ELSE Contents[i]
  <2>1. i - 1 \in 0 .. capacity - 1 /\ (i - 1 = index <=> i = index + 1)
    BY <1>1
  <2> QED
    BY <1>1, <1>2, <2>1
<1> QED
  BY <1>3, <1>4, <1>5

LEMMA RemoveKeepsPromise ==
    ASSUME Typed, Typed', NEW index \in 0 .. count - 1, ArrayRemove(index)
    PROVE  Contents' = Removed(Contents, index)
<1>1. /\ count \in 0 .. capacity /\ capacity \in Nat /\ count' = count - 1
      /\ items' = [i \in 0 .. capacity - 1 |->
                     IF index <= i /\ i + 1 < count THEN items[i + 1] ELSE items[i]]
  BY DEF ArrayRemove, Typed
<1>2. Contents \in Seq(Item) /\ Len(Contents) = count /\ \A i \in 1 .. count : Contents[i] = items[i - 1]
  BY ContentsAre
<1>3. /\ Contents' \in Seq(Item) /\ Len(Contents') = count - 1
      /\ \A i \in 1 .. count - 1 : Contents'[i] = items'[i - 1]
  BY <1>1, ContentsAfter
<1> DEFINE t == RemoveAt(Contents, index + 1)
<1>4. index + 1 \in 1 .. Len(Contents)
  BY <1>1, <1>2
<1>5. /\ t \in Seq(Item) /\ Len(t) = count - 1
      /\ \A k \in 1 .. count - 1 : t[k] = IF k < index + 1 THEN Contents[k] ELSE Contents[k + 1]
  BY <1>2, <1>4, RemoveAtFacts
<1> HIDE DEF t
<1>6. ASSUME NEW k \in 1 .. count - 1
      PROVE  Contents'[k] = t[k]
  <2>1. k - 1 \in 0 .. capacity - 1 /\ k - 1 + 1 = k + 1 - 1 /\ k \in 1 .. count /\ k + 1 \in 1 .. count
    BY <1>1
  <2>2. items'[k - 1] = IF index <= k - 1 /\ k < count THEN items[k] ELSE items[k - 1]
    BY <1>1, <2>1
  <2>3. (index <= k - 1 /\ k < count) <=> ~(k < index + 1)
    BY <1>1
  <2> QED
    BY <1>2, <1>3, <1>5, <2>1, <2>2, <2>3
<1>7. Contents' = t
  BY <1>3, <1>5, <1>6, SameSequence
<1> QED
  BY <1>7 DEF Removed, t

LEMMA PopKeepsPromise ==
    ASSUME Typed, Typed', ArrayPop
    PROVE  Contents' = Front(Contents)
<1>1. count \in Nat /\ count > 0 /\ count' = count - 1 /\ items' = items
  BY DEF ArrayPop, Typed
<1>2. Contents \in Seq(Item) /\ Len(Contents) = count /\ \A i \in 1 .. count : Contents[i] = items[i - 1]
  BY ContentsAre
<1>3. /\ Contents' \in Seq(Item) /\ Len(Contents') = count - 1
      /\ \A i \in 1 .. count - 1 : Contents'[i] = items[i - 1]
  BY <1>1, ContentsAfter
<1> DEFINE p == SubSeq(Contents, 1, count - 1)
<1>4. p \in Seq(Item) /\ Len(p) = count - 1 /\ \A k \in 1 .. count - 1 : p[k] = Contents[k]
  <2>1. \A k \in 1 .. count - 1 : Contents[k] \in Item
    BY <1>1, <1>2
  <2> QED
    BY <1>1, <2>1, SubSeqProperties
<1> HIDE DEF p
<1>5. \A k \in 1 .. count - 1 : k \in 1 .. count
  BY <1>1
<1>6. Contents' = p
  BY <1>2, <1>3, <1>4, <1>5, SameSequence
<1> QED
  BY <1>2, <1>6 DEF Front, p

LEMMA ClearKeepsPromise ==
    ASSUME Typed', ArrayClear
    PROVE  Contents' = <<>>
<1>1. Len(Contents') = 0 /\ Contents' \in Seq(Item)
  BY ContentsAfter DEF ArrayClear
<1> QED
  BY <1>1

\* Two orders of the same items agree: where the one had a smaller item than the other,
\* the items up to there would be among fewer items of the other.
LEMMA NoSmaller ==
    ASSUME NEW n \in Nat, NEW s \in [1 .. n -> Int],
           NEW f \in Bijection(1 .. n, 1 .. n), NEW g \in Bijection(1 .. n, 1 .. n),
           \A i, j \in 1 .. n : i <= j => s[f[i]] <= s[f[j]],
           \A i, j \in 1 .. n : i <= j => s[g[i]] <= s[g[j]],
           NEW i \in 1 .. n
    PROVE  s[g[i]] <= s[f[i]]
<1> SUFFICES ASSUME ~(s[g[i]] <= s[f[i]])
             PROVE  FALSE
  OBVIOUS
<1>1. /\ f \in [1 .. n -> 1 .. n] /\ g \in [1 .. n -> 1 .. n]
      /\ \A a, b \in 1 .. n : f[a] = f[b] => a = b
      /\ \A m \in 1 .. n : \E a \in 1 .. n : g[a] = m
  BY DEF Bijection, Injection, Surjection, IsInjective
<1>2. s[f[i]] < s[g[i]] /\ s[f[i]] \in Int /\ s[g[i]] \in Int
  <2>1. f[i] \in 1 .. n /\ g[i] \in 1 .. n
    BY <1>1
  <2>2. s[f[i]] \in Int /\ s[g[i]] \in Int
    BY <2>1
  <2> QED
    BY <2>2
<1> DEFINE h == [k \in 1 .. i |-> CHOOSE m \in 1 .. n : g[m] = f[k]]
<1>3. ASSUME NEW k \in 1 .. i
      PROVE  h[k] \in 1 .. i - 1 /\ g[h[k]] = f[k]
  <2>0. k \in 1 .. n /\ k <= i
    OBVIOUS
  <2>1. k \in 1 .. n /\ f[k] \in 1 .. n /\ k <= i
    BY <1>1, <2>0
  <2>2. h[k] \in 1 .. n /\ g[h[k]] = f[k]
    BY <1>1, <2>1
  <2> HIDE DEF h
  <2>3. s[g[h[k]]] <= s[f[i]]
    BY <2>1, <2>2
  <2>4. ~(i <= h[k])
    <3>1. i <= h[k] => s[g[i]] <= s[g[h[k]]]
      BY <2>2
    <3>2. s[g[h[k]]] \in Int
      BY <1>1, <2>2
    <3> QED
      BY <1>2, <2>3, <3>1, <3>2
  <2> QED
    BY <2>2, <2>4
<1>4. h = [k \in 1 .. i |-> h[k]]
  OBVIOUS
<1> HIDE DEF h
<1>5. h \in [1 .. i -> 1 .. i - 1]
  BY <1>3, <1>4
<1>6. /\ IsFiniteSet(1 .. i) /\ Cardinality(1 .. i) = i
      /\ IsFiniteSet(1 .. i - 1) /\ Cardinality(1 .. i - 1) = i - 1
  <2>1. i \in Int /\ i - 1 \in Int /\ 1 \in Int
    OBVIOUS
  <2> DEFINE j == i - 1
  <2>2. IsFiniteSet(1 .. i) /\ Cardinality(1 .. i) = IF 1 > i THEN 0 ELSE i - 1 + 1
    BY <2>1, FS_Interval
  <2>3. IsFiniteSet(1 .. j) /\ Cardinality(1 .. j) = IF 1 > j THEN 0 ELSE j - 1 + 1
    <3> HIDE DEF j
    <3>1. j \in Int
      BY <2>1 DEF j
    <3> QED
      BY <2>1, <3>1, FS_Interval
  <2> QED
    BY <2>2, <2>3
<1>7. PICK x \in 1 .. i, y \in 1 .. i : x # y /\ h[x] = h[y]
  <2> DEFINE S == 1 .. i  T == 1 .. i - 1
  <2>1. IsFiniteSet(S) /\ IsFiniteSet(T) /\ Cardinality(T) < Cardinality(S) /\ h \in [S -> T]
    <3>1. h \in [S -> T]
      BY <1>5
    <3>2. IsFiniteSet(S) /\ IsFiniteSet(T) /\ Cardinality(S) = i /\ Cardinality(T) = i - 1
      BY <1>6
    <3> HIDE DEF S, T
    <3> QED
      BY <3>1, <3>2
  <2> HIDE DEF S, T
  <2>2. \E x, y \in S : x # y /\ h[x] = h[y]
    BY <2>1, FS_PigeonHole
  <2> QED
    BY <2>2 DEF S
<1>8. f[x] = f[y] /\ x \in 1 .. n /\ y \in 1 .. n
  <2>1. g[h[x]] = f[x] /\ g[h[y]] = f[y]
    BY <1>3
  <2>2. x \in 1 .. n /\ y \in 1 .. n
    OBVIOUS
  <2> QED
    BY <1>7, <2>1, <2>2
<1> QED
  BY <1>1, <1>7, <1>8

LEMMA OneOrder ==
    ASSUME NEW s \in Seq(Int), NEW t \in InOrder(s), NEW u \in InOrder(s)
    PROVE  t = u
<1> DEFINE n == Len(s)
<1>1. n \in Nat /\ DOMAIN s = 1 .. n /\ s \in [1 .. n -> Int]
  OBVIOUS
<1> HIDE DEF n
<1>2. PICK f \in Bijection(1 .. n, 1 .. n) :
        t = [i \in 1 .. n |-> s[f[i]]] /\ \A i, j \in 1 .. n : i <= j => t[i] <= t[j]
  BY <1>1 DEF InOrder
<1>3. PICK g \in Bijection(1 .. n, 1 .. n) :
        u = [i \in 1 .. n |-> s[g[i]]] /\ \A i, j \in 1 .. n : i <= j => u[i] <= u[j]
  BY <1>1 DEF InOrder
<1>4. /\ \A i, j \in 1 .. n : i <= j => s[f[i]] <= s[f[j]]
      /\ \A i, j \in 1 .. n : i <= j => s[g[i]] <= s[g[j]]
  BY <1>2, <1>3
<1>5. f \in [1 .. n -> 1 .. n] /\ g \in [1 .. n -> 1 .. n]
  BY DEF Bijection, Injection
<1>6. ASSUME NEW i \in 1 .. n
      PROVE  s[f[i]] = s[g[i]]
  <2>1. s[g[i]] <= s[f[i]]
    BY <1>1, <1>4, NoSmaller
  <2>2. s[f[i]] <= s[g[i]]
    BY <1>1, <1>4, NoSmaller
  <2>3. s[f[i]] \in Int /\ s[g[i]] \in Int
    BY <1>1, <1>5
  <2> QED
    BY <2>1, <2>2, <2>3
<1> QED
  BY <1>2, <1>3, <1>6

\* Only the return of the outermost call ends a sort.
LEMMA SortEndsWithReturn ==
    ASSUME Typed, SortStep, frames' = <<>>
    PROVE  Return /\ Len(frames) = 1
<1>1. frames \in Seq(Frames) /\ frames # <<>> /\ Len(frames) \in Nat \ {0}
  <2>1. frames # <<>>
    BY DEF SortStep, SeekRight, SeekLeft, PutBack, SortLower, SortUpper, Return, At
  <2> QED
    BY <2>1, TopFacts DEF Typed
<1>2. ASSUME NEW f, Become(f)
      PROVE  FALSE
  <2>1. frames' = [frames EXCEPT ![Len(frames)] = f]
    BY <1>2 DEF Become
  <2>2. Len(frames') = Len(frames) /\ Len(frames') = 0
    BY <1>1, <2>1
  <2> QED
    BY <1>1, <2>2
<1>3. ASSUME NEW p, NEW f, Descend(p, f)
      PROVE  FALSE
  <2> DEFINE g == [Top EXCEPT !.pc = p]
  <2>1. frames' = Append([frames EXCEPT ![Len(frames)] = g], f)
    BY <1>3 DEF Descend
  <2> HIDE DEF g
  <2>2. frames' # <<>>
    BY <1>1, <2>1
  <2> QED
    BY <2>2
<1>4. ~ SeekRight
  BY <1>2 DEF SeekRight
<1>5. ~ SeekLeft
  BY <1>2 DEF SeekLeft
<1>6. ~ PutBack
  BY <1>2 DEF PutBack, Goto
<1>7. ~ SortLower /\ ~ SortUpper
  BY <1>2, <1>3 DEF SortLower, SortUpper, Goto
<1>8. Return
  BY <1>4, <1>5, <1>6, <1>7 DEF SortStep
<1>9. Len(frames') = Len(frames) - 1
  BY <1>1, <1>8, PopFacts DEF Return
<1> QED
  BY <1>1, <1>8, <1>9

\* The end of a sort: what it began with has been put in order.
LEMMA SortKeepsPromise ==
    ASSUME Typed, Typed', SortedBy(items, frames), Kept, ArraySorting, frames' = <<>>,
           promised' \in InOrder(promised)
    PROVE  Contents' = promised'
<1>1. Return /\ Len(frames) = 1 /\ count' = count
  BY SortEndsWithReturn DEF ArraySorting
<1>2. frames # <<>> /\ Top.pc = "return" /\ items' = items /\ Top = frames[1]
  BY <1>1 DEF Return, At, Top
<1>3. /\ promised \in Seq(Item) /\ Len(promised) = count /\ Top.begin = 0 /\ Top.end = count - 1
      /\ Rearranged(items, promised)
  BY <1>1, <1>2 DEF Kept, KeptBy, Whole
<1>4. Ascending(items, 0, count - 1)
  BY <1>2, <1>3, ReturnAscending DEF At
<1> DEFINE s == promised  t == Contents'
<1>5. t = [i \in 1 .. count |-> items[i - 1]] /\ \A i \in 1 .. count : t[i] = items[i - 1]
  BY <1>1, <1>2, ContentsAfter
<1>6. PICK place \in Bijection(1 .. Len(s), 1 .. Len(s)) :
        \A i \in 1 .. Len(s) : items[i - 1] = s[place[i]]
  BY <1>3 DEF Rearranged
<1>7. count \in Nat /\ DOMAIN s = 1 .. count /\ s \in Seq(Int)
  <2>1. count \in Nat /\ Item \subseteq Int
    BY ItemsAreNumbers DEF Typed
  <2>2. DOMAIN s = 1 .. count /\ \A i \in 1 .. count : s[i] \in Item
    BY <1>3, <2>1
  <2>3. \A i \in 1 .. count : s[i] \in Int
    BY <2>1, <2>2
  <2>4. s = [i \in 1 .. count |-> s[i]]
    BY <1>3, <2>2
  <2> HIDE DEF s
  <2> QED
    BY <2>1, <2>2, <2>3, <2>4
<1>8. place \in Bijection(DOMAIN s, DOMAIN s)
  BY <1>3, <1>6, <1>7
<1> HIDE DEF s, t
<1>9. t = [i \in DOMAIN s |-> s[place[i]]]
  <2>1. \A i \in 1 .. count : items[i - 1] = s[place[i]]
    BY <1>3, <1>6 DEF s
  <2> QED
    BY <1>5, <1>7, <2>1
<1>10. ASSUME NEW i \in DOMAIN s, NEW j \in DOMAIN s, i <= j
       PROVE  t[i] <= t[j]
  <2>1. i - 1 \in 0 .. count - 1 /\ j - 1 \in 0 .. count - 1 /\ i - 1 <= j - 1
    BY <1>7, <1>10
  <2>2. items[i - 1] <= items[j - 1]
    BY <1>4, <2>1 DEF Ascending
  <2> QED
    BY <1>5, <1>7, <2>2
<1>11. t \in InOrder(s)
  BY <1>8, <1>9, <1>10 DEF InOrder
<1>12. promised' \in InOrder(s)
  BY DEF s
<1>13. t = promised'
  BY <1>7, <1>11, <1>12, OneOrder
<1> QED
  BY <1>13 DEF t

LEMMA StepPromised ==
    ASSUME Typed, Typed', SortedBy(items, frames), Kept, ItemsAsPromised, [Next]_vars
    PROVE  ItemsAsPromised'
<1>1. \A index \in 0 .. MaxCapacity - 1 : index \in Nat
  BY DynArrayAssumption
<1>2. /\ Contents \in Seq(Item) /\ Len(Contents) = count /\ count \in Nat
      /\ \A index \in 0 .. count : index \in Nat
  BY ContentsAre
<1>3. Idle => Contents = promised
  BY DEF ItemsAsPromised
<1>4. ASSUME NEW v \in Values, ArrayAppend(v), promised' = Append(promised, v)
      PROVE  Contents' = promised'
  <2>1. Idle /\ ArrayAssign(count, v) /\ v \in Item
    BY <1>4 DEF ArrayAppend, ArrayAssign, Item
  <2>2. Contents' = Assigned(Contents, count, v, items')
    BY <1>2, <2>1, AssignKeepsPromise
  <2>3. Assigned(Contents, Len(Contents), v, items') = Append(Contents, v)
    BY <1>2, <2>1, AtTheEnd
  <2> QED
    BY <1>2, <1>3, <1>4, <2>1, <2>2, <2>3
<1>5. ASSUME NEW v \in Values, ArraySortInsert(v),
             promised' = IF comparing THEN Inserted(promised, 0, v) ELSE Append(promised, v)
      PROVE  Contents' = promised'
  <2>1. Idle
    BY <1>5 DEF ArraySortInsert, ArrayInsert, ArrayAssign
  <2> QED
    BY <1>3, <1>5, <2>1, SortInsertKeepsPromise
<1>6. ASSUME NEW v \in Values, NEW index \in 0 .. MaxCapacity - 1,
             ArrayAssign(index, v), promised' = Assigned(promised, index, v, items')
      PROVE  Contents' = promised'
  <2>1. Idle
    BY <1>6 DEF ArrayAssign
  <2> QED
    BY <1>1, <1>3, <1>6, <2>1, AssignKeepsPromise
<1>7. ASSUME NEW v \in Values, NEW index \in 0 .. MaxCapacity - 1, ArrayInsert(index, v),
             promised' = IF index < Len(promised) THEN Inserted(promised, index, v)
                         ELSE Assigned(promised, index, v, items')
      PROVE  Contents' = promised'
  <2>1. Idle
    BY <1>7 DEF ArrayInsert, ArrayAssign
  <2>2. Contents' = IF index < count THEN Inserted(Contents, index, v)
                    ELSE Assigned(Contents, index, v, items')
    BY <1>1, <1>7, InsertKeepsPromise
  <2> QED
    BY <1>2, <1>3, <1>7, <2>1, <2>2
<1>8. ASSUME NEW index \in 0 .. count - 1,
             \/ ArrayErase(index) /\ promised' = Erased(promised, index)
             \/ ArrayRemove(index) /\ promised' = Removed(promised, index)
      PROVE  Contents' = promised'
  <2>1. Idle
    BY <1>8 DEF ArrayErase, ArrayRemove
  <2> QED
    BY <1>3, <1>8, <2>1, EraseKeepsPromise, RemoveKeepsPromise
<1>9. CASE \/ ArrayPop /\ promised' = Front(promised)
           \/ ArrayClear /\ promised' = <<>>
  <2>1. Idle
    BY <1>9 DEF ArrayPop, ArrayClear
  <2> QED
    BY <1>3, <1>9, <2>1, PopKeepsPromise, ClearKeepsPromise DEF ItemsAsPromised
<1>10. CASE ArraySort
  BY <1>10 DEF ArraySort, ItemsAsPromised, Idle
<1>11. CASE Sorting
  <2>1. CASE frames' = <<>>
    BY <1>11, <2>1, SortKeepsPromise DEF Sorting, ItemsAsPromised
  <2>2. CASE frames' # <<>>
    BY <2>2 DEF ItemsAsPromised, Idle
  <2> QED
    BY <2>1, <2>2
<1>12. CASE UNCHANGED vars
  BY <1>3, <1>12 DEF vars, Contents, Idle, ItemsAsPromised
<1>13. Contents' = promised' => ItemsAsPromised'
  BY DEF ItemsAsPromised
<1> QED
  BY <1>4, <1>5, <1>6, <1>7, <1>8, <1>9, <1>10, <1>11, <1>12, <1>13 DEF Next

\* For any items, capacities and calls: each call of the array of ds_array.c, and the
\* sort of ds_base.c with all its recursive calls, leaves the contents that the call
\* promises of those it found.  No item is lost or doubled when the buffer grows, when
\* items move, nor in the hole of the sort.
THEOREM CallsKeepPromises == Spec => []ItemsAsPromised
<1> DEFINE Inv == Typed /\ SortedBy(items, frames) /\ Kept /\ ItemsAsPromised
<1>1. Init => Inv
  <2> SUFFICES ASSUME Init
               PROVE  Inv
    OBVIOUS
  <2>1. Typed /\ frames = <<>> /\ count = 0 /\ promised = <<>>
    BY InitTyped DEF Init
  <2>2. SortedBy(items, frames) /\ Kept
    BY <2>1 DEF SortedBy, Kept, KeptBy
  <2>3. Contents = <<>>
    BY <2>1 DEF Contents
  <2> QED
    BY <2>1, <2>2, <2>3 DEF ItemsAsPromised
<1>2. Inv /\ [Next]_vars => Inv'
  <2> SUFFICES ASSUME Inv, [Next]_vars
               PROVE  Inv'
    OBVIOUS
  <2>1. Typed' /\ SortedBy(items', frames') /\ Kept'
    BY StepTyped, StepSorted, StepKept
  <2> QED
    BY <2>1, StepPromised
<1>3. Inv => ItemsAsPromised
  OBVIOUS
<1> QED
  BY <1>1, <1>2, <1>3, PTL DEF Spec

=============================================================================
