------------------------ MODULE CircularQueue_proofs ------------------------
(***************************************************************************)
(* The circular queue is a first-in-first-out queue, for all items and all *)
(* capacities: the refinement of FifoQueue.                                *)
(***************************************************************************)
EXTENDS CircularQueue, SequenceTheorems, TLAPS

\* The head and the tail of a queue, without its items.
LEMMA RingFields ==
    ASSUME NEW q, RingOK(q)
    PROVE  /\ q.capacity \in Nat \ {0}
           /\ q.head \in 0 .. q.capacity - 1
           /\ q.tail \in 0 .. q.capacity - 1
           /\ q.items \in [0 .. q.capacity - 1 -> Values \cup {Garbage}]
BY DEF RingOK

LEMMA MakeRing ==
    ASSUME NEW c \in Nat \ {0}, NEW h \in 0 .. c - 1, NEW t \in 0 .. c - 1,
           NEW f \in [0 .. c - 1 -> Values \cup {Garbage}]
    PROVE  RingOK(Ring(c, h, t, f))
BY DEF RingOK, Ring

\* The length leaves a slot free, and the items are in slots other than the tail.
LEMMA RingGeometry ==
    ASSUME NEW q, RingOK(q)
    PROVE  /\ Length(q) \in 0 .. q.capacity - 1
           /\ Length(q) = 0 <=> q.head = q.tail
           /\ \A i \in 0 .. Length(q) - 1 :
                SlotAt(q, i) \in 0 .. q.capacity - 1 /\ SlotAt(q, i) # q.tail
           /\ SlotAt(q, 0) = q.head
           /\ SlotAt(q, Length(q)) = q.tail
<1>1. /\ q.capacity \in Nat \ {0}
      /\ q.head \in 0 .. q.capacity - 1
      /\ q.tail \in 0 .. q.capacity - 1
  BY RingFields
<1> QED
  BY <1>1 DEF Length, SlotAt

LEMMA ContentsFacts ==
    ASSUME NEW q, RingOK(q)
    PROVE  /\ Contents(q) \in Seq(Values \cup {Garbage})
           /\ Len(Contents(q)) = Length(q)
           /\ \A i \in 1 .. Length(q) : Contents(q)[i] = q.items[SlotAt(q, i - 1)]
<1>1. Length(q) \in Nat
  BY RingFields, RingGeometry
<1>2. \A i \in 1 .. Length(q) : i - 1 \in 0 .. Length(q) - 1
  BY <1>1
<1>3. \A i \in 1 .. Length(q) : q.items[SlotAt(q, i - 1)] \in Values \cup {Garbage}
  BY <1>2, RingFields, RingGeometry
<1>4. Contents(q) \in [1 .. Length(q) -> Values \cup {Garbage}]
  BY <1>3 DEF Contents
<1> QED
  BY <1>1, <1>4 DEF Contents

\* Two queues with as many items, the same in each place, have the same contents.
LEMMA SameContents ==
    ASSUME NEW q, NEW r, Length(q) = Length(r),
           \A i \in 0 .. Length(q) - 1 : q.items[SlotAt(q, i)] = r.items[SlotAt(r, i)],
           Length(q) \in Nat
    PROVE  Contents(q) = Contents(r)
<1>1. \A i \in 1 .. Length(q) : q.items[SlotAt(q, i - 1)] = r.items[SlotAt(r, i - 1)]
  OBVIOUS
<1> QED
  BY <1>1 DEF Contents

-----------------------------------------------------------------------------

\* Expanding a queue keeps its items in their order and makes room for more.
LEMMA ExpandedKeeps ==
    ASSUME NEW q, RingOK(q)
    PROVE  /\ RingOK(Expanded(q))
           /\ Contents(Expanded(q)) = Contents(q)
           /\ Length(Expanded(q)) = Length(q)
           /\ Length(q) + 1 < Expanded(q).capacity
<1> DEFINE c == q.capacity
           h == q.head
           t == q.tail
           f == q.items
           r == Expanded(q)
<1>1. c \in Nat \ {0} /\ h \in 0 .. c - 1 /\ t \in 0 .. c - 1
  BY RingFields
<1>2. r.capacity = 2 * c /\ r.head = h /\ r.tail = IF t < h THEN t + c ELSE t
  BY DEF Expanded, Ring
<1>3. \A i \in 0 .. 2 * c - 1 :
        r.items[i] = IF i < c THEN f[i]
                     ELSE IF t < h /\ i - c < t THEN f[i - c]
                     ELSE Garbage
  BY DEF Expanded, Ring
<1>4. RingOK(r)
  <2>1. r.capacity \in Nat \ {0} /\ r.head \in 0 .. r.capacity - 1 /\ r.tail \in 0 .. r.capacity - 1
    BY <1>1, <1>2
  <2>2. \A i \in 0 .. 2 * c - 1 : i < c => i \in 0 .. c - 1
    BY <1>1
  <2>3. \A i \in 0 .. 2 * c - 1 : ~(i < c) => i - c \in 0 .. c - 1
    BY <1>1
  <2>4. \A i \in 0 .. 2 * c - 1 : r.items[i] \in Values \cup {Garbage}
    BY <1>3, <2>2, <2>3, RingFields
  <2>5. r.items \in [0 .. 2 * c - 1 -> Values \cup {Garbage}]
    BY <2>4 DEF Expanded, Ring
  <2>6. r = Ring(r.capacity, r.head, r.tail, r.items)
    BY DEF Expanded, Ring
  <2> QED
    BY <1>2, <2>1, <2>5, <2>6 DEF RingOK
<1>5. Length(r) = Length(q)
  BY <1>1, <1>2 DEF Length
<1>6. Length(q) + 1 < r.capacity
  BY <1>1, <1>2 DEF Length
<1>7. \A i \in 0 .. Length(q) - 1 :
        /\ SlotAt(r, i) = h + i /\ h + i \in 0 .. 2 * c - 1
        /\ h + i < c => SlotAt(q, i) = h + i
        /\ ~(h + i < c) => SlotAt(q, i) = (h + i) - c /\ t < h /\ (h + i) - c < t
  BY <1>1, <1>2 DEF Length, SlotAt
<1>8. \A i \in 0 .. Length(q) - 1 : q.items[SlotAt(q, i)] = r.items[SlotAt(r, i)]
  BY <1>3, <1>7
<1>9. Length(q) \in Nat
  BY RingFields, RingGeometry
<1> QED
  BY <1>4, <1>5, <1>6, <1>8, <1>9, SameContents

\* What push does to a queue with room: the item goes to the tail, which moves on.
Stored(q, v) == Ring(q.capacity, q.head, Circular(q, q.tail + 1), [q.items EXCEPT ![q.tail] = v])

LEMMA StoredAppends ==
    ASSUME NEW q, RingOK(q), Length(q) + 1 < q.capacity, NEW v \in Values
    PROVE  /\ RingOK(Stored(q, v))
           /\ Contents(Stored(q, v)) = Append(Contents(q), v)
           /\ Length(Stored(q, v)) = Length(q) + 1
           /\ Stored(q, v).head = q.head /\ Stored(q, v).capacity = q.capacity
           /\ \A i \in 0 .. q.capacity - 1 :
                i # q.tail => Stored(q, v).items[i] = q.items[i]
<1> DEFINE c == q.capacity
           h == q.head
           t == q.tail
           f == q.items
           r == Stored(q, v)
           n == Length(q)
<1>1. c \in Nat \ {0} /\ h \in 0 .. c - 1 /\ t \in 0 .. c - 1 /\ n \in Nat
  BY RingFields, RingGeometry
<1>4. /\ r.capacity = c /\ r.head = h /\ r.tail = IF t + 1 >= c THEN 0 ELSE t + 1
      /\ r.items = [f EXCEPT ![t] = v]
  BY DEF Stored, Ring, Circular
<1>5. RingOK(r)
  <2>1. r.tail \in 0 .. c - 1
    BY <1>1, <1>4
  <2>2. r.items \in [0 .. c - 1 -> Values \cup {Garbage}]
    BY <1>4, RingFields
  <2>3. r = Ring(c, h, r.tail, r.items)
    BY DEF Stored, Ring
  <2>4. RingOK(Ring(c, h, r.tail, r.items))
    <3> HIDE DEF r
    <3> QED
      BY <1>1, <2>1, <2>2, MakeRing
  <2> QED
    BY <2>3, <2>4
<1>6. Length(r) = n + 1
  BY <1>1, <1>4 DEF Length
<1>7. \A i \in 0 .. n : SlotAt(r, i) = SlotAt(q, i)
  BY <1>4 DEF SlotAt
<1>8. \A i \in 0 .. n - 1 : SlotAt(q, i) \in 0 .. c - 1 /\ SlotAt(q, i) # t
  BY RingGeometry
<1>9. SlotAt(q, n) = t
  BY RingGeometry
<1>10. \A i \in 0 .. c - 1 : r.items[i] = IF i = t THEN v ELSE f[i]
  BY <1>1, <1>4, RingFields
<1>11. Contents(r) = Append(Contents(q), v)
  <2>1. Contents(r) \in Seq(Values \cup {Garbage}) /\ Len(Contents(r)) = n + 1
    BY <1>5, <1>6, ContentsFacts
  <2>2. Contents(q) \in Seq(Values \cup {Garbage}) /\ Len(Contents(q)) = n
    BY ContentsFacts
  <2>3. ASSUME NEW i \in 1 .. n + 1
        PROVE  Contents(r)[i] = Append(Contents(q), v)[i]
    <3>1. Contents(r)[i] = r.items[SlotAt(q, i - 1)] /\ i - 1 \in 0 .. n
      <4>1. i - 1 \in 0 .. n
        BY <1>1
      <4> QED
        BY <1>5, <1>6, <1>7, <4>1, ContentsFacts
    <3>2. CASE i = n + 1
      <4>1. Contents(r)[i] = v
        BY <1>1, <1>9, <1>10, <3>1, <3>2
      <4>2. Append(Contents(q), v)[i] = v
        BY <2>2, <3>2
      <4> QED
        BY <4>1, <4>2
    <3>3. CASE i # n + 1
      <4>1. i \in 1 .. n /\ i - 1 \in 0 .. n - 1
        BY <1>1, <3>3
      <4>2. Contents(r)[i] = f[SlotAt(q, i - 1)]
        BY <1>8, <1>10, <3>1, <4>1
      <4>3. Contents(q)[i] = f[SlotAt(q, i - 1)]
        BY <4>1, ContentsFacts
      <4>4. Append(Contents(q), v)[i] = Contents(q)[i]
        BY <2>2, <4>1
      <4> QED
        BY <4>2, <4>3, <4>4
    <3> QED
      BY <3>2, <3>3
  <2>4. /\ Append(Contents(q), v) \in Seq(Values \cup {Garbage})
        /\ Len(Append(Contents(q), v)) = n + 1
    BY <2>2
  <2> QED
    BY <2>1, <2>3, <2>4, SeqEqual
<1> QED
  BY <1>4, <1>5, <1>6, <1>10, <1>11

\* push, with or without an expansion.
LEMMA PushedAppends ==
    ASSUME NEW q, RingOK(q), NEW v \in Values
    PROVE  /\ RingOK(Pushed(q, v))
           /\ Contents(Pushed(q, v)) = Append(Contents(q), v)
           /\ ~Full(q) => Pushed(q, v) = Stored(q, v) /\ Length(q) + 1 < q.capacity
<1>1. CASE Full(q)
  <2>1. Pushed(q, v) = Stored(Expanded(q), v)
    BY <1>1 DEF Pushed, Stored
  <2>2. /\ RingOK(Expanded(q)) /\ Contents(Expanded(q)) = Contents(q)
        /\ Length(Expanded(q)) + 1 < Expanded(q).capacity
    BY ExpandedKeeps
  <2> QED
    BY <1>1, <2>1, <2>2, StoredAppends
<1>2. CASE ~Full(q)
  <2>1. Pushed(q, v) = Stored(q, v)
    BY <1>2 DEF Pushed, Stored
  <2>2. Length(q) + 1 < q.capacity
    BY <1>2, RingFields, RingGeometry DEF Full
  <2> QED
    BY <1>2, <2>1, <2>2, StoredAppends
<1> QED
  BY <1>1, <1>2

\* shift takes the first item.
LEMMA ShiftedTakes ==
    ASSUME NEW q, RingOK(q), q.head # q.tail
    PROVE  /\ RingOK(Shifted(q))
           /\ Shifted(q).capacity = q.capacity /\ Shifted(q).items = q.items
           /\ Shifted(q).head = Circular(q, q.head + 1)
           /\ Contents(q) # <<>>
           /\ Contents(Shifted(q)) = Tail(Contents(q))
           /\ q.items[q.head] = Head(Contents(q))
<1> DEFINE c == q.capacity
           h == q.head
           t == q.tail
           f == q.items
           r == Shifted(q)
           n == Length(q)
<1>1. c \in Nat \ {0} /\ h \in 0 .. c - 1 /\ t \in 0 .. c - 1 /\ n \in Nat \ {0}
  BY RingFields, RingGeometry
<1>4. /\ r.capacity = c /\ r.tail = t /\ r.items = f
      /\ r.head = Circular(q, h + 1) /\ r.head = IF h + 1 >= c THEN 0 ELSE h + 1
  BY DEF Shifted, Ring, Circular
<1>5. RingOK(r)
  <2>1. Circular(q, h + 1) \in 0 .. c - 1
    BY <1>1 DEF Circular
  <2>2. RingOK(Ring(c, Circular(q, h + 1), t, f))
    BY <1>1, <2>1, RingFields, MakeRing
  <2> QED
    BY <2>2 DEF Shifted
<1>6. Length(r) = n - 1
  BY <1>1, <1>4 DEF Length
<1>7. \A i \in 0 .. n - 2 : SlotAt(r, i) = SlotAt(q, i + 1)
  BY <1>1, <1>4 DEF SlotAt, Length
<1>8. Contents(q) \in Seq(Values \cup {Garbage}) /\ Len(Contents(q)) = n
  BY ContentsFacts
<1>9. Contents(r) \in Seq(Values \cup {Garbage}) /\ Len(Contents(r)) = n - 1
  BY <1>5, <1>6, ContentsFacts
<1>10. Contents(q) # <<>>
  BY <1>1, <1>8
<1>11. Tail(Contents(q)) \in Seq(Values \cup {Garbage}) /\ Len(Tail(Contents(q))) = n - 1
  BY <1>8, <1>10
<1>12. ASSUME NEW i \in 1 .. n - 1
       PROVE  Contents(r)[i] = Tail(Contents(q))[i]
  <2>1. i - 1 \in 0 .. n - 2 /\ i + 1 \in 1 .. n /\ (i - 1) + 1 = (i + 1) - 1
    BY <1>1
  <2>2. Contents(r)[i] = f[SlotAt(q, (i + 1) - 1)]
    <3>1. Contents(r)[i] = r.items[SlotAt(r, i - 1)]
      BY <1>5, <1>6, ContentsFacts
    <3>2. SlotAt(r, i - 1) = SlotAt(q, (i - 1) + 1)
      BY <1>7, <2>1
    <3> QED
      BY <1>4, <2>1, <3>1, <3>2
  <2>3. Contents(q)[i + 1] = f[SlotAt(q, (i + 1) - 1)]
    BY <2>1, ContentsFacts
  <2>4. Tail(Contents(q))[i] = Contents(q)[i + 1]
    BY <1>8, <1>10, <2>1
  <2> QED
    BY <2>2, <2>3, <2>4
<1>13. Contents(r) = Tail(Contents(q))
  BY <1>9, <1>11, <1>12, SeqEqual
<1>14. f[h] = Head(Contents(q))
  <2>1. 1 \in 1 .. n /\ 1 - 1 = 0
    BY <1>1
  <2>2. Contents(q)[1] = f[SlotAt(q, 0)]
    <3>1. Contents(q)[1] = f[SlotAt(q, 1 - 1)]
      BY <2>1, ContentsFacts
    <3> QED
      BY <3>1
  <2>3. SlotAt(q, 0) = h
    BY RingGeometry
  <2>4. Head(Contents(q)) = Contents(q)[1]
    BY <1>8, <1>10
  <2> QED
    BY <2>2, <2>3, <2>4
<1> QED
  BY <1>4, <1>5, <1>10, <1>13, <1>14

\* an empty queue: nothing is left, and where the head is does not matter.
LEMMA EmptyContents ==
    ASSUME NEW q, RingOK(q), q.head = q.tail
    PROVE  Contents(q) = <<>>
<1>1. Length(q) = 0
  BY RingFields, RingGeometry
<1>2. Contents(q) \in Seq(Values \cup {Garbage}) /\ Len(Contents(q)) = 0
  BY <1>1, ContentsFacts
<1> QED
  BY <1>2

-----------------------------------------------------------------------------

\* Every slot between head and tail holds an item that was pushed, and the slot
\* that shift has returned is the one behind the head, where no push writes.
QueueInv ==
    /\ TypeOK
    /\ Contents(queue) \in Seq(Values)
    /\ slot # None => Circular(queue, slot + 1) = queue.head /\ queue.items[slot] = returned

LEMMA InitQueue == Init => QueueInv /\ Contents(queue) = <<>>
<1> SUFFICES ASSUME Init PROVE QueueInv /\ Contents(queue) = <<>>
  OBVIOUS
<1>1. PICK capacity \in Capacities : queue = Create(capacity)
  BY DEF Init
<1>2. RingOK(queue) /\ queue.head = queue.tail
  <2> DEFINE size == IF capacity > 0 THEN capacity ELSE 8
             empty == [i \in 0 .. size - 1 |-> Garbage]
  <2>1. queue = Ring(size, 0, 0, empty)
    BY <1>1 DEF Create
  <2>2. size \in Nat \ {0} /\ empty \in [0 .. size - 1 -> Values \cup {Garbage}]
    BY CapacityAssumption
  <2>3. RingOK(Ring(size, 0, 0, empty))
    <3> HIDE DEF size, empty
    <3> QED
      BY <2>2, MakeRing
  <2> QED
    BY <2>1, <2>3 DEF Ring
<1>3. Contents(queue) = <<>>
  BY <1>2, EmptyContents
<1> QED
  BY <1>2, <1>3 DEF Init, QueueInv, TypeOK

LEMMA PushStep ==
    ASSUME QueueInv, NEW v \in Values, Push(v)
    PROVE  QueueInv' /\ Contents(queue') = Append(Contents(queue), v)
<1>1. RingOK(queue) /\ queue' = Pushed(queue, v)
  BY DEF QueueInv, TypeOK, Push
<1>2. RingOK(queue') /\ Contents(queue') = Append(Contents(queue), v)
  BY <1>1, PushedAppends
<1>3. Contents(queue') \in Seq(Values)
  BY <1>2 DEF QueueInv
<1>4. CASE Full(queue)
  BY <1>2, <1>3, <1>4 DEF Push, QueueInv, TypeOK
<1>5. CASE ~Full(queue)
  <2>1. queue' = Stored(queue, v) /\ Length(queue) + 1 < queue.capacity
    BY <1>1, <1>5, PushedAppends
  <2>2. /\ queue'.head = queue.head /\ queue'.capacity = queue.capacity
        /\ \A i \in 0 .. queue.capacity - 1 : i # queue.tail => queue'.items[i] = queue.items[i]
    BY <1>1, <2>1, StoredAppends
  <2>3. slot' = slot /\ returned' = returned
    BY <1>5 DEF Push
  <2>4. ASSUME slot # None
        PROVE  Circular(queue, slot + 1)' = queue'.head /\ queue'.items[slot] = returned
    <3>1. slot \in 0 .. queue.capacity - 1 /\ Circular(queue, slot + 1) = queue.head
      BY <2>4 DEF QueueInv, TypeOK
    <3>2. slot # queue.tail
      BY <1>1, <2>1, <3>1, RingFields DEF Length, Circular
    <3>3. Circular(queue, slot + 1)' = queue'.head
      BY <2>2, <2>3, <3>1 DEF Circular
    <3> QED
      BY <2>2, <2>4, <3>1, <3>2, <3>3 DEF QueueInv
  <2> QED
    BY <1>2, <1>3, <2>2, <2>3, <2>4 DEF QueueInv, TypeOK
<1> QED
  BY <1>2, <1>4, <1>5

LEMMA ShiftStep ==
    ASSUME QueueInv, Shift
    PROVE  /\ QueueInv'
           /\ \/ /\ Contents(queue) # <<>>
                 /\ returned' = Head(Contents(queue))
                 /\ Contents(queue') = Tail(Contents(queue))
              \/ /\ Contents(queue) = <<>>
                 /\ returned' = None
                 /\ Contents(queue') = Contents(queue)
<1>1. RingOK(queue)
  BY DEF QueueInv, TypeOK
<1>2. CASE queue.head # queue.tail
  <2>1. /\ queue' = Shifted(queue) /\ slot' = queue.head
        /\ returned' = queue.items[queue.head]
    BY <1>2 DEF Shift
  <2>2. /\ RingOK(queue') /\ Contents(queue) # <<>>
        /\ Contents(queue') = Tail(Contents(queue))
        /\ returned' = Head(Contents(queue))
    BY <1>1, <1>2, <2>1, ShiftedTakes
  <2>3. /\ queue'.capacity = queue.capacity /\ queue'.items = queue.items
        /\ queue'.head = Circular(queue, queue.head + 1)
    BY <1>1, <1>2, <2>1, ShiftedTakes
  <2>4. Contents(queue') \in Seq(Values) /\ returned' \in Values
    BY <2>2 DEF QueueInv
  <2>5. slot' \in 0 .. queue'.capacity - 1
    BY <1>1, <2>1, <2>3, RingFields
  <2>6. Circular(queue, slot + 1)' = queue'.head /\ queue'.items[slot'] = returned'
    BY <2>1, <2>3 DEF Circular
  <2> QED
    BY <2>2, <2>4, <2>5, <2>6 DEF QueueInv, TypeOK
<1>3. CASE queue.head = queue.tail
  <2>1. UNCHANGED queue /\ returned' = None /\ slot' = None
    BY <1>3 DEF Shift
  <2>2. Contents(queue) = <<>>
    BY <1>1, <1>3, EmptyContents
  <2> QED
    BY <1>1, <2>1, <2>2 DEF QueueInv, TypeOK
<1> QED
  BY <1>2, <1>3

LEMMA ClearStep ==
    ASSUME QueueInv, Clear
    PROVE  QueueInv' /\ Contents(queue') = <<>>
<1>1. /\ queue.capacity \in Nat \ {0}
      /\ queue.items \in [0 .. queue.capacity - 1 -> Values \cup {Garbage}]
  BY RingFields DEF QueueInv, TypeOK
<1>2. queue' = Ring(queue.capacity, 0, 0, queue.items) /\ slot' = None /\ returned' = returned
  BY DEF Clear
<1>3. RingOK(queue') /\ queue'.head = queue'.tail
  <2>1. RingOK(Ring(queue.capacity, 0, 0, queue.items))
    BY <1>1, MakeRing
  <2> QED
    BY <1>2, <2>1 DEF Ring
<1>4. Contents(queue') = <<>>
  BY <1>3, EmptyContents
<1>5. TypeOK'
  BY <1>2, <1>3 DEF QueueInv, TypeOK
<1>6. Contents(queue') \in Seq(Values)
  BY <1>4
<1> QED
  BY <1>2, <1>4, <1>5, <1>6 DEF QueueInv

LEMMA NextKeepsQueue ==
    ASSUME QueueInv, [Next]_vars
    PROVE  QueueInv' /\ [Fifo!Next]_<<Contents(queue), returned>>
<1>1. ASSUME NEW v \in Values, Push(v)
      PROVE  QueueInv' /\ Fifo!Push(v)
  BY <1>1, PushStep DEF Push, Fifo!Push
<1>2. CASE Shift
  BY <1>2, ShiftStep DEF Fifo!Next, Fifo!Shift
<1>3. CASE Clear
  BY <1>3, ClearStep DEF Clear, Fifo!Next, Fifo!Clear
<1>4. CASE Copy \/ UNCHANGED vars
  BY <1>4 DEF Copy, vars, QueueInv, TypeOK
<1> QED
  BY <1>1, <1>2, <1>3, <1>4 DEF Next, Fifo!Next

\* For all items and capacities and any sequence of operations, what a client
\* sees of the circular queue is what it would see of a first-in-first-out queue.
THEOREM QueueIsFifo == Spec => FifoSpec
<1>1. Init => QueueInv /\ Fifo!Init
  BY InitQueue DEF Init, Fifo!Init
<1>2. QueueInv /\ [Next]_vars => QueueInv' /\ [Fifo!Next]_<<Contents(queue), returned>>
  BY NextKeepsQueue
<1> QED
  BY <1>1, <1>2, PTL DEF Spec, FifoSpec, Fifo!Spec

\* What shift returned stays in its slot until the next shift, clear or expansion.
THEOREM ShiftedItemStays == Spec => []ReturnedIntact
<1>1. Init => QueueInv
  BY InitQueue
<1>2. QueueInv /\ [Next]_vars => QueueInv'
  BY NextKeepsQueue
<1>3. QueueInv => ReturnedIntact
  BY DEF QueueInv, ReturnedIntact
<1> QED
  BY <1>1, <1>2, <1>3, PTL DEF Spec

\* The type invariant of the queue.
THEOREM QueueTypeCorrect == Spec => []TypeOK
<1>1. Init => QueueInv
  BY InitQueue
<1>2. QueueInv /\ [Next]_vars => QueueInv'
  BY NextKeepsQueue
<1>3. QueueInv => TypeOK
  BY DEF QueueInv
<1> QED
  BY <1>1, <1>2, <1>3, PTL DEF Spec

=============================================================================
