-------------------------- MODULE Containers_proofs --------------------------
(***************************************************************************)
(* The containers that exist on a chain table and on an array or a ring,   *)
(* for any number of nodes and any data: the chain as a program uses it,   *)
(* with what its calls promise of the items, the stacks as LifoStack, and  *)
(* what the two kinds of each have in common.                              *)
(***************************************************************************)
EXTENDS Containers, ChainTable_proofs

-----------------------------------------------------------------------------
(* The uses of the chain.                                                  *)

\* Whatever the chain is used as, a step of the program is a step of the chain.
LEMMA UsesOfTheChain ==
    ASSUME ChainInv, [ContainersNext]_containerVars
    PROVE  ChainStep
<1>1. Len(Path) \in Nat /\ Chained \subseteq Nodes
  BY HeapPaths, LenProperties DEF ChainInv
<1>2. \A v \in Values : ChainAppend(v) => ChainStep
  BY DEF ChainStep, Next
<1>3. \A v \in Values : ChainInsert(Null, v) => ChainStep
  BY DEF ChainStep, Next
<1>4. ChainShift => ChainStep
  BY DEF ChainStep, Next
<1>5. ChainClear => ChainStep
  BY DEF ChainStep, Next
<1>6. UNCHANGED chain => ChainStep
  BY DEF ChainStep, chain
<1>7. ASSUME Destroy PROVE ChainStep
  BY <1>7 DEF Destroy, ChainStep, Next
<1>8. ASSUME StackNext PROVE ChainStep
  BY <1>3, <1>4, <1>5, <1>6, <1>8 DEF StackNext, StackPush, StackPop, StackClear
<1>9. ASSUME QueueNext PROVE ChainStep
  BY <1>2, <1>4, <1>5, <1>6, <1>9 DEF QueueNext, QueuePush, QueueShift, QueueClear
<1>10. ASSUME NEW v \in Values, NEW index \in 0 .. MaxCapacity - 1, SetInChain(index, v)
       PROVE  ChainStep
  <2>1. CASE index < Len(Path)
    <3>1. ChainAssign(NodeAt(index), v)
      BY <1>1, <1>10, <2>1 DEF SetInChain
    <3>2. NodeAt(index) \in Nodes
      BY <1>1, <3>1 DEF ChainAssign
    <3> QED
      BY <3>1, <3>2 DEF ChainStep, Next
  <2>2. CASE ~(index < Len(Path))
    <3> DEFINE gap == index - Len(Path)
    <3>1. gap \in Nat
      BY <1>1, <2>2
    <3>2. AppendAll([i \in 1 .. gap |-> 0] \o <<v>>)
      BY <1>1, <1>10, <2>2 DEF SetInChain
    <3> HIDE DEF gap
    <3> QED
      BY <3>1, <3>2 DEF ChainStep
  <2> QED
    BY <2>1, <2>2
<1>11. ASSUME ListNext PROVE ChainStep
  BY <1>2, <1>10, <1>11 DEF ListNext, ListAdd, ListSet
<1>12. ASSUME UNCHANGED containerVars PROVE ChainStep
  BY <1>6, <1>12 DEF containerVars
<1>13. ASSUME ChainNext PROVE ChainStep
  <2>1. Next
    BY <1>13 DEF ChainNext, Next
  <2> QED
    BY <2>1 DEF ChainStep
<1> QED
  BY <1>7, <1>8, <1>9, <1>11, <1>12, <1>13 DEF ContainersNext

LEMMA UseStays ==
    ASSUME [ContainersNext]_containerVars
    PROVE  use' = use
<1>1. CASE UNCHANGED containerVars
  BY <1>1 DEF containerVars
<1>2. CASE StackNext
  BY <1>2 DEF StackNext, StackPush, StackPop, StackClear
<1>3. CASE QueueNext
  BY <1>3 DEF QueueNext, QueuePush, QueueShift, QueueClear
<1>4. CASE ListNext
  BY <1>4 DEF ListNext, ListAdd, ListSet
<1>5. CASE Destroy
  BY <1>5 DEF Destroy
<1> QED
  BY <1>1, <1>2, <1>3, <1>4, <1>5 DEF ContainersNext

-----------------------------------------------------------------------------
(* The chain.                                                              *)

LEMMA ChainInitially == ContainersInit => ChainInv
BY InvInitially DEF ContainersInit

LEMMA ChainInvStep ==
    ASSUME MayRemoveOnly = FALSE, ChainInv, [ContainersNext]_containerVars
    PROVE  ChainInv'
BY UsesOfTheChain, InvStep

\* Head and tail are the ends of a chain that ends, in the chain and in its copy, and no
\* pointer is to a node that was freed, whatever the chain is used as and however many
\* nodes there are, unless ds_chain_remove is called for the only one.
THEOREM ChainIsWellFormed ==
    ASSUME MayRemoveOnly = FALSE
    PROVE  ContainersSpec => []TypeOK
<1>1. ContainersInit => ChainInv
  BY ChainInitially
<1>2. ChainInv /\ [ContainersNext]_containerVars => ChainInv'
  BY ChainInvStep
<1>3. ChainInv => TypeOK
  BY InvTyped
<1> QED
  BY <1>1, <1>2, <1>3, PTL DEF ContainersSpec

\* No node leaks and none is freed twice.
THEOREM NodesAreOwned ==
    ASSUME MayRemoveOnly = FALSE
    PROVE  ContainersSpec => []NoLeak
<1>1. ContainersInit => ChainInv
  BY ChainInitially
<1>2. ChainInv /\ [ContainersNext]_containerVars => ChainInv'
  BY ChainInvStep
<1>3. ChainInv => NoLeak
  BY InvNoLeak
<1> QED
  BY <1>1, <1>2, <1>3, PTL DEF ContainersSpec

\* A copy keeps the items that the chain had when it was made.
THEOREM CopyIsKept ==
    ASSUME MayRemoveOnly = FALSE
    PROVE  ContainersSpec => CopyStays
<1>1. ContainersInit => ChainInv
  BY ChainInitially
<1>2. ChainInv /\ [ContainersNext]_containerVars => ChainInv'
  BY ChainInvStep
<1>3. ChainInv /\ [ContainersNext]_containerVars =>
        [IF copy' = copy THEN CopyContents' = CopyContents
                         ELSE CopyContents' \in {<<>>, Contents}]_vars
  BY UsesOfTheChain, InvCopy
<1> QED
  BY <1>1, <1>2, <1>3, PTL DEF ContainersSpec, CopyStays

-----------------------------------------------------------------------------
(* What the uses of the chain do to its items.                             *)

\* The sequence u is s with v at the index, and 0 before it where s has nothing.
PutAt(u, s, index, v) ==
    /\ Len(u) = IF index < Len(s) THEN Len(s) ELSE index + 1
    /\ \A k \in 1 .. Len(u) :
         u[k] = IF k = index + 1 THEN v ELSE IF k <= Len(s) THEN s[k] ELSE 0

LEMMA InvAfter == ASSUME NEW p, NEW q, Heap(p, q)' PROVE ChainInv'
BY DEF Heap, Links, ChainInv

\* What a loop over the chain, and ds_chain_at, find.
ItemsOK ==
    /\ Contents \in Seq(Int) /\ Len(Contents) \in Nat /\ Len(Path) = Len(Contents)
    /\ Contents = <<>> <=> head = Null
    /\ \A i \in 0 .. Len(Contents) - 1 :
         NodeAt(i) # Null /\ data[NodeAt(i)] = Contents[i + 1]

LEMMA ItemsFacts == ASSUME ChainInv PROVE ItemsOK
<1>1. PICK p \in Seq(Nodes), q \in Seq(Nodes) : Heap(p, q)
  BY DEF ChainInv
<1>2. /\ Path = p /\ Contents = ItemsAt(data, p) /\ data \in [Nodes -> Int]
  BY <1>1, HeapPaths, HeapContents DEF Heap
<1>3. /\ Contents \in Seq(Int) /\ Len(Contents) = Len(p) /\ Len(p) \in Nat
      /\ \A i \in 1 .. Len(p) : Contents[i] = data[p[i]]
  BY <1>1, <1>2, ItemsAtFacts, LenProperties
<1>4. \A i \in 1 .. Len(p) : p[i] # Null
  BY <1>1, LinksFacts DEF Heap
<1>5. head = Null <=> p = <<>>
  BY <1>1, EmptyFacts DEF Heap
<1>6. Contents = <<>> <=> p = <<>>
  BY <1>1, <1>3, EmptySeq
<1>7. ASSUME NEW i \in 0 .. Len(p) - 1
      PROVE  NodeAt(i) # Null /\ data[NodeAt(i)] = Contents[i + 1]
  <2>1. i + 1 \in 1 .. Len(p) /\ i < Len(Path)
    BY <1>2, <1>3
  <2>2. NodeAt(i) = p[i + 1]
    BY <1>2, <2>1 DEF NodeAt
  <2> QED
    BY <1>3, <1>4, <2>1, <2>2
<1> QED
  BY <1>2, <1>3, <1>5, <1>6, <1>7 DEF ItemsOK

LEMMA ItemsAfter == ChainInv' => ItemsOK'
<1>1. ChainInv => ItemsOK
  BY ItemsFacts
<1> QED
  BY <1>1, PTL

\* An item comes in, at the head or behind the tail.
LEMMA InsertedItem ==
    ASSUME ChainInv, NEW v \in Int, NEW node, InsertAfter(node, v), NEW at,
           PlaceAfter(Path, node, at)
    PROVE  /\ ChainInv' /\ Extends(Contents', Contents, at, v)
           /\ Contents' = InsertAt(Contents, at, v)
<1>1. PICK p \in Seq(Nodes), q \in Seq(Nodes) : Heap(p, q)
  BY DEF ChainInv
<1>2. Path = p /\ Contents = ItemsAt(data, p)
  BY <1>1, HeapPaths, HeapContents
<1>3. PICK r : Heap(r, q)' /\ ItemsAt(data', r) = InsertAt(ItemsAt(data, p), at, v)
  BY <1>1, <1>2, InsertStep
<1>4. Contents' = InsertAt(Contents, at, v)
  BY <1>2, <1>3, ContentsAfter
<1>5. Contents \in Seq(Int) /\ at \in 1 .. Len(Contents) + 1
  BY ItemsFacts DEF ItemsOK, PlaceAfter
<1>6. Extends(InsertAt(Contents, at, v), Contents, at, v)
  BY <1>5, InsertAtInts
<1> QED
  BY <1>3, <1>4, <1>6, InvAfter

LEMMA PushedItem ==
    ASSUME ChainInv, NEW v \in Values, ChainInsert(Null, v)
    PROVE  ChainInv' /\ Extends(Contents', Contents, 1, v)
<1>1. v \in Int /\ InsertAfter(Null, v)
  BY ChainAssumption DEF ChainInsert
<1>2. PlaceAfter(Path, Null, 1)
  BY PlaceFacts, HeapPaths DEF ChainInv
<1> QED
  BY <1>1, <1>2, InsertedItem

LEMMA AddedItem ==
    ASSUME ChainInv, NEW v \in Values, ChainAppend(v)
    PROVE  ChainInv' /\ Contents' = Append(Contents, v)
<1>1. v \in Int /\ InsertAfter(tail, v)
  BY ChainAssumption DEF ChainAppend
<1>2. PlaceAfter(Path, tail, Len(Contents) + 1)
  BY PlaceFacts, HeapPaths, ItemsFacts DEF ChainInv, ItemsOK
<1>3. ChainInv' /\ Extends(Contents', Contents, Len(Contents) + 1, v)
  BY <1>1, <1>2, InsertedItem
<1>4. /\ Contents \in Seq(Int) /\ Len(Contents) \in Nat
      /\ Contents' \in Seq(Int) /\ Append(Contents, v) \in Seq(Int)
  BY <1>1, <1>3, ItemsFacts, ItemsAfter DEF ItemsOK
<1> DEFINE s == Contents  u == Contents'
<1> HIDE DEF s, u
<1>5. /\ s \in Seq(Int) /\ Len(s) \in Nat /\ Append(s, v) \in Seq(Int)
      /\ Len(Append(s, v)) = Len(s) + 1
      /\ \A k \in 1 .. Len(s) + 1 : Append(s, v)[k] = IF k <= Len(s) THEN s[k] ELSE v
  BY <1>1, <1>4, AppendProperties DEF s
<1>6. /\ u \in Seq(Int) /\ Len(u) = Len(s) + 1
      /\ \A k \in 1 .. Len(s) + 1 : u[k] = IF k < Len(s) + 1 THEN s[k] ELSE v
  BY <1>3, <1>4 DEF Extends, s, u
<1>7. \A k \in 1 .. Len(s) + 1 : u[k] = Append(s, v)[k]
  BY <1>5, <1>6
<1>8. u = Append(s, v)
  BY <1>5, <1>6, <1>7, SeqEqual
<1> QED
  BY <1>3, <1>8 DEF s, u

\* An item goes out.
LEMMA ShiftedItem ==
    ASSUME ChainInv, ChainShift
    PROVE  ChainInv' /\ Contents # <<>> /\ Contents' = Tail(Contents)
<1>1. PICK p \in Seq(Nodes), q \in Seq(Nodes) : Heap(p, q)
  BY DEF ChainInv
<1>2. Contents = ItemsAt(data, p) /\ data \in [Nodes -> Int]
  BY <1>1, HeapContents DEF Heap
<1>3. Heap(Tail(p), q)' /\ p # <<>> /\ data' = data
  BY <1>1, ShiftStep
<1>4. Contents' = ItemsAt(data', Tail(p))
  BY <1>3, ContentsAfter
<1>5. ItemsAt(data, p) # <<>> /\ ItemsAt(data, Tail(p)) = Tail(ItemsAt(data, p))
  BY <1>1, <1>2, <1>3, ItemsTail
<1> QED
  BY <1>2, <1>3, <1>4, <1>5, InvAfter

LEMMA ClearedItems ==
    ASSUME ChainInv, ChainClear
    PROVE  ChainInv' /\ Contents' = <<>>
<1>1. PICK p \in Seq(Nodes), q \in Seq(Nodes) : Heap(p, q)
  BY DEF ChainInv
<1>2. Heap(<<>>, q)'
  BY <1>1, ClearStep
<1>3. Contents' = ItemsAt(data', <<>>)
  BY <1>2, ContentsAfter
<1> QED
  BY <1>2, <1>3, NoItems, InvAfter

LEMMA DestroyedNode ==
    ASSUME ChainInv, NEW node, NodeDestroy(node)
    PROVE  ChainInv' /\ Contents' = Contents
<1>1. PICK p \in Seq(Nodes), q \in Seq(Nodes) : Heap(p, q)
  BY DEF ChainInv
<1>2. Heap(p, q)' /\ ItemsAt(data', p) = ItemsAt(data, p)
  BY <1>1, DestroyStep
<1> QED
  BY <1>1, <1>2, HeapContents, ContentsAfter, InvAfter

LEMMA SameChain ==
    ASSUME ChainInv, UNCHANGED chain
    PROVE  ChainInv' /\ Contents' = Contents
<1>1. PICK p \in Seq(Nodes), q \in Seq(Nodes) : Heap(p, q)
  BY DEF ChainInv
<1>2. Heap(p, q)' /\ data' = data
  BY <1>1 DEF Heap, chain, vars
<1> QED
  BY <1>1, <1>2, HeapContents, ContentsAfter, InvAfter

\* sm_list_set on a chain: over an item of it, or behind the last one.
LEMMA OverItem ==
    ASSUME ChainInv, NEW v \in Values, NEW index \in Nat, index < Len(Path),
           ChainAssign(NodeAt(index), v)
    PROVE  ChainInv' /\ PutAt(Contents', Contents, index, v)
<1>1. PICK p \in Seq(Nodes), q \in Seq(Nodes) : Heap(p, q)
  BY DEF ChainInv
<1>2. Path = p /\ Contents = ItemsAt(data, p) /\ v \in Int
  BY <1>1, HeapPaths, HeapContents, ChainAssumption
<1>3. NodeAt(index) = p[index + 1] /\ index + 1 \in 1 .. Len(p) /\ Len(p) \in Nat
  BY <1>1, <1>2, LenProperties DEF NodeAt
<1>4. PICK i \in 1 .. Len(p) :
         /\ p[i] = NodeAt(index)
         /\ ItemsAt(data', p) = [ItemsAt(data, p) EXCEPT ![i] = v]
  BY <1>1, <1>2, AssignStep
<1>5. Heap(p, q)'
  BY <1>1, <1>2, AssignStep
<1>6. i = index + 1
  BY <1>1, <1>3, <1>4, LinksFacts DEF Heap
<1> DEFINE s == Contents
<1>7. Contents' = [s EXCEPT ![index + 1] = v]
  BY <1>2, <1>4, <1>5, <1>6, ContentsAfter
<1>8. s \in Seq(Int) /\ Len(s) = Len(p)
  BY <1>2, ItemsFacts DEF ItemsOK
<1> HIDE DEF s
<1>9. PutAt([s EXCEPT ![index + 1] = v], s, index, v)
  <2> DEFINE t == [s EXCEPT ![index + 1] = v]
  <2>1. DOMAIN s = 1 .. Len(s) /\ \A k \in 1 .. Len(s) : s[k] \in Int
    BY <1>8, LenProperties, ElementOfSeq
  <2>2. t \in Seq(Int) /\ Len(t) = Len(s)
    BY <1>2, <1>3, <1>8, ExceptSeq
  <2>3. \A k \in 1 .. Len(s) : t[k] = IF k = index + 1 THEN v ELSE s[k]
    BY <2>1
  <2> HIDE DEF t
  <2>4. index < Len(s) /\ Len(s) \in Nat
    BY <1>3, <1>8
  <2>5. PutAt(t, s, index, v)
    BY <2>2, <2>3, <2>4 DEF PutAt
  <2> QED
    BY <2>5 DEF t
<1> QED
  BY <1>5, <1>7, <1>9, InvAfter DEF s

LEMMA BehindItems ==
    ASSUME ChainInv, NEW v \in Values, NEW index \in Nat, ~(index < Len(Path)),
           AppendAll([i \in 1 .. index - Len(Path) |-> 0] \o <<v>>)
    PROVE  ChainInv' /\ PutAt(Contents', Contents, index, v)
<1>1. PICK p \in Seq(Nodes), q \in Seq(Nodes) : Heap(p, q)
  BY DEF ChainInv
<1> DEFINE s == Contents  gap == index - Len(s)
           zeros == [i \in 1 .. gap |-> 0]  more == zeros \o <<v>>
<1>2. Contents = ItemsAt(data, p) /\ v \in Int
  BY <1>1, HeapContents, ChainAssumption
<1>3. s \in Seq(Int) /\ Len(s) \in Nat /\ Len(Path) = Len(s) /\ gap \in Nat
  BY ItemsFacts DEF ItemsOK
<1>4. AppendAll(more)
  BY <1>3
<1>5. s = ItemsAt(data, p)
  BY <1>2
<1>6. gap = index - Len(s)
  OBVIOUS
<1> HIDE DEF s, gap
<1>7. /\ zeros \in Seq(Int) /\ Len(zeros) = gap /\ \A k \in 1 .. gap : zeros[k] = 0
      /\ <<v>> \in Seq(Int) /\ Len(<<v>>) = 1 /\ <<v>>[1] = v
  BY <1>2, <1>3
<1> HIDE DEF zeros
<1>8. more \in Seq(Int) /\ Len(more) = gap + 1
  BY <1>3, <1>7, ConcatProperties
<1>9. \A k \in 1 .. gap + 1 : more[k] = IF k <= gap THEN 0 ELSE v
  BY <1>3, <1>7, ConcatProperties
<1> HIDE DEF more
<1>10. more # <<>>
  BY <1>3, <1>8, EmptySeq
<1>11. PICK r : /\ Heap(r, q)'
                /\ ItemsAt(data', r) = ItemsAt(data, p) \o more
                /\ ItemsAt(data', q) = ItemsAt(data, q)
  BY <1>1, <1>4, <1>8, <1>10, AppendAllStep
<1> DEFINE u == s \o more
<1>12. Contents' = u
  BY <1>5, <1>11, ContentsAfter
<1>13. Len(u) = Len(s) + Len(more)
  BY <1>3, <1>8, ConcatProperties
<1>14. \A k \in 1 .. Len(s) + Len(more) :
          u[k] = IF k <= Len(s) THEN s[k] ELSE more[k - Len(s)]
  BY <1>3, <1>8, ConcatProperties
<1> HIDE DEF u
<1>15. Len(s) + Len(more) = index + 1 /\ ~(index < Len(s))
  BY <1>3, <1>6, <1>8
<1>16. ASSUME NEW k \in 1 .. index + 1
       PROVE  u[k] = IF k = index + 1 THEN v ELSE IF k <= Len(s) THEN s[k] ELSE 0
  <2>1. u[k] = IF k <= Len(s) THEN s[k] ELSE more[k - Len(s)]
    BY <1>14, <1>15
  <2>2. CASE k <= Len(s)
    <3>1. k # index + 1
      BY <1>3, <1>15, <2>2
    <3> QED
      BY <2>1, <2>2, <3>1
  <2>3. CASE ~(k <= Len(s))
    <3>1. k - Len(s) \in 1 .. gap + 1 /\ (k - Len(s) <= gap <=> k # index + 1)
      BY <1>3, <1>6, <2>3
    <3>2. more[k - Len(s)] = IF k - Len(s) <= gap THEN 0 ELSE v
      BY <1>9, <3>1
    <3> QED
      BY <2>1, <2>3, <3>1, <3>2
  <2> QED
    BY <2>2, <2>3
<1>17. PutAt(u, s, index, v)
  BY <1>13, <1>15, <1>16 DEF PutAt
<1> QED
  BY <1>11, <1>12, <1>17, InvAfter DEF s

LEMMA SetItem ==
    ASSUME ChainInv, NEW v \in Values, NEW index \in Nat, SetInChain(index, v)
    PROVE  ChainInv' /\ PutAt(Contents', Contents, index, v)
<1>1. CASE index < Len(Path)
  BY <1>1, OverItem DEF SetInChain
<1>2. CASE ~(index < Len(Path))
  BY <1>2, BehindItems DEF SetInChain
<1> QED
  BY <1>1, <1>2

-----------------------------------------------------------------------------
(* What the calls on a chain promise.                                      *)

LEMMA PlaceIs ==
    ASSUME NEW p, NEW q, Heap(p, q), NEW i \in 1 .. Len(p), NEW node, p[i] = node
    PROVE  Place(node) = i
<1>1. /\ Path = p /\ DOMAIN p = 1 .. Len(p) /\ node # Null
      /\ \A j \in 1 .. Len(p) : p[j] = node => j = i
  BY HeapPaths, LinksFacts DEF Heap
<1> QED
  BY <1>1 DEF Place

LEMMA PlaceOf ==
    ASSUME ChainInv, NEW node \in Chained \cup {Null}
    PROVE  PlaceAfter(Path, node, Place(node) + 1)
<1>1. PICK p \in Seq(Nodes), q \in Seq(Nodes) : Heap(p, q)
  BY DEF ChainInv
<1>2. Path = p /\ Chained = ToSet(p) /\ Len(p) \in Nat /\ DOMAIN p = 1 .. Len(p)
  BY <1>1, HeapPaths, LenProperties
<1>3. CASE node = Null
  <2>1. Place(node) = 0
    BY <1>3 DEF Place
  <2> QED
    BY <1>2, <1>3, <2>1 DEF PlaceAfter
<1>4. CASE node # Null
  <2>1. PICK i \in 1 .. Len(p) : p[i] = node
    BY <1>2, <1>4 DEF ToSet
  <2>2. Place(node) = i
    BY <1>1, <2>1, PlaceIs
  <2>3. i + 1 \in 1 .. Len(p) + 1 /\ i + 1 # 1 /\ i + 1 - 1 = i
    BY <1>2
  <2> QED
    BY <1>2, <2>1, <2>2, <2>3 DEF PlaceAfter
<1> QED
  BY <1>3, <1>4

LEMMA InsertKeepsPromise ==
    ASSUME ChainInv, NEW v \in Values, NEW node, ChainInsert(node, v)
    PROVE  Contents' = Inserted(Contents, Place(node), v)
<1>1. v \in Int /\ InsertAfter(node, v) /\ node \in Chained \cup {Null}
  BY ChainAssumption DEF ChainInsert
<1> DEFINE at == Place(node) + 1
<1>2. PlaceAfter(Path, node, at)
  BY <1>1, PlaceOf
<1> HIDE DEF at
<1>3. Contents' = InsertAt(Contents, at, v)
  BY <1>1, <1>2, InsertedItem
<1> QED
  BY <1>3 DEF Inserted, at

\* The items whose successor is greater are those at which the loop of sort_insert stops.
LEMMA SortHits ==
    ASSUME ChainInv, NEW v
    PROVE  {i \in DOMAIN Path : Greater(Path[i], v)} =
             {i \in 1 .. Len(Contents) - 1 : Contents[i + 1] > v}
<1>1. PICK p \in Seq(Nodes), q \in Seq(Nodes) : Heap(p, q)
  BY DEF ChainInv
<1> DEFINE n == Len(p)
<1>0. n \in Nat /\ 1 .. n - 1 \subseteq 1 .. n
  BY <1>1, HeapPaths, LenProperties
<1>2. /\ Path = p /\ DOMAIN p = 1 .. n
      /\ \A i \in 1 .. n : p[i] # Null
      /\ \A i \in 1 .. n : next[p[i]] = IF i = n THEN Null ELSE p[i + 1]
  BY <1>1, HeapPaths, LinksFacts DEF Heap
<1> HIDE DEF n
<1>3. Contents = ItemsAt(data, p) /\ data \in [Nodes -> Int]
  BY <1>1, HeapContents DEF Heap
<1>4. Len(Contents) = n /\ \A i \in 1 .. n : Contents[i] = data[p[i]]
  BY <1>1, <1>3, ItemsAtFacts DEF n
<1>5. ASSUME NEW i \in 1 .. n
      PROVE  Greater(p[i], v) <=> i \in 1 .. n - 1 /\ Contents[i + 1] > v
  <2>1. CASE i = n
    <3>1. i \notin 1 .. n - 1
      BY <1>0, <2>1
    <3>2. next[p[i]] = Null
      BY <1>2, <2>1
    <3>3. ~Greater(p[i], v)
      BY <3>2 DEF Greater
    <3> QED
      BY <3>1, <3>3
  <2>2. CASE i # n
    <3>1. i + 1 \in 1 .. n /\ i \in 1 .. n - 1
      BY <1>0, <2>2
    <3>2. next[p[i]] = p[i + 1] /\ p[i + 1] # Null /\ Contents[i + 1] = data[p[i + 1]]
      BY <1>2, <1>4, <2>2, <3>1
    <3> QED
      BY <3>1, <3>2 DEF Greater
  <2> QED
    BY <2>1, <2>2
<1> QED
  BY <1>0, <1>2, <1>4, <1>5

\* The place is that of an item, the first of those whose successor is greater, or none is.
LEMMA SortPlaceFacts ==
    ASSUME NEW s \in Seq(Int), NEW v, NEW m, m = SortPlace(s, v)
    PROVE  LET hits == {i \in 1 .. Len(s) - 1 : s[i + 1] > v} IN
           IF hits = {} THEN m = 0 ELSE m = Min(hits) /\ m \in hits /\ \A k \in hits : m <= k
<1> DEFINE hits == {i \in 1 .. Len(s) - 1 : s[i + 1] > v}
<1>1. hits \in SUBSET Nat
  BY LenProperties
<1>2. m = IF hits = {} THEN 0 ELSE Min(hits)
  BY DEF SortPlace
<1> HIDE DEF hits
<1>3. ASSUME hits # {} PROVE Min(hits) \in hits /\ \A k \in hits : Min(hits) <= k
  <2>1. PICK l \in hits : \A k \in hits : l <= k
    BY <1>1, <1>3, LeastElement
  <2> QED
    BY <2>1 DEF Min
<1>4. IF hits = {} THEN m = 0 ELSE m = Min(hits) /\ m \in hits /\ \A k \in hits : m <= k
  BY <1>2, <1>3
<1> QED
  BY <1>4 DEF hits

LEMMA SortInsertKeepsPromise ==
    ASSUME ChainInv, NEW v \in Values, ChainSortInsert(v)
    PROVE  Contents' = Inserted(Contents, IF comparing THEN SortPlace(Contents, v)
                                          ELSE Len(Contents), v)
<1>1. /\ Contents \in Seq(Int) /\ Len(Contents) \in Nat /\ Len(Path) = Len(Contents) /\ v \in Int
  BY ItemsFacts, ChainAssumption DEF ItemsOK
<1>2. CASE ~comparing
  <2> DEFINE at == Len(Contents) + 1
  <2>1. PlaceAfter(Path, tail, at)
    BY PlaceFacts, HeapPaths, <1>1 DEF ChainInv
  <2>2. InsertAfter(tail, v)
    BY <1>2 DEF ChainSortInsert
  <2> HIDE DEF at
  <2>3. Contents' = InsertAt(Contents, at, v)
    BY <1>1, <2>1, <2>2, InsertedItem
  <2> QED
    BY <1>2, <2>3 DEF Inserted, at
<1>3. CASE comparing
  <2> DEFINE hits == {i \in 1 .. Len(Contents) - 1 : Contents[i + 1] > v}
             m == SortPlace(Contents, v)  at == m + 1
             node == IF hits = {} THEN Null ELSE Path[Min(hits)]
  <2>1. InsertAfter(node, v)
    BY <1>3, SortHits DEF ChainSortInsert
  <2>2. IF hits = {} THEN m = 0 ELSE m = Min(hits) /\ m \in hits
    BY <1>1, SortPlaceFacts
  <2>3. PlaceAfter(Path, node, at)
    <3>1. CASE hits = {}
      BY <1>1, <2>2, <3>1 DEF PlaceAfter
    <3>2. CASE hits # {}
      <4>1. m \in 1 .. Len(Contents) - 1 /\ node = Path[m]
        BY <2>2, <3>2
      <4> HIDE DEF m, node
      <4>2. m + 1 \in 1 .. Len(Path) + 1 /\ m + 1 # 1 /\ m + 1 - 1 = m
        BY <1>1, <4>1
      <4> QED
        BY <4>1, <4>2 DEF PlaceAfter
    <3> QED
      BY <3>1, <3>2
  <2> HIDE DEF at, node
  <2>4. Contents' = InsertAt(Contents, at, v)
    BY <1>1, <2>1, <2>3, InsertedItem
  <2> QED
    BY <1>3, <2>4 DEF Inserted, at
<1>4. comparing \in BOOLEAN
  BY DEF ChainInv, Heap
<1> QED
  BY <1>2, <1>3, <1>4

LEMMA AssignKeepsPromise ==
    ASSUME ChainInv, NEW v \in Int, NEW node, ChainAssign(node, v)
    PROVE  Contents' = [Contents EXCEPT ![Place(node)] = v]
<1>1. PICK p \in Seq(Nodes), q \in Seq(Nodes) : Heap(p, q)
  BY DEF ChainInv
<1>2. PICK i \in 1 .. Len(p) :
         /\ p[i] = node
         /\ ItemsAt(data', p) = [ItemsAt(data, p) EXCEPT ![i] = v]
  BY <1>1, AssignStep
<1>3. Heap(p, q)'
  BY <1>1, AssignStep
<1>4. Place(node) = i
  BY <1>1, <1>2, PlaceIs
<1> QED
  BY <1>1, <1>2, <1>3, <1>4, HeapContents, ContentsAfter

LEMMA RemoveKeepsPromise ==
    ASSUME MayRemoveOnly = FALSE, ChainInv, NEW node, ChainRemove(node)
    PROVE  Contents' = RemoveAt(Contents, Place(node))
<1>1. PICK p \in Seq(Nodes), q \in Seq(Nodes) : Heap(p, q)
  BY DEF ChainInv
<1>2. PICK i \in 1 .. Len(p) :
         /\ p[i] = node
         /\ Heap(RemoveAt(p, i), q)'
         /\ ItemsAt(data', RemoveAt(p, i)) = RemoveAt(ItemsAt(data, p), i)
         /\ ItemsAt(data', q) = ItemsAt(data, q)
  BY <1>1, RemoveStep, Zenon
<1>3. Place(node) = i
  BY <1>1, <1>2, PlaceIs
<1> QED
  BY <1>1, <1>2, <1>3, HeapContents, ContentsAfter

LEMMA CopyKeepsPromise ==
    ASSUME ChainInv, ChainCopy \/ CopyDestroy
    PROVE  Contents' = Contents
<1>1. PICK p \in Seq(Nodes), q \in Seq(Nodes) : Heap(p, q)
  BY DEF ChainInv
<1>2. PICK r : Heap(p, r)' /\ ItemsAt(data', p) = ItemsAt(data, p)
  BY <1>1, CopyStep, CopyDestroyStep
<1> QED
  BY <1>1, <1>2, HeapContents, ContentsAfter

LEMMA ReverseKeepsPromise ==
    ASSUME ChainInv, ChainReverse
    PROVE  Contents' = Reverse(Contents)
<1>1. PICK p \in Seq(Nodes), q \in Seq(Nodes) : Heap(p, q)
  BY DEF ChainInv
<1>2. Heap(Reverse(p), q)' /\ data' = data
  BY <1>1, ReverseStep
<1>3. ItemsAt(data, Reverse(p)) = Reverse(ItemsAt(data, p))
  BY <1>1, ItemsReverse DEF Heap
<1> QED
  BY <1>1, <1>2, <1>3, HeapContents, ContentsAfter

\* That there is one order of the same items is shown with the sort of the array.
Sorts == INSTANCE DynArray_proofs WITH
    Capacities <- {Asked}, frames <- <<>>, promised <- <<>>

LEMMA OneOrder ==
    ASSUME NEW s \in Seq(Int), NEW t \in InOrder(s), NEW u \in InOrder(s)
    PROVE  t = u
<1>1. Sorts!DynArrayAssumption
  BY ChainAssumption, ContainersAssumption DEF Sorts!DynArrayAssumption
<1>2. InOrder(s) = Sorts!InOrder(s)
  BY DEF InOrder, Sorts!InOrder, Bijection, Injection, Surjection, IsInjective,
     Sorts!Bijection, Sorts!Injection, Sorts!Surjection, Sorts!IsInjective
<1> QED
  BY <1>1, <1>2, Sorts!OneOrder

LEMMA SortedInOrder ==
    ASSUME NEW s \in Seq(Int)
    PROVE  Sorted(s) \in InOrder(s)
<1> DEFINE n == Len(s)  t == Sorted(s)
<1>1. Rearranged(s, t) /\ \A k, l \in 1 .. n : k <= l => t[k] <= t[l]
  BY SortedFacts
<1>2. n \in Nat /\ DOMAIN s = 1 .. n
  BY LenProperties
<1>3. t \in Seq(Int) /\ Len(t) = n
  BY <1>1 DEF Rearranged
<1>4. DOMAIN t = 1 .. n
  BY <1>3, LenProperties
<1>5. PICK place \in Bijection(1 .. n, 1 .. n) : \A k \in 1 .. n : t[k] = s[place[k]]
  BY <1>1 DEF Rearranged
<1> HIDE DEF t, n
<1>6. t = [k \in DOMAIN s |-> s[place[k]]]
  <2>1. t = [k \in 1 .. n |-> t[k]]
    BY <1>3, <1>4
  <2> QED
    BY <1>2, <1>5, <2>1
<1>7. t \in InOrder(s)
  BY <1>1, <1>2, <1>5, <1>6 DEF InOrder
<1> QED
  BY <1>7 DEF t

LEMMA SortKeepsPromise ==
    ASSUME ChainInv, ChainSort
    PROVE  Contents' \in InOrder(Contents)
<1>1. PICK p \in Seq(Nodes), q \in Seq(Nodes) : Heap(p, q)
  BY DEF ChainInv
<1>2. Heap(p, q)' /\ ItemsAt(data', p) = Sorted(ItemsAt(data, p))
  BY <1>1, SortStep
<1>3. Contents' = Sorted(Contents)
  BY <1>1, <1>2, HeapContents, ContentsAfter
<1>4. Contents \in Seq(Int)
  BY ItemsFacts DEF ItemsOK
<1> QED
  BY <1>3, <1>4, SortedInOrder

LEMMA ChainKeepsPromise ==
    ASSUME MayRemoveOnly = FALSE, ChainInv, Contents = promised, ChainNext
    PROVE  Contents' = promised'
<1>1. Contents \in Seq(Int) /\ Values \subseteq Int
  BY ItemsFacts, ChainAssumption DEF ItemsOK
<1>2. ASSUME NEW v \in Values, ChainAppend(v), promised' = Append(promised, v)
      PROVE  Contents' = promised'
  BY <1>2, AddedItem
<1>3. ASSUME NEW v \in Values, ChainSortInsert(v),
             promised' = Inserted(promised, IF comparing THEN SortPlace(promised, v)
                                            ELSE Len(promised), v)
      PROVE  Contents' = promised'
  BY <1>3, SortInsertKeepsPromise
<1>4. ASSUME NEW v \in Values, NEW n, ChainInsert(n, v), promised' = Inserted(promised, Place(n), v)
      PROVE  Contents' = promised'
  BY <1>4, InsertKeepsPromise
<1>5. ASSUME NEW v \in Values, NEW n, ChainAssign(n, v),
             promised' = [promised EXCEPT ![Place(n)] = v]
      PROVE  Contents' = promised'
  BY <1>1, <1>5, AssignKeepsPromise
<1>6. ASSUME NEW n, ChainErase(n), promised' = [promised EXCEPT ![Place(n)] = 0]
      PROVE  Contents' = promised'
  BY <1>6, AssignKeepsPromise DEF ChainErase
<1>7. ASSUME NEW n, ChainRemove(n), promised' = RemoveAt(promised, Place(n))
      PROVE  Contents' = promised'
  BY <1>7, RemoveKeepsPromise
<1>8. ASSUME NEW n, NodeDestroy(n), promised' = promised
      PROVE  Contents' = promised'
  BY <1>8, DestroyedNode
<1>9. CASE ChainShift /\ promised' = Tail(promised)
  BY <1>9, ShiftedItem
<1>10. CASE ChainClear /\ promised' = <<>>
  BY <1>10, ClearedItems
<1>11. CASE ChainSort /\ promised' \in InOrder(promised)
  BY <1>1, <1>11, SortKeepsPromise, OneOrder
<1>12. CASE ChainReverse /\ promised' = Reverse(promised)
  BY <1>12, ReverseKeepsPromise
<1>13. CASE (ChainCopy \/ CopyDestroy) /\ promised' = promised
  BY <1>13, CopyKeepsPromise
<1> QED
  BY <1>2, <1>3, <1>4, <1>5, <1>6, <1>7, <1>8, <1>9, <1>10, <1>11, <1>12, <1>13 DEF ChainNext

LEMMA PromiseStep ==
    ASSUME MayRemoveOnly = FALSE, ChainInv, ListAsPromised, [ContainersNext]_containerVars
    PROVE  ListAsPromised'
<1>1. use' = use
  BY UseStays
<1>2. CASE use # "chain"
  BY <1>1, <1>2 DEF ListAsPromised
<1>3. CASE use = "chain" /\ ChainNext
  BY <1>3, ChainKeepsPromise DEF ListAsPromised
<1>4. CASE UNCHANGED containerVars
  BY <1>4, SameChain DEF containerVars, ListAsPromised
<1>5. use = "chain" => ChainNext \/ UNCHANGED containerVars
  BY DEF ContainersNext
<1> QED
  BY <1>2, <1>3, <1>4, <1>5

\* Every call on a chain table that is used as such, and every sort by exchange of data,
\* leaves the items that it promises of those it found: each at its place and no other.
THEOREM ChainIsList ==
    ASSUME MayRemoveOnly = FALSE
    PROVE  ContainersSpec => []ListAsPromised
<1>1. ContainersInit => ChainInv /\ ListAsPromised
  <2> SUFFICES ASSUME ContainersInit PROVE ChainInv /\ ListAsPromised
    OBVIOUS
  <2>1. Heap(<<>>, <<>>)
    BY InitHeap DEF ContainersInit
  <2>2. Contents = <<>>
    BY <2>1, HeapContents, NoItems
  <2> QED
    BY <2>2, ChainInitially DEF ContainersInit, ListAsPromised
<1>2. ChainInv /\ ListAsPromised /\ [ContainersNext]_containerVars => ChainInv' /\ ListAsPromised'
  BY ChainInvStep, PromiseStep
<1> QED
  BY <1>1, <1>2, PTL DEF ContainersSpec

\* An item that is not less than the first is put behind those that are not greater.
LEMMA OrderStays ==
    ASSUME NEW s \in Seq(Int), s # <<>>, Ordered(s), NEW v \in Int,
           Head(s) <= v, v < Last(s)
    PROVE  Ordered(Inserted(s, SortPlace(s, v), v))
<1> DEFINE n == Len(s)  m == SortPlace(s, v)  at == m + 1  t == InsertAt(s, at, v)
           hits == {i \in 1 .. n - 1 : s[i + 1] > v}
<1>1. /\ n \in Nat \ {0} /\ DOMAIN s = 1 .. n /\ \A i \in 1 .. n : s[i] \in Int
      /\ s[1] <= v /\ v < s[n]
      /\ \A i, j \in 1 .. n : i <= j => s[i] <= s[j]
  <2>1. Len(s) \in Nat /\ Len(s) # 0 /\ DOMAIN s = 1 .. Len(s) /\ \A i \in 1 .. Len(s) : s[i] \in Int
    BY EmptySeq, LenProperties, ElementOfSeq
  <2>2. Head(s) = s[1] /\ Last(s) = s[Len(s)]
    BY DEF Last
  <2> QED
    BY <2>1, <2>2 DEF Ordered
<1>2. IF hits = {} THEN m = 0 ELSE m \in hits /\ \A k \in hits : m <= k
  BY SortPlaceFacts
<1> HIDE DEF n, m
<1>3. n - 1 \in hits
  <2>1. n # 1
    BY <1>1
  <2> QED
    BY <1>1, <2>1
<1>4. m \in 1 .. n - 1 /\ s[m + 1] > v /\ \A k \in 1 .. m - 1 : ~(s[k + 1] > v)
  <2>1. m \in hits /\ \A k \in hits : m <= k
    BY <1>2, <1>3
  <2>2. m \in 1 .. n - 1 /\ s[m + 1] > v
    BY <2>1
  <2>3. ASSUME NEW k \in 1 .. m - 1, s[k + 1] > v PROVE FALSE
    <3>1. k \in 1 .. n - 1 /\ ~(m <= k)
      BY <1>1, <2>2
    <3> QED
      BY <2>1, <2>3, <3>1
  <2> QED
    BY <2>2, <2>3
<1>5. \A k \in 1 .. m : s[k] <= v
  <2> SUFFICES ASSUME NEW k \in 1 .. m PROVE s[k] <= v
    OBVIOUS
  <2>1. k \in 1 .. n /\ (k = 1 \/ (k - 1 \in 1 .. m - 1 /\ k - 1 + 1 = k))
    BY <1>1, <1>4
  <2>2. CASE k = 1
    BY <1>1, <2>2
  <2>3. CASE k # 1
    <3>1. ~(s[k] > v)
      BY <1>4, <2>1, <2>3
    <3> QED
      BY <1>1, <2>1, <3>1
  <2> QED
    BY <2>2, <2>3
<1>6. at \in 1 .. Len(s) + 1
  BY <1>1, <1>4 DEF n
<1> HIDE DEF at
<1>7. t \in Seq(Int) /\ Extends(t, s, at, v)
  BY <1>6, InsertAtInts
<1>8. /\ Len(t) = n + 1 /\ DOMAIN t = 1 .. n + 1
      /\ \A k \in 1 .. n + 1 : t[k] = IF k < at THEN s[k] ELSE IF k = at THEN v ELSE s[k - 1]
  BY <1>7, LenProperties DEF Extends, n
<1> HIDE DEF t
<1>9. at = m + 1
  BY DEF at
<1>10. ASSUME NEW i \in 1 .. n + 1, NEW j \in 1 .. n + 1, i <= j PROVE t[i] <= t[j]
  <2>1. CASE j < at
    <3>1. i \in 1 .. n /\ j \in 1 .. n /\ i < at
      BY <1>1, <1>4, <1>9, <1>10, <2>1
    <3> QED
      BY <1>1, <1>8, <1>10, <2>1, <3>1
  <2>2. CASE i < at /\ j = at
    <3>1. i \in 1 .. m /\ ~(j < at)
      BY <1>4, <1>9, <2>2
    <3> QED
      BY <1>5, <1>8, <2>2, <3>1
  <2>3. CASE i < at /\ at < j
    <3>1. i \in 1 .. n /\ j - 1 \in 1 .. n /\ i <= j - 1 /\ ~(j < at) /\ j # at
      BY <1>1, <1>4, <1>9, <2>3
    <3>2. t[i] = s[i] /\ t[j] = s[j - 1]
      BY <1>8, <2>3, <3>1
    <3> QED
      BY <1>1, <3>1, <3>2
  <2>4. CASE i = at /\ j = at
    BY <1>8, <2>4
  <2>5. CASE i = at /\ at < j
    <3>1. m + 1 \in 1 .. n /\ j - 1 \in 1 .. n /\ m + 1 <= j - 1 /\ ~(j < at) /\ j # at /\ ~(i < at)
      BY <1>1, <1>4, <1>9, <2>5
    <3>2. t[i] = v /\ t[j] = s[j - 1]
      BY <1>8, <2>5, <3>1
    <3>3. s[m + 1] <= s[j - 1] /\ s[m + 1] \in Int /\ s[j - 1] \in Int
      BY <1>1, <3>1
    <3> QED
      BY <1>4, <3>2, <3>3
  <2>6. CASE at < i
    <3>1. /\ i - 1 \in 1 .. n /\ j - 1 \in 1 .. n /\ i - 1 <= j - 1
          /\ ~(i < at) /\ i # at /\ ~(j < at) /\ j # at
      BY <1>1, <1>4, <1>9, <1>10, <2>6
    <3>2. t[i] = s[i - 1] /\ t[j] = s[j - 1]
      BY <1>8, <3>1
    <3> QED
      BY <1>1, <3>1, <3>2
  <2> QED
    BY <1>4, <1>9, <1>10, <2>1, <2>2, <2>3, <2>4, <2>5, <2>6
<1>11. Ordered(t)
  BY <1>8, <1>10 DEF Ordered
<1> QED
  BY <1>11 DEF Inserted, t, at, m

\* A chain that compares and is in order stays so when sort_insert is given an item that
\* is not less than the first and less than the last, whatever the chain is used as.
THEOREM SortInsertIsInOrder ==
    ASSUME MayRemoveOnly = FALSE
    PROVE  ContainersSpec => SortInsertKeepsOrder
<1>1. ContainersInit => ChainInv
  BY ChainInitially
<1>2. ChainInv /\ [ContainersNext]_containerVars => ChainInv'
  BY ChainInvStep
<1>3. ASSUME ChainInv, NEW v \in Values, comparing, ChainSortInsert(v),
             Ordered(Contents), Contents # <<>>, Head(Contents) <= v, v < Last(Contents)
      PROVE  Ordered(Contents')
  <2>1. Contents \in Seq(Int) /\ v \in Int
    BY <1>3, ItemsFacts, ChainAssumption DEF ItemsOK
  <2>2. Contents' = Inserted(Contents, SortPlace(Contents, v), v)
    BY <1>3, SortInsertKeepsPromise
  <2> QED
    BY <1>3, <2>1, <2>2, OrderStays
<1>4. ChainInv =>
        [\A v \in Values :
           /\ comparing /\ ChainSortInsert(v)
           /\ Ordered(Contents) /\ Contents # <<>>
           /\ Head(Contents) <= v /\ v < Last(Contents)
           => Ordered(Contents')]_vars
  BY <1>3
<1> QED
  BY <1>1, <1>2, <1>4, PTL DEF ContainersSpec, SortInsertKeepsOrder

-----------------------------------------------------------------------------
(* What they do to the array.                                              *)

\* Slots of the array, of which those that the program asks for are there from the start.
ArrayInv ==
    /\ capacity \in Nat \ {0} /\ Asked <= capacity
    /\ count \in 0 .. capacity
    /\ items \in [0 .. capacity - 1 -> Values \cup {0, Garbage}]

\* The slot at the index holds v, the others keep what they hold, and nobody has written
\* those that are new.
SlotAssigned(index, v) ==
    /\ capacity <= capacity' /\ index < capacity'
    /\ count' = IF index >= count THEN index + 1 ELSE count
    /\ items'[index] = v
    /\ \A i \in 0 .. capacity - 1 : i # index => items'[i] = items[i]
    /\ \A i \in capacity .. capacity' - 1 : i # index => items'[i] = Garbage

LEMMA AssignedSlot ==
    ASSUME ArrayInv, NEW v \in Values, NEW index \in Nat, Array!ArrayAssign(index, v)
    PROVE  ArrayInv' /\ SlotAssigned(index, v)
<1>1. PICK size \in capacity .. MaxCapacity :
         /\ index < size
         /\ capacity' = size
         /\ items' = [Array!Expanded(size) EXCEPT ![index] = v]
  BY DEF Array!ArrayAssign, Array!Fits
<1>2. /\ capacity \in Nat \ {0} /\ Asked <= capacity /\ count \in 0 .. capacity
      /\ items \in [0 .. capacity - 1 -> Values \cup {0, Garbage}]
  BY DEF ArrayInv
<1>3. size \in Nat /\ capacity <= size
  BY <1>1, <1>2, ContainersAssumption
<1>4. /\ Array!Expanded(size) \in [0 .. size - 1 -> Values \cup {0, Garbage}]
      /\ \A i \in 0 .. capacity - 1 : Array!Expanded(size)[i] = items[i]
      /\ \A i \in capacity .. size - 1 : Array!Expanded(size)[i] = Garbage
  BY <1>2, <1>3 DEF Array!Expanded
<1>5. index \in 0 .. size - 1
  BY <1>1, <1>3
<1>6. /\ items' \in [0 .. size - 1 -> Values \cup {0, Garbage}]
      /\ items'[index] = v
      /\ \A i \in 0 .. size - 1 : i # index => items'[i] = Array!Expanded(size)[i]
  BY <1>1, <1>4, <1>5
<1>7. /\ \A i \in 0 .. capacity - 1 : i \in 0 .. size - 1
      /\ \A i \in capacity .. size - 1 : i \in 0 .. size - 1
  BY <1>2, <1>3
<1>8. count' = IF index >= count THEN index + 1 ELSE count
  BY DEF Array!ArrayAssign
<1>9. count' \in 0 .. size
  BY <1>1, <1>2, <1>3, <1>8
<1>10. Asked <= size
  BY <1>2, <1>3, ContainersAssumption
<1>11. ArrayInv'
  BY <1>1, <1>2, <1>3, <1>6, <1>9, <1>10 DEF ArrayInv
<1>12. SlotAssigned(index, v)
  BY <1>1, <1>3, <1>4, <1>6, <1>7, <1>8 DEF SlotAssigned
<1> QED
  BY <1>11, <1>12

LEMMA FewerSlots ==
    ASSUME ArrayInv, count' \in 0 .. count, capacity' = capacity, items' = items
    PROVE  ArrayInv'
BY DEF ArrayInv

\* The items of the array, as a client sees them.
LEMMA ArrayItems ==
    ASSUME ArrayInv
    PROVE  /\ Array!Contents \in Seq(Values \cup {0, Garbage})
           /\ Len(Array!Contents) = count
           /\ \A k \in 1 .. count : Array!Contents[k] = items[k - 1]
<1>1. count \in Nat /\ \A k \in 1 .. count : items[k - 1] \in Values \cup {0, Garbage}
  BY DEF ArrayInv
<1> QED
  BY <1>1 DEF Array!Contents

-----------------------------------------------------------------------------
(* The stack.                                                              *)

\* The last item of the array is the first of the chain.
Mirrored(s, n, slots) ==
    /\ Len(s) = n
    /\ \A k \in 1 .. n : s[k] = slots[n - k]

LEMMA MirroredIsReverse ==
    ASSUME ArrayInv, Contents \in Seq(Int)
    PROVE  Mirrored(Contents, count, items) <=> Contents = Reverse(Array!Contents)
<1> DEFINE a == Array!Contents  s == Contents
<1>1. /\ a \in Seq(Values \cup {0, Garbage}) /\ Len(a) = count /\ count \in Nat
      /\ \A k \in 1 .. count : a[k] = items[k - 1]
  BY ArrayItems DEF ArrayInv
<1>2. s \in Seq(Int) /\ Len(s) \in Nat /\ DOMAIN s = 1 .. Len(s)
  BY LenProperties
<1> HIDE DEF a, s
<1>3. Reverse(a) = [k \in 1 .. count |-> a[(count - k) + 1]]
  BY <1>1 DEF Reverse
<1>4. \A k \in 1 .. count : (count - k) + 1 \in 1 .. count /\ (count - k) + 1 - 1 = count - k
  BY <1>1
<1>5. Reverse(a) = [k \in 1 .. count |-> items[count - k]]
  BY <1>1, <1>3, <1>4
<1>6. Len([k \in 1 .. count |-> items[count - k]]) = count
  BY <1>1
<1>7. Mirrored(s, count, items) => s = [k \in 1 .. count |-> items[count - k]]
  BY <1>2 DEF Mirrored
<1>8. s = [k \in 1 .. count |-> items[count - k]] => Mirrored(s, count, items)
  BY <1>6 DEF Mirrored
<1> QED
  BY <1>5, <1>7, <1>8 DEF a, s

LEMMA PushMirrored ==
    ASSUME NEW s \in Seq(Int), NEW n \in Nat, NEW f, Mirrored(s, n, f), NEW v, NEW u, NEW g,
           Extends(u, s, 1, v), g[n] = v, \A i \in 0 .. n - 1 : g[i] = f[i]
    PROVE  Mirrored(u, n + 1, g)
<1>1. Len(s) = n /\ \A k \in 1 .. n : s[k] = f[n - k]
  BY DEF Mirrored
<1>2. Len(u) = n + 1 /\ \A k \in 1 .. n + 1 : u[k] = IF k = 1 THEN v ELSE s[k - 1]
  BY <1>1 DEF Extends
<1>3. ASSUME NEW k \in 1 .. n + 1 PROVE u[k] = g[n + 1 - k]
  <2>1. CASE k = 1
    BY <1>2, <2>1
  <2>2. CASE k # 1
    <3>1. k - 1 \in 1 .. n /\ n - (k - 1) = n + 1 - k /\ n + 1 - k \in 0 .. n - 1
      BY <2>2
    <3>2. s[k - 1] = f[n - (k - 1)]
      BY <1>1, <3>1
    <3> QED
      BY <1>2, <2>2, <3>1, <3>2
  <2> QED
    BY <2>1, <2>2
<1> QED
  BY <1>2, <1>3 DEF Mirrored

LEMMA PopMirrored ==
    ASSUME NEW s \in Seq(Int), s # <<>>, NEW n \in Nat, NEW f, Mirrored(s, n, f)
    PROVE  Mirrored(Tail(s), n - 1, f)
<1>1. Len(s) = n /\ \A k \in 1 .. n : s[k] = f[n - k]
  BY DEF Mirrored
<1>2. Len(Tail(s)) = n - 1 /\ 1 <= n /\ \A k \in 1 .. n - 1 : Tail(s)[k] = s[k + 1]
  BY <1>1, TailFacts
<1>3. ASSUME NEW k \in 1 .. n - 1 PROVE Tail(s)[k] = f[n - 1 - k]
  <2>1. k + 1 \in 1 .. n /\ n - (k + 1) = n - 1 - k
    BY <1>2
  <2> QED
    BY <1>1, <1>2, <2>1
<1> QED
  BY <1>2, <1>3 DEF Mirrored

\* A stack of n items in slots, and those slots with one more item.
Slots(n, f) == [i \in 1 .. n |-> f[i - 1]]

Filled(S, n, f) == \A i \in 0 .. n - 1 : f[i] \in S

OneMore(n, f, v, m, g) ==
    m = n + 1 /\ g[n] = v /\ \A i \in 0 .. n - 1 : g[i] = f[i]

LEMMA SlotsFacts ==
    ASSUME NEW S, NEW n \in Nat, NEW f, Filled(S, n, f)
    PROVE  /\ Slots(n, f) \in Seq(S) /\ Len(Slots(n, f)) = n
           /\ Slots(n, f) = <<>> <=> n = 0
           /\ \A i \in 1 .. n : Slots(n, f)[i] = f[i - 1]
<1>1. \A i \in 1 .. n : f[i - 1] \in S
  BY DEF Filled
<1>2. Slots(n, f) \in Seq(S) /\ Len(Slots(n, f)) = n
  BY <1>1 DEF Slots
<1>3. \A i \in 1 .. n : Slots(n, f)[i] = f[i - 1]
  BY DEF Slots
<1> QED
  BY <1>2, <1>3, EmptySeq

LEMMA SlotsPush ==
    ASSUME NEW S, NEW n \in Nat, NEW f, Filled(S, n, f), NEW v \in S, NEW m, NEW g,
           OneMore(n, f, v, m, g)
    PROVE  Slots(m, g) = Append(Slots(n, f), v)
<1> DEFINE s == Slots(n, f)  t == Slots(n + 1, g)  u == Append(s, v)
<1>1. s \in Seq(S) /\ Len(s) = n /\ \A i \in 1 .. n : s[i] = f[i - 1]
  BY SlotsFacts
<1>2. Filled(S, n + 1, g)
  <2>1. \A i \in 0 .. n + 1 - 1 : i \in 0 .. n - 1 \/ i = n
    OBVIOUS
  <2> QED
    BY <2>1 DEF Filled, OneMore
<1>3. n + 1 \in Nat /\ m = n + 1 /\ g[n] = v /\ \A i \in 0 .. n - 1 : g[i] = f[i]
  BY DEF OneMore
<1>4. t \in Seq(S) /\ Len(t) = n + 1 /\ \A i \in 1 .. n + 1 : t[i] = g[i - 1]
  BY <1>2, <1>3, SlotsFacts
<1> HIDE DEF s, t
<1>5. /\ u \in Seq(S) /\ Len(u) = n + 1
      /\ \A i \in 1 .. n : u[i] = s[i]
      /\ u[n + 1] = v
  BY <1>1, AppendProperties
<1> HIDE DEF u
<1>6. ASSUME NEW i \in 1 .. n + 1 PROVE t[i] = u[i]
  <2>1. CASE i = n + 1
    BY <1>3, <1>4, <1>5, <2>1
  <2>2. CASE i # n + 1
    <3>1. i \in 1 .. n /\ i - 1 \in 0 .. n - 1
      BY <2>2
    <3> QED
      BY <1>1, <1>3, <1>4, <1>5, <3>1
  <2> QED
    BY <2>1, <2>2
<1>7. t = u
  BY <1>4, <1>5, <1>6, SeqEqual
<1> QED
  BY <1>3, <1>7 DEF s, t, u

LEMMA SlotsPop ==
    ASSUME NEW S, NEW n \in Nat \ {0}, NEW f, Filled(S, n, f), NEW m, m = n - 1
    PROVE  /\ Slots(n, f) # <<>>
           /\ Last(Slots(n, f)) = f[m]
           /\ Front(Slots(n, f)) = Slots(m, f)
<1> DEFINE s == Slots(n, f)
<1>1. /\ s \in Seq(S) /\ Len(s) = n /\ s # <<>>
      /\ \A i \in 1 .. n : s[i] = f[i - 1]
  BY SlotsFacts
<1> HIDE DEF s
<1>2. Last(s) = f[n - 1]
  BY <1>1 DEF Last
<1>3. Front(s) = [i \in 1 .. n - 1 |-> s[i]]
  BY <1>1 DEF Front, SubSeq
<1>4. \A i \in 1 .. n - 1 : s[i] = f[i - 1]
  BY <1>1
<1>5. Front(s) = Slots(n - 1, f)
  BY <1>3, <1>4 DEF Slots
<1> QED
  BY <1>1, <1>2, <1>5 DEF s

StackInv == use = "stack" => ArrayInv

LEMMA StackInitially == ContainersInit => StackInv /\ Stack!Init
<1> SUFFICES ASSUME ContainersInit PROVE StackInv /\ Stack!Init
  OBVIOUS
<1>1. ArrayInv
  BY ContainersAssumption DEF ContainersInit, ArrayInv
<1>2. Array!Contents = <<>>
  BY <1>1, ArrayItems DEF ContainersInit
<1> QED
  BY <1>1, <1>2 DEF StackInv, Stack!Init, ContainersInit

LEMMA StackStep ==
    ASSUME StackInv, [ContainersNext]_containerVars
    PROVE  /\ StackInv'
           /\ [Stack!Next]_<<IF use = "stack" THEN Array!Contents ELSE <<>>,
                             IF use = "stack" THEN returned ELSE None>>
<1> DEFINE c == IF use = "stack" THEN Array!Contents ELSE <<>>
           r == IF use = "stack" THEN returned ELSE None
<1>1. use' = use
  BY UseStays
<1>2. ASSUME use # "stack" PROVE StackInv' /\ UNCHANGED <<c, r>>
  BY <1>1, <1>2 DEF StackInv
<1>3. ASSUME use = "stack", ArrayInv', [Stack!Next]_<<c, r>>
      PROVE  StackInv' /\ [Stack!Next]_<<c, r>>
  BY <1>3 DEF StackInv
<1>4. ASSUME use = "stack", UNCHANGED <<array, returned>>
      PROVE  StackInv' /\ UNCHANGED <<c, r>>
  BY <1>1, <1>4 DEF StackInv, ArrayInv, array, Array!Contents
<1>5. ASSUME use = "stack" PROVE ArrayInv
  BY <1>5 DEF StackInv
<1> DEFINE Item == Values \cup {0, Garbage}
<1>6. ASSUME use = "stack"
      PROVE  /\ c = Slots(count, items) /\ c' = Slots(count', items')
             /\ r = returned /\ r' = returned'
             /\ count \in Nat /\ count <= capacity /\ capacity \in Nat /\ Filled(Item, count, items)
  BY <1>1, <1>5, <1>6 DEF Array!Contents, Slots, ArrayInv, Filled
<1> HIDE DEF c, r, Item
<1>7. ASSUME NEW v \in Values, use = "stack", StackPush(v) PROVE ArrayInv' /\ Stack!Next
  <2>1. Array!ArrayAssign(count, v) /\ returned' = returned
    BY <1>7 DEF StackPush, Array!ArrayAppend
  <2>2. ArrayInv' /\ SlotAssigned(count, v)
    BY <1>5, <1>6, <1>7, <2>1, AssignedSlot
  <2>3. OneMore(count, items, v, count', items')
    BY <1>6, <1>7, <2>2 DEF SlotAssigned, OneMore
  <2>4. v \in Item
    BY DEF Item
  <2>5. Slots(count', items') = Append(Slots(count, items), v)
    <3>1. count \in Nat /\ Filled(Item, count, items)
      BY <1>6, <1>7
    <3> QED
      BY <2>3, <2>4, <3>1, SlotsPush
  <2>6. Stack!Push(v)
    BY <1>6, <1>7, <2>1, <2>3, <2>5 DEF Stack!Push, c, r
  <2> QED
    BY <2>2, <2>6 DEF Stack!Next
<1>8. ASSUME use = "stack", StackPop PROVE ArrayInv' /\ [Stack!Next]_<<c, r>>
  <2>1. CASE count > 0
    <3>1. /\ returned' = items[count - 1] /\ count' = count - 1
          /\ capacity' = capacity /\ items' = items
      BY <1>8, <2>1 DEF StackPop, Array!ArrayPop
    <3>2. ArrayInv'
      BY <1>5, <1>6, <1>8, <2>1, <3>1, FewerSlots
    <3>3. count \in Nat \ {0} /\ Filled(Item, count, items)
      BY <1>6, <1>8, <2>1
    <3>4. /\ Slots(count, items) # <<>>
          /\ Last(Slots(count, items)) = items[count']
          /\ Front(Slots(count, items)) = Slots(count', items)
      BY <3>1, <3>3, SlotsPop
    <3>5. /\ c # <<>> /\ r' = Stack!Last(c) /\ c' = Stack!Front(c)
      BY <1>6, <1>8, <3>1, <3>4 DEF Stack!Last, Stack!Front, Last, Front
    <3>6. Stack!Pop
      BY <3>5 DEF Stack!Pop, c, r
    <3> QED
      BY <3>2, <3>6 DEF Stack!Next
  <2>2. CASE ~(count > 0)
    <3>1. returned' = None /\ count = 0 /\ UNCHANGED array
      BY <1>8, <2>2 DEF StackPop
    <3>2. ArrayInv' /\ c = <<>> /\ c' = c
      BY <1>5, <1>6, <1>8, <3>1, SlotsFacts DEF array, ArrayInv
    <3>3. Stack!Pop
      BY <1>6, <1>8, <3>1, <3>2 DEF Stack!Pop, c, r
    <3> QED
      BY <3>2, <3>3 DEF Stack!Next
  <2> QED
    BY <2>1, <2>2
<1>9. ASSUME use = "stack", StackClear PROVE ArrayInv' /\ [Stack!Next]_<<c, r>>
  <2>1. count' = 0 /\ capacity' = capacity /\ items' = items /\ returned' = returned
    BY <1>9 DEF StackClear, Array!ArrayClear
  <2>2. ArrayInv' /\ count' \in Nat
    BY <1>5, <1>6, <1>9, <2>1, FewerSlots
  <2>3. c' = <<>>
    BY <1>6, <1>9, <2>1, <2>2, SlotsFacts DEF Filled
  <2>4. Stack!Clear
    BY <1>6, <1>9, <2>1, <2>3 DEF Stack!Clear, c, r
  <2> QED
    BY <2>2, <2>4 DEF Stack!Next
<1>10. ASSUME use = "stack", Destroy PROVE UNCHANGED <<array, returned>>
  BY <1>10 DEF Destroy
<1>11. ASSUME use = "stack", ~(UNCHANGED containerVars) PROVE StackNext \/ Destroy
  BY <1>11 DEF ContainersNext
<1>12. CASE use = "stack" /\ UNCHANGED containerVars
  BY <1>4, <1>12 DEF containerVars, c, r
<1>13. CASE use = "stack" /\ StackNext
  BY <1>3, <1>7, <1>8, <1>9, <1>13 DEF StackNext, c, r
<1>14. CASE use = "stack" /\ Destroy
  BY <1>4, <1>10, <1>14 DEF c, r
<1>15. CASE use # "stack"
  BY <1>2, <1>15 DEF c, r
<1> QED
  BY <1>11, <1>12, <1>13, <1>14, <1>15

\* What is pushed last is popped first, across the expansions of the array, and pop gives
\* nothing when there is nothing: the stack implements the abstract one.
THEOREM StackIsLifo == ContainersSpec => StackSpec
<1>1. ContainersInit => StackInv /\ Stack!Init
  BY StackInitially
<1>2. StackInv /\ [ContainersNext]_containerVars =>
        /\ StackInv'
        /\ [Stack!Next]_<<IF use = "stack" THEN Array!Contents ELSE <<>>,
                          IF use = "stack" THEN returned ELSE None>>
  BY StackStep
<1> QED
  BY <1>1, <1>2, PTL DEF ContainersSpec, StackSpec, Stack!Spec

-----------------------------------------------------------------------------
(* The list.                                                               *)

\* What a chain with the n items s returns for an index.
ItemAt(s, n, i) == IF i < n THEN s[i + 1] ELSE 0

\* The array has what the chain has, but for a slot that was added and not set.
Alike(s, n, f, c) ==
    /\ Len(s) = n
    /\ \A i \in 0 .. c - 1 :
         \/ f[i] = ItemAt(s, n, i)
         \/ i >= Asked /\ ItemAt(s, n, i) = 0 /\ f[i] = Garbage

\* The slot at the index holds v, the others what they held, those after the c first nothing.
Written(f, c, index, v, g, d) ==
    /\ g[index] = v
    /\ \A i \in 0 .. c - 1 : i # index => g[i] = f[i]
    /\ \A i \in c .. d - 1 : i # index => g[i] = Garbage

LEMMA ItemAfterPut ==
    ASSUME NEW s, NEW n \in Nat, n = Len(s), NEW index \in Nat, NEW v, NEW u,
           PutAt(u, s, index, v), NEW m, m = IF index >= n THEN index + 1 ELSE n
    PROVE  /\ Len(u) = m
           /\ ItemAt(u, m, index) = v
           /\ \A i \in Nat : i # index => ItemAt(u, m, i) = ItemAt(s, n, i)
<1>1. /\ Len(u) = m
      /\ \A k \in 1 .. m : u[k] = IF k = index + 1 THEN v ELSE IF k <= n THEN s[k] ELSE 0
  BY DEF PutAt
<1>2. m \in Nat /\ n <= m /\ index < m
  OBVIOUS
<1>3. ItemAt(u, m, index) = v
  <2>1. index + 1 \in 1 .. m
    BY <1>2
  <2>2. u[index + 1] = v
    BY <1>1, <2>1
  <2> QED
    BY <1>2, <2>2 DEF ItemAt
<1>4. ASSUME NEW i \in Nat, i # index PROVE ItemAt(u, m, i) = ItemAt(s, n, i)
  <2>1. CASE i < m
    <3>1. i + 1 \in 1 .. m /\ i + 1 # index + 1 /\ (i + 1 <= n <=> i < n)
      BY <1>2, <1>4, <2>1
    <3>2. u[i + 1] = IF i + 1 <= n THEN s[i + 1] ELSE 0
      BY <1>1, <3>1
    <3> QED
      BY <2>1, <3>1, <3>2 DEF ItemAt
  <2>2. CASE ~(i < m)
    <3>1. ~(i < n)
      BY <1>2, <2>2
    <3> QED
      BY <2>2, <3>1 DEF ItemAt
  <2> QED
    BY <2>1, <2>2
<1> QED
  BY <1>1, <1>3, <1>4

LEMMA PutAlike ==
    ASSUME NEW s, NEW n \in Nat, NEW c \in Nat, NEW d \in Nat, n <= c, Asked <= c,
           NEW f, Alike(s, n, f, c), NEW index \in Nat, NEW v, NEW u, PutAt(u, s, index, v),
           NEW g, Written(f, c, index, v, g, d), NEW m, m = IF index >= n THEN index + 1 ELSE n
    PROVE  Alike(u, m, g, d)
<1>1. /\ n = Len(s)
      /\ \A i \in 0 .. c - 1 :
           \/ f[i] = ItemAt(s, n, i)
           \/ i >= Asked /\ ItemAt(s, n, i) = 0 /\ f[i] = Garbage
  BY DEF Alike
<1>2. /\ Len(u) = m
      /\ ItemAt(u, m, index) = v
      /\ \A i \in Nat : i # index => ItemAt(u, m, i) = ItemAt(s, n, i)
  BY <1>1, ItemAfterPut
<1>3. /\ g[index] = v
      /\ \A i \in 0 .. c - 1 : i # index => g[i] = f[i]
      /\ \A i \in c .. d - 1 : i # index => g[i] = Garbage
  BY DEF Written
<1>4. Asked \in Nat
  BY ContainersAssumption
<1>5. ASSUME NEW i \in 0 .. d - 1
      PROVE  \/ g[i] = ItemAt(u, m, i)
             \/ i >= Asked /\ ItemAt(u, m, i) = 0 /\ g[i] = Garbage
  <2>1. CASE i = index
    BY <1>2, <1>3, <2>1
  <2>2. CASE i # index /\ i < c
    <3>1. i \in 0 .. c - 1 /\ i \in Nat
      BY <2>2
    <3>2. g[i] = f[i] /\ ItemAt(u, m, i) = ItemAt(s, n, i)
      BY <1>2, <1>3, <2>2, <3>1
    <3> QED
      BY <1>1, <3>1, <3>2
  <2>3. CASE i # index /\ ~(i < c)
    <3>1. i \in c .. d - 1 /\ i \in Nat /\ ~(i < n) /\ i >= Asked
      BY <1>4, <2>3
    <3>2. g[i] = Garbage /\ ItemAt(u, m, i) = ItemAt(s, n, i)
      BY <1>2, <1>3, <2>3, <3>1
    <3>3. ItemAt(s, n, i) = 0
      BY <3>1 DEF ItemAt
    <3> QED
      BY <3>1, <3>2, <3>3
  <2> QED
    BY <2>1, <2>2, <2>3
<1> QED
  BY <1>2, <1>5 DEF Alike

LEMMA AppendIsPut ==
    ASSUME NEW s \in Seq(Int), NEW v \in Int, NEW n, n = Len(s)
    PROVE  PutAt(Append(s, v), s, n, v)
<1>1. /\ Len(s) \in Nat /\ Len(Append(s, v)) = Len(s) + 1
      /\ \A k \in 1 .. Len(s) : Append(s, v)[k] = s[k]
      /\ Append(s, v)[Len(s) + 1] = v
  BY AppendProperties, LenProperties
<1> QED
  BY <1>1 DEF PutAt

LEMMA AlikeAgree ==
    ASSUME ItemsOK, Alike(Contents, count, items, capacity), count \in Nat, capacity \in Nat
    PROVE  \A i \in 0 .. capacity - 1 : SameAnswer(i)
<1>1. /\ Len(Path) = count
      /\ \A i \in 0 .. count - 1 : NodeAt(i) # Null /\ data[NodeAt(i)] = Contents[i + 1]
  BY DEF Alike, ItemsOK
<1>2. ASSUME NEW i \in Nat PROVE GetFromChain(i) = ItemAt(Contents, count, i)
  <2>1. CASE i < count
    <3>1. i \in 0 .. count - 1
      BY <2>1
    <3> QED
      BY <1>1, <2>1, <3>1 DEF GetFromChain, ItemAt
  <2>2. CASE ~(i < count)
    <3>1. NodeAt(i) = Null
      BY <1>1, <2>2 DEF NodeAt
    <3> QED
      BY <2>2, <3>1 DEF GetFromChain, ItemAt
  <2> QED
    BY <2>1, <2>2
<1>3. ASSUME NEW i \in 0 .. capacity - 1 PROVE SameAnswer(i)
  <2>1. i \in Nat
    OBVIOUS
  <2>2. \/ items[i] = ItemAt(Contents, count, i)
        \/ i >= Asked /\ ItemAt(Contents, count, i) = 0 /\ items[i] = Garbage
    BY DEF Alike
  <2>3. GetFromChain(i) = ItemAt(Contents, count, i) /\ GetFromArray(i) = items[i]
    BY <1>2, <2>1 DEF GetFromArray
  <2> QED
    BY <2>2, <2>3 DEF SameAnswer
<1> QED
  BY <1>3

-----------------------------------------------------------------------------
(* The queue.                                                              *)

\* The lemmas about the ring, for the ring of this module.
Queue == INSTANCE CircularQueue_proofs WITH Capacities <- {Asked}, copied <- <<>>

LEMMA RingAssumptions == Queue!ItemAssumption /\ Queue!CapacityAssumption
BY ContainersAssumption DEF Queue!ItemAssumption, Queue!CapacityAssumption

LEMMA SameRing ==
    ASSUME NEW q, NEW v
    PROVE  /\ Circular!Contents(q) = Queue!Contents(q)
           /\ Circular!Pushed(q, v) = Queue!Pushed(q, v)
           /\ Circular!Shifted(q) = Queue!Shifted(q)
<1>1. Circular!Contents(q) = Queue!Contents(q)
  BY DEF Circular!Contents, Queue!Contents, Circular!Length, Queue!Length,
         Circular!SlotAt, Queue!SlotAt
<1>2. Circular!Full(q) <=> Queue!Full(q)
  BY DEF Circular!Full, Queue!Full, Circular!Length, Queue!Length
<1>3. Circular!Expanded(q) = Queue!Expanded(q)
  BY DEF Circular!Expanded, Queue!Expanded, Circular!Ring, Queue!Ring
<1>4. Circular!Pushed(q, v) = Queue!Pushed(q, v)
  BY <1>2, <1>3 DEF Circular!Pushed, Queue!Pushed, Circular!Ring, Queue!Ring,
                    Circular!Circular, Queue!Circular
<1>5. Circular!Shifted(q) = Queue!Shifted(q)
  BY DEF Circular!Shifted, Queue!Shifted, Circular!Ring, Queue!Ring,
         Circular!Circular, Queue!Circular
<1> QED
  BY <1>1, <1>4, <1>5

\* The ring has the items of s, in their order.
Rings(q, s) == Queue!RingOK(q) /\ Queue!Contents(q) = s

LEMMA EmptyRing ==
    ASSUME NEW c \in Nat \ {0}, NEW f \in [0 .. c - 1 -> Values \cup {Garbage}]
    PROVE  Rings(Circular!Ring(c, 0, 0, f), <<>>)
<1> DEFINE q == Queue!Ring(c, 0, 0, f)
<1>1. Circular!Ring(c, 0, 0, f) = q
  BY DEF Circular!Ring, Queue!Ring
<1>2. Queue!RingOK(q)
  BY RingAssumptions, Queue!MakeRing
<1>3. q.head = q.tail
  BY DEF Queue!Ring
<1> HIDE DEF q
<1>4. Queue!Contents(q) = <<>>
  BY <1>2, <1>3, RingAssumptions, Queue!EmptyContents
<1> QED
  BY <1>1, <1>2, <1>4 DEF Rings

LEMMA PushRings ==
    ASSUME NEW q, NEW s, Rings(q, s), NEW v \in Values
    PROVE  Rings(Circular!Pushed(q, v), Append(s, v))
<1>1. Queue!RingOK(q) /\ Queue!Contents(q) = s
  BY DEF Rings
<1>2. /\ Queue!RingOK(Queue!Pushed(q, v))
      /\ Queue!Contents(Queue!Pushed(q, v)) = Append(Queue!Contents(q), v)
  BY <1>1, RingAssumptions, Queue!PushedAppends
<1> QED
  BY <1>1, <1>2, SameRing DEF Rings

LEMMA ShiftRings ==
    ASSUME NEW q, NEW s, Rings(q, s)
    PROVE  /\ q.head # q.tail => Rings(Circular!Shifted(q), Tail(s))
           /\ q.head = q.tail => s = <<>>
<1>1. Queue!RingOK(q) /\ Queue!Contents(q) = s
  BY DEF Rings
<1>2. ASSUME q.head # q.tail PROVE Rings(Circular!Shifted(q), Tail(s))
  <2>1. /\ Queue!RingOK(Queue!Shifted(q))
        /\ Queue!Contents(Queue!Shifted(q)) = Tail(Queue!Contents(q))
    BY <1>1, <1>2, RingAssumptions, Queue!ShiftedTakes
  <2> QED
    BY <1>1, <2>1, SameRing DEF Rings
<1>3. ASSUME q.head = q.tail PROVE s = <<>>
  BY <1>1, <1>3, RingAssumptions, Queue!EmptyContents
<1> QED
  BY <1>2, <1>3

LEMMA RingSlots ==
    ASSUME NEW q, NEW s, Rings(q, s)
    PROVE  /\ q.capacity \in Nat \ {0}
           /\ q.items \in [0 .. q.capacity - 1 -> Values \cup {Garbage}]
BY RingAssumptions, Queue!RingFields DEF Rings

-----------------------------------------------------------------------------
(* The two kinds of a container.                                           *)

\* Of a chain that the program uses as it is, and which it may break, nothing is said.
KindsInv ==
    /\ use \in Uses
    /\ use # "chain" => ChainInv
    /\ use \in {"stack", "list"} => ArrayInv
    /\ use = "stack" => Mirrored(Contents, count, items)
    /\ use = "queue" => Rings(queue, Contents)
    /\ use = "list" => Alike(Contents, count, items, capacity)

LEMMA KindsInitially == ContainersInit => KindsInv
<1> SUFFICES ASSUME ContainersInit PROVE KindsInv
  OBVIOUS
<1>1. ChainInv /\ Contents = <<>>
  BY ChainInitially, ItemsFacts DEF ItemsOK, ContainersInit, Init
<1>2. ArrayInv
  BY ContainersAssumption DEF ContainersInit, ArrayInv
<1>3. count = 0 /\ Len(<<>>) = 0
  BY DEF ContainersInit
<1>4. Mirrored(<<>>, 0, items)
  BY <1>3 DEF Mirrored
<1>5. Alike(<<>>, 0, items, capacity)
  <2>1. capacity = Asked /\ \A i \in 0 .. Asked - 1 : items[i] = 0
    BY DEF ContainersInit
  <2>2. \A i \in 0 .. Asked - 1 : ~(i < 0)
    BY ContainersAssumption
  <2> QED
    BY <1>3, <2>1, <2>2 DEF Alike, ItemAt
<1>6. Rings(queue, <<>>)
  <2> DEFINE f == [i \in 0 .. Asked - 1 |-> Garbage]
  <2>1. Asked \in Nat \ {0} /\ f \in [0 .. Asked - 1 -> Values \cup {Garbage}]
    BY ContainersAssumption
  <2>2. queue = Circular!Ring(Asked, 0, 0, f)
    BY ContainersAssumption DEF ContainersInit, Circular!Create
  <2> QED
    BY <2>1, <2>2, EmptyRing
<1> QED
  BY <1>1, <1>2, <1>3, <1>4, <1>5, <1>6 DEF KindsInv, ContainersInit

LEMMA StackKinds ==
    ASSUME KindsInv, use = "stack", StackNext \/ Destroy
    PROVE  KindsInv'
<1>1. /\ ChainInv /\ ArrayInv /\ Mirrored(Contents, count, items)
      /\ Contents \in Seq(Int) /\ Len(Contents) \in Nat
      /\ Contents = <<>> <=> head = Null
      /\ count \in Nat /\ count <= capacity /\ capacity \in Nat
  BY ItemsFacts DEF KindsInv, ItemsOK, ArrayInv
<1>2. ASSUME use' = use, ChainInv', ArrayInv', Mirrored(Contents', count', items')
      PROVE  KindsInv'
  BY <1>2 DEF KindsInv
<1>3. ASSUME NEW v \in Values, StackPush(v) PROVE KindsInv'
  <2>1. /\ Array!ArrayAssign(count, v) /\ ChainInsert(Null, v) /\ use' = use
    BY <1>3 DEF StackPush, Array!ArrayAppend
  <2>2. ChainInv' /\ Extends(Contents', Contents, 1, v)
    BY <1>1, <2>1, PushedItem
  <2>3. ArrayInv' /\ SlotAssigned(count, v)
    BY <1>1, <2>1, AssignedSlot
  <2>4. /\ count' = count + 1 /\ items'[count] = v
        /\ \A i \in 0 .. count - 1 : items'[i] = items[i]
    BY <1>1, <2>3 DEF SlotAssigned
  <2>5. Mirrored(Contents', count + 1, items')
    BY <1>1, <2>2, <2>4, PushMirrored
  <2> QED
    BY <1>2, <2>1, <2>2, <2>3, <2>4, <2>5
<1>4. ASSUME StackPop PROVE KindsInv'
  <2>1. CASE count > 0
    <3>1. /\ count' = count - 1 /\ capacity' = capacity /\ items' = items
          /\ ChainShift /\ use' = use
      BY <1>4, <2>1 DEF StackPop, Array!ArrayPop
    <3>2. ChainInv' /\ Contents # <<>> /\ Contents' = Tail(Contents)
      BY <1>1, <3>1, ShiftedItem
    <3>3. ArrayInv'
      BY <1>1, <2>1, <3>1, FewerSlots
    <3>4. Mirrored(Tail(Contents), count - 1, items)
      BY <1>1, <3>2, PopMirrored
    <3> QED
      BY <1>2, <3>1, <3>2, <3>3, <3>4
  <2>2. CASE ~(count > 0)
    <3>1. UNCHANGED chain /\ UNCHANGED <<use, count, capacity, items>>
      BY <1>4, <2>2 DEF StackPop, array
    <3>2. ArrayInv'
      BY <1>1, <3>1 DEF ArrayInv
    <3> QED
      BY <1>1, <1>2, <3>1, <3>2, SameChain
  <2> QED
    BY <2>1, <2>2
<1>5. ASSUME StackClear PROVE KindsInv'
  <2>1. count' = 0 /\ capacity' = capacity /\ items' = items /\ ChainClear /\ use' = use
    BY <1>5 DEF StackClear, Array!ArrayClear
  <2>2. ChainInv' /\ Contents' = <<>>
    BY <1>1, <2>1, ClearedItems
  <2>3. ArrayInv'
    BY <1>1, <2>1, FewerSlots
  <2>4. Mirrored(<<>>, 0, items)
    BY DEF Mirrored
  <2> QED
    BY <1>2, <2>1, <2>2, <2>3, <2>4
<1>6. ASSUME Destroy PROVE KindsInv'
  <2>1. PICK n \in Nodes : NodeDestroy(n) /\ UNCHANGED <<use, array, ring, returned>>
    BY <1>6 DEF Destroy
  <2>2. ChainInv' /\ Contents' = Contents
    BY <1>1, <2>1, DestroyedNode
  <2>3. ArrayInv' /\ count' = count /\ items' = items /\ use' = use
    BY <1>1, <2>1 DEF ArrayInv, array
  <2> QED
    BY <1>1, <1>2, <2>2, <2>3
<1> QED
  BY <1>3, <1>4, <1>5, <1>6 DEF StackNext

LEMMA QueueKinds ==
    ASSUME KindsInv, use = "queue", QueueNext \/ Destroy
    PROVE  KindsInv'
<1>1. /\ ChainInv /\ Rings(queue, Contents) /\ (Contents = <<>> <=> head = Null)
  BY ItemsFacts DEF KindsInv, ItemsOK
<1>2. ASSUME use' = use, ChainInv', Rings(queue', Contents')
      PROVE  KindsInv'
  BY <1>2 DEF KindsInv
<1>3. ASSUME NEW v \in Values, QueuePush(v) PROVE KindsInv'
  <2>1. queue' = Circular!Pushed(queue, v) /\ ChainAppend(v) /\ use' = use
    BY <1>3 DEF QueuePush, Circular!Push
  <2>2. ChainInv' /\ Contents' = Append(Contents, v)
    BY <1>1, <2>1, AddedItem
  <2>3. Rings(Circular!Pushed(queue, v), Append(Contents, v))
    BY <1>1, PushRings
  <2> QED
    BY <1>2, <2>1, <2>2, <2>3
<1>4. ASSUME QueueShift PROVE KindsInv'
  <2>1. CASE queue.head # queue.tail
    <3>1. queue' = Circular!Shifted(queue) /\ ChainShift /\ use' = use
      BY <1>4, <2>1 DEF QueueShift, Circular!Shift
    <3>2. ChainInv' /\ Contents' = Tail(Contents)
      BY <1>1, <3>1, ShiftedItem
    <3>3. Rings(Circular!Shifted(queue), Tail(Contents))
      BY <1>1, <2>1, ShiftRings
    <3> QED
      BY <1>2, <3>1, <3>2, <3>3
  <2>2. CASE queue.head = queue.tail
    <3>1. head = Null
      BY <1>1, <2>2, ShiftRings
    <3>2. UNCHANGED <<chain, use, queue>>
      BY <1>4, <2>2, <3>1 DEF QueueShift, Circular!Shift, ChainShift
    <3> QED
      BY <1>1, <1>2, <3>2, SameChain
  <2> QED
    BY <2>1, <2>2
<1>5. ASSUME QueueClear PROVE KindsInv'
  <2>1. queue' = Circular!Ring(queue.capacity, 0, 0, queue.items) /\ ChainClear /\ use' = use
    BY <1>5 DEF QueueClear, Circular!Clear
  <2>2. ChainInv' /\ Contents' = <<>>
    BY <1>1, <2>1, ClearedItems
  <2>3. Rings(Circular!Ring(queue.capacity, 0, 0, queue.items), <<>>)
    BY <1>1, RingSlots, EmptyRing
  <2> QED
    BY <1>2, <2>1, <2>2, <2>3
<1>6. ASSUME Destroy PROVE KindsInv'
  <2>1. PICK n \in Nodes : NodeDestroy(n) /\ UNCHANGED <<use, array, ring, returned>>
    BY <1>6 DEF Destroy
  <2>2. ChainInv' /\ Contents' = Contents /\ queue' = queue /\ use' = use
    BY <1>1, <2>1, DestroyedNode DEF ring
  <2> QED
    BY <1>1, <1>2, <2>2
<1> QED
  BY <1>3, <1>4, <1>5, <1>6 DEF QueueNext

LEMMA ListKinds ==
    ASSUME KindsInv, use = "list", ListNext
    PROVE  KindsInv'
<1>1. /\ ChainInv /\ ArrayInv /\ Alike(Contents, count, items, capacity)
      /\ Contents \in Seq(Int) /\ Len(Contents) = count
      /\ count \in Nat /\ count <= capacity /\ capacity \in Nat /\ Asked <= capacity
  BY ItemsFacts DEF KindsInv, ItemsOK, ArrayInv, Alike
<1>2. ASSUME NEW v \in Values, NEW index \in Nat, Array!ArrayAssign(index, v), ChainInv',
             PutAt(Contents', Contents, index, v), use' = use
      PROVE  KindsInv'
  <2>1. ArrayInv' /\ SlotAssigned(index, v)
    BY <1>1, <1>2, AssignedSlot
  <2>2. /\ count' = (IF index >= count THEN index + 1 ELSE count)
        /\ Written(items, capacity, index, v, items', capacity')
    BY <2>1 DEF SlotAssigned, Written
  <2>3. capacity' \in Nat
    BY <2>1 DEF ArrayInv
  <2>4. Alike(Contents', count', items', capacity')
    BY <1>1, <1>2, <2>2, <2>3, PutAlike
  <2> QED
    BY <1>2, <2>1, <2>4 DEF KindsInv
<1>3. ASSUME NEW v \in Values, ListAdd(v) PROVE KindsInv'
  <2>1. Array!ArrayAssign(count, v) /\ ChainAppend(v) /\ use' = use
    BY <1>3 DEF ListAdd, Array!ArrayAppend
  <2>2. ChainInv' /\ Contents' = Append(Contents, v)
    BY <1>1, <2>1, AddedItem
  <2>3. PutAt(Append(Contents, v), Contents, count, v)
    BY <1>1, ChainAssumption, AppendIsPut
  <2> QED
    BY <1>1, <1>2, <2>1, <2>2, <2>3
<1>4. ASSUME NEW v \in Values, NEW index \in 0 .. MaxCapacity - 1, ListSet(index, v)
      PROVE  KindsInv'
  <2>1. index \in Nat /\ Array!ArrayAssign(index, v) /\ SetInChain(index, v) /\ use' = use
    BY <1>4, ContainersAssumption DEF ListSet
  <2>2. ChainInv' /\ PutAt(Contents', Contents, index, v)
    BY <1>1, <2>1, SetItem
  <2> QED
    BY <1>2, <2>1, <2>2
<1> QED
  BY <1>3, <1>4 DEF ListNext

LEMMA SameKinds ==
    ASSUME KindsInv, UNCHANGED containerVars
    PROVE  KindsInv'
<1>1. use' = use /\ queue' = queue /\ count' = count /\ items' = items /\ capacity' = capacity
  BY DEF containerVars, array, ring
<1>2. ArrayInv => ArrayInv'
  BY <1>1 DEF ArrayInv
<1>3. CASE use = "chain"
  BY <1>1, <1>3 DEF KindsInv
<1>4. CASE use # "chain"
  <2>1. ChainInv' /\ Contents' = Contents
    BY <1>4, SameChain DEF KindsInv, containerVars
  <2> QED
    BY <1>1, <1>2, <2>1 DEF KindsInv
<1> QED
  BY <1>3, <1>4

LEMMA KindsStep ==
    ASSUME KindsInv, [ContainersNext]_containerVars
    PROVE  KindsInv'
<1>1. ASSUME use = "chain", use' = use PROVE KindsInv'
  BY <1>1 DEF KindsInv, Uses
<1> QED
  BY <1>1, StackKinds, QueueKinds, ListKinds, SameKinds DEF ContainersNext

LEMMA InvAgree == ASSUME KindsInv PROVE KindsAgree
<1>1. CASE use = "chain"
  BY <1>1 DEF KindsAgree
<1>2. CASE use = "stack"
  <2>1. ArrayInv /\ Contents \in Seq(Int) /\ Mirrored(Contents, count, items)
    BY <1>2, ItemsFacts DEF KindsInv, ItemsOK
  <2> QED
    BY <1>2, <2>1, MirroredIsReverse DEF KindsAgree
<1>3. CASE use = "queue"
  BY <1>3, SameRing DEF KindsAgree, KindsInv, Rings
<1>4. CASE use = "list"
  <2>1. ItemsOK /\ Alike(Contents, count, items, capacity) /\ count \in Nat /\ capacity \in Nat
    BY <1>4, ItemsFacts DEF KindsInv, ArrayInv
  <2>2. Len(Contents) = count
    BY <2>1 DEF Alike
  <2> QED
    BY <1>4, <2>1, <2>2, AlikeAgree DEF KindsAgree
<1> QED
  BY <1>1, <1>2, <1>3, <1>4 DEF KindsInv, Uses

\* A stack, a queue and a list of states hold the same on a chain as on an array, after any
\* calls.  A lookup at any index below the capacity of the array finds the same in both kinds
\* of the list, set or not, but for the slots that an expansion has added and no call has set:
\* there the chain returns null, and the array what nobody has written.
THEOREM ChainAndArrayAgree == ContainersSpec => []KindsAgree
<1>1. ContainersInit => KindsInv
  BY KindsInitially
<1>2. KindsInv /\ [ContainersNext]_containerVars => KindsInv'
  BY KindsStep
<1>3. KindsInv => KindsAgree
  BY InvAgree
<1> QED
  BY <1>1, <1>2, <1>3, PTL DEF ContainersSpec

=============================================================================
