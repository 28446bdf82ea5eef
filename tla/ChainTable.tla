----------------------------- MODULE ChainTable -----------------------------
(***************************************************************************)
(* The chain table of ds-c/ds_chain.c: nodes in the heap, linked by `next',*)
(* and two pointers, to the first node and to the last.  The chain queue   *)
(* of ds_queue.c is its append and its shift.                              *)
(***************************************************************************)
EXTENDS Integers, Sequences, FiniteSets, SequencesExt

CONSTANTS
    Nodes,          \* bound: the addresses that malloc returns
    Null,           \* NULL
    Values,         \* the data: integers, which the compare function orders
    MayRemoveOnly   \* clients call remove for the only node of a chain

ASSUME ChainAssumption ==
    /\ IsFiniteSet(Nodes) /\ Null \notin Nodes
    /\ Values \subseteq Int /\ MayRemoveOnly \in BOOLEAN

VARIABLES
    head, tail,     \* the pointers of the chain
    next, data,     \* the fields of the nodes in the heap
    allocated,      \* the addresses that are not free
    shifted,        \* the nodes that shift has handed over to the client
    copy,           \* the head and the tail of the chain that the last copy made
    comparing       \* a compare function is set

vars == <<head, tail, next, data, allocated, shifted, copy, comparing>>

-----------------------------------------------------------------------------
(* The chain as a sequence.                                                *)

\* DS_CHAIN_FOR_EACH_ITEM: from this node on, along these pointers
Follow(pointers, first) ==
    LET at[n \in 0 .. Cardinality(Nodes)] ==
            IF n = 0 THEN first
            ELSE IF at[n - 1] = Null THEN Null ELSE pointers[at[n - 1]]
        length == Cardinality({n \in 1 .. Cardinality(Nodes) : at[n - 1] # Null})
    IN  [n \in 1 .. length |-> at[n - 1]]

PathFrom(first) == Follow(next, first)

Path == PathFrom(head)

Chained == ToSet(Path)

Contents == [i \in DOMAIN Path |-> data[Path[i]]]

CopyPath == PathFrom(copy.head)

CopyContents == [i \in DOMAIN CopyPath |-> data[CopyPath[i]]]

\* ds_chain_at
NodeAt(index) == IF index < Len(Path) THEN Path[index + 1] ELSE Null

-----------------------------------------------------------------------------
(* Insertion.                                                              *)

\* ds_chain_insert: a new node, after the node or, when there is none, as head
InsertAfter(node, v) ==
    \E guest \in Nodes \ allocated :
        /\ allocated' = allocated \cup {guest}
        /\ data' = [data EXCEPT ![guest] = v]
        /\ IF node # Null
           THEN /\ next' = [next EXCEPT ![guest] = next[node], ![node] = guest]
                /\ UNCHANGED head
           ELSE /\ next' = [next EXCEPT ![guest] = head]
                /\ head' = guest
        /\ tail' = IF node = tail THEN guest ELSE tail
        /\ UNCHANGED <<shifted, copy, comparing>>

ChainInsert(node, v) == node \in Chained \cup {Null} /\ InsertAfter(node, v)

ChainAppend(v) == InsertAfter(tail, v)

\* mutant: the node itself is compared
Greater_Itself(node, v) == data[node] > v

\* the loop stops at a node whose successor is greater, if there is one
Greater(node, v) == next[node] # Null /\ data[next[node]] > v

ChainSortInsert(v) ==
    IF comparing
    THEN LET hits == {i \in DOMAIN Path : Greater(Path[i], v)}
         IN  InsertAfter(IF hits = {} THEN Null ELSE Path[Min(hits)], v)
    ELSE InsertAfter(tail, v)

-----------------------------------------------------------------------------
(* Several appends in a row.                                               *)

\* the new nodes, in the order in which malloc returns them
Guests(n) == {g \in [1 .. n -> Nodes \ allocated] : IsInjective(g)}

Position(guests, node) == CHOOSE i \in DOMAIN guests : guests[i] = node

\* each of them holds its item and points to the one that came after it
Holding(guests, values) ==
    [n \in Nodes |->
        IF n \in ToSet(guests) THEN values[Position(guests, n)] ELSE data[n]]

Linked(guests) ==
    [n \in Nodes |->
        IF n \notin ToSet(guests) THEN next[n]
        ELSE IF n = Last(guests) THEN Null ELSE guests[Position(guests, n) + 1]]

AppendAll(values) ==
    \E guests \in Guests(Len(values)) :
        /\ allocated' = allocated \cup ToSet(guests)
        /\ data' = Holding(guests, values)
        /\ IF tail # Null
           THEN /\ next' = [Linked(guests) EXCEPT ![tail] = guests[1]]
                /\ UNCHANGED head
           ELSE /\ next' = Linked(guests)
                /\ head' = guests[1]
        /\ tail' = Last(guests)
        /\ UNCHANGED <<shifted, copy, comparing>>

\* mutant: the copy gets the pointers of the chain
ChainCopy_Shallow ==
    /\ copy.head = Null
    /\ copy' = [head |-> head, tail |-> tail]
    /\ UNCHANGED <<head, tail, next, data, allocated, shifted, comparing>>

\* a new chain, to which the items are appended one by one; the client has one copy
ChainCopy ==
    /\ copy.head = Null
    /\ \E guests \in Guests(Len(Path)) :
        /\ allocated' = allocated \cup ToSet(guests)
        /\ data' = Holding(guests, Contents)
        /\ next' = Linked(guests)
        /\ copy' = IF guests = <<>> THEN [head |-> Null, tail |-> Null]
                   ELSE [head |-> Head(guests), tail |-> Last(guests)]
    /\ UNCHANGED <<head, tail, shifted, comparing>>

-----------------------------------------------------------------------------
(* Data.                                                                   *)

ChainAssign(node, v) ==
    /\ node \in Chained
    /\ data' = [data EXCEPT ![node] = v]
    /\ UNCHANGED <<head, tail, next, allocated, shifted, copy, comparing>>

ChainErase(node) == ChainAssign(node, 0)

-----------------------------------------------------------------------------
(* Removal.                                                                *)

\* the memory of freed nodes is as good as empty
Free(nodes) ==
    /\ allocated' = allocated \ nodes
    /\ data' = [n \in Nodes |-> IF n \in nodes THEN 0 ELSE data[n]]

\* mutant: the tail is not checked
ChainRemove_StaleTail(node) ==
    /\ node \in Chained
    /\ MayRemoveOnly \/ Len(Path) > 1
    /\ IF node = head
       THEN /\ head' = next[node]
            /\ next' = [next EXCEPT ![node] = Null]
       ELSE LET prev == CHOOSE p \in Chained : next[p] = node
            IN  /\ next' = [next EXCEPT ![prev] = next[node], ![node] = Null]
                /\ UNCHANGED head
    /\ UNCHANGED tail
    /\ Free({node})
    /\ UNCHANGED <<shifted, copy, comparing>>

\* the tail is checked only for a node that is not the head
ChainRemove(node) ==
    /\ node \in Chained
    /\ MayRemoveOnly \/ Len(Path) > 1
    /\ IF node = head
       THEN /\ head' = next[node]
            /\ next' = [next EXCEPT ![node] = Null]
            /\ UNCHANGED tail
       ELSE LET prev == CHOOSE p \in Chained : next[p] = node
            IN  /\ next' = [next EXCEPT ![prev] = next[node], ![node] = Null]
                /\ tail' = IF node = tail THEN prev ELSE tail
                /\ UNCHANGED head
    /\ Free({node})
    /\ UNCHANGED <<shifted, copy, comparing>>

\* mutant: the node is freed, like a node that is removed
ChainShift_Freed ==
    /\ head # Null
    /\ head' = next[head]
    /\ tail' = IF next[head] = Null THEN Null ELSE tail
    /\ shifted' = shifted \cup {head}
    /\ Free({head})
    /\ UNCHANGED <<next, copy, comparing>>

\* the first node leaves the chain, its data and its pointer as they are
ChainShift ==
    /\ head # Null
    /\ head' = next[head]
    /\ tail' = IF next[head] = Null THEN Null ELSE tail
    /\ shifted' = shifted \cup {head}
    /\ UNCHANGED <<next, data, allocated, copy, comparing>>

\* ds_chain_node_destroy, which is left to the client
NodeDestroy(node) ==
    /\ node \in shifted
    /\ shifted' = shifted \ {node}
    /\ Free({node})
    /\ next' = [next EXCEPT ![node] = Null]
    /\ UNCHANGED <<head, tail, copy, comparing>>

ChainClear ==
    /\ head' = Null
    /\ tail' = Null
    /\ Free(Chained)
    /\ next' = [n \in Nodes |-> IF n \in Chained THEN Null ELSE next[n]]
    /\ UNCHANGED <<shifted, copy, comparing>>

\* ds_chain_destroy, of the copy
CopyDestroy ==
    /\ copy.head # Null
    /\ copy' = [head |-> Null, tail |-> Null]
    /\ Free(ToSet(CopyPath))
    /\ next' = [n \in Nodes |-> IF n \in ToSet(CopyPath) THEN Null ELSE next[n]]
    /\ UNCHANGED <<head, tail, shifted, comparing>>

-----------------------------------------------------------------------------
(* Order.                                                                  *)

Exchange(s, i, j) == IF s[i] > s[j] THEN [s EXCEPT ![i] = s[j], ![j] = s[i]] ELSE s

\* mutant: neighbours are not compared
Pass_Short(s, i) ==
    LET upTo[j \in 0 .. Len(s)] ==
            IF j <= i + 1 THEN s ELSE Exchange(upTo[j - 1], i, j)
    IN  upTo[Len(s)]

\* the inner loop: the least of the items from i on comes to i
Pass(s, i) ==
    LET upTo[j \in 0 .. Len(s)] == IF j <= i THEN s ELSE Exchange(upTo[j - 1], i, j)
    IN  upTo[Len(s)]

Sorted(s) ==
    LET upTo[i \in 0 .. Len(s)] == IF i = 0 THEN s ELSE Pass(upTo[i - 1], i)
    IN  upTo[Len(s)]

\* the nodes stay, their data is swapped
ChainSort ==
    /\ comparing
    /\ LET sorted == Sorted(Contents) IN
       data' = [n \in Nodes |->
                   IF n \in Chained THEN sorted[CHOOSE i \in DOMAIN Path : Path[i] = n]
                   ELSE data[n]]
    /\ UNCHANGED <<head, tail, next, allocated, shifted, copy, comparing>>

ChainReverse ==
    /\ Len(Path) > 1
    /\ next' = [n \in Nodes |->
                   IF n = head THEN Null
                   ELSE IF n \in Chained THEN CHOOSE p \in Chained : next[p] = n
                   ELSE next[n]]
    /\ head' = tail
    /\ tail' = head
    /\ UNCHANGED <<data, allocated, shifted, copy, comparing>>

-----------------------------------------------------------------------------

Init ==
    /\ head = Null /\ tail = Null
    /\ next = [n \in Nodes |-> Null]
    /\ data = [n \in Nodes |-> 0]
    /\ allocated = {}
    /\ shifted = {}
    /\ copy = [head |-> Null, tail |-> Null]
    /\ comparing \in BOOLEAN

Next ==
    \/ \E v \in Values : ChainAppend(v) \/ ChainSortInsert(v)
    \/ \E v \in Values, n \in Nodes \cup {Null} : ChainInsert(n, v)
    \/ \E v \in Values, n \in Nodes : ChainAssign(n, v)
    \/ \E n \in Nodes : ChainErase(n) \/ ChainRemove(n) \/ NodeDestroy(n)
    \/ ChainCopy \/ CopyDestroy
    \/ ChainShift \/ ChainClear \/ ChainSort \/ ChainReverse

Spec == Init /\ [][Next]_vars

-----------------------------------------------------------------------------
(* Properties.                                                             *)

EndsAt(first, last) ==
    /\ first = Null <=> last = Null
    /\ first # Null => last = Last(PathFrom(first)) /\ next[last] = Null

\* Head and tail are both null, or the first and the last node of a chain that
\* ends, in the chain and in its copy; every pointer is to a node that was not freed.
TypeOK ==
    /\ EndsAt(head, tail) /\ EndsAt(copy.head, copy.tail)
    /\ allocated \subseteq Nodes /\ shifted \subseteq allocated
    /\ Chained \subseteq allocated /\ ToSet(CopyPath) \subseteq allocated
    /\ comparing \in BOOLEAN

\* Every node that was allocated and not freed is in the chain, in its copy, or with
\* the client that shifted it, and with one of them only: none leaks, none is freed
\* twice.
NoLeak ==
    /\ allocated = Chained \cup ToSet(CopyPath) \cup shifted
    /\ Cardinality(allocated) =
         Cardinality(Chained) + Cardinality(ToSet(CopyPath)) + Cardinality(shifted)

\* A copy has the items of the chain at the time, and keeps them whatever happens
\* to the chain.
CopyStays ==
    [][IF copy' = copy THEN CopyContents' = CopyContents
                       ELSE CopyContents' \in {<<>>, Contents}]_vars

Ordered(s) == \A i, j \in DOMAIN s : i <= j => s[i] <= s[j]

\* ds_chain.h: sort_insert keeps the order; the loop that looks only at successors does,
\* for an item that is not less than the first one and less than the last.
SortInsertKeepsOrder ==
    [][\A v \in Values :
        /\ comparing /\ ChainSortInsert(v)
        /\ Ordered(Contents) /\ Contents # <<>>
        /\ Head(Contents) <= v /\ v < Last(Contents)
        => Ordered(Contents')]_vars

\* ds_chain.h: append data to the tail.
AppendsToTail ==
    [][\A v \in Values : ChainAppend(v) => Contents' = Append(Contents, v)]_vars

=============================================================================
