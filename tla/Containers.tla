----------------------------- MODULE Containers -----------------------------
(***************************************************************************)
(* The containers of ds-c that exist twice, on a chain table and on an     *)
(* array: the stack (ds_stack.c), the queue (ds_queue.c), and the list in  *)
(* which the state machine keeps its states (fsm-c/sm_list.c).  A program  *)
(* uses a chain table as it is, or as one of the three; then both of its   *)
(* kinds are driven by the same calls, to compare them.                    *)
(***************************************************************************)
EXTENDS ChainTable, ItemSequence

CONSTANTS
    None, Garbage,  \* as in CircularQueue and DynArray
    HeapBase,
    Asked,          \* the capacity that the program asks for
    MaxCapacity     \* bound: nothing is expanded beyond it

ASSUME ContainersAssumption ==
    /\ Asked \in Nat \ {0} /\ MaxCapacity \in Nat
    /\ None \notin Values /\ Garbage \in Int \ Values
    /\ HeapBase \in Int /\ \A v \in Values : v < HeapBase

VARIABLES
    use,                        \* what the program uses
    capacity, count, items,     \* the array
    queue, slot,                \* the circular queue, and the slot of what left it last
    returned,                   \* what left the stack or the queue last
    promised                    \* history: what the calls on a chain as it is promise

\* no sort and no copy is going on
Array == INSTANCE DynArray WITH
    Capacities <- {Asked}, frames <- <<>>, promised <- <<>>

Circular == INSTANCE CircularQueue WITH Capacities <- {Asked}, copied <- <<>>

chain == vars
array == <<capacity, count, items>>
ring  == <<queue, slot>>

containerVars == <<chain, use, array, ring, returned, promised>>

-----------------------------------------------------------------------------
(* The chain table as it is.                                               *)

\* the position of a node, 0 for no node
Place(node) == IF node = Null THEN 0 ELSE CHOOSE i \in DOMAIN Path : Path[i] = node

\* sort_insert: behind the first item whose successor is greater, or to the front
SortPlace(s, v) ==
    LET hits == {i \in 1 .. Len(s) - 1 : s[i + 1] > v} IN IF hits = {} THEN 0 ELSE Min(hits)

\* a call, and what it promises of the items of the chain
ChainNext ==
    \/ \E v \in Values :
         \/ /\ ChainAppend(v)
            /\ promised' = Append(promised, v)
         \/ /\ ChainSortInsert(v)
            /\ promised' = Inserted(promised, IF comparing THEN SortPlace(promised, v)
                                              ELSE Len(promised), v)
    \/ \E v \in Values, n \in Nodes \cup {Null} :
         /\ ChainInsert(n, v)
         /\ promised' = Inserted(promised, Place(n), v)
    \/ \E v \in Values, n \in Nodes :
         /\ ChainAssign(n, v)
         /\ promised' = [promised EXCEPT ![Place(n)] = v]
    \/ \E n \in Nodes :
         \/ ChainErase(n) /\ promised' = [promised EXCEPT ![Place(n)] = 0]
         \/ ChainRemove(n) /\ promised' = RemoveAt(promised, Place(n))
         \/ NodeDestroy(n) /\ UNCHANGED promised
    \/ ChainShift /\ promised' = Tail(promised)
    \/ ChainClear /\ promised' = <<>>
    \/ ChainSort /\ promised' \in InOrder(promised)
    \/ ChainReverse /\ promised' = Reverse(promised)
    \/ (ChainCopy \/ CopyDestroy) /\ UNCHANGED promised

-----------------------------------------------------------------------------
(* The stack.                                                              *)

\* ds_array_stack_push; ds_chain_stack_push: the new node is the head
StackPush(v) ==
    /\ Array!ArrayAppend(v)
    /\ ChainInsert(Null, v)
    /\ UNCHANGED <<use, ring, returned>>

\* mutant: the item that is returned is the one below the top
StackPop_Below ==
    /\ count > 0
    /\ returned' = items[IF count > 1 THEN count - 2 ELSE 0]
    /\ Array!ArrayPop
    /\ ChainShift
    /\ UNCHANGED <<use, ring>>

\* ds_array_stack_pop returns the address of the top item, ds_chain_stack_pop the
\* node; both return NULL when there is none
StackPop ==
    \/ /\ count > 0
       /\ returned' = items[count - 1]
       /\ Array!ArrayPop
       /\ ChainShift
       /\ UNCHANGED <<use, ring>>
    \/ /\ count = 0
       /\ head = Null
       /\ returned' = None
       /\ UNCHANGED <<chain, use, array, ring>>

StackClear ==
    /\ Array!ArrayClear
    /\ ChainClear
    /\ UNCHANGED <<use, ring, returned>>

StackNext == (\E v \in Values : StackPush(v)) \/ StackPop \/ StackClear

-----------------------------------------------------------------------------
(* The queue.                                                              *)

QueuePush(v) ==
    /\ Circular!Push(v)
    /\ ChainAppend(v)
    /\ UNCHANGED <<use, array>>

QueueShift ==
    \/ /\ Circular!Shift
       /\ ChainShift
       /\ UNCHANGED <<use, array>>
    \/ /\ queue.head = queue.tail
       /\ head = Null
       /\ Circular!Shift
       /\ UNCHANGED <<chain, use, array>>

QueueClear ==
    /\ Circular!Clear
    /\ ChainClear
    /\ UNCHANGED <<use, array>>

QueueNext == (\E v \in Values : QueuePush(v)) \/ QueueShift \/ QueueClear

-----------------------------------------------------------------------------
(* The list of states.                                                     *)

ListAdd(v) ==
    /\ Array!ArrayAppend(v)
    /\ ChainAppend(v)
    /\ UNCHANGED <<use, ring, returned>>

\* mutant: the gap is one node short
SetInChain_Short(index, v) ==
    IF index < Len(Path)
    THEN ChainAssign(NodeAt(index), v)
    ELSE LET gap == index - Len(Path) - 1 IN AppendAll([i \in 1 .. gap |-> 0] \o <<v>>)

\* sm_list_set on a chain: the gap before the index is filled with null
SetInChain(index, v) ==
    IF index < Len(Path)
    THEN ChainAssign(NodeAt(index), v)
    ELSE LET gap == index - Len(Path) IN AppendAll([i \in 1 .. gap |-> 0] \o <<v>>)

ListSet(index, v) ==
    /\ Array!ArrayAssign(index, v)
    /\ SetInChain(index, v)
    /\ UNCHANGED <<use, ring, returned>>

\* sm_list_get: an array has no end, a chain returns null behind its last node
GetFromArray(index) == items[index]

GetFromChain(index) == IF NodeAt(index) = Null THEN 0 ELSE data[NodeAt(index)]

ListNext == \E v \in Values : ListAdd(v) \/ \E index \in 0 .. MaxCapacity - 1 : ListSet(index, v)

-----------------------------------------------------------------------------

Uses == {"chain", "stack", "queue", "list"}

ContainersInit ==
    /\ Init
    /\ use \in Uses
    /\ comparing => use = "chain"
    /\ capacity = Asked /\ count = 0 /\ items = [i \in 0 .. Asked - 1 |-> 0]
    /\ queue = Circular!Create(Asked) /\ slot = None
    /\ returned = None
    /\ promised = <<>>

\* a popped or shifted node is destroyed sooner or later; an array has none
Destroy == \E n \in Nodes : NodeDestroy(n) /\ UNCHANGED <<use, array, ring, returned>>

ContainersNext ==
    \/ use = "chain" /\ ChainNext /\ UNCHANGED <<use, array, ring, returned>>
    \/ use = "stack" /\ (StackNext \/ Destroy) /\ UNCHANGED promised
    \/ use = "queue" /\ (QueueNext \/ Destroy) /\ UNCHANGED promised
    \/ use = "list"  /\ ListNext /\ UNCHANGED promised

ContainersSpec == ContainersInit /\ [][ContainersNext]_containerVars

-----------------------------------------------------------------------------
(* Properties.                                                             *)

\* Each call on a chain leaves the items that it promises: an item is where the call
\* has put it, and none is lost or doubled when nodes are linked, unlinked or swapped.
ListAsPromised == use = "chain" => Contents = promised

\* A chain returns null where nothing was set.  So does an array, in the slots that
\* were zeroed when it was created; in those that were added nobody has written it yet.
SameAnswer(i) ==
    \/ GetFromChain(i) = GetFromArray(i)
    \/ i >= Asked /\ GetFromChain(i) = 0 /\ GetFromArray(i) = Garbage

\* The two kinds of a container hold the same, whichever the program was built
\* with; of the list this holds for every slot that may be looked up, set or not, but
\* for the slots that were added to the array and not set.
KindsAgree ==
    /\ use = "stack" => Contents = Reverse(Array!Contents)
    /\ use = "queue" => Contents = Circular!Contents(queue)
    /\ use = "list" => Len(Contents) = count /\ \A i \in 0 .. capacity - 1 : SameAnswer(i)

\* A stack returns the items in the reverse of the order in which they came, across
\* any expansion.
Stack == INSTANCE LifoStack WITH
    contents <- IF use = "stack" THEN Array!Contents ELSE <<>>,
    returned <- IF use = "stack" THEN returned ELSE None
StackSpec == Stack!Spec

=============================================================================
