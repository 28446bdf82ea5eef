-------------------------- MODULE ChainTable_proofs --------------------------
(***************************************************************************)
(* The chain table for any number of addresses and any data.  The          *)
(* inductive invariant says that the pointers in the heap lead along two   *)
(* paths, the chain and its copy, that share no node with each other or    *)
(* with what was shifted; each operation is shown to keep it and to do to  *)
(* the list of items what it is for.                                       *)
(***************************************************************************)
EXTENDS ChainTable, SequenceTheorems, FiniteSetTheorems, TLAPS

-----------------------------------------------------------------------------
(* Numbers.                                                                *)

\* A set of numbers that is not empty has a least one.
LEMMA LeastElement ==
    ASSUME NEW S \in SUBSET Nat, S # {}
    PROVE  \E m \in S : \A k \in S : m <= k
<1> DEFINE Up(n) == 0 .. n
           T == {Up(n) : n \in S}
<1>1. T \subseteq FiniteSubsetsOf(Nat) /\ T # {}
  <2>1. ASSUME NEW n \in S PROVE Up(n) \in FiniteSubsetsOf(Nat)
    BY FS_Interval DEF FiniteSubsetsOf
  <2> QED
    BY <2>1
<1>2. IsWellFoundedOn(StrictSubsetOrdering(Nat), FiniteSubsetsOf(Nat))
  BY FS_StrictSubsetOrderingWellFounded
<1> HIDE DEF T
<1>3. \E x \in T : \A y \in T : ~(<<y, x>> \in StrictSubsetOrdering(Nat))
  BY <1>1, <1>2, WFMin
<1>4. PICK m \in S : \A y \in T : ~(<<y, Up(m)>> \in StrictSubsetOrdering(Nat))
  BY <1>3 DEF T
<1>5. ASSUME NEW k \in S, ~(m <= k) PROVE FALSE
  <2>1. Up(k) \in T
    BY DEF T
  <2>2. Up(k) \subseteq Up(m) /\ Up(k) # Up(m)
    <3>1. m \in Up(m) /\ m \notin Up(k)
      BY <1>5
    <3> QED
      BY <1>5, <3>1
  <2>3. <<Up(k), Up(m)>> \in StrictSubsetOrdering(Nat)
    BY <2>2 DEF StrictSubsetOrdering
  <2> QED
    BY <1>4, <2>1, <2>3
<1> QED
  BY <1>5

LEMMA CountTo ==
    ASSUME NEW n \in Nat
    PROVE  Cardinality(1 .. n) = n
<1>1. Cardinality(1 .. n) = IF 1 > n THEN 0 ELSE n - 1 + 1
  BY FS_Interval
<1> QED
  BY <1>1

-----------------------------------------------------------------------------
(* Chains in the heap.                                                     *)

\* From the first node on, the pointers lead along p, which has no node twice, to its
\* last node and no further.
Links(pointers, p, first, last) ==
    /\ p \in Seq(Nodes)
    /\ IsInjective(p)
    /\ first = (IF p = <<>> THEN Null ELSE p[1])
    /\ last = (IF p = <<>> THEN Null ELSE p[Len(p)])
    /\ \A i \in 1 .. Len(p) :
        pointers[p[i]] = IF i = Len(p) THEN Null ELSE p[i + 1]

\* A path has no more nodes than there are addresses.
LEMMA PathIsBounded ==
    ASSUME NEW p \in Seq(Nodes), IsInjective(p)
    PROVE  /\ Cardinality(Nodes) \in Nat
           /\ Len(p) <= Cardinality(Nodes)
<1>1. IsFiniteSet(Nodes) /\ Cardinality(Nodes) \in Nat
  BY ChainAssumption, FS_CardinalityType
<1>2. p \in Injection(1 .. Len(p), Nodes) /\ Len(p) \in Nat
  BY LenProperties DEF Injection
<1>3. Cardinality(1 .. Len(p)) <= Cardinality(Nodes)
  BY <1>1, <1>2, FS_Injection
<1>4. Cardinality(1 .. Len(p)) = Len(p)
  BY <1>2, CountTo
<1> QED
  BY <1>1, <1>3, <1>4

\* What the loop over a chain visits.
LEMMA FollowLinks ==
    ASSUME NEW pointers, NEW p, NEW first, NEW last, Links(pointers, p, first, last)
    PROVE  Follow(pointers, first) = p
<1> DEFINE K == Cardinality(Nodes)
           Step(f) == [n \in 0 .. K |->
                         IF n = 0 THEN first
                         ELSE IF f[n - 1] = Null THEN Null ELSE pointers[f[n - 1]]]
           at == CHOOSE f : f = Step(f)
           g == [n \in 0 .. K |-> IF n < Len(p) THEN p[n + 1] ELSE Null]
<1>1. p \in Seq(Nodes) /\ IsInjective(p)
  BY DEF Links
<1>2. K \in Nat /\ Len(p) \in Nat /\ Len(p) <= K
  BY <1>1, PathIsBounded, LenProperties
<1>3. \A i \in 1 .. Len(p) : p[i] \in Nodes /\ p[i] # Null
  BY <1>1, ChainAssumption, ElementOfSeq
<1> HIDE DEF K
<1>4. g = Step(g)
  <2>1. first = (IF Len(p) = 0 THEN Null ELSE p[1])
    BY <1>1, <1>2, EmptySeq DEF Links
  <2>2. \A i \in 1 .. Len(p) : pointers[p[i]] = IF i = Len(p) THEN Null ELSE p[i + 1]
    BY DEF Links
  <2>3. ASSUME NEW n \in 0 .. K PROVE g[n] = Step(g)[n]
    <3>1. CASE n = 0
      BY <1>2, <2>1, <3>1
    <3>2. CASE n # 0 /\ n - 1 < Len(p)
      <4>1. g[n - 1] = p[n] /\ n \in 1 .. Len(p) /\ n - 1 \in 0 .. K
        BY <1>2, <3>2
      <4>2. g[n] = pointers[p[n]]
        BY <1>2, <2>2, <4>1
      <4> QED
        BY <1>3, <3>2, <4>1, <4>2
    <3>3. CASE n # 0 /\ ~(n - 1 < Len(p))
      <4>1. g[n - 1] = Null /\ g[n] = Null
        BY <1>2, <3>3
      <4> QED
        BY <3>3, <4>1
    <3> QED
      BY <3>1, <3>2, <3>3
  <2> QED
    BY <2>3
<1>5. at = Step(at)
  <2> HIDE DEF g, Step
  <2> QED
    BY <1>4
<1> HIDE DEF at
<1>6. at = g
  <2> DEFINE Differ == {n \in 0 .. K : at[n] # g[n]}
  <2>1. SUFFICES Differ = {}
    BY <1>4, <1>5
  <2>2. SUFFICES ASSUME Differ # {} PROVE FALSE
    OBVIOUS
  <2>3. PICK m \in Differ : \A k \in Differ : m <= k
    <3>1. Differ \in SUBSET Nat
      BY <1>2
    <3> HIDE DEF Differ
    <3> QED
      BY <2>2, <3>1, LeastElement
  <2>4. at[m] = Step(at)[m] /\ g[m] = Step(g)[m]
    BY <1>4, <1>5
  <2>5. CASE m = 0
    BY <2>3, <2>4, <2>5, <1>2
  <2>6. CASE m # 0
    <3>1. m - 1 \in 0 .. K /\ m - 1 \notin Differ
      BY <1>2, <2>3, <2>6
    <3>2. at[m - 1] = g[m - 1]
      BY <3>1
    <3> QED
      BY <2>3, <2>4, <2>6, <3>2
  <2> QED
    BY <2>5, <2>6
<1> DEFINE length == Cardinality({n \in 1 .. K : at[n - 1] # Null})
<1>7. length = Len(p)
  <2>1. {n \in 1 .. K : g[n - 1] # Null} = 1 .. Len(p)
    BY <1>2, <1>3
  <2>2. Cardinality(1 .. Len(p)) = Len(p)
    BY <1>2, CountTo
  <2> QED
    BY <1>6, <2>1, <2>2
<1>8. Follow(pointers, first) = [n \in 1 .. length |-> at[n - 1]]
  BY DEF Follow, at, K
<1>9. [n \in 1 .. length |-> at[n - 1]] = p
  <2> HIDE DEF length
  <2>1. \A n \in 1 .. Len(p) : g[n - 1] = p[n]
    BY <1>2
  <2>2. p = [n \in 1 .. Len(p) |-> p[n]]
    BY <1>1, LenProperties
  <2> QED
    BY <1>6, <1>7, <2>1, <2>2
<1> QED
  BY <1>8, <1>9

\* What it says in terms of positions.
LEMMA LinksFacts ==
    ASSUME NEW pointers, NEW p, NEW first, NEW last, Links(pointers, p, first, last)
    PROVE  /\ p \in Seq(Nodes) /\ Len(p) \in Nat /\ DOMAIN p = 1 .. Len(p)
           /\ \A i \in 1 .. Len(p) : p[i] \in Nodes /\ p[i] # Null
           /\ \A i, j \in 1 .. Len(p) : p[i] = p[j] => i = j
           /\ first = (IF Len(p) = 0 THEN Null ELSE p[1])
           /\ last = (IF Len(p) = 0 THEN Null ELSE p[Len(p)])
           /\ \A i \in 1 .. Len(p) :
                pointers[p[i]] = IF i = Len(p) THEN Null ELSE p[i + 1]
<1>1. p \in Seq(Nodes) /\ Len(p) \in Nat /\ DOMAIN p = 1 .. Len(p)
  BY LenProperties DEF Links
<1>2. \A i \in 1 .. Len(p) : p[i] \in Nodes /\ p[i] # Null
  BY <1>1, ElementOfSeq, ChainAssumption
<1>3. p = <<>> <=> Len(p) = 0
  BY <1>1, EmptySeq
<1> QED
  BY <1>1, <1>2, <1>3 DEF Links, IsInjective

LEMMA LinksIf ==
    ASSUME NEW pointers, NEW p \in Seq(Nodes), NEW first, NEW last,
           \A i, j \in 1 .. Len(p) : p[i] = p[j] => i = j,
           first = (IF Len(p) = 0 THEN Null ELSE p[1]),
           last = (IF Len(p) = 0 THEN Null ELSE p[Len(p)]),
           \A i \in 1 .. Len(p) :
                pointers[p[i]] = IF i = Len(p) THEN Null ELSE p[i + 1]
    PROVE  Links(pointers, p, first, last)
<1>1. Len(p) \in Nat /\ DOMAIN p = 1 .. Len(p)
  BY LenProperties
<1>2. p = <<>> <=> Len(p) = 0
  BY <1>1, EmptySeq
<1> QED
  BY <1>1, <1>2 DEF Links, IsInjective

\* What happens to other nodes is nothing to a chain.
LEMMA LinksFrame ==
    ASSUME NEW pointers, NEW p, NEW first, NEW last, Links(pointers, p, first, last),
           NEW others, \A n \in ToSet(p) : others[n] = pointers[n]
    PROVE  Links(others, p, first, last)
BY LinksFacts DEF Links, ToSet

\* An item at a new place.
LEMMA InsertAtFacts ==
    ASSUME NEW S, NEW s \in Seq(S), NEW i \in 1 .. Len(s) + 1, NEW e \in S
    PROVE  /\ InsertAt(s, i, e) \in Seq(S)
           /\ Len(InsertAt(s, i, e)) = Len(s) + 1
           /\ \A k \in 1 .. Len(s) + 1 :
                InsertAt(s, i, e)[k] =
                    IF k < i THEN s[k] ELSE IF k = i THEN e ELSE s[k - 1]
<1> DEFINE a == SubSeq(s, 1, i - 1)
           b == SubSeq(s, i, Len(s))
           c == a \o <<e>>
<1>1. InsertAt(s, i, e) = c \o b
  BY DEF InsertAt
<1>2. Len(s) \in Nat /\ i \in Nat /\ \A k \in 1 .. Len(s) : s[k] \in S
  BY LenProperties, ElementOfSeq
<1>3. a \in Seq(S) /\ Len(a) = i - 1 /\ \A k \in 1 .. i - 1 : a[k] = s[k]
  <2>1. \A k \in 1 .. i - 1 : s[k] \in S
    BY <1>2
  <2> QED
    BY <1>2, <2>1, SubSeqProperties
<1>4. /\ b \in Seq(S) /\ Len(b) = Len(s) - i + 1
      /\ \A k \in 1 .. Len(s) - i + 1 : b[k] = s[i + k - 1]
  <2>1. \A k \in i .. Len(s) : s[k] \in S
    BY <1>2
  <2> QED
    BY <1>2, <2>1, SubSeqProperties
<1> HIDE DEF a, b
<1>5. c \in Seq(S) /\ Len(c) = i /\ \A k \in 1 .. i : c[k] = IF k < i THEN s[k] ELSE e
  <2>1. <<e>> \in Seq(S) /\ Len(<<e>>) = 1 /\ <<e>>[1] = e
    OBVIOUS
  <2>2. /\ c \in Seq(S)
        /\ Len(c) = Len(a) + Len(<<e>>)
        /\ \A k \in 1 .. Len(a) + Len(<<e>>) :
                c[k] = IF k <= Len(a) THEN a[k] ELSE <<e>>[k - Len(a)]
    BY <1>3, <2>1, ConcatProperties
  <2> HIDE DEF c
  <2> QED
    BY <1>2, <1>3, <2>1, <2>2
<1> DEFINE d == c \o b
<1>6. /\ d \in Seq(S)
      /\ Len(d) = Len(c) + Len(b)
      /\ \A k \in 1 .. Len(c) + Len(b) :
            d[k] = IF k <= Len(c) THEN c[k] ELSE b[k - Len(c)]
  <2> HIDE DEF c
  <2> QED
    BY <1>4, <1>5, ConcatProperties
<1>7. InsertAt(s, i, e) = d
  BY <1>1
<1> HIDE DEF c, d
<1>8. ASSUME NEW k \in 1 .. Len(s) + 1
      PROVE  d[k] = IF k < i THEN s[k] ELSE IF k = i THEN e ELSE s[k - 1]
  <2>1. CASE k <= i
    <3>1. k \in 1 .. i /\ k \in 1 .. Len(c) + Len(b)
      BY <1>2, <1>4, <1>5, <2>1
    <3>2. d[k] = c[k]
      BY <1>5, <1>6, <2>1, <3>1
    <3> QED
      BY <1>2, <1>5, <2>1, <3>1, <3>2
  <2>2. CASE k > i
    <3>1. /\ k - i \in 1 .. Len(s) - i + 1 /\ k \in 1 .. Len(c) + Len(b)
          /\ i + (k - i) - 1 = k - 1 /\ ~(k <= i) /\ k # i
      BY <1>2, <1>4, <1>5, <2>2
    <3>2. d[k] = b[k - i] /\ b[k - i] = s[i + (k - i) - 1]
      BY <1>4, <1>5, <1>6, <3>1
    <3> QED
      BY <1>2, <3>1, <3>2
  <2> QED
    BY <1>2, <2>1, <2>2
<1>9. Len(d) = Len(s) + 1
  BY <1>2, <1>4, <1>5, <1>6
<1> QED
  BY <1>6, <1>7, <1>8, <1>9

\* The sequence t is s with e at the place i.
Extends(t, s, i, e) ==
    /\ Len(t) = Len(s) + 1
    /\ \A k \in 1 .. Len(s) + 1 : t[k] = IF k < i THEN s[k] ELSE IF k = i THEN e ELSE s[k - 1]

\* The same for nodes and for their data.
LEMMA InsertAtNodes ==
    ASSUME NEW s \in Seq(Nodes), NEW i \in 1 .. Len(s) + 1, NEW e \in Nodes
    PROVE  InsertAt(s, i, e) \in Seq(Nodes) /\ Extends(InsertAt(s, i, e), s, i, e)
BY InsertAtFacts DEF Extends

LEMMA InsertAtInts ==
    ASSUME NEW s \in Seq(Int), NEW i \in 1 .. Len(s) + 1, NEW e \in Int
    PROVE  InsertAt(s, i, e) \in Seq(Int) /\ Extends(InsertAt(s, i, e), s, i, e)
BY InsertAtFacts DEF Extends

\* The place behind a node, or the first one.
PlaceAfter(p, node, at) ==
    at \in 1 .. Len(p) + 1 /\ node = IF at = 1 THEN Null ELSE p[at - 1]

\* A node behind another one, or before the first one.
Entered(pointers, first, node, g) ==
    IF node = Null THEN [pointers EXCEPT ![g] = first]
    ELSE [pointers EXCEPT ![g] = pointers[node], ![node] = g]

\* A new node is linked in.
LEMMA LinksInsert ==
    ASSUME NEW pointers \in [Nodes -> Nodes \cup {Null}], NEW p, NEW first, NEW last,
           Links(pointers, p, first, last),
           NEW node, NEW at, PlaceAfter(p, node, at), NEW g \in Nodes \ ToSet(p)
    PROVE  /\ Links(Entered(pointers, first, node, g), InsertAt(p, at, g),
                    IF node = Null THEN g ELSE first, IF node = last THEN g ELSE last)
           /\ Entered(pointers, first, node, g) \in [Nodes -> Nodes \cup {Null}]
           /\ ToSet(InsertAt(p, at, g)) = ToSet(p) \cup {g}
           /\ node # Null => node \in ToSet(p)
           /\ \A n \in Nodes : n # g /\ n # node =>
                Entered(pointers, first, node, g)[n] = pointers[n]
<1> DEFINE i == at - 1
           q == InsertAt(p, at, g)
           linked == Entered(pointers, first, node, g)
<1>0. at \in 1 .. Len(p) + 1 /\ node = IF at = 1 THEN Null ELSE p[at - 1]
  BY DEF PlaceAfter
<1>1. /\ p \in Seq(Nodes) /\ Len(p) \in Nat /\ DOMAIN p = 1 .. Len(p)
      /\ \A k \in 1 .. Len(p) : p[k] \in Nodes /\ p[k] # Null
  BY LinksFacts
<1>in. Len(p) \in Nat /\ i \in Int /\ 0 <= i /\ i <= Len(p) /\ at = i + 1 /\ at - 1 = i
  BY <1>0, <1>1
<1> HIDE DEF i
<1>node. i # 0 => i \in 1 .. Len(p) /\ node = p[i] /\ node \in Nodes /\ node # Null
  BY <1>0, <1>1, <1>in
<1>null. i = 0 => node = Null
  BY <1>0, <1>in
<1>one. \A k, j \in 1 .. Len(p) : p[k] = p[j] => k = j
  BY LinksFacts
<1>ends. /\ first = (IF Len(p) = 0 THEN Null ELSE p[1])
         /\ last = (IF Len(p) = 0 THEN Null ELSE p[Len(p)])
  BY LinksFacts
<1>to. \A k \in 1 .. Len(p) :
            pointers[p[k]] = IF k = Len(p) THEN Null ELSE p[k + 1]
  BY LinksFacts
<1>2. /\ q \in Seq(Nodes) /\ Len(q) = Len(p) + 1
      /\ \A k \in 1 .. Len(p) + 1 :
            q[k] = IF k <= i THEN p[k] ELSE IF k = i + 1 THEN g ELSE p[k - 1]
  <2> HIDE DEF q
  <2>1. p \in Seq(Nodes) /\ g \in Nodes /\ at \in 1 .. Len(p) + 1
    BY <1>0, <1>1
  <2>2. /\ InsertAt(p, at, g) \in Seq(Nodes)
        /\ Len(InsertAt(p, at, g)) = Len(p) + 1
        /\ \A k \in 1 .. Len(p) + 1 : InsertAt(p, at, g)[k] =
                IF k < at THEN p[k] ELSE IF k = at THEN g ELSE p[k - 1]
    <3>1. InsertAt(p, at, g) \in Seq(Nodes) /\ Extends(InsertAt(p, at, g), p, at, g)
      BY <2>1, InsertAtNodes
    <3> QED
      BY <3>1 DEF Extends
  <2>3. \A k \in 1 .. Len(p) + 1 : k < at <=> k <= i
    BY <1>in
  <2> QED
    BY <1>in, <2>2, <2>3 DEF q
<1> HIDE DEF q
<1>3. DOMAIN q = 1 .. Len(q)
  BY <1>2, LenProperties
<1>4. \A k \in 1 .. Len(p) : p[k] # g
  BY <1>1 DEF ToSet
<1>5. \A k, j \in 1 .. Len(q) : q[k] = q[j] => k = j
  <2> SUFFICES ASSUME NEW k \in 1 .. Len(p) + 1, NEW j \in 1 .. Len(p) + 1,
                      q[k] = q[j], k < j
               PROVE  FALSE
    BY <1>in, <1>1, <1>one, <1>2
  <2>1. CASE j <= i
    BY <1>in, <1>1, <1>one, <1>2, <2>1
  <2>2. CASE j = i + 1
    BY <1>in, <1>1, <1>one, <1>2, <1>4, <2>2
  <2>3. CASE j > i + 1
    <3>1. q[j] = p[j - 1] /\ j - 1 \in 1 .. Len(p)
      BY <1>in, <1>1, <1>one, <1>2, <2>3
    <3>2. CASE k <= i
      BY <1>in, <1>1, <1>one, <1>2, <2>3, <3>1, <3>2
    <3>3. CASE k = i + 1
      BY <1>in, <1>1, <1>one, <1>2, <1>4, <3>1, <3>3
    <3>4. CASE k > i + 1
      <4>1. q[k] = p[k - 1] /\ k - 1 \in 1 .. Len(p)
        BY <1>in, <1>1, <1>one, <1>2, <3>4
      <4> QED
        BY <1>in, <1>1, <1>one, <3>1, <4>1
    <3> QED
      BY <1>in, <3>2, <3>3, <3>4
  <2> QED
    BY <1>in, <2>1, <2>2, <2>3
<1>6. q[1] = IF i = 0 THEN g ELSE first
  BY <1>in, <1>1, <1>ends, <1>2
<1>7. (IF i = Len(p) THEN g ELSE last) = q[Len(q)]
  <2>1. CASE i = Len(p)
    BY <1>in, <1>1, <1>2, <2>1
  <2>2. CASE i < Len(p)
    <3>1. q[Len(q)] = p[Len(p)] /\ Len(p) # 0
      BY <1>in, <1>1, <1>2, <2>2
    <3> QED
      BY <1>in, <1>ends, <2>2, <3>1
  <2>3. i = Len(p) \/ i < Len(p)
    BY <1>in
  <2> QED
    BY <2>1, <2>2, <2>3
<1>0a. first \in Nodes \cup {Null}
  <2>1. Len(p) # 0 => 1 \in 1 .. Len(p)
    BY <1>in
  <2> QED
    BY <1>in, <1>1, <1>ends, <2>1
<1>8. /\ linked \in [Nodes -> Nodes \cup {Null}]
      /\ \A n \in Nodes : linked[n] =
            IF n = g THEN (IF i = 0 THEN first ELSE pointers[p[i]])
            ELSE IF i # 0 /\ n = p[i] THEN g ELSE pointers[n]
  <2>1. CASE i = 0
    BY <1>0a, <1>null, <2>1 DEF Entered
  <2>2. CASE i # 0
    <3>1. node \in Nodes /\ node # Null /\ node # g /\ node = p[i]
      BY <1>4, <1>node, <2>2
    <3>2. linked = [pointers EXCEPT ![g] = pointers[node], ![node] = g]
      BY <3>1 DEF Entered
    <3> QED
      BY <2>2, <3>1, <3>2
  <2> QED
    BY <2>1, <2>2
<1> HIDE DEF linked
<1>9. ASSUME NEW k \in 1 .. Len(q)
      PROVE  linked[q[k]] = IF k = Len(q) THEN Null ELSE q[k + 1]
  <2>1. CASE k < i
    <3>1. q[k] = p[k] /\ q[k + 1] = p[k + 1] /\ k # Len(q) /\ k # Len(p)
      <4>1. /\ k \in 1 .. Len(p) + 1 /\ k + 1 \in 1 .. Len(p) + 1 /\ k <= i /\ k + 1 <= i
            /\ k # Len(p) + 1 /\ k # Len(p)
        BY <1>in, <1>2, <2>1
      <4> QED
        BY <1>2, <4>1
    <3>2. k \in 1 .. Len(p) /\ i \in 1 .. Len(p)
      BY <1>in, <1>1, <1>2, <2>1
    <3>3. p[k] # p[i] /\ p[k] # g /\ p[k] \in Nodes
      BY <1>in, <1>1, <1>one, <1>4, <2>1, <3>2
    <3>4. pointers[p[k]] = p[k + 1]
      BY <1>to, <3>1, <3>2
    <3> QED
      BY <1>8, <3>1, <3>3, <3>4
  <2>2. CASE k = i
    <3>1. q[k] = p[i] /\ q[k + 1] = g /\ k # Len(q) /\ i # 0
      BY <1>in, <1>1, <1>2, <2>2
    <3> QED
      BY <1>in, <1>1, <1>2, <1>4, <1>8, <2>2, <3>1
  <2>3. CASE k = i + 1 /\ i = 0
    <3>1. q[k] = g /\ linked[g] = first
      BY <1>in, <1>1, <1>2, <1>8, <2>3
    <3>2. first = IF k = Len(q) THEN Null ELSE q[k + 1]
      BY <1>in, <1>1, <1>ends, <1>2, <2>3
    <3> QED
      BY <3>1, <3>2
  <2>4. CASE k = i + 1 /\ i # 0
    <3>1. q[k] = g /\ linked[g] = pointers[p[i]]
      BY <1>in, <1>1, <1>2, <1>8, <2>4
    <3>2. pointers[p[i]] = IF k = Len(q) THEN Null ELSE q[k + 1]
      <4>1. i \in 1 .. Len(p) /\ (k = Len(q) <=> i = Len(p))
        BY <1>in, <1>2, <2>4
      <4>2. ASSUME k # Len(q) PROVE q[k + 1] = p[i + 1]
        <5>1. k + 1 \in 1 .. Len(p) + 1 /\ ~(k + 1 <= i) /\ k + 1 # i + 1
              /\ k + 1 - 1 = i + 1
          BY <1>in, <1>2, <2>4, <4>1, <4>2
        <5> QED
          BY <1>2, <5>1
      <4> QED
        BY <1>to, <4>1, <4>2
    <3> QED
      BY <3>1, <3>2
  <2>5. CASE k > i + 1
    <3>1. q[k] = p[k - 1] /\ k - 1 \in 1 .. Len(p)
      <4>1. k \in 1 .. Len(p) + 1 /\ ~(k <= i) /\ k # i + 1 /\ k - 1 \in 1 .. Len(p)
        BY <1>in, <1>2, <2>5
      <4> QED
        BY <1>2, <4>1
    <3>2. p[k - 1] # g /\ (i # 0 => p[k - 1] # p[i])
      BY <1>in, <1>1, <1>one, <1>4, <2>5, <3>1
    <3>3. linked[q[k]] = pointers[p[k - 1]]
      BY <1>in, <1>1, <1>8, <3>1, <3>2
    <3>4. pointers[p[k - 1]] = IF k = Len(q) THEN Null ELSE q[k + 1]
      <4>1. k - 1 \in 1 .. Len(p) /\ (k = Len(q) <=> k - 1 = Len(p))
        BY <1>in, <1>1, <1>2, <2>5
      <4>2. ASSUME k # Len(q) PROVE q[k + 1] = p[k - 1 + 1]
        <5>1. k + 1 \in 1 .. Len(p) + 1 /\ ~(k + 1 <= i) /\ k + 1 # i + 1
              /\ k + 1 - 1 = k - 1 + 1
          BY <1>in, <1>1, <1>2, <2>5, <4>1, <4>2
        <5> QED
          BY <1>2, <5>1
      <4> QED
        BY <1>to, <4>1, <4>2
    <3> QED
      BY <3>3, <3>4
  <2> QED
    BY <1>in, <1>1, <1>2, <2>1, <2>2, <2>3, <2>4, <2>5
<1>10. Links(linked, q, q[1], q[Len(q)])
  <2>1. Len(q) # 0
    BY <1>in, <1>2
  <2> QED
    BY <1>2, <1>5, <1>9, <2>1, LinksIf
<1>12. node = last <=> i = Len(p)
  <2>1. CASE i = 0
    BY <1>in, <1>1, <1>ends, <1>null, <2>1
  <2>2. CASE i # 0
    <3>1. Len(p) \in 1 .. Len(p) /\ Len(p) # 0
      BY <1>in, <1>node, <2>2
    <3> QED
      BY <1>node, <1>one, <1>ends, <2>2, <3>1
  <2> QED
    BY <2>1, <2>2
<1>13. /\ q[1] = (IF node = Null THEN g ELSE first)
       /\ q[Len(q)] = (IF node = last THEN g ELSE last)
  BY <1>6, <1>7, <1>12, <1>node, <1>null
<1>11. ToSet(q) = ToSet(p) \cup {g}
  <2>1. ASSUME NEW k \in 1 .. Len(q) PROVE q[k] \in ToSet(p) \cup {g}
    <3>1. CASE k <= i
      BY <1>in, <1>1, <1>2, <3>1 DEF ToSet
    <3>2. CASE k = i + 1
      BY <1>in, <1>1, <1>2, <3>2
    <3>3. CASE k > i + 1
      <4>1. k - 1 \in 1 .. Len(p) /\ q[k] = p[k - 1]
        BY <1>in, <1>1, <1>2, <3>3
      <4> QED
        BY <1>in, <1>1, <4>1 DEF ToSet
    <3>4. k <= i \/ k = i + 1 \/ k > i + 1
      BY <1>in, <1>1, <1>2
    <3> QED
      BY <3>1, <3>2, <3>3, <3>4
  <2>2. ASSUME NEW k \in 1 .. Len(p) PROVE p[k] \in ToSet(q)
    <3>1. CASE k <= i
      <4>1. k \in 1 .. Len(p) + 1
        BY <1>in
      <4>2. q[k] = p[k]
        BY <1>2, <3>1, <4>1
      <4> QED
        BY <1>2, <1>3, <4>1, <4>2 DEF ToSet
    <3>2. CASE k > i
      <4>1. q[k + 1] = p[k] /\ k + 1 \in 1 .. Len(q)
        BY <1>in, <1>1, <1>2, <3>2
      <4> QED
        BY <1>3, <4>1 DEF ToSet
    <3> QED
      BY <1>in, <3>1, <3>2
  <2>3. q[i + 1] = g /\ i + 1 \in 1 .. Len(q)
    BY <1>in, <1>1, <1>2
  <2> QED
    BY <1>in, <1>1, <1>3, <2>1, <2>2, <2>3 DEF ToSet
<1>14. node # Null => node \in ToSet(p)
  BY <1>in, <1>1, <1>node, <1>null DEF ToSet
<1>15. \A n \in Nodes : n # g /\ n # node => linked[n] = pointers[n]
  BY <1>8, <1>node
<1> QED
  BY <1>8, <1>10, <1>11, <1>13, <1>14, <1>15 DEF q, linked

\* The first node is taken off.
LEMMA LinksTail ==
    ASSUME NEW pointers, NEW p, NEW first, NEW last,
           Links(pointers, p, first, last), first # Null
    PROVE  /\ Links(pointers, Tail(p), pointers[first],
                    IF pointers[first] = Null THEN Null ELSE last)
           /\ p # <<>> /\ first = p[1]
           /\ first \in ToSet(p) /\ ToSet(Tail(p)) = ToSet(p) \ {first}
<1> DEFINE q == Tail(p)  n == Len(p)
<1>1. /\ p \in Seq(Nodes) /\ n \in Nat /\ DOMAIN p = 1 .. n
      /\ \A k \in 1 .. n : p[k] \in Nodes /\ p[k] # Null
  BY LinksFacts
<1>2. \A k, j \in 1 .. n : p[k] = p[j] => k = j
  BY LinksFacts
<1>3. n # 0 /\ p # <<>> /\ first = p[1] /\ last = p[n]
  BY LinksFacts, EmptySeq
<1>4. \A k \in 1 .. n : pointers[p[k]] = IF k = n THEN Null ELSE p[k + 1]
  BY LinksFacts
<1>5. /\ q \in Seq(Nodes) /\ Len(q) = n - 1 /\ DOMAIN q = 1 .. n - 1
      /\ \A k \in 1 .. n - 1 : q[k] = p[k + 1]
  <2>1. /\ q \in Seq(Nodes) /\ Len(q) = n - 1
        /\ \A k \in 1 .. Len(q) : q[k] = p[k + 1]
    BY <1>1, <1>3, HeadTailProperties
  <2> QED
    BY <2>1, LenProperties
<1> HIDE DEF q, n
<1>6. \A k \in 1 .. n - 1 : k \in 1 .. n /\ k + 1 \in 1 .. n /\ k + 1 # 1
  BY <1>1
<1>7. \A k, j \in 1 .. n - 1 : q[k] = q[j] => k = j
  <2> SUFFICES ASSUME NEW k \in 1 .. n - 1, NEW j \in 1 .. n - 1, q[k] = q[j]
               PROVE  k = j
    OBVIOUS
  <2>1. k + 1 = j + 1
    BY <1>2, <1>5, <1>6
  <2> QED
    BY <2>1
<1>8. 1 \in 1 .. n /\ n - 1 \in Nat /\ (n # 1 => n - 1 \in 1 .. n - 1 /\ 1 \in 1 .. n - 1)
  BY <1>1, <1>3
<1>9. pointers[first] = IF n = 1 THEN Null ELSE p[2]
  BY <1>3, <1>4, <1>8
<1>10. pointers[first] = Null <=> n = 1
  <2>1. n # 1 => 2 \in 1 .. n
    BY <1>8, <1>1, <1>3
  <2> QED
    BY <1>1, <1>9, <2>1
<1>11. pointers[first] = IF n - 1 = 0 THEN Null ELSE q[1]
  BY <1>1, <1>5, <1>8, <1>9
<1>12. (IF pointers[first] = Null THEN Null ELSE last) =
         IF n - 1 = 0 THEN Null ELSE q[n - 1]
  <2>1. CASE n = 1
    BY <1>10, <2>1
  <2>2. CASE n # 1
    <3>1. q[n - 1] = p[n - 1 + 1] /\ n - 1 + 1 = n /\ n - 1 # 0
      BY <1>1, <1>5, <1>8, <2>2
    <3> QED
      BY <1>3, <1>10, <2>2, <3>1
  <2> QED
    BY <2>1, <2>2
<1>13. ASSUME NEW k \in 1 .. n - 1
       PROVE  pointers[q[k]] = IF k = n - 1 THEN Null ELSE q[k + 1]
  <2>1. pointers[p[k + 1]] = IF k + 1 = n THEN Null ELSE p[k + 1 + 1]
    BY <1>4, <1>6
  <2>2. (k + 1 = n <=> k = n - 1) /\ (k # n - 1 => k + 1 \in 1 .. n - 1)
    BY <1>1
  <2>3. k # n - 1 => q[k + 1] = p[k + 1 + 1]
    BY <1>5, <2>2
  <2> QED
    BY <1>5, <2>1, <2>2, <2>3
<1>14. Links(pointers, q, pointers[first],
             IF pointers[first] = Null THEN Null ELSE last)
  BY <1>5, <1>7, <1>11, <1>12, <1>13, LinksIf
<1>15. ToSet(q) = ToSet(p) \ {first}
  <2>1. ASSUME NEW k \in 1 .. n - 1 PROVE q[k] \in ToSet(p) \ {first}
    BY <1>1, <1>2, <1>3, <1>5, <1>6, <1>8 DEF ToSet
  <2>2. ASSUME NEW k \in 1 .. n, p[k] # first PROVE p[k] \in ToSet(q)
    <3>1. k # 1
      BY <1>3, <2>2
    <3>2. k - 1 \in 1 .. n - 1 /\ k - 1 + 1 = k
      BY <1>1, <3>1
    <3>3. q[k - 1] = p[k]
      BY <1>5, <3>2
    <3> QED
      BY <1>5, <3>2, <3>3 DEF ToSet
  <2> QED
    BY <1>1, <1>5, <2>1, <2>2 DEF ToSet
<1> QED
  BY <1>1, <1>3, <1>8, <1>14, <1>15 DEF q, ToSet

\* A chain is linked to the end of another one.
LEMMA LinksJoin ==
    ASSUME NEW pointers \in [Nodes -> Nodes \cup {Null}],
           NEW p, NEW first, NEW last, Links(pointers, p, first, last), last # Null,
           NEW q, NEW next2, NEW last2, Links(pointers, q, next2, last2), q # <<>>,
           ToSet(p) \cap ToSet(q) = {}
    PROVE  /\ Links([pointers EXCEPT ![last] = next2], p \o q, first, last2)
           /\ ToSet(p \o q) = ToSet(p) \cup ToSet(q)
           /\ last \in ToSet(p)
<1> DEFINE m == Len(p)  n == Len(q)  r == p \o q
           linked == [pointers EXCEPT ![last] = next2]
<1>1. /\ p \in Seq(Nodes) /\ m \in Nat /\ DOMAIN p = 1 .. m
      /\ \A k \in 1 .. m : p[k] \in Nodes /\ p[k] # Null
  BY LinksFacts
<1>2. \A k, j \in 1 .. m : p[k] = p[j] => k = j
  BY LinksFacts
<1>3. m # 0 /\ first = p[1] /\ last = p[m]
  BY LinksFacts
<1>4. \A k \in 1 .. m : pointers[p[k]] = IF k = m THEN Null ELSE p[k + 1]
  BY LinksFacts
<1>5. /\ q \in Seq(Nodes) /\ n \in Nat /\ DOMAIN q = 1 .. n
      /\ \A k \in 1 .. n : q[k] \in Nodes /\ q[k] # Null
  BY LinksFacts
<1>6. \A k, j \in 1 .. n : q[k] = q[j] => k = j
  BY LinksFacts
<1>7. n # 0 /\ next2 = q[1] /\ last2 = q[n]
  BY LinksFacts, EmptySeq
<1>8. \A k \in 1 .. n : pointers[q[k]] = IF k = n THEN Null ELSE q[k + 1]
  BY LinksFacts
<1>9. \A k \in 1 .. m, j \in 1 .. n : p[k] # q[j]
  BY <1>1, <1>5 DEF ToSet
<1>10. /\ r \in Seq(Nodes) /\ Len(r) = m + n
       /\ \A k \in 1 .. m + n : r[k] = IF k <= m THEN p[k] ELSE q[k - m]
  BY <1>1, <1>5, ConcatProperties
<1>11. DOMAIN r = 1 .. m + n
  BY <1>10, LenProperties
<1> HIDE DEF n, r
<1>22. Len(r) = m + n
  BY <1>10
<1> HIDE DEF m
<1>20. \A k \in 1 .. m + n : k <= m => r[k] = p[k]
  BY <1>10
<1>21. \A k \in 1 .. m + n : ~(k <= m) => r[k] = q[k - m]
  BY <1>10
<1>12. ASSUME NEW k \in 1 .. m + n
       PROVE  \/ k \in 1 .. m /\ r[k] = p[k]
              \/ k - m \in 1 .. n /\ ~(k <= m) /\ r[k] = q[k - m]
  BY <1>1, <1>5, <1>10
<1>13. \A k, j \in 1 .. m + n : r[k] = r[j] => k = j
  <2> SUFFICES ASSUME NEW k \in 1 .. m + n, NEW j \in 1 .. m + n, r[k] = r[j]
               PROVE  k = j
    OBVIOUS
  <2>1. CASE k \in 1 .. m /\ r[k] = p[k] /\ j \in 1 .. m /\ r[j] = p[j]
    BY <1>2, <2>1
  <2>2. CASE k - m \in 1 .. n /\ r[k] = q[k - m] /\ j - m \in 1 .. n /\ r[j] = q[j - m]
    <3>1. k - m = j - m
      BY <1>6, <2>2
    <3> QED
      BY <1>1, <3>1
  <2> QED
    BY <1>9, <1>12, <2>1, <2>2
<1>14. 1 \in 1 .. m /\ m \in 1 .. m /\ n \in 1 .. n /\ m + n # 0
  BY <1>1, <1>3, <1>5, <1>7
<1>15. r[1] = first /\ r[m + n] = last2
  <2>1. 1 \in 1 .. m + n /\ 1 <= m /\ m + n \in 1 .. m + n /\ ~(m + n <= m) /\ m + n - m = n
    BY <1>1, <1>3, <1>5, <1>7
  <2> QED
    <3>1. r[1] = p[1]
      BY <1>20, <2>1
    <3>2. r[m + n] = q[m + n - m]
      BY <1>1, <1>5, <1>21, <2>1
    <3> QED
      BY <1>3, <1>7, <2>1, <3>1, <3>2
<1>16. /\ linked[last] = next2
       /\ \A k \in Nodes : k # last => linked[k] = pointers[k]
  BY <1>1, <1>3, <1>14
<1> HIDE DEF linked
<1>17. ASSUME NEW k \in 1 .. m + n
       PROVE  linked[r[k]] = IF k = m + n THEN Null ELSE r[k + 1]
  <2>1. CASE k < m
    <3>1. /\ k \in 1 .. m /\ k + 1 \in 1 .. m + n /\ k <= m /\ k + 1 <= m
          /\ k # m /\ k # m + n
      BY <1>1, <1>5, <2>1
    <3>2. r[k] = p[k] /\ r[k + 1] = p[k + 1]
      BY <1>10, <3>1
    <3>3. p[k] # last /\ p[k] \in Nodes
      BY <1>1, <1>2, <1>3, <1>14, <3>1
    <3> QED
      BY <1>4, <1>16, <3>1, <3>2, <3>3
  <2>2. CASE k = m
    <3>1. /\ m \in 1 .. m + n /\ m <= m /\ m + 1 \in 1 .. m + n /\ ~(m + 1 <= m)
          /\ m + 1 - m = 1 /\ m # m + n
      BY <1>1, <1>5, <1>7, <1>14
    <3>2. r[m] = last /\ r[m + 1] = next2
      BY <1>3, <1>7, <1>10, <3>1
    <3> QED
      BY <1>16, <2>2, <3>1, <3>2
  <2>3. CASE k > m
    <3>1. /\ k - m \in 1 .. n /\ ~(k <= m)
          /\ k - m = n <=> k = m + n
      BY <1>1, <1>5, <2>3
    <3>2. r[k] = q[k - m] /\ q[k - m] # last /\ q[k - m] \in Nodes
      BY <1>3, <1>5, <1>9, <1>10, <1>14, <3>1
    <3>3. ASSUME k # m + n PROVE r[k + 1] = q[k - m + 1]
      <4>1. k + 1 \in 1 .. m + n /\ ~(k + 1 <= m) /\ k + 1 - m = k - m + 1
        BY <1>1, <1>5, <2>3, <3>3
      <4> QED
        <5>1. r[k + 1] = q[k + 1 - m]
          BY <1>1, <1>5, <1>21, <4>1
        <5> QED
          BY <4>1, <5>1
    <3>4. pointers[q[k - m]] = IF k - m = n THEN Null ELSE q[k - m + 1]
      BY <1>8, <3>1
    <3> QED
      BY <1>16, <3>1, <3>2, <3>3, <3>4
  <2>4. k < m \/ k = m \/ k > m
    BY <1>1, <1>5
  <2> QED
    BY <2>1, <2>2, <2>3, <2>4
<1>18. Links(linked, r, first, last2)
  <2>1. /\ first = IF m + n = 0 THEN Null ELSE r[1]
        /\ last2 = IF m + n = 0 THEN Null ELSE r[m + n]
    BY <1>14, <1>15
  <2> QED
    <3> DEFINE l == Len(r)
    <3>1. l = m + n
      BY <1>22
    <3> HIDE DEF l
    <3>2. /\ \A k, j \in 1 .. l : r[k] = r[j] => k = j
          /\ first = (IF l = 0 THEN Null ELSE r[1])
          /\ last2 = (IF l = 0 THEN Null ELSE r[l])
          /\ \A k \in 1 .. l : linked[r[k]] = IF k = l THEN Null ELSE r[k + 1]
      BY <1>13, <1>17, <2>1, <3>1
    <3> QED
      BY <1>10, <3>2, LinksIf DEF l
<1>19. ToSet(r) = ToSet(p) \cup ToSet(q)
  <2>1. ASSUME NEW k \in 1 .. m + n PROVE r[k] \in ToSet(p) \cup ToSet(q)
    BY <1>1, <1>5, <1>12 DEF ToSet
  <2>2. ASSUME NEW k \in 1 .. m PROVE p[k] \in ToSet(r)
    <3>1. k \in 1 .. m + n /\ k <= m
      BY <1>1, <1>5
    <3> QED
      BY <1>10, <1>11, <3>1 DEF ToSet
  <2>3. ASSUME NEW k \in 1 .. n PROVE q[k] \in ToSet(r)
    <3>1. k + m \in 1 .. m + n /\ ~(k + m <= m) /\ k + m - m = k
      BY <1>1, <1>5
    <3>2. r[k + m] = q[k]
      <4>1. r[k + m] = q[k + m - m]
        BY <1>1, <1>5, <1>21, <3>1
      <4> QED
        BY <3>1, <4>1
    <3> QED
      BY <1>11, <3>1, <3>2 DEF ToSet
  <2> QED
    BY <1>1, <1>5, <1>11, <2>1, <2>2, <2>3 DEF ToSet
<1> QED
  BY <1>1, <1>3, <1>14, <1>18, <1>19 DEF linked, r, ToSet

\* An item less.
LEMMA RemoveAtFacts ==
    ASSUME NEW S, NEW s \in Seq(S), NEW i \in 1 .. Len(s)
    PROVE  /\ RemoveAt(s, i) \in Seq(S)
           /\ Len(RemoveAt(s, i)) = Len(s) - 1
           /\ \A k \in 1 .. Len(s) - 1 :
                RemoveAt(s, i)[k] = IF k < i THEN s[k] ELSE s[k + 1]
<1> DEFINE n == Len(s)
           a == SubSeq(s, 1, i - 1)
           b == SubSeq(s, i + 1, Len(s))
           c == a \o b
<1>1. RemoveAt(s, i) = c
  BY DEF RemoveAt
<1>2. n \in Nat /\ i \in 1 .. n /\ \A k \in 1 .. n : s[k] \in S
  BY LenProperties, ElementOfSeq
<1>3. a \in Seq(S) /\ Len(a) = i - 1 /\ \A k \in 1 .. i - 1 : a[k] = s[k]
  <2>1. \A k \in 1 .. i - 1 : s[k] \in S
    BY <1>2
  <2> QED
    BY <1>2, <2>1, SubSeqProperties
<1>4. /\ b \in Seq(S) /\ Len(b) = n - i
      /\ \A k \in 1 .. n - i : b[k] = s[i + k]
  <2>1. \A k \in i + 1 .. n : s[k] \in S
    BY <1>2
  <2>2. /\ b \in Seq(S) /\ Len(b) = IF i + 1 <= n THEN n - (i + 1) + 1 ELSE 0
        /\ \A k \in 1 .. n - (i + 1) + 1 : b[k] = s[i + 1 + k - 1]
    BY <1>2, <2>1, SubSeqProperties
  <2>3. \A k \in 1 .. n - i : k \in 1 .. n - (i + 1) + 1 /\ i + 1 + k - 1 = i + k
    BY <1>2
  <2> QED
    BY <1>2, <2>2, <2>3
<1> HIDE DEF a, b, n
<1>5. /\ c \in Seq(S)
      /\ Len(c) = Len(a) + Len(b)
      /\ \A k \in 1 .. Len(a) + Len(b) :
            c[k] = IF k <= Len(a) THEN a[k] ELSE b[k - Len(a)]
  BY <1>3, <1>4, ConcatProperties
<1> HIDE DEF c
<1>6. ASSUME NEW k \in 1 .. n - 1
      PROVE  c[k] = IF k < i THEN s[k] ELSE s[k + 1]
  <2>1. k \in 1 .. Len(a) + Len(b)
    BY <1>2, <1>3, <1>4
  <2>2. CASE k < i
    <3>1. k \in 1 .. i - 1 /\ k <= Len(a)
      BY <1>2, <1>3, <2>2
    <3> QED
      BY <1>3, <1>5, <2>1, <2>2, <3>1
  <2>3. CASE k >= i
    <3>1. /\ k - Len(a) \in 1 .. n - i /\ ~(k <= Len(a)) /\ ~(k < i)
          /\ i + (k - Len(a)) = k + 1
      BY <1>2, <1>3, <2>3
    <3>2. c[k] = b[k - Len(a)] /\ b[k - Len(a)] = s[i + (k - Len(a))]
      BY <1>4, <1>5, <2>1, <3>1
    <3> QED
      BY <3>1, <3>2
  <2> QED
    BY <1>2, <2>2, <2>3
<1>7. Len(c) = n - 1
  BY <1>2, <1>3, <1>4, <1>5
<1> QED
  BY <1>1, <1>5, <1>6, <1>7 DEF n

\* A node that is not the first is taken out.
LEMMA LinksRemove ==
    ASSUME NEW pointers \in [Nodes -> Nodes \cup {Null}], NEW p, NEW first, NEW last,
           Links(pointers, p, first, last), NEW i \in 2 .. Len(p)
    PROVE  LET q == RemoveAt(p, i)
               linked == [pointers EXCEPT ![p[i - 1]] = pointers[p[i]], ![p[i]] = Null]
           IN  /\ Links(linked, q, first, IF p[i] = last THEN p[i - 1] ELSE last)
               /\ ToSet(q) = ToSet(p) \ {p[i]}
<1> DEFINE n == Len(p)
           q == RemoveAt(p, i)
           linked == [pointers EXCEPT ![p[i - 1]] = pointers[p[i]], ![p[i]] = Null]
<1>1. /\ p \in Seq(Nodes) /\ n \in Nat /\ DOMAIN p = 1 .. n
      /\ \A k \in 1 .. n : p[k] \in Nodes /\ p[k] # Null
  BY LinksFacts
<1>in. n \in Nat /\ i \in Nat /\ 2 <= i /\ i <= n
  BY <1>1
<1>one. \A k, j \in 1 .. n : p[k] = p[j] => k = j
  BY LinksFacts
<1>ends. first = p[1] /\ last = p[n]
  BY <1>in, LinksFacts
<1>to. \A k \in 1 .. n : pointers[p[k]] = IF k = n THEN Null ELSE p[k + 1]
  BY LinksFacts
<1>2. /\ q \in Seq(Nodes) /\ Len(q) = n - 1 /\ DOMAIN q = 1 .. n - 1
      /\ \A k \in 1 .. n - 1 : q[k] = IF k < i THEN p[k] ELSE p[k + 1]
  <2>1. i \in 1 .. Len(p)
    BY <1>1
  <2>2. /\ q \in Seq(Nodes) /\ Len(q) = n - 1
        /\ \A k \in 1 .. n - 1 : q[k] = IF k < i THEN p[k] ELSE p[k + 1]
    BY <1>1, <2>1, RemoveAtFacts
  <2> QED
    BY <2>2, LenProperties
<1> HIDE DEF n, q
<1>3. \A k \in 1 .. n - 1 : k < i => q[k] = p[k]
  BY <1>2
<1>4. \A k \in 1 .. n - 1 : ~(k < i) => q[k] = p[k + 1]
  BY <1>2
<1>5. \A k, j \in 1 .. n - 1 : q[k] = q[j] => k = j
  <2> SUFFICES ASSUME NEW k \in 1 .. n - 1, NEW j \in 1 .. n - 1, q[k] = q[j]
               PROVE  k = j
    OBVIOUS
  <2> DEFINE at(l) == IF l < i THEN l ELSE l + 1
  <2>1. at(k) \in 1 .. n /\ at(j) \in 1 .. n
    BY <1>in
  <2>2. q[k] = p[at(k)] /\ q[j] = p[at(j)]
    BY <1>3, <1>4
  <2>3. at(k) = at(j)
    BY <1>one, <2>1, <2>2
  <2> QED
    BY <1>in, <2>3
<1>6. q[1] = first
  <2>1. 1 \in 1 .. n - 1 /\ 1 < i
    BY <1>in
  <2> QED
    BY <1>3, <1>ends, <2>1
<1>7. i \in 1 .. n /\ i - 1 \in 1 .. n /\ n \in 1 .. n /\ n - 1 \in 1 .. n - 1 /\ i - 1 # i
  BY <1>in
<1>8. (IF p[i] = last THEN p[i - 1] ELSE last) = q[n - 1]
  <2>1. p[i] = last <=> i = n
    BY <1>one, <1>ends, <1>7
  <2>2. CASE i = n
    <3>1. n - 1 < i
      BY <1>in, <2>2
    <3>2. q[n - 1] = p[n - 1]
      BY <1>3, <1>7, <3>1
    <3> QED
      BY <2>1, <2>2, <3>2
  <2>3. CASE i # n
    <3>1. ~(n - 1 < i) /\ n - 1 + 1 = n
      BY <1>in, <2>3
    <3> QED
      BY <1>4, <1>7, <1>ends, <2>1, <2>3, <3>1
  <2> QED
    BY <2>2, <2>3
<1>9. /\ p[i - 1] # p[i]
      /\ linked[p[i - 1]] = pointers[p[i]]
      /\ \A k \in Nodes : k # p[i - 1] /\ k # p[i] => linked[k] = pointers[k]
  <2>1. p[i - 1] # p[i] /\ p[i - 1] \in Nodes /\ p[i] \in Nodes
    BY <1>1, <1>one, <1>7
  <2> QED
    BY <2>1
<1> HIDE DEF linked
<1>10. ASSUME NEW k \in 1 .. n - 1
       PROVE  linked[q[k]] = IF k = n - 1 THEN Null ELSE q[k + 1]
  <2>1. CASE k < i - 1
    <3>1. /\ k < i /\ k + 1 < i /\ k + 1 \in 1 .. n - 1 /\ k \in 1 .. n
          /\ k # n - 1 /\ k # n /\ k # i - 1 /\ k # i
      BY <1>in, <2>1
    <3>2. q[k] = p[k] /\ q[k + 1] = p[k + 1]
      BY <1>3, <3>1
    <3>3. p[k] # p[i - 1] /\ p[k] # p[i] /\ p[k] \in Nodes
      BY <1>1, <1>one, <1>7, <3>1
    <3> QED
      BY <1>to, <1>9, <3>1, <3>2, <3>3
  <2>2. CASE k = i - 1
    <3>1. q[k] = p[i - 1]
      <4>1. k < i
        BY <1>in, <2>2
      <4> QED
        BY <1>3, <2>2, <4>1
    <3>2. pointers[p[i]] = IF i = n THEN Null ELSE p[i + 1]
      BY <1>to, <1>7
    <3>3. k = n - 1 <=> i = n
      BY <1>in, <2>2
    <3>4. ASSUME i # n PROVE q[k + 1] = p[i + 1]
      <4>1. k + 1 \in 1 .. n - 1 /\ ~(k + 1 < i) /\ k + 1 + 1 = i + 1
        BY <1>in, <2>2, <3>4
      <4>2. q[k + 1] = p[k + 1 + 1]
        BY <1>in, <1>4, <4>1
      <4> QED
        BY <4>1, <4>2
    <3> QED
      BY <1>9, <3>1, <3>2, <3>3, <3>4
  <2>3. CASE k > i - 1
    <3>1. ~(k < i) /\ k + 1 \in 1 .. n /\ k + 1 # i /\ k + 1 # i - 1 /\ (k + 1 = n <=> k = n - 1)
      BY <1>in, <2>3
    <3>2. q[k] = p[k + 1]
      BY <1>4, <3>1
    <3>3. p[k + 1] # p[i - 1] /\ p[k + 1] # p[i] /\ p[k + 1] \in Nodes
      BY <1>1, <1>one, <1>7, <3>1
    <3>4. pointers[p[k + 1]] = IF k + 1 = n THEN Null ELSE p[k + 1 + 1]
      BY <1>to, <3>1
    <3>5. ASSUME k # n - 1 PROVE q[k + 1] = p[k + 1 + 1]
      <4>1. k + 1 \in 1 .. n - 1 /\ ~(k + 1 < i)
        BY <1>in, <2>3, <3>5
      <4> QED
        BY <1>in, <1>4, <4>1
    <3> QED
      BY <1>9, <3>1, <3>2, <3>3, <3>4, <3>5
  <2>4. k < i - 1 \/ k = i - 1 \/ k > i - 1
    BY <1>in
  <2> QED
    BY <2>1, <2>2, <2>3, <2>4
<1>11. Links(linked, q, first, IF p[i] = last THEN p[i - 1] ELSE last)
  <2> DEFINE l == Len(q)
  <2>1. l = n - 1 /\ l # 0
    BY <1>2, <1>in
  <2> HIDE DEF l
  <2>2. /\ \A k, j \in 1 .. l : q[k] = q[j] => k = j
        /\ first = (IF l = 0 THEN Null ELSE q[1])
        /\ (IF p[i] = last THEN p[i - 1] ELSE last) = (IF l = 0 THEN Null ELSE q[l])
        /\ \A k \in 1 .. l : linked[q[k]] = IF k = l THEN Null ELSE q[k + 1]
    BY <1>5, <1>6, <1>8, <1>10, <2>1
  <2> QED
    BY <1>2, <2>2, LinksIf DEF l
<1>12. ToSet(q) = ToSet(p) \ {p[i]}
  <2>1. ASSUME NEW k \in 1 .. n - 1 PROVE q[k] \in ToSet(p) \ {p[i]}
    <3>1. CASE k < i
      <4>1. k \in 1 .. n /\ k # i /\ q[k] = p[k]
        BY <1>in, <1>3, <3>1
      <4> QED
        BY <1>1, <1>one, <1>7, <4>1 DEF ToSet
    <3>2. CASE ~(k < i)
      <4>1. k + 1 \in 1 .. n /\ k + 1 # i /\ q[k] = p[k + 1]
        BY <1>in, <1>4, <3>2
      <4> QED
        BY <1>1, <1>one, <1>7, <4>1 DEF ToSet
    <3> QED
      BY <3>1, <3>2
  <2>2. ASSUME NEW k \in 1 .. n, p[k] # p[i] PROVE p[k] \in ToSet(q)
    <3>1. CASE k < i
      <4>1. k \in 1 .. n - 1 /\ q[k] = p[k]
        BY <1>in, <1>3, <3>1
      <4> QED
        BY <1>2, <4>1 DEF ToSet
    <3>2. CASE ~(k < i)
      <4>1. k - 1 \in 1 .. n - 1 /\ ~(k - 1 < i) /\ k - 1 + 1 = k
        <5>1. k # i
          BY <2>2
        <5> QED
          BY <1>in, <3>2, <5>1
      <4>2. q[k - 1] = p[k]
        BY <1>4, <4>1
      <4> QED
        BY <1>2, <4>1, <4>2 DEF ToSet
    <3> QED
      BY <3>1, <3>2
  <2> QED
    BY <1>1, <1>2, <2>1, <2>2 DEF ToSet
<1> QED
  BY <1>11, <1>12 DEF linked, q

\* Every pointer is turned round.
LEMMA LinksReverse ==
    ASSUME NEW pointers, NEW p, NEW first, NEW last, Links(pointers, p, first, last),
           NEW turned,
           \A i \in 1 .. Len(p) : turned[p[i]] = IF i = 1 THEN Null ELSE p[i - 1]
    PROVE  /\ Links(turned, Reverse(p), last, first)
           /\ ToSet(Reverse(p)) = ToSet(p)
<1> DEFINE n == Len(p)  q == Reverse(p)
<1>1. /\ p \in Seq(Nodes) /\ n \in Nat /\ DOMAIN p = 1 .. n
      /\ \A k \in 1 .. n : p[k] \in Nodes /\ p[k] # Null
  BY LinksFacts
<1>one. \A k, j \in 1 .. n : p[k] = p[j] => k = j
  BY LinksFacts
<1>ends. /\ first = (IF n = 0 THEN Null ELSE p[1])
         /\ last = (IF n = 0 THEN Null ELSE p[n])
  BY LinksFacts
<1>to. \A i \in 1 .. n : turned[p[i]] = IF i = 1 THEN Null ELSE p[i - 1]
  OBVIOUS
<1>2. \A k \in 1 .. n : n - k + 1 \in 1 .. n /\ n - (n - k + 1) + 1 = k
  BY <1>1
<1>3. q = [k \in 1 .. n |-> p[n - k + 1]]
  BY DEF Reverse
<1> HIDE DEF n, q
<1>4. q \in Seq(Nodes) /\ Len(q) = n /\ DOMAIN q = 1 .. n
  <2>1. q \in [1 .. n -> Nodes]
    BY <1>1, <1>2, <1>3
  <2> QED
    BY <1>1, <2>1
<1>5. \A k \in 1 .. n : q[k] = p[n - k + 1]
  BY <1>3
<1>6. \A k, j \in 1 .. n : q[k] = q[j] => k = j
  <2> SUFFICES ASSUME NEW k \in 1 .. n, NEW j \in 1 .. n, q[k] = q[j]
               PROVE  k = j
    OBVIOUS
  <2>1. n - k + 1 = n - j + 1
    BY <1>one, <1>2, <1>5
  <2> QED
    BY <1>1, <2>1
<1>7. n # 0 => q[1] = p[n] /\ q[n] = p[1]
  <2>1. n # 0 => 1 \in 1 .. n /\ n \in 1 .. n /\ n - 1 + 1 = n /\ n - n + 1 = 1
    BY <1>1
  <2> QED
    BY <1>5, <2>1
<1>8. ASSUME NEW k \in 1 .. n
      PROVE  turned[q[k]] = IF k = n THEN Null ELSE q[k + 1]
  <2>1. turned[q[k]] = IF n - k + 1 = 1 THEN Null ELSE p[n - k + 1 - 1]
    <3> DEFINE j == n - k + 1
    <3>1. j \in 1 .. n /\ q[k] = p[j]
      BY <1>2, <1>5
    <3>3. j = n - k + 1 /\ j - 1 = n - k + 1 - 1
      BY <1>1
    <3> HIDE DEF j
    <3>2. turned[p[j]] = IF j = 1 THEN Null ELSE p[j - 1]
      BY <1>to, <3>1
    <3> QED
      BY <3>1, <3>2, <3>3
  <2>2. n - k + 1 = 1 <=> k = n
    BY <1>1
  <2>3. ASSUME k # n PROVE q[k + 1] = p[n - k + 1 - 1]
    <3>1. k + 1 \in 1 .. n /\ n - (k + 1) + 1 = n - k + 1 - 1
      BY <1>1, <2>3
    <3>2. q[k + 1] = p[n - (k + 1) + 1]
      BY <1>1, <1>5, <3>1
    <3> QED
      BY <3>1, <3>2
  <2> QED
    BY <2>1, <2>2, <2>3
<1>9. Links(turned, q, last, first)
  BY <1>4, <1>6, <1>7, <1>8, <1>ends, LinksIf
<1>10. ToSet(q) = ToSet(p)
  <2>1. \A k \in 1 .. n : q[k] \in ToSet(p)
    BY <1>1, <1>2, <1>5 DEF ToSet
  <2>2. ASSUME NEW k \in 1 .. n PROVE p[k] \in ToSet(q)
    <3>1. q[n - k + 1] = p[n - (n - k + 1) + 1]
      BY <1>2, <1>5
    <3>2. q[n - k + 1] = p[k]
      BY <1>2, <3>1
    <3> QED
      BY <1>2, <1>4, <3>2 DEF ToSet
  <2> QED
    BY <1>1, <1>4, <2>1, <2>2 DEF ToSet
<1> QED
  BY <1>9, <1>10 DEF q

-----------------------------------------------------------------------------
(* New nodes.                                                              *)

LEMMA GuestsFacts ==
    ASSUME NEW n \in Nat, NEW g \in Guests(n)
    PROVE  /\ g \in Seq(Nodes) /\ Len(g) = n /\ DOMAIN g = 1 .. n
           /\ \A k \in 1 .. n : g[k] \in Nodes /\ g[k] \notin allocated
           /\ \A k, j \in 1 .. n : g[k] = g[j] => k = j
           /\ \A k \in 1 .. n : Position(g, g[k]) = k
           /\ ToSet(g) = {g[k] : k \in 1 .. n}
<1>1. g \in [1 .. n -> Nodes \ allocated] /\ IsInjective(g)
  BY DEF Guests
<1>2. DOMAIN g = 1 .. n
  BY <1>1
<1>3. \A k, j \in 1 .. n : g[k] = g[j] => k = j
  BY <1>1, <1>2 DEF IsInjective
<1>4. ASSUME NEW k \in 1 .. n PROVE Position(g, g[k]) = k
  BY <1>2, <1>3 DEF Position
<1>5. g \in Seq(Nodes) /\ Len(g) = n
  BY <1>1
<1> QED
  BY <1>1, <1>2, <1>3, <1>4, <1>5 DEF ToSet

\* The new nodes are a chain, and no other node has changed.
LEMMA LinkedGuests ==
    ASSUME NEW n \in Nat, NEW g \in Guests(n), next \in [Nodes -> Nodes \cup {Null}]
    PROVE  /\ Linked(g) \in [Nodes -> Nodes \cup {Null}]
           /\ Links(Linked(g), g, IF n = 0 THEN Null ELSE g[1], IF n = 0 THEN Null ELSE g[n])
           /\ \A k \in Nodes : k \notin ToSet(g) => Linked(g)[k] = next[k]
<1>1. /\ g \in Seq(Nodes) /\ Len(g) = n /\ DOMAIN g = 1 .. n
      /\ \A k \in 1 .. n : g[k] \in Nodes
      /\ ToSet(g) = {g[k] : k \in 1 .. n}
  BY GuestsFacts
<1>2. \A k, j \in 1 .. n : g[k] = g[j] => k = j
  BY GuestsFacts
<1>3. \A k \in 1 .. n : Position(g, g[k]) = k
  BY GuestsFacts
<1>4. Linked(g) = [k \in Nodes |->
                     IF k \notin ToSet(g) THEN next[k]
                     ELSE IF k = g[n] THEN Null ELSE g[Position(g, k) + 1]]
  BY <1>1 DEF Linked, Last
<1>5. ASSUME NEW k \in 1 .. n
      PROVE  Linked(g)[g[k]] = IF k = n THEN Null ELSE g[k + 1]
  <2>1. g[k] \in ToSet(g) /\ n \in 1 .. n
    BY <1>1
  <2>2. g[k] = g[n] <=> k = n
    BY <1>2, <2>1
  <2> QED
    BY <1>1, <1>3, <1>4, <2>1, <2>2
<1>6. \A k \in Nodes : k \notin ToSet(g) => Linked(g)[k] = next[k]
  BY <1>4
<1>7. ASSUME NEW k \in Nodes PROVE Linked(g)[k] \in Nodes \cup {Null}
  <2>1. CASE k \in ToSet(g)
    <3>1. PICK j \in 1 .. n : k = g[j]
      BY <1>1, <2>1
    <3>2. j # n => j + 1 \in 1 .. n
      OBVIOUS
    <3> QED
      BY <1>1, <1>5, <3>1, <3>2
  <2>2. CASE k \notin ToSet(g)
    BY <1>6, <2>2
  <2> QED
    BY <2>1, <2>2
<1>8. Linked(g) \in [Nodes -> Nodes \cup {Null}]
  BY <1>4, <1>7
<1> DEFINE linked == Linked(g)
<1> HIDE DEF linked
<1>9. Links(linked, g, IF n = 0 THEN Null ELSE g[1], IF n = 0 THEN Null ELSE g[n])
  BY <1>1, <1>2, <1>5, LinksIf DEF linked
<1> QED
  BY <1>6, <1>8, <1>9 DEF linked

LEMMA HoldingFacts ==
    ASSUME NEW n \in Nat, NEW g \in Guests(n), NEW values \in Seq(Int), Len(values) = n,
           data \in [Nodes -> Int]
    PROVE  /\ Holding(g, values) \in [Nodes -> Int]
           /\ \A k \in 1 .. n : Holding(g, values)[g[k]] = values[k]
           /\ \A k \in Nodes : k \notin ToSet(g) => Holding(g, values)[k] = data[k]
<1>1. /\ \A k \in 1 .. n : g[k] \in Nodes /\ Position(g, g[k]) = k
      /\ ToSet(g) = {g[k] : k \in 1 .. n}
  BY GuestsFacts
<1>2. \A k \in 1 .. n : values[k] \in Int
  BY ElementOfSeq
<1>3. Holding(g, values) = [k \in Nodes |-> IF k \in ToSet(g) THEN values[Position(g, k)]
                                            ELSE data[k]]
  BY DEF Holding
<1>4. \A k \in 1 .. n : Holding(g, values)[g[k]] = values[k]
  BY <1>1, <1>3
<1>5. \A k \in Nodes : k \notin ToSet(g) => Holding(g, values)[k] = data[k]
  BY <1>3
<1>6. ASSUME NEW k \in Nodes PROVE Holding(g, values)[k] \in Int
  <2>1. CASE k \in ToSet(g)
    BY <1>1, <1>2, <1>4, <2>1
  <2>2. CASE k \notin ToSet(g)
    BY <1>5, <2>2
  <2> QED
    BY <2>1, <2>2
<1> QED
  BY <1>3, <1>4, <1>5, <1>6

-----------------------------------------------------------------------------
(* The invariant.                                                          *)

\* p are the nodes of the chain and q those of its copy.  They share none, with each
\* other or with what was shifted, and there are no others.
Heap(p, q) ==
    /\ next \in [Nodes -> Nodes \cup {Null}]
    /\ data \in [Nodes -> Int]
    /\ comparing \in BOOLEAN
    /\ copy = [head |-> copy.head, tail |-> copy.tail]
    /\ Links(next, p, head, tail)
    /\ Links(next, q, copy.head, copy.tail)
    /\ ToSet(p) \cap ToSet(q) = {}
    /\ shifted \cap (ToSet(p) \cup ToSet(q)) = {}
    /\ shifted \subseteq Nodes
    /\ allocated = ToSet(p) \cup ToSet(q) \cup shifted

ChainInv == \E p, q \in Seq(Nodes) : Heap(p, q)

LEMMA HeapPaths ==
    ASSUME NEW p, NEW q, Heap(p, q)
    PROVE  /\ Path = p /\ CopyPath = q /\ Chained = ToSet(p)
           /\ p \in Seq(Nodes) /\ q \in Seq(Nodes)
           /\ ToSet(p) \subseteq Nodes /\ ToSet(q) \subseteq Nodes
<1>1. Path = p /\ CopyPath = q
  BY FollowLinks DEF Path, CopyPath, PathFrom, Heap
<1>2. p \in Seq(Nodes) /\ q \in Seq(Nodes)
  BY DEF Heap, Links
<1> QED
  BY <1>1, <1>2, LenProperties, ElementOfSeq DEF Chained, ToSet

\* The data of nodes.
ItemsAt(values, p) == [i \in DOMAIN p |-> values[p[i]]]

LEMMA ItemsAtFacts ==
    ASSUME NEW values \in [Nodes -> Int], NEW p \in Seq(Nodes)
    PROVE  /\ ItemsAt(values, p) \in Seq(Int)
           /\ Len(ItemsAt(values, p)) = Len(p)
           /\ \A i \in 1 .. Len(p) : ItemsAt(values, p)[i] = values[p[i]]
BY DEF ItemsAt

\* The data of other nodes does not matter.
LEMMA ItemsFrame ==
    ASSUME NEW values, NEW others, NEW p, \A n \in ToSet(p) : others[n] = values[n]
    PROVE  ItemsAt(others, p) = ItemsAt(values, p)
BY DEF ItemsAt, ToSet

LEMMA HeapContents ==
    ASSUME NEW p, NEW q, Heap(p, q)
    PROVE  Contents = ItemsAt(data, p) /\ CopyContents = ItemsAt(data, q)
BY HeapPaths DEF Contents, CopyContents, ItemsAt

LEMMA ContentsAfter ==
    ASSUME NEW p, NEW q, Heap(p, q)'
    PROVE  Contents' = ItemsAt(data', p) /\ CopyContents' = ItemsAt(data', q)
<1>1. Links(next', p, head', tail') /\ Links(next', q, copy'.head, copy'.tail)
  BY DEF Heap
<1>2. Follow(next', head') = p /\ Follow(next', copy'.head) = q
  BY <1>1, FollowLinks
<1>3. Path' = p /\ CopyPath' = q
  BY <1>2 DEF Path, CopyPath, PathFrom
<1> QED
  BY <1>3 DEF Contents, CopyContents, ItemsAt

LEMMA InvHolds == ASSUME NEW p, NEW q, Heap(p, q) PROVE ChainInv
BY HeapPaths DEF ChainInv

LEMMA InitHeap == Init => Heap(<<>>, <<>>)
<1> SUFFICES ASSUME Init PROVE Heap(<<>>, <<>>)
  OBVIOUS
<1>1. <<>> \in Seq(Nodes) /\ Len(<<>>) = 0 /\ ToSet(<<>>) = {}
  BY DEF ToSet
<1>2. Links(next, <<>>, Null, Null)
  BY <1>1 DEF Links, IsInjective
<1>3. next \in [Nodes -> Nodes \cup {Null}] /\ data \in [Nodes -> Int]
  BY DEF Init
<1>4. copy = [head |-> copy.head, tail |-> copy.tail] /\ copy.head = Null /\ copy.tail = Null
  BY DEF Init
<1> QED
  BY <1>1, <1>2, <1>3, <1>4 DEF Init, Heap

-----------------------------------------------------------------------------
(* What the operations do to the heap and to the list of items.            *)

LEMMA InsertStep ==
    ASSUME NEW p, NEW q, Heap(p, q), NEW v \in Int, NEW node, NEW at,
           PlaceAfter(p, node, at), InsertAfter(node, v)
    PROVE  \E r :
              /\ Heap(r, q)'
              /\ ItemsAt(data', r) = InsertAt(ItemsAt(data, p), at, v)
              /\ ItemsAt(data', q) = ItemsAt(data, q)
<1>1. PICK g \in Nodes \ allocated :
        /\ allocated' = allocated \cup {g}
        /\ data' = [data EXCEPT ![g] = v]
        /\ IF node # Null
           THEN /\ next' = [next EXCEPT ![g] = next[node], ![node] = g]
                /\ UNCHANGED head
           ELSE /\ next' = [next EXCEPT ![g] = head]
                /\ head' = g
        /\ tail' = IF node = tail THEN g ELSE tail
        /\ UNCHANGED <<shifted, copy, comparing>>
  BY DEF InsertAfter
<1>2. /\ next \in [Nodes -> Nodes \cup {Null}] /\ data \in [Nodes -> Int]
      /\ Links(next, p, head, tail) /\ Links(next, q, copy.head, copy.tail)
  BY DEF Heap
<1>3. /\ p \in Seq(Nodes) /\ q \in Seq(Nodes) /\ Len(p) \in Nat
      /\ ToSet(p) \subseteq Nodes /\ ToSet(q) \subseteq Nodes
  BY HeapPaths, LenProperties
<1>4. g \in Nodes /\ g \notin ToSet(p) /\ g \notin ToSet(q) /\ g \notin shifted
  BY DEF Heap
<1> DEFINE r == InsertAt(p, at, g)
<1>5. /\ Links(Entered(next, head, node, g), r,
              IF node = Null THEN g ELSE head, IF node = tail THEN g ELSE tail)
      /\ Entered(next, head, node, g) \in [Nodes -> Nodes \cup {Null}]
      /\ ToSet(r) = ToSet(p) \cup {g}
      /\ node # Null => node \in ToSet(p)
      /\ \A n \in Nodes : n # g /\ n # node => Entered(next, head, node, g)[n] = next[n]
  BY <1>2, <1>4, LinksInsert
<1> HIDE DEF r
<1>6. /\ next' = Entered(next, head, node, g)
      /\ head' = IF node = Null THEN g ELSE head
      /\ tail' = IF node = tail THEN g ELSE tail
  BY <1>1 DEF Entered
<1>11. \A n \in ToSet(q) : next'[n] = next[n] /\ data'[n] = data[n]
  <2>1. ToSet(p) \cap ToSet(q) = {}
    BY DEF Heap
  <2> QED
    <3> SUFFICES ASSUME NEW n \in ToSet(q) PROVE next'[n] = next[n] /\ data'[n] = data[n]
      OBVIOUS
    <3>1. n \in Nodes /\ n # g /\ n # node
      BY <1>3, <1>4, <1>5, <2>1, ChainAssumption
    <3>2. next'[n] = next[n]
      BY <1>5, <1>6, <3>1
    <3>3. data'[n] = data[n]
      BY <1>1, <1>2, <3>1
    <3> QED
      BY <3>2, <3>3
<1>12. Links(next', q, copy.head, copy.tail)
  BY <1>2, <1>11, LinksFrame
<1>13. data' \in [Nodes -> Int]
  BY <1>1, <1>2
<1>14. Heap(r, q)'
  <2>1. Links(next', r, head', tail')
    BY <1>5, <1>6
  <2>2. next' \in [Nodes -> Nodes \cup {Null}]
    BY <1>5, <1>6
  <2>3. copy' = copy /\ shifted' = shifted /\ comparing' = comparing
    BY <1>1
  <2>4. allocated' = ToSet(r) \cup ToSet(q) \cup shifted
    BY <1>1, <1>5 DEF Heap
  <2>5. ToSet(r) \cap ToSet(q) = {} /\ shifted \cap (ToSet(r) \cup ToSet(q)) = {}
    BY <1>4, <1>5 DEF Heap
  <2> QED
    BY <1>12, <1>13, <2>1, <2>2, <2>3, <2>4, <2>5 DEF Heap
<1>15. ItemsAt(data', r) = InsertAt(ItemsAt(data, p), at, v)
  <2>0. at \in 1 .. Len(p) + 1
    BY DEF PlaceAfter
  <2>2. /\ r \in Seq(Nodes) /\ Len(r) = Len(p) + 1
        /\ \A k \in 1 .. Len(p) + 1 :
              r[k] = IF k < at THEN p[k] ELSE IF k = at THEN g ELSE p[k - 1]
    <3> HIDE DEF r
    <3>1. p \in Seq(Nodes) /\ g \in Nodes /\ at \in 1 .. Len(p) + 1
      BY <1>3, <1>4, <2>0
    <3>2. InsertAt(p, at, g) \in Seq(Nodes) /\ Extends(InsertAt(p, at, g), p, at, g)
      BY <3>1, InsertAtNodes
    <3> QED
      BY <3>2 DEF r, Extends
  <2> DEFINE s == ItemsAt(data, p)
             t == InsertAt(s, at, v)
             u == ItemsAt(data', r)
  <2>3. s \in Seq(Int) /\ Len(s) = Len(p) /\ \A k \in 1 .. Len(p) : s[k] = data[p[k]]
    BY <1>2, <1>3, ItemsAtFacts
  <2>4. u \in Seq(Int) /\ Len(u) = Len(p) + 1 /\ \A k \in 1 .. Len(p) + 1 : u[k] = data'[r[k]]
    BY <1>13, <2>2, ItemsAtFacts
  <2> HIDE DEF s, u
  <2>5. /\ t \in Seq(Int) /\ Len(t) = Len(p) + 1
        /\ \A k \in 1 .. Len(p) + 1 :
              t[k] = IF k < at THEN s[k] ELSE IF k = at THEN v ELSE s[k - 1]
    <3>1. at \in 1 .. Len(s) + 1
      BY <2>0, <2>3
    <3>2. /\ t \in Seq(Int) /\ Len(t) = Len(s) + 1
          /\ \A k \in 1 .. Len(s) + 1 :
                t[k] = IF k < at THEN s[k] ELSE IF k = at THEN v ELSE s[k - 1]
      <4>1. s \in Seq(Int) /\ v \in Int
        BY <2>3
      <4> HIDE DEF t
      <4>2. InsertAt(s, at, v) \in Seq(Int) /\ Extends(InsertAt(s, at, v), s, at, v)
        BY <3>1, <4>1, InsertAtInts
      <4> QED
        BY <4>2 DEF t, Extends
    <3> QED
      BY <2>3, <3>2
  <2> HIDE DEF t
  <2>6. \A k \in 1 .. Len(p) : p[k] \in Nodes /\ p[k] # g
    BY <1>3, <1>4, LenProperties, ElementOfSeq DEF ToSet
  <2>7. data'[g] = v /\ \A n \in Nodes : n # g => data'[n] = data[n]
    BY <1>1, <1>2, <1>4
  <2>8. ASSUME NEW k \in 1 .. Len(p) + 1 PROVE u[k] = t[k]
    <3>1. CASE k < at
      <4>1. k \in 1 .. Len(p)
        BY <1>3, <2>0, <3>1
      <4> QED
        <5>1. r[k] = p[k] /\ t[k] = s[k]
          BY <2>2, <2>5, <3>1
        <5>2. s[k] = data[p[k]] /\ u[k] = data'[p[k]] /\ p[k] \in Nodes /\ p[k] # g
          BY <2>3, <2>4, <2>6, <4>1, <5>1
        <5> QED
          BY <2>7, <5>1, <5>2
    <3>2. CASE k = at
      BY <2>0, <2>2, <2>4, <2>5, <2>7, <3>2
    <3>3. CASE k > at
      <4>1. k - 1 \in 1 .. Len(p) /\ ~(k < at) /\ k # at
        BY <1>3, <2>0, <3>3
      <4>2. u[k] = data'[p[k - 1]] /\ t[k] = s[k - 1]
        BY <2>2, <2>4, <2>5, <4>1
      <4> QED
        BY <2>3, <2>6, <2>7, <4>1, <4>2
    <3> QED
      BY <2>0, <3>1, <3>2, <3>3
  <2>9. u = t
    <3>1. Len(u) = Len(t) /\ \A k \in 1 .. Len(u) : u[k] = t[k]
      BY <2>4, <2>5, <2>8
    <3> QED
      BY <2>4, <2>5, <3>1, SeqEqual
  <2> QED
    BY <2>9, Zenon DEF s, t, u
<1>16. ItemsAt(data', q) = ItemsAt(data, q)
  BY <1>11, ItemsFrame
<1> QED
  BY <1>14, <1>15, <1>16

\* Every node of the chain, and none, is a place.
LEMMA PlaceFacts ==
    ASSUME NEW p, NEW q, Heap(p, q)
    PROVE  /\ \A node \in Chained \cup {Null} : \E at : PlaceAfter(p, node, at)
           /\ PlaceAfter(p, tail, Len(p) + 1)
           /\ PlaceAfter(p, Null, 1)
<1>1. Len(p) \in Nat /\ Chained = ToSet(p) /\ DOMAIN p = 1 .. Len(p)
  BY HeapPaths, LenProperties
<1>2. PlaceAfter(p, Null, 1)
  BY <1>1 DEF PlaceAfter
<1>3. PlaceAfter(p, tail, Len(p) + 1)
  <2>1. tail = (IF Len(p) = 0 THEN Null ELSE p[Len(p)])
    BY LinksFacts DEF Heap
  <2> QED
    BY <1>1, <2>1 DEF PlaceAfter
<1>4. ASSUME NEW node \in ToSet(p) PROVE \E at : PlaceAfter(p, node, at)
  <2>1. PICK i \in 1 .. Len(p) : node = p[i]
    BY <1>1 DEF ToSet
  <2>2. PlaceAfter(p, node, i + 1)
    BY <1>1, <2>1 DEF PlaceAfter
  <2> QED
    BY <2>2
<1> QED
  BY <1>1, <1>2, <1>3, <1>4

LEMMA ConcatInts ==
    ASSUME NEW s \in Seq(Int), NEW t \in Seq(Int)
    PROVE  /\ s \o t \in Seq(Int)
           /\ Len(s \o t) = Len(s) + Len(t)
           /\ \A i \in 1 .. Len(s) + Len(t) : (s \o t)[i] =
                     IF i <= Len(s) THEN s[i] ELSE t[i - Len(s)]
BY ConcatProperties

\* The data of two chains, one behind the other.
LEMMA ItemsJoin ==
    ASSUME NEW values \in [Nodes -> Int], NEW p \in Seq(Nodes), NEW r \in Seq(Nodes)
    PROVE  ItemsAt(values, p \o r) = ItemsAt(values, p) \o ItemsAt(values, r)
<1> DEFINE s == ItemsAt(values, p)
           t == ItemsAt(values, r)
           u == ItemsAt(values, p \o r)
<1>1. /\ s \in Seq(Int) /\ Len(s) = Len(p) /\ Len(p) \in Nat
      /\ \A i \in 1 .. Len(p) : s[i] = values[p[i]]
  BY ItemsAtFacts, LenProperties
<1>2. /\ t \in Seq(Int) /\ Len(t) = Len(r) /\ Len(r) \in Nat
      /\ \A i \in 1 .. Len(r) : t[i] = values[r[i]]
  BY ItemsAtFacts, LenProperties
<1>3. /\ p \o r \in Seq(Nodes) /\ Len(p \o r) = Len(p) + Len(r)
      /\ \A i \in 1 .. Len(p) + Len(r) :
            (p \o r)[i] = IF i <= Len(p) THEN p[i] ELSE r[i - Len(p)]
  BY ConcatProperties
<1>4. /\ u \in Seq(Int) /\ Len(u) = Len(p) + Len(r)
      /\ \A i \in 1 .. Len(p) + Len(r) : u[i] = values[(p \o r)[i]]
  BY <1>3, ItemsAtFacts
<1> HIDE DEF s, t, u
<1>5. /\ s \o t \in Seq(Int) /\ Len(s \o t) = Len(s) + Len(t)
      /\ \A i \in 1 .. Len(s) + Len(t) :
            (s \o t)[i] = IF i <= Len(s) THEN s[i] ELSE t[i - Len(s)]
  BY <1>1, <1>2, ConcatInts
<1>6. ASSUME NEW i \in 1 .. Len(p) + Len(r) PROVE u[i] = (s \o t)[i]
  <2>1. CASE i <= Len(p)
    <3>1. i \in 1 .. Len(p)
      BY <1>1, <1>2, <2>1
    <3> QED
      BY <1>1, <1>2, <1>3, <1>4, <1>5, <2>1, <3>1
  <2>2. CASE ~(i <= Len(p))
    <3>1. i - Len(p) \in 1 .. Len(r)
      BY <1>1, <1>2, <2>2
    <3> QED
      <4>1. u[i] = values[r[i - Len(p)]]
        BY <1>3, <1>4, <2>2
      <4>2. (s \o t)[i] = t[i - Len(p)]
        BY <1>1, <1>2, <1>5, <2>2
      <4> QED
        BY <1>2, <3>1, <4>1, <4>2
  <2> QED
    BY <2>1, <2>2
<1>7. u = s \o t
  BY <1>1, <1>2, <1>4, <1>5, <1>6, SeqEqual
<1> QED
  BY <1>7 DEF s, t, u

LEMMA AppendAllStep ==
    ASSUME NEW p, NEW q, Heap(p, q), NEW values \in Seq(Int), values # <<>>,
           AppendAll(values)
    PROVE  \E r :
              /\ Heap(r, q)'
              /\ ItemsAt(data', r) = ItemsAt(data, p) \o values
              /\ ItemsAt(data', q) = ItemsAt(data, q)
<1> DEFINE n == Len(values)
<1>1. n \in Nat /\ n # 0
  BY EmptySeq, LenProperties
<1>2. PICK g \in Guests(n) :
        /\ allocated' = allocated \cup ToSet(g)
        /\ data' = Holding(g, values)
        /\ IF tail # Null
           THEN /\ next' = [Linked(g) EXCEPT ![tail] = g[1]]
                /\ UNCHANGED head
           ELSE /\ next' = Linked(g)
                /\ head' = g[1]
        /\ tail' = Last(g)
        /\ UNCHANGED <<shifted, copy, comparing>>
  BY DEF AppendAll
<1> HIDE DEF n
<1>3. /\ next \in [Nodes -> Nodes \cup {Null}] /\ data \in [Nodes -> Int]
      /\ Links(next, p, head, tail) /\ Links(next, q, copy.head, copy.tail)
  BY DEF Heap
<1>4. /\ p \in Seq(Nodes) /\ q \in Seq(Nodes)
      /\ ToSet(p) \subseteq Nodes /\ ToSet(q) \subseteq Nodes
  BY HeapPaths
<1>5. /\ g \in Seq(Nodes) /\ Len(g) = n /\ g # <<>>
      /\ \A k \in 1 .. n : g[k] \in Nodes /\ g[k] \notin allocated
      /\ ToSet(g) = {g[k] : k \in 1 .. n}
  BY <1>1, GuestsFacts, EmptySeq
<1>6. /\ ToSet(g) \cap ToSet(p) = {} /\ ToSet(g) \cap ToSet(q) = {}
      /\ ToSet(g) \cap shifted = {} /\ ToSet(g) \subseteq Nodes
  BY <1>5 DEF Heap
<1>7. /\ Linked(g) \in [Nodes -> Nodes \cup {Null}]
      /\ Links(Linked(g), g, g[1], g[n])
      /\ \A k \in Nodes : k \notin ToSet(g) => Linked(g)[k] = next[k]
  BY <1>1, <1>3, LinkedGuests
<1>8. /\ data' \in [Nodes -> Int]
      /\ \A k \in 1 .. n : data'[g[k]] = values[k]
      /\ \A k \in Nodes : k \notin ToSet(g) => data'[k] = data[k]
  BY <1>1, <1>2, <1>3, HoldingFacts DEF n
<1>9. Links(Linked(g), p, head, tail) /\ Links(Linked(g), q, copy.head, copy.tail)
  <2>1. /\ \A k \in ToSet(p) : Linked(g)[k] = next[k]
        /\ \A k \in ToSet(q) : Linked(g)[k] = next[k]
    BY <1>4, <1>6, <1>7
  <2> QED
    BY <1>3, <2>1, LinksFrame
<1>10. tail = Null <=> p = <<>>
  <2>1. \A k \in 1 .. Len(p) : p[k] # Null
    BY <1>3, LinksFacts
  <2>2. p # <<>> => Len(p) \in 1 .. Len(p)
    BY <1>4, EmptySeq
  <2> QED
    BY <1>3, <2>1, <2>2 DEF Links
<1> DEFINE r == p \o g
<1>11. /\ Links(next', r, head', tail') /\ Links(next', q, copy.head, copy.tail)
       /\ next' \in [Nodes -> Nodes \cup {Null}]
       /\ ToSet(r) = ToSet(p) \cup ToSet(g)
  <2>1. tail' = g[n]
    BY <1>2, <1>5 DEF Last
  <2>2. CASE tail = Null
    <3>1. next' = Linked(g) /\ head' = g[1]
      BY <1>2, <2>2
    <3>2. p = <<>> /\ r = g
      BY <1>5, <1>10, <2>2, ConcatEmptySeq
    <3>3. ToSet(p) = {}
      BY <3>2 DEF ToSet
    <3> QED
      BY <1>7, <1>9, <2>1, <3>1, <3>2, <3>3
  <2>3. CASE tail # Null
    <3>1. next' = [Linked(g) EXCEPT ![tail] = g[1]] /\ head' = head
      BY <1>2, <2>3
    <3>2. /\ Links([Linked(g) EXCEPT ![tail] = g[1]], r, head, g[n])
          /\ ToSet(r) = ToSet(p) \cup ToSet(g)
          /\ tail \in ToSet(p)
      <4>1. ToSet(p) \cap ToSet(g) = {}
        BY <1>6
      <4> QED
        BY <1>5, <1>7, <1>9, <2>3, <4>1, LinksJoin
    <3>3. g[1] \in Nodes
      BY <1>1, <1>5
    <3>4. next' \in [Nodes -> Nodes \cup {Null}]
      BY <1>7, <3>1, <3>3
    <3>5. \A k \in ToSet(q) : next'[k] = Linked(g)[k]
      <4>1. \A k \in ToSet(q) : k \in Nodes /\ k # tail
        BY <1>4, <3>2 DEF Heap
      <4> QED
        BY <1>7, <3>1, <4>1
    <3>6. Links(next', q, copy.head, copy.tail)
      BY <1>9, <3>5, LinksFrame
    <3> QED
      BY <2>1, <3>1, <3>2, <3>4, <3>6
  <2> QED
    BY <2>2, <2>3
<1> HIDE DEF r
<1>12. Heap(r, q)'
  <2>1. copy' = copy /\ shifted' = shifted /\ comparing' = comparing
    BY <1>2
  <2>2. allocated' = ToSet(r) \cup ToSet(q) \cup shifted
    BY <1>2, <1>11 DEF Heap
  <2>3. ToSet(r) \cap ToSet(q) = {} /\ shifted \cap (ToSet(r) \cup ToSet(q)) = {}
    BY <1>6, <1>11 DEF Heap
  <2> QED
    BY <1>8, <1>11, <2>1, <2>2, <2>3 DEF Heap
<1>13. ItemsAt(data', r) = ItemsAt(data, p) \o values
  <2>1. ItemsAt(data', r) = ItemsAt(data', p) \o ItemsAt(data', g)
    BY <1>4, <1>5, <1>8, ItemsJoin DEF r
  <2>2. ItemsAt(data', p) = ItemsAt(data, p)
    <3>1. \A k \in ToSet(p) : data'[k] = data[k]
      BY <1>4, <1>6, <1>8
    <3> QED
      BY <3>1, ItemsFrame
  <2>3. ItemsAt(data', g) = values
    <3>1. /\ ItemsAt(data', g) \in Seq(Int) /\ Len(ItemsAt(data', g)) = n
          /\ \A k \in 1 .. n : ItemsAt(data', g)[k] = values[k]
      BY <1>5, <1>8, ItemsAtFacts
    <3> QED
      BY <3>1, SeqEqual DEF n
  <2> QED
    BY <2>1, <2>2, <2>3
<1>14. ItemsAt(data', q) = ItemsAt(data, q)
  <2>1. \A k \in ToSet(q) : data'[k] = data[k]
    BY <1>4, <1>6, <1>8
  <2> QED
    BY <2>1, ItemsFrame
<1> QED
  BY <1>12, <1>13, <1>14

LEMMA CopyStep ==
    ASSUME NEW p, NEW q, Heap(p, q), ChainCopy
    PROVE  \E r :
              /\ Heap(p, r)'
              /\ ItemsAt(data', p) = ItemsAt(data, p)
              /\ ItemsAt(data', r) = ItemsAt(data, p)
<1> DEFINE n == Len(p)
<1>1. n \in Nat /\ Path = p /\ Contents = ItemsAt(data, p)
  BY HeapPaths, HeapContents, LenProperties
<1>2. PICK g \in Guests(n) :
        /\ allocated' = allocated \cup ToSet(g)
        /\ data' = Holding(g, ItemsAt(data, p))
        /\ next' = Linked(g)
        /\ copy' = IF g = <<>> THEN [head |-> Null, tail |-> Null]
                   ELSE [head |-> Head(g), tail |-> Last(g)]
  BY <1>1 DEF ChainCopy
<1>3. /\ next \in [Nodes -> Nodes \cup {Null}] /\ data \in [Nodes -> Int]
      /\ Links(next, p, head, tail)
  BY DEF Heap
<1>4. /\ p \in Seq(Nodes) /\ ToSet(p) \subseteq Nodes
  BY HeapPaths
<1>5. q = <<>> /\ ToSet(q) = {}
  <2>1. copy.head = Null /\ Links(next, q, copy.head, copy.tail)
    BY DEF ChainCopy, Heap
  <2>2. q \in Seq(Nodes) /\ copy.head = (IF Len(q) = 0 THEN Null ELSE q[1])
        /\ \A k \in 1 .. Len(q) : q[k] # Null
    BY <2>1, LinksFacts
  <2>3. q = <<>>
    <3>1. q # <<>> => 1 \in 1 .. Len(q) /\ Len(q) # 0
      BY <2>2, EmptySeq
    <3> QED
      BY <2>1, <2>2, <3>1
  <2> QED
    BY <2>3 DEF ToSet
<1>6. ItemsAt(data, p) \in Seq(Int) /\ Len(ItemsAt(data, p)) = n
  BY <1>3, <1>4, ItemsAtFacts
<1> HIDE DEF n
<1>7. /\ g \in Seq(Nodes) /\ Len(g) = n
      /\ \A k \in 1 .. n : g[k] \in Nodes /\ g[k] \notin allocated
      /\ ToSet(g) = {g[k] : k \in 1 .. n}
  BY <1>1, GuestsFacts
<1>8. /\ ToSet(g) \cap ToSet(p) = {} /\ ToSet(g) \cap shifted = {}
  BY <1>7 DEF Heap
<1>9. /\ Linked(g) \in [Nodes -> Nodes \cup {Null}]
      /\ Links(Linked(g), g, IF n = 0 THEN Null ELSE g[1], IF n = 0 THEN Null ELSE g[n])
      /\ \A k \in Nodes : k \notin ToSet(g) => Linked(g)[k] = next[k]
  BY <1>1, <1>3, LinkedGuests
<1>10. /\ data' \in [Nodes -> Int]
       /\ \A k \in 1 .. n : data'[g[k]] = ItemsAt(data, p)[k]
       /\ \A k \in Nodes : k \notin ToSet(g) => data'[k] = data[k]
  BY <1>1, <1>2, <1>3, <1>6, HoldingFacts
<1>11. /\ \A k \in ToSet(p) : Linked(g)[k] = next[k]
       /\ \A k \in ToSet(p) : data'[k] = data[k]
  BY <1>4, <1>8, <1>9, <1>10
<1>12. Links(next', p, head, tail)
  BY <1>2, <1>3, <1>11, LinksFrame
<1>13. /\ copy'.head = (IF n = 0 THEN Null ELSE g[1])
       /\ copy'.tail = (IF n = 0 THEN Null ELSE g[n])
       /\ copy' = [head |-> copy'.head, tail |-> copy'.tail]
  <2>1. CASE n = 0
    <3>1. g = <<>>
      BY <1>7, <2>1, EmptySeq
    <3>2. copy' = [head |-> Null, tail |-> Null]
      BY <1>2, <3>1
    <3> QED
      BY <2>1, <3>2
  <2>2. CASE n # 0
    <3>1. g # <<>>
      BY <1>7, <2>2, EmptySeq
    <3>2. copy' = [head |-> g[1], tail |-> g[n]]
      BY <1>2, <1>7, <3>1 DEF Last
    <3> QED
      BY <2>2, <3>2
  <2> QED
    BY <2>1, <2>2
<1>14. Links(next', g, copy'.head, copy'.tail)
  BY <1>2, <1>9, <1>13
<1>15. Heap(p, g)'
  <2>1. head' = head /\ tail' = tail /\ shifted' = shifted /\ comparing' = comparing
    BY DEF ChainCopy
  <2>2. allocated' = ToSet(p) \cup ToSet(g) \cup shifted
    BY <1>2, <1>5 DEF Heap
  <2>3. ToSet(p) \cap ToSet(g) = {} /\ shifted \cap (ToSet(p) \cup ToSet(g)) = {}
    BY <1>8 DEF Heap
  <2>4. next' \in [Nodes -> Nodes \cup {Null}]
    BY <1>2, <1>9
  <2> QED
    BY <1>10, <1>12, <1>13, <1>14, <2>1, <2>2, <2>3, <2>4 DEF Heap
<1>16. ItemsAt(data', p) = ItemsAt(data, p)
  BY <1>11, ItemsFrame
<1>17. ItemsAt(data', g) = ItemsAt(data, p)
  <2>1. /\ ItemsAt(data', g) \in Seq(Int) /\ Len(ItemsAt(data', g)) = n
        /\ \A k \in 1 .. n : ItemsAt(data', g)[k] = ItemsAt(data, p)[k]
    BY <1>7, <1>10, ItemsAtFacts
  <2> QED
    BY <1>6, <2>1, SeqEqual
<1> QED
  BY <1>15, <1>16, <1>17

LEMMA AssignStep ==
    ASSUME NEW p, NEW q, Heap(p, q), NEW node, NEW v \in Int, ChainAssign(node, v)
    PROVE  /\ Heap(p, q)'
           /\ ItemsAt(data', q) = ItemsAt(data, q)
           /\ \E i \in 1 .. Len(p) :
                /\ p[i] = node
                /\ ItemsAt(data', p) = [ItemsAt(data, p) EXCEPT ![i] = v]
<1>1. /\ node \in ToSet(p) /\ data' = [data EXCEPT ![node] = v]
      /\ UNCHANGED <<head, tail, next, allocated, shifted, copy, comparing>>
  BY HeapPaths DEF ChainAssign
<1>2. data \in [Nodes -> Int] /\ data' \in [Nodes -> Int]
  BY <1>1 DEF Heap
<1>3. Heap(p, q)'
  BY <1>1, <1>2 DEF Heap
<1>4. p \in Seq(Nodes) /\ q \in Seq(Nodes) /\ ToSet(p) \subseteq Nodes /\ ToSet(q) \subseteq Nodes
  BY HeapPaths
<1>5. ItemsAt(data', q) = ItemsAt(data, q)
  <2>1. \A k \in ToSet(q) : k # node /\ k \in Nodes
    BY <1>1, <1>4 DEF Heap
  <2>2. \A k \in ToSet(q) : data'[k] = data[k]
    BY <1>1, <1>2, <2>1
  <2> QED
    BY <2>2, ItemsFrame
<1>6. PICK i \in 1 .. Len(p) : p[i] = node
  BY <1>1, <1>4, LenProperties DEF ToSet
<1>7. ItemsAt(data', p) = [ItemsAt(data, p) EXCEPT ![i] = v]
  <2> DEFINE s == ItemsAt(data, p)
             t == ItemsAt(data', p)
  <2>1. s \in Seq(Int) /\ Len(s) = Len(p) /\ \A k \in 1 .. Len(p) : s[k] = data[p[k]]
    BY <1>2, <1>4, ItemsAtFacts
  <2>2. t \in Seq(Int) /\ Len(t) = Len(p) /\ \A k \in 1 .. Len(p) : t[k] = data'[p[k]]
    BY <1>2, <1>4, ItemsAtFacts
  <2>3. \A k \in 1 .. Len(p) : p[k] = p[i] => k = i
    BY LinksFacts DEF Heap
  <2>4. \A k \in 1 .. Len(p) : p[k] \in Nodes
    BY <1>4, ElementOfSeq
  <2> HIDE DEF s, t
  <2>5. ASSUME NEW k \in 1 .. Len(p) PROVE t[k] = IF k = i THEN v ELSE s[k]
    BY <1>1, <1>2, <1>6, <2>1, <2>2, <2>3, <2>4
  <2>6. /\ [s EXCEPT ![i] = v] \in Seq(Int) /\ Len([s EXCEPT ![i] = v]) = Len(p)
        /\ \A k \in 1 .. Len(p) : [s EXCEPT ![i] = v][k] = IF k = i THEN v ELSE s[k]
    BY <1>6, <2>1, ExceptSeq
  <2>7. t = [s EXCEPT ![i] = v]
    <3> DEFINE u == [s EXCEPT ![i] = v]
    <3>1. u \in Seq(Int) /\ Len(u) = Len(t) /\ \A k \in 1 .. Len(t) : t[k] = u[k]
      BY <2>2, <2>5, <2>6
    <3> HIDE DEF u
    <3>2. t = u
      BY <2>2, <3>1, SeqEqual
    <3> QED
      BY <3>2 DEF u
  <2> QED
    BY <2>7 DEF s, t
<1> QED
  BY <1>3, <1>5, <1>6, <1>7

\* The memory of some nodes is given back.
LEMMA FreeFacts ==
    ASSUME NEW nodes, Free(nodes), data \in [Nodes -> Int]
    PROVE  /\ allocated' = allocated \ nodes
           /\ data' \in [Nodes -> Int]
           /\ \A n \in Nodes \ nodes : data'[n] = data[n]
BY DEF Free

LEMMA ShiftStep ==
    ASSUME NEW p, NEW q, Heap(p, q), ChainShift
    PROVE  /\ Heap(Tail(p), q)'
           /\ p # <<>> /\ data' = data /\ head = p[1]
<1>1. /\ head # Null /\ head' = next[head]
      /\ tail' = IF next[head] = Null THEN Null ELSE tail
      /\ shifted' = shifted \cup {head}
      /\ UNCHANGED <<next, data, allocated, copy, comparing>>
  BY DEF ChainShift
<1> DEFINE r == Tail(p)
<1>2. /\ Links(next, r, head', tail')
      /\ p # <<>> /\ head = p[1]
      /\ head \in ToSet(p) /\ ToSet(r) = ToSet(p) \ {head}
  <2>1. Links(next, p, head, tail)
    BY DEF Heap
  <2> QED
    BY <1>1, <2>1, LinksTail
<1>3. ToSet(p) \subseteq Nodes
  BY HeapPaths
<1> HIDE DEF r
<1>4. Heap(r, q)'
  <2>1. ToSet(r) \cap ToSet(q) = {} /\ shifted' \cap (ToSet(r) \cup ToSet(q)) = {}
    BY <1>1, <1>2 DEF Heap
  <2>2. allocated' = ToSet(r) \cup ToSet(q) \cup shifted' /\ shifted' \subseteq Nodes
    BY <1>1, <1>2, <1>3 DEF Heap
  <2> QED
    BY <1>1, <1>2, <2>1, <2>2 DEF Heap
<1> QED
  BY <1>1, <1>2, <1>4 DEF r

LEMMA DestroyStep ==
    ASSUME NEW p, NEW q, Heap(p, q), NEW node, NodeDestroy(node)
    PROVE  /\ Heap(p, q)'
           /\ ItemsAt(data', p) = ItemsAt(data, p)
           /\ ItemsAt(data', q) = ItemsAt(data, q)
<1>1. /\ node \in shifted /\ shifted' = shifted \ {node}
      /\ Free({node})
      /\ next' = [next EXCEPT ![node] = Null]
      /\ UNCHANGED <<head, tail, copy, comparing>>
  BY DEF NodeDestroy
<1>2. /\ next \in [Nodes -> Nodes \cup {Null}] /\ data \in [Nodes -> Int]
      /\ Links(next, p, head, tail) /\ Links(next, q, copy.head, copy.tail)
  BY DEF Heap
<1>3. /\ ToSet(p) \subseteq Nodes /\ ToSet(q) \subseteq Nodes
      /\ node \notin ToSet(p) /\ node \notin ToSet(q)
  BY <1>1, HeapPaths DEF Heap
<1>4. /\ allocated' = allocated \ {node}
      /\ data' \in [Nodes -> Int]
      /\ \A n \in Nodes \ {node} : data'[n] = data[n]
  BY <1>1, <1>2, FreeFacts
<1>5. next' \in [Nodes -> Nodes \cup {Null}] /\ \A n \in Nodes \ {node} : next'[n] = next[n]
  BY <1>1, <1>2
<1>6. Links(next', p, head, tail) /\ Links(next', q, copy.head, copy.tail)
  BY <1>2, <1>3, <1>5, LinksFrame
<1>7. ItemsAt(data', p) = ItemsAt(data, p) /\ ItemsAt(data', q) = ItemsAt(data, q)
  BY <1>3, <1>4, ItemsFrame
<1>8. Heap(p, q)'
  <2>1. allocated' = ToSet(p) \cup ToSet(q) \cup shifted'
    BY <1>1, <1>3, <1>4 DEF Heap
  <2>2. shifted' \cap (ToSet(p) \cup ToSet(q)) = {} /\ shifted' \subseteq Nodes
    BY <1>1 DEF Heap
  <2> QED
    BY <1>1, <1>4, <1>5, <1>6, <2>1, <2>2 DEF Heap
<1> QED
  BY <1>7, <1>8

LEMMA EmptyChain ==
    /\ <<>> \in Seq(Nodes) /\ ToSet(<<>>) = {}
    /\ \A pointers : Links(pointers, <<>>, Null, Null)
<1>1. <<>> \in Seq(Nodes) /\ Len(<<>>) = 0 /\ ToSet(<<>>) = {}
  BY DEF ToSet
<1> QED
  BY <1>1 DEF Links, IsInjective

LEMMA ClearStep ==
    ASSUME NEW p, NEW q, Heap(p, q), ChainClear
    PROVE  /\ Heap(<<>>, q)'
           /\ ItemsAt(data', q) = ItemsAt(data, q)
<1>1. /\ head' = Null /\ tail' = Null
      /\ Free(ToSet(p))
      /\ next' = [n \in Nodes |-> IF n \in ToSet(p) THEN Null ELSE next[n]]
      /\ UNCHANGED <<shifted, copy, comparing>>
  BY HeapPaths DEF ChainClear
<1>2. /\ next \in [Nodes -> Nodes \cup {Null}] /\ data \in [Nodes -> Int]
      /\ Links(next, q, copy.head, copy.tail)
  BY DEF Heap
<1>3. /\ ToSet(q) \subseteq Nodes /\ ToSet(p) \cap ToSet(q) = {}
  BY HeapPaths DEF Heap
<1>4. /\ allocated' = allocated \ ToSet(p)
      /\ data' \in [Nodes -> Int]
      /\ \A n \in Nodes \ ToSet(p) : data'[n] = data[n]
  BY <1>1, <1>2, FreeFacts
<1>5. next' \in [Nodes -> Nodes \cup {Null}] /\ \A n \in Nodes \ ToSet(p) : next'[n] = next[n]
  BY <1>1, <1>2
<1>6. Links(next', q, copy.head, copy.tail)
  BY <1>2, <1>3, <1>5, LinksFrame
<1>7. ItemsAt(data', q) = ItemsAt(data, q)
  BY <1>3, <1>4, ItemsFrame
<1>8. Heap(<<>>, q)'
  <2>1. allocated' = ToSet(q) \cup shifted
    BY <1>3, <1>4 DEF Heap
  <2>2. ToSet(<<>>) = {} /\ Links(next', <<>>, Null, Null)
    BY EmptyChain
  <2>3. shifted \cap ToSet(q) = {} /\ shifted \subseteq Nodes
    BY DEF Heap
  <2>4. comparing \in BOOLEAN /\ copy = [head |-> copy.head, tail |-> copy.tail]
    BY DEF Heap
  <2> QED
    BY <1>1, <1>4, <1>5, <1>6, <2>1, <2>2, <2>3, <2>4 DEF Heap
<1> QED
  BY <1>7, <1>8

LEMMA CopyDestroyStep ==
    ASSUME NEW p, NEW q, Heap(p, q), CopyDestroy
    PROVE  /\ Heap(p, <<>>)'
           /\ ItemsAt(data', p) = ItemsAt(data, p)
<1>1. /\ copy' = [head |-> Null, tail |-> Null]
      /\ Free(ToSet(q))
      /\ next' = [n \in Nodes |-> IF n \in ToSet(q) THEN Null ELSE next[n]]
      /\ UNCHANGED <<head, tail, shifted, comparing>>
  BY HeapPaths DEF CopyDestroy
<1>2. /\ next \in [Nodes -> Nodes \cup {Null}] /\ data \in [Nodes -> Int]
      /\ Links(next, p, head, tail)
  BY DEF Heap
<1>3. /\ ToSet(p) \subseteq Nodes /\ ToSet(p) \cap ToSet(q) = {}
  BY HeapPaths DEF Heap
<1>4. /\ allocated' = allocated \ ToSet(q)
      /\ data' \in [Nodes -> Int]
      /\ \A n \in Nodes \ ToSet(q) : data'[n] = data[n]
  BY <1>1, <1>2, FreeFacts
<1>5. next' \in [Nodes -> Nodes \cup {Null}] /\ \A n \in Nodes \ ToSet(q) : next'[n] = next[n]
  BY <1>1, <1>2
<1>6. Links(next', p, head, tail)
  BY <1>2, <1>3, <1>5, LinksFrame
<1>7. ItemsAt(data', p) = ItemsAt(data, p)
  BY <1>3, <1>4, ItemsFrame
<1>8. Heap(p, <<>>)'
  <2>1. allocated' = ToSet(p) \cup shifted
    BY <1>3, <1>4 DEF Heap
  <2>2. ToSet(<<>>) = {} /\ Links(next', <<>>, Null, Null)
    BY EmptyChain
  <2>3. shifted \cap ToSet(p) = {} /\ shifted \subseteq Nodes /\ comparing \in BOOLEAN
    BY DEF Heap
  <2>4. copy'.head = Null /\ copy'.tail = Null /\ copy' = [head |-> copy'.head, tail |-> copy'.tail]
    BY <1>1
  <2> QED
    BY <1>1, <1>4, <1>5, <1>6, <2>1, <2>2, <2>3, <2>4 DEF Heap
<1> QED
  BY <1>7, <1>8

\* The sequence without its first item.
LEMMA TailFacts ==
    ASSUME NEW S, NEW s \in Seq(S), s # <<>>
    PROVE  /\ Tail(s) \in Seq(S) /\ Len(s) \in Nat /\ 1 <= Len(s)
           /\ Len(Tail(s)) = Len(s) - 1
           /\ \A k \in 1 .. Len(s) - 1 : Tail(s)[k] = s[k + 1]
<1>1. Len(s) \in Nat /\ Len(s) # 0
  BY EmptySeq, LenProperties
<1> QED
  BY <1>1, HeadTailProperties

LEMMA RemoveAtFirst ==
    ASSUME NEW S, NEW s \in Seq(S), s # <<>>
    PROVE  RemoveAt(s, 1) = Tail(s)
<1>1. /\ Tail(s) \in Seq(S) /\ Len(s) \in Nat /\ 1 <= Len(s)
      /\ Len(Tail(s)) = Len(s) - 1
      /\ \A k \in 1 .. Len(s) - 1 : Tail(s)[k] = s[k + 1]
  BY TailFacts
<1>2. /\ RemoveAt(s, 1) \in Seq(S) /\ Len(RemoveAt(s, 1)) = Len(s) - 1
      /\ \A k \in 1 .. Len(s) - 1 : RemoveAt(s, 1)[k] = IF k < 1 THEN s[k] ELSE s[k + 1]
  <2>1. 1 \in 1 .. Len(s)
    BY <1>1
  <2> QED
    BY <2>1, RemoveAtFacts
<1>3. \A k \in 1 .. Len(s) - 1 : Tail(s)[k] = RemoveAt(s, 1)[k]
  BY <1>1, <1>2
<1> QED
  BY <1>1, <1>2, <1>3, SeqEqual

\* The data of the nodes but the first.
LEMMA ItemsTail ==
    ASSUME NEW values \in [Nodes -> Int], NEW p \in Seq(Nodes), p # <<>>
    PROVE  /\ ItemsAt(values, p) # <<>>
           /\ ItemsAt(values, Tail(p)) = Tail(ItemsAt(values, p))
<1> DEFINE n == Len(p)  s == ItemsAt(values, p)  t == Tail(s)
           q == Tail(p)  u == ItemsAt(values, q)
<1>1. /\ q \in Seq(Nodes) /\ n \in Nat /\ 1 <= n /\ Len(q) = n - 1
      /\ \A k \in 1 .. n - 1 : q[k] = p[k + 1]
  BY TailFacts
<1>2. /\ s \in Seq(Int) /\ Len(s) = n
      /\ \A k \in 1 .. n : s[k] = values[p[k]]
  BY ItemsAtFacts
<1>3. s # <<>>
  BY <1>1, <1>2, EmptySeq
<1> HIDE DEF n, s, q
<1>4. /\ t \in Seq(Int) /\ Len(t) = n - 1
      /\ \A k \in 1 .. n - 1 : t[k] = s[k + 1]
  BY <1>2, <1>3, TailFacts
<1>5. /\ u \in Seq(Int) /\ Len(u) = n - 1
      /\ \A k \in 1 .. n - 1 : u[k] = values[q[k]]
  BY <1>1, ItemsAtFacts
<1> HIDE DEF t, u
<1>6. ASSUME NEW k \in 1 .. n - 1 PROVE u[k] = t[k]
  <2>1. k + 1 \in 1 .. n
    BY <1>1
  <2>2. s[k + 1] = values[p[k + 1]]
    BY <1>2, <2>1
  <2>3. u[k] = values[p[k + 1]] /\ t[k] = s[k + 1]
    BY <1>1, <1>4, <1>5
  <2> QED
    BY <2>2, <2>3
<1>7. u = t
  BY <1>4, <1>5, <1>6, SeqEqual
<1> QED
  BY <1>3, <1>7 DEF s, t, q, u

\* The data of the nodes but one.
LEMMA ItemsRemove ==
    ASSUME NEW values \in [Nodes -> Int], NEW p \in Seq(Nodes), NEW i \in 1 .. Len(p)
    PROVE  ItemsAt(values, RemoveAt(p, i)) = RemoveAt(ItemsAt(values, p), i)
<1> DEFINE n == Len(p)  s == ItemsAt(values, p)  t == RemoveAt(s, i)
           q == RemoveAt(p, i)  u == ItemsAt(values, q)
<1>1. /\ q \in Seq(Nodes) /\ Len(q) = n - 1
      /\ \A k \in 1 .. n - 1 : q[k] = IF k < i THEN p[k] ELSE p[k + 1]
  BY RemoveAtFacts
<1>2. /\ s \in Seq(Int) /\ Len(s) = n /\ n \in Nat
      /\ \A k \in 1 .. n : s[k] = values[p[k]]
  BY ItemsAtFacts, LenProperties
<1>3. i \in 1 .. n
  OBVIOUS
<1> HIDE DEF n, s, q
<1>4. /\ t \in Seq(Int) /\ Len(t) = n - 1
      /\ \A k \in 1 .. n - 1 : t[k] = IF k < i THEN s[k] ELSE s[k + 1]
  <2>1. i \in 1 .. Len(s)
    BY <1>2, <1>3
  <2> QED
    BY <1>2, <2>1, RemoveAtFacts
<1>5. /\ u \in Seq(Int) /\ Len(u) = n - 1
      /\ \A k \in 1 .. n - 1 : u[k] = values[q[k]]
  BY <1>1, ItemsAtFacts
<1> HIDE DEF t, u
<1>6. ASSUME NEW k \in 1 .. n - 1 PROVE u[k] = t[k]
  <2>1. k \in 1 .. n /\ k + 1 \in 1 .. n
    BY <1>2
  <2>2. s[k] = values[p[k]] /\ s[k + 1] = values[p[k + 1]]
    BY <1>2, <2>1
  <2>3. /\ u[k] = values[IF k < i THEN p[k] ELSE p[k + 1]]
        /\ t[k] = IF k < i THEN s[k] ELSE s[k + 1]
    BY <1>1, <1>4, <1>5
  <2> QED
    BY <2>2, <2>3
<1>7. u = t
  BY <1>4, <1>5, <1>6, SeqEqual
<1> QED
  BY <1>7 DEF s, t, q, u

\* A node taken out behind another one.
Unlinked(pointers, prev, node) ==
    [pointers EXCEPT ![prev] = pointers[node], ![node] = Null]

\* The node at i is behind prev.
Behind(p, prev, node, i) == i \in 2 .. Len(p) /\ p[i - 1] = prev /\ p[i] = node

LEMMA LinksUnlink ==
    ASSUME NEW pointers \in [Nodes -> Nodes \cup {Null}], NEW p, NEW first, NEW last,
           Links(pointers, p, first, last),
           NEW prev, NEW node, NEW i, Behind(p, prev, node, i)
    PROVE  /\ Links(Unlinked(pointers, prev, node), RemoveAt(p, i), first,
                    IF node = last THEN prev ELSE last)
           /\ Unlinked(pointers, prev, node) \in [Nodes -> Nodes \cup {Null}]
           /\ ToSet(RemoveAt(p, i)) = ToSet(p) \ {node}
           /\ \A n \in Nodes : n # prev /\ n # node =>
                Unlinked(pointers, prev, node)[n] = pointers[n]
<1>1. i \in 2 .. Len(p) /\ p[i - 1] = prev /\ p[i] = node
  BY DEF Behind
<1>2. /\ \A k \in 1 .. Len(p) : p[k] \in Nodes
      /\ Len(p) \in Nat
  BY LinksFacts
<1>3. node \in Nodes /\ prev \in Nodes
  <2>1. i \in 1 .. Len(p) /\ i - 1 \in 1 .. Len(p)
    BY <1>1, <1>2
  <2> QED
    BY <1>1, <1>2, <2>1
<1>4. /\ Unlinked(pointers, prev, node) \in [Nodes -> Nodes \cup {Null}]
      /\ \A n \in Nodes : n # prev /\ n # node =>
           Unlinked(pointers, prev, node)[n] = pointers[n]
  BY <1>3 DEF Unlinked
<1> DEFINE q == RemoveAt(p, i)
           linked == [pointers EXCEPT ![p[i - 1]] = pointers[p[i]], ![p[i]] = Null]
<1>5. /\ Links(linked, q, first, IF p[i] = last THEN p[i - 1] ELSE last)
      /\ ToSet(q) = ToSet(p) \ {p[i]}
  BY <1>1, LinksRemove
<1>6. linked = Unlinked(pointers, prev, node)
  BY <1>1 DEF Unlinked
<1> HIDE DEF linked
<1>7. Links(Unlinked(pointers, prev, node), q, first, IF node = last THEN prev ELSE last)
  BY <1>1, <1>5, <1>6
<1> QED
  BY <1>1, <1>4, <1>5, <1>7 DEF q

\* The node that the loop of remove looks for is the one before.
LEMMA PrevFacts ==
    ASSUME NEW pointers, NEW p, NEW first, NEW last, Links(pointers, p, first, last),
           NEW i \in 2 .. Len(p)
    PROVE  (CHOOSE n \in ToSet(p) : pointers[n] = p[i]) = p[i - 1]
<1>1. /\ Len(p) \in Nat /\ DOMAIN p = 1 .. Len(p)
      /\ \A k \in 1 .. Len(p) : p[k] \in Nodes /\ p[k] # Null
  BY LinksFacts
<1>2. \A k, j \in 1 .. Len(p) : p[k] = p[j] => k = j
  BY LinksFacts
<1>3. \A k \in 1 .. Len(p) : pointers[p[k]] = IF k = Len(p) THEN Null ELSE p[k + 1]
  BY LinksFacts
<1>4. /\ i \in 1 .. Len(p) /\ i - 1 \in 1 .. Len(p) /\ i - 1 # Len(p) /\ i - 1 + 1 = i
  BY <1>1
<1>5. p[i - 1] \in ToSet(p) /\ pointers[p[i - 1]] = p[i]
  <2>1. pointers[p[i - 1]] = p[i - 1 + 1]
    BY <1>3, <1>4
  <2> QED
    BY <1>1, <1>4, <2>1 DEF ToSet
<1>6. ASSUME NEW n \in ToSet(p), pointers[n] = p[i] PROVE n = p[i - 1]
  <2>1. PICK k \in 1 .. Len(p) : n = p[k]
    BY <1>1 DEF ToSet
  <2>2. k # Len(p)
    BY <1>1, <1>3, <1>4, <1>6, <2>1
  <2>3. k + 1 \in 1 .. Len(p)
    <3>1. Len(p) \in Nat
      BY <1>1
    <3> QED
      BY <2>2, <3>1
  <2>4. p[k + 1] = p[i]
    BY <1>3, <1>6, <2>1, <2>2
  <2>5. k + 1 = i
    BY <1>2, <1>4, <2>3, <2>4
  <2>6. k = i - 1
    BY <1>1, <2>5
  <2> QED
    BY <2>1, <2>6
<1> QED
  BY <1>5, <1>6

\* The tail is right because a chain of one node, whose node is its head, is left out.
LEMMA RemoveStep ==
    ASSUME MayRemoveOnly = FALSE,
           NEW p, NEW q, Heap(p, q), NEW node, ChainRemove(node)
    PROVE  \E i \in 1 .. Len(p) :
              /\ p[i] = node
              /\ Heap(RemoveAt(p, i), q)'
              /\ ItemsAt(data', RemoveAt(p, i)) = RemoveAt(ItemsAt(data, p), i)
              /\ ItemsAt(data', q) = ItemsAt(data, q)
<1>1. /\ next \in [Nodes -> Nodes \cup {Null}] /\ data \in [Nodes -> Int]
      /\ Links(next, p, head, tail) /\ Links(next, q, copy.head, copy.tail)
  BY DEF Heap
<1>2. /\ p \in Seq(Nodes) /\ q \in Seq(Nodes) /\ Len(p) \in Nat /\ DOMAIN p = 1 .. Len(p)
      /\ ToSet(p) \subseteq Nodes /\ ToSet(q) \subseteq Nodes
  BY HeapPaths, LenProperties
<1>3. /\ Path = p /\ Chained = ToSet(p)
  BY HeapPaths
<1>4. /\ node \in ToSet(p) /\ Len(p) > 1
      /\ Free({node})
      /\ UNCHANGED <<shifted, copy, comparing>>
  BY <1>3 DEF ChainRemove
<1>5. /\ allocated' = allocated \ {node}
      /\ data' \in [Nodes -> Int]
      /\ \A n \in Nodes \ {node} : data'[n] = data[n]
  BY <1>1, <1>4, FreeFacts
<1>6. /\ ToSet(p) \cap ToSet(q) = {} /\ shifted \cap (ToSet(p) \cup ToSet(q)) = {}
      /\ shifted \subseteq Nodes /\ comparing \in BOOLEAN
      /\ copy = [head |-> copy.head, tail |-> copy.tail]
      /\ allocated = ToSet(p) \cup ToSet(q) \cup shifted
  BY DEF Heap
<1>7. /\ head = p[1] /\ tail = p[Len(p)]
  <2>1. Len(p) # 0
    BY <1>4
  <2> QED
    BY <1>1, <2>1, LinksFacts
<1>8. \A k, j \in 1 .. Len(p) : p[k] = p[j] => k = j
  BY <1>1, LinksFacts
\* Whichever node it is, what is left to show is about the pointers.
<1>9. ASSUME NEW i \in 1 .. Len(p), node = p[i],
             Links(next', RemoveAt(p, i), head', tail'),
             ToSet(RemoveAt(p, i)) = ToSet(p) \ {node},
             next' \in [Nodes -> Nodes \cup {Null}],
             \A n \in Nodes \ ToSet(p) : next'[n] = next[n]
      PROVE  /\ p[i] = node /\ Heap(RemoveAt(p, i), q)'
             /\ ItemsAt(data', RemoveAt(p, i)) = RemoveAt(ItemsAt(data, p), i)
             /\ ItemsAt(data', q) = ItemsAt(data, q)
  <2> DEFINE r == RemoveAt(p, i)
  <2>1. /\ r \in Seq(Nodes) /\ Links(next', r, head', tail') /\ ToSet(r) = ToSet(p) \ {node}
    BY <1>2, <1>9, RemoveAtFacts
  <2>2. ItemsAt(data, r) = RemoveAt(ItemsAt(data, p), i)
    BY <1>1, <1>2, ItemsRemove
  <2> HIDE DEF r
  <2>3. ItemsAt(data', r) = ItemsAt(data, r)
    <3>1. \A n \in ToSet(r) : data'[n] = data[n]
      BY <1>2, <1>5, <2>1
    <3> QED
      BY <3>1, ItemsFrame
  <2>4. ItemsAt(data', q) = ItemsAt(data, q)
    <3>1. \A n \in ToSet(q) : data'[n] = data[n]
      BY <1>2, <1>4, <1>5, <1>6
    <3> QED
      BY <3>1, ItemsFrame
  <2>5. Links(next', q, copy.head, copy.tail)
    <3>1. \A n \in ToSet(q) : next'[n] = next[n]
      BY <1>2, <1>6, <1>9
    <3> QED
      BY <1>1, <3>1, LinksFrame
  <2>6. /\ ToSet(r) \cap ToSet(q) = {} /\ shifted \cap (ToSet(r) \cup ToSet(q)) = {}
        /\ allocated' = ToSet(r) \cup ToSet(q) \cup shifted
    BY <1>4, <1>5, <1>6, <2>1
  <2>7. Heap(r, q)'
    BY <1>4, <1>5, <1>6, <1>9, <2>1, <2>5, <2>6 DEF Heap
  <2> QED
    BY <1>9, <2>2, <2>3, <2>4, <2>7 DEF r
<1>10. CASE node = head
  <2>1. head' = next[node] /\ next' = [next EXCEPT ![node] = Null] /\ tail' = tail
    BY <1>10 DEF ChainRemove
  <2>2. 1 \in 1 .. Len(p) /\ 2 \in 1 .. Len(p) /\ 1 # Len(p) /\ node = p[1]
    BY <1>2, <1>4, <1>7, <1>10
  <2>3. head # Null /\ next[head] # Null
    <3>1. /\ \A k \in 1 .. Len(p) : p[k] # Null
          /\ next[p[1]] = p[1 + 1]
      BY <1>1, <2>2, LinksFacts
    <3>2. p[1 + 1] # Null
      BY <2>2, <3>1
    <3> QED
      BY <1>7, <2>2, <3>1, <3>2
  <2>4. /\ Links(next, Tail(p), next[head], tail)
        /\ p # <<>> /\ ToSet(Tail(p)) = ToSet(p) \ {head}
    BY <1>1, <2>3, LinksTail
  <2>5. RemoveAt(p, 1) = Tail(p)
    BY <1>2, <2>4, RemoveAtFirst
  <2>6. /\ next' \in [Nodes -> Nodes \cup {Null}]
        /\ \A n \in Nodes \ {node} : next'[n] = next[n]
    BY <1>1, <2>1
  <2>7. Links(next', Tail(p), head', tail')
    <3>1. \A n \in ToSet(Tail(p)) : next'[n] = next[n]
      BY <1>2, <1>10, <2>4, <2>6
    <3> QED
      BY <1>10, <2>1, <2>4, <3>1, LinksFrame
  <2>8. \A n \in Nodes \ ToSet(p) : next'[n] = next[n]
    BY <1>4, <2>6
  <2> QED
    BY <1>9, <1>10, <2>2, <2>4, <2>5, <2>6, <2>7, <2>8
<1>11. CASE node # head
  <2>1. PICK i \in 1 .. Len(p) : p[i] = node
    BY <1>2, <1>4 DEF ToSet
  <2>2. i \in 2 .. Len(p)
    BY <1>2, <1>7, <1>11, <2>1
  <2> DEFINE prev == p[i - 1]
  <2>3. (CHOOSE n \in Chained : next[n] = node) = prev
    BY <1>1, <1>3, <2>1, <2>2, PrevFacts
  <2>4. /\ next' = [next EXCEPT ![prev] = next[node], ![node] = Null]
        /\ tail' = (IF node = tail THEN prev ELSE tail)
        /\ head' = head
    BY <1>11, <2>3 DEF ChainRemove
  <2>5. Behind(p, prev, node, i)
    BY <2>1, <2>2 DEF Behind
  <2>6. prev \in ToSet(p)
    <3>1. i - 1 \in 1 .. Len(p)
      BY <1>2, <2>2
    <3> QED
      BY <1>2, <3>1 DEF ToSet
  <2> HIDE DEF prev
  <2>7. next' = Unlinked(next, prev, node)
    BY <2>4 DEF Unlinked
  <2>8. /\ Links(Unlinked(next, prev, node), RemoveAt(p, i), head,
                 IF node = tail THEN prev ELSE tail)
        /\ Unlinked(next, prev, node) \in [Nodes -> Nodes \cup {Null}]
        /\ ToSet(RemoveAt(p, i)) = ToSet(p) \ {node}
        /\ \A n \in Nodes : n # prev /\ n # node => Unlinked(next, prev, node)[n] = next[n]
    BY <1>1, <2>5, LinksUnlink
  <2>9. Links(next', RemoveAt(p, i), head', tail')
    BY <2>4, <2>7, <2>8
  <2>10. \A n \in Nodes \ ToSet(p) : next'[n] = next[n]
    BY <1>4, <2>6, <2>7, <2>8
  <2> QED
    BY <1>9, <2>1, <2>7, <2>8, <2>9, <2>10
<1> QED
  BY <1>10, <1>11

LEMMA ReverseFacts ==
    ASSUME NEW S, NEW s \in Seq(S)
    PROVE  /\ Reverse(s) \in Seq(S) /\ Len(Reverse(s)) = Len(s)
           /\ \A k \in 1 .. Len(s) : Reverse(s)[k] = s[Len(s) - k + 1]
<1> DEFINE n == Len(s)  t == Reverse(s)
<1>1. n \in Nat /\ \A k \in 1 .. n : s[k] \in S
  BY LenProperties, ElementOfSeq
<1>2. t = [k \in 1 .. n |-> s[n - k + 1]]
  BY DEF Reverse
<1> HIDE DEF n, t
<1>3. \A k \in 1 .. n : n - k + 1 \in 1 .. n
  BY <1>1
<1>4. t \in [1 .. n -> S]
  BY <1>1, <1>2, <1>3
<1>5. t \in Seq(S) /\ Len(t) = n
  BY <1>1, <1>4
<1>6. \A k \in 1 .. n : t[k] = s[n - k + 1]
  BY <1>2
<1> QED
  BY <1>5, <1>6 DEF n, t

\* The data of the nodes, from the last to the first.
LEMMA ItemsReverse ==
    ASSUME NEW values \in [Nodes -> Int], NEW p \in Seq(Nodes)
    PROVE  ItemsAt(values, Reverse(p)) = Reverse(ItemsAt(values, p))
<1> DEFINE n == Len(p)  s == ItemsAt(values, p)  t == Reverse(s)
           q == Reverse(p)  u == ItemsAt(values, q)
<1>1. q \in Seq(Nodes) /\ Len(q) = n /\ \A k \in 1 .. n : q[k] = p[n - k + 1]
  BY ReverseFacts
<1>2. /\ s \in Seq(Int) /\ Len(s) = n /\ n \in Nat
      /\ \A k \in 1 .. n : s[k] = values[p[k]]
  BY ItemsAtFacts, LenProperties
<1> HIDE DEF n, s, q
<1>3. t \in Seq(Int) /\ Len(t) = n /\ \A k \in 1 .. n : t[k] = s[n - k + 1]
  BY <1>2, ReverseFacts
<1>4. u \in Seq(Int) /\ Len(u) = n /\ \A k \in 1 .. n : u[k] = values[q[k]]
  BY <1>1, ItemsAtFacts
<1> HIDE DEF t, u
<1>5. ASSUME NEW k \in 1 .. n PROVE u[k] = t[k]
  <2>1. n - k + 1 \in 1 .. n
    BY <1>2
  <2>2. s[n - k + 1] = values[p[n - k + 1]]
    BY <1>2, <2>1
  <2> QED
    BY <1>1, <1>3, <1>4, <2>2
<1>6. u = t
  BY <1>3, <1>4, <1>5, SeqEqual
<1> QED
  BY <1>6 DEF s, t, q, u

LEMMA ReverseStep ==
    ASSUME NEW p, NEW q, Heap(p, q), ChainReverse
    PROVE  /\ Heap(Reverse(p), q)'
           /\ data' = data
<1>1. /\ next' = [n \in Nodes |->
                     IF n = head THEN Null
                     ELSE IF n \in ToSet(p) THEN CHOOSE m \in ToSet(p) : next[m] = n
                     ELSE next[n]]
      /\ head' = tail /\ tail' = head
      /\ UNCHANGED <<data, allocated, shifted, copy, comparing>>
      /\ Len(p) > 1
  <2>1. Path = p /\ Chained = ToSet(p)
    BY HeapPaths
  <2> QED
    BY <2>1 DEF ChainReverse
<1>2. /\ next \in [Nodes -> Nodes \cup {Null}]
      /\ Links(next, p, head, tail) /\ Links(next, q, copy.head, copy.tail)
      /\ ToSet(p) \cap ToSet(q) = {}
  BY DEF Heap
<1>3. /\ p \in Seq(Nodes) /\ Len(p) \in Nat /\ DOMAIN p = 1 .. Len(p)
      /\ ToSet(p) \subseteq Nodes /\ ToSet(q) \subseteq Nodes
  BY HeapPaths, LenProperties
<1>4. /\ \A k \in 1 .. Len(p) : p[k] \in Nodes
      /\ \A k, j \in 1 .. Len(p) : p[k] = p[j] => k = j
      /\ head = p[1] /\ 1 \in 1 .. Len(p)
  <2>1. Len(p) # 0 /\ 1 \in 1 .. Len(p)
    BY <1>1, <1>3
  <2> QED
    BY <1>2, <2>1, LinksFacts
<1>5. \A i \in 1 .. Len(p) : next'[p[i]] = IF i = 1 THEN Null ELSE p[i - 1]
  <2> SUFFICES ASSUME NEW i \in 1 .. Len(p)
               PROVE  next'[p[i]] = IF i = 1 THEN Null ELSE p[i - 1]
    OBVIOUS
  <2>1. CASE i = 1
    BY <1>1, <1>4, <2>1
  <2>2. CASE i # 1
    <3>1. i \in 2 .. Len(p) /\ p[i] # head
      BY <1>3, <1>4, <2>2
    <3>2. p[i] \in ToSet(p) /\ p[i] \in Nodes
      BY <1>3, <1>4 DEF ToSet
    <3>3. (CHOOSE m \in ToSet(p) : next[m] = p[i]) = p[i - 1]
      BY <1>2, <3>1, PrevFacts
    <3> QED
      BY <1>1, <2>2, <3>1, <3>2, <3>3
  <2> QED
    BY <2>1, <2>2
<1>6. next' \in [Nodes -> Nodes \cup {Null}]
  <2>1. ASSUME NEW n \in Nodes PROVE next'[n] \in Nodes \cup {Null}
    <3>1. CASE n \in ToSet(p)
      <4>1. PICK i \in 1 .. Len(p) : n = p[i]
        BY <1>3, <3>1 DEF ToSet
      <4>2. i # 1 => p[i - 1] \in Nodes
        <5>1. i # 1 => i - 1 \in 1 .. Len(p)
          BY <1>3
        <5> QED
          BY <1>4, <5>1
      <4> QED
        BY <1>5, <4>1, <4>2
    <3>2. CASE n \notin ToSet(p)
      BY <1>1, <1>2, <3>2
    <3> QED
      BY <3>1, <3>2
  <2> QED
    BY <1>1, <2>1
<1> DEFINE r == Reverse(p)
<1>7. Links(next', r, head', tail') /\ ToSet(r) = ToSet(p)
  BY <1>1, <1>2, <1>5, LinksReverse
<1>8. Links(next', q, copy.head, copy.tail)
  <2>1. \A n \in ToSet(q) : next'[n] = next[n]
    <3>1. head \in ToSet(p)
      BY <1>3, <1>4 DEF ToSet
    <3> QED
      BY <1>1, <1>2, <1>3, <3>1
  <2> QED
    BY <1>2, <2>1, LinksFrame
<1> HIDE DEF r
<1>9. Heap(r, q)'
  BY <1>1, <1>6, <1>7, <1>8 DEF Heap
<1> QED
  BY <1>1, <1>9 DEF r

-----------------------------------------------------------------------------
(* The sort.                                                               *)

\* Counting up from 0.
LEMMA CountUp ==
    ASSUME NEW n \in Nat, NEW T, 0 \in T, \A j \in 1 .. n : j - 1 \in T => j \in T
    PROVE  0 .. n \subseteq T
<1> DEFINE Bad == {j \in 0 .. n : j \notin T}
<1>1. SUFFICES ASSUME Bad # {} PROVE FALSE
  OBVIOUS
<1>2. PICK m \in Bad : \A k \in Bad : m <= k
  <2>1. Bad \in SUBSET Nat
    OBVIOUS
  <2> HIDE DEF Bad
  <2> QED
    BY <1>1, <2>1, LeastElement
<1>3. m \in 1 .. n
  OBVIOUS
<1>4. m - 1 \in 0 .. n /\ m - 1 \notin Bad
  BY <1>2, <1>3
<1> QED
  BY <1>3, <1>4

\* h are the values of a loop of n rounds that starts with x.
Loop(h, x, n, G) == h[0] = x /\ \A j \in 1 .. n : h[j] = G[<<h[j - 1], j>>]

LEMMA LoopExists ==
    ASSUME NEW S, NEW x \in S, NEW n \in Nat, NEW G \in [S \X (1 .. n) -> S]
    PROVE  \E h \in [0 .. n -> S] : Loop(h, x, n, G)
<1> DEFINE T == {m \in 0 .. n : \E h \in [0 .. m -> S] : Loop(h, x, m, G)}
<1>1. 0 \in T
  <2> DEFINE z == [j \in 0 .. 0 |-> x]
  <2>1. z \in [0 .. 0 -> S] /\ Loop(z, x, 0, G)
    BY DEF Loop
  <2> HIDE DEF z
  <2>2. 0 \in 0 .. n
    OBVIOUS
  <2> QED
    BY <2>1, <2>2
<1>2. ASSUME NEW m \in 1 .. n, m - 1 \in T PROVE m \in T
  <2>1. PICK h \in [0 .. m - 1 -> S] : Loop(h, x, m - 1, G)
    BY <1>2
  <2> DEFINE g == [j \in 0 .. m |-> IF j = m THEN G[<<h[m - 1], m>>] ELSE h[j]]
  <2>2. h[m - 1] \in S
    OBVIOUS
  <2>3. G[<<h[m - 1], m>>] \in S
    BY <2>2
  <2>4. g \in [0 .. m -> S]
    BY <2>3
  <2>5. g[0] = x
    BY <2>1 DEF Loop
  <2>6. ASSUME NEW j \in 1 .. m PROVE g[j] = G[<<g[j - 1], j>>]
    <3>1. g[j - 1] = h[j - 1]
      OBVIOUS
    <3>2. CASE j = m
      <4>1. g[m] = G[<<h[m - 1], m>>] /\ g[m - 1] = h[m - 1]
        BY <3>1, <3>2
      <4> HIDE DEF g
      <4> QED
        BY <3>2, <4>1
    <3>3. CASE j # m
      <4>1. j \in 1 .. m - 1 /\ g[j] = h[j]
        BY <3>3
      <4> QED
        BY <2>1, <3>1, <4>1 DEF Loop
    <3> QED
      BY <3>2, <3>3
  <2>7. Loop(g, x, m, G)
    BY <2>5, <2>6 DEF Loop
  <2> HIDE DEF g
  <2> QED
    BY <2>4, <2>7
<1> HIDE DEF T
<1>3. 0 .. n \subseteq T
  BY <1>1, <1>2, CountUp
<1>4. n \in T
  BY <1>3
<1> QED
  BY <1>4 DEF T

\* t has the items of s, in some order.
Rearranged(s, t) ==
    /\ t \in Seq(Int) /\ Len(t) = Len(s)
    /\ \E place \in Bijection(1 .. Len(s), 1 .. Len(s)) :
        \A k \in 1 .. Len(s) : t[k] = s[place[k]]

\* The items before i are in order, and none of those that follow is less.
InOrderBefore(s, i) ==
    \A k, l \in 1 .. Len(s) : k < i /\ k <= l => s[k] <= s[l]

\* The item at i is the least of those up to j.
LeastUpTo(s, i, j) == \A k \in i .. j : k \in 1 .. Len(s) => s[i] <= s[k]

\* Two items change places.
Exchanged(s, t, i, j) ==
    \A k \in 1 .. Len(s) : t[k] = s[IF k = i THEN j ELSE IF k = j THEN i ELSE k]

LEMMA SameRearranged ==
    ASSUME NEW s \in Seq(Int)
    PROVE  Rearranged(s, s)
<1> DEFINE n == Len(s)  place == [k \in 1 .. n |-> k]
<1>1. place \in Bijection(1 .. n, 1 .. n) /\ \A k \in 1 .. n : s[k] = s[place[k]]
  BY DEF Bijection, Injection, Surjection, IsInjective
<1> HIDE DEF place
<1> QED
  BY <1>1 DEF Rearranged

LEMMA ExchangedRearranged ==
    ASSUME NEW s \in Seq(Int), NEW t, Rearranged(s, t), NEW u \in Seq(Int), Len(u) = Len(t),
           NEW i \in 1 .. Len(s), NEW j \in 1 .. Len(s), Exchanged(t, u, i, j)
    PROVE  Rearranged(s, u)
<1> DEFINE n == Len(s)
<1>1. n \in Nat /\ Len(t) = n /\ t \in Seq(Int)
  BY LenProperties DEF Rearranged
<1>2. PICK place \in Bijection(1 .. n, 1 .. n) : \A k \in 1 .. n : t[k] = s[place[k]]
  BY DEF Rearranged
<1>3. i \in 1 .. n /\ j \in 1 .. n
  OBVIOUS
<1> HIDE DEF n
<1> DEFINE f == [k \in 1 .. n |-> IF k = i THEN j ELSE IF k = j THEN i ELSE k]
           q == [k \in 1 .. n |-> place[f[k]]]
<1>4. \A k \in 1 .. n : f[k] \in 1 .. n /\ f[f[k]] = k
  BY <1>3
<1>5. \A k \in 1 .. n : u[k] = t[f[k]]
  BY <1>1 DEF Exchanged
<1> HIDE DEF f
<1>6. place \in [1 .. n -> 1 .. n]
  BY <1>2 DEF Bijection, Injection, IsInjective
<1>7. \A k, l \in 1 .. n : place[k] = place[l] => k = l
  BY <1>2 DEF Bijection, Injection, IsInjective
<1>8. \A k \in 1 .. n : \E l \in 1 .. n : place[l] = k
  BY <1>2 DEF Bijection, Surjection
<1>9. q \in [1 .. n -> 1 .. n]
  BY <1>4, <1>6
<1>10. \A k, l \in 1 .. n : q[k] = q[l] => k = l
  <2> SUFFICES ASSUME NEW k \in 1 .. n, NEW l \in 1 .. n, q[k] = q[l] PROVE k = l
    OBVIOUS
  <2>1. place[f[k]] = place[f[l]] /\ f[k] \in 1 .. n /\ f[l] \in 1 .. n
    BY <1>4
  <2>2. f[k] = f[l]
    BY <1>7, <2>1
  <2>3. f[f[k]] = k /\ f[f[l]] = l
    BY <1>4
  <2> QED
    BY <2>2, <2>3
<1>11. \A k \in 1 .. n : \E l \in 1 .. n : q[l] = k
  BY <1>4, <1>8
<1>12. q \in Bijection(1 .. n, 1 .. n)
  BY <1>9, <1>10, <1>11 DEF Bijection, Injection, Surjection, IsInjective
<1>13. \A k \in 1 .. n : u[k] = s[q[k]]
  BY <1>2, <1>4, <1>5
<1> QED
  BY <1>1, <1>12, <1>13 DEF Rearranged, n

\* One comparison of the inner loop.
LEMMA ExchangeFacts ==
    ASSUME NEW s \in Seq(Int), NEW i \in 1 .. Len(s), NEW j \in i + 1 .. Len(s)
    PROVE  /\ Exchange(s, i, j) \in Seq(Int) /\ Len(Exchange(s, i, j)) = Len(s)
           /\ \/ Exchange(s, i, j) = s /\ s[i] <= s[j]
              \/ Exchanged(s, Exchange(s, i, j), i, j) /\ s[j] <= s[i]
<1> DEFINE n == Len(s)  t == Exchange(s, i, j)
<1>1. n \in Nat /\ DOMAIN s = 1 .. n /\ \A k \in 1 .. n : s[k] \in Int
  BY LenProperties, ElementOfSeq
<1>2. i \in 1 .. n /\ j \in 1 .. n /\ i # j
  BY <1>1
<1>3. s[i] \in Int /\ s[j] \in Int
  BY <1>1, <1>2
<1>4. CASE ~(s[i] > s[j])
  <2>1. t = s
    BY <1>4 DEF Exchange
  <2>2. s[i] <= s[j]
    BY <1>3, <1>4
  <2> QED
    BY <2>1, <2>2
<1>5. CASE s[i] > s[j]
  <2>1. t = [s EXCEPT ![i] = s[j], ![j] = s[i]]
    BY <1>5 DEF Exchange
  <2>2. s[j] <= s[i]
    BY <1>3, <1>5
  <2>3. \A k \in 1 .. n : t[k] = IF k = j THEN s[i] ELSE IF k = i THEN s[j] ELSE s[k]
    BY <1>1, <1>2, <2>1
  <2>4. DOMAIN t = 1 .. n /\ \A k \in 1 .. n : t[k] \in Int
    BY <1>1, <1>3, <2>1, <2>3
  <2>5. t = [k \in 1 .. n |-> t[k]]
    BY <2>1, <2>4
  <2> HIDE DEF t, n
  <2>6. t \in [1 .. n -> Int]
    BY <2>4, <2>5
  <2>7. t \in Seq(Int) /\ Len(t) = n
    BY <1>1, <2>6
  <2>8. \A k \in 1 .. n : t[k] = s[IF k = i THEN j ELSE IF k = j THEN i ELSE k]
    BY <1>2, <2>3
  <2>9. Exchanged(s, t, i, j)
    BY <2>8 DEF Exchanged, n
  <2> QED
    BY <2>2, <2>7, <2>9 DEF t, n
<1> QED
  BY <1>4, <1>5

\* It keeps what the sort has done, and the least item so far is at i.
LEMMA ExchangeOrders ==
    ASSUME NEW s \in Seq(Int), NEW i \in 1 .. Len(s), NEW j \in i + 1 .. Len(s),
           NEW h, h = j - 1, InOrderBefore(s, i), LeastUpTo(s, i, h)
    PROVE  /\ InOrderBefore(Exchange(s, i, j), i)
           /\ LeastUpTo(Exchange(s, i, j), i, j)
<1> DEFINE n == Len(s)  t == Exchange(s, i, j)
<1>1. n \in Nat /\ \A k \in 1 .. n : s[k] \in Int
  BY LenProperties, ElementOfSeq
<1>2. i \in 1 .. n /\ j \in 1 .. n /\ i < j /\ i \in Nat /\ j \in Nat
  BY <1>1
<1>3. /\ t \in Seq(Int) /\ Len(t) = n
      /\ \/ t = s /\ s[i] <= s[j]
         \/ Exchanged(s, t, i, j) /\ s[j] <= s[i]
  BY ExchangeFacts
<1>4. \A k, l \in 1 .. n : k < i /\ k <= l => s[k] <= s[l]
  BY DEF InOrderBefore
<1>5. \A k \in i .. j - 1 : s[i] <= s[k]
  <2>1. \A k \in i .. j - 1 : k \in 1 .. n
    BY <1>2
  <2> QED
    BY <2>1 DEF LeastUpTo
<1> HIDE DEF n, t
<1>6. CASE t = s /\ s[i] <= s[j]
  <2>1. \A k \in i .. j : s[i] <= s[k]
    BY <1>2, <1>5, <1>6
  <2> QED
    BY <1>6, <2>1 DEF InOrderBefore, LeastUpTo, t
<1>7. CASE Exchanged(s, t, i, j) /\ s[j] <= s[i]
  <2>1. \A k \in 1 .. n : t[k] = s[IF k = i THEN j ELSE IF k = j THEN i ELSE k]
    BY <1>7 DEF Exchanged, n
  <2>2. t[i] = s[j] /\ t[j] = s[i] /\ \A k \in 1 .. n : k # i /\ k # j => t[k] = s[k]
    BY <1>2, <2>1
  <2>3. ASSUME NEW k \in 1 .. n, NEW l \in 1 .. n, k < i, k <= l PROVE t[k] <= t[l]
    <3>1. t[k] = s[k]
      BY <1>2, <2>2, <2>3
    <3>2. s[k] <= s[i] /\ s[k] <= s[j] /\ s[k] <= s[l]
      BY <1>2, <1>4, <2>3
    <3>3. t[l] = s[i] \/ t[l] = s[j] \/ t[l] = s[l]
      BY <2>2
    <3> QED
      BY <3>1, <3>2, <3>3
  <2>4. ASSUME NEW k \in i .. j PROVE t[i] <= t[k]
    <3>0. k \in 1 .. n /\ s[j] \in Int /\ s[i] \in Int /\ s[k] \in Int
      BY <1>1, <1>2
    <3>1. CASE k = i
      BY <2>2, <3>0, <3>1
    <3>2. CASE k = j
      BY <1>7, <2>2, <3>2
    <3>3. CASE k # i /\ k # j
      <4>1. k \in i .. j - 1
        BY <1>2, <3>3
      <4>2. s[i] <= s[k] /\ t[k] = s[k]
        BY <1>5, <2>2, <3>0, <3>3, <4>1
      <4> QED
        BY <1>7, <2>2, <3>0, <4>2
    <3> QED
      BY <3>1, <3>2, <3>3
  <2>5. InOrderBefore(t, i)
    BY <1>3, <2>3 DEF InOrderBefore
  <2>6. LeastUpTo(t, i, j)
    BY <2>4 DEF LeastUpTo
  <2> QED
    BY <2>5, <2>6 DEF t
<1> QED
  BY <1>3, <1>6, <1>7

\* The inner loop.
LEMMA PassFacts ==
    ASSUME NEW r \in Seq(Int), NEW s, Rearranged(r, s), NEW i \in 1 .. Len(s),
           InOrderBefore(s, i)
    PROVE  /\ Rearranged(r, Pass(s, i))
           /\ InOrderBefore(Pass(s, i), i + 1)
<1> DEFINE n == Len(s)
           Step(f) == [j \in 0 .. n |-> IF j <= i THEN s ELSE Exchange(f[j - 1], i, j)]
           upTo == CHOOSE f : f = Step(f)
           S == {t \in Seq(Int) : Len(t) = n}
           G == [x \in S \X (1 .. n) |-> IF x[2] <= i THEN s ELSE Exchange(x[1], i, x[2])]
<1>1. s \in Seq(Int) /\ n \in Nat /\ i \in 1 .. n /\ s \in S /\ Len(r) = n
  BY LenProperties DEF Rearranged
<1> HIDE DEF n
<1>2. ASSUME NEW t \in S, NEW j \in 1 .. n, ~(j <= i) PROVE Exchange(t, i, j) \in S
  <2>1. t \in Seq(Int) /\ Len(t) = n
    OBVIOUS
  <2>2. i \in 1 .. Len(t) /\ j \in i + 1 .. Len(t)
    BY <1>1, <1>2, <2>1
  <2> QED
    BY <2>1, <2>2, ExchangeFacts
<1> HIDE DEF S
<1>3. G \in [S \X (1 .. n) -> S]
  <2>1. ASSUME NEW x \in S \X (1 .. n)
        PROVE  (IF x[2] <= i THEN s ELSE Exchange(x[1], i, x[2])) \in S
    BY <1>1, <1>2
  <2> QED
    BY <2>1
<1>4. upTo = Step(upTo)
  <2>1. \A t \in S, j \in 1 .. n : G[<<t, j>>] = IF j <= i THEN s ELSE Exchange(t, i, j)
    OBVIOUS
  <2> HIDE DEF G
  <2>h. PICK h \in [0 .. n -> S] : Loop(h, s, n, G)
    BY <1>1, <1>3, LoopExists
  <2>2. h[0] = s /\ \A j \in 1 .. n : h[j] = G[<<h[j - 1], j>>]
    BY <2>h DEF Loop
  <2>3. ASSUME NEW j \in 0 .. n
        PROVE  h[j] = IF j <= i THEN s ELSE Exchange(h[j - 1], i, j)
    <3>1. CASE j = 0
      BY <1>1, <2>2, <3>1
    <3>2. CASE j # 0
      <4>1. j \in 1 .. n /\ h[j - 1] \in S
        BY <1>1, <3>2
      <4> QED
        BY <2>1, <2>2, <4>1
    <3> QED
      BY <3>1, <3>2
  <2>4. h = Step(h)
    BY <2>3
  <2> HIDE DEF Step
  <2> QED
    BY <2>4
<1>5. Pass(s, i) = upTo[n]
  BY DEF Pass, n
<1> HIDE DEF upTo
<1>6. /\ \A j \in 0 .. n : j <= i => upTo[j] = s
      /\ \A j \in 0 .. n : ~(j <= i) => upTo[j] = Exchange(upTo[j - 1], i, j)
  BY <1>4
<1> HIDE DEF Step
<1> DEFINE Good(t, j) == Rearranged(r, t) /\ InOrderBefore(t, i) /\ LeastUpTo(t, i, j)
           T == {j \in 0 .. n : Good(upTo[j], j)}
<1>7. ASSUME NEW j \in 0 .. n, j <= i PROVE j \in T
  <2>1. LeastUpTo(s, i, j)
    <3>1. s[i] <= s[i]
      BY <1>1, ElementOfSeq
    <3>2. \A k \in i .. j : k = i
      BY <1>1, <1>7
    <3> QED
      BY <3>1, <3>2 DEF LeastUpTo
  <2> QED
    BY <1>6, <1>7, <2>1
<1>8. ASSUME NEW j \in 1 .. n, j - 1 \in T, ~(j <= i) PROVE j \in T
  <2> DEFINE t == upTo[j - 1]  u == Exchange(t, i, j)  h == j - 1
  <2>1. t \in Seq(Int) /\ Len(t) = n /\ Rearranged(r, t) /\ InOrderBefore(t, i) /\ LeastUpTo(t, i, h)
    BY <1>1, <1>8 DEF Rearranged
  <2>2. j \in 0 .. n /\ upTo[j] = u
    BY <1>1, <1>6, <1>8
  <2> HIDE DEF t
  <2>3. h = j - 1 /\ i \in 1 .. Len(t) /\ j \in i + 1 .. Len(t) /\ j \in 1 .. Len(t)
    BY <1>1, <1>8, <2>1
  <2> HIDE DEF h
  <2>4. InOrderBefore(u, i) /\ LeastUpTo(u, i, j)
    BY <2>1, <2>3, ExchangeOrders
  <2>5. Rearranged(r, u)
    <3>1. /\ u \in Seq(Int) /\ Len(u) = Len(t)
          /\ u = t \/ Exchanged(t, u, i, j)
      BY <2>1, <2>3, ExchangeFacts
    <3> HIDE DEF u
    <3>2. i \in 1 .. Len(r) /\ j \in 1 .. Len(r)
      BY <1>1, <2>1, <2>3
    <3>3. CASE u = t
      BY <2>1, <3>3
    <3>4. CASE Exchanged(t, u, i, j)
      BY <2>1, <3>1, <3>2, <3>4, ExchangedRearranged
    <3> QED
      BY <3>1, <3>3, <3>4
  <2> HIDE DEF u
  <2> QED
    BY <2>2, <2>4, <2>5
<1>9. n \in T
  <2> HIDE DEF T
  <2>1. 0 \in T
    BY <1>1, <1>7
  <2>2. \A j \in 1 .. n : j - 1 \in T => j \in T
    <3>1. \A j \in 1 .. n : j \in 0 .. n
      BY <1>1
    <3> QED
      BY <1>7, <1>8, <3>1
  <2>3. 0 .. n \subseteq T
    BY <1>1, <2>1, <2>2, CountUp
  <2> QED
    BY <1>1, <2>3
<1> DEFINE t == upTo[n]
<1>10. Rearranged(r, t) /\ InOrderBefore(t, i) /\ LeastUpTo(t, i, n)
  BY <1>9
<1> HIDE DEF t
<1>11. InOrderBefore(t, i + 1)
  <2>1. Len(t) = n
    BY <1>1, <1>10 DEF Rearranged
  <2>2. ASSUME NEW k \in 1 .. n, NEW l \in 1 .. n, k < i + 1, k <= l PROVE t[k] <= t[l]
    <3>1. CASE k < i
      BY <1>10, <2>1, <2>2, <3>1 DEF InOrderBefore
    <3>2. CASE k = i
      <4>1. l \in i .. n
        BY <1>1, <2>2, <3>2
      <4> QED
        BY <1>10, <2>1, <3>2, <4>1 DEF LeastUpTo
    <3>3. k < i \/ k = i
      BY <1>1, <2>2
    <3> QED
      BY <3>1, <3>2, <3>3
  <2> QED
    BY <2>1, <2>2 DEF InOrderBefore
<1> QED
  BY <1>5, <1>10, <1>11 DEF t

\* The outer loop: the result has the items of s and is in order.
LEMMA SortedFacts ==
    ASSUME NEW s \in Seq(Int)
    PROVE  /\ Rearranged(s, Sorted(s))
           /\ \A k, l \in 1 .. Len(s) : k <= l => Sorted(s)[k] <= Sorted(s)[l]
<1> DEFINE n == Len(s)
           Step(f) == [i \in 0 .. n |-> IF i = 0 THEN s ELSE Pass(f[i - 1], i)]
           upTo == CHOOSE f : f = Step(f)
           S == {t \in Seq(Int) : Rearranged(s, t)}
           G == [x \in S \X (1 .. n) |->
                    IF InOrderBefore(x[1], x[2]) THEN Pass(x[1], x[2]) ELSE x[1]]
<1>1. n \in Nat /\ s \in S
  BY SameRearranged, LenProperties
<1> HIDE DEF n
<1>2. ASSUME NEW t \in S, NEW i \in 1 .. n, InOrderBefore(t, i)
      PROVE  Pass(t, i) \in S /\ InOrderBefore(Pass(t, i), i + 1)
  <2>1. Rearranged(s, t) /\ i \in 1 .. Len(t)
    BY DEF Rearranged, n
  <2>2. Rearranged(s, Pass(t, i)) /\ InOrderBefore(Pass(t, i), i + 1)
    BY <1>2, <2>1, PassFacts
  <2>3. Pass(t, i) \in Seq(Int)
    BY <2>2 DEF Rearranged
  <2> QED
    BY <2>2, <2>3
<1>3. \A t \in S : Rearranged(s, t)
  OBVIOUS
<1> HIDE DEF S
<1>4. G \in [S \X (1 .. n) -> S]
  <2>1. ASSUME NEW x \in S \X (1 .. n)
        PROVE  (IF InOrderBefore(x[1], x[2]) THEN Pass(x[1], x[2]) ELSE x[1]) \in S
    <3>1. x[1] \in S /\ x[2] \in 1 .. n
      OBVIOUS
    <3> QED
      BY <1>2, <3>1
  <2> QED
    BY <2>1
\* Round by round.
<1>5. ASSUME NEW f, f[0] = s,
             \A i \in 1 .. n : f[i - 1] \in S /\ InOrderBefore(f[i - 1], i)
                                => f[i] = Pass(f[i - 1], i)
      PROVE  \A i \in 0 .. n : f[i] \in S /\ InOrderBefore(f[i], i + 1)
  <2> DEFINE Good(i) == f[i] \in S /\ InOrderBefore(f[i], i + 1)
             T == {i \in 0 .. n : Good(i)}
  <2>1. Good(0)
    <3>1. InOrderBefore(s, 1)
      BY DEF InOrderBefore
    <3>2. 0 + 1 = 1
      OBVIOUS
    <3> QED
      BY <1>1, <1>5, <3>1, <3>2
  <2>2. ASSUME NEW i \in 1 .. n, Good(i - 1) PROVE Good(i)
    <3>1. i - 1 + 1 = i
      OBVIOUS
    <3>2. f[i - 1] \in S /\ InOrderBefore(f[i - 1], i)
      BY <2>2, <3>1
    <3>3. f[i] = Pass(f[i - 1], i)
      BY <1>5, <3>2
    <3> DEFINE t == f[i - 1]
    <3> HIDE DEF t
    <3>4. Pass(t, i) \in S /\ InOrderBefore(Pass(t, i), i + 1)
      BY <1>2, <3>2 DEF t
    <3> QED
      BY <3>3, <3>4 DEF t
  <2> HIDE DEF Good
  <2>3. 0 \in T /\ \A i \in 1 .. n : i - 1 \in T => i \in T
    BY <1>1, <2>1, <2>2
  <2> HIDE DEF T
  <2>4. 0 .. n \subseteq T
    BY <1>1, <2>3, CountUp
  <2> QED
    BY <2>4 DEF T, Good
<1>6. upTo = Step(upTo)
  <2>1. \A t \in S, i \in 1 .. n :
            G[<<t, i>>] = IF InOrderBefore(t, i) THEN Pass(t, i) ELSE t
    OBVIOUS
  <2> HIDE DEF G
  <2>h. PICK h \in [0 .. n -> S] : Loop(h, s, n, G)
    BY <1>1, <1>4, LoopExists
  <2>2. h[0] = s /\ \A i \in 1 .. n : h[i] = G[<<h[i - 1], i>>]
    BY <2>h DEF Loop
  <2>3. \A i \in 1 .. n : h[i - 1] \in S /\ i - 1 \in 0 .. n
    BY <1>1
  <2>4. \A i \in 1 .. n : InOrderBefore(h[i - 1], i) => h[i] = Pass(h[i - 1], i)
    BY <2>1, <2>2, <2>3
  <2>5. \A i \in 0 .. n : h[i] \in S /\ InOrderBefore(h[i], i + 1)
    BY <1>5, <2>2, <2>4
  <2>6. ASSUME NEW i \in 1 .. n PROVE h[i] = Pass(h[i - 1], i)
    <3>1. i - 1 + 1 = i /\ i - 1 \in 0 .. n
      BY <2>3
    <3>2. InOrderBefore(h[i - 1], i - 1 + 1)
      BY <2>5, <3>1
    <3> QED
      BY <2>4, <3>1, <3>2
  <2>7. h = Step(h)
    <3>1. \A i \in 0 .. n : i = 0 \/ i \in 1 .. n
      BY <1>1
    <3>2. \A i \in 0 .. n : h[i] = IF i = 0 THEN s ELSE Pass(h[i - 1], i)
      BY <2>2, <2>6, <3>1
    <3> QED
      BY <3>2
  <2> HIDE DEF Step
  <2> QED
    BY <2>7
<1>7. Sorted(s) = upTo[n]
  BY DEF Sorted, n
<1> HIDE DEF upTo
<1>8. upTo[0] = s /\ \A i \in 1 .. n : upTo[i] = Pass(upTo[i - 1], i)
  <2>1. 0 \in 0 .. n /\ \A i \in 1 .. n : i \in 0 .. n /\ i # 0
    BY <1>1
  <2> QED
    BY <1>6, <2>1
<1>9. upTo[n] \in S /\ InOrderBefore(upTo[n], n + 1)
  <2>1. n \in 0 .. n
    BY <1>1
  <2>2. \A i \in 0 .. n : upTo[i] \in S /\ InOrderBefore(upTo[i], i + 1)
    BY <1>5, <1>8
  <2> QED
    BY <2>1, <2>2
<1> DEFINE t == upTo[n]
<1>10. Rearranged(s, t) /\ Len(t) = n /\ InOrderBefore(t, n + 1)
  BY <1>3, <1>9 DEF Rearranged, n
<1> HIDE DEF t
<1>11. \A k, l \in 1 .. n : k <= l => t[k] <= t[l]
  <2>1. \A k \in 1 .. n : k < n + 1
    BY <1>1
  <2> QED
    BY <1>10, <2>1 DEF InOrderBefore
<1> QED
  BY <1>7, <1>10, <1>11 DEF t, n

LEMMA SortStep ==
    ASSUME NEW p, NEW q, Heap(p, q), ChainSort
    PROVE  /\ Heap(p, q)'
           /\ ItemsAt(data', p) = Sorted(ItemsAt(data, p))
           /\ ItemsAt(data', q) = ItemsAt(data, q)
<1> DEFINE s == ItemsAt(data, p)  t == Sorted(s)  u == ItemsAt(data', p)
<1>1. /\ data' = [n \in Nodes |->
                     IF n \in ToSet(p) THEN t[CHOOSE i \in DOMAIN p : p[i] = n] ELSE data[n]]
      /\ UNCHANGED <<head, tail, next, allocated, shifted, copy, comparing>>
  <2>1. Path = p /\ Chained = ToSet(p) /\ Contents = s
    BY HeapPaths, HeapContents
  <2> QED
    BY <2>1 DEF ChainSort
<1>2. /\ data \in [Nodes -> Int] /\ ToSet(p) \cap ToSet(q) = {}
      /\ Links(next, p, head, tail)
  BY DEF Heap
<1>3. /\ p \in Seq(Nodes) /\ Len(p) \in Nat /\ DOMAIN p = 1 .. Len(p)
      /\ ToSet(p) \subseteq Nodes /\ ToSet(q) \subseteq Nodes
  BY HeapPaths, LenProperties
<1>4. /\ \A k \in 1 .. Len(p) : p[k] \in Nodes
      /\ \A k, j \in 1 .. Len(p) : p[k] = p[j] => k = j
  BY <1>2, LinksFacts
<1>5. s \in Seq(Int) /\ Len(s) = Len(p)
  BY <1>2, <1>3, ItemsAtFacts
<1>6. t \in Seq(Int) /\ Len(t) = Len(p) /\ \A k \in 1 .. Len(p) : t[k] \in Int
  BY <1>5, SortedFacts, ElementOfSeq DEF Rearranged
<1> HIDE DEF s, t
<1>7. \A k \in 1 .. Len(p) : data'[p[k]] = t[k]
  <2> SUFFICES ASSUME NEW k \in 1 .. Len(p) PROVE data'[p[k]] = t[k]
    OBVIOUS
  <2>1. (CHOOSE i \in DOMAIN p : p[i] = p[k]) = k
    BY <1>3, <1>4
  <2>2. p[k] \in ToSet(p) /\ p[k] \in Nodes
    BY <1>3, <1>4 DEF ToSet
  <2> QED
    BY <1>1, <2>1, <2>2
<1>8. \A n \in Nodes \ ToSet(p) : data'[n] = data[n]
  BY <1>1
<1>9. data' \in [Nodes -> Int]
  <2>1. ASSUME NEW n \in Nodes PROVE data'[n] \in Int
    <3>1. CASE n \in ToSet(p)
      <4>1. PICK k \in 1 .. Len(p) : n = p[k]
        BY <1>3, <3>1 DEF ToSet
      <4> QED
        BY <1>6, <1>7, <4>1
    <3>2. CASE n \notin ToSet(p)
      BY <1>2, <1>8, <3>2
    <3> QED
      BY <3>1, <3>2
  <2> QED
    BY <1>1, <2>1
<1>10. u = t
  <2>1. u \in Seq(Int) /\ Len(u) = Len(p) /\ \A k \in 1 .. Len(p) : u[k] = t[k]
    BY <1>3, <1>7, <1>9, ItemsAtFacts
  <2> HIDE DEF u
  <2> QED
    BY <1>6, <2>1, SeqEqual
<1>11. ItemsAt(data', q) = ItemsAt(data, q)
  <2>1. \A n \in ToSet(q) : data'[n] = data[n]
    BY <1>2, <1>3, <1>8
  <2> QED
    BY <2>1, ItemsFrame
<1>12. Heap(p, q)'
  BY <1>1, <1>9 DEF Heap
<1> QED
  BY <1>10, <1>11, <1>12 DEF s, t, u

-----------------------------------------------------------------------------
(* A step of any use of the chain.                                         *)

ChainStep ==
    \/ Next
    \/ \E v \in Values, gap \in Nat : AppendAll([i \in 1 .. gap |-> 0] \o <<v>>)
    \/ UNCHANGED vars

LEMMA EmptyFacts ==
    ASSUME NEW pointers, NEW p, NEW first, NEW last, Links(pointers, p, first, last)
    PROVE  /\ first = Null <=> p = <<>>
           /\ last = Null <=> p = <<>>
<1>1. /\ p \in Seq(Nodes) /\ Len(p) \in Nat
      /\ \A i \in 1 .. Len(p) : p[i] # Null
      /\ first = (IF Len(p) = 0 THEN Null ELSE p[1])
      /\ last = (IF Len(p) = 0 THEN Null ELSE p[Len(p)])
  BY LinksFacts
<1>2. p = <<>> <=> Len(p) = 0
  BY <1>1, EmptySeq
<1>3. Len(p) # 0 => 1 \in 1 .. Len(p) /\ Len(p) \in 1 .. Len(p)
  BY <1>1
<1> QED
  BY <1>1, <1>2, <1>3

LEMMA NoItems == ASSUME NEW values PROVE ItemsAt(values, <<>>) = <<>>
BY DEF ItemsAt

LEMMA ChainStepFacts ==
    ASSUME MayRemoveOnly = FALSE, NEW p, NEW q, Heap(p, q), ChainStep
    PROVE  \E r, t :
              /\ Heap(r, t)'
              /\ IF copy' = copy THEN ItemsAt(data', t) = ItemsAt(data, q)
                                 ELSE ItemsAt(data', t) \in {<<>>, ItemsAt(data, p)}
<1> DEFINE s == ItemsAt(data, p)
<1>1. s \in Seq(Int) /\ Len(s) = Len(p) /\ Len(p) \in Nat /\ Chained \subseteq Nodes
  <2>1. p \in Seq(Nodes) /\ data \in [Nodes -> Int]
    BY HeapPaths DEF Heap
  <2> QED
    BY <2>1, ItemsAtFacts, HeapPaths, LenProperties
<1>2. Values \subseteq Int
  BY ChainAssumption
<1> HIDE DEF s
<1> DEFINE Goal == \E r, t :
                /\ Heap(r, t)'
                /\ IF copy' = copy THEN ItemsAt(data', t) = ItemsAt(data, q)
                                   ELSE ItemsAt(data', t) \in {<<>>, s}
<1>4. ASSUME NEW r, Heap(r, q)', ItemsAt(data', q) = ItemsAt(data, q), copy' = copy
      PROVE  Goal
  BY <1>4
<1> HIDE DEF Goal
<1>5. ASSUME NEW v \in Values, NEW node, NEW at, PlaceAfter(p, node, at),
             InsertAfter(node, v)
      PROVE  Goal
  <2>1. v \in Int /\ copy' = copy
    BY <1>2, <1>5 DEF InsertAfter
  <2>2. PICK r : /\ Heap(r, q)'
                 /\ ItemsAt(data', r) = InsertAt(s, at, v)
                 /\ ItemsAt(data', q) = ItemsAt(data, q)
    BY <1>5, <2>1, InsertStep DEF s
  <2> QED
    BY <1>4, <2>1, <2>2
<1>6. ASSUME NEW v \in Values, NEW node \in Chained \cup {Null}, InsertAfter(node, v)
      PROVE  Goal
  BY <1>5, <1>6, PlaceFacts
<1>7. ASSUME NEW v \in Values, ChainAppend(v) PROVE Goal
  <2>1. PlaceAfter(p, tail, Len(p) + 1) /\ InsertAfter(tail, v)
    BY <1>7, PlaceFacts DEF ChainAppend
  <2> QED
    BY <1>5, <2>1
<1>8. ASSUME NEW v \in Values, ChainSortInsert(v) PROVE Goal
  <2>1. CASE ~comparing
    BY <1>7, <1>8, <2>1 DEF ChainSortInsert, ChainAppend
  <2>2. CASE comparing
    <3> DEFINE hits == {i \in DOMAIN Path : Greater(Path[i], v)}
               node == IF hits = {} THEN Null ELSE Path[Min(hits)]
    <3>1. InsertAfter(node, v)
      BY <1>8, <2>2 DEF ChainSortInsert
    <3>2. node \in Chained \cup {Null}
      <4>1. CASE hits = {}
        BY <4>1
      <4>2. CASE hits # {}
        <5>1. Path = p /\ DOMAIN p = 1 .. Len(p) /\ Chained = ToSet(p)
          BY HeapPaths, LenProperties
        <5>2. hits \in SUBSET Nat /\ hits \subseteq DOMAIN p
          BY <5>1
        <5> HIDE DEF hits
        <5>3. PICK m \in hits : \A k \in hits : m <= k
          BY <4>2, <5>2, LeastElement
        <5>4. Min(hits) \in hits
          BY <5>3 DEF Min
        <5> QED
          BY <4>2, <5>1, <5>2, <5>4 DEF ToSet
      <4> QED
        BY <4>1, <4>2
    <3> HIDE DEF node
    <3> QED
      BY <1>6, <3>1, <3>2
  <2> QED
    BY <2>1, <2>2
<1>9. ASSUME NEW v \in Values, NEW node, ChainInsert(node, v) PROVE Goal
  BY <1>6, <1>9 DEF ChainInsert
<1>10. ASSUME NEW v \in Values \cup {0}, NEW node, ChainAssign(node, v) PROVE Goal
  <2>1. v \in Int /\ copy' = copy
    BY <1>2, <1>10 DEF ChainAssign
  <2>2. /\ Heap(p, q)'
        /\ ItemsAt(data', q) = ItemsAt(data, q)
    BY <1>10, <2>1, AssignStep
  <2> QED
    BY <1>4, <2>1, <2>2
<1>11. ASSUME NEW node, ChainRemove(node) PROVE Goal
  <2>1. PICK i \in 1 .. Len(p) :
              /\ Heap(RemoveAt(p, i), q)'
              /\ ItemsAt(data', q) = ItemsAt(data, q)
    BY <1>11, RemoveStep
  <2> DEFINE r == RemoveAt(p, i)
  <2>2. Heap(r, q)'
    BY <2>1
  <2>3. copy' = copy
    BY <1>11 DEF ChainRemove
  <2> HIDE DEF r
  <2> QED
    BY <1>4, <2>1, <2>2, <2>3
<1>12. ASSUME NEW node, NodeDestroy(node) PROVE Goal
  <2>1. copy' = copy
    BY <1>12 DEF NodeDestroy
  <2>2. Heap(p, q)' /\ ItemsAt(data', q) = ItemsAt(data, q)
    BY <1>12, DestroyStep
  <2> QED
    BY <1>4, <2>1, <2>2
<1>13. ASSUME ChainCopy PROVE Goal
  <2>1. PICK t :
              /\ Heap(p, t)'
              /\ ItemsAt(data', t) = s
    BY <1>13, CopyStep DEF s
  <2>2. ASSUME copy' = copy PROVE ItemsAt(data', t) = ItemsAt(data, q)
    <3>1. copy.head = Null /\ copy'.head = Null
      BY <1>13, <2>2 DEF ChainCopy
    <3>2. q = <<>>
      BY <3>1, EmptyFacts DEF Heap
    <3>3. t = <<>>
      BY <2>1, <3>1, EmptyFacts DEF Heap
    <3> QED
      BY <3>2, <3>3, NoItems
  <2> QED
    BY <2>1, <2>2 DEF Goal
<1>14. ASSUME CopyDestroy PROVE Goal
  <2>1. Heap(p, <<>>)' /\ ItemsAt(data', <<>>) = <<>>
    BY <1>14, CopyDestroyStep, NoItems
  <2>2. copy' # copy
    BY <1>14 DEF CopyDestroy
  <2> QED
    BY <2>1, <2>2 DEF Goal
<1>15. ASSUME ChainShift PROVE Goal
  <2> DEFINE r == Tail(p)
  <2>1. Heap(r, q)' /\ data' = data /\ copy' = copy
    BY <1>15, ShiftStep DEF ChainShift
  <2> HIDE DEF r
  <2>2. ItemsAt(data', q) = ItemsAt(data, q)
    BY <2>1
  <2> QED
    BY <1>4, <2>1, <2>2
<1>16. ASSUME ChainClear PROVE Goal
  <2>1. Heap(<<>>, q)' /\ ItemsAt(data', q) = ItemsAt(data, q)
    BY <1>16, ClearStep
  <2>2. copy' = copy
    BY <1>16 DEF ChainClear
  <2> QED
    BY <1>4, <2>1, <2>2
<1>17. ASSUME ChainSort PROVE Goal
  <2>1. Heap(p, q)' /\ ItemsAt(data', q) = ItemsAt(data, q)
    BY <1>17, SortStep
  <2>2. copy' = copy
    BY <1>17 DEF ChainSort
  <2> QED
    BY <1>4, <2>1, <2>2
<1>18. ASSUME ChainReverse PROVE Goal
  <2> DEFINE r == Reverse(p)
  <2>1. Heap(r, q)' /\ data' = data /\ copy' = copy
    BY <1>18, ReverseStep DEF ChainReverse
  <2> HIDE DEF r
  <2>2. ItemsAt(data', q) = ItemsAt(data, q)
    BY <2>1
  <2> QED
    BY <1>4, <2>1, <2>2
<1>19. ASSUME NEW v \in Values, NEW gap \in Nat,
              AppendAll([i \in 1 .. gap |-> 0] \o <<v>>)
       PROVE  Goal
  <2> DEFINE zeros == [i \in 1 .. gap |-> 0]  more == zeros \o <<v>>
  <2>1. zeros \in Seq(Int) /\ <<v>> \in Seq(Int) /\ Len(<<v>>) = 1 /\ Len(zeros) = gap
    BY <1>2
  <2> HIDE DEF zeros
  <2>2. more \in Seq(Int) /\ Len(more) = gap + 1
    BY <2>1, ConcatProperties
  <2>3. more # <<>>
    BY <2>2, EmptySeq
  <2>4. AppendAll(more)
    BY <1>19 DEF zeros
  <2> HIDE DEF more
  <2>5. PICK r : Heap(r, q)' /\ ItemsAt(data', q) = ItemsAt(data, q)
    BY <2>2, <2>3, <2>4, AppendAllStep
  <2>6. copy' = copy
    BY <2>4 DEF AppendAll
  <2> QED
    BY <1>4, <2>5, <2>6
<1>20. ASSUME UNCHANGED vars PROVE Goal
  <2>1. Heap(p, q)' /\ data' = data /\ copy' = copy
    BY <1>20 DEF Heap, vars
  <2>2. ItemsAt(data', q) = ItemsAt(data, q)
    BY <2>1
  <2> QED
    BY <1>4, <2>1, <2>2
<1>21. ASSUME Next PROVE Goal
  <2>1. \/ \E v \in Values : ChainAppend(v) \/ ChainSortInsert(v)
        \/ \E v \in Values, n \in Nodes \cup {Null} : ChainInsert(n, v)
        \/ \E v \in Values, n \in Nodes : ChainAssign(n, v)
        \/ \E n \in Nodes : ChainAssign(n, 0) \/ ChainRemove(n) \/ NodeDestroy(n)
        \/ ChainCopy \/ CopyDestroy
        \/ ChainShift \/ ChainClear \/ ChainSort \/ ChainReverse
    BY <1>21 DEF Next, ChainErase
  <2> QED
    BY <1>7, <1>8, <1>9, <1>10, <1>11, <1>12, <1>13, <1>14, <1>15, <1>16, <1>17, <1>18, <2>1
<1>22. Goal
  BY <1>19, <1>20, <1>21 DEF ChainStep
<1> QED
  BY <1>22 DEF Goal, s

LEMMA InvInitially == Init => ChainInv
BY InitHeap, InvHolds

\* The invariant is inductive, unless the only node of a chain is removed.
LEMMA InvStep ==
    ASSUME MayRemoveOnly = FALSE, ChainInv, ChainStep
    PROVE  ChainInv'
<1>1. PICK p, q : Heap(p, q)
  BY DEF ChainInv
<1>2. PICK r, t : Heap(r, t)'
  BY <1>1, ChainStepFacts
<1>3. r \in Seq(Nodes) /\ t \in Seq(Nodes)
  BY <1>2 DEF Heap, Links
<1> QED
  BY <1>2, <1>3 DEF ChainInv

LEMMA InvTyped == ASSUME ChainInv PROVE TypeOK
<1>1. PICK p, q : Heap(p, q)
  BY DEF ChainInv
<1>2. ASSUME NEW r, NEW first, NEW last, Links(next, r, first, last)
      PROVE  EndsAt(first, last)
  <2>1. PathFrom(first) = r
    BY <1>2, FollowLinks DEF PathFrom
  <2>2. first = Null <=> last = Null
    BY <1>2, EmptyFacts
  <2>3. ASSUME first # Null PROVE last = Last(r) /\ next[last] = Null
    <3>1. Len(r) \in Nat /\ Len(r) # 0
      BY <1>2, <2>3, LinksFacts
    <3>2. last = r[Len(r)] /\ Len(r) \in 1 .. Len(r)
      BY <1>2, <3>1, LinksFacts
    <3>3. next[r[Len(r)]] = Null
      BY <1>2, <3>2, LinksFacts
    <3> QED
      BY <3>2, <3>3 DEF Last
  <2> QED
    BY <2>1, <2>2, <2>3 DEF EndsAt
<1>3. EndsAt(head, tail) /\ EndsAt(copy.head, copy.tail)
  BY <1>1, <1>2 DEF Heap
<1>4. Chained = ToSet(p) /\ CopyPath = q /\ ToSet(p) \subseteq Nodes /\ ToSet(q) \subseteq Nodes
  BY <1>1, HeapPaths
<1> QED
  BY <1>1, <1>3, <1>4 DEF TypeOK, Heap

LEMMA InvNoLeak == ASSUME ChainInv PROVE NoLeak
<1>1. PICK p, q : Heap(p, q)
  BY DEF ChainInv
<1> DEFINE A == ToSet(p)  B == ToSet(q)
<1>2. Chained = A /\ ToSet(CopyPath) = B /\ A \subseteq Nodes /\ B \subseteq Nodes
  BY <1>1, HeapPaths
<1>3. /\ A \cap B = {} /\ shifted \cap (A \cup B) = {} /\ shifted \subseteq Nodes
      /\ allocated = A \cup B \cup shifted
  BY <1>1 DEF Heap
<1> HIDE DEF A, B
<1>4. IsFiniteSet(A) /\ IsFiniteSet(B) /\ IsFiniteSet(shifted)
  BY <1>2, <1>3, FS_Subset, ChainAssumption
<1>5. /\ Cardinality(A) \in Nat /\ Cardinality(B) \in Nat /\ Cardinality(shifted) \in Nat
      /\ Cardinality({}) = 0
  BY <1>4, FS_CardinalityType, FS_EmptySet
<1>6. /\ IsFiniteSet(A \cup B)
      /\ Cardinality(A \cup B) = Cardinality(A) + Cardinality(B) - Cardinality(A \cap B)
  BY <1>4, FS_Union
<1>7. Cardinality((A \cup B) \cup shifted) =
        Cardinality(A \cup B) + Cardinality(shifted) - Cardinality((A \cup B) \cap shifted)
  BY <1>4, <1>6, FS_Union
<1>8. (A \cup B) \cap shifted = {}
  BY <1>3
<1>9. Cardinality(allocated) = Cardinality(A) + Cardinality(B) + Cardinality(shifted)
  <2>1. Cardinality(A \cap B) = 0 /\ Cardinality((A \cup B) \cap shifted) = 0
    BY <1>3, <1>5, <1>8
  <2>2. allocated = (A \cup B) \cup shifted
    BY <1>3
  <2> QED
    BY <1>5, <1>6, <1>7, <2>1, <2>2
<1> QED
  BY <1>2, <1>3, <1>9 DEF NoLeak

LEMMA InvCopy ==
    ASSUME MayRemoveOnly = FALSE, ChainInv, ChainStep
    PROVE  IF copy' = copy THEN CopyContents' = CopyContents
                           ELSE CopyContents' \in {<<>>, Contents}
<1>1. PICK p, q : Heap(p, q)
  BY DEF ChainInv
<1>3. PICK r, t :
        /\ Heap(r, t)'
        /\ IF copy' = copy THEN ItemsAt(data', t) = ItemsAt(data, q)
                           ELSE ItemsAt(data', t) \in {<<>>, ItemsAt(data, p)}
  BY <1>1, ChainStepFacts
<1>4. Contents = ItemsAt(data, p) /\ CopyContents = ItemsAt(data, q)
  BY <1>1, HeapContents
<1>5. CopyContents' = ItemsAt(data', t)
  BY <1>3, ContentsAfter
<1> QED
  BY <1>3, <1>4, <1>5

=============================================================================
