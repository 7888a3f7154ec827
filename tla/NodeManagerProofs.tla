------------------------- MODULE NodeManagerProofs --------------------------
(***************************************************************************)
(* Proofs about the node pool: no NodeValue is freed that the program can  *)
(* still reach, counts are exact until they are maxed out, unreferenced    *)
(* nodes are accounted for, and ~NodeManager frees every node.             *)
(***************************************************************************)
EXTENDS NodeManager, SequenceLemmas, FiniteSetTheorems

-----------------------------------------------------------------------------
(***************************************************************************)
(* The inductive invariant.                                                *)
(***************************************************************************)
Kids(n) == ToSet(heap[n].kids)

HeapTypes ==
    /\ heap \in [DOMAIN heap -> Value] /\ DOMAIN heap \subseteq Ids
    /\ nextId \in 1..(MaxNodes + 1) /\ pool \subseteq DOMAIN heap
    /\ zombies \subseteq DOMAIN heap /\ batch \subseteq DOMAIN heap
    /\ reclaiming \in BOOLEAN /\ maxedOut \in Seq(Ids)

RefTypes ==
    /\ handles \in [Ids -> Nat]
    /\ builder \in [open : BOOLEAN, kind : Operators \cup {Null}, kids : Seq(Ids)]
    /\ builder.open => builder.kind \in Operators
    /\ ~builder.open => builder.kids = << >>
    /\ Len(builder.kids) <= MaxArity
    /\ attrs \in [DOMAIN attrs -> Ids] /\ DOMAIN attrs \subseteq DOMAIN heap

OpTypes ==
    /\ decs \in Seq(Ids)
    /\ \/ after = Nothing
       \/ after \in [kind : {"wrap"}, node : Ids, key : {Null}]
       \/ after \in [kind : {"store"}, node : Ids, key : Ids]

SortTypes ==
    /\ phase \in {"live", "dropping", "sorting", "draining", "gone"}
    /\ sort \in [roots : Seq(Ids), rootSet : SUBSET Ids,
                 stack : Seq([post : BOOLEAN, node : Ids]),
                 visited : SUBSET Ids, order : Seq(Ids)]

Types == instance \in Instances /\ HeapTypes /\ RefTypes /\ OpTypes /\ SortTypes

\* Children are older than their parents and live at least as long.
Older ==
    /\ \A n \in DOMAIN heap : n < nextId /\ Len(heap[n].kids) <= MaxArity
    /\ \A n \in DOMAIN heap : \A m \in Kids(n) : m < n

\* The bound on the Node objects holds, with the one that is to come.
Bounded ==
    /\ handles \in [Ids -> 0..MaxHandles] /\ Cardinality(Objects) <= MaxHandles
    /\ after.kind = "wrap" => Room

\* A count that is not maxed out is exact; nothing refers to what is freed.
Exact ==
    /\ \A n \in DOMAIN heap : heap[n].rc < MaxRC => heap[n].rc = References(n)
    /\ \A n \in Ids \ DOMAIN heap : References(n) = 0

\* A batch holds unreferenced nodes, and what it does not hold is a zombie.
Accounted ==
    /\ ~reclaiming => batch = {}
    /\ \A n \in batch : heap[n].rc = 0 /\ n \notin zombies
    /\ \A n \in DOMAIN heap : heap[n].rc = 0 => n \in zombies \cup batch

\* What the operation in progress is going to wrap is kept by a Node object, or
\* no batch can start: it keeps what is going to be released itself.
Kept ==
    /\ after.kind = "wrap" =>
         /\ after.node \in DOMAIN heap
         /\ \/ handles[after.node] > 0
            \/ ~reclaiming /\ ToSet(decs) \subseteq Kids(after.node)
    /\ after.kind = "store" =>
         handles[after.key] > 0 /\ after.key \notin DOMAIN attrs

\* The destructor has let go of everything; what it does when.
Quiet ==
    /\ phase # "live" =>
         /\ after = Nothing /\ ~builder.open /\ attrs = << >>
         /\ \A n \in Ids : handles[n] = 0
    /\ phase \in {"sorting", "draining", "gone"} => decs = << >>
    /\ phase \in {"sorting", "gone"} => ~reclaiming
    /\ phase = "gone" => DOMAIN heap = {}

Maxed == {n \in DOMAIN heap : heap[n].rc = MaxRC}

Open == {sort.stack[i].node : i \in {j \in DOMAIN sort.stack : sort.stack[j].post}}
Finished == sort.visited \ Open

\* C has the children of its members.
Downward(C) == \A n \in C \cap DOMAIN heap : Kids(n) \subseteq C

\* What is before an element of the order can be separated from what is after
\* it by a set that has the children of its members.
Separates(C, i) ==
    /\ Downward(C) /\ sort.order[i] \in C
    /\ \A j \in DOMAIN sort.order : j > i => sort.order[j] \notin C
Ordered ==
    /\ \A i, j \in DOMAIN sort.order : sort.order[i] = sort.order[j] => i = j
    /\ \A i \in DOMAIN sort.order : \E C \in SUBSET Ids : Separates(C, i)

\* The depth-first search: an open node is above all that was pushed after it,
\* and its children are visited or still to be.
Searching ==
    /\ sort.visited \subseteq DOMAIN heap
    /\ \A i \in DOMAIN sort.stack :
         /\ sort.stack[i].node \in DOMAIN heap
         /\ sort.stack[i].post =>
              /\ sort.stack[i].node \in sort.visited
              /\ \A j \in DOMAIN sort.stack : j > i =>
                    sort.stack[j].node < sort.stack[i].node
              /\ \A m \in Kids(sort.stack[i].node) :
                    m \in sort.visited
                      \/ \E j \in DOMAIN sort.stack : j > i /\ sort.stack[j].node = m
    /\ \A n \in Finished : Kids(n) \subseteq Finished
    /\ sort.rootSet = Maxed /\ ToSet(sort.roots) \subseteq Maxed
    /\ Maxed \subseteq sort.visited \cup ToSet(sort.roots)
                        \cup {sort.stack[i].node : i \in DOMAIN sort.stack}
    /\ ToSet(sort.order) = Finished \cap Maxed
    /\ \A i \in DOMAIN sort.order : \E C \in SUBSET Finished : Separates(C, i)

Tracked ==
    /\ phase \in {"live", "dropping"} => ToSet(maxedOut) = Maxed /\ sort = NoSort
    /\ phase \notin {"live", "dropping"} => maxedOut = << >> /\ Ordered
    /\ phase = "sorting" => Searching
    /\ phase \in {"draining", "gone"} =>
         ToSet(sort.order) = Maxed /\ sort.roots = << >>

IInv ==
    Types /\ Older /\ Bounded /\ Exact /\ Accounted /\ Kept /\ Quiet /\ Tracked
-----------------------------------------------------------------------------
(***************************************************************************)
(* Counting occurrences.                                                   *)
(***************************************************************************)
\* The places of a value in a sequence are finitely many.
LEMMA CountType ==
  ASSUME NEW T, NEW s \in Seq(T), NEW n
  PROVE  /\ IsFiniteSet({i \in DOMAIN s : s[i] = n})
         /\ Count(s, n) \in Nat
         /\ Count(s, n) > 0 <=> n \in ToSet(s)
<1> DEFINE P == {i \in DOMAIN s : s[i] = n}
<1>1. DOMAIN s = 1..Len(s) /\ Len(s) \in Nat
  OBVIOUS
<1>2. IsFiniteSet(1..Len(s))
  BY <1>1, FS_Interval
<1>3. P \in SUBSET (1..Len(s))
  BY <1>1
<1>4. IsFiniteSet(P)
  BY <1>2, <1>3, FS_Subset
<1>5. Cardinality(P) \in Nat /\ (Cardinality(P) = 0 <=> P = {})
  BY <1>4, FS_CardinalityType, FS_EmptySet
<1>6. P # {} <=> n \in ToSet(s)
  BY DEF ToSet
<1> QED
  BY <1>4, <1>5, <1>6 DEF Count

\* Nothing occurs in the empty sequence.
LEMMA CountEmpty ==
  ASSUME NEW n
  PROVE  Count(<< >>, n) = 0
<1>1. {i \in DOMAIN << >> : << >>[i] = n} = {}
  OBVIOUS
<1> QED
  BY <1>1, FS_EmptySet DEF Count

\* A shifted set has as many members.
LEMMA Shifted ==
  ASSUME NEW k \in Nat, NEW A, IsFiniteSet(A), A \subseteq Nat
  PROVE  /\ IsFiniteSet({k + i : i \in A})
         /\ Cardinality({k + i : i \in A}) = Cardinality(A)
<1> DEFINE B == {k + i : i \in A}
           f == [i \in A |-> k + i]
<1>1. f \in Bijection(A, B)
  <2>1. \A a, b \in A : k + a = k + b => a = b
    OBVIOUS
  <2> QED
    BY <2>1 DEF Bijection, Injection, Surjection, IsInjective
<1>2. ExistsBijection(A, B)
  BY <1>1 DEF ExistsBijection
<1> QED
  BY <1>2, FS_Bijection

\* Two sets that do not meet.
LEMMA Disjoint ==
  ASSUME NEW A, NEW B, IsFiniteSet(A), IsFiniteSet(B), \A x \in A : x \notin B
  PROVE  /\ IsFiniteSet(A \cup B)
         /\ Cardinality(A \cup B) = Cardinality(A) + Cardinality(B)
<1>1. A \cap B = {}
  OBVIOUS
<1>2. /\ IsFiniteSet(A \cup B)
      /\ Cardinality(A \cup B) = Cardinality(A) + Cardinality(B) - Cardinality(A \cap B)
  BY FS_Union
<1>3. Cardinality(A) \in Nat /\ Cardinality(B) \in Nat /\ Cardinality(A \cap B) = 0
  BY <1>1, FS_CardinalityType, FS_EmptySet
<1> QED
  BY <1>2, <1>3

\* A concatenation.
LEMMA CountConcat ==
  ASSUME NEW T, NEW s \in Seq(T), NEW t \in Seq(T), NEW n
  PROVE  Count(s \o t, n) = Count(s, n) + Count(t, n)
<1> DEFINE A == {i \in DOMAIN s : s[i] = n}
           B == {i \in DOMAIN t : t[i] = n}
           C == {Len(s) + i : i \in B}
           u == s \o t
<1>1. /\ IsFiniteSet(A) /\ IsFiniteSet(B)
  BY CountType
<1>2. /\ DOMAIN s = 1..Len(s) /\ DOMAIN t = 1..Len(t) /\ Len(s) \in Nat /\ Len(t) \in Nat
  OBVIOUS
<1>3. IsFiniteSet(C) /\ Cardinality(C) = Cardinality(B)
  <2>1. B \subseteq Nat
    BY <1>2
  <2> HIDE DEF B
  <2> QED
    BY <1>1, <1>2, <2>1, Shifted
<1>4. u \in Seq(T) /\ DOMAIN u = 1..(Len(s) + Len(t))
  BY Concat
<1>5. /\ \A i \in 1..Len(s) : u[i] = s[i]
      /\ \A i \in 1..Len(t) : u[Len(s) + i] = t[i]
      /\ \A p \in 1..(Len(s) + Len(t)) :
            p \in 1..Len(s) \/ \E i \in 1..Len(t) : p = Len(s) + i
  BY Concat
<1> HIDE DEF u
<1>6. {i \in DOMAIN u : u[i] = n} = A \cup C
  <2>1. ASSUME NEW i \in DOMAIN u, u[i] = n  PROVE i \in A \cup C
    <3>1. CASE i \in 1..Len(s)
      BY <2>1, <3>1, <1>2, <1>5
    <3>2. CASE \E j \in 1..Len(t) : i = Len(s) + j
      <4>1. PICK j \in 1..Len(t) : i = Len(s) + j
        BY <3>2
      <4> QED
        BY <4>1, <2>1, <1>2, <1>5
    <3> QED
      BY <3>1, <3>2, <1>4, <1>5
  <2>2. ASSUME NEW i \in A  PROVE i \in DOMAIN u /\ u[i] = n
    BY <2>2, <1>2, <1>4, <1>5
  <2>3. ASSUME NEW j \in B  PROVE Len(s) + j \in DOMAIN u /\ u[Len(s) + j] = n
    BY <2>3, <1>2, <1>4, <1>5
  <2> QED
    BY <2>1, <2>2, <2>3
<1>7. \A x \in A : x \notin C
  BY <1>2
<1> HIDE DEF A, B, C
<1>8. Cardinality(A \cup C) = Cardinality(A) + Cardinality(C)
  BY <1>1, <1>3, <1>7, Disjoint
<1>9. Count(u, n) = Cardinality(A \cup C)
  BY <1>6 DEF Count
<1>10. Count(s, n) = Cardinality(A) /\ Count(t, n) = Cardinality(B)
  BY DEF Count, A, B
<1> QED
  BY <1>3, <1>8, <1>9, <1>10 DEF u

\* A sequence of one element.
LEMMA CountSingle ==
  ASSUME NEW m, NEW n
  PROVE  Count(<<m>>, n) = IF m = n THEN 1 ELSE 0
<1>1. CASE m = n
  <2>1. {i \in DOMAIN <<m>> : <<m>>[i] = n} = {1}
    BY <1>1
  <2> QED
    BY <1>1, <2>1, FS_Singleton DEF Count
<1>2. CASE m # n
  <2>1. {i \in DOMAIN <<m>> : <<m>>[i] = n} = {}
    BY <1>2
  <2> QED
    BY <1>2, <2>1, FS_EmptySet DEF Count
<1> QED
  BY <1>1, <1>2

\* A sequence extended by one element.
LEMMA CountAppend ==
  ASSUME NEW T, NEW s \in Seq(T), NEW m \in T, NEW n
  PROVE  Count(Append(s, m), n) = Count(s, n) + IF m = n THEN 1 ELSE 0
<1>1. Append(s, m) = s \o <<m>> /\ <<m>> \in Seq(T)
  OBVIOUS
<1>2. Count(s \o <<m>>, n) = Count(s, n) + Count(<<m>>, n)
  BY <1>1, CountConcat
<1>3. Count(Append(s, m), n) = Count(s, n) + Count(<<m>>, n)
  BY <1>1, <1>2
<1>4. Count(<<m>>, n) = IF m = n THEN 1 ELSE 0
  BY CountSingle
<1> QED
  BY <1>3, <1>4

\* A sequence without its first element.
LEMMA CountTail ==
  ASSUME NEW T, NEW s \in Seq(T), s # << >>, NEW n
  PROVE  /\ Tail(s) \in Seq(T) /\ Head(s) \in T /\ Head(s) \in ToSet(s)
         /\ ToSet(Tail(s)) \subseteq ToSet(s)
         /\ Count(s, n) = (IF Head(s) = n THEN 1 ELSE 0) + Count(Tail(s), n)
<1>1. /\ s = <<Head(s)>> \o Tail(s)
      /\ Tail(s) \in Seq(T) /\ Head(s) \in T
  BY EmptySeq
<1>2. <<Head(s)>> \in Seq(T)
  BY <1>1
<1>3. Count(<<Head(s)>> \o Tail(s), n) = Count(<<Head(s)>>, n) + Count(Tail(s), n)
  BY <1>1, <1>2, CountConcat
<1>4. ToSet(<<Head(s)>> \o Tail(s)) = ToSet(<<Head(s)>>) \cup ToSet(Tail(s))
  BY <1>1, <1>2, ConcatSet
<1>5. Head(s) \in ToSet(<<Head(s)>>)
  BY DEF ToSet
<1>6. Count(<<Head(s)>>, n) = IF Head(s) = n THEN 1 ELSE 0
  BY CountSingle
<1>7. Count(s, n) = Count(<<Head(s)>>, n) + Count(Tail(s), n)
  BY <1>1, <1>3
<1>8. ToSet(s) = ToSet(<<Head(s)>>) \cup ToSet(Tail(s))
  BY <1>1, <1>4
<1> QED
  BY <1>1, <1>5, <1>6, <1>7, <1>8

-----------------------------------------------------------------------------
(***************************************************************************)
(* The places of a node among the children of others, in a heap.           *)
(***************************************************************************)
PlacesIn(h, a, n) ==
    {p \in (DOMAIN h) \X (1..a) : p[2] <= Len(h[p[1]].kids) /\ h[p[1]].kids[p[2]] = n}

\* They are finitely many, and there are some exactly for a child.
LEMMA PlacesType ==
  ASSUME NEW h, IsFiniteSet(DOMAIN h), NEW a \in Nat, NEW n, NEW T,
         \A m \in DOMAIN h : h[m].kids \in Seq(T) /\ Len(h[m].kids) <= a
  PROVE  /\ IsFiniteSet(PlacesIn(h, a, n))
         /\ Cardinality(PlacesIn(h, a, n)) \in Nat
         /\ Cardinality(PlacesIn(h, a, n)) > 0
              <=> \E m \in DOMAIN h : n \in ToSet(h[m].kids)
<1> DEFINE P == PlacesIn(h, a, n)
<1>0. IsFiniteSet(1..a)
  <2>1. 1 \in Int /\ a \in Int
    OBVIOUS
  <2> QED
    BY <2>1, FS_Interval
<1>1. IsFiniteSet((DOMAIN h) \X (1..a))
  BY <1>0, FS_Product
<1>2. P \in SUBSET ((DOMAIN h) \X (1..a))
  BY DEF PlacesIn
<1>3. IsFiniteSet(P)
  BY <1>1, <1>2, FS_Subset
<1>4. Cardinality(P) \in Nat /\ (Cardinality(P) = 0 <=> P = {})
  BY <1>3, FS_CardinalityType, FS_EmptySet
<1>5. ASSUME NEW p \in P  PROVE \E m \in DOMAIN h : n \in ToSet(h[m].kids)
  <2>1. /\ p[1] \in DOMAIN h /\ p[2] \in 1..a /\ p[2] <= Len(h[p[1]].kids)
        /\ h[p[1]].kids[p[2]] = n
    BY <1>5 DEF PlacesIn
  <2>2. p[2] \in DOMAIN h[p[1]].kids
    BY <2>1
  <2>3. n \in ToSet(h[p[1]].kids)
    BY <2>1, <2>2 DEF ToSet
  <2> QED
    BY <2>1, <2>3
<1>6. ASSUME NEW m \in DOMAIN h, n \in ToSet(h[m].kids)  PROVE P # {}
  <2>1. PICK i \in DOMAIN h[m].kids : h[m].kids[i] = n
    BY <1>6 DEF ToSet
  <2>2. i \in 1..a /\ i <= Len(h[m].kids)
    BY <2>1
  <2>3. <<m, i>> \in P
    BY <2>1, <2>2 DEF PlacesIn
  <2> QED
    BY <2>3
<1> QED
  BY <1>3, <1>4, <1>5, <1>6

\* Counts do not matter.
LEMMA PlacesSame ==
  ASSUME NEW h, NEW g, NEW a, NEW n, DOMAIN g = DOMAIN h,
         \A m \in DOMAIN h : g[m].kids = h[m].kids
  PROVE  PlacesIn(g, a, n) = PlacesIn(h, a, n)
BY DEF PlacesIn

\* A heap with one node more.
LEMMA PlacesMore ==
  ASSUME NEW h, IsFiniteSet(DOMAIN h), NEW g, NEW x, x \notin DOMAIN h,
         DOMAIN g = DOMAIN h \cup {x}, NEW a \in Nat, NEW n, NEW T,
         \A m \in DOMAIN h : g[m].kids = h[m].kids,
         \A m \in DOMAIN g : g[m].kids \in Seq(T) /\ Len(g[m].kids) <= a
  PROVE  Cardinality(PlacesIn(g, a, n))
            = Cardinality(PlacesIn(h, a, n)) + Count(g[x].kids, n)
<1> DEFINE P == PlacesIn(h, a, n)
           I == {i \in DOMAIN g[x].kids : g[x].kids[i] = n}
           X == {<<x, i>> : i \in I}
           f == [i \in I |-> <<x, i>>]
<1>1. \A m \in DOMAIN h : h[m].kids \in Seq(T) /\ Len(h[m].kids) <= a
  OBVIOUS
<1>2. IsFiniteSet(P)
  BY <1>1, PlacesType
<1>3. x \in DOMAIN g /\ g[x].kids \in Seq(T) /\ Len(g[x].kids) <= a
  OBVIOUS
<1>4. IsFiniteSet(I) /\ Count(g[x].kids, n) = Cardinality(I)
  BY <1>3, CountType DEF Count
<1>5. f \in Bijection(I, X)
  BY DEF Bijection, Injection, Surjection, IsInjective
<1>6. IsFiniteSet(X) /\ Cardinality(X) = Cardinality(I)
  BY <1>4, <1>5, FS_Bijection DEF ExistsBijection
<1>7. \A p \in P : p \notin X
  BY DEF PlacesIn
<1>8. PlacesIn(g, a, n) = P \cup X
  <2>1. ASSUME NEW p \in PlacesIn(g, a, n)  PROVE p \in P \cup X
    <3>1. /\ p \in (DOMAIN g) \X (1..a) /\ p[2] <= Len(g[p[1]].kids)
          /\ g[p[1]].kids[p[2]] = n
      BY <2>1 DEF PlacesIn
    <3>2. CASE p[1] \in DOMAIN h
      BY <3>1, <3>2 DEF PlacesIn
    <3>3. CASE p[1] = x
      <4>1. p = <<x, p[2]>> /\ p[2] \in DOMAIN g[x].kids
        BY <3>1, <3>3, <1>3
      <4>2. p[2] \in I
        BY <3>1, <3>3, <4>1
      <4> QED
        BY <4>1, <4>2
    <3> QED
      BY <3>1, <3>2, <3>3
  <2>2. ASSUME NEW p \in P  PROVE p \in PlacesIn(g, a, n)
    BY <2>2 DEF PlacesIn
  <2>3. ASSUME NEW i \in I  PROVE <<x, i>> \in PlacesIn(g, a, n)
    <3>1. i \in 1..a /\ i <= Len(g[x].kids) /\ g[x].kids[i] = n
      BY <2>3, <1>3
    <3> QED
      BY <3>1, <1>3 DEF PlacesIn
  <2> QED
    BY <2>1, <2>2, <2>3
<1> HIDE DEF P, I, X
<1> QED
  BY <1>2, <1>4, <1>6, <1>7, <1>8, Disjoint DEF P

-----------------------------------------------------------------------------
(***************************************************************************)
(* The entries of the attribute table that hold a node.                    *)
(***************************************************************************)
EntriesIn(t, n) == {k \in DOMAIN t : t[k] = n}

\* They are finitely many, and there are some exactly for a value.
LEMMA EntriesType ==
  ASSUME NEW t, IsFiniteSet(DOMAIN t), NEW n
  PROVE  /\ IsFiniteSet(EntriesIn(t, n))
         /\ Cardinality(EntriesIn(t, n)) \in Nat
         /\ Cardinality(EntriesIn(t, n)) > 0 <=> \E k \in DOMAIN t : t[k] = n
<1> DEFINE E == EntriesIn(t, n)
<1>1. E \in SUBSET DOMAIN t
  BY DEF EntriesIn
<1>2. IsFiniteSet(E)
  BY <1>1, FS_Subset
<1>3. Cardinality(E) \in Nat /\ (Cardinality(E) = 0 <=> E = {})
  BY <1>2, FS_CardinalityType, FS_EmptySet
<1>4. E # {} <=> \E k \in DOMAIN t : t[k] = n
  BY DEF EntriesIn
<1> QED
  BY <1>2, <1>3, <1>4

\* A table with one entry more.
LEMMA EntriesMore ==
  ASSUME NEW t, IsFiniteSet(DOMAIN t), NEW u, NEW x, x \notin DOMAIN t,
         DOMAIN u = DOMAIN t \cup {x}, \A k \in DOMAIN t : u[k] = t[k], NEW n
  PROVE  Cardinality(EntriesIn(u, n))
            = Cardinality(EntriesIn(t, n)) + IF u[x] = n THEN 1 ELSE 0
<1>1. IsFiniteSet(EntriesIn(t, n)) /\ x \notin EntriesIn(t, n)
  BY EntriesType DEF EntriesIn
<1>2. CASE u[x] = n
  <2>1. EntriesIn(u, n) = EntriesIn(t, n) \cup {x}
    BY <1>2 DEF EntriesIn
  <2> QED
    BY <1>1, <1>2, <2>1, FS_AddElement
<1>3. CASE u[x] # n
  <2>1. EntriesIn(u, n) = EntriesIn(t, n)
    BY <1>3 DEF EntriesIn
  <2>2. Cardinality(EntriesIn(t, n)) \in Nat
    BY <1>1, FS_CardinalityType
  <2> QED
    BY <1>3, <2>1, <2>2
<1> QED
  BY <1>2, <1>3

\* A table without one entry, and what was there.
Without(t, x) == [k \in DOMAIN t \ {x} |-> t[k]]
ValueAt(t, x) == IF x \in DOMAIN t THEN <<t[x]>> ELSE << >>

\* Together they hold what the table held.
LEMMA EntriesLess ==
  ASSUME NEW t, IsFiniteSet(DOMAIN t), NEW x, NEW n
  PROVE  Cardinality(EntriesIn(t, n))
            = Cardinality(EntriesIn(Without(t, x), n)) + Count(ValueAt(t, x), n)
<1>1. PICK u : u = Without(t, x)
  OBVIOUS
<1>2. DOMAIN u = DOMAIN t \ {x} /\ \A k \in DOMAIN u : t[k] = u[k]
  BY <1>1 DEF Without
<1>3. IsFiniteSet(DOMAIN u)
  BY <1>2, FS_Subset
<1>4. CASE x \in DOMAIN t
  <2>1. DOMAIN t = DOMAIN u \cup {x} /\ x \notin DOMAIN u
    BY <1>2, <1>4
  <2>2. \A k \in DOMAIN u : t[k] = u[k]
    BY <1>2
  <2>3. Cardinality(EntriesIn(t, n))
          = Cardinality(EntriesIn(u, n)) + IF t[x] = n THEN 1 ELSE 0
    BY ONLY <1>3, <2>1, <2>2, EntriesMore
  <2>4. Count(ValueAt(t, x), n) = IF t[x] = n THEN 1 ELSE 0
    BY <1>4, CountSingle DEF ValueAt
  <2> QED
    BY <1>1, <2>3, <2>4
<1>5. CASE x \notin DOMAIN t
  <2>1. EntriesIn(u, n) = EntriesIn(t, n)
    BY <1>2, <1>5 DEF EntriesIn
  <2>2. Count(ValueAt(t, x), n) = 0 /\ Cardinality(EntriesIn(t, n)) \in Nat
    BY <1>5, CountEmpty, EntriesType DEF ValueAt
  <2> QED
    BY <1>1, <2>1, <2>2
<1> QED
  BY <1>4, <1>5

\* A sequence c that lists a set without repetition; the values there.
Lists(c, S) ==
    /\ c \in [1..Cardinality(S) -> S]
    /\ \A i, j \in 1..Cardinality(S) : c[i] = c[j] => i = j
Listed(c, v) == [i \in DOMAIN c |-> v[c[i]]]

\* A value is listed as often as it is an entry.
LEMMA CountListed ==
  ASSUME NEW v, IsFiniteSet(DOMAIN v), NEW c, Lists(c, DOMAIN v),
         NEW T, \A x \in DOMAIN v : v[x] \in T, NEW n
  PROVE  /\ Listed(c, v) \in Seq(T)
         /\ Count(Listed(c, v), n) = Cardinality(EntriesIn(v, n))
<1> DEFINE S == DOMAIN v
           k == Cardinality(S)
           s == [i \in DOMAIN c |-> v[c[i]]]
           I == {i \in DOMAIN s : s[i] = n}
           X == {x \in S : v[x] = n}
           f == [i \in I |-> c[i]]
<1>0. c \in [1..k -> S] /\ \A i, j \in 1..k : c[i] = c[j] => i = j
  BY DEF Lists
<1>1. k \in Nat
  BY FS_CardinalityType
<1>2. DOMAIN c = 1..k /\ DOMAIN s = 1..k
  BY <1>0
<1>3. s \in [1..k -> T]
  BY <1>0, <1>2
<1>4. s \in Seq(T)
  BY <1>1, <1>3, FunctionIsSeq
<1>5. \A x \in S : \E i \in 1..k : c[i] = x
  <2>1. c \in Injection(1..k, S)
    BY <1>0 DEF Injection, IsInjective
  <2>2. IsFiniteSet(1..k) /\ Cardinality(1..k) = k
    <3>1. 1 \in Int /\ k \in Int
      BY <1>1
    <3> QED
      BY <1>1, <3>1, FS_Interval
  <2>3. c \in Surjection(1..k, S)
    BY <2>1, <2>2, FS_Injection
  <2> QED
    BY <2>3 DEF Surjection
<1>6. IsFiniteSet(I) /\ Count(s, n) = Cardinality(I)
  <2> HIDE DEF s
  <2>1. IsFiniteSet({i \in DOMAIN s : s[i] = n})
    BY ONLY <1>4, CountType
  <2>2. Count(s, n) = Cardinality({i \in DOMAIN s : s[i] = n})
    BY ONLY DEF Count
  <2> QED
    BY <2>1, <2>2
<1>7. f \in Bijection(I, X)
  <2>1. \A i \in I : c[i] \in X
    BY <1>0, <1>2
  <2>2. \A i, j \in I : c[i] = c[j] => i = j
    BY <1>0, <1>2
  <2>3. \A x \in X : \E i \in I : c[i] = x
    <3> TAKE x \in X
    <3>1. PICK i \in 1..k : c[i] = x
      BY <1>5
    <3>2. i \in I
      BY <3>1, <1>2
    <3> QED
      BY <3>1, <3>2
  <2> HIDE DEF I, X
  <2> QED
    BY <2>1, <2>2, <2>3 DEF Bijection, Injection, Surjection, IsInjective
<1>8. Cardinality(X) = Cardinality(I)
  BY <1>6, <1>7, FS_Bijection DEF ExistsBijection
<1> QED
  BY <1>4, <1>6, <1>8 DEF Listed, EntriesIn

-----------------------------------------------------------------------------
(***************************************************************************)
(* inc() and dec().                                                        *)
(***************************************************************************)
\* A heap with other counts.
Recounted(g, h) ==
    /\ g \in [DOMAIN h -> Value] /\ DOMAIN g = DOMAIN h
    /\ \A m \in DOMAIN h : g[m].kids = h[m].kids /\ g[m].kind = h[m].kind

\* inc() adds one to the count of a node that is not maxed out.
LEMMA IncFacts ==
  ASSUME NEW h, h \in [DOMAIN h -> Value], NEW n \in DOMAIN h
  PROVE  /\ Recounted(Inc(h, n), h)
         /\ \A m \in DOMAIN h : Inc(h, n)[m].rc =
               IF m = n /\ h[m].rc < MaxRC THEN h[m].rc + 1 ELSE h[m].rc
<1> DEFINE g == Inc(h, n)
<1>1. MaxRC \in Nat
  BY ConstantsAssumption
<1>2. \A m \in DOMAIN h : h[m] \in Value
  OBVIOUS
<1>3. DOMAIN g = DOMAIN h /\ g = [g EXCEPT ![n] = g[n]]
  BY DEF Inc
<1>4. \A m \in DOMAIN h : m # n => g[m] = h[m]
  BY DEF Inc
<1>5. g[n] = [h[n] EXCEPT !.rc = IF h[n].rc < MaxRC THEN h[n].rc + 1 ELSE h[n].rc]
  BY DEF Inc
<1>6. /\ g[n] \in Value /\ g[n].kids = h[n].kids /\ g[n].kind = h[n].kind
      /\ g[n].rc = IF h[n].rc < MaxRC THEN h[n].rc + 1 ELSE h[n].rc
  BY <1>1, <1>2, <1>5 DEF Value
<1>7. g = [m \in DOMAIN h |-> g[m]]
  BY DEF Inc
<1>8. \A m \in DOMAIN h : g[m] \in Value
  BY <1>2, <1>4, <1>6
<1> HIDE DEF g
<1>9. g \in [DOMAIN h -> Value]
  BY <1>7, <1>8
<1>10. Recounted(g, h)
  BY <1>3, <1>4, <1>6, <1>9 DEF Recounted
<1>11. \A m \in DOMAIN h : g[m].rc =
               IF m = n /\ h[m].rc < MaxRC THEN h[m].rc + 1 ELSE h[m].rc
  BY <1>4, <1>6
<1> QED
  BY <1>10, <1>11 DEF g

\* dec() takes one off, for each occurrence, if there are as many references.
LEMMA DecFacts ==
  ASSUME NEW h, h \in [DOMAIN h -> Value], NEW T, NEW s \in Seq(T),
         \A n \in DOMAIN h : h[n].rc < MaxRC => Count(s, n) <= h[n].rc
  PROVE  /\ Recounted(DecAll(h, s), h)
         /\ \A n \in DOMAIN h : DecAll(h, s)[n].rc =
               IF h[n].rc < MaxRC THEN h[n].rc - Count(s, n) ELSE h[n].rc
<1> DEFINE g == DecAll(h, s)
<1>1. MaxRC \in Nat
  BY ConstantsAssumption
<1>2. g = [m \in DOMAIN h |-> g[m]] /\ DOMAIN g = DOMAIN h
  BY DEF DecAll
<1>3. ASSUME NEW n \in DOMAIN h
      PROVE  /\ g[n] \in Value /\ g[n].kids = h[n].kids /\ g[n].kind = h[n].kind
             /\ g[n].rc = IF h[n].rc < MaxRC THEN h[n].rc - Count(s, n) ELSE h[n].rc
  <2>1. h[n] \in Value
    OBVIOUS
  <2>2. g[n] = [h[n] EXCEPT !.rc = IF h[n].rc < MaxRC THEN h[n].rc - Count(s, n)
                                                      ELSE h[n].rc]
    BY DEF DecAll
  <2>3. Count(s, n) \in Nat
    BY CountType
  <2> HIDE DEF g
  <2>4. h[n].rc \in 0..MaxRC /\ (h[n].rc < MaxRC => Count(s, n) <= h[n].rc)
    BY <2>1 DEF Value
  <2>5. (IF h[n].rc < MaxRC THEN h[n].rc - Count(s, n) ELSE h[n].rc) \in 0..MaxRC
    BY <2>3, <2>4, <1>1
  <2> QED
    BY <2>1, <2>2, <2>5 DEF Value
<1> HIDE DEF g
<1>4. g \in [DOMAIN h -> Value]
  BY <1>2, <1>3
<1>5. Recounted(g, h)
  BY <1>2, <1>3, <1>4 DEF Recounted
<1> QED
  BY <1>3, <1>5 DEF g

\* The zombies that dec() makes.
LEMMA ZombiesFacts ==
  ASSUME NEW h, NEW s, NEW n
  PROVE  n \in ZombiesOf(h, s)
            <=> n \in DOMAIN h /\ n \in ToSet(s) /\ DecAll(h, s)[n].rc = 0
BY DEF ZombiesOf

-----------------------------------------------------------------------------
(***************************************************************************)
(* References, from the heap and from elsewhere.                           *)
(***************************************************************************)
Outside(n) ==
    handles[n] + Count(builder.kids, n) + InProgress(n) + Cardinality(EntriesIn(attrs, n))
Inside(n) == Cardinality(PlacesIn(heap, MaxArity, n))

\* The two kinds are all references.
LEMMA Split == \A n : References(n) = Outside(n) + Inside(n)
BY DEF References, Outside, Inside, Entries, EntriesIn, Places, PlacesIn

\* The bounds of an instance, and the constants.
LEMMA Bounds ==
  ASSUME instance \in Instances
  PROVE  /\ MaxArity \in Nat /\ MaxAttrs \in Nat /\ MaxRC \in Nat /\ MaxRC > 0
         /\ MaxNodes \in Nat /\ MaxHandles \in Nat /\ Ids \subseteq Nat \ {0}
         /\ Null \notin Ids
BY ConstantsAssumption DEF MaxArity, MaxAttrs, Ids, Null

\* The heap is finite.
LEMMA HeapFinite ==
  ASSUME NEW S, S \subseteq Ids
  PROVE  IsFiniteSet(S)
<1>1. 1 \in Int /\ MaxNodes \in Int
  BY ConstantsAssumption
<1>2. IsFiniteSet(Ids)
  BY <1>1, FS_Interval DEF Ids
<1> QED
  BY <1>2, FS_Subset

\* The terms of the sum are naturals.
LEMMA Terms ==
  ASSUME Types, Older, NEW n \in Ids
  PROVE  /\ handles[n] \in Nat /\ Count(builder.kids, n) \in Nat
         /\ Count(decs, n) \in Nat /\ InProgress(n) \in Nat
         /\ InProgress(n) >= Count(decs, n)
         /\ Cardinality(EntriesIn(attrs, n)) \in Nat
         /\ Outside(n) \in Nat /\ Inside(n) \in Nat /\ References(n) \in Nat
         /\ References(n) = Outside(n) + Inside(n)
<1>1. handles[n] \in Nat
  BY DEF Types, RefTypes
<1>2. builder.kids \in Seq(Ids) /\ decs \in Seq(Ids)
  BY DEF Types, RefTypes, OpTypes
<1>3. Count(builder.kids, n) \in Nat /\ Count(decs, n) \in Nat
  BY <1>2, CountType
<1>4. InProgress(n) \in Nat /\ InProgress(n) >= Count(decs, n)
  BY <1>3 DEF InProgress
<1>5. IsFiniteSet(DOMAIN attrs) /\ IsFiniteSet(DOMAIN heap)
  BY HeapFinite DEF Types, RefTypes, HeapTypes
<1>6. Cardinality(EntriesIn(attrs, n)) \in Nat
  BY <1>5, EntriesType
<1>7. MaxArity \in Nat
  BY Bounds DEF Types
<1>8. \A m \in DOMAIN heap : heap[m].kids \in Seq(Ids) /\ Len(heap[m].kids) <= MaxArity
  BY DEF Types, HeapTypes, Value, Older
<1>9. Inside(n) \in Nat
  BY <1>5, <1>7, <1>8, PlacesType DEF Inside
<1>10. Outside(n) \in Nat
  BY <1>1, <1>3, <1>4, <1>6 DEF Outside
<1> QED
  BY <1>1, <1>3, <1>4, <1>6, <1>9, <1>10, Split

\* A child has a place.
LEMMA ChildInside ==
  ASSUME Types, Older, NEW n \in Ids
  PROVE  Inside(n) > 0 <=> \E m \in DOMAIN heap : n \in Kids(m)
<1>1. IsFiniteSet(DOMAIN heap)
  BY HeapFinite DEF Types, HeapTypes
<1>2. MaxArity \in Nat
  BY Bounds DEF Types
<1>3. \A m \in DOMAIN heap : heap[m].kids \in Seq(Ids) /\ Len(heap[m].kids) <= MaxArity
  BY DEF Types, HeapTypes, Value, Older
<1>4. Cardinality(PlacesIn(heap, MaxArity, n)) > 0
         <=> \E m \in DOMAIN heap : n \in ToSet(heap[m].kids)
  BY ONLY <1>1, <1>2, <1>3, PlacesType
<1> QED
  BY <1>4 DEF Inside, Kids

\* What has a reference is allocated.
LEMMA Held ==
  ASSUME Types, Older, Exact
  PROVE  /\ \A n \in Ids : References(n) > 0 => n \in DOMAIN heap
         /\ \A n \in Ids : handles[n] > 0 => n \in DOMAIN heap
         /\ ToSet(builder.kids) \subseteq DOMAIN heap
         /\ ToSet(decs) \subseteq DOMAIN heap
         /\ after.kind = "store" => after.node \in DOMAIN heap
         /\ \A k \in DOMAIN attrs : attrs[k] \in DOMAIN heap
         /\ \A m \in DOMAIN heap : Kids(m) \subseteq DOMAIN heap
<1>1. \A n \in Ids : References(n) > 0 => n \in DOMAIN heap
  BY Terms DEF Exact
<1>2. \A n \in Ids : handles[n] > 0 => n \in DOMAIN heap
  BY <1>1, Terms DEF Outside
<1>3. builder.kids \in Seq(Ids) /\ decs \in Seq(Ids)
  BY DEF Types, RefTypes, OpTypes
<1>4. ASSUME NEW n \in Ids, Outside(n) > 0 \/ Inside(n) > 0  PROVE n \in DOMAIN heap
  BY <1>1, <1>4, Terms
<1>5. ToSet(builder.kids) \subseteq DOMAIN heap
  <2> SUFFICES ASSUME NEW n \in ToSet(builder.kids)  PROVE n \in DOMAIN heap
    OBVIOUS
  <2>1. n \in Ids /\ Count(builder.kids, n) > 0
    BY <1>3, CountType, SeqSet
  <2>2. Outside(n) > 0
    BY <2>1, Terms DEF Outside
  <2> QED
    BY <1>4, <2>1, <2>2
<1>6. ToSet(decs) \subseteq DOMAIN heap
  <2> SUFFICES ASSUME NEW n \in ToSet(decs)  PROVE n \in DOMAIN heap
    OBVIOUS
  <2>1. n \in Ids /\ Count(decs, n) > 0
    BY <1>3, CountType, SeqSet
  <2>2. Outside(n) > 0
    BY <2>1, Terms DEF Outside
  <2> QED
    BY <1>4, <2>1, <2>2
<1>7. after.kind = "store" => after.node \in DOMAIN heap
  <2> SUFFICES ASSUME after.kind = "store"  PROVE after.node \in DOMAIN heap
    OBVIOUS
  <2>1. after.node \in Ids
    BY DEF Types, OpTypes, Nothing
  <2>2. InProgress(after.node) > 0
    BY <2>1, Terms DEF InProgress
  <2>3. Outside(after.node) > 0
    BY <2>1, <2>2, Terms DEF Outside
  <2> QED
    BY <1>4, <2>1, <2>3
<1>8. ASSUME NEW k \in DOMAIN attrs  PROVE attrs[k] \in DOMAIN heap
  <2>1. attrs[k] \in Ids
    BY DEF Types, RefTypes
  <2>2. IsFiniteSet(DOMAIN attrs)
    BY HeapFinite DEF Types, RefTypes, HeapTypes
  <2>3. Cardinality(EntriesIn(attrs, attrs[k])) > 0
    BY <2>2, EntriesType
  <2>4. Outside(attrs[k]) > 0
    BY <2>1, <2>3, Terms DEF Outside
  <2> QED
    BY <1>4, <2>1, <2>4
<1>9. ASSUME NEW m \in DOMAIN heap, NEW n \in Kids(m)  PROVE n \in DOMAIN heap
  <2>1. n \in Ids
    BY SeqSet DEF Types, HeapTypes, Value, Kids
  <2>2. Inside(n) > 0
    BY <2>1, ChildInside
  <2> QED
    BY <1>4, <2>1, <2>2
<1> QED
  BY <1>1, <1>2, <1>5, <1>6, <1>7, <1>8, <1>9

-----------------------------------------------------------------------------
(***************************************************************************)
(* Steps that allocate and free nothing.                                   *)
(***************************************************************************)
SameNodes ==
    /\ instance' = instance /\ DOMAIN heap' = DOMAIN heap
    /\ \A n \in DOMAIN heap : heap'[n].kids = heap[n].kids

\* References from the heap stay.
LEMMA InsideSame ==
  ASSUME SameNodes
  PROVE  \A n : Inside(n)' = Inside(n)
<1>1. MaxArity' = MaxArity
  BY DEF SameNodes, MaxArity
<1>2. \A n : PlacesIn(heap', MaxArity, n) = PlacesIn(heap, MaxArity, n)
  BY PlacesSame DEF SameNodes
<1> QED
  BY <1>1, <1>2 DEF Inside

\* Counts stay exact when they follow the references from outside.
LEMMA ExactSame ==
  ASSUME Types, Older, Exact, SameNodes, NEW d \in [Ids -> Int],
         \A n \in Ids : Outside(n)' = Outside(n) + d[n],
         \A n \in DOMAIN heap : heap'[n].rc < MaxRC =>
            heap[n].rc < MaxRC /\ heap'[n].rc = heap[n].rc + d[n],
         \A n \in Ids : n \notin DOMAIN heap => d[n] = 0
  PROVE  Exact'
<1>1. \A n : References(n)' = Outside(n)' + Inside(n)'
  BY DEF References, Outside, Inside, Entries, EntriesIn, Places, PlacesIn
<1>2. \A n \in Ids : References(n) \in Nat /\ References(n) = Outside(n) + Inside(n)
        /\ Outside(n) \in Nat /\ Inside(n) \in Nat
  BY Terms
<1>3. \A n \in Ids : References(n)' = References(n) + d[n]
  BY <1>1, <1>2, InsideSame
<1>4. DOMAIN heap \subseteq Ids
  BY DEF Types, HeapTypes
<1>5. ASSUME NEW n \in DOMAIN heap, heap'[n].rc < MaxRC
      PROVE  heap'[n].rc = References(n)'
  BY <1>3, <1>4, <1>5 DEF Exact
<1>6. ASSUME NEW n \in Ids \ DOMAIN heap  PROVE References(n)' = 0
  BY <1>3, <1>6 DEF Exact
<1> QED
  BY <1>5, <1>6 DEF Exact, SameNodes, Ids

\* Children stay older.
LEMMA OlderSame ==
  ASSUME Older, SameNodes, nextId' = nextId
  PROVE  Older'
<1>1. MaxArity' = MaxArity
  BY DEF SameNodes, MaxArity
<1>2. \A n \in DOMAIN heap : Kids(n)' = Kids(n)
  BY DEF SameNodes, Kids
<1> QED
  BY <1>1, <1>2 DEF Older, SameNodes

-----------------------------------------------------------------------------
(***************************************************************************)
(* The bound on the Node objects.                                          *)
(***************************************************************************)
ObjectsOf(f) == {p \in Ids \X (1..MaxHandles) : p[2] <= f[p[1]]}

\* There are finitely many.
LEMMA ObjectsFinite ==
  ASSUME NEW f
  PROVE  IsFiniteSet(ObjectsOf(f)) /\ Cardinality(ObjectsOf(f)) \in Nat
<1>1. 1 \in Int /\ MaxHandles \in Int
  BY ConstantsAssumption
<1>2. IsFiniteSet(Ids) /\ IsFiniteSet(1..MaxHandles)
  BY <1>1, FS_Interval, HeapFinite
<1>3. IsFiniteSet(Ids \X (1..MaxHandles))
  BY <1>2, FS_Product
<1>4. ObjectsOf(f) \in SUBSET (Ids \X (1..MaxHandles))
  BY DEF ObjectsOf
<1>5. IsFiniteSet(ObjectsOf(f))
  BY <1>3, <1>4, FS_Subset
<1> QED
  BY <1>5, FS_CardinalityType

\* One more, when there is room.
LEMMA ObjectsMore ==
  ASSUME NEW f \in [Ids -> 0..MaxHandles], Cardinality(ObjectsOf(f)) < MaxHandles,
         NEW n \in Ids, NEW g, g = [f EXCEPT ![n] = @ + 1]
  PROVE  /\ g \in [Ids -> 0..MaxHandles] /\ g[n] = f[n] + 1
         /\ \A m \in Ids : m # n => g[m] = f[m]
         /\ Cardinality(ObjectsOf(g)) <= MaxHandles
<1>1. MaxHandles \in Nat
  BY ConstantsAssumption
<1>2. f[n] # MaxHandles
  <2> SUFFICES ASSUME f[n] = MaxHandles  PROVE FALSE
    OBVIOUS
  <2> DEFINE S == {<<n, i>> : i \in 1..MaxHandles}
             c == [i \in 1..MaxHandles |-> <<n, i>>]
  <2>1. 1 \in Int /\ MaxHandles \in Int
    BY <1>1
  <2>2. IsFiniteSet(1..MaxHandles) /\ Cardinality(1..MaxHandles) = MaxHandles
    BY <1>1, <2>1, FS_Interval
  <2>3. c \in Bijection(1..MaxHandles, S)
    BY DEF Bijection, Injection, Surjection, IsInjective
  <2>4. Cardinality(S) = MaxHandles
    BY <2>2, <2>3, FS_Bijection DEF ExistsBijection
  <2>5. S \in SUBSET ObjectsOf(f)
    BY <1>1 DEF ObjectsOf
  <2>6. Cardinality(S) <= Cardinality(ObjectsOf(f))
    BY <2>5, ObjectsFinite, FS_Subset
  <2>7. Cardinality(ObjectsOf(f)) \in Nat
    BY ObjectsFinite
  <2> QED
    BY <1>1, <2>4, <2>6, <2>7
<1>3. f[n] \in 0..MaxHandles
  OBVIOUS
<1>4. f[n] + 1 \in 1..MaxHandles
  BY <1>1, <1>2, <1>3
<1>5. g[n] = f[n] + 1 /\ \A m \in Ids : m # n => g[m] = f[m]
  OBVIOUS
<1>6. g \in [Ids -> 0..MaxHandles]
  BY <1>4
<1>7. ObjectsOf(g) = ObjectsOf(f) \cup {<<n, f[n] + 1>>}
  <2>1. ASSUME NEW p \in Ids \X (1..MaxHandles)
        PROVE  p[2] <= g[p[1]] <=> p[2] <= f[p[1]] \/ p = <<n, f[n] + 1>>
    <3>1. p = <<p[1], p[2]>> /\ p[1] \in Ids /\ p[2] \in 1..MaxHandles
      OBVIOUS
    <3>2. CASE p[1] = n
      BY <3>1, <3>2, <1>3, <1>5
    <3>3. CASE p[1] # n
      BY <3>1, <3>3, <1>5
    <3> QED
      BY <3>2, <3>3
  <2>2. <<n, f[n] + 1>> \in Ids \X (1..MaxHandles)
    BY <1>4
  <2> QED
    BY <2>1, <2>2 DEF ObjectsOf
<1>8. Cardinality(ObjectsOf(g)) <= Cardinality(ObjectsOf(f)) + 1
  <2>1. IsFiniteSet(ObjectsOf(f)) /\ Cardinality(ObjectsOf(f)) \in Nat
    BY ObjectsFinite
  <2>2. Cardinality(ObjectsOf(f) \cup {<<n, f[n] + 1>>})
          = IF <<n, f[n] + 1>> \in ObjectsOf(f) THEN Cardinality(ObjectsOf(f))
                                                ELSE Cardinality(ObjectsOf(f)) + 1
    BY <2>1, FS_AddElement
  <2>3. Cardinality(ObjectsOf(g)) = Cardinality(ObjectsOf(f) \cup {<<n, f[n] + 1>>})
    BY ONLY <1>7
  <2> QED
    BY ONLY <2>1, <2>2, <2>3
<1>9. Cardinality(ObjectsOf(f)) \in Nat /\ Cardinality(ObjectsOf(g)) \in Nat
  BY ObjectsFinite
<1> QED
  BY <1>1, <1>5, <1>6, <1>8, <1>9

\* One less makes room.
LEMMA ObjectsLess ==
  ASSUME NEW f \in [Ids -> 0..MaxHandles], Cardinality(ObjectsOf(f)) <= MaxHandles,
         NEW n \in Ids, f[n] > 0, NEW g, g = [f EXCEPT ![n] = @ - 1]
  PROVE  /\ g \in [Ids -> 0..MaxHandles] /\ g[n] = f[n] - 1
         /\ \A m \in Ids : m # n => g[m] = f[m]
         /\ Cardinality(ObjectsOf(g)) < MaxHandles
<1>1. MaxHandles \in Nat /\ f[n] \in 0..MaxHandles
  BY ConstantsAssumption
<1>2. g[n] = f[n] - 1 /\ \A m \in Ids : m # n => g[m] = f[m]
  OBVIOUS
<1>3. g \in [Ids -> 0..MaxHandles]
  BY <1>1
<1>4. <<n, f[n]>> \in ObjectsOf(f) /\ <<n, f[n]>> \notin ObjectsOf(g)
  BY <1>1, <1>2 DEF ObjectsOf
<1>5. ObjectsOf(g) \subseteq ObjectsOf(f)
  <2>1. ASSUME NEW p \in Ids \X (1..MaxHandles), p[2] <= g[p[1]]
        PROVE  p[2] <= f[p[1]]
    <3>1. p[1] \in Ids /\ p[2] \in 1..MaxHandles /\ f[p[1]] \in 0..MaxHandles
      OBVIOUS
    <3>2. CASE p[1] = n
      BY <2>1, <3>1, <3>2, <1>1, <1>2
    <3>3. CASE p[1] # n
      BY <2>1, <3>1, <3>3, <1>2
    <3> QED
      BY <3>2, <3>3
  <2> QED
    BY <2>1 DEF ObjectsOf
<1>6. ObjectsOf(g) \in SUBSET (ObjectsOf(f) \ {<<n, f[n]>>})
  BY <1>4, <1>5
<1>7. /\ IsFiniteSet(ObjectsOf(f) \ {<<n, f[n]>>})
      /\ Cardinality(ObjectsOf(f) \ {<<n, f[n]>>}) = Cardinality(ObjectsOf(f)) - 1
  BY <1>4, ObjectsFinite, FS_RemoveElement
<1>8. Cardinality(ObjectsOf(g)) <= Cardinality(ObjectsOf(f) \ {<<n, f[n]>>})
  BY <1>6, <1>7, FS_Subset
<1>9. Cardinality(ObjectsOf(f)) \in Nat /\ Cardinality(ObjectsOf(g)) \in Nat
  BY ObjectsFinite
<1> QED
  BY <1>1, <1>2, <1>3, <1>7, <1>8, <1>9

\* The definitions of the model say the same of the variable.
LEMMA ObjectsNow ==
  /\ Objects = ObjectsOf(handles) /\ (Room <=> Cardinality(ObjectsOf(handles)) < MaxHandles)
  /\ Objects' = ObjectsOf(handles') /\ (Room' <=> Cardinality(ObjectsOf(handles')) < MaxHandles)
BY DEF Objects, ObjectsOf, Room, Ids

-----------------------------------------------------------------------------
(***************************************************************************)
(* What the operations of a client have in common.                         *)
(***************************************************************************)
\* The record of maxed-out nodes while there are operations.
LEMMA TrackedLive ==
  ASSUME Tracked, phase \in {"live", "dropping"}, phase' \in {"live", "dropping"},
         sort' = sort, ToSet(maxedOut') = Maxed'
  PROVE  Tracked'
BY DEF Tracked, NoSort

\* inc() keeps it.
LEMMA MaxedInc ==
  ASSUME Types, Tracked, phase \in {"live", "dropping"}, NEW n \in DOMAIN heap
  PROVE  /\ maxedOut \o MaxedBy(heap, n) \in Seq(Ids)
         /\ ToSet(maxedOut \o MaxedBy(heap, n))
              = {m \in DOMAIN heap : Inc(heap, n)[m].rc = MaxRC}
<1>1. heap \in [DOMAIN heap -> Value] /\ maxedOut \in Seq(Ids) /\ n \in Ids
  BY DEF Types, HeapTypes
<1>2. \A m \in DOMAIN heap : Inc(heap, n)[m].rc =
        IF m = n /\ heap[m].rc < MaxRC THEN heap[m].rc + 1 ELSE heap[m].rc
  BY <1>1, IncFacts
<1>3. ToSet(maxedOut) = Maxed
  BY DEF Tracked
<1>4. MaxRC \in Nat /\ \A m \in DOMAIN heap : heap[m].rc \in 0..MaxRC
  BY <1>1, ConstantsAssumption DEF Value
<1>5. MaxedBy(heap, n) \in Seq(Ids)
  BY <1>1 DEF MaxedBy
<1>6. ToSet(MaxedBy(heap, n)) = IF heap[n].rc = MaxRC - 1 THEN {n} ELSE {}
  <2>1. ToSet(<<n>>) = {n} /\ ToSet(<< >>) = {}
    BY DEF ToSet
  <2> QED
    BY <2>1 DEF MaxedBy
<1>7. ToSet(maxedOut \o MaxedBy(heap, n)) = Maxed \cup ToSet(MaxedBy(heap, n))
  BY <1>1, <1>3, <1>5, ConcatSet
<1>8. maxedOut \o MaxedBy(heap, n) \in Seq(Ids)
  BY <1>1, <1>5
<1>9. Maxed \cup (IF heap[n].rc = MaxRC - 1 THEN {n} ELSE {})
        = {m \in DOMAIN heap : Inc(heap, n)[m].rc = MaxRC}
  BY <1>2, <1>4 DEF Maxed
<1> QED
  BY <1>6, <1>7, <1>8, <1>9

\* The types of the heap after it has been recounted.
LEMMA RecountTypes ==
  ASSUME Types, UNCHANGED <<instance, nextId, pool>>, Recounted(heap', heap),
         zombies' \subseteq DOMAIN heap, batch' \subseteq DOMAIN heap,
         reclaiming' \in BOOLEAN, maxedOut' \in Seq(Ids)
  PROVE  SameNodes /\ HeapTypes' /\ (instance \in Instances)'
<1>1. Value' = Value /\ Ids' = Ids
  BY DEF Value, Kinds, Constants, Ids
<1>2. /\ heap' \in [DOMAIN heap -> Value] /\ DOMAIN heap' = DOMAIN heap
      /\ \A m \in DOMAIN heap : heap'[m].kids = heap[m].kids
  BY DEF Recounted
<1>3. heap' \in [DOMAIN heap' -> Value']
  BY <1>1, <1>2
<1>4. HeapTypes'
  BY <1>1, <1>2, <1>3 DEF Types, HeapTypes
<1> QED
  BY <1>2, <1>4 DEF SameNodes, Types

\* A heap that has not changed has the same nodes and types.
LEMMA HeapSame ==
  ASSUME Types, UNCHANGED <<instance, mem, gc>>
  PROVE  SameNodes /\ HeapTypes' /\ (instance \in Instances)' /\ Maxed' = Maxed
<1>1. Value' = Value /\ Ids' = Ids
  BY DEF Value, Kinds, Constants, Ids
<1> QED
  BY <1>1 DEF mem, gc, Types, HeapTypes, SameNodes, Maxed

\* An operation that leaves the heap alone leaves the batch alone.
LEMMA AccountedSame ==
  ASSUME Accounted, UNCHANGED <<mem, gc>>
  PROVE  Accounted'
BY DEF Accounted, mem, gc

\* An operation of a client that does not touch the heap.
LEMMA HeapUntouched ==
  ASSUME IInv, Ready, UNCHANGED <<instance, mem, gc, phase, sort>>,
         RefTypes', OpTypes', Bounded', Kept', \A n \in Ids : Outside(n)' = Outside(n)
  PROVE  IInv'
<1>1. SameNodes /\ HeapTypes' /\ (instance \in Instances)' /\ Maxed' = Maxed
  BY HeapSame DEF IInv
<1>2. SortTypes'
  BY DEF IInv, Types, SortTypes, Ids
<1>3. Older'
  BY <1>1, OlderSame DEF IInv, mem
<1>4. Exact'
  <2> DEFINE d == [n \in Ids |-> 0]
  <2>1. d \in [Ids -> Int] /\ \A n \in Ids : d[n] = 0
    OBVIOUS
  <2>2. \A n \in DOMAIN heap : heap'[n].rc < MaxRC =>
            heap[n].rc < MaxRC /\ heap'[n].rc = heap[n].rc + d[n]
    BY ConstantsAssumption DEF IInv, Types, HeapTypes, Value, mem
  <2>3. \A n \in Ids : Outside(n) \in Nat
    BY Terms DEF IInv
  <2>4. \A n \in Ids : Outside(n)' = Outside(n) + d[n]
    BY <2>1, <2>3
  <2> HIDE DEF d
  <2> QED
    BY <1>1, <2>1, <2>2, <2>4, ExactSame DEF IInv
<1>5. Accounted'
  BY AccountedSame DEF IInv
<1>6. Quiet'
  BY DEF Quiet, Ready
<1>7. Tracked'
  BY <1>1, TrackedLive DEF IInv, Tracked, Ready, mem
<1> QED
  BY <1>1, <1>2, <1>3, <1>4, <1>5, <1>6, <1>7 DEF IInv, Types

\* Opening a NodeBuilder.
LEMMA StartBuilderStep ==
  ASSUME IInv, instance' = instance, NEW kind \in Kinds, StartBuilder(kind)
  PROVE  IInv'
<1>1. /\ Ready /\ ~builder.open /\ kind \in Operators
      /\ builder' = [open |-> TRUE, kind |-> kind, kids |-> << >>]
      /\ UNCHANGED <<mem, handles, attrs, gc, op, phase, sort>>
  BY DEF StartBuilder
<1>2. UNCHANGED <<instance, mem, gc, phase, sort>> /\ UNCHANGED <<handles, attrs, decs, after>>
  BY <1>1 DEF op
<1>3. builder.kids = << >> /\ builder'.kids = << >>
  BY <1>1 DEF IInv, Types, RefTypes
<1>4. MaxArity' = MaxArity /\ MaxArity \in Nat /\ DOMAIN heap' = DOMAIN heap
  BY <1>2, Bounds DEF IInv, Types, MaxArity, mem
<1>5. RefTypes'
  BY <1>1, <1>2, <1>4 DEF IInv, Types, RefTypes, Ids
<1>6. OpTypes' /\ Bounded' /\ Kept'
  BY <1>1, <1>2 DEF IInv, Types, OpTypes, Ids, Bounded, Objects, Room, Ready, Idle, Nothing, Kept
<1>7. \A n \in Ids : Outside(n)' = Outside(n)
  BY <1>2, <1>3 DEF Outside, InProgress
<1> QED
  BY <1>1, <1>2, <1>5, <1>6, <1>7, HeapUntouched

\* Copying a Node: only the wrapping is left to do.
LEMMA ToWrap ==
  ASSUME IInv, instance' = instance, Ready, Room, NEW n \in DOMAIN heap, after' = Wrap(n),
         UNCHANGED <<mem, refs, gc, decs, phase, sort>>
  PROVE  IInv'
<1>1. UNCHANGED <<instance, mem, gc, phase, sort>> /\ UNCHANGED <<handles, builder, attrs, decs>>
  BY DEF refs
<1>2. MaxArity' = MaxArity /\ DOMAIN heap' = DOMAIN heap
  BY <1>1 DEF MaxArity, mem
<1>3. RefTypes'
  BY <1>1, <1>2 DEF IInv, Types, RefTypes, Ids
<1>4. n \in Ids /\ after = Nothing /\ decs = << >> /\ ~reclaiming
  BY DEF IInv, Types, HeapTypes, Ready, Idle
<1>5. OpTypes'
  BY <1>1, <1>4 DEF IInv, Types, OpTypes, Ids, Wrap
<1>6. Bounded'
  BY <1>1, ObjectsNow DEF IInv, Bounded, Ids
<1>7. Kept'
  <2>1. after'.kind = "wrap" /\ after'.node = n
    BY DEF Wrap
  <2>2. ~reclaiming' /\ ToSet(decs') = {}
    BY <1>1, <1>4 DEF gc, ToSet
  <2> QED
    BY <1>2, <2>1, <2>2 DEF Kept
<1>8. \A m \in Ids : Outside(m)' = Outside(m)
  BY <1>1, <1>4 DEF Outside, InProgress, Wrap, Nothing
<1> QED
  BY <1>1, <1>3, <1>5, <1>6, <1>7, <1>8, HeapUntouched

\* What a client can name is allocated.
LEMMA CopyStep ==
  ASSUME IInv, instance' = instance, NEW n \in Ids, Copy(n)
  PROVE  IInv'
<1>1. /\ Ready /\ n \in Nameable /\ Room /\ after' = Wrap(n)
      /\ UNCHANGED <<mem, refs, gc, decs, phase, sort>>
  BY DEF Copy
<1>2. /\ \A m \in Ids : handles[m] > 0 => m \in DOMAIN heap
      /\ \A k \in DOMAIN attrs : attrs[k] \in DOMAIN heap
      /\ \A m \in DOMAIN heap : Kids(m) \subseteq DOMAIN heap
  BY Held DEF IInv
<1>3. n \in DOMAIN heap
  <2>1. CASE handles[n] > 0
    BY <2>1, <1>2
  <2>2. CASE \E m \in Ids : handles[m] > 0 /\ n \in ToSet(heap[m].kids)
    BY <2>2, <1>2 DEF Kids
  <2>3. CASE \E m \in Ids : handles[m] > 0 /\ n \in ToSet(AttributesOf(m))
    <3>1. PICK m \in Ids : n \in ToSet(AttributesOf(m))
      BY <2>3
    <3>2. m \in DOMAIN attrs /\ n = attrs[m]
      BY <3>1 DEF AttributesOf, ToSet
    <3> QED
      BY <3>2, <1>2
  <2> QED
    BY <1>1, <2>1, <2>2, <2>3 DEF Nameable
<1> QED
  BY <1>1, <1>3, ToWrap

\* References that a NodeBuilder held are handed to the calls of dec().
LEMMA BuilderReleased ==
  ASSUME IInv, Ready, UNCHANGED <<instance, mem, gc, handles, attrs>>,
         decs' = builder.kids, builder' = Closed, after'.kind # "store"
  PROVE  RefTypes' /\ decs' \in Seq(Ids) /\ \A n \in Ids : Outside(n)' = Outside(n)
<1>1. MaxArity' = MaxArity /\ MaxArity \in Nat /\ DOMAIN heap' = DOMAIN heap
  BY Bounds DEF IInv, Types, MaxArity, mem
<1>2. RefTypes'
  BY <1>1 DEF IInv, Types, RefTypes, Ids, Closed, Null
<1>3. decs' \in Seq(Ids)
  BY DEF IInv, Types, RefTypes
<1>4. decs = << >> /\ after = Nothing /\ builder'.kids = << >>
  BY DEF Ready, Idle, Closed
<1>5. ASSUME NEW n \in Ids  PROVE Outside(n)' = Outside(n)
  <2>1. handles[n] \in Nat /\ Count(builder.kids, n) \in Nat
          /\ Cardinality(EntriesIn(attrs, n)) \in Nat
    BY Terms DEF IInv
  <2>2. Count(<< >>, n) = 0
    BY CountEmpty
  <2>3. InProgress(n) = 0
    BY <1>4, <2>2 DEF InProgress, Nothing
  <2>4. InProgress(n)' = Count(builder.kids, n)
    BY <2>1 DEF InProgress
  <2>5. Count(builder'.kids, n) = 0
    BY <1>4, <2>2
  <2>6. Outside(n) = handles[n] + Count(builder.kids, n) + 0 + Cardinality(EntriesIn(attrs, n))
    BY <2>3 DEF Outside
  <2>7. Outside(n)' = handles[n] + 0 + Count(builder.kids, n)
                        + Cardinality(EntriesIn(attrs, n))
    BY <2>4, <2>5 DEF Outside
  <2> QED
    BY ONLY <2>1, <2>6, <2>7
<1> QED
  BY <1>2, <1>3, <1>5

\* A node is found in the pool: it keeps the children that are released.
LEMMA ConstructFoundStep ==
  ASSUME IInv, instance' = instance, ConstructFound
  PROVE  IInv'
<1>1. /\ Ready /\ builder.open /\ decs' = builder.kids /\ builder' = Closed
      /\ UNCHANGED <<mem, handles, attrs, gc, phase, sort>>
  BY DEF ConstructFound
<1>2. PICK n \in Lookup(builder.kind, builder.kids) : Room /\ after' = Wrap(n)
  BY DEF ConstructFound
<1>3. n \in DOMAIN heap /\ n \in Ids /\ heap[n].kids = builder.kids
  BY <1>2 DEF Lookup, IInv, Types, HeapTypes
<1>4. after'.kind = "wrap" /\ after'.node = n
  BY <1>2 DEF Wrap
<1>5. RefTypes' /\ decs' \in Seq(Ids) /\ \A m \in Ids : Outside(m)' = Outside(m)
  BY <1>1, <1>4, BuilderReleased
<1>6. OpTypes'
  BY <1>2, <1>3, <1>5 DEF OpTypes, Wrap, Ids
<1>7. Bounded'
  BY <1>1, <1>2, ObjectsNow DEF IInv, Bounded, Ids
<1>8. Kept'
  <2>1. heap' = heap /\ reclaiming' = reclaiming /\ ~reclaiming
    BY <1>1 DEF mem, gc, Ready, Idle
  <2>2. ToSet(decs') = Kids(n)'
    BY <1>1, <1>3, <2>1 DEF Kids
  <2> QED
    BY <1>3, <1>4, <2>1, <2>2 DEF Kept
<1> QED
  BY <1>1, <1>5, <1>6, <1>7, <1>8, HeapUntouched

\* A NodeBuilder that was not used.
LEMMA DropBuilderStep ==
  ASSUME IInv, instance' = instance, DropBuilder
  PROVE  IInv'
<1>1. /\ Ready /\ builder.open /\ decs' = builder.kids /\ builder' = Closed
      /\ UNCHANGED <<mem, handles, attrs, gc, after, phase, sort>>
  BY DEF DropBuilder
<1>2. after = Nothing /\ after' = Nothing /\ after'.kind = "nothing"
  BY <1>1 DEF Ready, Idle, Nothing
<1>3. RefTypes' /\ decs' \in Seq(Ids) /\ \A m \in Ids : Outside(m)' = Outside(m)
  BY <1>1, <1>2, BuilderReleased
<1>4. OpTypes'
  BY <1>2, <1>3 DEF OpTypes, Ids, Nothing
<1>5. Bounded' /\ Kept'
  BY <1>1, <1>2, ObjectsNow DEF IInv, Bounded, Ids, Kept
<1> QED
  BY <1>1, <1>3, <1>4, <1>5, HeapUntouched

\* A reference of a Node object is handed to a call of dec().
LEMMA ObjectReleased ==
  ASSUME IInv, Ready, UNCHANGED <<instance, mem, gc, builder, attrs>>, NEW n \in Ids,
         handles[n] > 0, handles' = [handles EXCEPT ![n] = @ - 1], decs' = <<n>>,
         after'.kind # "store"
  PROVE  /\ RefTypes' /\ decs' \in Seq(Ids) /\ \A m \in Ids : Outside(m)' = Outside(m)
         /\ \A m \in Ids : m # n => handles'[m] = handles[m]
         /\ (handles \in [Ids -> 0..MaxHandles])'
         /\ (Cardinality(Objects) <= MaxHandles)' /\ Room'
<1>1. handles \in [Ids -> 0..MaxHandles] /\ Cardinality(ObjectsOf(handles)) <= MaxHandles
  BY ObjectsNow DEF IInv, Bounded
<1>2. /\ handles' \in [Ids -> 0..MaxHandles] /\ handles'[n] = handles[n] - 1
      /\ \A m \in Ids : m # n => handles'[m] = handles[m]
      /\ Cardinality(ObjectsOf(handles')) < MaxHandles
  BY <1>1, ObjectsLess
<1>3. Cardinality(ObjectsOf(handles')) \in Nat /\ MaxHandles \in Nat
  BY ObjectsFinite, ConstantsAssumption
<1>4. MaxArity' = MaxArity /\ DOMAIN heap' = DOMAIN heap
  BY DEF MaxArity, mem
<1>5. handles' \in [Ids -> Nat]
  BY <1>2
<1>6. RefTypes'
  BY <1>4, <1>5 DEF IInv, Types, RefTypes, Ids
<1>7. ASSUME NEW m \in Ids  PROVE Outside(m)' = Outside(m)
  <2>1. handles[m] \in Nat /\ handles[n] \in Nat /\ Count(builder.kids, m) \in Nat
          /\ Cardinality(EntriesIn(attrs, m)) \in Nat
    BY Terms DEF IInv
  <2>2. InProgress(m) = 0
    BY CountEmpty DEF InProgress, Ready, Idle, Nothing
  <2>3. Count(<<n>>, m) = IF n = m THEN 1 ELSE 0
    BY CountSingle
  <2>4. InProgress(m)' = IF n = m THEN 1 ELSE 0
    BY <2>3 DEF InProgress
  <2>5. Outside(m)' = handles'[m] + Count(builder.kids, m) + (IF n = m THEN 1 ELSE 0)
                        + Cardinality(EntriesIn(attrs, m))
    BY <2>4 DEF Outside
  <2>6. Outside(m) = handles[m] + Count(builder.kids, m) + 0
                        + Cardinality(EntriesIn(attrs, m))
    BY <2>2 DEF Outside
  <2> QED
    BY <1>2, <2>1, <2>5, <2>6
<1>8. decs' \in Seq(Ids)
  OBVIOUS
<1> QED
  BY <1>2, <1>3, <1>6, <1>7, <1>8, ObjectsNow DEF Ids

\* Destroying a Node.
LEMMA DropStep ==
  ASSUME IInv, instance' = instance, NEW n \in Ids, Drop(n)
  PROVE  IInv'
<1>1. /\ Ready /\ handles[n] > 0 /\ handles' = [handles EXCEPT ![n] = @ - 1] /\ decs' = <<n>>
      /\ UNCHANGED <<mem, builder, attrs, gc, after, phase, sort>>
  BY DEF Drop
<1>2. after' = Nothing /\ after'.kind = "nothing"
  BY <1>1 DEF Ready, Idle, Nothing
<1>3. /\ RefTypes' /\ decs' \in Seq(Ids) /\ \A m \in Ids : Outside(m)' = Outside(m)
      /\ (handles \in [Ids -> 0..MaxHandles])'
      /\ (Cardinality(Objects) <= MaxHandles)' /\ Room'
  BY <1>1, <1>2, ObjectReleased
<1>4. OpTypes'
  BY <1>2, <1>3 DEF OpTypes, Ids, Nothing
<1>5. Bounded' /\ Kept'
  BY <1>2, <1>3 DEF Bounded, Kept
<1> QED
  BY <1>1, <1>3, <1>4, <1>5, HeapUntouched

\* Assigning to a Node: the new value has a Node object of its own.
LEMMA AssignStep ==
  ASSUME IInv, instance' = instance, NEW n \in Ids, NEW m \in Ids, Assign(n, m)
  PROVE  IInv'
<1>1. /\ Ready /\ n # m /\ handles[n] > 0 /\ handles[m] > 0
      /\ handles' = [handles EXCEPT ![n] = @ - 1] /\ decs' = <<n>> /\ after' = Wrap(m)
      /\ UNCHANGED <<mem, builder, attrs, gc, phase, sort>>
  BY DEF Assign
<1>2. after'.kind = "wrap" /\ after'.node = m
  BY <1>1 DEF Wrap
<1>3. /\ RefTypes' /\ decs' \in Seq(Ids) /\ \A k \in Ids : Outside(k)' = Outside(k)
      /\ \A k \in Ids : k # n => handles'[k] = handles[k]
      /\ (handles \in [Ids -> 0..MaxHandles])'
      /\ (Cardinality(Objects) <= MaxHandles)' /\ Room'
  BY <1>1, <1>2, ObjectReleased
<1>4. OpTypes'
  BY <1>1, <1>3 DEF OpTypes, Ids, Wrap
<1>5. Bounded'
  BY <1>3 DEF Bounded
<1>6. m \in DOMAIN heap
  BY <1>1, Held DEF IInv
<1>7. Kept'
  BY <1>1, <1>2, <1>3, <1>6 DEF Kept, mem
<1> QED
  BY <1>1, <1>3, <1>4, <1>5, <1>7, HeapUntouched

\* An operation that calls inc().
LEMMA HeapInc ==
  ASSUME IInv, phase = "live", ~reclaiming, UNCHANGED <<instance, nextId, pool, zombies, gc>>,
         UNCHANGED <<phase, sort>>, NEW n \in DOMAIN heap, heap' = Inc(heap, n),
         maxedOut' = maxedOut \o MaxedBy(heap, n), RefTypes', OpTypes', Bounded', Kept',
         \A m \in Ids : Outside(m)' = Outside(m) + IF m = n THEN 1 ELSE 0
  PROVE  IInv'
<1>1. Types /\ Older /\ Exact /\ Accounted /\ Tracked
  BY DEF IInv
<1>2. heap \in [DOMAIN heap -> Value] /\ DOMAIN heap \subseteq Ids /\ MaxRC \in Nat
  BY <1>1, ConstantsAssumption DEF Types, HeapTypes
<1>3. /\ Recounted(heap', heap)
      /\ \A m \in DOMAIN heap : heap'[m].rc =
            IF m = n /\ heap[m].rc < MaxRC THEN heap[m].rc + 1 ELSE heap[m].rc
  BY <1>2, IncFacts
<1>4. maxedOut' \in Seq(Ids) /\ ToSet(maxedOut') = {m \in DOMAIN heap : heap'[m].rc = MaxRC}
  BY <1>1, MaxedInc
<1>5. /\ zombies' \subseteq DOMAIN heap /\ batch' \subseteq DOMAIN heap
      /\ reclaiming' \in BOOLEAN
  BY <1>1 DEF Types, HeapTypes, gc
<1>6. SameNodes /\ HeapTypes' /\ (instance \in Instances)'
  BY <1>1, <1>3, <1>4, <1>5, RecountTypes
<1>7. SortTypes'
  BY <1>1 DEF Types, SortTypes, Ids
<1>8. Older'
  BY <1>1, <1>6, OlderSame
<1>9. \A m \in DOMAIN heap : heap[m].rc \in 0..MaxRC
  BY <1>2 DEF Value
<1>10. Exact'
  <2> DEFINE d == [m \in Ids |-> IF m = n THEN 1 ELSE 0]
  <2>1. d \in [Ids -> Int] /\ \A m \in Ids : d[m] = IF m = n THEN 1 ELSE 0
    OBVIOUS
  <2> HIDE DEF d
  <2>2. \A m \in Ids : Outside(m)' = Outside(m) + d[m]
    BY <2>1
  <2>3. \A m \in Ids : m \notin DOMAIN heap => d[m] = 0
    BY <2>1
  <2>4. \A m \in DOMAIN heap : heap'[m].rc < MaxRC =>
            heap[m].rc < MaxRC /\ heap'[m].rc = heap[m].rc + d[m]
    BY <1>2, <1>3, <1>9, <2>1
  <2> QED
    BY <1>1, <1>6, <2>1, <2>2, <2>3, <2>4, ExactSame
<1>11. Accounted'
  <2>1. batch' = {} /\ zombies' = zombies /\ reclaiming' = reclaiming /\ DOMAIN heap' = DOMAIN heap
    BY <1>1, <1>6 DEF Accounted, gc, SameNodes
  <2>2. \A m \in DOMAIN heap : heap'[m].rc = 0 => heap[m].rc = 0
    BY <1>3, <1>9
  <2> QED
    BY <1>1, <2>1, <2>2 DEF Accounted, gc
<1>12. Quiet'
  BY DEF Quiet
<1>13. ToSet(maxedOut') = Maxed'
  BY <1>4, <1>6 DEF Maxed, SameNodes
<1>14. Tracked'
  BY <1>1, <1>13, TrackedLive
<1> QED
  BY <1>6, <1>7, <1>8, <1>10, <1>11, <1>12, <1>14 DEF IInv, Types

\* An operation that calls inc() and then dec() for the same node.
LEMMA HeapStored ==
  ASSUME IInv, phase = "live", ~reclaiming, UNCHANGED <<instance, nextId, pool, zombies, gc>>,
         UNCHANGED <<phase, sort>>, NEW n \in DOMAIN heap, heap[n].rc > 0,
         heap' = DecAll(Inc(heap, n), <<n>>),
         maxedOut' = maxedOut \o MaxedBy(heap, n), RefTypes', OpTypes', Bounded', Kept',
         \A m \in Ids : Outside(m)' = Outside(m)
  PROVE  IInv'
<1>1. Types /\ Older /\ Exact /\ Accounted /\ Tracked
  BY DEF IInv
<1>2. heap \in [DOMAIN heap -> Value] /\ DOMAIN heap \subseteq Ids /\ MaxRC \in Nat
  BY <1>1, ConstantsAssumption DEF Types, HeapTypes
<1>3. PICK g : g = Inc(heap, n)
  OBVIOUS
<1>4. \A m \in DOMAIN heap : heap[m].rc \in 0..MaxRC
  BY <1>2 DEF Value
<1>5. /\ Recounted(g, heap)
      /\ \A m \in DOMAIN heap : g[m].rc =
            IF m = n /\ heap[m].rc < MaxRC THEN heap[m].rc + 1 ELSE heap[m].rc
  BY <1>2, <1>3, IncFacts
<1>6. g \in [DOMAIN g -> Value] /\ DOMAIN g = DOMAIN heap
  BY <1>5 DEF Recounted
<1>7. <<n>> \in Seq(Ids) /\ \A m : Count(<<n>>, m) = IF n = m THEN 1 ELSE 0
  BY <1>2, CountSingle
<1>8. \A m \in DOMAIN g : g[m].rc < MaxRC => Count(<<n>>, m) <= g[m].rc
  BY <1>2, <1>4, <1>5, <1>6, <1>7
<1>9. /\ Recounted(DecAll(g, <<n>>), g)
      /\ \A m \in DOMAIN g : DecAll(g, <<n>>)[m].rc =
            IF g[m].rc < MaxRC THEN g[m].rc - Count(<<n>>, m) ELSE g[m].rc
  BY <1>6, <1>7, <1>8, DecFacts
<1>10. \A m \in DOMAIN heap : heap'[m].rc =
          IF g[m].rc < MaxRC THEN heap[m].rc ELSE g[m].rc
  <2> TAKE m \in DOMAIN heap
  <2>1. heap[m].rc \in 0..MaxRC
    BY <1>4
  <2>2. g[m].rc = IF m = n /\ heap[m].rc < MaxRC THEN heap[m].rc + 1 ELSE heap[m].rc
    BY <1>5
  <2>3. Count(<<n>>, m) = IF n = m THEN 1 ELSE 0
    BY <1>7
  <2>4. heap'[m].rc = IF g[m].rc < MaxRC THEN g[m].rc - Count(<<n>>, m) ELSE g[m].rc
    BY <1>3, <1>6, <1>9
  <2> QED
    BY ONLY <1>2, <2>1, <2>2, <2>3, <2>4
<1>11. Recounted(heap', heap)
  BY <1>3, <1>5, <1>9 DEF Recounted
<1>12. /\ maxedOut' \in Seq(Ids) /\ ToSet(maxedOut') = {m \in DOMAIN heap : g[m].rc = MaxRC}
  BY <1>1, <1>3, MaxedInc
<1>13. /\ zombies' \subseteq DOMAIN heap /\ batch' \subseteq DOMAIN heap
       /\ reclaiming' \in BOOLEAN
  BY <1>1 DEF Types, HeapTypes, gc
<1>14. SameNodes /\ HeapTypes' /\ (instance \in Instances)'
  BY <1>1, <1>11, <1>12, <1>13, RecountTypes
<1>15. SortTypes'
  BY <1>1 DEF Types, SortTypes, Ids
<1>16. Older'
  BY <1>1, <1>14, OlderSame
<1>17. \A m \in DOMAIN heap : g[m].rc \in 0..MaxRC
  BY <1>6 DEF Value
<1>18. \A m \in DOMAIN heap : heap'[m].rc = MaxRC <=> g[m].rc = MaxRC
  <2> TAKE m \in DOMAIN heap
  <2>1. heap[m].rc \in 0..MaxRC /\ g[m].rc \in 0..MaxRC
    BY <1>4, <1>17
  <2>2. g[m].rc = IF m = n /\ heap[m].rc < MaxRC THEN heap[m].rc + 1 ELSE heap[m].rc
    BY <1>5
  <2>3. heap'[m].rc = IF g[m].rc < MaxRC THEN heap[m].rc ELSE g[m].rc
    BY <1>10
  <2> QED
    BY ONLY <1>2, <2>1, <2>2, <2>3
<1>19. \A m \in DOMAIN heap : heap'[m].rc < MaxRC => heap'[m].rc = heap[m].rc
  BY <1>2, <1>4, <1>10, <1>17
<1>20. Exact'
  <2> DEFINE d == [m \in Ids |-> 0]
  <2>1. d \in [Ids -> Int] /\ \A m \in Ids : d[m] = 0
    OBVIOUS
  <2> HIDE DEF d
  <2>2. \A m \in Ids : Outside(m)' = Outside(m) + d[m]
    BY <1>1, <2>1, Terms
  <2>3. \A m \in DOMAIN heap : heap'[m].rc < MaxRC =>
            heap[m].rc < MaxRC /\ heap'[m].rc = heap[m].rc + d[m]
    BY <1>2, <1>4, <1>19, <2>1
  <2> QED
    BY <1>1, <1>14, <2>1, <2>2, <2>3, ExactSame
<1>21. Accounted'
  <2>1. batch' = {} /\ zombies' = zombies /\ reclaiming' = reclaiming /\ DOMAIN heap' = DOMAIN heap
    BY <1>1, <1>14 DEF Accounted, gc, SameNodes
  <2>2. \A m \in DOMAIN heap : heap'[m].rc = 0 => heap[m].rc = 0
    BY <1>2, <1>4, <1>10, <1>5
  <2> QED
    BY <1>1, <2>1, <2>2 DEF Accounted, gc
<1>22. Quiet'
  BY DEF Quiet
<1>23. ToSet(maxedOut') = Maxed'
  BY <1>12, <1>14, <1>18 DEF Maxed, SameNodes
<1>24. Tracked'
  BY <1>1, <1>23, TrackedLive
<1> QED
  BY <1>14, <1>15, <1>16, <1>20, <1>21, <1>22, <1>24 DEF IInv, Types

\* A referenced node has a positive count.
LEMMA Positive ==
  ASSUME Types, Older, Exact, NEW n \in Ids, References(n) > 0
  PROVE  n \in DOMAIN heap /\ heap[n].rc > 0
<1>1. n \in DOMAIN heap
  BY Held
<1>2. heap[n].rc \in 0..MaxRC /\ MaxRC \in Nat \ {0}
  BY <1>1, ConstantsAssumption DEF Types, HeapTypes, Value
<1> QED
  BY <1>1, <1>2 DEF Exact

\* A Node object is a reference.
LEMMA ObjectCounts ==
  ASSUME Types, Older, Exact, NEW n \in Ids, handles[n] > 0
  PROVE  n \in DOMAIN heap /\ heap[n].rc > 0
<1>1. References(n) > 0
  BY Terms DEF Outside
<1> QED
  BY <1>1, Positive

\* NodeBuilder::append.
LEMMA AppendChildStep ==
  ASSUME IInv, instance' = instance, NEW n \in Ids, AppendChild(n)
  PROVE  IInv'
<1>1. /\ Ready /\ builder.open /\ handles[n] > 0 /\ Len(builder.kids) < MaxArity
      /\ heap' = Inc(heap, n) /\ maxedOut' = maxedOut \o MaxedBy(heap, n)
      /\ builder' = [builder EXCEPT !.kids = Append(@, n)]
      /\ UNCHANGED <<nextId, pool, zombies, handles, attrs, gc, op, phase, sort>>
  BY DEF AppendChild
<1>2. n \in DOMAIN heap
  BY <1>1, ObjectCounts DEF IInv
<1>3. phase = "live" /\ ~reclaiming /\ after = Nothing /\ decs' = decs /\ after' = after
  BY <1>1 DEF Ready, Idle, op
<1>4. DOMAIN heap' = DOMAIN heap /\ MaxArity' = MaxArity /\ MaxArity \in Nat
  BY <1>1, Bounds DEF Inc, MaxArity, IInv, Types
<1>5. builder \in [open : BOOLEAN, kind : Operators \cup {Null}, kids : Seq(Ids)]
  BY DEF IInv, Types, RefTypes
<1>6. /\ builder'.open = builder.open /\ builder'.kind = builder.kind
      /\ builder'.kids = Append(builder.kids, n) /\ builder'.kids \in Seq(Ids)
      /\ Len(builder'.kids) = Len(builder.kids) + 1
      /\ builder' \in [open : BOOLEAN, kind : Operators \cup {Null}, kids : Seq(Ids)]
  <2>1. PICK s : s = Append(builder.kids, n)
    OBVIOUS
  <2>2. builder.kids \in Seq(Ids)
    BY <1>5
  <2>3. s \in Seq(Ids) /\ Len(s) = Len(builder.kids) + 1
    BY <2>1, <2>2
  <2>4. builder' = [builder EXCEPT !.kids = s]
    BY <1>1, <2>1
  <2>5. /\ builder'.open = builder.open /\ builder'.kind = builder.kind /\ builder'.kids = s
        /\ builder' \in [open : BOOLEAN, kind : Operators \cup {Null}, kids : Seq(Ids)]
    BY <1>5, <2>3, <2>4
  <2> QED
    BY <2>1, <2>3, <2>5
<1>7. RefTypes'
  <2>1. builder'.kind \in Operators /\ builder'.open
    BY <1>1, <1>6 DEF IInv, Types, RefTypes
  <2>2. Len(builder'.kids) <= MaxArity'
    BY <1>1, <1>4, <1>5, <1>6
  <2>3. handles' = handles /\ attrs' = attrs
    BY <1>1
  <2> QED
    BY <1>4, <1>6, <2>1, <2>2, <2>3 DEF IInv, Types, RefTypes, Ids, Null
<1>8. OpTypes'
  BY <1>3 DEF IInv, Types, OpTypes, Ids
<1>9. Bounded' /\ Kept'
  BY <1>1, <1>3, ObjectsNow DEF IInv, Bounded, Kept, Ids, Nothing
<1>10. ASSUME NEW m \in Ids  PROVE Outside(m)' = Outside(m) + IF m = n THEN 1 ELSE 0
  <2>1. handles[m] \in Nat /\ Count(builder.kids, m) \in Nat /\ InProgress(m) \in Nat
          /\ Cardinality(EntriesIn(attrs, m)) \in Nat
    BY Terms DEF IInv
  <2>2. Count(builder'.kids, m) = Count(builder.kids, m) + IF n = m THEN 1 ELSE 0
    BY <1>5, <1>6, CountAppend
  <2>3. InProgress(m)' = InProgress(m)
    BY <1>3 DEF InProgress
  <2>4. Outside(m)' = handles[m] + Count(builder'.kids, m) + InProgress(m)
                        + Cardinality(EntriesIn(attrs, m))
    BY <1>1, <2>3 DEF Outside
  <2>5. Outside(m) = handles[m] + Count(builder.kids, m) + InProgress(m)
                        + Cardinality(EntriesIn(attrs, m))
    BY DEF Outside
  <2> QED
    BY <2>1, <2>2, <2>4, <2>5
<1> QED
  BY <1>1, <1>2, <1>3, <1>7, <1>8, <1>9, <1>10, HeapInc

\* The last step of most operations: the Node object counts.
LEMMA WrapResultStep ==
  ASSUME IInv, instance' = instance, WrapResult
  PROVE  IInv'
<1>1. /\ ~reclaiming /\ decs = << >> /\ after.kind = "wrap"
      /\ heap' = Inc(heap, after.node) /\ maxedOut' = maxedOut \o MaxedBy(heap, after.node)
      /\ handles' = [handles EXCEPT ![after.node] = @ + 1] /\ after' = Nothing
      /\ UNCHANGED <<nextId, pool, zombies, builder, attrs, gc, decs, phase, sort>>
  BY DEF WrapResult
<1>2. PICK n : n = after.node
  OBVIOUS
<1>3. n \in DOMAIN heap /\ n \in Ids
  BY <1>1, <1>2 DEF IInv, Kept, Types, HeapTypes
<1>4. phase = "live"
  BY <1>1 DEF IInv, Quiet, Nothing, Types, SortTypes
<1>5. handles \in [Ids -> 0..MaxHandles] /\ Cardinality(ObjectsOf(handles)) < MaxHandles
  BY <1>1, ObjectsNow DEF IInv, Bounded
<1>6. /\ handles' \in [Ids -> 0..MaxHandles] /\ handles'[n] = handles[n] + 1
      /\ \A m \in Ids : m # n => handles'[m] = handles[m]
      /\ Cardinality(ObjectsOf(handles')) <= MaxHandles
  BY <1>1, <1>2, <1>3, <1>5, ObjectsMore
<1>7. DOMAIN heap' = DOMAIN heap /\ MaxArity' = MaxArity
  BY <1>1 DEF Inc, MaxArity
<1>8. after'.kind = "nothing" /\ after' = Nothing /\ decs' = decs
  BY <1>1 DEF Nothing
<1>9. RefTypes'
  <2>1. handles' \in [Ids -> Nat]
    BY <1>6
  <2> QED
    BY <1>1, <1>7, <2>1 DEF IInv, Types, RefTypes, Ids
<1>10. OpTypes'
  BY <1>8 DEF IInv, Types, OpTypes, Ids, Nothing
<1>11. Bounded' /\ Kept'
  BY <1>6, <1>8, ObjectsNow DEF Bounded, Kept, Ids
<1>12. ASSUME NEW m \in Ids  PROVE Outside(m)' = Outside(m) + IF m = n THEN 1 ELSE 0
  <2>1. handles[m] \in Nat /\ Count(builder.kids, m) \in Nat /\ InProgress(m) \in Nat
          /\ Cardinality(EntriesIn(attrs, m)) \in Nat
    BY Terms DEF IInv
  <2>2. InProgress(m)' = InProgress(m)
    BY <1>1, <1>8 DEF InProgress
  <2>3. Outside(m)' = handles'[m] + Count(builder.kids, m) + InProgress(m)
                        + Cardinality(EntriesIn(attrs, m))
    BY <1>1, <2>2 DEF Outside
  <2>4. Outside(m) = handles[m] + Count(builder.kids, m) + InProgress(m)
                        + Cardinality(EntriesIn(attrs, m))
    BY DEF Outside
  <2> QED
    BY <1>6, <2>1, <2>3, <2>4
<1> QED
  BY <1>1, <1>2, <1>3, <1>4, <1>9, <1>10, <1>11, <1>12, HeapInc

\* The table takes over the reference of the temporary copy.
LEMMA StoreAttributeStep ==
  ASSUME IInv, instance' = instance, StoreAttribute
  PROVE  IInv'
<1>1. /\ ~reclaiming /\ decs = << >> /\ after.kind = "store"
      /\ heap' = DecAll(Inc(heap, after.node), <<after.node>>)
      /\ maxedOut' = maxedOut \o MaxedBy(heap, after.node)
      /\ attrs' = [m \in DOMAIN attrs \cup {after.key} |->
                    IF m = after.key THEN after.node ELSE attrs[m]]
      /\ after' = Nothing
      /\ UNCHANGED <<nextId, pool, zombies, handles, builder, gc, decs, phase, sort>>
  BY DEF StoreAttribute, Stored
<1>2. PICK n : n = after.node
  OBVIOUS
<1>3. PICK k : k = after.key
  OBVIOUS
<1>4. n \in Ids /\ k \in Ids /\ handles[k] > 0 /\ k \notin DOMAIN attrs
  BY <1>1, <1>2, <1>3 DEF IInv, Kept, Types, OpTypes, Nothing
<1>5. n \in DOMAIN heap /\ heap[n].rc > 0
  <2>1. InProgress(n) > 0
    <3>1. Count(decs, n) \in Nat
      BY <1>4, Terms DEF IInv
    <3> QED
      BY <1>1, <1>2, <3>1 DEF InProgress
  <2>2. References(n) > 0
    BY <1>4, <2>1, Terms DEF IInv, Outside
  <2> QED
    BY <1>4, <2>2, Positive DEF IInv
<1>6. k \in DOMAIN heap
  BY <1>4, ObjectCounts DEF IInv
<1>7. phase = "live"
  BY <1>1 DEF IInv, Quiet, Nothing, Types, SortTypes
<1>8. DOMAIN heap' = DOMAIN heap /\ MaxArity' = MaxArity
  BY <1>1 DEF Inc, DecAll, MaxArity
<1>9. after'.kind = "nothing" /\ after' = Nothing /\ decs' = decs
  BY <1>1 DEF Nothing
<1>10. /\ DOMAIN attrs' = DOMAIN attrs \cup {k} /\ attrs'[k] = n
       /\ \A m \in DOMAIN attrs : attrs'[m] = attrs[m]
       /\ attrs' \in [DOMAIN attrs' -> Ids]
  BY <1>1, <1>2, <1>3, <1>4 DEF IInv, Types, RefTypes
<1>11. RefTypes'
  BY <1>1, <1>6, <1>8, <1>10 DEF IInv, Types, RefTypes, Ids
<1>12. OpTypes'
  BY <1>9 DEF IInv, Types, OpTypes, Ids, Nothing
<1>13. Bounded' /\ Kept'
  BY <1>1, <1>9, ObjectsNow DEF IInv, Bounded, Kept, Ids
<1>14. ASSUME NEW m \in Ids  PROVE Outside(m)' = Outside(m)
  <2>1. handles[m] \in Nat /\ Count(builder.kids, m) \in Nat
          /\ Cardinality(EntriesIn(attrs, m)) \in Nat
    BY Terms DEF IInv
  <2>2. IsFiniteSet(DOMAIN attrs)
    BY HeapFinite DEF IInv, Types, RefTypes, HeapTypes
  <2>3. Cardinality(EntriesIn(attrs', m))
          = Cardinality(EntriesIn(attrs, m)) + IF attrs'[k] = m THEN 1 ELSE 0
    BY <1>4, <1>10, <2>2, EntriesMore
  <2>4. Count(decs, m) = 0
    BY <1>1, CountEmpty
  <2>5. InProgress(m) = (IF n = m THEN 1 ELSE 0) /\ InProgress(m)' = 0
    BY <1>1, <1>2, <1>9, <2>4 DEF InProgress
  <2>6. Outside(m)' = handles[m] + Count(builder.kids, m) + 0
                        + Cardinality(EntriesIn(attrs', m))
    BY <1>1, <2>5 DEF Outside
  <2>7. Outside(m) = handles[m] + Count(builder.kids, m) + (IF n = m THEN 1 ELSE 0)
                        + Cardinality(EntriesIn(attrs, m))
    BY <2>5 DEF Outside
  <2> QED
    BY <1>10, <2>1, <2>3, <2>6, <2>7
<1> QED
  BY <1>1, <1>2, <1>5, <1>7, <1>11, <1>12, <1>13, <1>14, HeapStored

\* setAttribute: the copy of the value is a reference until it is stored.
LEMMA SetAttributeStep ==
  ASSUME IInv, instance' = instance, NEW n \in Ids, NEW m \in Ids, SetAttribute(n, m)
  PROVE  IInv'
<1>1. /\ Ready /\ handles[n] > 0 /\ handles[m] > 0
      /\ maxedOut' = maxedOut \o MaxedBy(heap, m)
      /\ UNCHANGED <<nextId, pool, zombies, handles, builder, gc, phase, sort>>
  BY DEF SetAttribute
<1>2. /\ phase = "live" /\ ~reclaiming /\ after = Nothing /\ decs = << >>
      /\ after.kind = "nothing"
  BY <1>1 DEF Ready, Idle, Nothing
<1>3. m \in DOMAIN heap /\ heap[m].rc > 0
  BY <1>1, ObjectCounts DEF IInv
<1>4. MaxArity' = MaxArity
  BY DEF MaxArity
<1>5. CASE /\ heap' = DecAll(Inc(heap, m), <<m>>)
           /\ UNCHANGED <<attrs, op>>
  <2>1. DOMAIN heap' = DOMAIN heap /\ decs' = decs /\ after' = after
    BY <1>5 DEF Inc, DecAll, op
  <2>2. RefTypes' /\ OpTypes'
    BY <1>1, <1>4, <1>5, <2>1 DEF IInv, Types, RefTypes, OpTypes, Ids
  <2>3. Bounded' /\ Kept'
    BY <1>1, <1>2, <2>1, ObjectsNow DEF IInv, Bounded, Kept, Ids
  <2>4. \A k \in Ids : Outside(k)' = Outside(k)
    BY <1>1, <1>5, <2>1 DEF Outside, InProgress
  <2> QED
    BY <1>1, <1>2, <1>3, <1>5, <2>2, <2>3, <2>4, HeapStored
<1>6. CASE /\ heap' = Inc(heap, m) /\ decs' = AttributesOf(n) /\ after' = Store(n, m)
           /\ attrs' = [k \in DOMAIN attrs \ {n} |-> attrs[k]]
  <2>1. DOMAIN heap' = DOMAIN heap
    BY <1>6 DEF Inc
  <2>2. attrs \in [DOMAIN attrs -> Ids] /\ DOMAIN attrs \subseteq DOMAIN heap
    BY DEF IInv, Types, RefTypes
  <2>3. /\ DOMAIN attrs' = DOMAIN attrs \ {n} /\ \A k \in DOMAIN attrs' : attrs'[k] = attrs[k]
        /\ attrs' \in [DOMAIN attrs' -> Ids] /\ n \notin DOMAIN attrs'
    BY <1>6, <2>2
  <2>4. decs' \in Seq(Ids)
    BY <1>6, <2>2 DEF AttributesOf
  <2>5. after'.kind = "store" /\ after'.node = m /\ after'.key = n
    BY <1>6 DEF Store
  <2>6. OpTypes'
    BY <1>6, <2>4 DEF OpTypes, Store, Ids
  <2>7. RefTypes'
    BY <1>1, <1>4, <2>1, <2>2, <2>3 DEF IInv, Types, RefTypes, Ids
  <2>8. Bounded' /\ Kept'
    BY <1>1, <2>3, <2>5, ObjectsNow DEF IInv, Bounded, Kept, Ids
  <2>9. ASSUME NEW k \in Ids  PROVE Outside(k)' = Outside(k) + IF k = m THEN 1 ELSE 0
    <3>1. handles[k] \in Nat /\ Count(builder.kids, k) \in Nat
            /\ Cardinality(EntriesIn(attrs, k)) \in Nat
      BY Terms DEF IInv
    <3>2. IsFiniteSet(DOMAIN attrs) /\ IsFiniteSet(DOMAIN attrs')
      BY <2>2, <2>3, HeapFinite DEF IInv, Types, HeapTypes
    <3>3. Cardinality(EntriesIn(attrs', k)) \in Nat
      BY <3>2, EntriesType
    <3>4. Cardinality(EntriesIn(attrs, k))
            = Cardinality(EntriesIn(attrs', k)) + Count(AttributesOf(n), k)
      <4>1. attrs' = Without(attrs, n) /\ AttributesOf(n) = ValueAt(attrs, n)
        BY <1>6 DEF Without, AttributesOf, ValueAt
      <4>2. Cardinality(EntriesIn(attrs, k))
              = Cardinality(EntriesIn(Without(attrs, n), k)) + Count(ValueAt(attrs, n), k)
        BY <3>2, EntriesLess
      <4> QED
        BY <4>1, <4>2
    <3>5. Count(AttributesOf(n), k) \in Nat
      BY <1>6, <2>4, CountType
    <3>6. InProgress(k) = 0
      BY <1>2, CountEmpty DEF InProgress
    <3>7. InProgress(k)' = Count(AttributesOf(n), k) + IF m = k THEN 1 ELSE 0
      BY <1>6, <2>5 DEF InProgress
    <3>8. Outside(k) = handles[k] + Count(builder.kids, k) + 0
                         + Cardinality(EntriesIn(attrs, k))
      BY <3>6 DEF Outside
    <3>9. Outside(k)' = handles[k] + Count(builder.kids, k)
                         + (Count(AttributesOf(n), k) + IF m = k THEN 1 ELSE 0)
                         + Cardinality(EntriesIn(attrs', k))
      BY <1>1, <3>7 DEF Outside
    <3> QED
      BY ONLY <3>1, <3>3, <3>4, <3>5, <3>8, <3>9
  <2> QED
    BY <1>1, <1>2, <1>3, <1>6, <2>6, <2>7, <2>8, <2>9, HeapInc
<1> QED
  BY <1>5, <1>6 DEF SetAttribute

-----------------------------------------------------------------------------
(***************************************************************************)
(* Steps that allocate a node.                                             *)
(***************************************************************************)
\* A sum of which one term moves elsewhere and one grows.
LEMMA Moved ==
  ASSUME NEW h \in Nat, NEW b \in Nat, NEW c \in Nat, NEW p \in Nat, NEW e \in Nat,
         NEW k \in Nat, NEW x \in Nat, b = c + k
  PROVE  (h + x) + c + p + e = (h + b + p + e) - k + x
OBVIOUS

\* The heap with the new node, which has the first reference.
LEMMA AllocatedHeap ==
  ASSUME Types, Older, instance' = instance, NEW kind \in Kinds, NEW kids \in Seq(Ids),
         Allocate(kind, kids)
  PROVE  /\ nextId \in Ids /\ nextId \notin DOMAIN heap
         /\ DOMAIN heap' = DOMAIN heap \cup {nextId} /\ heap' \in [DOMAIN heap' -> Value]
         /\ \A m \in DOMAIN heap : heap'[m] = heap[m]
         /\ heap'[nextId].kids = kids /\ heap'[nextId].rc = 1
         /\ maxedOut' = maxedOut \o (IF MaxRC = 1 THEN <<nextId>> ELSE << >>)
<1>1. MaxRC \in Nat /\ MaxRC > 0 /\ MaxNodes \in Nat
  BY ConstantsAssumption
<1>2. nextId \in Ids
  BY <1>1 DEF Allocate, Types, HeapTypes, Ids
<1>3. nextId \notin DOMAIN heap
  BY <1>2 DEF Older, Ids
<1>4. PICK h : h = [n \in DOMAIN heap \cup {nextId} |->
                      IF n = nextId THEN [kind |-> kind, kids |-> kids, rc |-> 0]
                                    ELSE heap[n]]
  OBVIOUS
<1>5. heap' = Inc(h, nextId) /\ maxedOut' = maxedOut \o MaxedBy(h, nextId)
  BY <1>4 DEF Allocate
<1>6. /\ DOMAIN h = DOMAIN heap \cup {nextId} /\ \A m \in DOMAIN heap : h[m] = heap[m]
      /\ h[nextId] = [kind |-> kind, kids |-> kids, rc |-> 0]
  BY <1>3, <1>4
<1>7. h[nextId] \in Value /\ h[nextId].rc = 0 /\ h[nextId].kids = kids
  BY <1>1, <1>6 DEF Value
<1>8. h \in [DOMAIN h -> Value]
  <2>1. \A m \in DOMAIN heap : heap[m] \in Value
    BY DEF Types, HeapTypes
  <2>2. \A m \in DOMAIN h : h[m] \in Value
    BY <1>6, <1>7, <2>1
  <2>3. h = [m \in DOMAIN h |-> h[m]]
    BY <1>4
  <2> QED
    BY <2>2, <2>3
<1>9. /\ Recounted(heap', h)
      /\ \A m \in DOMAIN h : heap'[m].rc =
            IF m = nextId /\ h[m].rc < MaxRC THEN h[m].rc + 1 ELSE h[m].rc
  BY <1>5, <1>6, <1>8, IncFacts
<1>10. heap'[nextId].kids = kids /\ heap'[nextId].rc = 1
  BY <1>1, <1>6, <1>7, <1>9 DEF Recounted
<1>11. DOMAIN heap' = DOMAIN heap \cup {nextId} /\ heap' \in [DOMAIN heap' -> Value]
  BY <1>6, <1>9 DEF Recounted
<1>12. \A m \in DOMAIN heap : heap'[m] = heap[m]
  BY <1>3, <1>5, <1>6 DEF Inc
<1>13. maxedOut' = maxedOut \o (IF MaxRC = 1 THEN <<nextId>> ELSE << >>)
  BY <1>1, <1>5, <1>7 DEF MaxedBy
<1> QED
  BY <1>2, <1>3, <1>10, <1>11, <1>12, <1>13

\* The new node takes over the references to its children.
LEMMA Allocated ==
  ASSUME IInv, Ready, instance' = instance, NEW kind \in Kinds, NEW kids \in Seq(Ids),
         ToSet(kids) \subseteq DOMAIN heap, Len(kids) <= MaxArity, Allocate(kind, kids),
         UNCHANGED <<zombies, attrs, gc, op, phase, sort>>,
         builder' \in [open : BOOLEAN, kind : Operators \cup {Null}, kids : Seq(Ids)],
         builder'.open => builder'.kind \in Operators,
         ~builder'.open => builder'.kids = << >>,
         Len(builder'.kids) <= MaxArity,
         \A m \in Ids : Count(builder.kids, m) = Count(builder'.kids, m) + Count(kids, m)
  PROVE  IInv'
<1>1. Types /\ Older /\ Exact /\ Accounted /\ Tracked /\ Bounded
  BY DEF IInv
<1>2. PICK n : n = nextId
  OBVIOUS
<1>3. /\ n \in Ids /\ n \notin DOMAIN heap
      /\ DOMAIN heap' = DOMAIN heap \cup {n} /\ heap' \in [DOMAIN heap' -> Value]
      /\ \A m \in DOMAIN heap : heap'[m] = heap[m]
      /\ heap'[n].kids = kids /\ heap'[n].rc = 1
      /\ maxedOut' = maxedOut \o (IF MaxRC = 1 THEN <<n>> ELSE << >>)
  BY <1>1, <1>2, AllocatedHeap
<1>4. /\ nextId <= MaxNodes /\ Room /\ handles' = [handles EXCEPT ![n] = @ + 1]
      /\ pool' \subseteq pool \cup {n} /\ nextId' = nextId + 1
  BY <1>2 DEF Allocate
<1>5. /\ MaxRC \in Nat /\ MaxRC > 0 /\ MaxNodes \in Nat /\ MaxArity \in Nat
      /\ MaxArity' = MaxArity /\ Value' = Value /\ nextId \in 1..(MaxNodes + 1)
  BY <1>1, Bounds DEF Types, HeapTypes, MaxArity, Value, Kinds, Constants, Ids
<1>6. DOMAIN heap \subseteq Ids /\ DOMAIN heap' \subseteq Ids /\ maxedOut \in Seq(Ids)
  BY <1>1, <1>3 DEF Types, HeapTypes
<1>7. maxedOut' \in Seq(Ids)
  BY <1>3, <1>6
<1>8. HeapTypes'
  <2>1. /\ pool' \subseteq DOMAIN heap' /\ zombies' \subseteq DOMAIN heap'
        /\ batch' \subseteq DOMAIN heap' /\ reclaiming' \in BOOLEAN
    BY <1>1, <1>3, <1>4 DEF Types, HeapTypes, gc
  <2>2. nextId' \in 1..(MaxNodes + 1)
    BY <1>4, <1>5
  <2> QED
    BY <1>3, <1>5, <1>6, <1>7, <2>1, <2>2 DEF HeapTypes, Ids
<1>9. handles \in [Ids -> 0..MaxHandles] /\ Cardinality(ObjectsOf(handles)) < MaxHandles
  BY <1>1, <1>4, ObjectsNow DEF Bounded
<1>10. /\ handles' \in [Ids -> 0..MaxHandles] /\ handles'[n] = handles[n] + 1
       /\ \A m \in Ids : m # n => handles'[m] = handles[m]
       /\ Cardinality(ObjectsOf(handles')) <= MaxHandles
  BY <1>3, <1>4, <1>9, ObjectsMore
<1>11. decs = << >> /\ after = Nothing /\ decs' = << >> /\ after' = Nothing
         /\ after.kind = "nothing" /\ after'.kind = "nothing"
  BY DEF Ready, Idle, op, Nothing
<1>12. RefTypes'
  <2>1. handles' \in [Ids -> Nat]
    BY <1>10
  <2>2. attrs' \in [DOMAIN attrs' -> Ids] /\ DOMAIN attrs' \subseteq DOMAIN heap'
    BY <1>1, <1>3 DEF Types, RefTypes
  <2> QED
    BY <1>5, <2>1, <2>2 DEF RefTypes, Ids, Null
<1>13. OpTypes' /\ SortTypes' /\ Kept'
  BY <1>1, <1>11 DEF Types, OpTypes, SortTypes, Kept, Ids, Nothing
<1>14. Bounded'
  BY <1>10, <1>11, ObjectsNow DEF Bounded, Ids
<1>15. Older'
  <2>1. \A m \in DOMAIN heap : Kids(m)' = Kids(m)
    BY <1>3 DEF Kids
  <2>2. Kids(n)' = ToSet(kids)
    BY <1>3 DEF Kids
  <2>3. ASSUME NEW m \in DOMAIN heap'  PROVE m < nextId' /\ Len(heap'[m].kids) <= MaxArity'
    <3>1. CASE m = n
      BY <1>2, <1>3, <1>4, <1>5, <3>1
    <3>2. CASE m \in DOMAIN heap
      BY <1>1, <1>3, <1>4, <1>5, <1>6, <3>2 DEF Older, Ids
    <3> QED
      BY <1>3, <3>1, <3>2
  <2>4. ASSUME NEW m \in DOMAIN heap', NEW k \in Kids(m)'  PROVE k < m
    <3>1. CASE m = n
      BY <1>1, <1>2, <2>2, <2>4, <3>1 DEF Older
    <3>2. CASE m \in DOMAIN heap
      BY <1>1, <2>1, <2>4, <3>2 DEF Older
    <3> QED
      BY <1>3, <3>1, <3>2
  <2> QED
    BY <2>3, <2>4 DEF Older
<1>16. \A m \in Ids : Inside(m)' = Inside(m) + Count(kids, m)
  <2> TAKE m \in Ids
  <2>1. PICK h : h = heap
    OBVIOUS
  <2>2. PICK g : g = heap'
    OBVIOUS
  <2>3. IsFiniteSet(DOMAIN h)
    BY <1>6, <2>1, HeapFinite
  <2>4. n \notin DOMAIN h /\ DOMAIN g = DOMAIN h \cup {n} /\ \A k \in DOMAIN h : g[k].kids = h[k].kids
    BY <1>3, <2>1, <2>2
  <2>5. \A k \in DOMAIN g : g[k].kids \in Seq(Ids) /\ Len(g[k].kids) <= MaxArity
    BY <1>3, <1>5, <1>15, <2>2 DEF Value, Older
  <2>6. Cardinality(PlacesIn(g, MaxArity, m))
           = Cardinality(PlacesIn(h, MaxArity, m)) + Count(g[n].kids, m)
    BY ONLY <1>5, <2>3, <2>4, <2>5, PlacesMore
  <2> QED
    BY <1>3, <1>5, <2>1, <2>2, <2>6 DEF Inside
<1>17. \A m \in Ids : Outside(m)' = Outside(m) - Count(kids, m) + IF m = n THEN 1 ELSE 0
  <2> TAKE m \in Ids
  <2>1. handles[m] \in Nat /\ Count(builder.kids, m) \in Nat /\ InProgress(m) \in Nat
          /\ Cardinality(EntriesIn(attrs, m)) \in Nat
    BY <1>1, Terms
  <2>2. Count(kids, m) \in Nat /\ Count(builder'.kids, m) \in Nat
    <3>1. builder'.kids \in Seq(Ids)
      OBVIOUS
    <3> QED
      BY <3>1, CountType
  <2>3. InProgress(m)' = InProgress(m)
    BY <1>11 DEF InProgress
  <2>4. Outside(m) = handles[m] + Count(builder.kids, m) + InProgress(m)
                        + Cardinality(EntriesIn(attrs, m))
    BY DEF Outside
  <2>5. Outside(m)' = handles'[m] + Count(builder'.kids, m) + InProgress(m)
                        + Cardinality(EntriesIn(attrs, m))
    BY <2>3 DEF Outside
  <2>6. Count(builder.kids, m) = Count(builder'.kids, m) + Count(kids, m)
    OBVIOUS
  <2>7. handles'[m] = handles[m] + IF m = n THEN 1 ELSE 0
    BY <1>10, <2>1
  <2>8. PICK x : x = IF m = n THEN 1 ELSE 0
    OBVIOUS
  <2>9. x \in Nat
    BY <2>8
  <2>10. Outside(m)' = (handles[m] + x) + Count(builder'.kids, m) + InProgress(m)
                        + Cardinality(EntriesIn(attrs, m))
    BY <2>5, <2>7, <2>8
  <2>11. Outside(m)' = Outside(m) - Count(kids, m) + x
    <3>1. (handles[m] + x) + Count(builder'.kids, m) + InProgress(m)
            + Cardinality(EntriesIn(attrs, m))
          = (handles[m] + Count(builder.kids, m) + InProgress(m)
              + Cardinality(EntriesIn(attrs, m))) - Count(kids, m) + x
      BY ONLY <2>1, <2>2, <2>6, <2>9, Moved
    <3> QED
      BY ONLY <2>4, <2>10, <3>1
  <2> QED
    BY <2>8, <2>11
<1>18. \A m \in Ids : References(m)' = References(m) + IF m = n THEN 1 ELSE 0
  <2> TAKE m \in Ids
  <2>1. References(m)' = Outside(m)' + Inside(m)'
    BY DEF References, Outside, Inside, Entries, EntriesIn, Places, PlacesIn
  <2>2. Outside(m) \in Nat /\ Inside(m) \in Nat /\ References(m) = Outside(m) + Inside(m)
    BY <1>1, Terms
  <2>3. Count(kids, m) \in Nat
    BY CountType
  <2>4. Inside(m)' = Inside(m) + Count(kids, m)
    BY <1>16
  <2>5. Outside(m)' = Outside(m) - Count(kids, m) + IF m = n THEN 1 ELSE 0
    BY <1>17
  <2> QED
    BY ONLY <2>1, <2>2, <2>3, <2>4, <2>5
<1>19. Exact'
  <2>1. ASSUME NEW m \in DOMAIN heap', heap'[m].rc < MaxRC  PROVE heap'[m].rc = References(m)'
    <3>1. CASE m = n
      <4>1. References(n) = 0
        BY <1>1, <1>3 DEF Exact
      <4> QED
        BY <1>3, <1>18, <3>1, <4>1
    <3>2. CASE m \in DOMAIN heap
      <4>1. m \in Ids /\ References(m) \in Nat
        BY <1>1, <1>6, <3>2, Terms
      <4> QED
        BY <1>1, <1>3, <1>18, <2>1, <3>2, <4>1 DEF Exact
    <3> QED
      BY <1>3, <3>1, <3>2
  <2>2. ASSUME NEW m \in Ids, m \notin DOMAIN heap'  PROVE References(m)' = 0
    <3>1. m \notin DOMAIN heap /\ m # n
      BY <1>3, <2>2
    <3> QED
      BY <1>1, <1>18, <3>1 DEF Exact
  <2> QED
    BY <2>1, <2>2 DEF Exact, Ids
<1>20. Accounted'
  BY <1>1, <1>3, <1>6 DEF Accounted, gc, Types, HeapTypes
<1>21. Quiet'
  BY DEF Quiet, Ready
<1>22. ToSet(maxedOut') = Maxed'
  <2>1. ToSet(maxedOut) = Maxed
    BY <1>1 DEF Tracked, Ready
  <2>2. ToSet(IF MaxRC = 1 THEN <<n>> ELSE << >>) = IF MaxRC = 1 THEN {n} ELSE {}
    BY DEF ToSet
  <2>3. (IF MaxRC = 1 THEN <<n>> ELSE << >>) \in Seq(Ids)
    BY <1>3
  <2>4. ToSet(maxedOut') = Maxed \cup (IF MaxRC = 1 THEN {n} ELSE {})
    <3>1. PICK t : t = IF MaxRC = 1 THEN <<n>> ELSE << >>
      OBVIOUS
    <3>2. t \in Seq(Ids) /\ maxedOut' = maxedOut \o t
      BY <1>3, <2>3, <3>1
    <3>3. ToSet(maxedOut \o t) = ToSet(maxedOut) \cup ToSet(t)
      BY ONLY <1>6, <3>2, ConcatSet
    <3>4. ToSet(t) = IF MaxRC = 1 THEN {n} ELSE {}
      BY <2>2, <3>1
    <3> QED
      BY <2>1, <3>2, <3>3, <3>4
  <2> QED
    BY <1>3, <2>4 DEF Maxed
<1>23. Tracked'
  BY <1>1, <1>22, TrackedLive DEF Ready
<1> QED
  BY <1>1, <1>8, <1>12, <1>13, <1>14, <1>15, <1>19, <1>20, <1>21, <1>23 DEF IInv, Types

\* A new node without children.
LEMMA AllocatedLeaf ==
  ASSUME IInv, Ready, instance' = instance, NEW kind \in Kinds, Allocate(kind, << >>),
         UNCHANGED <<zombies, builder, attrs, gc, op, phase, sort>>
  PROVE  IInv'
<1>1. << >> \in Seq(Ids) /\ ToSet(<< >>) \subseteq DOMAIN heap /\ Len(<< >>) = 0
  BY DEF ToSet
<1>2. MaxArity \in Nat
  BY Bounds DEF IInv, Types
<1>3. /\ builder \in [open : BOOLEAN, kind : Operators \cup {Null}, kids : Seq(Ids)]
      /\ builder.open => builder.kind \in Operators
      /\ ~builder.open => builder.kids = << >>
      /\ Len(builder.kids) <= MaxArity
  BY DEF IInv, Types, RefTypes
<1>4. \A m \in Ids : Count(builder.kids, m) = Count(builder'.kids, m) + Count(<< >>, m)
  <2> TAKE m \in Ids
  <2>1. Count(builder.kids, m) \in Nat /\ Count(<< >>, m) = 0 /\ builder' = builder
    BY Terms, CountEmpty DEF IInv
  <2> QED
    BY <2>1
<1>5. Len(<< >>) <= MaxArity
  BY <1>1, <1>2
<1> QED
  BY <1>1, <1>3, <1>4, <1>5, Allocated

\* A new variable.
LEMMA MkVarStep ==
  ASSUME IInv, instance' = instance, NEW kind \in Kinds, MkVar(kind)
  PROVE  IInv'
BY AllocatedLeaf DEF MkVar

\* A constant: new, or found in the pool.
LEMMA MkConstStep ==
  ASSUME IInv, instance' = instance, NEW kind \in Kinds, MkConst(kind)
  PROVE  IInv'
<1>1. Ready
  BY DEF MkConst
<1>2. CASE /\ Allocate(kind, << >>)
           /\ UNCHANGED <<zombies, builder, attrs, gc, op, phase, sort>>
  BY <1>1, <1>2, AllocatedLeaf
<1>3. CASE \E n \in Lookup(kind, << >>) :
              /\ Room /\ after' = Wrap(n)
              /\ UNCHANGED <<mem, refs, gc, decs, phase, sort>>
  <2>1. PICK n \in Lookup(kind, << >>) :
              /\ Room /\ after' = Wrap(n)
              /\ UNCHANGED <<mem, refs, gc, decs, phase, sort>>
    BY <1>3
  <2>2. n \in DOMAIN heap
    BY DEF Lookup, IInv, Types, HeapTypes
  <2> QED
    BY <1>1, <2>1, <2>2, ToWrap
<1> QED
  BY <1>2, <1>3 DEF MkConst

\* A new node made of the children of a NodeBuilder.
LEMMA ConstructNewStep ==
  ASSUME IInv, instance' = instance, ConstructNew
  PROVE  IInv'
<1>1. /\ Ready /\ builder.open /\ Allocate(builder.kind, builder.kids) /\ builder' = Closed
      /\ UNCHANGED <<zombies, attrs, gc, op, phase, sort>>
  BY DEF ConstructNew
<1>2. builder.kind \in Kinds /\ builder.kids \in Seq(Ids) /\ Len(builder.kids) <= MaxArity
  BY <1>1 DEF IInv, Types, RefTypes, Kinds
<1>3. ToSet(builder.kids) \subseteq DOMAIN heap
  BY Held DEF IInv
<1>4. MaxArity \in Nat
  BY Bounds DEF IInv, Types
<1>5. /\ builder' \in [open : BOOLEAN, kind : Operators \cup {Null}, kids : Seq(Ids)]
      /\ ~builder'.open /\ builder'.kids = << >> /\ Len(builder'.kids) <= MaxArity
  BY <1>1, <1>4 DEF Closed, Null
<1>6. \A m \in Ids : Count(builder.kids, m) = Count(builder'.kids, m) + Count(builder.kids, m)
  <2> TAKE m \in Ids
  <2>1. Count(builder.kids, m) \in Nat /\ Count(builder'.kids, m) = 0
    BY <1>5, Terms, CountEmpty DEF IInv
  <2> QED
    BY <2>1
<1> QED
  BY <1>1, <1>2, <1>3, <1>5, <1>6, Allocated

-----------------------------------------------------------------------------
(***************************************************************************)
(* Calls of dec(), and what starts a batch.                                *)
(***************************************************************************)
\* Unreferenced nodes are in the batch or remain zombies.
LEMMA MarkFacts ==
  ASSUME NEW h, NEW new, reclaiming \in BOOLEAN, ~reclaiming, batch = {},
         MarkForDeletion(h, new)
  PROVE  /\ reclaiming' \in BOOLEAN /\ (~reclaiming' => batch' = {})
         /\ zombies' \subseteq zombies \cup new /\ batch' \subseteq zombies \cup new
         /\ \A m \in batch' : h[m].rc = 0 /\ m \notin zombies'
         /\ \A m \in zombies \cup new : h[m].rc = 0 => m \in zombies' \cup batch'
         /\ new = {} => UNCHANGED <<zombies, reclaiming, batch>>
<1>1. CASE StartReclaim(h, zombies \cup new) /\ new # {}
  BY <1>1 DEF StartReclaim, Batch
<1>2. CASE zombies' = zombies \cup new /\ UNCHANGED gc
  BY <1>2 DEF gc
<1> QED
  BY <1>1, <1>2 DEF MarkForDeletion

\* One call of dec() by the operation in progress.
LEMMA DecNextStep ==
  ASSUME IInv, instance' = instance, DecNext
  PROVE  IInv'
<1>1. /\ Types /\ Older /\ Bounded /\ Exact /\ Accounted /\ Kept /\ Quiet /\ Tracked
  BY DEF IInv
<1>2. PICK n : n = Head(decs)
  OBVIOUS
<1>3. PICK new : new = ZombiesOf(heap, <<n>>)
  OBVIOUS
<1>4. /\ ~reclaiming /\ decs # << >> /\ heap' = DecAll(heap, <<n>>)
      /\ MarkForDeletion(heap', new) /\ decs' = Tail(decs)
      /\ UNCHANGED <<nextId, pool, maxedOut, refs, after, phase, sort>>
  BY <1>2, <1>3 DEF DecNext
<1>5. UNCHANGED <<handles, builder, attrs>>
  BY <1>4 DEF refs
<1>6. decs \in Seq(Ids) /\ heap \in [DOMAIN heap -> Value] /\ DOMAIN heap \subseteq Ids
        /\ MaxRC \in Nat /\ MaxRC > 0
  BY <1>1, ConstantsAssumption DEF Types, HeapTypes, OpTypes
<1>7. /\ decs' \in Seq(Ids) /\ n \in Ids /\ n \in ToSet(decs)
      /\ ToSet(decs') \subseteq ToSet(decs)
      /\ \A m : Count(decs, m) = (IF n = m THEN 1 ELSE 0) + Count(decs', m)
  BY <1>2, <1>4, <1>6, CountTail
<1>8. n \in DOMAIN heap
  BY <1>1, <1>7, Held
<1>9. phase \in {"live", "dropping"}
  BY <1>1, <1>4 DEF Quiet, Types, SortTypes
<1>10. \A m \in DOMAIN heap : heap[m].rc \in 0..MaxRC
  BY <1>6 DEF Value
<1>11. <<n>> \in Seq(Ids) /\ \A m : Count(<<n>>, m) = IF n = m THEN 1 ELSE 0
  BY <1>7, CountSingle
<1>12. heap[n].rc < MaxRC => heap[n].rc >= 1 + Inside(n)
  <2>1. heap[n].rc < MaxRC => heap[n].rc = References(n)
    BY <1>1, <1>8 DEF Exact
  <2>2. Count(decs, n) > 0
    BY <1>6, <1>7, CountType
  <2>3. /\ handles[n] \in Nat /\ Count(builder.kids, n) \in Nat /\ Count(decs, n) \in Nat
        /\ InProgress(n) \in Nat /\ InProgress(n) >= Count(decs, n)
        /\ Cardinality(EntriesIn(attrs, n)) \in Nat
        /\ Inside(n) \in Nat /\ References(n) = Outside(n) + Inside(n)
    BY <1>1, <1>7, Terms
  <2>4. Outside(n) >= 1 /\ Outside(n) \in Nat
    BY <2>2, <2>3 DEF Outside
  <2>5. References(n) >= 1 + Inside(n)
    BY ONLY <2>3, <2>4
  <2> QED
    BY <2>1, <2>5
<1>13. Inside(n) \in Nat
  BY <1>1, <1>7, Terms
<1>14. \A m \in DOMAIN heap : heap[m].rc < MaxRC => Count(<<n>>, m) <= heap[m].rc
  BY <1>10, <1>11, <1>12, <1>13
<1>15. /\ Recounted(heap', heap)
       /\ \A m \in DOMAIN heap : heap'[m].rc =
             IF heap[m].rc < MaxRC THEN heap[m].rc - Count(<<n>>, m) ELSE heap[m].rc
  BY <1>4, <1>6, <1>11, <1>14, DecFacts
<1>16. \A m \in DOMAIN heap : m # n => heap'[m].rc = heap[m].rc
  BY <1>10, <1>11, <1>15
<1>17. heap'[n].rc = IF heap[n].rc < MaxRC THEN heap[n].rc - 1 ELSE heap[n].rc
  BY <1>8, <1>10, <1>11, <1>15
<1>18. \A m : m \in new <=> m = n /\ heap'[n].rc = 0
  <2>1. ToSet(<<n>>) = {n}
    BY DEF ToSet
  <2> QED
    BY <1>3, <1>4, <1>8, <2>1, ZombiesFacts
<1>19. batch = {} /\ zombies \subseteq DOMAIN heap
  BY <1>1, <1>4 DEF Accounted, Types, HeapTypes
<1>20. /\ reclaiming' \in BOOLEAN /\ (~reclaiming' => batch' = {})
       /\ zombies' \subseteq zombies \cup new /\ batch' \subseteq zombies \cup new
       /\ \A m \in batch' : heap'[m].rc = 0 /\ m \notin zombies'
       /\ \A m \in zombies \cup new : heap'[m].rc = 0 => m \in zombies' \cup batch'
       /\ new = {} => UNCHANGED <<zombies, reclaiming, batch>>
  BY <1>4, <1>19, MarkFacts, <1>1 DEF Types, HeapTypes
<1>21. zombies \cup new \subseteq DOMAIN heap
  BY <1>8, <1>18, <1>19
<1>22. maxedOut' \in Seq(Ids)
  BY <1>1, <1>4 DEF Types, HeapTypes
<1>23. SameNodes /\ HeapTypes' /\ (instance \in Instances)'
  BY <1>1, <1>4, <1>15, <1>20, <1>21, <1>22, RecountTypes
<1>24. RefTypes' /\ OpTypes' /\ SortTypes'
  <2>1. MaxArity' = MaxArity /\ DOMAIN heap' = DOMAIN heap
    BY <1>23 DEF SameNodes, MaxArity
  <2> QED
    BY <1>1, <1>4, <1>5, <1>7, <2>1 DEF Types, RefTypes, OpTypes, SortTypes, Ids, Nothing
<1>25. Older'
  BY <1>1, <1>4, <1>23, OlderSame
<1>26. Bounded'
  BY <1>1, <1>4, <1>5, ObjectsNow DEF Bounded, Ids
<1>27. Exact'
  <2> DEFINE d == [m \in Ids |-> IF m = n THEN -1 ELSE 0]
  <2>1. d \in [Ids -> Int] /\ \A m \in Ids : d[m] = IF m = n THEN -1 ELSE 0
    OBVIOUS
  <2> HIDE DEF d
  <2>2. ASSUME NEW m \in Ids  PROVE Outside(m)' = Outside(m) + d[m]
    <3>1. handles[m] \in Nat /\ Count(builder.kids, m) \in Nat /\ Count(decs, m) \in Nat
            /\ Cardinality(EntriesIn(attrs, m)) \in Nat
      BY <1>1, Terms
    <3>2. Count(decs', m) \in Nat
      BY <1>7, CountType
    <3>3. PICK x : x = IF after.kind = "store" /\ after.node = m THEN 1 ELSE 0
      OBVIOUS
    <3>4. x \in Nat /\ InProgress(m) = Count(decs, m) + x /\ InProgress(m)' = Count(decs', m) + x
      BY <1>4, <3>3 DEF InProgress
    <3>5. Outside(m) = handles[m] + Count(builder.kids, m) + (Count(decs, m) + x)
                         + Cardinality(EntriesIn(attrs, m))
      BY <3>4 DEF Outside
    <3>6. Outside(m)' = handles[m] + Count(builder.kids, m) + (Count(decs', m) + x)
                         + Cardinality(EntriesIn(attrs, m))
      BY <1>5, <3>4 DEF Outside
    <3>7. Count(decs, m) = Count(decs', m) - d[m]
      BY <1>7, <2>1, <3>1, <3>2
    <3>8. d[m] \in Int
      BY <2>1
    <3> QED
      BY ONLY <3>1, <3>2, <3>4, <3>5, <3>6, <3>7, <3>8
  <2>3. \A m \in DOMAIN heap : heap'[m].rc < MaxRC =>
            heap[m].rc < MaxRC /\ heap'[m].rc = heap[m].rc + d[m]
    <3> TAKE m \in DOMAIN heap
    <3>1. heap[m].rc \in 0..MaxRC /\ d[m] = IF m = n THEN -1 ELSE 0
      BY <1>6, <1>10, <2>1
    <3>2. CASE m = n
      BY <1>6, <1>17, <3>1, <3>2
    <3>3. CASE m # n
      BY <1>6, <1>16, <3>1, <3>3
    <3> QED
      BY <3>2, <3>3
  <2>4. \A m \in Ids : m \notin DOMAIN heap => d[m] = 0
    BY <1>8, <2>1
  <2> QED
    BY <1>1, <1>23, <2>1, <2>2, <2>3, <2>4, ExactSame
<1>28. Accounted'
  <2>1. \A m \in DOMAIN heap : heap'[m].rc = 0 => m \in zombies \cup new
    BY <1>1, <1>16, <1>18, <1>19 DEF Accounted
  <2> QED
    BY <1>20, <1>23, <2>1 DEF Accounted, SameNodes
<1>29. Kept'
  <2>1. ASSUME after.kind = "wrap", ~(handles[after.node] > 0)
        PROVE  ~reclaiming' /\ ToSet(decs') \subseteq Kids(after.node)'
    <3>1. after.node \in DOMAIN heap /\ ToSet(decs) \subseteq Kids(after.node)
      BY <1>1, <2>1 DEF Kept
    <3>2. Inside(n) > 0
      BY <1>1, <1>7, <3>1, ChildInside
    <3>3. heap'[n].rc > 0
      BY <1>6, <1>8, <1>10, <1>12, <1>13, <1>17, <3>2
    <3>4. new = {}
      BY <1>18, <3>3
    <3>5. Kids(after.node)' = Kids(after.node)
      BY <1>4, <1>23, <3>1 DEF SameNodes, Kids
    <3> QED
      BY <1>4, <1>7, <1>20, <3>1, <3>4, <3>5
  <2>2. DOMAIN heap' = DOMAIN heap /\ after' = after /\ handles' = handles /\ attrs' = attrs
    BY <1>4, <1>5, <1>23 DEF SameNodes
  <2> QED
    BY <1>1, <2>1, <2>2 DEF Kept, Kids
<1>30. Quiet'
  BY <1>1, <1>4, <1>5, <1>9 DEF Quiet, Ids
<1>31. Tracked'
  <2>1. \A m \in DOMAIN heap : heap'[m].rc = MaxRC <=> heap[m].rc = MaxRC
    BY <1>6, <1>8, <1>10, <1>16, <1>17
  <2>2. Maxed' = Maxed
    BY <1>23, <2>1 DEF Maxed, SameNodes
  <2> QED
    BY <1>1, <1>4, <1>9, <2>2, TrackedLive DEF Tracked
<1> QED
  BY <1>23, <1>24, <1>25, <1>26, <1>27, <1>28, <1>29, <1>30, <1>31 DEF IInv, Types

-----------------------------------------------------------------------------
(***************************************************************************)
(* The batch.                                                              *)
(***************************************************************************)
\* The order of the maxed-out nodes does not depend on what is freed.
LEMMA OrderedLess ==
  ASSUME Ordered, sort' = sort, DOMAIN heap' \subseteq DOMAIN heap,
         \A n \in DOMAIN heap' : heap'[n].kids = heap[n].kids
  PROVE  Ordered'
<1>1. \A n \in DOMAIN heap' : Kids(n)' = Kids(n)
  BY DEF Kids
<1>2. \A C : Downward(C) => Downward(C)'
  BY <1>1 DEF Downward
<1>3. \A C, i : Separates(C, i) => Separates(C, i)'
  BY <1>2 DEF Separates
<1> QED
  BY <1>3 DEF Ordered, Ids

\* The references that a freed node had to others.
LEMMA Freed ==
  ASSUME IInv, NEW n \in batch, instance' = instance, NEW g,
         UNCHANGED <<handles, builder, op>>,
         DOMAIN g = DOMAIN heap, \A m \in DOMAIN heap : g[m].kids = heap[m].kids,
         heap' = [m \in DOMAIN heap \ {n} |-> g[m]],
         attrs' = [m \in DOMAIN attrs \ {n} |-> attrs[m]], NEW m \in Ids
  PROVE  /\ Count(heap[n].kids \o AttributesOf(n), m) \in Nat
         /\ References(m) = References(m)' + Count(heap[n].kids \o AttributesOf(n), m)
         /\ References(m)' \in Nat
<1>1. /\ Types /\ Older /\ n \in DOMAIN heap /\ DOMAIN heap \subseteq Ids
      /\ heap \in [DOMAIN heap -> Value]
  BY DEF IInv, Types, HeapTypes
<1>2. heap[n].kids \in Seq(Ids) /\ AttributesOf(n) \in Seq(Ids)
  BY <1>1 DEF Types, RefTypes, AttributesOf, Value
<1>3. Count(heap[n].kids, m) \in Nat /\ Count(AttributesOf(n), m) \in Nat
  BY <1>2, CountType
<1>4. Count(heap[n].kids \o AttributesOf(n), m)
        = Count(heap[n].kids, m) + Count(AttributesOf(n), m)
  BY <1>2, CountConcat
<1>5. IsFiniteSet(DOMAIN attrs)
  BY <1>1, HeapFinite DEF Types, RefTypes
<1>6. Cardinality(EntriesIn(attrs, m))
        = Cardinality(EntriesIn(attrs', m)) + Count(AttributesOf(n), m)
  <2>1. attrs' = Without(attrs, n) /\ AttributesOf(n) = ValueAt(attrs, n)
    BY DEF Without, AttributesOf, ValueAt
  <2>2. Cardinality(EntriesIn(attrs, m))
          = Cardinality(EntriesIn(Without(attrs, n), m)) + Count(ValueAt(attrs, n), m)
    BY <1>5, EntriesLess
  <2> QED
    BY <2>1, <2>2
<1>7. MaxArity \in Nat /\ MaxArity' = MaxArity
  BY <1>1, Bounds DEF Types, MaxArity
<1>8. PICK h : h = heap'
  OBVIOUS
<1>9. DOMAIN h = DOMAIN heap \ {n} /\ \A k \in DOMAIN h : heap[k].kids = h[k].kids
  BY <1>8
<1>10. IsFiniteSet(DOMAIN h)
  BY <1>1, <1>9, HeapFinite
<1>11. \A k \in DOMAIN heap : heap[k].kids \in Seq(Ids) /\ Len(heap[k].kids) <= MaxArity
  BY <1>1 DEF Value, Older
<1>12. Inside(m) = Inside(m)' + Count(heap[n].kids, m)
  <2>1. n \notin DOMAIN h /\ DOMAIN heap = DOMAIN h \cup {n}
    BY <1>1, <1>9
  <2>2. \A k \in DOMAIN h : heap[k].kids = h[k].kids
    BY <1>9
  <2>3. Cardinality(PlacesIn(heap, MaxArity, m))
          = Cardinality(PlacesIn(h, MaxArity, m)) + Count(heap[n].kids, m)
    BY ONLY <1>7, <1>10, <1>11, <2>1, <2>2, PlacesMore
  <2> QED
    BY <1>7, <1>8, <2>3 DEF Inside
<1>13. Inside(m)' \in Nat
  <2>1. \A k \in DOMAIN h : h[k].kids \in Seq(Ids) /\ Len(h[k].kids) <= MaxArity
    BY <1>9, <1>11
  <2>2. Cardinality(PlacesIn(h, MaxArity, m)) \in Nat
    BY ONLY <1>7, <1>10, <2>1, PlacesType
  <2> QED
    BY <1>7, <1>8, <2>2 DEF Inside
<1>14. Cardinality(EntriesIn(attrs', m)) \in Nat
  <2>1. DOMAIN attrs' \in SUBSET DOMAIN attrs
    OBVIOUS
  <2>2. IsFiniteSet(DOMAIN attrs')
    BY ONLY <1>5, <2>1, FS_Subset
  <2> QED
    BY ONLY <2>2, EntriesType
<1>15. InProgress(m)' = InProgress(m)
  BY DEF InProgress, op
<1>16. handles[m] \in Nat /\ Count(builder.kids, m) \in Nat /\ InProgress(m) \in Nat
  BY <1>1, Terms
<1>17. Outside(m) = handles[m] + Count(builder.kids, m) + InProgress(m)
                      + Cardinality(EntriesIn(attrs, m))
  BY DEF Outside
<1>18. Outside(m)' = handles[m] + Count(builder.kids, m) + InProgress(m)
                      + Cardinality(EntriesIn(attrs', m))
  BY <1>15 DEF Outside
<1>19. Outside(m)' \in Nat /\ Outside(m) = Outside(m)' + Count(AttributesOf(n), m)
  BY ONLY <1>3, <1>6, <1>14, <1>16, <1>17, <1>18
<1>20. References(m) = Outside(m) + Inside(m) /\ References(m)' = Outside(m)' + Inside(m)'
  BY DEF References, Outside, Inside, Entries, EntriesIn, Places, PlacesIn
<1> QED
  BY ONLY <1>3, <1>4, <1>12, <1>13, <1>19, <1>20

\* Freeing an unreferenced node.
LEMMA ReclaimStep ==
  ASSUME IInv, instance' = instance, NEW n \in Ids, Reclaim(n)
  PROVE  IInv'
<1>1. /\ Types /\ Older /\ Bounded /\ Exact /\ Accounted /\ Kept /\ Quiet /\ Tracked
  BY DEF IInv
<1>2. /\ reclaiming /\ n \in batch /\ batch' = batch \ {n}
      /\ UNCHANGED <<nextId, maxedOut, handles, builder, reclaiming, op, phase, sort>>
  BY DEF Reclaim, ReclaimRound
<1>3. n \in DOMAIN heap /\ heap[n].rc = 0 /\ n \notin zombies
  BY <1>1, <1>2 DEF Types, HeapTypes, Accounted
<1>4. PICK gone : gone = heap[n].kids \o AttributesOf(n)
  OBVIOUS
<1>5. PICK g : g = DecAll(heap, gone)
  OBVIOUS
<1>6. /\ heap' = [m \in DOMAIN heap \ {n} |-> g[m]]
      /\ zombies' = zombies \cup ZombiesOf(heap, gone)
      /\ pool' = pool \ {n} /\ attrs' = [m \in DOMAIN attrs \ {n} |-> attrs[m]]
  BY <1>3, <1>4, <1>5 DEF Reclaim, ReclaimRound
<1>7. heap \in [DOMAIN heap -> Value] /\ DOMAIN heap \subseteq Ids
        /\ MaxRC \in Nat /\ MaxRC > 0
  BY <1>1, ConstantsAssumption DEF Types, HeapTypes
<1>8. gone \in Seq(Ids)
  <2>1. heap[n].kids \in Seq(Ids) /\ AttributesOf(n) \in Seq(Ids)
    BY <1>1, <1>3, <1>7 DEF Types, RefTypes, AttributesOf, Value
  <2> QED
    BY <1>4, <2>1
<1>9. DOMAIN g = DOMAIN heap /\ \A m \in DOMAIN heap : g[m].kids = heap[m].kids
  <2>1. \A m \in DOMAIN heap : heap[m] \in Value
    BY <1>7
  <2> QED
    BY <1>5, <2>1 DEF DecAll, Value
<1>10. \A m \in Ids : /\ Count(gone, m) \in Nat /\ References(m)' \in Nat
                      /\ References(m) = References(m)' + Count(gone, m)
  <2> TAKE m \in Ids
  <2>1. UNCHANGED <<handles, builder, op>>
    BY <1>2
  <2> QED
    BY <1>2, <1>4, <1>6, <1>9, <2>1, Freed
<1>11. \A m \in DOMAIN heap : heap[m].rc \in 0..MaxRC
  BY <1>7 DEF Value
<1>12. \A m \in DOMAIN heap : heap[m].rc < MaxRC => heap[m].rc = References(m)
  BY <1>1 DEF Exact
<1>13. \A m \in DOMAIN heap : heap[m].rc < MaxRC => Count(gone, m) <= heap[m].rc
  BY <1>7, <1>10, <1>12
<1>14. /\ Recounted(g, heap)
       /\ \A m \in DOMAIN heap : g[m].rc =
             IF heap[m].rc < MaxRC THEN heap[m].rc - Count(gone, m) ELSE heap[m].rc
  BY <1>5, <1>7, <1>8, <1>13, DecFacts
<1>15. References(n) = 0
  BY <1>3, <1>7, <1>12
<1>16. \A m \in ZombiesOf(heap, gone) :
          m \in DOMAIN heap /\ Count(gone, m) > 0 /\ References(m) > 0 /\ g[m].rc = 0
  <2> TAKE m \in ZombiesOf(heap, gone)
  <2>1. m \in DOMAIN heap /\ m \in ToSet(gone) /\ g[m].rc = 0
    BY <1>5, ZombiesFacts
  <2>2. Count(gone, m) > 0
    BY <1>8, <2>1, CountType
  <2> QED
    BY <1>7, <1>10, <2>1, <2>2
<1>17. /\ DOMAIN heap' = DOMAIN heap \ {n}
       /\ \A m \in DOMAIN heap' : heap'[m] = g[m] /\ heap'[m].kids = heap[m].kids
       /\ heap' \in [DOMAIN heap' -> Value]
  <2>1. g \in [DOMAIN heap -> Value]
    BY <1>14 DEF Recounted
  <2> QED
    BY <1>6, <1>9, <2>1
<1>18. HeapTypes'
  <2>1. Value' = Value /\ Ids' = Ids
    BY DEF Value, Kinds, Constants, Ids
  <2>2. zombies' \subseteq DOMAIN heap'
    BY <1>1, <1>3, <1>6, <1>15, <1>16, <1>17 DEF Types, HeapTypes
  <2>3. pool' \subseteq DOMAIN heap' /\ batch' \subseteq DOMAIN heap'
    BY <1>1, <1>2, <1>6, <1>17 DEF Types, HeapTypes
  <2> QED
    BY <1>1, <1>2, <1>7, <1>17, <2>1, <2>2, <2>3 DEF Types, HeapTypes
<1>19. /\ DOMAIN attrs' = DOMAIN attrs \ {n} /\ attrs' \in [DOMAIN attrs' -> Ids]
       /\ DOMAIN attrs' \subseteq DOMAIN heap'
  BY <1>1, <1>6, <1>17 DEF Types, RefTypes
<1>20. RefTypes' /\ OpTypes' /\ SortTypes' /\ (instance \in Instances)'
  <2>1. MaxArity' = MaxArity /\ decs' = decs /\ after' = after
    BY <1>2 DEF MaxArity, op
  <2> QED
    BY <1>1, <1>2, <1>19, <2>1 DEF Types, RefTypes, OpTypes, SortTypes, Ids, Nothing
<1>21. \A m \in DOMAIN heap' : Kids(m)' = Kids(m)
  BY <1>17 DEF Kids
<1>22. Older'
  <2>1. MaxArity' = MaxArity
    BY DEF MaxArity
  <2> QED
    BY <1>1, <1>2, <1>17, <1>21, <2>1 DEF Older
<1>23. Bounded'
  BY <1>1, <1>2, ObjectsNow DEF Bounded, Ids, op
<1>24. Exact'
  <2>1. ASSUME NEW m \in DOMAIN heap', heap'[m].rc < MaxRC  PROVE heap'[m].rc = References(m)'
    <3>1. m \in DOMAIN heap /\ m \in Ids /\ heap[m].rc \in 0..MaxRC
      BY <1>7, <1>11, <1>17, <2>1
    <3>2. heap[m].rc < MaxRC /\ heap'[m].rc = heap[m].rc - Count(gone, m)
      BY <1>7, <1>14, <1>17, <2>1, <3>1
    <3>3. heap[m].rc = References(m)
      BY <1>12, <3>1, <3>2
    <3> QED
      BY <1>10, <3>1, <3>2, <3>3
  <2>2. ASSUME NEW m \in Ids, m \notin DOMAIN heap'  PROVE References(m)' = 0
    <3>1. References(m) = 0
      BY <1>1, <1>15, <1>17, <2>2 DEF Exact
    <3> QED
      BY <1>10, <3>1
  <2> QED
    BY <2>1, <2>2 DEF Exact, Ids
<1>25. Accounted'
  <2>1. ASSUME NEW m \in batch'  PROVE heap'[m].rc = 0 /\ m \notin zombies'
    <3>1. m \in batch /\ m # n /\ m \in DOMAIN heap /\ m \in Ids /\ m \in DOMAIN heap'
      BY <1>1, <1>2, <1>17 DEF Types, HeapTypes
    <3>2. heap[m].rc = 0 /\ m \notin zombies
      BY <1>1, <3>1 DEF Accounted
    <3>3. References(m) = 0
      BY <1>7, <1>12, <3>1, <3>2
    <3>4. Count(gone, m) = 0
      BY <1>10, <3>1, <3>3
    <3>5. m \notin ZombiesOf(heap, gone)
      BY <1>16, <3>3
    <3> QED
      BY <1>6, <1>7, <1>14, <1>17, <3>1, <3>2, <3>4, <3>5
  <2>2. ASSUME NEW m \in DOMAIN heap', heap'[m].rc = 0  PROVE m \in zombies' \cup batch'
    <3>1. m \in DOMAIN heap /\ m # n /\ m \in Ids /\ g[m].rc = 0
      BY <1>7, <1>17, <2>2
    <3>2. CASE Count(gone, m) = 0
      <4>1. heap[m].rc = 0
        BY <1>7, <1>11, <1>14, <3>1, <3>2
      <4> QED
        BY <1>1, <1>2, <1>6, <3>1, <4>1 DEF Accounted
    <3>3. CASE Count(gone, m) # 0
      <4>1. m \in ToSet(gone)
        <5>1. Count(gone, m) > 0
          BY <1>10, <3>1, <3>3
        <5>2. Count(gone, m) > 0 <=> m \in ToSet(gone)
          BY ONLY <1>8, CountType
        <5> QED
          BY <5>1, <5>2
      <4> QED
        BY <1>5, <1>6, <3>1, <4>1, ZombiesFacts
    <3> QED
      BY <3>2, <3>3
  <2> QED
    BY <1>2, <2>1, <2>2 DEF Accounted
<1>26. Kept'
  <2>1. \A m \in Ids : handles[m] > 0 => m # n
    BY <1>1, <1>3, ObjectCounts
  <2>2. decs' = decs /\ after' = after /\ handles' = handles
    BY <1>2 DEF op
  <2>3. ASSUME after.kind = "wrap"  PROVE after.node \in DOMAIN heap' /\ handles[after.node] > 0
    <3>1. after.node \in DOMAIN heap /\ handles[after.node] > 0
      BY <1>1, <1>2, <2>3 DEF Kept
    <3> QED
      BY <1>7, <1>17, <2>1, <3>1
  <2> QED
    BY <1>1, <1>19, <2>2, <2>3 DEF Kept
<1>27. Quiet'
  <2>1. attrs = << >> => attrs' = << >>
    BY <1>6
  <2> QED
    BY <1>1, <1>2, <2>1 DEF Quiet, Ids, op
<1>28. Tracked'
  <2>1. ASSUME NEW m \in DOMAIN heap'  PROVE heap'[m].rc = MaxRC <=> heap[m].rc = MaxRC
    <3>1. m \in DOMAIN heap /\ m \in Ids /\ heap[m].rc \in 0..MaxRC /\ Count(gone, m) \in Nat
      BY <1>7, <1>10, <1>11, <1>17
    <3> QED
      BY <1>7, <1>14, <1>17, <3>1
  <2>2. Maxed' = Maxed
    BY <1>3, <1>7, <1>17, <2>1 DEF Maxed
  <2>3. phase \notin {"sorting", "gone"}
    BY <1>1, <1>2 DEF Quiet
  <2>4. Ordered => Ordered'
    BY <1>2, <1>17, OrderedLess
  <2> QED
    BY <1>1, <1>2, <2>2, <2>3, <2>4 DEF Tracked, NoSort
<1> QED
  BY <1>18, <1>20, <1>22, <1>23, <1>24, <1>25, <1>26, <1>27, <1>28 DEF IInv, Types

\* What is tracked depends on the heap, the record and the search alone.
LEMMA TrackedSame ==
  ASSUME Tracked, UNCHANGED <<heap, maxedOut, phase, sort>>
  PROVE  Tracked'
<1>1. Maxed' = Maxed /\ Open' = Open /\ Finished' = Finished /\ Ids' = Ids
  BY DEF Maxed, Open, Finished, Ids
<1>2. \A n : Kids(n)' = Kids(n)
  BY DEF Kids
<1>3. \A C, i : Separates(C, i)' <=> Separates(C, i)
  BY <1>2 DEF Separates, Downward
<1>4. Ordered' <=> Ordered
  BY <1>1, <1>3 DEF Ordered
<1>5. Searching => Searching'
  BY <1>1, <1>2, <1>3 DEF Searching
<1> QED
  BY <1>1, <1>4, <1>5 DEF Tracked

\* The end of a batch.
LEMMA EndReclaimStep ==
  ASSUME IInv, instance' = instance, EndReclaim
  PROVE  IInv'
<1>1. /\ Types /\ Older /\ Bounded /\ Exact /\ Accounted /\ Kept /\ Quiet /\ Tracked
  BY DEF IInv
<1>2. /\ reclaiming /\ batch = {} /\ reclaiming' = FALSE
      /\ UNCHANGED <<heap, nextId, pool, zombies, maxedOut, handles, builder, attrs>>
      /\ UNCHANGED <<batch, decs, after, phase, sort>>
  BY DEF EndReclaim, mem, refs, op
<1>3. Value' = Value /\ Ids' = Ids /\ MaxArity' = MaxArity
  BY DEF Value, Kinds, Constants, Ids, MaxArity
<1>4. Types'
  BY <1>1, <1>2, <1>3 DEF Types, HeapTypes, RefTypes, OpTypes, SortTypes, Nothing
<1>5. Older' /\ Bounded' /\ Accounted'
  BY <1>1, <1>2, <1>3, ObjectsNow DEF Older, Kids, Bounded, Accounted
<1>6. \A n : References(n)' = References(n)
  BY <1>2, <1>3 DEF References, Entries, Places, InProgress
<1>7. Exact'
  BY <1>1, <1>2, <1>3, <1>6 DEF Exact
<1>8. Kept'
  BY <1>1, <1>2 DEF Kept, Kids
<1>9. Quiet'
  BY <1>1, <1>2, <1>3 DEF Quiet
<1>10. Tracked'
  BY <1>1, <1>2, TrackedSame
<1> QED
  BY <1>4, <1>5, <1>7, <1>8, <1>9, <1>10 DEF IInv

-----------------------------------------------------------------------------
(***************************************************************************)
(* The destructor.                                                         *)
(***************************************************************************)
\* As many objects of a node as its number says.
LEMMA ObjectsOfNode ==
  ASSUME NEW f \in [Ids -> 0..MaxHandles], NEW n \in Ids
  PROVE  Cardinality({p \in ObjectsOf(f) : p[1] = n}) = f[n]
<1> DEFINE X == {p \in ObjectsOf(f) : p[1] = n}
           c == [i \in 1..f[n] |-> <<n, i>>]
<1>1. MaxHandles \in Nat /\ f[n] \in 0..MaxHandles
  BY ConstantsAssumption
<1>2. 1 \in Int /\ f[n] \in Int
  BY <1>1
<1>3. IsFiniteSet(1..f[n]) /\ Cardinality(1..f[n]) = f[n]
  BY <1>1, <1>2, FS_Interval
<1>4. \A i \in 1..f[n] : <<n, i>> \in X
  BY <1>1 DEF ObjectsOf
<1>5. \A p \in X : p = <<n, p[2]>> /\ p[2] \in 1..f[n]
  BY <1>1 DEF ObjectsOf
<1>6. c \in Bijection(1..f[n], X)
  <2> HIDE DEF X
  <2>1. c \in [1..f[n] -> X]
    BY <1>4
  <2>2. \A x \in X : \E i \in 1..f[n] : c[i] = x
    BY <1>5
  <2>3. \A i, j \in 1..f[n] : c[i] = c[j] => i = j
    OBVIOUS
  <2> QED
    BY <2>1, <2>2, <2>3 DEF Bijection, Injection, Surjection, IsInjective
<1> QED
  BY <1>3, <1>6, FS_Bijection DEF ExistsBijection

\* The calls of dec() that the destructor makes for its own Node objects.
LEMMA OwnReleased ==
  ASSUME NEW f \in [Ids -> 0..MaxHandles], NEW own \in SetToSeqs(ObjectsOf(f)), NEW s,
         s = [i \in DOMAIN own |-> own[i][1]], NEW n \in Ids
  PROVE  s \in Seq(Ids) /\ Count(s, n) = f[n]
<1>1. PICK S : S = ObjectsOf(f)
  OBVIOUS
<1>2. IsFiniteSet(S)
  BY <1>1, ObjectsFinite
<1>3. /\ own \in [1..Cardinality(S) -> S]
      /\ \A i, j \in 1..Cardinality(S) : own[i] = own[j] => i = j
  BY <1>1 DEF SetToSeqs
<1>4. PICK v : v = [p \in S |-> p[1]]
  OBVIOUS
<1>5. DOMAIN v = S /\ \A p \in S : v[p] = p[1] /\ v[p] \in Ids
  BY <1>1, <1>4 DEF ObjectsOf
<1>6. s = Listed(own, v)
  BY <1>3, <1>5 DEF Listed
<1>7. IsFiniteSet(DOMAIN v) /\ Lists(own, DOMAIN v) /\ \A p \in DOMAIN v : v[p] \in Ids
  BY <1>2, <1>3, <1>5 DEF Lists
<1>8. Listed(own, v) \in Seq(Ids) /\ Count(Listed(own, v), n) = Cardinality(EntriesIn(v, n))
  BY ONLY <1>7, CountListed
<1>9. EntriesIn(v, n) = {p \in ObjectsOf(f) : p[1] = n}
  BY <1>1, <1>5 DEF EntriesIn
<1>10. Cardinality({p \in ObjectsOf(f) : p[1] = n}) = f[n]
  BY ObjectsOfNode
<1> QED
  BY <1>6, <1>8, <1>9, <1>10

\* The values of the attribute table, listed.
LEMMA ValuesListed ==
  ASSUME NEW t, IsFiniteSet(DOMAIN t), \A k \in DOMAIN t : t[k] \in Ids, NEW c,
         c = SetToSeq(DOMAIN t), NEW s, s = [i \in DOMAIN c |-> t[c[i]]], NEW n
  PROVE  s \in Seq(Ids) /\ Count(s, n) = Cardinality(EntriesIn(t, n))
<1>1. PICK S : S = DOMAIN t
  OBVIOUS
<1>2. IsFiniteSet(S) /\ DOMAIN t = S /\ \A k \in S : t[k] \in Ids
  BY <1>1
<1>3. \E f \in [1..Cardinality(S) -> S] : IsInjective(f)
  BY <1>2, FS_CardinalityType DEF ExistsBijection, Bijection, Injection
<1>4. c \in [1..Cardinality(S) -> S] /\ IsInjective(c)
  BY <1>1, <1>3 DEF SetToSeq
<1>5. Lists(c, DOMAIN t)
  BY <1>1, <1>4 DEF IsInjective, Lists
<1>6. Listed(c, t) \in Seq(Ids) /\ Count(Listed(c, t), n) = Cardinality(EntriesIn(t, n))
  BY <1>5, CountListed
<1> QED
  BY <1>6 DEF Listed

\* The destructor clears the attributes and lets go of its own Node objects.
LEMMA DestroyStep ==
  ASSUME IInv, instance' = instance, Destroy
  PROVE  IInv'
<1>1. /\ Types /\ Older /\ Bounded /\ Exact /\ Accounted /\ Kept /\ Quiet /\ Tracked
  BY DEF IInv
<1>2. PICK values : values = SetToSeq(DOMAIN attrs)
  OBVIOUS
<1>3. PICK gone : gone = [i \in DOMAIN values |-> attrs[values[i]]]
  OBVIOUS
<1>4. /\ Ready /\ ~builder.open /\ heap' = DecAll(heap, gone)
      /\ zombies' = zombies \cup ZombiesOf(heap, gone) /\ attrs' = << >>
      /\ handles' = [n \in Ids |-> 0] /\ phase' = "dropping"
      /\ UNCHANGED <<nextId, pool, maxedOut, builder, gc, after, sort>>
  BY <1>2, <1>3 DEF Destroy
<1>5. PICK own \in SetToSeqs(ObjectsOf(handles)) : decs' = [i \in DOMAIN own |-> own[i][1]]
  BY ObjectsNow DEF Destroy
<1>6. handles \in [Ids -> 0..MaxHandles]
  BY <1>1 DEF Bounded
<1>7. \A n \in Ids : decs' \in Seq(Ids) /\ Count(decs', n) = handles[n]
  BY <1>5, <1>6, OwnReleased
<1>8. attrs \in [DOMAIN attrs -> Ids] /\ IsFiniteSet(DOMAIN attrs)
  BY <1>1, HeapFinite DEF Types, RefTypes, HeapTypes
<1>9. \A n : gone \in Seq(Ids) /\ Count(gone, n) = Cardinality(EntriesIn(attrs, n))
  <2> TAKE n
  <2>1. \A k \in DOMAIN attrs : attrs[k] \in Ids
    BY <1>8
  <2> QED
    BY <1>2, <1>3, <1>8, <2>1, ValuesListed
<1>10. heap \in [DOMAIN heap -> Value] /\ DOMAIN heap \subseteq Ids
         /\ MaxRC \in Nat /\ MaxRC > 0
  BY <1>1, ConstantsAssumption DEF Types, HeapTypes
<1>11. decs' \in Seq(Ids)
  <2>1. CASE Ids # {}
    BY <1>7, <2>1
  <2>2. CASE Ids = {}
    <3>1. ObjectsOf(handles) = {}
      BY <2>2 DEF ObjectsOf
    <3>2. Cardinality({}) = 0
      BY FS_EmptySet
    <3>3. DOMAIN own = 1..0
      BY <3>1, <3>2 DEF SetToSeqs
    <3>4. decs' = << >>
      BY <1>5, <3>3
    <3> QED
      BY <3>4
  <2> QED
    BY <2>1, <2>2
<1>12. decs = << >> /\ after = Nothing /\ after' = Nothing /\ ~reclaiming /\ batch = {}
         /\ phase = "live" /\ after.kind = "nothing"
  BY <1>1, <1>4 DEF Ready, Idle, Nothing, Accounted
<1>13. builder.kids = << >>
  BY <1>1, <1>4 DEF Types, RefTypes
<1>14. ASSUME NEW n \in Ids
       PROVE  /\ Outside(n) = handles[n] + Count(gone, n)
              /\ Outside(n)' = handles[n] /\ handles[n] \in Nat /\ Count(gone, n) \in Nat
  <2>1. handles[n] \in Nat /\ Count(gone, n) \in Nat
    BY <1>1, <1>9, Terms
  <2>2. Count(<< >>, n) = 0
    BY CountEmpty
  <2>3. InProgress(n) = 0 /\ InProgress(n)' = handles[n]
    BY <1>7, <1>12, <2>1, <2>2 DEF InProgress
  <2>4. Cardinality(EntriesIn(attrs', n)) = 0
    <3>1. EntriesIn(attrs', n) = {}
      BY <1>4 DEF EntriesIn
    <3> QED
      BY <3>1, FS_EmptySet
  <2>5. Outside(n) = handles[n] + 0 + 0 + Count(gone, n)
    BY <1>9, <1>13, <2>2, <2>3 DEF Outside
  <2>6. Outside(n)' = 0 + 0 + handles[n] + 0
    BY <1>4, <1>13, <2>2, <2>3, <2>4 DEF Outside
  <2> QED
    BY ONLY <2>1, <2>5, <2>6
<1>15. \A n \in DOMAIN heap : heap[n].rc \in 0..MaxRC
  BY <1>10 DEF Value
<1>16. ASSUME NEW n \in DOMAIN heap, heap[n].rc < MaxRC  PROVE Count(gone, n) <= heap[n].rc
  <2>1. n \in Ids /\ heap[n].rc = References(n)
    BY <1>1, <1>10, <1>16 DEF Exact
  <2>2. References(n) = Outside(n) + Inside(n) /\ Inside(n) \in Nat
    BY <1>1, <2>1, Terms
  <2> QED
    BY <1>14, <2>1, <2>2
<1>17. gone \in Seq(Ids)
  BY <1>9
<1>18. /\ Recounted(heap', heap)
       /\ \A n \in DOMAIN heap : heap'[n].rc =
             IF heap[n].rc < MaxRC THEN heap[n].rc - Count(gone, n) ELSE heap[n].rc
  BY <1>4, <1>10, <1>16, <1>17, DecFacts
<1>19. \A n \in ZombiesOf(heap, gone) : n \in DOMAIN heap
  BY DEF ZombiesOf
<1>20. SameNodes /\ HeapTypes' /\ (instance \in Instances)'
  <2>1. UNCHANGED <<instance, nextId, pool>>
    BY <1>4
  <2>2. zombies' \subseteq DOMAIN heap
    BY <1>1, <1>4, <1>19 DEF Types, HeapTypes
  <2>3. batch' \subseteq DOMAIN heap /\ reclaiming' \in BOOLEAN /\ maxedOut' \in Seq(Ids)
    BY <1>1, <1>4 DEF Types, HeapTypes, gc
  <2> QED
    BY <1>1, <1>18, <2>1, <2>2, <2>3, RecountTypes
<1>21. MaxArity' = MaxArity
  BY DEF MaxArity
<1>22. RefTypes' /\ OpTypes' /\ SortTypes'
  <2>1. handles' \in [Ids -> Nat]
    BY <1>4
  <2>2. attrs' \in [DOMAIN attrs' -> Ids] /\ DOMAIN attrs' \subseteq DOMAIN heap'
    BY <1>4
  <2>3. RefTypes'
    BY <1>1, <1>4, <1>21, <2>1, <2>2 DEF Types, RefTypes, Ids
  <2>4. OpTypes'
    BY <1>11, <1>12 DEF OpTypes, Nothing, Ids
  <2> QED
    BY <1>1, <1>4, <2>3, <2>4 DEF Types, SortTypes, Ids
<1>23. Older'
  BY <1>1, <1>4, <1>20, OlderSame
<1>24. Bounded'
  <2>1. MaxHandles \in Nat
    BY ConstantsAssumption
  <2>2. handles' \in [Ids -> 0..MaxHandles]
    BY <1>4, <2>1
  <2>3. ObjectsOf(handles') = {}
    BY <1>4, <2>1 DEF ObjectsOf
  <2>4. Cardinality(Objects)' = 0
    BY <2>3, ObjectsNow, FS_EmptySet
  <2> QED
    BY <1>12, <2>1, <2>2, <2>4 DEF Bounded, Ids
<1>25. Exact'
  <2> DEFINE d == [n \in Ids |-> -Count(gone, n)]
  <2>1. d \in [Ids -> Int] /\ \A n \in Ids : d[n] = -Count(gone, n)
    BY <1>14
  <2> HIDE DEF d
  <2>2. \A n \in Ids : Outside(n)' = Outside(n) + d[n]
    BY <1>14, <2>1
  <2>3. ASSUME NEW n \in DOMAIN heap, heap'[n].rc < MaxRC
        PROVE  heap[n].rc < MaxRC /\ heap'[n].rc = heap[n].rc + d[n]
    <3>1. n \in Ids /\ Count(gone, n) \in Nat /\ heap[n].rc \in 0..MaxRC
      BY <1>10, <1>14, <1>15
    <3>2. heap[n].rc < MaxRC /\ heap'[n].rc = heap[n].rc - Count(gone, n)
      BY <1>10, <1>18, <2>3, <3>1
    <3> QED
      BY <2>1, <3>1, <3>2
  <2>4. ASSUME NEW n \in Ids, n \notin DOMAIN heap  PROVE d[n] = 0
    <3>1. References(n) = 0 /\ References(n) = Outside(n) + Inside(n) /\ Inside(n) \in Nat
      BY <1>1, <2>4, Terms DEF Exact
    <3> QED
      BY <1>14, <2>1, <3>1
  <2> QED
    BY <1>1, <1>20, <2>1, <2>2, <2>3, <2>4, ExactSame
<1>26. Accounted'
  <2>1. batch' = {} /\ DOMAIN heap' = DOMAIN heap
    BY <1>4, <1>12, <1>20 DEF gc, SameNodes
  <2>2. ASSUME NEW n \in DOMAIN heap, heap'[n].rc = 0  PROVE n \in zombies'
    <3>1. n \in Ids /\ Count(gone, n) \in Nat /\ heap[n].rc \in 0..MaxRC
      BY <1>10, <1>14, <1>15
    <3>2. CASE Count(gone, n) = 0
      <4>1. heap[n].rc = 0
        BY <1>10, <1>18, <2>2, <3>1, <3>2
      <4> QED
        BY <1>1, <1>4, <1>12, <4>1 DEF Accounted
    <3>3. CASE Count(gone, n) # 0
      <4>1. Count(gone, n) > 0
        BY <3>1, <3>3
      <4>2. Count(gone, n) > 0 <=> n \in ToSet(gone)
        BY ONLY <1>17, CountType
      <4> QED
        BY <1>4, <2>2, <4>1, <4>2, ZombiesFacts
    <3> QED
      BY <3>2, <3>3
  <2> QED
    BY <2>1, <2>2 DEF Accounted
<1>27. Kept'
  BY <1>12 DEF Kept
<1>28. Quiet'
  BY <1>4, <1>12 DEF Quiet, Ids
<1>29. Tracked'
  <2>1. ASSUME NEW n \in DOMAIN heap  PROVE heap'[n].rc = MaxRC <=> heap[n].rc = MaxRC
    <3>1. n \in Ids /\ Count(gone, n) \in Nat /\ heap[n].rc \in 0..MaxRC
      BY <1>10, <1>14, <1>15
    <3> QED
      BY <1>10, <1>18, <3>1
  <2>2. Maxed' = Maxed
    BY <1>20, <2>1 DEF Maxed, SameNodes
  <2> QED
    BY <1>1, <1>4, <1>12, <2>2, TrackedLive DEF Tracked
<1> QED
  BY <1>20, <1>22, <1>23, <1>24, <1>25, <1>26, <1>27, <1>28, <1>29 DEF IInv, Types

-----------------------------------------------------------------------------
(***************************************************************************)
(* The search for an order of the maxed-out nodes.                         *)
(***************************************************************************)
\* A step of the destructor that does not touch the heap.
LEMMA DestructorStep ==
  ASSUME IInv, instance' = instance,
         UNCHANGED <<heap, nextId, pool, zombies, refs, gc, op>>,
         maxedOut' \in Seq(Ids), SortTypes', Quiet', Tracked'
  PROVE  IInv'
<1>1. /\ Types /\ Older /\ Bounded /\ Exact /\ Accounted /\ Kept /\ Quiet /\ Tracked
  BY DEF IInv
<1>2. UNCHANGED <<handles, builder, attrs, reclaiming, batch, decs, after>>
  BY DEF refs, gc, op
<1>3. UNCHANGED heap /\ UNCHANGED nextId /\ UNCHANGED pool /\ UNCHANGED zombies
  OBVIOUS
<1>4. MaxArity' = MaxArity /\ Value' = Value /\ Ids' = Ids
  BY DEF MaxArity, Value, Kinds, Constants, Ids
<1>5. Types'
  <2>1. HeapTypes' /\ (instance \in Instances)'
    BY <1>1, <1>2, <1>3, <1>4 DEF Types, HeapTypes
  <2>2. RefTypes' /\ OpTypes'
    BY <1>1, <1>2, <1>3, <1>4 DEF Types, RefTypes, OpTypes, Nothing
  <2> QED
    BY <2>1, <2>2 DEF Types
<1>6. SameNodes
  BY <1>3 DEF SameNodes
<1>7. Older'
  BY <1>1, <1>3, <1>6, OlderSame
<1>8. Bounded'
  BY <1>1, <1>2, ObjectsNow DEF Bounded, Ids
<1>9. \A n : References(n)' = References(n)
  BY <1>2, <1>3, <1>4 DEF References, InProgress, Entries, Places, Count
<1>10. Exact'
  BY <1>1, <1>3, <1>4, <1>9 DEF Exact
<1>11. Accounted' /\ Kept'
  BY <1>1, <1>2, <1>3 DEF Accounted, Kept, Kids
<1> QED
  BY <1>5, <1>7, <1>8, <1>10, <1>11 DEF IInv

\* The search starts from the record of the maxed-out nodes.
LEMMA StartSortStep ==
  ASSUME IInv, instance' = instance, StartSort
  PROVE  IInv'
<1>1. /\ Types /\ Quiet /\ Tracked /\ ToSet(maxedOut) = Maxed
      /\ phase = "dropping" /\ Idle /\ maxedOut' = << >> /\ phase' = "sorting"
      /\ UNCHANGED <<heap, nextId, pool, zombies, refs, gc, op>>
  BY DEF IInv, StartSort, Tracked
<1>2. /\ sort' = [roots |-> maxedOut, rootSet |-> ToSet(maxedOut), stack |-> << >>,
                  visited |-> {}, order |-> << >>]
  BY DEF StartSort, NoSort
<1>3. maxedOut \in Seq(Ids) /\ ToSet(maxedOut) \subseteq Ids
  BY <1>1, SeqSet DEF Types, HeapTypes
<1>4. SortTypes'
  BY <1>1, <1>2, <1>3 DEF SortTypes, Ids
<1>5. UNCHANGED <<handles, builder, attrs, reclaiming, batch, decs, after>>
  BY <1>1 DEF refs, gc, op
<1>6. Quiet'
  BY <1>1, <1>5 DEF Quiet, Idle, Ids
<1>7. Maxed' = Maxed
  BY <1>1 DEF Maxed
<1>8. /\ sort'.stack = << >> /\ sort'.visited = {} /\ sort'.order = << >>
      /\ sort'.roots = maxedOut /\ sort'.rootSet = Maxed
  BY <1>1, <1>2
<1>9. Finished' = {}
  BY <1>8 DEF Finished
<1>10. ToSet(<< >>) = {}
  BY DEF ToSet
<1>11. Searching' /\ Ordered'
  BY <1>1, <1>7, <1>8, <1>9, <1>10 DEF Searching, Ordered
<1>12. Tracked'
  BY <1>1, <1>11 DEF Tracked
<1> QED
  BY <1>1, <1>4, <1>6, <1>12, DestructorStep

\* What the order says of the heap does not depend on the rest of the search.
LEMMA OrderSame ==
  ASSUME UNCHANGED heap, sort'.order = sort.order
  PROVE  /\ \A C, i : Separates(C, i)' <=> Separates(C, i)
         /\ Ordered <=> Ordered'
<1>1. \A C : Downward(C)' <=> Downward(C)
  BY DEF Downward, Kids
<1>2. \A C, i : Separates(C, i)' <=> Separates(C, i)
  BY <1>1 DEF Separates
<1> QED
  BY <1>2 DEF Ordered, Ids

\* A step of the search leaves the rest to it.
LEMMA SearchStep ==
  ASSUME IInv, instance' = instance, phase = "sorting",
         UNCHANGED <<mem, refs, gc, op, phase>>, SortTypes', Ordered', Searching'
  PROVE  IInv'
<1>1. Types /\ Quiet /\ Tracked /\ maxedOut = << >>
  BY DEF IInv, Tracked
<1>2. UNCHANGED <<heap, nextId, pool, zombies, maxedOut>>
  BY DEF mem
<1>3. UNCHANGED <<handles, builder, attrs, reclaiming, batch, decs, after>>
  BY DEF refs, gc, op
<1>4. Quiet'
  BY <1>1, <1>2, <1>3 DEF Quiet, Ids
<1>5. Tracked'
  BY <1>1, <1>2 DEF Tracked
<1>6. maxedOut' \in Seq(Ids)
  BY <1>1, <1>2 DEF Types, HeapTypes
<1>7. UNCHANGED <<heap, nextId, pool, zombies, refs, gc, op>>
  BY <1>2
<1> QED
  BY <1>4, <1>5, <1>6, <1>7, DestructorStep

\* The next root.
LEMMA SortRootStep ==
  ASSUME IInv, instance' = instance, SortRoot
  PROVE  IInv'
<1>1. /\ Types /\ Tracked /\ Ordered /\ Searching
      /\ phase = "sorting" /\ sort.stack = << >> /\ sort.roots # << >>
      /\ UNCHANGED <<mem, refs, gc, op, phase>> /\ UNCHANGED heap
  BY DEF IInv, SortRoot, Tracked, mem
<1>2. PICK n : n = Head(sort.roots)
  OBVIOUS
<1>3. PICK stack : stack = IF n \in sort.visited THEN << >> ELSE << [post |-> FALSE, node |-> n] >>
  OBVIOUS
<1>4. /\ sort.roots \in Seq(Ids) /\ sort.rootSet \in SUBSET Ids
      /\ sort.visited \in SUBSET Ids /\ sort.order \in Seq(Ids)
  BY <1>1 DEF Types, SortTypes
<1>5. sort' = [sort EXCEPT !.roots = Tail(sort.roots), !.stack = stack]
  BY <1>2, <1>3 DEF SortRoot
<1>6. /\ sort'.roots = Tail(sort.roots) /\ sort'.rootSet = sort.rootSet
      /\ sort'.stack = stack /\ sort'.visited = sort.visited /\ sort'.order = sort.order
      /\ sort' = [roots |-> Tail(sort.roots), rootSet |-> sort.rootSet, stack |-> stack,
                  visited |-> sort.visited, order |-> sort.order]
  BY <1>1, <1>5 DEF Types, SortTypes
<1>7. /\ Tail(sort.roots) \in Seq(Ids) /\ n \in Ids /\ n \in ToSet(sort.roots)
      /\ ToSet(Tail(sort.roots)) \subseteq ToSet(sort.roots)
      /\ ToSet(sort.roots) = ToSet(Tail(sort.roots)) \cup {n}
  <2>1. /\ sort.roots = <<n>> \o Tail(sort.roots) /\ Tail(sort.roots) \in Seq(Ids) /\ n \in Ids
    BY <1>1, <1>2, <1>4, EmptySeq
  <2>2. <<n>> \in Seq(Ids)
    BY <2>1
  <2>3. ToSet(<<n>> \o Tail(sort.roots)) = ToSet(<<n>>) \cup ToSet(Tail(sort.roots))
    BY <2>1, <2>2, ConcatSet
  <2>4. ToSet(<<n>>) = {n}
    BY DEF ToSet
  <2> QED
    BY <2>1, <2>3, <2>4
<1>8. stack \in Seq([post : BOOLEAN, node : Ids])
  <2>1. [post |-> FALSE, node |-> n] \in [post : BOOLEAN, node : Ids]
    BY <1>7
  <2>2. PICK x \in [post : BOOLEAN, node : Ids] : x = [post |-> FALSE, node |-> n]
    BY <2>1
  <2>3. <<x>> \in Seq([post : BOOLEAN, node : Ids])
    OBVIOUS
  <2>4. << >> \in Seq([post : BOOLEAN, node : Ids])
    OBVIOUS
  <2> QED
    BY <1>3, <2>2, <2>3, <2>4
<1>9. SortTypes'
  BY <1>1, <1>4, <1>6, <1>7, <1>8 DEF Types, SortTypes, Ids
<1>10. Ordered' /\ \A C, i : Separates(C, i)' <=> Separates(C, i)
  BY <1>1, <1>6, OrderSame
<1>11. Maxed' = Maxed /\ Maxed \subseteq DOMAIN heap
  BY <1>1 DEF Maxed
<1>12. n \in Maxed /\ n \in DOMAIN heap
  BY <1>1, <1>7, <1>11 DEF Searching
<1>13. \A i \in DOMAIN stack : i = 1 /\ stack[i].node = n /\ ~stack[i].post
  BY <1>3
<1>14. n \in sort.visited \/ (1 \in DOMAIN stack /\ stack[1].node = n)
  BY <1>3
<1>15. Open = {} /\ Open' = {}
  BY <1>1, <1>6, <1>13 DEF Open
<1>16. Finished' = Finished
  BY <1>6, <1>15 DEF Finished
<1>17. Maxed \subseteq sort.visited \cup ToSet(Tail(sort.roots))
                        \cup {stack[i].node : i \in DOMAIN stack}
  <2>1. Maxed \subseteq sort.visited \cup ToSet(sort.roots)
    BY <1>1 DEF Searching
  <2> QED
    BY <1>7, <1>14, <2>1
<1>18. \A m : Kids(m)' = Kids(m)
  BY <1>1 DEF Kids
<1>19. Searching'
  <2>1. /\ \A m \in Finished : Kids(m) \subseteq Finished
        /\ sort.rootSet = Maxed /\ ToSet(sort.roots) \subseteq Maxed
        /\ ToSet(sort.order) = Finished \cap Maxed /\ sort.visited \subseteq DOMAIN heap
        /\ \A i \in DOMAIN sort.order : \E C \in SUBSET Finished : Separates(C, i)
    BY <1>1 DEF Searching
  <2>2. \A i \in DOMAIN stack : stack[i].node \in DOMAIN heap
    BY <1>12, <1>13
  <2> QED
    BY <1>1, <1>6, <1>7, <1>10, <1>11, <1>13, <1>16, <1>17, <1>18, <2>1, <2>2 DEF Searching
<1> QED
  BY <1>1, <1>9, <1>10, <1>19, SearchStep

\* What the search knows of an element of the stack.
Pending(i) ==
    /\ sort.stack[i].node \in DOMAIN heap
    /\ sort.stack[i].post =>
         /\ sort.stack[i].node \in sort.visited
         /\ \A j \in DOMAIN sort.stack : j > i => sort.stack[j].node < sort.stack[i].node
         /\ \A m \in Kids(sort.stack[i].node) :
               m \in sort.visited
                 \/ \E j \in DOMAIN sort.stack : j > i /\ sort.stack[j].node = m

\* The rest of what it knows.
LEMMA SearchParts ==
  ASSUME Searching
  PROVE  /\ \A i \in DOMAIN sort.stack : Pending(i)
         /\ sort.visited \subseteq DOMAIN heap /\ \A n \in Finished : Kids(n) \subseteq Finished
         /\ sort.rootSet = Maxed /\ ToSet(sort.roots) \subseteq Maxed
         /\ \A n \in Maxed : n \in sort.visited \/ n \in ToSet(sort.roots)
                               \/ \E i \in DOMAIN sort.stack : sort.stack[i].node = n
         /\ ToSet(sort.order) = Finished \cap Maxed
         /\ \A i \in DOMAIN sort.order : \E C \in SUBSET Finished : Separates(C, i)
<1>1. (\A n \in Maxed : n \in sort.visited \/ n \in ToSet(sort.roots)
                          \/ \E i \in DOMAIN sort.stack : sort.stack[i].node = n)
        <=> Maxed \subseteq sort.visited \cup ToSet(sort.roots)
                              \cup {sort.stack[i].node : i \in DOMAIN sort.stack}
  OBVIOUS
<1> QED
  BY <1>1 DEF Searching, Pending

\* The stack without its top.
LEMMA StackPopped ==
  ASSUME NEW T, NEW s \in Seq(T), s # << >>
  PROVE  /\ Len(s) \in Nat /\ Len(s) > 0 /\ Last(s) = s[Len(s)] /\ DOMAIN s = 1..Len(s)
         /\ Front(s) \in Seq(T) /\ DOMAIN Front(s) = 1..(Len(s) - 1)
         /\ Len(Front(s)) = Len(s) - 1
         /\ \A i \in 1..(Len(s) - 1) : Front(s)[i] = s[i]
<1>1. Len(s) \in Nat /\ Len(s) > 0 /\ DOMAIN s = 1..Len(s)
  BY EmptySeq
<1>2. Len(s) - 1 \in 0..Len(s)
  BY <1>1
<1>3. Front(s) = SubSeq(s, 1, Len(s) - 1)
  BY DEF Front
<1>4. Front(s) \in Seq(T) /\ Len(Front(s)) = Len(s) - 1
        /\ \A i \in 1..(Len(s) - 1) : Front(s)[i] = s[i]
  BY <1>2, <1>3, Prefix
<1> QED
  BY <1>1, <1>4 DEF Last

\* The top leaves when it is visited; the others wait for no more than before.
LEMMA PendingPopped ==
  ASSUME Types, Searching, sort.stack # << >>, UNCHANGED heap, NEW n,
         n = Last(sort.stack).node, n \in sort.visited,
         sort'.stack = Front(sort.stack), sort'.visited = sort.visited,
         sort'.roots = sort.roots
  PROVE  /\ \A i \in DOMAIN sort'.stack : Pending(i)'
         /\ \A m \in Maxed' : m \in sort'.visited \/ m \in ToSet(sort'.roots)
                                \/ \E i \in DOMAIN sort'.stack : sort'.stack[i].node = m
<1>1. PICK s : s = sort.stack
  OBVIOUS
<1>2. PICK k : k = Len(s)
  OBVIOUS
<1>3. s \in Seq([post : BOOLEAN, node : Ids])
  BY <1>1 DEF Types, SortTypes
<1>4. /\ k \in Nat /\ k > 0 /\ n = s[k].node /\ DOMAIN s = 1..k
      /\ DOMAIN sort'.stack = 1..(k - 1)
      /\ \A i \in 1..(k - 1) : sort'.stack[i] = s[i]
  BY <1>1, <1>2, <1>3, StackPopped
<1>5. \A i \in 1..k : Pending(i)
  BY <1>1, <1>4, SearchParts
<1>6. \A m : Kids(m)' = Kids(m)
  BY DEF Kids
<1>7. ASSUME NEW i \in 1..(k - 1)  PROVE Pending(i)'
  <2>1. i \in 1..k /\ sort'.stack[i] = s[i] /\ Pending(i)
    BY <1>4, <1>5, <1>7
  <2>2. s[i].node \in DOMAIN heap
    BY <1>1, <2>1 DEF Pending
  <2>3. ASSUME s[i].post
        PROVE  /\ s[i].node \in sort.visited
               /\ \A j \in 1..(k - 1) : j > i => s[j].node < s[i].node
               /\ \A m \in Kids(s[i].node) :
                     m \in sort.visited \/ \E j \in 1..(k - 1) : j > i /\ s[j].node = m
    <3>1. /\ s[i].node \in sort.visited
          /\ \A j \in 1..k : j > i => s[j].node < s[i].node
          /\ \A m \in Kids(s[i].node) :
                m \in sort.visited \/ \E j \in 1..k : j > i /\ s[j].node = m
      BY <1>1, <1>4, <2>1, <2>3 DEF Pending
    <3>2. \A j \in 1..k : j = k \/ j \in 1..(k - 1)
      BY <1>4
    <3>3. \A j \in 1..(k - 1) : j \in 1..k
      BY <1>4
    <3> QED
      BY <1>4, <3>1, <3>2, <3>3
  <2> QED
    BY <1>4, <1>6, <2>1, <2>2, <2>3 DEF Pending
<1>8. ASSUME NEW m \in Maxed
      PROVE  m \in sort'.visited \/ m \in ToSet(sort'.roots)
               \/ \E i \in DOMAIN sort'.stack : sort'.stack[i].node = m
  <2>1. m \in sort.visited \/ m \in ToSet(sort.roots) \/ \E i \in 1..k : s[i].node = m
    BY <1>1, <1>4, <1>8, SearchParts
  <2>2. \A i \in 1..k : i = k \/ i \in 1..(k - 1)
    BY <1>4
  <2> QED
    BY <1>4, <2>1, <2>2
<1>9. Maxed' = Maxed
  BY DEF Maxed
<1> QED
  BY <1>4, <1>7, <1>8, <1>9

\* All of it after a step that leaves the roots and the heap alone.
LEMMA SearchedOn ==
  ASSUME Searching, UNCHANGED heap,
         sort'.roots = sort.roots, sort'.rootSet = sort.rootSet,
         sort'.visited \subseteq DOMAIN heap,
         \A i \in DOMAIN sort'.stack : Pending(i)',
         \A n \in Maxed' : n \in sort'.visited \/ n \in ToSet(sort'.roots)
                              \/ \E i \in DOMAIN sort'.stack : sort'.stack[i].node = n,
         \A n \in Finished' : Kids(n) \subseteq Finished',
         ToSet(sort'.order) = Finished' \cap Maxed,
         \A i \in DOMAIN sort'.order : \E C \in SUBSET Finished' : Separates(C, i)'
  PROVE  Searching'
<1>1. Maxed' = Maxed /\ \A m : Kids(m)' = Kids(m)
  BY DEF Maxed, Kids
<1>2. sort'.rootSet = Maxed' /\ ToSet(sort'.roots) \subseteq Maxed'
  BY <1>1, SearchParts
<1>3. Maxed' \subseteq sort'.visited \cup ToSet(sort'.roots)
                        \cup {sort'.stack[i].node : i \in DOMAIN sort'.stack}
  OBVIOUS
<1> QED
  BY <1>1, <1>2, <1>3 DEF Searching, Pending

\* A node that was visited before is on the stack again.
LEMMA VisitAgain ==
  ASSUME IInv, instance' = instance, phase = "sorting", sort.stack # << >>,
         UNCHANGED <<mem, refs, gc, op, phase>>,
         ~Last(sort.stack).post, Last(sort.stack).node \in sort.visited,
         sort' = [sort EXCEPT !.stack = Front(@)]
  PROVE  IInv'
<1>1. Types /\ Ordered /\ Searching /\ UNCHANGED heap
  BY DEF IInv, Tracked, mem
<1>2. /\ sort'.roots = sort.roots /\ sort'.rootSet = sort.rootSet
      /\ sort'.stack = Front(sort.stack) /\ sort'.visited = sort.visited
      /\ sort'.order = sort.order
      /\ sort' = [roots |-> sort.roots, rootSet |-> sort.rootSet, stack |-> Front(sort.stack),
                  visited |-> sort.visited, order |-> sort.order]
  BY <1>1 DEF Types, SortTypes
<1>3. PICK s : s = sort.stack
  OBVIOUS
<1>4. PICK k : k = Len(s)
  OBVIOUS
<1>5. s \in Seq([post : BOOLEAN, node : Ids])
  BY <1>1, <1>3 DEF Types, SortTypes
<1>6. /\ k \in Nat /\ k > 0 /\ Last(s) = s[k] /\ DOMAIN s = 1..k
      /\ Front(s) \in Seq([post : BOOLEAN, node : Ids]) /\ DOMAIN Front(s) = 1..(k - 1)
      /\ \A i \in 1..(k - 1) : Front(s)[i] = s[i]
  BY <1>3, <1>4, <1>5, StackPopped
<1>7. SortTypes'
  BY <1>1, <1>2, <1>3, <1>6 DEF Types, SortTypes, Ids
<1>8. Ordered' /\ \A C, i : Separates(C, i)' <=> Separates(C, i)
  BY <1>1, <1>2, OrderSame
<1>9. Open' = Open
  <2>1. \A i : i \in {j \in 1..k : s[j].post} <=> i \in {j \in 1..(k - 1) : Front(s)[j].post}
    BY <1>3, <1>6
  <2>2. Open = {s[i].node : i \in {j \in 1..k : s[j].post}}
    BY <1>3, <1>6 DEF Open
  <2>3. Open' = {Front(s)[i].node : i \in {j \in 1..(k - 1) : Front(s)[j].post}}
    BY <1>2, <1>3, <1>6 DEF Open
  <2> QED
    BY <1>6, <2>1, <2>2, <2>3
<1>10. Finished' = Finished
  BY <1>2, <1>9 DEF Finished
<1>11. /\ \A i \in DOMAIN sort'.stack : Pending(i)'
       /\ \A m \in Maxed' : m \in sort'.visited \/ m \in ToSet(sort'.roots)
                               \/ \E i \in DOMAIN sort'.stack : sort'.stack[i].node = m
  BY <1>1, <1>2, PendingPopped
<1>12. /\ sort'.visited \subseteq DOMAIN heap
       /\ \A n \in Finished' : Kids(n) \subseteq Finished'
       /\ ToSet(sort'.order) = Finished' \cap Maxed
  BY <1>1, <1>2, <1>10, SearchParts
<1>13. \A i \in DOMAIN sort'.order : \E C \in SUBSET Finished' : Separates(C, i)'
  BY <1>1, <1>2, <1>8, <1>10, SearchParts
<1>14. Searching'
  BY <1>1, <1>2, <1>11, <1>12, <1>13, SearchedOn
<1> QED
  BY <1>7, <1>8, <1>14, SearchStep

\* A node is done when its children are, and recorded then.
LEMMA VisitDone ==
  ASSUME IInv, instance' = instance, phase = "sorting", sort.stack # << >>,
         UNCHANGED <<mem, refs, gc, op, phase>>, Last(sort.stack).post, NEW n,
         n = Last(sort.stack).node, NEW order,
         order = IF n \in sort.rootSet THEN Append(sort.order, n) ELSE sort.order,
         sort' = [sort EXCEPT !.stack = Front(@), !.order = order]
  PROVE  IInv'
<1>1. Types /\ Older /\ Ordered /\ Searching /\ UNCHANGED heap
  BY DEF IInv, Tracked, mem
<1>2. /\ sort'.roots = sort.roots /\ sort'.rootSet = sort.rootSet
      /\ sort'.stack = Front(sort.stack) /\ sort'.visited = sort.visited
      /\ sort'.order = order
      /\ sort' = [roots |-> sort.roots, rootSet |-> sort.rootSet, stack |-> Front(sort.stack),
                  visited |-> sort.visited, order |-> order]
  BY <1>1 DEF Types, SortTypes
<1>3. PICK s : s = sort.stack
  OBVIOUS
<1>4. PICK k : k = Len(s)
  OBVIOUS
<1>5. s \in Seq([post : BOOLEAN, node : Ids]) /\ sort.order \in Seq(Ids)
  BY <1>1, <1>3 DEF Types, SortTypes
<1>6. /\ k \in Nat /\ k > 0 /\ Last(s) = s[k] /\ DOMAIN s = 1..k
      /\ Front(s) \in Seq([post : BOOLEAN, node : Ids]) /\ DOMAIN Front(s) = 1..(k - 1)
      /\ \A i \in 1..(k - 1) : Front(s)[i] = s[i]
  BY <1>3, <1>4, <1>5, StackPopped
<1>7. /\ n = s[k].node /\ s[k].post /\ k \in 1..k /\ n \in Ids
      /\ \A i \in 1..k : s[i].node \in Ids
  <2>1. k \in 1..k
    BY <1>6
  <2>2. PICK T : T = [post : BOOLEAN, node : Ids]
    OBVIOUS
  <2>3. \A i \in 1..k : s[i].node \in Ids
    <3>1. s \in Seq(T)
      BY <1>5, <2>2
    <3>2. \A i \in 1..k : s[i] \in T
      BY <1>6, <3>1
    <3> QED
      BY <2>2, <3>2
  <2> QED
    BY <1>3, <1>6, <2>1, <2>3
<1>8. Pending(k) /\ \A i \in 1..(k - 1) : Pending(i)
  BY <1>1, <1>3, <1>6, SearchParts
<1>9. /\ n \in DOMAIN heap /\ n \in sort.visited
      /\ \A m \in Kids(n) : m \in sort.visited
  <2>1. \A j \in 1..k : ~(j > k)
    BY <1>6
  <2> QED
    BY <1>3, <1>6, <1>7, <1>8, <2>1 DEF Pending
<1>10. \A i \in 1..(k - 1) : s[i].post => n < s[i].node
  <2>1. \A i \in 1..(k - 1) : k > i
    BY <1>6
  <2> QED
    BY <1>3, <1>6, <1>7, <1>8, <2>1 DEF Pending
<1>11. \A m \in Kids(n) : m < n /\ m \in Ids
  <2>1. heap[n] \in Value
    BY <1>1, <1>9 DEF Types, HeapTypes
  <2>2. Kids(n) \subseteq Ids
    BY <2>1, SeqSet DEF Kids, Value
  <2> QED
    BY <1>1, <1>9, <2>2 DEF Older
<1>12. PICK O : O = {i \in 1..(k - 1) : s[i].post}
  OBVIOUS
<1>13. Open' = {s[i].node : i \in O}
  <2>1. O = {i \in 1..(k - 1) : Front(s)[i].post}
    BY <1>6, <1>12
  <2>2. \A i \in O : Front(s)[i].node = s[i].node
    BY <1>6, <1>12
  <2>3. Open' = {Front(s)[i].node : i \in O}
    BY <1>2, <1>3, <1>6, <2>1 DEF Open
  <2> QED
    BY <2>2, <2>3
<1>14. Open = {s[i].node : i \in O} \cup {n}
  <2>1. \A i : i \in {j \in 1..k : s[j].post} <=> i \in O \/ i = k
    BY <1>6, <1>7, <1>12
  <2>2. Open = {s[i].node : i \in {j \in 1..k : s[j].post}}
    BY <1>3, <1>6 DEF Open
  <2> QED
    BY <1>7, <2>1, <2>2
<1>15. \A m \in Ids : m \in Open' => n < m
  BY <1>10, <1>12, <1>13
<1>16. n \notin Open' /\ \A m \in Kids(n) : m \notin Open'
  <2>1. Ids \subseteq Nat
    BY DEF Ids
  <2>2. ~(n < n) /\ \A m \in Kids(n) : ~(n < m)
    BY <1>7, <1>11, <2>1
  <2> QED
    BY <1>7, <1>11, <1>15, <2>2
<1>17. Finished' = Finished \cup {n} /\ n \notin Finished
  BY <1>2, <1>9, <1>13, <1>14, <1>16 DEF Finished
<1>18. Kids(n) \subseteq Finished'
  BY <1>2, <1>9, <1>16 DEF Finished
<1>19. \A m \in Finished' : Kids(m) \subseteq Finished'
  BY <1>1, <1>17, <1>18, SearchParts
<1>20. n \notin ToSet(sort.order) /\ sort.rootSet = Maxed /\ ToSet(sort.order) = Finished \cap Maxed
  BY <1>1, <1>17, SearchParts
<1>21. /\ order \in Seq(Ids) /\ ToSet(order) = ToSet(sort.order) \cup ({n} \cap Maxed)
  BY <1>5, <1>7, <1>20, Appended, AppendedSet
<1>22. ToSet(sort'.order) = Finished' \cap Maxed
  BY <1>2, <1>17, <1>20, <1>21
<1>23. PICK l : l = Len(sort.order)
  OBVIOUS
<1>24. /\ l \in Nat /\ DOMAIN sort.order = 1..l
       /\ \A i \in 1..l : order[i] = sort.order[i]
       /\ \A i \in DOMAIN order : i \in 1..l \/ (i = l + 1 /\ order[i] = n /\ DOMAIN order = 1..(l + 1))
       /\ \A i \in 1..l : i \in DOMAIN order
  <2>1. l \in Nat /\ DOMAIN sort.order = 1..l
    BY <1>5, <1>23
  <2>2. CASE n \in sort.rootSet
    <3>1. order = Append(sort.order, n)
      BY <2>2
    <3>2. DOMAIN order = 1..(l + 1)
      BY <1>5, <1>7, <1>23, <3>1
    <3> QED
      BY <1>5, <1>7, <1>23, <2>1, <3>1, <3>2, Appended
  <2>3. CASE n \notin sort.rootSet
    BY <2>1, <2>3
  <2> QED
    BY <2>2, <2>3
<1>25. \A i \in 1..l : sort.order[i] # n
  BY <1>20, <1>24 DEF ToSet
<1>26. \A C : Downward(C)' <=> Downward(C)
  BY <1>1 DEF Downward, Kids
<1>27. ASSUME NEW i \in DOMAIN order  PROVE \E C \in SUBSET Finished' : Separates(C, i)'
  <2>1. CASE i \in 1..l
    <3>1. PICK C \in SUBSET Finished : Separates(C, i)
      BY <1>1, <1>24, <2>1, SearchParts
    <3>2. /\ Downward(C) /\ sort.order[i] \in C
          /\ \A j \in 1..l : j > i => sort.order[j] \notin C
      BY <1>24, <3>1 DEF Separates
    <3>3. C \in SUBSET Finished' /\ n \notin C
      BY <1>17
    <3>4. \A j \in DOMAIN order : j > i => order[j] \notin C
      BY <1>24, <3>2, <3>3
    <3>5. Separates(C, i)'
      BY <1>2, <1>24, <1>26, <2>1, <3>2, <3>4 DEF Separates
    <3> QED
      BY <3>3, <3>5
  <2>2. CASE i = l + 1 /\ order[i] = n /\ DOMAIN order = 1..(l + 1)
    <3>1. PICK C : C = Finished'
      OBVIOUS
    <3>2. Downward(C)
      BY <1>19, <3>1 DEF Downward
    <3>3. \A j \in DOMAIN order : ~(j > i)
      BY <1>24, <2>2
    <3>4. Separates(C, i)'
      BY <1>2, <1>17, <1>26, <2>2, <3>1, <3>2, <3>3 DEF Separates
    <3> QED
      BY <3>1, <3>4
  <2> QED
    BY <1>24, <2>1, <2>2
<1>28. Finished' \subseteq Ids
  BY <1>1, <1>2 DEF Finished, Types, SortTypes
<1>29. Ordered'
  <2>1. \A i, j \in DOMAIN order : order[i] = order[j] => i = j
    <3>1. \A i, j \in 1..l : sort.order[i] = sort.order[j] => i = j
      BY <1>1, <1>24 DEF Ordered
    <3> QED
      BY <1>24, <1>25, <3>1
  <2>2. \A i \in DOMAIN order : \E C \in SUBSET Ids : Separates(C, i)'
    BY <1>27, <1>28
  <2> QED
    BY <1>2, <2>1, <2>2 DEF Ordered, Ids
<1>30. SortTypes'
  BY <1>1, <1>2, <1>3, <1>6, <1>21 DEF Types, SortTypes, Ids
<1>31. /\ \A i \in DOMAIN sort'.stack : Pending(i)'
       /\ \A m \in Maxed' : m \in sort'.visited \/ m \in ToSet(sort'.roots)
                               \/ \E i \in DOMAIN sort'.stack : sort'.stack[i].node = m
  BY <1>1, <1>2, <1>9, PendingPopped
<1>32. sort'.visited \subseteq DOMAIN heap
  BY <1>1, <1>2, SearchParts
<1>33. Searching'
  BY <1>1, <1>2, <1>19, <1>22, <1>27, <1>31, <1>32, SearchedOn
<1> QED
  BY <1>29, <1>30, <1>33, SearchStep

\* What is pushed when a node is visited first.
Marked(e) == [e EXCEPT !.post = TRUE]
Waiting(kids) == [i \in DOMAIN kids |-> [post |-> FALSE, node |-> kids[i]]]

\* A mark changes nothing else.
LEMMA MarkedNode ==
  ASSUME NEW e \in [post : BOOLEAN, node : Ids]
  PROVE  /\ Marked(e) \in [post : BOOLEAN, node : Ids]
         /\ Marked(e).post /\ Marked(e).node = e.node
BY DEF Marked

\* The children wait in their order.
LEMMA WaitingNodes ==
  ASSUME NEW kids \in Seq(Ids)
  PROVE  /\ Waiting(kids) \in Seq([post : BOOLEAN, node : Ids])
         /\ Len(Waiting(kids)) = Len(kids)
         /\ \A i \in 1..Len(kids) : Waiting(kids)[i].node = kids[i] /\ ~Waiting(kids)[i].post
<1>1. PICK T : T = [post : BOOLEAN, node : Ids]
  OBVIOUS
<1>2. DOMAIN kids = 1..Len(kids) /\ Len(kids) \in Nat /\ \A i \in 1..Len(kids) : kids[i] \in Ids
  OBVIOUS
<1>3. \A i \in 1..Len(kids) : [post |-> FALSE, node |-> kids[i]] \in T
  BY <1>1, <1>2
<1>4. Waiting(kids) \in [1..Len(kids) -> T]
  BY <1>2, <1>3 DEF Waiting
<1>5. Waiting(kids) \in Seq(T) /\ Len(Waiting(kids)) = Len(kids)
  BY <1>2, <1>4, FunctionIsSeq
<1>6. \A i \in 1..Len(kids) : Waiting(kids)[i] = [post |-> FALSE, node |-> kids[i]]
  BY <1>2 DEF Waiting
<1>7. \A i \in 1..Len(kids) : Waiting(kids)[i].node = kids[i] /\ ~Waiting(kids)[i].post
  <2> TAKE i \in 1..Len(kids)
  <2>1. PICK e : e = Waiting(kids)[i]
    OBVIOUS
  <2>2. PICK m : m = kids[i]
    OBVIOUS
  <2>3. e = [post |-> FALSE, node |-> m]
    BY <1>6, <2>1, <2>2
  <2>4. e.node = m /\ ~e.post
    BY ONLY <2>3
  <2> QED
    BY <2>1, <2>2, <2>4
<1> QED
  BY <1>1, <1>5, <1>7

\* The stack after that: the node with a mark, below its children.
StackGrown(u, s, kids) ==
    /\ u \in Seq([post : BOOLEAN, node : Ids]) /\ DOMAIN u = 1..(Len(s) + Len(kids))
    /\ u[Len(s)].node = s[Len(s)].node /\ u[Len(s)].post
    /\ \A i \in 1..(Len(s) - 1) : u[i] = s[i]
    /\ \A i \in 1..Len(kids) : u[Len(s) + i].node = kids[i] /\ ~u[Len(s) + i].post
    /\ \A p \in 1..(Len(s) + Len(kids)) :
          p \in 1..(Len(s) - 1) \/ p = Len(s) \/ \E i \in 1..Len(kids) : p = Len(s) + i

\* What is pushed makes it.
LEMMA Pushed ==
  ASSUME NEW s \in Seq([post : BOOLEAN, node : Ids]), s # << >>, NEW kids \in Seq(Ids),
         NEW u, u = Front(s) \o <<Marked(Last(s))>> \o Waiting(kids)
  PROVE  StackGrown(u, s, kids)
<1>0. PICK k, l : k = Len(s) /\ l = Len(kids)
  OBVIOUS
<1>1. PICK T : T = [post : BOOLEAN, node : Ids]
  OBVIOUS
<1>2. s \in Seq(T)
  BY <1>1
<1>3. /\ k \in Nat /\ k > 0 /\ Last(s) = s[k] /\ DOMAIN s = 1..k
      /\ Front(s) \in Seq(T) /\ Len(Front(s)) = k - 1
      /\ \A i \in 1..(k - 1) : Front(s)[i] = s[i]
  BY <1>0, <1>2, StackPopped
<1>4. Last(s) \in T /\ k \in 1..k
  BY <1>2, <1>3
<1>5. PICK x : x = Marked(Last(s))
  OBVIOUS
<1>6. x \in T /\ x.post /\ x.node = s[k].node
  BY <1>1, <1>3, <1>4, <1>5, MarkedNode
<1>7. PICK t : t = Waiting(kids)
  OBVIOUS
<1>8. t \in Seq(T) /\ Len(t) = l /\ \A i \in 1..l : t[i].node = kids[i] /\ ~t[i].post
  BY <1>0, <1>1, <1>7, WaitingNodes
<1>9. l \in Nat
  BY <1>0
<1>14. PICK r : r = Front(s) \o <<x>>
  BY Zenon
<1>15. /\ r \in Seq(T) /\ Len(r) = k /\ r[k] = x
       /\ \A i \in 1..(k - 1) : r[i] = s[i]
  <2>1. <<x>> \in Seq(T) /\ Len(<<x>>) = 1 /\ <<x>>[1] = x
    BY <1>6
  <2>2. r \in Seq(T) /\ Len(r) = (k - 1) + 1
    BY <1>3, <1>14, <2>1, Concat
  <2>3. \A i \in 1..(k - 1) : r[i] = Front(s)[i]
    BY <1>3, <1>14, <2>1, Concat
  <2>4. r[(k - 1) + 1] = x
    <3>1. \A i \in 1..1 : r[(k - 1) + i] = <<x>>[i]
      BY <1>3, <1>14, <2>1, Concat
    <3> QED
      BY <2>1, <3>1
  <2> QED
    BY <1>3, <2>2, <2>3, <2>4
<1>16. u = r \o t
  BY <1>5, <1>7, <1>14
<1>17. /\ u \in Seq(T) /\ Len(u) = k + l
       /\ \A i \in 1..k : u[i] = r[i]
       /\ \A i \in 1..l : u[k + i] = t[i]
       /\ \A p \in 1..(k + l) : p \in 1..k \/ \E i \in 1..l : p = k + i
  <2>1. r \in Seq(T) /\ t \in Seq(T) /\ Len(r) = k /\ Len(t) = l
    BY <1>8, <1>15
  <2>2. /\ r \o t \in Seq(T) /\ Len(r \o t) = Len(r) + Len(t)
        /\ \A i \in 1..Len(r) : (r \o t)[i] = r[i]
        /\ \A i \in 1..Len(t) : (r \o t)[Len(r) + i] = t[i]
        /\ \A p \in 1..(Len(r) + Len(t)) : p \in 1..Len(r) \/ \E i \in 1..Len(t) : p = Len(r) + i
    BY ONLY <2>1, Concat
  <2> QED
    BY ONLY <1>16, <2>1, <2>2
<1>18. \A p \in 1..k : p \in 1..(k - 1) \/ p = k
  BY <1>3
<1>19. \A i \in 1..(k - 1) : i \in 1..k
  BY <1>3
<1>20. u \in Seq(T) /\ DOMAIN u = 1..(k + l)
  BY <1>3, <1>9, <1>17
<1>21. u[k] = x /\ \A i \in 1..(k - 1) : u[i] = s[i]
  BY <1>4, <1>15, <1>17, <1>19
<1>22. \A p \in 1..(k + l) : p \in 1..(k - 1) \/ p = k \/ \E i \in 1..l : p = k + i
  BY <1>17, <1>18
<1>23. \A i \in 1..l : u[k + i].node = kids[i] /\ ~u[k + i].post
  BY <1>8, <1>17
<1> QED
  BY <1>0, <1>1, <1>6, <1>20, <1>21, <1>22, <1>23 DEF StackGrown

\* A node that is visited first waits for its children.
LEMMA VisitFirst ==
  ASSUME IInv, instance' = instance, phase = "sorting", sort.stack # << >>,
         UNCHANGED <<mem, refs, gc, op, phase>>, ~Last(sort.stack).post,
         NEW n, n = Last(sort.stack).node, n \notin sort.visited,
         NEW u, StackGrown(u, sort.stack, heap[n].kids),
         sort' = [sort EXCEPT !.stack = u, !.visited = sort.visited \cup {n}]
  PROVE  IInv'
<1>0. PICK T : T = [post : BOOLEAN, node : Ids]
  OBVIOUS
<1>1. Types /\ Older /\ Ordered /\ Searching /\ UNCHANGED heap
  BY DEF IInv, Tracked, mem
<1>2. PICK s : s = sort.stack
  OBVIOUS
<1>3. PICK k : k = Len(s)
  OBVIOUS
<1>4. s \in Seq(T)
  BY <1>0, <1>1, <1>2 DEF Types, SortTypes
<1>5. /\ k \in Nat /\ k > 0 /\ Last(s) = s[k] /\ DOMAIN s = 1..k
  BY <1>2, <1>3, <1>4, StackPopped
<1>6. \A i \in 1..k : Pending(i) /\ s[i] \in T
  BY <1>1, <1>2, <1>4, <1>5, SearchParts
<1>7. n = s[k].node /\ ~s[k].post /\ n \in DOMAIN heap /\ n \in Ids /\ k \in 1..k
  <2>1. k \in 1..k
    BY <1>5
  <2> QED
    BY <1>0, <1>2, <1>5, <1>6, <2>1 DEF Pending
<1>8. PICK kids : kids = heap[n].kids
  OBVIOUS
<1>10. kids \in Seq(Ids) /\ ToSet(kids) = Kids(n) /\ \A m \in Kids(n) : m < n
  <2>1. heap[n] \in Value
    BY <1>1, <1>7 DEF Types, HeapTypes
  <2> QED
    BY <1>1, <1>7, <1>8, <2>1 DEF Kids, Value, Older
<1>11. PICK l : l = Len(kids)
  OBVIOUS
<1>12. /\ l \in Nat /\ DOMAIN kids = 1..l /\ \A i \in 1..l : kids[i] \in Kids(n) /\ kids[i] \in Ids
       /\ \A m \in Kids(n) : \E i \in 1..l : kids[i] = m
  BY <1>10, <1>11 DEF ToSet
<1>17. /\ u \in Seq(T) /\ DOMAIN u = 1..(k + l) /\ u[k].node = n /\ u[k].post
       /\ \A i \in 1..(k - 1) : u[i] = s[i]
       /\ \A i \in 1..l : u[k + i].node = kids[i] /\ ~u[k + i].post
       /\ \A p \in 1..(k + l) : p \in 1..(k - 1) \/ p = k \/ \E i \in 1..l : p = k + i
  <2>1. StackGrown(u, s, kids)
    BY <1>2, <1>8
  <2> QED
    BY <1>0, <1>3, <1>7, <1>11, <2>1 DEF StackGrown
<1>18. /\ sort'.roots = sort.roots /\ sort'.rootSet = sort.rootSet
       /\ sort'.stack = u /\ sort'.visited = sort.visited \cup {n}
       /\ sort'.order = sort.order
       /\ sort' = [roots |-> sort.roots, rootSet |-> sort.rootSet, stack |-> u,
                   visited |-> sort.visited \cup {n}, order |-> sort.order]
  BY <1>1 DEF Types, SortTypes
<1>19. SortTypes'
  BY <1>0, <1>1, <1>7, <1>17, <1>18 DEF Types, SortTypes, Ids
<1>20. Ordered' /\ \A C, i : Separates(C, i)' <=> Separates(C, i)
  BY <1>1, <1>18, OrderSame
<1>21. Open' = Open \cup {n}
  <2>1. Open = {s[i].node : i \in {j \in 1..k : s[j].post}}
    BY <1>2, <1>5 DEF Open
  <2>2. Open' = {u[i].node : i \in {j \in 1..(k + l) : u[j].post}}
    BY <1>17, <1>18 DEF Open
  <2>3. \A j \in 1..(k + l) : u[j].post => j = k \/ (j \in 1..k /\ s[j].post /\ u[j] = s[j])
    <3>1. \A i \in 1..(k - 1) : i \in 1..k
      BY <1>5
    <3> QED
      BY <1>17, <3>1
  <2>4. \A j \in 1..k : s[j].post => j \in 1..(k + l) /\ u[j] = s[j]
    <3>1. \A j \in 1..k : j \in 1..(k - 1) \/ j = k
      BY <1>5
    <3>2. \A j \in 1..k : j \in 1..(k + l)
      BY <1>5, <1>12
    <3> QED
      BY <1>7, <1>17, <3>1, <3>2
  <2>5. k \in 1..(k + l) /\ u[k].post /\ u[k].node = n
    BY <1>5, <1>12, <1>17
  <2>6. Open' \subseteq Open \cup {n}
    BY <2>1, <2>2, <2>3, <2>5
  <2>7. Open \cup {n} \subseteq Open'
    BY <2>1, <2>2, <2>4, <2>5
  <2> QED
    BY <2>6, <2>7
<1>22. Finished' = Finished
  BY <1>18, <1>21 DEF Finished
<1>23. \A m : Kids(m)' = Kids(m)
  BY <1>1 DEF Kids
<1>24. k + l \in Nat /\ \A i \in 1..k : i \in 1..(k + l)
  BY <1>5, <1>12
<1>25. \A p \in 1..(k + l) : p > k => u[p].node \in Kids(n) /\ ~u[p].post
  <2>1. \A p \in 1..(k + l) : p > k => \E i \in 1..l : p = k + i
    BY <1>5, <1>17
  <2> QED
    BY <1>12, <1>17, <2>1
<1>26. \A i \in 1..k : u[i].node = s[i].node /\ (i # k => u[i].post = s[i].post)
  <2>1. \A j \in 1..k : j \in 1..(k - 1) \/ j = k
    BY <1>5
  <2> QED
    BY <1>7, <1>17, <2>1
<1>27. Ids \subseteq Nat /\ \A i \in 1..k : s[i].node \in Ids
  BY <1>0, <1>6 DEF Ids
<1>28. \A m \in Kids(n) : m \in Ids
  BY <1>10, SeqSet
<1>29. ASSUME NEW i \in 1..(k + l)  PROVE Pending(i)'
  <2>1. CASE i > k
    <3>1. u[i].node \in Kids(n) /\ ~u[i].post
      BY <1>25, <2>1
    <3>2. Kids(n) \subseteq DOMAIN heap
      BY <1>1, <1>7, Held DEF IInv
    <3> QED
      BY <1>1, <1>18, <3>1, <3>2 DEF Pending
  <2>2. CASE i = k
    <3>1. \A j \in 1..(k + l) : j > k => u[j].node < n
      BY <1>10, <1>25
    <3>2. ASSUME NEW m \in Kids(n)  PROVE \E j \in 1..(k + l) : j > k /\ u[j].node = m
      <4>1. PICK a \in 1..l : kids[a] = m
        BY <1>12
      <4>2. k + a \in 1..(k + l) /\ k + a > k
        BY <1>5, <1>12
      <4> QED
        BY <1>17, <4>1, <4>2
    <3> QED
      BY <1>1, <1>7, <1>17, <1>18, <1>23, <2>2, <3>1, <3>2 DEF Pending
  <2>3. CASE i \in 1..(k - 1)
    <3>1. i \in 1..k /\ i # k /\ u[i] = s[i] /\ k > i
      BY <1>5, <1>17, <2>3
    <3>2. s[i].node \in DOMAIN heap /\ Pending(i)
      BY <1>2, <1>6, <3>1 DEF Pending
    <3>3. ASSUME s[i].post
          PROVE  /\ s[i].node \in sort.visited
                 /\ \A j \in 1..(k + l) : j > i => u[j].node < s[i].node
                 /\ \A m \in Kids(s[i].node) :
                       m \in sort.visited \/ \E j \in 1..(k + l) : j > i /\ u[j].node = m
      <4>1. /\ s[i].node \in sort.visited
            /\ \A j \in 1..k : j > i => s[j].node < s[i].node
            /\ \A m \in Kids(s[i].node) :
                  m \in sort.visited \/ \E j \in 1..k : j > i /\ s[j].node = m
        BY <1>2, <1>5, <3>2, <3>3 DEF Pending
      <4>2. n < s[i].node
        BY <1>7, <3>1, <4>1
      <4>3. ASSUME NEW j \in 1..(k + l), j > i  PROVE u[j].node < s[i].node
        <5>1. CASE j > k
          <6>1. u[j].node < n /\ u[j].node \in Ids
            BY <1>10, <1>25, <1>28, <5>1
          <6> QED
            BY <1>7, <1>27, <3>1, <4>2, <6>1
        <5>2. CASE j \in 1..k
          BY <1>26, <4>1, <4>3, <5>2
        <5> QED
          BY <1>5, <5>1, <5>2
      <4>4. ASSUME NEW m \in Kids(s[i].node)
            PROVE  m \in sort.visited \/ \E j \in 1..(k + l) : j > i /\ u[j].node = m
        BY <1>24, <1>26, <4>1
      <4> QED
        BY <4>1, <4>3, <4>4
    <3> QED
      BY <1>1, <1>17, <1>18, <1>23, <3>1, <3>2, <3>3 DEF Pending
  <2> QED
    BY <1>5, <2>1, <2>2, <2>3
<1>30. \A m \in Maxed' : m \in sort'.visited \/ m \in ToSet(sort'.roots)
                            \/ \E i \in DOMAIN sort'.stack : sort'.stack[i].node = m
  <2>1. \A m \in Maxed : m \in sort.visited \/ m \in ToSet(sort.roots)
                            \/ \E i \in 1..k : s[i].node = m
    BY <1>1, <1>2, <1>5, SearchParts
  <2>2. Maxed' = Maxed
    BY <1>1 DEF Maxed
  <2> QED
    BY <1>17, <1>18, <1>24, <1>26, <2>1, <2>2
<1>31. /\ sort'.visited \subseteq DOMAIN heap
       /\ \A m \in Finished' : Kids(m) \subseteq Finished'
       /\ ToSet(sort'.order) = Finished' \cap Maxed
  BY <1>1, <1>7, <1>18, <1>22, SearchParts
<1>32. \A i \in DOMAIN sort'.order : \E C \in SUBSET Finished' : Separates(C, i)'
  BY <1>1, <1>18, <1>20, <1>22, SearchParts
<1>33. \A i \in DOMAIN sort'.stack : Pending(i)'
  BY <1>17, <1>18, <1>29
<1>34. Searching'
  BY <1>1, <1>18, <1>30, <1>31, <1>32, <1>33, SearchedOn
<1> QED
  BY <1>19, <1>20, <1>34, SearchStep

\* A round of the search with the top of the stack.
LEMMA SortVisitStep ==
  ASSUME IInv, instance' = instance, SortVisit
  PROVE  IInv'
<1>1. /\ Types /\ Searching /\ phase = "sorting" /\ sort.stack # << >> /\ sort' = Sorted(sort)
      /\ UNCHANGED <<mem, refs, gc, op, phase>>
  BY DEF IInv, SortVisit, Tracked
<1>2. PICK s : s = sort.stack
  OBVIOUS
<1>3. PICK n : n = Last(s).node
  OBVIOUS
<1>4. PICK order : order = IF n \in sort.rootSet THEN Append(sort.order, n) ELSE sort.order
  OBVIOUS
<1>5. PICK u : u = Front(s) \o <<Marked(Last(s))>> \o Waiting(heap[n].kids)
  OBVIOUS
<1>6. PICK T : T = [post : BOOLEAN, node : Ids]
  OBVIOUS
<1>7. s \in Seq(T) /\ s # << >>
  BY <1>1, <1>2, <1>6 DEF Types, SortTypes
<1>8. Last(s) \in T /\ n \in DOMAIN heap
  <2>1. Len(s) \in 1..Len(s) /\ Last(s) = s[Len(s)] /\ DOMAIN s = 1..Len(s)
    <3>1. Len(s) \in Nat /\ Len(s) > 0 /\ Last(s) = s[Len(s)] /\ DOMAIN s = 1..Len(s)
      BY ONLY <1>7, StackPopped
    <3> QED
      BY <3>1
  <2>2. Last(s) \in T
    BY <1>7, <2>1
  <2>3. Pending(Len(s))
    BY <1>1, <1>2, <2>1, SearchParts
  <2> QED
    BY <1>2, <1>3, <2>1, <2>2, <2>3 DEF Pending
<1>9. heap[n].kids \in Seq(Ids)
  BY <1>1, <1>8 DEF Types, HeapTypes, Value
<1>10. Last(s).post \in BOOLEAN
  BY <1>6, <1>8
<1>11. Sorted(sort) =
         IF Last(s).post THEN [sort EXCEPT !.stack = Front(@), !.order = order]
         ELSE IF n \in sort.visited THEN [sort EXCEPT !.stack = Front(@)]
         ELSE [sort EXCEPT !.stack = u, !.visited = sort.visited \cup {n}]
  BY <1>2, <1>3, <1>4, <1>5 DEF Sorted, Marked, Waiting
<1>12. CASE Last(s).post
  <2>1. sort' = [sort EXCEPT !.stack = Front(@), !.order = order]
    BY <1>1, <1>11, <1>12
  <2>2. Last(sort.stack).post /\ n = Last(sort.stack).node
    BY <1>2, <1>3, <1>12
  <2>3. UNCHANGED <<mem, refs, gc, op, phase>> /\ phase = "sorting" /\ sort.stack # << >>
    BY <1>1
  <2> QED
    BY <1>4, <2>1, <2>2, <2>3, VisitDone, Zenon
<1>13. CASE ~Last(s).post /\ n \in sort.visited
  <2>1. sort' = [sort EXCEPT !.stack = Front(@)]
    BY <1>1, <1>11, <1>13
  <2> QED
    BY <1>1, <1>2, <1>3, <1>13, <2>1, VisitAgain
<1>14. CASE ~Last(s).post /\ n \notin sort.visited
  <2>1. sort' = [sort EXCEPT !.stack = u, !.visited = sort.visited \cup {n}]
    BY <1>1, <1>11, <1>14
  <2>2. StackGrown(u, s, heap[n].kids)
    BY <1>5, <1>6, <1>7, <1>9, Pushed
  <2>3. ~Last(sort.stack).post /\ n = Last(sort.stack).node /\ n \notin sort.visited
    BY <1>2, <1>3, <1>14
  <2>4. UNCHANGED <<mem, refs, gc, op, phase>> /\ phase = "sorting" /\ sort.stack # << >>
    BY <1>1
  <2>5. StackGrown(u, sort.stack, heap[n].kids)
    BY <1>2, <2>2
  <2> QED
    BY <2>1, <2>3, <2>4, <2>5, VisitFirst, Zenon
<1> QED
  BY <1>10, <1>12, <1>13, <1>14

\* At the end of the search the order has all the maxed-out nodes.
LEMMA EndSortStep ==
  ASSUME IInv, instance' = instance, EndSort
  PROVE  IInv'
<1>1. /\ Types /\ Quiet /\ Tracked /\ Searching /\ Ordered /\ maxedOut = << >>
      /\ phase = "sorting" /\ sort.stack = << >> /\ sort.roots = << >> /\ phase' = "draining"
      /\ UNCHANGED <<mem, refs, gc, op, sort>>
  BY DEF IInv, EndSort, Tracked
<1>2. UNCHANGED <<heap, nextId, pool, zombies, maxedOut>>
  BY <1>1 DEF mem
<1>3. UNCHANGED <<handles, builder, attrs, reclaiming, batch, decs, after>>
  BY <1>1 DEF refs, gc, op
<1>4. Quiet'
  BY <1>1, <1>3 DEF Quiet, Ids
<1>5. SortTypes' /\ maxedOut' \in Seq(Ids)
  BY <1>1, <1>2 DEF Types, HeapTypes, SortTypes, Ids
<1>6. Open = {}
  BY <1>1 DEF Open
<1>7. ToSet(sort.roots) = {}
  BY <1>1 DEF ToSet
<1>8. \A n \in Maxed : n \in sort.visited
  BY <1>1, <1>7, SearchParts
<1>9. ToSet(sort.order) = Maxed
  BY <1>1, <1>6, <1>8, SearchParts DEF Finished
<1>10. Ordered' /\ Maxed' = Maxed
  BY <1>1, <1>2, OrderSame DEF Maxed
<1>11. Tracked'
  BY <1>1, <1>2, <1>9, <1>10 DEF Tracked
<1>12. UNCHANGED <<heap, nextId, pool, zombies, refs, gc, op>>
  BY <1>1, <1>2
<1> QED
  BY <1>4, <1>5, <1>11, <1>12, DestructorStep

-----------------------------------------------------------------------------
(***************************************************************************)
(* The final loop.                                                         *)
(***************************************************************************)
\* A set of numbers up to a bound has a greatest member.
LEMMA GreatestNode ==
  ASSUME NEW S, S \subseteq Ids, S # {}
  PROVE  \E m \in S : \A n \in S : n <= m
<1>1. MaxNodes \in Nat /\ Ids = 1..MaxNodes
  BY ConstantsAssumption DEF Ids
<1>2. PICK R : R = {MaxNodes - n : n \in S}
  OBVIOUS
<1>3. R \subseteq Nat /\ R # {}
  <2>1. \A n \in S : MaxNodes - n \in Nat
    BY <1>1
  <2> QED
    BY <1>2, <2>1
<1>4. PICK r \in R : \A q \in R : r <= q
  BY <1>3, LeastNat
<1>5. PICK m \in S : r = MaxNodes - m
  BY <1>2
<1>6. ASSUME NEW n \in S  PROVE n <= m
  <2>1. MaxNodes - n \in R
    BY <1>2
  <2>2. MaxNodes - m <= MaxNodes - n
    BY <1>4, <1>5, <2>1
  <2>3. m \in Int /\ n \in Int /\ MaxNodes \in Int
    BY <1>1
  <2> QED
    BY <2>2, <2>3
<1> QED
  BY <1>6

\* Only the heap has references when the destructor has let go of the rest.
LEMMA NothingOutside ==
  ASSUME IInv, phase = "draining", NEW n \in Ids
  PROVE  Outside(n) = 0
<1>1. /\ after = Nothing /\ builder.kids = << >> /\ attrs = << >> /\ decs = << >>
      /\ handles[n] = 0
  BY DEF IInv, Quiet, Types, RefTypes
<1>2. Count(<< >>, n) = 0
  BY CountEmpty
<1>3. InProgress(n) = 0
  BY <1>1, <1>2 DEF InProgress, Nothing
<1>4. EntriesIn(attrs, n) = {}
  BY <1>1 DEF EntriesIn
<1>5. Cardinality(EntriesIn(attrs, n)) = 0
  BY <1>4, FS_EmptySet
<1> QED
  BY <1>1, <1>2, <1>3, <1>5 DEF Outside

\* When there are no zombies, a maxed-out node is at the top of what is left
\* above a set that has the children of its members.
LEMMA TopMaxed ==
  ASSUME IInv, phase = "draining", ~reclaiming, zombies = {}, NEW U, Downward(U),
         DOMAIN heap \ U # {}
  PROVE  \E n \in DOMAIN heap \ U : n \in Maxed /\ Inside(n) = 0
<1>1. Types /\ Older /\ Exact /\ Accounted /\ batch = {} /\ DOMAIN heap \subseteq Ids
  BY DEF IInv, Accounted, Types, HeapTypes
<1>2. PICK n \in DOMAIN heap \ U : \A m \in DOMAIN heap \ U : m <= n
  BY <1>1, GreatestNode
<1>3. n \in Ids /\ n \in DOMAIN heap
  BY <1>1
<1>4. ~(\E m \in DOMAIN heap : n \in Kids(m))
  <2>1. SUFFICES ASSUME NEW m \in DOMAIN heap, n \in Kids(m)  PROVE FALSE
    OBVIOUS
  <2>2. n < m /\ n \in Int /\ m \in Int
    BY <1>1, <1>3, <2>1 DEF Older, Ids
  <2>3. m \in U
    BY <1>2, <2>2
  <2> QED
    BY <2>1, <2>3 DEF Downward
<1>5. Inside(n) = 0
  BY <1>1, <1>3, <1>4, ChildInside, Terms
<1>6. Outside(n) = 0 /\ References(n) = Outside(n) + Inside(n)
  BY <1>1, <1>3, NothingOutside, Terms
<1>7. heap[n].rc # 0 /\ heap[n].rc \in 0..MaxRC
  BY <1>1, <1>3 DEF Accounted, Types, HeapTypes, Value
<1>8. heap[n].rc < MaxRC => heap[n].rc = References(n)
  BY <1>1, <1>3 DEF Exact
<1>9. heap[n].rc = MaxRC
  BY <1>5, <1>6, <1>7, <1>8, ConstantsAssumption
<1> QED
  BY <1>3, <1>5, <1>9 DEF Maxed

\* The end: no node is left.
LEMMA EndDestroyStep ==
  ASSUME IInv, instance' = instance, EndDestroy
  PROVE  IInv'
<1>1. /\ Types /\ Quiet /\ Tracked /\ Ordered /\ maxedOut = << >> /\ ToSet(sort.order) = Maxed
      /\ phase = "draining" /\ ~reclaiming /\ zombies = {} /\ sort.order = << >>
      /\ phase' = "gone" /\ UNCHANGED <<mem, refs, gc, op, sort>>
  BY DEF IInv, EndDestroy, Tracked
<1>2. UNCHANGED <<heap, nextId, pool, zombies, maxedOut>>
  BY <1>1 DEF mem
<1>3. UNCHANGED <<handles, builder, attrs, reclaiming, batch, decs, after>>
  BY <1>1 DEF refs, gc, op
<1>4. Maxed = {}
  BY <1>1 DEF ToSet
<1>5. DOMAIN heap = {}
  <2>1. Downward({})
    BY DEF Downward
  <2>2. DOMAIN heap \ {} # {} => \E n \in DOMAIN heap \ {} : n \in Maxed /\ Inside(n) = 0
    BY <1>1, <2>1, TopMaxed
  <2> QED
    BY <1>4, <2>2
<1>6. Quiet'
  BY <1>1, <1>2, <1>3, <1>5 DEF Quiet, Ids
<1>7. SortTypes' /\ maxedOut' \in Seq(Ids)
  BY <1>1, <1>2 DEF Types, HeapTypes, SortTypes, Ids
<1>8. Ordered' /\ Maxed' = Maxed
  BY <1>1, <1>2, OrderSame DEF Maxed
<1>9. Tracked'
  BY <1>1, <1>2, <1>8 DEF Tracked
<1>10. UNCHANGED <<heap, nextId, pool, zombies, refs, gc, op>>
  BY <1>1, <1>2
<1> QED
  BY <1>6, <1>7, <1>9, <1>10, DestructorStep

\* The zombies of the destructor become a batch.
LEMMA DrainZombiesStep ==
  ASSUME IInv, instance' = instance, DrainZombies
  PROVE  IInv'
<1>1. /\ Types /\ Older /\ Bounded /\ Exact /\ Accounted /\ Kept /\ Quiet /\ Tracked
  BY DEF IInv
<1>2. /\ phase = "draining" /\ ~reclaiming /\ StartReclaim(heap, zombies)
      /\ UNCHANGED <<heap, nextId, pool, maxedOut, refs, op, phase, sort>>
  BY DEF DrainZombies
<1>3. UNCHANGED <<handles, builder, attrs, decs, after>>
  BY <1>2 DEF refs, op
<1>4. reclaiming' = TRUE /\ zombies' = {} /\ batch' = {n \in zombies : heap[n].rc = 0}
  BY <1>2 DEF StartReclaim, Batch
<1>5. MaxArity' = MaxArity /\ Value' = Value /\ Ids' = Ids
  BY DEF MaxArity, Value, Kinds, Constants, Ids
<1>6. Types'
  <2>1. HeapTypes' /\ (instance \in Instances)'
    BY <1>1, <1>2, <1>4, <1>5 DEF Types, HeapTypes
  <2>2. RefTypes' /\ OpTypes' /\ SortTypes'
    BY <1>1, <1>2, <1>3, <1>5 DEF Types, RefTypes, OpTypes, SortTypes, Nothing
  <2> QED
    BY <2>1, <2>2 DEF Types
<1>7. SameNodes
  BY <1>2 DEF SameNodes
<1>8. Older'
  BY <1>1, <1>2, <1>7, OlderSame
<1>9. Bounded'
  BY <1>1, <1>3, ObjectsNow DEF Bounded, Ids
<1>10. \A n : References(n)' = References(n)
  BY <1>2, <1>3, <1>5 DEF References, InProgress, Entries, Places, Count
<1>11. Exact'
  BY <1>1, <1>2, <1>5, <1>10 DEF Exact
<1>12. Accounted'
  BY <1>1, <1>2, <1>4 DEF Accounted
<1>13. after.kind = "nothing"
  BY <1>1, <1>2 DEF Quiet, Nothing
<1>14. Kept'
  BY <1>3, <1>13 DEF Kept
<1>15. Quiet'
  BY <1>1, <1>2, <1>3 DEF Quiet, Ids
<1>16. Tracked'
  BY <1>1, <1>2, TrackedSame
<1> QED
  BY <1>6, <1>8, <1>9, <1>11, <1>12, <1>14, <1>15, <1>16 DEF IInv

\* The last of the order is not a child of any node, when there are no zombies.
LEMMA LastOnTop ==
  ASSUME IInv, phase = "draining", ~reclaiming, zombies = {}, sort.order # << >>,
         NEW n, n = Last(sort.order)
  PROVE  n \in Maxed /\ Inside(n) = 0
<1>0. PICK l : l = Len(sort.order)
  OBVIOUS
<1>1. Types /\ Tracked /\ Ordered /\ ToSet(sort.order) = Maxed
  BY DEF IInv, Tracked
<1>2. sort.order \in Seq(Ids)
  BY <1>1 DEF Types, SortTypes
<1>3. l \in Nat /\ l > 0 /\ n = sort.order[l] /\ DOMAIN sort.order = 1..l /\ l \in 1..l
  <2>1. PICK o : o = sort.order
    OBVIOUS
  <2>2. o \in Seq(Ids) /\ o # << >> /\ l = Len(o) /\ n = Last(o)
    BY <1>0, <1>2, <2>1
  <2>3. l \in Nat /\ l > 0 /\ n = o[l] /\ DOMAIN o = 1..l
    BY ONLY <2>2, StackPopped
  <2> QED
    BY <2>1, <2>3
<1>4. Maxed = {sort.order[i] : i \in 1..l}
  BY <1>1, <1>3 DEF ToSet
<1>5. PICK U : U = UNION {C \in SUBSET Ids : \E i \in 1..(l - 1) : Separates(C, i)}
  OBVIOUS
<1>6. Downward(U)
  <2>1. ASSUME NEW m \in U, m \in DOMAIN heap, NEW k \in Kids(m)  PROVE k \in U
    <3>1. PICK C \in SUBSET Ids : m \in C /\ \E i \in 1..(l - 1) : Separates(C, i)
      BY <1>5, <2>1
    <3>2. k \in C
      BY <2>1, <3>1 DEF Separates, Downward
    <3> QED
      BY <1>5, <3>1, <3>2
  <2> QED
    BY <2>1 DEF Downward
<1>7. n \notin U
  <2>1. SUFFICES ASSUME NEW C \in SUBSET Ids, NEW i \in 1..(l - 1), Separates(C, i), n \in C
                 PROVE  FALSE
    BY <1>5
  <2>2. l > i
    BY <1>3
  <2> QED
    BY <1>3, <2>1, <2>2 DEF Separates
<1>8. \A i \in 1..(l - 1) : sort.order[i] \in U
  <2> TAKE i \in 1..(l - 1)
  <2>1. i \in 1..l
    BY <1>3
  <2>2. PICK C \in SUBSET Ids : Separates(C, i)
    BY <1>1, <1>3, <2>1 DEF Ordered
  <2>3. sort.order[i] \in C
    BY <2>2 DEF Separates
  <2> QED
    BY <1>5, <2>2, <2>3
<1>9. n \in DOMAIN heap \ U
  BY <1>3, <1>4, <1>7 DEF Maxed
<1>10. PICK m \in DOMAIN heap \ U : m \in Maxed /\ Inside(m) = 0
  BY <1>6, <1>9, TopMaxed
<1>11. PICK i \in 1..l : m = sort.order[i]
  BY <1>4, <1>10
<1>12. i = l
  <2>1. i \in 1..(l - 1) \/ i = l
    BY <1>3
  <2> QED
    BY <1>8, <1>10, <1>11, <2>1
<1> QED
  BY <1>3, <1>10, <1>11, <1>12

\* A maxed-out node that nothing refers to is freed by force.
LEMMA DrainMaxedOutStep ==
  ASSUME IInv, instance' = instance, DrainMaxedOut
  PROVE  IInv'
<1>1. /\ Types /\ Older /\ Bounded /\ Exact /\ Accounted /\ Kept /\ Quiet /\ Tracked /\ Ordered
      /\ ToSet(sort.order) = Maxed /\ sort.roots = << >>
  BY DEF IInv, DrainMaxedOut, Tracked
<1>2. PICK n : n = Last(sort.order)
  OBVIOUS
<1>3. PICK order : order = Front(sort.order)
  OBVIOUS
<1>4. /\ phase = "draining" /\ ~reclaiming /\ zombies = {} /\ sort.order # << >>
      /\ sort' = [sort EXCEPT !.order = order]
      /\ heap' = [heap EXCEPT ![n].rc = 0] /\ MarkForDeletion(heap', {n})
      /\ UNCHANGED <<nextId, pool, maxedOut, refs, op, phase>>
  BY <1>2, <1>3 DEF DrainMaxedOut
<1>5. UNCHANGED <<handles, builder, attrs, decs, after>>
  BY <1>4 DEF refs, op
<1>6. n \in Maxed /\ Inside(n) = 0
  BY <1>2, <1>4, LastOnTop
<1>7. n \in DOMAIN heap /\ n \in Ids /\ heap \in [DOMAIN heap -> Value] /\ DOMAIN heap \subseteq Ids
  BY <1>1, <1>6 DEF Maxed, Types, HeapTypes
<1>8. References(n) = 0
  <2>1. Outside(n) = 0 /\ References(n) = Outside(n) + Inside(n)
    BY <1>1, <1>4, <1>7, NothingOutside, Terms
  <2> QED
    BY <1>6, <2>1
<1>9. MaxRC \in Nat /\ MaxRC > 0
  BY ConstantsAssumption
<1>10. /\ Recounted(heap', heap) /\ heap'[n].rc = 0
       /\ \A m \in DOMAIN heap : m # n => heap'[m].rc = heap[m].rc
  <2>1. heap[n] \in Value /\ [heap[n] EXCEPT !.rc = 0] \in Value
    BY <1>7, <1>9 DEF Value
  <2>2. /\ [heap[n] EXCEPT !.rc = 0].kids = heap[n].kids
        /\ [heap[n] EXCEPT !.rc = 0].kind = heap[n].kind
        /\ [heap[n] EXCEPT !.rc = 0].rc = 0
    BY <2>1 DEF Value
  <2>3. PICK v : v = [heap[n] EXCEPT !.rc = 0]
    OBVIOUS
  <2>4. heap' = [heap EXCEPT ![n] = v]
    BY <1>4, <2>3
  <2>5. v \in Value /\ v.kids = heap[n].kids /\ v.kind = heap[n].kind /\ v.rc = 0
    BY <2>1, <2>2, <2>3
  <2>6. heap'[n] = v /\ DOMAIN heap' = DOMAIN heap /\ \A m \in DOMAIN heap : m # n => heap'[m] = heap[m]
    BY ONLY <1>7, <2>4
  <2>7. heap' \in [DOMAIN heap -> Value]
    BY ONLY <1>7, <2>4, <2>5
  <2> QED
    BY <2>5, <2>6, <2>7 DEF Recounted
<1>11. batch = {}
  BY <1>1, <1>4 DEF Accounted
<1>12. /\ reclaiming' \in BOOLEAN /\ (~reclaiming' => batch' = {})
       /\ zombies' \subseteq {n} /\ batch' \subseteq {n}
       /\ \A m \in batch' : heap'[m].rc = 0 /\ m \notin zombies'
       /\ n \in zombies' \cup batch'
  <2>1. reclaiming \in BOOLEAN
    BY <1>1 DEF Types, HeapTypes
  <2>2. PICK new : new = {n}
    OBVIOUS
  <2>3. MarkForDeletion(heap', new)
    BY <1>4, <2>2
  <2>4. /\ reclaiming' \in BOOLEAN /\ (~reclaiming' => batch' = {})
        /\ zombies' \subseteq zombies \cup new /\ batch' \subseteq zombies \cup new
        /\ \A m \in batch' : heap'[m].rc = 0 /\ m \notin zombies'
        /\ \A m \in zombies \cup new : heap'[m].rc = 0 => m \in zombies' \cup batch'
    <3>1. ~reclaiming
      BY <1>4
    <3>2. PICK h : h = heap'
      OBVIOUS
    <3>3. MarkForDeletion(h, new)
      BY <2>3, <3>2
    <3>4. /\ reclaiming' \in BOOLEAN /\ (~reclaiming' => batch' = {})
          /\ zombies' \subseteq zombies \cup new /\ batch' \subseteq zombies \cup new
          /\ \A m \in batch' : h[m].rc = 0 /\ m \notin zombies'
          /\ \A m \in zombies \cup new : h[m].rc = 0 => m \in zombies' \cup batch'
      BY ONLY <1>11, <2>1, <3>1, <3>3, MarkFacts
    <3> QED
      BY <3>2, <3>4
  <2> QED
    BY <1>4, <1>10, <2>2, <2>4
<1>13. SameNodes /\ HeapTypes' /\ (instance \in Instances)'
  <2>1. UNCHANGED <<instance, nextId, pool>> /\ maxedOut' \in Seq(Ids)
    BY <1>1, <1>4 DEF Types, HeapTypes
  <2>2. zombies' \subseteq DOMAIN heap /\ batch' \subseteq DOMAIN heap
    BY <1>7, <1>12
  <2> QED
    BY <1>1, <1>10, <1>12, <2>1, <2>2, RecountTypes
<1>14. MaxArity' = MaxArity /\ DOMAIN heap' = DOMAIN heap
  BY <1>13 DEF MaxArity, SameNodes
<1>15. sort.order \in Seq(Ids)
  BY <1>1 DEF Types, SortTypes
<1>16. PICK l : l = Len(sort.order)
  OBVIOUS
<1>17. /\ l \in Nat /\ l > 0 /\ n = sort.order[l] /\ DOMAIN sort.order = 1..l
       /\ order \in Seq(Ids) /\ DOMAIN order = 1..(l - 1)
       /\ \A i \in 1..(l - 1) : order[i] = sort.order[i]
  <2>1. PICK o : o = sort.order
    OBVIOUS
  <2>2. o \in Seq(Ids) /\ o # << >> /\ l = Len(o) /\ n = Last(o) /\ order = Front(o)
    BY <1>2, <1>3, <1>4, <1>15, <1>16, <2>1
  <2>3. l \in Nat /\ l > 0 /\ n = o[l] /\ DOMAIN o = 1..l /\ order \in Seq(Ids)
          /\ DOMAIN order = 1..(l - 1) /\ \A i \in 1..(l - 1) : order[i] = o[i]
    BY ONLY <2>2, StackPopped
  <2> QED
    BY <2>1, <2>3
<1>18. /\ sort'.order = order /\ sort'.roots = sort.roots
       /\ sort' = [roots |-> sort.roots, rootSet |-> sort.rootSet, stack |-> sort.stack,
                   visited |-> sort.visited, order |-> order]
  BY <1>1, <1>4 DEF Types, SortTypes
<1>19. RefTypes' /\ OpTypes' /\ SortTypes'
  <2>1. RefTypes' /\ OpTypes'
    BY <1>1, <1>5, <1>14 DEF Types, RefTypes, OpTypes, Ids, Nothing
  <2>2. SortTypes'
    BY <1>1, <1>4, <1>17, <1>18 DEF Types, SortTypes, Ids
  <2> QED
    BY <2>1, <2>2
<1>20. Older'
  BY <1>1, <1>4, <1>13, OlderSame
<1>21. Bounded'
  BY <1>1, <1>5, ObjectsNow DEF Bounded, Ids
<1>22. \A m : References(m)' = References(m)
  <2> TAKE m
  <2>1. Inside(m)' = Inside(m)
    BY <1>13, InsideSame
  <2>2. Outside(m)' = Outside(m)
    BY <1>5 DEF Outside, InProgress
  <2>3. References(m) = Outside(m) + Inside(m) /\ References(m)' = Outside(m)' + Inside(m)'
    BY DEF References, Outside, Inside, Entries, EntriesIn, Places, PlacesIn
  <2> QED
    BY ONLY <2>1, <2>2, <2>3
<1>23. Exact'
  <2>1. ASSUME NEW m \in DOMAIN heap, heap'[m].rc < MaxRC  PROVE heap'[m].rc = References(m)
    <3>1. CASE m = n
      BY <1>8, <1>10, <3>1
    <3>2. CASE m # n
      BY <1>1, <1>10, <2>1, <3>2 DEF Exact
    <3> QED
      BY <3>1, <3>2
  <2>2. \A m \in Ids \ DOMAIN heap : References(m) = 0
    BY <1>1 DEF Exact
  <2> QED
    BY <1>14, <1>22, <2>1, <2>2 DEF Exact, Ids
<1>24. Accounted'
  <2>1. \A m \in DOMAIN heap : heap'[m].rc = 0 => m = n
    BY <1>1, <1>4, <1>10, <1>11 DEF Accounted
  <2> QED
    BY <1>12, <1>14, <2>1 DEF Accounted
<1>25. after.kind = "nothing"
  BY <1>1, <1>4 DEF Quiet, Nothing
<1>26. Kept'
  BY <1>5, <1>25 DEF Kept
<1>27. Quiet'
  BY <1>1, <1>4, <1>5 DEF Quiet, Ids
<1>28. \A i \in 1..(l - 1) : i \in 1..l /\ i # l
  BY <1>17
<1>29. Ordered'
  <2>1. \A i, j \in 1..(l - 1) : order[i] = order[j] => i = j
    BY <1>1, <1>17, <1>28 DEF Ordered
  <2>2. \A C : Downward(C) => Downward(C)'
    BY <1>13, <1>14 DEF SameNodes, Downward, Kids
  <2>3. ASSUME NEW i \in 1..(l - 1)  PROVE \E C \in SUBSET Ids : Separates(C, i)'
    <3>1. PICK C \in SUBSET Ids : Separates(C, i)
      BY <1>1, <1>17, <1>28 DEF Ordered
    <3>2. Separates(C, i)'
      BY <1>17, <1>18, <1>28, <2>2, <3>1 DEF Separates
    <3> QED
      BY <3>2
  <2> QED
    BY <1>17, <1>18, <2>1, <2>3 DEF Ordered, Ids
<1>30. Maxed' = Maxed \ {n}
  <2>1. \A m \in DOMAIN heap : heap'[m].rc = MaxRC <=> heap[m].rc = MaxRC /\ m # n
    BY <1>9, <1>10
  <2> QED
    BY <1>14, <2>1 DEF Maxed
<1>31. ToSet(order) = ToSet(sort.order) \ {n}
  <2>1. \A i \in 1..l : i \in 1..(l - 1) \/ i = l
    BY <1>17
  <2>2. \A i \in 1..(l - 1) : sort.order[i] # n
    <3>1. l \in 1..l
      BY <1>17
    <3> QED
      BY <1>1, <1>17, <1>28, <3>1 DEF Ordered
  <2>3. ToSet(order) = {order[i] : i \in 1..(l - 1)} /\ ToSet(sort.order) = {sort.order[i] : i \in 1..l}
    BY <1>17 DEF ToSet
  <2> QED
    BY <1>17, <1>28, <2>1, <2>2, <2>3
<1>32. Tracked'
  BY <1>1, <1>4, <1>18, <1>29, <1>30, <1>31 DEF Tracked
<1> QED
  BY <1>13, <1>19, <1>20, <1>21, <1>23, <1>24, <1>26, <1>27, <1>32 DEF IInv, Types

-----------------------------------------------------------------------------
(***************************************************************************)
(* The theorems.                                                           *)
(***************************************************************************)
\* The node manager starts with no nodes and no references.
LEMMA InitIInv ==
  ASSUME Init
  PROVE  IInv
<1>1. /\ instance \in Instances /\ heap = << >> /\ nextId = 1 /\ pool = {} /\ zombies = {}
      /\ maxedOut = << >> /\ handles = [n \in Ids |-> 0] /\ builder = Closed /\ attrs = << >>
      /\ reclaiming = FALSE /\ batch = {} /\ decs = << >> /\ after = Nothing
      /\ phase = "live" /\ sort = NoSort
  BY DEF Init
<1>2. MaxArity \in Nat /\ MaxNodes \in Nat /\ MaxHandles \in Nat
  BY <1>1, Bounds
<1>3. DOMAIN heap = {} /\ DOMAIN attrs = {}
  BY <1>1
<1>4. Types
  <2>1. HeapTypes
    <3>1. heap \in [DOMAIN heap -> Value]
      BY <1>1
    <3>2. nextId \in 1..(MaxNodes + 1)
      BY <1>1, <1>2
    <3>3. /\ DOMAIN heap \subseteq Ids /\ pool \subseteq DOMAIN heap
          /\ zombies \subseteq DOMAIN heap /\ batch \subseteq DOMAIN heap
          /\ maxedOut \in Seq(Ids)
      BY <1>1, <1>3
    <3>4. reclaiming \in BOOLEAN
      BY <1>1, Zenon
    <3> QED
      BY <3>1, <3>2, <3>3, <3>4 DEF HeapTypes
  <2>2. RefTypes
    BY <1>1, <1>2, <1>3 DEF RefTypes, Closed
  <2>3. OpTypes /\ SortTypes
    BY <1>1 DEF OpTypes, SortTypes, NoSort
  <2> QED
    BY <1>1, <2>1, <2>2, <2>3 DEF Types
<1>5. Older
  BY <1>3 DEF Older
<1>6. Bounded
  <2>1. handles \in [Ids -> 0..MaxHandles]
    BY <1>1, <1>2
  <2>2. ObjectsOf(handles) = {}
    BY <1>1, <1>2 DEF ObjectsOf
  <2>3. Cardinality(Objects) = 0
    BY <2>2, ObjectsNow, FS_EmptySet
  <2> QED
    BY <1>1, <1>2, <2>1, <2>3 DEF Bounded, Nothing
<1>7. Exact
  <2>1. ASSUME NEW n \in Ids  PROVE References(n) = 0
    <3>1. Count(<< >>, n) = 0
      BY CountEmpty
    <3>2. InProgress(n) = 0
      BY <1>1, <3>1 DEF InProgress, Nothing
    <3>3. EntriesIn(attrs, n) = {} /\ PlacesIn(heap, MaxArity, n) = {}
      BY <1>3 DEF EntriesIn, PlacesIn
    <3>4. Cardinality(EntriesIn(attrs, n)) = 0 /\ Cardinality(PlacesIn(heap, MaxArity, n)) = 0
      BY <3>3, FS_EmptySet
    <3>5. handles[n] = 0 /\ Count(builder.kids, n) = 0
      BY <1>1, <3>1 DEF Closed
    <3>6. Outside(n) = 0 /\ Inside(n) = 0
      BY <3>2, <3>4, <3>5 DEF Outside, Inside
    <3>7. References(n) = Outside(n) + Inside(n)
      BY Split
    <3> QED
      BY <3>6, <3>7
  <2> QED
    BY <1>3, <2>1 DEF Exact
<1>8. Accounted
  BY <1>1, <1>3 DEF Accounted
<1>9. Kept /\ Quiet
  BY <1>1 DEF Kept, Quiet, Nothing
<1>10. Tracked
  <2>1. Maxed = {}
    BY <1>3 DEF Maxed
  <2> QED
    BY <1>1, <2>1 DEF Tracked, ToSet
<1> QED
  BY <1>4, <1>5, <1>6, <1>7, <1>8, <1>9, <1>10 DEF IInv

\* Nothing changes.
LEMMA StutterStep ==
  ASSUME IInv, UNCHANGED vars
  PROVE  IInv'
<1>1. /\ instance' = instance /\ UNCHANGED <<mem, refs, gc, op, phase, sort>>
  BY DEF vars
<1>2. /\ Types /\ Quiet /\ Tracked
  BY DEF IInv
<1>3. UNCHANGED <<heap, nextId, pool, zombies, maxedOut>>
  BY <1>1 DEF mem
<1>4. UNCHANGED <<handles, builder, attrs, reclaiming, batch, decs, after>>
  BY <1>1 DEF refs, gc, op
<1>5. maxedOut' \in Seq(Ids) /\ SortTypes'
  BY <1>1, <1>2, <1>3 DEF Types, HeapTypes, SortTypes, Ids
<1>6. Quiet'
  BY <1>1, <1>2, <1>3, <1>4 DEF Quiet, Ids
<1>7. Tracked'
  BY <1>1, <1>2, <1>3, TrackedSame
<1>8. UNCHANGED <<heap, nextId, pool, zombies, refs, gc, op>>
  BY <1>1, <1>3
<1> QED
  BY <1>1, <1>5, <1>6, <1>7, <1>8, DestructorStep

\* Every step keeps the inductive invariant.
LEMMA NextIInv ==
  ASSUME IInv, [Next]_vars
  PROVE  IInv'
<1>1. CASE UNCHANGED vars
  BY <1>1, StutterStep
<1>2. CASE Internal
  <2>1. instance' = instance
    BY <1>2 DEF Internal
  <2>2. CASE DecNext
    BY <2>1, <2>2, DecNextStep
  <2>3. CASE WrapResult
    BY <2>1, <2>3, WrapResultStep
  <2>4. CASE StoreAttribute
    BY <2>1, <2>4, StoreAttributeStep
  <2>5. CASE \E n \in Ids : Reclaim(n)
    BY <2>1, <2>5, ReclaimStep
  <2>6. CASE EndReclaim
    BY <2>1, <2>6, EndReclaimStep
  <2>7. CASE StartSort
    BY <2>1, <2>7, StartSortStep
  <2>8. CASE SortRoot
    BY <2>1, <2>8, SortRootStep
  <2>9. CASE SortVisit
    BY <2>1, <2>9, SortVisitStep
  <2>10. CASE EndSort
    BY <2>1, <2>10, EndSortStep
  <2>11. CASE DrainZombies
    BY <2>1, <2>11, DrainZombiesStep
  <2>12. CASE DrainMaxedOut
    BY <2>1, <2>12, DrainMaxedOutStep
  <2>13. CASE EndDestroy
    BY <2>1, <2>13, EndDestroyStep
  <2> QED
    BY <1>2, <2>2, <2>3, <2>4, <2>5, <2>6, <2>7, <2>8, <2>9, <2>10, <2>11, <2>12, <2>13
       DEF Internal
<1>3. CASE Client
  <2>1. instance' = instance
    BY <1>3 DEF Client
  <2>2. ASSUME NEW kind \in Kinds, MkVar(kind)  PROVE IInv'
    BY <2>1, <2>2, MkVarStep
  <2>3. ASSUME NEW kind \in Kinds, MkConst(kind)  PROVE IInv'
    BY <2>1, <2>3, MkConstStep
  <2>4. ASSUME NEW kind \in Kinds, StartBuilder(kind)  PROVE IInv'
    BY <2>1, <2>4, StartBuilderStep
  <2>5. ASSUME NEW n \in Ids, AppendChild(n)  PROVE IInv'
    BY <2>1, <2>5, AppendChildStep
  <2>6. ASSUME NEW n \in Ids, Copy(n)  PROVE IInv'
    BY <2>1, <2>6, CopyStep
  <2>7. ASSUME NEW n \in Ids, Drop(n)  PROVE IInv'
    BY <2>1, <2>7, DropStep
  <2>8. ASSUME NEW n \in Ids, NEW m \in Ids, Assign(n, m)  PROVE IInv'
    BY <2>1, <2>8, AssignStep
  <2>9. ASSUME NEW n \in Ids, NEW m \in Ids, SetAttribute(n, m)  PROVE IInv'
    BY <2>1, <2>9, SetAttributeStep
  <2>10. CASE ConstructFound
    BY <2>1, <2>10, ConstructFoundStep
  <2>11. CASE ConstructNew
    BY <2>1, <2>11, ConstructNewStep
  <2>12. CASE DropBuilder
    BY <2>1, <2>12, DropBuilderStep
  <2>13. CASE Destroy
    BY <2>1, <2>13, DestroyStep
  <2> QED
    BY <1>3, <2>2, <2>3, <2>4, <2>5, <2>6, <2>7, <2>8, <2>9, <2>10, <2>11, <2>12, <2>13
       DEF Client
<1> QED
  BY <1>1, <1>2, <1>3 DEF Next

\* All that the argument needs of the state holds always.
THEOREM NodeInvariant == Spec => []IInv
<1>1. Init => IInv
  BY InitIInv
<1>2. IInv /\ [Next]_vars => IInv'
  BY NextIInv
<1> QED
  BY <1>1, <1>2, PTL DEF Spec

\* The variables of the node manager have their types; no count is negative and
\* none exceeds its maximum.
THEOREM NodeTypeCorrect == Spec => []TypeOK
<1>1. IInv => TypeOK
  <2> SUFFICES ASSUME IInv  PROVE TypeOK
    OBVIOUS
  <2>1. Types /\ Bounded
    BY DEF IInv
  <2>2. DOMAIN heap \subseteq Ids /\ \A n \in DOMAIN heap : heap[n] \in Value
    BY <2>1 DEF Types, HeapTypes
  <2>3. /\ nextId \in 1..(MaxNodes + 1) /\ pool \subseteq Ids /\ zombies \subseteq Ids
        /\ maxedOut \in Seq(Ids) /\ reclaiming \in BOOLEAN /\ batch \subseteq Ids
    BY <2>1 DEF Types, HeapTypes
  <2>4. /\ handles \in [Ids -> 0..MaxHandles]
        /\ builder.open \in BOOLEAN /\ builder.kids \in Seq(Ids)
        /\ DOMAIN attrs \subseteq Ids /\ \A n \in DOMAIN attrs : attrs[n] \in Ids
    BY <2>1, <2>2 DEF Types, RefTypes, Bounded
  <2>5. decs \in Seq(Ids) /\ after.kind \in {"nothing", "wrap", "store"}
    BY <2>1 DEF Types, OpTypes, Nothing
  <2>6. phase \in {"live", "dropping", "sorting", "draining", "gone"}
    BY <2>1 DEF Types, SortTypes
  <2> QED
    BY <2>2, <2>3, <2>4, <2>5, <2>6 DEF TypeOK
<1> QED
  BY <1>1, NodeInvariant, PTL

\* Whatever the program can still reach is allocated: batches inside operations,
\* revived zombies and the order of the final loop free nothing too early.
THEOREM NothingDangles == Spec => []NoDangling
<1>1. IInv => NoDangling
  <2> SUFFICES ASSUME IInv  PROVE NoDangling
    OBVIOUS
  <2>1. Types /\ Older /\ Exact /\ Kept /\ Tracked
    BY DEF IInv
  <2>2. /\ \A n \in Ids : handles[n] > 0 => n \in DOMAIN heap
        /\ ToSet(builder.kids) \subseteq DOMAIN heap
        /\ ToSet(decs) \subseteq DOMAIN heap
        /\ after.kind = "store" => after.node \in DOMAIN heap
        /\ \A k \in DOMAIN attrs : attrs[k] \in DOMAIN heap
        /\ \A n \in DOMAIN heap : Kids(n) \subseteq DOMAIN heap
    BY <2>1, Held
  <2>3. {after.node, after.key} \subseteq DOMAIN heap \cup {Null}
    <3>1. CASE after = Nothing
      BY <3>1 DEF Nothing
    <3>2. CASE after \in [kind : {"wrap"}, node : Ids, key : {Null}]
      <4>1. after.kind = "wrap" /\ after.key = Null
        BY <3>2
      <4> QED
        BY <2>1, <4>1 DEF Kept
    <3>3. CASE after \in [kind : {"store"}, node : Ids, key : Ids]
      <4>1. after.kind = "store" /\ after.key \in Ids
        BY <3>3
      <4>2. handles[after.key] > 0
        BY <2>1, <4>1 DEF Kept
      <4> QED
        BY <2>2, <4>1, <4>2
    <3> QED
      BY <2>1, <3>1, <3>2, <3>3 DEF Types, OpTypes
  <2>4. pool \cup zombies \cup batch \subseteq DOMAIN heap /\ DOMAIN attrs \subseteq DOMAIN heap
    BY <2>1 DEF Types, HeapTypes, RefTypes
  <2>5. ToSet(maxedOut) \cup ToSet(sort.roots) \cup ToSet(sort.order) \subseteq DOMAIN heap
    <3>1. Maxed \subseteq DOMAIN heap
      BY DEF Maxed
    <3>2. ToSet(<< >>) = {}
      BY DEF ToSet
    <3>3. CASE phase \in {"live", "dropping"}
      BY <2>1, <3>1, <3>2, <3>3 DEF Tracked, NoSort
    <3>4. CASE phase = "sorting"
      <4>1. maxedOut = << >> /\ Searching
        BY <2>1, <3>4 DEF Tracked
      <4> QED
        BY <3>1, <3>2, <4>1, SearchParts
    <3>5. CASE phase \in {"draining", "gone"}
      BY <2>1, <3>1, <3>2, <3>5 DEF Tracked
    <3> QED
      BY <2>1, <3>3, <3>4, <3>5 DEF Types, SortTypes
  <2> QED
    BY <2>2, <2>3, <2>4, <2>5 DEF NoDangling, Kids
<1> QED
  BY <1>1, NodeInvariant, PTL

\* inc() and dec() keep the count of a node equal to the number of references to
\* it, until it is maxed out.
THEOREM CountsExact == Spec => []RefCountExact
<1>1. IInv => RefCountExact
  <2> SUFFICES ASSUME IInv, NEW n \in DOMAIN heap  PROVE heap[n].rc \in {References(n), MaxRC}
    BY DEF RefCountExact
  <2>1. heap[n].rc \in 0..MaxRC
    BY DEF IInv, Types, HeapTypes, Value
  <2>2. heap[n].rc < MaxRC => heap[n].rc = References(n)
    BY DEF IInv, Exact
  <2> QED
    BY <2>1, <2>2, ConstantsAssumption
<1> QED
  BY <1>1, NodeInvariant, PTL

\* No unreferenced node is lost between d_zombies and the batches.
THEOREM ZombiesKnown == Spec => []ZombiesAccounted
<1>1. IInv => ZombiesAccounted
  BY DEF IInv, Accounted, ZombiesAccounted
<1> QED
  BY <1>1, NodeInvariant, PTL

\* When ~NodeManager has ended its final loop, every node is freed, the maxed-out
\* ones included.
AllFreed == phase = "gone" => DOMAIN heap = {}

\* ~NodeManager leaks nothing: the search finds all maxed-out nodes, in an order
\* in which each is the last that refers to it.
THEOREM DestructorFreesAll == Spec => []AllFreed
<1>1. IInv => AllFreed
  BY DEF IInv, Quiet, AllFreed
<1> QED
  BY <1>1, NodeInvariant, PTL

=============================================================================
