--------------------------- MODULE SequenceLemmas ---------------------------
(***************************************************************************)
(* Facts about sequences and naturals that the proofs of this project      *)
(* share: what SubSeq, Append, concatenation and Only return, and          *)
(* induction over the naturals as a fact about sets.                       *)
(***************************************************************************)
EXTENDS Integers, Sequences, SequencesExt, Filter, SequenceTheorems, WellFoundedInduction, TLAPS

\* A nonempty set of naturals has a least element: induction over the
\* naturals, stated with a set instead of a predicate.
LEMMA LeastNat ==
  ASSUME NEW T, T \subseteq Nat, T # {}
  PROVE  \E m \in T : \A n \in T : m <= n
<1> DEFINE R == {p \in Nat \X Nat : p[1] < p[2]}
<1>1. IsWellFoundedOn(R, Nat)
  BY NatLessThanWellFounded DEF OpToRel
<1>2. \A y, x \in Nat : y < x => <<y, x>> \in R
  OBVIOUS
<1> HIDE DEF R
<1>3. PICK x \in T : \A y \in T : ~(<<y, x>> \in R)
  BY <1>1, WFMin
<1>4. \A y \in T : ~(y < x)
  BY <1>2, <1>3
<1>5. \A y \in T : x <= y
  BY <1>4
<1> QED
  BY <1>5

\* A function on 1..n is a sequence of length n.
LEMMA FunctionIsSeq ==
  ASSUME NEW S, NEW n \in Nat, NEW f \in [1..n -> S]
  PROVE  f \in Seq(S) /\ Len(f) = n
<1>1. f \in Seq(S)
  BY SeqDef
<1> QED
  BY <1>1, LenProperties

\* A prefix of a sequence.
LEMMA Prefix ==
  ASSUME NEW S, NEW s \in Seq(S), NEW n \in 0..Len(s)
  PROVE  /\ SubSeq(s, 1, n) \in Seq(S) /\ Len(SubSeq(s, 1, n)) = n
         /\ \A i \in 1..n : SubSeq(s, 1, n)[i] = s[i]
<1>1. n \in Int /\ 1 \in Int /\ \A i \in 1..n : s[i] \in S
  OBVIOUS
<1> QED
  BY <1>1, SubSeqProperties

\* A segment of a sequence.
LEMMA Segment ==
  ASSUME NEW S, NEW s \in Seq(S), NEW a \in Nat \ {0}, NEW b \in 0..Len(s)
  PROVE  LET t == SubSeq(s, a, b) IN
         /\ t \in Seq(S) /\ Len(t) = IF a <= b THEN b - a + 1 ELSE 0
         /\ \A i \in 1..Len(t) : t[i] = s[a + i - 1] /\ a + i - 1 \in 1..b
<1>1. a \in Int /\ b \in Int /\ Len(s) \in Nat /\ \A i \in a..b : s[i] \in S
  OBVIOUS
<1>2. PICK t : t = SubSeq(s, a, b)
  OBVIOUS
<1>3. /\ t \in Seq(S) /\ Len(t) = IF a <= b THEN b - a + 1 ELSE 0
      /\ \A i \in 1..(b - a + 1) : t[i] = s[a + i - 1]
  BY <1>1, <1>2, SubSeqProperties
<1>4. \A i \in 1..Len(t) : i \in 1..(b - a + 1) /\ a + i - 1 \in 1..b
  BY <1>1, <1>3
<1> QED
  BY <1>2, <1>3, <1>4

\* The elements of a segment.
LEMMA SegmentSet ==
  ASSUME NEW S, NEW s \in Seq(S), NEW a \in Nat \ {0}, NEW b \in 0..Len(s)
  PROVE  ToSet(SubSeq(s, a, b)) = {s[p] : p \in a..b}
<1>1. PICK t : t = SubSeq(s, a, b)
  OBVIOUS
<1>2. /\ t \in Seq(S) /\ Len(t) = IF a <= b THEN b - a + 1 ELSE 0
      /\ \A i \in 1..Len(t) : t[i] = s[a + i - 1] /\ a + i - 1 \in a..b
  BY <1>1, Segment
<1>3. DOMAIN t = 1..Len(t) /\ Len(s) \in Nat
  BY <1>2
<1>4. ASSUME NEW p \in a..b PROVE \E i \in 1..Len(t) : t[i] = s[p]
  <2>1. p - a + 1 \in 1..Len(t) /\ a + (p - a + 1) - 1 = p
    BY <1>2, <1>3
  <2> QED
    BY <1>2, <2>1
<1>5. {t[i] : i \in 1..Len(t)} = {s[p] : p \in a..b}
  <2>1. \A i \in 1..Len(t) : t[i] \in {s[p] : p \in a..b}
    BY <1>2
  <2>2. \A p \in a..b : s[p] \in {t[i] : i \in 1..Len(t)}
    BY <1>4
  <2> QED
    BY <2>1, <2>2
<1> QED
  BY <1>1, <1>3, <1>5 DEF ToSet

\* The elements of a sequence.
LEMMA SeqSet ==
  ASSUME NEW S, NEW s \in Seq(S)
  PROVE  /\ ToSet(s) = {s[p] : p \in 1..Len(s)}
         /\ ToSet(s) \subseteq S
BY DEF ToSet

\* A concatenation.
LEMMA Concat ==
  ASSUME NEW S, NEW s \in Seq(S), NEW t \in Seq(S)
  PROVE  /\ s \o t \in Seq(S) /\ Len(s \o t) = Len(s) + Len(t)
         /\ \A i \in 1..Len(s) : (s \o t)[i] = s[i]
         /\ \A i \in 1..Len(t) : (s \o t)[Len(s) + i] = t[i]
         /\ \A p \in 1..(Len(s) + Len(t)) :
                p \in 1..Len(s) \/ \E i \in 1..Len(t) : p = Len(s) + i
<1>1. \A p \in 1..(Len(s) + Len(t)) :
         p \in 1..Len(s) \/ (p - Len(s) \in 1..Len(t) /\ p = Len(s) + (p - Len(s)))
  OBVIOUS
<1> QED
  BY <1>1, ConcatProperties

\* The elements of a concatenation.
LEMMA ConcatSet ==
  ASSUME NEW S, NEW s \in Seq(S), NEW t \in Seq(S)
  PROVE  ToSet(s \o t) = ToSet(s) \cup ToSet(t)
<1>1. PICK u \in Seq(S) : u = s \o t
  BY Concat
<1>2. /\ Len(u) = Len(s) + Len(t) /\ Len(s) \in Nat /\ Len(t) \in Nat
      /\ \A i \in 1..Len(s) : u[i] = s[i]
      /\ \A i \in 1..Len(t) : u[Len(s) + i] = t[i]
      /\ \A p \in 1..(Len(s) + Len(t)) :
            p \in 1..Len(s) \/ \E i \in 1..Len(t) : p = Len(s) + i
  BY <1>1, Concat
<1>3. \A i \in 1..Len(s) : i \in 1..Len(u)
  BY <1>2
<1>4. \A i \in 1..Len(t) : Len(s) + i \in 1..Len(u)
  BY <1>2
<1>5. {u[p] : p \in 1..Len(u)} = {s[p] : p \in 1..Len(s)} \cup {t[p] : p \in 1..Len(t)}
  <2>1. ASSUME NEW p \in 1..Len(u)
        PROVE  u[p] \in {s[i] : i \in 1..Len(s)} \cup {t[i] : i \in 1..Len(t)}
    <3>1. CASE p \in 1..Len(s)
      BY <1>2, <3>1
    <3>2. CASE \E i \in 1..Len(t) : p = Len(s) + i
      BY <1>2, <3>2
    <3> QED
      BY <1>2, <3>1, <3>2
  <2>2. \A p \in 1..Len(s) : s[p] \in {u[i] : i \in 1..Len(u)}
    BY <1>2, <1>3
  <2>3. \A p \in 1..Len(t) : t[p] \in {u[i] : i \in 1..Len(u)}
    BY <1>2, <1>4
  <2> QED
    BY <2>1, <2>2, <2>3
<1>6. /\ ToSet(u) = {u[p] : p \in 1..Len(u)}
      /\ ToSet(s) = {s[p] : p \in 1..Len(s)} /\ ToSet(t) = {t[p] : p \in 1..Len(t)}
  BY SeqSet
<1> QED
  BY <1>1, <1>5, <1>6

\* A sequence of one element.
LEMMA Single ==
  ASSUME NEW S, NEW x \in S
  PROVE  <<x>> \in Seq(S) /\ Len(<<x>>) = 1 /\ <<x>>[1] = x /\ <<x>> # << >>
OBVIOUS

\* Replacing the last element.
LEMMA ReplaceLast ==
  ASSUME NEW S, NEW s \in Seq(S), s # << >>, NEW x \in S
  PROVE  LET t == Append(Front(s), x) IN
         /\ t \in Seq(S) /\ Len(t) = Len(s) /\ t[Len(s)] = x
         /\ \A i \in 1..(Len(s) - 1) : t[i] = s[i]
<1>1. Len(s) \in Nat \ {0} /\ Len(s) - 1 \in 0..Len(s)
  BY EmptySeq
<1>2. /\ Front(s) \in Seq(S) /\ Len(Front(s)) = Len(s) - 1
      /\ \A i \in 1..(Len(s) - 1) : Front(s)[i] = s[i]
  BY <1>1, Prefix DEF Front
<1> QED
  BY <1>1, <1>2

\* A sequence extended by one element.
LEMMA Appended ==
  ASSUME NEW S, NEW s \in Seq(S), NEW x \in S
  PROVE  /\ Append(s, x) \in Seq(S) /\ Len(Append(s, x)) = Len(s) + 1
         /\ \A i \in 1..Len(s) : Append(s, x)[i] = s[i]
         /\ Append(s, x)[Len(s) + 1] = x
         /\ \A i \in 1..(Len(s) + 1) : i \in 1..Len(s) \/ i = Len(s) + 1
OBVIOUS

\* The elements of a sequence extended by one.
LEMMA AppendedSet ==
  ASSUME NEW S, NEW s \in Seq(S), NEW x \in S
  PROVE  ToSet(Append(s, x)) = ToSet(s) \cup {x}
<1>1. PICK t \in Seq(S) : t = Append(s, x)
  BY Appended
<1>2. /\ Len(t) = Len(s) + 1 /\ Len(s) \in Nat
      /\ \A i \in 1..Len(s) : t[i] = s[i]
      /\ t[Len(s) + 1] = x
      /\ \A i \in 1..(Len(s) + 1) : i \in 1..Len(s) \/ i = Len(s) + 1
  BY <1>1, Appended
<1>3. Len(s) + 1 \in 1..Len(t) /\ \A i \in 1..Len(s) : i \in 1..Len(t)
  BY <1>2
<1>4. {t[p] : p \in 1..Len(t)} = {s[p] : p \in 1..Len(s)} \cup {x}
  <2>1. \A p \in 1..Len(t) : t[p] \in {s[i] : i \in 1..Len(s)} \cup {x}
    BY <1>2
  <2>2. \A p \in 1..Len(s) : s[p] \in {t[i] : i \in 1..Len(t)}
    BY <1>2, <1>3
  <2>3. x \in {t[i] : i \in 1..Len(t)}
    BY <1>2, <1>3
  <2> QED
    BY <2>1, <2>2, <2>3
<1>5. ToSet(t) = {t[p] : p \in 1..Len(t)} /\ ToSet(s) = {s[p] : p \in 1..Len(s)}
  BY SeqSet
<1> QED
  BY <1>1, <1>4, <1>5

\* The recursion that defines Only(s, S), for the first n elements.
Filters(f, s, S, n) ==
    f = [i \in 0..n |-> IF i = 0 THEN << >>
                        ELSE IF s[i] \in S THEN Append(f[i - 1], s[i]) ELSE f[i - 1]]

\* The recursion defines a function.
LEMMA FiltersExists ==
  ASSUME NEW T, NEW s \in Seq(T), NEW S, NEW n \in Nat
  PROVE  \E f : Filters(f, s, S, n)
<1> DEFINE Bad == {m \in Nat : ~\E f : Filters(f, s, S, m)}
<1>1. ASSUME NEW m \in Bad, \A k \in Bad : m <= k PROVE FALSE
  <2>1. CASE m = 0
    <3> DEFINE f == [i \in 0..0 |-> << >>]
    <3>1. \A i \in 0..0 : i = 0
      OBVIOUS
    <3>2. Filters(f, s, S, 0)
      BY <3>1 DEF Filters
    <3> QED
      BY <2>1, <3>2
  <2>2. CASE m # 0
    <3>1. m \in Nat /\ m - 1 \in Nat /\ ~(m <= m - 1)
      BY <2>2
    <3>2. m - 1 \notin Bad
      BY <1>1, <3>1
    <3>3. PICK f : Filters(f, s, S, m - 1)
      BY <3>1, <3>2
    <3> DEFINE x == IF s[m] \in S THEN Append(f[m - 1], s[m]) ELSE f[m - 1]
               g == [i \in 0..m |-> IF i = m THEN x ELSE f[i]]
    <3>4. \A i \in 0..(m - 1) : i \in 0..m /\ i # m /\ g[i] = f[i]
      BY <3>1
    <3>5. \A i \in 0..m : i # 0 => i - 1 \in 0..(m - 1)
      BY <3>1
    <3>6. ASSUME NEW i \in 0..m
          PROVE  g[i] = IF i = 0 THEN << >>
                        ELSE IF s[i] \in S THEN Append(g[i - 1], s[i]) ELSE g[i - 1]
      <4>1. CASE i = m
        <5>1. g[i] = x /\ i # 0 /\ g[i - 1] = f[m - 1]
          BY <2>2, <3>4, <3>5, <4>1
        <5> QED
          BY <4>1, <5>1
      <4>2. CASE i # m
        <5>1. i \in 0..(m - 1) /\ g[i] = f[i]
          BY <3>1, <3>4, <4>2
        <5>2. f[i] = IF i = 0 THEN << >>
                     ELSE IF s[i] \in S THEN Append(f[i - 1], s[i]) ELSE f[i - 1]
          BY <3>3, <5>1 DEF Filters
        <5>3. i # 0 => g[i - 1] = f[i - 1]
          BY <3>4, <3>5
        <5> QED
          BY <5>1, <5>2, <5>3
      <4> QED
        BY <4>1, <4>2
    <3>7. g = [i \in 0..m |-> g[i]]
      OBVIOUS
    <3>8. Filters(g, s, S, m)
      <4> HIDE DEF g
      <4> QED
        BY <3>6, <3>7 DEF Filters
    <3> QED
      BY <3>8
  <2> QED
    BY <2>1, <2>2
<1>2. Bad = {}
  <2> SUFFICES ASSUME Bad # {} PROVE FALSE
    OBVIOUS
  <2>1. Bad \subseteq Nat
    OBVIOUS
  <2> HIDE DEF Bad
  <2>2. PICK m \in Bad : \A k \in Bad : m <= k
    BY <2>1, LeastNat
  <2> QED
    BY <1>1, <2>2
<1> QED
  BY <1>2

\* Only(s, S) is a sequence of the elements of s that are in S.
LEMMA OnlySet ==
  ASSUME NEW T, NEW s \in Seq(T), NEW S
  PROVE  /\ Only(s, S) \in Seq(T)
         /\ ToSet(Only(s, S)) = ToSet(s) \cap S
<1> DEFINE n == Len(s)
           F == CHOOSE f : Filters(f, s, S, n)
<1>1. Only(s, S) = F[n]
  BY DEF Only, Filters
<1>2. n \in Nat /\ DOMAIN s = 1..n /\ \A i \in 1..n : s[i] \in T
  OBVIOUS
<1>3. Filters(F, s, S, n)
  BY <1>2, FiltersExists
<1> HIDE DEF F
<1> DEFINE Good(i) == F[i] \in Seq(T) /\ ToSet(F[i]) = {s[p] : p \in 1..i} \cap S
           Bad == {i \in 0..n : ~Good(i)}
<1>4. ASSUME NEW i \in 0..n
      PROVE  F[i] = IF i = 0 THEN << >>
                    ELSE IF s[i] \in S THEN Append(F[i - 1], s[i]) ELSE F[i - 1]
  BY <1>3 DEF Filters
<1>5. ASSUME NEW m \in Bad, \A k \in Bad : m <= k PROVE FALSE
  <2>1. CASE m = 0
    <3>1. F[0] = << >> /\ << >> \in Seq(T) /\ 1..0 = {} /\ ToSet(<< >>) = {}
      BY <1>2, <1>4 DEF ToSet
    <3>2. Good(0)
      BY <3>1
    <3> QED
      BY <2>1, <3>2
  <2>2. CASE m # 0
    <3>1. m \in 1..n /\ m - 1 \in 0..n /\ ~(m <= m - 1)
      BY <1>2, <2>2
    <3>2. Good(m - 1)
      BY <1>5, <3>1
    <3>3. s[m] \in T /\ {s[p] : p \in 1..m} = {s[p] : p \in 1..(m - 1)} \cup {s[m]}
      <4>1. \A p \in 1..m : p \in 1..(m - 1) \/ p = m
        BY <3>1
      <4>2. m \in 1..m /\ \A p \in 1..(m - 1) : p \in 1..m
        BY <3>1
      <4> QED
        BY <1>2, <3>1, <4>1, <4>2
    <3>4. CASE s[m] \in S
      <4>1. F[m] = Append(F[m - 1], s[m])
        BY <1>4, <3>1, <3>4, <2>2
      <4>2. F[m] \in Seq(T) /\ ToSet(F[m]) = ToSet(F[m - 1]) \cup {s[m]}
        BY <3>2, <3>3, <4>1, Appended, AppendedSet
      <4>3. Good(m)
        BY <3>2, <3>3, <3>4, <4>2
      <4> QED
        BY <4>3
    <3>5. CASE s[m] \notin S
      <4>1. F[m] = F[m - 1]
        BY <1>4, <3>1, <3>5, <2>2
      <4>2. Good(m)
        BY <3>2, <3>3, <3>5, <4>1
      <4> QED
        BY <4>2
    <3> QED
      BY <3>4, <3>5
  <2> QED
    BY <2>1, <2>2
<1>6. Bad = {}
  <2> SUFFICES ASSUME Bad # {} PROVE FALSE
    OBVIOUS
  <2>1. Bad \subseteq Nat
    BY <1>2
  <2> HIDE DEF Bad
  <2>2. PICK m \in Bad : \A k \in Bad : m <= k
    BY <2>1, LeastNat
  <2> QED
    BY <1>5, <2>2
<1>7. Good(n)
  <2>1. n \in 0..n
    BY <1>2
  <2> HIDE DEF Good
  <2> QED
    BY <1>6, <2>1
<1> QED
  BY <1>1, <1>7, SeqSet

\* Appending to a function on 1..n extends it by one.
LEMMA AppendFunction ==
  ASSUME NEW n \in Nat, NEW f, f = [k \in 1..(n + 1) |-> f[k]]
  PROVE  f = Append([k \in 1..n |-> f[k]], f[n + 1])
<1> DEFINE S == {f[k] : k \in 1..(n + 1)}
           g == [k \in 1..n |-> f[k]]
<1>1. f \in [1..(n + 1) -> S] /\ n + 1 \in Nat
  OBVIOUS
<1>2. f \in Seq(S) /\ Len(f) = n + 1
  BY <1>1, FunctionIsSeq
<1>3. g \in [1..n -> S] /\ \A k \in 1..n : g[k] = f[k]
  OBVIOUS
<1>4. f[n + 1] \in S
  OBVIOUS
<1> HIDE DEF g, S
<1>5. g \in Seq(S) /\ Len(g) = n
  BY <1>3, FunctionIsSeq
<1>6. /\ Append(g, f[n + 1]) \in Seq(S) /\ Len(Append(g, f[n + 1])) = n + 1
      /\ \A k \in 1..(n + 1) : Append(g, f[n + 1])[k] = f[k]
  <2>1. PICK x \in S : x = f[n + 1]
    BY <1>4
  <2>2. /\ Append(g, x) \in Seq(S) /\ Len(Append(g, x)) = n + 1
        /\ \A k \in 1..n : Append(g, x)[k] = g[k]
        /\ Append(g, x)[n + 1] = x
    BY <1>5
  <2>3. \A k \in 1..(n + 1) : k \in 1..n \/ k = n + 1
    OBVIOUS
  <2>4. \A k \in 1..(n + 1) : Append(g, x)[k] = f[k]
    BY <1>3, <2>1, <2>2, <2>3
  <2> QED
    BY <2>1, <2>2, <2>4
<1>7. f = Append(g, f[n + 1])
  BY <1>2, <1>6, SeqEqual
<1> QED
  BY <1>7 DEF g

\* A prefix as a function.
LEMMA PrefixFunction ==
  ASSUME NEW S, NEW s \in Seq(S), NEW n \in 0..Len(s)
  PROVE  SubSeq(s, 1, n) = [k \in 1..n |-> s[k]]
<1>1. n \in Nat /\ [k \in 1..n |-> s[k]] \in [1..n -> S]
  OBVIOUS
<1>2. [k \in 1..n |-> s[k]] \in Seq(S) /\ Len([k \in 1..n |-> s[k]]) = n
  BY <1>1, FunctionIsSeq
<1> QED
  BY <1>1, <1>2, Prefix, SeqEqual

\* Appending the last element to the rest gives the sequence back.
LEMMA AppendLast ==
  ASSUME NEW S, NEW s \in Seq(S), s # << >>
  PROVE  Append(SubSeq(s, 1, Len(s) - 1), s[Len(s)]) = s
<1> DEFINE n == Len(s)
<1>1. n \in Nat \ {0} /\ n - 1 \in 0..n /\ s[n] \in S
  BY EmptySeq
<1>2. PICK t : t = SubSeq(s, 1, n - 1)
  OBVIOUS
<1>3. t \in Seq(S) /\ Len(t) = n - 1 /\ \A i \in 1..(n - 1) : t[i] = s[i]
  BY <1>1, <1>2, Prefix
<1>4. Append(t, s[n]) \in Seq(S) /\ Len(Append(t, s[n])) = n
  BY <1>1, <1>3
<1>5. \A i \in 1..n : Append(t, s[n])[i] = s[i]
  BY <1>1, <1>3
<1> QED
  BY <1>2, <1>4, <1>5, SeqEqual

\* Induction over the naturals up to n, stated with a set.
LEMMA UpTo ==
  ASSUME NEW n \in Nat, NEW G, 0 \in G, \A i \in 1..n : i - 1 \in G => i \in G
  PROVE  \A i \in 0..n : i \in G
<1> DEFINE Bad == {i \in 0..n : i \notin G}
<1> SUFFICES ASSUME Bad # {} PROVE FALSE
  OBVIOUS
<1>1. Bad \subseteq Nat
  OBVIOUS
<1>2. PICK m \in Bad : \A k \in Bad : m <= k
  <2> HIDE DEF Bad
  <2> QED
    BY <1>1, LeastNat
<1>3. m \in 1..n /\ m - 1 \in 0..n /\ ~(m <= m - 1)
  BY <1>2
<1>4. m - 1 \in G
  BY <1>2, <1>3
<1> QED
  BY <1>2, <1>3, <1>4

\* The recursion defines only one function, and Only is its value.
LEMMA OnlyFilters ==
  ASSUME NEW T, NEW s \in Seq(T), NEW S, NEW f, Filters(f, s, S, Len(s))
  PROVE  Only(s, S) = f[Len(s)]
<1> DEFINE n == Len(s)
           F == CHOOSE g : Filters(g, s, S, n)
           G == {i \in 0..n : F[i] = f[i]}
<1>1. Only(s, S) = F[n]
  BY DEF Only, Filters
<1>2. n \in Nat
  OBVIOUS
<1>3. Filters(F, s, S, n)
  BY <1>2, FiltersExists
<1> HIDE DEF F
<1>4. 0 \in G
  BY <1>2, <1>3 DEF Filters
<1>5. ASSUME NEW i \in 1..n, i - 1 \in G PROVE i \in G
  <2>1. i \in 0..n /\ i # 0 /\ F[i - 1] = f[i - 1]
    BY <1>2, <1>5
  <2>2. /\ F[i] = IF s[i] \in S THEN Append(F[i - 1], s[i]) ELSE F[i - 1]
        /\ f[i] = IF s[i] \in S THEN Append(f[i - 1], s[i]) ELSE f[i - 1]
    BY <1>3, <2>1 DEF Filters
  <2> QED
    BY <2>1, <2>2
<1> HIDE DEF G
<1>6. \A i \in 0..n : i \in G
  BY <1>2, <1>4, <1>5, UpTo
<1>7. n \in G
  BY <1>2, <1>6
<1> QED
  BY <1>1, <1>7 DEF G

\* Only, one element at a time.
LEMMA OnlyAppend ==
  ASSUME NEW T, NEW s \in Seq(T), NEW x \in T, NEW S
  PROVE  Only(Append(s, x), S) = IF x \in S THEN Append(Only(s, S), x) ELSE Only(s, S)
<1> DEFINE n == Len(s)
<1>0. PICK t : t = Append(s, x)
  OBVIOUS
<1>1. /\ t \in Seq(T) /\ t = Append(s, x) /\ Len(t) = n + 1 /\ n \in Nat
      /\ \A i \in 1..n : t[i] = s[i]
      /\ t[n + 1] = x
  BY <1>0, Appended
<1>2. PICK f : Filters(f, t, S, Len(t))
  <2>1. Len(t) \in Nat
    BY <1>1
  <2> QED
    BY <1>1, <2>1, FiltersExists
<1> DEFINE g == [i \in 0..n |-> f[i]]
<1>3. Only(t, S) = f[n + 1]
  BY <1>1, <1>2, OnlyFilters
<1>4. \A i \in 0..(n + 1) : f[i] = IF i = 0 THEN << >>
                        ELSE IF t[i] \in S THEN Append(f[i - 1], t[i]) ELSE f[i - 1]
  BY <1>1, <1>2 DEF Filters
<1>5. \A i \in 0..n : g[i] = IF i = 0 THEN << >>
                        ELSE IF s[i] \in S THEN Append(g[i - 1], s[i]) ELSE g[i - 1]
  <2> TAKE i \in 0..n
  <2>1. g[i] = f[i] /\ i \in 0..(n + 1)
    BY <1>1
  <2>2. i # 0 => i \in 1..n /\ g[i - 1] = f[i - 1] /\ t[i] = s[i]
    BY <1>1
  <2> QED
    BY <1>4, <2>1, <2>2
<1>6. Filters(g, s, S, n)
  <2>1. g = [i \in 0..n |-> g[i]]
    OBVIOUS
  <2> HIDE DEF g, n
  <2> QED
    BY <1>5, <2>1 DEF Filters
<1>7. Only(s, S) = g[n]
  <2> HIDE DEF g
  <2> QED
    BY <1>6, OnlyFilters
<1>8. g[n] = f[n] /\ n + 1 \in 0..(n + 1) /\ n + 1 # 0 /\ (n + 1) - 1 = n
  BY <1>1
<1>9. f[n + 1] = IF t[n + 1] \in S THEN Append(f[n], t[n + 1]) ELSE f[n]
  BY <1>4, <1>8
<1> QED
  BY <1>1, <1>3, <1>7, <1>8, <1>9

\* Nothing is kept of nothing.
LEMMA OnlyEmpty == \A S : Only(<< >>, S) = << >>
<1> TAKE S
<1>0. PICK s : s = << >>
  OBVIOUS
<1>1. s \in Seq({}) /\ s = << >> /\ Len(s) = 0
  BY <1>0
<1>2. PICK f : Filters(f, s, S, 0)
  BY <1>1, FiltersExists
<1>3. f[0] = << >>
  BY <1>2 DEF Filters
<1> QED
  BY <1>1, <1>2, <1>3, OnlyFilters

\* A prefix is the next shorter one and an element.
LEMMA PrefixAppend ==
  ASSUME NEW T, NEW s \in Seq(T), NEW i \in 1..Len(s)
  PROVE  /\ SubSeq(s, 1, i - 1) \in Seq(T) /\ SubSeq(s, 1, i) \in Seq(T)
         /\ s[i] \in T /\ SubSeq(s, 1, i) = Append(SubSeq(s, 1, i - 1), s[i])
<1>1. i \in 0..Len(s) /\ i - 1 \in 0..Len(s) /\ s[i] \in T /\ i \in Nat /\ Len(s) \in Nat
  OBVIOUS
<1>a. PICK a, b : a = SubSeq(s, 1, i) /\ b = SubSeq(s, 1, i - 1)
  OBVIOUS
<1>c. PICK c : c = Append(b, s[i])
  OBVIOUS
<1>2. /\ a \in Seq(T) /\ a = SubSeq(s, 1, i) /\ Len(a) = i
      /\ \A k \in 1..i : a[k] = s[k]
  BY <1>1, <1>a, Prefix
<1>3. /\ b \in Seq(T) /\ b = SubSeq(s, 1, i - 1) /\ Len(b) = i - 1
      /\ \A k \in 1..(i - 1) : b[k] = s[k]
  BY <1>1, <1>a, Prefix
<1>4. /\ c \in Seq(T) /\ c = Append(b, s[i]) /\ Len(c) = Len(b) + 1
      /\ \A k \in 1..Len(b) : c[k] = b[k]
      /\ c[Len(b) + 1] = s[i]
  BY <1>1, <1>3, <1>c, Appended
<1>5. Len(c) = i /\ c[i] = s[i] /\ \A k \in 1..(i - 1) : c[k] = s[k]
  BY <1>1, <1>3, <1>4
<1>6. \A k \in 1..i : c[k] = a[k]
  BY <1>1, <1>2, <1>5
<1>7. c = a
  BY <1>2, <1>4, <1>5, <1>6, SeqEqual
<1> QED
  BY <1>1, <1>2, <1>3, <1>4, <1>7

\* The whole and the empty prefix.
LEMMA PrefixEnds ==
  ASSUME NEW T, NEW s \in Seq(T)
  PROVE  SubSeq(s, 1, 0) = << >> /\ SubSeq(s, 1, Len(s)) = s
<1>1. Len(s) \in 0..Len(s)
  OBVIOUS
<1>a. PICK a : a = SubSeq(s, 1, Len(s))
  OBVIOUS
<1>2. /\ a \in Seq(T) /\ a = SubSeq(s, 1, Len(s)) /\ Len(a) = Len(s)
      /\ \A k \in 1..Len(s) : a[k] = s[k]
  BY <1>1, <1>a, Prefix
<1>3. a = s
  BY <1>2, SeqEqual
<1> QED
  BY <1>2, <1>3, SubSeqEmpty

\* A sequence grows from nothing, one element at a time.
Grown(pre, s, T) ==
    /\ pre[0] = << >> /\ pre[Len(s)] = s
    /\ \A i \in 0..Len(s) : pre[i] \in Seq(T)
    /\ \A i \in 1..Len(s) : s[i] \in T /\ pre[i] = Append(pre[i - 1], s[i])

\* The prefixes of a sequence are such a growth.
LEMMA GrowthExists ==
  ASSUME NEW T, NEW s \in Seq(T)
  PROVE  \E pre : Grown(pre, s, T)
<1>1. Len(s) \in Nat /\ 0 \in 0..Len(s) /\ Len(s) \in 0..Len(s)
  OBVIOUS
<1>2. PICK pre : pre = [i \in 0..Len(s) |-> SubSeq(s, 1, i)]
  OBVIOUS
<1>3. pre[0] = << >> /\ pre[Len(s)] = s
  BY <1>1, <1>2, PrefixEnds
<1>4. \A i \in 0..Len(s) : pre[i] \in Seq(T)
  BY <1>2, Prefix
<1>5. ASSUME NEW i \in 1..Len(s) PROVE s[i] \in T /\ pre[i] = Append(pre[i - 1], s[i])
  <2>1. s[i] \in T /\ SubSeq(s, 1, i) = Append(SubSeq(s, 1, i - 1), s[i])
    BY PrefixAppend
  <2>2. i \in 0..Len(s) /\ i - 1 \in 0..Len(s)
    BY <1>1
  <2>3. pre[i] = SubSeq(s, 1, i) /\ pre[i - 1] = SubSeq(s, 1, i - 1)
    BY <1>2, <2>2
  <2> QED
    BY <2>1, <2>3
<1>6. Grown(pre, s, T)
  BY <1>3, <1>4, <1>5 DEF Grown
<1> QED
  BY <1>6

\* What Only keeps depends on the elements of the sequence alone.
LEMMA OnlySame ==
  ASSUME NEW T, NEW s \in Seq(T), NEW A, NEW B,
         \A i \in 1..Len(s) : s[i] \in A <=> s[i] \in B
  PROVE  Only(s, A) = Only(s, B)
<1>1. Len(s) \in Nat /\ 0 \in 0..Len(s) /\ Len(s) \in 0..Len(s)
  OBVIOUS
<1>0. PICK pre : Grown(pre, s, T)
  BY GrowthExists
<1>2. /\ pre[0] = << >> /\ pre[Len(s)] = s
      /\ \A i \in 0..Len(s) : pre[i] \in Seq(T)
      /\ \A i \in 1..Len(s) : s[i] \in T /\ pre[i] = Append(pre[i - 1], s[i])
  BY <1>0 DEF Grown
<1> DEFINE G == {i \in 0..Len(s) : Only(pre[i], A) = Only(pre[i], B)}
<1>3. 0 \in G
  <2>1. Only(<< >>, A) = Only(<< >>, B)
    BY OnlyEmpty
  <2> QED
    BY <1>1, <1>2, <2>1
<1>4. ASSUME NEW i \in 1..Len(s), i - 1 \in G PROVE i \in G
  <2>1. i \in 0..Len(s) /\ i - 1 \in 0..Len(s)
    BY <1>1
  <2>2. PICK p, x : p = pre[i - 1] /\ x = s[i]
    OBVIOUS
  <2>3. /\ p \in Seq(T) /\ x \in T /\ pre[i] = Append(p, x)
        /\ Only(p, A) = Only(p, B)
    BY <1>2, <1>4, <2>1, <2>2
  <2>4. /\ x \in A <=> x \in B
        /\ Only(Append(p, x), A) = IF x \in A THEN Append(Only(p, A), x) ELSE Only(p, A)
        /\ Only(Append(p, x), B) = IF x \in B THEN Append(Only(p, B), x) ELSE Only(p, B)
    <3>1. x \in A <=> x \in B
      BY <2>2
    <3>2. p \in Seq(T) /\ x \in T
      BY <2>3
    <3> QED
      BY <3>1, <3>2, OnlyAppend
  <2>5. Only(Append(p, x), A) = Only(Append(p, x), B)
    BY ONLY <2>3, <2>4, Zenon
  <2> QED
    BY <2>1, <2>3, <2>5
<1> HIDE DEF G
<1>5. Len(s) \in G
  BY <1>1, <1>3, <1>4, UpTo
<1>6. Only(pre[Len(s)], A) = Only(pre[Len(s)], B)
  BY <1>5 DEF G
<1> QED
  BY <1>2, <1>6

\* Only keeps everything when it may.
LEMMA OnlyAll ==
  ASSUME NEW T, NEW s \in Seq(T), NEW A, \A i \in 1..Len(s) : s[i] \in A
  PROVE  Only(s, A) = s
<1>1. Len(s) \in Nat /\ 0 \in 0..Len(s) /\ Len(s) \in 0..Len(s)
  OBVIOUS
<1>0. PICK pre : Grown(pre, s, T)
  BY GrowthExists
<1>2. /\ pre[0] = << >> /\ pre[Len(s)] = s
      /\ \A i \in 0..Len(s) : pre[i] \in Seq(T)
      /\ \A i \in 1..Len(s) : s[i] \in T /\ pre[i] = Append(pre[i - 1], s[i])
  BY <1>0 DEF Grown
<1> DEFINE G == {i \in 0..Len(s) : Only(pre[i], A) = pre[i]}
<1>3. 0 \in G
  <2>1. Only(<< >>, A) = << >>
    BY OnlyEmpty
  <2> QED
    BY <1>1, <1>2, <2>1
<1>4. ASSUME NEW i \in 1..Len(s), i - 1 \in G PROVE i \in G
  <2>1. i \in 0..Len(s) /\ i - 1 \in 0..Len(s)
    BY <1>1
  <2>2. PICK p, x : p = pre[i - 1] /\ x = s[i]
    OBVIOUS
  <2>3. /\ p \in Seq(T) /\ x \in T /\ pre[i] = Append(p, x)
        /\ Only(p, A) = p
    BY <1>2, <1>4, <2>1, <2>2
  <2>4. /\ x \in A
        /\ Only(Append(p, x), A) = IF x \in A THEN Append(Only(p, A), x) ELSE Only(p, A)
    <3>1. x \in A
      BY <2>2
    <3>2. p \in Seq(T) /\ x \in T
      BY <2>3
    <3> QED
      BY <3>1, <3>2, OnlyAppend
  <2>5. Only(Append(p, x), A) = Append(p, x)
    BY ONLY <2>3, <2>4, Zenon
  <2> QED
    BY <2>1, <2>3, <2>5
<1> HIDE DEF G
<1>5. Len(s) \in G
  BY <1>1, <1>3, <1>4, UpTo
<1>6. Only(pre[Len(s)], A) = pre[Len(s)]
  BY <1>5 DEF G
<1> QED
  BY <1>2, <1>6

\* Keeping twice.
LEMMA OnlyOnly ==
  ASSUME NEW T, NEW s \in Seq(T), NEW A, NEW B
  PROVE  Only(Only(s, A), B) = Only(s, A \cap B)
<1>1. Len(s) \in Nat /\ 0 \in 0..Len(s) /\ Len(s) \in 0..Len(s)
  OBVIOUS
<1>0. PICK pre : Grown(pre, s, T)
  BY GrowthExists
<1>2. /\ pre[0] = << >> /\ pre[Len(s)] = s
      /\ \A i \in 0..Len(s) : pre[i] \in Seq(T)
      /\ \A i \in 1..Len(s) : s[i] \in T /\ pre[i] = Append(pre[i - 1], s[i])
  BY <1>0 DEF Grown
<1> DEFINE G == {i \in 0..Len(s) : Only(Only(pre[i], A), B) = Only(pre[i], A \cap B)}
<1>3. 0 \in G
  <2>1. Only(Only(<< >>, A), B) = Only(<< >>, A \cap B)
    BY OnlyEmpty
  <2> QED
    BY <1>1, <1>2, <2>1
<1>4. ASSUME NEW i \in 1..Len(s), i - 1 \in G PROVE i \in G
  <2>1. i \in 0..Len(s) /\ i - 1 \in 0..Len(s)
    BY <1>1
  <2>2. PICK p, x : p = pre[i - 1] /\ x = s[i]
    OBVIOUS
  <2>3. /\ p \in Seq(T) /\ x \in T /\ pre[i] = Append(p, x)
        /\ Only(Only(p, A), B) = Only(p, A \cap B)
    BY <1>2, <1>4, <2>1, <2>2
  <2>4. PICK q, C : q = Only(p, A) /\ C = A \cap B
    OBVIOUS
  <2>6. q \in Seq(T) /\ p \in Seq(T) /\ x \in T
    BY <2>3, <2>4, OnlySet
  <2>7. /\ Only(Append(p, x), A) = IF x \in A THEN Append(Only(p, A), x) ELSE Only(p, A)
        /\ Only(Append(p, x), C) = IF x \in C THEN Append(Only(p, C), x) ELSE Only(p, C)
        /\ Only(Append(q, x), B) = IF x \in B THEN Append(Only(q, B), x) ELSE Only(q, B)
    BY ONLY <2>6, OnlyAppend
  <2>8. Only(Only(Append(p, x), A), B) = Only(Append(p, x), C)
    <3>1. Only(q, B) = Only(p, C) /\ (x \in C <=> x \in A /\ x \in B)
      BY <2>3, <2>4
    <3> QED
      BY ONLY <2>4, <2>7, <3>1
  <2>5. Only(Only(Append(p, x), A), B) = Only(Append(p, x), A \cap B)
    BY <2>4, <2>8
  <2> QED
    BY <2>1, <2>3, <2>5
<1> HIDE DEF G
<1>5. Len(s) \in G
  BY <1>1, <1>3, <1>4, UpTo
<1>6. Only(Only(pre[Len(s)], A), B) = Only(pre[Len(s)], A \cap B)
  BY <1>5 DEF G
<1> QED
  BY <1>2, <1>6

=============================================================================
