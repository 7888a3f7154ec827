------------------------- MODULE CDStructureProofs --------------------------
(***************************************************************************)
(* Proofs about the structures that live in a backtrackable context: the   *)
(* queue of module CDQueue implements QueueStack, and the map of module    *)
(* CDHashMap, instanced in the second half, implements MapStack.           *)
(*                                                                         *)
(* For any set of elements, any depth of the context and any size of the   *)
(* array, the saved versions of a CDQueue stay nested and each pop of the  *)
(* context brings back the queue of the matching push.                     *)
(*                                                                         *)
(* TypeOK and VersionsNested together are inductive.  That a version finds *)
(* its elements untouched in the shared array follows from them: the       *)
(* sizes of the saved versions grow with their scopes (SizesGrow, by       *)
(* induction over the versions), the array is never cut below the last     *)
(* saved size, and no place below it is written again.                     *)
(***************************************************************************)
EXTENDS CDQueue, SequenceLemmas

IInv == TypeOK /\ VersionsNested

-----------------------------------------------------------------------------
(***************************************************************************)
(* What the invariant says of a sequence vs of versions.                   *)
(***************************************************************************)
Nested(vs) ==
    /\ vs # << >> /\ vs[1].scope = 0 /\ vs[1].lastsave = 0
    /\ \A i \in 1..(Len(vs) - 1) :
        /\ vs[i].scope < vs[i + 1].scope
        /\ vs[i].iter <= vs[i].size
        /\ vs[i].size <= vs[i + 1].size
        /\ vs[i + 1].lastsave = vs[i].size

\* The fields of a version.
LEMMA VersionFields ==
  ASSUME NEW v \in Version
  PROVE  v.scope \in Nat /\ v.size \in Nat /\ v.iter \in Nat /\ v.lastsave \in Nat
BY DEF Version

\* The versions are the saved ones followed by the current one.
LEMMA VersionsType ==
  ASSUME TypeOK
  PROVE  /\ Current \in Version /\ Versions \in Seq(Version)
         /\ Len(saved) \in Nat /\ Len(Versions) = Len(saved) + 1
         /\ \A i \in 1..Len(saved) : Versions[i] = saved[i]
         /\ Versions[Len(saved) + 1] = Current
         /\ Current.scope = scope /\ Current.size = Len(list)
         /\ Current.iter = iter /\ Current.lastsave = lastsave
<1>1. Current \in Version
  BY DEF TypeOK, Current, Version
<1> QED
  BY <1>1 DEF TypeOK, Versions, Current

\* VersionsNested in terms of Nested.
LEMMA NestedVersions == TypeOK => (VersionsNested <=> Nested(Versions))
<1> SUFFICES ASSUME TypeOK PROVE VersionsNested <=> Nested(Versions)
  OBVIOUS
<1>1. Versions # << >> /\ Len(Versions) - 1 = Len(saved)
  BY VersionsType
<1> QED
  BY <1>1 DEF VersionsNested, Nested

\* The same after a step.
LEMMA NestedVersionsNext == (TypeOK => (VersionsNested <=> Nested(Versions)))'
BY NestedVersions, PTL

\* The sizes of nested versions grow: no two of them are out of order.
LEMMA SizesGrow ==
  ASSUME NEW vs \in Seq(Version), Nested(vs),
         NEW i \in 1..Len(vs), NEW j \in 1..Len(vs), i <= j
  PROVE  vs[i].size <= vs[j].size
<1> DEFINE T == {d \in Nat : d < j /\ vs[j - d].size > vs[j].size}
<1>1. \A x \in 1..Len(vs) : vs[x].size \in Nat
  BY VersionFields
<1>2. ASSUME T # {} PROVE FALSE
  <2>1. PICK d \in T : \A e \in T : d <= e
    BY <1>2, LeastNat
  <2>2. d \in Nat /\ d < j /\ vs[j - d].size > vs[j].size
    BY <2>1
  <2>3. d # 0
    BY <1>1, <2>2
  <2>4. d - 1 \in Nat /\ d - 1 < j /\ ~(d <= d - 1)
    BY <2>2, <2>3
  <2>5. vs[j - (d - 1)].size <= vs[j].size
    <3>1. d - 1 \notin T
      BY <2>1, <2>4
    <3>2. j - (d - 1) \in 1..Len(vs)
      BY <2>2, <2>4
    <3> QED
      BY <1>1, <2>4, <3>1, <3>2
  <2>6. j - d \in 1..(Len(vs) - 1) /\ j - d + 1 = j - (d - 1)
    BY <2>2, <2>3
  <2>7. vs[j - d].size <= vs[j - (d - 1)].size
    BY <2>6 DEF Nested
  <2>8. j - d \in 1..Len(vs) /\ j - (d - 1) \in 1..Len(vs)
    BY <2>2, <2>4
  <2> QED
    BY <1>1, <2>2, <2>5, <2>7, <2>8
<1>3. j - i \in Nat /\ j - i < j /\ j - (j - i) = i
  OBVIOUS
<1>4. ~(vs[i].size > vs[j].size)
  BY <1>2, <1>3
<1> QED
  BY <1>1, <1>4

\* A version of a newer scope can be added if it starts where the last ends.
LEMMA NestedAppend ==
  ASSUME NEW vs \in Seq(Version), Nested(vs), NEW w \in Version,
         LET v == vs[Len(vs)]
         IN v.scope < w.scope /\ v.iter <= v.size /\ v.size <= w.size /\ w.lastsave = v.size
  PROVE  Nested(Append(vs, w))
<1> DEFINE n == Len(vs)
           ws == Append(vs, w)
<1>1. /\ n \in Nat \ {0} /\ ws \in Seq(Version) /\ Len(ws) = n + 1
      /\ \A i \in 1..n : ws[i] = vs[i]
      /\ ws[n + 1] = w
  BY EmptySeq DEF Nested
<1> HIDE DEF n, ws
<1>2. ws[1].scope = 0 /\ ws[1].lastsave = 0 /\ ws # << >>
  BY <1>1 DEF Nested
<1>3. ASSUME NEW i \in 1..n
      PROVE  /\ ws[i].scope < ws[i + 1].scope /\ ws[i].iter <= ws[i].size
             /\ ws[i].size <= ws[i + 1].size /\ ws[i + 1].lastsave = ws[i].size
  <2>1. CASE i = n
    BY <1>1, <2>1 DEF n
  <2>2. CASE i # n
    <3>1. i \in 1..(n - 1) /\ i + 1 \in 1..n
      BY <1>1, <2>2
    <3> QED
      BY <1>1, <3>1 DEF Nested, n
  <2> QED
    BY <2>1, <2>2
<1> QED
  BY <1>1, <1>2, <1>3 DEF Nested, ws

\* Replacing the last version by one of the same scope and the same start.
LEMMA NestedReplace ==
  ASSUME NEW us \in Seq(Version), NEW v \in Version, Nested(Append(us, v)),
         NEW w \in Version, w.scope = v.scope, w.lastsave = v.lastsave,
         w.lastsave <= w.size
  PROVE  Nested(Append(us, w))
<1> DEFINE n == Len(us)
           vs == Append(us, v)
           ws == Append(us, w)
<1>1. /\ n \in Nat /\ ws \in Seq(Version) /\ Len(ws) = n + 1 /\ Len(vs) = n + 1
      /\ \A i \in 1..n : ws[i] = us[i] /\ vs[i] = us[i]
      /\ ws[n + 1] = w /\ vs[n + 1] = v
  OBVIOUS
<1> HIDE DEF n, vs, ws
<1>2. Nested(vs)
  BY DEF vs
<1>3. ws[1].scope = 0 /\ ws[1].lastsave = 0 /\ ws # << >>
  <2>1. CASE n = 0
    BY <1>1, <1>2, <2>1 DEF Nested
  <2>2. CASE n # 0
    BY <1>1, <1>2, <2>2 DEF Nested
  <2> QED
    BY <2>1, <2>2
<1>4. ASSUME NEW i \in 1..n
      PROVE  /\ ws[i].scope < ws[i + 1].scope /\ ws[i].iter <= ws[i].size
             /\ ws[i].size <= ws[i + 1].size /\ ws[i + 1].lastsave = ws[i].size
  <2>1. /\ vs[i].scope < vs[i + 1].scope /\ vs[i].iter <= vs[i].size
        /\ vs[i].size <= vs[i + 1].size /\ vs[i + 1].lastsave = vs[i].size
    BY <1>1, <1>2 DEF Nested
  <2>2. CASE i = n
    BY <1>1, <2>1, <2>2
  <2>3. CASE i # n
    BY <1>1, <2>1, <2>3
  <2> QED
    BY <2>2, <2>3
<1> QED
  BY <1>1, <1>3, <1>4 DEF Nested, ws

\* Without the last version the others are nested, and it starts within them.
LEMMA NestedFront ==
  ASSUME NEW us \in Seq(Version), us # << >>, NEW v \in Version, Nested(Append(us, v))
  PROVE  /\ Nested(us)
         /\ LET u == us[Len(us)] IN
              /\ u.scope < v.scope /\ u.iter <= u.size /\ u.size <= v.size
              /\ u.lastsave <= u.size /\ v.lastsave = u.size
<1> DEFINE n == Len(us)
           vs == Append(us, v)
<1>1. /\ n \in Nat \ {0} /\ Len(vs) = n + 1
      /\ \A i \in 1..n : vs[i] = us[i]
      /\ vs[n + 1] = v
  BY EmptySeq
<1> HIDE DEF n, vs
<1>2. Nested(vs)
  BY DEF vs
<1>3. Nested(us)
  BY <1>1, <1>2 DEF Nested, n
<1>4. us[n].lastsave <= us[n].size
  <2>1. us[n].lastsave \in Nat /\ us[n].size \in Nat
    BY <1>1, VersionFields DEF n
  <2>2. CASE n = 1
    BY <1>1, <1>3, <2>1, <2>2 DEF Nested
  <2>3. CASE n # 1
    <3>1. n - 1 \in 1..(n - 1) /\ (n - 1) + 1 = n
      BY <1>1, <2>3
    <3> QED
      BY <1>3, <3>1 DEF Nested, n
  <2> QED
    BY <2>2, <2>3
<1> QED
  BY <1>1, <1>2, <1>3, <1>4 DEF Nested, n

-----------------------------------------------------------------------------
\* A new queue has one version, of the bottom scope, with nothing in it.
LEMMA InitIInv == Init => IInv
<1> SUFFICES ASSUME Init PROVE IInv
  OBVIOUS
<1>1. TypeOK
  BY BoundsAssumption DEF Init, TypeOK
<1>2. saved = << >> /\ scope = 0 /\ lastsave = 0
  BY DEF Init
<1>3. Nested(Versions)
  <2>1. Len(saved) = 0 /\ Len(Versions) = 1 /\ Versions[1] = Current
    BY <1>1, <1>2, VersionsType
  <2>2. Current.scope = 0 /\ Current.lastsave = 0
    BY <1>1, <1>2, VersionsType
  <2>3. Versions # << >>
    BY <2>1
  <2> QED
    BY <2>1, <2>2, <2>3 DEF Nested
<1> QED
  BY <1>1, <1>3, NestedVersions DEF IInv

(***************************************************************************)
(* MakeCurrent, with an array whose length s is not below d_lastsave and   *)
(* an iterator i: the new version follows the saved ones.                  *)
(***************************************************************************)
LEMMA MakeCurrentNested ==
  ASSUME IInv, MakeCurrent, NEW s \in Nat, NEW i \in Nat, LastSave <= s
  PROVE  LET w == [scope |-> level, size |-> s, iter |-> i, lastsave |-> LastSave]
         IN /\ LastSave \in 0..Len(list)
            /\ saved' \in Seq(Version)
            /\ Nested(Append(saved', w))
<1> DEFINE w == [scope |-> level, size |-> s, iter |-> i, lastsave |-> LastSave]
<1>1. /\ TypeOK /\ Nested(Versions) /\ level \in Nat /\ scope \in Nat /\ scope <= level
      /\ Len(list) \in Nat /\ iter \in 0..Len(list) /\ lastsave \in 0..Len(list)
      /\ saved \in Seq(Version)
  BY NestedVersions DEF IInv, TypeOK
<1>2. LastSave \in 0..Len(list)
  BY <1>1 DEF LastSave
<1>3. w \in Version
  BY <1>1, <1>2 DEF Version
<1>4. w.scope = level /\ w.size = s /\ w.lastsave = LastSave
  OBVIOUS
<1> HIDE DEF w
<1>5. CASE scope = level
  <2>1. saved' = saved /\ LastSave = lastsave
    BY <1>5 DEF MakeCurrent, LastSave
  <2>2. Versions = Append(saved, Current)
    BY DEF Versions
  <2>3. Nested(Append(saved, w))
    BY <1>1, <1>3, <1>4, <1>5, <2>1, <2>2, VersionsType, NestedReplace
  <2> QED
    BY <1>1, <1>2, <2>1, <2>3 DEF w
<1>6. CASE scope # level
  <2>1. saved' = Versions /\ LastSave = Len(list)
    BY <1>6 DEF MakeCurrent, LastSave, Versions, Current
  <2>2. /\ Versions \in Seq(Version) /\ Versions[Len(Versions)] = Current
        /\ Current.scope < w.scope /\ Current.iter <= Current.size
        /\ Current.size <= w.size /\ w.lastsave = Current.size
    BY <1>1, <1>4, <1>6, <2>1, VersionsType
  <2>3. Nested(Append(Versions, w))
    BY <1>1, <1>3, <2>2, NestedAppend
  <2> QED
    BY <1>2, <2>1, <2>2, <2>3 DEF w
<1> QED
  BY <1>5, <1>6

\* Enqueue appends to the array: the new version is one longer.
LEMMA EnqueueIInv == ASSUME IInv, NEW e \in Elements, Enqueue(e) PROVE IInv'
<1>1. /\ level \in Nat /\ level' = level /\ scope' = level /\ iter' = iter
      /\ lastsave' = LastSave /\ list \in Seq(Elements) /\ Len(list) \in Nat
      /\ iter \in 0..Len(list) /\ MakeCurrent
  BY DEF IInv, TypeOK, Enqueue, MakeCurrent
<1>2. list' \in Seq(Elements) /\ Len(list') = Len(list) + 1
  BY <1>1 DEF Enqueue
<1>3. LastSave \in 0..Len(list)
  BY DEF LastSave, IInv, TypeOK
<1>4. /\ saved' \in Seq(Version)
      /\ Nested(Append(saved', [scope |-> level, size |-> Len(list'), iter |-> iter,
                                lastsave |-> LastSave]))
  <2>1. Len(list') \in Nat /\ iter \in Nat /\ LastSave <= Len(list')
    BY <1>1, <1>2, <1>3
  <2> QED
    BY <1>1, <2>1, MakeCurrentNested
<1>5. TypeOK'
  BY <1>1, <1>2, <1>3, <1>4 DEF TypeOK
<1>6. Nested(Versions)'
  BY <1>1, <1>4 DEF Versions, Current
<1> QED
  BY <1>5, <1>6, NestedVersionsNext DEF IInv

\* Dequeue moves the iterator; a queue that runs empty is cut down to the last
\* save and no further.
LEMMA DequeueIInv == ASSUME IInv, Dequeue PROVE IInv'
<1>1. /\ level \in Nat /\ level' = level /\ scope' = level
      /\ lastsave' = LastSave /\ list \in Seq(Elements) /\ Len(list) \in Nat
      /\ iter \in 0..Len(list) /\ MakeCurrent /\ iter < Len(list)
  BY DEF IInv, TypeOK, Dequeue, MakeCurrent
<1>2. LastSave \in 0..Len(list)
  BY DEF LastSave, IInv, TypeOK
<1>3. /\ list' \in Seq(Elements) /\ Len(list') \in LastSave..Len(list)
      /\ iter' \in 0..Len(list')
  <2>1. CASE iter + 1 = Len(list) /\ LastSave # Len(list)
    <3>1. list' = SubSeq(list, 1, LastSave) /\ iter' = LastSave
      BY <2>1 DEF Dequeue, Dispose
    <3> QED
      BY <1>1, <1>2, <3>1, Prefix
  <2>2. CASE ~(iter + 1 = Len(list) /\ LastSave # Len(list))
    BY <1>1, <1>2, <2>2 DEF Dequeue
  <2> QED
    BY <2>1, <2>2
<1>4. /\ saved' \in Seq(Version)
      /\ Nested(Append(saved', [scope |-> level, size |-> Len(list'), iter |-> iter',
                                lastsave |-> LastSave]))
  <2>1. Len(list') \in Nat /\ iter' \in Nat /\ LastSave <= Len(list')
    BY <1>1, <1>2, <1>3
  <2> QED
    BY <1>1, <2>1, MakeCurrentNested
<1>5. TypeOK'
  BY <1>1, <1>2, <1>3, <1>4 DEF TypeOK
<1>6. Nested(Versions)'
  BY <1>1, <1>4 DEF Versions, Current
<1> QED
  BY <1>5, <1>6, NestedVersionsNext DEF IInv

\* A push of the context does not touch the queue.
LEMMA PushScopeIInv == IInv /\ PushScope => IInv'
<1> SUFFICES ASSUME IInv, PushScope PROVE IInv'
  OBVIOUS
<1>1. TypeOK'
  BY DEF IInv, TypeOK, PushScope
<1>2. Versions' = Versions /\ saved' = saved
  BY DEF PushScope, Versions, Current
<1> QED
  BY <1>1, <1>2 DEF IInv, VersionsNested

(***************************************************************************)
(* A pop that restores: there is a saved version, it fits into the array,  *)
(* and the versions after the pop are the ones saved before it.            *)
(***************************************************************************)
LEMMA PopScopeRestores ==
  ASSUME IInv, PopScope, scope = level
  PROVE  LET v == saved[Len(saved)] IN
         /\ saved \in Seq(Version) /\ saved # << >> /\ Len(saved) \in Nat \ {0}
         /\ v \in Version /\ Nested(saved)
         /\ v.scope < level /\ v.iter <= v.size /\ v.size \in 0..Len(list)
         /\ v.lastsave <= v.size
         /\ level \in Nat /\ level' = level - 1
         /\ scope' = v.scope /\ iter' = v.iter /\ lastsave' = v.lastsave
         /\ list' = SubSeq(list, 1, v.size) /\ list \in Seq(Elements)
         /\ list' \in Seq(Elements) /\ Len(list') = v.size
         /\ Versions' = saved
<1>1. /\ TypeOK /\ Nested(Versions) /\ level \in Nat /\ level > 0
      /\ list \in Seq(Elements) /\ saved \in Seq(Version) /\ Len(list) \in Nat
  BY NestedVersions DEF IInv, TypeOK, PopScope
<1>2. saved # << >>
  <2>1. Versions[1].scope = 0
    BY <1>1 DEF Nested
  <2> QED
    BY <1>1, <2>1, VersionsType
<1>3. PICK v : v = saved[Len(saved)]
  OBVIOUS
<1>4. Len(saved) \in Nat \ {0} /\ v \in Version
  BY <1>1, <1>2, <1>3, EmptySeq
<1>5. /\ Nested(saved) /\ v.scope < level /\ v.iter <= v.size
      /\ v.size <= Len(list) /\ v.lastsave <= v.size
  <2>1. Versions = Append(saved, Current)
    BY DEF Versions
  <2>2. /\ Nested(saved) /\ v.scope < Current.scope /\ v.iter <= v.size
        /\ v.size <= Current.size /\ v.lastsave <= v.size
    BY <1>1, <1>2, <1>3, <2>1, VersionsType, NestedFront
  <2> QED
    BY <1>1, <2>2, VersionsType
<1>6. /\ level' = level - 1 /\ scope' = v.scope /\ iter' = v.iter
      /\ lastsave' = v.lastsave /\ list' = SubSeq(list, 1, v.size)
      /\ saved' = SubSeq(saved, 1, Len(saved) - 1)
  BY <1>3 DEF PopScope
<1>7. v.size \in 0..Len(list)
  BY <1>1, <1>4, <1>5, VersionFields
<1>8. list' \in Seq(Elements) /\ Len(list') = v.size
  BY <1>1, <1>6, <1>7, Prefix
<1>9. Versions' = saved
  <2>1. Current' = v
    BY <1>4, <1>6, <1>8 DEF Current, Version
  <2> QED
    BY <1>1, <1>2, <1>3, <1>6, <2>1, AppendLast DEF Versions
<1> QED
  BY <1>1, <1>2, <1>3, <1>4, <1>5, <1>6, <1>7, <1>8, <1>9

\* A pop restores the last saved version, or leaves the queue alone.
LEMMA PopScopeIInv == IInv /\ PopScope => IInv'
<1> SUFFICES ASSUME IInv, PopScope PROVE IInv'
  OBVIOUS
<1>1. CASE scope = level
  <2>1. PICK v : v = saved[Len(saved)]
    OBVIOUS
  <2>2. /\ v \in Version /\ v.scope < level /\ v.iter <= v.size /\ v.lastsave <= v.size
        /\ level \in Nat /\ level' = level - 1
        /\ scope' = v.scope /\ iter' = v.iter /\ lastsave' = v.lastsave
        /\ list' \in Seq(Elements) /\ Len(list') = v.size
        /\ Versions' = saved /\ Nested(saved)
    BY <1>1, <2>1, PopScopeRestores
  <2>3. saved' \in Seq(Version)
    <3>1. /\ saved \in Seq(Version) /\ Len(saved) - 1 \in 0..Len(saved)
          /\ saved' = SubSeq(saved, 1, Len(saved) - 1)
      BY <1>1, PopScopeRestores DEF PopScope
    <3> QED
      BY <3>1, Prefix
  <2>4. TypeOK'
    BY <2>2, <2>3, VersionFields DEF TypeOK
  <2>5. Nested(Versions)'
    BY <2>2
  <2> QED
    BY <2>4, <2>5, NestedVersionsNext DEF IInv
<1>2. CASE scope # level
  <2>1. UNCHANGED <<scope, list, iter, lastsave, saved>>
    BY <1>2 DEF PopScope
  <2>2. TypeOK'
    BY <1>2, <2>1 DEF IInv, TypeOK, PopScope
  <2> QED
    BY <2>1, <2>2 DEF IInv, VersionsNested, Versions, Current
<1> QED
  BY <1>1, <1>2

\* TypeOK and VersionsNested together hold in every reachable state.
LEMMA Inductive == Spec => []IInv
<1>1. IInv /\ [Next]_vars => IInv'
  <2> SUFFICES ASSUME IInv, [Next]_vars PROVE IInv'
    OBVIOUS
  <2>1. CASE \E e \in Elements : Enqueue(e)
    BY <2>1, EnqueueIInv
  <2>2. CASE Dequeue
    BY <2>2, DequeueIInv
  <2>3. CASE PushScope
    BY <2>3, PushScopeIInv
  <2>4. CASE PopScope
    BY <2>4, PopScopeIInv
  <2>5. CASE UNCHANGED vars
    BY <2>5 DEF IInv, TypeOK, VersionsNested, Versions, Current, vars
  <2> QED
    BY <2>1, <2>2, <2>3, <2>4, <2>5 DEF Next
<1> QED
  BY <1>1, InitIInv, PTL DEF Spec

(***************************************************************************)
(* In any history of enqueue, dequeue, push and pop, the versions that     *)
(* CDQueue has saved belong to older scopes and to shorter arrays, each    *)
(* ending where the next one begins to add its own elements.               *)
(***************************************************************************)
THEOREM QueueVersionsNested == Spec => []VersionsNested
<1>1. IInv => VersionsNested
  BY DEF IInv
<1> QED
  BY <1>1, Inductive, PTL

-----------------------------------------------------------------------------
(***************************************************************************)
(* The refinement.  The version that a pop to level k uncovers is the last *)
(* one of a scope up to k; it exists because the first one is of scope 0.  *)
(***************************************************************************)
At(vs, k) ==
    CHOOSE i \in 1..Len(vs) :
        /\ vs[i].scope <= k
        /\ \A j \in (i + 1)..Len(vs) : vs[j].scope > k

Slice(l, v) == SubSeq(l, v.iter + 1, v.size)

Shown(vs, l, k) == Slice(l, vs[At(vs, k)])

absStack == [k \in 1..level |-> Contents(Versions[VersionAt(k - 1)])]

\* Some version is the last one of a scope up to k.
LEMMA AtExists ==
  ASSUME NEW vs \in Seq(Version), Nested(vs), NEW k \in Nat
  PROVE  /\ At(vs, k) \in 1..Len(vs)
         /\ vs[At(vs, k)].scope <= k
         /\ \A j \in (At(vs, k) + 1)..Len(vs) : vs[j].scope > k
<1>1. Len(vs) \in Nat \ {0} /\ vs[1].scope = 0
  BY EmptySeq DEF Nested
<1>2. \A i \in 1..Len(vs) : vs[i].scope \in Nat
  BY VersionFields
<1> DEFINE T == {d \in 0..(Len(vs) - 1) : vs[Len(vs) - d].scope <= k}
<1>3. Len(vs) - 1 \in T /\ T \subseteq Nat
  BY <1>1
<1>4. PICK d \in T : \A e \in T : d <= e
  BY <1>3, LeastNat
<1>5. PICK i \in 1..Len(vs) : i = Len(vs) - d
  BY <1>1, <1>4
<1>6. vs[i].scope <= k
  BY <1>4, <1>5
<1>7. ASSUME NEW j \in (i + 1)..Len(vs) PROVE vs[j].scope > k
  <2>1. Len(vs) - j \in 0..(Len(vs) - 1) /\ Len(vs) - (Len(vs) - j) = j /\ ~(d <= Len(vs) - j)
    BY <1>1, <1>4, <1>5
  <2>2. Len(vs) - j \notin T
    BY <1>4, <2>1
  <2>3. ~(vs[j].scope <= k)
    BY <2>1, <2>2
  <2>4. j \in 1..Len(vs)
    BY <1>1, <1>5
  <2> QED
    BY <1>2, <2>3, <2>4
<1>8. \E x \in 1..Len(vs) :
        vs[x].scope <= k /\ \A j \in (x + 1)..Len(vs) : vs[j].scope > k
  BY <1>6, <1>7
<1> QED
  BY <1>8 DEF At

\* There is only one such version.
LEMMA AtUnique ==
  ASSUME NEW vs \in Seq(Version), Nested(vs), NEW k \in Nat, NEW i \in 1..Len(vs),
         vs[i].scope <= k, \A j \in (i + 1)..Len(vs) : vs[j].scope > k
  PROVE  At(vs, k) = i
<1>1. PICK x \in 1..Len(vs) : x = At(vs, k)
  BY AtExists
<1>2. vs[x].scope <= k /\ \A j \in (x + 1)..Len(vs) : vs[j].scope > k
  BY <1>1, AtExists
<1>3. vs[x].scope \in Nat /\ vs[i].scope \in Nat
  BY VersionFields
<1>4. ~(x < i) /\ ~(i < x)
  BY <1>2, <1>3
<1> QED
  BY <1>1, <1>4

\* The top of the stack shows the current version.
LEMMA ShownTop ==
  ASSUME NEW vs \in Seq(Version), Nested(vs), NEW k \in Nat, NEW l,
         vs[Len(vs)].scope <= k
  PROVE  Shown(vs, l, k) = Slice(l, vs[Len(vs)])
<1>1. Len(vs) \in 1..Len(vs) /\ \A j \in (Len(vs) + 1)..Len(vs) : FALSE
  BY EmptySeq DEF Nested
<1>2. At(vs, k) = Len(vs)
  BY <1>1, AtUnique
<1> QED
  BY <1>2 DEF Shown

\* A version of a newer scope is not seen below that scope.
LEMMA ShownAppend ==
  ASSUME NEW vs \in Seq(Version), Nested(vs), NEW w \in Version, NEW k \in Nat, NEW l,
         Nested(Append(vs, w)), k < w.scope
  PROVE  Shown(Append(vs, w), l, k) = Shown(vs, l, k)
<1>1. PICK x \in 1..Len(vs) : x = At(vs, k)
  BY AtExists
<1>2. vs[x].scope <= k /\ \A j \in (x + 1)..Len(vs) : vs[j].scope > k
  BY <1>1, AtExists
<1>3. PICK ws : ws = Append(vs, w)
  OBVIOUS
<1>4. /\ ws \in Seq(Version) /\ Len(ws) = Len(vs) + 1 /\ Len(vs) \in Nat
      /\ \A i \in 1..Len(vs) : ws[i] = vs[i]
      /\ ws[Len(vs) + 1] = w
  BY <1>3
<1>5. x \in 1..Len(ws) /\ ws[x] = vs[x]
  BY <1>4
<1>6. ASSUME NEW j \in (x + 1)..Len(ws) PROVE ws[j].scope > k
  <2>1. CASE j = Len(vs) + 1
    BY <1>4, <2>1, VersionFields
  <2>2. CASE j # Len(vs) + 1
    BY <1>2, <1>4, <2>2
  <2> QED
    BY <2>1, <2>2
<1>7. At(ws, k) = x
  BY <1>2, <1>3, <1>4, <1>5, <1>6, AtUnique
<1> QED
  BY <1>1, <1>3, <1>5, <1>7 DEF Shown

\* Two arrays that agree up to a version's size show the same elements.
LEMMA SliceSame ==
  ASSUME NEW l \in Seq(Elements), NEW m \in Seq(Elements), NEW v \in Version,
         v.size <= Len(l), v.size <= Len(m), \A i \in 1..v.size : l[i] = m[i]
  PROVE  Slice(l, v) = Slice(m, v)
<1>1. v.size \in Nat /\ v.iter \in Nat /\ Len(l) \in Nat /\ Len(m) \in Nat
  BY VersionFields
<1>2. PICK a \in Nat \ {0} : a = v.iter + 1
  BY <1>1
<1>3. PICK b \in 0..Len(l) : b = v.size /\ b \in 0..Len(m)
  BY <1>1
<1>4. PICK s : s = SubSeq(l, a, b)
  OBVIOUS
<1>5. PICK t : t = SubSeq(m, a, b)
  OBVIOUS
<1>6. /\ s \in Seq(Elements) /\ Len(s) = IF a <= b THEN b - a + 1 ELSE 0
      /\ \A i \in 1..Len(s) : s[i] = l[a + i - 1] /\ a + i - 1 \in 1..b
  BY <1>4, Segment
<1>7. /\ t \in Seq(Elements) /\ Len(t) = IF a <= b THEN b - a + 1 ELSE 0
      /\ \A i \in 1..Len(t) : t[i] = m[a + i - 1] /\ a + i - 1 \in 1..b
  BY <1>3, <1>5, Segment
<1>8. Len(s) = Len(t) /\ \A i \in 1..Len(s) : s[i] = t[i]
  BY <1>3, <1>6, <1>7
<1>9. s = t
  BY <1>6, <1>7, <1>8, SeqEqual
<1> QED
  BY <1>2, <1>3, <1>4, <1>5, <1>9 DEF Slice

\* If the arrays agree up to the size of the last version, every version shows
\* the same elements in both.
LEMMA ShownSame ==
  ASSUME NEW vs \in Seq(Version), Nested(vs), NEW k \in Nat,
         NEW l \in Seq(Elements), NEW m \in Seq(Elements),
         vs[Len(vs)].size <= Len(l), vs[Len(vs)].size <= Len(m),
         \A i \in 1..vs[Len(vs)].size : l[i] = m[i]
  PROVE  Shown(vs, l, k) = Shown(vs, m, k)
<1>1. PICK x \in 1..Len(vs) : x = At(vs, k)
  BY AtExists
<1>2. Len(vs) \in 1..Len(vs) /\ x <= Len(vs)
  OBVIOUS
<1>3. vs[x] \in Version /\ vs[Len(vs)] \in Version /\ vs[x].size <= vs[Len(vs)].size
  BY <1>2, SizesGrow
<1>4. Len(l) \in Nat /\ Len(m) \in Nat /\ vs[x].size \in Nat /\ vs[Len(vs)].size \in Nat
  BY <1>3, VersionFields
<1>5. vs[x].size <= Len(l) /\ vs[x].size <= Len(m) /\ \A i \in 1..vs[x].size : l[i] = m[i]
  BY <1>3, <1>4
<1>6. Slice(l, vs[x]) = Slice(m, vs[x])
  BY <1>3, <1>5, SliceSame
<1> QED
  BY <1>1, <1>6 DEF Shown

\* The stack that the refinement mapping gives, in terms of Shown.
LEMMA AbsStackIs ==
  absStack = [k \in 1..level |-> Shown(Versions, list, k - 1)]
BY DEF absStack, Contents, VersionAt, At, Shown, Slice

\* The same after a step.
LEMMA AbsStackIsNext ==
  (absStack = [k \in 1..level |-> Shown(Versions, list, k - 1)])'
BY AbsStackIs, PTL

\* The queue that the refinement mapping gives.
LEMMA AbsQueueIs ==
  TypeOK => Contents(Current) = SubSeq(list, iter + 1, Len(list))
BY VersionsType DEF Contents

\* The same after a step.
LEMMA AbsQueueIsNext ==
  (TypeOK => Contents(Current) = SubSeq(list, iter + 1, Len(list)))'
BY AbsQueueIs, PTL

\* The current version and the sequence of versions after a step.
LEMMA VersionsTypeNext ==
  (TypeOK => /\ Current \in Version /\ Versions \in Seq(Version)
             /\ Current.scope = scope /\ Current.size = Len(list))'
<1>1. TypeOK => /\ Current \in Version /\ Versions \in Seq(Version)
                /\ Current.scope = scope /\ Current.size = Len(list)
  BY VersionsType
<1> QED
  BY <1>1, PTL

(***************************************************************************)
(* An operation that makes the queue current and keeps the array up to the *)
(* last save keeps what every enclosing scope will restore.                *)
(***************************************************************************)
LEMMA StackKept ==
  ASSUME IInv, IInv', MakeCurrent, level' = level,
         LastSave <= Len(list'), \A i \in 1..LastSave : list'[i] = list[i]
  PROVE  absStack' = absStack
<1>1. /\ TypeOK /\ Nested(Versions) /\ level \in Nat /\ scope \in 0..level
      /\ list \in Seq(Elements) /\ saved \in Seq(Version) /\ Len(list) \in Nat
      /\ lastsave \in 0..Len(list) /\ Versions = Append(saved, Current)
  BY NestedVersions DEF IInv, TypeOK, Versions
<1>2. /\ TypeOK' /\ Nested(Versions') /\ list' \in Seq(Elements) /\ Len(list') \in Nat
      /\ Versions' = Append(saved', Current') /\ scope' = level
  BY NestedVersionsNext DEF IInv, TypeOK, Versions, MakeCurrent
<1>3. /\ Current \in Version /\ Versions \in Seq(Version) /\ Current.scope = scope
      /\ Current.size = Len(list) /\ Versions[Len(Versions)] = Current
      /\ Current.lastsave = lastsave
  BY <1>1, VersionsType
<1>4. Current' \in Version /\ Current'.scope = level
  BY <1>2, VersionsTypeNext
<1>5. ASSUME NEW k \in 0..(level - 1)
      PROVE  Shown(Versions', list', k) = Shown(Versions, list, k)
  <2>1. k \in Nat /\ k < level
    BY <1>1
  <2>2. CASE scope = level
    <3>1. saved' = saved /\ LastSave = lastsave
      BY <2>2 DEF MakeCurrent, LastSave
    <3>2. saved # << >>
      <4>1. CASE saved = << >>
        <5>1. Versions[1] = Current
          BY <1>1, <4>1, VersionsType
        <5> QED
          BY <1>1, <1>3, <2>1, <2>2, <5>1 DEF Nested
      <4> QED
        BY <4>1
    <3>3. Nested(saved) /\ Current.lastsave = saved[Len(saved)].size
      BY <1>1, <1>3, <3>2, NestedFront
    <3>4. Shown(saved, list, k) = Shown(saved, list', k)
      BY <1>1, <1>2, <1>3, <2>1, <3>1, <3>3, ShownSame
    <3>5. Shown(Versions, list, k) = Shown(saved, list, k)
      BY <1>1, <1>3, <2>1, <2>2, <3>3, ShownAppend
    <3>6. Shown(Versions', list', k) = Shown(saved, list', k)
      BY <1>1, <1>2, <1>4, <2>1, <3>1, <3>3, ShownAppend
    <3> QED
      BY <3>4, <3>5, <3>6
  <2>3. CASE scope # level
    <3>1. saved' = Versions /\ LastSave = Len(list)
      BY <2>3 DEF MakeCurrent, LastSave, Versions, Current
    <3>2. PICK vs \in Seq(Version) : vs = Versions
      BY <1>3
    <3>3. /\ Nested(vs) /\ vs[Len(vs)].size = LastSave /\ LastSave <= Len(list)
          /\ Versions' = Append(vs, Current')
      BY <1>1, <1>2, <1>3, <3>1, <3>2
    <3>4. Shown(vs, list, k) = Shown(vs, list', k)
      BY <1>1, <1>2, <2>1, <3>3, ShownSame
    <3>5. Shown(Append(vs, Current'), list', k) = Shown(vs, list', k)
      BY <1>2, <1>4, <2>1, <3>3, ShownAppend
    <3> QED
      BY <3>2, <3>3, <3>4, <3>5
  <2> QED
    BY <2>2, <2>3
<1>6. \A k \in 1..level : Shown(Versions', list', k - 1) = Shown(Versions, list, k - 1)
  BY <1>1, <1>5
<1>7. absStack' = [k \in 1..level |-> Shown(Versions', list', k - 1)]
  BY AbsStackIsNext
<1> QED
  BY <1>6, <1>7, AbsStackIs

\* enqueue is Append.
LEMMA RefineEnqueue ==
  ASSUME IInv, IInv', NEW e \in Elements, Enqueue(e)
  PROVE  Abstract!Enqueue(e)
<1>1. /\ TypeOK /\ TypeOK' /\ list \in Seq(Elements) /\ Len(list) \in Nat
      /\ iter \in 0..Len(list) /\ LastSave \in 0..Len(list)
      /\ list' = Append(list, e) /\ iter' = iter /\ level' = level /\ MakeCurrent
  BY DEF IInv, TypeOK, Enqueue, LastSave
<1>2. Len(list') = Len(list) + 1 /\ \A i \in 1..Len(list) : list'[i] = list[i]
  BY <1>1
<1>3. absStack' = absStack
  BY <1>1, <1>2, StackKept
<1>4. PICK a \in Nat \ {0} : a = iter + 1
  BY <1>1
<1>5. PICK n \in 0..Len(list) : n = Len(list)
  BY <1>1
<1>6. PICK q : q = SubSeq(list, a, n)
  OBVIOUS
<1>7. PICK r : r = SubSeq(list', a, n + 1)
  OBVIOUS
<1>8. /\ q \in Seq(Elements) /\ Len(q) = IF a <= n THEN n - a + 1 ELSE 0
      /\ \A i \in 1..Len(q) : q[i] = list[a + i - 1] /\ a + i - 1 \in 1..n
  BY <1>1, <1>6, Segment
<1>9. /\ r \in Seq(Elements) /\ Len(r) = IF a <= n + 1 THEN (n + 1) - a + 1 ELSE 0
      /\ \A i \in 1..Len(r) : r[i] = list'[a + i - 1] /\ a + i - 1 \in 1..(n + 1)
  <2>1. list' \in Seq(Elements) /\ n + 1 \in 0..Len(list')
    BY <1>1, <1>2, <1>5
  <2> QED
    BY <1>7, <2>1, Segment
<1>10. Len(q) = n - a + 1 /\ Len(r) = n - a + 2 /\ a + Len(r) - 1 = Len(list) + 1
  BY <1>1, <1>4, <1>5, <1>8, <1>9
<1>11. r = Append(q, e)
  <2>1. Append(q, e) \in Seq(Elements) /\ Len(Append(q, e)) = Len(r)
    BY <1>8, <1>10
  <2>2. ASSUME NEW i \in 1..Len(r) PROVE r[i] = Append(q, e)[i]
    <3>1. CASE i = Len(r)
      <4>1. r[i] = list'[Len(list) + 1] /\ i = Len(q) + 1
        BY <1>9, <1>10, <3>1
      <4> QED
        BY <1>1, <1>8, <4>1
    <3>2. CASE i # Len(r)
      <4>1. i \in 1..Len(q)
        BY <1>10, <3>2
      <4>2. r[i] = list'[a + i - 1] /\ q[i] = list[a + i - 1] /\ a + i - 1 \in 1..Len(list)
        BY <1>5, <1>8, <1>9, <4>1
      <4> QED
        BY <1>2, <1>8, <4>1, <4>2
    <3> QED
      BY <3>1, <3>2
  <2> QED
    BY <1>9, <2>1, <2>2, SeqEqual
<1>12. Contents(Current)' = Append(Contents(Current), e)
  BY <1>1, <1>2, <1>4, <1>5, <1>6, <1>7, <1>11, AbsQueueIs, AbsQueueIsNext
<1> QED
  BY <1>3, <1>12 DEF Abstract!Enqueue, absStack

\* dequeue is Tail, also when the queue runs empty and is cut.
LEMMA RefineDequeue ==
  ASSUME IInv, IInv', Dequeue
  PROVE  Abstract!Dequeue
<1>1. /\ TypeOK /\ TypeOK' /\ list \in Seq(Elements) /\ Len(list) \in Nat
      /\ iter \in 0..Len(list) /\ LastSave \in 0..Len(list)
      /\ iter < Len(list) /\ level' = level /\ MakeCurrent
  BY DEF IInv, TypeOK, Dequeue, LastSave
<1>2. PICK a \in Nat \ {0} : a = iter + 1 /\ a <= Len(list)
  BY <1>1
<1>3. PICK n \in 0..Len(list) : n = Len(list)
  BY <1>1
<1>4. PICK q : q = SubSeq(list, a, n)
  OBVIOUS
<1>5. /\ q \in Seq(Elements) /\ Len(q) = n - a + 1 /\ Len(q) > 0 /\ q # << >>
      /\ \A i \in 1..Len(q) : q[i] = list[a + i - 1] /\ a + i - 1 \in 1..n
  <2>1. /\ q \in Seq(Elements) /\ Len(q) = IF a <= n THEN n - a + 1 ELSE 0
        /\ \A i \in 1..Len(q) : q[i] = list[a + i - 1] /\ a + i - 1 \in 1..n
    BY <1>1, <1>4, Segment
  <2>2. Len(q) = n - a + 1 /\ Len(q) > 0
    BY <1>1, <1>2, <1>3, <2>1
  <2> QED
    BY <2>1, <2>2
<1>6. PICK t : t = Tail(q)
  OBVIOUS
<1>7. /\ t \in Seq(Elements) /\ Len(t) = n - a
      /\ \A i \in 1..Len(t) : t[i] = q[i + 1]
  BY <1>5, <1>6
<1>8. CASE iter + 1 = Len(list) /\ LastSave # Len(list)
  <2>1. list' = SubSeq(list, 1, LastSave) /\ iter' = LastSave
    BY <1>8 DEF Dequeue, Dispose
  <2>2. Len(list') = LastSave /\ \A i \in 1..LastSave : list'[i] = list[i]
    BY <1>1, <2>1, Prefix
  <2>3. absStack' = absStack
    BY <1>1, <2>2, StackKept
  <2>4. Contents(Current)' = << >>
    <3>1. LastSave + 1 \in Int /\ LastSave \in Int /\ LastSave < LastSave + 1
      BY <1>1
    <3> QED
      BY <1>1, <2>1, <2>2, <3>1, AbsQueueIsNext, SubSeqEmpty
  <2>5. t = << >>
    <3>1. Len(t) = 0
      BY <1>2, <1>3, <1>7, <1>8
    <3> QED
      BY <1>7, <3>1, EmptySeq
  <2> QED
    BY <1>1, <1>2, <1>3, <1>4, <1>5, <1>6, <2>3, <2>4, <2>5, AbsQueueIs
    DEF Abstract!Dequeue, absStack
<1>9. CASE ~(iter + 1 = Len(list) /\ LastSave # Len(list))
  <2>1. list' = list /\ iter' = iter + 1
    BY <1>9 DEF Dequeue
  <2>2. absStack' = absStack
    BY <1>1, <2>1, StackKept
  <2>3. PICK r : r = SubSeq(list, a + 1, n)
    OBVIOUS
  <2>4. /\ r \in Seq(Elements) /\ Len(r) = n - a
        /\ \A i \in 1..Len(r) : r[i] = list[a + i]
    <3>1. /\ r \in Seq(Elements) /\ Len(r) = IF a + 1 <= n THEN n - (a + 1) + 1 ELSE 0
          /\ \A i \in 1..Len(r) : r[i] = list[a + 1 + i - 1]
      <4>1. a + 1 \in Nat \ {0}
        OBVIOUS
      <4> QED
        BY <1>1, <2>3, <4>1, Segment
    <3>2. Len(r) = n - a
      BY <1>1, <1>2, <1>3, <3>1
    <3>3. \A i \in 1..Len(r) : a + 1 + i - 1 = a + i
      BY <3>1
    <3> QED
      BY <3>1, <3>2, <3>3
  <2>5. r = t
    <3>1. ASSUME NEW i \in 1..Len(r) PROVE r[i] = t[i]
      <4>1. i + 1 \in 1..Len(q) /\ i \in 1..Len(t) /\ a + (i + 1) - 1 = a + i
        BY <1>5, <1>7, <2>4
      <4> QED
        BY <1>5, <1>7, <2>4, <4>1
    <3> QED
      BY <1>7, <2>4, <3>1, SeqEqual
  <2>6. Contents(Current)' = t
    BY <1>1, <1>2, <1>3, <2>1, <2>3, <2>5, AbsQueueIsNext
  <2> QED
    BY <1>1, <1>2, <1>3, <1>4, <1>5, <1>6, <2>2, <2>6, AbsQueueIs
    DEF Abstract!Dequeue, absStack
<1> QED
  BY <1>8, <1>9

\* A push of the context saves what the queue shows now.
LEMMA RefinePushScope ==
  ASSUME IInv, IInv', PushScope
  PROVE  Abstract!PushScope
<1>1. /\ TypeOK /\ Nested(Versions) /\ level \in Nat /\ scope \in 0..level
      /\ level' = level + 1 /\ Versions' = Versions /\ list' = list
      /\ Versions \in Seq(Version) /\ Versions[Len(Versions)] = Current
      /\ Current.scope = scope
  BY NestedVersions, VersionsType DEF IInv, TypeOK, PushScope, Versions, Current
<1>2. Contents(Current)' = Contents(Current)
  BY DEF PushScope, Contents, Current
<1>3. Shown(Versions, list, level) = Contents(Current)
  BY <1>1, ShownTop DEF Slice, Contents
<1>4. absStack' = [k \in 1..(level + 1) |-> Shown(Versions, list, k - 1)]
  BY <1>1, AbsStackIsNext
<1>5. [k \in 1..(level + 1) |-> Shown(Versions, list, k - 1)]
        = Append([k \in 1..level |-> Shown(Versions, list, k - 1)],
                 Shown(Versions, list, level))
  <2> DEFINE f == [k \in 1..(level + 1) |-> Shown(Versions, list, k - 1)]
  <2>1. f = [k \in 1..(level + 1) |-> f[k]]
    OBVIOUS
  <2>2. \A k \in 1..(level + 1) : f[k] = Shown(Versions, list, k - 1)
    OBVIOUS
  <2> HIDE DEF f
  <2>3. f = Append([k \in 1..level |-> f[k]], f[level + 1])
    BY <1>1, <2>1, AppendFunction
  <2>4. f[level + 1] = Shown(Versions, list, level)
    BY <1>1, <2>2
  <2>5. [k \in 1..level |-> f[k]] = [k \in 1..level |-> Shown(Versions, list, k - 1)]
    BY <1>1, <2>2
  <2> QED
    BY <2>3, <2>4, <2>5 DEF f
<1> QED
  BY <1>2, <1>3, <1>4, <1>5, AbsStackIs DEF Abstract!PushScope, absStack

\* A pop of the context brings the queue of the matching push back.
LEMMA RefinePopScope ==
  ASSUME IInv, IInv', PopScope
  PROVE  Abstract!PopScope
<1>1. /\ TypeOK /\ Nested(Versions) /\ level \in Nat \ {0} /\ scope \in 0..level
      /\ level' = level - 1 /\ list \in Seq(Elements)
      /\ Versions \in Seq(Version) /\ Versions[Len(Versions)] = Current
      /\ Current.scope = scope /\ Current \in Version /\ Versions = Append(saved, Current)
  BY NestedVersions, VersionsType DEF IInv, TypeOK, PopScope, Versions
\* What each remaining scope shows, and what the popped one showed.
<1>2. /\ \A k \in 0..(level - 2) : Shown(Versions', list', k) = Shown(Versions, list, k)
      /\ Contents(Current)' = Shown(Versions, list, level - 1)
  <2>1. CASE scope = level
    <3>1. PICK v \in Version : v = saved[Len(saved)]
      BY <2>1, PopScopeRestores
    <3>2. /\ saved \in Seq(Version) /\ Nested(saved) /\ Versions' = saved
          /\ v.scope < level /\ v.size \in 0..Len(list) /\ list' = SubSeq(list, 1, v.size)
          /\ list' \in Seq(Elements) /\ Len(list') = v.size
          /\ iter' = v.iter
      BY <2>1, <3>1, PopScopeRestores
    <3>3. \A i \in 1..v.size : list[i] = list'[i]
      BY <1>1, <3>2, Prefix
    <3>4. Len(list) \in Nat /\ v.size <= Len(list) /\ v.size <= Len(list')
      BY <1>1, <3>2
    <3>5. ASSUME NEW k \in 0..(level - 1)
          PROVE  Shown(Versions, list, k) = Shown(saved, list', k)
      <4>1. k \in Nat /\ k < Current.scope
        BY <1>1, <2>1
      <4>2. Shown(Append(saved, Current), list, k) = Shown(saved, list, k)
        BY <1>1, <3>2, <4>1, ShownAppend
      <4>3. Shown(saved, list, k) = Shown(saved, list', k)
        BY <1>1, <3>1, <3>2, <3>3, <3>4, <4>1, ShownSame
      <4> QED
        BY <1>1, <4>2, <4>3
    <3>6. Shown(saved, list', level - 1) = Slice(list', v)
      <4>1. level - 1 \in Nat /\ v.scope <= level - 1
        BY <1>1, <3>2, VersionFields
      <4> QED
        BY <3>1, <3>2, <4>1, ShownTop
    <3>7. Contents(Current)' = Slice(list', v)
      BY <3>2, AbsQueueIsNext DEF Slice, IInv
    <3> QED
      BY <1>1, <3>2, <3>5, <3>6, <3>7
  <2>2. CASE scope # level
    <3>1. Versions' = Versions /\ list' = list /\ Contents(Current)' = Contents(Current)
      BY <2>2 DEF PopScope, Versions, Current, Contents
    <3>2. level - 1 \in Nat /\ Current.scope <= level - 1
      BY <1>1, <2>2
    <3>3. Shown(Versions, list, level - 1) = Contents(Current)
      BY <1>1, <3>2, ShownTop DEF Slice, Contents
    <3> QED
      BY <3>1, <3>3
  <2> QED
    BY <2>1, <2>2
<1>3. absStack' = [k \in 1..(level - 1) |-> Shown(Versions, list, k - 1)]
  <2>1. absStack' = [k \in 1..(level - 1) |-> Shown(Versions', list', k - 1)]
    BY <1>1, AbsStackIsNext
  <2>2. \A k \in 1..(level - 1) : Shown(Versions', list', k - 1) = Shown(Versions, list, k - 1)
    BY <1>1, <1>2
  <2> QED
    BY <2>1, <2>2
<1> DEFINE st == [k \in 1..level |-> Shown(Versions, list, k - 1)]
           S == {Shown(Versions, list, k - 1) : k \in 1..level}
<1>4. st \in Seq(S) /\ Len(st) = level /\ st # << >>
  <2>1. st \in [1..level -> S] /\ level \in Nat
    BY <1>1
  <2>2. st \in Seq(S) /\ Len(st) = level
    BY <2>1, FunctionIsSeq
  <2> QED
    BY <1>1, <2>2
<1>5. st[level] = Shown(Versions, list, level - 1)
  BY <1>1
<1>6. SubSeq(st, 1, level - 1) = [k \in 1..(level - 1) |-> Shown(Versions, list, k - 1)]
  <2>1. \A k \in 1..(level - 1) : st[k] = Shown(Versions, list, k - 1)
    BY <1>1
  <2> HIDE DEF st
  <2>2. level - 1 \in 0..Len(st)
    BY <1>1, <1>4
  <2> QED
    BY <1>1, <1>4, <2>1, <2>2, PrefixFunction
<1>7. absStack = st
  BY AbsStackIs
<1> HIDE DEF st, S
<1> QED
  BY <1>2, <1>3, <1>4, <1>5, <1>6, <1>7 DEF Abstract!PopScope, absStack

\* A new queue is empty in all open scopes.
LEMMA RefineInit == Init => Abstract!Init
<1> SUFFICES ASSUME Init PROVE Abstract!Init
  OBVIOUS
<1>1. IInv /\ TypeOK /\ Nested(Versions) /\ level \in Nat
  BY InitIInv, NestedVersions DEF IInv, TypeOK
<1>2. list = << >> /\ iter = 0 /\ Len(saved) = 0 /\ Len(list) = 0 /\ scope = 0
  BY DEF Init
<1>3. Contents(Current) = << >>
  <2>1. SubSeq(list, 1, 0) = << >>
    BY SubSeqEmpty
  <2> QED
    BY <1>1, <1>2, <2>1, AbsQueueIs
<1>4. ASSUME NEW k \in 1..level PROVE Shown(Versions, list, k - 1) = << >>
  <2>1. Versions \in Seq(Version) /\ Versions[Len(Versions)] = Current /\ Current.scope = 0
    BY <1>1, <1>2, VersionsType
  <2>2. k - 1 \in Nat
    BY <1>1
  <2>3. Shown(Versions, list, k - 1) = Slice(list, Current)
    BY <1>1, <2>1, <2>2, ShownTop
  <2> QED
    BY <1>3, <2>3 DEF Slice, Contents
<1>5. absStack \in [1..level -> {<< >>}]
  BY <1>4, AbsStackIs
<1>6. absStack \in Seq({<< >>})
  BY <1>1, <1>5, FunctionIsSeq
<1> QED
  BY <1>3, <1>6 DEF Abstract!Init, absStack

(***************************************************************************)
(* For every set of elements, every depth and every interleaving of        *)
(* enqueue, dequeue, push and pop, CDQueue is first in, first out, and a   *)
(* pop restores the queue of its push, although all versions share one     *)
(* array and its places are used again as soon as the queue runs empty.    *)
(***************************************************************************)
THEOREM QueueRefines == Spec => RestoresQueue
<1>1. IInv /\ IInv' /\ [Next]_vars => [Abstract!Next]_(Abstract!vars)
  <2> SUFFICES ASSUME IInv, IInv', [Next]_vars PROVE [Abstract!Next]_(Abstract!vars)
    OBVIOUS
  <2>1. CASE \E e \in Elements : Enqueue(e)
    BY <2>1, RefineEnqueue DEF Abstract!Next
  <2>2. CASE Dequeue
    BY <2>2, RefineDequeue DEF Abstract!Next
  <2>3. CASE PushScope
    BY <2>3, RefinePushScope DEF Abstract!Next
  <2>4. CASE PopScope
    BY <2>4, RefinePopScope DEF Abstract!Next
  <2>5. CASE UNCHANGED vars
    BY <2>5 DEF vars, Abstract!vars, Contents, Versions, Current, VersionAt
  <2> QED
    BY <2>1, <2>2, <2>3, <2>4, <2>5 DEF Next
<1> QED
  BY <1>1, Inductive, RefineInit, PTL DEF Spec, RestoresQueue, Abstract!Spec

-----------------------------------------------------------------------------
(***************************************************************************)
(* CDHashMap, in the same context.  The map, whose elements save           *)
(* themselves one by one and only when they are written, implements        *)
(* MapStack.                                                               *)
(***************************************************************************)
CONSTANTS Keys, Data
VARIABLES table, order

Map == INSTANCE CDHashMap

\* Both sides erase in the same way.
LEMMA MapOnly == \A q, S : Map!Only(q, S) = Only(q, S)
BY DEF Map!Only, Only

(***************************************************************************)
(* The inductive invariant.  The versions of an element go up from scope   *)
(* 0, and only the first one may be outside the map: so the restore that   *)
(* uncovers it is the one of the scope in which the element was made.      *)
(***************************************************************************)
Element == [now : Map!Version, saved : Seq(Map!Version)]

All(e) == Append(e.saved, e.now)

Chain(vs) ==
    /\ vs \in Seq(Map!Version) /\ Len(vs) >= 1 /\ vs[1].scope = 0
    /\ \A i, j \in 1..Len(vs) : i < j => vs[i].scope < vs[j].scope
    /\ \A i \in 2..Len(vs) : vs[i].inMap

Sound(e, l) ==
    /\ e \in Element /\ Chain(All(e))
    /\ e.now.inMap /\ e.now.scope <= l

\* The list has the keys of the map.
Listed(o, t) ==
    /\ DOMAIN t \subseteq Keys /\ o \in Seq(Keys)
    /\ \A i \in 1..Len(o) : o[i] \in DOMAIN t
    /\ \A k \in DOMAIN t : \E i \in 1..Len(o) : o[i] = k

MapIInv ==
    /\ level \in 0..MaxLevel
    /\ Listed(order, table)
    /\ \A k \in DOMAIN table : Sound(table[k], level)

-----------------------------------------------------------------------------
(***************************************************************************)
(* Versions: the one that is in effect at a level.                         *)
(***************************************************************************)
IsAt(vs, l, i) ==
    /\ i \in DOMAIN vs
    /\ vs[i].scope <= l
    /\ \A j \in DOMAIN vs : j > i => vs[j].scope > l

MapShown(vs, l) == vs[CHOOSE i \in DOMAIN vs :
                     /\ vs[i].scope <= l
                     /\ \A j \in DOMAIN vs : j > i => vs[j].scope > l]

\* The version of an element is that of its chain.
LEMMA VersionAtIs == \A e, l : Map!VersionAt(e, l) = MapShown(All(e), l)
BY DEF Map!VersionAt, MapShown, All

\* The fields of a version.
LEMMA MapVersionFields ==
  ASSUME NEW v \in Map!Version
  PROVE  v.scope \in Nat /\ v.data \in Data /\ v.inMap \in BOOLEAN
BY BoundsAssumption DEF Map!Version

\* What is chosen is the only one there is.
LEMMA ShownIs ==
  ASSUME NEW vs \in Seq(Map!Version), NEW l \in Nat, NEW i, IsAt(vs, l, i)
  PROVE  MapShown(vs, l) = vs[i]
<1> DEFINE P(k) == vs[k].scope <= l /\ \A j \in DOMAIN vs : j > k => vs[j].scope > l
           c == CHOOSE k \in DOMAIN vs : P(k)
<1>1. i \in DOMAIN vs /\ P(i)
  BY DEF IsAt
<1>2. c \in DOMAIN vs /\ P(c)
  BY <1>1
<1>3. MapShown(vs, l) = vs[c]
  BY DEF MapShown
<1>4. c \in Nat /\ i \in Nat /\ vs[c].scope \in Nat /\ vs[i].scope \in Nat
  BY <1>1, <1>2, MapVersionFields
<1> HIDE DEF c
<1>5. ~(c > i) /\ ~(i > c)
  BY <1>1, <1>2, <1>4
<1> QED
  BY <1>3, <1>4, <1>5

\* Every level has a version in effect, since the first one is of scope 0.
LEMMA MapAtExists ==
  ASSUME NEW vs, Chain(vs), NEW l \in Nat
  PROVE  \E i \in 1..Len(vs) : IsAt(vs, l, i)
<1> DEFINE n == Len(vs)
           T == {d \in 0..(n - 1) : vs[n - d].scope <= l}
<1>1. /\ vs \in Seq(Map!Version) /\ n \in Nat /\ n >= 1 /\ DOMAIN vs = 1..n /\ vs[1].scope = 0
      /\ \A i \in 1..n : vs[i] \in Map!Version
  BY DEF Chain
<1>2. \A i \in 1..n : vs[i].scope \in Nat
  BY <1>1, MapVersionFields
<1>3. n - 1 \in T /\ T \subseteq Nat
  BY <1>1
<1>4. PICK d \in T : \A e \in T : d <= e
  <2> HIDE DEF T
  <2> QED
    BY <1>3, LeastNat
<1>5. PICK i : i = n - d
  OBVIOUS
<1>6. i \in 1..n /\ vs[i].scope <= l
  BY <1>1, <1>4, <1>5
<1>7. ASSUME NEW j \in 1..n, j > i PROVE vs[j].scope > l
  <2>1. n - j \in 0..(n - 1) /\ n - (n - j) = j /\ ~(d <= n - j)
    BY <1>1, <1>4, <1>5, <1>7
  <2>2. n - j \notin T
    BY <1>4, <2>1
  <2>3. ~(vs[j].scope <= l)
    BY <2>1, <2>2
  <2> QED
    BY <1>2, <2>3
<1>8. IsAt(vs, l, i)
  BY <1>1, <1>6, <1>7 DEF IsAt
<1> QED
  BY <1>6, <1>8

\* The last version, once its scope is reached.
LEMMA MapShownTop ==
  ASSUME NEW vs, Chain(vs), NEW l \in Nat, vs[Len(vs)].scope <= l
  PROVE  MapShown(vs, l) = vs[Len(vs)]
<1>1. /\ vs \in Seq(Map!Version) /\ Len(vs) \in Nat /\ Len(vs) \in 1..Len(vs)
      /\ DOMAIN vs = 1..Len(vs)
  BY DEF Chain
<1>2. IsAt(vs, l, Len(vs))
  BY <1>1 DEF IsAt
<1> QED
  BY <1>1, <1>2, ShownIs

\* A version of a later scope is not seen.
LEMMA ShownBelow ==
  ASSUME NEW vs, Chain(vs), NEW v \in Map!Version, NEW l \in Nat, v.scope > l
  PROVE  MapShown(Append(vs, v), l) = MapShown(vs, l)
<1>1. vs \in Seq(Map!Version) /\ Len(vs) \in Nat /\ DOMAIN vs = 1..Len(vs)
  BY DEF Chain
<1>2. PICK i \in 1..Len(vs) : IsAt(vs, l, i)
  BY MapAtExists
<1>3. PICK w : w = Append(vs, v)
  OBVIOUS
<1>4. /\ w \in Seq(Map!Version) /\ Len(w) = Len(vs) + 1 /\ DOMAIN w = 1..(Len(vs) + 1)
      /\ \A j \in 1..Len(vs) : w[j] = vs[j]
      /\ w[Len(vs) + 1] = v
      /\ \A j \in 1..(Len(vs) + 1) : j \in 1..Len(vs) \/ j = Len(vs) + 1
  BY <1>1, <1>3, Appended
<1>5. i \in 1..(Len(vs) + 1)
  BY <1>1
<1>6. IsAt(w, l, i)
  BY <1>1, <1>2, <1>4, <1>5 DEF IsAt
<1>7. MapShown(w, l) = w[i] /\ MapShown(vs, l) = vs[i]
  BY <1>1, <1>2, <1>4, <1>6, ShownIs
<1> QED
  BY <1>3, <1>4, <1>7

(***************************************************************************)
(* Elements: what set, the constructor and restore do to the chain.        *)
(***************************************************************************)
Written(d) == [scope |-> level, data |-> d, inMap |-> TRUE]

\* The chain of an element.
LEMMA AllIs ==
  ASSUME NEW e \in Element
  PROVE  /\ e.saved \in Seq(Map!Version) /\ e.now \in Map!Version
         /\ All(e) \in Seq(Map!Version) /\ Len(All(e)) = Len(e.saved) + 1
         /\ \A i \in 1..Len(e.saved) : All(e)[i] = e.saved[i]
         /\ All(e)[Len(e.saved) + 1] = e.now /\ Len(e.saved) \in Nat
         /\ \A i \in 1..(Len(e.saved) + 1) : i \in 1..Len(e.saved) \/ i = Len(e.saved) + 1
<1>1. e.saved \in Seq(Map!Version) /\ e.now \in Map!Version
  BY DEF Element
<1> QED
  BY <1>1, Appended DEF All

\* An element shows its current version from its scope on.
LEMMA NowShown ==
  ASSUME NEW L \in Nat, NEW e, Sound(e, L), NEW l \in Nat, e.now.scope <= l
  PROVE  Map!VersionAt(e, l) = e.now
<1>1. e \in Element /\ Chain(All(e))
  BY DEF Sound
<1>2. All(e)[Len(All(e))] = e.now
  BY <1>1, AllIs
<1>3. MapShown(All(e), l) = e.now
  BY <1>1, <1>2, MapShownTop
<1> QED
  BY <1>3, VersionAtIs

\* A chain extended by a version of a later scope.
LEMMA ChainGrows ==
  ASSUME NEW vs, Chain(vs), NEW v \in Map!Version, v.inMap, vs[Len(vs)].scope < v.scope
  PROVE  Chain(Append(vs, v))
<1>1. /\ vs \in Seq(Map!Version) /\ Len(vs) \in Nat /\ Len(vs) >= 1
      /\ \A i \in 1..Len(vs) : vs[i] \in Map!Version
  BY DEF Chain
<1>2. PICK n \in Nat : n = Len(vs) /\ n >= 1
  BY <1>1
<1>3. PICK w : w = Append(vs, v)
  OBVIOUS
<1>4. /\ w \in Seq(Map!Version) /\ Len(w) = n + 1
      /\ \A j \in 1..n : w[j] = vs[j]
      /\ w[n + 1] = v
      /\ \A j \in 1..(n + 1) : j \in 1..n \/ j = n + 1
  BY <1>1, <1>2, <1>3, Appended
<1>5. \A i \in 1..n : vs[i].scope \in Nat /\ v.scope \in Nat
  BY <1>1, <1>2, MapVersionFields
<1>6. \A i \in 1..n : vs[i].scope < v.scope
  <2> TAKE i \in 1..n
  <2>1. i < n => vs[i].scope < vs[n].scope
    BY <1>2 DEF Chain
  <2> QED
    BY <1>2, <1>5, <2>1
<1>7. ASSUME NEW i \in 1..(n + 1), NEW j \in 1..(n + 1), i < j PROVE w[i].scope < w[j].scope
  <2>1. CASE j \in 1..n
    <3>1. i \in 1..n
      BY <1>2, <1>7, <2>1
    <3> QED
      BY <1>2, <1>4, <1>7, <2>1, <3>1 DEF Chain
  <2>2. CASE j = n + 1
    <3>1. i \in 1..n
      BY <1>2, <1>7, <2>2
    <3> QED
      BY <1>4, <1>6, <2>2, <3>1
  <2> QED
    BY <1>4, <2>1, <2>2
<1>8. \A i \in 2..(n + 1) : w[i].inMap
  <2> TAKE i \in 2..(n + 1)
  <2>1. i \in 2..n \/ i = n + 1
    BY <1>2
  <2>2. i \in 2..n => i \in 1..n /\ vs[i].inMap
    BY <1>2 DEF Chain
  <2> QED
    BY <1>4, <2>1, <2>2
<1>9. w[1].scope = 0 /\ n + 1 >= 1
  <2>1. 1 \in 1..n
    BY <1>2
  <2> QED
    BY <1>2, <1>4, <2>1 DEF Chain
<1>10. Chain(w)
  BY <1>4, <1>7, <1>8, <1>9 DEF Chain
<1> QED
  BY <1>3, <1>10

\* Without its last version, a chain of several versions is a chain.
LEMMA ChainShrinks ==
  ASSUME NEW vs \in Seq(Map!Version), NEW v \in Map!Version, Len(vs) >= 1, Chain(Append(vs, v))
  PROVE  Chain(vs) /\ vs[Len(vs)].scope < v.scope /\ v.inMap
<1>1. PICK n \in Nat : n = Len(vs) /\ n >= 1
  OBVIOUS
<1>2. PICK w : w = Append(vs, v)
  OBVIOUS
<1>3. /\ w \in Seq(Map!Version) /\ Len(w) = n + 1
      /\ \A j \in 1..n : w[j] = vs[j]
      /\ w[n + 1] = v
  BY <1>1, <1>2, Appended
<1>4. /\ w[1].scope = 0
      /\ \A i, j \in 1..(n + 1) : i < j => w[i].scope < w[j].scope
      /\ \A i \in 2..(n + 1) : w[i].inMap
  BY <1>2, <1>3 DEF Chain
<1>5. /\ \A i \in 1..n : i \in 1..(n + 1)
      /\ \A i \in 2..n : i \in 2..(n + 1) /\ i \in 1..n
      /\ 1 \in 1..n /\ n \in 1..n /\ n \in 1..(n + 1) /\ n + 1 \in 1..(n + 1) /\ n < n + 1
      /\ n + 1 \in 2..(n + 1)
  BY <1>1
<1>6. vs[1].scope = 0 /\ vs[n].scope < v.scope /\ v.inMap
  BY <1>3, <1>4, <1>5
<1>7. /\ \A i, j \in 1..n : i < j => vs[i].scope < vs[j].scope
      /\ \A i \in 2..n : vs[i].inMap
  BY <1>3, <1>4, <1>5
<1> QED
  BY <1>1, <1>6, <1>7 DEF Chain


\* Changing one field of the current version.
LEMMA ChangeField ==
  ASSUME NEW a, NEW b, NEW c, NEW s, NEW x, NEW e,
         e = [now |-> [scope |-> a, data |-> b, inMap |-> c], saved |-> s]
  PROVE  /\ [e EXCEPT !.now.data = x] = [now |-> [scope |-> a, data |-> x, inMap |-> c], saved |-> s]
         /\ [e EXCEPT !.now.inMap = x] = [now |-> [scope |-> a, data |-> b, inMap |-> x], saved |-> s]
<1>1. PICK v : v = [scope |-> a, data |-> b, inMap |-> c]
  OBVIOUS
<1>2. e = [now |-> v, saved |-> s] /\ e.now = v
  BY <1>1
<1>3. /\ [v EXCEPT !.data = x] = [scope |-> a, data |-> x, inMap |-> c]
      /\ [v EXCEPT !.inMap = x] = [scope |-> a, data |-> b, inMap |-> x]
  BY <1>1
<1>4. \A w : [e EXCEPT !.now = w] = [now |-> w, saved |-> s]
  BY <1>2
<1> QED
  BY <1>2, <1>3, <1>4

\* What set leaves: the written version on top of those of earlier scopes.
LEMMA SetDataIs ==
  ASSUME level \in 0..MaxLevel, NEW e \in Element, NEW d \in Data, e.now.inMap \in BOOLEAN
  PROVE  /\ Map!SetData(e, d) \in Element
         /\ Map!SetData(e, d).now = [scope |-> level, data |-> d, inMap |-> e.now.inMap]
         /\ Map!SetData(e, d).saved = IF e.now.scope = level THEN e.saved
                                  ELSE Append(e.saved, e.now)
<1>1. /\ e = [now |-> e.now, saved |-> e.saved]
      /\ e.now = [scope |-> e.now.scope, data |-> e.now.data, inMap |-> e.now.inMap]
      /\ e.saved \in Seq(Map!Version) /\ e.now \in Map!Version
  BY DEF Element, Map!Version
<1>2. [scope |-> level, data |-> d, inMap |-> e.now.inMap] \in Map!Version
  BY DEF Map!Version
<1>3. Append(e.saved, e.now) \in Seq(Map!Version)
  BY <1>1
<1>4. /\ Map!MakeCurrent(e).now = [scope |-> level, data |-> e.now.data, inMap |-> e.now.inMap]
      /\ Map!MakeCurrent(e).saved = IF e.now.scope = level THEN e.saved
                                ELSE Append(e.saved, e.now)
      /\ Map!MakeCurrent(e) = [now |-> Map!MakeCurrent(e).now, saved |-> Map!MakeCurrent(e).saved]
  BY <1>1 DEF Map!MakeCurrent
<1>5. Map!SetData(e, d) = [now |-> [scope |-> level, data |-> d, inMap |-> e.now.inMap],
                       saved |-> Map!MakeCurrent(e).saved]
  <2>1. PICK m, b, c, s : /\ m = Map!MakeCurrent(e) /\ b = e.now.data /\ c = e.now.inMap
                          /\ s = Map!MakeCurrent(e).saved
    OBVIOUS
  <2>2. m = [now |-> [scope |-> level, data |-> b, inMap |-> c], saved |-> s]
    BY <1>4, <2>1
  <2>3. [m EXCEPT !.now.data = d] = [now |-> [scope |-> level, data |-> d, inMap |-> c], saved |-> s]
    BY ONLY <2>2, ChangeField
  <2>4. Map!SetData(e, d) = [m EXCEPT !.now.data = d]
    BY <2>1 DEF Map!SetData
  <2> QED
    BY <2>1, <2>3, <2>4
<1> QED
  BY <1>1, <1>2, <1>3, <1>4, <1>5 DEF Element

\* A write changes the current version only.
LEMMA SetSound ==
  ASSUME level \in 0..MaxLevel, NEW e, Sound(e, level), NEW d \in Data, NEW f, f = Map!SetData(e, d)
  PROVE  /\ Sound(f, level) /\ f.now = Written(d)
         /\ \A l \in Nat : l < level => Map!VersionAt(f, l) = Map!VersionAt(e, l)
<1>1. e \in Element /\ Chain(All(e)) /\ e.now.inMap = TRUE /\ e.now.scope <= level
  <2>1. e.now \in Map!Version /\ e.now.inMap
    BY AllIs DEF Sound
  <2> QED
    BY <2>1, MapVersionFields DEF Sound
<1>2. /\ f \in Element /\ f.now = Written(d)
      /\ f.saved = IF e.now.scope = level THEN e.saved ELSE Append(e.saved, e.now)
  BY <1>1, SetDataIs DEF Written
<1>3. /\ level \in Nat /\ e.now.scope \in Nat /\ e.now \in Map!Version /\ f.now \in Map!Version
      /\ e.saved \in Seq(Map!Version) /\ Len(e.saved) \in Nat
      /\ f.now.scope = level /\ f.now.inMap
      /\ All(f) = Append(f.saved, f.now) /\ All(e) = Append(e.saved, e.now)
  BY <1>1, <1>2, BoundsAssumption, AllIs, MapVersionFields DEF All, Written
<1>4. CASE e.now.scope = level /\ Len(e.saved) >= 1
  <2>1. f.saved = e.saved /\ All(f) = Append(e.saved, f.now)
    BY <1>2, <1>3, <1>4
  <2>2. Chain(e.saved) /\ e.saved[Len(e.saved)].scope < e.now.scope
    BY <1>1, <1>3, <1>4, ChainShrinks
  <2>3. Chain(All(f))
    BY <1>3, <1>4, <2>1, <2>2, ChainGrows
  <2>4. ASSUME NEW l \in Nat, l < level PROVE Map!VersionAt(f, l) = Map!VersionAt(e, l)
    <3>1. e.now.scope > l /\ f.now.scope > l
      BY <1>3, <1>4, <2>4
    <3>2. MapShown(Append(e.saved, e.now), l) = MapShown(Append(e.saved, f.now), l)
      BY <1>3, <2>2, <3>1, ShownBelow
    <3> QED
      BY <1>3, <2>1, <3>2, VersionAtIs
  <2> QED
    BY <1>2, <1>3, <2>3, <2>4 DEF Sound
<1>5. CASE e.now.scope = level /\ ~(Len(e.saved) >= 1)
  <2>1. Len(e.saved) = 0
    BY <1>3, <1>5
  <2>2. All(e)[1] = e.now
    BY <1>1, <2>1, AllIs
  <2>3. level = 0
    BY <1>1, <1>5, <2>2 DEF Chain
  <2>4. f.saved = e.saved /\ All(f) \in Seq(Map!Version) /\ Len(All(f)) = 1 /\ All(f)[1] = f.now
    <3>1. f.saved = e.saved /\ Len(f.saved) = 0
      BY <1>2, <1>5, <2>1
    <3>2. /\ All(f) \in Seq(Map!Version) /\ Len(All(f)) = Len(f.saved) + 1
          /\ All(f)[Len(f.saved) + 1] = f.now
      BY <1>2, AllIs
    <3> QED
      BY <3>1, <3>2
  <2>5. \A i \in 1..1 : i = 1
    OBVIOUS
  <2>6. Chain(All(f))
    BY <1>3, <2>3, <2>4, <2>5 DEF Chain
  <2> QED
    BY <1>2, <1>3, <2>3, <2>6 DEF Sound
<1>6. CASE e.now.scope # level
  <2>1. f.saved = All(e) /\ All(f) = Append(All(e), f.now)
    BY <1>2, <1>3, <1>6
  <2>2. All(e)[Len(All(e))].scope < f.now.scope
    <3>1. All(e)[Len(All(e))] = e.now
      BY <1>1, AllIs
    <3> QED
      BY <1>1, <1>3, <1>6, <3>1
  <2>3. Chain(All(f))
    BY <1>1, <1>3, <2>1, <2>2, ChainGrows
  <2>4. ASSUME NEW l \in Nat, l < level PROVE Map!VersionAt(f, l) = Map!VersionAt(e, l)
    <3>1. f.now.scope > l
      BY <1>3, <2>4
    <3>2. MapShown(Append(All(e), f.now), l) = MapShown(All(e), l)
      BY <1>1, <1>3, <3>1, ShownBelow
    <3> QED
      BY <2>1, <3>2, VersionAtIs
  <2> QED
    BY <1>2, <1>3, <2>3, <2>4 DEF Sound
<1> QED
  BY <1>4, <1>5, <1>6

\* A new element: below the scope that it is made in it is in no map.
LEMMA NewSound ==
  ASSUME level \in 0..MaxLevel, NEW d \in Data, NEW f, f = Map!NewElement(d)
  PROVE  /\ Sound(f, level) /\ f.now = Written(d)
         /\ \A l \in Nat : l < level => ~Map!VersionAt(f, l).inMap
<1>1. PICK v, e : /\ v = [scope |-> 0, data |-> d, inMap |-> FALSE]
                  /\ e = [now |-> v, saved |-> << >>]
  OBVIOUS
<1>2. /\ v \in Map!Version /\ v.scope = 0 /\ v.inMap = FALSE /\ e \in Element
      /\ e.now = v /\ e.saved = << >>
  <2>1. v \in Map!Version
    BY <1>1, BoundsAssumption DEF Map!Version
  <2>2. << >> \in Seq(Map!Version)
    OBVIOUS
  <2> QED
    BY <1>1, <2>1, <2>2 DEF Element
<1>3. PICK g : g = Map!SetData(e, d)
  OBVIOUS
<1>4. /\ g \in Element /\ g.now = [scope |-> level, data |-> d, inMap |-> FALSE]
      /\ g.saved = IF level = 0 THEN << >> ELSE Append(<< >>, v)
  <2>1. e.now.inMap = FALSE /\ e.now.inMap \in BOOLEAN
    BY <1>2
  <2>2. /\ g \in Element /\ g.now = [scope |-> level, data |-> d, inMap |-> e.now.inMap]
        /\ g.saved = IF e.now.scope = level THEN e.saved ELSE Append(e.saved, e.now)
    BY <1>2, <1>3, <2>1, SetDataIs
  <2> QED
    BY <1>2, <2>1, <2>2
<1>5. f = [g EXCEPT !.now.inMap = TRUE]
  BY <1>1, <1>3 DEF Map!NewElement
<1>6. f.now = Written(d) /\ f.saved = g.saved /\ f \in Element
  <2>1. g = [now |-> g.now, saved |-> g.saved] /\ g.saved \in Seq(Map!Version)
    BY <1>4 DEF Element
  <2>2. PICK s : s = g.saved
    OBVIOUS
  <2>3. g = [now |-> [scope |-> level, data |-> d, inMap |-> FALSE], saved |-> s]
    BY <1>4, <2>1, <2>2
  <2>4. f = [now |-> [scope |-> level, data |-> d, inMap |-> TRUE], saved |-> s]
    BY ONLY <1>5, <2>3, ChangeField
  <2>5. f = [now |-> Written(d), saved |-> s]
    BY <2>4 DEF Written
  <2>6. Written(d) \in Map!Version
    BY DEF Written, Map!Version
  <2>7. s \in Seq(Map!Version)
    BY <2>1, <2>2
  <2> HIDE DEF Written
  <2> QED
    BY <2>2, <2>5, <2>6, <2>7 DEF Element
<1>7. level \in Nat /\ f.now.scope = level /\ f.now.inMap /\ f.now \in Map!Version
  BY <1>6, BoundsAssumption, AllIs DEF Written
<1>8. CASE level = 0
  <2>1. f.saved = << >> /\ Len(f.saved) = 0
    BY <1>4, <1>6, <1>8
  <2>2. All(f) \in Seq(Map!Version) /\ Len(All(f)) = 1 /\ All(f)[1] = f.now
    <3>1. /\ All(f) \in Seq(Map!Version) /\ Len(All(f)) = Len(f.saved) + 1
          /\ All(f)[Len(f.saved) + 1] = f.now
      BY <1>6, AllIs
    <3> QED
      BY <2>1, <3>1
  <2>3. \A i \in 1..1 : i = 1
    OBVIOUS
  <2>4. Chain(All(f))
    BY <1>7, <1>8, <2>2, <2>3 DEF Chain
  <2> QED
    BY <1>6, <1>7, <1>8, <2>4 DEF Sound
<1>9. CASE level # 0
  <2>1. PICK vs : vs = Append(<< >>, v)
    OBVIOUS
  <2>2. vs \in Seq(Map!Version) /\ Len(vs) = 1 /\ vs[1] = v
    BY <1>2, <2>1
  <2>3. \A i \in 1..1 : i = 1
    OBVIOUS
  <2>4. Chain(vs)
    BY <1>2, <2>2, <2>3 DEF Chain
  <2>5. f.saved = vs /\ All(f) = Append(vs, f.now)
    BY <1>4, <1>6, <1>9, <2>1 DEF All
  <2>6. vs[Len(vs)].scope < f.now.scope
    BY <1>2, <1>7, <1>9, <2>2
  <2>7. Chain(All(f))
    BY <1>7, <2>4, <2>5, <2>6, ChainGrows
  <2>8. ASSUME NEW l \in Nat, l < level PROVE ~Map!VersionAt(f, l).inMap
    <3>1. f.now.scope > l /\ vs[Len(vs)].scope <= l
      BY <1>2, <1>7, <2>2, <2>8
    <3>2. MapShown(Append(vs, f.now), l) = MapShown(vs, l)
      BY <1>7, <2>4, <3>1, ShownBelow
    <3>3. MapShown(vs, l) = v
      BY <2>2, <2>4, <3>1, MapShownTop
    <3> QED
      BY <1>2, <2>5, <3>2, <3>3, VersionAtIs
  <2> QED
    BY <1>6, <1>7, <2>7, <2>8 DEF Sound
<1> QED
  BY <1>8, <1>9


\* A pop of the scope of an element uncovers the version before; one that is in
\* no map is the first one, and the element was made in the popped scope.
LEMMA RestoreSound ==
  ASSUME level \in 1..MaxLevel, NEW e, Sound(e, level), e.now.scope = level,
         NEW f, f = Map!Restore(e)
  PROVE  /\ Last(e.saved).inMap => Sound(f, level - 1)
         /\ \A l \in Nat : l < level => Map!VersionAt(f, l) = Map!VersionAt(e, l)
         /\ ~Last(e.saved).inMap => \A l \in Nat : l < level => ~Map!VersionAt(e, l).inMap
<1>1. /\ e \in Element /\ Chain(All(e)) /\ e.saved \in Seq(Map!Version) /\ e.now \in Map!Version
      /\ All(e) = Append(e.saved, e.now) /\ Len(e.saved) \in Nat /\ level \in Nat
  BY BoundsAssumption, AllIs DEF Sound, All
<1>2. PICK n \in Nat : n = Len(e.saved)
  BY <1>1
<1>3. n >= 1
  <2> SUFFICES ASSUME n = 0 PROVE FALSE
    BY <1>2
  <2>1. All(e)[n + 1] = e.now
    BY <1>1, <1>2, AllIs
  <2>2. All(e)[1] = e.now
    BY <2>1
  <2>3. All(e)[1].scope = 0
    BY <1>1 DEF Chain
  <2> QED
    BY <2>2, <2>3
<1>4. PICK vs : vs = e.saved
  OBVIOUS
<1>5. /\ vs \in Seq(Map!Version) /\ Len(vs) = n /\ Chain(vs) /\ vs[n].scope < level
      /\ vs # << >> /\ vs[n] \in Map!Version /\ vs[n].scope \in Nat
  <2>1. vs \in Seq(Map!Version) /\ Len(vs) = n /\ Chain(Append(vs, e.now)) /\ Len(vs) >= 1
    BY <1>1, <1>2, <1>3, <1>4
  <2>2. Chain(vs) /\ vs[n].scope < level
    BY <1>1, <2>1, ChainShrinks
  <2>3. vs # << >> /\ vs[n] \in Map!Version
    BY <1>3, <2>1
  <2> QED
    BY <2>1, <2>2, <2>3, MapVersionFields
<1>6. Last(e.saved) = vs[n] /\ f.now = vs[n] /\ f.saved = SubSeq(vs, 1, n - 1)
      /\ f = [now |-> f.now, saved |-> f.saved]
  BY <1>4, <1>5 DEF Map!Restore, Map!Last, Map!Front, Last
<1>7. All(f) = vs
  <2>1. Append(SubSeq(vs, 1, n - 1), vs[n]) = vs
    BY <1>5, AppendLast
  <2> QED
    BY <1>6, <2>1 DEF All
<1>8. f \in Element
  <2>1. n - 1 \in 0..Len(vs)
    BY <1>3, <1>5
  <2>2. f.saved \in Seq(Map!Version)
    BY <1>5, <1>6, <2>1, Prefix
  <2> QED
    BY <1>5, <1>6, <2>2 DEF Element
<1>9. ASSUME NEW l \in Nat, l < level
      PROVE  Map!VersionAt(e, l) = MapShown(vs, l) /\ Map!VersionAt(f, l) = MapShown(vs, l)
  <2>1. e.now.scope > l
    BY <1>1, <1>9
  <2>2. MapShown(Append(vs, e.now), l) = MapShown(vs, l)
    BY <1>1, <1>5, <2>1, ShownBelow
  <2> QED
    BY <1>1, <1>4, <1>7, <2>2, VersionAtIs
<1>10. vs[n].inMap => Sound(f, level - 1)
  <2>1. f.now.scope <= level - 1
    BY <1>1, <1>5, <1>6
  <2> QED
    BY <1>5, <1>6, <1>7, <1>8, <2>1 DEF Sound
<1>11. ASSUME ~vs[n].inMap, NEW l \in Nat, l < level PROVE ~Map!VersionAt(e, l).inMap
  <2>1. ~(n \in 2..Len(vs))
    BY <1>5, <1>11 DEF Chain
  <2>2. n = 1 /\ Len(vs) = 1
    BY <1>3, <1>5, <2>1
  <2>3. vs[Len(vs)].scope <= l
    BY <1>5, <2>2 DEF Chain
  <2>4. MapShown(vs, l) = vs[n]
    BY <1>5, <2>3, MapShownTop
  <2> QED
    BY <1>9, <1>11, <2>4
<1> QED
  BY <1>6, <1>9, <1>10, <1>11

-----------------------------------------------------------------------------
(***************************************************************************)
(* The invariant.                                                          *)
(***************************************************************************)
\* A new map is empty.
LEMMA MapInitIInv == Map!Init => MapIInv
<1> SUFFICES ASSUME Map!Init PROVE MapIInv
  OBVIOUS
<1>1. level \in 0..MaxLevel /\ DOMAIN table = {} /\ order = << >> /\ Len(order) = 0
  BY DEF Map!Init
<1>2. order \in Seq(Keys) /\ 1..0 = {}
  BY <1>1
<1> QED
  BY <1>1, <1>2 DEF MapIInv, Listed

\* insert of a new key.
LEMMA InsertNewIInv ==
  ASSUME MapIInv, NEW k \in Keys, NEW d \in Data, Map!InsertNew(k, d)
  PROVE  MapIInv'
<1>1. /\ level \in 0..MaxLevel /\ level' = level /\ k \notin DOMAIN table
      /\ DOMAIN table' = DOMAIN table \cup {k} /\ table'[k] = Map!NewElement(d)
      /\ \A i \in DOMAIN table : table'[i] = table[i]
      /\ order' = Append(order, k)
  BY DEF MapIInv, Map!InsertNew
<1>2. Sound(table'[k], level)
  BY <1>1, NewSound
<1>3. Listed(order', table')
  <2>1. DOMAIN table \subseteq Keys /\ order \in Seq(Keys) /\ Len(order) \in Nat
    BY DEF MapIInv, Listed
  <2>2. /\ order' \in Seq(Keys) /\ Len(order') = Len(order) + 1
        /\ \A i \in 1..Len(order) : order'[i] = order[i] /\ i \in 1..(Len(order) + 1)
        /\ order'[Len(order) + 1] = k /\ Len(order) + 1 \in 1..(Len(order) + 1)
        /\ \A i \in 1..(Len(order) + 1) : i \in 1..Len(order) \/ i = Len(order) + 1
    BY <1>1, <2>1, Appended
  <2>3. \A i \in 1..Len(order') : order'[i] \in DOMAIN table'
    BY <1>1, <2>2 DEF MapIInv, Listed
  <2>4. \A j \in DOMAIN table' : \E i \in 1..Len(order') : order'[i] = j
    BY <1>1, <2>2 DEF MapIInv, Listed
  <2> QED
    BY <1>1, <2>1, <2>2, <2>3, <2>4 DEF Listed
<1>4. \A j \in DOMAIN table' : Sound(table'[j], level)
  BY <1>1, <1>2 DEF MapIInv
<1> QED
  BY <1>1, <1>3, <1>4 DEF MapIInv

\* insert of a key that is present.
LEMMA InsertAgainIInv ==
  ASSUME MapIInv, NEW k \in Keys, NEW d \in Data, Map!InsertAgain(k, d)
  PROVE  MapIInv'
<1>1. /\ level \in 0..MaxLevel /\ level' = level /\ order' = order /\ k \in DOMAIN table
      /\ DOMAIN table' = DOMAIN table /\ table'[k] = Map!SetData(table[k], d)
      /\ \A i \in DOMAIN table : i # k => table'[i] = table[i]
  BY DEF MapIInv, Map!InsertAgain
<1>2. Sound(table'[k], level)
  BY <1>1, SetSound DEF MapIInv
<1>3. \A j \in DOMAIN table' : Sound(table'[j], level)
  BY <1>1, <1>2 DEF MapIInv
<1>4. Listed(order', table')
  BY <1>1 DEF MapIInv, Listed
<1> QED
  BY <1>1, <1>3, <1>4 DEF MapIInv

\* clear.
LEMMA ClearIInv == MapIInv /\ Map!Clear => MapIInv'
<1> SUFFICES ASSUME MapIInv, Map!Clear PROVE MapIInv'
  OBVIOUS
<1>1. level' \in 0..MaxLevel /\ DOMAIN table' = {} /\ order' = << >> /\ Len(order') = 0
  BY DEF MapIInv, Map!Clear
<1>2. order' \in Seq(Keys) /\ 1..0 = {}
  BY <1>1
<1> QED
  BY <1>1, <1>2 DEF MapIInv, Listed

\* A push leaves the map alone.
LEMMA MapPushScopeIInv == MapIInv /\ Map!PushScope => MapIInv'
<1> SUFFICES ASSUME MapIInv, Map!PushScope PROVE MapIInv'
  OBVIOUS
<1>1. level \in Nat /\ level' = level + 1 /\ level' \in 0..MaxLevel /\ UNCHANGED <<table, order>>
  BY BoundsAssumption DEF MapIInv, Map!PushScope
<1>2. ASSUME NEW k \in DOMAIN table PROVE Sound(table[k], level + 1)
  <2>1. Sound(table[k], level)
    BY DEF MapIInv
  <2>2. table[k].now.scope \in Nat
    BY <2>1, AllIs, MapVersionFields DEF Sound
  <2> QED
    BY <1>1, <2>1, <2>2 DEF Sound
<1> QED
  BY <1>1, <1>2 DEF MapIInv


\* A pop: the elements that leave show nothing below the popped scope, the
\* others show what they did.
LEMMA PopScopeFacts ==
  ASSUME MapIInv, Map!PopScope
  PROVE  \E gone \in SUBSET DOMAIN table :
           /\ DOMAIN table' = DOMAIN table \ gone
           /\ order' = Only(order, Keys \ gone)
           /\ \A k \in gone, l \in Nat : l < level => ~Map!VersionAt(table[k], l).inMap
           /\ \A k \in DOMAIN table \ gone : Sound(table'[k], level - 1)
           /\ \A k \in DOMAIN table \ gone, l \in Nat :
                l < level => Map!VersionAt(table'[k], l) = Map!VersionAt(table[k], l)
<1>1. level \in 1..MaxLevel /\ level \in Nat
  BY BoundsAssumption DEF MapIInv, Map!PopScope
<1> DEFINE top == {k \in DOMAIN table : table[k].now.scope = level}
           gone == {k \in top : ~Last(table[k].saved).inMap}
<1>2. /\ table' = [k \in DOMAIN table \ gone |->
                     IF k \in top THEN Map!Restore(table[k]) ELSE table[k]]
      /\ order' = Only(order, Keys \ gone)
  <2>1. \A k : Last(table[k].saved) = Map!Last(table[k].saved)
    BY DEF Last, Map!Last
  <2>2. gone = {k \in top : ~Map!Last(table[k].saved).inMap}
    BY <2>1
  <2>3. order' = Map!Only(order, Keys \ gone)
    BY <2>2 DEF Map!PopScope
  <2> QED
    BY <2>2, <2>3, MapOnly DEF Map!PopScope
<1>3. ASSUME NEW k \in gone, NEW l \in Nat, l < level PROVE ~Map!VersionAt(table[k], l).inMap
  <2>1. Sound(table[k], level) /\ table[k].now.scope = level /\ ~Last(table[k].saved).inMap
    BY DEF MapIInv
  <2> QED
    BY <1>1, <1>3, <2>1, RestoreSound
<1>4. ASSUME NEW k \in DOMAIN table \ gone
      PROVE  /\ Sound(table'[k], level - 1)
             /\ \A l \in Nat : l < level => Map!VersionAt(table'[k], l) = Map!VersionAt(table[k], l)
  <2>1. Sound(table[k], level)
    BY DEF MapIInv
  <2>2. CASE k \in top
    <3>1. /\ table'[k] = Map!Restore(table[k]) /\ table[k].now.scope = level
          /\ Last(table[k].saved).inMap
      BY <1>2, <2>2
    <3> QED
      BY <1>1, <2>1, <3>1, RestoreSound
  <2>3. CASE k \notin top
    <3>1. table'[k] = table[k] /\ table[k].now.scope # level
      BY <1>2, <2>3
    <3>2. table[k].now.scope \in Nat /\ table[k].now.scope <= level
      BY <2>1, AllIs, MapVersionFields DEF Sound
    <3>3. table[k].now.scope <= level - 1
      BY <1>1, <3>1, <3>2
    <3> QED
      BY <2>1, <3>1, <3>3 DEF Sound
  <2> QED
    BY <2>2, <2>3
<1>5. gone \in SUBSET DOMAIN table /\ DOMAIN table' = DOMAIN table \ gone
  BY <1>2
<1> HIDE DEF gone, top
<1> QED
  BY <1>2, <1>3, <1>4, <1>5

\* A pop leaves a list of the keys that stay.
LEMMA MapPopScopeIInv == MapIInv /\ Map!PopScope => MapIInv'
<1> SUFFICES ASSUME MapIInv, Map!PopScope PROVE MapIInv'
  OBVIOUS
<1>1. PICK gone \in SUBSET DOMAIN table :
         /\ DOMAIN table' = DOMAIN table \ gone
         /\ order' = Only(order, Keys \ gone)
         /\ \A k \in DOMAIN table \ gone : Sound(table'[k], level - 1)
  BY PopScopeFacts
<1>2. level' = level - 1 /\ level' \in 0..MaxLevel
  BY BoundsAssumption DEF MapIInv, Map!PopScope
<1>3. /\ order \in Seq(Keys) /\ DOMAIN table \subseteq Keys
      /\ ToSet(order) = DOMAIN table
  <2>1. order \in Seq(Keys) /\ DOMAIN table \subseteq Keys
    BY DEF MapIInv, Listed
  <2>2. ToSet(order) = {order[p] : p \in 1..Len(order)}
    BY <2>1, SeqSet
  <2> QED
    BY <2>1, <2>2 DEF MapIInv, Listed
<1>4. order' \in Seq(Keys) /\ ToSet(order') = DOMAIN table'
  <2>1. order' \in Seq(Keys) /\ ToSet(order') = ToSet(order) \cap (Keys \ gone)
    BY <1>1, <1>3, OnlySet
  <2> QED
    BY <1>1, <1>3, <2>1
<1>5. ToSet(order') = {order'[p] : p \in 1..Len(order')}
  BY <1>4, SeqSet
<1>6. Listed(order', table')
  BY <1>1, <1>3, <1>4, <1>5 DEF Listed
<1>7. \A k \in DOMAIN table' : Sound(table'[k], level')
  BY <1>1, <1>2
<1> QED
  BY <1>2, <1>6, <1>7 DEF MapIInv

\* The invariant holds throughout.
LEMMA MapInductive == Map!Spec => []MapIInv
<1>1. MapIInv /\ [Map!Next]_(Map!vars) => MapIInv'
  <2> SUFFICES ASSUME MapIInv, [Map!Next]_(Map!vars) PROVE MapIInv'
    OBVIOUS
  <2>1. ASSUME NEW k \in Keys, NEW d \in Data, Map!InsertNew(k, d) PROVE MapIInv'
    BY <2>1, InsertNewIInv
  <2>2. ASSUME NEW k \in Keys, NEW d \in Data, Map!InsertAgain(k, d) PROVE MapIInv'
    BY <2>2, InsertAgainIInv
  <2>3. CASE Map!Clear \/ Map!PushScope \/ Map!PopScope
    BY <2>3, ClearIInv, MapPushScopeIInv, MapPopScopeIInv
  <2>4. CASE UNCHANGED Map!vars
    BY <2>4 DEF Map!vars, MapIInv
  <2> QED
    BY <2>1, <2>2, <2>3, <2>4 DEF Map!Next
<1> QED
  BY <1>1, MapInitIInv, PTL DEF Map!Spec

-----------------------------------------------------------------------------
(***************************************************************************)
(* The refinement: the entries of the map at each open level.              *)
(***************************************************************************)
Present(t, l) == {k \in DOMAIN t : Map!VersionAt(t[k], l).inMap}

Entries(keys, t, l) ==
    [i \in DOMAIN keys |-> [key |-> keys[i], data |-> Map!VersionAt(t[keys[i]], l).data]]

MapAt(o, t, l) == Entries(Only(o, Present(t, l)), t, l)

absEntries == Map!EntriesAt(level)
MapAbsStack == [l \in 1..level |-> Map!EntriesAt(l - 1)]

\* The mapping in these terms, before and after a step.
LEMMA EntriesAtIs ==
  /\ \A l : Map!EntriesAt(l) = MapAt(order, table, l)
  /\ absEntries = MapAt(order, table, level)
  /\ MapAbsStack = [l \in 1..level |-> MapAt(order, table, l - 1)]
<1>1. \A l : Map!EntriesAt(l) = Entries(Map!Only(order, Present(table, l)), table, l)
  BY DEF Map!EntriesAt, Entries, Present
<1>2. \A l : Map!EntriesAt(l) = MapAt(order, table, l)
  BY <1>1, MapOnly DEF MapAt
<1> QED
  BY <1>2 DEF absEntries, MapAbsStack

\* The same after a step.
LEMMA EntriesAtIsNext ==
  /\ absEntries' = MapAt(order', table', level')
  /\ MapAbsStack' = [l \in 1..level' |-> MapAt(order', table', l - 1)]
<1>1. (absEntries = MapAt(order, table, level) /\
       MapAbsStack = [l \in 1..level |-> MapAt(order, table, l - 1)])'
  BY EntriesAtIs, PTL
<1> QED
  BY <1>1

\* Entries depend on the versions of the listed keys alone.
LEMMA SameEntries ==
  ASSUME NEW keys, NEW t, NEW u, NEW l,
         \A i \in DOMAIN keys : Map!VersionAt(t[keys[i]], l) = Map!VersionAt(u[keys[i]], l)
  PROVE  Entries(keys, t, l) = Entries(keys, u, l)
BY DEF Entries

\* The map at a level at which all its elements are in effect.
LEMMA CurrentMap ==
  ASSUME NEW L \in Nat, NEW o, NEW t, Listed(o, t), \A k \in DOMAIN t : Sound(t[k], L),
         NEW l \in Nat, L <= l
  PROVE  MapAt(o, t, l) = [i \in 1..Len(o) |->
            [key |-> o[i], data |-> t[o[i]].now.data]]
<1>1. ASSUME NEW k \in DOMAIN t PROVE Map!VersionAt(t[k], l) = t[k].now /\ t[k].now.inMap
  <2>1. Sound(t[k], L)
    OBVIOUS
  <2>2. t[k].now.scope \in Nat /\ t[k].now.scope <= L /\ t[k].now.inMap
    BY <2>1, AllIs, MapVersionFields DEF Sound
  <2>3. t[k].now.scope <= l
    BY <2>2
  <2> QED
    BY <2>1, <2>2, <2>3, NowShown
<1>2. o \in Seq(Keys) /\ \A i \in 1..Len(o) : o[i] \in DOMAIN t
  BY DEF Listed
<1>3. Only(o, Present(t, l)) = o
  <2>1. \A i \in 1..Len(o) : o[i] \in Present(t, l)
    BY <1>1, <1>2 DEF Present
  <2> QED
    BY <1>2, <2>1, OnlyAll
<1>4. DOMAIN o = 1..Len(o)
  BY <1>2
<1>5. \A i \in 1..Len(o) : Map!VersionAt(t[o[i]], l).data = t[o[i]].now.data
  BY <1>1, <1>2
<1> QED
  BY <1>3, <1>4, <1>5 DEF MapAt, Entries


\* A new map is empty in all open scopes.
LEMMA MapRefineInit == Map!Init => Map!Abstract!Init
<1> SUFFICES ASSUME Map!Init PROVE Map!Abstract!Init
  OBVIOUS
<1>1. level \in Nat /\ order = << >>
  BY BoundsAssumption DEF Map!Init
<1>2. \A l : MapAt(order, table, l) = << >>
  <2> TAKE l
  <2>1. Only(order, Present(table, l)) = << >>
    BY <1>1, OnlyEmpty
  <2> QED
    BY <2>1 DEF MapAt, Entries
<1>3. absEntries = << >> /\ MapAbsStack \in [1..level -> {<< >>}]
  BY <1>2, EntriesAtIs
<1>4. MapAbsStack \in Seq({<< >>})
  BY <1>1, <1>3, FunctionIsSeq
<1> QED
  BY <1>3, <1>4 DEF Map!Abstract!Init, absEntries, MapAbsStack

\* The current entries, as the invariant describes them.
LEMMA Now ==
  ASSUME MapIInv
  PROVE  /\ level \in Nat /\ order \in Seq(Keys) /\ Len(order) \in Nat
         /\ absEntries = [i \in 1..Len(order) |->
                            [key |-> order[i], data |-> table[order[i]].now.data]]
         /\ DOMAIN absEntries = 1..Len(order)
         /\ \A i \in 1..Len(order) : order[i] \in DOMAIN table /\ absEntries[i].key = order[i]
<1>1. level \in Nat /\ level <= level
  BY BoundsAssumption DEF MapIInv
<1>2. absEntries = [i \in 1..Len(order) |->
                      [key |-> order[i], data |-> table[order[i]].now.data]]
  BY <1>1, EntriesAtIs, CurrentMap DEF MapIInv
<1>3. order \in Seq(Keys) /\ \A i \in 1..Len(order) : order[i] \in DOMAIN table
  BY DEF MapIInv, Listed
<1> QED
  BY <1>1, <1>2, <1>3

\* The same after a step.
LEMMA NowNext ==
  MapIInv' => absEntries' = [i \in 1..Len(order') |->
                            [key |-> order'[i], data |-> table'[order'[i]].now.data]]
<1>1. MapIInv => absEntries = [i \in 1..Len(order) |->
                              [key |-> order[i], data |-> table[order[i]].now.data]]
  BY Now
<1>2. (MapIInv => absEntries = [i \in 1..Len(order) |->
                               [key |-> order[i], data |-> table[order[i]].now.data]])'
  BY <1>1, PTL
<1> QED
  BY <1>2

\* insert of a new key adds an entry at the end, now and at no level below.
LEMMA RefineInsertNew ==
  ASSUME MapIInv, MapIInv', NEW k \in Keys, NEW d \in Data, Map!InsertNew(k, d)
  PROVE  Map!Abstract!Insert(k, d)
<1>1. /\ level \in 0..MaxLevel /\ level \in Nat /\ level' = level /\ k \notin DOMAIN table
      /\ DOMAIN table' = DOMAIN table \cup {k} /\ table'[k] = Map!NewElement(d)
      /\ \A i \in DOMAIN table : table'[i] = table[i]
      /\ order' = Append(order, k)
  BY BoundsAssumption DEF MapIInv, Map!InsertNew
<1>2. /\ table'[k].now = Written(d)
      /\ \A l \in Nat : l < level => ~Map!VersionAt(table'[k], l).inMap
  BY <1>1, NewSound
<1>3. PICK n \in Nat : /\ n = Len(order) /\ order \in Seq(Keys)
                       /\ \A i \in 1..n : order[i] \in DOMAIN table
  BY Now
<1>4. /\ order' \in Seq(Keys) /\ Len(order') = n + 1
      /\ \A i \in 1..n : order'[i] = order[i]
      /\ order'[n + 1] = k
  BY <1>1, <1>3, Appended
<1> DEFINE x == [key |-> k, data |-> d]
<1>5. absEntries' = Append(absEntries, x)
  <2>1. PICK f : f = absEntries'
    OBVIOUS
  <2>2. f = [i \in 1..(n + 1) |-> [key |-> order'[i], data |-> table'[order'[i]].now.data]]
    BY <1>4, <2>1, NowNext
  <2>3. f = [i \in 1..(n + 1) |-> f[i]]
    BY <2>2
  <2>4. f[n + 1] = x
    <3>1. n + 1 \in 1..(n + 1)
      OBVIOUS
    <3>2. table'[k].now.data = d
      BY <1>2 DEF Written
    <3> QED
      BY <1>4, <2>2, <3>1, <3>2
  <2>5. [i \in 1..n |-> f[i]] = absEntries
    <3>1. ASSUME NEW i \in 1..n
          PROVE  f[i] = [key |-> order[i], data |-> table[order[i]].now.data]
      <4>1. i \in 1..(n + 1)
        OBVIOUS
      <4>2. order'[i] = order[i] /\ table'[order[i]] = table[order[i]]
        BY <1>1, <1>3, <1>4
      <4> QED
        BY <2>2, <4>1, <4>2
    <3>2. absEntries = [i \in 1..n |-> [key |-> order[i], data |-> table[order[i]].now.data]]
      BY <1>3, Now
    <3> QED
      BY <3>1, <3>2
  <2>6. f = Append([i \in 1..n |-> f[i]], f[n + 1])
    BY <2>3, AppendFunction
  <2> QED
    BY <2>1, <2>4, <2>5, <2>6
<1>6. {i \in DOMAIN absEntries : absEntries[i].key = k} = {}
  BY <1>1, <1>3, Now
<1>7. ASSUME NEW l \in Nat, l < level PROVE MapAt(order', table', l) = MapAt(order, table, l)
  <2>1. PICK S, R : S = Present(table', l) /\ R = Present(table, l)
    OBVIOUS
  <2>2. k \notin S
    BY <1>2, <1>7, <2>1 DEF Present
  <2>3. \A i \in 1..Len(order) : order[i] \in S <=> order[i] \in R
    BY <1>1, <1>3, <2>1 DEF Present
  <2>4. Only(order', S) = Only(order, S)
    BY <1>1, <1>3, <2>2, OnlyAppend
  <2>5. Only(order, S) = Only(order, R)
    BY <1>3, <2>3, OnlySame
  <2>6. PICK keys : keys = Only(order, R)
    OBVIOUS
  <2>7. /\ keys \in Seq(Keys) /\ ToSet(keys) = ToSet(order) \cap R
        /\ ToSet(keys) = {keys[p] : p \in 1..Len(keys)}
    BY <1>3, <2>6, OnlySet, SeqSet
  <2>8. \A i \in DOMAIN keys : Map!VersionAt(table'[keys[i]], l) = Map!VersionAt(table[keys[i]], l)
    BY <1>1, <2>1, <2>7 DEF Present
  <2>9. Entries(keys, table', l) = Entries(keys, table, l)
    BY <2>8, SameEntries
  <2> QED
    BY <2>1, <2>4, <2>5, <2>6, <2>9 DEF MapAt
<1>8. MapAbsStack' = MapAbsStack
  <2>1. \A l \in 1..level : l - 1 \in Nat /\ l - 1 < level
    BY <1>1
  <2>2. \A l \in 1..level : MapAt(order', table', l - 1) = MapAt(order, table, l - 1)
    BY <1>7, <2>1
  <2> QED
    BY <1>1, <2>2, EntriesAtIs, EntriesAtIsNext
<1> QED
  BY <1>5, <1>6, <1>8 DEF Map!Abstract!Insert, absEntries, MapAbsStack


\* insert of a key that is present changes its entry, now and at no level below.
LEMMA RefineInsertAgain ==
  ASSUME MapIInv, MapIInv', NEW k \in Keys, NEW d \in Data, Map!InsertAgain(k, d)
  PROVE  Map!Abstract!Insert(k, d)
<1>1. /\ level \in 0..MaxLevel /\ level \in Nat /\ level' = level /\ order' = order
      /\ k \in DOMAIN table /\ DOMAIN table' = DOMAIN table
      /\ table'[k] = Map!SetData(table[k], d)
      /\ \A i \in DOMAIN table : i # k => table'[i] = table[i]
  BY BoundsAssumption DEF MapIInv, Map!InsertAgain
<1>2. /\ table'[k].now = Written(d)
      /\ \A l \in Nat : l < level => Map!VersionAt(table'[k], l) = Map!VersionAt(table[k], l)
  BY <1>1, SetSound DEF MapIInv
<1>3. PICK n \in Nat : /\ n = Len(order) /\ order \in Seq(Keys)
                       /\ \A i \in 1..n : order[i] \in DOMAIN table
  BY Now
<1> DEFINE x == [key |-> k, data |-> d]
           at == {i \in DOMAIN absEntries : absEntries[i].key = k}
<1>4. at = {i \in 1..n : order[i] = k} /\ DOMAIN absEntries = 1..n
  BY <1>3, Now
<1>5. at # {}
  <2>1. \E i \in 1..n : order[i] = k
    BY <1>1, <1>3 DEF MapIInv, Listed
  <2> QED
    BY <1>4, <2>1
<1>6. absEntries' = [i \in 1..n |-> IF i \in at THEN x ELSE absEntries[i]]
  <2>1. absEntries' = [i \in 1..n |-> [key |-> order[i], data |-> table'[order[i]].now.data]]
    BY <1>1, <1>3, NowNext
  <2>2. absEntries = [i \in 1..n |-> [key |-> order[i], data |-> table[order[i]].now.data]]
    BY <1>3, Now
  <2>3. ASSUME NEW i \in 1..n
        PROVE  [key |-> order[i], data |-> table'[order[i]].now.data] =
                 IF i \in at THEN x ELSE absEntries[i]
    <3>1. CASE order[i] = k
      <4>1. i \in at /\ table'[order[i]].now.data = d
        BY <1>2, <1>4, <3>1 DEF Written
      <4> QED
        BY <3>1, <4>1
    <3>2. CASE order[i] # k
      <4>1. i \notin at /\ table'[order[i]] = table[order[i]]
        BY <1>1, <1>3, <1>4, <3>2
      <4> QED
        BY <2>2, <4>1
    <3> QED
      BY <3>1, <3>2
  <2> HIDE DEF at, x
  <2> QED
    BY <2>1, <2>3
<1>7. ASSUME NEW l \in Nat, l < level PROVE MapAt(order', table', l) = MapAt(order, table, l)
  <2>1. \A i \in DOMAIN table : Map!VersionAt(table'[i], l) = Map!VersionAt(table[i], l)
    BY <1>1, <1>2, <1>7
  <2>2. Present(table', l) = Present(table, l)
    BY <1>1, <2>1 DEF Present
  <2>3. PICK keys, R : keys = Only(order, R) /\ R = Present(table, l)
    OBVIOUS
  <2>4. /\ keys \in Seq(Keys) /\ ToSet(keys) = ToSet(order) \cap R
        /\ ToSet(keys) = {keys[p] : p \in 1..Len(keys)}
    BY <1>3, <2>3, OnlySet, SeqSet
  <2>5. \A i \in DOMAIN keys : Map!VersionAt(table'[keys[i]], l) = Map!VersionAt(table[keys[i]], l)
    <3>1. \A i \in R : Map!VersionAt(table'[i], l) = Map!VersionAt(table[i], l)
      BY <2>1, <2>3 DEF Present
    <3> QED
      BY <2>4, <3>1
  <2>6. Entries(keys, table', l) = Entries(keys, table, l)
    BY <2>5, SameEntries
  <2> QED
    BY <1>1, <2>2, <2>3, <2>6 DEF MapAt
<1>8. MapAbsStack' = MapAbsStack
  <2>1. \A l \in 1..level : l - 1 \in Nat /\ l - 1 < level
    BY <1>1
  <2>2. \A l \in 1..level : MapAt(order', table', l - 1) = MapAt(order, table, l - 1)
    BY <1>7, <2>1
  <2> QED
    BY <1>1, <2>2, EntriesAtIs, EntriesAtIsNext
<1> QED
  BY <1>4, <1>5, <1>6, <1>8 DEF Map!Abstract!Insert, absEntries, MapAbsStack

\* clear empties the map at every level.
LEMMA RefineClear == MapIInv /\ Map!Clear => Map!Abstract!Clear
<1> SUFFICES ASSUME MapIInv, Map!Clear PROVE Map!Abstract!Clear
  OBVIOUS
<1>1. level' = level /\ order' = << >>
  BY DEF Map!Clear
<1>2. \A l : MapAt(order', table', l) = << >>
  <2> TAKE l
  <2>1. Only(order', Present(table', l)) = << >>
    BY <1>1, OnlyEmpty
  <2> QED
    BY <2>1 DEF MapAt, Entries
<1>3. absEntries' = << >> /\ MapAbsStack' = [l \in 1..level |-> << >>] /\ DOMAIN MapAbsStack = 1..level
  BY <1>1, <1>2, EntriesAtIsNext, EntriesAtIs
<1> QED
  BY <1>3 DEF Map!Abstract!Clear, absEntries, MapAbsStack

\* A push records the map.
LEMMA MapRefinePushScope == MapIInv /\ Map!PushScope => Map!Abstract!PushScope
<1> SUFFICES ASSUME MapIInv, Map!PushScope PROVE Map!Abstract!PushScope
  OBVIOUS
<1>1. level \in Nat /\ level' = level + 1 /\ UNCHANGED <<table, order>>
  BY BoundsAssumption DEF MapIInv, Map!PushScope
<1>2. MapAt(order, table, level + 1) = MapAt(order, table, level)
  <2>1. level <= level /\ level <= level + 1 /\ level + 1 \in Nat
    BY <1>1
  <2>2. Listed(order, table) /\ \A k \in DOMAIN table : Sound(table[k], level)
    BY DEF MapIInv
  <2> DEFINE R == [i \in 1..Len(order) |->
                     [key |-> order[i], data |-> table[order[i]].now.data]]
  <2>3. MapAt(order, table, level + 1) = R
    BY ONLY <1>1, <2>1, <2>2, CurrentMap
  <2>4. MapAt(order, table, level) = R
    BY ONLY <1>1, <2>1, <2>2, CurrentMap
  <2> HIDE DEF R
  <2> QED
    BY <2>3, <2>4
<1>3. absEntries' = absEntries
  BY <1>1, <1>2, EntriesAtIs, EntriesAtIsNext
<1>4. MapAbsStack' = Append(MapAbsStack, absEntries)
  <2>1. PICK f : f = MapAbsStack'
    OBVIOUS
  <2>2. f = [l \in 1..(level + 1) |-> MapAt(order, table, l - 1)]
    BY <1>1, <2>1, EntriesAtIsNext
  <2>3. f = [l \in 1..(level + 1) |-> f[l]]
    BY <2>2
  <2>4. f[level + 1] = absEntries
    <3>1. level + 1 \in 1..(level + 1) /\ (level + 1) - 1 = level
      BY <1>1
    <3> QED
      BY <2>2, <3>1, EntriesAtIs
  <2>5. [l \in 1..level |-> f[l]] = MapAbsStack
    <3>1. \A l \in 1..level : l \in 1..(level + 1)
      BY <1>1
    <3>2. \A l \in 1..level : f[l] = MapAt(order, table, l - 1)
      BY <2>2, <3>1
    <3> QED
      BY <3>2, EntriesAtIs
  <2>6. f = Append([l \in 1..level |-> f[l]], f[level + 1])
    BY <1>1, <2>3, AppendFunction
  <2> QED
    BY <2>1, <2>4, <2>5, <2>6
<1> QED
  BY <1>3, <1>4 DEF Map!Abstract!PushScope, absEntries, MapAbsStack

\* A pop brings the recorded map back.
LEMMA MapRefinePopScope == MapIInv /\ Map!PopScope => Map!Abstract!PopScope
<1> SUFFICES ASSUME MapIInv, Map!PopScope PROVE Map!Abstract!PopScope
  OBVIOUS
<1>1. level \in Nat /\ level >= 1 /\ level' = level - 1
  BY BoundsAssumption DEF MapIInv, Map!PopScope
<1>2. PICK gone \in SUBSET DOMAIN table :
           /\ DOMAIN table' = DOMAIN table \ gone
           /\ order' = Only(order, Keys \ gone)
           /\ \A k \in gone, l \in Nat : l < level => ~Map!VersionAt(table[k], l).inMap
           /\ \A k \in DOMAIN table \ gone, l \in Nat :
                l < level => Map!VersionAt(table'[k], l) = Map!VersionAt(table[k], l)
  BY PopScopeFacts
<1>3. order \in Seq(Keys) /\ DOMAIN table \subseteq Keys
  BY DEF MapIInv, Listed
<1>4. ASSUME NEW l \in Nat, l < level PROVE MapAt(order', table', l) = MapAt(order, table, l)
  <2>1. PICK stay, R : stay = Keys \ gone /\ R = Present(table, l)
    OBVIOUS
  <2>2. Present(table', l) = R /\ R \subseteq stay
    BY <1>2, <1>3, <1>4, <2>1 DEF Present
  <2>3. Only(order', R) = Only(order, stay \cap R)
    BY <1>2, <1>3, <2>1, OnlyOnly
  <2>4. stay \cap R = R
    BY <2>2
  <2>5. PICK keys : keys = Only(order, R)
    OBVIOUS
  <2>6. /\ keys \in Seq(Keys) /\ ToSet(keys) = ToSet(order) \cap R
        /\ ToSet(keys) = {keys[p] : p \in 1..Len(keys)}
    BY <1>3, <2>5, OnlySet, SeqSet
  <2>7. \A k \in R : Map!VersionAt(table'[k], l) = Map!VersionAt(table[k], l)
    BY <1>2, <1>4, <2>1, <2>2 DEF Present
  <2>8. \A i \in DOMAIN keys : Map!VersionAt(table'[keys[i]], l) = Map!VersionAt(table[keys[i]], l)
    BY <2>6, <2>7
  <2>9. Entries(keys, table', l) = Entries(keys, table, l)
    BY <2>8, SameEntries
  <2> QED
    BY <2>1, <2>2, <2>3, <2>4, <2>5, <2>9 DEF MapAt
<1>5. PICK st : st = [l \in 1..level |-> MapAt(order, table, l - 1)]
  OBVIOUS
<1>6. PICK S : st \in Seq(S) /\ Len(st) = level
  <2> DEFINE S == {MapAt(order, table, l - 1) : l \in 1..level}
  <2>1. st \in [1..level -> S]
    BY <1>5
  <2> HIDE DEF S
  <2>2. st \in Seq(S) /\ Len(st) = level
    BY <1>1, <2>1, FunctionIsSeq
  <2> QED
    BY <2>2
<1>7. absEntries' = st[level] /\ st # << >>
  <2>1. level - 1 \in Nat /\ level - 1 < level /\ level \in 1..level
    BY <1>1
  <2>2. absEntries' = MapAt(order, table, level - 1)
    BY <1>1, <1>4, <2>1, EntriesAtIsNext
  <2>3. st # << >>
    BY <1>1, <1>6
  <2> QED
    BY <1>5, <2>1, <2>2, <2>3
<1>8. MapAbsStack' = SubSeq(st, 1, level - 1)
  <2>1. level - 1 \in 0..Len(st)
    BY <1>1, <1>6
  <2>2. SubSeq(st, 1, level - 1) = [l \in 1..(level - 1) |-> st[l]]
    BY <1>6, <2>1, PrefixFunction
  <2>3. \A l \in 1..(level - 1) : l \in 1..level /\ l - 1 \in Nat /\ l - 1 < level
    BY <1>1
  <2>4. \A l \in 1..(level - 1) : st[l] = MapAt(order', table', l - 1)
    BY <1>4, <1>5, <2>3
  <2>5. MapAbsStack' = [l \in 1..(level - 1) |-> MapAt(order', table', l - 1)]
    BY <1>1, EntriesAtIsNext
  <2> QED
    BY <2>2, <2>4, <2>5
<1>9. MapAbsStack = st
  BY <1>5, EntriesAtIs
<1> QED
  BY <1>6, <1>7, <1>8, <1>9 DEF Map!Abstract!PopScope, absEntries, MapAbsStack

(***************************************************************************)
(* For any keys, data and depth, and any order of insertions, clears,      *)
(* pushes and pops, the map implements a stack of snapshots, order of      *)
(* iteration included, although it keeps no snapshot itself.               *)
(***************************************************************************)
THEOREM MapRefines == Map!Spec => Map!RestoresMap
<1>1. MapIInv /\ MapIInv' /\ [Map!Next]_(Map!vars) => [Map!Abstract!Next]_(Map!Abstract!vars)
  <2> SUFFICES ASSUME MapIInv, MapIInv', [Map!Next]_(Map!vars) PROVE [Map!Abstract!Next]_(Map!Abstract!vars)
    OBVIOUS
  <2>1. ASSUME NEW k \in Keys, NEW d \in Data, Map!InsertNew(k, d) PROVE Map!Abstract!Next
    BY <2>1, RefineInsertNew DEF Map!Abstract!Next
  <2>2. ASSUME NEW k \in Keys, NEW d \in Data, Map!InsertAgain(k, d) PROVE Map!Abstract!Next
    BY <2>2, RefineInsertAgain DEF Map!Abstract!Next
  <2>3. CASE Map!Clear
    BY <2>3, RefineClear DEF Map!Abstract!Next
  <2>4. CASE Map!PushScope
    BY <2>4, MapRefinePushScope DEF Map!Abstract!Next
  <2>5. CASE Map!PopScope
    BY <2>5, MapRefinePopScope DEF Map!Abstract!Next
  <2>6. CASE UNCHANGED Map!vars
    BY <2>6 DEF Map!vars, Map!Abstract!vars, Map!EntriesAt
  <2> QED
    BY <2>1, <2>2, <2>3, <2>4, <2>5, <2>6 DEF Map!Next
<1> QED
  BY <1>1, MapInductive, MapRefineInit, PTL DEF Map!Spec, Map!RestoresMap, Map!Abstract!Spec
=============================================================================
