--------------------------- MODULE ContextProofs ---------------------------
(***************************************************************************)
(* For any set of objects and values and any depth, the scope lists, the   *)
(* restore chains and the memory regions of Context stay consistent.       *)
(*                                                                         *)
(* ChainsExact is not inductive alone: that Pop hands every object of the  *)
(* top list its previous version, and removes exactly the top level from   *)
(* the object's version scopes, needs the copies to be strictly ordered    *)
(* below the object's own scope (VersionsOrdered).                         *)
(***************************************************************************)
EXTENDS Context, SequenceTheorems, TLAPS

IInv == TypeOK /\ ChainsExact /\ VersionsOrdered /\ CopiesLive

\* A function on 1..n is a sequence of length n.
LEMMA FunctionIsSeq ==
  ASSUME NEW S, NEW n \in Nat, NEW f \in [1..n -> S]
  PROVE  f \in Seq(S) /\ Len(f) = n
<1>1. f \in Seq(S)
  BY SeqDef
<1>2. Len(f) \in Nat /\ DOMAIN f = 1..Len(f)
  BY <1>1, LenProperties
<1> QED
  BY <1>1, <1>2

\* A new context has one scope with no object in it.
LEMMA InitIInv == Init => IInv
<1> SUFFICES ASSUME Init PROVE IInv
  OBVIOUS
<1>1. TypeOK
  BY ValAssumption DEF Init, TypeOK, NullScope
<1>2. ChainsExact
  BY DEF Init, ChainsExact
<1>3. VersionsOrdered /\ CopiesLive
  BY DEF Init, VersionsOrdered, CopiesLive
<1> QED
  BY <1>1, <1>2, <1>3 DEF IInv

\* push opens an empty scope.
LEMMA PushIInv == IInv /\ Push => IInv'
<1> SUFFICES ASSUME IInv, Push PROVE IInv'
  OBVIOUS
<1> USE DEF IInv, Push
<1>0. /\ scopeList' \in Seq(SUBSET Obj)
      /\ scopeList' # << >>
      /\ Len(scopeList') = Len(scopeList) + 1
      /\ \A i \in 1..Len(scopeList) : scopeList'[i] = scopeList[i]
      /\ scopeList'[Len(scopeList) + 1] = {}
      /\ Len(scopeList) \in Nat
  BY DEF TypeOK
<1>1. TypeOK'
  BY <1>0 DEF TypeOK
<1>2. VersionsOrdered' /\ CopiesLive'
  BY <1>0 DEF VersionsOrdered, CopiesLive, Level, TypeOK
<1>3. ASSUME NEW o \in Obj, o \in alive
      PROVE  Len(scopeList) \notin VersionScopes(o)
  BY <1>3, <1>0 DEF VersionsOrdered, VersionScopes, TypeOK, Copy, Level
<1>4. ChainsExact'
  BY <1>0, <1>3 DEF ChainsExact, VersionScopes
<1> QED
  BY <1>1, <1>2, <1>4

\* The chain of the top scope holds the live objects whose current version is
\* of that scope; each has a saved copy to restore.
LEMMA TopMembers ==
  ASSUME IInv, Level > 0, NEW o \in Obj
  PROVE  /\ o \in Last(scopeList) <=> o \in alive /\ scope[o] = Level
         /\ o \in Last(scopeList) => saved[o] # << >>
<1>1. Len(scopeList) \in Nat /\ Len(scopeList) > 1
  BY DEF IInv, TypeOK, Level
<1>2. o \in Last(scopeList) <=> o \in alive /\ Level \in VersionScopes(o)
  BY <1>1 DEF IInv, ChainsExact, Last, Level
<1>3. ASSUME o \in alive
      PROVE Level \in VersionScopes(o) <=> scope[o] = Level
  BY <1>1, <1>3 DEF IInv, VersionsOrdered, VersionScopes, TypeOK, Copy, Level
<1> QED
  BY <1>1, <1>2, <1>3 DEF IInv, VersionsOrdered

\* pop restores each object of the top chain and preserves the invariant.
LEMMA PopIInv == IInv /\ Pop => IInv'
<1> SUFFICES ASSUME IInv, Pop PROVE IInv'
  OBVIOUS
<1> USE DEF IInv
<1>0. /\ Len(scopeList) \in Nat /\ Len(scopeList) > 1 /\ Level > 0
      /\ scopeList' \in Seq(SUBSET Obj)
      /\ Len(scopeList') = Len(scopeList) - 1
      /\ \A i \in 1..(Len(scopeList) - 1) : scopeList'[i] = scopeList[i]
  BY DEF TypeOK, Pop, CanPop, Front, Level
<1>1. \A o \in Obj : /\ o \in Last(scopeList) <=> o \in alive /\ scope[o] = Level
                     /\ o \in Last(scopeList) => saved[o] # << >>
  BY <1>0, TopMembers
\* What ~Scope does to one object: a live object of the top scope steps back
\* to its last copy, every other one is left alone.
<1>2. ASSUME NEW o \in Obj, o \in alive, scope[o] = Level
      PROVE  LET n == Len(saved[o]) IN
             /\ n \in Nat \ {0}
             /\ scope'[o] = saved[o][n].scope
             /\ data'[o] = saved[o][n].data
             /\ saved'[o] \in Seq(Copy)
             /\ Len(saved'[o]) = n - 1
             /\ DOMAIN saved'[o] = 1..(n - 1)
             /\ \A k \in 1..(n - 1) : saved'[o][k] = saved[o][k]
  <2>1. saved[o] # << >> /\ saved[o] \in Seq(Copy) /\ o \in Last(scopeList)
    BY <1>1, <1>2 DEF TypeOK
  <2>2. saved'[o] = SubSeq(saved[o], 1, Len(saved[o]) - 1)
    BY <2>1 DEF Pop, RestoredSaved, Front
  <2>3. /\ scope'[o] = saved[o][Len(saved[o])].scope
        /\ data'[o] = saved[o][Len(saved[o])].data
    BY <2>1 DEF Pop, RestoredScope, RestoredData, Last
  <2> QED
    BY <2>1, <2>2, <2>3
<1>3. ASSUME NEW o \in Obj, o \notin alive \/ scope[o] # Level
      PROVE  scope'[o] = scope[o] /\ data'[o] = data[o] /\ saved'[o] = saved[o]
  BY <1>1, <1>3 DEF Pop
<1>4. alive' = alive
  BY DEF Pop
<1>5. TypeOK'
  <2>1. /\ scope' = [o \in Obj |-> scope'[o]]
        /\ data' = [o \in Obj |-> data'[o]]
        /\ saved' = [o \in Obj |-> saved'[o]]
    BY DEF Pop
  <2>2. ASSUME NEW o \in Obj
        PROVE  /\ scope'[o] \in Nat \cup {NullScope}
               /\ data'[o] \in Val
               /\ saved'[o] \in Seq(Copy)
    <3>1. CASE o \in alive /\ scope[o] = Level
      <4>1. saved[o][Len(saved[o])] \in Copy
        BY <1>2, <3>1 DEF TypeOK
      <4> QED
        BY <1>2, <3>1, <4>1 DEF Copy
    <3>2. CASE o \notin alive \/ scope[o] # Level
      BY <1>3, <3>2 DEF TypeOK
    <3> QED
      BY <3>1, <3>2
  <2>3. scopeList' # << >>
    BY <1>0
  <2> QED
    BY <1>0, <1>4, <2>1, <2>2, <2>3 DEF TypeOK
<1>6. Level' = Level - 1 /\ Level \in Nat
  BY <1>0 DEF Level
<1>7. VersionsOrdered'
  <2> SUFFICES ASSUME NEW o \in alive
               PROVE  /\ scope'[o] \in 0..(Level - 1)
                      /\ \A k \in DOMAIN saved'[o] : saved'[o][k].scope < scope'[o]
                      /\ \A j, k \in DOMAIN saved'[o] :
                            j < k => saved'[o][j].scope < saved'[o][k].scope
                      /\ (saved'[o] = << >> => scope'[o] = 0)
                      /\ (saved'[o] # << >> => saved'[o][1].scope = 0)
    BY <1>4, <1>6 DEF VersionsOrdered
  <2>0. o \in Obj /\ saved[o] \in Seq(Copy)
    BY DEF TypeOK
  <2>1. CASE scope[o] = Level
    <3> DEFINE n == Len(saved[o])
    <3>1. n \in Nat \ {0} /\ DOMAIN saved[o] = 1..n /\ saved[o] # << >>
      BY <1>2, <2>0, <2>1
    <3>2. saved[o][n] \in Copy /\ saved[o][n].scope < Level /\ saved[o][1].scope = 0
      BY <2>0, <2>1, <3>1 DEF VersionsOrdered
    <3>3. \A j, k \in 1..n : j < k => saved[o][j].scope < saved[o][k].scope
      BY <3>1 DEF VersionsOrdered
    <3>4. saved[o][n].scope \in 0..(Level - 1)
      BY <1>6, <3>2 DEF Copy
    <3>5. /\ scope'[o] = saved[o][n].scope
          /\ Len(saved'[o]) = n - 1
          /\ DOMAIN saved'[o] = 1..(n - 1)
          /\ \A k \in 1..(n - 1) : saved'[o][k] = saved[o][k]
      BY <1>2, <2>0, <2>1
    <3>6. saved'[o] = << >> => n = 1
      BY <3>1, <3>5
    <3>7. saved'[o] # << >> => 1 \in 1..(n - 1)
      BY <1>2, <2>0, <2>1, <3>1, <3>5
    <3> HIDE DEF n
    <3>8. \A k \in 1..(n - 1) : k \in 1..n /\ n \in 1..n /\ k < n
      BY <3>1
    <3>9. \A k \in DOMAIN saved'[o] : saved'[o][k].scope < scope'[o]
      BY <3>3, <3>5, <3>8
    <3>10. \A j, k \in DOMAIN saved'[o] :
             j < k => saved'[o][j].scope < saved'[o][k].scope
      BY <3>3, <3>5, <3>8
    <3>11. saved'[o] = << >> => scope'[o] = 0
      BY <3>2, <3>5, <3>6
    <3>12. saved'[o] # << >> => saved'[o][1].scope = 0
      BY <3>2, <3>5, <3>7
    <3> QED
      BY <3>4, <3>5, <3>9, <3>10, <3>11, <3>12
  <2>2. CASE scope[o] # Level
    BY <1>3, <1>6, <2>0, <2>2 DEF VersionsOrdered
  <2> QED
    BY <2>1, <2>2
<1>8. CopiesLive'
  <2> SUFFICES ASSUME NEW o \in alive, NEW k \in DOMAIN saved'[o]
               PROVE  saved'[o][k].region =
                        IF k = Len(saved'[o]) THEN scope'[o]
                                              ELSE saved'[o][k + 1].scope
    BY <1>4 DEF CopiesLive
  <2>0. o \in Obj /\ saved[o] \in Seq(Copy)
    BY DEF TypeOK
  <2>1. CASE scope[o] = Level
    <3> DEFINE n == Len(saved[o])
    <3>1. n \in Nat \ {0} /\ DOMAIN saved[o] = 1..n
      BY <1>2, <2>0, <2>1
    <3>2. /\ scope'[o] = saved[o][n].scope
          /\ Len(saved'[o]) = n - 1
          /\ k \in 1..(n - 1)
          /\ \A m \in 1..(n - 1) : saved'[o][m] = saved[o][m]
      BY <1>2, <2>0, <2>1
    <3>3. saved[o][k].region = saved[o][k + 1].scope
      BY <3>1, <3>2 DEF CopiesLive
    <3> HIDE DEF n
    <3>4. CASE k = n - 1
      BY <3>1, <3>2, <3>3, <3>4
    <3>5. CASE k # n - 1
      <4>1. k + 1 \in 1..(n - 1)
        BY <3>1, <3>2, <3>5
      <4> QED
        BY <3>2, <3>3, <3>5, <4>1
    <3> QED
      BY <3>4, <3>5
  <2>2. CASE scope[o] # Level
    BY <1>3, <2>0, <2>2 DEF CopiesLive
  <2> QED
    BY <2>1, <2>2
<1>9. ChainsExact'
  <2> SUFFICES ASSUME NEW o \in Obj, NEW i \in 1..(Len(scopeList) - 1)
               PROVE  o \in scopeList[i] <=>
                        o \in alive /\ i - 1 \in VersionScopes(o)'
    BY <1>0, <1>4 DEF ChainsExact
  <2>1. o \in scopeList[i] <=> o \in alive /\ i - 1 \in VersionScopes(o)
    BY <1>0 DEF ChainsExact
  <2>2. CASE o \in alive /\ scope[o] = Level
    <3>1. i - 1 # Level /\ saved[o] \in Seq(Copy)
      BY <1>0 DEF Level, TypeOK
    <3>2. i - 1 \in VersionScopes(o) <=>
            \E k \in 1..Len(saved[o]) : saved[o][k].scope = i - 1
      BY <2>2, <3>1 DEF VersionScopes
    <3>3. i - 1 \in VersionScopes(o)' <=>
            \/ saved[o][Len(saved[o])].scope = i - 1
            \/ \E k \in 1..(Len(saved[o]) - 1) : saved[o][k].scope = i - 1
      BY <1>2, <2>2, <3>1 DEF VersionScopes
    <3> QED
      BY <1>2, <2>1, <2>2, <3>2, <3>3
  <2>3. CASE o \notin alive \/ scope[o] # Level
    BY <1>3, <2>1, <2>3 DEF VersionScopes
  <2> QED
    BY <2>2, <2>3
<1> QED
  BY <1>5, <1>7, <1>8, <1>9

\* A constructor registers the object in its home scope and, created above it,
\* saves the default value there.
LEMMA CreateIInv ==
  ASSUME IInv, NEW o \in Obj, NEW v \in Val, Create(o, v)
  PROVE  IInv'
<1> USE DEF IInv
<1>0. /\ Len(scopeList) \in Nat /\ Len(scopeList) > 0 /\ Level \in Nat
      /\ o \notin alive /\ alive' = alive \cup {o}
      /\ data' = [data EXCEPT ![o] = v]
  BY DEF TypeOK, Create, Level
\* Only o changes, and only the bottom and the top list.
<1>1. /\ scopeList' \in Seq(SUBSET Obj)
      /\ Len(scopeList') = Len(scopeList)
      /\ \A i \in 1..Len(scopeList) :
            scopeList'[i] = IF i = 1 \/ i = Len(scopeList)
                              THEN scopeList[i] \cup {o} ELSE scopeList[i]
  <2>1. scopeList \in [1..Len(scopeList) -> SUBSET Obj]
    BY DEF TypeOK
  <2>2. /\ scopeList' \in [1..Len(scopeList) -> SUBSET Obj]
        /\ \A i \in 1..Len(scopeList) :
              scopeList'[i] = IF i = 1 \/ i = Len(scopeList)
                                THEN scopeList[i] \cup {o} ELSE scopeList[i]
    <3>1. CASE Level = 0
      <4>1. /\ scopeList' = [scopeList EXCEPT ![1] = @ \cup {o}]
            /\ Len(scopeList) = 1
        BY <1>0, <3>1 DEF Create, HomeScope, Level
      <4> QED
        BY <2>1, <4>1
    <3>2. CASE Level # 0
      <4>1. /\ scopeList' = [scopeList EXCEPT ![1] = @ \cup {o},
                                    ![Len(scopeList)] = @ \cup {o}]
            /\ Len(scopeList) # 1
        BY <1>0, <3>2 DEF Create, HomeScope, Level
      <4> QED
        BY <1>0, <2>1, <4>1
    <3> QED
      BY <3>1, <3>2
  <2> QED
    BY <1>0, <2>2, FunctionIsSeq
<1>2. scope' = [scope EXCEPT ![o] = Level]
  BY DEF Create, HomeScope
<1>3. \/ Level = 0 /\ saved' = [saved EXCEPT ![o] = << >>]
      \/ /\ Level > 0
         /\ saved' = [saved EXCEPT ![o] =
               << [scope |-> 0, data |-> Default, region |-> Level] >>]
  BY <1>0 DEF Create, HomeScope
<1>4. [scope |-> 0, data |-> Default, region |-> Level] \in Copy
  BY <1>0, ValAssumption DEF Copy
<1>5. TypeOK'
  <2>1. << >> \in Seq(Copy) /\
        << [scope |-> 0, data |-> Default, region |-> Level] >> \in Seq(Copy)
    BY <1>4
  <2>2. saved' \in [Obj -> Seq(Copy)]
    BY <1>3, <2>1 DEF TypeOK
  <2>3. scopeList' # << >>
    BY <1>0, <1>1
  <2> QED
    BY <1>0, <1>1, <1>2, <2>2, <2>3 DEF TypeOK
<1>6. \A p \in Obj : p # o => /\ scope'[p] = scope[p]
                              /\ saved'[p] = saved[p]
  BY <1>2, <1>3 DEF TypeOK
<1>7. Level' = Level
  BY <1>1 DEF Level
<1>8. scope'[o] = Level /\ o \in Obj
  BY <1>2 DEF TypeOK
<1>9. \/ Level = 0 /\ saved'[o] = << >>
      \/ /\ Level > 0
         /\ saved'[o] = << [scope |-> 0, data |-> Default, region |-> Level] >>
  BY <1>3 DEF TypeOK
<1>10. VersionsOrdered'
  <2> SUFFICES ASSUME NEW p \in alive'
               PROVE  /\ scope'[p] \in 0..Level
                      /\ \A k \in DOMAIN saved'[p] : saved'[p][k].scope < scope'[p]
                      /\ \A j, k \in DOMAIN saved'[p] :
                            j < k => saved'[p][j].scope < saved'[p][k].scope
                      /\ (saved'[p] = << >> => scope'[p] = 0)
                      /\ (saved'[p] # << >> => saved'[p][1].scope = 0)
    BY <1>7 DEF VersionsOrdered
  <2>1. CASE p = o
    BY <1>0, <1>8, <1>9, <2>1
  <2>2. CASE p # o
    BY <1>0, <1>6, <2>2 DEF VersionsOrdered, TypeOK
  <2> QED
    BY <2>1, <2>2
<1>11. CopiesLive'
  <2> SUFFICES ASSUME NEW p \in alive', NEW k \in DOMAIN saved'[p]
               PROVE  saved'[p][k].region =
                        IF k = Len(saved'[p]) THEN scope'[p]
                                              ELSE saved'[p][k + 1].scope
    BY DEF CopiesLive
  <2>1. CASE p = o
    <3>1. Level > 0 /\ k = 1 /\ Len(saved'[o]) = 1 /\ saved'[o][1].region = Level
      <4>1. CASE Level = 0 /\ saved'[o] = << >>
        BY <2>1, <4>1
      <4>2. CASE /\ Level > 0
                 /\ saved'[o] =
                      << [scope |-> 0, data |-> Default, region |-> Level] >>
        BY <2>1, <4>2
      <4> QED
        BY <1>9, <4>1, <4>2
    <3> QED
      BY <1>8, <2>1, <3>1
  <2>2. CASE p # o
    BY <1>0, <1>6, <2>2 DEF CopiesLive, TypeOK
  <2> QED
    BY <2>1, <2>2
<1>12. ChainsExact'
  <2> SUFFICES ASSUME NEW p \in Obj, NEW i \in 1..Len(scopeList)
               PROVE  p \in scopeList'[i] <=>
                        p \in alive' /\ i - 1 \in VersionScopes(p)'
    BY <1>1 DEF ChainsExact
  <2>0. p \in scopeList[i] <=> p \in alive /\ i - 1 \in VersionScopes(p)
    BY DEF ChainsExact
  <2>1. CASE p = o
    <3>1. VersionScopes(o)' = {0, Level}
      BY <1>8, <1>9 DEF VersionScopes
    <3>2. i - 1 \in {0, Level} <=> i = 1 \/ i = Len(scopeList)
      BY <1>0 DEF Level
    <3> QED
      BY <1>0, <1>1, <2>0, <2>1, <3>1, <3>2
  <2>2. CASE p # o
    <3>1. VersionScopes(p)' = VersionScopes(p)
      BY <1>6, <2>2 DEF VersionScopes
    <3> QED
      BY <1>0, <1>1, <2>0, <2>2, <3>1
  <2> QED
    BY <2>1, <2>2
<1> QED
  BY <1>5, <1>10, <1>11, <1>12

\* makeCurrent saves at most one copy per scope before the write.
LEMMA SetIInv ==
  ASSUME IInv, NEW o \in Obj, NEW v \in Val, Set(o, v)
  PROVE  IInv'
<1> USE DEF IInv
<1>0. /\ Len(scopeList) \in Nat /\ Len(scopeList) > 0 /\ Level \in Nat
      /\ o \in alive /\ alive' = alive
      /\ data' = [data EXCEPT ![o] = v]
  BY DEF TypeOK, Set, Level
<1>1. CASE IsCurrent(o)
  <2>1. UNCHANGED <<scopeList, scope, saved>>
    BY <1>1 DEF Set, MakeCurrent
  <2>2. TypeOK'
    BY <1>0, <2>1 DEF TypeOK
  <2>3. VersionsOrdered' /\ CopiesLive' /\ ChainsExact'
    BY <1>0, <2>1
       DEF VersionsOrdered, CopiesLive, ChainsExact, VersionScopes, Level
  <2> QED
    BY <2>2, <2>3
<1>2. CASE ~IsCurrent(o)
  <2> DEFINE c == [scope |-> scope[o], data |-> data[o], region |-> Level]
  <2> DEFINE n == Len(saved[o])
  <2>1. Update(o)
    BY <1>2 DEF Set, MakeCurrent
  <2>2. /\ scope[o] \in Nat /\ scope[o] < Level
        /\ saved[o] \in Seq(Copy) /\ n \in Nat /\ DOMAIN saved[o] = 1..n
    BY <1>0, <1>2 DEF IsCurrent, VersionsOrdered, TypeOK
  <2>3. c \in Copy
    BY <1>0, <2>2 DEF Copy, TypeOK
  <2>4. /\ scopeList' \in Seq(SUBSET Obj)
        /\ Len(scopeList') = Len(scopeList)
        /\ \A i \in 1..Len(scopeList) :
              scopeList'[i] = IF i = Len(scopeList)
                                THEN scopeList[i] \cup {o} ELSE scopeList[i]
    <3>1. /\ scopeList \in [1..Len(scopeList) -> SUBSET Obj]
          /\ scopeList' = [scopeList EXCEPT ![Len(scopeList)] = @ \cup {o}]
      BY <1>0, <2>1 DEF TypeOK, Update, Level
    <3>2. /\ scopeList' \in [1..Len(scopeList) -> SUBSET Obj]
          /\ \A i \in 1..Len(scopeList) :
                scopeList'[i] = IF i = Len(scopeList)
                                  THEN scopeList[i] \cup {o} ELSE scopeList[i]
      BY <1>0, <3>1
    <3> QED
      BY <1>0, <3>2, FunctionIsSeq
  <2>5. scope' = [scope EXCEPT ![o] = Level]
    BY <2>1 DEF Update
  <2>6. saved' = [saved EXCEPT ![o] = Append(saved[o], c)]
    BY <2>1 DEF Update, RegionOf
  <2>7. /\ Append(saved[o], c) \in Seq(Copy)
        /\ Len(Append(saved[o], c)) = n + 1
        /\ DOMAIN Append(saved[o], c) = 1..(n + 1)
        /\ \A k \in 1..n : Append(saved[o], c)[k] = saved[o][k]
        /\ Append(saved[o], c)[n + 1] = c
    BY <2>2, <2>3
  <2>8. TypeOK'
    BY <1>0, <2>4, <2>5, <2>6, <2>7 DEF TypeOK
  <2>9. \A p \in Obj : p # o => /\ scope'[p] = scope[p]
                                /\ saved'[p] = saved[p]
    BY <2>5, <2>6 DEF TypeOK
  <2>10. /\ scope'[o] = Level /\ Level' = Level
         /\ saved'[o] = Append(saved[o], c)
    BY <2>4, <2>5, <2>6 DEF TypeOK, Level
  <2>11. /\ \A k \in 1..n : saved[o][k] \in Copy
         /\ \A k \in 1..n : saved[o][k].scope < scope[o]
         /\ \A j, k \in 1..n : j < k => saved[o][j].scope < saved[o][k].scope
         /\ n = 0 => scope[o] = 0
         /\ n # 0 => saved[o][1].scope = 0
         /\ \A k \in 1..n : saved[o][k].region =
               IF k = n THEN scope[o] ELSE saved[o][k + 1].scope
    BY <1>0, <2>2 DEF VersionsOrdered, CopiesLive
  <2>12. /\ c.scope = scope[o] /\ c.region = Level
         /\ Append(saved[o], c) # << >>
    BY <2>2, <2>3, AppendProperties
  <2> HIDE DEF c, n
  <2>13. VersionsOrdered'
    <3> SUFFICES ASSUME NEW p \in alive
                 PROVE  /\ scope'[p] \in 0..Level
                        /\ \A k \in DOMAIN saved'[p] :
                              saved'[p][k].scope < scope'[p]
                        /\ \A j, k \in DOMAIN saved'[p] :
                              j < k => saved'[p][j].scope < saved'[p][k].scope
                        /\ (saved'[p] = << >> => scope'[p] = 0)
                        /\ (saved'[p] # << >> => saved'[p][1].scope = 0)
      BY <1>0, <2>10 DEF VersionsOrdered
    <3>1. CASE p = o
      <4>1. \A k \in 1..(n + 1) : saved'[o][k].scope < Level
        <5> TAKE k \in 1..(n + 1)
        <5>1. CASE k = n + 1
          BY <2>2, <2>7, <2>10, <2>12, <5>1
        <5>2. CASE k \in 1..n
          <6>1. saved'[o][k] = saved[o][k] /\ saved[o][k].scope \in Nat
            BY <2>7, <2>10, <2>11, <5>2 DEF Copy
          <6> QED
            BY <1>0, <2>2, <2>11, <5>2, <6>1
        <5> QED
          BY <2>2, <5>1, <5>2
      <4>2. \A j, k \in 1..(n + 1) :
              j < k => saved'[o][j].scope < saved'[o][k].scope
        BY <2>2, <2>7, <2>10, <2>11, <2>12
      <4>3. saved'[o][1].scope = 0
        BY <2>2, <2>7, <2>10, <2>11, <2>12
      <4> QED
        <5>1. DOMAIN saved'[o] = 1..(n + 1) /\ saved'[o] # << >>
          BY <2>7, <2>10, <2>12
        <5>2. scope'[o] \in 0..Level
          BY <1>0, <2>10
        <5> QED
          BY <2>10, <3>1, <4>1, <4>2, <4>3, <5>1, <5>2
    <3>2. CASE p # o
      BY <2>9, <3>2 DEF VersionsOrdered, TypeOK
    <3> QED
      BY <3>1, <3>2
  <2>14. CopiesLive'
    <3> SUFFICES ASSUME NEW p \in alive, NEW k \in DOMAIN saved'[p]
                 PROVE  saved'[p][k].region =
                          IF k = Len(saved'[p]) THEN scope'[p]
                                                ELSE saved'[p][k + 1].scope
      BY <1>0 DEF CopiesLive
    <3>1. CASE p = o
      <4>1. k \in 1..(n + 1) /\ Len(saved'[o]) = n + 1
        BY <2>7, <2>10, <3>1
      <4>2. CASE k = n + 1
        BY <2>7, <2>10, <2>12, <3>1, <4>1, <4>2
      <4>3. CASE k = n
        <5>1. k \in 1..n /\ k # n + 1 /\ saved'[o][k] = saved[o][k]
          BY <2>2, <2>7, <2>10, <4>1, <4>3
        <5>2. saved'[o][k].region = scope[o] /\ saved'[o][k + 1].scope = scope[o]
          BY <2>7, <2>10, <2>11, <2>12, <4>3, <5>1
        <5> QED
          BY <3>1, <4>1, <5>1, <5>2
      <4>4. CASE k \in 1..(n - 1)
        <5>1. k \in 1..n /\ k + 1 \in 1..n /\ k # n /\ k # n + 1
          BY <2>2, <4>4
        <5> QED
          BY <2>7, <2>10, <2>11, <3>1, <4>1, <5>1
      <4> QED
        BY <2>2, <4>1, <4>2, <4>3, <4>4
    <3>2. CASE p # o
      BY <2>9, <3>2 DEF CopiesLive, TypeOK
    <3> QED
      BY <3>1, <3>2
  <2>15. ChainsExact'
    <3> SUFFICES ASSUME NEW p \in Obj, NEW i \in 1..Len(scopeList)
                 PROVE  p \in scopeList'[i] <=>
                          p \in alive /\ i - 1 \in VersionScopes(p)'
      BY <1>0, <2>4 DEF ChainsExact
    <3>0. p \in scopeList[i] <=> p \in alive /\ i - 1 \in VersionScopes(p)
      BY DEF ChainsExact
    <3>1. CASE p = o
      <4>1. VersionScopes(o)' = VersionScopes(o) \cup {Level}
        BY <2>2, <2>7, <2>10, <2>12 DEF VersionScopes
      <4>2. i - 1 = Level <=> i = Len(scopeList)
        BY <1>0 DEF Level
      <4> QED
        BY <1>0, <2>4, <3>0, <3>1, <4>1, <4>2
    <3>2. CASE p # o
      <4>1. VersionScopes(p)' = VersionScopes(p)
        BY <2>9, <3>2 DEF VersionScopes
      <4> QED
        BY <2>4, <3>0, <3>2, <4>1
    <3> QED
      BY <3>1, <3>2
  <2> QED
    BY <2>8, <2>13, <2>14, <2>15
<1> QED
  BY <1>1, <1>2

\* A destructor unlinks every version of the object.
LEMMA DestroyIInv ==
  ASSUME IInv, NEW o \in Obj, Destroy(o)
  PROVE  IInv'
<1> USE DEF IInv
<1>0. /\ Len(scopeList) \in Nat /\ Len(scopeList) > 0
      /\ o \in alive /\ alive' = alive \ {o}
  BY DEF TypeOK, Destroy
<1>1. /\ scopeList' \in Seq(SUBSET Obj)
      /\ Len(scopeList') = Len(scopeList)
      /\ \A i \in 1..Len(scopeList) :
            scopeList'[i] = IF i - 1 \in VersionScopes(o)
                              THEN scopeList[i] \ {o} ELSE scopeList[i]
  <2>1. scopeList \in [1..Len(scopeList) -> SUBSET Obj]
    BY DEF TypeOK
  <2>2. scopeList' = [i \in 1..Len(scopeList) |->
                        IF i - 1 \in VersionScopes(o)
                          THEN scopeList[i] \ {o} ELSE scopeList[i]]
    BY <2>1 DEF Destroy
  <2>3. scopeList' \in [1..Len(scopeList) -> SUBSET Obj]
    BY <2>1, <2>2
  <2> QED
    BY <1>0, <2>2, <2>3, FunctionIsSeq
<1>2. TypeOK'
  BY <1>0, <1>1, ValAssumption DEF TypeOK, Destroy
<1>3. \A p \in Obj : p # o => /\ scope'[p] = scope[p]
                              /\ saved'[p] = saved[p]
  BY DEF TypeOK, Destroy
<1>4. VersionsOrdered' /\ CopiesLive'
  BY <1>0, <1>1, <1>3 DEF VersionsOrdered, CopiesLive, TypeOK, Level
<1>5. ChainsExact'
  <2> SUFFICES ASSUME NEW p \in Obj, NEW i \in 1..Len(scopeList)
               PROVE  p \in scopeList'[i] <=>
                        p \in alive' /\ i - 1 \in VersionScopes(p)'
    BY <1>1 DEF ChainsExact
  <2>0. p \in scopeList[i] <=> p \in alive /\ i - 1 \in VersionScopes(p)
    BY DEF ChainsExact
  <2>1. CASE p = o
    BY <1>0, <1>1, <2>0, <2>1
  <2>2. CASE p # o
    BY <1>0, <1>1, <1>3, <2>0, <2>2 DEF VersionScopes
  <2> QED
    BY <2>1, <2>2
<1> QED
  BY <1>2, <1>4, <1>5

\* IInv holds in every reachable state.
LEMMA Inductive == Spec => []IInv
<1>1. IInv /\ [Next]_vars => IInv'
  <2> SUFFICES ASSUME IInv, [Next]_vars PROVE IInv'
    OBVIOUS
  <2>1. CASE Push
    BY <2>1, PushIInv
  <2>2. CASE Pop
    BY <2>2, PopIInv
  <2>3. CASE \E o \in Obj : Destroy(o)
    BY <2>3, DestroyIInv
  <2>4. CASE \E o \in Obj, v \in Val : Create(o, v)
    BY <2>4, CreateIInv
  <2>5. CASE \E o \in Obj, v \in Val : Set(o, v)
    BY <2>5, SetIInv
  <2>6. CASE UNCHANGED vars
    BY <2>6 DEF IInv, TypeOK, ChainsExact, VersionsOrdered, CopiesLive,
                VersionScopes, Level, vars
  <2> QED
    BY <2>1, <2>2, <2>3, <2>4, <2>5, <2>6 DEF Next
<1> QED
  BY <1>1, InitIInv, PTL DEF Spec

\* Objects keep values of their type and chains of well-formed copies.
THEOREM ContextTypeCorrect == Spec => []TypeOK
<1>1. IInv => TypeOK
  BY DEF IInv
<1> QED
  BY <1>1, Inductive, PTL

(***************************************************************************)
(* The scope lists link exactly the versions that exist, so a pop restores *)
(* all objects that the popped scope changed and no other, in any history  *)
(* of Context and CDO calls.                                               *)
(***************************************************************************)
THEOREM ContextSafe == Spec => []ChainsExact
<1>1. IInv => ChainsExact
  BY DEF IInv
<1> QED
  BY <1>1, Inductive, PTL

\* A live object stays attached to an open scope, its copies to strictly older
\* ones down to the bottom: destroy() never meets a null d_pScope.
THEOREM ContextVersionsOrdered == Spec => []VersionsOrdered
<1>1. IInv => VersionsOrdered
  BY DEF IInv
<1> QED
  BY <1>1, Inductive, PTL

\* Every copy that an object can be restored from is still allocated: its
\* region is popped together with the version that replaced it, never before.
THEOREM ContextCopiesLive == Spec => []CopiesLive
<1>1. IInv => CopiesLive
  BY DEF IInv
<1> QED
  BY <1>1, Inductive, PTL

-----------------------------------------------------------------------------
(***************************************************************************)
(* The refinement.  A version whose scope is above l does not change what  *)
(* level l will show, so neither update() nor ~Scope does.                 *)
(***************************************************************************)
Version == [scope : Int, data : Val]

\* A version of a scope above l is not seen at level l.
LEMMA NewerVersionHidden ==
  ASSUME NEW vs \in Seq(Version), NEW w \in Version, NEW l \in Int, l < w.scope
  PROVE  NewestUpTo(Append(vs, w), l) = NewestUpTo(vs, l)
<1> DEFINE n == Len(vs)
           ws == Append(vs, w)
<1>1. /\ n \in Nat /\ DOMAIN vs = 1..n /\ DOMAIN ws = 1..(n + 1)
      /\ \A k \in 1..n : ws[k] = vs[k]
      /\ ws[n + 1] = w
  OBVIOUS
<1>2. w.scope \in Int
  BY DEF Version
<1> HIDE DEF n, ws
<1>3. ASSUME NEW d \in Val
      PROVE  d \in NewestUpTo(ws, l) <=> d \in NewestUpTo(vs, l)
  <2>1. ASSUME NEW k \in 1..(n + 1), ws[k].scope <= l
        PROVE  k \in 1..n
    BY <1>1, <1>2, <2>1
  <2>2. ASSUME NEW k \in 1..n
        PROVE  /\ ws[k] = vs[k]
               /\ (k + 1 \in DOMAIN ws => l < ws[k + 1].scope) <=>
                 (k + 1 \in DOMAIN vs => l < vs[k + 1].scope)
    <3>1. CASE k = n
      BY <1>1, <3>1
    <3>2. CASE k # n
      <4>1. k + 1 \in 1..n /\ k + 1 \in 1..(n + 1)
        BY <1>1, <3>2
      <4> QED
        BY <1>1, <4>1
    <3> QED
      BY <3>1, <3>2
  <2> QED
    BY <1>1, <2>1, <2>2 DEF NewestUpTo
<1>4. NewestUpTo(ws, l) \subseteq Val /\ NewestUpTo(vs, l) \subseteq Val
  BY DEF NewestUpTo
<1> QED
  BY <1>3, <1>4 DEF ws

\* The versions of an object are a sequence, the newest last.
LEMMA VersionsType ==
  ASSUME NEW sv \in Seq(Copy), NEW sc \in Int, NEW d \in Val
  PROVE  /\ CopiesOf(sv) \in Seq(Version)
         /\ Len(CopiesOf(sv)) = Len(sv)
         /\ [scope |-> sc, data |-> d] \in Version
         /\ VersionsOf(sv, sc, d) \in Seq(Version)
         /\ Len(VersionsOf(sv, sc, d)) = Len(sv) + 1
         /\ \A k \in 1..Len(sv) : VersionsOf(sv, sc, d)[k] = CopiesOf(sv)[k]
         /\ VersionsOf(sv, sc, d)[Len(sv) + 1] = [scope |-> sc, data |-> d]
<1>1. CopiesOf(sv) \in [1..Len(sv) -> Version]
  <2> SUFFICES ASSUME NEW k \in 1..Len(sv)
               PROVE  [scope |-> sv[k].scope, data |-> sv[k].data] \in Version
    BY DEF CopiesOf
  <2>1. sv[k] \in Copy
    OBVIOUS
  <2> QED
    BY <2>1 DEF Copy, Version
<1>2. [scope |-> sc, data |-> d] \in Version
  BY DEF Version
<1>3. CopiesOf(sv) \in Seq(Version) /\ Len(CopiesOf(sv)) = Len(sv)
  BY <1>1, FunctionIsSeq
<1> QED
  BY <1>2, <1>3, AppendProperties DEF VersionsOf

\* The newest version hides its copies from its own scope upwards ...
LEMMA TopShown ==
  ASSUME NEW sv \in Seq(Copy), NEW sc \in Nat, NEW d \in Val, NEW l \in Nat,
         \A k \in DOMAIN sv : sv[k].scope < sc,
         sc <= l
  PROVE  ShownBy(VersionsOf(sv, sc, d), l) = d
<1> DEFINE n == Len(sv)
           vs == VersionsOf(sv, sc, d)
<1>0. n \in Nat /\ DOMAIN sv = 1..n
  OBVIOUS
<1>1. /\ vs \in Seq(Version) /\ Len(vs) = n + 1
      /\ \A k \in 1..n : vs[k] = CopiesOf(sv)[k]
      /\ vs[n + 1] = [scope |-> sc, data |-> d]
  BY VersionsType
<1>2. ASSUME NEW k \in 1..n PROVE vs[k].scope = sv[k].scope
  <2>1. CopiesOf(sv)[k] = [scope |-> sv[k].scope, data |-> sv[k].data]
    BY DEF CopiesOf
  <2> HIDE DEF vs
  <2> QED
    BY <1>1, <2>1
<1> HIDE DEF n, vs
<1>3. DOMAIN vs = 1..(n + 1) /\ vs[n + 1].scope = sc /\ vs[n + 1].data = d
  BY <1>0, <1>1
<1>4. ASSUME NEW k \in 1..(n + 1) PROVE vs[k].scope <= l /\ vs[k].scope \in Int
  <2>1. CASE k = n + 1
    BY <1>3, <2>1
  <2>2. CASE k \in 1..n
    <3>1. sv[k] \in Copy
      BY <1>0, <2>2
    <3> QED
      BY <1>0, <1>2, <2>2, <3>1 DEF Copy
  <2> QED
    BY <1>0, <2>1, <2>2
<1>5. d \in NewestUpTo(vs, l)
  <2>1. n + 1 \in DOMAIN vs /\ n + 1 + 1 \notin DOMAIN vs
    BY <1>0, <1>3
  <2> QED
    BY <1>3, <2>1 DEF NewestUpTo
<1>6. ASSUME NEW e \in NewestUpTo(vs, l)
      PROVE  e = d
  <2>1. PICK k \in DOMAIN vs : /\ e = vs[k].data
                               /\ k + 1 \in DOMAIN vs => l < vs[k + 1].scope
    BY DEF NewestUpTo
  <2>2. k = n + 1
    <3> SUFFICES ASSUME k # n + 1 PROVE FALSE
      OBVIOUS
    <3>1. k + 1 \in 1..(n + 1)
      BY <1>0, <1>3, <2>1
    <3> QED
      BY <1>3, <1>4, <2>1, <3>1
  <2> QED
    BY <1>3, <2>1, <2>2
<1> QED
  BY <1>5, <1>6 DEF ShownBy, vs

\* ... and is invisible below it.
LEMMA BelowShown ==
  ASSUME NEW sv \in Seq(Copy), NEW sc \in Int, NEW d \in Val, NEW l \in Int,
         l < sc
  PROVE  ShownBy(VersionsOf(sv, sc, d), l) = ShownBy(CopiesOf(sv), l)
<1> DEFINE w == [scope |-> sc, data |-> d]
<1>1. CopiesOf(sv) \in Seq(Version) /\ w \in Version
  BY VersionsType
<1>2. w.scope = sc
  OBVIOUS
<1> HIDE DEF w
<1>3. NewestUpTo(Append(CopiesOf(sv), w), l) = NewestUpTo(CopiesOf(sv), l)
  BY <1>1, <1>2, NewerVersionHidden
<1> QED
  BY <1>3 DEF ShownBy, VersionsOf, w

\* Saving a copy makes the current version the newest copy.
LEMMA CopiesAppend ==
  ASSUME NEW sv \in Seq(Copy), NEW c \in Copy
  PROVE  CopiesOf(Append(sv, c)) = VersionsOf(sv, c.scope, c.data)
<1> DEFINE n == Len(sv)
           xs == CopiesOf(Append(sv, c))
           ys == VersionsOf(sv, c.scope, c.data)
<1>1. /\ n \in Nat /\ Append(sv, c) \in Seq(Copy)
      /\ Len(Append(sv, c)) = n + 1
      /\ \A k \in 1..n : Append(sv, c)[k] = sv[k]
      /\ Append(sv, c)[n + 1] = c
      /\ c.scope \in Int /\ c.data \in Val
  BY DEF Copy
<1>2. /\ xs \in Seq(Version) /\ Len(xs) = n + 1
      /\ ys \in Seq(Version) /\ Len(ys) = n + 1
      /\ \A k \in 1..n : ys[k] = CopiesOf(sv)[k]
      /\ ys[n + 1] = [scope |-> c.scope, data |-> c.data]
  BY <1>1, VersionsType
<1>3. ASSUME NEW k \in 1..(n + 1) PROVE xs[k] = ys[k]
  <2>1. xs[k] = [scope |-> Append(sv, c)[k].scope, data |-> Append(sv, c)[k].data]
    BY <1>1 DEF CopiesOf
  <2>2. CASE k = n + 1
    BY <1>1, <1>2, <2>1, <2>2
  <2>3. CASE k \in 1..n
    <3>1. CopiesOf(sv)[k] = [scope |-> sv[k].scope, data |-> sv[k].data]
      BY <2>3 DEF CopiesOf
    <3> QED
      BY <1>1, <1>2, <2>1, <2>3, <3>1
  <2> QED
    BY <1>1, <2>2, <2>3
<1> HIDE DEF n, xs, ys
<1>4. xs = ys
  BY <1>2, <1>3, SeqEqual
<1> QED
  BY <1>4 DEF xs, ys

\* A write changes no value of a lower level.
LEMMA SetShown ==
  ASSUME IInv, NEW o \in Obj, NEW v \in Val, Set(o, v),
         NEW p \in Obj, NEW l \in Int, l < Level
  PROVE  Shown(p, l)' = Shown(p, l)
<1>1. CASE p # o
  <2>1. scope'[p] = scope[p] /\ data'[p] = data[p] /\ saved'[p] = saved[p]
    BY <1>1 DEF IInv, TypeOK, Set, MakeCurrent, Update
  <2> QED
    BY <2>1 DEF Shown
<1>2. CASE p = o
  <2>0. /\ Level \in Nat /\ scope[o] \in Nat /\ data[o] \in Val
        /\ saved[o] \in Seq(Copy) /\ data'[o] = v
    BY DEF IInv, TypeOK, VersionsOrdered, Level, Set
  <2>1. CASE IsCurrent(o)
    <3>1. saved'[o] = saved[o] /\ scope[o] = Level /\ scope'[o] = Level
      BY <2>1 DEF Set, MakeCurrent, IsCurrent
    <3>2. /\ ShownBy(VersionsOf(saved[o], Level, data[o]), l) =
               ShownBy(CopiesOf(saved[o]), l)
          /\ ShownBy(VersionsOf(saved[o], Level, v), l) =
               ShownBy(CopiesOf(saved[o]), l)
      BY <2>0, BelowShown
    <3> QED
      BY <1>2, <2>0, <3>1, <3>2 DEF Shown
  <2>2. CASE ~IsCurrent(o)
    <3> DEFINE c == [scope |-> scope[o], data |-> data[o], region |-> Level]
    <3>1. scope'[o] = Level /\ saved'[o] = Append(saved[o], c)
      BY <2>2 DEF IInv, TypeOK, Set, MakeCurrent, Update, RegionOf
    <3>2. c \in Copy /\ c.scope = scope[o] /\ c.data = data[o]
      BY <2>0 DEF Copy
    <3> HIDE DEF c
    <3>3. Append(saved[o], c) \in Seq(Copy)
      BY <2>0, <3>2
    <3>4. ShownBy(VersionsOf(Append(saved[o], c), Level, v), l) =
            ShownBy(CopiesOf(Append(saved[o], c)), l)
      <4>1. Level \in Int
        BY <2>0
      <4>2. \A sv \in Seq(Copy) :
              ShownBy(VersionsOf(sv, Level, v), l) = ShownBy(CopiesOf(sv), l)
        BY <4>1, BelowShown
      <4> QED
        BY <3>3, <4>2
    <3>5. CopiesOf(Append(saved[o], c)) =
            VersionsOf(saved[o], scope[o], data[o])
      BY <2>0, <3>2, CopiesAppend
    <3> QED
      BY <1>2, <2>0, <3>1, <3>4, <3>5 DEF Shown
  <2> QED
    BY <2>1, <2>2
<1> QED
  BY <1>1, <1>2

\* pop shows each object as it was one level down.
LEMMA PopShown ==
  ASSUME IInv, Pop, NEW o \in alive
  PROVE  /\ \A l \in Int : l < Level => Shown(o, l)' = Shown(o, l)
         /\ data'[o] = Shown(o, Level - 1)
<1>0. /\ Level \in Nat /\ Level > 0 /\ o \in Obj
      /\ scope[o] \in Nat /\ scope[o] <= Level /\ data[o] \in Val
      /\ saved[o] \in Seq(Copy)
  BY DEF IInv, TypeOK, VersionsOrdered, Level, Pop, CanPop
<1>1. CASE scope[o] = Level
  <2> DEFINE n == Len(saved[o])
             c == saved[o][n]
  <2>1. o \in Last(scopeList) /\ saved[o] # << >>
    BY <1>0, <1>1, TopMembers
  <2>2. /\ scope'[o] = c.scope /\ data'[o] = c.data
        /\ saved'[o] = SubSeq(saved[o], 1, n - 1)
    BY <1>0, <2>1
       DEF Pop, RestoredScope, RestoredData, RestoredSaved, Last, Front
  <2>3. /\ saved'[o] \in Seq(Copy) /\ Len(saved'[o]) = n - 1
        /\ n \in Nat \ {0} /\ c \in Copy
        /\ \A k \in 1..(n - 1) : saved'[o][k] = saved[o][k]
    BY <1>0, <2>1, <2>2
  <2>4. c.scope \in Nat /\ c.scope < Level /\ c.data \in Val
    BY <1>0, <1>1, <2>3 DEF IInv, VersionsOrdered, Copy
  <2>5. \A k \in DOMAIN saved'[o] : saved'[o][k].scope < c.scope
    <3>1. DOMAIN saved'[o] = 1..(n - 1) /\ DOMAIN saved[o] = 1..n
      BY <1>0, <2>3
    <3>2. \A j, k \in 1..n : j < k => saved[o][j].scope < saved[o][k].scope
      BY <3>1 DEF IInv, VersionsOrdered
    <3>3. \A k \in 1..(n - 1) : k \in 1..n /\ n \in 1..n /\ k < n
      BY <2>3
    <3> HIDE DEF n
    <3> QED
      BY <2>3, <3>1, <3>2, <3>3
  <2>6. saved[o] = Append(saved'[o], c)
    <3>1. /\ Append(saved'[o], c) \in Seq(Copy)
          /\ Len(Append(saved'[o], c)) = n
          /\ \A k \in 1..(n - 1) : Append(saved'[o], c)[k] = saved[o][k]
          /\ Append(saved'[o], c)[n] = c
      BY <2>3
    <3>2. \A k \in 1..n : Append(saved'[o], c)[k] = saved[o][k]
      BY <2>3, <3>1
    <3> QED
      BY <1>0, <2>3, <3>1, <3>2, SeqEqual
  <2> HIDE DEF c, n
  <2>7. CopiesOf(saved[o]) = VersionsOf(saved'[o], c.scope, c.data)
    BY <2>3, <2>6, CopiesAppend
  <2>8. ASSUME NEW l \in Int, l < Level PROVE Shown(o, l)' = Shown(o, l)
    <3>1. ShownBy(VersionsOf(saved[o], scope[o], data[o]), l) =
            ShownBy(CopiesOf(saved[o]), l)
      BY <1>0, <1>1, <2>8, BelowShown
    <3> QED
      BY <2>2, <2>7, <3>1 DEF Shown
  <2>9. ShownBy(VersionsOf(saved'[o], c.scope, c.data), Level - 1) = c.data
    <3>1. Level - 1 \in Nat /\ c.scope <= Level - 1
      BY <1>0, <2>4
    <3> QED
      BY <2>3, <2>4, <2>5, <3>1, TopShown
  <2>10. Shown(o, Level - 1) = c.data
    BY <1>0, <1>1, <2>7, <2>9, BelowShown DEF Shown
  <2> QED
    BY <2>2, <2>8, <2>10
<1>2. CASE scope[o] # Level
  <2>1. scope'[o] = scope[o] /\ data'[o] = data[o] /\ saved'[o] = saved[o]
    BY <1>0, <1>2, TopMembers DEF Pop
  <2>2. \A k \in DOMAIN saved[o] : saved[o][k].scope < scope[o]
    BY DEF IInv, VersionsOrdered
  <2>3. Level - 1 \in Nat /\ scope[o] <= Level - 1
    BY <1>0, <1>2
  <2>4. Shown(o, Level - 1) = data[o]
    BY <1>0, <2>2, <2>3, TopShown DEF Shown
  <2> QED
    BY <2>1, <2>4 DEF Shown
<1> QED
  BY <1>1, <1>2

\* The abstract stack has one entry per level.
LEMMA AbsStackIsSeq ==
  ASSUME IInv
  PROVE  /\ Len(absStack) = Level /\ Level \in Nat
         /\ DOMAIN absStack = 1..Level
         /\ \A S : absStack \in [1..Level -> S] => absStack \in Seq(S)
<1>1. Level \in Nat
  BY DEF IInv, TypeOK, Level
<1>2. absStack \in [1..Level -> {absStack[i] : i \in 1..Level}]
  BY DEF absStack
<1>3. Len(absStack) = Level /\ DOMAIN absStack = 1..Level
  BY <1>1, <1>2, FunctionIsSeq
<1> QED
  BY <1>1, <1>3, FunctionIsSeq

\* The initial state maps to an initial state.
LEMMA RefineInit == Init => CS!Init
<1> SUFFICES ASSUME Init PROVE CS!Init
  OBVIOUS
<1>1. Level = 0
  BY DEF Init, Level
<1>2. absStack = << >>
  BY <1>1 DEF absStack
<1>3. absCur = [o \in Obj |-> Absent]
  BY DEF Init, absCur
<1> QED
  BY <1>2, <1>3 DEF CS!Init

\* push implements the abstract push: every value is saved.
LEMMA RefinePush == IInv /\ Push => CS!Push
<1> SUFFICES ASSUME IInv, Push PROVE CS!Push
  OBVIOUS
<1>0. Level \in Nat /\ Level' = Level + 1
  BY DEF IInv, TypeOK, Level, Push
<1>1. absCur' = absCur
  BY DEF Push, absCur
<1>2. /\ DOMAIN absStack' = 1..(Level + 1)
      /\ \A i \in 1..Level : absStack'[i] = absStack[i]
  BY <1>0 DEF absStack, Push, Shown
<1>3. absStack'[Level + 1] = absCur
  <2>0. Level + 1 \in 1..Level' /\ (Level + 1) - 1 = Level
    BY <1>0
  <2>1. absStack'[Level + 1] = [o \in Obj |-> IF o \in alive
          THEN ShownBy(VersionsOf(saved[o], scope[o], data[o]), Level)
          ELSE Absent]
    BY <2>0 DEF absStack, Push, Shown
  <2>2. ASSUME NEW o \in alive
        PROVE  ShownBy(VersionsOf(saved[o], scope[o], data[o]), Level) = data[o]
    <3>1. /\ saved[o] \in Seq(Copy) /\ scope[o] \in Nat /\ data[o] \in Val
          /\ scope[o] <= Level
          /\ \A k \in DOMAIN saved[o] : saved[o][k].scope < scope[o]
      BY DEF IInv, TypeOK, VersionsOrdered
    <3> QED
      BY <1>0, <3>1, TopShown
  <2> QED
    BY <2>1, <2>2 DEF absCur
<1>4. absStack' = Append(absStack, absCur)
  <2> DEFINE S == {absStack'[i] : i \in 1..(Level + 1)}
  <2>1. absStack' \in [1..(Level + 1) -> S]
    BY <1>0, <1>2 DEF absStack
  <2>2. absStack \in [1..Level -> S] /\ absCur \in S
    <3>1. \A i \in 1..Level : i \in 1..(Level + 1)
      BY <1>0
    <3>2. Level + 1 \in 1..(Level + 1)
      BY <1>0
    <3> QED
      BY <1>2, <1>3, <3>1, <3>2 DEF absStack
  <2> HIDE DEF S
  <2>3. /\ absStack' \in Seq(S) /\ Len(absStack') = Level + 1
        /\ absStack \in Seq(S) /\ Len(absStack) = Level
    BY <1>0, <2>1, <2>2, FunctionIsSeq
  <2>4. /\ Append(absStack, absCur) \in Seq(S)
        /\ Len(Append(absStack, absCur)) = Level + 1
        /\ \A i \in 1..Level : Append(absStack, absCur)[i] = absStack[i]
        /\ Append(absStack, absCur)[Level + 1] = absCur
    BY <2>2, <2>3, AppendProperties
  <2>5. \A i \in 1..(Level + 1) : absStack'[i] = Append(absStack, absCur)[i]
    BY <1>0, <1>2, <1>3, <2>4
  <2> QED
    BY <2>3, <2>4, <2>5, SeqEqual
<1> QED
  BY <1>1, <1>4 DEF CS!Push

\* pop implements the abstract pop: every value is restored.
LEMMA RefinePop == IInv /\ Pop => CS!Pop
<1> SUFFICES ASSUME IInv, Pop PROVE CS!Pop
  OBVIOUS
<1>0. Level \in Nat /\ Level > 0 /\ Level' = Level - 1 /\ alive' = alive
  BY DEF IInv, TypeOK, Level, Pop, CanPop, Front
<1>1. Len(absStack) = Level /\ DOMAIN absStack = 1..Level
  BY AbsStackIsSeq
<1>2. absCur' = absStack[Level]
  <2>1. absStack[Level] =
          [o \in Obj |-> IF o \in alive THEN Shown(o, Level - 1) ELSE Absent]
    BY <1>0 DEF absStack
  <2> QED
    BY <1>0, <2>1, PopShown DEF absCur
<1>3. /\ DOMAIN absStack' = 1..(Level - 1)
      /\ \A i \in 1..(Level - 1) : absStack'[i] = absStack[i]
  <2>1. absStack' = [i \in 1..(Level - 1) |->
          [o \in Obj |-> IF o \in alive THEN Shown(o, i - 1)' ELSE Absent]]
    BY <1>0 DEF absStack
  <2>2. ASSUME NEW i \in 1..(Level - 1)
        PROVE  absStack'[i] = absStack[i]
    <3>1. i - 1 \in Int /\ i - 1 < Level /\ i \in 1..Level
      BY <1>0
    <3>2. \A o \in alive : Shown(o, i - 1)' = Shown(o, i - 1)
      BY <3>1, PopShown
    <3>3. absStack'[i] =
            [o \in Obj |-> IF o \in alive THEN Shown(o, i - 1)' ELSE Absent]
      BY <2>1
    <3>4. absStack[i] =
            [o \in Obj |-> IF o \in alive THEN Shown(o, i - 1) ELSE Absent]
      BY <3>1 DEF absStack
    <3> QED
      BY <3>2, <3>3, <3>4, Zenon
  <2> QED
    BY <2>1, <2>2
<1>4. absStack' = SubSeq(absStack, 1, Level - 1)
  <2> DEFINE S == {absStack[i] : i \in 1..Level}
  <2>0. \A i \in 1..(Level - 1) : i \in 1..Level
    BY <1>0
  <2>1. absStack \in [1..Level -> S]
    BY <1>1 DEF absStack
  <2>2. absStack' \in [1..(Level - 1) -> S]
    BY <1>3, <2>0 DEF absStack
  <2> HIDE DEF S
  <2>3. /\ absStack \in Seq(S)
        /\ absStack' \in Seq(S) /\ Len(absStack') = Level - 1
    BY <1>0, <2>1, <2>2, FunctionIsSeq
  <2>4. /\ SubSeq(absStack, 1, Level - 1) \in Seq(S)
        /\ Len(SubSeq(absStack, 1, Level - 1)) = Level - 1
        /\ \A i \in 1..(Level - 1) :
              SubSeq(absStack, 1, Level - 1)[i] = absStack[i]
    BY <1>0, <1>1, <2>3
  <2> QED
    BY <1>3, <2>3, <2>4, SeqEqual
<1>5. absStack # << >>
  BY <1>0, <1>1
<1> QED
  BY <1>1, <1>2, <1>4, <1>5 DEF CS!Pop

\* A new object shows its initial value now and the default at the levels
\* below the current one.
LEMMA RefineCreate ==
  ASSUME IInv, NEW o \in Obj, NEW v \in Val, Create(o, v)
  PROVE  CS!Create(o, v)
<1>0. /\ Level \in Nat /\ Level' = Level
      /\ o \notin alive /\ alive' = alive \cup {o}
      /\ Len(absStack) = Level
  <2>1. Len(scopeList') = Len(scopeList)
    BY DEF IInv, TypeOK, Create
  <2> QED
    BY <2>1, AbsStackIsSeq DEF Create, Level
<1>1. absCur[o] = Absent
  BY <1>0 DEF absCur
<1>2. absCur' = [absCur EXCEPT ![o] = v]
  <2>1. data' = [data EXCEPT ![o] = v] /\ data \in [Obj -> Val]
    BY DEF IInv, TypeOK, Create
  <2> QED
    BY <1>0, <2>1 DEF absCur
<1>3. ASSUME NEW p \in Obj, p # o, NEW l \in Int
      PROVE  Shown(p, l)' = Shown(p, l)
  <2>1. scope'[p] = scope[p] /\ data'[p] = data[p] /\ saved'[p] = saved[p]
    BY <1>3 DEF IInv, TypeOK, Create
  <2> QED
    BY <2>1 DEF Shown
<1>4. ASSUME NEW l \in Nat, l < Level
      PROVE  Shown(o, l)' = Default
  <2> DEFINE c == [scope |-> 0, data |-> Default, region |-> Level]
  <2>1. /\ scope'[o] = Level /\ data'[o] = v
        /\ saved'[o] = << c >>
    BY <1>0, <1>4 DEF IInv, TypeOK, Create, HomeScope
  <2>2. c \in Copy /\ c.scope = 0 /\ c.data = Default
    BY <1>0, ValAssumption DEF Copy
  <2> HIDE DEF c
  <2>3. << c >> \in Seq(Copy) /\ << >> \in Seq(Copy) /\ << c >> = Append(<< >>, c)
    BY <2>2
  <2>4. ShownBy(VersionsOf(<< c >>, Level, v), l) = ShownBy(CopiesOf(<< c >>), l)
    <3>1. Level \in Int /\ l \in Int
      BY <1>0
    <3> QED
      BY <1>4, <2>3, <3>1, BelowShown
  <2>5. CopiesOf(<< c >>) = VersionsOf(<< >>, 0, Default)
    BY <2>2, <2>3, CopiesAppend
  <2>6. ShownBy(VersionsOf(<< >>, 0, Default), l) = Default
    <3>1. \A sv \in Seq(Copy) : sv = << >> =>
            ShownBy(VersionsOf(sv, 0, Default), l) = Default
      <4> SUFFICES ASSUME NEW sv \in Seq(Copy), sv = << >>
                   PROVE  ShownBy(VersionsOf(sv, 0, Default), l) = Default
        OBVIOUS
      <4>1. \A k \in DOMAIN sv : sv[k].scope < 0
        OBVIOUS
      <4>2. 0 \in Nat /\ 0 <= l
        OBVIOUS
      <4> QED
        BY <4>1, <4>2, ValAssumption, TopShown
    <3> QED
      BY <2>3, <3>1
  <2> QED
    BY <2>1, <2>4, <2>5, <2>6 DEF Shown
<1>5. absStack' = [i \in 1..Len(absStack) |-> [absStack[i] EXCEPT ![o] = Default]]
  <2>1. ASSUME NEW i \in 1..Level
        PROVE  [p \in Obj |-> IF p \in alive' THEN Shown(p, i - 1)' ELSE Absent]
                 = [absStack[i] EXCEPT ![o] = Default]
    <3>1. absStack[i] =
            [p \in Obj |-> IF p \in alive THEN Shown(p, i - 1) ELSE Absent]
      BY DEF absStack
    <3>2. i - 1 \in Nat /\ i - 1 < Level
      BY <1>0
    <3>3. Shown(o, i - 1)' = Default
      BY <1>4, <3>2
    <3>4. \A p \in Obj : p # o => Shown(p, i - 1)' = Shown(p, i - 1)
      BY <1>3, <3>2
    <3> QED
      BY <1>0, <3>1, <3>3, <3>4, Zenon
  <2>2. absStack' = [i \in 1..Level |->
          [p \in Obj |-> IF p \in alive' THEN Shown(p, i - 1)' ELSE Absent]]
    BY <1>0 DEF absStack
  <2> QED
    BY <1>0, <2>1, <2>2
<1> QED
  BY <1>1, <1>2, <1>5 DEF CS!Create

\* A write changes the current value only.
LEMMA RefineSet ==
  ASSUME IInv, NEW o \in Obj, NEW v \in Val, Set(o, v)
  PROVE  CS!Set(o, v)
<1>0. /\ Level \in Nat /\ Level' = Level
      /\ o \in alive /\ alive' = alive
      /\ data' = [data EXCEPT ![o] = v] /\ data \in [Obj -> Val]
  <2>1. Len(scopeList') = Len(scopeList) /\ Level \in Nat
    BY DEF IInv, TypeOK, Set, MakeCurrent, Update, Level
  <2> QED
    BY <2>1 DEF IInv, TypeOK, Set, Level
<1>1. absCur[o] # Absent
  BY <1>0, ValAssumption DEF absCur
<1>2. absCur' = [absCur EXCEPT ![o] = v]
  BY <1>0 DEF absCur
<1>3. absStack' = absStack
  <2>1. ASSUME NEW i \in 1..Level
        PROVE  [p \in Obj |-> IF p \in alive THEN Shown(p, i - 1)' ELSE Absent]
             = [p \in Obj |-> IF p \in alive THEN Shown(p, i - 1) ELSE Absent]
    <3>1. i - 1 \in Int /\ i - 1 < Level
      BY <1>0
    <3>2. \A p \in Obj : Shown(p, i - 1)' = Shown(p, i - 1)
      BY <3>1, SetShown
    <3> QED
      BY <3>2, Zenon
  <2>2. absStack' = [i \in 1..Level |->
          [p \in Obj |-> IF p \in alive THEN Shown(p, i - 1)' ELSE Absent]]
    BY <1>0 DEF absStack
  <2> QED
    BY <2>1, <2>2 DEF absStack
<1> QED
  BY <1>1, <1>2, <1>3 DEF CS!Set

\* A destroyed object leaves the current and every saved state.
LEMMA RefineDestroy ==
  ASSUME IInv, NEW o \in Obj, Destroy(o)
  PROVE  CS!Destroy(o)
<1>0. /\ Level \in Nat /\ Level' = Level
      /\ o \in alive /\ alive' = alive \ {o}
      /\ data' = [data EXCEPT ![o] = Default] /\ data \in [Obj -> Val]
      /\ Len(absStack) = Level
  <2>1. scopeList \in [1..Len(scopeList) -> SUBSET Obj] /\ Len(scopeList) \in Nat
    BY DEF IInv, TypeOK
  <2>2. scopeList' \in [1..Len(scopeList) -> SUBSET Obj]
    BY <2>1 DEF Destroy
  <2>3. Len(scopeList') = Len(scopeList)
    BY <2>1, <2>2, FunctionIsSeq
  <2> QED
    BY <2>3, AbsStackIsSeq DEF IInv, TypeOK, Destroy, Level
<1>1. absCur[o] # Absent
  BY <1>0, ValAssumption DEF absCur
<1>2. absCur' = [absCur EXCEPT ![o] = Absent]
  BY <1>0 DEF absCur
<1>3. absStack' = [i \in 1..Len(absStack) |-> [absStack[i] EXCEPT ![o] = Absent]]
  <2>1. ASSUME NEW i \in 1..Level
        PROVE  [p \in Obj |-> IF p \in alive' THEN Shown(p, i - 1)' ELSE Absent]
                 = [absStack[i] EXCEPT ![o] = Absent]
    <3>1. absStack[i] =
            [p \in Obj |-> IF p \in alive THEN Shown(p, i - 1) ELSE Absent]
      BY DEF absStack
    <3>2. ASSUME NEW p \in Obj, p # o
          PROVE  Shown(p, i - 1)' = Shown(p, i - 1)
      <4>1. /\ scope'[p] = scope[p] /\ data'[p] = data[p]
            /\ saved'[p] = saved[p]
        BY <3>2 DEF IInv, TypeOK, Destroy
      <4> QED
        BY <4>1 DEF Shown
    <3> QED
      BY <1>0, <3>1, <3>2, Zenon
  <2>2. absStack' = [i \in 1..Level |->
          [p \in Obj |-> IF p \in alive' THEN Shown(p, i - 1)' ELSE Absent]]
    BY <1>0 DEF absStack
  <2> QED
    BY <1>0, <2>1, <2>2
<1> QED
  BY <1>1, <1>2, <1>3 DEF CS!Destroy

(***************************************************************************)
(* Lazy copying restores everything: for every set of objects and values   *)
(* and every interleaving of push, pop, construction, assignment and       *)
(* destruction, the context of src/context behaves like one that           *)
(* snapshots all objects at each push and puts them back at the pop.       *)
(***************************************************************************)
THEOREM ContextRefines == Spec => RestoresEverything
<1>1. IInv /\ [Next]_vars => [CS!Next]_(CS!absVars)
  <2> SUFFICES ASSUME IInv, [Next]_vars PROVE [CS!Next]_(CS!absVars)
    OBVIOUS
  <2>1. CASE Push
    BY <2>1, RefinePush DEF CS!Next
  <2>2. CASE Pop
    BY <2>2, RefinePop DEF CS!Next
  <2>3. CASE \E o \in Obj : Destroy(o)
    BY <2>3, RefineDestroy DEF CS!Next
  <2>4. CASE \E o \in Obj, v \in Val : Create(o, v)
    BY <2>4, RefineCreate DEF CS!Next
  <2>5. CASE \E o \in Obj, v \in Val : Set(o, v)
    BY <2>5, RefineSet DEF CS!Next
  <2>6. CASE UNCHANGED vars
    BY <2>6 DEF vars, CS!absVars, absCur, absStack, Shown, Level
  <2> QED
    BY <2>1, <2>2, <2>3, <2>4, <2>5, <2>6 DEF Next
<1> QED
  BY <1>1, Inductive, RefineInit, PTL DEF Spec, RestoresEverything, CS!Spec
=============================================================================
