-------------------------- MODULE SymManagerProofs --------------------------
(***************************************************************************)
(* Proofs about module SymManager: for any symbols, names and levels, and  *)
(* after any number of resets and switches of global declarations, the     *)
(* front end and the engine refuse the same pops, and their levels match   *)
(* unless the last (reset-assertions) has spared something, which the      *)
(* first one never does if the option is not switched off.                 *)
(*                                                                         *)
(* The front end runs ahead of the engine by the command that is parsed    *)
(* and not executed, so the invariant compares its stacks with Ahead, what *)
(* the levels of the engine will own when that command is done.  With      *)
(* global declarations that is one level, and push and pop leave it alone. *)
(***************************************************************************)
EXTENDS SymManager, SequenceLemmas

Scope == [names : SUBSET Names, decls : SUBSET Symbols]
Bindable == Symbols \cup Names \cup {Builtin}
Ops == {"none", "set-logic", "set-option", "declare", "assert", "push", "pop", "reset",
        "reset-assertions"}
Tables == Seq(SUBSET Bindable)
Scopes == Seq(Scope)
Commands == [op : Ops, n : 0..2, arg : Bindable]

CommandOK(c) ==
    /\ c \in Commands
    /\ c.op \in {"push", "pop"} => c.n \in 1..2
    /\ c.op = "declare" => c.arg \in Symbols
    /\ c.op = "assert" => c.arg \in Names

Typed ==
    /\ table \in Tables /\ context \in Scopes
    /\ scopes \in Scopes /\ stack \in Seq(SUBSET Names)
    /\ logicSet \in BOOLEAN /\ logicKnown \in BOOLEAN /\ global \in BOOLEAN
    /\ inited \in BOOLEAN /\ spared \in BOOLEAN /\ forgot \in BOOLEAN
    /\ failed \in {"none", "parser", "engine"}
    /\ CommandOK(command)

\* The command at hand has not failed and will not.
Going ==
    /\ failed = "none"
    /\ ~(command.op = "pop" /\ command.n >= Len(scopes))
    /\ ~(command.op = "set-option" /\ inited)

\* Levels with n more, with n fewer, with one more name or declaration.
Opened(s, e, n) == s \o [i \in 1..n |-> e]
Closed(s, n) == SubSeq(s, 1, Len(s) - n)
NamedAt(C, k, t) == [C EXCEPT ![k].names = @ \cup {t}]
DeclaredAt(C, k, s) == [C EXCEPT ![k].decls = @ \cup {s}]

\* What the levels of the engine own when the command at hand is done.
AheadOf(c, S, g) ==
    IF c.op = "assert" THEN NamedAt(S, Len(S), c.arg)
    ELSE IF c.op = "push" /\ ~g THEN Opened(S, Empty, c.n)
    ELSE IF c.op = "pop" /\ ~g THEN Closed(S, c.n)
    ELSE S
Ahead == AheadOf(command, Shown, global)

\* The symbol table and the symbol manager have the engine's levels and more.
Deep(T, C, S) == Len(S) <= Len(T) /\ Len(S) < Len(C)

\* A level of the symbol manager has what the engine's has, or less of it.
Kin(c, d, exact) ==
    c.names \subseteq d.names /\ c.decls \subseteq d.decls /\ (exact => c = d)

\* They are levels with nothing, or the symbols of the logic only, and then
\* the engine's; kept says that the symbol manager has forgotten nothing.
Fits(T, C, S, kept) ==
    /\ Deep(T, C, S)
    /\ \A i \in 1..(Len(T) - Len(S)) : T[i] \subseteq {Builtin}
    /\ \A i \in 1..Len(S) :
         T[(Len(T) - Len(S)) + i] \ {Builtin} = S[i].names \cup S[i].decls
    /\ \A i \in 1..(Len(C) - Len(S)) : C[i] = Empty
    /\ \A i \in 1..Len(S) : Kin(C[(Len(C) - Len(S)) + i], S[i], kept \/ i # 1)

Levels ==
    /\ Len(scopes) >= 1 /\ Len(stack) = Len(scopes)
    /\ Going => /\ Len(table) >= 1 /\ Len(context) >= 2 /\ context[1] = Empty
                /\ Deep(table, context, Ahead)

\* The engine has the assertions that its levels own.
Owned ==
    Going => \A i \in 1..Len(scopes) :
        IF global THEN stack[i] \subseteq scopes[1].names ELSE stack[i] = scopes[i].names

\* Nothing is pushed or declared before the logic is set.
Quiet ==
    failed = "none" /\ ~logicSet /\ command.op # "reset" =>
        /\ command.op \in {"none", "set-option", "reset-assertions"}
        /\ Len(scopes) = 1 /\ scopes[1] = Empty

\* Nothing is pushed or asserted before the engine is initialised, so that its
\* levels are the same with global declarations and without.
Fresh == ~inited => Len(scopes) = 1 /\ scopes[1].names = {} /\ stack[1] = {}

LInv == Typed /\ Levels /\ Owned /\ Quiet /\ Fresh /\ RefusedTogether
Matches == Going /\ ~spared => Fits(table, context, Ahead, ~forgot)
IInv == LInv /\ Matches

\* Until the first reset is executed the logic has a level of its own below
\* those of the engine, unless global declarations are switched off.
OneMore(T, C, S) == Len(S) < Len(T) /\ Len(S) + 1 < Len(C)
FirstReset == resets = 0 \/ (resets = 1 /\ command.op = "reset-assertions")
Outermost ==
    /\ resets \in Nat /\ (command.op \in {"reset", "reset-assertions"} => resets >= 1)
    /\ Going /\ FirstReset =>
         /\ logicKnown => logicSet
         /\ ~global /\ logicSet => OneMore(table, context, Ahead)

-----------------------------------------------------------------------------
(***************************************************************************)
(* Sequences of levels.                                                    *)
(***************************************************************************)
Extended(R, s, e, n) ==
    /\ Len(R) = Len(s) + n
    /\ \A i \in 1..Len(s) : R[i] = s[i]
    /\ \A i \in 1..n : R[Len(s) + i] = e

Shortened(R, s, n) ==
    /\ Len(R) = Len(s) - n
    /\ \A i \in 1..(Len(s) - n) : R[i] = s[i]

SameBelow(R, s) ==
    /\ Len(R) = Len(s)
    /\ \A i \in 1..(Len(s) - 1) : R[i] = s[i]

BoundTo(T, s) == Append(Front(T), Last(T) \cup {s})

\* A symbol is bound in the last level.
LEMMA BoundToIs ==
  ASSUME NEW T \in Tables, Len(T) >= 1, NEW s \in Bindable, NEW R, R = BoundTo(T, s)
  PROVE  R \in Tables /\ SameBelow(R, T) /\ R[Len(T)] = T[Len(T)] \cup {s}
<1>1. T # << >> /\ Last(T) = T[Len(T)] /\ T[Len(T)] \cup {s} \in SUBSET Bindable
  BY DEF Last, Tables
<1> QED
  BY <1>1, ReplaceLast DEF BoundTo, Tables, SameBelow

\* A scope and its parts.
LEMMA ScopeParts ==
  /\ Empty \in Scope /\ Empty.names = {} /\ Empty.decls = {}
  /\ \A s \in Scope : s.names \subseteq Names /\ s.decls \subseteq Symbols
  /\ \A s \in Scope : s.names = {} /\ s.decls = {} => s = Empty
BY DEF Scope, Empty

\* A scope is made of its parts.
LEMMA ScopeSame ==
  ASSUME NEW c \in Scope, NEW d \in Scope, c.names = d.names, c.decls = d.decls
  PROVE  c = d
BY DEF Scope

\* Levels are opened in a table.
LEMMA OpenedTable ==
  ASSUME NEW T \in Tables, NEW n \in Nat, NEW R, R = Opened(T, {}, n)
  PROVE  R \in Tables /\ Extended(R, T, {}, n)
<1>1. PICK u : u = [i \in 1..n |-> {}]
  OBVIOUS
<1>2. u \in [1..n -> SUBSET Bindable] /\ \A i \in 1..n : u[i] = {}
  BY <1>1
<1>3. T \in Seq(SUBSET Bindable) /\ u \in Seq(SUBSET Bindable) /\ Len(u) = n
  BY <1>2, FunctionIsSeq DEF Tables
<1>4. R = T \o u
  BY <1>1 DEF Opened
<1>5. /\ T \o u \in Seq(SUBSET Bindable) /\ Len(T \o u) = Len(T) + Len(u)
      /\ \A i \in 1..Len(T) : (T \o u)[i] = T[i]
      /\ \A i \in 1..Len(u) : (T \o u)[Len(T) + i] = u[i]
  BY <1>3
<1> QED
  BY <1>2, <1>3, <1>4, <1>5 DEF Tables, Extended

\* Levels are opened in a context.
LEMMA OpenedScopes ==
  ASSUME NEW C \in Scopes, NEW n \in Nat, NEW R, R = Opened(C, Empty, n)
  PROVE  R \in Scopes /\ Extended(R, C, Empty, n)
<1>1. PICK u : u = [i \in 1..n |-> Empty]
  OBVIOUS
<1>2. u \in [1..n -> Scope] /\ \A i \in 1..n : u[i] = Empty
  BY <1>1, ScopeParts
<1>3. C \in Seq(Scope) /\ u \in Seq(Scope) /\ Len(u) = n
  BY <1>2, FunctionIsSeq DEF Scopes
<1>4. R = C \o u
  BY <1>1 DEF Opened
<1>5. /\ C \o u \in Seq(Scope) /\ Len(C \o u) = Len(C) + Len(u)
      /\ \A i \in 1..Len(C) : (C \o u)[i] = C[i]
      /\ \A i \in 1..Len(u) : (C \o u)[Len(C) + i] = u[i]
  BY <1>3
<1> QED
  BY <1>2, <1>3, <1>4, <1>5 DEF Scopes, Extended

\* Levels are closed in a table.
LEMMA ClosedTable ==
  ASSUME NEW T \in Tables, NEW n \in Nat, n <= Len(T), NEW R, R = Closed(T, n)
  PROVE  R \in Tables /\ Shortened(R, T, n)
<1>1. T \in Seq(SUBSET Bindable) /\ Len(T) - n \in 0..Len(T)
  BY DEF Tables
<1> QED
  BY <1>1, Prefix DEF Closed, Shortened, Tables

\* Levels are closed in a context.
LEMMA ClosedScopes ==
  ASSUME NEW C \in Scopes, NEW n \in Nat, n <= Len(C), NEW R, R = Closed(C, n)
  PROVE  R \in Scopes /\ Shortened(R, C, n)
<1>1. C \in Seq(Scope) /\ Len(C) - n \in 0..Len(C)
  BY DEF Scopes
<1> QED
  BY <1>1, Prefix DEF Closed, Shortened, Scopes

\* Equal levels are kin, and a level that is kin to one with nothing is one.
LEMMA KinIs ==
  /\ \A c, exact : Kin(c, c, exact)
  /\ \A c \in Scope : \A exact : Kin(c, Empty, exact) => c = Empty
<1>1. ASSUME NEW c \in Scope, NEW exact, Kin(c, Empty, exact) PROVE c = Empty
  BY <1>1, ScopeParts DEF Kin
<1> QED
  BY <1>1 DEF Kin

\* Levels that are opened on both sides fit.
LEMMA FitsGrown ==
  ASSUME NEW T \in Tables, NEW C \in Scopes, NEW S \in Scopes, NEW n \in Nat, NEW kept,
         NEW T2 \in Tables, Extended(T2, T, {}, n),
         NEW C2 \in Scopes, Extended(C2, C, Empty, n),
         NEW S2 \in Scopes, Extended(S2, S, Empty, n),
         Fits(T, C, S, kept)
  PROVE  Fits(T2, C2, S2, kept)
<1> USE DEF Extended
<1>1. /\ Len(T) \in Nat /\ Len(C) \in Nat /\ Len(S) \in Nat
      /\ Len(S) <= Len(T) /\ Len(S) < Len(C)
      /\ Len(T2) - Len(S2) = Len(T) - Len(S) /\ Len(C2) - Len(S2) = Len(C) - Len(S)
  BY DEF Fits, Deep, Tables, Scopes
<1>2. Deep(T2, C2, S2)
  BY <1>1 DEF Deep
<1>3. ASSUME NEW i \in 1..(Len(T2) - Len(S2)) PROVE T2[i] \subseteq {Builtin}
  <2>1. i \in 1..(Len(T) - Len(S)) /\ i \in 1..Len(T)
    BY <1>1
  <2> QED
    BY <2>1 DEF Fits
<1>4. ASSUME NEW i \in 1..(Len(C2) - Len(S2)) PROVE C2[i] = Empty
  <2>1. i \in 1..(Len(C) - Len(S)) /\ i \in 1..Len(C)
    BY <1>1
  <2> QED
    BY <2>1 DEF Fits
<1>5. ASSUME NEW i \in 1..Len(S2)
      PROVE  /\ T2[(Len(T2) - Len(S2)) + i] \ {Builtin} = S2[i].names \cup S2[i].decls
             /\ Kin(C2[(Len(C2) - Len(S2)) + i], S2[i], kept \/ i # 1)
  <2>1. CASE i \in 1..Len(S)
    <3>1. (Len(T) - Len(S)) + i \in 1..Len(T) /\ (Len(C) - Len(S)) + i \in 1..Len(C)
      BY <1>1, <2>1
    <3> QED
      <4>1. /\ T[(Len(T) - Len(S)) + i] \ {Builtin} = S[i].names \cup S[i].decls
            /\ Kin(C[(Len(C) - Len(S)) + i], S[i], kept \/ i # 1) /\ S2[i] = S[i]
        BY <2>1 DEF Fits
      <4>2. T2[(Len(T) - Len(S)) + i] = T[(Len(T) - Len(S)) + i]
        BY <3>1
      <4>3. C2[(Len(C) - Len(S)) + i] = C[(Len(C) - Len(S)) + i]
        BY <3>1
      <4> QED
        BY <1>1, <4>1, <4>2, <4>3
  <2>2. CASE i \notin 1..Len(S)
    <3>1. PICK j \in 1..n : i = Len(S) + j
      <4>1. i - Len(S) \in 1..n /\ i = Len(S) + (i - Len(S))
        BY <1>1, <2>2
      <4> QED
        BY <4>1
    <3>2. (Len(T) - Len(S)) + i = Len(T) + j /\ (Len(C) - Len(S)) + i = Len(C) + j
      BY <1>1, <3>1
    <3>3. T2[Len(T) + j] = {} /\ C2[Len(C) + j] = Empty /\ S2[i] = Empty
      BY <3>1
    <3> QED
      BY <1>1, <3>2, <3>3, ScopeParts, KinIs
  <2> QED
    BY <2>1, <2>2
<1> QED
  BY <1>2, <1>3, <1>4, <1>5 DEF Fits

\* Levels that are closed on both sides fit.
LEMMA FitsCut ==
  ASSUME NEW T \in Tables, NEW C \in Scopes, NEW S \in Scopes, NEW n \in Nat, NEW kept,
         n < Len(S),
         NEW T2 \in Tables, Shortened(T2, T, n),
         NEW C2 \in Scopes, Shortened(C2, C, n),
         NEW S2 \in Scopes, Shortened(S2, S, n),
         Fits(T, C, S, kept)
  PROVE  Fits(T2, C2, S2, kept)
<1> USE DEF Shortened
<1>1. /\ Len(T) \in Nat /\ Len(C) \in Nat /\ Len(S) \in Nat
      /\ Len(S) <= Len(T) /\ Len(S) < Len(C)
      /\ Len(T2) - Len(S2) = Len(T) - Len(S) /\ Len(C2) - Len(S2) = Len(C) - Len(S)
  BY DEF Fits, Deep, Tables, Scopes
<1>2. Deep(T2, C2, S2)
  BY <1>1 DEF Deep
<1>3. ASSUME NEW i \in 1..(Len(T2) - Len(S2)) PROVE T2[i] \subseteq {Builtin}
  <2>1. i \in 1..(Len(T) - Len(S)) /\ i \in 1..(Len(T) - n)
    BY <1>1
  <2> QED
    BY <2>1 DEF Fits
<1>4. ASSUME NEW i \in 1..(Len(C2) - Len(S2)) PROVE C2[i] = Empty
  <2>1. i \in 1..(Len(C) - Len(S)) /\ i \in 1..(Len(C) - n)
    BY <1>1
  <2> QED
    BY <2>1 DEF Fits
<1>5. ASSUME NEW i \in 1..Len(S2)
      PROVE  /\ T2[(Len(T2) - Len(S2)) + i] \ {Builtin} = S2[i].names \cup S2[i].decls
             /\ Kin(C2[(Len(C2) - Len(S2)) + i], S2[i], kept \/ i # 1)
  <2>1. /\ i \in 1..Len(S) /\ i \in 1..(Len(S) - n)
        /\ (Len(T) - Len(S)) + i \in 1..(Len(T) - n) /\ (Len(C) - Len(S)) + i \in 1..(Len(C) - n)
    BY <1>1
  <2> QED
    BY <1>1, <2>1 DEF Fits
<1> QED
  BY <1>2, <1>3, <1>4, <1>5 DEF Fits

\* The last levels change on both sides alike.
LEMMA FitsLast ==
  ASSUME NEW T \in Tables, NEW C \in Scopes, NEW S \in Scopes, Len(S) >= 1, NEW kept,
         NEW T2 \in Tables, SameBelow(T2, T), NEW C2 \in Scopes, SameBelow(C2, C),
         NEW S2 \in Scopes, SameBelow(S2, S),
         T2[Len(T)] \ {Builtin} = S2[Len(S)].names \cup S2[Len(S)].decls,
         Kin(C2[Len(C)], S2[Len(S)], kept \/ Len(S) # 1),
         Fits(T, C, S, kept)
  PROVE  Fits(T2, C2, S2, kept)
<1> USE DEF SameBelow
<1>1. /\ Len(T) \in Nat /\ Len(C) \in Nat /\ Len(S) \in Nat
      /\ Len(S) <= Len(T) /\ Len(S) < Len(C)
  BY DEF Fits, Deep, Tables, Scopes
<1>2. Deep(T2, C2, S2)
  BY <1>1 DEF Deep
<1>3. ASSUME NEW i \in 1..(Len(T) - Len(S)) PROVE T2[i] \subseteq {Builtin}
  <2>1. i \in 1..(Len(T) - 1)
    BY <1>1
  <2> QED
    BY <2>1 DEF Fits
<1>4. ASSUME NEW i \in 1..(Len(C) - Len(S)) PROVE C2[i] = Empty
  <2>1. i \in 1..(Len(C) - 1)
    BY <1>1
  <2> QED
    BY <2>1 DEF Fits
<1>5. ASSUME NEW i \in 1..Len(S)
      PROVE  /\ T2[(Len(T) - Len(S)) + i] \ {Builtin} = S2[i].names \cup S2[i].decls
             /\ Kin(C2[(Len(C) - Len(S)) + i], S2[i], kept \/ i # 1)
  <2>1. CASE i = Len(S)
    <3>1. (Len(T) - Len(S)) + i = Len(T) /\ (Len(C) - Len(S)) + i = Len(C)
      BY <1>1, <2>1
    <3> QED
      BY <2>1, <3>1
  <2>2. CASE i # Len(S)
    <3>1. /\ i \in 1..(Len(S) - 1) /\ (Len(T) - Len(S)) + i \in 1..(Len(T) - 1)
          /\ (Len(C) - Len(S)) + i \in 1..(Len(C) - 1)
      BY <1>1, <2>2
    <3>2. /\ T[(Len(T) - Len(S)) + i] \ {Builtin} = S[i].names \cup S[i].decls
          /\ Kin(C[(Len(C) - Len(S)) + i], S[i], kept \/ i # 1)
      BY DEF Fits
    <3>3. T2[(Len(T) - Len(S)) + i] = T[(Len(T) - Len(S)) + i] /\ S2[i] = S[i]
      BY <3>1
    <3>4. C2[(Len(C) - Len(S)) + i] = C[(Len(C) - Len(S)) + i]
      BY <3>1
    <3> QED
      BY <3>2, <3>3, <3>4
  <2> QED
    BY <2>1, <2>2
<1> QED
  BY <1>2, <1>3, <1>4, <1>5 DEF Fits

\* Levels with nothing but the symbols of the logic.
Bare(T, C) ==
    /\ Len(T) >= 1 /\ Len(C) >= 2
    /\ \A i \in 1..Len(T) : T[i] \subseteq {Builtin}
    /\ \A i \in 1..Len(C) : C[i] = Empty

\* They fit an engine that has one level and nothing in it.
LEMMA FitsBare ==
  ASSUME NEW T \in Tables, NEW C \in Scopes, NEW S \in Scopes, Len(S) = 1, S[1] = Empty, NEW kept
  PROVE  Fits(T, C, S, kept) <=> Bare(T, C)
<1>1. Len(T) \in Nat /\ Len(C) \in Nat
  BY DEF Tables, Scopes
<1>2. ASSUME Fits(T, C, S, kept) PROVE Bare(T, C)
  <2>1. Len(T) >= 1 /\ Len(C) >= 2
    BY <1>1, <1>2 DEF Fits, Deep
  <2>2. ASSUME NEW i \in 1..Len(T) PROVE T[i] \subseteq {Builtin}
    <3>1. CASE i = Len(T)
      <4>1. (Len(T) - 1) + 1 = Len(T) /\ 1 \in 1..Len(S)
        BY <1>1
      <4>2. T[Len(T)] \ {Builtin} = {}
        BY <1>2, <4>1, ScopeParts DEF Fits
      <4> QED
        BY <3>1, <4>2
    <3>2. CASE i # Len(T)
      <4>1. i \in 1..(Len(T) - Len(S))
        BY <1>1, <3>2
      <4> QED
        BY <1>2, <4>1 DEF Fits
    <3> QED
      BY <3>1, <3>2
  <2>3. ASSUME NEW i \in 1..Len(C) PROVE C[i] = Empty
    <3>1. CASE i = Len(C)
      <4>1. (Len(C) - 1) + 1 = Len(C) /\ 1 \in 1..Len(S)
        BY <1>1
      <4>2. C[Len(C)] \in Scope
        BY <1>1, <2>1 DEF Scopes
      <4>3. Kin(C[Len(C)], Empty, kept \/ 1 # 1)
        BY <1>2, <4>1 DEF Fits
      <4> QED
        BY <3>1, <4>2, <4>3, KinIs
    <3>2. CASE i # Len(C)
      <4>1. i \in 1..(Len(C) - Len(S))
        BY <1>1, <3>2
      <4> QED
        BY <1>2, <4>1 DEF Fits
    <3> QED
      BY <3>1, <3>2
  <2> QED
    BY <2>1, <2>2, <2>3 DEF Bare
<1>3. ASSUME Bare(T, C) PROVE Fits(T, C, S, kept)
  <2>1. Deep(T, C, S)
    BY <1>1, <1>3 DEF Bare, Deep
  <2>2. ASSUME NEW i \in 1..(Len(T) - Len(S)) PROVE T[i] \subseteq {Builtin}
    BY <1>1, <1>3 DEF Bare
  <2>3. ASSUME NEW i \in 1..(Len(C) - Len(S)) PROVE C[i] = Empty
    BY <1>1, <1>3 DEF Bare
  <2>4. ASSUME NEW i \in 1..Len(S)
        PROVE  /\ T[(Len(T) - Len(S)) + i] \ {Builtin} = S[i].names \cup S[i].decls
               /\ Kin(C[(Len(C) - Len(S)) + i], S[i], kept \/ i # 1)
    <3>1. i = 1 /\ (Len(T) - 1) + 1 = Len(T) /\ (Len(C) - 1) + 1 = Len(C)
      BY <1>1
    <3>2. T[Len(T)] \subseteq {Builtin} /\ C[Len(C)] = Empty
      BY <1>1, <1>3 DEF Bare
    <3>3. S[1].names \cup S[1].decls = {} /\ T[Len(T)] \ {Builtin} = {}
      BY <3>2, ScopeParts
    <3> QED
      BY <3>1, <3>2, <3>3, KinIs
  <2> QED
    BY <2>1, <2>2, <2>3, <2>4 DEF Fits
<1> QED
  BY <1>2, <1>3

\* What is bound at some level.
Syms(T) == UNION ToSet(T)

\* A symbol is bound if a level has it.
LEMMA SymsIs ==
  ASSUME NEW T \in Tables
  PROVE  \A x : x \in Syms(T) <=> \E i \in 1..Len(T) : x \in T[i]
<1>1. ToSet(T) = {T[i] : i \in 1..Len(T)}
  BY SeqSet DEF Tables
<1> QED
  BY <1>1 DEF Syms

\* Levels with the symbols of the logic only.
LEMMA SymsBare ==
  ASSUME NEW T \in Tables
  PROVE  Syms(T) \subseteq {Builtin} <=> \A i \in 1..Len(T) : T[i] \subseteq {Builtin}
BY SymsIs

\* A symbol that is bound.
LEMMA SymsBound ==
  ASSUME NEW T \in Tables, Len(T) >= 1, NEW s \in Bindable, NEW R, R = BoundTo(T, s)
  PROVE  R \in Tables /\ Len(R) = Len(T) /\ Syms(R) = Syms(T) \cup {s}
<1>1. /\ R \in Tables /\ Len(R) = Len(T) /\ R[Len(T)] = T[Len(T)] \cup {s}
      /\ \A i \in 1..(Len(T) - 1) : R[i] = T[i]
  BY BoundToIs DEF SameBelow
<1>2. Len(T) \in Nat /\ Len(T) \in 1..Len(T)
  BY DEF Tables
<1>3. \A x : x \in Syms(R) <=> \E i \in 1..Len(R) : x \in R[i]
  BY <1>1, SymsIs
<1>4. \A x : x \in Syms(T) <=> \E i \in 1..Len(T) : x \in T[i]
  BY SymsIs
<1>5. \A i \in 1..Len(T) : i \in 1..(Len(T) - 1) \/ i = Len(T)
  BY <1>2
<1>6. ASSUME NEW x \in Syms(R) PROVE x \in Syms(T) \cup {s}
  <2>1. PICK i \in 1..Len(T) : x \in R[i]
    BY <1>1, <1>3
  <2> QED
    BY <1>1, <1>2, <1>4, <1>5, <2>1
<1>7. ASSUME NEW x \in Syms(T) PROVE x \in Syms(R)
  <2>1. PICK i \in 1..Len(T) : x \in T[i]
    BY <1>4
  <2> QED
    BY <1>1, <1>2, <1>3, <1>5, <2>1
<1>8. s \in Syms(R)
  BY <1>1, <1>2, <1>3
<1> QED
  BY <1>1, <1>6, <1>7, <1>8

-----------------------------------------------------------------------------
(***************************************************************************)
(* The operations of the symbol manager, on a table and a context.         *)
(***************************************************************************)
Pair(T, C) == [table |-> T, context |-> C]
PutAt(C, k, q) == [C EXCEPT ![k] = q]
PutTable(f, T) == [f EXCEPT !.table = T]
PutContext(f, C) == [f EXCEPT !.context = C]

\* The parts of a pair.
LEMMA PairIs == \A T, C : Pair(T, C).table = T /\ Pair(T, C).context = C
BY DEF Pair

\* A level is replaced.
LEMMA Replaced ==
  ASSUME NEW C \in Scopes, NEW k \in 1..Len(C), NEW q \in Scope, NEW R, R = PutAt(C, k, q)
  PROVE  /\ R \in Scopes /\ Len(R) = Len(C) /\ R[k] = q
         /\ \A i \in 1..Len(C) : i # k => R[i] = C[i]
<1>1. Len(C) \in Nat /\ DOMAIN C = 1..Len(C) /\ \A i \in 1..Len(C) : C[i] \in Scope
  BY DEF Scopes
<1>2. R \in [1..Len(C) -> Scope] /\ R[k] = q /\ \A i \in 1..Len(C) : i # k => R[i] = C[i]
  BY <1>1 DEF PutAt
<1>3. R \in Seq(Scope) /\ Len(R) = Len(C)
  BY <1>1, <1>2, FunctionIsSeq
<1> QED
  BY <1>2, <1>3 DEF Scopes

\* A name is added to a level.
LEMMA NamedIs ==
  ASSUME NEW C \in Scopes, NEW k \in 1..Len(C), NEW t \in Names, NEW R, R = NamedAt(C, k, t)
  PROVE  /\ R \in Scopes /\ Len(R) = Len(C)
         /\ \A i \in 1..Len(C) : i # k => R[i] = C[i]
         /\ R[k].names = C[k].names \cup {t}
         /\ R[k].decls = C[k].decls
<1>1. PICK r \in Scope : r = C[k]
  BY DEF Scopes
<1>2. PICK q : q = [r EXCEPT !.names = @ \cup {t}]
  OBVIOUS
<1>3. q \in Scope /\ q.names = r.names \cup {t} /\ q.decls = r.decls
  BY <1>2 DEF Scope
<1>4. R = PutAt(C, k, q)
  BY <1>1, <1>2 DEF NamedAt, PutAt
<1>5. /\ R \in Scopes /\ Len(R) = Len(C) /\ R[k] = q
      /\ \A i \in 1..Len(C) : i # k => R[i] = C[i]
  BY <1>3, <1>4, Replaced
<1> QED
  BY <1>1, <1>3, <1>5

\* A declaration is added to a level.
LEMMA DeclaredIs ==
  ASSUME NEW C \in Scopes, NEW k \in 1..Len(C), NEW s \in Symbols, NEW R, R = DeclaredAt(C, k, s)
  PROVE  /\ R \in Scopes /\ Len(R) = Len(C)
         /\ \A i \in 1..Len(C) : i # k => R[i] = C[i]
         /\ R[k].decls = C[k].decls \cup {s}
         /\ R[k].names = C[k].names
<1>1. PICK r \in Scope : r = C[k]
  BY DEF Scopes
<1>2. PICK q : q = [r EXCEPT !.decls = @ \cup {s}]
  OBVIOUS
<1>3. q \in Scope /\ q.decls = r.decls \cup {s} /\ q.names = r.names
  BY <1>2 DEF Scope
<1>4. R = PutAt(C, k, q)
  BY <1>1, <1>2 DEF DeclaredAt, PutAt
<1>5. /\ R \in Scopes /\ Len(R) = Len(C) /\ R[k] = q
      /\ \A i \in 1..Len(C) : i # k => R[i] = C[i]
  BY <1>3, <1>4, Replaced
<1> QED
  BY <1>1, <1>3, <1>5

\* A part of a pair is replaced.
LEMMA PairExcept ==
  ASSUME NEW T, NEW C, NEW U
  PROVE  PutTable(Pair(T, C), U) = Pair(U, C) /\ PutContext(Pair(T, C), U) = Pair(T, U)
BY DEF Pair, PutTable, PutContext

\* bind.
LEMMA BindIs == \A T, C, s : Bind(Pair(T, C), s) = Pair(BoundTo(T, s), C)
<1> TAKE T, C, s
<1>1. PICK f : f = Pair(T, C)
  OBVIOUS
<1>2. f.table = T
  BY <1>1, PairIs
<1>3. Bind(f, s) = PutTable(f, BoundTo(T, s))
  BY <1>2 DEF Bind, PutTable, BoundTo
<1> QED
  BY <1>1, <1>3, PairExcept

\* setExpressionName.
LEMMA SetExpressionNameIs ==
  ASSUME NEW T, NEW C, NEW t, \A i \in DOMAIN C : t \notin C[i].names
  PROVE  SetExpressionName(Pair(T, C), t) = Pair(T, NamedAt(C, Len(C), t))
<1>1. PICK f : f = Pair(T, C)
  OBVIOUS
<1>2. f.context = C
  BY <1>1, PairIs
<1>3. SetExpressionName(f, t) = PutContext(f, NamedAt(C, Len(C), t))
  BY <1>2 DEF SetExpressionName, PutContext, NamedAt
<1> QED
  BY <1>1, <1>3, PairExcept

\* addModelDeclarationTerm.
LEMMA AddModelDeclarationIs ==
  \A T, C, s : AddModelDeclaration(Pair(T, C), s) = Pair(T, DeclaredAt(C, Len(C), s))
<1> TAKE T, C, s
<1>1. PICK f : f = Pair(T, C)
  OBVIOUS
<1>2. f.context = C
  BY <1>1, PairIs
<1>3. AddModelDeclaration(f, s) = PutContext(f, DeclaredAt(C, Len(C), s))
  BY <1>2 DEF AddModelDeclaration, PutContext, DeclaredAt
<1> QED
  BY <1>1, <1>3, PairExcept

\* pushScope.
LEMMA PushScopesIs ==
  \A T, C, n : PushScopes(Pair(T, C), n) =
                 IF global THEN Pair(T, C) ELSE Pair(Opened(T, {}, n), Opened(C, Empty, n))
BY DEF PushScopes, Pair, Opened

\* popScope, if it does not throw.
LEMMA PopScopesIs ==
  ASSUME NEW T, NEW C, NEW n, CanPop(Pair(T, C), n)
  PROVE  PopScopes(Pair(T, C), n) =
            IF global THEN Pair(T, C) ELSE Pair(Closed(T, n), Closed(C, n))
BY DEF PopScopes, CanPop, Pair, Closed

\* popScope, if it throws.
LEMMA PopScopesThrows ==
  ASSUME NEW T, NEW C, NEW n, ~CanPop(Pair(T, C), n)
  PROVE  PopScopes(Pair(T, C), n) = Pair(Closed(T, Len(T) - 1), Closed(C, Len(T) - 1))
BY DEF PopScopes, CanPop, Pair, Closed

\* setLogic.
LEMMA SetLogicIs ==
  ASSUME NEW T, NEW C
  PROVE  SetLogic(Pair(T, C)) =
            IF logicKnown \/ global THEN Pair(BoundTo(T, Builtin), C)
            ELSE Pair(Opened(BoundTo(T, Builtin), {}, 1), Opened(C, Empty, 1))
BY BindIs, PushScopesIs DEF SetLogic

\* A name is added to the last level.
LEMMA NamedLast ==
  ASSUME NEW C \in Scopes, Len(C) >= 1, NEW t \in Names, NEW R, R = NamedAt(C, Len(C), t)
  PROVE  /\ R \in Scopes /\ SameBelow(R, C)
         /\ R[Len(C)].names = C[Len(C)].names \cup {t} /\ R[Len(C)].decls = C[Len(C)].decls
         /\ R[Len(C)] \in Scope /\ C[Len(C)] \in Scope
<1>1. PICK k : k = Len(C)
  OBVIOUS
<1>2. k \in Nat /\ k \in 1..Len(C) /\ R = NamedAt(C, k, t)
  BY <1>1 DEF Scopes
<1>3. /\ R \in Scopes /\ Len(R) = Len(C) /\ \A i \in 1..Len(C) : i # k => R[i] = C[i]
      /\ R[k].names = C[k].names \cup {t} /\ R[k].decls = C[k].decls
  BY <1>2, NamedIs
<1>4. \A i \in 1..(k - 1) : i \in 1..Len(C) /\ i # k
  BY <1>1, <1>2
<1>5. \A i \in 1..(k - 1) : R[i] = C[i]
  BY <1>3, <1>4
<1>6. R[k] \in Scope /\ C[k] \in Scope
  BY <1>2, <1>3 DEF Scopes
<1> QED
  BY ONLY <1>1, <1>3, <1>5, <1>6 DEF SameBelow

\* A declaration is added to the last level.
LEMMA DeclaredLast ==
  ASSUME NEW C \in Scopes, Len(C) >= 1, NEW s \in Symbols, NEW R, R = DeclaredAt(C, Len(C), s)
  PROVE  /\ R \in Scopes /\ SameBelow(R, C)
         /\ R[Len(C)].decls = C[Len(C)].decls \cup {s} /\ R[Len(C)].names = C[Len(C)].names
         /\ R[Len(C)] \in Scope /\ C[Len(C)] \in Scope
<1>1. PICK k : k = Len(C)
  OBVIOUS
<1>2. k \in Nat /\ k \in 1..Len(C) /\ R = DeclaredAt(C, k, s)
  BY <1>1 DEF Scopes
<1>3. /\ R \in Scopes /\ Len(R) = Len(C) /\ \A i \in 1..Len(C) : i # k => R[i] = C[i]
      /\ R[k].decls = C[k].decls \cup {s} /\ R[k].names = C[k].names
  BY <1>2, DeclaredIs
<1>4. \A i \in 1..(k - 1) : i \in 1..Len(C) /\ i # k
  BY <1>1, <1>2
<1>5. \A i \in 1..(k - 1) : R[i] = C[i]
  BY <1>3, <1>4
<1>6. R[k] \in Scope /\ C[k] \in Scope
  BY <1>2, <1>3 DEF Scopes
<1> QED
  BY ONLY <1>1, <1>3, <1>5, <1>6 DEF SameBelow

-----------------------------------------------------------------------------
(***************************************************************************)
(* What they do to a front end that agrees with the engine.                *)
(***************************************************************************)
\* push.
LEMMA OpenFits ==
  ASSUME NEW T \in Tables, NEW C \in Scopes, NEW S \in Scopes, NEW kept, NEW n \in Nat, Fits(T, C, S, kept),
         NEW T2, T2 = Opened(T, {}, n), NEW C2, C2 = Opened(C, Empty, n),
         NEW S2, S2 = Opened(S, Empty, n)
  PROVE  Fits(T2, C2, S2, kept)
<1>1. T2 \in Tables /\ Extended(T2, T, {}, n)
  BY OpenedTable
<1>2. C2 \in Scopes /\ Extended(C2, C, Empty, n)
  BY OpenedScopes
<1>3. S2 \in Scopes /\ Extended(S2, S, Empty, n)
  BY OpenedScopes
<1> QED
  BY <1>1, <1>2, <1>3, FitsGrown

\* pop.
LEMMA CloseFits ==
  ASSUME NEW T \in Tables, NEW C \in Scopes, NEW S \in Scopes, NEW kept, NEW n \in Nat, n < Len(S),
         Fits(T, C, S, kept),
         NEW T2, T2 = Closed(T, n), NEW C2, C2 = Closed(C, n), NEW S2, S2 = Closed(S, n)
  PROVE  Fits(T2, C2, S2, kept)
<1>1. n <= Len(T) /\ n <= Len(C) /\ n <= Len(S)
  BY DEF Fits, Deep, Tables, Scopes
<1>2. T2 \in Tables /\ Shortened(T2, T, n)
  BY <1>1, ClosedTable
<1>3. C2 \in Scopes /\ Shortened(C2, C, n)
  BY <1>1, ClosedScopes
<1>4. S2 \in Scopes /\ Shortened(S2, S, n)
  BY <1>1, ClosedScopes
<1> QED
  BY <1>2, <1>3, <1>4, FitsCut

\* A name enters the last level on both sides.
LEMMA NameFits ==
  ASSUME NEW T \in Tables, NEW C \in Scopes, NEW S \in Scopes, NEW kept,
         NEW t \in Names, Len(S) >= 1, Fits(T, C, S, kept),
         NEW T2, T2 = BoundTo(T, t), NEW C2, C2 = NamedAt(C, Len(C), t),
         NEW S2, S2 = NamedAt(S, Len(S), t)
  PROVE  Fits(T2, C2, S2, kept)
<1>1. Len(T) >= 1 /\ Len(C) >= 1 /\ t \in Bindable /\ t # Builtin
  BY BuiltinAssumption DEF Fits, Deep, Tables, Scopes, Bindable
<1>2. /\ T[Len(T)] \ {Builtin} = S[Len(S)].names \cup S[Len(S)].decls
      /\ Kin(C[Len(C)], S[Len(S)], kept \/ Len(S) # 1)
  <2>1. /\ Len(S) \in 1..Len(S)
        /\ (Len(T) - Len(S)) + Len(S) = Len(T) /\ (Len(C) - Len(S)) + Len(S) = Len(C)
    BY DEF Tables, Scopes
  <2> QED
    BY <2>1 DEF Fits
<1>3. T2 \in Tables /\ SameBelow(T2, T) /\ T2[Len(T)] = T[Len(T)] \cup {t}
  BY <1>1, BoundToIs
<1>4. C2 \in Scopes /\ SameBelow(C2, C)
  BY <1>1, NamedLast
<1>5. S2 \in Scopes /\ SameBelow(S2, S)
  BY NamedLast
<1>6. PICK c, d, e, k, x : /\ c = C2[Len(C)] /\ d = S2[Len(S)] /\ e = S[Len(S)] /\ k = C[Len(C)]
                           /\ x = (kept \/ Len(S) # 1)
  OBVIOUS
<1>7. c \in Scope /\ c.names = k.names \cup {t} /\ c.decls = k.decls
  BY <1>1, <1>6, NamedLast
<1>8. d \in Scope /\ d.names = e.names \cup {t} /\ d.decls = e.decls
  BY <1>6, NamedLast
<1>9. Kin(c, d, x)
  <2>1. Kin(k, e, x)
    BY <1>2, <1>6
  <2>2. x => c = d
    BY <1>7, <1>8, <2>1, ScopeSame DEF Kin
  <2> QED
    BY <1>7, <1>8, <2>1, <2>2 DEF Kin
<1>10. T2[Len(T)] \ {Builtin} = S2[Len(S)].names \cup S2[Len(S)].decls
  BY <1>1, <1>2, <1>3, <1>6, <1>8
<1>11. Kin(C2[Len(C)], S2[Len(S)], kept \/ Len(S) # 1)
  BY <1>6, <1>9
<1> QED
  BY <1>3, <1>4, <1>5, <1>10, <1>11, FitsLast

\* A declaration enters the last level on both sides.
LEMMA DeclareFits ==
  ASSUME NEW T \in Tables, NEW C \in Scopes, NEW S \in Scopes, NEW kept,
         NEW s \in Symbols, Len(S) >= 1, Fits(T, C, S, kept),
         NEW T2, T2 = BoundTo(T, s), NEW C2, C2 = DeclaredAt(C, Len(C), s),
         NEW S2, S2 = DeclaredAt(S, Len(S), s)
  PROVE  Fits(T2, C2, S2, kept)
<1>1. Len(T) >= 1 /\ Len(C) >= 1 /\ s \in Bindable /\ s # Builtin
  BY BuiltinAssumption DEF Fits, Deep, Tables, Scopes, Bindable
<1>2. /\ T[Len(T)] \ {Builtin} = S[Len(S)].names \cup S[Len(S)].decls
      /\ Kin(C[Len(C)], S[Len(S)], kept \/ Len(S) # 1)
  <2>1. /\ Len(S) \in 1..Len(S)
        /\ (Len(T) - Len(S)) + Len(S) = Len(T) /\ (Len(C) - Len(S)) + Len(S) = Len(C)
    BY DEF Tables, Scopes
  <2> QED
    BY <2>1 DEF Fits
<1>3. T2 \in Tables /\ SameBelow(T2, T) /\ T2[Len(T)] = T[Len(T)] \cup {s}
  BY <1>1, BoundToIs
<1>4. C2 \in Scopes /\ SameBelow(C2, C)
  BY <1>1, DeclaredLast
<1>5. S2 \in Scopes /\ SameBelow(S2, S)
  BY DeclaredLast
<1>6. PICK c, d, e, k, x : /\ c = C2[Len(C)] /\ d = S2[Len(S)] /\ e = S[Len(S)] /\ k = C[Len(C)]
                           /\ x = (kept \/ Len(S) # 1)
  OBVIOUS
<1>7. c \in Scope /\ c.decls = k.decls \cup {s} /\ c.names = k.names
  BY <1>1, <1>6, DeclaredLast
<1>8. d \in Scope /\ d.decls = e.decls \cup {s} /\ d.names = e.names
  BY <1>6, DeclaredLast
<1>9. Kin(c, d, x)
  <2>1. Kin(k, e, x)
    BY <1>2, <1>6
  <2>2. x => c = d
    BY <1>7, <1>8, <2>1, ScopeSame DEF Kin
  <2> QED
    BY <1>7, <1>8, <2>1, <2>2 DEF Kin
<1>10. T2[Len(T)] \ {Builtin} = S2[Len(S)].names \cup S2[Len(S)].decls
  BY <1>1, <1>2, <1>3, <1>6, <1>8
<1>11. Kin(C2[Len(C)], S2[Len(S)], kept \/ Len(S) # 1)
  BY <1>6, <1>9
<1> QED
  BY <1>3, <1>4, <1>5, <1>10, <1>11, FitsLast

\* The names that the symbol manager has are bound in the table.
LEMMA NamesAreBound ==
  ASSUME NEW T \in Tables, NEW C \in Scopes, NEW S \in Scopes, NEW kept, Fits(T, C, S, kept),
         NEW i \in 1..Len(C), NEW t \in C[i].names, t # Builtin
  PROVE  t \in Syms(T)
<1>0. Len(T) \in Nat /\ Len(C) \in Nat /\ Len(S) \in Nat
  BY DEF Tables, Scopes
<1>1. CASE i \in 1..(Len(C) - Len(S))
  <2>1. C[i] = Empty
    BY <1>1 DEF Fits
  <2> QED
    BY <2>1, ScopeParts
<1>2. CASE i \notin 1..(Len(C) - Len(S))
  <2>1. PICK j : j = i - (Len(C) - Len(S))
    OBVIOUS
  <2>2. /\ j \in 1..Len(S) /\ i = (Len(C) - Len(S)) + j
        /\ (Len(T) - Len(S)) + j \in 1..Len(T)
    BY <1>0, <1>2, <2>1 DEF Fits, Deep
  <2>3. /\ C[i].names \subseteq S[j].names
        /\ T[(Len(T) - Len(S)) + j] \ {Builtin} = S[j].names \cup S[j].decls
    BY <2>2 DEF Fits, Kin
  <2>4. t \in T[(Len(T) - Len(S)) + j]
    BY <2>3
  <2> QED
    BY <2>2, <2>4, SymsIs
<1> QED
  BY <1>1, <1>2

-----------------------------------------------------------------------------
(***************************************************************************)
(* The steps.                                                              *)
(***************************************************************************)
\* Opening a level binds nothing.
LEMMA SymsOpened ==
  ASSUME NEW T \in Tables, NEW n \in Nat, NEW R, R = Opened(T, {}, n)
  PROVE  Syms(R) = Syms(T)
<1>0. R \in Tables /\ Extended(R, T, {}, n)
  BY OpenedTable
<1>1. /\ R \in Tables /\ Len(T) \in Nat /\ Len(R) = Len(T) + n
      /\ \A i \in 1..Len(T) : R[i] = T[i]
      /\ \A i \in 1..n : R[Len(T) + i] = {}
  <2>1. Len(T) \in Nat
    BY DEF Tables
  <2> QED
    BY <1>0, <2>1 DEF Extended
<1>2. \A x : x \in Syms(R) <=> \E i \in 1..Len(R) : x \in R[i]
  BY <1>1, SymsIs
<1>3. \A x : x \in Syms(T) <=> \E i \in 1..Len(T) : x \in T[i]
  BY SymsIs
<1>4. ASSUME NEW x, NEW i \in 1..Len(R), x \in R[i] PROVE x \in Syms(T)
  <2>1. CASE i \in 1..Len(T)
    BY <1>1, <1>3, <1>4, <2>1
  <2>2. CASE i \notin 1..Len(T)
    <3>1. i - Len(T) \in 1..n /\ i = Len(T) + (i - Len(T))
      BY <1>1, <2>2
    <3> QED
      BY <1>1, <1>4, <3>1
  <2> QED
    BY <2>1, <2>2
<1>5. ASSUME NEW x, NEW i \in 1..Len(T), x \in T[i] PROVE x \in Syms(R)
  <2>1. i \in 1..Len(R) /\ R[i] = T[i]
    BY <1>1
  <2> QED
    BY <1>2, <1>5, <2>1
<1> QED
  BY <1>2, <1>3, <1>4, <1>5

\* One level is a sequence of levels.
LEMMA OneScope ==
  ASSUME NEW e \in Scope, NEW S, S = <<e>>
  PROVE  S \in Scopes /\ Len(S) = 1 /\ S[1] = e
BY DEF Scopes

\* The levels that the front end is compared with, in any state.
ShownOf(S, g) == IF g THEN <<S[1]>> ELSE S

\* They are levels, one of them with global declarations.
LEMMA ShownIs ==
  ASSUME NEW S \in Scopes, Len(S) >= 1, NEW g \in BOOLEAN, NEW R, R = ShownOf(S, g)
  PROVE  /\ R \in Scopes /\ Len(R) \in Nat /\ Len(R) >= 1 /\ Len(R) <= Len(S) /\ R[1] = S[1]
         /\ g => Len(R) = 1
         /\ ~g \/ Len(S) = 1 => R = S
<1>1. S \in Seq(Scope) /\ Len(S) \in Nat /\ S[1] \in Scope
  BY DEF Scopes
<1>2. CASE g
  <2>1. PICK e \in Scope : e = S[1]
    BY <1>1
  <2>2. R = <<e>>
    BY <1>2, <2>1 DEF ShownOf
  <2>3. R \in Scopes /\ Len(R) = 1 /\ R[1] = S[1]
    BY <2>1, <2>2, OneScope
  <2>4. ASSUME Len(S) = 1 PROVE R = S
    <3>1. R \in Seq(Scope) /\ \A i \in 1..Len(R) : R[i] = S[i]
      BY <2>3 DEF Scopes
    <3> QED
      BY <1>1, <2>3, <2>4, <3>1, SeqEqual
  <2>5. Len(R) \in Nat /\ Len(R) >= 1 /\ Len(R) <= Len(S)
    BY <1>1, <2>3
  <2> QED
    BY <1>2, <2>3, <2>4, <2>5
<1>3. CASE ~g
  BY <1>1, <1>3 DEF ShownOf
<1> QED
  BY <1>2, <1>3

\* The same of the state at hand.
LEMMA ShownNow ==
  ASSUME LInv
  PROVE  /\ Shown = ShownOf(scopes, global)
         /\ Shown \in Scopes /\ Len(Shown) \in Nat /\ Len(Shown) >= 1
         /\ Len(Shown) <= Len(scopes) /\ Shown[1] = scopes[1]
         /\ global => Len(Shown) = 1
         /\ ~global \/ Len(scopes) = 1 => Shown = scopes
<1>1. scopes \in Scopes /\ Len(scopes) >= 1 /\ global \in BOOLEAN
  BY DEF LInv, Typed, Levels
<1>2. Shown = ShownOf(scopes, global)
  BY DEF Shown, ShownOf
<1> QED
  BY <1>1, <1>2, ShownIs

\* A front end whose logic is set: the levels that a command is parsed on.
Grounded(T, C) ==
    /\ T \in Tables /\ C \in Scopes /\ Len(T) >= 1 /\ Len(C) >= 2 /\ C[1] = Empty
    /\ Deep(T, C, Shown)
    /\ Syms(T) \ {Builtin} = Syms(table) \ {Builtin}
    /\ Matches /\ ~spared => Fits(T, C, Shown, ~forgot)
    /\ Outermost /\ resets = 0 /\ ~global => OneMore(T, C, Shown)

\* Between two commands nothing is ahead.
LEMMA AheadReady ==
  ASSUME LInv, Ready
  PROVE  Going /\ Ahead = Shown /\ command.op = "none"
<1>1. command.op = "none" /\ failed = "none"
  BY DEF Ready, Idle
<1> QED
  BY <1>1 DEF Going, Ahead, AheadOf

\* The first command to need a logic binds its symbols and opens the outermost
\* scope; the others find the front end as it is.
LEMMA LogicGround ==
  ASSUME LInv, Ready
  PROVE  \E T, C : WithLogic(Now) = Pair(T, C) /\ Grounded(T, C)
<1>a. PICK S, kept : S = Shown /\ kept = ~forgot
  OBVIOUS
<1>0. /\ table \in Tables /\ context \in Scopes /\ S \in Scopes
      /\ Len(table) >= 1 /\ Len(context) >= 2 /\ context[1] = Empty
      /\ Deep(table, context, S)
      /\ Matches /\ ~spared => Fits(table, context, S, kept)
      /\ Len(table) \in Nat /\ Len(context) \in Nat
  <2>1. /\ table \in Tables /\ context \in Scopes
        /\ Len(table) >= 1 /\ Len(context) >= 2 /\ context[1] = Empty
        /\ Deep(table, context, S)
        /\ Matches /\ ~spared => Fits(table, context, S, kept)
    BY <1>a, AheadReady DEF LInv, Typed, Levels, Matches
  <2> QED
    BY <1>a, <2>1, ShownNow DEF Tables, Scopes
<1>1. Now = Pair(table, context)
  BY DEF Now, Pair
<1>2. CASE logicSet
  <2>1. WithLogic(Now) = Pair(table, context)
    BY <1>1, <1>2 DEF WithLogic
  <2>2. Grounded(table, context)
    <3>1. Outermost /\ resets = 0 /\ ~global => OneMore(table, context, S)
      BY <1>a, <1>2, AheadReady DEF Outermost, FirstReset
    <3> QED
      BY <1>a, <1>0, <3>1 DEF Grounded
  <2> QED
    BY <2>1, <2>2
<1>3. CASE ~logicSet
  <2>1. Len(S) = 1 /\ S[1] = Empty
    <3>1. Len(scopes) = 1 /\ scopes[1] = Empty
      BY <1>3, AheadReady DEF Ready, LInv, Quiet
    <3> QED
      BY <1>a, <3>1, ShownNow
  <2>2. PICK U : U = BoundTo(table, Builtin)
    OBVIOUS
  <2>3. U \in Tables /\ Len(U) = Len(table) /\ Syms(U) = Syms(table) \cup {Builtin}
    <3>1. Builtin \in Bindable
      BY DEF Bindable
    <3> QED
      BY <1>0, <2>2, <3>1, SymsBound
  <2>4. Syms(U) \ {Builtin} = Syms(table) \ {Builtin}
    BY <2>3
  <2>5. ASSUME Matches, ~spared PROVE Bare(U, context)
    <3>1. Bare(table, context)
      BY <1>0, <2>1, <2>5, FitsBare
    <3>2. Syms(table) \subseteq {Builtin}
      BY <1>0, <3>1, SymsBare DEF Bare
    <3>3. \A i \in 1..Len(U) : U[i] \subseteq {Builtin}
      <4>1. Syms(U) \subseteq {Builtin}
        BY <2>3, <3>2
      <4> QED
        BY <2>3, <4>1, SymsBare
    <3> QED
      BY <1>0, <2>3, <3>1, <3>3 DEF Bare
  <2>6. CASE logicKnown \/ global
    <3>1. WithLogic(Now) = Pair(U, context)
      BY <1>1, <1>3, <2>2, <2>6, SetLogicIs DEF WithLogic
    <3>2. ASSUME Matches, ~spared PROVE Fits(U, context, S, kept)
      BY <1>0, <2>1, <2>3, <2>5, <3>2, FitsBare
    <3>3. Deep(U, context, S)
      BY <1>0, <2>3 DEF Deep
    <3>5. ~(Outermost /\ resets = 0 /\ ~global)
      BY <1>3, <2>6, AheadReady DEF Outermost, FirstReset
    <3>4. Grounded(U, context)
      BY <1>a, <1>0, <2>3, <2>4, <3>2, <3>3, <3>5 DEF Grounded
    <3> QED
      BY <3>1, <3>4
  <2>7. CASE ~logicKnown /\ ~global
    <3>1. PICK T, C : T = Opened(U, {}, 1) /\ C = Opened(context, Empty, 1)
      OBVIOUS
    <3>2. WithLogic(Now) = Pair(T, C)
      BY <1>1, <1>3, <2>2, <2>7, <3>1, SetLogicIs DEF WithLogic
    <3>3. T \in Tables /\ Extended(T, U, {}, 1) /\ C \in Scopes /\ Extended(C, context, Empty, 1)
      BY <1>0, <2>3, <3>1, OpenedTable, OpenedScopes
    <3>4. /\ Len(T) = Len(U) + 1 /\ Len(C) = Len(context) + 1 /\ C[1] = Empty
          /\ \A i \in 1..Len(context) : C[i] = context[i]
          /\ C[Len(context) + 1] = Empty
      BY <1>0, <3>3 DEF Extended
    <3>5. Syms(T) = Syms(U)
      BY <2>3, <3>1, SymsOpened
    <3>6. ASSUME Matches, ~spared PROVE Fits(T, C, S, kept)
      <4>1. Bare(U, context)
        BY <2>5, <3>6
      <4>2. \A i \in 1..Len(T) : T[i] \subseteq {Builtin}
        <5>1. Syms(T) \subseteq {Builtin}
          BY <2>3, <3>5, <4>1, SymsBare DEF Bare
        <5> QED
          BY <3>3, <5>1, SymsBare
      <4>3. ASSUME NEW i \in 1..Len(C) PROVE C[i] = Empty
        <5>1. i \in 1..Len(context) \/ i = Len(context) + 1
          BY <1>0, <3>4
        <5> QED
          BY <3>4, <4>1, <5>1 DEF Bare
      <4>4. Len(T) >= 1 /\ Len(C) >= 2
        BY <1>0, <2>3, <3>4
      <4>5. Bare(T, C)
        BY <4>2, <4>3, <4>4 DEF Bare
      <4> QED
        BY <1>0, <2>1, <3>3, <4>5, FitsBare
    <3>7. Len(T) >= 2 /\ Len(C) >= 3 /\ Deep(T, C, S) /\ OneMore(T, C, S)
      BY <1>0, <2>1, <2>3, <3>4 DEF Deep, OneMore
    <3>8. Grounded(T, C)
      BY <1>a, <2>4, <3>3, <3>4, <3>5, <3>6, <3>7 DEF Grounded
    <3> QED
      BY <3>2, <3>8
  <2> QED
    BY <2>6, <2>7
<1> QED
  BY <1>2, <1>3

\* What a step keeps.
Preserved ==
    /\ LInv'
    /\ Matches => Matches'
    /\ FALSE \notin OptionValues /\ Outermost => Outermost'

\* A command that only needs the logic to be parsed.
LEMMA GroundStep ==
  ASSUME LInv, Ready, NEW c, CommandOK(c), c.op \in {"set-logic", "declare"}, command' = c,
         Become(WithLogic(Now)), logicSet' = TRUE, logicKnown' \in BOOLEAN,
         UNCHANGED <<global, failed, resets, scopes, engine, history>>
  PROVE  Preserved
<1>0. UNCHANGED <<global, failed, scopes, stack, inited, spared, forgot>>
  BY DEF engine, history
<1>1. PICK T, C : WithLogic(Now) = Pair(T, C) /\ Grounded(T, C)
  BY LogicGround
<1>2. table' = T /\ context' = C
  BY <1>1, PairIs DEF Become
<1>3. Going /\ Ahead = Shown /\ command.op = "none" /\ failed = "none"
  BY AheadReady DEF Ready
<1>4. Going' /\ Ahead' = Shown
  BY <1>0, <1>3 DEF Going, Ahead, AheadOf, Shown
<1>5. Typed'
  BY <1>0, <1>1, <1>2 DEF LInv, Typed, Grounded
<1>6. Levels'
  BY <1>0, <1>1, <1>2, <1>4 DEF LInv, Levels, Grounded
<1>7. Owned' /\ Quiet' /\ Fresh' /\ RefusedTogether'
  BY <1>0, <1>3 DEF LInv, Owned, Quiet, Fresh, RefusedTogether
<1>8. Matches => Matches'
  BY <1>0, <1>1, <1>2, <1>4 DEF Grounded, Matches
<1>9. Outermost => Outermost'
  BY <1>0, <1>1, <1>2, <1>3, <1>4 DEF Outermost, FirstReset, Grounded
<1> QED
  BY <1>5, <1>6, <1>7, <1>8, <1>9 DEF Preserved, LInv

\* set-logic is parsed.
LEMMA KeepParseSetLogic == ASSUME LInv, ParseSetLogic PROVE Preserved
<1>1. CommandOK([op |-> "set-logic", n |-> 0, arg |-> Builtin])
  BY DEF CommandOK, Commands, Ops, Bindable
<1>2. SetLogic(Now) = WithLogic(Now)
  BY DEF ParseSetLogic, WithLogic
<1>3. logicKnown' \in BOOLEAN
  BY DEF ParseSetLogic, LInv, Typed
<1> QED
  BY <1>1, <1>2, <1>3, GroundStep DEF ParseSetLogic, Parsed

\* A declaration is parsed.
LEMMA KeepParseDeclare ==
  ASSUME LInv, NEW s \in Symbols, ParseDeclare(s) PROVE Preserved
<1>1. CommandOK([op |-> "declare", n |-> 0, arg |-> s])
  BY DEF CommandOK, Commands, Ops, Bindable
<1>3. logicKnown' \in BOOLEAN
  BY DEF ParseDeclare, EnsureLogic, LInv, Typed
<1> QED
  BY <1>1, <1>3, GroundStep DEF ParseDeclare, EnsureLogic, Parsed

\* A second set-logic is refused.
LEMMA KeepParseSetLogicAgain == ASSUME LInv, ParseSetLogicAgain PROVE Preserved
<1>0. UNCHANGED <<table, context, logicSet, logicKnown, global, command, scopes, stack, inited,
                  spared, forgot>>
  BY DEF ParseSetLogicAgain, front, settings, engine, history
<1>1. command.op = "none" /\ failed' = "parser" /\ ~Going'
  BY AheadReady DEF ParseSetLogicAgain, Going
<1>2. Typed'
  BY <1>0, <1>1 DEF LInv, Typed
<1>3. Levels' /\ Owned' /\ Quiet' /\ Fresh' /\ RefusedTogether'
  BY <1>0, <1>1 DEF LInv, Levels, Owned, Quiet, Fresh, RefusedTogether
<1>4. Outermost => Outermost'
  <2>1. resets' = resets
    BY DEF ParseSetLogicAgain
  <2> QED
    BY <1>0, <1>1, <2>1 DEF Outermost
<1> QED
  BY <1>0, <1>1, <1>2, <1>3, <1>4 DEF Preserved, LInv, Matches

\* Global declarations are switched: the engine will refuse, or it has one
\* level and no assertions, and then the levels are the same either way.
LEMMA KeepParseGlobalDeclarations ==
  ASSUME LInv, NEW b \in OptionValues, ParseGlobalDeclarations(b) PROVE Preserved
<1>0. /\ UNCHANGED <<table, context, logicSet, logicKnown, failed, scopes, stack, inited,
                     spared, forgot>>
      /\ global' = b /\ command' = [op |-> "set-option", n |-> 0, arg |-> Builtin]
  BY DEF ParseGlobalDeclarations, Parsed, front, engine, history
<1>1. Going /\ Ahead = Shown /\ command.op = "none" /\ failed = "none"
  BY AheadReady DEF Ready, ParseGlobalDeclarations
<1>2. Typed'
  <2>1. CommandOK(command')
    BY <1>0 DEF CommandOK, Commands, Ops, Bindable
  <2>2. global' \in BOOLEAN
    BY <1>0, OptionAssumption
  <2> QED
    BY <1>0, <2>1, <2>2 DEF LInv, Typed
<1>3. Quiet' /\ Fresh' /\ RefusedTogether'
  BY <1>0, <1>1 DEF LInv, Quiet, Fresh, RefusedTogether
<1>6. FALSE \notin OptionValues /\ Outermost => Outermost'
  <2>1. resets' = resets /\ b \in BOOLEAN
    BY OptionAssumption DEF ParseGlobalDeclarations
  <2>2. FALSE \notin OptionValues => global'
    BY <1>0, <2>1
  <2> QED
    BY <1>0, <1>1, <2>1, <2>2 DEF Outermost, FirstReset
<1>4. CASE inited
  <2>1. ~Going'
    BY <1>0, <1>4 DEF Going
  <2>2. Levels' /\ Owned'
    BY <1>0, <2>1 DEF LInv, Levels, Owned
  <2> QED
    BY <1>2, <1>3, <1>6, <2>1, <2>2 DEF Preserved, LInv, Matches
<1>5. CASE ~inited
  <2>1. Len(scopes) = 1 /\ scopes[1].names = {} /\ stack[1] = {}
    BY <1>5 DEF LInv, Fresh
  <2>2. Ahead' = Shown
    <3>1. PICK R : R = ShownOf(scopes, b)
      OBVIOUS
    <3>2. scopes \in Scopes /\ Len(scopes) >= 1 /\ b \in BOOLEAN
      BY OptionAssumption DEF LInv, Typed, Levels
    <3>3. R = scopes
      BY <2>1, <3>1, <3>2, ShownIs
    <3>4. Shown' = R
      BY <1>0, <3>1 DEF Shown, ShownOf
    <3>5. Shown' = Shown
      BY <2>1, <3>3, <3>4, ShownNow
    <3> QED
      BY <1>0, <3>5 DEF Ahead, AheadOf
  <2>3. Levels'
    BY <1>0, <1>1, <2>2 DEF LInv, Levels
  <2>4. Owned'
    <3>1. \A i \in 1..Len(scopes) : i = 1
      BY <2>1
    <3> QED
      BY <1>0, <2>1, <3>1 DEF Owned
  <2>5. Matches => Matches'
    BY <1>0, <1>1, <2>2 DEF Matches
  <2> QED
    BY <1>2, <1>3, <1>6, <2>3, <2>4, <2>5 DEF Preserved, LInv
<1> QED
  BY <1>4, <1>5

\* A named assertion is parsed: the name is bound and the term has it.
LEMMA KeepParseAssert ==
  ASSUME LInv, NEW t \in Names, ParseAssert(t) PROVE Preserved
<1>0. /\ Ready /\ t \notin Syms(table) /\ logicSet' = TRUE
      /\ table' = Bind(SetExpressionName(WithLogic(Now), t), t).table
      /\ context' = Bind(SetExpressionName(WithLogic(Now), t), t).context
      /\ command' = [op |-> "assert", n |-> 0, arg |-> t]
      /\ UNCHANGED <<global, failed, scopes, stack, inited, spared, forgot>>
  BY DEF ParseAssert, EnsureLogic, Parsed, engine, history, Become, Syms
<1>1. PICK T, C : WithLogic(Now) = Pair(T, C) /\ Grounded(T, C)
  BY <1>0, LogicGround
<1>2. /\ T \in Tables /\ C \in Scopes /\ Len(T) >= 1 /\ Len(C) >= 2 /\ C[1] = Empty
      /\ Len(C) \in Nat /\ Shown \in Scopes /\ Len(Shown) >= 1
      /\ t \in Bindable /\ t # Builtin
  <2>1. /\ T \in Tables /\ C \in Scopes /\ Len(T) >= 1 /\ Len(C) >= 2 /\ C[1] = Empty
        /\ Shown \in Scopes /\ Len(Shown) >= 1
    BY <1>1, ShownNow DEF Grounded
  <2>2. t \in Bindable /\ t # Builtin
    BY BuiltinAssumption DEF Bindable
  <2> QED
    BY <2>1, <2>2 DEF Scopes
<1>3. PICK R, D, S : /\ R = BoundTo(T, t) /\ D = NamedAt(C, Len(C), t)
                     /\ S = NamedAt(Shown, Len(Shown), t)
  OBVIOUS
<1>4. table' = R
  <2>1. PICK f : f = SetExpressionName(Pair(T, C), t)
    OBVIOUS
  <2>2. f.table = T
    <3>1. CASE \E i \in DOMAIN C : t \in C[i].names
      BY <2>1, <3>1, PairIs DEF SetExpressionName
    <3>2. CASE ~\E i \in DOMAIN C : t \in C[i].names
      BY <2>1, <3>2, SetExpressionNameIs, PairIs
    <3> QED
      BY <3>1, <3>2
  <2>3. f = Pair(T, f.context)
    <3>1. CASE \E i \in DOMAIN C : t \in C[i].names
      BY <2>1, <3>1, PairIs DEF SetExpressionName
    <3>2. CASE ~\E i \in DOMAIN C : t \in C[i].names
      BY <2>1, <3>2, SetExpressionNameIs, PairIs
    <3> QED
      BY <3>1, <3>2
  <2> QED
    BY <1>0, <1>1, <1>3, <2>1, <2>3, BindIs, PairIs
<1>5. context' = IF \E i \in DOMAIN C : t \in C[i].names THEN C ELSE D
  <2>1. CASE \E i \in DOMAIN C : t \in C[i].names
    <3>1. SetExpressionName(Pair(T, C), t) = Pair(T, C)
      BY <2>1, PairIs DEF SetExpressionName
    <3> QED
      BY <1>0, <1>1, <2>1, <3>1, BindIs, PairIs
  <2>2. CASE ~\E i \in DOMAIN C : t \in C[i].names
    <3>1. SetExpressionName(Pair(T, C), t) = Pair(T, D)
      BY <1>3, <2>2, SetExpressionNameIs
    <3> QED
      BY <1>0, <1>1, <2>2, <3>1, BindIs, PairIs
  <2> QED
    BY <2>1, <2>2
<1>6. R \in Tables /\ Len(R) = Len(T)
  BY <1>2, <1>3, SymsBound
<1>7. D \in Scopes /\ Len(D) = Len(C) /\ D[1] = Empty
  <2>1. D \in Scopes /\ SameBelow(D, C)
    BY <1>2, <1>3, NamedLast
  <2> QED
    BY <1>2, <2>1 DEF SameBelow
<1>8. context' \in Scopes /\ Len(context') = Len(C) /\ context'[1] = Empty
  BY <1>2, <1>5, <1>7
<1>9. Going /\ command.op = "none" /\ failed = "none"
  BY <1>0, AheadReady DEF Ready
<1>10. Going' /\ Ahead' = S
  BY <1>0, <1>3, <1>9 DEF Going, Ahead, AheadOf, Shown
<1>11. S \in Scopes /\ Len(S) = Len(Shown)
  BY <1>2, <1>3, NamedLast DEF SameBelow
<1>12. Typed'
  <2>1. CommandOK(command')
    BY <1>0, <1>2 DEF CommandOK, Commands, Ops
  <2>2. logicKnown' \in BOOLEAN
    BY DEF ParseAssert, EnsureLogic, LInv, Typed
  <2> QED
    BY <1>0, <1>4, <1>6, <1>8, <2>1, <2>2 DEF LInv, Typed
<1>13. Levels'
  BY <1>0, <1>1, <1>2, <1>4, <1>6, <1>8, <1>10, <1>11 DEF LInv, Levels, Grounded, Deep
<1>14. Owned' /\ Quiet' /\ Fresh' /\ RefusedTogether'
  BY <1>0, <1>9 DEF LInv, Owned, Quiet, Fresh, RefusedTogether
<1>15. ASSUME Matches, ~spared PROVE Fits(table', context', S, ~forgot)
  <2>1. PICK kept : kept = ~forgot
    OBVIOUS
  <2>2. Fits(T, C, Shown, kept)
    BY <1>1, <1>15, <2>1 DEF Grounded
  <2>3. t \notin Syms(T)
    BY <1>0, <1>1, <1>2 DEF Grounded
  <2>4. \A i \in 1..Len(C) : t \notin C[i].names
    BY <1>2, <2>2, <2>3, NamesAreBound
  <2>5. context' = D
    BY <1>2, <1>5, <2>4 DEF Scopes
  <2>6. Fits(R, D, S, kept)
    BY <1>2, <1>3, <2>2, NameFits
  <2> QED
    BY <1>4, <2>1, <2>5, <2>6
<1>16. Matches => Matches'
  BY <1>0, <1>10, <1>15 DEF Matches
<1>17. Outermost => Outermost'
  <2>1. resets' = resets
    BY DEF ParseAssert
  <2>2. ASSUME Outermost, resets = 0, ~global PROVE OneMore(table', context', S)
    BY <1>1, <1>4, <1>6, <1>8, <1>11, <2>2 DEF Grounded, OneMore
  <2> QED
    BY <1>0, <1>9, <1>10, <2>1, <2>2 DEF Outermost, FirstReset
<1> QED
  BY <1>12, <1>13, <1>14, <1>16, <1>17 DEF Preserved, LInv

\* A push is parsed: the front end opens the levels at once.
LEMMA KeepParsePush ==
  ASSUME LInv, NEW n \in 1..2, ParsePush(n) PROVE Preserved
<1>0. /\ Ready /\ logicSet' = TRUE
      /\ table' = PushScopes(WithLogic(Now), n).table
      /\ context' = PushScopes(WithLogic(Now), n).context
      /\ command' = [op |-> "push", n |-> n, arg |-> Builtin]
      /\ UNCHANGED <<global, failed, scopes, stack, inited, spared, forgot>>
  BY DEF ParsePush, EnsureLogic, Parsed, engine, history, Become
<1>1. PICK T, C : WithLogic(Now) = Pair(T, C) /\ Grounded(T, C)
  BY <1>0, LogicGround
<1>2. /\ T \in Tables /\ C \in Scopes /\ Len(T) >= 1 /\ Len(C) >= 2 /\ C[1] = Empty
      /\ Shown \in Scopes /\ Len(Shown) >= 1 /\ global \in BOOLEAN /\ n \in Nat
      /\ Len(C) \in Nat /\ Len(T) \in Nat /\ Len(Shown) \in Nat
  <2>1. /\ T \in Tables /\ C \in Scopes /\ Len(T) >= 1 /\ Len(C) >= 2 /\ C[1] = Empty
        /\ Shown \in Scopes /\ Len(Shown) >= 1 /\ global \in BOOLEAN /\ n \in Nat
    BY <1>1, ShownNow DEF Grounded, LInv, Typed
  <2> QED
    BY <2>1 DEF Scopes, Tables
<1>3. PICK R, D, S : /\ R = Opened(T, {}, n) /\ D = Opened(C, Empty, n)
                     /\ S = Opened(Shown, Empty, n)
  OBVIOUS
<1>4. /\ table' = IF global THEN T ELSE R
      /\ context' = IF global THEN C ELSE D
  BY <1>0, <1>1, <1>3, PushScopesIs, PairIs
<1>5. R \in Tables /\ Len(R) = Len(T) + n
  BY <1>2, <1>3, OpenedTable DEF Extended
<1>6. D \in Scopes /\ Len(D) = Len(C) + n /\ D[1] = Empty
  <2>1. D \in Scopes /\ Extended(D, C, Empty, n)
    BY <1>2, <1>3, OpenedScopes
  <2> QED
    BY <1>2, <2>1 DEF Extended
<1>7. S \in Scopes /\ Len(S) = Len(Shown) + n
  BY <1>2, <1>3, OpenedScopes DEF Extended
<1>8. Going /\ command.op = "none" /\ failed = "none"
  BY <1>0, AheadReady DEF Ready
<1>9. Going' /\ Ahead' = IF global THEN Shown ELSE S
  BY <1>0, <1>3, <1>8 DEF Going, Ahead, AheadOf, Shown
<1>10. Typed'
  <2>1. CommandOK(command')
    BY <1>0, <1>2 DEF CommandOK, Commands, Ops, Bindable
  <2>2. logicKnown' \in BOOLEAN
    BY DEF ParsePush, EnsureLogic, LInv, Typed
  <2>3. table' \in Tables /\ context' \in Scopes
    BY <1>2, <1>4, <1>5, <1>6
  <2> QED
    BY <1>0, <2>1, <2>2, <2>3 DEF LInv, Typed
<1>11. Levels'
  <2>1. Len(table') >= 1 /\ Len(context') >= 2 /\ context'[1] = Empty
    BY <1>2, <1>4, <1>5, <1>6
  <2>2. Deep(table', context', IF global THEN Shown ELSE S)
    BY <1>1, <1>2, <1>4, <1>5, <1>6, <1>7 DEF Grounded, Deep
  <2> QED
    BY <1>0, <1>9, <2>1, <2>2 DEF LInv, Levels
<1>12. Owned' /\ Quiet' /\ Fresh' /\ RefusedTogether'
  BY <1>0, <1>8 DEF LInv, Owned, Quiet, Fresh, RefusedTogether
<1>13. ASSUME Matches, ~spared
       PROVE  Fits(table', context', IF global THEN Shown ELSE S, ~forgot)
  <2>1. PICK kept : kept = ~forgot
    OBVIOUS
  <2>2. Fits(T, C, Shown, kept)
    BY <1>1, <1>13, <2>1 DEF Grounded
  <2>3. Fits(R, D, S, kept)
    BY <1>2, <1>3, <2>2, OpenFits
  <2> QED
    BY <1>2, <1>4, <2>1, <2>2, <2>3
<1>14. Matches => Matches'
  BY <1>0, <1>9, <1>13 DEF Matches
<1>15. Outermost => Outermost'
  <2>1. resets' = resets
    BY DEF ParsePush
  <2>2. ASSUME Outermost, resets = 0, ~global PROVE OneMore(R, D, S)
    BY <1>1, <1>2, <1>5, <1>6, <1>7, <2>2 DEF Grounded, OneMore
  <2>3. ~global => table' = R /\ context' = D /\ Ahead' = S
    BY <1>4, <1>9
  <2> QED
    BY <1>0, <1>8, <2>1, <2>2, <2>3 DEF Outermost, FirstReset
<1> QED
  BY <1>10, <1>11, <1>12, <1>14, <1>15 DEF Preserved, LInv

\* A pop is parsed: the front end closes the levels at once, or throws because
\* it has too few, and then the engine has too few as well.
LEMMA KeepParsePop ==
  ASSUME LInv, NEW n \in 1..2, ParsePop(n) PROVE Preserved
<1>0. /\ Ready /\ logicSet' = TRUE
      /\ table' = PopScopes(WithLogic(Now), n).table
      /\ context' = PopScopes(WithLogic(Now), n).context
      /\ failed' = IF CanPop(WithLogic(Now), n) THEN "none" ELSE "parser"
      /\ command' = [op |-> "pop", n |-> n, arg |-> Builtin]
      /\ UNCHANGED <<global, scopes, stack, inited, spared, forgot>>
  BY DEF ParsePop, EnsureLogic, Parsed, engine, history, Become
<1>1. PICK T, C : WithLogic(Now) = Pair(T, C) /\ Grounded(T, C)
  BY <1>0, LogicGround
<1>2. /\ T \in Tables /\ C \in Scopes /\ Len(T) >= 1 /\ Len(C) >= 2 /\ C[1] = Empty
      /\ scopes \in Scopes /\ Len(scopes) >= 1 /\ global \in BOOLEAN /\ n \in Nat
      /\ Len(stack) = Len(scopes)
      /\ Len(C) \in Nat /\ Len(T) \in Nat /\ Len(scopes) \in Nat
      /\ Shown \in Scopes /\ Len(Shown) \in Nat /\ Len(Shown) >= 1
      /\ Len(Shown) <= Len(T) /\ Len(Shown) < Len(C) /\ (~global => Shown = scopes)
  <2>1. /\ T \in Tables /\ C \in Scopes /\ Len(T) >= 1 /\ Len(C) >= 2 /\ C[1] = Empty
        /\ scopes \in Scopes /\ Len(scopes) >= 1 /\ global \in BOOLEAN /\ n \in Nat
        /\ Len(stack) = Len(scopes)
    BY <1>1 DEF Grounded, LInv, Typed, Levels
  <2>2. /\ Shown \in Scopes /\ Len(Shown) \in Nat /\ Len(Shown) >= 1 /\ (~global => Shown = scopes)
    BY ShownNow
  <2>3. Len(Shown) <= Len(T) /\ Len(Shown) < Len(C)
    BY <1>1 DEF Grounded, Deep
  <2> QED
    BY <2>1, <2>2, <2>3 DEF Scopes, Tables
<1>3. CanPop(Pair(T, C), n) <=> global \/ n < Len(T)
  BY PairIs DEF CanPop
<1>4. CommandOK(command') /\ logicKnown' \in BOOLEAN
  <2>1. CommandOK(command')
    BY <1>0, <1>2 DEF CommandOK, Commands, Ops, Bindable
  <2>2. logicKnown' \in BOOLEAN
    BY DEF ParsePop, EnsureLogic, LInv, Typed
  <2> QED
    BY <2>1, <2>2
<1>5. Owned' /\ Quiet' /\ Fresh'
  <2>1. Going
    BY <1>0, AheadReady
  <2> QED
    BY <1>0, <2>1 DEF LInv, Owned, Quiet, Fresh
<1>8. /\ command.op = "none" /\ resets' = resets
      /\ Outermost => /\ resets' \in Nat
                      /\ command'.op \in {"reset", "reset-assertions"} => resets' >= 1
  <2>1. command.op = "none" /\ resets' = resets
    BY <1>0, AheadReady DEF ParsePop
  <2> QED
    BY <1>0, <2>1 DEF Outermost
<1>6. CASE ~CanPop(Pair(T, C), n)
  <2>1. /\ failed' = "parser" /\ table' = Closed(T, Len(T) - 1)
        /\ context' = Closed(C, Len(T) - 1)
    BY <1>0, <1>1, <1>6, PopScopesThrows, PairIs
  <2>2. ~global /\ n >= Len(T) /\ Len(scopes) <= Len(T)
    BY <1>2, <1>3, <1>6
  <2>3. PICK m : m = Len(T) - 1
    OBVIOUS
  <2>4. m \in Nat /\ m <= Len(T) /\ m <= Len(C) /\ Len(T) - m = 1
    BY <1>2, <2>2, <2>3
  <2>5. table' \in Tables /\ Len(table') = 1
    <3>1. table' \in Tables /\ Shortened(table', T, m)
      BY <1>2, <2>1, <2>3, <2>4, ClosedTable
    <3> QED
      BY <2>4, <3>1 DEF Shortened
  <2>6. context' \in Scopes
    BY <1>2, <2>1, <2>3, <2>4, ClosedScopes
  <2>7. Typed'
    BY <1>0, <1>4, <2>1, <2>5, <2>6 DEF LInv, Typed
  <2>8. ~Going'
    BY <2>1 DEF Going
  <2>9. Levels'
    BY <1>0, <2>5, <2>8 DEF LInv, Levels
  <2>10. RefusedTogether'
    BY <1>0, <1>2, <2>2 DEF RefusedTogether
  <2> QED
    BY <1>5, <1>8, <2>7, <2>8, <2>9, <2>10 DEF Preserved, LInv, Matches, Outermost
<1>7. CASE CanPop(Pair(T, C), n)
  <2>0. failed' = "none"
    BY <1>0, <1>1, <1>7
  <2>1. PICK R, D, S : R = Closed(T, n) /\ D = Closed(C, n) /\ S = Closed(Shown, n)
    OBVIOUS
  <2>2. /\ table' = IF global THEN T ELSE R
        /\ context' = IF global THEN C ELSE D
    BY <1>0, <1>1, <1>7, <2>1, PopScopesIs, PairIs
  <2>3. ~global => R \in Tables /\ Len(R) = Len(T) - n /\ Len(R) >= 1
    <3>1. ASSUME ~global PROVE R \in Tables /\ Len(R) = Len(T) - n /\ Len(R) >= 1
      <4>1. n <= Len(T)
        BY <1>2, <1>3, <1>7, <3>1
      <4>2. R \in Tables /\ Shortened(R, T, n)
        BY <1>2, <2>1, <4>1, ClosedTable
      <4> QED
        BY <1>2, <1>3, <1>7, <3>1, <4>2 DEF Shortened
    <3> QED
      BY <3>1
  <2>4. D \in Scopes /\ Shortened(D, C, n)
    <3>1. n <= Len(C)
      BY <1>2
    <3> QED
      BY <1>2, <2>1, <3>1, ClosedScopes
  <2>5. Typed'
    <3>1. table' \in Tables /\ context' \in Scopes
      BY <1>2, <2>2, <2>3, <2>4
    <3> QED
      BY <1>0, <1>4, <2>0, <3>1 DEF LInv, Typed
  <2>6. RefusedTogether'
    BY <2>0 DEF RefusedTogether
  <2>7. CASE n >= Len(scopes)
    <3>1. ~Going'
      BY <1>0, <2>7 DEF Going
    <3>2. Len(table') >= 1
      BY <1>2, <2>2, <2>3
    <3>3. Levels'
      BY <1>0, <3>1, <3>2 DEF LInv, Levels
    <3> QED
      BY <1>5, <1>8, <2>5, <2>6, <3>1, <3>3 DEF Preserved, LInv, Matches, Outermost
  <2>8. CASE n < Len(scopes)
    <3>0. PICK Q : Q = IF global THEN Shown ELSE S
      OBVIOUS
    <3>1. Going' /\ Ahead' = Q
      <4>1. Shown' = Shown
        BY <1>0 DEF Shown
      <4> QED
        BY <1>0, <2>0, <2>1, <2>8, <3>0, <4>1 DEF Going, Ahead, AheadOf
    <3>2. ~global => n < Len(Shown) /\ S \in Scopes /\ Len(S) = Len(Shown) - n
      <4>1. ASSUME ~global PROVE n < Len(Shown) /\ S \in Scopes /\ Len(S) = Len(Shown) - n
        <5>1. n < Len(Shown) /\ n <= Len(Shown)
          BY <1>2, <2>8, <4>1
        <5>2. S \in Scopes /\ Shortened(S, Shown, n)
          BY <1>2, <2>1, <5>1, ClosedScopes
        <5> QED
          BY <5>1, <5>2 DEF Shortened
      <4> QED
        BY <4>1
    <3>3. ~global => Len(D) = Len(C) - n /\ Len(D) >= 2 /\ D[1] = Empty
      BY <1>2, <2>4, <3>2 DEF Shortened
    <3>4. Len(table') >= 1 /\ Len(context') >= 2 /\ context'[1] = Empty
      BY <1>2, <2>2, <2>3, <3>3
    <3>5. Deep(table', context', Q)
      <4>1. CASE global
        BY <1>2, <2>2, <3>0, <4>1 DEF Deep
      <4>2. CASE ~global
        <5>1. Q = S /\ table' = R /\ context' = D
          BY <2>2, <3>0, <4>2
        <5>2. Len(S) = Len(Shown) - n /\ Len(R) = Len(T) - n /\ Len(D) = Len(C) - n
          BY <2>3, <3>2, <3>3, <4>2
        <5> QED
          BY <1>2, <5>1, <5>2 DEF Deep
      <4> QED
        BY <1>2, <4>1, <4>2
    <3>6. Levels'
      BY <1>0, <3>1, <3>4, <3>5 DEF LInv, Levels
    <3>7. ASSUME Matches, ~spared PROVE Fits(table', context', Q, ~forgot)
      <4>1. PICK kept : kept = ~forgot
        OBVIOUS
      <4>2. Fits(T, C, Shown, kept)
        BY <1>1, <3>7, <4>1 DEF Grounded
      <4>3. ~global => Fits(R, D, S, kept)
        BY <1>2, <2>1, <3>2, <4>2, CloseFits
      <4> QED
        BY <1>2, <2>2, <3>0, <4>1, <4>2, <4>3
    <3>8. Matches => Matches'
      BY <1>0, <3>1, <3>7 DEF Matches
    <3>9. Outermost => Outermost'
      <4>1. ASSUME Outermost, resets = 0, ~global PROVE OneMore(R, D, S)
        <5>1. Len(Shown) < Len(T) /\ Len(Shown) + 1 < Len(C)
          BY <1>1, <4>1 DEF Grounded, OneMore
        <5>2. Len(S) = Len(Shown) - n /\ Len(R) = Len(T) - n /\ Len(D) = Len(C) - n
          BY <2>3, <3>2, <3>3, <4>1
        <5> QED
          BY <1>2, <5>1, <5>2 DEF OneMore
      <4>2. ~global => table' = R /\ context' = D /\ Ahead' = S
        BY <2>2, <3>0, <3>1
      <4> QED
        BY <1>0, <1>8, <4>1, <4>2 DEF Outermost, FirstReset
    <3> QED
      BY <1>5, <2>5, <2>6, <3>6, <3>8, <3>9 DEF Preserved, LInv
  <2> QED
    BY <1>2, <2>7, <2>8
<1> QED
  BY <1>6, <1>7

\* (reset) is parsed: the front end keeps everything until it is executed.
LEMMA KeepParseReset == ASSUME LInv, ParseReset PROVE Preserved
<1>0. /\ logicSet' = FALSE
      /\ command' = [op |-> "reset", n |-> 0, arg |-> Builtin]
      /\ UNCHANGED <<table, context, logicKnown, global, failed, scopes, stack, inited,
                     spared, forgot>>
  BY DEF ParseReset, Parsed, front, engine, history
<1>1. Going /\ Ahead = Shown /\ failed = "none" /\ command.op = "none"
  BY AheadReady DEF ParseReset, Ready
<1>2. Going' /\ Ahead' = Shown
  BY <1>0, <1>1 DEF Going, Ahead, AheadOf, Shown
<1>3. Typed'
  <2>1. CommandOK(command')
    BY <1>0 DEF CommandOK, Commands, Ops, Bindable
  <2>2. logicSet' \in BOOLEAN
    BY <1>0
  <2> QED
    BY <1>0, <2>1, <2>2 DEF LInv, Typed
<1>4. Levels' /\ Owned' /\ Quiet' /\ Fresh' /\ RefusedTogether'
  BY <1>0, <1>1, <1>2 DEF LInv, Levels, Owned, Quiet, Fresh, RefusedTogether
<1>5. Matches => Matches'
  BY <1>0, <1>1, <1>2 DEF Matches
<1>6. Outermost => Outermost'
  <2>1. resets' = resets + 1
    BY DEF ParseReset
  <2> QED
    BY <1>0, <2>1 DEF Outermost, FirstReset
<1> QED
  BY <1>3, <1>4, <1>5, <1>6 DEF Preserved, LInv

\* (reset-assertions) is parsed.
LEMMA KeepParseResetAssertions == ASSUME LInv, ParseResetAssertions PROVE Preserved
<1>0. /\ command' = [op |-> "reset-assertions", n |-> 0, arg |-> Builtin]
      /\ UNCHANGED <<table, context, logicSet, logicKnown, global, failed, scopes, stack, inited,
                     spared, forgot>>
  BY DEF ParseResetAssertions, Parsed, front, settings, engine, history
<1>1. Going /\ Ahead = Shown /\ failed = "none" /\ command.op = "none"
  BY AheadReady DEF ParseResetAssertions, Ready
<1>2. Going' /\ Ahead' = Shown
  BY <1>0, <1>1 DEF Going, Ahead, AheadOf, Shown
<1>3. Typed'
  <2>1. CommandOK(command')
    BY <1>0 DEF CommandOK, Commands, Ops, Bindable
  <2> QED
    BY <1>0, <2>1 DEF LInv, Typed
<1>4. Levels' /\ Owned' /\ Quiet' /\ Fresh' /\ RefusedTogether'
  BY <1>0, <1>1, <1>2 DEF LInv, Levels, Owned, Quiet, Fresh, RefusedTogether
<1>5. Matches => Matches'
  BY <1>0, <1>1, <1>2 DEF Matches
<1>6. Outermost => Outermost'
  <2>1. resets' = resets + 1
    BY DEF ParseResetAssertions
  <2> QED
    BY <1>0, <1>1, <1>2, <2>1 DEF Outermost, FirstReset
<1> QED
  BY <1>3, <1>4, <1>5, <1>6 DEF Preserved, LInv

\* No command is at hand any more.
LEMMA IdleIs == CommandOK(Idle) /\ Idle.op = "none"
BY DEF CommandOK, Idle, Commands, Ops, Bindable

\* set-logic is executed, or an option is set.
LEMMA KeepExecSetting == ASSUME LInv, ExecSetLogic \/ ExecSetOption PROVE Preserved
<1>0. /\ logicKnown' \in BOOLEAN /\ command' = Idle /\ failed = "none" /\ Going
      /\ command.op \in {"set-logic", "set-option"}
      /\ UNCHANGED <<table, context, logicSet, global, failed, scopes, stack, inited,
                     spared, forgot>>
  BY DEF ExecSetLogic, ExecSetOption, Executing, Done, front, settings, engine, history, Going,
         LInv, Typed
<1>1. Ahead = Shown
  BY <1>0 DEF Ahead, AheadOf
<1>2. Going' /\ Ahead' = Shown
  BY <1>0, IdleIs DEF Going, Ahead, AheadOf, Shown
<1>3. Typed'
  BY <1>0, IdleIs DEF LInv, Typed
<1>4. Levels' /\ Owned' /\ Quiet' /\ Fresh' /\ RefusedTogether'
  BY <1>0, <1>1, <1>2, IdleIs DEF LInv, Levels, Owned, Quiet, Fresh, RefusedTogether
<1>5. Matches => Matches'
  BY <1>0, <1>1, <1>2 DEF Matches
<1>6. Outermost => Outermost'
  <2>1. resets' = resets
    BY DEF ExecSetLogic, ExecSetOption
  <2>2. logicKnown' /\ ~logicKnown => logicSet
    BY <1>0 DEF ExecSetLogic, ExecSetOption, Executing, settings, LInv, Quiet, Typed
  <2> QED
    BY <1>0, <1>1, <1>2, <2>1, <2>2, IdleIs DEF Outermost, FirstReset, LInv, Typed
<1> QED
  BY <1>3, <1>4, <1>5, <1>6 DEF Preserved, LInv

\* The engine refuses a pop or an option.
LEMMA KeepExecRefused ==
  ASSUME LInv, ExecPopRefused \/ ExecSetOptionRefused PROVE Preserved
<1>0. /\ failed' = "engine"
      /\ UNCHANGED <<table, context, logicSet, logicKnown, global, command, scopes, stack, inited,
                     spared, forgot>>
  BY DEF ExecPopRefused, ExecSetOptionRefused, front, settings, engine, history
<1>1. ~Going'
  BY <1>0 DEF Going
<1>2. Typed'
  BY <1>0 DEF LInv, Typed
<1>3. Levels' /\ Owned' /\ Quiet' /\ Fresh' /\ RefusedTogether'
  BY <1>0, <1>1 DEF LInv, Levels, Owned, Quiet, Fresh, RefusedTogether
<1>4. Outermost => Outermost'
  <2>1. resets' = resets
    BY DEF ExecPopRefused, ExecSetOptionRefused
  <2> QED
    BY <1>0, <1>1, <2>1 DEF Outermost
<1> QED
  BY <1>1, <1>2, <1>3, <1>4 DEF Preserved, LInv, Matches

\* The first level is a level.
LEMMA FirstScope == ASSUME NEW S \in Scopes, Len(S) = 1 PROVE S[1] \in Scope
<1>1. S \in Seq(Scope) /\ 1 \in 1..Len(S)
  BY DEF Scopes
<1> QED
  BY <1>1

\* What is declared at the owner's level is declared at the last that is shown.
LEMMA ShownDeclared ==
  ASSUME NEW S \in Scopes, Len(S) >= 1, NEW g \in BOOLEAN, NEW x \in Symbols,
         NEW S2, S2 = DeclaredAt(S, IF g THEN 1 ELSE Len(S), x),
         NEW U, U = ShownOf(S, g), NEW V, V = DeclaredAt(U, Len(U), x)
  PROVE  ShownOf(S2, g) = V
<1>1. CASE ~g
  BY <1>1 DEF ShownOf
<1>2. CASE g
  <2>1. PICK R : R = ShownOf(S2, g)
    OBVIOUS
  <2>2. 1 \in 1..Len(S) /\ S2 = DeclaredAt(S, 1, x) /\ S[1] \in Scope
    BY <1>2 DEF Scopes
  <2>3. S2 \in Scopes /\ Len(S2) = Len(S) /\ S2[1].decls = S[1].decls \cup {x} /\ S2[1].names = S[1].names
    BY <2>2, DeclaredIs
  <2>4. U \in Scopes /\ Len(U) = 1 /\ U[1] = S[1] /\ 1 \in 1..Len(U)
    <3>1. U \in Scopes /\ Len(U) = 1 /\ U[1] = S[1]
      BY <1>2, ShownIs
    <3> QED
      BY <3>1
  <2>5. V = DeclaredAt(U, 1, x)
    BY <2>4
  <2>6. V \in Scopes /\ Len(V) = 1 /\ V[1].decls = U[1].decls \cup {x} /\ V[1].names = U[1].names
    BY <2>4, <2>5, DeclaredIs
  <2>7. R \in Scopes /\ Len(R) = 1 /\ R[1] = S2[1]
    <3>1. Len(S2) >= 1
      BY <2>3
    <3> QED
      BY <1>2, <2>1, <2>3, <3>1, ShownIs
  <2>8. R[1] \in Scope /\ V[1] \in Scope
    BY <2>6, <2>7, FirstScope
  <2>9. R[1] = V[1]
    <3>1. R[1].names = V[1].names /\ R[1].decls = V[1].decls
      BY <2>3, <2>4, <2>6, <2>7
    <3> QED
      BY <2>8, <3>1, ScopeSame
  <2>10. R \in Seq(Scope) /\ V \in Seq(Scope) /\ \A i \in 1..Len(R) : R[i] = V[i]
    BY <2>6, <2>7, <2>9 DEF Scopes
  <2>11. R = V
    BY <2>6, <2>7, <2>10, SeqEqual
  <2> QED
    BY <2>1, <2>11
<1> QED
  BY <1>1, <1>2

\* What is named at the owner's level is named at the last that is shown.
LEMMA ShownNamed ==
  ASSUME NEW S \in Scopes, Len(S) >= 1, NEW g \in BOOLEAN, NEW x \in Names,
         NEW S2, S2 = NamedAt(S, IF g THEN 1 ELSE Len(S), x),
         NEW U, U = ShownOf(S, g), NEW V, V = NamedAt(U, Len(U), x)
  PROVE  ShownOf(S2, g) = V
<1>1. CASE ~g
  BY <1>1 DEF ShownOf
<1>2. CASE g
  <2>1. PICK R : R = ShownOf(S2, g)
    OBVIOUS
  <2>2. 1 \in 1..Len(S) /\ S2 = NamedAt(S, 1, x) /\ S[1] \in Scope
    BY <1>2 DEF Scopes
  <2>3. S2 \in Scopes /\ Len(S2) = Len(S) /\ S2[1].names = S[1].names \cup {x} /\ S2[1].decls = S[1].decls
    BY <2>2, NamedIs
  <2>4. U \in Scopes /\ Len(U) = 1 /\ U[1] = S[1] /\ 1 \in 1..Len(U)
    <3>1. U \in Scopes /\ Len(U) = 1 /\ U[1] = S[1]
      BY <1>2, ShownIs
    <3> QED
      BY <3>1
  <2>5. V = NamedAt(U, 1, x)
    BY <2>4
  <2>6. V \in Scopes /\ Len(V) = 1 /\ V[1].names = U[1].names \cup {x} /\ V[1].decls = U[1].decls
    BY <2>4, <2>5, NamedIs
  <2>7. R \in Scopes /\ Len(R) = 1 /\ R[1] = S2[1]
    <3>1. Len(S2) >= 1
      BY <2>3
    <3> QED
      BY <1>2, <2>1, <2>3, <3>1, ShownIs
  <2>8. R[1] \in Scope /\ V[1] \in Scope
    BY <2>6, <2>7, FirstScope
  <2>9. R[1] = V[1]
    <3>1. R[1].names = V[1].names /\ R[1].decls = V[1].decls
      BY <2>3, <2>4, <2>6, <2>7
    <3> QED
      BY <2>8, <3>1, ScopeSame
  <2>10. R \in Seq(Scope) /\ V \in Seq(Scope) /\ \A i \in 1..Len(R) : R[i] = V[i]
    BY <2>6, <2>7, <2>9 DEF Scopes
  <2>11. R = V
    BY <2>6, <2>7, <2>10, SeqEqual
  <2> QED
    BY <2>1, <2>11
<1> QED
  BY <1>1, <1>2

\* A declaration is executed: it is bound in the front end and in the engine.
LEMMA KeepExecDeclare == ASSUME LInv, ExecDeclare PROVE Preserved
<1>1. PICK s : s = command.arg
  OBVIOUS
<1>0. /\ command.op = "declare" /\ failed = "none" /\ command' = Idle
      /\ table' = AddModelDeclaration(Bind(Now, s), s).table
      /\ context' = AddModelDeclaration(Bind(Now, s), s).context
      /\ scopes' = DeclaredAt(scopes, IF global THEN 1 ELSE Len(scopes), s)
      /\ UNCHANGED <<logicSet, logicKnown, global, failed, stack, inited, spared, forgot>>
  BY <1>1 DEF ExecDeclare, Executing, Done, Become, settings, engine, history, DeclaredAt, Owner
<1>2. Going /\ Ahead = Shown /\ logicSet
  BY <1>0 DEF Going, Ahead, AheadOf, LInv, Quiet
<1>3. /\ table \in Tables /\ context \in Scopes /\ scopes \in Scopes
      /\ Len(table) >= 1 /\ Len(context) >= 2 /\ context[1] = Empty /\ Len(scopes) >= 1
      /\ Len(context) \in Nat /\ Len(scopes) \in Nat
      /\ global \in BOOLEAN /\ s \in Symbols /\ s \in Bindable
      /\ Shown = ShownOf(scopes, global) /\ Shown \in Scopes /\ Len(Shown) >= 1
  <2>1. /\ table \in Tables /\ context \in Scopes /\ scopes \in Scopes
        /\ Len(table) >= 1 /\ Len(context) >= 2 /\ context[1] = Empty /\ Len(scopes) >= 1
        /\ global \in BOOLEAN /\ s \in Symbols
    BY <1>0, <1>1, <1>2 DEF LInv, Typed, Levels, CommandOK
  <2> QED
    BY <2>1, ShownNow DEF Scopes, Bindable
<1>4. PICK R, D, S, Q : /\ R = BoundTo(table, s) /\ D = DeclaredAt(context, Len(context), s)
                        /\ S = DeclaredAt(scopes, IF global THEN 1 ELSE Len(scopes), s)
                        /\ Q = DeclaredAt(Shown, Len(Shown), s)
  OBVIOUS
<1>5. table' = R /\ context' = D /\ scopes' = S
  <2>1. Now = Pair(table, context)
    BY DEF Now, Pair
  <2> QED
    BY <1>0, <1>4, <2>1, BindIs, AddModelDeclarationIs, PairIs
<1>6. Going' /\ Ahead' = Q
  <2>1. ShownOf(S, global) = Q
    BY <1>3, <1>4, ShownDeclared
  <2>2. Shown' = Q
    BY <1>0, <1>5, <2>1 DEF Shown, ShownOf
  <2> QED
    BY <1>0, <2>2, IdleIs DEF Going, Ahead, AheadOf
<1>7. R \in Tables /\ Len(R) = Len(table)
  BY <1>3, <1>4, SymsBound
<1>8. D \in Scopes /\ Len(D) = Len(context) /\ D[1] = Empty
  <2>1. D \in Scopes /\ SameBelow(D, context)
    BY <1>3, <1>4, DeclaredLast
  <2> QED
    BY <1>3, <2>1 DEF SameBelow
<1>9. /\ S \in Scopes /\ Len(S) = Len(scopes)
      /\ \A i \in 1..Len(scopes) : S[i].names = scopes[i].names
  <2>1. PICK k \in 1..Len(scopes) : k = IF global THEN 1 ELSE Len(scopes)
    BY <1>3
  <2>2. /\ S \in Scopes /\ Len(S) = Len(scopes)
        /\ \A i \in 1..Len(scopes) : i # k => S[i] = scopes[i]
        /\ S[k].names = scopes[k].names
    BY <1>3, <1>4, <2>1, DeclaredIs
  <2> QED
    BY <2>2
<1>10. Typed'
  BY <1>0, <1>5, <1>7, <1>8, <1>9, IdleIs DEF LInv, Typed
<1>11. Levels'
  <2>1. Len(Q) = Len(Shown)
    BY <1>3, <1>4, DeclaredLast DEF SameBelow
  <2>2. Deep(R, D, Q)
    BY <1>2, <1>7, <1>8, <2>1 DEF LInv, Levels, Deep
  <2> QED
    BY <1>0, <1>3, <1>5, <1>6, <1>7, <1>8, <1>9, <2>2 DEF LInv, Levels
<1>12. Owned'
  BY <1>0, <1>2, <1>3, <1>5, <1>9 DEF LInv, Owned
<1>13. Quiet' /\ Fresh' /\ RefusedTogether'
  <2>1. Fresh'
    BY <1>0, <1>3, <1>5, <1>9 DEF LInv, Fresh
  <2> QED
    BY <1>0, <1>2, <2>1 DEF Quiet, RefusedTogether
<1>14. ASSUME Matches, ~spared PROVE Fits(R, D, Q, ~forgot)
  <2>1. PICK kept : kept = ~forgot
    OBVIOUS
  <2>2. Fits(table, context, Shown, kept)
    BY <1>2, <1>14, <2>1 DEF Matches
  <2>3. Fits(R, D, Q, kept)
    BY <1>3, <1>4, <2>2, DeclareFits
  <2> QED
    BY <2>1, <2>3
<1>15. Matches => Matches'
  BY <1>0, <1>5, <1>6, <1>14 DEF Matches
<1>16. Outermost => Outermost'
  <2>1. resets' = resets
    BY DEF ExecDeclare
  <2>2. Len(Q) = Len(Shown)
    BY <1>3, <1>4, DeclaredLast DEF SameBelow
  <2>3. ASSUME Outermost, resets = 0, ~global PROVE OneMore(R, D, Q)
    BY <1>2, <1>7, <1>8, <2>2, <2>3 DEF Outermost, FirstReset, OneMore
  <2> QED
    BY <1>0, <1>2, <1>5, <1>6, <2>1, <2>3, IdleIs DEF Outermost, FirstReset
<1> QED
  BY <1>10, <1>11, <1>12, <1>13, <1>15, <1>16 DEF Preserved, LInv

\* The engine's levels are sequences of sets of assertions.
Stacks == Seq(SUBSET Names)

\* The engine adds an assertion to its last level.
LEMMA EngineAdds ==
  ASSUME NEW s \in Stacks, Len(s) >= 1, NEW t \in Names,
         NEW R, R = Append(Front(s), Last(s) \cup {t})
  PROVE  R \in Stacks /\ SameBelow(R, s) /\ R[Len(s)] = s[Len(s)] \cup {t}
<1>1. s # << >> /\ Last(s) = s[Len(s)] /\ s[Len(s)] \cup {t} \in SUBSET Names
  BY DEF Last, Stacks
<1> QED
  BY <1>1, ReplaceLast DEF Stacks, SameBelow

\* One level is opened, and then the others.
LEMMA OpenedOne ==
  ASSUME NEW S \in Scopes, NEW n \in Nat \ {0}, NEW S2, S2 = Append(S, Empty)
  PROVE  /\ S2 \in Scopes /\ Extended(S2, S, Empty, 1)
         /\ Opened(S2, Empty, n - 1) = Opened(S, Empty, n)
         /\ n = 1 => S2 = Opened(S, Empty, n)
<1>1. S2 \in Scopes /\ Extended(S2, S, Empty, 1)
  <2>1. S \in Seq(Scope) /\ Empty \in Scope /\ Len(S) \in Nat
    BY ScopeParts DEF Scopes
  <2> QED
    BY <2>1, Appended DEF Scopes, Extended
<1>2. PICK U, V : U = Opened(S2, Empty, n - 1) /\ V = Opened(S, Empty, n)
  OBVIOUS
<1>3. n - 1 \in Nat /\ n \in Nat /\ Len(S) \in Nat /\ Len(S2) = Len(S) + 1
  BY <1>1 DEF Scopes, Extended
<1>4. U \in Scopes /\ Extended(U, S2, Empty, n - 1)
  BY <1>1, <1>2, <1>3, OpenedScopes
<1>5. V \in Scopes /\ Extended(V, S, Empty, n)
  BY <1>2, <1>3, OpenedScopes
<1>6. ASSUME NEW W \in Scopes, Len(W) = Len(V),
             \A i \in 1..Len(S) : W[i] = S[i],
             \A i \in 1..Len(W) : i \notin 1..Len(S) => W[i] = Empty
      PROVE  W = V
  <2>1. ASSUME NEW i \in 1..Len(V) PROVE W[i] = V[i]
    <3>1. CASE i \in 1..Len(S)
      BY <1>5, <1>6, <3>1 DEF Extended
    <3>2. CASE i \notin 1..Len(S)
      <4>1. i - Len(S) \in 1..n /\ i = Len(S) + (i - Len(S))
        BY <1>3, <1>5, <3>2 DEF Extended
      <4> QED
        BY <1>5, <1>6, <3>2, <4>1 DEF Extended
    <3> QED
      BY <3>1, <3>2
  <2>2. W \in Seq(Scope) /\ V \in Seq(Scope)
    BY <1>5, <1>6 DEF Scopes
  <2> QED
    BY <1>6, <2>1, <2>2, SeqEqual
<1>7. U = V
  <2>1. Len(U) = Len(V)
    BY <1>3, <1>4, <1>5 DEF Extended
  <2>2. \A i \in 1..Len(S) : U[i] = S[i]
    <3>1. \A i \in 1..Len(S) : i \in 1..Len(S2) /\ S2[i] = S[i]
      BY <1>1, <1>3 DEF Extended
    <3> QED
      BY <1>4, <3>1 DEF Extended
  <2>3. ASSUME NEW i \in 1..Len(U), i \notin 1..Len(S) PROVE U[i] = Empty
    <3>1. CASE i = Len(S) + 1
      <4>1. i \in 1..Len(S2) /\ S2[Len(S) + 1] = Empty
        BY <1>1, <1>3, <3>1 DEF Extended
      <4> QED
        BY <1>4, <3>1, <4>1 DEF Extended
    <3>2. CASE i # Len(S) + 1
      <4>1. i - Len(S2) \in 1..(n - 1) /\ i = Len(S2) + (i - Len(S2))
        BY <1>3, <1>4, <2>3, <3>2 DEF Extended
      <4> QED
        BY <1>4, <4>1 DEF Extended
    <3> QED
      BY <3>1, <3>2
  <2> QED
    BY <1>4, <1>6, <2>1, <2>2, <2>3
<1>8. ASSUME n = 1 PROVE S2 = V
  <2>1. Len(S2) = Len(V)
    BY <1>3, <1>5, <1>8 DEF Extended
  <2>2. \A i \in 1..Len(S) : S2[i] = S[i]
    BY <1>1 DEF Extended
  <2>3. ASSUME NEW i \in 1..Len(S2), i \notin 1..Len(S) PROVE S2[i] = Empty
    <3>1. i = Len(S) + 1 /\ 1 \in 1..1
      BY <1>3, <2>3
    <3> QED
      BY <1>1, <3>1 DEF Extended
  <2> QED
    BY <1>1, <1>6, <2>1, <2>2, <2>3
<1> QED
  BY <1>1, <1>2, <1>7, <1>8

\* One level is closed, and then the others.
LEMMA ClosedOne ==
  ASSUME NEW S \in Scopes, NEW n \in Nat \ {0}, n < Len(S), NEW S2, S2 = Front(S)
  PROVE  /\ S2 \in Scopes /\ Shortened(S2, S, 1)
         /\ Closed(S2, n - 1) = Closed(S, n)
         /\ n = 1 => S2 = Closed(S, n)
<1>1. n \in Nat /\ n - 1 \in Nat /\ 1 \in Nat /\ Len(S) \in Nat /\ 1 <= Len(S) /\ n <= Len(S)
  BY DEF Scopes
<1>2. S2 = Closed(S, 1)
  BY DEF Front, Closed
<1>3. S2 \in Scopes /\ Shortened(S2, S, 1)
  BY <1>1, <1>2, ClosedScopes
<1>4. PICK U, V : U = Closed(S2, n - 1) /\ V = Closed(S, n)
  OBVIOUS
<1>5. U \in Scopes /\ Shortened(U, S2, n - 1)
  <2>1. n - 1 <= Len(S2)
    BY <1>1, <1>3 DEF Shortened
  <2> QED
    BY <1>1, <1>3, <1>4, <2>1, ClosedScopes
<1>6. V \in Scopes /\ Shortened(V, S, n)
  BY <1>1, <1>4, ClosedScopes
<1>7. U = V
  <2>1. Len(U) = Len(V) /\ Len(V) = Len(S) - n
    BY <1>1, <1>3, <1>5, <1>6 DEF Shortened
  <2>2. ASSUME NEW i \in 1..Len(V) PROVE U[i] = V[i]
    <3>1. i \in 1..(Len(S2) - (n - 1)) /\ i \in 1..(Len(S) - 1) /\ i \in 1..(Len(S) - n)
      BY <1>1, <1>3, <2>1 DEF Shortened
    <3> QED
      BY <1>3, <1>5, <1>6, <3>1 DEF Shortened
  <2>3. U \in Seq(Scope) /\ V \in Seq(Scope)
    BY <1>5, <1>6 DEF Scopes
  <2> QED
    BY <2>1, <2>2, <2>3, SeqEqual
<1> QED
  BY <1>2, <1>3, <1>4, <1>7

\* A named assertion is executed: it enters the engine.
LEMMA KeepExecAssert == ASSUME LInv, ExecAssert PROVE Preserved
<1>1. PICK t : t = command.arg
  OBVIOUS
<1>0. /\ command.op = "assert" /\ failed = "none" /\ command' = Idle
      /\ stack' = Append(Front(stack), Last(stack) \cup {t})
      /\ scopes' = NamedAt(scopes, IF global THEN 1 ELSE Len(scopes), t)
      /\ inited' = TRUE
      /\ UNCHANGED <<table, context, logicSet, logicKnown, global, failed, spared, forgot>>
  BY <1>1 DEF ExecAssert, Executing, Done, settings, front, history, BeginCall, NamedAt, Owner,
              Engine!AddFormula, Engine!Front, Engine!Last, Front, Last
<1>2. Going /\ logicSet
  BY <1>0 DEF Going, LInv, Quiet
<1>5. /\ scopes \in Scopes /\ stack \in Stacks /\ Len(scopes) >= 1 /\ Len(stack) = Len(scopes)
      /\ global \in BOOLEAN /\ t \in Names /\ Len(scopes) \in Nat
  <2>1. /\ scopes \in Scopes /\ stack \in Stacks /\ Len(scopes) >= 1
        /\ Len(stack) = Len(scopes) /\ global \in BOOLEAN /\ t \in Names
    BY <1>0, <1>1 DEF LInv, Typed, Levels, CommandOK, Stacks
  <2> QED
    BY <2>1 DEF Scopes
<1>3. Going' /\ Ahead' = Ahead
  <2>1. PICK Q : Q = NamedAt(Shown, Len(Shown), t)
    OBVIOUS
  <2>2. Shown = ShownOf(scopes, global)
    BY ShownNow
  <2>3. ShownOf(scopes', global) = Q
    BY <1>0, <1>5, <2>1, <2>2, ShownNamed
  <2>4. Shown' = Q
    BY <1>0, <2>3 DEF Shown, ShownOf
  <2>5. Ahead = Q
    BY <1>0, <1>1, <2>1 DEF Ahead, AheadOf
  <2> QED
    BY <1>0, <2>4, <2>5, IdleIs DEF Going, Ahead, AheadOf
<1>6. PICK k \in 1..Len(scopes) : k = IF global THEN 1 ELSE Len(scopes)
  BY <1>5
<1>7. /\ scopes' \in Scopes /\ Len(scopes') = Len(scopes)
      /\ \A i \in 1..Len(scopes) : i # k => scopes'[i] = scopes[i]
      /\ scopes'[k].names = scopes[k].names \cup {t}
  <2>1. scopes' = NamedAt(scopes, k, t)
    BY <1>0, <1>6
  <2> QED
    BY <1>5, <2>1, NamedIs
<1>8. /\ stack' \in Stacks /\ Len(stack') = Len(stack)
      /\ \A i \in 1..(Len(stack) - 1) : stack'[i] = stack[i]
      /\ stack'[Len(stack)] = stack[Len(stack)] \cup {t}
  <2>1. Len(stack) >= 1
    BY <1>5
  <2>2. /\ stack' \in Stacks /\ SameBelow(stack', stack)
        /\ stack'[Len(stack)] = stack[Len(stack)] \cup {t}
    BY <1>0, <1>5, <2>1, EngineAdds
  <2> QED
    BY <2>2 DEF SameBelow
<1>9. Typed'
  BY <1>0, <1>7, <1>8, IdleIs DEF LInv, Typed, Stacks
<1>10. Levels'
  <2>1. Len(scopes') >= 1 /\ Len(stack') = Len(scopes')
    BY <1>5, <1>7, <1>8
  <2> QED
    BY <1>0, <1>2, <1>3, <2>1 DEF LInv, Levels
<1>11. Owned'
  <2>1. ASSUME NEW i \in 1..Len(scopes)
        PROVE  IF global THEN stack'[i] \subseteq scopes'[1].names
               ELSE stack'[i] = scopes'[i].names
    <3>1. IF global THEN stack[i] \subseteq scopes[1].names ELSE stack[i] = scopes[i].names
      BY <1>2 DEF LInv, Owned
    <3>2. i \in 1..(Len(stack) - 1) \/ i = Len(stack)
      BY <1>5
    <3>3. CASE global
      BY <1>5, <1>6, <1>7, <1>8, <3>1, <3>2, <3>3
    <3>4. CASE ~global
      <4>1. CASE i = Len(scopes)
        BY <1>5, <1>6, <1>7, <1>8, <3>1, <3>4, <4>1
      <4>2. CASE i # Len(scopes)
        BY <1>5, <1>6, <1>7, <1>8, <3>1, <3>2, <3>4, <4>2
      <4> QED
        BY <4>1, <4>2
    <3> QED
      BY <3>3, <3>4
  <2> QED
    BY <1>0, <1>7, <2>1 DEF Owned
<1>12. Quiet' /\ Fresh' /\ RefusedTogether'
  BY <1>0, <1>2 DEF Quiet, Fresh, RefusedTogether
<1>13. Matches => Matches'
  BY <1>0, <1>2, <1>3 DEF Matches
<1>14. Outermost => Outermost'
  <2>1. resets' = resets
    BY DEF ExecAssert
  <2> QED
    BY <1>0, <1>2, <1>3, <2>1, IdleIs DEF Outermost, FirstReset
<1> QED
  BY <1>9, <1>10, <1>11, <1>12, <1>13, <1>14 DEF Preserved, LInv

\* One level of a push or a pop is done.
LEMMA OneLevelIs ==
  ASSUME CommandOK(command), command.op \in {"push", "pop"}, OneLevelDone
  PROVE  /\ CommandOK(command') /\ command.n \in 1..2
         /\ command.n = 1 => command' = Idle /\ command'.op = "none"
         /\ command.n # 1 => command'.op = command.op /\ command'.n = command.n - 1
<1>1. command \in Commands /\ command.n \in 1..2
  BY DEF CommandOK
<1>2. CASE command.n = 1
  BY <1>1, <1>2, IdleIs DEF OneLevelDone
<1>3. CASE command.n # 1
  <2>1. command' = [command EXCEPT !.n = command.n - 1]
    BY <1>3 DEF OneLevelDone
  <2>2. command.n - 1 = 1
    BY <1>1, <1>3
  <2>3. command' \in Commands /\ command'.op = command.op /\ command'.n = 1
    BY <1>1, <2>1, <2>2 DEF Commands
  <2> QED
    BY <1>1, <1>3, <2>2, <2>3 DEF CommandOK
<1> QED
  BY <1>1, <1>2, <1>3

\* The engine opens a level.
LEMMA KeepExecPush == ASSUME LInv, ExecPush PROVE Preserved
<1>1. PICK n : n = command.n
  OBVIOUS
<1>0. /\ command.op = "push" /\ failed = "none" /\ stack' = Append(stack, {})
      /\ scopes' = Append(scopes, Empty) /\ OneLevelDone
      /\ inited' = TRUE
      /\ UNCHANGED <<table, context, logicSet, logicKnown, global, failed, spared, forgot>>
  BY DEF ExecPush, Executing, settings, front, history, BeginCall, Engine!Push
<1>2. Going /\ logicSet
  BY <1>0 DEF Going, LInv, Quiet
<1>3. /\ CommandOK(command') /\ n \in 1..2
      /\ n = 1 => command' = Idle /\ command'.op = "none"
      /\ n # 1 => command'.op = "push" /\ command'.n = n - 1
  BY <1>0, <1>1, OneLevelIs DEF LInv, Typed
<1>5. /\ scopes \in Scopes /\ stack \in Stacks /\ Len(scopes) >= 1 /\ Len(stack) = Len(scopes)
      /\ global \in BOOLEAN
  BY DEF LInv, Typed, Levels, Stacks
<1>6. Len(scopes) \in Nat /\ n \in Nat \ {0}
  BY <1>3, <1>5 DEF Scopes
<1>7. /\ scopes' \in Scopes /\ Extended(scopes', scopes, Empty, 1)
      /\ Opened(scopes', Empty, n - 1) = Opened(scopes, Empty, n)
      /\ n = 1 => scopes' = Opened(scopes, Empty, n)
  BY <1>0, <1>5, <1>6, OpenedOne
<1>10. /\ Len(scopes') = Len(scopes) + 1
       /\ \A i \in 1..Len(scopes) : scopes'[i] = scopes[i]
       /\ scopes'[Len(scopes) + 1] = Empty
  BY <1>7 DEF Extended
<1>8. Going' /\ Ahead' = Ahead
  <2>0. Shown = ShownOf(scopes, global) /\ Shown' = ShownOf(scopes', global)
    BY <1>0 DEF Shown, ShownOf
  <2>1. Going'
    BY <1>0, <1>3 DEF Going
  <2>2. CASE global
    <3>1. Shown' = Shown
      BY <1>5, <1>6, <1>10, <2>0, <2>2 DEF ShownOf
    <3>2. Ahead = Shown /\ Ahead' = Shown'
      BY <1>0, <1>3, <2>2 DEF Ahead, AheadOf
    <3> QED
      BY <2>1, <3>1, <3>2
  <2>3. CASE ~global
    <3>1. Shown = scopes /\ Shown' = scopes'
      BY <2>0, <2>3 DEF ShownOf
    <3>2. Ahead = Opened(scopes, Empty, n)
      BY <1>0, <1>1, <2>3, <3>1 DEF Ahead, AheadOf
    <3>3. CASE n = 1
      BY <1>0, <1>3, <1>7, <2>1, <2>3, <3>1, <3>2, <3>3 DEF Ahead, AheadOf
    <3>4. CASE n # 1
      BY <1>0, <1>3, <1>7, <2>1, <2>3, <3>1, <3>2, <3>4 DEF Ahead, AheadOf
    <3> QED
      BY <3>3, <3>4
  <2> QED
    BY <1>5, <2>2, <2>3
<1>9. /\ stack' \in Stacks /\ Len(stack') = Len(stack) + 1
      /\ \A i \in 1..Len(stack) : stack'[i] = stack[i]
      /\ stack'[Len(stack) + 1] = {}
  <2>1. stack \in Seq(SUBSET Names) /\ {} \in SUBSET Names
    BY <1>5 DEF Stacks
  <2> QED
    BY <1>0, <2>1, Appended DEF Stacks
<1>11. Typed'
  BY <1>0, <1>3, <1>7, <1>9 DEF LInv, Typed, Stacks
<1>12. Levels'
  <2>1. Len(scopes') >= 1 /\ Len(stack') = Len(scopes')
    BY <1>5, <1>6, <1>9, <1>10
  <2> QED
    BY <1>0, <1>2, <1>8, <2>1 DEF LInv, Levels
<1>13. Owned'
  <2>1. ASSUME NEW i \in 1..Len(scopes')
        PROVE  IF global THEN stack'[i] \subseteq scopes'[1].names
               ELSE stack'[i] = scopes'[i].names
    <3>1. CASE i \in 1..Len(scopes)
      <4>1. IF global THEN stack[i] \subseteq scopes[1].names ELSE stack[i] = scopes[i].names
        BY <1>2, <3>1 DEF LInv, Owned
      <4>2. scopes'[1] = scopes[1] /\ scopes'[i] = scopes[i] /\ stack'[i] = stack[i]
        BY <1>5, <1>6, <1>9, <1>10, <3>1
      <4> QED
        BY <4>1, <4>2
    <3>2. CASE i \notin 1..Len(scopes)
      <4>1. i = Len(scopes) + 1
        BY <1>6, <1>10, <3>2
      <4> QED
        BY <1>5, <1>9, <1>10, <4>1, ScopeParts
    <3> QED
      BY <3>1, <3>2
  <2> QED
    BY <1>0, <2>1 DEF Owned
<1>14. Quiet' /\ Fresh' /\ RefusedTogether'
  BY <1>0, <1>2 DEF Quiet, Fresh, RefusedTogether
<1>15. Matches => Matches'
  BY <1>0, <1>2, <1>8 DEF Matches
<1>16. Outermost => Outermost'
  <2>1. resets' = resets
    BY DEF ExecPush
  <2>2. command'.op \in {"none", "push"}
    BY <1>3
  <2> QED
    BY <1>0, <1>2, <1>8, <2>1, <2>2 DEF Outermost, FirstReset
<1> QED
  BY <1>11, <1>12, <1>13, <1>14, <1>15, <1>16 DEF Preserved, LInv

\* The engine closes a level.
LEMMA KeepExecPop == ASSUME LInv, ExecPop PROVE Preserved
<1>1. PICK n : n = command.n
  OBVIOUS
<1>0. /\ command.op = "pop" /\ failed = "none" /\ stack' = Front(stack) /\ n < Len(stack)
      /\ scopes' = Front(scopes) /\ OneLevelDone
      /\ inited' = TRUE
      /\ UNCHANGED <<table, context, logicSet, logicKnown, global, failed, spared, forgot>>
  BY <1>1 DEF ExecPop, Executing, settings, front, history, BeginCall, Engine!Pop, Engine!Front, Front
<1>3. /\ CommandOK(command') /\ n \in 1..2
      /\ n = 1 => command' = Idle /\ command'.op = "none"
      /\ n # 1 => command'.op = "pop" /\ command'.n = n - 1
  BY <1>0, <1>1, OneLevelIs DEF LInv, Typed
<1>5. /\ scopes \in Scopes /\ stack \in Stacks /\ Len(scopes) >= 1 /\ Len(stack) = Len(scopes)
      /\ global \in BOOLEAN
  BY DEF LInv, Typed, Levels, Stacks
<1>6. Len(scopes) \in Nat /\ n \in Nat \ {0} /\ n < Len(scopes)
  BY <1>0, <1>3, <1>5 DEF Scopes
<1>2. Going /\ logicSet
  BY <1>0, <1>1, <1>6 DEF Going, LInv, Quiet
<1>7. /\ scopes' \in Scopes /\ Shortened(scopes', scopes, 1)
      /\ Closed(scopes', n - 1) = Closed(scopes, n)
      /\ n = 1 => scopes' = Closed(scopes, n)
  BY <1>0, <1>5, <1>6, ClosedOne
<1>10. /\ Len(scopes') = Len(scopes) - 1
       /\ \A i \in 1..(Len(scopes) - 1) : scopes'[i] = scopes[i]
  BY <1>7 DEF Shortened
<1>8. Going' /\ Ahead' = Ahead
  <2>0. Shown = ShownOf(scopes, global) /\ Shown' = ShownOf(scopes', global)
    BY <1>0 DEF Shown, ShownOf
  <2>1. Going'
    <3>1. n # 1 => n - 1 < Len(scopes')
      BY <1>6, <1>10
    <3> QED
      BY <1>0, <1>3, <1>6, <1>10, <3>1 DEF Going
  <2>2. CASE global
    <3>1. 1 \in 1..(Len(scopes) - 1)
      BY <1>6
    <3>2. Shown' = Shown
      BY <1>10, <2>0, <2>2, <3>1 DEF ShownOf
    <3>3. Ahead = Shown /\ Ahead' = Shown'
      BY <1>0, <1>3, <2>2 DEF Ahead, AheadOf
    <3> QED
      BY <2>1, <3>2, <3>3
  <2>3. CASE ~global
    <3>1. Shown = scopes /\ Shown' = scopes'
      BY <2>0, <2>3 DEF ShownOf
    <3>2. Ahead = Closed(scopes, n)
      BY <1>0, <1>1, <2>3, <3>1 DEF Ahead, AheadOf
    <3>3. CASE n = 1
      BY <1>0, <1>3, <1>7, <2>1, <2>3, <3>1, <3>2, <3>3 DEF Ahead, AheadOf
    <3>4. CASE n # 1
      BY <1>0, <1>3, <1>7, <2>1, <2>3, <3>1, <3>2, <3>4 DEF Ahead, AheadOf
    <3> QED
      BY <3>3, <3>4
  <2> QED
    BY <1>5, <2>2, <2>3
<1>9. /\ stack' \in Stacks /\ Len(stack') = Len(stack) - 1
      /\ \A i \in 1..(Len(stack) - 1) : stack'[i] = stack[i]
  <2>1. stack \in Seq(SUBSET Names) /\ Len(stack) - 1 \in 0..Len(stack)
    BY <1>5, <1>6 DEF Stacks
  <2>2. stack' = SubSeq(stack, 1, Len(stack) - 1)
    BY <1>0 DEF Front
  <2> QED
    BY <2>1, <2>2, Prefix DEF Stacks
<1>11. Typed'
  BY <1>0, <1>3, <1>7, <1>9 DEF LInv, Typed, Stacks
<1>12. Levels'
  <2>1. Len(scopes') >= 1 /\ Len(stack') = Len(scopes')
    BY <1>5, <1>6, <1>9, <1>10
  <2> QED
    BY <1>0, <1>2, <1>8, <2>1 DEF LInv, Levels
<1>13. Owned'
  <2>1. ASSUME NEW i \in 1..Len(scopes')
        PROVE  IF global THEN stack'[i] \subseteq scopes'[1].names
               ELSE stack'[i] = scopes'[i].names
    <3>1. i \in 1..Len(scopes) /\ i \in 1..(Len(scopes) - 1) /\ 1 \in 1..(Len(scopes) - 1)
      BY <1>6, <1>10
    <3>2. IF global THEN stack[i] \subseteq scopes[1].names ELSE stack[i] = scopes[i].names
      BY <1>2, <3>1 DEF LInv, Owned
    <3>3. scopes'[1] = scopes[1] /\ scopes'[i] = scopes[i] /\ stack'[i] = stack[i]
      BY <1>5, <1>9, <1>10, <3>1
    <3> QED
      BY <3>2, <3>3
  <2> QED
    BY <1>0, <2>1 DEF Owned
<1>14. Quiet' /\ Fresh' /\ RefusedTogether'
  BY <1>0, <1>2 DEF Quiet, Fresh, RefusedTogether
<1>15. Matches => Matches'
  BY <1>0, <1>2, <1>8 DEF Matches
<1>16. Outermost => Outermost'
  <2>1. resets' = resets
    BY DEF ExecPop
  <2>2. command'.op \in {"none", "pop"}
    BY <1>3
  <2> QED
    BY <1>0, <1>2, <1>8, <2>1, <2>2 DEF Outermost, FirstReset
<1> QED
  BY <1>11, <1>12, <1>13, <1>14, <1>15, <1>16 DEF Preserved, LInv

\* A new engine owns nothing.
LEMMA NewEngine == << {} >> \in Stacks /\ Len(<< {} >>) = 1 /\ << {} >>[1] = {}
BY DEF Stacks

\* (reset) is executed.
LEMMA KeepExecReset == ASSUME LInv, ExecReset PROVE Preserved
<1>0. /\ command.op = "reset" /\ failed = "none" /\ command' = Idle /\ stack' = << {} >>
      /\ table' = << {} >> /\ context' = <<Head(context), Empty>> /\ scopes' = <<Empty>>
      /\ inited' = FALSE /\ spared' = FALSE /\ forgot' = FALSE
      /\ UNCHANGED <<logicSet, logicKnown, global, failed>>
  BY DEF ExecReset, Executing, Done, settings, Engine!Reset, Become, ResetAll, Now
<1>1. /\ Going /\ context \in Scopes /\ Len(context) >= 2 /\ context[1] = Empty
      /\ global \in BOOLEAN
  BY <1>0 DEF Going, LInv, Typed, Levels
<1>2. Empty \in Scope /\ Empty.names = {} /\ Empty.decls = {}
  BY ScopeParts
<1>3. context' = <<Empty, Empty>>
  BY <1>0, <1>1 DEF Scopes
<1>4. context' \in Scopes /\ Len(context') = 2 /\ context'[1] = Empty /\ context'[2] = Empty
  BY <1>2, <1>3 DEF Scopes
<1>5. table' \in Tables /\ Len(table') = 1 /\ table'[1] = {}
  BY <1>0 DEF Tables
<1>6. scopes' \in Scopes /\ Len(scopes') = 1 /\ scopes'[1] = Empty
  BY <1>0, <1>2, OneScope
<1>7. stack' \in Stacks /\ Len(stack') = 1 /\ stack'[1] = {}
  BY <1>0, NewEngine
<1>8. Going' /\ Ahead' = scopes'
  <2>1. PICK R : R = ShownOf(scopes', global)
    OBVIOUS
  <2>2. R = scopes'
    <3>1. Len(scopes') >= 1
      BY <1>6
    <3> QED
      BY <1>1, <1>6, <2>1, <3>1, ShownIs
  <2>3. Shown' = scopes'
    BY <1>0, <2>1, <2>2 DEF Shown, ShownOf
  <2> QED
    BY <1>0, <2>3, IdleIs DEF Going, Ahead, AheadOf
<1>9. Typed'
  BY <1>0, <1>4, <1>5, <1>6, <1>7, IdleIs DEF LInv, Typed, Stacks
<1>10. Levels'
  <2>1. Len(scopes') = 1 /\ Len(stack') = 1 /\ Len(table') = 1 /\ Len(context') = 2
    BY <1>4, <1>5, <1>6, <1>7
  <2>2. Deep(table', context', scopes')
    BY ONLY <2>1 DEF Deep
  <2>3. Len(scopes') >= 1 /\ Len(table') >= 1 /\ Len(context') >= 2
    BY ONLY <2>1
  <2> QED
    BY <1>4, <1>8, <2>1, <2>2, <2>3 DEF Levels
<1>11. Owned'
  BY <1>2, <1>6, <1>7 DEF Owned
<1>12. Quiet' /\ Fresh' /\ RefusedTogether'
  BY <1>0, <1>2, <1>6, <1>7, IdleIs DEF Quiet, Fresh, RefusedTogether
<1>13. Matches'
  <2>1. Bare(table', context')
    BY <1>4, <1>5 DEF Bare
  <2> QED
    BY <1>4, <1>5, <1>6, <1>8, <2>1, FitsBare DEF Matches
<1>14. Outermost => Outermost'
  <2>1. resets' = resets
    BY DEF ExecReset
  <2> QED
    BY <1>0, <2>1, IdleIs DEF Outermost, FirstReset
<1> QED
  BY <1>9, <1>10, <1>11, <1>12, <1>13, <1>14 DEF Preserved, LInv

\* Only the first two levels of the symbol manager are left, and what was above
\* them is forgotten.
LEMMA ForgetFits ==
  ASSUME NEW T \in Tables, NEW C \in Scopes, Len(C) >= 2, NEW S \in Scopes, Len(S) = 1,
         NEW kept, NEW left, NEW D \in Scopes, Len(D) = 2, D[1] = C[1], D[2] = C[2],
         Fits(T, C, S, kept), left => kept /\ \A i \in 3..Len(C) : C[i] = Empty
  PROVE  Fits(T, D, S, left)
<1>1. Len(T) \in Nat /\ Len(C) \in Nat /\ 1 \in 1..Len(S)
  BY DEF Tables, Scopes
<1>2. /\ \A i \in 1..(Len(C) - 1) : C[i] = Empty
      /\ (Len(C) - 1) + 1 = Len(C) /\ Kin(C[Len(C)], S[1], kept \/ 1 # 1)
      /\ Len(S) <= Len(T)
  <2>1. (Len(C) - 1) + 1 = Len(C)
    BY <1>1
  <2> QED
    BY <1>1, <2>1 DEF Fits, Deep
<1>3. D[1] = Empty
  <2>1. 1 \in 1..(Len(C) - 1)
    BY <1>1
  <2> QED
    BY <1>2, <2>1
<1>4. Kin(D[2], S[1], left)
  <2>1. CASE Len(C) = 2
    BY <1>2, <2>1 DEF Kin
  <2>2. CASE Len(C) # 2
    <3>0. \A k \in Nat : k >= 2 /\ k # 2 => 2 \in 1..(k - 1) /\ k \in 3..k
      OBVIOUS
    <3>1. 2 \in 1..(Len(C) - 1) /\ Len(C) \in 3..Len(C)
      BY <1>1, <2>2, <3>0
    <3>2. D[2] = Empty
      BY <1>2, <3>1
    <3>3. left => S[1] = Empty
      BY <1>2, <3>1 DEF Kin
    <3> QED
      BY <3>2, <3>3, ScopeParts DEF Kin
  <2> QED
    BY <2>1, <2>2
<1>5. Deep(T, D, S)
  BY <1>2 DEF Deep
<1>6. ASSUME NEW i \in 1..(Len(D) - Len(S)) PROVE D[i] = Empty
  BY <1>3
<1>7. ASSUME NEW i \in 1..Len(S) PROVE Kin(D[(Len(D) - Len(S)) + i], S[i], left \/ i # 1)
  <2>1. i = 1 /\ (Len(D) - Len(S)) + i = 2
    OBVIOUS
  <2> QED
    BY <1>4, <2>1 DEF Kin
<1> QED
  BY <1>5, <1>6, <1>7 DEF Fits

\* (reset-assertions) is executed.
LEMMA KeepExecResetAssertions == ASSUME LInv, ExecResetAssertions PROVE Preserved
<1>0. /\ command.op = "reset-assertions" /\ failed = "none" /\ command' = Idle
      /\ stack' = << {} >>
      /\ table' = IF global THEN table ELSE <<Head(table), {}>>
      /\ context' = SubSeq(context, 1, 2)
      /\ scopes' = <<IF global THEN Head(scopes) ELSE Empty>>
      /\ spared' = IF global THEN spared ELSE SparesSome
      /\ forgot' = (global /\ (forgot \/ ForgetsSome))
      /\ UNCHANGED <<logicSet, logicKnown, global, failed, inited>>
  BY DEF ExecResetAssertions, Executing, Done, settings, Engine!Reset, Become, ResetLevels, Now
<1>1. /\ Going /\ Ahead = Shown /\ global \in BOOLEAN
      /\ table \in Tables /\ context \in Scopes /\ scopes \in Scopes
      /\ Len(table) >= 1 /\ Len(context) >= 2 /\ Len(scopes) >= 1 /\ context[1] = Empty
      /\ spared \in BOOLEAN /\ forgot \in BOOLEAN
  BY <1>0 DEF Going, Ahead, AheadOf, LInv, Typed, Levels
<1>2. Empty \in Scope /\ Empty.names = {} /\ Empty.decls = {}
  BY ScopeParts
<1>3. scopes[1] \in Scope /\ Head(scopes) = scopes[1] /\ Head(table) = table[1]
      /\ table[1] \in SUBSET Bindable /\ Len(table) \in Nat /\ Len(context) \in Nat
      /\ Len(scopes) \in Nat
  BY <1>1 DEF Scopes, Tables
<1>4. /\ context' \in Scopes /\ Len(context') = 2
      /\ context'[1] = context[1] /\ context'[2] = context[2]
  <2>1. context \in Seq(Scope) /\ 2 \in 0..Len(context)
    BY <1>1, <1>3 DEF Scopes
  <2> QED
    BY <1>0, <2>1, Prefix DEF Scopes
<1>5. ~global => /\ table' \in Tables /\ Len(table') = 2
                 /\ table'[1] = table[1] /\ table'[2] = {}
  BY <1>0, <1>3 DEF Tables
<1>6. table' \in Tables /\ Len(table') >= 1
  BY <1>0, <1>1, <1>5
<1>7. /\ scopes' \in Scopes /\ Len(scopes') = 1
      /\ scopes'[1] = IF global THEN scopes[1] ELSE Empty
  <2>1. PICK e \in Scope : e = IF global THEN scopes[1] ELSE Empty
    BY <1>2, <1>3
  <2> QED
    BY <1>0, <1>3, <2>1, OneScope
<1>8. stack' \in Stacks /\ Len(stack') = 1 /\ stack'[1] = {}
  BY <1>0, NewEngine
<1>9. Going' /\ Ahead' = scopes'
  <2>1. PICK R : R = ShownOf(scopes', global)
    OBVIOUS
  <2>2. R = scopes'
    <3>1. Len(scopes') >= 1
      BY <1>7
    <3> QED
      BY <1>1, <1>7, <2>1, <3>1, ShownIs
  <2>3. Shown' = scopes'
    BY <1>0, <2>1, <2>2 DEF Shown, ShownOf
  <2> QED
    BY <1>0, <2>3, IdleIs DEF Going, Ahead, AheadOf
<1>10. Typed'
  <2>1. spared' \in BOOLEAN /\ forgot' \in BOOLEAN
    BY <1>0, <1>1 DEF SparesSome, ForgetsSome
  <2> QED
    BY <1>0, <1>4, <1>6, <1>7, <1>8, <2>1, IdleIs DEF LInv, Typed, Stacks
<1>11. Levels'
  <2>1. Deep(table', context', scopes')
    <3>1. Len(scopes') = 1 /\ Len(table') >= 1 /\ Len(context') = 2
      BY <1>4, <1>6, <1>7
    <3> QED
      BY ONLY <3>1 DEF Deep
  <2>2. Len(scopes') = 1 /\ Len(stack') = 1 /\ Len(context') = 2
    BY <1>4, <1>7, <1>8
  <2>3. Len(scopes') >= 1 /\ Len(stack') = Len(scopes') /\ Len(context') >= 2
    BY ONLY <2>2
  <2> QED
    BY <1>1, <1>4, <1>6, <1>9, <2>1, <2>3 DEF Levels
<1>12. Owned'
  BY <1>0, <1>2, <1>7, <1>8 DEF Owned
<1>13. Quiet' /\ Fresh' /\ RefusedTogether'
  <2>1. RefusedTogether'
    BY <1>0 DEF RefusedTogether
  <2>2. ~logicSet => scopes'[1] = Empty
    BY <1>0, <1>7 DEF LInv, Quiet
  <2>3. Fresh'
    BY <1>0, <1>2, <1>7, <1>8 DEF LInv, Fresh
  <2> QED
    BY <1>0, <1>7, <2>1, <2>2, <2>3, IdleIs DEF Quiet
<1>14. ASSUME Matches, global, ~spared' PROVE Matches'
  <2>1. PICK S, kept, left : S = Shown /\ kept = ~forgot /\ left = ~forgot'
    OBVIOUS
  <2>2. Fits(table, context, S, kept)
    BY <1>0, <1>1, <1>14, <2>1 DEF Matches
  <2>3. S = scopes'
    <3>1. S = <<scopes[1]>> /\ scopes' = <<scopes[1]>>
      BY <1>0, <1>3, <1>14, <2>1 DEF Shown
    <3> QED
      BY <3>1
  <2>4. left => kept /\ \A i \in 3..Len(context) : context[i] = Empty
    BY <1>0, <1>1, <1>14, <2>1 DEF ForgetsSome
  <2>5. table' = table
    BY <1>0, <1>14
  <2>6. Fits(table, context', S, left)
    BY <1>1, <1>4, <1>7, <2>2, <2>3, <2>4, ForgetFits
  <2> QED
    BY <1>9, <2>1, <2>3, <2>5, <2>6 DEF Matches
<1>15. ASSUME ~global, ~spared' PROVE Matches'
  <2>1. table[1] \subseteq {Builtin} /\ context[2] = Empty
    BY <1>0, <1>15 DEF SparesSome
  <2>2. Bare(table', context')
    <3>1. Len(table') = 2 /\ Len(context') = 2
      BY <1>4, <1>5, <1>15
    <3>2. table'[1] \subseteq {Builtin} /\ table'[2] \subseteq {Builtin}
      BY <1>5, <1>15, <2>1
    <3>3. context'[1] = Empty /\ context'[2] = Empty
      BY <1>1, <1>4, <2>1
    <3>4. \A i \in 1..2 : i = 1 \/ i = 2
      OBVIOUS
    <3>5. Len(table') >= 1 /\ Len(context') >= 2
      BY ONLY <3>1
    <3> QED
      BY ONLY <3>1, <3>2, <3>3, <3>4, <3>5 DEF Bare
  <2>3. scopes'[1] = Empty
    BY <1>7, <1>15
  <2>4. \A kept : Fits(table', context', scopes', kept)
    BY <1>4, <1>6, <1>7, <2>2, <2>3, FitsBare
  <2> QED
    BY <1>9, <2>4 DEF Matches
<1>16. Matches => Matches'
  <2>1. spared' => Matches'
    BY DEF Matches
  <2> QED
    BY <1>1, <1>14, <1>15, <2>1
<1>17. Outermost => Outermost'
  <2>1. resets' = resets
    BY DEF ExecResetAssertions
  <2> QED
    BY <1>0, <2>1, IdleIs DEF Outermost, FirstReset
<1> QED
  BY <1>10, <1>11, <1>12, <1>13, <1>16, <1>17 DEF Preserved, LInv

\* Every step.
LEMMA KeepNext == ASSUME LInv, [Next]_vars PROVE Preserved
<1>1. CASE UNCHANGED vars
  <2>1. UNCHANGED <<table, context, logicSet, logicKnown, global, command, failed, resets, scopes,
                    stack, inited, spared, forgot>>
    BY <1>1 DEF vars, front, settings, engine, history
  <2>2. UNCHANGED <<Going, Ahead>>
    BY <2>1 DEF Going, Ahead, Shown
  <2>3. LInv' /\ (Matches => Matches')
    BY <2>1, <2>2 DEF LInv, Typed, Levels, Owned, Quiet, Fresh, RefusedTogether, Matches
  <2>4. Outermost => Outermost'
    BY <2>1, <2>2 DEF Outermost, FirstReset
  <2> QED
    BY <2>3, <2>4 DEF Preserved
<1>2. CASE Next
  BY <1>2, KeepParseSetLogic, KeepParseSetLogicAgain, KeepParseGlobalDeclarations,
     KeepParseDeclare, KeepParseAssert, KeepParsePush, KeepParsePop, KeepParseReset,
     KeepParseResetAssertions, KeepExecSetting, KeepExecRefused, KeepExecDeclare, KeepExecAssert,
     KeepExecPush, KeepExecPop, KeepExecReset, KeepExecResetAssertions DEF Next
<1> QED
  BY <1>1, <1>2

\* The initial states.
LEMMA KeepInit == ASSUME Init PROVE IInv /\ Outermost
<1>0. /\ table = << {} >> /\ context = <<Empty, Empty>> /\ scopes = <<Empty>>
      /\ logicSet = FALSE /\ logicKnown = FALSE /\ global \in BOOLEAN
      /\ command = Idle /\ failed = "none" /\ stack = << {} >>
      /\ inited = FALSE /\ spared = FALSE /\ forgot = FALSE
  BY DEF Init, Engine!Init
<1>1. Empty \in Scope /\ Empty.names = {} /\ Empty.decls = {}
  BY ScopeParts
<1>2. context \in Scopes /\ Len(context) = 2 /\ context[1] = Empty /\ context[2] = Empty
  BY <1>0, <1>1 DEF Scopes
<1>3. table \in Tables /\ Len(table) = 1 /\ table[1] = {}
  BY <1>0 DEF Tables
<1>4. scopes \in Scopes /\ Len(scopes) = 1 /\ scopes[1] = Empty
  BY <1>0, <1>1, OneScope
<1>5. stack \in Stacks /\ Len(stack) = 1 /\ stack[1] = {}
  BY <1>0, NewEngine
<1>6. Going /\ Ahead = scopes
  <2>1. Len(scopes) >= 1
    BY <1>4
  <2>2. Shown = scopes
    BY <1>0, <1>4, <2>1, ShownIs DEF Shown, ShownOf
  <2> QED
    BY <1>0, <2>2, IdleIs DEF Going, Ahead, AheadOf
<1>7. Typed
  BY <1>0, <1>2, <1>3, <1>4, <1>5, IdleIs DEF Typed, Stacks
<1>8. Levels
  <2>1. Len(scopes) = 1 /\ Len(stack) = 1 /\ Len(table) = 1 /\ Len(context) = 2
    BY <1>2, <1>3, <1>4, <1>5
  <2>2. Deep(table, context, scopes)
    BY ONLY <2>1 DEF Deep
  <2>3. Len(scopes) >= 1 /\ Len(table) >= 1 /\ Len(context) >= 2
    BY ONLY <2>1
  <2> QED
    BY <1>2, <1>6, <2>1, <2>2, <2>3 DEF Levels
<1>9. Owned
  BY <1>1, <1>4, <1>5 DEF Owned
<1>10. Quiet /\ Fresh /\ RefusedTogether
  BY <1>0, <1>1, <1>4, <1>5, IdleIs DEF Quiet, Fresh, RefusedTogether
<1>11. Matches
  <2>1. Bare(table, context)
    BY <1>2, <1>3 DEF Bare
  <2> QED
    BY <1>2, <1>3, <1>4, <1>6, <2>1, FitsBare DEF Matches
<1>12. Outermost
  <2>1. resets = 0
    BY DEF Init
  <2> QED
    BY <1>0, <2>1, IdleIs DEF Outermost
<1> QED
  BY <1>7, <1>8, <1>9, <1>10, <1>11, <1>12 DEF LInv, IInv

-----------------------------------------------------------------------------
(***************************************************************************)
(* What the invariant says between two commands.                           *)
(***************************************************************************)
\* The names, the declarations and the symbols of a sequence of scopes.
LEMMA FieldsAre ==
  ASSUME NEW S \in Scopes
  PROVE  /\ NamesIn(S) \in Tables /\ DeclsIn(S) \in Tables /\ SymbolsIn(S) \in Tables
         /\ Len(NamesIn(S)) = Len(S) /\ Len(DeclsIn(S)) = Len(S) /\ Len(SymbolsIn(S)) = Len(S)
         /\ \A i \in 1..Len(S) : NamesIn(S)[i] = S[i].names
         /\ \A i \in 1..Len(S) : DeclsIn(S)[i] = S[i].decls
         /\ \A i \in 1..Len(S) : SymbolsIn(S)[i] = S[i].names \cup S[i].decls
<1>1. /\ DOMAIN S = 1..Len(S) /\ Len(S) \in Nat
      /\ \A i \in 1..Len(S) : S[i] \in Scope
  BY DEF Scopes
<1>2. \A i \in 1..Len(S) : S[i].names \in SUBSET Bindable /\ S[i].decls \in SUBSET Bindable
  BY <1>1, ScopeParts DEF Bindable
<1>3. /\ NamesIn(S) \in [1..Len(S) -> SUBSET Bindable]
      /\ \A i \in 1..Len(S) : NamesIn(S)[i] = S[i].names
  BY <1>1, <1>2 DEF NamesIn, Fields
<1>4. /\ DeclsIn(S) \in [1..Len(S) -> SUBSET Bindable]
      /\ \A i \in 1..Len(S) : DeclsIn(S)[i] = S[i].decls
  BY <1>1, <1>2 DEF DeclsIn, Fields
<1>5. /\ SymbolsIn(S) \in [1..Len(S) -> SUBSET Bindable]
      /\ \A i \in 1..Len(S) : SymbolsIn(S)[i] = S[i].names \cup S[i].decls
  BY <1>1, <1>2 DEF SymbolsIn, Fields
<1>6. ASSUME NEW f \in [1..Len(S) -> SUBSET Bindable] PROVE f \in Tables /\ Len(f) = Len(S)
  BY <1>1, FunctionIsSeq DEF Tables
<1> QED
  BY <1>3, <1>4, <1>5, <1>6

\* The symbols of a table without those of the logic.
Plain(T) == Fields(T, LAMBDA l : l \ {Builtin})

\* They are a table of the same length.
LEMMA PlainIs ==
  ASSUME NEW T \in Tables
  PROVE  /\ Plain(T) \in Tables /\ Len(Plain(T)) = Len(T)
         /\ \A i \in 1..Len(T) : Plain(T)[i] = T[i] \ {Builtin}
<1>1. /\ DOMAIN T = 1..Len(T) /\ Len(T) \in Nat
      /\ \A i \in 1..Len(T) : T[i] \in SUBSET Bindable
  BY DEF Tables
<1>2. /\ Plain(T) \in [1..Len(T) -> SUBSET Bindable]
      /\ \A i \in 1..Len(T) : Plain(T)[i] = T[i] \ {Builtin}
  BY <1>1 DEF Plain, Fields
<1> QED
  BY <1>1, <1>2, FunctionIsSeq DEF Tables

\* Levels that end with what is owned and have nothing below it are aligned.
LEMMA AlignedIf ==
  ASSUME NEW L \in Tables, NEW O \in Tables, Len(O) >= 1, Len(O) <= Len(L), NEW exact,
         \A i \in 1..(Len(L) - Len(O)) : L[i] = {},
         \A i \in 1..Len(O) :
            /\ L[(Len(L) - Len(O)) + i] \subseteq O[i]
            /\ exact \/ i # 1 => L[(Len(L) - Len(O)) + i] = O[i]
  PROVE  Aligned(L, O, exact)
<1>1. Len(L) \in Nat /\ Len(O) \in Nat
  BY DEF Tables
<1>2. PICK e : e = Len(L) - Len(O)
  OBVIOUS
<1>3. e \in Nat /\ \A i \in 1..(e + 1) : i \in 1..e \/ i = e + 1
  <2>1. \A k \in Nat : \A i \in 1..(k + 1) : i \in 1..k \/ i = k + 1
    OBVIOUS
  <2>2. \A m, n \in Nat : n <= m => m - n \in Nat
    OBVIOUS
  <2>3. e \in Nat
    BY <1>1, <1>2, <2>2
  <2> QED
    BY <2>1, <2>3
<1>4. /\ L[e + 1] \subseteq O[1] /\ (exact => O[1] = L[e + 1])
      /\ \A i \in 1..e : L[i] = {}
  <2>1. 1 \in 1..Len(O)
    BY <1>1
  <2> QED
    BY <1>2, <2>1
<1>5. UNION {L[i] : i \in 1..(e + 1)} = L[e + 1]
  <2>1. ASSUME NEW x \in UNION {L[i] : i \in 1..(e + 1)} PROVE x \in L[e + 1]
    <3>1. PICK i \in 1..(e + 1) : x \in L[i]
      OBVIOUS
    <3> QED
      BY <1>3, <1>4, <3>1
  <2>2. L[e + 1] \in {L[i] : i \in 1..(e + 1)}
    BY <1>3
  <2> QED
    BY <2>1, <2>2
<1>6. \A i \in 2..Len(O) : O[i] = L[e + i]
  <2>1. \A i \in 2..Len(O) : i \in 1..Len(O) /\ i # 1
    BY <1>1
  <2> QED
    BY <1>2, <2>1
<1>7. /\ UNION {L[i] : i \in 1..(e + 1)} \subseteq O[1]
      /\ exact => O[1] \subseteq UNION {L[i] : i \in 1..(e + 1)}
  BY <1>4, <1>5
<1> QED
  BY <1>2, <1>3, <1>6, <1>7 DEF Aligned

\* Levels that fit match one by one.
LEMMA FitsAligned ==
  ASSUME NEW T \in Tables, NEW C \in Scopes, NEW S \in Scopes, Len(S) >= 1, NEW kept,
         Fits(T, C, S, kept)
  PROVE  /\ Aligned(Plain(T), SymbolsIn(S), TRUE)
         /\ Aligned(NamesIn(C), NamesIn(S), kept)
         /\ Aligned(DeclsIn(C), DeclsIn(S), kept)
<1>1. /\ Len(T) \in Nat /\ Len(C) \in Nat /\ Len(S) \in Nat
      /\ Len(S) <= Len(T) /\ Len(S) <= Len(C)
  BY DEF Fits, Deep, Tables, Scopes
<1>2. Aligned(Plain(T), SymbolsIn(S), TRUE)
  <2>1. PICK L, O : L = Plain(T) /\ O = SymbolsIn(S)
    OBVIOUS
  <2>2. /\ L \in Tables /\ Len(L) = Len(T) /\ \A i \in 1..Len(T) : L[i] = T[i] \ {Builtin}
    BY <2>1, PlainIs
  <2>3. /\ O \in Tables /\ Len(O) = Len(S)
        /\ \A i \in 1..Len(S) : O[i] = S[i].names \cup S[i].decls
    BY <2>1, FieldsAre
  <2>4. ASSUME NEW i \in 1..(Len(L) - Len(O)) PROVE L[i] = {}
    <3>1. i \in 1..(Len(T) - Len(S)) /\ i \in 1..Len(T)
      BY <1>1, <2>2, <2>3
    <3> QED
      BY <2>2, <3>1 DEF Fits
  <2>5. ASSUME NEW i \in 1..Len(O) PROVE L[(Len(L) - Len(O)) + i] = O[i]
    <3>1. i \in 1..Len(S) /\ (Len(T) - Len(S)) + i \in 1..Len(T)
      BY <1>1, <2>3
    <3>2. T[(Len(T) - Len(S)) + i] \ {Builtin} = S[i].names \cup S[i].decls
      BY <3>1 DEF Fits
    <3>3. L[(Len(T) - Len(S)) + i] = T[(Len(T) - Len(S)) + i] \ {Builtin}
      BY <2>2, <3>1
    <3> QED
      BY <2>2, <2>3, <3>1, <3>2, <3>3
  <2>6. Len(O) >= 1 /\ Len(O) <= Len(L)
    BY <1>1, <2>2, <2>3
  <2>7. Aligned(L, O, TRUE)
    BY <2>2, <2>3, <2>4, <2>5, <2>6, AlignedIf
  <2> QED
    BY <2>1, <2>7
<1>3. ASSUME NEW i \in 1..(Len(C) - Len(S)) PROVE C[i].names = {} /\ C[i].decls = {}
  BY ScopeParts DEF Fits
<1>4. Aligned(NamesIn(C), NamesIn(S), kept)
  <2>1. PICK L, O : L = NamesIn(C) /\ O = NamesIn(S)
    OBVIOUS
  <2>2. /\ L \in Tables /\ Len(L) = Len(C) /\ \A i \in 1..Len(C) : L[i] = C[i].names
    BY <2>1, FieldsAre
  <2>3. /\ O \in Tables /\ Len(O) = Len(S) /\ \A i \in 1..Len(S) : O[i] = S[i].names
    BY <2>1, FieldsAre
  <2>4. ASSUME NEW i \in 1..(Len(L) - Len(O)) PROVE L[i] = {}
    <3>1. i \in 1..(Len(C) - Len(S)) /\ i \in 1..Len(C)
      BY <1>1, <2>2, <2>3
    <3> QED
      BY <1>3, <2>2, <3>1
  <2>5. ASSUME NEW i \in 1..Len(O)
        PROVE  /\ L[(Len(L) - Len(O)) + i] \subseteq O[i]
               /\ kept \/ i # 1 => L[(Len(L) - Len(O)) + i] = O[i]
    <3>1. i \in 1..Len(S) /\ (Len(C) - Len(S)) + i \in 1..Len(C)
      BY <1>1, <2>3
    <3>2. Kin(C[(Len(C) - Len(S)) + i], S[i], kept \/ i # 1)
      BY <3>1 DEF Fits
    <3>3. L[(Len(C) - Len(S)) + i] = C[(Len(C) - Len(S)) + i].names /\ O[i] = S[i].names
      BY <2>2, <2>3, <3>1
    <3> QED
      BY <2>2, <2>3, <3>2, <3>3 DEF Kin
  <2>6. Len(O) >= 1 /\ Len(O) <= Len(L)
    BY <1>1, <2>2, <2>3
  <2>7. Aligned(L, O, kept)
    BY <2>2, <2>3, <2>4, <2>5, <2>6, AlignedIf
  <2> QED
    BY <2>1, <2>7
<1>5. Aligned(DeclsIn(C), DeclsIn(S), kept)
  <2>1. PICK L, O : L = DeclsIn(C) /\ O = DeclsIn(S)
    OBVIOUS
  <2>2. /\ L \in Tables /\ Len(L) = Len(C) /\ \A i \in 1..Len(C) : L[i] = C[i].decls
    BY <2>1, FieldsAre
  <2>3. /\ O \in Tables /\ Len(O) = Len(S) /\ \A i \in 1..Len(S) : O[i] = S[i].decls
    BY <2>1, FieldsAre
  <2>4. ASSUME NEW i \in 1..(Len(L) - Len(O)) PROVE L[i] = {}
    <3>1. i \in 1..(Len(C) - Len(S)) /\ i \in 1..Len(C)
      BY <1>1, <2>2, <2>3
    <3> QED
      BY <1>3, <2>2, <3>1
  <2>5. ASSUME NEW i \in 1..Len(O)
        PROVE  /\ L[(Len(L) - Len(O)) + i] \subseteq O[i]
               /\ kept \/ i # 1 => L[(Len(L) - Len(O)) + i] = O[i]
    <3>1. i \in 1..Len(S) /\ (Len(C) - Len(S)) + i \in 1..Len(C)
      BY <1>1, <2>3
    <3>2. Kin(C[(Len(C) - Len(S)) + i], S[i], kept \/ i # 1)
      BY <3>1 DEF Fits
    <3>3. L[(Len(C) - Len(S)) + i] = C[(Len(C) - Len(S)) + i].decls /\ O[i] = S[i].decls
      BY <2>2, <2>3, <3>1
    <3> QED
      BY <2>2, <2>3, <3>2, <3>3 DEF Kin
  <2>6. Len(O) >= 1 /\ Len(O) <= Len(L)
    BY <1>1, <2>2, <2>3
  <2>7. Aligned(L, O, kept)
    BY <2>2, <2>3, <2>4, <2>5, <2>6, AlignedIf
  <2> QED
    BY <2>1, <2>7
<1> QED
  BY <1>2, <1>4, <1>5

\* Levels that fit those of the engine match them.
LEMMA MatchIs == ASSUME LInv, Matches PROVE ScopesMatch
<1>1. SUFFICES ASSUME Ready, ~spared
      PROVE /\ IF global THEN All(stack) \subseteq scopes[1].names ELSE stack = NamesIn(scopes)
            /\ Aligned(Plain(table), SymbolsIn(Shown), TRUE)
            /\ Aligned(NamesIn(context), NamesIn(Shown), ~forgot)
            /\ Aligned(DeclsIn(context), DeclsIn(Shown), ~forgot)
  BY DEF ScopesMatch, Bound, Plain, Fields
<1>2. /\ table \in Tables /\ context \in Scopes /\ scopes \in Scopes /\ stack \in Stacks
      /\ Len(scopes) >= 1 /\ Len(stack) = Len(scopes)
  BY DEF LInv, Typed, Levels, Stacks
<1>3. Going /\ Ahead = Shown
  BY <1>1, AheadReady
<1>4. PICK S, kept : S = Shown /\ kept = ~forgot
  OBVIOUS
<1>5. Fits(table, context, S, kept)
  BY <1>1, <1>3, <1>4 DEF Matches
<1>6. S \in Scopes /\ Len(S) >= 1
  BY <1>4, ShownNow
<1>7. /\ Aligned(Plain(table), SymbolsIn(S), TRUE)
      /\ Aligned(NamesIn(context), NamesIn(S), kept)
      /\ Aligned(DeclsIn(context), DeclsIn(S), kept)
  BY <1>2, <1>5, <1>6, FitsAligned
<1>8. ASSUME ~global PROVE stack = NamesIn(scopes)
  <2>1. PICK R : R = NamesIn(scopes)
    OBVIOUS
  <2>2. R \in Tables /\ Len(R) = Len(scopes) /\ \A i \in 1..Len(scopes) : R[i] = scopes[i].names
    BY <1>2, <2>1, FieldsAre
  <2>3. \A i \in 1..Len(scopes) : R[i] = stack[i]
    BY <1>3, <1>8, <2>2 DEF LInv, Owned
  <2>4. R \in Seq(SUBSET Bindable) /\ stack \in Seq(SUBSET Bindable)
    <3>1. stack \in Seq(SUBSET Names) /\ SUBSET Names \subseteq SUBSET Bindable
      BY <1>2 DEF Stacks, Bindable
    <3> QED
      BY <2>2, <3>1 DEF Tables
  <2> QED
    BY <1>2, <2>1, <2>2, <2>3, <2>4, SeqEqual
<1>9. ASSUME global PROVE All(stack) \subseteq scopes[1].names
  <2>1. \A i \in 1..Len(stack) : stack[i] \subseteq scopes[1].names
    BY <1>2, <1>3, <1>9 DEF LInv, Owned
  <2>2. ToSet(stack) = {stack[i] : i \in 1..Len(stack)}
    BY <1>2, SeqSet DEF Stacks
  <2> QED
    BY <2>1, <2>2 DEF All
<1> QED
  BY <1>4, <1>7, <1>8, <1>9

-----------------------------------------------------------------------------
(***************************************************************************)
(* The theorems.                                                           *)
(***************************************************************************)
\* The invariant is inductive.
LEMMA Invariant == Spec => []IInv
<1>1. Init => IInv
  BY KeepInit
<1>2. IInv /\ [Next]_vars => IInv'
  BY KeepNext DEF Preserved, IInv
<1> QED
  BY <1>1, <1>2, PTL DEF Spec

\* The front end refuses a (pop n) only if the engine would refuse it too,
\* whatever was pushed, popped and reset before: popScope throws when the
\* symbol table has no level left, and the symbol table never has fewer levels
\* than the engine.
THEOREM RefusalsAgree == Spec => []RefusedTogether
<1>1. IInv => RefusedTogether
  BY DEF IInv, LInv
<1> QED
  BY <1>1, Invariant, PTL

\* The symbols, the names and the declarations of the front end are those of
\* the engine's open levels, level by level, unless the last (reset-assertions)
\* has spared something: SymManager::resetAssertions keeps the level at which
\* the symbols of the logic are bound.  However often global declarations are
\* switched on and off before the engine is initialised, and whatever is reset.
THEOREM ScopesAgree == Spec => []ScopesMatch
<1>1. IInv => ScopesMatch
  BY MatchIs DEF IInv
<1> QED
  BY <1>1, Invariant, PTL

\* The logic has a level of its own when the first (reset-assertions) comes, so
\* that it spares nothing.
LEMMA FirstSpares ==
  ASSUME LInv, Outermost, Matches, ~spared, resets <= 1, Executing("reset-assertions"), ~global
  PROVE  ~SparesSome
<1>1. command.op = "reset-assertions" /\ failed = "none"
  BY DEF Executing
<1>2. Going /\ Ahead = Shown /\ Shown = scopes
  BY <1>1, ShownNow DEF Going, Ahead, AheadOf
<1>3. FirstReset
  BY <1>1 DEF Outermost, FirstReset
<1>4. PICK kept : kept = ~forgot
  OBVIOUS
<1>5. /\ table \in Tables /\ context \in Scopes /\ scopes \in Scopes
      /\ Len(table) >= 1 /\ Len(context) >= 2 /\ Fits(table, context, scopes, kept)
  BY <1>2, <1>4 DEF LInv, Typed, Levels, Matches
<1>6. Len(table) \in Nat /\ Len(context) \in Nat /\ Len(scopes) \in Nat
  BY <1>5 DEF Tables, Scopes
<1>7. CASE logicSet
  <2>1. Len(scopes) < Len(table) /\ Len(scopes) + 1 < Len(context)
    BY <1>2, <1>3, <1>7 DEF Outermost, OneMore
  <2>2. 1 \in 1..(Len(table) - Len(scopes)) /\ 2 \in 1..(Len(context) - Len(scopes))
    BY <1>6, <2>1
  <2>3. table[1] \subseteq {Builtin} /\ context[2] = Empty
    BY <1>5, <2>2 DEF Fits
  <2> QED
    BY <2>3 DEF SparesSome
<1>8. CASE ~logicSet
  <2>1. Len(scopes) = 1 /\ scopes[1] = Empty
    BY <1>1, <1>8 DEF LInv, Quiet
  <2>2. Bare(table, context)
    BY <1>5, <2>1, FitsBare
  <2>3. table[1] \subseteq {Builtin} /\ context[2] = Empty
    BY <1>6, <2>2 DEF Bare
  <2> QED
    BY <2>3 DEF SparesSome
<1> QED
  BY <1>7, <1>8

\* Only a reset changes what is spared, and resets are counted.
LEMMA SparedSteps ==
  ASSUME [Next]_vars
  PROVE  /\ resets' = resets \/ resets' = resets + 1
         /\ spared' = spared \/ spared' = FALSE \/ ExecResetAssertions
BY DEF Next, vars, history, ParseSetLogic, ParseSetLogicAgain, ParseGlobalDeclarations,
       ParseDeclare, ParseAssert, ParsePush, ParsePop, ParseReset, ParseResetAssertions,
       ExecSetLogic, ExecSetOption, ExecSetOptionRefused, ExecDeclare, ExecAssert, ExecPush,
       ExecPop, ExecPopRefused, ExecReset, ExecResetAssertions

\* Unless global declarations are switched off by the script, the first reset
\* spares nothing: whatever came before it, the symbols of the logic have a
\* level of their own, which Smt2State::setLogic opens, and nothing else is
\* bound at it.  Until the second reset the levels therefore match without
\* exception.
THEOREM FirstResetSpares ==
  ASSUME FALSE \notin OptionValues
  PROVE  Spec => [](resets <= 1 => ~spared)
<1> DEFINE J == IInv /\ Outermost /\ (resets <= 1 => ~spared)
<1>1. Init => J
  <2>1. Init => ~spared
    BY DEF Init
  <2> QED
    BY <2>1, KeepInit
<1>2. J /\ [Next]_vars => J'
  <2>1. SUFFICES ASSUME J, [Next]_vars PROVE J'
    OBVIOUS
  <2>2. LInv /\ Matches /\ Outermost /\ resets \in Nat
    BY <2>1 DEF IInv, Outermost
  <2>3. LInv' /\ Matches' /\ Outermost'
    BY <2>1, <2>2, KeepNext DEF Preserved
  <2>4. ASSUME resets' <= 1 PROVE ~spared'
    <3>1. resets' = resets \/ resets' = resets + 1
      BY <2>1, SparedSteps
    <3>2. resets <= 1 /\ ~spared
      BY <2>1, <2>2, <2>4, <3>1
    <3>3. spared' = spared \/ spared' = FALSE \/ ExecResetAssertions
      BY <2>1, SparedSteps
    <3>4. ASSUME ExecResetAssertions PROVE ~spared'
      <4>1. Executing("reset-assertions") /\ spared' = IF global THEN spared ELSE SparesSome
        BY <3>4 DEF ExecResetAssertions
      <4>2. ~global => ~SparesSome
        BY <2>2, <3>2, <4>1, FirstSpares
      <4> QED
        BY <3>2, <4>1, <4>2
    <3> QED
      BY <3>2, <3>3, <3>4
  <2> QED
    BY <2>3, <2>4 DEF IInv
<1>3. J => (resets <= 1 => ~spared)
  OBVIOUS
<1> QED
  BY <1>1, <1>2, <1>3, PTL DEF Spec

=============================================================================
