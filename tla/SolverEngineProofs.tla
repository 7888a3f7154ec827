------------------------- MODULE SolverEngineProofs -------------------------
(***************************************************************************)
(* For any set of formulas and definitions, any depth of push and any      *)
(* length of the assertion list, the levels of the engine agree, each      *)
(* formula that it believes handed over is in the PropEngine, destruction  *)
(* unwinds all levels, and every check answers for exactly the formulas in *)
(* force.                                                                  *)
(*                                                                         *)
(* None of these is inductive.  A command works with records that are      *)
(* between two states of the engine: the level of a user push is already   *)
(* recorded while the push is still to come, the level of an assumption is *)
(* open while its pop is not yet pending.  Ready(s, x) is what such a      *)
(* record satisfies, x being the number of levels in excess of the ones    *)
(* that the user pushed.                                                   *)
(***************************************************************************)
EXTENDS SolverEngine, SequenceLemmas

All == Formulas \cup Definitions

Engine ==
    [inited : BOOLEAN, mode : Mode, queryMade : BOOLEAN,
     uctx : Seq(Frame), levels : Seq(Nat), pending : Nat, postsolve : BOOLEAN,
     globals : Seq(Definitions), sctx : Int, prop : Seq(SUBSET All),
     trail : BOOLEAN, usable : BOOLEAN, destroyed : BOOLEAN]

Bottom == [list |-> << >>, next |-> 0, gnext |-> 0]

\* What the PropEngine holds up to the level of frame i.
Held(prop, i) == UNION ToSet(SubSeq(prop, 1, i - 1))

Handed(uctx, prop) ==
    \A i \in 2..Len(uctx) :
        /\ uctx[i].next <= Len(uctx[i].list)
        /\ ToSet(SubSeq(uctx[i].list, 1, uctx[i].next)) = Held(prop, i)

\* The lists of the levels extend each other.
Extends(f, g) ==
    /\ Len(f.list) <= Len(g.list)
    /\ \A p \in 1..Len(f.list) : g.list[p] = f.list[p]

Extending(uctx) == \A i, j \in 1..Len(uctx) : i <= j => Extends(uctx[i], uctx[j])

\* Each level has the definitions that it counts as asserted, and only known ones.
Defines(f, globals) ==
    /\ f.gnext <= Len(globals)
    /\ \A g \in 1..f.gnext : globals[g] \in ToSet(f.list)
    /\ ToSet(f.list) \subseteq Formulas \cup ToSet(globals)

DefinitionsIn(uctx, globals) == \A i \in 1..Len(uctx) : Defines(uctx[i], globals)

Levelled(s, x) ==
    /\ s \in Engine /\ s.inited
    /\ Len(s.uctx) >= 2 /\ s.uctx[1] = Bottom
    /\ Len(s.uctx) = 2 + Len(s.levels) + x
    /\ Len(s.prop) = Len(s.uctx) - 1 /\ s.sctx = Len(s.uctx) - 1
    /\ \A i \in 1..Len(s.levels) : s.levels[i] = i

Sound(uctx, prop, globals) ==
    /\ Handed(uctx, prop)
    /\ Extending(uctx)
    /\ DefinitionsIn(uctx, globals)

Ready(s, x) == Levelled(s, x) /\ Sound(s.uctx, s.prop, s.globals)

\* Before finishInit.
Fresh(s) ==
    /\ s \in Engine /\ ~s.inited
    /\ s.uctx = <<Bottom>> /\ s.levels = << >> /\ s.pending = 0
    /\ s.globals = << >> /\ s.sctx = 0 /\ s.prop = << {} >>

\* Between two commands of an engine that can be used.
Between(s) == Fresh(s) \/ Ready(s, s.pending)

\* The engine can be used; it threw in the middle of a check; it is destroyed.
Lives ==
    /\ st.usable /\ ~st.destroyed /\ Between(st)
    /\ st.pending \in 0..1 /\ Len(st.levels) <= MaxPush

Broken ==
    /\ ~st.usable /\ ~st.destroyed /\ \E x \in 0..1 : Levelled(st, x)
    /\ st.pending = 0 /\ Len(st.levels) <= MaxPush

Gone ==
    /\ st.destroyed /\ st \in Engine
    /\ Len(st.prop) = 1 /\ Len(st.uctx) = 1 /\ st.sctx = 0
    /\ st.levels = << >> /\ st.pending = 0

IInv == Lives \/ Broken \/ Gone

-----------------------------------------------------------------------------
(***************************************************************************)
(* The engine as a record: what each method leaves in the fields that the  *)
(* properties are about.                                                   *)
(***************************************************************************)
\* The fields that no method of the contexts or the assertions changes.
Keeps(r, s) ==
    /\ r.globals = s.globals /\ r.usable = s.usable /\ r.destroyed = s.destroyed

\* The types of the fields.
LEMMA EngineFields ==
  ASSUME NEW s \in Engine
  PROVE  /\ s.inited \in BOOLEAN /\ s.mode \in Mode /\ s.queryMade \in BOOLEAN
         /\ s.uctx \in Seq(Frame) /\ Len(s.uctx) \in Nat
         /\ s.levels \in Seq(Nat) /\ Len(s.levels) \in Nat
         /\ s.pending \in Nat /\ s.postsolve \in BOOLEAN
         /\ s.globals \in Seq(Definitions) /\ Len(s.globals) \in Nat
         /\ s.sctx \in Int /\ s.prop \in Seq(SUBSET All) /\ Len(s.prop) \in Nat
         /\ s.trail \in BOOLEAN /\ s.usable \in BOOLEAN /\ s.destroyed \in BOOLEAN
BY DEF Engine

\* The fields of a frame.
LEMMA FrameFields ==
  ASSUME NEW f \in Frame
  PROVE  /\ f.list \in Seq(All) /\ Len(f.list) \in Nat
         /\ f.next \in Nat /\ f.gnext \in Nat
BY DEF Frame, All

\* ContextManager::push.
LEMMA PushContextsFields ==
  ASSUME NEW s \in Engine, s.uctx # << >>
  PROVE  LET r == PushContexts(s) IN
         /\ r \in Engine /\ Keeps(r, s)
         /\ r.uctx = Append(s.uctx, s.uctx[Len(s.uctx)]) /\ r.sctx = s.sctx + 1
         /\ r.inited = s.inited /\ r.levels = s.levels /\ r.pending = s.pending
         /\ r.prop = s.prop
<1>1. s.uctx \in Seq(Frame) /\ Last(s.uctx) = s.uctx[Len(s.uctx)] /\ Len(s.uctx) \in Nat \ {0}
  BY EngineFields, EmptySeq DEF Last
<1>2. Append(s.uctx, Last(s.uctx)) \in Seq(Frame) /\ s.sctx + 1 \in Int
  BY <1>1, EngineFields
<1> QED
  BY <1>1, <1>2 DEF PushContexts, Engine, Keeps

\* n levels popped.
LEMMA PopLevelsFields ==
  ASSUME NEW s \in Engine, NEW n \in Nat, n <= Len(s.uctx), n <= Len(s.prop)
  PROVE  LET r == PopLevels(s, n) IN
         /\ r \in Engine /\ Keeps(r, s)
         /\ r.uctx = SubSeq(s.uctx, 1, Len(s.uctx) - n) /\ r.sctx = s.sctx - n
         /\ r.prop = SubSeq(s.prop, 1, Len(s.prop) - n)
         /\ r.inited = s.inited /\ r.levels = s.levels /\ r.pending = s.pending
<1>1. /\ SubSeq(s.uctx, 1, Len(s.uctx) - n) \in Seq(Frame) /\ s.sctx - n \in Int
      /\ SubSeq(s.prop, 1, Len(s.prop) - n) \in Seq(SUBSET All)
  BY EngineFields, Prefix
<1> QED
  BY <1>1 DEF PopLevels, PoppedUctx, Engine, Keeps

\* ContextManager::postsolve.
LEMMA PostSolveFields ==
  ASSUME NEW s \in Engine
  PROVE  LET r == PostSolve(s) IN
         /\ r \in Engine /\ Keeps(r, s)
         /\ r.uctx = s.uctx /\ r.sctx = s.sctx /\ r.prop = s.prop
         /\ r.inited = s.inited /\ r.levels = s.levels /\ r.pending = s.pending
<1>1. (s.trail /\ ~s.postsolve) \in BOOLEAN
  OBVIOUS
<1> QED
  BY <1>1 DEF PostSolve, Engine, Keeps

\* ContextManager::doPendingPops.
LEMMA DoPendingPopsFields ==
  ASSUME NEW s \in Engine, s.pending <= Len(s.uctx), s.pending <= Len(s.prop)
  PROVE  LET r == DoPendingPops(s) IN
         /\ r \in Engine /\ Keeps(r, s)
         /\ r.uctx = SubSeq(s.uctx, 1, Len(s.uctx) - s.pending)
         /\ r.sctx = s.sctx - s.pending
         /\ r.prop = SubSeq(s.prop, 1, Len(s.prop) - s.pending)
         /\ r.inited = s.inited /\ r.levels = s.levels /\ r.pending = 0
<1>1. PICK q \in Engine : q = PostSolve(s)
  BY PostSolveFields
<1>2. /\ Keeps(q, s) /\ q.uctx = s.uctx /\ q.sctx = s.sctx /\ q.prop = s.prop
      /\ q.inited = s.inited /\ q.levels = s.levels /\ q.pending = s.pending
  BY <1>1, PostSolveFields
<1>3. PICK n \in Nat : n = s.pending
  BY EngineFields
<1>4. PICK r : r = PopLevels(q, n)
  OBVIOUS
<1>5. /\ r \in Engine /\ Keeps(r, q) /\ r.uctx = SubSeq(q.uctx, 1, Len(q.uctx) - n)
      /\ r.sctx = q.sctx - n /\ r.prop = SubSeq(q.prop, 1, Len(q.prop) - n)
      /\ r.inited = q.inited /\ r.levels = q.levels
  BY <1>2, <1>3, <1>4, PopLevelsFields
<1>6. PICK t : t = DoPendingPops(s)
  OBVIOUS
<1>7. t = [r EXCEPT !.pending = 0]
  BY <1>1, <1>3, <1>4, <1>6 DEF DoPendingPops
<1>8. /\ t \in Engine /\ Keeps(t, r) /\ t.uctx = r.uctx /\ t.sctx = r.sctx
      /\ t.prop = r.prop /\ t.inited = r.inited /\ t.levels = r.levels /\ t.pending = 0
  BY <1>5, <1>7 DEF Engine, Keeps
<1>9. Keeps(t, s)
  BY <1>2, <1>5, <1>8 DEF Keeps
<1> QED
  BY <1>2, <1>3, <1>5, <1>6, <1>8, <1>9

\* Replacing the frame on top.
LEMMA SetTopFields ==
  ASSUME NEW s \in Engine, s.uctx # << >>, NEW f \in Frame
  PROVE  LET r == SetTop(s, f) IN
         /\ r \in Engine /\ Keeps(r, s)
         /\ r.uctx = Append(Front(s.uctx), f)
         /\ Len(r.uctx) = Len(s.uctx) /\ Top(r) = f
         /\ \A i \in 1..(Len(s.uctx) - 1) : r.uctx[i] = s.uctx[i]
         /\ r.sctx = s.sctx /\ r.prop = s.prop
         /\ r.inited = s.inited /\ r.levels = s.levels /\ r.pending = s.pending
<1>1. s.uctx \in Seq(Frame)
  BY EngineFields
<1>2. PICK u \in Seq(Frame) : u = Append(Front(s.uctx), f)
  BY <1>1, ReplaceLast
<1>3. Len(u) = Len(s.uctx) /\ u[Len(u)] = f /\ \A i \in 1..(Len(s.uctx) - 1) : u[i] = s.uctx[i]
  BY <1>1, <1>2, ReplaceLast
<1>4. PICK r : r = SetTop(s, f)
  OBVIOUS
<1>5. r = [s EXCEPT !.uctx = u]
  BY <1>2, <1>4 DEF SetTop
<1>6. /\ r \in Engine /\ Keeps(r, s) /\ r.uctx = u
      /\ r.sctx = s.sctx /\ r.prop = s.prop
      /\ r.inited = s.inited /\ r.levels = s.levels /\ r.pending = s.pending
  BY <1>5 DEF Engine, Keeps
<1>7. Top(r) = f
  BY <1>3, <1>6 DEF Top, Last
<1> QED
  BY <1>2, <1>3, <1>4, <1>6, <1>7

-----------------------------------------------------------------------------
(***************************************************************************)
(* The three things that happen to the levels: some are popped, a copy of  *)
(* the top one is pushed, the top one gets more assertions.                *)
(***************************************************************************)
\* What the PropEngine holds, by levels.
LEMMA HeldIs ==
  ASSUME NEW S, NEW prop \in Seq(SUBSET S), NEW i \in 1..(Len(prop) + 1)
  PROVE  Held(prop, i) = UNION {prop[j] : j \in 1..(i - 1)}
<1>1. i - 1 \in 0..Len(prop)
  OBVIOUS
<1>2. ToSet(SubSeq(prop, 1, i - 1)) = {prop[j] : j \in 1..(i - 1)}
  BY <1>1, SegmentSet
<1> QED
  BY <1>2 DEF Held

\* If the first levels agree, so does what they hold.
LEMMA HeldSame ==
  ASSUME NEW S, NEW p \in Seq(SUBSET S), NEW q \in Seq(SUBSET S),
         NEW i \in 1..(Len(p) + 1), i \in 1..(Len(q) + 1),
         \A j \in 1..(i - 1) : p[j] = q[j]
  PROVE  Held(p, i) = Held(q, i)
<1>1. {p[j] : j \in 1..(i - 1)} = {q[j] : j \in 1..(i - 1)}
  OBVIOUS
<1> QED
  BY <1>1, HeldIs

\* Popped levels.
LEMMA SoundPopped ==
  ASSUME NEW uctx \in Seq(Frame), NEW prop \in Seq(SUBSET All),
         NEW globals \in Seq(Definitions), Sound(uctx, prop, globals),
         Len(prop) = Len(uctx) - 1, NEW k \in 1..Len(uctx)
  PROVE  Sound(SubSeq(uctx, 1, k), SubSeq(prop, 1, k - 1), globals)
<1>1. PICK u \in Seq(Frame) : u = SubSeq(uctx, 1, k) /\ Len(u) = k /\ \A i \in 1..k : u[i] = uctx[i]
  <2>1. k \in 0..Len(uctx)
    OBVIOUS
  <2> QED
    BY <2>1, Prefix
<1>2. Len(uctx) \in Nat /\ k - 1 \in 0..Len(prop)
  OBVIOUS
<1>3. PICK q \in Seq(SUBSET All) :
        q = SubSeq(prop, 1, k - 1) /\ Len(q) = k - 1 /\ \A i \in 1..(k - 1) : q[i] = prop[i]
  BY <1>2, Prefix
<1>4. Handed(u, q)
  <2> SUFFICES ASSUME NEW i \in 2..k
               PROVE  /\ u[i].next <= Len(u[i].list)
                      /\ ToSet(SubSeq(u[i].list, 1, u[i].next)) = Held(q, i)
    BY <1>1 DEF Handed
  <2>1. /\ uctx[i].next <= Len(uctx[i].list)
        /\ ToSet(SubSeq(uctx[i].list, 1, uctx[i].next)) = Held(prop, i)
    BY <1>2 DEF Sound, Handed
  <2>2. i \in 1..(Len(q) + 1) /\ i \in 1..(Len(prop) + 1) /\ \A j \in 1..(i - 1) : q[j] = prop[j]
    BY <1>2, <1>3
  <2>3. Held(q, i) = Held(prop, i)
    BY <2>2, HeldSame
  <2> QED
    BY <1>1, <2>1, <2>3
<1>5. Extending(u)
  BY <1>1, <1>2 DEF Sound, Extending
<1>6. DefinitionsIn(u, globals)
  BY <1>1, <1>2 DEF Sound, DefinitionsIn
<1> QED
  BY <1>1, <1>3, <1>4, <1>5, <1>6 DEF Sound

\* A pushed level.
LEMMA SoundPushed ==
  ASSUME NEW uctx \in Seq(Frame), NEW prop \in Seq(SUBSET All),
         NEW globals \in Seq(Definitions), Sound(uctx, prop, globals),
         Len(prop) = Len(uctx) - 1, Len(uctx) >= 2
  PROVE  Sound(Append(uctx, uctx[Len(uctx)]), Append(prop, {}), globals)
<1>1. PICK n \in Nat : n = Len(uctx) /\ n >= 2 /\ n \in 1..n /\ Len(prop) = n - 1
  OBVIOUS
<1>2. uctx[n] \in Frame
  BY <1>1
<1>3. PICK u \in Seq(Frame) : /\ u = Append(uctx, uctx[n]) /\ Len(u) = n + 1
                              /\ \A i \in 1..n : u[i] = uctx[i]
                              /\ u[n + 1] = uctx[n]
  <2>1. PICK f \in Frame : f = uctx[n]
    BY <1>2
  <2>2. /\ Append(uctx, f) \in Seq(Frame) /\ Len(Append(uctx, f)) = n + 1
        /\ \A i \in 1..n : Append(uctx, f)[i] = uctx[i]
        /\ Append(uctx, f)[n + 1] = f
    BY <1>1
  <2> QED
    BY <2>1, <2>2
<1>4. PICK q \in Seq(SUBSET All) : /\ q = Append(prop, {}) /\ Len(q) = n
                                   /\ \A i \in 1..(n - 1) : q[i] = prop[i]
                                   /\ q[n] = {}
  <2>1. PICK e \in SUBSET All : e = {}
    OBVIOUS
  <2>2. /\ Append(prop, e) \in Seq(SUBSET All) /\ Len(Append(prop, e)) = n
        /\ \A i \in 1..(n - 1) : Append(prop, e)[i] = prop[i]
        /\ Append(prop, e)[n] = e
    BY <1>1
  <2> QED
    BY <2>1, <2>2
<1>5. Handed(u, q)
  <2> SUFFICES ASSUME NEW i \in 2..(n + 1)
               PROVE  /\ u[i].next <= Len(u[i].list)
                      /\ ToSet(SubSeq(u[i].list, 1, u[i].next)) = Held(q, i)
    BY <1>3 DEF Handed
  <2>1. CASE i \in 2..n
    <3>1. /\ uctx[i].next <= Len(uctx[i].list)
          /\ ToSet(SubSeq(uctx[i].list, 1, uctx[i].next)) = Held(prop, i)
      BY <1>1, <2>1 DEF Sound, Handed
    <3>2. i \in 1..(Len(q) + 1) /\ i \in 1..(Len(prop) + 1) /\ \A j \in 1..(i - 1) : q[j] = prop[j]
      BY <1>1, <1>4, <2>1
    <3>3. Held(q, i) = Held(prop, i)
      BY <3>2, HeldSame
    <3> QED
      BY <1>1, <1>3, <2>1, <3>1, <3>3
  <2>2. CASE i = n + 1
    <3>1. /\ uctx[n].next <= Len(uctx[n].list)
          /\ ToSet(SubSeq(uctx[n].list, 1, uctx[n].next)) = Held(prop, n)
      BY <1>1 DEF Sound, Handed
    <3>2. Held(q, n + 1) = Held(prop, n)
      <4>1. n + 1 \in 1..(Len(q) + 1) /\ n \in 1..(Len(prop) + 1) /\ (n + 1) - 1 = n
        BY <1>1, <1>4
      <4>2. Held(q, n + 1) = UNION {q[j] : j \in 1..n} /\ Held(prop, n) = UNION {prop[j] : j \in 1..(n - 1)}
        BY <4>1, HeldIs
      <4>3. \A j \in 1..n : j \in 1..(n - 1) \/ j = n
        BY <1>1
      <4>4. \A j \in 1..(n - 1) : j \in 1..n
        BY <1>1
      <4>5. UNION {q[j] : j \in 1..n} = UNION {prop[j] : j \in 1..(n - 1)}
        BY <1>4, <4>3, <4>4
      <4> QED
        BY <4>2, <4>5
    <3> QED
      BY <1>3, <2>2, <3>1, <3>2
  <2> QED
    BY <1>1, <2>1, <2>2
<1>6. PICK c \in [1..(n + 1) -> 1..n] : /\ \A i \in 1..(n + 1) : u[i] = uctx[c[i]]
                                        /\ \A i, j \in 1..(n + 1) : i <= j => c[i] <= c[j]
  <2> DEFINE c == [i \in 1..(n + 1) |-> IF i = n + 1 THEN n ELSE i]
  <2>1. c \in [1..(n + 1) -> 1..n]
    BY <1>1
  <2>2. \A i \in 1..(n + 1) : u[i] = uctx[c[i]]
    BY <1>1, <1>3
  <2>3. \A i, j \in 1..(n + 1) : i <= j => c[i] <= c[j]
    BY <1>1
  <2> QED
    BY <2>1, <2>2, <2>3
<1>7. Extending(u)
  <2> SUFFICES ASSUME NEW i \in 1..(n + 1), NEW j \in 1..(n + 1), i <= j
               PROVE  Extends(u[i], u[j])
    BY <1>3 DEF Extending
  <2>1. c[i] \in 1..n /\ c[j] \in 1..n /\ c[i] <= c[j] /\ u[i] = uctx[c[i]] /\ u[j] = uctx[c[j]]
    BY <1>6
  <2> QED
    BY <1>1, <2>1 DEF Sound, Extending
<1>8. DefinitionsIn(u, globals)
  BY <1>1, <1>3, <1>6 DEF Sound, DefinitionsIn
<1> QED
  BY <1>1, <1>3, <1>4, <1>5, <1>7, <1>8 DEF Sound

\* A top level with more assertions, and perhaps more of them handed over.
LEMMA SoundTop ==
  ASSUME NEW uctx \in Seq(Frame), NEW prop \in Seq(SUBSET All),
         NEW globals \in Seq(Definitions), Sound(uctx, prop, globals),
         NEW n \in Nat, n >= 2, Len(uctx) = n, Len(prop) = n - 1,
         NEW u \in Seq(Frame), Len(u) = n, \A i \in 1..(n - 1) : u[i] = uctx[i],
         NEW q \in Seq(SUBSET All), Len(q) = n - 1, \A i \in 1..(n - 2) : q[i] = prop[i],
         Extends(uctx[n], u[n]), Defines(u[n], globals),
         u[n].next <= Len(u[n].list),
         ToSet(SubSeq(u[n].list, 1, u[n].next)) = Held(q, n)
  PROVE  Sound(u, q, globals)
<1>1. \A i \in 1..n : i \in 1..(n - 1) \/ i = n
  OBVIOUS
<1>2. \A i \in 1..n : uctx[i] \in Frame /\ u[i] \in Frame
  OBVIOUS
<1>3. Handed(u, q)
  <2> SUFFICES ASSUME NEW i \in 2..n
               PROVE  /\ u[i].next <= Len(u[i].list)
                      /\ ToSet(SubSeq(u[i].list, 1, u[i].next)) = Held(q, i)
    BY DEF Handed
  <2>1. CASE i \in 2..(n - 1)
    <3>1. /\ uctx[i].next <= Len(uctx[i].list)
          /\ ToSet(SubSeq(uctx[i].list, 1, uctx[i].next)) = Held(prop, i)
      BY DEF Sound, Handed
    <3>2. i \in 1..(Len(q) + 1) /\ i \in 1..(Len(prop) + 1) /\ \A j \in 1..(i - 1) : q[j] = prop[j]
      BY <2>1
    <3>3. Held(q, i) = Held(prop, i)
      BY <3>2, HeldSame
    <3>4. u[i] = uctx[i]
      BY <2>1
    <3> QED
      BY <3>1, <3>3, <3>4
  <2>2. CASE i = n
    BY <2>2
  <2> QED
    BY <2>1, <2>2
<1>4. Extending(u)
  <2> SUFFICES ASSUME NEW i \in 1..n, NEW j \in 1..n, i <= j PROVE Extends(u[i], u[j])
    BY DEF Extending
  <2>1. Extends(uctx[i], uctx[j])
    BY DEF Sound, Extending
  <2>2. CASE j \in 1..(n - 1)
    BY <2>1, <2>2
  <2>3. CASE i \in 1..(n - 1) /\ j = n
    <3>1. u[i] = uctx[i]
      BY <2>3
    <3>2. /\ Len(uctx[i].list) \in Nat /\ Len(uctx[n].list) \in Nat /\ Len(u[n].list) \in Nat
      BY <1>2, FrameFields
    <3> QED
      BY <2>1, <2>3, <3>1, <3>2 DEF Extends
  <2>4. CASE i = n /\ j = n
    <3>1. Len(u[n].list) \in Nat
      BY <1>2, FrameFields
    <3> QED
      BY <2>4, <3>1 DEF Extends
  <2> QED
    BY <1>1, <2>2, <2>3, <2>4
<1>5. DefinitionsIn(u, globals)
  BY <1>1 DEF Sound, DefinitionsIn
<1> QED
  BY <1>3, <1>4, <1>5 DEF Sound

\* Assertions added to a frame extend it and keep the part handed over.
LEMMA ListExtended ==
  ASSUME NEW f \in Frame, NEW g \in Frame, NEW d \in Seq(All), g.list = f.list \o d,
         f.next <= Len(f.list)
  PROVE  /\ Extends(f, g) /\ ToSet(g.list) = ToSet(f.list) \cup ToSet(d)
         /\ Len(g.list) = Len(f.list) + Len(d)
         /\ ToSet(SubSeq(g.list, 1, f.next)) = ToSet(SubSeq(f.list, 1, f.next))
<1>1. PICK l \in Seq(All) : l = f.list
  BY FrameFields
<1>2. PICK m \in Seq(All) : m = g.list
  BY FrameFields
<1>3. /\ Len(m) = Len(l) + Len(d) /\ \A i \in 1..Len(l) : m[i] = l[i]
      /\ Len(l) \in Nat /\ Len(d) \in Nat
  BY <1>1, <1>2, Concat
<1>4. PICK k \in 0..Len(l) : k = f.next
  BY <1>1, FrameFields
<1>5. k \in 0..Len(m) /\ \A p \in 1..k : m[p] = l[p]
  BY <1>3
<1>6. ToSet(SubSeq(l, 1, k)) = {l[p] : p \in 1..k} /\ ToSet(SubSeq(m, 1, k)) = {m[p] : p \in 1..k}
  BY <1>5, SegmentSet
<1>7. {l[p] : p \in 1..k} = {m[p] : p \in 1..k}
  BY <1>5
<1>8. ToSet(m) = ToSet(l) \cup ToSet(d)
  BY <1>1, <1>2, ConcatSet
<1>9. Extends(f, g)
  BY <1>1, <1>2, <1>3 DEF Extends
<1> QED
  BY <1>1, <1>2, <1>3, <1>4, <1>6, <1>7, <1>8, <1>9

-----------------------------------------------------------------------------
(***************************************************************************)
(* The methods, on records that are ready.                                 *)
(***************************************************************************)
\* The top frame of a record that is ready.
LEMMA ReadyTop ==
  ASSUME NEW s, NEW x \in Int, Ready(s, x)
  PROVE  /\ s \in Engine /\ s.uctx \in Seq(Frame) /\ s.uctx # << >>
         /\ Len(s.uctx) \in Nat /\ Len(s.uctx) >= 2 /\ Len(s.uctx) \in 1..Len(s.uctx)
         /\ Top(s) = s.uctx[Len(s.uctx)] /\ Top(s) \in Frame
         /\ Top(s).next <= Len(Top(s).list)
         /\ ToSet(SubSeq(Top(s).list, 1, Top(s).next)) = Held(s.prop, Len(s.uctx))
         /\ Defines(Top(s), s.globals)
         /\ s.prop \in Seq(SUBSET All) /\ Len(s.prop) = Len(s.uctx) - 1
         /\ s.globals \in Seq(Definitions) /\ Len(s.globals) \in Nat
<1>1. /\ s \in Engine /\ Len(s.uctx) >= 2 /\ Len(s.prop) = Len(s.uctx) - 1
      /\ Handed(s.uctx, s.prop) /\ DefinitionsIn(s.uctx, s.globals)
  BY DEF Ready, Levelled, Sound
<1>2. /\ s.uctx \in Seq(Frame) /\ Len(s.uctx) \in Nat /\ s.prop \in Seq(SUBSET All)
      /\ s.globals \in Seq(Definitions) /\ Len(s.globals) \in Nat
  BY <1>1, EngineFields
<1>3. Len(s.uctx) \in 2..Len(s.uctx) /\ s.uctx # << >> /\ Len(s.uctx) \in 1..Len(s.uctx)
  BY <1>1, <1>2
<1>4. Top(s) = s.uctx[Len(s.uctx)] /\ s.uctx[Len(s.uctx)] \in Frame
  BY <1>2, <1>3 DEF Top, Last
<1> QED
  BY <1>1, <1>2, <1>3, <1>4 DEF Handed, DefinitionsIn

\* More assertions on top.
LEMMA ReadySetTop ==
  ASSUME NEW s, NEW x \in Int, Ready(s, x), NEW f \in Frame,
         Extends(Top(s), f), Defines(f, s.globals), f.next <= Len(f.list),
         ToSet(SubSeq(f.list, 1, f.next)) = ToSet(SubSeq(Top(s).list, 1, Top(s).next))
  PROVE  Ready(SetTop(s, f), x)
<1>1. PICK n \in Nat : n = Len(s.uctx) /\ n >= 2
  BY ReadyTop
<1>2. PICK r : r = SetTop(s, f)
  OBVIOUS
<1>3. /\ r \in Engine /\ Keeps(r, s) /\ Len(r.uctx) = n /\ Top(r) = f
      /\ \A i \in 1..(n - 1) : r.uctx[i] = s.uctx[i]
      /\ r.sctx = s.sctx /\ r.prop = s.prop
      /\ r.inited = s.inited /\ r.levels = s.levels /\ r.pending = s.pending
  BY <1>1, <1>2, ReadyTop, SetTopFields
<1>4. r.uctx[n] = f /\ r.uctx \in Seq(Frame) /\ r.globals = s.globals
  BY <1>3, EngineFields DEF Top, Last, Keeps
<1>5. Levelled(r, x)
  BY <1>1, <1>3, <1>4 DEF Ready, Levelled
<1>6. Sound(r.uctx, r.prop, r.globals)
  <2>1. /\ s.uctx \in Seq(Frame) /\ s.prop \in Seq(SUBSET All) /\ s.globals \in Seq(Definitions)
        /\ Len(s.prop) = n - 1 /\ Top(s) = s.uctx[n]
        /\ ToSet(SubSeq(f.list, 1, f.next)) = Held(s.prop, n)
        /\ Sound(s.uctx, s.prop, s.globals)
    BY <1>1, ReadyTop DEF Ready
  <2> QED
    BY <1>1, <1>3, <1>4, <2>1, SoundTop
<1> QED
  BY <1>2, <1>5, <1>6 DEF Ready

\* Assertions::refresh: the definitions that the level lacks are asserted.
LEMMA RefreshReady ==
  ASSUME NEW s, NEW x \in Int, Ready(s, x)
  PROVE  LET r == Refresh(s) IN
         /\ Ready(r, x) /\ Keeps(r, s)
         /\ Len(r.uctx) = Len(s.uctx) /\ \A i \in 1..(Len(s.uctx) - 1) : r.uctx[i] = s.uctx[i]
         /\ \E d \in Seq(Definitions) : Top(r).list = Top(s).list \o d
         /\ ToSet(s.globals) \subseteq ToSet(Top(r).list)
         /\ Top(r).next = Top(s).next
         /\ r.sctx = s.sctx /\ r.prop = s.prop
         /\ r.inited = s.inited /\ r.levels = s.levels /\ r.pending = s.pending
<1>1. PICK t \in Frame : t = Top(s)
  BY ReadyTop
<1>2. PICK G \in Seq(Definitions) : G = s.globals
  BY ReadyTop
<1>3. /\ t.list \in Seq(All) /\ Len(t.list) \in Nat /\ t.next \in Nat /\ t.gnext \in Nat
      /\ t.next <= Len(t.list) /\ Defines(t, G) /\ Len(G) \in Nat
  BY <1>1, <1>2, ReadyTop, FrameFields
<1>4. PICK d : d = SubSeq(G, t.gnext + 1, Len(G))
  OBVIOUS
<1>5. d \in Seq(Definitions) /\ ToSet(d) = {G[p] : p \in (t.gnext + 1)..Len(G)}
  <2>1. t.gnext + 1 \in Nat \ {0} /\ Len(G) \in 0..Len(G)
    BY <1>3
  <2> QED
    BY <1>4, <2>1, Segment, SegmentSet
<1>6. d \in Seq(All)
  BY <1>5 DEF All
<1>7. PICK f : f = [t EXCEPT !.list = t.list \o d, !.gnext = Len(G)]
  OBVIOUS
<1>8. f \in Frame /\ f.list = t.list \o d /\ f.next = t.next /\ f.gnext = Len(G)
  <2>1. t.list \o d \in Seq(Formulas \cup Definitions)
    BY <1>3, <1>6, Concat DEF All
  <2> QED
    BY <1>3, <1>7, <2>1 DEF Frame
<1>9. Refresh(s) = SetTop(s, f)
  BY <1>1, <1>2, <1>4, <1>7 DEF Refresh
<1>10. /\ Extends(t, f) /\ ToSet(f.list) = ToSet(t.list) \cup ToSet(d)
       /\ Len(f.list) = Len(t.list) + Len(d)
       /\ ToSet(SubSeq(f.list, 1, f.next)) = ToSet(SubSeq(t.list, 1, t.next))
  BY <1>3, <1>6, <1>8, ListExtended
<1>11. ToSet(G) = {G[p] : p \in 1..Len(G)}
  BY SeqSet
<1>12. ToSet(G) \subseteq ToSet(f.list)
  <2> SUFFICES ASSUME NEW p \in 1..Len(G) PROVE G[p] \in ToSet(t.list) \cup ToSet(d)
    BY <1>10, <1>11
  <2>1. CASE p <= t.gnext
    BY <1>3, <2>1 DEF Defines
  <2>2. CASE ~(p <= t.gnext)
    <3>1. p \in (t.gnext + 1)..Len(G)
      BY <1>3, <2>2
    <3> QED
      BY <1>5, <3>1
  <2> QED
    BY <2>1, <2>2
<1>13. ToSet(d) \subseteq ToSet(G)
  <2>1. \A p \in (t.gnext + 1)..Len(G) : p \in 1..Len(G)
    BY <1>3
  <2> QED
    BY <1>5, <1>11, <2>1
<1>14. Defines(f, G)
  <2>1. \A g \in 1..Len(G) : G[g] \in ToSet(f.list)
    BY <1>11, <1>12
  <2>2. ToSet(f.list) \subseteq Formulas \cup ToSet(G)
    BY <1>3, <1>10, <1>13 DEF Defines
  <2> QED
    BY <1>3, <1>8, <2>1, <2>2 DEF Defines
<1>15. Len(d) \in Nat /\ f.next <= Len(f.list)
  BY <1>3, <1>5, <1>8, <1>10
<1>16. Ready(SetTop(s, f), x)
  BY <1>1, <1>2, <1>8, <1>10, <1>14, <1>15, ReadySetTop
<1>17. PICK r : r = SetTop(s, f)
  OBVIOUS
<1>18. /\ Keeps(r, s) /\ Len(r.uctx) = Len(s.uctx) /\ Top(r) = f
       /\ \A i \in 1..(Len(s.uctx) - 1) : r.uctx[i] = s.uctx[i]
       /\ r.sctx = s.sctx /\ r.prop = s.prop
       /\ r.inited = s.inited /\ r.levels = s.levels /\ r.pending = s.pending
  BY <1>8, <1>17, ReadyTop, SetTopFields
<1> QED
  BY <1>1, <1>2, <1>5, <1>8, <1>9, <1>12, <1>16, <1>17, <1>18

\* SmtDriver::getNextAssertions counts all assertions of the level as handed
\* over; the levels stay as they are.
LEMMA GetNextAssertionsLevelled ==
  ASSUME NEW s, NEW x \in Int, Ready(s, x)
  PROVE  LET r == GetNextAssertions(s) IN
         /\ Levelled(r, x) /\ Keeps(r, s)
         /\ Len(r.uctx) = Len(s.uctx) /\ \A i \in 1..(Len(s.uctx) - 1) : r.uctx[i] = s.uctx[i]
         /\ Top(r) = [Top(Refresh(s)) EXCEPT !.next = Len(Top(Refresh(s)).list)]
         /\ Top(r) \in Frame
         /\ r.sctx = s.sctx /\ r.prop = s.prop
         /\ r.inited = s.inited /\ r.levels = s.levels /\ r.pending = s.pending
<1>1. PICK q : q = Refresh(s)
  OBVIOUS
<1>2. /\ Ready(q, x) /\ Keeps(q, s)
      /\ Len(q.uctx) = Len(s.uctx) /\ \A i \in 1..(Len(s.uctx) - 1) : q.uctx[i] = s.uctx[i]
      /\ q.sctx = s.sctx /\ q.prop = s.prop
      /\ q.inited = s.inited /\ q.levels = s.levels /\ q.pending = s.pending
  BY <1>1, RefreshReady
<1>3. PICK t \in Frame : t = Top(q)
  BY <1>2, ReadyTop
<1>4. PICK f : f = [t EXCEPT !.next = Len(t.list)]
  OBVIOUS
<1>5. f \in Frame
  BY <1>4, FrameFields DEF Frame
<1>6. PICK r : r = GetNextAssertions(s)
  OBVIOUS
<1>7. r = SetTop(q, f)
  BY <1>1, <1>3, <1>4, <1>6 DEF GetNextAssertions
<1>8. /\ r \in Engine /\ Keeps(r, q) /\ Len(r.uctx) = Len(q.uctx) /\ Top(r) = f
      /\ \A i \in 1..(Len(q.uctx) - 1) : r.uctx[i] = q.uctx[i]
      /\ r.sctx = q.sctx /\ r.prop = q.prop
      /\ r.inited = q.inited /\ r.levels = q.levels /\ r.pending = q.pending
  BY <1>2, <1>5, <1>7, ReadyTop, SetTopFields
<1>9. Keeps(r, s)
  BY <1>2, <1>8 DEF Keeps
<1>10. Levelled(r, x)
  <2>1. 1 \in 1..(Len(q.uctx) - 1)
    BY <1>2, ReadyTop
  <2> QED
    BY <1>2, <1>8, <2>1 DEF Ready, Levelled
<1> QED
  BY <1>1, <1>2, <1>3, <1>4, <1>5, <1>6, <1>8, <1>9, <1>10

(***************************************************************************)
(* SmtDriver::refreshAssertions: afterwards the PropEngine holds all       *)
(* assertions of the level, the definitions among them.                    *)
(***************************************************************************)
LEMMA RefreshAssertionsReady ==
  ASSUME NEW s, NEW x \in Int, Ready(s, x)
  PROVE  LET r == RefreshAssertions(s) IN
         /\ Ready(r, x) /\ Keeps(r, s)
         /\ Len(r.uctx) = Len(s.uctx) /\ \A i \in 1..(Len(s.uctx) - 1) : r.uctx[i] = s.uctx[i]
         /\ \E d \in Seq(Definitions) : Top(r).list = Top(s).list \o d
         /\ ToSet(s.globals) \subseteq ToSet(Top(r).list)
         /\ UNION ToSet(r.prop) = ToSet(Top(r).list)
         /\ r.inited = s.inited /\ r.levels = s.levels /\ r.pending = s.pending
<1>1. PICK n \in Nat : n = Len(s.uctx) /\ n >= 2
  BY ReadyTop
<1>2. PICK q : q = Refresh(s)
  OBVIOUS
<1>3. /\ Ready(q, x) /\ Len(q.uctx) = n /\ q.prop = s.prop
      /\ \A i \in 1..(n - 1) : q.uctx[i] = s.uctx[i]
      /\ \E d \in Seq(Definitions) : Top(q).list = Top(s).list \o d
      /\ ToSet(s.globals) \subseteq ToSet(Top(q).list) /\ q.globals = s.globals
  BY <1>1, <1>2, RefreshReady DEF Keeps
<1>4. PICK t \in Frame : t = Top(q)
  BY <1>3, ReadyTop
<1>5. PICK L \in Seq(All) : L = t.list
  BY FrameFields
<1>6. /\ t.next \in 0..Len(L) /\ Len(L) \in Nat
      /\ ToSet(SubSeq(L, 1, t.next)) = Held(s.prop, n) /\ Defines(t, s.globals)
      /\ t = q.uctx[n]
  <2>1. /\ Top(q) = q.uctx[Len(q.uctx)] /\ Top(q).next <= Len(Top(q).list)
        /\ ToSet(SubSeq(Top(q).list, 1, Top(q).next)) = Held(q.prop, Len(q.uctx))
        /\ Defines(Top(q), q.globals)
    BY <1>3, ReadyTop
  <2>2. t.next \in Nat /\ Len(L) \in Nat
    BY <1>5, FrameFields
  <2>3. t.next \in 0..Len(L)
    BY <1>4, <1>5, <2>1, <2>2
  <2> QED
    BY <1>3, <1>4, <1>5, <2>1, <2>2, <2>3
<1>7. PICK g : g = GetNextAssertions(s)
  OBVIOUS
<1>8. /\ Levelled(g, x) /\ Keeps(g, s) /\ Len(g.uctx) = n
      /\ \A i \in 1..(n - 1) : g.uctx[i] = s.uctx[i]
      /\ Top(g) = [t EXCEPT !.next = Len(t.list)] /\ Top(g) \in Frame
      /\ g.sctx = s.sctx /\ g.prop = s.prop
      /\ g.inited = s.inited /\ g.levels = s.levels /\ g.pending = s.pending
  BY <1>1, <1>2, <1>4, <1>7, GetNextAssertionsLevelled
<1>9. Top(g).list = L /\ Top(g).next = Len(L) /\ Top(g).gnext = t.gnext
  BY <1>5, <1>8 DEF Frame
<1>10. PICK A \in SUBSET All : A = NextAssertions(s) /\ A = {L[p] : p \in (t.next + 1)..Len(L)}
  <2>1. NextAssertions(s) = ToSet(SubSeq(L, t.next + 1, Len(L)))
    BY <1>2, <1>4, <1>5 DEF NextAssertions
  <2>2. t.next + 1 \in Nat \ {0} /\ Len(L) \in 0..Len(L)
    BY <1>6
  <2>3. ToSet(SubSeq(L, t.next + 1, Len(L))) = {L[p] : p \in (t.next + 1)..Len(L)}
    BY <2>2, SegmentSet
  <2>4. \A p \in (t.next + 1)..Len(L) : L[p] \in All
    BY <1>6
  <2> QED
    BY <2>1, <2>3, <2>4
<1>11. PICK P \in Seq(SUBSET All) : P = s.prop /\ Len(P) = n - 1
  BY <1>1, ReadyTop
<1>12. P[n - 1] \in SUBSET All /\ Last(P) = P[n - 1] /\ P # << >>
  BY <1>1, <1>11 DEF Last
<1>13. PICK B \in SUBSET All : B = P[n - 1] \cup A
  BY <1>12
<1>14. PICK Q : Q = Append(Front(P), B)
  OBVIOUS
<1>15. /\ Q \in Seq(SUBSET All) /\ Len(Q) = n - 1 /\ Q[n - 1] = B
       /\ \A i \in 1..(n - 2) : Q[i] = P[i]
  <2>1. /\ Q \in Seq(SUBSET All) /\ Len(Q) = Len(P) /\ Q[Len(P)] = B
        /\ \A i \in 1..(Len(P) - 1) : Q[i] = P[i]
    BY <1>12, <1>14, ReplaceLast
  <2>2. (n - 1) - 1 = n - 2
    OBVIOUS
  <2> QED
    BY <1>11, <2>1, <2>2
<1>16. PICK r : r = RefreshAssertions(s)
  OBVIOUS
<1>17. r = [g EXCEPT !.prop = Q]
  BY <1>7, <1>8, <1>10, <1>11, <1>12, <1>13, <1>14, <1>16 DEF RefreshAssertions
<1>18. /\ r \in Engine /\ Keeps(r, g) /\ r.uctx = g.uctx /\ r.sctx = g.sctx /\ r.prop = Q
       /\ r.inited = g.inited /\ r.levels = g.levels /\ r.pending = g.pending
  BY <1>8, <1>15, <1>17 DEF Levelled, Engine, Keeps
<1>19. Keeps(r, s)
  BY <1>8, <1>18 DEF Keeps
<1>20. Levelled(r, x)
  BY <1>1, <1>8, <1>11, <1>15, <1>18 DEF Levelled
\* The PropEngine held the first next assertions, and gets the others.
<1>21. Held(Q, n) = Held(P, n) \cup A
  <2>1. n \in 1..(Len(Q) + 1) /\ n \in 1..(Len(P) + 1)
    BY <1>1, <1>11, <1>15
  <2>2. Held(Q, n) = UNION {Q[j] : j \in 1..(n - 1)} /\ Held(P, n) = UNION {P[j] : j \in 1..(n - 1)}
    <3>1. Held(Q, n) = UNION {Q[j] : j \in 1..(n - 1)}
      BY <1>15, <2>1, HeldIs
    <3>2. Held(P, n) = UNION {P[j] : j \in 1..(n - 1)}
      BY <2>1, HeldIs
    <3> QED
      BY <3>1, <3>2
  <2>3. \A j \in 1..(n - 1) : j \in 1..(n - 2) \/ j = n - 1
    BY <1>1
  <2>4. n - 1 \in 1..(n - 1) /\ \A j \in 1..(n - 2) : j \in 1..(n - 1)
    BY <1>1
  <2>5. UNION {Q[j] : j \in 1..(n - 1)} = (UNION {P[j] : j \in 1..(n - 1)}) \cup A
    BY <1>13, <1>15, <2>3, <2>4
  <2> QED
    BY <2>2, <2>5
<1>22. ToSet(L) = Held(Q, n)
  <2>1. ToSet(SubSeq(L, 1, t.next)) = {L[p] : p \in 1..t.next} /\ ToSet(L) = {L[p] : p \in 1..Len(L)}
    BY <1>6, SegmentSet, SeqSet
  <2>2. \A p \in 1..Len(L) : p \in 1..t.next \/ p \in (t.next + 1)..Len(L)
    BY <1>6
  <2>3. \A p \in 1..t.next : p \in 1..Len(L)
    BY <1>6
  <2>4. \A p \in (t.next + 1)..Len(L) : p \in 1..Len(L)
    BY <1>6
  <2>5. {L[p] : p \in 1..Len(L)} = {L[p] : p \in 1..t.next} \cup {L[p] : p \in (t.next + 1)..Len(L)}
    BY <2>2, <2>3, <2>4
  <2> QED
    BY <1>6, <1>10, <1>11, <1>21, <2>1, <2>5
<1>23. PICK u \in Seq(Frame) : u = r.uctx /\ Len(u) = n /\ u[n] = Top(g)
  <2>1. r.uctx \in Seq(Frame) /\ Len(r.uctx) = n
    BY <1>8, <1>18, EngineFields
  <2> QED
    BY <1>8, <1>18, <2>1 DEF Top, Last
<1>24. Sound(r.uctx, r.prop, r.globals)
  <2>1. /\ q.uctx \in Seq(Frame) /\ q.globals \in Seq(Definitions)
        /\ Sound(q.uctx, P, q.globals)
    BY <1>3, <1>11, ReadyTop DEF Ready
  <2>2. \A i \in 1..(n - 1) : u[i] = q.uctx[i]
    BY <1>3, <1>8, <1>18, <1>23
  <2>3. Extends(q.uctx[n], u[n])
    BY <1>5, <1>6, <1>9, <1>23 DEF Extends
  <2>4. Defines(u[n], q.globals)
    BY <1>3, <1>5, <1>6, <1>9, <1>23 DEF Defines
  <2>5. u[n].next <= Len(u[n].list) /\ ToSet(SubSeq(u[n].list, 1, u[n].next)) = Held(Q, n)
    <3>1. SubSeq(L, 1, Len(L)) = L
      BY SubSeqFull
    <3>2. u[n].list = L /\ u[n].next = Len(L) /\ Len(L) <= Len(L)
      BY <1>6, <1>9, <1>23
    <3> QED
      BY <1>22, <3>1, <3>2
  <2>6. Sound(u, Q, q.globals)
    <3>1. PICK v \in Seq(Frame) : v = q.uctx /\ Len(v) = n
      BY <1>3, <2>1
    <3>2. PICK G \in Seq(Definitions) : G = q.globals
      BY <2>1
    <3>3. /\ Sound(v, P, G) /\ Extends(v[n], u[n]) /\ Defines(u[n], G)
          /\ \A i \in 1..(n - 1) : u[i] = v[i]
      BY <2>1, <2>2, <2>3, <2>4, <3>1, <3>2
    <3>4. Sound(u, Q, G)
      BY <1>1, <1>11, <1>15, <1>23, <2>5, <3>1, <3>3, SoundTop
    <3> QED
      BY <3>2, <3>4
  <2> QED
    BY <1>3, <1>18, <1>19, <1>23, <2>6 DEF Keeps
<1>25. UNION ToSet(r.prop) = ToSet(Top(r).list)
  <2>1. SubSeq(Q, 1, n - 1) = Q
    BY <1>15, SubSeqFull
  <2>2. Top(r) = Top(g)
    BY <1>18 DEF Top
  <2> QED
    BY <1>9, <1>18, <1>22, <2>1, <2>2 DEF Held
<1>26. Top(r).list = Top(q).list
  BY <1>4, <1>5, <1>9, <1>18 DEF Top
<1> QED
  BY <1>1, <1>3, <1>8, <1>16, <1>18, <1>19, <1>20, <1>24, <1>25, <1>26 DEF Ready

\* n levels are popped, the bottom one and the one of finishInit stay.
LEMMA PopLevelsReady ==
  ASSUME NEW s, NEW x \in Int, Ready(s, x), NEW n \in Nat, n <= Len(s.uctx) - 2
  PROVE  LET r == PopLevels(s, n) IN
         /\ Ready(r, x - n) /\ Keeps(r, s)
         /\ Len(r.uctx) = Len(s.uctx) - n
         /\ \A i \in 1..(Len(s.uctx) - n) : r.uctx[i] = s.uctx[i]
         /\ r.inited = s.inited /\ r.levels = s.levels /\ r.pending = s.pending
<1>1. /\ s \in Engine /\ Len(s.uctx) \in Nat /\ Len(s.prop) = Len(s.uctx) - 1
      /\ s.uctx \in Seq(Frame) /\ s.prop \in Seq(SUBSET All) /\ s.globals \in Seq(Definitions)
      /\ s.levels \in Seq(Nat) /\ Len(s.levels) \in Nat
  BY ReadyTop, EngineFields
<1>2. PICK k \in 1..Len(s.uctx) : k = Len(s.uctx) - n /\ k >= 2 /\ k - 1 = Len(s.prop) - n
  <2>1. /\ Len(s.uctx) - n \in 1..Len(s.uctx) /\ Len(s.uctx) - n >= 2
        /\ (Len(s.uctx) - n) - 1 = (Len(s.uctx) - 1) - n
    BY <1>1
  <2> QED
    BY <1>1, <2>1
<1>3. PICK r : r = PopLevels(s, n)
  OBVIOUS
<1>4. /\ r \in Engine /\ Keeps(r, s)
      /\ r.uctx = SubSeq(s.uctx, 1, k) /\ r.sctx = s.sctx - n
      /\ r.prop = SubSeq(s.prop, 1, k - 1)
      /\ r.inited = s.inited /\ r.levels = s.levels /\ r.pending = s.pending
  <2>1. n <= Len(s.uctx) /\ n <= Len(s.prop)
    BY <1>1
  <2>2. /\ r \in Engine /\ Keeps(r, s)
        /\ r.uctx = SubSeq(s.uctx, 1, Len(s.uctx) - n) /\ r.sctx = s.sctx - n
        /\ r.prop = SubSeq(s.prop, 1, Len(s.prop) - n)
        /\ r.inited = s.inited /\ r.levels = s.levels /\ r.pending = s.pending
    BY <1>1, <1>3, <2>1, PopLevelsFields
  <2> QED
    BY <1>2, <2>2
<1>5. /\ Len(r.uctx) = k /\ \A i \in 1..k : r.uctx[i] = s.uctx[i]
      /\ Len(r.prop) = k - 1
  <2>1. k \in 0..Len(s.uctx) /\ k - 1 \in 0..Len(s.prop)
    BY <1>1, <1>2
  <2> QED
    BY <1>1, <1>4, <2>1, Prefix
<1>6. Levelled(r, x - n)
  BY <1>1, <1>2, <1>4, <1>5 DEF Ready, Levelled
<1>7. Sound(r.uctx, r.prop, s.globals)
  BY <1>1, <1>2, <1>4, SoundPopped DEF Ready
<1> QED
  BY <1>2, <1>3, <1>4, <1>5, <1>6, <1>7 DEF Ready, Keeps

\* ContextManager::postsolve touches no level.
LEMMA PostSolveReady ==
  ASSUME NEW s, NEW x \in Int, Ready(s, x)
  PROVE  Ready(PostSolve(s), x)
<1>1. s \in Engine
  BY ReadyTop
<1> QED
  BY <1>1, PostSolveFields DEF Ready, Levelled, Keeps

\* ContextManager::doPendingPops.
LEMMA DoPendingPopsReady ==
  ASSUME NEW s, NEW x \in Int, Ready(s, x), s.pending <= Len(s.uctx) - 2
  PROVE  LET r == DoPendingPops(s) IN
         /\ Ready(r, x - s.pending) /\ Keeps(r, s)
         /\ Len(r.uctx) = Len(s.uctx) - s.pending
         /\ \A i \in 1..(Len(s.uctx) - s.pending) : r.uctx[i] = s.uctx[i]
         /\ r.inited = s.inited /\ r.levels = s.levels /\ r.pending = 0
<1>1. PICK n \in Nat : n = s.pending
  BY ReadyTop, EngineFields
<1>2. PICK q : q = PostSolve(s)
  OBVIOUS
<1>3. /\ Ready(q, x) /\ Keeps(q, s) /\ q.uctx = s.uctx
      /\ q.inited = s.inited /\ q.levels = s.levels
  BY <1>2, ReadyTop, PostSolveReady, PostSolveFields
<1>4. PICK p : p = PopLevels(q, n)
  OBVIOUS
<1>5. /\ Ready(p, x - n) /\ Keeps(p, q) /\ Len(p.uctx) = Len(q.uctx) - n
      /\ \A i \in 1..(Len(q.uctx) - n) : p.uctx[i] = q.uctx[i]
      /\ p.inited = q.inited /\ p.levels = q.levels
  BY <1>1, <1>3, <1>4, PopLevelsReady
<1>6. PICK r : r = DoPendingPops(s)
  OBVIOUS
<1>7. r = [p EXCEPT !.pending = 0] /\ p \in Engine
  BY <1>1, <1>2, <1>4, <1>5, <1>6 DEF DoPendingPops, Ready, Levelled
<1>8. /\ r \in Engine /\ Keeps(r, p) /\ r.uctx = p.uctx /\ r.sctx = p.sctx
      /\ r.prop = p.prop /\ r.inited = p.inited /\ r.levels = p.levels /\ r.pending = 0
  BY <1>7 DEF Engine, Keeps
<1>9. Ready(r, x - n)
  BY <1>5, <1>8 DEF Ready, Levelled, Keeps
<1>10. Keeps(r, s)
  BY <1>3, <1>5, <1>8 DEF Keeps
<1> QED
  BY <1>1, <1>3, <1>5, <1>6, <1>8, <1>9, <1>10

\* The first level of an engine, empty, on top of the bottom one.
LEMMA FirstLevel ==
  ASSUME NEW s \in Engine, s.uctx = <<Bottom>>, s.prop = << {} >>, s.sctx = 0
  PROVE  LET r == PushContexts(s) IN
         /\ r \in Engine /\ Keeps(r, s) /\ Sound(r.uctx, r.prop, r.globals)
         /\ Len(r.uctx) = 2 /\ r.uctx[1] = Bottom /\ r.uctx[2] = Bottom
         /\ Len(r.prop) = 1 /\ r.sctx = 1
         /\ r.inited = s.inited /\ r.levels = s.levels /\ r.pending = s.pending
<1>1. PICK r : r = PushContexts(s)
  OBVIOUS
<1>2. s.uctx # << >>
  OBVIOUS
<1>3. /\ r \in Engine /\ Keeps(r, s)
      /\ r.uctx = Append(s.uctx, s.uctx[Len(s.uctx)]) /\ r.sctx = s.sctx + 1
      /\ r.inited = s.inited /\ r.levels = s.levels /\ r.pending = s.pending
      /\ r.prop = s.prop
  BY <1>1, <1>2, PushContextsFields
<1>4. Len(r.uctx) = 2 /\ r.uctx[1] = Bottom /\ r.uctx[2] = Bottom /\ r.sctx = 1 /\ r.prop = << {} >>
  <2>1. PICK v \in Seq(Frame) : v = s.uctx /\ Len(v) = 1 /\ v[1] = Bottom
    <3>1. Bottom \in Frame
      BY DEF Bottom, Frame
    <3> QED
      BY <3>1, Single
  <2>2. PICK f \in Frame : f = v[1]
    BY <2>1
  <2>3. Len(Append(v, f)) = 2 /\ Append(v, f)[1] = v[1] /\ Append(v, f)[2] = f
    <3>1. /\ Len(Append(v, f)) = Len(v) + 1 /\ Append(v, f)[Len(v) + 1] = f
          /\ \A i \in 1..Len(v) : Append(v, f)[i] = v[i]
      BY AppendProperties
    <3>2. Len(v) + 1 = 2 /\ 1 \in 1..Len(v)
      BY <2>1
    <3> QED
      BY <3>1, <3>2
  <2> QED
    BY <1>3, <2>1, <2>2, <2>3
<1>5. Sound(r.uctx, r.prop, r.globals)
  <2>1. PICK u \in Seq(Frame) : u = r.uctx /\ Len(u) = 2 /\ \A i \in 1..2 : u[i] = Bottom
    <3>1. r.uctx \in Seq(Frame)
      BY <1>3, EngineFields
    <3>2. \A i \in 1..2 : i = 1 \/ i = 2
      OBVIOUS
    <3> QED
      BY <1>4, <3>1, <3>2
  <2>2. PICK P \in Seq(SUBSET All) : P = r.prop /\ Len(P) = 1 /\ P[1] = {}
    <3>1. PICK e \in SUBSET All : e = {}
      OBVIOUS
    <3>2. <<e>> \in Seq(SUBSET All) /\ Len(<<e>>) = 1 /\ <<e>>[1] = e
      BY Single
    <3> QED
      BY <1>4, <3>1, <3>2
  <2>3. PICK G \in Seq(Definitions) : G = r.globals /\ Len(G) \in Nat
    BY <1>3, EngineFields
  <2>4. Bottom.list = << >> /\ Bottom.next = 0 /\ Bottom.gnext = 0 /\ Len(Bottom.list) = 0
    BY DEF Bottom
  <2>5. ToSet(<< >>) = {}
    BY DEF ToSet
  <2>6. Handed(u, P)
    <3>1. SubSeq(<< >>, 1, 0) = << >>
      BY SubSeqEmpty
    <3>2. Held(P, 2) = {}
      <4>1. 2 \in 1..(Len(P) + 1) /\ 2 - 1 = 1
        BY <2>2
      <4>2. Held(P, 2) = UNION {P[j] : j \in 1..(2 - 1)}
        BY <4>1, HeldIs
      <4>3. \A j \in 1..(2 - 1) : P[j] = {}
        BY <2>2
      <4> QED
        BY <4>2, <4>3
    <3>3. \A i \in 2..Len(u) : i = 2 /\ u[i] = Bottom
      BY <2>1
    <3>4. Bottom.next <= Len(Bottom.list) /\ ToSet(SubSeq(Bottom.list, 1, Bottom.next)) = Held(P, 2)
      <4>1. SubSeq(Bottom.list, 1, Bottom.next) = << >>
        BY <2>4, <3>1
      <4>2. Bottom.next <= Len(Bottom.list)
        BY <2>4
      <4> QED
        BY <2>5, <3>2, <4>1, <4>2
    <3> QED
      BY <3>3, <3>4 DEF Handed
  <2>7. Extending(u)
    BY <2>1, <2>4 DEF Extending, Extends
  <2>8. DefinitionsIn(u, G)
    BY <2>1, <2>3, <2>4, <2>5 DEF DefinitionsIn, Defines
  <2> QED
    BY <2>1, <2>2, <2>3, <2>6, <2>7, <2>8 DEF Sound
<1>6. Len(r.prop) = 1
  BY <1>4
<1> QED
  BY <1>1, <1>3, <1>4, <1>5, <1>6

\* SolverEngine::finishInit opens the first level, empty.
LEMMA FinishInitReady ==
  ASSUME NEW s, Between(s)
  PROVE  LET r == FinishInit(s) IN
         /\ Ready(r, s.pending) /\ Keeps(r, s)
         /\ r.levels = s.levels /\ r.pending = s.pending
         /\ s.inited => r = s
         /\ ~s.inited => /\ Fresh(s) /\ Len(r.uctx) = 2
                         /\ r.uctx[1] = Bottom /\ r.uctx[2] = Bottom
<1>1. CASE Ready(s, s.pending)
  <2>1. s.inited
    BY <1>1 DEF Ready, Levelled
  <2>2. FinishInit(s) = s /\ Keeps(s, s)
    BY <2>1 DEF FinishInit, Keeps
  <2> QED
    BY <1>1, <2>1, <2>2
<1>2. CASE Fresh(s)
  <2>1. /\ s \in Engine /\ ~s.inited /\ s.uctx = <<Bottom>> /\ s.levels = << >>
        /\ s.pending = 0 /\ s.globals = << >> /\ s.sctx = 0 /\ s.prop = << {} >>
    BY <1>2 DEF Fresh
  <2>2. PICK q : q = PushContexts(s)
    OBVIOUS
  <2>4. /\ q \in Engine /\ Keeps(q, s) /\ Sound(q.uctx, q.prop, q.globals)
        /\ Len(q.uctx) = 2 /\ q.uctx[1] = Bottom /\ q.uctx[2] = Bottom
        /\ Len(q.prop) = 1 /\ q.sctx = 1 /\ q.levels = s.levels /\ q.pending = s.pending
    BY <2>1, <2>2, FirstLevel
  <2>6. PICK r : r = FinishInit(s)
    OBVIOUS
  <2>7. r = [q EXCEPT !.inited = TRUE]
    BY <2>1, <2>2, <2>6 DEF FinishInit
  <2>8. /\ r \in Engine /\ r.inited /\ Keeps(r, q) /\ r.uctx = q.uctx /\ r.sctx = q.sctx
        /\ r.prop = q.prop /\ r.levels = q.levels /\ r.pending = q.pending
    BY <2>4, <2>7 DEF Engine, Keeps
  <2>9. Levelled(r, 0)
    <3>1. Len(r.levels) = 0 /\ Len(r.uctx) = 2 /\ Len(r.prop) = 1 /\ r.sctx = 1 /\ r.uctx[1] = Bottom
      BY <2>1, <2>4, <2>8
    <3>2. 2 >= 2 /\ 2 = 2 + 0 + 0 /\ 1 = 2 - 1 /\ 1..0 = {}
      OBVIOUS
    <3> QED
      BY <2>8, <3>1, <3>2 DEF Levelled
  <2>10. Sound(r.uctx, r.prop, r.globals)
    BY <2>4, <2>8 DEF Keeps
  <2>11. Keeps(r, s)
    BY <2>4, <2>8 DEF Keeps
  <2> QED
    BY <1>2, <2>1, <2>4, <2>6, <2>8, <2>9, <2>10, <2>11 DEF Ready
<1> QED
  BY <1>1, <1>2 DEF Between

\* The number of pending pops that an engine between commands has.
LEMMA BetweenPending ==
  ASSUME NEW s, Between(s)
  PROVE  /\ s \in Engine /\ s.pending \in Nat
         /\ Ready(s, s.pending) => s.pending <= Len(s.uctx) - 2
<1>1. s \in Engine
  BY DEF Between, Fresh, Ready, Levelled
<1>2. ASSUME Ready(s, s.pending) PROVE s.pending <= Len(s.uctx) - 2
  <2>1. Len(s.uctx) = 2 + Len(s.levels) + s.pending
    BY <1>2 DEF Ready, Levelled
  <2> QED
    BY <1>1, <2>1, EngineFields
<1> QED
  BY <1>1, <1>2, EngineFields

\* SolverEngine::beginCall: no pop is pending and only user levels are open.
LEMMA BeginCallReady ==
  ASSUME NEW s, Between(s)
  PROVE  LET r == BeginCall(s) IN
         /\ Ready(r, 0) /\ r.pending = 0 /\ Keeps(r, s) /\ r.levels = s.levels
         /\ Len(r.uctx) = 2 + Len(s.levels)
         /\ s.inited => /\ Len(s.uctx) - s.pending = 2 + Len(s.levels)
                        /\ \A i \in 1..Len(r.uctx) : r.uctx[i] = s.uctx[i]
         /\ ~s.inited => Fresh(s) /\ r.uctx[1] = Bottom /\ r.uctx[2] = Bottom
<1>1. PICK q : q = FinishInit(s)
  OBVIOUS
<1>2. /\ Ready(q, s.pending) /\ Keeps(q, s)
      /\ q.levels = s.levels /\ q.pending = s.pending
      /\ s.inited => q = s
      /\ ~s.inited => Fresh(s) /\ Len(q.uctx) = 2 /\ q.uctx[1] = Bottom /\ q.uctx[2] = Bottom
  BY <1>1, FinishInitReady
<1>3. PICK n \in Nat : n = s.pending
  BY BetweenPending
<1>4. n <= Len(q.uctx) - 2 /\ Len(q.uctx) - n = 2 + Len(s.levels)
  <2>1. Len(q.uctx) = 2 + Len(q.levels) + n /\ q \in Engine
    BY <1>2, <1>3 DEF Ready, Levelled
  <2>2. Len(q.levels) \in Nat
    BY <2>1, EngineFields
  <2> QED
    BY <1>2, <2>1, <2>2
<1>5. PICK r : r = DoPendingPops(q)
  OBVIOUS
<1>6. /\ Ready(r, n - n) /\ Keeps(r, q) /\ Len(r.uctx) = Len(q.uctx) - n
      /\ \A i \in 1..(Len(q.uctx) - n) : r.uctx[i] = q.uctx[i]
      /\ r.levels = q.levels /\ r.pending = 0
  BY <1>2, <1>3, <1>4, <1>5, DoPendingPopsReady
<1>7. Ready(r, 0)
  <2>1. n - n = 0
    OBVIOUS
  <2> QED
    BY <1>6, <2>1
<1>8. Keeps(r, s)
  BY <1>2, <1>6 DEF Keeps
<1>9. ASSUME ~s.inited PROVE r.uctx[1] = Bottom /\ r.uctx[2] = Bottom
  <2>1. 1 \in 1..(Len(q.uctx) - n) /\ 2 \in 1..(Len(q.uctx) - n)
    <3>1. n = 0 /\ Len(q.uctx) = 2
      BY <1>2, <1>3, <1>9 DEF Fresh
    <3> QED
      BY <3>1
  <2> QED
    BY <1>2, <1>6, <1>9, <2>1
<1> QED
  BY <1>1, <1>2, <1>3, <1>4, <1>5, <1>6, <1>7, <1>8, <1>9 DEF BeginCall

(***************************************************************************)
(* ContextManager::internalPush without pending pops: what the level has   *)
(* is handed over before the new one is opened.                            *)
(***************************************************************************)
LEMMA InternalPushReady ==
  ASSUME NEW s, NEW x \in Int, Ready(s, x), s.pending = 0
  PROVE  LET r == InternalPush(s) IN
         /\ Ready(r, x + 1) /\ Keeps(r, s)
         /\ Len(r.uctx) = Len(s.uctx) + 1 /\ r.uctx[Len(r.uctx)] = r.uctx[Len(s.uctx)]
         /\ \A i \in 1..(Len(s.uctx) - 1) : r.uctx[i] = s.uctx[i]
         /\ \E d \in Seq(Definitions) : r.uctx[Len(s.uctx)].list = Top(s).list \o d
         /\ r.levels = s.levels /\ r.pending = 0
<1>1. PICK n \in Nat : n = Len(s.uctx) /\ n >= 2 /\ n \in 1..n
  BY ReadyTop
<1>2. PICK p : p = DoPendingPops(s)
  OBVIOUS
<1>3. /\ Ready(p, x) /\ Keeps(p, s) /\ Len(p.uctx) = n
      /\ \A i \in 1..n : p.uctx[i] = s.uctx[i]
      /\ p.inited = s.inited /\ p.levels = s.levels /\ p.pending = 0
  <2>1. x - 0 = x /\ n - 0 = n /\ 0 <= n - 2
    BY <1>1
  <2>2. /\ Ready(p, x - s.pending) /\ Keeps(p, s)
        /\ Len(p.uctx) = Len(s.uctx) - s.pending
        /\ \A i \in 1..(Len(s.uctx) - s.pending) : p.uctx[i] = s.uctx[i]
        /\ p.inited = s.inited /\ p.levels = s.levels /\ p.pending = 0
    BY <1>1, <1>2, <2>1, DoPendingPopsReady
  <2> QED
    BY <1>1, <2>1, <2>2
<1>4. PICK q : q = RefreshAssertions(p)
  OBVIOUS
<1>5. /\ Ready(q, x) /\ Keeps(q, p) /\ Len(q.uctx) = n
      /\ \A i \in 1..(n - 1) : q.uctx[i] = p.uctx[i]
      /\ \E d \in Seq(Definitions) : Top(q).list = Top(p).list \o d
      /\ q.inited = p.inited /\ q.levels = p.levels /\ q.pending = p.pending
  BY <1>3, <1>4, RefreshAssertionsReady
<1>6. /\ q \in Engine /\ q.uctx \in Seq(Frame) /\ Top(q) = q.uctx[n] /\ q.uctx[n] \in Frame
      /\ q.prop \in Seq(SUBSET All) /\ Len(q.prop) = n - 1 /\ q.globals \in Seq(Definitions)
      /\ Last(q.uctx) = q.uctx[n]
  BY <1>1, <1>5, ReadyTop DEF Last
<1>7. Top(p) = Top(s)
  BY <1>1, <1>3, ReadyTop
<1>8. PICK u : u = Append(q.uctx, q.uctx[n])
  OBVIOUS
<1>9. /\ u \in Seq(Frame) /\ Len(u) = n + 1 /\ u[n + 1] = q.uctx[n]
      /\ \A i \in 1..n : u[i] = q.uctx[i]
  BY <1>5, <1>6, <1>8, AppendProperties
<1>10. PICK e \in SUBSET All : e = {}
  OBVIOUS
<1>11. PICK P : P = Append(q.prop, e)
  OBVIOUS
<1>12. P \in Seq(SUBSET All) /\ Len(P) = n
  <2>1. P \in Seq(SUBSET All) /\ Len(P) = Len(q.prop) + 1
    BY <1>6, <1>11, AppendProperties
  <2> QED
    BY <1>6, <2>1
<1>13. PICK r : r = InternalPush(s)
  OBVIOUS
<1>14. r = [q EXCEPT !.uctx = u, !.prop = P, !.sctx = q.sctx + 1]
  BY <1>2, <1>4, <1>6, <1>8, <1>10, <1>11, <1>13 DEF InternalPush
<1>15. q.sctx + 1 \in Int
  BY <1>6, EngineFields
<1>16. /\ r \in Engine /\ Keeps(r, q) /\ r.uctx = u /\ r.prop = P /\ r.sctx = q.sctx + 1
       /\ r.inited = q.inited /\ r.levels = q.levels /\ r.pending = q.pending
  BY <1>6, <1>9, <1>12, <1>14, <1>15 DEF Engine, Keeps
<1>17. Sound(u, P, q.globals)
  BY <1>1, <1>5, <1>6, <1>8, <1>10, <1>11, SoundPushed DEF Ready
<1>18. Keeps(r, s)
  BY <1>3, <1>5, <1>16 DEF Keeps
<1>19. Levelled(r, x + 1)
  <2>1. /\ q.inited /\ q.uctx[1] = Bottom /\ n = 2 + Len(q.levels) + x /\ q.sctx = n - 1
        /\ \A i \in 1..Len(q.levels) : q.levels[i] = i
    BY <1>5 DEF Ready, Levelled
  <2>2. Len(q.levels) \in Nat
    BY <1>6, EngineFields
  <2>3. n + 1 = 2 + Len(q.levels) + (x + 1) /\ q.sctx + 1 = (n + 1) - 1 /\ n + 1 >= 2 /\ n = (n + 1) - 1
    <3>1. PICK m \in Nat : m = Len(q.levels)
      BY <2>2
    <3>2. n = 2 + m + x /\ q.sctx = n - 1
      BY <2>1, <3>1
    <3>3. n + 1 = 2 + m + (x + 1) /\ (n - 1) + 1 = (n + 1) - 1 /\ n + 1 >= 2 /\ n = (n + 1) - 1
      BY <1>1, <3>2
    <3> QED
      BY <3>1, <3>2, <3>3
  <2>4. u[1] = Bottom
    BY <1>1, <1>9, <2>1
  <2> QED
    BY <1>9, <1>12, <1>16, <2>1, <2>3, <2>4 DEF Levelled
<1>20. \A i \in 1..(n - 1) : u[i] = s.uctx[i]
  BY <1>1, <1>3, <1>5, <1>9
<1>21. \E d \in Seq(Definitions) : u[n].list = Top(s).list \o d
  BY <1>1, <1>5, <1>6, <1>7, <1>9
<1> QED
  BY <1>1, <1>3, <1>5, <1>9, <1>13, <1>16, <1>17, <1>18, <1>19, <1>20, <1>21 DEF Ready, Keeps

\* Formulas asserted at the top level.
LEMMA GrowTopReady ==
  ASSUME NEW s, NEW x \in Int, Ready(s, x), NEW d \in Seq(Formulas)
  PROVE  LET r == SetTop(s, [Top(s) EXCEPT !.list = @ \o d]) IN
         /\ Ready(r, x) /\ Keeps(r, s)
         /\ Len(r.uctx) = Len(s.uctx) /\ \A i \in 1..(Len(s.uctx) - 1) : r.uctx[i] = s.uctx[i]
         /\ Top(r).list = Top(s).list \o d
         /\ r.inited = s.inited /\ r.levels = s.levels /\ r.pending = s.pending
<1>1. PICK t \in Frame : t = Top(s)
  BY ReadyTop
<1>2. /\ t.list \in Seq(All) /\ Len(t.list) \in Nat /\ t.next \in Nat /\ t.gnext \in Nat
      /\ t.next <= Len(t.list) /\ Defines(t, s.globals)
  BY <1>1, ReadyTop, FrameFields
<1>3. d \in Seq(All) /\ ToSet(d) \subseteq Formulas /\ Len(d) \in Nat
  BY SeqSet DEF All
<1>4. PICK f : f = [t EXCEPT !.list = t.list \o d]
  OBVIOUS
<1>5. f \in Frame /\ f.list = t.list \o d /\ f.next = t.next /\ f.gnext = t.gnext
  <2>1. t.list \o d \in Seq(Formulas \cup Definitions)
    BY <1>2, <1>3, Concat DEF All
  <2> QED
    BY <1>2, <1>4, <2>1 DEF Frame
<1>6. /\ Extends(t, f) /\ ToSet(f.list) = ToSet(t.list) \cup ToSet(d)
      /\ Len(f.list) = Len(t.list) + Len(d)
      /\ ToSet(SubSeq(f.list, 1, f.next)) = ToSet(SubSeq(t.list, 1, t.next))
  BY <1>2, <1>3, <1>5, ListExtended
<1>7. Defines(f, s.globals)
  BY <1>2, <1>3, <1>5, <1>6 DEF Defines
<1>8. f.next <= Len(f.list)
  BY <1>2, <1>3, <1>5, <1>6
<1>9. PICK r : r = SetTop(s, f)
  OBVIOUS
<1>10. Ready(r, x)
  BY <1>1, <1>5, <1>6, <1>7, <1>8, <1>9, ReadySetTop
<1>11. /\ Keeps(r, s) /\ Len(r.uctx) = Len(s.uctx) /\ Top(r) = f
       /\ \A i \in 1..(Len(s.uctx) - 1) : r.uctx[i] = s.uctx[i]
       /\ r.inited = s.inited /\ r.levels = s.levels /\ r.pending = s.pending
  BY <1>5, <1>9, ReadyTop, SetTopFields
<1> QED
  BY <1>1, <1>4, <1>5, <1>9, <1>10, <1>11

\* Assertions::assertFormula.
LEMMA AddFormulaReady ==
  ASSUME NEW s, NEW x \in Int, Ready(s, x), NEW f \in Formulas
  PROVE  LET r == AddFormula(s, f) IN
         /\ Ready(r, x) /\ Keeps(r, s)
         /\ Len(r.uctx) = Len(s.uctx) /\ \A i \in 1..(Len(s.uctx) - 1) : r.uctx[i] = s.uctx[i]
         /\ Top(r).list = Top(s).list \o <<f>>
         /\ r.inited = s.inited /\ r.levels = s.levels /\ r.pending = s.pending
<1>1. Top(s).list \in Seq(All) /\ f \in All
  BY ReadyTop, FrameFields DEF All
<1>2. Append(Top(s).list, f) = Top(s).list \o <<f>>
  BY <1>1, AppendIsConcat
<1>3. PICK d \in Seq(Formulas) : d = <<f>>
  BY Single
<1>4. AddFormula(s, f) = SetTop(s, [Top(s) EXCEPT !.list = @ \o d])
  BY <1>2, <1>3 DEF AddFormula
<1>5. PICK r : r = SetTop(s, [Top(s) EXCEPT !.list = @ \o d])
  OBVIOUS
<1>6. /\ Ready(r, x) /\ Keeps(r, s)
      /\ Len(r.uctx) = Len(s.uctx) /\ \A i \in 1..(Len(s.uctx) - 1) : r.uctx[i] = s.uctx[i]
      /\ Top(r).list = Top(s).list \o d
      /\ r.inited = s.inited /\ r.levels = s.levels /\ r.pending = s.pending
  BY <1>5, GrowTopReady
<1> QED
  BY <1>3, <1>4, <1>5, <1>6

\* Changing the mode, the trail or the flags of the record touches no level.
LEMMA ReadySame ==
  ASSUME NEW s, NEW x \in Int, Ready(s, x), NEW r \in Engine,
         r.uctx = s.uctx, r.prop = s.prop, r.globals = s.globals, r.levels = s.levels,
         r.sctx = s.sctx, r.inited = s.inited
  PROVE  Ready(r, x)
BY DEF Ready, Levelled

(***************************************************************************)
(* ContextManager::userPush: the level is recorded before the push.        *)
(***************************************************************************)
LEMMA UserPushReady ==
  ASSUME NEW s, Ready(s, 0), s.pending = 0
  PROVE  LET r == UserPush(s) IN
         /\ Ready(r, 0) /\ Keeps(r, s)
         /\ Len(r.levels) = Len(s.levels) + 1
         /\ Len(r.uctx) = Len(s.uctx) + 1 /\ r.uctx[Len(r.uctx)] = r.uctx[Len(s.uctx)]
         /\ \A i \in 1..(Len(s.uctx) - 1) : r.uctx[i] = s.uctx[i]
         /\ \E d \in Seq(Definitions) : r.uctx[Len(s.uctx)].list = Top(s).list \o d
         /\ r.pending = 0
<1>1. PICK n \in Nat : n = Len(s.uctx) /\ n >= 2
  BY ReadyTop
<1>2. PICK m \in Nat : m = Len(s.levels)
  BY ReadyTop, EngineFields
<1>3. /\ s \in Engine /\ s.inited /\ s.uctx[1] = Bottom /\ n = 2 + m + 0
      /\ Len(s.prop) = n - 1 /\ s.sctx = n - 1 /\ \A i \in 1..m : s.levels[i] = i
      /\ Sound(s.uctx, s.prop, s.globals)
  BY <1>1, <1>2 DEF Ready, Levelled
<1>4. Level(s) = m + 1 /\ m + 1 \in Nat /\ n = 2 + (m + 1) + (-1)
  BY <1>1, <1>3 DEF Level
<1>5. PICK L : L = Append(s.levels, m + 1)
  OBVIOUS
<1>6. L \in Seq(Nat) /\ Len(L) = m + 1 /\ \A i \in 1..(m + 1) : L[i] = i
  <2>1. s.levels \in Seq(Nat)
    BY <1>3, EngineFields
  <2>2. L \in Seq(Nat) /\ Len(L) = m + 1 /\ L[m + 1] = m + 1 /\ \A i \in 1..m : L[i] = s.levels[i]
    BY <1>2, <1>4, <1>5, <2>1, AppendProperties
  <2>3. \A i \in 1..(m + 1) : i \in 1..m \/ i = m + 1
    OBVIOUS
  <2> QED
    BY <1>3, <2>2, <2>3
<1>7. PICK q : q = [s EXCEPT !.mode = "ASSERT", !.levels = L]
  OBVIOUS
<1>8. /\ q \in Engine /\ Keeps(q, s) /\ q.uctx = s.uctx /\ q.prop = s.prop /\ q.sctx = s.sctx
      /\ q.inited = s.inited /\ q.levels = L /\ q.pending = 0
  BY <1>3, <1>6, <1>7 DEF Engine, Keeps, Mode
<1>9. Ready(q, -1)
  BY <1>1, <1>3, <1>4, <1>6, <1>8 DEF Ready, Levelled, Keeps
<1>10. UserPush(s) = InternalPush(q)
  BY <1>4, <1>5, <1>7 DEF UserPush
<1>11. PICK r : r = InternalPush(q)
  OBVIOUS
<1>y. PICK y \in Int : y = -1
  OBVIOUS
<1>12. /\ Ready(r, y + 1) /\ Keeps(r, q)
       /\ Len(r.uctx) = n + 1 /\ r.uctx[Len(r.uctx)] = r.uctx[n]
       /\ \A i \in 1..(n - 1) : r.uctx[i] = q.uctx[i]
       /\ \E d \in Seq(Definitions) : r.uctx[n].list = Top(q).list \o d
       /\ r.levels = q.levels /\ r.pending = 0
  <2>1. Ready(q, y)
    BY <1>9, <1>y
  <2> QED
    BY <1>1, <1>8, <1>11, <2>1, InternalPushReady
<1>13. Ready(r, 0)
  <2>1. y + 1 = 0
    BY <1>y
  <2> QED
    BY <1>12, <2>1
<1>14. Top(q) = Top(s) /\ Keeps(r, s)
  BY <1>8, <1>12 DEF Top, Keeps
<1> QED
  BY <1>1, <1>2, <1>6, <1>8, <1>10, <1>11, <1>12, <1>13, <1>14

\* ContextManager::userPop: one level, the one of the matching push.
LEMMA UserPopReady ==
  ASSUME NEW s, Ready(s, 0), s.pending = 0, s.levels # << >>
  PROVE  LET r == UserPop(s) IN
         /\ Ready(r, 0) /\ Keeps(r, s)
         /\ Len(r.levels) = Len(s.levels) - 1
         /\ \A i \in 1..(Len(s.uctx) - 1) : r.uctx[i] = s.uctx[i]
         /\ r.pending = 0
<1>1. PICK n \in Nat : n = Len(s.uctx) /\ n >= 2
  BY ReadyTop
<1>2. PICK m \in Nat : m = Len(s.levels) /\ m # 0
  BY ReadyTop, EngineFields, EmptySeq
<1>3. /\ s \in Engine /\ n = 2 + m + 0 /\ \A i \in 1..m : s.levels[i] = i
      /\ s.levels \in Seq(Nat)
  BY <1>1, <1>2, EngineFields DEF Ready, Levelled
<1>4. Last(s.levels) = m
  BY <1>2, <1>3 DEF Last
<1>5. PICK q : q = [s EXCEPT !.mode = "ASSERT"]
  OBVIOUS
<1>6. /\ q \in Engine /\ Keeps(q, s) /\ q.uctx = s.uctx /\ q.prop = s.prop /\ q.sctx = s.sctx
      /\ q.inited = s.inited /\ q.levels = s.levels /\ q.pending = 0
  BY <1>3, <1>5 DEF Engine, Keeps, Mode
<1>7. Ready(q, 0)
  BY <1>6, ReadySame DEF Keeps
<1>8. PICK p : p = DoPendingPops(q)
  OBVIOUS
<1>9. /\ Ready(p, 0) /\ Keeps(p, q) /\ Len(p.uctx) = n
      /\ \A i \in 1..n : p.uctx[i] = s.uctx[i]
      /\ p.levels = s.levels /\ p.pending = 0
  <2>1. 0 - 0 = 0 /\ n - 0 = n /\ 0 <= n - 2
    BY <1>1
  <2>2. /\ Ready(p, 0 - q.pending) /\ Keeps(p, q)
        /\ Len(p.uctx) = Len(q.uctx) - q.pending
        /\ \A i \in 1..(Len(q.uctx) - q.pending) : p.uctx[i] = q.uctx[i]
        /\ p.levels = q.levels /\ p.pending = 0
    BY <1>1, <1>6, <1>7, <1>8, <2>1, DoPendingPopsReady
  <2> QED
    BY <1>1, <1>6, <2>1, <2>2
<1>10. Level(p) - m = 1
  BY <1>1, <1>3, <1>9 DEF Level
<1>11. PICK t : t = PopLevels(p, 1)
  OBVIOUS
<1>12. /\ Ready(t, -1) /\ Keeps(t, p) /\ Len(t.uctx) = n - 1
       /\ \A i \in 1..(n - 1) : t.uctx[i] = p.uctx[i]
       /\ t.levels = p.levels /\ t.pending = p.pending
  <2>1. PICK z \in Int, k \in Nat : z = 0 /\ k = 1
    OBVIOUS
  <2>2. k <= n - 2 /\ z - k = -1
    BY <1>1, <1>2, <1>3, <2>1
  <2>3. t = PopLevels(p, k) /\ Ready(p, z)
    BY <1>9, <1>11, <2>1
  <2>4. /\ Ready(t, z - k) /\ Keeps(t, p) /\ Len(t.uctx) = n - k
        /\ \A i \in 1..(n - k) : t.uctx[i] = p.uctx[i]
        /\ t.levels = p.levels /\ t.pending = p.pending
    BY <1>9, <2>2, <2>3, PopLevelsReady
  <2> QED
    BY <2>1, <2>2, <2>4
<1>13. PICK L : L = Front(s.levels)
  OBVIOUS
<1>14. L \in Seq(Nat) /\ Len(L) = m - 1 /\ \A i \in 1..(m - 1) : L[i] = i
  <2>1. m - 1 \in 0..m /\ \A i \in 1..(m - 1) : i \in 1..m
    BY <1>2
  <2>2. L \in Seq(Nat) /\ Len(L) = m - 1 /\ \A i \in 1..(m - 1) : L[i] = s.levels[i]
    <3>1. PICK k \in 0..Len(s.levels) : k = m - 1
      BY <1>2, <2>1
    <3>2. L = SubSeq(s.levels, 1, k)
      BY <1>2, <1>13, <3>1 DEF Front
    <3> QED
      BY <1>3, <3>1, <3>2, Prefix
  <2> QED
    BY <1>3, <2>1, <2>2
<1>15. PICK r : r = [t EXCEPT !.levels = L]
  OBVIOUS
<1>16. r = UserPop(s)
  BY <1>4, <1>5, <1>8, <1>9, <1>10, <1>11, <1>12, <1>13, <1>15 DEF UserPop
<1>17. /\ r \in Engine /\ Keeps(r, t) /\ r.uctx = t.uctx /\ r.prop = t.prop /\ r.sctx = t.sctx
       /\ r.inited = t.inited /\ r.levels = L /\ r.pending = 0
  BY <1>9, <1>12, <1>14, <1>15 DEF Engine, Keeps, Ready, Levelled
<1>18. Ready(r, 0)
  <2>1. /\ t.inited /\ t.uctx[1] = Bottom /\ Len(t.prop) = Len(t.uctx) - 1
        /\ t.sctx = Len(t.uctx) - 1 /\ Len(t.uctx) >= 2 /\ Sound(t.uctx, t.prop, t.globals)
    BY <1>12 DEF Ready, Levelled
  <2>2. n - 1 = 2 + (m - 1) + 0
    BY <1>1, <1>2, <1>3
  <2> QED
    BY <1>12, <1>14, <1>17, <2>1, <2>2 DEF Ready, Levelled, Keeps
<1>19. Keeps(r, s)
  BY <1>6, <1>9, <1>12, <1>17 DEF Keeps
<1>20. \A i \in 1..(n - 1) : r.uctx[i] = s.uctx[i]
  <2>1. \A i \in 1..(n - 1) : i \in 1..n
    BY <1>1
  <2> QED
    BY <1>9, <1>12, <1>17, <2>1
<1> QED
  BY <1>1, <1>2, <1>14, <1>16, <1>17, <1>18, <1>19, <1>20

-----------------------------------------------------------------------------
(***************************************************************************)
(* The user levels as sets of formulas.  Block(u, k) is what user level k  *)
(* asserts: the part of its list beyond the list of the level below.       *)
(***************************************************************************)
Block(u, k) ==
    {u[k + 1].list[p] : p \in (Len(u[k].list) + 1)..Len(u[k + 1].list)} \cap Formulas

\* Two records with the same user levels.
SameBlocks(r, s) ==
    /\ r.levels = s.levels
    /\ \A k \in 1..(Len(s.levels) + 1) : Block(r.uctx, k) = Block(s.uctx, k)

\* Level k of v has d on top of what it has in u.
GrownBy(u, v, k, d) ==
    /\ u \in Seq(Frame) /\ v \in Seq(Frame) /\ d \in Seq(All)
    /\ k \in Nat \ {0} /\ k + 1 <= Len(u) /\ k + 1 <= Len(v)
    /\ u[k] = v[k] /\ Extends(u[k], u[k + 1])
    /\ v[k + 1].list = u[k + 1].list \o d

\* A level that asserts more.
LEMMA BlockGrown ==
  ASSUME NEW u, NEW v, NEW k, NEW d, GrownBy(u, v, k, d)
  PROVE  Block(v, k) = Block(u, k) \cup (ToSet(d) \cap Formulas)
<1> USE DEF GrownBy
<1>1. k \in 1..Len(u) /\ k + 1 \in 1..Len(u) /\ k + 1 \in 1..Len(v)
  OBVIOUS
<1>2. u[k] \in Frame /\ u[k + 1] \in Frame /\ v[k + 1] \in Frame
  BY <1>1
<1>3. PICK a \in Nat : a = Len(u[k].list)
  BY <1>2, FrameFields
<1>4. PICK l \in Seq(All) : l = u[k + 1].list
  BY <1>2, FrameFields
<1>5. PICK w \in Seq(All) : w = v[k + 1].list
  BY <1>2, FrameFields
<1>6. /\ Len(w) = Len(l) + Len(d) /\ a <= Len(l) /\ Len(l) \in Nat /\ Len(d) \in Nat
      /\ \A i \in 1..Len(l) : w[i] = l[i]
      /\ \A i \in 1..Len(d) : w[Len(l) + i] = d[i]
      /\ \A p \in 1..(Len(l) + Len(d)) : p \in 1..Len(l) \/ \E i \in 1..Len(d) : p = Len(l) + i
  BY <1>3, <1>4, <1>5, Concat DEF Extends
<1>7. ToSet(d) = {d[i] : i \in 1..Len(d)}
  BY SeqSet
<1>8. {w[p] : p \in (a + 1)..Len(w)} = {l[p] : p \in (a + 1)..Len(l)} \cup ToSet(d)
  <2>1. ASSUME NEW p \in (a + 1)..Len(w)
        PROVE  w[p] \in {l[q] : q \in (a + 1)..Len(l)} \cup ToSet(d)
    <3>1. p \in 1..(Len(l) + Len(d))
      BY <1>6
    <3>2. CASE p \in 1..Len(l)
      <4>1. p \in (a + 1)..Len(l)
        BY <1>6, <3>2
      <4> QED
        BY <1>6, <3>2, <4>1
    <3>3. CASE \E i \in 1..Len(d) : p = Len(l) + i
      BY <1>6, <1>7, <3>3
    <3> QED
      BY <1>6, <3>1, <3>2, <3>3
  <2>2. ASSUME NEW q \in (a + 1)..Len(l) PROVE l[q] \in {w[p] : p \in (a + 1)..Len(w)}
    <3>1. q \in 1..Len(l) /\ q \in (a + 1)..Len(w)
      BY <1>6
    <3> QED
      BY <1>6, <3>1
  <2>3. ASSUME NEW i \in 1..Len(d) PROVE d[i] \in {w[p] : p \in (a + 1)..Len(w)}
    <3>1. Len(l) + i \in (a + 1)..Len(w)
      BY <1>6
    <3> QED
      BY <1>6, <3>1
  <2> QED
    BY <1>7, <2>1, <2>2, <2>3
<1>9. Block(v, k) = {w[p] : p \in (a + 1)..Len(w)} \cap Formulas
  BY <1>3, <1>5 DEF Block
<1>10. Block(u, k) = {l[p] : p \in (a + 1)..Len(l)} \cap Formulas
  BY <1>3, <1>4 DEF Block
<1> HIDE DEF Block
<1> QED
  BY <1>8, <1>9, <1>10

\* Definitions are not formulas.
LEMMA DefinitionsApart ==
  ASSUME NEW d \in Seq(Definitions)
  PROVE  d \in Seq(All) /\ ToSet(d) \cap Formulas = {}
<1>1. ToSet(d) \subseteq Definitions
  BY SeqSet
<1> QED
  BY <1>1, ConstantsAssumption DEF All

\* The levels of a record that is ready, by number.
LEMMA ReadyLevels ==
  ASSUME NEW s, NEW x \in Int, Ready(s, x)
  PROVE  /\ s.uctx \in Seq(Frame) /\ Len(s.levels) \in Nat /\ Len(s.uctx) \in Nat
         /\ Len(s.uctx) = 2 + Len(s.levels) + x
         /\ s.uctx[1] = Bottom /\ Len(s.uctx) >= 2
         /\ \A i, j \in 1..Len(s.uctx) : i <= j => Extends(s.uctx[i], s.uctx[j])
BY EngineFields DEF Ready, Levelled, Sound, Extending

\* More definitions on top leave the user levels as they are.
LEMMA BlocksGrown ==
  ASSUME NEW s, NEW x \in Nat, Ready(s, x), NEW r, NEW y \in Nat, Ready(r, y),
         NEW n \in Nat, n = Len(s.uctx), n <= Len(r.uctx),
         \A i \in 1..(n - 1) : r.uctx[i] = s.uctx[i],
         NEW d \in Seq(Definitions), r.uctx[n].list = s.uctx[n].list \o d
  PROVE  \A k \in 1..(Len(s.levels) + 1) : Block(r.uctx, k) = Block(s.uctx, k)
<1>1. PICK m \in Nat : m = Len(s.levels)
  BY ReadyLevels
<1>2. n = 2 + m + x /\ s.uctx \in Seq(Frame) /\ r.uctx \in Seq(Frame)
  BY <1>1, ReadyLevels
<1>3. ASSUME NEW k \in 1..(m + 1) PROVE Block(r.uctx, k) = Block(s.uctx, k)
  <2>1. /\ k \in Nat \ {0} /\ k + 1 <= Len(s.uctx) /\ k + 1 <= Len(r.uctx)
        /\ k \in 1..n /\ k + 1 \in 1..n /\ k \in 1..(n - 1) /\ k <= k + 1
    <3>0. k + 1 <= 2 + m + x
      OBVIOUS
    <3>1. k + 1 <= n
      BY <1>2, <3>0
    <3>2. Len(r.uctx) \in Nat
      BY <1>2
    <3> QED
      BY <3>1, <3>2
  <2>2. s.uctx[k] = r.uctx[k] /\ Extends(s.uctx[k], s.uctx[k + 1])
    BY <2>1, ReadyLevels
  <2>3. CASE k + 1 = n
    <3>1. r.uctx[k + 1].list = s.uctx[k + 1].list \o d
      BY <2>3
    <3>a. d \in Seq(All)
      BY DefinitionsApart
    <3>b. GrownBy(s.uctx, r.uctx, k, d)
      BY <1>2, <2>1, <2>2, <3>1, <3>a DEF GrownBy
    <3>2. Block(r.uctx, k) = Block(s.uctx, k) \cup (ToSet(d) \cap Formulas)
      BY <3>b, BlockGrown
    <3> QED
      BY <3>2, DefinitionsApart
  <2>4. CASE k + 1 # n
    <3>1. k + 1 \in 1..(n - 1)
      BY <2>1, <2>4
    <3>2. s.uctx[k + 1] = r.uctx[k + 1]
      BY <3>1
    <3> QED
      BY <2>2, <3>2 DEF Block
  <2> QED
    BY <2>3, <2>4
<1> QED
  BY <1>1, <1>3

\* More definitions on top make the same user levels.
LEMMA TopGrown ==
  ASSUME NEW s, NEW x \in Nat, Ready(s, x), NEW r, NEW y \in Nat, Ready(r, y),
         r.levels = s.levels, NEW n \in Nat, n = Len(s.uctx), n <= Len(r.uctx),
         \A i \in 1..(n - 1) : r.uctx[i] = s.uctx[i],
         NEW d \in Seq(Definitions), r.uctx[n].list = s.uctx[n].list \o d
  PROVE  SameBlocks(r, s)
BY BlocksGrown DEF SameBlocks

\* A refresh leaves the user levels as they are.
LEMMA RefreshSame ==
  ASSUME NEW s, NEW x \in Nat, Ready(s, x)
  PROVE  /\ LET r == RefreshAssertions(s) IN
            /\ Ready(r, x) /\ Keeps(r, s) /\ r.levels = s.levels /\ r.pending = s.pending
            /\ Len(r.uctx) = Len(s.uctx) /\ SameBlocks(r, s)
         /\ LET q == Refresh(s) IN
            /\ Ready(q, x) /\ Keeps(q, s) /\ q.levels = s.levels /\ q.pending = s.pending
            /\ SameBlocks(q, s)
<1>1. x \in Int
  OBVIOUS
<1>2. PICK n \in Nat : n = Len(s.uctx)
  BY <1>1, ReadyTop
<1>3. ASSUME NEW r, Ready(r, x), r.levels = s.levels, Len(r.uctx) = Len(s.uctx),
             \A i \in 1..(Len(s.uctx) - 1) : r.uctx[i] = s.uctx[i],
             NEW d \in Seq(Definitions), Top(r).list = Top(s).list \o d
      PROVE  SameBlocks(r, s)
  <2>1. Top(r) = r.uctx[n] /\ Top(s) = s.uctx[n] /\ n <= Len(r.uctx)
    BY <1>1, <1>2, <1>3, ReadyTop
  <2>2. r.uctx[n].list = s.uctx[n].list \o d /\ \A i \in 1..(n - 1) : r.uctx[i] = s.uctx[i]
    BY <1>2, <1>3, <2>1
  <2> QED
    BY <1>2, <1>3, <2>1, <2>2, TopGrown
<1>4. PICK r : r = RefreshAssertions(s)
  OBVIOUS
<1>5. /\ Ready(r, x) /\ Keeps(r, s)
      /\ Len(r.uctx) = Len(s.uctx) /\ \A i \in 1..(Len(s.uctx) - 1) : r.uctx[i] = s.uctx[i]
      /\ \E d \in Seq(Definitions) : Top(r).list = Top(s).list \o d
      /\ r.levels = s.levels /\ r.pending = s.pending
  BY <1>1, <1>4, RefreshAssertionsReady
<1>6. PICK q : q = Refresh(s)
  OBVIOUS
<1>7. /\ Ready(q, x) /\ Keeps(q, s)
      /\ Len(q.uctx) = Len(s.uctx) /\ \A i \in 1..(Len(s.uctx) - 1) : q.uctx[i] = s.uctx[i]
      /\ \E d \in Seq(Definitions) : Top(q).list = Top(s).list \o d
      /\ q.levels = s.levels /\ q.pending = s.pending
  BY <1>1, <1>6, RefreshReady
<1>8. SameBlocks(r, s) /\ SameBlocks(q, s)
  BY <1>3, <1>5, <1>7
<1> QED
  BY <1>4, <1>5, <1>6, <1>7, <1>8

\* Equal levels.
LEMMA SameLevels ==
  ASSUME NEW s, NEW x \in Nat, Ready(s, x), NEW r, r.levels = s.levels,
         \A i \in 1..(2 + Len(s.levels)) : r.uctx[i] = s.uctx[i]
  PROVE  SameBlocks(r, s)
<1>1. PICK m \in Nat : m = Len(s.levels)
  BY ReadyLevels
<1>2. ASSUME NEW k \in 1..(m + 1) PROVE Block(r.uctx, k) = Block(s.uctx, k)
  <2>1. k \in 1..(2 + m) /\ k + 1 \in 1..(2 + m)
    OBVIOUS
  <2>2. r.uctx[k] = s.uctx[k] /\ r.uctx[k + 1] = s.uctx[k + 1]
    BY <1>1, <2>1
  <2> QED
    BY <2>2 DEF Block
<1> QED
  BY <1>1, <1>2 DEF SameBlocks

(***************************************************************************)
(* Between them, the user levels assert the formulas on the list of the    *)
(* last one.                                                               *)
(***************************************************************************)
LEMMA BlocksUnion ==
  ASSUME NEW s, NEW x \in Nat, Ready(s, x)
  PROVE  UNION {Block(s.uctx, k) : k \in 1..(Len(s.levels) + 1)}
            = ToSet(s.uctx[Len(s.levels) + 2].list) \cap Formulas
<1>1. PICK m \in Nat : m = Len(s.levels)
  BY ReadyLevels
<1>2. PICK u \in Seq(Frame) : u = s.uctx
  BY ReadyLevels
<1>3. /\ Len(u) \in Nat /\ m + 2 <= Len(u) /\ u[1] = Bottom
      /\ \A i, j \in 1..Len(u) : i <= j => Extends(u[i], u[j])
  <2>1. Len(u) = 2 + m + x
    BY <1>1, <1>2, ReadyLevels
  <2>2. m + 2 <= 2 + m + x /\ 2 + m + x \in Nat
    OBVIOUS
  <2>3. u[1] = Bottom /\ \A i, j \in 1..Len(u) : i <= j => Extends(u[i], u[j])
    BY <1>2, ReadyLevels
  <2> QED
    BY <2>1, <2>2, <2>3
<1>4. \A i \in 1..(m + 2) : /\ i \in 1..Len(u) /\ u[i] \in Frame /\ Len(u[i].list) \in Nat
                            /\ Extends(u[i], u[m + 2])
  <2>1. m + 2 \in 1..Len(u) /\ \A i \in 1..(m + 2) : i \in 1..Len(u) /\ i <= m + 2
    BY <1>3
  <2>2. \A i \in 1..(m + 2) : u[i] \in Frame
    BY <2>1
  <2> QED
    BY <1>3, <2>1, <2>2, FrameFields
<1>5. PICK l \in Seq(All) : l = u[m + 2].list
  <2>1. m + 2 \in 1..(m + 2)
    OBVIOUS
  <2> QED
    BY <1>4, <2>1, FrameFields
<1>6. ToSet(l) = {l[p] : p \in 1..Len(l)} /\ Len(l) \in Nat
  BY SeqSet
<1>7. ASSUME NEW k \in 1..(m + 1) PROVE Block(u, k) \subseteq ToSet(l)
  <2>1. k \in 1..(m + 2) /\ k + 1 \in 1..(m + 2)
    OBVIOUS
  <2>2. PICK a \in Nat : a = Len(u[k].list)
    BY <1>4, <2>1
  <2>3. PICK b \in Nat : b = Len(u[k + 1].list)
    BY <1>4, <2>1
  <2>4. b <= Len(l) /\ \A p \in 1..b : l[p] = u[k + 1].list[p]
    BY <1>4, <1>5, <2>1, <2>3 DEF Extends
  <2>5. \A p \in (a + 1)..b : p \in 1..b /\ p \in 1..Len(l)
    BY <1>6, <2>4
  <2>6. \A p \in (a + 1)..b : u[k + 1].list[p] \in ToSet(l)
    BY <1>6, <2>4, <2>5
  <2> QED
    BY <2>2, <2>3, <2>6 DEF Block
<1>8. ASSUME NEW p \in 1..Len(l), l[p] \in Formulas
      PROVE  \E k \in 1..(m + 1) : l[p] \in Block(u, k)
  <2>1. PICK T : T = {i \in 1..(m + 2) : p <= Len(u[i].list)}
    OBVIOUS
  <2>2. T \subseteq Nat /\ m + 2 \in T
    BY <1>5, <2>1
  <2>3. PICK i \in T : \A j \in T : i <= j
    BY <2>2, LeastNat
  <2>4. i \in 1..(m + 2) /\ p <= Len(u[i].list)
    BY <2>1, <2>3
  <2>5. i # 1
    <3>1. Len(u[1].list) = 0
      BY <1>3, EmptySeq DEF Bottom
    <3> QED
      BY <2>4, <3>1
  <2>6. PICK k \in 1..(m + 1) : i = k + 1
    <3>1. i - 1 \in 1..(m + 1) /\ i = (i - 1) + 1
      BY <2>4, <2>5
    <3> QED
      BY <3>1
  <2>7. k \in 1..(m + 2) /\ ~(k + 1 <= k)
    OBVIOUS
  <2>8. ~(p <= Len(u[k].list))
    BY <2>1, <2>3, <2>6, <2>7
  <2>9. PICK a \in Nat : a = Len(u[k].list)
    BY <1>4, <2>7
  <2>10. PICK b \in Nat : b = Len(u[k + 1].list)
    BY <1>4, <2>4, <2>6
  <2>11. p \in (a + 1)..b /\ p \in 1..b
    BY <2>4, <2>6, <2>8, <2>9, <2>10
  <2>12. l[p] = u[k + 1].list[p]
    BY <1>4, <1>5, <2>4, <2>6, <2>10, <2>11 DEF Extends
  <2>13. l[p] \in Block(u, k)
    BY <1>8, <2>9, <2>10, <2>11, <2>12 DEF Block
  <2> QED
    BY <2>13
<1>9. \A k \in 1..(m + 1) : Block(u, k) \subseteq Formulas
  BY DEF Block
<1>10. UNION {Block(u, k) : k \in 1..(m + 1)} \subseteq ToSet(l) \cap Formulas
  BY <1>7, <1>9
<1>11. ToSet(l) \cap Formulas \subseteq UNION {Block(u, k) : k \in 1..(m + 1)}
  <2> SUFFICES ASSUME NEW e \in ToSet(l), e \in Formulas
               PROVE  \E k \in 1..(m + 1) : e \in Block(u, k)
    OBVIOUS
  <2>1. PICK p \in 1..Len(l) : e = l[p]
    BY <1>6
  <2> QED
    BY <1>8, <2>1
<1> QED
  BY <1>1, <1>2, <1>5, <1>10, <1>11

\* The user levels, from the bottom.
Blocks(s) == [k \in 1..(Len(s.levels) + 1) |-> Block(s.uctx, k)]

\* Records with the same user levels have the same stack of them.
LEMMA BlocksSame ==
  ASSUME NEW r, NEW s, SameBlocks(r, s)
  PROVE  Blocks(r) = Blocks(s)
BY DEF Blocks, SameBlocks

\* Assertions cut at the user levels: the formulas of each level.
LEMMA StackIs ==
  ASSUME NEW s, s.pending \in Nat, Ready(s, s.pending)
  PROVE  AssertedStack(s) = Blocks(s)
<1>1. PICK m \in Nat : m = Len(s.levels)
  BY ReadyLevels
<1>2. PICK u \in Seq(Frame) : u = s.uctx
  BY ReadyLevels
<1>3. PICK n \in Nat : n = Len(u)
  OBVIOUS
<1>4. PICK x \in Nat : x = s.pending
  OBVIOUS
<1>5. n = 2 + m + x /\ u[1] = Bottom /\ \A i, j \in 1..n : i <= j => Extends(u[i], u[j])
  BY <1>1, <1>2, <1>3, <1>4, ReadyLevels
<1>6. /\ \A k \in 1..(m + 2) : k \in 1..n /\ u[k] \in Frame
      /\ n \in 1..n /\ u[n] \in Frame
  <2>1. n \in 1..n /\ \A k \in 1..(m + 2) : k \in 1..n
    BY <1>5
  <2> QED
    BY <1>3, <2>1
<1>7. PICK l \in Seq(All) : l = u[n].list
  BY <1>6, FrameFields
<1>8. Top(s) = u[n]
  BY <1>2, <1>3 DEF Top, Last
<1>9. ASSUME NEW k \in 0..(m + 1) PROVE Cut(s, k) = Len(u[k + 1].list)
  <2>1. CASE k = 0
    <3>1. Cut(s, k) = 0 /\ u[k + 1] = Bottom
      BY <1>5, <2>1 DEF Cut
    <3> QED
      BY <3>1, EmptySeq DEF Bottom
  <2>2. CASE k # 0 /\ k <= m
    <3>1. k \in 1..Len(s.levels)
      BY <1>1, <2>2
    <3>2. s.levels[k] = k
      BY <3>1 DEF Ready, Levelled
    <3> QED
      BY <1>1, <1>2, <2>2, <3>2 DEF Cut
  <2>3. CASE k # 0 /\ ~(k <= m)
    <3>1. k = m + 1 /\ n - x = k + 1
      BY <1>5, <2>3
    <3> QED
      BY <1>1, <1>2, <1>3, <1>4, <2>3, <3>1 DEF Cut
  <2> QED
    BY <2>1, <2>2, <2>3
<1>10. ASSUME NEW k \in 1..(m + 1)
       PROVE  ToSet(SubSeq(Top(s).list, Cut(s, k - 1) + 1, Cut(s, k))) \cap Formulas = Block(u, k)
  <2>1. /\ k \in 1..(m + 2) /\ k + 1 \in 1..(m + 2) /\ k - 1 \in 0..(m + 1) /\ k \in 0..(m + 1)
        /\ (k - 1) + 1 = k
    OBVIOUS
  <2>2. PICK a \in Nat : a = Len(u[k].list)
    BY <1>6, <2>1, FrameFields
  <2>3. PICK b \in Nat : b = Len(u[k + 1].list)
    BY <1>6, <2>1, FrameFields
  <2>4. Cut(s, k - 1) = a /\ Cut(s, k) = b
    <3>1. Cut(s, k - 1) = Len(u[(k - 1) + 1].list)
      BY <1>9, <2>1
    <3>2. Cut(s, k) = Len(u[k + 1].list)
      BY <1>9, <2>1
    <3> QED
      BY <2>1, <2>2, <2>3, <3>1, <3>2
  <2>5. Extends(u[k + 1], u[n])
    <3>1. k + 1 \in 1..n /\ n \in 1..n /\ k + 1 <= n
      BY <1>6, <2>1
    <3> QED
      BY <1>5, <3>1
  <2>6. b \in 0..Len(l) /\ a + 1 \in Nat \ {0} /\ \A p \in 1..b : l[p] = u[k + 1].list[p]
    BY <1>7, <2>3, <2>5 DEF Extends
  <2>7. ToSet(SubSeq(l, a + 1, b)) = {l[p] : p \in (a + 1)..b}
    BY <2>6, SegmentSet
  <2>8. \A p \in (a + 1)..b : p \in 1..b
    OBVIOUS
  <2>9. {l[p] : p \in (a + 1)..b} = {u[k + 1].list[p] : p \in (a + 1)..b}
    BY <2>6, <2>8
  <2>10. Block(u, k) = {u[k + 1].list[p] : p \in (a + 1)..b} \cap Formulas
    BY <2>2, <2>3 DEF Block
  <2> QED
    BY <1>7, <1>8, <2>4, <2>7, <2>9, <2>10
<1> QED
  BY <1>1, <1>2, <1>10 DEF AssertedStack, Blocks

\* Before finishInit nothing is asserted.
LEMMA StackFresh ==
  ASSUME NEW s, Fresh(s)
  PROVE  AssertedStack(s) = [k \in 1..1 |-> {}] /\ s.globals = << >>
<1>1. s.uctx = <<Bottom>> /\ s.levels = << >> /\ s.pending = 0 /\ s.globals = << >>
  BY DEF Fresh
<1>2. Len(s.levels) + 1 = 1 /\ Len(s.uctx) - s.pending = 1 /\ Last(s.uctx) = Bottom
  BY <1>1 DEF Last
<1>3. Cut(s, 0) = 0 /\ Cut(s, 1) = 0
  BY <1>1, <1>2 DEF Cut, Bottom
<1>4. ToSet(SubSeq(Top(s).list, 0 + 1, 0)) = {}
  <2>1. 0 + 1 \in Int /\ 0 \in Int /\ 0 < 0 + 1
    OBVIOUS
  <2>2. SubSeq(Top(s).list, 0 + 1, 0) = << >>
    BY <2>1, SubSeqEmpty
  <2> QED
    BY <2>2 DEF ToSet
<1>5. \A k \in 1..1 : ToSet(SubSeq(Top(s).list, Cut(s, k - 1) + 1, Cut(s, k))) \cap Formulas = {}
  <2>1. \A k \in 1..1 : k = 1 /\ k - 1 = 0
    OBVIOUS
  <2> QED
    BY <1>3, <1>4, <2>1
<1> QED
  BY <1>1, <1>2, <1>5 DEF AssertedStack

\* A single level that is a copy of the empty one at the bottom.
LEMMA EmptyBlocks ==
  ASSUME NEW r, r.levels = << >>, r.uctx[1] = Bottom, r.uctx[2] = Bottom
  PROVE  Blocks(r) = [k \in 1..1 |-> {}]
<1>1. Len(r.levels) + 1 = 1
  OBVIOUS
<1>2. Len(Bottom.list) = 0
  BY DEF Bottom
<1>3. Block(r.uctx, 1) = {}
  <2>1. 1 + 1 = 2 /\ (0 + 1)..0 = {}
    OBVIOUS
  <2> QED
    BY <1>2, <2>1 DEF Block
<1>4. \A k \in 1..1 : Block(r.uctx, k) = {}
  <2>1. \A k \in 1..1 : k = 1
    OBVIOUS
  <2> QED
    BY <1>3, <2>1
<1> QED
  BY <1>1, <1>4 DEF Blocks

\* finishInit does not change what is asserted.
LEMMA StackFinish ==
  ASSUME NEW s, Between(s)
  PROVE  AssertedStack(s) = Blocks(FinishInit(s))
<1>1. PICK r : r = FinishInit(s)
  OBVIOUS
<1>2. /\ r.levels = s.levels
      /\ s.inited => r = s
      /\ ~s.inited => Fresh(s) /\ r.uctx[1] = Bottom /\ r.uctx[2] = Bottom
  BY <1>1, FinishInitReady
<1>3. CASE s.inited
  <2>1. Ready(s, s.pending)
    BY <1>3 DEF Between, Fresh
  <2> QED
    BY <1>1, <1>2, <1>3, <2>1, BetweenPending, StackIs
<1>4. CASE ~s.inited
  <2>1. Fresh(s) /\ r.levels = << >>
    BY <1>2, <1>4 DEF Fresh
  <2> QED
    BY <1>1, <1>2, <1>4, <2>1, StackFresh, EmptyBlocks
<1> QED
  BY <1>3, <1>4

\* Neither does beginCall: pending pops take no user level away.
LEMMA StackBegin ==
  ASSUME NEW s, Between(s)
  PROVE  AssertedStack(s) = Blocks(BeginCall(s))
<1>1. PICK r : r = BeginCall(s)
  OBVIOUS
<1>2. /\ r.levels = s.levels /\ Len(r.uctx) = 2 + Len(s.levels)
      /\ s.inited => \A i \in 1..Len(r.uctx) : r.uctx[i] = s.uctx[i]
      /\ ~s.inited => Fresh(s) /\ r.uctx[1] = Bottom /\ r.uctx[2] = Bottom
  BY <1>1, BeginCallReady
<1>3. CASE s.inited
  <2>1. Ready(s, s.pending) /\ s.pending \in Nat
    BY <1>3, BetweenPending DEF Between, Fresh
  <2>2. SameBlocks(r, s)
    BY <1>2, <1>3, <2>1, SameLevels
  <2> QED
    BY <1>1, <2>1, <2>2, StackIs, BlocksSame
<1>4. CASE ~s.inited
  <2>1. Fresh(s) /\ r.levels = << >>
    BY <1>2, <1>4 DEF Fresh
  <2> QED
    BY <1>1, <1>2, <1>4, <2>1, StackFresh, EmptyBlocks
<1> QED
  BY <1>3, <1>4

-----------------------------------------------------------------------------
(***************************************************************************)
(* The steps of a check.                                                   *)
(***************************************************************************)
\* The levels that the assumptions of a check take.
Excess(a) == IF a = << >> THEN 0 ELSE 1

\* What the user levels of s assert.
BlocksIn(s) == UNION {Block(s.uctx, k) : k \in 1..(Len(s.levels) + 1)}

\* Records with the same user levels assert the same.
LEMMA BlocksInSame ==
  ASSUME NEW r, NEW s, SameBlocks(r, s)
  PROVE  BlocksIn(r) = BlocksIn(s)
BY DEF BlocksIn, SameBlocks

\* ContextManager::notifyCheckSat and Assertions::setAssumptions.
LEMMA SetAssumptionsReady ==
  ASSUME NEW s, Ready(s, 0), s.pending = 0, NEW a \in Assumptions
  PROVE  LET r == SetAssumptions(s, a) IN
         /\ Ready(r, Excess(a)) /\ Keeps(r, s) /\ SameBlocks(r, s)
         /\ r.pending = 0
         /\ ToSet(Top(r).list) \cap Formulas = BlocksIn(s) \cup ToSet(a)
<1>1. PICK z \in Nat : z = 0
  OBVIOUS
<1>2. Ready(s, z) /\ z \in Int
  BY <1>1
<1>3. PICK m \in Nat : m = Len(s.levels)
  BY <1>2, ReadyLevels
<1>4. PICK n \in Nat : n = Len(s.uctx) /\ n = m + 2
  <2>1. Len(s.uctx) = 2 + m + z /\ Len(s.uctx) \in Nat
    BY <1>2, <1>3, ReadyLevels
  <2>2. 2 + m + z = m + 2
    BY <1>1
  <2> QED
    BY <2>1, <2>2
<1>5. BlocksIn(s) = ToSet(s.uctx[n].list) \cap Formulas
  BY <1>2, <1>3, <1>4, BlocksUnion DEF BlocksIn
<1>6. Top(s) = s.uctx[n] /\ Top(s).list \in Seq(All)
  <2>1. Top(s) = s.uctx[Len(s.uctx)] /\ Top(s) \in Frame
    BY <1>2, ReadyTop
  <2> QED
    BY <1>4, <2>1, FrameFields
<1>7. CASE a = << >>
  <2>1. SetAssumptions(s, a) = s
    BY <1>7 DEF SetAssumptions
  <2>2. Excess(a) = 0 /\ ToSet(a) = {}
    BY <1>7 DEF Excess, ToSet
  <2>3. SameBlocks(s, s) /\ Keeps(s, s)
    BY DEF SameBlocks, Keeps
  <2> QED
    BY <1>5, <1>6, <2>1, <2>2, <2>3
<1>8. CASE a # << >>
  <2>1. PICK f \in Formulas : a = <<f>>
    BY <1>8 DEF Assumptions
  <2>2. a \in Seq(Formulas) /\ a \in Seq(All) /\ ToSet(a) \subseteq Formulas
    <3>1. a \in Seq(Formulas)
      BY <2>1
    <3> QED
      BY <3>1, SeqSet DEF All
  <2>3. PICK p : p = InternalPush(s)
    OBVIOUS
  <2>4. PICK y \in Nat : y = 1 /\ y \in Int
    OBVIOUS
  <2>5. /\ Ready(p, y) /\ Keeps(p, s) /\ Len(p.uctx) = n + 1 /\ p.uctx[n + 1] = p.uctx[n]
        /\ \A i \in 1..(n - 1) : p.uctx[i] = s.uctx[i]
        /\ \E d \in Seq(Definitions) : p.uctx[n].list = Top(s).list \o d
        /\ p.levels = s.levels /\ p.pending = 0
    <3>1. Ready(p, z + 1) /\ z + 1 = y
      BY <1>1, <1>2, <2>3, <2>4, InternalPushReady
    <3>2. /\ Keeps(p, s)
          /\ Len(p.uctx) = Len(s.uctx) + 1 /\ p.uctx[Len(p.uctx)] = p.uctx[Len(s.uctx)]
          /\ \A i \in 1..(Len(s.uctx) - 1) : p.uctx[i] = s.uctx[i]
          /\ \E d \in Seq(Definitions) : p.uctx[Len(s.uctx)].list = Top(s).list \o d
          /\ p.levels = s.levels /\ p.pending = 0
      BY <1>2, <2>3, InternalPushReady
    <3> QED
      BY <1>4, <3>1, <3>2
  <2>6. PICK d \in Seq(Definitions) : p.uctx[n].list = Top(s).list \o d
    BY <2>5
  <2>7. PICK r : r = SetTop(p, [Top(p) EXCEPT !.list = @ \o a])
    OBVIOUS
  <2>8. /\ Ready(r, y) /\ Keeps(r, p) /\ Len(r.uctx) = n + 1
        /\ \A i \in 1..((n + 1) - 1) : r.uctx[i] = p.uctx[i]
        /\ Top(r).list = Top(p).list \o a /\ r.levels = p.levels /\ r.pending = p.pending
    <3>1. /\ Ready(r, y) /\ Keeps(r, p)
          /\ Len(r.uctx) = Len(p.uctx) /\ \A i \in 1..(Len(p.uctx) - 1) : r.uctx[i] = p.uctx[i]
          /\ Top(r).list = Top(p).list \o a
          /\ r.inited = p.inited /\ r.levels = p.levels /\ r.pending = p.pending
      BY <2>2, <2>4, <2>5, <2>7, GrowTopReady
    <3> QED
      BY <2>5, <3>1
  <2>9. r = SetAssumptions(s, a) /\ Excess(a) = y
    BY <1>8, <2>3, <2>4, <2>7 DEF SetAssumptions, Excess
  <2>10. /\ \A i \in 1..n : i \in 1..((n + 1) - 1)
         /\ \A i \in 1..(n - 1) : i \in 1..n
         /\ n \in 1..n /\ n <= n + 1
    BY <1>4
  <2>11. \A i \in 1..(n - 1) : r.uctx[i] = s.uctx[i]
    BY <2>5, <2>8, <2>10
  <2>12. r.uctx[n].list = s.uctx[n].list \o d
    BY <1>6, <2>6, <2>8, <2>10
  <2>13. SameBlocks(r, s)
    <3>1. n = Len(s.uctx) /\ n <= Len(r.uctx) /\ r.levels = s.levels
      BY <1>4, <2>5, <2>8, <2>10
    <3> QED
      BY <1>2, <2>8, <2>11, <2>12, <3>1, TopGrown
  <2>14. Keeps(r, s)
    BY <2>5, <2>8 DEF Keeps
  <2>15. Top(p) = p.uctx[n] /\ Top(p).list \in Seq(All)
    BY <2>5, ReadyTop, FrameFields
  <2>16. d \in Seq(All) /\ ToSet(d) \cap Formulas = {}
    BY DefinitionsApart
  <2>17. ToSet(Top(p).list) = ToSet(Top(s).list) \cup ToSet(d)
    <3>1. ToSet(Top(s).list \o d) = ToSet(Top(s).list) \cup ToSet(d)
      BY <1>6, <2>16, ConcatSet
    <3> QED
      BY <2>6, <2>15, <3>1
  <2>18. ToSet(Top(r).list) = ToSet(Top(p).list) \cup ToSet(a)
    BY <2>2, <2>8, <2>15, ConcatSet
  <2>19. ToSet(Top(r).list) \cap Formulas = BlocksIn(s) \cup ToSet(a)
    BY <1>5, <1>6, <2>2, <2>16, <2>17, <2>18
  <2> QED
    BY <2>5, <2>8, <2>9, <2>13, <2>14, <2>19
<1> QED
  BY <1>7, <1>8

\* The record in which a check looks at the resource manager.
LEMMA PreparedReady ==
  ASSUME Between(st), NEW a \in Assumptions
  PROVE  LET r == Prepared(a) IN
         /\ Ready(r, Excess(a)) /\ Keeps(r, st) /\ r.pending = 0 /\ r.levels = st.levels
         /\ SameBlocks(r, BeginCall(st))
         /\ ToSet(Top(r).list) \cap Formulas = BlocksIn(BeginCall(st)) \cup ToSet(a)
<1>1. PICK b : b = BeginCall(st)
  OBVIOUS
<1>2. Ready(b, 0) /\ b.pending = 0 /\ Keeps(b, st) /\ b.levels = st.levels /\ b \in Engine
  BY <1>1, BeginCallReady DEF Ready, Levelled
<1>3. PICK q : q = [b EXCEPT !.mode = "ASSERT"]
  OBVIOUS
<1>4. /\ q \in Engine /\ Keeps(q, b) /\ q.uctx = b.uctx /\ q.prop = b.prop /\ q.sctx = b.sctx
      /\ q.inited = b.inited /\ q.levels = b.levels /\ q.pending = 0
  BY <1>2, <1>3 DEF Engine, Keeps, Mode
<1>5. Ready(q, 0)
  BY <1>2, <1>4, ReadySame DEF Keeps
<1>6. BlocksIn(q) = BlocksIn(b)
  BY <1>4 DEF BlocksIn
<1>7. PICK r : r = SetAssumptions(q, a)
  OBVIOUS
<1>8. /\ Ready(r, Excess(a)) /\ Keeps(r, q) /\ SameBlocks(r, q) /\ r.pending = 0
      /\ ToSet(Top(r).list) \cap Formulas = BlocksIn(q) \cup ToSet(a)
  BY <1>4, <1>5, <1>7, SetAssumptionsReady
<1>9. r = Prepared(a)
  BY <1>1, <1>3, <1>7 DEF Prepared
<1>10. Keeps(r, st) /\ SameBlocks(r, b) /\ r.levels = st.levels
  BY <1>2, <1>4, <1>8 DEF Keeps, SameBlocks
<1> QED
  BY <1>1, <1>6, <1>8, <1>9, <1>10

(***************************************************************************)
(* The problem of a check: the formulas that the user levels assert, the   *)
(* assumptions and the definitions, nothing else.                          *)
(***************************************************************************)
LEMMA CheckedReady ==
  ASSUME Between(st), NEW a \in Assumptions
  PROVE  LET r == RefreshAssertions(Prepared(a)) IN
         /\ Ready(r, Excess(a)) /\ Keeps(r, st) /\ r.pending = 0 /\ r.levels = st.levels
         /\ SameBlocks(r, BeginCall(st))
         /\ UNION ToSet(r.prop) = BlocksIn(BeginCall(st)) \cup ToSet(a) \cup ToSet(st.globals)
<1>1. PICK b : b = BeginCall(st)
  OBVIOUS
<1>2. PICK p : p = Prepared(a)
  OBVIOUS
<1>3. PICK x \in Nat : x = Excess(a) /\ x \in Int
  BY DEF Excess
<1>4. /\ Ready(p, x) /\ Keeps(p, st) /\ p.pending = 0 /\ p.levels = st.levels
      /\ SameBlocks(p, b)
      /\ ToSet(Top(p).list) \cap Formulas = BlocksIn(b) \cup ToSet(a)
  BY <1>1, <1>2, <1>3, PreparedReady
<1>5. PICK r : r = RefreshAssertions(p)
  OBVIOUS
<1>6. PICK n \in Nat : n = Len(p.uctx)
  BY <1>4, ReadyTop
<1>7. /\ Ready(r, x) /\ Keeps(r, p) /\ Len(r.uctx) = n
      /\ \A i \in 1..(n - 1) : r.uctx[i] = p.uctx[i]
      /\ \E d \in Seq(Definitions) : Top(r).list = Top(p).list \o d
      /\ ToSet(p.globals) \subseteq ToSet(Top(r).list)
      /\ UNION ToSet(r.prop) = ToSet(Top(r).list)
      /\ r.levels = p.levels /\ r.pending = p.pending
  <2>1. /\ Ready(r, x) /\ Keeps(r, p)
        /\ Len(r.uctx) = Len(p.uctx) /\ \A i \in 1..(Len(p.uctx) - 1) : r.uctx[i] = p.uctx[i]
        /\ \E d \in Seq(Definitions) : Top(r).list = Top(p).list \o d
        /\ ToSet(p.globals) \subseteq ToSet(Top(r).list)
        /\ UNION ToSet(r.prop) = ToSet(Top(r).list)
        /\ r.levels = p.levels /\ r.pending = p.pending
    BY <1>3, <1>4, <1>5, RefreshAssertionsReady
  <2> QED
    BY <1>6, <2>1
<1>8. PICK d \in Seq(Definitions) : Top(r).list = Top(p).list \o d
  BY <1>7
<1>9. Top(r) = r.uctx[n] /\ Top(p) = p.uctx[n] /\ Top(p).list \in Seq(All) /\ Defines(Top(r), r.globals)
  BY <1>4, <1>6, <1>7, ReadyTop, FrameFields
<1>10. SameBlocks(r, p)
  <2>1. r.uctx[n].list = p.uctx[n].list \o d /\ n <= Len(r.uctx)
    BY <1>7, <1>8, <1>9
  <2> QED
    BY <1>4, <1>6, <1>7, <2>1, TopGrown
<1>11. SameBlocks(r, b)
  BY <1>4, <1>10 DEF SameBlocks
<1>12. d \in Seq(All) /\ ToSet(d) \cap Formulas = {}
  BY DefinitionsApart
<1>13. ToSet(Top(r).list) = ToSet(Top(p).list) \cup ToSet(d)
  BY <1>8, <1>9, <1>12, ConcatSet
<1>14. Keeps(r, st) /\ p.globals = st.globals /\ r.globals = st.globals
  BY <1>4, <1>7 DEF Keeps
<1>15. ToSet(Top(r).list) \subseteq Formulas \cup ToSet(st.globals)
  BY <1>9, <1>14 DEF Defines
<1>16. ToSet(Top(r).list) \cap Formulas = BlocksIn(b) \cup ToSet(a)
  BY <1>4, <1>12, <1>13
<1>17. ToSet(Top(r).list) = BlocksIn(b) \cup ToSet(a) \cup ToSet(st.globals)
  BY <1>7, <1>14, <1>15, <1>16
<1> QED
  BY <1>1, <1>2, <1>3, <1>4, <1>5, <1>7, <1>11, <1>14, <1>17

-----------------------------------------------------------------------------
(***************************************************************************)
(* The commands: what each one leaves, and what it does to the levels that *)
(* the user sees.                                                          *)
(***************************************************************************)
\* The user levels form a sequence of sets of formulas.
LEMMA BlocksSeq ==
  ASSUME NEW s, Len(s.levels) \in Nat
  PROVE  /\ Blocks(s) \in Seq(SUBSET Formulas) /\ Len(Blocks(s)) = Len(s.levels) + 1
         /\ Blocks(s) # << >>
         /\ \A k \in 1..(Len(s.levels) + 1) : Blocks(s)[k] = Block(s.uctx, k)
         /\ ToSet(Blocks(s)) = {Block(s.uctx, k) : k \in 1..(Len(s.levels) + 1)}
<1>1. PICK n \in Nat : n = Len(s.levels) + 1 /\ n # 0
  OBVIOUS
<1>2. \A k \in 1..n : Block(s.uctx, k) \in SUBSET Formulas
  BY DEF Block
<1>3. Blocks(s) = [k \in 1..n |-> Block(s.uctx, k)]
  BY <1>1 DEF Blocks
<1>4. DOMAIN Blocks(s) = 1..n /\ \A k \in 1..n : Blocks(s)[k] = Block(s.uctx, k)
  BY <1>3
<1>5. Blocks(s) \in [1..n -> SUBSET Formulas]
  BY <1>2, <1>3
<1>6. Blocks(s) \in Seq(SUBSET Formulas) /\ Len(Blocks(s)) = n
  BY <1>5
<1>7. ToSet(Blocks(s)) = {Block(s.uctx, k) : k \in 1..n}
  BY <1>4 DEF ToSet
<1> QED
  BY <1>1, <1>4, <1>6, <1>7, EmptySeq

\* The stack with a single empty level.
LEMMA EmptyStack == [k \in 1..1 |-> {}] = << {} >>
<1>1. [k \in 1..1 |-> {}] \in Seq({{}}) /\ << {} >> \in Seq({{}})
  OBVIOUS
<1>2. Len([k \in 1..1 |-> {}]) = 1 /\ Len(<< {} >>) = 1 /\ << {} >>[1] = {}
  OBVIOUS
<1>3. \A i \in 1..1 : [k \in 1..1 |-> {}][i] = << {} >>[i]
  BY <1>2
<1> QED
  BY <1>1, <1>2, <1>3, SeqEqual

\* A usable engine that satisfies the invariant.
LEMMA UsableLives ==
  ASSUME IInv, Usable
  PROVE  Lives
BY DEF IInv, Usable, Broken, Gone

\* What a command needs to leave to keep the engine usable.
LEMMA StillLives ==
  ASSUME NEW r, Lives, r.usable = st.usable, r.destroyed = st.destroyed,
         Ready(r, r.pending), r.pending \in 0..1,
         Len(r.levels) <= MaxPush, st' = r
  PROVE  Lives' /\ AssertedStack(st)' = Blocks(r)
<1>1. r.pending \in Nat
  OBVIOUS
<1>2. AssertedStack(r) = Blocks(r)
  BY <1>1, StackIs
<1> QED
  BY <1>2 DEF Lives, Between

\* assertFormula.
LEMMA AssertFormulaStep ==
  ASSUME Lives, NEW f \in Formulas, AssertFormula(f)
  PROVE  /\ Lives' /\ st'.globals = st.globals
         /\ AssertedStack(st)'
               = Append(Front(AssertedStack(st)), Last(AssertedStack(st)) \cup {f})
<1>1. PICK b : b = BeginCall(st)
  OBVIOUS
<1>2. Between(st) /\ st.pending \in 0..1 /\ Len(st.levels) <= MaxPush
  BY DEF Lives
<1>3. Ready(b, 0) /\ b.pending = 0 /\ Keeps(b, st) /\ b.levels = st.levels
  BY <1>1, <1>2, BeginCallReady
<1>4. AssertedStack(st) = Blocks(b)
  BY <1>1, <1>2, StackBegin
<1>5. PICK r : r = AddFormula(b, f)
  OBVIOUS
<1>6. /\ Ready(r, 0) /\ Keeps(r, b) /\ Len(r.uctx) = Len(b.uctx)
      /\ \A i \in 1..(Len(b.uctx) - 1) : r.uctx[i] = b.uctx[i]
      /\ Top(r).list = Top(b).list \o <<f>>
      /\ r.levels = b.levels /\ r.pending = b.pending
  BY <1>3, <1>5, AddFormulaReady
<1>7. st' = r /\ Keeps(r, st)
  BY <1>1, <1>3, <1>5, <1>6 DEF AssertFormula, Keeps
<1>8. Lives' /\ AssertedStack(st)' = Blocks(r)
  <2>1. r.pending \in 0..1 /\ Ready(r, r.pending) /\ Len(r.levels) <= MaxPush
    BY <1>2, <1>3, <1>6
  <2> QED
    BY <1>7, <2>1, StillLives DEF Keeps
<1>9. PICK m \in Nat : m = Len(b.levels) /\ m + 1 \in Nat
  BY <1>3, ReadyLevels
<1>10. /\ Len(b.uctx) = m + 2 /\ b.uctx \in Seq(Frame) /\ r.uctx \in Seq(Frame)
       /\ Extends(b.uctx[m + 1], b.uctx[m + 2])
  <2>1. Len(b.uctx) = 2 + m + 0 /\ b.uctx \in Seq(Frame) /\ r.uctx \in Seq(Frame)
    BY <1>3, <1>6, <1>9, ReadyLevels
  <2>2. 2 + m + 0 = m + 2 /\ m + 1 \in 1..(m + 2) /\ m + 2 \in 1..(m + 2) /\ m + 1 <= m + 2
    OBVIOUS
  <2> QED
    BY <1>3, <2>1, <2>2, ReadyLevels
<1>11. Top(b) = b.uctx[m + 2] /\ Top(r) = r.uctx[m + 2]
  BY <1>6, <1>10 DEF Top, Last
<1>12. <<f>> \in Seq(All) /\ ToSet(<<f>>) = {f}
  <2>1. f \in All
    BY DEF All
  <2>2. PICK d \in Seq(All) : d = <<f>> /\ Len(d) = 1 /\ d[1] = f
    BY <2>1, Single
  <2>3. ToSet(d) = {d[i] : i \in 1..Len(d)}
    BY SeqSet
  <2>4. {d[i] : i \in 1..Len(d)} = {f}
    BY <2>2
  <2> QED
    BY <2>2, <2>3, <2>4
<1>13. GrownBy(b.uctx, r.uctx, m + 1, <<f>>)
  <2>1. (m + 1) + 1 = m + 2 /\ m + 1 \in Nat \ {0} /\ m + 1 \in 1..((m + 2) - 1)
    OBVIOUS
  <2>2. b.uctx[m + 1] = r.uctx[m + 1]
    BY <1>6, <1>10, <2>1
  <2>3. r.uctx[m + 2].list = b.uctx[m + 2].list \o <<f>>
    BY <1>6, <1>11
  <2>4. m + 2 <= Len(b.uctx) /\ m + 2 <= Len(r.uctx)
    BY <1>6, <1>10
  <2> QED
    BY <1>10, <1>12, <2>1, <2>2, <2>3, <2>4 DEF GrownBy
<1>14. Block(r.uctx, m + 1) = Block(b.uctx, m + 1) \cup {f}
  BY <1>12, <1>13, BlockGrown
<1>15. ASSUME NEW k \in 1..m PROVE Block(r.uctx, k) = Block(b.uctx, k)
  <2>1. k \in 1..((m + 2) - 1) /\ k + 1 \in 1..((m + 2) - 1)
    OBVIOUS
  <2> QED
    BY <1>6, <1>10, <2>1 DEF Block
<1>16. PICK B \in Seq(SUBSET Formulas) :
         /\ B = Blocks(b) /\ Len(B) = m + 1 /\ B # << >>
         /\ \A k \in 1..(m + 1) : B[k] = Block(b.uctx, k)
  BY <1>9, BlocksSeq
<1>17. PICK R \in Seq(SUBSET Formulas) :
         R = Blocks(r) /\ Len(R) = m + 1 /\ \A k \in 1..(m + 1) : R[k] = Block(r.uctx, k)
  BY <1>6, <1>9, BlocksSeq
<1>18. PICK e \in SUBSET Formulas : e = Last(B) \cup {f} /\ Last(B) = B[m + 1]
  <2>1. m + 1 \in 1..Len(B) /\ Last(B) = B[m + 1]
    BY <1>9, <1>16 DEF Last
  <2>2. B[m + 1] \in SUBSET Formulas
    BY <2>1
  <2> QED
    BY <2>1, <2>2
<1>a. PICK A : A = Append(Front(B), e)
  OBVIOUS
<1>19. /\ A \in Seq(SUBSET Formulas) /\ Len(A) = Len(B) /\ A[Len(B)] = e
       /\ \A i \in 1..(Len(B) - 1) : A[i] = B[i]
  BY <1>16, <1>a, ReplaceLast
<1>20. R = A
  <2>1. ASSUME NEW i \in 1..(m + 1) PROVE R[i] = A[i]
    <3>1. CASE i = m + 1
      BY <1>14, <1>16, <1>17, <1>18, <1>19, <3>1
    <3>2. CASE i # m + 1
      <4>1. i \in 1..m /\ i \in 1..((m + 1) - 1)
        BY <3>2
      <4> QED
        BY <1>15, <1>16, <1>17, <1>19, <4>1
    <3> QED
      BY <3>1, <3>2
  <2> QED
    BY <1>16, <1>17, <1>19, <2>1, SeqEqual
<1> QED
  BY <1>4, <1>7, <1>8, <1>16, <1>17, <1>18, <1>a, <1>20 DEF Keeps

\* A global definition added to the known ones.
Defining(s, d) == [s EXCEPT !.globals = Append(@, d)]

\* It keeps a record ready.
LEMMA ReadyDefine ==
  ASSUME NEW s, NEW x \in Int, Ready(s, x), NEW d \in Definitions,
         NEW r, r = Defining(s, d)
  PROVE  /\ Ready(r, x) /\ ToSet(r.globals) = ToSet(s.globals) \cup {d}
         /\ r.usable = s.usable /\ r.destroyed = s.destroyed
         /\ r.uctx = s.uctx /\ r.levels = s.levels /\ r.pending = s.pending
<1>1. s \in Engine /\ Levelled(s, x) /\ Sound(s.uctx, s.prop, s.globals)
  BY DEF Ready, Levelled
<1>2. PICK G \in Seq(Definitions) : G = s.globals /\ Len(G) \in Nat
  BY <1>1, EngineFields
<1>3. PICK H : H = Append(G, d)
  OBVIOUS
<1>4. /\ H \in Seq(Definitions) /\ Len(H) = Len(G) + 1 /\ H[Len(G) + 1] = d
      /\ \A i \in 1..Len(G) : H[i] = G[i]
  BY <1>3, AppendProperties
<1>5. r = [s EXCEPT !.globals = H]
  BY <1>2, <1>3 DEF Defining
<1>6. /\ r \in Engine /\ r.globals = H /\ r.usable = s.usable /\ r.destroyed = s.destroyed
      /\ r.uctx = s.uctx /\ r.levels = s.levels /\ r.pending = s.pending
      /\ r.sctx = s.sctx /\ r.prop = s.prop /\ r.inited = s.inited
  BY <1>1, <1>4, <1>5 DEF Engine
<1>7. ToSet(G) = {G[i] : i \in 1..Len(G)} /\ ToSet(H) = {H[i] : i \in 1..Len(H)}
  BY <1>4, SeqSet
<1>8. ToSet(H) = ToSet(G) \cup {d}
  <2>1. \A i \in 1..Len(H) : i \in 1..Len(G) \/ i = Len(G) + 1
    BY <1>2, <1>4
  <2>2. \A i \in 1..Len(G) : i \in 1..Len(H)
    BY <1>2, <1>4
  <2>3. Len(G) + 1 \in 1..Len(H)
    BY <1>2, <1>4
  <2>4. ToSet(H) \subseteq ToSet(G) \cup {d}
    BY <1>4, <1>7, <2>1
  <2>5. \A i \in 1..Len(G) : G[i] \in ToSet(H)
    BY <1>4, <1>7, <2>2
  <2>6. d \in ToSet(H)
    BY <1>4, <1>7, <2>3
  <2> QED
    BY <1>7, <2>4, <2>5, <2>6
<1>9. ASSUME NEW f, f \in Frame, Defines(f, G) PROVE Defines(f, H)
  <2>1. f.gnext \in Nat /\ f.gnext <= Len(G)
    BY <1>9, FrameFields DEF Defines
  <2>2. f.gnext <= Len(H) /\ \A g \in 1..f.gnext : g \in 1..Len(G)
    BY <1>2, <1>4, <2>1
  <2>3. \A g \in 1..f.gnext : H[g] \in ToSet(f.list)
    BY <1>4, <1>9, <2>2 DEF Defines
  <2> QED
    BY <1>8, <1>9, <2>2, <2>3 DEF Defines
<1>10. DefinitionsIn(s.uctx, H)
  <2>1. s.uctx \in Seq(Frame)
    BY <1>1, EngineFields
  <2>2. \A i \in 1..Len(s.uctx) : s.uctx[i] \in Frame /\ Defines(s.uctx[i], G)
    BY <1>1, <1>2, <2>1 DEF Sound, DefinitionsIn
  <2> QED
    BY <1>9, <2>2 DEF DefinitionsIn
<1>11. Ready(r, x)
  BY <1>1, <1>6, <1>10 DEF Ready, Levelled, Sound
<1> QED
  BY <1>2, <1>3, <1>5, <1>6, <1>8, <1>11

\* defineFunction with global = true.
LEMMA DefineGlobalStep ==
  ASSUME Lives, NEW d \in Definitions, DefineGlobal(d)
  PROVE  /\ Lives' /\ ToSet(st'.globals) = ToSet(st.globals) \cup {d}
         /\ AssertedStack(st)' = AssertedStack(st)
<1>1. PICK b : b = BeginCall(st)
  OBVIOUS
<1>2. Between(st) /\ st.usable /\ ~st.destroyed /\ Len(st.levels) <= MaxPush
  BY DEF Lives
<1>3. Ready(b, 0) /\ b.pending = 0 /\ Keeps(b, st) /\ b.levels = st.levels
  BY <1>1, <1>2, BeginCallReady
<1>4. AssertedStack(st) = Blocks(b)
  BY <1>1, <1>2, StackBegin
<1>5. PICK r : r = Defining(b, d)
  OBVIOUS
<1>6. /\ Ready(r, 0) /\ ToSet(r.globals) = ToSet(b.globals) \cup {d}
      /\ r.usable = b.usable /\ r.destroyed = b.destroyed
      /\ r.uctx = b.uctx /\ r.levels = b.levels /\ r.pending = b.pending
  BY <1>3, <1>5, ReadyDefine
<1>7. st' = r
  BY <1>1, <1>5 DEF DefineGlobal, Defining
<1>8. Lives' /\ AssertedStack(st)' = Blocks(r)
  <2>1. r.pending \in 0..1 /\ Ready(r, r.pending) /\ Len(r.levels) <= MaxPush
    BY <1>2, <1>3, <1>6
  <2>2. r.usable = st.usable /\ r.destroyed = st.destroyed
    BY <1>3, <1>6 DEF Keeps
  <2> QED
    BY <1>7, <2>1, <2>2, StillLives
<1>10. Blocks(r) = Blocks(b)
  BY <1>6 DEF Blocks
<1> QED
  BY <1>3, <1>4, <1>6, <1>7, <1>8, <1>10 DEF Keeps

\* Declarations change the mode only.
LEMMA DeclareConstStep ==
  ASSUME Lives, DeclareConst
  PROVE  Lives' /\ st'.globals = st.globals /\ AssertedStack(st)' = AssertedStack(st)
<1>1. PICK r : r = [st EXCEPT !.mode = "ASSERT"]
  OBVIOUS
<1>2. Between(st) /\ st \in Engine /\ st' = r
  BY <1>1, BetweenPending DEF Lives, DeclareConst
<1>3. /\ r \in Engine /\ Keeps(r, st) /\ r.uctx = st.uctx /\ r.prop = st.prop
      /\ r.sctx = st.sctx /\ r.inited = st.inited /\ r.levels = st.levels
      /\ r.pending = st.pending
  BY <1>1, <1>2 DEF Engine, Keeps, Mode
<1>4. Between(r)
  <2>1. CASE Fresh(st)
    BY <1>3, <2>1 DEF Between, Fresh, Keeps
  <2>2. CASE Ready(st, st.pending)
    <3>1. st.pending \in Int
      BY <1>2, EngineFields
    <3> QED
      BY <1>3, <2>2, <3>1, ReadySame DEF Between, Keeps
  <2> QED
    BY <1>2, <2>1, <2>2 DEF Between
<1>5. AssertedStack(r) = AssertedStack(st)
  BY <1>3 DEF AssertedStack, Cut, Top
<1> QED
  BY <1>2, <1>3, <1>4, <1>5 DEF Lives, Keeps

\* simplify hands the assertions of the level over.
LEMMA SimplifyStep ==
  ASSUME Lives, Simplify
  PROVE  Lives' /\ st'.globals = st.globals /\ AssertedStack(st)' = AssertedStack(st)
<1>1. PICK b : b = BeginCall(st)
  OBVIOUS
<1>2. Between(st) /\ st.pending \in 0..1 /\ Len(st.levels) <= MaxPush
  BY DEF Lives
<1>3. Ready(b, 0) /\ b.pending = 0 /\ Keeps(b, st) /\ b.levels = st.levels
  BY <1>1, <1>2, BeginCallReady
<1>4. AssertedStack(st) = Blocks(b)
  BY <1>1, <1>2, StackBegin
<1>5. PICK r : r = RefreshAssertions(b)
  OBVIOUS
<1>6. /\ Ready(r, 0) /\ Keeps(r, b) /\ r.levels = b.levels /\ r.pending = b.pending
      /\ SameBlocks(r, b)
  BY <1>3, <1>5, RefreshSame
<1>7. st' = r /\ Keeps(r, st)
  BY <1>1, <1>3, <1>5, <1>6 DEF Simplify, Keeps
<1>8. Lives' /\ AssertedStack(st)' = Blocks(r)
  <2>1. r.pending \in 0..1 /\ Ready(r, r.pending) /\ Len(r.levels) <= MaxPush
    BY <1>2, <1>3, <1>6
  <2> QED
    BY <1>7, <2>1, StillLives DEF Keeps
<1> QED
  BY <1>4, <1>6, <1>7, <1>8, BlocksSame DEF Keeps

\* getAssertions refreshes the level on top, also that of assumptions.
LEMMA GetAssertionsStep ==
  ASSUME Lives, GetAssertions
  PROVE  Lives' /\ st'.globals = st.globals /\ AssertedStack(st)' = AssertedStack(st)
<1>1. PICK q : q = FinishInit(st)
  OBVIOUS
<1>2. Between(st) /\ st.pending \in 0..1 /\ Len(st.levels) <= MaxPush
  BY DEF Lives
<1>3. Ready(q, st.pending) /\ Keeps(q, st) /\ q.levels = st.levels /\ q.pending = st.pending
  BY <1>1, <1>2, FinishInitReady
<1>4. AssertedStack(st) = Blocks(q)
  BY <1>1, <1>2, StackFinish
<1>5. PICK r : r = Refresh(q)
  OBVIOUS
<1>6. PICK x \in Nat : x = st.pending
  BY <1>2
<1>7. /\ Ready(r, x) /\ Keeps(r, q) /\ r.levels = q.levels /\ r.pending = q.pending
      /\ SameBlocks(r, q)
  BY <1>3, <1>5, <1>6, RefreshSame
<1>8. st' = r /\ Keeps(r, st)
  BY <1>1, <1>3, <1>5, <1>7 DEF GetAssertions, Keeps
<1>9. Lives' /\ AssertedStack(st)' = Blocks(r)
  <2>1. r.pending \in 0..1 /\ Ready(r, r.pending) /\ Len(r.levels) <= MaxPush
    BY <1>2, <1>3, <1>6, <1>7
  <2> QED
    BY <1>8, <2>1, StillLives DEF Keeps
<1> QED
  BY <1>4, <1>7, <1>8, <1>9, BlocksSame DEF Keeps

\* push opens an empty user level.
LEMMA PushStep ==
  ASSUME Lives, Push
  PROVE  /\ Lives' /\ st'.globals = st.globals
         /\ AssertedStack(st)' = Append(AssertedStack(st), {})
<1>1. PICK b : b = BeginCall(st)
  OBVIOUS
<1>2. Between(st) /\ st.pending \in 0..1 /\ Len(st.levels) < MaxPush /\ MaxPush \in Nat
  BY ConstantsAssumption DEF Lives, Push
<1>3. Ready(b, 0) /\ b.pending = 0 /\ Keeps(b, st) /\ b.levels = st.levels
  BY <1>1, <1>2, BeginCallReady
<1>4. AssertedStack(st) = Blocks(b)
  BY <1>1, <1>2, StackBegin
<1>5. PICK c : c = RefreshAssertions(b)
  OBVIOUS
<1>6. /\ Ready(c, 0) /\ Keeps(c, b) /\ c.levels = b.levels /\ c.pending = 0
      /\ SameBlocks(c, b)
  BY <1>3, <1>5, RefreshSame
<1>7. PICK r : r = UserPush(c)
  OBVIOUS
<1>8. PICK m \in Nat : m = Len(c.levels) /\ Len(c.uctx) = 2 + m + 0
  BY <1>6, ReadyLevels
<1>9. PICK n \in Nat : n = m + 2 /\ n = Len(c.uctx) /\ n - 1 = m + 1 /\ n + 1 = m + 3
  BY <1>8
<1>10. /\ Ready(r, 0) /\ Keeps(r, c) /\ Len(r.levels) = m + 1
       /\ Len(r.uctx) = n + 1 /\ r.uctx[n + 1] = r.uctx[n]
       /\ \A i \in 1..(n - 1) : r.uctx[i] = c.uctx[i]
       /\ \E d \in Seq(Definitions) : r.uctx[n].list = Top(c).list \o d
       /\ r.pending = 0
  <2>1. /\ Ready(r, 0) /\ Keeps(r, c)
        /\ Len(r.levels) = Len(c.levels) + 1
        /\ Len(r.uctx) = Len(c.uctx) + 1 /\ r.uctx[Len(r.uctx)] = r.uctx[Len(c.uctx)]
        /\ \A i \in 1..(Len(c.uctx) - 1) : r.uctx[i] = c.uctx[i]
        /\ \E d \in Seq(Definitions) : r.uctx[Len(c.uctx)].list = Top(c).list \o d
        /\ r.pending = 0
    BY <1>6, <1>7, UserPushReady
  <2> QED
    BY <1>8, <1>9, <2>1
<1>11. st' = r /\ Keeps(r, st)
  BY <1>1, <1>3, <1>5, <1>6, <1>7, <1>10 DEF Push, Keeps
<1>12. Lives' /\ AssertedStack(st)' = Blocks(r)
  <2>1. m + 1 <= MaxPush
    BY <1>2, <1>3, <1>6, <1>8
  <2>2. r.pending \in 0..1 /\ Ready(r, r.pending) /\ Len(r.levels) <= MaxPush
    BY <1>10, <2>1
  <2> QED
    BY <1>11, <2>2, StillLives DEF Keeps
<1>13. \A k \in 1..(m + 1) : Block(r.uctx, k) = Block(c.uctx, k)
  <2>1. PICK d \in Seq(Definitions) : r.uctx[n].list = Top(c).list \o d
    BY <1>10
  <2>2. r.uctx[n].list = c.uctx[n].list \o d
    BY <1>9, <2>1 DEF Top, Last
  <2>3. PICK z \in Nat : z = 0
    OBVIOUS
  <2>4. n <= Len(r.uctx) /\ Ready(r, z) /\ Ready(c, z)
    BY <1>6, <1>10, <2>3
  <2>5. \A k \in 1..(Len(c.levels) + 1) : Block(r.uctx, k) = Block(c.uctx, k)
    BY <1>9, <1>10, <2>2, <2>4, BlocksGrown
  <2> QED
    BY <1>8, <2>5
<1>14. Block(r.uctx, m + 2) = {}
  <2>1. n \in 1..Len(r.uctx) /\ r.uctx \in Seq(Frame) /\ (m + 2) + 1 = n + 1
    BY <1>9, <1>10, ReadyLevels
  <2>2. PICK a \in Nat : a = Len(r.uctx[n].list)
    <3>1. r.uctx[n] \in Frame
      BY <2>1
    <3> QED
      BY <3>1, FrameFields
  <2>3. (a + 1)..a = {}
    OBVIOUS
  <2> QED
    BY <1>9, <1>10, <2>1, <2>2, <2>3 DEF Block
<1>15. PICK B \in Seq(SUBSET Formulas) :
         /\ B = Blocks(c) /\ Len(B) = m + 1
         /\ \A k \in 1..(m + 1) : B[k] = Block(c.uctx, k)
  BY <1>8, BlocksSeq
<1>16. PICK R \in Seq(SUBSET Formulas) :
         /\ R = Blocks(r) /\ Len(R) = (m + 1) + 1
         /\ \A k \in 1..((m + 1) + 1) : R[k] = Block(r.uctx, k)
  <2>1. Len(r.levels) \in Nat
    BY <1>10
  <2> QED
    BY <1>10, <2>1, BlocksSeq
<1>17. PICK e \in SUBSET Formulas : e = {}
  OBVIOUS
<1>18. PICK A : A = Append(B, e)
  OBVIOUS
<1>19. /\ A \in Seq(SUBSET Formulas) /\ Len(A) = (m + 1) + 1 /\ A[(m + 1) + 1] = e
       /\ \A k \in 1..(m + 1) : A[k] = B[k]
  BY <1>15, <1>18, AppendProperties
<1>20. R = A
  <2>1. ASSUME NEW k \in 1..((m + 1) + 1) PROVE R[k] = A[k]
    <3>1. CASE k \in 1..(m + 1)
      BY <1>13, <1>15, <1>16, <1>19, <3>1
    <3>2. CASE k = (m + 1) + 1
      <4>1. k = m + 2
        BY <3>2
      <4> QED
        BY <1>14, <1>16, <1>17, <1>19, <3>2, <4>1
    <3>3. k \in 1..(m + 1) \/ k = (m + 1) + 1
      OBVIOUS
    <3> QED
      BY <3>1, <3>2, <3>3
  <2> QED
    BY <1>16, <1>19, <2>1, SeqEqual
<1>21. Blocks(c) = Blocks(b)
  BY <1>6, BlocksSame
<1> QED
  BY <1>4, <1>11, <1>12, <1>15, <1>16, <1>17, <1>18, <1>20, <1>21 DEF Keeps

\* pop closes the last user level.
LEMMA PopStep ==
  ASSUME Lives, Pop
  PROVE  /\ Lives' /\ st'.globals = st.globals
         /\ Len(AssertedStack(st)) > 1
         /\ AssertedStack(st)' = Front(AssertedStack(st))
<1>1. PICK b : b = BeginCall(st)
  OBVIOUS
<1>2. Between(st) /\ Len(st.levels) <= MaxPush /\ st.levels # << >> /\ MaxPush \in Nat
  BY ConstantsAssumption DEF Lives, Pop
<1>3. Ready(b, 0) /\ b.pending = 0 /\ Keeps(b, st) /\ b.levels = st.levels
  BY <1>1, <1>2, BeginCallReady
<1>4. AssertedStack(st) = Blocks(b)
  BY <1>1, <1>2, StackBegin
<1>5. PICK r : r = UserPop(b)
  OBVIOUS
<1>6. PICK m \in Nat : m = Len(b.levels) /\ m # 0 /\ Len(b.uctx) = 2 + m + 0
  <2>1. b.levels \in Seq(Nat) /\ b.levels # << >>
    BY <1>2, <1>3, EngineFields DEF Ready, Levelled
  <2> QED
    BY <1>3, <2>1, EmptySeq, ReadyLevels
<1>7. /\ Ready(r, 0) /\ Keeps(r, b) /\ Len(r.levels) = m - 1
      /\ \A i \in 1..(Len(b.uctx) - 1) : r.uctx[i] = b.uctx[i]
      /\ r.pending = 0
  BY <1>2, <1>3, <1>5, <1>6, UserPopReady
<1>8. st' = r /\ Keeps(r, st)
  BY <1>1, <1>3, <1>5, <1>7 DEF Pop, Keeps
<1>9. Lives' /\ AssertedStack(st)' = Blocks(r)
  <2>1. m - 1 <= MaxPush
    BY <1>2, <1>3, <1>6
  <2>2. r.pending \in 0..1 /\ Ready(r, r.pending) /\ Len(r.levels) <= MaxPush
    BY <1>7, <2>1
  <2> QED
    BY <1>8, <2>2, StillLives DEF Keeps
<1>10. ASSUME NEW k \in 1..m PROVE Block(r.uctx, k) = Block(b.uctx, k)
  <2>1. k \in 1..((2 + m + 0) - 1) /\ k + 1 \in 1..((2 + m + 0) - 1)
    OBVIOUS
  <2>2. r.uctx[k] = b.uctx[k] /\ r.uctx[k + 1] = b.uctx[k + 1]
    BY <1>6, <1>7, <2>1
  <2> QED
    BY <2>2 DEF Block
<1>11. PICK B \in Seq(SUBSET Formulas) :
         /\ B = Blocks(b) /\ Len(B) = m + 1
         /\ \A k \in 1..(m + 1) : B[k] = Block(b.uctx, k)
  BY <1>6, BlocksSeq
<1>12. PICK R \in Seq(SUBSET Formulas) :
         R = Blocks(r) /\ Len(R) = m /\ \A k \in 1..m : R[k] = Block(r.uctx, k)
  <2>1. Len(r.levels) \in Nat /\ Len(r.levels) + 1 = m
    BY <1>6, <1>7
  <2> QED
    BY <2>1, BlocksSeq
<1>13. PICK j \in 0..Len(B) : j = m
  BY <1>11
<1>14. PICK F : F = SubSeq(B, 1, j)
  OBVIOUS
<1>15. F \in Seq(SUBSET Formulas) /\ Len(F) = m /\ \A k \in 1..m : F[k] = B[k]
  BY <1>13, <1>14, Prefix
<1>16. Front(B) = F
  <2>1. Len(B) - 1 = j
    BY <1>11, <1>13
  <2> QED
    BY <1>14, <2>1 DEF Front
<1>17. R = F
  <2>1. \A k \in 1..m : k \in 1..(m + 1)
    OBVIOUS
  <2>2. \A k \in 1..m : R[k] = F[k]
    BY <1>10, <1>11, <1>12, <1>15, <2>1
  <2> QED
    BY <1>12, <1>15, <2>2, SeqEqual
<1>18. Len(B) > 1
  BY <1>6, <1>11
<1> QED
  BY <1>4, <1>8, <1>9, <1>11, <1>12, <1>16, <1>17, <1>18 DEF Keeps

\* A level without contents: of a record whose lists agree.
LEMMA SameFields ==
  ASSUME NEW s, NEW x \in Int, Ready(s, x), NEW r \in Engine,
         r.uctx = s.uctx, r.prop = s.prop, r.globals = s.globals, r.levels = s.levels,
         r.sctx = s.sctx, r.inited = s.inited
  PROVE  Ready(r, x) /\ SameBlocks(r, s)
BY ReadySame DEF SameBlocks

\* The result of a check is recorded and the level of its assumptions is left
\* for the next command to pop.
LEMMA RecordedReady ==
  ASSUME NEW q, NEW a \in Assumptions, Ready(q, Excess(a)), q.pending = 0,
         NEW result \in {"SAT", "UNSAT", "UNKNOWN"}
  PROVE  LET r == RecordStatus(NotifyCheckSatResult(q, a), result) IN
         /\ Ready(r, r.pending) /\ r.pending \in 0..1 /\ Keeps(r, q) /\ SameBlocks(r, q)
         /\ r.levels = q.levels
<1>1. q \in Engine
  BY DEF Ready, Levelled
<1>2. PICK x \in Int : x = Excess(a) /\ x \in 0..1
  BY DEF Excess
<1>3. PICK p : p = NotifyCheckSatResult(q, a)
  OBVIOUS
<1>4. (IF a = << >> THEN q.pending ELSE q.pending + 1) = x /\ x \in Nat
  BY <1>2 DEF Excess
<1>5. p = [q EXCEPT !.postsolve = TRUE, !.pending = x]
  BY <1>3, <1>4 DEF NotifyCheckSatResult
<1>6. /\ p \in Engine /\ Keeps(p, q) /\ p.uctx = q.uctx /\ p.prop = q.prop /\ p.sctx = q.sctx
      /\ p.inited = q.inited /\ p.levels = q.levels /\ p.pending = x
  BY <1>1, <1>4, <1>5 DEF Engine, Keeps
<1>7. PICK mode \in Mode : mode = IF result = "UNKNOWN" THEN "SAT_UNKNOWN" ELSE result
  BY DEF Mode
<1>8. PICK r : r = RecordStatus(p, result)
  OBVIOUS
<1>9. r = [p EXCEPT !.queryMade = TRUE, !.mode = mode]
  BY <1>7, <1>8 DEF RecordStatus
<1>10. /\ r \in Engine /\ Keeps(r, p) /\ r.uctx = p.uctx /\ r.prop = p.prop /\ r.sctx = p.sctx
       /\ r.inited = p.inited /\ r.levels = p.levels /\ r.pending = x
  BY <1>6, <1>9 DEF Engine, Keeps
<1>11. Keeps(r, q)
  BY <1>6, <1>10 DEF Keeps
<1>12. Ready(r, x) /\ SameBlocks(r, q)
  BY <1>2, <1>6, <1>10, <1>11, SameFields DEF Keeps
<1> QED
  BY <1>2, <1>3, <1>6, <1>8, <1>10, <1>11, <1>12

\* What the levels of a stack assert together.
LEMMA StackUnion ==
  ASSUME Lives
  PROVE  BlocksIn(BeginCall(st)) = UNION ToSet(AssertedStack(st))
<1>1. PICK b : b = BeginCall(st)
  OBVIOUS
<1>2. Ready(b, 0) /\ AssertedStack(st) = Blocks(b)
  BY <1>1, BeginCallReady, StackBegin DEF Lives
<1>3. Len(b.levels) \in Nat
  BY <1>2, ReadyLevels
<1> QED
  BY <1>1, <1>2, <1>3, BlocksSeq DEF BlocksIn

\* A check answers for what is in force and leaves the user levels alone.
LEMMA CheckSatStep ==
  ASSUME Lives, NEW a \in Assumptions, NEW result \in {"SAT", "UNSAT", "UNKNOWN"},
         CheckSat(a, result)
  PROVE  /\ Lives' /\ st'.globals = st.globals /\ AssertedStack(st)' = AssertedStack(st)
         /\ answer' = [given |-> TRUE, assuming |-> ToSet(a),
                       about |-> (UNION ToSet(AssertedStack(st))) \cup ToSet(st.globals) \cup ToSet(a)]
<1>1. Between(st) /\ st.pending \in 0..1 /\ Len(st.levels) <= MaxPush
  BY DEF Lives
<1>2. PICK b : b = BeginCall(st)
  OBVIOUS
<1>3. AssertedStack(st) = Blocks(b)
  BY <1>1, <1>2, StackBegin
<1>4. PICK p : p = RefreshAssertions(Prepared(a))
  OBVIOUS
<1>5. /\ Ready(p, Excess(a)) /\ Keeps(p, st) /\ p.pending = 0 /\ p.levels = st.levels
      /\ SameBlocks(p, b)
      /\ UNION ToSet(p.prop) = BlocksIn(b) \cup ToSet(a) \cup ToSet(st.globals)
  BY <1>1, <1>2, <1>4, CheckedReady
<1>6. PICK q : q = [p EXCEPT !.trail = TRUE]
  OBVIOUS
<1>7. p \in Engine
  BY <1>5 DEF Ready, Levelled
<1>8. /\ q \in Engine /\ Keeps(q, p) /\ q.uctx = p.uctx /\ q.prop = p.prop /\ q.sctx = p.sctx
      /\ q.inited = p.inited /\ q.levels = p.levels /\ q.pending = 0
  BY <1>5, <1>6, <1>7 DEF Engine, Keeps
<1>9. PICK x \in Int : x = Excess(a)
  BY DEF Excess
<1>10. Ready(q, x) /\ SameBlocks(q, p)
  BY <1>5, <1>8, <1>9, SameFields DEF Keeps
<1>11. PICK r : r = RecordStatus(NotifyCheckSatResult(q, a), result)
  OBVIOUS
<1>12. /\ Ready(r, r.pending) /\ r.pending \in 0..1 /\ Keeps(r, q) /\ SameBlocks(r, q)
       /\ r.levels = q.levels
  BY <1>8, <1>9, <1>10, <1>11, RecordedReady
<1>13. /\ st' = r
       /\ answer' = [given |-> TRUE, assuming |-> ToSet(a), about |-> UNION ToSet(q.prop)]
  BY <1>4, <1>6, <1>11 DEF CheckSat
<1>14. Keeps(r, st) /\ SameBlocks(r, b) /\ r.levels = st.levels
  BY <1>5, <1>8, <1>10, <1>12 DEF Keeps, SameBlocks
<1>15. Lives' /\ AssertedStack(st)' = Blocks(r)
  BY <1>1, <1>12, <1>13, <1>14, StillLives DEF Keeps
<1>16. UNION ToSet(q.prop) = (UNION ToSet(AssertedStack(st))) \cup ToSet(st.globals) \cup ToSet(a)
  <2>1. BlocksIn(b) = UNION ToSet(AssertedStack(st))
    BY <1>2, StackUnion
  <2>2. UNION ToSet(q.prop) = BlocksIn(b) \cup ToSet(a) \cup ToSet(st.globals)
    BY <1>5, <1>8
  <2> QED
    BY <2>1, <2>2
<1> QED
  BY <1>3, <1>13, <1>14, <1>15, <1>16, BlocksSame DEF Keeps

\* A check that is out of resources leaves the user levels alone, too.
LEMMA CheckSatOutStep ==
  ASSUME Lives, NEW a \in Assumptions, CheckSatOut(a)
  PROVE  Lives' /\ st'.globals = st.globals /\ AssertedStack(st)' = AssertedStack(st)
<1>1. Between(st) /\ st.pending \in 0..1 /\ Len(st.levels) <= MaxPush
  BY DEF Lives
<1>2. PICK b : b = BeginCall(st)
  OBVIOUS
<1>3. AssertedStack(st) = Blocks(b)
  BY <1>1, <1>2, StackBegin
<1>4. PICK p : p = Prepared(a)
  OBVIOUS
<1>5. /\ Ready(p, Excess(a)) /\ Keeps(p, st) /\ p.pending = 0 /\ p.levels = st.levels
      /\ SameBlocks(p, b)
  BY <1>1, <1>2, <1>4, PreparedReady
<1>6. PICK r : r = RecordStatus(NotifyCheckSatResult(p, a), "UNKNOWN")
  OBVIOUS
<1>7. /\ Ready(r, r.pending) /\ r.pending \in 0..1 /\ Keeps(r, p) /\ SameBlocks(r, p)
      /\ r.levels = p.levels
  BY <1>5, <1>6, RecordedReady
<1>8. st' = r
  BY <1>4, <1>6 DEF CheckSatOut
<1>9. Keeps(r, st) /\ SameBlocks(r, b) /\ r.levels = st.levels
  BY <1>5, <1>7 DEF Keeps, SameBlocks
<1>10. Lives' /\ AssertedStack(st)' = Blocks(r)
  BY <1>1, <1>7, <1>8, <1>9, StillLives DEF Keeps
<1> QED
  BY <1>3, <1>8, <1>9, <1>10, BlocksSame DEF Keeps

\* A check that throws leaves the levels as they were for the check.
LEMMA CheckSatThrowsStep ==
  ASSUME Lives, NEW a \in Assumptions, NEW h \in BOOLEAN, CheckSatThrows(a, h)
  PROVE  Broken'
<1>1. Between(st) /\ Len(st.levels) <= MaxPush /\ ~st.destroyed
  BY DEF Lives
<1>2. PICK x \in Int : x = Excess(a) /\ x \in 0..1
  BY DEF Excess
<1>3. PICK p : p = Prepared(a)
  OBVIOUS
<1>4. Ready(p, x) /\ Keeps(p, st) /\ p.pending = 0 /\ p.levels = st.levels
  BY <1>1, <1>2, <1>3, PreparedReady
<1>5. PICK q : q = IF h THEN RefreshAssertions(p) ELSE GetNextAssertions(p)
  OBVIOUS
<1>6. Levelled(q, x) /\ Keeps(q, p) /\ q.levels = p.levels /\ q.pending = 0
  <2>1. CASE h
    <3>1. PICK r : r = RefreshAssertions(p)
      OBVIOUS
    <3>2. Ready(r, x) /\ Keeps(r, p) /\ r.levels = p.levels /\ r.pending = p.pending
      BY <1>4, <3>1, RefreshAssertionsReady
    <3> QED
      BY <1>4, <1>5, <2>1, <3>1, <3>2 DEF Ready
  <2>2. CASE ~h
    <3>1. PICK r : r = GetNextAssertions(p)
      OBVIOUS
    <3>2. Levelled(r, x) /\ Keeps(r, p) /\ r.levels = p.levels /\ r.pending = p.pending
      BY <1>4, <3>1, GetNextAssertionsLevelled
    <3> QED
      BY <1>4, <1>5, <2>2, <3>1, <3>2
  <2> QED
    BY <2>1, <2>2
<1>7. PICK r : r = [q EXCEPT !.trail = FALSE, !.usable = FALSE]
  OBVIOUS
<1>8. q \in Engine
  BY <1>6 DEF Levelled
<1>9. /\ r \in Engine /\ r.uctx = q.uctx /\ r.prop = q.prop /\ r.sctx = q.sctx
      /\ r.inited = q.inited /\ r.levels = q.levels /\ r.pending = q.pending
      /\ ~r.usable /\ r.destroyed = q.destroyed
  BY <1>7, <1>8 DEF Engine
<1>10. Levelled(r, x)
  BY <1>6, <1>9 DEF Levelled
<1>11. st' = r
  BY <1>3, <1>5, <1>7 DEF CheckSatThrows
<1>12. ~r.destroyed /\ r.pending = 0 /\ Len(r.levels) <= MaxPush
  BY <1>1, <1>4, <1>6, <1>9 DEF Keeps
<1> QED
  BY <1>2, <1>9, <1>10, <1>11, <1>12 DEF Broken

\* resetAssertions leaves one empty level.
LEMMA ResetAssertionsStep ==
  ASSUME Lives, ResetAssertions
  PROVE  /\ Lives' /\ st'.globals = st.globals
         /\ AssertedStack(st)' = << {} >>
<1>1. Between(st) /\ st.pending \in 0..1 /\ Len(st.levels) <= MaxPush /\ MaxPush \in Nat
  BY ConstantsAssumption DEF Lives
<1>2. CASE ~st.inited
  <2>1. st' = st
    BY <1>2 DEF ResetAssertions
  <2>2. Fresh(st)
    BY <1>1, <1>2 DEF Between, Ready, Levelled
  <2>3. AssertedStack(st) = << {} >>
    BY <2>2, StackFresh, EmptyStack
  <2> QED
    BY <2>1, <2>3 DEF Lives
<1>3. CASE st.inited
  <2>1. Ready(st, st.pending) /\ st.pending <= Len(st.uctx) - 2 /\ st \in Engine
    BY <1>1, <1>3, BetweenPending DEF Between, Fresh
  <2>2. PICK x \in Int : x = st.pending
    BY <1>1
  <2>3. PICK r : r = DoPendingPops(st)
    OBVIOUS
  <2>4. Ready(r, x - x) /\ Keeps(r, st) /\ r.levels = st.levels /\ r.pending = 0 /\ r.inited
    <3>1. /\ Ready(r, x - st.pending) /\ Keeps(r, st)
          /\ r.inited = st.inited /\ r.levels = st.levels /\ r.pending = 0
      BY <2>1, <2>2, <2>3, DoPendingPopsReady
    <3> QED
      BY <1>3, <2>2, <3>1
  <2>5. x - x \in Int /\ r \in Engine /\ r.uctx \in Seq(Frame) /\ r.uctx[1] = Bottom
    <3>1. x - x \in Int
      OBVIOUS
    <3> QED
      BY <2>4, <3>1, ReadyTop, ReadyLevels
  <2>6. PICK u : u = PoppedUctx(r, Level(r))
    OBVIOUS
  <2>7. u = <<Bottom>>
    <3>1. PICK n \in Nat : n = Len(r.uctx) /\ n >= 2
      BY <2>4, <2>5, ReadyTop
    <3>2. Len(r.uctx) - Level(r) = 1
      BY <3>1 DEF Level
    <3>3. PICK k \in 0..Len(r.uctx) : k = 1
      BY <3>1
    <3>4. u = SubSeq(r.uctx, 1, k)
      BY <2>6, <3>2, <3>3 DEF PoppedUctx
    <3>5. u \in Seq(Frame) /\ Len(u) = 1 /\ u[1] = Bottom
      <4>1. u \in Seq(Frame) /\ Len(u) = k /\ \A i \in 1..k : u[i] = r.uctx[i]
        BY <2>5, <3>4, Prefix
      <4>2. 1 \in 1..k
        BY <3>3
      <4> QED
        BY <2>5, <3>3, <4>1, <4>2
    <3>6. Bottom \in Frame
      BY DEF Bottom, Frame
    <3>7. <<Bottom>> \in Seq(Frame) /\ Len(<<Bottom>>) = 1 /\ <<Bottom>>[1] = Bottom
      BY <3>6, Single
    <3>8. \A i \in 1..1 : i = 1
      OBVIOUS
    <3>9. \A i \in 1..1 : u[i] = <<Bottom>>[i]
      BY <3>5, <3>7, <3>8
    <3> QED
      BY <3>5, <3>7, <3>9, SeqEqual
  <2>8. PICK mode \in Mode : mode = IF r.levels = << >> THEN r.mode ELSE "ASSERT"
    BY <2>5, EngineFields DEF Mode
  <2>9. PICK q : q = [r EXCEPT !.mode = mode, !.levels = << >>, !.uctx = u, !.sctx = 0,
                               !.prop = << {} >>]
    OBVIOUS
  <2>10. u \in Seq(Frame) /\ << {} >> \in Seq(SUBSET All) /\ << >> \in Seq(Nat)
    <3>1. {} \in SUBSET All /\ Bottom \in Frame
      BY DEF Bottom, Frame
    <3> QED
      BY <2>7, <3>1, Single, EmptySeq
  <2>11. /\ q \in Engine /\ Keeps(q, r) /\ q.uctx = u /\ q.prop = << {} >> /\ q.sctx = 0
         /\ q.levels = << >> /\ q.inited = r.inited /\ q.pending = r.pending
    <3>1. PICK P \in Seq(SUBSET All), L \in Seq(Nat) : P = << {} >> /\ L = << >>
      BY <2>10
    <3>2. q = [r EXCEPT !.mode = mode, !.levels = L, !.uctx = u, !.sctx = 0, !.prop = P]
      BY <2>9, <3>1
    <3>3. /\ q \in Engine /\ Keeps(q, r) /\ q.uctx = u /\ q.prop = P /\ q.sctx = 0
          /\ q.levels = L /\ q.inited = r.inited /\ q.pending = r.pending
      <4>1. r \in Engine /\ u \in Seq(Frame) /\ 0 \in Int
        BY <2>5, <2>10
      <4> QED
        BY <3>2, <4>1 DEF Engine, Keeps
    <3> QED
      BY <3>1, <3>3
  <2>12. PICK w : w = PushContexts(q)
    OBVIOUS
  <2>13. /\ w \in Engine /\ Keeps(w, q) /\ Sound(w.uctx, w.prop, w.globals)
         /\ Len(w.uctx) = 2 /\ w.uctx[1] = Bottom /\ w.uctx[2] = Bottom
         /\ Len(w.prop) = 1 /\ w.sctx = 1
         /\ w.inited = q.inited /\ w.levels = q.levels /\ w.pending = q.pending
    BY <2>7, <2>11, <2>12, FirstLevel
  <2>14. st' = w
    BY <1>3, <2>3, <2>6, <2>8, <2>9, <2>12 DEF ResetAssertions
  <2>15. Ready(w, 0) /\ w.pending = 0 /\ Len(w.levels) = 0 /\ w.levels = << >>
    <3>1. w.inited /\ w.pending = 0 /\ w.levels = << >> /\ Len(w.levels) = 0
      BY <2>4, <2>11, <2>13
    <3>2. 2 >= 2 /\ 2 = 2 + 0 + 0 /\ 1 = 2 - 1 /\ 1..0 = {}
      OBVIOUS
    <3>3. Levelled(w, 0)
      BY <2>13, <3>1, <3>2 DEF Levelled
    <3> QED
      BY <2>13, <3>1, <3>3 DEF Ready
  <2>16. Keeps(w, st)
    BY <2>4, <2>11, <2>13 DEF Keeps
  <2>17. Lives' /\ AssertedStack(st)' = Blocks(w)
    <3>1. w.pending \in 0..1 /\ Ready(w, w.pending) /\ Len(w.levels) <= MaxPush
      BY <1>1, <2>15
    <3> QED
      BY <2>14, <2>16, <3>1, StillLives DEF Keeps
  <2>18. Blocks(w) = << {} >>
    BY <2>13, <2>15, EmptyBlocks, EmptyStack
  <2> QED
    BY <2>14, <2>16, <2>17, <2>18 DEF Keeps
<1> QED
  BY <1>1, <1>2, <1>3, EngineFields, BetweenPending

\* An engine that is not destroyed: its pending pops can be done.
LEMMA OpenLevels ==
  ASSUME IInv, ~st.destroyed
  PROVE  /\ st \in Engine /\ st.pending \in Nat /\ Len(st.uctx) \in Nat
         /\ \/ Len(st.uctx) = 1 /\ Len(st.prop) = 1 /\ st.pending = 0
            \/ Len(st.uctx) >= 2 + st.pending /\ Len(st.prop) = Len(st.uctx) - 1
<1>1. ASSUME NEW x \in Nat, Levelled(st, x), st.pending \in Nat, st.pending <= x
      PROVE  /\ st \in Engine /\ Len(st.uctx) \in Nat
             /\ Len(st.uctx) >= 2 + st.pending /\ Len(st.prop) = Len(st.uctx) - 1
  <2>1. /\ st \in Engine /\ Len(st.uctx) = 2 + Len(st.levels) + x
        /\ Len(st.prop) = Len(st.uctx) - 1
    BY <1>1 DEF Levelled
  <2>2. Len(st.uctx) \in Nat /\ Len(st.levels) \in Nat
    BY <2>1, EngineFields
  <2> QED
    BY <1>1, <2>1, <2>2
<1>2. CASE Lives
  <2>1. Between(st) /\ st.pending \in Nat
    BY <1>2 DEF Lives
  <2>2. CASE Fresh(st)
    <3>1. st \in Engine /\ st.uctx = <<Bottom>> /\ st.prop = << {} >> /\ st.pending = 0
      BY <2>2 DEF Fresh
    <3>2. Len(st.uctx) = 1 /\ Len(st.prop) = 1
      BY <3>1
    <3> QED
      BY <3>1, <3>2
  <2>3. CASE Ready(st, st.pending)
    <3>1. st.pending <= st.pending /\ Levelled(st, st.pending)
      BY <2>1, <2>3 DEF Ready
    <3> QED
      BY <1>1, <2>1, <3>1
  <2> QED
    BY <2>1, <2>2, <2>3 DEF Between
<1>3. CASE Broken
  <2>1. PICK x \in Nat : Levelled(st, x) /\ 0 <= x
    BY <1>3 DEF Broken
  <2>2. st.pending = 0
    BY <1>3 DEF Broken
  <2> QED
    BY <1>1, <2>1, <2>2
<1> QED
  BY <1>2, <1>3 DEF IInv, Gone

\* Destruction.
LEMMA DestroyStep ==
  ASSUME IInv, Destroy
  PROVE  Gone'
<1>1. /\ ~st.destroyed
      /\ st \in Engine /\ st.pending \in Nat /\ Len(st.uctx) \in Nat
      /\ \/ Len(st.uctx) = 1 /\ Len(st.prop) = 1 /\ st.pending = 0
         \/ Len(st.uctx) >= 2 + st.pending /\ Len(st.prop) = Len(st.uctx) - 1
  BY OpenLevels DEF Destroy
<1>2. PICK k \in Nat, n \in Nat, p \in Nat : k = Len(st.uctx) /\ n = Len(st.prop) /\ p = st.pending
  BY <1>1, EngineFields
<1>3. \/ k = 1 /\ n = 1 /\ p = 0
      \/ k >= 2 + p /\ n = k - 1
  BY <1>1, <1>2
<1>4. p <= k /\ p <= n /\ k - p \in 0..k /\ n - p \in 0..n
  BY <1>3
<1>5. PICK r : r = DoPendingPops(st)
  OBVIOUS
<1>6. r \in Engine /\ Len(r.uctx) = k - p /\ Len(r.prop) = n - p /\ r.pending = 0
  <2>1. /\ r \in Engine /\ r.uctx = SubSeq(st.uctx, 1, k - p)
        /\ r.prop = SubSeq(st.prop, 1, n - p) /\ r.pending = 0
    BY <1>1, <1>2, <1>4, <1>5, DoPendingPopsFields
  <2>2. st.uctx \in Seq(Frame) /\ st.prop \in Seq(SUBSET All)
    BY <1>1, EngineFields
  <2>3. Len(SubSeq(st.uctx, 1, k - p)) = k - p
    BY <1>2, <1>4, <2>2, Prefix
  <2>4. Len(SubSeq(st.prop, 1, n - p)) = n - p
    BY <1>2, <1>4, <2>2, Prefix
  <2> QED
    BY <2>1, <2>3, <2>4
<1>7. PICK K \in Nat, N \in Nat : K = Len(r.uctx) /\ N = Len(r.prop)
  BY <1>6, EngineFields
<1>8. (K = 1 /\ N = 1) \/ (K >= 2 /\ N = K - 1)
  <2>1. K = k - p /\ N = n - p
    BY <1>6, <1>7
  <2> QED
    BY <1>3, <2>1
<1>9. Level(r) = K - 1
  BY <1>7 DEF Level
<1>10. PICK s : s = Shutdown(st)
  OBVIOUS
<1>11. s \in Engine /\ Len(s.prop) = 1 /\ Len(s.uctx) \in 1..2 /\ s.pending = 0
  <2>1. CASE K > 2
    <3>1. PICK j \in Nat : j = K - 2 /\ j <= K /\ j <= N /\ K - j = 2 /\ N - j = 1
      <4>1. K - 2 \in Nat /\ K - 2 <= K /\ K - 2 <= N /\ K - (K - 2) = 2 /\ N - (K - 2) = 1
        BY <1>8, <2>1
      <4> QED
        BY <4>1
    <3>2. (K - 1) - 1 = j /\ K - 1 > 1
      BY <2>1, <3>1
    <3>3. s = PopLevels(r, j)
      BY <1>5, <1>9, <1>10, <3>2 DEF Shutdown
    <3>4. /\ s \in Engine /\ s.uctx = SubSeq(r.uctx, 1, 2) /\ s.prop = SubSeq(r.prop, 1, 1)
          /\ s.pending = r.pending
      <4>1. j <= Len(r.uctx) /\ j <= Len(r.prop) /\ r \in Engine
        BY <1>6, <1>7, <3>1
      <4>2. /\ s \in Engine /\ s.uctx = SubSeq(r.uctx, 1, Len(r.uctx) - j)
            /\ s.prop = SubSeq(r.prop, 1, Len(r.prop) - j) /\ s.pending = r.pending
        BY <3>3, <4>1, PopLevelsFields
      <4>3. Len(r.uctx) - j = 2 /\ Len(r.prop) - j = 1
        BY <1>7, <3>1
      <4> QED
        BY <4>2, <4>3
    <3>5. r.uctx \in Seq(Frame) /\ r.prop \in Seq(SUBSET All)
      BY <1>6, EngineFields
    <3>6. Len(SubSeq(r.uctx, 1, 2)) = 2
      <4>1. 2 \in 0..Len(r.uctx)
        BY <1>7, <2>1
      <4> QED
        BY <3>5, <4>1, Prefix
    <3>7. Len(SubSeq(r.prop, 1, 1)) = 1
      <4>1. 1 \in 0..Len(r.prop)
        BY <1>7, <1>8, <2>1
      <4> QED
        BY <3>5, <4>1, Prefix
    <3> QED
      BY <1>6, <3>4, <3>6, <3>7
  <2>2. CASE ~(K > 2)
    <3>1. ~(K - 1 > 1) /\ K \in 1..2 /\ N = 1
      BY <1>8, <2>2
    <3>2. s = r
      BY <1>5, <1>9, <1>10, <3>1 DEF Shutdown
    <3> QED
      BY <1>6, <1>7, <3>1, <3>2
  <2> QED
    BY <2>1, <2>2
<1>12. PICK u : u = PoppedUctx(s, Level(s))
  OBVIOUS
<1>13. u \in Seq(Frame) /\ Len(u) = 1
  <2>0. PICK c \in 1..2 : c = Len(s.uctx)
    BY <1>11
  <2>1. PICK i \in 0..Len(s.uctx) : i = 1 /\ Len(s.uctx) - Level(s) = i
    <3>1. 1 \in 0..c /\ c - (c - 1) = 1
      OBVIOUS
    <3> QED
      BY <2>0, <3>1 DEF Level
  <2>2. u = SubSeq(s.uctx, 1, i) /\ s.uctx \in Seq(Frame)
    BY <1>11, <1>12, <2>1, EngineFields DEF PoppedUctx
  <2> QED
    BY <2>1, <2>2, Prefix
<1>14. PICK L \in Seq(Nat) : L = << >>
  BY EmptySeq
<1>15. PICK t : t = [s EXCEPT !.uctx = u, !.sctx = 0, !.levels = L, !.destroyed = TRUE]
  OBVIOUS
<1>16. /\ t \in Engine /\ t.uctx = u /\ t.prop = s.prop /\ t.sctx = 0 /\ t.levels = L
       /\ t.pending = s.pending /\ t.destroyed
  <2>1. s \in Engine /\ 0 \in Int
    BY <1>11
  <2> QED
    BY <1>13, <1>15, <2>1 DEF Engine
<1>17. st' = t
  BY <1>10, <1>12, <1>14, <1>15 DEF Destroy
<1> QED
  BY <1>11, <1>13, <1>14, <1>16, <1>17 DEF Gone

-----------------------------------------------------------------------------
(***************************************************************************)
(* The inductive invariant.                                                *)
(***************************************************************************)
\* A new engine.
LEMMA InitFresh ==
  ASSUME Init
  PROVE  Lives /\ Fresh(st)
<1>1. /\ st.uctx = <<Bottom>> /\ st.levels = << >> /\ st.pending = 0 /\ st.globals = << >>
      /\ st.sctx = 0 /\ st.prop = << {} >> /\ ~st.inited /\ st.usable /\ ~st.destroyed
  BY DEF Init, Bottom
<1>2. PICK u \in Seq(Frame), L \in Seq(Nat), G \in Seq(Definitions), P \in Seq(SUBSET All) :
        u = <<Bottom>> /\ L = << >> /\ G = << >> /\ P = << {} >>
  <2>1. {} \in SUBSET All /\ Bottom \in Frame
    BY DEF Bottom, Frame
  <2>2. <<Bottom>> \in Seq(Frame) /\ << {} >> \in Seq(SUBSET All)
    BY <2>1, Single
  <2> QED
    BY <2>2, EmptySeq
<1>3. st = [inited |-> FALSE, mode |-> "START", queryMade |-> FALSE,
            uctx |-> u, levels |-> L, pending |-> 0, postsolve |-> FALSE,
            globals |-> G, sctx |-> 0, prop |-> P,
            trail |-> FALSE, usable |-> TRUE, destroyed |-> FALSE]
  BY <1>2 DEF Init, Bottom
<1>4. st \in Engine
  <2>1. "START" \in Mode /\ 0 \in Nat /\ 0 \in Int
    BY DEF Mode
  <2> QED
    BY <1>3, <2>1 DEF Engine
<1>5. Fresh(st)
  BY <1>1, <1>4 DEF Fresh
<1>6. Len(st.levels) <= MaxPush
  <2>1. Len(st.levels) = 0
    BY <1>1
  <2> QED
    BY <2>1, ConstantsAssumption
<1> QED
  BY <1>1, <1>5, <1>6 DEF Lives, Between

\* Every step keeps the invariant.
LEMMA NextIInv ==
  ASSUME IInv, [Next]_vars
  PROVE  IInv'
<1>1. ASSUME NEW f \in Formulas, AssertFormula(f) PROVE IInv'
  <2>1. Lives
    BY <1>1, UsableLives DEF AssertFormula
  <2> QED
    BY <1>1, <2>1, AssertFormulaStep DEF IInv
<1>2. ASSUME NEW d \in Definitions, DefineGlobal(d) PROVE IInv'
  <2>1. Lives
    BY <1>2, UsableLives DEF DefineGlobal
  <2> QED
    BY <1>2, <2>1, DefineGlobalStep DEF IInv
<1>3. CASE DeclareConst
  <2>1. Lives
    BY <1>3, UsableLives DEF DeclareConst
  <2> QED
    BY <1>3, <2>1, DeclareConstStep DEF IInv
<1>4. CASE Simplify
  <2>1. Lives
    BY <1>4, UsableLives DEF Simplify
  <2> QED
    BY <1>4, <2>1, SimplifyStep DEF IInv
<1>5. CASE GetAssertions
  <2>1. Lives
    BY <1>5, UsableLives DEF GetAssertions
  <2> QED
    BY <1>5, <2>1, GetAssertionsStep DEF IInv
<1>6. CASE Push
  <2>1. Lives
    BY <1>6, UsableLives DEF Push
  <2> QED
    BY <1>6, <2>1, PushStep DEF IInv
<1>7. CASE Pop
  <2>1. Lives
    BY <1>7, UsableLives DEF Pop
  <2> QED
    BY <1>7, <2>1, PopStep DEF IInv
<1>8. ASSUME NEW a \in Assumptions, NEW r \in {"SAT", "UNSAT", "UNKNOWN"}, CheckSat(a, r) PROVE IInv'
  <2>1. Lives
    BY <1>8, UsableLives DEF CheckSat
  <2> QED
    BY <1>8, <2>1, CheckSatStep DEF IInv
<1>9. ASSUME NEW a \in Assumptions, CheckSatOut(a) PROVE IInv'
  <2>1. Lives
    BY <1>9, UsableLives DEF CheckSatOut
  <2> QED
    BY <1>9, <2>1, CheckSatOutStep DEF IInv
<1>10. ASSUME NEW a \in Assumptions, NEW h \in BOOLEAN, CheckSatThrows(a, h) PROVE IInv'
  <2>1. Lives
    BY <1>10, UsableLives DEF CheckSatThrows
  <2> QED
    BY <1>10, <2>1, CheckSatThrowsStep DEF IInv
<1>11. CASE ResetAssertions
  <2>1. Lives
    BY <1>11, UsableLives DEF ResetAssertions
  <2> QED
    BY <1>11, <2>1, ResetAssertionsStep DEF IInv
<1>12. CASE Destroy
  BY <1>12, DestroyStep DEF IInv
<1>13. CASE UNCHANGED vars
  BY <1>13 DEF vars, IInv, Lives, Broken, Gone
<1> QED
  BY <1>1, <1>2, <1>3, <1>4, <1>5, <1>6, <1>7, <1>8, <1>9, <1>10, <1>11, <1>12, <1>13 DEF Next

\* The inductive invariant is an invariant.
LEMMA Inductive == Spec => []IInv
<1>1. Init => IInv
  BY InitFresh DEF IInv
<1>2. IInv /\ [Next]_vars => IInv'
  BY NextIInv
<1> QED
  BY <1>1, <1>2, PTL DEF Spec

-----------------------------------------------------------------------------
(***************************************************************************)
(* The theorems.                                                           *)
(***************************************************************************)
\* What the properties are about, of an engine that has levels.
LEMMA Open ==
  ASSUME IInv, st.inited, ~st.destroyed
  PROVE  /\ \E x \in 0..1 : Levelled(st, x) /\ (st.usable => x = st.pending)
         /\ st.usable => Handed(st.uctx, st.prop)
<1>1. CASE Lives
  <2>1. Ready(st, st.pending) /\ st.pending \in 0..1
    BY <1>1 DEF Lives, Between, Fresh
  <2> QED
    BY <2>1 DEF Ready, Sound
<1>2. CASE Broken
  BY <1>2 DEF Broken
<1> QED
  BY <1>1, <1>2 DEF IInv, Gone

(***************************************************************************)
(* Each field of the engine keeps its type: no pop goes below the bottom   *)
(* of a context and no more than one pop is ever pending.                  *)
(***************************************************************************)
THEOREM EngineTypeCorrect == Spec => []TypeOK
<1>1. IInv => TypeOK
  <2> SUFFICES ASSUME IInv PROVE TypeOK
    OBVIOUS
  <2>1. ASSUME st \in Engine, st.pending \in 0..1, Len(st.levels) <= MaxPush,
               st.uctx # << >>, st.prop # << >>, st.sctx \in Nat
        PROVE  TypeOK
    <3>1. /\ st.inited \in BOOLEAN /\ st.mode \in Mode /\ st.queryMade \in BOOLEAN
          /\ st.uctx \in Seq(Frame) /\ st.levels \in Seq(Nat) /\ st.postsolve \in BOOLEAN
          /\ st.globals \in Seq(Definitions) /\ st.prop \in Seq(SUBSET All)
          /\ st.trail \in BOOLEAN /\ st.usable \in BOOLEAN /\ st.destroyed \in BOOLEAN
      BY <2>1, EngineFields
    <3> QED
      BY <2>1, <3>1 DEF TypeOK, All
  <2>2. ASSUME NEW x \in 0..1, Levelled(st, x)
        PROVE  st \in Engine /\ st.uctx # << >> /\ st.prop # << >> /\ st.sctx \in Nat
    <3>1. /\ st \in Engine /\ Len(st.uctx) >= 2 /\ Len(st.prop) = Len(st.uctx) - 1
          /\ st.sctx = Len(st.uctx) - 1
      BY <2>2 DEF Levelled
    <3>2. PICK n \in Nat : n = Len(st.uctx)
      BY <3>1, EngineFields
    <3>a. n >= 2
      BY <3>1, <3>2
    <3>3. n # 0 /\ n - 1 # 0 /\ n - 1 \in Nat
      BY ONLY n \in Nat, <3>a
    <3>4. st.uctx # << >> /\ st.prop # << >>
      <4>1. Len(st.uctx) # 0 /\ Len(st.prop) # 0
        BY <3>1, <3>2, <3>3
      <4>2. Len(<< >>) = 0
        OBVIOUS
      <4> QED
        BY <4>1, <4>2
    <3> QED
      BY <3>1, <3>2, <3>3, <3>4
  <2>3. CASE Lives
    <3>1. Between(st) /\ st.pending \in 0..1 /\ Len(st.levels) <= MaxPush
      BY <2>3 DEF Lives
    <3>2. CASE Fresh(st)
      <4>1. /\ st \in Engine /\ st.uctx = <<Bottom>> /\ st.prop = << {} >> /\ st.sctx = 0
        BY <3>2 DEF Fresh
      <4>2. st.uctx # << >> /\ st.prop # << >> /\ st.sctx \in Nat
        BY <4>1
      <4> QED
        BY <2>1, <3>1, <4>1, <4>2
    <3>3. CASE Ready(st, st.pending)
      BY <2>1, <2>2, <3>1, <3>3 DEF Ready
    <3> QED
      BY <3>1, <3>2, <3>3 DEF Between
  <2>4. CASE Broken
    <3>1. st.pending \in 0..1 /\ Len(st.levels) <= MaxPush
      BY <2>4 DEF Broken
    <3> QED
      BY <2>1, <2>2, <2>4, <3>1 DEF Broken
  <2>5. CASE Gone
    <3>1. /\ st \in Engine /\ Len(st.prop) = 1 /\ Len(st.uctx) = 1 /\ st.sctx = 0
          /\ st.levels = << >> /\ st.pending = 0
      BY <2>5 DEF Gone
    <3>2. st.uctx # << >> /\ st.prop # << >> /\ st.sctx \in Nat /\ Len(st.levels) = 0
      <4>1. Len(<< >>) = 0 /\ 0 # 1 /\ 0 \in Nat
        OBVIOUS
      <4> QED
        BY <3>1, <4>1
    <3>3. Len(st.levels) <= MaxPush /\ st.pending \in 0..1
      BY <3>1, <3>2, ConstantsAssumption
    <3> QED
      BY <2>1, <3>1, <3>2, <3>3
  <2> QED
    BY <2>3, <2>4, <2>5 DEF IInv
<1> QED
  BY <1>1, Inductive, PTL

(***************************************************************************)
(* The user context, the SAT context, the PropEngine and d_userLevels      *)
(* agree on the level, through lazy pops, nested pushes, resets and        *)
(* exceptions.                                                             *)
(***************************************************************************)
THEOREM EngineLevelsAgree == Spec => []LevelsAgree
<1>1. IInv => LevelsAgree
  <2> SUFFICES ASSUME IInv, st.inited, ~st.destroyed
               PROVE  /\ Len(st.prop) = Level(st) /\ st.sctx = Level(st)
                      /\ st.usable => Level(st) = 1 + Len(st.levels) + st.pending
                      /\ \A i \in DOMAIN st.levels : st.levels[i] = i
    BY DEF LevelsAgree
  <2>1. PICK x \in 0..1 : Levelled(st, x) /\ (st.usable => x = st.pending)
    BY Open
  <2>2. /\ st \in Engine /\ Len(st.uctx) = 2 + Len(st.levels) + x
        /\ Len(st.prop) = Len(st.uctx) - 1 /\ st.sctx = Len(st.uctx) - 1
        /\ \A i \in 1..Len(st.levels) : st.levels[i] = i
    BY <2>1 DEF Levelled
  <2>3. Len(st.levels) \in Nat /\ DOMAIN st.levels = 1..Len(st.levels)
    BY <2>2, EngineFields
  <2>4. (2 + Len(st.levels) + x) - 1 = 1 + Len(st.levels) + x
    BY <2>3
  <2> QED
    BY <2>1, <2>2, <2>3, <2>4 DEF Level
<1> QED
  BY <1>1, Inductive, PTL

(***************************************************************************)
(* What the engine believes handed over is in the PropEngine, at a level   *)
(* that no pop takes away before the formula itself.                       *)
(***************************************************************************)
THEOREM EngineHandedOver == Spec => []HandedOver
<1>1. IInv => HandedOver
  BY Open DEF HandedOver, Handed, Held
<1> QED
  BY <1>1, Inductive, PTL

\* Destruction leaves no level open, also after an exception.
THEOREM EngineShutdownUnwinds == Spec => []ShutdownUnwinds
<1>1. IInv => ShutdownUnwinds
  <2> SUFFICES ASSUME IInv, st.destroyed PROVE Len(st.prop) = 1 /\ Level(st) = 0
    BY DEF ShutdownUnwinds
  <2>1. Len(st.prop) = 1 /\ Len(st.uctx) = 1
    BY DEF IInv, Lives, Broken, Gone
  <2> QED
    BY <2>1 DEF Level
<1> QED
  BY <1>1, Inductive, PTL

(***************************************************************************)
(* The engine implements the assertion stack: through lazy hand-over, lazy *)
(* pops and re-asserted definitions, every check answers for exactly the   *)
(* formulas in force and its assumptions.                                  *)
(***************************************************************************)
THEOREM EngineRefines == Spec => AnswersRight
<1> USE DEF Closed
<1>1. Init => AS!Init
  <2> SUFFICES ASSUME Init PROVE AS!Init
    OBVIOUS
  <2>1. Lives /\ Fresh(st)
    BY InitFresh
  <2>2. st.usable /\ ~st.destroyed
    BY <2>1 DEF Lives
  <2>3. AssertedStack(st) = << {} >> /\ ToSet(st.globals) = {}
    BY <2>1, StackFresh, EmptyStack DEF ToSet
  <2>4. answer = Nowhere
    BY DEF Init
  <2> QED
    BY <2>2, <2>3, <2>4 DEF AS!Init, AS!NoAnswer, Nowhere
<1>2. IInv /\ [Next]_vars => [AS!Next]_(AS!vars)
  <2> SUFFICES ASSUME IInv, [Next]_vars PROVE [AS!Next]_(AS!vars)
    OBVIOUS
  <2>op. \A s : AS!Front(s) = Front(s) /\ AS!Last(s) = Last(s) /\ AS!ToSet(s) = ToSet(s)
    BY DEF AS!Front, Front, AS!Last, Last, AS!ToSet, ToSet
  <2>0. ASSUME Lives PROVE st.usable /\ ~st.destroyed
    BY <2>0 DEF Lives
  <2>p. ASSUME Lives' PROVE st'.usable /\ ~st'.destroyed
    BY <2>p DEF Lives
  <2>same. ASSUME Lives, Lives', st'.globals = st.globals, AssertedStack(st)' = AssertedStack(st)
           PROVE  /\ UNCHANGED (IF Closed THEN << {} >> ELSE AssertedStack(st))
                  /\ UNCHANGED (IF Closed THEN {} ELSE ToSet(st.globals))
                  /\ UNCHANGED Closed /\ ~Closed
    BY <2>0, <2>p, <2>same
  <2>quiet. ASSUME Lives, Lives', st'.globals = st.globals, AssertedStack(st)' = AssertedStack(st),
                   answer' = answer
            PROVE  UNCHANGED AS!vars
    BY <2>same, <2>quiet DEF AS!vars
  <2>1. ASSUME NEW f \in Formulas, AssertFormula(f) PROVE AS!Next
    <3>1. Lives /\ answer' = answer
      BY <2>1, UsableLives DEF AssertFormula
    <3>2. /\ Lives' /\ st'.globals = st.globals
          /\ AssertedStack(st)'
               = Append(Front(AssertedStack(st)), Last(AssertedStack(st)) \cup {f})
      BY <2>1, <3>1, AssertFormulaStep
    <3>3. AS!AddFormula(f)
      BY <2>0, <2>op, <2>p, <3>1, <3>2 DEF AS!AddFormula
    <3> QED
      BY <3>3 DEF AS!Next
  <2>2. ASSUME NEW d \in Definitions, DefineGlobal(d) PROVE AS!Next
    <3>1. Lives /\ answer' = answer
      BY <2>2, UsableLives DEF DefineGlobal
    <3>2. /\ Lives' /\ ToSet(st'.globals) = ToSet(st.globals) \cup {d}
          /\ AssertedStack(st)' = AssertedStack(st)
      BY <2>2, <3>1, DefineGlobalStep
    <3>3. AS!Define(d)
      BY <2>0, <2>p, <3>1, <3>2 DEF AS!Define
    <3> QED
      BY <3>3 DEF AS!Next
  <2>3. CASE DeclareConst
    <3>1. Lives /\ answer' = answer
      BY <2>3, UsableLives DEF DeclareConst
    <3> QED
      BY <2>3, <2>quiet, <3>1, DeclareConstStep
  <2>4. CASE Simplify
    <3>1. Lives /\ answer' = answer
      BY <2>4, UsableLives DEF Simplify
    <3> QED
      BY <2>4, <2>quiet, <3>1, SimplifyStep
  <2>5. CASE GetAssertions
    <3>1. Lives /\ answer' = answer
      BY <2>5, UsableLives DEF GetAssertions
    <3> QED
      BY <2>5, <2>quiet, <3>1, GetAssertionsStep
  <2>6. CASE Push
    <3>1. Lives /\ answer' = answer
      BY <2>6, UsableLives DEF Push
    <3>2. /\ Lives' /\ st'.globals = st.globals
          /\ AssertedStack(st)' = Append(AssertedStack(st), {})
      BY <2>6, <3>1, PushStep
    <3>3. AS!Push
      BY <2>0, <2>p, <3>1, <3>2 DEF AS!Push
    <3> QED
      BY <3>3 DEF AS!Next
  <2>7. CASE Pop
    <3>1. Lives /\ answer' = answer
      BY <2>7, UsableLives DEF Pop
    <3>2. /\ Lives' /\ st'.globals = st.globals /\ Len(AssertedStack(st)) > 1
          /\ AssertedStack(st)' = Front(AssertedStack(st))
      BY <2>7, <3>1, PopStep
    <3>3. AS!Pop
      BY <2>0, <2>op, <2>p, <3>1, <3>2 DEF AS!Pop
    <3> QED
      BY <3>3 DEF AS!Next
  <2>8. ASSUME NEW a \in Assumptions, NEW r \in {"SAT", "UNSAT", "UNKNOWN"}, CheckSat(a, r)
        PROVE  AS!Next
    <3>1. Lives
      BY <2>8, UsableLives DEF CheckSat
    <3>2. /\ Lives' /\ st'.globals = st.globals /\ AssertedStack(st)' = AssertedStack(st)
          /\ answer' = [given |-> TRUE, assuming |-> ToSet(a),
                        about |-> (UNION ToSet(AssertedStack(st))) \cup ToSet(st.globals) \cup ToSet(a)]
      BY <2>8, <3>1, CheckSatStep
    <3>3. AS!Check(ToSet(a))
      BY <2>0, <2>op, <2>p, <3>1, <3>2 DEF AS!Check
    <3>4. ToSet(a) \in SUBSET Formulas
      <4>1. a \in Seq(Formulas)
        BY EmptySeq, Single DEF Assumptions
      <4> QED
        BY <4>1, SeqSet
    <3> QED
      BY <3>3, <3>4 DEF AS!Next
  <2>9. ASSUME NEW a \in Assumptions, CheckSatOut(a) PROVE AS!Next
    <3>1. Lives /\ answer' = Nowhere
      BY <2>9, UsableLives DEF CheckSatOut
    <3>2. Lives' /\ st'.globals = st.globals /\ AssertedStack(st)' = AssertedStack(st)
      BY <2>9, <3>1, CheckSatOutStep
    <3>3. AS!GiveUp
      BY <2>same, <3>1, <3>2 DEF AS!GiveUp, AS!NoAnswer, Nowhere
    <3> QED
      BY <3>3 DEF AS!Next
  <2>10. ASSUME NEW a \in Assumptions, NEW h \in BOOLEAN, CheckSatThrows(a, h) PROVE AS!Next
    <3>1. Lives /\ answer' = Nowhere
      BY <2>10, UsableLives DEF CheckSatThrows
    <3>2. ~st'.usable
      BY <2>10, <3>1, CheckSatThrowsStep DEF Broken
    <3>3. AS!Close
      BY <3>1, <3>2 DEF AS!Close, AS!NoAnswer, Nowhere
    <3> QED
      BY <3>3 DEF AS!Next
  <2>11. CASE ResetAssertions
    <3>1. Lives /\ answer' = answer
      BY <2>11, UsableLives DEF ResetAssertions
    <3>2. Lives' /\ st'.globals = st.globals /\ AssertedStack(st)' = << {} >>
      BY <2>11, <3>1, ResetAssertionsStep
    <3>3. AS!Reset
      BY <2>0, <2>p, <3>1, <3>2 DEF AS!Reset
    <3> QED
      BY <3>3 DEF AS!Next
  <2>12. CASE Destroy
    <3>1. answer' = Nowhere
      BY <2>12 DEF Destroy
    <3>2. st'.destroyed
      BY <2>12, DestroyStep DEF Gone
    <3>3. AS!Close
      BY <3>1, <3>2 DEF AS!Close, AS!NoAnswer, Nowhere
    <3> QED
      BY <3>3 DEF AS!Next
  <2>13. CASE UNCHANGED vars
    BY <2>13 DEF vars, AS!vars
  <2> QED
    BY <2>1, <2>2, <2>3, <2>4, <2>5, <2>6, <2>7, <2>8, <2>9, <2>10, <2>11, <2>12, <2>13 DEF Next
<1> QED
  BY <1>1, <1>2, Inductive, PTL DEF Spec, AnswersRight, AS!Spec
=============================================================================
