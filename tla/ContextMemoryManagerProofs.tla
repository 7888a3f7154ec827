-------------------- MODULE ContextMemoryManagerProofs ----------------------
(***************************************************************************)
(* For any chunk size, any number of chunks and regions and any limit on   *)
(* the free chunks, no two blocks in use overlap and no chunk in use is    *)
(* free.                                                                   *)
(*                                                                         *)
(* BlocksDisjoint is not inductive.  A new block is disjoint from the old  *)
(* ones because all of them lie below d_nextFree; a pop keeps that true    *)
(* because the blocks of the remaining regions lie below the position that *)
(* was saved when their region was left.  Positions are ordered by the     *)
(* index of the chunk in d_chunkList first, so the chunks there have to be *)
(* distinct: that is what ChunksOwnedOnce adds.                            *)
(***************************************************************************)
EXTENDS ContextMemoryManager, SequenceTheorems, TLAPS

\* The saved positions, and the one that a push would save now.
Here == [nextFree |-> nextFree, index |-> index]
Frames == Append(stack, Here)

FrameLeq(f, g) ==
    /\ f.index <= g.index
    /\ f.index = g.index => f.nextFree.offset <= g.nextFree.offset

\* Block b, in the k-th chunk of the list, ends before position f.
Below(b, k, f) ==
    /\ k <= f.index + 1
    /\ k = f.index + 1 => b.to <= f.nextFree.offset

\* The frames fs point into the chunks cl, the last one into the last chunk.
Valid(fs, cl) ==
    /\ Len(cl) = fs[Len(fs)].index + 1
    /\ \A r \in 1..Len(fs) : cl[fs[r].index + 1] = fs[r].nextFree.chunk

Ordered(fs) == \A r, s \in 1..Len(fs) : r <= s => FrameLeq(fs[r], fs[s])

\* Each block of region r was allocated before the region was left.
AllBelow(bs, fs, cl) ==
    \A r \in 1..Len(bs) : \A i \in 1..Len(bs[r]) :
        \E k \in 1..Len(cl) : cl[k] = bs[r][i].chunk /\ Below(bs[r][i], k, fs[r])

AllDisjoint(bs) ==
    \A r, s \in 1..Len(bs) : \A i \in 1..Len(bs[r]), j \in 1..Len(bs[s]) :
        r # s \/ i # j => Disjoint(bs[r][i], bs[s][j])

Distinct(s) == \A i, j \in 1..Len(s) : s[i] = s[j] => i = j
Apart(s, t) == \A i \in 1..Len(s), j \in 1..Len(t) : s[i] # t[j]
Owned(cl, fc) == Distinct(cl) /\ Distinct(fc) /\ Apart(cl, fc)

IInv ==
    /\ TypeOK
    /\ Valid(Frames, chunkList)
    /\ Ordered(Frames)
    /\ Owned(chunkList, freeChunks)
    /\ AllBelow(blocks, Frames, chunkList)
    /\ AllDisjoint(blocks)

\* The constructor takes one chunk and establishes the invariant.
LEMMA InitIInv == Init => IInv
<1> SUFFICES ASSUME Init PROVE IInv
  OBVIOUS
<1> PICK c \in Chunks :
      /\ chunkList = <<c>> /\ freeChunks = << >>
      /\ nextFree = [chunk |-> c, offset |-> 0] /\ index = 0
      /\ stack = << >> /\ blocks = << << >> >>
  BY DEF Init
<1>1. TypeOK
  BY SizeAssumption DEF TypeOK, Position, Frame, Block
<1>2. Valid(Frames, chunkList) /\ Ordered(Frames)
  <2>1. Len(Frames) = 1 /\ Frames[1] = Here
    BY DEF Frames
  <2> QED
    BY <2>1 DEF Valid, Ordered, Here, FrameLeq
<1>3. Owned(chunkList, freeChunks)
  BY DEF Owned, Distinct, Apart
<1>4. AllBelow(blocks, Frames, chunkList) /\ AllDisjoint(blocks)
  BY DEF AllBelow, AllDisjoint
<1> QED
  BY <1>1, <1>2, <1>3, <1>4 DEF IInv

\* The saved frames followed by the current one.
LEMMA FramesType ==
  ASSUME TypeOK
  PROVE  /\ Here \in Frame /\ Frames \in Seq(Frame)
         /\ Len(stack) \in Nat /\ Len(Frames) = Len(stack) + 1
         /\ \A r \in 1..Len(stack) : Frames[r] = stack[r]
         /\ Frames[Len(stack) + 1] = Here
<1>1. Here \in Frame
  BY DEF TypeOK, Here, Frame
<1> QED
  BY <1>1 DEF TypeOK, Frames

(***************************************************************************)
(* Push repeats the last frame and opens a region without blocks.          *)
(***************************************************************************)
LEMMA PushedFrames ==
  ASSUME NEW fs \in Seq(Frame), fs # << >>, NEW cl \in Seq(Chunks),
         Valid(fs, cl), Ordered(fs)
  PROVE  LET gs == Append(fs, fs[Len(fs)]) IN Valid(gs, cl) /\ Ordered(gs)
<1> DEFINE n == Len(fs)
           gs == Append(fs, fs[n])
<1>1. /\ n \in Nat \ {0} /\ fs[n] \in Frame /\ Len(gs) = n + 1
      /\ \A r \in 1..n : gs[r] = fs[r]
      /\ gs[n + 1] = fs[n]
  OBVIOUS
<1> HIDE DEF n, gs
<1>2. Valid(gs, cl)
  BY <1>1 DEF Valid, n
<1>3. ASSUME NEW r \in 1..(n + 1), NEW s \in 1..(n + 1), r <= s
      PROVE  FrameLeq(gs[r], gs[s])
  <2>1. CASE s <= n
    BY <1>1, <1>3, <2>1 DEF Ordered, n
  <2>2. CASE s = n + 1 /\ r <= n
    BY <1>1, <1>3, <2>2 DEF Ordered, n
  <2>3. CASE s = n + 1 /\ r = n + 1
    BY <1>1, <2>3 DEF FrameLeq, Frame, Position
  <2> QED
    BY <1>1, <1>3, <2>1, <2>2, <2>3
<1>4. Ordered(gs)
  BY <1>1, <1>3 DEF Ordered
<1> QED
  BY <1>2, <1>4 DEF n, gs

\* push opens a region that holds no block yet.
LEMMA PushedBlocks ==
  ASSUME NEW bs \in Seq(Seq(Block)), NEW fs, NEW gs, NEW cl,
         \A r \in 1..Len(bs) : gs[r] = fs[r],
         AllBelow(bs, fs, cl), AllDisjoint(bs)
  PROVE  LET cs == Append(bs, << >>) IN AllBelow(cs, gs, cl) /\ AllDisjoint(cs)
<1> DEFINE n == Len(bs)
           cs == Append(bs, << >>)
<1>1. /\ n \in Nat /\ Len(cs) = n + 1
      /\ \A r \in 1..n : cs[r] = bs[r]
      /\ cs[n + 1] = << >>
  OBVIOUS
<1> HIDE DEF n, cs
<1>2. ASSUME NEW r \in 1..Len(cs), NEW i \in 1..Len(cs[r])
      PROVE  r \in 1..n /\ cs[r] = bs[r]
  <2>1. r # n + 1
    <3> SUFFICES ASSUME r = n + 1 PROVE FALSE
      OBVIOUS
    <3>1. i \in 1..0
      BY <1>1
    <3> QED
      BY <3>1
  <2> QED
    BY <1>1, <2>1
<1>3. AllBelow(cs, gs, cl)
  BY <1>2 DEF AllBelow, n
<1>4. AllDisjoint(cs)
  BY <1>2 DEF AllDisjoint, n
<1> QED
  BY <1>3, <1>4 DEF cs

\* push preserves the invariant.
LEMMA PushIInv == IInv /\ Push => IInv'
<1> SUFFICES ASSUME IInv, Push PROVE IInv'
  OBVIOUS
<1>0. TypeOK /\ UNCHANGED <<chunkList, freeChunks, nextFree, index>> /\ Here' = Here
  BY DEF IInv, Push, Here
<1>1. stack' = Frames /\ blocks' = Append(blocks, << >>)
  BY DEF Push, Frames, Here
<1>2. Frames' = Append(Frames, Frames[Len(Frames)]) /\ Frames # << >>
  BY <1>0, <1>1, FramesType DEF Frames
<1>3. TypeOK'
  BY <1>0, <1>1, FramesType DEF TypeOK
<1>4. Valid(Frames', chunkList') /\ Ordered(Frames')
  BY <1>0, <1>2, FramesType, PushedFrames DEF IInv, TypeOK
<1>5. Owned(chunkList', freeChunks')
  BY <1>0 DEF IInv
<1>6. Len(blocks) = Len(Frames) /\ \A r \in 1..Len(blocks) : Frames'[r] = Frames[r]
  BY <1>0, <1>2, FramesType DEF TypeOK
<1>7. AllBelow(blocks', Frames', chunkList') /\ AllDisjoint(blocks')
  BY <1>0, <1>1, <1>6, PushedBlocks DEF IInv, TypeOK
<1> QED
  BY <1>3, <1>4, <1>5, <1>7 DEF IInv

(***************************************************************************)
(* An allocation moves the last frame from f to g and cuts block b between *)
(* the two; the chunks may have grown from cl to dl.                       *)
(***************************************************************************)
LEMMA BelowMonotonic ==
  ASSUME NEW f \in Frame, NEW g \in Frame, FrameLeq(f, g),
         NEW b \in Block, NEW k \in Nat, Below(b, k, f)
  PROVE  Below(b, k, g)
BY DEF Frame, Position, Block, FrameLeq, Below

\* The order of frames is transitive.
LEMMA FrameLeqTransitive ==
  ASSUME NEW f \in Frame, NEW g \in Frame, NEW h \in Frame,
         FrameLeq(f, g), FrameLeq(g, h)
  PROVE  FrameLeq(f, h)
BY DEF Frame, Position, FrameLeq

\* newData only moves the current frame forward.
LEMMA AllocatedFrames ==
  ASSUME NEW fs \in Seq(Frame), fs # << >>, NEW g \in Frame,
         NEW cl \in Seq(Chunks), NEW dl \in Seq(Chunks),
         Valid(fs, cl), Ordered(fs), FrameLeq(fs[Len(fs)], g),
         \A k \in 1..Len(cl) : dl[k] = cl[k],
         Len(dl) = g.index + 1, dl[g.index + 1] = g.nextFree.chunk
  PROVE  LET gs == [fs EXCEPT ![Len(fs)] = g] IN Valid(gs, dl) /\ Ordered(gs)
<1> DEFINE n == Len(fs)
           gs == [fs EXCEPT ![n] = g]
<1>1. /\ n \in Nat \ {0} /\ Len(gs) = n
      /\ \A r \in 1..n : gs[r] = IF r = n THEN g ELSE fs[r]
      /\ \A r \in 1..n : fs[r] \in Frame
  OBVIOUS
<1> HIDE DEF n, gs
<1>2. ASSUME NEW r \in 1..n PROVE fs[r].index + 1 \in 1..Len(cl)
  BY <1>1 DEF Valid, Ordered, FrameLeq, Frame, n
<1>3. Valid(gs, dl)
  <2>1. Len(dl) = gs[Len(gs)].index + 1
    BY <1>1
  <2>2. ASSUME NEW r \in 1..n PROVE dl[gs[r].index + 1] = gs[r].nextFree.chunk
    <3>1. dl[fs[r].index + 1] = cl[fs[r].index + 1]
      BY <1>2
    <3> QED
      BY <1>1, <3>1 DEF Valid, n
  <2> QED
    BY <1>1, <2>1, <2>2 DEF Valid
<1>4. ASSUME NEW r \in 1..n, NEW s \in 1..n, r <= s
      PROVE  FrameLeq(gs[r], gs[s])
  <2>1. CASE s # n
    BY <1>1, <1>4, <2>1 DEF Ordered, n
  <2>2. CASE s = n /\ r # n
    <3>1. FrameLeq(fs[r], fs[n])
      BY <1>1, <1>4 DEF Ordered, n
    <3> QED
      BY <1>1, <2>2, <3>1, FrameLeqTransitive DEF n
  <2>3. CASE s = n /\ r = n
    BY <1>1, <2>3 DEF FrameLeq, Frame, Position
  <2> QED
    BY <2>1, <2>2, <2>3
<1> QED
  BY <1>1, <1>3, <1>4 DEF Ordered, n, gs

\* The new block starts at the old frame, above every other block.
LEMMA AllocatedBlocks ==
  ASSUME NEW fs \in Seq(Frame), fs # << >>, NEW g \in Frame,
         NEW cl \in Seq(Chunks), NEW dl \in Seq(Chunks),
         NEW bs \in Seq(Seq(Block)), NEW b \in Block, Len(bs) = Len(fs),
         Valid(fs, cl), Ordered(fs), AllBelow(bs, fs, cl), AllDisjoint(bs),
         FrameLeq(fs[Len(fs)], g), Distinct(dl),
         Len(cl) <= Len(dl), \A k \in 1..Len(cl) : dl[k] = cl[k],
         Len(dl) = g.index + 1, dl[g.index + 1] = b.chunk,
         b.to = g.nextFree.offset,
         fs[Len(fs)].index = g.index => fs[Len(fs)].nextFree.offset <= b.from
  PROVE  LET gs == [fs EXCEPT ![Len(fs)] = g]
             cs == [bs EXCEPT ![Len(bs)] = Append(@, b)]
         IN AllBelow(cs, gs, dl) /\ AllDisjoint(cs)
<1> DEFINE n == Len(fs)
           f == fs[n]
           gs == [fs EXCEPT ![n] = g]
           m == Len(bs[n])
           cs == [bs EXCEPT ![n] = Append(@, b)]
<1>1. /\ n \in Nat \ {0} /\ n = Len(bs) /\ f \in Frame /\ m \in Nat
      /\ \A r \in 1..n : gs[r] = IF r = n THEN g ELSE fs[r]
      /\ \A r \in 1..n : fs[r] \in Frame /\ bs[r] \in Seq(Block)
  OBVIOUS
<1>2. /\ Len(cs) = n
      /\ \A r \in 1..n : cs[r] = IF r = n THEN Append(bs[n], b) ELSE bs[r]
  BY <1>1
<1>3. /\ Len(cs[n]) = m + 1 /\ cs[n][m + 1] = b
      /\ \A i \in 1..m : cs[n][i] = bs[n][i]
  BY <1>1, <1>2
<1> HIDE DEF n, f, gs, m, cs
\* An old block is below the old last frame, and stays below its own.
<1>4. ASSUME NEW r \in 1..n, NEW i \in 1..Len(bs[r])
      PROVE  /\ bs[r][i] \in Block
             /\ \E k \in 1..Len(dl) : /\ dl[k] = bs[r][i].chunk
                                      /\ Below(bs[r][i], k, gs[r])
                                      /\ Below(bs[r][i], k, f)
  <2>1. bs[r][i] \in Block
    BY <1>1
  <2>2. PICK k \in 1..Len(cl) : cl[k] = bs[r][i].chunk /\ Below(bs[r][i], k, fs[r])
    BY <1>1 DEF AllBelow
  <2>3. k \in 1..Len(dl) /\ k \in Nat /\ dl[k] = bs[r][i].chunk
    BY <2>2
  <2>4. FrameLeq(fs[r], f)
    BY <1>1 DEF Ordered, f, n
  <2>5. Below(bs[r][i], k, f)
    BY <1>1, <2>1, <2>2, <2>3, <2>4, BelowMonotonic
  <2>6. Below(bs[r][i], k, gs[r])
    <3>1. CASE r = n
      BY <1>1, <2>1, <2>3, <2>5, <3>1, BelowMonotonic DEF f, n
    <3>2. CASE r # n
      BY <1>1, <2>2, <3>2
    <3> QED
      BY <3>1, <3>2
  <2> QED
    BY <2>1, <2>3, <2>5, <2>6
\* So it is disjoint from the new block.
<1>5. ASSUME NEW r \in 1..n, NEW i \in 1..Len(bs[r])
      PROVE  Disjoint(bs[r][i], b) /\ Disjoint(b, bs[r][i])
  <2> SUFFICES ASSUME bs[r][i].chunk = b.chunk PROVE bs[r][i].to <= b.from
    BY DEF Disjoint
  <2>1. bs[r][i] \in Block
    BY <1>4
  <2>2. PICK k \in 1..Len(dl) : dl[k] = bs[r][i].chunk /\ Below(bs[r][i], k, f)
    BY <1>4
  <2>3. k = g.index + 1
    BY <2>2 DEF Distinct, Frame
  <2>4. f.index = g.index
    BY <1>1, <2>2, <2>3 DEF Below, FrameLeq, Frame, f, n
  <2>5. bs[r][i].to <= f.nextFree.offset
    BY <2>2, <2>3, <2>4 DEF Below
  <2>6. f.nextFree.offset <= b.from
    BY <2>4 DEF f, n
  <2>7. bs[r][i].to \in Int /\ f.nextFree.offset \in Int /\ b.from \in Int
    <3>1. bs[r][i].to \in 0..ChunkSize /\ b.from \in 0..ChunkSize
      BY <2>1 DEF Block
    <3>2. f.nextFree.offset \in 0..ChunkSize
      BY <1>1 DEF Frame, Position
    <3> QED
      BY <3>1, <3>2
  <2> QED
    BY <2>5, <2>6, <2>7
\* Every block of cs is an old one or the new one.
<1>6. ASSUME NEW r \in 1..n, NEW i \in 1..Len(cs[r])
      PROVE  \/ i \in 1..Len(bs[r]) /\ cs[r][i] = bs[r][i]
             \/ r = n /\ i = m + 1 /\ cs[r][i] = b
  <2>1. CASE r = n
    BY <1>1, <1>3, <2>1 DEF m
  <2>2. CASE r # n
    BY <1>2, <2>2
  <2> QED
    BY <2>1, <2>2
<1>7. AllBelow(cs, gs, dl)
  <2> SUFFICES ASSUME NEW r \in 1..n, NEW i \in 1..Len(cs[r])
               PROVE  \E k \in 1..Len(dl) : dl[k] = cs[r][i].chunk /\ Below(cs[r][i], k, gs[r])
    BY <1>2 DEF AllBelow
  <2>1. CASE i \in 1..Len(bs[r]) /\ cs[r][i] = bs[r][i]
    BY <1>4, <2>1
  <2>2. CASE r = n /\ i = m + 1 /\ cs[r][i] = b
    <3>1. g.index + 1 \in 1..Len(dl) /\ gs[r] = g
      BY <1>1, <2>2 DEF Frame
    <3>2. Below(b, g.index + 1, g)
      BY DEF Below, Frame, Position, Block
    <3> QED
      BY <2>2, <3>1, <3>2
  <2> QED
    BY <1>6, <2>1, <2>2
<1>8. AllDisjoint(cs)
  <2> SUFFICES ASSUME NEW r \in 1..n, NEW s \in 1..n,
                      NEW i \in 1..Len(cs[r]), NEW j \in 1..Len(cs[s]), r # s \/ i # j
               PROVE  Disjoint(cs[r][i], cs[s][j])
    BY <1>2 DEF AllDisjoint
  <2>1. CASE i \in 1..Len(bs[r]) /\ cs[r][i] = bs[r][i] /\ j \in 1..Len(bs[s]) /\ cs[s][j] = bs[s][j]
    BY <1>1, <2>1 DEF AllDisjoint
  <2>2. CASE i \in 1..Len(bs[r]) /\ cs[r][i] = bs[r][i] /\ s = n /\ j = m + 1 /\ cs[s][j] = b
    BY <1>5, <2>2
  <2>3. CASE j \in 1..Len(bs[s]) /\ cs[s][j] = bs[s][j] /\ r = n /\ i = m + 1 /\ cs[r][i] = b
    BY <1>5, <2>3
  <2> QED
    BY <1>6, <2>1, <2>2, <2>3
<1> QED
  BY <1>1, <1>7, <1>8 DEF n, gs, cs

\* Replacing the last element of a sequence.
LEMMA AppendReplaced ==
  ASSUME NEW S, NEW s \in Seq(S), NEW x \in S, NEW y \in S
  PROVE  Append(s, y) = [Append(s, x) EXCEPT ![Len(s) + 1] = y]
<1>1. PICK t : t = Append(s, x)
  OBVIOUS
<1>2. t \in Seq(S) /\ Len(t) = Len(s) + 1 /\ Len(s) + 1 \in 1..Len(t)
  BY <1>1, AppendProperties
<1>3. PICK u : u = [t EXCEPT ![Len(s) + 1] = y]
  OBVIOUS
<1>4. u \in Seq(S) /\ Len(u) = Len(t) /\ \A i \in 1..Len(t) : u[i] = IF i = Len(s) + 1 THEN y ELSE t[i]
  BY <1>2, <1>3, ExceptSeq
<1>5. Append(s, y) \in Seq(S) /\ Len(Append(s, y)) = Len(u)
  BY <1>2, <1>4
<1>6. \A i \in 1..Len(u) : Append(s, y)[i] = u[i]
  BY <1>1, <1>2, <1>4
<1>7. Append(s, y) = u
  BY <1>4, <1>5, <1>6, SeqEqual
<1> QED
  BY <1>1, <1>3, <1>7

\* A prefix of a sequence is a sequence with the same elements.
LEMMA Prefix ==
  ASSUME NEW S, NEW s \in Seq(S), NEW n \in 0..Len(s)
  PROVE  /\ SubSeq(s, 1, n) \in Seq(S) /\ Len(SubSeq(s, 1, n)) = n
         /\ \A i \in 1..n : SubSeq(s, 1, n)[i] = s[i]
<1>1. n \in Int /\ 1 \in Int /\ \A i \in 1..n : s[i] \in S
  OBVIOUS
<1>2. /\ SubSeq(s, 1, n) \in Seq(S)
      /\ Len(SubSeq(s, 1, n)) = IF 1 <= n THEN n - 1 + 1 ELSE 0
      /\ \A i \in 1..(n - 1 + 1) : SubSeq(s, 1, n)[i] = s[1 + i - 1]
  BY <1>1, SubSeqProperties
<1> QED
  BY <1>2

\* newChunk takes a chunk that is in no list, or the last free one.
LEMMA OwnedTaken ==
  ASSUME NEW cl \in Seq(Chunks), NEW fc \in Seq(Chunks), NEW gc \in Seq(Chunks),
         Owned(cl, fc), NEW c \in Chunks,
         \A i \in 1..Len(cl) : cl[i] # c,
         Len(gc) <= Len(fc),
         \A i \in 1..Len(gc) : gc[i] = fc[i] /\ gc[i] # c
  PROVE  Owned(Append(cl, c), gc)
<1>1. PICK dl : dl = Append(cl, c)
  OBVIOUS
<1>2. /\ Len(cl) \in Nat /\ Len(dl) = Len(cl) + 1
      /\ \A i \in 1..Len(cl) : dl[i] = cl[i]
      /\ dl[Len(cl) + 1] = c
  BY <1>1
<1>3. ASSUME NEW i \in 1..Len(dl)
      PROVE  (i \in 1..Len(cl) /\ dl[i] = cl[i]) \/ (i = Len(cl) + 1 /\ dl[i] = c)
  BY <1>2
<1>4. Distinct(dl)
  BY <1>3 DEF Distinct, Owned
<1>5. Distinct(gc)
  BY DEF Distinct, Owned
<1>6. Apart(dl, gc)
  <2>1. \A j \in 1..Len(gc) : j \in 1..Len(fc)
    OBVIOUS
  <2> QED
    BY <1>3, <2>1 DEF Apart, Owned
<1> QED
  BY <1>1, <1>4, <1>5, <1>6 DEF Owned

\* newData preserves the invariant, with or without a new chunk.
LEMMA NewDataIInv ==
  ASSUME IInv, NEW size \in 1..ChunkSize, NewData(size)
  PROVE  IInv'
<1> DEFINE n == Len(stack) + 1
<1>0. TypeOK /\ n = Len(blocks) /\ n = Len(Frames) /\ n \in Nat \ {0} /\ Frames[n] = Here
  BY FramesType DEF IInv, TypeOK
\* What both cases have in common.
<1>1. ASSUME NEW p \in Position, p.offset + size <= ChunkSize, Allocate(p, size),
             chunkList' \in Seq(Chunks), Distinct(chunkList'),
             Len(chunkList) <= Len(chunkList'),
             \A k \in 1..Len(chunkList) : chunkList'[k] = chunkList[k],
             index' \in Nat, index <= index', Len(chunkList') = index' + 1,
             chunkList'[index' + 1] = p.chunk,
             index = index' => nextFree.offset <= p.offset
      PROVE  /\ nextFree' \in Position
             /\ stack' = stack /\ blocks' \in Seq(Seq(Block)) /\ Len(blocks') = n
             /\ Valid(Frames', chunkList') /\ Ordered(Frames')
             /\ AllBelow(blocks', Frames', chunkList') /\ AllDisjoint(blocks')
  <2> DEFINE b == [chunk |-> p.chunk, from |-> p.offset, to |-> p.offset + size]
             g == [nextFree |-> [p EXCEPT !.offset = @ + size], index |-> index']
  <2>1. [p EXCEPT !.offset = @ + size] = [chunk |-> p.chunk, offset |-> p.offset + size]
    BY DEF Position
  <2>2. nextFree' = [chunk |-> p.chunk, offset |-> p.offset + size] /\ nextFree' \in Position
    BY <1>1, <2>1, SizeAssumption DEF Allocate, Position
  <2>3. b \in Block
    BY <1>1, SizeAssumption DEF Block, Position
  <2>4. Here' = g /\ g \in Frame /\ g.index = index' /\ g.nextFree = nextFree'
    BY <1>1, <2>2 DEF Here, Frame, Allocate
  <2>5. stack' = stack /\ blocks' = [blocks EXCEPT ![Len(blocks)] = Append(@, b)]
    BY <1>1 DEF Allocate
  <2>6. Frames' = [Frames EXCEPT ![n] = g]
    <3>1. Frames' = Append(stack, g)
      BY <2>4, <2>5 DEF Frames
    <3>2. Append(stack, g) = [Append(stack, Here) EXCEPT ![n] = g]
      <4>1. stack \in Seq(Frame) /\ Here \in Frame
        BY <1>0, FramesType DEF TypeOK
      <4> HIDE DEF g
      <4> QED
        BY <2>4, <4>1, AppendReplaced
    <3> QED
      BY <3>1, <3>2 DEF Frames
  <2>7. blocks' \in Seq(Seq(Block)) /\ Len(blocks') = n
    <3>1. blocks[n] \in Seq(Block) /\ n \in 1..Len(blocks)
      BY <1>0 DEF TypeOK
    <3>2. Append(blocks[n], b) \in Seq(Block)
      BY <2>3, <3>1
    <3> QED
      BY <1>0, <2>5, <3>1, <3>2, ExceptSeq DEF TypeOK
  <2>8. FrameLeq(Here, g)
    BY <1>0, <1>1, <2>2, <2>4, SizeAssumption DEF FrameLeq, Here, TypeOK, Position
  <2> HIDE DEF n, b, g
  <2>9. Valid(Frames', chunkList') /\ Ordered(Frames')
    <3>1. Frames \in Seq(Frame) /\ Frames # << >>
      BY <1>0, FramesType
    <3>2. Len(chunkList') = g.index + 1 /\ chunkList'[g.index + 1] = g.nextFree.chunk
      BY <1>1, <2>2, <2>4
    <3> QED
      BY <1>0, <1>1, <2>4, <2>6, <2>8, <3>1, <3>2, AllocatedFrames DEF IInv, TypeOK
  <2>10. AllBelow(blocks', Frames', chunkList') /\ AllDisjoint(blocks')
    <3>1. Frames \in Seq(Frame) /\ Frames # << >>
      BY <1>0, FramesType
    <3>2. /\ Len(chunkList') = g.index + 1 /\ chunkList'[g.index + 1] = b.chunk
          /\ b.to = g.nextFree.offset
      BY <1>1, <2>2, <2>4 DEF b
    <3>3. Here.index = g.index => Here.nextFree.offset <= b.from
      BY <1>1, <2>4 DEF b, Here
    <3> QED
      BY <1>0, <1>1, <2>3, <2>4, <2>5, <2>6, <2>8, <3>1, <3>2, <3>3, AllocatedBlocks
         DEF IInv, TypeOK
  <2> QED
    BY <2>2, <2>5, <2>7, <2>9, <2>10
<1>2. /\ Len(chunkList) = index + 1 /\ chunkList[index + 1] = nextFree.chunk
      /\ chunkList \in Seq(Chunks) /\ nextFree \in Position /\ index \in Nat
      /\ freeChunks \in Seq(Chunks) /\ Len(freeChunks) <= MaxFreeChunks
      /\ Distinct(chunkList) /\ Distinct(freeChunks) /\ Apart(chunkList, freeChunks)
  BY <1>0 DEF IInv, TypeOK, Valid, Here, Owned
<1> HIDE DEF n
<1>3. CASE Fits(size) /\ Allocate(nextFree, size) /\ UNCHANGED <<chunkList, freeChunks, index>>
  <2>1. nextFree.offset + size <= ChunkSize /\ nextFree.offset <= nextFree.offset
    BY <1>2, <1>3 DEF Fits, Position
  <2>2. /\ nextFree' \in Position
        /\ stack' = stack /\ blocks' \in Seq(Seq(Block)) /\ Len(blocks') = n
        /\ Valid(Frames', chunkList') /\ Ordered(Frames')
        /\ AllBelow(blocks', Frames', chunkList') /\ AllDisjoint(blocks')
    BY <1>1, <1>2, <1>3, <2>1
  <2>3. TypeOK'
    BY <1>0, <1>3, <2>2 DEF TypeOK, n
  <2> QED
    BY <1>2, <1>3, <2>2, <2>3 DEF IInv, Owned
<1>4. ASSUME NEW c \in Chunks, NewChunk(c), Allocate([chunk |-> c, offset |-> 0], size)
      PROVE  IInv'
  <2> DEFINE p == [chunk |-> c, offset |-> 0]
  <2>1. p \in Position /\ p.offset + size <= ChunkSize /\ p.chunk = c
    BY SizeAssumption DEF Position
  \* The new chunk was in neither list, or leaves the free one.
  <2>2. /\ freeChunks' \in Seq(Chunks) /\ Len(freeChunks') <= Len(freeChunks)
        /\ \A i \in 1..Len(freeChunks') : freeChunks'[i] = freeChunks[i] /\ freeChunks'[i] # c
        /\ \A i \in 1..Len(chunkList) : chunkList[i] # c
    <3>1. CASE freeChunks = << >> /\ c \in Unused /\ UNCHANGED freeChunks
      BY <1>2, <3>1 DEF Unused
    <3>2. CASE /\ freeChunks # << >> /\ c = freeChunks[Len(freeChunks)]
               /\ freeChunks' = SubSeq(freeChunks, 1, Len(freeChunks) - 1)
      <4>1. /\ Len(freeChunks) \in Nat \ {0} /\ freeChunks' \in Seq(Chunks)
            /\ Len(freeChunks') = Len(freeChunks) - 1
            /\ \A i \in 1..(Len(freeChunks) - 1) : freeChunks'[i] = freeChunks[i]
        <5>1. Len(freeChunks) \in Nat \ {0} /\ Len(freeChunks) - 1 \in 0..Len(freeChunks)
          BY <1>2, <3>2, EmptySeq
        <5> QED
          BY <1>2, <3>2, <5>1, Prefix
      <4> QED
        BY <1>2, <3>2, <4>1 DEF Distinct, Apart
    <3> QED
      BY <1>4, <3>1, <3>2 DEF NewChunk, TakeChunk
  <2>3. /\ chunkList' \in Seq(Chunks) /\ Len(chunkList') = Len(chunkList) + 1
        /\ \A k \in 1..Len(chunkList) : chunkList'[k] = chunkList[k]
        /\ chunkList'[Len(chunkList) + 1] = c
        /\ index' = index + 1
    BY <1>2, <1>4 DEF NewChunk
  <2>4. Owned(chunkList', freeChunks')
    BY <1>2, <1>4, <2>2, OwnedTaken DEF NewChunk, Owned
  <2>7. /\ index' \in Nat /\ index <= index' /\ Len(chunkList') = index' + 1
        /\ chunkList'[index' + 1] = p.chunk /\ index # index'
        /\ Len(chunkList) <= Len(chunkList')
    BY <1>2, <2>1, <2>3
  <2>8. /\ nextFree' \in Position
        /\ stack' = stack /\ blocks' \in Seq(Seq(Block)) /\ Len(blocks') = n
        /\ Valid(Frames', chunkList') /\ Ordered(Frames')
        /\ AllBelow(blocks', Frames', chunkList') /\ AllDisjoint(blocks')
    BY <1>1, <1>4, <2>1, <2>3, <2>4, <2>7 DEF Owned
  <2>9. TypeOK'
    BY <1>0, <1>2, <2>2, <2>3, <2>7, <2>8, SizeAssumption DEF TypeOK, n
  <2> QED
    BY <2>4, <2>8, <2>9 DEF IInv
<1> QED
  BY <1>3, <1>4 DEF NewData

(***************************************************************************)
(* Pop goes back to the last saved frame.                                  *)
(***************************************************************************)
LEMMA OwnedReleased ==
  ASSUME NEW cl \in Seq(Chunks), NEW fc \in Seq(Chunks), NEW rel \in Seq(Chunks),
         Owned(cl, fc), NEW m \in 0..Len(cl), Len(rel) = Len(cl) - m,
         \A j \in 1..Len(rel) : rel[j] = cl[Len(cl) + 1 - j]
  PROVE  Owned(SubSeq(cl, 1, m), fc \o rel)
<1> DEFINE n == Len(cl)
<1>1. PICK dl : dl = SubSeq(cl, 1, m)
  OBVIOUS
<1>2. PICK gc : gc = fc \o rel
  OBVIOUS
<1>3. Len(dl) = m /\ \A i \in 1..m : dl[i] = cl[i]
  BY <1>1, Prefix
<1>4. /\ Len(gc) = Len(fc) + Len(rel) /\ Len(fc) \in Nat /\ Len(rel) \in Nat /\ n \in Nat
      /\ \A i \in 1..(Len(fc) + Len(rel)) : gc[i] = IF i <= Len(fc) THEN fc[i] ELSE rel[i - Len(fc)]
  <2>1. Len(fc) \in Nat /\ Len(rel) \in Nat /\ n \in Nat
    OBVIOUS
  <2>2. /\ Len(fc \o rel) = Len(fc) + Len(rel)
        /\ \A i \in 1..(Len(fc) + Len(rel)) :
             (fc \o rel)[i] = IF i <= Len(fc) THEN fc[i] ELSE rel[i - Len(fc)]
    BY ConcatProperties, Zenon
  <2> QED
    BY <1>2, <2>1, <2>2
<1>5. ASSUME NEW i \in 1..Len(gc)
      PROVE  \/ i \in 1..Len(fc) /\ gc[i] = fc[i]
             \/ /\ i > Len(fc) /\ n + 1 - (i - Len(fc)) \in (m + 1)..n
                /\ gc[i] = cl[n + 1 - (i - Len(fc))]
  <2>1. CASE i <= Len(fc)
    BY <1>4, <2>1
  <2>2. CASE i > Len(fc)
    <3>1. i - Len(fc) \in 1..Len(rel) /\ gc[i] = rel[i - Len(fc)]
      BY <1>4, <2>2
    <3> QED
      BY <1>4, <2>2, <3>1
  <2> QED
    BY <1>4, <2>1, <2>2
<1>6. Distinct(dl)
  BY <1>3 DEF Owned, Distinct
<1>7. Distinct(gc)
  <2> SUFFICES ASSUME NEW i \in 1..Len(gc), NEW j \in 1..Len(gc), gc[i] = gc[j] PROVE i = j
    BY DEF Distinct
  <2> DEFINE at(x) == n + 1 - (x - Len(fc))
  <2>1. CASE i \in 1..Len(fc) /\ gc[i] = fc[i] /\ j \in 1..Len(fc) /\ gc[j] = fc[j]
    BY <2>1 DEF Owned, Distinct
  <2>2. CASE i > Len(fc) /\ at(i) \in 1..n /\ gc[i] = cl[at(i)] /\ j > Len(fc) /\ at(j) \in 1..n /\ gc[j] = cl[at(j)]
    <3>1. at(i) = at(j)
      BY <2>2 DEF Owned, Distinct
    <3> QED
      BY <1>4, <3>1
  <2>3. CASE i \in 1..Len(fc) /\ gc[i] = fc[i] /\ at(j) \in 1..n /\ gc[j] = cl[at(j)]
    BY <2>3 DEF Owned, Apart
  <2>4. CASE j \in 1..Len(fc) /\ gc[j] = fc[j] /\ at(i) \in 1..n /\ gc[i] = cl[at(i)]
    BY <2>4 DEF Owned, Apart
  <2>5. (m + 1)..n \subseteq 1..n
    BY <1>4
  <2> QED
    BY <1>5, <2>1, <2>2, <2>3, <2>4, <2>5
<1>8. Apart(dl, gc)
  <2> SUFFICES ASSUME NEW i \in 1..m, NEW j \in 1..Len(gc), cl[i] = gc[j] PROVE FALSE
    BY <1>3 DEF Apart
  <2>1. i \in 1..n
    OBVIOUS
  <2>2. CASE j \in 1..Len(fc) /\ gc[j] = fc[j]
    BY <2>1, <2>2 DEF Owned, Apart
  <2>3. CASE n + 1 - (j - Len(fc)) \in (m + 1)..n /\ gc[j] = cl[n + 1 - (j - Len(fc))]
    <3>1. n + 1 - (j - Len(fc)) \in 1..n /\ n + 1 - (j - Len(fc)) # i
      BY <1>4, <2>3
    <3> QED
      BY <2>1, <2>3, <3>1 DEF Owned, Distinct
  <2> QED
    BY <1>5, <2>2, <2>3
<1> QED
  BY <1>1, <1>2, <1>6, <1>7, <1>8 DEF Owned

\* A function on 1..n is a sequence of length n.
LEMMA FunctionIsSeq ==
  ASSUME NEW S, NEW n \in Nat, NEW f \in [1..n -> S]
  PROVE  f \in Seq(S) /\ Len(f) = n
<1>1. f \in Seq(S)
  BY SeqDef
<1> QED
  BY <1>1, LenProperties

\* Chunks beyond maxFreeChunks are freed; the rest stay owned once.
LEMMA OwnedTrimmed ==
  ASSUME NEW cl \in Seq(Chunks), NEW s \in Seq(Chunks), Owned(cl, s)
  PROVE  /\ Owned(cl, Trimmed(s))
         /\ Trimmed(s) \in Seq(Chunks) /\ Len(Trimmed(s)) <= MaxFreeChunks
<1>1. Len(s) \in Nat /\ MaxFreeChunks \in Nat
  BY SizeAssumption
<1>2. CASE Len(s) <= MaxFreeChunks
  BY <1>2 DEF Trimmed
<1>3. CASE Len(s) > MaxFreeChunks
  <2> DEFINE d == Len(s) - MaxFreeChunks
  <2>1. d \in Nat /\ d + 1 \in Int /\ Len(s) \in Int /\ \A i \in (d + 1)..Len(s) : s[i] \in Chunks
    BY <1>1, <1>3
  <2>2. PICK t : t = SubSeq(s, d + 1, Len(s))
    OBVIOUS
  <2>3. /\ t \in Seq(Chunks)
        /\ Len(t) = IF d + 1 <= Len(s) THEN Len(s) - (d + 1) + 1 ELSE 0
        /\ \A i \in 1..(Len(s) - (d + 1) + 1) : t[i] = s[d + 1 + i - 1]
    BY <2>1, <2>2, SubSeqProperties
  <2>4. Len(t) = MaxFreeChunks /\ \A i \in 1..Len(t) : i + d \in 1..Len(s) /\ t[i] = s[i + d]
    BY <1>1, <1>3, <2>1, <2>3
  <2>5. Trimmed(s) = t
    BY <1>1, <1>3, <2>2 DEF Trimmed
  <2> HIDE DEF d
  <2>6. Distinct(t)
    BY <2>1, <2>4 DEF Owned, Distinct
  <2>7. Apart(cl, t)
    BY <2>4 DEF Owned, Apart
  <2> QED
    BY <1>1, <2>3, <2>4, <2>5, <2>6, <2>7 DEF Owned
<1> QED
  BY <1>1, <1>2, <1>3

\* pop drops the topmost region: the blocks below it are untouched.
LEMMA PoppedFrames ==
  ASSUME NEW fs \in Seq(Frame), NEW st \in Seq(Frame), st # << >>,
         Len(fs) = Len(st) + 1, \A r \in 1..Len(st) : fs[r] = st[r],
         NEW cl \in Seq(Chunks), NEW bs \in Seq(Seq(Block)), Len(bs) = Len(fs),
         Valid(fs, cl), Ordered(fs), AllBelow(bs, fs, cl), AllDisjoint(bs)
  PROVE  LET dl == SubSeq(cl, 1, st[Len(st)].index + 1)
             cs == SubSeq(bs, 1, Len(st))
         IN /\ st[Len(st)].index + 1 \in 1..Len(cl)
            /\ Valid(st, dl) /\ Ordered(st)
            /\ AllBelow(cs, st, dl) /\ AllDisjoint(cs)
<1>1. PICK n \in Nat \ {0} : n = Len(st)
  BY EmptySeq
<1>2. /\ Len(fs) = n + 1 /\ n \in 1..(n + 1) /\ n + 1 \in 1..(n + 1)
      /\ \A r \in 1..n : fs[r] = st[r] /\ st[r] \in Frame /\ r \in 1..(n + 1)
      /\ fs[n + 1] \in Frame
  BY <1>1
<1>3. PICK m \in Nat \ {0} : m = st[n].index + 1
  BY <1>1, <1>2 DEF Frame
<1>4. m \in 1..Len(cl)
  <2>1. FrameLeq(fs[n], fs[n + 1])
    BY <1>2 DEF Ordered
  <2>2. Len(cl) = fs[n + 1].index + 1 /\ fs[n] = st[n] /\ st[n] \in Frame
    BY <1>1, <1>2 DEF Valid
  <2> QED
    BY <1>2, <1>3, <2>1, <2>2 DEF FrameLeq, Frame
<1>5. PICK dl : dl = SubSeq(cl, 1, m)
  OBVIOUS
<1>6. Len(dl) = m /\ \A k \in 1..m : dl[k] = cl[k]
  BY <1>4, <1>5, Prefix
<1>7. PICK cs : cs = SubSeq(bs, 1, n)
  OBVIOUS
<1>8. Len(cs) = n /\ \A r \in 1..n : cs[r] = bs[r] /\ r \in 1..Len(bs)
  <2>1. n \in 0..Len(bs)
    BY <1>2
  <2> QED
    BY <1>2, <1>7, <2>1, Prefix
<1>9. Ordered(st)
  BY <1>1, <1>2 DEF Ordered
<1>10. ASSUME NEW r \in 1..n PROVE st[r].index + 1 \in 1..m /\ FrameLeq(st[r], st[n])
  <2>1. FrameLeq(st[r], st[n])
    BY <1>1, <1>9 DEF Ordered
  <2>2. PICK a \in Nat, c \in Nat : a = st[r].index /\ c = st[n].index
    <3>1. st[r].index \in Nat /\ st[n].index \in Nat
      BY <1>2 DEF Frame
    <3> QED
      BY <3>1, Zenon
  <2>3. a <= c /\ m = c + 1
    BY <1>3, <2>1, <2>2 DEF FrameLeq
  <2>4. a + 1 \in 1..m
    BY <2>3
  <2> QED
    BY <2>1, <2>2, <2>4
<1>11. Valid(st, dl)
  <2>1. ASSUME NEW r \in 1..n PROVE dl[st[r].index + 1] = st[r].nextFree.chunk
    BY <1>2, <1>6, <1>10 DEF Valid
  <2> QED
    BY <1>1, <1>3, <1>6, <2>1 DEF Valid
<1>12. AllBelow(cs, st, dl)
  <2> SUFFICES ASSUME NEW r \in 1..n, NEW i \in 1..Len(bs[r])
               PROVE  \E k \in 1..m : dl[k] = bs[r][i].chunk /\ Below(bs[r][i], k, st[r])
    BY <1>6, <1>8 DEF AllBelow
  <2>1. PICK k \in 1..Len(cl) : cl[k] = bs[r][i].chunk /\ Below(bs[r][i], k, st[r])
    BY <1>2, <1>8 DEF AllBelow
  <2>2. k \in 1..m
    <3>1. k <= st[r].index + 1
      BY <2>1 DEF Below
    <3> QED
      BY <1>10, <3>1
  <2> QED
    BY <1>6, <2>1, <2>2
<1>13. AllDisjoint(cs)
  BY <1>8 DEF AllDisjoint
<1> QED
  BY <1>1, <1>3, <1>4, <1>5, <1>7, <1>9, <1>11, <1>12, <1>13

\* pop preserves the invariant.
LEMMA PopIInv == IInv /\ Pop => IInv'
<1> SUFFICES ASSUME IInv, Pop PROVE IInv'
  OBVIOUS
<1> DEFINE n == Len(stack)
           top == stack[n]
<1>1. /\ TypeOK /\ stack \in Seq(Frame) /\ stack # << >>
      /\ n \in Nat \ {0} /\ n - 1 \in 0..n /\ top \in Frame
  BY EmptySeq DEF IInv, TypeOK, Pop
<1>2. /\ top.index + 1 \in 1..Len(chunkList)
      /\ Valid(stack, SubSeq(chunkList, 1, top.index + 1)) /\ Ordered(stack)
      /\ AllBelow(SubSeq(blocks, 1, n), stack, SubSeq(chunkList, 1, top.index + 1))
      /\ AllDisjoint(SubSeq(blocks, 1, n))
  <2>1. Len(blocks) = Len(Frames) /\ chunkList \in Seq(Chunks) /\ blocks \in Seq(Seq(Block))
    BY <1>1, FramesType DEF TypeOK
  <2> QED
    BY <1>1, <2>1, FramesType, PoppedFrames DEF IInv
<1>3. /\ chunkList' = SubSeq(chunkList, 1, top.index + 1)
      /\ freeChunks' = Trimmed(freeChunks \o ReleasedTo(top.index))
      /\ nextFree' = top.nextFree /\ index' = top.index
      /\ stack' = SubSeq(stack, 1, n - 1)
  BY DEF Pop, PopChunks
<1>4. blocks' = SubSeq(blocks, 1, n) /\ n \in 0..Len(blocks)
  BY <1>1 DEF Pop, TypeOK
<1> HIDE DEF n, top
<1>5. Here' = top
  BY <1>1, <1>3 DEF Here, Frame
<1>6. Frames' = stack
  <2>1. PICK t : t = SubSeq(stack, 1, n - 1)
    OBVIOUS
  <2>2. t \in Seq(Frame) /\ Len(t) = n - 1 /\ \A i \in 1..(n - 1) : t[i] = stack[i]
    BY <1>1, <2>1, Prefix DEF n
  <2>3. Append(t, top) = stack
    <3>1. Append(t, top) \in Seq(Frame) /\ Len(Append(t, top)) = Len(stack)
      BY <1>1, <2>2 DEF n
    <3>2. \A i \in 1..Len(stack) : Append(t, top)[i] = stack[i]
      BY <1>1, <2>2 DEF n, top
    <3> QED
      BY <1>1, <3>1, <3>2, SeqEqual
  <2> QED
    BY <1>3, <1>5, <2>1, <2>3 DEF Frames
<1>7. Owned(chunkList', freeChunks') /\ freeChunks' \in Seq(Chunks) /\ Len(freeChunks') <= MaxFreeChunks
  <2>1. /\ chunkList \in Seq(Chunks) /\ freeChunks \in Seq(Chunks)
        /\ Owned(chunkList, freeChunks) /\ index \in Nat
    BY DEF IInv, TypeOK
  <2>2. Len(chunkList) = index + 1
    BY <1>1, FramesType DEF IInv, Valid, Here
  <2>3. PICK rel : rel = ReleasedTo(top.index)
    OBVIOUS
  <2>4. index - top.index \in Nat /\ top.index \in Nat
    BY <1>1, <1>2, <2>1, <2>2 DEF Frame
  <2>5. /\ rel \in [1..(index - top.index) -> Chunks]
        /\ \A j \in 1..(index - top.index) : rel[j] = chunkList[Len(chunkList) + 1 - j]
    BY <2>1, <2>2, <2>3, <2>4 DEF ReleasedTo
  <2>6. rel \in Seq(Chunks) /\ Len(rel) = index - top.index
    BY <2>4, <2>5, FunctionIsSeq
  <2>7. Owned(chunkList', freeChunks \o rel)
    <3>1. top.index + 1 \in 0..Len(chunkList) /\ Len(rel) = Len(chunkList) - (top.index + 1)
      BY <2>1, <2>2, <2>4, <2>6
    <3> QED
      BY <1>3, <2>1, <2>5, <2>6, <3>1, OwnedReleased
  <2>8. freeChunks \o rel \in Seq(Chunks) /\ chunkList' \in Seq(Chunks)
    BY <1>2, <1>3, <2>1, <2>6, Prefix
  <2> QED
    BY <1>3, <2>3, <2>7, <2>8, OwnedTrimmed
<1>8. TypeOK'
  <2>1. chunkList' \in Seq(Chunks)
    BY <1>1, <1>2, <1>3, Prefix DEF TypeOK
  <2>2. nextFree' \in Position /\ index' \in Nat
    BY <1>1, <1>3 DEF Frame
  <2>3. stack' \in Seq(Frame) /\ Len(stack') = n - 1
    BY <1>1, <1>3, Prefix DEF n
  <2>4. blocks' \in Seq(Seq(Block)) /\ Len(blocks') = n
    BY <1>1, <1>4, Prefix DEF TypeOK
  <2> QED
    BY <1>1, <1>7, <2>1, <2>2, <2>3, <2>4 DEF TypeOK
<1> QED
  BY <1>2, <1>3, <1>4, <1>6, <1>7, <1>8 DEF IInv

-----------------------------------------------------------------------------
\* What the invariant says of the blocks and the chunks.
LEMMA IInvImplies == IInv => TypeOK /\ BlocksDisjoint /\ BlocksHeld /\ ChunksOwnedOnce
<1> SUFFICES ASSUME IInv PROVE TypeOK /\ BlocksDisjoint /\ BlocksHeld /\ ChunksOwnedOnce
  OBVIOUS
<1>1. TypeOK /\ BlocksDisjoint
  BY DEF IInv, AllDisjoint, BlocksDisjoint
<1>2. BlocksHeld
  <2> SUFFICES ASSUME NEW r \in 1..Len(blocks), NEW i \in 1..Len(blocks[r])
               PROVE  \E k \in 1..Len(chunkList) :
                        /\ chunkList[k] = blocks[r][i].chunk
                        /\ r <= Len(stack) => k <= stack[r].index + 1
    BY DEF BlocksHeld
  <2>1. PICK k \in 1..Len(chunkList) :
          chunkList[k] = blocks[r][i].chunk /\ Below(blocks[r][i], k, Frames[r])
    BY DEF IInv, AllBelow
  <2>2. r <= Len(stack) => Frames[r] = stack[r]
    BY <1>1, FramesType
  <2> QED
    BY <2>1, <2>2 DEF Below
<1>3. ChunksOwnedOnce
  <2>1. chunkList \in Seq(Chunks) /\ freeChunks \in Seq(Chunks)
    BY <1>1 DEF TypeOK
  <2>2. PICK all : all = chunkList \o freeChunks
    OBVIOUS
  <2>3. /\ Len(all) = Len(chunkList) + Len(freeChunks)
        /\ Len(chunkList) \in Nat /\ Len(freeChunks) \in Nat
        /\ \A i \in 1..Len(all) : all[i] = IF i <= Len(chunkList) THEN chunkList[i]
                                           ELSE freeChunks[i - Len(chunkList)]
    BY <2>1, <2>2
  <2>4. ASSUME NEW i \in 1..Len(all), NEW j \in 1..Len(all), all[i] = all[j] PROVE i = j
    <3>1. ASSUME NEW x \in 1..Len(all)
          PROVE \/ x \in 1..Len(chunkList) /\ all[x] = chunkList[x]
                \/ /\ x > Len(chunkList) /\ x - Len(chunkList) \in 1..Len(freeChunks)
                   /\ all[x] = freeChunks[x - Len(chunkList)]
      BY <2>3
    <3>2. CASE i <= Len(chunkList) /\ j <= Len(chunkList)
      BY <2>3, <2>4, <3>1, <3>2 DEF IInv, Owned, Distinct
    <3>3. CASE i > Len(chunkList) /\ j > Len(chunkList)
      <4>1. i - Len(chunkList) = j - Len(chunkList)
        BY <2>3, <2>4, <3>1, <3>3 DEF IInv, Owned, Distinct
      <4> QED
        BY <2>3, <4>1
    <3>4. CASE i <= Len(chunkList) /\ j > Len(chunkList)
      BY <2>3, <2>4, <3>1, <3>4 DEF IInv, Owned, Apart
    <3>5. CASE i > Len(chunkList) /\ j <= Len(chunkList)
      BY <2>3, <2>4, <3>1, <3>5 DEF IInv, Owned, Apart
    <3> QED
      BY <2>3, <3>2, <3>3, <3>4, <3>5
  <2> QED
    BY <2>2, <2>4 DEF ChunksOwnedOnce
<1> QED
  BY <1>1, <1>2, <1>3

\* IInv holds in every reachable state.
LEMMA Inductive == Spec => []IInv
<1>1. IInv /\ [Next]_vars => IInv'
  <2> SUFFICES ASSUME IInv, [Next]_vars PROVE IInv'
    OBVIOUS
  <2>1. CASE UNCHANGED vars
    <3>1. UNCHANGED <<chunkList, freeChunks, nextFree, index, stack, blocks>>
      BY <2>1 DEF vars
    <3>2. Frames' = Frames
      BY <3>1 DEF Frames, Here
    <3> QED
      BY <3>1, <3>2 DEF IInv, TypeOK
  <2> QED
    BY <2>1, NewDataIInv, PushIInv, PopIInv DEF Next
<1> QED
  BY <1>1, InitIInv, PTL DEF Spec

\* The free chunks stay within maxFreeChunks and there is one list of blocks
\* for each region, through any newData, push and pop.
THEOREM RegionsTypeCorrect == Spec => []TypeOK
BY Inductive, IInvImplies, PTL

\* In any history of newData, push and pop, for any chunk size and any limit on
\* the chunks that pop keeps, the blocks in use are disjoint.
THEOREM RegionsSafe == Spec => []BlocksDisjoint
BY Inductive, IInvImplies, PTL

\* A block in use lies in a chunk that the manager holds, and the pop that ends
\* a later region does not release that chunk.
THEOREM RegionsHoldBlocks == Spec => []BlocksHeld
BY Inductive, IInvImplies, PTL

\* pop moves each chunk from the chunk list to the free list once: no chunk is
\* ever owned twice.
THEOREM RegionsOwnChunksOnce == Spec => []ChunksOwnedOnce
BY Inductive, IInvImplies, PTL
=============================================================================
