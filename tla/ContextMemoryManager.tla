----------------------- MODULE ContextMemoryManager -------------------------
(***************************************************************************)
(* The region allocator under the context (src/context/context_mm): blocks *)
(* are cut from the current chunk, a new chunk is taken when a block does  *)
(* not fit, and a pop gives back at once all that was allocated since the  *)
(* matching push.  Chunks that a pop gives back are kept for later, up to  *)
(* a limit.                                                                *)
(*                                                                         *)
(* blocks observes what the callers hold: the blocks of each open region   *)
(* in the order of their allocation.  The program has no such variable.    *)
(*                                                                         *)
(* The chunk and the offset of nextFree stand for d_nextFree, and for      *)
(* d_endChunk, which is always the end of the same chunk.                  *)
(***************************************************************************)
EXTENDS Integers, Sequences

CONSTANTS
    Chunks,         \* bound: the addresses that malloc may return
    ChunkSize,      \* chunkSizeBytes
    MaxFreeChunks,  \* maxFreeChunks
    MaxRegions,     \* bound on the open regions
    MaxBlocks       \* bound on the blocks of one region

ASSUME SizeAssumption ==
    /\ ChunkSize \in Nat \ {0} /\ MaxFreeChunks \in Nat
    /\ MaxRegions \in Nat /\ MaxBlocks \in Nat

VARIABLES
    chunkList,   \* d_chunkList
    freeChunks,  \* d_freeChunks
    nextFree,    \* d_nextFree
    index,       \* d_indexChunkList
    stack,       \* d_nextFreeStack, d_endChunkStack, d_indexChunkListStack
    blocks

vars == <<chunkList, freeChunks, nextFree, index, stack, blocks>>

Position == [chunk : Chunks, offset : 0..ChunkSize]
Frame == [nextFree : Position, index : Nat]
Block == [chunk : Chunks, from : 0..ChunkSize, to : 0..ChunkSize]

TypeOK ==
    /\ chunkList \in Seq(Chunks)
    /\ freeChunks \in Seq(Chunks) /\ Len(freeChunks) <= MaxFreeChunks
    /\ nextFree \in Position /\ index \in Nat
    /\ stack \in Seq(Frame)
    /\ blocks \in Seq(Seq(Block)) /\ Len(blocks) = Len(stack) + 1

Init ==
    \E c \in Chunks :
        /\ chunkList = <<c>> /\ freeChunks = << >>
        /\ nextFree = [chunk |-> c, offset |-> 0] /\ index = 0
        /\ stack = << >> /\ blocks = << << >> >>

-----------------------------------------------------------------------------
\* malloc returns a chunk that is not in use (external).
Unused == {c \in Chunks : \A i \in 1..Len(chunkList) : chunkList[i] # c}

\* newChunk: a free chunk, the one that was given back last, or else a new one.
\* Mutant: the chunk stays in d_freeChunks.
TakeChunkKept(c) ==
    \/ freeChunks = << >> /\ c \in Unused /\ UNCHANGED freeChunks
    \/ /\ freeChunks # << >> /\ c = freeChunks[Len(freeChunks)]
       /\ UNCHANGED freeChunks
TakeChunk(c) ==
    \/ freeChunks = << >> /\ c \in Unused /\ UNCHANGED freeChunks
    \/ /\ freeChunks # << >> /\ c = freeChunks[Len(freeChunks)]
       /\ freeChunks' = SubSeq(freeChunks, 1, Len(freeChunks) - 1)

NewChunk(c) ==
    /\ TakeChunk(c)
    /\ chunkList' = Append(chunkList, c)
    /\ index' = index + 1

\* A block of the given size at the given position.
Allocate(pos, size) ==
    /\ nextFree' = [pos EXCEPT !.offset = @ + size]
    /\ blocks' = [blocks EXCEPT ![Len(blocks)] =
                    Append(@, [chunk |-> pos.chunk, from |-> pos.offset,
                               to |-> pos.offset + size])]
    /\ UNCHANGED stack

\* Mutant: a block may end one byte after its chunk.
FitsLoosely(size) == nextFree.offset + size <= ChunkSize + 1
Fits(size) == nextFree.offset + size <= ChunkSize

\* newData; a size above ChunkSize aborts the program.
NewData(size) ==
    /\ Len(blocks[Len(blocks)]) < MaxBlocks
    /\ \/ /\ Fits(size)
          /\ Allocate(nextFree, size)
          /\ UNCHANGED <<chunkList, freeChunks, index>>
       \/ /\ ~Fits(size)
          /\ \E c \in Chunks :
               NewChunk(c) /\ Allocate([chunk |-> c, offset |-> 0], size)

Push ==
    /\ Len(stack) < MaxRegions
    /\ stack' = Append(stack, [nextFree |-> nextFree, index |-> index])
    /\ blocks' = Append(blocks, << >>)
    /\ UNCHANGED <<chunkList, freeChunks, nextFree, index>>

\* The chunks that were taken since the push, the last one first.
ReleasedTo(i) ==
    [j \in 1..(index - i) |-> chunkList[Len(chunkList) + 1 - j]]

\* The excess chunks at the front go back to the system.
Trimmed(s) ==
    IF Len(s) <= MaxFreeChunks THEN s
    ELSE SubSeq(s, Len(s) - MaxFreeChunks + 1, Len(s))

\* Mutants: the loop runs once too often; or it does not take the chunks off
\* d_chunkList.
PopChunksOnceMore(top) ==
    /\ chunkList' = SubSeq(chunkList, 1, top.index)
    /\ freeChunks' = Trimmed(freeChunks \o ReleasedTo(top.index - 1))
    /\ index' = top.index - 1
PopChunksKept(top) ==
    /\ UNCHANGED chunkList
    /\ freeChunks' = Trimmed(freeChunks \o ReleasedTo(top.index))
    /\ index' = top.index
PopChunks(top) ==
    /\ chunkList' = SubSeq(chunkList, 1, top.index + 1)
    /\ freeChunks' = Trimmed(freeChunks \o ReleasedTo(top.index))
    /\ index' = top.index

Pop ==
    /\ stack # << >>
    /\ LET top == stack[Len(stack)]
       IN nextFree' = top.nextFree /\ PopChunks(top)
    /\ stack' = SubSeq(stack, 1, Len(stack) - 1)
    /\ blocks' = SubSeq(blocks, 1, Len(blocks) - 1)

Next == (\E size \in 1..ChunkSize : NewData(size)) \/ Push \/ Pop

Spec == Init /\ [][Next]_vars

-----------------------------------------------------------------------------
\* No two blocks that callers hold share a byte, however pushes, pops and
\* allocations interleave and however chunks are used again.
Disjoint(b, c) == b.chunk = c.chunk => b.to <= c.from \/ c.to <= b.from

BlocksDisjoint ==
    \A r, s \in 1..Len(blocks) :
    \A i \in 1..Len(blocks[r]), j \in 1..Len(blocks[s]) :
        r # s \/ i # j => Disjoint(blocks[r][i], blocks[s][j])

\* Every block is in a chunk of d_chunkList, so that no pop before the one of
\* its own region frees the chunk or offers it to somebody else.
BlocksHeld ==
    \A r \in 1..Len(blocks) : \A i \in 1..Len(blocks[r]) :
        \E k \in 1..Len(chunkList) :
            /\ chunkList[k] = blocks[r][i].chunk
            /\ r <= Len(stack) => k <= stack[r].index + 1

\* d_chunkList and d_freeChunks own each chunk once: the destructor, and a pop
\* that trims d_freeChunks, free no chunk twice.
ChunksOwnedOnce ==
    LET all == chunkList \o freeChunks
    IN \A i, j \in 1..Len(all) : all[i] = all[j] => i = j
=============================================================================
