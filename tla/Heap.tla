--------------------------------- MODULE Heap ---------------------------------
(***************************************************************************)
(* The allocator behind new and delete (library/heap), one instance in the *)
(* kernel and one in the program.  Its blocks lie one behind the other in  *)
(* pages that it asks for one at a time; a block is a header and what its  *)
(* caller holds.  The memory is modelled word by word, so that a pointer   *)
(* to a header that is no more finds what is there now: a word of another  *)
(* caller, or what is left of the old header.                              *)
(*                                                                         *)
(* The caller gives back what it holds and nothing else, and writes only   *)
(* there.  Neither heap is used by an interrupt handler, so a call runs to *)
(* its end before the next.                                                *)
(***************************************************************************)
EXTENDS Integers, FiniteSets

CONSTANTS
  PageSize,      \* words in a page (1024)
  Base,          \* heap_base
  MaxPages,      \* bound: pages there are for the heap
  Sizes,         \* bound: the sizes that are asked for
  MaxBlocks,     \* bound: blocks held at a time
  Data           \* bound: what a caller writes into a word

HeadSize == 4
HEAD_ALLOCATED == 65
HEAD_FREE == 70
Null == 0

ASSUME HeapAssumption ==
  /\ PageSize \in Nat /\ PageSize > HeadSize /\ MaxPages \in Nat \ {0}
  /\ Base \in Nat \ {0}
  /\ Sizes \subseteq Nat /\ Data \subseteq Nat /\ MaxBlocks \in Nat

VARIABLES
  mem,           \* the words of the heap's pages, fresh ones 0
  frames,        \* how many pages the heap has been given
  pc,            \* "caller", "search", "grow", "stopped"
  head, size, i, \* locals of alloc
  blocks,        \* what the callers hold: pointer to size
  written,       \* the word a caller has written last and what it wrote, or none
  trap           \* the interrupt that has stopped the system

locals == <<head, size, i>>
vars == <<mem, frames, pc, locals, blocks, written, trap>>

Address == Base .. Base + MaxPages * PageSize - 1
End == Base + frames * PageSize

\* The fields of MallocHead.
SizeOf(h) == mem[h]
Tag(h) == mem[h + 1]
NextOf(h) == mem[h + 2]
PrevOf(h) == mem[h + 3]
Header(m, h, s, f, n, p) ==
  [m EXCEPT ![h] = s, ![h + 1] = f, ![h + 2] = n, ![h + 3] = p]
After(h) == h + HeadSize + SizeOf(h)

Held(b) == b .. b + blocks[b] - 1
Nothing == <<>>

-----------------------------------------------------------------------------
CallAlloc ==
  /\ pc = "caller" /\ Cardinality(DOMAIN blocks) < MaxBlocks
  /\ size' \in Sizes
  /\ pc' = "search" /\ head' = Base
  /\ UNCHANGED <<mem, frames, i, blocks, written, trap>>

Tagged(h) == Tag(h) \in {HEAD_ALLOCATED, HEAD_FREE}
Fits(h) == Tag(h) = HEAD_FREE /\ SizeOf(h) >= size

Stop(interrupt) == trap' = interrupt /\ pc' = "stopped"

WalkAround ==                                 \* mutant: begins again, grows nothing
  /\ pc = "search" /\ ~Fits(head)
  /\ head' = IF NextOf(head) = Null THEN Base ELSE NextOf(head)
  /\ UNCHANGED <<mem, frames, pc, size, i, blocks, written, trap>>
\* The assertion about the tag, then the next block, or the loop that grows.
Walk ==
  /\ pc = "search" /\ ~Fits(head)
  /\ IF ~Tagged(head)
       THEN Stop("0x13") /\ UNCHANGED <<head, i>>
       ELSE /\ UNCHANGED trap
            /\ IF NextOf(head) = Null
                 THEN pc' = "grow" /\ i' = 0 /\ UNCHANGED head
                 ELSE head' = NextOf(head) /\ UNCHANGED <<pc, i>>
  /\ UNCHANGED <<mem, frames, size, blocks, written>>

\* One turn of the loop that asks for pages: the last block becomes longer,
\* or a free block follows it.  Its tag has just been looked at.
GrowUnlinked ==                               \* mutant: the new block is not linked
  /\ pc = "grow" /\ i <= size /\ frames < MaxPages
  /\ frames' = frames + 1
  /\ IF Tag(head) = HEAD_FREE
       THEN mem' = [mem EXCEPT ![head] = @ + PageSize] /\ UNCHANGED head
       ELSE LET new_head == After(head)
            IN  /\ mem' = Header(mem, new_head, PageSize - HeadSize, HEAD_FREE, Null, head)
                /\ head' = new_head
  /\ i' = i + PageSize
  /\ UNCHANGED <<pc, size, blocks, written, trap>>
Grow ==
  /\ pc = "grow" /\ i <= size /\ frames < MaxPages
  /\ frames' = frames + 1
  /\ IF Tag(head) = HEAD_FREE
       THEN mem' = [mem EXCEPT ![head] = @ + PageSize] /\ UNCHANGED head
       ELSE LET new_head == After(head)
            IN  /\ mem' = [Header(mem, new_head, PageSize - HeadSize, HEAD_FREE, Null, head)
                             EXCEPT ![head + 2] = new_head]
                /\ head' = new_head
  /\ i' = i + PageSize
  /\ UNCHANGED <<pc, size, blocks, written, trap>>

\* The system call finds no frame.
OutOfFrames ==
  /\ pc = "grow" /\ i <= size /\ frames = MaxPages
  /\ Stop("0x18")
  /\ UNCHANGED <<mem, frames, locals, blocks, written>>

\* alloc calls itself.
AllocAgain ==
  /\ pc = "grow" /\ i > size
  /\ pc' = "search" /\ head' = Base
  /\ UNCHANGED <<mem, frames, size, i, blocks, written, trap>>

\* The block is cut in two when what remains is longer than a header.
Split(h) ==
  LET next_head == h + HeadSize + size
      next == NextOf(h)
      cut == Header(mem, next_head, SizeOf(h) - size - HeadSize, HEAD_FREE, next, h)
      linked == IF next = Null THEN cut ELSE [cut EXCEPT ![next + 3] = next_head]
  IN  [linked EXCEPT ![h] = size, ![h + 2] = next_head]

TakeAlways ==                                 \* mutant: cuts without room for a header
  /\ pc = "search" /\ Fits(head)
  /\ mem' = [Split(head) EXCEPT ![head + 1] = HEAD_ALLOCATED]
  /\ LET b == head + HeadSize
     IN  blocks' = [a \in DOMAIN blocks \cup {b} |-> IF a = b THEN size ELSE blocks[a]]
  /\ pc' = "caller"
  /\ UNCHANGED <<frames, locals, written, trap>>
Take ==
  /\ pc = "search" /\ Fits(head)
  /\ mem' = [(IF SizeOf(head) - size > HeadSize THEN Split(head) ELSE mem)
               EXCEPT ![head + 1] = HEAD_ALLOCATED]
  /\ LET b == head + HeadSize
     IN  blocks' = [a \in DOMAIN blocks \cup {b} |-> IF a = b THEN size ELSE blocks[a]]
  /\ pc' = "caller"
  /\ UNCHANGED <<frames, locals, written, trap>>

-----------------------------------------------------------------------------
mergeBlocks(m, block1, block2) ==
  [m EXCEPT ![block1] = @ + m[block2] + HeadSize, ![block1 + 2] = m[block2 + 2]]

MergedUnchecked(h) ==                         \* mutant: does not ask whether next is free
  LET freed == [mem EXCEPT ![h + 1] = HEAD_FREE]
      next == freed[h + 2]
      forward == IF next # Null THEN mergeBlocks(freed, h, next) ELSE freed
      prev == forward[h + 3]
  IN  IF prev # Null /\ forward[prev + 1] = HEAD_FREE
        THEN mergeBlocks(forward, prev, h) ELSE forward
Merged(h) ==
  LET freed == [mem EXCEPT ![h + 1] = HEAD_FREE]
      next == freed[h + 2]
      forward == IF next # Null /\ freed[next + 1] = HEAD_FREE
                   THEN mergeBlocks(freed, h, next) ELSE freed
      prev == forward[h + 3]
  IN  IF prev # Null /\ forward[prev + 1] = HEAD_FREE
        THEN mergeBlocks(forward, prev, h) ELSE forward

\* The assertions at lines 85 and 90, then the merging.
FreeBlock(b) ==
  LET h == b - HeadSize
  IN  /\ pc = "caller" /\ b \in DOMAIN blocks
      /\ IF Tag(h) = HEAD_ALLOCATED
           THEN /\ mem' = Merged(h)
                /\ blocks' = [a \in DOMAIN blocks \ {b} |-> blocks[a]]
                /\ written' = IF written # Nothing /\ written[1] \in Held(b)
                                THEN Nothing ELSE written
                /\ UNCHANGED <<pc, trap>>
           ELSE /\ Stop(IF Tag(h) = HEAD_FREE THEN "0x16" ELSE "0x13")
                /\ UNCHANGED <<mem, blocks, written>>
      /\ UNCHANGED <<frames, locals>>

\* A caller writes a word it holds.  The last one is remembered.
Write(a, v) ==
  /\ pc = "caller"
  /\ mem' = [mem EXCEPT ![a] = v]
  /\ written' = <<a, v>>
  /\ UNCHANGED <<frames, pc, locals, blocks, trap>>

Init ==
  /\ mem = Header([a \in Address |-> 0], Base, PageSize - HeadSize, HEAD_FREE, Null, Null)
  /\ frames = 1
  /\ pc = "caller" /\ head = Base /\ size = 0 /\ i = 0
  /\ blocks = [b \in {} |-> 0]
  /\ written = Nothing
  /\ trap = "none"

Alloc == Walk \/ Grow \/ OutOfFrames \/ AllocAgain \/ Take

Next ==
  \/ CallAlloc
  \/ Alloc
  \/ \E b \in DOMAIN blocks : FreeBlock(b)
  \/ \E b \in DOMAIN blocks : \E a \in Held(b), v \in Data : Write(a, v)

\* A call that has begun goes on: nothing else runs.
Spec == Init /\ [][Next]_vars /\ WF_vars(Alloc)

-----------------------------------------------------------------------------
\* The pointers are into the heap, the words are numbers.
TypeOK ==
  /\ mem \in [Address -> Nat]
  /\ frames \in 1 .. MaxPages
  /\ pc \in {"caller", "search", "grow", "stopped"}
  /\ head \in Address /\ size \in Nat /\ i \in Nat
  /\ DOMAIN blocks \subseteq Address /\ \A b \in DOMAIN blocks : blocks[b] \in Nat
  /\ written = Nothing \/ written \in Address \X Data
  /\ trap \in {"none", "0x13", "0x16", "0x18"}

\* The list that starts at heap_base.
MaxHeads == (MaxPages * PageSize) \div HeadSize
Chain[n \in 0 .. MaxHeads] ==
  IF n = 0 THEN Base
           ELSE LET h == Chain[n - 1] IN IF h = Null THEN Null ELSE NextOf(h)
Heads == {Chain[n] : n \in 0 .. MaxHeads} \ {Null}

\* A block and the one behind it: next is where the block ends; prev is the
\* block, or the header of a block that has been merged into it.
Linked(H, h) ==
  /\ After(h) <= End
  /\ Tagged(h)
  /\ \A g \in H : g > h => g >= After(h)
  /\ IF NextOf(h) = Null
       THEN After(h) = End
       ELSE /\ NextOf(h) = After(h) /\ After(h) \in H
            /\ LET p == PrevOf(After(h))
               IN  p = h \/ p \in h + HeadSize .. After(h) - HeadSize
Tiles(H) ==
  /\ Base \in H
  /\ H \subseteq Base .. End - HeadSize
  /\ PrevOf(Base) = Null
  /\ \A h \in H : Linked(H, h)

\* The blocks of the list cover the pages of the heap without a gap and
\* without overlap, after any calls in any order, whatever the callers write
\* and whatever free writes through a prev that is stale.
ListTiles == TypeOK /\ LET H == Heads IN Tiles(H)

\* A block is marked allocated exactly when a caller holds it, and it is as
\* long as the caller asked: no block is lost, none is given to two callers.
HeldIsAllocated ==
  /\ {h + HeadSize : h \in {g \in Heads : Tag(g) = HEAD_ALLOCATED}} = DOMAIN blocks
  /\ \A b \in DOMAIN blocks : SizeOf(b - HeadSize) >= blocks[b]

\* Neither "Heap Corruption" nor "Freeing Freed Memory" for callers that free
\* what they hold.
NeverCorrupted == trap \notin {"0x13", "0x16"}

\* alloc returns or runs out of frames: however often it calls itself.
AllocReturns == pc = "search" ~> pc \in {"caller", "stopped"}

\* What a caller has written stays until it writes again or frees the block.
DataIntact == written # Nothing => mem[written[1]] = written[2]
=============================================================================
