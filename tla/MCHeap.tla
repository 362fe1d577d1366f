-------------------------------- MODULE MCHeap --------------------------------
(* Pages of 12 words: two blocks of one word fill one, and a block of 6 words *)
(* takes the place of both when they have been freed; 9 words need a page     *)
(* more than the loop asks for at first, 13 words make it ask twice.          *)
EXTENDS Heap

\* What decides the steps of alloc and free: the headers of the list and the
\* tags that a prev leads to.  Other words are written before they are read,
\* or what is read goes back where it came from, and so it is with the locals
\* between two calls; written is read by no action.
Readable ==
  LET H == Heads
      words == UNION {h .. h + HeadSize - 1 : h \in H}
      tags == {PrevOf(h) + 1 : h \in {g \in H : PrevOf(g) # Null}}
  IN  [a \in words \cup tags |-> mem[a]]
ReadableState ==
  <<Readable, frames, pc, blocks, trap,
    IF pc \in {"search", "grow"} THEN <<head, size>> ELSE <<>>,
    IF pc = "grow" THEN i ELSE 0>>
=============================================================================
