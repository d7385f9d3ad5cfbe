------------------------------ MODULE BlockList ------------------------------
(***************************************************************************)
(* The block lists of the runtime's Context (runtime/src/                  *)
(* minigpu_runtime.cpp): blocks_ for device memory and program_blocks_ for *)
(* instruction memory.  A list is kept in address order and its blocks do  *)
(* not overlap, so it is modelled as a set of blocks and "the first" is    *)
(* the one with the lowest offset.                                         *)
(***************************************************************************)
EXTENDS Integers

Block(offset, size, free) == [offset |-> offset, size |-> size, free |-> free]

BlockEnd(b) == b.offset + b.size
FreeOf(B)   == {b \in B : b.free}
TakenOf(B)  == B \ FreeOf(B)
First(B)    == CHOOSE b \in B : \A c \in B : b.offset <= c.offset

\* Take size units at address at out of the free block b.  What is left of b
\* on either side stays free; an empty rest is not listed.
Carve(B, b, at, size) ==
  LET parts == {Block(b.offset, at - b.offset, TRUE),
                Block(at, size, FALSE),
                Block(at + size, BlockEnd(b) - (at + size), TRUE)}
  IN (B \ {b}) \cup {p \in parts : p.size > 0}

\* Merge every run of adjacent free blocks into one block.
Coalesce(B) ==
  LET F     == FreeOf(B)
      heads == {b \in F : \A c \in F : BlockEnd(c) # b.offset}
      tails == {b \in F : \A c \in F : c.offset # BlockEnd(b)}
      runs  == {r \in heads \X tails :
                  /\ r[1].offset <= r[2].offset
                  /\ \A u \in tails : r[1].offset <= u.offset => r[2].offset <= u.offset}
  IN TakenOf(B) \cup {Block(r[1].offset, BlockEnd(r[2]) - r[1].offset, TRUE) : r \in runs}

\* Free block b of the list.
Give(B, b) == Coalesce((B \ {b}) \cup {[b EXCEPT !.free = TRUE]})

\* The blocks cut lo..hi-1 into pieces, and no two free pieces are adjacent.
Tiles(B, lo, hi) ==
  /\ \A b \in B : b.size > 0 /\ lo <= b.offset /\ BlockEnd(b) <= hi
  /\ \A b, c \in B : b = c \/ BlockEnd(b) <= c.offset \/ BlockEnd(c) <= b.offset
  /\ \A x \in lo..(hi - 1) : \E b \in B : b.offset <= x /\ x < BlockEnd(b)
  /\ \A b, c \in FreeOf(B) : BlockEnd(b) # c.offset
=============================================================================
