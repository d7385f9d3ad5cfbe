-------------------------- MODULE NumbersAndBlocks --------------------------
(***************************************************************************)
(* Lemmas that the proofs of several components share.  Numbers: least     *)
(* elements, for lists of blocks, the program cache and the bus arbiter,   *)
(* and division with a remainder, for the kernel loop, the allocator and   *)
(* the serial link.  Block lists: what carving a block and giving one back *)
(* do to a list of blocks, for every list: it still cuts the same range of *)
(* addresses into disjoint blocks without adjacent free ones.              *)
(***************************************************************************)
EXTENDS BlockList, WellFoundedInduction, TLAPS

\* A set of natural numbers that is not empty has a least one.
LEMMA LeastNumber ==
  ASSUME NEW O \in SUBSET Nat, O # {}
  PROVE  \E x \in O : \A y \in O : x <= y
<1> DEFINE R == OpToRel(<, Nat)
<1>1. PICK x \in O : \A y \in O : <<y, x>> \notin R
  <2> HIDE DEF R
  <2>1. IsWellFoundedOn(R, Nat)
    BY NatLessThanWellFounded DEF R
  <2> QED
    BY <2>1, WFMin
<1>2. \A y \in O : x <= y
  <2> TAKE y \in O
  <2>1. x \in Nat /\ y \in Nat
    OBVIOUS
  <2>2. ~(y < x)
    BY <1>1, <2>1 DEF OpToRel
  <2> QED
    BY <2>1, <2>2, SMT
<1> QED
  BY <1>2

\* A remainder lies below the divisor.
LEMMA RemainderInRange ==
  ASSUME NEW n \in Nat \ {0}, NEW a \in Nat
  PROVE  a % n \in 0..(n - 1)
  BY SMT

\* A number below the divisor is its own remainder.
LEMMA SmallRemainder ==
  ASSUME NEW n \in Nat \ {0}, NEW a \in 0..(n - 1)
  PROVE  a % n = a
  BY SMT

\* Quotient and remainder make up the number.
LEMMA QuotientAndRemainder ==
  ASSUME NEW n \in Nat \ {0}, NEW a \in Nat
  PROVE  n * (a \div n) = a - (a % n)
  BY SMT

\* The same, with the two as witnesses.
LEMMA Divided ==
  ASSUME NEW n \in Nat \ {0}, NEW a \in Nat
  PROVE  \E q \in Nat : \E r \in 0..(n - 1) : a = n * q + r /\ r = a % n
<1> DEFINE q == a \div n
           r == a % n
<1>1. q \in Nat /\ r \in 0..(n - 1)
  BY SMT
<1>2. n * q = a - r
  BY QuotientAndRemainder
<1>3. r = a % n
  OBVIOUS
<1> HIDE DEF q, r
<1>4. a = n * q + r
  BY <1>1, <1>2, SMT
<1> QED
  BY <1>1, <1>3, <1>4

\* There is only one way to divide.
LEMMA RemainderIsUnique ==
  ASSUME NEW n \in Nat \ {0}, NEW a \in Nat, NEW q \in Int, NEW r \in 0..(n - 1),
         a = n * q + r
  PROVE  r = a % n
  BY SMT

\* A summand may be replaced by its remainder.
LEMMA SumWithRemainder ==
  ASSUME NEW n \in Nat \ {0}, NEW a \in Nat, NEW b \in Nat
  PROVE  (b + (a % n)) % n = (b + a) % n
<1>1. PICK q \in Nat : \E r \in 0..(n - 1) : a = n * q + r /\ r = a % n
  BY Divided
<1>2. a = n * q + (a % n) /\ a % n \in 0..(n - 1)
  BY <1>1
<1>3. b + (a % n) \in Nat
  BY <1>2, SMT
<1>4. PICK p \in Nat : \E t \in 0..(n - 1) : b + (a % n) = n * p + t /\ t = (b + (a % n)) % n
  BY <1>3, Divided
<1> DEFINE t == (b + (a % n)) % n
<1>5. t \in 0..(n - 1) /\ b + (a % n) = n * p + t
  BY <1>4
<1> HIDE DEF t
<1>6. b + a = n * q + n * p + t /\ b + a \in Nat /\ p + q \in Int
  BY <1>2, <1>5, SMT
<1>7. n * q + n * p = n * (p + q)
  BY SMT
<1>8. b + a = n * (p + q) + t
  BY <1>6, <1>7, SMT
<1>9. t = (b + a) % n
  BY <1>5, <1>6, <1>8, RemainderIsUnique
<1> QED
  BY <1>9 DEF t

\* Adding the divisor keeps the remainder.
LEMMA StrideKeepsRemainder ==
  ASSUME NEW n \in Nat \ {0}, NEW a \in Nat
  PROVE  (a + n) % n = a % n
<1>1. PICK q \in Nat, r \in 0..(n - 1) : a = n * q + r /\ r = a % n
  BY Divided
<1>2. a + n = n * (q + 1) + r /\ q + 1 \in Int /\ a + n \in Nat
  BY <1>1, SMT
<1>3. r = (a + n) % n
  BY <1>2, RemainderIsUnique
<1> QED
  BY <1>1, <1>3

\* Of n successive numbers only one has a given remainder.
LEMMA OneOfEachClass ==
  ASSUME NEW n \in Nat \ {0}, NEW a \in Nat, NEW b \in Nat,
         a % n = b % n, a <= b, b < a + n
  PROVE  b = a
<1>1. PICK q \in Nat, r \in 0..(n - 1) : a = n * q + r /\ r = a % n
  BY Divided
<1>2. PICK p \in Nat, s \in 0..(n - 1) : b = n * p + s /\ s = b % n
  BY Divided
<1>3. ASSUME NEW d \in Int, d >= 1 PROVE n * d >= n
  BY <1>3, SMT
<1>4. ASSUME NEW d \in Int, d <= -1 PROVE n * d <= -n
  BY <1>4, SMT
<1>5. n * (p - q) = b - a
  <2>1. r = s
    BY <1>1, <1>2
  <2> QED
    BY <2>1, <1>1, <1>2, SMT
<1>6. p - q < 1
  BY <1>5, <1>3, SMT
<1>7. p - q > -1
  BY <1>5, <1>4, SMT
<1> QED
  BY <1>5, <1>6, <1>7, SMT

-----------------------------------------------------------------------------
(***************************************************************************)
(* Lists of blocks.                                                        *)
(***************************************************************************)
Blk == [offset : Nat, size : Nat, free : BOOLEAN]

\* A block is the record that Block builds of its fields.
LEMMA BlockFields ==
  ASSUME NEW o \in Nat, NEW s \in Nat, NEW f \in BOOLEAN
  PROVE  /\ Block(o, s, f) \in Blk
         /\ Block(o, s, f).offset = o /\ Block(o, s, f).size = s
         /\ Block(o, s, f).free = f
         /\ BlockEnd(Block(o, s, f)) = o + s
  BY SMT DEF Block, Blk, BlockEnd

\* A list that is not empty has a first block, at the lowest offset.
LEMMA FirstIsLowest ==
  ASSUME NEW B \in SUBSET Blk, B # {}
  PROVE  First(B) \in B /\ \A c \in B : First(B).offset <= c.offset
<1>1. {b.offset : b \in B} \in SUBSET Nat /\ {b.offset : b \in B} # {}
  BY DEF Blk
<1>2. PICK x \in {b.offset : b \in B} : \A y \in {b.offset : b \in B} : x <= y
  BY <1>1, LeastNumber
<1>3. \E c \in B : \A d \in B : c.offset <= d.offset
  BY <1>2
<1> QED
  BY <1>3 DEF First

\* Carving an allocation out of a free block keeps the list a tiling.
LEMMA CarveTiles ==
  ASSUME NEW B \in SUBSET Blk, NEW lo \in Nat, NEW hi \in Nat, Tiles(B, lo, hi),
         NEW b \in FreeOf(B), NEW at \in Nat, NEW size \in Nat \ {0},
         b.offset <= at, at + size <= BlockEnd(b)
  PROVE  Carve(B, b, at, size) \in SUBSET Blk /\ Tiles(Carve(B, b, at, size), lo, hi)
<1> DEFINE p1 == Block(b.offset, at - b.offset, TRUE)
           p2 == Block(at, size, FALSE)
           p3 == Block(at + size, BlockEnd(b) - (at + size), TRUE)
           C  == Carve(B, b, at, size)
<1>1. b \in B /\ b \in Blk /\ b.free /\ b.offset \in Nat /\ b.size \in Nat
      /\ BlockEnd(b) = b.offset + b.size /\ BlockEnd(b) \in Nat
  BY SMT DEF FreeOf, Blk, BlockEnd
<1>2. /\ p1 \in Blk /\ p1.offset = b.offset /\ BlockEnd(p1) = at /\ p1.free = TRUE
      /\ p1.size = at - b.offset
  <2>1. at - b.offset \in Nat /\ b.offset + (at - b.offset) = at
    BY <1>1, SMT
  <2>2. Block(b.offset, at - b.offset, TRUE) \in Blk
    BY <1>1, <2>1, BlockFields
  <2> QED
    BY <1>1, <2>1, <2>2, SMT DEF Block, BlockEnd
<1>3. /\ p2 \in Blk /\ p2.offset = at /\ BlockEnd(p2) = at + size /\ p2.free = FALSE
      /\ p2.size = size
  BY BlockFields
<1>4. /\ p3 \in Blk /\ p3.offset = at + size /\ BlockEnd(p3) = BlockEnd(b) /\ p3.free = TRUE
      /\ p3.size = BlockEnd(b) - (at + size)
  <2>1. at + size \in Nat /\ BlockEnd(b) - (at + size) \in Nat
        /\ (at + size) + (BlockEnd(b) - (at + size)) = BlockEnd(b)
    BY <1>1, SMT
  <2>2. Block(at + size, BlockEnd(b) - (at + size), TRUE) \in Blk
    BY <1>1, <2>1, BlockFields
  <2> QED
    BY <1>1, <2>1, <2>2, SMT DEF Block, BlockEnd
<1> HIDE DEF p1, p2, p3
<1>5. C = (B \ {b}) \cup {p \in {p1, p2, p3} : p.size > 0}
  BY DEF Carve, p1, p2, p3
<1> HIDE DEF C
<1>6. C \in SUBSET Blk
  BY <1>2, <1>3, <1>4, <1>5
<1>7. \A c \in Blk : /\ c.offset \in Nat /\ c.size \in Nat /\ c.free \in BOOLEAN
                     /\ BlockEnd(c) = c.offset + c.size /\ BlockEnd(c) \in Nat
  BY SMT DEF Blk, BlockEnd
<1>8. /\ \A c \in B : c.size > 0 /\ lo <= c.offset /\ BlockEnd(c) <= hi
      /\ \A c, d \in B : c = d \/ BlockEnd(c) <= d.offset \/ BlockEnd(d) <= c.offset
      /\ \A x \in lo..(hi - 1) : \E c \in B : c.offset <= x /\ x < BlockEnd(c)
      /\ \A c, d \in B : c.free /\ d.free => BlockEnd(c) # d.offset
  BY DEF Tiles, FreeOf
\* A block of the new list is an old one outside b, or a piece of b.
<1>9. \A c \in C : \/ c \in B /\ (BlockEnd(c) <= b.offset \/ BlockEnd(b) <= c.offset)
                   \/ c = p1 /\ c.size > 0 
                   \/ c = p2
                   \/ c = p3 /\ c.size > 0
  BY <1>1, <1>5, <1>8
<1>10. \A c \in C : c.size > 0 /\ lo <= c.offset /\ BlockEnd(c) <= hi
  <2> TAKE c \in C
  <2>1. c.offset \in Nat /\ c.size \in Nat /\ BlockEnd(c) = c.offset + c.size
    BY <1>6, <1>7
  <2>2. lo <= b.offset /\ BlockEnd(b) <= hi
    BY <1>1, <1>8
  <2>3. c \in B => c.size > 0 /\ lo <= c.offset /\ BlockEnd(c) <= hi
    BY <1>8
  <2> QED
    BY <1>1, <1>2, <1>3, <1>4, <1>9, <2>1, <2>2, <2>3, SMT
<1>11. \A c, d \in C : c = d \/ BlockEnd(c) <= d.offset \/ BlockEnd(d) <= c.offset
  <2> TAKE c, d \in C
  <2>1. /\ c.offset \in Nat /\ c.size \in Nat /\ BlockEnd(c) = c.offset + c.size
        /\ d.offset \in Nat /\ d.size \in Nat /\ BlockEnd(d) = d.offset + d.size
    BY <1>6, <1>7
  <2>2. c \in B /\ d \in B => c = d \/ BlockEnd(c) <= d.offset \/ BlockEnd(d) <= c.offset
    BY <1>8
  <2> QED
    BY <1>1, <1>2, <1>3, <1>4, <1>9, <2>1, <2>2, SMT
<1>12. \A x \in lo..(hi - 1) : \E c \in C : c.offset <= x /\ x < BlockEnd(c)
  <2> TAKE x \in lo..(hi - 1)
  <2>1. PICK c \in B : c.offset <= x /\ x < BlockEnd(c)
    BY <1>8
  <2>2. x \in Int
    BY SMT
  <2>3. CASE c # b
    BY <2>1, <2>3, <1>5
  <2>4. CASE c = b /\ x < at
    <3>1. p1.size > 0 /\ p1.offset <= x /\ x < BlockEnd(p1)
      BY <2>1, <2>2, <2>4, <1>1, <1>2, SMT
    <3> QED
      BY <3>1, <1>5
  <2>5. CASE c = b /\ at <= x /\ x < at + size
    <3>1. p2.size > 0 /\ p2.offset <= x /\ x < BlockEnd(p2)
      BY <2>1, <2>2, <2>5, <1>3, SMT
    <3> QED
      BY <3>1, <1>5
  <2>6. CASE c = b /\ at + size <= x
    <3>1. p3.size > 0 /\ p3.offset <= x /\ x < BlockEnd(p3)
      BY <2>1, <2>2, <2>6, <1>1, <1>4, SMT
    <3> QED
      BY <3>1, <1>5
  <2> QED
    BY <2>2, <2>3, <2>4, <2>5, <2>6, SMT
<1>13. \A c, d \in C : c.free /\ d.free => BlockEnd(c) # d.offset
  <2> TAKE c, d \in C
  <2>1. /\ c.offset \in Nat /\ c.size \in Nat /\ BlockEnd(c) = c.offset + c.size
        /\ d.offset \in Nat /\ d.size \in Nat /\ BlockEnd(d) = d.offset + d.size
    BY <1>6, <1>7
  <2>2. /\ c \in B /\ d \in B /\ c.free /\ d.free => BlockEnd(c) # d.offset
        /\ c \in B /\ c.free => BlockEnd(c) # b.offset
        /\ d \in B /\ d.free => BlockEnd(b) # d.offset
        /\ c \in B => c.size > 0 
        /\ d \in B => d.size > 0
    BY <1>1, <1>8
  <2> QED
    BY <1>1, <1>2, <1>3, <1>4, <1>9, <2>1, <2>2, SMT
<1> QED
  BY <1>6, <1>10, <1>11, <1>12, <1>13 DEF Tiles, FreeOf, C

\* Giving back a block keeps the list a tiling: the block and its free
\* neighbours, if any, become one free block.
LEMMA GiveTiles ==
  ASSUME NEW B \in SUBSET Blk, NEW lo \in Nat, NEW hi \in Nat, Tiles(B, lo, hi),
         NEW b \in TakenOf(B)
  PROVE  Give(B, b) \in SUBSET Blk /\ Tiles(Give(B, b), lo, hi)
<1> DEFINE f  == [b EXCEPT !.free = TRUE]
           B1 == (B \ {b}) \cup {f}
           F  == FreeOf(B1)
           heads == {c \in F : \A d \in F : BlockEnd(d) # c.offset}
           tails == {c \in F : \A d \in F : d.offset # BlockEnd(c)}
           runs  == {r \in heads \X tails :
                       /\ r[1].offset <= r[2].offset
                       /\ \A u \in tails : r[1].offset <= u.offset => r[2].offset <= u.offset}
           Merged(r) == Block(r[1].offset, BlockEnd(r[2]) - r[1].offset, TRUE)
           apart(c) == c \in B /\ c # b
                       /\ (c.free => BlockEnd(c) # b.offset /\ BlockEnd(b) # c.offset)
           G == Give(B, b)
<1>1. \A c \in Blk : /\ c.offset \in Nat /\ c.size \in Nat /\ c.free \in BOOLEAN
                     /\ BlockEnd(c) = c.offset + c.size /\ BlockEnd(c) \in Nat
  BY SMT DEF Blk, BlockEnd
<1>2. /\ \A c \in B : c.size > 0 /\ lo <= c.offset /\ BlockEnd(c) <= hi
      /\ \A c, d \in B : c = d \/ BlockEnd(c) <= d.offset \/ BlockEnd(d) <= c.offset
      /\ \A x \in lo..(hi - 1) : \E c \in B : c.offset <= x /\ x < BlockEnd(c)
      /\ \A c, d \in B : c.free /\ d.free => BlockEnd(c) # d.offset
  BY DEF Tiles, FreeOf
<1>3. b \in B /\ b \in Blk /\ ~b.free
  BY DEF TakenOf, FreeOf
<1>4. f \in Blk /\ f.offset = b.offset /\ f.size = b.size /\ f.free /\ BlockEnd(f) = BlockEnd(b)
  <2>1. f \in Blk
    BY <1>3 DEF Blk
  <2>2. f.offset = b.offset
    BY <1>3 DEF Blk
  <2>3. f.size = b.size
    BY <1>3 DEF Blk
  <2>4. f.free
    BY <1>3 DEF Blk
  <2> HIDE DEF f
  <2> QED
    BY <2>1, <2>2, <2>3, <2>4 DEF BlockEnd
<1>5. G = TakenOf(B1) \cup {Merged(r) : r \in runs}
  BY DEF Give, Coalesce
<1> HIDE DEF f, G
\* The free blocks are those of before and f, which lies apart from them.
<1>6. F = FreeOf(B) \cup {f}
  BY <1>3, <1>4, Zenon DEF FreeOf
<1>7. TakenOf(B1) = TakenOf(B) \ {b}
  BY <1>3, <1>4, Zenon DEF FreeOf, TakenOf
<1>8. \A c \in F : c \in Blk /\ (c = f \/ (c \in B /\ c.free /\ c # b))
  BY <1>3, <1>4, <1>6, Zenon DEF FreeOf
<1>9. \A c \in F : c.size > 0 /\ c.offset \in Nat /\ c.size \in Nat
                   /\ BlockEnd(c) = c.offset + c.size
  BY <1>1, <1>2, <1>3, <1>4, <1>8
<1>10. \A c, d \in F : c = d \/ BlockEnd(c) <= d.offset \/ BlockEnd(d) <= c.offset
  BY <1>2, <1>3, <1>4, <1>8
<1>11. \A c \in FreeOf(B) : c \in F /\ c \in B /\ c.free /\ c # f
  <2> TAKE c \in FreeOf(B)
  <2>1. c \in B /\ c.free /\ c \in F /\ c # b
    BY <1>3, <1>6 DEF FreeOf
  <2>2. c # f
    BY <2>1, <1>1, <1>2, <1>3, <1>4, SMT
  <2> QED
    BY <2>1, <2>2
<1> HIDE DEF F, heads, tails, runs, Merged
\* The merged block runs from h to t.
<1>12. PICK h \in F : \/ h = f /\ \A c \in FreeOf(B) : BlockEnd(c) # b.offset
                      \/ h \in FreeOf(B) /\ BlockEnd(h) = b.offset
  BY <1>6
<1>13. PICK t \in F : \/ t = f /\ \A c \in FreeOf(B) : BlockEnd(b) # c.offset
                      \/ t \in FreeOf(B) /\ BlockEnd(b) = t.offset
  BY <1>6
<1> DEFINE M == Block(h.offset, BlockEnd(t) - h.offset, TRUE)
<1>14. h.offset <= b.offset /\ BlockEnd(b) <= BlockEnd(t) /\ h.offset <= t.offset
  BY <1>1, <1>3, <1>4, <1>9, <1>12, <1>13, SMT
<1>15. M \in Blk /\ M.offset = h.offset /\ BlockEnd(M) = BlockEnd(t) /\ M.free = TRUE
       /\ M.size = BlockEnd(t) - h.offset /\ M.size > 0
  <2>1. BlockEnd(t) - h.offset \in Nat /\ BlockEnd(t) - h.offset > 0
        /\ h.offset + (BlockEnd(t) - h.offset) = BlockEnd(t) /\ h.offset \in Nat
    BY <1>9, <1>14, SMT
  <2>2. M \in Blk
    BY <2>1, BlockFields
  <2> QED
    BY <2>1, <2>2, SMT DEF Block, BlockEnd
\* A free block of before follows or precedes f only when it is h or t.
<1>16. \A c, d \in F : BlockEnd(c) = d.offset => (c = h /\ d = f) \/ (c = f /\ d = t)
  <2> TAKE c, d \in F
  <2> HAVE BlockEnd(c) = d.offset
  <2>1. ~(c \in FreeOf(B) /\ d \in FreeOf(B))
    BY <1>2, <1>11
  <2>2. ~(c = f /\ d = f)
    BY <1>9, SMT
  <2>3. CASE c \in FreeOf(B) /\ d = f
    <3>1. BlockEnd(c) = b.offset
      BY <2>3, <1>4
    <3>2. h \in FreeOf(B) /\ BlockEnd(h) = b.offset
      BY <3>1, <2>3, <1>12
    <3> QED
      BY <3>1, <3>2, <2>3, <1>9, <1>10, SMT
  <2>4. CASE c = f /\ d \in FreeOf(B)
    <3>1. BlockEnd(b) = d.offset
      BY <2>4, <1>4
    <3>2. t \in FreeOf(B) /\ BlockEnd(b) = t.offset
      BY <3>1, <2>4, <1>13
    <3>3. d = t
      <4>1. d = t \/ BlockEnd(d) <= t.offset \/ BlockEnd(t) <= d.offset
        BY <1>10
      <4>2. d.offset = t.offset
        BY <3>1, <3>2
      <4> QED
        BY <4>1, <4>2, <1>9, SMT
    <3> QED
      BY <3>3, <2>4
  <2> QED
    BY <2>1, <2>2, <2>3, <2>4, <1>6
<1>17. h \in heads /\ t \in tails
  <2>1. \A d \in F : BlockEnd(d) # h.offset
    <3> SUFFICES ASSUME NEW d \in F, BlockEnd(d) = h.offset PROVE FALSE
      OBVIOUS
    <3>1. (d = h /\ h = f) \/ (d = f /\ h = t)
      BY <1>16
    <3> QED
      BY <3>1, <1>1, <1>4, <1>9, <1>11, <1>12, <1>13, <1>3, SMT
  <2>2. \A d \in F : d.offset # BlockEnd(t)
    <3> SUFFICES ASSUME NEW d \in F, BlockEnd(t) = d.offset PROVE FALSE
      OBVIOUS
    <3>1. (t = h /\ d = f) \/ (t = f /\ d = t)
      BY <1>16
    <3> QED
      BY <3>1, <1>1, <1>4, <1>9, <1>11, <1>12, <1>13, <1>3, SMT
  <2> QED
    BY <2>1, <2>2 DEF heads, tails
\* Every other free block is a run of its own.
<1>18. \A c \in F : c \in heads => c = h \/ (c \in tails /\ c # f)
  <2> SUFFICES ASSUME NEW c \in F, c \in heads, c # h PROVE c \in tails /\ c # f
    OBVIOUS
  <2>1. c # f
    BY <1>4, <1>11, <1>12 DEF heads
  <2>2. \A d \in F : d.offset # BlockEnd(c)
    BY <1>16, <2>1 DEF heads
  <2> QED
    BY <2>1, <2>2 DEF tails
<1>19. \A c \in F : c \in tails => c = t \/ (c \in heads /\ c # f)
  <2> SUFFICES ASSUME NEW c \in F, c \in tails, c # t PROVE c \in heads /\ c # f
    OBVIOUS
  <2>1. c # f
    BY <1>4, <1>11, <1>13 DEF tails
  <2>2. \A d \in F : c.offset # BlockEnd(d)
    BY <1>16, <2>1 DEF tails
  <2> QED
    BY <2>1, <2>2 DEF heads
<1>20. \A c \in heads \cap tails : <<c, c>> \in runs
  <2> SUFFICES ASSUME NEW c \in heads \cap tails PROVE <<c, c>> \in runs
    OBVIOUS
  <2>1. c \in F /\ c.offset <= c.offset
    BY <1>9, SMT DEF heads
  <2> QED
    BY <2>1 DEF runs
<1>21. <<h, t>> \in runs
  <2>1. ASSUME NEW u \in tails, h.offset <= u.offset PROVE t.offset <= u.offset
    <3>1. CASE u = t
      BY <3>1, <1>9, SMT
    <3>2. CASE u # t
      <4>1. u \in F /\ u \in FreeOf(B) /\ u \in heads /\ u # f
        BY <3>2, <1>19, <1>6 DEF tails
      <4>2. \A d \in F : d.offset # BlockEnd(u)
        BY <2>1 DEF tails
      <4>3. u # h
        \* h, when it is not f, is followed by f and so is no tail.
        BY <1>4, <1>6, <1>12, <4>1, <4>2
      <4>4. BlockEnd(h) <= u.offset
        BY <4>1, <4>3, <2>1, <1>9, <1>10, SMT
      <4>5. BlockEnd(b) <= u.offset
        BY <4>1, <4>4, <1>1, <1>2, <1>3, <1>4, <1>9, <1>11, <1>12, SMT
      <4> QED
        BY <4>1, <4>5, <1>1, <1>3, <1>4, <1>9, <1>10, <1>11, <1>13, SMT
    <3> QED
      BY <3>1, <3>2
  <2> QED
    BY <2>1, <1>14, <1>17 DEF runs
<1>22. \A r \in runs : r = <<h, t>> \/ \E c \in FreeOf(B) : r = <<c, c>> /\ c # h /\ c # t
                                        /\ c \in heads /\ c \in tails
  <2> TAKE r \in runs
  <2>a. PICK x \in heads, y \in tails :
          /\ r = <<x, y>> /\ x.offset <= y.offset
          /\ \A u \in tails : x.offset <= u.offset => y.offset <= u.offset
    BY DEF runs
  <2>0. x \in F /\ y \in F
    BY DEF heads, tails
  <2>1. CASE x = h
    <3>1. y.offset <= t.offset
      BY <2>1, <2>a, <1>14, <1>17
    <3>2. \A u \in tails : h.offset <= u.offset => t.offset <= u.offset
      BY <1>21 DEF runs
    <3>3. t.offset <= y.offset
      BY <3>2, <2>1, <2>a
    <3>4. y = t
      BY <2>0, <3>1, <3>3, <1>9, <1>10, SMT
    <3> QED
      BY <2>1, <2>a, <3>4
  <2>2. CASE x # h
    <3>1. x \in tails /\ x # f
      BY <2>0, <2>2, <1>18
    <3>2. y.offset <= x.offset
      <4>1. x.offset <= x.offset
        BY <2>0, <1>9, SMT
      <4> QED
        BY <4>1, <2>a, <3>1
    <3>3. y = x
      BY <2>a, <2>0, <3>2, <1>9, <1>10, SMT
    <3>4. x \in FreeOf(B)
      BY <2>0, <3>1, <1>6
    <3>5. x # t
      \* t, when it is not f, follows f and so is no head.
      <4>1. \A d \in F : BlockEnd(d) # x.offset
        BY DEF heads
      <4> QED
        BY <4>1, <1>4, <1>6, <1>13, <3>1
    <3> QED
      BY <2>a, <2>2, <3>1, <3>3, <3>4, <3>5
  <2> QED
    BY <2>1, <2>2
\* The new list: the blocks apart from f as they were, and M.
<1>23. \A c \in G : apart(c) \/ c = M
  <2> TAKE c \in G
  <2>1. CASE c \in TakenOf(B1)
    BY <2>1, <1>7, Zenon DEF TakenOf, FreeOf
  <2>2. CASE \E r \in runs : c = Merged(r)
    <3>1. PICK r \in runs : c = Merged(r)
      BY <2>2
    <3>2. CASE r = <<h, t>>
      BY <3>1, <3>2 DEF Merged
    <3>3. CASE \E d \in FreeOf(B) : r = <<d, d>> /\ d # h /\ d # t /\ d \in heads /\ d \in tails
      <4>1. PICK d \in FreeOf(B) : r = <<d, d>> /\ d \in heads /\ d \in tails
        BY <3>3
      <4>2. c = Block(d.offset, BlockEnd(d) - d.offset, TRUE)
        BY <3>1, <4>1 DEF Merged
      <4>3. d \in Blk /\ d.free
        BY <1>11
      <4>4. c = d
        BY <4>2, <4>3, SMT DEF Blk, Block, BlockEnd
      <4>5. BlockEnd(d) # b.offset /\ BlockEnd(b) # d.offset
        BY <4>1, <1>4, <1>6 DEF heads, tails
      <4> QED
        BY <4>3, <4>4, <4>5, <1>3, <1>11
    <3> QED
      BY <3>2, <3>3, <1>22
  <2> QED
    BY <2>1, <2>2, <1>5
<1>24. M \in G
  <2>1. M = Merged(<<h, t>>)
    BY DEF Merged
  <2> QED
    BY <2>1, <1>5, <1>21
<1>25. \A c : apart(c) => c \in G
  <2> SUFFICES ASSUME NEW c, apart(c) PROVE c \in G
    OBVIOUS
  <2>1. CASE ~c.free
    BY <2>1, <1>5, <1>7, Zenon DEF TakenOf, FreeOf
  <2>2. CASE c.free
    <3>1. c \in FreeOf(B) /\ c \in F /\ c # f /\ c \in Blk
      BY <2>2, <1>6, <1>11 DEF FreeOf
    <3>2. \A d \in F : BlockEnd(d) # c.offset
      BY <3>1, <1>2, <1>4, <1>6, <1>11, <2>2
    <3>3. \A d \in F : d.offset # BlockEnd(c)
      BY <3>1, <1>2, <1>4, <1>6, <1>11, <2>2
    <3>4. <<c, c>> \in runs
      BY <3>1, <3>2, <3>3, <1>20 DEF heads, tails
    <3>5. Merged(<<c, c>>) = c
      <4>1. Merged(<<c, c>>) = Block(c.offset, BlockEnd(c) - c.offset, TRUE)
        BY DEF Merged
      <4>2. c.free = TRUE /\ BlockEnd(c) - c.offset = c.size
        BY <3>1, <2>2, <1>1, SMT
      <4>3. Block(c.offset, c.size, TRUE) = c
        BY <3>1, <4>2 DEF Blk, Block
      <4> QED
        BY <4>1, <4>2, <4>3
    <3> QED
      BY <3>4, <3>5, <1>5
  <2> QED
    BY <2>1, <2>2
\* Where a block apart lies relative to f, h and t.
<1>26. \A c : apart(c) => /\ c \in Blk /\ c \in B /\ c # h /\ c # t
                          /\ (c.free => BlockEnd(c) # b.offset /\ BlockEnd(b) # c.offset)
                          /\ BlockEnd(c) <= M.offset \/ BlockEnd(M) <= c.offset
  <2> SUFFICES ASSUME NEW c, apart(c)
               PROVE  /\ c \in Blk /\ c \in B /\ c # h /\ c # t
                      /\ (c.free => BlockEnd(c) # b.offset /\ BlockEnd(b) # c.offset)
                      /\ BlockEnd(c) <= M.offset \/ BlockEnd(M) <= c.offset
    OBVIOUS
  <2>1. c \in B /\ c \in Blk /\ (BlockEnd(c) <= b.offset \/ BlockEnd(b) <= c.offset) /\ c.size > 0
    BY <1>2, <1>3
  <2>2. c # f
    BY <2>1, <1>1, <1>3, <1>4, SMT
  <2>3. c # h /\ c # t
    BY <2>2, <1>11, <1>12, <1>13
  <2>4. \/ h.offset = b.offset
        \/ BlockEnd(h) = b.offset /\ h \in Blk /\ h.size > 0
           /\ (BlockEnd(c) <= h.offset \/ BlockEnd(h) <= c.offset)
    BY <2>1, <2>3, <1>2, <1>4, <1>11, <1>12
  <2>5. \/ BlockEnd(t) = BlockEnd(b)
        \/ t.offset = BlockEnd(b) /\ t \in Blk /\ t.size > 0
           /\ (BlockEnd(c) <= t.offset \/ BlockEnd(t) <= c.offset)
    BY <2>1, <2>3, <1>2, <1>4, <1>11, <1>13
  <2>6. BlockEnd(c) <= M.offset \/ BlockEnd(M) <= c.offset
    <3>1. c.offset \in Nat /\ c.size \in Nat /\ BlockEnd(c) = c.offset + c.size
          /\ b.offset \in Nat /\ b.size \in Nat /\ BlockEnd(b) = b.offset + b.size /\ b.size > 0
          /\ h.offset \in Nat /\ h.size \in Nat /\ BlockEnd(h) = h.offset + h.size
          /\ t.offset \in Nat /\ t.size \in Nat /\ BlockEnd(t) = t.offset + t.size
      BY <2>1, <1>1, <1>2, <1>3, <1>9
    <3>2. M.offset = h.offset /\ BlockEnd(M) = BlockEnd(t)
      BY <1>15
    <3> HIDE DEF M
    <3> QED
      BY <3>1, <3>2, <2>1, <2>4, <2>5, SMT
  <2> QED
    BY <2>1, <2>3, <2>6
<1>27. G \in SUBSET Blk
  BY <1>15, <1>23, <1>26
<1>28. \A c \in G : c.size > 0 /\ lo <= c.offset /\ BlockEnd(c) <= hi
  <2>1. lo <= h.offset
    BY <1>2, <1>3, <1>4, <1>11, <1>12
  <2>2. BlockEnd(t) <= hi
    BY <1>2, <1>3, <1>4, <1>11, <1>13
  <2>3. M.size > 0 /\ lo <= M.offset /\ BlockEnd(M) <= hi
    BY <2>1, <2>2, <1>15
  <2> HIDE DEF M
  <2> QED
    BY <2>3, <1>2, <1>23
<1> HIDE DEF M
<1>29. \A c, d \in G : c = d \/ BlockEnd(c) <= d.offset \/ BlockEnd(d) <= c.offset
  BY <1>2, <1>23, <1>26
<1>30. \A x \in lo..(hi - 1) : \E c \in G : c.offset <= x /\ x < BlockEnd(c)
  <2> TAKE x \in lo..(hi - 1)
  <2>1. PICK c \in B : c.offset <= x /\ x < BlockEnd(c)
    BY <1>2
  <2>2. c \in Blk /\ x \in Int
    BY SMT
  <2>3. CASE apart(c)
    BY <2>1, <2>3, <1>25
  <2>4. CASE ~apart(c)
    <3>1. c = b \/ (c.free /\ c # b /\ (BlockEnd(c) = b.offset \/ BlockEnd(b) = c.offset))
      BY <2>1, <2>4
    <3>2. M.offset <= x /\ x < BlockEnd(M)
      <4>0. M.offset = h.offset /\ BlockEnd(M) = BlockEnd(t)
        BY <1>15
      <4>1. CASE c = b
        BY <4>0, <4>1, <2>1, <2>2, <1>1, <1>3, <1>9, <1>14, SMT
      <4>2. CASE c.free /\ c # b /\ BlockEnd(c) = b.offset
        <5>1. c \in FreeOf(B)
          BY <4>2, <2>1 DEF FreeOf
        <5>2. c \in F /\ c # f
          BY <5>1, <1>11
        <5>3. BlockEnd(c) = f.offset
          BY <4>2, <1>4
        <5>4. c = h
          BY <5>2, <5>3, <1>6, <1>16
        <5> QED
          BY <4>0, <4>2, <5>4, <2>1, <2>2, <1>1, <1>3, <1>9, <1>14, SMT
      <4>3. CASE c.free /\ c # b /\ BlockEnd(b) = c.offset
        <5>1. c \in FreeOf(B)
          BY <4>3, <2>1 DEF FreeOf
        <5>2. c \in F /\ c # f
          BY <5>1, <1>11
        <5>3. BlockEnd(f) = c.offset
          BY <4>3, <1>4
        <5>4. c = t
          BY <5>2, <5>3, <1>6, <1>16
        <5> QED
          BY <4>0, <4>3, <5>4, <2>1, <2>2, <1>1, <1>3, <1>9, <1>14, SMT
      <4> QED
        BY <3>1, <4>1, <4>2, <4>3
    <3> QED
      BY <3>2, <1>24
  <2> QED
    BY <2>3, <2>4
<1>31. \A c, d \in G : c.free /\ d.free => BlockEnd(c) # d.offset
  <2> SUFFICES ASSUME NEW c \in G, NEW d \in G, c.free, d.free, BlockEnd(c) = d.offset
               PROVE  FALSE
    OBVIOUS
  <2>1. M.offset = h.offset /\ BlockEnd(M) = BlockEnd(t) /\ M.offset < BlockEnd(M)
    BY <1>9, <1>14, <1>15, SMT
  <2>2. ~(apart(c) /\ apart(d))
    BY <1>2
  <2>3. ~(c = M /\ d = M)
    BY <2>1, <1>9, SMT
  <2>4. ASSUME apart(c), d = M PROVE FALSE
    <3>1. BlockEnd(c) = h.offset /\ c \in B /\ BlockEnd(c) # b.offset
      BY <2>1, <2>4
    <3>2. h \in FreeOf(B)
      BY <3>1, <1>4, <1>12
    <3> QED
      BY <3>1, <3>2, <1>2, <1>11
  <2>5. ASSUME c = M, apart(d) PROVE FALSE
    <3>1. BlockEnd(t) = d.offset /\ d \in B /\ BlockEnd(b) # d.offset
      BY <2>1, <2>5
    <3>2. t \in FreeOf(B)
      BY <3>1, <1>4, <1>13
    <3> QED
      BY <3>1, <3>2, <1>2, <1>11
  <2> QED
    BY <1>23, <2>2, <2>3, <2>4, <2>5
<1> QED
  BY <1>27, <1>28, <1>29, <1>30, <1>31 DEF Tiles, FreeOf, G

\* One free block tiles its own range.
LEMMA OneBlockTiles ==
  ASSUME NEW lo \in Nat, NEW hi \in Nat, lo < hi
  PROVE  LET B == {Block(lo, hi - lo, TRUE)}
         IN  B \in SUBSET Blk /\ Tiles(B, lo, hi) /\ TakenOf(B) = {}
<1> DEFINE b == Block(lo, hi - lo, TRUE)
<1>1. hi - lo \in Nat /\ hi - lo > 0 /\ lo + (hi - lo) = hi
  BY SMT
<1>2. b \in Blk
  BY <1>1, BlockFields
<1>3. b.offset = lo /\ b.size = hi - lo /\ b.free = TRUE
  BY DEF Block
<1>4. BlockEnd(b) = hi
  BY <1>1, <1>3 DEF BlockEnd
<1> HIDE DEF b
<1>5. Tiles({b}, lo, hi)
  BY <1>1, <1>3, <1>4, SMT DEF Tiles, FreeOf
<1>6. TakenOf({b}) = {}
  BY <1>3, Zenon DEF TakenOf, FreeOf
<1> QED
  BY <1>2, <1>5, <1>6 DEF b

\* The taken blocks, and one more.
TakenWith(B, block) == TakenOf(B) \cup {block}

\* Carving adds one taken block, the allocation.
LEMMA CarveTakes ==
  ASSUME NEW B, NEW b \in FreeOf(B), NEW at, NEW size \in Nat \ {0}
  PROVE  TakenOf(Carve(B, b, at, size)) = TakenWith(B, Block(at, size, FALSE))
<1> DEFINE p1 == Block(b.offset, at - b.offset, TRUE)
           p2 == Block(at, size, FALSE)
           p3 == Block(at + size, BlockEnd(b) - (at + size), TRUE)
<1>1. p1.free = TRUE /\ p2.free = FALSE /\ p3.free = TRUE /\ p2.size = size
  BY DEF Block
<1> HIDE DEF p1, p2, p3
<1>2. p2.size > 0
  BY <1>1, SMT
<1>3. Carve(B, b, at, size) = (B \ {b}) \cup {p \in {p1, p2, p3} : p.size > 0}
  BY DEF Carve, p1, p2, p3
<1>4. b \in B /\ b.free
  BY DEF FreeOf
<1>5. \A c : c \in TakenOf(Carve(B, b, at, size)) <=> c \in TakenOf(B) \/ c = p2
  BY <1>1, <1>2, <1>3, <1>4, Zenon DEF TakenOf, FreeOf
<1> QED
  BY <1>5 DEF p2, TakenWith

\* Giving back a block takes it, and no other, from the taken ones.
LEMMA GiveReleases ==
  ASSUME NEW B \in SUBSET Blk, NEW b \in TakenOf(B)
  PROVE  TakenOf(Give(B, b)) = TakenOf(B) \ {b}
<1> DEFINE f  == [b EXCEPT !.free = TRUE]
           B1 == (B \ {b}) \cup {f}
           F  == FreeOf(B1)
           heads == {c \in F : \A d \in F : BlockEnd(d) # c.offset}
           tails == {c \in F : \A d \in F : d.offset # BlockEnd(c)}
           runs  == {r \in heads \X tails :
                       /\ r[1].offset <= r[2].offset
                       /\ \A u \in tails : r[1].offset <= u.offset => r[2].offset <= u.offset}
           Merged(r) == Block(r[1].offset, BlockEnd(r[2]) - r[1].offset, TRUE)
<1>1. b \in Blk /\ ~b.free
  BY DEF TakenOf, FreeOf
<1>2. f.free
  BY <1>1 DEF Blk
<1>3. \A r : Merged(r).free = TRUE
  BY DEF Block
<1>4. Give(B, b) = TakenOf(B1) \cup {Merged(r) : r \in runs}
  BY DEF Give, Coalesce
<1> HIDE DEF f, runs, Merged
<1>5. \A c : c \in TakenOf(Give(B, b)) <=> c \in TakenOf(B1)
  BY <1>3, <1>4, Zenon DEF TakenOf, FreeOf
<1>6. \A c : c \in TakenOf(B1) <=> c \in TakenOf(B) /\ c # b
  BY <1>1, <1>2, Zenon DEF TakenOf, FreeOf
<1> QED
  BY <1>5, <1>6

\* In a tiling no two blocks start at the same address.
LEMMA OffsetsDiffer ==
  ASSUME NEW B \in SUBSET Blk, NEW lo, NEW hi, Tiles(B, lo, hi),
         NEW b \in B, NEW c \in B, b.offset = c.offset
  PROVE  b = c
<1>1. b \in Blk /\ c \in Blk
  OBVIOUS
<1>2. b.size > 0 /\ c.size > 0
      /\ (b = c \/ BlockEnd(b) <= c.offset \/ BlockEnd(c) <= b.offset)
  BY DEF Tiles
<1> QED
  BY <1>1, <1>2, SMT DEF Blk, BlockEnd

\* Addresses that no taken block holds lie in one free block.
LEMMA GapInOneBlock ==
  ASSUME NEW B \in SUBSET Blk, NEW lo \in Nat, NEW hi \in Nat, Tiles(B, lo, hi),
         NEW at \in lo..hi, NEW size \in Nat \ {0}, at + size <= hi,
         \A b \in TakenOf(B) : ~(b.offset < at + size /\ at < BlockEnd(b))
  PROVE  \E b \in FreeOf(B) : b.offset <= at /\ at + size <= BlockEnd(b)
<1>1. \A c \in B : /\ c.offset \in Nat /\ c.size \in Nat
                   /\ BlockEnd(c) = c.offset + c.size /\ BlockEnd(c) \in Nat
                   /\ c.size > 0 /\ lo <= c.offset /\ BlockEnd(c) <= hi
  <2> TAKE c \in B
  <2>1. c \in Blk
    OBVIOUS
  <2>2. c.size > 0 /\ lo <= c.offset /\ BlockEnd(c) <= hi
    BY DEF Tiles
  <2> QED
    BY <2>1, <2>2, SMT DEF Blk, BlockEnd
<1>2. at \in lo..(hi - 1) /\ at \in Int
  BY SMT
<1>3. PICK b \in B : b.offset <= at /\ at < BlockEnd(b)
  BY <1>2 DEF Tiles
<1>4. b \in FreeOf(B)
  <2>1. b.offset < at + size
    BY <1>1, <1>2, <1>3, SMT
  <2> QED
    BY <1>3, <2>1 DEF TakenOf
<1>5. at + size <= BlockEnd(b)
  <2> SUFFICES ASSUME ~(at + size <= BlockEnd(b)) PROVE FALSE
    OBVIOUS
  <2>1. BlockEnd(b) \in lo..(hi - 1)
    BY <1>1, <1>2, <1>3, SMT
  <2>2. PICK c \in B : c.offset <= BlockEnd(b) /\ BlockEnd(b) < BlockEnd(c)
    BY <2>1 DEF Tiles
  <2>3. b = c \/ BlockEnd(b) <= c.offset \/ BlockEnd(c) <= b.offset
    BY DEF Tiles
  <2>4. BlockEnd(b) = c.offset
    BY <1>1, <2>2, <2>3, SMT
  <2>5. c.offset < at + size /\ at < BlockEnd(c)
    BY <1>1, <1>2, <1>3, <2>2, <2>4, SMT
  <2>6. c \in FreeOf(B)
    BY <2>5 DEF TakenOf
  <2> QED
    BY <1>4, <2>4, <2>6 DEF Tiles
<1> QED
  BY <1>3, <1>4, <1>5
=============================================================================
