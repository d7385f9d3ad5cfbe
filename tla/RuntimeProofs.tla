---------------------------- MODULE RuntimeProofs ----------------------------
(***************************************************************************)
(* The two allocators of the runtime's Context, both over block lists, for *)
(* every memory size, alignment, set of requests, of kernels and of sizes. *)
(* Device memory: the lists stay tilings, a request is refused only when   *)
(* it fits nowhere, and the blocks in use are those of the live holders.   *)
(* Instruction memory: the cached programs stay in it word for word, and a *)
(* launch runs its own.  The components share no variable.                 *)
(***************************************************************************)
EXTENDS DeviceMemory, ProgramCache, NumbersAndBlocks, SequenceTheorems

-----------------------------------------------------------------------------
\* One more multiple of a is a further on.
LEMMA OneMore ==
  ASSUME NEW a \in Nat \ {0}, NEW q \in Nat
  PROVE  a * q \in Int /\ a * (q + 1) = a * q + a
  BY SMT

\* AlignUp gives the least multiple of the alignment from value on.
LEMMA AlignUpIsLeast ==
  ASSUME NEW value \in Nat, NEW a \in Nat \ {0}
  PROVE  /\ AlignUp(value, a) \in Nat
         /\ value <= AlignUp(value, a)
         /\ AlignUp(value, a) % a = 0
         /\ \A x \in Nat : x % a = 0 /\ value <= x => AlignUp(value, a) <= x
<1>1. PICK q \in Nat, r \in 0..(a - 1) : value = a * q + r /\ r = value % a
  BY Divided
<1> DEFINE m == IF r = 0 THEN q ELSE q + 1
           u == AlignUp(value, a)
<1>2. m \in Nat
  BY SMT
<1>3. /\ u \in Nat /\ value <= u /\ u < value + a /\ u = a * m
  <2>1. CASE r = 0
    BY <1>1, <2>1, SMT DEF AlignUp
  <2>2. CASE r # 0
    <3>1. u = value + (a - r) /\ m = q + 1
      BY <1>1, <2>2 DEF AlignUp
    <3> HIDE DEF u, m
    <3>2. a * q \in Int /\ a * (q + 1) = a * q + a
      BY OneMore, Zenon
    <3>3. value = a * q + r /\ u = value + (a - r)
      BY <1>1, <3>1
    <3> DEFINE aq == a * q
    <3> HIDE DEF aq
    <3>4. u = a * m
      <4>1. value = aq + r /\ u = value + (a - r) /\ a * m = aq + a /\ aq \in Int
        BY <3>1, <3>2, <3>3 DEF aq
      <4> QED
        BY <4>1, SMT
    <3>5. value <= u /\ u < value + a /\ u \in Nat
      BY <2>2, <3>1, SMT
    <3> QED
      BY <3>4, <3>5
  <2> QED
    BY <2>1, <2>2
<1> HIDE DEF u, m
<1>4. u % a = 0
  <2>1. 0 \in 0..(a - 1) /\ u = a * m + 0 /\ m \in Int
    BY <1>2, <1>3, SMT
  <2>2. 0 = u % a
    BY <2>1, <1>3, RemainderIsUnique
  <2> QED
    BY <2>2
<1>5. \A x \in Nat : x % a = 0 /\ value <= x => u <= x
  <2> SUFFICES ASSUME NEW x \in Nat, x % a = 0, value <= x, x < u PROVE FALSE
    BY <1>3, SMT
  <2>1. PICK p \in Nat, s \in 0..(a - 1) : x = a * p + s /\ s = x % a
    BY Divided
  <2>2. x = a * p
    BY <2>1, SMT
  <2>3. a * (m - p) = u - x
    BY <1>2, <1>3, <2>2, SMT
  <2>4. \A d \in Int : d <= 0 => a * d <= 0
    BY SMT
  <2>5. \A d \in Int : d >= 1 => a * d >= a
    BY SMT
  <2>6. m - p >= 1
    BY <1>2, <1>3, <2>3, <2>4, SMT
  <2>7. u - x >= a
    BY <1>2, <2>3, <2>5, <2>6, SMT
  <2> QED
    BY <2>7, <1>3, SMT
<1> QED
  BY <1>3, <1>4, <1>5 DEF u

\* The managed memory is not empty and ends in the word whose address the
\* kernels are given, at its beginning when the configuration is word sized.
LEMMA ManagedMemory ==
  /\ managed_end \in Nat /\ MemBase \in Nat /\ MemBase < managed_end
  /\ managed_end <= MemBase + MemSize
  /\ spill_word \in Nat /\ managed_end < 4 * (spill_word + 1)
  /\ WordSized => managed_end = 4 * spill_word
<1> USE DeviceMemoryAssumption
<1> DEFINE raw == Least(SpillBytes, Greatest(4, MemSize \div 8))
           k   == compiler_spill_size
<1>1. raw \in Nat
  <2>1. MemSize \div 8 \in Nat
    BY SMT
  <2> QED
    BY <2>1, SMT DEF Least, Greatest
<1> HIDE DEF raw
<1>2. k \in Nat /\ k % DefaultAlign = 0
  BY <1>1, AlignUpIsLeast DEF compiler_spill_size, raw
<1>3. ASSUME DefaultAlign % 4 = 0 PROVE k % 4 = 0
  <2> HIDE DEF k
  <2>1. PICK q \in Nat, r \in 0..(DefaultAlign - 1) : k = DefaultAlign * q + r /\ r = k % DefaultAlign
    BY <1>2, Divided
  <2>2. PICK p \in Nat, s \in 0..3 : DefaultAlign = 4 * p + s /\ s = DefaultAlign % 4
    <3>1. 4 \in Nat \ {0} /\ 4 - 1 = 3 /\ DefaultAlign \in Nat
      BY SMT
    <3> QED
      BY <3>1, Divided
  <2>3. k = (4 * p) * q
    BY <1>2, <1>3, <2>1, <2>2, SMT
  <2>4. p * q \in Nat /\ (4 * p) * q = 4 * (p * q)
    BY SMT
  <2>5. 4 \in Nat \ {0} /\ 0 \in 0..(4 - 1) /\ p * q \in Int /\ k = 4 * (p * q) + 0
    BY <1>2, <2>3, <2>4, SMT
  <2>6. 0 = k % 4
    BY <1>2, <2>5, RemainderIsUnique
  <2> QED
    BY <2>6
<1>4. k < MemSize
  BY RoomBesideSpill
<1>5. managed_end = MemBase + MemSize - k
  BY DEF managed_end
<1> HIDE DEF k
<1>6. managed_end \in Nat /\ MemBase < managed_end /\ managed_end <= MemBase + MemSize
  BY <1>2, <1>4, <1>5, SMT
<1>7. WordSized => managed_end % 4 = 0
  BY <1>2, <1>3, <1>5, <1>6, SMT DEF WordSized
<1>8. 4 * (managed_end \div 4) = managed_end - (managed_end % 4) /\ managed_end % 4 \in 0..3
      /\ managed_end \div 4 \in Nat
  <2>1. 4 \in Nat \ {0}
    BY SMT
  <2> QED
    BY <1>6, <2>1, QuotientAndRemainder, SMT
<1> QED
  BY <1>6, <1>7, <1>8, SMT DEF spill_word

-----------------------------------------------------------------------------
\* What a holder refers to, and the lists a Context can have: none (it was
\* moved from or destroyed) or a tiling of the managed memory.
Claim == [addr : MemBase..managed_end, size : 1..MemSize, context : Context]

ListsTile ==
  /\ \A c \in Context : blocks[c] = {} \/ Tiles(blocks[c], MemBase, managed_end)
  /\ connected => Tiles(blocks[context], MemBase, managed_end)

\* No holder refers to a Context object that does not exist yet.
HeldBefore == \A h \in Holder : Live(h) => held[h].context <= context

MemoryTypeInv ==
  /\ blocks \in [Context -> SUBSET Blk]
  /\ context \in Context /\ connected \in BOOLEAN
  /\ held \in [Holder -> {Nothing} \cup Claim]
  /\ refused \in Request \cup {NoRequest}

MemoryIInv == MemoryTypeInv /\ ListsTile /\ HeldBefore /\ RefusedOnlyWhenFull /\ HoldersOwnBlocks

\* No allocation is Nothing.
LEMMA ClaimIsSomething == Nothing \notin Claim
  BY DeviceMemoryAssumption, SMT DEF Nothing, Claim, Context

\* What a live holder refers to.
LEMMA LiveHolds ==
  ASSUME MemoryTypeInv, NEW h \in Holder, Live(h)
  PROVE  held[h] \in Claim /\ held[h].addr \in Nat /\ held[h].size \in Nat \ {0}
         /\ held[h].context \in Context
<1>1. held[h] \in Claim
  BY DEF MemoryTypeInv, Live
<1>2. MemBase \in Nat /\ managed_end \in Nat
  BY ManagedMemory
<1> QED
  BY <1>1, <1>2, SMT DEF Claim

\* device_free keeps every list: an empty one stays empty, a tiling a tiling.
LEMMA FreeKeepsLists ==
  ASSUME MemoryTypeInv, ListsTile, NEW c \in Context, NEW addr
  PROVE  LET new == device_free(c, addr)
         IN  /\ new \in [Context -> SUBSET Blk]
             /\ \A d \in Context :
                  /\ blocks[d] = {} => new[d] = {}
                  /\ Tiles(blocks[d], MemBase, managed_end) => Tiles(new[d], MemBase, managed_end)
<1> DEFINE found == {b \in TakenOf(blocks[c]) : b.offset = addr}
           new == device_free(c, addr)
<1>1. CASE found = {}
  BY <1>1 DEF device_free, MemoryTypeInv
<1>2. CASE found # {}
  <2>1. new = [blocks EXCEPT ![c] = Give(blocks[c], First(found))]
    BY <1>2 DEF device_free
  <2>2. blocks[c] \in SUBSET Blk /\ blocks \in [Context -> SUBSET Blk]
    BY DEF MemoryTypeInv
  <2>3. found \in SUBSET Blk
    BY <2>2 DEF TakenOf
  <2>4. First(found) \in TakenOf(blocks[c])
    BY <1>2, <2>3, FirstIsLowest
  <2>5. Tiles(blocks[c], MemBase, managed_end)
    BY <2>4 DEF ListsTile, TakenOf
  <2>6. Give(blocks[c], First(found)) \in SUBSET Blk
        /\ Tiles(Give(blocks[c], First(found)), MemBase, managed_end)
    BY <2>2, <2>4, <2>5, ManagedMemory, GiveTiles
  <2>7. blocks[c] # {}
    BY <2>4 DEF TakenOf
  <2> HIDE DEF found, new
  <2> QED
    BY <2>1, <2>2, <2>6, <2>7 DEF new
<1> QED
  BY <1>1, <1>2

\* A request that fits is served from a free block of the Context's list.
LEMMA MallocFits ==
  ASSUME MemoryTypeInv, ListsTile, connected, NEW r \in Request,
         FittingBlocks(blocks[context], AlignUp(r.size, r.align), r.align) # {}
  PROVE  LET B    == blocks[context]
             size == AlignUp(r.size, r.align)
             b    == First(FittingBlocks(B, size, r.align))
             at   == AlignUp(b.offset, r.align)
         IN  /\ b \in FreeOf(B) /\ at \in Nat /\ size \in Nat \ {0}
             /\ b.offset <= at /\ at + size <= BlockEnd(b)
             /\ B \in SUBSET Blk /\ Tiles(B, MemBase, managed_end)
             /\ [addr |-> at, size |-> size, context |-> context] \in Claim
<1> DEFINE B    == blocks[context]
           size == AlignUp(r.size, r.align)
           fits == FittingBlocks(B, size, r.align)
           b    == First(fits)
           at   == AlignUp(b.offset, r.align)
<1>1. r.size \in Nat \ {0} /\ r.align \in Nat \ {0}
  BY DeviceMemoryAssumption
<1>2. size \in Nat \ {0}
  <2>1. AlignUp(r.size, r.align) \in Nat /\ r.size <= AlignUp(r.size, r.align)
    BY <1>1, AlignUpIsLeast
  <2> QED
    BY <1>1, <2>1, SMT
<1>3. B \in SUBSET Blk /\ Tiles(B, MemBase, managed_end)
  BY DEF MemoryTypeInv, ListsTile
<1> HIDE DEF B, size
<1>4. fits \in SUBSET Blk
  BY <1>3 DEF FittingBlocks, FreeOf
<1>5. b \in fits
  <2>1. fits # {}
    BY DEF B, size
  <2> HIDE DEF fits
  <2> QED
    BY <1>4, <2>1, FirstIsLowest
<1>6. b \in FreeOf(B) /\ at + size <= BlockEnd(b)
  BY <1>5 DEF FittingBlocks
<1> HIDE DEF fits, b
<1>7. b \in B /\ b \in Blk /\ b.offset \in Nat
  BY <1>3, <1>6 DEF FreeOf, Blk
<1>8. at \in Nat /\ b.offset <= at
  BY <1>1, <1>7, AlignUpIsLeast
<1>9. [addr |-> at, size |-> size, context |-> context] \in Claim
  <2>1. MemBase <= b.offset /\ BlockEnd(b) <= managed_end
    BY <1>3, <1>7 DEF Tiles
  <2>2. BlockEnd(b) \in Nat /\ MemSize \in Nat
    BY <1>7, DeviceMemoryAssumption, SMT DEF Blk, BlockEnd
  <2>3. MemBase \in Nat /\ managed_end \in Nat /\ managed_end <= MemBase + MemSize
    BY ManagedMemory
  <2> HIDE DEF at
  <2>4. at \in MemBase..managed_end /\ size \in 1..MemSize
    BY <1>2, <1>6, <1>7, <1>8, <2>1, <2>2, <2>3, SMT
  <2>5. context \in Context
    BY DEF MemoryTypeInv
  <2> QED
    BY <2>4, <2>5 DEF Claim
<1> QED
  BY <1>2, <1>3, <1>6, <1>8, <1>9 DEF B, size, fits, b

-----------------------------------------------------------------------------
\* The new Context's lists satisfy the invariant.
LEMMA InitMemoryIInv == MemoryInit => MemoryIInv
<1> SUFFICES ASSUME MemoryInit PROVE MemoryIInv
  OBVIOUS
<1>1. NewBlocks \in SUBSET Blk /\ Tiles(NewBlocks, MemBase, managed_end) /\ TakenOf(NewBlocks) = {}
  BY ManagedMemory, OneBlockTiles DEF NewBlocks
<1>2. 1 \in Context
  BY DeviceMemoryAssumption, SMT DEF Context
<1>3. \A h \in Holder : ~Live(h)
  BY DEF MemoryInit, Live
<1>4. MemoryTypeInv
  BY <1>1, <1>2 DEF MemoryInit, MemoryTypeInv
<1>5. ListsTile
  BY <1>1, <1>2 DEF MemoryInit, ListsTile
<1>6. RefusedOnlyWhenFull
  BY DEF MemoryInit, RefusedOnlyWhenFull
<1>7. blocks[context] = NewBlocks
  BY <1>2 DEF MemoryInit
<1>8. HoldersOwnBlocks
  BY <1>1, <1>3, <1>7 DEF HoldersOwnBlocks
<1> QED
  BY <1>3, <1>4, <1>5, <1>6, <1>8 DEF MemoryIInv, HeldBefore

\* The lists stay tilings, and what the holders refer to is an allocation of a
\* Context made before.
LEMMA StepLists ==
  ASSUME MemoryTypeInv, ListsTile, HeldBefore, [MemoryNext]_memoryVars
  PROVE  MemoryTypeInv' /\ ListsTile' /\ HeldBefore'
<1> USE DEF MemoryTypeInv, ListsTile, HeldBefore, Live
<1>1. ASSUME NEW h \in Holder, NEW r \in Request, device_malloc(h, r)
      PROVE  MemoryTypeInv' /\ ListsTile' /\ HeldBefore'
  <2> DEFINE B    == blocks[context]
             size == AlignUp(r.size, r.align)
             fits == FittingBlocks(B, size, r.align)
             b    == First(fits)
             at   == AlignUp(b.offset, r.align)
             C    == Carve(B, b, at, size)
             cl   == [addr |-> at, size |-> size, context |-> context]
  <2>1. CASE fits = {}
    BY <1>1, <2>1 DEF device_malloc
  <2>2. CASE fits # {}
    <3>1. /\ connected
          /\ blocks' = [blocks EXCEPT ![context] = C]
          /\ held' = [held EXCEPT ![h] = cl]
          /\ refused' = NoRequest /\ UNCHANGED <<context, connected>>
      BY <1>1, <2>2 DEF device_malloc
    <3>2. /\ b \in FreeOf(B) /\ at \in Nat /\ size \in Nat \ {0}
          /\ b.offset <= at /\ at + size <= BlockEnd(b)
          /\ B \in SUBSET Blk /\ Tiles(B, MemBase, managed_end)
          /\ cl \in Claim
      BY <2>2, <3>1, MallocFits
    <3>3. cl.context = context
      OBVIOUS
    <3> HIDE DEF size, fits, b, at, cl
    <3>4. C \in SUBSET Blk /\ Tiles(C, MemBase, managed_end)
      BY <3>2, ManagedMemory, CarveTiles
    <3> HIDE DEF C, B
    <3>5. MemoryTypeInv'
      BY <3>1, <3>2, <3>4
    <3>6. ListsTile'
      BY <3>1, <3>4
    <3>7. HeldBefore'
      <4> SUFFICES ASSUME NEW g \in Holder, held'[g] # Nothing PROVE held'[g].context <= context
        BY <3>1
      <4>1. CASE g = h
        <5>1. context <= context
          BY DeviceMemoryAssumption, SMT DEF Context
        <5> QED
          BY <4>1, <5>1, <3>1, <3>3
      <4>2. CASE g # h
        BY <4>2, <3>1
      <4> QED
        BY <4>1, <4>2
    <3> QED
      BY <3>5, <3>6, <3>7
  <2> QED
    BY <2>1, <2>2
<1>2. ASSUME NEW h \in Holder, reset(h)
      PROVE  MemoryTypeInv' /\ ListsTile' /\ HeldBefore'
  <2>1. FreedIn(h) \in Context
    BY <1>2, LiveHolds DEF reset, FreedIn
  <2>2. CASE blocks' = blocks
    BY <1>2, <2>2 DEF reset
  <2>3. CASE blocks' = device_free(FreedIn(h), held[h].addr)
    <3>1. /\ blocks' \in [Context -> SUBSET Blk]
          /\ \A d \in Context :
               /\ blocks[d] = {} => blocks'[d] = {}
               /\ Tiles(blocks[d], MemBase, managed_end) => Tiles(blocks'[d], MemBase, managed_end)
      BY <2>1, <2>3, FreeKeepsLists
    <3>2. held' = [held EXCEPT ![h] = Nothing] /\ refused' = NoRequest
          /\ UNCHANGED <<context, connected>>
      BY <1>2 DEF reset
    <3> QED
      BY <3>1, <3>2
  <2> QED
    BY <1>2, <2>2, <2>3 DEF reset
<1>3. ASSUME NEW h \in Buffer, NEW g \in Buffer, move_assign(h, g)
      PROVE  MemoryTypeInv' /\ ListsTile' /\ HeldBefore'
  <2>0. h \in Holder /\ g \in Holder
    BY DEF Holder
  <2>1. /\ blocks' \in [Context -> SUBSET Blk]
        /\ \A d \in Context :
             /\ blocks[d] = {} => blocks'[d] = {}
             /\ Tiles(blocks[d], MemBase, managed_end) => Tiles(blocks'[d], MemBase, managed_end)
    <3>1. CASE Live(h)
      <4>1. held[h].context \in Context
        BY <2>0, <3>1, LiveHolds
      <4>2. blocks' = device_free(held[h].context, held[h].addr)
        BY <1>3, <3>1 DEF move_assign
      <4> QED
        BY <4>1, <4>2, FreeKeepsLists
    <3>2. CASE ~Live(h)
      BY <1>3, <3>2 DEF move_assign
    <3> QED
      BY <3>1, <3>2
  <2>2. held' = [held EXCEPT ![h] = held[g], ![g] = Nothing] /\ refused' = NoRequest
        /\ UNCHANGED <<context, connected>> /\ h # g
    BY <1>3 DEF move_assign
  <2>3. MemoryTypeInv' /\ ListsTile'
    BY <2>0, <2>1, <2>2
  <2>4. HeldBefore'
    BY <2>0, <2>2
  <2> QED
    BY <2>3, <2>4
<1>4. ASSUME MoveContext
      PROVE  MemoryTypeInv' /\ ListsTile' /\ HeldBefore'
  <2>1. /\ connected /\ context' = context + 1
        /\ blocks' = [blocks EXCEPT ![context] = {}, ![context + 1] = blocks[context]]
        /\ refused' = NoRequest /\ UNCHANGED <<connected, held>>
    BY <1>4 DEF MoveContext
  <2>2. context + 1 \in Context /\ context + 1 # context
    BY <1>4, DeviceMemoryAssumption, SMT DEF MoveContext, Context
  <2>3. MemoryTypeInv' /\ ListsTile'
    BY <2>1, <2>2
  <2>4. HeldBefore'
    <3> SUFFICES ASSUME NEW g \in Holder, held[g] # Nothing PROVE held[g].context <= context + 1
      BY <2>1
    <3>1. held[g].context \in Context /\ held[g].context <= context
      BY LiveHolds
    <3> QED
      BY <3>1, SMT DEF Context
  <2> QED
    BY <2>3, <2>4
<1>5. ASSUME disconnect
      PROVE  MemoryTypeInv' /\ ListsTile' /\ HeldBefore'
  BY <1>5 DEF disconnect
<1>6. ASSUME connect
      PROVE  MemoryTypeInv' /\ ListsTile' /\ HeldBefore'
  <2>1. /\ context' = context + 1 /\ connected' = TRUE
        /\ blocks' = [blocks EXCEPT ![context + 1] = NewBlocks]
        /\ refused' = NoRequest /\ UNCHANGED held
    BY <1>6 DEF connect
  <2>2. context + 1 \in Context
    BY <1>6, DeviceMemoryAssumption, SMT DEF connect, Context
  <2>3. NewBlocks \in SUBSET Blk /\ Tiles(NewBlocks, MemBase, managed_end)
    BY ManagedMemory, OneBlockTiles DEF NewBlocks
  <2>4. MemoryTypeInv' /\ ListsTile'
    BY <2>1, <2>2, <2>3
  <2>5. HeldBefore'
    <3> SUFFICES ASSUME NEW g \in Holder, held[g] # Nothing PROVE held[g].context <= context + 1
      BY <2>1
    <3>1. held[g].context \in Context /\ held[g].context <= context
      BY LiveHolds
    <3> QED
      BY <3>1, SMT DEF Context
  <2> QED
    BY <2>4, <2>5
<1>7. CASE UNCHANGED memoryVars
  BY <1>7 DEF memoryVars
<1> QED
  BY <1>1, <1>2, <1>3, <1>4, <1>5, <1>6, <1>7 DEF MemoryNext

\* A request is refused only when the list has no room for it, and the list is
\* still the same then.
LEMMA StepRefused ==
  ASSUME MemoryIInv, [MemoryNext]_memoryVars
  PROVE  RefusedOnlyWhenFull'
<1>1. CASE refused' = NoRequest
  BY <1>1 DEF RefusedOnlyWhenFull
<1>2. ASSUME NEW h \in Holder, NEW r \in Request, device_malloc(h, r), refused' # NoRequest
      PROVE  RefusedOnlyWhenFull'
  <2> DEFINE B    == blocks[context]
             size == AlignUp(r.size, r.align)
  <2>1. /\ refused' = r /\ UNCHANGED <<blocks, context>> /\ connected
        /\ FittingBlocks(B, size, r.align) = {}
    BY <1>2 DEF device_malloc
  <2>2. B \in SUBSET Blk /\ Tiles(B, MemBase, managed_end)
    BY <2>1 DEF MemoryIInv, MemoryTypeInv, ListsTile
  <2>3. r.size \in Nat \ {0} /\ r.align \in Nat \ {0}
    BY DeviceMemoryAssumption
  <2>4. size \in Nat \ {0}
    <3>1. AlignUp(r.size, r.align) \in Nat /\ r.size <= AlignUp(r.size, r.align)
      BY <2>3, AlignUpIsLeast
    <3> QED
      BY <2>3, <3>1, SMT
  <2>5. ASSUME NEW at \in MemBase..managed_end, at % r.align = 0, at + size <= managed_end,
               ~ \E b \in TakenOf(B) : b.offset < at + size /\ at < BlockEnd(b)
        PROVE  FALSE
    <3> HIDE DEF B, size
    <3>0. /\ MemBase \in Nat /\ managed_end \in Nat /\ at + size <= managed_end
          /\ \A b \in TakenOf(B) : ~(b.offset < at + size /\ at < BlockEnd(b))
      BY <2>5, ManagedMemory
    <3>1. PICK b \in FreeOf(B) : b.offset <= at /\ at + size <= BlockEnd(b)
      BY <2>2, <2>4, <3>0, GapInOneBlock
    <3>2. b \in Blk /\ b.offset \in Nat
      BY <2>2 DEF FreeOf, Blk
    <3>3. at \in Nat /\ BlockEnd(b) \in Nat
      BY <3>2, ManagedMemory, SMT DEF Blk, BlockEnd
    <3>4. AlignUp(b.offset, r.align) \in Nat /\ AlignUp(b.offset, r.align) <= at
      BY <2>3, <2>5, <3>1, <3>2, <3>3, AlignUpIsLeast
    <3>5. AlignUp(b.offset, r.align) + size <= BlockEnd(b)
      BY <2>4, <3>1, <3>3, <3>4, SMT
    <3> QED
      BY <2>1, <3>5 DEF FittingBlocks
  <2> QED
    BY <2>1, <2>5 DEF RefusedOnlyWhenFull
<1>3. CASE UNCHANGED memoryVars
  BY <1>3 DEF memoryVars, MemoryIInv, RefusedOnlyWhenFull
<1> QED
  BY <1>1, <1>2, <1>3 DEF MemoryNext, reset, move_assign, MoveContext, disconnect, connect

\* The blocks that a set of holders refers to, as HoldersOwnBlocks lists them.
Owned == {Block(held[h].addr, held[h].size, FALSE) : h \in {g \in Holder : Live(g)}}
OwnedOnce == \A h, g \in Holder :
               (Live(h) /\ Live(g) /\ held[h].addr = held[g].addr) => h = g

\* In the first Context, a live holder's block is on the list, and freeing its
\* address takes exactly that block from the taken ones.
LEMMA FreeTakesOwn ==
  ASSUME MemoryIInv, context = 1, connected, NEW h \in Holder, Live(h)
  PROVE  LET own == Block(held[h].addr, held[h].size, FALSE)
         IN  /\ held[h].context = 1
             /\ TakenOf(device_free(1, held[h].addr)[1]) = TakenOf(blocks[1]) \ {own}
<1> DEFINE own == Block(held[h].addr, held[h].size, FALSE)
           found == {b \in TakenOf(blocks[1]) : b.offset = held[h].addr}
<1> USE DEF MemoryIInv
<1>1. 1 \in Context /\ blocks \in [Context -> SUBSET Blk]
      /\ Tiles(blocks[1], MemBase, managed_end)
  BY DEF MemoryTypeInv, ListsTile
<1>2. held[h].context = 1
  <2>1. held[h].context \in Context /\ held[h].context <= 1
    BY LiveHolds DEF HeldBefore
  <2> QED
    BY <2>1, SMT DEF Context
<1>3. own \in TakenOf(blocks[1]) /\ own.offset = held[h].addr
  BY DEF HoldersOwnBlocks, Block
<1>4. \A b \in found : b = own
  <2> TAKE b \in found
  <2>1. b \in blocks[1] /\ own \in blocks[1] /\ b.offset = own.offset
    BY <1>3 DEF TakenOf
  <2>2. blocks[1] \in SUBSET Blk
    BY <1>1
  <2> HIDE DEF own, found
  <2> QED
    BY <1>1, <2>1, <2>2, OffsetsDiffer
<1>5. found = {own}
  BY <1>3, <1>4
<1>6. First(found) = own
  <2>1. found \in SUBSET Blk /\ found # {}
    BY <1>1, <1>5 DEF TakenOf
  <2> HIDE DEF own, found
  <2> QED
    BY <1>5, <2>1, FirstIsLowest
<1>7. device_free(1, held[h].addr) = [blocks EXCEPT ![1] = Give(blocks[1], own)]
  <2>1. found # {}
    BY <1>5
  <2> QED
    BY <1>6, <2>1 DEF device_free
<1> HIDE DEF own, found
<1>8. TakenOf(Give(blocks[1], own)) = TakenOf(blocks[1]) \ {own}
  BY <1>1, <1>3, GiveReleases
<1>9. device_free(1, held[h].addr)[1] = Give(blocks[1], own)
  BY <1>1, <1>7
<1> QED
  BY <1>2, <1>8, <1>9 DEF own

\* In the first Context the blocks in use stay those of the live holders.
LEMMA StepOwners ==
  ASSUME MemoryIInv, [MemoryNext]_memoryVars
  PROVE  HoldersOwnBlocks'
<1> SUFFICES ASSUME context' = 1, connected'
             PROVE  TakenOf(blocks'[1]) = Owned' /\ OwnedOnce'
  BY DEF HoldersOwnBlocks, Owned, OwnedOnce
<1>1. HoldersOwnBlocks /\ MemoryTypeInv /\ ListsTile
  BY DEF MemoryIInv
<1>2. /\ context \in Nat /\ 1 \in Context
  <2>1. context \in Context
    BY <1>1 DEF MemoryTypeInv
  <2> QED
    BY <2>1, DeviceMemoryAssumption, SMT DEF Context
\* A moved or new Context is not the first.
<1>3. ~MoveContext /\ ~disconnect /\ ~connect
  <2>1. context + 1 # 1 \/ context \notin Context
    BY SMT DEF Context
  <2> QED
    BY <2>1, <1>1 DEF MoveContext, disconnect, connect, MemoryTypeInv
<1>4. context = 1 /\ connected
  BY <1>3 DEF MemoryNext, device_malloc, reset, move_assign, memoryVars
<1>5. /\ TakenOf(blocks[1]) = Owned /\ OwnedOnce
      /\ blocks[1] \in SUBSET Blk /\ Tiles(blocks[1], MemBase, managed_end)
      /\ blocks \in [Context -> SUBSET Blk]
      /\ held \in [Holder -> {Nothing} \cup Claim]
  BY <1>1, <1>2, <1>4 DEF HoldersOwnBlocks, Owned, OwnedOnce, MemoryTypeInv, ListsTile
\* Taking over another holder's allocation, or freeing one's own.
<1>6. \A h, g \in Holder :
        (Live(h) /\ Live(g) /\ Block(held[h].addr, held[h].size, FALSE)
                               = Block(held[g].addr, held[g].size, FALSE)) => h = g
  <2>1. \A a, n : Block(a, n, FALSE).offset = a
    BY DEF Block
  <2> TAKE h, g \in Holder
  <2> HAVE Live(h) /\ Live(g) /\ Block(held[h].addr, held[h].size, FALSE)
                                 = Block(held[g].addr, held[g].size, FALSE)
  <2>2. held[h].addr = held[g].addr
    <3> DEFINE x == Block(held[h].addr, held[h].size, FALSE)
               y == Block(held[g].addr, held[g].size, FALSE)
    <3>1. x.offset = held[h].addr /\ y.offset = held[g].addr /\ x = y
      BY <2>1
    <3> HIDE DEF x, y
    <3> QED
      BY <3>1
  <2> QED
    BY <1>5, <2>2 DEF OwnedOnce
<1> DEFINE BlockOf(u) == Block(u.addr, u.size, FALSE)
<1>11. \A x : x \in Owned <=> \E k \in Holder : held[k] # Nothing /\ x = BlockOf(held[k])
  BY Zenon DEF Owned, Live
<1>12. \A x : x \in Owned' <=> \E k \in Holder : held'[k] # Nothing /\ x = BlockOf(held'[k])
  BY Zenon DEF Owned, Live
<1>13. \A h, g \in Holder :
         held[h] # Nothing /\ held[g] # Nothing /\ BlockOf(held[h]) = BlockOf(held[g]) => h = g
  BY <1>6, Zenon DEF Live
<1> HIDE DEF BlockOf
<1>7. ASSUME NEW h \in Holder, NEW r \in Request, device_malloc(h, r)
      PROVE  TakenOf(blocks'[1]) = Owned' /\ OwnedOnce'
  <2> DEFINE B    == blocks[context]
             size == AlignUp(r.size, r.align)
             fits == FittingBlocks(B, size, r.align)
             b    == First(fits)
             at   == AlignUp(b.offset, r.align)
             cl   == [addr |-> at, size |-> size, context |-> context]
  <2>1. CASE fits = {}
    <3>1. UNCHANGED <<blocks, held>>
      BY <1>7, <2>1 DEF device_malloc
    <3> QED
      BY <1>5, <3>1 DEF Owned, OwnedOnce, Live
  <2>2. CASE fits # {}
    <3>1. /\ ~Live(h)
          /\ blocks' = [blocks EXCEPT ![context] = Carve(B, b, at, size)]
          /\ held' = [held EXCEPT ![h] = cl]
      BY <1>7, <2>2 DEF device_malloc
    <3>2. /\ b \in FreeOf(B) /\ at \in Nat /\ size \in Nat \ {0}
          /\ b.offset <= at /\ at + size <= BlockEnd(b)
          /\ cl \in Claim
      BY <1>1, <1>4, <2>2, MallocFits
    <3>3. B = blocks[1] /\ cl.addr = at /\ cl.size = size /\ cl # Nothing
      BY <1>4, <3>2, ClaimIsSomething
    <3> HIDE DEF B, size, fits, b, at, cl
    <3>4. TakenOf(blocks'[1]) = TakenOf(blocks[1]) \cup {Block(at, size, FALSE)}
      <4>1. blocks'[1] = Carve(B, b, at, size)
        BY <1>2, <1>4, <1>5, <3>1
      <4>2. TakenOf(Carve(B, b, at, size)) = TakenWith(B, Block(at, size, FALSE))
        BY <3>2, CarveTakes
      <4> QED
        BY <3>3, <4>1, <4>2 DEF TakenWith
    <3>5. /\ held'[h] = cl
          /\ \A g \in Holder : g # h => held'[g] = held[g]
      BY <1>5, <3>1
    <3>6. TakenOf(blocks'[1]) = Owned'
      <4>1. \A x : x \in Owned' <=> x \in Owned \/ x = Block(at, size, FALSE)
        BY <3>1, <3>3, <3>5, Zenon DEF Owned, Live
      <4> QED
        BY <1>5, <3>4, <4>1
    <3>7. \A g \in Holder : Live(g) => held[g].addr # at
      <4> SUFFICES ASSUME NEW g \in Holder, Live(g), held[g].addr = at PROVE FALSE
        OBVIOUS
      <4> DEFINE x == Block(held[g].addr, held[g].size, FALSE)
      <4>1. x \in TakenOf(blocks[1]) /\ x.offset = at
        BY <1>5 DEF Owned, Block
      <4> HIDE DEF x
      <4>2. /\ x \in blocks[1] /\ b \in blocks[1] /\ x # b /\ x \in Blk /\ b \in Blk
        BY <1>5, <3>2, <3>3, <4>1 DEF TakenOf, FreeOf
      <4>3. x.size > 0 /\ (BlockEnd(x) <= b.offset \/ BlockEnd(b) <= x.offset)
        BY <1>5, <4>2 DEF Tiles
      <4> QED
        BY <3>2, <4>1, <4>2, <4>3, SMT DEF Blk, BlockEnd
    <3>8. OwnedOnce'
      <4> SUFFICES ASSUME NEW g \in Holder, NEW k \in Holder,
                          Live(g)', Live(k)', held'[g].addr = held'[k].addr
                   PROVE  g = k
        BY DEF OwnedOnce
      <4>1. CASE g # h /\ k # h
        BY <1>5, <3>5, <4>1 DEF OwnedOnce, Live
      <4>2. CASE g = h /\ k # h
        BY <3>3, <3>5, <3>7, <4>2 DEF Live
      <4>3. CASE g # h /\ k = h
        BY <3>3, <3>5, <3>7, <4>3 DEF Live
      <4> QED
        BY <4>1, <4>2, <4>3
    <3> QED
      BY <3>6, <3>8
  <2> QED
    BY <2>1, <2>2
<1>8. ASSUME NEW h \in Holder, reset(h)
      PROVE  TakenOf(blocks'[1]) = Owned' /\ OwnedOnce'
  <2> DEFINE own == Block(held[h].addr, held[h].size, FALSE)
  <2>1. Live(h) /\ held' = [held EXCEPT ![h] = Nothing]
    BY <1>8 DEF reset
  <2>2. /\ held[h].context = 1
        /\ TakenOf(device_free(1, held[h].addr)[1]) = TakenOf(blocks[1]) \ {own}
    BY <1>4, <2>1, FreeTakesOwn
  <2>3. blocks' = device_free(1, held[h].addr)
    <3>1. FreedIn(h) = 1
      BY <1>4, <2>2 DEF FreedIn
    <3> QED
      BY <1>4, <1>8, <3>1 DEF reset
  <2>4. held'[h] = Nothing /\ \A g \in Holder : g # h => held'[g] = held[g]
    BY <1>5, <2>1
  <2>5. \A x : x \in Owned' <=> x \in Owned /\ x # own
    <3>1. own = BlockOf(held[h]) /\ held[h] # Nothing
      BY <2>1 DEF BlockOf, Live
    <3> HIDE DEF own
    <3>2. ASSUME NEW x, x \in Owned' PROVE x \in Owned /\ x # own
      <4>1. PICK k \in Holder : held'[k] # Nothing /\ x = BlockOf(held'[k])
        BY <1>12, <3>2
      <4> QED
        BY <4>1, <1>11, <1>13, <2>4, <3>1
    <3>3. ASSUME NEW x, x \in Owned, x # own PROVE x \in Owned'
      <4>1. PICK k \in Holder : held[k] # Nothing /\ x = BlockOf(held[k])
        BY <1>11, <3>3
      <4> QED
        BY <4>1, <1>12, <2>4, <3>1, <3>3
    <3> QED
      BY <3>2, <3>3
  <2>6. OwnedOnce'
    BY <1>5, <2>4 DEF OwnedOnce, Live
  <2> QED
    BY <1>5, <2>2, <2>3, <2>5, <2>6
<1>9. ASSUME NEW h \in Buffer, NEW g \in Buffer, move_assign(h, g)
      PROVE  TakenOf(blocks'[1]) = Owned' /\ OwnedOnce'
  <2> DEFINE own == Block(held[h].addr, held[h].size, FALSE)
  <2>0. h \in Holder /\ g \in Holder
    BY DEF Holder
  <2>1. h # g /\ held' = [held EXCEPT ![h] = held[g], ![g] = Nothing]
    BY <1>9 DEF move_assign
  <2>2. held'[h] = held[g] /\ held'[g] = Nothing
        /\ \A k \in Holder : k # h /\ k # g => held'[k] = held[k]
    BY <1>5, <2>0, <2>1
  <2>3. OwnedOnce'
    BY <1>5, <2>0, <2>1, <2>2 DEF OwnedOnce, Live
  <2>4. CASE Live(h)
    <3>1. /\ held[h].context = 1
          /\ TakenOf(device_free(1, held[h].addr)[1]) = TakenOf(blocks[1]) \ {own}
      BY <1>4, <2>0, <2>4, FreeTakesOwn
    <3>2. blocks' = device_free(1, held[h].addr)
      BY <1>9, <2>4, <3>1 DEF move_assign
    <3>3. \A x : x \in Owned' <=> x \in Owned /\ x # own
      <4>1. own = BlockOf(held[h]) /\ held[h] # Nothing
        BY <2>4 DEF BlockOf, Live
      <4> HIDE DEF own
      <4>2. ASSUME NEW x, x \in Owned' PROVE x \in Owned /\ x # own
        <5>1. PICK k \in Holder : held'[k] # Nothing /\ x = BlockOf(held'[k])
          BY <1>12, <4>2
        <5>2. CASE k = h
          BY <5>1, <5>2, <1>11, <1>13, <2>0, <2>1, <2>2, <4>1
        <5>3. CASE k # h
          BY <5>1, <5>3, <1>11, <1>13, <2>0, <2>1, <2>2, <4>1
        <5> QED
          BY <5>2, <5>3
      <4>3. ASSUME NEW x, x \in Owned, x # own PROVE x \in Owned'
        <5>1. PICK k \in Holder : held[k] # Nothing /\ x = BlockOf(held[k])
          BY <1>11, <4>3
        <5>2. k # h
          BY <5>1, <4>1, <4>3
        <5>3. CASE k = g
          BY <5>1, <5>3, <1>12, <2>0, <2>2
        <5>4. CASE k # g
          BY <5>1, <5>2, <5>4, <1>12, <2>2
        <5> QED
          BY <5>3, <5>4
      <4> QED
        BY <4>2, <4>3
    <3> QED
      BY <1>5, <2>3, <3>1, <3>2, <3>3
  <2>5. CASE ~Live(h)
    <3>1. blocks' = blocks
      BY <1>9, <2>5 DEF move_assign
    <3>2. \A x : x \in Owned' <=> x \in Owned
      BY <2>0, <2>1, <2>2, <2>5, Zenon DEF Owned, Live
    <3> QED
      BY <1>5, <2>3, <3>1, <3>2
  <2> QED
    BY <2>4, <2>5
<1>10. CASE UNCHANGED memoryVars
  BY <1>5, <1>10 DEF memoryVars, Owned, OwnedOnce, Live
<1> QED
  BY <1>3, <1>7, <1>8, <1>9, <1>10 DEF MemoryNext

-----------------------------------------------------------------------------
\* The inductive invariant: types, the lists of every Context, and the two
\* safety properties that are inductive beside them.
THEOREM MemoryInductive == MemorySpec => []MemoryIInv
<1>1. MemoryIInv /\ [MemoryNext]_memoryVars => MemoryIInv'
  BY StepLists, StepRefused, StepOwners DEF MemoryIInv
<1> QED
  BY InitMemoryIInv, <1>1, PTL DEF MemorySpec

\* Every list holds records of the code's type and every handle an allocation
\* inside the managed memory.
THEOREM TypesCorrect == MemorySpec => []TypeOK
<1>1. MemoryIInv => TypeOK
  BY DEF MemoryIInv, MemoryTypeInv, TypeOK, Blk, Claim
<1> QED
  BY MemoryInductive, <1>1, PTL

\* The list of the Context in use cuts the memory up to the spill area into
\* disjoint blocks, and no two free ones are neighbours; no allocation reaches
\* into the spill area when the configuration is word sized, and none beyond
\* its first word whatever the configuration.
THEOREM ListsStayTilings == MemorySpec => []BlocksTile
<1>1. ASSUME MemoryIInv PROVE BlocksTile
  <2> SUFFICES ASSUME connected PROVE BlocksTile
    BY DEF BlocksTile
  <2>1. Tiles(blocks[context], MemBase, managed_end) /\ blocks[context] \in SUBSET Blk
    BY <1>1 DEF MemoryIInv, MemoryTypeInv, ListsTile
  <2>2. ASSUME NEW b \in TakenOf(blocks[context])
        PROVE  BlockEnd(b) \in Nat /\ BlockEnd(b) <= managed_end
    <3>1. b \in blocks[context] /\ b \in Blk
      BY <2>1 DEF TakenOf
    <3>2. BlockEnd(b) \in Nat
      BY <3>1 DEF Blk, BlockEnd
    <3> QED
      BY <2>1, <3>1, <3>2 DEF Tiles
  <2>3. ASSUME NEW b \in TakenOf(blocks[context])
        PROVE  (WordSized => BlockEnd(b) <= 4 * spill_word) /\ BlockEnd(b) < 4 * (spill_word + 1)
    BY <2>2, ManagedMemory, SMT
  <2> QED
    BY <2>1, <2>3 DEF BlocksTile
<1> QED
  BY MemoryInductive, <1>1, PTL

\* First fit with coalescing never refuses a request that could be placed
\* somewhere among the allocations made.
THEOREM NoFalseRefusal == MemorySpec => []RefusedOnlyWhenFull
<1>1. MemoryIInv => RefusedOnlyWhenFull
  BY DEF MemoryIInv
<1> QED
  BY MemoryInductive, <1>1, PTL

\* Nothing leaks and nothing is freed under its holder, as long as the first
\* Context lasts.
THEOREM NoLeakNoTheft == MemorySpec => []HoldersOwnBlocks
<1>1. MemoryIInv => HoldersOwnBlocks
  BY DEF MemoryIInv
<1> QED
  BY MemoryInductive, <1>1, PTL


CacheEntry == [id : {a.id : a \in Artifact}, addr : Nat, size : Nat \ {0},
               last_used : Nat, program : Program]
Call == [name : Name, art : Artifact, at : Nat]

CacheTypeInv ==
  /\ kernels \in [Name -> Artifact]
  /\ programBlocks \in SUBSET Blk
  /\ cache \in SUBSET CacheEntry
  /\ clock \in Nat
  /\ pc # "idle" => call \in Call
  /\ \A e \in cache : e.size = Size[e.program]

\* The artifact being loaded is not resident; its slot, once found, is in use
\* and no entry has it; and after the upload it holds the program.
LoadInv ==
  /\ pc \in {"allocate", "write", "validate"} =>
       \A e \in cache : e.id # call.art.id
  /\ pc \in {"write", "validate"} =>
       /\ Block(call.at, Needed, FALSE) \in programBlocks
       /\ \A e \in cache : e.addr # call.at
  /\ pc = "validate" /\ gate = "load" =>
       Slot(call.at, Needed) = WordsOf(call.art.program)

\* Under a cache name that was not registered again the cache knows only the
\* program that is registered, and the slot a launch uses holds it unless a
\* reset lost it.
KnownInv ==
  /\ \A n \in Name : kernels[n] = Builtin[n] \/ kernels[n].id \in replaced
  /\ \A e \in cache : e.id \in replaced \/ \E n \in Name : e.id = Builtin[n].id /\ e.program = Builtin[n].program
  /\ pc # "idle" => call.art.id \in replaced \/ \E n \in Name : call.art = Builtin[n]
  /\ pc \in {"allocate", "write", "validate", "launch"} => ran = NoRun
  /\ lost \subseteq CachedIds
  /\ pc = "launch" =>
       /\ call.art.id \in CachedIds
       /\ call.art.id \in replaced \cup lost \/ Slot(call.at, Needed) = WordsOf(call.art.program)

CacheIInv == CacheTypeInv /\ LoadInv /\ KnownInv /\ ResidentIntact /\ RunsIntended

-----------------------------------------------------------------------------
\* The sizes and names of the artifacts.
LEMMA ArtifactSize ==
  ASSUME NEW a \in Artifact
  PROVE  a.program \in Program /\ Size[a.program] \in Nat \ {0}
         /\ a.id \in {b.id : b \in Artifact}
  BY ProgramCacheAssumption

\* The words of a program, and those of its first part.
LEMMA WordsLength ==
  ASSUME NEW p \in Program
  PROVE  /\ DOMAIN WordsOf(p) = 1..Size[p] /\ Len(WordsOf(p)) = Size[p]
         /\ \A n \in 0..Size[p] : DOMAIN SubSeq(WordsOf(p), 1, n) = 1..n
         /\ \E W : WordsOf(p) \in Seq(W)
<1> DEFINE W == {[program |-> p, index |-> i] : i \in 1..Size[p]}
           w == WordsOf(p)
<1>1. Size[p] \in Nat \ {0}
  BY ProgramCacheAssumption
<1>2. w = [i \in 1..Size[p] |-> [program |-> p, index |-> i]]
  BY DEF WordsOf
<1>3. w \in [1..Size[p] -> W] /\ DOMAIN w = 1..Size[p]
  BY <1>2
<1> HIDE DEF w, W
<1>4. w \in Seq(W)
  BY <1>1, <1>3, SMT
<1>5. Len(w) = Size[p]
  BY <1>1, <1>3, <1>4, SMT
<1>6. ASSUME NEW n \in 0..Size[p] PROVE DOMAIN SubSeq(w, 1, n) = 1..n
  <2>1. \A i \in 1..n : w[i] \in W
    BY <1>1, <1>3, SMT
  <2>2. n \in Int /\ 1 \in Int
    BY SMT
  <2>3. /\ SubSeq(w, 1, n) \in Seq(W)
        /\ Len(SubSeq(w, 1, n)) = IF 1 <= n THEN n - 1 + 1 ELSE 0
    BY <2>1, <2>2, SubSeqProperties
  <2>4. Len(SubSeq(w, 1, n)) = n
    BY <1>1, <2>3, SMT
  <2> QED
    BY <2>3, <2>4, LenProperties
<1> QED
  BY <1>3, <1>4, <1>5, <1>6 DEF w

\* An upload to one slot leaves the other slots alone.
LEMMA OtherSlotsKept ==
  ASSUME programBlocks \in SUBSET Blk, Tiles(programBlocks, 0, ImemWords),
         NEW a \in Nat, NEW n \in Nat, Block(a, n, FALSE) \in programBlocks,
         call.at \in Nat, NEW k \in Nat, Block(call.at, k, FALSE) \in programBlocks,
         a # call.at,
         NEW words, DOMAIN words \subseteq 1..k, imem' = Stored(words)
  PROVE  Slot(a, n)' = Slot(a, n)
<1> DEFINE b == Block(a, n, FALSE)
           c == Block(call.at, k, FALSE)
<1>1. /\ b.offset = a /\ BlockEnd(b) = a + n /\ b.size = n
      /\ c.offset = call.at /\ BlockEnd(c) = call.at + k /\ c.size = k
  BY DEF Block, BlockEnd
<1>2. /\ b = c \/ BlockEnd(b) <= c.offset \/ BlockEnd(c) <= b.offset
      /\ BlockEnd(b) <= ImemWords
  BY DEF Tiles
<1> HIDE DEF b, c
<1>3. a + n <= call.at \/ call.at + k <= a
  BY <1>1, <1>2
<1>4. a + n <= ImemWords /\ ImemWords \in Nat
  BY <1>1, <1>2, ProgramCacheAssumption
<1>5. \A i \in 1..n : imem'[a + i - 1] = imem[a + i - 1]
  <2> TAKE i \in 1..n
  <2>1. a + i - 1 \in Addr
    BY <1>4, SMT DEF Addr
  <2>2. (a + i - 1) - call.at + 1 \notin 1..k
    BY <1>3, SMT
  <2> QED
    BY <2>1, <2>2 DEF Stored
<1> QED
  BY <1>5 DEF Slot

\* A whole upload puts the program into the slot.
LEMMA UploadFillsSlot ==
  ASSUME programBlocks \in SUBSET Blk, Tiles(programBlocks, 0, ImemWords),
         call.at \in Nat, call.art.program \in Program,
         Block(call.at, Needed, FALSE) \in programBlocks,
         imem' = Stored(WordsOf(call.art.program))
  PROVE  \A at, n : at = call.at /\ n = Needed =>
           [i \in 1..n |-> imem'[at + i - 1]] = WordsOf(call.art.program)
<1> DEFINE p == call.art.program
           c == Block(call.at, Needed, FALSE)
<1>1. Needed = Size[p] /\ Size[p] \in Nat \ {0}
  BY ProgramCacheAssumption DEF Needed
<1>2. c.offset = call.at /\ BlockEnd(c) = call.at + Needed
  BY DEF Block, BlockEnd
<1>3. BlockEnd(c) <= ImemWords
  BY DEF Tiles
<1> HIDE DEF c
<1>4. call.at + Size[p] <= ImemWords /\ ImemWords \in Nat
  BY <1>1, <1>2, <1>3, ProgramCacheAssumption
<1>5. DOMAIN WordsOf(p) = 1..Size[p]
  BY WordsLength
<1>6. \A i \in 1..Size[p] : imem'[call.at + i - 1] = WordsOf(p)[i]
  <2> TAKE i \in 1..Size[p]
  <2>1. call.at + i - 1 \in Addr
    BY <1>1, <1>4, SMT DEF Addr
  <2>2. (call.at + i - 1) - call.at + 1 = i
    BY <1>1, SMT
  <2> QED
    BY <1>5, <2>1, <2>2 DEF Stored
<1>7. WordsOf(p) = [i \in 1..Size[p] |-> WordsOf(p)[i]]
  BY DEF WordsOf
<1> QED
  BY <1>1, <1>6, <1>7

-----------------------------------------------------------------------------
\* An empty cache and an idle host satisfy the invariant.
LEMMA InitCacheIInv == Init => CacheIInv
<1> SUFFICES ASSUME Init PROVE CacheIInv
  OBVIOUS
<1>1. kernels \in [Name -> Artifact]
  BY ProgramCacheAssumption DEF Init, Artifact
<1>2. programBlocks \in SUBSET Blk /\ Tiles(programBlocks, 0, ImemWords)
  <2>1. 0 \in Nat /\ ImemWords \in Nat /\ 0 < ImemWords /\ ImemWords - 0 = ImemWords
    BY ProgramCacheAssumption, SMT
  <2> QED
    BY <2>1, OneBlockTiles DEF Init
<1>3. CacheTypeInv
  BY <1>1, <1>2 DEF Init, CacheTypeInv
<1>4. LoadInv /\ KnownInv
  BY DEF Init, LoadInv, KnownInv, CachedIds
<1>5. ResidentIntact
  BY <1>2 DEF Init, ResidentIntact, CacheBacked
<1>6. RunsIntended
  BY DEF Init, NoRun, RunsIntended, RunsRegistered
<1> QED
  BY <1>3, <1>4, <1>5, <1>6 DEF CacheIInv

\* The steps that leave the lists, the instruction memory and the register of
\* past faults alone: the pc moves on, or the call returns.
LEMMA QuietStep ==
  ASSUME CacheIInv, UNCHANGED <<kernels, programBlocks, cache, clock, imem, upset>>,
         \/ pc' = "idle"
         \/ pc' = pc /\ call' = call /\ gate' = gate /\ ran' = ran
         \/ pc = "launch" /\ pc' = "wait" /\ call' = call,
         ran' = ran \/ (ran' = [call |-> call, words |-> Slot(call.at, Needed)] /\ pc = "launch")
  PROVE  CacheIInv'
<1> USE DEF CacheIInv, upset
<1>1. CacheTypeInv'
  BY DEF CacheTypeInv
<1>2. LoadInv'
  BY DEF LoadInv, Needed, Slot
<1>3. KnownInv'
  BY DEF KnownInv, Needed, Slot, CachedIds
<1>4. ResidentIntact'
  BY DEF ResidentIntact, CacheBacked, Slot
<1>5. RunsIntended'
  <2> SUFFICES ASSUME ran'.call.art.id \notin replaced' \cup lost', ran'.words # << >>
               PROVE  ran'.words = WordsOf(ran'.call.art.program)
    BY DEF RunsIntended, RunsRegistered
  <2>2. CASE ran' = ran
    BY <2>2 DEF RunsIntended, RunsRegistered
  <2>3. CASE ran' = [call |-> call, words |-> Slot(call.at, Needed)] /\ pc = "launch"
    BY <2>3 DEF KnownInv
  <2> QED
    BY <2>2, <2>3
<1> QED
  BY <1>1, <1>2, <1>3, <1>4, <1>5

\* A new call starts with nothing launched.
LEMMA NothingRan ==
  ASSUME ran' = NoRun
  PROVE  RunsIntended'
  BY DEF NoRun, RunsIntended, RunsRegistered

\* A hit: the entry found is the registered artifact, and only the time of its
\* last use changes.
LEMMA HitStep ==
  ASSUME CacheIInv, NEW n \in Name, Hit(n)
  PROVE  CacheIInv'
<1> USE DEF CacheIInv
<1>1. PICK e \in cache :
        /\ e.id = kernels[n].id
        /\ cache' = (cache \ {e}) \cup {[e EXCEPT !.last_used = clock + 1]}
        /\ call' = [name |-> n, art |-> kernels[n], at |-> e.addr]
  BY DEF Hit
<1>2. /\ pc = "idle" /\ pc' = "launch" /\ clock' = clock + 1 /\ ran' = NoRun
      /\ UNCHANGED <<kernels, programBlocks, imem, upset>>
  BY DEF Hit, device
<1> DEFINE f == [e EXCEPT !.last_used = clock + 1]
<1>3. e \in CacheEntry /\ clock + 1 \in Nat /\ kernels[n] \in Artifact
  BY SMT DEF CacheTypeInv
<1>4. f \in CacheEntry
  BY <1>3 DEF CacheEntry
<1>5. f.id = e.id /\ f.addr = e.addr /\ f.size = e.size /\ f.program = e.program
  BY <1>3 DEF CacheEntry
<1>6. cache' = (cache \ {e}) \cup {f}
  BY <1>1
<1> HIDE DEF f
<1>7. call'.name = n /\ call'.art = kernels[n] /\ call'.at = e.addr
  BY <1>1
<1>8. e.addr \in Nat
  BY <1>3 DEF CacheEntry
<1>9. CacheTypeInv'
  <2>1. call' \in Call
    BY <1>1, <1>3, <1>8 DEF Call
  <2> QED
    BY <1>2, <1>3, <1>4, <1>5, <1>6, <2>1 DEF CacheTypeInv
<1>10. LoadInv'
  BY <1>2 DEF LoadInv
<1>13. CachedIds' = CachedIds
  <2>1. \A g \in cache' : \E k \in cache : g.id = k.id
    BY <1>5, <1>6
  <2>2. \A k \in cache : \E g \in cache' : g.id = k.id
    BY <1>5, <1>6
  <2> QED
    BY <2>1, <2>2 DEF CachedIds
<1>11. KnownInv'
  <2>1. \A m \in Name : kernels'[m] = Builtin[m] \/ kernels'[m].id \in replaced'
    BY <1>2 DEF KnownInv, upset
  <2>2. \A g \in cache' : g.id \in replaced' \/ \E m \in Name : g.id = Builtin[m].id /\ g.program = Builtin[m].program
    BY <1>2, <1>5, <1>6 DEF KnownInv, upset
  <2>3. call'.art.id \in replaced' \/ \E m \in Name : call'.art = Builtin[m]
    BY <1>2, <1>7 DEF KnownInv, upset
  <2>4. call'.art.id \in CachedIds' /\ lost' \subseteq CachedIds'
    BY <1>1, <1>2, <1>7, <1>13 DEF CachedIds, KnownInv, upset
  <2>5. ASSUME call'.art.id \notin replaced' \cup lost'
        PROVE  Slot(call.at, Needed)' = WordsOf(call'.art.program)
    <3>1. e.id \notin replaced /\ e.id \notin lost /\ kernels[n] = Builtin[n]
      BY <1>1, <1>2, <1>7, <2>5 DEF KnownInv, upset
    <3>2. PICK m \in Name : e.id = Builtin[m].id /\ e.program = Builtin[m].program
      BY <3>1 DEF KnownInv
    <3>3. Builtin[m] = Builtin[n]
      BY <1>1, <3>1, <3>2, IdNamesProgram
    <3>4. e.program = kernels[n].program
      BY <3>1, <3>2, <3>3
    <3>5. Slot(e.addr, e.size) = WordsOf(e.program) /\ e.size = Size[e.program]
      BY <3>1 DEF ResidentIntact, CacheTypeInv
    <3>6. Needed' = e.size
      BY <1>7, <3>4, <3>5 DEF Needed
    <3>7. Slot(call.at, Needed)' = Slot(e.addr, e.size)
      BY <1>2, <1>7, <3>6 DEF Slot
    <3> QED
      BY <1>7, <3>4, <3>5, <3>7
  <2> QED
    BY <1>2, <2>1, <2>2, <2>3, <2>4, <2>5 DEF KnownInv
<1>12. ResidentIntact'
  <2>1. CacheBacked'
    <3>1. \A g \in cache : Block(g.addr, g.size, FALSE) \in programBlocks
      BY DEF ResidentIntact, CacheBacked
    <3>2. \A g, k \in cache : g = k \/ (g.id # k.id /\ g.addr # k.addr)
      BY DEF ResidentIntact, CacheBacked
    <3>3. \A g \in cache' : Block(g.addr, g.size, FALSE) \in programBlocks
      BY <1>5, <1>6, <3>1
    <3>4. ASSUME NEW g \in cache', NEW k \in cache', g # k
          PROVE  g.id # k.id /\ g.addr # k.addr
      <4>1. CASE g # f /\ k # f
        BY <1>6, <3>2, <3>4, <4>1
      <4>2. CASE g = f
        <5>1. k \in cache /\ k # e
          BY <1>6, <3>4, <4>2
        <5> QED
          BY <1>5, <3>2, <4>2, <5>1
      <4>3. CASE k = f
        <5>1. g \in cache /\ g # e
          BY <1>6, <3>4, <4>3
        <5> QED
          BY <1>5, <3>2, <4>3, <5>1
      <4> QED
        BY <4>1, <4>2, <4>3
    <3>5. Tiles(programBlocks', 0, ImemWords)
      BY <1>2 DEF ResidentIntact, CacheBacked
    <3> QED
      BY <1>2, <3>3, <3>4, <3>5 DEF CacheBacked
  <2>2. ASSUME NEW g \in cache', g.id \notin lost'
        PROVE  Slot(g.addr, g.size)' = WordsOf(g.program)
    BY <1>2, <1>5, <1>6, <2>2 DEF ResidentIntact, Slot, upset
  <2> QED
    BY <2>1, <2>2 DEF ResidentIntact
<1> QED
  BY <1>2, <1>9, <1>10, <1>11, <1>12, NothingRan

\* A miss: no entry has the artifact's cache name.
LEMMA MissStep ==
  ASSUME CacheIInv, NEW n \in Name, Miss(n)
  PROVE  CacheIInv'
<1> USE DEF CacheIInv
<1>1. /\ pc = "idle" /\ \A e \in cache : e.id # kernels[n].id
      /\ ran' = NoRun
      /\ UNCHANGED <<kernels, programBlocks, cache, clock, imem, upset>>
  BY DEF Miss, device
<1>2. RunsIntended'
  BY <1>1, NothingRan
<1>3. ResidentIntact'
  BY <1>1 DEF ResidentIntact, CacheBacked, Slot, upset
<1>4. CASE pc' = "idle"
  BY <1>1, <1>2, <1>3, <1>4 DEF CacheTypeInv, LoadInv, KnownInv, CachedIds, upset
<1>5. CASE pc' = "allocate" /\ call' = [name |-> n, art |-> kernels[n], at |-> 0]
  <2>1. call' \in Call /\ call'.art = kernels[n]
    BY <1>5, SMT DEF CacheTypeInv, Call
  <2>2. CacheTypeInv'
    BY <1>1, <2>1 DEF CacheTypeInv
  <2>3. LoadInv'
    BY <1>1, <1>5, <2>1 DEF LoadInv
  <2>4. KnownInv'
    BY <1>1, <1>5, <2>1 DEF KnownInv, CachedIds, upset
  <2> QED
    BY <1>2, <1>3, <2>2, <2>3, <2>4
<1> QED
  BY <1>4, <1>5 DEF Miss, Returns

\* A slot is found: it is carved out of a free block, so no entry has it.
LEMMA PlaceStep ==
  ASSUME CacheIInv, Place
  PROVE  CacheIInv'
<1> USE DEF CacheIInv
<1> DEFINE b == First(FittingPrograms)
<1>1. /\ pc = "allocate" /\ pc' = "write" /\ FittingPrograms # {}
      /\ programBlocks' = Carve(programBlocks, b, b.offset, Needed)
      /\ call' = [call EXCEPT !.at = b.offset]
      /\ UNCHANGED <<kernels, cache, clock, imem, ran, upset>>
  BY DEF Place, device
<1>2. /\ programBlocks \in SUBSET Blk /\ Tiles(programBlocks, 0, ImemWords) /\ call \in Call
      /\ 0 \in Nat /\ ImemWords \in Nat
  BY <1>1, ProgramCacheAssumption DEF CacheTypeInv, ResidentIntact, CacheBacked
<1>3. Needed \in Nat \ {0}
  BY <1>2, ArtifactSize DEF Call, Needed
<1>4. b \in FreeOf(programBlocks) /\ b.size >= Needed
  <2>1. FittingPrograms \in SUBSET Blk
    BY <1>2 DEF FittingPrograms, FreeOf
  <2>2. b \in FittingPrograms
    BY <1>1, <2>1, FirstIsLowest
  <2> QED
    BY <2>2 DEF FittingPrograms
<1> HIDE DEF b
<1>5. b \in programBlocks /\ b.free /\ b.offset \in Nat /\ b.size \in Nat
      /\ BlockEnd(b) = b.offset + b.size
  BY <1>2, <1>4 DEF FreeOf, Blk, BlockEnd
<1>6. b.offset <= b.offset /\ b.offset + Needed <= BlockEnd(b)
  BY <1>3, <1>4, <1>5, SMT
<1>7. programBlocks' \in SUBSET Blk /\ Tiles(programBlocks', 0, ImemWords)
  BY <1>1, <1>2, <1>3, <1>4, <1>5, <1>6, CarveTiles
<1>8. TakenOf(programBlocks') = TakenOf(programBlocks) \cup {Block(b.offset, Needed, FALSE)}
  <2>1. TakenOf(Carve(programBlocks, b, b.offset, Needed))
          = TakenWith(programBlocks, Block(b.offset, Needed, FALSE))
    BY <1>3, <1>4, CarveTakes
  <2> QED
    BY <1>1, <2>1 DEF TakenWith
<1>9. call' \in Call /\ call'.at = b.offset /\ call'.art = call.art
  BY <1>1, <1>2, <1>5 DEF Call
<1>10. Needed' = Needed
  BY <1>9 DEF Needed
<1>11. \A e \in cache : e.addr # b.offset /\ Block(e.addr, e.size, FALSE) \in TakenOf(programBlocks)
  <2> TAKE e \in cache
  <2> DEFINE c == Block(e.addr, e.size, FALSE)
  <2>1. c \in programBlocks /\ c.offset = e.addr /\ c.free = FALSE
    BY DEF ResidentIntact, CacheBacked, Block
  <2> HIDE DEF c
  <2>2. c.offset # b.offset
    BY <1>2, <1>5, <2>1, OffsetsDiffer
  <2> QED
    BY <2>1, <2>2 DEF c, TakenOf, FreeOf
<1>12. CacheTypeInv'
  BY <1>1, <1>7, <1>9 DEF CacheTypeInv
<1>13. LoadInv'
  <2>1. Block(call'.at, Needed', FALSE) \in programBlocks'
    BY <1>8, <1>9, <1>10 DEF TakenOf
  <2> QED
    BY <1>1, <1>9, <1>11, <2>1 DEF LoadInv
<1>14. KnownInv'
  BY <1>1, <1>9 DEF KnownInv, CachedIds, upset
<1>15. ResidentIntact'
  <2>1. CacheBacked'
    BY <1>1, <1>7, <1>8, <1>11 DEF ResidentIntact, CacheBacked, TakenOf
  <2> QED
    BY <1>1, <2>1 DEF ResidentIntact, Slot, upset
<1>16. RunsIntended'
  BY <1>1 DEF RunsIntended, RunsRegistered, upset
<1> QED
  BY <1>12, <1>13, <1>14, <1>15, <1>16

\* A cache that is not empty has an entry whose last use is longest ago.
LEMMA OldestExists ==
  ASSUME CacheTypeInv, cache # {}
  PROVE  \E e \in cache : \A f \in cache : e.last_used <= f.last_used
<1> DEFINE times == {e.last_used : e \in cache}
<1>1. times \in SUBSET Nat /\ times # {}
  BY DEF CacheTypeInv, CacheEntry
<1> HIDE DEF times
<1>2. PICK t \in times : \A u \in times : t <= u
  BY <1>1, LeastNumber
<1> QED
  BY <1>2 DEF times

\* An eviction: the entry used longest ago goes with its block.
LEMMA EvictStep ==
  ASSUME CacheIInv, Evict
  PROVE  CacheIInv'
<1> USE DEF CacheIInv
<1> DEFINE victim == CHOOSE e \in cache : \A f \in cache : e.last_used <= f.last_used
           block  == Block(victim.addr, victim.size, FALSE)
<1>1. /\ pc = "allocate" /\ cache # {}
      /\ cache' = cache \ {victim}
      /\ programBlocks' = IF block \in programBlocks THEN Give(programBlocks, block) ELSE programBlocks
      /\ lost' = lost \ {victim.id}
      /\ UNCHANGED <<kernels, clock, pc, call, imem, gate, ran, replaced>>
  BY DEF Evict, device
<1>2. victim \in cache
  <2>1. \E e \in cache : \A f \in cache : e.last_used <= f.last_used
    BY <1>1, OldestExists
  <2> QED
    BY <2>1
<1> HIDE DEF victim
<1>3. block.free = FALSE /\ block.offset = victim.addr
  BY DEF Block
<1>4. block \in TakenOf(programBlocks)
  <2>1. block \in programBlocks
    BY <1>2 DEF ResidentIntact, CacheBacked
  <2> HIDE DEF block
  <2> QED
    BY <1>3, <2>1 DEF TakenOf, FreeOf
<1> HIDE DEF block
<1>5. programBlocks \in SUBSET Blk /\ Tiles(programBlocks, 0, ImemWords) /\ 0 \in Nat /\ ImemWords \in Nat
  BY ProgramCacheAssumption DEF CacheTypeInv, ResidentIntact, CacheBacked
<1>6. programBlocks' = Give(programBlocks, block)
  BY <1>1, <1>4 DEF TakenOf
<1>7. Give(programBlocks, block) \in SUBSET Blk /\ Tiles(Give(programBlocks, block), 0, ImemWords)
  BY <1>4, <1>5, GiveTiles
<1>8. TakenOf(Give(programBlocks, block)) = TakenOf(programBlocks) \ {block}
  BY <1>4, <1>5, GiveReleases
<1>9. CacheTypeInv'
  BY <1>1, <1>6, <1>7 DEF CacheTypeInv
<1>10. LoadInv'
  BY <1>1 DEF LoadInv
<1>11. KnownInv'
  <2>1. lost' \subseteq CachedIds'
    BY <1>1 DEF KnownInv, CachedIds
  <2> QED
    BY <1>1, <2>1 DEF KnownInv
<1>12. CacheBacked'
  <2>1. ASSUME NEW e \in cache' PROVE Block(e.addr, e.size, FALSE) \in programBlocks'
    <3> DEFINE c == Block(e.addr, e.size, FALSE)
    <3>1. c \in programBlocks /\ c.free = FALSE /\ c.offset = e.addr
      BY <1>1 DEF ResidentIntact, CacheBacked, Block
    <3>2. e.addr # victim.addr
      BY <1>1, <1>2 DEF ResidentIntact, CacheBacked
    <3> HIDE DEF c
    <3>3. c \in TakenOf(programBlocks) /\ c # block
      BY <1>3, <3>1, <3>2 DEF TakenOf, FreeOf
    <3>4. c \in TakenOf(Give(programBlocks, block))
      BY <1>8, <3>3
    <3> QED
      BY <1>6, <3>4 DEF c, TakenOf
  <2>2. \A e, f \in cache' : e = f \/ (e.id # f.id /\ e.addr # f.addr)
    BY <1>1 DEF ResidentIntact, CacheBacked
  <2> QED
    BY <1>6, <1>7, <2>1, <2>2 DEF CacheBacked
<1>13. ResidentIntact'
  <2>1. ASSUME NEW e \in cache', e.id \notin lost' PROVE e \in cache /\ e.id \notin lost
    BY <1>1, <1>2, <2>1 DEF ResidentIntact, CacheBacked
  <2> QED
    BY <1>1, <1>12, <2>1 DEF ResidentIntact, Slot
<1>14. RunsIntended'
  <2>1. ran = NoRun
    BY <1>1 DEF KnownInv
  <2> QED
    BY <1>1, <2>1, NothingRan
<1> QED
  BY <1>9, <1>10, <1>11, <1>13, <1>14

\* An upload, whole or not, leaves every resident program as it is.
LEMMA UploadKeepsResidents ==
  ASSUME CacheIInv, pc = "write", NEW words, DOMAIN words \subseteq 1..Needed,
         imem' = Stored(words) \/ imem' = imem,
         UNCHANGED <<programBlocks, cache, upset>>
  PROVE  ResidentIntact'
<1> USE DEF CacheIInv
<1>1. CacheBacked /\ CacheBacked'
  BY DEF ResidentIntact, CacheBacked
<1>2. ASSUME NEW e \in cache
      PROVE  Slot(e.addr, e.size)' = Slot(e.addr, e.size)
  <2>1. CASE imem' = imem
    BY <2>1 DEF Slot
  <2>2. CASE imem' = Stored(words)
    <3>1. /\ programBlocks \in SUBSET Blk /\ Tiles(programBlocks, 0, ImemWords)
          /\ e.addr \in Nat /\ e.size \in Nat
          /\ Block(e.addr, e.size, FALSE) \in programBlocks
      BY <1>1 DEF CacheTypeInv, CacheEntry, CacheBacked
    <3>2. call.at \in Nat /\ Needed \in Nat
      BY ArtifactSize DEF CacheTypeInv, Call, Needed
    <3>3. Block(call.at, Needed, FALSE) \in programBlocks /\ e.addr # call.at
      BY DEF LoadInv
    <3>4. Needed \in Nat /\ DOMAIN words \subseteq 1..Needed
      BY <3>2
    <3> HIDE DEF CacheIInv
    <3> QED
      BY <2>2, <3>1, <3>2, <3>3, OtherSlotsKept
  <2> QED
    BY <2>1, <2>2
<1> QED
  BY <1>1, <1>2 DEF ResidentIntact, upset

\* A whole upload: the slot now holds the program.
LEMMA WriteStep ==
  ASSUME CacheIInv, Write \/ WriteRepeated
  PROVE  CacheIInv'
<1> DEFINE words == WordsOf(call.art.program)
<1>1. /\ pc = "write" /\ pc' = "validate" /\ imem' = Stored(words)
      /\ UNCHANGED <<kernels, programBlocks, cache, clock, call, ran, upset>>
  BY DEF Write, WriteRepeated
<1>2. /\ programBlocks \in SUBSET Blk /\ Tiles(programBlocks, 0, ImemWords) /\ call \in Call
      /\ Block(call.at, Needed, FALSE) \in programBlocks
  BY <1>1 DEF CacheIInv, CacheTypeInv, LoadInv, ResidentIntact, CacheBacked
<1>3. call.at \in Nat /\ call.art.program \in Program
  BY <1>2, ArtifactSize DEF Call
<1>4. DOMAIN words \subseteq 1..Needed
  BY <1>3, WordsLength DEF Needed
<1>5. Slot(call.at, Needed)' = words
  <2>1. Slot(call.at, Needed)' = [i \in 1..Needed |-> imem'[call.at + i - 1]]
    BY <1>1 DEF Slot, Needed
  <2>2. [i \in 1..Needed |-> imem'[call.at + i - 1]] = words
    BY <1>1, <1>2, <1>3, UploadFillsSlot
  <2> QED
    BY <2>1, <2>2
<1>6. ResidentIntact'
  <2> HIDE DEF words
  <2> QED
    BY <1>1, <1>4, UploadKeepsResidents
<1>7. CacheTypeInv'
  BY <1>1 DEF CacheIInv, CacheTypeInv
<1>8. LoadInv'
  BY <1>1, <1>5 DEF CacheIInv, LoadInv, Needed
<1>9. KnownInv'
  BY <1>1 DEF CacheIInv, KnownInv, CachedIds, upset
<1>10. RunsIntended'
  BY <1>1 DEF CacheIInv, RunsIntended, RunsRegistered, upset
<1> QED
  BY <1>6, <1>7, <1>8, <1>9, <1>10 DEF CacheIInv

\* A failed upload: its slot is lost, nothing else.
LEMMA WriteFailsStep ==
  ASSUME CacheIInv, WriteFails
  PROVE  CacheIInv'
<1> DEFINE words == WordsOf(call.art.program)
<1>1. /\ pc = "write" /\ pc' = "idle" /\ FailedWrite
      /\ UNCHANGED <<kernels, programBlocks, cache, clock, ran, upset>>
  BY DEF WriteFails, Returns
<1>2. call.art.program \in Program
  BY <1>1, ArtifactSize DEF CacheIInv, CacheTypeInv, Call
<1>3. PICK sent \in 0..Len(words) :
        imem' = Stored(SubSeq(words, 1, sent)) \/ imem' = imem
  BY <1>1 DEF FailedWrite
<1>4. DOMAIN SubSeq(words, 1, sent) = 1..sent /\ sent <= Needed /\ sent \in Nat /\ Needed \in Nat
  <2>1. Len(words) = Size[call.art.program]
        /\ \A n \in 0..Size[call.art.program] : DOMAIN SubSeq(words, 1, n) = 1..n
    BY <1>2, WordsLength
  <2>2. Size[call.art.program] \in Nat \ {0}
    BY <1>2, ProgramCacheAssumption
  <2> HIDE DEF words
  <2> QED
    BY <2>1, <2>2, SMT DEF Needed
<1>5. ResidentIntact'
  <2> DEFINE part == SubSeq(words, 1, sent)
  <2>1. DOMAIN part \subseteq 1..Needed
    BY <1>4, SMT
  <2>2. imem' = Stored(part) \/ imem' = imem
    BY <1>3
  <2> HIDE DEF part
  <2> QED
    BY <1>1, <2>1, <2>2, UploadKeepsResidents
<1>6. CacheTypeInv'
  BY <1>1 DEF CacheIInv, CacheTypeInv
<1>7. LoadInv'
  BY <1>1 DEF CacheIInv, LoadInv
<1>8. KnownInv'
  BY <1>1 DEF CacheIInv, KnownInv, CachedIds, upset
<1>9. RunsIntended'
  BY <1>1 DEF CacheIInv, RunsIntended, RunsRegistered, upset
<1> QED
  BY <1>5, <1>6, <1>7, <1>8, <1>9 DEF CacheIInv

\* A verified program becomes resident.
LEMMA ValidateStep ==
  ASSUME CacheIInv, Validate
  PROVE  CacheIInv'
<1> USE DEF CacheIInv
<1>1. /\ pc = "validate" /\ pc' = "launch" /\ gate = "load"
      /\ cache' = cache \cup {Entry} /\ clock' = clock + 1
      /\ UNCHANGED <<kernels, programBlocks, call, imem, ran, upset>>
  BY DEF Validate, Matches
<1>2. /\ Entry.id = call.art.id /\ Entry.addr = call.at /\ Entry.size = Needed
      /\ Entry.program = call.art.program
  BY DEF Entry
<1>3. call \in Call /\ call.at \in Nat /\ call.art \in Artifact /\ Needed = Size[call.art.program]
  BY <1>1 DEF CacheTypeInv, Call, Needed
<1>4. Entry \in CacheEntry /\ clock + 1 \in Nat
  <2>1. clock + 1 \in Nat
    BY SMT DEF CacheTypeInv
  <2> QED
    BY <1>3, <2>1, ArtifactSize DEF Entry, CacheEntry
<1>5. \A e \in cache : e.id # call.art.id /\ e.addr # call.at
  BY <1>1 DEF LoadInv
<1>6. Slot(call.at, Needed) = WordsOf(call.art.program)
  BY <1>1 DEF LoadInv
<1>7. CacheTypeInv'
  BY <1>1, <1>2, <1>3, <1>4 DEF CacheTypeInv
<1>8. LoadInv'
  BY <1>1 DEF LoadInv
<1> DEFINE E == Entry
<1> HIDE DEF E
<1>9. /\ cache' = cache \cup {E} /\ E.id = call.art.id /\ E.addr = call.at /\ E.size = Needed
      /\ E.program = call.art.program
  BY <1>1, <1>2 DEF E
<1>10. KnownInv'
  <2>1. \A e \in cache' : e.id \in replaced' \/ \E n \in Name : e.id = Builtin[n].id /\ e.program = Builtin[n].program
    <3>1. call.art.id \in replaced \/ \E n \in Name : call.art = Builtin[n]
      BY <1>1 DEF KnownInv
    <3> QED
      BY <1>1, <1>9, <3>1 DEF KnownInv, upset
  <2>2. call.art.id \in CachedIds' /\ lost' \subseteq CachedIds'
    BY <1>1, <1>9 DEF KnownInv, CachedIds, upset
  <2>3. Slot(call.at, Needed)' = WordsOf(call.art.program)
    BY <1>1, <1>6 DEF Slot, Needed
  <2> QED
    BY <1>1, <2>1, <2>2, <2>3 DEF KnownInv, upset
<1>11. CacheBacked'
  <2>1. \A e \in cache' : Block(e.addr, e.size, FALSE) \in programBlocks'
    BY <1>1, <1>9 DEF ResidentIntact, CacheBacked, LoadInv
  <2>2. \A e, f \in cache' : e = f \/ (e.id # f.id /\ e.addr # f.addr)
    BY <1>5, <1>9 DEF ResidentIntact, CacheBacked
  <2>3. Tiles(programBlocks', 0, ImemWords)
    BY <1>1 DEF ResidentIntact, CacheBacked
  <2> QED
    BY <2>1, <2>2, <2>3 DEF CacheBacked
<1>12. ResidentIntact'
  <2> SUFFICES ASSUME NEW e \in cache', e.id \notin lost'
               PROVE  Slot(e.addr, e.size)' = WordsOf(e.program)
    BY <1>11 DEF ResidentIntact
  <2>1. e.id \notin lost /\ \A at, n : Slot(at, n)' = Slot(at, n)
    BY <1>1 DEF Slot, upset
  <2>2. CASE e = E
    BY <1>6, <1>9, <2>1, <2>2
  <2>3. CASE e \in cache
    BY <2>1, <2>3 DEF ResidentIntact
  <2> QED
    BY <1>9, <2>2, <2>3
<1>13. RunsIntended'
  BY <1>1 DEF RunsIntended, RunsRegistered, upset
<1> QED
  BY <1>7, <1>8, <1>10, <1>12, <1>13

\* A board reset voids what is known of the slots, a new registration what is
\* known of its cache name.
LEMMA UpsetStep ==
  ASSUME CacheIInv, BoardReset \/ \E n \in Name, a \in Artifact : register_kernel(n, a)
  PROVE  CacheIInv'
<1>1. CASE BoardReset
  <2>1. /\ lost' = CachedIds /\ gate' = "idle"
        /\ UNCHANGED <<kernels, programBlocks, cache, clock, pc, call, ran, replaced>>
    BY <1>1 DEF BoardReset, host
  <2>2. lost \subseteq lost' /\ CachedIds' = CachedIds
    BY <2>1 DEF CacheIInv, KnownInv, CachedIds
  <2>3. CacheTypeInv' /\ LoadInv'
    BY <2>1 DEF CacheIInv, CacheTypeInv, LoadInv, Needed
  <2>4. KnownInv'
    BY <2>1, <2>2 DEF CacheIInv, KnownInv
  <2>5. \A e \in cache' : e.id \in lost'
    BY <2>1 DEF CachedIds
  <2>6. ResidentIntact'
    BY <2>1, <2>5 DEF CacheIInv, ResidentIntact, CacheBacked
  <2>7. RunsIntended'
    BY <2>1, <2>2 DEF CacheIInv, RunsIntended, RunsRegistered
  <2> QED
    BY <2>3, <2>4, <2>6, <2>7 DEF CacheIInv
<1>2. ASSUME NEW n \in Name, NEW a \in Artifact, register_kernel(n, a) PROVE CacheIInv'
  <2>1. /\ pc = "idle" /\ pc' = "idle" /\ kernels' = [kernels EXCEPT ![n] = a]
        /\ replaced' = IF a = kernels[n] THEN replaced ELSE replaced \cup {a.id}
        /\ UNCHANGED <<programBlocks, cache, clock, imem, ran, lost>>
    BY <1>2 DEF register_kernel, device
  <2>2. replaced \subseteq replaced' /\ (a = kernels[n] \/ a.id \in replaced')
    BY <2>1
  <2>3. CacheTypeInv' /\ LoadInv'
    BY <2>1 DEF CacheIInv, CacheTypeInv, LoadInv
  <2>4. \A m \in Name : kernels'[m] = Builtin[m] \/ kernels'[m].id \in replaced'
    BY <2>1, <2>2 DEF CacheIInv, CacheTypeInv, KnownInv
  <2>5. KnownInv'
    BY <2>1, <2>2, <2>4 DEF CacheIInv, KnownInv, CachedIds
  <2>6. RunsIntended'
    BY <2>1, <2>2 DEF CacheIInv, RunsIntended, RunsRegistered
  <2>7. ResidentIntact'
    BY <2>1 DEF CacheIInv, ResidentIntact, CacheBacked, Slot
  <2> QED
    BY <2>3, <2>5, <2>6, <2>7 DEF CacheIInv
<1> QED
  BY <1>1, <1>2

-----------------------------------------------------------------------------
\* The inductive invariant.
THEOREM CacheInductive == Spec => []CacheIInv
<1>1. ASSUME CacheIInv, [Next]_vars PROVE CacheIInv'
  <2>1. CASE \E n \in Name : Hit(n) \/ Miss(n)
    BY <1>1, <2>1, HitStep, MissStep
  <2>2. CASE Place \/ Evict
    BY <1>1, <2>2, PlaceStep, EvictStep
  <2>3. CASE Write \/ WriteRepeated \/ WriteFails
    BY <1>1, <2>3, WriteStep, WriteFailsStep
  <2>4. CASE Validate
    BY <1>1, <2>4, ValidateStep
  <2>5. CASE BoardReset \/ \E n \in Name, a \in Artifact : register_kernel(n, a)
    BY <1>1, <2>5, UpsetStep
  <2>7. CASE GiveUp \/ ValidateFails \/ Wait \/ WaitTimesOut
    <3>1. /\ pc' = "idle" /\ UNCHANGED <<kernels, programBlocks, cache, clock, imem, ran, upset>>
      BY <2>7 DEF GiveUp, ValidateFails, Wait, WaitTimesOut, Returns, device
    <3> QED
      BY <1>1, <3>1, QuietStep
  <2>8. CASE Launch \/ LaunchIgnored \/ LaunchFails
    <3>1. /\ pc = "launch" /\ (pc' = "idle" \/ (pc' = "wait" /\ call' = call))
          /\ ran' = ran \/ ran' = [call |-> call, words |-> Slot(call.at, Needed)]
          /\ UNCHANGED <<kernels, programBlocks, cache, clock, imem, upset>>
      BY <2>8 DEF Launch, LaunchIgnored, LaunchFails, Starts, Returns, device
    <3> QED
      BY <1>1, <3>1, QuietStep
  <2>9. CASE KernelEnds \/ UNCHANGED vars
    <3>1. /\ pc' = pc /\ call' = call /\ gate' = gate
          /\ UNCHANGED <<kernels, programBlocks, cache, clock, imem, ran, upset>>
      BY <2>9 DEF KernelEnds, vars, host, device
    <3> QED
      BY <1>1, <3>1, QuietStep
  <2> QED
    BY <1>1, <2>1, <2>2, <2>3, <2>4, <2>5, <2>7, <2>8, <2>9 DEF Next, launch_kernel
<1> QED
  BY InitCacheIInv, <1>1, PTL DEF Spec

\* Every program the cache lists has a block of its own and is in the
\* instruction memory word for word, whatever uploads failed before; a reset of
\* the board takes that from what was cached then and from nothing else.
THEOREM ResidentsStayIntact == Spec => []ResidentIntact
<1>1. CacheIInv => ResidentIntact
  BY DEF CacheIInv
<1> QED
  BY CacheInductive, <1>1, PTL

\* A launch runs the program registered under its name, through any number of
\* faults, timeouts, evictions and resets, unless its own cache name was
\* registered again with another artifact or is cached since before the board
\* was last reset.
THEOREM LaunchesRunTheirProgram == Spec => []RunsIntended
<1>1. CacheIInv => RunsIntended
  BY DEF CacheIInv
<1> QED
  BY CacheInductive, <1>1, PTL

-----------------------------------------------------------------------------
\* Without a fault a kernel runs only while its own call waits for it.
RunInv ==
  /\ faults \in Nat
  /\ faults = 0 => /\ busy => pc = "wait"
                   /\ pc = "wait" => ran.call = call

\* No kernel holds up the next call: one half of GateFollowsCall.
THEOREM RunsDuringItsCall == Spec => []RunInv
<1>1. Init => RunInv
  BY SMT DEF Init, RunInv
<1>2. ASSUME RunInv, [Next]_vars PROVE RunInv'
  <2>1. faults' \in Nat /\ (faults' = 0 => faults = 0)
    <3>1. faults' = faults \/ faults' = faults + 1
      BY <1>2 DEF Next, launch_kernel, Hit, Miss, Place, Evict, GiveUp, Write, WriteRepeated,
                  WriteFails, Validate, ValidateFails, Launch, LaunchIgnored, LaunchFails, Wait,
                  WaitTimesOut, KernelEnds, BoardReset, register_kernel, Fault, vars
    <3> QED
      BY <1>2, <3>1, SMT DEF RunInv
  <2> SUFFICES ASSUME faults' = 0
               PROVE  (busy' => pc' = "wait") /\ (pc' = "wait" => ran'.call = call')
    BY <2>1 DEF RunInv
  <2>2. /\ faults = 0 /\ (busy => pc = "wait") /\ (pc = "wait" => ran.call = call)
        /\ ~Fault
    <3>1. faults + 1 # 0
      BY <1>2, SMT DEF RunInv
    <3> QED
      BY <1>2, <2>1, <3>1 DEF RunInv, Fault
  <2>3. CASE Launch
    BY <2>2, <2>3 DEF Launch, Starts
  <2>4. CASE LaunchFails
    BY <2>2, <2>4 DEF LaunchFails, Starts, Returns
  <2>5. CASE LaunchIgnored
    BY <2>2, <2>5 DEF LaunchIgnored
  <2>6. CASE Wait \/ WaitTimesOut
    BY <2>2, <2>6 DEF Wait, WaitTimesOut, Returns, device
  <2>7. CASE KernelEnds \/ BoardReset
    BY <2>2, <2>7 DEF KernelEnds, BoardReset, host
  <2>8. CASE (\E n \in Name : Hit(n) \/ Miss(n)) \/ Place \/ Evict \/ GiveUp
    <3>1. CASE \E n \in Name : Hit(n) \/ Miss(n)
      <4>1. pc = "idle" /\ pc' \in {"launch", "idle", "allocate"} /\ UNCHANGED busy
        BY <3>1 DEF Hit, Miss, Returns, device
      <4> QED
        BY <2>2, <4>1
    <3>2. CASE Place
      BY <2>2, <3>2 DEF Place, device
    <3>3. CASE Evict \/ GiveUp
      <4>1. pc = "allocate" /\ pc' \in {"idle", "allocate"} /\ UNCHANGED busy
        BY <3>3 DEF Evict, GiveUp, Returns, device
      <4> QED
        BY <2>2, <4>1
    <3> QED
      BY <2>8, <3>1, <3>2, <3>3
  <2>9. CASE Write \/ WriteFails \/ Validate \/ ValidateFails
    BY <2>2, <2>9 DEF Write, WriteFails, Validate, ValidateFails, Returns
  <2>10. CASE WriteRepeated
    BY <2>2, <2>10 DEF WriteRepeated
  <2>11. CASE \E n \in Name, a \in Artifact : register_kernel(n, a)
    BY <2>2, <2>11 DEF register_kernel, device
  <2>12. CASE UNCHANGED vars
    BY <2>2, <2>12 DEF vars, host, device
  <2> QED
    BY <1>2, <2>3, <2>4, <2>5, <2>6, <2>7, <2>8, <2>9, <2>10, <2>11, <2>12
       DEF Next, launch_kernel
<1> QED
  BY <1>1, <1>2, PTL DEF Spec

\* A kernel whose call has not returned runs only while that call waits for it,
\* and a call that waits for such a kernel waits for its own.
OwnRunInv ==
  /\ busy /\ ~late => pc = "wait"
  /\ pc = "wait" /\ ~late => ran.call = call

\* The invariant behind OkMeansRan.
THEOREM WaitsForItsOwn == Spec => []OwnRunInv
<1>1. Init => OwnRunInv
  BY DEF Init, OwnRunInv
<1>2. ASSUME OwnRunInv, [Next]_vars PROVE OwnRunInv'
  <2> USE <1>2 DEF OwnRunInv
  <2>1. CASE Launch
    BY <2>1 DEF Launch, Starts
  <2>2. CASE LaunchIgnored
    BY <2>2 DEF LaunchIgnored, device
  <2>3. CASE LaunchFails
    <3>1. pc = "launch" /\ pc' = "idle" /\ (late' = TRUE \/ UNCHANGED <<busy, late>>)
      BY <2>3 DEF LaunchFails, Returns
    <3> QED
      BY <3>1
  <2>4. CASE Wait \/ WaitTimesOut
    BY <2>4 DEF Wait, WaitTimesOut, Returns, device
  <2>5. CASE KernelEnds \/ BoardReset
    BY <2>5 DEF KernelEnds, BoardReset, host
  <2>6. CASE \E n \in Name : Hit(n) \/ Miss(n)
    <3>1. pc = "idle" /\ pc' \in {"launch", "idle", "allocate"} /\ UNCHANGED <<busy, late>>
      BY <2>6 DEF Hit, Miss, Returns, device
    <3> QED
      BY <3>1
  <2>7. CASE Place \/ Evict \/ GiveUp
    <3>1. pc = "allocate" /\ pc' \in {"write", "idle", "allocate"} /\ UNCHANGED <<busy, late>>
      BY <2>7 DEF Place, Evict, GiveUp, Returns, device
    <3> QED
      BY <3>1
  <2>8. CASE Write \/ WriteRepeated \/ WriteFails
    <3>1. pc = "write" /\ pc' \in {"validate", "idle"} /\ UNCHANGED <<busy, late>>
      BY <2>8 DEF Write, WriteRepeated, WriteFails, Returns
    <3> QED
      BY <3>1
  <2>9. CASE Validate \/ ValidateFails
    <3>1. pc = "validate" /\ pc' \in {"launch", "idle"} /\ UNCHANGED <<busy, late>>
      BY <2>9 DEF Validate, ValidateFails, Returns
    <3> QED
      BY <3>1
  <2>10. CASE \E n \in Name, a \in Artifact : register_kernel(n, a)
    BY <2>10 DEF register_kernel, device
  <2>11. CASE UNCHANGED vars
    BY <2>11 DEF vars, host, device
  <2> QED
    BY <2>1, <2>2, <2>3, <2>4, <2>5, <2>6, <2>7, <2>8, <2>9, <2>10, <2>11
       DEF Next, launch_kernel
<1> QED
  BY <1>1, <1>2, PTL DEF Spec

\* A launch that returns normally has run its own kernel, through any faults,
\* unless it was ignored because the kernel of an earlier call that returned
\* before it was still running; the next launch that returns normally ran.
THEOREM OkMeansItRan == Spec => OkMeansRan
<1>1. ASSUME OwnRunInv, [Next]_vars
      PROVE  [outcome # "ok" /\ outcome' = "ok" => ran.call = call \/ late]_vars
  <2> SUFFICES ASSUME outcome # "ok", outcome' = "ok" PROVE ran.call = call \/ late
    OBVIOUS
  <2>1. Wait
    BY <1>1 DEF Next, launch_kernel, Hit, Miss, Place, Evict, GiveUp, Write, WriteRepeated,
                WriteFails, Validate, ValidateFails, Launch, LaunchIgnored, LaunchFails,
                WaitTimesOut, KernelEnds, BoardReset, register_kernel, Returns, vars, host
  <2> QED
    BY <1>1, <2>1 DEF Wait, OwnRunInv
<1> QED
  BY WaitsForItsOwn, <1>1, PTL DEF Spec, OkMeansRan

-----------------------------------------------------------------------------
\* The time an entry carries is the number of its last use, and every use was
\* counted.
UseInv ==
  /\ uses \in Seq({a.id : a \in Artifact}) /\ Len(uses) = clock
  /\ \A e \in cache : /\ e.last_used \in 1..clock /\ uses[e.last_used] = e.id
                      /\ \A i \in (e.last_used + 1)..clock : uses[i] # e.id

\* A use is appended to the uses there were.
LEMMA UseAppended ==
  ASSUME UseInv, NEW id \in {a.id : a \in Artifact}, Used(id)
  PROVE  /\ uses' \in Seq({a.id : a \in Artifact}) /\ Len(uses') = clock + 1
         /\ uses'[clock + 1] = id /\ clock \in Nat
         /\ \A i \in 1..clock : uses'[i] = uses[i]
<1> DEFINE Ids == {a.id : a \in Artifact}
<1>1. uses \in Seq(Ids) /\ Len(uses) = clock /\ uses' = Append(uses, id)
  BY DEF UseInv, Used
<1> HIDE DEF Ids
<1> QED
  BY <1>1, SMT DEF Ids

\* The entries that are not used keep the number of their last use.
LEMMA OthersKeepTheirUse ==
  ASSUME CacheTypeInv, UseInv, NEW id \in {a.id : a \in Artifact}, Used(id),
         NEW e \in cache, e.id # id
  PROVE  /\ e.last_used \in 1..(clock + 1) /\ uses'[e.last_used] = e.id
         /\ \A i \in (e.last_used + 1)..(clock + 1) : uses'[i] # e.id
<1>1. /\ e.last_used \in 1..clock /\ uses[e.last_used] = e.id
      /\ \A i \in (e.last_used + 1)..clock : uses[i] # e.id
  BY DEF UseInv
<1>2. /\ clock \in Nat /\ uses'[clock + 1] = id
      /\ \A i \in 1..clock : uses'[i] = uses[i]
  BY UseAppended
<1>3. e.last_used \in 1..(clock + 1)
  BY <1>1, <1>2, SMT
<1>4. ASSUME NEW i \in (e.last_used + 1)..(clock + 1) PROVE uses'[i] # e.id
  <2>1. i = clock + 1 \/ (i \in 1..clock /\ i \in (e.last_used + 1)..clock)
    BY <1>1, <1>2, SMT
  <2> QED
    BY <1>1, <1>2, <2>1
<1> QED
  BY <1>1, <1>2, <1>3, <1>4

\* An entry that is used now is the last one used.
LEMMA UsedNow ==
  ASSUME CacheTypeInv, UseInv, NEW id \in {a.id : a \in Artifact}, Used(id)
  PROVE  /\ clock + 1 \in 1..(clock + 1) /\ uses'[clock + 1] = id
         /\ \A i \in (clock + 2)..(clock + 1) : uses'[i] # id
<1>1. clock \in Nat /\ uses'[clock + 1] = id
  BY UseAppended
<1> QED
  BY <1>1, SMT

\* The numbers the cache keeps are those of the last uses.
THEOREM EntriesKnowTheirLastUse == Spec => []UseInv
<1>1. Init => UseInv
  BY SMT DEF Init, UseInv
<1>2. ASSUME CacheIInv, UseInv, [Next]_vars PROVE UseInv'
  <2> USE DEF CacheIInv
  <2>1. ASSUME NEW n \in Name, Hit(n) PROVE UseInv'
    <3>1. PICK e \in cache :
            /\ e.id = kernels[n].id
            /\ cache' = (cache \ {e}) \cup {[e EXCEPT !.last_used = clock + 1]}
      BY <2>1 DEF Hit
    <3> DEFINE f == [e EXCEPT !.last_used = clock + 1]
    <3>2. f.id = e.id /\ f.last_used = clock + 1 /\ cache' = (cache \ {e}) \cup {f}
      BY <3>1 DEF CacheTypeInv, CacheEntry
    <3> HIDE DEF f
    <3>3. clock' = clock + 1 /\ Used(e.id)
      BY <2>1, <3>1 DEF Hit
    <3>4. e.id \in {a.id : a \in Artifact}
      BY <1>2 DEF CacheTypeInv, CacheEntry
    <3>5. \A g \in cache : g # e => g.id # e.id
      BY <1>2 DEF ResidentIntact, CacheBacked
    <3>6. ASSUME NEW g \in cache'
          PROVE  /\ g.last_used \in 1..(clock + 1) /\ uses'[g.last_used] = g.id
                 /\ \A i \in (g.last_used + 1)..(clock + 1) : uses'[i] # g.id
      <4>1. CASE g = f
        <5>1. clock + 1 + 1 = clock + 2
          BY <1>2, SMT DEF CacheTypeInv
        <5> QED
          BY <1>2, <3>2, <3>3, <3>4, <4>1, <5>1, UsedNow
      <4>2. CASE g # f
        <5>1. g \in cache /\ g.id # e.id
          BY <3>2, <3>5, <4>2
        <5> QED
          BY <1>2, <3>3, <3>4, <5>1, OthersKeepTheirUse
      <4> QED
        BY <4>1, <4>2
    <3>7. uses' \in Seq({a.id : a \in Artifact}) /\ Len(uses') = clock + 1
      BY <1>2, <3>3, <3>4, UseAppended
    <3> QED
      BY <3>3, <3>6, <3>7 DEF UseInv
  <2>2. CASE Validate
    <3>1. /\ pc = "validate" /\ cache' = cache \cup {Entry} /\ clock' = clock + 1
          /\ Used(call.art.id)
      BY <2>2 DEF Validate
    <3>2. call.art.id \in {a.id : a \in Artifact}
      BY <1>2, <3>1, ArtifactSize DEF CacheTypeInv, Call
    <3>3. Entry.id = call.art.id /\ Entry.last_used = clock + 1
      BY DEF Entry
    <3>4. \A g \in cache : g.id # call.art.id
      BY <1>2, <3>1 DEF LoadInv
    <3>5. ASSUME NEW g \in cache'
          PROVE  /\ g.last_used \in 1..(clock + 1) /\ uses'[g.last_used] = g.id
                 /\ \A i \in (g.last_used + 1)..(clock + 1) : uses'[i] # g.id
      <4>1. CASE g = Entry
        <5>1. clock + 1 + 1 = clock + 2
          BY <1>2, SMT DEF CacheTypeInv
        <5> QED
          BY <1>2, <3>1, <3>2, <3>3, <4>1, <5>1, UsedNow
      <4>2. CASE g # Entry
        <5>1. g \in cache /\ g.id # call.art.id
          BY <3>1, <3>4, <4>2
        <5> QED
          BY <1>2, <3>1, <3>2, <5>1, OthersKeepTheirUse
      <4> QED
        BY <4>1, <4>2
    <3>6. uses' \in Seq({a.id : a \in Artifact}) /\ Len(uses') = clock + 1
      BY <1>2, <3>1, <3>2, UseAppended
    <3> QED
      BY <3>1, <3>5, <3>6 DEF UseInv
  <2>3. ASSUME UNCHANGED <<clock, uses>>, cache' \subseteq cache PROVE UseInv'
    BY <1>2, <2>3 DEF UseInv
  <2>4. CASE (\E n \in Name : Miss(n)) \/ Place \/ Evict \/ GiveUp
    <3>1. UNCHANGED <<clock, uses>> /\ cache' \subseteq cache
      BY <2>4 DEF Miss, Place, Evict, GiveUp
    <3> QED
      BY <2>3, <3>1
  <2>5. CASE Write \/ WriteRepeated \/ WriteFails \/ ValidateFails
    BY <2>3, <2>5 DEF Write, WriteRepeated, WriteFails, ValidateFails
  <2>6. CASE Launch \/ LaunchIgnored \/ LaunchFails \/ Wait \/ WaitTimesOut
    BY <2>3, <2>6 DEF Launch, LaunchIgnored, LaunchFails, Wait, WaitTimesOut
  <2>7. CASE KernelEnds \/ BoardReset \/ UNCHANGED vars
    BY <2>3, <2>7 DEF KernelEnds, BoardReset, vars, host
  <2>8. CASE \E n \in Name, a \in Artifact : register_kernel(n, a)
    BY <2>3, <2>8 DEF register_kernel
  <2> QED
    BY <1>2, <2>1, <2>2, <2>4, <2>5, <2>6, <2>7, <2>8 DEF Next, launch_kernel
<1> QED
  BY <1>1, <1>2, CacheInductive, PTL DEF Spec

\* The program that has to go is always the one whose last use is longest ago,
\* whatever was used, loaded and evicted before (519-546, 600).
THEOREM OldestIsEvicted == Spec => EvictsOldest
<1>1. ASSUME CacheIInv, UseInv, [Next]_vars
      PROVE  [\A id \in CachedIds \ CachedIds' : \A kept \in CachedIds' :
                \A i \in 1..Len(uses) : uses[i] = id =>
                  \E j \in (i+1)..Len(uses) : uses[j] = kept]_vars
  <2> SUFFICES ASSUME NEW id \in CachedIds \ CachedIds', NEW kept \in CachedIds',
                      NEW i \in 1..Len(uses), uses[i] = id
               PROVE  \E j \in (i+1)..Len(uses) : uses[j] = kept
    OBVIOUS
  <2>1. ~(cache \subseteq cache')
    BY DEF CachedIds
  <2>2. ASSUME NEW n \in Name, Hit(n) PROVE FALSE
    <3>1. PICK e \in cache : cache' = (cache \ {e}) \cup {[e EXCEPT !.last_used = clock + 1]}
      BY <2>2 DEF Hit
    <3>2. [e EXCEPT !.last_used = clock + 1].id = e.id
      BY <1>1 DEF CacheIInv, CacheTypeInv, CacheEntry
    <3>3. CachedIds \subseteq CachedIds'
      BY <3>1, <3>2 DEF CachedIds
    <3> QED
      BY <3>3
  <2>3. Evict
    <3>1. (\E n \in Name : Hit(n)) \/ Evict
      BY <1>1, <2>1 DEF Next, launch_kernel, Miss, Place, GiveUp, Write, WriteRepeated,
                        WriteFails, Validate, ValidateFails, Launch, LaunchIgnored, LaunchFails,
                        Wait, WaitTimesOut, KernelEnds, BoardReset, register_kernel, vars, host
    <3> QED
      BY <2>2, <3>1
  <2> DEFINE victim == CHOOSE e \in cache : \A f \in cache : e.last_used <= f.last_used
  <2>4. victim \in cache /\ \A f \in cache : victim.last_used <= f.last_used
    <3>1. \E e \in cache : \A f \in cache : e.last_used <= f.last_used
      BY <1>1, <2>3, OldestExists DEF Evict, CacheIInv
    <3> QED
      BY <3>1
  <2>5. cache' = cache \ {victim}
    BY <2>3 DEF Evict
  <2> HIDE DEF victim
  <2>6. id = victim.id
    BY <2>4, <2>5 DEF CachedIds
  <2>7. PICK f \in cache : f # victim /\ f.id = kept
    BY <2>5 DEF CachedIds
  <2>8. f.id # victim.id /\ victim.last_used <= f.last_used
    BY <1>1, <2>4, <2>7 DEF CacheIInv, ResidentIntact, CacheBacked
  <2>9. /\ f.last_used \in 1..clock /\ uses[f.last_used] = kept
        /\ victim.last_used \in 1..clock /\ uses[victim.last_used] = id
        /\ \A k \in (victim.last_used + 1)..clock : uses[k] # id
        /\ Len(uses) = clock /\ clock \in Nat
    BY <1>1, <2>4, <2>6, <2>7 DEF CacheIInv, CacheTypeInv, UseInv
  <2>10. i <= victim.last_used
    <3>1. i \in (victim.last_used + 1)..clock \/ i <= victim.last_used
      BY <2>9, SMT
    <3> QED
      BY <2>9, <3>1
  <2>11. f.last_used # victim.last_used
    BY <2>6, <2>7, <2>8, <2>9
  <2>12. f.last_used \in (i + 1)..Len(uses)
    BY <2>8, <2>9, <2>10, <2>11, SMT
  <2> QED
    BY <2>9, <2>12
<1> QED
  BY <1>1, CacheInductive, EntriesKnowTheirLastUse, PTL DEF Spec, EvictsOldest

-----------------------------------------------------------------------------
\* What a device delivered with its kernels fulfils: every registered program
\* fits the instruction memory, and the gate holds the digest of that program.
Provisioned ==
  \A n \in Name : /\ Size[Builtin[n].program] <= ImemWords
                  /\ Golden[n] = Builtin[n].program

\* No kernel was replaced and the board was not reset.
Undisturbed == replaced = {} /\ ~wasReset

\* As long as nothing went wrong, the gate follows the call, every taken block
\* belongs to the cache or to the call, and no call has failed.
SmoothInv ==
  faults = 0 /\ Undisturbed =>
    /\ outcome \in {"none", "ok"}
    /\ pc # "idle" => call.name \in Name /\ call.art = Builtin[call.name]
    /\ pc \in {"idle", "allocate", "write"} =>
         gate = "execute" \/ (gate = "idle" /\ cache = {})
    /\ pc = "validate" => gate = "load" /\ stream = WordsOf(call.art.program)
    /\ pc \in {"launch", "wait"} => gate = "execute"
    /\ \A b \in TakenOf(programBlocks) :
         \/ \E e \in cache : b = Block(e.addr, e.size, FALSE)
         \/ pc \in {"write", "validate"} /\ b = Block(call.at, Needed, FALSE)
    /\ pc \in {"idle", "allocate", "write", "validate", "launch", "wait"}

\* With nothing in use any program that fits the memory has a block.
LEMMA EmptyMemoryFits ==
  ASSUME CacheIInv, pc = "allocate", TakenOf(programBlocks) = {}, Needed <= ImemWords
  PROVE  FittingPrograms # {}
<1>1. /\ programBlocks \in SUBSET Blk /\ Tiles(programBlocks, 0, ImemWords)
      /\ call \in Call
  BY DEF CacheIInv, CacheTypeInv, ResidentIntact, CacheBacked
<1>2. Needed \in Nat \ {0} /\ ImemWords \in Nat
  BY <1>1, ArtifactSize, ProgramCacheAssumption DEF Call, Needed
<1>3. 0 \in Nat /\ 0 \in 0..ImemWords /\ 0 + Needed <= ImemWords /\ 0 + Needed = Needed
  BY <1>2, SMT
<1>4. PICK b \in FreeOf(programBlocks) : b.offset <= 0 /\ 0 + Needed <= BlockEnd(b)
  BY <1>1, <1>2, <1>3, GapInOneBlock
<1>5. b.offset \in Nat /\ b.size \in Nat /\ BlockEnd(b) = b.offset + b.size
  BY <1>1, <1>4 DEF FreeOf, Blk, BlockEnd
<1>6. b.size >= Needed
  BY <1>2, <1>4, <1>5, SMT
<1> QED
  BY <1>4, <1>6 DEF FittingPrograms

\* Steps that move the call on without touching lists or gate.
LEMMA SmoothGoes ==
  ASSUME SmoothInv, faults = 0, Undisturbed,
         UNCHANGED <<programBlocks, cache, gate, stream, call>>,
         \/ pc' = pc
         \/ pc = "launch" /\ pc' = "wait",
         outcome' = outcome
  PROVE  SmoothInv'
  BY DEF SmoothInv, Needed

\* The invariant behind NoFaultNoFailure.
THEOREM GateFollowsCall ==
  ASSUME Provisioned
  PROVE  Spec => []SmoothInv
<1>1. Init => SmoothInv
  <2> SUFFICES ASSUME Init PROVE SmoothInv
    OBVIOUS
  <2>1. TakenOf(programBlocks) = {}
    BY DEF Init, TakenOf, FreeOf, Block
  <2> QED
    BY <2>1 DEF Init, SmoothInv
<1>2. ASSUME CacheIInv, RunInv, SmoothInv, [Next]_vars PROVE SmoothInv'
  <2>1. faults \in Nat /\ (faults' = faults \/ faults' = faults + 1)
        /\ (Undisturbed' => Undisturbed)
    <3>1. /\ faults \in Nat /\ (faults' = faults \/ faults' = faults + 1)
          /\ (wasReset' = wasReset \/ wasReset' = TRUE)
          /\ replaced \subseteq replaced'
      BY <1>2 DEF Next, launch_kernel, Hit, Miss, Place, Evict, GiveUp, Write, WriteRepeated,
                  WriteFails, Validate, ValidateFails, Launch, LaunchIgnored, LaunchFails, Wait,
                  WaitTimesOut, KernelEnds, BoardReset, register_kernel, Fault, vars, upset, RunInv
    <3>2. replaced' = {} => replaced = {}
      BY <3>1
    <3>3. wasReset => wasReset'
      BY <3>1
    <3> QED
      BY <3>1, <3>2, <3>3 DEF Undisturbed
  <2> SUFFICES ASSUME faults' = 0, Undisturbed' PROVE SmoothInv'
    BY DEF SmoothInv
  <2>2. faults = 0 /\ Undisturbed /\ ~Fault /\ UNCHANGED faults
    <3>1. faults + 1 # 0
      BY <2>1, SMT
    <3> QED
      BY <2>1, <3>1 DEF Fault
  <2>3. /\ outcome \in {"none", "ok"}
        /\ pc # "idle" => call.name \in Name /\ call.art = Builtin[call.name]
        /\ pc \in {"idle", "allocate", "write"} =>
             gate = "execute" \/ (gate = "idle" /\ cache = {})
        /\ pc = "validate" => gate = "load" /\ stream = WordsOf(call.art.program)
        /\ pc \in {"launch", "wait"} => gate = "execute"
        /\ \A b \in TakenOf(programBlocks) :
             \/ \E e \in cache : b = Block(e.addr, e.size, FALSE)
             \/ pc \in {"write", "validate"} /\ b = Block(call.at, Needed, FALSE)
        /\ pc \in {"idle", "allocate", "write", "validate", "launch", "wait"}
    BY <1>2, <2>2 DEF SmoothInv
  <2>4. kernels = Builtin /\ (busy => pc = "wait")
    <3>1. \A n \in Name : kernels[n] = Builtin[n]
      BY <1>2, <2>2 DEF CacheIInv, KnownInv, Undisturbed
    <3>2. kernels \in [Name -> Artifact] /\ Builtin \in [Name -> Artifact]
      BY <1>2, ProgramCacheAssumption DEF CacheIInv, CacheTypeInv
    <3> QED
      BY <1>2, <2>2, <3>1, <3>2 DEF RunInv
  <2>5. ASSUME NEW n \in Name, Hit(n) PROVE SmoothInv'
    <3>1. PICK e \in cache :
            /\ cache' = (cache \ {e}) \cup {[e EXCEPT !.last_used = clock + 1]}
            /\ call' = [name |-> n, art |-> kernels[n], at |-> e.addr]
      BY <2>5 DEF Hit
    <3>2. /\ pc = "idle" /\ pc' = "launch" /\ outcome' = "none"
          /\ UNCHANGED <<programBlocks, gate, stream>>
      BY <2>5 DEF Hit, device
    <3> DEFINE f == [e EXCEPT !.last_used = clock + 1]
    <3>3. f.addr = e.addr /\ f.size = e.size /\ cache' = (cache \ {e}) \cup {f}
      BY <1>2, <3>1 DEF CacheIInv, CacheTypeInv, CacheEntry
    <3> HIDE DEF f
    <3>4. gate = "execute"
      BY <2>3, <3>2
    <3>5. \A b \in TakenOf(programBlocks) : \E g \in cache' : b = Block(g.addr, g.size, FALSE)
      BY <2>3, <3>2, <3>3
    <3> QED
      BY <2>4, <3>1, <3>2, <3>4, <3>5 DEF SmoothInv
  <2>6. ASSUME NEW n \in Name, Miss(n) PROVE SmoothInv'
    <3>1. pc = "idle" /\ ~(Size[kernels[n].program] > ImemWords)
      <4>1. Size[kernels[n].program] \in Nat /\ ImemWords \in Nat
        BY <1>2, ArtifactSize, ProgramCacheAssumption DEF CacheIInv, CacheTypeInv
      <4>2. Size[kernels[n].program] <= ImemWords
        BY <2>4 DEF Provisioned
      <4> QED
        BY <2>6, <4>1, <4>2, SMT DEF Miss
    <3>2. /\ pc' = "allocate" /\ outcome' = "none"
          /\ call' = [name |-> n, art |-> kernels[n], at |-> 0]
          /\ UNCHANGED <<programBlocks, cache, gate, stream>>
      BY <2>6, <3>1 DEF Miss, device
    <3> QED
      BY <2>3, <2>4, <3>1, <3>2 DEF SmoothInv
  <2>7. CASE Place
    <3> DEFINE b == First(FittingPrograms)
    <3>1. /\ pc = "allocate" /\ pc' = "write" /\ FittingPrograms # {}
          /\ programBlocks' = Carve(programBlocks, b, b.offset, Needed)
          /\ call' = [call EXCEPT !.at = b.offset]
          /\ UNCHANGED <<cache, outcome, gate, stream>>
      BY <2>7 DEF Place, device
    <3>2. programBlocks \in SUBSET Blk /\ call \in Call
      BY <1>2, <3>1 DEF CacheIInv, CacheTypeInv
    <3>3. Needed \in Nat \ {0}
      BY <3>2, ArtifactSize DEF Call, Needed
    <3>4. b \in FreeOf(programBlocks) /\ b.size >= Needed
      <4>1. FittingPrograms \in SUBSET Blk
        BY <3>2 DEF FittingPrograms, FreeOf
      <4>2. b \in FittingPrograms
        BY <3>1, <4>1, FirstIsLowest
      <4> QED
        BY <4>2 DEF FittingPrograms
    <3> HIDE DEF b
    <3>5. TakenOf(programBlocks') = TakenOf(programBlocks) \cup {Block(b.offset, Needed, FALSE)}
      <4>1. TakenOf(Carve(programBlocks, b, b.offset, Needed))
              = TakenWith(programBlocks, Block(b.offset, Needed, FALSE))
        BY <3>3, <3>4, CarveTakes
      <4> QED
        BY <3>1, <4>1 DEF TakenWith
    <3>6. call'.at = b.offset /\ call'.art = call.art /\ call'.name = call.name
      BY <3>1, <3>2 DEF Call
    <3>7. Needed' = Needed
      BY <3>6 DEF Needed
    <3>8. \A c \in TakenOf(programBlocks') :
            \/ \E e \in cache' : c = Block(e.addr, e.size, FALSE)
            \/ c = Block(call'.at, Needed', FALSE)
      BY <2>3, <3>1, <3>5, <3>6, <3>7
    <3> QED
      BY <2>3, <3>1, <3>6, <3>8 DEF SmoothInv
  <2>8. CASE Evict
    <3> DEFINE victim == CHOOSE e \in cache : \A f \in cache : e.last_used <= f.last_used
               block  == Block(victim.addr, victim.size, FALSE)
    <3>1. /\ pc = "allocate" /\ cache # {} /\ cache' = cache \ {victim}
          /\ programBlocks' = IF block \in programBlocks THEN Give(programBlocks, block) ELSE programBlocks
          /\ UNCHANGED <<pc, call, outcome, gate, stream>>
      BY <2>8 DEF Evict, device
    <3>2. victim \in cache
      <4>1. \E e \in cache : \A f \in cache : e.last_used <= f.last_used
        BY <1>2, <3>1, OldestExists DEF CacheIInv
      <4> QED
        BY <4>1
    <3> HIDE DEF victim
    <3>3. block \in TakenOf(programBlocks)
      BY <1>2, <3>2 DEF CacheIInv, ResidentIntact, CacheBacked, TakenOf, FreeOf, Block
    <3>4. programBlocks \in SUBSET Blk
      BY <1>2 DEF CacheIInv, CacheTypeInv
    <3>5. TakenOf(programBlocks') = TakenOf(programBlocks) \ {block}
      <4>1. block \in programBlocks
        BY <3>3 DEF TakenOf
      <4> HIDE DEF block
      <4>2. programBlocks' = Give(programBlocks, block)
        BY <3>1, <4>1
      <4> QED
        BY <3>3, <3>4, <4>2, GiveReleases
    <3>6. \A b \in TakenOf(programBlocks') : \E e \in cache' : b = Block(e.addr, e.size, FALSE)
      BY <2>3, <3>1, <3>5
    <3> QED
      BY <2>3, <3>1, <3>6 DEF SmoothInv
  <2>9. CASE GiveUp
    <3>1. pc = "allocate" /\ FittingPrograms = {} /\ cache = {}
      BY <2>9 DEF GiveUp
    <3>2. TakenOf(programBlocks) = {}
      BY <2>3, <3>1
    <3>3. Needed <= ImemWords
      BY <2>3, <3>1 DEF Provisioned, Needed
    <3> QED
      BY <1>2, <3>1, <3>2, <3>3, EmptyMemoryFits
  <2>10. pc = "write" => Accepts /\ gate # "load"
    BY <2>3, <2>4 DEF Accepts
  <2>11. CASE Write
    <3>1. /\ pc = "write" /\ pc' = "validate" /\ gate' = "load"
          /\ stream' = << >> \o WordsOf(call.art.program)
          /\ UNCHANGED <<programBlocks, cache, call, outcome>>
      BY <2>10, <2>11 DEF Write, Streams
    <3>2. << >> \o WordsOf(call.art.program) = WordsOf(call.art.program)
      <4>1. call.art.program \in Program
        BY <1>2, <3>1, ArtifactSize DEF CacheIInv, CacheTypeInv, Call
      <4>2. PICK W : WordsOf(call.art.program) \in Seq(W)
        BY <4>1, WordsLength
      <4> QED
        BY <4>2, ConcatEmptySeq
    <3> QED
      BY <2>3, <3>1, <3>2 DEF SmoothInv, Needed
  <2>12. CASE WriteRepeated \/ WriteFails \/ WaitTimesOut
    BY <2>2, <2>10, <2>12 DEF WriteRepeated, WriteFails, WaitTimesOut
  <2>13. pc = "validate" => Matches
    BY <2>3 DEF Matches, Provisioned
  <2>14. CASE Validate
    <3>1. /\ pc = "validate" /\ pc' = "launch" /\ gate' = "execute"
          /\ cache' = cache \cup {Entry} /\ UNCHANGED <<programBlocks, call, outcome>>
      BY <2>14 DEF Validate
    <3>2. Entry.addr = call.at /\ Entry.size = Needed
      BY DEF Entry
    <3>3. \A b \in TakenOf(programBlocks) : \E e \in cache' : b = Block(e.addr, e.size, FALSE)
      BY <2>3, <3>1, <3>2
    <3> QED
      BY <2>3, <3>1, <3>3 DEF SmoothInv
  <2>15. CASE ValidateFails
    BY <2>2, <2>13, <2>15 DEF ValidateFails
  <2>16. CASE Launch \/ LaunchIgnored
    <3>1. /\ pc = "launch" /\ pc' = "wait"
          /\ UNCHANGED <<programBlocks, cache, gate, stream, call, outcome>>
      BY <2>16 DEF Launch, LaunchIgnored, device
    <3> QED
      BY <1>2, <2>2, <3>1, SmoothGoes
  <2>17. CASE LaunchFails
    BY <2>2, <2>3, <2>17 DEF LaunchFails
  <2>18. CASE Wait
    <3>1. /\ pc = "wait" /\ pc' = "idle" /\ outcome' = "ok"
          /\ UNCHANGED <<programBlocks, cache, gate, stream>>
      BY <2>18 DEF Wait, Returns, device
    <3> QED
      BY <2>3, <3>1 DEF SmoothInv
  <2>19. CASE KernelEnds \/ UNCHANGED vars
    <3>1. UNCHANGED <<programBlocks, cache, gate, stream, call, pc, outcome>>
      BY <2>19 DEF KernelEnds, vars, host, device
    <3> QED
      BY <1>2, <2>2, <3>1, SmoothGoes
  <2>20. CASE BoardReset \/ \E n \in Name, a \in Artifact : register_kernel(n, a)
    <3>1. CASE BoardReset
      BY <3>1 DEF BoardReset, Undisturbed
    <3>2. CASE \E n \in Name, a \in Artifact : register_kernel(n, a)
      <4>1. UNCHANGED <<programBlocks, cache, gate, stream, call, pc, outcome>>
        BY <3>2 DEF register_kernel, device
      <4> QED
        BY <1>2, <2>2, <4>1, SmoothGoes
    <3> QED
      BY <2>20, <3>1, <3>2
  <2> QED
    BY <1>2, <2>5, <2>6, <2>7, <2>8, <2>9, <2>11, <2>12, <2>14, <2>15, <2>16, <2>17, <2>18,
       <2>19, <2>20 DEF Next, launch_kernel
<1> QED
  BY <1>1, <1>2, CacheInductive, RunsDuringItsCall, PTL DEF Spec

\* On a device delivered with its kernels no launch fails unless an answer is
\* lost, a name is registered again or the board is reset: every program is
\* placed, after evictions if need be, verified and run.
THEOREM NoLaunchFails ==
  ASSUME Provisioned
  PROVE  Spec => []NoFaultNoFailure
<1>1. SmoothInv => NoFaultNoFailure
  BY DEF SmoothInv, NoFaultNoFailure, Undisturbed
<1> QED
  BY GateFollowsCall, <1>1, PTL
=============================================================================
