---------------------------- MODULE DeviceMemory ----------------------------
(***************************************************************************)
(* Device memory as the host manages it: the first-fit allocator of the    *)
(* runtime's Context, the DeviceBuffer handles it returns, and the tensor  *)
(* storages of the PyTorch backend, which keep only an address and free it *)
(* in whatever Context is connected at that time (torch_ext/src/ops/       *)
(* tensor.cpp).  A Context object is a number: a reconnection and a move   *)
(* construction each make the next one.  Sizes are in bytes.               *)
(***************************************************************************)
EXTENDS BlockList

CONSTANTS Buffer,       \* DeviceBuffer objects
          Storage,      \* tensor storages
          MemBase, MemSize, DefaultAlign,  \* the Config
          SpillBytes,   \* kCompilerSpillBytes
          Request,      \* the allocation requests, [size, align]
          MaxContext    \* bound: Context objects in one behaviour

Holder == Buffer \cup Storage

ASSUME DeviceMemoryAssumption ==
  /\ Buffer \cap Storage = {}
  /\ MemBase \in Nat /\ MemSize \in Nat \ {0}
  /\ DefaultAlign \in Nat \ {0}
  /\ SpillBytes \in Nat
  /\ Request \subseteq [size : Nat \ {0}, align : Nat \ {0}]
  /\ MaxContext \in Nat \ {0}

VARIABLES
  blocks,    \* blocks_ of every Context object
  context,   \* the Context object in use
  connected, \* does it exist (state.context of the torch backend)?
  held,      \* what every buffer or storage refers to
  refused    \* the request that last failed with NoMemory

memoryVars == <<blocks, context, connected, held, refused>>

Context == 1..MaxContext
Nothing == [addr |-> 0, size |-> 0, context |-> 0]
NoRequest == [size |-> 0, align |-> 0]

Least(x, y)    == IF x < y THEN x ELSE y
Greatest(x, y) == IF x < y THEN y ELSE x

AlignUp(value, alignment) ==
  IF value % alignment = 0 THEN value ELSE value + (alignment - (value % alignment))

\* Mutant: the scratch area is not rounded up.
compiler_spill_size_unrounded == Least(SpillBytes, Greatest(4, MemSize \div 8))

\* The compiler's spill area is cut from the end of the memory.  Kernels get
\* its address in words.
compiler_spill_size ==
  AlignUp(Least(SpillBytes, Greatest(4, MemSize \div 8)), DefaultAlign)

managed_end == MemBase + MemSize - compiler_spill_size
spill_word  == managed_end \div 4

\* The constructor throws when the spill area leaves no memory to manage.
ASSUME RoomBesideSpill == compiler_spill_size < MemSize

NewBlocks == {Block(MemBase, managed_end - MemBase, TRUE)}

-----------------------------------------------------------------------------
Live(h) == held[h] # Nothing

\* The free blocks that can hold size bytes at an aligned address.
FittingBlocks(B, size, align) ==
  {b \in FreeOf(B) : AlignUp(b.offset, align) + size <= BlockEnd(b)}

\* First fit; NoMemory when no block fits.  A storage takes the allocation
\* over from the buffer at once.
device_malloc(h, r) ==
  LET B    == blocks[context]
      size == AlignUp(r.size, r.align)
      fits == FittingBlocks(B, size, r.align)
      b    == First(fits)
      at   == AlignUp(b.offset, r.align)
  IN /\ connected /\ ~Live(h)
     /\ IF fits = {}
        THEN refused' = r /\ UNCHANGED <<blocks, held>>
        ELSE /\ blocks' = [blocks EXCEPT ![context] = Carve(B, b, at, size)]
             /\ held' = [held EXCEPT ![h] =
                           [addr |-> at, size |-> size, context |-> context]]
             /\ refused' = NoRequest
     /\ UNCHANGED <<context, connected>>

\* Mutant: the freed block stays apart from its free neighbours.
device_free_scattered(c, addr) ==
  [blocks EXCEPT ![c] = {IF b.offset = addr THEN [b EXCEPT !.free = TRUE] ELSE b : b \in @}]

\* The blocks after device_free(addr) on Context c: NotFound changes nothing.
device_free(c, addr) ==
  LET found == {b \in TakenOf(blocks[c]) : b.offset = addr}
  IN IF found = {} THEN blocks
     ELSE [blocks EXCEPT ![c] = Give(@, First(found))]

\* The Context a holder frees its address in.
FreedIn(h) == IF h \in Buffer THEN held[h].context ELSE context

\* DeviceBuffer::reset, or the deleter of a storage.  Without a connection the
\* deleter swallows the exception and frees nothing.
reset(h) ==
  /\ Live(h)
  /\ blocks' = IF h \in Storage /\ ~connected THEN blocks
               ELSE device_free(FreedIn(h), held[h].addr)
  /\ held' = [held EXCEPT ![h] = Nothing]
  /\ refused' = NoRequest
  /\ UNCHANGED <<context, connected>>

\* Mutant: the target's own allocation is not freed first.
move_assign_noreset(h, g) ==
  /\ h # g
  /\ UNCHANGED blocks
  /\ held' = [held EXCEPT ![h] = held[g], ![g] = Nothing]
  /\ refused' = NoRequest
  /\ UNCHANGED <<context, connected>>

\* DeviceBuffer::operator=(DeviceBuffer &&): free what h owns, take over what
\* g refers to, if anything.
move_assign(h, g) ==
  /\ h # g
  /\ blocks' = IF Live(h) THEN device_free(held[h].context, held[h].addr) ELSE blocks
  /\ held' = [held EXCEPT ![h] = held[g], ![g] = Nothing]
  /\ refused' = NoRequest
  /\ UNCHANGED <<context, connected>>

\* Context(Context &&): the lists move to the new object, the buffers still
\* point at the old one.
MoveContext ==
  /\ connected /\ context < MaxContext
  /\ context' = context + 1
  /\ blocks' = [blocks EXCEPT ![context] = {}, ![context + 1] = blocks[context]]
  /\ refused' = NoRequest
  /\ UNCHANGED <<connected, held>>

\* disconnect() destroys the Context whatever storages are alive.
disconnect ==
  /\ connected
  /\ \A h \in Buffer : ~Live(h)
  /\ connected' = FALSE
  /\ blocks' = [blocks EXCEPT ![context] = {}]
  /\ refused' = NoRequest
  /\ UNCHANGED <<context, held>>

connect ==
  /\ ~connected /\ context < MaxContext
  /\ connected' = TRUE
  /\ context' = context + 1
  /\ blocks' = [blocks EXCEPT ![context + 1] = NewBlocks]
  /\ refused' = NoRequest
  /\ UNCHANGED held

-----------------------------------------------------------------------------
MemoryInit ==
  /\ blocks = [c \in Context |-> IF c = 1 THEN NewBlocks ELSE {}]
  /\ context = 1 /\ connected = TRUE
  /\ held = [h \in Holder |-> Nothing]
  /\ refused = NoRequest

MemoryNext ==
  \/ \E h \in Holder, r \in Request : device_malloc(h, r)
  \/ \E h \in Holder : reset(h)
  \/ \E h, g \in Buffer : move_assign(h, g)
  \/ MoveContext
  \/ disconnect
  \/ connect

MemorySpec == MemoryInit /\ [][MemoryNext]_memoryVars

-----------------------------------------------------------------------------
TypeOK ==
  /\ blocks \in [Context -> SUBSET [offset : Nat, size : Nat, free : BOOLEAN]]
  /\ context \in Context /\ connected \in BOOLEAN
  /\ held \in [Holder -> {Nothing} \cup [addr : MemBase..managed_end,
                                          size : 1..MemSize, context : Context]]
  /\ refused \in Request \cup {NoRequest}

\* Nothing checks that the memory ends at a word and that the alignment is one
\* of words.
WordSized == DefaultAlign % 4 = 0 /\ (MemBase + MemSize) % 4 = 0

\* The list of the Context in use always cuts the managed memory into
\* disjoint blocks, with no two free neighbours.  No allocation reaches into the
\* kernels' spill area, whose address they get in words: a configuration that is
\* not word sized rounds that address down, and an allocation may share the
\* area's first word, never a further one (minigpu_runtime.cpp 284-293, 347-415,
\* 767-770, 831-842).
BlocksTile ==
  connected =>
    /\ Tiles(blocks[context], MemBase, managed_end)
    /\ \A b \in TakenOf(blocks[context]) :
         /\ WordSized => BlockEnd(b) <= 4 * spill_word
         /\ BlockEnd(b) < 4 * (spill_word + 1)

\* An allocation is refused only when no aligned run of unallocated bytes
\* could hold it, however the memory was fragmented before (347-399, 831-842).
RefusedOnlyWhenFull ==
  refused # NoRequest =>
    \A at \in MemBase..managed_end :
      (at % refused.align = 0 /\ at + AlignUp(refused.size, refused.align) <= managed_end) =>
        \E b \in TakenOf(blocks[context]) :
          b.offset < at + AlignUp(refused.size, refused.align) /\ at < BlockEnd(b)

\* Until the Context is moved or disconnected, the blocks in use are exactly
\* the allocations that a live buffer or storage holds, each held once: nothing
\* leaks and nothing is freed under its holder (347-415; tensor.cpp 46-80).
HoldersOwnBlocks ==
  context = 1 /\ connected =>
    /\ TakenOf(blocks[context]) =
         {Block(held[h].addr, held[h].size, FALSE) : h \in {g \in Holder : Live(g)}}
    /\ \A h, g \in Holder :
         (Live(h) /\ Live(g) /\ held[h].addr = held[g].addr) => h = g

\* A live tensor's memory is never handed to another holder, reconnection or
\* not (tensor.cpp 46-60: the deleter frees "the runtime allocation owned by a
\* Mini-GPU tensor").
ConnectedStorageBacked ==
  \A h \in Storage :
    (connected /\ Live(h) /\ held[h].context = context) =>
      Block(held[h].addr, held[h].size, FALSE) \in blocks[context]
=============================================================================
