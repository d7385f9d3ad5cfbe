# Mini-GPU: specification, model checking and proofs

This directory holds TLA+ models of the Mini-GPU, an FPGA SIMT processor with a
kernel-verification gate, driven over a serial line by a C++ runtime and a
PyTorch backend. The modules are translated from the Verilog under
`hardware/rtl`, the transport, the runtime and the device kernels under
`runtime`, `gpu_comm`, and the storages and operators of `torch_ext`. TLC checks
them on small instances; TLAPS proves the most important results for every size.
`PROJECT.json` names, for each definition, the source lines it stands for.

## 1. The system

```
 PyTorch tensors ── runtime Context ── transport ══ serial line ══ receiver ── controller ── bus ── data memory
  (torch_ext)       (allocator,         (gpu_comm_transport,        serial_packet_rx,  |        |
                     program cache)      com.c)                     _tx                gate ── instruction memory
                                                                                        |        |
                                                                                     SHA-256    cores ── lanes
```

| Component | State it keeps | Operations | Talks to |
|---|---|---|---|
| PyTorch operators (`torch_ext/src/ops`) | none between calls; within one the tensors of the call, the launch under way, the copy back | some fifty operators: check the arguments, allocate, launch one kernel after the other, copy | runtime's launch functions |
| Launch functions (`minigpu_kernels.cpp`) and kernels (`runtime/kernels`) | of a running kernel every thread's loop variable | choose a kernel by data type, pass its constants by position; the loop every kernel is | program cache, cores |
| PyTorch backend state (`torch_ext/src/backend`) | the connected `Context`, addresses in tensor storages | connect, disconnect, allocate, free by deleter | runtime, by calls |
| Runtime: device memory (`minigpu_runtime.cpp`) | block list, spill area | aligned allocation, free, moves of buffers and of the Context | backend above |
| Runtime: program cache | kernels by name, cache entries with a clock, blocks of instruction memory | register, launch (place, evict, upload, validate, start, wait) | transport, by calls that may fail |
| Transport (`gpu_comm_transport.cpp`, `com.c`) | the packet under way, bytes left on the stream | chunked writes and reads, three attempts each, ACK/NAK | board, by packets |
| Receiver, controller, transmitter | packet fields, word counters, response pending, read engine | write data / program / constants, launch, validate, reset, read data / status | bus, gate, cores |
| Bus controller, data memory | write-done flags, owner of the last read; four banks | arbitrate host and cores | controller, cores |
| Kernel gate (`kernel_vfy.v`) with SHA-256 wrapper | FSM, kernel id, verified, fault, one buffered word | load, finalize, verify, execute, zeroize | controller by pulses, cores by `prog_we`, `launch` |
| Cores (`mini_gpu.v`, `mini_gpu_core.v`) | per warp: pc, masks, stacks, done, waiting; round-robin index | launch, schedule, 16 kinds of instruction | lanes by issue/done, memory |
| Lanes (`thread.v`, `execute.v`, shared FPU) | registers, the request under way | arithmetic, loads, stores | memory arbiter, FPU |
| Compiler (`compiler/*.py`) | none at run time | CUDA subset to ISA | cores, by programs |

What is hard in it:

* **Interleaving and pulses.** The gate, the SHA wrapper and the controller talk
  by one-cycle registered pulses; each sees the other one cycle late.
* **Unreliable delivery.** Payload words are stored before the CRC of their packet
  is known; packets and answers are lost or garbled; the host repeats requests
  the board has already executed, and never flushes its input.
* **Stale state.** A write-done flag of an earlier packet, a word counter that
  survives a refusal, a cache entry that outlives its artifact, a storage that
  outlives its connection, stacks of an earlier kernel.
* **Partial failure.** Uploads that stop half-way, zeroization interrupted, a wait
  that times out over a running kernel.
* **Barriers under divergence.** Warps that wait, branch around a barrier or exit.
* **Meaning passed by position.** An operator, a launch function and a kernel agree
  on strides, counts and pointers only by the order of arguments; a swap shows
  only where sizes differ.
* **Bounds.** Fragmented memory, full instruction memory with evictions, stacks
  of four entries.

`PROJECT.json` lists these as hazards, each at its line, with the properties
that would catch it going wrong. The correctness of each component, in words:

* gate: only a program whose digest is the golden one is ever started, a verified
  or running program does not change, a reset leaves nothing behind, every
  validation is answered;
* link: an acknowledged write is in memory, a successful read returns memory, one
  launch call starts one kernel, nothing gets stuck, and a call fails only for a
  reason outside both ends;
* cache: what it calls resident is resident, launches run what is registered,
  without faults nothing fails, and the oldest program is evicted;
* device memory: blocks tile the memory, live holders own distinct blocks, a
  request is refused only when nothing could serve it;
* operators: what a call returns is what PyTorch promises of it; nothing but its
  result changes, however it ends; what it accepts can be launched; the threads
  of a kernel leave no index out and share none; every call ends;
* bus: pipeline, banks and arbiters act as one memory on which every request is
  performed at once, asking cores are served in turn, every request is answered;
* core: every thread does what the source program says, no block comes to a stand,
  warps stay in step at barriers and get their turns, kernels end.

## 2. Modules

| Module | Models | Uses |
|---|---|---|
| `KernelVfy` | gate, SHA wrapper, instruction memory; one step = one clock cycle | – |
| `CommController` | receiver, controller, transmitter, write-done flag, data memory | – |
| `HostLink` | transport and com.c, the line and its faults | `CommController` |
| `BlockList` | the sorted list of free and taken blocks both allocators of the runtime keep | – |
| `DeviceMemory` | allocator, buffers, Contexts, tensor storages | `BlockList` |
| `ProgramCache` | program cache, launch and wait, against gate and core | `BlockList` |
| `StridedLoop` | abstract: the loop that the threads of a kernel share | – |
| `Kernels` | what every device kernel stores at every index | – |
| `TensorOps` | what every operator decides: checks, allocations, launches in order, copies | `Kernels` |
| `TorchReference` | what PyTorch promises of every operator, over index tuples | `Kernels` |
| `OpCalls` | the calls as they run; implements `StridedLoop` | `TensorOps`, `TorchReference`, `StridedLoop` |
| `CoreScheduler` | one core: scheduler, barriers, stacks, predication | – |
| `Lowering` | the compiler from basic blocks to the core's instructions; what the source means | – |
| `SharedMemory` | abstract: one memory on which requests are performed at once | – |
| `MemoryBus` | lanes' memory requests, arbiter, bus controller, banked memory; implements `SharedMemory` | `SharedMemory` |
| `MC*` | small constants for TLC; nothing but definitions | the module of the name; `MCCoreScheduler` also `Lowering` |
| `*Proofs` | the theorems about the module of the name | that module |
| `RuntimeProofs` | the theorems about `DeviceMemory` and `ProgramCache` | both, `NumbersAndBlocks` |
| `OpResultsProofs` | the theorems about what the calls of `OpCalls` return | `OpCallsProofs` |
| `NumbersAndBlocks` | lemmas about quotients, remainders and least numbers, and about `BlockList` | `BlockList` |

### KernelVfy
Every register of `kernel_vfy.v` and the handshake registers of
`sha256_wrapper.v` are variables; a step computes all next values from the
current ones, as the two `always` blocks do. Inputs are one pulse per cycle: a
program word, a launch, a validation of some kernel id, `SECURITY_RESET`, or the
board's reset. A digest is the sequence of words hashed, so equality of digests
is equality of programs (SHA-256 taken as injective). Histories: `loaded` (words
stored in this load), `resetInRun`, `unanswered`. `Paced` separates two ways of
driving it: a pulse may come in any cycle, as the module's own test bench does, or
only after everything has settled, as at UART speed (a word takes four bytes,
some 35 000 cycles).

### CommController and HostLink
`rx`, `fsm`, `rd`, `tx`, `pending`, `wordsSeen`, `hold`, `memDone` are the registers
of the receiver, controller, transmitter and bus; what takes a few cycles on the
board is one step, what takes bytes on the wire or a kernel's time is a step of
its own. The host's variables are one call (`call`) and history. `answers` is
the stream of bytes from the board: each byte knows the piece (header or tail)
it belongs to and its place in it. A call goes through send, ack, head and tail as
`send_packet`, `expect_ack` and `read_packet` do; answers are consumed
by byte counts from a stream that is never flushed, so a late answer is read as
the answer to something else when the code would. Abstractions: a request comes
whole or not at all, its length is never damaged, program and constant words
only count. The transmitter keeps the length its response began with: in the code a
read that starts under an unfinished response rewrites it (`tx_len`), which happens only
once the host has given up on an answer (`late`), and the end of such a response is
not followed byte by byte.
The notes in `seen` are exceptions a property makes, each for one documented
cause: a refusal (`naked`, `skewed`, `closed`), a data word that met a running
kernel (`raced`), an answer given up on (`late`), an answer lost or garbled
(`unheard`). The properties without exceptions are violated; these are the
findings below.

### BlockList and DeviceMemory
The list operations are `device_malloc_aligned`, `device_free`,
`coalesce_free_blocks` and their counterparts for programs. Buffers are moved by
assignment, Contexts by construction; a storage keeps only an address and frees
it into the Context that is connected at that time. The spill area is cut off
the end as the constructor does. The module's own `Init`, `Next` and `Spec` are
called `MemoryInit`, `MemoryNext` and `MemorySpec`, so that one module of proofs can
be about it and `ProgramCache`.

### ProgramCache
A call of `launch_kernel` is a sequence of steps: lookup, eviction, placement,
upload word by word, validation, launch, wait. Each exchange with the board may
fail or be lost (`MaxFaults`); the board's side is the gate between packets and
the instruction memory. Histories: `replaced` (cache names registered again with another
artifact), `lost` (entries that were cached when the board was last reset), `wasReset`, `late`
(the call of the kernel started last returned before it ended), `ran`, `uses`.

### Kernels, TensorOps, StridedLoop, OpCalls
A call of an operator is decided by the host (`TensorOps`): `Refused` when a
`TORCH_CHECK` fails, `Crashes` when it divides by zero, or a plan: the tensors it
allocates, the launches in order with their pointers and constants, and the copy
at the end of an in-place operator. The launch functions of `minigpu_kernels.cpp`
are part of it, with their own checks (`ok`) and the kernel they choose.
`Kernels` gives for every kernel the number of iterations, whether the threads
share them, and what iteration `i` stores where, by the index arithmetic of the
`.cu` file. Numbers are terms (sums and products of the elements that went in),
so that nothing is rounded and two results are equal only when they are the same
combination of the same elements; a read outside a tensor is a term of its own. Where
an iteration stores to one place twice, as softmax does in the row that is its own, the
last store stands for both.
`OpCalls` runs the plan: `LaunchNext`, then a step per thread and iteration in any
order, `KernelDone`, and element by element the write-back. `Fail` may happen at
any host step; a kernel whose wait timed out goes on storing (`ThreadStep` in the
stage "threw"). The host is one thread in a blocking call. `TorchReference` says
what each operator promises, over index tuples and never over flat positions, and
gradients from the products of the forward operator, so that it shares no index
arithmetic with the kernels. `StridedLoop` is the loop alone, which `OpCalls`
implements (`LoopSpec`) and about which theorems hold for any number of threads.

### CoreScheduler
State of the scheduler: `state`, per warp `warpPc`, `active`, `launchMask`,
`maskStack`, `callStack`, `warpDone`, `waiting`; `selected`, `rr`, `pending`. Each
branch of `STATE_ISSUE` is an action; lanes answer in any grouping and order
(`LanesDone`). Of a lane's data one register is kept, which conditions test, and
the trace of `mark` instructions, which stand for whatever a kernel does; a
kernel's `says` tells what a thread should have marked, from its source (`Meaning`
in `Lowering`). A step
of `Schedule` includes the three cycles of a fetch, in which nothing else moves.
The wrapper builds its cores with one block each; the model has any number of
blocks, as the core itself and its test benches do.

### Lowering
A function from a program with loops, branches, early returns, barriers and helpers
to the instructions the core runs. `Clang` gives the basic blocks that Clang emits
without optimisation, from how `llvm_to_ir.py` reads them. `emit_block`, `emit_region_until`,
`emit_loop_tail` and `common_merge` are that file's functions; `ir_to_isa` and
`Assemble` keep of the other two stages which instructions a line becomes and where
branches lead. Registers are not allocated, so a then-part that has an else must
not change the condition; helpers share the caller's register instead of taking
arguments. What the Python functions refuse, or never come to an end with, has a
line `rejected`, which is no instruction, so that a kernel of the run is certainly
compiled (`CoreAssumption`). `Meaning` is independent of all this: it runs the
statements of one thread. `RunsAsWritten` compares the two on the core. The module
is recursive and is used by `MCCoreScheduler` alone, not by the proofs, which
hold for any programs.

### SharedMemory and MemoryBus
A step of `Tick` is one clock edge: the request registers of the lanes (`lane`), the
round robin between cores (`rr`), the two registers that remember whose the next
answer is (`respCore`, `respOwner`), the requests accepted at the last edge
(`pipe`), what the ports put out (`out`), the banks (`mem`), and of the host the
read engine and its request. Requests are accepted by the rule that counts ports
(`Accepted`) and meet, a cycle later, the rule that gives them ports
(`bank_ports`): two rules for one resource, as in the code. An instruction of a
core, the start and end of kernels and the host's words are steps of their own
between edges; that fetching takes longer than an answer, and sending a word
over the serial line far longer, are their guards.
`SharedMemory` promises less detail and more order: lanes are performed at once,
none overtakes a lower lane that stores to the same word, and a load is told what
it found. The refinement mapping takes as memory the banks with the accepted
stores applied, since a store is reported done before it is in its bank, and as
the value of a waiting load what the bank will give or has given it. Whose an
answer under way is, which the mapping needs, is a history field (`from`): the
hardware does not keep it, which is what goes wrong with two cores that load.

## 3. Runs

| Run | Module, configuration | Checks | Result |
|---|---|---|---|
| `gate_ports` | `MCKernelVfy`, pulses in any cycle | GateInv, LaunchAuthentic, ResetZeroizes, FaultTellsError, VerifiedFrozen, RunStable | holds |
| `gate_uart` | the same at UART pace, fair | StreamInv, StoredIsHashed, ValidateAnswered | holds |
| `link` | `MCHostLink`, one fault of five kinds | WrittenOnceAcked, ReadInTime, FailsForAReason, RefusalClosesGate, StartsAtMostOnce, NothingStuck | holds |
| `link_refused` | no faults | AckMeansWritten | violated (finding) |
| `link_late_read` | no faults | ReadReturnsMemory | violated (finding) |
| `memory` | `MCDeviceMemory` | BlocksTile, RefusedOnlyWhenFull, HoldersOwnBlocks | holds |
| `memory_reconnect` | the same | ConnectedStorageBacked | violated (finding) |
| `cache` | `MCProgramCache`, one fault, fair | ResidentIntact, NoFaultNoFailure, RunsIntended, EvictsOldest, OkMeansRan, CallsReturn | holds |
| `core` | `MCCoreScheduler`, fair | TypeOK, NoBlockStuck, BarrierInStep, InTurn, RunsAsWritten, KernelEnds | holds |
| `bus` | `MCMemoryBus`, two cores of which one loads, and the host; fair | ActsAsOneMemory (refinement of `SharedMemory`), AnswersGoHome, NotServedTwice, AllAnswered | holds |
| `bus_two_load` | two cores that load | ActsAsOneMemory | violated (finding) |
| `ops` | `MCOpCalls`, 99 calls, four threads, any host step may fail; fair | ResultMatches, OnlyResultsChange, AcceptedIsLaunchable, EachIndexOnce, CallEnds, LoopSpec (refinement of `StridedLoop`) | holds |

Bounds, and why they are enough:

* gate: two words, three addresses, two golden programs of different length and
  SHA blocks of two words, loads of up to three or four words: a load may fill,
  miss or overrun a block and the memory, match either slot or none, and be
  followed by another.
* link: four words of memory and packets of two words, so that calls of three
  words take two chunks and addresses wrap; two attempts instead of three, since a
  third repeats the second; three calls out of nine, any order: the shortest
  histories for every known failure take two.
* memory: 40 bytes with requests of 3, 6, 10 (aligned to 8) and 30 bytes, two
  buffers, one storage, two Contexts: enough to fragment, to refuse, to move and to
  reconnect.
* cache: five words of instruction memory for programs of one, two and three
  words, three names, one of which may be registered again, four uses: evictions of
  one and of several entries occur.
* core: two blocks of two warps of two lanes, stacks of four as built; seven kernels
  that contain every control structure the compiler lowers, masks three deep,
  barriers in a loop and after divergence, a loop some lanes do not come to, early
  returns in one arm and before a barrier, a helper that returns early; six faulting
  ones and two that end unevenly; loops of no, one and two rounds; two launches in
  a row, partial masks and block sizes 0, 3 and 4, so that warps are missing, half
  full and full.

* bus: three lanes and two ports, so that one, two or three lanes want a bank; four
  words in two banks, words of two bytes with full and partial masks; two cores,
  of which the second only stores, so that the arbiter is contended while answers
  have one possible owner (one core is the special case in which the second stops
  at once); five launches, instructions and host requests in any order: enough for
  a write of the host, a kernel of two or three instructions, and a read of what it
  stored.

* ops: every operator at least once on tensors of a few elements whose sizes differ
  from dimension to dimension, so that no two strides are equal and a swapped
  constant or pointer shows; strides of windows that differ; one tensor as both
  arguments (`add_`, `mul`, `copy_`, a loss); one call per kind of
  refusal; tensors without elements; windows wider than the input; class indices
  outside their row. `BlockDim` is 4, the default `block_dim` of a launch, and loops
  have fewer, as many and more iterations than threads. Calls do not depend on
  each other, so one after the other is as good as any order. The terms name the
  elements that went in, so one content stands for all.

Deadlock is not checked where the system may really stop: the bounds of calls
and launches end `link`, `cache` and `core`.

Fairness. `gate_uart`: the clock runs (`WF(Cycle)`) and the SHA core finishes its
block. `cache`: a call goes on until it returns (the host is one thread in a
blocking call) and kernels end (they are the compiler's, and `core` shows that
those end). `core`: the clocked step is taken while it can be, and memory and
lane units answer. `bus`: the clock runs (`WF(Tick)`) and a kernel without another
instruction ends; without the latter the host waits for ever, as it should. `ops`: the host goes on with
its call (one blocking thread) and each thread with its iterations (`WF` each; the
core shows that warps get their turns and kernels end). No fairness is assumed of the host's calls, of launches or of
resets.

## 4. What is proved

For any values of the constants that satisfy the modules' assumptions:

* `KernelVfyProofs`: type correctness; `GateInv`, which is inductive as a
  conjunction of five facts (the digest stands still from VERIFY on, the hash
  memory shows the requested slot when it is compared, a match is kept through
  LOCK and EXECUTE, verified or running means EXECUTE or ERROR, addresses
  zeroization has passed are zero); from it `LaunchAuthentic`, `ResetZeroizes`,
  `FaultTellsError` and the two action properties `VerifiedFrozen`, `RunStable`.
  At UART pace `StreamInv`, whose core is that every stored word of a load is in
  the digest, in the pulse to the engine or in the one-word buffer, and from it
  `StoredIsHashed`. None of the five facts is inductive alone: a match can be
  kept only because the digest stands still, and the comparison is with the
  right slot only because the hash memory's output is a cycle old.
* `CoreSchedulerProofs`: type correctness, for any program and stack depth: no
  stack grows beyond its depth (`StacksFit`, a part of `TypeOK`), no program counter or
  warp index leaves its range. `NoBlockStuck` and
  `BarrierInStep`: they are inductive together with `SelectedReady`, that the warp
  whose instruction is executed is unfinished and does not wait; without it an
  EXIT or BAR could be that of a waiting warp and the last ready one of its block
  would be lost. `InTurn`, by the invariant that the number of times a warp has
  been overtaken and the distance of its turn from the next one add up to less
  than the number of warps. `OnlyLaunchedLanesAct`: masks only ever shrink within the
  launch mask, also those on the stacks, so a lane the launch left out executes nothing.
* `NumbersAndBlocks`, `RuntimeProofs` about the device memory: lemmas about the list operations
  (`AlignUp` gives the least multiple; taking a piece out of a free block and
  giving one back, with or without a neighbour to join, keep a tiling of the
  same range without adjacent free blocks; any gap between allocations lies in
  one free block). With them `BlocksTile`, `RefusedOnlyWhenFull` and
  `HoldersOwnBlocks` are proved together with the types, for any memory,
  alignments, requests and number of holders: the lists of all Contexts, not
  only of the one in use, must tile for a move or a reconnection to keep it. The
  constructor does not check that alignment, base and size are whole words
  (minigpu_runtime.cpp:259-295), and neither is it assumed: where they are (`WordSized`)
  no allocation reaches the word at which the kernels' spill area begins, where they
  are not at most three bytes of it (`ManagedMemory`).
* `RuntimeProofs` about the program cache: `ResidentIntact` and `RunsIntended`. The invariant adds two
  parts to them: the slot an upload writes is in use and no entry's, and holds the
  program once it is validated (`LoadInv`); under a name that was not registered again
  the cache knows only the registered program (`KnownInv`). An upload leaves the others alone because blocks tile.
  What a new registration or a reset of the board spoils is kept name by name
  (`replaced`, `lost`): other names go on running what they should, and a name that is evicted and
  uploaded after a reset is right again.
  `OkMeansRan` by `OwnRunInv`, through any faults: a kernel whose call has not
  returned runs only while that call waits for it, so a call that returns normally ran, unless
  an earlier call had left its kernel behind (`late`). `EvictsOldest`,
  because every entry's clock is the place of its last use in the history.
  `NoFaultNoFailure` under `Provisioned`, with `RunInv`: as long as nothing went wrong the gate is
  in the state the call's stage expects, every taken block is an entry's or the
  call's own, and so evicting goes on until the program fits.
* `HostLinkProofs`: all six invariants that `link` checks, for any calls, sizes,
  numbers of attempts and kinds of faults. The inductive invariant is `Exchange`:
  until the host gives up on an answer, there is one exchange at a time and it is in
  one of nine phases (resting; a packet sent; taken by the receiver; worked on;
  its verdict held; an answer owed; a response served; an answer on the stream;
  silence, from which only a timeout leads). A phase says where the packet or answer
  is, that it belongs to the present chunk, and that nothing else is under way.
  There is a lemma per action, which says from which phase to which it leads. None of the
  properties is inductive by itself: an ACK means something only because no
  older one can be on the stream. `NothingStuck` and `RefusalClosesGate` follow at
  once. `StartsAtMostOnce` adds that from the start of a kernel on its ACK is on the way
  (`LaunchInHand`). `FailsForAReason` adds `Calm`: without faults a packet is lost
  only to the SEND_ACK of an earlier read, and then the receiver is open, so the
  second attempt arrives. `ReadInTime` adds that the
  response being built, the one on the stream and the host's buffer are what memory
  holds, and that nobody but a write changes memory. `WrittenOnceAcked` adds
  the word counter (`Counted`) and how far the write in progress has got
  (`Reached`), from the words taken of a packet to the ACK read by the host.
* `OpCallsProofs`, about the loop alone: `EachIndexOnce`, `NeverRunTwice`, for any
  number of threads and iterations. A thread's loop variable is congruent to its
  number and it has run exactly the smaller numbers of its class (`LoopInv`).
  About the calls, for any list of calls with any tensors: `AcceptedIsLaunchable`,
  `EachIndexOnce`, `OnlyResultsChange` and the refinement `LoopSpec`.
  One lemma per operator says that what it decides is a good plan (`PlansAreGood`):
  the checks of the launch helpers follow from its own, the kernel exists, every
  iteration stores inside the output, which is a tensor of its own. That takes what
  `NumelOf` computes (`NumelSteps`) and what each kernel stores (`CountedKernels` and
  its neighbours). The invariant `Inv` has six parts: the loop (`LoopInv`); the
  plan is the one of the call's operator (`CallInv`), without which nothing is known of
  a kernel's number of iterations; a running kernel is the one that is next
  (`RunInv`); new tensors have their elements, arguments what they had but for the
  part written back (`MemInv`); nothing is copied before the last launch ended, and
  what is copied is what the operator promises (`CopyInv`); the iterations of
  `add_` that were run have stored their sums (`SourceInv`), so that with
  `LoopsAreComplete` the last one leaves the sum complete. `MemInv` alone is not
  inductive: what is written back must be right before it is written. That every
  element of an argument has an index, so that the promise over indices covers it,
  is `EveryPosition`. The invariant was model-checked on the instance of the run
  `ops` before it was proved. Induction, over dimensions and over products, is by
  the least number without the property (`AllNumbers`).
* `OpCallsProofs` and `OpResultsProofs`, what a call returns: `ResultMatches` for all 53
  operators, for tensors of any shape, any number of threads and any order of
  theirs. The argument has two halves. The first is about
  the threads and knows no operator. `DoneInv` says that a launch which ended has
  stored what its kernel computes, and one that runs has stored it at the indices
  that were run; with `LoopsAreComplete` the last iteration makes the second the
  first. It needs of a plan only what `Sufficient` says: there are values, one
  for each launch's output, such that every launch computes its own from
  the values of the earlier ones, and the last are what the reference asks for. `add_`,
  `copy_` and `fill_` also write back, and have their results from `OnlyResultsChange`
  (`InPlaceMatches`); the conversion returns what it copied (`ConvertedInv`).
  The second half is one lemma per kind of operator, that its plan is sufficient. Kernels
  count positions and the reference counts indices, so that these are theorems about
  numbering: a position is row times columns plus column (`RowOfPosition`), positions and
  indices are one to one (`PositionsAndIndices`), a row's places are the indices that
  differ in the last dimension only (`RowIsItsPlaces`), and two sums have the same
  addends, as bags, when a bijection carries one into the other (`SameBag`). Plans of
  several launches have a rule each: launches that store element by element
  (`MapsSuffice`), or row by row (`StepsSuffice` with `RowsFill`), and the three
  gradients of which a call's mask asks for some (`GradientsSuffice`). The second launch
  of cross entropy reads what the first kept for each row, three numbers or five, so its
  values are stated over the first's (`StatsKernel`, `FinishKernel`, `DebugKernel`);
  that a class in range is a column is `ClassesAreColumns`. The pools and convolutions
  sum over windows: the kernel's places are those of the reference's products
  (`WindowPlaces`, `LineProducts`, `PlaneProducts`), as sets that a bijection joins. The convolution's gradient
  goes over every number below the product of its sizes and keeps those that lead to its
  element; the numbers' digits are the indices of the contributions the reference lists
  (`EveryLinePart`, `EveryPlanePart`, `DigitsFound`, `FiveFound`). A view keeps the
  elements, and its strides lead to them (`StridesLead`); the size it infers is the only
  one that keeps their number (`InferredIsAsked`).
* `MemoryBusProofs`: `NotServedTwice` (the core served last has the last turn);
  `PortsSuffice`, that the rule which accepts requests and the one that gives out
  ports a cycle later agree: the lanes that take ports before a lane are among
  those counted when it was accepted, so there is a port left, and of merged
  stores each byte is that of the highest lane. `AnswersGoHome` for any number
  of cores one of which loads, by `OwnInv`: only running cores wait, while they do
  nothing of the host is under way, and the loads in the pipe and at the banks
  belong to the core the registers name.
  With the same hypothesis `ActsAsOneMemory`: every step of the bus is a step of
  `SharedMemory` or changes nothing of it. `MapInv` adds to `OwnInv` what the
  mapping needs: a lane that waits has at the bank only the load it asked for
  (`SentAtBank`); the host reads every word twice, and the second read must find
  what the first found, so between the two nothing may write (`HostHeld`,
  `HostWaits`). A cycle serves every request that stands at a bank, in one step of
  `SharedMemory` (`TickIsServe`); stores to one word are merged byte by byte
  there (`HeldIs`) and by the bank's ports here (`StoredIs`), and both keep the
  highest lane's byte. With two cores that load both are false, which is the
  finding of `bus_two_load`.

The constants' assumptions are those of the modules. Most are sizes that are
positive and programs made of instructions. Two say more: `RoomBesideSpill`, that
the spill area leaves room for something else, without which the constructor throws
(minigpu_runtime.cpp:289); and `IdNamesProgram`, that kernels of one cache
id, which is the path of their artifact, have the same program (minigpu_kernels.cpp:206).
`CallsAssumption` says that every call is one PyTorch may make (`WellFormed`): an
operator that is registered, as many tensors as its signature has, one of them
perhaps several times, lists of integers, one of the four losses where a loss is named, and as many labels as a tensor of classes has
elements; shapes, types, devices and scalars are any. Tensors that overlap without being the same, as views do, are left out.
`OneLoaderIsAnswered` and `OneLoaderOneMemory` assume in their statements that one
core loads, as on the board tops, which build one core.

Three theorems have a hypothesis of their own: `CallsRunLoops` takes `Trips`, the
numbers of iterations of the abstract loop, as all of them (the run bounds them for
TLC); `NoLaunchFails` assumes `Provisioned`
(every program fits the instruction memory and the gate holds its digest), and
`CallsFailForAReason` assumes `Retries > 1` (the code's are 3): one attempt may be
lost to the SEND_ACK of an earlier read on a perfect line.

Only model-checked: liveness (`ValidateAnswered`, `CallsReturn`, `KernelEnds`,
`AllAnswered`, `CallEnds`), which the prover does not treat; and `RunsAsWritten`, which
is about given programs and a recursive compiler. The four properties of the runs that find a
violation are false, of course.

## 5. Findings

* With two cores, the default of `mini_gpu.v`, the answer to a load of the first
  core goes to the second when that one is accepted a cycle later, and the first
  waits for ever: `resp_core_q` is younger than the answer it routes
  (`bus_two_load`). The board tops build one core.
* A refused LAUNCH leaves the controller's word counter standing, and the next
  write is acknowledged but lands three words further on (`link_refused`).
* A read repeated while a kernel runs restarts the read engine under the
  transmitter, and the host accepts a mixture of words with a valid CRC
  (`link_late_read`).
* A tensor that outlives its connection frees a live block of the next
  connection (`memory_reconnect`).

Seen while modelling and not the subject of a run of their own; where a property
makes an exception for one, it says so.

Board: `SECURITY_RESET` is obeyed while
a kernel runs and rewrites the instruction memory under it, although
docs/luke-logs/kernel_vfy_log.txt:53 says that verified kernels cannot be
modified while executing (`RunStable` makes the exception the code makes); every
read of the host is made twice on the bus, since READ_START withdraws its request
a cycle late, and the second answer is ignored; a launch reaches all cores at once and a busy one ignores it; `com_read_data` (used by the
Python binding alone) sends a length without payload, which the receiver does
not expect; the ACK and NAK packets of the host have no handler in the
controller and leave the receiver waiting; a data write whose words all meet a
running kernel leaves it waiting as well; threads
beyond `NUM_WARPS * WARP_SIZE` and blocks beyond the number of cores are never run.

Runtime: registering a kernel again leaves the cached program, which is run
without an upload, and a reset of the board leaves the cache believing what was lost
(`RunsIntended` excepts these names and no others); a memory or alignment that is not
whole words makes the spill area's word address round down into the last word of the
managed memory (line 770); a launch that a kernel left behind by a timeout hides is
reported as a success (`OkMeansRan` excepts it); spill slots are numbered without
an upper bound and those of helper functions start at slot 512
(compiler/ir_to_isa.py:149), while the runtime reserves 8192 bytes;
`align_up_size` wraps for sizes near 2^64; a `connect` that fails while kernels are
registered leaves a Context over a closed device; a launch whose wait timed out
runs on and stores into an output that was freed.

Compiler: a return nested in two ifs, `if (a) { if (b) return; S } T`, is miscompiled:
`common_merge` takes the nearest block that both arms reach and not one that every
way passes, so that T and the EXIT of the whole warp come under the mask of `a` and
the lanes without `a` never run T (`RunsAsWritten` excepts it: `NestedReturn`). A
kernel whose first block does not end in a plain branch, as one that begins with an
`if` or has no loop, is refused; a `break` or `return` inside a loop makes the walk
recurse until Python stops it. A load of a local variable gives its name and not
its value, so that `x = i++` stores the incremented value (`lower_assignment`). A call
in the then-part of an if with an else spills the saved condition under the mask, and
the lanes of the else-part reload what was in memory before (`spill_all`, ir_to_isa.py). That
masks nest at most four deep is not checked.

Operators: the truncating division gives a window wider than the input an output of
one element, whose kernel reads outside the tensor, and the convolution's gradient takes an
output's gradient of any width (`ResultMatches` excepts both: `Overhangs`);
a stride of zero in pooling and the softmax of an empty last dimension divide by
zero on the host; convolutions of integers and tensors without elements are
accepted and fail at the launch (`AcceptedIsLaunchable` excepts them); argmax of an
empty tensor likewise; a label outside its row makes cross_entropy use column 0; a
failure during the write-back leaves the argument of `add_` half new;
`as_strided` builds views of any size and stride unchecked, and a copy is checked
to lie inside one block only.

## 6. Not modelled, and what is left

Not modelled:

* SHA-256 itself and the encryption cores: third-party, the latter instantiated
  nowhere. The weight gate: no top instantiates it.
* The arithmetic units, the shared FPU and rounding: a matter of arithmetic tests.
  Kernels are modelled over terms, so what overflow and rounding do to a result is
  left out.
* The compiler's registers and spills, data instructions and their encoding, and
  `ast_to_ir.py`, an older route that `minigpucc.py` does not take. Instruction decode
  and the wiring between core and lanes.
* The Python binding's read path and a stream whose packet boundaries are lost:
  packets of `HostLink` are whole.
* A second host thread: nothing in the runtime is locked but the pointer to the
  Context, and the interpreter lock, which is not in this repository, decides.
* `as_strided`, `_reshape_alias`, calls with overlapping views, and the transposed weights kept on the device.
* Demonstration tops, LEDs and debug counters, build scripts, demos.

Left, in this order:

1. A register memory with atomic reads and writes that `HostLink` implements as
   long as no exception note is taken; the phases of `HostLinkProofs` give the
   mapping.
2. The routing of requests to the shared FPU and its answers.
3. Register allocation and spills at helper calls in `Lowering`.
