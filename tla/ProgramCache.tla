---------------------------- MODULE ProgramCache ----------------------------
(***************************************************************************)
(* Launching a registered kernel: the runtime's program cache (runtime/    *)
(* src/minigpu_runtime.cpp) keeps artifacts resident in instruction memory *)
(* and uploads, validates and launches them through the transport.  A      *)
(* launch is a chain of blocking transport calls, each of which may fail;  *)
(* between two of them the device may be reset or a kernel may finish.     *)
(*                                                                         *)
(* The device side is the gate of KernelVfy seen from the packets: what a  *)
(* whole WRITE_PROGRAM, VALIDATE or LAUNCH command does to it, and that    *)
(* every NAK puts it into the error state.  Sizes and addresses are words. *)
(***************************************************************************)
EXTENDS BlockList, Sequences, FiniteSets

CONSTANTS Name,       \* kernel names that have a kernel id
          Builtin,    \* the artifact each name is registered with at first
          Later,      \* the artifacts each name may be registered with later
          Golden,     \* the program the gate's hash memory holds for each name
          Size,       \* words of each program
          ImemWords,  \* words of instruction memory (program_memory_size_ / 4)
          MaxClock,   \* bound: launches that reach the cache
          MaxFaults   \* bound: faults of the transport

\* An artifact is the name it is cached under and its program.
Program  == DOMAIN Size
Artifact == {Builtin[n] : n \in Name} \cup UNION {Later[n] : n \in Name}
Addr     == 0..(ImemWords - 1)

ASSUME ProgramCacheAssumption ==
  /\ Builtin \in [Name -> Artifact] /\ DOMAIN Later = Name
  /\ \A a \in Artifact : a.program \in Program
  /\ Golden \in [Name -> Program]
  /\ Size \in [Program -> Nat \ {0}]
  /\ ImemWords \in Nat \ {0} /\ MaxClock \in Nat
  /\ MaxFaults \in Nat

\* The cache name of a kernel is the path of its artifact: kernels that share
\* one have the same program.
ASSUME IdNamesProgram ==
  \A n, m \in Name : Builtin[n].id = Builtin[m].id => Builtin[n] = Builtin[m]

VARIABLES
  kernels, \* kernels_: the artifact registered under each name
  programBlocks,  \* program_blocks_
  cache,   \* program_cache_
  clock,   \* program_cache_clock_
  pc,      \* where the launch_kernel call in progress stands
  call,    \* its name, its artifact and the address it has found
  outcome, \* how the last call ended
  imem,    \* instruction memory
  gate,    \* state of the gate
  stream,  \* the words the gate has hashed since the load began
  busy,    \* is a kernel running?
  faults,  \* faults of the transport so far
  replaced, \* history: the cache names registered again with another artifact
  lost,    \* history: the cached ones that were cached when the board was last reset
  wasReset, \* history: was the board ever reset?
  ran,     \* history: the words this call's launch found at its slot
  late,    \* history: had the call of the kernel started last returned before it ended?
  uses     \* history: the cache names in the order of their uses

host   == <<kernels, programBlocks, cache, clock, pc, call, outcome, uses>>
device == <<imem, gate, stream, busy>>
upset  == <<replaced, lost, wasReset>>
vars   == <<host, device, ran, late, faults, upset>>

Zero     == [program |-> "zero", index |-> 0]
WordsOf(p) == [i \in 1..Size[p] |-> [program |-> p, index |-> i]]
Slot(at, n) == [i \in 1..n |-> imem[at + i - 1]]
NoCall   == [name |-> "none", art |-> [id |-> "none", program |-> "none"], at |-> 0]
NoRun    == [call |-> NoCall, words |-> << >>]

-----------------------------------------------------------------------------
(***************************************************************************)
(* The registry and the cache.                                             *)
(***************************************************************************)
Fault == faults < MaxFaults /\ faults' = faults + 1

Returns(o) == pc' = "idle" /\ outcome' = o /\ call' = NoCall

\* A name that is registered again gets the new artifact; the cache is left
\* alone.
register_kernel(n, a) ==
  /\ pc = "idle" /\ a \in Later[n]
  /\ kernels' = [kernels EXCEPT ![n] = a]
  /\ replaced' = IF a = kernels[n] THEN replaced ELSE replaced \cup {a.id}
  /\ UNCHANGED <<programBlocks, cache, clock, pc, call, outcome, uses, device, ran, late, faults, lost, wasReset>>

Used(id) == uses' = Append(uses, id)

\* Mutant: a hit does not count as a use.
Hit_unused(n) ==
  /\ pc = "idle" /\ clock < MaxClock
  /\ \E e \in cache :
       /\ e.id = kernels[n].id
       /\ cache' = cache
       /\ call' = [name |-> n, art |-> kernels[n], at |-> e.addr]
  /\ clock' = clock + 1
  /\ pc' = "launch" /\ outcome' = "none"
  /\ Used(kernels[n].id)
  /\ ran' = NoRun
  /\ UNCHANGED <<kernels, programBlocks, device, late, faults, upset>>

\* ensure_program_loaded, the artifact is resident.
Hit(n) ==
  /\ pc = "idle" /\ clock < MaxClock
  /\ \E e \in cache :
       /\ e.id = kernels[n].id
       /\ cache' = (cache \ {e}) \cup {[e EXCEPT !.last_used = clock + 1]}
       /\ call' = [name |-> n, art |-> kernels[n], at |-> e.addr]
  /\ clock' = clock + 1
  /\ pc' = "launch" /\ outcome' = "none"
  /\ Used(kernels[n].id)
  /\ ran' = NoRun
  /\ UNCHANGED <<kernels, programBlocks, device, late, faults, upset>>

\* It is not: a slot must be found, unless the artifact can never fit.
Miss(n) ==
  /\ pc = "idle" /\ clock < MaxClock
  /\ \A e \in cache : e.id # kernels[n].id
  /\ IF Size[kernels[n].program] > ImemWords
     THEN Returns("no_memory")
     ELSE /\ pc' = "allocate" /\ outcome' = "none"
          /\ call' = [name |-> n, art |-> kernels[n], at |-> 0]
  /\ ran' = NoRun
  /\ UNCHANGED <<kernels, programBlocks, cache, clock, uses, device, late, faults, upset>>

Needed  == Size[call.art.program]
FittingPrograms == {b \in FreeOf(programBlocks) : b.size >= Needed}

\* allocate_program_slot: the first block that is large enough.
Place ==
  /\ pc = "allocate" /\ FittingPrograms # {}
  /\ LET b == First(FittingPrograms)
     IN /\ programBlocks' = Carve(programBlocks, b, b.offset, Needed)
        /\ call' = [call EXCEPT !.at = b.offset]
  /\ pc' = "write"
  /\ UNCHANGED <<kernels, cache, clock, outcome, uses, device, ran, late, faults, upset>>

\* Mutant: the victim stays in the cache after its block is freed.
Evict_keepEntry ==
  /\ pc = "allocate" /\ FittingPrograms = {} /\ cache # {}
  /\ LET victim == CHOOSE e \in cache : \A f \in cache : e.last_used <= f.last_used
         block  == Block(victim.addr, victim.size, FALSE)
     IN /\ cache' = cache
        /\ programBlocks' = IF block \in programBlocks THEN Give(programBlocks, block) ELSE programBlocks
  /\ UNCHANGED <<kernels, clock, pc, call, outcome, uses, device, ran, late, faults, upset>>

\* Mutant: the freed block is not merged with its free neighbours.
Evict_scattered ==
  /\ pc = "allocate" /\ FittingPrograms = {} /\ cache # {}
  /\ LET victim == CHOOSE e \in cache : \A f \in cache : e.last_used <= f.last_used
         block  == Block(victim.addr, victim.size, FALSE)
     IN /\ cache' = cache \ {victim}
        /\ programBlocks' = (programBlocks \ {block}) \cup {[block EXCEPT !.free = TRUE]}
        /\ lost' = lost \ {victim.id}
  /\ UNCHANGED <<kernels, clock, pc, call, outcome, uses, device, ran, late, faults, replaced, wasReset>>

\* evict_lru_program, as long as no block is large enough.
Evict ==
  /\ pc = "allocate" /\ FittingPrograms = {} /\ cache # {}
  /\ LET victim == CHOOSE e \in cache : \A f \in cache : e.last_used <= f.last_used
         block  == Block(victim.addr, victim.size, FALSE)
     IN /\ cache' = cache \ {victim}
        /\ programBlocks' = IF block \in programBlocks THEN Give(programBlocks, block) ELSE programBlocks
        /\ lost' = lost \ {victim.id}
  /\ UNCHANGED <<kernels, clock, pc, call, outcome, uses, device, ran, late, faults, replaced, wasReset>>

GiveUp ==
  /\ pc = "allocate" /\ FittingPrograms = {} /\ cache = {}
  /\ Returns("no_memory")
  /\ UNCHANGED <<kernels, programBlocks, cache, clock, uses, device, ran, late, faults, upset>>

-----------------------------------------------------------------------------
(***************************************************************************)
(* The transport calls and what they do on the device.                     *)
(***************************************************************************)
\* WRITE_PROGRAM packets pass unless the gate is in error or a verified
\* kernel is running.  The first one after a verified program begins a load.
Accepts == gate \in {"idle", "load"} \/ (gate = "execute" /\ ~busy)

Stored(words) ==
  [a \in Addr |-> IF a - call.at + 1 \in DOMAIN words THEN words[a - call.at + 1] ELSE imem[a]]

Streams(words) == stream' = (IF gate = "load" THEN stream ELSE << >>) \o words

\* The words before the failure are stored and hashed; a NAK of the gate ends
\* in its error state, silence does not.
FailedWrite ==
  LET words == WordsOf(call.art.program)
  IN \E sent \in 0..Len(words) :
       IF Accepts /\ sent > 0
       THEN /\ imem' = Stored(SubSeq(words, 1, sent)) /\ Streams(SubSeq(words, 1, sent))
            /\ gate' \in {"load", "error"}
       ELSE /\ UNCHANGED <<imem, stream>>
            /\ gate' \in {"error"} \cup (IF Accepts THEN {gate} ELSE {})

Entry == [id |-> call.art.id, addr |-> call.at, size |-> Needed,
          last_used |-> clock + 1, program |-> call.art.program]

\* Mutant: the upload goes to the start of the instruction memory.
Write_atZero ==
  /\ pc = "write" /\ Accepts
  /\ LET words == WordsOf(call.art.program)
     IN /\ imem' = [a \in Addr |-> IF a + 1 \in DOMAIN words THEN words[a + 1] ELSE imem[a]]
        /\ Streams(words)
  /\ gate' = "load" /\ pc' = "validate"
  /\ UNCHANGED <<kernels, programBlocks, cache, clock, call, outcome, uses, busy, ran, late, faults, upset>>

\* write_program, every packet acknowledged.
Write ==
  /\ pc = "write" /\ Accepts
  /\ LET words == WordsOf(call.art.program)
     IN imem' = Stored(words) /\ Streams(words)
  /\ gate' = "load" /\ pc' = "validate"
  /\ UNCHANGED <<kernels, programBlocks, cache, clock, call, outcome, uses, busy, ran, late, faults, upset>>

\* An ACK was lost and its packet sent again: the gate hashed it twice.
WriteRepeated ==
  /\ Fault /\ pc = "write" /\ Accepts
  /\ LET words == WordsOf(call.art.program)
     IN imem' = Stored(words) /\ Streams(words \o words)
  /\ gate' = "load" /\ pc' = "validate"
  /\ UNCHANGED <<kernels, programBlocks, cache, clock, call, outcome, uses, busy, ran, late, upset>>

\* Mutant: a failed upload gives up its slot and leaves a cache entry.
WriteFails_cached ==
  /\ pc = "write"
  /\ Fault \/ (~Accepts /\ UNCHANGED faults)
  /\ FailedWrite
  /\ cache' = cache \cup {Entry}
  /\ Returns("transport")
  /\ UNCHANGED <<kernels, programBlocks, clock, uses, busy, ran, late, upset>>

\* A packet was refused, or its answers were lost until the retries ran out.
\* The slot stays allocated, the cache does not know it.
WriteFails ==
  /\ pc = "write"
  /\ Fault \/ (~Accepts /\ UNCHANGED faults)
  /\ FailedWrite
  /\ Returns("transport")
  /\ UNCHANGED <<kernels, programBlocks, cache, clock, uses, busy, ran, late, upset>>

Matches == gate = "load" /\ stream = WordsOf(Golden[call.name])

\* VALIDATE is acknowledged; only now the cache learns of the artifact.
Validate ==
  /\ pc = "validate" /\ Matches
  /\ gate' = "execute" /\ pc' = "launch"
  /\ cache' = cache \cup {Entry}
  /\ clock' = clock + 1
  /\ Used(call.art.id)
  /\ UNCHANGED <<kernels, programBlocks, call, outcome, imem, stream, busy, ran, late, faults, upset>>

\* It is not: the digest differs, or the answer was lost.  A repeated request
\* is refused and ends in the error state.
ValidateFails ==
  /\ pc = "validate"
  /\ Fault \/ (~Matches /\ UNCHANGED faults)
  /\ gate' \in {"error"} \cup (IF Matches THEN {gate, "execute"} ELSE {})
  /\ Returns("transport")
  /\ UNCHANGED <<kernels, programBlocks, cache, clock, uses, imem, stream, busy, ran, late, upset>>

\* LAUNCH passes a gate that has verified a program; an idle GPU starts.
Starts ==
  /\ gate = "execute" /\ ~busy
  /\ busy' = TRUE
  /\ ran' = [call |-> call, words |-> Slot(call.at, Needed)]

Launch ==
  /\ pc = "launch" /\ Starts
  /\ pc' = "wait" /\ late' = FALSE
  /\ UNCHANGED <<kernels, programBlocks, cache, clock, call, outcome, uses, imem, gate, stream, faults, upset>>

\* The gate does not ask whether the GPU is busy: the launch is acknowledged
\* and ignored.
LaunchIgnored ==
  /\ pc = "launch" /\ gate = "execute" /\ busy
  /\ pc' = "wait"
  /\ UNCHANGED <<kernels, programBlocks, cache, clock, call, outcome, uses, device, ran, late, faults, upset>>

\* Refused, or the answer was lost and the kernel may run nevertheless.
LaunchFails ==
  /\ pc = "launch"
  /\ Fault \/ (gate # "execute" /\ UNCHANGED faults)
  /\ (Starts /\ late' = TRUE) \/ UNCHANGED <<busy, ran, late>>
  /\ gate' \in {"error"} \cup (IF gate = "execute" THEN {gate} ELSE {})
  /\ Returns("transport")
  /\ UNCHANGED <<kernels, programBlocks, cache, clock, uses, imem, stream, upset>>

\* Mutant: the launch returns without waiting.
Wait_skipped ==
  /\ pc = "wait"
  /\ Returns("ok") /\ late' = FALSE
  /\ UNCHANGED <<kernels, programBlocks, cache, clock, uses, device, ran, faults, upset>>

\* The status word shows done.
Wait ==
  /\ pc = "wait" /\ ~busy
  /\ Returns("ok") /\ late' = FALSE
  /\ UNCHANGED <<kernels, programBlocks, cache, clock, uses, device, ran, faults, upset>>

\* The timeout of the launch passed: the kernel runs on.
WaitTimesOut ==
  /\ Fault /\ pc = "wait" /\ busy
  /\ Returns("timeout") /\ late' = TRUE
  /\ UNCHANGED <<kernels, programBlocks, cache, clock, uses, device, ran, upset>>

KernelEnds ==
  /\ busy /\ busy' = FALSE
  /\ UNCHANGED <<host, imem, gate, stream, ran, late, faults, upset>>

CachedIds == {e.id : e \in cache}

\* The reset button.  The gate zeroizes the instruction memory; the host is
\* not told.
BoardReset ==
  /\ wasReset' = TRUE /\ lost' = CachedIds
  /\ imem' = [a \in Addr |-> Zero]
  /\ gate' = "idle" /\ stream' = << >> /\ busy' = FALSE
  /\ UNCHANGED <<host, ran, late, faults, replaced>>

-----------------------------------------------------------------------------
Init ==
  /\ kernels = Builtin
  /\ programBlocks = {Block(0, ImemWords, TRUE)}
  /\ cache = {} /\ clock = 0
  /\ pc = "idle" /\ call = NoCall /\ outcome = "none"
  /\ imem = [a \in Addr |-> Zero]
  /\ gate = "idle" /\ stream = << >> /\ busy = FALSE
  /\ faults = 0 /\ replaced = {} /\ lost = {} /\ wasReset = FALSE
  /\ ran = NoRun /\ late = FALSE
  /\ uses = << >>

launch_kernel ==
  \/ \E n \in Name : Hit(n) \/ Miss(n)
  \/ Place \/ Evict \/ GiveUp
  \/ Write \/ WriteRepeated \/ WriteFails
  \/ Validate \/ ValidateFails
  \/ Launch \/ LaunchIgnored \/ LaunchFails
  \/ Wait \/ WaitTimesOut

Next ==
  \/ \E n \in Name, a \in Artifact : register_kernel(n, a)
  \/ launch_kernel
  \/ KernelEnds
  \/ BoardReset

Spec == Init /\ [][Next]_vars

\* A call goes on until it returns, and kernels end.
Goes     == pc # "idle" /\ launch_kernel
FairSpec == Spec /\ WF_vars(Goes) /\ WF_vars(KernelEnds)

-----------------------------------------------------------------------------
\* The cached programs lie in distinct blocks in use, no cache name occurs
\* twice, and the blocks cut the instruction memory into disjoint pieces,
\* whatever calls failed before (minigpu_runtime.cpp 519-628).
CacheBacked ==
  /\ Tiles(programBlocks, 0, ImemWords)
  /\ \A e \in cache : Block(e.addr, e.size, FALSE) \in programBlocks
  /\ \A e, f \in cache : e = f \/ (e.id # f.id /\ e.addr # f.addr)

\* What the cache says is resident has a block of its own and is in the
\* instruction memory, word for word, after any uploads, failed ones included.
\* A reset of the board loses what was cached then, and nothing that is
\* uploaded after it (595-628).
ResidentIntact ==
  /\ CacheBacked
  /\ \A e \in cache : e.id \notin lost => Slot(e.addr, e.size) = WordsOf(e.program)

\* Without a fault of the transport, a replaced kernel or a reset no call
\* fails: every program that fits the memory is placed, verified and run
\* (549-628).
NoFaultNoFailure ==
  faults = 0 /\ replaced = {} /\ ~wasReset => outcome \in {"none", "ok"}

\* The program that goes is always the one whose last use is longest ago
\* (519-546, 600).
EvictsOldest ==
  [][ \A id \in CachedIds \ CachedIds' : \A kept \in CachedIds' :
        \A i \in 1..Len(uses) : uses[i] = id => \E j \in (i+1)..Len(uses) : uses[j] = kept ]_vars

\* A launch runs the artifact registered under its name at that time
\* (674-703, 738-794).
RunsRegistered ==
  ran.words # << >> => ran.words = WordsOf(ran.call.art.program)

\* Whatever faults, timeouts, evictions and resets came before, a launch runs
\* the registered artifact, unless its cache name was registered again with
\* another artifact or is cached since before the board was last reset: these
\* two run what was there, and no other name does (595-628, 687).
RunsIntended ==
  ran.call.art.id \notin replaced \cup lost => RunsRegistered

\* A launch that returns normally ran its own kernel, unless it was ignored:
\* the kernel of an earlier launch, whose wait timed out or whose answer was
\* lost, was still running.  Such a kernel hides one launch at most: the next
\* that returns normally ran (641-656; gpu_comm_transport.cpp 511-551; com.h
\* 15: LAUNCH "start execution").
OkMeansRan ==
  [][outcome # "ok" /\ outcome' = "ok" => ran.call = call \/ late]_vars

\* Every call returns: evictions, uploads and waits come to an end (549-592,
\* 631-672).
CallsReturn ==
  pc # "idle" ~> pc = "idle"
=============================================================================
