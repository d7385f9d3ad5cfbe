--------------------------- MODULE CoreScheduler ---------------------------
(***************************************************************************)
(* mini_gpu_core: the scheduler of one core.  It keeps a program counter,  *)
(* an active mask, a mask stack and a call stack for every warp, issues    *)
(* one instruction of one warp at a time, in turn, and waits until all     *)
(* active lanes of it are done.  Warps of a block meet at barriers.        *)
(*                                                                         *)
(* Of the lanes' data one register is kept, which is what conditions test, *)
(* and the trace of the "mark" instructions a lane executed: they stand    *)
(* for whatever a kernel does.  Fetching takes three clock cycles in which *)
(* nothing else moves, and is part of the step that selects the warp.  The *)
(* program starts at 0: branches are relative to the program counter.  Of  *)
(* the status, the debug registers are left out (retired_count and others).*)
(***************************************************************************)
EXTENDS Integers, Sequences, FiniteSets

CONSTANTS Blocks,     \* NUM_BLOCKS
          NumWarps,   \* NUM_WARPS, warps of a block
          WarpSize,   \* WARP_SIZE
          ProgSize,   \* 2^PROG_ADDR_WIDTH
          MaskDepth,  \* MASK_STACK_DEPTH
          CallDepth,  \* CALL_STACK_DEPTH
          Kernels,    \* programs, of kind Kernel
          Masks,      \* active masks of launches
          BlockDims,  \* block dimensions of launches
          Inputs,     \* what the threads' registers hold at launch
          MaxLaunches \* bound: launches

Warps == 0..(Blocks * NumWarps - 1)
Lanes == 0..(WarpSize - 1)

Ops == {"nop", "mark", "dec", "load", "div", "bad", "pred", "predn", "bz", "bnz",
        "bra", "call", "ret", "pushm", "popm", "bar", "exit"}

IsInstruction(i) == i.op \in Ops /\ i.off \in Int

\* An instruction, its branch offset, and the name of what it marks.
I(op)           == [op |-> op, off |-> 0, name |-> "none"]
Jump(op, off)   == [op |-> op, off |-> off, name |-> "none"]
Mark(name)      == [op |-> "mark", off |-> 0, name |-> name]

ASSUME CoreAssumption ==
  /\ Blocks \in Nat \ {0} /\ NumWarps \in Nat \ {0} /\ WarpSize \in Nat \ {0}
  /\ ProgSize \in Nat \ {0} /\ MaskDepth \in Nat /\ CallDepth \in Nat
  /\ Masks \subseteq SUBSET Lanes /\ BlockDims \subseteq Nat
  /\ Inputs \subseteq [Warps -> [Lanes -> Nat]]
  /\ MaxLaunches \in Nat
  /\ \A k \in Kernels : \A pc \in 0..(Len(k.code) - 1) : IsInstruction(k.code[pc + 1])

VARIABLES
  state,      \* "idle", "schedule", "issue", "wait" or "done"
  kernel,     \* the program in program memory
  warpPc, active, launchMask, maskStack, callStack, \* registers of each warp
  warpDone, waiting,  \* warp_done_r, barrier_waiting
  selected, rr,       \* selected_idx, rr_index
  pending,    \* lanes of the issued instruction that are done
  reg,        \* the register of each lane
  fault,      \* error with unsupported or divide_by_zero, or "none"
  input,      \* history: the registers at launch
  marks,      \* history: what each lane marked
  passed,     \* history: barriers each warp has passed
  overtaken,  \* history: issues since a warp could have been issued itself
  launches    \* counter of the bound

program == <<warpPc, active, maskStack, callStack>>
barrier == <<warpDone, waiting, passed>>
lanes   == <<pending, reg, marks>>
turn    == <<selected, rr, overtaken>>
launch  == <<kernel, launchMask, input, launches>>
vars    == <<state, fault, program, barrier, lanes, turn, launch>>

-----------------------------------------------------------------------------
Block(w) == {v \in Warps : v \div NumWarps = w \div NumWarps}

\* The instruction at pc; cleared program memory holds NOPs.
At(pc) == IF pc < Len(kernel.code) THEN kernel.code[pc + 1] ELSE I("nop")
Instr  == At(warpPc[selected])

Inc(pc)      == (pc + 1) % ProgSize
Target(pc)   == (pc + 1 + Instr.off) % ProgSize
next_index(w) == (w + 1) % (Blocks * NumWarps)
wrap_index(i) == (rr + i) % (Blocks * NumWarps)

initial_warp_mask(w, mask, dim) ==
  {lane \in mask : (w % NumWarps) * WarpSize + lane < dim}

Ready(w) == ~warpDone[w] /\ ~waiting[w]

\* The first ready warp at or after rr.
First(i) == Ready(wrap_index(i)) /\ \A j \in 0..(i - 1) : ~Ready(wrap_index(j))

-----------------------------------------------------------------------------
(***************************************************************************)
(* Launching and scheduling.                                               *)
(***************************************************************************)
Init ==
  /\ state = "idle" /\ fault = "none"
  /\ kernel = [code |-> << >>, says |-> << >>]
  /\ warpPc = [w \in Warps |-> 0]
  /\ active = [w \in Warps |-> {}] /\ launchMask = active
  /\ maskStack = [w \in Warps |-> << >>] /\ callStack = maskStack
  /\ warpDone = [w \in Warps |-> TRUE] /\ waiting = [w \in Warps |-> FALSE]
  /\ selected = 0 /\ rr = 0 /\ pending = {}
  /\ reg = [w \in Warps |-> [lane \in Lanes |-> 0]] /\ input = reg
  /\ marks = [w \in Warps |-> [lane \in Lanes |-> << >>]]
  /\ passed = [w \in Warps |-> 0] /\ overtaken = passed
  /\ launches = 0

\* Mutant: the call stacks keep what an earlier kernel left on them.
ClearStacks_maskOnly == maskStack' = [w \in Warps |-> << >>] /\ UNCHANGED callStack

ClearStacks ==
  maskStack' = [w \in Warps |-> << >>] /\ callStack' = [w \in Warps |-> << >>]

\* A launch that comes while a kernel runs is not looked at.
launch_core ==
  /\ state \in {"idle", "done"} /\ launches < MaxLaunches
  /\ \E mask \in Masks, dim \in BlockDims :
       /\ launchMask' = [w \in Warps |-> initial_warp_mask(w, mask, dim)]
       /\ state' = IF \E w \in Warps : initial_warp_mask(w, mask, dim) # {}
                   THEN "schedule" ELSE "done"
  /\ kernel' \in Kernels /\ input' \in Inputs /\ reg' = input'
  /\ active' = launchMask'
  /\ warpPc' = [w \in Warps |-> 0]
  /\ ClearStacks
  /\ warpDone' = [w \in Warps |-> launchMask'[w] = {}]
  /\ waiting' = [w \in Warps |-> FALSE]
  /\ selected' = 0 /\ rr' = 0 /\ pending' = {} /\ fault' = "none"
  /\ marks' = [w \in Warps |-> [lane \in Lanes |-> << >>]]
  /\ passed' = [w \in Warps |-> 0] /\ overtaken' = passed'
  /\ launches' = launches + 1

\* An issue of warp s, as the other warps see it.
Overtakes(s) ==
  [w \in Warps |-> IF w # s /\ Ready(w) THEN overtaken[w] + 1 ELSE 0]

\* Unfinished warps that all wait at a barrier are an error.
Schedule ==
  /\ state = "schedule"
  /\ IF \E w \in Warps : Ready(w)
     THEN /\ \E i \in Warps : First(i) /\ selected' = wrap_index(i)
          /\ overtaken' = Overtakes(selected') /\ state' = "issue"
          /\ UNCHANGED fault
     ELSE /\ fault' = IF \A w \in Warps : warpDone[w] THEN fault ELSE "unsupported"
          /\ state' = "done" /\ UNCHANGED <<selected, overtaken>>
  /\ UNCHANGED <<rr, program, barrier, lanes, launch>>

-----------------------------------------------------------------------------
(***************************************************************************)
(* Instructions the scheduler executes itself, whatever the active mask.   *)
(***************************************************************************)
Issue(op) == state = "issue" /\ Instr.op = op

\* Mutant: the next turn is this warp's again.
Retire_sameWarp == state' = "schedule" /\ UNCHANGED <<turn, fault>>

\* The next turn is the next warp's.
Retire == state' = "schedule" /\ rr' = next_index(selected) /\ UNCHANGED <<selected, overtaken, fault>>

Fail(why) == state' = "done" /\ fault' = why /\ UNCHANGED turn

\* Mutant: only the warps before this one are looked at.
barrier_can_release_before ==
  \A w \in Block(selected) : w < selected => warpDone[w] \/ waiting[w]

\* All other unfinished warps of the block wait at the barrier
\* (barrier_can_release_after_current_bar, barrier_can_release_after_current_done).
barrier_can_release ==
  \A w \in Block(selected) \ {selected} : warpDone[w] \/ waiting[w]

release_block_barrier(released) ==
  /\ waiting' = [w \in Warps |-> waiting[w] /\ w \notin released]
  /\ warpPc' = [w \in Warps |-> IF w \in released THEN Inc(warpPc[w]) ELSE warpPc[w]]
  /\ passed' = [w \in Warps |-> IF w \in released THEN passed[w] + 1 ELSE passed[w]]

Waiters == {w \in Block(selected) : ~warpDone[w] /\ waiting[w]}

\* Mutant: a warp that ends does not open the barrier the others wait at.
Exit_noRelease ==
  /\ Issue("exit")
  /\ warpDone' = [warpDone EXCEPT ![selected] = TRUE]
  /\ active' = [active EXCEPT ![selected] = {}]
  /\ Retire
  /\ UNCHANGED <<warpPc, waiting, passed, maskStack, callStack, lanes, launch>>

\* The whole warp ends, its masked lanes too.
Exit ==
  /\ Issue("exit")
  /\ warpDone' = [warpDone EXCEPT ![selected] = TRUE]
  /\ active' = [active EXCEPT ![selected] = {}]
  /\ release_block_barrier(IF barrier_can_release THEN Waiters ELSE {})
  /\ Retire
  /\ UNCHANGED <<maskStack, callStack, lanes, launch>>

Bar ==
  /\ Issue("bar")
  /\ IF barrier_can_release
     THEN release_block_barrier(Waiters \cup {selected})
     ELSE waiting' = [waiting EXCEPT ![selected] = TRUE] /\ UNCHANGED <<warpPc, passed>>
  /\ Retire
  /\ UNCHANGED <<active, maskStack, callStack, warpDone, lanes, launch>>

Bra ==
  /\ Issue("bra")
  /\ warpPc' = [warpPc EXCEPT ![selected] = Target(@)]
  /\ Retire
  /\ UNCHANGED <<active, maskStack, callStack, barrier, lanes, launch>>

\* Mutant: one entry too many fits.
Call_oneMore ==
  /\ Issue("call")
  /\ IF Len(callStack[selected]) <= CallDepth
     THEN /\ callStack' = [callStack EXCEPT ![selected] = Append(@, Inc(warpPc[selected]))]
          /\ warpPc' = [warpPc EXCEPT ![selected] = Target(@)]
          /\ Retire
     ELSE Fail("unsupported") /\ UNCHANGED <<callStack, warpPc>>
  /\ UNCHANGED <<active, maskStack, barrier, lanes, launch>>

Call ==
  /\ Issue("call")
  /\ IF Len(callStack[selected]) < CallDepth
     THEN /\ callStack' = [callStack EXCEPT ![selected] = Append(@, Inc(warpPc[selected]))]
          /\ warpPc' = [warpPc EXCEPT ![selected] = Target(@)]
          /\ Retire
     ELSE Fail("unsupported") /\ UNCHANGED <<callStack, warpPc>>
  /\ UNCHANGED <<active, maskStack, barrier, lanes, launch>>

Top(stack) == stack[Len(stack)]
Pop(stack) == SubSeq(stack, 1, Len(stack) - 1)

Ret ==
  /\ Issue("ret")
  /\ IF callStack[selected] # << >>
     THEN /\ warpPc' = [warpPc EXCEPT ![selected] = Top(callStack[selected])]
          /\ callStack' = [callStack EXCEPT ![selected] = Pop(@)]
          /\ Retire
     ELSE Fail("unsupported") /\ UNCHANGED <<callStack, warpPc>>
  /\ UNCHANGED <<active, maskStack, barrier, lanes, launch>>

PushM ==
  /\ Issue("pushm")
  /\ IF Len(maskStack[selected]) < MaskDepth
     THEN /\ maskStack' = [maskStack EXCEPT ![selected] = Append(@, active[selected])]
          /\ warpPc' = [warpPc EXCEPT ![selected] = Inc(@)]
          /\ Retire
     ELSE Fail("unsupported") /\ UNCHANGED <<maskStack, warpPc>>
  /\ UNCHANGED <<active, callStack, barrier, lanes, launch>>

PopM ==
  /\ Issue("popm")
  /\ IF maskStack[selected] # << >>
     THEN /\ active' = [active EXCEPT ![selected] = Top(maskStack[selected]) \cap launchMask[selected]]
          /\ maskStack' = [maskStack EXCEPT ![selected] = Pop(@)]
          /\ warpPc' = [warpPc EXCEPT ![selected] = Inc(@)]
          /\ Retire
     ELSE Fail("unsupported") /\ UNCHANGED <<active, maskStack, warpPc>>
  /\ UNCHANGED <<callStack, barrier, lanes, launch>>

-----------------------------------------------------------------------------
(***************************************************************************)
(* Instructions the lanes execute: passed over when no lane is active.     *)
(***************************************************************************)
LaneOps == Ops \ {"bra", "call", "ret", "pushm", "popm", "bar", "exit"}

Masked ==
  /\ state = "issue" /\ Instr.op \in LaneOps /\ active[selected] = {}
  /\ warpPc' = [warpPc EXCEPT ![selected] = Inc(@)]
  /\ Retire
  /\ UNCHANGED <<active, maskStack, callStack, barrier, lanes, launch>>

IssueLanes ==
  /\ state = "issue" /\ Instr.op \in LaneOps /\ active[selected] # {}
  /\ pending' = {} /\ state' = "wait"
  /\ UNCHANGED <<fault, program, barrier, reg, marks, turn, launch>>

\* What an instruction leaves in the register of a lane; memory holds what
\* the register held at launch.
Result(lane) ==
  LET r == reg[selected][lane]
  IN CASE Instr.op = "dec" /\ r > 0 -> r - 1
       [] Instr.op = "load"         -> input[selected][lane]
       [] OTHER                     -> r

\* What the lanes in done do to their registers and traces.
Execute(done) ==
  /\ reg' = [reg EXCEPT ![selected] = [lane \in Lanes |->
                IF lane \in done THEN Result(lane) ELSE @[lane]]]
  /\ marks' = [marks EXCEPT ![selected] = [lane \in Lanes |->
                IF lane \in done /\ Instr.op = "mark" THEN Append(@[lane], Instr.name) ELSE @[lane]]]

\* condition_result_mask: the lanes whose result is not zero.
Condition ==
  {lane \in active[selected] :
     (Instr.op \in {"pred", "bnz"}) <=> (reg[selected][lane] # 0)}

\* Mutant: lanes that are not active count for a branch.
Taken_anyLane ==
  \E lane \in Lanes : Instr.op \in {"bz", "bnz"} /\ ((Instr.op = "bnz") <=> (reg[selected][lane] # 0))

Taken == Instr.op \in {"bz", "bnz"} /\ Condition # {}

Complete ==
  IF Instr.op = "bad" THEN Fail("unsupported") /\ UNCHANGED <<active, warpPc>>
  ELSE IF Instr.op = "div" /\ \E lane \in active[selected] : reg[selected][lane] = 0
  THEN Fail("divide") /\ UNCHANGED <<active, warpPc>>
  ELSE /\ active' = [active EXCEPT ![selected] =
                        IF Instr.op \in {"pred", "predn"} THEN Condition ELSE @]
       /\ warpPc' = [warpPc EXCEPT ![selected] =
                        IF Taken THEN Target(@) ELSE Inc(@)]
       /\ Retire

\* Lanes are done one after the other, or together: memory answers when it can.
LanesDone ==
  /\ state = "wait"
  /\ \E done \in SUBSET (active[selected] \ pending) :
       /\ done # {}
       /\ pending' = pending \cup done
       /\ Execute(done)
  /\ IF pending' = active[selected] THEN Complete
     ELSE UNCHANGED <<state, fault, active, warpPc, turn>>
  /\ UNCHANGED <<maskStack, callStack, barrier, launch>>

-----------------------------------------------------------------------------
Core == Schedule \/ Exit \/ Bar \/ Bra \/ Call \/ Ret \/ PushM \/ PopM
          \/ Masked \/ IssueLanes \/ LanesDone

Next == launch_core \/ Core

Spec == Init /\ [][Next]_vars

\* The clock runs, and memory and the units of a lane answer.
FairSpec == Spec /\ WF_vars(Core)

busy == state \notin {"idle", "done"}

-----------------------------------------------------------------------------
(***************************************************************************)
(* Properties.                                                             *)
(***************************************************************************)
\* No warp's stack outgrows its entries: the warps' stacks lie one behind the
\* other in one array, and an entry more is the next warp's (CALL, PUSHM).
StacksFit ==
  \A w \in Warps : Len(maskStack[w]) <= MaskDepth /\ Len(callStack[w]) <= CallDepth

\* Type correctness of the core.
TypeOK ==
  /\ state \in {"idle", "schedule", "issue", "wait", "done"}
  /\ fault \in {"none", "unsupported", "divide"}
  /\ warpPc \in [Warps -> 0..(ProgSize - 1)]
  /\ active \in [Warps -> SUBSET Lanes] /\ launchMask \in [Warps -> SUBSET Lanes]
  /\ maskStack \in [Warps -> Seq(SUBSET Lanes)]
  /\ callStack \in [Warps -> Seq(0..(ProgSize - 1))]
  /\ StacksFit
  /\ warpDone \in [Warps -> BOOLEAN] /\ waiting \in [Warps -> BOOLEAN]
  /\ selected \in Warps /\ rr \in Warps /\ pending \subseteq Lanes
  /\ reg \in [Warps -> [Lanes -> Nat]] /\ input \in [Warps -> [Lanes -> Nat]]
  /\ passed \in [Warps -> Nat] /\ overtaken \in [Warps -> Nat]
  /\ launches \in 0..MaxLaunches

\* While the core is busy, no block has come to a stand at a barrier: if any
\* of its warps is unfinished, one of them can run (STATE_SCHEDULE reports an
\* error when no warp can).
NoBlockStuck ==
  busy => \A w \in Warps : ~warpDone[w] => \E v \in Block(w) : Ready(v)

\* Unfinished warps of a block have passed the same number of barriers: none
\* leaves a barrier before all have come to it or ended (BAR, EXIT).
BarrierInStep ==
  \A w \in Warps : \A v \in Block(w) :
     ~warpDone[v] /\ ~warpDone[w] => passed[v] = passed[w]

\* A warp that could run is overtaken at most once by each other warp
\* (rr_index, wrap_index).
InTurn == \A w \in Warps : overtaken[w] < Blocks * NumWarps

\* A kernel the compiler's lowering of if, while, barrier and call gives runs
\* to its end without a fault, and every thread of the launch has then marked
\* what it would have alone, all others nothing: predication, barriers and
\* what an earlier launch left behind do not show.
RunsAsWritten ==
  (state = "done" /\ kernel.says # << >>) =>
     /\ fault = "none"
     /\ \A w \in Warps, lane \in Lanes :
          marks[w][lane] = IF lane \in launchMask[w] THEN kernel.says[input[w][lane] + 1]
                           ELSE << >>

\* A kernel without endless loops ends: busy falls.
KernelEnds == busy ~> ~busy
=============================================================================
