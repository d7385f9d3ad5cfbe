------------------------ MODULE CoreSchedulerProofs ------------------------
(***************************************************************************)
(* Proofs about the scheduler of a core, for any number of blocks, warps   *)
(* and lanes, any depth of the stacks and any program: it is type correct, *)
(* no block ever comes to a stand at a barrier, the unfinished warps of a  *)
(* block are always in step, and no warp waits longer than a round for its *)
(* turn.                                                                   *)
(*                                                                         *)
(* The second and the third are proved together with what they rest on:    *)
(* the warp of the instruction being executed is one that could be         *)
(* selected (IInv).  The last counts, with the issues a warp was overtaken *)
(* by, the warps whose turn comes before its own (TurnInv).                *)
(***************************************************************************)
EXTENDS CoreScheduler, TLAPS

\* The warp whose instruction is executed is unfinished and does not wait.
SelectedReady == state \in {"issue", "wait"} => Ready(selected)

ProgramLoaded ==
  \A pc \in 0..(Len(kernel.code) - 1) : IsInstruction(kernel.code[pc + 1])

Typed == TypeOK /\ ProgramLoaded

IInv == SelectedReady /\ NoBlockStuck /\ BarrierInStep

-----------------------------------------------------------------------------
LEMMA ModRange ==
  ASSUME NEW a \in Int, NEW n \in Nat \ {0}
  PROVE  a % n \in 0..(n - 1)
  OBVIOUS

LEMMA Sizes == /\ Blocks \in Nat \ {0} /\ NumWarps \in Nat \ {0} /\ ProgSize \in Nat \ {0}
               /\ MaxLaunches \in Nat /\ MaskDepth \in Nat /\ CallDepth \in Nat
  BY CoreAssumption DEF CoreAssumption

LEMMA WarpCount == Blocks * NumWarps \in Nat \ {0}
  BY Sizes

\* The same for the number of warps, a product the solvers should not open.
LEMMA WarpRange == \A a \in Int : a % (Blocks * NumWarps) \in Warps
  <1> DEFINE n == Blocks * NumWarps
  <1>1. n \in Nat \ {0}
    BY WarpCount
  <1>2. Warps = 0..(n - 1)
    BY DEF Warps
  <1> HIDE DEF n
  <1>3. \A a \in Int : a % n \in Warps
    BY <1>1, <1>2, ModRange
  <1> QED BY <1>3 DEF n

LEMMA WarpsAreInts == \A w \in Warps : w \in Int
  BY WarpCount DEF Warps

\* What the arithmetic of program counters and warp indices yields.
LEMMA IndexTypes ==
  ASSUME Typed
  PROVE  /\ \A pc \in 0..(ProgSize - 1) : Inc(pc) \in 0..(ProgSize - 1)
         /\ IsInstruction(Instr)
         /\ \A pc \in 0..(ProgSize - 1) : Target(pc) \in 0..(ProgSize - 1)
         /\ \A w \in Warps : next_index(w) \in Warps
         /\ \A i \in Warps : wrap_index(i) \in Warps
  <1>1. \A pc \in 0..(ProgSize - 1) : Inc(pc) \in 0..(ProgSize - 1)
    BY Sizes, ModRange DEF Inc
  <1>2. IsInstruction(Instr)
    <2>1. warpPc[selected] \in 0..(ProgSize - 1)
      BY DEF Typed, TypeOK
    <2>2. IsInstruction(I("nop"))
      BY DEF I, IsInstruction, Ops
    <2>3. ASSUME warpPc[selected] < Len(kernel.code)
          PROVE  IsInstruction(kernel.code[warpPc[selected] + 1])
      BY <2>1, <2>3, Sizes DEF Typed, ProgramLoaded
    <2> QED BY <2>2, <2>3 DEF Instr, At
  <1>3. \A pc \in 0..(ProgSize - 1) : Target(pc) \in 0..(ProgSize - 1)
    <2> TAKE pc \in 0..(ProgSize - 1)
    <2>1. Instr.off \in Int
      BY <1>2 DEF IsInstruction
    <2>2. pc + 1 + Instr.off \in Int
      BY <2>1, Sizes
    <2> QED BY <2>2, Sizes, ModRange DEF Target
  <1>4. \A w \in Warps : next_index(w) \in Warps
    BY WarpRange, WarpsAreInts DEF next_index
  <1>5. \A i \in Warps : wrap_index(i) \in Warps
    <2>1. rr \in Int
      BY WarpsAreInts DEF Typed, TypeOK
    <2> TAKE i \in Warps
    <2>2. rr + i \in Int
      BY <2>1, WarpsAreInts
    <2> QED BY <2>2, WarpRange DEF wrap_index
  <1> QED BY <1>1, <1>2, <1>3, <1>4, <1>5

-----------------------------------------------------------------------------
(***************************************************************************)
(* Type correctness.                                                       *)
(***************************************************************************)
LEMMA WarpZero == 0 \in Warps
  BY WarpCount DEF Warps

LEMMA TypeInit == ASSUME Init PROVE Typed
  <1>1. ProgramLoaded
    BY DEF Init, ProgramLoaded
  <1>2. TypeOK
    <2>1. StacksFit
      BY Sizes DEF Init, StacksFit
    <2> QED BY <2>1, Sizes, WarpZero DEF Init, TypeOK
  <1> QED BY <1>1, <1>2 DEF Typed

\* The masks a launch gives the warps are sets of lanes.
LEMMA MaskTypes ==
  \A w \in Warps, mask \in Masks, dim \in BlockDims : initial_warp_mask(w, mask, dim) \subseteq Lanes
  BY CoreAssumption DEF CoreAssumption, initial_warp_mask

LEMMA TypeLaunch == ASSUME Typed, launch_core PROVE Typed'
  <1>1. launchMask' \in [Warps -> SUBSET Lanes]
    BY MaskTypes DEF launch_core
  <1>2. ProgramLoaded'
    BY CoreAssumption DEF launch_core, ProgramLoaded, CoreAssumption
  <1>3. reg' \in [Warps -> [Lanes -> Nat]] /\ input' \in [Warps -> [Lanes -> Nat]]
    BY CoreAssumption DEF launch_core, CoreAssumption
  <1>4. state' \in {"schedule", "done"}
    BY DEF launch_core
  <1>5. /\ warpPc' \in [Warps -> 0..(ProgSize - 1)]
        /\ maskStack' \in [Warps -> Seq(SUBSET Lanes)]
        /\ callStack' \in [Warps -> Seq(0..(ProgSize - 1))]
        /\ warpDone' \in [Warps -> BOOLEAN] /\ waiting' \in [Warps -> BOOLEAN]
        /\ passed' \in [Warps -> Nat] /\ overtaken' \in [Warps -> Nat]
    BY Sizes DEF launch_core, ClearStacks
  <1>6. /\ active' = launchMask' /\ selected' = 0 /\ rr' = 0 /\ pending' = {}
        /\ fault' = "none" /\ launches' \in 0..MaxLaunches
    BY Sizes DEF launch_core, Typed, TypeOK
  <1>7. StacksFit'
    BY Sizes DEF launch_core, ClearStacks, StacksFit
  <1> QED BY <1>1, <1>2, <1>3, <1>4, <1>5, <1>6, <1>7, WarpZero DEF Typed, TypeOK

\* An update of a function at one point.
LEMMA UpdateType ==
  ASSUME NEW S, NEW T, NEW f \in [S -> T], NEW s, NEW v \in T
  PROVE  [f EXCEPT ![s] = v] \in [S -> T]
  OBVIOUS

LEMMA OvertakesType == ASSUME Typed PROVE \A s : Overtakes(s) \in [Warps -> Nat]
  <1> TAKE s
  <1>1. \A w \in Warps : overtaken[w] + 1 \in Nat
    <2>1. overtaken \in [Warps -> Nat]
      BY DEF Typed, TypeOK
    <2> QED BY <2>1
  <1> QED BY <1>1 DEF Overtakes

LEMMA ReleaseTypes ==
  ASSUME Typed, NEW released, release_block_barrier(released)
  PROVE  /\ warpPc' \in [Warps -> 0..(ProgSize - 1)]
         /\ waiting' \in [Warps -> BOOLEAN] /\ passed' \in [Warps -> Nat]
  <1>1. \A w \in Warps : warpPc[w] \in 0..(ProgSize - 1)
    BY DEF Typed, TypeOK
  <1>2. \A w \in Warps : Inc(warpPc[w]) \in 0..(ProgSize - 1)
    BY <1>1, IndexTypes
  <1>3. warpPc' \in [Warps -> 0..(ProgSize - 1)]
    BY <1>1, <1>2 DEF release_block_barrier
  <1>4. \A w \in Warps : passed[w] \in Nat /\ passed[w] + 1 \in Nat
    <2>1. passed \in [Warps -> Nat]
      BY DEF Typed, TypeOK
    <2> QED BY <2>1
  <1>5. passed' \in [Warps -> Nat]
    BY <1>4 DEF release_block_barrier
  <1>6. waiting' \in [Warps -> BOOLEAN]
    BY DEF release_block_barrier
  <1> QED BY <1>3, <1>5, <1>6

\* What is known of the selected warp.
LEMMA SelectedTypes ==
  ASSUME Typed
  PROVE  /\ selected \in Warps
         /\ warpPc \in [Warps -> 0..(ProgSize - 1)] /\ active \in [Warps -> SUBSET Lanes]
         /\ maskStack \in [Warps -> Seq(SUBSET Lanes)]
         /\ callStack \in [Warps -> Seq(0..(ProgSize - 1))]
         /\ Inc(warpPc[selected]) \in 0..(ProgSize - 1)
         /\ Target(warpPc[selected]) \in 0..(ProgSize - 1)
  <1>1. /\ selected \in Warps
        /\ warpPc \in [Warps -> 0..(ProgSize - 1)] /\ active \in [Warps -> SUBSET Lanes]
        /\ maskStack \in [Warps -> Seq(SUBSET Lanes)]
        /\ callStack \in [Warps -> Seq(0..(ProgSize - 1))]
    BY DEF Typed, TypeOK
  <1>2. warpPc[selected] \in 0..(ProgSize - 1)
    BY <1>1
  <1> QED BY <1>1, <1>2, IndexTypes

\* Stacks that are left alone, and one that is popped or pushed.
LEMMA KeptStacks ==
  ASSUME StacksFit, UNCHANGED <<maskStack, callStack>> PROVE StacksFit'
  BY DEF StacksFit

LEMMA OtherStack ==
  ASSUME Typed, NEW s,
         \/ /\ UNCHANGED maskStack /\ callStack' = [callStack EXCEPT ![selected] = s]
            /\ Len(s) <= CallDepth
         \/ /\ UNCHANGED callStack /\ maskStack' = [maskStack EXCEPT ![selected] = s]
            /\ Len(s) <= MaskDepth
  PROVE  StacksFit'
  BY SelectedTypes DEF Typed, TypeOK, StacksFit

LEMMA TypeSchedule == ASSUME Typed, Schedule PROVE Typed'
  <1>1. UNCHANGED <<rr, program, barrier, lanes, launch>>
    BY DEF Schedule
  <1>2. ProgramLoaded'
    BY <1>1 DEF Typed, ProgramLoaded, launch
  <1>3. selected' \in Warps /\ overtaken' \in [Warps -> Nat]
    <2>1. CASE \E w \in Warps : Ready(w)
      <3>1. selected' \in Warps
        BY <2>1, IndexTypes DEF Schedule
      <3>2. overtaken' = Overtakes(selected')
        BY <2>1 DEF Schedule
      <3> QED BY <3>1, <3>2, OvertakesType
    <2>2. CASE ~\E w \in Warps : Ready(w)
      BY <2>2 DEF Schedule, Typed, TypeOK
    <2> QED BY <2>1, <2>2
  <1>4. state' \in {"issue", "done"} /\ fault' \in {"none", "unsupported", "divide"}
    BY DEF Schedule, Typed, TypeOK
  <1>5. StacksFit'
    BY <1>1, KeptStacks DEF Typed, TypeOK, program
  <1> QED BY <1>1, <1>2, <1>3, <1>4, <1>5
      DEF Typed, TypeOK, program, barrier, lanes, launch

\* The part of the state that an instruction leaves alone, or moves in a way
\* all instructions share.
Common ==
  /\ UNCHANGED launch
  /\ selected' = selected /\ overtaken' = overtaken /\ rr' \in {rr, next_index(selected)}
  /\ state' \in {"schedule", "wait", "done"} /\ fault' \in {fault, "unsupported", "divide"}

LEMMA TypeCommon ==
  ASSUME Typed, Common,
         warpPc' \in [Warps -> 0..(ProgSize - 1)], active' \in [Warps -> SUBSET Lanes],
         maskStack' \in [Warps -> Seq(SUBSET Lanes)],
         callStack' \in [Warps -> Seq(0..(ProgSize - 1))], StacksFit',
         warpDone' \in [Warps -> BOOLEAN], waiting' \in [Warps -> BOOLEAN],
         passed' \in [Warps -> Nat],
         pending' \subseteq Lanes, reg' \in [Warps -> [Lanes -> Nat]]
  PROVE  Typed'
  <1>1. ProgramLoaded'
    BY DEF Common, Typed, ProgramLoaded, launch
  <1>2. rr' \in Warps
    <2>1. rr \in Warps /\ next_index(selected) \in Warps
      BY IndexTypes DEF Typed, TypeOK
    <2> QED BY <2>1 DEF Common
  <1> QED BY <1>1, <1>2 DEF Common, Typed, TypeOK, launch

LEMMA TypeExit == ASSUME Typed, Exit PROVE Typed'
  <1>1. Common
    BY DEF Exit, Retire, Common
  <1>3. /\ warpPc' \in [Warps -> 0..(ProgSize - 1)]
        /\ waiting' \in [Warps -> BOOLEAN] /\ passed' \in [Warps -> Nat]
    BY ReleaseTypes DEF Exit
  <1>4. warpDone' \in [Warps -> BOOLEAN] /\ active' \in [Warps -> SUBSET Lanes]
    BY DEF Exit, Typed, TypeOK
  <1> QED BY <1>1, <1>3, <1>4, TypeCommon, KeptStacks DEF Exit, lanes, Typed, TypeOK

LEMMA TypeBar == ASSUME Typed, Bar PROVE Typed'
  <1>1. Common
    BY DEF Bar, Retire, Common
  <1>3. /\ warpPc' \in [Warps -> 0..(ProgSize - 1)]
        /\ waiting' \in [Warps -> BOOLEAN] /\ passed' \in [Warps -> Nat]
    <2>1. CASE barrier_can_release
      BY <2>1, ReleaseTypes DEF Bar
    <2>2. CASE ~barrier_can_release
      <3>1. waiting' = [waiting EXCEPT ![selected] = TRUE] /\ UNCHANGED <<warpPc, passed>>
        BY <2>2 DEF Bar
      <3> QED BY <3>1 DEF Typed, TypeOK
    <2> QED BY <2>1, <2>2
  <1> QED BY <1>1, <1>3, TypeCommon, KeptStacks DEF Bar, lanes, Typed, TypeOK

LEMMA TypeBra == ASSUME Typed, Bra PROVE Typed'
  <1>1. Common
    BY DEF Bra, Retire, Common
  <1>2. warpPc' \in [Warps -> 0..(ProgSize - 1)]
    BY SelectedTypes, UpdateType DEF Bra
  <1> QED BY <1>1, <1>2, TypeCommon, KeptStacks DEF Bra, lanes, barrier, Typed, TypeOK

LEMMA TypeCall == ASSUME Typed, Call PROVE Typed'
  <1>1. Common
    BY DEF Call, Retire, Fail, turn, Common
  <1>3. warpPc' \in [Warps -> 0..(ProgSize - 1)]
    <2>1. warpPc' = warpPc \/ warpPc' = [warpPc EXCEPT ![selected] = Target(@)]
      BY DEF Call
    <2> QED BY <2>1, SelectedTypes, UpdateType
  <1>4. callStack' \in [Warps -> Seq(0..(ProgSize - 1))]
    <2>1. Append(callStack[selected], Inc(warpPc[selected])) \in Seq(0..(ProgSize - 1))
      BY SelectedTypes
    <2>2. \/ callStack' = callStack
          \/ callStack' = [callStack EXCEPT ![selected] = Append(@, Inc(warpPc[selected]))]
      BY DEF Call
    <2> QED BY <2>1, <2>2, SelectedTypes, UpdateType
  <1>5. StacksFit'
    <2> DEFINE s == Append(callStack[selected], Inc(warpPc[selected]))
    <2>1. CASE Len(callStack[selected]) < CallDepth
      <3>1. callStack' = [callStack EXCEPT ![selected] = s] /\ UNCHANGED maskStack
        BY <2>1 DEF Call
      <3>2. Len(s) <= CallDepth
        BY <2>1, SelectedTypes, Sizes
      <3> HIDE DEF s
      <3> QED BY <3>1, <3>2, OtherStack
    <2>2. CASE ~(Len(callStack[selected]) < CallDepth)
      BY <2>2, KeptStacks DEF Call, Typed, TypeOK
    <2> QED BY <2>1, <2>2
  <1> QED BY <1>1, <1>3, <1>4, <1>5, TypeCommon DEF Call, lanes, barrier, Typed, TypeOK

\* The two ends of a stack that is not empty.
LEMMA StackTypes ==
  ASSUME NEW S, NEW stack \in Seq(S), stack # << >>
  PROVE  Top(stack) \in S /\ Pop(stack) \in Seq(S) /\ Len(Pop(stack)) <= Len(stack)
  BY DEF Top, Pop

LEMMA TypeRet == ASSUME Typed, Ret PROVE Typed'
  <1>1. Common
    BY DEF Ret, Retire, Fail, turn, Common
  <1>2. callStack[selected] \in Seq(0..(ProgSize - 1))
    BY DEF Typed, TypeOK
  <1>3. CASE callStack[selected] = << >>
    BY <1>1, <1>3, TypeCommon, KeptStacks DEF Ret, lanes, barrier, Typed, TypeOK
  <1>4. CASE callStack[selected] # << >>
    <2>1. /\ Top(callStack[selected]) \in 0..(ProgSize - 1)
          /\ Pop(callStack[selected]) \in Seq(0..(ProgSize - 1))
          /\ Len(Pop(callStack[selected])) <= Len(callStack[selected])
      BY <1>2, <1>4, StackTypes
    <2>2. /\ warpPc' \in [Warps -> 0..(ProgSize - 1)]
          /\ callStack' \in [Warps -> Seq(0..(ProgSize - 1))]
      <3>1. /\ warpPc' = [warpPc EXCEPT ![selected] = Top(callStack[selected])]
            /\ callStack' = [callStack EXCEPT ![selected] = Pop(callStack[selected])]
        BY <1>4 DEF Ret
      <3>2. warpPc' \in [Warps -> 0..(ProgSize - 1)]
        BY <2>1, <3>1, SelectedTypes, UpdateType
      <3>3. callStack' \in [Warps -> Seq(0..(ProgSize - 1))]
        BY <2>1, <3>1, SelectedTypes, UpdateType
      <3> QED BY <3>2, <3>3
    <2>3. StacksFit'
      <3> DEFINE s == Pop(callStack[selected])
      <3>1. callStack' = [callStack EXCEPT ![selected] = s] /\ UNCHANGED maskStack
        BY <1>4 DEF Ret
      <3>2. Len(s) <= CallDepth
        BY <1>2, <2>1, SelectedTypes, Sizes DEF Typed, TypeOK, StacksFit
      <3> HIDE DEF s
      <3> QED BY <3>1, <3>2, OtherStack
    <2> QED BY <1>1, <2>2, <2>3, TypeCommon DEF Ret, lanes, barrier, Typed, TypeOK
  <1> QED BY <1>3, <1>4

LEMMA TypePushM == ASSUME Typed, PushM PROVE Typed'
  <1>1. Common
    BY DEF PushM, Retire, Fail, turn, Common
  <1>2. warpPc' \in [Warps -> 0..(ProgSize - 1)]
    BY SelectedTypes, UpdateType DEF PushM
  <1>3. maskStack' \in [Warps -> Seq(SUBSET Lanes)]
    <2>1. Append(maskStack[selected], active[selected]) \in Seq(SUBSET Lanes)
      BY SelectedTypes
    <2> QED BY <2>1, SelectedTypes, UpdateType DEF PushM
  <1>4. StacksFit'
    <2> DEFINE s == Append(maskStack[selected], active[selected])
    <2>1. CASE Len(maskStack[selected]) < MaskDepth
      <3>1. maskStack' = [maskStack EXCEPT ![selected] = s] /\ UNCHANGED callStack
        BY <2>1 DEF PushM
      <3>2. Len(s) <= MaskDepth
        BY <2>1, SelectedTypes, Sizes
      <3> HIDE DEF s
      <3> QED BY <3>1, <3>2, OtherStack
    <2>2. CASE ~(Len(maskStack[selected]) < MaskDepth)
      BY <2>2, KeptStacks DEF PushM, Typed, TypeOK
    <2> QED BY <2>1, <2>2
  <1> QED BY <1>1, <1>2, <1>3, <1>4, TypeCommon DEF PushM, lanes, barrier, Typed, TypeOK

LEMMA TypePopM == ASSUME Typed, PopM PROVE Typed'
  <1>1. Common
    BY DEF PopM, Retire, Fail, turn, Common
  <1>2. warpPc' \in [Warps -> 0..(ProgSize - 1)]
    BY SelectedTypes, UpdateType DEF PopM
  <1>3. maskStack[selected] \in Seq(SUBSET Lanes)
    BY DEF Typed, TypeOK
  <1>4. CASE maskStack[selected] = << >>
    BY <1>1, <1>4, TypeCommon, KeptStacks DEF PopM, lanes, barrier, Typed, TypeOK
  <1>5. CASE maskStack[selected] # << >>
    <2>1. /\ Top(maskStack[selected]) \in SUBSET Lanes /\ Pop(maskStack[selected]) \in Seq(SUBSET Lanes)
          /\ Len(Pop(maskStack[selected])) <= Len(maskStack[selected])
      BY <1>3, <1>5, StackTypes
    <2>2. Top(maskStack[selected]) \cap launchMask[selected] \in SUBSET Lanes
      BY <2>1
    <2>3. /\ active' \in [Warps -> SUBSET Lanes]
          /\ maskStack' \in [Warps -> Seq(SUBSET Lanes)]
      <3>1. /\ active' = [active EXCEPT ![selected] = Top(maskStack[selected]) \cap launchMask[selected]]
            /\ maskStack' = [maskStack EXCEPT ![selected] = Pop(maskStack[selected])]
        BY <1>5 DEF PopM
      <3>2. active' \in [Warps -> SUBSET Lanes]
        BY <2>2, <3>1, SelectedTypes, UpdateType
      <3>3. maskStack' \in [Warps -> Seq(SUBSET Lanes)]
        BY <2>1, <3>1, SelectedTypes, UpdateType
      <3> QED BY <3>2, <3>3
    <2>4. StacksFit'
      <3> DEFINE s == Pop(maskStack[selected])
      <3>1. maskStack' = [maskStack EXCEPT ![selected] = s] /\ UNCHANGED callStack
        BY <1>5 DEF PopM
      <3>2. Len(s) <= MaskDepth
        BY <1>3, <2>1, SelectedTypes, Sizes DEF Typed, TypeOK, StacksFit
      <3> HIDE DEF s
      <3> QED BY <3>1, <3>2, OtherStack
    <2> QED BY <1>1, <1>2, <2>3, <2>4, TypeCommon DEF PopM, lanes, barrier, Typed, TypeOK
  <1> QED BY <1>4, <1>5

LEMMA TypeMasked == ASSUME Typed, Masked PROVE Typed'
  <1>1. Common
    BY DEF Masked, Retire, Common
  <1>2. warpPc' \in [Warps -> 0..(ProgSize - 1)]
    BY SelectedTypes, UpdateType DEF Masked
  <1> QED BY <1>1, <1>2, TypeCommon, KeptStacks DEF Masked, lanes, barrier, Typed, TypeOK

LEMMA TypeIssueLanes == ASSUME Typed, IssueLanes PROVE Typed'
  <1>1. Common
    BY DEF IssueLanes, turn, Common
  <1> QED BY <1>1, TypeCommon, KeptStacks DEF IssueLanes, program, barrier, Typed, TypeOK

LEMMA TypeLanesDone == ASSUME Typed, LanesDone PROVE Typed'
  <1>1. Common
    BY DEF LanesDone, Complete, Retire, Fail, turn, Common
  <1>3. Condition \subseteq Lanes
    BY DEF Condition, Typed, TypeOK
  <1>4. warpPc' \in [Warps -> 0..(ProgSize - 1)] /\ active' \in [Warps -> SUBSET Lanes]
    <2>1. CASE UNCHANGED <<active, warpPc>>
      BY <2>1, SelectedTypes
    <2>2. CASE ~UNCHANGED <<active, warpPc>>
      <3>1. /\ active' = [active EXCEPT ![selected] =
                            IF Instr.op \in {"pred", "predn"} THEN Condition ELSE @]
            /\ warpPc' = [warpPc EXCEPT ![selected] = IF Taken THEN Target(@) ELSE Inc(@)]
        BY <2>2 DEF LanesDone, Complete
      <3> QED BY <1>3, <3>1, SelectedTypes, UpdateType
    <2> QED BY <2>1, <2>2
  <1>5. pending' \subseteq Lanes
    BY DEF LanesDone, Typed, TypeOK
  <1>6. reg' \in [Warps -> [Lanes -> Nat]]
    <2>1. Execute(pending' \ pending)
      BY DEF LanesDone, Execute
    <2> DEFINE r == [lane \in Lanes |->
                       IF lane \in pending' \ pending THEN Result(lane) ELSE reg[selected][lane]]
    <2>2. reg[selected] \in [Lanes -> Nat] /\ input[selected] \in [Lanes -> Nat]
      BY DEF Typed, TypeOK
    <2>3. \A lane \in Lanes : Result(lane) \in Nat
      BY <2>2 DEF Result
    <2>5. reg \in [Warps -> [Lanes -> Nat]] /\ r \in [Lanes -> Nat]
      BY <2>2, <2>3 DEF Typed, TypeOK
    <2>4. reg' = [reg EXCEPT ![selected] = r]
      BY <2>1 DEF Execute
    <2> HIDE DEF r
    <2> QED BY <2>4, <2>5, UpdateType
  <1> QED BY <1>1, <1>4, <1>5, <1>6, TypeCommon, KeptStacks DEF LanesDone, barrier, Typed, TypeOK

LEMMA TypeNext == ASSUME Typed, [Next]_vars PROVE Typed'
  <1>1. CASE UNCHANGED vars
    BY <1>1, KeptStacks DEF vars, program, barrier, lanes, turn, launch, Typed, TypeOK, ProgramLoaded
  <1>2. CASE Next
    BY <1>2, TypeLaunch, TypeSchedule, TypeExit, TypeBar, TypeBra, TypeCall, TypeRet, TypePushM,
       TypePopM, TypeMasked, TypeIssueLanes, TypeLanesDone DEF Next, Core
  <1> QED BY <1>1, <1>2

\* The registers of the core keep their types, every index stays in its range
\* and no warp's stack outgrows its entries, for any size of the core, any depth
\* of the stacks and any program (mini_gpu_core).
THEOREM TypeCorrect == Spec => []TypeOK
  <1>1. Init => Typed
    BY TypeInit
  <1>2. Typed /\ [Next]_vars => Typed'
    BY TypeNext
  <1>3. Typed => TypeOK
    BY DEF Typed
  <1> QED BY <1>1, <1>2, <1>3, PTL DEF Spec

-----------------------------------------------------------------------------
(***************************************************************************)
(* Barriers.                                                               *)
(***************************************************************************)
\* To be of one block is an equivalence.
LEMMA BlockRelation ==
  /\ \A w \in Warps : w \in Block(w)
  /\ \A w \in Warps : \A v \in Block(w) : v \in Warps /\ Block(v) = Block(w)
  BY DEF Block

LEMMA InvInit == ASSUME Init PROVE IInv
  BY BlockRelation DEF Init, IInv, SelectedReady, NoBlockStuck, BarrierInStep, busy

LEMMA InvLaunch == ASSUME launch_core PROVE IInv'
  <1>1. /\ waiting' = [w \in Warps |-> FALSE] /\ passed' = [w \in Warps |-> 0]
        /\ state' \notin {"issue", "wait"}
    BY DEF launch_core
  <1>2. NoBlockStuck'
    BY <1>1, BlockRelation DEF NoBlockStuck, Ready
  <1>3. BarrierInStep'
    BY <1>1, BlockRelation DEF BarrierInStep
  <1> QED BY <1>1, <1>2, <1>3 DEF IInv, SelectedReady

\* A step that leaves the barriers alone keeps what is known about them.
LEMMA BarrierKept ==
  ASSUME IInv, UNCHANGED barrier, busy' => busy
  PROVE  NoBlockStuck' /\ BarrierInStep'
  BY DEF IInv, NoBlockStuck, BarrierInStep, barrier, Ready

LEMMA InvSchedule == ASSUME Typed, IInv, Schedule PROVE IInv'
  <1>1. UNCHANGED barrier /\ busy
    BY DEF Schedule, busy
  <1>2. SelectedReady'
    <2>1. CASE \E w \in Warps : Ready(w)
      <3>1. PICK i \in Warps : First(i) /\ selected' = wrap_index(i)
        BY <2>1 DEF Schedule
      <3>2. Ready(selected')
        BY <3>1 DEF First
      <3> QED BY <1>1, <3>2 DEF SelectedReady, Ready, barrier
    <2>2. CASE ~\E w \in Warps : Ready(w)
      BY <2>2 DEF Schedule, SelectedReady
    <2> QED BY <2>1, <2>2
  <1> QED BY <1>1, <1>2, BarrierKept DEF IInv

\* What is known when the selected warp leaves or enters the barrier of its
\* block: it is ready itself, and the other blocks are not touched.
LEMMA AtBarrier ==
  ASSUME Typed, IInv, state = "issue"
  PROVE  /\ selected \in Warps /\ ~warpDone[selected] /\ ~waiting[selected] /\ busy
         /\ warpDone \in [Warps -> BOOLEAN] /\ waiting \in [Warps -> BOOLEAN]
         /\ passed \in [Warps -> Nat]
         /\ \A w \in Warps : ~warpDone[w] => \E v \in Block(w) : ~warpDone[v] /\ ~waiting[v]
  BY DEF IInv, SelectedReady, NoBlockStuck, Ready, busy, Typed, TypeOK

LEMMA InvExit == ASSUME Typed, IInv, Exit PROVE IInv'
  <1> DEFINE s == selected
             released == IF barrier_can_release THEN Waiters ELSE {}
  <1>1. state = "issue" /\ state' = "schedule"
    BY DEF Exit, Issue, Retire
  <1>2. /\ warpDone' = [warpDone EXCEPT ![s] = TRUE]
        /\ waiting' = [w \in Warps |-> waiting[w] /\ w \notin released]
        /\ passed' = [w \in Warps |-> IF w \in released THEN passed[w] + 1 ELSE passed[w]]
    BY DEF Exit, release_block_barrier
  <1>3. /\ released \subseteq Block(s)
        /\ \A w \in Block(s) \ {s} :
              barrier_can_release /\ ~warpDone[w] => w \in released
    BY DEF Waiters, barrier_can_release
  <1>4. released = {} \/ barrier_can_release
    OBVIOUS
  <1>5. \A w \in Warps : ~warpDone'[w] => ~warpDone[w] /\ w # s
    BY <1>1, <1>2, AtBarrier
  <1>6. ASSUME ~barrier_can_release
        PROVE  \E v \in Block(s) \ {s} : ~warpDone[v] /\ ~waiting[v]
    BY <1>6 DEF barrier_can_release
  <1> HIDE DEF released
  <1>7. ASSUME NEW w \in Warps, ~warpDone'[w]
        PROVE  \E v \in Block(w) : ~warpDone'[v] /\ ~waiting'[v]
    <2>1. CASE w \in Block(s) /\ barrier_can_release
      BY <1>1, <1>2, <1>3, <1>5, <1>7, <2>1, BlockRelation
    <2>2. CASE w \in Block(s) /\ ~barrier_can_release
      <3>1. PICK v \in Block(s) \ {s} : ~warpDone[v] /\ ~waiting[v]
        BY <1>6, <2>2
      <3>2. v \in Block(w) /\ v \in Warps
        BY <1>1, <2>2, <3>1, AtBarrier, BlockRelation
      <3> QED BY <1>1, <1>2, <3>1, <3>2, AtBarrier
    <2>3. CASE w \notin Block(s)
      <3>1. PICK v \in Block(w) : ~warpDone[v] /\ ~waiting[v]
        BY <1>1, <1>5, <1>7, AtBarrier
      <3>2. v \in Warps /\ v # s
        BY <1>1, <2>3, <3>1, AtBarrier, BlockRelation
      <3> QED BY <1>1, <1>2, <3>1, <3>2, AtBarrier
    <2> QED BY <2>1, <2>2, <2>3
  <1>8. ASSUME NEW w \in Warps, NEW v \in Block(w), ~warpDone'[v], ~warpDone'[w]
        PROVE  passed'[v] = passed'[w]
    <2>1. v \in Warps /\ Block(v) = Block(w)
      BY BlockRelation
    <2>2. passed[v] = passed[w] /\ ~warpDone[v] /\ ~warpDone[w] /\ v # s /\ w # s
      BY <1>5, <1>8, <2>1 DEF IInv, BarrierInStep
    <2>3. v \in released <=> w \in released
      BY <1>1, <1>3, <1>4, <2>1, <2>2, AtBarrier, BlockRelation
    <2> QED BY <1>2, <2>1, <2>2, <2>3
  <1> QED BY <1>1, <1>7, <1>8 DEF IInv, SelectedReady, NoBlockStuck, BarrierInStep, Ready

LEMMA InvBar == ASSUME Typed, IInv, Bar PROVE IInv'
  <1> DEFINE s == selected
             released == Waiters \cup {s}
  <1>1. state = "issue" /\ state' = "schedule" /\ warpDone' = warpDone
    BY DEF Bar, Issue, Retire
  <1>2. CASE barrier_can_release
    <2>1. /\ waiting' = [w \in Warps |-> waiting[w] /\ w \notin released]
          /\ passed' = [w \in Warps |-> IF w \in released THEN passed[w] + 1 ELSE passed[w]]
      BY <1>2 DEF Bar, release_block_barrier
    <2>2. /\ released \subseteq Block(s)
          /\ \A w \in Block(s) : ~warpDone[w] => w \in released
      BY <1>1, <1>2, AtBarrier, BlockRelation DEF Waiters, barrier_can_release
    <2> HIDE DEF released
    <2>3. ASSUME NEW w \in Warps, ~warpDone[w]
          PROVE  \E v \in Block(w) : ~warpDone[v] /\ ~waiting'[v]
      <3>1. CASE w \in Block(s)
        BY <2>1, <2>2, <2>3, <3>1, BlockRelation
      <3>2. CASE w \notin Block(s)
        BY <1>1, <2>1, <2>3, AtBarrier, BlockRelation
      <3> QED BY <3>1, <3>2
    <2>4. ASSUME NEW w \in Warps, NEW v \in Block(w), ~warpDone[v], ~warpDone[w]
          PROVE  passed'[v] = passed'[w]
      <3>1. v \in Warps /\ Block(v) = Block(w) /\ passed[v] = passed[w]
        BY <2>4, BlockRelation DEF IInv, BarrierInStep
      <3>2. v \in released <=> w \in released
        BY <1>1, <2>2, <2>4, <3>1, AtBarrier, BlockRelation
      <3> QED BY <2>1, <3>1, <3>2
    <2> QED BY <1>1, <2>3, <2>4 DEF IInv, SelectedReady, NoBlockStuck, BarrierInStep, Ready
  <1>3. CASE ~barrier_can_release
    <2>1. waiting' = [waiting EXCEPT ![s] = TRUE] /\ passed' = passed
      BY <1>3 DEF Bar
    <2>2. PICK u \in Block(s) \ {s} : ~warpDone[u] /\ ~waiting[u]
      BY <1>3 DEF barrier_can_release
    <2>3. ASSUME NEW w \in Warps, ~warpDone[w]
          PROVE  \E v \in Block(w) : ~warpDone[v] /\ ~waiting'[v]
      <3>1. CASE w \in Block(s)
        <4>1. u \in Block(w) /\ u \in Warps
          BY <1>1, <2>2, <3>1, AtBarrier, BlockRelation
        <4> QED BY <1>1, <2>1, <2>2, <4>1, AtBarrier
      <3>2. CASE w \notin Block(s)
        <4>1. PICK v \in Block(w) : ~warpDone[v] /\ ~waiting[v]
          BY <1>1, <2>3, AtBarrier
        <4>2. v \in Warps /\ v # s
          BY <1>1, <3>2, <4>1, AtBarrier, BlockRelation
        <4> QED BY <1>1, <2>1, <4>1, <4>2, AtBarrier
      <3> QED BY <3>1, <3>2
    <2> QED BY <1>1, <2>1, <2>3 DEF IInv, SelectedReady, NoBlockStuck, BarrierInStep, Ready
  <1> QED BY <1>2, <1>3

\* The other instructions leave the barriers alone.
LEMMA InvOther ==
  ASSUME IInv, Bra \/ Call \/ Ret \/ PushM \/ PopM \/ Masked \/ IssueLanes \/ LanesDone
  PROVE  IInv'
  <1>1. UNCHANGED barrier /\ busy
    BY DEF Bra, Call, Ret, PushM, PopM, Masked, IssueLanes, LanesDone, Issue, busy, program
  <1>2. /\ state \in {"issue", "wait"} /\ selected' = selected
    BY DEF Bra, Call, Ret, PushM, PopM, Masked, IssueLanes, LanesDone, Issue, Complete,
           Retire, Fail, turn
  <1>3. SelectedReady'
    BY <1>1, <1>2 DEF IInv, SelectedReady, Ready, barrier
  <1> QED BY <1>1, <1>3, BarrierKept DEF IInv

LEMMA InvNext == ASSUME Typed, IInv, [Next]_vars PROVE IInv'
  <1>1. CASE UNCHANGED vars
    BY <1>1, BarrierKept DEF vars, barrier, turn, IInv, SelectedReady, Ready, busy
  <1>2. CASE Next
    BY <1>2, InvLaunch, InvSchedule, InvExit, InvBar, InvOther DEF Next, Core
  <1> QED BY <1>1, <1>2

LEMMA Inductive == Spec => [](Typed /\ IInv)
  <1>1. Init => Typed /\ IInv
    BY TypeInit, InvInit
  <1>2. Typed /\ IInv /\ [Next]_vars => (Typed /\ IInv)'
    BY TypeNext, InvNext
  <1> QED BY <1>1, <1>2, PTL DEF Spec

\* No block of a busy core comes to a stand at a barrier: while one of its
\* warps is unfinished, one of them can be selected (STATE_SCHEDULE's error
\* "no warp is ready" is never reached).
THEOREM BlocksMoveOn == Spec => []NoBlockStuck
  <1>1. IInv => NoBlockStuck
    BY DEF IInv
  <1> QED BY <1>1, Inductive, PTL

\* No warp leaves a barrier before all unfinished warps of its block have come
\* to it: they have passed the same number of barriers, always.
THEOREM BarriersHold == Spec => []BarrierInStep
  <1>1. IInv => BarrierInStep
    BY DEF IInv
  <1> QED BY <1>1, Inductive, PTL

-----------------------------------------------------------------------------
(***************************************************************************)
(* Turns.  The number of issues a warp has been overtaken by and its       *)
(* distance from the next turn add up to less than the number of warps.    *)
(***************************************************************************)
\* How far warp w is from the turn of warp r, of n warps.
Ahead(r, w, n) == IF w >= r THEN w - r ELSE w - r + n

\* The warp whose turn is next.
NextTurn == IF state = "schedule" THEN rr ELSE next_index(selected)

TurnInv ==
  /\ InTurn
  /\ busy => \A w \in Warps : overtaken[w] + Ahead(NextTurn, w, Blocks * NumWarps) < Blocks * NumWarps

LEMMA WrapOnce ==
  ASSUME NEW n \in Nat \ {0}, NEW a \in 0..(2 * n - 1)
  PROVE  a % n = IF a < n THEN a ELSE a - n
  OBVIOUS

LEMMA NextWarp ==
  ASSUME NEW n \in Nat \ {0}, NEW s \in 0..(n - 1)
  PROVE  (s + 1) % n = IF s + 1 < n THEN s + 1 ELSE s + 1 - n
  OBVIOUS

\* A turn taken by the warp i steps on brings w that much nearer.
CountsDown(r, w, n) ==
  \A i \in 0..(n - 1) :
    i < Ahead(r, w, n) => Ahead((((r + i) % n) + 1) % n, w, n) = Ahead(r, w, n) - i - 1

LEMMA AheadFacts ==
  ASSUME NEW n \in Nat \ {0}, NEW r \in 0..(n - 1), NEW w \in 0..(n - 1)
  PROVE  /\ Ahead(r, w, n) \in 0..(n - 1)
         /\ (r + Ahead(r, w, n)) % n = w
         /\ CountsDown(r, w, n)
  <1>1. Ahead(r, w, n) \in 0..(n - 1)
    BY DEF Ahead
  <1>2. (r + Ahead(r, w, n)) % n = w
    BY WrapOnce DEF Ahead
  <1>3. ASSUME NEW i \in 0..(n - 1), i < Ahead(r, w, n)
        PROVE  Ahead((((r + i) % n) + 1) % n, w, n) = Ahead(r, w, n) - i - 1
    <2> DEFINE s == (r + i) % n
               t == (s + 1) % n
    <2>1. s = IF r + i < n THEN r + i ELSE r + i - n
      <3>1. \A a \in 0..(2 * n - 1) : a % n = IF a < n THEN a ELSE a - n
        BY WrapOnce
      <3>2. r + i \in 0..(2 * n - 1)
        OBVIOUS
      <3> QED BY <3>1, <3>2
    <2> HIDE DEF s
    <2>2. s \in 0..(n - 1)
      BY <2>1
    <2>3. t = IF s + 1 < n THEN s + 1 ELSE s + 1 - n
      BY <2>2, NextWarp
    <2> HIDE DEF t
    <2>4. Ahead(t, w, n) = Ahead(r, w, n) - i - 1
      BY <1>3, <2>1, <2>2, <2>3 DEF Ahead
    <2> QED BY <2>4 DEF s, t
  <1> QED BY <1>1, <1>2, <1>3 DEF CountsDown

\* The same of the warps, whose number is a product.
LEMMA WarpTurns ==
  ASSUME NEW r \in Warps, NEW w \in Warps, NEW n, n = Blocks * NumWarps
  PROVE  /\ Ahead(r, w, n) \in Warps /\ Ahead(r, w, n) < n /\ n \in Nat
         /\ (r + Ahead(r, w, n)) % n = w
         /\ \A i \in Warps : i < Ahead(r, w, n) =>
               Ahead((((r + i) % n) + 1) % n, w, n) = Ahead(r, w, n) - i - 1
  <1>1. n \in Nat \ {0}
    BY WarpCount
  <1>2. Warps = 0..(n - 1)
    BY DEF Warps
  <1>3. r \in 0..(n - 1) /\ w \in 0..(n - 1)
    BY <1>2
  <1>4. /\ Ahead(r, w, n) \in 0..(n - 1)
        /\ (r + Ahead(r, w, n)) % n = w
        /\ CountsDown(r, w, n)
    BY <1>1, <1>3, AheadFacts
  <1> QED BY <1>1, <1>2, <1>4 DEF CountsDown

LEMMA TurnInit == ASSUME Init PROVE TurnInv
  BY WarpCount DEF Init, TurnInv, InTurn, busy

LEMMA TurnLaunch == ASSUME launch_core PROVE TurnInv'
  <1>1. /\ overtaken' = [w \in Warps |-> 0] /\ rr' = 0 /\ state' \in {"schedule", "done"}
    BY DEF launch_core
  <1>2. InTurn'
    BY <1>1, WarpCount DEF InTurn
  <1>3. ASSUME state' = "schedule", NEW w \in Warps
        PROVE  overtaken'[w] + Ahead(rr', w, Blocks * NumWarps) < Blocks * NumWarps
    BY <1>1, WarpZero, WarpTurns, WarpsAreInts
  <1> QED BY <1>1, <1>2, <1>3 DEF TurnInv, busy, NextTurn

LEMMA TurnSchedule == ASSUME Typed, TurnInv, Schedule PROVE TurnInv'
  <1> DEFINE n == Blocks * NumWarps
  <1>1. CASE ~\E w \in Warps : Ready(w)
    BY <1>1 DEF Schedule, TurnInv, InTurn, busy
  <1>2. CASE \E w \in Warps : Ready(w)
    <2>1. PICK i \in Warps : First(i) /\ selected' = wrap_index(i)
      BY <1>2 DEF Schedule
    <2>2. overtaken' = Overtakes(selected') /\ state' = "issue" /\ state = "schedule"
      BY <1>2 DEF Schedule
    <2>3. rr \in Warps /\ selected' \in Warps /\ next_index(selected') \in Warps
      BY <2>1, IndexTypes DEF Typed, TypeOK
    <2> DEFINE here(w) == Ahead(rr, w, n)
               next(w) == Ahead(next_index(selected'), w, n)
    <2>4. ASSUME NEW w \in Warps
          PROVE  overtaken'[w] + next(w) < n /\ overtaken'[w] < n
      <3>1. overtaken[w] \in Nat /\ overtaken[w] + here(w) < n
        BY <2>2 DEF Typed, TypeOK, TurnInv, busy, NextTurn
      <3>2. /\ here(w) \in Warps /\ next(w) < n /\ n \in Nat /\ here(w) \in Nat /\ next(w) \in Nat
            /\ (rr + here(w)) % n = w
            /\ \A j \in Warps : j < here(w) => Ahead((((rr + j) % n) + 1) % n, w, n) = here(w) - j - 1
        BY <2>3, WarpTurns DEF Warps
      <3>3. CASE ~(w # selected' /\ Ready(w))
        <4>1. overtaken'[w] = 0
          BY <2>2, <3>3 DEF Overtakes
        <4> HIDE DEF n, next
        <4> QED BY <3>2, <4>1
      <3>4. CASE w # selected' /\ Ready(w)
        <4>1. overtaken'[w] = overtaken[w] + 1
          BY <2>2, <3>4 DEF Overtakes
        <4>2. wrap_index(here(w)) = w
          BY <3>2 DEF wrap_index
        <4>3. i \in Nat
          BY WarpCount DEF Warps
        <4>4. i < here(w)
          <5>1. here(w) # i
            BY <2>1, <3>4, <4>2
          <5>2. ~(here(w) \in 0..(i - 1))
            BY <2>1, <3>4, <4>2 DEF First
          <5> HIDE DEF here
          <5> QED BY <3>2, <4>3, <5>1, <5>2
        <4>5. next(w) = here(w) - i - 1
          <5>1. next_index(selected') = (((rr + i) % n) + 1) % n
            BY <2>1 DEF next_index, wrap_index
          <5> HIDE DEF here
          <5> QED BY <2>1, <3>2, <4>4, <5>1
        <4> HIDE DEF n, next, here
        <4> QED BY <3>1, <3>2, <4>1, <4>3, <4>5
      <3> QED BY <3>3, <3>4
    <2> QED BY <2>2, <2>4 DEF TurnInv, InTurn, NextTurn, busy
  <1> QED BY <1>1, <1>2

\* An instruction hands the turn to the warp after its own, or ends the kernel.
LEMMA TurnInstruction ==
  ASSUME TurnInv, Core, ~Schedule
  PROVE  TurnInv'
  <1>1. overtaken' = overtaken /\ selected' = selected /\ state \in {"issue", "wait"}
    BY DEF Core, Exit, Bar, Bra, Call, Ret, PushM, PopM, Masked, IssueLanes, LanesDone,
           Issue, Complete, Retire, Fail, turn
  <1>2. \/ state' = "schedule" /\ rr' = next_index(selected)
        \/ state' = "done"
        \/ state' = "wait"
    BY DEF Core, Exit, Bar, Bra, Call, Ret, PushM, PopM, Masked, IssueLanes, LanesDone,
           Issue, Complete, Retire, Fail, turn
  <1>3. busy' => NextTurn' = NextTurn
    BY <1>1, <1>2 DEF NextTurn, busy, next_index
  <1> QED BY <1>1, <1>2, <1>3 DEF TurnInv, InTurn, busy

LEMMA TurnNext == ASSUME Typed, TurnInv, [Next]_vars PROVE TurnInv'
  <1>1. CASE UNCHANGED vars
    BY <1>1 DEF vars, turn, TurnInv, InTurn, busy, NextTurn, next_index
  <1>2. CASE Next
    BY <1>2, TurnLaunch, TurnSchedule, TurnInstruction DEF Next
  <1> QED BY <1>1, <1>2

\* A warp that could be issued is overtaken by fewer instructions than there
\* are warps, for any number of them: the scan that starts after the warp of
\* the last instruction starves none.
THEOREM TurnsAreFair == Spec => []InTurn
  <1>1. Init => Typed /\ TurnInv
    BY TypeInit, TurnInit
  <1>2. Typed /\ TurnInv /\ [Next]_vars => (Typed /\ TurnInv)'
    BY TypeNext, TurnNext
  <1>3. TurnInv => InTurn
    BY DEF TurnInv
  <1> QED BY <1>1, <1>2, <1>3, PTL DEF Spec

-----------------------------------------------------------------------------
(***************************************************************************)
(* Predication.                                                            *)
(***************************************************************************)
\* No program can bring a lane to life that the launch left out, or a warp
\* that has ended: mask stacks keep what an earlier divergence left, but a
\* restored mask is cut to the launch's.
OnlyThreadsAct ==
  \A w \in Warps :
    /\ active[w] \subseteq launchMask[w]
    /\ warpDone[w] => active[w] = {}
    /\ \A lane \in Lanes \ launchMask[w] :
         marks[w][lane] = << >> /\ reg[w][lane] = input[w][lane]

ThreadsInv ==
  /\ OnlyThreadsAct
  /\ DOMAIN marks = Warps /\ \A w \in Warps : DOMAIN marks[w] = Lanes

LEMMA ThreadsInit == ASSUME Init PROVE ThreadsInv
  BY DEF Init, ThreadsInv, OnlyThreadsAct

LEMMA ThreadsLaunch == ASSUME launch_core PROVE ThreadsInv'
  <1>1. /\ active' = launchMask' /\ warpDone' = [w \in Warps |-> launchMask'[w] = {}]
        /\ marks' = [w \in Warps |-> [lane \in Lanes |-> << >>]] /\ reg' = input'
    BY DEF launch_core
  <1> QED BY <1>1 DEF ThreadsInv, OnlyThreadsAct

\* The instructions that give the selected warp fewer lanes, or the same, and
\* leave the lanes' data alone.
LEMMA ThreadsMasked ==
  ASSUME Typed, ThreadsInv, UNCHANGED <<marks, reg, input, launchMask>>,
         NEW mask \in SUBSET launchMask[selected],
         active' = [active EXCEPT ![selected] = mask],
         \A w \in Warps : warpDone'[w] => warpDone[w] \/ w = selected,
         warpDone'[selected] => mask = {}
  PROVE  ThreadsInv'
  <1>1. active \in [Warps -> SUBSET Lanes] /\ selected \in Warps
    BY DEF Typed, TypeOK
  <1>2. \A w \in Warps : active'[w] = IF w = selected THEN mask ELSE active[w]
    BY <1>1
  <1> QED BY <1>2 DEF ThreadsInv, OnlyThreadsAct

\* What lanes do changes nothing for the lanes that are not active.
LEMMA ThreadsExecute ==
  ASSUME Typed, ThreadsInv, NEW done \in SUBSET active[selected], Execute(done),
         UNCHANGED <<input, launchMask, warpDone>>,
         \/ UNCHANGED active
         \/ \E mask \in SUBSET active[selected] : active' = [active EXCEPT ![selected] = mask]
  PROVE  ThreadsInv'
  <1>1. /\ active \in [Warps -> SUBSET Lanes] /\ selected \in Warps
        /\ reg \in [Warps -> [Lanes -> Nat]]
        /\ DOMAIN marks = Warps /\ \A w \in Warps : DOMAIN marks[w] = Lanes
    BY DEF Typed, TypeOK, ThreadsInv
  <1>2. \A w \in Warps : active'[w] \subseteq active[w]
    BY <1>1
  <1>3. ASSUME NEW w \in Warps, NEW lane \in Lanes \ launchMask[w]
        PROVE  marks'[w][lane] = << >> /\ reg'[w][lane] = input[w][lane]
    <2>1. marks[w][lane] = << >> /\ reg[w][lane] = input[w][lane]
      BY <1>3 DEF ThreadsInv, OnlyThreadsAct
    <2>2. CASE w # selected
      BY <1>1, <2>1, <2>2 DEF Execute
    <2>3. CASE w = selected
      <3>1. lane \notin done
        BY <1>3, <2>3 DEF ThreadsInv, OnlyThreadsAct
      <3> QED BY <1>1, <2>1, <2>3, <3>1 DEF Execute
    <2> QED BY <2>2, <2>3
  <1>4. DOMAIN marks' = Warps /\ \A w \in Warps : DOMAIN marks'[w] = Lanes
    BY <1>1 DEF Execute
  <1> QED BY <1>2, <1>3, <1>4 DEF ThreadsInv, OnlyThreadsAct

LEMMA ThreadsNext == ASSUME Typed, IInv, ThreadsInv, [Next]_vars PROVE ThreadsInv'
  <1>1. selected \in Warps /\ active \in [Warps -> SUBSET Lanes]
    BY DEF Typed, TypeOK
  <1>2. active[selected] \subseteq launchMask[selected]
    BY <1>1 DEF ThreadsInv, OnlyThreadsAct
  <1>3. ASSUME UNCHANGED <<active, launchMask, warpDone, marks, reg, input>> PROVE ThreadsInv'
    BY <1>3 DEF ThreadsInv, OnlyThreadsAct
  <1>4. CASE UNCHANGED vars
    BY <1>3, <1>4 DEF vars, program, barrier, lanes, launch
  <1>5. CASE launch_core
    BY <1>5, ThreadsLaunch
  <1>6. CASE Schedule \/ Bar \/ Bra \/ Call \/ Ret \/ PushM \/ Masked \/ IssueLanes
    <2>1. UNCHANGED <<active, launchMask, warpDone, marks, reg, input>>
      BY <1>6 DEF Schedule, Bar, Bra, Call, Ret, PushM, Masked, IssueLanes, program, barrier,
                  lanes, launch
    <2> QED BY <1>3, <2>1
  <1>7. CASE Exit
    <2>1. /\ active' = [active EXCEPT ![selected] = {}]
          /\ warpDone' = [warpDone EXCEPT ![selected] = TRUE]
          /\ UNCHANGED <<marks, reg, input, launchMask>>
      BY <1>7 DEF Exit, lanes, launch
    <2>2. \A w \in Warps : warpDone'[w] => warpDone[w] \/ w = selected
      BY <2>1 DEF Typed, TypeOK
    <2> QED BY <2>1, <2>2, ThreadsMasked
  <1>8. CASE PopM
    <2>1. ~warpDone[selected]
      BY <1>8 DEF PopM, Issue, IInv, SelectedReady, Ready
    <2>2. UNCHANGED <<marks, reg, input, launchMask, warpDone>>
      BY <1>8 DEF PopM, lanes, launch, barrier
    <2>3. CASE maskStack[selected] = << >>
      BY <1>3, <1>8, <2>2, <2>3 DEF PopM
    <2>4. CASE maskStack[selected] # << >>
      <3> DEFINE mask == Top(maskStack[selected]) \cap launchMask[selected]
      <3>1. active' = [active EXCEPT ![selected] = mask] /\ mask \in SUBSET launchMask[selected]
        BY <1>8, <2>4 DEF PopM
      <3> HIDE DEF mask
      <3> QED BY <2>1, <2>2, <3>1, ThreadsMasked
    <2> QED BY <2>3, <2>4
  <1>9. CASE LanesDone
    <2>1. PICK done \in SUBSET (active[selected] \ pending) : Execute(done)
      BY <1>9 DEF LanesDone
    <2>2. UNCHANGED <<input, launchMask, warpDone>>
      BY <1>9 DEF LanesDone, barrier, launch
    <2>3. \/ UNCHANGED active
          \/ \E mask \in SUBSET active[selected] : active' = [active EXCEPT ![selected] = mask]
      <3>1. UNCHANGED active \/ Complete
        BY <1>9 DEF LanesDone
      <3>2. Condition \in SUBSET active[selected]
        BY DEF Condition
      <3>3. CASE Instr.op \in {"pred", "predn"}
        <4>1. UNCHANGED active \/ active' = [active EXCEPT ![selected] = Condition]
          BY <3>1, <3>3 DEF Complete
        <4> QED BY <3>2, <4>1
      <3>4. CASE Instr.op \notin {"pred", "predn"}
        <4>1. UNCHANGED active \/ active' = [active EXCEPT ![selected] = active[selected]]
          BY <3>1, <3>4 DEF Complete
        <4> QED BY <4>1
      <3> QED BY <3>3, <3>4
    <2>4. done \in SUBSET active[selected]
      BY <2>1
    <2> QED BY <2>1, <2>2, <2>3, <2>4, ThreadsExecute
  <1> QED BY <1>4, <1>5, <1>6, <1>7, <1>8, <1>9 DEF Next, Core

\* Whatever the program does with masks, calls and barriers, a lane the launch
\* left out (beyond the block's threads, or masked by the host) executes
\* nothing, and a warp that has ended nothing more (POPM's intersection with
\* launch_mask, EXIT).
THEOREM OnlyLaunchedLanesAct == Spec => []OnlyThreadsAct
  <1>1. Init => ThreadsInv
    BY ThreadsInit
  <1>2. Typed /\ IInv /\ ThreadsInv /\ [Next]_vars => ThreadsInv'
    BY ThreadsNext
  <1>3. ThreadsInv => OnlyThreadsAct
    BY DEF ThreadsInv
  <1> QED BY <1>1, <1>2, <1>3, Inductive, PTL DEF Spec
=============================================================================
