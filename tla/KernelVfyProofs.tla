--------------------------- MODULE KernelVfyProofs ---------------------------
(***************************************************************************)
(* What holds of the verification gate for every memory size, set of       *)
(* words, block length and golden table, whether the pulses come at UART   *)
(* pace or in every cycle.                                                 *)
(***************************************************************************)
EXTENDS KernelVfy, TLAPS

\* The shape of an input, by its kind.
LEMMA InputShape ==
  ASSUME NEW in \in Input
  PROVE  /\ in.kind = "write" => in.addr \in Addr /\ in.data \in Word
         /\ in.kind = "validate" => in.id \in KernelId
  BY DEF Input, None

\* A cycle keeps the SHA wrapper, the memory, the GPU flag and the replies
\* well typed, whatever pulses the gate sends.
LEMMA AroundType ==
  ASSUME TypeOK, NEW in \in Input,
         NEW p \in SUBSET Pulses, NEW w \in Word, NEW again \in BOOLEAN,
         NEW r \in SUBSET {"done", "fail"},
         Around(in, p, w, again, r)
  PROVE  /\ needsStart' \in BOOLEAN
         /\ pulse' \in SUBSET Pulses /\ pulseWord' \in Word
         /\ reply' \in SUBSET {"done", "fail"}
         /\ goldenOut' \in Seq(Word)
         /\ shaState' \in ShaStates /\ shaAfter' \in {"COLLECT", "DONE"}
         /\ hashed' \in Seq(Word)
         /\ digestValid' \in BOOLEAN /\ shaError' \in BOOLEAN
         /\ imem' \in [Addr -> Word] /\ loaded' \in Seq(Word)
         /\ coreBusy' \in BOOLEAN
         /\ resetInRun' \in BOOLEAN /\ unanswered' \in BOOLEAN
<1>1. /\ needsStart' \in BOOLEAN
      /\ pulse' \in SUBSET Pulses /\ pulseWord' \in Word
      /\ reply' \in SUBSET {"done", "fail"}
      /\ unanswered' \in BOOLEAN
  BY DEF Around, TypeOK, startPulse, Pulses
<1>2. goldenOut' \in Seq(Word)
  BY KernelVfyAssumption DEF Around, TypeOK
<1>3. imem' \in [Addr -> Word] /\ loaded' \in Seq(Word)
  BY InputShape, KernelVfyAssumption
  DEF Around, ImemStep, writeAccepted, TypeOK
<1>4. coreBusy' \in BOOLEAN /\ resetInRun' \in BOOLEAN
  BY DEF Around, CoreStep, TypeOK
<1>5. PICK coreDone \in BOOLEAN : ShaStep(coreDone)
  BY DEF Around
<1>6. /\ shaState' \in ShaStates /\ shaAfter' \in {"COLLECT", "DONE"}
      /\ hashed' \in Seq(Word)
      /\ digestValid' \in BOOLEAN /\ shaError' \in BOOLEAN
  <2>1. CASE ShaBegin("IDLE") \/ ShaBegin("COLLECT")
    <3>1. << >> \in Seq(Word)
      OBVIOUS
    <3> QED  BY <2>1, <3>1 DEF ShaBegin, ShaStates
  <2>2. CASE ShaIdle
    BY <2>2 DEF ShaIdle, TypeOK, word, finish
  <2>3. CASE ShaCollect
    <3>1. hashed' \in Seq(Word)
      BY <2>3 DEF ShaCollect, TypeOK
    <3>2. shaState' \in ShaStates /\ shaAfter' \in {"COLLECT", "DONE"}
      BY <2>3, Zenon DEF ShaCollect, TypeOK, ShaStates
    <3>3. digestValid' \in BOOLEAN /\ shaError' \in BOOLEAN
      BY <2>3 DEF ShaCollect, TypeOK, word, finish
    <3> QED  BY <3>1, <3>2, <3>3
  <2>4. CASE ShaBusy(coreDone)
    BY <2>4 DEF ShaBusy, TypeOK, ShaStates, word, finish
  <2> QED  BY <1>5, <2>1, <2>2, <2>3, <2>4 DEF ShaStep
<1> QED
  BY <1>1, <1>2, <1>3, <1>4, <1>6

\* What both resets do, for the type.
LEMMA ClearType ==
  ASSUME TypeOK, ClearGate
  PROVE  /\ state' \in States /\ kernelId' \in KernelId
         /\ verified' \in BOOLEAN /\ fault' \in BOOLEAN
         /\ needsStart' \in BOOLEAN /\ verifyWait' \in BOOLEAN
         /\ pending' \in BOOLEAN /\ pendingWord' \in Word
         /\ zeroAddr' \in Addr /\ addrHold' \in BOOLEAN
         /\ pulse' \in SUBSET Pulses /\ pulseWord' \in Word
         /\ reply' \in SUBSET {"done", "fail"}
         /\ goldenOut' \in Seq(Word)
         /\ shaState' \in ShaStates /\ shaAfter' \in {"COLLECT", "DONE"}
         /\ hashed' \in Seq(Word)
         /\ digestValid' \in BOOLEAN /\ shaError' \in BOOLEAN
         /\ loaded' \in Seq(Word)
<1>1. << >> \in Seq(Word)
  OBVIOUS
<1>2. 0 \in Addr /\ 0 \in KernelId
  BY KernelVfyAssumption DEF Addr, KernelId
<1>3. Golden[kernelId] \in Seq(Word)
  BY KernelVfyAssumption DEF TypeOK
<1> QED
  BY <1>1, <1>2, <1>3, KernelVfyAssumption
  DEF ClearGate, ShaBegin, TypeOK, States, ShaStates

\* Every register, memory cell and history variable keeps its type.
THEOREM TypeCorrect == Spec => []TypeOK
<1>1. Init => TypeOK
  <2>1. << >> \in Seq(Word)
    OBVIOUS
  <2>2. 0 \in Addr /\ 0 \in KernelId
    BY KernelVfyAssumption DEF Addr, KernelId
  <2> QED
    BY <2>1, <2>2, KernelVfyAssumption DEF Init, TypeOK, States, ShaStates
<1>2. TypeOK /\ [Next]_vars => TypeOK'
  <2> SUFFICES ASSUME TypeOK, [Next]_vars
               PROVE  TypeOK'
    OBVIOUS
  <2> USE DEF goTo, States
  <2>1. ASSUME NEW in \in Input, IdleWrite(in)
        PROVE  TypeOK'
    <3>1. in.data \in Word
      BY <2>1, InputShape DEF IdleWrite
    <3>2. CASE shaReady
      <4> DEFINE p == {"word"}
                 w == in.data
      <4>1. Around(in, p, w, FALSE, {})
        BY <2>1, <3>2 DEF IdleWrite, Feed
      <4>2. UNCHANGED <<pending, pendingWord>>
        BY <2>1, <3>2 DEF IdleWrite
      <4>3. p \in SUBSET Pulses /\ w \in Word
        BY <3>1 DEF Pulses
      <4>4. /\ state' = "LOAD" /\ fault' = fault
            /\ UNCHANGED <<kernelId, verified, verifyWait, zeroAddr, addrHold>>
        BY <2>1 DEF IdleWrite, TypeOK
      <4> HIDE DEF p, w
      <4> QED
        BY <4>1, <4>2, <4>3, <4>4, AroundType DEF TypeOK
    <3>3. CASE ~shaReady
      <4>1. Around(in, {}, pulseWord, FALSE, {})
        BY <2>1, <3>3 DEF IdleWrite, Quiet
      <4> QED
        BY <2>1, <3>1, <3>3, <4>1, AroundType DEF IdleWrite, TypeOK, Pulses
    <3> QED  BY <3>2, <3>3
  <2>2. ASSUME NEW in \in Input, LoadCycle(in)
        PROVE  TypeOK'
    <3> DEFINE write    == in.kind = "write"
               validate == in.kind = "validate"
               drain    == pending /\ shaReady
               direct   == write /\ ~pending /\ shaReady
               p        == (IF drain \/ direct THEN {"word"} ELSE {})
                             \cup (IF validate THEN {"finish"} ELSE {})
               w        == IF drain THEN pendingWord
                           ELSE IF direct THEN in.data ELSE pulseWord
    <3>1. p \in SUBSET Pulses
      BY DEF Pulses
    <3>2. w \in Word
      BY InputShape DEF TypeOK
    <3>3. Around(in, p, w, FALSE, {})
      BY <2>2 DEF LoadCycle
    <3>4. UNCHANGED <<verified, verifyWait, zeroAddr, addrHold>>
      BY <2>2 DEF LoadCycle
    <3>5. state' \in States /\ fault' \in BOOLEAN
      BY <2>2 DEF LoadCycle, TypeOK
    <3>6. pending' \in BOOLEAN
      BY <2>2 DEF LoadCycle
    <3>7. pendingWord' \in Word /\ kernelId' \in KernelId
      BY <2>2, InputShape DEF LoadCycle, TypeOK
    <3> HIDE DEF p, w
    <3> QED
      BY <3>1, <3>2, <3>3, <3>4, <3>5, <3>6, <3>7, AroundType DEF TypeOK
  <2>3. ASSUME NEW in \in Input, Finalize(in)
        PROVE  TypeOK'
    <3> DEFINE r == IF shaError THEN {"fail"} ELSE {}
    <3>1. Around(in, {}, pulseWord, FALSE, r)
      BY <2>3 DEF Finalize
    <3>2. r \in SUBSET {"done", "fail"}
      OBVIOUS
    <3> QED
      BY <2>3, <3>1, <3>2, AroundType DEF Finalize, TypeOK, Pulses
  <2>4. ASSUME NEW in \in Input, Verify(in)
        PROVE  TypeOK'
    <3>1. PICK r \in SUBSET {"done", "fail"} : Around(in, {}, pulseWord, FALSE, r)
      BY <2>4 DEF Verify, Quiet
    <3> QED
      BY <2>4, <3>1, AroundType DEF Verify, TypeOK, Pulses
  <2>5. ASSUME NEW in \in Input, Lock(in)
        PROVE  TypeOK'
    BY <2>5, AroundType DEF Lock, Quiet, TypeOK, Pulses
  <2>6. ASSUME NEW in \in Input, ExecuteWrite(in)
        PROVE  TypeOK'
    BY <2>6, AroundType, InputShape DEF ExecuteWrite, TypeOK, Pulses
  <2>7. ASSUME NEW in \in Input, Hold(in)
        PROVE  TypeOK'
    BY <2>7, AroundType DEF Hold, gate, Quiet, TypeOK, Pulses
  <2>8. ASSUME NEW in \in Input, Zeroize(in)
        PROVE  TypeOK'
    <3>1. zeroAddr' \in Addr
      BY <2>8, KernelVfyAssumption DEF Zeroize, TypeOK, Addr
    <3> QED
      BY <2>8, <3>1, AroundType DEF Zeroize, Quiet, TypeOK, Pulses
  <2>9. CASE SecurityError
    <3>1. None \in Input
      BY DEF Input
    <3> QED
      BY <2>9, <3>1, AroundType DEF SecurityError, Quiet, TypeOK, Pulses
  <2>10. CASE SecurityReset
    <3>1. imem' \in [Addr -> Word] /\ coreBusy' \in BOOLEAN
          /\ resetInRun' \in BOOLEAN /\ unanswered' \in BOOLEAN
      BY <2>10, KernelVfyAssumption DEF SecurityReset, TypeOK
    <3> QED
      BY <2>10, <3>1, ClearType DEF SecurityReset, TypeOK
  <2>11. CASE BoardReset
    BY <2>11, ClearType DEF BoardReset, TypeOK
  <2>12. CASE UNCHANGED vars
    BY <2>12 DEF vars, gate, sha, TypeOK
  <2> QED
    BY <2>1, <2>2, <2>3, <2>4, <2>5, <2>6, <2>7, <2>8, <2>9, <2>10, <2>11, <2>12
    DEF Next, GateCycle
<1> QED  BY <1>1, <1>2, PTL DEF Spec

-----------------------------------------------------------------------------
\* What every cycle does around the gate's registers, as far as the invariant
\* needs it.
LEMMA AroundEffect ==
  ASSUME NEW in, NEW p, NEW w, NEW again, NEW r,
         Around(in, p, w, again, r)
  PROVE  /\ pulse' = p \cup startPulse
         /\ needsStart' = again
         /\ goldenOut' = Golden[kernelId]
         /\ pulse = {} => hashed' = hashed
  BY DEF Around, ShaStep, ShaIdle, ShaCollect, ShaBusy, word, finish

LEMMA CoreEffect ==
  ASSUME GateInv, NEW in, NEW p, NEW w, NEW again, NEW r,
         Around(in, p, w, again, r),
         in.kind = "launch" => state' = state
  PROVE  coreBusy' /\ ~resetInRun' =>
           (coreBusy /\ ~resetInRun) \/ state' = "EXECUTE"
  BY DEF Around, CoreStep, launchReady

\* The memory changes only by zeroization or by an accepted write.
LEMMA MemoryEffect ==
  ASSUME NEW in, NEW p, NEW w, NEW again, NEW r,
         Around(in, p, w, again, r)
  PROVE  /\ state = "RESET" => imem' = [imem EXCEPT ![zeroAddr] = ZeroWord]
         /\ state # "RESET" /\ ~writeAccepted(in) => imem' = imem
  BY DEF Around, ImemStep

\* The inductive invariant of the gate holds of every behaviour.
THEOREM GateInvariant == Spec => []GateInv
<1>1. Init => GateInv
  BY KernelVfyAssumption
  DEF Init, GateInv, DigestStill, SlotShown, MatchKept, GuardedStates,
      FaultTellsError, ZeroedSoFar, ResetZeroizes, Addr
<1>2. TypeOK /\ GateInv /\ [Next]_vars => GateInv'
  <2> SUFFICES ASSUME TypeOK, GateInv, [Next]_vars
               PROVE  GateInv'
    OBVIOUS
  <2> USE DEF goTo, GateInv, DigestStill, SlotShown, MatchKept, GuardedStates,
              FaultTellsError, ZeroedSoFar, ResetZeroizes, TypeOK
  <2>1. ASSUME NEW in \in Input, IdleWrite(in)
        PROVE  GateInv'
    <3>1. /\ state = "IDLE" /\ state' = "LOAD" /\ in.kind = "write"
          /\ fault' = fault /\ verified' = verified
      BY <2>1 DEF IdleWrite
    <3>2. PICK p, w : Around(in, p, w, FALSE, {})
      BY <2>1 DEF IdleWrite, Feed, Quiet
    <3> QED  BY <3>1, <3>2, CoreEffect
  <2>2. ASSUME NEW in \in Input, LoadCycle(in)
        PROVE  GateInv'
    <3>1. /\ state = "LOAD" /\ state' \in {"LOAD", "FINALIZE", "ERROR"}
          /\ fault' = (fault \/ state' = "ERROR") /\ verified' = verified
      BY <2>2 DEF LoadCycle
    <3>2. PICK p, w : Around(in, p, w, FALSE, {})
      BY <2>2 DEF LoadCycle
    <3>3. in.kind = "launch" => ~launchReady
      BY <3>1 DEF launchReady
    <3>4. needsStart' = FALSE
      BY <3>2, AroundEffect
    <3>5. ~(coreBusy' /\ ~resetInRun')
      BY <3>1, <3>2 DEF Around, CoreStep, launchReady
    <3> QED  BY <3>1, <3>4, <3>5
  <2>3. ASSUME NEW in \in Input, Finalize(in)
        PROVE  GateInv'
    <3>1. /\ state = "FINALIZE" /\ state' \in {"FINALIZE", "VERIFY", "ERROR"}
          /\ fault' = (fault \/ state' = "ERROR") /\ verified' = verified
      BY <2>3 DEF Finalize
    <3>2. state' = "VERIFY" => verifyWait'
      BY <2>3 DEF Finalize
    <3>3. PICK r : Around(in, {}, pulseWord, FALSE, r)
      BY <2>3 DEF Finalize
    <3>4. needsStart' = FALSE /\ pulse' = {}
      BY <3>1, <3>3, AroundEffect DEF startPulse
    <3>5. ~(coreBusy' /\ ~resetInRun')
      BY <3>1, <3>3 DEF Around, CoreStep, launchReady
    <3> QED  BY <3>1, <3>2, <3>4, <3>5
  <2>4. ASSUME NEW in \in Input, Verify(in)
        PROVE  GateInv'
    <3>1. /\ state = "VERIFY" /\ state' \in {"VERIFY", "LOCK", "ERROR"}
          /\ fault' = (fault \/ state' = "ERROR")
          /\ UNCHANGED <<verified, kernelId>>
      BY <2>4 DEF Verify
    <3>2. PICK r : Around(in, {}, pulseWord, FALSE, r)
      BY <2>4 DEF Verify, Quiet
    <3>3. /\ needsStart' = FALSE /\ pulse' = {} /\ hashed' = hashed
          /\ goldenOut' = Golden[kernelId]
      BY <3>1, <3>2, AroundEffect DEF startPulse
    <3>4. state' = "LOCK" => hashed = Golden[kernelId]
      BY <2>4, <3>1 DEF Verify
    <3>5. ~(coreBusy' /\ ~resetInRun')
      BY <3>1, <3>2 DEF Around, CoreStep, launchReady
    <3> QED  BY <3>1, <3>3, <3>4, <3>5
  <2>5. ASSUME NEW in \in Input, Lock(in)
        PROVE  GateInv'
    <3>1. /\ state = "LOCK" /\ state' = "EXECUTE" /\ fault' = fault
          /\ kernelId' = kernelId
      BY <2>5 DEF Lock
    <3>2. Around(in, {}, pulseWord, FALSE, {})
      BY <2>5 DEF Lock, Quiet
    <3>3. /\ needsStart' = FALSE /\ pulse' = {} /\ hashed' = hashed
      BY <3>1, <3>2, AroundEffect DEF startPulse
    <3> QED  BY <3>1, <3>3
  <2>6. ASSUME NEW in \in Input, ExecuteWrite(in)
        PROVE  GateInv'
    <3>1. /\ state = "EXECUTE" /\ state' = "LOAD" /\ fault' = fault
          /\ verified' = FALSE /\ ~coreBusy /\ in.kind = "write"
      BY <2>6 DEF ExecuteWrite
    <3>2. Around(in, {"reset"}, pulseWord, TRUE, {})
      BY <2>6 DEF ExecuteWrite
    <3>3. ~coreBusy'
      BY <3>1, <3>2 DEF Around, CoreStep
    <3> QED  BY <3>1, <3>3
  <2>7. ASSUME NEW in \in Input, Hold(in)
        PROVE  GateInv'
    <3>1. /\ state \in {"ERROR", "IDLE", "EXECUTE"}
          /\ state = "IDLE" => in.kind # "write"
          /\ state = "EXECUTE" /\ in.kind = "write" => coreBusy
          /\ UNCHANGED <<state, fault, verified, kernelId>>
      BY <2>7 DEF Hold, gate
    <3>2. Around(in, {}, pulseWord, FALSE, {})
      BY <2>7 DEF Hold, Quiet
    <3>3. state = "EXECUTE" => needsStart' = FALSE /\ pulse' = {} /\ hashed' = hashed
      BY <3>2, AroundEffect DEF startPulse
    <3>4. imem' = imem
      BY <3>1, <3>2, MemoryEffect DEF writeAccepted
    <3>5. coreBusy' /\ ~resetInRun' => state' \in {"EXECUTE", "ERROR"}
      BY <3>1, <3>2, CoreEffect
    <3> QED  BY <3>1, <3>3, <3>4, <3>5
  <2>8. ASSUME NEW in \in Input, Zeroize(in)
        PROVE  GateInv'
    <3>1. /\ state = "RESET" /\ state' \in {"RESET", "IDLE"} /\ fault' = fault
          /\ verified' = verified /\ addrHold' = ~addrHold
      BY <2>8 DEF Zeroize
    <3>2. Around(in, {}, pulseWord, FALSE, {})
      BY <2>8 DEF Zeroize, Quiet
    <3>3. imem' = [imem EXCEPT ![zeroAddr] = ZeroWord]
      BY <3>1, <3>2, MemoryEffect
    <3>4. ~(coreBusy' /\ ~resetInRun')
      BY <3>1, <3>2 DEF Around, CoreStep, launchReady
    <3>5. imem'[zeroAddr] = ZeroWord /\ \A a \in Addr : a < zeroAddr => imem'[a] = ZeroWord
      BY <3>1, <3>3, KernelVfyAssumption
    <3>6. state' = "IDLE" => \A a \in Addr : imem'[a] = ZeroWord
      BY <2>8, <3>1, <3>5, KernelVfyAssumption DEF Zeroize, Addr
    <3>7. state' = "RESET" =>
            /\ \A a \in Addr : a < zeroAddr' => imem'[a] = ZeroWord
            /\ addrHold' => imem'[zeroAddr'] = ZeroWord
      BY <2>8, <3>1, <3>5, KernelVfyAssumption DEF Zeroize, Addr
    <3> QED  BY <3>1, <3>4, <3>6, <3>7
  <2>9. CASE SecurityError
    <3>1. state' = "ERROR" /\ fault' = TRUE /\ verified' = verified
      BY <2>9 DEF SecurityError
    <3> QED  BY <3>1
  <2>10. CASE SecurityReset
    <3>1. /\ state' = "RESET" /\ fault' = FALSE /\ verified' = FALSE
          /\ zeroAddr' = 0 /\ addrHold' = FALSE /\ resetInRun' = TRUE
      BY <2>10 DEF SecurityReset, ClearGate
    <3> QED  BY <3>1, KernelVfyAssumption DEF Addr
  <2>11. CASE BoardReset
    <3>1. /\ state' = "RESET" /\ fault' = FALSE /\ verified' = FALSE
          /\ zeroAddr' = 0 /\ addrHold' = FALSE /\ resetInRun' = TRUE
      BY <2>11 DEF BoardReset, ClearGate
    <3> QED  BY <3>1, KernelVfyAssumption DEF Addr
  <2>12. CASE UNCHANGED vars
    BY <2>12 DEF vars, gate, sha
  <2> QED
    BY <2>1, <2>2, <2>3, <2>4, <2>5, <2>6, <2>7, <2>8, <2>9, <2>10, <2>11, <2>12
    DEF Next, GateCycle
<1> QED  BY <1>1, <1>2, TypeCorrect, PTL DEF Spec

\* A launch passes only for a program whose hashed words are the golden
\* program of the validated slot (kernel_vfy.v 135-136, 283-284).
THEOREM LaunchesAreAuthentic == Spec => []LaunchAuthentic
<1>1. GateInv => LaunchAuthentic
  BY DEF GateInv, MatchKept, LaunchAuthentic, launchReady
<1> QED  BY <1>1, GateInvariant, PTL

\* A gate that has left zeroization for IDLE has left no word of an earlier
\* program, however often resets and errors cut the walk short
\* (kernel_vfy.v 321-332).
THEOREM ResetsZeroize == Spec => []ResetZeroizes
<1>1. GateInv => ResetZeroizes
  BY DEF GateInv
<1> QED  BY <1>1, GateInvariant, PTL

\* The fault output tells the error state, in both directions.
THEOREM FaultsTellError == Spec => []FaultTellsError
<1>1. GateInv => FaultTellsError
  BY DEF GateInv
<1> QED  BY <1>1, GateInvariant, PTL

\* A step writes the instruction memory only in RESET, IDLE, LOAD, or, under
\* an idle GPU, in EXECUTE.
LEMMA MemoryWrites ==
  ASSUME [Next]_vars, imem' # imem
  PROVE  \/ state \in {"RESET", "IDLE", "LOAD"}
         \/ state = "EXECUTE" /\ ~coreBusy /\ ~verified'
<1>1. ASSUME NEW in \in Input, GateCycle(in)
      PROVE  \/ state \in {"RESET", "IDLE", "LOAD"}
             \/ state = "EXECUTE" /\ ~coreBusy /\ ~verified'
  <2>1. PICK p, w, again, r : Around(in, p, w, again, r)
    <3>1. CASE IdleWrite(in)
      <4>1. \/ Around(in, {}, pulseWord, FALSE, {})
            \/ Around(in, {"word"}, in.data, FALSE, {})
        BY <3>1 DEF IdleWrite, Quiet, Feed
      <4> QED  BY <4>1
    <3>2. CASE LoadCycle(in)  BY <3>2 DEF LoadCycle
    <3>3. CASE Finalize(in)  BY <3>3 DEF Finalize
    <3>4. CASE Verify(in)  BY <3>4 DEF Verify, Quiet
    <3>5. CASE Lock(in) \/ Hold(in) \/ Zeroize(in)
      BY <3>5 DEF Lock, Hold, Zeroize, Quiet
    <3>6. CASE ExecuteWrite(in)
      <4>1. Around(in, {"reset"}, pulseWord, TRUE, {})
        BY <3>6 DEF ExecuteWrite
      <4> QED  BY <4>1
    <3> QED  BY <1>1, <3>1, <3>2, <3>3, <3>4, <3>5, <3>6 DEF GateCycle
  <2>2. state = "RESET" \/ writeAccepted(in)
    BY <2>1, MemoryEffect
  <2>3. ASSUME state = "EXECUTE", writeAccepted(in)
        PROVE  ~coreBusy /\ ~verified'
    BY <1>1, <2>3 DEF writeAccepted, GateCycle, IdleWrite, LoadCycle, Finalize,
                      Verify, Lock, ExecuteWrite, Hold, Zeroize
  <2> QED  BY <2>2, <2>3 DEF writeAccepted
<1>2. CASE SecurityError
  <2>1. Around(None, {}, pulseWord, FALSE, {})
    BY <1>2 DEF SecurityError, Quiet
  <2>2. ~writeAccepted(None)
    BY DEF writeAccepted, None
  <2> QED  BY <2>1, <2>2, MemoryEffect
<1>3. CASE SecurityReset
  BY <1>3 DEF SecurityReset
<1>4. CASE BoardReset
  BY <1>4 DEF BoardReset
<1>5. CASE UNCHANGED vars
  BY <1>5 DEF vars
<1> QED  BY <1>1, <1>2, <1>3, <1>4, <1>5 DEF Next

\* No step changes the memory of a program that is and stays verified.
THEOREM VerifiedStaysFrozen == Spec => VerifiedFrozen
<1>1. GateInv /\ [Next]_vars => [verified /\ verified' => imem' = imem]_vars
  BY MemoryWrites DEF GateInv, GuardedStates
<1> QED  BY <1>1, GateInvariant, PTL DEF Spec, VerifiedFrozen

\* No step changes the program of a running kernel, resets aside.
THEOREM RunningStaysStable == Spec => RunStable
<1>1. GateInv /\ [Next]_vars
        => [coreBusy /\ ~resetInRun /\ ~resetInRun' => imem' = imem]_vars
  BY MemoryWrites DEF GateInv, GuardedStates
<1> QED  BY <1>1, GateInvariant, PTL DEF Spec, RunStable

-----------------------------------------------------------------------------
\* What the SHA engine does with each pulse that the gate sends it at UART
\* pace.
LEMMA ShaEffect ==
  ASSUME TypeOK, NEW in, NEW p, NEW w, NEW again, NEW r,
         Around(in, p, w, again, r)
  PROVE  /\ pulse = {"reset"} => shaState' = "IDLE" /\ hashed' = << >>
         /\ pulse = {"start"} /\ shaState = "IDLE" => hashed' = << >>
         /\ pulse = {"start"} /\ hashed = << >> => hashed' = << >>
         /\ pulse = {"word"} /\ shaReady => hashed' = Append(hashed, pulseWord)
         /\ pulse \in {{}, {"finish"}} => hashed' = hashed
         /\ pulse = {} /\ shaState # "BUSY" => shaState' = shaState /\ ~digestValid'
         /\ digestValid' => shaState' = "IDLE"
<1>1. PICK coreDone \in BOOLEAN : ShaStep(coreDone)
  BY DEF Around
<1>2. CASE ShaStep(coreDone) /\ pulse = {"reset"}
  BY <1>2 DEF ShaStep, ShaBegin
<1>3. CASE ShaStep(coreDone) /\ pulse = {"start"}
  BY <1>3 DEF ShaStep, ShaBegin, ShaIdle, ShaCollect, ShaBusy, word, finish
<1>4. CASE ShaStep(coreDone) /\ pulse = {"word"}
  BY <1>4 DEF ShaStep, ShaBegin, ShaIdle, ShaCollect, ShaBusy, word, finish, shaReady
<1>5. CASE ShaStep(coreDone) /\ pulse \in {{}, {"finish"}}
  BY <1>5 DEF ShaStep, ShaBegin, ShaIdle, ShaCollect, ShaBusy, word, finish
<1>6. digestValid' => shaState' = "IDLE"
  BY <1>1 DEF ShaStep, ShaBegin, ShaIdle, ShaCollect, ShaBusy, TypeOK
<1> QED  BY <1>1, <1>2, <1>3, <1>4, <1>5, <1>6

LEMMA AppendEmpty ==
  ASSUME NEW x \in Word
  PROVE  Append(<< >>, x) = <<x>>
  OBVIOUS

\* At UART pace every stored word is on its way into the hash.
THEOREM StreamInvariant ==
  ASSUME Paced = TRUE
  PROVE  Spec => []StreamInv
<1>1. Init => StreamInv
  BY DEF Init, StreamInv
<1>2. TypeOK /\ GateInv /\ StreamInv /\ [Next]_vars => StreamInv'
  <2> SUFFICES ASSUME TypeOK, GateInv, StreamInv, [Next]_vars
               PROVE  StreamInv'
    OBVIOUS
  <2> USE DEF goTo
  <2>1. ASSUME NEW in \in Input, IdleWrite(in)
        PROVE  StreamInv'
    <3>1. /\ state = "IDLE" /\ state' = "LOAD" /\ in.kind = "write"
      BY <2>1 DEF IdleWrite
    <3>2. in.data \in Word
      BY <3>1, InputShape
    <3>3. Settled
      BY <2>1, <3>1 DEF IdleWrite, Feed, Quiet, Around, Allowed, None
    <3>4. loaded' = <<in.data>>
      BY <2>1, <3>1 DEF IdleWrite, Feed, Quiet, Around, ImemStep, writeAccepted
    <3>5. hashed = << >> /\ pulse = {} /\ ~pending /\ ~needsStart /\ shaState # "BUSY"
      BY <3>1, <3>3 DEF StreamInv, Settled
    <3>6. CASE shaReady
      <4>1. Around(in, {"word"}, in.data, FALSE, {})
        BY <2>1, <3>6 DEF IdleWrite, Feed
      <4>2. /\ hashed' = << >> /\ shaState' = "COLLECT"
        BY <3>5, <3>6, <4>1, ShaEffect DEF shaReady
      <4>3. pulse' = {"word"} /\ pulseWord' = in.data /\ needsStart' = FALSE
        BY <3>5, <4>1 DEF Around, startPulse
      <4>4. pending' = FALSE
        BY <2>1, <3>5, <3>6 DEF IdleWrite, TypeOK
      <4> QED
        BY <3>1, <3>2, <3>4, <4>2, <4>3, <4>4, AppendEmpty
        DEF StreamInv, LoadPhases, Phase, shaReady
    <3>7. CASE ~shaReady
      <4>1. Around(in, {}, pulseWord, FALSE, {})
        BY <2>1, <3>7 DEF IdleWrite, Quiet
      <4>2. hashed' = << >>
        BY <3>5, <4>1, ShaEffect
      <4>3. pulse' = {} /\ needsStart' = FALSE
        BY <3>5, <4>1 DEF Around, startPulse
      <4>4. pending' = TRUE /\ pendingWord' = in.data
        BY <2>1, <3>7 DEF IdleWrite
      <4> QED
        BY <3>1, <3>2, <3>4, <4>2, <4>3, <4>4, AppendEmpty
        DEF StreamInv, LoadPhases, Phase
    <3> QED  BY <3>6, <3>7
  <2>2. ASSUME NEW in \in Input, LoadCycle(in)
        PROVE  StreamInv'
    <3> DEFINE drain  == pending /\ shaReady
               direct == in.kind = "write" /\ ~pending /\ shaReady
               buffer == in.kind = "write" /\ ~pending /\ ~shaReady
               p      == (IF drain \/ direct THEN {"word"} ELSE {})
                           \cup (IF in.kind = "validate" THEN {"finish"} ELSE {})
               w      == IF drain THEN pendingWord
                         ELSE IF direct THEN in.data ELSE pulseWord
    <3>1. Around(in, p, w, FALSE, {})
      BY <2>2 DEF LoadCycle
    <3>2. /\ state = "LOAD" /\ state' \in {"LOAD", "FINALIZE", "ERROR"}
          /\ state' = "LOAD" => in.kind # "validate"
          /\ state' = "FINALIZE" => in.kind = "validate"
          /\ pending' = (buffer \/ (pending /\ ~drain))
          /\ pendingWord' = IF buffer THEN in.data ELSE pendingWord
      BY <2>2 DEF LoadCycle
    <3>3. /\ pulse' = p \cup startPulse /\ pulseWord' = w /\ needsStart' = FALSE
          /\ loaded' = IF in.kind = "write" THEN Append(loaded, in.data) ELSE loaded
      BY <3>1, <3>2 DEF Around, ImemStep, writeAccepted
    <3>4. in.kind \in {"write", "validate"} => Settled
      BY <3>1 DEF Around, Allowed, None
    <3>5. LoadPhases
      BY <3>2 DEF StreamInv
    <3>6. state' = "FINALIZE" => loaded' = hashed' /\ pulse' = {"finish"} /\ ~digestValid'
      <4>1. CASE in.kind = "validate"
        <5>1. pulse = {} /\ ~pending /\ ~needsStart /\ shaState # "BUSY"
          BY <3>4, <4>1 DEF Settled
        <5>2. loaded = hashed
          BY <3>5, <5>1 DEF LoadPhases, Phase
        <5>3. hashed' = hashed /\ ~digestValid'
          BY <3>1, <5>1, ShaEffect
        <5>4. pulse' = {"finish"}
          BY <3>3, <4>1, <5>1 DEF startPulse
        <5> QED  BY <3>3, <4>1, <5>2, <5>3, <5>4
      <4> QED  BY <3>2, <4>1
    <3>7. state' = "LOAD" => LoadPhases'
      <4> SUFFICES ASSUME in.kind # "validate"
                   PROVE  LoadPhases'
        BY <3>2
      <4>1. CASE Phase(TRUE, {"reset"}, TRUE) /\ shaState = "IDLE" /\ loaded = <<pendingWord>>
        <5>1. in.kind # "write" /\ ~shaReady
          BY <3>4, <4>1 DEF Phase, Settled, shaReady
        <5>2. shaState' = "IDLE"
          BY <3>1, <4>1, ShaEffect DEF Phase
        <5> QED
          BY <3>2, <3>3, <4>1, <5>1, <5>2 DEF LoadPhases, Phase, startPulse
      <4>2. CASE Phase(TRUE, {"start"}, FALSE) /\ shaState = "IDLE" /\ loaded = <<pendingWord>>
        <5>1. in.kind # "write" /\ ~shaReady
          BY <3>4, <4>2 DEF Phase, Settled, shaReady
        <5>2. hashed' = << >>
          BY <3>1, <4>2, ShaEffect DEF Phase
        <5>3. loaded' = Append(hashed', pendingWord')
          BY <3>2, <3>3, <4>2, <5>1, <5>2, AppendEmpty DEF TypeOK
        <5> QED
          BY <3>2, <3>3, <4>2, <5>1, <5>3 DEF LoadPhases, Phase, startPulse
      <4>3. CASE Phase(TRUE, {}, FALSE) /\ loaded = Append(hashed, pendingWord)
        <5>1. in.kind # "write"
          BY <3>4, <4>3 DEF Phase, Settled
        <5>2. hashed' = hashed
          BY <3>1, <4>3, ShaEffect DEF Phase
        <5>3. shaReady => shaReady'
          BY <3>1, <4>3, ShaEffect DEF Phase, shaReady
        <5> QED
          BY <3>2, <3>3, <4>3, <5>1, <5>2, <5>3 DEF LoadPhases, Phase, startPulse
      <4>4. CASE Phase(FALSE, {"word"}, FALSE) /\ shaReady
                   /\ loaded = Append(hashed, pulseWord)
        <5>1. in.kind # "write"
          BY <3>4, <4>4 DEF Phase, Settled
        <5>2. hashed' = loaded
          BY <3>1, <4>4, ShaEffect DEF Phase
        <5> QED
          BY <3>2, <3>3, <4>4, <5>1, <5>2 DEF LoadPhases, Phase, startPulse
      <4>5. CASE Phase(FALSE, {}, FALSE) /\ loaded = hashed
        <5>1. hashed' = hashed
          BY <3>1, <4>5, ShaEffect DEF Phase
        <5>2. in.kind = "write" /\ shaReady => shaReady'
          BY <3>1, <4>5, ShaEffect DEF Phase, shaReady
        <5> QED
          BY <3>2, <3>3, <4>5, <5>1, <5>2 DEF LoadPhases, Phase, startPulse
      <4> QED  BY <3>5, <4>1, <4>2, <4>3, <4>4, <4>5 DEF LoadPhases
    <3> QED  BY <3>2, <3>6, <3>7 DEF StreamInv
  <2>3. ASSUME NEW in \in Input, Finalize(in)
        PROVE  StreamInv'
    <3>1. /\ state = "FINALIZE" /\ state' \in {"FINALIZE", "VERIFY", "ERROR"}
          /\ state' = "VERIFY" => digestValid
      BY <2>3 DEF Finalize
    <3>2. PICK r : Around(in, {}, pulseWord, FALSE, r)
      BY <2>3 DEF Finalize
    <3>3. pulse' = {}
      BY <3>1, <3>2, AroundEffect DEF startPulse, GateInv, DigestStill
    <3>4. loaded' = loaded
      BY <3>1, <3>2 DEF Around, ImemStep, writeAccepted
    <3>5. hashed' = hashed /\ (digestValid' => shaState' = "IDLE")
      BY <3>1, <3>2, ShaEffect DEF StreamInv
    <3>6. state' = "VERIFY" => shaState' = "IDLE"
      BY <3>1, <3>2, ShaEffect DEF StreamInv
    <3> QED
      BY <3>1, <3>3, <3>4, <3>5, <3>6 DEF StreamInv
  <2>4. ASSUME NEW in \in Input, Verify(in) \/ Lock(in)
        PROVE  StreamInv'
    <3>1. /\ state \in {"VERIFY", "LOCK"}
          /\ state' \in {"VERIFY", "LOCK", "EXECUTE", "ERROR"}
      BY <2>4 DEF Verify, Lock
    <3>2. PICK r : Around(in, {}, pulseWord, FALSE, r)
      BY <2>4 DEF Verify, Lock, Quiet
    <3>3. loaded' = loaded
      BY <3>1, <3>2 DEF Around, ImemStep, writeAccepted
    <3>4. hashed' = hashed /\ shaState' = "IDLE"
      BY <3>1, <3>2, ShaEffect DEF StreamInv, GateInv, DigestStill
    <3> QED
      BY <3>1, <3>3, <3>4 DEF StreamInv
  <2>5. ASSUME NEW in \in Input, ExecuteWrite(in)
        PROVE  StreamInv'
    <3>1. /\ state = "EXECUTE" /\ state' = "LOAD" /\ in.kind = "write" /\ ~coreBusy
          /\ pending' = TRUE /\ pendingWord' = in.data
      BY <2>5 DEF ExecuteWrite
    <3>2. Around(in, {"reset"}, pulseWord, TRUE, {})
      BY <2>5 DEF ExecuteWrite
    <3>3. pulse' = {"reset"} /\ needsStart' = TRUE
      BY <3>1, <3>2 DEF Around, startPulse, GateInv, DigestStill
    <3>4. loaded' = <<in.data>>
      BY <3>1, <3>2 DEF Around, ImemStep, writeAccepted
    <3>5. shaState' = "IDLE"
      BY <3>1, <3>2, ShaEffect DEF StreamInv, GateInv, DigestStill
    <3> QED
      BY <3>1, <3>3, <3>4, <3>5 DEF StreamInv, LoadPhases, Phase
  <2>6. ASSUME NEW in \in Input, Hold(in)
        PROVE  StreamInv'
    <3>1. /\ state \in {"ERROR", "IDLE", "EXECUTE"} /\ ~writeAccepted(in)
          /\ UNCHANGED <<state, pending>>
      BY <2>6 DEF Hold, gate, writeAccepted
    <3>2. Around(in, {}, pulseWord, FALSE, {})
      BY <2>6 DEF Hold, Quiet
    <3>3. loaded' = loaded /\ pulse' \in {{}, {"start"}}
      BY <3>1, <3>2 DEF Around, ImemStep, startPulse
    <3>4. state = "IDLE" => hashed' = << >>
      BY <3>2, ShaEffect DEF StreamInv
    <3>5. state = "EXECUTE" => hashed' = hashed /\ shaState' = "IDLE"
      BY <3>2, ShaEffect DEF StreamInv, GateInv, DigestStill
    <3> QED
      BY <3>1, <3>3, <3>4, <3>5 DEF StreamInv
  <2>7. ASSUME NEW in \in Input, Zeroize(in)
        PROVE  StreamInv'
    <3>1. /\ state = "RESET" /\ state' \in {"RESET", "IDLE"} /\ pending' = pending
      BY <2>7 DEF Zeroize
    <3>2. Around(in, {}, pulseWord, FALSE, {})
      BY <2>7 DEF Zeroize, Quiet
    <3>3. pulse' \in {{}, {"start"}}
      BY <3>2 DEF Around, startPulse
    <3>4. hashed' = << >>
      BY <3>1, <3>2, ShaEffect DEF StreamInv
    <3> QED
      BY <3>1, <3>3, <3>4 DEF StreamInv
  <2>8. CASE SecurityError
    BY <2>8 DEF SecurityError, StreamInv
  <2>9. CASE SecurityReset \/ BoardReset
    BY <2>9 DEF SecurityReset, BoardReset, ClearGate, ShaBegin, StreamInv
  <2>10. CASE UNCHANGED vars
    BY <2>10 DEF vars, gate, sha, StreamInv, LoadPhases, Phase, shaReady
  <2> QED
    BY <2>1, <2>2, <2>3, <2>4, <2>5, <2>6, <2>7, <2>8, <2>9, <2>10
    DEF Next, GateCycle
<1> QED  BY <1>1, <1>2, TypeCorrect, GateInvariant, PTL DEF Spec

\* At UART pace the stored program and the hashed program are the same words.
THEOREM StoredAndHashed ==
  ASSUME Paced = TRUE
  PROVE  Spec => []StoredIsHashed
<1>1. StreamInv => StoredIsHashed
  BY DEF StreamInv, StoredIsHashed
<1> QED  BY <1>1, StreamInvariant, PTL

=============================================================================
