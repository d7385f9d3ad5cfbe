------------------------------ MODULE KernelVfy ------------------------------
(***************************************************************************)
(* The kernel verification gate (hardware/rtl/security/gate/kernel_vfy)    *)
(* with the SHA-256 wrapper it drives, the instruction memory behind it    *)
(* and the busy flag of the GPU it gates.  One step is one clock cycle:    *)
(* every register takes its next value from the current ones, so pulses    *)
(* that the code registers are seen by their reader one step later.        *)
(*                                                                         *)
(* The communication controller drives at most one pulse per cycle.  With  *)
(* Paced = TRUE the pulses come at UART speed: a program word takes four   *)
(* bytes on the wire, so the gate and the SHA engine have settled before   *)
(* the next pulse.  With Paced = FALSE a pulse may come in every cycle,    *)
(* as the module's own test bench drives it.                               *)
(***************************************************************************)
EXTENDS Integers, Sequences

CONSTANTS Word,        \* program words
          ZeroWord,    \* the word that zeroization writes
          LastAddr,    \* last instruction address (2^PROG_ADDR_WIDTH - 1)
          LastKernel,  \* last slot of the golden hash memory
          Golden,      \* the word stream whose digest a slot holds
          BlockWords,  \* words per SHA-256 block (16)
          MaxLoad,     \* bound: words accepted in one load
          Paced        \* do pulses come at UART speed?

Addr     == 0..LastAddr
KernelId == 0..LastKernel

ASSUME KernelVfyAssumption ==
  /\ ZeroWord \in Word
  /\ LastAddr \in Nat /\ LastKernel \in Nat
  /\ Golden \in [KernelId -> Seq(Word)]
  /\ BlockWords \in Nat \ {0}
  /\ MaxLoad \in Nat
  /\ Paced \in BOOLEAN

VARIABLES
  state,       \* state_reg
  kernelId,    \* kernel_id_reg
  verified,    \* verified_reg
  fault,       \* fault_reg
  needsStart,  \* sha_needs_start
  verifyWait,  \* verify_wait
  pending,     \* first_word_pending
  pendingWord, \* first_word_buf
  zeroAddr,    \* reset_zeroization_addr
  addrHold,    \* reset_addr_hold
  pulse,       \* sha_start, sha_word_valid, sha_finish, sha_reset_pulse
  pulseWord,   \* sha_word_data
  reply,       \* validate_done, validate_fail
  goldenOut,   \* hash_out, the registered output of the hash memory
  shaState,    \* state_reg of the SHA wrapper
  shaAfter,    \* after_core_reg of the SHA wrapper
  hashed,      \* words the running digest covers
  digestValid, \* digest_valid_reg of the SHA wrapper
  shaError,    \* error_reg of the SHA wrapper
  imem,        \* the instruction memory of the GPU
  coreBusy,    \* the GPU's busy output
  loaded,      \* history: words stored since this load began
  resetInRun,  \* history: the gate was reset since the GPU was launched
  unanswered   \* history: a validation request has had no reply yet

gate == <<state, kernelId, verified, fault, verifyWait, pending,
          pendingWord, zeroAddr, addrHold>>
sha  == <<shaState, shaAfter, hashed, digestValid, shaError>>
vars == <<gate, needsStart, pulse, pulseWord, reply, goldenOut, sha, imem,
          coreBusy, loaded, resetInRun, unanswered>>

States    == {"IDLE", "LOAD", "FINALIZE", "VERIFY", "LOCK", "EXECUTE",
              "ERROR", "RESET"}
ShaStates == {"IDLE", "COLLECT", "BUSY"}
Pulses    == {"start", "word", "finish", "reset"}

(***************************************************************************)
(* The inputs of one cycle: nothing, a program write, a launch or a        *)
(* validation request.                                                     *)
(***************************************************************************)
None == [kind |-> "none"]

Input ==
  {None, [kind |-> "launch"]}
    \cup [kind : {"write"}, addr : Addr, data : Word]
    \cup [kind : {"validate"}, id : KernelId]

\* Everything the gate does by itself for the previous pulse has happened,
\* and the controller has the answer to its validation request.
Settled ==
  /\ state \in {"IDLE", "LOAD", "EXECUTE", "ERROR"}
  /\ pulse = {} /\ reply = {}
  /\ ~needsStart /\ ~pending /\ ~unanswered
  /\ shaState # "BUSY" /\ ~digestValid

Allowed(in) ==
  /\ in # None /\ Paced => Settled
  /\ in.kind = "write" => Len(loaded) < MaxLoad

-----------------------------------------------------------------------------
(***************************************************************************)
(* The parts of a cycle beside the gate's own state machine.               *)
(***************************************************************************)
\* The SHA wrapper, from the pulses it sees in this cycle.  SUBMIT and
\* WAIT_CORE, for one block or for two padding blocks, are BUSY.
word   == "word" \in pulse
finish == "finish" \in pulse

ShaBegin(s) ==
  /\ shaState' = s /\ shaAfter' = "COLLECT" /\ hashed' = << >>
  /\ digestValid' = FALSE /\ shaError' = FALSE

\* A word and a finish together are an error, and so is either of them
\* outside COLLECT.
ShaCollect ==
  /\ shaState = "COLLECT"
  /\ hashed' = IF word /\ ~finish THEN Append(hashed, pulseWord) ELSE hashed
  /\ LET full  == word /\ ~finish /\ (Len(hashed) + 1) % BlockWords = 0
         ended == finish /\ ~word
     IN /\ shaState' = IF full \/ ended THEN "BUSY" ELSE "COLLECT"
        /\ shaAfter' = IF full THEN "COLLECT" ELSE IF ended THEN "DONE" ELSE shaAfter
  /\ digestValid' = FALSE
  /\ shaError' = (shaError \/ (word /\ finish))

ShaIdle ==
  /\ shaState = "IDLE"
  /\ digestValid' = FALSE
  /\ shaError' = (shaError \/ word \/ finish)
  /\ UNCHANGED <<shaState, shaAfter, hashed>>

ShaBusy(coreDone) ==
  /\ shaState = "BUSY"
  /\ shaState' = IF ~coreDone THEN "BUSY"
                 ELSE IF shaAfter = "COLLECT" THEN "COLLECT" ELSE "IDLE"
  /\ digestValid' = (coreDone /\ shaAfter = "DONE")
  /\ shaError' = (shaError \/ word \/ finish)
  /\ UNCHANGED <<shaAfter, hashed>>

ShaStep(coreDone) ==
  IF "reset" \in pulse THEN ShaBegin("IDLE")
  ELSE IF "start" \in pulse /\ shaState = "IDLE" THEN ShaBegin("COLLECT")
  ELSE ShaIdle \/ ShaCollect \/ ShaBusy(coreDone)

shaReady == shaState = "COLLECT"

\* Mutant: writes still pass in the error state.
writeAccepted_inError(in) ==
  /\ in.kind = "write"
  /\ state \in {"IDLE", "LOAD", "ERROR"} \/ (state = "EXECUTE" /\ ~coreBusy)

\* Mutant: writes pass under a running kernel.
writeAccepted_whileBusy(in) ==
  in.kind = "write" /\ state \in {"IDLE", "LOAD", "EXECUTE"}

\* A write passes to the instruction memory, now or after a finished kernel.
writeAccepted(in) ==
  /\ in.kind = "write"
  /\ state \in {"IDLE", "LOAD"} \/ (state = "EXECUTE" /\ ~coreBusy)

ImemStep(in) ==
  /\ imem' = IF state = "RESET" THEN [imem EXCEPT ![zeroAddr] = ZeroWord]
             ELSE IF writeAccepted(in) THEN [imem EXCEPT ![in.addr] = in.data]
             ELSE imem
  /\ loaded' = IF ~writeAccepted(in) THEN loaded
               ELSE IF state = "LOAD" THEN Append(loaded, in.data)
               ELSE <<in.data>>

launchReady == state = "EXECUTE" /\ verified

\* mini_gpu takes a launch only when it is not running, and runs for as long
\* as it likes.
CoreStep(in, coreEnds) ==
  LET started == in.kind = "launch" /\ launchReady /\ ~coreBusy
  IN /\ coreBusy' = (started \/ (coreBusy /\ ~coreEnds))
     /\ resetInRun' = (resetInRun /\ ~started)

startPulse == IF needsStart THEN {"start"} ELSE {}

\* Mutant: a validation request outside LOAD gets no reply.
Around_noRefusal(in, p, w, again, r) ==
  /\ Allowed(in)
  /\ pulse' = p \cup startPulse
  /\ pulseWord' = w
  /\ needsStart' = again
  /\ reply' = r
  /\ goldenOut' = Golden[kernelId]
  /\ unanswered' = (in.kind = "validate" \/ (unanswered /\ reply = {}))
  /\ ImemStep(in)
  /\ \E coreDone, coreEnds \in BOOLEAN :
       ShaStep(coreDone) /\ CoreStep(in, coreEnds)

\* One cycle of everything but the gate's registers.  again: start the SHA
\* engine anew; p, w: pulses to it and their word; r: the validation reply.
Around(in, p, w, again, r) ==
  /\ Allowed(in)
  /\ pulse' = p \cup startPulse
  /\ pulseWord' = w
  /\ needsStart' = again
  /\ reply' = r \cup (IF in.kind = "validate" /\ state # "LOAD"
                      THEN {"fail"} ELSE {})
  /\ goldenOut' = Golden[kernelId]
  /\ unanswered' = (in.kind = "validate" \/ (unanswered /\ reply = {}))
  /\ ImemStep(in)
  /\ \E coreDone, coreEnds \in BOOLEAN :
       ShaStep(coreDone) /\ CoreStep(in, coreEnds)

Quiet(in) == Around(in, {}, pulseWord, FALSE, {})
Feed(in, w) == Around(in, {"word"}, w, FALSE, {})

goTo(s) == state' = s /\ fault' = (fault \/ s = "ERROR")

-----------------------------------------------------------------------------
(***************************************************************************)
(* The gate's state machine: one action per branch.                        *)
(***************************************************************************)
\* First word of a program.  The engine takes it, or it waits in the buffer.
IdleWrite(in) ==
  /\ state = "IDLE" /\ in.kind = "write"
  /\ goTo("LOAD")
  /\ IF shaReady
     THEN /\ Feed(in, in.data) /\ UNCHANGED <<pending, pendingWord>>
     ELSE /\ Quiet(in) /\ pending' = TRUE /\ pendingWord' = in.data
  /\ UNCHANGED <<kernelId, verified, verifyWait, zeroAddr, addrHold>>

\* The four exclusive ways a cycle of LOAD treats the buffer and a new word;
\* a validation request ends the load, an engine error is fatal.
LoadCycle(in) ==
  LET write    == in.kind = "write"
      validate == in.kind = "validate"
      drain    == pending /\ shaReady
      direct   == write /\ ~pending /\ shaReady
      buffer   == write /\ ~pending /\ ~shaReady
      overrun  == write /\ pending /\ ~shaReady
      feed     == IF drain \/ direct THEN {"word"} ELSE {}
      end      == IF validate THEN {"finish"} ELSE {}
  IN /\ state = "LOAD"
     /\ goTo(IF overrun \/ shaError THEN "ERROR"
             ELSE IF validate THEN "FINALIZE" ELSE "LOAD")
     /\ Around(in, feed \cup end,
               IF drain THEN pendingWord
               ELSE IF direct THEN in.data ELSE pulseWord, FALSE, {})
     /\ pending' = (buffer \/ (pending /\ ~drain))
     /\ pendingWord' = IF buffer THEN in.data ELSE pendingWord
     /\ kernelId' = IF validate THEN in.id ELSE kernelId
     /\ UNCHANGED <<verified, verifyWait, zeroAddr, addrHold>>

Finalize(in) ==
  /\ state = "FINALIZE"
  /\ goTo(IF shaError THEN "ERROR"
          ELSE IF digestValid THEN "VERIFY" ELSE "FINALIZE")
  /\ verifyWait' = (verifyWait \/ digestValid)
  /\ Around(in, {}, pulseWord, FALSE, IF shaError THEN {"fail"} ELSE {})
  /\ UNCHANGED <<kernelId, verified, pending, pendingWord, zeroAddr, addrHold>>

\* Mutant: a mismatch is reported but not acted upon.
Verify_unchecked(in) ==
  /\ state = "VERIFY"
  /\ verifyWait' = FALSE
  /\ IF verifyWait
     THEN goTo("VERIFY") /\ Quiet(in)
     ELSE goTo("LOCK") /\ Around(in, {}, pulseWord, FALSE,
                                 {IF hashed = goldenOut THEN "done" ELSE "fail"})
  /\ UNCHANGED <<kernelId, verified, pending, pendingWord, zeroAddr, addrHold>>

\* One cycle for the hash memory, then the comparison.  Digests are equal
\* when the hashed words are (SHA-256 has no collisions here).
Verify(in) ==
  /\ state = "VERIFY"
  /\ verifyWait' = FALSE
  /\ IF verifyWait
     THEN goTo("VERIFY") /\ Quiet(in)
     ELSE IF hashed = goldenOut
     THEN goTo("LOCK") /\ Around(in, {}, pulseWord, FALSE, {"done"})
     ELSE goTo("ERROR") /\ Around(in, {}, pulseWord, FALSE, {"fail"})
  /\ UNCHANGED <<kernelId, verified, pending, pendingWord, zeroAddr, addrHold>>

Lock(in) ==
  /\ state = "LOCK"
  /\ goTo("EXECUTE") /\ verified' = TRUE
  /\ Quiet(in)
  /\ UNCHANGED <<kernelId, verifyWait, pending, pendingWord, zeroAddr, addrHold>>

\* Mutant: the first word of the new program is not kept for the SHA engine.
ExecuteWrite_unbuffered(in) ==
  /\ state = "EXECUTE" /\ in.kind = "write" /\ ~coreBusy
  /\ goTo("LOAD") /\ verified' = FALSE
  /\ Around(in, {"reset"}, pulseWord, TRUE, {})
  /\ UNCHANGED <<kernelId, verifyWait, pending, pendingWord, zeroAddr, addrHold>>

\* Mutant: the replaced program stays verified while the new one loads.
ExecuteWrite_keepVerified(in) ==
  /\ state = "EXECUTE" /\ in.kind = "write" /\ ~coreBusy
  /\ goTo("LOAD") /\ verified' = verified
  /\ pending' = TRUE /\ pendingWord' = in.data
  /\ Around(in, {"reset"}, pulseWord, TRUE, {})
  /\ UNCHANGED <<kernelId, verifyWait, zeroAddr, addrHold>>

\* A new program replaces the verified one once the GPU is idle.
ExecuteWrite(in) ==
  /\ state = "EXECUTE" /\ in.kind = "write" /\ ~coreBusy
  /\ goTo("LOAD") /\ verified' = FALSE
  /\ pending' = TRUE /\ pendingWord' = in.data
  /\ Around(in, {"reset"}, pulseWord, TRUE, {})
  /\ UNCHANGED <<kernelId, verifyWait, zeroAddr, addrHold>>

\* States and inputs in which the gate's registers keep their values: writes
\* are ignored, launches pass combinationally, validations are refused.
Hold(in) ==
  /\ \/ state = "ERROR"
     \/ state = "IDLE" /\ in.kind # "write"
     \/ state = "EXECUTE" /\ (in.kind = "write" => coreBusy)
  /\ Quiet(in)
  /\ UNCHANGED gate

\* Mutant: zeroization stops one address early.
Zeroize_early(in) ==
  /\ state = "RESET"
  /\ addrHold' = ~addrHold
  /\ IF addrHold /\ zeroAddr = LastAddr - 1
     THEN goTo("IDLE") /\ zeroAddr' = 0
     ELSE goTo("RESET") /\ zeroAddr' = IF addrHold THEN zeroAddr + 1 ELSE zeroAddr
  /\ Quiet(in)
  /\ UNCHANGED <<kernelId, verified, verifyWait, pending, pendingWord>>

\* Zeroization: two cycles per instruction address.
Zeroize(in) ==
  /\ state = "RESET"
  /\ addrHold' = ~addrHold
  /\ IF addrHold /\ zeroAddr = LastAddr
     THEN goTo("IDLE") /\ zeroAddr' = 0
     ELSE goTo("RESET") /\ zeroAddr' = IF addrHold THEN zeroAddr + 1 ELSE zeroAddr
  /\ Quiet(in)
  /\ UNCHANGED <<kernelId, verified, verifyWait, pending, pendingWord>>

\* A rejected packet (a NAK of any kind) raises security_error.
SecurityError ==
  /\ Paced => Settled
  /\ goTo("ERROR")
  /\ Quiet(None)
  /\ UNCHANGED <<kernelId, verified, verifyWait, pending, pendingWord,
                 zeroAddr, addrHold>>

\* Mutant: a reset leaves the fault flag as it is.
ClearGate_keepFault ==
  /\ state' = "RESET" /\ zeroAddr' = 0 /\ addrHold' = FALSE
  /\ verified' = FALSE /\ fault' = fault /\ verifyWait' = FALSE
  /\ pending' = FALSE /\ pendingWord' = ZeroWord
  /\ needsStart' = TRUE
  /\ pulse' = {} /\ pulseWord' = ZeroWord /\ reply' = {}
  /\ ShaBegin("IDLE")
  /\ kernelId' = 0 /\ goldenOut' = Golden[kernelId]
  /\ loaded' = << >>

\* What rst and security_reset do to the gate and to the SHA wrapper.
ClearGate ==
  /\ state' = "RESET" /\ zeroAddr' = 0 /\ addrHold' = FALSE
  /\ verified' = FALSE /\ fault' = FALSE /\ verifyWait' = FALSE
  /\ pending' = FALSE /\ pendingWord' = ZeroWord
  /\ needsStart' = TRUE
  /\ pulse' = {} /\ pulseWord' = ZeroWord /\ reply' = {}
  /\ ShaBegin("IDLE")
  /\ kernelId' = 0 /\ goldenOut' = Golden[kernelId]
  /\ loaded' = << >>

\* COM_CMD_SECURITY_RESET reaches the gate; a running GPU is not stopped.
SecurityReset ==
  /\ Paced => Settled
  /\ ClearGate
  /\ imem' = IF state = "RESET" THEN [imem EXCEPT ![zeroAddr] = ZeroWord]
             ELSE imem
  /\ coreBusy' \in {FALSE, coreBusy}
  /\ resetInRun' = TRUE
  /\ UNCHANGED unanswered

\* The board's reset button: everything but the memories.
BoardReset ==
  /\ ClearGate
  /\ imem' = imem
  /\ coreBusy' = FALSE /\ resetInRun' = TRUE /\ unanswered' = FALSE

-----------------------------------------------------------------------------
Init ==
  /\ state = "RESET" /\ kernelId = 0
  /\ verified = FALSE /\ fault = FALSE
  /\ needsStart = TRUE /\ verifyWait = FALSE
  /\ pending = FALSE /\ pendingWord = ZeroWord
  /\ zeroAddr = 0 /\ addrHold = FALSE
  /\ pulse = {} /\ pulseWord = ZeroWord /\ reply = {}
  /\ goldenOut = Golden[kernelId]
  /\ shaState = "IDLE" /\ shaAfter = "COLLECT" /\ hashed = << >>
  /\ digestValid = FALSE /\ shaError = FALSE
  /\ imem \in [Addr -> Word]
  /\ coreBusy = FALSE
  /\ loaded = << >> /\ resetInRun = TRUE /\ unanswered = FALSE

GateCycle(in) ==
  \/ IdleWrite(in)
  \/ LoadCycle(in)
  \/ Finalize(in)
  \/ Verify(in)
  \/ Lock(in)
  \/ ExecuteWrite(in)
  \/ Hold(in)
  \/ Zeroize(in)

Next ==
  \/ \E in \in Input : GateCycle(in)
  \/ SecurityError
  \/ SecurityReset
  \/ BoardReset

Spec == Init /\ [][Next]_vars

\* The clock keeps ticking, and the hash core ends every block it starts.
Cycle     == \E in \in Input : GateCycle(in)
BlockDone == Cycle /\ shaState = "BUSY" /\ shaState' # "BUSY"
FairSpec  == Spec /\ WF_vars(Cycle) /\ WF_vars(BlockDone)

-----------------------------------------------------------------------------
TypeOK ==
  /\ state \in States /\ kernelId \in KernelId
  /\ verified \in BOOLEAN /\ fault \in BOOLEAN
  /\ needsStart \in BOOLEAN /\ verifyWait \in BOOLEAN
  /\ pending \in BOOLEAN /\ pendingWord \in Word
  /\ zeroAddr \in Addr /\ addrHold \in BOOLEAN
  /\ pulse \in SUBSET Pulses /\ pulseWord \in Word
  /\ reply \in SUBSET {"done", "fail"}
  /\ goldenOut \in Seq(Word)
  /\ shaState \in ShaStates /\ shaAfter \in {"COLLECT", "DONE"}
  /\ hashed \in Seq(Word)
  /\ digestValid \in BOOLEAN /\ shaError \in BOOLEAN
  /\ imem \in [Addr -> Word]
  /\ coreBusy \in BOOLEAN
  /\ loaded \in Seq(Word)
  /\ resetInRun \in BOOLEAN /\ unanswered \in BOOLEAN

\* A launch can pass only for a program whose hashed words are the golden
\* program of the slot that was validated (kernel_vfy.v 135-136, 283-284).
LaunchAuthentic ==
  launchReady => hashed = Golden[kernelId]

\* The words that were stored since the load began are exactly the words the
\* digest covers, once launches are allowed (kernel_vfy.v 229-253).
StoredIsHashed ==
  state = "EXECUTE" => hashed = loaded

\* After zeroization, and until the first word of a program, the whole
\* instruction memory is zero (kernel_vfy.v 321-332).
ResetZeroizes ==
  state = "IDLE" => \A a \in Addr : imem[a] = ZeroWord

\* The fault output tells the error state exactly: it neither outlives a
\* recovery nor is missing after an error (kernel_vfy.v 206-306).
FaultTellsError ==
  fault <=> state = "ERROR"

\* While the verified flag stays up no step changes the instruction memory,
\* whatever error or request intervenes (kernel_vfy.v 127-141, 299-313).
VerifiedFrozen ==
  [][verified /\ verified' => imem' = imem]_vars

\* The program of a running kernel does not change, unless the gate has been
\* reset under it (kernel_vfy.v 127-132).
RunStable ==
  [][coreBusy /\ ~resetInRun /\ ~resetInRun' => imem' = imem]_vars

\* The inductive invariant behind the properties above.  Its parts:
\* - from VERIFY on the SHA engine gets no pulse, so the digest stands still;
\* - by the time of the comparison the hash memory shows the requested slot;
\* - in LOCK and EXECUTE the hashed words are that slot's program;
\* - verified, or a run that no reset disturbed, means EXECUTE or ERROR;
\* - the addresses that zeroization has passed are zero.
DigestStill ==
  /\ state = "FINALIZE" => ~needsStart
  /\ state \in {"VERIFY", "LOCK", "EXECUTE"} => pulse = {} /\ ~needsStart

SlotShown ==
  state = "VERIFY" /\ ~verifyWait => goldenOut = Golden[kernelId]

MatchKept ==
  state \in {"LOCK", "EXECUTE"} => hashed = Golden[kernelId]

GuardedStates ==
  /\ verified => state \in {"EXECUTE", "ERROR"}
  /\ coreBusy /\ ~resetInRun => state \in {"EXECUTE", "ERROR"}

ZeroedSoFar ==
  state = "RESET" =>
    /\ \A a \in Addr : a < zeroAddr => imem[a] = ZeroWord
    /\ addrHold => imem[zeroAddr] = ZeroWord

GateInv ==
  /\ DigestStill /\ SlotShown /\ MatchKept
  /\ GuardedStates
  /\ FaultTellsError
  /\ ZeroedSoFar /\ ResetZeroizes

\* At UART pace, the inductive invariant behind StoredIsHashed: while a
\* program loads, every stored word is in the hash, in the pulse to the engine
\* or in the buffer, in one of five phases.
Phase(buffered, p, again) == pending = buffered /\ pulse = p /\ needsStart = again

LoadPhases ==
  \/ Phase(TRUE, {"reset"}, TRUE) /\ shaState = "IDLE" /\ loaded = <<pendingWord>>
  \/ Phase(TRUE, {"start"}, FALSE) /\ shaState = "IDLE" /\ loaded = <<pendingWord>>
  \/ Phase(TRUE, {}, FALSE) /\ loaded = Append(hashed, pendingWord)
  \/ Phase(FALSE, {"word"}, FALSE) /\ shaReady /\ loaded = Append(hashed, pulseWord)
  \/ Phase(FALSE, {}, FALSE) /\ loaded = hashed

StreamInv ==
  /\ state \in {"RESET", "IDLE"} =>
       hashed = << >> /\ ~pending /\ pulse \in {{}, {"start"}}
  /\ state = "LOAD" => LoadPhases
  /\ state = "FINALIZE" =>
       /\ loaded = hashed /\ pulse \in {{}, {"finish"}}
       /\ digestValid => shaState = "IDLE" /\ pulse = {}
  /\ state \in {"VERIFY", "LOCK", "EXECUTE"} =>
       loaded = hashed /\ shaState = "IDLE"

\* Every validation request of the controller gets a reply, in whatever state
\* it arrives (kernel_vfy.v 210-212, 266-292).
ValidateAnswered ==
  unanswered ~> ~unanswered
=============================================================================
