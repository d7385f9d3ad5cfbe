------------------------------ MODULE HostLink ------------------------------
(***************************************************************************)
(* The host's end of the serial link (gpu_comm_transport, com.c) together  *)
(* with the board's (CommController).  One call of the transport is split  *)
(* into chunks; each chunk is one packet, sent up to Retries times until   *)
(* it is answered; the answer is read byte by byte off a stream that is    *)
(* never flushed.  The line may lose or corrupt packets.                   *)
(*                                                                         *)
(* A read of the host times out only when nothing but a kernel keeps the   *)
(* board from answering: its timeout (at least 100 ms) is far longer than  *)
(* all the rest the board does.  It then has consumed what had come.       *)
(***************************************************************************)
EXTENDS CommController

CONSTANTS Op,        \* calls the program above makes, of kind Operation
          MaxChunk,  \* words per packet (COM_MAX_ALIGNED_PAYLOAD / 4)
          Unknown,   \* not a data word
          Retries,   \* kRetries, RETRIES
          MaxCalls,  \* bound: calls made
          Faults,    \* kinds of line faults that may happen
          MaxFaults  \* bound: line faults

Operation == [cmd : Commands, addr : Addr, words : Seq(Value)]

\* An empty transfer sends nothing, so it is no call here; the commands that
\* go out as one packet fit into it; no transfer is larger than the memory.
ASSUME HostLinkAssumption ==
  /\ \A op \in Op :
       /\ op \in Operation
       /\ op.cmd \in {"write", "program", "constants", "read"} => op.words # << >>
       /\ op.cmd \in {"launch", "validate", "reset", "status"} => Len(op.words) <= MaxChunk
       /\ Len(op.words) <= Words
  /\ Unknown \notin Value
  /\ MaxChunk \in Nat \ {0} /\ Retries \in Nat \ {0}
  /\ Faults \subseteq {"lose", "corrupt", "misdirect", "loseAnswer", "garbleAnswer"}

VARIABLES
  call,    \* the call in progress: its chunk, its attempts, where it waits
  calls, faults, \* counters of the bounds
  want,    \* history: what the acknowledged writes put into each data word
  last,    \* history: how the last call ended
  seen     \* history: what has happened that a property makes exception for

host == <<call, calls, faults, want, last, seen>>
vars == <<board, host>>

NoCall == [op |-> [cmd |-> "none", addr |-> 0, words |-> << >>],
           off |-> 0, tries |-> 0, at |-> "none", head |-> << >>, data |-> << >>]

\* naked:   a packet was refused; closed: since the last SECURITY_RESET
\* skewed:  one with payload words was, or is going to be
\* raced:   a data word came while the GPU was busy
\* late:    the host gave up on an answer the board still owes it
\* unheard: an answer was lost or garbled
\* started: a kernel was started during the last call, or (twice) more than one
Notes == {"naked", "closed", "skewed", "raced", "late", "unheard", "started", "twice"}

-----------------------------------------------------------------------------
(***************************************************************************)
(* The bytes of the stream.                                                *)
(***************************************************************************)
Available == Len(answers)

Consume(n) == answers' = SubSeq(answers, n + 1, Len(answers))

\* The next byte is the first of a header, or of a tail.
Aligned == answers # << >> /\ answers[1].at = 1 /\ ~answers[1].of.tail
AtTail  == answers # << >> /\ answers[1].at = 1 /\ answers[1].of.tail

-----------------------------------------------------------------------------
(***************************************************************************)
(* One call.                                                               *)
(***************************************************************************)
Rest  == Len(call.op.words) - call.off
Chunk == SubSeq(call.op.words, call.off + 1,
                call.off + (IF Rest < MaxChunk THEN Rest ELSE MaxChunk))
ChunkAddr == IF call.op.cmd \in {"launch", "validate", "reset", "status"} THEN call.op.addr
             ELSE call.op.addr + call.off

Packet == [cmd |-> call.op.cmd, addr |-> ChunkAddr, words |-> Chunk, crc |-> TRUE]

Covered(op) == {(op.addr + i) % Words : i \in 0..(Len(op.words) - 1)}

Begin ==
  /\ call = NoCall /\ calls < MaxCalls
  /\ \E op \in Op :
       /\ call' = [NoCall EXCEPT !.op = op, !.at = "send"]
       /\ want' = IF op.cmd # "write" THEN want
                  ELSE [a \in Addr |-> IF a \in Covered(op) THEN Unknown ELSE want[a]]
  /\ calls' = calls + 1 /\ seen' = seen \ {"started"}
  /\ UNCHANGED <<board, faults, last>>

Send ==
  /\ call.at = "send"
  /\ line' = Append(line, Packet)
  /\ call' = [call EXCEPT !.at = IF call.op.cmd \in Reads THEN "head" ELSE "ack"]
  /\ UNCHANGED <<rx, wordsSeen, fsm, rd, tx, hold, pending, memDone, mem, gate, busy, answers>>
  /\ UNCHANGED <<calls, faults, want, last, seen>>

Return(ok, data) ==
  /\ call' = NoCall
  /\ last' = [op |-> call.op, ok |-> ok, data |-> data]
  /\ want' = IF ~ok \/ call.op.cmd # "write" THEN want
             ELSE [a \in Addr |->
                     IF a \in Covered(call.op)
                     THEN call.op.words[((a - call.op.addr) % Words) + 1] ELSE want[a]]

Retry ==
  IF call.tries + 1 < Retries
  THEN /\ call' = [call EXCEPT !.tries = @ + 1, !.at = "send", !.head = << >>]
       /\ UNCHANGED <<last, want>>
  ELSE Return(FALSE, << >>)

ChunkDone(data) ==
  IF call.off + MaxChunk < Len(call.op.words)
  THEN /\ call' = [call EXCEPT !.off = @ + MaxChunk, !.tries = 0, !.at = "send",
                               !.head = << >>, !.data = @ \o data]
       /\ UNCHANGED <<last, want>>
  ELSE Return(TRUE, call.data \o data)

\* What the host does with bytes it has read touches no register of the board.
Reading == UNCHANGED <<line, rx, wordsSeen, fsm, rd, tx, hold, pending, memDone, mem,
                       gate, busy, calls, faults>>

\* Mutant: the address is compared with the first chunk's.
IsAck_firstChunk ==
  /\ Aligned
  /\ answers[1].of.cmd = "ack" /\ answers[1].of.addr = call.op.addr /\ answers[1].of.len = 0
  /\ answers[7].of.ok

\* expect_ack reads seven bytes and takes them for one packet.
IsAck ==
  /\ Aligned
  /\ answers[1].of.cmd = "ack" /\ answers[1].of.addr = ChunkAddr /\ answers[1].of.len = 0
  /\ answers[7].of.ok

ReceiveAck ==
  /\ call.at = "ack" /\ Available >= 7
  /\ Consume(7)
  /\ IF IsAck THEN ChunkDone(<< >>) ELSE Retry
  /\ Reading /\ UNCHANGED seen

\* read_packet reads a header first; without the start byte it sends again.
ReceiveHead ==
  /\ call.at = "head" /\ Available >= 6
  /\ Consume(6)
  /\ IF Aligned
     THEN /\ call' = [call EXCEPT !.at = "tail", !.head = <<answers[1].of>>]
          /\ UNCHANGED <<last, want>>
     ELSE Retry
  /\ Reading /\ UNCHANGED seen

TailBytes == 4 * call.head[1].len + 1

\* A response that parses but is not the one asked for ends the call.
IsResponse ==
  /\ call.head[1].cmd = call.op.cmd
  /\ call.op.cmd = "read" => /\ call.head[1].addr = ChunkAddr
                             /\ call.head[1].len = Len(Chunk)

\* Mutant: the checksum of a response is not compared.
ReceiveTail_unchecked ==
  /\ call.at = "tail" /\ Available >= TailBytes
  /\ Consume(TailBytes)
  /\ IF ~(AtTail /\ Size(answers[1].of) = TailBytes)
     THEN Retry
     ELSE IF IsResponse THEN ChunkDone(answers[1].of.data) ELSE Return(FALSE, << >>)
  /\ Reading /\ UNCHANGED seen

ReceiveTail ==
  /\ call.at = "tail" /\ Available >= TailBytes
  /\ Consume(TailBytes)
  /\ IF ~(AtTail /\ Size(answers[1].of) = TailBytes /\ answers[1].of.ok)
     THEN Retry
     ELSE IF IsResponse THEN ChunkDone(answers[1].of.data) ELSE Return(FALSE, << >>)
  /\ Reading /\ UNCHANGED seen

Needed == CASE call.at = "ack" -> 7 [] call.at = "head" -> 6 [] call.at = "tail" -> TailBytes

TimesOut ==
  /\ call.at \in {"ack", "head", "tail"} /\ Available < Needed /\ Stalled
  /\ answers' = << >>
  /\ Retry
  /\ seen' = seen \cup (IF tx # NoTx \/ rx.st = "wait" \/ answers # << >> THEN {"late"} ELSE {})
  /\ Reading

-----------------------------------------------------------------------------
(***************************************************************************)
(* The line.                                                               *)
(***************************************************************************)
Fault(kind) ==
  /\ kind \in Faults /\ faults < MaxFaults
  /\ faults' = faults + 1

LoseRequest ==
  /\ Fault("lose") /\ line # << >>
  /\ line' = Tail(line)
  /\ UNCHANGED <<rx, wordsSeen, fsm, rd, tx, hold, pending, memDone, mem, gate, busy, answers>>
  /\ UNCHANGED <<call, calls, want, last, seen>>

\* A flipped bit of the payload or the CRC, or of the address: the words go
\* somewhere else.
CorruptRequest ==
  /\ line # << >>
  /\ \/ Fault("corrupt") /\ line' = <<[Head(line) EXCEPT !.crc = FALSE]>> \o Tail(line)
     \/ /\ Fault("misdirect")
        /\ \E a \in Addr :
             line' = <<[Head(line) EXCEPT !.crc = FALSE, !.addr = a]>> \o Tail(line)
  /\ UNCHANGED <<rx, wordsSeen, fsm, rd, tx, hold, pending, memDone, mem, gate, busy, answers>>
  /\ UNCHANGED <<call, calls, want, last, seen>>

WholeAnswer == Aligned /\ Len(answers) > 6 /\ answers[7].of.tail
AnswerEnd   == 6 + Size(answers[7].of)

LoseAnswer ==
  /\ WholeAnswer /\ Fault("loseAnswer")
  /\ answers' = SubSeq(answers, AnswerEnd + 1, Len(answers))
  /\ UNCHANGED <<line, rx, wordsSeen, fsm, rd, tx, hold, pending, memDone, mem, gate, busy>>
  /\ seen' = seen \cup {"unheard"} /\ UNCHANGED <<call, calls, want, last>>

Garbled(piece) == [piece EXCEPT !.ok = FALSE, !.data = [i \in DOMAIN @ |-> Zero]]

GarbleAnswer ==
  /\ WholeAnswer /\ Fault("garbleAnswer")
  /\ answers' = [i \in DOMAIN answers |-> IF i \in 7..AnswerEnd
                                          THEN [answers[i] EXCEPT !.of = Garbled(@)] ELSE answers[i]]
  /\ UNCHANGED <<line, rx, wordsSeen, fsm, rd, tx, hold, pending, memDone, mem, gate, busy>>
  /\ seen' = seen \cup {"unheard"} /\ UNCHANGED <<call, calls, want, last>>

-----------------------------------------------------------------------------
\* A step of the board, and what the history notes of it.
Refused == \/ rx.st = "crc" /\ ~rx.p.crc
           \/ rx.st = "wait" /\ hold = "fail" /\ rx'.st = "idle"

ResetNow == rx.st = "crc" /\ rx'.st = "wait" /\ rx.p.cmd = "reset"

Noted ==
  (IF Refused /\ rx'.st = "idle"
   THEN {"naked", "closed"} \cup (IF rx.p.words # << >> THEN {"skewed"} ELSE {}) ELSE {})
  \cup (IF rx'.at > rx.at /\ ~rx.p.crc THEN {"skewed"} ELSE {})
  \cup (IF rx'.at > rx.at /\ rx.p.cmd = "write" /\ busy THEN {"raced"} ELSE {})
  \cup (IF busy' /\ ~busy THEN {"started"} ELSE {})
  \cup (IF busy' /\ ~busy /\ "started" \in seen THEN {"twice"} ELSE {})

Init ==
  /\ BoardInit
  /\ call = NoCall /\ calls = 0 /\ faults = 0
  /\ want = [a \in Addr |-> Zero]
  /\ last = [op |-> NoCall.op, ok |-> TRUE, data |-> << >>]
  /\ seen = {}

Board ==
  /\ BoardStep \/ KernelEnds
  /\ seen' = (seen \ IF ResetNow THEN {"closed"} ELSE {}) \cup Noted
  /\ UNCHANGED <<call, calls, faults, want, last>>

HostStep == Send \/ ReceiveAck \/ ReceiveHead \/ ReceiveTail \/ TimesOut

Line == LoseRequest \/ CorruptRequest \/ LoseAnswer \/ GarbleAnswer

Next == Begin \/ HostStep \/ Board \/ Line

Spec == Init /\ [][Next]_vars

-----------------------------------------------------------------------------
(***************************************************************************)
(* Properties.                                                             *)
(***************************************************************************)
Stored == \A a \in Addr : want[a] # Unknown => mem[a] = want[a]

\* A write whose packets were all acknowledged, none of them while a kernel
\* ran, is in the data memory and stays there until the next write to it
\* (com.h:12, "write LEN bytes to data BRAM at ADDR").
AckMeansWritten == "raced" \notin seen => Stored

\* The same for every history in which no packet with payload was refused
\* and the host never gave up on an answer: lost packets, lost and garbled
\* answers and repeated attempts do no harm to what earlier and later writes
\* put into memory.  An answer it gave up on may be taken for the next one.
WrittenOnceAcked == seen \cap {"skewed", "raced", "late"} = {} => Stored

\* The words a successful read returned are the ones in memory (com.h:80,
\* "Read data_len bytes from data BRAM starting at addr into out_buf").
ReadReturnsMemory ==
  (call = NoCall /\ last.ok /\ last.op.cmd = "read") =>
     \A i \in DOMAIN last.op.words :
        last.data[i] = mem[(last.op.addr + i - 1) % Words]

\* The same for every history in which the host never gave up on an answer:
\* lost, garbled and repeated packets do not get past read_packet's checks.
ReadInTime == "late" \notin seen => ReadReturnsMemory

\* A call fails only if the line failed it, the board refused one of its
\* packets, a data write met a running kernel or an answer came too late
\* (three attempts of send_packet and read_packet).
FailsForAReason ==
  last.ok \/ faults > 0 \/ seen \cap {"naked", "raced", "late"} # {}

\* Every refusal leaves the gate in its error state: no kernel is launched
\* after a NAK until the gate is reset (security_error).  Only a refusal that
\* meets an answer still pending, held back by a read the host gave up on,
\* goes unnoticed: the controller captures nothing while req_valid is set.
RefusalClosesGate == "closed" \in seen => gate = "error" \/ "late" \in seen

\* One launch call starts at most one kernel, as long as its answers are heard.
StartsAtMostOnce == "twice" \in seen => seen \cap {"unheard", "late"} # {}

\* When the board has come to rest, its receiver is not stuck on a packet,
\* unless a data write met a running kernel (nothing but write_done or
\* write_fail leaves WAIT_WRITE), and no answer is stuck behind a read the
\* host gave up on (the controller waits for the transmitter in IDLE).
NothingStuck ==
  Stalled => /\ rx.st = "wait" => "raced" \in seen
             /\ pending # NoAnswer => "late" \in seen
=============================================================================
