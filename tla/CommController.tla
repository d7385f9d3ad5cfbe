--------------------------- MODULE CommController ---------------------------
(***************************************************************************)
(* The board's end of the serial link: the packet receiver                 *)
(* (serial_packet_rx), the communication controller that streams payload   *)
(* words into memory and answers each packet, the transmitter              *)
(* (serial_packet_tx), and what they see of the rest of the top level      *)
(* (basys3_security_top, bus_controller): the data memory, the write-done  *)
(* flag of the bus, the gate's verdicts and the busy flag of the GPU.      *)
(*                                                                         *)
(* A packet arrives header first, then word by word, then its CRC, so the  *)
(* words are in memory before the CRC is known to be right.  What the      *)
(* board does within a few clock cycles is one step here; what takes bytes *)
(* on the wire, or a kernel, is a step of its own.  Five abstractions:      *)
(*  - a request comes whole or not at all; the bytes of a truncated one     *)
(*    are never taken for another, nor is a flipped length modelled;        *)
(*  - wordsSeen is kept modulo Words, because only its sum with the         *)
(*    address, cut to the memory's width, is used;                          *)
(*  - the contents of program and constant memory are KernelVfy's and the   *)
(*    cores' concern: here their words only count, and move the gate;       *)
(*  - of kernel_vfy the states between packets are kept, its sequencing     *)
(*    is modelled in KernelVfy;                                             *)
(*  - the transmitter keeps the length a response began with (owed).  The   *)
(*    wire tx_len is read until the last byte, and a read that starts under *)
(*    an unfinished response rewrites it (communication_controller.v 501,   *)
(*    584): the end of such a response is not followed byte by byte.  The   *)
(*    host has given up on an answer then, which the properties except.     *)
(***************************************************************************)
EXTENDS Integers, Sequences

CONSTANTS Words,  \* words of the data memory (2^ADDR_WIDTH)
          Value,  \* data words
          Zero    \* the data word a cleared memory holds

Commands == {"write", "program", "constants", "launch",
             "validate", "reset", "read", "status"}

\* Commands whose payload words move write_words_seen, and the two that are
\* answered by a packet of data instead of an ACK.
Streamed == {"write", "program", "constants", "launch"}
Reads    == {"read", "status"}

ASSUME CommControllerAssumption == Words \in Nat \ {0} /\ Zero \in Value

VARIABLES
  line,    \* packets the host has sent and the board has not yet received
  rx,      \* the receiver: its state, the packet and the words of it taken
  wordsSeen,  \* write_words_seen
  fsm,     \* state of the controller
  rd,      \* read_addr and read_bytes_left of the response being built
  tx,      \* data words the transmitter owes, and those it has sent
  hold,    \* write_done_hold, write_fail_hold
  pending, \* req_valid, pending_is_nack and pending_addr
  memDone, \* host_mem_write_done_q of the bus controller
  mem,     \* data memory
  gate,    \* state of kernel_vfy between packets
  busy,    \* gpu_busy
  answers  \* bytes of answer packets on their way to the host

board == <<line, rx, wordsSeen, fsm, rd, tx, hold, pending, memDone, mem,
           gate, busy, answers>>

Addr == 0..(Words - 1)

NoPacket == [cmd |-> "none", addr |-> 0, words |-> << >>, crc |-> TRUE]
NoAnswer == [nak |-> FALSE, addr |-> -1]
NoRead   == [status |-> FALSE, addr |-> 0, left |-> 0]
NoTx     == [owed |-> 0, data |-> << >>]

\* An answer is a header of six bytes and a tail: its data words and the CRC.
Header(cmd, addr, len) ==
  [tail |-> FALSE, cmd |-> cmd, addr |-> addr, len |-> len, data |-> << >>, ok |-> TRUE]
Payload(data) ==
  [tail |-> TRUE, cmd |-> "none", addr |-> 0, len |-> Len(data), data |-> data, ok |-> TRUE]

Size(piece)  == IF piece.tail THEN 4 * piece.len + 1 ELSE 6
Bytes(piece) == [i \in 1..Size(piece) |-> [of |-> piece, at |-> i]]

-----------------------------------------------------------------------------
(***************************************************************************)
(* serial_packet_rx and the words it hands on.                             *)
(***************************************************************************)
\* Every command byte but those of Streamed clears the word counter.
PacketArrives ==
  /\ line # << >> /\ rx.st = "idle"
  /\ LET p == Head(line)
     IN /\ rx' = [st |-> IF p.words = << >> THEN "crc" ELSE "payload", p |-> p, at |-> 0]
        /\ wordsSeen' = IF p.cmd \in Streamed THEN wordsSeen ELSE 0
  /\ line' = Tail(line)
  /\ UNCHANGED <<fsm, rd, tx, hold, pending, memDone, mem, gate, busy, answers>>

\* WAIT_WRITE looks at no byte: a packet that comes in this state is not seen.
PacketMissed ==
  /\ line # << >> /\ rx.st = "wait"
  /\ line' = Tail(line)
  /\ UNCHANGED <<rx, wordsSeen, fsm, rd, tx, hold, pending, memDone, mem, gate, busy, answers>>

Blocked == gate = "error" \/ (gate = "execute" /\ busy)

\* Mutant: the word counter is not added to the address.
DataWord_noOffset(w) ==
  /\ IF busy THEN UNCHANGED <<mem, memDone>>
     ELSE /\ mem' = [mem EXCEPT ![rx.p.addr % Words] = w]
          /\ memDone' = TRUE
  /\ UNCHANGED gate

\* While the GPU is busy the top level keeps the request from the bus.
DataWord(w) ==
  /\ IF busy THEN UNCHANGED <<mem, memDone>>
     ELSE /\ mem' = [mem EXCEPT ![(rx.p.addr + wordsSeen) % Words] = w]
          /\ memDone' = TRUE
  /\ UNCHANGED gate

ProgramWord ==
  /\ gate' = IF Blocked THEN gate ELSE "load"
  /\ UNCHANGED <<mem, memDone>>

WordArrives ==
  /\ rx.st = "payload"
  /\ rx' = [rx EXCEPT !.at = @ + 1,
                      !.st = IF rx.at + 1 = Len(rx.p.words) THEN "crc" ELSE "payload"]
  /\ CASE rx.p.cmd = "write"   -> DataWord(rx.p.words[rx.at + 1])
       [] rx.p.cmd = "program" -> ProgramWord
       [] OTHER                -> UNCHANGED <<mem, memDone, gate>>
  /\ wordsSeen' = IF rx.p.cmd \in Streamed THEN (wordsSeen + 1) % Words ELSE wordsSeen
  /\ UNCHANGED <<line, fsm, rd, tx, hold, pending, busy, answers>>

-----------------------------------------------------------------------------
(***************************************************************************)
(* A packet is answered.  An answer still pending hides the next one; a    *)
(* NAK that is captured raises security_error, which the gate takes.       *)
(***************************************************************************)
\* Mutant: a NAK does not raise security_error.
Capture_quiet(nak) ==
  /\ pending' = IF pending = NoAnswer /\ (nak \/ rx.p.cmd \notin Reads)
                THEN [nak |-> nak, addr |-> rx.p.addr] ELSE pending
  /\ gate' = gate

\* Mutant: the address of the packet is not kept for its answer.
Capture_noAddr(nak) ==
  /\ pending' = IF pending = NoAnswer /\ (nak \/ rx.p.cmd \notin Reads)
                THEN [nak |-> nak, addr |-> 0] ELSE pending
  /\ gate' = IF nak /\ pending = NoAnswer THEN "error" ELSE gate

Capture(nak) ==
  /\ pending' = IF pending = NoAnswer /\ (nak \/ rx.p.cmd \notin Reads)
                THEN [nak |-> nak, addr |-> rx.p.addr] ELSE pending
  /\ gate' = IF nak /\ pending = NoAnswer THEN "error" ELSE gate

CrcFails ==
  /\ rx.st = "crc" /\ ~rx.p.crc
  /\ rx' = [rx EXCEPT !.st = "idle"]
  /\ hold' = "none"
  /\ Capture(TRUE)
  /\ UNCHANGED <<line, wordsSeen, fsm, rd, tx, memDone, mem, busy, answers>>

\* READ_START and STATUS_START: the header goes out at once, unless the
\* transmitter still owes data of an earlier response, which keeps its length.
StartResponse(len) ==
  /\ fsm' = "read"
  /\ rd' = [status |-> rx.p.cmd = "status", addr |-> rx.p.addr, left |-> len]
  /\ IF tx = NoTx
     THEN /\ answers' = answers \o Bytes(Header(rx.p.cmd, rx.p.addr, len))
          /\ tx' = [NoTx EXCEPT !.owed = len]
     ELSE UNCHANGED <<answers, tx>>

launchReady == gate = "execute"

\* A launch that is refused leaves the word counter where its payload put it.
\* mini_gpu ignores a launch while it is busy, the answer is ACK all the same.
Launched ==
  /\ hold' = IF launchReady THEN "done" ELSE "fail"
  /\ busy' = (busy \/ launchReady)
  /\ wordsSeen' = IF launchReady THEN 0 ELSE wordsSeen
  /\ UNCHANGED <<fsm, rd, tx, gate, answers>>

ReadAsked ==
  /\ hold' = "done"
  /\ StartResponse(IF rx.p.cmd = "status" THEN 1 ELSE Len(rx.p.words))
  /\ UNCHANGED <<wordsSeen, gate, busy>>

WriteDone ==
  /\ wordsSeen' = 0
  /\ CASE rx.p.cmd = "write"     -> fsm' = "writeResponse" /\ UNCHANGED hold
       [] rx.p.cmd = "program"   -> hold' = (IF Blocked THEN "fail" ELSE "done") /\ UNCHANGED fsm
       [] rx.p.cmd = "constants" -> hold' = "done" /\ UNCHANGED fsm
  /\ UNCHANGED <<rd, tx, gate, busy, answers>>

ValidateAsked ==
  /\ fsm' = "validate"
  /\ UNCHANGED <<wordsSeen, rd, tx, hold, gate, busy, answers>>

\* Mutant: SECURITY_RESET is passed on and not answered.
ResetAsked_silent ==
  /\ hold' = "none" /\ gate' = "idle"
  /\ UNCHANGED <<wordsSeen, fsm, rd, tx, busy, answers>>

\* The zeroization that SECURITY_RESET starts is over before the next packet.
ResetAsked ==
  /\ hold' = "done" /\ gate' = "idle"
  /\ UNCHANGED <<wordsSeen, fsm, rd, tx, busy, answers>>

PacketDone ==
  /\ rx.st = "crc" /\ rx.p.crc
  /\ rx' = [rx EXCEPT !.st = "wait"]
  /\ CASE rx.p.cmd = "launch"   -> Launched
       [] rx.p.cmd = "validate" -> ValidateAsked
       [] rx.p.cmd = "reset"    -> ResetAsked
       [] rx.p.cmd \in Reads    -> ReadAsked
       [] OTHER                 -> WriteDone
  /\ UNCHANGED <<line, pending, memDone, mem>>

\* SEND_ACK, SEND_NACK.
Answer ==
  /\ rx.st = "wait" /\ hold # "none"
  /\ rx' = [rx EXCEPT !.st = "idle"]
  /\ hold' = "none"
  /\ Capture(hold = "fail")
  /\ UNCHANGED <<line, wordsSeen, fsm, rd, tx, memDone, mem, busy, answers>>

-----------------------------------------------------------------------------
(***************************************************************************)
(* The controller's own states.                                            *)
(***************************************************************************)
WriteResponse ==
  /\ fsm = "writeResponse" /\ memDone
  /\ hold' = "done" /\ memDone' = FALSE /\ fsm' = "idle"
  /\ UNCHANGED <<line, rx, wordsSeen, rd, tx, pending, mem, gate, busy, answers>>

\* The gate compares the digest only when a program was loaded, and refuses
\* in every other state.
ValidateResponse ==
  /\ fsm = "validate"
  /\ \E matches \in BOOLEAN :
       /\ matches => gate = "load"
       /\ hold' = IF matches THEN "done" ELSE "fail"
       /\ gate' = IF matches THEN "execute" ELSE IF gate = "load" THEN "error" ELSE gate
  /\ fsm' = "idle"
  /\ UNCHANGED <<line, rx, wordsSeen, rd, tx, pending, memDone, mem, busy, answers>>

\* A word of the response: memory is not read while the GPU is busy.
ServeWord ==
  /\ fsm = "read" /\ rd.left > 0 /\ tx.owed > 0
  /\ rd.status \/ ~busy
  /\ LET word == IF rd.status THEN (IF busy THEN 1 ELSE 0) ELSE mem[rd.addr % Words]
         data == Append(tx.data, word)
     IN IF tx.owed = 1
        THEN answers' = answers \o Bytes(Payload(data)) /\ tx' = NoTx
        ELSE answers' = answers /\ tx' = [owed |-> tx.owed - 1, data |-> data]
  /\ rd' = [rd EXCEPT !.addr = @ + 1, !.left = @ - 1]
  /\ fsm' = IF rd.left = 1 /\ tx.owed = 1 THEN "idle" ELSE "read"
  /\ UNCHANGED <<line, rx, wordsSeen, hold, pending, memDone, mem, gate, busy>>

\* ISSUE_CMD and WAIT_TX: the controller waits for a transmitter that is free.
IssueAnswer ==
  /\ fsm = "idle" /\ pending # NoAnswer /\ tx = NoTx
  /\ answers' = answers \o Bytes(Header(IF pending.nak THEN "nak" ELSE "ack", pending.addr, 0))
                        \o Bytes(Payload(<< >>))
  /\ pending' = NoAnswer
  /\ UNCHANGED <<line, rx, wordsSeen, fsm, rd, tx, hold, memDone, mem, gate, busy>>

KernelEnds ==
  /\ busy /\ busy' = FALSE
  /\ UNCHANGED <<line, rx, wordsSeen, fsm, rd, tx, hold, pending, memDone, mem, gate, answers>>

\* The host opens the port of a board that may have been in use before: a
\* program can be verified, and running.
BoardInit ==
  /\ line = << >> /\ answers = << >>
  /\ rx = [st |-> "idle", p |-> NoPacket, at |-> 0]
  /\ wordsSeen = 0 /\ fsm = "idle" /\ rd = NoRead /\ tx = NoTx
  /\ hold = "none" /\ pending = NoAnswer /\ memDone = FALSE
  /\ mem \in [Addr -> {Zero}] /\ gate \in {"idle", "execute"}
  /\ busy \in (IF gate = "execute" THEN BOOLEAN ELSE {FALSE})

BoardStep ==
  \/ PacketArrives \/ PacketMissed \/ WordArrives \/ CrcFails \/ PacketDone
  \/ Answer \/ WriteResponse \/ ValidateResponse \/ ServeWord \/ IssueAnswer

\* Nothing is left for the board to do until a packet comes or a kernel ends.
Stalled ==
  /\ line = << >>
  /\ rx.st = "idle" \/ (rx.st = "wait" /\ hold = "none")
  /\ fsm \notin {"validate"} /\ ~(fsm = "writeResponse" /\ memDone)
  /\ ~(fsm = "read" /\ rd.left > 0 /\ tx.owed > 0 /\ (rd.status \/ ~busy))
  /\ ~(fsm = "idle" /\ pending # NoAnswer /\ tx = NoTx)
=============================================================================
