--------------------------- MODULE HostLinkProofs ---------------------------
(***************************************************************************)
(* What HostLink promises, for every set of calls, every size of memory    *)
(* and packet, every number of attempts and every kind of line fault.      *)
(*                                                                         *)
(* The core is Exchange: until the host gives up on an answer the board    *)
(* still owes it, host and board take turns.  There is one exchange at a   *)
(* time, it is in one of nine phases, and what each side does takes it     *)
(* from one phase to the next.                                             *)
(***************************************************************************)
EXTENDS HostLink, NumbersAndBlocks, SequenceTheorems

Datum   == Value \cup {0, 1}
Packets == {p \in [cmd : Commands, addr : Nat, words : Seq(Value), crc : BOOLEAN] :
              p.cmd = "write" => p.words # << >>}
Pieces  == [tail : BOOLEAN, cmd : Commands \cup {"none", "ack", "nak"}, addr : Int,
            len : Nat, data : Seq(Datum), ok : BOOLEAN]
Octets  == [of : Pieces, at : Nat]
Calls   == Op \cup {NoCall.op}

BoardTypes ==
  /\ line \in Seq(Packets)
  /\ rx \in [st : {"idle", "payload", "crc", "wait"}, p : Packets \cup {NoPacket}, at : Nat]
  /\ wordsSeen \in Addr
  /\ fsm \in {"idle", "writeResponse", "validate", "read"}
  /\ rd \in [status : BOOLEAN, addr : Nat, left : Nat]
  /\ tx \in [owed : Nat, data : Seq(Datum)]
  /\ hold \in {"none", "done", "fail"}
  /\ pending \in [nak : BOOLEAN, addr : Int]
  /\ memDone \in BOOLEAN /\ mem \in [Addr -> Value]
  /\ gate \in {"idle", "load", "execute", "error"} /\ busy \in BOOLEAN
  /\ answers \in Seq(Octets)

CallTypes ==
  /\ call \in [op : Calls, off : Nat, tries : Nat, at : {"none", "send", "ack", "head", "tail"},
               head : Seq(Pieces), data : Seq(Datum)]
  /\ want \in [Addr -> Value \cup {Unknown}]
  /\ last \in [op : Calls, ok : BOOLEAN, data : Seq(Datum)]

HostTypes == CallTypes /\ calls \in Nat /\ faults \in Nat /\ seen \subseteq Notes

TypeOK == BoardTypes /\ HostTypes

\* The call in progress is one of Op, at the start of one of its chunks, and
\* waits for what its command is answered by.
CallInv ==
  /\ call.at = "none" <=> call = NoCall
  /\ call.at # "none" => call.op \in Op /\ (call.off = 0 \/ call.off < Len(call.op.words))
  /\ call.op.cmd \in {"launch", "validate", "reset", "status"} => call.off = 0
  /\ call.at = "ack" => call.op.cmd \notin Reads
  /\ call.at \in {"head", "tail"} => call.op.cmd \in Reads
  /\ call.at = "tail" => Len(call.head) = 1

\* The receiver holds a packet whenever it is not idle, and waits in
\* WAIT_WRITE only for what the controller is going to say, unless a data
\* word of the packet met a running kernel.
ReceiverInv ==
  /\ rx.st # "idle" => rx.p \in Packets
  /\ rx.st = "payload" => rx.at < Len(rx.p.words)
  /\ (rx.st = "crc" \/ (rx.st = "payload" /\ rx.at > 0)) /\ rx.p.cmd = "write"
       => memDone \/ "raced" \in seen
  /\ hold # "none" => rx.st = "wait"
  /\ fsm \in {"writeResponse", "validate"} => rx.st = "wait" /\ hold = "none"
  /\ rx.st = "wait" => \/ hold # "none" \/ fsm = "validate"
                       \/ fsm = "writeResponse" /\ (memDone \/ "raced" \in seen)

-----------------------------------------------------------------------------
(***************************************************************************)
(* The phases of an exchange.                                              *)
(***************************************************************************)
\* The receiver takes a packet now, or as soon as SEND_ACK of the last read.
ReceiverOpen == \/ rx.st = "idle" /\ hold = "none"
                \/ rx.st = "wait" /\ hold = "done" /\ rx.p.cmd \in Reads

\* The controller owes nothing.
Quiet == fsm = "idle" /\ pending = NoAnswer /\ tx = NoTx

\* A packet of the present chunk, perhaps corrupted.
Asks(p) == p.cmd = call.op.cmd /\ p.words = Chunk /\ (p.crc => p.addr = ChunkAddr)

AtStart == call.at = IF call.op.cmd \in Reads THEN "head" ELSE "ack"
Silence == line = << >> /\ answers = << >>

Resting == call.at \in {"none", "send"} /\ Silence /\ ReceiverOpen /\ Quiet

Sent ==
  /\ AtStart /\ answers = << >> /\ ReceiverOpen /\ Quiet
  /\ Len(line) = 1 /\ Asks(line[1])

Taken ==
  /\ AtStart /\ Silence /\ Quiet
  /\ rx.st \in {"payload", "crc"} /\ hold = "none" /\ Asks(rx.p)

Working ==
  /\ AtStart /\ Silence /\ pending = NoAnswer /\ tx = NoTx
  /\ rx.st = "wait" /\ hold = "none" /\ Asks(rx.p) /\ rx.p.crc
  /\ \/ fsm = "writeResponse" /\ rx.p.cmd = "write"
     \/ fsm = "validate" /\ rx.p.cmd = "validate"

Holding ==
  /\ AtStart /\ Silence /\ Quiet
  /\ rx.st = "wait" /\ hold # "none" /\ Asks(rx.p) /\ rx.p.crc /\ rx.p.cmd \notin Reads

Owing ==
  /\ AtStart /\ Silence /\ fsm = "idle" /\ tx = NoTx
  /\ rx.st = "idle" /\ hold = "none" /\ pending # NoAnswer
  /\ ~pending.nak => pending.addr = ChunkAddr /\ call.op.cmd \notin Reads

\* The response to a read: as many words as the chunk has, or the status.
ResponseLen    == IF call.op.cmd = "status" THEN 1 ELSE Len(Chunk)
ResponseHeader == Header(call.op.cmd, ChunkAddr, ResponseLen)

Serving ==
  /\ line = << >> /\ ReceiverOpen /\ pending = NoAnswer
  /\ call.op.cmd \in Reads /\ fsm = "read" /\ tx.owed > 0
  /\ rd = [status |-> call.op.cmd = "status", addr |-> ChunkAddr + Len(tx.data), left |-> tx.owed]
  /\ tx.owed + Len(tx.data) = ResponseLen
  /\ \/ call.at = "head" /\ answers = Bytes(ResponseHeader)
     \/ call.at = "tail" /\ answers = << >> /\ call.head = <<ResponseHeader>>

\* The two pieces of an answer; the host may have taken the first already.
AnswerHead == IF call.at = "tail" THEN call.head[1] ELSE answers[1].of
AnswerTail == IF call.at = "tail" THEN answers[1].of ELSE answers[7].of

Heard ==
  /\ line = << >> /\ ReceiverOpen /\ Quiet
  /\ call.at = "tail" \/ AtStart
  /\ IF call.at = "tail"
     THEN answers # << >> /\ answers = Bytes(answers[1].of)
     ELSE Len(answers) > 6 /\ answers = Bytes(answers[1].of) \o Bytes(answers[7].of)
  /\ AnswerTail.tail /\ AnswerTail.len = AnswerHead.len
  /\ Len(AnswerTail.data) = AnswerTail.len
  /\ \/ call.op.cmd \in Reads /\ AnswerHead = ResponseHeader
     \/ call.op.cmd \notin Reads /\ AnswerHead = Header("ack", ChunkAddr, 0)
     \/ AnswerHead = Header("nak", AnswerHead.addr, 0)

Silent == AtStart /\ Silence /\ ReceiverOpen /\ Quiet

InPhase == Resting \/ Sent \/ Taken \/ Working \/ Holding \/ Owing \/ Serving \/ Heard \/ Silent

Exchange == "late" \in seen \/ InPhase

-----------------------------------------------------------------------------
\* Only a launch starts a kernel, and its answer is on the way from then on.
LaunchInHand ==
  \/ Holding /\ hold = "done"
  \/ Owing /\ ~pending.nak
  \/ Heard /\ AnswerHead.cmd = "ack" /\ AnswerTail.ok

StartInv ==
  /\ "started" \in seen /\ seen \cap {"unheard", "late"} = {} =>
       call = NoCall \/ (call.op.cmd = "launch" /\ LaunchInHand)
  /\ StartsAtMostOnce

\* Without faults, refusals and races an attempt is in vain only when its
\* packet meets the SEND_ACK of an earlier read, and that happens once.
Smooth == faults = 0 /\ seen \cap {"naked", "raced", "late"} = {}

Calm ==
  /\ call.tries <= 1
  /\ call.tries = 1 /\ (call.at = "send" \/ Sent) => rx.st = "idle"
  /\ Silent => call.tries = 0
  /\ line # << >> => line[1].crc
  /\ rx.st \in {"payload", "crc"} => rx.p.crc
  /\ Owing => ~pending.nak
  /\ Heard => AnswerHead.cmd # "nak" /\ AnswerTail.ok

SmoothInv == FailsForAReason /\ (Smooth => Calm)

FromMemory(data, addr) == \A i \in 1..Len(data) : data[i] = mem[(addr + i - 1) % Words]

\* What a read has returned so far, the response that is being built, one on
\* its way, and the result of the last read are what memory holds.
ReadSoFar == call.op.cmd = "read" =>
  Len(call.data) = call.off /\ FromMemory(call.data, call.op.addr)

ReadServed == call.op.cmd = "read" /\ fsm = "read" => FromMemory(tx.data, ChunkAddr)

ReadAnswered == call.op.cmd = "read" /\ Heard /\ AnswerHead.cmd = "read" /\ AnswerTail.ok =>
  FromMemory(AnswerTail.data, ChunkAddr)

ReadReturned == call = NoCall /\ last.ok /\ last.op.cmd = "read" =>
  Len(last.data) = Len(last.op.words) /\ FromMemory(last.data, last.op.addr)

ReadInv == "late" \notin seen => ReadSoFar /\ ReadServed /\ ReadAnswered /\ ReadReturned

\* Words of the chunk that the board has in memory for certain.
Reached ==
  IF rx.st \in {"payload", "crc"} /\ Taken THEN rx.at
  ELSE IF \/ Working
          \/ Holding /\ hold = "done"
          \/ Owing /\ ~pending.nak
          \/ Heard /\ AnswerHead.cmd = "ack" /\ AnswerTail.ok
       THEN Len(Chunk) ELSE 0

\* The CRC comes after the last word.
AllTaken == rx.st = "crc" => rx.at = Len(rx.p.words)

\* No packet with words was refused, no word of a write met a running kernel,
\* and the host has given up on no answer.
Sound == seen \cap {"skewed", "raced", "late"} = {}

\* Words are taken of good packets only, and counted until the packet ends;
\* a launch that is refused keeps its count until the refusal is sent.
GoodWords == Taken => (rx.at > 0 => rx.p.crc)

Counted ==
  ~(Holding /\ hold = "fail" /\ rx.p.words # << >>) =>
     wordsSeen = IF rx.st \in {"payload", "crc"} /\ rx.p.cmd \in Streamed
                 THEN rx.at % Words ELSE 0

\* A write in progress has put its words into memory up to where it is, and
\* nothing is promised of what it covers.
Unsettled == call.op.cmd = "write" => \A a \in Covered(call.op) : want[a] = Unknown

Landed ==
  call.op.cmd = "write" =>
     \A i \in 0..(call.off + Reached - 1) :
        mem[(call.op.addr + i) % Words] = call.op.words[i + 1]

WriteInv == Sound => Stored /\ GoodWords /\ Counted /\ Unsettled /\ Landed
-----------------------------------------------------------------------------
(***************************************************************************)
(* Sequences.                                                              *)
(***************************************************************************)
\* The empty sequence is the one of length zero.
LEMMA NotEmpty ==
  ASSUME NEW S, NEW s \in Seq(S)
  PROVE  Len(s) \in Nat /\ (s # << >> <=> Len(s) > 0) /\ (s = << >> <=> Len(s) = 0)
<1>1. Len(<< >>) = 0 /\ (s # << >> => Len(s) \in Nat \ {0})
  BY EmptySeq
<1>2. Len(s) \in Nat
  BY LenProperties
<1>3. s = << >> => Len(s) = 0
  BY <1>1
<1>4. s # << >> => Len(s) # 0
  BY <1>1
<1> QED
  BY <1>2, <1>3, <1>4, SMT

\* A part of a sequence.
LEMMA PartOf ==
  ASSUME NEW S, NEW s \in Seq(S), NEW a \in Nat, NEW n \in Nat, a + n <= Len(s)
  PROVE  /\ SubSeq(s, a + 1, a + n) \in Seq(S) /\ Len(SubSeq(s, a + 1, a + n)) = n
         /\ \A i \in 1..n : SubSeq(s, a + 1, a + n)[i] = s[a + i]
<1>1. Len(s) \in Nat
  BY LenProperties
<1>2. \A i \in (a + 1)..(a + n) : s[i] \in S
  BY <1>1, ElementOfSeq, SMT
<1>3. a + 1 \in Int /\ a + n \in Int /\ a + n - (a + 1) + 1 = n
  BY SMT
<1>4. \A i \in 1..n : a + 1 + i - 1 = a + i
  BY SMT
<1>5. /\ SubSeq(s, a + 1, a + n) \in Seq(S)
      /\ Len(SubSeq(s, a + 1, a + n)) = IF a + 1 <= a + n THEN a + n - (a + 1) + 1 ELSE 0
      /\ \A i \in 1..(a + n - (a + 1) + 1) : SubSeq(s, a + 1, a + n)[i] = s[a + 1 + i - 1]
  BY <1>2, <1>3, SubSeqProperties
<1>6. Len(SubSeq(s, a + 1, a + n)) = n
  BY <1>3, <1>5, SMT
<1> QED
  BY <1>3, <1>4, <1>5, <1>6

-----------------------------------------------------------------------------
(***************************************************************************)
(* Pieces of answers and their bytes.                                      *)
(***************************************************************************)
\* A header and a tail are pieces.
LEMMA PieceTypes ==
  /\ \A cmd \in Commands \cup {"ack", "nak"}, addr \in Int, len \in Nat :
       /\ Header(cmd, addr, len) \in Pieces
       /\ ~Header(cmd, addr, len).tail
  /\ \A data \in Seq(Datum) :
       /\ Payload(data) \in Pieces
       /\ Payload(data).tail /\ Payload(data).ok /\ Payload(data).data = data
       /\ Payload(data).len = Len(data)
<1>1. << >> \in Seq(Datum)
  BY EmptySeq
<1>2. \A data \in Seq(Datum) : Len(data) \in Nat
  BY LenProperties
<1> QED
  BY <1>1, <1>2, SMT DEF Header, Payload, Pieces

\* The bytes of a piece are numbered from one on.
LEMMA BytesOfPiece ==
  ASSUME NEW p \in Pieces
  PROVE  /\ Size(p) = (IF p.tail THEN 4 * p.len + 1 ELSE 6) /\ Size(p) \in Nat \ {0}
         /\ Bytes(p) \in Seq(Octets) /\ Len(Bytes(p)) = Size(p) /\ Bytes(p) # << >>
         /\ \A i \in 1..Size(p) : Bytes(p)[i] = [of |-> p, at |-> i]
<1>1. Size(p) = (IF p.tail THEN 4 * p.len + 1 ELSE 6) /\ Size(p) \in Nat \ {0}
  BY SMT DEF Pieces, Size
<1>2. \A i \in 1..Size(p) : [of |-> p, at |-> i] \in Octets
  BY <1>1, SMT DEF Octets
<1>3. Bytes(p) \in [1..Size(p) -> Octets]
  BY <1>2 DEF Bytes
<1>4. Bytes(p) \in Seq(Octets)
  BY <1>1, <1>3, SeqDef
<1>5. Len(Bytes(p)) = Size(p)
  BY <1>1, <1>3, <1>4, LenProperties, SMT
<1>6. Bytes(p) # << >>
  <2>1. Len(Bytes(p)) > 0
    BY <1>1, <1>5, SMT
  <2> QED BY <1>4, <2>1, NotEmpty
<1>7. \A i \in 1..Size(p) : Bytes(p)[i] = [of |-> p, at |-> i]
  BY DEF Bytes
<1> QED
  BY <1>1, <1>4, <1>5, <1>6, <1>7

\* The bytes of a header followed by those of a tail: where each begins, and
\* what is left once the header has been read.
LEMMA BytesOfAnswer ==
  ASSUME NEW h \in Pieces, NEW t \in Pieces, ~h.tail, t.tail,
         NEW bytes, bytes = Bytes(h) \o Bytes(t)
  PROVE  /\ bytes \in Seq(Octets) /\ Len(bytes) = 6 + Size(t) /\ Len(bytes) > 6
         /\ bytes # << >>
         /\ bytes[1] = [of |-> h, at |-> 1] /\ bytes[7] = [of |-> t, at |-> 1]
         /\ SubSeq(bytes, 7, Len(bytes)) = Bytes(t)
<1>1. /\ Bytes(h) \in Seq(Octets) /\ Len(Bytes(h)) = 6 /\ Bytes(t) \in Seq(Octets)
      /\ Len(Bytes(t)) = Size(t) /\ Size(t) \in Nat \ {0}
      /\ Bytes(h)[1] = [of |-> h, at |-> 1] /\ Bytes(t)[1] = [of |-> t, at |-> 1]
  <2>1. 1 \in 1..Size(h) /\ 1 \in 1..Size(t) /\ Size(h) = 6 /\ Size(t) \in Nat \ {0}
    <3>1. Size(h) = 6 /\ Size(t) \in Nat \ {0}
      BY BytesOfPiece
    <3> QED BY <3>1, SMT
  <2> QED BY <2>1, BytesOfPiece
<1>2. /\ bytes \in Seq(Octets) /\ Len(bytes) = 6 + Size(t)
      /\ \A i \in 1..(6 + Size(t)) : bytes[i] = IF i <= 6 THEN Bytes(h)[i] ELSE Bytes(t)[i - 6]
  <2> DEFINE b == Bytes(h)
             c == Bytes(t)
  <2>1. /\ b \o c \in Seq(Octets) /\ Len(b \o c) = Len(b) + Len(c)
        /\ \A i \in 1..(Len(b) + Len(c)) : (b \o c)[i] = IF i <= Len(b) THEN b[i] ELSE c[i - Len(b)]
    <3> HIDE DEF b, c
    <3>1. b \in Seq(Octets) /\ c \in Seq(Octets)
      BY <1>1 DEF b, c
    <3> QED BY <3>1, ConcatProperties
  <2> QED BY <1>1, <2>1
<1>3. bytes[1] = [of |-> h, at |-> 1] /\ bytes[7] = [of |-> t, at |-> 1]
  BY <1>1, <1>2, SMT
<1>4. \A i \in 7..Len(bytes) : bytes[i] \in Octets
  BY <1>1, <1>2, ElementOfSeq, SMT
<1>5. /\ SubSeq(bytes, 7, Len(bytes)) \in Seq(Octets)
      /\ Len(SubSeq(bytes, 7, Len(bytes))) = Size(t)
      /\ \A i \in 1..(Len(bytes) - 6) : SubSeq(bytes, 7, Len(bytes))[i] = bytes[7 + i - 1]
  <2>1. Len(bytes) \in Int /\ 7 <= Len(bytes)
    BY <1>1, <1>2, SMT
  <2> QED
    BY <1>1, <1>2, <1>4, <2>1, SubSeqProperties, SMT
<1>6. \A i \in 1..Len(SubSeq(bytes, 7, Len(bytes))) :
        SubSeq(bytes, 7, Len(bytes))[i] = Bytes(t)[i]
  <2> DEFINE e == SubSeq(bytes, 7, Len(bytes))
             b == Bytes(h)
             c == Bytes(t)
             n == Size(t)
  <2>1. n \in Nat /\ Len(e) = n /\ Len(bytes) = 6 + n
    BY <1>1, <1>2, <1>5
  <2>2. \A i \in 1..(Len(bytes) - 6) : e[i] = bytes[7 + i - 1]
    BY <1>5
  <2>3. \A i \in 1..(6 + n) : bytes[i] = IF i <= 6 THEN b[i] ELSE c[i - 6]
    BY <1>2
  <2> HIDE DEF e, b, c, n
  <2>4. ASSUME NEW i \in 1..Len(e) PROVE e[i] = c[i]
    <3>1. i \in Int /\ 1 <= i /\ i <= n
      BY <2>1
    <3>2. i \in 1..(Len(bytes) - 6) /\ 7 + i - 1 = i + 6
      BY <2>1, <3>1
    <3>3. i + 6 \in 1..(6 + n) /\ ~(i + 6 <= 6) /\ (i + 6) - 6 = i
      BY <2>1, <3>1
    <3>4. e[i] = bytes[i + 6]
      BY <2>2, <3>2
    <3>5. bytes[i + 6] = c[i]
      BY <2>3, <3>3
    <3> QED BY <3>4, <3>5
  <2> QED BY <2>4 DEF e, c
<1>7. SubSeq(bytes, 7, Len(bytes)) = Bytes(t)
  BY <1>1, <1>5, <1>6, SeqEqual
<1>8. Len(bytes) > 6 /\ Len(bytes) > 0
  BY <1>1, <1>2, SMT
<1>9. bytes # << >>
  BY <1>2, <1>8, NotEmpty
<1> QED
  BY <1>2, <1>3, <1>7, <1>8, <1>9

\* Of a stream as much is left as has not been read, perhaps nothing.
LEMMA Consumed ==
  ASSUME NEW s \in Seq(Octets), NEW n \in Nat
  PROVE  /\ SubSeq(s, n + 1, Len(s)) \in Seq(Octets)
         /\ n = Len(s) => SubSeq(s, n + 1, Len(s)) = << >>
<1>1. Len(s) \in Nat
  BY LenProperties
<1>2. \A i \in (n + 1)..Len(s) : s[i] \in Octets
  BY <1>1, ElementOfSeq, SMT
<1>3. SubSeq(s, n + 1, Len(s)) \in Seq(Octets)
  BY <1>1, <1>2, SubSeqProperties, SMT
<1>4. n = Len(s) => SubSeq(s, n + 1, Len(s)) = << >>
  BY <1>1, SubSeqEmpty, SMT
<1> QED
  BY <1>3, <1>4

-----------------------------------------------------------------------------
(***************************************************************************)
(* The packet of a chunk.                                                  *)
(***************************************************************************)
\* The constants, as the proofs use them.
LEMMA Constants ==
  /\ Words \in Nat \ {0} /\ Zero \in Value /\ Unknown \notin Value
  /\ MaxChunk \in Nat \ {0} /\ Retries \in Nat \ {0}
  /\ \A op \in Op :
       /\ op.cmd \in Commands /\ op.addr \in Addr /\ op.words \in Seq(Value)
       /\ op.cmd \in {"write", "program", "constants", "read"} => op.words # << >>
       /\ op.cmd \in {"launch", "validate", "reset", "status"} => Len(op.words) <= MaxChunk
       /\ Len(op.words) \in Nat /\ Len(op.words) <= Words
<1>1. \A op \in Op : op.words \in Seq(Value) /\ op.cmd \in Commands /\ op.addr \in Addr
  BY HostLinkAssumption DEF Operation
<1>2. \A op \in Op : Len(op.words) \in Nat
  BY <1>1, LenProperties
<1> QED
  BY <1>1, <1>2, HostLinkAssumption, CommControllerAssumption

\* A chunk is a part of the words of its call, and of a write never empty.
LEMMA ChunkWords ==
  ASSUME TypeOK, CallInv, call.at # "none"
  PROVE  /\ call.op \in Op /\ call.op # NoCall.op /\ call.op.cmd \in Commands
         /\ Chunk \in Seq(Value) /\ ChunkAddr \in Nat
         /\ Rest \in Nat
         /\ Len(Chunk) = IF Rest < MaxChunk THEN Rest ELSE MaxChunk
         /\ \A i \in 1..Len(Chunk) : Chunk[i] = call.op.words[call.off + i]
         /\ call.op.cmd \in {"write", "program", "constants", "read"} => Len(Chunk) > 0 /\ Chunk # << >>
         /\ call.op.cmd \in {"launch", "validate", "reset", "status"} => call.off = 0
         /\ Packet \in Packets
<1> DEFINE n == IF Rest < MaxChunk THEN Rest ELSE MaxChunk
           w == call.op.words
<1>1. /\ call.op \in Op /\ (call.off = 0 \/ call.off < Len(w)) /\ call.off \in Nat
      /\ MaxChunk \in Nat \ {0} /\ w \in Seq(Value) /\ Len(w) \in Nat
      /\ call.op.cmd \in Commands /\ call.op.addr \in Nat
      /\ call.op.cmd \in {"write", "program", "constants", "read"} => w # << >>
      /\ call.op.cmd \in {"launch", "validate", "reset", "status"} => Len(w) <= MaxChunk
  <2>1. call.op \in Op /\ (call.off = 0 \/ call.off < Len(w)) /\ call.off \in Nat
    BY DEF CallInv, TypeOK, HostTypes, CallTypes
  <2>2. Words \in Nat \ {0}
    BY Constants
  <2>3. call.op.addr \in Nat
    BY <2>1, <2>2, Constants, SMT DEF Addr
  <2> QED
    BY <2>1, <2>3, Constants
<1>2. Rest \in Nat /\ n \in Nat /\ call.off + n <= Len(w)
  BY <1>1, SMT DEF Rest
<1>4. /\ Chunk \in Seq(Value) /\ Len(Chunk) = n
      /\ \A i \in 1..n : Chunk[i] = w[call.off + i]
  <2>1. Chunk = SubSeq(w, call.off + 1, call.off + n)
    BY DEF Chunk
  <2>2. w \in Seq(Value) /\ call.off \in Nat /\ n \in Nat /\ call.off + n <= Len(w)
    BY <1>1, <1>2
  <2> HIDE DEF n, w
  <2>3. /\ SubSeq(w, call.off + 1, call.off + n) \in Seq(Value)
        /\ Len(SubSeq(w, call.off + 1, call.off + n)) = n
        /\ \A i \in 1..n : SubSeq(w, call.off + 1, call.off + n)[i] = w[call.off + i]
    BY <2>2, PartOf
  <2> QED
    BY <2>1, <2>3
<1>5. call.op.cmd \in {"write", "program", "constants", "read"} => n > 0 /\ Chunk # << >>
  <2>1. w # << >> => Len(w) > 0
    BY <1>1, NotEmpty
  <2>2. w # << >> => n > 0
    BY <1>1, <1>2, <2>1, SMT DEF Rest
  <2>3. n > 0 => Chunk # << >>
    BY <1>4, NotEmpty
  <2> QED
    BY <1>1, <2>2, <2>3
<1>6. ChunkAddr \in Nat
  BY <1>1, SMT DEF ChunkAddr
<1>7. Packet \in Packets
  BY <1>1, <1>4, <1>5, <1>6 DEF Packet, Packets
<1>8. call.op # NoCall.op
  BY <1>1 DEF NoCall, Commands
<1>9. call.op.cmd \in {"launch", "validate", "reset", "status"} => call.off = 0
  BY DEF CallInv
<1> QED
  BY <1>1, <1>2, <1>4, <1>5, <1>6, <1>7, <1>8, <1>9
-----------------------------------------------------------------------------
(***************************************************************************)
(* The words a transfer covers.                                            *)
(***************************************************************************)
\* Going i words on from an address, around the end of the memory, and back.
LEMMA ThereAndBack ==
  ASSUME NEW n \in Nat \ {0}, NEW b \in 0..(n - 1), NEW i \in 0..(n - 1)
  PROVE  (b + i) % n \in 0..(n - 1) /\ (((b + i) % n) - b) % n = i
<1>1. CASE b + i < n
  <2>1. (b + i) % n = b + i
    BY <1>1, SMT
  <2>2. b + i - b = i /\ i % n = i
    BY SMT
  <2> QED BY <1>1, <2>1, <2>2, SMT
<1>2. CASE b + i >= n
  <2> DEFINE k == b + i - n
  <2>1. k \in 0..(n - 1) /\ b + i = n * 1 + k /\ b + i \in Nat /\ 1 \in Int
    BY <1>2, SMT
  <2>2. (b + i) % n = k
    BY <2>1, RemainderIsUnique
  <2>3. k - b = i - n
    BY SMT
  <2>4. (i - n) % n = i
    BY SMT
  <2> QED BY <2>1, <2>2, <2>3, <2>4
<1> QED
  BY <1>1, <1>2, SMT

\* A word that a transfer covers is one of its words, and which one follows
\* from its address.
LEMMA CoveredWord ==
  ASSUME NEW op \in Op
  PROVE  /\ \A i \in 0..(Len(op.words) - 1) :
              /\ (op.addr + i) % Words \in Addr
              /\ (op.addr + i) % Words \in Covered(op)
              /\ (((op.addr + i) % Words) - op.addr) % Words = i
         /\ \A a \in Covered(op) :
              /\ a \in Addr
              /\ (a - op.addr) % Words \in 0..(Len(op.words) - 1)
              /\ a = (op.addr + ((a - op.addr) % Words)) % Words
<1>1. /\ Words \in Nat \ {0} /\ op.addr \in 0..(Words - 1)
      /\ Len(op.words) \in Nat /\ Len(op.words) <= Words
  BY Constants DEF Addr
<1>2. \A i \in 0..(Len(op.words) - 1) : i \in 0..(Words - 1)
  BY <1>1, SMT
<1>3. \A i \in 0..(Len(op.words) - 1) :
        /\ (op.addr + i) % Words \in Addr
        /\ (((op.addr + i) % Words) - op.addr) % Words = i
  BY <1>1, <1>2, ThereAndBack DEF Addr
<1>4. ASSUME NEW a \in Covered(op)
      PROVE  /\ a \in Addr
             /\ (a - op.addr) % Words \in 0..(Len(op.words) - 1)
             /\ a = (op.addr + ((a - op.addr) % Words)) % Words
  <2>1. PICK i \in 0..(Len(op.words) - 1) : a = (op.addr + i) % Words
    BY DEF Covered
  <2>2. (op.addr + i) % Words \in Addr /\ (((op.addr + i) % Words) - op.addr) % Words = i
    BY <1>3
  <2>3. a \in Addr
    BY <2>1, <2>2
  <2> DEFINE j == (a - op.addr) % Words
  <2>4. j = i
    BY <2>1, <2>2
  <2> HIDE DEF j
  <2>5. j \in 0..(Len(op.words) - 1) /\ a = (op.addr + j) % Words
    BY <2>1, <2>4
  <2> QED
    BY <2>3, <2>5 DEF j
<1>5. \A i \in 0..(Len(op.words) - 1) : (op.addr + i) % Words \in Covered(op)
  BY DEF Covered
<1> QED
  BY <1>3, <1>4, <1>5

-----------------------------------------------------------------------------
(***************************************************************************)
(* Types.                                                                  *)
(***************************************************************************)
Typed == TypeOK /\ CallInv /\ ReceiverInv

LEMMA TypedInit == Init => Typed
<1> SUFFICES ASSUME Init PROVE Typed
  OBVIOUS
<1> USE DEF Init
<1>1. /\ << >> \in Seq(Packets) /\ << >> \in Seq(Datum) /\ << >> \in Seq(Octets)
      /\ << >> \in Seq(Pieces)
  BY EmptySeq
<1>2. 0 \in Addr
  BY Constants, SMT DEF Addr
<1>3. mem \in [Addr -> Value]
  <2>1. Zero \in Value
    BY Constants
  <2>2. mem \in [Addr -> {Zero}]
    BY DEF BoardInit
  <2> QED BY <2>1, <2>2
<1>4. BoardTypes
  <2>1. busy \in BOOLEAN /\ gate \in {"idle", "load", "execute", "error"}
    BY DEF BoardInit
  <2>2. rx \in [st : {"idle", "payload", "crc", "wait"}, p : Packets \cup {NoPacket}, at : Nat]
    BY DEF BoardInit
  <2>3. /\ rd \in [status : BOOLEAN, addr : Nat, left : Nat]
        /\ tx \in [owed : Nat, data : Seq(Datum)]
        /\ pending \in [nak : BOOLEAN, addr : Int]
    BY <1>1 DEF BoardInit, NoRead, NoTx, NoAnswer
  <2> QED
    BY <1>1, <1>2, <1>3, <2>1, <2>2, <2>3 DEF BoardInit, BoardTypes
<1>5. want \in [Addr -> Value \cup {Unknown}]
  BY Constants
<1>6. HostTypes
  BY <1>1, <1>5 DEF HostTypes, CallTypes, NoCall, Calls, Notes
<1>7. CallInv
  BY DEF CallInv, NoCall, Reads
<1>8. ReceiverInv
  BY DEF ReceiverInv, BoardInit
<1> QED
  BY <1>4, <1>6, <1>7, <1>8 DEF Typed, TypeOK

\* What the history notes of a step of the board are notes.
LEMMA BoardNotes ==
  ASSUME seen \subseteq Notes, Board
  PROVE  seen' \subseteq Notes /\ ("late" \in seen' <=> "late" \in seen)
         /\ ("raced" \in seen => "raced" \in seen')
         /\ ("unheard" \in seen' <=> "unheard" \in seen)
         /\ (rx'.at > rx.at /\ rx.p.cmd = "write" /\ busy => "raced" \in seen')
<1>1. Noted \subseteq {"naked", "closed", "skewed", "raced", "started", "twice"}
  BY DEF Noted
<1>2. seen' = (seen \ IF ResetNow THEN {"closed"} ELSE {}) \cup Noted
  BY DEF Board
<1>3. rx'.at > rx.at /\ rx.p.cmd = "write" /\ busy => "raced" \in Noted
  BY DEF Noted
<1> QED
  BY <1>1, <1>2, <1>3 DEF Notes
\* The first packet of the line, and the rest.
LEMMA FirstPacket ==
  ASSUME BoardTypes, line # << >>
  PROVE  Head(line) \in Packets /\ Head(line) = line[1] /\ Tail(line) \in Seq(Packets)
         /\ Len(Tail(line)) = Len(line) - 1 /\ Len(line) \in Nat
         /\ Len(Head(line).words) \in Nat /\ Head(line).words \in Seq(Value)
<1>1. line \in Seq(Packets)
  BY DEF BoardTypes
<1>2. Head(line) \in Packets /\ Tail(line) \in Seq(Packets) /\ Len(Tail(line)) = Len(line) - 1
  BY <1>1, HeadTailProperties
<1>3. Len(line) \in Nat
  BY <1>1, LenProperties
<1>4. Head(line).words \in Seq(Value)
  BY <1>2 DEF Packets
<1>5. Len(Head(line).words) \in Nat
  BY <1>4, LenProperties
<1>6. Head(line) = line[1]
  BY <1>1, SMT
<1> QED
  BY <1>2, <1>3, <1>4, <1>5, <1>6

\* A step that answers or computes leaves the receiver and the memory alone.
LEMMA BoardTypesKept ==
  ASSUME BoardTypes, UNCHANGED <<line, rx, wordsSeen, hold, memDone, mem, gate>>,
         fsm' \in {"idle", "writeResponse", "validate", "read"},
         rd' \in [status : BOOLEAN, addr : Nat, left : Nat],
         tx' \in [owed : Nat, data : Seq(Datum)],
         pending' \in [nak : BOOLEAN, addr : Int],
         busy' \in BOOLEAN, answers' \in Seq(Octets)
  PROVE  BoardTypes'
<1>1. line' \in Seq(Packets)
  BY DEF BoardTypes
<1>2. rx' \in [st : {"idle", "payload", "crc", "wait"}, p : Packets \cup {NoPacket}, at : Nat]
  BY DEF BoardTypes
<1>3. wordsSeen' \in Addr /\ hold' \in {"none", "done", "fail"}
  BY DEF BoardTypes
<1>4. memDone' \in BOOLEAN /\ mem' \in [Addr -> Value]
  BY DEF BoardTypes
<1>5. gate' \in {"idle", "load", "execute", "error"}
  BY DEF BoardTypes
<1> QED
  BY <1>1, <1>2, <1>3, <1>4, <1>5, Zenon DEF BoardTypes

\* The packet in the receiver.
LEMMA PacketHeld ==
  ASSUME BoardTypes, ReceiverInv, rx.st # "idle"
  PROVE  /\ rx.p \in Packets /\ rx.p.cmd \in Commands /\ rx.p.addr \in Nat
         /\ rx.p.words \in Seq(Value) /\ Len(rx.p.words) \in Nat /\ rx.at \in Nat
         /\ rx.st = "payload" => /\ rx.at < Len(rx.p.words) /\ rx.at + 1 \in 1..Len(rx.p.words)
                                 /\ rx.p.words[rx.at + 1] \in Value
<1>1. rx.p \in Packets /\ rx.at \in Nat
  BY DEF BoardTypes, ReceiverInv
<1>2. rx.p.cmd \in Commands /\ rx.p.addr \in Nat /\ rx.p.words \in Seq(Value)
  BY <1>1 DEF Packets
<1>3. Len(rx.p.words) \in Nat
  BY <1>2, LenProperties
<1>4. ASSUME rx.st = "payload"
      PROVE  /\ rx.at < Len(rx.p.words) /\ rx.at + 1 \in 1..Len(rx.p.words)
             /\ rx.p.words[rx.at + 1] \in Value
  <2>1. rx.at < Len(rx.p.words)
    BY <1>4 DEF ReceiverInv
  <2>2. rx.at + 1 \in 1..Len(rx.p.words)
    BY <1>1, <1>3, <2>1, SMT
  <2> QED BY <1>2, <2>1, <2>2, ElementOfSeq
<1> QED
  BY <1>1, <1>2, <1>3, <1>4

\* Every step of the board.
LEMMA TypedBoard == Typed /\ Board => Typed'
<1> SUFFICES ASSUME Typed, Board PROVE Typed'
  OBVIOUS
<1>1. BoardTypes /\ HostTypes /\ CallInv /\ ReceiverInv
  BY DEF Typed, TypeOK
<1>2. HostTypes' /\ CallInv'
  <2>1. seen' \subseteq Notes
    BY <1>1, BoardNotes DEF HostTypes
  <2>2. UNCHANGED <<call, calls, faults, want, last>>
    BY DEF Board
  <2> QED
    BY <1>1, <2>1, <2>2 DEF HostTypes, CallTypes, CallInv
<1>3. /\ "raced" \in seen => "raced" \in seen'
      /\ rx'.at > rx.at /\ rx.p.cmd = "write" /\ busy => "raced" \in seen'
  BY <1>1, BoardNotes DEF HostTypes
<1>4. Words \in Nat \ {0} /\ 0 \in Addr
  BY Constants, SMT DEF Addr
<1>5. CASE PacketArrives
  <2>1. line # << >> /\ rx.st = "idle"
    BY <1>5 DEF PacketArrives
  <2> DEFINE p == Head(line)
  <2>2. p \in Packets /\ Tail(line) \in Seq(Packets) /\ Len(p.words) \in Nat /\ p.words \in Seq(Value)
    BY <1>1, <2>1, FirstPacket
  <2>3. p.words # << >> => 0 < Len(p.words)
    BY <2>2, NotEmpty
  <2>4. p.cmd = "write" => p.words # << >>
    BY <2>2 DEF Packets
  <2>5. rx' = [st |-> IF p.words = << >> THEN "crc" ELSE "payload", p |-> p, at |-> 0]
        /\ wordsSeen' \in {wordsSeen, 0} /\ line' = Tail(line)
        /\ UNCHANGED <<fsm, rd, tx, hold, pending, memDone, mem, gate, busy, answers>>
    BY <1>5 DEF PacketArrives
  <2> HIDE DEF p
  <2>6. BoardTypes'
    BY <1>1, <1>4, <2>2, <2>5 DEF BoardTypes
  <2>7. ReceiverInv'
    <3>1. /\ rx'.p = p /\ rx'.at = 0
          /\ rx'.st = "payload" => p.words # << >>
          /\ rx'.st = "crc" => p.words = << >>
          /\ rx'.st # "wait" /\ fsm' = fsm
      BY <2>5
    <3>2. fsm \notin {"writeResponse", "validate"} /\ hold' = "none"
      BY <1>1, <2>1, <2>5 DEF ReceiverInv
    <3>3. ~(rx'.st = "payload" /\ rx'.at > 0)
      BY <3>1, SMT
    <3> QED BY <2>2, <2>3, <2>4, <3>1, <3>2, <3>3 DEF ReceiverInv
  <2> QED
    BY <1>2, <2>6, <2>7 DEF Typed, TypeOK
<1>6. CASE PacketMissed
  <2>1. Tail(line) \in Seq(Packets)
    BY <1>1, <1>6, FirstPacket DEF PacketMissed
  <2>2. BoardTypes'
    BY <1>1, <1>6, <2>1 DEF BoardTypes, PacketMissed
  <2>3. ReceiverInv'
    BY <1>1, <1>3, <1>6 DEF ReceiverInv, PacketMissed
  <2> QED
    BY <1>2, <2>2, <2>3 DEF Typed, TypeOK
<1>7. CASE WordArrives
  <2>1. /\ rx.st = "payload" /\ rx.p \in Packets /\ rx.at \in Nat /\ Len(rx.p.words) \in Nat
        /\ rx.at < Len(rx.p.words) /\ rx.p.addr \in Nat /\ rx.p.words[rx.at + 1] \in Value
    BY <1>1, <1>7, PacketHeld DEF WordArrives
  <2>2. /\ rx' = [rx EXCEPT !.at = @ + 1,
                            !.st = IF rx.at + 1 = Len(rx.p.words) THEN "crc" ELSE "payload"]
        /\ UNCHANGED <<line, fsm, rd, tx, hold, pending, busy, answers>>
    BY <1>7 DEF WordArrives
  <2>3. /\ rx' \in [st : {"idle", "payload", "crc", "wait"}, p : Packets \cup {NoPacket}, at : Nat]
        /\ rx'.p = rx.p /\ rx'.at = rx.at + 1 /\ rx'.st \in {"crc", "payload"}
        /\ rx'.st = "payload" => rx'.at < Len(rx.p.words)
        /\ rx'.at > rx.at
    <3>1. /\ rx' \in [st : {"idle", "payload", "crc", "wait"}, p : Packets \cup {NoPacket}, at : Nat]
          /\ rx'.p = rx.p /\ rx'.at = rx.at + 1
          /\ rx'.st = IF rx.at + 1 = Len(rx.p.words) THEN "crc" ELSE "payload"
      <4>1. rx \in [st : {"idle", "payload", "crc", "wait"}, p : Packets \cup {NoPacket}, at : Nat]
        BY <1>1 DEF BoardTypes
      <4>2. rx.at + 1 \in Nat
        BY <2>1, SMT
      <4>3. (IF rx.at + 1 = Len(rx.p.words) THEN "crc" ELSE "payload")
              \in {"idle", "payload", "crc", "wait"}
        OBVIOUS
      <4>4. rx' = [rx EXCEPT !.at = rx.at + 1,
                             !.st = IF rx.at + 1 = Len(rx.p.words) THEN "crc" ELSE "payload"]
        BY <2>2
      <4> QED BY <4>1, <4>2, <4>3, <4>4
    <3> QED BY <2>1, <3>1, SMT
  <2>4. wordsSeen' \in Addr
    <3>1. wordsSeen \in Nat
      BY <1>1, <1>4, SMT DEF BoardTypes, Addr
    <3>2. (wordsSeen + 1) % Words \in Addr
      BY <1>4, <3>1, RemainderInRange, SMT DEF Addr
    <3> QED BY <1>1, <1>7, <3>2 DEF WordArrives, BoardTypes
  <2>5. /\ mem' \in [Addr -> Value] /\ memDone' \in BOOLEAN
        /\ gate' \in {"idle", "load", "execute", "error"}
        /\ memDone => memDone'
        /\ rx.p.cmd = "write" => memDone' \/ busy
    <3>1. (rx.p.cmd = "write" /\ DataWord(rx.p.words[rx.at + 1]))
          \/ (rx.p.cmd = "program" /\ ProgramWord)
          \/ (rx.p.cmd \notin {"write", "program"} /\ UNCHANGED <<mem, memDone, gate>>)
      BY <1>7 DEF WordArrives
    <3> USE <1>1 DEF BoardTypes
    <3>2. CASE rx.p.cmd = "write" /\ DataWord(rx.p.words[rx.at + 1])
      BY <2>1, <3>2 DEF DataWord
    <3>3. CASE rx.p.cmd = "program" /\ ProgramWord
      BY <3>3 DEF ProgramWord
    <3>4. CASE rx.p.cmd \notin {"write", "program"} /\ UNCHANGED <<mem, memDone, gate>>
      BY <3>4
    <3> QED BY <3>1, <3>2, <3>3, <3>4
  <2>6. BoardTypes'
    BY <1>1, <2>2, <2>3, <2>4, <2>5 DEF BoardTypes
  <2>7. ReceiverInv'
    <3>1. fsm' = fsm /\ fsm \notin {"writeResponse", "validate"} /\ hold' = "none"
      BY <1>1, <2>1, <2>2 DEF ReceiverInv
    <3> QED BY <1>3, <2>1, <2>3, <2>5, <3>1 DEF ReceiverInv
  <2> QED
    BY <1>2, <2>6, <2>7 DEF Typed, TypeOK<1>8. ASSUME NEW nak \in BOOLEAN, Capture(nak), rx.st # "idle"
      PROVE  pending' \in [nak : BOOLEAN, addr : Int] /\ gate' \in {"idle", "load", "execute", "error"}
  <2>1. rx.p.addr \in Nat
    BY <1>1, <1>8, PacketHeld
  <2> QED
    BY <1>1, <1>8, <2>1 DEF Capture, BoardTypes
<1>9. CASE CrcFails
  <2>1. /\ rx.st = "crc" /\ rx' = [rx EXCEPT !.st = "idle"] /\ hold' = "none" /\ Capture(TRUE)
        /\ UNCHANGED <<line, wordsSeen, fsm, rd, tx, memDone, mem, busy, answers>>
    BY <1>9 DEF CrcFails
  <2>2. BoardTypes'
    BY <1>1, <1>8, <2>1 DEF BoardTypes
  <2>3. ReceiverInv'
    <3>1. rx'.st = "idle" /\ fsm' \notin {"writeResponse", "validate"} /\ hold' = "none"
      BY <1>1, <2>1 DEF ReceiverInv, BoardTypes
    <3> QED BY <3>1 DEF ReceiverInv
  <2> QED
    BY <1>2, <2>2, <2>3 DEF Typed, TypeOK
<1>10. CASE PacketDone
  <2>1. /\ rx.st = "crc" /\ rx' = [rx EXCEPT !.st = "wait"]
        /\ UNCHANGED <<line, pending, memDone, mem>>
    BY <1>10 DEF PacketDone
  <2>2. /\ rx.p \in Packets /\ rx.p.cmd \in Commands /\ rx.p.addr \in Nat
        /\ Len(rx.p.words) \in Nat
    BY <1>1, <2>1, PacketHeld
  <2>3. /\ rx' \in [st : {"idle", "payload", "crc", "wait"}, p : Packets \cup {NoPacket}, at : Nat]
        /\ rx'.st = "wait" /\ rx'.p = rx.p
    BY <1>1, <2>1 DEF BoardTypes
  <2>4. fsm \notin {"writeResponse", "validate"}
    BY <1>1, <2>1 DEF ReceiverInv
  <2>5. /\ wordsSeen' \in Addr /\ fsm' \in {"idle", "writeResponse", "validate", "read"}
        /\ rd' \in [status : BOOLEAN, addr : Nat, left : Nat]
        /\ tx' \in [owed : Nat, data : Seq(Datum)]
        /\ hold' \in {"none", "done", "fail"}
        /\ gate' \in {"idle", "load", "execute", "error"} /\ busy' \in BOOLEAN
        /\ answers' \in Seq(Octets)
        /\ \/ hold' # "none" /\ fsm' \notin {"writeResponse", "validate"}
           \/ hold' = "none" /\ fsm' = "validate"
           \/ hold' = "none" /\ fsm' = "writeResponse" /\ rx.p.cmd = "write"
    <3>0. /\ wordsSeen \in Addr /\ 0 \in Addr /\ fsm \in {"idle", "read"} /\ hold = "none"
          /\ rd \in [status : BOOLEAN, addr : Nat, left : Nat]
          /\ tx \in [owed : Nat, data : Seq(Datum)] /\ answers \in Seq(Octets)
          /\ gate \in {"idle", "load", "execute", "error"} /\ busy \in BOOLEAN
      BY <1>1, <1>4, <2>1, <2>4 DEF BoardTypes, ReceiverInv
    <3>1. CASE rx.p.cmd = "launch" /\ Launched
      BY <3>0, <3>1 DEF Launched, launchReady
    <3>2. CASE rx.p.cmd = "validate" /\ ValidateAsked
      BY <3>0, <3>2 DEF ValidateAsked
    <3>3. CASE rx.p.cmd = "reset" /\ ResetAsked
      BY <3>0, <3>3 DEF ResetAsked
    <3>4. CASE rx.p.cmd \in Reads /\ ReadAsked
      <4> DEFINE len == IF rx.p.cmd = "status" THEN 1 ELSE Len(rx.p.words)
      <4>1. len \in Nat
        BY <2>2
      <4>2. hold' = "done" /\ StartResponse(len) /\ UNCHANGED <<wordsSeen, gate, busy>>
        BY <3>4 DEF ReadAsked
      <4> HIDE DEF len
      <4>3. /\ fsm' = "read" /\ rd' = [status |-> rx.p.cmd = "status", addr |-> rx.p.addr, left |-> len]
            /\ \/ answers' = answers \o Bytes(Header(rx.p.cmd, rx.p.addr, len))
                  /\ tx' = [NoTx EXCEPT !.owed = len]
               \/ UNCHANGED <<answers, tx>>
        BY <4>2 DEF StartResponse
      <4>4. [NoTx EXCEPT !.owed = len] \in [owed : Nat, data : Seq(Datum)]
        BY <4>1, EmptySeq DEF NoTx
      <4>5. Header(rx.p.cmd, rx.p.addr, len) \in Pieces
        BY <2>2, <4>1, PieceTypes, SMT
      <4>6. answers \o Bytes(Header(rx.p.cmd, rx.p.addr, len)) \in Seq(Octets)
        <5>1. Bytes(Header(rx.p.cmd, rx.p.addr, len)) \in Seq(Octets)
          BY <4>5, BytesOfPiece
        <5> QED BY <3>0, <5>1, ConcatProperties
      <4>7. rd' \in [status : BOOLEAN, addr : Nat, left : Nat]
        <5>1. (rx.p.cmd = "status") \in BOOLEAN
          OBVIOUS
        <5> QED BY <2>2, <4>1, <4>3, <5>1
      <4> QED BY <3>0, <4>2, <4>3, <4>4, <4>6, <4>7
    <3>5. CASE rx.p.cmd \in {"write", "program", "constants"} /\ WriteDone
      BY <3>0, <3>5 DEF WriteDone
    <3> QED
      BY <1>10, <2>2, <3>1, <3>2, <3>3, <3>4, <3>5 DEF PacketDone, Reads, Commands
  <2>6. BoardTypes'
    BY <1>1, <2>1, <2>3, <2>5 DEF BoardTypes
  <2>7. ReceiverInv'
    <3>1. fsm' \in {"writeResponse", "validate"} => hold' = "none"
      BY <2>5
    <3>2. rx.p.cmd = "write" => memDone \/ "raced" \in seen
      BY <1>1, <2>1 DEF ReceiverInv
    <3>3. hold' = "none" \/ rx'.st = "wait"
      BY <2>3
    <3> QED BY <1>3, <2>1, <2>2, <2>3, <2>5, <3>1, <3>2, <3>3 DEF ReceiverInv
  <2> QED
    BY <1>2, <2>6, <2>7 DEF Typed, TypeOK
<1>11. CASE Answer
  <2>1. /\ rx.st = "wait" /\ hold # "none" /\ rx' = [rx EXCEPT !.st = "idle"] /\ hold' = "none"
        /\ Capture(hold = "fail")
        /\ UNCHANGED <<line, wordsSeen, fsm, rd, tx, memDone, mem, busy, answers>>
    BY <1>11 DEF Answer
  <2>2. BoardTypes'
    BY <1>1, <1>8, <2>1 DEF BoardTypes
  <2>3. ReceiverInv'
    <3>1. rx'.st = "idle" /\ fsm' \notin {"writeResponse", "validate"} /\ hold' = "none"
      BY <1>1, <2>1 DEF ReceiverInv, BoardTypes
    <3> QED BY <3>1 DEF ReceiverInv
  <2> QED
    BY <1>2, <2>2, <2>3 DEF Typed, TypeOK
<1>12. CASE WriteResponse
  <2>1. BoardTypes'
    BY <1>1, <1>12 DEF WriteResponse, BoardTypes
  <2>2. ReceiverInv'
    <3>1. rx' = rx /\ rx.st = "wait" /\ hold' = "done" /\ fsm' = "idle"
      BY <1>1, <1>12 DEF WriteResponse, ReceiverInv
    <3> QED BY <1>1, <3>1 DEF ReceiverInv
  <2> QED
    BY <1>2, <2>1, <2>2 DEF Typed, TypeOK
<1>13. CASE ValidateResponse
  <2>1. /\ fsm = "validate" /\ fsm' = "idle" /\ hold' \in {"done", "fail"}
        /\ gate' \in {"idle", "load", "execute", "error"}
        /\ UNCHANGED <<line, rx, wordsSeen, rd, tx, pending, memDone, mem, busy, answers>>
    BY <1>1, <1>13 DEF ValidateResponse, BoardTypes
  <2>2. BoardTypes'
    BY <1>1, <2>1 DEF BoardTypes
  <2>3. ReceiverInv'
    BY <1>1, <2>1 DEF ReceiverInv
  <2> QED
    BY <1>2, <2>2, <2>3 DEF Typed, TypeOK
<1>14. CASE ServeWord
  <2> DEFINE word == IF rd.status THEN (IF busy THEN 1 ELSE 0) ELSE mem[rd.addr % Words]
             data == Append(tx.data, word)
  <2>1. /\ fsm = "read" /\ rd.left > 0 /\ tx.owed > 0
        /\ IF tx.owed = 1 THEN answers' = answers \o Bytes(Payload(data)) /\ tx' = NoTx
                          ELSE answers' = answers /\ tx' = [owed |-> tx.owed - 1, data |-> data]
        /\ rd' = [rd EXCEPT !.addr = @ + 1, !.left = @ - 1]
        /\ fsm' \in {"idle", "read"}
        /\ UNCHANGED <<line, rx, wordsSeen, hold, pending, memDone, mem, gate, busy>>
    BY <1>14 DEF ServeWord
  <2>2. rd.addr \in Nat /\ rd.left \in Nat /\ tx.owed \in Nat /\ tx.data \in Seq(Datum)
    BY <1>1 DEF BoardTypes
  <2>3. word \in Datum
    <3>1. rd.addr % Words \in Addr
      BY <1>4, <2>2, RemainderInRange DEF Addr
    <3>2. mem[rd.addr % Words] \in Value
      BY <1>1, <3>1 DEF BoardTypes
    <3> QED BY <3>2 DEF Datum
  <2> HIDE DEF word
  <2>4. data \in Seq(Datum)
    BY <2>2, <2>3, AppendProperties
  <2>5. answers \o Bytes(Payload(data)) \in Seq(Octets)
    <3>1. Payload(data) \in Pieces
      BY <2>4, PieceTypes
    <3>2. Bytes(Payload(data)) \in Seq(Octets) /\ answers \in Seq(Octets)
      BY <1>1, <3>1, BytesOfPiece DEF BoardTypes
    <3> QED BY <3>2, ConcatProperties
  <2> HIDE DEF data
  <2>6. tx' \in [owed : Nat, data : Seq(Datum)]
    <3>1. NoTx \in [owed : Nat, data : Seq(Datum)]
      BY EmptySeq DEF NoTx
    <3>2. tx.owed - 1 \in Nat
      BY <2>1, <2>2, SMT
    <3> QED BY <2>1, <2>4, <3>1, <3>2
  <2>7. rd' \in [status : BOOLEAN, addr : Nat, left : Nat]
    <3>1. rd.addr + 1 \in Nat /\ rd.left - 1 \in Nat
      BY <2>1, <2>2, SMT
    <3>2. rd \in [status : BOOLEAN, addr : Nat, left : Nat]
      BY <1>1 DEF BoardTypes
    <3> QED BY <2>1, <3>1, <3>2
  <2>8. BoardTypes'
    <3>1. answers' \in Seq(Octets)
      BY <1>1, <2>1, <2>5 DEF BoardTypes
    <3>2. /\ fsm' \in {"idle", "writeResponse", "validate", "read"}
          /\ UNCHANGED <<line, rx, wordsSeen, hold, memDone, mem, gate>>
      BY <2>1
    <3>3. pending' \in [nak : BOOLEAN, addr : Int] /\ busy' \in BOOLEAN
      BY <1>1, <2>1 DEF BoardTypes
    <3> QED BY <1>1, <2>6, <2>7, <3>1, <3>2, <3>3, BoardTypesKept
  <2>9. ReceiverInv'
    BY <1>1, <1>3, <2>1 DEF ReceiverInv
  <2> QED
    BY <1>2, <2>8, <2>9 DEF Typed, TypeOK
<1>15. CASE IssueAnswer
  <2> DEFINE h == Header(IF pending.nak THEN "nak" ELSE "ack", pending.addr, 0)
  <2>1. /\ answers' = answers \o Bytes(h) \o Bytes(Payload(<< >>)) /\ pending' = NoAnswer
        /\ UNCHANGED <<line, rx, wordsSeen, fsm, rd, tx, hold, memDone, mem, gate, busy>>
    BY <1>15 DEF IssueAnswer
  <2>2. h \in Pieces /\ Payload(<< >>) \in Pieces
    <3>1. pending.addr \in Int
      BY <1>1 DEF BoardTypes
    <3> QED BY <3>1, EmptySeq, PieceTypes
  <2> HIDE DEF h
  <2>3. answers \o Bytes(h) \o Bytes(Payload(<< >>)) \in Seq(Octets)
    <3>1. Bytes(h) \in Seq(Octets) /\ Bytes(Payload(<< >>)) \in Seq(Octets) /\ answers \in Seq(Octets)
      BY <1>1, <2>2, BytesOfPiece DEF BoardTypes
    <3> QED BY <3>1, ConcatProperties
  <2>4. BoardTypes'
    <3>1. pending' \in [nak : BOOLEAN, addr : Int]
      BY <2>1 DEF NoAnswer
    <3>2. UNCHANGED <<line, rx, wordsSeen, hold, memDone, mem, gate>>
      BY <2>1
    <3>3. /\ fsm' \in {"idle", "writeResponse", "validate", "read"}
          /\ rd' \in [status : BOOLEAN, addr : Nat, left : Nat]
          /\ tx' \in [owed : Nat, data : Seq(Datum)] /\ busy' \in BOOLEAN
      BY <1>1, <2>1 DEF BoardTypes
    <3>4. answers' \in Seq(Octets)
      BY <2>1, <2>3
    <3> QED BY <1>1, <3>1, <3>2, <3>3, <3>4, BoardTypesKept
  <2>5. ReceiverInv'
    BY <1>1, <1>3, <2>1 DEF ReceiverInv
  <2> QED
    BY <1>2, <2>4, <2>5 DEF Typed, TypeOK
<1>16. CASE KernelEnds
  <2>0. /\ busy' = FALSE
        /\ UNCHANGED <<line, rx, wordsSeen, fsm, rd, tx, hold, pending, memDone, mem, gate, answers>>
    BY <1>16, Zenon DEF KernelEnds
  <2>1. BoardTypes'
    <3>1. /\ fsm' \in {"idle", "writeResponse", "validate", "read"}
          /\ rd' \in [status : BOOLEAN, addr : Nat, left : Nat]
          /\ tx' \in [owed : Nat, data : Seq(Datum)] /\ busy' \in BOOLEAN
      BY <1>1, <2>0 DEF BoardTypes
    <3>2. pending' \in [nak : BOOLEAN, addr : Int] /\ answers' \in Seq(Octets)
      BY <1>1, <2>0 DEF BoardTypes
    <3> QED BY <1>1, <2>0, <3>1, <3>2, BoardTypesKept
  <2>2. ReceiverInv'
    <3>1. UNCHANGED <<rx, memDone, hold, fsm>>
      BY <2>0
    <3> QED BY <1>1, <1>3, <3>1, Zenon DEF ReceiverInv
  <2> QED
    BY <1>2, <2>1, <2>2 DEF Typed, TypeOK
<1> QED
  BY <1>5, <1>6, <1>7, <1>9, <1>10, <1>11, <1>12, <1>13, <1>14, <1>15, <1>16 DEF Board, BoardStep
\* How a call ends.
LEMMA ReturnTypes ==
  ASSUME TypeOK, CallInv, call.at # "none", NEW ok \in BOOLEAN, NEW data \in Seq(Datum),
         Return(ok, data)
  PROVE  CallTypes' /\ CallInv' /\ call' = NoCall
<1>1. call' = NoCall /\ last' = [op |-> call.op, ok |-> ok, data |-> data]
  BY DEF Return
<1>2. call.op \in Op /\ call.op \in Calls
  BY DEF CallInv, Calls
<1>3. NoCall \in [op : Calls, off : Nat, tries : Nat, at : {"none", "send", "ack", "head", "tail"},
                  head : Seq(Pieces), data : Seq(Datum)]
  BY EmptySeq DEF NoCall, Calls
<1>4. last' \in [op : Calls, ok : BOOLEAN, data : Seq(Datum)]
  BY <1>1, <1>2
<1>5. want' \in [Addr -> Value \cup {Unknown}]
  <2>1. want \in [Addr -> Value \cup {Unknown}]
    BY DEF TypeOK, HostTypes, CallTypes
  <2>2. CASE want' = want
    BY <2>1, <2>2
  <2>3. CASE want' = [a \in Addr |-> IF a \in Covered(call.op)
                                    THEN call.op.words[((a - call.op.addr) % Words) + 1]
                                    ELSE want[a]]
    <3>1. ASSUME NEW a \in Covered(call.op)
          PROVE  call.op.words[((a - call.op.addr) % Words) + 1] \in Value
      <4> DEFINE j == (a - call.op.addr) % Words
      <4>1. j \in 0..(Len(call.op.words) - 1) /\ Len(call.op.words) \in Nat
            /\ call.op.words \in Seq(Value)
        BY <1>2, CoveredWord, Constants
      <4> HIDE DEF j
      <4>2. j + 1 \in 1..Len(call.op.words)
        BY <4>1, SMT
      <4>3. call.op.words[j + 1] \in Value
        BY <4>1, <4>2, ElementOfSeq
      <4> QED BY <4>3 DEF j
    <3> QED
      BY <2>1, <2>3, <3>1
  <2> QED
    BY <2>2, <2>3 DEF Return
<1>6. CallInv'
  BY <1>1 DEF CallInv, NoCall
<1> QED
  BY <1>1, <1>3, <1>4, <1>5, <1>6 DEF CallTypes

\* An attempt that failed.
LEMMA RetryTypes ==
  ASSUME TypeOK, CallInv, call.at # "none", Retry
  PROVE  CallTypes' /\ CallInv' /\ (call' = NoCall \/ call'.at = "send")
<1>1. CASE Return(FALSE, << >>)
  BY <1>1, EmptySeq, ReturnTypes
<1>2. CASE /\ call' = [call EXCEPT !.tries = @ + 1, !.at = "send", !.head = << >>]
           /\ UNCHANGED <<last, want>>
  <2>1. CallTypes
    BY DEF TypeOK, HostTypes
  <2>2. << >> \in Seq(Pieces) /\ call.tries + 1 \in Nat
    <3>1. call.tries \in Nat
      BY <2>1 DEF CallTypes
    <3> QED BY <3>1, EmptySeq, SMT
  <2>3. /\ call' \in [op : Calls, off : Nat, tries : Nat, at : {"none", "send", "ack", "head", "tail"},
                      head : Seq(Pieces), data : Seq(Datum)]
        /\ call'.at = "send" /\ call'.op = call.op /\ call'.off = call.off
    BY <1>2, <2>1, <2>2 DEF CallTypes
  <2>4. CallInv'
    <3>1. call' # NoCall
      BY <2>3 DEF NoCall
    <3> QED BY <2>3, <3>1 DEF CallInv
  <2> QED
    BY <1>2, <2>1, <2>3, <2>4 DEF CallTypes
<1> QED
  BY <1>1, <1>2 DEF Retry

\* A chunk that is done.
LEMMA ChunkDoneTypes ==
  ASSUME TypeOK, CallInv, call.at # "none", NEW data \in Seq(Datum), ChunkDone(data)
  PROVE  CallTypes' /\ CallInv' /\ (call' = NoCall \/ call'.at = "send")
<1>1. CallTypes /\ call.data \o data \in Seq(Datum)
  <2>1. CallTypes /\ call.data \in Seq(Datum)
    BY DEF TypeOK, HostTypes, CallTypes
  <2> QED BY <2>1, ConcatProperties
<1>2. CASE Return(TRUE, call.data \o data)
  BY <1>1, <1>2, ReturnTypes
<1>3. CASE /\ call.off + MaxChunk < Len(call.op.words)
           /\ call' = [call EXCEPT !.off = @ + MaxChunk, !.tries = 0, !.at = "send",
                                   !.head = << >>, !.data = @ \o data]
           /\ UNCHANGED <<last, want>>
  <2>1. << >> \in Seq(Pieces) /\ call.off + MaxChunk \in Nat
    <3>1. call.off \in Nat /\ MaxChunk \in Nat
      BY <1>1, Constants DEF CallTypes
    <3> QED BY <3>1, EmptySeq, SMT
  <2>2. /\ call' \in [op : Calls, off : Nat, tries : Nat, at : {"none", "send", "ack", "head", "tail"},
                      head : Seq(Pieces), data : Seq(Datum)]
        /\ call'.at = "send" /\ call'.op = call.op /\ call'.off = call.off + MaxChunk
    <3>1. call' = [call EXCEPT !.off = call.off + MaxChunk, !.tries = 0, !.at = "send",
                               !.head = << >>, !.data = call.data \o data]
      BY <1>3
    <3>2. call \in [op : Calls, off : Nat, tries : Nat, at : {"none", "send", "ack", "head", "tail"},
                    head : Seq(Pieces), data : Seq(Datum)]
      BY <1>1 DEF CallTypes
    <3> QED BY <1>1, <2>1, <3>1, <3>2
  <2>3. call'.op.cmd \notin {"launch", "validate", "reset", "status"}
    <3>1. call.op \in Op /\ call.off \in Nat /\ MaxChunk \in Nat /\ Len(call.op.words) \in Nat
      BY <1>1, Constants DEF CallTypes, CallInv
    <3>2. ~(Len(call.op.words) <= MaxChunk)
      BY <1>3, <3>1, SMT
    <3> QED BY <2>2, <3>1, <3>2, Constants
  <2>4. CallInv'
    <3>1. call' # NoCall
      BY <2>2 DEF NoCall
    <3> QED BY <1>3, <2>2, <2>3, <3>1 DEF CallInv
  <2> QED
    BY <1>1, <1>3, <2>2, <2>4 DEF CallTypes
<1> QED
  BY <1>2, <1>3 DEF ChunkDone
\* The bytes at the front of the stream.
LEMMA FrontTypes ==
  ASSUME TypeOK
  PROVE  /\ answers \in Seq(Octets) /\ Len(answers) \in Nat
         /\ \A i \in 1..Len(answers) : answers[i] \in Octets /\ answers[i].of \in Pieces
         /\ \A n \in Nat : n <= Len(answers) /\ Consume(n) => answers' \in Seq(Octets)
<1>1. answers \in Seq(Octets)
  BY DEF TypeOK, BoardTypes
<1>2. Len(answers) \in Nat
  BY <1>1, LenProperties
<1>3. \A i \in 1..Len(answers) : answers[i] \in Octets
  BY <1>1, ElementOfSeq
<1>4. \A i \in 1..Len(answers) : answers[i].of \in Pieces
  BY <1>3 DEF Octets
<1>5. \A n \in Nat : n <= Len(answers) /\ Consume(n) => answers' \in Seq(Octets)
  BY <1>1, Consumed DEF Consume
<1> QED
  BY <1>1, <1>2, <1>3, <1>4, <1>5

\* The header the host has read, and how long the tail is that it announces.
LEMMA HeadTypes ==
  ASSUME TypeOK, CallInv, call.at = "tail"
  PROVE  /\ call.head[1] \in Pieces /\ call.head = <<call.head[1]>>
         /\ TailBytes = 4 * call.head[1].len + 1 /\ TailBytes \in Nat \ {0}
<1>1. call.head \in Seq(Pieces) /\ Len(call.head) = 1
  BY DEF TypeOK, HostTypes, CallTypes, CallInv
<1>2. call.head[1] \in Pieces
  BY <1>1, ElementOfSeq, SMT
<1>3. call.head[1].len \in Nat
  BY <1>2 DEF Pieces
<1>4. TailBytes \in Nat \ {0}
  BY <1>3, SMT DEF TailBytes
<1>5. call.head = <<call.head[1]>>
  BY <1>1, SMT
<1> QED
  BY <1>2, <1>4, <1>5 DEF TailBytes

\* Every step of the host.
LEMMA TypedHost == Typed /\ (Begin \/ HostStep) => Typed'
<1> SUFFICES ASSUME Typed, Begin \/ HostStep PROVE Typed'
  OBVIOUS
<1>1. TypeOK /\ BoardTypes /\ HostTypes /\ CallTypes /\ CallInv /\ ReceiverInv
  BY DEF Typed, TypeOK, HostTypes
<1>2. ASSUME UNCHANGED <<line, rx, wordsSeen, fsm, rd, tx, hold, pending, memDone, mem, gate, busy>>,
             answers' \in Seq(Octets)
      PROVE  BoardTypes'
  BY <1>1, <1>2 DEF BoardTypes
<1>3. ASSUME UNCHANGED <<rx, fsm, hold, memDone>>, "raced" \in seen => "raced" \in seen'
      PROVE  ReceiverInv'
  BY <1>1, <1>3 DEF ReceiverInv
<1>4. ASSUME Reading, CallTypes', seen' \subseteq Notes
      PROVE  HostTypes'
  BY <1>1, <1>4 DEF HostTypes, Reading
<1>5. CASE Begin
  <2>1. /\ call = NoCall /\ calls' = calls + 1 /\ seen' = seen \ {"started"}
        /\ UNCHANGED <<board, faults, last>>
    BY <1>5 DEF Begin
  <2>2. PICK op \in Op :
          /\ call' = [NoCall EXCEPT !.op = op, !.at = "send"]
          /\ want' = IF op.cmd # "write" THEN want
                     ELSE [a \in Addr |-> IF a \in Covered(op) THEN Unknown ELSE want[a]]
    BY <1>5 DEF Begin
  <2>3. /\ call' \in [op : Calls, off : Nat, tries : Nat, at : {"none", "send", "ack", "head", "tail"},
                      head : Seq(Pieces), data : Seq(Datum)]
        /\ call'.at = "send" /\ call'.op = op /\ call'.off = 0
    BY <2>2, EmptySeq DEF NoCall, Calls
  <2>4. want' \in [Addr -> Value \cup {Unknown}]
    BY <1>1, <2>2 DEF CallTypes
  <2>5. CallInv'
    <3>1. call' # NoCall
      BY <2>3 DEF NoCall
    <3> QED BY <2>3, <3>1 DEF CallInv
  <2>6. HostTypes'
    BY <1>1, <2>1, <2>3, <2>4 DEF HostTypes, CallTypes
  <2>7. BoardTypes' /\ ReceiverInv'
    BY <1>1, <2>1 DEF BoardTypes, ReceiverInv, board
  <2> QED
    BY <2>5, <2>6, <2>7 DEF Typed, TypeOK
<1>6. CASE Send
  <2>1. call.at = "send" /\ call.at # "none" /\ Packet \in Packets
    BY <1>1, <1>6, ChunkWords DEF Send
  <2>2. Append(line, Packet) \in Seq(Packets)
    BY <1>1, <2>1, AppendProperties DEF BoardTypes
  <2>3. BoardTypes' /\ ReceiverInv'
    BY <1>1, <1>6, <2>2 DEF Send, BoardTypes, ReceiverInv
  <2>4. call' = [call EXCEPT !.at = IF call.op.cmd \in Reads THEN "head" ELSE "ack"]
        /\ UNCHANGED <<calls, faults, want, last, seen>>
    BY <1>6 DEF Send
  <2>5. /\ call' \in [op : Calls, off : Nat, tries : Nat, at : {"none", "send", "ack", "head", "tail"},
                      head : Seq(Pieces), data : Seq(Datum)]
        /\ call'.at = (IF call.op.cmd \in Reads THEN "head" ELSE "ack")
        /\ call'.op = call.op /\ call'.off = call.off /\ call'.at # "none"
    BY <1>1, <2>4 DEF CallTypes
  <2>6. HostTypes'
    BY <1>1, <2>4, <2>5 DEF HostTypes, CallTypes
  <2>7. CallInv'
    <3>1. call' # NoCall
      BY <2>5 DEF NoCall
    <3>2. call'.at # "tail"
      BY <2>5
    <3> QED BY <1>1, <2>1, <2>5, <3>1, <3>2 DEF CallInv
  <2> QED
    BY <2>3, <2>6, <2>7 DEF Typed, TypeOK
<1>7. CASE ReceiveAck
  <2>1. /\ call.at = "ack" /\ Available >= 7 /\ Consume(7) /\ Reading /\ seen' = seen
        /\ ChunkDone(<< >>) \/ Retry
    BY <1>7 DEF ReceiveAck
  <2>2. answers' \in Seq(Octets)
    BY <1>1, <2>1, FrontTypes, SMT DEF Available
  <2>3. CallTypes' /\ CallInv'
    BY <1>1, <2>1, EmptySeq, RetryTypes, ChunkDoneTypes
  <2> QED
    BY <1>1, <1>2, <1>3, <1>4, <2>1, <2>2, <2>3 DEF Reading, HostTypes, Typed, TypeOK
<1>8. CASE ReceiveHead
  <2>1. /\ call.at = "head" /\ Available >= 6 /\ Consume(6) /\ Reading /\ seen' = seen
        /\ \/ /\ call' = [call EXCEPT !.at = "tail", !.head = <<answers[1].of>>]
              /\ UNCHANGED <<last, want>>
           \/ Retry
    BY <1>8 DEF ReceiveHead
  <2>2. answers' \in Seq(Octets)
    BY <1>1, <2>1, FrontTypes, SMT DEF Available
  <2>3. CallTypes' /\ CallInv'
    <3>1. CASE Retry
      BY <1>1, <2>1, <3>1, RetryTypes
    <3>2. CASE /\ call' = [call EXCEPT !.at = "tail", !.head = <<answers[1].of>>]
               /\ UNCHANGED <<last, want>>
      <4>1. answers[1].of \in Pieces
        <5>1. 1 \in 1..Len(answers)
          BY <1>1, <2>1, FrontTypes, SMT DEF Available
        <5> QED BY <1>1, <5>1, FrontTypes
      <4>2. <<answers[1].of>> \in Seq(Pieces) /\ Len(<<answers[1].of>>) = 1
        BY <4>1, SMT
      <4> HIDE <3>2
      <4>3. /\ call' \in [op : Calls, off : Nat, tries : Nat, at : {"none", "send", "ack", "head", "tail"},
                          head : Seq(Pieces), data : Seq(Datum)]
            /\ call'.at = "tail" /\ call'.op = call.op /\ call'.off = call.off
            /\ Len(call'.head) = 1
        <5> DEFINE h == <<answers[1].of>>
        <5>1. h \in Seq(Pieces) /\ Len(h) = 1 /\ call' = [call EXCEPT !.at = "tail", !.head = h]
          BY <3>2, <4>2
        <5> HIDE DEF h
        <5> QED BY <1>1, <5>1 DEF CallTypes
      <4>4. CallInv'
        <5>1. call' # NoCall
          BY <4>3 DEF NoCall
        <5> QED BY <1>1, <2>1, <4>3, <5>1 DEF CallInv
      <4> QED
        BY <1>1, <3>2, <4>3, <4>4 DEF CallTypes
    <3> QED BY <2>1, <3>1, <3>2
  <2> QED
    BY <1>1, <1>2, <1>3, <1>4, <2>1, <2>2, <2>3 DEF Reading, HostTypes, Typed, TypeOK
<1>9. CASE ReceiveTail
  <2>1. /\ call.at = "tail" /\ Available >= TailBytes /\ Consume(TailBytes) /\ Reading /\ seen' = seen
        /\ Retry \/ ChunkDone(answers[1].of.data) \/ Return(FALSE, << >>)
    BY <1>9 DEF ReceiveTail
  <2>2. TailBytes \in Nat \ {0}
    BY <1>1, <2>1, HeadTypes
  <2>3. answers' \in Seq(Octets)
    BY <1>1, <2>1, <2>2, FrontTypes, SMT DEF Available
  <2>4. answers[1].of.data \in Seq(Datum)
    <3>1. 1 \in 1..Len(answers)
      BY <1>1, <2>1, <2>2, FrontTypes, SMT DEF Available
    <3>2. answers[1].of \in Pieces
      BY <1>1, <3>1, FrontTypes
    <3> QED BY <3>2 DEF Pieces
  <2>5. CallTypes' /\ CallInv'
    BY <1>1, <2>1, <2>4, EmptySeq, RetryTypes, ChunkDoneTypes, ReturnTypes
  <2> QED
    BY <1>1, <1>2, <1>3, <1>4, <2>1, <2>3, <2>5 DEF Reading, HostTypes, Typed, TypeOK
<1>10. CASE TimesOut
  <2>1. /\ call.at # "none" /\ Retry /\ Reading /\ answers' = << >>
        /\ seen' = seen \/ seen' = seen \cup {"late"}
    <3>1. seen' = seen \cup {"late"} \/ seen' = seen \cup {}
      BY <1>10 DEF TimesOut
    <3>2. seen \cup {} = seen
      OBVIOUS
    <3> QED BY <1>10, <3>1, <3>2 DEF TimesOut
  <2>2. answers' \in Seq(Octets) /\ seen' \subseteq Notes /\ ("raced" \in seen => "raced" \in seen')
    BY <1>1, <2>1, EmptySeq DEF HostTypes, Notes
  <2>3. CallTypes' /\ CallInv'
    BY <1>1, <2>1, RetryTypes
  <2> QED
    BY <1>1, <1>2, <1>3, <1>4, <2>1, <2>2, <2>3 DEF Reading, Typed, TypeOK
<1> QED
  BY <1>5, <1>6, <1>7, <1>8, <1>9, <1>10 DEF HostStep
\* The end of the first answer, and what is left of it when it is garbled.
LEMMA AnswerTypes ==
  ASSUME TypeOK, WholeAnswer
  PROVE  /\ answers[1].of \in Pieces /\ answers[7].of \in Pieces
         /\ ~answers[1].of.tail /\ answers[7].of.tail
         /\ AnswerEnd = 6 + Size(answers[7].of) /\ AnswerEnd \in Nat
         /\ Len(answers) > 6 /\ 1 \in 1..Len(answers) /\ 7 \in 1..Len(answers)
<1>1. Len(answers) > 6 /\ answers[7].of.tail /\ ~answers[1].of.tail
  BY DEF WholeAnswer, Aligned
<1>2. 1 \in 1..Len(answers) /\ 7 \in 1..Len(answers)
  BY <1>1, FrontTypes, SMT
<1>3. answers[1].of \in Pieces /\ answers[7].of \in Pieces
  BY <1>2, FrontTypes
<1>4. Size(answers[7].of) \in Nat
  BY <1>3, BytesOfPiece
<1> QED
  BY <1>1, <1>2, <1>3, <1>4, SMT DEF AnswerEnd

\* A garbled piece is as long as it was.
LEMMA GarbledPiece ==
  ASSUME NEW p \in Pieces
  PROVE  /\ Garbled(p) \in Pieces /\ ~Garbled(p).ok
         /\ Garbled(p).tail = p.tail /\ Garbled(p).len = p.len /\ Size(Garbled(p)) = Size(p)
         /\ Len(Garbled(p).data) = Len(p.data)
<1> DEFINE d == [i \in DOMAIN p.data |-> Zero]
<1>1. p.data \in Seq(Datum) /\ Len(p.data) \in Nat /\ DOMAIN p.data = 1..Len(p.data)
  <2>1. p.data \in Seq(Datum)
    BY DEF Pieces
  <2> QED BY <2>1, LenProperties
<1>2. Zero \in Datum
  <2>1. Zero \in Value
    BY Constants
  <2> QED BY <2>1 DEF Datum
<1>3. d \in [1..Len(p.data) -> Datum]
  BY <1>1, <1>2
<1>4. d \in Seq(Datum)
  BY <1>1, <1>3, SeqDef
<1>5. Len(d) = Len(p.data)
  BY <1>1, <1>3, <1>4, LenProperties, SMT
<1>6. Garbled(p) = [p EXCEPT !.ok = FALSE, !.data = d]
  BY DEF Garbled
<1> HIDE DEF d
<1>7. /\ Garbled(p) \in Pieces /\ ~Garbled(p).ok /\ Garbled(p).tail = p.tail
      /\ Garbled(p).len = p.len /\ Garbled(p).data = d
  BY <1>4, <1>6 DEF Pieces
<1> QED
  BY <1>5, <1>7 DEF Size

\* What the line does to packets and answers.
LEMMA TypedLine == Typed /\ Line => Typed'
<1> SUFFICES ASSUME Typed, Line PROVE Typed'
  OBVIOUS
<1>1. TypeOK /\ BoardTypes /\ HostTypes /\ CallTypes /\ CallInv /\ ReceiverInv
  BY DEF Typed, TypeOK, HostTypes
<1>2. /\ UNCHANGED <<rx, wordsSeen, fsm, rd, tx, hold, pending, memDone, mem, gate, busy>>
      /\ UNCHANGED <<call, calls, want, last>>
      /\ faults' = faults + 1
      /\ seen' = seen \/ seen' = seen \cup {"unheard"}
  BY DEF Line, LoseRequest, CorruptRequest, LoseAnswer, GarbleAnswer, Fault
<1>3. CallInv' /\ ReceiverInv'
  BY <1>1, <1>2 DEF CallInv, ReceiverInv
<1>4. HostTypes'
  BY <1>1, <1>2, SMT DEF HostTypes, CallTypes, Notes
<1>5. line' \in Seq(Packets) /\ answers' \in Seq(Octets)
  <2>1. CASE LoseRequest
    BY <1>1, <2>1, FirstPacket DEF LoseRequest, BoardTypes
  <2>2. CASE CorruptRequest
    <3>1. line # << >> /\ answers' = answers
      BY <2>2 DEF CorruptRequest
    <3> DEFINE p == Head(line)
    <3>2. p \in Packets /\ Tail(line) \in Seq(Packets)
      BY <1>1, <3>1, FirstPacket
    <3>3. PICK q \in Packets : line' = <<q>> \o Tail(line)
      <4>0. \/ line' = <<[p EXCEPT !.crc = FALSE]>> \o Tail(line)
            \/ \E a \in Addr : line' = <<[p EXCEPT !.crc = FALSE, !.addr = a]>> \o Tail(line)
        BY <2>2 DEF CorruptRequest
      <4> HIDE DEF p
      <4>1. [p EXCEPT !.crc = FALSE] \in Packets
        BY <3>2 DEF Packets
      <4>2. \A a \in Addr : [p EXCEPT !.crc = FALSE, !.addr = a] \in Packets
        <5>1. Addr \subseteq Nat
          BY Constants, SMT DEF Addr
        <5> QED BY <3>2, <5>1 DEF Packets
      <4> QED
        BY <4>0, <4>1, <4>2
    <3>4. <<q>> \in Seq(Packets)
      BY SMT
    <3> QED
      BY <1>1, <3>1, <3>2, <3>3, <3>4, ConcatProperties DEF BoardTypes
  <2>3. CASE LoseAnswer
    <3>1. AnswerEnd \in Nat /\ answers \in Seq(Octets) /\ line' = line
          /\ answers' = SubSeq(answers, AnswerEnd + 1, Len(answers))
      BY <1>1, <2>3, AnswerTypes, FrontTypes DEF LoseAnswer
    <3> QED
      BY <1>1, <3>1, Consumed DEF BoardTypes
  <2>4. CASE GarbleAnswer
    <3>1. /\ line' = line /\ answers \in Seq(Octets) /\ Len(answers) \in Nat
          /\ DOMAIN answers = 1..Len(answers)
      BY <1>1, <2>4, FrontTypes, LenProperties DEF GarbleAnswer
    <3>2. \A i \in 1..Len(answers) : [answers[i] EXCEPT !.of = Garbled(@)] \in Octets
      <4> TAKE i \in 1..Len(answers)
      <4>1. answers[i] \in Octets /\ answers[i].of \in Pieces
        BY <1>1, FrontTypes
      <4>2. Garbled(answers[i].of) \in Pieces
        BY <4>1, GarbledPiece
      <4> QED BY <4>1, <4>2 DEF Octets
    <3>3. \A i \in 1..Len(answers) : answers[i] \in Octets
      BY <1>1, FrontTypes
    <3>4. answers' = [i \in DOMAIN answers |-> IF i \in 7..AnswerEnd
                                             THEN [answers[i] EXCEPT !.of = Garbled(@)] ELSE answers[i]]
      BY <2>4 DEF GarbleAnswer
    <3>5. answers' \in [1..Len(answers) -> Octets]
      BY <3>1, <3>2, <3>3, <3>4
    <3>6. answers' \in Seq(Octets)
      <4> HIDE <3>4
      <4> DEFINE n == Len(answers)
      <4>1. n \in Nat /\ answers' \in [1..n -> Octets]
        BY <3>1, <3>5
      <4> HIDE DEF n
      <4> QED BY <4>1, SeqDef
    <3> QED
      BY <1>1, <3>1, <3>6 DEF BoardTypes
  <2> QED
    BY <2>1, <2>2, <2>3, <2>4 DEF Line
<1>6. BoardTypes'
  BY <1>1, <1>2, <1>5 DEF BoardTypes
<1> QED
  BY <1>3, <1>4, <1>6 DEF Typed, TypeOK

\* Every state is typed.  The receiver holds a packet whenever it is not idle
\* and waits in WAIT_WRITE only for an answer that is bound to come, whatever
\* the line does and however often the host gives up, unless a data word met
\* a running kernel.
THEOREM LinkIsTyped == Spec => []Typed
<1>1. Init => Typed
  BY TypedInit
<1>2. Typed /\ [Next]_vars => Typed'
  <2>1. ASSUME Typed, UNCHANGED vars PROVE Typed'
    BY <2>1 DEF Typed, TypeOK, BoardTypes, HostTypes, CallTypes, CallInv, ReceiverInv, vars, board, host
  <2> QED
    BY <2>1, TypedBoard, TypedHost, TypedLine DEF Next
<1> QED
  BY <1>1, <1>2, PTL DEF Spec
-----------------------------------------------------------------------------
(***************************************************************************)
(* Phases.                                                                 *)
(***************************************************************************)
\* As long as the call does not move on, neither do its chunk and what is
\* expected of its answer.
LEMMA SameChunk ==
  ASSUME UNCHANGED <<call.op, call.off>>
  PROVE  UNCHANGED <<Chunk, ChunkAddr, ResponseLen, ResponseHeader>>
         /\ \A p : Asks(p)' <=> Asks(p)
<1>1. UNCHANGED <<Chunk, ChunkAddr>>
  BY DEF Chunk, ChunkAddr, Rest
<1> QED
  BY <1>1 DEF ResponseLen, ResponseHeader, Asks

\* What tells the phases apart.
LEMMA WhichPhase ==
  ASSUME Typed, InPhase
  PROVE  /\ call.at \in {"none", "send"} => Resting
         /\ line # << >> => Sent
         /\ rx.st \in {"payload", "crc"} => Taken
         /\ fsm \in {"writeResponse", "validate"} => Working
         /\ fsm = "read" => Serving
         /\ tx # NoTx => Serving
         /\ pending # NoAnswer => Owing
         /\ hold = "fail" => Holding
         /\ rx.st = "wait" /\ hold # "none" /\ rx.p.cmd \notin Reads => Holding
         /\ answers # << >> => Heard \/ (Serving /\ call.at = "head")
<1>1. Resting => /\ call.at \in {"none", "send"} /\ ReceiverOpen /\ Quiet /\ line = << >> /\ answers = << >>
  BY DEF Resting, Silence
<1>2. Sent => /\ call.at \in {"ack", "head"} /\ ReceiverOpen /\ Quiet /\ answers = << >>
  BY DEF Sent, AtStart
<1>3. Taken => /\ call.at \in {"ack", "head"} /\ rx.st \in {"payload", "crc"} /\ hold = "none" /\ Quiet
               /\ line = << >> /\ answers = << >>
  BY DEF Taken, Silence, AtStart
<1>4. Working => /\ call.at \in {"ack", "head"} /\ rx.st = "wait" /\ hold = "none" /\ tx = NoTx
                 /\ pending = NoAnswer /\ fsm \in {"writeResponse", "validate"}
                 /\ line = << >> /\ answers = << >>
  BY DEF Working, Silence, AtStart
<1>5. Holding => /\ call.at \in {"ack", "head"} /\ rx.st = "wait" /\ hold # "none" /\ Quiet
                 /\ line = << >> /\ answers = << >> /\ rx.p.cmd \notin Reads
  BY DEF Holding, Silence, AtStart
<1>6. Owing => /\ call.at \in {"ack", "head"} /\ rx.st = "idle" /\ hold = "none" /\ fsm = "idle" /\ tx = NoTx
               /\ line = << >> /\ answers = << >> /\ pending # NoAnswer
  BY DEF Owing, Silence, AtStart
<1>7. Serving => /\ call.at \in {"head", "tail"} /\ ReceiverOpen /\ pending = NoAnswer /\ fsm = "read"
                 /\ line = << >> /\ (answers # << >> => call.at = "head") /\ tx # NoTx
  <2>1. Serving => tx # NoTx
    <3>1. tx.owed > 0 => tx.owed # 0
      BY SMT DEF Typed, TypeOK, BoardTypes
    <3> QED BY <3>1 DEF Serving, NoTx
  <2> QED BY <2>1 DEF Serving
<1>8. Heard => /\ call.at \in {"ack", "head", "tail"} /\ ReceiverOpen /\ Quiet /\ line = << >>
  BY DEF Heard, AtStart
<1>9. Silent => /\ call.at \in {"ack", "head"} /\ ReceiverOpen /\ Quiet /\ line = << >> /\ answers = << >>
  BY DEF Silent, Silence, AtStart
<1> HIDE DEF Resting, Sent, Taken, Working, Holding, Owing, Serving, Heard, Silent
<1> QED
  BY <1>1, <1>2, <1>3, <1>4, <1>5, <1>6, <1>7, <1>8, <1>9 DEF InPhase, Quiet, ReceiverOpen

\* A phase lasts while nothing changes that it is about.
LEMMA SamePhases ==
  ASSUME UNCHANGED <<line, rx, hold, fsm, pending, tx, rd, answers, call>>
  PROVE  /\ (Resting' <=> Resting) /\ (Sent' <=> Sent) /\ (Taken' <=> Taken)
         /\ (Working' <=> Working) /\ (Holding' <=> Holding) /\ (Owing' <=> Owing)
         /\ (Serving' <=> Serving) /\ (Heard' <=> Heard) /\ (Silent' <=> Silent)
         /\ AnswerHead' = AnswerHead /\ AnswerTail' = AnswerTail
<1>1. UNCHANGED <<Chunk, ChunkAddr, ResponseLen, ResponseHeader>>
  BY SameChunk
<1>2. AnswerHead' = AnswerHead /\ AnswerTail' = AnswerTail
  BY DEF AnswerHead, AnswerTail
<1>3. ReceiverOpen' <=> ReceiverOpen
  BY DEF ReceiverOpen
<1>4. (Quiet' <=> Quiet) /\ (Silence' <=> Silence) /\ (AtStart' <=> AtStart)
  BY DEF Quiet, Silence, AtStart
<1>5. (Resting' <=> Resting) /\ (Silent' <=> Silent) /\ (Owing' <=> Owing)
  BY <1>1, <1>3, <1>4 DEF Resting, Silent, Owing
<1>6. (Sent' <=> Sent) /\ (Taken' <=> Taken) /\ (Working' <=> Working) /\ (Holding' <=> Holding)
  BY <1>1, <1>3, <1>4 DEF Sent, Taken, Working, Holding, Asks
<1>7. Serving' <=> Serving
  BY <1>1, <1>3 DEF Serving
<1>8. Heard' <=> Heard
  BY <1>1, <1>2, <1>3, <1>4 DEF Heard
<1> QED
  BY <1>2, <1>5, <1>6, <1>7, <1>8

\* The receiver opens without touching the others.
LEMMA OpenPhases ==
  ASSUME UNCHANGED <<line, fsm, pending, tx, rd, answers, call>>, ReceiverOpen, ReceiverOpen'
  PROVE  /\ (Resting' <=> Resting) /\ (Sent' <=> Sent) /\ (Serving' <=> Serving)
         /\ (Heard' <=> Heard) /\ (Silent' <=> Silent)
         /\ AnswerHead' = AnswerHead /\ AnswerTail' = AnswerTail<1>1. UNCHANGED <<Chunk, ChunkAddr, ResponseLen, ResponseHeader>>
  BY SameChunk
<1>2. AnswerHead' = AnswerHead /\ AnswerTail' = AnswerTail
  BY DEF AnswerHead, AnswerTail
<1>3. (Quiet' <=> Quiet) /\ (Silence' <=> Silence) /\ (AtStart' <=> AtStart)
  BY DEF Quiet, Silence, AtStart
<1>4. (Resting' <=> Resting) /\ (Silent' <=> Silent)
  BY <1>3 DEF Resting, Silent
<1>5. Sent' <=> Sent
  BY <1>1, <1>3 DEF Sent, Asks
<1>6. Serving' <=> Serving
  BY <1>1 DEF Serving
<1>7. Heard' <=> Heard
  BY <1>1, <1>2, <1>3 DEF Heard
<1> QED
  BY <1>2, <1>4, <1>5, <1>6, <1>7
-----------------------------------------------------------------------------
(***************************************************************************)
(* From phase to phase: the board.                                         *)
(***************************************************************************)
\* A step of the board leaves the call alone, and what is derived from it.
LEMMA BoardKeepsCall ==
  ASSUME Typed, Board
  PROVE  /\ UNCHANGED <<call, calls, faults, want, last>>
         /\ UNCHANGED <<Chunk, ChunkAddr, ResponseLen, ResponseHeader>>
         /\ (AtStart' <=> AtStart) /\ (\A p : Asks(p)' <=> Asks(p))
         /\ ("late" \in seen' <=> "late" \in seen)
<1>1. UNCHANGED <<call, calls, faults, want, last>>
  BY DEF Board
<1>2. "late" \in seen' <=> "late" \in seen
  BY BoardNotes DEF Typed, TypeOK, HostTypes
<1>3. AtStart' <=> AtStart
  BY <1>1 DEF AtStart
<1> QED
  BY <1>1, <1>2, <1>3, SameChunk

LEMMA StepArrives ==
  ASSUME Typed, InPhase, Board, PacketArrives
  PROVE  Sent /\ Taken' /\ rx'.p = line[1] /\ rx'.at = 0 /\ mem' = mem /\ memDone' = memDone
         /\ wordsSeen' = IF line[1].cmd \in Streamed THEN wordsSeen ELSE 0
<1>1. line # << >> /\ rx.st = "idle"
  BY DEF PacketArrives
<1>2. Sent
  BY <1>1, WhichPhase
<1>3. /\ Head(line) = line[1] /\ Tail(line) \in Seq(Packets) /\ Len(Tail(line)) = Len(line) - 1
      /\ Len(line) = 1
  BY <1>1, <1>2, FirstPacket DEF Sent, Typed, TypeOK
<1>4. Tail(line) = << >>
  <2>1. Len(Tail(line)) = 0
    BY <1>3, SMT
  <2> QED BY <1>3, <2>1, NotEmpty
<1>5. /\ rx' = [st |-> IF line[1].words = << >> THEN "crc" ELSE "payload", p |-> line[1], at |-> 0]
      /\ line' = << >> /\ wordsSeen' = IF line[1].cmd \in Streamed THEN wordsSeen ELSE 0
      /\ UNCHANGED <<fsm, rd, tx, hold, pending, memDone, mem, gate, busy, answers>>
  BY <1>3, <1>4 DEF PacketArrives
<1>6. rx'.st \in {"payload", "crc"} /\ rx'.p = line[1] /\ rx'.at = 0
  BY <1>5
<1>7. hold = "none"
  BY <1>1, <1>2 DEF Sent, ReceiverOpen
<1>8. Taken'
  BY <1>2, <1>5, <1>6, <1>7, BoardKeepsCall DEF Sent, Taken, Silence, Quiet, Asks
<1> QED
  BY <1>2, <1>5, <1>6, <1>8

LEMMA StepMissed ==
  ASSUME Typed, InPhase, Board, PacketMissed
  PROVE  Sent /\ Silent' /\ rx.st = "wait"
<1>1. line # << >> /\ rx.st = "wait"
  BY DEF PacketMissed
<1>2. Sent
  BY <1>1, WhichPhase
<1>3. /\ Tail(line) \in Seq(Packets) /\ Len(Tail(line)) = Len(line) - 1 /\ Len(line) = 1
  BY <1>1, <1>2, FirstPacket DEF Sent, Typed, TypeOK
<1>4. Tail(line) = << >>
  <2>1. Len(Tail(line)) = 0
    BY <1>3, SMT
  <2> QED BY <1>3, <2>1, NotEmpty
<1>5. Silent'
  BY <1>2, <1>4, BoardKeepsCall DEF PacketMissed, Sent, Silent, Silence, ReceiverOpen, Quiet
<1> QED
  BY <1>1, <1>2, <1>5

LEMMA StepWord ==
  ASSUME Typed, InPhase, Board, WordArrives
  PROVE  /\ Taken /\ Taken' /\ rx'.p = rx.p /\ rx'.at = rx.at + 1
         /\ rx.at < Len(rx.p.words) /\ rx.at \in Nat
         /\ UNCHANGED <<line, fsm, rd, tx, hold, pending, busy, answers>>
<1>1. rx.st = "payload" /\ UNCHANGED <<line, fsm, rd, tx, hold, pending, busy, answers>>
      /\ rx' = [rx EXCEPT !.at = @ + 1,
                          !.st = IF rx.at + 1 = Len(rx.p.words) THEN "crc" ELSE "payload"]
  BY DEF WordArrives
<1>2. Taken
  BY <1>1, WhichPhase
<1>3. rx.at < Len(rx.p.words) /\ rx.at \in Nat
  BY <1>1, PacketHeld DEF Typed, TypeOK
<1>4. rx'.p = rx.p /\ rx'.at = rx.at + 1 /\ rx'.st \in {"payload", "crc"}
  BY <1>1 DEF Typed, TypeOK, BoardTypes
<1>5. Taken'
  BY <1>1, <1>2, <1>4, BoardKeepsCall DEF Taken, Silence, Quiet, Asks
<1> QED
  BY <1>1, <1>2, <1>3, <1>4, <1>5

LEMMA StepCrcFails ==
  ASSUME Typed, InPhase, Board, CrcFails
  PROVE  /\ Taken /\ Owing' /\ pending'.nak /\ gate' = "error" /\ ~rx.p.crc
         /\ rx'.st = "idle" /\ rx'.at = rx.at /\ UNCHANGED <<mem, memDone, wordsSeen>>
<1>1. /\ rx.st = "crc" /\ ~rx.p.crc /\ rx' = [rx EXCEPT !.st = "idle"] /\ hold' = "none" /\ Capture(TRUE)
      /\ UNCHANGED <<line, wordsSeen, fsm, rd, tx, memDone, mem, busy, answers>>
  BY DEF CrcFails
<1>2. Taken
  BY <1>1, WhichPhase
<1>3. pending = NoAnswer
  BY <1>2 DEF Taken, Quiet
<1>4. pending'.nak /\ gate' = "error" /\ pending' # NoAnswer
  BY <1>1, <1>3 DEF Capture, NoAnswer
<1>5. rx'.st = "idle" /\ rx'.at = rx.at
  BY <1>1 DEF Typed, TypeOK, BoardTypes
<1>6. Owing'
  BY <1>1, <1>2, <1>4, <1>5, BoardKeepsCall DEF Taken, Owing, Silence, Quiet
<1> QED
  BY <1>1, <1>2, <1>4, <1>5, <1>6

\* What the end of a packet with a good checksum sets going.
LEMMA DoneCases ==
  ASSUME PacketDone
  PROVE  \/ rx.p.cmd = "launch" /\ Launched
         \/ rx.p.cmd = "validate" /\ ValidateAsked
         \/ rx.p.cmd = "reset" /\ ResetAsked
         \/ rx.p.cmd \in Reads /\ ReadAsked
         \/ rx.p.cmd \notin Reads \cup {"launch", "validate", "reset"} /\ WriteDone
  BY DEF PacketDone, Reads

LEMMA StepDone ==
  ASSUME Typed, InPhase, Board, PacketDone
  PROVE  /\ Taken /\ rx.p.crc /\ rx.p.addr = ChunkAddr /\ rx.p.cmd = call.op.cmd
         /\ rx'.st = "wait" /\ rx'.p = rx.p /\ rx'.at = rx.at /\ UNCHANGED <<mem, memDone, pending>>
         /\ \/ call.op.cmd \in {"write", "validate"} /\ Working'
            \/ call.op.cmd \in {"launch", "reset", "program", "constants"} /\ Holding'
            \/ call.op.cmd \in Reads /\ Serving' /\ tx'.data = << >>
<1>1. /\ rx.st = "crc" /\ rx.p.crc /\ rx' = [rx EXCEPT !.st = "wait"]
      /\ UNCHANGED <<line, pending, memDone, mem>>
  BY DEF PacketDone
<1>2. Taken
  BY <1>1, WhichPhase
<1>3. rx'.st = "wait" /\ rx'.p = rx.p /\ rx'.at = rx.at
  BY <1>1 DEF Typed, TypeOK, BoardTypes
<1>4. /\ rx.p.addr = ChunkAddr /\ rx.p.cmd = call.op.cmd /\ rx.p.words = Chunk
      /\ AtStart /\ line = << >> /\ answers = << >> /\ hold = "none"
      /\ fsm = "idle" /\ pending = NoAnswer /\ tx = NoTx
  BY <1>1, <1>2 DEF Taken, Asks, Silence, Quiet
<1>5. call.op.cmd \in Commands /\ call.at # "none"
  <2>1. rx.p.cmd \in Commands
    BY <1>1, PacketHeld DEF Typed, TypeOK
  <2> QED BY <1>4, <2>1 DEF AtStart
<1>6. /\ Asks(rx.p)' /\ rx'.p.crc /\ AtStart' /\ line' = << >> /\ pending' = NoAnswer
  <2>1. Asks(rx.p) /\ UNCHANGED <<Chunk, ChunkAddr, call>>
    BY <1>2, BoardKeepsCall DEF Taken
  <2> QED BY <1>1, <1>3, <1>4, <2>1, BoardKeepsCall DEF Asks
<1>7. CASE rx.p.cmd = "launch" /\ Launched
  <2>1. Holding'
    BY <1>3, <1>4, <1>6, <1>7 DEF Launched, Holding, Silence, Quiet, Reads
  <2> QED BY <1>1, <1>2, <1>3, <1>4, <1>7, <2>1
<1>8. CASE rx.p.cmd = "validate" /\ ValidateAsked
  <2>1. Working'
    BY <1>3, <1>4, <1>6, <1>8 DEF ValidateAsked, Working, Silence
  <2> QED BY <1>1, <1>2, <1>3, <1>4, <1>8, <2>1
<1>9. CASE rx.p.cmd = "reset" /\ ResetAsked
  <2>1. Holding'
    BY <1>3, <1>4, <1>6, <1>9 DEF ResetAsked, Holding, Silence, Quiet, Reads
  <2> QED BY <1>1, <1>2, <1>3, <1>4, <1>9, <2>1
<1>10. CASE rx.p.cmd = "write" /\ WriteDone
  <2>1. Working'
    BY <1>3, <1>4, <1>6, <1>10 DEF WriteDone, Working, Silence
  <2> QED BY <1>1, <1>2, <1>3, <1>4, <1>10, <2>1
<1>11. CASE rx.p.cmd \in {"program", "constants"} /\ WriteDone
  <2>1. hold' # "none" /\ fsm' = fsm /\ UNCHANGED <<rd, tx, gate, busy, answers>>
    BY <1>11 DEF WriteDone
  <2>2. Holding'
    BY <1>3, <1>4, <1>6, <1>11, <2>1 DEF Holding, Silence, Quiet, Reads
  <2> QED BY <1>1, <1>2, <1>3, <1>4, <1>11, <2>2
<1>12. CASE rx.p.cmd \in Reads /\ ReadAsked
  <2>1. (IF rx.p.cmd = "status" THEN 1 ELSE Len(rx.p.words)) = ResponseLen
    BY <1>4 DEF ResponseLen
  <2>2. hold' = "done" /\ StartResponse(ResponseLen)
    BY <1>12, <2>1 DEF ReadAsked
  <2>3. /\ fsm' = "read"
        /\ rd' = [status |-> call.op.cmd = "status", addr |-> ChunkAddr, left |-> ResponseLen]
        /\ answers' = << >> \o Bytes(ResponseHeader)
        /\ tx' = [NoTx EXCEPT !.owed = ResponseLen]
    BY <1>4, <2>2 DEF StartResponse, ResponseHeader
  <2>4. tx'.owed = ResponseLen /\ tx'.data = << >> /\ Len(tx'.data) = 0
    BY <2>3, EmptySeq DEF NoTx
  <2>5. ResponseLen \in Nat /\ ResponseLen > 0 /\ ChunkAddr \in Nat
    <3>1. Chunk \in Seq(Value) /\ ChunkAddr \in Nat /\ (call.op.cmd = "read" => Len(Chunk) > 0)
      BY <1>5, ChunkWords DEF Typed
    <3>2. Len(Chunk) \in Nat
      BY <3>1, LenProperties
    <3> QED BY <1>4, <1>12, <3>1, <3>2, SMT DEF ResponseLen, Reads
  <2>6. answers' = Bytes(ResponseHeader)
    <3>1. ResponseHeader \in Pieces
      BY <1>5, <2>5, PieceTypes, SMT DEF ResponseHeader
    <3>2. Bytes(ResponseHeader) \in Seq(Octets)
      BY <3>1, BytesOfPiece
    <3> QED BY <2>3, <3>2, ConcatEmptySeq
  <2>7. /\ ChunkAddr + Len(tx'.data) = ChunkAddr /\ tx'.owed + Len(tx'.data) = ResponseLen
    BY <2>4, <2>5, SMT
  <2>8. ReceiverOpen'
    BY <1>3, <1>12, <2>2 DEF ReceiverOpen
  <2>9. call'.at = "head"
    BY <1>4, <1>6, <1>12, BoardKeepsCall DEF AtStart
  <2>10. Serving'
    BY <1>4, <1>6, <1>12, <2>3, <2>4, <2>5, <2>6, <2>7, <2>8, <2>9, BoardKeepsCall DEF Serving
  <2> QED BY <1>1, <1>2, <1>3, <1>4, <1>12, <2>4, <2>10
<1> QED
  BY <1>4, <1>5, <1>7, <1>8, <1>9, <1>10, <1>11, <1>12 DEF PacketDone, Commands, Reads
\* SEND_ACK and SEND_NACK: of a read nothing is left to do, all else is answered.
LEMMA StepAnswer ==
  ASSUME Typed, InPhase, Board, Answer
  PROVE  /\ rx.st = "wait" /\ rx'.st = "idle" /\ rx'.at = rx.at
         /\ UNCHANGED <<mem, memDone, wordsSeen, fsm, tx>>
         /\ \/ /\ Holding /\ Owing' /\ pending'.nak = (hold = "fail")
               /\ gate' = IF hold = "fail" THEN "error" ELSE gate
            \/ /\ ReceiverOpen /\ ReceiverOpen' /\ hold = "done" /\ gate' = gate
               /\ UNCHANGED <<line, fsm, pending, tx, rd, answers, call>>
<1>1. /\ rx.st = "wait" /\ hold # "none" /\ rx' = [rx EXCEPT !.st = "idle"] /\ hold' = "none"
      /\ Capture(hold = "fail")
      /\ UNCHANGED <<line, wordsSeen, fsm, rd, tx, memDone, mem, busy, answers>>
  BY DEF Answer
<1>2. rx'.st = "idle" /\ rx'.at = rx.at /\ rx.p.addr \in Nat
  <2>1. rx'.st = "idle" /\ rx'.at = rx.at
    BY <1>1 DEF Typed, TypeOK, BoardTypes
  <2> QED BY <1>1, <2>1, PacketHeld DEF Typed, TypeOK
<1>3. hold \in {"done", "fail"}
  BY <1>1 DEF Typed, TypeOK, BoardTypes
<1>4. CASE hold = "done" /\ rx.p.cmd \in Reads
  <2>1. pending' = pending /\ gate' = gate
    BY <1>1, <1>4 DEF Capture
  <2>2. ReceiverOpen /\ ReceiverOpen'
    BY <1>1, <1>2, <1>4 DEF ReceiverOpen
  <2> QED BY <1>1, <1>2, <1>4, <2>1, <2>2, BoardKeepsCall
<1>5. CASE hold = "fail" \/ rx.p.cmd \notin Reads
  <2>1. Holding
    BY <1>1, <1>5, WhichPhase
  <2>2. /\ pending = NoAnswer /\ rx.p.addr = ChunkAddr /\ rx.p.cmd = call.op.cmd
        /\ rx.p.cmd \notin Reads /\ AtStart /\ Silence /\ fsm = "idle" /\ tx = NoTx
    BY <2>1 DEF Holding, Asks, Quiet
  <2>3. pending' = [nak |-> hold = "fail", addr |-> ChunkAddr]
        /\ gate' = IF hold = "fail" THEN "error" ELSE gate
    BY <1>1, <2>2 DEF Capture
  <2>4. ChunkAddr # -1
    BY <1>2, <2>2, SMT
  <2>5. pending' # NoAnswer /\ pending'.nak = (hold = "fail") /\ pending'.addr = ChunkAddr
    BY <2>3, <2>4 DEF NoAnswer
  <2>6. Owing'
    BY <1>1, <1>2, <2>2, <2>5, BoardKeepsCall DEF Owing, Silence
  <2> QED BY <1>1, <1>2, <2>1, <2>3, <2>5, <2>6
<1> QED
  BY <1>3, <1>4, <1>5

LEMMA StepWritten ==
  ASSUME Typed, InPhase, Board, WriteResponse
  PROVE  Working /\ Holding' /\ hold' = "done" /\ UNCHANGED <<mem, rx, gate, wordsSeen>>
<1>1. /\ fsm = "writeResponse" /\ hold' = "done" /\ fsm' = "idle"
      /\ UNCHANGED <<line, rx, wordsSeen, rd, tx, pending, mem, gate, busy, answers>>
  BY DEF WriteResponse
<1>2. Working
  BY <1>1, WhichPhase
<1>3. rx.p.cmd \notin Reads
  BY <1>2 DEF Working, Reads
<1>4. Holding'
  BY <1>1, <1>2, <1>3, BoardKeepsCall DEF Working, Holding, Silence, Quiet, Asks
<1> QED
  BY <1>1, <1>2, <1>4

LEMMA StepValidated ==
  ASSUME Typed, InPhase, Board, ValidateResponse
  PROVE  /\ Working /\ Holding' /\ UNCHANGED <<mem, memDone, rx, wordsSeen>>
         /\ gate = "error" => gate' = "error"
<1>1. /\ fsm = "validate" /\ hold' # "none" /\ fsm' = "idle"
      /\ gate = "error" => gate' = "error"
      /\ UNCHANGED <<line, rx, wordsSeen, rd, tx, pending, memDone, mem, busy, answers>>
  BY DEF ValidateResponse
<1>2. Working
  BY <1>1, WhichPhase
<1>3. rx.p.cmd \notin Reads
  BY <1>2 DEF Working, Reads
<1>4. Holding'
  BY <1>1, <1>2, <1>3, BoardKeepsCall DEF Working, Holding, Silence, Quiet, Asks
<1> QED
  BY <1>1, <1>2, <1>4

LEMMA StepIssues ==
  ASSUME Typed, InPhase, Board, IssueAnswer, Typed'
  PROVE  /\ Owing /\ Heard' /\ AnswerTail'.ok
         /\ AnswerHead'.cmd = (IF pending.nak THEN "nak" ELSE "ack")
         /\ UNCHANGED <<mem, memDone, rx, gate, wordsSeen, hold>>
<1> DEFINE h == Header(IF pending.nak THEN "nak" ELSE "ack", pending.addr, 0)
           t == Payload(<< >>)
<1>1. /\ pending # NoAnswer /\ fsm = "idle" /\ tx = NoTx
      /\ answers' = answers \o Bytes(h) \o Bytes(t) /\ pending' = NoAnswer
      /\ UNCHANGED <<line, rx, wordsSeen, fsm, rd, tx, hold, memDone, mem, gate, busy>>
  BY DEF IssueAnswer
<1>2. Owing
  BY <1>1, WhichPhase
<1>3. h \in Pieces /\ ~h.tail /\ t \in Pieces /\ t.tail /\ t.ok /\ t.data = << >> /\ t.len = Len(<< >>)
  <2>1. pending.addr \in Int
    BY DEF Typed, TypeOK, BoardTypes
  <2> QED BY <2>1, EmptySeq, PieceTypes
<1>4. h.len = 0 /\ h.addr = pending.addr /\ h.cmd = (IF pending.nak THEN "nak" ELSE "ack")
  BY DEF Header
<1>5. t.len = h.len /\ Len(t.data) = t.len
  BY <1>3, <1>4, EmptySeq
<1>6. \/ call.op.cmd \notin Reads /\ h = Header("ack", ChunkAddr, 0)
      \/ h = Header("nak", h.addr, 0)
  BY <1>2, <1>4 DEF Owing
<1>7. answers' = Bytes(h) \o Bytes(t)
  <2>1. answers = << >>
    BY <1>2 DEF Owing, Silence
  <2>2. Bytes(h) \in Seq(Octets)
    BY <1>3, BytesOfPiece
  <2>3. << >> \o Bytes(h) = Bytes(h)
    BY <2>2, ConcatEmptySeq
  <2> QED BY <1>1, <2>1, <2>3
<1>8. AtStart' /\ AtStart
  BY <1>2, BoardKeepsCall DEF Owing
<1> HIDE DEF h, t
<1>9. /\ AnswerHead' = h /\ AnswerTail' = t /\ call'.at # "tail"
      /\ Len(answers') > 6 /\ answers' = Bytes(answers'[1].of) \o Bytes(answers'[7].of)
  <2>1. call'.at # "tail"
    BY <1>8 DEF AtStart
  <2>2. answers'[1].of = h /\ answers'[7].of = t /\ Len(answers') > 6
    <3>1. answers'[1] = [of |-> h, at |-> 1] /\ answers'[7] = [of |-> t, at |-> 1] /\ Len(answers') > 6
      <4>1. h \in Pieces /\ t \in Pieces /\ ~h.tail /\ t.tail
        BY <1>3
      <4> QED BY <4>1, <1>7, BytesOfAnswer
    <3> QED BY <3>1
  <2> QED BY <1>7, <2>1, <2>2 DEF AnswerHead, AnswerTail
<1>10. line' = << >> /\ ReceiverOpen' /\ Quiet'
  BY <1>1, <1>2 DEF Owing, Silence, ReceiverOpen, Quiet
<1>11. Heard'
  BY <1>3, <1>5, <1>6, <1>8, <1>9, <1>10, BoardKeepsCall DEF Heard
<1> QED
  BY <1>1, <1>2, <1>3, <1>4, <1>9, <1>11
\* A word of the response goes out: the last one closes the answer.
LEMMA StepServes ==
  ASSUME Typed, InPhase, Board, ServeWord
  PROVE  /\ Serving /\ UNCHANGED <<mem, memDone, rx, gate, wordsSeen, hold>>
         /\ \E word \in Datum :
              /\ call.op.cmd = "read" => word = mem[(ChunkAddr + Len(tx.data)) % Words]
              /\ \/ Serving' /\ tx'.data = Append(tx.data, word)
                 \/ /\ Heard' /\ AnswerHead'.cmd = call.op.cmd /\ AnswerTail'.ok
                    /\ AnswerTail'.data = Append(tx.data, word)
<1> DEFINE word == IF rd.status THEN (IF busy THEN 1 ELSE 0) ELSE mem[rd.addr % Words]
           data == Append(tx.data, word)
           h == ResponseHeader
           t == Payload(data)
<1>1. /\ fsm = "read" /\ rd.left > 0 /\ tx.owed > 0
      /\ IF tx.owed = 1 THEN answers' = answers \o Bytes(t) /\ tx' = NoTx
                        ELSE answers' = answers /\ tx' = [owed |-> tx.owed - 1, data |-> data]
      /\ rd' = [rd EXCEPT !.addr = @ + 1, !.left = @ - 1]
      /\ fsm' = IF rd.left = 1 /\ tx.owed = 1 THEN "idle" ELSE "read"
      /\ UNCHANGED <<line, rx, wordsSeen, hold, pending, memDone, mem, gate, busy>>
  BY DEF ServeWord
<1>2. Serving
  BY <1>1, WhichPhase
<1>3. /\ rd = [status |-> call.op.cmd = "status", addr |-> ChunkAddr + Len(tx.data), left |-> tx.owed]
      /\ tx.owed + Len(tx.data) = ResponseLen /\ call.op.cmd \in Reads
  BY <1>2 DEF Serving
<1>4. /\ tx.owed \in Nat /\ tx.data \in Seq(Datum) /\ Len(tx.data) \in Nat
  <2>1. tx.owed \in Nat /\ tx.data \in Seq(Datum)
    BY DEF Typed, TypeOK, BoardTypes
  <2> QED BY <2>1, LenProperties
<1>5. call.at # "none" /\ call.op.cmd \in Commands /\ ChunkAddr \in Nat
  <2>1. call.at # "none"
    BY <1>2 DEF Serving
  <2> QED BY <2>1, ChunkWords DEF Typed
<1>6. word \in Datum /\ (call.op.cmd = "read" => word = mem[(ChunkAddr + Len(tx.data)) % Words])
  <2>1. rd.status = (call.op.cmd = "status") /\ rd.addr = ChunkAddr + Len(tx.data)
    BY <1>3
  <2>2. rd.addr % Words \in Addr
    <3>1. rd.addr \in Nat /\ Words \in Nat \ {0}
      BY Constants DEF Typed, TypeOK, BoardTypes
    <3> QED BY <3>1, RemainderInRange DEF Addr
  <2>3. mem[rd.addr % Words] \in Value
    BY <2>2 DEF Typed, TypeOK, BoardTypes
  <2> QED BY <2>1, <2>3 DEF Datum
<1> HIDE DEF word
<1>7. data \in Seq(Datum) /\ Len(data) = Len(tx.data) + 1
  BY <1>4, <1>6, AppendProperties
<1>8. h \in Pieces /\ ~h.tail /\ h.len = ResponseLen /\ h.cmd = call.op.cmd
  <2>1. ResponseLen \in Nat
    BY <1>3, <1>4, SMT
  <2> QED BY <1>5, <2>1, PieceTypes, SMT DEF ResponseHeader, Header
<1>9. t \in Pieces /\ t.tail /\ t.ok /\ t.data = data /\ t.len = Len(data)
  BY <1>7, PieceTypes
<1>10. ReceiverOpen' /\ line' = << >> /\ pending' = NoAnswer
  BY <1>1, <1>2 DEF Serving, ReceiverOpen
<1> HIDE DEF data, t
<1>11. CASE tx.owed # 1
  <2>1. /\ answers' = answers /\ tx'.owed = tx.owed - 1 /\ tx'.data = data
        /\ fsm' = "read"
    BY <1>1, <1>11
  <2>2. tx'.owed > 0 /\ tx'.owed + Len(tx'.data) = ResponseLen
    <3>1. tx.owed > 0 /\ tx.owed # 1 /\ tx.owed \in Nat /\ Len(tx.data) \in Nat
          /\ tx.owed + Len(tx.data) = ResponseLen
      BY <1>1, <1>3, <1>4, <1>11
    <3>2. tx.owed - 1 > 0 /\ tx.owed - 1 + (Len(tx.data) + 1) = ResponseLen
      BY <3>1, SMT
    <3>3. tx'.owed = tx.owed - 1 /\ Len(tx'.data) = Len(tx.data) + 1
      BY <1>7, <2>1
    <3> QED BY <3>2, <3>3
  <2>3. rd' = [status |-> call.op.cmd = "status", addr |-> ChunkAddr + Len(tx'.data), left |-> tx'.owed]
    <3>1. rd' = [status |-> call.op.cmd = "status", addr |-> ChunkAddr + Len(tx.data) + 1, left |-> tx.owed - 1]
      BY <1>1, <1>3
    <3>2. ChunkAddr + Len(tx.data) + 1 = ChunkAddr + Len(tx'.data)
      BY <1>4, <1>5, <1>7, <2>1, SMT
    <3> QED BY <2>1, <3>1, <3>2
  <2>4. Serving'
    BY <1>2, <1>10, <2>1, <2>2, <2>3, BoardKeepsCall DEF Serving
  <2> QED BY <1>1, <1>2, <1>6, <2>1, <2>4 DEF data
<1>12. CASE tx.owed = 1
  <2>1. answers' = answers \o Bytes(t) /\ tx' = NoTx /\ fsm' = "idle"
    <3>1. rd.left = 1
      BY <1>3, <1>12
    <3> QED BY <1>1, <1>12, <3>1
  <2>2. t.len = h.len /\ Len(t.data) = t.len
    BY <1>3, <1>4, <1>7, <1>8, <1>9, <1>12, SMT
  <2>3. Quiet'
    BY <1>10, <2>1 DEF Quiet
  <2>4. /\ AnswerHead' = h /\ AnswerTail' = t
        /\ call'.at = "tail" \/ AtStart'
        /\ IF call'.at = "tail"
           THEN answers' # << >> /\ answers' = Bytes(answers'[1].of)
           ELSE Len(answers') > 6 /\ answers' = Bytes(answers'[1].of) \o Bytes(answers'[7].of)
    <3>1. CASE call.at = "head" /\ answers = Bytes(h)
      <4>1. answers' = Bytes(h) \o Bytes(t)
        BY <2>1, <3>1
      <4>2. answers'[1] = [of |-> h, at |-> 1] /\ answers'[7] = [of |-> t, at |-> 1] /\ Len(answers') > 6
        BY <1>8, <1>9, <4>1, BytesOfAnswer
      <4>3. answers'[1].of = h /\ answers'[7].of = t
        BY <4>2
      <4>4. call'.at = "head" /\ AtStart'
        BY <1>3, <3>1, BoardKeepsCall DEF AtStart
      <4> QED BY <4>1, <4>2, <4>3, <4>4 DEF AnswerHead, AnswerTail
    <3>2. CASE call.at = "tail" /\ answers = << >> /\ call.head = <<h>>
      <4>1. answers' = Bytes(t)
        <5>1. Bytes(t) \in Seq(Octets)
          BY <1>9, BytesOfPiece
        <5> QED BY <2>1, <3>2, <5>1, ConcatEmptySeq
      <4>2. 1 \in 1..Size(t) /\ answers' # << >>
        BY <1>9, <4>1, BytesOfPiece, SMT
      <4>3. answers'[1] = [of |-> t, at |-> 1]
        BY <1>9, <4>1, <4>2, BytesOfPiece
      <4>4. answers'[1].of = t
        BY <4>3
      <4>5. call'.at = "tail" /\ call'.head[1] = h
        BY <3>2, BoardKeepsCall
      <4> QED BY <4>1, <4>2, <4>4, <4>5 DEF AnswerHead, AnswerTail
    <3> QED BY <1>2, <3>1, <3>2 DEF Serving
  <2>5. Heard'
    BY <1>3, <1>9, <1>10, <2>2, <2>3, <2>4, BoardKeepsCall DEF Heard
  <2> QED BY <1>1, <1>2, <1>6, <1>8, <1>9, <2>4, <2>5 DEF data
<1> QED
  BY <1>11, <1>12

\* Every step of the board takes an exchange from one phase to the next.
LEMMA BoardExchange == Typed /\ InPhase /\ Board => InPhase'
<1> SUFFICES ASSUME Typed, InPhase, Board PROVE InPhase'
  OBVIOUS
<1>1. CASE PacketArrives
  BY <1>1, StepArrives DEF InPhase
<1>2. CASE PacketMissed
  BY <1>2, StepMissed DEF InPhase
<1>3. CASE WordArrives
  BY <1>3, StepWord DEF InPhase
<1>4. CASE CrcFails
  BY <1>4, StepCrcFails DEF InPhase
<1>5. CASE PacketDone
  BY <1>5, StepDone DEF InPhase
<1>6. CASE Answer
  <2>1. CASE Owing'
    BY <2>1 DEF InPhase
  <2>2. CASE ReceiverOpen /\ ReceiverOpen' /\ UNCHANGED <<line, fsm, pending, tx, rd, answers, call>>
    <3>1. Resting \/ Sent \/ Serving \/ Heard \/ Silent
      BY <2>2, <1>6 DEF InPhase, Taken, Working, Holding, Owing, ReceiverOpen, Answer
    <3> QED BY <2>2, <3>1, OpenPhases DEF InPhase
  <2> QED BY <1>6, <2>1, <2>2, StepAnswer
<1>7. CASE WriteResponse
  BY <1>7, StepWritten DEF InPhase
<1>8. CASE ValidateResponse
  BY <1>8, StepValidated DEF InPhase
<1>9. CASE ServeWord
  BY <1>9, StepServes DEF InPhase
<1>10. CASE IssueAnswer
  BY <1>10, TypedBoard, StepIssues DEF InPhase
<1>11. CASE KernelEnds
  BY <1>11, SamePhases, BoardKeepsCall DEF InPhase, KernelEnds
<1> QED
  BY <1>1, <1>2, <1>3, <1>4, <1>5, <1>6, <1>7, <1>8, <1>9, <1>10, <1>11 DEF Board, BoardStep
-----------------------------------------------------------------------------
(***************************************************************************)
(* From phase to phase: the host.                                          *)
(***************************************************************************)
\* An answer on its way: what is left of it, and what its pieces are.
LEMMA AnswerHeard ==
  ASSUME Typed, Heard
  PROVE  /\ AnswerHead \in Pieces /\ ~AnswerHead.tail /\ AnswerTail \in Pieces /\ AnswerTail.tail
         /\ AnswerTail.len = AnswerHead.len /\ Size(AnswerTail) = 4 * AnswerHead.len + 1
         /\ answers # << >> /\ Len(answers) \in Nat /\ Len(answers) > 0
         /\ call.at = "tail" =>
              /\ answers = Bytes(AnswerTail) /\ Len(answers) = Size(AnswerTail)
              /\ answers[1] = [of |-> AnswerTail, at |-> 1] /\ TailBytes = Size(AnswerTail)
         /\ call.at # "tail" =>
              /\ answers = Bytes(AnswerHead) \o Bytes(AnswerTail)
              /\ Len(answers) = 6 + Size(AnswerTail)
              /\ answers[1] = [of |-> AnswerHead, at |-> 1]
              /\ answers[7] = [of |-> AnswerTail, at |-> 1]
              /\ SubSeq(answers, 7, Len(answers)) = Bytes(AnswerTail)
<1>1. TypeOK /\ CallInv
  BY DEF Typed
<1>2. answers # << >> /\ Len(answers) \in Nat /\ Len(answers) > 0
  <2>1. answers \in Seq(Octets) /\ Len(answers) \in Nat
    BY <1>1, FrontTypes
  <2>2. CASE call.at = "tail"
    <3>1. answers # << >>
      BY <2>2 DEF Heard
    <3> QED BY <2>1, <3>1, NotEmpty
  <2>3. CASE call.at # "tail"
    <3>1. Len(answers) > 6
      BY <2>3 DEF Heard
    <3>2. Len(answers) > 0
      BY <2>1, <3>1, SMT
    <3> QED BY <2>1, <3>2, NotEmpty
  <2> QED BY <2>2, <2>3
<1>3. ~AnswerHead.tail /\ AnswerTail.tail /\ AnswerTail.len = AnswerHead.len
  <2>1. AnswerTail.tail /\ AnswerTail.len = AnswerHead.len
    BY DEF Heard
  <2>2. \/ AnswerHead = ResponseHeader
        \/ AnswerHead = Header("ack", ChunkAddr, 0)
        \/ AnswerHead = Header("nak", AnswerHead.addr, 0)
    BY DEF Heard
  <2> QED BY <2>1, <2>2 DEF ResponseHeader, Header
<1>4. AnswerHead \in Pieces /\ AnswerTail \in Pieces
  <2>1. 1 \in 1..Len(answers)
    BY <1>2, SMT
  <2>2. answers[1].of \in Pieces
    BY <1>1, <2>1, FrontTypes
  <2>3. CASE call.at = "tail"
    BY <1>1, <2>2, <2>3, HeadTypes DEF AnswerHead, AnswerTail
  <2>4. CASE call.at # "tail"
    <3>1. Len(answers) > 6
      BY <2>4 DEF Heard
    <3>2. 7 \in 1..Len(answers)
      BY <1>2, <3>1, SMT
    <3>3. answers[7].of \in Pieces
      BY <1>1, <3>2, FrontTypes
    <3> QED BY <2>2, <2>4, <3>3 DEF AnswerHead, AnswerTail
  <2> QED BY <2>3, <2>4
<1>5. Size(AnswerTail) = 4 * AnswerHead.len + 1 /\ Size(AnswerTail) \in Nat \ {0}
  <2>1. Size(AnswerTail) = 4 * AnswerTail.len + 1 /\ Size(AnswerTail) \in Nat \ {0}
    BY <1>3, <1>4, BytesOfPiece
  <2> QED BY <1>3, <2>1
<1>6. ASSUME call.at = "tail"
      PROVE  /\ answers = Bytes(AnswerTail) /\ Len(answers) = Size(AnswerTail)
             /\ answers[1] = [of |-> AnswerTail, at |-> 1] /\ TailBytes = Size(AnswerTail)
  <2>1. answers = Bytes(AnswerTail) /\ AnswerHead = call.head[1]
    BY <1>6 DEF Heard, AnswerTail, AnswerHead
  <2>2. Len(Bytes(AnswerTail)) = Size(AnswerTail)
    BY <1>4, BytesOfPiece
  <2>3. 1 \in 1..Size(AnswerTail)
    BY <1>5, SMT
  <2>4. Bytes(AnswerTail)[1] = [of |-> AnswerTail, at |-> 1]
    BY <1>4, <2>3, BytesOfPiece
  <2>5. TailBytes = 4 * AnswerHead.len + 1
    BY <2>1 DEF TailBytes
  <2> QED BY <1>5, <2>1, <2>2, <2>4, <2>5
<1>7. ASSUME call.at # "tail"
      PROVE  /\ answers = Bytes(AnswerHead) \o Bytes(AnswerTail)
             /\ Len(answers) = 6 + Size(AnswerTail)
             /\ answers[1] = [of |-> AnswerHead, at |-> 1]
             /\ answers[7] = [of |-> AnswerTail, at |-> 1]
             /\ SubSeq(answers, 7, Len(answers)) = Bytes(AnswerTail)
  <2>1. answers = Bytes(AnswerHead) \o Bytes(AnswerTail)
    BY <1>7 DEF Heard, AnswerTail, AnswerHead
  <2>2. AnswerHead \in Pieces /\ AnswerTail \in Pieces /\ ~AnswerHead.tail /\ AnswerTail.tail
    BY <1>3, <1>4
  <2> DEFINE h == AnswerHead
             t == AnswerTail
  <2>3. h \in Pieces /\ t \in Pieces /\ ~h.tail /\ t.tail /\ answers = Bytes(h) \o Bytes(t)
    BY <2>1, <2>2
  <2> HIDE DEF h, t
  <2>4. /\ Len(answers) = 6 + Size(t) /\ answers[1] = [of |-> h, at |-> 1]
        /\ answers[7] = [of |-> t, at |-> 1] /\ SubSeq(answers, 7, Len(answers)) = Bytes(t)
    BY <2>3, BytesOfAnswer
  <2> QED BY <2>1, <2>4 DEF h, t
<1> QED
  BY <1>2, <1>3, <1>4, <1>5, <1>6, <1>7

\* Of the phases, only an answer or the header of one leaves bytes to read.
LEMMA BytesToRead ==
  ASSUME Typed, InPhase, answers # << >>
  PROVE  \/ Heard
         \/ /\ Serving /\ call.at = "head" /\ ResponseHeader \in Pieces
            /\ answers = Bytes(ResponseHeader) /\ Len(answers) = 6
            /\ answers[1] = [of |-> ResponseHeader, at |-> 1] /\ ~ResponseHeader.tail
<1>1. CASE Heard
  BY <1>1
<1>2. CASE Serving /\ call.at = "head"
  <2>1. answers = Bytes(ResponseHeader) /\ ~ResponseHeader.tail
    BY <1>2 DEF Serving, ResponseHeader, Header
  <2>2. ResponseHeader \in Pieces
    <3>1. Chunk \in Seq(Value) /\ ChunkAddr \in Nat /\ call.op.cmd \in Commands
      BY <1>2, ChunkWords DEF Typed
    <3>2. Len(Chunk) \in Nat
      BY <3>1, LenProperties
    <3>3. ResponseLen \in Nat /\ ChunkAddr \in Int
      BY <3>1, <3>2, SMT DEF ResponseLen
    <3> QED BY <3>1, <3>3, PieceTypes DEF ResponseHeader
  <2>3. Size(ResponseHeader) = 6 /\ Len(Bytes(ResponseHeader)) = 6
    BY <2>1, <2>2, BytesOfPiece
  <2>4. 1 \in 1..Size(ResponseHeader)
    BY <2>3, SMT
  <2>5. Bytes(ResponseHeader)[1] = [of |-> ResponseHeader, at |-> 1]
    BY <2>2, <2>4, BytesOfPiece
  <2> QED BY <1>2, <2>1, <2>2, <2>3, <2>5
<1> QED
  BY <1>1, <1>2, WhichPhase

\* At the end of an attempt the host rests, in this call or after it.
LEMMA Rested ==
  ASSUME Typed, call.at # "none", Reading, answers' = << >>, line = << >>, ReceiverOpen, Quiet,
         Retry \/ \E data \in Seq(Datum) : ChunkDone(data) \/ Return(FALSE, data)
  PROVE  Resting'
<1>1. call' = NoCall \/ call'.at = "send"
  BY RetryTypes, ChunkDoneTypes, ReturnTypes DEF Typed
<1>2. call'.at \in {"none", "send"}
  BY <1>1 DEF NoCall
<1>3. line' = << >> /\ ReceiverOpen' /\ Quiet'
  BY DEF Reading, ReceiverOpen, Quiet
<1> QED
  BY <1>2, <1>3 DEF Resting, Silence

LEMMA StepBegins ==
  ASSUME Typed, InPhase, Begin
  PROVE  /\ Resting /\ Resting' /\ call = NoCall /\ UNCHANGED <<board, faults, last>>
         /\ seen' = seen \ {"started"}
         /\ \E op \in Op :
              /\ call' = [NoCall EXCEPT !.op = op, !.at = "send"]
              /\ call'.op = op /\ call'.at = "send" /\ call'.off = 0 /\ call'.tries = 0
              /\ call'.data = << >>
              /\ want' = IF op.cmd # "write" THEN want
                         ELSE [a \in Addr |-> IF a \in Covered(op) THEN Unknown ELSE want[a]]
<1>1. call = NoCall /\ UNCHANGED <<board, faults, last>> /\ seen' = seen \ {"started"}
  BY DEF Begin
<1>2. Resting
  <2>1. call.at = "none"
    BY <1>1 DEF NoCall
  <2> QED BY <2>1, WhichPhase
<1>3. PICK op \in Op :
        /\ call' = [NoCall EXCEPT !.op = op, !.at = "send"]
        /\ want' = IF op.cmd # "write" THEN want
                   ELSE [a \in Addr |-> IF a \in Covered(op) THEN Unknown ELSE want[a]]
  BY DEF Begin
<1>4. call'.op = op /\ call'.at = "send" /\ call'.off = 0 /\ call'.tries = 0 /\ call'.data = << >>
  BY <1>3 DEF NoCall
<1>5. Resting'
  BY <1>1, <1>2, <1>4 DEF Resting, Silence, ReceiverOpen, Quiet, board
<1> QED
  BY <1>1, <1>2, <1>3, <1>4, <1>5

LEMMA StepSends ==
  ASSUME Typed, InPhase, Send
  PROVE  /\ Resting /\ Sent' /\ line' = <<Packet>>
         /\ call' = [call EXCEPT !.at = IF call.op.cmd \in Reads THEN "head" ELSE "ack"]
         /\ UNCHANGED <<rx, wordsSeen, fsm, rd, tx, hold, pending, memDone, mem, gate, busy, answers>>
         /\ UNCHANGED <<call.op, call.off, call.tries, call.data, call.head>>
         /\ UNCHANGED <<calls, faults, want, last, seen>>
<1>1. /\ call.at = "send" /\ line' = Append(line, Packet)
      /\ call' = [call EXCEPT !.at = IF call.op.cmd \in Reads THEN "head" ELSE "ack"]
      /\ UNCHANGED <<rx, wordsSeen, fsm, rd, tx, hold, pending, memDone, mem, gate, busy, answers>>
      /\ UNCHANGED <<calls, faults, want, last, seen>>
  BY DEF Send
<1>2. Resting
  BY <1>1, WhichPhase
<1>3. line' = <<Packet>> /\ Len(line') = 1 /\ line'[1] = Packet
  <2>1. line' = Append(<< >>, Packet)
    BY <1>1, <1>2 DEF Resting, Silence
  <2> QED BY <2>1, SMT
<1>4. /\ call'.op = call.op /\ call'.off = call.off /\ call'.tries = call.tries
      /\ call'.data = call.data /\ call'.head = call.head
      /\ call'.at = IF call.op.cmd \in Reads THEN "head" ELSE "ack"
  BY <1>1 DEF Typed, TypeOK, HostTypes, CallTypes
<1>5. Chunk' = Chunk /\ ChunkAddr' = ChunkAddr
  BY <1>4, SameChunk
<1>6. AtStart' /\ Asks(line[1])'
  BY <1>3, <1>4, <1>5 DEF AtStart, Asks, Packet
<1>7. Sent'
  BY <1>1, <1>2, <1>3, <1>6 DEF Sent, Resting, Silence, ReceiverOpen, Quiet
<1> QED
  BY <1>1, <1>2, <1>3, <1>4, <1>7

\* The seven bytes of an acknowledgement are all there is.
LEMMA StepHearsAck ==
  ASSUME Typed, InPhase, ReceiveAck
  PROVE  /\ Heard /\ Resting' /\ call.at = "ack" /\ call.op.cmd \notin Reads
         /\ IF AnswerHead.cmd = "ack" /\ AnswerTail.ok THEN ChunkDone(<< >>) ELSE Retry
         /\ Reading /\ seen' = seen
<1>1. /\ call.at = "ack" /\ Available >= 7 /\ Consume(7) /\ Reading /\ seen' = seen
      /\ IF IsAck THEN ChunkDone(<< >>) ELSE Retry
  BY DEF ReceiveAck
<1>2. call.op.cmd \notin Reads /\ call.at # "none"
  BY <1>1 DEF Typed, CallInv
<1>3. Heard
  <2>1. answers \in Seq(Octets) /\ Len(answers) \in Nat
    BY FrontTypes DEF Typed
  <2>2. Len(answers) > 0
    BY <1>1, <2>1, SMT DEF Available
  <2>3. answers # << >>
    BY <2>1, <2>2, NotEmpty
  <2> QED BY <1>1, <2>3, BytesToRead
<1>4. \/ AnswerHead = Header("ack", ChunkAddr, 0)
      \/ AnswerHead = Header("nak", AnswerHead.addr, 0)
  BY <1>2, <1>3 DEF Heard
<1>5. AnswerHead.len = 0 /\ ~AnswerHead.tail
      /\ (AnswerHead.cmd = "ack" => AnswerHead.addr = ChunkAddr)
  BY <1>4 DEF Header
<1>6. /\ Size(AnswerTail) = 4 * AnswerHead.len + 1 /\ answers # << >>
      /\ Len(answers) = 6 + Size(AnswerTail)
      /\ answers[1] = [of |-> AnswerHead, at |-> 1]
      /\ answers[7] = [of |-> AnswerTail, at |-> 1]
  BY <1>1, <1>3, AnswerHeard
<1>7. Len(answers) = 7
  BY <1>5, <1>6, SMT
<1>8. answers' = << >>
  <2>1. answers \in Seq(Octets) /\ 7 \in Nat
    BY FrontTypes, SMT DEF Typed
  <2>2. answers' = SubSeq(answers, 7 + 1, Len(answers))
    BY <1>1 DEF Consume
  <2> QED BY <1>7, <2>1, <2>2, Consumed
<1>9. IsAck <=> AnswerHead.cmd = "ack" /\ AnswerTail.ok
  <2>1. answers[1].of = AnswerHead /\ answers[1].at = 1 /\ answers[7].of = AnswerTail
    BY <1>6
  <2> QED BY <1>5, <1>6, <2>1 DEF IsAck, Aligned
<1>10. IF AnswerHead.cmd = "ack" /\ AnswerTail.ok THEN ChunkDone(<< >>) ELSE Retry
  BY <1>1, <1>9
<1>11. Resting'
  <2>1. line = << >> /\ ReceiverOpen /\ Quiet /\ << >> \in Seq(Datum)
    BY <1>3, EmptySeq DEF Heard
  <2> QED BY <1>1, <1>2, <1>8, <1>10, <2>1, Rested
<1> QED
  BY <1>1, <1>2, <1>3, <1>10, <1>11

\* The header is taken off the answer, whose tail may be there or still come.
LEMMA StepHearsHead ==
  ASSUME Typed, InPhase, ReceiveHead
  PROVE  /\ call.at = "head" /\ call'.at = "tail" /\ Reading
         /\ UNCHANGED <<call.op, call.off, call.tries, call.data>> /\ UNCHANGED <<last, want, seen>>
         /\ \/ Serving /\ Serving'
            \/ Heard /\ Heard' /\ AnswerHead' = AnswerHead /\ AnswerTail' = AnswerTail
<1>1. /\ call.at = "head" /\ Available >= 6 /\ Consume(6) /\ Reading /\ seen' = seen
      /\ IF Aligned
         THEN /\ call' = [call EXCEPT !.at = "tail", !.head = <<answers[1].of>>]
              /\ UNCHANGED <<last, want>>
         ELSE Retry
  BY DEF ReceiveHead
<1>2. answers # << >> /\ answers \in Seq(Octets) /\ Len(answers) \in Nat
  <2>1. answers \in Seq(Octets) /\ Len(answers) \in Nat
    BY FrontTypes DEF Typed
  <2>2. Len(answers) > 0
    BY <1>1, <2>1, SMT DEF Available
  <2> QED BY <2>1, <2>2, NotEmpty
<1>3. Heard \/ (/\ Serving /\ answers = Bytes(ResponseHeader) /\ Len(answers) = 6
                /\ answers[1] = [of |-> ResponseHeader, at |-> 1] /\ ~ResponseHeader.tail)
  BY <1>2, BytesToRead
<1>4. answers' = SubSeq(answers, 7, Len(answers))
  <2>1. 6 + 1 = 7
    BY SMT
  <2> QED BY <1>1, <2>1 DEF Consume
<1>5. ASSUME NEW piece, answers[1] = [of |-> piece, at |-> 1], ~piece.tail
      PROVE  /\ call'.at = "tail" /\ call'.head = <<piece>> /\ call'.head[1] = piece
             /\ UNCHANGED <<call.op, call.off, call.tries, call.data>> /\ UNCHANGED <<last, want>>
             /\ UNCHANGED <<Chunk, ChunkAddr, ResponseLen, ResponseHeader>>
  <2>1. Aligned /\ answers[1].of = piece
    BY <1>2, <1>5 DEF Aligned
  <2>2. call' = [call EXCEPT !.at = "tail", !.head = <<piece>>] /\ UNCHANGED <<last, want>>
    BY <1>1, <2>1
  <2>3. /\ call'.at = "tail" /\ call'.head = <<piece>>
        /\ UNCHANGED <<call.op, call.off, call.tries, call.data>>
    BY <2>2 DEF Typed, TypeOK, HostTypes, CallTypes
  <2>4. UNCHANGED <<Chunk, ChunkAddr, ResponseLen, ResponseHeader>>
    BY <2>3, SameChunk
  <2> QED BY <2>2, <2>3, <2>4
<1>6. CASE Serving /\ answers = Bytes(ResponseHeader) /\ Len(answers) = 6
           /\ answers[1] = [of |-> ResponseHeader, at |-> 1] /\ ~ResponseHeader.tail
  <2>1. answers' = << >>
    <3>1. SubSeq(answers, 6 + 1, Len(answers)) = << >>
      BY <1>2, <1>6, Consumed
    <3> QED BY <1>1, <3>1 DEF Consume
  <2>2. /\ call'.at = "tail" /\ call'.head = <<ResponseHeader>>
        /\ UNCHANGED <<call.op, call.off, call.tries, call.data>> /\ UNCHANGED <<last, want>>
        /\ UNCHANGED <<Chunk, ChunkAddr, ResponseLen, ResponseHeader>>
    BY <1>5, <1>6
  <2>3. Serving'
    BY <1>1, <1>6, <2>1, <2>2 DEF Serving, ReceiverOpen, Reading
  <2> QED BY <1>1, <1>6, <2>2, <2>3
<1>7. CASE Heard
  <2> DEFINE h == AnswerHead
             t == AnswerTail
  <2>1. /\ t \in Pieces /\ ~h.tail /\ answers[1] = [of |-> h, at |-> 1]
        /\ SubSeq(answers, 7, Len(answers)) = Bytes(t)
    BY <1>1, <1>7, AnswerHeard
  <2>2. t.tail /\ t.len = h.len /\ Len(t.data) = t.len /\ line = << >> /\ ReceiverOpen /\ Quiet
        /\ (\/ call.op.cmd \in Reads /\ h = ResponseHeader
            \/ call.op.cmd \notin Reads /\ h = Header("ack", ChunkAddr, 0)
            \/ h = Header("nak", h.addr, 0))
    BY <1>7 DEF Heard
  <2> HIDE DEF h, t
  <2>3. /\ call'.at = "tail" /\ call'.head = <<h>> /\ call'.head[1] = h
        /\ UNCHANGED <<call.op, call.off, call.tries, call.data>> /\ UNCHANGED <<last, want>>
        /\ UNCHANGED <<Chunk, ChunkAddr, ResponseLen, ResponseHeader>>
    BY <1>5, <2>1
  <2>4. answers' = Bytes(t) /\ answers' # << >> /\ answers'[1] = [of |-> t, at |-> 1]
    <3>1. Bytes(t) # << >> /\ Size(t) \in Nat \ {0}
      BY <2>1, BytesOfPiece
    <3>2. 1 \in 1..Size(t)
      BY <3>1, SMT
    <3>3. Bytes(t)[1] = [of |-> t, at |-> 1]
      BY <2>1, <3>2, BytesOfPiece
    <3> QED BY <1>4, <2>1, <3>1, <3>3
  <2>5. answers'[1].of = t
    BY <2>4
  <2>6. AnswerHead' = h /\ AnswerTail' = t
    BY <2>3, <2>5 DEF AnswerHead, AnswerTail
  <2>7. line' = << >> /\ ReceiverOpen' /\ Quiet'
    BY <1>1, <2>2 DEF Reading, ReceiverOpen, Quiet
  <2>8. Heard'
    BY <2>2, <2>3, <2>4, <2>5, <2>6, <2>7 DEF Heard
  <2> QED BY <1>1, <1>7, <2>3, <2>6, <2>8 DEF h, t
<1> QED
  BY <1>3, <1>6, <1>7

\* The tail is as long as its header says; what the host makes of it depends
\* on its checksum and on whether it is the response to its packet or a NAK.
LEMMA StepHearsTail ==
  ASSUME Typed, InPhase, ReceiveTail
  PROVE  /\ Heard /\ Resting' /\ call.at = "tail" /\ call.op.cmd \in Reads
         /\ AnswerTail.data \in Seq(Datum) /\ Len(AnswerTail.data) = AnswerHead.len
         /\ AnswerHead.cmd = call.op.cmd => AnswerHead = ResponseHeader
         /\ AnswerHead.cmd \in {call.op.cmd, "nak"}
         /\ IF ~AnswerTail.ok THEN Retry
            ELSE IF AnswerHead.cmd = call.op.cmd THEN ChunkDone(AnswerTail.data)
            ELSE Return(FALSE, << >>)
         /\ Reading /\ seen' = seen
<1>1. /\ call.at = "tail" /\ Available >= TailBytes /\ Consume(TailBytes) /\ Reading /\ seen' = seen
      /\ IF ~(AtTail /\ Size(answers[1].of) = TailBytes /\ answers[1].of.ok)
         THEN Retry
         ELSE IF IsResponse THEN ChunkDone(answers[1].of.data) ELSE Return(FALSE, << >>)
  BY DEF ReceiveTail
<1>2. call.op.cmd \in Reads /\ call.at # "none"
  BY <1>1 DEF Typed, CallInv
<1>3. answers \in Seq(Octets) /\ Len(answers) \in Nat /\ TailBytes \in Nat \ {0}
  <2>1. TailBytes \in Nat \ {0}
    BY <1>1, HeadTypes DEF Typed
  <2> QED BY <2>1, FrontTypes DEF Typed
<1>4. Heard
  <2>1. Len(answers) > 0
    BY <1>1, <1>3, SMT DEF Available
  <2>2. answers # << >>
    BY <1>3, <2>1, NotEmpty
  <2> QED BY <1>1, <2>2, BytesToRead
<1>5. /\ AnswerTail \in Pieces /\ AnswerTail.tail /\ answers # << >>
      /\ Len(answers) = Size(AnswerTail) /\ TailBytes = Size(AnswerTail)
      /\ answers[1] = [of |-> AnswerTail, at |-> 1]
  BY <1>1, <1>4, AnswerHeard
<1>6. answers' = << >>
  <2>1. answers' = SubSeq(answers, TailBytes + 1, Len(answers)) /\ TailBytes = Len(answers)
    BY <1>1, <1>5 DEF Consume
  <2> QED BY <1>3, <2>1, Consumed
<1>7. answers[1].of = AnswerTail /\ answers[1].at = 1
  BY <1>5
<1>8. AtTail /\ Size(answers[1].of) = TailBytes
  BY <1>5, <1>7 DEF AtTail
<1>9. /\ AnswerTail.data \in Seq(Datum) /\ Len(AnswerTail.data) = AnswerHead.len
      /\ AnswerHead = call.head[1]
  <2>1. AnswerTail.data \in Seq(Datum)
    BY <1>5 DEF Pieces
  <2> QED BY <1>1, <1>4, <2>1 DEF Heard, AnswerHead
<1>10. \/ AnswerHead = ResponseHeader
       \/ AnswerHead = Header("nak", AnswerHead.addr, 0)
  BY <1>2, <1>4 DEF Heard
<1>11. AnswerHead.cmd = call.op.cmd => AnswerHead = ResponseHeader
  BY <1>2, <1>10 DEF Header, Reads
<1>12. AnswerHead.cmd \in {call.op.cmd, "nak"}
  BY <1>10 DEF Header, ResponseHeader
<1>13. IsResponse <=> AnswerHead.cmd = call.op.cmd
  <2>1. AnswerHead = ResponseHeader => AnswerHead.addr = ChunkAddr /\ AnswerHead.len = ResponseLen
    BY DEF ResponseHeader, Header
  <2>2. call.op.cmd = "read" => ResponseLen = Len(Chunk)
    BY DEF ResponseLen
  <2> QED BY <1>9, <1>11, <2>1, <2>2 DEF IsResponse
<1>14. IF ~AnswerTail.ok THEN Retry
       ELSE IF AnswerHead.cmd = call.op.cmd THEN ChunkDone(AnswerTail.data)
       ELSE Return(FALSE, << >>)
  BY <1>1, <1>7, <1>8, <1>13
<1>15. Resting'
  <2>1. line = << >> /\ ReceiverOpen /\ Quiet /\ << >> \in Seq(Datum)
    BY <1>4, EmptySeq DEF Heard
  <2> QED BY <1>1, <1>2, <1>6, <1>9, <1>14, <2>1, Rested
<1> QED
  BY <1>1, <1>2, <1>4, <1>9, <1>11, <1>12, <1>14, <1>15

\* The host gives up in time only when nothing is left of its packet.
LEMMA StepTimesOut ==
  ASSUME Typed, InPhase, TimesOut, "late" \notin seen'
  PROVE  Silent /\ Resting' /\ Retry /\ Reading /\ seen' = seen /\ rx.st = "idle"
<1>1. /\ call.at \in {"ack", "head", "tail"} /\ Stalled /\ answers' = << >> /\ Retry /\ Reading
      /\ seen' = seen \cup (IF tx # NoTx \/ rx.st = "wait" \/ answers # << >> THEN {"late"} ELSE {})
  BY DEF TimesOut
<1>2. tx = NoTx /\ rx.st # "wait" /\ answers = << >> /\ seen' = seen
  <2>1. ~(tx # NoTx \/ rx.st = "wait" \/ answers # << >>)
    BY <1>1
  <2> QED BY <1>1, <2>1
<1>3. line = << >> /\ rx.st = "idle" /\ fsm # "validate" /\ ~(fsm = "idle" /\ pending # NoAnswer)
  BY <1>1, <1>2 DEF Stalled
<1>4. ~Heard
  BY <1>2, AnswerHeard
<1>5. ~Serving
  <2>1. Serving => tx # NoTx
    <3>1. tx.owed > 0 => tx.owed # 0
      BY SMT DEF Typed, TypeOK, BoardTypes
    <3> QED BY <3>1 DEF Serving, NoTx
  <2> QED BY <1>2, <2>1
<1>6. Silent
  <2>1. ~Resting
    BY <1>1 DEF Resting
  <2>2. ~Sent
    <3>1. Len(line) # 1
      BY <1>3, EmptySeq
    <3> QED BY <3>1 DEF Sent
  <2>3. ~Taken /\ ~Working /\ ~Holding
    BY <1>3 DEF Taken, Working, Holding
  <2>4. ~Owing
    BY <1>3 DEF Owing
  <2> QED BY <1>4, <1>5, <2>1, <2>2, <2>3, <2>4 DEF InPhase
<1>7. Resting'
  BY <1>1, <1>2, <1>6, Rested DEF Silent, Silence
<1> QED
  BY <1>1, <1>2, <1>3, <1>6, <1>7

-----------------------------------------------------------------------------
(***************************************************************************)
(* From phase to phase: the line.                                          *)
(***************************************************************************)
LEMMA StepLoses ==
  ASSUME Typed, InPhase, LoseRequest
  PROVE  /\ Sent /\ Silent' /\ seen' = seen
         /\ UNCHANGED <<rx, wordsSeen, fsm, rd, tx, hold, pending, memDone, mem, gate, busy, answers>>
         /\ UNCHANGED <<call, calls, want, last>>
<1>1. /\ line # << >> /\ line' = Tail(line) /\ seen' = seen
      /\ UNCHANGED <<rx, wordsSeen, fsm, rd, tx, hold, pending, memDone, mem, gate, busy, answers>>
      /\ UNCHANGED <<call, calls, want, last>>
  BY DEF LoseRequest
<1>2. Sent
  BY <1>1, WhichPhase
<1>3. /\ Tail(line) \in Seq(Packets) /\ Len(Tail(line)) = Len(line) - 1 /\ Len(line) = 1
  BY <1>1, <1>2, FirstPacket DEF Sent, Typed, TypeOK
<1>4. Tail(line) = << >>
  <2>1. Len(Tail(line)) = 0
    BY <1>3, SMT
  <2> QED BY <1>3, <2>1, NotEmpty
<1>5. Silent'
  BY <1>1, <1>2, <1>4 DEF Sent, Silent, Silence, ReceiverOpen, Quiet, AtStart
<1> QED
  BY <1>1, <1>2, <1>5

LEMMA StepCorrupts ==
  ASSUME Typed, InPhase, CorruptRequest
  PROVE  /\ Sent /\ Sent' /\ ~line'[1].crc /\ line' # << >> /\ seen' = seen
         /\ UNCHANGED <<rx, wordsSeen, fsm, rd, tx, hold, pending, memDone, mem, gate, busy, answers>>
         /\ UNCHANGED <<call, calls, want, last>>
<1> DEFINE p == Head(line)
<1>1. /\ line # << >> /\ seen' = seen
      /\ \/ line' = <<[p EXCEPT !.crc = FALSE]>> \o Tail(line)
         \/ \E a \in Addr : line' = <<[p EXCEPT !.crc = FALSE, !.addr = a]>> \o Tail(line)
      /\ UNCHANGED <<rx, wordsSeen, fsm, rd, tx, hold, pending, memDone, mem, gate, busy, answers>>
      /\ UNCHANGED <<call, calls, want, last>>
  BY DEF CorruptRequest
<1>2. Sent
  BY <1>1, WhichPhase
<1>3. /\ Tail(line) \in Seq(Packets) /\ Len(Tail(line)) = Len(line) - 1 /\ Len(line) = 1
      /\ p \in Packets /\ p = line[1]
  BY <1>1, <1>2, FirstPacket DEF Sent, Typed, TypeOK
<1>4. Tail(line) = << >>
  <2>1. Len(Tail(line)) = 0
    BY <1>3, SMT
  <2> QED BY <1>3, <2>1, NotEmpty
<1>5. p.cmd = call.op.cmd /\ p.words = Chunk
  BY <1>2, <1>3 DEF Sent, Asks
<1> HIDE DEF p
<1>6. PICK q : line' = <<q>> \o << >> /\ ~q.crc /\ q.cmd = p.cmd /\ q.words = p.words
  <2>1. CASE line' = <<[p EXCEPT !.crc = FALSE]>> \o Tail(line)
    <3> DEFINE r == [p EXCEPT !.crc = FALSE]
    <3>1. ~r.crc /\ r.cmd = p.cmd /\ r.words = p.words
      BY <1>3 DEF Packets
    <3> HIDE DEF r
    <3>2. line' = <<r>> \o << >>
      BY <1>4, <2>1 DEF r
    <3> QED BY <3>1, <3>2
  <2>2. ASSUME NEW a \in Addr, line' = <<[p EXCEPT !.crc = FALSE, !.addr = a]>> \o Tail(line)
        PROVE  \E q : line' = <<q>> \o << >> /\ ~q.crc /\ q.cmd = p.cmd /\ q.words = p.words
    <3> DEFINE r == [p EXCEPT !.crc = FALSE, !.addr = a]
    <3>1. ~r.crc /\ r.cmd = p.cmd /\ r.words = p.words
      BY <1>3 DEF Packets
    <3>2. line' = <<r>> \o << >>
      BY <1>4, <2>2
    <3> HIDE DEF r
    <3> QED BY <3>1, <3>2
  <2> QED BY <1>1, <2>1, <2>2
<1>7. line' = <<q>> /\ Len(line') = 1 /\ line'[1] = q /\ line' # << >>
  <2>1. <<q>> \in Seq({q})
    BY SMT
  <2>2. line' = <<q>>
    BY <1>6, <2>1, ConcatEmptySeq
  <2>3. Len(<<q>>) = 1 /\ <<q>>[1] = q
    OBVIOUS
  <2>4. <<q>> # << >>
    BY <2>3, EmptySeq
  <2> QED BY <2>2, <2>3, <2>4
<1>8. Asks(line[1])'
  <2>1. Chunk' = Chunk /\ call' = call
    BY <1>1 DEF Chunk, Rest
  <2> QED BY <1>5, <1>6, <1>7, <2>1 DEF Asks
<1>9. Sent'
  BY <1>1, <1>2, <1>7, <1>8 DEF Sent, ReceiverOpen, Quiet, AtStart
<1> QED
  BY <1>1, <1>2, <1>6, <1>7, <1>9

\* Only a whole answer is lost or garbled: its header has not been read.
LEMMA WholeIsHeard ==
  ASSUME Typed, InPhase, WholeAnswer
  PROVE  Heard /\ call.at # "tail" /\ AtStart /\ AnswerEnd = Len(answers)
<1>1. answers # << >> /\ ~answers[1].of.tail /\ Len(answers) > 6
  BY DEF WholeAnswer, Aligned
<1>2. Heard
  <2>1. Len(answers) # 6
    BY <1>1, FrontTypes, SMT DEF Typed
  <2> QED BY <1>1, <2>1, BytesToRead
<1>3. call.at # "tail"
  <2>1. call.at = "tail" => answers[1].of = AnswerTail /\ AnswerTail.tail
    BY <1>2, AnswerHeard
  <2> QED BY <1>1, <2>1
<1>4. Len(answers) = 6 + Size(AnswerTail) /\ answers[7].of = AnswerTail
  BY <1>2, <1>3, AnswerHeard
<1> QED
  BY <1>2, <1>3, <1>4 DEF AnswerEnd, Heard

LEMMA StepDrops ==
  ASSUME Typed, InPhase, LoseAnswer
  PROVE  /\ Heard /\ Silent' /\ seen' = seen \cup {"unheard"}
         /\ UNCHANGED <<line, rx, wordsSeen, fsm, rd, tx, hold, pending, memDone, mem, gate, busy>>
         /\ UNCHANGED <<call, calls, want, last>>
<1>1. /\ WholeAnswer /\ seen' = seen \cup {"unheard"}
      /\ answers' = SubSeq(answers, AnswerEnd + 1, Len(answers))
      /\ UNCHANGED <<line, rx, wordsSeen, fsm, rd, tx, hold, pending, memDone, mem, gate, busy>>
      /\ UNCHANGED <<call, calls, want, last>>
  BY DEF LoseAnswer
<1>2. Heard /\ AtStart /\ AnswerEnd = Len(answers)
  BY <1>1, WholeIsHeard
<1>3. answers' = << >>
  <2>1. answers \in Seq(Octets) /\ Len(answers) \in Nat
    BY FrontTypes DEF Typed
  <2>2. AnswerEnd \in Nat /\ AnswerEnd = Len(answers)
    BY <1>2, <2>1
  <2> QED BY <1>1, <2>1, <2>2, Consumed
<1>4. Silent'
  BY <1>1, <1>2, <1>3 DEF Heard, Silent, Silence, ReceiverOpen, Quiet, AtStart
<1> QED
  BY <1>1, <1>2, <1>4

LEMMA StepGarbles ==
  ASSUME Typed, InPhase, GarbleAnswer
  PROVE  /\ Heard /\ Heard' /\ AnswerHead' = AnswerHead /\ ~AnswerTail'.ok
         /\ seen' = seen \cup {"unheard"}
         /\ UNCHANGED <<line, rx, wordsSeen, fsm, rd, tx, hold, pending, memDone, mem, gate, busy>>
         /\ UNCHANGED <<call, calls, want, last>>
<1>1. /\ WholeAnswer /\ seen' = seen \cup {"unheard"}
      /\ answers' = [i \in DOMAIN answers |-> IF i \in 7..AnswerEnd
                                              THEN [answers[i] EXCEPT !.of = Garbled(@)] ELSE answers[i]]
      /\ UNCHANGED <<line, rx, wordsSeen, fsm, rd, tx, hold, pending, memDone, mem, gate, busy>>
      /\ UNCHANGED <<call, calls, want, last>>
  BY DEF GarbleAnswer
<1>2. Heard /\ AtStart /\ call.at # "tail" /\ AnswerEnd = Len(answers)
  BY <1>1, WholeIsHeard
<1> DEFINE h == AnswerHead
           t == AnswerTail
           g == Garbled(t)
<1>3. /\ h \in Pieces /\ t \in Pieces /\ ~h.tail /\ t.tail /\ t.len = h.len
      /\ answers = Bytes(h) \o Bytes(t) /\ Len(answers) = 6 + Size(t)
      /\ Len(t.data) = t.len
      /\ (\/ call.op.cmd \in Reads /\ h = ResponseHeader
          \/ call.op.cmd \notin Reads /\ h = Header("ack", ChunkAddr, 0)
          \/ h = Header("nak", h.addr, 0))
  BY <1>2, AnswerHeard DEF Heard
<1> HIDE DEF h, t
<1>4. /\ g \in Pieces /\ ~g.ok /\ g.tail /\ g.len = h.len /\ Size(g) = Size(t)
      /\ Len(g.data) = g.len
  BY <1>3, GarbledPiece
<1>5. answers' = Bytes(h) \o Bytes(g)
  <2> DEFINE n == Size(t)
             b == Bytes(h)
             c == Bytes(t)
             d == Bytes(g)
  <2>1. /\ b \in Seq(Octets) /\ Len(b) = 6 /\ n \in Nat
        /\ c \in Seq(Octets) /\ Len(c) = n /\ d \in Seq(Octets) /\ Len(d) = n
        /\ \A i \in 1..n : c[i] = [of |-> t, at |-> i] /\ d[i] = [of |-> g, at |-> i]
    <3> HIDE DEF g
    <3>1. /\ b \in Seq(Octets) /\ Len(b) = 6
          /\ c \in Seq(Octets) /\ Len(c) = n /\ n \in Nat
          /\ \A i \in 1..n : c[i] = [of |-> t, at |-> i]
      BY <1>3, BytesOfPiece
    <3>2. d \in Seq(Octets) /\ Len(d) = n /\ \A i \in 1..n : d[i] = [of |-> g, at |-> i]
      BY <1>4, BytesOfPiece
    <3> QED BY <3>1, <3>2
  <2>2. AnswerEnd = 6 + n /\ answers = b \o c
    BY <1>2, <1>3
  <2> HIDE DEF n, b, c, d
  <2>0. b \in Seq(Octets) /\ c \in Seq(Octets) /\ d \in Seq(Octets)
    BY <2>1
  <2>3. /\ b \o c \in Seq(Octets) /\ Len(b \o c) = 6 + n
        /\ \A i \in 1..(6 + n) : (b \o c)[i] = IF i <= 6 THEN b[i] ELSE c[i - 6]
        /\ b \o d \in Seq(Octets) /\ Len(b \o d) = 6 + n
        /\ \A i \in 1..(6 + n) : (b \o d)[i] = IF i <= 6 THEN b[i] ELSE d[i - 6]
    <3>1. /\ b \o c \in Seq(Octets) /\ Len(b \o c) = Len(b) + Len(c)
          /\ \A i \in 1..(Len(b) + Len(c)) : (b \o c)[i] = IF i <= Len(b) THEN b[i] ELSE c[i - Len(b)]
      BY <2>0, ConcatProperties
    <3>2. /\ b \o d \in Seq(Octets) /\ Len(b \o d) = Len(b) + Len(d)
          /\ \A i \in 1..(Len(b) + Len(d)) : (b \o d)[i] = IF i <= Len(b) THEN b[i] ELSE d[i - Len(b)]
      BY <2>0, ConcatProperties
    <3> QED BY <2>1, <3>1, <3>2
  <2>4. DOMAIN answers = 1..(6 + n) /\ DOMAIN (b \o d) = 1..(6 + n)
    BY <2>2, <2>3, LenProperties
  <2>5. ASSUME NEW i \in 1..(6 + n)
        PROVE  (IF i \in 7..(6 + n) THEN [answers[i] EXCEPT !.of = Garbled(@)] ELSE answers[i])
                 = (b \o d)[i]
    <3>1. CASE i <= 6
      <4>1. i \notin 7..(6 + n)
        BY <3>1, SMT
      <4> QED BY <2>2, <2>3, <3>1, <4>1
    <3>2. CASE ~(i <= 6)
      <4>1. i \in 7..(6 + n) /\ i - 6 \in 1..n
        BY <2>1, <3>2, SMT
      <4>2. answers[i] = [of |-> t, at |-> i - 6] /\ (b \o d)[i] = [of |-> g, at |-> i - 6]
        BY <2>1, <2>2, <2>3, <3>2, <4>1
      <4>3. [answers[i] EXCEPT !.of = Garbled(@)] = [of |-> g, at |-> i - 6]
        BY <4>2
      <4> QED BY <4>1, <4>2, <4>3
    <3> QED BY <3>1, <3>2
  <2>6. answers' = [i \in 1..(6 + n) |-> (b \o d)[i]]
    <3>1. answers' = [i \in DOMAIN answers |-> IF i \in 7..AnswerEnd
                                             THEN [answers[i] EXCEPT !.of = Garbled(@)] ELSE answers[i]]
      BY <1>1
    <3>2. answers' = [i \in 1..(6 + n) |-> IF i \in 7..(6 + n)
                                          THEN [answers[i] EXCEPT !.of = Garbled(@)] ELSE answers[i]]
      <4> HIDE DEF g
      <4>1. DOMAIN answers = 1..(6 + n) /\ AnswerEnd = 6 + n
        BY <2>2, <2>4
      <4> QED BY <3>1, <4>1, Zenon
    <3> QED BY <2>5, <3>2
  <2>7. b \o d = [i \in 1..(6 + n) |-> (b \o d)[i]]
    <3> DEFINE m == 6 + n
               e == b \o d
    <3>1. e \in Seq(Octets) /\ DOMAIN e = 1..m
      BY <2>3, <2>4
    <3> HIDE DEF e, m
    <3>2. e \in [1..Len(e) -> Octets] /\ 1..Len(e) = 1..m
      BY <3>1, LenProperties
    <3>3. e = [i \in 1..m |-> e[i]]
      BY <3>2
    <3> QED BY <3>3 DEF e, m
  <2> QED BY <2>6, <2>7 DEF b, d
<1>6. answers'[1] = [of |-> h, at |-> 1] /\ answers'[7] = [of |-> g, at |-> 1] /\ Len(answers') > 6
  <2> HIDE DEF g
  <2> QED BY <1>3, <1>4, <1>5, BytesOfAnswer
<1>7. answers'[1].of = h /\ answers'[7].of = g
  BY <1>6
<1> HIDE DEF g
<1>8. call' = call /\ call'.at # "tail" /\ AtStart' /\ AnswerHead' = h /\ AnswerTail' = g
  BY <1>1, <1>2, <1>7 DEF AtStart, AnswerHead, AnswerTail
<1>9. /\ line' = << >> /\ ReceiverOpen' /\ Quiet'
      /\ UNCHANGED <<Chunk, ChunkAddr, ResponseLen, ResponseHeader>>
  <2>1. UNCHANGED <<Chunk, ChunkAddr, ResponseLen, ResponseHeader>>
    BY <1>1, SameChunk
  <2> QED BY <1>1, <1>2, <2>1 DEF Heard, ReceiverOpen, Quiet
<1>10. Heard'
  BY <1>3, <1>4, <1>5, <1>6, <1>7, <1>8, <1>9 DEF Heard
<1> QED
  BY <1>1, <1>2, <1>4, <1>8, <1>10 DEF h

-----------------------------------------------------------------------------
(***************************************************************************)
(* Host and board take turns.                                              *)
(***************************************************************************)
\* An answer the board still owes is never forgotten by the history.
LEMMA LateStays ==
  ASSUME Typed, [Next]_vars, "late" \notin seen'
  PROVE  "late" \notin seen
<1>1. CASE Begin
  BY <1>1 DEF Begin
<1>2. CASE HostStep
  <2>1. seen' = seen \/ \E s : seen' = seen \cup s
    BY <1>2 DEF HostStep, Send, ReceiveAck, ReceiveHead, ReceiveTail, TimesOut
  <2> QED BY <2>1
<1>3. CASE Board
  BY <1>3, BoardKeepsCall
<1>4. CASE Line
  BY <1>4 DEF Line, LoseRequest, CorruptRequest, LoseAnswer, GarbleAnswer
<1>5. CASE UNCHANGED vars
  BY <1>5 DEF vars, host
<1> QED
  BY <1>1, <1>2, <1>3, <1>4, <1>5 DEF Next

LEMMA HostExchange ==
  ASSUME Typed, InPhase, HostStep \/ Begin, "late" \notin seen'
  PROVE  InPhase'
<1>1. CASE Begin
  BY <1>1, StepBegins DEF InPhase
<1>2. CASE Send
  BY <1>2, StepSends DEF InPhase
<1>3. CASE ReceiveAck
  BY <1>3, StepHearsAck DEF InPhase
<1>4. CASE ReceiveHead
  BY <1>4, StepHearsHead DEF InPhase
<1>5. CASE ReceiveTail
  BY <1>5, StepHearsTail DEF InPhase
<1>6. CASE TimesOut
  BY <1>6, StepTimesOut DEF InPhase
<1> QED
  BY <1>1, <1>2, <1>3, <1>4, <1>5, <1>6 DEF HostStep

LEMMA LineExchange ==
  ASSUME Typed, InPhase, Line
  PROVE  InPhase'
<1>1. CASE LoseRequest
  BY <1>1, StepLoses DEF InPhase
<1>2. CASE CorruptRequest
  BY <1>2, StepCorrupts DEF InPhase
<1>3. CASE LoseAnswer
  BY <1>3, StepDrops DEF InPhase
<1>4. CASE GarbleAnswer
  BY <1>4, StepGarbles DEF InPhase
<1> QED
  BY <1>1, <1>2, <1>3, <1>4 DEF Line

LEMMA SameExchange ==
  ASSUME UNCHANGED vars
  PROVE  /\ (Resting' <=> Resting) /\ (Sent' <=> Sent) /\ (Taken' <=> Taken)
         /\ (Working' <=> Working) /\ (Holding' <=> Holding) /\ (Owing' <=> Owing)
         /\ (Serving' <=> Serving) /\ (Heard' <=> Heard) /\ (Silent' <=> Silent)
         /\ AnswerHead' = AnswerHead /\ AnswerTail' = AnswerTail
<1>1. UNCHANGED <<line, rx, hold, fsm, pending, tx, rd, answers, call>>
  BY DEF vars, board, host
<1> QED
  BY <1>1, SamePhases

\* Host and board take turns: until the host gives up on an answer the board
\* still owes it, at most one packet or one answer is on the line, the board
\* works only on the packet of the call in progress, and an answer belongs to
\* the chunk the host waits for.  Losses, corrupted packets, garbled answers
\* and packets that meet WAIT_WRITE do not change that.
THEOREM TurnsAreTaken == Spec => []Exchange
<1>1. Init => Exchange
  <2> SUFFICES ASSUME Init PROVE Resting
    BY DEF Exchange, InPhase
  <2> QED BY DEF Init, BoardInit, Resting, Silence, ReceiverOpen, Quiet, NoCall
<1>2. Typed /\ Exchange /\ [Next]_vars => Exchange'
  <2> SUFFICES ASSUME Typed, Exchange, [Next]_vars, "late" \notin seen' PROVE InPhase'
    BY DEF Exchange
  <2>1. InPhase
    BY LateStays DEF Exchange
  <2>2. CASE UNCHANGED vars
    BY <2>1, <2>2, SameExchange DEF InPhase
  <2> QED
    BY <2>1, <2>2, BoardExchange, HostExchange, LineExchange DEF Next
<1>3. Spec => []Typed
  BY LinkIsTyped
<1> QED
  BY <1>1, <1>2, <1>3, PTL DEF Spec

\* When the board has come to rest, its receiver is not stuck on a packet nor
\* an answer behind a read, but for a data word that met a running kernel and
\* an answer the host gave up on.
THEOREM LinkNeverSticks == Spec => []NothingStuck
<1>1. Typed /\ Exchange => NothingStuck
  <2> SUFFICES ASSUME Typed, Exchange, Stalled
               PROVE  /\ rx.st = "wait" => "raced" \in seen
                      /\ pending # NoAnswer => "late" \in seen
    BY DEF NothingStuck
  <2>1. ASSUME rx.st = "wait" PROVE "raced" \in seen
    <3>1. hold = "none" /\ fsm # "validate" /\ ~(fsm = "writeResponse" /\ memDone)
      BY <2>1 DEF Stalled
    <3> QED BY <2>1, <3>1 DEF Typed, ReceiverInv
  <2>2. ASSUME pending # NoAnswer, "late" \notin seen PROVE FALSE
    <3>1. Owing
      BY <2>2, WhichPhase DEF Exchange
    <3> QED BY <2>2, <3>1 DEF Owing, Stalled
  <2> QED BY <2>1, <2>2
<1> QED
  BY <1>1, LinkIsTyped, TurnsAreTaken, PTL

\* Only the end of a packet can refuse it.
LEMMA NothingRefused ==
  ASSUME Board, "closed" \in seen',
         \/ rx'.st # "idle"
         \/ rx.st \in {"idle", "payload"}
         \/ rx.st = "wait" /\ hold # "fail"
  PROVE  "closed" \in seen /\ ~ResetNow
<1>1. ~(Refused /\ rx'.st = "idle")
  BY DEF Refused
<1>2. "closed" \notin Noted
  BY <1>1 DEF Noted
<1> QED
  BY <1>2 DEF Board

\* A refused packet leaves the gate in its error state until SECURITY_RESET,
\* unless the host has given up on an answer the board still owed it.
THEOREM RefusalsCloseTheGate == Spec => []RefusalClosesGate
<1>1. Init => RefusalClosesGate
  BY DEF Init, RefusalClosesGate
<1>2. Typed /\ Exchange /\ RefusalClosesGate /\ [Next]_vars => RefusalClosesGate'
  <2> SUFFICES ASSUME Typed, Exchange, RefusalClosesGate, [Next]_vars,
                      "closed" \in seen', "late" \notin seen'
               PROVE  gate' = "error"
    BY DEF RefusalClosesGate
  <2>1. InPhase /\ "late" \notin seen /\ ("closed" \in seen => gate = "error")
    BY LateStays DEF Exchange, RefusalClosesGate
  <2>2. CASE Begin
    BY <2>1, <2>2 DEF Begin, board
  <2>3. CASE HostStep
    <3>1. ASSUME Send \/ ReceiveAck \/ ReceiveHead \/ ReceiveTail
          PROVE  gate' = gate /\ seen' = seen
      BY <3>1, Zenon DEF Send, ReceiveAck, ReceiveHead, ReceiveTail, Reading
    <3>2. ASSUME TimesOut PROVE gate' = gate /\ seen' \subseteq seen \cup {"late"}
      <4>1. gate' = gate
        BY <3>2, Zenon DEF TimesOut, Reading
      <4>2. seen' = seen \cup (IF tx # NoTx \/ rx.st = "wait" \/ answers # << >> THEN {"late"} ELSE {})
        BY <3>2, Zenon DEF TimesOut
      <4> QED BY <4>1, <4>2
    <3>3. Send \/ ReceiveAck \/ ReceiveHead \/ ReceiveTail \/ TimesOut
      BY <2>3 DEF HostStep
    <3>4. gate' = gate /\ "closed" \in seen
      BY <3>1, <3>2, <3>3
    <3> QED BY <2>1, <3>4
  <2>4. CASE Line
    <3>1. ASSUME LoseRequest \/ CorruptRequest PROVE gate' = gate /\ seen' = seen
      BY <3>1, Zenon DEF LoseRequest, CorruptRequest
    <3>2. ASSUME LoseAnswer PROVE gate' = gate /\ seen' = seen \cup {"unheard"}
      BY <3>2, Zenon DEF LoseAnswer
    <3>3. ASSUME GarbleAnswer PROVE gate' = gate /\ seen' = seen \cup {"unheard"}
      BY <3>3, Zenon DEF GarbleAnswer
    <3>4. LoseRequest \/ CorruptRequest \/ LoseAnswer \/ GarbleAnswer
      BY <2>4 DEF Line
    <3>5. gate' = gate /\ "closed" \in seen
      BY <3>1, <3>2, <3>3, <3>4
    <3> QED BY <2>1, <3>5
  <2>5. CASE UNCHANGED vars
    BY <2>1, <2>5 DEF vars, board, host
  <2>6. CASE Board
    <3>1. CASE CrcFails
      BY <2>1, <2>6, <3>1, StepCrcFails
    <3>2. CASE Answer
      <4>1. CASE hold = "fail"
        BY <2>1, <2>6, <3>2, <4>1, StepAnswer
      <4>2. CASE hold # "fail"
        <5>1. gate' = gate /\ rx.st = "wait"
          BY <2>1, <2>6, <3>2, <4>2, StepAnswer
        <5>2. "closed" \in seen
          BY <2>6, <4>2, <5>1, NothingRefused
        <5> QED BY <2>1, <5>1, <5>2
      <4> QED BY <4>1, <4>2
    <3>3. CASE PacketDone
      <4>1. rx.st = "crc" /\ rx.p.crc /\ rx'.st = "wait"
        BY <3>3 DEF PacketDone, Typed, TypeOK, BoardTypes
      <4>2. "closed" \in seen /\ ~ResetNow
        BY <2>6, <4>1, NothingRefused
      <4>3. rx.p.cmd # "reset"
        BY <4>1, <4>2 DEF ResetNow
      <4>4. gate' = gate
        BY <3>3, <4>3 DEF PacketDone, Launched, ValidateAsked, ReadAsked, WriteDone
      <4> QED BY <2>1, <4>2, <4>4
    <3>4. CASE WordArrives
      <4>1. rx.st = "payload" /\ gate' \in {gate, IF Blocked THEN gate ELSE "load"}
        BY <3>4 DEF WordArrives, DataWord, ProgramWord
      <4>2. "closed" \in seen
        BY <2>6, <4>1, NothingRefused
      <4> QED BY <2>1, <4>1, <4>2 DEF Blocked
    <3>5. CASE PacketArrives
      <4>1. rx.st = "idle" /\ gate' = gate
        BY <3>5 DEF PacketArrives
      <4>2. "closed" \in seen
        BY <2>6, <4>1, NothingRefused
      <4> QED BY <2>1, <4>1, <4>2
    <3>6. ASSUME rx' = rx, gate = "error" => gate' = "error" PROVE gate' = "error"
      <4>1. "closed" \in seen
        BY <2>6, <3>6, NothingRefused
      <4> QED BY <2>1, <3>6, <4>1
    <3>7. PacketMissed \/ WriteResponse \/ ServeWord \/ IssueAnswer \/ KernelEnds => rx' = rx /\ gate' = gate
      BY DEF PacketMissed, WriteResponse, ServeWord, IssueAnswer, KernelEnds
    <3>8. ValidateResponse => rx' = rx /\ (gate = "error" => gate' = "error")
      BY DEF ValidateResponse
    <3> QED
      BY <2>6, <3>1, <3>2, <3>3, <3>4, <3>5, <3>6, <3>7, <3>8 DEF Board, BoardStep
  <2> QED
    BY <2>2, <2>3, <2>4, <2>5, <2>6 DEF Next
<1> QED
  BY <1>1, <1>2, LinkIsTyped, TurnsAreTaken, PTL DEF Spec

-----------------------------------------------------------------------------
(***************************************************************************)
(* One kernel for one launch.                                              *)
(***************************************************************************)
\* No two phases at a time.
OnePhase ==
  /\ Sent => ~(Resting \/ Taken \/ Working \/ Holding \/ Owing \/ Serving \/ Heard \/ Silent)
  /\ Taken => ~(Resting \/ Working \/ Holding \/ Owing \/ Serving \/ Heard \/ Silent)
  /\ Working => ~(Resting \/ Holding \/ Owing \/ Serving \/ Heard \/ Silent)
  /\ Holding => ~(Resting \/ Owing \/ Serving \/ Heard \/ Silent)
  /\ Owing => ~(Resting \/ Serving \/ Heard \/ Silent)
  /\ Serving => ~(Resting \/ Heard \/ Silent)
  /\ Heard => ~(Resting \/ Silent)
  /\ Silent => ~Resting

LEMMA PhasesApart == Typed => OnePhase
<1> SUFFICES ASSUME Typed PROVE OnePhase
  OBVIOUS
<1>1. Resting => call.at \in {"none", "send"} /\ line = << >> /\ answers = << >> /\ ReceiverOpen /\ Quiet
  BY DEF Resting, Silence
<1>2. Sent => call.at \in {"ack", "head"} /\ line # << >> /\ answers = << >> /\ ReceiverOpen /\ Quiet
  <2>1. Len(line) = 1 => line # << >>
    BY EmptySeq
  <2> QED BY <2>1 DEF Sent, AtStart
<1>3. Taken => call.at \in {"ack", "head"} /\ rx.st \in {"payload", "crc"} /\ hold = "none"
  BY DEF Taken, AtStart
<1>4. Working => /\ call.at \in {"ack", "head"} /\ rx.st = "wait" /\ hold = "none"
                 /\ fsm \in {"writeResponse", "validate"}
  BY DEF Working, AtStart
<1>5. Holding => /\ call.at \in {"ack", "head"} /\ rx.st = "wait" /\ hold # "none" /\ fsm = "idle"
                 /\ rx.p.cmd \notin Reads
  BY DEF Holding, AtStart, Quiet
<1>6. Owing => call.at \in {"ack", "head"} /\ rx.st = "idle" /\ fsm = "idle" /\ pending # NoAnswer
  BY DEF Owing, AtStart
<1>7. Serving => ReceiverOpen /\ fsm = "read" /\ line = << >>
  BY DEF Serving
<1>8. Heard => ReceiverOpen /\ Quiet /\ line = << >> /\ answers # << >> /\ call.at \in {"ack", "head", "tail"}
  <2>1. Heard => answers # << >>
    BY AnswerHeard
  <2> QED BY <2>1 DEF Heard, AtStart
<1>9. Silent => /\ call.at \in {"ack", "head"} /\ ReceiverOpen /\ Quiet /\ line = << >> /\ answers = << >>
  BY DEF Silent, Silence, AtStart
<1> HIDE DEF Resting, Sent, Taken, Working, Holding, Owing, Serving, Heard, Silent
<1> QED
  BY <1>1, <1>2, <1>3, <1>4, <1>5, <1>6, <1>7, <1>8, <1>9 DEF OnePhase, Quiet, ReceiverOpen

\* A step that starts no kernel.
LEMMA NoKernelStarts ==
  ASSUME Board, ~(busy' /\ ~busy)
  PROVE  /\ "started" \in seen' <=> "started" \in seen
         /\ "twice" \in seen' <=> "twice" \in seen
         /\ "unheard" \in seen' <=> "unheard" \in seen
<1>1. Noted \cap {"started", "twice", "unheard"} = {}
  BY DEF Noted
<1> QED
  BY <1>1 DEF Board

\* One launch call starts at most one kernel, however often its packet is
\* lost or corrupted, as long as none of its answers is lost or given up on.
THEOREM LaunchStartsOne == Spec => []StartsAtMostOnce
<1>1. Init => StartInv
  BY DEF Init, StartInv, StartsAtMostOnce
<1>2. Typed /\ Typed' /\ Exchange /\ StartInv /\ [Next]_vars => StartInv'
  <2> SUFFICES ASSUME Typed, Typed', Exchange, StartInv, [Next]_vars PROVE StartInv'
    OBVIOUS
  <2> DEFINE heard == seen' \cap {"unheard", "late"} = {}
             inHand == call' = NoCall \/ (call'.op.cmd = "launch" /\ LaunchInHand')
  <2> SUFFICES ASSUME heard
               PROVE  /\ "started" \in seen' => \/ call' = NoCall
                                                \/ call'.op.cmd = "launch" /\ LaunchInHand'
                      /\ "twice" \notin seen'
    <3>1. StartInv' <=> /\ "started" \in seen' /\ heard => inHand
                        /\ "twice" \in seen' => ~heard
      BY DEF StartInv, StartsAtMostOnce
    <3> HIDE DEF heard
    <3> QED BY <3>1
  <2>0. "unheard" \notin seen' /\ "late" \notin seen'
    OBVIOUS
  <2>1. InPhase /\ "late" \notin seen
    BY <2>0, LateStays DEF Exchange
  <2>2. ("unheard" \in seen => "unheard" \in seen') => "unheard" \notin seen
    BY <2>0
  <2>3. OnePhase
    BY PhasesApart
  <2>4. ASSUME "unheard" \notin seen
        PROVE  /\ "twice" \notin seen
               /\ "started" \in seen => \/ call = NoCall
                                        \/ call.op.cmd = "launch" /\ LaunchInHand
    BY <2>0, <2>1, <2>4 DEF StartInv, StartsAtMostOnce
  <2>5. LaunchInHand => Holding \/ Owing \/ Heard
    BY DEF LaunchInHand
  <2>6. call = NoCall => Resting
    <3>1. call = NoCall => call.at = "none"
      BY DEF NoCall
    <3> QED BY <2>1, <3>1, WhichPhase
  <2>7. CASE Begin
    <3>1. seen' = seen \ {"started"}
      BY <2>7 DEF Begin
    <3> QED BY <2>0, <2>4, <3>1
  <2>8. CASE Send
    <3>1. Resting /\ call.at = "send" /\ seen' = seen
      BY <2>1, <2>8, StepSends DEF Send
    <3>2. call # NoCall
      BY <3>1 DEF NoCall
    <3> QED BY <2>0, <2>3, <2>4, <2>5, <3>1, <3>2 DEF OnePhase
  <2>9. CASE ReceiveAck
    <3>1. /\ Heard /\ call.at = "ack" /\ seen' = seen
          /\ IF AnswerHead.cmd = "ack" /\ AnswerTail.ok THEN ChunkDone(<< >>) ELSE Retry
      BY <2>1, <2>9, StepHearsAck
    <3>2. ASSUME "started" \in seen PROVE call' = NoCall
      <4>1. call.op.cmd = "launch" /\ LaunchInHand
        BY <2>0, <2>3, <2>4, <2>6, <3>1, <3>2 DEF OnePhase
      <4>2. ChunkDone(<< >>)
        BY <2>3, <3>1, <4>1 DEF LaunchInHand, OnePhase
      <4>3. call.off = 0 /\ Len(call.op.words) <= MaxChunk
        <5>1. call.op \in Op /\ call.off = 0
          BY <3>1, <4>1 DEF Typed, CallInv
        <5> QED BY <4>1, <5>1, Constants
      <4>4. ~(call.off + MaxChunk < Len(call.op.words))
        <5>1. call.op \in Op
          BY <3>1 DEF Typed, CallInv
        <5>2. Len(call.op.words) \in Nat /\ MaxChunk \in Nat
          BY <5>1, Constants
        <5> QED BY <4>3, <5>2, SMT
      <4> QED BY <4>2, <4>4 DEF ChunkDone, Return
    <3> QED BY <2>0, <2>4, <3>1, <3>2
  <2>10. CASE ReceiveHead \/ ReceiveTail
    <3>1. seen' = seen /\ call.op.cmd \in Reads /\ call # NoCall
      <4>1. seen' = seen /\ call.at \in {"head", "tail"}
        BY <2>10 DEF ReceiveHead, ReceiveTail
      <4>2. call.op.cmd \in Reads
        BY <4>1 DEF Typed, CallInv
      <4> QED BY <4>1, <4>2 DEF NoCall
    <3>2. call.op.cmd # "launch"
      BY <3>1 DEF Reads
    <3> QED BY <2>0, <2>4, <3>1, <3>2
  <2>11. CASE TimesOut
    <3>1. Silent /\ seen' = seen
      BY <2>0, <2>1, <2>11, StepTimesOut
    <3> QED BY <2>0, <2>3, <2>4, <2>5, <2>6, <3>1 DEF OnePhase
  <2>12. CASE LoseRequest \/ CorruptRequest
    <3>1. Sent /\ seen' = seen
      BY <2>1, <2>12, StepLoses, StepCorrupts
    <3> QED BY <2>0, <2>3, <2>4, <2>5, <2>6, <3>1 DEF OnePhase
  <2>13. CASE LoseAnswer \/ GarbleAnswer
    BY <2>0, <2>13 DEF LoseAnswer, GarbleAnswer
  <2>14. CASE UNCHANGED vars
    <3>1. seen' = seen /\ call' = call /\ hold' = hold /\ pending' = pending
      BY <2>14 DEF vars, board, host
    <3>2. LaunchInHand' <=> LaunchInHand
      BY <2>14, <3>1, SameExchange DEF LaunchInHand
    <3> QED BY <2>0, <2>4, <3>1, <3>2
  <2>15. CASE Board
    <3>1. "unheard" \notin seen /\ call' = call
      BY <2>0, <2>15, BoardNotes, BoardKeepsCall DEF Typed, TypeOK, HostTypes
    <3>2. ASSUME busy' = busy \/ ~busy', LaunchInHand => LaunchInHand' PROVE
             /\ "started" \in seen' => \/ call' = NoCall
                                       \/ call'.op.cmd = "launch" /\ LaunchInHand'
             /\ "twice" \notin seen'
      BY <2>0, <2>4, <2>15, <3>1, <3>2, NoKernelStarts
    <3>3. ASSUME Sent \/ Taken \/ Working \/ Serving PROVE ~LaunchInHand
      BY <2>3, <2>5, <3>3 DEF OnePhase
    <3>4. CASE PacketArrives
      BY <2>1, <2>15, <3>2, <3>3, <3>4, StepArrives DEF PacketArrives
    <3>5. CASE PacketMissed
      BY <2>1, <2>15, <3>2, <3>3, <3>5, StepMissed DEF PacketMissed
    <3>6. CASE WordArrives
      BY <2>1, <2>15, <3>2, <3>3, <3>6, StepWord
    <3>7. CASE CrcFails
      BY <2>1, <2>15, <3>2, <3>3, <3>7, StepCrcFails DEF CrcFails
    <3>8. CASE PacketDone
      <4>1. Taken /\ rx.p.cmd = call.op.cmd /\ call # NoCall
        <5>1. Taken /\ rx.p.cmd = call.op.cmd
          BY <2>1, <2>15, <3>8, StepDone
        <5> QED BY <2>3, <2>6, <5>1 DEF OnePhase
      <4>2. CASE rx.p.cmd # "launch" \/ busy' = busy
        <5>1. busy' = busy
          <6>1. CASE rx.p.cmd # "launch"
            <7>1. ValidateAsked \/ ResetAsked \/ ReadAsked \/ WriteDone
              BY <3>8, <6>1, DoneCases
            <7> QED BY <7>1 DEF ValidateAsked, ResetAsked, ReadAsked, WriteDone
          <6> QED BY <4>2, <6>1
        <5> QED BY <3>2, <3>3, <4>1, <5>1
      <4>3. CASE rx.p.cmd = "launch" /\ busy' # busy
        <5>1. Launched
          BY <3>8, <4>3, DoneCases DEF Reads
        <5>2. hold' = "done"
          BY <4>3, <5>1 DEF Launched, Typed, TypeOK, BoardTypes
        <5>3. Holding'
          BY <2>1, <2>15, <3>8, <4>1, <4>3, StepDone DEF Reads
        <5>4. "started" \notin seen
          BY <2>0, <2>4, <3>1, <3>3, <4>1
        <5>5. "twice" \notin Noted
          BY <5>4 DEF Noted
        <5>6. "twice" \notin seen'
          BY <2>0, <2>4, <2>15, <3>1, <5>5 DEF Board
        <5> QED BY <3>1, <4>1, <4>3, <5>2, <5>3, <5>6 DEF LaunchInHand
      <4> QED BY <4>2, <4>3
    <3>9. CASE Answer
      <4>1. busy' = busy
        BY <3>9 DEF Answer
      <4>2. LaunchInHand => LaunchInHand'
        <5>1. CASE Holding /\ Owing' /\ pending'.nak = (hold = "fail")
          BY <2>3, <5>1 DEF LaunchInHand, OnePhase
        <5>2. CASE ReceiverOpen /\ ReceiverOpen' /\ UNCHANGED <<line, fsm, pending, tx, rd, answers, call>>
          <6>1. ~Holding /\ ~Owing
            BY <3>9, <5>2 DEF Holding, Owing, ReceiverOpen, Answer
          <6> QED BY <5>2, <6>1, OpenPhases DEF LaunchInHand
        <5> QED BY <2>1, <2>15, <3>9, <5>1, <5>2, StepAnswer
      <4> QED BY <3>2, <4>1, <4>2
    <3>10. CASE WriteResponse \/ ValidateResponse
      <4>1. Working /\ busy' = busy
        BY <2>1, <2>15, <3>10, StepWritten, StepValidated DEF WriteResponse, ValidateResponse
      <4> QED BY <3>2, <3>3, <4>1
    <3>11. CASE ServeWord
      BY <2>1, <2>15, <3>2, <3>3, <3>11, StepServes DEF ServeWord
    <3>12. CASE IssueAnswer
      <4>1. /\ Owing /\ Heard' /\ AnswerTail'.ok
            /\ AnswerHead'.cmd = (IF pending.nak THEN "nak" ELSE "ack")
        BY <2>1, <2>15, <3>12, StepIssues
      <4>2. LaunchInHand => LaunchInHand'
        BY <2>3, <4>1 DEF LaunchInHand, OnePhase
      <4> QED BY <3>2, <3>12, <4>2 DEF IssueAnswer
    <3>13. CASE KernelEnds
      <4>1. LaunchInHand' <=> LaunchInHand
        BY <3>1, <3>13, SamePhases DEF KernelEnds, LaunchInHand
      <4> QED BY <3>2, <3>13, <4>1 DEF KernelEnds
    <3> QED
      BY <2>15, <3>4, <3>5, <3>6, <3>7, <3>8, <3>9, <3>10, <3>11, <3>12, <3>13 DEF Board, BoardStep
  <2>16. CASE UNCHANGED vars \/ Begin \/ HostStep \/ Board \/ Line
    BY <2>7, <2>8, <2>9, <2>10, <2>11, <2>12, <2>13, <2>14, <2>15, <2>16 DEF HostStep, Line
  <2> QED
    BY <2>16 DEF Next
<1>3. StartInv => StartsAtMostOnce
  BY DEF StartInv
<1> QED
  BY <1>1, <1>2, <1>3, LinkIsTyped, TurnsAreTaken, PTL DEF Spec

-----------------------------------------------------------------------------
(***************************************************************************)
(* How attempts and chunks end.                                            *)
(***************************************************************************)
LEMMA RetryEffect ==
  ASSUME Typed, call.at # "none", Retry
  PROVE  \/ /\ call.tries + 1 < Retries /\ call'.tries = call.tries + 1 /\ call'.at = "send"
            /\ UNCHANGED <<call.op, call.off, call.data>> /\ UNCHANGED <<last, want>>
         \/ /\ ~(call.tries + 1 < Retries) /\ call' = NoCall /\ want' = want
            /\ last' = [op |-> call.op, ok |-> FALSE, data |-> << >>]
<1>1. CASE call.tries + 1 < Retries
  <2>1. /\ call' = [call EXCEPT !.tries = @ + 1, !.at = "send", !.head = << >>]
        /\ UNCHANGED <<last, want>>
    BY <1>1 DEF Retry
  <2>2. /\ call'.tries = call.tries + 1 /\ call'.at = "send"
        /\ UNCHANGED <<call.op, call.off, call.data>>
    BY <2>1 DEF Typed, TypeOK, HostTypes, CallTypes
  <2> QED BY <1>1, <2>1, <2>2
<1>2. CASE ~(call.tries + 1 < Retries)
  BY <1>2 DEF Retry, Return
<1> QED
  BY <1>1, <1>2

LEMMA DoneEffect ==
  ASSUME Typed, call.at # "none", NEW data, ChunkDone(data)
  PROVE  \/ /\ call'.off = call.off + Len(Chunk) /\ call'.tries = 0 /\ call'.at = "send"
            /\ call'.op = call.op /\ call'.data = call.data \o data /\ UNCHANGED <<last, want>>
         \/ /\ call.off + Len(Chunk) = Len(call.op.words) /\ call' = NoCall
            /\ last' = [op |-> call.op, ok |-> TRUE, data |-> call.data \o data]
            /\ Return(TRUE, call.data \o data)
<1>1. /\ Rest \in Nat /\ Len(Chunk) = IF Rest < MaxChunk THEN Rest ELSE MaxChunk
      /\ Rest = Len(call.op.words) - call.off
      /\ MaxChunk \in Nat /\ Len(call.op.words) \in Nat /\ call.off \in Nat
  <2>1. /\ Rest \in Nat /\ Len(Chunk) = IF Rest < MaxChunk THEN Rest ELSE MaxChunk
        /\ call.op \in Op
    BY ChunkWords DEF Typed
  <2>2. MaxChunk \in Nat /\ Len(call.op.words) \in Nat
    BY <2>1, Constants
  <2>3. call.off \in Nat
    BY DEF Typed, TypeOK, HostTypes, CallTypes
  <2> QED BY <2>1, <2>2, <2>3 DEF Rest
<1>2. CASE call.off + MaxChunk < Len(call.op.words)
  <2>1. Len(Chunk) = MaxChunk
    BY <1>1, <1>2, SMT
  <2>2. /\ call' = [call EXCEPT !.off = @ + MaxChunk, !.tries = 0, !.at = "send",
                                !.head = << >>, !.data = @ \o data]
        /\ UNCHANGED <<last, want>>
    BY <1>2 DEF ChunkDone
  <2>3. /\ call'.off = call.off + MaxChunk /\ call'.tries = 0 /\ call'.at = "send"
        /\ call'.op = call.op /\ call'.data = call.data \o data
    BY <2>2 DEF Typed, TypeOK, HostTypes, CallTypes
  <2> QED BY <2>1, <2>2, <2>3
<1>3. CASE ~(call.off + MaxChunk < Len(call.op.words))
  <2>1. call.off + Len(Chunk) = Len(call.op.words)
    BY <1>1, <1>3, SMT
  <2> QED BY <1>3, <2>1 DEF ChunkDone, Return
<1> QED
  BY <1>2, <1>3

-----------------------------------------------------------------------------
(***************************************************************************)
(* Why calls fail.                                                         *)
(***************************************************************************)
\* Faults, refusals, races and answers given up on are not forgotten.
LEMMA SmoothBefore ==
  ASSUME Typed, [Next]_vars, Smooth'
  PROVE  Smooth /\ ~Line
<1>1. faults' = 0 /\ seen' \cap {"naked", "raced", "late"} = {} /\ faults \in Nat
  BY DEF Smooth, Typed, TypeOK, HostTypes
<1>2. ASSUME faults' = faults, "naked" \in seen => "naked" \in seen',
             "raced" \in seen => "raced" \in seen', "late" \in seen => "late" \in seen'
      PROVE  Smooth
  <2>1. "naked" \notin seen /\ "raced" \notin seen /\ "late" \notin seen
    BY <1>1, <1>2
  <2> QED BY <1>1, <1>2, <2>1 DEF Smooth
<1>3. ASSUME Begin PROVE Smooth
  <2>1. faults' = faults /\ seen' = seen \ {"started"}
    BY <1>3 DEF Begin
  <2> QED BY <1>2, <2>1
<1>4. ASSUME HostStep PROVE Smooth
  <2>1. faults' = faults
    BY <1>4 DEF HostStep, Send, ReceiveAck, ReceiveHead, ReceiveTail, TimesOut, Reading
  <2>2. seen \subseteq seen'
    BY <1>4 DEF HostStep, Send, ReceiveAck, ReceiveHead, ReceiveTail, TimesOut
  <2> QED BY <1>2, <2>1, <2>2
<1>5. ASSUME Board PROVE Smooth
  <2>1. faults' = faults /\ seen' = (seen \ IF ResetNow THEN {"closed"} ELSE {}) \cup Noted
    BY <1>5 DEF Board
  <2>2. seen \ {"closed"} \subseteq seen'
    BY <2>1
  <2> QED BY <1>2, <2>1, <2>2
<1>6. ~Line
  <2>1. Line => faults' = faults + 1
    BY DEF Line, LoseRequest, CorruptRequest, LoseAnswer, GarbleAnswer, Fault
  <2>2. faults + 1 # 0
    BY <1>1, SMT
  <2> QED BY <1>1, <2>1, <2>2
<1>7. ASSUME UNCHANGED vars PROVE Smooth
  <2>1. faults' = faults /\ seen' = seen
    BY <1>7 DEF vars, host
  <2> QED BY <1>2, <2>1
<1>8. Smooth
  BY <1>3, <1>4, <1>5, <1>6, <1>7 DEF Next
<1> QED
  BY <1>6, <1>8

\* The step of the proof below: what is calm stays calm.
LEMMA CalmStays ==
  ASSUME Retries > 1, Typed, OnePhase, OnePhase', InPhase, Calm, last.ok, Smooth',
         Begin \/ HostStep \/ Board
  PROVE  Calm' /\ last'.ok
<1>1. /\ "late" \notin seen' /\ "naked" \notin seen' /\ call.tries \in Nat
  BY DEF Smooth, Typed, TypeOK, HostTypes, CallTypes
<1>2. CASE Begin
  <2>1. Resting' /\ UNCHANGED <<board, last>> /\ call'.tries = 0
    BY <1>2, StepBegins
  <2>2. line' = << >> /\ rx' = rx
    BY <2>1 DEF Resting, Silence, board
  <2>3. call'.tries <= 1 /\ call'.tries # 1
    BY <2>1, SMT
  <2> QED BY <2>1, <2>2, <2>3 DEF Calm, OnePhase
<1>3. CASE Send
  <2>1. /\ Sent' /\ line' = <<Packet>> /\ rx' = rx /\ last' = last /\ call'.tries = call.tries
        /\ call.at = "send"
    BY <1>3, StepSends DEF Send
  <2>2. line'[1].crc
    BY <2>1 DEF Packet
  <2> QED BY <2>1, <2>2 DEF Calm, OnePhase
<1>4. ASSUME Resting', rx' = rx, call'.tries = 0 PROVE Calm'
  <2>1. line' = << >> /\ call'.tries = 0
    BY <1>4 DEF Resting, Silence
  <2>2. call'.tries <= 1 /\ call'.tries # 1
    BY <2>1, SMT
  <2>3. Resting' /\ rx' = rx
    BY <1>4
  <2> QED BY <2>1, <2>2, <2>3 DEF Calm, OnePhase
<1>5. ASSUME NEW data, ChunkDone(data), call.at # "none" PROVE call'.tries = 0 /\ last'.ok
  <2>1. \/ call'.tries = 0 /\ last' = last
        \/ call' = NoCall /\ last' = [op |-> call.op, ok |-> TRUE, data |-> call.data \o data]
    BY <1>5, DoneEffect, Zenon
  <2>2. NoCall.tries = 0
    BY DEF NoCall
  <2>3. last' = last => last'.ok
    OBVIOUS
  <2>4. last' = [op |-> call.op, ok |-> TRUE, data |-> call.data \o data] => last'.ok
    OBVIOUS
  <2> QED BY <2>1, <2>2, <2>3, <2>4
<1>6. CASE ReceiveAck
  <2>1. /\ Heard /\ Resting' /\ call.at = "ack" /\ call.op.cmd \notin Reads
        /\ IF AnswerHead.cmd = "ack" /\ AnswerTail.ok THEN ChunkDone(<< >>) ELSE Retry
        /\ rx' = rx
    BY <1>6, StepHearsAck DEF Reading
  <2>2. AnswerHead.cmd = "ack" /\ AnswerTail.ok
    BY <2>1 DEF Heard, Header, Calm
  <2> QED BY <1>4, <1>5, <2>1, <2>2
<1>7. CASE ReceiveHead
  <2>1. /\ call.at = "head" /\ call'.at = "tail" /\ call'.tries = call.tries
        /\ last' = last /\ rx' = rx /\ line' = line
        /\ \/ Serving'
           \/ Heard /\ Heard' /\ AnswerHead' = AnswerHead /\ AnswerTail' = AnswerTail
    BY <1>7, StepHearsHead DEF Reading
  <2> QED BY <2>1 DEF Calm, OnePhase
<1>8. CASE ReceiveTail
  <2>1. /\ Heard /\ Resting' /\ call.at = "tail" /\ AnswerHead.cmd \in {call.op.cmd, "nak"}
        /\ IF ~AnswerTail.ok THEN Retry
           ELSE IF AnswerHead.cmd = call.op.cmd THEN ChunkDone(AnswerTail.data)
           ELSE Return(FALSE, << >>)
        /\ rx' = rx
    BY <1>8, StepHearsTail DEF Reading
  <2>2. AnswerHead.cmd = call.op.cmd /\ AnswerTail.ok
    BY <2>1 DEF Calm
  <2> QED BY <1>4, <1>5, <2>1, <2>2
<1>9. CASE TimesOut
  <2>1. Silent /\ Resting' /\ Retry /\ rx' = rx /\ rx.st = "idle" /\ call.at # "none"
    BY <1>1, <1>9, StepTimesOut DEF Reading, TimesOut
  <2>2. call.tries = 0 /\ call.tries + 1 < Retries /\ call.tries + 1 = 1
    BY <2>1, SMT DEF Calm
  <2>3. call'.tries = 1 /\ last' = last
    BY <2>1, <2>2, RetryEffect
  <2>4. line' = << >> /\ call'.tries <= 1
    BY <2>1, <2>3, SMT DEF Resting, Silence
  <2> QED BY <2>1, <2>3, <2>4 DEF Calm, OnePhase
<1>10. CASE Board
  <2>1. UNCHANGED <<call, last>>
    BY <1>10, BoardKeepsCall
  <2>2. CASE PacketArrives
    <3>1. Sent /\ Taken' /\ rx'.p = line[1] /\ line # << >> /\ call'.at # "send"
      BY <1>10, <2>2, StepArrives DEF PacketArrives, Taken, AtStart
    <3>2. line' = << >>
      BY <3>1 DEF Taken, Silence
    <3> QED BY <2>1, <3>1, <3>2 DEF Calm, OnePhase
  <2>3. CASE PacketMissed
    <3>1. Sent /\ Silent' /\ rx.st = "wait" /\ rx' = rx
      BY <1>10, <2>3, StepMissed DEF PacketMissed
    <3>2. call.tries # 1 /\ call.tries <= 1
      BY <3>1 DEF Calm
    <3>3. call.tries = 0
      BY <1>1, <3>2, SMT
    <3>4. line' = << >> /\ call'.tries <= 1 /\ call'.tries = 0
      BY <2>1, <3>1, <3>3, SMT DEF Silent, Silence
    <3> QED BY <2>1, <3>1, <3>4 DEF Calm, OnePhase
  <2>4. CASE WordArrives
    <3>1. Taken /\ Taken' /\ rx'.p = rx.p /\ line' = line /\ call'.at # "send"
      BY <1>10, <2>4, StepWord DEF Taken, AtStart
    <3>2. rx.st \in {"payload", "crc"}
      BY <3>1 DEF Taken
    <3> QED BY <2>1, <3>1, <3>2 DEF Calm, OnePhase
  <2>5. CASE CrcFails
    BY <2>5 DEF CrcFails, Calm
  <2>6. CASE PacketDone
    <3>1. /\ rx'.st = "wait" /\ line' = line
          /\ Working' \/ Holding' \/ Serving'
      BY <1>10, <2>6, StepDone DEF PacketDone
    <3>2. call'.at # "send"
      BY <3>1 DEF Working, Holding, Serving, AtStart
    <3> QED BY <2>1, <3>1, <3>2 DEF Calm, OnePhase
  <2>7. CASE Answer
    <3>1. rx.st = "wait" /\ rx'.st = "idle" /\ line' = line
      BY <1>10, <2>7, StepAnswer DEF Answer
    <3>2. CASE Holding /\ Owing' /\ pending'.nak = (hold = "fail")
      <4>1. hold # "fail"
        <5>1. hold = "fail" => "naked" \in Noted
          BY <3>1 DEF Noted, Refused
        <5> QED BY <1>1, <1>10, <5>1 DEF Board
      <4> QED BY <2>1, <3>1, <3>2, <4>1 DEF Calm, OnePhase
    <3>3. CASE /\ ReceiverOpen /\ ReceiverOpen'
               /\ UNCHANGED <<line, fsm, pending, tx, rd, answers, call>>
      <4>1. ~Owing'
        <5>1. ~Owing
          BY <3>1 DEF Owing
        <5>2. Resting \/ Sent \/ Serving \/ Heard \/ Silent
          BY <2>7, <3>3, <5>1 DEF InPhase, Taken, Working, Holding, ReceiverOpen, Answer
        <5> QED BY <3>3, <5>2, OpenPhases DEF OnePhase
      <4> QED BY <2>1, <3>1, <3>3, <4>1, OpenPhases DEF Calm
    <3> QED BY <1>10, <2>7, <3>2, <3>3, StepAnswer
  <2>8. CASE WriteResponse \/ ValidateResponse
    <3>1. Working /\ Holding' /\ rx' = rx /\ line' = line
      BY <1>10, <2>8, StepWritten, StepValidated DEF WriteResponse, ValidateResponse
    <3>2. call'.at # "send"
      BY <3>1 DEF Holding, AtStart
    <3> QED BY <2>1, <3>1, <3>2 DEF Calm, OnePhase
  <2>9. CASE ServeWord
    <3>1. /\ Serving /\ rx' = rx /\ line' = line
          /\ Serving' \/ (Heard' /\ AnswerHead'.cmd = call.op.cmd /\ AnswerTail'.ok)
      BY <1>10, <2>9, StepServes DEF ServeWord
    <3>2. call.at # "send" /\ call.op.cmd # "nak"
      BY <3>1 DEF Serving, Reads
    <3> QED BY <2>1, <3>1, <3>2 DEF Calm, OnePhase
  <2>10. CASE IssueAnswer
    <3>1. /\ Owing /\ Heard' /\ AnswerTail'.ok /\ rx' = rx /\ line' = line
          /\ AnswerHead'.cmd = (IF pending.nak THEN "nak" ELSE "ack")
      BY <1>10, <2>10, TypedBoard, StepIssues DEF IssueAnswer
    <3>2. call.at # "send"
      BY <3>1 DEF Owing, AtStart
    <3> QED BY <2>1, <3>1, <3>2 DEF Calm, OnePhase
  <2>11. CASE KernelEnds
    BY <2>1, <2>11, SamePhases DEF Calm, KernelEnds
  <2> QED
    BY <1>10, <2>2, <2>3, <2>4, <2>5, <2>6, <2>7, <2>8, <2>9, <2>10, <2>11 DEF Board, BoardStep
<1> QED
  BY <1>2, <1>3, <1>6, <1>7, <1>8, <1>9, <1>10 DEF HostStep

\* With two attempts or more a call fails only if the line failed it, the
\* board refused one of its packets, a data word met a running kernel or an
\* answer came too late.
THEOREM CallsFailForAReason ==
  ASSUME Retries > 1 PROVE Spec => []FailsForAReason
<1>1. Init => SmoothInv
  <2> SUFFICES ASSUME Init PROVE SmoothInv
    OBVIOUS
  <2>1. Resting /\ call.tries = 0 /\ call.tries <= 1 /\ line = << >> /\ rx.st = "idle" /\ last.ok
    BY SMT DEF Init, BoardInit, Resting, Silence, ReceiverOpen, Quiet, NoCall
  <2>2. OnePhase
    BY TypedInit, PhasesApart
  <2> QED BY <2>1, <2>2 DEF SmoothInv, FailsForAReason, Calm, OnePhase
<1>2. Typed /\ Typed' /\ OnePhase /\ OnePhase' /\ Exchange /\ SmoothInv /\ [Next]_vars => SmoothInv'
  <2> SUFFICES ASSUME Typed, Typed', OnePhase, OnePhase', Exchange, SmoothInv, [Next]_vars
               PROVE  SmoothInv'
    OBVIOUS
  <2>1. CASE ~Smooth'
    <3>1. faults' \in Nat
      BY DEF Typed, TypeOK, HostTypes
    <3>2. faults' # 0 => faults' > 0
      BY <3>1, SMT
    <3> QED BY <2>1, <3>2 DEF SmoothInv, FailsForAReason, Smooth
  <2>2. CASE Smooth'
    <3>1. Smooth /\ ~Line
      BY <2>2, SmoothBefore
    <3>2. InPhase /\ Calm /\ last.ok
      <4>1. ~(faults > 0)
        BY <3>1, SMT DEF Smooth
      <4> QED BY <3>1, <4>1 DEF Smooth, SmoothInv, FailsForAReason, Exchange
    <3>3. CASE Begin \/ HostStep \/ Board
      <4>1. Calm' /\ last'.ok
        BY <2>2, <3>2, <3>3, CalmStays
      <4> QED BY <4>1 DEF SmoothInv, FailsForAReason
    <3>4. CASE UNCHANGED vars
      <4>1. UNCHANGED <<call, last, rx, line, pending>>
        BY <3>4 DEF vars, board, host
      <4>2. Calm'
        BY <3>2, <3>4, <4>1, SameExchange DEF Calm
      <4> QED BY <3>2, <4>1, <4>2 DEF SmoothInv, FailsForAReason
    <3> QED BY <3>1, <3>3, <3>4 DEF Next
  <2> QED BY <2>1, <2>2
<1>3. SmoothInv => FailsForAReason
  BY DEF SmoothInv
<1> QED
  BY <1>1, <1>2, <1>3, PhasesApart, LinkIsTyped, TurnsAreTaken, PTL DEF Spec

-----------------------------------------------------------------------------
(***************************************************************************)
(* What a read returns.                                                    *)
(***************************************************************************)
\* Two runs of words read from memory, the second from where the first ends,
\* are one.
LEMMA ReadsJoin ==
  ASSUME NEW d \in Seq(Datum), NEW e \in Seq(Datum), NEW a \in Nat,
         FromMemory(d, a), FromMemory(e, a + Len(d))
  PROVE  FromMemory(d \o e, a)
<1>1. /\ Len(d) \in Nat /\ Len(e) \in Nat
      /\ Len(d \o e) = Len(d) + Len(e)
      /\ \A i \in 1..(Len(d) + Len(e)) : (d \o e)[i] = IF i <= Len(d) THEN d[i] ELSE e[i - Len(d)]
  BY LenProperties, ConcatProperties
<1>2. ASSUME NEW i \in 1..Len(d \o e) PROVE (d \o e)[i] = mem[(a + i - 1) % Words]
  <2>1. i \in 1..(Len(d) + Len(e))
    BY <1>1
  <2>2. CASE i <= Len(d)
    <3>1. i \in 1..Len(d)
      BY <1>1, <2>1, <2>2, SMT
    <3>2. d[i] = mem[(a + i - 1) % Words]
      BY <3>1 DEF FromMemory
    <3> QED BY <1>1, <2>1, <2>2, <3>2
  <2>3. CASE ~(i <= Len(d))
    <3> DEFINE j == i - Len(d)
    <3>1. j \in 1..Len(e) /\ (a + Len(d)) + j - 1 = a + i - 1
      BY <1>1, <2>1, <2>3, SMT
    <3> HIDE DEF j
    <3>2. e[j] = mem[((a + Len(d)) + j - 1) % Words]
      BY <3>1 DEF FromMemory
    <3>3. e[j] = mem[(a + i - 1) % Words]
      BY <3>1, <3>2
    <3> QED BY <1>1, <2>1, <2>3, <3>3 DEF j
  <2> QED BY <2>2, <2>3
<1> QED
  BY <1>2 DEF FromMemory

\* One word more.
LEMMA ReadsGrow ==
  ASSUME NEW d \in Seq(Datum), NEW w \in Datum, NEW a \in Nat,
         FromMemory(d, a), w = mem[(a + Len(d)) % Words]
  PROVE  FromMemory(Append(d, w), a)
<1>1. /\ Len(d) \in Nat /\ Len(Append(d, w)) = Len(d) + 1
      /\ \A i \in 1..Len(d) : Append(d, w)[i] = d[i]
      /\ Append(d, w)[Len(d) + 1] = w
  BY LenProperties, AppendProperties
<1>2. ASSUME NEW i \in 1..Len(Append(d, w)) PROVE Append(d, w)[i] = mem[(a + i - 1) % Words]
  <2>1. i \in 1..(Len(d) + 1)
    BY <1>1
  <2>2. i \in 1..Len(d) \/ (i = Len(d) + 1 /\ a + i - 1 = a + Len(d))
    BY <1>1, <2>1, SMT
  <2>3. i \in 1..Len(d) => d[i] = mem[(a + i - 1) % Words]
    BY DEF FromMemory
  <2> QED BY <1>1, <2>2, <2>3
<1> QED
  BY <1>2 DEF FromMemory

\* Memory changes only at a word of a write.
LEMMA MemoryKept ==
  ASSUME Typed, InPhase, [Next]_vars, mem' # mem
  PROVE  Board /\ WordArrives /\ Taken /\ call.op.cmd = "write" /\ call # NoCall
<1>1. Board /\ WordArrives
  BY DEF Next, Begin, HostStep, Send, ReceiveAck, ReceiveHead, ReceiveTail, TimesOut, Reading,
         Line, LoseRequest, CorruptRequest, LoseAnswer, GarbleAnswer, Board, BoardStep, KernelEnds,
         PacketArrives, PacketMissed, CrcFails, PacketDone, Answer, WriteResponse,
         ValidateResponse, ServeWord, IssueAnswer, vars, board
<1>2. Taken
  BY <1>1, StepWord
<1>3. rx.p.cmd = "write"
  BY <1>1 DEF WordArrives, ProgramWord
<1>4. call.op.cmd = "write"
  BY <1>2, <1>3 DEF Taken, Asks
<1> QED
  BY <1>1, <1>2, <1>4 DEF NoCall

\* Nothing a read depends on has changed.
LEMMA ReadKept ==
  ASSUME ReadSoFar /\ ReadServed /\ ReadAnswered /\ ReadReturned,
         call.op.cmd = "read" \/ call = NoCall => mem' = mem,
         UNCHANGED <<call.op, call.off, call.data, last>>, call' = NoCall => call = NoCall
  PROVE  /\ ReadSoFar' /\ ReadReturned'
         /\ fsm = "read" /\ tx' = tx => ReadServed'
         /\ fsm' # "read" => ReadServed'
         /\ ~Heard' => ReadAnswered'
         /\ Heard /\ AnswerHead' = AnswerHead /\ AnswerTail' = AnswerTail => ReadAnswered'
<1>1. ChunkAddr' = ChunkAddr
  BY SameChunk
<1>2. ReadSoFar'
  BY DEF ReadSoFar, FromMemory
<1>3. ReadReturned'
  BY DEF ReadReturned, FromMemory
<1>4. fsm = "read" /\ tx' = tx => ReadServed'
  BY <1>1 DEF ReadServed, FromMemory
<1>5. Heard /\ AnswerHead' = AnswerHead /\ AnswerTail' = AnswerTail => ReadAnswered'
  BY <1>1 DEF ReadAnswered, FromMemory
<1> QED
  BY <1>2, <1>3, <1>4, <1>5 DEF ReadServed, ReadAnswered

\* A call that ends in failure, or is not a read, returns nothing here.
LEMMA ReadFails ==
  ASSUME Typed, ReadSoFar, ReadReturned, mem' = mem, Resting', OnePhase', call.at # "none",
         Retry \/ Return(FALSE, << >>)
  PROVE  ReadSoFar' /\ ReadServed' /\ ReadAnswered' /\ ReadReturned'
<1>1. /\ fsm' # "read" /\ ~Heard'
      /\ NoCall.op.cmd # "read" /\ NoCall.at = "none"
  BY DEF Resting, Quiet, OnePhase, NoCall
<1>2. \/ UNCHANGED <<call.op, call.off, call.data, last>> /\ call'.at = "send"
      \/ call' = NoCall /\ last' = [op |-> call.op, ok |-> FALSE, data |-> << >>]
  BY RetryEffect DEF Return
<1>3. CASE UNCHANGED <<call.op, call.off, call.data, last>> /\ call'.at = "send"
  BY <1>1, <1>3 DEF ReadSoFar, ReadServed, ReadAnswered, ReadReturned, FromMemory
<1>4. CASE call' = NoCall /\ last' = [op |-> call.op, ok |-> FALSE, data |-> << >>]
  <2>1. ~last'.ok /\ call'.op.cmd # "read"
    BY <1>1, <1>4
  <2> QED BY <2>1 DEF ReadSoFar, ReadServed, ReadAnswered, ReadReturned
<1> QED
  BY <1>2, <1>3, <1>4

\* A chunk of a read that has been answered joins those before it.
LEMMA ReadAdvances ==
  ASSUME Typed, ReadSoFar, ReadAnswered, mem' = mem, Resting', OnePhase', Heard,
         call.op.cmd = "read", call.at = "tail", AnswerHead = ResponseHeader, AnswerTail.ok,
         AnswerTail.data \in Seq(Datum), Len(AnswerTail.data) = AnswerHead.len,
         ChunkDone(AnswerTail.data)
  PROVE  ReadSoFar' /\ ReadServed' /\ ReadAnswered' /\ ReadReturned'
<1> DEFINE data == call.data \o AnswerTail.data
<1>1. /\ fsm' # "read" /\ ~Heard'
      /\ NoCall.op.cmd # "read" /\ NoCall.at = "none"
  BY DEF Resting, Quiet, OnePhase, NoCall
<1>2. /\ AnswerHead.cmd = "read" /\ Len(AnswerTail.data) = Len(Chunk)
      /\ ChunkAddr = call.op.addr + call.off
  BY DEF ResponseHeader, ResponseLen, Header, ChunkAddr
<1>3. call.data \in Seq(Datum) /\ call.op.addr \in Nat /\ Len(call.data) = call.off
  <2>1. call.op \in Op
    BY ChunkWords DEF Typed
  <2>2. call.op.addr \in Addr /\ Words \in Nat
    BY <2>1, Constants
  <2>3. call.op.addr \in Nat
    BY <2>2, SMT DEF Addr
  <2> QED BY <2>3 DEF Typed, TypeOK, CallTypes, HostTypes, ReadSoFar
<1>4. FromMemory(call.data, call.op.addr) /\ FromMemory(AnswerTail.data, call.op.addr + Len(call.data))
  BY <1>2, <1>3 DEF ReadSoFar, ReadAnswered
<1>5. FromMemory(data, call.op.addr)
  BY <1>3, <1>4, ReadsJoin
<1>6. Len(data) = call.off + Len(Chunk)
  <2>1. AnswerTail.data \in Seq(Datum)
    OBVIOUS
  <2>2. \A d, e \in Seq(Datum) : Len(d \o e) = Len(d) + Len(e)
    BY ConcatProperties
  <2> QED BY <1>2, <1>3, <2>1, <2>2
<1> HIDE DEF data
<1>7. \/ /\ call'.off = call.off + Len(Chunk) /\ call'.at = "send"
         /\ call'.op = call.op /\ call'.data = data
      \/ /\ call.off + Len(Chunk) = Len(call.op.words) /\ call' = NoCall
         /\ last' = [op |-> call.op, ok |-> TRUE, data |-> data]
  BY DoneEffect, Zenon DEF data
<1>8. CASE /\ call'.off = call.off + Len(Chunk) /\ call'.at = "send"
           /\ call'.op = call.op /\ call'.data = data
  <2>1. call'.op = call.op /\ call'.data = data /\ Len(call'.data) = call'.off /\ call'.at = "send"
    BY <1>6, <1>8
  <2>2. call' # NoCall
    BY <1>1, <2>1
  <2>3. ReadSoFar'
    BY <1>5, <2>1 DEF ReadSoFar, FromMemory
  <2> QED BY <1>1, <2>2, <2>3 DEF ReadServed, ReadAnswered, ReadReturned
<1>9. CASE /\ call.off + Len(Chunk) = Len(call.op.words) /\ call' = NoCall
           /\ last' = [op |-> call.op, ok |-> TRUE, data |-> data]
  <2>1. last'.op = call.op /\ last'.data = data /\ call'.op.cmd # "read"
    BY <1>1, <1>9
  <2>2. Len(last'.data) = Len(last'.op.words)
    BY <1>6, <1>9, <2>1
  <2>3. ReadReturned'
    BY <1>5, <2>1, <2>2 DEF ReadReturned, FromMemory
  <2> QED BY <2>1, <2>3 DEF ReadSoFar, ReadServed, ReadAnswered
<1> QED
  BY <1>7, <1>8, <1>9

\* A chunk of any other call that has been answered.
LEMMA OthersAdvance ==
  ASSUME Typed, Resting', OnePhase', call.op.cmd # "read", call.at # "none",
         NEW data, ChunkDone(data)
  PROVE  ReadSoFar' /\ ReadServed' /\ ReadAnswered' /\ ReadReturned'
<1>1. NoCall.op.cmd # "read" /\ NoCall.at = "none"
  BY DEF NoCall
<1>2. \/ call'.at = "send" /\ call'.op = call.op
      \/ call' = NoCall /\ last' = [op |-> call.op, ok |-> TRUE, data |-> call.data \o data]
  BY DoneEffect, Zenon
<1>3. call'.op.cmd # "read" /\ (call' = NoCall => last'.op = call.op)
  <2>1. last' = [op |-> call.op, ok |-> TRUE, data |-> call.data \o data] => last'.op = call.op
    OBVIOUS
  <2> QED BY <1>1, <1>2, <2>1
<1> QED
  BY <1>3 DEF ReadSoFar, ReadServed, ReadAnswered, ReadReturned

\* The step of the proof below that the host takes.
LEMMA ReadOnHost ==
  ASSUME Typed, OnePhase', InPhase, "late" \notin seen', Begin \/ HostStep,
         ReadSoFar /\ ReadServed /\ ReadAnswered /\ ReadReturned, mem' = mem
  PROVE  ReadSoFar' /\ ReadServed' /\ ReadAnswered' /\ ReadReturned'
<1>1. call.at # "none" => call # NoCall
  BY DEF NoCall
<1>2. CASE Begin
  <2>1. Resting' /\ call'.at = "send" /\ call'.off = 0 /\ call'.data = << >>
    BY <1>2, StepBegins
  <2>2. fsm' # "read" /\ ~Heard'
    BY <2>1 DEF Resting, Quiet, OnePhase
  <2>3. call' # NoCall
    BY <2>1 DEF NoCall
  <2>4. Len(<< >>) = 0 /\ \A a : FromMemory(<< >>, a)'
    <3>1. Len(<< >>) = 0
      BY EmptySeq
    <3>2. 1..Len(<< >>) = {}
      BY <3>1, SMT
    <3> QED BY <3>1, <3>2 DEF FromMemory
  <2>5. ReadSoFar'
    BY <2>1, <2>4 DEF ReadSoFar, FromMemory
  <2> QED BY <2>2, <2>3, <2>5 DEF ReadServed, ReadAnswered, ReadReturned
<1>3. CASE Send
  <2>1. /\ Sent' /\ Resting /\ UNCHANGED <<call.op, call.off, call.data, last>> /\ fsm' = fsm
        /\ call.at = "send"
        /\ call' = [call EXCEPT !.at = IF call.op.cmd \in Reads THEN "head" ELSE "ack"]
    BY <1>3, StepSends DEF Send
  <2>2. fsm' # "read" /\ ~Heard'
    BY <2>1 DEF Resting, Quiet, OnePhase
  <2>3. call' # NoCall
    BY <2>1 DEF NoCall, Typed, TypeOK, HostTypes, CallTypes
  <2> QED BY <2>1, <2>2, <2>3, ReadKept
<1>4. CASE ReceiveAck
  <2>1. Resting' /\ call.at = "ack" /\ call.op.cmd \notin Reads /\ (ChunkDone(<< >>) \/ Retry)
    BY <1>4, StepHearsAck
  <2>2. call.op.cmd # "read"
    BY <2>1 DEF Reads
  <2> QED BY <2>1, <2>2, OthersAdvance, ReadFails
<1>5. CASE ReceiveHead
  <2>1. /\ call'.at = "tail" /\ UNCHANGED <<fsm, tx>>
        /\ UNCHANGED <<call.op, call.off, call.data, last>>
        /\ \/ Serving'
           \/ Heard /\ Heard' /\ AnswerHead' = AnswerHead /\ AnswerTail' = AnswerTail
    BY <1>5, StepHearsHead DEF Reading
  <2>2. call' # NoCall
    BY <2>1 DEF NoCall
  <2>3. Serving' => ~Heard'
    BY DEF OnePhase
  <2> QED BY <2>1, <2>2, <2>3, ReadKept
<1>6. CASE ReceiveTail
  <2>1. /\ Heard /\ Resting' /\ call.at = "tail"
        /\ AnswerTail.data \in Seq(Datum) /\ Len(AnswerTail.data) = AnswerHead.len
        /\ AnswerHead.cmd = call.op.cmd => AnswerHead = ResponseHeader
        /\ IF ~AnswerTail.ok THEN Retry
           ELSE IF AnswerHead.cmd = call.op.cmd THEN ChunkDone(AnswerTail.data)
           ELSE Return(FALSE, << >>)
    BY <1>6, StepHearsTail
  <2>2. CASE Retry \/ Return(FALSE, << >>)
    BY <2>1, <2>2, ReadFails
  <2>3. CASE AnswerTail.ok /\ AnswerHead.cmd = call.op.cmd /\ ChunkDone(AnswerTail.data)
    <3>1. CASE call.op.cmd = "read"
      BY <2>1, <2>3, <3>1, ReadAdvances
    <3>2. CASE call.op.cmd # "read"
      BY <2>1, <2>3, <3>2, OthersAdvance
    <3> QED BY <3>1, <3>2
  <2> QED BY <2>1, <2>2, <2>3
<1>7. CASE TimesOut
  <2>1. Resting' /\ Retry /\ call.at # "none"
    BY <1>7, StepTimesOut DEF TimesOut
  <2> QED BY <2>1, ReadFails
<1> QED
  BY <1>2, <1>3, <1>4, <1>5, <1>6, <1>7 DEF HostStep

\* The step of the proof below that the board takes.
LEMMA ReadOnBoard ==
  ASSUME Typed, Typed', OnePhase, OnePhase', InPhase, Board,
         ReadSoFar /\ ReadServed /\ ReadAnswered /\ ReadReturned,
         call.op.cmd = "read" \/ call = NoCall => mem' = mem
  PROVE  ReadSoFar' /\ ReadServed' /\ ReadAnswered' /\ ReadReturned'
<1>1. UNCHANGED <<call, last>> /\ UNCHANGED <<call.op, call.off, call.data, last>>
      /\ ChunkAddr' = ChunkAddr
  BY BoardKeepsCall
<1>2. /\ ReadSoFar' /\ ReadReturned'
      /\ fsm = "read" /\ tx' = tx => ReadServed'
      /\ fsm' # "read" => ReadServed'
      /\ ~Heard' => ReadAnswered'
      /\ Heard /\ AnswerHead' = AnswerHead /\ AnswerTail' = AnswerTail => ReadAnswered'
  BY <1>1, ReadKept
<1>3. CASE PacketArrives \/ WordArrives
  <2>1. Taken'
    BY <1>3, StepArrives, StepWord
  <2>2. ~Heard' /\ fsm' # "read"
    BY <2>1 DEF OnePhase, Taken, Quiet
  <2> QED BY <1>2, <2>2
<1>4. CASE PacketMissed
  <2>1. Silent' /\ ~Heard' /\ fsm' # "read"
    BY <1>4, StepMissed DEF OnePhase, Silent, Quiet
  <2> QED BY <1>2, <2>1
<1>5. CASE CrcFails
  <2>1. Owing' /\ ~Heard' /\ fsm' # "read"
    BY <1>5, StepCrcFails DEF OnePhase, Owing
  <2> QED BY <1>2, <2>1
<1>6. CASE PacketDone
  <2>1. \/ Working' \/ Holding'
        \/ Serving' /\ tx'.data = << >>
    BY <1>6, StepDone
  <2>2. ~Heard' /\ (fsm' # "read" \/ tx'.data = << >>)
    BY <2>1 DEF OnePhase, Working, Holding, Quiet
  <2>3. Len(<< >>) = 0 /\ 1..0 = {}
    BY EmptySeq, SMT
  <2>4. tx'.data = << >> => ReadServed'
    BY <2>3 DEF ReadServed, FromMemory
  <2> QED BY <1>2, <2>2, <2>4
<1>7. CASE Answer
  <2>1. CASE Owing'
    <3>1. ~Heard' /\ fsm' # "read"
      BY <2>1 DEF OnePhase, Owing
    <3> QED BY <1>2, <3>1
  <2>2. CASE /\ ReceiverOpen /\ ReceiverOpen'
             /\ UNCHANGED <<line, fsm, pending, tx, rd, answers, call>>
    <3>1. (Heard' <=> Heard) /\ AnswerHead' = AnswerHead /\ AnswerTail' = AnswerTail
      BY <2>2, OpenPhases
    <3> QED BY <1>2, <2>2, <3>1
  <2> QED BY <1>7, <2>1, <2>2, StepAnswer
<1>8. CASE WriteResponse \/ ValidateResponse
  <2>1. Holding' /\ ~Heard' /\ fsm' # "read"
    BY <1>8, StepWritten, StepValidated DEF OnePhase, Holding, Quiet
  <2> QED BY <1>2, <2>1
<1>9. CASE ServeWord
  <2>1. PICK word \in Datum :
          /\ call.op.cmd = "read" => word = mem[(ChunkAddr + Len(tx.data)) % Words]
          /\ \/ Serving' /\ tx'.data = Append(tx.data, word)
             \/ Heard' /\ AnswerTail'.data = Append(tx.data, word)
    BY <1>9, StepServes
  <2>2. Serving /\ fsm = "read" /\ tx.data \in Seq(Datum) /\ call.at # "none" /\ ChunkAddr \in Nat
    <3>1. Serving
      BY <1>9, StepServes
    <3>2. call.at # "none" /\ fsm = "read"
      BY <3>1 DEF Serving
    <3> QED BY <3>1, <3>2, ChunkWords DEF Typed, TypeOK, BoardTypes
  <2>3. CASE call.op.cmd = "read"
    <3>1. FromMemory(Append(tx.data, word), ChunkAddr)
      <4>1. FromMemory(tx.data, ChunkAddr)
        BY <2>2, <2>3 DEF ReadServed
      <4> QED BY <2>1, <2>2, <2>3, <4>1, ReadsGrow
    <3>2. mem' = mem
      BY <2>3
    <3>3. CASE Serving' /\ tx'.data = Append(tx.data, word)
      <4>1. ReadServed'
        BY <1>1, <3>1, <3>2, <3>3 DEF ReadServed, FromMemory
      <4> QED BY <1>2, <3>3, <4>1 DEF OnePhase
    <3>4. CASE Heard' /\ AnswerTail'.data = Append(tx.data, word)
      <4>1. ReadAnswered'
        BY <1>1, <3>1, <3>2, <3>4 DEF ReadAnswered, FromMemory
      <4>2. fsm' # "read"
        BY <3>4 DEF Heard, Quiet
      <4> QED BY <1>2, <4>1, <4>2
    <3> QED BY <2>1, <3>3, <3>4
  <2>4. CASE call.op.cmd # "read"
    BY <1>1, <1>2, <2>4 DEF ReadServed, ReadAnswered
  <2> QED BY <2>3, <2>4
<1>10. CASE IssueAnswer
  <2>1. Heard' /\ AnswerHead'.cmd \in {"ack", "nak"}
    BY <1>10, StepIssues
  <2>2. fsm' # "read" /\ ReadAnswered'
    BY <2>1 DEF Heard, Quiet, ReadAnswered
  <2> QED BY <1>2, <2>2
<1>11. CASE KernelEnds
  <2>1. /\ (Heard' <=> Heard) /\ AnswerHead' = AnswerHead /\ AnswerTail' = AnswerTail
        /\ UNCHANGED <<fsm, tx>>
    BY <1>1, <1>11, SamePhases DEF KernelEnds
  <2> QED BY <1>2, <2>1
<1> QED
  BY <1>3, <1>4, <1>5, <1>6, <1>7, <1>8, <1>9, <1>10, <1>11 DEF Board, BoardStep

\* The step of the proof below that the line takes.
LEMMA ReadOnLine ==
  ASSUME Typed, OnePhase, OnePhase', InPhase, Line, mem' = mem,
         ReadSoFar /\ ReadServed /\ ReadAnswered /\ ReadReturned
  PROVE  ReadSoFar' /\ ReadServed' /\ ReadAnswered' /\ ReadReturned'
<1>1. /\ UNCHANGED <<call, last, fsm, tx>>
      /\ \/ Sent' \/ Silent'
         \/ Heard' /\ ~AnswerTail'.ok
  BY StepLoses, StepCorrupts, StepDrops, StepGarbles DEF Line
<1>2. UNCHANGED <<call.op, call.off, call.data, last>>
  BY <1>1
<1>3. /\ ReadSoFar' /\ ReadReturned' /\ ReadServed'
      /\ ~Heard' => ReadAnswered'
  BY <1>1, <1>2, ReadKept
<1>4. ReadAnswered'
  BY <1>1, <1>3 DEF OnePhase, ReadAnswered
<1> QED
  BY <1>3, <1>4

\* A read that succeeds returns what memory holds, however many of its packets
\* and answers were lost, garbled, refused or sent again, as long as the host
\* never gives up on an answer the board still owes it.
THEOREM ReadsInTime == Spec => []ReadInTime
<1>1. Init => ReadInv
  BY DEF Init, NoCall, ReadInv, ReadSoFar, ReadServed, ReadAnswered, ReadReturned
<1>2. Typed /\ Typed' /\ OnePhase /\ OnePhase' /\ Exchange /\ ReadInv /\ [Next]_vars => ReadInv'
  <2> SUFFICES ASSUME Typed, Typed', OnePhase, OnePhase', Exchange, ReadInv, [Next]_vars,
                      "late" \notin seen'
               PROVE  ReadSoFar' /\ ReadServed' /\ ReadAnswered' /\ ReadReturned'
    BY DEF ReadInv
  <2>1. InPhase /\ ReadSoFar /\ ReadServed /\ ReadAnswered /\ ReadReturned
    BY LateStays DEF Exchange, ReadInv
  <2>2. /\ call.op.cmd = "read" \/ call = NoCall => mem' = mem
        /\ mem' # mem => Board /\ WordArrives
    BY <2>1, MemoryKept
  <2>3. Begin \/ HostStep \/ Line => mem' = mem
    BY DEF Begin, HostStep, Send, ReceiveAck, ReceiveHead, ReceiveTail, TimesOut, Reading,
           Line, LoseRequest, CorruptRequest, LoseAnswer, GarbleAnswer, board
  <2>4. CASE UNCHANGED vars
    <3>1. UNCHANGED <<call, last, mem, fsm, tx>>
      BY <2>4 DEF vars, board, host
    <3> QED BY <2>1, <2>4, <3>1, SameExchange, ReadKept
  <2> QED
    BY <2>1, <2>2, <2>3, <2>4, ReadOnHost, ReadOnBoard, ReadOnLine DEF Next
<1>3. Typed /\ ReadInv => ReadInTime
  <2> SUFFICES ASSUME Typed, ReadInv, "late" \notin seen, call = NoCall, last.ok,
                      last.op.cmd = "read", NEW i \in DOMAIN last.op.words
               PROVE  last.data[i] = mem[(last.op.addr + i - 1) % Words]
    BY DEF ReadInTime, ReadReturnsMemory
  <2>1. Len(last.data) = Len(last.op.words) /\ FromMemory(last.data, last.op.addr)
    BY DEF ReadInv, ReadReturned
  <2>2. last.op \in Op
    BY DEF Typed, TypeOK, HostTypes, CallTypes, Calls, NoCall
  <2>3. last.op.words \in Seq(Value)
    BY <2>2, Constants
  <2>4. i \in 1..Len(last.op.words)
    BY <2>3, LenProperties
  <2> QED BY <2>1, <2>4 DEF FromMemory
<1> QED
  BY <1>1, <1>2, <1>3, LinkIsTyped, TurnsAreTaken, PhasesApart, PTL DEF Spec

-----------------------------------------------------------------------------
(***************************************************************************)
(* What an acknowledged write has written.                                 *)
(***************************************************************************)
\* The CRC of a packet comes after its last word.
THEOREM CrcComesLast == Spec => []AllTaken
<1>1. Init => AllTaken
  BY DEF Init, BoardInit, AllTaken
<1>2. Typed /\ AllTaken /\ [Next]_vars => AllTaken'
  <2> SUFFICES ASSUME Typed, AllTaken, [Next]_vars PROVE AllTaken'
    OBVIOUS
  <2>1. CASE PacketArrives
    <3>1. rx' = [st |-> IF Head(line).words = << >> THEN "crc" ELSE "payload",
                 p |-> Head(line), at |-> 0]
      BY <2>1 DEF PacketArrives
    <3>2. Len(<< >>) = 0
      BY EmptySeq
    <3> QED BY <3>1, <3>2 DEF AllTaken
  <2>2. CASE WordArrives
    <3>1. rx' = [rx EXCEPT !.at = @ + 1,
                           !.st = IF rx.at + 1 = Len(rx.p.words) THEN "crc" ELSE "payload"]
      BY <2>2 DEF WordArrives
    <3>2. rx'.p = rx.p /\ rx'.at = rx.at + 1
          /\ rx'.st = IF rx.at + 1 = Len(rx.p.words) THEN "crc" ELSE "payload"
      BY <3>1 DEF Typed, TypeOK, BoardTypes
    <3> QED BY <3>2 DEF AllTaken
  <2>3. CASE PacketDone \/ CrcFails \/ Answer
    <3>1. rx'.st \in {"wait", "idle"}
      BY <2>3 DEF PacketDone, CrcFails, Answer, Typed, TypeOK, BoardTypes
    <3> QED BY <3>1 DEF AllTaken
  <2>4. CASE rx' = rx
    BY <2>4 DEF AllTaken
  <2>5. rx' = rx \/ PacketArrives \/ WordArrives \/ PacketDone \/ CrcFails \/ Answer
    BY DEF Next, Begin, HostStep, Send, ReceiveAck, ReceiveHead, ReceiveTail, TimesOut, Reading,
           Line, LoseRequest, CorruptRequest, LoseAnswer, GarbleAnswer, Board, BoardStep,
           KernelEnds, PacketMissed, WriteResponse, ValidateResponse, ServeWord, IssueAnswer,
           vars, board
  <2> QED BY <2>1, <2>2, <2>3, <2>4, <2>5
<1> QED
  BY <1>1, <1>2, LinkIsTyped, PTL DEF Spec

\* How far the chunk of a write has got, phase by phase.
ReachedInPhase ==
  /\ Resting \/ Sent \/ Silent \/ Serving => Reached = 0
  /\ Taken => Reached = rx.at
  /\ Working => Reached = Len(Chunk)
  /\ Holding => Reached = IF hold = "done" THEN Len(Chunk) ELSE 0
  /\ Owing => Reached = IF pending.nak THEN 0 ELSE Len(Chunk)
  /\ Heard => Reached = IF AnswerHead.cmd = "ack" /\ AnswerTail.ok THEN Len(Chunk) ELSE 0
  /\ InPhase => Reached \in Nat

LEMMA ReachedByPhase == Typed /\ OnePhase => ReachedInPhase
<1> SUFFICES ASSUME Typed, OnePhase PROVE ReachedInPhase
  OBVIOUS
<1>1. Resting \/ Sent \/ Silent \/ Serving => Reached = 0
  BY DEF OnePhase, Reached
<1>2. Taken => Reached = rx.at
  BY DEF Reached, Taken
<1>3. Working => Reached = Len(Chunk)
  BY DEF OnePhase, Reached
<1>4. Holding => Reached = IF hold = "done" THEN Len(Chunk) ELSE 0
  BY DEF OnePhase, Reached
<1>5. Owing => Reached = IF pending.nak THEN 0 ELSE Len(Chunk)
  BY DEF OnePhase, Reached
<1>6. Heard => Reached = IF AnswerHead.cmd = "ack" /\ AnswerTail.ok THEN Len(Chunk) ELSE 0
  BY DEF OnePhase, Reached
<1>7. ASSUME InPhase PROVE Reached \in Nat
  <2>1. rx.at \in Nat /\ 0 \in Nat
    BY DEF Typed, TypeOK, BoardTypes
  <2>2. Working \/ Holding \/ Owing \/ Heard => call.at # "none"
    BY DEF Working, Holding, Owing, Heard, AtStart
  <2>3. call.at # "none" => Len(Chunk) \in Nat
    BY ChunkWords, LenProperties DEF Typed
  <2> QED BY <1>1, <1>2, <1>3, <1>4, <1>5, <1>6, <1>7, <2>1, <2>2, <2>3 DEF InPhase
<1> QED
  BY <1>1, <1>2, <1>3, <1>4, <1>5, <1>6, <1>7 DEF ReachedInPhase

\* Nothing a write depends on has changed.
LEMMA WriteKept ==
  ASSUME Typed, Stored /\ Unsettled /\ Landed, UNCHANGED <<mem, want>>,
         UNCHANGED <<call.op, call.off>>, Reached \in Nat,
         call.op.cmd = "write" => Reached' \in {0, Reached}
  PROVE  Stored' /\ Unsettled' /\ Landed'
<1>1. Stored'
  BY DEF Stored
<1>2. Unsettled'
  BY DEF Unsettled, Covered
<1>3. call.off \in Nat
  BY DEF Typed, TypeOK, HostTypes, CallTypes
<1>4. 0..(call.off + 0 - 1) \subseteq 0..(call.off + Reached - 1)
  BY <1>3, SMT
<1>5. Landed'
  BY <1>4 DEF Landed
<1> QED
  BY <1>1, <1>2, <1>5

\* The count stands while the receiver does.
LEMMA CountKept ==
  ASSUME Counted, UNCHANGED <<rx, wordsSeen>>, ~(Holding /\ hold = "fail")
  PROVE  Counted'
  BY DEF Counted

\* What the history noted is not forgotten.
LEMMA SoundBefore ==
  ASSUME [Next]_vars, Sound'
  PROVE  Sound
<1>1. seen \ {"started", "closed"} \subseteq seen'
  BY DEF Next, Begin, HostStep, Send, ReceiveAck, ReceiveHead, ReceiveTail, TimesOut,
         Line, LoseRequest, CorruptRequest, LoseAnswer, GarbleAnswer, Board, vars, host
<1> QED
  BY <1>1 DEF Sound

\* An attempt in vain, or a call that fails, changes nothing a write promised.
LEMMA WriteFails ==
  ASSUME Typed, Stored /\ Unsettled /\ Landed, mem' = mem, Resting', Reached \in Nat, Reached' = 0,
         call.at # "none", Retry \/ Return(FALSE, << >>)
  PROVE  Stored' /\ Unsettled' /\ Landed'
<1>1. want' = want
      /\ (UNCHANGED <<call.op, call.off>> \/ call' = NoCall)
  BY RetryEffect DEF Return
<1>2. CASE UNCHANGED <<call.op, call.off>>
  BY <1>1, <1>2, WriteKept
<1>3. CASE call' = NoCall
  <2>1. call'.op.cmd # "write"
    BY <1>3 DEF NoCall
  <2> QED BY <1>1, <2>1 DEF Stored, Unsettled, Landed
<1> QED
  BY <1>1, <1>2, <1>3

\* An acknowledged chunk is in memory, and with the last one the whole write.
LEMMA WriteAdvances ==
  ASSUME Typed, Stored /\ Unsettled /\ Landed, mem' = mem, Resting', Reached' = 0,
         call.op.cmd = "write" => Reached = Len(Chunk), call.at # "none",
         NEW data, ChunkDone(data)
  PROVE  Stored' /\ Unsettled' /\ Landed'
<1> DEFINE op == call.op
<1>1. /\ op \in Op /\ Len(Chunk) \in Nat /\ call.off \in Nat
  BY ChunkWords, LenProperties DEF Typed, TypeOK, HostTypes, CallTypes
<1>2. \/ /\ call'.off = call.off + Len(Chunk) /\ call'.op = op /\ want' = want
      \/ /\ call.off + Len(Chunk) = Len(op.words) /\ call' = NoCall
         /\ Return(TRUE, call.data \o data)
  BY DoneEffect, Zenon
<1>3. CASE call'.off = call.off + Len(Chunk) /\ call'.op = op /\ want' = want
  <2>1. Stored' /\ Unsettled'
    BY <1>3 DEF Stored, Unsettled, Covered
  <2>2. call'.off + 0 - 1 = call.off + Len(Chunk) - 1
    BY <1>1, <1>3, SMT
  <2>3. Landed'
    BY <1>3, <2>2 DEF Landed
  <2> QED BY <2>1, <2>3
<1>4. CASE /\ call.off + Len(Chunk) = Len(op.words) /\ call' = NoCall
           /\ Return(TRUE, call.data \o data)
  <2>1. call'.op.cmd # "write"
    BY <1>4 DEF NoCall
  <2>2. want' = IF op.cmd # "write" THEN want
                ELSE [a \in Addr |-> IF a \in Covered(op)
                                     THEN op.words[((a - op.addr) % Words) + 1] ELSE want[a]]
    BY <1>4 DEF Return
  <2>3. ASSUME op.cmd = "write", NEW a \in Addr, want'[a] # Unknown
        PROVE  mem[a] = want'[a]
    <3>1. CASE a \in Covered(op)
      <4> DEFINE i == (a - op.addr) % Words
      <4>1. i \in 0..(Len(op.words) - 1) /\ a = (op.addr + i) % Words
        BY <1>1, <3>1, CoveredWord
      <4>2. call.off + Reached - 1 = Len(op.words) - 1
        <5>1. Reached = Len(Chunk)
          BY <2>3
        <5>2. call.off + Len(Chunk) = Len(op.words)
          BY <1>4
        <5>3. call.off + Reached = Len(op.words)
          BY <5>1, <5>2
        <5>4. Len(op.words) \in Nat /\ Reached \in Nat
          BY <1>1, <5>1, Constants
        <5> HIDE DEF op
        <5> QED BY <1>1, <5>3, <5>4, SMT
      <4>3. want'[a] = op.words[i + 1]
        BY <2>2, <2>3, <3>1
      <4> HIDE DEF i
      <4>4. mem[(op.addr + i) % Words] = op.words[i + 1]
        BY <2>3, <4>1, <4>2 DEF Landed
      <4> QED BY <4>1, <4>3, <4>4
    <3>2. CASE a \notin Covered(op)
      BY <2>2, <2>3, <3>2 DEF Stored
    <3> QED BY <3>1, <3>2
  <2>4. Stored'
    BY <2>2, <2>3 DEF Stored
  <2> QED BY <2>1, <2>4 DEF Unsettled, Landed
<1> QED
  BY <1>2, <1>3, <1>4

\* The step of the proof below that the host takes.
LEMMA WriteOnHost ==
  ASSUME Typed, Typed', OnePhase, OnePhase', InPhase, "late" \notin seen', Begin \/ HostStep,
         Stored /\ GoodWords /\ Counted /\ Unsettled /\ Landed
  PROVE  Stored' /\ GoodWords' /\ Counted' /\ Unsettled' /\ Landed'
<1>1. UNCHANGED <<mem, rx, wordsSeen>>
  BY DEF Begin, HostStep, Send, ReceiveAck, ReceiveHead, ReceiveTail, TimesOut, Reading, board
<1>2. Reached \in Nat
  BY ReachedByPhase DEF ReachedInPhase
<1>3. Resting' \/ Sent' \/ Serving' \/ Silent' => Reached' = 0
  <2>1. ReachedInPhase'
    BY ReachedByPhase, PTL
  <2> QED BY <2>1 DEF ReachedInPhase
<1>4. Resting' \/ Sent' \/ Serving' \/ Heard' => GoodWords'
  BY DEF OnePhase, GoodWords
<1>5. Resting \/ Sent \/ Serving \/ Heard \/ Silent => Counted'
  BY <1>1, CountKept DEF OnePhase
<1>6. CASE Begin
  <2>1. PICK op \in Op : /\ call'.op = op /\ call'.off = 0
                         /\ want' = IF op.cmd # "write" THEN want
                                    ELSE [a \in Addr |-> IF a \in Covered(op) THEN Unknown ELSE want[a]]
    BY <1>6, StepBegins
  <2>2. Resting /\ Resting'
    BY <1>6, StepBegins
  <2>3. Stored'
    BY <1>1, <2>1 DEF Stored
  <2>4. Covered(op)' = Covered(op) /\ \A a \in Covered(op) : a \in Addr
    BY CoveredWord DEF Covered
  <2>5. Unsettled'
    BY <2>1, <2>4, CoveredWord DEF Unsettled, Covered
  <2>6. 0..(0 + 0 - 1) = {}
    BY SMT
  <2>7. Landed'
    BY <1>3, <2>1, <2>2, <2>6 DEF Landed
  <2> QED BY <1>4, <1>5, <2>2, <2>3, <2>5, <2>7
<1>7. CASE Send
  <2>1. Resting /\ Sent' /\ UNCHANGED <<call.op, call.off>> /\ want' = want
    BY <1>7, StepSends
  <2> QED BY <1>1, <1>2, <1>3, <1>4, <1>5, <2>1, WriteKept
<1>8. CASE ReceiveAck
  <2>1. /\ Heard /\ Resting' /\ call.at # "none"
        /\ IF AnswerHead.cmd = "ack" /\ AnswerTail.ok THEN ChunkDone(<< >>) ELSE Retry
    BY <1>8, StepHearsAck
  <2>2. CASE AnswerHead.cmd = "ack" /\ AnswerTail.ok
    <3>1. Reached = Len(Chunk)
      BY <2>1, <2>2, ReachedByPhase DEF ReachedInPhase
    <3>2. Stored' /\ Unsettled' /\ Landed'
      BY <1>1, <1>3, <2>1, <2>2, <3>1, WriteAdvances
    <3> QED BY <1>4, <1>5, <2>1, <3>2
  <2>3. CASE ~(AnswerHead.cmd = "ack" /\ AnswerTail.ok)
    <3>1. Stored' /\ Unsettled' /\ Landed'
      BY <1>1, <1>2, <1>3, <2>1, <2>3, WriteFails
    <3> QED BY <1>4, <1>5, <2>1, <3>1
  <2> QED BY <2>2, <2>3
<1>9. CASE ReceiveHead
  <2>1. UNCHANGED <<call.op, call.off>> /\ want' = want /\ call.at = "head"
        /\ \/ Serving /\ Serving'
           \/ Heard /\ Heard'
    BY <1>9, StepHearsHead
  <2>2. call.op.cmd # "write"
    BY <2>1 DEF Typed, CallInv, Reads
  <2> QED BY <1>1, <1>2, <1>4, <1>5, <2>1, <2>2, WriteKept
<1>10. CASE ReceiveTail
  <2>1. /\ Heard /\ Resting' /\ call.at # "none" /\ call.op.cmd \in Reads
        /\ Retry \/ Return(FALSE, << >>) \/ ChunkDone(AnswerTail.data)
    BY <1>10, StepHearsTail
  <2>2. call.op.cmd # "write"
    BY <2>1 DEF Reads
  <2>3. Stored' /\ Unsettled' /\ Landed'
    BY <1>1, <1>2, <1>3, <2>1, <2>2, WriteFails, WriteAdvances
  <2> QED BY <1>4, <1>5, <2>1, <2>3
<1>11. CASE TimesOut
  <2>1. Silent /\ Resting' /\ Retry /\ call.at # "none"
    BY <1>11, StepTimesOut DEF TimesOut
  <2>2. Stored' /\ Unsettled' /\ Landed'
    BY <1>1, <1>2, <1>3, <2>1, WriteFails
  <2> QED BY <1>4, <1>5, <2>1, <2>2
<1> QED
  BY <1>6, <1>7, <1>8, <1>9, <1>10, <1>11 DEF HostStep

\* The step of the proof below that the line takes.
LEMMA WriteOnLine ==
  ASSUME Typed, Typed', OnePhase, OnePhase', InPhase, Line,
         Stored /\ GoodWords /\ Counted /\ Unsettled /\ Landed
  PROVE  Stored' /\ GoodWords' /\ Counted' /\ Unsettled' /\ Landed'
<1>1. /\ UNCHANGED <<mem, want, rx, wordsSeen, call>>
      /\ Sent \/ Heard
      /\ \/ Sent' \/ Silent'
         \/ Heard' /\ ~AnswerTail'.ok
  BY StepLoses, StepCorrupts, StepDrops, StepGarbles DEF Line
<1>2. Reached \in Nat
  BY ReachedByPhase DEF ReachedInPhase
<1>3. Reached' = 0
  <2>1. ReachedInPhase'
    BY ReachedByPhase, PTL
  <2> QED BY <1>1, <2>1 DEF ReachedInPhase
<1>4. Stored' /\ Unsettled' /\ Landed'
  <2>1. UNCHANGED <<call.op, call.off>> /\ UNCHANGED <<mem, want>>
    BY <1>1
  <2> QED BY <1>2, <1>3, <2>1, WriteKept
<1>5. GoodWords' /\ Counted'
  BY <1>1, CountKept DEF OnePhase, GoodWords
<1> QED
  BY <1>4, <1>5

\* A word of a chunk: what is written, where, and what the counter becomes.
LEMMA WordCounts ==
  ASSUME Typed, Taken, rx.st = "payload", rx.at \in Nat, WordArrives, Counted,
         rx.at + 1 \in Nat
  PROVE  wordsSeen' = IF rx.p.cmd \in Streamed THEN (rx.at + 1) % Words ELSE 0
<1>1. wordsSeen = IF rx.p.cmd \in Streamed THEN rx.at % Words ELSE 0
  BY DEF Counted, Taken, Holding
<1>2. wordsSeen' = IF rx.p.cmd \in Streamed THEN (wordsSeen + 1) % Words ELSE wordsSeen
  BY DEF WordArrives
<1>3. ((rx.at % Words) + 1) % Words = (rx.at + 1) % Words
  <2>1. Words \in Nat \ {0} /\ 1 \in Nat
    BY Constants
  <2>2. (1 + (rx.at % Words)) % Words = (1 + rx.at) % Words
    BY <2>1, SumWithRemainder
  <2>3. rx.at % Words \in Nat
    BY <2>1, SMT
  <2>4. 1 + (rx.at % Words) = (rx.at % Words) + 1 /\ 1 + rx.at = rx.at + 1
    BY <2>3, SMT
  <2> QED BY <2>2, <2>4
<1> QED
  BY <1>1, <1>2, <1>3

\* A word of a write goes to the next address of the transfer.
LEMMA WordLands ==
  ASSUME Typed, Taken, rx.st = "payload", rx.at < Len(rx.p.words), rx.at \in Nat, rx.p.crc,
         WordArrives, Counted, ~busy, rx.p.cmd = "write"
  PROVE  LET i == call.off + rx.at
         IN  /\ call.op \in Op /\ i \in 0..(Len(call.op.words) - 1)
             /\ mem' = [mem EXCEPT ![(call.op.addr + i) % Words] = call.op.words[i + 1]]
<1> DEFINE op == call.op
           i  == call.off + rx.at
<1>1. /\ rx.p.cmd = op.cmd /\ rx.p.words = Chunk /\ rx.p.addr = ChunkAddr
      /\ call.at # "none"
  BY DEF Taken, Asks, AtStart
<1>2. /\ op \in Op /\ Rest \in Nat /\ Len(Chunk) = IF Rest < MaxChunk THEN Rest ELSE MaxChunk
      /\ \A k \in 1..Len(Chunk) : Chunk[k] = op.words[call.off + k]
      /\ Rest = Len(op.words) - call.off
  BY <1>1, ChunkWords DEF Typed, Rest
<1>3. /\ MaxChunk \in Nat /\ Words \in Nat \ {0} /\ Len(op.words) \in Nat
      /\ op.addr \in Addr /\ call.off \in Nat
  <2>1. call.off \in Nat
    BY DEF Typed, TypeOK, HostTypes, CallTypes
  <2> QED BY <1>2, <2>1, Constants
<1>4. rx.at < Len(Chunk)
  BY <1>1
<1>5. op.addr \in Nat /\ ChunkAddr = op.addr + call.off
  <2>1. op.addr \in Nat
    BY <1>3, SMT DEF Addr
  <2> QED BY <1>1, <2>1 DEF ChunkAddr
<1>6. wordsSeen = rx.at % Words
  BY DEF Counted, Taken, Holding, Streamed
<1>7. mem' = [mem EXCEPT ![(ChunkAddr + (rx.at % Words)) % Words] = Chunk[rx.at + 1]]
  BY <1>1, <1>6 DEF WordArrives, DataWord
<1> HIDE DEF op
<1>8. i \in 0..(Len(op.words) - 1) /\ rx.at + 1 \in 1..Len(Chunk) /\ call.off + (rx.at + 1) = i + 1
  BY <1>2, <1>3, <1>4, SMT
<1>9. (ChunkAddr + (rx.at % Words)) % Words = (op.addr + i) % Words
  <2>1. op.addr + call.off \in Nat /\ (op.addr + call.off) + rx.at = op.addr + i
    BY <1>3, <1>5, SMT
  <2>2. ((op.addr + call.off) + (rx.at % Words)) % Words = ((op.addr + call.off) + rx.at) % Words
    BY <1>3, <2>1, SumWithRemainder
  <2> QED BY <1>5, <2>1, <2>2
<1>10. Chunk[rx.at + 1] = op.words[i + 1]
  BY <1>2, <1>8
<1>11. op \in Op /\ mem' = [mem EXCEPT ![(op.addr + i) % Words] = op.words[i + 1]]
  BY <1>2, <1>7, <1>9, <1>10
<1> HIDE DEF i
<1> QED
  BY <1>8, <1>11 DEF op, i

\* The step of the proof below at which memory is written.
LEMMA WriteOnWord ==
  ASSUME Typed, Typed', OnePhase, OnePhase', InPhase, Board, Sound', WordArrives,
         Stored /\ GoodWords /\ Counted /\ Unsettled /\ Landed
  PROVE  Stored' /\ GoodWords' /\ Counted' /\ Unsettled' /\ Landed'
<1>1. UNCHANGED <<call, want>> /\ UNCHANGED <<call.op, call.off>>
  BY BoardKeepsCall
<1>2. /\ Taken /\ Taken' /\ rx'.p = rx.p /\ rx'.at = rx.at + 1
      /\ rx.at < Len(rx.p.words) /\ rx.at \in Nat /\ rx.st = "payload"
      /\ rx'.st \in {"payload", "crc"} /\ busy' = busy
  BY StepWord DEF WordArrives, Taken
<1>3. rx'.at > rx.at /\ rx.at + 1 \in Nat
  BY <1>2, SMT
<1>4. rx.p.crc /\ ~(rx.p.cmd = "write" /\ busy)
  BY <1>3 DEF Board, Sound, Noted
<1>5. GoodWords'
  BY <1>2, <1>4 DEF GoodWords
<1>6. Counted'
  BY <1>2, <1>3, WordCounts DEF Counted
<1>7. Reached = rx.at /\ Reached' = rx.at + 1
  <2>1. ReachedInPhase'
    BY ReachedByPhase, PTL
  <2> QED BY <1>2, <2>1, ReachedByPhase DEF ReachedInPhase
<1>8. CASE call.op.cmd # "write"
  <2>1. mem' = mem
    BY <1>8, MemoryKept DEF Next
  <2> QED BY <1>1, <1>5, <1>6, <1>8, <2>1 DEF Stored, Unsettled, Landed
<1>9. CASE call.op.cmd = "write"
  <2> DEFINE op == call.op
             n  == call.off + rx.at
             at == (op.addr + n) % Words
  <2>1. rx.p.cmd = "write" /\ ~busy
    BY <1>2, <1>4, <1>9 DEF Taken, Asks
  <2>2. op \in Op /\ n \in 0..(Len(op.words) - 1) /\ mem' = [mem EXCEPT ![at] = op.words[n + 1]]
    BY <1>2, <1>4, <2>1, WordLands
  <2>3. at \in Covered(op) /\ want[at] = Unknown
    BY <1>9, <2>2, CoveredWord DEF Unsettled
  <2>4. mem \in [Addr -> Value] /\ at \in Addr
    BY <2>2, CoveredWord DEF Typed, TypeOK, BoardTypes
  <2>5. Stored'
    <3>1. \A a \in Addr : a # at => mem'[a] = mem[a]
      BY <2>2, <2>4
    <3> QED BY <1>1, <2>3, <3>1 DEF Stored
  <2>6. Unsettled'
    BY <1>1 DEF Unsettled, Covered
  <2>7. ASSUME NEW i \in 0..(call'.off + Reached' - 1)
        PROVE  mem'[(op.addr + i) % Words] = op.words[i + 1]
    <3>1. call.off \in Nat
      BY DEF Typed, TypeOK, HostTypes, CallTypes
    <3>2. i \in 0..(call.off + (rx.at + 1) - 1)
      BY <1>1, <1>7
    <3>3. i = n \/ i \in 0..(call.off + rx.at - 1)
      BY <1>2, <3>1, <3>2, SMT
    <3>4. i = n => (op.addr + i) % Words = at /\ op.words[i + 1] = op.words[n + 1]
      OBVIOUS
    <3>5. i \in 0..(Len(op.words) - 1)
      <4>1. Len(op.words) \in Nat
        BY <2>2, Constants
      <4>2. n \in 0..(Len(op.words) - 1)
        BY <2>2
      <4> HIDE DEF op
      <4> QED BY <1>2, <3>1, <3>2, <4>1, <4>2, SMT
    <3>6. (op.addr + i) % Words \in Addr
      BY <2>2, <3>5, CoveredWord
    <3>7. i \in 0..(call.off + rx.at - 1) => mem[(op.addr + i) % Words] = op.words[i + 1]
      BY <1>7, <1>9 DEF Landed
    <3>8. (op.addr + i) % Words = at => i = n
      BY <2>2, <3>5, CoveredWord
    <3> HIDE DEF at, n
    <3> QED BY <2>2, <2>4, <3>3, <3>4, <3>6, <3>7, <3>8
  <2>8. Landed'
    BY <1>1, <2>7 DEF Landed
  <2> QED BY <1>5, <1>6, <2>5, <2>6, <2>8
<1> QED
  BY <1>8, <1>9

\* How the count stands at the end of a packet.
LEMMA CountAtEnd ==
  ASSUME Typed, Taken, PacketDone, rx'.p = rx.p, rx'.st = "wait", Counted, AllTaken,
         rx.p.cmd = "launch" => Holding'
  PROVE  Counted'
<1>1. wordsSeen = IF rx.p.cmd \in Streamed THEN rx.at % Words ELSE 0
  BY DEF Counted, Taken, Holding
<1>2. \/ wordsSeen' = 0
      \/ wordsSeen' = wordsSeen /\ rx.p.cmd \notin Streamed
      \/ wordsSeen' = wordsSeen /\ rx.p.cmd = "launch" /\ hold' = "fail"
  BY DoneCases DEF Launched, ValidateAsked, ResetAsked, ReadAsked, WriteDone, Reads, Streamed
<1>3. CASE wordsSeen' = 0
  BY <1>3 DEF Counted
<1>4. CASE wordsSeen' = wordsSeen /\ rx.p.cmd = "launch" /\ hold' = "fail"
  <2>1. CASE rx.p.words = << >>
    <3>1. rx.at = 0
      BY <2>1, EmptySeq DEF AllTaken, PacketDone
    <3>2. Words \in Nat \ {0}
      BY Constants
    <3>3. 0 % Words = 0
      BY <3>2, SMT
    <3> QED BY <1>1, <1>3, <1>4, <3>1, <3>3
  <2>2. CASE rx.p.words # << >>
    BY <1>4, <2>2 DEF Counted
  <2> QED BY <2>1, <2>2
<1> QED
  BY <1>1, <1>2, <1>3, <1>4

\* The step of the proof below that the board takes otherwise.
LEMMA WriteOnBoard ==
  ASSUME Typed, Typed', OnePhase, OnePhase', InPhase, Board, Sound', ~WordArrives, AllTaken,
         Stored /\ GoodWords /\ Counted /\ Unsettled /\ Landed
  PROVE  Stored' /\ GoodWords' /\ Counted' /\ Unsettled' /\ Landed'
<1>1. UNCHANGED <<call, want>> /\ UNCHANGED <<call.op, call.off>> /\ UNCHANGED Chunk
  BY BoardKeepsCall
<1>2. mem' = mem /\ Reached \in Nat
  <2>1. mem' = mem
    BY MemoryKept DEF Next
  <2> QED BY <2>1, ReachedByPhase DEF ReachedInPhase
<1>3. ReachedInPhase /\ ReachedInPhase'
  <2>1. ReachedInPhase'
    BY ReachedByPhase, PTL
  <2> QED BY <2>1, ReachedByPhase
<1>4. ASSUME call.op.cmd = "write" => Reached' \in {0, Reached}
      PROVE  Stored' /\ Unsettled' /\ Landed'
  BY <1>1, <1>2, <1>4, WriteKept
<1>5. ~Taken' => GoodWords'
  BY DEF GoodWords
<1>6. UNCHANGED <<rx, wordsSeen>> /\ ~(Holding /\ hold = "fail") => Counted'
  BY CountKept
<1>7. CASE PacketArrives
  <2>1. /\ Sent /\ Taken' /\ rx'.at = 0 /\ rx'.p = line[1]
        /\ wordsSeen' = IF line[1].cmd \in Streamed THEN wordsSeen ELSE 0
    BY <1>7, StepArrives
  <2>2. Reached' = 0 /\ ~(0 > 0)
    BY <1>3, <2>1, SMT DEF ReachedInPhase
  <2>3. GoodWords'
    BY <2>1, <2>2 DEF GoodWords
  <2>4. rx.st = "idle" /\ ~Holding
    BY <1>7, <2>1 DEF PacketArrives, OnePhase
  <2>5. wordsSeen = 0
    BY <2>4 DEF Counted
  <2>6. 0 % Words = 0
    <3>1. Words \in Nat \ {0}
      BY Constants
    <3> QED BY <3>1, SMT
  <2>7. Counted'
    BY <2>1, <2>5, <2>6 DEF Counted
  <2> QED BY <1>4, <2>2, <2>3, <2>7
<1>8. CASE PacketMissed
  <2>1. Sent /\ Silent' /\ UNCHANGED <<rx, wordsSeen>>
    BY <1>8, StepMissed DEF PacketMissed
  <2> QED BY <1>3, <1>4, <1>5, <1>6, <2>1 DEF ReachedInPhase, OnePhase
<1>9. CASE CrcFails
  <2>1. /\ Taken /\ Owing' /\ pending'.nak /\ ~rx.p.crc /\ rx'.st = "idle" /\ rx.at \in Nat
        /\ wordsSeen' = wordsSeen
    BY <1>9, StepCrcFails DEF Typed, TypeOK, BoardTypes
  <2>2. rx.at = 0
    <3>1. ~(rx.at > 0)
      BY <2>1 DEF GoodWords
    <3> QED BY <2>1, <3>1, SMT
  <2>3. 0 % Words = 0
    <3>1. Words \in Nat \ {0}
      BY Constants
    <3> QED BY <3>1, SMT
  <2>4. wordsSeen = 0
    BY <2>1, <2>2, <2>3 DEF Counted, Taken, Holding
  <2>5. Counted'
    BY <2>1, <2>4 DEF Counted
  <2> QED BY <1>3, <1>4, <1>5, <2>1, <2>5 DEF ReachedInPhase, OnePhase
<1>10. CASE PacketDone
  <2>1. /\ Taken /\ rx.p.cmd = call.op.cmd /\ rx'.st = "wait" /\ rx'.p = rx.p
        /\ \/ call.op.cmd \in {"write", "validate"} /\ Working'
           \/ call.op.cmd \in {"launch", "reset", "program", "constants"} /\ Holding'
           \/ call.op.cmd \in Reads /\ Serving'
    BY <1>10, StepDone
  <2>2. Counted'
    BY <1>10, <2>1, CountAtEnd DEF Reads
  <2>3. Reached = Len(Chunk)
    <3>1. Reached = rx.at /\ rx.p.words = Chunk
      BY <1>3, <2>1 DEF ReachedInPhase, Taken, Asks
    <3> QED BY <1>10, <3>1 DEF AllTaken, PacketDone
  <2>4. ASSUME call.op.cmd = "write" PROVE Reached' = Reached
    <3>1. Working'
      BY <2>1, <2>4 DEF Reads
    <3>2. Reached' = Len(Chunk')
      BY <1>3, <3>1 DEF ReachedInPhase
    <3> QED BY <1>1, <2>3, <3>2
  <2>5. ~Taken'
    BY <2>1 DEF Taken
  <2> QED BY <1>4, <1>5, <2>2, <2>4, <2>5
<1>11. CASE Answer
  <2>1. /\ rx.st = "wait" /\ rx'.st = "idle" /\ wordsSeen' = wordsSeen
        /\ \/ Holding /\ Owing' /\ pending'.nak = (hold = "fail")
           \/ /\ ReceiverOpen /\ ReceiverOpen' /\ hold = "done"
              /\ UNCHANGED <<line, fsm, pending, tx, rd, answers, call>>
    BY <1>11, StepAnswer
  <2>2. ~(hold = "fail" /\ rx.p.words # << >>)
    BY <2>1 DEF Board, Sound, Noted, Refused
  <2>3. wordsSeen = 0
    BY <2>1, <2>2 DEF Counted
  <2>4. Counted' /\ ~Taken'
    BY <2>1, <2>3 DEF Counted, Taken
  <2>5. CASE Holding /\ Owing' /\ pending'.nak = (hold = "fail")
    <3>1. hold = "done" \/ hold = "fail"
      BY <2>5 DEF Holding, Typed, TypeOK, BoardTypes
    <3>2. Reached' = Reached
      BY <1>1, <1>3, <2>5, <3>1 DEF ReachedInPhase
    <3> QED BY <1>4, <1>5, <2>4, <3>2
  <2>6. CASE /\ ReceiverOpen /\ ReceiverOpen'
             /\ UNCHANGED <<line, fsm, pending, tx, rd, answers, call>>
    <3>1. Resting \/ Sent \/ Serving \/ Heard \/ Silent
      BY <2>1, <2>6 DEF InPhase, Taken, Working, Holding, Owing, ReceiverOpen
    <3>2. /\ (Resting' <=> Resting) /\ (Sent' <=> Sent) /\ (Serving' <=> Serving)
          /\ (Heard' <=> Heard) /\ (Silent' <=> Silent)
          /\ AnswerHead' = AnswerHead /\ AnswerTail' = AnswerTail
      BY <2>6, OpenPhases
    <3>3. Reached' = Reached
      BY <1>1, <1>3, <3>1, <3>2 DEF ReachedInPhase
    <3> QED BY <1>4, <1>5, <2>4, <3>3
  <2> QED BY <2>1, <2>5, <2>6
<1>12. CASE WriteResponse
  <2>1. Working /\ Holding' /\ hold' = "done" /\ UNCHANGED <<rx, wordsSeen>>
    BY <1>12, StepWritten
  <2>2. Reached' = Reached
    BY <1>1, <1>3, <2>1 DEF ReachedInPhase
  <2> QED BY <1>4, <1>5, <1>6, <2>1, <2>2 DEF OnePhase
<1>13. CASE ValidateResponse
  <2>1. Working /\ Holding' /\ UNCHANGED <<rx, wordsSeen>>
    BY <1>13, StepValidated
  <2>2. call.op.cmd # "write"
    BY <1>13, <2>1 DEF ValidateResponse, Working, Asks
  <2> QED BY <1>4, <1>5, <1>6, <2>1, <2>2 DEF OnePhase
<1>14. CASE ServeWord
  <2>1. Serving /\ UNCHANGED <<rx, wordsSeen>> /\ (Serving' \/ Heard')
    BY <1>14, StepServes
  <2>2. call.op.cmd # "write"
    BY <2>1 DEF Serving, Reads
  <2> QED BY <1>4, <1>5, <1>6, <2>1, <2>2 DEF OnePhase
<1>15. CASE IssueAnswer
  <2>1. /\ Owing /\ Heard' /\ AnswerTail'.ok /\ UNCHANGED <<rx, wordsSeen>>
        /\ AnswerHead'.cmd = (IF pending.nak THEN "nak" ELSE "ack")
    BY <1>15, StepIssues
  <2>2. Reached' = Reached
    BY <1>1, <1>3, <2>1 DEF ReachedInPhase
  <2> QED BY <1>4, <1>5, <1>6, <2>1, <2>2 DEF OnePhase
<1>16. CASE KernelEnds
  <2>1. UNCHANGED <<line, rx, hold, fsm, pending, tx, rd, answers, call>> /\ wordsSeen' = wordsSeen
    BY <1>1, <1>16 DEF KernelEnds
  <2>2. /\ (Taken' <=> Taken) /\ (Working' <=> Working) /\ (Holding' <=> Holding)
        /\ (Owing' <=> Owing) /\ (Heard' <=> Heard)
        /\ AnswerHead' = AnswerHead /\ AnswerTail' = AnswerTail
    BY <2>1, SamePhases
  <2>3. Reached' = Reached
    BY <1>1, <2>1, <2>2 DEF Reached
  <2> QED BY <1>4, <2>1, <2>2, <2>3 DEF GoodWords, Counted
<1> QED
  BY <1>7, <1>8, <1>9, <1>10, <1>11, <1>12, <1>13, <1>14, <1>15, <1>16 DEF Board, BoardStep

\* What an acknowledged write put into memory stays there, whatever was lost,
\* garbled and sent again, as long as no packet with words is refused, no word
\* of a write meets a running kernel and the host gives up on no answer.
THEOREM WritesLast == Spec => []WrittenOnceAcked
<1>1. Init => WriteInv
  <2> SUFFICES ASSUME Init PROVE Stored /\ GoodWords /\ Counted /\ Unsettled /\ Landed
    BY DEF WriteInv
  <2>1. Stored
    BY DEF Init, BoardInit, Stored
  <2>2. rx.st = "idle" /\ wordsSeen = 0 /\ call.op.cmd = "none"
    BY DEF Init, BoardInit, NoCall
  <2> QED BY <2>1, <2>2 DEF GoodWords, Taken, Counted, Unsettled, Landed
<1>2. Typed /\ Typed' /\ OnePhase /\ OnePhase' /\ Exchange /\ AllTaken /\ WriteInv /\ [Next]_vars
        => WriteInv'
  <2> SUFFICES ASSUME Typed, Typed', OnePhase, OnePhase', Exchange, AllTaken, WriteInv,
                      [Next]_vars, Sound'
               PROVE  Stored' /\ GoodWords' /\ Counted' /\ Unsettled' /\ Landed'
    BY DEF WriteInv
  <2>1. /\ InPhase /\ "late" \notin seen'
        /\ Stored /\ GoodWords /\ Counted /\ Unsettled /\ Landed
    <3>1. Sound
      BY SoundBefore
    <3>2. "late" \notin seen /\ "late" \notin seen'
      BY <3>1 DEF Sound
    <3> QED BY <3>1, <3>2 DEF Exchange, WriteInv
  <2>2. CASE UNCHANGED vars
    <3>1. UNCHANGED <<want, mem, rx, hold, wordsSeen, pending, call>> /\ UNCHANGED Chunk
      BY <2>2, SameChunk DEF vars, board, host
    <3>2. /\ (Taken' <=> Taken) /\ (Working' <=> Working) /\ (Holding' <=> Holding)
          /\ (Owing' <=> Owing) /\ (Heard' <=> Heard)
          /\ AnswerHead' = AnswerHead /\ AnswerTail' = AnswerTail
      BY <2>2, SameExchange
    <3>3. Reached' = Reached
      BY <3>1, <3>2 DEF Reached
    <3> QED BY <2>1, <3>1, <3>2, <3>3 DEF Stored, GoodWords, Counted, Unsettled, Landed, Covered
  <2>3. CASE Board
    BY <2>1, <2>3, WriteOnWord, WriteOnBoard
  <2> QED
    BY <2>1, <2>2, <2>3, WriteOnHost, WriteOnLine DEF Next
<1>3. WriteInv => WrittenOnceAcked
  BY DEF WriteInv, WrittenOnceAcked, Sound
<1> QED
  BY <1>1, <1>2, <1>3, LinkIsTyped, TurnsAreTaken, CrcComesLast, PhasesApart, PTL DEF Spec

=============================================================================
