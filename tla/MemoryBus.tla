----------------------------- MODULE MemoryBus -----------------------------
(***************************************************************************)
(* The way from the cores' lanes and the host to the data memory: the      *)
(* lanes' request registers (thread.v), the arbiter between cores          *)
(* (mini_gpu.v), the bus controller, the gate of the top that keeps the    *)
(* host out while a kernel runs, and the banked memory (memory.v,          *)
(* memory_bank.v).  Tick is one clock edge.  A request accepted at one     *)
(* edge meets its bank at the next and is answered at the one after.       *)
(*                                                                         *)
(* A core's instruction asks for one word per active lane; the core issues *)
(* the next when all its lanes are done.  Registers of address and data    *)
(* are one request: [op, addr, data], data mapping the bytes of the write  *)
(* mask to values.  The write-done flags of the bus controller are in      *)
(* CommController.  The field from of a request under way is history: the  *)
(* hardware keeps the lane but not the core.                               *)
(***************************************************************************)
EXTENDS Integers, Sequences, FiniteSets

CONSTANTS NumCores,   \* NUM_CORES
          WarpSize,   \* WARP_SIZE, lanes of a request
          Banks,      \* banks of the memory
          Ports,      \* ports of a bank
          Addresses,  \* word addresses
          Bytes,      \* bytes of a word
          Value,      \* what a byte may hold
          Zero,       \* the value of a cleared byte
          Programs,   \* Programs[core]: instructions the core may execute
          HostRequests, \* loads and stores of the host
          MaxRequests \* bound: launches, instructions and host requests together

Cores == 0..(NumCores - 1)
Lanes == 0..(WarpSize - 1)
Host  == NumCores  \* the number under which the host is counted
Requesters == Cores \cup {Host}

Word    == [Bytes -> Value]
Request == [op : {"load"}, addr : Addresses, data : {<< >>}]
             \cup [op : {"store"}, addr : Addresses,
                   data : UNION {[mask -> Value] : mask \in SUBSET Bytes}]
None    == [op |-> "none"]

ASSUME BusAssumption ==
  /\ NumCores \in Nat \ {0} /\ WarpSize \in Nat \ {0}
  /\ Banks \in Nat \ {0} /\ Ports \in Nat \ {0}
  /\ Addresses \subseteq Nat /\ Zero \in Value /\ MaxRequests \in Nat
  /\ HostRequests \subseteq Request
  /\ \A c \in Cores : \A i \in Programs[c] :
       DOMAIN i \subseteq Lanes /\ \A l \in DOMAIN i : i[l] \in Request

VARIABLES
  lane,      \* lane[c][l]: the memory registers of a lane
  running,   \* the cores that are busy
  rr,        \* rr_core
  respCore,  \* resp_core_q
  respOwner, \* resp_owner_core_q: the last accepted read was a core's
  pipe,      \* pipe_*: the requests accepted at the last edge, by lane
  out,       \* dout and read_q of the ports, by lane
  mem,       \* the banks
  engine,    \* the read engine: "idle", "start", "wait" or "send"
  wanted,    \* the request the engine makes
  hostReq,   \* data_mem_req_*: the host's request, for one cycle
  buffer,    \* rsp_buffer
  budget     \* counter of the bound

cores   == <<lane, running>>
arbiter == <<rr, respCore, respOwner>>
banks   == <<pipe, out, mem>>
host    == <<engine, wanted, hostReq, buffer>>
vars    == <<cores, arbiter, banks, host, budget>>

Idle        == [stage |-> "idle"]
Ask(req)    == [stage |-> "ask", req |-> req]
Sent(req)   == [stage |-> "sent", req |-> req]
Told(value) == [stage |-> "told", value |-> value]

-----------------------------------------------------------------------------
(***************************************************************************)
(* Who is served in this cycle.                                            *)
(***************************************************************************)
busy == running # {}

\* core_mem_req_valid: what the lanes of a core ask.
Asked(c) == [l \in Lanes |-> IF lane[c][l].stage = "ask" THEN lane[c][l].req ELSE None]
Asking(c) == \E l \in Lanes : lane[c][l].stage = "ask"

next_core_index(c) == IF c = NumCores - 1 THEN 0 ELSE c + 1
wrap_core_index(i) == IF rr + i >= NumCores THEN rr + i - NumCores ELSE rr + i

\* The first core from rr on that asks.
arb_valid == \E c \in Cores : Asking(c)
arb_core  == wrap_core_index(CHOOSE i \in Cores :
               /\ Asking(wrap_core_index(i))
               /\ \A j \in 0..(i - 1) : ~Asking(wrap_core_index(j)))

\* Mutant: the host is not kept out while a kernel runs.
host_active_ungated == hostReq # None

\* The host's request passes unless a kernel runs, and then goes first.
host_active == hostReq # None /\ ~busy

\* Whose request the memory sees in this cycle.
NoOne  == NumCores + 1
served == IF host_active THEN Host ELSE IF arb_valid THEN arb_core ELSE NoOne

\* What the memory is asked, by lane.  The host uses lane 0.
request(r) ==
  CASE r = Host    -> [l \in Lanes |-> IF l = 0 THEN hostReq ELSE None]
    [] r \in Cores -> Asked(r)
    [] OTHER       -> [l \in Lanes |-> None]

Bank(addr) == addr % Banks

\* Does a lower lane's request need a port of req's bank of its own?
prior_uses_port(prior, req) ==
  /\ prior # None /\ Bank(prior.addr) = Bank(req.addr)
  /\ ~(prior.op = "store" /\ req.op = "store" /\ prior.addr = req.addr)

same_prior_count(req, l) ==
  Cardinality({low \in 0..(l - 1) : prior_uses_port(req[low], req[l])})

\* Mutant: one request too many for the ports of a bank.
Accepted_tooMany(req) ==
  {l \in Lanes : req[l] # None /\ same_prior_count(req, l) <= Ports}

\* req_valid & req_ready: the lanes whose requests are taken.
Accepted(req) == {l \in Lanes : req[l] # None /\ same_prior_count(req, l) < Ports}

-----------------------------------------------------------------------------
(***************************************************************************)
(* The banks.                                                              *)
(***************************************************************************)
\* The stores of two lanes to one word: the later lane's bytes go on top.
merge_write_data(dest, src) ==
  [b \in DOMAIN dest \cup DOMAIN src |-> IF b \in DOMAIN src THEN src[b] ELSE dest[b]]

\* The ports of a bank once lane l has been given one.
assign_lane_to_port(ports, l) ==
  LET req  == pipe[l].req
      same == {p \in DOMAIN ports : /\ req.op = "store" /\ ports[p].req.op = "store"
                                    /\ ports[p].req.addr = req.addr}
      port == [req |-> req, lane |-> l]
  IN  IF same # {}
      THEN LET p == CHOOSE p \in same : \A q \in same : p <= q
           IN  [ports EXCEPT ![p].req.data = merge_write_data(@, req.data)]
      ELSE IF Len(ports) < Ports THEN Append(ports, port)
      ELSE [ports EXCEPT ![Ports] = port]

\* The ports of a bank after the first n lanes have been given theirs.
given(bank) ==
  LET after[n \in 0..WarpSize] ==
        IF n = 0 THEN << >>
        ELSE IF pipe[n - 1] # None /\ Bank(pipe[n - 1].req.addr) = bank
        THEN assign_lane_to_port(after[n - 1], n - 1)
        ELSE after[n - 1]
  IN  after

\* The ports of all banks in this cycle, given out lane after lane.
bank_ports == [bank \in 0..(Banks - 1) |-> given(bank)[WarpSize]]

\* The memory after the ports' stores.
Written(ports) ==
  LET writers(a) == {p \in DOMAIN ports[Bank(a)] :
                       /\ ports[Bank(a)][p].req.op = "store"
                       /\ ports[Bank(a)][p].req.addr = a}
  IN  [a \in Addresses |->
         IF writers(a) = {} THEN mem[a]
         ELSE LET data == ports[Bank(a)][CHOOSE p \in writers(a) : TRUE].req.data
              IN  [b \in Bytes |-> IF b \in DOMAIN data THEN data[b] ELSE mem[a][b]]]

\* What the ports put out, for the lanes that read.
ReadOut(ports) ==
  [l \in Lanes |->
     IF /\ pipe[l] # None /\ pipe[l].req.op = "load"
        /\ \E p \in DOMAIN ports[Bank(pipe[l].req.addr)] :
             ports[Bank(pipe[l].req.addr)][p].lane = l
     THEN [op |-> "value", value |-> mem[pipe[l].req.addr], from |-> pipe[l].from]
     ELSE None]

-----------------------------------------------------------------------------
(***************************************************************************)
(* One clock edge.                                                         *)
(***************************************************************************)
\* Is the answer at the ports for core c, or for the host?
AnswerTo(c) == respOwner /\ respCore = c
AnswerToHost == ~respOwner /\ out[0] # None

\* A lane's registers after this edge; taken says that its request is
\* accepted at it.  A store is done then.
lane_tick(c, l, taken) ==
  CASE taken -> IF lane[c][l].req.op = "store" THEN Idle ELSE Sent(lane[c][l].req)
    [] lane[c][l].stage = "sent" /\ AnswerTo(c) /\ out[l] # None -> Told(out[l].value)
    [] OTHER -> lane[c][l]

\* READ_START holds its request and leaves when it is taken, one cycle too
\* late to withdraw it: every read of the host is made twice.
EngineTick ==
  /\ hostReq' = IF engine = "start" THEN wanted ELSE None
  /\ IF engine = "start" /\ host_active THEN engine' = "wait" /\ UNCHANGED buffer
     ELSE IF engine = "wait" /\ AnswerToHost
     THEN engine' = "send" /\ buffer' = out[0].value
     ELSE UNCHANGED <<engine, buffer>>
  /\ UNCHANGED wanted

\* Mutant: the arbiter stays with the core it served.
rr_tick_stuck(r) == IF r \in Cores THEN r ELSE rr

rr_tick(r) == IF r \in Cores THEN next_core_index(r) ELSE rr

MemoryTick(r, req, accepted) ==
  /\ pipe' = [l \in Lanes |-> IF l \in accepted
                THEN [op |-> "asked", req |-> req[l], from |-> r] ELSE None]
  /\ \E ports \in {bank_ports} : out' = ReadOut(ports) /\ mem' = Written(ports)

\* Mutant: the registers follow every accepted request, stores too.
OwnerTick_stores(r, reads) ==
  /\ respCore' = IF r \in Cores THEN r ELSE respCore
  /\ respOwner' = IF r \in Requesters THEN r \in Cores ELSE respOwner

\* The registers that tell whose the next answer is: the last read's.
OwnerTick(r, reads) ==
  /\ respCore' = IF r \in Cores /\ reads # {} THEN r ELSE respCore
  /\ respOwner' = IF reads # {} THEN r \in Cores ELSE respOwner

\* All registers take their next values at once.  (A quantifier over one
\* value names it.)
Tick ==
  \E r \in {served} : \E req \in {request(r)} : \E accepted \in {Accepted(req)} :
    /\ lane' = [c \in Cores |-> [l \in Lanes |-> lane_tick(c, l, c = r /\ l \in accepted)]]
    /\ rr' = rr_tick(r)
    /\ OwnerTick(r, {l \in accepted : req[l].op = "load"})
    /\ MemoryTick(r, req, accepted) /\ EngineTick
    /\ UNCHANGED <<running, budget>>

-----------------------------------------------------------------------------
(***************************************************************************)
(* Kernels and the host's calls.                                           *)
(***************************************************************************)
\* Nothing of requester r is between acceptance and answer.
Drained(r) == \A l \in Lanes :
  /\ pipe[l] # None => pipe[l].from # r
  /\ out[l] # None => out[l].from # r

Settled(c) == \A l \in Lanes : lane[c][l].stage \in {"idle", "told"}

\* A packet starts all cores.  The word of an earlier packet has long been
\* taken when a launch arrives.
Launch ==
  /\ ~busy /\ hostReq.op # "store" /\ budget > 0
  /\ running' = Cores
  /\ budget' = budget - 1
  /\ UNCHANGED <<lane, arbiter, banks, host>>

\* The next instruction of a core: selecting and fetching it takes longer
\* than a request of this core or of the host is under way.
Issue(c) ==
  /\ c \in running /\ Settled(c) /\ Drained(c) /\ Drained(Host) /\ budget > 0
  /\ \E i \in Programs[c] :
       lane' = [lane EXCEPT ![c] =
                  [l \in Lanes |-> IF l \in DOMAIN i THEN Ask(i[l]) ELSE Idle]]
  /\ budget' = budget - 1
  /\ UNCHANGED <<running, arbiter, banks, host>>

\* EXIT of the last warp.
Stop(c) ==
  /\ c \in running /\ Settled(c)
  /\ running' = running \ {c}
  /\ UNCHANGED <<lane, arbiter, banks, host, budget>>

\* The next word of a READ_DATA, after the last one has been sent, which
\* takes thousands of cycles.
HostRead ==
  /\ engine \in {"idle", "send"} /\ hostReq = None /\ Drained(Host) /\ budget > 0
  /\ \E req \in HostRequests : req.op = "load" /\ wanted' = req
  /\ engine' = "start" /\ budget' = budget - 1
  /\ UNCHANGED <<hostReq, buffer, cores, arbiter, banks>>

\* The last word of a READ_DATA has been sent.
HostSent ==
  /\ engine = "send" /\ hostReq = None /\ Drained(Host)
  /\ engine' = "idle"
  /\ UNCHANGED <<wanted, hostReq, buffer, cores, arbiter, banks, budget>>

\* A word of a WRITE_DATA, which the host sends when it has its answer to
\* the last call.  A word that meets a running kernel is dropped by the
\* gate: that is part of CommController and HostLink.
HostWrite ==
  /\ engine = "idle" /\ hostReq = None /\ ~busy /\ budget > 0
  /\ \E req \in HostRequests : req.op = "store" /\ hostReq' = req
  /\ budget' = budget - 1
  /\ UNCHANGED <<engine, wanted, buffer, cores, arbiter, banks>>

Init ==
  /\ lane = [c \in Cores |-> [l \in Lanes |-> Idle]] /\ running = {}
  /\ rr = 0 /\ respCore = 0 /\ respOwner = FALSE
  /\ pipe = [l \in Lanes |-> None] /\ out = [l \in Lanes |-> None]
  /\ mem = [a \in Addresses |-> [b \in Bytes |-> Zero]]
  /\ engine = "idle" /\ hostReq = None /\ wanted = None
  /\ buffer = [b \in Bytes |-> Zero]
  /\ budget = MaxRequests

Next ==
  \/ Tick \/ Launch \/ HostRead \/ HostSent \/ HostWrite
  \/ \E c \in Cores : Issue(c) \/ Stop(c)

Spec == Init /\ [][Next]_vars

\* The clock runs, and a kernel without another instruction ends.
FairSpec == Spec /\ WF_vars(Tick) /\ \A c \in Cores : WF_vars(Stop(c))

-----------------------------------------------------------------------------
(***************************************************************************)
(* Properties.                                                             *)
(***************************************************************************)
\* No word: the value of an answer that went elsewhere.
Lost == << >>

\* The memory as the cores and the host may think of it: with the stores
\* that have been accepted.  A lane that waits is to be told what its load
\* finds at the bank, or has found there.
Underway(r, l) ==
  IF pipe[l] # None /\ pipe[l].from = r THEN mem[pipe[l].req.addr]
  ELSE IF out[l] # None /\ out[l].from = r THEN out[l].value ELSE Lost

Abstract(s, value) ==
  IF s.stage = "sent" THEN [stage |-> "sent", value |-> value] ELSE s

HostStatus ==
  CASE engine = "start" -> Ask(wanted)
    [] engine = "wait"  -> [stage |-> "sent", value |-> Underway(Host, 0)]
    [] engine = "send"  -> Told(buffer)
    [] engine = "idle" /\ hostReq # None /\ hostReq.op = "store" -> Ask(hostReq)
    [] OTHER -> Idle

Promised == INSTANCE SharedMemory WITH
  memory   <- Written(bank_ports),
  Memories <- {[a \in Addresses |-> [b \in Bytes |-> Zero]]},
  status   <- [r \in Requesters |-> [l \in Lanes |->
                 IF r \in Cores THEN Abstract(lane[r][l], Underway(r, l))
                 ELSE IF l = 0 THEN HostStatus ELSE Idle]]

\* The pipeline, the banks, the merging of stores and the two arbiters give
\* what one memory would give that performs each request at once: every load
\* is told, to the lane that asked, what was stored last, though a store is
\* reported done before it reaches its bank and the hardware keeps no note of
\* whose an answer under way is.
ActsAsOneMemory == Promised!Spec

\* A core that was served is not served again while another asks (round
\* robin of mini_gpu.v, whatever the number of lanes that had to wait).
NotServedTwice ==
  [][\A c, d \in Cores :
       Tick /\ served = c /\ d # c /\ Asking(d) => served' # c]_vars

\* Is the next answer requester r's, by the registers?
Owner(r) == IF r = Host THEN ~respOwner ELSE AnswerTo(r)

\* What the ports put out belongs to whom the registers name, to a lane that
\* waits for it, and every lane that waits has its load under way: no answer
\* is lost and none is taken by another, though the registers name one
\* requester for two cycles of answers (resp_core_q, resp_owner_core_q).
AnswersGoHome ==
  /\ \A l \in Lanes : out[l] # None =>
       /\ Owner(out[l].from)
       /\ out[l].from = Host => l = 0
       /\ out[l].from # Host => lane[out[l].from][l].stage = "sent"
  /\ \A c \in Cores : \A l \in Lanes : lane[c][l].stage = "sent" =>
       \/ pipe[l] # None /\ pipe[l].from = c /\ pipe[l].req = lane[c][l].req
       \/ out[l] # None /\ out[l].from = c

\* Every request of a lane or of the host is answered in the end: conflicts
\* of lanes for a bank resolve, and the host gets through when the kernel is
\* over.
AllAnswered ==
  /\ \A c \in Cores : (~Settled(c)) ~> Settled(c)
  /\ (engine = "start") ~> (engine \in {"send", "idle"})
=============================================================================
