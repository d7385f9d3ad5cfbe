---------------------------- MODULE MemoryBusProofs ----------------------------
(***************************************************************************)
(* Proofs about MemoryBus, for any number of cores, lanes, banks and ports *)
(* and any programs: the arbiter between the cores serves them in turn,    *)
(* the rule that accepts requests and the rule that gives them ports       *)
(* agree, with one core that loads every answer finds its asker, and then  *)
(* the bus implements SharedMemory.                                        *)
(***************************************************************************)
EXTENDS MemoryBus, NumbersAndBlocks, FiniteSetTheorems, TLAPS

\* The arbiter's choice over values, so that it can be spoken of before and
\* after a step: i steps on from core r, and the first of the cores in asking.
WrapFrom(r, i) == IF r + i >= NumCores THEN r + i - NumCores ELSE r + i
IsFirst(r, asking, i) ==
  /\ WrapFrom(r, i) \in asking
  /\ \A j \in 0..(i - 1) : WrapFrom(r, j) \notin asking

\* The core after c exists (next_core_index of mini_gpu.v wraps in time).
LEMMA NextIsACore == ASSUME NEW c \in Cores PROVE next_core_index(c) \in Cores
  BY BusAssumption DEF next_core_index, Cores

\* Counting on from any core reaches every core.
LEMMA WrapReaches ==
  ASSUME NEW r \in Cores, NEW d \in Cores
  PROVE  \E i \in Cores : WrapFrom(r, i) = d
<1>1. CASE d >= r
  <2>1. d - r \in Cores /\ WrapFrom(r, d - r) = d
    BY <1>1, BusAssumption DEF Cores, WrapFrom
  <2> QED BY <2>1
<1>2. CASE d < r
  <2>1. d - r + NumCores \in Cores /\ WrapFrom(r, d - r + NumCores) = d
    BY <1>2, BusAssumption DEF Cores, WrapFrom
  <2> QED BY <2>1
<1> QED BY <1>1, <1>2, BusAssumption DEF Cores

\* The last core that counting on from the one after c reaches is c.
LEMMA ServedIsLast ==
  ASSUME NEW c \in Cores, NEW i \in Cores, WrapFrom(next_core_index(c), i) = c
  PROVE  i = NumCores - 1
  BY BusAssumption DEF Cores, WrapFrom, next_core_index

\* When a core asks, there is a first one.
LEMMA FirstExists ==
  ASSUME NEW r \in Cores, NEW asking, NEW d \in Cores, d \in asking
  PROVE  \E i \in Cores : IsFirst(r, asking, i)
<1> DEFINE Offsets == {i \in Cores : WrapFrom(r, i) \in asking}
<1>1. PICK k \in Cores : WrapFrom(r, k) = d
  BY WrapReaches
<1>2. Offsets \in SUBSET Nat /\ Offsets # {}
  BY <1>1, BusAssumption DEF Cores
<1>3. PICK i \in Offsets : \A j \in Offsets : i <= j
  <2> HIDE DEF Offsets
  <2> QED BY <1>2, LeastNumber
<1>4. \A j \in 0..(i - 1) : WrapFrom(r, j) \notin asking
  BY <1>3, BusAssumption DEF Cores
<1> QED BY <1>3, <1>4 DEF IsFirst

\* After c was served its turn is the last: with another core asking, c is
\* not the first.
LEMMA AnotherIsFirst ==
  ASSUME NEW c \in Cores, NEW d \in Cores, d # c, NEW asking, d \in asking,
         NEW i \in Cores, IsFirst(next_core_index(c), asking, i)
  PROVE  WrapFrom(next_core_index(c), i) # c
<1> SUFFICES ASSUME WrapFrom(next_core_index(c), i) = c PROVE FALSE
  OBVIOUS
<1>1. PICK k \in Cores : WrapFrom(next_core_index(c), k) = d
  BY NextIsACore, WrapReaches
<1>2. i <= k
  <2>1. SUFFICES ASSUME k < i PROVE FALSE
    BY BusAssumption DEF Cores
  <2>2. k \in 0..(i - 1)
    BY <2>1, BusAssumption DEF Cores
  <2> QED BY <2>2, <1>1 DEF IsFirst
<1>3. i = NumCores - 1
  BY ServedIsLast
<1>4. k = i
  BY <1>2, <1>3, BusAssumption DEF Cores
<1> QED BY <1>1, <1>4

-----------------------------------------------------------------------------
\* The arbiter's register names a core that exists.
TurnOK == rr \in Cores

\* The register always names a core that exists: the arbiter never looks at
\* lanes there are none of (rr_core of mini_gpu.v, for any NUM_CORES).
THEOREM TurnInRange == Spec => []TurnOK
<1>1. Init => TurnOK
  BY BusAssumption DEF Init, TurnOK, Cores
<1>2. TurnOK /\ [Next]_vars => TurnOK'
  <2> SUFFICES ASSUME TurnOK, [Next]_vars PROVE TurnOK'
    OBVIOUS
  <2>1. CASE Tick
    BY <2>1, NextIsACore DEF Tick, TurnOK, rr_tick
  <2>2. CASE Launch
    BY <2>2 DEF Launch, arbiter, TurnOK
  <2>3. CASE HostRead
    BY <2>3 DEF HostRead, arbiter, TurnOK
  <2>4. CASE HostSent
    BY <2>4 DEF HostSent, arbiter, TurnOK
  <2>5. CASE HostWrite
    BY <2>5 DEF HostWrite, arbiter, TurnOK
  <2>6. ASSUME NEW c \in Cores, Issue(c) PROVE TurnOK'
    BY <2>6 DEF Issue, arbiter, TurnOK
  <2>7. ASSUME NEW c \in Cores, Stop(c) PROVE TurnOK'
    BY <2>7 DEF Stop, arbiter, TurnOK
  <2>8. CASE UNCHANGED vars
    BY <2>8 DEF vars, arbiter, TurnOK
  <2> QED BY <2>1, <2>2, <2>3, <2>4, <2>5, <2>6, <2>7, <2>8 DEF Next
<1> QED BY <1>1, <1>2, PTL DEF Spec

\* A lane that asks and is not served goes on asking.
LEMMA AskingStays ==
  ASSUME NEW c \in Cores, NEW d \in Cores, d # c, Tick, served = c, Asking(d)
  PROVE  Asking(d)'
<1>1. PICK l \in Lanes : lane[d][l].stage = "ask"
  BY DEF Asking
<1>2. PICK accepted :
        lane' = [e \in Cores |-> [m \in Lanes |-> lane_tick(e, m, e = c /\ m \in accepted)]]
  BY DEF Tick
<1>3. ~(d = c /\ l \in accepted)
  OBVIOUS
<1>4. lane'[d][l] = lane_tick(d, l, d = c /\ l \in accepted)
  BY <1>2
<1>5. lane_tick(d, l, d = c /\ l \in accepted) = lane[d][l]
  BY <1>1, <1>3 DEF lane_tick
<1> QED BY <1>1, <1>4, <1>5 DEF Asking

\* The arbiter chooses the first asking core from its register on
\* (arb_core of mini_gpu.v).
LEMMA ArbiterChooses ==
  ASSUME TurnOK, arb_valid
  PROVE  \E i \in Cores : /\ IsFirst(rr, {d \in Cores : Asking(d)}, i)
                         /\ arb_core = WrapFrom(rr, i) /\ arb_core \in Cores
<1> DEFINE asking == {d \in Cores : Asking(d)}
           Chosen(i) == /\ Asking(wrap_core_index(i))
                        /\ \A j \in 0..(i - 1) : ~Asking(wrap_core_index(j))
<1>1. \A i \in Cores : WrapFrom(rr, i) \in Cores /\ WrapFrom(rr, i) = wrap_core_index(i)
  BY BusAssumption DEF TurnOK, WrapFrom, wrap_core_index, Cores
<1>2. \A i \in Cores : \A j \in 0..(i - 1) : j \in Cores
  BY BusAssumption DEF Cores
<1>3. \A i \in Cores : IsFirst(rr, asking, i) <=> Chosen(i)
  BY <1>1, <1>2 DEF IsFirst
<1>4. \E i \in Cores : Chosen(i)
  BY <1>3, FirstExists DEF arb_valid, TurnOK
<1>5. PICK i \in Cores : Chosen(i) /\ arb_core = wrap_core_index(i)
  BY <1>4 DEF arb_core
<1> QED BY <1>1, <1>3, <1>5

\* A core that is served is the first that asks.
ServesFirst ==
  \A c \in Cores : served = c =>
    \E i \in Cores : IsFirst(rr, {d \in Cores : Asking(d)}, i) /\ c = WrapFrom(rr, i)

\* Only the arbiter has a core served.
LEMMA ChoiceIsFirst == TurnOK => ServesFirst
<1> SUFFICES ASSUME TurnOK, NEW c \in Cores, served = c
             PROVE  \E i \in Cores : IsFirst(rr, {d \in Cores : Asking(d)}, i) /\ c = WrapFrom(rr, i)
  BY DEF ServesFirst
<1>1. c = arb_core /\ arb_valid
  BY BusAssumption DEF served, NoOne, Host, Cores
<1> QED BY <1>1, ArbiterChooses

\* The round robin serves the cores in turn, for any number of cores, lanes,
\* banks and ports: one that was served is not served again while another
\* asks, however few of its lanes were taken.
THEOREM ServedInTurn == Spec => NotServedTwice
<1> DEFINE asking == {d \in Cores : Asking(d)}
           InTurn == \A c, d \in Cores : Tick /\ served = c /\ d # c /\ Asking(d) => served' # c
<1>1. TurnOK' => ServesFirst'
  BY ChoiceIsFirst, PTL
<1>2. TurnOK' /\ [Next]_vars => InTurn
  <2> SUFFICES ASSUME TurnOK', NEW c \in Cores, NEW d \in Cores,
                      Tick, served = c, d # c, Asking(d), served' = c
               PROVE  FALSE
    OBVIOUS
  <2>1. d \in asking'
    BY AskingStays
  <2>2. rr' = next_core_index(c)
    BY DEF Tick, rr_tick
  <2>3. PICK i \in Cores : IsFirst(rr', asking', i) /\ c = WrapFrom(rr', i)
    BY <1>1 DEF ServesFirst
  <2> HIDE DEF asking
  <2> QED BY <2>1, <2>2, <2>3, AnotherIsFirst
<1>3. Spec => []TurnOK
  BY TurnInRange
<1> QED BY <1>2, <1>3, PTL DEF Spec, NotServedTwice

-----------------------------------------------------------------------------
(***************************************************************************)
(* The two rules for the ports of a bank.                                  *)
(***************************************************************************)
Data    == UNION {[mask -> Value] : mask \in SUBSET Bytes}
Req     == [op : {"load", "store"}, addr : Addresses, data : Data]
PortSet == [req : Req, lane : Lanes]

\* The pipe holds what the first rule has accepted of one requester.
PipeOK ==
  \E r \in Requesters : \E req \in [Lanes -> Request \cup {None}] :
    pipe = [l \in Lanes |-> IF l \in Accepted(req)
              THEN [op |-> "asked", req |-> req[l], from |-> r] ELSE None]

\* Lane l asks bank for something in this cycle.
Wants(l, bank) == pipe[l] # None /\ Bank(pipe[l].req.addr) = bank

\* Lane l stores to the word that port p stores to.
StoresTo(l, port) ==
  /\ Wants(l, Bank(port.req.addr)) /\ pipe[l].req.op = "store"
  /\ port.req.op = "store" /\ pipe[l].req.addr = port.req.addr

\* Every port was given to a lane that asks what the port asks.
PortsOwned(ports, n, bank) == \A p \in DOMAIN ports :
  /\ ports[p].lane < n /\ Wants(ports[p].lane, bank)
  /\ ports[p].req.op = pipe[ports[p].lane].req.op
  /\ ports[p].req.addr = pipe[ports[p].lane].req.addr

\* No lane has two ports, and no two ports store to one word.
PortsDiffer(ports) == \A p, q \in DOMAIN ports :
  \/ p = q
  \/ /\ ports[p].lane # ports[q].lane
     /\ ~(/\ ports[p].req.op = "store" /\ ports[q].req.op = "store"
          /\ ports[p].req.addr = ports[q].req.addr)

\* Lane l has a port, a load one of its own.
HasPort(l, ports) == \E p \in DOMAIN ports :
  /\ ports[p].req.op = pipe[l].req.op /\ ports[p].req.addr = pipe[l].req.addr
  /\ pipe[l].req.op = "load" => ports[p].lane = l

\* A byte that several lanes store is the highest one's.
LastByteWins(ports, n) == \A p \in DOMAIN ports : \A l \in 0..(n - 1) :
  StoresTo(l, ports[p]) =>
    \A b \in DOMAIN pipe[l].req.data :
      /\ b \in DOMAIN ports[p].req.data
      /\ (\A k \in (l + 1)..(n - 1) : StoresTo(k, ports[p]) => b \notin DOMAIN pipe[k].req.data)
           => ports[p].req.data[b] = pipe[l].req.data[b]

\* A port stores no byte that no lane stores.
BytesOwned(ports, n) == \A p \in DOMAIN ports : ports[p].req.op = "store" =>
  \A b \in DOMAIN ports[p].req.data :
    \E l \in 0..(n - 1) : StoresTo(l, ports[p]) /\ b \in DOMAIN pipe[l].req.data

\* The ports of a bank serve the first n lanes.
Serves(ports, n, bank) ==
  /\ ports \in Seq(PortSet) /\ Len(ports) <= Ports
  /\ PortsOwned(ports, n, bank)
  /\ PortsDiffer(ports)
  /\ \A l \in 0..(n - 1) : Wants(l, bank) => HasPort(l, ports)
  /\ LastByteWins(ports, n)
  /\ BytesOwned(ports, n)

\* All accepted requests meet a port, in every bank and every cycle.
PortForEach == \A bank \in 0..(Banks - 1) : Serves(bank_ports[bank], WarpSize, bank)

-----------------------------------------------------------------------------
\* What a request is made of.
LEMMA RequestFields ==
  ASSUME NEW q \in Request
  PROVE  /\ q \in Req /\ q # None
         /\ q.op \in {"load", "store"} /\ q.addr \in Addresses /\ q.data \in Data
<1>1. << >> \in Data
  <2>1. << >> \in [{} -> Value]
    OBVIOUS
  <2> QED BY <2>1 DEF Data
<1>2. q \in Req
  BY <1>1 DEF Request, Req, Data
<1> QED BY <1>2 DEF Req, None

\* A request's bank exists.
LEMMA BankExists == ASSUME NEW a \in Addresses PROVE Bank(a) \in 0..(Banks - 1)
  BY BusAssumption, RemainderInRange DEF Bank

\* The bytes of merged stores are bytes of a word again, the later one's on
\* top (merge_write_data of memory_bank.v).
LEMMA MergedData ==
  ASSUME NEW old \in Data, NEW new \in Data
  PROVE  /\ merge_write_data(old, new) \in Data
         /\ DOMAIN merge_write_data(old, new) = DOMAIN old \cup DOMAIN new
         /\ \A b \in DOMAIN new : merge_write_data(old, new)[b] = new[b]
         /\ \A b \in DOMAIN old \ DOMAIN new : merge_write_data(old, new)[b] = old[b]
<1>1. PICK m \in SUBSET Bytes : old \in [m -> Value]
  BY DEF Data
<1>2. PICK n \in SUBSET Bytes : new \in [n -> Value]
  BY DEF Data
<1>3. merge_write_data(old, new) =
        [b \in m \cup n |-> IF b \in n THEN new[b] ELSE old[b]]
  BY <1>1, <1>2 DEF merge_write_data
<1>4. merge_write_data(old, new) \in [m \cup n -> Value]
  BY <1>1, <1>2, <1>3
<1>5. m \cup n \in SUBSET Bytes
  OBVIOUS
<1> QED BY <1>1, <1>2, <1>3, <1>4, <1>5 DEF Data

\* The ports after n lanes, from those after n - 1.
Next_ports(bank, ports, n) ==
  IF pipe[n - 1] # None /\ Bank(pipe[n - 1].req.addr) = bank
  THEN assign_lane_to_port(ports, n - 1) ELSE ports
Unfolded(bank, f, n) == IF n = 0 THEN << >> ELSE Next_ports(bank, f[n - 1], n)

\* The ports of a bank are given out lane after lane.
LEMMA GivenUnfolds ==
  ASSUME NEW bank
  PROVE  given(bank) = [n \in 0..WarpSize |-> Unfolded(bank, given(bank), n)]
<1> DEFINE Unfold(f, m) == f = [n \in 0..m |-> Unfolded(bank, f, n)]
           Reached(m) == \E f : Unfold(f, m)
           Missed == {m \in 0..WarpSize : ~Reached(m)}
<1>1. Reached(0)
  <2> DEFINE f == [n \in 0..0 |-> << >>]
  <2>1. Unfold(f, 0)
    BY DEF Unfolded
  <2> QED BY <2>1
<1>2. ASSUME NEW m \in Nat, Reached(m) PROVE Reached(m + 1)
  <2>1. PICK f : Unfold(f, m)
    BY <1>2
  <2> DEFINE g == [n \in 0..(m + 1) |-> IF n <= m THEN f[n] ELSE Next_ports(bank, f[m], m + 1)]
  <2>2. ASSUME NEW n \in 0..(m + 1) PROVE g[n] = Unfolded(bank, g, n)
    <3>1. CASE n = 0
      BY <3>1, <2>1 DEF Unfolded
    <3>2. CASE n # 0 /\ n <= m
      <4>1. n - 1 \in 0..m /\ n \in 0..m /\ n - 1 \in 0..(m + 1)
        BY <3>2
      <4>2. g[n - 1] = f[n - 1] /\ g[n] = f[n]
        BY <4>1
      <4>3. f[n] = Unfolded(bank, f, n)
        BY <2>1, <4>1
      <4> QED BY <3>2, <4>2, <4>3 DEF Unfolded
    <3>3. CASE n = m + 1
      <4>1. g[m] = f[m]
        OBVIOUS
      <4> QED BY <3>3, <4>1 DEF Unfolded
    <3> QED BY <3>1, <3>2, <3>3
  <2>3. Unfold(g, m + 1)
    BY <2>2
  <2> QED BY <2>3
<1>3. Missed = {}
  <2>1. SUFFICES ASSUME Missed # {} PROVE FALSE
    OBVIOUS
  <2>2. PICK m \in Missed : \A k \in Missed : m <= k
    <3>1. Missed \in SUBSET Nat
      BY BusAssumption
    <3> HIDE DEF Missed
    <3> QED BY <2>1, <3>1, LeastNumber
  <2> HIDE DEF Reached
  <2>3. m # 0
    BY <2>2, <1>1
  <2>4. m - 1 \in 0..WarpSize /\ m - 1 \in Nat /\ (m - 1) + 1 = m /\ ~(m <= m - 1)
    BY <2>2, <2>3, BusAssumption
  <2>5. Reached(m - 1)
    BY <2>2, <2>4
  <2> QED BY <1>2, <2>2, <2>4, <2>5
<1>4. PICK f : Unfold(f, WarpSize)
  BY <1>3, BusAssumption
<1>5. given(bank) = CHOOSE g : g = [n \in 0..WarpSize |-> Unfolded(bank, g, n)]
  BY DEF given, Unfolded, Next_ports
<1> QED BY <1>4, <1>5

-----------------------------------------------------------------------------
\* What a lane in the pipe asks was accepted.
LEMMA PipeFields ==
  ASSUME PipeOK, NEW l \in Lanes, pipe[l] # None
  PROVE  pipe[l].req \in Request /\ pipe[l].from \in Requesters
<1>1. PICK r \in Requesters, req \in [Lanes -> Request \cup {None}] :
        pipe = [k \in Lanes |-> IF k \in Accepted(req)
                  THEN [op |-> "asked", req |-> req[k], from |-> r] ELSE None]
  BY DEF PipeOK
<1>2. l \in Accepted(req)
  BY <1>1
<1>3. pipe[l] = [op |-> "asked", req |-> req[l], from |-> r]
  BY <1>1, <1>2
<1>4. req[l] # None
  BY <1>2 DEF Accepted
<1> QED BY <1>1, <1>3, <1>4

\* A lane that was accepted and merges with no port finds one free: the rule
\* that accepts (same_prior_count of memory.v) counts at least the ports that
\* the rule that gives them out (assign_lane_to_port of memory_bank.v) has
\* given.
LEMMA RoomForLane ==
  ASSUME PipeOK, NEW bank, NEW n \in Lanes, NEW ports, Serves(ports, n, bank), Wants(n, bank),
         \A p \in DOMAIN ports : ~StoresTo(n, ports[p])
  PROVE  Len(ports) < Ports
<1>1. PICK r \in Requesters, req \in [Lanes -> Request \cup {None}] :
        pipe = [k \in Lanes |-> IF k \in Accepted(req)
                  THEN [op |-> "asked", req |-> req[k], from |-> r] ELSE None]
  BY DEF PipeOK
<1>2. \A k \in Lanes : pipe[k] # None =>
        /\ k \in Accepted(req) /\ req[k] # None /\ req[k] \in Request
        /\ pipe[k].req = req[k]
  <2> TAKE k \in Lanes
  <2> HAVE pipe[k] # None
  <2>1. k \in Accepted(req)
    BY <1>1
  <2>2. pipe[k] = [op |-> "asked", req |-> req[k], from |-> r]
    BY <1>1, <2>1
  <2>3. req[k] # None
    BY <2>1 DEF Accepted
  <2> QED BY <2>1, <2>2, <2>3
<1> DEFINE S == {low \in 0..(n - 1) : prior_uses_port(req[low], req[n])}
           f == [p \in 1..Len(ports) |-> ports[p].lane]
<1>3. Len(ports) \in Nat /\ DOMAIN ports = 1..Len(ports)
  BY DEF Serves
<1>4. ASSUME NEW p \in DOMAIN ports PROVE ports[p].lane \in S
  <2>1. ports[p] \in PortSet
    BY <1>3 DEF Serves
  <2>2. ports[p].lane \in 0..(n - 1) /\ ports[p].lane \in Lanes
    BY <2>1, BusAssumption DEF PortSet, Lanes, Serves, PortsOwned
  <2>3. Wants(ports[p].lane, bank)
    BY DEF Serves, PortsOwned
  <2>4. /\ req[ports[p].lane] # None
        /\ req[ports[p].lane] = pipe[ports[p].lane].req
        /\ req[n] = pipe[n].req
    BY <1>2, <2>2, <2>3 DEF Wants
  <2>5. Bank(req[ports[p].lane].addr) = bank /\ Bank(req[n].addr) = bank
    BY <2>3, <2>4 DEF Wants
  <2>6. ports[p].req.op = req[ports[p].lane].op /\ ports[p].req.addr = req[ports[p].lane].addr
    BY <2>4 DEF Serves, PortsOwned
  <2>7. ~(req[ports[p].lane].op = "store" /\ req[n].op = "store"
          /\ req[ports[p].lane].addr = req[n].addr)
    BY <2>4, <2>5, <2>6 DEF StoresTo, Wants
  <2> QED BY <2>2, <2>4, <2>5, <2>7 DEF prior_uses_port
<1>5. f \in Injection(1..Len(ports), S)
  <2>1. f \in [1..Len(ports) -> S]
    BY <1>3, <1>4
  <2>2. \A p, q \in 1..Len(ports) : f[p] = f[q] => p = q
    BY <1>3 DEF Serves, PortsDiffer
  <2> QED BY <2>1, <2>2 DEF Injection, IsInjective
<1>6. IsFiniteSet(S) /\ Cardinality(S) < Ports
  <2>1. IsFiniteSet(0..(n - 1))
    BY FS_Interval, BusAssumption DEF Lanes
  <2>2. S \in SUBSET (0..(n - 1))
    OBVIOUS
  <2>3. n \in Accepted(req)
    BY <1>2 DEF Wants
  <2> QED BY <2>1, <2>2, <2>3, FS_Subset DEF Accepted, same_prior_count
<1>7. Cardinality(1..Len(ports)) = Len(ports)
  BY <1>3, FS_Interval
<1>8. Len(ports) <= Cardinality(S)
  <2> HIDE DEF S, f
  <2> QED BY <1>5, <1>6, <1>7, FS_Injection
<1>9. Cardinality(S) \in Nat
  BY <1>6, FS_CardinalityType
<1> QED BY <1>3, <1>6, <1>8, <1>9, BusAssumption

\* One more lane that asks nothing of this bank changes nothing.
LEMMA OtherLaneServed ==
  ASSUME NEW bank, NEW n \in Nat, NEW ports, Serves(ports, n, bank), ~Wants(n, bank),
         \A p \in DOMAIN ports : Bank(ports[p].req.addr) = bank
  PROVE  Serves(ports, n + 1, bank)
<1>1. ports \in Seq(PortSet) /\ Len(ports) <= Ports /\ PortsDiffer(ports)
  BY DEF Serves
<1>2. PortsOwned(ports, n + 1, bank)
  <2>1. \A p \in DOMAIN ports : ports[p] \in PortSet
    BY DEF Serves
  <2>2. \A p \in DOMAIN ports : ports[p].lane \in Int
    BY <2>1, BusAssumption DEF PortSet, Lanes
  <2> QED BY <2>2 DEF Serves, PortsOwned
<1>3. \A l \in 0..n : Wants(l, bank) => HasPort(l, ports)
  BY DEF Serves
<1>4. LastByteWins(ports, n + 1)
  <2> SUFFICES ASSUME NEW p \in DOMAIN ports, NEW l \in 0..n, StoresTo(l, ports[p]),
                      NEW b \in DOMAIN pipe[l].req.data
               PROVE  /\ b \in DOMAIN ports[p].req.data
                      /\ (\A k \in (l + 1)..n : StoresTo(k, ports[p]) => b \notin DOMAIN pipe[k].req.data)
                           => ports[p].req.data[b] = pipe[l].req.data[b]
    BY DEF LastByteWins
  <2>1. l # n
    BY DEF StoresTo
  <2>2. l \in 0..(n - 1)
    BY <2>1
  <2>3. LastByteWins(ports, n)
    BY DEF Serves
  <2> QED BY <2>2, <2>3 DEF LastByteWins
<1>5. BytesOwned(ports, n + 1)
  BY DEF Serves, BytesOwned
<1> QED BY <1>1, <1>2, <1>3, <1>4, <1>5 DEF Serves

\* One more lane that stores to a word some port stores to: its bytes go on
\* top of that port's.
LEMMA MergedLaneServed ==
  ASSUME PipeOK, NEW bank, NEW n \in Lanes, NEW ports, Serves(ports, n, bank), Wants(n, bank),
         \A p \in DOMAIN ports : Bank(ports[p].req.addr) = bank,
         NEW s \in DOMAIN ports, StoresTo(n, ports[s])
  PROVE  Serves([ports EXCEPT ![s].req.data = merge_write_data(@, pipe[n].req.data)], n + 1, bank)
<1> DEFINE merged == merge_write_data(ports[s].req.data, pipe[n].req.data)
           after == [ports EXCEPT ![s].req.data = merge_write_data(@, pipe[n].req.data)]
<1>0. n \in Nat /\ Lanes \subseteq Nat
  BY BusAssumption DEF Lanes
<1>1. pipe[n].req \in Req /\ pipe[n].req.data \in Data
  BY PipeFields, RequestFields DEF Wants
<1>2. /\ ports \in Seq(PortSet) /\ Len(ports) \in Nat /\ DOMAIN ports = 1..Len(ports)
      /\ \A p \in DOMAIN ports : ports[p] \in PortSet
  BY DEF Serves
<1>3. /\ merged \in Data
      /\ DOMAIN merged = DOMAIN ports[s].req.data \cup DOMAIN pipe[n].req.data
      /\ \A b \in DOMAIN pipe[n].req.data : merged[b] = pipe[n].req.data[b]
      /\ \A b \in DOMAIN ports[s].req.data \ DOMAIN pipe[n].req.data :
           merged[b] = ports[s].req.data[b]
  <2>1. ports[s].req.data \in Data
    BY <1>2 DEF PortSet, Req
  <2> QED BY <1>1, <2>1, MergedData
<1> HIDE DEF merged
<1>4. /\ DOMAIN after = DOMAIN ports
      /\ after[s] = [ports[s] EXCEPT !.req.data = merged]
      /\ \A p \in DOMAIN ports \ {s} : after[p] = ports[p]
  BY DEF merged
<1>5. /\ after[s].lane = ports[s].lane
      /\ after[s].req.op = ports[s].req.op /\ after[s].req.addr = ports[s].req.addr
      /\ after[s].req.data = merged
      /\ after[s] \in PortSet
  BY <1>2, <1>3, <1>4 DEF PortSet, Req
<1>6. \A p \in DOMAIN ports :
        /\ after[p].lane = ports[p].lane
        /\ after[p].req.op = ports[p].req.op /\ after[p].req.addr = ports[p].req.addr
  BY <1>4, <1>5
<1>7. after \in Seq(PortSet) /\ Len(after) = Len(ports)
  <2>1. after \in [1..Len(ports) -> PortSet]
    BY <1>2, <1>4, <1>5
  <2> QED BY <1>2, <2>1
<1> HIDE DEF after
<1>8. Len(after) <= Ports /\ PortsDiffer(after)
  BY <1>4, <1>6, <1>7 DEF Serves, PortsDiffer
<1>9. PortsOwned(after, n + 1, bank)
  <2>1. \A p \in DOMAIN ports : ports[p].lane \in Nat
    BY <1>0, <1>2 DEF PortSet
  <2>2. \A p \in DOMAIN ports : ports[p].lane < n + 1
    BY <1>0, <2>1 DEF Serves, PortsOwned
  <2> QED BY <1>4, <1>6, <2>2 DEF Serves, PortsOwned
<1>10. \A l \in 0..n : Wants(l, bank) => HasPort(l, after)
  <2> TAKE l \in 0..n
  <2> HAVE Wants(l, bank)
  <2>1. CASE l = n
    BY <2>1, <1>4, <1>6 DEF HasPort, StoresTo
  <2>2. CASE l # n
    <3>1. HasPort(l, ports)
      BY <2>2, <1>0 DEF Serves
    <3> QED BY <3>1, <1>4, <1>6 DEF HasPort
  <2> QED BY <2>1, <2>2
<1>11. LastByteWins(after, n + 1)
  <2> SUFFICES ASSUME NEW p \in DOMAIN ports, NEW l \in 0..n, StoresTo(l, after[p]),
                      NEW b \in DOMAIN pipe[l].req.data
               PROVE  /\ b \in DOMAIN after[p].req.data
                      /\ (\A k \in (l + 1)..n : StoresTo(k, after[p]) => b \notin DOMAIN pipe[k].req.data)
                           => after[p].req.data[b] = pipe[l].req.data[b]
    BY <1>4, <1>0 DEF LastByteWins
  <2>0. \A k : StoresTo(k, after[p]) <=> StoresTo(k, ports[p])
    BY <1>6 DEF StoresTo
  <2>1. CASE l = n
    <3>1. p = s
      <4>1. ports[p].req.addr = ports[s].req.addr /\ ports[p].req.op = "store" /\ ports[s].req.op = "store"
        BY <2>0, <2>1 DEF StoresTo
      <4> QED BY <4>1 DEF Serves, PortsDiffer
    <3> QED BY <2>1, <3>1, <1>3, <1>5
  <2>2. CASE l # n
    <3>1. /\ b \in DOMAIN ports[p].req.data
          /\ (\A k \in (l + 1)..(n - 1) : StoresTo(k, ports[p]) => b \notin DOMAIN pipe[k].req.data)
               => ports[p].req.data[b] = pipe[l].req.data[b]
      BY <2>0, <2>2, <1>0 DEF Serves, LastByteWins
    <3>2. CASE p # s
      <4>1. \A k \in (l + 1)..(n - 1) : k \in (l + 1)..n
        BY <1>0
      <4> QED BY <3>1, <3>2, <4>1, <1>4, <2>0
    <3>3. CASE p = s
      <4>1. b \in DOMAIN after[p].req.data
        BY <3>1, <3>3, <1>3, <1>5
      <4>2. ASSUME \A k \in (l + 1)..n : StoresTo(k, after[p]) => b \notin DOMAIN pipe[k].req.data
            PROVE  after[p].req.data[b] = pipe[l].req.data[b]
        <5>1. b \notin DOMAIN pipe[n].req.data
          <6>1. n \in (l + 1)..n
            BY <2>2, <1>0
          <6> QED BY <6>1, <4>2, <3>3, <2>0
        <5>2. \A k \in (l + 1)..(n - 1) : StoresTo(k, ports[p]) => b \notin DOMAIN pipe[k].req.data
          <6>1. \A k \in (l + 1)..(n - 1) : k \in (l + 1)..n
            BY <1>0
          <6> QED BY <4>2, <6>1, <2>0
        <5> QED BY <5>1, <5>2, <3>1, <3>3, <1>3, <1>5
      <4> QED BY <4>1, <4>2
    <3> QED BY <3>2, <3>3
  <2> QED BY <2>1, <2>2
<1>12. BytesOwned(after, n + 1)
  <2> SUFFICES ASSUME NEW p \in DOMAIN after, after[p].req.op = "store",
                      NEW b \in DOMAIN after[p].req.data
               PROVE  \E l \in 0..n : StoresTo(l, after[p]) /\ b \in DOMAIN pipe[l].req.data
    BY <1>0 DEF BytesOwned
  <2>0. \A k : StoresTo(k, after[p]) <=> StoresTo(k, ports[p])
    BY <1>4, <1>6 DEF StoresTo
  <2>1. CASE b \in DOMAIN ports[p].req.data
    <3>1. \E l \in 0..(n - 1) : StoresTo(l, ports[p]) /\ b \in DOMAIN pipe[l].req.data
      BY <1>4, <1>6, <2>1 DEF Serves, BytesOwned
    <3> QED BY <2>0, <3>1, <1>0
  <2>2. CASE b \notin DOMAIN ports[p].req.data
    <3>1. p = s /\ b \in DOMAIN pipe[n].req.data
      BY <2>2, <1>3, <1>4, <1>5
    <3> QED BY <2>0, <3>1, <1>0
  <2> QED BY <2>1, <2>2
<1>13. Serves(after, n + 1, bank)
  BY <1>0, <1>7, <1>8, <1>9, <1>10, <1>11, <1>12 DEF Serves
<1> QED BY <1>13 DEF after

\* One more lane that gets a port of its own.
LEMMA NewLaneServed ==
  ASSUME PipeOK, NEW bank, NEW n \in Lanes, NEW ports, Serves(ports, n, bank), Wants(n, bank),
         \A p \in DOMAIN ports : Bank(ports[p].req.addr) = bank,
         \A p \in DOMAIN ports : ~StoresTo(n, ports[p])
  PROVE  Serves(Append(ports, [req |-> pipe[n].req, lane |-> n]), n + 1, bank)
<1> DEFINE port == [req |-> pipe[n].req, lane |-> n]
           after == Append(ports, port)
           new == Len(ports) + 1
<1>0. n \in Nat /\ Lanes \subseteq Nat
  BY BusAssumption DEF Lanes
<1>1. port \in PortSet /\ port.req = pipe[n].req /\ port.lane = n
  BY PipeFields, RequestFields DEF Wants, PortSet
<1> HIDE DEF port
<1>2. /\ ports \in Seq(PortSet) /\ Len(ports) \in Nat /\ DOMAIN ports = 1..Len(ports)
      /\ \A p \in DOMAIN ports : ports[p] \in PortSet
  BY DEF Serves
<1>3. /\ after \in Seq(PortSet) /\ Len(after) = new
      /\ DOMAIN after = 1..new /\ new \in DOMAIN after
      /\ after[new] = port
      /\ \A p \in DOMAIN ports : p \in DOMAIN after /\ after[p] = ports[p] /\ p # new
      /\ \A p \in DOMAIN after : p \in DOMAIN ports \/ p = new
  BY <1>1, <1>2
<1> HIDE DEF after, new
<1>4. Len(after) <= Ports
  BY <1>2, <1>3, RoomForLane, BusAssumption DEF new
<1>5. \A p \in DOMAIN ports : ports[p].lane \in Nat /\ ports[p].lane < n
  <2>1. \A p \in DOMAIN ports : ports[p].lane \in Nat
    BY <1>0, <1>2 DEF PortSet
  <2> QED BY <2>1 DEF Serves, PortsOwned
<1>6. PortsOwned(after, n + 1, bank)
  <2> SUFFICES ASSUME NEW p \in DOMAIN after
               PROVE  /\ after[p].lane < n + 1 /\ Wants(after[p].lane, bank)
                      /\ after[p].req.op = pipe[after[p].lane].req.op
                      /\ after[p].req.addr = pipe[after[p].lane].req.addr
    BY DEF PortsOwned
  <2>1. CASE p = new
    BY <2>1, <1>0, <1>1, <1>3
  <2>2. CASE p \in DOMAIN ports
    BY <2>2, <1>0, <1>3, <1>5 DEF Serves, PortsOwned
  <2> QED BY <2>1, <2>2, <1>3
<1>7. \A p \in DOMAIN ports :
        ~(/\ ports[p].req.op = "store" /\ port.req.op = "store"
          /\ ports[p].req.addr = port.req.addr)
  <2> TAKE p \in DOMAIN ports
  <2>1. Bank(ports[p].req.addr) = bank /\ ~StoresTo(n, ports[p])
    OBVIOUS
  <2> QED BY <2>1, <1>1 DEF StoresTo
<1>8. PortsDiffer(after)
  <2> SUFFICES ASSUME NEW p \in DOMAIN after, NEW q \in DOMAIN after, p # q
               PROVE  /\ after[p].lane # after[q].lane
                      /\ ~(/\ after[p].req.op = "store" /\ after[q].req.op = "store"
                           /\ after[p].req.addr = after[q].req.addr)
    BY DEF PortsDiffer
  <2>1. CASE p \in DOMAIN ports /\ q \in DOMAIN ports
    BY <2>1, <1>3 DEF Serves, PortsDiffer
  <2>2. CASE p \in DOMAIN ports /\ q = new
    BY <2>2, <1>0, <1>1, <1>3, <1>5, <1>7
  <2>3. CASE p = new /\ q \in DOMAIN ports
    BY <2>3, <1>0, <1>1, <1>3, <1>5, <1>7
  <2> QED BY <2>1, <2>2, <2>3, <1>3
<1>9. \A l \in 0..n : Wants(l, bank) => HasPort(l, after)
  <2> TAKE l \in 0..n
  <2> HAVE Wants(l, bank)
  <2>1. CASE l = n
    BY <2>1, <1>1, <1>3 DEF HasPort
  <2>2. CASE l # n
    <3>1. HasPort(l, ports)
      BY <2>2, <1>0 DEF Serves
    <3> QED BY <3>1, <1>3 DEF HasPort
  <2> QED BY <2>1, <2>2
<1>10. LastByteWins(after, n + 1)
  <2> SUFFICES ASSUME NEW p \in DOMAIN after, NEW l \in 0..n, StoresTo(l, after[p]),
                      NEW b \in DOMAIN pipe[l].req.data
               PROVE  /\ b \in DOMAIN after[p].req.data
                      /\ (\A k \in (l + 1)..n : StoresTo(k, after[p]) => b \notin DOMAIN pipe[k].req.data)
                           => after[p].req.data[b] = pipe[l].req.data[b]
    BY <1>0 DEF LastByteWins
  <2>1. CASE p = new /\ l = n
    BY <2>1, <1>1, <1>3
  <2>2. CASE p = new /\ l # n
    <3>1. Wants(l, bank) /\ pipe[l].req.op = "store" /\ pipe[l].req.addr = port.req.addr
          /\ port.req.op = "store"
      BY <2>2, <1>1, <1>3 DEF StoresTo, Wants
    <3>2. HasPort(l, ports)
      BY <2>2, <3>1, <1>0 DEF Serves
    <3> QED BY <3>1, <3>2, <1>7 DEF HasPort
  <2>3. CASE p \in DOMAIN ports
    <3>1. after[p] = ports[p] /\ StoresTo(l, ports[p]) /\ l # n
      BY <2>3, <1>3
    <3>2. l \in 0..(n - 1)
      BY <3>1, <1>0
    <3>3. \A k \in (l + 1)..(n - 1) : k \in (l + 1)..n
      BY <1>0
    <3> QED BY <2>3, <3>1, <3>2, <3>3 DEF Serves, LastByteWins
  <2> QED BY <2>1, <2>2, <2>3, <1>3
<1>11. BytesOwned(after, n + 1)
  <2> SUFFICES ASSUME NEW p \in DOMAIN after, after[p].req.op = "store",
                      NEW b \in DOMAIN after[p].req.data
               PROVE  \E l \in 0..n : StoresTo(l, after[p]) /\ b \in DOMAIN pipe[l].req.data
    BY <1>0 DEF BytesOwned
  <2>1. CASE p = new
    <3>1. StoresTo(n, after[p])
      BY <2>1, <1>1, <1>3 DEF StoresTo, Wants
    <3> QED BY <2>1, <3>1, <1>0, <1>1, <1>3
  <2>2. CASE p \in DOMAIN ports
    <3>1. \E l \in 0..(n - 1) : StoresTo(l, ports[p]) /\ b \in DOMAIN pipe[l].req.data
      BY <2>2, <1>3 DEF Serves, BytesOwned
    <3> QED BY <2>2, <3>1, <1>0, <1>3
  <2> QED BY <2>1, <2>2, <1>3
<1>12. Serves(after, n + 1, bank)
  BY <1>0, <1>3, <1>4, <1>6, <1>8, <1>9, <1>10, <1>11 DEF Serves
<1> QED BY <1>12 DEF after, port

\* Giving lane n its port, or merging it, or passing it by.
LEMMA LaneServed ==
  ASSUME PipeOK, NEW bank, NEW n \in Lanes, NEW ports, Serves(ports, n, bank)
  PROVE  Serves(Next_ports(bank, ports, n + 1), n + 1, bank)
<1>1. n \in Nat /\ n + 1 - 1 = n
  BY BusAssumption DEF Lanes
<1>2. Next_ports(bank, ports, n + 1) =
        IF Wants(n, bank) THEN assign_lane_to_port(ports, n) ELSE ports
  BY <1>1 DEF Next_ports, Wants
<1>3. \A p \in DOMAIN ports : Bank(ports[p].req.addr) = bank
  BY DEF Serves, PortsOwned, Wants
<1>4. CASE ~Wants(n, bank)
  BY <1>1, <1>2, <1>3, <1>4, OtherLaneServed
<1>5. CASE Wants(n, bank)
  <2> DEFINE same == {p \in DOMAIN ports :
                        /\ pipe[n].req.op = "store" /\ ports[p].req.op = "store"
                        /\ ports[p].req.addr = pipe[n].req.addr}
  <2>1. \A p \in DOMAIN ports : p \in same <=> StoresTo(n, ports[p])
    BY <1>3, <1>5 DEF StoresTo
  <2>2. CASE same # {}
    <3> DEFINE s == CHOOSE p \in same : \A q \in same : p <= q
    <3>1. s \in same
      <4>1. same \in SUBSET Nat
        BY DEF Serves
      <4> HIDE DEF same
      <4> QED BY <2>2, <4>1, LeastNumber
    <3>2. assign_lane_to_port(ports, n) =
            [ports EXCEPT ![s].req.data = merge_write_data(@, pipe[n].req.data)]
      BY <2>2 DEF assign_lane_to_port
    <3>3. s \in DOMAIN ports /\ StoresTo(n, ports[s])
      BY <2>1, <3>1
    <3> HIDE DEF s, same
    <3>4. Serves([ports EXCEPT ![s].req.data = merge_write_data(@, pipe[n].req.data)], n + 1, bank)
      BY <1>3, <1>5, <3>3, MergedLaneServed
    <3> QED BY <1>2, <1>5, <3>2, <3>4
  <2>3. CASE same = {}
    <3>1. \A p \in DOMAIN ports : ~StoresTo(n, ports[p])
      BY <2>1, <2>3
    <3>2. Len(ports) < Ports
      BY <1>5, <3>1, RoomForLane
    <3>3. assign_lane_to_port(ports, n) = Append(ports, [req |-> pipe[n].req, lane |-> n])
      BY <2>3, <3>2 DEF assign_lane_to_port
    <3> QED BY <1>2, <1>3, <1>5, <3>1, <3>3, NewLaneServed
  <2> QED BY <2>2, <2>3
<1> QED BY <1>4, <1>5

\* The ports of a bank serve all lanes that ask.
LEMMA AllLanesServed == PipeOK => PortForEach
<1> SUFFICES ASSUME PipeOK, NEW bank \in 0..(Banks - 1)
             PROVE  Serves(bank_ports[bank], WarpSize, bank)
  BY DEF PortForEach
<1> DEFINE Missed == {n \in 0..WarpSize : ~Serves(given(bank)[n], n, bank)}
<1>1. given(bank)[0] = << >>
  BY GivenUnfolds, BusAssumption DEF Unfolded
<1>2. \A n \in 1..WarpSize : given(bank)[n] = Next_ports(bank, given(bank)[n - 1], n)
  <2> TAKE n \in 1..WarpSize
  <2>1. n \in 0..WarpSize /\ n # 0
    OBVIOUS
  <2>2. given(bank)[n] = Unfolded(bank, given(bank), n)
    BY <2>1, GivenUnfolds
  <2> QED BY <2>1, <2>2, Zenon DEF Unfolded
<1>3. Serves(<< >>, 0, bank)
  BY BusAssumption DEF Serves, PortsOwned, PortsDiffer, LastByteWins, BytesOwned
<1>4. Missed = {}
  <2>1. SUFFICES ASSUME Missed # {} PROVE FALSE
    OBVIOUS
  <2>2. PICK n \in Missed : \A k \in Missed : n <= k
    <3>1. Missed \in SUBSET Nat
      BY BusAssumption
    <3> HIDE DEF Missed
    <3> QED BY <2>1, <3>1, LeastNumber
  <2>3. n # 0
    BY <2>2, <1>1, <1>3
  <2>4. /\ n - 1 \in Lanes /\ n - 1 \in 0..WarpSize /\ n \in 1..WarpSize
        /\ (n - 1) + 1 = n /\ ~(n <= n - 1)
    BY <2>2, <2>3, BusAssumption DEF Lanes
  <2>5. Serves(given(bank)[n - 1], n - 1, bank)
    BY <2>2, <2>4
  <2>6. Serves(Next_ports(bank, given(bank)[n - 1], (n - 1) + 1), (n - 1) + 1, bank)
    BY <2>4, <2>5, LaneServed
  <2>7. Serves(given(bank)[n], n, bank)
    BY <2>4, <2>6, <1>2
  <2> QED BY <2>2, <2>7
<1>5. WarpSize \in 0..WarpSize
  BY BusAssumption
<1> QED BY <1>4, <1>5 DEF bank_ports

-----------------------------------------------------------------------------
(***************************************************************************)
(* What is in the registers.                                               *)
(***************************************************************************)
LanesOK ==
  /\ DOMAIN lane = Cores
  /\ \A c \in Cores : \A l \in Lanes :
       /\ lane[c][l].stage \in {"idle", "ask", "sent", "told"}
       /\ lane[c][l].stage = "ask" => lane[c][l].req \in Request
HostOK == hostReq \in Request \cup {None} /\ wanted \in Request \cup {None}
BusOK  == TurnOK /\ LanesOK /\ HostOK /\ PipeOK

\* The four stages of a lane.
LEMMA Stages ==
  ASSUME NEW x
  PROVE  /\ Idle.stage = "idle"
         /\ Ask(x).stage = "ask" /\ Ask(x).req = x
         /\ Sent(x).stage = "sent" /\ Sent(x).req = x
         /\ Told(x).stage = "told"
  BY DEF Idle, Ask, Sent, Told

\* Whom the memory serves: the host when no kernel runs, a core, or no one.
LEMMA ServedIs ==
  ASSUME TurnOK
  PROVE  /\ served \in Requesters \cup {NoOne}
         /\ NoOne \notin Requesters /\ Host \notin Cores /\ Requesters = Cores \cup {Host}
         /\ served = Host => running = {}
<1>1. arb_valid => arb_core \in Cores
  BY ArbiterChooses
<1>2. NoOne \notin Requesters /\ Host \notin Cores /\ NoOne # Host
  BY BusAssumption DEF NoOne, Requesters, Host, Cores
<1>3. arb_core \in Cores => arb_core # Host
  BY <1>2
<1>4. served = Host => running = {}
  BY <1>1, <1>2, <1>3 DEF served, host_active, busy
<1> QED BY <1>1, <1>2, <1>4 DEF served, Requesters

\* What the served one asks, lane by lane.
LEMMA RequestIs ==
  ASSUME BusOK, NEW r \in Requesters \cup {NoOne}
  PROVE  /\ request(r) \in [Lanes -> Request \cup {None}]
         /\ \A l \in Lanes : request(r)[l] # None =>
              /\ r \in Requesters
              /\ r = Host => l = 0
              /\ r \in Cores => lane[r][l].stage = "ask" /\ request(r)[l] = lane[r][l].req
<1>1. NoOne \notin Requesters /\ Host \notin Cores /\ Requesters = Cores \cup {Host}
  BY BusAssumption DEF NoOne, Requesters, Host, Cores
<1>2. CASE r = Host
  <2>1. request(r) = [l \in Lanes |-> IF l = 0 THEN hostReq ELSE None]
    BY <1>1, <1>2 DEF request
  <2> QED BY <1>1, <1>2, <2>1 DEF BusOK, HostOK
<1>3. CASE r \in Cores
  <2>1. request(r) = [l \in Lanes |-> IF lane[r][l].stage = "ask" THEN lane[r][l].req ELSE None]
    BY <1>1, <1>3 DEF request, Asked
  <2> QED BY <1>1, <1>3, <2>1 DEF BusOK, LanesOK
<1>4. CASE r = NoOne
  <2>1. request(r) = [l \in Lanes |-> None]
    BY <1>1, <1>4 DEF request
  <2> QED BY <1>1, <1>4, <2>1
<1> QED BY <1>1, <1>2, <1>3, <1>4

\* A clock edge, one register at a time.
LEMMA TickIs ==
  ASSUME BusOK, Tick
  PROVE  \E r \in Requesters \cup {NoOne} : \E accepted \in SUBSET Lanes :
           /\ r = served /\ accepted = Accepted(request(r))
           /\ \A l \in accepted :
                /\ request(r)[l] \in Request /\ r \in Requesters
                /\ r = Host => l = 0 /\ running = {}
                /\ r \in Cores => lane[r][l].stage = "ask" /\ request(r)[l] = lane[r][l].req
           /\ lane' = [c \in Cores |-> [l \in Lanes |-> lane_tick(c, l, c = r /\ l \in accepted)]]
           /\ OwnerTick(r, {l \in accepted : request(r)[l].op = "load"})
           /\ pipe' = [l \in Lanes |-> IF l \in accepted
                         THEN [op |-> "asked", req |-> request(r)[l], from |-> r] ELSE None]
           /\ out' = ReadOut(bank_ports)
           /\ hostReq' \in {wanted, None} /\ wanted' = wanted
           /\ running' = running
<1> DEFINE r == served
           accepted == Accepted(request(served))
<1>1. r \in Requesters \cup {NoOne} /\ (r = Host => running = {})
  BY ServedIs DEF BusOK
<1>2. accepted \in SUBSET Lanes /\ \A l \in accepted : request(r)[l] # None
  BY DEF Accepted
<1>3. \A l \in accepted :
        /\ request(r)[l] \in Request /\ r \in Requesters
        /\ r = Host => l = 0 /\ running = {}
        /\ r \in Cores => lane[r][l].stage = "ask" /\ request(r)[l] = lane[r][l].req
  BY <1>1, <1>2, RequestIs
<1>4. /\ lane' = [c \in Cores |-> [l \in Lanes |-> lane_tick(c, l, c = r /\ l \in accepted)]]
      /\ OwnerTick(r, {l \in accepted : request(r)[l].op = "load"})
      /\ MemoryTick(r, request(r), accepted)
      /\ EngineTick
      /\ running' = running
  BY DEF Tick
<1>5. /\ pipe' = [l \in Lanes |-> IF l \in accepted
                    THEN [op |-> "asked", req |-> request(r)[l], from |-> r] ELSE None]
      /\ out' = ReadOut(bank_ports)
  BY <1>4 DEF MemoryTick
<1>6. hostReq' \in {wanted, None} /\ wanted' = wanted
  BY <1>4 DEF EngineTick
<1> HIDE DEF r, accepted
<1>7. r = served /\ accepted = Accepted(request(r))
  BY DEF r, accepted
<1> QED BY <1>1, <1>2, <1>3, <1>4, <1>5, <1>6, <1>7

\* The registers hold requests, and the pipe what was accepted of one
\* requester.
THEOREM BusTypeCorrect == Spec => []BusOK
<1>1. Init => BusOK
  <2> SUFFICES ASSUME Init PROVE BusOK
    OBVIOUS
  <2>1. TurnOK
    BY BusAssumption DEF Init, TurnOK, Cores
  <2>2. LanesOK
    BY Stages DEF Init, LanesOK
  <2>3. HostOK
    BY DEF Init, HostOK
  <2>4. PipeOK
    <3> DEFINE req == [l \in Lanes |-> None]
    <3>1. Accepted(req) = {}
      BY DEF Accepted
    <3>2. Host \in Requesters /\ req \in [Lanes -> Request \cup {None}]
      BY DEF Requesters
    <3>3. pipe = [l \in Lanes |-> IF l \in Accepted(req)
                   THEN [op |-> "asked", req |-> req[l], from |-> Host] ELSE None]
      BY <3>1 DEF Init
    <3> QED BY <3>2, <3>3 DEF PipeOK
  <2> QED BY <2>1, <2>2, <2>3, <2>4 DEF BusOK
<1>2. BusOK /\ [Next]_vars => BusOK'
  <2> SUFFICES ASSUME BusOK, [Next]_vars PROVE BusOK'
    OBVIOUS
  <2>1. CASE Tick
    <3>1. PICK r \in Requesters \cup {NoOne}, accepted \in SUBSET Lanes :
            /\ r = served /\ accepted = Accepted(request(r))
            /\ \A l \in accepted : r \in Requesters
            /\ lane' = [c \in Cores |-> [l \in Lanes |-> lane_tick(c, l, c = r /\ l \in accepted)]]
            /\ pipe' = [l \in Lanes |-> IF l \in accepted
                          THEN [op |-> "asked", req |-> request(r)[l], from |-> r] ELSE None]
            /\ hostReq' \in {wanted, None} /\ wanted' = wanted
      BY <2>1, TickIs
    <3>2. TurnOK'
      BY <2>1, NextIsACore DEF Tick, BusOK, TurnOK, rr_tick
    <3>3. LanesOK'
      <4>1. DOMAIN lane' = Cores
        BY <3>1
      <4>2. ASSUME NEW c \in Cores, NEW l \in Lanes
            PROVE  /\ lane'[c][l].stage \in {"idle", "ask", "sent", "told"}
                   /\ lane'[c][l].stage = "ask" => lane'[c][l].req \in Request
        <5>1. lane'[c][l] = lane_tick(c, l, c = r /\ l \in accepted)
          BY <3>1
        <5>2. lane'[c][l] \in {Idle, Sent(lane[c][l].req), Told(out[l].value), lane[c][l]}
          BY <5>1 DEF lane_tick
        <5> QED BY <5>2, Stages DEF BusOK, LanesOK
      <4> QED BY <4>1, <4>2 DEF LanesOK
    <3>4. HostOK'
      BY <3>1 DEF BusOK, HostOK
    <3>5. PipeOK'
      <4>1. request(r) \in [Lanes -> Request \cup {None}]
        BY RequestIs
      <4>2. CASE r \in Requesters
        BY <3>1, <4>1, <4>2 DEF PipeOK
      <4>3. CASE r \notin Requesters
        <5>1. Host \in Requesters
          BY DEF Requesters
        <5>2. accepted = {}
          BY <3>1, <4>3
        <5>3. pipe' = [l \in Lanes |-> IF l \in Accepted(request(r))
                        THEN [op |-> "asked", req |-> request(r)[l], from |-> Host] ELSE None]
          BY <3>1, <5>2
        <5> QED BY <4>1, <5>1, <5>3 DEF PipeOK
      <4> QED BY <4>2, <4>3
    <3> QED BY <3>2, <3>3, <3>4, <3>5 DEF BusOK
  <2>2. ASSUME UNCHANGED <<arbiter, banks>>, LanesOK', HostOK' PROVE BusOK'
    BY <2>2 DEF BusOK, TurnOK, PipeOK, arbiter, banks
  <2>4. CASE Launch
    BY <2>2, <2>4 DEF Launch, host, BusOK, LanesOK, HostOK
  <2>5. CASE HostRead
    <3>1. wanted' \in Request
      BY <2>5, BusAssumption DEF HostRead
    <3> QED BY <2>2, <2>5, <3>1 DEF HostRead, cores, BusOK, LanesOK, HostOK
  <2>6. CASE HostSent
    BY <2>2, <2>6 DEF HostSent, cores, BusOK, LanesOK, HostOK
  <2>7. CASE HostWrite
    <3>1. hostReq' \in Request
      BY <2>7, BusAssumption DEF HostWrite
    <3> QED BY <2>2, <2>7, <3>1 DEF HostWrite, cores, BusOK, LanesOK, HostOK
  <2>8. ASSUME NEW c \in Cores, Issue(c) PROVE BusOK'
    <3>1. PICK i \in Programs[c] :
            lane' = [lane EXCEPT ![c] = [l \in Lanes |-> IF l \in DOMAIN i THEN Ask(i[l]) ELSE Idle]]
      BY <2>8 DEF Issue
    <3>2. \A l \in DOMAIN i : i[l] \in Request
      BY BusAssumption
    <3>3. LanesOK'
      BY <3>1, <3>2, Stages DEF BusOK, LanesOK
    <3> QED BY <2>2, <2>8, <3>3 DEF Issue, host, BusOK, HostOK
  <2>9. ASSUME NEW c \in Cores, Stop(c) PROVE BusOK'
    BY <2>2, <2>9 DEF Stop, host, BusOK, LanesOK, HostOK
  <2>10. CASE UNCHANGED vars
    BY <2>2, <2>10 DEF vars, cores, host, arbiter, banks, BusOK, LanesOK, HostOK
  <2> QED BY <2>1, <2>4, <2>5, <2>6, <2>7, <2>8, <2>9, <2>10 DEF Next
<1> QED BY <1>1, <1>2, PTL DEF Spec

\* No accepted request is lost at the banks: for any number of lanes, banks
\* and ports the rule that accepts requests and the rule that gives out ports
\* agree in every cycle, every load has its port, every store one of its
\* word, and of the bytes of merged stores the highest lane's remain.
THEOREM PortsSuffice == Spec => []PortForEach
<1>1. BusOK => PortForEach
  BY AllLanesServed DEF BusOK
<1> QED BY <1>1, BusTypeCorrect, PTL

-----------------------------------------------------------------------------
(***************************************************************************)
(* One core that loads.                                                    *)
(***************************************************************************)
\* No core but L loads.
OneLoads(L) ==
  \A c \in Cores \ {L} : \A i \in Programs[c] : \A l \in DOMAIN i : i[l].op = "store"

Waits(c, l) == lane[c][l].stage \in {"ask", "sent"}

\* Only running cores ask, and then nothing of the host is under way.
HostAway == \A c \in Cores : \A l \in Lanes : Waits(c, l) =>
  c \in running /\ Drained(Host)

\* Only L waits for answers.
OneWaits(L) == \A c \in Cores : \A l \in Lanes :
  /\ lane[c][l].stage = "sent" => c = L /\ lane[c][l].req.op = "load"
  /\ lane[c][l].stage = "ask" /\ c # L => lane[c][l].req.op = "store"

Loading(l) == pipe[l] # None /\ pipe[l].req.op = "load"

\* Loads at the banks are the host's, or L's last.
LoadsOwned(L) == \A l \in Lanes : Loading(l) =>
  /\ Owner(pipe[l].from)
  /\ pipe[l].from = Host => l = 0
  /\ pipe[l].from # Host =>
       /\ pipe[l].from = L /\ out[l] = None
       /\ lane[L][l].stage = "sent" /\ lane[L][l].req = pipe[l].req

\* So are the answers.
AnswersOwned(L) == \A l \in Lanes : out[l] # None =>
  /\ Owner(out[l].from)
  /\ out[l].from = Host => l = 0
  /\ out[l].from # Host => out[l].from = L /\ lane[L][l].stage = "sent"

\* Who waits has a load under way.
AllUnderway(L) == \A l \in Lanes : lane[L][l].stage = "sent" =>
  \/ pipe[l] # None /\ pipe[l].from = L /\ pipe[l].req = lane[L][l].req
  \/ out[l] # None /\ out[l].from = L

OwnInv(L) ==
  HostAway /\ OneWaits(L) /\ LoadsOwned(L) /\ AnswersOwned(L) /\ AllUnderway(L)

\* The ports put out an answer for every load at the banks, and no other.
LEMMA ReadOutIs ==
  ASSUME BusOK, NEW l \in Lanes
  PROVE  /\ ReadOut(bank_ports)[l] # None <=> Loading(l)
         /\ Loading(l) => /\ ReadOut(bank_ports)[l].from = pipe[l].from
                         /\ ReadOut(bank_ports)[l].value = mem[pipe[l].req.addr]
<1> DEFINE answer == [op |-> "value", value |-> mem[pipe[l].req.addr], from |-> pipe[l].from]
<1>1. answer # None /\ answer.from = pipe[l].from /\ answer.value = mem[pipe[l].req.addr]
  BY DEF None
<1>2. Loading(l) => ReadOut(bank_ports)[l] = answer
  <2> SUFFICES ASSUME Loading(l) PROVE ReadOut(bank_ports)[l] = answer
    OBVIOUS
  <2> DEFINE bank == Bank(pipe[l].req.addr)
  <2>1. bank \in 0..(Banks - 1)
    BY PipeFields, RequestFields, BankExists DEF BusOK, Loading
  <2>2. Serves(bank_ports[bank], WarpSize, bank)
    BY <2>1, AllLanesServed DEF BusOK, PortForEach
  <2>3. l \in 0..(WarpSize - 1) /\ Wants(l, bank)
    BY DEF Lanes, Wants, Loading
  <2>4. HasPort(l, bank_ports[bank])
    BY <2>2, <2>3 DEF Serves
  <2>5. \E p \in DOMAIN bank_ports[bank] : bank_ports[bank][p].lane = l
    BY <2>4 DEF HasPort, Loading
  <2> QED BY <2>5 DEF ReadOut, Loading
<1>3. ~Loading(l) => ReadOut(bank_ports)[l] = None
  BY DEF ReadOut, Loading
<1> QED BY <1>1, <1>2, <1>3

\* Whose the next answer will be after this step.
NextOwner(r) == IF r = Host THEN ~respOwner' ELSE respOwner' /\ respCore' = r

\* A clock edge keeps the answers and their owners together.
LEMMA TickKeepsOwners ==
  ASSUME NEW L \in Cores, BusOK, OwnInv(L), Tick
  PROVE  OwnInv(L)'
<1>1. PICK r \in Requesters \cup {NoOne}, accepted \in SUBSET Lanes :
        /\ \A l \in accepted :
             /\ request(r)[l] \in Request /\ r \in Requesters
             /\ r = Host => l = 0 /\ running = {}
             /\ r \in Cores => lane[r][l].stage = "ask" /\ request(r)[l] = lane[r][l].req
        /\ lane' = [c \in Cores |-> [l \in Lanes |-> lane_tick(c, l, c = r /\ l \in accepted)]]
        /\ OwnerTick(r, {l \in accepted : request(r)[l].op = "load"})
        /\ pipe' = [l \in Lanes |-> IF l \in accepted
                      THEN [op |-> "asked", req |-> request(r)[l], from |-> r] ELSE None]
        /\ out' = ReadOut(bank_ports)
        /\ running' = running
  BY TickIs
<1>2. Host \notin Cores /\ Requesters = Cores \cup {Host} /\ NoOne \notin Requesters
  BY BusAssumption DEF NoOne, Requesters, Host, Cores
\* The answers of the next cycle.
<1>3. \A l \in Lanes : (out'[l] # None <=> Loading(l)) /\ (Loading(l) => out'[l].from = pipe[l].from)
  BY <1>1, ReadOutIs
\* What is at the banks in the next cycle.
<1>4. \A l \in Lanes :
        /\ pipe'[l] # None <=> l \in accepted
        /\ l \in accepted => pipe'[l].req = request(r)[l] /\ pipe'[l].from = r
  BY <1>1 DEF None
\* A lane asks, is accepted, or is answered.
<1>5. ASSUME NEW c \in Cores, NEW l \in Lanes
      PROVE  /\ c = r /\ l \in accepted =>
                  lane'[c][l] = IF lane[c][l].req.op = "store" THEN Idle ELSE Sent(lane[c][l].req)
             /\ ~(c = r /\ l \in accepted) =>
                  lane'[c][l] = IF lane[c][l].stage = "sent" /\ AnswerTo(c) /\ out[l] # None
                                THEN Told(out[l].value) ELSE lane[c][l]
  <2>1. lane'[c][l] = lane_tick(c, l, c = r /\ l \in accepted)
    BY <1>1
  <2>2. CASE c = r /\ l \in accepted
    <3>1. lane[c][l].stage = "ask"
      BY <1>1, <2>2
    <3> QED BY <2>1, <2>2, <3>1 DEF lane_tick
  <2>3. CASE ~(c = r /\ l \in accepted)
    BY <2>1, <2>3 DEF lane_tick
  <2> QED BY <2>2, <2>3
<1>6. ASSUME NEW c \in Cores, NEW l \in Lanes
      PROVE  /\ Waits(c, l)' => Waits(c, l)
             /\ lane'[c][l].stage = "sent" =>
                  \/ lane'[c][l] = lane[c][l] /\ ~(AnswerTo(c) /\ out[l] # None)
                  \/ /\ c = r /\ l \in accepted /\ lane[c][l].req.op # "store"
                     /\ lane'[c][l].req = lane[c][l].req
             /\ lane'[c][l].stage = "ask" => lane'[c][l] = lane[c][l]
  <2>1. c = r /\ l \in accepted => lane[c][l].stage = "ask"
    BY <1>1
  <2>2. CASE c = r /\ l \in accepted
    BY <1>5, <2>1, <2>2, Stages DEF Waits
  <2>3. CASE ~(c = r /\ l \in accepted)
    BY <1>5, <2>3, Stages DEF Waits
  <2> QED BY <2>2, <2>3
\* Nobody waits when the host is served.
<1>7. r = Host /\ accepted # {} => \A c \in Cores : \A l \in Lanes : ~Waits(c, l)
  BY <1>1 DEF OwnInv, HostAway
<1>8. r \in Cores /\ accepted # {} => Drained(Host)
  BY <1>1 DEF OwnInv, HostAway, Waits
\* An accepted load is the host's or L's.
<1>9. ASSUME NEW l \in accepted, request(r)[l].op = "load"
      PROVE  r = L \/ (r = Host /\ l = 0)
  <2>1. r \in Cores /\ r # L => request(r)[l].op = "store"
    BY <1>1 DEF OwnInv, OneWaits
  <2> QED BY <1>1, <1>2, <1>9, <2>1
<1>10. ASSUME NEW l \in accepted, request(r)[l].op = "load"
       PROVE  NextOwner(r)
  <2> DEFINE reads == {k \in accepted : request(r)[k].op = "load"}
  <2>1. reads # {}
    BY <1>10
  <2> HIDE DEF reads
  <2>2. respOwner' = (r \in Cores) /\ (r \in Cores => respCore' = r)
    BY <1>1, <2>1 DEF OwnerTick, reads
  <2> QED BY <1>1, <1>2, <1>9, <2>2 DEF NextOwner
<1>11. ASSUME \A l \in accepted : request(r)[l].op # "load"
       PROVE  respOwner' = respOwner /\ respCore' = respCore
  BY <1>1, <1>11 DEF OwnerTick
\* What is at the banks keeps its owner.
<1>12. ASSUME NEW l \in Lanes, Loading(l)
       PROVE  NextOwner(pipe[l].from)
  <2>1. Owner(pipe[l].from)
    BY <1>12 DEF OwnInv, LoadsOwned
  <2>2. CASE \A k \in accepted : request(r)[k].op # "load"
    BY <1>11, <2>1, <2>2 DEF Owner, AnswerTo, NextOwner
  <2>3. CASE \E k \in accepted : request(r)[k].op = "load"
    <3>1. PICK k \in accepted : request(r)[k].op = "load"
      BY <2>3
    <3>2. NextOwner(r)
      BY <1>10, <3>1
    <3>3. pipe[l].from = r
      <4>1. CASE r = L
        <5>1. pipe[l].from # Host
          BY <1>8, <1>12, <3>1, <4>1 DEF Drained, Loading
        <5> QED BY <1>12, <4>1, <5>1 DEF OwnInv, LoadsOwned
      <4>2. CASE r = Host
        <5>1. ~Waits(L, l)
          BY <1>7, <3>1, <4>2
        <5> QED BY <1>12, <4>2, <5>1 DEF OwnInv, LoadsOwned, Waits
      <4> QED BY <1>9, <3>1, <4>1, <4>2
    <3> QED BY <3>2, <3>3
  <2> QED BY <2>2, <2>3
\* A lane whose load is at the banks goes on waiting.
<1>13. ASSUME NEW l \in Lanes, Loading(l), pipe[l].from # Host
       PROVE  /\ pipe[l].from = L /\ ~(L = r /\ l \in accepted)
              /\ lane'[L][l] = lane[L][l] /\ lane[L][l].stage = "sent"
  <2>1. pipe[l].from = L /\ out[l] = None /\ lane[L][l].stage = "sent"
    BY <1>13 DEF OwnInv, LoadsOwned
  <2>2. ~(L = r /\ l \in accepted)
    BY <1>1, <2>1
  <2> QED BY <1>5, <2>1, <2>2
<1>14. HostAway'
  <2> SUFFICES ASSUME NEW c \in Cores, NEW l \in Lanes, Waits(c, l)'
               PROVE  c \in running' /\ Drained(Host)'
    BY DEF HostAway
  <2>1. Waits(c, l) /\ c \in running /\ Drained(Host)
    BY <1>6 DEF OwnInv, HostAway
  <2>2. \A k \in Lanes : pipe'[k] # None => pipe'[k].from # Host
    BY <1>4, <1>7, <2>1
  <2>3. \A k \in Lanes : out'[k] # None => out'[k].from # Host
    BY <1>3, <2>1 DEF Drained, Loading
  <2> QED BY <1>1, <2>1, <2>2, <2>3 DEF Drained
<1>15. OneWaits(L)'
  <2> SUFFICES ASSUME NEW c \in Cores, NEW l \in Lanes
               PROVE  /\ lane'[c][l].stage = "sent" => c = L /\ lane'[c][l].req.op = "load"
                      /\ lane'[c][l].stage = "ask" /\ c # L => lane'[c][l].req.op = "store"
    BY DEF OneWaits
  <2>1. c = r /\ l \in accepted => lane[c][l].stage = "ask" /\ lane[c][l].req \in Request
    BY <1>1
  <2>2. lane[c][l].req \in Request /\ lane[c][l].req.op # "store" => lane[c][l].req.op = "load"
    BY RequestFields
  <2> QED BY <1>6, <2>1, <2>2 DEF OwnInv, OneWaits
<1>16. LoadsOwned(L)'
  <2> SUFFICES ASSUME NEW l \in Lanes, Loading(l)'
               PROVE  /\ Owner(pipe[l].from)'
                      /\ pipe'[l].from = Host => l = 0
                      /\ pipe'[l].from # Host =>
                           /\ pipe'[l].from = L /\ out'[l] = None
                           /\ lane'[L][l].stage = "sent" /\ lane'[L][l].req = pipe'[l].req
    BY DEF LoadsOwned
  <2>1. l \in accepted /\ pipe'[l].req = request(r)[l] /\ pipe'[l].from = r
        /\ request(r)[l].op = "load"
    BY <1>4 DEF Loading
  <2>2. Owner(pipe[l].from)'
    BY <1>10, <2>1 DEF Owner, AnswerTo, NextOwner
  <2>3. r # Host => r = L
    BY <1>9, <2>1
  <2>4. CASE r = L
    <3>1. lane[L][l].stage = "ask" /\ request(r)[l] = lane[L][l].req
      BY <1>1, <2>1, <2>4
    <3>2. lane'[L][l] = Sent(lane[L][l].req)
      BY <1>5, <2>1, <2>4, <3>1
    <3>3. ~Loading(l)
      <4>1. Drained(Host)
        BY <1>8, <2>1, <2>4
      <4>2. Loading(l) => pipe[l].from # Host
        BY <4>1 DEF Drained, Loading
      <4> QED BY <1>13, <2>1, <2>4, <4>2
    <3>4. out'[l] = None
      BY <1>3, <3>3
    <3> QED BY <1>2, <2>1, <2>2, <2>4, <3>1, <3>2, <3>4, Stages
  <2>5. CASE r = Host
    BY <1>9, <1>2, <2>1, <2>2, <2>5
  <2> QED BY <2>3, <2>4, <2>5
<1>17. AnswersOwned(L)'
  <2> SUFFICES ASSUME NEW l \in Lanes, out'[l] # None
               PROVE  /\ Owner(out[l].from)'
                      /\ out'[l].from = Host => l = 0
                      /\ out'[l].from # Host => out'[l].from = L /\ lane'[L][l].stage = "sent"
    BY DEF AnswersOwned
  <2>1. Loading(l) /\ out'[l].from = pipe[l].from
    BY <1>3
  <2>2. Owner(out[l].from)'
    BY <1>12, <2>1 DEF Owner, AnswerTo, NextOwner
  <2>3. pipe[l].from = Host => l = 0
    BY <2>1 DEF OwnInv, LoadsOwned
  <2>4. pipe[l].from # Host => pipe[l].from = L /\ lane'[L][l].stage = "sent"
    BY <1>13, <2>1
  <2> QED BY <2>1, <2>2, <2>3, <2>4
<1>18. AllUnderway(L)'
  <2> SUFFICES ASSUME NEW l \in Lanes, lane'[L][l].stage = "sent"
               PROVE  \/ pipe'[l] # None /\ pipe'[l].from = L /\ pipe'[l].req = lane'[L][l].req
                      \/ out'[l] # None /\ out'[l].from = L
    BY DEF AllUnderway
  <2>1. CASE L = r /\ l \in accepted /\ lane'[L][l].req = lane[L][l].req
    BY <1>1, <1>4, <2>1
  <2>2. CASE lane'[L][l] = lane[L][l] /\ ~(AnswerTo(L) /\ out[l] # None)
    <3>1. ~(out[l] # None /\ out[l].from = L)
      BY <1>2, <2>2 DEF OwnInv, AnswersOwned, Owner
    <3>2. pipe[l] # None /\ pipe[l].from = L /\ pipe[l].req = lane[L][l].req
      BY <2>2, <3>1 DEF OwnInv, AllUnderway
    <3>3. Loading(l)
      BY <2>2, <3>2 DEF OwnInv, OneWaits, Loading
    <3> QED BY <1>3, <3>2, <3>3
  <2> QED BY <1>6, <2>1, <2>2
<1> QED BY <1>14, <1>15, <1>16, <1>17, <1>18 DEF OwnInv

\* An instruction of a core finds nothing of the core or the host under way.
LEMMA IssueKeepsOwners ==
  ASSUME NEW L \in Cores, OneLoads(L), BusOK, OwnInv(L), NEW c \in Cores, Issue(c)
  PROVE  OwnInv(L)'
<1>1. PICK i \in Programs[c] :
        lane' = [lane EXCEPT ![c] = [l \in Lanes |-> IF l \in DOMAIN i THEN Ask(i[l]) ELSE Idle]]
  BY DEF Issue
<1>2. /\ c \in running /\ Drained(c) /\ Drained(Host) /\ running' = running
      /\ pipe' = pipe /\ out' = out /\ respCore' = respCore /\ respOwner' = respOwner
  BY DEF Issue, arbiter, banks
<1>3. /\ \A d \in Cores \ {c} : lane'[d] = lane[d]
      /\ \A l \in Lanes : lane'[c][l].stage # "sent"
      /\ \A l \in Lanes : lane'[c][l].stage = "ask" => l \in DOMAIN i /\ lane'[c][l].req = i[l]
  BY <1>1, Stages DEF BusOK, LanesOK
<1>4. Drained(Host)'
  BY <1>2 DEF Drained
<1>5. HostAway'
  BY <1>2, <1>3, <1>4 DEF OwnInv, HostAway, Waits
<1>6. OneWaits(L)'
  BY <1>3 DEF OwnInv, OneWaits, OneLoads
<1>7. LoadsOwned(L)'
  <2> SUFFICES ASSUME NEW l \in Lanes, Loading(l)'
               PROVE  /\ Owner(pipe[l].from)'
                      /\ pipe'[l].from = Host => l = 0
                      /\ pipe'[l].from # Host =>
                           /\ pipe'[l].from = L /\ out'[l] = None
                           /\ lane'[L][l].stage = "sent" /\ lane'[L][l].req = pipe'[l].req
    BY DEF LoadsOwned
  <2>1. Loading(l) /\ pipe[l].from # c /\ pipe[l].from # Host
    BY <1>2 DEF Loading, Drained
  <2>2. pipe[l].from = L /\ lane'[L] = lane[L]
    BY <1>3, <2>1 DEF OwnInv, LoadsOwned
  <2> QED BY <1>2, <2>1, <2>2 DEF OwnInv, LoadsOwned, Owner, AnswerTo
<1>8. AnswersOwned(L)'
  <2> SUFFICES ASSUME NEW l \in Lanes, out'[l] # None
               PROVE  /\ Owner(out[l].from)'
                      /\ out'[l].from = Host => l = 0
                      /\ out'[l].from # Host => out'[l].from = L /\ lane'[L][l].stage = "sent"
    BY DEF AnswersOwned
  <2>1. out[l] # None /\ out[l].from # c /\ out[l].from # Host
    BY <1>2 DEF Drained
  <2>2. out[l].from = L /\ lane'[L] = lane[L]
    BY <1>3, <2>1 DEF OwnInv, AnswersOwned
  <2> QED BY <1>2, <2>1, <2>2 DEF OwnInv, AnswersOwned, Owner, AnswerTo
<1>9. AllUnderway(L)'
  BY <1>2, <1>3 DEF OwnInv, AllUnderway
<1> QED BY <1>5, <1>6, <1>7, <1>8, <1>9 DEF OwnInv

\* Steps that leave lanes, registers and banks alone keep the owners.
LEMMA OwnersStay ==
  ASSUME NEW L \in Cores, OwnInv(L), UNCHANGED <<lane, arbiter, banks>>,
         \A c \in Cores : \A l \in Lanes : Waits(c, l) => c \in running'
  PROVE  OwnInv(L)'
<1>1. /\ lane' = lane /\ pipe' = pipe /\ out' = out
      /\ respCore' = respCore /\ respOwner' = respOwner
  BY DEF arbiter, banks
<1>2. HostAway'
  BY <1>1 DEF OwnInv, HostAway, Waits, Drained
<1>3. OneWaits(L)'
  BY <1>1 DEF OwnInv, OneWaits
<1>4. LoadsOwned(L)'
  BY <1>1 DEF OwnInv, LoadsOwned, Loading, Owner, AnswerTo
<1>5. AnswersOwned(L)'
  BY <1>1 DEF OwnInv, AnswersOwned, Owner, AnswerTo
<1>6. AllUnderway(L)'
  BY <1>1 DEF OwnInv, AllUnderway
<1> QED BY <1>2, <1>3, <1>4, <1>5, <1>6 DEF OwnInv

\* What L waits for, the registers and the banks agree on.
LEMMA OwnersHold ==
  ASSUME NEW L \in Cores, OneLoads(L)
  PROVE  Spec => []OwnInv(L)
<1>1. Init => OwnInv(L)
  <2> SUFFICES ASSUME Init PROVE OwnInv(L)
    OBVIOUS
  <2>1. \A c \in Cores : \A l \in Lanes : lane[c][l].stage = "idle"
    BY Stages DEF Init
  <2>2. \A l \in Lanes : pipe[l] = None /\ out[l] = None
    BY DEF Init
  <2> QED BY <2>1, <2>2
        DEF OwnInv, HostAway, OneWaits, LoadsOwned, AnswersOwned, AllUnderway, Loading, Waits
<1>2. BusOK /\ OwnInv(L) /\ [Next]_vars => OwnInv(L)'
  <2> SUFFICES ASSUME BusOK, OwnInv(L), [Next]_vars PROVE OwnInv(L)'
    OBVIOUS
  <2>1. \A c \in Cores : \A l \in Lanes : Waits(c, l) => c \in running
    BY DEF OwnInv, HostAway
  <2>2. CASE Tick
    BY <2>2, TickKeepsOwners
  <2>3. CASE Launch
    BY <2>3, OwnersStay DEF Launch
  <2>4. CASE HostRead
    BY <2>1, <2>4, OwnersStay DEF HostRead, cores
  <2>5. CASE HostSent
    BY <2>1, <2>5, OwnersStay DEF HostSent, cores
  <2>6. CASE HostWrite
    BY <2>1, <2>6, OwnersStay DEF HostWrite, cores
  <2>7. ASSUME NEW c \in Cores, Issue(c) PROVE OwnInv(L)'
    BY <2>7, IssueKeepsOwners
  <2>8. ASSUME NEW c \in Cores, Stop(c) PROVE OwnInv(L)'
    <3>1. \A l \in Lanes : ~Waits(c, l)
      BY <2>8 DEF Stop, Settled, Waits
    <3>2. UNCHANGED <<lane, arbiter, banks>> /\ running' = running \ {c}
      BY <2>8 DEF Stop
    <3> QED BY <2>1, <3>1, <3>2, OwnersStay
  <2>9. CASE UNCHANGED vars
    BY <2>1, <2>9, OwnersStay DEF vars, cores
  <2> QED BY <2>2, <2>3, <2>4, <2>5, <2>6, <2>7, <2>8, <2>9 DEF Next
<1> QED BY <1>1, <1>2, BusTypeCorrect, PTL DEF Spec

\* With one core that loads, every answer of the memory goes to the lane that
\* waits for it or to the host, and none is lost, for any number of cores,
\* lanes, banks and ports: what resp_core_q and resp_owner_core_q leave out
\* does no harm as long as a second core only stores.
THEOREM OneLoaderIsAnswered ==
  ASSUME NEW L \in Cores, OneLoads(L)
  PROVE  Spec => []AnswersGoHome
<1>1. OwnInv(L) => AnswersGoHome
  BY DEF OwnInv, OneWaits, AnswersOwned, AllUnderway, AnswersGoHome
<1> QED BY <1>1, OwnersHold, PTL
-----------------------------------------------------------------------------
(***************************************************************************)
(* The memory that is promised (SharedMemory).                             *)
(***************************************************************************)
\* The memory with the stores that are at the banks, and what every lane of
\* every requester has asked and been told: the two variables of SharedMemory.
Held == Written(bank_ports)
CoreStatus(c, l) == Abstract(lane[c][l], Underway(c, l))
View == [r \in Requesters |-> [l \in Lanes |->
           IF r \in Cores THEN CoreStatus(r, l) ELSE IF l = 0 THEN HostStatus ELSE Idle]]
SentValue(value) == [stage |-> "sent", value |-> value]

LEMMA SentValueIs ==
  ASSUME NEW x PROVE SentValue(x).stage = "sent" /\ SentValue(x).value = x
  BY DEF SentValue

\* A requester asks, in the terms of View and Held.
LEMMA RequestStep ==
  ASSUME NEW r \in Requesters, Held' = Held,
         \A l \in Lanes : View[r][l].stage \in {"idle", "told"},
         \A l \in Lanes : View'[r][l].stage \in {"idle", "ask"},
         \A q \in Requesters \ {r} : View'[q] = View[q]
  PROVE  Promised!Next
<1>1. Promised!Request(r)
  BY DEF Promised!Request, Promised!Settled, View, CoreStatus, Held
<1> QED BY <1>1 DEF Promised!Next

\* What the lanes have asked and been told when lanes S of r are performed
\* and lanes T of q are told.
ViewAfter(r, S, q, T) ==
  [p \in Requesters |-> [l \in Lanes |->
     IF p = r /\ l \in S
     THEN IF View[p][l].req.op = "load" THEN SentValue(Held[View[p][l].req.addr]) ELSE Idle
     ELSE IF p = q /\ l \in T THEN Told(View[p][l].value) ELSE View[p][l]]]

\* A requester is served, in the terms of View and Held.
LEMMA ServeStep ==
  ASSUME NEW r \in Requesters, NEW q \in Requesters,
         NEW S \in SUBSET Lanes, NEW T \in SUBSET Lanes,
         \A l \in S : View[r][l].stage = "ask",
         \A l \in T : View[q][l].stage = "sent",
         \A l \in S, low \in Lanes :
           /\ View[r][low].stage = "ask" /\ low < l
           /\ View[r][l].req.op = "store" /\ View[r][low].req.op = "store"
           /\ View[r][l].req.addr = View[r][low].req.addr
           => low \in S,
         View' = ViewAfter(r, S, q, T),
         Held' = Promised!Stored(r, S, Held)
  PROVE  Promised!Next
<1>1. Promised!In(r, "ask") = {l \in Lanes : View[r][l].stage = "ask"}
  BY DEF Promised!In, View, CoreStatus
<1>2. Promised!In(q, "sent") = {l \in Lanes : View[q][l].stage = "sent"}
  BY DEF Promised!In, View, CoreStatus
<1>3. Promised!InOrder(r, S)
  BY <1>1 DEF Promised!InOrder, View, CoreStatus
<1>4. Promised!Serve(r, S, q, T)
  BY <1>3 DEF Promised!Serve, Promised!Performed, Promised!Idle, Promised!Sent, Promised!Told,
              ViewAfter, View, CoreStatus, Held, Idle, Told, SentValue
<1>5. S \in SUBSET Promised!In(r, "ask") /\ T \in SUBSET Promised!In(q, "sent")
  BY <1>1, <1>2
<1> QED BY <1>4, <1>5 DEF Promised!Next

\* Lane l stores byte b of word a in this cycle.
Puts(l, a, b) ==
  /\ pipe[l] # None /\ pipe[l].req.op = "store"
  /\ pipe[l].req.addr = a /\ b \in DOMAIN pipe[l].req.data

\* Of the lanes that put a byte the highest's stays, and a byte that no lane
\* puts stays what it was.
HeldOK ==
  /\ Held \in [Addresses -> Word]
  /\ \A a \in Addresses : \A b \in Bytes :
       /\ (\A l \in Lanes : ~Puts(l, a, b)) => Held[a][b] = mem[a][b]
       /\ \A l \in Lanes :
            Puts(l, a, b) /\ (\A k \in Lanes : Puts(k, a, b) => k <= l)
              => Held[a][b] = pipe[l].req.data[b]

MemOK == mem \in [Addresses -> Word]

\* Ports and banks write what the lanes in the pipe store (memory_bank.v).
LEMMA HeldIs == PipeOK /\ MemOK => HeldOK
<1> SUFFICES ASSUME PipeOK, MemOK PROVE HeldOK
  OBVIOUS
<1>0. Lanes = 0..(WarpSize - 1) /\ WarpSize \in Nat
  BY BusAssumption DEF Lanes
<1>1. ASSUME NEW a \in Addresses
      PROVE  /\ Held[a] \in Word
             /\ \A b \in Bytes :
                  /\ (\A l \in Lanes : ~Puts(l, a, b)) => Held[a][b] = mem[a][b]
                  /\ \A l \in Lanes :
                       Puts(l, a, b) /\ (\A k \in Lanes : Puts(k, a, b) => k <= l)
                         => Held[a][b] = pipe[l].req.data[b]
  <2> DEFINE ports == bank_ports[Bank(a)]
             writers == {p \in DOMAIN ports : /\ ports[p].req.op = "store"
                                              /\ ports[p].req.addr = a}
             p0 == CHOOSE p \in writers : TRUE
  <2>1. Serves(ports, WarpSize, Bank(a))
    BY BankExists, AllLanesServed DEF PortForEach
  <2>2. Held[a] = IF writers = {} THEN mem[a]
                  ELSE [b \in Bytes |-> IF b \in DOMAIN ports[p0].req.data
                                        THEN ports[p0].req.data[b] ELSE mem[a][b]]
    BY DEF Held, Written
  <2> HIDE DEF ports
  <2>3. CASE writers = {}
    <3>1. ASSUME NEW l \in Lanes, NEW b, Puts(l, a, b) PROVE FALSE
      <4>1. HasPort(l, ports)
        BY <1>0, <2>1, <3>1 DEF Serves, Wants, Puts
      <4> QED BY <2>3, <3>1, <4>1 DEF HasPort, Puts
    <3> QED BY <2>2, <2>3, <3>1 DEF MemOK
  <2>4. CASE writers # {}
    <3>1. p0 \in writers
      BY <2>4
    <3> HIDE DEF p0
    <3>2. /\ p0 \in DOMAIN ports
          /\ ports[p0].req.op = "store" /\ ports[p0].req.addr = a
          /\ ports[p0].req.data \in Data
      <4>1. ports[p0] \in PortSet
        BY <2>1, <3>1 DEF Serves
      <4> QED BY <3>1, <4>1 DEF PortSet, Req
    <3> DEFINE data == ports[p0].req.data
    <3>3. Held[a] = [b \in Bytes |-> IF b \in DOMAIN data THEN data[b] ELSE mem[a][b]]
      BY <2>2, <2>4
    <3>4. PICK mask \in SUBSET Bytes : data \in [mask -> Value]
      BY <3>2 DEF Data
    <3>5. Held[a] \in Word
      BY <3>3, <3>4 DEF MemOK, Word
    <3>6. \A l \in Lanes : \A b :
            Puts(l, a, b) <=> StoresTo(l, ports[p0]) /\ b \in DOMAIN pipe[l].req.data
      BY <3>2 DEF Puts, StoresTo, Wants
    <3>7. ASSUME NEW b \in Bytes, \A l \in Lanes : ~Puts(l, a, b)
          PROVE  Held[a][b] = mem[a][b]
      <4>1. b \notin DOMAIN data
        BY <1>0, <2>1, <3>2, <3>6, <3>7 DEF Serves, BytesOwned
      <4> QED BY <3>3, <4>1
    <3>8. ASSUME NEW b \in Bytes, NEW l \in Lanes, Puts(l, a, b),
                 \A k \in Lanes : Puts(k, a, b) => k <= l
          PROVE  Held[a][b] = pipe[l].req.data[b]
      <4>1. StoresTo(l, ports[p0]) /\ b \in DOMAIN pipe[l].req.data
        BY <3>6, <3>8
      <4>2. \A k \in (l + 1)..(WarpSize - 1) : k \in Lanes /\ ~(k <= l)
        BY <1>0
      <4>3. \A k \in (l + 1)..(WarpSize - 1) :
              StoresTo(k, ports[p0]) => b \notin DOMAIN pipe[k].req.data
        BY <3>6, <3>8, <4>2
      <4>4. b \in DOMAIN data /\ data[b] = pipe[l].req.data[b]
        BY <1>0, <2>1, <3>2, <4>1, <4>3 DEF Serves, LastByteWins
      <4> QED BY <3>3, <4>4
    <3> QED BY <3>5, <3>7, <3>8
  <2> QED BY <2>3, <2>4
<1>2. Held \in [Addresses -> Word]
  <2>1. Held = [a \in Addresses |-> Held[a]]
    BY DEF Held, Written
  <2> QED BY <1>1, <2>1
<1> QED BY <1>1, <1>2 DEF HeldOK

\* Of the lanes for which something holds one is the highest.
LEMMA HighestLane ==
  ASSUME NEW W \in SUBSET Lanes, W # {}
  PROVE  \E l \in W : \A k \in W : k <= l
<1> DEFINE Down == {WarpSize - l : l \in W}
<1>1. Lanes = 0..(WarpSize - 1) /\ WarpSize \in Nat
  BY BusAssumption DEF Lanes
<1>2. Down \in SUBSET Nat /\ Down # {}
  BY <1>1
<1>3. PICK d \in Down : \A e \in Down : d <= e
  <2> HIDE DEF Down
  <2> QED BY <1>2, LeastNumber
<1>4. PICK l \in W : d = WarpSize - l
  BY <1>3
<1>5. ASSUME NEW k \in W PROVE k <= l
  <2>1. WarpSize - k \in Down
    OBVIOUS
  <2>2. d <= WarpSize - k
    BY <1>3, <2>1
  <2> QED BY <1>1, <1>4, <2>2
<1> QED BY <1>5

\* Lane l of S stores byte b of word a, in the terms of View.
Saves(r, S, l, a, b) ==
  /\ l \in S /\ View[r][l].req.op = "store"
  /\ View[r][l].req.addr = a /\ b \in DOMAIN View[r][l].req.data

\* What SharedMemory stores, byte by byte.
LEMMA StoredIs ==
  ASSUME NEW r \in Requesters, NEW S \in SUBSET Lanes, NEW held \in [Addresses -> Word]
  PROVE  /\ Promised!Stored(r, S, held) =
              [a \in Addresses |-> [b \in Bytes |-> Promised!Stored(r, S, held)[a][b]]]
         /\ \A a \in Addresses : \A b \in Bytes :
              /\ (\A l \in Lanes : ~Saves(r, S, l, a, b)) =>
                   Promised!Stored(r, S, held)[a][b] = held[a][b]
              /\ \A l \in Lanes :
                   Saves(r, S, l, a, b) /\ (\A k \in Lanes : Saves(r, S, k, a, b) => k <= l)
                     => Promised!Stored(r, S, held)[a][b] = View[r][l].req.data[b]
<1> DEFINE W(a, b) == {l \in S : /\ View[r][l].req.op = "store"
                                 /\ View[r][l].req.addr = a
                                 /\ b \in DOMAIN View[r][l].req.data}
           Top(a, b) == CHOOSE l \in W(a, b) : \A m \in W(a, b) : m <= l
           Now(a, b) == IF W(a, b) = {} THEN held[a][b] ELSE View[r][Top(a, b)].req.data[b]
<1>1. Promised!Stored(r, S, held) = [a \in Addresses |-> [b \in Bytes |-> Now(a, b)]]
  <2>1. DOMAIN held = Addresses /\ \A a \in Addresses : DOMAIN held[a] = Bytes
    BY DEF Word
  <2> QED BY <2>1 DEF Promised!Stored, View, CoreStatus
<1>2. ASSUME NEW a \in Addresses, NEW b \in Bytes, \A l \in Lanes : ~Saves(r, S, l, a, b)
      PROVE  Now(a, b) = held[a][b]
  BY <1>2 DEF Saves
<1>3. ASSUME NEW a \in Addresses, NEW b \in Bytes, NEW l \in Lanes, Saves(r, S, l, a, b),
             \A k \in Lanes : Saves(r, S, k, a, b) => k <= l
      PROVE  Now(a, b) = View[r][l].req.data[b]
  <2>1. l \in W(a, b) /\ \A k \in W(a, b) : k <= l
    BY <1>3 DEF Saves
  <2>2. Top(a, b) \in W(a, b) /\ \A k \in W(a, b) : k <= Top(a, b)
    BY <2>1
  <2> HIDE DEF Top
  <2>3. Top(a, b) = l
    <3>1. Top(a, b) <= l /\ l <= Top(a, b)
      BY <2>1, <2>2
    <3>2. Top(a, b) \in Lanes
      BY <2>2
    <3>3. Top(a, b) \in Int /\ l \in Int
      BY <3>2, BusAssumption DEF Lanes
    <3> QED BY <3>1, <3>3
  <2> QED BY <2>1, <2>3
<1> HIDE DEF Now
<1> QED BY <1>1, <1>2, <1>3

-----------------------------------------------------------------------------
\* What is at the banks, and what the ports put out, for the host.
FromHost(l) == pipe[l] # None /\ pipe[l].from = Host
ToHost(l)   == out[l] # None /\ out[l].from = Host

\* The read engine and the host's register: a store is there only while the
\* engine is idle and no kernel runs, a load only while the engine wants it.
HostHeld ==
  /\ engine \in {"idle", "start", "wait", "send"}
  /\ engine = "idle" =>
       hostReq = None \/ (hostReq \in Request /\ hostReq.op = "store" /\ running = {})
  /\ engine \in {"start", "wait"} =>
       wanted \in Request /\ wanted.op = "load" /\ hostReq \in {None, wanted}
  /\ engine = "start" => Drained(Host)
  /\ engine = "send" => hostReq = None

\* An engine that waits has its read under way; of the two reads it makes the
\* later one finds what the earlier one found.
HostWaits ==
  /\ \A l \in Lanes : FromHost(l) => l = 0
  /\ engine = "wait" => FromHost(0) \/ ToHost(0)
  /\ engine = "wait" /\ FromHost(0) =>
       /\ pipe[0].req = wanted
       /\ ToHost(0) => out[0].value = mem[wanted.addr]

\* A lane of L that waits has nothing else at the banks than its load.
SentAtBank(L) == \A l \in Lanes :
  lane[L][l].stage = "sent" /\ pipe[l] # None /\ pipe[l].from = L => pipe[l].req = lane[L][l].req

MapInv(L) == MemOK /\ HostHeld /\ HostWaits /\ SentAtBank(L)

\* All that is in the pipe is one requester's.
LEMMA OneFrom ==
  ASSUME PipeOK, NEW k \in Lanes, NEW l \in Lanes, pipe[k] # None, pipe[l] # None
  PROVE  pipe[k].from = pipe[l].from
  BY DEF PipeOK

\* The host is served when its request passes the gate, and is taken at once.
LEMMA HostServed ==
  ASSUME BusOK
  PROVE  /\ served = Host <=> host_active
         /\ host_active => Accepted(request(Host)) = {0} /\ request(Host)[0] = hostReq
<1>1. NoOne \notin Requesters /\ Host \notin Cores /\ NoOne # Host
  BY BusAssumption DEF NoOne, Requesters, Host, Cores
<1>2. arb_valid => arb_core # Host
  BY <1>1, ArbiterChooses DEF BusOK
<1>3. served = Host <=> host_active
  BY <1>1, <1>2 DEF served
<1>4. ASSUME host_active PROVE Accepted(request(Host)) = {0} /\ request(Host)[0] = hostReq
  <2>1. 0 \in Lanes
    BY BusAssumption DEF Lanes
  <2>2. request(Host) = [l \in Lanes |-> IF l = 0 THEN hostReq ELSE None]
    BY <1>1 DEF request
  <2>3. hostReq # None
    BY <1>4 DEF host_active
  <2>4. same_prior_count(request(Host), 0) = 0
    <3>1. {low \in 0..(0 - 1) : prior_uses_port(request(Host)[low], request(Host)[0])} = {}
      OBVIOUS
    <3> QED BY <3>1, FS_EmptySet DEF same_prior_count
  <2> QED BY <2>1, <2>2, <2>3, <2>4, BusAssumption DEF Accepted
<1> QED BY <1>3, <1>4

\* A clock edge, register by register and lane by lane.
LEMMA TickFacts ==
  ASSUME BusOK, Tick
  PROVE  \E r \in Requesters \cup {NoOne}, accepted \in SUBSET Lanes :
           /\ r = Host <=> host_active
           /\ r = Host => accepted = {0} /\ request(r)[0] = hostReq
           /\ accepted = Accepted(request(r))
           /\ \A l \in accepted :
                /\ request(r)[l] \in Request /\ r \in Requesters
                /\ r \in Cores => lane[r][l].stage = "ask" /\ request(r)[l] = lane[r][l].req
           /\ \A c \in Cores : \A l \in Lanes :
                /\ c = r /\ l \in accepted =>
                     lane'[c][l] = IF lane[c][l].req.op = "store" THEN Idle ELSE Sent(lane[c][l].req)
                /\ ~(c = r /\ l \in accepted) =>
                     lane'[c][l] = IF lane[c][l].stage = "sent" /\ AnswerTo(c) /\ out[l] # None
                                   THEN Told(out[l].value) ELSE lane[c][l]
           /\ \A l \in Lanes :
                /\ pipe'[l] # None <=> l \in accepted
                /\ l \in accepted => pipe'[l].req = request(r)[l] /\ pipe'[l].from = r
           /\ \A l \in Lanes :
                /\ out'[l] # None <=> Loading(l)
                /\ Loading(l) => out'[l].from = pipe[l].from /\ out'[l].value = mem[pipe[l].req.addr]
           /\ mem' = Held /\ wanted' = wanted /\ running' = running /\ EngineTick
<1>1. PICK r \in Requesters \cup {NoOne}, accepted \in SUBSET Lanes :
        /\ r = served /\ accepted = Accepted(request(r))
        /\ \A l \in accepted :
             /\ request(r)[l] \in Request /\ r \in Requesters
             /\ r \in Cores => lane[r][l].stage = "ask" /\ request(r)[l] = lane[r][l].req
        /\ lane' = [c \in Cores |-> [l \in Lanes |-> lane_tick(c, l, c = r /\ l \in accepted)]]
        /\ pipe' = [l \in Lanes |-> IF l \in accepted
                      THEN [op |-> "asked", req |-> request(r)[l], from |-> r] ELSE None]
        /\ out' = ReadOut(bank_ports)
        /\ wanted' = wanted /\ running' = running
  BY TickIs
<1>2. mem' = Held /\ EngineTick
  BY DEF Tick, MemoryTick, Held
<1>3. /\ r = Host <=> host_active
      /\ r = Host => accepted = {0} /\ request(r)[0] = hostReq
  BY <1>1, HostServed
<1>4. ASSUME NEW c \in Cores, NEW l \in Lanes
      PROVE  /\ c = r /\ l \in accepted =>
                  lane'[c][l] = IF lane[c][l].req.op = "store" THEN Idle ELSE Sent(lane[c][l].req)
             /\ ~(c = r /\ l \in accepted) =>
                  lane'[c][l] = IF lane[c][l].stage = "sent" /\ AnswerTo(c) /\ out[l] # None
                                THEN Told(out[l].value) ELSE lane[c][l]
  <2>1. lane'[c][l] = lane_tick(c, l, c = r /\ l \in accepted)
    BY <1>1
  <2>2. CASE c = r /\ l \in accepted
    <3>1. lane[c][l].stage = "ask"
      BY <1>1, <2>2
    <3> QED BY <2>1, <2>2, <3>1 DEF lane_tick
  <2>3. CASE ~(c = r /\ l \in accepted)
    BY <2>1, <2>3 DEF lane_tick
  <2> QED BY <2>2, <2>3
<1>5. \A l \in Lanes :
        /\ pipe'[l] # None <=> l \in accepted
        /\ l \in accepted => pipe'[l].req = request(r)[l] /\ pipe'[l].from = r
  BY <1>1 DEF None
<1>6. \A l \in Lanes :
        /\ out'[l] # None <=> Loading(l)
        /\ Loading(l) => out'[l].from = pipe[l].from /\ out'[l].value = mem[pipe[l].req.addr]
  BY <1>1, ReadOutIs
<1> QED BY <1>1, <1>2, <1>3, <1>4, <1>5, <1>6

\* A clock edge keeps the host's side and the bank's in step.
LEMMA TickKeepsMap ==
  ASSUME NEW L \in Cores, BusOK, OwnInv(L), MapInv(L), Tick
  PROVE  MapInv(L)'
<1>1. PICK r \in Requesters \cup {NoOne}, accepted \in SUBSET Lanes :
        /\ r = Host <=> host_active
        /\ r = Host => accepted = {0} /\ request(r)[0] = hostReq
        /\ \A l \in accepted :
             /\ request(r)[l] \in Request /\ r \in Requesters
             /\ r \in Cores => lane[r][l].stage = "ask" /\ request(r)[l] = lane[r][l].req
        /\ \A c \in Cores : \A l \in Lanes :
             /\ c = r /\ l \in accepted =>
                  lane'[c][l] = IF lane[c][l].req.op = "store" THEN Idle ELSE Sent(lane[c][l].req)
             /\ ~(c = r /\ l \in accepted) =>
                  lane'[c][l] = IF lane[c][l].stage = "sent" /\ AnswerTo(c) /\ out[l] # None
                                THEN Told(out[l].value) ELSE lane[c][l]
        /\ \A l \in Lanes :
             /\ pipe'[l] # None <=> l \in accepted
             /\ l \in accepted => pipe'[l].req = request(r)[l] /\ pipe'[l].from = r
        /\ \A l \in Lanes :
             /\ out'[l] # None <=> Loading(l)
             /\ Loading(l) => out'[l].from = pipe[l].from /\ out'[l].value = mem[pipe[l].req.addr]
        /\ mem' = Held /\ wanted' = wanted /\ running' = running /\ EngineTick
  BY TickFacts
<1>2. Host \notin Cores /\ Requesters = Cores \cup {Host} /\ NoOne \notin Requesters /\ 0 \in Lanes
  BY BusAssumption DEF NoOne, Requesters, Host, Cores, Lanes
<1>3. HeldOK
  BY HeldIs DEF BusOK, MapInv
<1>4. MemOK'
  BY <1>1, <1>3 DEF MemOK, HeldOK
\* The engine moves on when its request is taken and when it is answered.
<1>5. \/ engine = "start" /\ host_active /\ engine' = "wait" /\ hostReq' = wanted
      \/ engine = "wait" /\ AnswerToHost /\ engine' = "send" /\ hostReq' = None
      \/ /\ ~(engine = "start" /\ host_active) /\ ~(engine = "wait" /\ AnswerToHost)
         /\ engine' = engine /\ hostReq' = IF engine = "start" THEN wanted ELSE None
  BY <1>1 DEF EngineTick
<1>6. engine = "start" => \A l \in Lanes : ~FromHost(l) /\ ~ToHost(l)
  BY DEF MapInv, HostHeld, Drained, FromHost, ToHost
<1>7. \A l \in Lanes : ToHost(l)' => Loading(l) /\ FromHost(l)
  BY <1>1 DEF ToHost, FromHost, Loading
<1>8. \A l \in Lanes : FromHost(l)' => r = Host /\ l = 0 /\ pipe'[l].req = hostReq
  <2> TAKE l \in Lanes
  <2> HAVE FromHost(l)'
  <2>1. l \in accepted
    BY <1>1 DEF FromHost
  <2>2. r = Host
    BY <1>1, <2>1 DEF FromHost
  <2> QED BY <1>1, <2>1, <2>2
<1>9. HostHeld'
  <2>1. engine' = "start" => Drained(Host)'
    <3> SUFFICES ASSUME engine' = "start" PROVE Drained(Host)'
      OBVIOUS
    <3>1. engine = "start" /\ ~host_active
      BY <1>5
    <3>2. \A l \in Lanes : ~FromHost(l)' /\ ~ToHost(l)'
      BY <1>1, <1>6, <1>7, <1>8, <3>1
    <3> QED BY <3>2 DEF Drained, FromHost, ToHost
  <2>2. engine \in {"idle", "start", "wait", "send"}
        /\ (engine \in {"start", "wait"} => wanted \in Request /\ wanted.op = "load")
    BY DEF MapInv, HostHeld
  <2>3. wanted' = wanted
    BY <1>1
  <2> QED BY <1>5, <2>1, <2>2, <2>3 DEF HostHeld
<1>10. HostWaits'
  <2>1. CASE engine' # "wait"
    BY <1>8, <2>1 DEF HostWaits
  <2>2. CASE engine = "start" /\ host_active /\ engine' = "wait"
    <3>1. hostReq = wanted
      BY <2>2 DEF MapInv, HostHeld, host_active
    <3>2. FromHost(0)' /\ pipe'[0].req = wanted
      BY <1>1, <1>2, <2>2, <3>1 DEF FromHost
    <3>3. ~ToHost(0)'
      BY <1>2, <1>6, <1>7, <2>2
    <3> QED BY <1>1, <1>8, <3>2, <3>3 DEF HostWaits
  <2>3. CASE engine = "wait" /\ ~AnswerToHost
    <3>1. ~ToHost(0)
      BY <1>2, <2>3 DEF OwnInv, AnswersOwned, ToHost, Owner, AnswerToHost
    <3>2. FromHost(0) /\ pipe[0].req = wanted /\ wanted \in Request /\ wanted.op = "load"
      BY <2>3, <3>1 DEF MapInv, HostWaits, HostHeld
    <3>3. ToHost(0)' /\ out'[0].value = mem[wanted.addr]
      BY <1>1, <1>2, <3>2 DEF ToHost, FromHost, Loading
    <3>4. mem'[wanted.addr] = mem[wanted.addr]
      <4>1. wanted.addr \in Addresses
        BY <3>2, RequestFields
      <4>2. \A l \in Lanes : \A b : ~Puts(l, wanted.addr, b)
        <5> SUFFICES ASSUME NEW l \in Lanes, NEW b, Puts(l, wanted.addr, b) PROVE FALSE
          OBVIOUS
        <5>1. pipe[l].from = Host
          BY <1>2, <3>2, OneFrom DEF BusOK, Puts, FromHost
        <5>2. l = 0
          BY <5>1 DEF MapInv, HostWaits, FromHost, Puts
        <5> QED BY <3>2, <5>2 DEF Puts
      <4>3. \A b \in Bytes : Held[wanted.addr][b] = mem[wanted.addr][b]
        BY <1>3, <4>1, <4>2 DEF HeldOK
      <4>4. Held[wanted.addr] \in [Bytes -> Value] /\ mem[wanted.addr] \in [Bytes -> Value]
        BY <1>3, <4>1 DEF HeldOK, MapInv, MemOK, Word
      <4> QED BY <1>1, <4>3, <4>4
    <3>5. FromHost(0)' => pipe'[0].req = wanted
      <4>1. FromHost(0)' => hostReq # None
        BY <1>1, <1>2, <1>8 DEF host_active
      <4> QED BY <1>2, <1>8, <2>3, <4>1 DEF MapInv, HostHeld
    <3>6. wanted' = wanted
      BY <1>1
    <3> QED BY <1>8, <3>3, <3>4, <3>5, <3>6 DEF HostWaits
  <2> QED BY <1>5, <2>1, <2>2, <2>3
<1>11. SentAtBank(L)'
  <2> SUFFICES ASSUME NEW l \in Lanes, lane'[L][l].stage = "sent", pipe'[l] # None, pipe'[l].from = L
               PROVE  pipe'[l].req = lane'[L][l].req
    BY DEF SentAtBank
  <2>1. l \in accepted /\ L = r
    BY <1>1
  <2>2. lane'[L][l] = Sent(lane[L][l].req)
    BY <1>1, <2>1, Stages
  <2> QED BY <1>1, <2>1, <2>2, Stages
<1> QED BY <1>4, <1>9, <1>10, <1>11 DEF MapInv

\* The other steps leave the banks alone.
LEMMA OthersKeepMap ==
  ASSUME NEW L \in Cores, BusOK, MapInv(L),
         \/ Launch \/ HostRead \/ HostSent \/ HostWrite
         \/ \E c \in Cores : Issue(c) \/ Stop(c)
         \/ UNCHANGED vars
  PROVE  MapInv(L)'
<1>1. pipe' = pipe /\ out' = out /\ mem' = mem
  BY DEF Launch, HostRead, HostSent, HostWrite, Issue, Stop, vars, banks
<1>2. (\A l \in Lanes : FromHost(l)' = FromHost(l) /\ ToHost(l)' = ToHost(l))
      /\ (FromHost(0)' = FromHost(0) /\ ToHost(0)' = ToHost(0))
      /\ Drained(Host)' = Drained(Host)
  BY <1>1 DEF FromHost, ToHost, Drained
<1>3. MemOK'
  BY <1>1 DEF MapInv, MemOK
<1>4. HostHeld' /\ (engine' = "wait" => engine = "wait" /\ wanted' = wanted)
  <2>1. CASE Launch
    <3>1. hostReq.op # "store" /\ UNCHANGED <<engine, wanted, hostReq>>
      BY <2>1 DEF Launch, host
    <3> QED BY <1>2, <3>1 DEF MapInv, HostHeld
  <2>2. CASE HostRead
    <3>1. wanted' \in Request /\ wanted'.op = "load"
      BY <2>2, BusAssumption DEF HostRead
    <3> QED BY <1>2, <2>2, <3>1 DEF HostRead, HostHeld
  <2>3. CASE HostSent
    BY <1>2, <2>3 DEF HostSent, HostHeld
  <2>4. CASE HostWrite
    <3>1. hostReq' \in Request /\ hostReq'.op = "store"
      BY <2>4, BusAssumption DEF HostWrite
    <3>2. running' = {} /\ engine' = "idle"
      BY <2>4 DEF HostWrite, cores, busy
    <3> QED BY <3>1, <3>2 DEF HostHeld
  <2>5. ASSUME NEW c \in Cores, Issue(c) \/ Stop(c)
        PROVE  HostHeld' /\ (engine' = "wait" => engine = "wait" /\ wanted' = wanted)
    <3>1. UNCHANGED <<engine, wanted, hostReq>> /\ (running = {} => running' = {})
      BY <2>5 DEF Issue, Stop, host
    <3> QED BY <1>2, <3>1 DEF MapInv, HostHeld
  <2>6. CASE UNCHANGED vars
    BY <1>2, <2>6 DEF vars, cores, host, MapInv, HostHeld
  <2> QED BY <2>1, <2>2, <2>3, <2>4, <2>5, <2>6
<1>5. HostWaits'
  BY <1>1, <1>2, <1>4 DEF MapInv, HostWaits
<1>6. SentAtBank(L)'
  <2>1. CASE lane'[L] = lane[L]
    BY <1>1, <2>1 DEF MapInv, SentAtBank
  <2>2. ASSUME NEW c \in Cores, Issue(c), lane'[L] # lane[L] PROVE SentAtBank(L)'
    <3>1. PICK i \in Programs[c] :
            lane' = [lane EXCEPT ![c] = [l \in Lanes |-> IF l \in DOMAIN i THEN Ask(i[l]) ELSE Idle]]
      BY <2>2 DEF Issue
    <3>2. \A l \in Lanes : lane'[L][l].stage # "sent"
      BY <2>2, <3>1, Stages DEF BusOK, LanesOK
    <3> QED BY <3>2 DEF SentAtBank
  <2>3. (\E c \in Cores : Issue(c)) \/ lane' = lane
    BY DEF Launch, HostRead, HostSent, HostWrite, Stop, vars, cores
  <2> QED BY <2>1, <2>2, <2>3
<1> QED BY <1>3, <1>4, <1>5, <1>6 DEF MapInv

\* With one core that loads the two sides stay in step.
LEMMA MapInvHolds ==
  ASSUME NEW L \in Cores, OneLoads(L)
  PROVE  Spec => [](BusOK /\ OwnInv(L) /\ MapInv(L))
<1>1. Init => MapInv(L)
  <2> SUFFICES ASSUME Init PROVE MapInv(L)
    OBVIOUS
  <2>1. MemOK
    BY BusAssumption DEF Init, MemOK, Word
  <2>2. HostHeld
    BY DEF Init, HostHeld
  <2>3. HostWaits
    BY DEF Init, HostWaits, FromHost
  <2>4. SentAtBank(L)
    BY Stages DEF Init, SentAtBank
  <2> QED BY <2>1, <2>2, <2>3, <2>4 DEF MapInv
<1>2. BusOK /\ OwnInv(L) /\ MapInv(L) /\ [Next]_vars => MapInv(L)'
  BY TickKeepsMap, OthersKeepMap DEF Next
<1>3. Spec => []OwnInv(L)
  BY OwnersHold
<1> QED BY <1>1, <1>2, <1>3, BusTypeCorrect, PTL DEF Spec

-----------------------------------------------------------------------------
\* A lane's status is the lane's stage, with the value that a load will find.
LEMMA ViewIs ==
  /\ \A c \in Cores : \A l \in Lanes :
       /\ lane[c][l].stage = "sent" => View[c][l] = SentValue(Underway(c, l))
       /\ lane[c][l].stage # "sent" => View[c][l] = lane[c][l]
  /\ View[Host][0] = HostStatus
  /\ \A l \in Lanes : l # 0 => View[Host][l] = Idle
<1>1. Host \notin Cores /\ Requesters = Cores \cup {Host} /\ 0 \in Lanes
  BY BusAssumption DEF Requesters, Host, Cores, Lanes
<1> QED BY <1>1 DEF View, CoreStatus, Abstract, SentValue

\* The same after a step.
LEMMA ViewNext ==
  /\ \A c \in Cores : \A l \in Lanes :
       /\ lane'[c][l].stage = "sent" => View'[c][l] = SentValue(Underway(c, l)')
       /\ lane'[c][l].stage # "sent" => View'[c][l] = lane'[c][l]
  /\ View'[Host][0] = HostStatus'
  /\ \A l \in Lanes : l # 0 => View'[Host][l] = Idle
<1>1. Host \notin Cores /\ Requesters = Cores \cup {Host} /\ 0 \in Lanes
  BY BusAssumption DEF Requesters, Host, Cores, Lanes
<1> QED BY <1>1 DEF View, CoreStatus, Abstract, SentValue

\* The host's status by the stage of its engine.
LEMMA HostStatusIs ==
  ASSUME HostHeld
  PROVE  /\ engine = "start" => HostStatus = Ask(wanted)
         /\ engine = "wait"  => HostStatus = SentValue(Underway(Host, 0))
         /\ engine = "send"  => HostStatus = Told(buffer)
         /\ engine = "idle" /\ hostReq # None => HostStatus = Ask(hostReq)
         /\ engine = "idle" /\ hostReq = None => HostStatus = Idle
<1>1. engine = "idle" /\ hostReq # None => hostReq.op = "store"
  BY DEF HostHeld
<1> QED BY <1>1 DEF HostStatus, SentValue

\* The same after a step.
LEMMA HostStatusNext ==
  ASSUME HostHeld'
  PROVE  /\ engine' = "start" => HostStatus' = Ask(wanted')
         /\ engine' = "wait"  => HostStatus' = SentValue(Underway(Host, 0)')
         /\ engine' = "send"  => HostStatus' = Told(buffer')
         /\ engine' = "idle" /\ hostReq' # None => HostStatus' = Ask(hostReq')
         /\ engine' = "idle" /\ hostReq' = None => HostStatus' = Idle
<1>1. engine' = "idle" /\ hostReq' # None => hostReq'.op = "store"
  BY DEF HostHeld
<1> QED BY <1>1 DEF HostStatus, SentValue

\* A lane that is taken does not overtake a lower one with a store to its
\* word: that one counts no more conflicts (same_prior_count of memory.v).
LEMMA LowerTaken ==
  ASSUME NEW req, NEW l \in Accepted(req), NEW low \in Lanes, low < l, req[low] # None,
         req[l].op = "store", req[low].op = "store", req[l].addr = req[low].addr
  PROVE  low \in Accepted(req)
<1> DEFINE A(k) == {j \in 0..(k - 1) : prior_uses_port(req[j], req[k])}
<1>1. l \in Nat /\ low \in Nat /\ l \in Lanes
  BY BusAssumption DEF Accepted, Lanes
<1>2. A(low) \subseteq A(l)
  <2> SUFFICES ASSUME NEW j \in A(low) PROVE j \in A(l)
    OBVIOUS
  <2>1. j \in 0..(l - 1)
    BY <1>1
  <2>2. prior_uses_port(req[j], req[l])
    BY DEF prior_uses_port
  <2> QED BY <2>1, <2>2
<1>3. IsFiniteSet(A(l))
  <2>1. IsFiniteSet(0..(l - 1))
    BY <1>1, FS_Interval
  <2>2. A(l) \in SUBSET (0..(l - 1))
    OBVIOUS
  <2> QED BY <2>1, <2>2, FS_Subset
<1>4. Cardinality(A(low)) <= Cardinality(A(l)) /\ Cardinality(A(low)) \in Nat /\ Cardinality(A(l)) \in Nat
  <2> HIDE DEF A
  <2>1. IsFiniteSet(A(low)) /\ Cardinality(A(low)) <= Cardinality(A(l))
    BY <1>2, <1>3, FS_Subset
  <2> QED BY <1>3, <2>1, FS_CardinalityType
<1>5. Cardinality(A(l)) < Ports
  BY DEF Accepted, same_prior_count
<1>6. Cardinality(A(low)) < Ports
  <2> HIDE DEF A
  <2> QED BY <1>4, <1>5, BusAssumption
<1> QED BY <1>6 DEF Accepted, same_prior_count

\* A clock edge performs what the memory accepted at it, and tells what the
\* ports put out.
LEMMA TickIsServe ==
  ASSUME NEW L \in Cores, BusOK, OwnInv(L), MapInv(L), MapInv(L)', HeldOK', Tick
  PROVE  Promised!Next
<1>1. PICK r \in Requesters \cup {NoOne}, accepted \in SUBSET Lanes :
        /\ r = Host <=> host_active
        /\ r = Host => accepted = {0} /\ request(r)[0] = hostReq
        /\ accepted = Accepted(request(r))
        /\ \A l \in accepted :
             /\ request(r)[l] \in Request /\ r \in Requesters
             /\ r \in Cores => lane[r][l].stage = "ask" /\ request(r)[l] = lane[r][l].req
        /\ \A c \in Cores : \A l \in Lanes :
             /\ c = r /\ l \in accepted =>
                  lane'[c][l] = IF lane[c][l].req.op = "store" THEN Idle ELSE Sent(lane[c][l].req)
             /\ ~(c = r /\ l \in accepted) =>
                  lane'[c][l] = IF lane[c][l].stage = "sent" /\ AnswerTo(c) /\ out[l] # None
                                THEN Told(out[l].value) ELSE lane[c][l]
        /\ \A l \in Lanes :
             /\ pipe'[l] # None <=> l \in accepted
             /\ l \in accepted => pipe'[l].req = request(r)[l] /\ pipe'[l].from = r
        /\ \A l \in Lanes :
             /\ out'[l] # None <=> Loading(l)
             /\ Loading(l) => out'[l].from = pipe[l].from /\ out'[l].value = mem[pipe[l].req.addr]
        /\ mem' = Held /\ wanted' = wanted /\ running' = running /\ EngineTick
  BY TickFacts
<1>2. Host \notin Cores /\ Requesters = Cores \cup {Host} /\ NoOne \notin Requesters /\ 0 \in Lanes
  BY BusAssumption DEF NoOne, Requesters, Host, Cores, Lanes
<1>3. HeldOK
  BY HeldIs DEF BusOK, MapInv
<1>4. \/ engine = "start" /\ host_active /\ engine' = "wait" /\ buffer' = buffer
      \/ engine = "wait" /\ AnswerToHost /\ engine' = "send" /\ buffer' = out[0].value
      \/ /\ ~(engine = "start" /\ host_active) /\ ~(engine = "wait" /\ AnswerToHost)
         /\ engine' = engine /\ buffer' = buffer
  BY <1>1 DEF EngineTick
<1>5. engine # "start" => hostReq' = None
  BY <1>1 DEF EngineTick
<1>6. HostHeld /\ HostWaits /\ HostHeld' /\ HostWaits'
  BY DEF MapInv
\* The host is served its own request, for the first time or the second.
<1>7. r = Host => /\ hostReq # None /\ running = {}
                  /\ engine \in {"start", "idle"} => HostStatus = Ask(hostReq)
                  /\ engine = "wait" => hostReq.op = "load"
                  /\ engine # "send"
  <2>1. r = Host => hostReq # None /\ running = {}
    BY <1>1 DEF host_active, busy
  <2> QED BY <2>1, <1>6, HostStatusIs DEF HostHeld
<1> DEFINE again == r = Host /\ engine = "wait"
           S == IF again THEN {} ELSE accepted
           r0 == IF r = NoOne THEN Host ELSE r
           q == IF respOwner THEN L ELSE Host
           T == IF respOwner
                THEN {l \in Lanes : lane[L][l].stage = "sent" /\ AnswerTo(L) /\ out[l] # None}
                ELSE {l \in {0} : engine = "wait" /\ AnswerToHost}
           cell(p, l) == IF p = r0 /\ l \in S
                         THEN IF View[p][l].req.op = "load"
                              THEN SentValue(Held[View[p][l].req.addr]) ELSE Idle
                         ELSE IF p = q /\ l \in T THEN Told(View[p][l].value) ELSE View[p][l]
<1>8. r0 \in Requesters /\ q \in Requesters /\ S \in SUBSET Lanes /\ T \in SUBSET Lanes
  BY <1>1, <1>2
<1>9. r = NoOne => accepted = {}
  BY <1>1, <1>2
\* What the served lanes ask.
<1>10. \A l \in S : /\ r0 = r /\ r \in Requesters /\ l \in accepted
                    /\ View[r][l].stage = "ask" /\ View[r][l].req = request(r)[l]
  <2> SUFFICES ASSUME NEW l \in S
               PROVE  /\ r0 = r /\ r \in Requesters /\ l \in accepted
                      /\ View[r][l].stage = "ask" /\ View[r][l].req = request(r)[l]
    OBVIOUS
  <2>1. l \in accepted /\ ~again /\ r \in Requesters /\ r0 = r
    BY <1>1, <1>2
  <2>2. CASE r = Host
    BY <1>1, <1>6, <1>7, <2>1, <2>2, ViewIs, Stages DEF HostHeld
  <2>3. CASE r \in Cores
    BY <1>1, <2>1, <2>3, ViewIs
  <2> QED BY <1>2, <2>1, <2>2, <2>3
\* Whom the ports answer.
<1>11. \A l \in T : View[q][l].stage = "sent"
  <2> SUFFICES ASSUME NEW l \in T PROVE View[q][l].stage = "sent"
    OBVIOUS
  <2>1. CASE respOwner
    BY <2>1, ViewIs, SentValueIs
  <2>2. CASE ~respOwner
    BY <1>6, <2>2, ViewIs, HostStatusIs, SentValueIs
  <2> QED BY <2>1, <2>2
<1>12. \A l \in S, low \in Lanes :
         /\ View[r0][low].stage = "ask" /\ low < l
         /\ View[r0][l].req.op = "store" /\ View[r0][low].req.op = "store"
         /\ View[r0][l].req.addr = View[r0][low].req.addr
         => low \in S
  <2> SUFFICES ASSUME NEW l \in S, NEW low \in Lanes, View[r0][low].stage = "ask", low < l,
                      View[r0][l].req.op = "store", View[r0][low].req.op = "store",
                      View[r0][l].req.addr = View[r0][low].req.addr
               PROVE  low \in S
    OBVIOUS
  <2>1. r0 = r /\ l \in accepted /\ r \in Requesters /\ View[r][l].req = request(r)[l] /\ S = accepted
    BY <1>10
  <2>2. CASE r = Host
    BY <1>1, <2>1, <2>2, BusAssumption DEF Lanes
  <2>3. CASE r \in Cores
    <3>1. lane[r][low].stage = "ask" /\ View[r][low] = lane[r][low]
      <4>1. lane[r][low].stage = "sent" => View[r][low].stage = "sent"
        BY <2>3, ViewIs, SentValueIs
      <4>2. lane[r][low].stage # "sent" => View[r][low] = lane[r][low]
        BY <2>3, ViewIs
      <4> QED BY <2>1, <4>1, <4>2
    <3>2. request(r)[low] = lane[r][low].req
      BY <1>2, <2>3, <3>1 DEF request, Asked
    <3>3. request(r)[low] # None
      BY <2>3, <3>1, <3>2, RequestFields DEF BusOK, LanesOK
    <3> QED BY <1>1, <2>1, <3>1, <3>2, <3>3, LowerTaken
  <2> QED BY <1>2, <2>1, <2>2, <2>3
\* A core's lane: taken, answered, or as it was.
<1>13. ASSUME NEW c \in Cores, NEW l \in Lanes
       PROVE  View'[c][l] = cell(c, l)
  <2>1. /\ lane'[c][l].stage = "sent" => View'[c][l] = SentValue(Underway(c, l)')
        /\ lane'[c][l].stage # "sent" => View'[c][l] = lane'[c][l]
    BY ViewNext
  <2>2. CASE c = r /\ l \in accepted
    <3>1. c = r0 /\ l \in S /\ View[c][l].req = lane[c][l].req /\ lane[c][l].req \in Request
      BY <1>1, <1>2, <1>10, <2>2
    <3>2. CASE lane[c][l].req.op = "store"
      <4>1. lane'[c][l] = Idle
        BY <1>1, <2>2, <3>2
      <4> QED BY <2>1, <3>1, <3>2, <4>1, Stages
    <3>3. CASE lane[c][l].req.op = "load"
      <4>1. lane'[c][l] = Sent(lane[c][l].req)
        BY <1>1, <2>2, <3>3
      <4>2. pipe'[l] # None /\ pipe'[l].from = c /\ pipe'[l].req = lane[c][l].req
        BY <1>1, <2>2
      <4>3. Underway(c, l)' = Held[lane[c][l].req.addr]
        BY <1>1, <4>2 DEF Underway
      <4> QED BY <2>1, <3>1, <3>3, <4>1, <4>3, Stages
    <3> QED BY <3>1, <3>2, <3>3, RequestFields
  <2>3. CASE ~(c = r /\ l \in accepted)
    <3>1. ~(c = r0 /\ l \in S)
      BY <1>2, <2>3
    <3>2. CASE lane[c][l].stage = "sent" /\ AnswerTo(c) /\ out[l] # None
      <4>1. c = L /\ respOwner /\ q = L /\ l \in T /\ lane[L][l].req.op = "load"
        BY <3>2 DEF OwnInv, OneWaits, AnswerTo
      <4>2. out[l].from = L
        BY <3>2, <4>1 DEF OwnInv, AnswersOwned, Owner
      <4>3. ~(pipe[l] # None /\ pipe[l].from = L)
        <5>1. SUFFICES ASSUME pipe[l] # None, pipe[l].from = L PROVE FALSE
          OBVIOUS
        <5>2. Loading(l)
          BY <3>2, <4>1, <5>1 DEF MapInv, SentAtBank, Loading
        <5> QED BY <1>2, <3>2, <5>1, <5>2 DEF OwnInv, LoadsOwned
      <4>4. Underway(L, l) = out[l].value
        BY <3>2, <4>2, <4>3 DEF Underway
      <4>5. View[c][l] = SentValue(out[l].value)
        BY <3>2, <4>1, <4>4, ViewIs
      <4>6. lane'[c][l] = Told(out[l].value)
        BY <1>1, <2>3, <3>2
      <4>7. View'[c][l] = Told(out[l].value)
        BY <2>1, <4>6, Stages
      <4> QED BY <3>1, <4>1, <4>5, <4>7, SentValueIs
    <3>3. CASE ~(lane[c][l].stage = "sent" /\ AnswerTo(c) /\ out[l] # None)
      <4>1. lane'[c][l] = lane[c][l]
        BY <1>1, <2>3, <3>3
      <4>2. ~(c = q /\ l \in T)
        BY <1>2, <3>3
      <4>3. CASE lane[c][l].stage # "sent"
        BY <2>1, <3>1, <4>1, <4>2, <4>3, ViewIs
      <4>4. CASE lane[c][l].stage = "sent"
        <5>1. c = L
          BY <4>4 DEF OwnInv, OneWaits
        <5>2. ~(out[l] # None /\ out[l].from = L)
          BY <1>2, <3>3, <4>4, <5>1 DEF OwnInv, AnswersOwned, Owner
        <5>3. pipe[l] # None /\ pipe[l].from = L /\ pipe[l].req = lane[L][l].req
          BY <4>4, <5>1, <5>2 DEF OwnInv, AllUnderway
        <5>4. Loading(l)
          BY <4>4, <5>1, <5>3 DEF OwnInv, OneWaits, Loading
        <5>5. Underway(L, l) = mem[pipe[l].req.addr]
          BY <5>3 DEF Underway
        <5>6. ~(pipe'[l] # None /\ pipe'[l].from = L)
          BY <1>1, <2>3, <5>1
        <5>7. Underway(L, l)' = mem[pipe[l].req.addr]
          BY <1>1, <5>3, <5>4, <5>6 DEF Underway
        <5> QED BY <2>1, <3>1, <4>1, <4>2, <4>4, <5>1, <5>5, <5>7, ViewIs
      <4> QED BY <4>3, <4>4
    <3> QED BY <3>2, <3>3
  <2> QED BY <2>2, <2>3
\* The host's lane: its engine's stage and what it wants or has been told.
<1>14. View'[Host][0] = cell(Host, 0)
  <2>1. View'[Host][0] = HostStatus' /\ View[Host][0] = HostStatus
    BY ViewIs, ViewNext
  <2>2. wanted' = wanted
    BY <1>1
  <2>3. /\ engine' = "start" => HostStatus' = Ask(wanted)
        /\ engine' = "wait"  => HostStatus' = SentValue(Underway(Host, 0)')
        /\ engine' = "send"  => HostStatus' = Told(buffer')
        /\ engine' = "idle" /\ hostReq' # None => HostStatus' = Ask(hostReq')
        /\ engine' = "idle" /\ hostReq' = None => HostStatus' = Idle
    BY <1>6, <2>2, HostStatusNext
  <2>4. CASE engine = "start" /\ host_active /\ engine' = "wait"
    <3>1. r = Host /\ 0 \in S /\ r0 = Host /\ hostReq = wanted
      BY <1>1, <1>2, <1>6, <1>7, <2>4 DEF HostHeld
    <3>2. pipe'[0] # None /\ pipe'[0].from = Host /\ pipe'[0].req = wanted
      BY <1>1, <1>2, <3>1
    <3>3. Underway(Host, 0)' = Held[wanted.addr]
      BY <1>1, <3>2 DEF Underway
    <3>4. View[Host][0].req = wanted /\ wanted.op = "load"
      BY <1>6, <2>1, <2>4, HostStatusIs, Stages DEF HostHeld
    <3> QED BY <2>1, <2>3, <2>4, <3>1, <3>3, <3>4
  <2>5. CASE engine = "wait" /\ AnswerToHost /\ engine' = "send"
    <3>1. 0 \notin S \/ r0 # Host
      BY <1>9, <2>5
    <3>2. q = Host /\ 0 \in T
      BY <2>5 DEF AnswerToHost
    <3>3. ToHost(0)
      BY <1>2, <2>5 DEF OwnInv, AnswersOwned, AnswerToHost, Owner, AnswerTo, ToHost
    <3>4. Underway(Host, 0) = out[0].value
      BY <1>6, <2>5, <3>3 DEF HostWaits, FromHost, ToHost, Underway
    <3>5. buffer' = out[0].value
      BY <1>4, <2>5
    <3> QED BY <1>6, <2>1, <2>3, <2>5, <3>1, <3>2, <3>4, <3>5, HostStatusIs, SentValueIs
  <2>6. CASE /\ ~(engine = "start" /\ host_active) /\ ~(engine = "wait" /\ AnswerToHost)
             /\ engine' = engine /\ buffer' = buffer
    <3>1. ~(Host = q /\ 0 \in T)
      BY <1>2, <2>6
    <3>2. CASE engine = "start"
      <4>1. accepted = {} \/ r0 # Host
        BY <1>1, <1>9, <2>6, <3>2
      <4> QED BY <1>6, <2>1, <2>3, <2>6, <3>1, <3>2, <4>1, HostStatusIs
    <3>3. CASE engine = "wait"
      <4>1. S = {} \/ r0 # Host
        BY <1>9, <3>3
      <4>2. ~ToHost(0)
        BY <1>2, <2>6, <3>3 DEF OwnInv, AnswersOwned, ToHost, Owner, AnswerToHost
      <4>3. FromHost(0) /\ pipe[0].req = wanted /\ wanted.op = "load"
        BY <1>6, <3>3, <4>2 DEF HostWaits, HostHeld
      <4>4. Underway(Host, 0) = mem[wanted.addr]
        BY <4>3 DEF Underway, FromHost
      <4>5. ToHost(0)' /\ out'[0].value = mem[wanted.addr]
        BY <1>1, <1>2, <4>3 DEF FromHost, ToHost, Loading
      <4>6. FromHost(0)' => pipe'[0].req = wanted /\ mem'[wanted.addr] = mem[wanted.addr]
        BY <1>6, <2>2, <2>6, <3>3, <4>5 DEF HostWaits
      <4>7. Underway(Host, 0)' = mem[wanted.addr]
        BY <4>5, <4>6 DEF Underway, FromHost, ToHost
      <4> QED BY <1>6, <2>1, <2>3, <2>6, <3>1, <3>3, <4>1, <4>4, <4>7, HostStatusIs
    <3>4. CASE engine = "send"
      <4>1. r # Host
        BY <1>7, <3>4
      <4>2. accepted = {} \/ r0 # Host
        BY <1>9, <4>1
      <4> QED BY <1>6, <2>1, <2>3, <2>6, <3>1, <3>4, <4>2, HostStatusIs
    <3>5. CASE engine = "idle" /\ hostReq = None
      <4>1. r # Host
        BY <1>7, <3>5
      <4>2. accepted = {} \/ r0 # Host
        BY <1>9, <4>1
      <4>3. hostReq' = None
        BY <1>5, <3>5
      <4> QED BY <1>6, <2>1, <2>3, <2>6, <3>1, <3>5, <4>2, <4>3, HostStatusIs
    <3>6. CASE engine = "idle" /\ hostReq # None
      <4>1. r = Host
        BY <1>1, <1>6, <3>6 DEF HostHeld, host_active, busy
      <4>2. r0 = Host /\ 0 \in S
        BY <1>1, <1>2, <3>6, <4>1
      <4>3. hostReq' = None
        BY <1>5, <3>6
      <4>4. View[Host][0].req = hostReq /\ hostReq.op = "store"
        BY <1>6, <2>1, <3>6, HostStatusIs, Stages DEF HostHeld
      <4> QED BY <2>1, <2>3, <2>6, <3>6, <4>2, <4>3, <4>4
    <3> QED BY <1>6, <3>2, <3>3, <3>4, <3>5, <3>6 DEF HostHeld
  <2> QED BY <1>4, <2>4, <2>5, <2>6
<1>15. ASSUME NEW l \in Lanes, l # 0
       PROVE  View'[Host][l] = cell(Host, l)
  <2>1. View'[Host][l] = Idle /\ View[Host][l] = Idle
    BY <1>15, ViewIs, ViewNext
  <2>2. ~(Host = r0 /\ l \in S)
    BY <1>1, <1>9, <1>15
  <2>3. ~(Host = q /\ l \in T)
    BY <1>2, <1>15
  <2> QED BY <2>1, <2>2, <2>3
<1> HIDE DEF cell
<1>16. View' = ViewAfter(r0, S, q, T)
  <2>1. View' = [p \in Requesters |-> [l \in Lanes |-> View'[p][l]]]
    BY DEF View
  <2>2. \A p \in Requesters : \A l \in Lanes : View'[p][l] = cell(p, l)
    BY <1>2, <1>13, <1>14, <1>15
  <2>3. View' = [p \in Requesters |-> [l \in Lanes |-> cell(p, l)]]
    BY <2>1, <2>2
  <2>4. ViewAfter(r0, S, q, T) = [p \in Requesters |-> [l \in Lanes |-> cell(p, l)]]
    BY DEF ViewAfter, cell
  <2> QED BY <2>3, <2>4
\* The memory: what was accepted now is what the banks will write next.
<1>17. Held' = Promised!Stored(r0, S, Held)
  <2> DEFINE after == Promised!Stored(r0, S, Held)
  <2>1. ASSUME NEW l \in Lanes, NEW a, NEW b
        PROVE  Puts(l, a, b)' <=> Saves(r0, S, l, a, b)
    <3>1. CASE l \in S
      BY <1>1, <1>10, <3>1 DEF Puts, Saves
    <3>2. CASE l \in accepted /\ l \notin S
      <4>1. request(r)[l] = hostReq /\ hostReq.op = "load"
        BY <1>1, <1>7, <3>2
      <4> QED BY <1>1, <3>2, <4>1 DEF Puts, Saves
    <3>3. CASE l \notin accepted
      BY <1>1, <3>3 DEF Puts, Saves
    <3> QED BY <3>1, <3>2, <3>3
  <2>2. Held \in [Addresses -> Word]
    BY <1>3 DEF HeldOK
  <2> HIDE DEF S, r0
  <2>3. /\ after = [a \in Addresses |-> [b \in Bytes |-> after[a][b]]]
        /\ \A a \in Addresses : \A b \in Bytes :
             /\ (\A l \in Lanes : ~Saves(r0, S, l, a, b)) => after[a][b] = Held[a][b]
             /\ \A l \in Lanes :
                  Saves(r0, S, l, a, b) /\ (\A k \in Lanes : Saves(r0, S, k, a, b) => k <= l)
                    => after[a][b] = View[r0][l].req.data[b]
    BY <1>8, <2>2, StoredIs
  <2>4. ASSUME NEW a \in Addresses, NEW b \in Bytes
        PROVE  Held'[a][b] = after[a][b]
    <3> DEFINE W == {l \in Lanes : Saves(r0, S, l, a, b)}
    <3>1. CASE W = {}
      <4>1. \A l \in Lanes : ~Saves(r0, S, l, a, b) /\ ~Puts(l, a, b)'
        BY <2>1, <3>1
      <4>2. Held'[a][b] = mem'[a][b]
        BY <4>1 DEF HeldOK
      <4>3. after[a][b] = Held[a][b]
        BY <2>3, <4>1
      <4> QED BY <1>1, <4>2, <4>3
    <3>2. CASE W # {}
      <4>1. PICK l \in W : \A k \in W : k <= l
        <5>1. W \in SUBSET Lanes
          OBVIOUS
        <5> HIDE DEF W
        <5> QED BY <3>2, <5>1, HighestLane
      <4>2. l \in Lanes /\ Saves(r0, S, l, a, b) /\ \A k \in Lanes : Saves(r0, S, k, a, b) => k <= l
        BY <4>1
      <4>3. Puts(l, a, b)' /\ \A k \in Lanes : Puts(k, a, b)' => k <= l
        BY <2>1, <4>2
      <4>4. Held'[a][b] = pipe'[l].req.data[b]
        BY <4>2, <4>3 DEF HeldOK
      <4>5. after[a][b] = View[r0][l].req.data[b]
        BY <2>3, <4>2
      <4>6. pipe'[l].req = View[r0][l].req
        BY <1>1, <1>10, <4>2 DEF Saves
      <4> QED BY <4>4, <4>5, <4>6
    <3> QED BY <3>1, <3>2
  <2>5. Held' = [a \in Addresses |-> [b \in Bytes |-> Held'[a][b]]]
    BY DEF HeldOK, Word
  <2> HIDE DEF after
  <2>6. Held' = after
    BY <2>3, <2>4, <2>5
  <2> QED BY <2>6 DEF after
<1> HIDE DEF S, T, r0, q
<1>18. \A l \in S : View[r0][l].stage = "ask"
  BY <1>10
<1> QED BY <1>8, <1>11, <1>12, <1>16, <1>17, <1>18, ServeStep

\* Where lanes and banks are left alone the cores' status is what it was, and
\* the memory is wherever the banks are.
LEMMA StatusStays ==
  ASSUME pipe' = pipe, out' = out, mem' = mem
  PROVE  /\ HeldOK /\ HeldOK' => Held' = Held
         /\ \A r : \A l : Underway(r, l)' = Underway(r, l)
         /\ \A c \in Cores : lane'[c] = lane[c] => View'[c] = View[c]
         /\ UNCHANGED host => View'[Host] = View[Host]
<1>1. ASSUME HeldOK, HeldOK' PROVE Held' = Held
  <2>1. ASSUME NEW a \in Addresses, NEW b \in Bytes PROVE Held'[a][b] = Held[a][b]
    <3> DEFINE W == {l \in Lanes : Puts(l, a, b)}
    <3>1. \A l \in Lanes : Puts(l, a, b)' <=> Puts(l, a, b)
      BY DEF Puts
    <3>2. CASE W = {}
      BY <1>1, <3>1, <3>2 DEF HeldOK
    <3>3. CASE W # {}
      <4>1. PICK l \in W : \A k \in W : k <= l
        <5>1. W \in SUBSET Lanes
          OBVIOUS
        <5> HIDE DEF W
        <5> QED BY <3>3, <5>1, HighestLane
      <4> QED BY <1>1, <3>1, <4>1 DEF HeldOK
    <3> QED BY <3>2, <3>3
  <2>2. Held \in [Addresses -> [Bytes -> Value]] /\ Held' \in [Addresses -> [Bytes -> Value]]
    BY <1>1 DEF HeldOK, Word
  <2> QED BY <2>1, <2>2
<1>2. \A r : \A l : Underway(r, l)' = Underway(r, l)
  BY DEF Underway
<1>3. Host \notin Cores /\ Requesters = Cores \cup {Host}
  BY BusAssumption DEF Requesters, Host, Cores
<1>4. \A c \in Cores : lane'[c] = lane[c] => View'[c] = View[c]
  BY <1>2, <1>3 DEF View, CoreStatus, Abstract
<1>5. UNCHANGED host => View'[Host] = View[Host]
  <2> SUFFICES ASSUME UNCHANGED host PROVE View'[Host] = View[Host]
    OBVIOUS
  <2>1. HostStatus' = HostStatus
    BY <1>2 DEF host, HostStatus
  <2> QED BY <1>3, <2>1 DEF View
<1> QED BY <1>1, <1>2, <1>4, <1>5

\* Instructions and the host's calls ask; the rest is not seen.
LEMMA OthersAsk ==
  ASSUME NEW L \in Cores, BusOK, MapInv(L), MapInv(L)', HeldOK', 
         \/ Launch \/ HostRead \/ HostSent \/ HostWrite
         \/ \E c \in Cores : Issue(c) \/ Stop(c)
         \/ UNCHANGED vars
  PROVE  Promised!Next \/ UNCHANGED Promised!vars
<1>1. pipe' = pipe /\ out' = out /\ mem' = mem
  BY DEF Launch, HostRead, HostSent, HostWrite, Issue, Stop, vars, banks
<1>2. Host \notin Cores /\ Requesters = Cores \cup {Host}
  BY BusAssumption DEF Requesters, Host, Cores
<1>3. Held' = Held
  BY <1>1, HeldIs, StatusStays DEF BusOK, MapInv
<1>4. HostHeld /\ HostHeld'
  BY DEF MapInv
<1>5. Idle.stage = "idle" /\ \A x : Ask(x).stage = "ask" /\ Told(x).stage = "told"
  BY DEF Idle, Ask, Told
<1>6. CASE lane' = lane /\ UNCHANGED host
  <2>1. \A r \in Requesters : View'[r] = View[r]
    BY <1>1, <1>2, <1>6, StatusStays
  <2>2. View' = View
    <3>1. View = [r \in Requesters |-> View[r]] /\ View' = [r \in Requesters |-> View'[r]]
      BY DEF View
    <3> QED BY <2>1, <3>1
  <2> QED BY <1>3, <2>2 DEF Promised!vars, View, CoreStatus, Held
<1>7. CASE /\ lane' = lane
           /\ (engine = "idle" /\ hostReq = None) \/ engine = "send"
           /\ \/ engine' = "start"
              \/ engine' = "idle"
  <2>1. \A c \in Cores : View'[c] = View[c]
    BY <1>1, <1>7, StatusStays
  <2>2. \A l \in Lanes : View[Host][l].stage \in {"idle", "told"}
    <3>1. HostStatus = Idle \/ HostStatus = Told(buffer)
      BY <1>4, <1>7, HostStatusIs
    <3>2. View[Host][0].stage \in {"idle", "told"}
      BY <1>5, <3>1, ViewIs
    <3> QED BY <1>5, <3>2, ViewIs
  <2>3. \A l \in Lanes : View'[Host][l].stage \in {"idle", "ask"}
    <3>1. HostStatus' = Idle \/ HostStatus' = Ask(wanted') \/ HostStatus' = Ask(hostReq')
      BY <1>4, <1>7, HostStatusNext
    <3>2. View'[Host][0].stage \in {"idle", "ask"}
      BY <1>5, <3>1, ViewNext
    <3> QED BY <1>5, <3>2, ViewNext
  <2> QED BY <1>2, <1>3, <2>1, <2>2, <2>3, RequestStep
<1>8. ASSUME NEW c \in Cores, Issue(c) PROVE Promised!Next
  <2>1. PICK i \in Programs[c] :
          lane' = [lane EXCEPT ![c] = [l \in Lanes |-> IF l \in DOMAIN i THEN Ask(i[l]) ELSE Idle]]
    BY <1>8 DEF Issue
  <2>2. UNCHANGED host /\ Settled(c)
    BY <1>8 DEF Issue
  <2>3. \A q \in Requesters \ {c} : View'[q] = View[q]
    BY <1>1, <1>2, <2>1, <2>2, StatusStays DEF BusOK, LanesOK
  <2>4. \A l \in Lanes : View[c][l].stage \in {"idle", "told"}
    BY <2>2, ViewIs DEF Settled
  <2>5. \A l \in Lanes : View'[c][l].stage \in {"idle", "ask"}
    <3> TAKE l \in Lanes
    <3>1. lane'[c][l].stage \in {"idle", "ask"}
      BY <1>5, <2>1 DEF BusOK, LanesOK
    <3>2. View'[c][l] = lane'[c][l]
      BY <3>1, ViewNext
    <3> QED BY <3>1, <3>2
  <2> QED BY <1>2, <1>3, <2>3, <2>4, <2>5, RequestStep
<1>9. CASE Launch \/ (\E c \in Cores : Stop(c)) \/ UNCHANGED vars
  BY <1>6, <1>9 DEF Launch, Stop, vars, cores
<1>10. CASE HostRead \/ HostSent \/ HostWrite
  BY <1>7, <1>10 DEF HostRead, HostSent, HostWrite, cores
<1> QED BY <1>8, <1>9, <1>10

\* With one core that loads the bus does what one memory would do, for any
\* number of cores, lanes, banks and ports and any programs: every clock edge
\* performs requests, tells lanes what was stored last, or both, and every
\* other step asks or is not seen (memory.v, memory_bank.v, the arbiter of
\* mini_gpu.v and the read engine, against SharedMemory).
THEOREM OneLoaderOneMemory ==
  ASSUME NEW L \in Cores, OneLoads(L)
  PROVE  Spec => ActsAsOneMemory
<1> DEFINE Inv == BusOK /\ OwnInv(L) /\ MapInv(L)
<1>1. Inv => HeldOK
  BY HeldIs DEF BusOK, MapInv
<1>2. Inv' => HeldOK'
  BY <1>1, PTL
<1>3. Init /\ HeldOK => Promised!Init
  <2> SUFFICES ASSUME Init, HeldOK PROVE Promised!Init
    OBVIOUS
  <2>1. Held = [a \in Addresses |-> [b \in Bytes |-> Zero]]
    <3>1. \A a \in Addresses : \A b \in Bytes : Held[a][b] = Zero
      BY DEF Init, HeldOK, Puts
    <3>2. Held \in [Addresses -> [Bytes -> Value]]
      BY DEF HeldOK, Word
    <3> QED BY <3>1, <3>2
  <2>2. HostStatus = Idle
    BY DEF Init, HostStatus
  <2>3. \A r \in Requesters : \A l \in Lanes : View[r][l] = Idle
    <3>1. \A c \in Cores : \A l \in Lanes : CoreStatus(c, l) = Idle
      BY Stages DEF Init, CoreStatus, Abstract
    <3> QED BY <2>2, <3>1 DEF View
  <2>4. View = [r \in Requesters |-> [l \in Lanes |-> Idle]]
    BY <2>3 DEF View
  <2> QED BY <2>1, <2>4 DEF Promised!Init, Promised!Idle, View, CoreStatus, Held, Idle
<1>4. Inv /\ Inv' /\ HeldOK' /\ [Next]_vars => [Promised!Next]_Promised!vars
  BY TickIsServe, OthersAsk DEF Next
<1>5. Spec => []Inv
  BY MapInvHolds
<1> HIDE DEF Inv
<1> QED BY <1>1, <1>2, <1>3, <1>4, <1>5, PTL DEF Spec, ActsAsOneMemory, Promised!Spec
=============================================================================
