---------------------------- MODULE SharedMemory ----------------------------
(***************************************************************************)
(* What cores and host are promised of the data memory: one memory of      *)
(* words, on which the requests of an instruction are performed at once,   *)
(* lane by lane or several lanes together, and every load gets what the    *)
(* memory held when it was performed.  Of lanes storing to the same byte   *)
(* the highest wins.  There are no clock cycles, banks or arbiters.        *)
(***************************************************************************)
EXTENDS Integers

CONSTANTS Requesters, \* the cores and the host
          Lanes,      \* of a requester, numbered
          Memories    \* the contents the memory starts with

VARIABLES
  memory,  \* the words, by address, each a function of its bytes
  status   \* what each lane of a requester has asked and been told

Idle        == [stage |-> "idle"]
Ask(req)    == [stage |-> "ask", req |-> req]
Sent(value) == [stage |-> "sent", value |-> value]
Told(value) == [stage |-> "told", value |-> value]

Settled(r) == \A l \in Lanes : status[r][l].stage \in {"idle", "told"}

Init ==
  /\ memory \in Memories
  /\ status = [r \in Requesters |-> [l \in Lanes |-> Idle]]

\* A requester asks when nothing of its last instruction is open.
Request(r) ==
  /\ Settled(r)
  /\ \A l \in Lanes : status'[r][l].stage \in {"idle", "ask"}
  /\ \A q \in Requesters \ {r} : status'[q] = status[q]
  /\ UNCHANGED memory

In(r, stage) == {l \in Lanes : status[r][l].stage = stage}

\* Lanes of r that may be performed together: no lane overtakes a lower one
\* that stores to the same word.
InOrder(r, S) ==
  \A l \in S, low \in In(r, "ask") :
    /\ low < l
    /\ status[r][l].req.op = "store" /\ status[r][low].req.op = "store"
    /\ status[r][l].req.addr = status[r][low].req.addr
    => low \in S

\* A memory after the stores of lanes S: of several to a byte the highest
\* lane's stays.
Stored(r, S, held) ==
  [a \in DOMAIN held |-> [b \in DOMAIN held[a] |->
     LET writers == {l \in S : /\ status[r][l].req.op = "store"
                               /\ status[r][l].req.addr = a
                               /\ b \in DOMAIN status[r][l].req.data}
     IN  IF writers = {} THEN held[a][b]
         ELSE LET last == CHOOSE l \in writers : \A m \in writers : m <= l
              IN  status[r][last].req.data[b]]]

Performed(req) == IF req.op = "load" THEN Sent(memory[req.addr]) ELSE Idle

\* Lanes S of r are performed, and lanes T of q are told their values: one
\* of the two sets may be empty.
Serve(r, S, q, T) ==
  /\ InOrder(r, S)
  /\ status' = [p \in Requesters |-> [l \in Lanes |->
                  IF p = r /\ l \in S THEN Performed(status[p][l].req)
                  ELSE IF p = q /\ l \in T THEN Told(status[p][l].value)
                  ELSE status[p][l]]]
  /\ memory' = Stored(r, S, memory)

Next ==
  \/ \E r \in Requesters : Request(r)
  \/ \E r, q \in Requesters :
       \E S \in SUBSET In(r, "ask"), T \in SUBSET In(q, "sent") : Serve(r, S, q, T)

vars == <<memory, status>>
Spec == Init /\ [][Next]_vars
=============================================================================
