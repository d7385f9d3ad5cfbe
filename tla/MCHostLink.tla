----------------------------- MODULE MCHostLink -----------------------------
(***************************************************************************)
(* HostLink over a data memory of four words, with packets of two words:   *)
(* the writes need one or two packets and overlap each other.              *)
(***************************************************************************)
EXTENDS HostLink

Call(cmd, addr, words) == [cmd |-> cmd, addr |-> addr, words |-> words]

MCGate == {Call("program", 0, <<1>>), Call("validate", 1, << >>), Call("launch", 1, <<1>>)}
MCOp   == MCGate \cup {Call("reset", 0, << >>), Call("constants", 0, <<1>>),
                       Call("write", 0, <<1, 2, 1>>), Call("write", 2, <<2>>),
                       Call("read", 1, <<0, 0>>), Call("status", 0, <<0>>)}
=============================================================================
