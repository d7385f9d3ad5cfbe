--------------------------- MODULE MCDeviceMemory ---------------------------
(***************************************************************************)
(* DeviceMemory on a small memory.  Its base is not a multiple of the      *)
(* larger alignment and its raw spill size is not a multiple of the        *)
(* default alignment, so that padding and rounding take place.             *)
(***************************************************************************)
EXTENDS DeviceMemory

R(size, align) == [size |-> size, align |-> align]
MCRequest == {R(3, 1), R(30, 1), R(6, 4), R(10, 8)}
=============================================================================
