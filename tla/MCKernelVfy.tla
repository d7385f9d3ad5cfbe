---------------------------- MODULE MCKernelVfy ----------------------------
(***************************************************************************)
(* Small instances of KernelVfy: two program words, a memory of two words, *)
(* blocks of two words, and golden programs of one and of two words, so    *)
(* that one digest ends inside a block and one at its end.                 *)
(***************************************************************************)
EXTENDS KernelVfy

MCGolden == [k \in KernelId |-> IF k = 0 THEN <<1, 0>> ELSE <<1>>]

=============================================================================
