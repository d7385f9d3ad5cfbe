--------------------------- MODULE MCProgramCache ---------------------------
(***************************************************************************)
(* ProgramCache with three kernel names over an instruction memory of five *)
(* words that cannot hold all their artifacts at once.                     *)
(***************************************************************************)
EXTENDS ProgramCache

Art(id, p) == [id |-> id, program |-> p]

MCName     == {"add", "relu", "conv"}
MCBuiltin  == [n \in MCName |->
                 CASE n = "relu" -> Art("B", "b") [] n = "conv" -> Art("C", "c")
                   [] OTHER -> Art("A", "a")]
MCReplace  == [n \in MCName |-> IF n = "add" THEN {Art("A", "a"), Art("A", "a2")} ELSE {}]
MCGolden   == [n \in MCName |-> MCBuiltin[n].program]
MCSize     == [p \in {"a", "a2", "b", "c"} |-> CASE p = "b" -> 1 [] p = "c" -> 3 [] OTHER -> 2]
=============================================================================
