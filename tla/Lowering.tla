------------------------------ MODULE Lowering ------------------------------
(***************************************************************************)
(* The compiler's way from the control flow of a kernel to the core's      *)
(* instructions: the basic blocks Clang emits are walked and turned into   *)
(* predicated straight-line code with loops (llvm_to_ir.py), every line    *)
(* becomes one or two instructions (ir_to_isa.py) and labels become        *)
(* offsets (isa_to_bin.py).                                                *)
(*                                                                         *)
(* A program is a sequence of statements: <<"mark", name>>, <<"dec">>,     *)
(* <<"load">>, <<"bar">>, <<"return">>, <<"continue">>, <<"break">>,       *)
(* <<"call", helper>>, <<"if", then>>, <<"ifelse", then, else>>,           *)
(* <<"while", body>>.  All conditions are "the register is not zero", "dec"*)
(* counts it down and "load" fetches it anew.  Registers are not           *)
(* allocated: "predn" stands for the negation of a condition that was kept *)
(* over the then-part, which must leave the register alone.                *)
(***************************************************************************)
EXTENDS Integers, Sequences, FiniteSets
LOCAL INSTANCE SequencesExt
LOCAL INSTANCE FiniteSetsExt

-----------------------------------------------------------------------------
(***************************************************************************)
(* What the source says.                                                   *)
(***************************************************************************)
RECURSIVE Run(_, _, _)
\* Thread t = [reg, marked, left] after the statements; left tells whether
\* and how it has left them early.
Run(body, memory, t) ==
  IF body = << >> \/ t.left # "no" THEN t
  ELSE LET s == Head(body)
           u == CASE s[1] = "mark" -> [t EXCEPT !.marked = Append(@, s[2])]
                  [] s[1] = "dec"  -> [t EXCEPT !.reg = IF @ > 0 THEN @ - 1 ELSE @]
                  [] s[1] = "load" -> [t EXCEPT !.reg = memory]
                  [] s[1] = "bar"  -> t
                  [] s[1] \in {"return", "continue", "break"} -> [t EXCEPT !.left = s[1]]
                  [] s[1] = "call" -> [Run(s[2], memory, t) EXCEPT !.left = "no"]
                  [] s[1] = "if"   -> IF t.reg # 0 THEN Run(s[2], memory, t) ELSE t
                  [] s[1] = "ifelse" -> Run(IF t.reg # 0 THEN s[2] ELSE s[3], memory, t)
                  [] s[1] = "while" ->
                       IF t.reg = 0 THEN t
                       ELSE LET once == Run(s[2], memory, t)
                            IN CASE once.left = "return" -> once
                                 [] once.left = "break"  -> [once EXCEPT !.left = "no"]
                                 [] OTHER -> Run(<<s>>, memory, [once EXCEPT !.left = "no"])
       IN Run(Tail(body), memory, u)

\* What a thread marks whose register holds value at launch.
Meaning(body, value) == Run(body, value, [reg |-> value, marked |-> << >>, left |-> "no"]).marked

-----------------------------------------------------------------------------
(***************************************************************************)
(* The blocks Clang emits, in the order of the text: to lists the blocks   *)
(* the terminator goes to: none for ret, one for br, two for br i1 (where  *)
(* to if the condition holds, where to if not).  Targets that are not      *)
(* emitted yet are -1 for the return block and 0 for the end of the loop.  *)
(***************************************************************************)
Block0 == [code |-> << >>, to |-> << >>, open |-> TRUE]
Close(g, l, to) == IF g[l].open THEN [g EXCEPT ![l].to = to, ![l].open = FALSE] ELSE g
GoNext(g, l)    == Append(Close(g, l, <<Len(g) + 1>>), Block0)
Retarget(g, old, new) ==
  FoldLeft(LAMBDA blocks, b : Append(blocks, IF b.to = <<old>> THEN [b EXCEPT !.to = <<new>>] ELSE b),
           << >>, g)

Plain == {"mark", "dec", "load", "bar", "call"}

RECURSIVE Emit(_, _, _)
\* The blocks g, of which the last is being written, and those of body;
\* header is the condition of the loop around it.
Emit(body, g, header) ==
  IF body = << >> THEN g
  ELSE
    LET s        == Head(body)
        here     == Len(g)
        thenPart == Emit(s[2], Append(g, Block0), header)
        oneArm   == Close(GoNext(thenPart, Len(thenPart)), here, <<here + 1, Len(thenPart) + 1>>)
        elsePart == Emit(s[3], Append(thenPart, Block0), header)
        twoArms  == Close(Close(GoNext(elsePart, Len(elsePart)), Len(thenPart), <<Len(elsePart) + 1>>),
                          here, <<here + 1, Len(thenPart) + 1>>)
        loopBody == Emit(s[2], Append(GoNext(g, here), Block0), here + 1)
        whole    == Close(Append(Close(loopBody, Len(loopBody), <<here + 1>>), Block0),
                          here + 1, <<here + 2, Len(loopBody) + 1>>)
    IN Emit(Tail(body),
            CASE s[1] \in Plain      -> [g EXCEPT ![here].code = Append(@, s)]
              [] s[1] = "return"     -> Close(g, here, <<-1>>)
              [] s[1] = "continue"   -> Close(g, here, <<header>>)
              [] s[1] = "break"      -> Close(g, here, <<0>>)
              [] s[1] = "if"         -> oneArm
              [] s[1] = "ifelse"     -> twoArms
              [] s[1] = "while"      -> Retarget(whole, 0, Len(whole)),
            header)

\* Early returns go to a last block; without one the block written last returns.
ReturnBlock(g) ==
  IF \E b \in DOMAIN g : g[b].to = <<-1>>
  THEN Retarget(Append(Close(g, Len(g), <<-1>>), Block0), -1, Len(g) + 1)
  ELSE g

Clang(body) == ReturnBlock(Emit(body, <<Block0>>, 0))

-----------------------------------------------------------------------------
(***************************************************************************)
(* llvm_to_ir.  A function is [scope, blocks]: a kernel or a helper.       *)
(***************************************************************************)
Succ(f, l)   == ToSet(f.blocks[l].to)
IsCond(f, l) == Len(f.blocks[l].to) = 2
OnTrue(f, l)  == f.blocks[l].to[1]
OnFalse(f, l) == f.blocks[l].to[2]

has_backedge_to(f, label) == \E b \in DOMAIN f.blocks \ {label} : f.blocks[b].to = <<label>>

\* The blocks within n edges of start on ways that avoid a block.
Within(f, start, avoid) ==
  LET ball[n \in 0..Len(f.blocks)] ==
        IF n = 0 THEN {start} \ {avoid}
        ELSE LET nearer == ball[n - 1]
             IN nearer \cup (UNION {Succ(f, l) : l \in nearer} \ {avoid})
  IN ball

reaches_avoiding(f, start, target, avoid) == target \in Within(f, start, avoid)[Len(f.blocks)]

\* Where a way from one of the targets of the branch leads back to the block
\* without passing the other: 1 if the condition holds, 2 if it does not.
Back(f, l) ==
  IF IsCond(f, l) /\ has_backedge_to(f, l)
  THEN {i \in 1..2 : reaches_avoiding(f, f.blocks[l].to[i], l, f.blocks[l].to[3 - i])}
  ELSE {}

reachable_label_distances(f, start) ==
  LET ball == Within(f, start, -1)
  IN [l \in ball[Len(f.blocks)] |-> Min({n \in DOMAIN ball : l \in ball[n]})]

Greater(x, y) == IF x > y THEN x ELSE y
Nearness(l, dl, dr) == <<Greater(dl[l], dr[l]), dl[l] + dr[l], l>>
Before(x, y) == \E i \in 1..3 : x[i] < y[i] /\ \A j \in 1..(i - 1) : x[j] = y[j]

\* The label that is nearest in both; 0 if there is none.
Nearest(dl, dr) ==
  IF DOMAIN dl \cap DOMAIN dr = {} THEN 0
  ELSE CHOOSE l \in DOMAIN dl \cap DOMAIN dr :
         \A m \in (DOMAIN dl \cap DOMAIN dr) \ {l} : Before(Nearness(l, dl, dr), Nearness(m, dl, dr))

\* Targets that are the same are nearest to themselves.
common_merge(f, l) ==
  Nearest(reachable_label_distances(f, OnTrue(f, l)), reachable_label_distances(f, OnFalse(f, l)))

\* Lines of IR.  A function the walk cannot represent, or in which it never
\* ends, is not compiled: it has a line that is no instruction's.
Rejected       == << <<"rejected">> >>
label(f, l)    == << <<"label", f.scope, l>> >>
emit_return(f) == << <<IF f.scope = "kernel" THEN "return" ELSE "call_return">> >>
pred(lines, condition) == << <<"pred_begin", condition>> >> \o lines \o << <<"pred_end">> >>

RECURSIVE emit_region_until(_, _, _, _, _), emit_loop_tail(_, _, _)

\* Both arms of the branch that ends block l, under their masks.
Arms(f, l, merge, seen, open) ==
  IF merge = 0 THEN Rejected
  ELSE pred(emit_region_until(f, OnTrue(f, l), merge, seen, open), "cond")
         \o IF OnFalse(f, l) = merge THEN << >>
            ELSE pred(emit_region_until(f, OnFalse(f, l), merge, seen, open), "not_cond")

\* The loop with this header; open are the headers of the loops that are being
\* walked: one that is met again is met for ever.
emit_loop_tail(f, header, open) ==
  IF header \in open THEN Rejected
  ELSE pred(emit_region_until(f, OnTrue(f, header), header, {}, open \cup {header}), "cond")
         \o Append(f.blocks[header].code, <<"branch_nzero", f.scope, header>>)

\* Blocks from l up to stop.
emit_region_until(f, l, stop, seen, open) ==
  LET next(m) == emit_region_until(f, m, stop, seen \cup {l}, open)
  IN IF l \in seen \cup {stop, 0} THEN << >>
     ELSE (IF Back(f, l) # {} THEN label(f, l) ELSE << >>) \o f.blocks[l].code
            \o CASE f.blocks[l].to = << >>    -> emit_return(f)
                 [] Len(f.blocks[l].to) = 1 -> next(f.blocks[l].to[1])
                 [] 1 \in Back(f, l) -> emit_loop_tail(f, l, open) \o next(OnFalse(f, l))
                 [] OTHER -> Arms(f, l, common_merge(f, l), seen \cup {l}, open)
                               \o next(common_merge(f, l))

RECURSIVE emit_block(_, _, _)
\* Blocks outside all masks, from l on.
emit_block(f, l, visited) ==
  LET next(m) == emit_block(f, m, visited \cup {l})
  IN IF l \in visited \cup {0} THEN << >>
     ELSE label(f, l) \o f.blocks[l].code
            \o CASE f.blocks[l].to = << >>    -> emit_return(f)
                 [] Len(f.blocks[l].to) = 1 -> next(f.blocks[l].to[1])
                 [] 1 \in Back(f, l) -> emit_loop_tail(f, l, {}) \o next(OnFalse(f, l))
                 [] OTHER -> Arms(f, l, common_merge(f, l), {}, {}) \o next(common_merge(f, l))

EndInReturn(lines) == IF Last(lines) = <<"return">> THEN lines ELSE Append(lines, <<"return">>)

\* A kernel's first block must end in a plain branch.
lower_function(f) ==
  IF Len(f.blocks[1].to) # 1 THEN Rejected
  ELSE EndInReturn(f.blocks[1].code \o emit_block(f, f.blocks[1].to[1], {}))

lower_shared_helper(f) == emit_block(f, 1, {})

llvm_to_ir(kernel, helper) ==
  lower_function([scope |-> "kernel", blocks |-> Clang(kernel)])
    \o IF helper = << >> THEN << >>
       ELSE lower_shared_helper([scope |-> "helper", blocks |-> Clang(helper)])

-----------------------------------------------------------------------------
(***************************************************************************)
(* ir_to_isa and isa_to_bin.                                               *)
(***************************************************************************)
Instruction(op, off, name) == [op |-> op, off |-> off, name |-> name]

\* The operations of the instructions of a line.
ir_to_isa(line) ==
  CASE line[1] = "label"        -> << >>
    [] line[1] = "pred_begin"   -> <<"pushm", IF line[2] = "cond" THEN "pred" ELSE "predn">>
    [] line[1] = "pred_end"     -> <<"popm">>
    [] line[1] = "branch_nzero" -> <<"bnz">>
    [] line[1] = "call_return"  -> <<"ret">>
    [] line[1] = "return"       -> <<"exit">>
    [] OTHER                    -> <<line[1]>>

\* The address of line i, and of a label: the last one counts.
Address(lines, i) == Len(FlattenSeq([j \in 1..(i - 1) |-> ir_to_isa(lines[j])]))
LabelAt(lines, scope, l) ==
  Address(lines, Max({i \in DOMAIN lines : lines[i] = <<"label", scope, l>>}))

branch_offset(lines, i) ==
  LET from == Address(lines, i) + 1
  IN CASE lines[i][1] = "branch_nzero" -> LabelAt(lines, lines[i][2], lines[i][3]) - from
       [] lines[i][1] = "call"         -> LabelAt(lines, "helper", 1) - from
       [] OTHER                        -> 0

Assemble(lines) ==
  FlattenSeq([i \in DOMAIN lines |->
    [k \in DOMAIN ir_to_isa(lines[i]) |->
      Instruction(ir_to_isa(lines[i])[k], branch_offset(lines, i),
                  IF lines[i][1] = "mark" THEN lines[i][2] ELSE "none")]])

minigpucc(kernel, helper) == Assemble(llvm_to_ir(kernel, helper))
=============================================================================
