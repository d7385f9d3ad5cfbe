-------------------------- MODULE MCCoreScheduler --------------------------
(***************************************************************************)
(* CoreScheduler with two blocks of two warps of two lanes, running what   *)
(* the compiler makes of kernels with loops, branches, early returns,      *)
(* barriers and helpers (Lowering).  A kernel's says lists what a thread   *)
(* marks whose register holds 0, 1 or 2 at launch.  Those of MCFaulty are  *)
(* programs no lowering gives: the core stops with an error.               *)
(***************************************************************************)
EXTENDS CoreScheduler, Lowering

Kernel(code, says) == [code |-> code, says |-> says]

A == <<"mark", "a">>
B == <<"mark", "b">>
C == <<"mark", "c">>
Dec == <<"dec">>
Load == <<"load">>
Barrier == <<"bar">>
Return == <<"return">>
Continue == <<"continue">>
CallHelper(helper) == <<"call", helper>>
If(then)           == <<"if", then>>
Ite(then, else)    == <<"ifelse", then, else>>
While(body)        == <<"while", body>>

Compiled(body, helper) ==
  Kernel(minigpucc(body, helper), [n \in 1..3 |-> Meaning(body, n - 1)])

\* Divergence, and warps that come to the barriers at different times.
Branches == <<While(<<A, Dec, Barrier>>), Load, Ite(<<B, If(<<A>>)>>, <<C>>), Barrier, A>>

\* Masks within masks; a lane that skips the rest of a round.
Rounds == <<While(<<Dec, If(<<A, If(<<B>>), Continue>>), C>>), B>>

\* A loop some lanes do not come to, with a barrier after it.
InnerLoop == <<While(<<Dec>>), Load, If(<<A, While(<<B, Dec>>)>>), Barrier, C>>

\* Lanes that return early; the others go on, to a barrier and a loop.
EarlyReturn == <<While(<<A, Dec>>), Load, Dec, If(<<B, If(<<C>>), Return>>), Load,
                 Barrier, While(<<A, Dec>>), C>>

\* One arm returns, the other goes on.
OneArm == <<While(<<Dec>>), Load, Dec, Ite(<<A, Return>>, <<B>>), Barrier, C>>

\* A helper that loops and one that returns early, called under masks.
Looping  == <<While(<<A, Dec>>), B>>
Leaving  == <<If(<<Return>>), A>>
InHelper == <<While(<<Dec, CallHelper(Leaving)>>), Load, If(<<CallHelper(Leaving), B>>), C>>
Calls    == <<While(<<Dec>>), Load, If(<<CallHelper(Looping), C>>), Barrier, A>>

MCCompiled ==
  {Compiled(p[1], p[2]) : p \in {<<Branches, << >> >>, <<Rounds, << >> >>, <<InnerLoop, << >> >>,
                                 <<EarlyReturn, << >> >>, <<OneArm, << >> >>,
                                 <<InHelper, Leaving>>, <<Calls, Looping>>}}

\* A return two branches deep, which ends the lanes it does not reach too.
NestedReturn == Kernel(minigpucc(<<While(<<Dec>>), Load, If(<<Dec, If(<<Return>>), A>>), Barrier, B>>, << >>),
                       << >>)

\* A warp with a zero leaves before the barrier the other waits at.
Leaves == Kernel(<<Jump("bz", 2), I("bar"), I("bar"), I("exit")>>, << >>)

MCFaulty == {Kernel(<<I("nop"), I("div"), I("exit")>>, << >>),
             Kernel(<<I("pushm"), I("bad")>>, << >>),
             Kernel(<<I("pushm"), Jump("bra", -2)>>, << >>),
             Kernel(<<Jump("call", -1)>>, << >>),
             Kernel(<<I("ret")>>, << >>),
             Kernel(<<I("popm")>>, << >>)}

\* TLC evaluates this once, and MCKernels whenever it looks for a kernel.
Programs == MCCompiled \cup {NestedReturn, Leaves} \cup MCFaulty

MCKernels == Programs

MCMasks == {{1}, {0, 1}}

\* The first warp holds any values (which of its lanes holds which does not
\* matter), the second one all zeros or none.
MCInputs == {[w \in Warps |-> CASE w = 0 -> f [] w = 1 -> g [] OTHER -> [lane \in Lanes |-> 1]] :
               f \in {h \in [Lanes -> 0..2] : h[0] <= h[1]},
               g \in {[lane \in Lanes |-> 0], [lane \in Lanes |-> 2 - lane]}}
=============================================================================
