----------------------------- MODULE StridedLoop -----------------------------
(***************************************************************************)
(* The loop of a device kernel (runtime/kernels/src/ *.cu): the threads of *)
(* one block share the iterations 0..total-1, thread t taking t,           *)
(* t + blockDim.x, t + 2 * blockDim.x and so on, each thread at its own    *)
(* pace.  The kernels that reduce to one value do not share: every thread  *)
(* runs the whole loop and stores the same result.                         *)
(***************************************************************************)
EXTENDS Integers

CONSTANTS BlockDim, \* threads of the block, LaunchConfig::block_dim
          Trips     \* the numbers of iterations a kernel may have

ASSUME StridedLoopAssumption == BlockDim \in Nat \ {0} /\ Trips \subseteq Nat

VARIABLES
  total,  \* iterations of the loop of the kernel that is running
  shared, \* are they shared between the threads?
  pos,    \* every thread's loop variable
  ran     \* the iterations that were run, with the thread that ran them

loopVars == <<total, shared, pos, ran>>

Thread == 0..(BlockDim - 1)

Halted == \A t \in Thread : pos[t] >= total

\* A kernel of n iterations starts; the previous one has ended.
Start(n, s) ==
  /\ Halted
  /\ total' = n /\ shared' = s
  /\ pos' = [t \in Thread |-> IF s THEN t ELSE 0]
  /\ ran' = {}

\* Mutant: the stride is one less than the number of threads.
Iterate_short(t) ==
  /\ pos[t] < total
  /\ pos' = [pos EXCEPT ![t] = @ + (IF shared /\ BlockDim > 1 THEN BlockDim - 1 ELSE 1)]
  /\ ran' = ran \cup {<<t, pos[t]>>}
  /\ UNCHANGED <<total, shared>>

\* Thread t runs one iteration.
Iterate(t) ==
  /\ pos[t] < total
  /\ pos' = [pos EXCEPT ![t] = @ + (IF shared THEN BlockDim ELSE 1)]
  /\ ran' = ran \cup {<<t, pos[t]>>}
  /\ UNCHANGED <<total, shared>>

LoopInit ==
  /\ total = 0 /\ shared = TRUE
  /\ pos = [t \in Thread |-> t]
  /\ ran = {}

LoopNext ==
  \/ \E n \in Trips, s \in BOOLEAN : Start(n, s)
  \/ \E t \in Thread : Iterate(t)

LoopSpec == LoopInit /\ [][LoopNext]_loopVars

-----------------------------------------------------------------------------
\* No iteration of a shared loop is run by two threads, and when all threads
\* have left the loop every iteration was run: the output has no gap and no
\* element is computed twice, whatever the size and the number of threads
\* (activation.cu:5 and the loop header of every other kernel).
EachIndexOnce ==
  /\ shared => \A p, q \in ran : p[2] = q[2] => p[1] = q[1]
  /\ Halted => \A i \in 0..(total - 1) : \E t \in Thread : <<t, i>> \in ran

\* A thread never runs an iteration again and its loop variable never goes
\* back within one kernel.
NeverRunTwice ==
  [][\A t \in Thread : Iterate(t) => <<t, pos[t]>> \notin ran]_loopVars
=============================================================================
