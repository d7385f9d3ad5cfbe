-------------------------------- MODULE OpCalls --------------------------------
(***************************************************************************)
(* Calls of the PyTorch backend's operators, one after the other, as they  *)
(* run: the host thread of the process decides (TensorOps), launches one   *)
(* kernel after the other and waits for each; the threads of the kernel    *)
(* run its loop at their own pace and store element by element (Kernels,   *)
(* StridedLoop); an in-place operator then copies its result over its      *)
(* argument.  Every step of the host may fail: the link is HostLink's      *)
(* subject, the allocator DeviceMemory's, and to the operator both are an  *)
(* exception.  A kernel whose wait timed out runs on.                      *)
(***************************************************************************)
EXTENDS TensorOps, TorchReference, StridedLoop

CONSTANT CallList \* the calls, a sequence of [op, in, arg]

\* The operators, by the tensors they take.
OneTensor ==
  {"relu", "exp", "sigmoid", "tanh", "log", "log2", "log10", "sqrt", "reciprocal", "pow_scalar",
   "sin", "cos", "tan", "sum", "mean", "amax", "amin", "argmax", "argmin", "softmax",
   "max_pool2d", "avg_pool2d", "adaptive_avg_pool2d", "fill_", "to_copy", "view", "scal"}
TwoTensors ==
  {"add", "add_", "mul", "div", "mm", "mv", "dot", "pow", "softmax_backward", "threshold_backward",
   "sigmoid_backward", "tanh_backward", "copy_", "axpy", "mse_loss", "l1_loss", "l2_loss",
   "cross_entropy", "cross_entropy_debug"}
ThreeTensors == {"addmm", "linear_backward", "linear_grad", "convolution_grad", "loss_grad"}
BiasOrNot    == {"linear", "convolution"}

\* The tensors a call hands over or makes.  PyTorch has other data types.
InputName == <<"in1", "in2", "in3">>
NewNames  == {"out", "value", "stats", "grad", "grad_target", "grad_input", "grad_weight", "grad_bias"}
Devices   == {"cpu", "minigpu"}
SixTypes  == {"i32", "i16", "i8", "fp32", "fp16", "fp8_e4m3fn"}
Dtypes    == SixTypes \cup {"other"}
Tensors ==
  [name : {"in1", "in2", "in3"} \cup NewNames, device : Devices, contiguous : BOOLEAN,
   dtype : Dtypes, shape : Seq(Nat)]

\* PyTorch hands an operator tensors and lists of integers of the signature it
\* is registered with.  It may hand over one tensor several times; tensors that
\* merely overlap, as views do, are left out.
WellFormed(c) ==
  /\ c.op \in OneTensor \cup TwoTensors \cup ThreeTensors \cup BiasOrNot
  /\ c.in \in Seq(Tensors)
  /\ Len(c.in) \in IF c.op \in OneTensor THEN {1} ELSE IF c.op \in TwoTensors THEN {2}
                  ELSE IF c.op \in ThreeTensors THEN {3} ELSE {2, 3}
  /\ \A k \in DOMAIN c.in : c.in[k].name = InputName[k] \/ \E j \in 1..(k - 1) : c.in[k] = c.in[j]
  /\ c.op \in {"max_pool2d", "avg_pool2d"} => c.arg.kernel \in Seq(Int)
  /\ c.op \in {"max_pool2d", "avg_pool2d", "convolution", "convolution_grad"} => c.arg.stride \in Seq(Int)
  /\ c.op \in {"adaptive_avg_pool2d", "view"} => c.arg.size \in Seq(Int)
  /\ c.op \in {"sum", "mean", "amax", "amin", "argmax", "argmin"} =>
       "keepdim" \in DOMAIN c.arg /\ c.arg.keepdim \in BOOLEAN
  /\ c.op = "to_copy" => c.arg.dtype \in Dtypes /\ c.arg.device \in Devices
  /\ (c.op \in {"cross_entropy", "cross_entropy_debug"} \/ (c.op = "loss_grad" /\ c.arg.loss = "cross_entropy"))
       /\ c.in[Len(c.in)].dtype = "i32" =>
            "labels" \in DOMAIN c.arg /\ c.arg.labels \in Seq(Int) /\ Len(c.arg.labels) = Numel(c.in[Len(c.in)])
  /\ c.op = "loss_grad" => c.arg.loss \in {"mse", "l1", "l2", "cross_entropy"}

ASSUME CallsAssumption ==
  Len(CallList) \in Nat \ {0} /\ \A k \in 1..Len(CallList) : WellFormed(CallList[k])

VARIABLES
  call,   \* the index of the call that runs or ran last
  plan,   \* what its operator decided to do
  stage,  \* how far it is, or how it ended
  next,   \* the launch that is next or under way
  mem,    \* what every tensor of the call holds, by its name
  buffer, \* the host's copy of the tensor that is written back
  copied  \* elements of it that were written

vars == <<call, plan, stage, next, mem, buffer, copied, loopVars>>

Busy  == {"launching", "running", "copying"}
Ended == {"returned", "threw", "refused", "crashed"}

-----------------------------------------------------------------------------
BiasOf(c) == SubSeq(c.in, 3, Len(c.in))
ArgAt(c, name, default) == IF name \in DOMAIN c.arg THEN c.arg[name] ELSE default

\* The operators registered for aten.
aten_impl(c) ==
  LET a == c.in[1]
      b == c.in[2]
  IN CASE c.op = "add"  -> add_tensor(a, b, c.arg.alpha)
       [] c.op = "add_" -> add_tensor_(a, b, c.arg.alpha)
       [] c.op = "mul"  -> mul_tensor(a, b)
       [] c.op = "div"  -> div_tensor(a, b)
       [] c.op = "mm"   -> mm(a, b)
       [] c.op = "mv"   -> mv(a, b)
       [] c.op = "dot"  -> dot_op(a, b)
       [] c.op = "addmm" -> addmm_op(a, b, c.in[3], c.arg.beta, c.arg.alpha)
       [] c.op = "linear" -> linear_op(a, b, BiasOf(c))
       [] c.op = "convolution" -> convolution(a, b, BiasOf(c), c.arg)
       [] c.op = "relu" -> run_unary_kernel("relu", a)
       [] c.op \in {"exp", "sigmoid", "tanh", "log", "log2", "log10", "sqrt", "reciprocal"} ->
            run_fp32_unary_kernel(c.op, a)
       [] c.op = "pow" -> pow_tensor_tensor(a, b)
       [] c.op = "pow_scalar" -> pow_tensor_scalar(a)
       [] c.op \in {"sin", "cos", "tan"} -> sin_cos_tan(c.op, a)
       [] c.op = "sum"  -> sum_dim(a, c.arg.dims, c.arg.keepdim)
       [] c.op = "mean" -> mean_dim(a, c.arg.dims, c.arg.keepdim)
       [] c.op = "amax" -> amax_op(a, c.arg.dims, c.arg.keepdim)
       [] c.op = "amin" -> amin_op(a, c.arg.dims, c.arg.keepdim)
       [] c.op \in {"argmax", "argmin"} -> argmax_op(c.op, a, c.arg.dims, c.arg.keepdim)
       [] c.op = "softmax" -> softmax_impl(a, c.arg.dim)
       [] c.op = "softmax_backward" -> softmax_backward_data(a, b, c.arg.dim)
       [] c.op = "threshold_backward" -> threshold_backward(a, b, c.arg.threshold)
       [] c.op = "sigmoid_backward" -> sigmoid_backward_op(a, b)
       [] c.op = "tanh_backward" -> tanh_backward_op(a, b)
       [] c.op = "linear_backward" -> linear_backward(a, b, c.in[3], c.arg.mask)
       [] c.op = "max_pool2d" -> max_pool2d_op(a, c.arg)
       [] c.op = "avg_pool2d" -> avg_pool2d_op(a, c.arg)
       [] c.op = "adaptive_avg_pool2d" -> adaptive_avg_pool2d_op(a, c.arg.size)
       [] c.op = "copy_" -> copy_(a, b)
       [] c.op = "fill_" -> fill_scalar_(a)
       [] c.op = "to_copy" -> to_copy(a, c.arg.dtype, c.arg.device)
       [] c.op = "view" -> view(a, c.arg.size)

\* The backward functions that autograd records for linear and convolution.
autograd_backward(c) ==
  IF c.op = "linear_grad"
  THEN linear_backward(c.in[1], c.in[2], c.in[3], autograd_mask(c.arg.needs, c.arg.bias))
  ELSE convolution_backward(c.in[1], c.in[2], c.in[3], c.arg, autograd_mask(c.arg.needs, c.arg.bias))

\* The operators of the minigpu namespace that aten does not have.
minigpu_impl(c) ==
  LET a == c.in[1]
      b == c.in[2]
  IN CASE c.op = "scal" -> scal_(a, c.arg.alpha)
       [] c.op = "axpy" -> axpy_(a, b, c.arg.alpha)
       [] c.op = "mse_loss" -> mse_loss_op(a, b)
       [] c.op = "l1_loss"  -> l1_loss_op(a, b)
       [] c.op = "l2_loss"  -> l2_loss_op(a, b)
       [] c.op = "cross_entropy" -> cross_entropy_loss(a, b)
       [] c.op = "cross_entropy_debug" -> cross_entropy_debug_op(a, b)
       [] c.op = "loss_grad" -> loss_autograd_backward(c.arg.loss, a, b, c.in[3], c.arg.needs)

MiniGpuOps == {"scal", "axpy", "mse_loss", "l1_loss", "l2_loss", "cross_entropy",
               "cross_entropy_debug", "loss_grad"}

PlanOf(c) ==
  CASE c.op \in MiniGpuOps -> minigpu_impl(c)
    [] c.op \in {"linear_grad", "convolution_grad"} -> autograd_backward(c)
    [] OTHER -> aten_impl(c)

-----------------------------------------------------------------------------
\* The kernels that exist, by operation and data type.
Registered ==
  ({"relu", "mul", "vector_add"} \X SixTypes)
  \cup ({"dot", "gemv", "linear", "linear_bias", "matmul"} \X {"i32", "fp32"})
  \cup ({"exp", "sigmoid", "tanh", "log", "log2", "log10", "sqrt", "reciprocal", "div",
         "relu_backward", "sigmoid_backward", "tanh_backward", "scal", "axpy", "addmm",
         "linear_backward_input", "linear_backward_weight", "linear_backward_bias",
         "conv1d", "conv1d_bias", "conv2d", "conv2d_bias",
         "conv1d_backward_input", "conv1d_backward_weight", "conv1d_backward_bias",
         "conv2d_backward_input", "conv2d_backward_weight", "conv2d_backward_bias",
         "max_pool2d", "avg_pool2d", "adaptive_avg_pool2d", "softmax", "softmax_backward",
         "sum", "mean", "amax", "amin", "argmax", "argmin",
         "mse_loss", "l1_loss", "l2_loss",
         "mse_loss_backward", "l1_loss_backward", "l2_loss_backward",
         "cross_entropy_stats", "cross_entropy_finish", "cross_entropy_debug",
         "cross_entropy_debug_finish", "cross_entropy_backward"} \X {"fp32"})

\* The kernel that launch l starts, on the contents x of its pointers.
Kernel(l, x) ==
  LET op == l.kernel[1]
      p  == l.num
  IN CASE op \in {"relu", "exp", "sigmoid", "tanh"} -> activation(op, x[1], p.n)
       [] op \in {"log", "log2", "log10"} -> math(op, x[1], p.n)
       [] op = "sqrt" -> sqrt(x[1], p.n)
       [] op = "reciprocal" -> reciprocal(x[1], p.n)
       [] op = "vector_add" -> vector_add(x[1], x[2], p.n)
       [] op = "mul"  -> mul(x[1], x[2], p.n)
       [] op = "div"  -> div(x[1], x[2], p.n)
       [] op = "scal" -> scal(x[1], p.alpha, p.n)
       [] op = "axpy" -> axpy(x[1], x[2], p.alpha, p.n)
       [] op = "relu_backward" -> relu_backward(x[1], x[2], p.threshold, p.n)
       [] op = "sigmoid_backward" -> sigmoid_backward(x[1], x[2], p.n)
       [] op = "tanh_backward" -> tanh_backward(x[1], x[2], p.n)
       [] op = "dot"  -> dot(x[1], x[2], p.n)
       [] op = "gemv" -> gemv(x[1], x[2], p.m, p.n)
       [] op = "matmul" -> matmul(x[1], x[2], p.m, p.n, p.k)
       [] op = "addmm"  -> addmm(x[1], x[2], x[3], p.beta, p.alpha, p.m, p.n, p.k)
       [] op = "linear" -> linear(x[1], x[2], p.n, p.out_f, p.in_f)
       [] op = "linear_bias" -> linear_bias(x[1], x[2], x[3], p.n, p.out_f, p.in_f)
       [] op = "linear_backward_input" -> linear_backward_input(x[1], x[2], p.batch, p.out_f, p.in_f)
       [] op = "linear_backward_weight" -> linear_backward_weight(x[1], x[2], p.batch, p.out_f, p.in_f)
       [] op = "linear_backward_bias" -> linear_backward_bias(x[1], p.batch, p.out_f)
       [] op = "conv1d" -> conv1d(x[1], x[2], p.n, p)
       [] op = "conv1d_bias" -> conv1d_bias(x[1], x[2], x[3], p.n, p)
       [] op = "conv2d" -> conv2d(x[1], x[2], p.n, p)
       [] op = "conv2d_bias" -> conv2d_bias(x[1], x[2], x[3], p.n, p)
       [] op = "conv1d_backward_input" -> conv1d_backward_input(x[1], x[2], p.n, p)
       [] op = "conv1d_backward_weight" -> conv1d_backward_weight(x[1], x[2], p.n, p)
       [] op = "conv1d_backward_bias" -> conv1d_backward_bias(x[1], p)
       [] op = "conv2d_backward_input" -> conv2d_backward_input(x[1], x[2], p.n, p)
       [] op = "conv2d_backward_weight" -> conv2d_backward_weight(x[1], x[2], p.n, p)
       [] op = "conv2d_backward_bias" -> conv2d_backward_bias(x[1], p)
       [] op = "max_pool2d" -> max_pool2d(x[1], p.n, p)
       [] op = "avg_pool2d" -> avg_pool2d(x[1], p.n, p)
       [] op = "adaptive_avg_pool2d" -> adaptive_avg_pool2d(x[1], p.n, p)
       [] op = "sum"  -> sum(x[1], p.n)
       [] op = "mean" -> mean(x[1], p.n, p.inv_n)
       [] op = "amax" -> amax(x[1], p.n)
       [] op = "amin" -> amin(x[1], p.n)
       [] op = "argmax" -> argmax(x[1], p.n)
       [] op = "argmin" -> argmin(x[1], p.n)
       [] op = "softmax" -> softmax(x[1], p.rows, p.cols)
       [] op = "softmax_backward" -> softmax_backward(x[1], x[2], p.rows, p.cols)
       [] op = "mse_loss" -> mse_loss(x[1], x[2], p.n, p.inv_n)
       [] op = "l1_loss"  -> l1_loss(x[1], x[2], p.n, p.inv_n)
       [] op = "l2_loss"  -> l2_loss(x[1], x[2], p.n)
       [] op = "mse_loss_backward" -> mse_loss_backward(x[1], x[2], x[3], p.n, p.scale)
       [] op = "l1_loss_backward" -> l1_loss_backward(x[1], x[2], x[3], p.n, p.scale)
       [] op = "l2_loss_backward" -> l2_loss_backward(x[1], x[2], x[3], p.n)
       [] op = "cross_entropy_stats" -> cross_entropy_stats(x[1], x[2], p.rows, p.cols)
       [] op = "cross_entropy_finish" -> cross_entropy_finish(x[1], p.rows, p.inv_rows)
       [] op = "cross_entropy_debug_finish" -> cross_entropy_debug_finish(x[1], p.rows)
       [] op = "cross_entropy_backward" ->
            cross_entropy_backward(x[1], x[2], x[3], p.rows, p.cols, p.inv_rows)

\* What the host itself computes.
HostKernel(l, x) ==
  IF l.kernel[1] = "pow" THEN Map(l.num.n, LAMBDA i : <<"pow", At(x[1], i), At(x[2], i)>>)
  ELSE Map(l.num.n, LAMBDA i : Apply(l.kernel[1], At(x[1], i)))

-----------------------------------------------------------------------------
ThisLaunch   == plan.launches[next]
LaunchesLeft == next <= Len(plan.launches)
Target(l)    == l.pointers[Len(l.pointers)].name
Read(l)      == [k \in DOMAIN l.pointers |-> mem[l.pointers[k].name]]

Garbage == <<"garbage">>
Allocated(t) == [i \in Elements(t) |-> IF t.device = "cpu" THEN Scalar("value") ELSE Garbage]

Names(tensors)     == {tensors[i].name : i \in DOMAIN tensors}
Nth(tensors, name) == CHOOSE i \in DOMAIN tensors : tensors[i].name = name
Before(c, k)       == [i \in Elements(c.in[k]) |-> InputAt(c, k, i)]

\* The contents of the tensors when call c's launches begin.
Contents(c, fresh) ==
  [name \in Names(c.in) \cup Names(fresh) |->
     IF name \in Names(c.in) THEN Before(c, Nth(c.in, name))
     ELSE Allocated(fresh[Nth(fresh, name)])]

\* The program makes its next call, and starts over after the last.  A call
\* that meets a kernel which is still running is left to HostLink and
\* ProgramCache.
Call ==
  LET c == CallList[call']
  IN /\ stage \in Ended
     /\ call' = (call % Len(CallList)) + 1
     /\ plan' = PlanOf(c)
     /\ stage' = plan'.kind
     /\ mem' = IF stage' = "launching" THEN Contents(c, plan'.fresh) ELSE <<>>
     /\ next' = 1 /\ buffer' = <<>> /\ copied' = 0
     /\ Start(0, TRUE)

\* What the launch helper, device_address and the kernel table accept.
Launchable(l) ==
  /\ l.ok
  /\ \A t \in DOMAIN l.pointers : Numel(l.pointers[t]) > 0
  /\ l.kernel \in Registered

\* Mutant: the next launch does not wait for the kernel before it.
LaunchNext_nowait ==
  LET kernel == Kernel(ThisLaunch, Read(ThisLaunch))
  IN /\ stage \in {"launching", "running"} /\ LaunchesLeft /\ ThisLaunch.kernel[2] # "host"
     /\ IF Launchable(ThisLaunch)
        THEN /\ stage' = "running"
             /\ total' = kernel.total /\ shared' = kernel.shared /\ ran' = {}
             /\ pos' = [t \in Thread |-> IF kernel.shared THEN t ELSE 0]
        ELSE stage' = "threw" /\ UNCHANGED loopVars
     /\ UNCHANGED <<call, plan, next, mem, buffer, copied>>

LaunchNext ==
  LET kernel == Kernel(ThisLaunch, Read(ThisLaunch))
  IN /\ stage = "launching" /\ LaunchesLeft /\ ThisLaunch.kernel[2] # "host"
     /\ IF Launchable(ThisLaunch)
        THEN stage' = "running" /\ Start(kernel.total, kernel.shared)
        ELSE stage' = "threw" /\ UNCHANGED loopVars
     /\ UNCHANGED <<call, plan, next, mem, buffer, copied>>

\* pow, sin, cos and tan.
ComputeOnHost ==
  LET stores == HostKernel(ThisLaunch, Read(ThisLaunch)).stores
  IN /\ stage = "launching" /\ LaunchesLeft /\ ThisLaunch.kernel[2] = "host"
     /\ mem' = [mem EXCEPT ![Target(ThisLaunch)] = [i \in DOMAIN @ |-> stores[i][i]]]
     /\ next' = next + 1
     /\ UNCHANGED <<call, plan, stage, buffer, copied, loopVars>>

\* Contents x after the stores of one iteration.
Over(stored, x) ==
  [i \in DOMAIN x \cup DOMAIN stored |-> IF i \in DOMAIN stored THEN stored[i] ELSE x[i]]

\* Thread t runs one iteration and stores what it computed; also after the
\* host has given up on the kernel.
Runs(t) == stage \in {"running", "threw"} /\ Iterate(t)
ThreadStep(t) ==
  /\ Runs(t)
  /\ mem' = [mem EXCEPT ![Target(ThisLaunch)] =
               Over(Kernel(ThisLaunch, Read(ThisLaunch)).stores[pos[t]], @)]
  /\ UNCHANGED <<call, plan, stage, next, buffer, copied>>

\* Mutant: waits for every thread to stop exactly at the end of the loop.
KernelDone_exact ==
  /\ stage = "running" /\ \A t \in Thread : pos[t] = total
  /\ stage' = "launching" /\ next' = next + 1
  /\ UNCHANGED <<call, plan, mem, buffer, copied, loopVars>>

KernelDone ==
  /\ stage = "running" /\ Halted
  /\ stage' = "launching" /\ next' = next + 1
  /\ UNCHANGED <<call, plan, mem, buffer, copied, loopVars>>

\* copy_: the whole source is read before anything is written.
StartCopy ==
  LET src == plan.copy[1]
      dst == plan.copy[2]
  IN /\ stage = "launching" /\ ~LaunchesLeft /\ plan.copy # <<>>
     /\ stage' = "copying"
     /\ buffer' = [i \in DOMAIN mem[src.name] |-> Convert(src.dtype, dst.dtype, mem[src.name][i])]
     /\ UNCHANGED <<call, plan, next, mem, copied, loopVars>>

WriteElement ==
  /\ stage = "copying" /\ copied < Cardinality(DOMAIN buffer)
  /\ mem' = [mem EXCEPT ![plan.copy[2].name][copied] = buffer[copied]]
  /\ copied' = copied + 1
  /\ UNCHANGED <<call, plan, stage, next, buffer, loopVars>>

NothingLeft ==
  \/ stage = "launching" /\ ~LaunchesLeft /\ plan.copy = <<>>
  \/ stage = "copying" /\ copied = Cardinality(DOMAIN buffer)

Return ==
  /\ NothingLeft
  /\ stage' = "returned"
  /\ UNCHANGED <<call, plan, next, mem, buffer, copied, loopVars>>

\* An allocation, an upload, a launch, a wait or a copy fails.
Fail ==
  /\ stage \in Busy /\ ~NothingLeft
  /\ stage' = "threw"
  /\ UNCHANGED <<call, plan, next, mem, buffer, copied, loopVars>>

-----------------------------------------------------------------------------
Init ==
  /\ LoopInit
  /\ call = Len(CallList) /\ plan = Refused /\ stage = "refused" /\ next = 1
  /\ mem = <<>> /\ buffer = <<>> /\ copied = 0

HostStep == LaunchNext \/ ComputeOnHost \/ KernelDone \/ StartCopy \/ WriteElement \/ Return

Next ==
  \/ Call
  \/ LaunchNext
  \/ ComputeOnHost
  \/ \E t \in Thread : ThreadStep(t)
  \/ KernelDone
  \/ StartCopy
  \/ WriteElement
  \/ Return
  \/ Fail

Spec == Init /\ [][Next]_vars
             /\ WF_vars(HostStep) /\ \A t \in Thread : WF_loopVars(Runs(t))

-----------------------------------------------------------------------------
\* Accepted although a window does not fit into the input: the truncating
\* division of math.cpp:636 and 1007 makes the output one element wide, and
\* math.cpp:1526 takes the output's gradient to be as wide as it is.
Overhangs(c) ==
  \/ /\ c.op = "convolution"
     /\ \E d \in 3..Len(ShapeOf(c, 1)) : ShapeOf(c, 1)[d] < ShapeOf(c, 2)[d]
  \/ /\ c.op = "convolution_grad"
     /\ \E d \in 3..Len(ShapeOf(c, 1)) :
          (ShapeOf(c, 2)[d] - 1) * c.arg.stride[d - 2] + ShapeOf(c, 3)[d] > ShapeOf(c, 1)[d]
  \/ c.op \in {"max_pool2d", "avg_pool2d"} /\ \E d \in 3..4 : ShapeOf(c, 1)[d] < 2
ClassesInRange(c) ==
  "labels" \in DOMAIN c.arg =>
    \A i \in DOMAIN c.arg.labels :
      c.arg.labels[i] \in Upto(ShapeOf(c, IF c.op = "loss_grad" THEN 2 ELSE 1)[2])

Shapes ==
  LET made == plan.fresh \o plan.view
  IN [name \in Names(made) |-> made[Nth(made, name)].shape]

\* The view's strides lead every index to its element.
StridesFit(v) ==
  \A ix \in Indices(v.shape) :
    LET offset[d \in 0..Len(v.shape)] ==
          IF d = 0 THEN 0 ELSE offset[d - 1] + ix[d] * v.strides[d]
    IN offset[Len(v.shape)] = Position(ix, v.shape)

\* A call that returns has computed what its operator promises: every tensor
\* has the promised shape and every element is the promised combination of the
\* arguments' elements, whatever order the threads ran in (math.cpp 251-1725
\* and the kernels).  Not promised: windows that overhang the input and class
\* indices outside the rows, which the code accepts.
ResultMatches ==
  (stage = "returned" /\ mem # <<>>) =>
    LET c   == CallList[call]
        ref == Reference(c)
    IN (~Overhangs(c) /\ ClassesInRange(c)) =>
         \A name \in DOMAIN ref :
           /\ mem[name] = ref[name].flat
           /\ name \in DOMAIN Shapes => Shapes[name] = ref[name].shape
           /\ \A i \in DOMAIN plan.view : StridesFit(plan.view[i])

\* Kernels and copies write nothing but their output, and inside it.  An
\* argument keeps its contents however the call ends, except the one that the
\* operator changes in place: that one is its old self up to the write-back,
\* and from then on new in a prefix and old behind it, all new on return.
OnlyResultsChange ==
  stage \in Busy \cup {"returned", "threw"} /\ mem # <<>> =>
    LET c == CallList[call]
    IN /\ \A i \in DOMAIN plan.fresh : DOMAIN mem[plan.fresh[i].name] = Elements(plan.fresh[i])
       /\ \A k \in DOMAIN c.in :
            IF plan.copy # <<>> /\ plan.copy[2].name = c.in[k].name
            THEN mem[c.in[k].name] =
                   [i \in Elements(c.in[k]) |->
                      IF i < copied \/ stage = "returned"
                      THEN Changed(c).flat[i] ELSE Before(c, k)[i]]
            ELSE mem[c.in[k].name] = Before(c, k)

\* What an operator accepts, the launch helpers and the kernel table accept
\* too: a call is refused before the first launch or not at all.  Tensors
\* without elements, which have no address, are accepted and fail; so does a
\* convolution of integers, for which no kernel exists.
AcceptedIsLaunchable ==
  stage = "launching" /\ LaunchesLeft /\ ThisLaunch.kernel[2] # "host" =>
    \/ Launchable(ThisLaunch)
    \/ \E i \in DOMAIN ThisLaunch.pointers : Numel(ThisLaunch.pointers[i]) = 0
    \/ CallList[call].op = "convolution" /\ CallList[call].in[1].dtype = "i32"

\* Every call comes to an end.
CallEnds == stage \in Busy ~> stage \in Ended
=============================================================================
