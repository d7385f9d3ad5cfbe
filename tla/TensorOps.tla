------------------------------ MODULE TensorOps ------------------------------
(***************************************************************************)
(* The operators of the PyTorch backend (torch_ext/src/ops/math.cpp,       *)
(* elementwise.cpp, the copies of tensor.cpp) and the launch helpers of    *)
(* the runtime they call (runtime/src/minigpu_kernels.cpp).  An operator   *)
(* is what it decides before it touches the device: whether it refuses its *)
(* arguments, which tensors it allocates, which kernels it launches in     *)
(* which order on which pointers, and what it copies last.  OpCalls runs   *)
(* such a plan.                                                            *)
(***************************************************************************)
EXTENDS Kernels, Sequences

\* A tensor: sizes from 1 here, from 0 in the code.
Tensor(name, device, contiguous, dtype, shape) ==
  [name |-> name, device |-> device, contiguous |-> contiguous, dtype |-> dtype, shape |-> shape]
Empty(name, shape, dtype) == Tensor(name, "minigpu", TRUE, dtype, shape)
EmptyLike(name, t)        == Empty(name, t.shape, t.dtype)

\* The product of the sizes.
NumelOf(shape) ==
  LET product[d \in 0..Len(shape)] == IF d = 0 THEN 1 ELSE product[d - 1] * shape[d]
  IN product[Len(shape)]

Dim(t)   == Len(t.shape)
Size(t, i) == t.shape[i]
Numel(t) == NumelOf(t.shape)
Last(t)  == t.shape[Len(t.shape)]
Elements(t) == Upto(Numel(t))

\* C++ division truncates towards zero.
TruncDiv(x, y) == IF x >= 0 THEN x \div y ELSE -((-x) \div y)

\* What an operator does: throw before anything happened, divide by zero, or
\* allocate the fresh tensors, launch the kernels, copy one tensor and return
\* a view.
Refused == [kind |-> "refused"]
Crashes == [kind |-> "crashed"]
Plan(fresh, launches) ==
  [kind |-> "launching", fresh |-> fresh, launches |-> launches, copy |-> <<>>, view |-> <<>>]
Check(ok, plan) == IF ok THEN plan ELSE Refused

\* launch_kernel(name, args): the pointers in order, the last one is written.
Launch(ok, op, dtype, tensors, num) ==
  [ok |-> ok, kernel |-> <<op, dtype>>, pointers |-> tensors, num |-> num]

-----------------------------------------------------------------------------
require_minigpu_contiguous(t) == t.device = "minigpu" /\ t.contiguous
require_fp32_minigpu_contiguous(t) == require_minigpu_contiguous(t) /\ t.dtype = "fp32"
supported_kernel_dtype(t) == t.dtype \in {"i32", "fp32"}
kernel_dtype(t) == t.dtype \in {"i32", "fp32", "i16", "i8", "fp16", "fp8_e4m3fn"}

SameShape(t, u) == t.shape = u.shape
SameDtype(t, u) == t.dtype = u.dtype
All(values, expected) == \A i \in DOMAIN values : values[i] = expected

scalar_or_keepdim_shape(t, keepdim) == IF keepdim THEN [i \in 1..Dim(t) |-> 1] ELSE <<>>
Wrap(dim, rank) == IF dim < 0 THEN dim + rank ELSE dim
dims_cover_all(dims, rank) ==
  \/ dims = <<>>
  \/ /\ Len(dims) = rank
     /\ {Wrap(dims[i], rank) : i \in DOMAIN dims} = Upto(rank)

pair_u32(values) == Len(values) <= 2 /\ \A i \in DOMAIN values : values[i] >= 0
pair_u32_or(values, fallback) ==
  CASE Len(values) = 0 -> fallback
    [] Len(values) = 1 -> <<values[1], values[1]>>
    [] OTHER           -> values

-----------------------------------------------------------------------------
SameElements(ts) == \A i \in DOMAIN ts : Numel(ts[i]) = Numel(ts[1])
SameDtypes(ts)   == \A i \in DOMAIN ts : ts[i].dtype = ts[1].dtype

launch_elementwise_binary(op, a, b, out) ==
  Launch(SameDtypes(<<a, b, out>>) /\ SameElements(<<a, b, out>>),
         op, a.dtype, <<a, b, out>>, [n |-> Numel(a)])
launch_elementwise_unary(op, a, out) ==
  Launch(SameDtypes(<<a, out>>) /\ SameElements(<<a, out>>), op, a.dtype, <<a, out>>, [n |-> Numel(a)])
launch_matmul(a, b, out, m, n, k) ==
  Launch(SameDtypes(<<a, b, out>>), "matmul", a.dtype, <<a, b, out>>, [m |-> m, n |-> n, k |-> k])
launch_gemv(a, x, out, m, n) ==
  Launch(SameDtypes(<<a, x, out>>), "gemv", a.dtype, <<a, x, out>>, [m |-> m, n |-> n])
launch_dot(a, b, out, n) ==
  Launch(SameDtypes(<<a, b, out>>), "dot", a.dtype, <<a, b, out>>, [n |-> n])
launch_scal(x, out, alpha) ==
  Launch(SameDtypes(<<x, out>>) /\ x.dtype = "fp32" /\ SameElements(<<x, out>>),
         "scal", "fp32", <<x, out>>, [alpha |-> Scalar(alpha), n |-> Numel(x)])
launch_axpy(x, y, out, alpha) ==
  Launch(SameDtypes(<<x, y, out>>) /\ x.dtype = "fp32" /\ SameElements(<<x, y, out>>),
         "axpy", "fp32", <<x, y, out>>, [alpha |-> Scalar(alpha), n |-> Numel(x)])
launch_addmm(self, a, b, out, beta, alpha, m, n, k) ==
  Launch(SameDtypes(<<self, a, b, out>>) /\ self.dtype = "fp32",
         "addmm", "fp32", <<self, a, b, out>>,
         [beta |-> Scalar(beta), alpha |-> Scalar(alpha), m |-> m, n |-> n, k |-> k])
launch_linear(input, weight, out, n, out_f, in_f) ==
  Launch(SameDtypes(<<input, weight, out>>), "linear", input.dtype, <<input, weight, out>>,
         [n |-> n, out_f |-> out_f, in_f |-> in_f])
launch_linear_bias(input, weight, bias, out, n, out_f, in_f) ==
  Launch(SameDtypes(<<input, weight, bias, out>>), "linear_bias", input.dtype,
         <<input, weight, bias, out>>, [n |-> n, out_f |-> out_f, in_f |-> in_f])
launch_conv1d(input, weight, out, p) ==
  Launch(SameDtypes(<<input, weight, out>>), "conv1d", input.dtype, <<input, weight, out>>, p)
launch_conv1d_bias(input, weight, bias, out, p) ==
  Launch(SameDtypes(<<input, weight, bias, out>>), "conv1d_bias", input.dtype,
         <<input, weight, bias, out>>, p)
launch_conv2d(input, weight, out, p) ==
  Launch(SameDtypes(<<input, weight, out>>), "conv2d", input.dtype, <<input, weight, out>>, p)
launch_conv2d_bias(input, weight, bias, out, p) ==
  Launch(SameDtypes(<<input, weight, bias, out>>), "conv2d_bias", input.dtype,
         <<input, weight, bias, out>>, p)

\* A launch the operators make without a helper: no check of its own.
LaunchFp32(op, tensors, num) == Launch(TRUE, op, "fp32", tensors, num)

-----------------------------------------------------------------------------
run_binary_kernel(op, a, b) ==
  LET out == EmptyLike("out", a)
  IN Check(/\ require_minigpu_contiguous(a) /\ require_minigpu_contiguous(b)
           /\ SameShape(a, b) /\ SameDtype(a, b) /\ kernel_dtype(a),
           Plan(<<out>>, <<launch_elementwise_binary(op, a, b, out)>>))

run_unary_kernel(op, a) ==
  LET out == EmptyLike("out", a)
  IN Check(require_minigpu_contiguous(a) /\ kernel_dtype(a),
           Plan(<<out>>, <<launch_elementwise_unary(op, a, out)>>))

run_fp32_unary_kernel(op, a) ==
  Check(require_fp32_minigpu_contiguous(a), run_unary_kernel(op, a))

scal_(x, alpha) ==
  LET out == EmptyLike("out", x)
  IN Check(require_fp32_minigpu_contiguous(x), Plan(<<out>>, <<launch_scal(x, out, alpha)>>))

axpy_(x, y, alpha) ==
  LET out == EmptyLike("out", x)
  IN Check(/\ require_minigpu_contiguous(x) /\ require_minigpu_contiguous(y)
           /\ SameShape(x, y) /\ SameDtype(x, y) /\ x.dtype = "fp32",
           Plan(<<out>>, <<launch_axpy(x, y, out, alpha)>>))

\* alpha # 1 is axpy, which takes fp32 only.
add_tensor(a, b, alpha) ==
  Check(/\ require_minigpu_contiguous(a) /\ require_minigpu_contiguous(b)
        /\ SameShape(a, b) /\ SameDtype(a, b),
        IF alpha = "1" THEN run_binary_kernel("vector_add", a, b) ELSE axpy_(b, a, alpha))

\* Mutant: the kernel stores into its first argument.
add_tensor_inplace(a, b, alpha) ==
  LET sum_plan == add_tensor(a, b, alpha)
      OnSelf(l) == [l EXCEPT !.pointers[Len(l.pointers)] = a]
  IN Check(sum_plan # Refused,
           [sum_plan EXCEPT !.launches = <<OnSelf(@[1])>>, !.copy = <<a, a>>])

\* Computes into a fresh tensor, then copies that over self.
add_tensor_(a, b, alpha) ==
  LET sum_plan == add_tensor(a, b, alpha)
  IN Check(sum_plan # Refused, [sum_plan EXCEPT !.copy = <<sum_plan.fresh[1], a>>])

mul_tensor(a, b) == run_binary_kernel("mul", a, b)

div_tensor(a, b) ==
  LET out == EmptyLike("out", a)
  IN Check(/\ require_minigpu_contiguous(a) /\ require_minigpu_contiguous(b)
           /\ SameShape(a, b) /\ a.dtype = "fp32" /\ b.dtype = "fp32",
           Plan(<<out>>, <<launch_elementwise_binary("div", a, b, out)>>))

\* Mutant: any data type of an elementwise kernel is let through.
mm_any_dtype(a, b) ==
  LET out == Empty("out", <<Size(a, 1), Size(b, 2)>>, a.dtype)
  IN Check(/\ require_minigpu_contiguous(a) /\ require_minigpu_contiguous(b)
           /\ Dim(a) = 2 /\ Dim(b) = 2 /\ Size(a, 2) = Size(b, 1)
           /\ SameDtype(a, b) /\ kernel_dtype(a),
           Plan(<<out>>, <<launch_matmul(a, b, out, Size(a, 1), Size(b, 2), Size(a, 2))>>))

mm(a, b) ==
  LET out == Empty("out", <<Size(a, 1), Size(b, 2)>>, a.dtype)
  IN Check(/\ require_minigpu_contiguous(a) /\ require_minigpu_contiguous(b)
           /\ Dim(a) = 2 /\ Dim(b) = 2 /\ Size(a, 2) = Size(b, 1)
           /\ SameDtype(a, b) /\ a.dtype \in {"i32", "fp32"},
           Plan(<<out>>, <<launch_matmul(a, b, out, Size(a, 1), Size(b, 2), Size(a, 2))>>))

mv(a, x) ==
  LET out == Empty("out", <<Size(a, 1)>>, a.dtype)
  IN Check(/\ require_minigpu_contiguous(a) /\ require_minigpu_contiguous(x)
           /\ Dim(a) = 2 /\ Dim(x) = 1 /\ Size(a, 2) = Size(x, 1)
           /\ SameDtype(a, x) /\ supported_kernel_dtype(a),
           Plan(<<out>>, <<launch_gemv(a, x, out, Size(a, 1), Size(a, 2))>>))

dot_op(a, b) ==
  LET out == Empty("out", <<>>, a.dtype)
  IN Check(/\ require_minigpu_contiguous(a) /\ require_minigpu_contiguous(b)
           /\ Dim(a) = 1 /\ Dim(b) = 1 /\ Size(a, 1) = Size(b, 1)
           /\ SameDtype(a, b) /\ supported_kernel_dtype(a),
           Plan(<<out>>, <<launch_dot(a, b, out, Size(a, 1))>>))

addmm_op(self, mat1, mat2, beta, alpha) ==
  LET out == EmptyLike("out", self)
  IN Check(/\ \A t \in {self, mat1, mat2} : require_minigpu_contiguous(t) /\ Dim(t) = 2
           /\ Size(mat1, 2) = Size(mat2, 1)
           /\ self.shape = <<Size(mat1, 1), Size(mat2, 2)>>
           /\ SameDtypes(<<self, mat1, mat2>>) /\ self.dtype = "fp32",
           Plan(<<out>>, <<launch_addmm(self, mat1, mat2, out, beta, alpha,
                                        Size(mat1, 1), Size(mat2, 2), Size(mat1, 2))>>))

BiasFits(bias, weight, input) ==
  \A i \in DOMAIN bias : /\ require_minigpu_contiguous(bias[i])
                         /\ bias[i].shape = <<Size(weight, 1)>> /\ SameDtype(bias[i], input)

\* A 1D input is viewed as one row, and its result as one row's columns.
linear_op(input, weight, bias) ==
  LET rows  == IF Dim(input) = 1 THEN 1 ELSE Size(input, 1)
      out   == Empty("out", IF Dim(input) = 1 THEN <<Size(weight, 1)>> ELSE <<rows, Size(weight, 1)>>,
                     input.dtype)
      total == rows * Size(weight, 1)
  IN Check(/\ require_minigpu_contiguous(input) /\ require_minigpu_contiguous(weight)
           /\ Dim(input) \in {1, 2} /\ Dim(weight) = 2
           /\ SameDtype(input, weight) /\ Last(input) = Size(weight, 2)
           /\ supported_kernel_dtype(input) /\ BiasFits(bias, weight, input),
           Plan(<<out>>,
                IF bias = <<>>
                THEN <<launch_linear(input, weight, out, total, Size(weight, 1), Size(weight, 2))>>
                ELSE <<launch_linear_bias(input, weight, bias[1], out, total,
                                          Size(weight, 1), Size(weight, 2))>>))

-----------------------------------------------------------------------------
ConvOut(in, kernel, stride) == TruncDiv(in - kernel, stride) + 1

\* The arguments every convolution and its backward accept.
ConvArgs(arg, rank) ==
  /\ ~arg.transposed /\ arg.groups = 1 /\ All(arg.dilation, 1) /\ All(arg.output_padding, 0)
  /\ \A v \in {arg.stride, arg.padding, arg.dilation, arg.output_padding} : Len(v) = rank - 2
  /\ All(arg.padding, 0) /\ \A i \in DOMAIN arg.stride : arg.stride[i] > 0

\* The numbers of a launch for batches, channels and sizes of these tensors.
ConvShape1(n, input, weight, ow, stride) ==
  [n |-> n, b |-> Size(input, 1), ic |-> Size(input, 2), oc |-> Size(weight, 1),
   iw |-> Size(input, 3), ow |-> ow, kw |-> Size(weight, 3), sw |-> stride[1]]
ConvShape2(n, input, weight, oh, ow, stride) ==
  [n |-> n, b |-> Size(input, 1), ic |-> Size(input, 2), oc |-> Size(weight, 1),
   ih |-> Size(input, 3), iw |-> Size(input, 4), oh |-> oh, ow |-> ow,
   kh |-> Size(weight, 3), kw |-> Size(weight, 4), sh |-> stride[1], sw |-> stride[2]]

convolution(input, weight, bias, arg) ==
  LET outs == [i \in 1..(Dim(input) - 2) |->
                 ConvOut(Size(input, i + 2), Size(weight, i + 2), arg.stride[i])]
      out  == Empty("out", <<Size(input, 1), Size(weight, 1)>> \o outs, input.dtype)
      p1   == ConvShape1(Numel(out), input, weight, outs[1], arg.stride)
      p2   == ConvShape2(Numel(out), input, weight, outs[1], outs[2], arg.stride)
  IN Check(/\ require_minigpu_contiguous(input) /\ require_minigpu_contiguous(weight)
           /\ SameDtype(input, weight) /\ Dim(input) \in {3, 4} /\ Dim(weight) = Dim(input)
           /\ Size(input, 2) = Size(weight, 2) /\ supported_kernel_dtype(input)
           /\ BiasFits(bias, weight, input) /\ ConvArgs(arg, Dim(input))
           /\ \A i \in DOMAIN outs : outs[i] >= 0,
           Plan(<<out>>,
                CASE Dim(input) = 3 /\ bias = <<>> -> <<launch_conv1d(input, weight, out, p1)>>
                  [] Dim(input) = 3 /\ bias # <<>> -> <<launch_conv1d_bias(input, weight, bias[1], out, p1)>>
                  [] Dim(input) = 4 /\ bias = <<>> -> <<launch_conv2d(input, weight, out, p2)>>
                  [] OTHER -> <<launch_conv2d_bias(input, weight, bias[1], out, p2)>>))

\* Only the gradients the mask asks for are allocated and launched.
Masked(mask, s) ==
  LET Wanted(i) == IF mask[i] THEN <<s[i]>> ELSE <<>>
  IN Wanted(1) \o Wanted(2) \o Wanted(3)
GradPlan(mask, fresh, launches) == Plan(Masked(mask, fresh), Masked(mask, launches))

\* The spatial size of grad_output is taken as it is.
convolution_backward(input, g, weight, arg, mask) ==
  LET gi == EmptyLike("grad_input", input)
      gw == EmptyLike("grad_weight", weight)
      gb == Empty("grad_bias", <<Size(weight, 1)>>, "fp32")
      p1(n) == ConvShape1(n, input, weight, Size(g, 3), arg.stride)
      p2(n) == ConvShape2(n, input, weight, Size(g, 3), Size(g, 4), arg.stride)
  IN Check(/\ \A t \in {input, g, weight} : require_fp32_minigpu_contiguous(t)
           /\ Dim(input) \in {3, 4} /\ Dim(weight) = Dim(input) /\ Dim(g) = Dim(input)
           /\ Size(weight, 2) = Size(input, 2)
           /\ Size(g, 1) = Size(input, 1) /\ Size(g, 2) = Size(weight, 1)
           /\ ConvArgs(arg, Dim(input)),
           GradPlan(mask, <<gi, gw, gb>>,
             IF Dim(input) = 3
             THEN <<LaunchFp32("conv1d_backward_input", <<g, weight, gi>>, p1(Numel(input))),
                    LaunchFp32("conv1d_backward_weight", <<input, g, gw>>, p1(Numel(weight))),
                    LaunchFp32("conv1d_backward_bias", <<g, gb>>, p1(0))>>
             ELSE <<LaunchFp32("conv2d_backward_input", <<g, weight, gi>>, p2(Numel(input))),
                    LaunchFp32("conv2d_backward_weight", <<input, g, gw>>, p2(Numel(weight))),
                    LaunchFp32("conv2d_backward_bias", <<g, gb>>, p2(0))>>))

linear_backward(self, g, weight, mask) ==
  LET batch == IF Dim(self) = 1 THEN 1 ELSE Size(self, 1)
      in_f  == Last(self)
      out_f == Size(weight, 1)
      gi == EmptyLike("grad_input", self)
      gw == EmptyLike("grad_weight", weight)
      gb == Empty("grad_bias", <<out_f>>, "fp32")
      num == [batch |-> batch, out_f |-> out_f, in_f |-> in_f]
  IN Check(/\ \A t \in {self, g, weight} : require_fp32_minigpu_contiguous(t)
           /\ Dim(weight) = 2 /\ Dim(self) \in {1, 2} /\ Size(weight, 2) = in_f
           /\ g.shape = (IF Dim(self) = 1 THEN <<out_f>> ELSE <<batch, out_f>>),
           GradPlan(mask, <<gi, gw, gb>>,
             <<LaunchFp32("linear_backward_input", <<g, weight, gi>>, num),
               LaunchFp32("linear_backward_weight", <<self, g, gw>>, num),
               LaunchFp32("linear_backward_bias", <<g, gb>>, num)>>))

\* The backward of the autograd functions: a bias gradient only with a bias.
autograd_mask(needs, has_bias) == <<needs[1], needs[2], has_bias /\ needs[3]>>

-----------------------------------------------------------------------------
run_global_reduction_kernel(op, a, keepdim) ==
  LET out == Empty("out", scalar_or_keepdim_shape(a, keepdim), a.dtype)
  IN Check(require_fp32_minigpu_contiguous(a) /\ Numel(a) > 0,
           Plan(<<out>>, <<LaunchFp32(op, <<a, out>>, [n |-> Numel(a)])>>))

OneOver(n) == <<"1/", n>>
TwoOver(n) == <<"2/", n>>

run_mean_kernel(a, keepdim) ==
  LET out == Empty("out", scalar_or_keepdim_shape(a, keepdim), a.dtype)
  IN Check(require_fp32_minigpu_contiguous(a) /\ Numel(a) > 0,
           Plan(<<out>>, <<LaunchFp32("mean", <<a, out>>,
                                      [n |-> Numel(a), inv_n |-> OneOver(Numel(a))])>>))

sum_dim(a, dims, keepdim) ==
  Check(dims_cover_all(dims, Dim(a)), run_global_reduction_kernel("sum", a, keepdim))
mean_dim(a, dims, keepdim) ==
  Check(dims_cover_all(dims, Dim(a)), run_mean_kernel(a, keepdim))
amax_op(a, dims, keepdim) ==
  Check(dims_cover_all(dims, Dim(a)), run_global_reduction_kernel("amax", a, keepdim))
amin_op(a, dims, keepdim) ==
  Check(dims_cover_all(dims, Dim(a)), run_global_reduction_kernel("amin", a, keepdim))

\* Over all dimensions only; an empty input is not refused here.
argmax_op(op, a, dim, keepdim) ==
  LET out == Empty("out", scalar_or_keepdim_shape(a, keepdim), "i32")
  IN Check(dim = <<>> /\ require_fp32_minigpu_contiguous(a),
           Plan(<<out>>, <<LaunchFp32(op, <<a, out>>, [n |-> Numel(a)])>>))

softmax_impl(a, dim) ==
  LET out  == EmptyLike("out", a)
      cols == Last(a)
      num  == [rows |-> Numel(a) \div cols, cols |-> cols]
  IN IF ~(require_fp32_minigpu_contiguous(a) /\ Dim(a) > 0 /\ Wrap(dim, Dim(a)) = Dim(a) - 1)
     THEN Refused
     ELSE IF cols = 0 THEN Crashes
     ELSE Plan(<<out>>, <<LaunchFp32("softmax", <<a, out>>, num)>>)

softmax_backward_data(g, output, dim) ==
  LET out  == EmptyLike("out", output)
      cols == Last(output)
      num  == [rows |-> Numel(output) \div cols, cols |-> cols]
  IN IF ~(/\ require_fp32_minigpu_contiguous(g) /\ require_fp32_minigpu_contiguous(output)
          /\ SameShape(g, output) /\ Dim(output) > 0 /\ Wrap(dim, Dim(output)) = Dim(output) - 1)
     THEN Refused
     ELSE IF cols = 0 THEN Crashes
     ELSE Plan(<<out>>, <<LaunchFp32("softmax_backward", <<g, output, out>>, num)>>)

\* A 2 x 2 window: the checks and the launch that max_pool2d and avg_pool2d
\* share once their other arguments are accepted.
Pool2d(op, a, stride) ==
  LET oh  == ConvOut(Size(a, 3), 2, stride[1])
      ow  == ConvOut(Size(a, 4), 2, stride[2])
      out == Empty("out", <<Size(a, 1), Size(a, 2), oh, ow>>, a.dtype)
      num == [n |-> Numel(out), c |-> Size(a, 2), ih |-> Size(a, 3), iw |-> Size(a, 4),
              oh |-> oh, ow |-> ow, sh |-> stride[1], sw |-> stride[2]]
  IN IF stride[1] = 0 \/ stride[2] = 0 THEN Crashes
     ELSE Check(oh >= 0 /\ ow >= 0, Plan(<<out>>, <<LaunchFp32(op, <<a, out>>, num)>>))

max_pool2d_op(a, arg) ==
  LET kernel == pair_u32_or(arg.kernel, <<0, 0>>)
  IN Check(/\ require_fp32_minigpu_contiguous(a) /\ Dim(a) = 4
           /\ \A v \in {arg.kernel, arg.stride, arg.padding, arg.dilation} : pair_u32(v)
           /\ pair_u32_or(arg.padding, <<0, 0>>) = <<0, 0>>
           /\ pair_u32_or(arg.dilation, <<1, 1>>) = <<1, 1>>
           /\ ~arg.ceil_mode /\ kernel = <<2, 2>>,
           Pool2d("max_pool2d", a, pair_u32_or(arg.stride, kernel)))

avg_pool2d_op(a, arg) ==
  LET kernel == pair_u32_or(arg.kernel, <<0, 0>>)
  IN Check(/\ require_fp32_minigpu_contiguous(a) /\ Dim(a) = 4
           /\ \A v \in {arg.kernel, arg.stride, arg.padding} : pair_u32(v)
           /\ pair_u32_or(arg.padding, <<0, 0>>) = <<0, 0>>
           /\ ~arg.ceil_mode /\ arg.count_include_pad /\ arg.divisor_override = <<>>
           /\ kernel = <<2, 2>>,
           Pool2d("avg_pool2d", a, pair_u32_or(arg.stride, kernel)))

adaptive_avg_pool2d_op(a, size) ==
  LET out == Empty("out", <<Size(a, 1), Size(a, 2), size[1], size[2]>>, a.dtype)
      num == [n |-> Numel(out), c |-> Size(a, 2), ih |-> Size(a, 3), iw |-> Size(a, 4),
              oh |-> size[1], ow |-> size[2]]
  IN Check(/\ require_fp32_minigpu_contiguous(a) /\ Dim(a) = 4 /\ Len(size) = 2
           /\ size[1] >= 0 /\ size[2] >= 0
           /\ Size(a, 3) = 2 * size[1] /\ Size(a, 4) = 2 * size[2],
           Plan(<<out>>, <<LaunchFp32("adaptive_avg_pool2d", <<a, out>>, num)>>))

-----------------------------------------------------------------------------
LossArgs(input, target) ==
  /\ require_fp32_minigpu_contiguous(input) /\ require_fp32_minigpu_contiguous(target)
  /\ SameShape(input, target)

mse_loss_op(input, target) ==
  LET out == Empty("out", <<>>, "fp32")
  IN Check(LossArgs(input, target) /\ Numel(input) > 0,
           Plan(<<out>>, <<LaunchFp32("mse_loss", <<input, target, out>>,
                                      [n |-> Numel(input), inv_n |-> OneOver(Numel(input))])>>))
l1_loss_op(input, target) ==
  LET out == Empty("out", <<>>, "fp32")
  IN Check(LossArgs(input, target) /\ Numel(input) > 0,
           Plan(<<out>>, <<LaunchFp32("l1_loss", <<input, target, out>>,
                                      [n |-> Numel(input), inv_n |-> OneOver(Numel(input))])>>))
l2_loss_op(input, target) ==
  LET out == Empty("out", <<>>, "fp32")
  IN Check(LossArgs(input, target) /\ Numel(input) > 0,
           Plan(<<out>>, <<LaunchFp32("l2_loss", <<input, target, out>>, [n |-> Numel(input)])>>))

mse_loss_backward_op(g, input, target) ==
  LET out == EmptyLike("grad", input)
  IN Check(LossArgs(input, target) /\ require_fp32_minigpu_contiguous(g) /\ Numel(g) = 1,
           Plan(<<out>>, <<LaunchFp32("mse_loss_backward", <<g, input, target, out>>,
                                      [n |-> Numel(input), scale |-> TwoOver(Numel(input))])>>))
l1_loss_backward_op(g, input, target) ==
  LET out == EmptyLike("grad", input)
  IN Check(LossArgs(input, target) /\ require_fp32_minigpu_contiguous(g) /\ Numel(g) = 1,
           Plan(<<out>>, <<LaunchFp32("l1_loss_backward", <<g, input, target, out>>,
                                      [n |-> Numel(input), scale |-> OneOver(Numel(input))])>>))
l2_loss_backward_op(g, input, target) ==
  LET out == EmptyLike("grad", input)
  IN Check(LossArgs(input, target) /\ require_fp32_minigpu_contiguous(g) /\ Numel(g) = 1,
           Plan(<<out>>, <<LaunchFp32("l2_loss_backward", <<g, input, target, out>>,
                                      [n |-> Numel(input)])>>))

\* Class indices are int32; their range is not checked.
ClassArgs(logits, target) ==
  /\ require_fp32_minigpu_contiguous(logits) /\ require_minigpu_contiguous(target)
  /\ target.dtype = "i32" /\ Dim(logits) = 2 /\ target.shape = <<Size(logits, 1)>>

CrossEntropyStats(logits, target, stats) ==
  LaunchFp32("cross_entropy_stats", <<logits, target, stats>>,
             [rows |-> Size(logits, 1), cols |-> Size(logits, 2)])

cross_entropy_loss(logits, target) ==
  LET rows  == Size(logits, 1)
      stats == Empty("stats", <<rows, 3>>, "fp32")
      out   == Empty("out", <<>>, "fp32")
  IN Check(ClassArgs(logits, target) /\ rows > 0 /\ Size(logits, 2) > 0,
           Plan(<<stats, out>>,
                <<CrossEntropyStats(logits, target, stats),
                  LaunchFp32("cross_entropy_finish", <<stats, out>>,
                             [rows |-> rows, inv_rows |-> OneOver(rows)])>>))
cross_entropy_debug_op(logits, target) ==
  LET rows  == Size(logits, 1)
      stats == Empty("stats", <<rows, 3>>, "fp32")
      out   == Empty("out", <<rows, 5>>, "fp32")
  IN Check(ClassArgs(logits, target) /\ rows > 0 /\ Size(logits, 2) > 0,
           Plan(<<stats, out>>,
                <<CrossEntropyStats(logits, target, stats),
                  LaunchFp32("cross_entropy_debug_finish", <<stats, out>>, [rows |-> rows])>>))
cross_entropy_loss_backward(g, logits, target) ==
  LET out == EmptyLike("grad", logits)
      num == [rows |-> Size(logits, 1), cols |-> Size(logits, 2),
              inv_rows |-> OneOver(Size(logits, 1))]
  IN Check(ClassArgs(logits, target) /\ require_fp32_minigpu_contiguous(g) /\ Numel(g) = 1,
           Plan(<<out>>, <<LaunchFp32("cross_entropy_backward", <<g, logits, target, out>>, num)>>))

run_loss_backward(loss, g, input, target) ==
  CASE loss = "mse" -> mse_loss_backward_op(g, input, target)
    [] loss = "l1"  -> l1_loss_backward_op(g, input, target)
    [] loss = "l2"  -> l2_loss_backward_op(g, input, target)
    [] OTHER        -> cross_entropy_loss_backward(g, input, target)

\* MiniGpuLossAutograd::backward: the gradient of the target is minus that of
\* the input, which is computed whenever either is asked for.
loss_autograd_backward(loss, g, input, target, needs) ==
  LET base == run_loss_backward(loss, g, input, target)
      neg  == EmptyLike("grad_target", input)
  IN IF needs[2] /\ loss # "cross_entropy" /\ base # Refused
     THEN [base EXCEPT !.fresh = Append(@, neg),
                       !.launches = Append(@, launch_scal(base.fresh[1], neg, "-1"))]
     ELSE IF needs[1] \/ needs[2] THEN base ELSE Plan(<<>>, <<>>)

threshold_backward(g, self, threshold) ==
  LET out == EmptyLike("out", self)
  IN Check(LossArgs(g, self),
           Plan(<<out>>, <<LaunchFp32("relu_backward", <<g, self, out>>,
                                      [threshold |-> Scalar(threshold), n |-> Numel(self)])>>))
sigmoid_backward_op(g, output) ==
  LET out == EmptyLike("out", output)
  IN Check(LossArgs(g, output),
           Plan(<<out>>, <<LaunchFp32("sigmoid_backward", <<g, output, out>>, [n |-> Numel(output)])>>))
tanh_backward_op(g, output) ==
  LET out == EmptyLike("out", output)
  IN Check(LossArgs(g, output),
           Plan(<<out>>, <<LaunchFp32("tanh_backward", <<g, output, out>>, [n |-> Numel(output)])>>))

-----------------------------------------------------------------------------
\* Read to the host, computed there, written to a fresh tensor: pow, sin, cos
\* and tan.  The kernel is the host's own.
OnHost(f, inputs) ==
  LET out == EmptyLike("out", inputs[1])
  IN Plan(<<out>>, <<Launch(TRUE, f, "host", Append(inputs, out), [n |-> Numel(out)])>>)
pow_tensor_tensor(a, b) ==
  Check(/\ require_minigpu_contiguous(a) /\ require_minigpu_contiguous(b)
        /\ SameShape(a, b) /\ a.dtype = "fp32" /\ b.dtype = "fp32", OnHost("pow", <<a, b>>))
pow_tensor_scalar(a) == Check(require_minigpu_contiguous(a), OnHost("pow_scalar", <<a>>))
sin_cos_tan(f, a) == Check(require_minigpu_contiguous(a), OnHost(f, <<a>>))

\* Through a host buffer, where the data type is converted.
Convert(from, to, x) == IF from = to THEN x ELSE <<"as", to, x>>

copy_(self, src) ==
  LET device == {t \in {self, src} : t.device = "minigpu"}
  IN Check(/\ device # {} /\ SameShape(self, src)
           /\ Numel(self) = 0 \/ \A t \in device : t.contiguous,
           [Plan(<<>>, <<>>) EXCEPT !.copy = IF Numel(self) = 0 THEN <<>> ELSE <<src, self>>])
\* The value is in a host tensor first.
fill_scalar_(self) ==
  LET value == Tensor("value", "cpu", TRUE, self.dtype, self.shape)
  IN Check(require_minigpu_contiguous(self),
           [Plan(<<value>>, <<>>) EXCEPT !.copy = IF Numel(self) = 0 THEN <<>> ELSE <<value, self>>])
to_copy(self, dtype, device) ==
  LET out == Tensor("out", device, TRUE, dtype, self.shape)
  IN Check("minigpu" \in {self.device, device} /\ copy_(out, self) # Refused,
           [Plan(<<out>>, <<>>) EXCEPT !.copy = copy_(out, self).copy])

\* From the last dimension to the first.
contiguous_strides(shape) ==
  LET next_stride[d \in 0..Len(shape)] ==
        IF d = 0 THEN 1 ELSE next_stride[d - 1] * shape[Len(shape) - d + 1]
  IN [d \in DOMAIN shape |-> next_stride[Len(shape) - d]]

\* At most one size is -1 and stands for what is left.
known_product(size) == NumelOf([i \in DOMAIN size |-> IF size[i] = -1 THEN 1 ELSE size[i]])
infer_view_size(self, size) ==
  [i \in DOMAIN size |-> IF size[i] = -1 THEN Numel(self) \div known_product(size) ELSE size[i]]
ViewFits(self, size) ==
  LET inferred == {i \in DOMAIN size : size[i] = -1}
  IN /\ Cardinality(inferred) <= 1 /\ \A i \in DOMAIN size : size[i] >= -1
     /\ IF inferred = {} THEN known_product(size) = Numel(self)
        ELSE known_product(size) # 0 /\ Numel(self) % known_product(size) = 0

view(self, size) ==
  LET shape == infer_view_size(self, size)
  IN Check(self.contiguous /\ ViewFits(self, size),
           [Plan(<<>>, <<>>) EXCEPT !.view =
              <<[name |-> self.name, shape |-> shape, strides |-> contiguous_strides(shape)]>>])
=============================================================================
