---------------------------- MODULE TorchReference ----------------------------
(***************************************************************************)
(* What each operator of the PyTorch backend promises, stated over index   *)
(* tuples and never over flat positions: the shape of every tensor it      *)
(* returns and, element by element, the term it holds.  A gradient is      *)
(* stated from the products of the forward operator: the gradient of an    *)
(* operand is the sum, over the products it takes part in, of the output's *)
(* gradient times the other operand.                                       *)
(*                                                                         *)
(* A call is [op, in, arg]: the operator, its tensors (named in1, in2, in3)*)
(* and its other arguments.                                                *)
(***************************************************************************)
EXTENDS Kernels, Sequences

Indices(shape) ==
  LET sizes == UNION {Upto(shape[d]) : d \in DOMAIN shape}
  IN {ix \in [DOMAIN shape -> sizes] : \A d \in DOMAIN shape : ix[d] < shape[d]}

\* Row-major order.
Position(ix, shape) ==
  LET before[d \in 0..Len(shape)] == IF d = 0 THEN 0 ELSE before[d - 1] * shape[d] + ix[d]
  IN before[Len(shape)]

\* A tensor of this shape that holds value[ix] at index ix.
ResultOf(shape, value) ==
  LET at == [ix \in Indices(shape) |-> Position(ix, shape)]
  IN [shape |-> shape,
      flat  |-> [q \in {at[ix] : ix \in DOMAIN at} |->
                   value[CHOOSE ix \in DOMAIN at : at[ix] = q]]]
Result(shape, Value(_)) == ResultOf(shape, [ix \in Indices(shape) |-> Value(ix)])

\* Element i of tensor k before the call.  Class indices are numbers.
InputAt(c, k, i) ==
  IF "labels" \in DOMAIN c.arg /\ c.in[k].dtype = "i32"
  THEN <<"int", c.arg.labels[i + 1]>>
  ELSE <<"in", c.in[k].name, i>>

ShapeOf(c, k) == c.in[k].shape
X(c, k, ix)   == InputAt(c, k, Position(ix, ShapeOf(c, k)))
AllOf(c, k)   == Indices(ShapeOf(c, k))
CountOf(c, k) == Cardinality(AllOf(c, k))

-----------------------------------------------------------------------------
\* The products that are summed into output element o of a bilinear operator:
\* pairs of an index of its first operand and one of its second.
Products(c, sa, sb, o) ==
  CASE c.op \in {"mm", "addmm"} -> {<< <<o[1], k>>, <<k, o[2]>> >> : k \in Upto(sb[1])}
    [] c.op = "mv"  -> {<< <<o[1], k>>, <<k>> >> : k \in Upto(sb[1])}
    [] c.op = "dot" -> {<< <<k>>, <<k>> >> : k \in Upto(sb[1])}
    [] c.op \in {"linear", "linear_backward", "linear_grad"} ->
         {<<Append(SubSeq(o, 1, Len(o) - 1), k), <<o[Len(o)], k>> >> : k \in Upto(sb[2])}
    [] c.op \in {"convolution", "convolution_grad"} ->
         {<< <<o[1], r[1]>> \o [d \in DOMAIN c.arg.stride |-> o[d + 2] * c.arg.stride[d] + r[2][d]],
             <<o[2], r[1]>> \o r[2] >> :
            r \in Upto(sb[2]) \X Indices(SubSeq(sb, 3, Len(sb)))}

\* The product sum of tensors a and b at o.
Bilinear(c, a, b, o) ==
  SumOf(Products(c, ShapeOf(c, a), ShapeOf(c, b), o),
        LAMBDA p : Times(X(c, a, p[1]), X(c, b, p[2])))

WithBias(c, channel, v) == IF Len(c.in) = 3 THEN Plus(X(c, 3, <<channel>>), v) ELSE v

\* Gradients of input (in1) and weight (in3) from the output's (in2).
Contributions(c) ==
  UNION {{<<o, p>> : p \in Products(c, ShapeOf(c, 1), ShapeOf(c, 3), o)} : o \in AllOf(c, 2)}
Gradients(c, channel) ==
  [grad_input |-> Result(ShapeOf(c, 1), LAMBDA ix :
     SumOf({q \in Contributions(c) : q[2][1] = ix}, LAMBDA q : Times(X(c, 2, q[1]), X(c, 3, q[2][2])))),
   grad_weight |-> Result(ShapeOf(c, 3), LAMBDA ix :
     SumOf({q \in Contributions(c) : q[2][2] = ix}, LAMBDA q : Times(X(c, 2, q[1]), X(c, 1, q[2][1])))),
   grad_bias |-> Result(<<ShapeOf(c, 3)[1]>>, LAMBDA ix :
     SumOf({o \in AllOf(c, 2) : o[channel] = ix[1]}, LAMBDA o : X(c, 2, o)))]

Only(names, results) == [n \in {m \in DOMAIN results : m \in names} |-> results[n]]
GradNames(mask) ==
  {<<"grad_input", "grad_weight", "grad_bias">>[i] : i \in {j \in 1..3 : mask[j]}}

-----------------------------------------------------------------------------
OverAll(c, Value) ==
  LET keep == "keepdim" \in DOMAIN c.arg /\ c.arg.keepdim
  IN [out |-> Result(IF keep THEN [d \in DOMAIN ShapeOf(c, 1) |-> 1] ELSE <<>>, LAMBDA ix : Value)]

Flattened(c, k) == Result(ShapeOf(c, k), LAMBDA ix : X(c, k, ix)).flat

\* The indices of ix's row, and the window of a 2 x 2 pool at ix.
RowOf(c, k, ix) == {jx \in AllOf(c, k) : SubSeq(jx, 1, Len(jx) - 1) = SubSeq(ix, 1, Len(ix) - 1)}
Window(ix, stride) ==
  {<<ix[1], ix[2], ix[3] * stride[1] + k[1], ix[4] * stride[2] + k[2]>> : k \in (0..1) \X (0..1)}
PoolShape(s, stride) ==
  <<s[1], s[2], (s[3] - 2) \div stride[1] + 1, (s[4] - 2) \div stride[2] + 1>>
\* A single number stands for both directions.
StrideOf(arg) ==
  LET s == IF arg.stride = <<>> THEN arg.kernel ELSE arg.stride
  IN <<s[1], s[Len(s)]>>
Pooled(c, shape, stride, Pick(_)) ==
  [out |-> Result(shape, LAMBDA ix : Pick({w \in Window(ix, stride) : TRUE}))]

\* The sizes asked for, and for -1 the one that keeps the number of elements.
ViewShape(c) ==
  LET size  == c.arg.size
      sizes == ({size[d] : d \in DOMAIN size} \ {-1}) \cup 0..CountOf(c, 1)
  IN CHOOSE shape \in [DOMAIN size -> sizes] :
       /\ \A d \in DOMAIN size : size[d] # -1 => shape[d] = size[d]
       /\ Cardinality(Indices(shape)) = CountOf(c, 1)

\* The pieces of a cross entropy over the rows of logits (tensor k): the
\* greatest logit, the sum of the exponentials and the logit of the class.
Greatest(c, k, row) == MostOf(Upto(ShapeOf(c, k)[2]), LAMBDA j : X(c, k, <<row, j>>))
Exponential(c, k, row, j) == Apply("exp", Minus(X(c, k, <<row, j>>), Greatest(c, k, row)))
ExponentialSum(c, k, row) ==
  SumOf(Upto(ShapeOf(c, k)[2]), LAMBDA j : Exponential(c, k, row, j))
ClassLogit(c, row) == X(c, 1, <<row, c.arg.labels[row + 1]>>)
RowLoss(c, row) ==
  Minus(Plus(Apply("log", ExponentialSum(c, 1, row)), Greatest(c, 1, row)), ClassLogit(c, row))

\* The gradient of a loss with respect to its input: g is in1, input in2,
\* target in3.
LossGradient(c, ix) ==
  LET g    == InputAt(c, 1, 0)
      diff == Minus(X(c, 2, ix), X(c, 3, ix))
      n    == CountOf(c, 2)
  IN CASE c.arg.loss = "mse" -> Times(Times(g, <<"2/", n>>), diff)
       [] c.arg.loss = "l1"  -> Times(Times(g, <<"1/", n>>), Apply("sign", diff))
       [] c.arg.loss = "l2"  -> Times(g, diff)
       [] OTHER ->
            LET prob == Times(Exponential(c, 2, ix[1], ix[2]),
                              Apply("rcp", ExponentialSum(c, 2, ix[1])))
            IN Times(Times(g, <<"1/", ShapeOf(c, 2)[1]>>),
                     IF c.arg.labels[ix[1] + 1] = ix[2] THEN Minus(prob, Scalar("1")) ELSE prob)

-----------------------------------------------------------------------------
Converted(c, to, k, ix) ==
  IF c.in[k].dtype = to THEN X(c, k, ix) ELSE <<"as", to, X(c, k, ix)>>

Added(c, ix) ==
  IF c.arg.alpha = "1" THEN Plus(X(c, 1, ix), X(c, 2, ix))
  ELSE Plus(X(c, 1, ix), Times(Scalar(c.arg.alpha), X(c, 2, ix)))

\* What the operators that change their first argument make of it.
InPlace == {"add_", "copy_", "fill_"}
Changed(c) ==
  CASE c.op = "add_"  -> Result(ShapeOf(c, 1), LAMBDA ix : Added(c, ix))
    [] c.op = "copy_" -> Result(ShapeOf(c, 1), LAMBDA ix : Converted(c, c.in[1].dtype, 2, ix))
    [] c.op = "fill_" -> Result(ShapeOf(c, 1), LAMBDA ix : Scalar("value"))

\* The tensors a call that returns has made or changed.
Reference(c) ==
  LET a(ix) == X(c, 1, ix)
      b(ix) == X(c, 2, ix)
      one   == Scalar("1")
      out(Value(_)) == [out |-> Result(ShapeOf(c, 1), Value)]
      sum_of_all == SumOf(AllOf(c, 1), a)
      bilinear(x, y, shape) == [out |-> Result(shape, LAMBDA o : Bilinear(c, x, y, o))]
      diff(ix) == Minus(a(ix), b(ix))
      squares  == SumOf(AllOf(c, 1), LAMBDA ix : Times(diff(ix), diff(ix)))
      inverse_n == <<"1/", CountOf(c, 1)>>
  IN
  CASE c.op \in InPlace -> [in1 |-> Changed(c)]
    [] c.op \in {"relu", "exp", "sigmoid", "tanh", "log", "log2", "log10", "sqrt",
                 "sin", "cos", "tan", "pow_scalar"} -> out(LAMBDA ix : Apply(c.op, a(ix)))
    [] c.op = "reciprocal" -> out(LAMBDA ix : Apply("rcp", a(ix)))
    [] c.op = "pow"  -> out(LAMBDA ix : <<"pow", a(ix), b(ix)>>)
    [] c.op = "add"  -> out(LAMBDA ix : Added(c, ix))
    [] c.op \in {"mul"} -> out(LAMBDA ix : Times(a(ix), b(ix)))
    [] c.op = "div"  -> out(LAMBDA ix : Times(a(ix), Apply("rcp", b(ix))))
    [] c.op = "scal" -> out(LAMBDA ix : Times(Scalar(c.arg.alpha), a(ix)))
    [] c.op = "axpy" -> out(LAMBDA ix : Plus(Times(Scalar(c.arg.alpha), a(ix)), b(ix)))
    [] c.op = "mm"   -> bilinear(1, 2, <<ShapeOf(c, 1)[1], ShapeOf(c, 2)[2]>>)
    [] c.op = "mv"   -> bilinear(1, 2, <<ShapeOf(c, 1)[1]>>)
    [] c.op = "dot"  -> bilinear(1, 2, <<>>)
    [] c.op = "addmm" -> out(LAMBDA o :
         Plus(Times(Scalar(c.arg.beta), a(o)), Times(Scalar(c.arg.alpha), Bilinear(c, 2, 3, o))))
    [] c.op = "linear" ->
         LET shape == SubSeq(ShapeOf(c, 1), 1, Len(ShapeOf(c, 1)) - 1) \o <<ShapeOf(c, 2)[1]>>
         IN [out |-> Result(shape, LAMBDA o : WithBias(c, o[Len(o)], Bilinear(c, 1, 2, o)))]
    [] c.op = "convolution" ->
         LET shape == <<ShapeOf(c, 1)[1], ShapeOf(c, 2)[1]>>
                        \o [d \in DOMAIN c.arg.stride |->
                              (ShapeOf(c, 1)[d + 2] - ShapeOf(c, 2)[d + 2]) \div c.arg.stride[d] + 1]
         IN [out |-> Result(shape, LAMBDA o : WithBias(c, o[2], Bilinear(c, 1, 2, o)))]
    [] c.op = "linear_backward" -> Only(GradNames(c.arg.mask), Gradients(c, Len(ShapeOf(c, 2))))
    [] c.op = "linear_grad" ->
         Only(GradNames(c.arg.needs) \ (IF c.arg.bias THEN {} ELSE {"grad_bias"}),
              Gradients(c, Len(ShapeOf(c, 2))))
    [] c.op = "convolution_grad" ->
         Only(GradNames(c.arg.needs) \ (IF c.arg.bias THEN {} ELSE {"grad_bias"}), Gradients(c, 2))
    [] c.op = "sum"  -> OverAll(c, sum_of_all)
    [] c.op = "mean" -> OverAll(c, Times(sum_of_all, inverse_n))
    [] c.op = "amax" -> OverAll(c, MostOf(AllOf(c, 1), a))
    [] c.op = "amin" -> OverAll(c, LeastOf(AllOf(c, 1), a))
    [] c.op \in {"argmax", "argmin"} -> OverAll(c, <<c.op, Flattened(c, 1)>>)
    [] c.op = "softmax" -> out(LAMBDA ix :
         Times(Apply("exp", a(ix)),
               Apply("rcp", SumOf(RowOf(c, 1, ix), LAMBDA jx : Apply("exp", a(jx))))))
    [] c.op = "softmax_backward" -> out(LAMBDA ix :
         Times(b(ix), Minus(a(ix), SumOf(RowOf(c, 1, ix), LAMBDA jx : Times(a(jx), b(jx))))))
    [] c.op = "max_pool2d" ->
         Pooled(c, PoolShape(ShapeOf(c, 1), StrideOf(c.arg)), StrideOf(c.arg),
                LAMBDA w : MostOf(w, a))
    [] c.op = "avg_pool2d" ->
         Pooled(c, PoolShape(ShapeOf(c, 1), StrideOf(c.arg)), StrideOf(c.arg),
                LAMBDA w : Times(SumOf(w, a), Scalar("1/4")))
    [] c.op = "adaptive_avg_pool2d" ->
         Pooled(c, SubSeq(ShapeOf(c, 1), 1, 2) \o c.arg.size, <<2, 2>>,
                LAMBDA w : Times(SumOf(w, a), Scalar("1/4")))
    [] c.op = "mse_loss" -> [out |-> Result(<<>>, LAMBDA ix : Times(squares, inverse_n))]
    [] c.op = "l1_loss"  -> [out |-> Result(<<>>, LAMBDA ix :
         Times(SumOf(AllOf(c, 1), LAMBDA jx : Apply("abs", diff(jx))), inverse_n))]
    [] c.op = "l2_loss"  -> [out |-> Result(<<>>, LAMBDA ix : Times(Scalar("1/2"), squares))]
    [] c.op = "cross_entropy" -> [out |-> Result(<<>>, LAMBDA ix :
         Times(SumOf(Upto(ShapeOf(c, 1)[1]), LAMBDA row : RowLoss(c, row)),
               <<"1/", ShapeOf(c, 1)[1]>>))]
    [] c.op = "cross_entropy_debug" -> [out |-> Result(<<ShapeOf(c, 1)[1], 5>>, LAMBDA ix :
         <<Greatest(c, 1, ix[1]), ExponentialSum(c, 1, ix[1]),
           Apply("log", ExponentialSum(c, 1, ix[1])), ClassLogit(c, ix[1]),
           RowLoss(c, ix[1])>>[ix[2] + 1])]
    [] c.op = "loss_grad" ->
         Only({<<"grad", "grad_target">>[i] : i \in {j \in 1..2 : c.arg.needs[j]}}
                \ (IF c.arg.loss = "cross_entropy" THEN {"grad_target"} ELSE {}),
           [grad |-> Result(ShapeOf(c, 2), LAMBDA ix : LossGradient(c, ix)),
            grad_target |-> Result(ShapeOf(c, 2), LAMBDA ix :
              Times(Scalar("-1"), LossGradient(c, ix)))])
    [] c.op = "threshold_backward" -> out(LAMBDA ix :
         <<"where_above", b(ix), Scalar(c.arg.threshold), a(ix)>>)
    [] c.op = "sigmoid_backward" -> out(LAMBDA ix :
         Times(Times(a(ix), b(ix)), Minus(one, b(ix))))
    [] c.op = "tanh_backward" -> out(LAMBDA ix :
         Times(a(ix), Minus(one, Times(b(ix), b(ix)))))
    [] c.op = "to_copy" -> out(LAMBDA ix : Converted(c, c.arg.dtype, 1, ix))
    [] c.op = "view" -> [in1 |-> Result(ViewShape(c), LAMBDA ix :
         InputAt(c, 1, Position(ix, ViewShape(c))))]
=============================================================================
