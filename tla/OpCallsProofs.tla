---------------------------- MODULE OpCallsProofs ----------------------------
(***************************************************************************)
(* The calls of the PyTorch operators, for any tensors, any number of      *)
(* threads and any pace of them: what an operator accepts can be launched; *)
(* every kernel runs each of its indices, and none twice; nothing changes  *)
(* but results.  First what the operators are built from (products of      *)
(* sizes, loops of kernels, plans of operators), an operator a lemma; then *)
(* the positions of a tensor; then the loop by itself; then the calls.     *)
(* Last what a call has stored when it returns: a launch that ended has    *)
(* stored what its kernel computes, so a plan whose launches, one after    *)
(* the other, compute what the reference asks for is enough (Sufficient);  *)
(* and, operator by operator, that the elementwise operators, the          *)
(* products, the reductions and the losses have such plans.                *)
(* OpResultsProofs goes on with the others.                                *)
(***************************************************************************)
EXTENDS OpCalls, NumbersAndBlocks, FiniteSetTheorems

-----------------------------------------------------------------------------

\* Induction, over a set of numbers.
LEMMA AllNumbers ==
  ASSUME NEW S \in SUBSET Nat, 0 \in S, \A n \in S : n + 1 \in S
  PROVE  \A n \in Nat : n \in S
<1> SUFFICES ASSUME Nat \ S # {} PROVE FALSE
  OBVIOUS
<1>1. PICK x \in Nat \ S : \A y \in Nat \ S : x <= y
  BY LeastNumber
<1>2. x - 1 \in Nat
  BY <1>1
<1>3. x - 1 \in S
  BY <1>1, <1>2
<1> QED
  BY <1>1, <1>3

\* p is the product of the sizes up to every dimension.
IsProduct(p, shape, n) == p = [d \in 0..n |-> IF d = 0 THEN 1 ELSE p[d - 1] * shape[d]]

\* Such a function exists.
LEMMA ProductExists ==
  ASSUME NEW shape \in Seq(Nat)
  PROVE  \E p : IsProduct(p, shape, Len(shape))
<1> DEFINE S == {n \in Nat : \E p : IsProduct(p, shape, n)}
<1>1. 0 \in S
  <2>1. IsProduct([d \in 0..0 |-> 1], shape, 0)
    BY DEF IsProduct
  <2> QED
    BY <2>1
<1>2. ASSUME NEW n \in S PROVE n + 1 \in S
  <2>1. PICK p : IsProduct(p, shape, n)
    OBVIOUS
  <2> DEFINE q == [d \in 0..(n + 1) |-> IF d = n + 1 THEN p[n] * shape[n + 1] ELSE p[d]]
  <2>2. IsProduct(q, shape, n + 1)
    BY <2>1 DEF IsProduct
  <2> HIDE DEF q
  <2> QED
    BY <2>2
<1>3. S \in SUBSET Nat
  OBVIOUS
<1>4. Len(shape) \in S
  <2> HIDE DEF S
  <2>1. \A n \in Nat : n \in S
    BY <1>1, <1>2, <1>3, AllNumbers
  <2> QED
    BY <2>1
<1> QED
  BY <1>4

\* The number of elements, from one dimension to the next.
LEMMA NumelSteps ==
  ASSUME NEW shape \in Seq(Nat)
  PROVE  \E p \in [0..Len(shape) -> Nat] :
            /\ p[0] = 1
            /\ \A d \in 1..Len(shape) : p[d] = p[d - 1] * shape[d]
            /\ NumelOf(shape) = p[Len(shape)]
<1> DEFINE p == CHOOSE p : IsProduct(p, shape, Len(shape))
<1>1. IsProduct(p, shape, Len(shape))
  BY ProductExists
<1>2. NumelOf(shape) = p[Len(shape)]
  BY DEF NumelOf, IsProduct
<1> HIDE DEF p
<1> DEFINE S == {d \in Nat : d <= Len(shape) => p[d] \in Nat}
<1>3. 0 \in S
  BY <1>1 DEF IsProduct
<1>4. ASSUME NEW d \in S PROVE d + 1 \in S
  <2>1. CASE d + 1 <= Len(shape)
    <3>1. p[d] \in Nat /\ shape[d + 1] \in Nat
      BY <2>1
    <3>2. p[d + 1] = p[d] * shape[d + 1]
      BY <1>1, <2>1 DEF IsProduct
    <3> QED
      BY <3>1, <3>2
  <2> QED
    BY <2>1
<1>5. \A d \in Nat : d \in S
  <2>1. S \in SUBSET Nat
    OBVIOUS
  <2> HIDE DEF S
  <2> QED
    BY <1>3, <1>4, <2>1, AllNumbers
<1>6. \A d \in 0..Len(shape) : p[d] \in Nat
  BY <1>5
<1>7. p \in [0..Len(shape) -> Nat]
  BY <1>1, <1>6 DEF IsProduct
<1>8. p[0] = 1 /\ \A d \in 1..Len(shape) : p[d] = p[d - 1] * shape[d]
  BY <1>1 DEF IsProduct
<1> QED
  BY <1>2, <1>7, <1>8

\* There are as many elements as some number.
LEMMA NumelIsNat == ASSUME NEW shape \in Seq(Nat) PROVE NumelOf(shape) \in Nat
  BY NumelSteps

\* A scalar has one, a vector its length, a matrix its rows times columns.
LEMMA NumelOfFew ==
  /\ NumelOf(<<>>) = 1
  /\ \A m \in Nat : NumelOf(<<m>>) = m
  /\ \A shape \in Seq(Nat) : Len(shape) = 2 => NumelOf(shape) = shape[1] * shape[2]
<1>1. NumelOf(<<>>) = 1
  <2>1. <<>> \in Seq(Nat) /\ Len(<<>>) = 0
    OBVIOUS
  <2> QED
    BY <2>1, NumelSteps
<1>2. ASSUME NEW m \in Nat PROVE NumelOf(<<m>>) = m
  <2>1. <<m>> \in Seq(Nat) /\ Len(<<m>>) = 1 /\ <<m>>[1] = m
    OBVIOUS
  <2>2. PICK p \in [0..1 -> Nat] :
            /\ p[0] = 1
            /\ \A d \in 1..1 : p[d] = p[d - 1] * <<m>>[d]
            /\ NumelOf(<<m>>) = p[1]
    BY <2>1, NumelSteps
  <2>3. p[1] = p[0] * m
    BY <2>1, <2>2
  <2> QED
    BY <2>2, <2>3
<1>3. ASSUME NEW shape \in Seq(Nat), Len(shape) = 2
      PROVE  NumelOf(shape) = shape[1] * shape[2]
  <2>1. PICK p \in [0..2 -> Nat] :
            /\ p[0] = 1
            /\ \A d \in 1..2 : p[d] = p[d - 1] * shape[d]
            /\ NumelOf(shape) = p[2]
    BY <1>3, NumelSteps
  <2>2. p[1] = shape[1] /\ p[2] = p[1] * shape[2]
    BY <2>1, <1>3
  <2> QED
    BY <2>1, <2>2
<1> QED
  BY <1>1, <1>2, <1>3
-----------------------------------------------------------------------------
\* A loop of n iterations each of which stores its own element.
MapLike(k, n) == k.total = n /\ k.shared = TRUE /\ \A i \in Upto(n) : DOMAIN k.stores[i] = {i}

\* The kernels whose iterations are counted by their argument n.
Counted ==
  {"relu", "exp", "sigmoid", "tanh", "log", "log2", "log10", "sqrt", "reciprocal", "vector_add",
   "mul", "div", "scal", "axpy", "relu_backward", "sigmoid_backward", "tanh_backward", "linear",
   "linear_bias", "conv1d", "conv1d_bias", "conv2d", "conv2d_bias", "conv1d_backward_input",
   "conv1d_backward_weight", "conv2d_backward_input", "conv2d_backward_weight", "max_pool2d",
   "avg_pool2d", "adaptive_avg_pool2d", "mse_loss_backward", "l1_loss_backward",
   "l2_loss_backward"}

\* They run n iterations, a store each.
LEMMA CountedKernels ==
  ASSUME NEW l, NEW x, l.kernel[1] \in Counted
  PROVE  MapLike(Kernel(l, x), l.num.n)
<1>1. CASE l.kernel[1] \in {"relu", "exp", "sigmoid", "tanh"}
  <2>1. Kernel(l, x) = activation(l.kernel[1], x[1], l.num.n)
    <3>1. CASE l.kernel[1] = "relu"
      BY <3>1 DEF Kernel
    <3>2. CASE l.kernel[1] = "exp"
      BY <3>2 DEF Kernel
    <3>3. CASE l.kernel[1] = "sigmoid"
      BY <3>3 DEF Kernel
    <3>4. CASE l.kernel[1] = "tanh"
      BY <3>4 DEF Kernel
    <3> QED
      BY <1>1, <3>1, <3>2, <3>3, <3>4
  <2> QED
    BY <2>1 DEF activation, Map, Loop, MapLike
<1>2. CASE l.kernel[1] \in {"log", "log2", "log10"}
  <2>1. Kernel(l, x) = math(l.kernel[1], x[1], l.num.n)
    <3>1. CASE l.kernel[1] = "log"
      BY <3>1 DEF Kernel
    <3>2. CASE l.kernel[1] = "log2"
      BY <3>2 DEF Kernel
    <3>3. CASE l.kernel[1] = "log10"
      BY <3>3 DEF Kernel
    <3> QED
      BY <1>2, <3>1, <3>2, <3>3
  <2> QED
    BY <2>1 DEF math, Map, Loop, MapLike
<1>3. CASE l.kernel[1] = "sqrt"
  <2>1. Kernel(l, x) = sqrt(x[1], l.num.n)
    BY <1>3 DEF Kernel
  <2> QED
    BY <2>1 DEF sqrt, Map, Loop, MapLike
<1>4. CASE l.kernel[1] = "reciprocal"
  <2>1. Kernel(l, x) = reciprocal(x[1], l.num.n)
    BY <1>4 DEF Kernel
  <2> QED
    BY <2>1 DEF reciprocal, Map, Loop, MapLike
<1>5. CASE l.kernel[1] = "vector_add"
  <2>1. Kernel(l, x) = vector_add(x[1], x[2], l.num.n)
    BY <1>5 DEF Kernel
  <2> QED
    BY <2>1 DEF vector_add, Map, Loop, MapLike
<1>6. CASE l.kernel[1] = "mul"
  <2>1. Kernel(l, x) = mul(x[1], x[2], l.num.n)
    BY <1>6 DEF Kernel
  <2> QED
    BY <2>1 DEF mul, Map, Loop, MapLike
<1>7. CASE l.kernel[1] = "div"
  <2>1. Kernel(l, x) = div(x[1], x[2], l.num.n)
    BY <1>7 DEF Kernel
  <2> QED
    BY <2>1 DEF div, Map, Loop, MapLike
<1>8. CASE l.kernel[1] = "scal"
  <2>1. Kernel(l, x) = scal(x[1], l.num.alpha, l.num.n)
    BY <1>8 DEF Kernel
  <2> QED
    BY <2>1 DEF scal, Map, Loop, MapLike
<1>9. CASE l.kernel[1] = "axpy"
  <2>1. Kernel(l, x) = axpy(x[1], x[2], l.num.alpha, l.num.n)
    BY <1>9 DEF Kernel
  <2> QED
    BY <2>1 DEF axpy, Map, Loop, MapLike
<1>10. CASE l.kernel[1] = "relu_backward"
  <2>1. Kernel(l, x) = relu_backward(x[1], x[2], l.num.threshold, l.num.n)
    BY <1>10 DEF Kernel
  <2> QED
    BY <2>1 DEF relu_backward, Map, Loop, MapLike
<1>11. CASE l.kernel[1] = "sigmoid_backward"
  <2>1. Kernel(l, x) = sigmoid_backward(x[1], x[2], l.num.n)
    BY <1>11 DEF Kernel
  <2> QED
    BY <2>1 DEF sigmoid_backward, Map, Loop, MapLike
<1>12. CASE l.kernel[1] = "tanh_backward"
  <2>1. Kernel(l, x) = tanh_backward(x[1], x[2], l.num.n)
    BY <1>12 DEF Kernel
  <2> QED
    BY <2>1 DEF tanh_backward, Map, Loop, MapLike
<1>13. CASE l.kernel[1] = "linear"
  <2>1. Kernel(l, x) = linear(x[1], x[2], l.num.n, l.num.out_f, l.num.in_f)
    BY <1>13 DEF Kernel
  <2> QED
    BY <2>1 DEF linear, Map, Loop, MapLike
<1>14. CASE l.kernel[1] = "linear_bias"
  <2>1. Kernel(l, x) = linear_bias(x[1], x[2], x[3], l.num.n, l.num.out_f, l.num.in_f)
    BY <1>14 DEF Kernel
  <2> QED
    BY <2>1 DEF linear_bias, Map, Loop, MapLike
<1>15. CASE l.kernel[1] = "conv1d"
  <2>1. Kernel(l, x) = conv1d(x[1], x[2], l.num.n, l.num)
    BY <1>15 DEF Kernel
  <2> QED
    BY <2>1 DEF conv1d, Map, Loop, MapLike
<1>16. CASE l.kernel[1] = "conv1d_bias"
  <2>1. Kernel(l, x) = conv1d_bias(x[1], x[2], x[3], l.num.n, l.num)
    BY <1>16 DEF Kernel
  <2> QED
    BY <2>1 DEF conv1d_bias, Map, Loop, MapLike
<1>17. CASE l.kernel[1] = "conv2d"
  <2>1. Kernel(l, x) = conv2d(x[1], x[2], l.num.n, l.num)
    BY <1>17 DEF Kernel
  <2> QED
    BY <2>1 DEF conv2d, Map, Loop, MapLike
<1>18. CASE l.kernel[1] = "conv2d_bias"
  <2>1. Kernel(l, x) = conv2d_bias(x[1], x[2], x[3], l.num.n, l.num)
    BY <1>18 DEF Kernel
  <2> QED
    BY <2>1 DEF conv2d_bias, Map, Loop, MapLike
<1>19. CASE l.kernel[1] = "conv1d_backward_input"
  <2>1. Kernel(l, x) = conv1d_backward_input(x[1], x[2], l.num.n, l.num)
    BY <1>19 DEF Kernel
  <2> QED
    BY <2>1 DEF conv1d_backward_input, Map, Loop, MapLike
<1>20. CASE l.kernel[1] = "conv1d_backward_weight"
  <2>1. Kernel(l, x) = conv1d_backward_weight(x[1], x[2], l.num.n, l.num)
    BY <1>20 DEF Kernel
  <2> QED
    BY <2>1 DEF conv1d_backward_weight, Map, Loop, MapLike
<1>21. CASE l.kernel[1] = "conv2d_backward_input"
  <2>1. Kernel(l, x) = conv2d_backward_input(x[1], x[2], l.num.n, l.num)
    BY <1>21 DEF Kernel
  <2> QED
    BY <2>1 DEF conv2d_backward_input, Map, Loop, MapLike
<1>22. CASE l.kernel[1] = "conv2d_backward_weight"
  <2>1. Kernel(l, x) = conv2d_backward_weight(x[1], x[2], l.num.n, l.num)
    BY <1>22 DEF Kernel
  <2> QED
    BY <2>1 DEF conv2d_backward_weight, Map, Loop, MapLike
<1>23. CASE l.kernel[1] = "max_pool2d"
  <2>1. Kernel(l, x) = max_pool2d(x[1], l.num.n, l.num)
    BY <1>23 DEF Kernel
  <2> QED
    BY <2>1 DEF max_pool2d, Map, Loop, MapLike
<1>24. CASE l.kernel[1] = "avg_pool2d"
  <2>1. Kernel(l, x) = avg_pool2d(x[1], l.num.n, l.num)
    BY <1>24 DEF Kernel
  <2> QED
    BY <2>1 DEF avg_pool2d, Map, Loop, MapLike
<1>25. CASE l.kernel[1] = "adaptive_avg_pool2d"
  <2>1. Kernel(l, x) = adaptive_avg_pool2d(x[1], l.num.n, l.num)
    BY <1>25 DEF Kernel
  <2> QED
    BY <2>1 DEF adaptive_avg_pool2d, Map, Loop, MapLike
<1>26. CASE l.kernel[1] = "mse_loss_backward"
  <2>1. Kernel(l, x) = mse_loss_backward(x[1], x[2], x[3], l.num.n, l.num.scale)
    BY <1>26 DEF Kernel
  <2> QED
    BY <2>1 DEF mse_loss_backward, Map, Loop, MapLike
<1>27. CASE l.kernel[1] = "l1_loss_backward"
  <2>1. Kernel(l, x) = l1_loss_backward(x[1], x[2], x[3], l.num.n, l.num.scale)
    BY <1>27 DEF Kernel
  <2> QED
    BY <2>1 DEF l1_loss_backward, Map, Loop, MapLike
<1>28. CASE l.kernel[1] = "l2_loss_backward"
  <2>1. Kernel(l, x) = l2_loss_backward(x[1], x[2], x[3], l.num.n)
    BY <1>28 DEF Kernel
  <2> QED
    BY <2>1 DEF l2_loss_backward, Map, Loop, MapLike
<1> QED
  BY <1>1, <1>2, <1>3, <1>4, <1>5, <1>6, <1>7, <1>8, <1>9, <1>10, <1>11, <1>12, <1>13, <1>14,
     <1>15, <1>16, <1>17, <1>18, <1>19, <1>20, <1>21, <1>22, <1>23, <1>24, <1>25, <1>26, <1>27,
     <1>28 DEF Counted

\* The kernels that reduce to one value.
Reducing ==
  {"dot", "sum", "mean", "amax", "amin", "argmax", "argmin", "mse_loss", "l1_loss", "l2_loss",
   "cross_entropy_finish"}

\* They are one loop of all threads together, which stores element 0.
LEMMA WholeKernels ==
  ASSUME NEW l, NEW x, l.kernel[1] \in Reducing
  PROVE  /\ Kernel(l, x).total = 1 /\ Kernel(l, x).shared = FALSE
         /\ DOMAIN Kernel(l, x).stores[0] = {0}
<1>1. CASE l.kernel[1] = "dot"
  <2>1. Kernel(l, x) = dot(x[1], x[2], l.num.n)
    BY <1>1 DEF Kernel
  <2> QED
    BY <2>1 DEF dot, Whole
<1>2. CASE l.kernel[1] = "sum"
  <2>1. Kernel(l, x) = sum(x[1], l.num.n)
    BY <1>2 DEF Kernel
  <2> QED
    BY <2>1 DEF sum, Whole
<1>3. CASE l.kernel[1] = "mean"
  <2>1. Kernel(l, x) = mean(x[1], l.num.n, l.num.inv_n)
    BY <1>3 DEF Kernel
  <2> QED
    BY <2>1 DEF mean, Whole
<1>4. CASE l.kernel[1] = "amax"
  <2>1. Kernel(l, x) = amax(x[1], l.num.n)
    BY <1>4 DEF Kernel
  <2> QED
    BY <2>1 DEF amax, Whole
<1>5. CASE l.kernel[1] = "amin"
  <2>1. Kernel(l, x) = amin(x[1], l.num.n)
    BY <1>5 DEF Kernel
  <2> QED
    BY <2>1 DEF amin, Whole
<1>6. CASE l.kernel[1] = "argmax"
  <2>1. Kernel(l, x) = argmax(x[1], l.num.n)
    BY <1>6 DEF Kernel
  <2> QED
    BY <2>1 DEF argmax, Whole
<1>7. CASE l.kernel[1] = "argmin"
  <2>1. Kernel(l, x) = argmin(x[1], l.num.n)
    BY <1>7 DEF Kernel
  <2> QED
    BY <2>1 DEF argmin, Whole
<1>8. CASE l.kernel[1] = "mse_loss"
  <2>1. Kernel(l, x) = mse_loss(x[1], x[2], l.num.n, l.num.inv_n)
    BY <1>8 DEF Kernel
  <2> QED
    BY <2>1 DEF mse_loss, Whole
<1>9. CASE l.kernel[1] = "l1_loss"
  <2>1. Kernel(l, x) = l1_loss(x[1], x[2], l.num.n, l.num.inv_n)
    BY <1>9 DEF Kernel
  <2> QED
    BY <2>1 DEF l1_loss, Whole
<1>10. CASE l.kernel[1] = "l2_loss"
  <2>1. Kernel(l, x) = l2_loss(x[1], x[2], l.num.n)
    BY <1>10 DEF Kernel
  <2> QED
    BY <2>1 DEF l2_loss, Whole
<1>11. CASE l.kernel[1] = "cross_entropy_finish"
  <2>1. Kernel(l, x) = cross_entropy_finish(x[1], l.num.rows, l.num.inv_rows)
    BY <1>11 DEF Kernel
  <2> QED
    BY <2>1 DEF cross_entropy_finish, Whole
<1> QED
  BY <1>1, <1>2, <1>3, <1>4, <1>5, <1>6, <1>7, <1>8, <1>9, <1>10, <1>11 DEF Reducing

\* The kernels that are told the sizes of a matrix.
LEMMA MatrixKernels ==
  ASSUME NEW l, NEW x
  PROVE  /\ l.kernel[1] = "gemv" => MapLike(Kernel(l, x), l.num.m)
         /\ l.kernel[1] \in {"matmul", "addmm"} => MapLike(Kernel(l, x), l.num.m * l.num.n)
         /\ l.kernel[1] = "linear_backward_input" => MapLike(Kernel(l, x), l.num.batch * l.num.in_f)
         /\ l.kernel[1] = "linear_backward_weight" => MapLike(Kernel(l, x), l.num.out_f * l.num.in_f)
         /\ l.kernel[1] = "linear_backward_bias" => MapLike(Kernel(l, x), l.num.out_f)
         /\ l.kernel[1] \in {"conv1d_backward_bias", "conv2d_backward_bias"} =>
              MapLike(Kernel(l, x), l.num.oc)
         /\ l.kernel[1] = "cross_entropy_backward" => MapLike(Kernel(l, x), l.num.rows * l.num.cols)
<1>1. CASE l.kernel[1] = "gemv"
  <2>1. Kernel(l, x) = gemv(x[1], x[2], l.num.m, l.num.n)
    BY <1>1 DEF Kernel
  <2> QED
    BY <2>1, <1>1 DEF gemv, Map, Loop, MapLike
<1>2. CASE l.kernel[1] = "matmul"
  <2>1. Kernel(l, x) = matmul(x[1], x[2], l.num.m, l.num.n, l.num.k)
    BY <1>2 DEF Kernel
  <2> QED
    BY <2>1, <1>2 DEF matmul, Map, Loop, MapLike
<1>3. CASE l.kernel[1] = "addmm"
  <2>1. Kernel(l, x) = addmm(x[1], x[2], x[3], l.num.beta, l.num.alpha, l.num.m, l.num.n, l.num.k)
    BY <1>3 DEF Kernel
  <2> QED
    BY <2>1, <1>3 DEF addmm, Map, Loop, MapLike
<1>4. CASE l.kernel[1] = "linear_backward_input"
  <2>1. Kernel(l, x) = linear_backward_input(x[1], x[2], l.num.batch, l.num.out_f, l.num.in_f)
    BY <1>4 DEF Kernel
  <2> QED
    BY <2>1, <1>4 DEF linear_backward_input, Map, Loop, MapLike
<1>5. CASE l.kernel[1] = "linear_backward_weight"
  <2>1. Kernel(l, x) = linear_backward_weight(x[1], x[2], l.num.batch, l.num.out_f, l.num.in_f)
    BY <1>5 DEF Kernel
  <2> QED
    BY <2>1, <1>5 DEF linear_backward_weight, Map, Loop, MapLike
<1>6. CASE l.kernel[1] = "linear_backward_bias"
  <2>1. Kernel(l, x) = linear_backward_bias(x[1], l.num.batch, l.num.out_f)
    BY <1>6 DEF Kernel
  <2> QED
    BY <2>1, <1>6 DEF linear_backward_bias, Map, Loop, MapLike
<1>7. CASE l.kernel[1] = "conv1d_backward_bias"
  <2>1. Kernel(l, x) = conv1d_backward_bias(x[1], l.num)
    BY <1>7 DEF Kernel
  <2> QED
    BY <2>1, <1>7 DEF conv1d_backward_bias, Map, Loop, MapLike
<1>8. CASE l.kernel[1] = "conv2d_backward_bias"
  <2>1. Kernel(l, x) = conv2d_backward_bias(x[1], l.num)
    BY <1>8 DEF Kernel
  <2> QED
    BY <2>1, <1>8 DEF conv2d_backward_bias, Map, Loop, MapLike
<1>9. CASE l.kernel[1] = "cross_entropy_backward"
  <2>1. Kernel(l, x) = cross_entropy_backward(x[1], x[2], x[3], l.num.rows, l.num.cols, l.num.inv_rows)
    BY <1>9 DEF Kernel
  <2> QED
    BY <2>1, <1>9 DEF cross_entropy_backward, Map, Loop, MapLike
<1> QED
  BY <1>1, <1>2, <1>3, <1>4, <1>5, <1>6, <1>7, <1>8, <1>9

\* The kernels whose iterations store a row, of as many values as len.
RowLike(k, rows, len) ==
  /\ k.total = rows /\ k.shared = TRUE
  /\ \A i \in Upto(rows) : DOMAIN k.stores[i] = {i * len + j : j \in Upto(len)}

\* They store the rows of their output, of a statistic or of a debug line.
LEMMA RowKernels ==
  ASSUME NEW l, NEW x
  PROVE  /\ l.kernel[1] \in {"softmax", "softmax_backward"} =>
              RowLike(Kernel(l, x), l.num.rows, l.num.cols)
         /\ l.kernel[1] = "cross_entropy_stats" => RowLike(Kernel(l, x), l.num.rows, 3)
         /\ l.kernel[1] = "cross_entropy_debug_finish" => RowLike(Kernel(l, x), l.num.rows, 5)
<1>1. CASE l.kernel[1] = "softmax"
  BY <1>1 DEF Kernel, softmax, Rows, Loop, RowLike
<1>2. CASE l.kernel[1] = "softmax_backward"
  BY <1>2 DEF Kernel, softmax_backward, Rows, Loop, RowLike
<1>3. CASE l.kernel[1] = "cross_entropy_stats"
  <2>1. Kernel(l, x) = cross_entropy_stats(x[1], x[2], l.num.rows, l.num.cols)
    BY <1>3 DEF Kernel
  <2>2. RowLike(Kernel(l, x), l.num.rows, 3)
    BY <2>1 DEF cross_entropy_stats, Stretch, Loop, RowLike
  <2> QED
    BY <1>3, <2>2
<1>4. CASE l.kernel[1] = "cross_entropy_debug_finish"
  <2>1. Kernel(l, x) = cross_entropy_debug_finish(x[1], l.num.rows)
    BY <1>4 DEF Kernel
  <2>2. RowLike(Kernel(l, x), l.num.rows, 5)
    BY <2>1 DEF cross_entropy_debug_finish, debug_row, Stretch, Loop, RowLike
  <2> QED
    BY <1>4, <2>2
<1> QED
  BY <1>1, <1>2, <1>3, <1>4

-----------------------------------------------------------------------------
\* The same of a launch, whatever it reads.
Maps(l, n)               == \A x : MapLike(Kernel(l, x), n)
StoresRows(l, rows, len) == \A x : RowLike(Kernel(l, x), rows, len)
StoresOne(l) == \A x : /\ Kernel(l, x).total = 1 /\ Kernel(l, x).shared = FALSE
                       /\ DOMAIN Kernel(l, x).stores[0] = {0}

\* So do launches of the counted kernels.
LEMMA CountedMaps == ASSUME NEW l, l.kernel[1] \in Counted PROVE Maps(l, l.num.n)
  BY CountedKernels DEF Maps

\* So do launches of the reducing kernels.
LEMMA ReducingStoresOne == ASSUME NEW l, l.kernel[1] \in Reducing PROVE StoresOne(l)
  BY WholeKernels DEF StoresOne

\* So do launches of the matrix kernels.
LEMMA MatrixMaps ==
  ASSUME NEW l
  PROVE  /\ l.kernel[1] = "gemv" => Maps(l, l.num.m)
         /\ l.kernel[1] \in {"matmul", "addmm"} => Maps(l, l.num.m * l.num.n)
         /\ l.kernel[1] = "linear_backward_input" => Maps(l, l.num.batch * l.num.in_f)
         /\ l.kernel[1] = "linear_backward_weight" => Maps(l, l.num.out_f * l.num.in_f)
         /\ l.kernel[1] = "linear_backward_bias" => Maps(l, l.num.out_f)
         /\ l.kernel[1] \in {"conv1d_backward_bias", "conv2d_backward_bias"} => Maps(l, l.num.oc)
         /\ l.kernel[1] = "cross_entropy_backward" => Maps(l, l.num.rows * l.num.cols)
  BY MatrixKernels DEF Maps

\* So do launches of the row kernels.
LEMMA RowsAreStored ==
  ASSUME NEW l
  PROVE  /\ l.kernel[1] \in {"softmax", "softmax_backward"} => StoresRows(l, l.num.rows, l.num.cols)
         /\ l.kernel[1] = "cross_entropy_stats" => StoresRows(l, l.num.rows, 3)
         /\ l.kernel[1] = "cross_entropy_debug_finish" => StoresRows(l, l.num.rows, 5)
  BY RowKernels DEF StoresRows

-----------------------------------------------------------------------------
\* A launch stores through its last pointer.
Output(l) == l.pointers[Len(l.pointers)]

\* The iterations of launch l store inside its output, whatever it reads.
Inside(l) == \E n \in Nat : \A x :
  /\ Kernel(l, x).total = n /\ Kernel(l, x).shared \in BOOLEAN
  /\ \A i \in Upto(n) : DOMAIN Kernel(l, x).stores[i] \subseteq Elements(Output(l))

\* A launch that may follow once a call was accepted.
GoodLaunch(c, l, fresh) ==
  /\ l.pointers \in Seq(Tensors) /\ l.pointers # <<>>
  /\ \E f \in DOMAIN fresh : Output(l) = fresh[f]
  /\ l.kernel[2] # "host" =>
       /\ l.ok
       /\ l.kernel \in Registered \/ (c.op = "convolution" /\ c.in[1].dtype = "i32")
       /\ Launchable(l) => Inside(l)

\* The new tensors of a call: none is named like an argument or another one.
GoodFresh(fresh) ==
  /\ fresh \in Seq(Tensors)
  /\ \A f \in DOMAIN fresh : fresh[f].name \notin {"in1", "in2", "in3"}
  /\ \A f, g \in DOMAIN fresh : fresh[f].name = fresh[g].name => f = g

\* A plan all of whose launches are good ones.  It copies in four operators.
GoodPlan(c, p) ==
  /\ p.kind \in {"refused", "crashed", "launching"}
  /\ p.kind = "launching" =>
       /\ GoodFresh(p.fresh)
       /\ c.op \notin {"add_", "copy_", "fill_", "to_copy"} => p.copy = <<>>
       /\ Len(p.launches) \in Nat
       /\ \A i \in 1..Len(p.launches) : GoodLaunch(c, p.launches[i], p.fresh)

\* A tensor has a number of elements.
LEMMA TensorNumel == ASSUME NEW t \in Tensors PROVE Numel(t) \in Nat
  BY NumelIsNat DEF Tensors, Numel

\* A new tensor, and one like another.
LEMMA EmptyIs ==
  ASSUME NEW name \in NewNames, NEW shape \in Seq(Nat), NEW dtype \in Dtypes
  PROVE  /\ Empty(name, shape, dtype) \in Tensors
         /\ Empty(name, shape, dtype).name = name
         /\ Empty(name, shape, dtype).dtype = dtype
         /\ Empty(name, shape, dtype).shape = shape
         /\ Numel(Empty(name, shape, dtype)) = NumelOf(shape)
<1> DEFINE t == Empty(name, shape, dtype)
<1>1. t.name = name /\ t.dtype = dtype /\ t.shape = shape
  BY DEF Empty, Tensor
<1>2. t \in Tensors
  BY DEF Empty, Tensor, Tensors, Devices
<1> QED
  BY <1>1, <1>2 DEF Numel

\* empty_like keeps shape and type.
LEMMA LikeIs ==
  ASSUME NEW t \in Tensors, NEW name \in NewNames
  PROVE  /\ EmptyLike(name, t) \in Tensors
         /\ EmptyLike(name, t).name = name
         /\ EmptyLike(name, t).dtype = t.dtype
         /\ EmptyLike(name, t).shape = t.shape
         /\ Numel(EmptyLike(name, t)) = Numel(t)
<1>1. t.shape \in Seq(Nat) /\ t.dtype \in Dtypes /\ Numel(t) = NumelOf(t.shape)
  BY DEF Tensors, Numel
<1>2. EmptyLike(name, t) = Empty(name, t.shape, t.dtype)
  BY DEF EmptyLike
<1> QED
  BY <1>1, <1>2, EmptyIs

\* Loops whose iterations store an element or a row stay inside.
LEMMA MapInside ==
  ASSUME NEW l, Output(l) \in Tensors, NEW n \in Nat, n <= Numel(Output(l)), Maps(l, n)
  PROVE  Inside(l)
<1>1. ASSUME NEW x PROVE Kernel(l, x).shared \in BOOLEAN
  BY Zenon DEF Maps, MapLike
<1>2. ASSUME NEW x, NEW i \in Upto(n)
      PROVE  Kernel(l, x).total = n /\ DOMAIN Kernel(l, x).stores[i] \subseteq Elements(Output(l))
  BY TensorNumel DEF Maps, MapLike, Elements, Upto
<1>3. ASSUME NEW x PROVE Kernel(l, x).total = n
  BY DEF Maps, MapLike
<1> QED
  BY <1>1, <1>2, <1>3, Zenon DEF Inside

\* Loops that store rows.
LEMMA RowInside ==
  ASSUME NEW l, Output(l) \in Tensors, NEW rows \in Nat, NEW len \in Nat,
         rows * len <= Numel(Output(l)), StoresRows(l, rows, len)
  PROVE  Inside(l)
<1> SUFFICES ASSUME NEW i \in Upto(rows), NEW j \in Upto(len)
             PROVE  i * len + j \in Elements(Output(l))
  <2>1. ASSUME NEW x PROVE Kernel(l, x).total = rows /\ Kernel(l, x).shared \in BOOLEAN
    BY Zenon DEF StoresRows, RowLike
  <2>2. ASSUME NEW x, NEW i \in Upto(rows),
               \A j \in Upto(len) : i * len + j \in Elements(Output(l))
        PROVE  DOMAIN Kernel(l, x).stores[i] \subseteq Elements(Output(l))
    BY <2>2 DEF StoresRows, RowLike
  <2> QED
    BY <2>1, <2>2, Zenon DEF Inside
<1>1. i \in Nat /\ j \in Nat /\ i + 1 <= rows /\ j < len
  BY DEF Upto
<1>2. (i + 1) * len <= rows * len
  <2>1. PICK d \in Nat : rows = (i + 1) + d
    BY <1>1, rows - (i + 1) \in Nat
  <2>2. rows * len = (i + 1) * len + d * len /\ d * len \in Nat
    BY <2>1, <1>1
  <2> QED
    BY <2>2, <1>1
<1>3. (i + 1) * len = i * len + len /\ i * len \in Nat
  BY <1>1
<1> QED
  BY <1>1, <1>2, <1>3, TensorNumel DEF Elements, Upto

\* Loops that store one value.
LEMMA WholeInside ==
  ASSUME NEW l, Output(l) \in Tensors, Numel(Output(l)) > 0, StoresOne(l)
  PROVE  Inside(l)
<1>1. Upto(1) = {0} /\ 0 \in Elements(Output(l))
  BY TensorNumel DEF Upto, Elements
<1> QED
  BY <1>1 DEF Inside, StoresOne

\* A plan that refuses launches nothing.
LEMMA Refusing == ASSUME NEW c PROVE GoodPlan(c, Refused) /\ GoodPlan(c, Crashes)
  BY DEF GoodPlan, Refused, Crashes

\* A plan behind a check is as good as the plan.
LEMMA Checked ==
  ASSUME NEW c, NEW ok, NEW p, ok = TRUE => GoodPlan(c, p)
  PROVE  GoodPlan(c, Check(ok, p))
  BY Refusing DEF Check

\* What makes a launch into tensor out a good one.
Passes(c, l, out) ==
  /\ l.pointers \in Seq(Tensors) /\ l.pointers # <<>> /\ Output(l) = out
  /\ l.ok
  /\ l.kernel \in Registered \/ (c.op = "convolution" /\ c.in[1].dtype = "i32")
\* And stores inside of it.
Sound(c, l, out) == Passes(c, l, out) /\ (Launchable(l) => Inside(l))

\* A plan of one launch into one fresh tensor.
LEMMA OneLaunch ==
  ASSUME NEW c, NEW l, NEW out \in Tensors, out.name \notin {"in1", "in2", "in3"}, Sound(c, l, out)
  PROVE  GoodPlan(c, Plan(<<out>>, <<l>>))
<1>1. GoodLaunch(c, l, <<out>>)
  BY DEF GoodLaunch, Sound, Passes
<1> QED
  BY <1>1 DEF GoodPlan, GoodFresh, Plan

\* Launches of loops that store an element each.
LEMMA MapSound ==
  ASSUME NEW c, NEW l, NEW out \in Tensors, Passes(c, l, out),
         NEW n \in Nat, n <= Numel(out), Maps(l, n)
  PROVE  Sound(c, l, out)
  BY MapInside DEF Sound, Passes

\* Launches of loops that store a row each.
LEMMA RowSound ==
  ASSUME NEW c, NEW l, NEW out \in Tensors, Passes(c, l, out),
         NEW rows \in Nat, NEW len \in Nat, rows * len <= Numel(out), StoresRows(l, rows, len)
  PROVE  Sound(c, l, out)
  BY RowInside DEF Sound, Passes

\* Launches of loops that store one value.
LEMMA WholeSound ==
  ASSUME NEW c, NEW l, NEW out \in Tensors, Passes(c, l, out), StoresOne(l)
  PROVE  Sound(c, l, out)
<1>1. Len(l.pointers) \in DOMAIN l.pointers
  BY DEF Passes
<1>2. Launchable(l) => Numel(out) > 0
  BY <1>1 DEF Launchable, Output, Passes
<1> QED
  BY <1>2, WholeInside DEF Sound, Passes

\* A launch of an fp32 kernel without a helper.
InFp32(op) == <<op, "fp32">> \in Registered

\* Those of the counted kernels, whose n is at most the size of the output.
LEMMA Fp32Counted ==
  ASSUME NEW c, NEW op \in Counted, InFp32(op),
         NEW tensors \in Seq(Tensors), tensors # <<>>, NEW num, num.n \in Nat,
         num.n <= Numel(tensors[Len(tensors)])
  PROVE  Sound(c, LaunchFp32(op, tensors, num), tensors[Len(tensors)])
<1> DEFINE l   == LaunchFp32(op, tensors, num)
           out == tensors[Len(tensors)]
<1> SUFFICES Sound(c, l, out)
  OBVIOUS
<1>1. Passes(c, l, out) /\ l.kernel[1] = op /\ l.num = num
  BY DEF Passes, LaunchFp32, Launch, Output, InFp32
<1>2. out \in Tensors /\ num.n <= Numel(out)
  OBVIOUS
<1> HIDE DEF l, out
<1>3. Maps(l, num.n)
  BY <1>1, CountedMaps
<1> QED
  BY <1>1, <1>2, <1>3, MapSound

\* Those of the reducing kernels.
LEMMA Fp32Reducing ==
  ASSUME NEW c, NEW op \in Reducing, InFp32(op),
         NEW tensors \in Seq(Tensors), tensors # <<>>, NEW num
  PROVE  Sound(c, LaunchFp32(op, tensors, num), tensors[Len(tensors)])
<1> DEFINE l   == LaunchFp32(op, tensors, num)
           out == tensors[Len(tensors)]
<1> SUFFICES Sound(c, l, out)
  OBVIOUS
<1>1. Passes(c, l, out) /\ l.kernel[1] = op
  BY DEF Passes, LaunchFp32, Launch, Output, InFp32
<1>2. out \in Tensors
  OBVIOUS
<1> HIDE DEF l, out
<1>3. StoresOne(l)
  BY <1>1, ReducingStoresOne
<1> QED
  BY <1>1, <1>2, <1>3, WholeSound

-----------------------------------------------------------------------------
\* Elementwise operators: the helper's checks follow from the operator's.
LEMMA BinaryAccepted ==
  ASSUME NEW c, NEW a \in Tensors, NEW b \in Tensors, NEW op \in {"vector_add", "mul"}
  PROVE  GoodPlan(c, run_binary_kernel(op, a, b))
<1> DEFINE out == EmptyLike("out", a)
           l   == launch_elementwise_binary(op, a, b, out)
           ok  == /\ require_minigpu_contiguous(a) /\ require_minigpu_contiguous(b)
                  /\ SameShape(a, b) /\ SameDtype(a, b) /\ kernel_dtype(a)
<1>1. run_binary_kernel(op, a, b) = Check(ok, Plan(<<out>>, <<l>>))
  BY DEF run_binary_kernel
<1>2. /\ out \in Tensors /\ out.name = "out" /\ out.dtype = a.dtype
      /\ Numel(out) = Numel(a) /\ Numel(a) \in Nat
  BY LikeIs, TensorNumel DEF NewNames
<1>3. /\ l.pointers = <<a, b, out>> /\ Output(l) = out
      /\ l.kernel = <<op, a.dtype>> /\ l.num.n = Numel(a)
      /\ SameDtypes(<<a, b, out>>) /\ SameElements(<<a, b, out>>) => l.ok
  BY DEF launch_elementwise_binary, Launch, Output
<1> HIDE DEF out, l
<1>4. ASSUME ok PROVE Sound(c, l, out)
  <2>1. a.dtype = b.dtype /\ Numel(a) = Numel(b) /\ a.dtype \in SixTypes
    BY <1>4 DEF SameShape, SameDtype, Numel, kernel_dtype, SixTypes
  <2>2. SameDtypes(<<a, b, out>>) /\ SameElements(<<a, b, out>>)
    BY <2>1, <1>2 DEF SameDtypes, SameElements
  <2>3. l.kernel \in Registered
    BY <1>3, <2>1 DEF Registered
  <2>4. Maps(l, Numel(a))
    BY <1>3, CountedMaps DEF Counted
  <2>5. l.pointers \in Seq(Tensors) /\ l.pointers # <<>>
    BY <1>2, <1>3
  <2>6. Passes(c, l, out)
    BY <1>3, <2>2, <2>3, <2>5 DEF Passes
  <2> QED
    BY <1>2, <2>4, <2>6, MapSound
<1>5. ok => GoodPlan(c, Plan(<<out>>, <<l>>))
  BY <1>2, <1>4, OneLaunch
<1> QED
  BY <1>1, <1>5, Checked

\* The kernels of run_unary_kernel.
UnaryKernels == {"relu", "exp", "sigmoid", "tanh", "log", "log2", "log10", "sqrt", "reciprocal"}

\* run_unary_kernel: relu has kernels of all types, the others of fp32.
LEMMA UnaryAccepted ==
  ASSUME NEW c, NEW a \in Tensors, NEW op \in UnaryKernels, op = "relu" \/ a.dtype = "fp32"
  PROVE  GoodPlan(c, run_unary_kernel(op, a))
<1> DEFINE out == EmptyLike("out", a)
           l   == launch_elementwise_unary(op, a, out)
           ok  == require_minigpu_contiguous(a) /\ kernel_dtype(a)
<1>1. run_unary_kernel(op, a) = Check(ok, Plan(<<out>>, <<l>>))
  BY DEF run_unary_kernel
<1>2. /\ out \in Tensors /\ out.name = "out" /\ out.dtype = a.dtype
      /\ Numel(out) = Numel(a) /\ Numel(a) \in Nat
  BY LikeIs, TensorNumel DEF NewNames
<1>3. /\ l.pointers = <<a, out>> /\ Output(l) = out
      /\ l.kernel = <<op, a.dtype>> /\ l.num.n = Numel(a)
      /\ SameDtypes(<<a, out>>) /\ SameElements(<<a, out>>) => l.ok
  BY DEF launch_elementwise_unary, Launch, Output
<1> HIDE DEF out, l
<1>4. ASSUME ok PROVE Sound(c, l, out)
  <2>1. a.dtype \in SixTypes
    BY <1>4 DEF kernel_dtype, SixTypes
  <2>2. SameDtypes(<<a, out>>) /\ SameElements(<<a, out>>)
    BY <1>2 DEF SameDtypes, SameElements
  <2>3. l.kernel \in Registered
    BY <1>3, <2>1 DEF Registered, UnaryKernels
  <2>4. Maps(l, Numel(a))
    BY <1>3, CountedMaps DEF Counted, UnaryKernels
  <2>5. l.pointers \in Seq(Tensors) /\ l.pointers # <<>>
    BY <1>2, <1>3
  <2>6. Passes(c, l, out)
    BY <1>3, <2>2, <2>3, <2>5 DEF Passes
  <2> QED
    BY <1>2, <2>4, <2>6, MapSound
<1>5. ok => GoodPlan(c, Plan(<<out>>, <<l>>))
  BY <1>2, <1>4, OneLaunch
<1> QED
  BY <1>1, <1>5, Checked

\* run_fp32_unary_kernel checks the type itself.
LEMMA Fp32UnaryAccepted ==
  ASSUME NEW c, NEW a \in Tensors, NEW op \in UnaryKernels
  PROVE  GoodPlan(c, run_fp32_unary_kernel(op, a))
<1>1. require_fp32_minigpu_contiguous(a) = TRUE => GoodPlan(c, run_unary_kernel(op, a))
  BY UnaryAccepted DEF require_fp32_minigpu_contiguous
<1> QED
  BY <1>1, Checked DEF run_fp32_unary_kernel

\* scal, into a new tensor.
LEMMA ScalAccepted ==
  ASSUME NEW c, NEW x \in Tensors, NEW alpha
  PROVE  GoodPlan(c, scal_(x, alpha))
<1> DEFINE out == EmptyLike("out", x)
           l   == launch_scal(x, out, alpha)
           ok  == require_fp32_minigpu_contiguous(x)
<1>1. scal_(x, alpha) = Check(ok, Plan(<<out>>, <<l>>))
  BY DEF scal_
<1>2. /\ out \in Tensors /\ out.name = "out" /\ out.dtype = x.dtype
      /\ Numel(out) = Numel(x) /\ Numel(x) \in Nat
  BY LikeIs, TensorNumel DEF NewNames
<1>3. ASSUME ok PROVE Sound(c, l, out)
  <2>1. SameDtypes(<<x, out>>) /\ SameElements(<<x, out>>) /\ x.dtype = "fp32"
    BY <1>2, <1>3 DEF SameDtypes, SameElements, require_fp32_minigpu_contiguous
  <2>2. l.pointers = <<x, out>> /\ Output(l) = out /\ l.kernel = <<"scal", "fp32">>
        /\ l.num.n = Numel(x) /\ l.ok
    BY <2>1 DEF launch_scal, Launch, Output
  <2> HIDE DEF out, l
  <2>3. l.kernel \in Registered
    BY <2>2 DEF Registered
  <2>4. Maps(l, Numel(x))
    BY <2>2, CountedMaps DEF Counted
  <2>5. l.pointers \in Seq(Tensors) /\ l.pointers # <<>>
    BY <1>2, <2>2
  <2>6. Passes(c, l, out)
    BY <2>2, <2>3, <2>5 DEF Passes
  <2> QED
    BY <1>2, <2>4, <2>6, MapSound
<1> HIDE DEF out, l
<1>4. ok => GoodPlan(c, Plan(<<out>>, <<l>>))
  BY <1>2, <1>3, OneLaunch
<1> QED
  BY <1>1, <1>4, Checked

\* axpy, into a new tensor too.
LEMMA AxpyAccepted ==
  ASSUME NEW c, NEW x \in Tensors, NEW y \in Tensors, NEW alpha
  PROVE  GoodPlan(c, axpy_(x, y, alpha))
<1> DEFINE out == EmptyLike("out", x)
           l   == launch_axpy(x, y, out, alpha)
           ok  == /\ require_minigpu_contiguous(x) /\ require_minigpu_contiguous(y)
                  /\ SameShape(x, y) /\ SameDtype(x, y) /\ x.dtype = "fp32"
<1>1. axpy_(x, y, alpha) = Check(ok, Plan(<<out>>, <<l>>))
  BY DEF axpy_
<1>2. /\ out \in Tensors /\ out.name = "out" /\ out.dtype = x.dtype
      /\ Numel(out) = Numel(x) /\ Numel(x) \in Nat
  BY LikeIs, TensorNumel DEF NewNames
<1>3. ASSUME ok PROVE Sound(c, l, out)
  <2>1. x.dtype = "fp32" /\ y.dtype = "fp32" /\ Numel(y) = Numel(x)
    BY <1>3 DEF SameShape, SameDtype, Numel
  <2>2. SameDtypes(<<x, y, out>>) /\ SameElements(<<x, y, out>>)
    BY <1>2, <2>1 DEF SameDtypes, SameElements
  <2>3. l.pointers = <<x, y, out>> /\ Output(l) = out /\ l.kernel = <<"axpy", "fp32">>
        /\ l.num.n = Numel(x) /\ l.ok
    BY <2>1, <2>2 DEF launch_axpy, Launch, Output
  <2> HIDE DEF out, l
  <2>4. l.kernel \in Registered
    BY <2>3 DEF Registered
  <2>5. Maps(l, Numel(x))
    BY <2>3, CountedMaps DEF Counted
  <2>6. l.pointers \in Seq(Tensors) /\ l.pointers # <<>>
    BY <1>2, <2>3
  <2>7. Passes(c, l, out)
    BY <2>3, <2>4, <2>6 DEF Passes
  <2> QED
    BY <1>2, <2>5, <2>7, MapSound
<1> HIDE DEF out, l
<1>4. ok => GoodPlan(c, Plan(<<out>>, <<l>>))
  BY <1>2, <1>3, OneLaunch
<1> QED
  BY <1>1, <1>4, Checked

\* add: with a factor it is axpy, without it vector_add.
LEMMA AddAccepted ==
  ASSUME NEW c, NEW a \in Tensors, NEW b \in Tensors, NEW alpha
  PROVE  GoodPlan(c, add_tensor(a, b, alpha))
<1>1. GoodPlan(c, run_binary_kernel("vector_add", a, b)) /\ GoodPlan(c, axpy_(b, a, alpha))
  BY BinaryAccepted, AxpyAccepted
<1>2. GoodPlan(c, IF alpha = "1" THEN run_binary_kernel("vector_add", a, b) ELSE axpy_(b, a, alpha))
  BY <1>1
<1> QED
  BY <1>2, Checked DEF add_tensor

\* A tensor that is no argument.
IsNew(t) == t.name \notin {"in1", "in2", "in3"}

\* A call that launches one such kernel, if it is accepted.
LEMMA CountedPlan ==
  ASSUME NEW c, NEW op \in Counted, InFp32(op), NEW ok, NEW out \in Tensors, IsNew(out),
         NEW tensors \in Seq(Tensors), tensors # <<>>, tensors[Len(tensors)] = out, NEW num,
         ok = TRUE => num.n \in Nat /\ num.n <= Numel(out)
  PROVE  GoodPlan(c, Check(ok, Plan(<<out>>, <<LaunchFp32(op, tensors, num)>>)))
<1>1. ASSUME ok = TRUE PROVE Sound(c, LaunchFp32(op, tensors, num), out)
  BY <1>1, Fp32Counted
<1>2. ok = TRUE => GoodPlan(c, Plan(<<out>>, <<LaunchFp32(op, tensors, num)>>))
  BY <1>1, OneLaunch DEF IsNew
<1> QED
  BY <1>2, Checked

\* The same of a kernel that reduces.
LEMMA ReducingPlan ==
  ASSUME NEW c, NEW op \in Reducing, InFp32(op), NEW ok, NEW out \in Tensors, IsNew(out),
         NEW tensors \in Seq(Tensors), tensors # <<>>, tensors[Len(tensors)] = out, NEW num
  PROVE  GoodPlan(c, Check(ok, Plan(<<out>>, <<LaunchFp32(op, tensors, num)>>)))
<1>1. Sound(c, LaunchFp32(op, tensors, num), out)
  BY Fp32Reducing
<1>2. GoodPlan(c, Plan(<<out>>, <<LaunchFp32(op, tensors, num)>>))
  BY <1>1, OneLaunch DEF IsNew
<1> QED
  BY <1>2, Checked

\* The shape of a scalar.
LEMMA EmptySeq == <<>> \in Seq(Nat) /\ Len(<<>>) = 0
  OBVIOUS

\* The backward of the activations.
LEMMA ThresholdBackwardAccepted ==
  ASSUME NEW c, NEW g \in Tensors, NEW self \in Tensors, NEW threshold
  PROVE  GoodPlan(c, threshold_backward(g, self, threshold))
<1> DEFINE out == EmptyLike("out", self)
           num == [threshold |-> Scalar(threshold), n |-> Numel(self)]
           ptr == <<g, self, out>>
           ok  == LossArgs(g, self)
<1>1. out \in Tensors /\ IsNew(out) /\ num.n \in Nat /\ num.n <= Numel(out)
  BY LikeIs, TensorNumel DEF NewNames, IsNew
<1>2. ptr \in Seq(Tensors) /\ ptr # <<>> /\ ptr[Len(ptr)] = out
  BY <1>1
<1>3. "relu_backward" \in Counted /\ InFp32("relu_backward")
  BY DEF Counted, InFp32, Registered
<1>4. threshold_backward(g, self, threshold) = Check(ok, Plan(<<out>>, <<LaunchFp32("relu_backward", ptr, num)>>))
  BY DEF threshold_backward
<1> HIDE DEF out, num, ptr, ok
<1> QED
  BY <1>1, <1>2, <1>3, <1>4, CountedPlan

\* sigmoid_backward.
LEMMA SigmoidBackwardAccepted ==
  ASSUME NEW c, NEW g \in Tensors, NEW output \in Tensors
  PROVE  GoodPlan(c, sigmoid_backward_op(g, output))
<1> DEFINE out == EmptyLike("out", output)
           num == [n |-> Numel(output)]
           ptr == <<g, output, out>>
           ok  == LossArgs(g, output)
<1>1. out \in Tensors /\ IsNew(out) /\ num.n \in Nat /\ num.n <= Numel(out)
  BY LikeIs, TensorNumel DEF NewNames, IsNew
<1>2. ptr \in Seq(Tensors) /\ ptr # <<>> /\ ptr[Len(ptr)] = out
  BY <1>1
<1>3. "sigmoid_backward" \in Counted /\ InFp32("sigmoid_backward")
  BY DEF Counted, InFp32, Registered
<1>4. sigmoid_backward_op(g, output) = Check(ok, Plan(<<out>>, <<LaunchFp32("sigmoid_backward", ptr, num)>>))
  BY DEF sigmoid_backward_op
<1> HIDE DEF out, num, ptr, ok
<1> QED
  BY <1>1, <1>2, <1>3, <1>4, CountedPlan

\* tanh_backward.
LEMMA TanhBackwardAccepted ==
  ASSUME NEW c, NEW g \in Tensors, NEW output \in Tensors
  PROVE  GoodPlan(c, tanh_backward_op(g, output))
<1> DEFINE out == EmptyLike("out", output)
           num == [n |-> Numel(output)]
           ptr == <<g, output, out>>
           ok  == LossArgs(g, output)
<1>1. out \in Tensors /\ IsNew(out) /\ num.n \in Nat /\ num.n <= Numel(out)
  BY LikeIs, TensorNumel DEF NewNames, IsNew
<1>2. ptr \in Seq(Tensors) /\ ptr # <<>> /\ ptr[Len(ptr)] = out
  BY <1>1
<1>3. "tanh_backward" \in Counted /\ InFp32("tanh_backward")
  BY DEF Counted, InFp32, Registered
<1>4. tanh_backward_op(g, output) = Check(ok, Plan(<<out>>, <<LaunchFp32("tanh_backward", ptr, num)>>))
  BY DEF tanh_backward_op
<1> HIDE DEF out, num, ptr, ok
<1> QED
  BY <1>1, <1>2, <1>3, <1>4, CountedPlan

\* The losses.
LEMMA MseLossAccepted ==
  ASSUME NEW c, NEW input \in Tensors, NEW target \in Tensors
  PROVE  GoodPlan(c, mse_loss_op(input, target))
<1> DEFINE out == Empty("out", <<>>, "fp32")
           num == [n |-> Numel(input), inv_n |-> OneOver(Numel(input))]
           ptr == <<input, target, out>>
           ok  == LossArgs(input, target) /\ Numel(input) > 0
<1>1. out \in Tensors /\ IsNew(out)
  BY EmptyIs, EmptySeq DEF NewNames, IsNew, Dtypes, SixTypes
<1>2. ptr \in Seq(Tensors) /\ ptr # <<>> /\ ptr[Len(ptr)] = out
  BY <1>1
<1>3. "mse_loss" \in Reducing /\ InFp32("mse_loss")
  BY DEF Reducing, InFp32, Registered
<1>4. mse_loss_op(input, target) = Check(ok, Plan(<<out>>, <<LaunchFp32("mse_loss", ptr, num)>>))
  BY DEF mse_loss_op
<1> HIDE DEF out, num, ptr, ok
<1> QED
  BY <1>1, <1>2, <1>3, <1>4, ReducingPlan

\* l1_loss.
LEMMA L1LossAccepted ==
  ASSUME NEW c, NEW input \in Tensors, NEW target \in Tensors
  PROVE  GoodPlan(c, l1_loss_op(input, target))
<1> DEFINE out == Empty("out", <<>>, "fp32")
           num == [n |-> Numel(input), inv_n |-> OneOver(Numel(input))]
           ptr == <<input, target, out>>
           ok  == LossArgs(input, target) /\ Numel(input) > 0
<1>1. out \in Tensors /\ IsNew(out)
  BY EmptyIs, EmptySeq DEF NewNames, IsNew, Dtypes, SixTypes
<1>2. ptr \in Seq(Tensors) /\ ptr # <<>> /\ ptr[Len(ptr)] = out
  BY <1>1
<1>3. "l1_loss" \in Reducing /\ InFp32("l1_loss")
  BY DEF Reducing, InFp32, Registered
<1>4. l1_loss_op(input, target) = Check(ok, Plan(<<out>>, <<LaunchFp32("l1_loss", ptr, num)>>))
  BY DEF l1_loss_op
<1> HIDE DEF out, num, ptr, ok
<1> QED
  BY <1>1, <1>2, <1>3, <1>4, ReducingPlan

\* l2_loss.
LEMMA L2LossAccepted ==
  ASSUME NEW c, NEW input \in Tensors, NEW target \in Tensors
  PROVE  GoodPlan(c, l2_loss_op(input, target))
<1> DEFINE out == Empty("out", <<>>, "fp32")
           num == [n |-> Numel(input)]
           ptr == <<input, target, out>>
           ok  == LossArgs(input, target) /\ Numel(input) > 0
<1>1. out \in Tensors /\ IsNew(out)
  BY EmptyIs, EmptySeq DEF NewNames, IsNew, Dtypes, SixTypes
<1>2. ptr \in Seq(Tensors) /\ ptr # <<>> /\ ptr[Len(ptr)] = out
  BY <1>1
<1>3. "l2_loss" \in Reducing /\ InFp32("l2_loss")
  BY DEF Reducing, InFp32, Registered
<1>4. l2_loss_op(input, target) = Check(ok, Plan(<<out>>, <<LaunchFp32("l2_loss", ptr, num)>>))
  BY DEF l2_loss_op
<1> HIDE DEF out, num, ptr, ok
<1> QED
  BY <1>1, <1>2, <1>3, <1>4, ReducingPlan

\* The gradients of the losses.
LEMMA MseLossBackwardAccepted ==
  ASSUME NEW c, NEW g \in Tensors, NEW input \in Tensors, NEW target \in Tensors
  PROVE  GoodPlan(c, mse_loss_backward_op(g, input, target))
<1> DEFINE out == EmptyLike("grad", input)
           num == [n |-> Numel(input), scale |-> TwoOver(Numel(input))]
           ptr == <<g, input, target, out>>
           ok  == LossArgs(input, target) /\ require_fp32_minigpu_contiguous(g) /\ Numel(g) = 1
<1>1. out \in Tensors /\ IsNew(out) /\ num.n \in Nat /\ num.n <= Numel(out)
  BY LikeIs, TensorNumel DEF NewNames, IsNew
<1>2. ptr \in Seq(Tensors) /\ ptr # <<>> /\ ptr[Len(ptr)] = out
  BY <1>1
<1>3. "mse_loss_backward" \in Counted /\ InFp32("mse_loss_backward")
  BY DEF Counted, InFp32, Registered
<1>4. mse_loss_backward_op(g, input, target) = Check(ok, Plan(<<out>>, <<LaunchFp32("mse_loss_backward", ptr, num)>>))
  BY DEF mse_loss_backward_op
<1> HIDE DEF out, num, ptr, ok
<1> QED
  BY <1>1, <1>2, <1>3, <1>4, CountedPlan

\* l1_loss_backward.
LEMMA L1LossBackwardAccepted ==
  ASSUME NEW c, NEW g \in Tensors, NEW input \in Tensors, NEW target \in Tensors
  PROVE  GoodPlan(c, l1_loss_backward_op(g, input, target))
<1> DEFINE out == EmptyLike("grad", input)
           num == [n |-> Numel(input), scale |-> OneOver(Numel(input))]
           ptr == <<g, input, target, out>>
           ok  == LossArgs(input, target) /\ require_fp32_minigpu_contiguous(g) /\ Numel(g) = 1
<1>1. out \in Tensors /\ IsNew(out) /\ num.n \in Nat /\ num.n <= Numel(out)
  BY LikeIs, TensorNumel DEF NewNames, IsNew
<1>2. ptr \in Seq(Tensors) /\ ptr # <<>> /\ ptr[Len(ptr)] = out
  BY <1>1
<1>3. "l1_loss_backward" \in Counted /\ InFp32("l1_loss_backward")
  BY DEF Counted, InFp32, Registered
<1>4. l1_loss_backward_op(g, input, target) = Check(ok, Plan(<<out>>, <<LaunchFp32("l1_loss_backward", ptr, num)>>))
  BY DEF l1_loss_backward_op
<1> HIDE DEF out, num, ptr, ok
<1> QED
  BY <1>1, <1>2, <1>3, <1>4, CountedPlan

\* l2_loss_backward.
LEMMA L2LossBackwardAccepted ==
  ASSUME NEW c, NEW g \in Tensors, NEW input \in Tensors, NEW target \in Tensors
  PROVE  GoodPlan(c, l2_loss_backward_op(g, input, target))
<1> DEFINE out == EmptyLike("grad", input)
           num == [n |-> Numel(input)]
           ptr == <<g, input, target, out>>
           ok  == LossArgs(input, target) /\ require_fp32_minigpu_contiguous(g) /\ Numel(g) = 1
<1>1. out \in Tensors /\ IsNew(out) /\ num.n \in Nat /\ num.n <= Numel(out)
  BY LikeIs, TensorNumel DEF NewNames, IsNew
<1>2. ptr \in Seq(Tensors) /\ ptr # <<>> /\ ptr[Len(ptr)] = out
  BY <1>1
<1>3. "l2_loss_backward" \in Counted /\ InFp32("l2_loss_backward")
  BY DEF Counted, InFp32, Registered
<1>4. l2_loss_backward_op(g, input, target) = Check(ok, Plan(<<out>>, <<LaunchFp32("l2_loss_backward", ptr, num)>>))
  BY DEF l2_loss_backward_op
<1> HIDE DEF out, num, ptr, ok
<1> QED
  BY <1>1, <1>2, <1>3, <1>4, CountedPlan

-----------------------------------------------------------------------------
\* Reductions over all dimensions.
LEMMA ScalarShape ==
  ASSUME NEW a \in Tensors, NEW keepdim, NEW dtype \in Dtypes
  PROVE  /\ Empty("out", scalar_or_keepdim_shape(a, keepdim), dtype) \in Tensors
         /\ IsNew(Empty("out", scalar_or_keepdim_shape(a, keepdim), dtype))
<1> DEFINE shape == scalar_or_keepdim_shape(a, keepdim)
<1>1. a.shape \in Seq(Nat) /\ Dim(a) \in Nat
  BY DEF Tensors, Dim
<1>2. shape \in Seq(Nat)
  <2>1. [i \in 1..Dim(a) |-> 1] \in Seq(Nat)
    BY <1>1
  <2> QED
    BY <2>1, EmptySeq DEF scalar_or_keepdim_shape
<1> SUFFICES Empty("out", shape, dtype) \in Tensors /\ IsNew(Empty("out", shape, dtype))
  OBVIOUS
<1> HIDE DEF shape
<1> QED
  BY <1>2, EmptyIs DEF NewNames, IsNew

\* sum, amax, amin.
LEMMA ReductionAccepted ==
  ASSUME NEW c, NEW a \in Tensors, NEW keepdim, NEW op \in {"sum", "amax", "amin"}
  PROVE  GoodPlan(c, run_global_reduction_kernel(op, a, keepdim))
<1> DEFINE out == Empty("out", scalar_or_keepdim_shape(a, keepdim), a.dtype)
           num == [n |-> Numel(a)]
           ptr == <<a, out>>
           ok  == require_fp32_minigpu_contiguous(a) /\ Numel(a) > 0
<1>1. out \in Tensors /\ IsNew(out)
  BY ScalarShape DEF Tensors
<1>2. ptr \in Seq(Tensors) /\ ptr # <<>> /\ ptr[Len(ptr)] = out
  BY <1>1
<1>3. op \in Reducing /\ InFp32(op)
  BY DEF Reducing, InFp32, Registered
<1>4. run_global_reduction_kernel(op, a, keepdim) =
        Check(ok, Plan(<<out>>, <<LaunchFp32(op, ptr, num)>>))
  BY DEF run_global_reduction_kernel
<1> HIDE DEF out, num, ptr, ok
<1> QED
  BY <1>1, <1>2, <1>3, <1>4, ReducingPlan

\* mean.
LEMMA MeanAccepted ==
  ASSUME NEW c, NEW a \in Tensors, NEW keepdim
  PROVE  GoodPlan(c, run_mean_kernel(a, keepdim))
<1> DEFINE out == Empty("out", scalar_or_keepdim_shape(a, keepdim), a.dtype)
           num == [n |-> Numel(a), inv_n |-> OneOver(Numel(a))]
           ptr == <<a, out>>
           ok  == require_fp32_minigpu_contiguous(a) /\ Numel(a) > 0
<1>1. out \in Tensors /\ IsNew(out)
  BY ScalarShape DEF Tensors
<1>2. ptr \in Seq(Tensors) /\ ptr # <<>> /\ ptr[Len(ptr)] = out
  BY <1>1
<1>3. "mean" \in Reducing /\ InFp32("mean")
  BY DEF Reducing, InFp32, Registered
<1>4. run_mean_kernel(a, keepdim) = Check(ok, Plan(<<out>>, <<LaunchFp32("mean", ptr, num)>>))
  BY DEF run_mean_kernel
<1> HIDE DEF out, num, ptr, ok
<1> QED
  BY <1>1, <1>2, <1>3, <1>4, ReducingPlan

\* The same with dimensions, which are all of them or refused.
LEMMA ReductionsAccepted ==
  ASSUME NEW c, NEW a \in Tensors, NEW dims, NEW keepdim
  PROVE  /\ GoodPlan(c, sum_dim(a, dims, keepdim)) /\ GoodPlan(c, mean_dim(a, dims, keepdim))
         /\ GoodPlan(c, amax_op(a, dims, keepdim)) /\ GoodPlan(c, amin_op(a, dims, keepdim))
<1>1. GoodPlan(c, sum_dim(a, dims, keepdim))
  <2>1. GoodPlan(c, run_global_reduction_kernel("sum", a, keepdim))
    BY ReductionAccepted
  <2> QED
    BY <2>1, Checked DEF sum_dim
<1>2. GoodPlan(c, mean_dim(a, dims, keepdim))
  BY MeanAccepted, Checked DEF mean_dim
<1>3. GoodPlan(c, amax_op(a, dims, keepdim))
  <2>1. GoodPlan(c, run_global_reduction_kernel("amax", a, keepdim))
    BY ReductionAccepted
  <2> QED
    BY <2>1, Checked DEF amax_op
<1>4. GoodPlan(c, amin_op(a, dims, keepdim))
  <2>1. GoodPlan(c, run_global_reduction_kernel("amin", a, keepdim))
    BY ReductionAccepted
  <2> QED
    BY <2>1, Checked DEF amin_op
<1> QED
  BY <1>1, <1>2, <1>3, <1>4

\* argmax, argmin.
LEMMA ArgmaxAccepted ==
  ASSUME NEW c, NEW a \in Tensors, NEW dim, NEW keepdim, NEW op \in {"argmax", "argmin"}
  PROVE  GoodPlan(c, argmax_op(op, a, dim, keepdim))
<1> DEFINE out == Empty("out", scalar_or_keepdim_shape(a, keepdim), "i32")
           num == [n |-> Numel(a)]
           ptr == <<a, out>>
           ok  == dim = <<>> /\ require_fp32_minigpu_contiguous(a)
<1>1. out \in Tensors /\ IsNew(out)
  BY ScalarShape DEF Dtypes, SixTypes
<1>2. ptr \in Seq(Tensors) /\ ptr # <<>> /\ ptr[Len(ptr)] = out
  BY <1>1
<1>3. op \in Reducing /\ InFp32(op)
  BY DEF Reducing, InFp32, Registered
<1>4. argmax_op(op, a, dim, keepdim) = Check(ok, Plan(<<out>>, <<LaunchFp32(op, ptr, num)>>))
  BY DEF argmax_op
<1> HIDE DEF out, num, ptr, ok
<1> QED
  BY <1>1, <1>2, <1>3, <1>4, ReducingPlan

\* The rows of a softmax and the columns make at most the elements.
LEMMA RowsFit ==
  ASSUME NEW n \in Nat, NEW cols \in Nat \ {0}
  PROVE  n \div cols \in Nat /\ (n \div cols) * cols <= n
  BY QuotientAndRemainder

\* The last dimension is a number.
LEMMA LastIsNat == ASSUME NEW t \in Tensors, Dim(t) > 0 PROVE Last(t) \in Nat
  BY DEF Tensors, Dim, Last

\* softmax over the last dimension.
LEMMA SoftmaxAccepted ==
  ASSUME NEW c, NEW a \in Tensors, NEW dim
  PROVE  GoodPlan(c, softmax_impl(a, dim))
<1> DEFINE out == EmptyLike("out", a)
           cols == Last(a)
           rows == Numel(a) \div cols
           ptr  == <<a, out>>
           l    == LaunchFp32("softmax", ptr, [rows |-> rows, cols |-> cols])
<1>1. out \in Tensors /\ IsNew(out) /\ Numel(out) = Numel(a) /\ Numel(a) \in Nat
  BY LikeIs, TensorNumel DEF NewNames, IsNew
<1>2. ASSUME Dim(a) > 0, cols # 0 PROVE GoodPlan(c, Plan(<<out>>, <<l>>))
  <2>1. cols \in Nat \ {0}
    BY <1>2, LastIsNat
  <2>2. rows \in Nat /\ rows * cols <= Numel(out)
    BY <2>1, <1>1, RowsFit
  <2>3. ptr \in Seq(Tensors) /\ ptr # <<>> /\ ptr[Len(ptr)] = out
    BY <1>1
  <2>4. Passes(c, l, out) /\ l.kernel[1] = "softmax" /\ l.num.rows = rows /\ l.num.cols = cols
    BY <2>3 DEF Passes, LaunchFp32, Launch, Output, Registered
  <2> HIDE DEF l, ptr, rows, cols, out
  <2>5. StoresRows(l, rows, cols)
    BY <2>4, RowsAreStored
  <2>6. Sound(c, l, out)
    BY <1>1, <2>1, <2>2, <2>4, <2>5, RowSound
  <2> QED
    BY <1>1, <2>6, OneLaunch DEF IsNew
<1>3. \/ softmax_impl(a, dim) = Refused \/ softmax_impl(a, dim) = Crashes
      \/ Dim(a) > 0 /\ cols # 0 /\ softmax_impl(a, dim) = Plan(<<out>>, <<l>>)
  BY DEF softmax_impl
<1> HIDE DEF l, out, cols
<1> QED
  BY <1>2, <1>3, Refusing

\* Its backward.
LEMMA SoftmaxBackwardAccepted ==
  ASSUME NEW c, NEW g \in Tensors, NEW output \in Tensors, NEW dim
  PROVE  GoodPlan(c, softmax_backward_data(g, output, dim))
<1> DEFINE out == EmptyLike("out", output)
           cols == Last(output)
           rows == Numel(output) \div cols
           ptr  == <<g, output, out>>
           l    == LaunchFp32("softmax_backward", ptr, [rows |-> rows, cols |-> cols])
<1>1. out \in Tensors /\ IsNew(out) /\ Numel(out) = Numel(output) /\ Numel(output) \in Nat
  BY LikeIs, TensorNumel DEF NewNames, IsNew
<1>2. ASSUME Dim(output) > 0, cols # 0 PROVE GoodPlan(c, Plan(<<out>>, <<l>>))
  <2>1. cols \in Nat \ {0}
    BY <1>2, LastIsNat
  <2>2. rows \in Nat /\ rows * cols <= Numel(out)
    BY <2>1, <1>1, RowsFit
  <2>3. ptr \in Seq(Tensors) /\ ptr # <<>> /\ ptr[Len(ptr)] = out
    BY <1>1
  <2>4. Passes(c, l, out) /\ l.kernel[1] = "softmax_backward" /\ l.num.rows = rows /\ l.num.cols = cols
    BY <2>3 DEF Passes, LaunchFp32, Launch, Output, Registered
  <2> HIDE DEF l, ptr, rows, cols, out
  <2>5. StoresRows(l, rows, cols)
    BY <2>4, RowsAreStored
  <2>6. Sound(c, l, out)
    BY <1>1, <2>1, <2>2, <2>4, <2>5, RowSound
  <2> QED
    BY <1>1, <2>6, OneLaunch DEF IsNew
<1>3. \/ softmax_backward_data(g, output, dim) = Refused
      \/ softmax_backward_data(g, output, dim) = Crashes
      \/ /\ Dim(output) > 0 /\ cols # 0
         /\ softmax_backward_data(g, output, dim) = Plan(<<out>>, <<l>>)
  BY DEF softmax_backward_data
<1> HIDE DEF l, out, cols
<1> QED
  BY <1>2, <1>3, Refusing

-----------------------------------------------------------------------------
\* The pools count the elements of the output they allocated.
LEMMA PoolPlan ==
  ASSUME NEW c, NEW op \in {"max_pool2d", "avg_pool2d", "adaptive_avg_pool2d"}, NEW a \in Tensors,
         NEW shape \in Seq(Nat), NEW num, num.n = NumelOf(shape)
  PROVE  GoodPlan(c, Plan(<<Empty("out", shape, a.dtype)>>,
                          <<LaunchFp32(op, <<a, Empty("out", shape, a.dtype)>>, num)>>))
<1> DEFINE out == Empty("out", shape, a.dtype)
           ptr == <<a, out>>
<1>1. out \in Tensors /\ IsNew(out) /\ num.n \in Nat /\ num.n <= Numel(out)
  <2>1. a.dtype \in Dtypes
    BY DEF Tensors
  <2> QED
    BY <2>1, EmptyIs, NumelIsNat DEF NewNames, IsNew
<1>2. ptr \in Seq(Tensors) /\ ptr # <<>> /\ ptr[Len(ptr)] = out
  BY <1>1
<1>3. op \in Counted /\ InFp32(op)
  BY DEF Counted, InFp32, Registered
<1> SUFFICES GoodPlan(c, Plan(<<out>>, <<LaunchFp32(op, ptr, num)>>))
  OBVIOUS
<1> HIDE DEF out, ptr
<1>4. Sound(c, LaunchFp32(op, ptr, num), out)
  BY <1>1, <1>2, <1>3, Fp32Counted
<1> QED
  BY <1>1, <1>4, OneLaunch DEF IsNew

\* A quotient that truncates is an integer, and one more is a size or less.
LEMMA ConvOutIsInt ==
  ASSUME NEW in \in Nat, NEW kernel \in Nat, NEW stride \in Int, stride > 0
  PROVE  ConvOut(in, kernel, stride) \in Int
<1> DEFINE x == in - kernel
<1>1. x \in Int
  OBVIOUS
<1> HIDE DEF x
<1>2. TruncDiv(x, stride) \in Int
  BY <1>1 DEF TruncDiv
<1> QED
  BY <1>2 DEF ConvOut, x

\* Sizes are numbers.
LEMMA SizesAreNat ==
  ASSUME NEW t \in Tensors
  PROVE  \A i \in 1..Dim(t) : Size(t, i) \in Nat
  BY DEF Tensors, Dim, Size

\* The pools with windows of two by two.
LEMMA Pool2dAccepted ==
  ASSUME NEW c, NEW op \in {"max_pool2d", "avg_pool2d"}, NEW a \in Tensors, Dim(a) = 4,
         NEW stride, stride[1] \in Nat, stride[2] \in Nat
  PROVE  GoodPlan(c, Pool2d(op, a, stride))
<1> DEFINE oh == ConvOut(Size(a, 3), 2, stride[1])
           ow == ConvOut(Size(a, 4), 2, stride[2])
           shape == <<Size(a, 1), Size(a, 2), oh, ow>>
           num == [n |-> NumelOf(shape), c |-> Size(a, 2), ih |-> Size(a, 3), iw |-> Size(a, 4),
                   oh |-> oh, ow |-> ow, sh |-> stride[1], sw |-> stride[2]]
           out == Empty("out", shape, a.dtype)
           p   == Plan(<<out>>, <<LaunchFp32(op, <<a, out>>, num)>>)
           ok  == oh >= 0 /\ ow >= 0
<1>1. \/ Pool2d(op, a, stride) = Crashes
      \/ stride[1] > 0 /\ stride[2] > 0 /\ Pool2d(op, a, stride) = Check(ok, p)
  BY DEF Pool2d, Numel, Empty, Tensor
<1>2. ASSUME stride[1] > 0, stride[2] > 0, ok PROVE GoodPlan(c, p)
  <2>1. Size(a, 1) \in Nat /\ Size(a, 2) \in Nat /\ Size(a, 3) \in Nat /\ Size(a, 4) \in Nat
    BY SizesAreNat
  <2>2. oh \in Nat /\ ow \in Nat
    <3> HIDE DEF oh, ow
    <3>1. oh \in Int /\ ow \in Int
      BY <1>2, <2>1, ConvOutIsInt DEF oh, ow
    <3> QED
      BY <3>1, <1>2
  <2> HIDE DEF oh, ow
  <2>3. shape \in Seq(Nat)
    BY <2>1, <2>2
  <2>4. num.n = NumelOf(shape)
    OBVIOUS
  <2> HIDE DEF shape, num
  <2> QED
    BY <2>3, <2>4, PoolPlan
<1> HIDE DEF p, oh, ow
<1>3. stride[1] > 0 /\ stride[2] > 0 => GoodPlan(c, Check(ok, p))
  BY <1>2, Checked
<1> QED
  BY <1>1, <1>3, Refusing

\* A list of one or two sizes that are not negative makes a pair of them.
LEMMA PairsAreNat ==
  ASSUME NEW values \in Seq(Int), pair_u32(values), NEW fallback,
         fallback[1] \in Nat, fallback[2] \in Nat
  PROVE  pair_u32_or(values, fallback)[1] \in Nat /\ pair_u32_or(values, fallback)[2] \in Nat
<1>1. Len(values) \in Nat /\ Len(values) <= 2
  BY DEF pair_u32
<1>2. \A i \in 1..Len(values) : values[i] \in Nat
  BY DEF pair_u32
<1>3. CASE Len(values) = 0
  BY <1>3 DEF pair_u32_or
<1>4. CASE Len(values) = 1
  <2>1. values[1] \in Nat
    BY <1>2, <1>4
  <2>2. pair_u32_or(values, fallback) = <<values[1], values[1]>>
    BY <1>4 DEF pair_u32_or
  <2> QED
    BY <2>1, <2>2
<1>5. CASE Len(values) = 2
  <2>1. values[1] \in Nat /\ values[2] \in Nat
    BY <1>2, <1>5
  <2>2. pair_u32_or(values, fallback) = values
    BY <1>5 DEF pair_u32_or
  <2> QED
    BY <2>1, <2>2
<1>6. Len(values) = 0 \/ Len(values) = 1 \/ Len(values) = 2
  <2>1. \A n \in Nat : n <= 2 => n = 0 \/ n = 1 \/ n = 2
    OBVIOUS
  <2> QED
    BY <1>1, <2>1, Zenon
<1> QED
  BY <1>3, <1>4, <1>5, <1>6

\* max_pool2d.
LEMMA MaxPoolAccepted ==
  ASSUME NEW c, NEW a \in Tensors, NEW arg, arg.kernel \in Seq(Int), arg.stride \in Seq(Int)
  PROVE  GoodPlan(c, max_pool2d_op(a, arg))
<1> DEFINE kernel == pair_u32_or(arg.kernel, <<0, 0>>)
           stride == pair_u32_or(arg.stride, kernel)
           ok == /\ require_fp32_minigpu_contiguous(a) /\ Dim(a) = 4
                 /\ \A v \in {arg.kernel, arg.stride, arg.padding, arg.dilation} : pair_u32(v)
                 /\ pair_u32_or(arg.padding, <<0, 0>>) = <<0, 0>>
                 /\ pair_u32_or(arg.dilation, <<1, 1>>) = <<1, 1>>
                 /\ ~arg.ceil_mode /\ kernel = <<2, 2>>
<1>1. max_pool2d_op(a, arg) = Check(ok, Pool2d("max_pool2d", a, stride))
  BY DEF max_pool2d_op
<1>2. ASSUME ok PROVE GoodPlan(c, Pool2d("max_pool2d", a, stride))
  <2>1. kernel[1] \in Nat /\ kernel[2] \in Nat /\ pair_u32(arg.stride) /\ Dim(a) = 4
    BY <1>2
  <2> HIDE DEF kernel
  <2>2. stride[1] \in Nat /\ stride[2] \in Nat
    BY <2>1, PairsAreNat
  <2> HIDE DEF stride
  <2> QED
    BY <2>1, <2>2, Pool2dAccepted
<1> HIDE DEF stride, ok
<1> QED
  BY <1>1, <1>2, Checked

\* avg_pool2d.
LEMMA AvgPoolAccepted ==
  ASSUME NEW c, NEW a \in Tensors, NEW arg, arg.kernel \in Seq(Int), arg.stride \in Seq(Int)
  PROVE  GoodPlan(c, avg_pool2d_op(a, arg))
<1> DEFINE kernel == pair_u32_or(arg.kernel, <<0, 0>>)
           stride == pair_u32_or(arg.stride, kernel)
           ok == /\ require_fp32_minigpu_contiguous(a) /\ Dim(a) = 4
                 /\ \A v \in {arg.kernel, arg.stride, arg.padding} : pair_u32(v)
                 /\ pair_u32_or(arg.padding, <<0, 0>>) = <<0, 0>>
                 /\ ~arg.ceil_mode /\ arg.count_include_pad /\ arg.divisor_override = <<>>
                 /\ kernel = <<2, 2>>
<1>1. avg_pool2d_op(a, arg) = Check(ok, Pool2d("avg_pool2d", a, stride))
  BY DEF avg_pool2d_op
<1>2. ASSUME ok PROVE GoodPlan(c, Pool2d("avg_pool2d", a, stride))
  <2>1. kernel[1] \in Nat /\ kernel[2] \in Nat /\ pair_u32(arg.stride) /\ Dim(a) = 4
    BY <1>2
  <2> HIDE DEF kernel
  <2>2. stride[1] \in Nat /\ stride[2] \in Nat
    BY <2>1, PairsAreNat
  <2> HIDE DEF stride
  <2> QED
    BY <2>1, <2>2, Pool2dAccepted
<1> HIDE DEF stride, ok
<1> QED
  BY <1>1, <1>2, Checked

\* adaptive_avg_pool2d, to any size it accepts.
LEMMA AdaptivePoolAccepted ==
  ASSUME NEW c, NEW a \in Tensors, NEW size \in Seq(Int)
  PROVE  GoodPlan(c, adaptive_avg_pool2d_op(a, size))
<1> DEFINE shape == <<Size(a, 1), Size(a, 2), size[1], size[2]>>
           num == [n |-> NumelOf(shape), c |-> Size(a, 2), ih |-> Size(a, 3), iw |-> Size(a, 4),
                   oh |-> size[1], ow |-> size[2]]
           out == Empty("out", shape, a.dtype)
           p   == Plan(<<out>>, <<LaunchFp32("adaptive_avg_pool2d", <<a, out>>, num)>>)
           ok  == /\ require_fp32_minigpu_contiguous(a) /\ Dim(a) = 4 /\ Len(size) = 2
                  /\ size[1] >= 0 /\ size[2] >= 0
                  /\ Size(a, 3) = 2 * size[1] /\ Size(a, 4) = 2 * size[2]
<1>1. adaptive_avg_pool2d_op(a, size) = Check(ok, p)
  BY DEF adaptive_avg_pool2d_op, Numel, Empty, Tensor
<1>2. ASSUME ok PROVE GoodPlan(c, p)
  <2>1. Size(a, 1) \in Nat /\ Size(a, 2) \in Nat
    BY <1>2, SizesAreNat
  <2>2. size[1] \in Nat /\ size[2] \in Nat
    <3>1. 1 \in DOMAIN size /\ 2 \in DOMAIN size /\ size[1] >= 0 /\ size[2] >= 0
      BY <1>2
    <3> HIDE DEF ok
    <3> QED
      BY <3>1
  <2>3. shape \in Seq(Nat)
    <3> HIDE DEF ok
    <3> QED
      BY <2>1, <2>2
  <2>4. num.n = NumelOf(shape)
    OBVIOUS
  <2> HIDE DEF shape, num
  <2> QED
    BY <2>3, <2>4, PoolPlan
<1> HIDE DEF p, ok
<1> QED
  BY <1>1, <1>2, Checked

-----------------------------------------------------------------------------
\* Two kernels, the second of which reads what the first one stored.
LEMMA TwoLaunches ==
  ASSUME NEW c, NEW t \in Tensors, NEW u \in Tensors, IsNew(t), IsNew(u), t.name # u.name,
         NEW k, NEW l, Sound(c, k, t), Sound(c, l, u)
  PROVE  GoodPlan(c, Plan(<<t, u>>, <<k, l>>))
<1>1. GoodLaunch(c, k, <<t, u>>) /\ GoodLaunch(c, l, <<t, u>>)
  BY DEF GoodLaunch, Sound, Passes
<1>2. GoodFresh(<<t, u>>)
  BY DEF GoodFresh, IsNew
<1> QED
  BY <1>1, <1>2 DEF GoodPlan, Plan

\* And three.
LEMMA ThreeLaunches ==
  ASSUME NEW c, NEW t \in Tensors, NEW u \in Tensors, NEW v \in Tensors,
         IsNew(t), IsNew(u), IsNew(v), t.name # u.name, t.name # v.name, u.name # v.name,
         NEW j, NEW k, NEW l, Sound(c, j, t), Sound(c, k, u), Sound(c, l, v)
  PROVE  GoodPlan(c, Plan(<<t, u, v>>, <<j, k, l>>))
<1> DEFINE F == <<t, u, v>>
           L == <<j, k, l>>
           p == Plan(F, L)
<1>1. p.kind = "launching" /\ p.fresh = F /\ p.launches = L /\ p.copy = <<>>
  BY DEF Plan
<1>2. GoodFresh(F)
  BY DEF GoodFresh, IsNew
<1>3. GoodLaunch(c, j, F) /\ GoodLaunch(c, k, F) /\ GoodLaunch(c, l, F)
  BY DEF GoodLaunch, Sound, Passes
<1>4. Len(L) = 3 /\ L[1] = j /\ L[2] = k /\ L[3] = l
  OBVIOUS
<1> HIDE DEF F, L, p
<1>5. ASSUME NEW i \in 1..Len(L) PROVE GoodLaunch(c, L[i], F)
  <2>1. i = 1 \/ i = 2 \/ i = 3
    BY <1>4
  <2> QED
    BY <1>3, <1>4, <2>1
<1>6. Len(L) \in Nat
  BY <1>4
<1>7. GoodPlan(c, p)
  BY <1>1, <1>2, <1>5, <1>6 DEF GoodPlan
<1> QED
  BY <1>7 DEF p, F, L

\* The fp32 tensors that an operator makes for its result and on the way.
LEMMA Fp32OutIs ==
  ASSUME NEW shape \in Seq(Nat)
  PROVE  /\ Empty("out", shape, "fp32") \in Tensors
         /\ Empty("out", shape, "fp32").name = "out"
         /\ Numel(Empty("out", shape, "fp32")) = NumelOf(shape)
  BY EmptyIs DEF NewNames, Dtypes, SixTypes

\* The tensor of statistics.
LEMMA StatsIs ==
  ASSUME NEW shape \in Seq(Nat)
  PROVE  /\ Empty("stats", shape, "fp32") \in Tensors
         /\ Empty("stats", shape, "fp32").name = "stats"
         /\ Numel(Empty("stats", shape, "fp32")) = NumelOf(shape)
  BY EmptyIs DEF NewNames, Dtypes, SixTypes

\* The statistics of a cross entropy are three for each row.
LEMMA StatsSound ==
  ASSUME NEW c, NEW logits \in Tensors, NEW target \in Tensors, ClassArgs(logits, target)
  PROVE  LET stats == Empty("stats", <<Size(logits, 1), 3>>, "fp32")
         IN stats \in Tensors /\ stats.name = "stats"
            /\ Sound(c, CrossEntropyStats(logits, target, stats), stats)
<1> DEFINE rows  == Size(logits, 1)
           cols  == Size(logits, 2)
           shape == <<rows, 3>>
           stats == Empty("stats", shape, "fp32")
           ptr   == <<logits, target, stats>>
           l     == LaunchFp32("cross_entropy_stats", ptr, [rows |-> rows, cols |-> cols])
<1>1. rows \in Nat
  BY SizesAreNat DEF ClassArgs
<1>2. shape \in Seq(Nat) /\ Len(shape) = 2 /\ shape[1] = rows /\ shape[2] = 3
  BY <1>1
<1>3. stats \in Tensors /\ stats.name = "stats" /\ Numel(stats) = rows * 3
  <2> HIDE DEF shape
  <2>1. NumelOf(shape) = rows * 3
    BY <1>2, NumelOfFew
  <2> QED
    BY <1>2, <2>1, StatsIs
<1>4. ptr \in Seq(Tensors) /\ ptr # <<>> /\ ptr[Len(ptr)] = stats
  BY <1>3
<1>5. Passes(c, l, stats) /\ l.kernel[1] = "cross_entropy_stats" /\ l.num.rows = rows
  BY <1>4 DEF Passes, LaunchFp32, Launch, Output, Registered
<1>6. CrossEntropyStats(logits, target, stats) = l
  BY DEF CrossEntropyStats
<1>7. Sound(c, l, stats)
  <2> HIDE DEF l, stats, rows
  <2>1. StoresRows(l, rows, 3)
    BY <1>5, RowsAreStored
  <2>2. rows * 3 <= Numel(stats)
    BY <1>1, <1>3
  <2> QED
    BY <1>1, <1>3, <1>5, <2>1, <2>2, RowSound
<1> QED
  BY <1>3, <1>6, <1>7

\* cross_entropy.
LEMMA CrossEntropyAccepted ==
  ASSUME NEW c, NEW logits \in Tensors, NEW target \in Tensors
  PROVE  GoodPlan(c, cross_entropy_loss(logits, target))
<1> DEFINE rows  == Size(logits, 1)
           stats == Empty("stats", <<rows, 3>>, "fp32")
           out   == Empty("out", <<>>, "fp32")
           k     == CrossEntropyStats(logits, target, stats)
           ptr   == <<stats, out>>
           num   == [rows |-> rows, inv_rows |-> OneOver(rows)]
           l     == LaunchFp32("cross_entropy_finish", ptr, num)
           ok    == ClassArgs(logits, target) /\ rows > 0 /\ Size(logits, 2) > 0
<1>1. cross_entropy_loss(logits, target) = Check(ok, Plan(<<stats, out>>, <<k, l>>))
  BY DEF cross_entropy_loss
<1>2. out \in Tensors /\ out.name = "out"
  BY Fp32OutIs, EmptySeq
<1>3. ASSUME ok PROVE GoodPlan(c, Plan(<<stats, out>>, <<k, l>>))
  <2>1. stats \in Tensors /\ stats.name = "stats" /\ Sound(c, k, stats)
    BY <1>3, StatsSound
  <2>2. ptr \in Seq(Tensors) /\ ptr # <<>> /\ ptr[Len(ptr)] = out
    BY <1>2, <2>1
  <2>3. "cross_entropy_finish" \in Reducing /\ InFp32("cross_entropy_finish")
    BY DEF Reducing, InFp32, Registered
  <2> HIDE DEF k, ptr, num, out, stats
  <2>4. Sound(c, l, out)
    BY <2>2, <2>3, Fp32Reducing
  <2> HIDE DEF l
  <2>5. IsNew(stats) /\ IsNew(out) /\ stats.name # out.name
    BY <1>2, <2>1 DEF IsNew
  <2> QED
    BY <1>2, <2>1, <2>4, <2>5, TwoLaunches
<1> HIDE DEF k, l, out, stats, ok
<1> QED
  BY <1>1, <1>3, Checked

\* cross_entropy_debug.
LEMMA CrossEntropyDebugAccepted ==
  ASSUME NEW c, NEW logits \in Tensors, NEW target \in Tensors
  PROVE  GoodPlan(c, cross_entropy_debug_op(logits, target))
<1> DEFINE rows  == Size(logits, 1)
           stats == Empty("stats", <<rows, 3>>, "fp32")
           shape == <<rows, 5>>
           out   == Empty("out", shape, "fp32")
           k     == CrossEntropyStats(logits, target, stats)
           ptr   == <<stats, out>>
           l     == LaunchFp32("cross_entropy_debug_finish", ptr, [rows |-> rows])
           ok    == ClassArgs(logits, target) /\ rows > 0 /\ Size(logits, 2) > 0
<1>1. cross_entropy_debug_op(logits, target) = Check(ok, Plan(<<stats, out>>, <<k, l>>))
  BY DEF cross_entropy_debug_op
<1>2. ASSUME ok PROVE GoodPlan(c, Plan(<<stats, out>>, <<k, l>>))
  <2>1. stats \in Tensors /\ stats.name = "stats" /\ Sound(c, k, stats)
    BY <1>2, StatsSound
  <2>2. rows \in Nat
    BY <1>2, SizesAreNat DEF ClassArgs
  <2> HIDE DEF rows, k, stats
  <2>3. shape \in Seq(Nat) /\ Len(shape) = 2 /\ shape[1] = rows /\ shape[2] = 5
    BY <2>2
  <2> HIDE DEF shape
  <2>4. NumelOf(shape) = rows * 5
    BY <2>3, NumelOfFew
  <2>5. out \in Tensors /\ out.name = "out" /\ Numel(out) = rows * 5
    BY <2>3, <2>4, Fp32OutIs
  <2>6. ptr \in Seq(Tensors) /\ ptr # <<>> /\ ptr[Len(ptr)] = out
    BY <2>1, <2>5
  <2>7. Passes(c, l, out) /\ l.kernel[1] = "cross_entropy_debug_finish" /\ l.num.rows = rows
    BY <2>6 DEF Passes, LaunchFp32, Launch, Output, Registered
  <2> HIDE DEF l, out
  <2>8. StoresRows(l, rows, 5)
    BY <2>7, RowsAreStored
  <2>9. rows * 5 <= Numel(out)
    BY <2>2, <2>5
  <2>10. Sound(c, l, out)
    BY <2>2, <2>5, <2>7, <2>8, <2>9, RowSound
  <2>11. IsNew(stats) /\ IsNew(out) /\ stats.name # out.name
    BY <2>1, <2>5 DEF IsNew
  <2> QED
    BY <2>1, <2>5, <2>10, <2>11, TwoLaunches
<1> HIDE DEF k, l, out, stats, ok
<1> QED
  BY <1>1, <1>2, Checked

\* A matrix has rows times columns.
LEMMA MatrixNumel ==
  ASSUME NEW t \in Tensors, Dim(t) = 2
  PROVE  /\ Numel(t) = Size(t, 1) * Size(t, 2)
         /\ Size(t, 1) \in Nat /\ Size(t, 2) \in Nat
<1>1. t.shape \in Seq(Nat) /\ Len(t.shape) = 2
  BY DEF Tensors, Dim
<1>2. Numel(t) = t.shape[1] * t.shape[2]
  BY <1>1, NumelOfFew DEF Numel
<1> QED
  BY <1>1, <1>2 DEF Size

\* cross_entropy_backward.
LEMMA CrossEntropyBackwardAccepted ==
  ASSUME NEW c, NEW g \in Tensors, NEW logits \in Tensors, NEW target \in Tensors
  PROVE  GoodPlan(c, cross_entropy_loss_backward(g, logits, target))
<1> DEFINE rows == Size(logits, 1)
           cols == Size(logits, 2)
           out  == EmptyLike("grad", logits)
           ptr  == <<g, logits, target, out>>
           l    == LaunchFp32("cross_entropy_backward", ptr,
                              [rows |-> rows, cols |-> cols, inv_rows |-> OneOver(rows)])
           ok   == ClassArgs(logits, target) /\ require_fp32_minigpu_contiguous(g) /\ Numel(g) = 1
<1>1. cross_entropy_loss_backward(g, logits, target) = Check(ok, Plan(<<out>>, <<l>>))
  BY DEF cross_entropy_loss_backward
<1>2. out \in Tensors /\ IsNew(out) /\ Numel(out) = Numel(logits)
  BY LikeIs DEF NewNames, IsNew
<1>3. ASSUME ok PROVE Sound(c, l, out)
  <2>1. rows \in Nat /\ cols \in Nat /\ Numel(out) = rows * cols
    BY <1>2, <1>3, MatrixNumel DEF ClassArgs
  <2>2. ptr \in Seq(Tensors) /\ ptr # <<>> /\ ptr[Len(ptr)] = out
    BY <1>2
  <2>3. /\ Passes(c, l, out) /\ l.kernel[1] = "cross_entropy_backward"
        /\ l.num.rows = rows /\ l.num.cols = cols
    BY <2>2 DEF Passes, LaunchFp32, Launch, Output, Registered
  <2> HIDE DEF l, out, rows, cols
  <2>4. Maps(l, rows * cols) /\ rows * cols \in Nat /\ rows * cols <= Numel(out)
    BY <2>1, <2>3, MatrixMaps
  <2> QED
    BY <1>2, <2>3, <2>4, MapSound
<1> HIDE DEF out, l, ok
<1>4. ok => GoodPlan(c, Plan(<<out>>, <<l>>))
  BY <1>2, <1>3, OneLaunch DEF IsNew
<1> QED
  BY <1>1, <1>4, Checked

-----------------------------------------------------------------------------
\* Products of matrices and vectors: the helper's check follows from the
\* operator's, and the loop runs over the elements of the output.
LEMMA MmAccepted ==
  ASSUME NEW c, NEW a \in Tensors, NEW b \in Tensors
  PROVE  GoodPlan(c, mm(a, b))
<1> DEFINE m == Size(a, 1)
           n == Size(b, 2)
           shape == <<m, n>>
           out == Empty("out", shape, a.dtype)
           l   == launch_matmul(a, b, out, m, n, Size(a, 2))
           ok  == /\ require_minigpu_contiguous(a) /\ require_minigpu_contiguous(b)
                  /\ Dim(a) = 2 /\ Dim(b) = 2 /\ Size(a, 2) = Size(b, 1)
                  /\ SameDtype(a, b) /\ a.dtype \in {"i32", "fp32"}
<1>1. mm(a, b) = Check(ok, Plan(<<out>>, <<l>>))
  BY DEF mm
<1>2. ASSUME ok PROVE out \in Tensors /\ IsNew(out) /\ Sound(c, l, out)
  <2>1. m \in Nat /\ n \in Nat /\ a.dtype \in {"i32", "fp32"} /\ b.dtype = a.dtype
    BY <1>2, SizesAreNat DEF SameDtype
  <2> HIDE DEF m, n
  <2>2. shape \in Seq(Nat) /\ Len(shape) = 2 /\ shape[1] = m /\ shape[2] = n
    BY <2>1
  <2> HIDE DEF shape
  <2>3. NumelOf(shape) = m * n
    BY <2>2, NumelOfFew
  <2>4. out \in Tensors /\ out.name = "out" /\ out.dtype = a.dtype /\ Numel(out) = m * n
    BY <2>2, <2>3, EmptyIs DEF NewNames, Tensors
  <2>5. l.pointers = <<a, b, out>> /\ Output(l) = out /\ l.kernel = <<"matmul", a.dtype>>
        /\ l.num.m = m /\ l.num.n = n /\ l.ok = SameDtypes(<<a, b, out>>)
    BY DEF launch_matmul, Launch, Output
  <2> HIDE DEF l, out
  <2>6. SameDtypes(<<a, b, out>>)
    BY <2>1, <2>4 DEF SameDtypes
  <2>7. l.kernel \in Registered
    BY <2>1, <2>5 DEF Registered
  <2>8. l.pointers \in Seq(Tensors) /\ l.pointers # <<>>
    BY <2>4, <2>5
  <2>9. Passes(c, l, out)
    BY <2>5, <2>6, <2>7, <2>8 DEF Passes
  <2>10. Maps(l, m * n) /\ m * n \in Nat /\ m * n <= Numel(out)
    BY <2>1, <2>4, <2>5, MatrixMaps
  <2>11. Sound(c, l, out)
    BY <2>4, <2>9, <2>10, MapSound
  <2> QED
    BY <2>4, <2>11 DEF IsNew
<1> HIDE DEF out, l, ok
<1>3. ok => GoodPlan(c, Plan(<<out>>, <<l>>))
  BY <1>2, OneLaunch DEF IsNew
<1> QED
  BY <1>1, <1>3, Checked

\* mv.
LEMMA MvAccepted ==
  ASSUME NEW c, NEW a \in Tensors, NEW x \in Tensors
  PROVE  GoodPlan(c, mv(a, x))
<1> DEFINE m == Size(a, 1)
           shape == <<m>>
           out == Empty("out", shape, a.dtype)
           l   == launch_gemv(a, x, out, m, Size(a, 2))
           ok  == /\ require_minigpu_contiguous(a) /\ require_minigpu_contiguous(x)
                  /\ Dim(a) = 2 /\ Dim(x) = 1 /\ Size(a, 2) = Size(x, 1)
                  /\ SameDtype(a, x) /\ supported_kernel_dtype(a)
<1>1. mv(a, x) = Check(ok, Plan(<<out>>, <<l>>))
  BY DEF mv
<1>2. ASSUME ok PROVE out \in Tensors /\ IsNew(out) /\ Sound(c, l, out)
  <2>1. m \in Nat /\ a.dtype \in {"i32", "fp32"} /\ x.dtype = a.dtype
    BY <1>2, SizesAreNat DEF SameDtype, supported_kernel_dtype
  <2> HIDE DEF m
  <2>2. shape \in Seq(Nat)
    BY <2>1
  <2>3. NumelOf(shape) = m
    BY <2>1, NumelOfFew
  <2> HIDE DEF shape
  <2>4. out \in Tensors /\ out.name = "out" /\ out.dtype = a.dtype /\ Numel(out) = m
    BY <2>2, <2>3, EmptyIs DEF NewNames, Tensors
  <2>5. l.pointers = <<a, x, out>> /\ Output(l) = out /\ l.kernel = <<"gemv", a.dtype>>
        /\ l.num.m = m /\ l.ok = SameDtypes(<<a, x, out>>)
    BY DEF launch_gemv, Launch, Output
  <2> HIDE DEF l, out
  <2>6. SameDtypes(<<a, x, out>>)
    BY <2>1, <2>4 DEF SameDtypes
  <2>7. l.kernel \in Registered
    BY <2>1, <2>5 DEF Registered
  <2>8. l.pointers \in Seq(Tensors) /\ l.pointers # <<>>
    BY <2>4, <2>5
  <2>9. Passes(c, l, out)
    BY <2>5, <2>6, <2>7, <2>8 DEF Passes
  <2>10. Maps(l, m) /\ m <= Numel(out)
    BY <2>1, <2>4, <2>5, MatrixMaps
  <2>11. Sound(c, l, out)
    BY <2>1, <2>4, <2>9, <2>10, MapSound
  <2> QED
    BY <2>4, <2>11 DEF IsNew
<1> HIDE DEF out, l, ok
<1>3. ok => GoodPlan(c, Plan(<<out>>, <<l>>))
  BY <1>2, OneLaunch DEF IsNew
<1> QED
  BY <1>1, <1>3, Checked

\* dot.
LEMMA DotAccepted ==
  ASSUME NEW c, NEW a \in Tensors, NEW b \in Tensors
  PROVE  GoodPlan(c, dot_op(a, b))
<1> DEFINE shape == <<>>
           out == Empty("out", shape, a.dtype)
           l   == launch_dot(a, b, out, Size(a, 1))
           ok  == /\ require_minigpu_contiguous(a) /\ require_minigpu_contiguous(b)
                  /\ Dim(a) = 1 /\ Dim(b) = 1 /\ Size(a, 1) = Size(b, 1)
                  /\ SameDtype(a, b) /\ supported_kernel_dtype(a)
<1>1. dot_op(a, b) = Check(ok, Plan(<<out>>, <<l>>))
  BY DEF dot_op
<1>2. a.dtype \in Dtypes
  BY DEF Tensors
<1>3. out \in Tensors /\ out.name = "out" /\ out.dtype = a.dtype
  <2>1. shape \in Seq(Nat)
    OBVIOUS
  <2> HIDE DEF shape
  <2> QED
    BY <1>2, <2>1, EmptyIs DEF NewNames
<1>4. ASSUME ok PROVE Sound(c, l, out)
  <2>1. a.dtype \in {"i32", "fp32"} /\ b.dtype = a.dtype
    BY <1>4 DEF SameDtype, supported_kernel_dtype
  <2>2. l.pointers = <<a, b, out>> /\ Output(l) = out /\ l.kernel = <<"dot", a.dtype>>
        /\ l.ok = SameDtypes(<<a, b, out>>)
    BY DEF launch_dot, Launch, Output
  <2> HIDE DEF l, out
  <2>3. SameDtypes(<<a, b, out>>)
    BY <1>3, <2>1 DEF SameDtypes
  <2>4. l.kernel \in Registered
    BY <2>1, <2>2 DEF Registered
  <2>5. l.pointers \in Seq(Tensors) /\ l.pointers # <<>>
    BY <1>3, <2>2
  <2>6. Passes(c, l, out)
    BY <2>2, <2>3, <2>4, <2>5 DEF Passes
  <2>7. StoresOne(l)
    BY <2>2, ReducingStoresOne DEF Reducing
  <2> QED
    BY <1>3, <2>6, <2>7, WholeSound
<1> HIDE DEF out, l, ok
<1>5. ok => GoodPlan(c, Plan(<<out>>, <<l>>))
  BY <1>3, <1>4, OneLaunch
<1> QED
  BY <1>1, <1>5, Checked

\* addmm, in an output like its first argument.
LEMMA AddmmAccepted ==
  ASSUME NEW c, NEW self \in Tensors, NEW mat1 \in Tensors, NEW mat2 \in Tensors, NEW beta, NEW alpha
  PROVE  GoodPlan(c, addmm_op(self, mat1, mat2, beta, alpha))
<1> DEFINE m == Size(mat1, 1)
           n == Size(mat2, 2)
           out == EmptyLike("out", self)
           l   == launch_addmm(self, mat1, mat2, out, beta, alpha, m, n, Size(mat1, 2))
           ok  == /\ \A t \in {self, mat1, mat2} : require_minigpu_contiguous(t) /\ Dim(t) = 2
                  /\ Size(mat1, 2) = Size(mat2, 1)
                  /\ self.shape = <<Size(mat1, 1), Size(mat2, 2)>>
                  /\ SameDtypes(<<self, mat1, mat2>>) /\ self.dtype = "fp32"
<1>1. addmm_op(self, mat1, mat2, beta, alpha) = Check(ok, Plan(<<out>>, <<l>>))
  BY DEF addmm_op
<1>2. /\ out \in Tensors /\ out.name = "out" /\ out.dtype = self.dtype
      /\ Numel(out) = Numel(self)
  BY LikeIs DEF NewNames
<1>3. ASSUME ok PROVE Sound(c, l, out)
  <2>1. self.dtype = "fp32" /\ mat1.dtype = "fp32" /\ mat2.dtype = "fp32"
    BY <1>3 DEF SameDtypes
  <2>2. Dim(self) = 2 /\ Size(self, 1) = m /\ Size(self, 2) = n
    BY <1>3 DEF Size
  <2>3. m \in Nat /\ n \in Nat /\ Numel(out) = m * n
    BY <1>2, <2>2, MatrixNumel
  <2>4. l.pointers = <<self, mat1, mat2, out>> /\ Output(l) = out /\ l.kernel = <<"addmm", "fp32">>
        /\ l.num.m = m /\ l.num.n = n
        /\ l.ok = (SameDtypes(<<self, mat1, mat2, out>>) /\ self.dtype = "fp32")
    BY DEF launch_addmm, Launch, Output
  <2> HIDE DEF l, out, m, n
  <2>5. SameDtypes(<<self, mat1, mat2, out>>)
    BY <1>2, <2>1 DEF SameDtypes
  <2>6. l.kernel \in Registered
    BY <2>4 DEF Registered
  <2>7. l.pointers \in Seq(Tensors) /\ l.pointers # <<>>
    BY <1>2, <2>4
  <2>8. Passes(c, l, out)
    BY <2>1, <2>4, <2>5, <2>6, <2>7 DEF Passes
  <2>9. Maps(l, m * n) /\ m * n \in Nat /\ m * n <= Numel(out)
    BY <2>3, <2>4, MatrixMaps
  <2> QED
    BY <1>2, <2>8, <2>9, MapSound
<1> HIDE DEF out, l, ok
<1>4. ok => GoodPlan(c, Plan(<<out>>, <<l>>))
  BY <1>2, <1>3, OneLaunch
<1> QED
  BY <1>1, <1>4, Checked

-----------------------------------------------------------------------------
\* A launch that the operator's checks let pass the helper's, for the kernels
\* of both data types.
LEMMA TypedPasses ==
  ASSUME NEW c, NEW l, NEW out \in Tensors, NEW ptr \in Seq(Tensors), Len(ptr) \in Nat \ {0},
         \A i \in DOMAIN ptr : ptr[i].dtype = ptr[1].dtype, ptr[Len(ptr)] = out,
         l.pointers = ptr, l.ok = SameDtypes(ptr),
         l.kernel \in Registered \/ (c.op = "convolution" /\ c.in[1].dtype = "i32")
  PROVE  Passes(c, l, out)
<1>1. SameDtypes(ptr)
  BY DEF SameDtypes
<1>2. Output(l) = out /\ l.pointers # <<>>
  BY DEF Output
<1> QED
  BY <1>1, <1>2 DEF Passes

\* linear, of a vector or of rows, with a bias or without.
LEMMA LinearAccepted ==
  ASSUME NEW c, NEW input \in Tensors, NEW weight \in Tensors, NEW bias \in Seq(Tensors)
  PROVE  GoodPlan(c, linear_op(input, weight, bias))
<1> DEFINE rows  == IF Dim(input) = 1 THEN 1 ELSE Size(input, 1)
           of    == Size(weight, 1)
           shape == IF Dim(input) = 1 THEN <<of>> ELSE <<rows, of>>
           out   == Empty("out", shape, input.dtype)
           total_ == rows * of
           l == IF bias = <<>> THEN launch_linear(input, weight, out, total_, of, Size(weight, 2))
                ELSE launch_linear_bias(input, weight, bias[1], out, total_, of, Size(weight, 2))
           ok == /\ require_minigpu_contiguous(input) /\ require_minigpu_contiguous(weight)
                 /\ Dim(input) \in {1, 2} /\ Dim(weight) = 2
                 /\ SameDtype(input, weight) /\ Last(input) = Size(weight, 2)
                 /\ supported_kernel_dtype(input) /\ BiasFits(bias, weight, input)
<1>1. linear_op(input, weight, bias) = Check(ok, Plan(<<out>>, <<l>>))
  BY DEF linear_op
<1>2. ASSUME ok PROVE out \in Tensors /\ IsNew(out) /\ Sound(c, l, out)
  <2>1. of \in Nat /\ rows \in Nat
    BY <1>2, SizesAreNat
  <2>2. input.dtype \in {"i32", "fp32"} /\ weight.dtype = input.dtype
    BY <1>2 DEF SameDtype, supported_kernel_dtype
  <2>3. bias # <<>> => bias[1] \in Tensors /\ bias[1].dtype = input.dtype
    BY <1>2 DEF BiasFits, SameDtype
  <2>4. Dim(input) = 1 => rows = 1
    OBVIOUS
  <2> HIDE DEF rows, of
  <2>5. shape \in Seq(Nat) /\ NumelOf(shape) = rows * of
    <3>1. CASE Dim(input) = 1
      BY <2>1, <2>4, <3>1, NumelOfFew
    <3>2. CASE Dim(input) # 1
      <4>1. shape \in Seq(Nat) /\ Len(shape) = 2 /\ shape[1] = rows /\ shape[2] = of
        BY <2>1, <3>2
      <4> HIDE DEF shape
      <4> QED
        BY <4>1, NumelOfFew
    <3> QED
      BY <3>1, <3>2
  <2> HIDE DEF shape
  <2>6. out \in Tensors /\ out.name = "out" /\ out.dtype = input.dtype /\ Numel(out) = total_
    BY <2>5, EmptyIs DEF NewNames, Tensors
  <2>7. total_ \in Nat
    BY <2>1
  <2>8. /\ l.num.n = total_
        /\ bias = <<>> => /\ l.pointers = <<input, weight, out>>
                          /\ l.ok = SameDtypes(<<input, weight, out>>)
                          /\ l.kernel = <<"linear", input.dtype>>
        /\ bias # <<>> => /\ l.pointers = <<input, weight, bias[1], out>>
                          /\ l.ok = SameDtypes(<<input, weight, bias[1], out>>)
                          /\ l.kernel = <<"linear_bias", input.dtype>>
    BY DEF launch_linear, launch_linear_bias, Launch
  <2> HIDE DEF l, out, total_
  <2>9. Passes(c, l, out) /\ l.kernel[1] \in Counted
    <3>1. CASE bias = <<>>
      <4> DEFINE ptr == <<input, weight, out>>
      <4>1. /\ ptr \in Seq(Tensors) /\ Len(ptr) \in Nat \ {0} /\ ptr[Len(ptr)] = out
            /\ \A i \in DOMAIN ptr : ptr[i].dtype = ptr[1].dtype
        BY <2>2, <2>6
      <4>2. l.kernel \in Registered /\ l.kernel[1] \in Counted
        <5>1. l.kernel = <<"linear", input.dtype>>
          BY <2>8, <3>1
        <5>2. l.kernel \in Registered
          BY <2>2, <5>1 DEF Registered
        <5> QED
          BY <5>1, <5>2 DEF Counted
      <4>3. l.pointers = ptr /\ l.ok = SameDtypes(ptr)
        BY <2>8, <3>1
      <4> HIDE DEF ptr
      <4> QED
        BY <2>6, <4>1, <4>2, <4>3, TypedPasses
    <3>2. CASE bias # <<>>
      <4> DEFINE ptr == <<input, weight, bias[1], out>>
      <4>1. /\ ptr \in Seq(Tensors) /\ Len(ptr) \in Nat \ {0} /\ ptr[Len(ptr)] = out
            /\ \A i \in DOMAIN ptr : ptr[i].dtype = ptr[1].dtype
        BY <2>2, <2>3, <2>6, <3>2
      <4>2. l.kernel \in Registered /\ l.kernel[1] \in Counted
        <5>1. l.kernel = <<"linear_bias", input.dtype>>
          BY <2>8, <3>2
        <5>2. l.kernel \in Registered
          BY <2>2, <5>1 DEF Registered
        <5> QED
          BY <5>1, <5>2 DEF Counted
      <4>3. l.pointers = ptr /\ l.ok = SameDtypes(ptr)
        BY <2>8, <3>2
      <4> HIDE DEF ptr
      <4> QED
        BY <2>6, <4>1, <4>2, <4>3, TypedPasses
    <3> QED
      BY <3>1, <3>2
  <2>10. Maps(l, total_) /\ total_ <= Numel(out)
    BY <2>6, <2>7, <2>8, <2>9, CountedMaps
  <2>11. Sound(c, l, out)
    BY <2>6, <2>7, <2>9, <2>10, MapSound
  <2> QED
    BY <2>6, <2>11 DEF IsNew
<1> HIDE DEF out, l, ok
<1>3. ok => GoodPlan(c, Plan(<<out>>, <<l>>))
  BY <1>2, OneLaunch DEF IsNew
<1> QED
  BY <1>1, <1>3, Checked


\* The convolutions count the elements of the output they allocated.
LEMMA ConvolutionAccepted ==
  ASSUME NEW c, c.op = "convolution", NEW input \in Tensors, c.in[1] = input,
         NEW weight \in Tensors, NEW bias \in Seq(Tensors), NEW arg, arg.stride \in Seq(Int)
  PROVE  GoodPlan(c, convolution(input, weight, bias, arg))
<1> DEFINE outs == [i \in 1..(Dim(input) - 2) |->
                      ConvOut(Size(input, i + 2), Size(weight, i + 2), arg.stride[i])]
           shape == <<Size(input, 1), Size(weight, 1)>> \o outs
           out  == Empty("out", shape, input.dtype)
           p1   == ConvShape1(Numel(out), input, weight, outs[1], arg.stride)
           p2   == ConvShape2(Numel(out), input, weight, outs[1], outs[2], arg.stride)
           l    == CASE Dim(input) = 3 /\ bias = <<>> -> launch_conv1d(input, weight, out, p1)
                     [] Dim(input) = 3 /\ bias # <<>> -> launch_conv1d_bias(input, weight, bias[1], out, p1)
                     [] Dim(input) = 4 /\ bias = <<>> -> launch_conv2d(input, weight, out, p2)
                     [] OTHER -> launch_conv2d_bias(input, weight, bias[1], out, p2)
           ok   == /\ require_minigpu_contiguous(input) /\ require_minigpu_contiguous(weight)
                   /\ SameDtype(input, weight) /\ Dim(input) \in {3, 4} /\ Dim(weight) = Dim(input)
                   /\ Size(input, 2) = Size(weight, 2) /\ supported_kernel_dtype(input)
                   /\ BiasFits(bias, weight, input) /\ ConvArgs(arg, Dim(input))
                   /\ \A i \in DOMAIN outs : outs[i] >= 0
<1>1. convolution(input, weight, bias, arg) = Check(ok, Plan(<<out>>, <<l>>))
  <2>1. Dim(input) = 3 /\ bias = <<>> =>
          convolution(input, weight, bias, arg) =
            Check(ok, Plan(<<out>>, <<launch_conv1d(input, weight, out, p1)>>))
    BY DEF convolution
  <2>2. Dim(input) = 3 /\ bias # <<>> =>
          convolution(input, weight, bias, arg) =
            Check(ok, Plan(<<out>>, <<launch_conv1d_bias(input, weight, bias[1], out, p1)>>))
    BY DEF convolution
  <2>3. Dim(input) = 4 /\ bias = <<>> =>
          convolution(input, weight, bias, arg) =
            Check(ok, Plan(<<out>>, <<launch_conv2d(input, weight, out, p2)>>))
    BY DEF convolution
  <2>4. ~(Dim(input) = 3) /\ ~(Dim(input) = 4 /\ bias = <<>>) =>
          convolution(input, weight, bias, arg) =
            Check(ok, Plan(<<out>>, <<launch_conv2d_bias(input, weight, bias[1], out, p2)>>))
    BY DEF convolution
  <2> HIDE DEF p1, p2, out, ok
  <2> QED
    BY <2>1, <2>2, <2>3, <2>4
<1>2. ASSUME ok PROVE out \in Tensors /\ IsNew(out) /\ Sound(c, l, out)
  <2>1. shape \in Seq(Nat)
    <3>1. Size(input, 1) \in Nat /\ Size(weight, 1) \in Nat
      BY <1>2, SizesAreNat
    <3>2. ASSUME NEW i \in 1..(Dim(input) - 2) PROVE outs[i] \in Nat
      <4>1. Len(arg.stride) = Dim(input) - 2 /\ \A d \in DOMAIN arg.stride : arg.stride[d] > 0
        BY <1>2 DEF ConvArgs
      <4>2. i + 2 \in 1..Dim(input) /\ i + 2 \in 1..Dim(weight)
        BY <1>2
      <4>3. Size(input, i + 2) \in Nat /\ Size(weight, i + 2) \in Nat
        BY <4>2, SizesAreNat
      <4>4. arg.stride[i] \in Int /\ arg.stride[i] > 0
        BY <4>1
      <4>5. ConvOut(Size(input, i + 2), Size(weight, i + 2), arg.stride[i]) \in Int
        BY <4>3, <4>4, ConvOutIsInt
      <4>6. outs[i] \in Int /\ outs[i] >= 0
        BY <1>2, <4>5
      <4> QED
        BY <4>6
    <3>3. outs \in Seq(Nat)
      <4>1. Dim(input) - 2 \in Nat
        BY <1>2
      <4>2. outs = [i \in 1..(Dim(input) - 2) |-> outs[i]]
        OBVIOUS
      <4> HIDE DEF outs
      <4> DEFINE n == Dim(input) - 2
      <4>3. outs \in [1..n -> Nat]
        BY <3>2, <4>2
      <4>4. n \in Nat
        BY <4>1
      <4> HIDE DEF n
      <4> QED
        BY <4>3, <4>4
    <3> HIDE DEF outs
    <3> QED
      BY <3>1, <3>3
  <2>2. input.dtype \in {"i32", "fp32"} /\ weight.dtype = input.dtype /\ Dim(input) \in {3, 4}
    BY <1>2 DEF SameDtype, supported_kernel_dtype
  <2>3. bias # <<>> => bias[1] \in Tensors /\ bias[1].dtype = input.dtype
    BY <1>2 DEF BiasFits, SameDtype
  <2>4. p1.n = Numel(out) /\ p2.n = Numel(out)
    BY DEF ConvShape1, ConvShape2
  <2> HIDE DEF shape, p1, p2
  <2>5. out \in Tensors /\ out.name = "out" /\ out.dtype = input.dtype
    BY <2>1, EmptyIs DEF NewNames, Tensors
  <2>6. /\ bias = <<>> => /\ l.pointers = <<input, weight, out>>
                          /\ l.ok = SameDtypes(<<input, weight, out>>)
                          /\ l.num.n = Numel(out)
                          /\ \/ l.kernel = <<"conv1d", input.dtype>>
                             \/ l.kernel = <<"conv2d", input.dtype>>
        /\ bias # <<>> => /\ l.pointers = <<input, weight, bias[1], out>>
                          /\ l.ok = SameDtypes(<<input, weight, bias[1], out>>)
                          /\ l.num.n = Numel(out)
                          /\ \/ l.kernel = <<"conv1d_bias", input.dtype>>
                             \/ l.kernel = <<"conv2d_bias", input.dtype>>
    <3> HIDE DEF out
    <3>1. CASE Dim(input) = 3 /\ bias = <<>>
      BY <2>4, <3>1 DEF launch_conv1d, Launch
    <3>2. CASE Dim(input) = 3 /\ bias # <<>>
      BY <2>4, <3>2 DEF launch_conv1d_bias, Launch
    <3>3. CASE Dim(input) = 4 /\ bias = <<>>
      BY <2>4, <3>3 DEF launch_conv2d, Launch
    <3>4. CASE Dim(input) = 4 /\ bias # <<>>
      BY <2>4, <3>4 DEF launch_conv2d_bias, Launch
    <3> QED
      BY <2>2, <3>1, <3>2, <3>3, <3>4
  <2> HIDE DEF l, out, outs
  <2>7. \/ l.kernel = <<"conv1d", input.dtype>> \/ l.kernel = <<"conv2d", input.dtype>>
        \/ l.kernel = <<"conv1d_bias", input.dtype>> \/ l.kernel = <<"conv2d_bias", input.dtype>>
    BY <2>6
  <2>8. l.kernel \in Registered \/ (c.op = "convolution" /\ c.in[1].dtype = "i32")
    <3>1. CASE input.dtype = "fp32"
      <4>1. /\ <<"conv1d", "fp32">> \in Registered /\ <<"conv2d", "fp32">> \in Registered
            /\ <<"conv1d_bias", "fp32">> \in Registered /\ <<"conv2d_bias", "fp32">> \in Registered
        BY DEF Registered
      <4> QED
        BY <2>7, <3>1, <4>1
    <3> QED
      BY <2>2, <3>1
  <2>9. l.kernel[1] \in Counted
    BY <2>7 DEF Counted
  <2>10. Passes(c, l, out)
    <3>1. CASE bias = <<>>
      <4> DEFINE ptr == <<input, weight, out>>
      <4>1. /\ ptr \in Seq(Tensors) /\ Len(ptr) \in Nat \ {0} /\ ptr[Len(ptr)] = out
            /\ \A i \in DOMAIN ptr : ptr[i].dtype = ptr[1].dtype
        BY <2>2, <2>5
      <4>2. l.pointers = ptr /\ l.ok = SameDtypes(ptr)
        BY <2>6, <3>1
      <4> HIDE DEF ptr
      <4> QED
        BY <2>5, <2>8, <4>1, <4>2, TypedPasses
    <3>2. CASE bias # <<>>
      <4> DEFINE ptr == <<input, weight, bias[1], out>>
      <4>1. /\ ptr \in Seq(Tensors) /\ Len(ptr) \in Nat \ {0} /\ ptr[Len(ptr)] = out
            /\ \A i \in DOMAIN ptr : ptr[i].dtype = ptr[1].dtype
        BY <2>2, <2>3, <2>5, <3>2
      <4>2. l.pointers = ptr /\ l.ok = SameDtypes(ptr)
        BY <2>6, <3>2
      <4> HIDE DEF ptr
      <4> QED
        BY <2>5, <2>8, <4>1, <4>2, TypedPasses
    <3> QED
      BY <3>1, <3>2
  <2>11. l.num.n = Numel(out) /\ Numel(out) \in Nat
    BY <2>5, <2>6, TensorNumel
  <2>12. Maps(l, Numel(out)) /\ Numel(out) <= Numel(out)
    BY <2>9, <2>11, CountedMaps
  <2>13. Sound(c, l, out)
    BY <2>5, <2>10, <2>11, <2>12, MapSound
  <2> QED
    BY <2>5, <2>13 DEF IsNew
<1> HIDE DEF out, l, ok
<1>3. ok => GoodPlan(c, Plan(<<out>>, <<l>>))
  BY <1>2, OneLaunch DEF IsNew
<1> QED
  BY <1>1, <1>3, Checked

-----------------------------------------------------------------------------
\* Short sequences, put together.
LEMMA OneByOne == ASSUME NEW x, NEW y PROVE <<x>> \o <<y>> = <<x, y>>
<1> DEFINE t == <<x>> \o <<y>>
<1>1. t \in Seq({x, y}) /\ Len(t) = 2 /\ t[1] = x /\ t[2] = y
  OBVIOUS
<1> HIDE DEF t
<1>2. t = <<x, y>>
  BY <1>1
<1> QED
  BY <1>2 DEF t

\* And one more.
LEMMA TwoAndOne == ASSUME NEW x, NEW y, NEW z PROVE <<x, y>> \o <<z>> = <<x, y, z>>
<1> DEFINE t == <<x, y>> \o <<z>>
<1>1. t \in Seq({x, y, z}) /\ Len(t) = 3 /\ t[1] = x /\ t[2] = y /\ t[3] = z
  OBVIOUS
<1> HIDE DEF t
<1>2. t = <<x, y, z>>
  BY <1>1
<1> QED
  BY <1>2 DEF t

\* What a mask of three leaves.
LEMMA MaskedIs ==
  ASSUME NEW mask, NEW x, NEW y, NEW z
  PROVE  Masked(mask, <<x, y, z>>) =
           IF mask[1]
           THEN IF mask[2] THEN IF mask[3] THEN <<x, y, z>> ELSE <<x, y>>
                ELSE IF mask[3] THEN <<x, z>> ELSE <<x>>
           ELSE IF mask[2] THEN IF mask[3] THEN <<y, z>> ELSE <<y>>
                ELSE IF mask[3] THEN <<z>> ELSE <<>>
<1> DEFINE u == IF mask[1] THEN <<x>> ELSE <<>>
           v == IF mask[2] THEN <<y>> ELSE <<>>
           w == IF mask[3] THEN <<z>> ELSE <<>>
<1>1. Masked(mask, <<x, y, z>>) = u \o v \o w
  BY DEF Masked
<1>2. CASE mask[1] /\ mask[2] /\ mask[3]
  <2>1. u = <<x>> /\ v = <<y>> /\ w = <<z>>
    BY <1>2
  <2> HIDE DEF u, v, w
  <2>2. u \o v = <<x, y>>
    BY <2>1, OneByOne
  <2>3. (u \o v) \o w = <<x, y, z>>
    BY <2>1, <2>2, TwoAndOne
  <2> QED
    BY <1>1, <1>2, <2>3
<1>3. CASE mask[1] /\ mask[2] /\ ~mask[3]
  BY <1>1, <1>3
<1>4. CASE mask[1] /\ ~mask[2] /\ mask[3]
  BY <1>1, <1>4
<1>5. CASE mask[1] /\ ~mask[2] /\ ~mask[3]
  BY <1>1, <1>5
<1>6. CASE ~mask[1] /\ mask[2] /\ mask[3]
  <2>1. u \o v = <<y>> /\ w = <<z>>
    BY <1>6
  <2> QED
    BY <1>1, <1>6, <2>1, OneByOne
<1>7. CASE ~mask[1] /\ mask[2] /\ ~mask[3]
  BY <1>1, <1>7
<1>8. CASE ~mask[1] /\ ~mask[2] /\ mask[3]
  BY <1>1, <1>8
<1>9. CASE ~mask[1] /\ ~mask[2] /\ ~mask[3]
  BY <1>1, <1>9
<1> QED
  BY <1>2, <1>3, <1>4, <1>5, <1>6, <1>7, <1>8, <1>9

\* A plan without launches.
LEMMA NoLaunch == ASSUME NEW c PROVE GoodPlan(c, Plan(<<>>, <<>>))
  BY DEF GoodPlan, Plan, GoodFresh

\* Whatever the mask, the gradients that are left are computed.
LEMMA GradPlanGood ==
  ASSUME NEW c, NEW mask, NEW t \in Tensors, NEW u \in Tensors, NEW v \in Tensors,
         IsNew(t), IsNew(u), IsNew(v), t.name # u.name, t.name # v.name, u.name # v.name,
         NEW j, NEW k, NEW l, Sound(c, j, t), Sound(c, k, u), Sound(c, l, v)
  PROVE  GoodPlan(c, GradPlan(mask, <<t, u, v>>, <<j, k, l>>))
<1> DEFINE F == Masked(mask, <<t, u, v>>)
           L == Masked(mask, <<j, k, l>>)
<1>1. CASE mask[1] /\ mask[2] /\ mask[3]
  <2>1. F = <<t, u, v>> /\ L = <<j, k, l>>
    BY <1>1, MaskedIs
  <2> QED
    BY <2>1, ThreeLaunches DEF GradPlan
<1>2. CASE mask[1] /\ mask[2] /\ ~mask[3]
  <2>1. F = <<t, u>> /\ L = <<j, k>>
    BY <1>2, MaskedIs
  <2> QED
    BY <2>1, TwoLaunches DEF GradPlan
<1>3. CASE mask[1] /\ ~mask[2] /\ mask[3]
  <2>1. F = <<t, v>> /\ L = <<j, l>>
    BY <1>3, MaskedIs
  <2> QED
    BY <2>1, TwoLaunches DEF GradPlan
<1>4. CASE mask[1] /\ ~mask[2] /\ ~mask[3]
  <2>1. F = <<t>> /\ L = <<j>>
    BY <1>4, MaskedIs
  <2> QED
    BY <2>1, OneLaunch DEF GradPlan, IsNew
<1>5. CASE ~mask[1] /\ mask[2] /\ mask[3]
  <2>1. F = <<u, v>> /\ L = <<k, l>>
    BY <1>5, MaskedIs
  <2> QED
    BY <2>1, TwoLaunches DEF GradPlan
<1>6. CASE ~mask[1] /\ mask[2] /\ ~mask[3]
  <2>1. F = <<u>> /\ L = <<k>>
    BY <1>6, MaskedIs
  <2> QED
    BY <2>1, OneLaunch DEF GradPlan, IsNew
<1>7. CASE ~mask[1] /\ ~mask[2] /\ mask[3]
  <2>1. F = <<v>> /\ L = <<l>>
    BY <1>7, MaskedIs
  <2> QED
    BY <2>1, OneLaunch DEF GradPlan, IsNew
<1>8. CASE ~mask[1] /\ ~mask[2] /\ ~mask[3]
  <2>1. F = <<>> /\ L = <<>>
    BY <1>8, MaskedIs
  <2> QED
    BY <2>1, NoLaunch DEF GradPlan
<1> QED
  BY <1>1, <1>2, <1>3, <1>4, <1>5, <1>6, <1>7, <1>8

\* A gradient has the elements of the tensor it is of.
LEMMA GradientsAre ==
  ASSUME NEW input \in Tensors, NEW weight \in Tensors, NEW n \in Nat
  PROVE  /\ EmptyLike("grad_input", input) \in Tensors
         /\ EmptyLike("grad_input", input).name = "grad_input"
         /\ Numel(EmptyLike("grad_input", input)) = Numel(input)
         /\ EmptyLike("grad_weight", weight) \in Tensors
         /\ EmptyLike("grad_weight", weight).name = "grad_weight"
         /\ Numel(EmptyLike("grad_weight", weight)) = Numel(weight)
         /\ Empty("grad_bias", <<n>>, "fp32") \in Tensors
         /\ Empty("grad_bias", <<n>>, "fp32").name = "grad_bias"
         /\ Numel(Empty("grad_bias", <<n>>, "fp32")) = n
<1>1. /\ EmptyLike("grad_input", input) \in Tensors
      /\ EmptyLike("grad_input", input).name = "grad_input"
      /\ Numel(EmptyLike("grad_input", input)) = Numel(input)
  BY LikeIs DEF NewNames
<1>2. /\ EmptyLike("grad_weight", weight) \in Tensors
      /\ EmptyLike("grad_weight", weight).name = "grad_weight"
      /\ Numel(EmptyLike("grad_weight", weight)) = Numel(weight)
  BY LikeIs DEF NewNames
<1> DEFINE shape == <<n>>
<1>3. shape \in Seq(Nat) /\ NumelOf(shape) = n
  BY NumelOfFew
<1>4. /\ Empty("grad_bias", shape, "fp32") \in Tensors
      /\ Empty("grad_bias", shape, "fp32").name = "grad_bias"
      /\ Numel(Empty("grad_bias", shape, "fp32")) = n
  <2> HIDE DEF shape
  <2> QED
    BY <1>3, EmptyIs DEF NewNames, Dtypes, SixTypes
<1> QED
  BY <1>1, <1>2, <1>4


\* The gradients of linear.
LEMMA LinearBackwardAccepted ==
  ASSUME NEW c, NEW self \in Tensors, NEW g \in Tensors, NEW weight \in Tensors, NEW mask
  PROVE  GoodPlan(c, linear_backward(self, g, weight, mask))
<1> DEFINE batch == IF Dim(self) = 1 THEN 1 ELSE Size(self, 1)
           in_f  == Last(self)
           out_f == Size(weight, 1)
           gi == EmptyLike("grad_input", self)
           gw == EmptyLike("grad_weight", weight)
           gb == Empty("grad_bias", <<out_f>>, "fp32")
           num == [batch |-> batch, out_f |-> out_f, in_f |-> in_f]
           pj == <<g, weight, gi>>
           pk == <<self, g, gw>>
           pl == <<g, gb>>
           j == LaunchFp32("linear_backward_input", pj, num)
           k == LaunchFp32("linear_backward_weight", pk, num)
           l == LaunchFp32("linear_backward_bias", pl, num)
           p == GradPlan(mask, <<gi, gw, gb>>, <<j, k, l>>)
           ok == /\ \A t \in {self, g, weight} : require_fp32_minigpu_contiguous(t)
                 /\ Dim(weight) = 2 /\ Dim(self) \in {1, 2} /\ Size(weight, 2) = in_f
                 /\ g.shape = (IF Dim(self) = 1 THEN <<out_f>> ELSE <<batch, out_f>>)
<1>1. linear_backward(self, g, weight, mask) = Check(ok, p)
  BY DEF linear_backward
<1>2. ASSUME ok PROVE GoodPlan(c, p)
  <2>1. out_f \in Nat /\ in_f \in Nat /\ Numel(weight) = out_f * in_f
    BY <1>2, MatrixNumel
  <2>2. batch \in Nat /\ Numel(self) = batch * in_f
    <3>1. CASE Dim(self) = 1
      <4>1. self.shape \in Seq(Nat) /\ Len(self.shape) = 1
        BY <3>1 DEF Tensors, Dim
      <4>2. self.shape = <<self.shape[1]>> /\ self.shape[1] \in Nat
        BY <4>1
      <4>3. Numel(self) = self.shape[1]
        BY <4>2, NumelOfFew DEF Numel
      <4> QED
        BY <3>1, <4>1, <4>2, <4>3 DEF Last
    <3>2. CASE Dim(self) = 2
      BY <3>2, MatrixNumel DEF Last, Dim, Size
    <3> QED
      BY <1>2, <3>1, <3>2
  <2>3. /\ gi \in Tensors /\ gi.name = "grad_input" /\ Numel(gi) = batch * in_f
        /\ gw \in Tensors /\ gw.name = "grad_weight" /\ Numel(gw) = out_f * in_f
        /\ gb \in Tensors /\ gb.name = "grad_bias" /\ Numel(gb) = out_f
    BY <2>1, <2>2, GradientsAre
  <2>4. batch * in_f \in Nat /\ out_f * in_f \in Nat
    BY <2>1, <2>2
  <2> HIDE DEF gi, gw, gb, batch, in_f, out_f
  <2>5. /\ j.kernel[1] = "linear_backward_input" /\ j.num = num
        /\ k.kernel[1] = "linear_backward_weight" /\ k.num = num
        /\ l.kernel[1] = "linear_backward_bias" /\ l.num = num
    BY DEF LaunchFp32, Launch
  <2>6. num.batch = batch /\ num.in_f = in_f /\ num.out_f = out_f
    OBVIOUS
  <2>7. /\ pj \in Seq(Tensors) /\ Len(pj) \in Nat \ {0} /\ pj[Len(pj)] = gi
        /\ pk \in Seq(Tensors) /\ Len(pk) \in Nat \ {0} /\ pk[Len(pk)] = gw
        /\ pl \in Seq(Tensors) /\ Len(pl) \in Nat \ {0} /\ pl[Len(pl)] = gb
    BY <2>3
  <2>8. /\ InFp32("linear_backward_input") /\ InFp32("linear_backward_weight")
        /\ InFp32("linear_backward_bias")
    BY DEF InFp32, Registered
  <2> HIDE DEF num, pj, pk, pl
  <2>9. Passes(c, j, gi) /\ Passes(c, k, gw) /\ Passes(c, l, gb)
    BY <2>7, <2>8 DEF Passes, LaunchFp32, Launch, Output, InFp32
  <2> HIDE DEF j, k, l
  <2>10. Sound(c, j, gi) /\ Sound(c, k, gw) /\ Sound(c, l, gb)
    <3>1. Maps(j, batch * in_f) /\ Maps(k, out_f * in_f) /\ Maps(l, out_f)
      BY <2>5, <2>6, MatrixMaps
    <3> QED
      BY <2>1, <2>3, <2>4, <2>9, <3>1, MapSound
  <2>11. IsNew(gi) /\ IsNew(gw) /\ IsNew(gb)
         /\ gi.name # gw.name /\ gi.name # gb.name /\ gw.name # gb.name
    BY <2>3 DEF IsNew
  <2> QED
    BY <2>3, <2>10, <2>11, GradPlanGood
<1> HIDE DEF p, ok
<1> QED
  BY <1>1, <1>2, Checked

\* The gradients of a convolution in one dimension or two.
LEMMA ConvolutionBackwardAccepted ==
  ASSUME NEW c, NEW input \in Tensors, NEW g \in Tensors, NEW weight \in Tensors, NEW arg, NEW mask
  PROVE  GoodPlan(c, convolution_backward(input, g, weight, arg, mask))
<1> DEFINE gi == EmptyLike("grad_input", input)
           gw == EmptyLike("grad_weight", weight)
           gb == Empty("grad_bias", <<Size(weight, 1)>>, "fp32")
           p1(n) == ConvShape1(n, input, weight, Size(g, 3), arg.stride)
           p2(n) == ConvShape2(n, input, weight, Size(g, 3), Size(g, 4), arg.stride)
           num(n) == IF Dim(input) = 3 THEN p1(n) ELSE p2(n)
           pj == <<g, weight, gi>>
           pk == <<input, g, gw>>
           pl == <<g, gb>>
           oj == IF Dim(input) = 3 THEN "conv1d_backward_input" ELSE "conv2d_backward_input"
           ok_ == IF Dim(input) = 3 THEN "conv1d_backward_weight" ELSE "conv2d_backward_weight"
           ol == IF Dim(input) = 3 THEN "conv1d_backward_bias" ELSE "conv2d_backward_bias"
           ni == num(Numel(input))
           nw == num(Numel(weight))
           nb == num(0)
           j == LaunchFp32(oj, pj, ni)
           k == LaunchFp32(ok_, pk, nw)
           l == LaunchFp32(ol, pl, nb)
           p == GradPlan(mask, <<gi, gw, gb>>, <<j, k, l>>)
           ok == /\ \A t \in {input, g, weight} : require_fp32_minigpu_contiguous(t)
                 /\ Dim(input) \in {3, 4} /\ Dim(weight) = Dim(input) /\ Dim(g) = Dim(input)
                 /\ Size(weight, 2) = Size(input, 2)
                 /\ Size(g, 1) = Size(input, 1) /\ Size(g, 2) = Size(weight, 1)
                 /\ ConvArgs(arg, Dim(input))
<1>1. convolution_backward(input, g, weight, arg, mask) = Check(ok, p)
  <2>1. CASE Dim(input) = 3
    BY <2>1 DEF convolution_backward
  <2>2. CASE Dim(input) # 3
    BY <2>2 DEF convolution_backward
  <2> QED
    BY <2>1, <2>2
<1>2. ASSUME ok PROVE GoodPlan(c, p)
  <2>1. Size(weight, 1) \in Nat /\ Dim(input) \in {3, 4}
    BY <1>2, SizesAreNat
  <2>2. Numel(input) \in Nat /\ Numel(weight) \in Nat
    BY TensorNumel
  <2>3. /\ gi \in Tensors /\ gi.name = "grad_input" /\ Numel(gi) = Numel(input)
        /\ gw \in Tensors /\ gw.name = "grad_weight" /\ Numel(gw) = Numel(weight)
        /\ gb \in Tensors /\ gb.name = "grad_bias" /\ Numel(gb) = Size(weight, 1)
    BY <2>1, GradientsAre
  <2> HIDE DEF gi, gw, gb
  <2>4. ni.n = Numel(input) /\ nw.n = Numel(weight) /\ nb.oc = Size(weight, 1)
    BY DEF ConvShape1, ConvShape2
  <2> HIDE DEF ni, nw, nb
  <2>5. /\ oj \in Counted /\ ok_ \in Counted
        /\ ol \in {"conv1d_backward_bias", "conv2d_backward_bias"}
    BY DEF Counted
  <2>6. InFp32(oj) /\ InFp32(ok_) /\ InFp32(ol)
    BY DEF InFp32, Registered
  <2> HIDE DEF oj, ok_, ol
  <2>7. /\ pj \in Seq(Tensors) /\ Len(pj) \in Nat \ {0} /\ pj[Len(pj)] = gi
        /\ pk \in Seq(Tensors) /\ Len(pk) \in Nat \ {0} /\ pk[Len(pk)] = gw
        /\ pl \in Seq(Tensors) /\ Len(pl) \in Nat \ {0} /\ pl[Len(pl)] = gb
    BY <2>3
  <2> HIDE DEF pj, pk, pl
  <2>8. /\ j.kernel[1] = oj /\ j.num = ni
        /\ k.kernel[1] = ok_ /\ k.num = nw
        /\ l.kernel[1] = ol /\ l.num = nb
    BY DEF LaunchFp32, Launch
  <2>9. Passes(c, j, gi) /\ Passes(c, k, gw) /\ Passes(c, l, gb)
    BY <2>6, <2>7 DEF Passes, LaunchFp32, Launch, Output, InFp32
  <2> HIDE DEF j, k, l
  <2>10. Sound(c, j, gi) /\ Sound(c, k, gw) /\ Sound(c, l, gb)
    <3>1. Maps(j, Numel(input)) /\ Maps(k, Numel(weight)) /\ Maps(l, Size(weight, 1))
      BY <2>4, <2>5, <2>8, CountedMaps, MatrixMaps
    <3> QED
      BY <2>1, <2>2, <2>3, <2>9, <3>1, MapSound
  <2>11. IsNew(gi) /\ IsNew(gw) /\ IsNew(gb)
         /\ gi.name # gw.name /\ gi.name # gb.name /\ gw.name # gb.name
    BY <2>3 DEF IsNew
  <2> QED
    BY <2>3, <2>10, <2>11, GradPlanGood
<1> HIDE DEF p, ok
<1> QED
  BY <1>1, <1>2, Checked

-----------------------------------------------------------------------------
\* div.
LEMMA DivAccepted ==
  ASSUME NEW c, NEW a \in Tensors, NEW b \in Tensors
  PROVE  GoodPlan(c, div_tensor(a, b))
<1> DEFINE out == EmptyLike("out", a)
           l   == launch_elementwise_binary("div", a, b, out)
           ok  == /\ require_minigpu_contiguous(a) /\ require_minigpu_contiguous(b)
                  /\ SameShape(a, b) /\ a.dtype = "fp32" /\ b.dtype = "fp32"
<1>1. div_tensor(a, b) = Check(ok, Plan(<<out>>, <<l>>))
  BY DEF div_tensor
<1>2. /\ out \in Tensors /\ out.name = "out" /\ out.dtype = a.dtype
      /\ Numel(out) = Numel(a) /\ Numel(a) \in Nat
  BY LikeIs, TensorNumel DEF NewNames
<1>3. /\ l.pointers = <<a, b, out>> /\ Output(l) = out
      /\ l.kernel = <<"div", a.dtype>> /\ l.num.n = Numel(a)
      /\ SameDtypes(<<a, b, out>>) /\ SameElements(<<a, b, out>>) => l.ok
  BY DEF launch_elementwise_binary, Launch, Output
<1> HIDE DEF out, l
<1>4. ASSUME ok PROVE Sound(c, l, out)
  <2>1. a.dtype = "fp32" /\ b.dtype = "fp32" /\ Numel(a) = Numel(b)
    BY <1>4 DEF SameShape, Numel
  <2>2. SameDtypes(<<a, b, out>>) /\ SameElements(<<a, b, out>>)
    BY <2>1, <1>2 DEF SameDtypes, SameElements
  <2>3. l.kernel = <<"div", "fp32">>
    BY <1>3, <2>1
  <2>4. l.kernel \in Registered
    BY <2>3 DEF Registered
  <2>5. l.kernel[1] \in Counted
    BY <2>3 DEF Counted
  <2>6. Maps(l, Numel(a))
    BY <1>3, <2>5, CountedMaps
  <2>7. l.pointers \in Seq(Tensors) /\ l.pointers # <<>>
    BY <1>2, <1>3
  <2>8. Passes(c, l, out)
    BY <1>3, <2>2, <2>4, <2>7 DEF Passes
  <2> QED
    BY <1>2, <2>6, <2>8, MapSound
<1>5. ok => GoodPlan(c, Plan(<<out>>, <<l>>))
  BY <1>2, <1>4, OneLaunch
<1> QED
  BY <1>1, <1>5, Checked

\* The gradient of a loss is one launch into the gradient of its input, which
\* is of fp32.
IsGradient(p, input) ==
  p # Refused => input.dtype = "fp32" /\ \E l : p = Plan(<<EmptyLike("grad", input)>>, <<l>>)

\* Each of the losses has one launch into the gradient.
LEMMA LossBackwardIs ==
  ASSUME NEW c, NEW loss, NEW g \in Tensors, NEW input \in Tensors, NEW target \in Tensors
  PROVE  /\ GoodPlan(c, run_loss_backward(loss, g, input, target))
         /\ IsGradient(run_loss_backward(loss, g, input, target), input)
<1> DEFINE base == run_loss_backward(loss, g, input, target)
<1>1. CASE loss = "mse"
  <2>1. base = mse_loss_backward_op(g, input, target)
    BY <1>1 DEF run_loss_backward
  <2>2. IsGradient(mse_loss_backward_op(g, input, target), input)
    BY DEF IsGradient, mse_loss_backward_op, Check, LossArgs, require_fp32_minigpu_contiguous
  <2> QED
    BY <2>1, <2>2, MseLossBackwardAccepted
<1>2. CASE loss = "l1"
  <2>1. base = l1_loss_backward_op(g, input, target)
    BY <1>2 DEF run_loss_backward
  <2>2. IsGradient(l1_loss_backward_op(g, input, target), input)
    BY DEF IsGradient, l1_loss_backward_op, Check, LossArgs, require_fp32_minigpu_contiguous
  <2> QED
    BY <2>1, <2>2, L1LossBackwardAccepted
<1>3. CASE loss = "l2"
  <2>1. base = l2_loss_backward_op(g, input, target)
    BY <1>3 DEF run_loss_backward
  <2>2. IsGradient(l2_loss_backward_op(g, input, target), input)
    BY DEF IsGradient, l2_loss_backward_op, Check, LossArgs, require_fp32_minigpu_contiguous
  <2> QED
    BY <2>1, <2>2, L2LossBackwardAccepted
<1>4. CASE loss \notin {"mse", "l1", "l2"}
  <2>1. base = cross_entropy_loss_backward(g, input, target)
    BY <1>4 DEF run_loss_backward
  <2>2. IsGradient(cross_entropy_loss_backward(g, input, target), input)
    BY DEF IsGradient, cross_entropy_loss_backward, Check, ClassArgs, require_fp32_minigpu_contiguous
  <2> QED
    BY <2>1, <2>2, CrossEntropyBackwardAccepted
<1> QED
  BY <1>1, <1>2, <1>3, <1>4

\* A sequence of one, with one more.
LEMMA OneMore == ASSUME NEW x, NEW y PROVE Append(<<x>>, y) = <<x, y>>
<1> DEFINE t == Append(<<x>>, y)
<1>1. t \in Seq({x, y}) /\ Len(t) = 2 /\ t[1] = x /\ t[2] = y
  OBVIOUS
<1> HIDE DEF t
<1>2. t = <<x, y>>
  BY <1>1
<1> QED
  BY <1>2 DEF t

\* Plan p with one tensor and one launch more.
AndAlso(p, t, l) == [p EXCEPT !.fresh = Append(@, t), !.launches = Append(@, l)]

\* A plan of one launch, with one more.
LEMMA OneLaunchMore ==
  ASSUME NEW t, NEW u, NEW k, NEW l
  PROVE  AndAlso(Plan(<<t>>, <<k>>), u, l) = Plan(<<t, u>>, <<k, l>>)
<1> DEFINE f == <<t>>
           g == <<k>>
           v == Append(f, u)
           w == Append(g, l)
<1>1. Plan(f, g).fresh = f /\ Plan(f, g).launches = g
  BY DEF Plan
<1> HIDE DEF v, w, f, g
<1>2. [Plan(f, g) EXCEPT !.fresh = v] = Plan(v, g)
  BY DEF Plan
<1>3. [Plan(v, g) EXCEPT !.launches = w] = Plan(v, w)
  BY DEF Plan
<1>4. AndAlso(Plan(f, g), u, l) = Plan(v, w)
  BY <1>1, <1>2, <1>3 DEF AndAlso, v, w
<1> QED
  BY <1>4, OneMore DEF v, w, f, g

\* The scal kernel that negates a gradient.
LEMMA NegatedSound ==
  ASSUME NEW c, NEW x \in Tensors, NEW out \in Tensors, NEW alpha,
         x.dtype = "fp32", out.dtype = "fp32", Numel(out) = Numel(x)
  PROVE  Sound(c, launch_scal(x, out, alpha), out)
<1> DEFINE l == launch_scal(x, out, alpha)
<1>1. SameDtypes(<<x, out>>) /\ SameElements(<<x, out>>)
  BY DEF SameDtypes, SameElements
<1>2. l.pointers = <<x, out>> /\ Output(l) = out /\ l.kernel = <<"scal", "fp32">>
      /\ l.num.n = Numel(x) /\ l.ok
  BY <1>1 DEF launch_scal, Launch, Output
<1> SUFFICES Sound(c, l, out)
  OBVIOUS
<1> HIDE DEF l
<1>3. l.kernel \in Registered
  BY <1>2 DEF Registered
<1>4. Maps(l, Numel(x))
  BY <1>2, CountedMaps DEF Counted
<1>5. l.pointers \in Seq(Tensors) /\ l.pointers # <<>>
  BY <1>2
<1>6. Passes(c, l, out)
  BY <1>2, <1>3, <1>5 DEF Passes
<1> QED
  BY <1>4, <1>6, MapSound, TensorNumel

\* Either gradient of a loss, or both.
LEMMA LossGradAccepted ==
  ASSUME NEW c, NEW loss, NEW g \in Tensors, NEW input \in Tensors, NEW target \in Tensors, NEW needs,
         c.op = "loss_grad"
  PROVE  GoodPlan(c, loss_autograd_backward(loss, g, input, target, needs))
<1> DEFINE base == run_loss_backward(loss, g, input, target)
           grad == EmptyLike("grad", input)
           neg  == EmptyLike("grad_target", input)
           both == [base EXCEPT !.fresh = Append(@, neg),
                                !.launches = Append(@, launch_scal(base.fresh[1], neg, "-1"))]
<1>1. GoodPlan(c, base) /\ IsGradient(base, input)
  BY LossBackwardIs
<1> HIDE DEF base
<1>2. ASSUME base # Refused PROVE GoodPlan(c, both)
  <2>1. PICK l : base = Plan(<<grad>>, <<l>>)
    BY <1>1, <1>2 DEF IsGradient
  <2> DEFINE k == launch_scal(grad, neg, "-1")
  <2>2. input.dtype = "fp32"
    BY <1>1, <1>2 DEF IsGradient
  <2>3. /\ grad \in Tensors /\ grad.name = "grad" /\ grad.dtype = "fp32"
        /\ neg \in Tensors /\ neg.name = "grad_target" /\ neg.dtype = "fp32"
        /\ Numel(grad) = Numel(input) /\ Numel(neg) = Numel(input)
    BY <2>2, LikeIs DEF NewNames
  <2> HIDE DEF grad, neg
  <2>4. Sound(c, k, neg)
    BY <2>3, NegatedSound
  <2>5. GoodLaunch(c, l, <<grad>>)
    BY <1>1, <2>1 DEF GoodPlan, Plan
  <2>6. both = Plan(<<grad, neg>>, <<l, k>>)
    <3>1. base.fresh[1] = grad
      BY <2>1 DEF Plan
    <3>2. both = AndAlso(Plan(<<grad>>, <<l>>), neg, k)
      BY <2>1, <3>1 DEF AndAlso
    <3> HIDE DEF k, both
    <3> QED
      BY <3>2, OneLaunchMore
  <2> HIDE DEF k
  <2>7. GoodLaunch(c, l, <<grad, neg>>)
    BY <2>5 DEF GoodLaunch
  <2>8. GoodLaunch(c, k, <<grad, neg>>)
    BY <2>4 DEF GoodLaunch, Sound, Passes
  <2>9. GoodFresh(<<grad, neg>>)
    BY <2>3 DEF GoodFresh
  <2> HIDE DEF both
  <2> QED
    BY <2>6, <2>7, <2>8, <2>9 DEF GoodPlan, Plan
<1>3. GoodPlan(c, Plan(<<>>, <<>>))
  BY NoLaunch
<1>4. loss_autograd_backward(loss, g, input, target, needs) =
        IF needs[2] /\ loss # "cross_entropy" /\ base # Refused THEN both
        ELSE IF needs[1] \/ needs[2] THEN base ELSE Plan(<<>>, <<>>)
  BY DEF loss_autograd_backward, base
<1> HIDE DEF both
<1> QED
  BY <1>1, <1>2, <1>3, <1>4

-----------------------------------------------------------------------------
\* What the host computes itself, no kernel has to accept.
LEMMA HostSound ==
  ASSUME NEW c, NEW f, NEW inputs \in Seq(Tensors), inputs # <<>>
  PROVE  GoodPlan(c, OnHost(f, inputs))
<1> DEFINE out == EmptyLike("out", inputs[1])
           ptr == Append(inputs, out)
           l   == Launch(TRUE, f, "host", ptr, [n |-> Numel(out)])
<1>1. OnHost(f, inputs) = Plan(<<out>>, <<l>>)
  BY DEF OnHost
<1>2. out \in Tensors /\ out.name = "out"
  BY LikeIs DEF NewNames
<1> HIDE DEF out
<1>3. ptr \in Seq(Tensors) /\ Len(ptr) \in Nat \ {0} /\ ptr[Len(ptr)] = out
  BY <1>2
<1> HIDE DEF ptr
<1>4. l.kernel[2] = "host" /\ l.pointers = ptr
  BY DEF Launch
<1> HIDE DEF l
<1>5. GoodLaunch(c, l, <<out>>)
  BY <1>3, <1>4 DEF GoodLaunch, Output
<1>6. GoodFresh(<<out>>)
  BY <1>2 DEF GoodFresh
<1>7. GoodPlan(c, Plan(<<out>>, <<l>>))
  BY <1>5, <1>6 DEF GoodPlan, Plan
<1> QED
  BY <1>1, <1>7

\* pow, sin, cos and tan, on the host.
LEMMA HostAccepted ==
  ASSUME NEW c, NEW a \in Tensors, NEW b \in Tensors, NEW f
  PROVE  /\ GoodPlan(c, pow_tensor_tensor(a, b)) /\ GoodPlan(c, pow_tensor_scalar(a))
         /\ GoodPlan(c, sin_cos_tan(f, a))
<1> DEFINE one == <<a>>
           two == <<a, b>>
<1>1. one \in Seq(Tensors) /\ one # <<>> /\ two \in Seq(Tensors) /\ two # <<>>
  OBVIOUS
<1> HIDE DEF one, two
<1>2. GoodPlan(c, OnHost("pow", two)) /\ GoodPlan(c, OnHost("pow_scalar", one)) /\ GoodPlan(c, OnHost(f, one))
  BY <1>1, HostSound
<1> QED
  BY <1>2, Checked DEF pow_tensor_tensor, pow_tensor_scalar, sin_cos_tan, one, two

\* A plan stays good with a copy, for the operators that copy.
WithCopy(p, copy) == [p EXCEPT !.copy = copy]
Copies(c) == c.op \in {"add_", "copy_", "fill_", "to_copy"}

\* A copy makes no plan bad.
LEMMA WithCopyGood ==
  ASSUME NEW c, Copies(c), NEW f, NEW g, NEW copy, GoodPlan(c, Plan(f, g))
  PROVE  GoodPlan(c, WithCopy(Plan(f, g), copy))
<1> DEFINE p == WithCopy(Plan(f, g), copy)
<1>1. p.kind = "launching" /\ p.fresh = f /\ p.launches = g
  BY DEF Plan, WithCopy
<1>2. Plan(f, g).kind = "launching" /\ Plan(f, g).fresh = f /\ Plan(f, g).launches = g
  BY DEF Plan
<1> HIDE DEF p
<1>3. GoodPlan(c, p)
  BY <1>1, <1>2 DEF GoodPlan, Copies
<1> QED
  BY <1>3 DEF p

\* What add and add_ launch.
AddLaunch(a, b, out, alpha) ==
  IF alpha = "1" THEN launch_elementwise_binary("vector_add", a, b, out)
  ELSE launch_axpy(b, a, out, alpha)

\* add, if it is accepted, is a plan of one launch.
LEMMA AddIs ==
  ASSUME NEW a, NEW b, NEW alpha, add_tensor(a, b, alpha) # Refused
  PROVE  /\ SameShape(a, b) /\ SameDtype(a, b)
         /\ add_tensor(a, b, alpha) =
              Plan(<<EmptyLike("out", a)>>, <<AddLaunch(a, b, EmptyLike("out", a), alpha)>>)
<1>1. SameShape(a, b) /\ SameDtype(a, b)
  BY DEF add_tensor, Check
<1>2. EmptyLike("out", b) = EmptyLike("out", a)
  BY <1>1 DEF EmptyLike, SameShape, SameDtype
<1>3. CASE alpha = "1"
  BY <1>1, <1>3 DEF add_tensor, Check, run_binary_kernel, AddLaunch
<1>4. CASE alpha # "1"
  BY <1>1, <1>2, <1>4 DEF add_tensor, Check, axpy_, AddLaunch
<1> QED
  BY <1>1, <1>3, <1>4

\* add_ is add, and a copy.
LEMMA AddInPlaceIs ==
  ASSUME NEW a, NEW b, NEW alpha
  PROVE  \/ add_tensor_(a, b, alpha) = Refused
         \/ /\ add_tensor(a, b, alpha) # Refused
            /\ add_tensor_(a, b, alpha) =
                 WithCopy(Plan(<<EmptyLike("out", a)>>,
                               <<AddLaunch(a, b, EmptyLike("out", a), alpha)>>),
                          <<EmptyLike("out", a), a>>)
<1>1. CASE add_tensor(a, b, alpha) = Refused
  BY <1>1 DEF add_tensor_, Check
<1>2. CASE add_tensor(a, b, alpha) # Refused
  <2> DEFINE out == EmptyLike("out", a)
             p   == Plan(<<out>>, <<AddLaunch(a, b, out, alpha)>>)
  <2>1. add_tensor(a, b, alpha) = p
    BY <1>2, AddIs
  <2>2. p.fresh[1] = out
    BY DEF Plan
  <2> HIDE DEF p
  <2> QED
    BY <1>2, <2>1, <2>2 DEF add_tensor_, Check, WithCopy, p
<1> QED
  BY <1>1, <1>2

\* So it is accepted.
LEMMA AddInPlaceAccepted ==
  ASSUME NEW c, NEW a \in Tensors, NEW b \in Tensors, NEW alpha, c.op = "add_"
  PROVE  GoodPlan(c, add_tensor_(a, b, alpha))
<1> DEFINE out == EmptyLike("out", a)
           f   == <<out>>
           g   == <<AddLaunch(a, b, out, alpha)>>
           copy == <<out, a>>
<1>1. CASE add_tensor_(a, b, alpha) = Refused
  BY <1>1, Refusing
<1>2. CASE add_tensor_(a, b, alpha) # Refused
  <2>1. add_tensor(a, b, alpha) # Refused
        /\ add_tensor_(a, b, alpha) = WithCopy(Plan(f, g), copy)
    BY <1>2, AddInPlaceIs
  <2>2. add_tensor(a, b, alpha) = Plan(f, g)
    BY <2>1, AddIs
  <2>3. GoodPlan(c, Plan(f, g))
    BY <2>2, AddAccepted
  <2> HIDE DEF f, g, copy
  <2> QED
    BY <2>1, <2>3, WithCopyGood DEF Copies
<1> QED
  BY <1>1, <1>2

\* A plan that copies and nothing else.
LEMMA OnlyCopy ==
  ASSUME NEW c, Copies(c), NEW copy
  PROVE  GoodPlan(c, WithCopy(Plan(<<>>, <<>>), copy))
<1> DEFINE none == <<>>
<1>1. GoodPlan(c, Plan(none, none))
  BY NoLaunch
<1> HIDE DEF none
<1>2. GoodPlan(c, WithCopy(Plan(none, none), copy))
  BY <1>1, WithCopyGood
<1> QED
  BY <1>2 DEF none

\* copy_.
LEMMA CopyAccepted ==
  ASSUME NEW c, NEW self, NEW src, c.op = "copy_"
  PROVE  GoodPlan(c, copy_(self, src))
<1> DEFINE copy == IF Numel(self) = 0 THEN <<>> ELSE <<src, self>>
           p == WithCopy(Plan(<<>>, <<>>), copy)
           device == {t \in {self, src} : t.device = "minigpu"}
           ok == /\ device # {} /\ SameShape(self, src)
                 /\ Numel(self) = 0 \/ \A t \in device : t.contiguous
<1>1. copy_(self, src) = Check(ok, p)
  BY DEF copy_, WithCopy
<1>2. GoodPlan(c, p)
  <2> HIDE DEF copy
  <2> QED
    BY OnlyCopy DEF Copies
<1> HIDE DEF p, ok
<1> QED
  BY <1>1, <1>2, Checked

\* A copy through a tensor made for it: no launch, one new tensor.
LEMMA FreshCopy ==
  ASSUME NEW c, Copies(c), NEW t \in Tensors, IsNew(t), NEW copy
  PROVE  GoodPlan(c, WithCopy(Plan(<<t>>, <<>>), copy))
<1> DEFINE one == <<t>>
           none == <<>>
<1>1. GoodPlan(c, Plan(one, none))
  BY DEF GoodPlan, Plan, GoodFresh, IsNew, Copies
<1> HIDE DEF one, none
<1>2. GoodPlan(c, WithCopy(Plan(one, none), copy))
  BY <1>1, WithCopyGood
<1> QED
  BY <1>2 DEF one, none

\* fill_.
LEMMA FillAccepted ==
  ASSUME NEW c, NEW self \in Tensors, c.op = "fill_"
  PROVE  GoodPlan(c, fill_scalar_(self))
<1> DEFINE value == Tensor("value", "cpu", TRUE, self.dtype, self.shape)
           copy == IF Numel(self) = 0 THEN <<>> ELSE <<value, self>>
           p == WithCopy(Plan(<<value>>, <<>>), copy)
<1>1. fill_scalar_(self) = Check(require_minigpu_contiguous(self), p)
  BY DEF fill_scalar_, WithCopy
<1>2. value \in Tensors /\ IsNew(value)
  BY DEF Tensor, Tensors, IsNew, NewNames, Devices
<1>3. GoodPlan(c, p)
  <2> HIDE DEF value, copy
  <2> QED
    BY <1>2, FreshCopy DEF Copies
<1> HIDE DEF p
<1> QED
  BY <1>1, <1>3, Checked

\* to_copy.
LEMMA ToCopyAccepted ==
  ASSUME NEW c, NEW self \in Tensors, NEW dtype \in Dtypes, NEW device \in Devices, c.op = "to_copy"
  PROVE  GoodPlan(c, to_copy(self, dtype, device))
<1> DEFINE out == Tensor("out", device, TRUE, dtype, self.shape)
           copy == copy_(out, self).copy
           ok == "minigpu" \in {self.device, device} /\ copy_(out, self) # Refused
           p == WithCopy(Plan(<<out>>, <<>>), copy)
<1>1. to_copy(self, dtype, device) = Check(ok, p)
  BY DEF to_copy, WithCopy
<1>2. out \in Tensors /\ IsNew(out)
  BY DEF Tensor, Tensors, IsNew, NewNames
<1>3. GoodPlan(c, p)
  <2> HIDE DEF out, copy
  <2> QED
    BY <1>2, FreshCopy DEF Copies
<1> HIDE DEF p, ok
<1> QED
  BY <1>1, <1>3, Checked

\* view launches nothing.
LEMMA ViewAccepted ==
  ASSUME NEW c, NEW self, NEW size, ~Copies(c)
  PROVE  GoodPlan(c, view(self, size))
<1>1. ASSUME NEW v PROVE GoodPlan(c, [Plan(<<>>, <<>>) EXCEPT !.view = v])
  <2> DEFINE p == [Plan(<<>>, <<>>) EXCEPT !.view = v]
  <2>1. p.kind = "launching" /\ p.fresh = <<>> /\ p.launches = <<>> /\ p.copy = <<>>
    BY DEF Plan
  <2> SUFFICES GoodPlan(c, p)
    OBVIOUS
  <2> HIDE DEF p
  <2> QED
    BY <2>1 DEF GoodPlan, GoodFresh
<1> QED
  BY <1>1, Refusing DEF view, Check

-----------------------------------------------------------------------------
\* The tensors of a call.
LEMMA CallTensors ==
  ASSUME NEW c, WellFormed(c)
  PROVE  /\ c.in[1] \in Tensors
         /\ c.op \notin OneTensor => c.in[2] \in Tensors
         /\ c.op \in ThreeTensors => c.in[3] \in Tensors
         /\ BiasOf(c) \in Seq(Tensors)
<1>1. c.in \in Seq(Tensors) /\ Len(c.in) \in {1, 2, 3}
  BY DEF WellFormed
<1>2. c.in[1] \in Tensors
  BY <1>1
<1>3. c.op \notin OneTensor => Len(c.in) \in {2, 3}
  BY DEF WellFormed
<1>4. c.op \in ThreeTensors => Len(c.in) = 3
  BY DEF WellFormed, ThreeTensors, OneTensor, TwoTensors
<1>5. BiasOf(c) \in Seq(Tensors)
  BY <1>1 DEF BiasOf
<1> QED
  BY <1>1, <1>2, <1>3, <1>4, <1>5

\* The operators of the minigpu namespace.
LEMMA MiniGpuPlans ==
  ASSUME NEW c, WellFormed(c), c.op \in MiniGpuOps
  PROVE  GoodPlan(c, PlanOf(c))
<1> DEFINE a == c.in[1]
           b == c.in[2]
<1>0. a \in Tensors /\ (c.op \notin OneTensor => b \in Tensors)
  BY CallTensors
<1>1. PlanOf(c) = minigpu_impl(c)
  BY DEF PlanOf, MiniGpuOps
<1>2. CASE c.op = "scal"
  BY <1>0, <1>1, <1>2, ScalAccepted DEF minigpu_impl
<1>3. CASE c.op = "axpy"
  BY <1>0, <1>1, <1>3, AxpyAccepted DEF minigpu_impl, OneTensor
<1>4. CASE c.op = "mse_loss"
  BY <1>0, <1>1, <1>4, MseLossAccepted DEF minigpu_impl, OneTensor
<1>5. CASE c.op = "l1_loss"
  BY <1>0, <1>1, <1>5, L1LossAccepted DEF minigpu_impl, OneTensor
<1>6. CASE c.op = "l2_loss"
  BY <1>0, <1>1, <1>6, L2LossAccepted DEF minigpu_impl, OneTensor
<1>7. CASE c.op = "cross_entropy"
  BY <1>0, <1>1, <1>7, CrossEntropyAccepted DEF minigpu_impl, OneTensor
<1>8. CASE c.op = "cross_entropy_debug"
  BY <1>0, <1>1, <1>8, CrossEntropyDebugAccepted DEF minigpu_impl, OneTensor
<1>9. CASE c.op = "loss_grad"
  <2>1. c.in[3] \in Tensors /\ b \in Tensors
    BY <1>9, CallTensors DEF ThreeTensors, OneTensor
  <2> QED
    BY <1>0, <1>1, <1>9, <2>1, LossGradAccepted DEF minigpu_impl
<1> QED
  BY <1>2, <1>3, <1>4, <1>5, <1>6, <1>7, <1>8, <1>9 DEF MiniGpuOps

\* The backward of linear and of convolutions.
LEMMA AutogradPlans ==
  ASSUME NEW c, WellFormed(c), c.op \in {"linear_grad", "convolution_grad"}
  PROVE  GoodPlan(c, PlanOf(c))
<1>1. PlanOf(c) = autograd_backward(c)
  BY DEF PlanOf, MiniGpuOps
<1>2. c.in[1] \in Tensors /\ c.in[2] \in Tensors /\ c.in[3] \in Tensors
  BY CallTensors DEF ThreeTensors, OneTensor
<1>3. CASE c.op = "linear_grad"
  BY <1>1, <1>2, <1>3, LinearBackwardAccepted DEF autograd_backward
<1>4. CASE c.op = "convolution_grad"
  BY <1>1, <1>2, <1>4, ConvolutionBackwardAccepted DEF autograd_backward
<1> QED
  BY <1>3, <1>4

\* The operators of aten by the number of tensors they take.
LEMMA AtenPlansOfOne ==
  ASSUME NEW c, WellFormed(c), c.op \in OneTensor \ {"scal"}
  PROVE  GoodPlan(c, aten_impl(c))
<1> DEFINE a == c.in[1]
<1>0. a \in Tensors
  BY CallTensors
<1>1. CASE c.op = "relu"
  BY <1>0, <1>1, UnaryAccepted DEF aten_impl, UnaryKernels
<1>2. CASE c.op \in {"exp", "sigmoid", "tanh", "log", "log2", "log10", "sqrt", "reciprocal"}
  <2>1. aten_impl(c) = run_fp32_unary_kernel(c.op, a)
    BY <1>2 DEF aten_impl
  <2>2. c.op \in UnaryKernels
    BY <1>2 DEF UnaryKernels
  <2> QED
    BY <1>0, <2>1, <2>2, Fp32UnaryAccepted
<1>3. CASE c.op = "pow_scalar"
  BY <1>0, <1>3, HostAccepted DEF aten_impl
<1>4. CASE c.op \in {"sin", "cos", "tan"}
  <2>1. aten_impl(c) = sin_cos_tan(c.op, a)
    BY <1>4 DEF aten_impl
  <2> QED
    BY <1>0, <2>1, HostAccepted
<1>5. CASE c.op = "sum"
  BY <1>0, <1>5, ReductionsAccepted DEF aten_impl
<1>6. CASE c.op = "mean"
  BY <1>0, <1>6, ReductionsAccepted DEF aten_impl
<1>7. CASE c.op = "amax"
  BY <1>0, <1>7, ReductionsAccepted DEF aten_impl
<1>8. CASE c.op = "amin"
  BY <1>0, <1>8, ReductionsAccepted DEF aten_impl
<1>9. CASE c.op \in {"argmax", "argmin"}
  <2>1. aten_impl(c) = argmax_op(c.op, a, c.arg.dims, c.arg.keepdim)
    BY <1>9 DEF aten_impl
  <2> QED
    BY <1>0, <1>9, <2>1, ArgmaxAccepted
<1>10. CASE c.op = "softmax"
  BY <1>0, <1>10, SoftmaxAccepted DEF aten_impl
<1>11. CASE c.op = "max_pool2d"
  <2>1. c.arg.kernel \in Seq(Int) /\ c.arg.stride \in Seq(Int)
    BY <1>11 DEF WellFormed
  <2> QED
    BY <1>0, <1>11, <2>1, MaxPoolAccepted DEF aten_impl
<1>12. CASE c.op = "avg_pool2d"
  <2>1. c.arg.kernel \in Seq(Int) /\ c.arg.stride \in Seq(Int)
    BY <1>12 DEF WellFormed
  <2> QED
    BY <1>0, <1>12, <2>1, AvgPoolAccepted DEF aten_impl
<1>13. CASE c.op = "adaptive_avg_pool2d"
  <2>1. c.arg.size \in Seq(Int)
    BY <1>13 DEF WellFormed
  <2> QED
    BY <1>0, <1>13, <2>1, AdaptivePoolAccepted DEF aten_impl
<1>14. CASE c.op = "fill_"
  BY <1>0, <1>14, FillAccepted DEF aten_impl
<1>15. CASE c.op = "to_copy"
  <2>1. c.arg.dtype \in Dtypes /\ c.arg.device \in Devices
    BY <1>15 DEF WellFormed
  <2> QED
    BY <1>0, <1>15, <2>1, ToCopyAccepted DEF aten_impl
<1>16. CASE c.op = "view"
  BY <1>16, ViewAccepted DEF aten_impl, Copies
<1> QED
  BY <1>1, <1>2, <1>3, <1>4, <1>5, <1>6, <1>7, <1>8, <1>9, <1>10, <1>11, <1>12, <1>13, <1>14,
     <1>15, <1>16 DEF OneTensor

\* The other ATen operators.
LEMMA AtenPlansOfMore ==
  ASSUME NEW c, WellFormed(c), c.op \notin OneTensor \cup MiniGpuOps \cup {"linear_grad", "convolution_grad"}
  PROVE  GoodPlan(c, aten_impl(c))
<1> DEFINE a == c.in[1]
           b == c.in[2]
<1>0. a \in Tensors /\ b \in Tensors /\ BiasOf(c) \in Seq(Tensors)
  BY CallTensors
<1>1. CASE c.op = "add"
  BY <1>0, <1>1, AddAccepted DEF aten_impl
<1>2. CASE c.op = "add_"
  BY <1>0, <1>2, AddInPlaceAccepted DEF aten_impl
<1>3. CASE c.op = "mul"
  BY <1>0, <1>3, BinaryAccepted DEF aten_impl, mul_tensor
<1>4. CASE c.op = "div"
  BY <1>0, <1>4, DivAccepted DEF aten_impl
<1>5. CASE c.op = "mm"
  BY <1>0, <1>5, MmAccepted DEF aten_impl
<1>6. CASE c.op = "mv"
  BY <1>0, <1>6, MvAccepted DEF aten_impl
<1>7. CASE c.op = "dot"
  BY <1>0, <1>7, DotAccepted DEF aten_impl
<1>8. CASE c.op = "addmm"
  <2>1. c.in[3] \in Tensors
    BY <1>8, CallTensors DEF ThreeTensors
  <2> QED
    BY <1>0, <1>8, <2>1, AddmmAccepted DEF aten_impl
<1>9. CASE c.op = "linear"
  BY <1>0, <1>9, LinearAccepted DEF aten_impl
<1>10. CASE c.op = "convolution"
  <2>1. c.arg.stride \in Seq(Int)
    BY <1>10 DEF WellFormed
  <2>2. aten_impl(c) = convolution(a, b, BiasOf(c), c.arg)
    BY <1>10 DEF aten_impl
  <2> QED
    BY <1>0, <1>10, <2>1, <2>2, ConvolutionAccepted
<1>11. CASE c.op = "pow"
  BY <1>0, <1>11, HostAccepted DEF aten_impl
<1>12. CASE c.op = "softmax_backward"
  BY <1>0, <1>12, SoftmaxBackwardAccepted DEF aten_impl
<1>13. CASE c.op = "threshold_backward"
  BY <1>0, <1>13, ThresholdBackwardAccepted DEF aten_impl
<1>14. CASE c.op = "sigmoid_backward"
  BY <1>0, <1>14, SigmoidBackwardAccepted DEF aten_impl
<1>15. CASE c.op = "tanh_backward"
  BY <1>0, <1>15, TanhBackwardAccepted DEF aten_impl
<1>16. CASE c.op = "linear_backward"
  <2>1. c.in[3] \in Tensors
    BY <1>16, CallTensors DEF ThreeTensors
  <2> QED
    BY <1>0, <1>16, <2>1, LinearBackwardAccepted DEF aten_impl
<1>17. CASE c.op = "copy_"
  BY <1>17, CopyAccepted DEF aten_impl
<1>18. c.op \in TwoTensors \cup ThreeTensors \cup BiasOrNot
  BY DEF WellFormed
<1> QED
  BY <1>1, <1>2, <1>3, <1>4, <1>5, <1>6, <1>7, <1>8, <1>9, <1>10, <1>11, <1>12, <1>13, <1>14,
     <1>15, <1>16, <1>17, <1>18 DEF TwoTensors, ThreeTensors, BiasOrNot, MiniGpuOps

\* Every operator, whatever its arguments.
LEMMA PlansAreGood == ASSUME NEW c, WellFormed(c) PROVE GoodPlan(c, PlanOf(c))
<1>1. CASE c.op \in MiniGpuOps
  BY <1>1, MiniGpuPlans
<1>2. CASE c.op \in {"linear_grad", "convolution_grad"}
  BY <1>2, AutogradPlans
<1>3. CASE c.op \notin MiniGpuOps \cup {"linear_grad", "convolution_grad"}
  <2>1. PlanOf(c) = aten_impl(c)
    BY <1>3 DEF PlanOf
  <2>2. c.op \in OneTensor => c.op \in OneTensor \ {"scal"}
    BY <1>3 DEF MiniGpuOps
  <2> QED
    BY <1>3, <2>1, <2>2, AtenPlansOfOne, AtenPlansOfMore
<1> QED
  BY <1>1, <1>2, <1>3

-----------------------------------------------------------------------------
\* Row-major order, dimension by dimension.
IsPosition(b, ix, shape, n) ==
  b = [d \in 0..n |-> IF d = 0 THEN 0 ELSE b[d - 1] * shape[d] + ix[d]]

\* There is one such function, and Position is its value at the last dimension.
LEMMA PositionIsUnique ==
  ASSUME NEW n \in Nat, NEW ix, NEW shape, NEW a, NEW b,
         IsPosition(a, ix, shape, n), IsPosition(b, ix, shape, n)
  PROVE  a[n] = b[n]
<1> DEFINE S == {d \in Nat : d <= n => a[d] = b[d]}
<1>1. 0 \in S
  BY DEF IsPosition
<1>2. ASSUME NEW d \in S PROVE d + 1 \in S
  <2>1. CASE d + 1 <= n
    <3>1. d + 1 \in 0..n /\ d + 1 # 0 /\ (d + 1) - 1 = d /\ a[d] = b[d]
      BY <2>1
    <3>2. a[d + 1] = a[d] * shape[d + 1] + ix[d + 1]
      BY <3>1 DEF IsPosition
    <3>3. b[d + 1] = b[d] * shape[d + 1] + ix[d + 1]
      BY <3>1 DEF IsPosition
    <3> QED
      BY <3>1, <3>2, <3>3
  <2> QED
    BY <2>1
<1>3. S \in SUBSET Nat
  OBVIOUS
<1>4. n \in S
  <2> HIDE DEF S
  <2> QED
    BY <1>1, <1>2, <1>3, AllNumbers
<1> QED
  BY <1>4

\* Every number below a product is a multiple of the last factor and a rest.
LEMMA Splits ==
  ASSUME NEW m \in Nat, NEW s \in Nat, NEW q \in Nat, q < m * s
  PROVE  \E u \in Nat, r \in Nat : u < m /\ r < s /\ q = u * s + r
<1>1. s # 0
  BY m * 0 = 0
<1>2. PICK u \in Nat : \E r \in 0..(s - 1) : q = s * u + r /\ r = q % s
  BY <1>1, Divided
<1>3. PICK r \in 0..(s - 1) : q = s * u + r
  BY <1>2
<1>4. u < m
  <2> SUFFICES ASSUME u >= m PROVE FALSE
    BY <1>2
  <2>1. PICK d \in Nat : u = m + d
    BY u - m \in Nat
  <2>2. s * u = m * s + d * s /\ d * s \in Nat
    BY <2>1
  <2> QED
    BY <1>1, <1>3, <2>2
<1> QED
  BY <1>1, <1>3, <1>4

\* Some index of the first n dimensions is at position q of them.
Reached(shape, n, q) ==
  \E ix \in [1..n -> Nat] : \E b :
    (\A d \in 1..n : ix[d] < shape[d]) /\ IsPosition(b, ix, shape, n) /\ b[n] = q

\* One dimension more, and an index v of it.
LEMMA OneIndexMore ==
  ASSUME NEW shape \in Seq(Nat), NEW n \in Nat, n + 1 <= Len(shape),
         NEW u \in Nat, Reached(shape, n, u), NEW v \in Nat, v < shape[n + 1]
  PROVE  Reached(shape, n + 1, u * shape[n + 1] + v)
<1>7. PICK ix \in [1..n -> Nat] : \E b :
        (\A d \in 1..n : ix[d] < shape[d]) /\ IsPosition(b, ix, shape, n) /\ b[n] = u
  BY DEF Reached
<1>8. PICK b : (\A d \in 1..n : ix[d] < shape[d]) /\ IsPosition(b, ix, shape, n) /\ b[n] = u
  BY <1>7
<1> DEFINE r == u * shape[n + 1] + v
<1> DEFINE jx == [d \in 1..(n + 1) |-> IF d = n + 1 THEN v ELSE ix[d]]
           c == [d \in 0..(n + 1) |-> IF d = n + 1 THEN r ELSE b[d]]
<1>1. jx \in [1..(n + 1) -> Nat]
  <2>1. \A d \in 1..(n + 1) : d = n + 1 \/ d \in 1..n
    OBVIOUS
  <2> QED
    BY <2>1
<1>2. \A d \in 1..(n + 1) : jx[d] < shape[d]
  <2>1. \A d \in 1..(n + 1) : d = n + 1 \/ d \in 1..n
    OBVIOUS
  <2> QED
    BY <2>1, <1>8
<1>3. ASSUME NEW d \in 0..(n + 1)
      PROVE  c[d] = IF d = 0 THEN 0 ELSE c[d - 1] * shape[d] + jx[d]
  <2>1. CASE d = n + 1
    <3>1. c[d] = r /\ c[d - 1] = b[n] /\ jx[d] = v /\ d # 0
      BY <2>1, <1>8
    <3> HIDE DEF c, jx
    <3> QED
      BY <2>1, <3>1, <1>8
  <2>2. CASE d = 0
    <3>1. c[0] = b[0] /\ b[0] = 0
      BY <1>8 DEF IsPosition
    <3> QED
      BY <2>2, <3>1
  <2>3. CASE d \in 1..n
    <3>0. d \in Int /\ 1 <= d /\ d <= n
      BY <2>3
    <3>1. d \in 0..n /\ d # 0 /\ d - 1 \in 0..n /\ d # n + 1 /\ d - 1 # n + 1
      BY <3>0
    <3>2. d \in 0..(n + 1) /\ d - 1 \in 0..(n + 1) /\ d \in 1..(n + 1)
      BY <2>3
    <3>3. c[d] = b[d] /\ c[d - 1] = b[d - 1] /\ jx[d] = ix[d]
      BY <3>1, <3>2
    <3>4. b[d] = b[d - 1] * shape[d] + ix[d]
      BY <1>8, <3>1 DEF IsPosition
    <3> QED
      BY <3>1, <3>3, <3>4
  <2>4. d = n + 1 \/ d = 0 \/ d \in 1..n
    OBVIOUS
  <2> QED
    BY <2>1, <2>2, <2>3, <2>4
<1>4. c = [d \in 0..(n + 1) |-> c[d]] /\ c[n + 1] = r
  OBVIOUS
<1> HIDE DEF c, jx
<1>5. [d \in 0..(n + 1) |-> c[d]]
        = [d \in 0..(n + 1) |-> IF d = 0 THEN 0 ELSE c[d - 1] * shape[d] + jx[d]]
  BY <1>3
<1>6. IsPosition(c, jx, shape, n + 1)
  BY <1>4, <1>5 DEF IsPosition
<1> QED
  BY <1>1, <1>2, <1>4, <1>6 DEF Reached

\* Every flat position is that of an index.
LEMMA EveryPosition ==
  ASSUME NEW shape \in Seq(Nat), NEW q \in Upto(NumelOf(shape))
  PROVE  \E ix \in Indices(shape) : Position(ix, shape) = q
<1> DEFINE N == Len(shape)
<1>1. PICK p \in [0..N -> Nat] :
            /\ p[0] = 1
            /\ \A d \in 1..N : p[d] = p[d - 1] * shape[d]
            /\ NumelOf(shape) = p[N]
  BY NumelSteps
<1> DEFINE S == {n \in Nat : n <= N => \A r \in Upto(p[n]) : Reached(shape, n, r)}
<1>2. 0 \in S
  <2>1. ASSUME NEW r \in Upto(p[0]) PROVE Reached(shape, 0, r)
    <3>1. r = 0
      BY <1>1 DEF Upto
    <3> DEFINE b == [d \in 0..0 |-> 0]
               ix == [d \in 1..0 |-> 0]
    <3>2. IsPosition(b, ix, shape, 0) /\ b[0] = 0
      BY DEF IsPosition
    <3>3. ix \in [1..0 -> Nat] /\ \A d \in 1..0 : ix[d] < shape[d]
      OBVIOUS
    <3> HIDE DEF b, ix
    <3> QED
      BY <3>1, <3>2, <3>3 DEF Reached
  <2> QED
    BY <2>1
<1>3. ASSUME NEW n \in S PROVE n + 1 \in S
  <2> SUFFICES ASSUME n + 1 <= N, NEW r \in Upto(p[n + 1]) PROVE Reached(shape, n + 1, r)
    BY n \in Nat
  <2>1. n \in Nat /\ n <= N /\ n \in 0..N /\ n + 1 \in 1..N /\ (n + 1) - 1 = n
    OBVIOUS
  <2>2. p[n] \in Nat /\ shape[n + 1] \in Nat /\ p[n + 1] = p[n] * shape[n + 1]
    BY <1>1, <2>1
  <2>3. \A w \in Upto(p[n]) : Reached(shape, n, w)
    BY <2>1
  <2> HIDE DEF S
  <2>4. r \in Nat /\ r < p[n] * shape[n + 1]
    <3> DEFINE m == p[n] * shape[n + 1]
    <3>1. m \in Nat /\ r \in Upto(m)
      BY <2>2
    <3> HIDE DEF m
    <3>2. r \in Nat /\ r < m
      BY <3>1 DEF Upto
    <3> QED
      BY <3>2 DEF m
  <2>5. PICK u \in Nat, v \in Nat : u < p[n] /\ v < shape[n + 1] /\ r = u * shape[n + 1] + v
    <3> DEFINE m == p[n]
               s == shape[n + 1]
    <3>1. m \in Nat /\ s \in Nat /\ r \in Nat /\ r < m * s
      BY <2>2, <2>4
    <3> HIDE DEF m, s
    <3>2. \E u \in Nat, v \in Nat : u < m /\ v < s /\ r = u * s + v
      BY <3>1, Splits
    <3> QED
      BY <3>2 DEF m, s
  <2>6. Reached(shape, n, u)
    <3>1. u \in Upto(p[n])
      BY <2>2, <2>5 DEF Upto
    <3> QED
      BY <2>3, <3>1
  <2> QED
    BY <2>1, <2>5, <2>6, OneIndexMore
<1>4. Reached(shape, N, q)
  <2>1. S \in SUBSET Nat
    OBVIOUS
  <2>2. N \in S
    <3>1. N \in Nat
      OBVIOUS
    <3> HIDE DEF S, N
    <3>2. \A n \in S : n + 1 \in S
      BY <1>3
    <3> QED
      BY <1>2, <2>1, <3>1, <3>2, AllNumbers, Zenon
  <2>3. \A r \in Upto(p[N]) : Reached(shape, N, r)
    BY <2>2
  <2> HIDE DEF S, N
  <2> QED
    BY <1>1, <2>3
<1>8. PICK ix \in [1..N -> Nat] : \E b :
        (\A d \in 1..N : ix[d] < shape[d]) /\ IsPosition(b, ix, shape, N) /\ b[N] = q
  BY <1>4 DEF Reached
<1>5. PICK b : (\A d \in 1..N : ix[d] < shape[d]) /\ IsPosition(b, ix, shape, N) /\ b[N] = q
  BY <1>8
<1>6. ix \in Indices(shape)
  <2>1. ASSUME NEW d \in 1..N PROVE ix[d] \in Upto(shape[d])
    <3>1. ix[d] \in Nat /\ shape[d] \in Nat
      OBVIOUS
    <3>2. ix[d] < shape[d]
      BY <1>5
    <3> QED
      BY <3>1, <3>2 DEF Upto
  <2>2. DOMAIN shape = 1..N
    OBVIOUS
  <2> QED
    BY <1>5, <2>1, <2>2 DEF Indices
<1>7. Position(ix, shape) = q
  <2> DEFINE a == CHOOSE a : IsPosition(a, ix, shape, N)
  <2>1. IsPosition(a, ix, shape, N)
    BY <1>5
  <2>2. Position(ix, shape) = a[N]
    BY DEF Position, IsPosition
  <2> HIDE DEF a
  <2>3. a[N] = b[N]
    BY <1>5, <2>1, PositionIsUnique
  <2> QED
    BY <1>5, <2>2, <2>3
<1> QED
  BY <1>6, <1>7

-----------------------------------------------------------------------------
\* The position of an index, from one dimension to the next.
LEMMA PositionExists ==
  ASSUME NEW ix, NEW shape \in Seq(Nat)
  PROVE  \E b : IsPosition(b, ix, shape, Len(shape))
<1> DEFINE S == {n \in Nat : \E b : IsPosition(b, ix, shape, n)}
<1>1. 0 \in S
  <2>1. IsPosition([d \in 0..0 |-> 0], ix, shape, 0)
    BY DEF IsPosition
  <2> QED
    BY <2>1
<1>2. ASSUME NEW n \in S PROVE n + 1 \in S
  <2>1. PICK b : IsPosition(b, ix, shape, n)
    OBVIOUS
  <2> DEFINE c == [d \in 0..(n + 1) |-> IF d = n + 1 THEN b[n] * shape[n + 1] + ix[n + 1] ELSE b[d]]
  <2>2. IsPosition(c, ix, shape, n + 1)
    BY <2>1 DEF IsPosition
  <2> HIDE DEF c
  <2> QED
    BY <2>2
<1>3. S \in SUBSET Nat
  OBVIOUS
<1>4. Len(shape) \in S
  <2> HIDE DEF S
  <2>1. \A n \in Nat : n \in S
    BY <1>1, <1>2, <1>3, AllNumbers
  <2> QED
    BY <2>1
<1> QED
  BY <1>4

\* An index has a number below its size in every dimension.
LEMMA IndexIs ==
  ASSUME NEW shape \in Seq(Nat), NEW ix \in Indices(shape)
  PROVE  /\ ix = [d \in 1..Len(shape) |-> ix[d]]
         /\ \A d \in 1..Len(shape) : ix[d] \in Nat /\ shape[d] \in Nat /\ ix[d] < shape[d]
<1>1. ix \in [DOMAIN shape -> UNION {Upto(shape[d]) : d \in DOMAIN shape}]
      /\ \A d \in DOMAIN shape : ix[d] < shape[d]
  BY DEF Indices
<1>2. DOMAIN shape = 1..Len(shape) /\ \A d \in DOMAIN shape : shape[d] \in Nat
  OBVIOUS
<1>3. UNION {Upto(shape[d]) : d \in DOMAIN shape} \subseteq Nat
  BY <1>2 DEF Upto
<1> QED
  BY <1>1, <1>2, <1>3

\* A position is reached dimension by dimension.
LEMMA PositionSteps ==
  ASSUME NEW shape \in Seq(Nat), NEW ix \in Indices(shape)
  PROVE  \E b \in [0..Len(shape) -> Nat] :
            /\ b[0] = 0
            /\ \A d \in 1..Len(shape) : b[d] = b[d - 1] * shape[d] + ix[d]
            /\ Position(ix, shape) = b[Len(shape)]
<1> DEFINE b == CHOOSE b : IsPosition(b, ix, shape, Len(shape))
<1>1. IsPosition(b, ix, shape, Len(shape))
  BY PositionExists
<1>2. Position(ix, shape) = b[Len(shape)]
  BY DEF Position, IsPosition
<1> HIDE DEF b
<1> DEFINE S == {d \in Nat : d <= Len(shape) => b[d] \in Nat}
<1>3. 0 \in S
  BY <1>1 DEF IsPosition
<1>4. ASSUME NEW d \in S PROVE d + 1 \in S
  <2>1. CASE d + 1 <= Len(shape)
    <3>1. b[d] \in Nat /\ shape[d + 1] \in Nat /\ ix[d + 1] \in Nat
      BY <2>1, IndexIs
    <3>2. b[d + 1] = b[d] * shape[d + 1] + ix[d + 1]
      BY <1>1, <2>1 DEF IsPosition
    <3>3. b[d] * shape[d + 1] \in Nat
      BY <3>1
    <3>4. b[d + 1] \in Nat
      BY <3>1, <3>2, <3>3
    <3> QED
      BY <3>4
  <2> QED
    BY <2>1
<1>5. \A d \in Nat : d \in S
  <2>1. S \in SUBSET Nat
    OBVIOUS
  <2> HIDE DEF S
  <2> QED
    BY <1>3, <1>4, <2>1, AllNumbers
<1>6. \A d \in 0..Len(shape) : b[d] \in Nat
  BY <1>5
<1>7. b \in [0..Len(shape) -> Nat]
  BY <1>1, <1>6 DEF IsPosition
<1>8. b[0] = 0 /\ \A d \in 1..Len(shape) : b[d] = b[d - 1] * shape[d] + ix[d]
  BY <1>1 DEF IsPosition
<1> QED
  BY <1>2, <1>7, <1>8

\* A number below m, times s, and a number below s: below m * s.
LEMMA BelowProduct ==
  ASSUME NEW m \in Nat, NEW s \in Nat, NEW u \in Nat, NEW r \in Nat, u < m, r < s
  PROVE  u * s + r < m * s
<1>1. PICK d \in Nat : m = u + 1 + d
  BY m - u - 1 \in Nat
<1>2. m * s = u * s + s + d * s /\ u * s \in Nat /\ d * s \in Nat
  BY <1>1
<1> QED
  BY <1>2

\* Every index lies inside the tensor.
LEMMA PositionInside ==
  ASSUME NEW shape \in Seq(Nat), NEW ix \in Indices(shape)
  PROVE  Position(ix, shape) \in Upto(NumelOf(shape))
<1> DEFINE N == Len(shape)
<1>1. PICK p \in [0..N -> Nat] :
            /\ p[0] = 1
            /\ \A d \in 1..N : p[d] = p[d - 1] * shape[d]
            /\ NumelOf(shape) = p[N]
  BY NumelSteps
<1>2. PICK b \in [0..N -> Nat] :
            /\ b[0] = 0
            /\ \A d \in 1..N : b[d] = b[d - 1] * shape[d] + ix[d]
            /\ Position(ix, shape) = b[N]
  BY PositionSteps
<1> DEFINE S == {n \in Nat : n <= N => b[n] < p[n]}
<1>3. 0 \in S
  BY <1>1, <1>2
<1>4. ASSUME NEW n \in S PROVE n + 1 \in S
  <2> SUFFICES ASSUME n + 1 <= N PROVE b[n + 1] < p[n + 1]
    OBVIOUS
  <2>1. n \in Nat /\ n \in 0..N /\ n + 1 \in 1..N /\ (n + 1) - 1 = n /\ b[n] < p[n]
    OBVIOUS
  <2>2. p[n + 1] = p[n] * shape[n + 1] /\ b[n + 1] = b[n] * shape[n + 1] + ix[n + 1]
    BY <1>1, <1>2, <2>1
  <2>3. shape[n + 1] \in Nat /\ ix[n + 1] \in Nat /\ ix[n + 1] < shape[n + 1]
        /\ p[n] \in Nat /\ b[n] \in Nat
    BY <2>1, IndexIs, <1>1, <1>2
  <2>4. b[n] * shape[n + 1] + ix[n + 1] < p[n] * shape[n + 1]
    BY <2>1, <2>3, BelowProduct
  <2> QED
    BY <2>2, <2>4
<1>5. N \in S
  <2>1. S \in SUBSET Nat /\ N \in Nat
    OBVIOUS
  <2> HIDE DEF S, N
  <2> QED
    BY <1>3, <1>4, <2>1, AllNumbers
<1>6. b[N] < p[N] /\ b[N] \in Nat /\ p[N] \in Nat
  BY <1>5, <1>1, <1>2
<1> QED
  BY <1>1, <1>2, <1>6 DEF Upto

\* The same quotient and rest: the number determines both.
LEMMA SplitsOnce ==
  ASSUME NEW s \in Nat, NEW u \in Nat, NEW r \in Nat, NEW v \in Nat, NEW t \in Nat,
         r < s, t < s, u * s + r = v * s + t
  PROVE  u = v /\ r = t
<1>1. ASSUME NEW x \in Nat, NEW y \in Nat, x < y PROVE x * s + s <= y * s
  <2>1. PICK d \in Nat : y = x + 1 + d
    BY <1>1, y - x - 1 \in Nat
  <2>2. y * s = x * s + s + d * s /\ d * s \in Nat /\ x * s \in Nat
    BY <2>1
  <2> QED
    BY <2>2
<1>2. u * s \in Nat /\ v * s \in Nat
  OBVIOUS
<1>3. ~(u < v)
  <2> SUFFICES ASSUME u < v PROVE FALSE
    OBVIOUS
  <2>1. u * s + s <= v * s
    BY <1>1
  <2> QED
    BY <1>2, <2>1
<1>4. ~(v < u)
  <2> SUFFICES ASSUME v < u PROVE FALSE
    OBVIOUS
  <2>1. v * s + s <= u * s
    BY <1>1
  <2> QED
    BY <1>2, <2>1
<1>5. u = v
  BY <1>3, <1>4
<1> QED
  BY <1>2, <1>5

\* No two indices lie at one position.
LEMMA PositionsDiffer ==
  ASSUME NEW shape \in Seq(Nat), NEW ix \in Indices(shape), NEW jx \in Indices(shape),
         Position(ix, shape) = Position(jx, shape)
  PROVE  ix = jx
<1> DEFINE N == Len(shape)
<1>1. PICK a \in [0..N -> Nat] :
            /\ a[0] = 0
            /\ \A d \in 1..N : a[d] = a[d - 1] * shape[d] + ix[d]
            /\ Position(ix, shape) = a[N]
  BY PositionSteps
<1>2. PICK b \in [0..N -> Nat] :
            /\ b[0] = 0
            /\ \A d \in 1..N : b[d] = b[d - 1] * shape[d] + jx[d]
            /\ Position(jx, shape) = b[N]
  BY PositionSteps
<1> DEFINE S == {n \in Nat : n <= N /\ a[n] = b[n] => \A d \in 1..n : ix[d] = jx[d]}
<1>3. 0 \in S
  OBVIOUS
<1>4. ASSUME NEW n \in S PROVE n + 1 \in S
  <2> SUFFICES ASSUME n + 1 <= N, a[n + 1] = b[n + 1], NEW d \in 1..(n + 1) PROVE ix[d] = jx[d]
    OBVIOUS
  <2>1. n \in Nat /\ n <= N /\ n \in 0..N /\ n + 1 \in 1..N /\ (n + 1) - 1 = n
        /\ (a[n] = b[n] => \A e \in 1..n : ix[e] = jx[e])
    OBVIOUS
  <2> HIDE DEF S
  <2>2. a[n + 1] = a[n] * shape[n + 1] + ix[n + 1] /\ b[n + 1] = b[n] * shape[n + 1] + jx[n + 1]
    BY <1>1, <1>2, <2>1
  <2>3. /\ shape[n + 1] \in Nat /\ ix[n + 1] \in Nat /\ ix[n + 1] < shape[n + 1]
        /\ jx[n + 1] \in Nat /\ jx[n + 1] < shape[n + 1] /\ a[n] \in Nat /\ b[n] \in Nat
    BY <2>1, IndexIs, <1>1, <1>2
  <2>4. a[n] = b[n] /\ ix[n + 1] = jx[n + 1]
    <3> DEFINE s == shape[n + 1]
               u == a[n]
               r == ix[n + 1]
               v == b[n]
               t == jx[n + 1]
    <3>1. /\ s \in Nat /\ u \in Nat /\ r \in Nat /\ v \in Nat /\ t \in Nat
          /\ r < s /\ t < s /\ u * s + r = v * s + t
      BY <2>2, <2>3
    <3> HIDE DEF s, u, r, v, t
    <3>2. u = v /\ r = t
      BY <3>1, SplitsOnce
    <3> QED
      BY <3>2 DEF s, u, r, v, t
  <2>5. CASE d = n + 1
    BY <2>4, <2>5
  <2>6. CASE d \in 1..n
    BY <2>1, <2>4, <2>6
  <2> QED
    BY <2>1, <2>5, <2>6
<1>5. N \in S
  <2>1. S \in SUBSET Nat /\ N \in Nat
    OBVIOUS
  <2> HIDE DEF S, N
  <2> QED
    BY <1>3, <1>4, <2>1, AllNumbers
<1>6. \A d \in 1..N : ix[d] = jx[d]
  <2>1. a[N] = b[N]
    BY <1>1, <1>2, Zenon
  <2>2. N <= N
    OBVIOUS
  <2> HIDE DEF N
  <2> QED
    BY <1>5, <2>1, <2>2
<1>7. ix = [d \in 1..N |-> ix[d]] /\ jx = [d \in 1..N |-> jx[d]]
  BY IndexIs
<1> QED
  BY <1>6, <1>7

-----------------------------------------------------------------------------
\* The index that lies at position q, as Result finds it.
Places(shape)     == [ix \in Indices(shape) |-> Position(ix, shape)]
IndexAt(shape, q) == CHOOSE ix \in DOMAIN Places(shape) : Places(shape)[ix] = q

\* The positions of the indices are all there are.
LEMMA PlacesAre ==
  ASSUME NEW shape \in Seq(Nat)
  PROVE  {Places(shape)[ix] : ix \in DOMAIN Places(shape)} = Upto(NumelOf(shape))
<1>1. \A ix \in Indices(shape) : Position(ix, shape) \in Upto(NumelOf(shape))
  BY PositionInside
<1>2. \A q \in Upto(NumelOf(shape)) : \E ix \in Indices(shape) : Position(ix, shape) = q
  BY EveryPosition
<1> QED
  BY <1>1, <1>2 DEF Places

\* It is an index, and lies there.
LEMMA IndexAtIs ==
  ASSUME NEW shape \in Seq(Nat), NEW q \in Upto(NumelOf(shape))
  PROVE  IndexAt(shape, q) \in Indices(shape) /\ Position(IndexAt(shape, q), shape) = q
<1>1. \E ix \in DOMAIN Places(shape) : Places(shape)[ix] = q
  BY EveryPosition DEF Places
<1>2. IndexAt(shape, q) \in DOMAIN Places(shape) /\ Places(shape)[IndexAt(shape, q)] = q
  BY <1>1 DEF IndexAt
<1> QED
  BY <1>2 DEF Places

\* An index is found at its position.
LEMMA IndexAtOf ==
  ASSUME NEW shape \in Seq(Nat), NEW ix \in Indices(shape)
  PROVE  IndexAt(shape, Position(ix, shape)) = ix
  BY PositionInside, IndexAtIs, PositionsDiffer

\* What a result holds there.
LEMMA ResultIs ==
  ASSUME NEW shape \in Seq(Nat), NEW f
  PROVE  ResultOf(shape, f) =
           [shape |-> shape, flat |-> [q \in Upto(NumelOf(shape)) |-> f[IndexAt(shape, q)]]]
  BY PlacesAre DEF ResultOf, Places, IndexAt

-----------------------------------------------------------------------------
\* What thread t has run of the loop is what lies before its loop variable, in
\* a shared loop only what is congruent to t.
Passed(t, i) == i < pos[t] /\ (shared => i % BlockDim = t)

LoopInv ==
  /\ total \in Nat /\ shared \in BOOLEAN
  /\ pos \in [Thread -> Nat]
  /\ shared => \A t \in Thread : pos[t] % BlockDim = t
  /\ ran = {p \in Thread \X Nat : Passed(p[1], p[2])}

-----------------------------------------------------------------------------
\* No kernel has run: nothing was run and nothing is left to run.
LEMMA InitEstablishes == LoopInit => LoopInv
<1> SUFFICES ASSUME LoopInit PROVE LoopInv
  OBVIOUS
<1>1. /\ total \in Nat /\ shared \in BOOLEAN /\ pos \in [Thread -> Nat]
      /\ shared => \A t \in Thread : pos[t] % BlockDim = t
  BY SmallRemainder, StridedLoopAssumption DEF LoopInit, Thread
<1>2. ASSUME NEW t \in Thread, NEW i \in Nat, Passed(t, i) PROVE FALSE
  <2>1. i \in 0..(BlockDim - 1) /\ i # t
    BY <1>2, StridedLoopAssumption DEF LoopInit, Thread, Passed
  <2>2. i % BlockDim = i
    BY <2>1, SmallRemainder, StridedLoopAssumption
  <2> QED
    BY <1>2, <2>1, <2>2 DEF LoopInit, Passed
<1>3. {p \in Thread \X Nat : Passed(p[1], p[2])} = {}
  BY <1>2
<1> QED
  BY <1>1, <1>3 DEF LoopInv, LoopInit

\* A kernel starts: as in the initial state, with total iterations to run.
LEMMA StartPreserves ==
  ASSUME LoopInv, NEW n \in Nat, NEW s \in BOOLEAN, Start(n, s)
  PROVE  LoopInv'
<1>1. /\ total' \in Nat /\ shared' \in BOOLEAN /\ pos' \in [Thread -> Nat]
      /\ shared' => \A t \in Thread : pos'[t] % BlockDim = t
  BY SmallRemainder, StridedLoopAssumption DEF Start, Thread
<1>2. ASSUME NEW t \in Thread, NEW i \in Nat, Passed(t, i)' PROVE FALSE
  <2>1. s = TRUE /\ i < t
    BY <1>2, StridedLoopAssumption DEF Start, Thread, Passed
  <2>2. i \in 0..(BlockDim - 1)
    BY <2>1, StridedLoopAssumption DEF Thread
  <2>3. i % BlockDim = i
    BY <2>2, SmallRemainder, StridedLoopAssumption
  <2> QED
    BY <1>2, <2>1, <2>3, StridedLoopAssumption DEF Start, Passed, Thread
<1>3. {p \in Thread \X Nat : Passed(p[1], p[2])'} = {}
  BY <1>2
<1> QED
  BY <1>1, <1>3 DEF LoopInv, Start, Passed

\* A thread runs one iteration: its variable passes that iteration and no
\* other of its own.
LEMMA IteratePreserves ==
  ASSUME LoopInv, NEW t \in Thread, Iterate(t)
  PROVE  LoopInv'
<1> DEFINE stride == IF shared THEN BlockDim ELSE 1
<1>1. stride \in Nat \ {0} /\ pos[t] \in Nat
  BY StridedLoopAssumption DEF LoopInv
<1>2. pos' = [pos EXCEPT ![t] = @ + stride] /\ pos' \in [Thread -> Nat]
  BY <1>1 DEF Iterate, LoopInv
<1>3. UNCHANGED <<total, shared>> /\ ran' = ran \cup {<<t, pos[t]>>}
  BY DEF Iterate
<1>4. shared' => \A u \in Thread : pos'[u] % BlockDim = u
  <2> SUFFICES ASSUME shared, NEW u \in Thread PROVE pos'[u] % BlockDim = u
    BY <1>3
  <2>1. CASE u = t
    <3>1. pos'[u] = pos[t] + BlockDim
      BY <2>1, <1>2 DEF LoopInv
    <3>2. (pos[t] + BlockDim) % BlockDim = pos[t] % BlockDim
      BY <1>1, StrideKeepsRemainder, StridedLoopAssumption
    <3> QED
      BY <2>1, <3>1, <3>2 DEF LoopInv
  <2>2. CASE u # t
    BY <2>2, <1>2 DEF LoopInv
  <2> QED
    BY <2>1, <2>2
<1>5. ASSUME NEW u \in Thread, NEW i \in Nat
      PROVE  Passed(u, i)' <=> (Passed(u, i) \/ (u = t /\ i = pos[t]))
  <2>1. CASE u # t
    BY <2>1, <1>2, <1>3 DEF Passed, LoopInv
  <2>2. CASE u = t /\ i < pos[t]
    BY <2>2, <1>1, <1>2, <1>3 DEF Passed, LoopInv
  <2>3. CASE u = t /\ i = pos[t]
    BY <2>3, <1>1, <1>2, <1>3 DEF Passed, LoopInv
  <2>4. CASE u = t /\ i > pos[t]
    <3>1. ~Passed(u, i)
      BY <2>4, <1>1 DEF Passed
    <3>2. CASE ~shared
      BY <2>4, <3>1, <3>2, <1>1, <1>2, <1>3 DEF Passed, LoopInv
    <3>3. CASE shared
      <4>1. pos[t] % BlockDim = t
        BY <3>3 DEF LoopInv
      <4>2. ASSUME i % BlockDim = t, i < pos[t] + BlockDim PROVE i = pos[t]
        <5>1. pos[t] % BlockDim = i % BlockDim /\ pos[t] <= i
          BY <4>1, <4>2, <2>4, <1>1
        <5>2. BlockDim \in Nat \ {0}
          BY StridedLoopAssumption
        <5> QED
          BY <5>1, <5>2, <4>2, <1>1, OneOfEachClass, Zenon
      <4>3. pos'[u] = pos[t] + BlockDim
        BY <2>4, <3>3, <1>2 DEF LoopInv
      <4> QED
        BY <2>4, <3>1, <3>3, <4>2, <4>3, <1>1, <1>3 DEF Passed
    <3> QED
      BY <3>2, <3>3
  <2> QED
    BY <1>1, <2>1, <2>2, <2>3, <2>4
<1>6. ran' = {p \in Thread \X Nat : Passed(p[1], p[2])'}
  <2>1. ran = {p \in Thread \X Nat : Passed(p[1], p[2])}
    BY DEF LoopInv
  <2> HIDE DEF Passed
  <2> QED
    BY <2>1, <1>1, <1>3, <1>5
<1> QED
  BY <1>2, <1>3, <1>4, <1>6 DEF LoopInv, Passed

\* LoopInv is inductive.
THEOREM LoopInvariant == LoopSpec => []LoopInv
<1>1. LoopInit => LoopInv
  BY InitEstablishes
<1>2. LoopInv /\ [LoopNext]_loopVars => LoopInv'
  <2> SUFFICES ASSUME LoopInv, [LoopNext]_loopVars PROVE LoopInv'
    OBVIOUS
  <2>1. ASSUME NEW n \in Trips, NEW s \in BOOLEAN, Start(n, s) PROVE LoopInv'
    BY <2>1, StartPreserves, StridedLoopAssumption
  <2>2. ASSUME NEW t \in Thread, Iterate(t) PROVE LoopInv'
    BY <2>2, IteratePreserves
  <2>3. CASE UNCHANGED loopVars
    BY <2>3 DEF loopVars, LoopInv, Passed
  <2> QED
    BY <2>1, <2>2, <2>3 DEF LoopNext
<1> QED
  BY <1>1, <1>2, PTL DEF LoopSpec

-----------------------------------------------------------------------------
\* Two threads that share a loop pass different iterations, and what all have
\* passed was run.
LEMMA LoopsAreComplete == ASSUME LoopInv PROVE EachIndexOnce
<1>1. shared => \A p, q \in ran : p[2] = q[2] => p[1] = q[1]
  BY DEF LoopInv, Passed
<1>2. ASSUME Halted, NEW i \in 0..(total - 1)
      PROVE  \E t \in Thread : <<t, i>> \in ran
  <2>1. i \in Nat /\ \A t \in Thread : i < pos[t]
    BY <1>2 DEF Halted, LoopInv
  <2>2. CASE shared
    <3>1. i % BlockDim \in Thread
      BY <2>1, RemainderInRange, StridedLoopAssumption DEF Thread
    <3>2. Passed(i % BlockDim, i)
      BY <2>1, <3>1 DEF Passed
    <3>3. <<i % BlockDim, i>> \in ran
      BY <2>1, <3>1, <3>2 DEF LoopInv
    <3> QED
      BY <3>1, <3>3
  <2>3. CASE ~shared
    <3>1. 0 \in Thread
      BY StridedLoopAssumption DEF Thread
    <3>2. <<0, i>> \in ran
      BY <2>1, <2>3, <3>1 DEF LoopInv, Passed
    <3> QED
      BY <3>1, <3>2
  <2> QED
    BY <2>2, <2>3
<1> QED
  BY <1>1, <1>2 DEF EachIndexOnce

\* Whatever the number of threads and iterations: no two threads run the same
\* iteration of a shared loop, and a loop that all threads have left was run
\* without a gap (activation.cu:5 and the header of every other kernel).
THEOREM RunsEachIndexOnce == LoopSpec => []EachIndexOnce
<1>1. LoopInv => EachIndexOnce
  BY LoopsAreComplete
<1> QED
  BY <1>1, LoopInvariant, PTL

\* A thread never repeats an iteration of a kernel.
THEOREM NeverRepeats == LoopSpec => NeverRunTwice
<1>1. LoopInv => (\A t \in Thread : Iterate(t) => <<t, pos[t]>> \notin ran)
  BY DEF LoopInv, Passed, Thread
<1>2. LoopInv /\ [LoopNext]_loopVars =>
        [\A t \in Thread : Iterate(t) => <<t, pos[t]>> \notin ran]_loopVars
  BY <1>1
<1> QED
  BY <1>2, LoopInvariant, PTL DEF LoopSpec, NeverRunTwice

-----------------------------------------------------------------------------
\* A call that was accepted and may still change something, or did.
Underway == Busy \cup {"returned", "threw"}

\* A call under way follows the plan its operator made of its arguments, and
\* but for a kernel under way no thread is in a loop.
CallInv ==
  /\ stage \in Busy \cup Ended
  /\ call \in 1..Len(CallList)
  /\ next \in Nat \ {0}
  /\ stage \in Underway => plan = PlanOf(CallList[call]) /\ plan.kind = "launching"
  /\ stage \notin {"running", "threw"} => Halted

\* The launch that is next or under way is one of the plan's, and a good one.
LEMMA ThisIsGood ==
  ASSUME CallInv, stage \in Underway, LaunchesLeft
  PROVE  /\ next \in 1..Len(plan.launches)
         /\ GoodLaunch(CallList[call], ThisLaunch, plan.fresh)
<1>1. WellFormed(CallList[call])
  BY CallsAssumption DEF CallInv
<1>2. GoodPlan(CallList[call], plan) /\ plan.kind = "launching"
  BY <1>1, PlansAreGood DEF CallInv
<1>3. Len(plan.launches) \in Nat /\ next \in 1..Len(plan.launches)
  BY <1>2 DEF GoodPlan, CallInv, LaunchesLeft
<1> QED
  BY <1>2, <1>3 DEF GoodPlan, ThisLaunch

\* A kernel that is started has a number of iterations, and they are shared or
\* not, whatever it reads.
LEMMA KernelIsTyped ==
  ASSUME CallInv, stage \in Underway, LaunchesLeft, ThisLaunch.kernel[2] # "host",
         Launchable(ThisLaunch), NEW x
  PROVE  Kernel(ThisLaunch, x).total \in Nat /\ Kernel(ThisLaunch, x).shared \in BOOLEAN
<1> DEFINE l == ThisLaunch
<1>1. Inside(l)
  BY ThisIsGood DEF GoodLaunch
<1> HIDE DEF l
<1>2. PICK n \in Nat : Kernel(l, x).total = n /\ Kernel(l, x).shared \in BOOLEAN
  BY <1>1, Zenon DEF Inside
<1> QED
  BY <1>2 DEF l

\* The next call begins.
LEMMA CallStarts ==
  ASSUME LoopInv, CallInv, Call
  PROVE  LoopInv' /\ CallInv'
<1>1. Start(0, TRUE) /\ stage \in Ended
  BY DEF Call
<1>2. LoopInv'
  BY <1>1, StartPreserves
<1>3. call' \in 1..Len(CallList)
  <2>1. call \in Nat /\ Len(CallList) \in Nat \ {0}
    BY CallsAssumption DEF CallInv
  <2>2. call % Len(CallList) \in 0..(Len(CallList) - 1)
    BY <2>1, RemainderInRange
  <2> QED
    BY <2>1, <2>2 DEF Call
<1>4. plan' = PlanOf(CallList[call']) /\ stage' = plan'.kind /\ next' = 1
  BY DEF Call
<1>5. stage' \in {"refused", "crashed", "launching"}
  <2>1. GoodPlan(CallList[call'], plan')
    BY <1>3, <1>4, CallsAssumption, PlansAreGood
  <2> QED
    BY <1>4, <2>1 DEF GoodPlan
<1>6. Halted'
  BY <1>1, StridedLoopAssumption DEF Start, Halted, Thread
<1>7. stage' \in Underway => plan'.kind = "launching"
  BY <1>4, <1>5 DEF Underway, Busy
<1> QED
  BY <1>2, <1>3, <1>4, <1>5, <1>6, <1>7 DEF CallInv, Busy, Ended, Underway

\* A launch begins: its loop is typed, so the loop starts as one may.
LEMMA LaunchStarts ==
  ASSUME LoopInv, CallInv, LaunchNext
  PROVE  LoopInv' /\ CallInv'
<1> DEFINE kernel == Kernel(ThisLaunch, Read(ThisLaunch))
<1>1. stage = "launching" /\ LaunchesLeft /\ ThisLaunch.kernel[2] # "host"
      /\ UNCHANGED <<call, plan, next, mem, buffer, copied>> /\ stage \in Underway
  BY DEF LaunchNext, Underway, Busy
<1>2. CASE Launchable(ThisLaunch)
  <2>1. stage' = "running" /\ Start(kernel.total, kernel.shared)
    BY <1>2 DEF LaunchNext
  <2>2. kernel.total \in Nat /\ kernel.shared \in BOOLEAN
    BY <1>1, <1>2, KernelIsTyped
  <2> HIDE DEF kernel
  <2>3. LoopInv'
    BY <2>1, <2>2, StartPreserves
  <2> QED
    BY <1>1, <2>1, <2>3 DEF CallInv, Busy, Ended, Underway
<1>3. CASE ~Launchable(ThisLaunch)
  <2>1. stage' = "threw" /\ UNCHANGED loopVars
    BY <1>3 DEF LaunchNext
  <2> QED
    BY <1>1, <2>1 DEF CallInv, Busy, Ended, Underway, LoopInv, loopVars, Passed
<1> QED
  BY <1>2, <1>3

\* A thread runs an iteration or leaves.
LEMMA ThreadSteps ==
  ASSUME LoopInv, CallInv, NEW t \in Thread, ThreadStep(t)
  PROVE  LoopInv' /\ CallInv'
<1>1. Iterate(t) /\ stage \in {"running", "threw"} /\ UNCHANGED <<call, plan, stage, next>>
  BY DEF ThreadStep, Runs
<1>2. LoopInv'
  BY <1>1, IteratePreserves
<1> QED
  BY <1>1, <1>2 DEF CallInv

\* The steps of the host that start no kernel.
HostSteps == ComputeOnHost \/ KernelDone \/ StartCopy \/ WriteElement \/ Return \/ Fail

\* They leave the loop alone.
LEMMA HostStepsOn ==
  ASSUME LoopInv, CallInv, HostSteps
  PROVE  LoopInv' /\ CallInv'
<1>1. UNCHANGED loopVars /\ UNCHANGED <<call, plan>>
  BY DEF HostSteps, ComputeOnHost, KernelDone, StartCopy, WriteElement, Return, Fail
<1>2. LoopInv' /\ (Halted' <=> Halted)
  BY <1>1 DEF LoopInv, Passed, Halted, loopVars
<1>3. stage \in Busy /\ stage' \in Busy \cup {"returned", "threw"}
  BY DEF HostSteps, ComputeOnHost, KernelDone, StartCopy, WriteElement, Return, Fail,
         NothingLeft, Busy
<1>4. next' \in Nat \ {0}
  <2>1. next \in Nat \ {0} /\ next' \in {next, next + 1}
    BY DEF HostSteps, ComputeOnHost, KernelDone, StartCopy, WriteElement, Return, Fail, CallInv
  <2> QED
    BY <2>1
<1>5. stage' \notin {"running", "threw"} => Halted
  <2>1. KernelDone => Halted
    BY DEF KernelDone
  <2>2. stage' \notin {"running", "threw"} => KernelDone \/ stage \notin {"running", "threw"}
    BY DEF HostSteps, ComputeOnHost, KernelDone, StartCopy, WriteElement, Return, Fail, NothingLeft
  <2> QED
    BY <2>1, <2>2 DEF CallInv
<1> QED
  BY <1>1, <1>2, <1>3, <1>4, <1>5 DEF CallInv, Underway, Busy, Ended

\* LoopInv and CallInv are inductive together: a kernel's loop starts with the
\* numbers of a launch that its operator made.
LEMMA CallEstablishes == ASSUME Init PROVE LoopInv /\ CallInv
<1>1. LoopInv
  BY InitEstablishes DEF Init
<1>2. Halted
  BY StridedLoopAssumption DEF Init, LoopInit, Halted, Thread
<1> QED
  BY <1>1, <1>2, CallsAssumption DEF Init, CallInv, Busy, Ended, Underway

\* No step of a call breaks them.
LEMMA CallPreserves ==
  ASSUME LoopInv, CallInv, [Next]_vars
  PROVE  LoopInv' /\ CallInv'
<1>1. CASE Call
  BY <1>1, CallStarts
<1>2. CASE LaunchNext
  BY <1>2, LaunchStarts
<1>3. ASSUME NEW t \in Thread, ThreadStep(t) PROVE LoopInv' /\ CallInv'
  BY <1>3, ThreadSteps
<1>4. CASE HostSteps
  BY <1>4, HostStepsOn
<1>5. CASE UNCHANGED vars
  <2>1. UNCHANGED <<call, plan, stage, next, mem, buffer, copied>> /\ UNCHANGED loopVars
    BY <1>5 DEF vars
  <2> QED
    BY <2>1 DEF LoopInv, CallInv, Passed, Halted, loopVars
<1> QED
  BY <1>1, <1>2, <1>3, <1>4, <1>5 DEF Next, HostSteps

\* Of every call: the plan it follows is the one of its operator (OpCalls.Call),
\* and its loop is where the threads have got to.
THEOREM CallInvariant == Spec => [](LoopInv /\ CallInv)
  BY CallEstablishes, CallPreserves, PTL DEF Spec

\* Whatever an operator accepts, the launch helpers, the addresses and the
\* kernel table accept as well, but for tensors without elements and
\* convolutions of integers: for every shape, every data type and every
\* argument that PyTorch may hand over (math.cpp 251-1725).
THEOREM AcceptedIsLaunched == Spec => []AcceptedIsLaunchable
<1>1. CallInv => AcceptedIsLaunchable
  <2> DEFINE c == CallList[call]
             l == ThisLaunch
  <2> SUFFICES ASSUME CallInv, stage = "launching", LaunchesLeft, l.kernel[2] # "host",
                      ~(c.op = "convolution" /\ c.in[1].dtype = "i32"),
                      ~ \E i \in DOMAIN l.pointers : Numel(l.pointers[i]) = 0
               PROVE  Launchable(l)
    BY DEF AcceptedIsLaunchable
  <2>1. GoodLaunch(c, l, plan.fresh)
    BY ThisIsGood DEF Underway, Busy
  <2> HIDE DEF c, l
  <2>2. l.ok /\ l.kernel \in Registered /\ l.pointers \in Seq(Tensors)
    BY <2>1 DEF GoodLaunch
  <2>3. ASSUME NEW i \in DOMAIN l.pointers PROVE Numel(l.pointers[i]) > 0
    <3>1. l.pointers[i] \in Tensors
      BY <2>2
    <3> QED
      BY <3>1, TensorNumel
  <2> QED
    BY <2>2, <2>3 DEF Launchable
<1> QED
  BY <1>1, CallInvariant, PTL

\* In every call every kernel runs every index of its loop, and no index of a
\* shared loop twice: the loops of the calls are loops as StridedLoop has them.
THEOREM CallsRunEachIndexOnce == Spec => []EachIndexOnce
<1>1. LoopInv => EachIndexOnce
  BY LoopsAreComplete
<1> QED
  BY <1>1, CallInvariant, PTL

\* The loops of the calls are those of StridedLoop, for any number of
\* iterations: TLC's run bounds it.
THEOREM CallsRunLoops == Trips = Nat => (Spec => LoopSpec)
<1> SUFFICES ASSUME Trips = Nat PROVE Spec => LoopSpec
  OBVIOUS
<1>1. Init => LoopInit
  BY DEF Init
<1>2. CallInv /\ [Next]_vars => [LoopNext]_loopVars
  <2> SUFFICES ASSUME CallInv, [Next]_vars PROVE [LoopNext]_loopVars
    OBVIOUS
  <2>1. CASE Call
    <3>1. Start(0, TRUE)
      BY <2>1 DEF Call
    <3> QED
      BY <3>1 DEF LoopNext
  <2>2. CASE LaunchNext
    <3> DEFINE kernel == Kernel(ThisLaunch, Read(ThisLaunch))
    <3>1. CASE Launchable(ThisLaunch)
      <4>1. Start(kernel.total, kernel.shared)
        BY <2>2, <3>1 DEF LaunchNext
      <4>2. kernel.total \in Trips /\ kernel.shared \in BOOLEAN
        BY <2>2, <3>1, KernelIsTyped DEF LaunchNext, Underway, Busy
      <4> HIDE DEF kernel
      <4> QED
        BY <4>1, <4>2 DEF LoopNext
    <3>2. CASE ~Launchable(ThisLaunch)
      BY <2>2, <3>2 DEF LaunchNext
    <3> QED
      BY <3>1, <3>2
  <2>3. ASSUME NEW t \in Thread, ThreadStep(t) PROVE LoopNext
    BY <2>3 DEF ThreadStep, Runs, LoopNext
  <2>4. CASE HostSteps
    BY <2>4 DEF HostSteps, ComputeOnHost, KernelDone, StartCopy, WriteElement, Return, Fail
  <2>5. CASE UNCHANGED vars
    BY <2>5 DEF vars
  <2> QED
    BY <2>1, <2>2, <2>3, <2>4, <2>5 DEF Next, HostSteps
<1> QED
  BY <1>1, <1>2, CallInvariant, PTL DEF Spec, LoopSpec

-----------------------------------------------------------------------------
\* The plans that end with a copy.  add_: one kernel into a new tensor, which
\* is copied over the argument.
OutOf(c) == EmptyLike("out", c.in[1])
AddOf(c) == AddLaunch(c.in[1], c.in[2], OutOf(c), c.arg.alpha)

\* Its plan.
LEMMA AddPlan ==
  ASSUME NEW c, c.op = "add_", PlanOf(c).kind = "launching"
  PROVE  /\ PlanOf(c).fresh = <<OutOf(c)>>
         /\ PlanOf(c).launches = <<AddOf(c)>>
         /\ PlanOf(c).copy = <<OutOf(c), c.in[1]>> /\ PlanOf(c).view = <<>>
         /\ SameShape(c.in[1], c.in[2]) /\ SameDtype(c.in[1], c.in[2])
<1> DEFINE f == <<OutOf(c)>>
           g == <<AddOf(c)>>
           copy == <<OutOf(c), c.in[1]>>
<1>1. PlanOf(c) = add_tensor_(c.in[1], c.in[2], c.arg.alpha)
  BY DEF PlanOf, MiniGpuOps, aten_impl
<1>2. add_tensor_(c.in[1], c.in[2], c.arg.alpha) # Refused
  BY <1>1 DEF Refused
<1>3. /\ PlanOf(c) = WithCopy(Plan(f, g), copy)
      /\ add_tensor(c.in[1], c.in[2], c.arg.alpha) # Refused
  BY <1>1, <1>2, AddInPlaceIs DEF OutOf, AddOf
<1>4. SameShape(c.in[1], c.in[2]) /\ SameDtype(c.in[1], c.in[2])
  BY <1>3, AddIs
<1> HIDE DEF f, g, copy
<1>5. PlanOf(c).fresh = f /\ PlanOf(c).launches = g /\ PlanOf(c).copy = copy
      /\ PlanOf(c).view = <<>>
  BY <1>3 DEF WithCopy, Plan
<1> QED
  BY <1>4, <1>5 DEF f, g, copy

\* copy_: nothing but the copy.
LEMMA CopyPlan ==
  ASSUME NEW c, c.op = "copy_", PlanOf(c).kind = "launching"
  PROVE  /\ PlanOf(c).fresh = <<>> /\ PlanOf(c).launches = <<>>
         /\ PlanOf(c).copy # <<>> => PlanOf(c).copy = <<c.in[2], c.in[1]>>
         /\ PlanOf(c).copy = <<>> => Numel(c.in[1]) = 0
         /\ PlanOf(c).view = <<>>
         /\ SameShape(c.in[1], c.in[2])
<1> DEFINE self == c.in[1]
           src  == c.in[2]
           copy == IF Numel(self) = 0 THEN <<>> ELSE <<src, self>>
           p    == WithCopy(Plan(<<>>, <<>>), copy)
           device == {t \in {self, src} : t.device = "minigpu"}
           ok == /\ device # {} /\ SameShape(self, src)
                 /\ Numel(self) = 0 \/ \A t \in device : t.contiguous
<1>1. PlanOf(c) = Check(ok, p)
  BY DEF PlanOf, MiniGpuOps, aten_impl, copy_, WithCopy
<1>2. ok /\ PlanOf(c) = p
  <2> HIDE DEF ok, p
  <2> QED
    BY <1>1 DEF Check, Refused
<1>3. (copy # <<>> => copy = <<src, self>>) /\ (copy = <<>> => Numel(self) = 0)
  OBVIOUS
<1> HIDE DEF copy
<1>4. p.fresh = <<>> /\ p.launches = <<>> /\ p.copy = copy /\ p.view = <<>>
  BY DEF WithCopy, Plan
<1> QED
  BY <1>2, <1>3, <1>4

\* fill_: a host tensor of the value is copied.
ValueOf(c) == Tensor("value", "cpu", TRUE, c.in[1].dtype, c.in[1].shape)

\* Its plan.
LEMMA FillPlan ==
  ASSUME NEW c, c.op = "fill_", PlanOf(c).kind = "launching"
  PROVE  /\ PlanOf(c).fresh = <<ValueOf(c)>> /\ PlanOf(c).launches = <<>>
         /\ PlanOf(c).copy # <<>> => PlanOf(c).copy = <<ValueOf(c), c.in[1]>>
         /\ PlanOf(c).copy = <<>> => Numel(c.in[1]) = 0
         /\ PlanOf(c).view = <<>>
<1> DEFINE self == c.in[1]
           one  == <<ValueOf(c)>>
           copy == IF Numel(self) = 0 THEN <<>> ELSE <<ValueOf(c), self>>
           p    == WithCopy(Plan(one, <<>>), copy)
           ok   == require_minigpu_contiguous(self)
<1>1. PlanOf(c) = Check(ok, p)
  BY DEF PlanOf, MiniGpuOps, aten_impl, fill_scalar_, WithCopy, ValueOf
<1>2. PlanOf(c) = p
  <2> HIDE DEF ok, p
  <2> QED
    BY <1>1 DEF Check, Refused
<1>3. (copy # <<>> => copy = <<ValueOf(c), self>>) /\ (copy = <<>> => Numel(self) = 0)
  OBVIOUS
<1> HIDE DEF copy, one
<1>4. p.fresh = one /\ p.launches = <<>> /\ p.copy = copy /\ p.view = <<>>
  BY DEF WithCopy, Plan
<1> QED
  BY <1>2, <1>3, <1>4 DEF one

\* to_copy: an argument is copied to a new tensor of its shape.
TargetOf(c) == Tensor("out", c.arg.device, TRUE, c.arg.dtype, c.in[1].shape)

\* Its plan.
LEMMA ToCopyPlan ==
  ASSUME NEW c, c.op = "to_copy", PlanOf(c).kind = "launching"
  PROVE  /\ PlanOf(c).fresh = <<TargetOf(c)>> /\ PlanOf(c).launches = <<>>
         /\ PlanOf(c).copy # <<>> => PlanOf(c).copy = <<c.in[1], TargetOf(c)>>
         /\ PlanOf(c).copy = <<>> => Numel(c.in[1]) = 0
         /\ PlanOf(c).view = <<>>
<1> DEFINE self == c.in[1]
           out  == TargetOf(c)
           one  == <<out>>
           copy == copy_(out, self).copy
           p    == WithCopy(Plan(one, <<>>), copy)
           ok   == "minigpu" \in {self.device, c.arg.device} /\ copy_(out, self) # Refused
<1>1. PlanOf(c) = Check(ok, p)
  BY DEF PlanOf, MiniGpuOps, aten_impl, to_copy, WithCopy, TargetOf
<1>2. ok /\ PlanOf(c) = p
  <2> HIDE DEF ok, p
  <2> QED
    BY <1>1 DEF Check, Refused
<1>3. (copy # <<>> => copy = <<self, out>>) /\ (copy = <<>> => Numel(self) = 0)
  <2> DEFINE last == IF Numel(out) = 0 THEN <<>> ELSE <<self, out>>
             q    == WithCopy(Plan(<<>>, <<>>), last)
             fits == /\ {t \in {out, self} : t.device = "minigpu"} # {} /\ SameShape(out, self)
                     /\ Numel(out) = 0
                        \/ \A t \in {u \in {out, self} : u.device = "minigpu"} : t.contiguous
  <2>1. copy_(out, self) = Check(fits, q)
    BY DEF copy_, WithCopy
  <2>2. copy_(out, self) = q
    <3> HIDE DEF fits, q
    <3> QED
      BY <1>2, <2>1 DEF Check
  <2>3. q.copy = last
    <3> HIDE DEF last
    <3> QED
      BY DEF WithCopy, Plan
  <2>4. Numel(out) = Numel(self)
    BY DEF Numel, TargetOf, Tensor
  <2>5. (last # <<>> => last = <<self, out>>) /\ (last = <<>> => Numel(out) = 0)
    OBVIOUS
  <2> HIDE DEF last, q
  <2> QED
    BY <2>2, <2>3, <2>4, <2>5
<1> HIDE DEF copy, one
<1>4. p.fresh = one /\ p.launches = <<>> /\ p.copy = copy /\ p.view = <<>>
  BY DEF WithCopy, Plan
<1> QED
  BY <1>2, <1>3, <1>4 DEF one

\* No other plan copies.
LEMMA OthersDoNotCopy ==
  ASSUME NEW c, WellFormed(c), PlanOf(c).kind = "launching", PlanOf(c).copy # <<>>
  PROVE  c.op \in {"add_", "copy_", "fill_", "to_copy"}
  BY PlansAreGood DEF GoodPlan, Copies

-----------------------------------------------------------------------------
\* Element q of a result of the first argument's shape is what it holds at the
\* index that lies there.
LEMMA ElementOf ==
  ASSUME NEW c, WellFormed(c), NEW f, NEW q \in Elements(c.in[1])
  PROVE  /\ ResultOf(ShapeOf(c, 1), f).flat[q] = f[IndexAt(ShapeOf(c, 1), q)]
         /\ IndexAt(ShapeOf(c, 1), q) \in Indices(ShapeOf(c, 1))
         /\ Position(IndexAt(ShapeOf(c, 1), q), ShapeOf(c, 1)) = q
<1>1. c.in[1] \in Tensors
  BY CallTensors
<1>2. ShapeOf(c, 1) \in Seq(Nat) /\ q \in Upto(NumelOf(ShapeOf(c, 1)))
  BY <1>1 DEF ShapeOf, Tensors, Elements, Numel
<1> QED
  BY <1>2, ResultIs, IndexAtIs

\* What add_ makes of it is the sum of the two arguments' elements.
SumAt(c, q) ==
  IF c.arg.alpha = "1" THEN Plus(InputAt(c, 1, q), InputAt(c, 2, q))
  ELSE Plus(InputAt(c, 1, q), Times(Scalar(c.arg.alpha), InputAt(c, 2, q)))

\* That the reference asks for this sum.
LEMMA SumIs ==
  ASSUME NEW c, WellFormed(c), c.op = "add_", SameShape(c.in[1], c.in[2]), NEW q \in Elements(c.in[1])
  PROVE  Changed(c).flat[q] = SumAt(c, q)
<1> DEFINE f == [ix \in Indices(ShapeOf(c, 1)) |-> Added(c, ix)]
           ix == IndexAt(ShapeOf(c, 1), q)
<1>1. Changed(c) = ResultOf(ShapeOf(c, 1), f)
  BY DEF Changed, Result
<1>2. Changed(c).flat[q] = f[ix] /\ ix \in Indices(ShapeOf(c, 1))
      /\ Position(ix, ShapeOf(c, 1)) = q
  <2> HIDE DEF f
  <2> QED
    BY <1>1, ElementOf
<1> HIDE DEF ix
<1>3. Changed(c).flat[q] = Added(c, ix)
  BY <1>2
<1>4. X(c, 1, ix) = InputAt(c, 1, q) /\ X(c, 2, ix) = InputAt(c, 2, q)
  BY <1>2 DEF X, ShapeOf, SameShape
<1> QED
  BY <1>3, <1>4 DEF Added, SumAt

\* What copy_ makes of it is the other argument's element, converted.
LEMMA CopyIs ==
  ASSUME NEW c, WellFormed(c), c.op = "copy_", SameShape(c.in[1], c.in[2]), NEW q \in Elements(c.in[1])
  PROVE  Changed(c).flat[q] = Convert(c.in[2].dtype, c.in[1].dtype, InputAt(c, 2, q))
<1> DEFINE f == [ix \in Indices(ShapeOf(c, 1)) |-> Converted(c, c.in[1].dtype, 2, ix)]
           ix == IndexAt(ShapeOf(c, 1), q)
<1>1. Changed(c) = ResultOf(ShapeOf(c, 1), f)
  BY DEF Changed, Result
<1>2. Changed(c).flat[q] = f[ix] /\ ix \in Indices(ShapeOf(c, 1))
      /\ Position(ix, ShapeOf(c, 1)) = q
  <2> HIDE DEF f
  <2> QED
    BY <1>1, ElementOf
<1> HIDE DEF ix
<1>3. Changed(c).flat[q] = Converted(c, c.in[1].dtype, 2, ix)
  BY <1>2
<1>4. X(c, 2, ix) = InputAt(c, 2, q)
  BY <1>2 DEF X, ShapeOf, SameShape
<1> QED
  BY <1>3, <1>4 DEF Converted, Convert

\* What fill_ makes of it is the value.
LEMMA FillIs ==
  ASSUME NEW c, WellFormed(c), c.op = "fill_", NEW q \in Elements(c.in[1])
  PROVE  Changed(c).flat[q] = Scalar("value")
<1> DEFINE f == [ix \in Indices(ShapeOf(c, 1)) |-> Scalar("value")]
           ix == IndexAt(ShapeOf(c, 1), q)
<1>1. Changed(c) = ResultOf(ShapeOf(c, 1), f)
  BY DEF Changed, Result
<1>2. Changed(c).flat[q] = f[ix] /\ ix \in Indices(ShapeOf(c, 1))
  <2> HIDE DEF f
  <2> QED
    BY <1>1, ElementOf
<1> HIDE DEF ix
<1> QED
  BY <1>2

\* What a launch reads from contents m of the tensors.
ReadFrom(l, m) == [k \in DOMAIN l.pointers |-> m[l.pointers[k].name]]

\* The kernel of add_ stores that sum, whatever it reads but its arguments.
LEMMA AddKernel ==
  ASSUME NEW c, WellFormed(c), c.op = "add_", PlanOf(c).kind = "launching",
         NEW m, m[c.in[1].name] = Before(c, 1), m[c.in[2].name] = Before(c, 2)
  PROVE  /\ Kernel(AddOf(c), ReadFrom(AddOf(c), m)).total = Numel(c.in[1])
         /\ \A i \in Elements(c.in[1]) :
              Kernel(AddOf(c), ReadFrom(AddOf(c), m)).stores[i] = [j \in {i} |-> SumAt(c, i)]
<1> DEFINE l == AddOf(c)
           x == ReadFrom(l, m)
           a == c.in[1]
           b == c.in[2]
           n == Numel(a)
<1>1. SameShape(a, b) /\ SameDtype(a, b) /\ Numel(b) = n
  BY AddPlan DEF SameShape, Numel
<1>3. \A i \in Elements(a) : At(m[a.name], i) = InputAt(c, 1, i) /\ At(m[b.name], i) = InputAt(c, 2, i)
  BY <1>1 DEF Before, At, Elements
<1>4. CASE c.arg.alpha = "1"
  <2>1. l.kernel[1] = "vector_add" /\ l.pointers = <<a, b, OutOf(c)>> /\ l.num.n = n
    BY <1>4 DEF AddOf, AddLaunch, launch_elementwise_binary, Launch
  <2>2. x[1] = m[a.name] /\ x[2] = m[b.name]
    <3> HIDE DEF l
    <3> QED
      BY <2>1 DEF ReadFrom
  <2> HIDE DEF l, x
  <2>3. Kernel(l, x) = vector_add(m[a.name], m[b.name], n)
    BY <2>1, <2>2 DEF Kernel
  <2>4. Kernel(l, x).total = n
    BY <2>3 DEF vector_add, Map, Loop
  <2>5. ASSUME NEW i \in Elements(a)
        PROVE  Kernel(l, x).stores[i] = [j \in {i} |-> SumAt(c, i)]
    <3>1. Kernel(l, x).stores[i] = [j \in {i} |-> Plus(At(m[a.name], i), At(m[b.name], i))]
      BY <2>3 DEF vector_add, Map, Loop, Elements
    <3> QED
      BY <3>1, <1>3, <1>4 DEF SumAt
  <2> QED
    BY <2>4, <2>5 DEF l, x
<1>5. CASE c.arg.alpha # "1"
  <2>1. l.kernel[1] = "axpy" /\ l.pointers = <<b, a, OutOf(c)>> /\ l.num.n = n
        /\ l.num.alpha = Scalar(c.arg.alpha)
    BY <1>1, <1>5 DEF AddOf, AddLaunch, launch_axpy, Launch
  <2>2. x[1] = m[b.name] /\ x[2] = m[a.name]
    <3> HIDE DEF l
    <3> QED
      BY <2>1 DEF ReadFrom
  <2> HIDE DEF l, x
  <2>3. Kernel(l, x) = axpy(m[b.name], m[a.name], Scalar(c.arg.alpha), n)
    BY <2>1, <2>2 DEF Kernel
  <2>4. Kernel(l, x).total = n
    BY <2>3 DEF axpy, Map, Loop
  <2>5. ASSUME NEW i \in Elements(a)
        PROVE  Kernel(l, x).stores[i] = [j \in {i} |-> SumAt(c, i)]
    <3>1. Kernel(l, x).stores[i]
            = [j \in {i} |-> Plus(Times(Scalar(c.arg.alpha), At(m[b.name], i)), At(m[a.name], i))]
      BY <2>3 DEF axpy, Map, Loop, Elements
    <3>2. Plus(Times(Scalar(c.arg.alpha), At(m[b.name], i)), At(m[a.name], i)) = SumAt(c, i)
      BY <1>3, <1>5 DEF SumAt, Plus
    <3> QED
      BY <3>1, <3>2
  <2> QED
    BY <2>4, <2>5 DEF l, x
<1> QED
  BY <1>4, <1>5

-----------------------------------------------------------------------------
\* A kernel is under way: the host waits for it, or gave up waiting.
Active == stage = "running" \/ (stage = "threw" /\ ~Halted)

\* It is the launch that is next, and its loop has that launch's iterations.
RunInv ==
  Active => /\ LaunchesLeft /\ ThisLaunch.kernel[2] # "host" /\ Launchable(ThisLaunch)
            /\ total = Kernel(ThisLaunch, Read(ThisLaunch)).total

\* The argument that is written back, if there is one.
Rewritten(k) == plan.copy # <<>> /\ plan.copy[2].name = CallList[call].in[k].name

\* A new tensor has its elements and no others; an argument has those it had,
\* but for the part that was written back.
NewKept ==
  \A f \in DOMAIN plan.fresh : DOMAIN mem[plan.fresh[f].name] = Elements(plan.fresh[f])
OldKept ==
  LET c == CallList[call]
  IN \A k \in DOMAIN c.in :
       mem[c.in[k].name] =
         [i \in Elements(c.in[k]) |->
            IF Rewritten(k) /\ i < copied THEN Changed(c).flat[i] ELSE Before(c, k)[i]]
\* What is in memory while a call is under way.
MemInv ==
  stage \in Underway =>
    /\ DOMAIN mem = Names(CallList[call].in) \cup Names(plan.fresh)
    /\ NewKept /\ OldKept

\* Nothing is written back before the last launch ended.  The host's copy then
\* holds what the operator promises, and a call that returns wrote all of it.
CopyInv ==
  LET c == CallList[call]
  IN /\ copied \in Nat
     /\ stage = "launching" \/ Active => copied = 0
     /\ stage = "copying" =>
          /\ plan.copy # <<>> /\ DOMAIN buffer = Elements(plan.copy[2])
          /\ copied <= Numel(plan.copy[2])
          /\ c.op \in InPlace => \A i \in Elements(c.in[1]) : buffer[i] = Changed(c).flat[i]
     /\ stage = "returned" /\ plan.copy # <<>> => copied = Numel(plan.copy[2])

\* What is going to be copied: the sums of the iterations that were run; the
\* value.
SourceInv ==
  LET c == CallList[call]
  IN stage \in Underway =>
       /\ c.op = "add_" =>
            \A i \in Elements(c.in[1]) :
              next > 1 \/ (\E t \in Thread : <<t, i>> \in ran) => mem["out"][i] = Changed(c).flat[i]
       /\ c.op = "fill_" => \A i \in Elements(c.in[1]) : mem["value"][i] = Scalar("value")

\* All of it.
Inv == LoopInv /\ CallInv /\ RunInv /\ MemInv /\ CopyInv /\ SourceInv

-----------------------------------------------------------------------------
\* Tensors of a call that have one name are one tensor.
LEMMA InputNames ==
  ASSUME NEW c, WellFormed(c)
  PROVE  /\ c.in \in Seq(Tensors) /\ 1 \in DOMAIN c.in
         /\ \A k \in DOMAIN c.in : c.in[k].name \in {"in1", "in2", "in3"}
         /\ \A k, m \in DOMAIN c.in : c.in[k].name = c.in[m].name => c.in[k] = c.in[m]
         /\ c.in[1].name = "in1"
         /\ c.op \in TwoTensors => 2 \in DOMAIN c.in
<1>1. c.in \in Seq(Tensors) /\ Len(c.in) \in {1, 2, 3}
  BY DEF WellFormed
<1>2. DOMAIN c.in \subseteq {1, 2, 3} /\ 1 \in DOMAIN c.in
  BY <1>1
<1>3. \A k \in DOMAIN c.in :
        c.in[k].name = InputName[k] \/ \E j \in 1..(k - 1) : c.in[k] = c.in[j]
  BY DEF WellFormed
<1>4. InputName[1] = "in1" /\ InputName[2] = "in2" /\ InputName[3] = "in3"
  BY DEF InputName
<1>5. c.op \in TwoTensors => 2 \in DOMAIN c.in
  <2> SUFFICES ASSUME c.op \in TwoTensors PROVE 2 \in DOMAIN c.in
    OBVIOUS
  <2>1. Len(c.in) = 2
    BY DEF WellFormed, OneTensor, TwoTensors
  <2> QED
    BY <1>1, <2>1
<1>6. /\ c.in[1].name = "in1"
      /\ 2 \in DOMAIN c.in => c.in[2].name = "in2" \/ c.in[2] = c.in[1]
      /\ 3 \in DOMAIN c.in => c.in[3].name = "in3" \/ c.in[3] = c.in[1] \/ c.in[3] = c.in[2]
  BY <1>2, <1>3, <1>4
<1>7. \A k \in DOMAIN c.in : c.in[k].name \in {"in1", "in2", "in3"}
  BY <1>1, <1>2, <1>6
<1>8. \A k, m \in DOMAIN c.in : c.in[k].name = c.in[m].name => c.in[k] = c.in[m]
  BY <1>1, <1>2, <1>6
<1> QED
  BY <1>1, <1>2, <1>5, <1>6, <1>7, <1>8

\* And hold the same.
LEMMA BeforeOfSame ==
  ASSUME NEW c, NEW k, NEW m, c.in[k] = c.in[m]
  PROVE  Before(c, k) = Before(c, m)
  BY DEF Before, InputAt

\* A name finds a tensor of that name, which is the only one if names differ.
LEMMA NthNamed ==
  ASSUME NEW s, NEW k \in DOMAIN s
  PROVE  Nth(s, s[k].name) \in DOMAIN s /\ s[Nth(s, s[k].name)].name = s[k].name
  BY DEF Nth

\* Tensors of different names are found by theirs.
LEMMA NthIs ==
  ASSUME NEW s, \A i, j \in DOMAIN s : s[i].name = s[j].name => i = j, NEW k \in DOMAIN s
  PROVE  Nth(s, s[k].name) = k
  BY DEF Nth

\* Of a call under way: its arguments, and its new tensors, named differently.
LEMMA CallIs ==
  ASSUME CallInv, stage \in Underway
  PROVE  /\ WellFormed(CallList[call])
         /\ plan = PlanOf(CallList[call]) /\ plan.kind = "launching"
         /\ GoodPlan(CallList[call], plan)
         /\ GoodFresh(plan.fresh)
<1>1. WellFormed(CallList[call])
  BY CallsAssumption DEF CallInv
<1> QED
  BY <1>1, PlansAreGood DEF CallInv, GoodPlan

\* No name is given twice.
LEMMA NamesDiffer ==
  ASSUME CallInv, stage \in Underway
  PROVE  /\ \A k \in DOMAIN CallList[call].in, f \in DOMAIN plan.fresh :
              CallList[call].in[k].name # plan.fresh[f].name
         /\ \A f, g \in DOMAIN plan.fresh : plan.fresh[f].name = plan.fresh[g].name => f = g
<1> DEFINE c == CallList[call]
<1>1. WellFormed(c) /\ GoodFresh(plan.fresh)
  BY CallIs
<1> HIDE DEF c
<1>2. \A k \in DOMAIN c.in : c.in[k].name \in {"in1", "in2", "in3"}
  BY <1>1, InputNames
<1>3. \A f \in DOMAIN plan.fresh : plan.fresh[f].name \notin {"in1", "in2", "in3"}
  BY <1>1 DEF GoodFresh
<1>4. \A f, g \in DOMAIN plan.fresh : plan.fresh[f].name = plan.fresh[g].name => f = g
  BY <1>1 DEF GoodFresh
<1> QED
  BY <1>2, <1>3, <1>4 DEF c

\* A launch writes a new tensor.
LEMMA TargetIsNew ==
  ASSUME CallInv, stage \in Underway, LaunchesLeft
  PROVE  \E f \in DOMAIN plan.fresh :
           Output(ThisLaunch) = plan.fresh[f] /\ Target(ThisLaunch) = plan.fresh[f].name
  BY ThisIsGood DEF GoodLaunch, Output, Target

\* The kernel under way has the same number of iterations whatever it reads,
\* and each stores inside its output.
LEMMA RunningIs ==
  ASSUME CallInv, RunInv, Active
  PROVE  /\ \A x : Kernel(ThisLaunch, x).total = total
         /\ total \in Nat
         /\ \A x : \A i \in Upto(total) :
              DOMAIN Kernel(ThisLaunch, x).stores[i] \subseteq Elements(Output(ThisLaunch))
<1> DEFINE l == ThisLaunch
<1>1. stage \in Underway /\ LaunchesLeft
  BY DEF Active, Underway, Busy, RunInv
<1>2. Inside(l)
  BY <1>1, ThisIsGood DEF GoodLaunch, RunInv
<1>3. total = Kernel(l, Read(l)).total
  BY DEF RunInv
<1> HIDE DEF l
<1>4. PICK n \in Nat : \A x :
          /\ Kernel(l, x).total = n /\ Kernel(l, x).shared \in BOOLEAN
          /\ \A i \in Upto(n) : DOMAIN Kernel(l, x).stores[i] \subseteq Elements(Output(l))
  BY <1>2, Zenon DEF Inside
<1>5. n = total
  BY <1>3, <1>4
<1>6. \A x : Kernel(l, x).total = total
  BY <1>4, <1>5
<1>7. \A x : \A i \in Upto(total) : DOMAIN Kernel(l, x).stores[i] \subseteq Elements(Output(l))
  BY <1>4, <1>5
<1> QED
  BY <1>5, <1>6, <1>7 DEF l

\* RunInv is the loop's and the plan's alone, not what is in memory.
LEMMA RunsOn ==
  ASSUME CallInv, RunInv, UNCHANGED <<plan, next, total>>, Active' => Active
  PROVE  RunInv'
<1> SUFFICES ASSUME Active' PROVE RunInv'
  BY DEF RunInv
<1>1. \A x : Kernel(ThisLaunch, x).total = total
  BY RunningIs
<1>2. ThisLaunch' = ThisLaunch /\ (LaunchesLeft' <=> LaunchesLeft) /\ total' = total
  BY DEF ThisLaunch, LaunchesLeft
<1>3. LaunchesLeft /\ ThisLaunch.kernel[2] # "host" /\ Launchable(ThisLaunch)
  BY DEF RunInv
<1>4. \A x : Kernel(ThisLaunch', x).total = total'
  BY <1>1, <1>2, Zenon
<1>5. Launchable(ThisLaunch')
  BY <1>2, <1>3, Zenon
<1> QED
  BY <1>2, <1>3, <1>4, <1>5, Zenon DEF RunInv

-----------------------------------------------------------------------------
\* A new tensor is written: the others and the arguments stay as they are.
LEMMA NewWritten ==
  ASSUME CallInv, MemInv, stage \in Underway, UNCHANGED <<call, plan>>,
         copied' = copied \/ \A k \in DOMAIN CallList[call].in : ~Rewritten(k),
         NEW f \in DOMAIN plan.fresh, NEW v, DOMAIN v = Elements(plan.fresh[f]),
         mem' = [mem EXCEPT ![plan.fresh[f].name] = v]
  PROVE  MemInv'
<1> DEFINE c == CallList[call]
           T == plan.fresh[f].name
<1>1. DOMAIN mem = Names(c.in) \cup Names(plan.fresh) /\ NewKept /\ OldKept
  BY DEF MemInv
<1>2. T \in DOMAIN mem /\ DOMAIN mem' = DOMAIN mem
  BY <1>1 DEF Names
<1>3. NewKept'
  <2> SUFFICES ASSUME NEW g \in DOMAIN plan.fresh
               PROVE  DOMAIN mem'[plan.fresh[g].name] = Elements(plan.fresh[g])
    BY DEF NewKept
  <2>1. CASE g = f
    BY <1>2, <2>1
  <2>2. CASE g # f
    <3>1. plan.fresh[g].name # T /\ plan.fresh[g].name \in DOMAIN mem
      BY <1>1, <2>2, NamesDiffer DEF Names
    <3> QED
      BY <1>1, <1>2, <3>1 DEF NewKept
  <2> QED
    BY <2>1, <2>2
<1>4. OldKept'
  <2> SUFFICES ASSUME NEW k \in DOMAIN c.in
               PROVE  mem'[c.in[k].name] =
                        [i \in Elements(c.in[k]) |->
                           IF Rewritten(k) /\ i < copied' THEN Changed(c).flat[i] ELSE Before(c, k)[i]]
    <3>1. CallList[call'] = c /\ \A k : Rewritten(k)' = Rewritten(k)
      BY DEF Rewritten
    <3> QED
      BY <3>1, Zenon DEF OldKept
  <2>1. c.in[k].name # T /\ c.in[k].name \in DOMAIN mem
    BY <1>1, NamesDiffer DEF Names
  <2>2. mem'[c.in[k].name] = mem[c.in[k].name]
    BY <1>2, <2>1
  <2>3. mem[c.in[k].name] =
          [i \in Elements(c.in[k]) |->
             IF Rewritten(k) /\ i < copied THEN Changed(c).flat[i] ELSE Before(c, k)[i]]
    BY <1>1 DEF OldKept
  <2> QED
    BY <2>2, <2>3
<1> QED
  BY <1>1, <1>2, <1>3, <1>4 DEF MemInv

\* Nothing is written.
LEMMA MemoryStays ==
  ASSUME MemInv, stage \in Underway, UNCHANGED <<call, plan, mem, copied>>
  PROVE  MemInv'
  BY DEF MemInv, NewKept, OldKept, Rewritten

\* While nothing was written back, every argument is what it was.
LEMMA ArgumentsAsBefore ==
  ASSUME CallInv, MemInv, stage \in Underway, copied = 0, NEW k \in DOMAIN CallList[call].in
  PROVE  mem[CallList[call].in[k].name] = Before(CallList[call], k)
<1> DEFINE c == CallList[call]
<1>1. mem[c.in[k].name] =
        [i \in Elements(c.in[k]) |->
           IF Rewritten(k) /\ i < copied THEN Changed(c).flat[i] ELSE Before(c, k)[i]]
  BY DEF MemInv, OldKept
<1>2. \A i \in Elements(c.in[k]) : ~(i < copied)
  BY DEF Elements, Upto
<1>3. Before(c, k) = [i \in Elements(c.in[k]) |-> Before(c, k)[i]]
  BY DEF Before
<1> QED
  BY <1>1, <1>2, <1>3

\* add_ under way: its one launch, on its arguments as they were.
LEMMA AddRuns ==
  ASSUME Inv, stage \in Underway, CallList[call].op = "add_", LaunchesLeft
  PROVE  /\ next = 1 /\ ThisLaunch = AddOf(CallList[call])
         /\ ThisLaunch.kernel[2] # "host" /\ Target(ThisLaunch) = "out"
         /\ plan.fresh = <<OutOf(CallList[call])>>
<1> DEFINE c == CallList[call]
<1>1. WellFormed(c) /\ plan = PlanOf(c) /\ plan.kind = "launching"
  BY CallIs DEF Inv
<1>2. plan.fresh = <<OutOf(c)>> /\ plan.launches = <<AddOf(c)>>
  BY <1>1, AddPlan
<1>3. next = 1 /\ ThisLaunch = AddOf(c)
  <2>1. Len(plan.launches) = 1 /\ next \in Nat \ {0} /\ next <= Len(plan.launches)
    BY <1>2 DEF LaunchesLeft, Inv, CallInv
  <2> QED
    BY <1>2, <2>1 DEF ThisLaunch
<1>4. ThisLaunch.kernel[2] \in {c.in[1].dtype, "fp32"}
      /\ Output(ThisLaunch) = OutOf(c)
  <2> HIDE DEF c
  <2>1. CASE c.arg.alpha = "1"
    <3>1. AddOf(c).kernel = <<"vector_add", c.in[1].dtype>>
          /\ AddOf(c).pointers = <<c.in[1], c.in[2], OutOf(c)>>
      BY <2>1 DEF AddOf, AddLaunch, launch_elementwise_binary, Launch
    <3> QED
      BY <1>3, <3>1 DEF Output
  <2>2. CASE c.arg.alpha # "1"
    <3>1. AddOf(c).kernel = <<"axpy", "fp32">>
          /\ AddOf(c).pointers = <<c.in[2], c.in[1], OutOf(c)>>
      BY <2>2 DEF AddOf, AddLaunch, launch_axpy, Launch
    <3> QED
      BY <1>3, <3>1 DEF Output
  <2> QED
    BY <2>1, <2>2
<1>5. c.in[1] \in Tensors
  BY <1>1, CallTensors
<1>6. c.in[1].dtype # "host"
  BY <1>5 DEF Tensors, Dtypes, SixTypes
<1>7. OutOf(c).name = "out"
  BY <1>5, LikeIs DEF OutOf, NewNames
<1> QED
  BY <1>2, <1>3, <1>4, <1>6, <1>7 DEF Output, Target

\* Every iteration of it stores the sum that the reference asks for.
LEMMA AddStores ==
  ASSUME Inv, Active, CallList[call].op = "add_"
  PROVE  /\ total = Numel(CallList[call].in[1])
         /\ \A i \in Elements(CallList[call].in[1]) :
              Kernel(ThisLaunch, Read(ThisLaunch)).stores[i]
                = [j \in {i} |-> Changed(CallList[call]).flat[i]]
<1> DEFINE c == CallList[call]
<1>1. stage \in Underway /\ LaunchesLeft /\ copied = 0
  BY DEF Inv, RunInv, CopyInv, Active, Underway, Busy
<1>2. WellFormed(c) /\ plan = PlanOf(c) /\ plan.kind = "launching"
  BY <1>1, CallIs DEF Inv
<1>3. ThisLaunch = AddOf(c)
  BY <1>1, AddRuns
<1>4. 1 \in DOMAIN c.in /\ 2 \in DOMAIN c.in
  BY <1>2, InputNames DEF TwoTensors
<1>5. mem[c.in[1].name] = Before(c, 1) /\ mem[c.in[2].name] = Before(c, 2)
  BY <1>1, <1>4, ArgumentsAsBefore DEF Inv
<1> HIDE DEF c
<1> DEFINE l == AddOf(c)
           x == ReadFrom(l, mem)
<1>6. /\ Kernel(l, x).total = Numel(c.in[1])
      /\ \A i \in Elements(c.in[1]) : Kernel(l, x).stores[i] = [j \in {i} |-> SumAt(c, i)]
  BY <1>2, <1>5, AddKernel DEF c
<1>7. x = Read(ThisLaunch) /\ l = ThisLaunch
  BY <1>3 DEF Read, ReadFrom
<1> HIDE DEF l, x
<1>8. total = Kernel(ThisLaunch, Read(ThisLaunch)).total
  BY DEF Inv, RunInv
<1>9. SameShape(c.in[1], c.in[2])
  BY <1>2, AddPlan DEF c
<1>10. \A i \in Elements(c.in[1]) : Changed(c).flat[i] = SumAt(c, i)
  BY <1>2, <1>9, SumIs DEF c
<1>11. total = Numel(c.in[1])
  BY <1>6, <1>7, <1>8
<1>12. ASSUME NEW i \in Elements(c.in[1])
       PROVE  Kernel(ThisLaunch, Read(ThisLaunch)).stores[i] = [j \in {i} |-> Changed(c).flat[i]]
  BY <1>6, <1>7, <1>10
<1> QED
  BY <1>11, <1>12 DEF c

-----------------------------------------------------------------------------
\* Each step keeps what was not its call's and loop's own invariant.
Rest == RunInv /\ MemInv /\ CopyInv /\ SourceInv

\* The next call begins: its tensors are new or as they were.
LEMMA CallKeeps ==
  ASSUME Inv, Call, CallInv'
  PROVE  Rest'
<1> DEFINE c == CallList[call']
<1>1. /\ plan' = PlanOf(c) /\ stage' = plan'.kind
      /\ mem' = (IF stage' = "launching" THEN Contents(c, plan'.fresh) ELSE <<>>)
      /\ next' = 1 /\ copied' = 0 /\ ran' = {}
  BY DEF Call, Start
<1>2. WellFormed(c) /\ GoodPlan(c, plan')
  BY <1>1, CallsAssumption, PlansAreGood DEF CallInv
<1>3. stage' \in {"refused", "crashed", "launching"}
  BY <1>1, <1>2 DEF GoodPlan
<1>4. RunInv' /\ CopyInv'
  BY <1>1, <1>3 DEF RunInv, Active, CopyInv
<1>5. CASE stage' # "launching"
  BY <1>3, <1>4, <1>5 DEF Rest, MemInv, SourceInv, Underway, Busy
<1>6. CASE stage' = "launching"
  <2>1. mem' = Contents(c, plan'.fresh) /\ GoodFresh(plan'.fresh)
    BY <1>1, <1>2, <1>6 DEF GoodPlan
  <2> HIDE DEF c
  <2>2. /\ c.in \in Seq(Tensors) /\ 1 \in DOMAIN c.in
        /\ \A k \in DOMAIN c.in : c.in[k].name \in {"in1", "in2", "in3"}
        /\ \A k, m \in DOMAIN c.in : c.in[k].name = c.in[m].name => c.in[k] = c.in[m]
    BY <1>2, InputNames
  <2>3. DOMAIN mem' = Names(c.in) \cup Names(plan'.fresh)
    BY <2>1 DEF Contents
  <2>4. ASSUME NEW f \in DOMAIN plan'.fresh
        PROVE  mem'[plan'.fresh[f].name] = Allocated(plan'.fresh[f])
    <3>1. plan'.fresh[f].name \notin Names(c.in) /\ plan'.fresh[f].name \in Names(plan'.fresh)
      BY <2>1, <2>2 DEF GoodFresh, Names
    <3>2. Nth(plan'.fresh, plan'.fresh[f].name) = f
      BY <2>1, NthIs DEF GoodFresh
    <3> QED
      BY <2>1, <3>1, <3>2 DEF Contents
  <2>5. ASSUME NEW k \in DOMAIN c.in PROVE mem'[c.in[k].name] = Before(c, k)
    <3>1. c.in[k].name \in Names(c.in)
      BY DEF Names
    <3>2. c.in[Nth(c.in, c.in[k].name)] = c.in[k]
      BY <2>2, NthNamed
    <3>3. mem'[c.in[k].name] = Before(c, Nth(c.in, c.in[k].name))
      BY <2>1, <3>1 DEF Contents
    <3> QED
      BY <3>2, <3>3, BeforeOfSame
  <2>6. NewKept'
    BY <2>4 DEF NewKept, Allocated
  <2>7. OldKept'
    <3> SUFFICES ASSUME NEW k \in DOMAIN c.in
                 PROVE  mem'[c.in[k].name] =
                          [i \in Elements(c.in[k]) |->
                             IF Rewritten(k)' /\ i < copied' THEN Changed(c).flat[i] ELSE Before(c, k)[i]]
      BY DEF OldKept, c
    <3>1. \A i \in Elements(c.in[k]) : ~(i < copied')
      BY <1>1 DEF Elements, Upto
    <3>2. Before(c, k) = [i \in Elements(c.in[k]) |-> Before(c, k)[i]]
      BY DEF Before
    <3> QED
      BY <2>5, <3>1, <3>2
  <2>8. MemInv'
    BY <2>3, <2>6, <2>7 DEF MemInv, c
  <2>9. SourceInv'
    <3>1. ASSUME c.op = "fill_", NEW i \in Elements(c.in[1])
          PROVE  mem'["value"][i] = Scalar("value")
      <4>1. plan'.fresh = <<ValueOf(c)>>
        BY <1>1, <1>6, <3>1, FillPlan DEF c
      <4>2. mem'[ValueOf(c).name] = Allocated(ValueOf(c))
        BY <2>4, <4>1
      <4>3. ValueOf(c).name = "value" /\ ValueOf(c).device = "cpu"
            /\ Elements(ValueOf(c)) = Elements(c.in[1])
        BY DEF ValueOf, Tensor, Elements, Numel
      <4> QED
        BY <4>2, <4>3 DEF Allocated
    <3>2. ~(next' > 1) /\ ~ \E t \in Thread : \E i \in Elements(c.in[1]) : <<t, i>> \in ran'
      BY <1>1
    <3> QED
      BY <3>1, <3>2 DEF SourceInv, c
  <2> QED
    BY <1>4, <2>8, <2>9 DEF Rest
<1> QED
  BY <1>5, <1>6

\* A launch begins, or is refused.
LEMMA LaunchKeeps ==
  ASSUME Inv, LaunchNext, CallInv'
  PROVE  Rest'
<1> DEFINE c == CallList[call]
<1>1. /\ stage = "launching" /\ LaunchesLeft /\ ThisLaunch.kernel[2] # "host" /\ copied = 0
      /\ UNCHANGED <<call, plan, next, mem, buffer, copied>>
      /\ stage' \in {"running", "threw"} /\ stage \in Underway /\ stage' \in Underway
  BY DEF LaunchNext, Inv, CopyInv, Underway, Busy
<1>2. MemInv'
  BY <1>1, MemoryStays DEF Inv
<1>3. CopyInv'
  BY <1>1 DEF CopyInv
<1>4. RunInv'
  <2>1. CASE Launchable(ThisLaunch)
    <3>1. total' = Kernel(ThisLaunch, Read(ThisLaunch)).total
      BY <2>1 DEF LaunchNext, Start
    <3>2. ThisLaunch' = ThisLaunch /\ Read(ThisLaunch)' = Read(ThisLaunch) /\ LaunchesLeft'
      BY <1>1 DEF ThisLaunch, Read, LaunchesLeft
    <3> QED
      BY <1>1, <2>1, <3>1, <3>2 DEF RunInv, Launchable
  <2>2. CASE ~Launchable(ThisLaunch)
    <3>1. stage' = "threw" /\ UNCHANGED loopVars /\ Halted
      BY <1>1, <2>2 DEF LaunchNext, Inv, CallInv
    <3>2. ~Active'
      BY <3>1 DEF Active, Halted, loopVars
    <3> QED
      BY <3>2 DEF RunInv
  <2> QED
    BY <2>1, <2>2
<1>5. SourceInv'
  <2>1. ran' = {} \/ ran' = ran
    BY DEF LaunchNext, Start, loopVars
  <2>2. SourceInv
    BY DEF Inv
  <2> QED
    BY <1>1, <2>1, <2>2 DEF SourceInv
<1> QED
  BY <1>2, <1>3, <1>4, <1>5 DEF Rest

\* A thread stores, into the output of the launch.
LEMMA ThreadKeeps ==
  ASSUME Inv, NEW t \in Thread, ThreadStep(t), CallInv'
  PROVE  Rest'
<1> DEFINE c == CallList[call]
           stored == Kernel(ThisLaunch, Read(ThisLaunch)).stores[pos[t]]
<1>1. /\ stage \in {"running", "threw"} /\ Iterate(t)
      /\ UNCHANGED <<call, plan, stage, next, buffer, copied, total>>
      /\ mem' = [mem EXCEPT ![Target(ThisLaunch)] = Over(stored, mem[Target(ThisLaunch)])]
  BY DEF ThreadStep, Runs, Iterate
<1>2. pos[t] \in Nat /\ pos[t] < total /\ ran' = ran \cup {<<t, pos[t]>>}
  BY <1>1 DEF Iterate, Inv, LoopInv
<1>3. Active
  BY <1>1, <1>2 DEF Active, Halted, Inv, LoopInv
<1>4. stage \in Underway /\ LaunchesLeft
  BY <1>3 DEF Active, Underway, Busy, Inv, RunInv
<1>5. total \in Nat /\ pos[t] \in Upto(total) /\ DOMAIN stored \subseteq Elements(Output(ThisLaunch))
  <2>1. total \in Nat /\ pos[t] \in Upto(total)
    BY <1>2 DEF Upto, Inv, LoopInv
  <2> QED
    BY <1>3, <2>1, RunningIs DEF Inv
<1> HIDE DEF stored
<1>6. PICK f \in DOMAIN plan.fresh :
        Output(ThisLaunch) = plan.fresh[f] /\ Target(ThisLaunch) = plan.fresh[f].name
  BY <1>4, TargetIsNew DEF Inv
<1> DEFINE x == mem[plan.fresh[f].name]
<1>7. DOMAIN x = Elements(plan.fresh[f])
  BY <1>4 DEF Inv, MemInv, NewKept
<1>8. DOMAIN Over(stored, x) = Elements(plan.fresh[f])
  BY <1>5, <1>6, <1>7 DEF Over
<1>9. MemInv'
  <2> DEFINE v == Over(stored, x)
  <2>1. mem' = [mem EXCEPT ![plan.fresh[f].name] = v] /\ DOMAIN v = Elements(plan.fresh[f])
    BY <1>1, <1>6, <1>8
  <2> HIDE DEF v
  <2> QED
    BY <1>1, <1>4, <2>1, NewWritten DEF Inv
<1>10. RunInv'
  BY <1>1, <1>3, RunsOn DEF Inv
<1>11. CopyInv'
  <2>1. copied = 0 /\ stage' \notin {"copying", "returned"}
    BY <1>1, <1>3 DEF Inv, CopyInv
  <2> QED
    BY <1>1, <2>1 DEF CopyInv
<1>12. SourceInv'
  <2>1. ASSUME c.op = "add_", NEW i \in Elements(c.in[1]), NEW u \in Thread, <<u, i>> \in ran'
        PROVE  mem'["out"][i] = Changed(c).flat[i]
    <3>1. Target(ThisLaunch) = "out" /\ plan.fresh = <<OutOf(c)>>
      BY <1>4, <2>1, AddRuns
    <3>2. total = Numel(c.in[1]) /\ \A j \in Elements(c.in[1]) :
            Kernel(ThisLaunch, Read(ThisLaunch)).stores[j] = [k \in {j} |-> Changed(c).flat[j]]
      BY <1>3, <2>1, AddStores
    <3>3. pos[t] \in Elements(c.in[1])
      BY <1>5, <3>2 DEF Elements
    <3>4. stored = [k \in {pos[t]} |-> Changed(c).flat[pos[t]]]
      BY <3>2, <3>3 DEF stored
    <3>5. f = 1 /\ "out" \in DOMAIN mem
      <4>1. f = 1
        BY <3>1
      <4>2. plan.fresh[f].name \in Names(plan.fresh)
        BY DEF Names
      <4>3. DOMAIN mem = Names(c.in) \cup Names(plan.fresh)
        BY <1>4 DEF Inv, MemInv
      <4> QED
        BY <1>6, <3>1, <4>1, <4>2, <4>3
    <3>6. c.in[1] \in Tensors
      BY <1>4, CallIs, CallTensors DEF Inv
    <3>7. Elements(OutOf(c)) = Elements(c.in[1])
      BY <3>6, LikeIs DEF OutOf, NewNames, Elements
    <3>8. i \in DOMAIN mem["out"]
      BY <1>6, <1>7, <3>1, <3>5, <3>7
    <3>9. mem'["out"] = Over(stored, mem["out"])
      BY <1>1, <3>1, <3>5
    <3>10. CASE i = pos[t]
      BY <3>4, <3>8, <3>9, <3>10 DEF Over
    <3>11. CASE i # pos[t]
      <4>1. <<u, i>> \in ran
        BY <1>2, <2>1, <3>11
      <4>2. mem["out"][i] = Changed(c).flat[i]
        BY <1>4, <2>1, <4>1 DEF Inv, SourceInv
      <4> QED
        BY <3>4, <3>8, <3>9, <3>11, <4>2 DEF Over
    <3> QED
      BY <3>10, <3>11
  <2>2. c.op = "add_" => ~(next' > 1)
    BY <1>1, <1>4, AddRuns
  <2>3. c.op # "fill_"
    <3> SUFFICES ASSUME c.op = "fill_" PROVE FALSE
      OBVIOUS
    <3>1. plan.launches = <<>>
      BY <1>4, CallIs, FillPlan DEF Inv
    <3> QED
      BY <1>4, <3>1 DEF LaunchesLeft, Inv, CallInv
  <2> QED
    BY <1>1, <2>1, <2>2, <2>3 DEF SourceInv
<1> QED
  BY <1>9, <1>10, <1>11, <1>12 DEF Rest

\* The host computes an output by itself.
LEMMA HostComputes ==
  ASSUME Inv, ComputeOnHost, CallInv'
  PROVE  Rest'
<1> DEFINE c == CallList[call]
           stores == HostKernel(ThisLaunch, Read(ThisLaunch)).stores
<1>1. /\ stage = "launching" /\ LaunchesLeft /\ ThisLaunch.kernel[2] = "host" /\ copied = 0
      /\ UNCHANGED <<call, plan, stage, buffer, copied>> /\ stage \in Underway
      /\ mem' = [mem EXCEPT ![Target(ThisLaunch)] = [i \in DOMAIN @ |-> stores[i][i]]]
  BY DEF ComputeOnHost, Inv, CopyInv, Underway, Busy
<1> HIDE DEF stores
<1>2. PICK f \in DOMAIN plan.fresh : Target(ThisLaunch) = plan.fresh[f].name
  BY <1>1, TargetIsNew DEF Inv
<1>3. MemInv'
  <2> DEFINE v == [i \in DOMAIN mem[plan.fresh[f].name] |-> stores[i][i]]
  <2>1. mem' = [mem EXCEPT ![plan.fresh[f].name] = v] /\ DOMAIN v = Elements(plan.fresh[f])
    BY <1>1, <1>2 DEF Inv, MemInv, NewKept
  <2> HIDE DEF v
  <2> QED
    BY <1>1, <2>1, NewWritten DEF Inv
<1>4. c.op # "add_"
  BY <1>1, AddRuns
<1>5. c.op # "fill_"
  <2> SUFFICES ASSUME c.op = "fill_" PROVE FALSE
    OBVIOUS
  <2>1. plan.launches = <<>>
    BY <1>1, CallIs, FillPlan DEF Inv
  <2> QED
    BY <1>1, <2>1 DEF LaunchesLeft, Inv, CallInv
<1>6. RunInv' /\ CopyInv' /\ SourceInv'
  BY <1>1, <1>4, <1>5 DEF RunInv, Active, CopyInv, SourceInv
<1> QED
  BY <1>3, <1>6 DEF Rest

\* The kernel ends: all its iterations were run.
LEMMA KernelEndKeeps ==
  ASSUME Inv, KernelDone, CallInv'
  PROVE  Rest'
<1> DEFINE c == CallList[call]
<1>1. /\ stage = "running" /\ Halted /\ stage' = "launching"
      /\ UNCHANGED <<call, plan, mem, buffer, copied>>
      /\ stage \in Underway /\ stage' \in Underway /\ Active
  BY DEF KernelDone, Underway, Busy, Active
<1>2. MemInv'
  BY <1>1, MemoryStays DEF Inv
<1>3. RunInv' /\ CopyInv'
  BY <1>1 DEF Inv, RunInv, Active, CopyInv
<1>4. SourceInv'
  <2>1. ASSUME c.op = "add_", NEW i \in Elements(c.in[1])
        PROVE  mem["out"][i] = Changed(c).flat[i]
    <3>1. i \in 0..(total - 1)
      BY <1>1, <2>1, AddStores DEF Elements, Upto
    <3>2. \E t \in Thread : <<t, i>> \in ran
      BY <1>1, <3>1, LoopsAreComplete DEF Inv, EachIndexOnce
    <3> QED
      BY <1>1, <2>1, <3>2 DEF Inv, SourceInv
  <2>2. c.op = "fill_" => \A i \in Elements(c.in[1]) : mem["value"][i] = Scalar("value")
    BY <1>1 DEF Inv, SourceInv
  <2> QED
    BY <1>1, <2>1, <2>2 DEF SourceInv
<1> QED
  BY <1>2, <1>3, <1>4 DEF Rest


\* The copy begins: the last launch ended, so what is copied is complete.
LEMMA CopyBegins ==
  ASSUME Inv, StartCopy, CallInv'
  PROVE  Rest'
<1> DEFINE c   == CallList[call]
           src == plan.copy[1]
           dst == plan.copy[2]
<1>1. /\ stage = "launching" /\ ~LaunchesLeft /\ plan.copy # <<>> /\ stage' = "copying"
      /\ buffer' = [i \in DOMAIN mem[src.name] |-> Convert(src.dtype, dst.dtype, mem[src.name][i])]
      /\ UNCHANGED <<call, plan, next, mem, copied, loopVars>>
      /\ stage \in Underway /\ stage' \in Underway /\ copied = 0
  BY DEF StartCopy, Underway, Busy, Inv, CopyInv
<1>2. MemInv'
  BY <1>1, MemoryStays DEF Inv
<1>3. RunInv'
  BY <1>1 DEF RunInv, Active
<1>4. SourceInv'
  BY <1>1 DEF Inv, SourceInv, loopVars
<1>5. /\ WellFormed(c) /\ plan = PlanOf(c) /\ plan.kind = "launching" /\ c.in[1] \in Tensors
      /\ 1 \in DOMAIN c.in /\ c.in[1].name = "in1"
  BY <1>1, CallIs, CallTensors, InputNames DEF Inv
<1>6. c.op \in {"add_", "copy_", "fill_", "to_copy"}
  BY <1>1, <1>5, OthersDoNotCopy
<1> DEFINE Complete == /\ DOMAIN mem[src.name] = Elements(dst)
                       /\ c.op \in InPlace =>
                            \A i \in Elements(c.in[1]) :
                              /\ i \in Elements(dst)
                              /\ Convert(src.dtype, dst.dtype, mem[src.name][i]) = Changed(c).flat[i]
<1>7. ASSUME c.op = "add_" PROVE Complete
  <2>1. /\ plan.fresh = <<OutOf(c)>> /\ plan.launches = <<AddOf(c)>>
        /\ src = OutOf(c) /\ dst = c.in[1]
    BY <1>5, <1>7, AddPlan
  <2>2. src.name = "out" /\ src.dtype = dst.dtype /\ Elements(src) = Elements(dst)
    BY <1>5, <2>1, LikeIs DEF OutOf, NewNames, Elements
  <2>3. 1 \in DOMAIN plan.fresh /\ plan.fresh[1] = src
    BY <2>1
  <2>4. DOMAIN mem[src.name] = Elements(dst)
    BY <1>1, <2>2, <2>3 DEF Inv, MemInv, NewKept
  <2>5. next > 1
    <3>1. Len(plan.launches) = 1
      BY <2>1
    <3> QED
      BY <1>1, <3>1 DEF LaunchesLeft, Inv, CallInv
  <2>6. \A i \in Elements(c.in[1]) : mem["out"][i] = Changed(c).flat[i]
    BY <1>1, <1>7, <2>5 DEF Inv, SourceInv
  <2> QED
    BY <2>1, <2>2, <2>4, <2>6 DEF Convert
<1>8. ASSUME c.op = "copy_" PROVE Complete
  <2>1. src = c.in[2] /\ dst = c.in[1] /\ SameShape(c.in[1], c.in[2])
    BY <1>1, <1>5, <1>8, CopyPlan
  <2>2. 2 \in DOMAIN c.in
    BY <1>5, <1>8, InputNames DEF TwoTensors
  <2>3. mem[src.name] = Before(c, 2)
    BY <1>1, <2>1, <2>2, ArgumentsAsBefore DEF Inv
  <2>4. Elements(c.in[2]) = Elements(dst)
    BY <2>1 DEF SameShape, Elements, Numel
  <2>5. \A i \in Elements(c.in[1]) :
          Changed(c).flat[i] = Convert(c.in[2].dtype, c.in[1].dtype, InputAt(c, 2, i))
    BY <1>5, <1>8, <2>1, CopyIs
  <2> QED
    BY <2>1, <2>3, <2>4, <2>5 DEF Before
<1>9. ASSUME c.op = "fill_" PROVE Complete
  <2>1. plan.fresh = <<ValueOf(c)>> /\ src = ValueOf(c) /\ dst = c.in[1]
    BY <1>1, <1>5, <1>9, FillPlan
  <2>2. src.name = "value" /\ src.dtype = dst.dtype /\ Elements(src) = Elements(dst)
    BY <2>1 DEF ValueOf, Tensor, Elements, Numel
  <2>3. 1 \in DOMAIN plan.fresh /\ plan.fresh[1] = src
    BY <2>1
  <2>4. DOMAIN mem[src.name] = Elements(dst)
    BY <1>1, <2>2, <2>3 DEF Inv, MemInv, NewKept
  <2>5. \A i \in Elements(c.in[1]) : mem["value"][i] = Scalar("value")
    BY <1>1, <1>9 DEF Inv, SourceInv
  <2>6. \A i \in Elements(c.in[1]) : Changed(c).flat[i] = Scalar("value")
    BY <1>5, <1>9, FillIs
  <2> QED
    BY <2>1, <2>2, <2>4, <2>5, <2>6 DEF Convert
<1>10. ASSUME c.op = "to_copy" PROVE Complete
  <2>1. src = c.in[1] /\ dst = TargetOf(c)
    BY <1>1, <1>5, <1>10, ToCopyPlan
  <2>2. mem[src.name] = Before(c, 1)
    BY <1>1, <1>5, <2>1, ArgumentsAsBefore DEF Inv
  <2>3. Elements(c.in[1]) = Elements(dst)
    BY <2>1 DEF TargetOf, Tensor, Elements, Numel
  <2> QED
    BY <1>10, <2>2, <2>3 DEF Before, InPlace
<1>11. Complete
  BY <1>6, <1>7, <1>8, <1>9, <1>10
<1>12. Numel(dst) \in Nat
  <2>1. dst = c.in[1] \/ dst = TargetOf(c)
    BY <1>1, <1>5, <1>6, AddPlan, CopyPlan, FillPlan, ToCopyPlan
  <2>2. Numel(TargetOf(c)) = Numel(c.in[1])
    BY DEF TargetOf, Tensor, Numel
  <2> QED
    BY <1>5, <2>1, <2>2, TensorNumel
<1>13. CopyInv'
  <2>1. DOMAIN buffer' = Elements(dst)
    BY <1>1, <1>11
  <2>2. c.op \in InPlace => \A i \in Elements(c.in[1]) : buffer'[i] = Changed(c).flat[i]
    BY <1>1, <1>11
  <2>3. UNCHANGED <<call, plan, copied>> /\ stage' = "copying" /\ copied = 0 /\ plan.copy # <<>>
    BY <1>1
  <2>4. copied' <= Numel(dst)
    BY <1>12, <2>3
  <2> HIDE DEF Complete
  <2> QED
    BY <2>1, <2>2, <2>3, <2>4 DEF CopyInv, Active
<1> QED
  BY <1>2, <1>3, <1>4, <1>13 DEF Rest

\* What is being copied to: its number of elements.
LEMMA CopiedTo ==
  ASSUME Inv, stage = "copying"
  PROVE  /\ plan.copy # <<>>
         /\ Numel(plan.copy[2]) \in Nat
         /\ Cardinality(DOMAIN buffer) = Numel(plan.copy[2])
         /\ \/ /\ CallList[call].op \in InPlace /\ plan.copy[2] = CallList[call].in[1]
               /\ \A f \in DOMAIN plan.fresh : plan.fresh[f].name \in {"out", "value"}
            \/ /\ CallList[call].op = "to_copy"
               /\ 1 \in DOMAIN plan.fresh /\ plan.copy[2] = plan.fresh[1]
<1> DEFINE c   == CallList[call]
           dst == plan.copy[2]
           Place == \/ /\ c.op \in InPlace /\ dst = c.in[1]
                       /\ \A f \in DOMAIN plan.fresh : plan.fresh[f].name \in {"out", "value"}
                    \/ c.op = "to_copy" /\ 1 \in DOMAIN plan.fresh /\ dst = plan.fresh[1]
<1>1. plan.copy # <<>> /\ DOMAIN buffer = Elements(dst) /\ stage \in Underway
  BY DEF Inv, CopyInv, Underway, Busy
<1>2. WellFormed(c) /\ plan = PlanOf(c) /\ plan.kind = "launching" /\ c.in[1] \in Tensors
  BY <1>1, CallIs, CallTensors DEF Inv
<1>3. c.op \in {"add_", "copy_", "fill_", "to_copy"}
  BY <1>1, <1>2, OthersDoNotCopy
<1>4. ASSUME c.op = "add_" PROVE Place
  <2>1. plan.fresh = <<OutOf(c)>> /\ dst = c.in[1]
    BY <1>2, <1>4, AddPlan
  <2>2. OutOf(c).name = "out"
    BY <1>2, LikeIs DEF OutOf, NewNames
  <2> QED
    BY <1>4, <2>1, <2>2 DEF InPlace
<1>5. ASSUME c.op = "copy_" PROVE Place
  BY <1>1, <1>2, <1>5, CopyPlan DEF InPlace
<1>6. ASSUME c.op = "fill_" PROVE Place
  <2>1. plan.fresh = <<ValueOf(c)>> /\ dst = c.in[1]
    BY <1>1, <1>2, <1>6, FillPlan
  <2>2. ValueOf(c).name = "value"
    BY DEF ValueOf, Tensor
  <2> QED
    BY <1>6, <2>1, <2>2 DEF InPlace
<1>7. ASSUME c.op = "to_copy" PROVE Place
  <2>1. plan.fresh = <<TargetOf(c)>> /\ dst = TargetOf(c)
    BY <1>1, <1>2, <1>7, ToCopyPlan
  <2> QED
    BY <1>7, <2>1
<1>8. Numel(dst) \in Nat
  <2>1. dst = c.in[1] \/ dst = TargetOf(c)
    BY <1>1, <1>2, <1>3, AddPlan, CopyPlan, FillPlan, ToCopyPlan
  <2>2. Numel(TargetOf(c)) = Numel(c.in[1])
    BY DEF TargetOf, Tensor, Numel
  <2> QED
    BY <1>2, <2>1, <2>2, TensorNumel
<1>9. Cardinality(DOMAIN buffer) = Numel(dst)
  <2> DEFINE n == Numel(dst)
  <2>1. DOMAIN buffer = 0..(n - 1) /\ n \in Nat
    BY <1>1, <1>8 DEF Elements, Upto
  <2> HIDE DEF n
  <2>2. 0 \in Int /\ n - 1 \in Int
    BY <2>1
  <2>3. Cardinality(0..(n - 1)) = IF 0 > n - 1 THEN 0 ELSE (n - 1) - 0 + 1
    BY <2>2, FS_Interval
  <2>4. Cardinality(0..(n - 1)) = n
    BY <2>1, <2>3
  <2> QED
    BY <2>1, <2>4 DEF n
<1> QED
  BY <1>1, <1>3, <1>4, <1>5, <1>6, <1>7, <1>8, <1>9

\* An element is written back.
LEMMA WriteKeeps ==
  ASSUME Inv, WriteElement, CallInv'
  PROVE  Rest'
<1> DEFINE c   == CallList[call]
           dst == plan.copy[2]
<1>1. /\ stage = "copying" /\ copied < Cardinality(DOMAIN buffer) /\ copied' = copied + 1
      /\ mem' = [mem EXCEPT ![dst.name][copied] = buffer[copied]]
      /\ UNCHANGED <<call, plan, stage, next, buffer, loopVars>>
      /\ stage \in Underway /\ copied \in Nat
  BY DEF WriteElement, Underway, Busy, Inv, CopyInv
<1>2. RunInv'
  BY <1>1 DEF RunInv, Active
<1>3. CopyInv'
  <2>1. copied < Numel(dst) /\ Numel(dst) \in Nat
    BY <1>1, CopiedTo
  <2>2. copied' \in Nat /\ copied' <= Numel(dst)
    BY <1>1, <2>1
  <2> QED
    BY <1>1, <2>2 DEF Inv, CopyInv, Active
<1>4. /\ WellFormed(c) /\ 1 \in DOMAIN c.in /\ c.in[1].name = "in1"
      /\ \A k \in DOMAIN c.in : c.in[k].name = c.in[1].name => c.in[k] = c.in[1]
  <2>1. WellFormed(c)
    BY <1>1, CallIs DEF Inv
  <2> QED
    BY <2>1, InputNames
<1>5. plan.copy # <<>> /\ DOMAIN mem = Names(c.in) \cup Names(plan.fresh)
  BY <1>1, CopiedTo DEF Inv, MemInv
<1>6. CASE c.op \in InPlace /\ dst = c.in[1]
  <2>1. dst.name = "in1" /\ dst.name \in DOMAIN mem
    BY <1>4, <1>5, <1>6 DEF Names
  <2>2. copied \in Elements(c.in[1]) /\ buffer[copied] = Changed(c).flat[copied]
    <3>1. copied \in Elements(c.in[1])
      BY <1>1, <1>6, CopiedTo DEF Elements, Upto
    <3> QED
      BY <1>1, <1>6, <3>1 DEF Inv, CopyInv
  <2>3. mem'["in1"] = [mem["in1"] EXCEPT ![copied] = Changed(c).flat[copied]]
    BY <1>1, <2>1, <2>2
  <2>4. \A name \in DOMAIN mem : name # "in1" => mem'[name] = mem[name]
    BY <1>1, <2>1
  <2>5. DOMAIN mem' = DOMAIN mem
    BY <1>1
  <2>6. NewKept'
    <3> SUFFICES ASSUME NEW f \in DOMAIN plan.fresh
                 PROVE  DOMAIN mem'[plan.fresh[f].name] = Elements(plan.fresh[f])
      BY <1>1 DEF NewKept
    <3>1. plan.fresh[f].name # "in1" /\ plan.fresh[f].name \in DOMAIN mem
      <4>1. c.in[1].name # plan.fresh[f].name
        BY <1>1, <1>4, NamesDiffer DEF Inv
      <4>2. plan.fresh[f].name \in Names(plan.fresh)
        BY DEF Names
      <4> QED
        BY <1>4, <1>5, <4>1, <4>2
    <3> QED
      BY <1>1, <2>4, <3>1 DEF Inv, MemInv, NewKept
  <2>7. OldKept'
    <3> SUFFICES ASSUME NEW k \in DOMAIN c.in
                 PROVE  mem'[c.in[k].name] =
                          [i \in Elements(c.in[k]) |->
                             IF Rewritten(k) /\ i < copied + 1 THEN Changed(c).flat[i]
                             ELSE Before(c, k)[i]]
      BY <1>1 DEF OldKept, Rewritten
    <3>1. mem[c.in[k].name] =
            [i \in Elements(c.in[k]) |->
               IF Rewritten(k) /\ i < copied THEN Changed(c).flat[i] ELSE Before(c, k)[i]]
      BY <1>1 DEF Inv, MemInv, OldKept
    <3>2. CASE c.in[k].name = "in1"
      <4>0. c.in[k] = c.in[1] /\ Before(c, k) = Before(c, 1)
        BY <1>4, <3>2, BeforeOfSame
      <4>1. Rewritten(k)
        BY <1>5, <1>6, <4>0 DEF Rewritten
      <4>2. \A i \in Elements(c.in[1]) : i < copied + 1 <=> (i < copied \/ i = copied)
        BY <1>1 DEF Elements, Upto
      <4>3. mem["in1"] = [i \in Elements(c.in[1]) |->
                            IF i < copied THEN Changed(c).flat[i] ELSE Before(c, 1)[i]]
        BY <3>1, <3>2, <4>0, <4>1
      <4>4. mem'["in1"] = [i \in Elements(c.in[1]) |->
                             IF i < copied + 1 THEN Changed(c).flat[i] ELSE Before(c, 1)[i]]
        BY <2>2, <2>3, <4>2, <4>3
      <4> QED
        BY <3>2, <4>0, <4>1, <4>4
    <3>3. CASE c.in[k].name # "in1"
      <4>1. ~Rewritten(k) /\ c.in[k].name \in DOMAIN mem
        BY <1>4, <1>5, <1>6, <3>3 DEF Rewritten, Names
      <4> QED
        BY <2>4, <3>1, <3>3, <4>1
    <3> QED
      BY <3>2, <3>3
  <2>8. MemInv'
    BY <1>1, <1>5, <2>5, <2>6, <2>7 DEF MemInv
  <2>9. SourceInv'
    <3>1. mem'["out"] = mem["out"] /\ mem'["value"] = mem["value"]
      BY <1>1, <2>1
    <3> QED
      BY <1>1, <3>1 DEF Inv, SourceInv, loopVars
  <2> QED
    BY <1>2, <1>3, <2>8, <2>9 DEF Rest
<1>7. CASE c.op = "to_copy" /\ 1 \in DOMAIN plan.fresh /\ dst = plan.fresh[1]
  <2> DEFINE v == [mem[dst.name] EXCEPT ![copied] = buffer[copied]]
  <2>1. mem' = [mem EXCEPT ![plan.fresh[1].name] = v] /\ DOMAIN v = DOMAIN mem[dst.name]
    BY <1>1, <1>7
  <2>2. DOMAIN v = Elements(plan.fresh[1])
    BY <1>1, <1>7, <2>1 DEF Inv, MemInv, NewKept
  <2>3. \A k \in DOMAIN c.in : ~Rewritten(k)
    BY <1>1, <1>7, NamesDiffer DEF Inv, Rewritten
  <2> HIDE DEF v
  <2>4. MemInv'
    BY <1>1, <1>7, <2>1, <2>2, <2>3, NewWritten DEF Inv
  <2>5. SourceInv'
    BY <1>1, <1>7 DEF SourceInv
  <2> QED
    BY <1>2, <1>3, <2>4, <2>5 DEF Rest
<1> QED
  BY <1>1, <1>6, <1>7, CopiedTo

\* The call returns or fails.
LEMMA EndKeeps ==
  ASSUME Inv, Return \/ Fail, CallInv'
  PROVE  Rest'
<1>1. /\ UNCHANGED <<call, plan, next, mem, buffer, copied, loopVars>>
      /\ stage \in Underway /\ stage' \in Underway
  BY DEF Return, Fail, NothingLeft, Underway, Busy
<1>2. MemInv'
  BY <1>1, MemoryStays DEF Inv
<1>3. SourceInv'
  BY <1>1 DEF Inv, SourceInv, loopVars
<1>4. Active' => Active
  <2>1. Halted' <=> Halted
    BY <1>1 DEF Halted, loopVars
  <2>2. stage' \in {"returned", "threw"}
    BY DEF Return, Fail
  <2> QED
    BY <2>1, <2>2 DEF Active, Inv, CallInv
<1>5. RunInv'
  BY <1>1, <1>4, RunsOn DEF Inv, loopVars
<1>6. stage' = "returned" /\ plan.copy # <<>> => copied = Numel(plan.copy[2])
  <2> SUFFICES ASSUME stage' = "returned", plan.copy # <<>> PROVE copied = Numel(plan.copy[2])
    OBVIOUS
  <2>1. stage = "copying" /\ copied = Cardinality(DOMAIN buffer)
    BY DEF Return, Fail, NothingLeft
  <2> QED
    BY <2>1, CopiedTo
<1>7. CopyInv'
  <2>1. stage' \notin {"launching", "copying"}
    BY DEF Return, Fail
  <2> QED
    BY <1>1, <1>4, <1>6, <2>1 DEF Inv, CopyInv
<1> QED
  BY <1>2, <1>3, <1>5, <1>7 DEF Rest

\* The argument that is written back is what the operator copies to.
LEMMA RewrittenIs ==
  ASSUME Inv, stage \in Underway, NEW k \in DOMAIN CallList[call].in, Rewritten(k)
  PROVE  Numel(plan.copy[2]) = Numel(CallList[call].in[k]) /\ Numel(CallList[call].in[k]) \in Nat
<1> DEFINE c   == CallList[call]
           dst == plan.copy[2]
<1>1. plan.copy # <<>> /\ dst.name = c.in[k].name
  BY DEF Rewritten
<1>2. WellFormed(c) /\ plan = PlanOf(c) /\ plan.kind = "launching"
  BY CallIs DEF Inv
<1>3. c.in[k] \in Tensors /\ \A m \in DOMAIN c.in : c.in[k].name = c.in[m].name => c.in[k] = c.in[m]
  BY <1>2, InputNames
<1>4. c.op \in {"add_", "copy_", "fill_", "to_copy"}
  BY <1>1, <1>2, OthersDoNotCopy
<1>5. dst = c.in[1] \/ dst = TargetOf(c)
  BY <1>1, <1>2, <1>4, AddPlan, CopyPlan, FillPlan, ToCopyPlan
<1>6. CASE dst = c.in[1]
  <2>1. 1 \in DOMAIN c.in
    BY <1>2, InputNames
  <2>2. c.in[k] = c.in[1]
    BY <1>1, <1>3, <1>6, <2>1
  <2> QED
    BY <1>3, <1>6, <2>2, TensorNumel
<1>7. CASE dst = TargetOf(c)
  <2>1. Numel(dst) = Numel(c.in[1])
    BY <1>7 DEF TargetOf, Tensor, Numel
  <2>2. dst.name = "out" /\ c.in[k].name \in {"in1", "in2", "in3"}
    BY <1>2, <1>7, InputNames DEF TargetOf, Tensor
  <2> QED
    BY <1>1, <2>2
<1> QED
  BY <1>5, <1>6, <1>7


\* Inv is inductive.
THEOREM CallsInvariant == Spec => []Inv
<1>1. Init => Inv
  <2> SUFFICES ASSUME Init PROVE Inv
    OBVIOUS
  <2>1. stage = "refused" /\ copied = 0
    BY DEF Init
  <2>2. LoopInv /\ CallInv
    BY CallEstablishes
  <2> QED
    BY <2>1, <2>2 DEF Inv, RunInv, Active, MemInv, CopyInv, SourceInv, Underway, Busy
<1>2. Inv /\ [Next]_vars => Inv'
  <2> SUFFICES ASSUME Inv, [Next]_vars PROVE Inv'
    OBVIOUS
  <2>1. LoopInv' /\ CallInv'
    BY CallPreserves DEF Inv
  <2>2. CASE Call
    BY <2>1, <2>2, CallKeeps DEF Rest, Inv
  <2>3. CASE LaunchNext
    BY <2>1, <2>3, LaunchKeeps DEF Rest, Inv
  <2>4. CASE ComputeOnHost
    BY <2>1, <2>4, HostComputes DEF Rest, Inv
  <2>5. ASSUME NEW t \in Thread, ThreadStep(t) PROVE Inv'
    BY <2>1, <2>5, ThreadKeeps DEF Rest, Inv
  <2>6. CASE KernelDone
    BY <2>1, <2>6, KernelEndKeeps DEF Rest, Inv
  <2>7. CASE StartCopy
    BY <2>1, <2>7, CopyBegins DEF Rest, Inv
  <2>8. CASE WriteElement
    BY <2>1, <2>8, WriteKeeps DEF Rest, Inv
  <2>9. CASE Return \/ Fail
    BY <2>1, <2>9, EndKeeps DEF Rest, Inv
  <2>10. CASE UNCHANGED vars
    <3>1. UNCHANGED <<call, plan, stage, next, mem, buffer, copied, loopVars>>
      BY <2>10 DEF vars
    <3>2. MemInv'
      BY <3>1 DEF Inv, MemInv, NewKept, OldKept, Rewritten
    <3>3. Active' <=> Active
      BY <3>1 DEF Active, Halted, loopVars
    <3>4. RunInv'
      BY <3>1, <3>3, RunsOn DEF Inv, loopVars
    <3>5. CopyInv' /\ SourceInv'
      BY <3>1, <3>3 DEF Inv, CopyInv, SourceInv, loopVars
    <3> QED
      BY <2>1, <3>2, <3>4, <3>5 DEF Inv
  <2> QED
    BY <2>2, <2>3, <2>4, <2>5, <2>6, <2>7, <2>8, <2>9, <2>10 DEF Next
<1> QED
  BY <1>1, <1>2, PTL DEF Spec

\* Whatever the tensors, the threads' pace and the step at which a call fails:
\* kernels and copies write inside their outputs, no argument changes but the
\* one that the operator changes in place, and that one holds what the operator
\* promises up to the write-back and its old self behind it, all of it new when
\* the call returns (tensor.cpp copy_, math.cpp add_tensor_).
THEOREM ArgumentsAreKept == Spec => []OnlyResultsChange
<1>1. Inv => OnlyResultsChange
  <2> DEFINE c == CallList[call]
  <2> SUFFICES ASSUME Inv, stage \in Underway
               PROVE  /\ \A i \in DOMAIN plan.fresh :
                           DOMAIN mem[plan.fresh[i].name] = Elements(plan.fresh[i])
                      /\ \A k \in DOMAIN c.in :
                           IF Rewritten(k)
                           THEN mem[c.in[k].name] =
                                  [i \in Elements(c.in[k]) |->
                                     IF i < copied \/ stage = "returned"
                                     THEN Changed(c).flat[i] ELSE Before(c, k)[i]]
                           ELSE mem[c.in[k].name] = Before(c, k)
    BY DEF OnlyResultsChange, Underway, Rewritten
  <2>1. \A i \in DOMAIN plan.fresh : DOMAIN mem[plan.fresh[i].name] = Elements(plan.fresh[i])
    BY DEF Inv, MemInv, NewKept
  <2>2. ASSUME NEW k \in DOMAIN c.in
        PROVE  mem[c.in[k].name] =
                 [i \in Elements(c.in[k]) |->
                    IF Rewritten(k) /\ i < copied THEN Changed(c).flat[i] ELSE Before(c, k)[i]]
    BY DEF Inv, MemInv, OldKept
  <2>3. ASSUME NEW k \in DOMAIN c.in, ~Rewritten(k)
        PROVE  mem[c.in[k].name] = Before(c, k)
    <3>1. Before(c, k) = [i \in Elements(c.in[k]) |-> Before(c, k)[i]]
      BY DEF Before
    <3> QED
      BY <2>2, <2>3, <3>1
  <2>4. ASSUME NEW k \in DOMAIN c.in, Rewritten(k)
        PROVE  mem[c.in[k].name] =
                 [i \in Elements(c.in[k]) |->
                    IF i < copied \/ stage = "returned"
                    THEN Changed(c).flat[i] ELSE Before(c, k)[i]]
    <3>1. ASSUME stage = "returned", NEW i \in Elements(c.in[k]) PROVE i < copied
      <4>1. copied = Numel(plan.copy[2]) /\ plan.copy # <<>>
        BY <2>4, <3>1 DEF Inv, CopyInv, Rewritten
      <4>2. Numel(plan.copy[2]) = Numel(c.in[k]) /\ Numel(c.in[k]) \in Nat
        BY <2>4, RewrittenIs DEF Inv
      <4> QED
        BY <3>1, <4>1, <4>2 DEF Elements, Upto
    <3> QED
      BY <2>2, <2>4, <3>1
  <2> QED
    BY <2>1, <2>3, <2>4
<1> QED
  BY <1>1, CallsInvariant, PTL
-----------------------------------------------------------------------------
\* What launch l computes from the contents x of its pointers.
Stored(l, x) == IF l.kernel[2] = "host" THEN HostKernel(l, x) ELSE Kernel(l, x)

\* In contents m, call c's arguments are as they were and the new tensors
\* before the j-th hold v.
ReadyFor(c, j, v, m) ==
  /\ \A k \in DOMAIN c.in : m[c.in[k].name] = Before(c, k)
  /\ \A i \in 1..(j - 1) : m[PlanOf(c).fresh[i].name] = v[i]

\* The iterations of loop k store v, element by element, all of it and nothing
\* else.
Fills(k, n, v) ==
  /\ \A i \in Upto(k.total) : \A e \in DOMAIN k.stores[i] : e \in Upto(n) /\ k.stores[i][e] = v[e]
  /\ \A e \in Upto(n) : \E i \in Upto(k.total) : e \in DOMAIN k.stores[i]

\* The j-th launch of call c's plan is loop k, which fills the j-th new tensor
\* with v[j] once those before it are filled.
Launches(c, j, k, v) ==
  LET l == PlanOf(c).launches[j]
      t == PlanOf(c).fresh[j]
  IN /\ Target(l) = t.name
     /\ v[j] = [e \in Elements(t) |-> v[j][e]]
     /\ \A m : ReadyFor(c, j, v, m) => Stored(l, ReadFrom(l, m)) = k
     /\ Fills(k, Numel(t), v[j])
     /\ l.kernel[2] = "host" => \A e \in Elements(t) : e \in Upto(k.total) /\ e \in DOMAIN k.stores[e]

\* v is what the reference asks for: tensor by tensor, shape and elements.
Asked(c, v) ==
  \A name \in DOMAIN Reference(c) :
    \E j \in DOMAIN PlanOf(c).fresh :
      /\ PlanOf(c).fresh[j].name = name
      /\ PlanOf(c).fresh[j].shape = Reference(c)[name].shape
      /\ v[j] = Reference(c)[name].flat

\* Call c's plan, launch by launch, comes to what the reference asks for.
ComesTo(c, loops, v) ==
  /\ PlanOf(c).copy = <<>> /\ PlanOf(c).view = <<>>
  /\ Len(PlanOf(c).launches) = Len(PlanOf(c).fresh)
  /\ \A j \in DOMAIN PlanOf(c).fresh : Launches(c, j, loops[j], v)
  /\ Asked(c, v)
Sufficient(c) == \E loops, v : ComesTo(c, loops, v)

LoopsOf(c)  == CHOOSE loops : \E v : ComesTo(c, loops, v)
ValuesOf(c) == CHOOSE v : ComesTo(c, LoopsOf(c), v)

\* The chosen ones are such.
LEMMA ChosenOnes == ASSUME NEW c, Sufficient(c) PROVE ComesTo(c, LoopsOf(c), ValuesOf(c))
<1>1. \E v : ComesTo(c, LoopsOf(c), v)
  BY Zenon DEF Sufficient, LoopsOf
<1> QED
  BY <1>1, Zenon DEF ValuesOf

\* Of a call whose plan suffices: the tensors of the launches that ended hold
\* what was asked for, the one under way what the iterations that were run
\* stored.
DoneInv ==
  LET c == CallList[call]
  IN stage \in Underway /\ Sufficient(c) =>
       \A j \in DOMAIN plan.fresh :
         LET x == mem[plan.fresh[j].name]
         IN /\ x = [e \in Elements(plan.fresh[j]) |-> x[e]]
            /\ j < next => x = ValuesOf(c)[j]
            /\ j = next /\ Active =>
                 \A i \in Upto(LoopsOf(c)[j].total) :
                   (\E t \in Thread : <<t, i>> \in ran) =>
                      \A e \in DOMAIN LoopsOf(c)[j].stores[i] : x[e] = ValuesOf(c)[j][e]

\* A call that returns made all its launches.
ReturnInv == stage \in {"copying", "returned"} => ~LaunchesLeft

\* The launch that is next is one of those.
LEMMA NextLaunch ==
  ASSUME Inv, stage \in Underway, Sufficient(CallList[call]), LaunchesLeft
  PROVE  /\ next \in DOMAIN plan.fresh /\ next \in DOMAIN plan.launches
         /\ ThisLaunch = PlanOf(CallList[call]).launches[next]
         /\ Launches(CallList[call], next, LoopsOf(CallList[call])[next], ValuesOf(CallList[call]))
         /\ Target(ThisLaunch) = plan.fresh[next].name
         /\ Target(ThisLaunch) \in DOMAIN mem
<1> DEFINE c == CallList[call]
<1>1. plan = PlanOf(c) /\ GoodPlan(c, plan) /\ GoodFresh(plan.fresh) /\ plan.kind = "launching"
  BY CallIs DEF Inv
<1>2. ComesTo(c, LoopsOf(c), ValuesOf(c))
  BY ChosenOnes
<1> HIDE DEF c
<1>3. next \in 1..Len(plan.launches) /\ Len(plan.launches) \in Nat
  BY <1>1, ThisIsGood DEF GoodPlan, Inv
<1>4. next \in DOMAIN plan.fresh
  BY <1>1, <1>2, <1>3 DEF ComesTo, GoodFresh
<1>5. Launches(c, next, LoopsOf(c)[next], ValuesOf(c)) /\ ThisLaunch = PlanOf(c).launches[next]
  BY <1>1, <1>2, <1>4 DEF ComesTo, ThisLaunch
<1>6. Target(ThisLaunch) = plan.fresh[next].name
  BY <1>1, <1>5, Zenon DEF Launches
<1>7. Target(ThisLaunch) \in DOMAIN mem
  BY <1>4, <1>6 DEF Inv, MemInv, Names
<1> QED
  BY <1>3, <1>4, <1>5, <1>6, <1>7 DEF c

\* Its arguments are as they were, and it finds what the launches before it
\* computed.
LEMMA ReadyNow ==
  ASSUME Inv, DoneInv, stage \in Underway, Sufficient(CallList[call]), LaunchesLeft, copied = 0
  PROVE  Stored(ThisLaunch, Read(ThisLaunch)) = LoopsOf(CallList[call])[next]
<1> DEFINE c == CallList[call]
           v == ValuesOf(c)
<1>1. plan = PlanOf(c)
  BY CallIs DEF Inv
<1>2. next \in DOMAIN plan.fresh /\ ThisLaunch = PlanOf(c).launches[next]
      /\ Launches(c, next, LoopsOf(c)[next], v)
  BY NextLaunch
<1>3. \A k \in DOMAIN c.in : mem[c.in[k].name] = Before(c, k)
  BY ArgumentsAsBefore DEF Inv
<1>4. \A i \in 1..(next - 1) : mem[plan.fresh[i].name] = v[i]
  <2> SUFFICES ASSUME NEW i \in 1..(next - 1) PROVE mem[plan.fresh[i].name] = v[i]
    OBVIOUS
  <2>1. plan.fresh \in Seq(Tensors)
    BY CallIs DEF Inv, GoodFresh
  <2>2. i \in DOMAIN plan.fresh /\ i < next
    BY <1>2, <2>1
  <2> QED
    BY <2>2 DEF DoneInv
<1> HIDE DEF c, v
<1>5. ReadyFor(c, next, v, mem)
  BY <1>1, <1>3, <1>4 DEF ReadyFor
<1>6. Stored(ThisLaunch, ReadFrom(ThisLaunch, mem)) = LoopsOf(c)[next]
  BY <1>2, <1>5, Zenon DEF Launches
<1>7. ReadFrom(ThisLaunch, mem) = Read(ThisLaunch)
  BY DEF ReadFrom, Read
<1> QED
  BY <1>6, <1>7 DEF c

\* The kernel under way is that loop.
LEMMA RunsThatLoop ==
  ASSUME Inv, DoneInv, Active, Sufficient(CallList[call])
  PROVE  /\ stage \in Underway /\ LaunchesLeft /\ copied = 0
         /\ Kernel(ThisLaunch, Read(ThisLaunch)) = LoopsOf(CallList[call])[next]
         /\ total = LoopsOf(CallList[call])[next].total
<1>1. stage \in Underway /\ LaunchesLeft /\ copied = 0 /\ ThisLaunch.kernel[2] # "host"
  BY DEF Inv, RunInv, CopyInv, Active, Underway, Busy
<1>2. Kernel(ThisLaunch, Read(ThisLaunch)) = LoopsOf(CallList[call])[next]
  BY <1>1, ReadyNow DEF Stored
<1> QED
  BY <1>1, <1>2 DEF Inv, RunInv

\* A call begins: none of its launches did.
LEMMA CallKeepsDone ==
  ASSUME Inv, DoneInv, Call, CallInv', MemInv'
  PROVE  DoneInv'
<1> DEFINE c == CallList[call']
<1> SUFFICES ASSUME stage' \in Underway, Sufficient(c), NEW j \in DOMAIN plan'.fresh
             PROVE  LET x == mem'[plan'.fresh[j].name]
                    IN /\ x = [e \in Elements(plan'.fresh[j]) |-> x[e]]
                       /\ ~(j < next') /\ ran' = {}
  BY DEF DoneInv
<1>1. /\ plan' = PlanOf(c) /\ stage' = plan'.kind /\ next' = 1 /\ ran' = {}
      /\ mem' = (IF stage' = "launching" THEN Contents(c, plan'.fresh) ELSE <<>>)
  BY DEF Call, Start
<1>2. WellFormed(c) /\ plan'.kind = "launching"
  BY <1>1, CallsAssumption DEF CallInv
<1>3. GoodFresh(plan'.fresh)
  BY <1>1, <1>2, PlansAreGood DEF GoodPlan
<1>4. ~(j < next')
  BY <1>1, <1>3 DEF GoodFresh
<1>5. mem' = Contents(c, plan'.fresh)
  BY <1>1, <1>2
<1> DEFINE t == plan'.fresh[j]
<1> HIDE DEF c
<1>6. t.name \in Names(plan'.fresh) /\ t.name \notin Names(c.in)
  BY <1>2, <1>3, InputNames DEF GoodFresh, Names
<1>7. Nth(plan'.fresh, t.name) = j
  BY <1>3, NthIs DEF GoodFresh
<1>8. mem'[t.name] = Allocated(t)
  BY <1>5, <1>6, <1>7 DEF Contents
<1> HIDE DEF t
<1>9. Allocated(t) = [e \in Elements(t) |-> Allocated(t)[e]]
  BY DEF Allocated
<1> QED
  BY <1>1, <1>4, <1>8, <1>9 DEF t

\* A launch begins: no iteration of it was run.
LEMMA LaunchKeepsDone ==
  ASSUME Inv, DoneInv, LaunchNext
  PROVE  DoneInv'
<1>1. /\ stage \in Underway /\ UNCHANGED <<call, plan, next, mem>> /\ stage' \in {"running", "threw"}
  BY DEF LaunchNext, Underway, Busy
<1>2. Active' => ran' = {}
  <2>1. CASE Launchable(ThisLaunch)
    BY <2>1 DEF LaunchNext, Start
  <2>2. CASE ~Launchable(ThisLaunch)
    <3>1. stage' = "threw" /\ UNCHANGED loopVars /\ Halted
      BY <2>2 DEF LaunchNext, Inv, CallInv
    <3> QED
      BY <3>1 DEF Active, Halted, loopVars
  <2> QED
    BY <2>1, <2>2
<1> QED
  BY <1>1, <1>2 DEF DoneInv

\* A thread stores what its iteration computed, and nothing else.
LEMMA ThreadKeepsDone ==
  ASSUME Inv, DoneInv, NEW t \in Thread, ThreadStep(t)
  PROVE  DoneInv'
<1> DEFINE c == CallList[call]
           v == ValuesOf(c)
           k == LoopsOf(c)[next]
           T == plan.fresh[next]
<1>1. /\ stage \in {"running", "threw"} /\ Iterate(t)
      /\ UNCHANGED <<call, plan, stage, next, buffer, copied, total>>
      /\ mem' = [mem EXCEPT ![Target(ThisLaunch)] =
                   Over(Kernel(ThisLaunch, Read(ThisLaunch)).stores[pos[t]], mem[Target(ThisLaunch)])]
  BY DEF ThreadStep, Runs, Iterate
<1>2. pos[t] \in Nat /\ pos[t] < total /\ ran' = ran \cup {<<t, pos[t]>>} /\ total \in Nat
  BY <1>1 DEF Iterate, Inv, LoopInv
<1>3. Active
  BY <1>1, <1>2 DEF Active, Halted, Inv, LoopInv
<1> DEFINE Kept(j) ==
             LET x == mem'[plan.fresh[j].name]
             IN /\ x = [e \in Elements(plan.fresh[j]) |-> x[e]]
                /\ j < next => x = v[j]
                /\ j = next =>
                     \A i \in Upto(LoopsOf(c)[j].total) :
                       (\E u \in Thread : <<u, i>> \in ran') =>
                          \A e \in DOMAIN LoopsOf(c)[j].stores[i] : x[e] = v[j][e]
<1> SUFFICES ASSUME Sufficient(c), NEW j \in DOMAIN plan.fresh PROVE Kept(j)
  BY <1>1 DEF DoneInv
<1>4. /\ stage \in Underway /\ LaunchesLeft
      /\ Kernel(ThisLaunch, Read(ThisLaunch)) = k /\ total = k.total
  BY <1>3, RunsThatLoop
<1>5. /\ next \in DOMAIN plan.fresh /\ Launches(c, next, k, v) /\ plan = PlanOf(c)
      /\ Target(ThisLaunch) = T.name /\ T.name \in DOMAIN mem
  BY <1>4, NextLaunch, CallIs DEF Inv
<1>6. mem' = [mem EXCEPT ![T.name] = Over(k.stores[pos[t]], mem[T.name])]
  BY <1>1, <1>4, <1>5
<1>7. CASE j # next
  <2>1. plan.fresh[j].name # T.name
    BY <1>4, <1>5, <1>7, NamesDiffer DEF Inv
  <2>2. mem'[plan.fresh[j].name] = mem[plan.fresh[j].name]
    BY <1>6, <2>1
  <2> QED
    BY <1>4, <1>7, <2>2 DEF DoneInv
<1>8. Kept(next)
  <2> DEFINE x == mem[T.name]
             s == k.stores[pos[t]]
             y == Over(s, x)
  <2>1. /\ x = [e \in Elements(T) |-> x[e]]
        /\ \A i \in Upto(k.total) :
             (\E u \in Thread : <<u, i>> \in ran) => \A e \in DOMAIN k.stores[i] : x[e] = v[next][e]
    BY <1>3, <1>4, <1>5 DEF DoneInv
  <2>2. \A i \in Upto(k.total) : \A e \in DOMAIN k.stores[i] :
          e \in Elements(T) /\ k.stores[i][e] = v[next][e]
    BY <1>5 DEF Launches, Fills, Elements
  <2>3. pos[t] \in Upto(k.total)
    BY <1>2, <1>4 DEF Upto
  <2>4. \A e \in DOMAIN s : e \in Elements(T) /\ s[e] = v[next][e]
    BY <2>2, <2>3
  <2>5. mem'[T.name] = y
    BY <1>5, <1>6
  <2> HIDE DEF s, k, x, T, v, c
  <2>6. DOMAIN x = Elements(T)
    BY <2>1
  <2>7. y = [e \in Elements(T) |-> IF e \in DOMAIN s THEN s[e] ELSE x[e]]
    <3>1. DOMAIN x \cup DOMAIN s = Elements(T)
      BY <2>4, <2>6
    <3> QED
      BY <3>1 DEF Over
  <2> HIDE DEF y
  <2>8. ASSUME NEW i \in Upto(k.total), \E u \in Thread : <<u, i>> \in ran',
               NEW e \in DOMAIN k.stores[i]
        PROVE  y[e] = v[next][e]
    <3>1. e \in Elements(T)
      BY <2>2, <2>8
    <3>2. CASE e \in DOMAIN s
      BY <2>4, <2>7, <3>1, <3>2
    <3>3. CASE e \notin DOMAIN s
      <4>1. i # pos[t]
        BY <2>8, <3>3 DEF s
      <4>2. \E u \in Thread : <<u, i>> \in ran
        BY <1>2, <2>8, <4>1
      <4> QED
        BY <2>1, <2>7, <2>8, <3>1, <3>3, <4>2
    <3> QED
      BY <3>2, <3>3
  <2>9. y = [e \in Elements(T) |-> y[e]]
    BY <2>7
  <2>10. \A i \in Upto(k.total) : (\E u \in Thread : <<u, i>> \in ran') =>
           \A e \in DOMAIN k.stores[i] : y[e] = v[next][e]
    BY <2>8
  <2>11. ~(next < next)
    BY <1>5 DEF Inv, CallInv
  <2> QED
    BY <2>5, <2>9, <2>10, <2>11 DEF T, k
<1> QED
  BY <1>7, <1>8

\* The host computes what a launch asks for by itself.
LEMMA HostKeepsDone ==
  ASSUME Inv, DoneInv, ComputeOnHost
  PROVE  DoneInv'
<1> DEFINE c == CallList[call]
           v == ValuesOf(c)
           k == LoopsOf(c)[next]
           T == plan.fresh[next]
           y == [i \in DOMAIN mem[T.name] |-> k.stores[i][i]]
<1>1. /\ stage = "launching" /\ stage \in Underway /\ LaunchesLeft /\ next' = next + 1
      /\ ThisLaunch.kernel[2] = "host" /\ UNCHANGED <<call, plan, stage, copied>>
      /\ copied = 0
  BY DEF ComputeOnHost, Underway, Busy, Inv, CopyInv
<1> SUFFICES ASSUME Sufficient(c), NEW j \in DOMAIN plan.fresh
             PROVE  LET x == mem'[plan.fresh[j].name]
                    IN /\ x = [e \in Elements(plan.fresh[j]) |-> x[e]]
                       /\ j < next + 1 => x = v[j]
  BY <1>1 DEF DoneInv, Active
<1>2. /\ next \in DOMAIN plan.fresh /\ ThisLaunch = PlanOf(c).launches[next]
      /\ Launches(c, next, k, v) /\ plan = PlanOf(c)
      /\ Target(ThisLaunch) = T.name /\ T.name \in DOMAIN mem
  BY <1>1, NextLaunch, CallIs DEF Inv
<1>3. HostKernel(ThisLaunch, Read(ThisLaunch)) = k
  BY <1>1, ReadyNow DEF Stored
<1>4. mem' = [mem EXCEPT ![T.name] = y]
  <2>1. mem' = [mem EXCEPT ![Target(ThisLaunch)] =
                  [i \in DOMAIN mem[Target(ThisLaunch)] |->
                     HostKernel(ThisLaunch, Read(ThisLaunch)).stores[i][i]]]
    BY DEF ComputeOnHost
  <2> HIDE DEF k, T
  <2> QED
    BY <1>2, <1>3, <2>1
<1>5. DOMAIN mem[T.name] = Elements(T)
  BY <1>1, <1>2 DEF Inv, MemInv, NewKept
<1>6. y = v[next]
  <2>1. \A e \in Elements(T) : k.stores[e][e] = v[next][e]
    <3> SUFFICES ASSUME NEW e \in Elements(T) PROVE k.stores[e][e] = v[next][e]
      OBVIOUS
    <3>1. e \in DOMAIN k.stores[e]
      BY <1>1, <1>2 DEF Launches
    <3>2. e \in Upto(k.total)
      BY <1>1, <1>2 DEF Launches
    <3> QED
      BY <1>2, <3>1, <3>2 DEF Launches, Fills
  <2>2. v[next] = [e \in Elements(T) |-> v[next][e]]
    BY <1>2 DEF Launches
  <2> HIDE DEF k, T, v, c
  <2> QED
    BY <1>5, <2>1, <2>2
<1> HIDE DEF y
<1>7. CASE j # next
  <2>1. plan.fresh[j].name # T.name
    BY <1>1, <1>2, <1>7, NamesDiffer DEF Inv
  <2>2. mem'[plan.fresh[j].name] = mem[plan.fresh[j].name]
    BY <1>4, <2>1
  <2>3. j < next + 1 => j < next
    BY <1>7, <1>2, CallIs, <1>1 DEF Inv, CallInv, GoodFresh
  <2> QED
    BY <1>1, <2>2, <2>3 DEF DoneInv
<1>8. CASE j = next
  <2>1. mem'[plan.fresh[j].name] = v[j]
    BY <1>2, <1>4, <1>6, <1>8
  <2>2. v[j] = [e \in Elements(plan.fresh[j]) |-> v[j][e]]
    BY <1>2, <1>8 DEF Launches
  <2> QED
    BY <2>1, <2>2
<1> QED
  BY <1>7, <1>8

\* A kernel ends: every iteration of it was run, and its output is what was
\* asked for.
LEMMA KernelEndKeepsDone ==
  ASSUME Inv, DoneInv, KernelDone
  PROVE  DoneInv'
<1> DEFINE c == CallList[call]
           v == ValuesOf(c)
           k == LoopsOf(c)[next]
           T == plan.fresh[next]
           x == mem[T.name]
<1>1. /\ stage = "running" /\ Halted /\ stage' = "launching" /\ next' = next + 1 /\ Active
      /\ UNCHANGED <<call, plan, mem, buffer, copied, loopVars>>
  BY DEF KernelDone, Active
<1> SUFFICES ASSUME Sufficient(c), NEW j \in DOMAIN plan.fresh
             PROVE  /\ mem[plan.fresh[j].name] = [e \in Elements(plan.fresh[j]) |-> mem[plan.fresh[j].name][e]]
                    /\ j < next + 1 => mem[plan.fresh[j].name] = v[j]
  BY <1>1 DEF DoneInv, Active
<1>2. /\ stage \in Underway /\ LaunchesLeft /\ total = k.total
  BY <1>1, RunsThatLoop
<1>3. /\ next \in DOMAIN plan.fresh /\ Launches(c, next, k, v) /\ plan = PlanOf(c)
  BY <1>2, NextLaunch, CallIs DEF Inv
<1>4. \A i \in Upto(k.total) : \E t \in Thread : <<t, i>> \in ran
  BY <1>1, <1>2, LoopsAreComplete DEF Inv, EachIndexOnce, Upto
<1>5. x = v[next]
  <2>1. /\ x = [e \in Elements(T) |-> x[e]]
        /\ \A i \in Upto(k.total) :
             (\E t \in Thread : <<t, i>> \in ran) => \A e \in DOMAIN k.stores[i] : x[e] = v[next][e]
    BY <1>1, <1>2, <1>3 DEF DoneInv
  <2>2. \A e \in Elements(T) : \E i \in Upto(k.total) : e \in DOMAIN k.stores[i]
    BY <1>3 DEF Launches, Fills, Elements
  <2>3. v[next] = [e \in Elements(T) |-> v[next][e]]
    BY <1>3 DEF Launches
  <2> HIDE DEF x, k, T, v, c
  <2>4. \A e \in Elements(T) : x[e] = v[next][e]
    BY <1>4, <2>1, <2>2
  <2> QED
    BY <2>1, <2>3, <2>4
<1>6. j < next + 1 => j < next \/ j = next
  BY <1>3, CallIs, <1>2 DEF Inv, CallInv, GoodFresh
<1> QED
  BY <1>2, <1>5, <1>6 DEF DoneInv

\* A call whose plan suffices copies nothing; that it returns or fails changes
\* no tensor.
LEMMA RestKeepsDone ==
  ASSUME Inv, DoneInv, StartCopy \/ WriteElement \/ Return \/ Fail
  PROVE  DoneInv'
<1>1. stage \in Underway /\ UNCHANGED <<call, plan, next, loopVars>>
  BY DEF StartCopy, WriteElement, Return, Fail, NothingLeft, Underway, Busy
<1> SUFFICES ASSUME Sufficient(CallList[call]) PROVE DoneInv'
  BY <1>1 DEF DoneInv
<1>2. plan.copy = <<>>
  <2>1. plan = PlanOf(CallList[call])
    BY <1>1, CallIs DEF Inv
  <2> QED
    BY <2>1, ChosenOnes DEF ComesTo
<1>3. ~StartCopy /\ ~WriteElement
  BY <1>2 DEF StartCopy, WriteElement, Inv, CopyInv
<1>4. mem' = mem /\ stage' \in {"returned", "threw"}
  BY <1>3 DEF Return, Fail
<1>5. Active' => Active
  <2>1. Halted' <=> Halted
    BY <1>1 DEF Halted, loopVars
  <2> QED
    BY <1>4, <2>1 DEF Active, Inv, CallInv
<1> QED
  BY <1>1, <1>4, <1>5 DEF DoneInv, loopVars

\* DoneInv and ReturnInv hold whenever Inv does.
THEOREM DoneInvariant == Spec => [](Inv /\ DoneInv /\ ReturnInv)
<1>1. Init => DoneInv /\ ReturnInv
  BY DEF Init, DoneInv, ReturnInv, Underway, Busy
<1>2. Inv /\ DoneInv /\ ReturnInv /\ [Next]_vars /\ Inv' => DoneInv' /\ ReturnInv'
  <2> SUFFICES ASSUME Inv, DoneInv, ReturnInv, [Next]_vars, Inv' PROVE DoneInv' /\ ReturnInv'
    OBVIOUS
  <2>1. ReturnInv'
    <3>1. CASE Call
      <4>1. stage' = plan'.kind /\ plan' = PlanOf(CallList[call'])
        BY <3>1 DEF Call
      <4>2. GoodPlan(CallList[call'], plan')
        BY <4>1, PlansAreGood, CallsAssumption DEF Inv, CallInv
      <4> QED
        BY <4>1, <4>2 DEF GoodPlan, ReturnInv
    <3>2. CASE LaunchNext
      BY <3>2 DEF LaunchNext, ReturnInv
    <3>3. CASE ComputeOnHost \/ KernelDone
      BY <3>3 DEF ComputeOnHost, KernelDone, ReturnInv
    <3>4. ASSUME NEW t \in Thread, ThreadStep(t) PROVE ReturnInv'
      BY <3>4 DEF ThreadStep, ReturnInv, LaunchesLeft
    <3>5. CASE StartCopy \/ WriteElement \/ Return \/ Fail \/ UNCHANGED vars
      BY <3>5 DEF StartCopy, WriteElement, Return, Fail, NothingLeft, vars, ReturnInv, LaunchesLeft
    <3> QED
      BY <3>1, <3>2, <3>3, <3>4, <3>5 DEF Next
  <2>2. DoneInv'
    <3>1. CASE UNCHANGED vars
      BY <3>1 DEF vars, loopVars, DoneInv, Active, Halted
    <3>2. CASE Call
      BY <3>2, CallKeepsDone DEF Inv
    <3>3. ASSUME NEW t \in Thread, ThreadStep(t) PROVE DoneInv'
      BY <3>3, ThreadKeepsDone
    <3> QED
      BY <3>1, <3>2, <3>3, LaunchKeepsDone, HostKeepsDone, KernelEndKeepsDone, RestKeepsDone DEF Next
  <2> QED
    BY <2>1, <2>2
<1> QED
  BY <1>1, <1>2, CallsInvariant, PTL DEF Spec

\* A call whose plan suffices and that returned has its result.
LEMMA SufficientPlans ==
  ASSUME Inv, DoneInv, ReturnInv, Sufficient(CallList[call])
  PROVE  ResultMatches
<1> DEFINE c == CallList[call]
           v == ValuesOf(c)
<1> SUFFICES ASSUME stage = "returned", NEW name \in DOMAIN Reference(c)
             PROVE  /\ mem[name] = Reference(c)[name].flat
                    /\ name \in DOMAIN Shapes => Shapes[name] = Reference(c)[name].shape
                    /\ \A i \in DOMAIN plan.view : StridesFit(plan.view[i])
  BY DEF ResultMatches
<1>1. stage \in Underway /\ ~LaunchesLeft
  BY DEF Underway, ReturnInv
<1>2. plan = PlanOf(c) /\ GoodFresh(plan.fresh) /\ GoodPlan(c, plan) /\ plan.kind = "launching"
  BY <1>1, CallIs DEF Inv
<1>3. ComesTo(c, LoopsOf(c), v)
  BY ChosenOnes
<1> HIDE DEF v, c
<1>4. PICK j \in DOMAIN plan.fresh :
        /\ plan.fresh[j].name = name
        /\ plan.fresh[j].shape = Reference(c)[name].shape
        /\ v[j] = Reference(c)[name].flat
  BY <1>2, <1>3 DEF ComesTo, Asked
<1>5. j < next
  <2>1. Len(plan.launches) \in Nat /\ Len(plan.fresh) = Len(plan.launches) /\ next \in Nat
    BY <1>2, <1>3 DEF ComesTo, GoodPlan, Inv, CallInv
  <2>2. j \in 1..Len(plan.fresh)
    BY <1>2 DEF GoodFresh
  <2> QED
    BY <1>1, <2>1, <2>2 DEF LaunchesLeft
<1>6. mem[name] = Reference(c)[name].flat
  <2>1. mem[plan.fresh[j].name] = v[j]
    BY <1>1, <1>5 DEF DoneInv, c, v
  <2> QED
    BY <1>4, <2>1
<1>7. plan.view = <<>>
  BY <1>2, <1>3 DEF ComesTo
<1>8. Shapes[name] = Reference(c)[name].shape
  <2> DEFINE made == plan.fresh \o plan.view
  <2>1. made = plan.fresh
    BY <1>2, <1>7 DEF GoodFresh
  <2>2. Shapes = [n \in Names(made) |-> made[Nth(made, n)].shape]
    BY DEF Shapes
  <2> HIDE DEF made
  <2>3. name \in Names(plan.fresh) /\ Nth(plan.fresh, name) = j
    BY <1>2, <1>4, NthIs DEF GoodFresh, Names
  <2> QED
    BY <1>4, <2>1, <2>2, <2>3
<1> QED
  BY <1>6, <1>7, <1>8 DEF c

-----------------------------------------------------------------------------
\* In contents m, call c's arguments are as they were.
Holds(c, m) == \A k \in DOMAIN c.in : m[c.in[k].name] = Before(c, k)

\* Iteration i of loop k stores element i of w.
MapsTo(k, n, w) == k.total = n /\ \A i \in Upto(n) : k.stores[i] = [j \in {i} |-> w[i]]

\* The only iteration of loop k stores v.
Stores(k, v) == k.total = 1 /\ k.stores[0] = [j \in {0} |-> v]

\* A plan of one launch, which is loop k whatever is in the new tensor.
OneLoop(c, out, l, k) ==
  /\ PlanOf(c) = Plan(<<out>>, <<l>>) /\ out \in Tensors /\ out.name = "out" /\ Target(l) = "out"
  /\ \A m : Holds(c, m) => Stored(l, ReadFrom(l, m)) = k

\* It suffices if the loop computes what the reference asks for.
LEMMA OneLoopSuffices ==
  ASSUME NEW c, NEW out, NEW l, NEW k, OneLoop(c, out, l, k),
         NEW w, w = [e \in Elements(out) |-> w[e]], Fills(k, Numel(out), w),
         l.kernel[2] = "host" => \A e \in Elements(out) : e \in Upto(k.total) /\ e \in DOMAIN k.stores[e],
         Reference(c) = [out |-> [shape |-> out.shape, flat |-> w]]
  PROVE  Sufficient(c)
<1> DEFINE p == Plan(<<out>>, <<l>>)
           v == <<w>>
           loops == <<k>>
<1>1. /\ DOMAIN p.fresh = {1} /\ p.fresh[1] = out /\ Len(p.fresh) = 1
      /\ p.launches[1] = l /\ Len(p.launches) = 1 /\ p.copy = <<>> /\ p.view = <<>>
  BY DEF Plan
<1>2. PlanOf(c) = p
  BY DEF OneLoop
<1>3. v[1] = w /\ loops[1] = k
  OBVIOUS
<1> HIDE DEF p, v, loops
<1>4. Asked(c, v)
  <2> SUFFICES ASSUME NEW name \in DOMAIN Reference(c)
               PROVE  \E j \in {1} : /\ p.fresh[j].name = name /\ p.fresh[j].shape = Reference(c)[name].shape
                                     /\ v[j] = Reference(c)[name].flat
    BY <1>1, <1>2 DEF Asked
  <2>1. name = "out" /\ out.name = "out"
    BY DEF OneLoop
  <2>2. Reference(c)["out"].shape = out.shape /\ Reference(c)["out"].flat = w
    OBVIOUS
  <2> QED
    BY <1>1, <1>3, <2>1, <2>2
<1>5. Launches(c, 1, k, v)
  <2>1. Target(l) = out.name /\ \A m : ReadyFor(c, 1, v, m) => Stored(l, ReadFrom(l, m)) = k
    BY DEF OneLoop, ReadyFor, Holds
  <2> QED
    BY <1>1, <1>2, <1>3, <2>1 DEF Launches
<1>6. \A j \in DOMAIN p.fresh : Launches(c, j, loops[j], v)
  BY <1>1, <1>3, <1>5
<1>7. ComesTo(c, loops, v)
  BY <1>1, <1>2, <1>4, <1>6 DEF ComesTo
<1> QED
  BY <1>7 DEF Sufficient

\* Each iteration stores its own element.
LEMMA MapSuffices ==
  ASSUME NEW c, NEW out, NEW l, NEW k, OneLoop(c, out, l, k),
         NEW w, w = [e \in Elements(out) |-> w[e]], MapsTo(k, Numel(out), w),
         Reference(c) = [out |-> [shape |-> out.shape, flat |-> w]]
  PROVE  Sufficient(c)
<1>1. Fills(k, Numel(out), w)
  <2>1. ASSUME NEW i \in Upto(k.total), NEW e \in DOMAIN k.stores[i]
        PROVE  e \in Upto(Numel(out)) /\ k.stores[i][e] = w[e]
    <3>1. k.stores[i] = [j \in {i} |-> w[i]] /\ i \in Upto(Numel(out))
      BY DEF MapsTo
    <3> QED
      BY <3>1
  <2>2. ASSUME NEW e \in Upto(Numel(out)) PROVE e \in Upto(k.total) /\ e \in DOMAIN k.stores[e]
    BY DEF MapsTo
  <2> QED
    BY <2>1, <2>2 DEF Fills
<1>2. \A e \in Elements(out) : e \in Upto(k.total) /\ e \in DOMAIN k.stores[e]
  BY DEF MapsTo, Elements
<1> QED
  BY <1>1, <1>2, OneLoopSuffices

\* The only iteration stores the only element.
LEMMA WholeSuffices ==
  ASSUME NEW c, NEW out, NEW l, NEW k, OneLoop(c, out, l, k), Numel(out) = 1,
         NEW v, Stores(k, v),
         Reference(c) = [out |-> [shape |-> out.shape, flat |-> [e \in Elements(out) |-> v]]]
  PROVE  Sufficient(c)
<1> DEFINE w == [e \in Elements(out) |-> v]
<1>1. Elements(out) = {0} /\ Upto(Numel(out)) = {0}
  BY DEF Elements, Upto
<1>2. MapsTo(k, Numel(out), w)
  BY <1>1 DEF MapsTo, Stores
<1>3. w = [e \in Elements(out) |-> w[e]]
  OBVIOUS
<1> HIDE DEF w
<1> QED
  BY <1>2, <1>3, MapSuffices DEF w

-----------------------------------------------------------------------------
\* A plan behind a check that launches passed it.
LEMMA CheckPassed ==
  ASSUME NEW ok, NEW p, Check(ok, p).kind = "launching"
  PROVE  ok /\ Check(ok, p) = p
  BY DEF Check, Refused

\* What a launch reads.
LEMMA ReadsOne ==
  ASSUME NEW c, NEW l, NEW out, l.pointers = <<c.in[1], out>>, WellFormed(c), NEW m, Holds(c, m)
  PROVE  ReadFrom(l, m)[1] = Before(c, 1)
  BY InputNames DEF ReadFrom, Holds

\* And one that reads two.
LEMMA ReadsTwo ==
  ASSUME NEW c, NEW l, NEW out, WellFormed(c), NEW i \in DOMAIN c.in, NEW j \in DOMAIN c.in,
         l.pointers = <<c.in[i], c.in[j], out>>, NEW m, Holds(c, m)
  PROVE  ReadFrom(l, m)[1] = Before(c, i) /\ ReadFrom(l, m)[2] = Before(c, j)
  BY DEF ReadFrom, Holds

\* What is read at a position of an argument.
LEMMA AtBefore ==
  ASSUME NEW c, NEW k, NEW i \in Elements(c.in[k])
  PROVE  At(Before(c, k), i) = InputAt(c, k, i)
  BY DEF At, Before

-----------------------------------------------------------------------------
\* The operators that compute element by element, and what they make of u and v.
OneArgument ==
  {"relu", "exp", "sigmoid", "tanh", "log", "log2", "log10", "sqrt", "reciprocal",
   "sin", "cos", "tan", "pow_scalar", "scal"}
TwoArguments ==
  {"add", "mul", "div", "axpy", "pow", "threshold_backward", "sigmoid_backward", "tanh_backward"}
Term(c, u, v) ==
  CASE c.op \in OneArgument \ {"reciprocal", "scal"} -> Apply(c.op, u)
    [] c.op = "reciprocal" -> Apply("rcp", u)
    [] c.op = "scal" -> Times(Scalar(c.arg.alpha), u)
    [] c.op = "add"  -> IF c.arg.alpha = "1" THEN Plus(u, v) ELSE Plus(u, Times(Scalar(c.arg.alpha), v))
    [] c.op = "mul"  -> Times(u, v)
    [] c.op = "div"  -> Times(u, Apply("rcp", v))
    [] c.op = "axpy" -> Plus(Times(Scalar(c.arg.alpha), u), v)
    [] c.op = "pow"  -> <<"pow", u, v>>
    [] c.op = "threshold_backward" -> <<"where_above", v, Scalar(c.arg.threshold), u>>
    [] c.op = "sigmoid_backward" -> Times(Times(u, v), Minus(Scalar("1"), v))
    [] c.op = "tanh_backward" -> Times(u, Minus(Scalar("1"), Times(v, v)))
TermAt(c, i) == Term(c, InputAt(c, 1, i), InputAt(c, 2, i))
Terms(c)     == [i \in Elements(c.in[1]) |-> TermAt(c, i)]

\* The reference asks for these terms.
TermsOver(c) == [ix \in Indices(ShapeOf(c, 1)) |-> Term(c, X(c, 1, ix), X(c, 2, ix))]

\* The reference in these terms.
LEMMA ReferenceIs ==
  ASSUME NEW c, c.op \in OneArgument \cup TwoArguments
  PROVE  Reference(c) = [out |-> ResultOf(ShapeOf(c, 1), TermsOver(c))]
<1> DEFINE Ref(f) == [out |-> ResultOf(ShapeOf(c, 1), f)]
<1>1. CASE c.op \in OneArgument \ {"reciprocal", "scal"}
  <2> DEFINE f == [ix \in Indices(ShapeOf(c, 1)) |-> Apply(c.op, X(c, 1, ix))]
  <2>1. Reference(c) = [out |-> Result(ShapeOf(c, 1), LAMBDA ix : Apply(c.op, X(c, 1, ix)))]
    BY <1>1 DEF Reference, InPlace, OneArgument
  <2>2. Reference(c) = Ref(f)
    BY <2>1 DEF Result
  <2>3. \A u, v : Term(c, u, v) = Apply(c.op, u)
    BY <1>1 DEF Term, OneArgument
  <2>4. f = TermsOver(c)
    BY <2>3 DEF TermsOver
  <2> QED
    BY <2>2, <2>4, Zenon
<1>2. CASE c.op = "reciprocal"
  <2> DEFINE f == [ix \in Indices(ShapeOf(c, 1)) |-> Apply("rcp", X(c, 1, ix))]
  <2>1. Reference(c) = [out |-> Result(ShapeOf(c, 1), LAMBDA ix : Apply("rcp", X(c, 1, ix)))]
    BY <1>2 DEF Reference, InPlace
  <2>2. Reference(c) = Ref(f)
    BY <2>1 DEF Result
  <2>3. \A u, v : Term(c, u, v) = Apply("rcp", u)
    BY <1>2 DEF Term, OneArgument
  <2>4. f = TermsOver(c)
    BY <2>3 DEF TermsOver
  <2> QED
    BY <2>2, <2>4, Zenon
<1>3. CASE c.op = "scal"
  <2> DEFINE f == [ix \in Indices(ShapeOf(c, 1)) |-> Times(Scalar(c.arg.alpha), X(c, 1, ix))]
  <2>1. Reference(c) = [out |-> Result(ShapeOf(c, 1), LAMBDA ix : Times(Scalar(c.arg.alpha), X(c, 1, ix)))]
    BY <1>3 DEF Reference, InPlace
  <2>2. Reference(c) = Ref(f)
    BY <2>1 DEF Result
  <2>3. \A u, v : Term(c, u, v) = Times(Scalar(c.arg.alpha), u)
    BY <1>3 DEF Term, OneArgument
  <2>4. f = TermsOver(c)
    BY <2>3 DEF TermsOver
  <2> QED
    BY <2>2, <2>4, Zenon
<1>4. CASE c.op = "mul"
  <2> DEFINE f == [ix \in Indices(ShapeOf(c, 1)) |-> Times(X(c, 1, ix), X(c, 2, ix))]
  <2>1. Reference(c) = [out |-> Result(ShapeOf(c, 1), LAMBDA ix : Times(X(c, 1, ix), X(c, 2, ix)))]
    BY <1>4 DEF Reference, InPlace
  <2>2. Reference(c) = Ref(f)
    BY <2>1 DEF Result
  <2>3. \A u, v : Term(c, u, v) = Times(u, v)
    BY <1>4 DEF Term, OneArgument
  <2>4. f = TermsOver(c)
    BY <2>3 DEF TermsOver
  <2> QED
    BY <2>2, <2>4, Zenon
<1>5. CASE c.op = "div"
  <2> DEFINE f == [ix \in Indices(ShapeOf(c, 1)) |-> Times(X(c, 1, ix), Apply("rcp", X(c, 2, ix)))]
  <2>1. Reference(c) = [out |-> Result(ShapeOf(c, 1), LAMBDA ix : Times(X(c, 1, ix), Apply("rcp", X(c, 2, ix))))]
    BY <1>5 DEF Reference, InPlace
  <2>2. Reference(c) = Ref(f)
    BY <2>1 DEF Result
  <2>3. \A u, v : Term(c, u, v) = Times(u, Apply("rcp", v))
    BY <1>5 DEF Term, OneArgument
  <2>4. f = TermsOver(c)
    BY <2>3 DEF TermsOver
  <2> QED
    BY <2>2, <2>4, Zenon
<1>6. CASE c.op = "axpy"
  <2> DEFINE f == [ix \in Indices(ShapeOf(c, 1)) |-> Plus(Times(Scalar(c.arg.alpha), X(c, 1, ix)), X(c, 2, ix))]
  <2>1. Reference(c) = [out |-> Result(ShapeOf(c, 1), LAMBDA ix : Plus(Times(Scalar(c.arg.alpha), X(c, 1, ix)), X(c, 2, ix)))]
    BY <1>6 DEF Reference, InPlace
  <2>2. Reference(c) = Ref(f)
    BY <2>1 DEF Result
  <2>3. \A u, v : Term(c, u, v) = Plus(Times(Scalar(c.arg.alpha), u), v)
    BY <1>6 DEF Term, OneArgument
  <2>4. f = TermsOver(c)
    BY <2>3 DEF TermsOver
  <2> QED
    BY <2>2, <2>4, Zenon
<1>7. CASE c.op = "pow"
  <2> DEFINE f == [ix \in Indices(ShapeOf(c, 1)) |-> <<"pow", X(c, 1, ix), X(c, 2, ix)>>]
  <2>1. Reference(c) = [out |-> Result(ShapeOf(c, 1), LAMBDA ix : <<"pow", X(c, 1, ix), X(c, 2, ix)>>)]
    BY <1>7 DEF Reference, InPlace
  <2>2. Reference(c) = Ref(f)
    BY <2>1 DEF Result
  <2>3. \A u, v : Term(c, u, v) = <<"pow", u, v>>
    BY <1>7 DEF Term, OneArgument
  <2>4. f = TermsOver(c)
    BY <2>3 DEF TermsOver
  <2> QED
    BY <2>2, <2>4, Zenon
<1>8. CASE c.op = "threshold_backward"
  <2> DEFINE f == [ix \in Indices(ShapeOf(c, 1)) |-> <<"where_above", X(c, 2, ix), Scalar(c.arg.threshold), X(c, 1, ix)>>]
  <2>1. Reference(c) = [out |-> Result(ShapeOf(c, 1), LAMBDA ix : <<"where_above", X(c, 2, ix), Scalar(c.arg.threshold), X(c, 1, ix)>>)]
    BY <1>8 DEF Reference, InPlace
  <2>2. Reference(c) = Ref(f)
    BY <2>1 DEF Result
  <2>3. \A u, v : Term(c, u, v) = <<"where_above", v, Scalar(c.arg.threshold), u>>
    BY <1>8 DEF Term, OneArgument
  <2>4. f = TermsOver(c)
    BY <2>3 DEF TermsOver
  <2> QED
    BY <2>2, <2>4, Zenon
<1>9. CASE c.op = "sigmoid_backward"
  <2> DEFINE f == [ix \in Indices(ShapeOf(c, 1)) |-> Times(Times(X(c, 1, ix), X(c, 2, ix)), Minus(Scalar("1"), X(c, 2, ix)))]
  <2>1. Reference(c) = [out |-> Result(ShapeOf(c, 1), LAMBDA ix : Times(Times(X(c, 1, ix), X(c, 2, ix)), Minus(Scalar("1"), X(c, 2, ix))))]
    BY <1>9 DEF Reference, InPlace
  <2>2. Reference(c) = Ref(f)
    BY <2>1 DEF Result
  <2>3. \A u, v : Term(c, u, v) = Times(Times(u, v), Minus(Scalar("1"), v))
    BY <1>9 DEF Term, OneArgument
  <2>4. f = TermsOver(c)
    BY <2>3 DEF TermsOver
  <2> QED
    BY <2>2, <2>4, Zenon
<1>10. CASE c.op = "tanh_backward"
  <2> DEFINE f == [ix \in Indices(ShapeOf(c, 1)) |-> Times(X(c, 1, ix), Minus(Scalar("1"), Times(X(c, 2, ix), X(c, 2, ix))))]
  <2>1. Reference(c) = [out |-> Result(ShapeOf(c, 1), LAMBDA ix : Times(X(c, 1, ix), Minus(Scalar("1"), Times(X(c, 2, ix), X(c, 2, ix)))))]
    BY <1>10 DEF Reference, InPlace
  <2>2. Reference(c) = Ref(f)
    BY <2>1 DEF Result
  <2>3. \A u, v : Term(c, u, v) = Times(u, Minus(Scalar("1"), Times(v, v)))
    BY <1>10 DEF Term, OneArgument
  <2>4. f = TermsOver(c)
    BY <2>3 DEF TermsOver
  <2> QED
    BY <2>2, <2>4, Zenon
<1>11. CASE c.op = "add"
  <2> DEFINE f == [ix \in Indices(ShapeOf(c, 1)) |-> Added(c, ix)]
  <2>1. Reference(c) = [out |-> Result(ShapeOf(c, 1), LAMBDA ix : Added(c, ix))]
    BY <1>11 DEF Reference, InPlace
  <2>2. Reference(c) = Ref(f)
    BY <2>1 DEF Result
  <2>3. \A u, v : Term(c, u, v) = IF c.arg.alpha = "1" THEN Plus(u, v) ELSE Plus(u, Times(Scalar(c.arg.alpha), v))
    BY <1>11 DEF Term, OneArgument
  <2>4. f = TermsOver(c)
    BY <2>3 DEF TermsOver, Added
  <2> QED
    BY <2>2, <2>4, Zenon
<1> QED
  BY <1>1, <1>2, <1>3, <1>4, <1>5, <1>6, <1>7, <1>8, <1>9, <1>10, <1>11 DEF TwoArguments

\* Element by element and position by position it is the same.
LEMMA TermsAreAsked ==
  ASSUME NEW c, WellFormed(c), c.op \in OneArgument \cup TwoArguments,
         c.op \in TwoArguments => ShapeOf(c, 2) = ShapeOf(c, 1)
  PROVE  Reference(c) = [out |-> [shape |-> ShapeOf(c, 1), flat |-> Terms(c)]]
<1> DEFINE s == ShapeOf(c, 1)
<1>1. s \in Seq(Nat) /\ Elements(c.in[1]) = Upto(NumelOf(s))
  <2>1. c.in[1] \in Tensors
    BY InputNames
  <2> QED
    BY <2>1 DEF Tensors, ShapeOf, Elements, Numel
<1>2. ResultOf(s, TermsOver(c)) = [shape |-> s, flat |-> [q \in Upto(NumelOf(s)) |-> TermsOver(c)[IndexAt(s, q)]]]
  BY <1>1, ResultIs
<1>3. ASSUME NEW q \in Upto(NumelOf(s)) PROVE TermsOver(c)[IndexAt(s, q)] = TermAt(c, q)
  <2>1. IndexAt(s, q) \in Indices(s) /\ Position(IndexAt(s, q), s) = q
    BY <1>1, IndexAtIs
  <2>2. TermsOver(c)[IndexAt(s, q)] = Term(c, X(c, 1, IndexAt(s, q)), X(c, 2, IndexAt(s, q)))
    BY <2>1 DEF TermsOver
  <2>3. X(c, 1, IndexAt(s, q)) = InputAt(c, 1, q)
    BY <2>1 DEF X
  <2>4. CASE c.op \in TwoArguments
    BY <2>1, <2>2, <2>3, <2>4 DEF X, TermAt
  <2>5. CASE c.op \in OneArgument
    <3>1. \A u, v, w : Term(c, u, v) = Term(c, u, w)
      BY <2>5 DEF Term, OneArgument
    <3> QED
      BY <2>2, <2>3, <3>1, Zenon DEF TermAt
  <2> QED
    BY <2>4, <2>5
<1>4. Terms(c) = [q \in Upto(NumelOf(s)) |-> TermsOver(c)[IndexAt(s, q)]]
  BY <1>1, <1>3 DEF Terms
<1> QED
  BY <1>2, <1>4, ReferenceIs

-----------------------------------------------------------------------------
\* The loop that stores them.
PointLoop(c) ==
  LET n == Numel(c.in[1])
  IN [total |-> n, shared |-> TRUE, stores |-> [i \in Upto(n) |-> [j \in {i} |-> TermAt(c, i)]]]

\* A plan of one launch suffices if that is its loop.
LEMMA PointSuffices ==
  ASSUME NEW c, WellFormed(c), c.op \in OneArgument \cup TwoArguments,
         c.op \in TwoArguments => ShapeOf(c, 2) = ShapeOf(c, 1),
         NEW u \in Tensors, u.shape = ShapeOf(c, 1), NEW l,
         PlanOf(c) = Plan(<<EmptyLike("out", u)>>, <<l>>), Target(l) = "out",
         \A m : Holds(c, m) => Stored(l, ReadFrom(l, m)) = PointLoop(c)
  PROVE  Sufficient(c)
<1> DEFINE out == EmptyLike("out", u)
           k   == PointLoop(c)
           w   == Terms(c)
<1>1. out \in Tensors /\ out.name = "out" /\ out.shape = ShapeOf(c, 1)
  BY LikeIs DEF NewNames
<1>2. OneLoop(c, out, l, k)
  BY <1>1 DEF OneLoop
<1>3. Numel(out) = Numel(c.in[1]) /\ Elements(out) = Elements(c.in[1])
  BY <1>1 DEF Numel, ShapeOf, Elements
<1>4. w = [e \in Elements(out) |-> w[e]]
  BY <1>3 DEF Terms
<1>5. MapsTo(k, Numel(out), w)
  BY <1>3 DEF MapsTo, PointLoop, Terms, Elements
<1>6. Reference(c) = [out |-> [shape |-> out.shape, flat |-> w]]
  BY <1>1, TermsAreAsked
<1> HIDE DEF out, k, w
<1> QED
  BY <1>2, <1>4, <1>5, <1>6, MapSuffices

\* The same of a launch on both arguments, in either order, or on the only one.
LEMMA TwoPointsSuffice ==
  ASSUME NEW c, WellFormed(c), c.op \in TwoArguments, ShapeOf(c, 2) = ShapeOf(c, 1),
         NEW u \in Tensors, u.shape = ShapeOf(c, 1), NEW i \in {1, 2}, NEW j \in {1, 2}, NEW l,
         PlanOf(c) = Plan(<<EmptyLike("out", u)>>, <<l>>),
         l.pointers = <<c.in[i], c.in[j], EmptyLike("out", u)>>,
         \A x : x[1] = Before(c, i) /\ x[2] = Before(c, j) => Stored(l, x) = PointLoop(c)
  PROVE  Sufficient(c)
<1>1. EmptyLike("out", u).name = "out"
  BY LikeIs DEF NewNames
<1>2. Target(l) = "out"
  BY <1>1 DEF Target
<1>3. i \in DOMAIN c.in /\ j \in DOMAIN c.in
  BY InputNames DEF TwoArguments, TwoTensors
<1>4. ASSUME NEW m, Holds(c, m) PROVE Stored(l, ReadFrom(l, m)) = PointLoop(c)
  <2>1. ReadFrom(l, m)[1] = Before(c, i) /\ ReadFrom(l, m)[2] = Before(c, j)
    BY <1>3, <1>4 DEF ReadFrom, Holds
  <2> QED
    BY <2>1
<1> QED
  BY <1>2, <1>4, PointSuffices

\* The same with one argument.
LEMMA OnePointSuffices ==
  ASSUME NEW c, WellFormed(c), c.op \in OneArgument, NEW l,
         PlanOf(c) = Plan(<<EmptyLike("out", c.in[1])>>, <<l>>),
         l.pointers = <<c.in[1], EmptyLike("out", c.in[1])>>,
         \A x : x[1] = Before(c, 1) => Stored(l, x) = PointLoop(c)
  PROVE  Sufficient(c)
<1>1. c.in[1] \in Tensors
  BY InputNames
<1>2. EmptyLike("out", c.in[1]).name = "out"
  BY <1>1, LikeIs DEF NewNames
<1>3. Target(l) = "out"
  BY <1>2 DEF Target
<1>4. ASSUME NEW m, Holds(c, m) PROVE Stored(l, ReadFrom(l, m)) = PointLoop(c)
  BY <1>4, ReadsOne
<1>5. c.op \notin TwoArguments
  BY DEF OneArgument, TwoArguments
<1> QED
  BY <1>1, <1>3, <1>4, <1>5, PointSuffices DEF ShapeOf

\* What an element-wise kernel reads at i is element i of its arguments.
LEMMA ReadAt ==
  ASSUME NEW c, NEW k, Numel(c.in[k]) = Numel(c.in[1]), NEW x, x = Before(c, k)
  PROVE  \A i \in Upto(Numel(c.in[1])) : At(x, i) = InputAt(c, k, i)
  BY AtBefore DEF Elements

-----------------------------------------------------------------------------
\* mul
LEMMA MulSuffices ==
  ASSUME NEW c, WellFormed(c), c.op = "mul", PlanOf(c).kind = "launching"
  PROVE  Sufficient(c)
<1> DEFINE a == c.in[1]
           b == c.in[2]
           l == launch_elementwise_binary("mul", a, b, EmptyLike("out", a))
<1>1. PlanOf(c) = run_binary_kernel("mul", a, b)
  BY DEF PlanOf, MiniGpuOps, aten_impl, mul_tensor
<1>2. PlanOf(c) = Plan(<<EmptyLike("out", a)>>, <<l>>) /\ SameShape(a, b)
  BY <1>1, CheckPassed DEF run_binary_kernel
<1>3. ShapeOf(c, 2) = ShapeOf(c, 1) /\ a \in Tensors /\ a.shape = ShapeOf(c, 1)
      /\ a.dtype \in Dtypes /\ Numel(b) = Numel(a)
  <2>1. a \in Tensors /\ b \in Tensors
    BY InputNames DEF TwoTensors
  <2> QED
    BY <1>2, <2>1 DEF ShapeOf, SameShape, Numel, Tensors
<1>4. l.pointers = <<c.in[1], c.in[2], EmptyLike("out", a)>>
      /\ l.kernel[1] = "mul" /\ l.kernel[2] \in Dtypes /\ l.num.n = Numel(a)
  BY <1>3 DEF launch_elementwise_binary, Launch
<1> HIDE DEF l
<1>5. ASSUME NEW x, x[1] = Before(c, 1), x[2] = Before(c, 2) PROVE Stored(l, x) = PointLoop(c)
  <2> DEFINE f == [i \in Upto(Numel(a)) |-> Times(At(x[1], i), At(x[2], i))]
  <2>1. Stored(l, x) = mul(x[1], x[2], Numel(a))
    BY <1>3, <1>4 DEF Stored, Kernel, Dtypes, SixTypes
  <2>2. Stored(l, x) = [total |-> Numel(a), shared |-> TRUE,
                        stores |-> [i \in Upto(Numel(a)) |-> [j \in {i} |-> f[i]]]]
    BY <2>1 DEF mul, Map, Loop
  <2>3. \A i \in Upto(Numel(a)) : f[i] = TermAt(c, i)
    BY <1>3, <1>5, ReadAt DEF TermAt, Term, OneArgument
  <2> HIDE DEF f
  <2> QED
    BY <2>2, <2>3 DEF PointLoop
<1> QED
  BY <1>2, <1>3, <1>4, <1>5, TwoPointsSuffice DEF TwoArguments

\* add with an alpha of one
LEMMA AddSuffices ==
  ASSUME NEW c, WellFormed(c), c.op = "add", c.arg.alpha = "1", PlanOf(c).kind = "launching"
  PROVE  Sufficient(c)
<1> DEFINE a == c.in[1]
           b == c.in[2]
           l == launch_elementwise_binary("vector_add", a, b, EmptyLike("out", a))
<1>1. PlanOf(c) = run_binary_kernel("vector_add", a, b)
  <2>1. PlanOf(c) = add_tensor(a, b, c.arg.alpha)
    BY DEF PlanOf, aten_impl, MiniGpuOps
  <2> QED
    BY <2>1, CheckPassed DEF add_tensor
<1>2. PlanOf(c) = Plan(<<EmptyLike("out", a)>>, <<l>>) /\ SameShape(a, b)
  BY <1>1, CheckPassed DEF run_binary_kernel
<1>3. ShapeOf(c, 2) = ShapeOf(c, 1) /\ a \in Tensors /\ a.shape = ShapeOf(c, 1)
      /\ a.dtype \in Dtypes /\ Numel(b) = Numel(a)
  <2>1. a \in Tensors /\ b \in Tensors
    BY InputNames DEF TwoTensors
  <2> QED
    BY <1>2, <2>1 DEF ShapeOf, SameShape, Numel, Tensors
<1>4. l.pointers = <<c.in[1], c.in[2], EmptyLike("out", a)>>
      /\ l.kernel[1] = "vector_add" /\ l.kernel[2] \in Dtypes /\ l.num.n = Numel(a)
  BY <1>3 DEF launch_elementwise_binary, Launch
<1> HIDE DEF l
<1>5. ASSUME NEW x, x[1] = Before(c, 1), x[2] = Before(c, 2) PROVE Stored(l, x) = PointLoop(c)
  <2> DEFINE f == [i \in Upto(Numel(a)) |-> Plus(At(x[1], i), At(x[2], i))]
  <2>1. Stored(l, x) = vector_add(x[1], x[2], Numel(a))
    BY <1>3, <1>4 DEF Stored, Kernel, Dtypes, SixTypes
  <2>2. Stored(l, x) = [total |-> Numel(a), shared |-> TRUE,
                        stores |-> [i \in Upto(Numel(a)) |-> [j \in {i} |-> f[i]]]]
    BY <2>1 DEF vector_add, Map, Loop
  <2>3. \A i \in Upto(Numel(a)) : f[i] = TermAt(c, i)
    BY <1>3, <1>5, ReadAt DEF TermAt, Term, OneArgument
  <2> HIDE DEF f
  <2> QED
    BY <2>2, <2>3 DEF PointLoop
<1> QED
  BY <1>2, <1>3, <1>4, <1>5, TwoPointsSuffice DEF TwoArguments

\* add with another alpha: axpy with the arguments swapped
LEMMA AddScaledSuffices ==
  ASSUME NEW c, WellFormed(c), c.op = "add", c.arg.alpha # "1", PlanOf(c).kind = "launching"
  PROVE  Sufficient(c)
<1> DEFINE a == c.in[1]
           b == c.in[2]
           l == launch_axpy(b, a, EmptyLike("out", b), c.arg.alpha)
<1>1. PlanOf(c) = axpy_(b, a, c.arg.alpha)
  <2>1. PlanOf(c) = add_tensor(a, b, c.arg.alpha)
    BY DEF PlanOf, aten_impl, MiniGpuOps
  <2> QED
    BY <2>1, CheckPassed DEF add_tensor
<1>2. PlanOf(c) = Plan(<<EmptyLike("out", b)>>, <<l>>) /\ SameShape(a, b)
  BY <1>1, CheckPassed DEF axpy_, SameShape
<1>3. ShapeOf(c, 2) = ShapeOf(c, 1) /\ b \in Tensors /\ b.shape = ShapeOf(c, 1)
      /\ a.dtype \in Dtypes /\ Numel(b) = Numel(a)
  <2>1. a \in Tensors /\ b \in Tensors
    BY InputNames DEF TwoTensors
  <2> QED
    BY <1>2, <2>1 DEF ShapeOf, SameShape, Numel, Tensors
<1>4. l.pointers = <<c.in[2], c.in[1], EmptyLike("out", b)>>
      /\ l.kernel[1] = "axpy" /\ l.kernel[2] \in Dtypes /\ l.num.n = Numel(a)
      /\ l.num.alpha = Scalar(c.arg.alpha)
  BY <1>3 DEF launch_axpy, Launch, Dtypes, SixTypes
<1> HIDE DEF l
<1>5. ASSUME NEW x, x[1] = Before(c, 2), x[2] = Before(c, 1) PROVE Stored(l, x) = PointLoop(c)
  <2> DEFINE f == [i \in Upto(Numel(a)) |-> Plus(Times(Scalar(c.arg.alpha), At(x[1], i)), At(x[2], i))]
  <2>1. Stored(l, x) = axpy(x[1], x[2], Scalar(c.arg.alpha), Numel(a))
    BY <1>3, <1>4 DEF Stored, Kernel, Dtypes, SixTypes
  <2>2. Stored(l, x) = [total |-> Numel(a), shared |-> TRUE,
                        stores |-> [i \in Upto(Numel(a)) |-> [j \in {i} |-> f[i]]]]
    BY <2>1 DEF axpy, Map, Loop
  <2>3. \A i \in Upto(Numel(a)) : f[i] = TermAt(c, i)
    BY <1>3, <1>5, ReadAt DEF TermAt, Term, OneArgument, Plus
  <2> HIDE DEF f
  <2> QED
    BY <2>2, <2>3 DEF PointLoop
<1> QED
  BY <1>2, <1>3, <1>4, <1>5, TwoPointsSuffice DEF TwoArguments

\* axpy
LEMMA AxpySuffices ==
  ASSUME NEW c, WellFormed(c), c.op = "axpy", PlanOf(c).kind = "launching"
  PROVE  Sufficient(c)
<1> DEFINE a == c.in[1]
           b == c.in[2]
           l == launch_axpy(a, b, EmptyLike("out", a), c.arg.alpha)
<1>1. PlanOf(c) = axpy_(a, b, c.arg.alpha)
  BY DEF PlanOf, MiniGpuOps, minigpu_impl
<1>2. PlanOf(c) = Plan(<<EmptyLike("out", a)>>, <<l>>) /\ SameShape(a, b)
  BY <1>1, CheckPassed DEF axpy_
<1>3. ShapeOf(c, 2) = ShapeOf(c, 1) /\ a \in Tensors /\ a.shape = ShapeOf(c, 1)
      /\ a.dtype \in Dtypes /\ Numel(b) = Numel(a)
  <2>1. a \in Tensors /\ b \in Tensors
    BY InputNames DEF TwoTensors
  <2> QED
    BY <1>2, <2>1 DEF ShapeOf, SameShape, Numel, Tensors
<1>4. l.pointers = <<c.in[1], c.in[2], EmptyLike("out", a)>>
      /\ l.kernel[1] = "axpy" /\ l.kernel[2] \in Dtypes /\ l.num.n = Numel(a)
      /\ l.num.alpha = Scalar(c.arg.alpha)
  BY <1>3 DEF launch_axpy, Launch, Dtypes, SixTypes
<1> HIDE DEF l
<1>5. ASSUME NEW x, x[1] = Before(c, 1), x[2] = Before(c, 2) PROVE Stored(l, x) = PointLoop(c)
  <2> DEFINE f == [i \in Upto(Numel(a)) |-> Plus(Times(Scalar(c.arg.alpha), At(x[1], i)), At(x[2], i))]
  <2>1. Stored(l, x) = axpy(x[1], x[2], Scalar(c.arg.alpha), Numel(a))
    BY <1>3, <1>4 DEF Stored, Kernel, Dtypes, SixTypes
  <2>2. Stored(l, x) = [total |-> Numel(a), shared |-> TRUE,
                        stores |-> [i \in Upto(Numel(a)) |-> [j \in {i} |-> f[i]]]]
    BY <2>1 DEF axpy, Map, Loop
  <2>3. \A i \in Upto(Numel(a)) : f[i] = TermAt(c, i)
    BY <1>3, <1>5, ReadAt DEF TermAt, Term, OneArgument
  <2> HIDE DEF f
  <2> QED
    BY <2>2, <2>3 DEF PointLoop
<1> QED
  BY <1>2, <1>3, <1>4, <1>5, TwoPointsSuffice DEF TwoArguments

\* div
LEMMA DivSuffices ==
  ASSUME NEW c, WellFormed(c), c.op = "div", PlanOf(c).kind = "launching"
  PROVE  Sufficient(c)
<1> DEFINE a == c.in[1]
           b == c.in[2]
           l == launch_elementwise_binary("div", a, b, EmptyLike("out", a))
<1>1. PlanOf(c) = div_tensor(a, b)
  BY DEF PlanOf, MiniGpuOps, aten_impl
<1>2. PlanOf(c) = Plan(<<EmptyLike("out", a)>>, <<l>>) /\ SameShape(a, b)
  BY <1>1, CheckPassed DEF div_tensor
<1>3. ShapeOf(c, 2) = ShapeOf(c, 1) /\ a \in Tensors /\ a.shape = ShapeOf(c, 1)
      /\ a.dtype \in Dtypes /\ Numel(b) = Numel(a)
  <2>1. a \in Tensors /\ b \in Tensors
    BY InputNames DEF TwoTensors
  <2> QED
    BY <1>2, <2>1 DEF ShapeOf, SameShape, Numel, Tensors
<1>4. l.pointers = <<c.in[1], c.in[2], EmptyLike("out", a)>>
      /\ l.kernel[1] = "div" /\ l.kernel[2] \in Dtypes /\ l.num.n = Numel(a)
  BY <1>3 DEF launch_elementwise_binary, Launch
<1> HIDE DEF l
<1>5. ASSUME NEW x, x[1] = Before(c, 1), x[2] = Before(c, 2) PROVE Stored(l, x) = PointLoop(c)
  <2> DEFINE f == [i \in Upto(Numel(a)) |-> Times(At(x[1], i), Apply("rcp", At(x[2], i)))]
  <2>1. Stored(l, x) = div(x[1], x[2], Numel(a))
    BY <1>3, <1>4 DEF Stored, Kernel, Dtypes, SixTypes
  <2>2. Stored(l, x) = [total |-> Numel(a), shared |-> TRUE,
                        stores |-> [i \in Upto(Numel(a)) |-> [j \in {i} |-> f[i]]]]
    BY <2>1 DEF div, Map, Loop
  <2>3. \A i \in Upto(Numel(a)) : f[i] = TermAt(c, i)
    BY <1>3, <1>5, ReadAt DEF TermAt, Term, OneArgument
  <2> HIDE DEF f
  <2> QED
    BY <2>2, <2>3 DEF PointLoop
<1> QED
  BY <1>2, <1>3, <1>4, <1>5, TwoPointsSuffice DEF TwoArguments

\* An argument more.
LEMMA OneAfterTwo == ASSUME NEW x, NEW y, NEW z PROVE Append(<<x, y>>, z) = <<x, y, z>>
<1> DEFINE t == Append(<<x, y>>, z)
<1>1. t \in Seq({x, y, z}) /\ Len(t) = 3 /\ t[1] = x /\ t[2] = y /\ t[3] = z
  OBVIOUS
<1> HIDE DEF t
<1>2. t = <<x, y, z>>
  BY <1>1
<1> QED
  BY <1>2 DEF t

\* pow, which the host computes
LEMMA PowSuffices ==
  ASSUME NEW c, WellFormed(c), c.op = "pow", PlanOf(c).kind = "launching"
  PROVE  Sufficient(c)
<1> DEFINE a == c.in[1]
           b == c.in[2]
           l == Launch(TRUE, "pow", "host", <<a, b, EmptyLike("out", a)>>, [n |-> Numel(EmptyLike("out", a))])
<1>1. PlanOf(c) = pow_tensor_tensor(a, b)
  BY DEF PlanOf, MiniGpuOps, aten_impl
<1>2. PlanOf(c) = Plan(<<EmptyLike("out", a)>>, <<l>>) /\ SameShape(a, b)
  <2> DEFINE out == EmptyLike("out", a)
  <2>1. PlanOf(c) = OnHost("pow", <<a, b>>) /\ SameShape(a, b)
    BY <1>1, CheckPassed DEF pow_tensor_tensor
  <2>2. Append(<<a, b>>, out) = <<a, b, out>> /\ <<a, b>>[1] = a
    BY OneAfterTwo
  <2>3. OnHost("pow", <<a, b>>) = Plan(<<out>>, <<Launch(TRUE, "pow", "host", Append(<<a, b>>, out), [n |-> Numel(out)])>>)
    BY <2>2 DEF OnHost
  <2> QED
    BY <2>1, <2>2, <2>3, Zenon
<1>3. ShapeOf(c, 2) = ShapeOf(c, 1) /\ a \in Tensors /\ a.shape = ShapeOf(c, 1)
      /\ a.dtype \in Dtypes /\ Numel(b) = Numel(a)
  <2>1. a \in Tensors /\ b \in Tensors
    BY InputNames DEF TwoTensors
  <2> QED
    BY <1>2, <2>1 DEF ShapeOf, SameShape, Numel, Tensors
<1>4. l.pointers = <<c.in[1], c.in[2], EmptyLike("out", a)>>
      /\ l.kernel[1] = "pow" /\ l.kernel[2] = "host" /\ l.num.n = Numel(a)
  BY <1>3, LikeIs DEF Launch, NewNames
<1> HIDE DEF l
<1>5. ASSUME NEW x, x[1] = Before(c, 1), x[2] = Before(c, 2) PROVE Stored(l, x) = PointLoop(c)
  <2> DEFINE f == [i \in Upto(Numel(a)) |-> <<"pow", At(x[1], i), At(x[2], i)>>]
  <2>1. Stored(l, x) = HostKernel(l, x)
    BY <1>4 DEF Stored
  <2>2. Stored(l, x) = [total |-> Numel(a), shared |-> TRUE,
                        stores |-> [i \in Upto(Numel(a)) |-> [j \in {i} |-> f[i]]]]
    BY <1>3, <1>4, <2>1 DEF HostKernel, Map, Loop
  <2>3. \A i \in Upto(Numel(a)) : f[i] = TermAt(c, i)
    BY <1>3, <1>5, ReadAt DEF TermAt, Term, OneArgument
  <2> HIDE DEF f
  <2> QED
    BY <2>2, <2>3 DEF PointLoop
<1> QED
  BY <1>2, <1>3, <1>4, <1>5, TwoPointsSuffice DEF TwoArguments

\* threshold_backward
LEMMA ThresholdSuffices ==
  ASSUME NEW c, WellFormed(c), c.op = "threshold_backward", PlanOf(c).kind = "launching"
  PROVE  Sufficient(c)
<1> DEFINE a == c.in[1]
           b == c.in[2]
           l == LaunchFp32("relu_backward", <<a, b, EmptyLike("out", b)>>, [threshold |-> Scalar(c.arg.threshold), n |-> Numel(b)])
<1>1. PlanOf(c) = threshold_backward(a, b, c.arg.threshold)
  BY DEF PlanOf, MiniGpuOps, aten_impl
<1>2. PlanOf(c) = Plan(<<EmptyLike("out", b)>>, <<l>>) /\ SameShape(a, b)
  BY <1>1, CheckPassed DEF threshold_backward, LossArgs
<1>3. ShapeOf(c, 2) = ShapeOf(c, 1) /\ b \in Tensors /\ b.shape = ShapeOf(c, 1)
      /\ a.dtype \in Dtypes /\ Numel(b) = Numel(a)
  <2>1. a \in Tensors /\ b \in Tensors
    BY InputNames DEF TwoTensors
  <2> QED
    BY <1>2, <2>1 DEF ShapeOf, SameShape, Numel, Tensors
<1>4. l.pointers = <<c.in[1], c.in[2], EmptyLike("out", b)>>
      /\ l.kernel[1] = "relu_backward" /\ l.kernel[2] \in Dtypes /\ l.num.n = Numel(a)
      /\ l.num.threshold = Scalar(c.arg.threshold)
  BY <1>3 DEF LaunchFp32, Launch, Dtypes, SixTypes
<1> HIDE DEF l
<1>5. ASSUME NEW x, x[1] = Before(c, 1), x[2] = Before(c, 2) PROVE Stored(l, x) = PointLoop(c)
  <2> DEFINE f == [i \in Upto(Numel(a)) |-> <<"where_above", At(x[2], i), Scalar(c.arg.threshold), At(x[1], i)>>]
  <2>1. Stored(l, x) = relu_backward(x[1], x[2], Scalar(c.arg.threshold), Numel(a))
    BY <1>3, <1>4 DEF Stored, Kernel, Dtypes, SixTypes
  <2>2. Stored(l, x) = [total |-> Numel(a), shared |-> TRUE,
                        stores |-> [i \in Upto(Numel(a)) |-> [j \in {i} |-> f[i]]]]
    BY <2>1 DEF relu_backward, Map, Loop
  <2>3. \A i \in Upto(Numel(a)) : f[i] = TermAt(c, i)
    BY <1>3, <1>5, ReadAt DEF TermAt, Term, OneArgument
  <2> HIDE DEF f
  <2> QED
    BY <2>2, <2>3 DEF PointLoop
<1> QED
  BY <1>2, <1>3, <1>4, <1>5, TwoPointsSuffice DEF TwoArguments

\* sigmoid_backward
LEMMA SigmoidBackwardSuffices ==
  ASSUME NEW c, WellFormed(c), c.op = "sigmoid_backward", PlanOf(c).kind = "launching"
  PROVE  Sufficient(c)
<1> DEFINE a == c.in[1]
           b == c.in[2]
           l == LaunchFp32("sigmoid_backward", <<a, b, EmptyLike("out", b)>>, [n |-> Numel(b)])
<1>1. PlanOf(c) = sigmoid_backward_op(a, b)
  BY DEF PlanOf, MiniGpuOps, aten_impl
<1>2. PlanOf(c) = Plan(<<EmptyLike("out", b)>>, <<l>>) /\ SameShape(a, b)
  BY <1>1, CheckPassed DEF sigmoid_backward_op, LossArgs
<1>3. ShapeOf(c, 2) = ShapeOf(c, 1) /\ b \in Tensors /\ b.shape = ShapeOf(c, 1)
      /\ a.dtype \in Dtypes /\ Numel(b) = Numel(a)
  <2>1. a \in Tensors /\ b \in Tensors
    BY InputNames DEF TwoTensors
  <2> QED
    BY <1>2, <2>1 DEF ShapeOf, SameShape, Numel, Tensors
<1>4. l.pointers = <<c.in[1], c.in[2], EmptyLike("out", b)>>
      /\ l.kernel[1] = "sigmoid_backward" /\ l.kernel[2] \in Dtypes /\ l.num.n = Numel(a)
  BY <1>3 DEF LaunchFp32, Launch, Dtypes, SixTypes
<1> HIDE DEF l
<1>5. ASSUME NEW x, x[1] = Before(c, 1), x[2] = Before(c, 2) PROVE Stored(l, x) = PointLoop(c)
  <2> DEFINE f == [i \in Upto(Numel(a)) |-> Times(Times(At(x[1], i), At(x[2], i)), Minus(Scalar("1"), At(x[2], i)))]
  <2>1. Stored(l, x) = sigmoid_backward(x[1], x[2], Numel(a))
    BY <1>3, <1>4 DEF Stored, Kernel, Dtypes, SixTypes
  <2>2. Stored(l, x) = [total |-> Numel(a), shared |-> TRUE,
                        stores |-> [i \in Upto(Numel(a)) |-> [j \in {i} |-> f[i]]]]
    BY <2>1 DEF sigmoid_backward, Map, Loop
  <2>3. \A i \in Upto(Numel(a)) : f[i] = TermAt(c, i)
    BY <1>3, <1>5, ReadAt DEF TermAt, Term, OneArgument
  <2> HIDE DEF f
  <2> QED
    BY <2>2, <2>3 DEF PointLoop
<1> QED
  BY <1>2, <1>3, <1>4, <1>5, TwoPointsSuffice DEF TwoArguments

\* tanh_backward
LEMMA TanhBackwardSuffices ==
  ASSUME NEW c, WellFormed(c), c.op = "tanh_backward", PlanOf(c).kind = "launching"
  PROVE  Sufficient(c)
<1> DEFINE a == c.in[1]
           b == c.in[2]
           l == LaunchFp32("tanh_backward", <<a, b, EmptyLike("out", b)>>, [n |-> Numel(b)])
<1>1. PlanOf(c) = tanh_backward_op(a, b)
  BY DEF PlanOf, MiniGpuOps, aten_impl
<1>2. PlanOf(c) = Plan(<<EmptyLike("out", b)>>, <<l>>) /\ SameShape(a, b)
  BY <1>1, CheckPassed DEF tanh_backward_op, LossArgs
<1>3. ShapeOf(c, 2) = ShapeOf(c, 1) /\ b \in Tensors /\ b.shape = ShapeOf(c, 1)
      /\ a.dtype \in Dtypes /\ Numel(b) = Numel(a)
  <2>1. a \in Tensors /\ b \in Tensors
    BY InputNames DEF TwoTensors
  <2> QED
    BY <1>2, <2>1 DEF ShapeOf, SameShape, Numel, Tensors
<1>4. l.pointers = <<c.in[1], c.in[2], EmptyLike("out", b)>>
      /\ l.kernel[1] = "tanh_backward" /\ l.kernel[2] \in Dtypes /\ l.num.n = Numel(a)
  BY <1>3 DEF LaunchFp32, Launch, Dtypes, SixTypes
<1> HIDE DEF l
<1>5. ASSUME NEW x, x[1] = Before(c, 1), x[2] = Before(c, 2) PROVE Stored(l, x) = PointLoop(c)
  <2> DEFINE f == [i \in Upto(Numel(a)) |-> Times(At(x[1], i), Minus(Scalar("1"), Times(At(x[2], i), At(x[2], i))))]
  <2>1. Stored(l, x) = tanh_backward(x[1], x[2], Numel(a))
    BY <1>3, <1>4 DEF Stored, Kernel, Dtypes, SixTypes
  <2>2. Stored(l, x) = [total |-> Numel(a), shared |-> TRUE,
                        stores |-> [i \in Upto(Numel(a)) |-> [j \in {i} |-> f[i]]]]
    BY <2>1 DEF tanh_backward, Map, Loop
  <2>3. \A i \in Upto(Numel(a)) : f[i] = TermAt(c, i)
    BY <1>3, <1>5, ReadAt DEF TermAt, Term, OneArgument
  <2> HIDE DEF f
  <2> QED
    BY <2>2, <2>3 DEF PointLoop
<1> QED
  BY <1>2, <1>3, <1>4, <1>5, TwoPointsSuffice DEF TwoArguments

\* relu
LEMMA ReluSuffices ==
  ASSUME NEW c, WellFormed(c), c.op = "relu", PlanOf(c).kind = "launching"
  PROVE  Sufficient(c)
<1> DEFINE a == c.in[1]
           l == launch_elementwise_unary("relu", a, EmptyLike("out", a))
<1>1. PlanOf(c) = run_unary_kernel("relu", a)
  BY DEF PlanOf, MiniGpuOps, aten_impl
<1>2. PlanOf(c) = Plan(<<EmptyLike("out", a)>>, <<l>>)
  BY <1>1, CheckPassed DEF run_unary_kernel
<1>3. a \in Tensors /\ a.dtype \in Dtypes
  <2>1. a \in Tensors
    BY InputNames
  <2> QED
    BY <2>1 DEF Tensors
<1>4. l.pointers = <<c.in[1], EmptyLike("out", a)>>
      /\ l.kernel[1] = "relu" /\ l.kernel[2] \in Dtypes /\ l.num.n = Numel(a)
  BY <1>3, LikeIs DEF launch_elementwise_unary, Launch, NewNames
<1> HIDE DEF l
<1>5. ASSUME NEW x, x[1] = Before(c, 1) PROVE Stored(l, x) = PointLoop(c)
  <2> DEFINE f == [i \in Upto(Numel(a)) |-> Apply("relu", At(x[1], i))]
  <2>1. Stored(l, x) = activation("relu", x[1], Numel(a))
    BY <1>3, <1>4 DEF Stored, Kernel, Dtypes, SixTypes
  <2>2. Stored(l, x) = [total |-> Numel(a), shared |-> TRUE,
                        stores |-> [i \in Upto(Numel(a)) |-> [j \in {i} |-> f[i]]]]
    BY <2>1 DEF activation, Map, Loop
  <2>3. \A i \in Upto(Numel(a)) : f[i] = TermAt(c, i)
    BY <1>5, ReadAt DEF TermAt, Term, OneArgument
  <2> HIDE DEF f
  <2> QED
    BY <2>2, <2>3 DEF PointLoop
<1> QED
  BY <1>2, <1>4, <1>5, OnePointSuffices DEF OneArgument

\* exp, sigmoid and tanh
LEMMA ActivationsSuffice ==
  ASSUME NEW c, WellFormed(c), c.op \in {"exp", "sigmoid", "tanh"}, PlanOf(c).kind = "launching"
  PROVE  Sufficient(c)
<1> DEFINE a == c.in[1]
           l == launch_elementwise_unary(c.op, a, EmptyLike("out", a))
<1>1. PlanOf(c) = run_unary_kernel(c.op, a)
  <2>1. PlanOf(c) = run_fp32_unary_kernel(c.op, a)
    BY DEF PlanOf, MiniGpuOps, aten_impl
  <2> QED
    BY <2>1, CheckPassed DEF run_fp32_unary_kernel
<1>2. PlanOf(c) = Plan(<<EmptyLike("out", a)>>, <<l>>)
  BY <1>1, CheckPassed DEF run_unary_kernel
<1>3. a \in Tensors /\ a.dtype \in Dtypes
  <2>1. a \in Tensors
    BY InputNames
  <2> QED
    BY <2>1 DEF Tensors
<1>4. l.pointers = <<c.in[1], EmptyLike("out", a)>>
      /\ l.kernel[1] = c.op /\ l.kernel[2] \in Dtypes /\ l.num.n = Numel(a)
  BY <1>3, LikeIs DEF launch_elementwise_unary, Launch, NewNames
<1> HIDE DEF l
<1>5. ASSUME NEW x, x[1] = Before(c, 1) PROVE Stored(l, x) = PointLoop(c)
  <2> DEFINE f == [i \in Upto(Numel(a)) |-> Apply(c.op, At(x[1], i))]
  <2>1. Stored(l, x) = activation(c.op, x[1], Numel(a))
    BY <1>3, <1>4 DEF Stored, Kernel, Dtypes, SixTypes
  <2>2. Stored(l, x) = [total |-> Numel(a), shared |-> TRUE,
                        stores |-> [i \in Upto(Numel(a)) |-> [j \in {i} |-> f[i]]]]
    BY <2>1 DEF activation, Map, Loop
  <2>3. \A i \in Upto(Numel(a)) : f[i] = TermAt(c, i)
    BY <1>5, ReadAt DEF TermAt, Term, OneArgument
  <2> HIDE DEF f
  <2> QED
    BY <2>2, <2>3 DEF PointLoop
<1> QED
  BY <1>2, <1>4, <1>5, OnePointSuffices DEF OneArgument

\* log, log2 and log10
LEMMA LogarithmsSuffice ==
  ASSUME NEW c, WellFormed(c), c.op \in {"log", "log2", "log10"}, PlanOf(c).kind = "launching"
  PROVE  Sufficient(c)
<1> DEFINE a == c.in[1]
           l == launch_elementwise_unary(c.op, a, EmptyLike("out", a))
<1>1. PlanOf(c) = run_unary_kernel(c.op, a)
  <2>1. PlanOf(c) = run_fp32_unary_kernel(c.op, a)
    BY DEF PlanOf, MiniGpuOps, aten_impl
  <2> QED
    BY <2>1, CheckPassed DEF run_fp32_unary_kernel
<1>2. PlanOf(c) = Plan(<<EmptyLike("out", a)>>, <<l>>)
  BY <1>1, CheckPassed DEF run_unary_kernel
<1>3. a \in Tensors /\ a.dtype \in Dtypes
  <2>1. a \in Tensors
    BY InputNames
  <2> QED
    BY <2>1 DEF Tensors
<1>4. l.pointers = <<c.in[1], EmptyLike("out", a)>>
      /\ l.kernel[1] = c.op /\ l.kernel[2] \in Dtypes /\ l.num.n = Numel(a)
  BY <1>3, LikeIs DEF launch_elementwise_unary, Launch, NewNames
<1> HIDE DEF l
<1>5. ASSUME NEW x, x[1] = Before(c, 1) PROVE Stored(l, x) = PointLoop(c)
  <2> DEFINE f == [i \in Upto(Numel(a)) |-> Apply(c.op, At(x[1], i))]
  <2>1. Stored(l, x) = math(c.op, x[1], Numel(a))
    BY <1>3, <1>4 DEF Stored, Kernel, Dtypes, SixTypes
  <2>2. Stored(l, x) = [total |-> Numel(a), shared |-> TRUE,
                        stores |-> [i \in Upto(Numel(a)) |-> [j \in {i} |-> f[i]]]]
    BY <2>1 DEF math, Map, Loop
  <2>3. \A i \in Upto(Numel(a)) : f[i] = TermAt(c, i)
    BY <1>5, ReadAt DEF TermAt, Term, OneArgument
  <2> HIDE DEF f
  <2> QED
    BY <2>2, <2>3 DEF PointLoop
<1> QED
  BY <1>2, <1>4, <1>5, OnePointSuffices DEF OneArgument

\* sqrt
LEMMA SqrtSuffices ==
  ASSUME NEW c, WellFormed(c), c.op = "sqrt", PlanOf(c).kind = "launching"
  PROVE  Sufficient(c)
<1> DEFINE a == c.in[1]
           l == launch_elementwise_unary("sqrt", a, EmptyLike("out", a))
<1>1. PlanOf(c) = run_unary_kernel("sqrt", a)
  <2>1. PlanOf(c) = run_fp32_unary_kernel("sqrt", a)
    BY DEF PlanOf, MiniGpuOps, aten_impl
  <2> QED
    BY <2>1, CheckPassed DEF run_fp32_unary_kernel
<1>2. PlanOf(c) = Plan(<<EmptyLike("out", a)>>, <<l>>)
  BY <1>1, CheckPassed DEF run_unary_kernel
<1>3. a \in Tensors /\ a.dtype \in Dtypes
  <2>1. a \in Tensors
    BY InputNames
  <2> QED
    BY <2>1 DEF Tensors
<1>4. l.pointers = <<c.in[1], EmptyLike("out", a)>>
      /\ l.kernel[1] = "sqrt" /\ l.kernel[2] \in Dtypes /\ l.num.n = Numel(a)
  BY <1>3, LikeIs DEF launch_elementwise_unary, Launch, NewNames
<1> HIDE DEF l
<1>5. ASSUME NEW x, x[1] = Before(c, 1) PROVE Stored(l, x) = PointLoop(c)
  <2> DEFINE f == [i \in Upto(Numel(a)) |-> Apply("sqrt", At(x[1], i))]
  <2>1. Stored(l, x) = sqrt(x[1], Numel(a))
    BY <1>3, <1>4 DEF Stored, Kernel, Dtypes, SixTypes
  <2>2. Stored(l, x) = [total |-> Numel(a), shared |-> TRUE,
                        stores |-> [i \in Upto(Numel(a)) |-> [j \in {i} |-> f[i]]]]
    BY <2>1 DEF sqrt, Map, Loop
  <2>3. \A i \in Upto(Numel(a)) : f[i] = TermAt(c, i)
    BY <1>5, ReadAt DEF TermAt, Term, OneArgument
  <2> HIDE DEF f
  <2> QED
    BY <2>2, <2>3 DEF PointLoop
<1> QED
  BY <1>2, <1>4, <1>5, OnePointSuffices DEF OneArgument

\* reciprocal
LEMMA ReciprocalSuffices ==
  ASSUME NEW c, WellFormed(c), c.op = "reciprocal", PlanOf(c).kind = "launching"
  PROVE  Sufficient(c)
<1> DEFINE a == c.in[1]
           l == launch_elementwise_unary("reciprocal", a, EmptyLike("out", a))
<1>1. PlanOf(c) = run_unary_kernel("reciprocal", a)
  <2>1. PlanOf(c) = run_fp32_unary_kernel("reciprocal", a)
    BY DEF PlanOf, MiniGpuOps, aten_impl
  <2> QED
    BY <2>1, CheckPassed DEF run_fp32_unary_kernel
<1>2. PlanOf(c) = Plan(<<EmptyLike("out", a)>>, <<l>>)
  BY <1>1, CheckPassed DEF run_unary_kernel
<1>3. a \in Tensors /\ a.dtype \in Dtypes
  <2>1. a \in Tensors
    BY InputNames
  <2> QED
    BY <2>1 DEF Tensors
<1>4. l.pointers = <<c.in[1], EmptyLike("out", a)>>
      /\ l.kernel[1] = "reciprocal" /\ l.kernel[2] \in Dtypes /\ l.num.n = Numel(a)
  BY <1>3, LikeIs DEF launch_elementwise_unary, Launch, NewNames
<1> HIDE DEF l
<1>5. ASSUME NEW x, x[1] = Before(c, 1) PROVE Stored(l, x) = PointLoop(c)
  <2> DEFINE f == [i \in Upto(Numel(a)) |-> Apply("rcp", At(x[1], i))]
  <2>1. Stored(l, x) = reciprocal(x[1], Numel(a))
    BY <1>3, <1>4 DEF Stored, Kernel, Dtypes, SixTypes
  <2>2. Stored(l, x) = [total |-> Numel(a), shared |-> TRUE,
                        stores |-> [i \in Upto(Numel(a)) |-> [j \in {i} |-> f[i]]]]
    BY <2>1 DEF reciprocal, Map, Loop
  <2>3. \A i \in Upto(Numel(a)) : f[i] = TermAt(c, i)
    BY <1>5, ReadAt DEF TermAt, Term, OneArgument
  <2> HIDE DEF f
  <2> QED
    BY <2>2, <2>3 DEF PointLoop
<1> QED
  BY <1>2, <1>4, <1>5, OnePointSuffices DEF OneArgument

\* scal
LEMMA ScalSuffices ==
  ASSUME NEW c, WellFormed(c), c.op = "scal", PlanOf(c).kind = "launching"
  PROVE  Sufficient(c)
<1> DEFINE a == c.in[1]
           l == launch_scal(a, EmptyLike("out", a), c.arg.alpha)
<1>1. PlanOf(c) = scal_(a, c.arg.alpha)
  BY DEF PlanOf, MiniGpuOps, minigpu_impl
<1>2. PlanOf(c) = Plan(<<EmptyLike("out", a)>>, <<l>>)
  BY <1>1, CheckPassed DEF scal_
<1>3. a \in Tensors /\ a.dtype \in Dtypes
  <2>1. a \in Tensors
    BY InputNames
  <2> QED
    BY <2>1 DEF Tensors
<1>4. l.pointers = <<c.in[1], EmptyLike("out", a)>>
      /\ l.kernel[1] = "scal" /\ l.kernel[2] \in Dtypes /\ l.num.n = Numel(a)
      /\ l.num.alpha = Scalar(c.arg.alpha)
  BY <1>3, LikeIs DEF launch_scal, Launch, Dtypes, SixTypes, NewNames
<1> HIDE DEF l
<1>5. ASSUME NEW x, x[1] = Before(c, 1) PROVE Stored(l, x) = PointLoop(c)
  <2> DEFINE f == [i \in Upto(Numel(a)) |-> Times(Scalar(c.arg.alpha), At(x[1], i))]
  <2>1. Stored(l, x) = scal(x[1], Scalar(c.arg.alpha), Numel(a))
    BY <1>3, <1>4 DEF Stored, Kernel, Dtypes, SixTypes
  <2>2. Stored(l, x) = [total |-> Numel(a), shared |-> TRUE,
                        stores |-> [i \in Upto(Numel(a)) |-> [j \in {i} |-> f[i]]]]
    BY <2>1 DEF scal, Map, Loop
  <2>3. \A i \in Upto(Numel(a)) : f[i] = TermAt(c, i)
    BY <1>5, ReadAt DEF TermAt, Term, OneArgument
  <2> HIDE DEF f
  <2> QED
    BY <2>2, <2>3 DEF PointLoop
<1> QED
  BY <1>2, <1>4, <1>5, OnePointSuffices DEF OneArgument

\* pow by a number, sin, cos and tan, which the host computes
LEMMA HostOnesSuffice ==
  ASSUME NEW c, WellFormed(c), c.op \in {"pow_scalar", "sin", "cos", "tan"}, PlanOf(c).kind = "launching"
  PROVE  Sufficient(c)
<1> DEFINE a == c.in[1]
           l == Launch(TRUE, c.op, "host", <<a, EmptyLike("out", a)>>, [n |-> Numel(EmptyLike("out", a))])
<1>1. PlanOf(c) = OnHost(c.op, <<a>>)
  <2>1. CASE c.op = "pow_scalar"
    <3>1. PlanOf(c) = pow_tensor_scalar(a)
      BY <2>1 DEF PlanOf, MiniGpuOps, aten_impl
    <3> QED
      BY <2>1, <3>1, CheckPassed DEF pow_tensor_scalar
  <2>2. CASE c.op \in {"sin", "cos", "tan"}
    <3>1. PlanOf(c) = sin_cos_tan(c.op, a)
      BY <2>2 DEF PlanOf, MiniGpuOps, aten_impl
    <3> QED
      BY <3>1, CheckPassed DEF sin_cos_tan
  <2> QED
    BY <2>1, <2>2
<1>2. PlanOf(c) = Plan(<<EmptyLike("out", a)>>, <<l>>)
  <2> DEFINE out == EmptyLike("out", a)
  <2>1. Append(<<a>>, out) = <<a, out>> /\ <<a>>[1] = a
    BY OneMore
  <2>2. OnHost(c.op, <<a>>) = Plan(<<out>>, <<Launch(TRUE, c.op, "host", Append(<<a>>, out), [n |-> Numel(out)])>>)
    BY <2>1 DEF OnHost
  <2> QED
    BY <1>1, <2>1, <2>2, Zenon
<1>3. a \in Tensors /\ a.dtype \in Dtypes
  <2>1. a \in Tensors
    BY InputNames
  <2> QED
    BY <2>1 DEF Tensors
<1>4. l.pointers = <<c.in[1], EmptyLike("out", a)>>
      /\ l.kernel[1] = c.op /\ l.kernel[2] = "host" /\ l.num.n = Numel(a)
  BY <1>3, LikeIs DEF Launch, NewNames
<1> HIDE DEF l
<1>5. ASSUME NEW x, x[1] = Before(c, 1) PROVE Stored(l, x) = PointLoop(c)
  <2> DEFINE f == [i \in Upto(Numel(a)) |-> Apply(c.op, At(x[1], i))]
  <2>1. Stored(l, x) = HostKernel(l, x)
    BY <1>4 DEF Stored
  <2>2. Stored(l, x) = [total |-> Numel(a), shared |-> TRUE,
                        stores |-> [i \in Upto(Numel(a)) |-> [j \in {i} |-> f[i]]]]
    BY <1>4, <2>1 DEF HostKernel, Map, Loop
  <2>3. \A i \in Upto(Numel(a)) : f[i] = TermAt(c, i)
    BY <1>5, ReadAt DEF TermAt, Term, OneArgument
  <2> HIDE DEF f
  <2> QED
    BY <2>2, <2>3 DEF PointLoop
<1> QED
  BY <1>2, <1>4, <1>5, OnePointSuffices DEF OneArgument

\* Every one of them.
LEMMA PointsSuffice ==
  ASSUME NEW c, WellFormed(c), c.op \in OneArgument \cup TwoArguments, PlanOf(c).kind = "launching"
  PROVE  Sufficient(c)
<1>1. CASE c.op \in OneArgument
  BY <1>1, ReluSuffices, ActivationsSuffice, LogarithmsSuffice, SqrtSuffices, ReciprocalSuffices,
     ScalSuffices, HostOnesSuffice DEF OneArgument
<1>2. CASE c.op \in TwoArguments
  BY <1>2, MulSuffices, AddSuffices, AddScaledSuffices, AxpySuffices, DivSuffices, PowSuffices,
     ThresholdSuffices, SigmoidBackwardSuffices, TanhBackwardSuffices DEF TwoArguments
<1> QED
  BY <1>1, <1>2

-----------------------------------------------------------------------------
\* What an operator makes of its first argument, as a function of the position.
LEMMA ChangedIs ==
  ASSUME NEW c, WellFormed(c), c.op \in InPlace
  PROVE  Changed(c).flat = [q \in Elements(c.in[1]) |-> Changed(c).flat[q]]
<1>1. c.in[1] \in Tensors
  BY InputNames
<1>2. ShapeOf(c, 1) \in Seq(Nat) /\ Elements(c.in[1]) = Upto(NumelOf(ShapeOf(c, 1)))
  BY <1>1 DEF Tensors, ShapeOf, Elements, Numel
<1>3. \E f : Changed(c) = ResultOf(ShapeOf(c, 1), f)
  <2>1. CASE c.op = "add_"
    <3> DEFINE f == [ix \in Indices(ShapeOf(c, 1)) |-> Added(c, ix)]
    <3>1. Changed(c) = ResultOf(ShapeOf(c, 1), f)
      BY <2>1 DEF Changed, Result
    <3> QED
      BY <3>1
  <2>2. CASE c.op = "copy_"
    <3> DEFINE f == [ix \in Indices(ShapeOf(c, 1)) |-> Converted(c, c.in[1].dtype, 2, ix)]
    <3>1. Changed(c) = ResultOf(ShapeOf(c, 1), f)
      BY <2>2 DEF Changed, Result
    <3> QED
      BY <3>1
  <2>3. CASE c.op = "fill_"
    <3> DEFINE f == [ix \in Indices(ShapeOf(c, 1)) |-> Scalar("value")]
    <3>1. Changed(c) = ResultOf(ShapeOf(c, 1), f)
      BY <2>3 DEF Changed, Result
    <3> QED
      BY <3>1
  <2> QED
    BY <2>1, <2>2, <2>3 DEF InPlace
<1> QED
  BY <1>2, <1>3, ResultIs

\* An operator that changes its argument in place and returned has done so.
LEMMA InPlaceMatches ==
  ASSUME Inv, OnlyResultsChange, CallList[call].op \in InPlace
  PROVE  ResultMatches
<1> DEFINE c == CallList[call]
<1> SUFFICES ASSUME stage = "returned", mem # <<>>, NEW name \in DOMAIN Reference(c)
             PROVE  /\ mem[name] = Reference(c)[name].flat
                    /\ name \in DOMAIN Shapes => Shapes[name] = Reference(c)[name].shape
                    /\ \A i \in DOMAIN plan.view : StridesFit(plan.view[i])
  BY DEF ResultMatches
<1>1. stage \in Underway
  BY DEF Underway
<1>2. WellFormed(c) /\ plan = PlanOf(c) /\ plan.kind = "launching" /\ GoodFresh(plan.fresh)
  BY <1>1, CallIs DEF Inv
<1>3. Reference(c) = [in1 |-> Changed(c)] /\ name = "in1"
  <2>1. ASSUME NEW d, d.op \in InPlace PROVE Reference(d) = [in1 |-> Changed(d)]
    BY <2>1 DEF Reference, InPlace
  <2>2. Reference(c) = [in1 |-> Changed(c)]
    BY <2>1
  <2> QED
    BY <2>2
<1>4. plan.view = <<>> /\ (plan.copy = <<>> => Numel(c.in[1]) = 0)
      /\ (plan.copy # <<>> => plan.copy[2] = c.in[1])
  BY <1>2, AddPlan, CopyPlan, FillPlan DEF InPlace
<1>5. 1 \in DOMAIN c.in /\ c.in[1].name = "in1" /\ c.in[1] \in Tensors
  BY <1>2, InputNames
<1>6. Changed(c).flat = [q \in Elements(c.in[1]) |-> Changed(c).flat[q]]
  BY <1>2, ChangedIs
<1> HIDE DEF c
<1>7. mem["in1"] = Changed(c).flat
  <2>1. CASE plan.copy # <<>>
    <3>1. mem["in1"] = [i \in Elements(c.in[1]) |->
                          IF i < copied \/ stage = "returned" THEN Changed(c).flat[i] ELSE Before(c, 1)[i]]
      BY <1>4, <1>5, <2>1 DEF OnlyResultsChange, c
    <3> QED
      BY <1>6, <3>1
  <2>2. CASE plan.copy = <<>>
    <3>1. mem["in1"] = Before(c, 1)
      BY <1>5, <2>2 DEF OnlyResultsChange, c
    <3>2. Elements(c.in[1]) = {}
      BY <1>4, <2>2 DEF Elements, Upto
    <3> QED
      BY <1>6, <3>1, <3>2 DEF Before
  <2> QED
    BY <2>1, <2>2
<1>8. "in1" \notin DOMAIN Shapes
  <2> DEFINE made == plan.fresh \o plan.view
  <2>1. made = plan.fresh
    BY <1>2, <1>4 DEF GoodFresh
  <2>2. Shapes = [n \in Names(made) |-> made[Nth(made, n)].shape]
    BY DEF Shapes
  <2> HIDE DEF made
  <2>3. "in1" \notin Names(plan.fresh)
    BY <1>2 DEF GoodFresh, Names
  <2> QED
    BY <2>1, <2>2, <2>3
<1> QED
  BY <1>3, <1>4, <1>7, <1>8

-----------------------------------------------------------------------------
\* Element i of what to_copy promises.
CopyAt(c, i) == Convert(c.in[1].dtype, c.arg.dtype, InputAt(c, 1, i))

\* Of a to_copy under way: the host's copy is converted, and what was written
\* of it is in the new tensor.
ConvertedInv ==
  LET c == CallList[call]
      x == mem["out"]
  IN stage \in Underway /\ c.op = "to_copy" =>
       /\ x = [i \in Elements(c.in[1]) |-> x[i]]
       /\ stage = "copying" => \A i \in Elements(c.in[1]) : buffer[i] = CopyAt(c, i)
       /\ \A i \in Elements(c.in[1]) : i < copied => x[i] = CopyAt(c, i)

\* Its plan is one copy of the argument to the new tensor, and no launch.
LEMMA ToCopyIs ==
  ASSUME Inv, stage \in Underway, CallList[call].op = "to_copy"
  PROVE  LET c == CallList[call]
         IN /\ WellFormed(c) /\ c.in[1] \in Tensors /\ c.in[1].name = "in1" /\ 1 \in DOMAIN c.in
            /\ plan.fresh = <<TargetOf(c)>> /\ ~LaunchesLeft /\ ~Active /\ plan.view = <<>>
            /\ TargetOf(c).name = "out" /\ TargetOf(c).dtype = c.arg.dtype /\ TargetOf(c).shape = c.in[1].shape
            /\ Elements(TargetOf(c)) = Elements(c.in[1]) /\ Numel(TargetOf(c)) = Numel(c.in[1])
            /\ plan.copy # <<>> => plan.copy = <<c.in[1], TargetOf(c)>>
            /\ plan.copy = <<>> => Numel(c.in[1]) = 0
            /\ "out" \in DOMAIN mem /\ DOMAIN mem["out"] = Elements(c.in[1])
<1> DEFINE c == CallList[call]
<1>1. WellFormed(c) /\ plan = PlanOf(c) /\ plan.kind = "launching"
  BY CallIs DEF Inv
<1>2. c.in[1] \in Tensors /\ c.in[1].name = "in1" /\ 1 \in DOMAIN c.in
  BY <1>1, InputNames
<1>3. /\ plan.fresh = <<TargetOf(c)>> /\ plan.launches = <<>> /\ plan.view = <<>>
      /\ plan.copy # <<>> => plan.copy = <<c.in[1], TargetOf(c)>>
      /\ plan.copy = <<>> => Numel(c.in[1]) = 0
  BY <1>1, ToCopyPlan
<1>4. ~LaunchesLeft /\ ~Active
  <2>1. Len(plan.launches) = 0 /\ next \in Nat \ {0}
    BY <1>3 DEF Inv, CallInv
  <2> QED
    BY <2>1 DEF LaunchesLeft, Inv, RunInv
<1>5. /\ TargetOf(c).name = "out" /\ TargetOf(c).dtype = c.arg.dtype /\ TargetOf(c).shape = c.in[1].shape
      /\ Elements(TargetOf(c)) = Elements(c.in[1]) /\ Numel(TargetOf(c)) = Numel(c.in[1])
  BY DEF TargetOf, Tensor, Elements, Numel
<1> HIDE DEF c
<1>6. "out" \in DOMAIN mem /\ DOMAIN mem["out"] = Elements(c.in[1])
  <2>1. 1 \in DOMAIN plan.fresh /\ plan.fresh[1] = TargetOf(c)
    BY <1>3
  <2>2. "out" \in Names(plan.fresh)
    BY <1>5, <2>1 DEF Names
  <2> QED
    BY <1>5, <2>1, <2>2 DEF Inv, MemInv, NewKept
<1> QED
  BY <1>1, <1>2, <1>3, <1>4, <1>5, <1>6 DEF c

\* ConvertedInv holds whenever Inv does.
THEOREM ConvertedInvariant == Spec => [](Inv /\ ConvertedInv)
<1>1. Init => ConvertedInv
  BY DEF Init, ConvertedInv, Underway, Busy
<1>2. Inv /\ ConvertedInv /\ [Next]_vars /\ Inv' => ConvertedInv'
  <2> SUFFICES ASSUME Inv, ConvertedInv, [Next]_vars, Inv' PROVE ConvertedInv'
    OBVIOUS
  <2>1. CASE Call
    <3> SUFFICES ASSUME stage' \in Underway, CallList[call'].op = "to_copy" PROVE ConvertedInv'
      BY DEF ConvertedInv
    <3>1. copied' = 0 /\ stage' # "copying"
      <4>1. stage' = plan'.kind /\ copied' = 0 /\ plan' = PlanOf(CallList[call'])
        BY <2>1 DEF Call
      <4>2. GoodPlan(CallList[call'], plan')
        BY <4>1, PlansAreGood, CallsAssumption DEF Inv, CallInv
      <4> QED
        BY <4>1, <4>2 DEF GoodPlan
    <3> DEFINE d == CallList[call']
    <3>2. mem' = Contents(d, plan'.fresh) /\ plan'.fresh = <<TargetOf(d)>> /\ TargetOf(d).name = "out"
          /\ Elements(TargetOf(d)) = Elements(d.in[1]) /\ WellFormed(d)
      <4>1. stage' = plan'.kind /\ plan' = PlanOf(d) /\ WellFormed(d)
        BY <2>1, CallsAssumption DEF Call, Inv, CallInv
      <4>2. stage' = "launching"
        BY <4>1, PlansAreGood DEF GoodPlan, Underway, Busy
      <4> QED
        BY <2>1, <4>1, <4>2, ToCopyPlan DEF Call, TargetOf, Tensor, Elements, Numel
    <3> HIDE DEF d
    <3>3. mem'["out"] = Allocated(TargetOf(d))
      <4> DEFINE fresh == plan'.fresh
      <4>1. DOMAIN fresh = {1} /\ fresh[1] = TargetOf(d)
        BY <3>2
      <4>2. Nth(fresh, "out") = 1 /\ "out" \in Names(fresh)
        BY <3>2, <4>1 DEF Nth, Names
      <4>3. "out" \notin Names(d.in)
        BY <3>2, InputNames DEF Names
      <4> HIDE DEF fresh
      <4>4. Contents(d, fresh)["out"] = Allocated(fresh[Nth(fresh, "out")])
        BY <4>2, <4>3 DEF Contents
      <4> QED
        BY <3>2, <4>1, <4>2, <4>4 DEF fresh
    <3>4. mem'["out"] = [i \in Elements(d.in[1]) |-> mem'["out"][i]]
      BY <3>2, <3>3 DEF Allocated
    <3>5. \A i \in Elements(d.in[1]) : ~(i < 0)
      BY DEF Elements, Upto
    <3> QED
      BY <3>1, <3>4, <3>5 DEF ConvertedInv, d
  <2> SUFFICES ASSUME ~Call, stage \in Underway, CallList[call].op = "to_copy" PROVE ConvertedInv'
    <3>1. CASE UNCHANGED vars
      BY <3>1 DEF vars, ConvertedInv
    <3>2. CASE Next /\ ~Call
      <4>1. call' = call /\ stage \in Underway
        BY <3>2 DEF Next, LaunchNext, ComputeOnHost, ThreadStep, Runs, KernelDone, StartCopy,
                    WriteElement, Return, Fail, NothingLeft, Underway, Busy
      <4>2. CASE CallList[call].op = "to_copy"
        BY <3>2, <4>1, <4>2
      <4> QED
        BY <4>1, <4>2 DEF ConvertedInv
    <3> QED
      BY <2>1, <3>1, <3>2
  <2> DEFINE c == CallList[call]
             x == mem["out"]
  <2>2. /\ WellFormed(c) /\ c.in[1] \in Tensors /\ c.in[1].name = "in1" /\ 1 \in DOMAIN c.in
        /\ plan.fresh = <<TargetOf(c)>> /\ ~LaunchesLeft /\ ~Active
        /\ TargetOf(c).name = "out" /\ TargetOf(c).dtype = c.arg.dtype
        /\ Elements(TargetOf(c)) = Elements(c.in[1]) /\ Numel(TargetOf(c)) = Numel(c.in[1])
        /\ plan.copy # <<>> => plan.copy = <<c.in[1], TargetOf(c)>>
        /\ "out" \in DOMAIN mem /\ DOMAIN mem["out"] = Elements(c.in[1])
    BY ToCopyIs
  <2>3. /\ x = [i \in Elements(c.in[1]) |-> x[i]]
        /\ stage = "copying" => \A i \in Elements(c.in[1]) : buffer[i] = CopyAt(c, i)
        /\ \A i \in Elements(c.in[1]) : i < copied => x[i] = CopyAt(c, i)
    BY DEF ConvertedInv
  <2> HIDE DEF c, x
  <2>4. CASE LaunchNext \/ ComputeOnHost \/ KernelDone \/ \E t \in Thread : ThreadStep(t)
    <3>1. ~LaunchNext /\ ~ComputeOnHost
      BY <2>2 DEF LaunchNext, ComputeOnHost
    <3>2. ~KernelDone
      BY <2>2 DEF KernelDone, Active
    <3>3. ASSUME NEW t \in Thread, ThreadStep(t) PROVE FALSE
      <4>1. stage \in {"running", "threw"} /\ pos[t] < total
        BY <3>3 DEF ThreadStep, Runs, Iterate
      <4>2. pos[t] \in Nat /\ total \in Nat
        BY DEF Inv, LoopInv
      <4>3. ~Halted
        BY <4>1, <4>2 DEF Halted
      <4> QED
        BY <2>2, <4>1, <4>3 DEF Active
    <3> QED
      BY <2>4, <3>1, <3>2, <3>3
  <2>5. CASE StartCopy
    <3>1. /\ stage = "launching" /\ plan.copy # <<>> /\ stage' = "copying"
          /\ UNCHANGED <<call, plan, next, mem, copied, loopVars>>
          /\ LET src == plan.copy[1] dst == plan.copy[2]
             IN buffer' = [i \in DOMAIN mem[src.name] |-> Convert(src.dtype, dst.dtype, mem[src.name][i])]
      BY <2>5 DEF StartCopy
    <3>2. copied = 0
      BY <3>1 DEF Inv, CopyInv
    <3>3. mem["in1"] = Before(c, 1)
      BY <2>2, <3>2, ArgumentsAsBefore DEF Inv, c
    <3>4. plan.copy[1] = c.in[1] /\ plan.copy[2] = TargetOf(c)
      BY <2>2, <3>1
    <3>5. \A i \in Elements(c.in[1]) : buffer'[i] = CopyAt(c, i)
      BY <2>2, <3>1, <3>3, <3>4 DEF Before, CopyAt
    <3> QED
      BY <2>3, <3>1, <3>5 DEF ConvertedInv, c, x
  <2>6. CASE WriteElement
    <3>1. /\ stage = "copying" /\ copied' = copied + 1 /\ copied < Cardinality(DOMAIN buffer)
          /\ mem' = [mem EXCEPT ![plan.copy[2].name][copied] = buffer[copied]]
          /\ UNCHANGED <<call, plan, stage, next, buffer, loopVars>>
      BY <2>6 DEF WriteElement
    <3>2. plan.copy # <<>> /\ copied \in Nat /\ Cardinality(DOMAIN buffer) = Numel(plan.copy[2])
      BY <3>1, CopiedTo DEF Inv, CopyInv
    <3>3. plan.copy[2] = TargetOf(c)
      BY <2>2, <3>2
    <3>4. copied \in Elements(c.in[1])
      BY <2>2, <3>1, <3>2, <3>3, TensorNumel DEF Elements, Upto
    <3>5. mem'["out"] = [x EXCEPT ![copied] = buffer[copied]]
      BY <2>2, <3>1, <3>3 DEF x
    <3>6. mem'["out"] = [i \in Elements(c.in[1]) |-> mem'["out"][i]]
      BY <2>3, <3>5
    <3>7. ASSUME NEW i \in Elements(c.in[1]), i < copied + 1 PROVE mem'["out"][i] = CopyAt(c, i)
      <4>1. i = copied \/ i < copied
        BY <3>2, <3>7 DEF Elements, Upto
      <4>2. buffer[i] = CopyAt(c, i)
        BY <2>3, <3>1
      <4> QED
        BY <2>2, <2>3, <3>4, <3>5, <4>1, <4>2 DEF x
    <3> QED
      BY <2>3, <3>1, <3>6, <3>7 DEF ConvertedInv, c
  <2>7. CASE Return \/ Fail
    <3>1. UNCHANGED <<call, plan, next, mem, buffer, copied, loopVars>> /\ stage' # "copying"
      BY <2>7 DEF Return, Fail
    <3> QED
      BY <2>3, <3>1 DEF ConvertedInv, c, x
  <2>8. CASE UNCHANGED vars
    BY <2>8 DEF vars, ConvertedInv
  <2> QED
    BY <2>4, <2>5, <2>6, <2>7, <2>8 DEF Next
<1> QED
  BY <1>1, <1>2, CallsInvariant, PTL DEF Spec

\* A to_copy that returned made the converted copy.
LEMMA ToCopyMatches ==
  ASSUME Inv, ConvertedInv, CallList[call].op = "to_copy"
  PROVE  ResultMatches
<1> DEFINE c == CallList[call]
           f == [ix \in Indices(ShapeOf(c, 1)) |-> Converted(c, c.arg.dtype, 1, ix)]
<1>0. Reference(c) = [out |-> ResultOf(ShapeOf(c, 1), f)]
  <2>1. ASSUME NEW d, d.op = "to_copy"
        PROVE  Reference(d) = [out |-> ResultOf(ShapeOf(d, 1),
                                         [ix \in Indices(ShapeOf(d, 1)) |-> Converted(d, d.arg.dtype, 1, ix)])]
    BY <2>1 DEF Reference, InPlace, Result
  <2> QED
    BY <2>1
<1> SUFFICES ASSUME stage = "returned", NEW name \in DOMAIN Reference(c)
             PROVE  /\ mem[name] = Reference(c)[name].flat
                    /\ name \in DOMAIN Shapes => Shapes[name] = Reference(c)[name].shape
                    /\ \A i \in DOMAIN plan.view : StridesFit(plan.view[i])
  BY DEF ResultMatches
<1>1. stage \in Underway
  BY DEF Underway
<1>2. /\ WellFormed(c) /\ c.in[1] \in Tensors /\ plan.fresh = <<TargetOf(c)>>
      /\ TargetOf(c).name = "out" /\ TargetOf(c).shape = c.in[1].shape /\ plan.view = <<>>
      /\ Elements(TargetOf(c)) = Elements(c.in[1]) /\ Numel(TargetOf(c)) = Numel(c.in[1])
      /\ plan.copy # <<>> => plan.copy = <<c.in[1], TargetOf(c)>>
      /\ plan.copy = <<>> => Numel(c.in[1]) = 0
  BY <1>1, ToCopyIs
<1>3. name = "out"
  BY <1>0
<1> HIDE DEF f
<1>4. ShapeOf(c, 1) \in Seq(Nat) /\ Elements(c.in[1]) = Upto(NumelOf(ShapeOf(c, 1)))
  BY <1>2 DEF Tensors, ShapeOf, Elements, Numel
<1>5. ASSUME NEW q \in Elements(c.in[1]) PROVE f[IndexAt(ShapeOf(c, 1), q)] = CopyAt(c, q)
  BY <1>4, IndexAtIs DEF f, Converted, CopyAt, Convert, X
<1>6. Reference(c)["out"].flat = [q \in Elements(c.in[1]) |-> CopyAt(c, q)]
      /\ Reference(c)["out"].shape = ShapeOf(c, 1)
  <2>1. ResultOf(ShapeOf(c, 1), f)
          = [shape |-> ShapeOf(c, 1), flat |-> [q \in Upto(NumelOf(ShapeOf(c, 1))) |-> f[IndexAt(ShapeOf(c, 1), q)]]]
    BY <1>4, ResultIs
  <2> QED
    BY <1>0, <1>4, <1>5, <2>1
<1>7. mem["out"] = [q \in Elements(c.in[1]) |-> CopyAt(c, q)]
  <2>1. ASSUME NEW q \in Elements(c.in[1]) PROVE q < copied
    <3>1. Numel(c.in[1]) \in Nat /\ Numel(c.in[1]) # 0
      BY <1>2, TensorNumel DEF Elements, Upto
    <3>2. copied = Numel(c.in[1])
      BY <1>2, <3>1 DEF Inv, CopyInv
    <3> QED
      BY <3>1, <3>2 DEF Elements, Upto
  <2>2. /\ mem["out"] = [i \in Elements(c.in[1]) |-> mem["out"][i]]
        /\ \A i \in Elements(c.in[1]) : i < copied => mem["out"][i] = CopyAt(c, i)
    BY <1>1 DEF ConvertedInv
  <2> HIDE DEF c
  <2> QED
    BY <2>1, <2>2
<1>8. Shapes["out"] = ShapeOf(c, 1)
  <2> DEFINE made == plan.fresh \o plan.view
  <2>1. made = plan.fresh
    BY <1>2
  <2>2. Shapes = [n \in Names(made) |-> made[Nth(made, n)].shape]
    BY DEF Shapes
  <2> HIDE DEF made, c
  <2>3. "out" \in Names(plan.fresh) /\ Nth(plan.fresh, "out") = 1
    BY <1>2 DEF Names, Nth
  <2> QED
    BY <1>2, <2>1, <2>2, <2>3 DEF ShapeOf
<1> QED
  BY <1>2, <1>3, <1>6, <1>7, <1>8

-----------------------------------------------------------------------------
\* Whatever order the terms of a sum come in, they are one bag.
LEMMA SameBag ==
  ASSUME NEW S, IsFiniteSet(S), NEW T, NEW h \in Bijection(S, T),
         NEW f, DOMAIN f = S, NEW g, DOMAIN g = T, \A s \in S : f[s] = g[h[s]]
  PROVE  BagOf(f) = BagOf(g)
<1>1. h \in [S -> T] /\ (\A s, t \in S : h[s] = h[t] => s = t) /\ \A t \in T : \E s \in S : h[s] = t
  BY DEF Bijection, Injection, Surjection, IsInjective
<1>2. {f[s] : s \in S} = {g[t] : t \in T}
  BY <1>1
<1>3. ASSUME NEW x
      PROVE  Cardinality({s \in S : f[s] = x}) = Cardinality({t \in T : g[t] = x})
  <2> DEFINE A == {s \in S : f[s] = x}
             B == {t \in T : g[t] = x}
             k == [s \in A |-> h[s]]
  <2>1. IsFiniteSet(A)
    BY FS_Subset
  <2>2. k \in [A -> B] /\ (\A s, t \in A : k[s] = k[t] => s = t)
    BY <1>1
  <2>3. \A t \in B : \E s \in A : k[s] = t
    <3> SUFFICES ASSUME NEW t \in B PROVE \E s \in A : k[s] = t
      OBVIOUS
    <3>1. PICK s \in S : h[s] = t
      BY <1>1
    <3>2. s \in A
      BY <3>1
    <3> QED
      BY <3>1, <3>2
  <2> HIDE DEF A, B, k
  <2>4. k \in Bijection(A, B)
    BY <2>2, <2>3 DEF Bijection, Injection, Surjection, IsInjective
  <2>5. ExistsBijection(A, B)
    BY <2>4 DEF ExistsBijection
  <2> QED
    BY <2>1, <2>5, FS_Bijection DEF A, B
<1> QED
  BY <1>2, <1>3 DEF BagOf

-----------------------------------------------------------------------------
\* Positions in vectors and matrices, and what is read there.
LEMMA PositionOfFew ==
  ASSUME NEW shape \in Seq(Nat), NEW ix \in Indices(shape)
  PROVE  /\ Len(shape) = 1 => Position(ix, shape) = ix[1]
         /\ Len(shape) = 2 => Position(ix, shape) = ix[1] * shape[2] + ix[2]
<1>1. PICK b \in [0..Len(shape) -> Nat] :
            /\ b[0] = 0
            /\ \A d \in 1..Len(shape) : b[d] = b[d - 1] * shape[d] + ix[d]
            /\ Position(ix, shape) = b[Len(shape)]
  BY PositionSteps
<1>2. \A d \in 1..Len(shape) : ix[d] \in Nat /\ shape[d] \in Nat
  BY IndexIs
<1>3. ASSUME Len(shape) >= 1 PROVE b[1] = ix[1]
  <2>1. b[1] = b[0] * shape[1] + ix[1] /\ shape[1] \in Nat /\ ix[1] \in Nat
    BY <1>1, <1>2, <1>3
  <2> QED
    BY <1>1, <2>1
<1>4. CASE Len(shape) = 1
  BY <1>1, <1>3, <1>4
<1>5. CASE Len(shape) = 2
  <2>1. b[2] = b[1] * shape[2] + ix[2]
    BY <1>1, <1>5
  <2> QED
    BY <1>1, <1>3, <1>5, <2>1
<1> QED
  BY <1>4, <1>5

\* The sizes of a vector and of a matrix.
LEMMA SizesOfFew ==
  ASSUME NEW shape \in Seq(Nat)
  PROVE  /\ Len(shape) = 1 => DOMAIN shape = {1} /\ shape[1] \in Nat
         /\ Len(shape) = 2 => DOMAIN shape = {1, 2} /\ shape[1] \in Nat /\ shape[2] \in Nat
<1>1. DOMAIN shape = 1..Len(shape) /\ \A d \in DOMAIN shape : shape[d] \in Nat
  OBVIOUS
<1>2. 1..1 = {1} /\ 1..2 = {1, 2}
  OBVIOUS
<1> QED
  BY <1>1, <1>2

\* Tuples that are indices.
LEMMA IndexOfOne ==
  ASSUME NEW shape \in Seq(Nat), Len(shape) = 1, NEW i \in Upto(shape[1])
  PROVE  <<i>> \in Indices(shape) /\ Position(<<i>>, shape) = i
<1>1. <<i>> \in [DOMAIN shape -> UNION {Upto(shape[d]) : d \in DOMAIN shape}]
  <2>1. DOMAIN shape = {1} /\ DOMAIN <<i>> = {1}
    OBVIOUS
  <2>2. i \in UNION {Upto(shape[d]) : d \in DOMAIN shape}
    BY <2>1
  <2> QED
    BY <2>1, <2>2
<1>2. \A d \in DOMAIN shape : <<i>>[d] < shape[d]
  BY DEF Upto
<1>3. <<i>> \in Indices(shape)
  BY <1>1, <1>2 DEF Indices
<1> QED
  BY <1>3, PositionOfFew

\* The index of a matrix, and its position.
LEMMA IndexOfTwo ==
  ASSUME NEW shape \in Seq(Nat), Len(shape) = 2, NEW i \in Upto(shape[1]), NEW j \in Upto(shape[2])
  PROVE  <<i, j>> \in Indices(shape) /\ Position(<<i, j>>, shape) = i * shape[2] + j
<1>1. <<i, j>> \in [DOMAIN shape -> UNION {Upto(shape[d]) : d \in DOMAIN shape}]
  <2>1. DOMAIN shape = {1, 2} /\ DOMAIN <<i, j>> = {1, 2}
    OBVIOUS
  <2>2. /\ i \in UNION {Upto(shape[d]) : d \in DOMAIN shape}
        /\ j \in UNION {Upto(shape[d]) : d \in DOMAIN shape}
    BY <2>1
  <2> QED
    BY <2>1, <2>2
<1>2. \A d \in DOMAIN shape : <<i, j>>[d] < shape[d]
  <2>1. shape[1] \in Nat /\ shape[2] \in Nat /\ DOMAIN shape = {1, 2}
    BY SizesOfFew
  <2>2. i < shape[1] /\ j < shape[2]
    BY <2>1 DEF Upto
  <2> QED
    BY <2>1, <2>2
<1>3. <<i, j>> \in Indices(shape)
  BY <1>1, <1>2 DEF Indices
<1> QED
  BY <1>3, PositionOfFew

\* Row and column of a position.
LEMMA IndexAtTwo ==
  ASSUME NEW shape \in Seq(Nat), Len(shape) = 2, NEW q \in Upto(shape[1] * shape[2])
  PROVE  /\ q \div shape[2] \in Upto(shape[1]) /\ q % shape[2] \in Upto(shape[2])
         /\ IndexAt(shape, q) = <<q \div shape[2], q % shape[2]>>
<1> DEFINE m == shape[1]
           n == shape[2]
           i == q \div n
           j == q % n
<1>1. m \in Nat /\ n \in Nat /\ q \in Nat /\ q < m * n
  <2>1. m \in Nat /\ n \in Nat
    BY SizesOfFew
  <2> HIDE DEF m, n
  <2>2. m * n \in Nat
    BY <2>1
  <2>3. q \in 0..(m * n - 1)
    BY DEF Upto, m, n
  <2> QED
    BY <2>1, <2>2, <2>3
<1> HIDE DEF m, n
<1>2. n # 0
  BY <1>1
<1>3. j \in Nat /\ j < n /\ i \in Nat /\ q = n * i + j
  <2>1. n \in Nat \ {0}
    BY <1>1, <1>2
  <2>2. j \in 0..(n - 1) /\ n * i = q - j
    BY <1>1, <2>1, QuotientAndRemainder, RemainderInRange
  <2>3. i \in Nat
    BY <1>1, <2>1
  <2> HIDE DEF i, j
  <2>4. n * i \in Nat
    BY <2>1, <2>3
  <2> QED
    BY <1>1, <2>1, <2>2, <2>3, <2>4
<1> HIDE DEF i, j
<1>4. i < m
  <2> SUFFICES ASSUME i >= m PROVE FALSE
    BY <1>1, <1>3
  <2>1. PICK d \in Nat : i = m + d
    BY <1>1, <1>3, i - m \in Nat
  <2>2. n * i = m * n + n * d /\ n * d \in Nat /\ m * n \in Nat
    BY <1>1, <2>1
  <2> QED
    BY <1>1, <1>3, <2>2
<1>5. i \in Upto(m) /\ j \in Upto(n)
  BY <1>1, <1>3, <1>4 DEF Upto
<1>6. <<i, j>> \in Indices(shape) /\ Position(<<i, j>>, shape) = i * n + j
  BY <1>5, IndexOfTwo DEF m, n
<1>7. i * n + j = q
  BY <1>1, <1>3
<1> QED
  BY <1>5, <1>6, <1>7, IndexAtOf DEF i, j, m, n

\* What is read at the position of an index.
LEMMA ReadsIndex ==
  ASSUME NEW c, NEW k, c.in[k] \in Tensors, NEW ix \in Indices(ShapeOf(c, k))
  PROVE  At(Before(c, k), Position(ix, ShapeOf(c, k))) = X(c, k, ix)
<1>1. ShapeOf(c, k) \in Seq(Nat) /\ Elements(c.in[k]) = Upto(NumelOf(ShapeOf(c, k)))
  BY DEF Tensors, ShapeOf, Elements, Numel
<1>2. Position(ix, ShapeOf(c, k)) \in Elements(c.in[k])
  BY <1>1, PositionInside
<1> QED
  BY <1>2, AtBefore DEF X

-----------------------------------------------------------------------------
\* A product sum of a kernel is the one of a bilinear operator if the products
\* of that are P[0..n - 1] and lie where the kernel reads.
LEMMA ProductSum ==
  ASSUME NEW c, NEW a, NEW b, c.in[a] \in Tensors, c.in[b] \in Tensors, NEW n \in Nat,
         NEW o, NEW P, Products(c, ShapeOf(c, a), ShapeOf(c, b), o) = {P[j] : j \in Upto(n)},
         DOMAIN P = Upto(n), \A i, j \in Upto(n) : P[i] = P[j] => i = j,
         \A j \in Upto(n) : P[j][1] \in Indices(ShapeOf(c, a)) /\ P[j][2] \in Indices(ShapeOf(c, b)),
         NEW ao, NEW as, NEW bo, NEW bs,
         \A j \in Upto(n) : /\ Position(P[j][1], ShapeOf(c, a)) = ao + j * as
                            /\ Position(P[j][2], ShapeOf(c, b)) = bo + j * bs
  PROVE  dot_strided(Before(c, a), ao, as, Before(c, b), bo, bs, n)
           = Bilinear(c, a, b, o)
<1> DEFINE T == {P[j] : j \in Upto(n)}
           f == [j \in Upto(n) |-> Times(At(Before(c, a), ao + j * as), At(Before(c, b), bo + j * bs))]
           g == [p \in T |-> Times(X(c, a, p[1]), X(c, b, p[2]))]
<1>1. dot_strided(Before(c, a), ao, as, Before(c, b), bo, bs, n) = <<"sum", BagOf(f)>>
  BY DEF dot_strided, SumOf
<1>2. Bilinear(c, a, b, o) = <<"sum", BagOf(g)>>
  BY DEF Bilinear, SumOf
<1>3. \A j \in Upto(n) : f[j] = g[P[j]]
  <2> SUFFICES ASSUME NEW j \in Upto(n) PROVE f[j] = g[P[j]]
    OBVIOUS
  <2>1. /\ At(Before(c, a), ao + j * as) = X(c, a, P[j][1])
        /\ At(Before(c, b), bo + j * bs) = X(c, b, P[j][2])
    BY ReadsIndex
  <2> QED
    BY <2>1
<1>4. DOMAIN f = Upto(n) /\ DOMAIN g = T
  OBVIOUS
<1> DEFINE h == [j \in Upto(n) |-> P[j]]
<1>5. h \in Bijection(Upto(n), T) /\ \A j \in Upto(n) : h[j] = P[j]
  BY DEF Bijection, Injection, Surjection, IsInjective
<1>6. IsFiniteSet(Upto(n))
  BY FS_Interval DEF Upto
<1> HIDE DEF f, g, h
<1>7. \A j \in Upto(n) : f[j] = g[h[j]]
  BY <1>3, <1>5
<1>8. BagOf(f) = BagOf(g)
  BY <1>4, <1>5, <1>6, <1>7, SameBag
<1> QED
  BY <1>1, <1>2, <1>8

-----------------------------------------------------------------------------
\* The last of two, and the other.
LEMMA LastOfTwo ==
  ASSUME NEW x, NEW y
  PROVE  Len(<<x, y>>) = 2 /\ <<x, y>>[Len(<<x, y>>)] = y /\ SubSeq(<<x, y>>, 1, Len(<<x, y>>) - 1) = <<x>>
<1>1. Len(<<x, y>>) = 2 /\ <<x, y>>[2] = y
  OBVIOUS
<1>2. SubSeq(<<x, y>>, 1, 1) = <<x>>
  <2> DEFINE s == <<x, y>>
  <2>1. s \in Seq({x, y}) /\ s[1] = x /\ Len(s) = 2
    OBVIOUS
  <2> HIDE DEF s
  <2> DEFINE t == SubSeq(s, 1, 1)
  <2>2. t \in Seq({x, y}) /\ Len(t) = 1 /\ t[1] = x
    BY <2>1
  <2> HIDE DEF t
  <2>3. t = <<x>>
    BY <2>2
  <2> QED
    BY <2>3 DEF s, t
<1> QED
  BY <1>1, <1>2

\* What the product sums of the kernels are: of a matrix and a matrix
LEMMA MatrixProduct ==
  ASSUME NEW c, c.op \in {"mm", "addmm"}, NEW a, NEW b, c.in[a] \in Tensors, c.in[b] \in Tensors,
         Dim(c.in[a]) = 2, Dim(c.in[b]) = 2, Size(c.in[a], 2) = Size(c.in[b], 1),
         NEW row \in Upto(Size(c.in[a], 1)), NEW col \in Upto(Size(c.in[b], 2))
  PROVE  gemm_element(Before(c, a), Before(c, b), row, col, Size(c.in[b], 2), Size(c.in[a], 2))
           = Bilinear(c, a, b, <<row, col>>)
<1> DEFINE sa == ShapeOf(c, a)
           sb == ShapeOf(c, b)
           n  == sa[2]
           o  == <<row, col>>
           P  == [j \in Upto(n) |-> <<<<row, j>>, <<j, col>>>>]
<1>1. /\ sa \in Seq(Nat) /\ sb \in Seq(Nat) /\ Len(sa) = 2 /\ Len(sb) = 2 /\ sb[1] = n
      /\ row \in Upto(sa[1]) /\ col \in Upto(sb[2])
  BY DEF Tensors, ShapeOf, Dim, Size
<1>2. n \in Nat /\ sb[2] \in Nat /\ sa[1] \in Nat
  BY <1>1, SizesOfFew
<1>3. gemm_element(Before(c, a), Before(c, b), row, col, Size(c.in[b], 2), Size(c.in[a], 2))
        = dot_strided(Before(c, a), row * n, 1, Before(c, b), col, sb[2], n)
  BY DEF gemm_element, ShapeOf, Size
<1> HIDE DEF sa, sb, n
<1>4. DOMAIN P = Upto(n) /\ \A i, j \in Upto(n) : P[i] = P[j] => i = j
  <2>1. \A j \in Upto(n) : P[j][2][1] = j
    OBVIOUS
  <2> QED
    BY <2>1
<1>5. \A j \in Upto(n) : P[j][1] = <<row, j>> /\ P[j][2] = <<j, col>>
  OBVIOUS
<1>6. \A j \in Upto(n) :
        /\ <<row, j>> \in Indices(sa) /\ Position(<<row, j>>, sa) = row * n + j
        /\ <<j, col>> \in Indices(sb) /\ Position(<<j, col>>, sb) = j * sb[2] + col
  <2>1. \A j \in Upto(n) : <<row, j>> \in Indices(sa) /\ Position(<<row, j>>, sa) = row * n + j
    BY <1>1, IndexOfTwo, Zenon DEF n
  <2>2. \A j \in Upto(n) : <<j, col>> \in Indices(sb) /\ Position(<<j, col>>, sb) = j * sb[2] + col
    BY <1>1, IndexOfTwo, Zenon
  <2> QED
    BY <2>1, <2>2, Zenon
<1>7. \A j \in Upto(n) : row * n + j = row * n + j * 1 /\ j * sb[2] + col = col + j * sb[2]
  <2> SUFFICES ASSUME NEW j \in Upto(n) PROVE row * n + j = row * n + j * 1 /\ j * sb[2] + col = col + j * sb[2]
    OBVIOUS
  <2>1. row \in Nat /\ row * n \in Nat /\ col \in Nat
    BY <1>1, <1>2 DEF Upto
  <2>2. j \in Nat /\ j * sb[2] \in Nat
    BY <1>2, <2>1 DEF Upto
  <2> QED
    BY <1>2, <2>1, <2>2
<1>8. Products(c, sa, sb, o) = {P[j] : j \in Upto(n)}
  BY <1>1 DEF Products
<1> HIDE DEF P, o
<1>9. \A j \in Upto(n) : /\ Position(P[j][1], sa) = row * n + j * 1
                         /\ Position(P[j][2], sb) = col + j * sb[2]
                         /\ P[j][1] \in Indices(sa) /\ P[j][2] \in Indices(sb)
  BY <1>5, <1>6, <1>7
<1>10. dot_strided(Before(c, a), row * n, 1, Before(c, b), col, sb[2], n) = Bilinear(c, a, b, o)
  BY <1>2, <1>4, <1>8, <1>9, ProductSum DEF sa, sb
<1> QED
  BY <1>3, <1>10 DEF o

\* of a matrix and a vector
LEMMA VectorProduct ==
  ASSUME NEW c, c.op = "mv", NEW a, NEW b, c.in[a] \in Tensors, c.in[b] \in Tensors,
         Dim(c.in[a]) = 2, Dim(c.in[b]) = 1, Size(c.in[a], 2) = Size(c.in[b], 1), NEW row \in Upto(Size(c.in[a], 1))
  PROVE  gemv_element(Before(c, a), Before(c, b), row, Size(c.in[a], 2))
           = Bilinear(c, a, b, <<row>>)
<1> DEFINE sa == ShapeOf(c, a)
           sb == ShapeOf(c, b)
           n  == sa[2]
           o  == <<row>>
           P  == [j \in Upto(n) |-> <<<<row, j>>, <<j>>>>]
<1>1. /\ sa \in Seq(Nat) /\ sb \in Seq(Nat) /\ Len(sa) = 2 /\ Len(sb) = 1 /\ sb[1] = n
      /\ row \in Upto(sa[1])
  BY DEF Tensors, ShapeOf, Dim, Size
<1>2. n \in Nat /\ sa[1] \in Nat
  BY <1>1, SizesOfFew
<1>3. gemv_element(Before(c, a), Before(c, b), row, Size(c.in[a], 2))
        = dot_strided(Before(c, a), row * n, 1, Before(c, b), 0, 1, n)
  BY DEF gemv_element, ShapeOf, Size
<1> HIDE DEF sa, sb, n
<1>4. DOMAIN P = Upto(n) /\ \A i, j \in Upto(n) : P[i] = P[j] => i = j
  <2>1. \A j \in Upto(n) : P[j][2][1] = j
    OBVIOUS
  <2> QED
    BY <2>1
<1>5. \A j \in Upto(n) : P[j][1] = <<row, j>> /\ P[j][2] = <<j>>
  OBVIOUS
<1>6. \A j \in Upto(n) :
        /\ <<row, j>> \in Indices(sa) /\ Position(<<row, j>>, sa) = row * n + j
        /\ <<j>> \in Indices(sb) /\ Position(<<j>>, sb) = j
  <2>1. \A j \in Upto(n) : <<row, j>> \in Indices(sa) /\ Position(<<row, j>>, sa) = row * n + j
    BY <1>1, IndexOfTwo, Zenon DEF n
  <2>2. \A j \in Upto(n) : <<j>> \in Indices(sb) /\ Position(<<j>>, sb) = j
    BY <1>1, IndexOfOne, Zenon
  <2> QED
    BY <2>1, <2>2, Zenon
<1>7. \A j \in Upto(n) : row * n + j = row * n + j * 1 /\ j = 0 + j * 1
  <2> SUFFICES ASSUME NEW j \in Upto(n) PROVE row * n + j = row * n + j * 1 /\ j = 0 + j * 1
    OBVIOUS
  <2>1. row \in Nat /\ row * n \in Nat
    BY <1>1, <1>2 DEF Upto
  <2>2. j \in Nat
    BY <1>2, <2>1 DEF Upto
  <2> QED
    BY <1>2, <2>1, <2>2
<1>8. Products(c, sa, sb, o) = {P[j] : j \in Upto(n)}
  BY <1>1 DEF Products
<1> HIDE DEF P, o
<1>9. \A j \in Upto(n) : /\ Position(P[j][1], sa) = row * n + j * 1
                         /\ Position(P[j][2], sb) = 0 + j * 1
                         /\ P[j][1] \in Indices(sa) /\ P[j][2] \in Indices(sb)
  BY <1>5, <1>6, <1>7
<1>10. dot_strided(Before(c, a), row * n, 1, Before(c, b), 0, 1, n) = Bilinear(c, a, b, o)
  BY <1>2, <1>4, <1>8, <1>9, ProductSum DEF sa, sb
<1> QED
  BY <1>3, <1>10 DEF o

\* of two vectors
LEMMA DotProduct ==
  ASSUME NEW c, c.op = "dot", NEW a, NEW b, c.in[a] \in Tensors, c.in[b] \in Tensors,
         Dim(c.in[a]) = 1, Dim(c.in[b]) = 1, Size(c.in[a], 1) = Size(c.in[b], 1), NEW o
  PROVE  dot_strided(Before(c, a), 0, 1, Before(c, b), 0, 1, Size(c.in[a], 1))
           = Bilinear(c, a, b, o)
<1> DEFINE sa == ShapeOf(c, a)
           sb == ShapeOf(c, b)
           n  == sa[1]
           P  == [j \in Upto(n) |-> <<<<j>>, <<j>>>>]
<1>1. sa \in Seq(Nat) /\ sb \in Seq(Nat) /\ Len(sa) = 1 /\ Len(sb) = 1 /\ sb[1] = n
  BY DEF Tensors, ShapeOf, Dim, Size
<1>2. n \in Nat
  BY <1>1, SizesOfFew
<1>3. dot_strided(Before(c, a), 0, 1, Before(c, b), 0, 1, Size(c.in[a], 1))
        = dot_strided(Before(c, a), 0, 1, Before(c, b), 0, 1, n)
  BY DEF ShapeOf, Size
<1> HIDE DEF sa, sb, n
<1>4. DOMAIN P = Upto(n) /\ \A i, j \in Upto(n) : P[i] = P[j] => i = j
  <2>1. \A j \in Upto(n) : P[j][2][1] = j
    OBVIOUS
  <2> QED
    BY <2>1
<1>5. \A j \in Upto(n) : P[j][1] = <<j>> /\ P[j][2] = <<j>>
  OBVIOUS
<1>6. \A j \in Upto(n) :
        /\ <<j>> \in Indices(sa) /\ Position(<<j>>, sa) = j
        /\ <<j>> \in Indices(sb) /\ Position(<<j>>, sb) = j
  <2>1. \A j \in Upto(n) : <<j>> \in Indices(sa) /\ Position(<<j>>, sa) = j
    BY <1>1, IndexOfOne, Zenon DEF n
  <2>2. \A j \in Upto(n) : <<j>> \in Indices(sb) /\ Position(<<j>>, sb) = j
    BY <1>1, IndexOfOne, Zenon
  <2> QED
    BY <2>1, <2>2, Zenon
<1>7. \A j \in Upto(n) : j = 0 + j * 1 /\ j = 0 + j * 1
  <2> SUFFICES ASSUME NEW j \in Upto(n) PROVE j = 0 + j * 1 /\ j = 0 + j * 1
    OBVIOUS
  <2>1. TRUE
    BY <1>1, <1>2 DEF Upto
  <2>2. j \in Nat
    BY <1>2, <2>1 DEF Upto
  <2> QED
    BY <1>2, <2>1, <2>2
<1>8. Products(c, sa, sb, o) = {P[j] : j \in Upto(n)}
  BY <1>1 DEF Products
<1> HIDE DEF P
<1>9. \A j \in Upto(n) : /\ Position(P[j][1], sa) = 0 + j * 1
                         /\ Position(P[j][2], sb) = 0 + j * 1
                         /\ P[j][1] \in Indices(sa) /\ P[j][2] \in Indices(sb)
  BY <1>5, <1>6, <1>7
<1>10. dot_strided(Before(c, a), 0, 1, Before(c, b), 0, 1, n) = Bilinear(c, a, b, o)
  BY <1>2, <1>4, <1>8, <1>9, ProductSum DEF sa, sb
<1> QED
  BY <1>3, <1>10

\* of the rows of two matrices
LEMMA RowsProduct ==
  ASSUME NEW c, c.op = "linear", NEW a, NEW b, c.in[a] \in Tensors, c.in[b] \in Tensors,
         Dim(c.in[a]) = 2, Dim(c.in[b]) = 2, Size(c.in[a], 2) = Size(c.in[b], 2),
         NEW row \in Upto(Size(c.in[a], 1)), NEW col \in Upto(Size(c.in[b], 1))
  PROVE  linear_element(Before(c, a), Before(c, b), row, col, Size(c.in[b], 1), Size(c.in[a], 2))
           = Bilinear(c, a, b, <<row, col>>)
<1> DEFINE sa == ShapeOf(c, a)
           sb == ShapeOf(c, b)
           n  == sa[2]
           o  == <<row, col>>
           P  == [j \in Upto(n) |-> <<<<row, j>>, <<col, j>>>>]
<1>1. /\ sa \in Seq(Nat) /\ sb \in Seq(Nat) /\ Len(sa) = 2 /\ Len(sb) = 2 /\ sb[2] = n
      /\ row \in Upto(sa[1]) /\ col \in Upto(sb[1])
  BY DEF Tensors, ShapeOf, Dim, Size
<1>2. n \in Nat /\ sb[1] \in Nat /\ sa[1] \in Nat
  BY <1>1, SizesOfFew
<1>3. linear_element(Before(c, a), Before(c, b), row, col, Size(c.in[b], 1), Size(c.in[a], 2))
        = dot_strided(Before(c, a), row * n, 1, Before(c, b), col * n, 1, n)
  BY DEF linear_element, ShapeOf, Size
<1> HIDE DEF sa, sb, n
<1>4. DOMAIN P = Upto(n) /\ \A i, j \in Upto(n) : P[i] = P[j] => i = j
  <2>1. \A j \in Upto(n) : P[j][2][2] = j
    OBVIOUS
  <2> QED
    BY <2>1
<1>5. \A j \in Upto(n) : P[j][1] = <<row, j>> /\ P[j][2] = <<col, j>>
  OBVIOUS
<1>6. \A j \in Upto(n) :
        /\ <<row, j>> \in Indices(sa) /\ Position(<<row, j>>, sa) = row * n + j
        /\ <<col, j>> \in Indices(sb) /\ Position(<<col, j>>, sb) = col * n + j
  <2>1. \A j \in Upto(n) : <<row, j>> \in Indices(sa) /\ Position(<<row, j>>, sa) = row * n + j
    BY <1>1, IndexOfTwo, Zenon DEF n
  <2>2. \A j \in Upto(n) : <<col, j>> \in Indices(sb) /\ Position(<<col, j>>, sb) = col * n + j
    BY <1>1, IndexOfTwo, Zenon
  <2> QED
    BY <2>1, <2>2, Zenon
<1>7. \A j \in Upto(n) : row * n + j = row * n + j * 1 /\ col * n + j = col * n + j * 1
  <2> SUFFICES ASSUME NEW j \in Upto(n) PROVE row * n + j = row * n + j * 1 /\ col * n + j = col * n + j * 1
    OBVIOUS
  <2>1. row \in Nat /\ row * n \in Nat /\ col \in Nat /\ col * n \in Nat
    BY <1>1, <1>2 DEF Upto
  <2>2. j \in Nat
    BY <1>2, <2>1 DEF Upto
  <2> QED
    BY <1>2, <2>1, <2>2
<1>8. Products(c, sa, sb, o) = {P[j] : j \in Upto(n)}
  <2>1. Len(o) = 2 /\ o[Len(o)] = col /\ SubSeq(o, 1, Len(o) - 1) = <<row>>
    BY LastOfTwo
  <2>2. \A k : Append(<<row>>, k) = <<row, k>>
    BY OneMore
  <2> HIDE DEF o
  <2>3. Products(c, sa, sb, o) = {<<Append(SubSeq(o, 1, Len(o) - 1), k), <<o[Len(o)], k>> >> : k \in Upto(sb[2])}
    BY DEF Products
  <2> DEFINE g == [k \in Upto(n) |-> <<Append(SubSeq(o, 1, Len(o) - 1), k), <<o[Len(o)], k>> >>]
  <2>4. Products(c, sa, sb, o) = {g[k] : k \in Upto(n)}
    BY <1>1, <2>3
  <2>5. \A k \in Upto(n) : g[k] = << <<row, k>>, <<col, k>> >>
    BY <2>1, <2>2
  <2> HIDE DEF g
  <2>6. \A k \in Upto(n) : g[k] = P[k]
    BY <2>5
  <2> HIDE DEF P
  <2> QED
    BY <2>4, <2>6
<1> HIDE DEF P, o
<1>9. \A j \in Upto(n) : /\ Position(P[j][1], sa) = row * n + j * 1
                         /\ Position(P[j][2], sb) = col * n + j * 1
                         /\ P[j][1] \in Indices(sa) /\ P[j][2] \in Indices(sb)
  BY <1>5, <1>6, <1>7
<1>10. dot_strided(Before(c, a), row * n, 1, Before(c, b), col * n, 1, n) = Bilinear(c, a, b, o)
  BY <1>2, <1>4, <1>8, <1>9, ProductSum DEF sa, sb
<1> QED
  BY <1>3, <1>10 DEF o

\* of a vector and the rows of a matrix
LEMMA RowProduct ==
  ASSUME NEW c, c.op = "linear", NEW a, NEW b, c.in[a] \in Tensors, c.in[b] \in Tensors,
         Dim(c.in[a]) = 1, Dim(c.in[b]) = 2, Size(c.in[a], 1) = Size(c.in[b], 2), NEW col \in Upto(Size(c.in[b], 1))
  PROVE  linear_element(Before(c, a), Before(c, b), 0, col, Size(c.in[b], 1), Size(c.in[a], 1))
           = Bilinear(c, a, b, <<col>>)
<1> DEFINE sa == ShapeOf(c, a)
           sb == ShapeOf(c, b)
           n  == sa[1]
           o  == <<col>>
           P  == [j \in Upto(n) |-> <<<<j>>, <<col, j>>>>]
<1>1. /\ sa \in Seq(Nat) /\ sb \in Seq(Nat) /\ Len(sa) = 1 /\ Len(sb) = 2 /\ sb[2] = n
      /\ col \in Upto(sb[1])
  BY DEF Tensors, ShapeOf, Dim, Size
<1>2. n \in Nat /\ sb[1] \in Nat
  BY <1>1, SizesOfFew
<1>3. linear_element(Before(c, a), Before(c, b), 0, col, Size(c.in[b], 1), Size(c.in[a], 1))
        = dot_strided(Before(c, a), 0 * n, 1, Before(c, b), col * n, 1, n)
  BY DEF linear_element, ShapeOf, Size
<1> HIDE DEF sa, sb, n
<1>4. DOMAIN P = Upto(n) /\ \A i, j \in Upto(n) : P[i] = P[j] => i = j
  <2>1. \A j \in Upto(n) : P[j][2][2] = j
    OBVIOUS
  <2> QED
    BY <2>1
<1>5. \A j \in Upto(n) : P[j][1] = <<j>> /\ P[j][2] = <<col, j>>
  OBVIOUS
<1>6. \A j \in Upto(n) :
        /\ <<j>> \in Indices(sa) /\ Position(<<j>>, sa) = j
        /\ <<col, j>> \in Indices(sb) /\ Position(<<col, j>>, sb) = col * n + j
  <2>1. \A j \in Upto(n) : <<j>> \in Indices(sa) /\ Position(<<j>>, sa) = j
    BY <1>1, IndexOfOne, Zenon DEF n
  <2>2. \A j \in Upto(n) : <<col, j>> \in Indices(sb) /\ Position(<<col, j>>, sb) = col * n + j
    BY <1>1, IndexOfTwo, Zenon
  <2> QED
    BY <2>1, <2>2, Zenon
<1>7. \A j \in Upto(n) : j = 0 * n + j * 1 /\ col * n + j = col * n + j * 1
  <2> SUFFICES ASSUME NEW j \in Upto(n) PROVE j = 0 * n + j * 1 /\ col * n + j = col * n + j * 1
    OBVIOUS
  <2>1. col \in Nat /\ col * n \in Nat
    BY <1>1, <1>2 DEF Upto
  <2>2. j \in Nat
    BY <1>2, <2>1 DEF Upto
  <2> QED
    BY <1>2, <2>1, <2>2
<1>8. Products(c, sa, sb, o) = {P[j] : j \in Upto(n)}
  <2>1. Len(o) = 1 /\ o[Len(o)] = col /\ SubSeq(o, 1, Len(o) - 1) = <<>>
    OBVIOUS
  <2>2. \A k : Append(<<>>, k) = <<k>>
    OBVIOUS
  <2> HIDE DEF o
  <2>3. Products(c, sa, sb, o) = {<<Append(SubSeq(o, 1, Len(o) - 1), k), <<o[Len(o)], k>> >> : k \in Upto(sb[2])}
    BY DEF Products
  <2> QED
    BY <1>1, <2>1, <2>2, <2>3
<1> HIDE DEF P, o
<1>9. \A j \in Upto(n) : /\ Position(P[j][1], sa) = 0 * n + j * 1
                         /\ Position(P[j][2], sb) = col * n + j * 1
                         /\ P[j][1] \in Indices(sa) /\ P[j][2] \in Indices(sb)
  BY <1>5, <1>6, <1>7
<1>10. dot_strided(Before(c, a), 0 * n, 1, Before(c, b), col * n, 1, n) = Bilinear(c, a, b, o)
  BY <1>2, <1>4, <1>8, <1>9, ProductSum DEF sa, sb
<1> QED
  BY <1>3, <1>10 DEF o

-----------------------------------------------------------------------------
\* What the reference asks for, position by position.
LEMMA ResultByPosition ==
  ASSUME NEW shape \in Seq(Nat), NEW f, NEW w, w = [q \in Upto(NumelOf(shape)) |-> w[q]],
         \A q \in Upto(NumelOf(shape)) : w[q] = f[IndexAt(shape, q)]
  PROVE  ResultOf(shape, f) = [shape |-> shape, flat |-> w]
<1>1. ResultOf(shape, f) = [shape |-> shape, flat |-> [q \in Upto(NumelOf(shape)) |-> f[IndexAt(shape, q)]]]
  BY ResultIs
<1>2. w = [q \in Upto(NumelOf(shape)) |-> f[IndexAt(shape, q)]]
  OBVIOUS
<1> QED
  BY <1>1, <1>2

\* A plan of one launch whose iterations store w, one element each.
LEMMA MappedSuffices ==
  ASSUME NEW c, NEW out \in Tensors, NEW l, NEW k, OneLoop(c, out, l, k),
         NEW w, w = [q \in Elements(out) |-> w[q]], MapsTo(k, Numel(out), w),
         NEW f, Reference(c) = [out |-> ResultOf(out.shape, f)],
         \A q \in Elements(out) : w[q] = f[IndexAt(out.shape, q)]
  PROVE  Sufficient(c)
<1>1. out.shape \in Seq(Nat) /\ Elements(out) = Upto(NumelOf(out.shape))
  BY DEF Tensors, Elements, Numel
<1>2. ResultOf(out.shape, f) = [shape |-> out.shape, flat |-> w]
  <2> DEFINE shape == out.shape
  <2>1. shape \in Seq(Nat)
    BY <1>1
  <2>2. w = [q \in Upto(NumelOf(shape)) |-> w[q]]
    BY <1>1
  <2>3. \A q \in Upto(NumelOf(shape)) : w[q] = f[IndexAt(shape, q)]
    BY <1>1
  <2> HIDE DEF shape
  <2>4. ResultOf(shape, f) = [shape |-> shape, flat |-> w]
    BY <2>1, <2>2, <2>3, ResultByPosition
  <2> QED
    BY <2>4 DEF shape
<1> QED
  BY <1>2, MapSuffices

\* The same for a launch that reads the first two arguments.
LEMMA MapOfTwoSuffices ==
  ASSUME NEW c, WellFormed(c), NEW out \in Tensors, out.name = "out", NEW l,
         PlanOf(c) = Plan(<<out>>, <<l>>),
         1 \in DOMAIN c.in, 2 \in DOMAIN c.in, l.pointers = <<c.in[1], c.in[2], out>>,
         NEW w, w = [q \in Elements(out) |-> w[q]], NEW k, MapsTo(k, Numel(out), w),
         \A x : x[1] = Before(c, 1) /\ x[2] = Before(c, 2) => Stored(l, x) = k,
         NEW f, Reference(c) = [out |-> ResultOf(out.shape, f)],
         \A q \in Elements(out) : w[q] = f[IndexAt(out.shape, q)]
  PROVE  Sufficient(c)
<1>1. Target(l) = "out"
  BY DEF Target
<1>2. ASSUME NEW m, Holds(c, m) PROVE Stored(l, ReadFrom(l, m)) = k
  <2>1. ReadFrom(l, m)[1] = Before(c, 1) /\ ReadFrom(l, m)[2] = Before(c, 2)
    BY <1>2 DEF ReadFrom, Holds
  <2> QED
    BY <2>1
<1>3. OneLoop(c, out, l, k)
  BY <1>1, <1>2 DEF OneLoop
<1> QED
  BY <1>3, MappedSuffices

\* And for one that reads three.
LEMMA MapOfThreeSuffices ==
  ASSUME NEW c, WellFormed(c), NEW out \in Tensors, out.name = "out", NEW l,
         PlanOf(c) = Plan(<<out>>, <<l>>),
         1 \in DOMAIN c.in, 2 \in DOMAIN c.in, 3 \in DOMAIN c.in,
         l.pointers = <<c.in[1], c.in[2], c.in[3], out>>,
         NEW w, w = [q \in Elements(out) |-> w[q]], NEW k, MapsTo(k, Numel(out), w),
         \A x : x[1] = Before(c, 1) /\ x[2] = Before(c, 2) /\ x[3] = Before(c, 3) => Stored(l, x) = k,
         NEW f, Reference(c) = [out |-> ResultOf(out.shape, f)],
         \A q \in Elements(out) : w[q] = f[IndexAt(out.shape, q)]
  PROVE  Sufficient(c)
<1>1. Target(l) = "out"
  BY DEF Target
<1>2. ASSUME NEW m, Holds(c, m) PROVE Stored(l, ReadFrom(l, m)) = k
  <2>1. /\ ReadFrom(l, m)[1] = Before(c, 1)
        /\ ReadFrom(l, m)[2] = Before(c, 2)
        /\ ReadFrom(l, m)[3] = Before(c, 3)
    BY <1>2 DEF ReadFrom, Holds
  <2> QED
    BY <2>1
<1>3. OneLoop(c, out, l, k)
  BY <1>1, <1>2 DEF OneLoop
<1> QED
  BY <1>3, MappedSuffices

\* The new tensor of a bilinear operator.
LEMMA OutIs ==
  ASSUME NEW shape \in Seq(Nat), NEW dtype \in Dtypes
  PROVE  /\ Empty("out", shape, dtype) \in Tensors
         /\ Empty("out", shape, dtype).name = "out" /\ Empty("out", shape, dtype).shape = shape
         /\ Numel(Empty("out", shape, dtype)) = NumelOf(shape)
         /\ Elements(Empty("out", shape, dtype)) = Upto(NumelOf(shape))
<1> DEFINE out == Empty("out", shape, dtype)
<1>1. "out" \in NewNames
  BY DEF NewNames
<1>2. out \in Tensors /\ out.name = "out" /\ out.shape = shape /\ Numel(out) = NumelOf(shape)
  BY <1>1, EmptyIs
<1> HIDE DEF out
<1>3. Elements(out) = Upto(NumelOf(shape))
  BY <1>2 DEF Elements
<1> QED
  BY <1>2, <1>3 DEF out

\* A position of a vector is its index.
LEMMA IndexAtOne ==
  ASSUME NEW shape \in Seq(Nat), Len(shape) = 1, NEW q \in Upto(shape[1])
  PROVE  IndexAt(shape, q) = <<q>>
<1>1. <<q>> \in Indices(shape) /\ Position(<<q>>, shape) = q
  BY IndexOfOne
<1>2. IndexAt(shape, Position(<<q>>, shape)) = <<q>>
  BY <1>1, IndexAtOf
<1> QED
  BY <1>1, <1>2

\* mm
LEMMA MmSuffices ==
  ASSUME NEW c, WellFormed(c), c.op = "mm", PlanOf(c).kind = "launching"
  PROVE  Sufficient(c)
<1> DEFINE a == c.in[1]
           b == c.in[2]
           m == Size(a, 1)
           n == Size(b, 2)
           shape == <<m, n>>
           out == Empty("out", shape, a.dtype)
           l == launch_matmul(a, b, out, m, n, Size(a, 2))
           E(q) == gemm_element(Before(c, 1), Before(c, 2), q \div n, q % n, n, Size(a, 2))
           w == [q \in Upto(m * n) |-> E(q)]
           k == matmul(Before(c, 1), Before(c, 2), m, n, Size(a, 2))
           f == [o \in Indices(shape) |-> Bilinear(c, 1, 2, o)]
<1>1. PlanOf(c) = mm(a, b)
  BY DEF PlanOf, MiniGpuOps, aten_impl
<1>2. /\ PlanOf(c) = Plan(<<out>>, <<l>>) /\ Dim(a) = 2 /\ Dim(b) = 2 /\ Size(a, 2) = Size(b, 1)
      /\ a.dtype \in {"i32", "fp32"}
  BY <1>1, CheckPassed DEF mm
<1>3. a \in Tensors /\ b \in Tensors /\ 1 \in DOMAIN c.in /\ 2 \in DOMAIN c.in
  BY InputNames DEF TwoTensors
<1>4. Reference(c) = [out |-> ResultOf(shape, f)]
  BY DEF Reference, InPlace, Result, ShapeOf, Size
<1>5. m \in Nat /\ n \in Nat
  BY <1>2, <1>3, SizesAreNat
<1>6. shape \in Seq(Nat) /\ Len(shape) = 2 /\ shape[1] = m /\ shape[2] = n
  <2> HIDE DEF m, n
  <2> QED
    BY <1>5
<1>7. ASSUME NEW q \in Upto(m * n) PROVE E(q) = f[IndexAt(shape, q)]
  <2> HIDE DEF m, n, shape
  <2>1. q \div n \in Upto(m) /\ q % n \in Upto(n) /\ IndexAt(shape, q) = <<q \div n, q % n>>
    BY <1>6, IndexAtTwo
  <2>2. <<q \div n, q % n>> \in Indices(shape)
    BY <1>6, <2>1, IndexOfTwo
  <2>3. E(q) = Bilinear(c, 1, 2, <<q \div n, q % n>>)
    <3> DEFINE row == q \div n
               col == q % n
    <3>1. row \in Upto(Size(c.in[1], 1)) /\ col \in Upto(Size(c.in[2], 2))
      BY <2>1 DEF m, n
    <3>2. c.op \in {"mm", "addmm"} /\ Dim(c.in[1]) = 2 /\ Dim(c.in[2]) = 2 /\ Size(c.in[1], 2) = Size(c.in[2], 1)
      BY <1>2
    <3>3. c.in[1] \in Tensors /\ c.in[2] \in Tensors
      BY <1>3
    <3> HIDE DEF row, col
    <3>4. gemm_element(Before(c, 1), Before(c, 2), row, col, Size(c.in[2], 2), Size(c.in[1], 2))
            = Bilinear(c, 1, 2, <<row, col>>)
      BY <3>1, <3>2, <3>3, MatrixProduct
    <3> QED
      BY <3>4 DEF row, col, n
  <2> HIDE DEF E
  <2> QED
    BY <2>1, <2>2, <2>3
<1>8. NumelOf(shape) = m * n
  BY <1>6, NumelOfFew
<1> HIDE DEF shape
<1>9. out \in Tensors /\ out.name = "out" /\ out.shape = shape /\ Numel(out) = m * n /\ Elements(out) = Upto(m * n)
  <2>1. "out" \in NewNames /\ a.dtype \in Dtypes
    BY <1>2 DEF NewNames, Dtypes, SixTypes
  <2>2. out \in Tensors /\ out.name = "out" /\ out.shape = shape /\ Numel(out) = NumelOf(shape)
    BY <1>6, <2>1, EmptyIs
  <2> HIDE DEF out, m, n
  <2> QED
    BY <1>8, <2>2 DEF Elements
<1>10. /\ l.pointers = <<a, b, out>> /\ l.kernel[1] = "matmul" /\ l.kernel[2] # "host"
       /\ l.num.m = m /\ l.num.n = n /\ l.num.k = Size(a, 2)
  BY <1>2 DEF launch_matmul, Launch
<1> HIDE DEF l, out
<1>11. \A x : x[1] = Before(c, 1) /\ x[2] = Before(c, 2) => Stored(l, x) = k
  BY <1>10 DEF Stored, Kernel
<1>12. MapsTo(k, m * n, w)
  BY DEF MapsTo, matmul, Map, Loop
<1>13. w = [q \in Elements(out) |-> w[q]] /\ \A q \in Elements(out) : w[q] = f[IndexAt(out.shape, q)]
  BY <1>7, <1>9
<1> HIDE DEF w, k, f, m, n
<1> QED
  BY <1>2, <1>3, <1>4, <1>9, <1>10, <1>11, <1>12, <1>13, MapOfTwoSuffices

-----------------------------------------------------------------------------
\* mv: one thread for each row of the matrix.
LEMMA MvSuffices ==
  ASSUME NEW c, WellFormed(c), c.op = "mv", PlanOf(c).kind = "launching"
  PROVE  Sufficient(c)
<1> DEFINE a == c.in[1]
           b == c.in[2]
           m == Size(a, 1)
           n == Size(a, 2)
           shape == <<m>>
           out == Empty("out", shape, a.dtype)
           l == launch_gemv(a, b, out, m, n)
           E(q) == gemv_element(Before(c, 1), Before(c, 2), q, n)
           w == [q \in Upto(m) |-> E(q)]
           k == gemv(Before(c, 1), Before(c, 2), m, n)
           f == [o \in Indices(shape) |-> Bilinear(c, 1, 2, o)]
<1>1. PlanOf(c) = mv(a, b)
  BY DEF PlanOf, MiniGpuOps, aten_impl
<1>2. /\ PlanOf(c) = Plan(<<out>>, <<l>>) /\ Dim(a) = 2 /\ Dim(b) = 1 /\ Size(a, 2) = Size(b, 1)
      /\ supported_kernel_dtype(a)
  BY <1>1, CheckPassed DEF mv
<1>3. a \in Tensors /\ b \in Tensors /\ 1 \in DOMAIN c.in /\ 2 \in DOMAIN c.in
  BY InputNames DEF TwoTensors
<1>4. Reference(c) = [out |-> ResultOf(shape, f)]
  BY DEF Reference, InPlace, Result, ShapeOf, Size
<1>5. m \in Nat /\ a.dtype \in Dtypes
  BY <1>2, <1>3, SizesAreNat DEF Tensors
<1>6. shape \in Seq(Nat) /\ Len(shape) = 1 /\ shape[1] = m /\ NumelOf(shape) = m
  <2> HIDE DEF m
  <2> QED
    BY <1>5, NumelOfFew
<1>7. ASSUME NEW q \in Upto(m) PROVE E(q) = f[IndexAt(shape, q)]
  <2> HIDE DEF shape
  <2>1. IndexAt(shape, q) = <<q>> /\ <<q>> \in Indices(shape)
    BY <1>6, IndexAtOne, IndexOfOne
  <2>2. E(q) = Bilinear(c, 1, 2, <<q>>)
    BY <1>2, <1>3, VectorProduct
  <2> HIDE DEF E
  <2> QED
    BY <2>1, <2>2
<1> HIDE DEF shape
<1>9. out \in Tensors /\ out.name = "out" /\ out.shape = shape /\ Numel(out) = m /\ Elements(out) = Upto(m)
  BY <1>5, <1>6, OutIs
<1>10. l.pointers = <<a, b, out>> /\ l.kernel[1] = "gemv" /\ l.kernel[2] # "host" /\ l.num.m = m /\ l.num.n = n
  BY <1>2 DEF launch_gemv, Launch, supported_kernel_dtype
<1> HIDE DEF l, out
<1>11. \A x : x[1] = Before(c, 1) /\ x[2] = Before(c, 2) => Stored(l, x) = k
  BY <1>10 DEF Stored, Kernel
<1>12. MapsTo(k, m, w)
  BY DEF MapsTo, gemv, Map, Loop
<1>13. w = [q \in Elements(out) |-> w[q]] /\ \A q \in Elements(out) : w[q] = f[IndexAt(out.shape, q)]
  BY <1>7, <1>9
<1> HIDE DEF w, k, f, m, n
<1> QED
  BY <1>2, <1>3, <1>4, <1>9, <1>10, <1>11, <1>12, <1>13, MapOfTwoSuffices

\* dot: every thread computes the one product and stores it.
LEMMA DotSuffices ==
  ASSUME NEW c, WellFormed(c), c.op = "dot", PlanOf(c).kind = "launching"
  PROVE  Sufficient(c)
<1> DEFINE a == c.in[1]
           b == c.in[2]
           n == Size(a, 1)
           shape == <<>>
           out == Empty("out", shape, a.dtype)
           l == launch_dot(a, b, out, n)
           v == dot_strided(Before(c, 1), 0, 1, Before(c, 2), 0, 1, n)
           w == [q \in Upto(1) |-> v]
           k == dot(Before(c, 1), Before(c, 2), n)
           f == [o \in Indices(shape) |-> Bilinear(c, 1, 2, o)]
<1>1. PlanOf(c) = dot_op(a, b)
  BY DEF PlanOf, MiniGpuOps, aten_impl
<1>2. /\ PlanOf(c) = Plan(<<out>>, <<l>>) /\ Dim(a) = 1 /\ Dim(b) = 1 /\ Size(a, 1) = Size(b, 1)
      /\ supported_kernel_dtype(a)
  BY <1>1, CheckPassed DEF dot_op
<1>3. a \in Tensors /\ b \in Tensors /\ 1 \in DOMAIN c.in /\ 2 \in DOMAIN c.in
  BY InputNames DEF TwoTensors
<1>4. Reference(c) = [out |-> ResultOf(shape, f)]
  BY DEF Reference, InPlace, Result
<1>5. a.dtype \in Dtypes /\ shape \in Seq(Nat) /\ NumelOf(shape) = 1
  BY <1>3, NumelOfFew DEF Tensors
<1>6. ASSUME NEW q \in Upto(1) PROVE v = f[IndexAt(shape, q)]
  <2> HIDE DEF shape
  <2>1. IndexAt(shape, q) \in Indices(shape)
    BY <1>5, IndexAtIs
  <2>2. v = Bilinear(c, 1, 2, IndexAt(shape, q))
    BY <1>2, <1>3, DotProduct
  <2> HIDE DEF v
  <2> QED
    BY <2>1, <2>2
<1> HIDE DEF shape
<1>9. out \in Tensors /\ out.name = "out" /\ out.shape = shape /\ Numel(out) = 1 /\ Elements(out) = Upto(1)
  BY <1>5, OutIs
<1>10. l.pointers = <<a, b, out>> /\ l.kernel[1] = "dot" /\ l.kernel[2] # "host" /\ l.num.n = n
  BY <1>2 DEF launch_dot, Launch, supported_kernel_dtype
<1> HIDE DEF l, out
<1>11. \A x : x[1] = Before(c, 1) /\ x[2] = Before(c, 2) => Stored(l, x) = k
  BY <1>10 DEF Stored, Kernel
<1>12. MapsTo(k, 1, w)
  BY DEF MapsTo, dot, Whole, Upto
<1> HIDE DEF v
<1>13. w = [q \in Elements(out) |-> w[q]] /\ \A q \in Elements(out) : w[q] = f[IndexAt(out.shape, q)]
  BY <1>6, <1>9
<1> HIDE DEF w, k, f, n
<1> QED
  BY <1>2, <1>3, <1>4, <1>9, <1>10, <1>11, <1>12, <1>13, MapOfTwoSuffices

-----------------------------------------------------------------------------
\* addmm: a product of rows and columns, and what is added to it.
LEMMA AddmmSuffices ==
  ASSUME NEW c, WellFormed(c), c.op = "addmm", PlanOf(c).kind = "launching"
  PROVE  Sufficient(c)
<1> DEFINE s == c.in[1]
           a == c.in[2]
           b == c.in[3]
           m == Size(a, 1)
           n == Size(b, 2)
           d == Size(a, 2)
           shape == ShapeOf(c, 1)
           out == EmptyLike("out", s)
           beta == Scalar(c.arg.beta)
           alpha == Scalar(c.arg.alpha)
           l == launch_addmm(s, a, b, out, c.arg.beta, c.arg.alpha, m, n, d)
           E(q) == addmm_element(Before(c, 1), Before(c, 2), Before(c, 3), beta, alpha, q \div n, q % n, n, d)
           w == [q \in Upto(m * n) |-> E(q)]
           k == addmm(Before(c, 1), Before(c, 2), Before(c, 3), beta, alpha, m, n, d)
           f == [o \in Indices(shape) |-> Plus(Times(beta, X(c, 1, o)), Times(alpha, Bilinear(c, 2, 3, o)))]
<1>1. PlanOf(c) = addmm_op(s, a, b, c.arg.beta, c.arg.alpha)
  BY DEF PlanOf, MiniGpuOps, aten_impl
<1>2. /\ PlanOf(c) = Plan(<<out>>, <<l>>) /\ Dim(a) = 2 /\ Dim(b) = 2 /\ Size(a, 2) = Size(b, 1)
      /\ s.shape = <<m, n>>
  BY <1>1, CheckPassed DEF addmm_op
<1>3. /\ s \in Tensors /\ a \in Tensors /\ b \in Tensors
      /\ 1 \in DOMAIN c.in /\ 2 \in DOMAIN c.in /\ 3 \in DOMAIN c.in
  <2>1. c.op \in ThreeTensors /\ c.op \notin OneTensor /\ c.op \notin TwoTensors
    BY DEF OneTensor, TwoTensors, ThreeTensors
  <2>2. Len(c.in) = 3 /\ c.in \in Seq(Tensors)
    BY <2>1 DEF WellFormed
  <2>3. DOMAIN c.in = 1..3
    BY <2>2
  <2> QED
    BY <2>1, <2>3, CallTensors
<1>4. Reference(c) = [out |-> ResultOf(shape, f)]
  BY DEF Reference, InPlace, Result
<1>5. m \in Nat /\ n \in Nat
  BY <1>2, <1>3, SizesAreNat
<1>6. shape \in Seq(Nat) /\ Len(shape) = 2 /\ shape[1] = m /\ shape[2] = n
  <2>1. shape = <<m, n>>
    BY <1>2 DEF ShapeOf
  <2> HIDE DEF m, n, shape
  <2> QED
    BY <1>5, <2>1
<1>7. NumelOf(shape) = m * n
  <2> HIDE DEF shape
  <2> QED
    BY <1>6, NumelOfFew
<1>8. ASSUME NEW q \in Upto(m * n) PROVE E(q) = f[IndexAt(shape, q)]
  <2> DEFINE row == q \div n
             col == q % n
  <2> HIDE DEF m, n
  <2>1. row \in Upto(m) /\ col \in Upto(n) /\ IndexAt(shape, q) = <<row, col>>
    <3> HIDE DEF shape
    <3> QED
      BY <1>6, IndexAtTwo
  <2> HIDE DEF row, col
  <2>2. <<row, col>> \in Indices(shape) /\ Position(<<row, col>>, shape) = row * n + col
    <3> HIDE DEF shape
    <3> QED
      BY <1>6, <2>1, IndexOfTwo
  <2>3. Position(IndexAt(shape, q), shape) = q
    <3> HIDE DEF shape
    <3> QED
      BY <1>6, <1>7, IndexAtIs
  <2>4. At(Before(c, 1), row * n + col) = X(c, 1, <<row, col>>)
    <3>1. row * n + col = q
      BY <2>1, <2>2, <2>3
    <3>2. q \in Elements(c.in[1])
      BY <1>7 DEF Elements, Numel, ShapeOf
    <3>3. At(Before(c, 1), q) = InputAt(c, 1, q)
      BY <3>2, AtBefore
    <3> QED
      BY <2>2, <3>1, <3>3 DEF X
  <2>5. gemm_element(Before(c, 2), Before(c, 3), row, col, n, d) = Bilinear(c, 2, 3, <<row, col>>)
    <3>1. row \in Upto(Size(c.in[2], 1)) /\ col \in Upto(Size(c.in[3], 2))
      BY <2>1 DEF m, n
    <3>2. c.op \in {"mm", "addmm"}
      OBVIOUS
    <3> QED
      BY <1>2, <1>3, <3>1, <3>2, MatrixProduct DEF n
  <2>6. E(q) = Plus(Times(beta, X(c, 1, <<row, col>>)), Times(alpha, Bilinear(c, 2, 3, <<row, col>>)))
    BY <2>4, <2>5 DEF addmm_element, row, col
  <2> HIDE DEF E, shape, beta, alpha
  <2> QED
    BY <2>1, <2>2, <2>6
<1> HIDE DEF shape
<1>9. out \in Tensors /\ out.name = "out" /\ out.shape = shape /\ Numel(out) = m * n /\ Elements(out) = Upto(m * n)
  <2>1. "out" \in NewNames
    BY DEF NewNames
  <2>2. out \in Tensors /\ out.name = "out" /\ out.shape = shape /\ Numel(out) = Numel(s)
    BY <1>3, <2>1, LikeIs DEF shape, ShapeOf
  <2>3. Numel(s) = NumelOf(shape)
    BY DEF Numel, shape, ShapeOf
  <2> HIDE DEF out, m, n
  <2> QED
    BY <1>7, <2>2, <2>3 DEF Elements
<1>10. /\ l.pointers = <<s, a, b, out>> /\ l.kernel[1] = "addmm" /\ l.kernel[2] # "host"
       /\ l.num.m = m /\ l.num.n = n /\ l.num.k = d /\ l.num.beta = beta /\ l.num.alpha = alpha
  BY DEF launch_addmm, Launch
<1> HIDE DEF l, out, beta, alpha
<1>11. \A x : x[1] = Before(c, 1) /\ x[2] = Before(c, 2) /\ x[3] = Before(c, 3) => Stored(l, x) = k
  BY <1>10 DEF Stored, Kernel
<1>12. MapsTo(k, m * n, w)
  BY DEF MapsTo, addmm, Map, Loop
<1>13. w = [q \in Elements(out) |-> w[q]] /\ \A q \in Elements(out) : w[q] = f[IndexAt(out.shape, q)]
  BY <1>8, <1>9
<1> HIDE DEF w, k, f, m, n, d
<1> QED
  BY <1>2, <1>3, <1>4, <1>9, <1>10, <1>11, <1>12, <1>13, MapOfThreeSuffices

\* The shape of linear's result in the reference: the input's, with the number
\* of output features in the last place.
LEMMA FeaturesLast ==
  ASSUME NEW s \in Seq(Nat), Len(s) \in {1, 2}, NEW x \in Nat
  PROVE  SubSeq(s, 1, Len(s) - 1) \o <<x>> = IF Len(s) = 1 THEN <<x>> ELSE <<s[1], x>>
<1> DEFINE p == SubSeq(s, 1, Len(s) - 1)
<1>1. CASE Len(s) = 1
  <2>1. p \in Seq(Nat) /\ Len(p) = 0
    BY <1>1
  <2> HIDE DEF p
  <2>2. p = <<>>
    BY <2>1
  <2>3. <<>> \o <<x>> = <<x>>
    OBVIOUS
  <2> QED
    BY <1>1, <2>2, <2>3 DEF p
<1>2. CASE Len(s) = 2
  <2>1. p \in Seq(Nat) /\ Len(p) = 1 /\ p[1] = s[1] /\ s[1] \in Nat
    BY <1>2
  <2> HIDE DEF p
  <2>2. p = <<s[1]>>
    BY <2>1
  <2>3. <<s[1]>> \o <<x>> = <<s[1], x>>
    BY <2>1, OneByOne
  <2>4. p \o <<x>> = <<s[1], x>>
    BY <2>2, <2>3
  <2>5. Len(s) # 1
    BY <1>2
  <2> QED
    BY <2>4, <2>5 DEF p
<1> QED
  BY <1>1, <1>2

\* A number below the divisor has no quotient.
LEMMA SmallQuotient ==
  ASSUME NEW n \in Nat \ {0}, NEW a \in 0..(n - 1)
  PROVE  a \div n = 0
  BY SMT

\* One element of linear's result, for a matrix of rows and for a single row.
LEMMA LinearElement ==
  ASSUME NEW c, c.op = "linear", c.in[1] \in Tensors, c.in[2] \in Tensors,
         Dim(c.in[1]) \in {1, 2}, Dim(c.in[2]) = 2, Last(c.in[1]) = Size(c.in[2], 2),
         NEW rows \in Nat, rows = (IF Dim(c.in[1]) = 1 THEN 1 ELSE Size(c.in[1], 1)),
         NEW of \in Nat, of = Size(c.in[2], 1),
         NEW shape \in Seq(Nat), Dim(c.in[1]) = 1 => Len(shape) = 1 /\ shape[1] = of,
         Dim(c.in[1]) = 2 => Len(shape) = 2 /\ shape[1] = rows /\ shape[2] = of,
         NEW q \in Upto(rows * of)
  PROVE  /\ IndexAt(shape, q) \in Indices(shape)
         /\ IndexAt(shape, q)[Len(IndexAt(shape, q))] = q % of
         /\ q % of \in Upto(of)
         /\ linear_element(Before(c, 1), Before(c, 2), q \div of, q % of, of, Size(c.in[2], 2))
              = Bilinear(c, 1, 2, IndexAt(shape, q))
<1>1. CASE Dim(c.in[1]) = 1
  <2>1. rows = 1 /\ rows * of = of
    BY <1>1
  <2>2. q \in Upto(of) /\ q \in 0..(of - 1)
    BY <2>1 DEF Upto
  <2>3. q % of = q /\ q \div of = 0
    <3>1. of \in Nat \ {0} /\ q \in 0..(of - 1)
      BY <2>2
    <3> QED
      BY <3>1, SmallRemainder, SmallQuotient
  <2>5. Len(shape) = 1 /\ shape[1] = of
    BY <1>1
  <2>6. IndexAt(shape, q) = <<q>> /\ <<q>> \in Indices(shape)
    BY <2>2, <2>5, IndexAtOne, IndexOfOne
  <2>7. Size(c.in[1], 1) = Size(c.in[2], 2)
    BY <1>1 DEF Last, Size, Dim
  <2>8. linear_element(Before(c, 1), Before(c, 2), 0, q, Size(c.in[2], 1), Size(c.in[1], 1)) = Bilinear(c, 1, 2, <<q>>)
    BY <1>1, <2>2, <2>7, RowProduct
  <2>9. Len(<<q>>) = 1 /\ <<q>>[1] = q
    OBVIOUS
  <2> QED
    BY <2>2, <2>3, <2>6, <2>7, <2>8, <2>9
<1>2. CASE Dim(c.in[1]) = 2
  <2> DEFINE row == q \div of
             col == q % of
  <2>2. Len(shape) = 2 /\ shape[1] = rows /\ shape[2] = of
    BY <1>2
  <2>3. row \in Upto(rows) /\ col \in Upto(of) /\ IndexAt(shape, q) = <<row, col>>
    BY <2>2, IndexAtTwo
  <2> HIDE DEF row, col
  <2>4. <<row, col>> \in Indices(shape)
    BY <2>2, <2>3, IndexOfTwo
  <2>5. Size(c.in[1], 2) = Size(c.in[2], 2) /\ rows = Size(c.in[1], 1)
    BY <1>2 DEF Last, Size, Dim
  <2>6. linear_element(Before(c, 1), Before(c, 2), row, col, Size(c.in[2], 1), Size(c.in[1], 2)) = Bilinear(c, 1, 2, <<row, col>>)
    <3>1. row \in Upto(Size(c.in[1], 1)) /\ col \in Upto(Size(c.in[2], 1))
      BY <2>3, <2>5
    <3> QED
      BY <1>2, <2>5, <3>1, RowsProduct
  <2>7. Len(<<row, col>>) = 2 /\ <<row, col>>[2] = col
    OBVIOUS
  <2> QED
    BY <2>3, <2>4, <2>5, <2>6, <2>7 DEF row, col
<1> QED
  BY <1>1, <1>2

\* A sequence of one item is not empty.
LEMMA OneItem ==
  ASSUME NEW S, NEW s \in Seq(S), Len(s) = 1
  PROVE  s # <<>> /\ 1 \in DOMAIN s
<1>1. DOMAIN s = 1..1 /\ Len(<<>>) = 0
  OBVIOUS
<1>2. 1 \in DOMAIN s
  BY <1>1
<1>3. s # <<>>
  BY <1>1
<1> QED
  BY <1>2, <1>3

\* linear, with a bias and without.
LEMMA LinearSuffices ==
  ASSUME NEW c, WellFormed(c), c.op = "linear", PlanOf(c).kind = "launching"
  PROVE  Sufficient(c)
<1> DEFINE a == c.in[1]
           b == c.in[2]
           rows == IF Dim(a) = 1 THEN 1 ELSE Size(a, 1)
           of == Size(b, 1)
           if == Size(b, 2)
           total_ == rows * of
           shape == IF Dim(a) = 1 THEN <<of>> ELSE <<rows, of>>
           out == Empty("out", shape, a.dtype)
           plain == launch_linear(a, b, out, total_, of, if)
           biased == launch_linear_bias(a, b, c.in[3], out, total_, of, if)
           l == IF BiasOf(c) = <<>> THEN plain ELSE launch_linear_bias(a, b, BiasOf(c)[1], out, total_, of, if)
<1>1. PlanOf(c) = linear_op(a, b, BiasOf(c))
  BY DEF PlanOf, MiniGpuOps, aten_impl
<1>2. /\ PlanOf(c) = Plan(<<out>>, <<l>>) /\ Dim(a) \in {1, 2} /\ Dim(b) = 2 /\ Last(a) = if
      /\ supported_kernel_dtype(a) /\ BiasFits(BiasOf(c), b, a)
  <2> DEFINE ok == /\ require_minigpu_contiguous(a) /\ require_minigpu_contiguous(b)
                   /\ Dim(a) \in {1, 2} /\ Dim(b) = 2 /\ SameDtype(a, b) /\ Last(a) = if
                   /\ supported_kernel_dtype(a) /\ BiasFits(BiasOf(c), b, a)
  <2>1. PlanOf(c) = Check(ok, Plan(<<out>>, <<l>>))
    BY <1>1 DEF linear_op
  <2>2. ok /\ PlanOf(c) = Plan(<<out>>, <<l>>)
    <3> HIDE DEF ok, out, l
    <3> QED
      BY <2>1, CheckPassed
  <2> QED
    BY <2>2
<1>3. a \in Tensors /\ b \in Tensors /\ 1 \in DOMAIN c.in /\ 2 \in DOMAIN c.in
      /\ Len(c.in) \in {2, 3} /\ c.in \in Seq(Tensors)
  <2>1. c.op \notin OneTensor /\ c.op \notin TwoTensors /\ c.op \notin ThreeTensors
    BY DEF OneTensor, TwoTensors, ThreeTensors
  <2>2. Len(c.in) \in {2, 3} /\ c.in \in Seq(Tensors)
    BY <2>1 DEF WellFormed
  <2> QED
    BY <2>1, <2>2, CallTensors
<1>4. rows \in Nat /\ of \in Nat /\ a.dtype \in Dtypes
  BY <1>2, <1>3, SizesAreNat DEF Tensors
<1> DEFINE E(q) == linear_element(Before(c, 1), Before(c, 2), q \div of, q % of, of, if)
           f == [o \in Indices(shape) |-> WithBias(c, o[Len(o)], Bilinear(c, 1, 2, o))]
<1>5. /\ shape \in Seq(Nat) /\ NumelOf(shape) = total_
      /\ Dim(a) = 1 => Len(shape) = 1 /\ shape[1] = of
      /\ Dim(a) = 2 => Len(shape) = 2 /\ shape[1] = rows /\ shape[2] = of
  <2> HIDE DEF of
  <2>1. CASE Dim(a) = 1
    <3>1. rows = 1 /\ shape = <<of>>
      BY <2>1
    <3> HIDE DEF shape, rows
    <3>2. rows * of = of
      BY <1>4, <3>1
    <3>3. NumelOf(<<of>>) = of
      BY <1>4, NumelOfFew
    <3>4. shape \in Seq(Nat) /\ Len(shape) = 1 /\ shape[1] = of
      BY <1>4, <3>1
    <3> QED
      BY <2>1, <3>1, <3>2, <3>3, <3>4
  <2>2. CASE Dim(a) # 1
    <3>1. shape = <<rows, of>>
      BY <2>2
    <3> HIDE DEF shape, rows
    <3>2. shape \in Seq(Nat) /\ Len(shape) = 2 /\ shape[1] = rows /\ shape[2] = of
      BY <1>4, <3>1
    <3> QED
      BY <2>2, <3>2, NumelOfFew
  <2> QED
    BY <2>1, <2>2
<1>6. Reference(c) = [out |-> ResultOf(shape, f)]
  <2> DEFINE given == SubSeq(ShapeOf(c, 1), 1, Len(ShapeOf(c, 1)) - 1) \o <<ShapeOf(c, 2)[1]>>
             g == [o \in Indices(given) |-> WithBias(c, o[Len(o)], Bilinear(c, 1, 2, o))]
  <2>1. Reference(c) = [out |-> ResultOf(given, g)]
    BY DEF Reference, InPlace, Result
  <2>2. given = shape
    <3> DEFINE s == ShapeOf(c, 1)
    <3>1. s \in Seq(Nat) /\ Len(s) = Dim(a) /\ (Len(s) # 1 => s[1] = rows) /\ ShapeOf(c, 2)[1] = of
      BY <1>3 DEF ShapeOf, Dim, Size, Tensors
    <3> HIDE DEF s, of
    <3>2. SubSeq(s, 1, Len(s) - 1) \o <<of>> = IF Len(s) = 1 THEN <<of>> ELSE <<s[1], of>>
      BY <1>2, <1>4, <3>1, FeaturesLast
    <3> QED
      BY <3>1, <3>2 DEF s
  <2> HIDE DEF given, shape
  <2> QED
    BY <2>1, <2>2
<1>7. ASSUME NEW q \in Upto(total_)
      PROVE  /\ IndexAt(shape, q) \in Indices(shape)
             /\ IndexAt(shape, q)[Len(IndexAt(shape, q))] = q % of /\ q % of \in Upto(of)
             /\ E(q) = Bilinear(c, 1, 2, IndexAt(shape, q))
  <2>1. /\ rows = (IF Dim(c.in[1]) = 1 THEN 1 ELSE Size(c.in[1], 1)) /\ of = Size(c.in[2], 1)
        /\ if = Size(c.in[2], 2)
        /\ Last(c.in[1]) = Size(c.in[2], 2) /\ c.in[1] \in Tensors /\ c.in[2] \in Tensors
        /\ Dim(c.in[1]) \in {1, 2} /\ Dim(c.in[2]) = 2
    BY <1>2, <1>3
  <2> HIDE DEF rows, of, shape, if
  <2> QED
    BY <1>4, <1>5, <2>1, LinearElement
<1>8. ASSUME NEW q \in Upto(total_) PROVE f[IndexAt(shape, q)] = WithBias(c, q % of, E(q))
  <2>1. f[IndexAt(shape, q)] = WithBias(c, IndexAt(shape, q)[Len(IndexAt(shape, q))], Bilinear(c, 1, 2, IndexAt(shape, q)))
    <3> HIDE DEF shape
    <3> QED
      BY <1>7
  <2> HIDE DEF f, shape, E, of
  <2> QED
    BY <1>7, <2>1
<1> HIDE DEF shape
<1>9. out \in Tensors /\ out.name = "out" /\ out.shape = shape /\ Numel(out) = total_ /\ Elements(out) = Upto(total_)
  <2> HIDE DEF total_
  <2> QED
    BY <1>4, <1>5, OutIs
<1> HIDE DEF out, rows, of, if
<1>10. CASE Len(c.in) = 2
  <2> DEFINE w == [q \in Upto(total_) |-> E(q)]
             k == linear(Before(c, 1), Before(c, 2), total_, of, if)
  <2>1. BiasOf(c) = <<>>
    BY <1>3, <1>10 DEF BiasOf
  <2>2. PlanOf(c) = Plan(<<out>>, <<plain>>)
    BY <1>2, <2>1
  <2>3. /\ plain.pointers = <<a, b, out>> /\ plain.kernel[1] = "linear" /\ plain.kernel[2] # "host"
        /\ plain.num.n = total_ /\ plain.num.out_f = of /\ plain.num.in_f = if
    BY <1>2 DEF launch_linear, Launch, supported_kernel_dtype
  <2> HIDE DEF plain, total_
  <2>4. \A x : x[1] = Before(c, 1) /\ x[2] = Before(c, 2) => Stored(plain, x) = k
    BY <2>3 DEF Stored, Kernel
  <2>5. MapsTo(k, total_, w)
    BY DEF MapsTo, linear, Map, Loop
  <2>6. \A q \in Upto(total_) : f[IndexAt(shape, q)] = E(q)
    BY <1>8, <1>10 DEF WithBias
  <2> HIDE DEF E, f
  <2>7. w = [q \in Elements(out) |-> w[q]] /\ \A q \in Elements(out) : w[q] = f[IndexAt(out.shape, q)]
    BY <1>9, <2>6
  <2> HIDE DEF w, k
  <2>8. Reference(c) = [out |-> ResultOf(out.shape, f)] /\ MapsTo(k, Numel(out), w)
    BY <1>6, <1>9, <2>5
  <2>9. out \in Tensors /\ out.name = "out" /\ 1 \in DOMAIN c.in /\ 2 \in DOMAIN c.in
    BY <1>3, <1>9
  <2> QED
    BY <2>2, <2>3, <2>4, <2>7, <2>8, <2>9, MapOfTwoSuffices
<1>11. CASE Len(c.in) = 3
  <2> DEFINE W(q) == Plus(At(Before(c, 3), q % of), E(q))
             w == [q \in Upto(total_) |-> W(q)]
             k == linear_bias(Before(c, 1), Before(c, 2), Before(c, 3), total_, of, if)
  <2>1. BiasOf(c) # <<>> /\ BiasOf(c)[1] = c.in[3] /\ 1 \in DOMAIN BiasOf(c) /\ 3 \in DOMAIN c.in
    <3> DEFINE s == SubSeq(c.in, 3, 3)
    <3>1. s \in Seq(Tensors) /\ Len(s) = 1 /\ s[1] = c.in[3]
      BY <1>3, <1>11
    <3>2. BiasOf(c) = s
      BY <1>11 DEF BiasOf
    <3> HIDE DEF s
    <3>3. s # <<>> /\ 1 \in DOMAIN s
      BY Zenon, <3>1, OneItem
    <3>4. 3 \in DOMAIN c.in
      BY <1>3, <1>11
    <3> QED
      BY <3>1, <3>2, <3>3, <3>4
  <2>2. PlanOf(c) = Plan(<<out>>, <<biased>>)
    BY <1>2, <2>1
  <2>3. /\ biased.pointers = <<a, b, c.in[3], out>> /\ biased.kernel[1] = "linear_bias" /\ biased.kernel[2] # "host"
        /\ biased.num.n = total_ /\ biased.num.out_f = of /\ biased.num.in_f = if
    BY <1>2 DEF launch_linear_bias, Launch, supported_kernel_dtype
  <2>4. c.in[3].shape = <<of>> /\ c.in[3] \in Tensors
    BY <1>2, <1>3, <2>1 DEF BiasFits, of
  <2> HIDE DEF biased, total_
  <2>5. \A x : x[1] = Before(c, 1) /\ x[2] = Before(c, 2) /\ x[3] = Before(c, 3) => Stored(biased, x) = k
    BY <2>3 DEF Stored, Kernel
  <2>6. MapsTo(k, total_, w)
    BY DEF MapsTo, linear_bias, Map, Loop
  <2>7. ASSUME NEW q \in Upto(total_) PROVE f[IndexAt(shape, q)] = W(q)
    <3> DEFINE col == q % of
    <3>1. col \in Upto(of)
      BY <1>7
    <3> HIDE DEF col
    <3>2. ShapeOf(c, 3) \in Seq(Nat) /\ Len(ShapeOf(c, 3)) = 1 /\ ShapeOf(c, 3)[1] = of
      BY <1>4, <2>4 DEF ShapeOf
    <3>3. Position(<<col>>, ShapeOf(c, 3)) = col
      BY <3>1, <3>2, IndexOfOne
    <3>4. col \in Elements(c.in[3])
      BY <1>4, <2>4, <3>1, NumelOfFew DEF Elements, Numel
    <3>5. At(Before(c, 3), col) = X(c, 3, <<col>>)
      BY <3>3, <3>4, AtBefore DEF X
    <3>6. WithBias(c, col, E(q)) = Plus(X(c, 3, <<col>>), E(q))
      BY <1>11 DEF WithBias
    <3>7. f[IndexAt(shape, q)] = WithBias(c, col, E(q))
      BY <1>8 DEF col
    <3>8. W(q) = Plus(At(Before(c, 3), col), E(q))
      BY DEF col
    <3> HIDE DEF E, f, W
    <3> QED
      BY <3>5, <3>6, <3>7, <3>8
  <2> HIDE DEF W, f
  <2>8. w = [q \in Elements(out) |-> w[q]] /\ \A q \in Elements(out) : w[q] = f[IndexAt(out.shape, q)]
    BY <1>9, <2>7
  <2> HIDE DEF w, k
  <2>9. Reference(c) = [out |-> ResultOf(out.shape, f)] /\ MapsTo(k, Numel(out), w)
    BY <1>6, <1>9, <2>6
  <2>10. out \in Tensors /\ out.name = "out" /\ 1 \in DOMAIN c.in /\ 2 \in DOMAIN c.in /\ 3 \in DOMAIN c.in
    BY <1>3, <1>9, <2>1
  <2>11. biased.pointers = <<c.in[1], c.in[2], c.in[3], out>>
    BY <2>3
  <2> HIDE DEF f, a, b
  <2> QED
    BY <2>2, <2>5, <2>8, <2>9, <2>10, <2>11, MapOfThreeSuffices
<1> QED
  BY <1>3, <1>10, <1>11

-----------------------------------------------------------------------------
\* The positions of a tensor and its indices are one to one.
LEMMA PositionsAndIndices ==
  ASSUME NEW shape \in Seq(Nat)
  PROVE  /\ [q \in Upto(NumelOf(shape)) |-> IndexAt(shape, q)] \in Bijection(Upto(NumelOf(shape)), Indices(shape))
         /\ IsFiniteSet(Upto(NumelOf(shape))) /\ Cardinality(Upto(NumelOf(shape))) = NumelOf(shape)
<1> DEFINE S == Upto(NumelOf(shape))
           h == [q \in S |-> IndexAt(shape, q)]
<1>1. \A q \in S : IndexAt(shape, q) \in Indices(shape) /\ Position(IndexAt(shape, q), shape) = q
  BY IndexAtIs
<1>2. \A ix \in Indices(shape) : Position(ix, shape) \in S /\ IndexAt(shape, Position(ix, shape)) = ix
  BY PositionInside, IndexAtOf
<1>3. IsFiniteSet(S) /\ Cardinality(S) = NumelOf(shape)
  <2>1. NumelOf(shape) \in Nat
    BY NumelIsNat
  <2> DEFINE n == NumelOf(shape)
  <2> HIDE DEF n
  <2>2. IsFiniteSet(0..(n - 1)) /\ Cardinality(0..(n - 1)) = n
    <3>1. n \in Nat
      BY <2>1 DEF n
    <3>2. 0 \in Int /\ n - 1 \in Int
      BY <3>1
    <3>3. IsFiniteSet(0..(n - 1)) /\ Cardinality(0..(n - 1)) = IF 0 > n - 1 THEN 0 ELSE (n - 1) - 0 + 1
      BY <3>2, FS_Interval
    <3> QED
      BY <3>1, <3>3
  <2> QED
    BY <2>2 DEF n, Upto
<1> HIDE DEF S
<1>4. h \in [S -> Indices(shape)]
  BY <1>1
<1>5. \A q, r \in S : h[q] = h[r] => q = r
  BY <1>1
<1>6. \A ix \in Indices(shape) : \E q \in S : h[q] = ix
  BY <1>2
<1> HIDE DEF h
<1>7. h \in Bijection(S, Indices(shape))
  BY <1>4, <1>5, <1>6 DEF Bijection, Injection, Surjection, IsInjective
<1> QED
  BY <1>3, <1>7 DEF h, S

\* A tensor has as many indices as elements.
LEMMA AsManyIndices ==
  ASSUME NEW shape \in Seq(Nat)
  PROVE  Cardinality(Indices(shape)) = NumelOf(shape)
<1>1. ExistsBijection(Upto(NumelOf(shape)), Indices(shape))
  BY PositionsAndIndices DEF ExistsBijection
<1> QED
  BY <1>1, PositionsAndIndices, FS_Bijection

\* A bag of all elements, collected by position and by index.
LEMMA BagInOrder ==
  ASSUME NEW shape \in Seq(Nat), NEW f, DOMAIN f = Upto(NumelOf(shape)), NEW g, DOMAIN g = Indices(shape),
         \A q \in Upto(NumelOf(shape)) : f[q] = g[IndexAt(shape, q)]
  PROVE  BagOf(f) = BagOf(g)
<1> DEFINE S == Upto(NumelOf(shape))
           h == [q \in S |-> IndexAt(shape, q)]
<1>1. h \in Bijection(S, Indices(shape)) /\ IsFiniteSet(S)
  BY PositionsAndIndices
<1>2. \A q \in S : f[q] = g[h[q]]
  OBVIOUS
<1> HIDE DEF h
<1> QED
  BY <1>1, <1>2, SameBag

\* A shape of ones has one element.
LEMMA OnesAreOne ==
  ASSUME NEW n \in Nat
  PROVE  [i \in 1..n |-> 1] \in Seq(Nat) /\ NumelOf([i \in 1..n |-> 1]) = 1
<1> DEFINE ones == [i \in 1..n |-> 1]
<1>1. ones \in Seq(Nat) /\ Len(ones) = n /\ \A d \in 1..n : ones[d] = 1
  <2>1. ones \in [1..n -> Nat]
    OBVIOUS
  <2> QED
    BY <2>1
<1> HIDE DEF ones
<1>2. PICK p \in [0..n -> Nat] :
        p[0] = 1 /\ (\A d \in 1..n : p[d] = p[d - 1] * ones[d]) /\ NumelOf(ones) = p[n]
  BY <1>1, NumelSteps
<1> DEFINE S == {d \in Nat : d <= n => p[d] = 1}
<1>3. 0 \in S
  BY <1>2
<1>4. ASSUME NEW d \in S PROVE d + 1 \in S
  <2>1. CASE d + 1 <= n
    <3>1. p[d] = 1 /\ p[d + 1] = p[d] * ones[d + 1] /\ ones[d + 1] = 1
      BY <1>1, <1>2, <2>1
    <3> QED
      BY <3>1
  <2> QED
    BY <2>1
<1>5. n \in S
  <2>1. S \in SUBSET Nat
    OBVIOUS
  <2> HIDE DEF S
  <2>2. \A d \in Nat : d \in S
    BY <1>3, <1>4, <2>1, AllNumbers
  <2> QED
    BY <2>2
<1> QED
  BY <1>1, <1>2, <1>5 DEF ones

-----------------------------------------------------------------------------
\* A plan of one launch whose threads compute the one value that is asked for.
LEMMA OneValueSuffices ==
  ASSUME NEW c, NEW out, NEW l, NEW v, OneLoop(c, out, l, Whole(v)), NumelOf(out.shape) = 1,
         Reference(c) = [out |-> ResultOf(out.shape, [ix \in Indices(out.shape) |-> v])]
  PROVE  Sufficient(c)
<1>1. out.shape \in Seq(Nat) /\ Numel(out) = 1 /\ Elements(out) = Upto(NumelOf(out.shape))
  BY DEF OneLoop, Tensors, Numel, Elements
<1> DEFINE shape == out.shape
           f == [ix \in Indices(shape) |-> v]
<1> HIDE DEF shape
<1>2. \A q \in Upto(NumelOf(shape)) : f[IndexAt(shape, q)] = v
  BY <1>1, IndexAtIs DEF shape
<1>3. ResultOf(shape, f) = [shape |-> shape, flat |-> [q \in Upto(NumelOf(shape)) |-> f[IndexAt(shape, q)]]]
  BY <1>1, ResultIs DEF shape
<1> HIDE DEF f
<1>4. ResultOf(shape, f) = [shape |-> shape, flat |-> [e \in Upto(NumelOf(shape)) |-> v]]
  BY <1>2, <1>3
<1>5. Stores(Whole(v), v)
  BY DEF Stores, Whole
<1> QED
  BY <1>1, <1>4, <1>5, WholeSuffices DEF shape, f

-----------------------------------------------------------------------------
\* All elements of the first argument, by position and by index.
Listed(c)  == [q \in Upto(Numel(c.in[1])) |-> At(Before(c, 1), q)]
Indexed(c) == [ix \in Indices(ShapeOf(c, 1)) |-> X(c, 1, ix)]

\* A position of an argument holds what its index does.
LEMMA HeldAt ==
  ASSUME NEW c, NEW k, c.in[k] \in Tensors, NEW q \in Upto(Numel(c.in[k]))
  PROVE  At(Before(c, k), q) = X(c, k, IndexAt(ShapeOf(c, k), q))
<1>1. ShapeOf(c, k) \in Seq(Nat) /\ Numel(c.in[k]) = NumelOf(ShapeOf(c, k)) /\ q \in Elements(c.in[k])
  BY DEF Tensors, ShapeOf, Numel, Elements
<1>2. Position(IndexAt(ShapeOf(c, k), q), ShapeOf(c, k)) = q
  BY <1>1, IndexAtIs
<1>3. At(Before(c, k), q) = InputAt(c, k, q)
  BY <1>1, AtBefore
<1> QED
  BY <1>2, <1>3 DEF X

\* They make one bag and one set.
LEMMA ListedIsIndexed ==
  ASSUME NEW c, c.in[1] \in Tensors
  PROVE  /\ BagOf(Listed(c)) = BagOf(Indexed(c))
         /\ {At(Before(c, 1), q) : q \in Upto(Numel(c.in[1]))} = {X(c, 1, ix) : ix \in Indices(ShapeOf(c, 1))}
         /\ ResultOf(ShapeOf(c, 1), Indexed(c)).flat = Listed(c)
<1> DEFINE shape == ShapeOf(c, 1)
           f == Listed(c)
           g == Indexed(c)
<1>1. shape \in Seq(Nat) /\ Numel(c.in[1]) = NumelOf(shape)
  BY DEF Tensors, ShapeOf, Numel
<1>2. \A q \in Upto(NumelOf(shape)) : IndexAt(shape, q) \in Indices(shape)
  BY <1>1, IndexAtIs
<1>3. \A q \in Upto(NumelOf(shape)) : f[q] = At(Before(c, 1), q) /\ f[q] = g[IndexAt(shape, q)]
  BY <1>1, <1>2, HeldAt DEF Listed, Indexed
<1>4. DOMAIN f = Upto(NumelOf(shape)) /\ DOMAIN g = Indices(shape)
      /\ \A ix \in Indices(shape) : g[ix] = X(c, 1, ix)
  BY <1>1 DEF Listed, Indexed
<1>5. f = [q \in Upto(NumelOf(shape)) |-> f[q]]
  BY <1>1 DEF Listed
<1> HIDE DEF f, g, shape
<1>6. BagOf(f) = BagOf(g)
  BY <1>1, <1>3, <1>4, BagInOrder
<1>7. \A ix \in Indices(shape) : Position(ix, shape) \in Upto(NumelOf(shape)) /\ IndexAt(shape, Position(ix, shape)) = ix
  BY <1>1, PositionInside, IndexAtOf
<1>8. {At(Before(c, 1), q) : q \in Upto(NumelOf(shape))} = {X(c, 1, ix) : ix \in Indices(shape)}
  <2>1. \A q \in Upto(NumelOf(shape)) : At(Before(c, 1), q) = X(c, 1, IndexAt(shape, q))
    BY <1>2, <1>3, <1>4
  <2> QED
    BY <1>2, <1>7, <2>1
<1>9. ResultOf(shape, g).flat = f
  <2>1. \A q \in Upto(NumelOf(shape)) : f[q] = g[IndexAt(shape, q)]
    BY <1>3
  <2>2. shape \in Seq(Nat)
    BY <1>1
  <2>3. ResultOf(shape, g) = [shape |-> shape, flat |-> f]
    BY <1>5, <2>1, <2>2, ResultByPosition
  <2> QED
    BY <2>3
<1> QED
  BY <1>1, <1>6, <1>8, <1>9 DEF f, g, shape

\* What a reduction is of: the value that every thread of its kernel computes.
Reduced(c) ==
  CASE c.op = "sum"  -> <<"sum", BagOf(Listed(c))>>
    [] c.op = "mean" -> Times(<<"sum", BagOf(Listed(c))>>, <<"1/", Numel(c.in[1])>>)
    [] c.op = "amax" -> <<"max", {At(Before(c, 1), q) : q \in Upto(Numel(c.in[1]))}>>
    [] c.op = "amin" -> <<"min", {At(Before(c, 1), q) : q \in Upto(Numel(c.in[1]))}>>
    [] OTHER -> <<c.op, Listed(c)>>
Reductions == {"sum", "mean", "amax", "amin", "argmax", "argmin"}

\* The shape of its result.
ReducedShape(c) == scalar_or_keepdim_shape(c.in[1], c.arg.keepdim)

\* It has one element.
LEMMA ReducedShapeIs ==
  ASSUME NEW c, WellFormed(c), c.op \in Reductions
  PROVE  /\ ReducedShape(c) \in Seq(Nat) /\ NumelOf(ReducedShape(c)) = 1
         /\ ReducedShape(c) = IF "keepdim" \in DOMAIN c.arg /\ c.arg.keepdim
                              THEN [d \in DOMAIN ShapeOf(c, 1) |-> 1] ELSE <<>>
<1>1. c.in[1] \in Tensors /\ "keepdim" \in DOMAIN c.arg /\ c.arg.keepdim \in BOOLEAN
  BY CallTensors DEF WellFormed, Reductions
<1>2. Dim(c.in[1]) \in Nat /\ DOMAIN ShapeOf(c, 1) = 1..Dim(c.in[1])
  BY <1>1 DEF Dim, ShapeOf, Tensors
<1>3. CASE c.arg.keepdim = TRUE
  <2>1. ReducedShape(c) = [i \in 1..Dim(c.in[1]) |-> 1]
    BY <1>3 DEF ReducedShape, scalar_or_keepdim_shape
  <2> QED
    BY <1>1, <1>2, <1>3, <2>1, OnesAreOne
<1>4. CASE c.arg.keepdim = FALSE
  <2>1. ReducedShape(c) = <<>>
    BY <1>4 DEF ReducedShape, scalar_or_keepdim_shape
  <2>2. <<>> \in Seq(Nat)
    OBVIOUS
  <2> QED
    BY <1>4, <2>1, <2>2, NumelOfFew
<1> QED
  BY <1>1, <1>3, <1>4

\* It is what the reference asks for.
LEMMA ReducedIsAsked ==
  ASSUME NEW c, WellFormed(c), c.op \in Reductions
  PROVE  Reference(c) = [out |-> ResultOf(ReducedShape(c), [ix \in Indices(ReducedShape(c)) |-> Reduced(c)])]
<1> DEFINE shape == IF "keepdim" \in DOMAIN c.arg /\ c.arg.keepdim THEN [d \in DOMAIN ShapeOf(c, 1) |-> 1] ELSE <<>>
           s == <<"sum", BagOf(Indexed(c))>>
           A == {X(c, 1, ix) : ix \in Indices(ShapeOf(c, 1))}
           Makes(v) == [out |-> ResultOf(shape, [ix \in Indices(shape) |-> v])]
<1>1. shape = ReducedShape(c)
  BY ReducedShapeIs
<1>2. c.in[1] \in Tensors
  BY CallTensors
<1>3. BagOf(Listed(c)) = BagOf(Indexed(c)) /\ ResultOf(ShapeOf(c, 1), Indexed(c)).flat = Listed(c)
      /\ {At(Before(c, 1), q) : q \in Upto(Numel(c.in[1]))} = A
  BY <1>2, ListedIsIndexed
<1>4. CASE c.op = "sum"
  <2>1. Reference(c) = Makes(s)
    BY <1>4 DEF Reference, InPlace, OverAll, Result, SumOf, Indexed, AllOf
  <2> HIDE DEF shape
  <2> QED
    BY <1>1, <1>3, <1>4, <2>1 DEF Reduced
<1>5. CASE c.op = "mean"
  <2>1. Reference(c) = Makes(Times(s, <<"1/", CountOf(c, 1)>>))
    BY <1>5 DEF Reference, InPlace, OverAll, Result, SumOf, Indexed, AllOf
  <2>2. CountOf(c, 1) = Numel(c.in[1])
    BY <1>2, AsManyIndices DEF CountOf, AllOf, Numel, ShapeOf, Tensors
  <2> HIDE DEF shape
  <2> QED
    BY <1>1, <1>3, <1>5, <2>1, <2>2 DEF Reduced
<1>6. CASE c.op = "amax"
  <2>1. Reference(c) = Makes(<<"max", A>>)
    BY <1>6 DEF Reference, InPlace, OverAll, Result, MostOf, AllOf
  <2> HIDE DEF shape, A
  <2> QED
    BY <1>1, <1>3, <1>6, <2>1 DEF Reduced
<1>7. CASE c.op = "amin"
  <2>1. Reference(c) = Makes(<<"min", A>>)
    BY <1>7 DEF Reference, InPlace, OverAll, Result, LeastOf, AllOf
  <2> HIDE DEF shape, A
  <2> QED
    BY <1>1, <1>3, <1>7, <2>1 DEF Reduced
<1>8. CASE c.op \in {"argmax", "argmin"}
  <2>1. Reference(c) = Makes(<<c.op, ResultOf(ShapeOf(c, 1), Indexed(c)).flat>>)
    BY <1>8 DEF Reference, InPlace, OverAll, Flattened, Result, Indexed
  <2>2. Reduced(c) = <<c.op, Listed(c)>>
    BY <1>8 DEF Reduced
  <2> HIDE DEF shape
  <2> QED
    BY <1>1, <1>3, <2>1, <2>2
<1> QED
  BY <1>4, <1>5, <1>6, <1>7, <1>8 DEF Reductions

\* sum, mean, amax, amin, argmax, argmin.
LEMMA ReductionsSuffice ==
  ASSUME NEW c, WellFormed(c), c.op \in Reductions, PlanOf(c).kind = "launching"
  PROVE  Sufficient(c)
<1> DEFINE a == c.in[1]
           shape == ReducedShape(c)
           n == Numel(a)
           num == IF c.op = "mean" THEN [n |-> n, inv_n |-> OneOver(n)] ELSE [n |-> n]
           dtype == IF c.op \in {"argmax", "argmin"} THEN "i32" ELSE a.dtype
           out == Empty("out", shape, dtype)
           l == LaunchFp32(c.op, <<a, out>>, num)
<1>1. a \in Tensors /\ 1 \in DOMAIN c.in
  BY InputNames, CallTensors
<1>2. PlanOf(c) = Plan(<<out>>, <<l>>)
  <2>1. CASE c.op \in {"sum", "amax", "amin"}
    <3>1. PlanOf(c) = Check(dims_cover_all(c.arg.dims, Dim(a)), run_global_reduction_kernel(c.op, a, c.arg.keepdim))
      BY <2>1 DEF PlanOf, MiniGpuOps, aten_impl, sum_dim, amax_op, amin_op
    <3>2. PlanOf(c) = run_global_reduction_kernel(c.op, a, c.arg.keepdim)
      BY <3>1, CheckPassed
    <3> QED
      BY <2>1, <3>2, CheckPassed DEF run_global_reduction_kernel, ReducedShape
  <2>2. CASE c.op = "mean"
    <3>1. PlanOf(c) = Check(dims_cover_all(c.arg.dims, Dim(a)), run_mean_kernel(a, c.arg.keepdim))
      BY <2>2 DEF PlanOf, MiniGpuOps, aten_impl, mean_dim
    <3>2. PlanOf(c) = run_mean_kernel(a, c.arg.keepdim)
      BY <3>1, CheckPassed
    <3> QED
      BY <2>2, <3>2, CheckPassed DEF run_mean_kernel, ReducedShape
  <2>3. CASE c.op \in {"argmax", "argmin"}
    <3>1. PlanOf(c) = argmax_op(c.op, a, c.arg.dims, c.arg.keepdim)
      BY <2>3 DEF PlanOf, MiniGpuOps, aten_impl
    <3> QED
      BY <2>3, <3>1, CheckPassed DEF argmax_op, ReducedShape
  <2> QED
    BY <2>1, <2>2, <2>3 DEF Reductions
<1>3. shape \in Seq(Nat) /\ NumelOf(shape) = 1
  BY ReducedShapeIs
<1>4. dtype \in Dtypes
  BY <1>1 DEF Tensors, Dtypes, SixTypes
<1> HIDE DEF shape, dtype
<1>5. out \in Tensors /\ out.name = "out" /\ out.shape = shape
  BY <1>3, <1>4, OutIs
<1>6. l.pointers = <<a, out>> /\ l.kernel[1] = c.op /\ l.kernel[2] # "host"
      /\ l.num.n = n /\ (c.op = "mean" => l.num.inv_n = OneOver(n))
  BY DEF LaunchFp32, Launch
<1> HIDE DEF l, out
<1>7. \A x : x[1] = Before(c, 1) => Stored(l, x) = Whole(Reduced(c))
  <2> SUFFICES ASSUME NEW x, x[1] = Before(c, 1) PROVE Stored(l, x) = Whole(Reduced(c))
    OBVIOUS
  <2>1. Stored(l, x) = Kernel(l, x)
    BY <1>6 DEF Stored
  <2>2. CASE c.op = "sum"
    BY <1>6, <2>1, <2>2 DEF Kernel, sum, SumOf, Reduced, Listed
  <2>3. CASE c.op = "mean"
    BY <1>6, <2>1, <2>3 DEF Kernel, mean, SumOf, Reduced, Listed, OneOver
  <2>4. CASE c.op = "amax"
    BY <1>6, <2>1, <2>4 DEF Kernel, amax, MostOf, Reduced
  <2>5. CASE c.op = "amin"
    BY <1>6, <2>1, <2>5 DEF Kernel, amin, LeastOf, Reduced
  <2>6. CASE c.op = "argmax"
    BY <1>6, <2>1, <2>6 DEF Kernel, argmax, Reduced, Listed
  <2>7. CASE c.op = "argmin"
    BY <1>6, <2>1, <2>7 DEF Kernel, argmin, Reduced, Listed
  <2> QED
    BY <2>2, <2>3, <2>4, <2>5, <2>6, <2>7 DEF Reductions
<1>8. OneLoop(c, out, l, Whole(Reduced(c)))
  <2>1. Target(l) = "out"
    BY <1>5, <1>6 DEF Target
  <2>2. ASSUME NEW m, Holds(c, m) PROVE Stored(l, ReadFrom(l, m)) = Whole(Reduced(c))
    <3>1. ReadFrom(l, m)[1] = Before(c, 1)
      BY <1>1, <1>6, <2>2 DEF ReadFrom, Holds
    <3> QED
      BY <1>7, <3>1
  <2> QED
    BY <1>2, <1>5, <2>1, <2>2 DEF OneLoop
<1>9. Reference(c) = [out |-> ResultOf(out.shape, [ix \in Indices(out.shape) |-> Reduced(c)])]
  <2>1. Reference(c) = [out |-> ResultOf(shape, [ix \in Indices(shape) |-> Reduced(c)])]
    BY ReducedIsAsked DEF shape
  <2> QED
    BY <1>5, <2>1
<1>10. NumelOf(out.shape) = 1
  BY <1>3, <1>5
<1> QED
  BY <1>8, <1>9, <1>10, OneValueSuffices

-----------------------------------------------------------------------------
\* The losses that sum a value d makes of the two arguments' elements.
Losses == {"mse_loss", "l1_loss", "l2_loss"}
Differing(c, u, v) == IF c.op = "l1_loss" THEN Apply("abs", Minus(u, v)) ELSE Times(Minus(u, v), Minus(u, v))
Loss(c, n, s) ==
  IF c.op = "l2_loss" THEN Times(Scalar("1/2"), <<"sum", s>>) ELSE Times(<<"sum", s>>, <<"1/", n>>)
DiffsListed(c) ==
  [q \in Upto(Numel(c.in[1])) |-> Differing(c, At(Before(c, 1), q), At(Before(c, 2), q))]
DiffsIndexed(c) == [ix \in Indices(ShapeOf(c, 1)) |-> Differing(c, X(c, 1, ix), X(c, 2, ix))]

\* They make one bag.
LEMMA DiffsAreOneBag ==
  ASSUME NEW c, c.in[1] \in Tensors, c.in[2] \in Tensors, ShapeOf(c, 2) = ShapeOf(c, 1)
  PROVE  BagOf(DiffsListed(c)) = BagOf(DiffsIndexed(c))
<1> DEFINE shape == ShapeOf(c, 1)
           f == DiffsListed(c)
           g == DiffsIndexed(c)
<1>1. shape \in Seq(Nat) /\ Numel(c.in[1]) = NumelOf(shape) /\ Numel(c.in[2]) = NumelOf(shape)
  BY DEF Tensors, ShapeOf, Numel
<1>2. ASSUME NEW q \in Upto(NumelOf(shape)) PROVE f[q] = g[IndexAt(shape, q)]
  <2>1. IndexAt(shape, q) \in Indices(shape)
    BY <1>1, IndexAtIs
  <2>2. At(Before(c, 1), q) = X(c, 1, IndexAt(shape, q)) /\ At(Before(c, 2), q) = X(c, 2, IndexAt(shape, q))
    BY <1>1, HeldAt
  <2>3. f[q] = Differing(c, At(Before(c, 1), q), At(Before(c, 2), q))
    BY <1>1 DEF DiffsListed
  <2>4. g[IndexAt(shape, q)] = Differing(c, X(c, 1, IndexAt(shape, q)), X(c, 2, IndexAt(shape, q)))
    BY <2>1 DEF DiffsIndexed
  <2> HIDE DEF f, g, shape
  <2> QED
    BY <2>2, <2>3, <2>4
<1>3. DOMAIN f = Upto(NumelOf(shape)) /\ DOMAIN g = Indices(shape)
  BY <1>1 DEF DiffsListed, DiffsIndexed
<1> HIDE DEF f, g, shape
<1> QED
  BY <1>1, <1>2, <1>3, BagInOrder DEF f, g

\* The reference sums by index, the kernel by position.
LEMMA LossIsAsked ==
  ASSUME NEW c, c.op \in Losses, c.in[1] \in Tensors, c.in[2] \in Tensors, ShapeOf(c, 2) = ShapeOf(c, 1)
  PROVE  Reference(c) =
           [out |-> ResultOf(<<>>, [ix \in Indices(<<>>) |-> Loss(c, Numel(c.in[1]), BagOf(DiffsListed(c)))])]
<1> DEFINE s == <<"sum", BagOf(DiffsIndexed(c))>>
           Makes(v) == [out |-> ResultOf(<<>>, [ix \in Indices(<<>>) |-> v])]
<1>1. CountOf(c, 1) = Numel(c.in[1])
  BY AsManyIndices DEF CountOf, AllOf, Numel, ShapeOf, Tensors
<1>2. BagOf(DiffsListed(c)) = BagOf(DiffsIndexed(c))
  BY DiffsAreOneBag
<1>3. CASE c.op = "mse_loss"
  <2>1. DiffsIndexed(c) = [ix \in Indices(ShapeOf(c, 1)) |-> Times(Minus(X(c, 1, ix), X(c, 2, ix)), Minus(X(c, 1, ix), X(c, 2, ix)))]
    BY <1>3 DEF DiffsIndexed, Differing
  <2>2. Reference(c) = Makes(Times(s, <<"1/", CountOf(c, 1)>>))
    BY <1>3, <2>1 DEF Reference, InPlace, Result, SumOf, AllOf
  <2> QED
    BY <1>1, <1>2, <1>3, <2>2 DEF Loss
<1>4. CASE c.op = "l1_loss"
  <2>1. DiffsIndexed(c) = [ix \in Indices(ShapeOf(c, 1)) |-> Apply("abs", Minus(X(c, 1, ix), X(c, 2, ix)))]
    BY <1>4 DEF DiffsIndexed, Differing
  <2>2. Reference(c) = Makes(Times(s, <<"1/", CountOf(c, 1)>>))
    BY <1>4, <2>1 DEF Reference, InPlace, Result, SumOf, AllOf
  <2> QED
    BY <1>1, <1>2, <1>4, <2>2 DEF Loss
<1>5. CASE c.op = "l2_loss"
  <2>1. DiffsIndexed(c) = [ix \in Indices(ShapeOf(c, 1)) |-> Times(Minus(X(c, 1, ix), X(c, 2, ix)), Minus(X(c, 1, ix), X(c, 2, ix)))]
    BY <1>5 DEF DiffsIndexed, Differing
  <2>2. Reference(c) = Makes(Times(Scalar("1/2"), s))
    BY <1>5, <2>1 DEF Reference, InPlace, Result, SumOf, AllOf
  <2> QED
    BY <1>2, <1>5, <2>2 DEF Loss
<1> QED
  BY <1>3, <1>4, <1>5 DEF Losses

\* mse_loss, l1_loss, l2_loss.
LEMMA LossesSuffice ==
  ASSUME NEW c, WellFormed(c), c.op \in Losses, PlanOf(c).kind = "launching"
  PROVE  Sufficient(c)
<1> DEFINE a == c.in[1]
           b == c.in[2]
           n == Numel(a)
           num == IF c.op = "l2_loss" THEN [n |-> n] ELSE [n |-> n, inv_n |-> OneOver(n)]
           out == Empty("out", <<>>, "fp32")
           l == LaunchFp32(c.op, <<a, b, out>>, num)
           v == Loss(c, n, BagOf(DiffsListed(c)))
<1>1. a \in Tensors /\ b \in Tensors /\ 1 \in DOMAIN c.in /\ 2 \in DOMAIN c.in
  <2>1. c.op \in TwoTensors /\ c.op \notin OneTensor
    BY DEF Losses, TwoTensors, OneTensor
  <2> QED
    BY <2>1, InputNames, CallTensors
<1>2. PlanOf(c) = Plan(<<out>>, <<l>>) /\ LossArgs(a, b)
  <2>1. CASE c.op = "mse_loss"
    <3>1. PlanOf(c) = mse_loss_op(a, b)
      BY <2>1 DEF PlanOf, MiniGpuOps, minigpu_impl
    <3> QED
      BY <2>1, <3>1, CheckPassed DEF mse_loss_op
  <2>2. CASE c.op = "l1_loss"
    <3>1. PlanOf(c) = l1_loss_op(a, b)
      BY <2>2 DEF PlanOf, MiniGpuOps, minigpu_impl
    <3> QED
      BY <2>2, <3>1, CheckPassed DEF l1_loss_op
  <2>3. CASE c.op = "l2_loss"
    <3>1. PlanOf(c) = l2_loss_op(a, b)
      BY <2>3 DEF PlanOf, MiniGpuOps, minigpu_impl
    <3> QED
      BY <2>3, <3>1, CheckPassed DEF l2_loss_op
  <2> QED
    BY <2>1, <2>2, <2>3 DEF Losses
<1>3. ShapeOf(c, 2) = ShapeOf(c, 1)
  BY <1>2 DEF LossArgs, SameShape, ShapeOf
<1>4. <<>> \in Seq(Nat) /\ NumelOf(<<>>) = 1 /\ "fp32" \in Dtypes
  BY NumelOfFew DEF Dtypes, SixTypes
<1>5. out \in Tensors /\ out.name = "out" /\ out.shape = <<>>
  BY <1>4, OutIs
<1>6. l.pointers = <<a, b, out>> /\ l.kernel[1] = c.op /\ l.kernel[2] # "host"
      /\ l.num.n = n /\ (c.op # "l2_loss" => l.num.inv_n = OneOver(n))
  BY DEF LaunchFp32, Launch
<1> HIDE DEF l, out
<1>7. \A x : x[1] = Before(c, 1) /\ x[2] = Before(c, 2) => Stored(l, x) = Whole(v)
  <2> SUFFICES ASSUME NEW x, x[1] = Before(c, 1), x[2] = Before(c, 2) PROVE Stored(l, x) = Whole(v)
    OBVIOUS
  <2>1. Stored(l, x) = Kernel(l, x)
    BY <1>6 DEF Stored
  <2>2. CASE c.op = "mse_loss"
    BY <1>6, <2>1, <2>2 DEF Kernel, mse_loss, SumOf, Square, Loss, DiffsListed, Differing, OneOver
  <2>3. CASE c.op = "l1_loss"
    BY <1>6, <2>1, <2>3 DEF Kernel, l1_loss, SumOf, Loss, DiffsListed, Differing, OneOver
  <2>4. CASE c.op = "l2_loss"
    BY <1>6, <2>1, <2>4 DEF Kernel, l2_loss, SumOf, Square, Loss, DiffsListed, Differing
  <2> QED
    BY <2>2, <2>3, <2>4 DEF Losses
<1> HIDE DEF v
<1>8. OneLoop(c, out, l, Whole(v))
  <2>1. Target(l) = "out"
    BY <1>5, <1>6 DEF Target
  <2>2. ASSUME NEW m, Holds(c, m) PROVE Stored(l, ReadFrom(l, m)) = Whole(v)
    <3>1. ReadFrom(l, m)[1] = Before(c, 1) /\ ReadFrom(l, m)[2] = Before(c, 2)
      BY <1>1, <1>6, <2>2 DEF ReadFrom, Holds
    <3> QED
      BY <1>7, <3>1
  <2> QED
    BY <1>2, <1>5, <2>1, <2>2 DEF OneLoop
<1>9. Reference(c) = [out |-> ResultOf(out.shape, [ix \in Indices(out.shape) |-> v])]
  BY <1>1, <1>3, <1>5, LossIsAsked DEF v
<1>10. NumelOf(out.shape) = 1
  BY <1>4, <1>5
<1> QED
  BY <1>8, <1>9, <1>10, OneValueSuffices

-----------------------------------------------------------------------------
\* The rows of a tensor: indices that differ in the last dimension only.
SameRow(jx, ix) == SubSeq(jx, 1, Len(jx) - 1) = SubSeq(ix, 1, Len(ix) - 1)

\* Two indices are in one row if they agree in all dimensions but the last.
LEMMA RowMates ==
  ASSUME NEW shape \in Seq(Nat), NEW ix \in Indices(shape), NEW jx \in Indices(shape)
  PROVE  SameRow(jx, ix) <=> \A d \in 1..(Len(shape) - 1) : jx[d] = ix[d]
<1> DEFINE n == Len(shape)
<1>1. n \in Nat /\ ix \in Seq(Nat) /\ jx \in Seq(Nat) /\ Len(ix) = n /\ Len(jx) = n
  <2>1. ix = [d \in 1..n |-> ix[d]] /\ \A d \in 1..n : ix[d] \in Nat
    BY IndexIs
  <2>2. jx = [d \in 1..n |-> jx[d]] /\ \A d \in 1..n : jx[d] \in Nat
    BY IndexIs
  <2>3. n \in Nat
    OBVIOUS
  <2> HIDE DEF n
  <2>4. ix \in [1..n -> Nat] /\ jx \in [1..n -> Nat]
    BY <2>1, <2>2
  <2> QED
    BY <2>3, <2>4
<1> DEFINE a == SubSeq(ix, 1, n - 1)
           b == SubSeq(jx, 1, n - 1)
<1> HIDE DEF n
<1>2. a = [d \in 1..(n - 1) |-> ix[d]] /\ b = [d \in 1..(n - 1) |-> jx[d]]
  BY <1>1
<1>3. SameRow(jx, ix) <=> b = a
  BY <1>1 DEF SameRow
<1> HIDE DEF a, b
<1>4. b = a <=> \A d \in 1..(n - 1) : jx[d] = ix[d]
  BY <1>2
<1> QED
  BY <1>3, <1>4 DEF n

\* A row lies in consecutive places.
LEMMA RowPositions ==
  ASSUME NEW shape \in Seq(Nat), Len(shape) > 0, NEW ix \in Indices(shape)
  PROVE  \E r \in Nat :
           \A jx \in Indices(shape) : SameRow(jx, ix) =>
              Position(jx, shape) = r * shape[Len(shape)] + jx[Len(shape)]
<1> DEFINE n == Len(shape)
<1>1. PICK b \in [0..n -> Nat] :
            /\ b[0] = 0
            /\ \A d \in 1..n : b[d] = b[d - 1] * shape[d] + ix[d]
            /\ Position(ix, shape) = b[n]
  BY PositionSteps
<1>2. n \in Nat \ {0}
  OBVIOUS
<1>3. ASSUME NEW jx \in Indices(shape), SameRow(jx, ix)
      PROVE  Position(jx, shape) = b[n - 1] * shape[n] + jx[n]
  <2>1. \A d \in 1..(n - 1) : jx[d] = ix[d]
    BY <1>3, RowMates
  <2>2. PICK a \in [0..n -> Nat] :
            /\ a[0] = 0
            /\ \A d \in 1..n : a[d] = a[d - 1] * shape[d] + jx[d]
            /\ Position(jx, shape) = a[n]
    BY PositionSteps
  <2> DEFINE S == {d \in Nat : d <= n - 1 => a[d] = b[d]}
  <2> HIDE DEF n
  <2>3. 0 \in S
    BY <1>1, <2>2
  <2>4. ASSUME NEW d \in S PROVE d + 1 \in S
    <3>1. CASE d + 1 <= n - 1
      <4>1. a[d] = b[d] /\ d + 1 \in 1..n /\ d + 1 \in 1..(n - 1)
        BY <1>2, <3>1
      <4>2. a[d + 1] = a[d] * shape[d + 1] + jx[d + 1]
        BY <2>2, <4>1
      <4>3. b[d + 1] = b[d] * shape[d + 1] + ix[d + 1]
        BY <1>1, <4>1
      <4> QED
        BY <2>1, <4>1, <4>2, <4>3
    <3> QED
      BY <3>1
  <2>5. n - 1 \in S
    <3>1. S \in SUBSET Nat
      OBVIOUS
    <3> HIDE DEF S
    <3>2. \A d \in Nat : d \in S
      BY <2>3, <2>4, <3>1, AllNumbers
    <3> QED
      BY <1>2, <3>2
  <2>6. a[n - 1] = b[n - 1] /\ a[n] = a[n - 1] * shape[n] + jx[n]
    BY <1>2, <2>2, <2>5
  <2> QED
    BY <2>2, <2>6
<1>4. b[n - 1] \in Nat
  BY <1>1, <1>2
<1> QED
  BY <1>3, <1>4

\* The last dimension divides the number of elements.
LEMMA LastDivides ==
  ASSUME NEW shape \in Seq(Nat), Len(shape) > 0, shape[Len(shape)] # 0
  PROVE  (NumelOf(shape) \div shape[Len(shape)]) * shape[Len(shape)] = NumelOf(shape)
<1> DEFINE n == Len(shape)
           cols == shape[n]
           total_ == NumelOf(shape)
<1>1. PICK p \in [0..n -> Nat] :
            p[0] = 1 /\ (\A d \in 1..n : p[d] = p[d - 1] * shape[d]) /\ total_ = p[n]
  BY NumelSteps
<1>2. n \in Nat \ {0} /\ cols \in Nat \ {0} /\ total_ \in Nat
  BY NumelIsNat
<1> DEFINE m == p[n - 1]
<1>3. m \in Nat /\ total_ = m * cols
  <2> HIDE DEF n
  <2>1. n - 1 \in 0..n /\ n \in 1..n
    BY <1>2
  <2> QED
    BY <1>1, <2>1
<1> HIDE DEF n, cols, total_, m
<1>4. total_ = cols * m + 0 /\ 0 \in 0..(cols - 1) /\ m \in Int
  BY <1>2, <1>3
<1>5. total_ % cols = 0
  BY <1>2, <1>4, RemainderIsUnique
<1> DEFINE r == total_ \div cols
<1>6. cols * r = total_ - (total_ % cols) /\ r \in Nat
  BY <1>2, QuotientAndRemainder, RowsFit
<1> HIDE DEF r
<1>7. cols * r = total_ /\ r \in Nat
  BY <1>2, <1>5, <1>6 DEF r
<1>8. r * cols = total_
  BY <1>2, <1>7
<1> QED
  BY <1>8 DEF r, n, cols, total_

\* A multiple of the divisor and less than it has the quotient and the
\* remainder that one sees.
LEMMA RowAndColumn ==
  ASSUME NEW cols \in Nat \ {0}, NEW r \in Nat, NEW col \in 0..(cols - 1)
  PROVE  (r * cols + col) % cols = col /\ (r * cols + col) \div cols = r
<1> DEFINE a == r * cols + col
<1>1. a \in Nat /\ a = cols * r + col
  OBVIOUS
<1>2. a % cols = col
  BY <1>1, RemainderIsUnique
<1> HIDE DEF a
<1> DEFINE q == a \div cols
<1>3. cols * q = a - (a % cols) /\ q \in Nat
  BY <1>1, QuotientAndRemainder, RowsFit
<1> HIDE DEF q
<1>4. cols * q = cols * r
  BY <1>1, <1>2, <1>3
<1>5. q = r
  BY <1>3, <1>4
<1> QED
  BY <1>2, <1>5 DEF q, a

\* The row of a position: the places from the multiple of the columns below it.
LEMMA RowOfPosition ==
  ASSUME NEW shape \in Seq(Nat), Len(shape) > 0, NEW cols, cols = shape[Len(shape)], cols # 0,
         NEW q \in Upto(NumelOf(shape)), NEW r, r = q \div cols,
         NEW h, h = [col \in Upto(cols) |-> IndexAt(shape, r * cols + col)]
  PROVE  /\ \A col \in Upto(cols) : r * cols + col \in Upto(NumelOf(shape))
         /\ h \in Bijection(Upto(cols), {jx \in Indices(shape) : SameRow(jx, IndexAt(shape, q))})
         /\ IsFiniteSet(Upto(cols))
<1> DEFINE n == Len(shape)
           ix == IndexAt(shape, q)
           R  == {jx \in Indices(shape) : SameRow(jx, ix)}
           With(col) == [d \in 1..n |-> IF d = n THEN col ELSE ix[d]]
<1>1. n \in Nat \ {0} /\ cols \in Nat \ {0} /\ q \in Nat
  BY NumelIsNat DEF Upto
<1>2. ix \in Indices(shape) /\ Position(ix, shape) = q
  BY IndexAtIs
<1>3. /\ ix = [d \in 1..n |-> ix[d]]
      /\ \A d \in 1..n : ix[d] \in Nat /\ shape[d] \in Nat /\ ix[d] < shape[d]
  BY <1>2, IndexIs
<1>4. ix[n] \in 0..(cols - 1) /\ Upto(cols) = 0..(cols - 1)
  BY <1>1, <1>3 DEF Upto
<1>5. PICK s \in Nat :
        \A jx \in Indices(shape) : SameRow(jx, ix) => Position(jx, shape) = s * cols + jx[n]
  BY <1>2, RowPositions
<1> HIDE DEF ix, n
<1>6. q = s * cols + ix[n]
  <2>1. SameRow(ix, ix)
    BY DEF SameRow
  <2> QED
    BY <1>2, <1>5, <2>1
<1>7. r = s
  BY <1>1, <1>4, <1>6, RowAndColumn
<1>8. ASSUME NEW col \in Upto(cols)
      PROVE  With(col) \in R /\ With(col)[n] = col /\ Position(With(col), shape) = r * cols + col
  <2>1. /\ With(col) = [d \in 1..n |-> IF d = n THEN col ELSE ix[d]]
        /\ With(col)[n] = col
    BY <1>1
  <2>2. With(col) \in Indices(shape)
    <3>1. DOMAIN shape = 1..n
      BY DEF n
    <3> DEFINE sizes == UNION {Upto(shape[d]) : d \in DOMAIN shape}
    <3>2. \A d \in 1..n : Upto(shape[d]) \subseteq sizes
      BY <3>1
    <3> HIDE DEF sizes
    <3>3. \A d \in 1..n : ix[d] \in sizes /\ (d = n => col \in sizes)
      <4> SUFFICES ASSUME NEW d \in 1..n PROVE ix[d] \in sizes /\ (d = n => col \in sizes)
        OBVIOUS
      <4>1. ix[d] \in Upto(shape[d])
        BY <1>3 DEF Upto
      <4>2. d = n => col \in Upto(shape[d])
        BY DEF n
      <4> QED
        BY <3>2, <4>1, <4>2
    <3>4. With(col) \in [1..n -> sizes]
      BY <2>1, <3>3
    <3>5. \A d \in 1..n : With(col)[d] < shape[d]
      <4>1. col < shape[n]
        BY <1>1, <1>4 DEF n
      <4> QED
        BY <1>3, <2>1, <4>1
    <3> QED
      BY <3>1, <3>4, <3>5 DEF Indices, sizes
  <2>3. \A d \in 1..(n - 1) : With(col)[d] = ix[d]
    BY <1>1, <2>1
  <2>4. SameRow(With(col), ix)
    BY <1>2, <2>2, <2>3, RowMates DEF n
  <2> QED
    BY <1>5, <1>7, <2>1, <2>2, <2>4
<1>9. ASSUME NEW col \in Upto(cols) PROVE h[col] = With(col)
  <2>1. h[col] = IndexAt(shape, Position(With(col), shape))
    BY <1>8
  <2> QED
    BY <1>8, <2>1, IndexAtOf
<1>10. ASSUME NEW jx \in R PROVE \E col \in Upto(cols) : h[col] = jx
  <2>1. jx = [d \in 1..n |-> jx[d]] /\ \A d \in 1..n : jx[d] \in Nat /\ jx[d] < shape[d]
    BY IndexIs DEF n
  <2>2. \A d \in 1..(n - 1) : jx[d] = ix[d]
    BY <1>2, RowMates DEF n
  <2>3. jx[n] \in Upto(cols)
    BY <1>1, <1>4, <2>1 DEF n
  <2>4. jx = With(jx[n])
    <3>1. \A d \in 1..n : jx[d] = IF d = n THEN jx[n] ELSE ix[d]
      BY <1>1, <2>2
    <3> QED
      BY <2>1, <3>1
  <2> QED
    BY <1>9, <2>3, <2>4
<1>11. \A col \in Upto(cols) : r * cols + col \in Upto(NumelOf(shape))
  BY <1>8, PositionInside
<1>12. h \in [Upto(cols) -> R] /\ \A a, b \in Upto(cols) : h[a] = h[b] => a = b
  <2>1. \A col \in Upto(cols) : h[col] \in R /\ h[col][n] = col
    BY <1>8, <1>9
  <2> HIDE DEF R
  <2>2. DOMAIN h = Upto(cols) /\ h = [col \in Upto(cols) |-> h[col]]
    OBVIOUS
  <2> QED
    BY <2>1, <2>2
<1> HIDE DEF R
<1>13. h \in Bijection(Upto(cols), R)
  BY <1>10, <1>12 DEF Bijection, Injection, Surjection, IsInjective
<1>14. IsFiniteSet(Upto(cols))
  <2>1. 0 \in Int /\ cols - 1 \in Int
    BY <1>1
  <2>2. IsFiniteSet(0..(cols - 1))
    BY <2>1, FS_Interval
  <2> QED
    BY <2>2 DEF Upto
<1> QED
  BY <1>11, <1>13, <1>14 DEF R, ix

-----------------------------------------------------------------------------
\* The indices of the row that holds a position, and those of a row's places.
RowMembers(shape, q) == {jx \in Indices(shape) : SameRow(jx, IndexAt(shape, q))}
RowPlaces(shape, cols, r) == [col \in Upto(cols) |-> IndexAt(shape, r * cols + col)]

\* The row that holds a position, in these terms.
LEMMA RowIsItsPlaces ==
  ASSUME NEW shape \in Seq(Nat), Len(shape) > 0, NEW cols, cols = shape[Len(shape)], cols # 0,
         NEW q \in Upto(NumelOf(shape))
  PROVE  /\ \A col \in Upto(cols) : (q \div cols) * cols + col \in Upto(NumelOf(shape))
         /\ RowPlaces(shape, cols, q \div cols) \in Bijection(Upto(cols), RowMembers(shape, q))
         /\ IsFiniteSet(Upto(cols))
  BY RowOfPosition DEF RowMembers, RowPlaces

\* A sum along a row, by place and by index.
LEMMA RowBag ==
  ASSUME NEW shape \in Seq(Nat), Len(shape) > 0, NEW cols, cols = shape[Len(shape)], cols # 0,
         NEW q \in Upto(NumelOf(shape)), NEW r, r = q \div cols,
         NEW f, DOMAIN f = Upto(cols), NEW g, DOMAIN g = RowMembers(shape, q),
         \A col \in Upto(cols) : f[col] = g[IndexAt(shape, r * cols + col)]
  PROVE  BagOf(f) = BagOf(g)
<1> DEFINE h == RowPlaces(shape, cols, r)
<1>1. h \in Bijection(Upto(cols), RowMembers(shape, q)) /\ IsFiniteSet(Upto(cols))
  BY RowIsItsPlaces
<1>2. \A col \in Upto(cols) : f[col] = g[h[col]]
  BY DEF RowPlaces
<1> HIDE DEF h
<1> QED
  BY <1>1, <1>2, SameBag

\* Places of rows before a row, and the row of a place.
LEMMA RowPlace ==
  ASSUME NEW rows \in Nat, NEW cols \in Nat \ {0}, NEW i \in Nat, NEW col \in 0..(cols - 1)
  PROVE  /\ i * cols + col \in Nat
         /\ i < rows <=> i * cols + col < rows * cols
<1>1. i * cols \in Nat /\ rows * cols \in Nat /\ i * cols + col \in Nat
  OBVIOUS
<1>2. ASSUME i < rows PROVE i * cols + col < rows * cols
  <2>1. PICK d \in Nat : rows = (i + 1) + d
    <3>1. rows - (i + 1) \in Nat /\ rows = (i + 1) + (rows - (i + 1))
      BY <1>2
    <3> QED
      BY <3>1
  <2>2. rows * cols = i * cols + cols + d * cols /\ d * cols \in Nat
    BY <2>1
  <2> QED
    BY <1>1, <2>2
<1>3. ASSUME rows <= i PROVE rows * cols <= i * cols
  <2>1. PICK d \in Nat : i = rows + d
    <3>1. i - rows \in Nat /\ i = rows + (i - rows)
      BY <1>3
    <3> QED
      BY <3>1
  <2>2. i * cols = rows * cols + d * cols /\ d * cols \in Nat
    BY <2>1
  <2> QED
    BY <1>1, <2>2
<1> QED
  BY <1>1, <1>2, <1>3

\* A tensor holds by position what its index asks for.
LEMMA TensorByPosition ==
  ASSUME NEW out \in Tensors, NEW w, w = [q \in Elements(out) |-> w[q]],
         NEW f, \A q \in Elements(out) : w[q] = f[IndexAt(out.shape, q)]
  PROVE  ResultOf(out.shape, f) = [shape |-> out.shape, flat |-> w]
<1> DEFINE shape == out.shape
<1>1. shape \in Seq(Nat) /\ Elements(out) = Upto(NumelOf(shape))
  BY DEF Tensors, Elements, Numel
<1>2. w = [q \in Upto(NumelOf(shape)) |-> w[q]]
  BY <1>1
<1>3. \A q \in Upto(NumelOf(shape)) : w[q] = f[IndexAt(shape, q)]
  BY <1>1
<1> HIDE DEF shape
<1>4. ResultOf(shape, f) = [shape |-> shape, flat |-> w]
  BY <1>1, <1>2, <1>3, ResultByPosition
<1> QED
  BY <1>4 DEF shape

\* Iteration i of loop k stores row i of w.
RowsTo(k, rows, cols, w) ==
  /\ k.total = rows
  /\ \A i \in Upto(rows) : k.stores[i] = [e \in {i * cols + col : col \in Upto(cols)} |-> w[e]]

\* Such a loop fills the tensor, row by row.
LEMMA RowsFill ==
  ASSUME NEW rows \in Nat, NEW cols \in Nat \ {0}, NEW k, NEW w, RowsTo(k, rows, cols, w)
  PROVE  Fills(k, rows * cols, w)
<1> DEFINE n == rows * cols
<1>1. k.total = rows
  BY DEF RowsTo
<1>2. n \in Nat /\ cols \in Nat \ {0}
  OBVIOUS
<1>3. rows * cols = n /\ rows \in Nat
  OBVIOUS
<1> HIDE DEF n
<1>4. ASSUME NEW i \in Upto(rows), NEW col \in Upto(cols) PROVE i * cols + col \in Upto(n)
  <2>1. i \in Nat /\ i < rows /\ col \in 0..(cols - 1)
    BY <1>2, <1>3 DEF Upto
  <2>2. i * cols + col \in Nat /\ i * cols + col < rows * cols
    BY <1>2, <1>3, <2>1, RowPlace
  <2> DEFINE e == i * cols + col
  <2> HIDE DEF e
  <2>3. e \in Nat /\ e < n
    BY <1>3, <2>2 DEF e
  <2>4. e \in Upto(n)
    BY <1>2, <2>3 DEF Upto
  <2> QED
    BY <2>4 DEF e
<1>5. ASSUME NEW e \in Upto(n)
      PROVE  \E i \in Upto(rows) : \E col \in Upto(cols) : e = i * cols + col
  <2>1. e \in Nat /\ e < n
    BY <1>2 DEF Upto
  <2> DEFINE i == e \div cols
             col == e % cols
  <2>2. cols * i = e - col /\ i \in Nat /\ col \in 0..(cols - 1)
    BY <1>2, <2>1, QuotientAndRemainder, RowsFit, RemainderInRange
  <2> HIDE DEF i, col
  <2>3. i * cols = e - col
    BY <1>2, <2>2
  <2>4. e = i * cols + col
    BY <2>1, <2>2, <2>3
  <2>5. i < rows
    BY <1>2, <1>3, <2>1, <2>2, <2>4, RowPlace
  <2>6. i \in Upto(rows) /\ col \in Upto(cols)
    BY <1>3, <2>2, <2>5 DEF Upto
  <2> QED
    BY <2>4, <2>6
<1>6. Fills(k, n, w)
  <2>1. ASSUME NEW i \in Upto(k.total), NEW e \in DOMAIN k.stores[i]
        PROVE  e \in Upto(n) /\ k.stores[i][e] = w[e]
    <3> DEFINE E == {i * cols + col : col \in Upto(cols)}
    <3>1. k.stores[i] = [d \in E |-> w[d]] /\ i \in Upto(rows)
      BY <1>1 DEF RowsTo
    <3>2. e \in E
      BY <3>1
    <3>3. e \in Upto(n)
      BY <1>4, <3>1, <3>2
    <3> HIDE DEF E
    <3> QED
      BY <3>1, <3>2, <3>3
  <2>2. ASSUME NEW e \in Upto(n) PROVE \E i \in Upto(k.total) : e \in DOMAIN k.stores[i]
    <3>1. PICK i \in Upto(rows) : \E col \in Upto(cols) : e = i * cols + col
      BY <1>5
    <3> DEFINE E == {i * cols + col : col \in Upto(cols)}
    <3>2. k.stores[i] = [d \in E |-> w[d]] /\ i \in Upto(k.total)
      BY <1>1 DEF RowsTo
    <3>3. e \in E
      BY <3>1
    <3> HIDE DEF E
    <3>4. e \in DOMAIN k.stores[i]
      BY <3>2, <3>3
    <3> QED
      BY <3>2, <3>4
  <2> QED
    BY <2>1, <2>2 DEF Fills
<1> QED
  BY <1>6 DEF n

\* A plan of one launch with a thread for each row: every row is stored whole.
LEMMA RowsSuffice ==
  ASSUME NEW c, NEW out, NEW l, NEW k, OneLoop(c, out, l, k), l.kernel[2] # "host",
         Len(out.shape) > 0, NEW cols, cols = Last(out), cols # 0,
         NEW w, w = [q \in Elements(out) |-> w[q]], RowsTo(k, Numel(out) \div cols, cols, w),
         NEW f, Reference(c) = [out |-> ResultOf(out.shape, f)],
         \A q \in Elements(out) : w[q] = f[IndexAt(out.shape, q)]
  PROVE  Sufficient(c)
<1> DEFINE shape == out.shape
           n == NumelOf(shape)
           rows == n \div cols
<1>1. shape \in Seq(Nat) /\ Numel(out) = n /\ Elements(out) = Upto(n) /\ cols = shape[Len(shape)] /\ k.total = rows
  BY DEF OneLoop, Tensors, Numel, Elements, Last, RowsTo
<1>2. n \in Nat /\ cols \in Nat \ {0}
  BY <1>1, NumelIsNat
<1>3. rows * cols = n /\ rows \in Nat
  BY <1>1, <1>2, LastDivides, RowsFit
<1>4. ResultOf(out.shape, f) = [shape |-> out.shape, flat |-> w]
  <2>1. out \in Tensors
    BY DEF OneLoop
  <2> QED
    BY <2>1, TensorByPosition
<1> HIDE DEF shape, n, rows
<1>5. Fills(k, n, w)
  <2>1. RowsTo(k, rows, cols, w)
    BY <1>1 DEF rows, n, shape, RowsTo
  <2>2. Fills(k, rows * cols, w)
    BY <1>2, <1>3, <2>1, RowsFill
  <2> QED
    BY <1>3, <2>2
<1> QED
  BY <1>1, <1>4, <1>5, OneLoopSuffices DEF shape

=============================================================================
