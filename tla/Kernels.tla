------------------------------- MODULE Kernels -------------------------------
(***************************************************************************)
(* The device kernels (runtime/kernels/src/ *.cu) and the inline functions *)
(* they share (runtime/kernels/include/minigpu_linalg.h).  A kernel reads  *)
(* flat arrays through computed indices; what it computes from an element  *)
(* is left symbolic.  An array is a function from 0..n-1 to terms, a term  *)
(* a tuple that starts with the operation: equal terms are equal           *)
(* computations, up to the order of the operands of + and * and of the     *)
(* terms of a sum.  A read outside the array gives Outside.                *)
(*                                                                         *)
(* A kernel is the record of its loop: how many iterations, whether the    *)
(* threads share them (StridedLoop), and what iteration i stores.          *)
(***************************************************************************)
EXTENDS Integers, FiniteSets, Sequences

Outside == <<"outside">>
At(x, i) == IF i \in DOMAIN x THEN x[i] ELSE Outside

Apply(f, x)  == <<f, x>>
Times(x, y)  == <<"*", {x, y}>>
Plus(x, y)   == <<"+", {x, y}>>
Minus(x, y)  == <<"-", x, y>>
Scalar(name) == <<"scalar", name>>

\* The bag of the values of f, and the sum of f over S as the bag of what is
\* added.
BagOf(f) ==
  [x \in {f[s] : s \in DOMAIN f} |-> Cardinality({s \in DOMAIN f : f[s] = x})]
SumOf(S, f(_)) == <<"sum", BagOf([s \in S |-> f(s)])>>

MostOf(S, f(_))  == <<"max", {f(s) : s \in S}>>
LeastOf(S, f(_)) == <<"min", {f(s) : s \in S}>>

Upto(n) == 0..(n - 1)

\* for (i = threadIdx.x; i < n; i += blockDim.x): iteration i stores Stores(i).
Loop(n, Stores(_)) ==
  [total |-> n, shared |-> TRUE, stores |-> [i \in Upto(n) |-> Stores(i)]]
Map(n, f(_)) == Loop(n, LAMBDA i : [j \in {i} |-> f(i)])

\* Every thread computes the one value v and stores it.
Whole(v) == [total |-> 1, shared |-> FALSE, stores |-> [i \in {0} |-> [j \in {0} |-> v]]]

-----------------------------------------------------------------------------
\* One value from one: relu, exp, sigmoid, tanh; log, log2, log10.
activation(f, a, n) == Map(n, LAMBDA i : Apply(f, At(a, i)))
math(f, a, n)       == Map(n, LAMBDA i : Apply(f, At(a, i)))
sqrt(a, n)          == Map(n, LAMBDA i : Apply("sqrt", At(a, i)))
reciprocal(a, n)    == Map(n, LAMBDA i : Apply("rcp", At(a, i)))

vector_add(a, b, n) == Map(n, LAMBDA i : Plus(At(a, i), At(b, i)))
mul(a, b, n)        == Map(n, LAMBDA i : Times(At(a, i), At(b, i)))
div(a, b, n)        == Map(n, LAMBDA i : Times(At(a, i), Apply("rcp", At(b, i))))
scal(x, alpha, n)   == Map(n, LAMBDA i : Times(alpha, At(x, i)))
axpy(x, y, alpha, n) == Map(n, LAMBDA i : Plus(Times(alpha, At(x, i)), At(y, i)))

\* The gradient where self is above the threshold, else 0.
relu_backward(g, self, threshold, n) ==
  Map(n, LAMBDA i : <<"where_above", At(self, i), threshold, At(g, i)>>)
sigmoid_backward(g, y, n) ==
  Map(n, LAMBDA i : Times(Times(At(g, i), At(y, i)), Minus(Scalar("1"), At(y, i))))
tanh_backward(g, y, n) ==
  Map(n, LAMBDA i : Times(At(g, i), Minus(Scalar("1"), Times(At(y, i), At(y, i)))))

-----------------------------------------------------------------------------
dot_strided(a, a_offset, a_stride, b, b_offset, b_stride, n) ==
  SumOf(Upto(n), LAMBDA i : Times(At(a, a_offset + i * a_stride),
                                  At(b, b_offset + i * b_stride)))

gemv_element(a, x, row, n) == dot_strided(a, row * n, 1, x, 0, 1, n)
gemm_element(a, b, row, col, n, k) == dot_strided(a, row * k, 1, b, col, n, k)
addmm_element(self, a, b, beta, alpha, row, col, n, k) ==
  Plus(Times(beta, At(self, row * n + col)), Times(alpha, gemm_element(a, b, row, col, n, k)))

\* Mutant: the row of the weight is taken with the stride of the output.
linear_element_stride(input, weight, row, col, out_features, in_features) ==
  dot_strided(input, row * in_features, 1, weight, col * out_features, 1, in_features)

linear_element(input, weight, row, col, out_features, in_features) ==
  dot_strided(input, row * in_features, 1, weight, col * in_features, 1, in_features)

dot(a, b, n)     == Whole(dot_strided(a, 0, 1, b, 0, 1, n))
gemv(a, x, m, n) == Map(m, LAMBDA row : gemv_element(a, x, row, n))
matmul(a, b, m, n, k) ==
  Map(m * n, LAMBDA i : gemm_element(a, b, i \div n, i % n, n, k))
addmm(self, a, b, beta, alpha, m, n, k) ==
  Map(m * n, LAMBDA i : addmm_element(self, a, b, beta, alpha, i \div n, i % n, n, k))

linear(input, weight, n, out_f, in_f) ==
  Map(n, LAMBDA i : linear_element(input, weight, i \div out_f, i % out_f, out_f, in_f))
linear_bias(input, weight, bias, n, out_f, in_f) ==
  Map(n, LAMBDA i :
    Plus(At(bias, i % out_f),
         linear_element(input, weight, i \div out_f, i % out_f, out_f, in_f)))
linear_backward_input(g, weight, batch, out_f, in_f) ==
  Map(batch * in_f, LAMBDA i : dot_strided(g, (i \div in_f) * out_f, 1, weight, i % in_f, in_f, out_f))
linear_backward_weight(input, g, batch, out_f, in_f) ==
  Map(out_f * in_f, LAMBDA i : dot_strided(g, i \div in_f, out_f, input, i % in_f, in_f, batch))
linear_backward_bias(g, batch, out_f) ==
  Map(out_f, LAMBDA c : SumOf(Upto(batch), LAMBDA row : At(g, row * out_f + c)))

-----------------------------------------------------------------------------
\* p is the launch's shape: b batches, ic input and oc output channels, input
\* ih x iw, output oh x ow, kernel kh x kw, stride sh x sw.  Only padding 0 is
\* launched.
conv1d_element(input, weight, n, oc, ow, p) ==
  SumOf(Upto(p.ic) \X Upto(p.kw), LAMBDA r :
    LET iw == ow * p.sw + r[2]
    IN Times(At(input, n * p.ic * p.iw + r[1] * p.iw + iw),
             At(weight, oc * p.ic * p.kw + r[1] * p.kw + r[2])))

conv2d_element(input, weight, n, oc, oy, ox, p) ==
  SumOf(Upto(p.ic) \X Upto(p.kh) \X Upto(p.kw), LAMBDA r :
    LET iy == oy * p.sh + r[2]
        ix == ox * p.sw + r[3]
    IN Times(At(input, n * p.ic * p.ih * p.iw + r[1] * p.ih * p.iw + iy * p.iw + ix),
             At(weight, oc * p.ic * p.kh * p.kw + r[1] * p.kh * p.kw + r[2] * p.kw + r[3])))

conv1d(input, weight, n, p) ==
  Map(n, LAMBDA i :
    LET tmp == i \div p.ow
    IN conv1d_element(input, weight, tmp \div p.oc, tmp % p.oc, i % p.ow, p))
conv1d_bias(input, weight, bias, n, p) ==
  Map(n, LAMBDA i :
    LET tmp == i \div p.ow
    IN Plus(At(bias, tmp % p.oc),
            conv1d_element(input, weight, tmp \div p.oc, tmp % p.oc, i % p.ow, p)))
conv2d(input, weight, n, p) ==
  Map(n, LAMBDA i :
    LET tmp0 == i \div p.ow
        tmp1 == tmp0 \div p.oh
    IN conv2d_element(input, weight, tmp1 \div p.oc, tmp1 % p.oc, tmp0 % p.oh, i % p.ow, p))
conv2d_bias(input, weight, bias, n, p) ==
  Map(n, LAMBDA i :
    LET tmp0 == i \div p.ow
        tmp1 == tmp0 \div p.oh
    IN Plus(At(bias, tmp1 % p.oc),
            conv2d_element(input, weight, tmp1 \div p.oc, tmp1 % p.oc, tmp0 % p.oh, i % p.ow, p)))

conv1d_backward_input(g, weight, n, p) ==
  Map(n, LAMBDA i :
    LET tmp == i \div p.iw
        KW(r) == r % p.kw
        OW(r) == (r \div p.kw) % p.ow
        OC(r) == (r \div p.kw) \div p.ow
    IN SumOf({r \in Upto(p.oc * p.ow * p.kw) : OW(r) * p.sw + KW(r) = i % p.iw}, LAMBDA r :
         Times(At(g, (tmp \div p.ic) * p.oc * p.ow + OC(r) * p.ow + OW(r)),
               At(weight, OC(r) * p.ic * p.kw + (tmp % p.ic) * p.kw + KW(r)))))
conv1d_backward_weight(input, g, n, p) ==
  Map(n, LAMBDA i :
    LET tmp == i \div p.kw
    IN SumOf(Upto(p.b * p.ow), LAMBDA r :
         LET ow == r % p.ow
             b  == r \div p.ow
         IN Times(At(input, b * p.ic * p.iw + (tmp % p.ic) * p.iw + ow * p.sw + (i % p.kw)),
                  At(g, b * p.oc * p.ow + (tmp \div p.ic) * p.ow + ow))))
conv1d_backward_bias(g, p) ==
  Map(p.oc, LAMBDA oc : SumOf(Upto(p.b) \X Upto(p.ow), LAMBDA r :
    At(g, r[1] * p.oc * p.ow + oc * p.ow + r[2])))

conv2d_backward_input(g, weight, n, p) ==
  Map(n, LAMBDA i :
    LET iy  == (i \div p.iw) % p.ih
        tmp == (i \div p.iw) \div p.ih
        KX(r) == r % p.kw
        KY(r) == (r \div p.kw) % p.kh
        tmp_r1(r) == (r \div p.kw) \div p.kh
        OX(r) == tmp_r1(r) % p.ow
        OY(r) == (tmp_r1(r) \div p.ow) % p.oh
        OC(r) == (tmp_r1(r) \div p.ow) \div p.oh
    IN SumOf({r \in Upto(p.oc * p.oh * p.ow * p.kh * p.kw) :
                OY(r) * p.sh + KY(r) = iy /\ OX(r) * p.sw + KX(r) = i % p.iw}, LAMBDA r :
         Times(At(g, (tmp \div p.ic) * p.oc * p.oh * p.ow + OC(r) * p.oh * p.ow + OY(r) * p.ow + OX(r)),
               At(weight, OC(r) * p.ic * p.kh * p.kw + (tmp % p.ic) * p.kh * p.kw + KY(r) * p.kw + KX(r)))))
conv2d_backward_weight(input, g, n, p) ==
  Map(n, LAMBDA i :
    LET kx  == i % p.kw
        ky  == (i \div p.kw) % p.kh
        tmp == (i \div p.kw) \div p.kh
    IN SumOf(Upto(p.b * p.oh * p.ow), LAMBDA r :
         LET ox == r % p.ow
             oy == (r \div p.ow) % p.oh
             b  == (r \div p.ow) \div p.oh
         IN Times(At(input, b * p.ic * p.ih * p.iw + (tmp % p.ic) * p.ih * p.iw
                              + (oy * p.sh + ky) * p.iw + ox * p.sw + kx),
                  At(g, b * p.oc * p.oh * p.ow + (tmp \div p.ic) * p.oh * p.ow + oy * p.ow + ox))))
conv2d_backward_bias(g, p) ==
  Map(p.oc, LAMBDA oc : SumOf(Upto(p.b) \X Upto(p.oh) \X Upto(p.ow), LAMBDA r :
    At(g, r[1] * p.oc * p.oh * p.ow + oc * p.oh * p.ow + r[2] * p.ow + r[3])))

-----------------------------------------------------------------------------
\* The four elements of output i's window; p also has c channels.
pool_window(input, i, sh, sw, p) ==
  LET tmp  == i \div p.ow
      tmp2 == tmp \div p.oh
      base == (tmp2 \div p.c) * p.c * p.ih * p.iw + (tmp2 % p.c) * p.ih * p.iw
      iy0  == (tmp % p.oh) * sh
      ix0  == (i % p.ow) * sw
  IN [k \in (0..1) \X (0..1) |-> At(input, base + (iy0 + k[1]) * p.iw + ix0 + k[2])]

max_pool2d(input, n, p) ==
  Map(n, LAMBDA i : LET w == pool_window(input, i, p.sh, p.sw, p)
                    IN MostOf(DOMAIN w, LAMBDA k : w[k]))
avg_pool2d(input, n, p) ==
  Map(n, LAMBDA i : LET w == pool_window(input, i, p.sh, p.sw, p)
                    IN Times(SumOf(DOMAIN w, LAMBDA k : w[k]), Scalar("1/4")))
adaptive_avg_pool2d(input, n, p) ==
  Map(n, LAMBDA i : LET w == pool_window(input, i, 2, 2, p)
                    IN Times(SumOf(DOMAIN w, LAMBDA k : w[k]), Scalar("1/4")))

-----------------------------------------------------------------------------
sum(a, n)  == Whole(SumOf(Upto(n), LAMBDA i : At(a, i)))
mean(a, n, inv_n) == Whole(Times(SumOf(Upto(n), LAMBDA i : At(a, i)), inv_n))
amax(a, n) == Whole(MostOf(Upto(n), LAMBDA i : At(a, i)))
amin(a, n) == Whole(LeastOf(Upto(n), LAMBDA i : At(a, i)))
argmax(a, n) == Whole(<<"argmax", [i \in Upto(n) |-> At(a, i)]>>)
argmin(a, n) == Whole(<<"argmin", [i \in Upto(n) |-> At(a, i)]>>)

\* Iteration row stores the cols elements of one row.
Rows(rows, cols, f(_, _)) ==
  Loop(rows, LAMBDA row :
    [j \in {row * cols + col : col \in Upto(cols)} |-> f(row * cols, j)])

\* The exponentials are stored to the output before they are scaled there; the
\* row is its thread's alone, so the two stores are one here.
softmax(input, rows, cols) ==
  Rows(rows, cols, LAMBDA base, j :
    Times(Apply("exp", At(input, j)),
          Apply("rcp", SumOf(Upto(cols), LAMBDA col : Apply("exp", At(input, base + col))))))
softmax_backward(g, output, rows, cols) ==
  Rows(rows, cols, LAMBDA base, j :
    Times(At(output, j), Minus(At(g, j), dot_strided(g, base, 1, output, base, 1, cols))))

-----------------------------------------------------------------------------
Square(x) == Times(x, x)

mse_loss(input, target, n, inv_n) ==
  Whole(Times(SumOf(Upto(n), LAMBDA i : Square(Minus(At(input, i), At(target, i)))), inv_n))
l1_loss(input, target, n, inv_n) ==
  Whole(Times(SumOf(Upto(n), LAMBDA i : Apply("abs", Minus(At(input, i), At(target, i)))), inv_n))
l2_loss(input, target, n) ==
  Whole(Times(Scalar("1/2"), SumOf(Upto(n), LAMBDA i : Square(Minus(At(input, i), At(target, i))))))

mse_loss_backward(g, input, target, n, scale) ==
  Map(n, LAMBDA i : Times(Times(At(g, 0), scale), Minus(At(input, i), At(target, i))))
l1_loss_backward(g, input, target, n, scale) ==
  Map(n, LAMBDA i : Times(Times(At(g, 0), scale), Apply("sign", Minus(At(input, i), At(target, i)))))
l2_loss_backward(g, input, target, n) ==
  Map(n, LAMBDA i : Times(At(g, 0), Minus(At(input, i), At(target, i))))

\* The column of row that its class index selects; column 0 when the index is
\* not one of a column.
LabelColumn(target, row, cols) ==
  LET hits == {col \in Upto(cols) : At(target, row) = <<"int", col>>}
  IN IF hits = {} THEN 0 ELSE CHOOSE col \in hits : TRUE

row_max(logits, base, cols) == MostOf(Upto(cols), LAMBDA col : At(logits, base + col))
exp_sum(logits, base, cols) ==
  SumOf(Upto(cols), LAMBDA col :
    Apply("exp", Minus(At(logits, base + col), row_max(logits, base, cols))))

\* What iteration row stores, one value behind the other.
Stretch(row, values) ==
  [j \in {row * Len(values) + k : k \in Upto(Len(values))} |-> values[j - row * Len(values) + 1]]

cross_entropy_stats(logits, target, rows, cols) ==
  Loop(rows, LAMBDA row :
    Stretch(row, <<row_max(logits, row * cols, cols), exp_sum(logits, row * cols, cols),
                   At(logits, row * cols + LabelColumn(target, row, cols))>>))

cross_entropy_finish(stats, rows, inv_rows) ==
  Whole(Times(SumOf(Upto(rows), LAMBDA row :
    Minus(Plus(Apply("log", At(stats, 3 * row + 1)), At(stats, 3 * row)), At(stats, 3 * row + 2))),
    inv_rows))

debug_row(row, max_value, sum_value, target_logit) ==
  Stretch(row, <<max_value, sum_value, Apply("log", sum_value), target_logit,
                 Minus(Plus(Apply("log", sum_value), max_value), target_logit)>>)
cross_entropy_debug_finish(stats, rows) ==
  Loop(rows, LAMBDA row :
    debug_row(row, At(stats, 3 * row), At(stats, 3 * row + 1), At(stats, 3 * row + 2)))
\* The same from the logits in one kernel; no operator launches it.
cross_entropy_debug(logits, target, rows, cols) ==
  Loop(rows, LAMBDA row :
    debug_row(row, row_max(logits, row * cols, cols), exp_sum(logits, row * cols, cols),
              At(logits, row * cols + LabelColumn(target, row, cols))))

cross_entropy_backward(g, logits, target, rows, cols, inv_rows) ==
  Map(rows * cols, LAMBDA i :
    LET row  == i \div cols
        prob == Times(Apply("exp", Minus(At(logits, i), row_max(logits, row * cols, cols))),
                      Apply("rcp", exp_sum(logits, row * cols, cols)))
    IN Times(Times(At(g, 0), inv_rows),
             IF At(target, row) = <<"int", i % cols>> THEN Minus(prob, Scalar("1")) ELSE prob))
=============================================================================
