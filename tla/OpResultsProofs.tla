--------------------------- MODULE OpResultsProofs ---------------------------
(***************************************************************************)
(* What the calls of the PyTorch operators return, for any tensors and any *)
(* order of the threads: for softmax, the gradients of the losses and of   *)
(* linear, cross entropy, the pools, view, the convolution and its         *)
(* gradient, that the plan is one that suffices (Sufficient of             *)
(* OpCallsProofs); kernels count positions, the reference counts indices.  *)
(* At the end the theorem about all operators.                             *)
(***************************************************************************)
EXTENDS OpCallsProofs

-----------------------------------------------------------------------------
\* softmax and its backward: what each element of a row adds to the row's sum,
\* and what an element and the sum s of its row make.
Softmaxes == {"softmax", "softmax_backward"}
RowTerm(c, u, v) == IF c.op = "softmax" THEN Apply("exp", u) ELSE Times(u, v)
Normed(c, u, v, s) ==
  IF c.op = "softmax" THEN Times(Apply("exp", u), Apply("rcp", s)) ELSE Times(v, Minus(u, s))

\* The same of the elements at position q and at index ix.
AddedAt(c, q)     == RowTerm(c, At(Before(c, 1), q), At(Before(c, 2), q))
AddedOf(c, ix)    == RowTerm(c, X(c, 1, ix), X(c, 2, ix))
NormedAt(c, q, s) == Normed(c, At(Before(c, 1), q), At(Before(c, 2), q), s)
NormedOf(c, ix, s) == Normed(c, X(c, 1, ix), X(c, 2, ix), s)

\* The sum of row r by position, and of an index's row.
RowListed(c, cols, r) == <<"sum", BagOf([col \in Upto(cols) |-> AddedAt(c, r * cols + col)])>>
RowIndexed(c, ix) == <<"sum", BagOf([jx \in RowOf(c, 1, ix) |-> AddedOf(c, jx)])>>

\* What the loop stores, by position, and what the reference asks, by index.
SoftmaxAt(c, cols, n) == [q \in Upto(n) |-> NormedAt(c, q, RowListed(c, cols, q \div cols))]
SoftmaxOf(c) == [ix \in Indices(ShapeOf(c, 1)) |-> NormedOf(c, ix, RowIndexed(c, ix))]

\* A position and its index hold the same arguments.
LEMMA ArgumentsHeld ==
  ASSUME NEW c, c.op \in Softmaxes, c.in[1] \in Tensors,
         c.op = "softmax_backward" => c.in[2] \in Tensors /\ ShapeOf(c, 2) = ShapeOf(c, 1),
         NEW q \in Upto(Numel(c.in[1])), NEW ix, ix = IndexAt(ShapeOf(c, 1), q)
  PROVE  AddedAt(c, q) = AddedOf(c, ix) /\ \A s : NormedAt(c, q, s) = NormedOf(c, ix, s)
<1>1. At(Before(c, 1), q) = X(c, 1, ix)
  BY HeldAt
<1>2. CASE c.op = "softmax"
  BY <1>1, <1>2 DEF AddedAt, AddedOf, NormedAt, NormedOf, RowTerm, Normed
<1>3. CASE c.op = "softmax_backward"
  <2>1. Numel(c.in[2]) = Numel(c.in[1])
    BY <1>3 DEF Numel, ShapeOf
  <2>2. At(Before(c, 2), q) = X(c, 2, ix)
    BY <1>3, <2>1, HeldAt
  <2> QED
    BY <1>1, <2>2 DEF AddedAt, AddedOf, NormedAt, NormedOf
<1> QED
  BY <1>2, <1>3 DEF Softmaxes

\* A place of q's row is one of its indices.
LEMMA PlaceInRow ==
  ASSUME NEW shape \in Seq(Nat), Len(shape) > 0, NEW cols, cols = shape[Len(shape)], cols # 0,
         NEW q \in Upto(NumelOf(shape)), NEW r, r = q \div cols, NEW col \in Upto(cols)
  PROVE  r * cols + col \in Upto(NumelOf(shape)) /\ IndexAt(shape, r * cols + col) \in RowMembers(shape, q)
<1> DEFINE h == RowPlaces(shape, cols, r)
<1>1. r * cols + col \in Upto(NumelOf(shape)) /\ h \in Bijection(Upto(cols), RowMembers(shape, q))
  BY RowIsItsPlaces
<1>2. h[col] \in RowMembers(shape, q)
  <2> HIDE DEF h
  <2> QED
    BY <1>1 DEF Bijection, Injection, Surjection
<1> QED
  BY <1>1, <1>2 DEF RowPlaces

\* The loop computes what the reference asks for.
LEMMA SoftmaxByPosition ==
  ASSUME NEW c, c.op \in Softmaxes, c.in[1] \in Tensors,
         c.op = "softmax_backward" => c.in[2] \in Tensors /\ ShapeOf(c, 2) = ShapeOf(c, 1),
         NEW shape, shape = ShapeOf(c, 1), Len(shape) > 0, NEW cols, cols = shape[Len(shape)], cols # 0,
         NEW q \in Upto(NumelOf(shape))
  PROVE  SoftmaxAt(c, cols, NumelOf(shape))[q] = SoftmaxOf(c)[IndexAt(shape, q)]
<1> DEFINE ix == IndexAt(shape, q)
           r == q \div cols
           f == [col \in Upto(cols) |-> AddedAt(c, r * cols + col)]
           R == RowMembers(shape, q)
           g == [jx \in R |-> AddedOf(c, jx)]
<1>1. shape \in Seq(Nat) /\ Numel(c.in[1]) = NumelOf(shape)
  BY DEF Tensors, ShapeOf, Numel
<1>2. ix \in Indices(shape) /\ R = RowOf(c, 1, ix)
  BY <1>1, IndexAtIs DEF RowMembers, RowOf, SameRow, AllOf
<1>3. ASSUME NEW col \in Upto(cols) PROVE f[col] = g[IndexAt(shape, r * cols + col)]
  <2>1. r * cols + col \in Upto(NumelOf(shape)) /\ IndexAt(shape, r * cols + col) \in R
    BY <1>1, PlaceInRow
  <2>4. AddedAt(c, r * cols + col) = AddedOf(c, IndexAt(shape, r * cols + col))
    BY <1>1, <2>1, ArgumentsHeld
  <2> QED
    BY <2>1, <2>4
<1>4. BagOf(f) = BagOf(g)
  <2>1. DOMAIN f = Upto(cols) /\ DOMAIN g = R
    OBVIOUS
  <2> HIDE DEF f, g, r
  <2> QED
    BY <1>1, <1>3, <2>1, RowBag DEF r
<1>5. RowListed(c, cols, r) = RowIndexed(c, ix)
  BY <1>2, <1>4 DEF RowListed, RowIndexed
<1>6. NormedAt(c, q, RowListed(c, cols, r)) = NormedOf(c, ix, RowIndexed(c, ix))
  BY <1>1, <1>5, ArgumentsHeld
<1> HIDE DEF ix, r
<1> QED
  BY <1>2, <1>6 DEF SoftmaxAt, SoftmaxOf, ix, r

\* The reference in these terms.
LEMMA SoftmaxIsAsked ==
  ASSUME NEW c, c.op \in Softmaxes
  PROVE  Reference(c) = [out |-> ResultOf(ShapeOf(c, 1), SoftmaxOf(c))]
<1>1. CASE c.op = "softmax"
  <2>1. \A ix : RowIndexed(c, ix) = SumOf(RowOf(c, 1, ix), LAMBDA jx : Apply("exp", X(c, 1, jx)))
    BY <1>1 DEF RowIndexed, AddedOf, RowTerm, SumOf
  <2>2. SoftmaxOf(c) =
          [ix \in Indices(ShapeOf(c, 1)) |->
             Times(Apply("exp", X(c, 1, ix)),
                   Apply("rcp", SumOf(RowOf(c, 1, ix), LAMBDA jx : Apply("exp", X(c, 1, jx)))))]
    BY <1>1, <2>1 DEF SoftmaxOf, NormedOf, Normed
  <2> QED
    BY <1>1, <2>2 DEF Reference, InPlace, Result
<1>2. CASE c.op = "softmax_backward"
  <2>1. \A ix : RowIndexed(c, ix) = SumOf(RowOf(c, 1, ix), LAMBDA jx : Times(X(c, 1, jx), X(c, 2, jx)))
    BY <1>2 DEF RowIndexed, AddedOf, RowTerm, SumOf
  <2>2. SoftmaxOf(c) =
          [ix \in Indices(ShapeOf(c, 1)) |->
             Times(X(c, 2, ix),
                   Minus(X(c, 1, ix),
                         SumOf(RowOf(c, 1, ix), LAMBDA jx : Times(X(c, 1, jx), X(c, 2, jx)))))]
    BY <1>2, <2>1 DEF SoftmaxOf, NormedOf, Normed
  <2> QED
    BY <1>2, <2>2 DEF Reference, InPlace, Result
<1> QED
  BY <1>1, <1>2 DEF Softmaxes

-----------------------------------------------------------------------------
\* A dot product of consecutive elements.
LEMMA ConsecutiveDot ==
  ASSUME NEW x, NEW y, NEW b \in Nat, NEW n \in Nat
  PROVE  dot_strided(x, b, 1, y, b, 1, n) =
           <<"sum", BagOf([col \in Upto(n) |-> Times(At(x, b + col), At(y, b + col))])>>
<1>1. \A col \in Upto(n) : b + col * 1 = b + col
  BY DEF Upto
<1>2. [col \in Upto(n) |-> Times(At(x, b + col * 1), At(y, b + col * 1))]
        = [col \in Upto(n) |-> Times(At(x, b + col), At(y, b + col))]
  BY <1>1
<1> QED
  BY <1>2 DEF dot_strided, SumOf

\* A place of a row that counts is one of the tensor's.
LEMMA PlaceFits ==
  ASSUME NEW n \in Nat, NEW cols \in Nat \ {0}, NEW i \in Nat, i < n \div cols,
         NEW col \in 0..(cols - 1)
  PROVE  i * cols + col \in Upto(n)
<1> DEFINE rows == n \div cols
<1>1. rows \in Nat /\ rows * cols <= n
  BY RowsFit
<1> HIDE DEF rows
<1> DEFINE e == i * cols + col
           m == rows * cols
<1>2. e \in Nat /\ e < m /\ m \in Nat
  BY <1>1, RowPlace DEF rows
<1> HIDE DEF e, m
<1>3. m <= n
  BY <1>1 DEF m
<1>4. e \in Upto(n)
  BY <1>2, <1>3 DEF Upto
<1> QED
  BY <1>4 DEF e

\* What a softmax's launch stores, row by row.
SoftmaxRows(c, rows, cols) ==
  [total |-> rows, shared |-> TRUE,
   stores |-> [i \in Upto(rows) |->
                 [e \in {i * cols + col : col \in Upto(cols)} |-> NormedAt(c, e, RowListed(c, cols, i))]]]

\* It is the loop of the launch.
LEMMA SoftmaxLoop ==
  ASSUME NEW c, c.op \in Softmaxes, NEW l, l.kernel[1] = c.op, l.kernel[2] # "host",
         NEW rows \in Nat, NEW cols \in Nat, l.num.rows = rows, l.num.cols = cols,
         NEW x, x[1] = Before(c, 1), c.op = "softmax_backward" => x[2] = Before(c, 2)
  PROVE  Stored(l, x) = SoftmaxRows(c, rows, cols)
<1>1. Stored(l, x) = Kernel(l, x)
  BY DEF Stored
<1>2. CASE c.op = "softmax"
  BY <1>1, <1>2 DEF Kernel, softmax, Rows, Loop, SoftmaxRows, NormedAt, Normed, RowListed, AddedAt, RowTerm, SumOf
<1>3. CASE c.op = "softmax_backward"
  <2>1. ASSUME NEW i \in Upto(rows)
        PROVE  RowListed(c, cols, i) = dot_strided(x[1], i * cols, 1, x[2], i * cols, 1, cols)
    <3>1. i * cols \in Nat
      BY DEF Upto
    <3> QED
      BY <1>3, <3>1, ConsecutiveDot DEF RowListed, AddedAt, RowTerm
  <2>2. Kernel(l, x) = softmax_backward(x[1], x[2], rows, cols)
    BY <1>3 DEF Kernel
  <2>3. ASSUME NEW i \in Upto(rows), NEW e
        PROVE  NormedAt(c, e, RowListed(c, cols, i)) =
                 Times(At(x[2], e), Minus(At(x[1], e), dot_strided(x[1], i * cols, 1, x[2], i * cols, 1, cols)))
    BY <1>3, <2>1 DEF NormedAt, Normed
  <2> QED
    BY <1>1, <2>2, <2>3 DEF softmax_backward, Rows, Loop, SoftmaxRows
<1> QED
  BY <1>2, <1>3 DEF Softmaxes

\* The plans of softmax and its backward.
LEMMA SoftmaxPlans ==
  ASSUME NEW c
  PROVE  /\ c.op = "softmax" => PlanOf(c) = softmax_impl(c.in[1], c.arg.dim)
         /\ c.op = "softmax_backward" => PlanOf(c) = softmax_backward_data(c.in[1], c.in[2], c.arg.dim)
<1>1. CASE c.op = "softmax"
  BY <1>1 DEF PlanOf, MiniGpuOps, aten_impl
<1>2. CASE c.op = "softmax_backward"
  BY <1>2 DEF PlanOf, MiniGpuOps, aten_impl
<1> QED
  BY <1>1, <1>2

\* It suffices that a launch passes the arguments and the new tensor's rows.
LEMMA SoftmaxLaunchSuffices ==
  ASSUME NEW c, WellFormed(c), c.op \in Softmaxes, c.in[1] \in Tensors,
         c.op = "softmax_backward" =>
           2 \in DOMAIN c.in /\ c.in[2] \in Tensors /\ ShapeOf(c, 2) = ShapeOf(c, 1),
         NEW out \in Tensors, out.name = "out", out.shape = ShapeOf(c, 1), Len(out.shape) > 0,
         NEW cols, cols = Last(out), cols # 0, NEW rows, rows = Numel(out) \div cols,
         NEW l, l.kernel[1] = c.op, l.kernel[2] # "host", l.num.rows = rows, l.num.cols = cols,
         Target(l) = "out", 1 \in DOMAIN l.pointers, l.pointers[1] = c.in[1],
         c.op = "softmax_backward" => 2 \in DOMAIN l.pointers /\ l.pointers[2] = c.in[2],
         PlanOf(c) = Plan(<<out>>, <<l>>)
  PROVE  Sufficient(c)
<1> DEFINE n == Numel(out)
           w == SoftmaxAt(c, cols, n)
           k == SoftmaxRows(c, rows, cols)
<1>1. /\ out.shape \in Seq(Nat) /\ n = NumelOf(out.shape) /\ n \in Nat /\ Elements(out) = Upto(n)
      /\ cols = out.shape[Len(out.shape)] /\ cols \in Nat \ {0}
  BY NumelIsNat, LastIsNat DEF Tensors, Numel, Elements, Last, Dim
<1>2. rows \in Nat
  BY <1>1, RowsFit
<1>3. /\ k.total = rows
      /\ \A i \in Upto(rows) : k.stores[i] = [e \in {i * cols + col : col \in Upto(cols)} |->
                                                NormedAt(c, e, RowListed(c, cols, i))]
  BY DEF SoftmaxRows
<1>4. OneLoop(c, out, l, k)
  <2>1. ASSUME NEW m, Holds(c, m) PROVE Stored(l, ReadFrom(l, m)) = k
    <3> DEFINE x == ReadFrom(l, m)
    <3>1. x[1] = Before(c, 1)
      BY <2>1, InputNames DEF ReadFrom, Holds
    <3>2. c.op = "softmax_backward" => x[2] = Before(c, 2)
      BY <2>1 DEF ReadFrom, Holds
    <3> HIDE DEF x
    <3>3. Stored(l, x) = SoftmaxRows(c, rows, cols)
      BY <1>1, <1>2, <3>1, <3>2, SoftmaxLoop
    <3> QED
      BY <3>3 DEF x
  <2> HIDE DEF k
  <2> QED
    BY <2>1 DEF OneLoop
<1>5. w = [q \in Elements(out) |-> w[q]]
  BY <1>1 DEF SoftmaxAt
<1>6. \A q \in Elements(out) : w[q] = SoftmaxOf(c)[IndexAt(out.shape, q)]
  <2> SUFFICES ASSUME NEW q \in Upto(NumelOf(out.shape))
               PROVE  SoftmaxAt(c, cols, NumelOf(out.shape))[q] = SoftmaxOf(c)[IndexAt(out.shape, q)]
    BY <1>1
  <2> QED
    BY <1>1, SoftmaxByPosition
<1>7. Reference(c) = [out |-> ResultOf(out.shape, SoftmaxOf(c))]
  BY SoftmaxIsAsked
<1> HIDE DEF k
<1>8. ASSUME NEW i \in Upto(rows)
      PROVE  k.stores[i] = [e \in {i * cols + col : col \in Upto(cols)} |-> w[e]]
  <2> DEFINE E == {i * cols + col : col \in Upto(cols)}
  <2>1. ASSUME NEW e \in E PROVE w[e] = NormedAt(c, e, RowListed(c, cols, i))
    <3>1. PICK col \in Upto(cols) : e = i * cols + col
      OBVIOUS
    <3>2. i \in Nat /\ i < n \div cols /\ col \in 0..(cols - 1)
      BY <1>1, <1>2 DEF Upto
    <3>3. e \div cols = i
      BY <1>1, <3>1, <3>2, RowAndColumn
    <3>4. e \in Upto(n)
      BY <1>1, <3>1, <3>2, PlaceFits
    <3> QED
      BY <3>3, <3>4 DEF SoftmaxAt
  <2>2. k.stores[i] = [e \in E |-> NormedAt(c, e, RowListed(c, cols, i))]
    BY <1>3
  <2> HIDE DEF E, w
  <2>3. k.stores[i] = [e \in E |-> w[e]]
    BY <2>1, <2>2
  <2> QED
    BY <2>3 DEF E
<1> HIDE DEF w
<1>9. RowsTo(k, Numel(out) \div cols, cols, w)
  BY <1>3, <1>8 DEF RowsTo
<1> DEFINE f == SoftmaxOf(c)
<1>10. Reference(c) = [out |-> ResultOf(out.shape, f)] /\ \A q \in Elements(out) : w[q] = f[IndexAt(out.shape, q)]
  BY <1>6, <1>7
<1> HIDE DEF f
<1> QED
  BY <1>4, <1>5, <1>9, <1>10, RowsSuffice

\* softmax and its backward.
LEMMA SoftmaxesSuffice ==
  ASSUME NEW c, WellFormed(c), c.op \in Softmaxes, PlanOf(c).kind = "launching"
  PROVE  Sufficient(c)
<1>1. c.in[1] \in Tensors /\ 1 \in DOMAIN c.in
  BY InputNames, CallTensors
<1>2. "out" \in NewNames
  BY DEF NewNames
<1>3. CASE c.op = "softmax"
  <2> DEFINE a == c.in[1]
             out == EmptyLike("out", a)
             cols == Last(a)
             rows == Numel(a) \div cols
             l == LaunchFp32("softmax", <<a, out>>, [rows |-> rows, cols |-> cols])
  <2>1. PlanOf(c) = softmax_impl(a, c.arg.dim)
    BY <1>3, SoftmaxPlans
  <2>2. PlanOf(c) = Plan(<<out>>, <<l>>) /\ Dim(a) > 0 /\ cols # 0
    BY <2>1 DEF softmax_impl, Refused, Crashes
  <2>3. /\ out \in Tensors /\ out.name = "out" /\ out.shape = ShapeOf(c, 1) /\ Numel(out) = Numel(a)
        /\ Last(out) = cols /\ Len(out.shape) > 0
    BY <1>1, <1>2, <2>2, LikeIs DEF Last, Dim, ShapeOf
  <2> HIDE DEF rows, cols, out
  <2>4. l.kernel[1] = "softmax" /\ l.kernel[2] # "host" /\ l.num.rows = rows /\ l.num.cols = cols
        /\ l.pointers = <<a, out>>
    BY DEF LaunchFp32, Launch
  <2> HIDE DEF l
  <2>5. Target(l) = "out" /\ 1 \in DOMAIN l.pointers /\ l.pointers[1] = a
    BY <2>3, <2>4 DEF Target
  <2>6. cols = Last(out) /\ rows = Numel(out) \div cols
    BY <2>3 DEF rows
  <2> QED
    BY <1>1, <1>3, <2>2, <2>3, <2>4, <2>5, <2>6, SoftmaxLaunchSuffices
<1>4. CASE c.op = "softmax_backward"
  <2> DEFINE a == c.in[1]
             b == c.in[2]
             out == EmptyLike("out", b)
             cols == Last(b)
             rows == Numel(b) \div cols
             l == LaunchFp32("softmax_backward", <<a, b, out>>, [rows |-> rows, cols |-> cols])
  <2>1. b \in Tensors /\ 2 \in DOMAIN c.in
    <3>1. c.op \in TwoTensors /\ c.op \notin OneTensor
      BY <1>4 DEF TwoTensors, OneTensor
    <3> QED
      BY <3>1, InputNames, CallTensors
  <2>2. PlanOf(c) = softmax_backward_data(a, b, c.arg.dim)
    BY <1>4, SoftmaxPlans
  <2>3. PlanOf(c) = Plan(<<out>>, <<l>>) /\ Dim(b) > 0 /\ cols # 0 /\ SameShape(a, b)
    BY <2>2 DEF softmax_backward_data, Refused, Crashes
  <2>4. /\ out \in Tensors /\ out.name = "out" /\ out.shape = ShapeOf(c, 1) /\ Numel(out) = Numel(b)
        /\ Last(out) = cols /\ Len(out.shape) > 0 /\ ShapeOf(c, 2) = ShapeOf(c, 1)
    BY <1>2, <2>1, <2>3, LikeIs DEF Last, Dim, ShapeOf, SameShape
  <2> HIDE DEF rows, cols, out
  <2>5. l.kernel[1] = "softmax_backward" /\ l.kernel[2] # "host" /\ l.num.rows = rows /\ l.num.cols = cols
        /\ l.pointers = <<a, b, out>>
    BY DEF LaunchFp32, Launch
  <2> HIDE DEF l
  <2>6. Target(l) = "out" /\ 1 \in DOMAIN l.pointers /\ 2 \in DOMAIN l.pointers
        /\ l.pointers[1] = a /\ l.pointers[2] = b
    BY <2>4, <2>5 DEF Target
  <2>7. cols = Last(out) /\ rows = Numel(out) \div cols
    BY <2>4 DEF rows
  <2> QED
    BY <1>1, <1>4, <2>1, <2>3, <2>4, <2>5, <2>6, <2>7, SoftmaxLaunchSuffices
<1> QED
  BY <1>3, <1>4 DEF Softmaxes

-----------------------------------------------------------------------------
\* A loop that maps fills its tensor, each element at the iteration of its number.
LEMMA MapFills ==
  ASSUME NEW k, NEW n, NEW w, MapsTo(k, n, w)
  PROVE  Fills(k, n, w) /\ \A e \in Upto(n) : e \in Upto(k.total) /\ e \in DOMAIN k.stores[e]
<1>1. ASSUME NEW i \in Upto(k.total), NEW e \in DOMAIN k.stores[i]
      PROVE  e \in Upto(n) /\ k.stores[i][e] = w[e]
  <2>1. k.stores[i] = [j \in {i} |-> w[i]] /\ i \in Upto(n)
    BY DEF MapsTo
  <2> QED
    BY <2>1
<1>2. \A e \in Upto(n) : e \in Upto(k.total) /\ e \in DOMAIN k.stores[e]
  BY DEF MapsTo
<1> QED
  BY <1>1, <1>2 DEF Fills

\* The j-th launch of call c's plan stores v[j], one element an iteration.
MapsInto(c, j, k, v) ==
  LET l == PlanOf(c).launches[j]
      t == PlanOf(c).fresh[j]
  IN /\ t \in Tensors /\ Target(l) = t.name
     /\ v[j] = [e \in Elements(t) |-> v[j][e]] /\ MapsTo(k, Numel(t), v[j])
     /\ \A m : ReadyFor(c, j, v, m) => Stored(l, ReadFrom(l, m)) = k

\* What the reference asks for under this name is v[j], position by position.
Promised(c, name, j, v) ==
  LET t == PlanOf(c).fresh[j]
  IN /\ t.name = name
     /\ \E f : /\ Reference(c)[name] = ResultOf(t.shape, f)
               /\ \A q \in Elements(t) : v[j][q] = f[IndexAt(t.shape, q)]

\* A plan of several launches suffices if each makes what is asked for.
LEMMA StepsSuffice ==
  ASSUME NEW c, PlanOf(c).copy = <<>>, PlanOf(c).view = <<>>,
         Len(PlanOf(c).launches) = Len(PlanOf(c).fresh), NEW loops, NEW v,
         \A j \in DOMAIN PlanOf(c).fresh : PlanOf(c).fresh[j] \in Tensors /\ Launches(c, j, loops[j], v),
         \A name \in DOMAIN Reference(c) : \E j \in DOMAIN PlanOf(c).fresh : Promised(c, name, j, v)
  PROVE  Sufficient(c)
<1>1. ASSUME NEW name \in DOMAIN Reference(c)
      PROVE  \E j \in DOMAIN PlanOf(c).fresh :
               /\ PlanOf(c).fresh[j].name = name
               /\ PlanOf(c).fresh[j].shape = Reference(c)[name].shape
               /\ v[j] = Reference(c)[name].flat
  <2>1. PICK j \in DOMAIN PlanOf(c).fresh : Promised(c, name, j, v)
    OBVIOUS
  <2> DEFINE t == PlanOf(c).fresh[j]
  <2>2. t \in Tensors /\ v[j] = [e \in Elements(t) |-> v[j][e]]
    BY DEF Launches
  <2>3. t.shape \in Seq(Nat) /\ Elements(t) = Upto(NumelOf(t.shape))
    BY <2>2 DEF Tensors, Elements, Numel
  <2>4. PICK f : /\ Reference(c)[name] = ResultOf(t.shape, f)
                 /\ \A q \in Elements(t) : v[j][q] = f[IndexAt(t.shape, q)]
    BY <2>1 DEF Promised
  <2>5. ResultOf(t.shape, f) = [shape |-> t.shape, flat |-> v[j]]
    <3> DEFINE w == v[j]
               shape == t.shape
    <3>1. w = [q \in Upto(NumelOf(shape)) |-> w[q]] /\ shape \in Seq(Nat)
          /\ \A q \in Upto(NumelOf(shape)) : w[q] = f[IndexAt(shape, q)]
      BY <2>2, <2>3, <2>4
    <3> HIDE DEF w, shape
    <3>2. ResultOf(shape, f) = [shape |-> shape, flat |-> w]
      BY <3>1, ResultByPosition
    <3> QED
      BY <3>2 DEF w, shape
  <2>6. Reference(c)[name].shape = t.shape /\ Reference(c)[name].flat = v[j]
    BY <2>4, <2>5
  <2> QED
    BY <2>1, <2>6 DEF Promised
<1>2. ComesTo(c, loops, v)
  BY <1>1 DEF ComesTo, Asked
<1> QED
  BY <1>2 DEF Sufficient

\* A plan of several launches of that kind suffices.
LEMMA MapsSuffice ==
  ASSUME NEW c, PlanOf(c).copy = <<>>, PlanOf(c).view = <<>>,
         Len(PlanOf(c).launches) = Len(PlanOf(c).fresh), NEW loops, NEW v,
         \A j \in DOMAIN PlanOf(c).fresh : MapsInto(c, j, loops[j], v),
         \A name \in DOMAIN Reference(c) : \E j \in DOMAIN PlanOf(c).fresh : Promised(c, name, j, v)
  PROVE  Sufficient(c)
<1>1. ASSUME NEW j \in DOMAIN PlanOf(c).fresh PROVE Launches(c, j, loops[j], v)
  <2>1. MapsInto(c, j, loops[j], v)
    OBVIOUS
  <2> DEFINE t == PlanOf(c).fresh[j]
  <2>2. MapsTo(loops[j], Numel(t), v[j])
    BY <2>1 DEF MapsInto
  <2>3. Fills(loops[j], Numel(t), v[j])
        /\ \A e \in Elements(t) : e \in Upto(loops[j].total) /\ e \in DOMAIN loops[j].stores[e]
    BY <2>2, MapFills DEF Elements
  <2> QED
    BY <2>1, <2>3 DEF MapsInto, Launches
<1>2. \A j \in DOMAIN PlanOf(c).fresh : PlanOf(c).fresh[j] \in Tensors
  BY DEF MapsInto
<1> QED
  BY <1>1, <1>2, StepsSuffice

-----------------------------------------------------------------------------
\* The losses whose gradient is taken element by element, and the gradient at a
\* difference d, of n elements.
Regressions == {"mse", "l1", "l2"}
Slope(c, g, d, n) ==
  CASE c.arg.loss = "mse" -> Times(Times(g, TwoOver(n)), d)
    [] c.arg.loss = "l1"  -> Times(Times(g, OneOver(n)), Apply("sign", d))
    [] c.arg.loss = "l2"  -> Times(g, d)

\* At position q of the arguments, and of minus that; the loops that store them.
SlopeAt(c, q) == Slope(c, At(Before(c, 1), 0), Minus(At(Before(c, 2), q), At(Before(c, 3), q)), Numel(c.in[2]))
Slopes(c)     == [q \in Upto(Numel(c.in[2])) |-> SlopeAt(c, q)]
Opposites(c)  == [q \in Upto(Numel(c.in[2])) |-> Times(Scalar("-1"), SlopeAt(c, q))]
LoopOver(w, n) == [total |-> n, shared |-> TRUE, stores |-> [i \in Upto(n) |-> [j \in {i} |-> w[i]]]]

\* Such a loop maps.
LEMMA LoopOverMaps == ASSUME NEW w, NEW n PROVE MapsTo(LoopOver(w, n), n, w)
  BY DEF MapsTo, LoopOver

\* The tensors of such a call.
LEMMA LossTensors ==
  ASSUME NEW c, WellFormed(c), c.op = "loss_grad"
  PROVE  /\ c.in[1] \in Tensors /\ c.in[2] \in Tensors /\ c.in[3] \in Tensors
         /\ 1 \in DOMAIN c.in /\ 2 \in DOMAIN c.in /\ 3 \in DOMAIN c.in
<1>1. c.op \in ThreeTensors /\ c.op \notin OneTensor /\ c.op \notin TwoTensors
  BY DEF ThreeTensors, OneTensor, TwoTensors
<1>2. c.in \in Seq(Tensors) /\ Len(c.in) = 3
  BY <1>1 DEF WellFormed
<1> QED
  BY <1>1, <1>2, CallTensors

\* By position and by index it is the same.
LEMMA SlopeIs ==
  ASSUME NEW c, c.in[1] \in Tensors, c.in[2] \in Tensors, c.in[3] \in Tensors, ShapeOf(c, 3) = ShapeOf(c, 2),
         Numel(c.in[1]) = 1, c.arg.loss \in Regressions, NEW q \in Upto(Numel(c.in[2]))
  PROVE  SlopeAt(c, q) = LossGradient(c, IndexAt(ShapeOf(c, 2), q))
<1> DEFINE ix == IndexAt(ShapeOf(c, 2), q)
<1>1. Numel(c.in[3]) = Numel(c.in[2])
  BY DEF Numel, ShapeOf
<1>2. At(Before(c, 2), q) = X(c, 2, ix) /\ At(Before(c, 3), q) = X(c, 3, ix)
  BY <1>1, HeldAt
<1>3. At(Before(c, 1), 0) = InputAt(c, 1, 0)
  BY AtBefore DEF Elements, Upto
<1>4. CountOf(c, 2) = Numel(c.in[2])
  BY AsManyIndices DEF CountOf, AllOf, ShapeOf, Numel, Tensors
<1> HIDE DEF ix
<1>5. LossGradient(c, ix) = Slope(c, InputAt(c, 1, 0), Minus(X(c, 2, ix), X(c, 3, ix)), CountOf(c, 2))
  BY DEF LossGradient, Slope, Regressions, TwoOver, OneOver
<1> QED
  BY <1>2, <1>3, <1>4, <1>5 DEF SlopeAt, ix

\* The launch that computes it.
SlopeLaunch(c) ==
  LET n == Numel(c.in[2])
      pointers == <<c.in[1], c.in[2], c.in[3], EmptyLike("grad", c.in[2])>>
  IN CASE c.arg.loss = "mse" -> LaunchFp32("mse_loss_backward", pointers, [n |-> n, scale |-> TwoOver(n)])
       [] c.arg.loss = "l1"  -> LaunchFp32("l1_loss_backward", pointers, [n |-> n, scale |-> OneOver(n)])
       [] c.arg.loss = "l2"  -> LaunchFp32("l2_loss_backward", pointers, [n |-> n])
NegLaunch(c) == launch_scal(EmptyLike("grad", c.in[2]), EmptyLike("grad_target", c.in[2]), "-1")

\* The gradient of the loss alone is that launch, behind its checks.
LEMMA BasePlan ==
  ASSUME NEW c, c.arg.loss \in Regressions
  PROVE  LET base == run_loss_backward(c.arg.loss, c.in[1], c.in[2], c.in[3])
         IN \/ base = Refused
            \/ /\ base = Plan(<<EmptyLike("grad", c.in[2])>>, <<SlopeLaunch(c)>>)
               /\ LossArgs(c.in[2], c.in[3]) /\ Numel(c.in[1]) = 1
<1>1. CASE c.arg.loss = "mse"
  BY <1>1 DEF run_loss_backward, mse_loss_backward_op, Check, SlopeLaunch
<1>2. CASE c.arg.loss = "l1"
  BY <1>2 DEF run_loss_backward, l1_loss_backward_op, Check, SlopeLaunch
<1>3. CASE c.arg.loss = "l2"
  BY <1>3 DEF run_loss_backward, l2_loss_backward_op, Check, SlopeLaunch
<1> QED
  BY <1>1, <1>2, <1>3 DEF Regressions

\* The plan: nothing, the gradient of the prediction, or of both.
LEMMA LossGradPlan ==
  ASSUME NEW c, c.op = "loss_grad", c.arg.loss \in Regressions, PlanOf(c).kind = "launching"
  PROVE  LET none == Plan(<<>>, <<>>)
             one == Plan(<<EmptyLike("grad", c.in[2])>>, <<SlopeLaunch(c)>>)
             two == Plan(<<EmptyLike("grad", c.in[2]), EmptyLike("grad_target", c.in[2])>>,
                         <<SlopeLaunch(c), NegLaunch(c)>>)
         IN /\ PlanOf(c) \in {none, one, two}
            /\ PlanOf(c) = none => c.arg.needs[1] # TRUE /\ c.arg.needs[2] # TRUE
            /\ PlanOf(c) = one => c.arg.needs[2] # TRUE
            /\ PlanOf(c) # none => LossArgs(c.in[2], c.in[3]) /\ Numel(c.in[1]) = 1
<1> DEFINE loss == c.arg.loss
           needs == c.arg.needs
           g == c.in[1]
           input == c.in[2]
           target == c.in[3]
           grad == EmptyLike("grad", input)
           neg == EmptyLike("grad_target", input)
           s == SlopeLaunch(c)
           k == NegLaunch(c)
           p == PlanOf(c)
           base == run_loss_backward(loss, g, input, target)
           both == [base EXCEPT !.fresh = Append(@, neg),
                                !.launches = Append(@, launch_scal(base.fresh[1], neg, "-1"))]
           one == Plan(<<grad>>, <<s>>)
           two == Plan(<<grad, neg>>, <<s, k>>)
           none == Plan(<<>>, <<>>)
           fits == LossArgs(input, target) /\ Numel(g) = 1
<1>1. p = loss_autograd_backward(loss, g, input, target, needs)
  BY DEF PlanOf, MiniGpuOps, minigpu_impl
<1>2. loss # "cross_entropy"
  BY DEF Regressions
<1>3. base = Refused \/ (base = one /\ fits)
  BY BasePlan
<1>4. p # Refused
  BY DEF Refused
<1>5. k = launch_scal(grad, neg, "-1")
  BY DEF NegLaunch
<1> HIDE DEF loss, needs, g, input, target, s, k, p, base, fits
<1>6. p = IF needs[2] /\ loss # "cross_entropy" /\ base # Refused THEN both
          ELSE IF needs[1] \/ needs[2] THEN base ELSE none
  BY <1>1 DEF loss_autograd_backward, base
<1>7. ASSUME base = one PROVE both = two
  <2>1. base.fresh[1] = grad
    BY <1>7 DEF Plan
  <2>2. both = AndAlso(one, neg, k)
    BY <1>5, <1>7, <2>1 DEF AndAlso
  <2> HIDE DEF both, grad, neg
  <2> QED
    BY <2>2, OneLaunchMore
<1>8. one # two /\ one # none /\ none # two
  <2>1. Len(one.fresh) = 1 /\ Len(two.fresh) = 2 /\ Len(none.fresh) = 0
    BY DEF Plan
  <2> HIDE DEF one, two, none
  <2>2. 0 # 1 /\ 0 # 2 /\ 1 # 2
    OBVIOUS
  <2> QED
    BY <2>1, <2>2, Zenon
<1> HIDE DEF both, one, two, none
<1>9. /\ p \in {none, one, two}
      /\ p = none => needs[1] # TRUE /\ needs[2] # TRUE
      /\ p = one => needs[2] # TRUE
      /\ p # none => fits
  <2>1. CASE needs[2] /\ base # Refused
    BY <1>2, <1>3, <1>6, <1>7, <1>8, <2>1
  <2>2. CASE ~(needs[2] /\ base # Refused)
    <3>1. p = IF needs[1] \/ needs[2] THEN base ELSE none
      BY <1>6, <2>2
    <3>2. CASE needs[1] \/ needs[2]
      BY <1>3, <1>4, <1>8, <2>2, <3>1, <3>2
    <3>3. CASE ~(needs[1] \/ needs[2])
      BY <1>8, <3>1, <3>3
    <3> QED
      BY <3>2, <3>3
  <2> QED
    BY <2>1, <2>2
<1> QED
  BY <1>9, Zenon DEF p, none, one, two, needs, fits, grad, neg, s, k, input, target, g

\* What the reference asks for.
LEMMA LossGradAsked ==
  ASSUME NEW c, c.op = "loss_grad", c.arg.loss \in Regressions, NEW name \in DOMAIN Reference(c)
  PROVE  LET shape == ShapeOf(c, 2)
         IN \/ /\ name = "grad" /\ c.arg.needs[1] = TRUE
               /\ Reference(c)[name] = ResultOf(shape, [ix \in Indices(shape) |-> LossGradient(c, ix)])
            \/ /\ name = "grad_target" /\ c.arg.needs[2] = TRUE
               /\ Reference(c)[name] =
                    ResultOf(shape, [ix \in Indices(shape) |-> Times(Scalar("-1"), LossGradient(c, ix))])
<1> DEFINE shape == ShapeOf(c, 2)
           both == [grad |-> ResultOf(shape, [ix \in Indices(shape) |-> LossGradient(c, ix)]),
                    grad_target |->
                      ResultOf(shape, [ix \in Indices(shape) |-> Times(Scalar("-1"), LossGradient(c, ix))])]
           needs == c.arg.needs
           names == {<<"grad", "grad_target">>[i] : i \in {j \in 1..2 : needs[j]}}
                      \ (IF c.arg.loss = "cross_entropy" THEN {"grad_target"} ELSE {})
<1>1. Reference(c) = Only(names, both)
  BY DEF Reference, InPlace, Result
<1>2. both["grad"] = ResultOf(shape, [ix \in Indices(shape) |-> LossGradient(c, ix)])
      /\ both["grad_target"] =
           ResultOf(shape, [ix \in Indices(shape) |-> Times(Scalar("-1"), LossGradient(c, ix))])
      /\ DOMAIN both = {"grad", "grad_target"}
  OBVIOUS
<1> HIDE DEF both, needs
<1>3. \A n \in names : (n = "grad" /\ needs[1] = TRUE) \/ (n = "grad_target" /\ needs[2] = TRUE)
  <2> TAKE n \in names
  <2>1. PICK j \in {i \in 1..2 : needs[i]} : n = <<"grad", "grad_target">>[j]
    OBVIOUS
  <2>2. (j = 1 \/ j = 2) /\ needs[j]
    OBVIOUS
  <2> HIDE DEF names
  <2> QED
    BY <2>1, <2>2
<1> HIDE DEF names
<1>4. name \in names /\ Reference(c)[name] = both[name]
  BY <1>1 DEF Only
<1> QED
  BY <1>2, <1>3, <1>4 DEF needs

\* The kernels of these gradients, each a loop over the elements.
LEMMA LossKernels ==
  ASSUME NEW x, NEW n, NEW k, NEW f, f = [q \in Upto(n) |-> f[q]]
  PROVE  /\ (\A q \in Upto(n) : f[q] = Times(Times(At(x[1], 0), k), Minus(At(x[2], q), At(x[3], q))))
              => mse_loss_backward(x[1], x[2], x[3], n, k) = LoopOver(f, n)
         /\ (\A q \in Upto(n) :
               f[q] = Times(Times(At(x[1], 0), k), Apply("sign", Minus(At(x[2], q), At(x[3], q)))))
              => l1_loss_backward(x[1], x[2], x[3], n, k) = LoopOver(f, n)
         /\ (\A q \in Upto(n) : f[q] = Times(At(x[1], 0), Minus(At(x[2], q), At(x[3], q))))
              => l2_loss_backward(x[1], x[2], x[3], n) = LoopOver(f, n)
<1>1. (\A q \in Upto(n) : f[q] = Times(Times(At(x[1], 0), k), Minus(At(x[2], q), At(x[3], q))))
        => mse_loss_backward(x[1], x[2], x[3], n, k) = LoopOver(f, n)
  BY DEF mse_loss_backward, Map, Loop, LoopOver
<1>2. (\A q \in Upto(n) : f[q] = Times(Times(At(x[1], 0), k), Apply("sign", Minus(At(x[2], q), At(x[3], q)))))
        => l1_loss_backward(x[1], x[2], x[3], n, k) = LoopOver(f, n)
  BY DEF l1_loss_backward, Map, Loop, LoopOver
<1>3. (\A q \in Upto(n) : f[q] = Times(At(x[1], 0), Minus(At(x[2], q), At(x[3], q))))
        => l2_loss_backward(x[1], x[2], x[3], n) = LoopOver(f, n)
  BY DEF l2_loss_backward, Map, Loop, LoopOver
<1> QED
  BY <1>1, <1>2, <1>3

\* The gradient of the prediction.
LEMMA SlopeLaunched ==
  ASSUME NEW c, c.in[2] \in Tensors, c.arg.loss \in Regressions,
         NEW x, x[1] = Before(c, 1), x[2] = Before(c, 2), x[3] = Before(c, 3)
  PROVE  /\ Stored(SlopeLaunch(c), x) = LoopOver(Slopes(c), Numel(c.in[2]))
         /\ Target(SlopeLaunch(c)) = "grad"
         /\ SlopeLaunch(c).pointers = <<c.in[1], c.in[2], c.in[3], EmptyLike("grad", c.in[2])>>
<1> DEFINE l == SlopeLaunch(c)
           n == Numel(c.in[2])
           f == Slopes(c)
<1>1. EmptyLike("grad", c.in[2]).name = "grad"
  BY LikeIs DEF NewNames
<1>2. l.pointers = <<c.in[1], c.in[2], c.in[3], EmptyLike("grad", c.in[2])>> /\ l.kernel[2] = "fp32" /\ l.num.n = n
      /\ (c.arg.loss = "mse" => l.kernel[1] = "mse_loss_backward" /\ l.num.scale = TwoOver(n))
      /\ (c.arg.loss = "l1" => l.kernel[1] = "l1_loss_backward" /\ l.num.scale = OneOver(n))
      /\ (c.arg.loss = "l2" => l.kernel[1] = "l2_loss_backward")
  BY DEF SlopeLaunch, LaunchFp32, Launch, Regressions
<1> HIDE DEF l
<1>3. Target(l) = "grad"
  BY <1>1, <1>2 DEF Target
<1>4. Stored(l, x) = Kernel(l, x)
  BY <1>2 DEF Stored
<1>5. Kernel(l, x) = LoopOver(f, n)
  <2>1. /\ f = [q \in Upto(n) |-> f[q]]
        /\ \A q \in Upto(n) : f[q] = Slope(c, At(x[1], 0), Minus(At(x[2], q), At(x[3], q)), n)
    BY DEF Slopes, SlopeAt
  <2> HIDE DEF f, n
  <2>2. CASE c.arg.loss = "mse"
    <3>1. Kernel(l, x) = mse_loss_backward(x[1], x[2], x[3], n, TwoOver(n))
      BY Zenon, <1>2, <2>2 DEF Kernel
    <3>2. \A q \in Upto(n) : f[q] = Times(Times(At(x[1], 0), TwoOver(n)), Minus(At(x[2], q), At(x[3], q)))
      BY <2>1, <2>2 DEF Slope
    <3>3. mse_loss_backward(x[1], x[2], x[3], n, TwoOver(n)) = LoopOver(f, n)
      BY <2>1, <3>2, LossKernels
    <3> QED
      BY <3>1, <3>3
  <2>3. CASE c.arg.loss = "l1"
    <3>1. Kernel(l, x) = l1_loss_backward(x[1], x[2], x[3], n, OneOver(n))
      BY Zenon, <1>2, <2>3 DEF Kernel
    <3>2. \A q \in Upto(n) :
            f[q] = Times(Times(At(x[1], 0), OneOver(n)), Apply("sign", Minus(At(x[2], q), At(x[3], q))))
      BY <2>1, <2>3 DEF Slope
    <3>3. l1_loss_backward(x[1], x[2], x[3], n, OneOver(n)) = LoopOver(f, n)
      BY <2>1, <3>2, LossKernels
    <3> QED
      BY <3>1, <3>3
  <2>4. CASE c.arg.loss = "l2"
    <3>1. Kernel(l, x) = l2_loss_backward(x[1], x[2], x[3], n)
      BY Zenon, <1>2, <2>4 DEF Kernel
    <3>2. \A q \in Upto(n) : f[q] = Times(At(x[1], 0), Minus(At(x[2], q), At(x[3], q)))
      BY <2>1, <2>4 DEF Slope
    <3>3. l2_loss_backward(x[1], x[2], x[3], n) = LoopOver(f, n)
      BY <2>1, <3>2, LossKernels
    <3> QED
      BY <3>1, <3>3
  <2> QED
    BY <2>2, <2>3, <2>4 DEF Regressions
<1> QED
  BY <1>2, <1>3, <1>4, <1>5 DEF l

\* That of the target, minus the first.
LEMMA OppositesLaunched ==
  ASSUME NEW c, c.in[2] \in Tensors, NEW x, x[1] = Slopes(c)
  PROVE  /\ Stored(NegLaunch(c), x) = LoopOver(Opposites(c), Numel(c.in[2]))
         /\ Target(NegLaunch(c)) = "grad_target"
         /\ NegLaunch(c).pointers = <<EmptyLike("grad", c.in[2]), EmptyLike("grad_target", c.in[2])>>
<1> DEFINE l == NegLaunch(c)
           n == Numel(c.in[2])
           f == [q \in Upto(n) |-> Times(Scalar("-1"), SlopeAt(c, q))]
<1>1. EmptyLike("grad_target", c.in[2]).name = "grad_target" /\ Numel(EmptyLike("grad", c.in[2])) = n
  BY LikeIs DEF NewNames
<1>2. /\ l.pointers = <<EmptyLike("grad", c.in[2]), EmptyLike("grad_target", c.in[2])>>
      /\ l.kernel[1] = "scal" /\ l.kernel[2] = "fp32" /\ l.num.alpha = Scalar("-1") /\ l.num.n = n
  BY <1>1 DEF NegLaunch, launch_scal, Launch
<1> HIDE DEF l
<1>3. Target(l) = "grad_target"
  BY <1>1, <1>2 DEF Target
<1>4. Stored(l, x) = scal(x[1], Scalar("-1"), n)
  BY <1>2 DEF Stored, Kernel
<1>5. \A q \in Upto(n) : f[q] = Times(Scalar("-1"), At(x[1], q))
  BY DEF Slopes, At
<1> HIDE DEF f
<1>6. scal(x[1], Scalar("-1"), n) = LoopOver(f, n)
  BY <1>5 DEF scal, Map, Loop, LoopOver
<1> QED
  BY <1>2, <1>3, <1>4, <1>6 DEF l, f, Opposites

\* The gradient of a loss, element by element, for whichever argument asks.
LEMMA LossGradSuffices ==
  ASSUME NEW c, WellFormed(c), c.op = "loss_grad", c.arg.loss \in Regressions, PlanOf(c).kind = "launching"
  PROVE  Sufficient(c)
<1> DEFINE n == Numel(c.in[2])
           shape == ShapeOf(c, 2)
           grad == EmptyLike("grad", c.in[2])
           neg == EmptyLike("grad_target", c.in[2])
           s == SlopeLaunch(c)
           k == NegLaunch(c)
           v == <<Slopes(c), Opposites(c)>>
           loops == <<LoopOver(Slopes(c), n), LoopOver(Opposites(c), n)>>
           none == Plan(<<>>, <<>>)
           one == Plan(<<grad>>, <<s>>)
           two == Plan(<<grad, neg>>, <<s, k>>)
           p == PlanOf(c)
           f1 == [ix \in Indices(shape) |-> LossGradient(c, ix)]
           f2 == [ix \in Indices(shape) |-> Times(Scalar("-1"), LossGradient(c, ix))]
<1>1. /\ p \in {none, one, two}
      /\ p = none => c.arg.needs[1] # TRUE /\ c.arg.needs[2] # TRUE
      /\ p = one => c.arg.needs[2] # TRUE
      /\ p # none => LossArgs(c.in[2], c.in[3]) /\ Numel(c.in[1]) = 1
  BY LossGradPlan
<1>2. c.in[1] \in Tensors /\ c.in[2] \in Tensors /\ c.in[3] \in Tensors
      /\ 1 \in DOMAIN c.in /\ 2 \in DOMAIN c.in /\ 3 \in DOMAIN c.in
  BY LossTensors
<1>3. /\ grad \in Tensors /\ grad.name = "grad" /\ Numel(grad) = n /\ grad.shape = shape
      /\ neg \in Tensors /\ neg.name = "grad_target" /\ Numel(neg) = n /\ neg.shape = shape
      /\ Elements(grad) = Upto(n) /\ Elements(neg) = Upto(n)
  BY <1>2, LikeIs DEF NewNames, ShapeOf, Elements
<1>4. /\ v[1] = Slopes(c) /\ v[2] = Opposites(c)
      /\ loops[1] = LoopOver(Slopes(c), n) /\ loops[2] = LoopOver(Opposites(c), n)
  OBVIOUS
<1>5. /\ none.copy = <<>> /\ none.view = <<>> /\ Len(none.launches) = Len(none.fresh) /\ DOMAIN none.fresh = {}
      /\ one.copy = <<>> /\ one.view = <<>> /\ Len(one.launches) = Len(one.fresh) /\ DOMAIN one.fresh = {1}
      /\ two.copy = <<>> /\ two.view = <<>> /\ Len(two.launches) = Len(two.fresh) /\ DOMAIN two.fresh = {1, 2}
      /\ one.fresh[1] = grad /\ one.launches[1] = s
      /\ two.fresh[1] = grad /\ two.launches[1] = s /\ two.fresh[2] = neg /\ two.launches[2] = k
  <2> HIDE DEF grad, neg, s, k
  <2> QED
    BY DEF Plan
<1> HIDE DEF v, loops, none, one, two, p, grad, neg, s, k, n, shape
<1>6. ASSUME p # none
      PROVE  \A q \in Upto(n) : SlopeAt(c, q) = f1[IndexAt(shape, q)] /\ IndexAt(shape, q) \in Indices(shape)
  <2> TAKE q \in Upto(n)
  <2>1. ShapeOf(c, 3) = ShapeOf(c, 2) /\ Numel(c.in[1]) = 1
    BY <1>1, <1>6 DEF LossArgs, SameShape, ShapeOf
  <2>2. SlopeAt(c, q) = LossGradient(c, IndexAt(shape, q))
    BY <1>2, <2>1, SlopeIs DEF n, shape
  <2>3. IndexAt(shape, q) \in Indices(shape)
    BY <1>2, IndexAtIs DEF n, shape, ShapeOf, Numel, Tensors
  <2> QED
    BY <2>2, <2>3
<1>7. ASSUME p # none PROVE 1 \in DOMAIN p.fresh => MapsInto(c, 1, loops[1], v)
  <2>1. p.fresh[1] = grad /\ p.launches[1] = s
    BY <1>1, <1>5, <1>7
  <2>2. Target(s) = "grad" /\ s.pointers = <<c.in[1], c.in[2], c.in[3], grad>>
    <3> DEFINE x == <<Before(c, 1), Before(c, 2), Before(c, 3)>>
    <3>1. x[1] = Before(c, 1) /\ x[2] = Before(c, 2) /\ x[3] = Before(c, 3)
      OBVIOUS
    <3> HIDE DEF x
    <3> QED
      BY <1>2, <3>1, SlopeLaunched DEF s, grad
  <2>3. ASSUME NEW m, ReadyFor(c, 1, v, m) PROVE Stored(s, ReadFrom(s, m)) = loops[1]
    <3> DEFINE x == ReadFrom(s, m)
    <3>1. x[1] = Before(c, 1) /\ x[2] = Before(c, 2) /\ x[3] = Before(c, 3)
      BY <1>2, <2>2, <2>3 DEF ReadFrom, ReadyFor
    <3> HIDE DEF x
    <3>2. Stored(SlopeLaunch(c), x) = LoopOver(Slopes(c), Numel(c.in[2]))
      BY <1>2, <3>1, SlopeLaunched
    <3> QED
      BY <1>4, <3>2 DEF s, n, x
  <2>4. Slopes(c) = [e \in Elements(grad) |-> Slopes(c)[e]]
    BY <1>3 DEF Slopes, n
  <2>5. MapsTo(loops[1], n, v[1])
    BY <1>4, LoopOverMaps
  <2> QED
    BY <1>3, <1>4, <2>1, <2>2, <2>3, <2>4, <2>5 DEF MapsInto, p
<1>8. ASSUME p = two PROVE MapsInto(c, 2, loops[2], v)
  <2>1. p.fresh[1] = grad /\ p.fresh[2] = neg /\ p.launches[2] = k
    BY <1>5, <1>8
  <2>2. Target(k) = "grad_target" /\ k.pointers = <<grad, neg>>
    <3> DEFINE x == <<Slopes(c)>>
    <3>1. x[1] = Slopes(c)
      OBVIOUS
    <3> HIDE DEF x
    <3> QED
      BY <1>2, <3>1, OppositesLaunched DEF k, grad, neg
  <2>3. ASSUME NEW m, ReadyFor(c, 2, v, m) PROVE Stored(k, ReadFrom(k, m)) = loops[2]
    <3> DEFINE x == ReadFrom(k, m)
    <3>1. m[grad.name] = v[1]
      BY <2>1, <2>3 DEF ReadyFor, p
    <3>2. x[1] = Slopes(c)
      BY <1>4, <2>2, <3>1 DEF ReadFrom
    <3> HIDE DEF x
    <3>3. Stored(NegLaunch(c), x) = LoopOver(Opposites(c), Numel(c.in[2]))
      BY <1>2, <3>2, OppositesLaunched
    <3> QED
      BY <1>4, <3>3 DEF k, n, x
  <2>4. Opposites(c) = [e \in Elements(neg) |-> Opposites(c)[e]]
    BY <1>3 DEF Opposites, n
  <2>5. MapsTo(loops[2], n, v[2])
    BY <1>4, LoopOverMaps
  <2> QED
    BY <1>3, <1>4, <2>1, <2>2, <2>3, <2>4, <2>5 DEF MapsInto, p
<1>9. ASSUME NEW name \in DOMAIN Reference(c) PROVE \E j \in DOMAIN p.fresh : Promised(c, name, j, v)
  <2>1. \/ name = "grad" /\ c.arg.needs[1] = TRUE /\ Reference(c)[name] = ResultOf(shape, f1)
        \/ name = "grad_target" /\ c.arg.needs[2] = TRUE /\ Reference(c)[name] = ResultOf(shape, f2)
    BY LossGradAsked DEF shape
  <2>2. p # none
    BY <1>1, <2>1
  <2>3. \A q \in Upto(n) : Slopes(c)[q] = f1[IndexAt(shape, q)] /\ Opposites(c)[q] = f2[IndexAt(shape, q)]
    BY <1>6, <2>2 DEF Slopes, Opposites, n
  <2> HIDE DEF f1, f2
  <2>4. CASE name = "grad"
    <3>1. 1 \in DOMAIN p.fresh /\ p.fresh[1] = grad
      BY <1>1, <1>5, <2>2
    <3>2. /\ Reference(c)[name] = ResultOf(grad.shape, f1)
          /\ \A q \in Elements(grad) : v[1][q] = f1[IndexAt(grad.shape, q)]
      BY <1>3, <1>4, <2>1, <2>3, <2>4
    <3> QED
      BY <1>3, <2>4, <3>1, <3>2 DEF Promised, p
  <2>5. CASE name = "grad_target"
    <3>1. 2 \in DOMAIN p.fresh /\ p.fresh[2] = neg
      BY <1>1, <1>5, <2>1, <2>2, <2>5
    <3>2. /\ Reference(c)[name] = ResultOf(neg.shape, f2)
          /\ \A q \in Elements(neg) : v[2][q] = f2[IndexAt(neg.shape, q)]
      BY <1>3, <1>4, <2>1, <2>3, <2>5
    <3> QED
      BY <1>3, <2>5, <3>1, <3>2 DEF Promised, p
  <2> QED
    BY <2>1, <2>4, <2>5
<1>10. \A j \in DOMAIN p.fresh : MapsInto(c, j, loops[j], v)
  <2>1. CASE p = none
    BY <1>5, <2>1
  <2>2. CASE p = one
    BY <1>5, <1>7, <2>2
  <2>3. CASE p = two
    BY <1>5, <1>7, <1>8, <2>3
  <2> QED
    BY <1>1, <2>1, <2>2, <2>3
<1>11. p.copy = <<>> /\ p.view = <<>> /\ Len(p.launches) = Len(p.fresh)
  BY <1>1, <1>5
<1> QED
  BY <1>9, <1>10, <1>11, MapsSuffice DEF p

-----------------------------------------------------------------------------
\* P lists the members of T, each once.
Lists(n, P, T) ==
  /\ n \in Nat /\ DOMAIN P = Upto(n) /\ T = {P[j] : j \in Upto(n)}
  /\ \A i, j \in Upto(n) : P[i] = P[j] => i = j

\* A sum over the list is the sum over the members.
LEMMA ListedBag ==
  ASSUME NEW n, NEW P, NEW T, Lists(n, P, T), NEW f, DOMAIN f = Upto(n), NEW g, DOMAIN g = T,
         \A j \in Upto(n) : f[j] = g[P[j]]
  PROVE  BagOf(f) = BagOf(g)
<1> DEFINE h == [j \in Upto(n) |-> P[j]]
<1>1. h \in Bijection(Upto(n), T) /\ \A j \in Upto(n) : h[j] = P[j]
  BY DEF Lists, Bijection, Injection, Surjection, IsInjective
<1>2. IsFiniteSet(Upto(n))
  BY FS_Interval DEF Upto, Lists
<1> HIDE DEF h
<1>3. \A j \in Upto(n) : f[j] = g[h[j]]
  BY <1>1
<1> QED
  BY <1>1, <1>2, <1>3, SameBag

\* A vector counts as the one row of a matrix: the index of its element in
\* column col of row row.
Cell(d, row, col) == IF d = 1 THEN <<col>> ELSE <<row, col>>
IsRows(s, rows, cols) ==
  /\ s \in Seq(Nat) /\ rows \in Nat /\ cols \in Nat
  /\ \/ Len(s) = 1 /\ rows = 1 /\ s[1] = cols
     \/ Len(s) = 2 /\ s[1] = rows /\ s[2] = cols

\* The number of elements of such a tensor.
LEMMA RowsNumel ==
  ASSUME NEW s, NEW rows, NEW cols, IsRows(s, rows, cols)
  PROVE  NumelOf(s) = rows * cols
<1>1. s \in Seq(Nat) /\ rows \in Nat /\ cols \in Nat
  BY DEF IsRows
<1>2. CASE Len(s) = 1
  <2>1. rows = 1 /\ s[1] = cols
    BY <1>2 DEF IsRows
  <2>2. s = <<cols>>
    BY <1>1, <1>2, <2>1
  <2>3. NumelOf(s) = cols
    BY <1>1, <2>2, NumelOfFew
  <2> QED
    BY <1>1, <2>1, <2>3
<1>3. CASE Len(s) # 1
  BY <1>1, <1>3, NumelOfFew DEF IsRows
<1> QED
  BY <1>2, <1>3

\* A cell's index, position and last place.
LEMMA CellIs ==
  ASSUME NEW s, NEW rows, NEW cols, IsRows(s, rows, cols), NEW row \in Upto(rows), NEW col \in Upto(cols)
  PROVE  /\ Cell(Len(s), row, col) \in Indices(s)
         /\ Position(Cell(Len(s), row, col), s) = row * cols + col
<1>1. s \in Seq(Nat) /\ rows \in Nat /\ cols \in Nat
  BY DEF IsRows
<1>2. CASE Len(s) = 1
  <2>1. rows = 1 /\ s[1] = cols
    BY <1>2 DEF IsRows
  <2>2. row = 0 /\ col \in Nat
    BY <1>1, <2>1 DEF Upto
  <2>3. <<col>> \in Indices(s) /\ Position(<<col>>, s) = col
    BY <1>1, <1>2, <2>1, IndexOfOne
  <2>4. row * cols + col = col
    BY <1>1, <2>2
  <2> QED
    BY <1>2, <2>3, <2>4 DEF Cell
<1>3. CASE Len(s) # 1
  <2>1. Len(s) = 2 /\ s[1] = rows /\ s[2] = cols
    BY <1>3 DEF IsRows
  <2>2. <<row, col>> \in Indices(s) /\ Position(<<row, col>>, s) = row * cols + col
    BY <1>1, <2>1, IndexOfTwo
  <2> QED
    BY <1>3, <2>2 DEF Cell
<1> QED
  BY <1>2, <1>3

\* The last place of a cell's index, and the cell of another column in its row.
LEMMA CellPlaces ==
  ASSUME NEW d \in {1, 2}, NEW row, NEW col
  PROVE  LET o == Cell(d, row, col)
         IN Len(o) = d /\ o[d] = col /\ \A k : Append(SubSeq(o, 1, Len(o) - 1), k) = Cell(d, row, k)
<1> DEFINE o == Cell(d, row, col)
<1>1. CASE d = 1
  <2>1. o = <<col>>
    BY <1>1 DEF Cell
  <2> HIDE DEF o
  <2>2. Len(o) = 1 /\ o[1] = col /\ SubSeq(o, 1, Len(o) - 1) = <<>>
    BY <2>1
  <2>3. \A k : Append(<<>>, k) = <<k>>
    OBVIOUS
  <2> QED
    BY <1>1, <2>2, <2>3 DEF o, Cell
<1>2. CASE d = 2
  <2>1. o = <<row, col>>
    BY <1>2 DEF Cell
  <2>2. <<row, col>>[2] = col
    OBVIOUS
  <2> HIDE DEF o
  <2>3. Len(o) = 2 /\ o[2] = col /\ SubSeq(o, 1, Len(o) - 1) = <<row>>
    BY <2>1, <2>2, LastOfTwo
  <2>4. \A k : Append(<<row>>, k) = Cell(d, row, k)
    BY <1>2, OneMore DEF Cell
  <2> QED
    BY <1>2, <2>3, <2>4 DEF o
<1> QED
  BY <1>1, <1>2

\* Every index is a cell's.
LEMMA EveryCell ==
  ASSUME NEW s, NEW rows, NEW cols, IsRows(s, rows, cols), NEW ix \in Indices(s)
  PROVE  \E row \in Upto(rows), col \in Upto(cols) : ix = Cell(Len(s), row, col)
<1>1. s \in Seq(Nat) /\ rows \in Nat /\ cols \in Nat
  BY DEF IsRows
<1>2. ix = [i \in 1..Len(s) |-> ix[i]] /\ \A i \in 1..Len(s) : ix[i] \in Nat /\ ix[i] < s[i]
  BY <1>1, IndexIs
<1>3. CASE Len(s) = 1
  <2>1. rows = 1 /\ s[1] = cols
    BY <1>3 DEF IsRows
  <2>2. ix = <<ix[1]>> /\ ix[1] \in Upto(cols)
    <3>1. ix[1] \in Nat /\ ix[1] < cols
      BY <1>2, <1>3, <2>1
    <3>2. ix \in Seq(Nat) /\ Len(ix) = 1
      BY <1>2, <1>3
    <3>3. ix = <<ix[1]>>
      BY <3>2
    <3> QED
      BY <1>1, <3>1, <3>3 DEF Upto
  <2>3. 0 \in Upto(rows)
    BY <2>1 DEF Upto
  <2>4. ix = Cell(Len(s), 0, ix[1])
    BY <1>3, <2>2 DEF Cell
  <2> QED
    BY <2>2, <2>3, <2>4
<1>4. CASE Len(s) # 1
  <2>1. Len(s) = 2 /\ s[1] = rows /\ s[2] = cols
    BY <1>4 DEF IsRows
  <2>2. ix[1] \in Upto(rows) /\ ix[2] \in Upto(cols)
    <3>1. ix[1] \in Nat /\ ix[1] < rows /\ ix[2] \in Nat /\ ix[2] < cols
      BY <1>2, <2>1
    <3> QED
      BY <1>1, <3>1 DEF Upto
  <2>3. ix = <<ix[1], ix[2]>>
    <3>1. ix \in Seq(Nat) /\ Len(ix) = 2
      BY <1>2, <2>1
    <3> QED
      BY <3>1
  <2>4. ix = Cell(Len(s), ix[1], ix[2])
    BY <1>4, <2>3 DEF Cell
  <2> QED
    BY <2>2, <2>4
<1> QED
  BY <1>3, <1>4

\* Cells are told apart by row and column.
LEMMA CellsDiffer ==
  ASSUME NEW s, NEW rows, NEW cols, IsRows(s, rows, cols), NEW row \in Upto(rows), NEW other \in Upto(rows),
         NEW col, NEW column, Cell(Len(s), row, col) = Cell(Len(s), other, column)
  PROVE  row = other /\ col = column
<1>1. CASE Len(s) = 1
  <2>1. rows = 1 /\ <<col>> = <<column>>
    BY <1>1 DEF IsRows, Cell
  <2>2. row = 0 /\ other = 0
    BY <2>1 DEF Upto
  <2>3. <<col>>[1] = <<column>>[1]
    BY <2>1
  <2> QED
    BY <2>2, <2>3
<1>2. CASE Len(s) # 1
  <2>1. <<row, col>> = <<other, column>>
    BY <1>2 DEF Cell
  <2>2. <<row, col>>[1] = <<other, column>>[1] /\ <<row, col>>[2] = <<other, column>>[2]
    BY <2>1
  <2> QED
    BY <2>2
<1> QED
  BY <1>1, <1>2

\* The cell at a position.
LEMMA CellAt ==
  ASSUME NEW s, NEW rows, NEW cols, IsRows(s, rows, cols), NEW q \in Upto(rows * cols)
  PROVE  /\ q \div cols \in Upto(rows) /\ q % cols \in Upto(cols)
         /\ IndexAt(s, q) = Cell(Len(s), q \div cols, q % cols)
<1>1. s \in Seq(Nat) /\ rows \in Nat /\ cols \in Nat
  BY DEF IsRows
<1>2. CASE Len(s) = 1
  <2>1. rows = 1 /\ s[1] = cols
    BY <1>2 DEF IsRows
  <2>2. rows * cols = cols
    BY <1>1, <2>1
  <2>3. q \in Upto(cols) /\ cols \in Nat \ {0} /\ q \in 0..(cols - 1)
    BY <1>1, <2>2 DEF Upto
  <2>4. q \div cols = 0 /\ q % cols = q
    BY <2>3, SmallRemainder, SmallQuotient
  <2>5. IndexAt(s, q) = <<q>>
    BY <1>1, <1>2, <2>1, <2>3, IndexAtOne
  <2>6. 0 \in Upto(rows)
    BY <2>1 DEF Upto
  <2> QED
    BY <1>2, <2>3, <2>4, <2>5, <2>6 DEF Cell
<1>3. CASE Len(s) # 1
  <2>1. Len(s) = 2 /\ s[1] = rows /\ s[2] = cols
    BY <1>3 DEF IsRows
  <2> QED
    BY <1>1, <1>3, <2>1, IndexAtTwo DEF Cell
<1> QED
  BY <1>2, <1>3

-----------------------------------------------------------------------------
\* The gradients of linear: batch rows of inF features, outF of the output.
LinearGrads == {"linear_backward", "linear_grad"}
LinearFits(c, batch, inF, outF) ==
  /\ c.op \in LinearGrads /\ c.in[1] \in Tensors /\ c.in[2] \in Tensors /\ c.in[3] \in Tensors
  /\ IsRows(ShapeOf(c, 1), batch, inF) /\ IsRows(ShapeOf(c, 2), batch, outF)
  /\ IsRows(ShapeOf(c, 3), outF, inF)
  /\ Len(ShapeOf(c, 1)) = Len(ShapeOf(c, 2)) /\ Len(ShapeOf(c, 3)) = 2

\* Input feature k of a row times its weight, and the output feature col that it
\* contributes to.
Factors(d, row, col, k) == <<Cell(d, row, k), <<col, k>>>>
Part(d, row, col, k)    == <<Cell(d, row, col), Factors(d, row, col, k)>>

\* The products of an output feature.
LEMMA LinearProducts ==
  ASSUME NEW c, c.op \in LinearGrads, NEW sa, NEW sb, NEW d \in {1, 2}, NEW row, NEW col
  PROVE  Products(c, sa, sb, Cell(d, row, col)) = {Factors(d, row, col, k) : k \in Upto(sb[2])}
<1> DEFINE o == Cell(d, row, col)
<1>1. Products(c, sa, sb, o) =
        {<<Append(SubSeq(o, 1, Len(o) - 1), k), <<o[Len(o)], k>>>> : k \in Upto(sb[2])}
  BY DEF Products, LinearGrads
<1>2. Len(o) = d /\ o[d] = col /\ \A k : Append(SubSeq(o, 1, Len(o) - 1), k) = Cell(d, row, k)
  BY CellPlaces
<1> HIDE DEF o
<1>3. \A k : <<Append(SubSeq(o, 1, Len(o) - 1), k), <<o[Len(o)], k>>>> = Factors(d, row, col, k)
  BY <1>2 DEF Factors
<1>4. Products(c, sa, sb, o) = {Factors(d, row, col, k) : k \in Upto(sb[2])}
  BY <1>1, <1>3
<1> QED
  BY <1>4 DEF o

\* All contributions.
LEMMA LinearContributions ==
  ASSUME NEW c, NEW batch, NEW inF, NEW outF, LinearFits(c, batch, inF, outF)
  PROVE  LET d == Len(ShapeOf(c, 2))
         IN /\ \A row \in Upto(batch), col \in Upto(outF), k \in Upto(inF) :
                 Part(d, row, col, k) \in Contributions(c)
            /\ \A q \in Contributions(c) :
                 \E row \in Upto(batch), col \in Upto(outF), k \in Upto(inF) : q = Part(d, row, col, k)
<1> DEFINE s == ShapeOf(c, 2)
           d == Len(s)
           Ps(o) == Products(c, ShapeOf(c, 1), ShapeOf(c, 3), o)
<1>1. IsRows(s, batch, outF) /\ d \in {1, 2} /\ c.op \in LinearGrads
  BY DEF LinearFits, IsRows
<1>2. ShapeOf(c, 3)[2] = inF
  BY DEF LinearFits, IsRows
<1>3. \A row, col : Ps(Cell(d, row, col)) = {Factors(d, row, col, k) : k \in Upto(inF)}
  <2> HIDE DEF d
  <2> QED
    BY <1>1, <1>2, LinearProducts
<1>4. Contributions(c) = UNION {{<<o, p>> : p \in Ps(o)} : o \in Indices(s)}
  BY DEF Contributions, AllOf
<1> HIDE DEF Ps, s, d
<1>5. ASSUME NEW row \in Upto(batch), NEW col \in Upto(outF), NEW k \in Upto(inF)
      PROVE  Part(d, row, col, k) \in Contributions(c)
  <2> DEFINE o == Cell(d, row, col)
             p == Factors(d, row, col, k)
  <2>1. o \in Indices(s)
    BY <1>1, CellIs DEF d
  <2>2. p \in Ps(o)
    BY <1>3
  <2>3. Part(d, row, col, k) = <<o, p>>
    BY DEF Part
  <2> HIDE DEF o, p
  <2> QED
    BY <1>4, <2>1, <2>2, <2>3
<1>6. ASSUME NEW q \in Contributions(c)
      PROVE  \E row \in Upto(batch), col \in Upto(outF), k \in Upto(inF) : q = Part(d, row, col, k)
  <2>1. PICK o \in Indices(s) : q \in {<<o, p>> : p \in Ps(o)}
    BY <1>4
  <2>2. PICK p \in Ps(o) : q = <<o, p>>
    BY <2>1
  <2>3. PICK row \in Upto(batch), col \in Upto(outF) : o = Cell(d, row, col)
    BY <1>1, EveryCell DEF d
  <2>4. PICK k \in Upto(inF) : p = Factors(d, row, col, k)
    BY <1>3, <2>2, <2>3
  <2>5. q = Part(d, row, col, k)
    BY <2>2, <2>3, <2>4 DEF Part
  <2> QED
    BY <2>5
<1> QED
  BY <1>5, <1>6 DEF d, s

\* What each contribution consists of, and where it is read.
LEMMA PartIs ==
  ASSUME NEW c, NEW batch, NEW inF, NEW outF, LinearFits(c, batch, inF, outF),
         NEW row \in Upto(batch), NEW col \in Upto(outF), NEW k \in Upto(inF)
  PROVE  LET d == Len(ShapeOf(c, 2))
             q == Part(d, row, col, k)
         IN /\ q[1] = Cell(d, row, col) /\ q[2][1] = Cell(d, row, k) /\ q[2][2] = <<col, k>>
            /\ X(c, 2, q[1]) = At(Before(c, 2), row * outF + col)
            /\ X(c, 1, q[2][1]) = At(Before(c, 1), row * inF + k)
            /\ X(c, 3, q[2][2]) = At(Before(c, 3), col * inF + k)
<1> DEFINE d == Len(ShapeOf(c, 2))
           q == Part(d, row, col, k)
           o == Cell(d, row, col)
           i == Cell(d, row, k)
           w == <<col, k>>
<1>1. q[1] = o /\ q[2][1] = i /\ q[2][2] = w
  BY DEF Part, Factors
<1>2. o \in Indices(ShapeOf(c, 2)) /\ Position(o, ShapeOf(c, 2)) = row * outF + col
  BY CellIs DEF LinearFits
<1>3. i \in Indices(ShapeOf(c, 1)) /\ Position(i, ShapeOf(c, 1)) = row * inF + k
  <2>1. IsRows(ShapeOf(c, 1), batch, inF) /\ d = Len(ShapeOf(c, 1))
    BY DEF LinearFits
  <2> QED
    BY <2>1, CellIs
<1>4. w \in Indices(ShapeOf(c, 3)) /\ Position(w, ShapeOf(c, 3)) = col * inF + k
  <2>1. IsRows(ShapeOf(c, 3), outF, inF) /\ Len(ShapeOf(c, 3)) = 2
    BY DEF LinearFits
  <2> DEFINE s == ShapeOf(c, 3)
  <2>2. Cell(Len(s), col, k) = w
    BY <2>1 DEF Cell
  <2> HIDE DEF s
  <2>3. Cell(Len(s), col, k) \in Indices(s) /\ Position(Cell(Len(s), col, k), s) = col * inF + k
    BY <2>1, CellIs DEF s
  <2> QED
    BY <2>2, <2>3 DEF s
<1>5. c.in[1] \in Tensors /\ c.in[2] \in Tensors /\ c.in[3] \in Tensors
  BY DEF LinearFits
<1> HIDE DEF q, o, i, w, d
<1>6. At(Before(c, 2), row * outF + col) = X(c, 2, o)
  BY <1>2, <1>5, ReadsIndex
<1>7. At(Before(c, 1), row * inF + k) = X(c, 1, i)
  BY <1>3, <1>5, ReadsIndex
<1>8. At(Before(c, 3), col * inF + k) = X(c, 3, w)
  BY <1>4, <1>5, ReadsIndex
<1> QED
  BY <1>1, <1>6, <1>7, <1>8 DEF q, o, i, w, d

\* The kernels read row after row.
LEMMA StridedPlaces ==
  ASSUME NEW row \in Nat, NEW col \in Nat, NEW k \in Nat, NEW outF \in Nat, NEW inF \in Nat
  PROVE  /\ row * outF + col = row * outF + col * 1
         /\ col * inF + k = k + col * inF
         /\ row * outF + col = col + row * outF
         /\ row * inF + k = k + row * inF
<1>1. row * outF \in Nat /\ col * inF \in Nat /\ row * inF \in Nat
  OBVIOUS
<1> QED
  BY <1>1

\* What the reference sums for an element of each gradient.
InputSum(c, ix)  == SumOf({q \in Contributions(c) : q[2][1] = ix},
                          LAMBDA q : Times(X(c, 2, q[1]), X(c, 3, q[2][2])))
WeightSum(c, ix) == SumOf({q \in Contributions(c) : q[2][2] = ix},
                          LAMBDA q : Times(X(c, 2, q[1]), X(c, 1, q[2][1])))
BiasSum(c, channel, col) == SumOf({o \in AllOf(c, 2) : o[channel] = col}, LAMBDA o : X(c, 2, o))
RowSum(c, batch, outF, col) == SumOf(Upto(batch), LAMBDA row : At(Before(c, 2), row * outF + col))

\* The gradient of an input feature.
LEMMA InputGradient ==
  ASSUME NEW c, NEW batch, NEW inF, NEW outF, LinearFits(c, batch, inF, outF),
         NEW row \in Upto(batch), NEW k \in Upto(inF), NEW ix, ix = Cell(Len(ShapeOf(c, 2)), row, k)
  PROVE  dot_strided(Before(c, 2), row * outF, 1, Before(c, 3), k, inF, outF)
           = InputSum(c, ix)
<1> DEFINE d == Len(ShapeOf(c, 2))
           T == {q \in Contributions(c) : q[2][1] = ix}
           P == [col \in Upto(outF) |-> Part(d, row, col, k)]
           f == [col \in Upto(outF) |->
                   Times(At(Before(c, 2), row * outF + col * 1), At(Before(c, 3), k + col * inF))]
           g == [q \in T |-> Times(X(c, 2, q[1]), X(c, 3, q[2][2]))]
<1>1. batch \in Nat /\ inF \in Nat /\ outF \in Nat
  BY DEF LinearFits, IsRows
<1>2. DOMAIN P = Upto(outF) /\ \A col \in Upto(outF) : P[col] = Part(d, row, col, k)
  OBVIOUS
<1>3. ASSUME NEW col \in Upto(outF)
      PROVE  /\ P[col] \in Contributions(c) /\ P[col][2][1] = ix /\ P[col][2][2][1] = col
             /\ X(c, 2, P[col][1]) = At(Before(c, 2), row * outF + col)
             /\ X(c, 3, P[col][2][2]) = At(Before(c, 3), col * inF + k)
  <2> DEFINE q == Part(d, row, col, k)
  <2>1. /\ q[2][1] = Cell(d, row, k) /\ q[2][2] = <<col, k>>
        /\ X(c, 2, q[1]) = At(Before(c, 2), row * outF + col)
        /\ X(c, 3, q[2][2]) = At(Before(c, 3), col * inF + k)
    BY PartIs
  <2>2. q \in Contributions(c)
    BY LinearContributions
  <2>3. <<col, k>>[1] = col /\ P[col] = q
    BY <1>2
  <2> HIDE DEF q, P, d
  <2> QED
    BY <2>1, <2>2, <2>3 DEF d
<1>4. T = {P[col] : col \in Upto(outF)}
  <2>1. ASSUME NEW q \in T PROVE \E col \in Upto(outF) : q = P[col]
    <3>1. PICK r \in Upto(batch), col \in Upto(outF), j \in Upto(inF) : q = Part(d, r, col, j)
      BY LinearContributions
    <3>2. Cell(d, r, j) = Cell(d, row, k)
      BY <3>1, PartIs
    <3>3. r = row /\ j = k
      BY <3>2, CellsDiffer DEF LinearFits
    <3> QED
      BY <1>2, <3>1, <3>3
  <2> HIDE DEF P
  <2> QED
    BY <1>3, <2>1
<1>5. \A i, j \in Upto(outF) : P[i] = P[j] => i = j
  <2> HIDE DEF P
  <2> QED
    BY <1>3
<1>6. \A col \in Upto(outF) : f[col] = g[P[col]]
  <2> TAKE col \in Upto(outF)
  <2>1. row \in Nat /\ col \in Nat /\ k \in Nat
    BY <1>1 DEF Upto
  <2>2. row * outF + col = row * outF + col * 1 /\ col * inF + k = k + col * inF
    BY <1>1, <2>1, StridedPlaces
  <2>3. P[col] \in T
    BY <1>3
  <2> HIDE DEF P, T
  <2>4. g[P[col]] = Times(X(c, 2, P[col][1]), X(c, 3, P[col][2][2]))
    BY <2>3
  <2> HIDE DEF g
  <2> QED
    BY <1>3, <2>2, <2>4
<1>7. DOMAIN f = Upto(outF) /\ DOMAIN g = T
  OBVIOUS
<1>8. dot_strided(Before(c, 2), row * outF, 1, Before(c, 3), k, inF, outF) = <<"sum", BagOf(f)>>
  BY DEF dot_strided, SumOf
<1>9. InputSum(c, ix) = <<"sum", BagOf(g)>>
  BY Zenon DEF InputSum, SumOf
<1> HIDE DEF f, g, P, T
<1>10. Lists(outF, P, T)
  BY <1>1, <1>2, <1>4, <1>5 DEF Lists
<1>11. BagOf(f) = BagOf(g)
  BY <1>6, <1>7, <1>10, ListedBag
<1> QED
  BY <1>8, <1>9, <1>11

\* The gradient of a weight.
LEMMA WeightGradient ==
  ASSUME NEW c, NEW batch, NEW inF, NEW outF, LinearFits(c, batch, inF, outF),
         NEW col \in Upto(outF), NEW k \in Upto(inF), NEW ix, ix = <<col, k>>
  PROVE  dot_strided(Before(c, 2), col, outF, Before(c, 1), k, inF, batch)
           = WeightSum(c, ix)
<1> DEFINE d == Len(ShapeOf(c, 2))
           T == {q \in Contributions(c) : q[2][2] = ix}
           P == [row \in Upto(batch) |-> Part(d, row, col, k)]
           f == [row \in Upto(batch) |->
                   Times(At(Before(c, 2), col + row * outF), At(Before(c, 1), k + row * inF))]
           g == [q \in T |-> Times(X(c, 2, q[1]), X(c, 1, q[2][1]))]
<1>1. batch \in Nat /\ inF \in Nat /\ outF \in Nat
  BY DEF LinearFits, IsRows
<1>2. DOMAIN P = Upto(batch) /\ \A row \in Upto(batch) : P[row] = Part(d, row, col, k)
  OBVIOUS
<1>3. ASSUME NEW row \in Upto(batch)
      PROVE  /\ P[row] \in Contributions(c) /\ P[row][2][2] = ix /\ P[row][1] = Cell(d, row, col)
             /\ X(c, 2, P[row][1]) = At(Before(c, 2), row * outF + col)
             /\ X(c, 1, P[row][2][1]) = At(Before(c, 1), row * inF + k)
  <2> DEFINE q == Part(d, row, col, k)
  <2>1. /\ q[2][2] = <<col, k>> /\ q[1] = Cell(d, row, col)
        /\ X(c, 2, q[1]) = At(Before(c, 2), row * outF + col)
        /\ X(c, 1, q[2][1]) = At(Before(c, 1), row * inF + k)
    BY PartIs
  <2>2. q \in Contributions(c)
    BY LinearContributions
  <2>3. P[row] = q
    BY <1>2
  <2> HIDE DEF q, P, d
  <2> QED
    BY <2>1, <2>2, <2>3 DEF d
<1>4. T = {P[row] : row \in Upto(batch)}
  <2>1. ASSUME NEW q \in T PROVE \E row \in Upto(batch) : q = P[row]
    <3>1. PICK row \in Upto(batch), j \in Upto(outF), i \in Upto(inF) : q = Part(d, row, j, i)
      BY LinearContributions
    <3>2. <<j, i>> = <<col, k>>
      BY <3>1, PartIs
    <3>3. j = col /\ i = k
      BY <3>2
    <3> QED
      BY <1>2, <3>1, <3>3
  <2> HIDE DEF P
  <2> QED
    BY <1>3, <2>1
<1>5. \A i, j \in Upto(batch) : P[i] = P[j] => i = j
  <2> SUFFICES ASSUME NEW i \in Upto(batch), NEW j \in Upto(batch), P[i] = P[j] PROVE i = j
    OBVIOUS
  <2> HIDE DEF P, d
  <2>1. Cell(d, i, col) = Cell(d, j, col)
    BY <1>3
  <2>2. IsRows(ShapeOf(c, 2), batch, outF)
    BY DEF LinearFits
  <2> QED
    BY <2>1, <2>2, CellsDiffer DEF d
<1>6. \A row \in Upto(batch) : f[row] = g[P[row]]
  <2> TAKE row \in Upto(batch)
  <2>1. row \in Nat /\ col \in Nat /\ k \in Nat
    BY <1>1 DEF Upto
  <2>2. row * outF + col = col + row * outF /\ row * inF + k = k + row * inF
    BY <1>1, <2>1, StridedPlaces
  <2>3. P[row] \in T
    BY <1>3
  <2> HIDE DEF P, T
  <2>4. g[P[row]] = Times(X(c, 2, P[row][1]), X(c, 1, P[row][2][1]))
    BY <2>3
  <2> HIDE DEF g
  <2> QED
    BY <1>3, <2>2, <2>4
<1>7. DOMAIN f = Upto(batch) /\ DOMAIN g = T
  OBVIOUS
<1>8. dot_strided(Before(c, 2), col, outF, Before(c, 1), k, inF, batch) = <<"sum", BagOf(f)>>
  BY DEF dot_strided, SumOf
<1>9. WeightSum(c, ix) = <<"sum", BagOf(g)>>
  BY Zenon DEF WeightSum, SumOf
<1> HIDE DEF f, g, P, T
<1>10. Lists(batch, P, T)
  BY <1>1, <1>2, <1>4, <1>5 DEF Lists
<1>11. BagOf(f) = BagOf(g)
  BY <1>6, <1>7, <1>10, ListedBag
<1> QED
  BY <1>8, <1>9, <1>11

\* The gradient of a bias.
LEMMA BiasGradient ==
  ASSUME NEW c, NEW batch, NEW inF, NEW outF, LinearFits(c, batch, inF, outF), NEW col \in Upto(outF)
  PROVE  RowSum(c, batch, outF, col) = BiasSum(c, Len(ShapeOf(c, 2)), col)
<1> DEFINE s == ShapeOf(c, 2)
           d == Len(s)
           T == {o \in AllOf(c, 2) : o[d] = col}
           P == [row \in Upto(batch) |-> Cell(d, row, col)]
           f == [row \in Upto(batch) |-> At(Before(c, 2), row * outF + col)]
           g == [o \in T |-> X(c, 2, o)]
<1>0. batch \in Nat
  BY DEF LinearFits, IsRows
<1>1. IsRows(s, batch, outF) /\ c.in[2] \in Tensors /\ d \in {1, 2}
  BY DEF LinearFits, IsRows
<1>2. \A row \in Upto(batch) : P[row] = Cell(d, row, col)
  OBVIOUS
<1>3. AllOf(c, 2) = Indices(s)
  BY DEF AllOf
<1>4. ASSUME NEW row \in Upto(batch)
      PROVE  /\ P[row] \in T /\ P[row] = Cell(d, row, col)
             /\ X(c, 2, P[row]) = At(Before(c, 2), row * outF + col)
  <2> DEFINE o == Cell(d, row, col)
  <2>1. o \in Indices(s) /\ Position(o, s) = row * outF + col
    BY <1>1, CellIs
  <2>2. o[d] = col
    <3> HIDE DEF d
    <3> QED
      BY <1>1, CellPlaces
  <2>3. P[row] = o
    BY <1>2
  <2> HIDE DEF o, P
  <2>4. At(Before(c, 2), Position(o, s)) = X(c, 2, o)
    BY <1>1, <2>1, ReadsIndex
  <2> HIDE DEF s
  <2> QED
    BY <1>3, <2>1, <2>2, <2>3, <2>4 DEF o
<1>5. T = {P[row] : row \in Upto(batch)}
  <2>1. ASSUME NEW o \in T PROVE \E row \in Upto(batch) : o = P[row]
    <3>1. PICK row \in Upto(batch), j \in Upto(outF) : o = Cell(d, row, j)
      BY <1>1, <1>3, EveryCell
    <3>2. Cell(d, row, j)[d] = j
      <4> HIDE DEF d
      <4> QED
        BY <1>1, CellPlaces
    <3>3. j = col
      BY <3>1, <3>2
    <3> QED
      BY <1>2, <3>1, <3>3
  <2> HIDE DEF P, T
  <2> QED
    BY <1>4, <2>1
<1>6. \A i, j \in Upto(batch) : P[i] = P[j] => i = j
  <2> SUFFICES ASSUME NEW i \in Upto(batch), NEW j \in Upto(batch), P[i] = P[j] PROVE i = j
    OBVIOUS
  <2> HIDE DEF P, d
  <2>1. Cell(d, i, col) = Cell(d, j, col)
    BY <1>4
  <2> QED
    BY <1>1, <2>1, CellsDiffer DEF d
<1>7. \A row \in Upto(batch) : f[row] = g[P[row]]
  <2> HIDE DEF P, T, d, s
  <2> QED
    BY <1>4
<1>8. DOMAIN f = Upto(batch) /\ DOMAIN g = T /\ DOMAIN P = Upto(batch)
  OBVIOUS
<1>9. RowSum(c, batch, outF, col) = <<"sum", BagOf(f)>> /\ BiasSum(c, d, col) = <<"sum", BagOf(g)>>
  BY DEF RowSum, BiasSum, SumOf
<1> HIDE DEF f, g, P, T
<1>10. Lists(batch, P, T)
  BY <1>0, <1>5, <1>6, <1>8 DEF Lists
<1>11. BagOf(f) = BagOf(g)
  BY <1>7, <1>8, <1>10, ListedBag
<1> QED
  BY <1>9, <1>11

-----------------------------------------------------------------------------
\* What a mask of three leaves of <<x, y, z>>: the picked ones, in order.
Picked(mask, n, pick) ==
  /\ \A j \in 1..n : \/ pick[j] = 1 /\ mask[1]
                     \/ pick[j] = 2 /\ mask[2]
                     \/ pick[j] = 3 /\ mask[3]
  /\ mask[1] => \E j \in 1..n : pick[j] = 1
  /\ mask[2] => \E j \in 1..n : pick[j] = 2
  /\ mask[3] => \E j \in 1..n : pick[j] = 3

\* A sequence that takes x, y or z where pick does.
Follows(n, pick, s, x, y, z) ==
  /\ Len(s) = n /\ DOMAIN s = 1..n
  /\ \A j \in 1..n : /\ pick[j] = 1 => s[j] = x
                     /\ pick[j] = 2 => s[j] = y
                     /\ pick[j] = 3 => s[j] = z

\* Every mask is a choice of positions, the same for whatever is masked.
LEMMA MaskPicks ==
  ASSUME NEW mask
  PROVE  \E n \in Nat : \E pick :
           Picked(mask, n, pick) /\ \A x, y, z : Follows(n, pick, Masked(mask, <<x, y, z>>), x, y, z)
<1>1. CASE mask[1] /\ mask[2] /\ mask[3]
  <2>1. \A x, y, z : Masked(mask, <<x, y, z>>) = <<x, y, z>>
    BY <1>1, MaskedIs
  <2>2. \A x, y, z : Follows(3, <<1, 2, 3>>, <<x, y, z>>, x, y, z)
    BY DEF Follows
  <2>3. Picked(mask, 3, <<1, 2, 3>>)
    BY <1>1 DEF Picked
  <2>4. \A x, y, z : Follows(3, <<1, 2, 3>>, Masked(mask, <<x, y, z>>), x, y, z)
    BY Zenon, <2>1, <2>2
  <2>5. 3 \in Nat
    OBVIOUS
  <2> DEFINE pick == <<1, 2, 3>>
  <2> HIDE DEF pick
  <2>6. Picked(mask, 3, pick) /\ \A x, y, z : Follows(3, pick, Masked(mask, <<x, y, z>>), x, y, z)
    BY <2>3, <2>4 DEF pick
  <2> QED
    BY <2>5, <2>6
<1>2. CASE mask[1] /\ mask[2] /\ ~mask[3]
  <2>1. \A x, y, z : Masked(mask, <<x, y, z>>) = <<x, y>>
    BY <1>2, MaskedIs
  <2>2. \A x, y, z : Follows(2, <<1, 2>>, <<x, y>>, x, y, z)
    BY DEF Follows
  <2>3. Picked(mask, 2, <<1, 2>>)
    BY <1>2 DEF Picked
  <2>4. \A x, y, z : Follows(2, <<1, 2>>, Masked(mask, <<x, y, z>>), x, y, z)
    BY Zenon, <2>1, <2>2
  <2>5. 2 \in Nat
    OBVIOUS
  <2> DEFINE pick == <<1, 2>>
  <2> HIDE DEF pick
  <2>6. Picked(mask, 2, pick) /\ \A x, y, z : Follows(2, pick, Masked(mask, <<x, y, z>>), x, y, z)
    BY <2>3, <2>4 DEF pick
  <2> QED
    BY <2>5, <2>6
<1>3. CASE mask[1] /\ ~mask[2] /\ mask[3]
  <2>1. \A x, y, z : Masked(mask, <<x, y, z>>) = <<x, z>>
    BY <1>3, MaskedIs
  <2>2. \A x, y, z : Follows(2, <<1, 3>>, <<x, z>>, x, y, z)
    BY DEF Follows
  <2>3. Picked(mask, 2, <<1, 3>>)
    BY <1>3 DEF Picked
  <2>4. \A x, y, z : Follows(2, <<1, 3>>, Masked(mask, <<x, y, z>>), x, y, z)
    BY Zenon, <2>1, <2>2
  <2>5. 2 \in Nat
    OBVIOUS
  <2> DEFINE pick == <<1, 3>>
  <2> HIDE DEF pick
  <2>6. Picked(mask, 2, pick) /\ \A x, y, z : Follows(2, pick, Masked(mask, <<x, y, z>>), x, y, z)
    BY <2>3, <2>4 DEF pick
  <2> QED
    BY <2>5, <2>6
<1>4. CASE mask[1] /\ ~mask[2] /\ ~mask[3]
  <2>1. \A x, y, z : Masked(mask, <<x, y, z>>) = <<x>>
    BY <1>4, MaskedIs
  <2>2. \A x, y, z : Follows(1, <<1>>, <<x>>, x, y, z)
    BY DEF Follows
  <2>3. Picked(mask, 1, <<1>>)
    BY <1>4 DEF Picked
  <2>4. \A x, y, z : Follows(1, <<1>>, Masked(mask, <<x, y, z>>), x, y, z)
    BY Zenon, <2>1, <2>2
  <2>5. 1 \in Nat
    OBVIOUS
  <2> DEFINE pick == <<1>>
  <2> HIDE DEF pick
  <2>6. Picked(mask, 1, pick) /\ \A x, y, z : Follows(1, pick, Masked(mask, <<x, y, z>>), x, y, z)
    BY <2>3, <2>4 DEF pick
  <2> QED
    BY <2>5, <2>6
<1>5. CASE ~mask[1] /\ mask[2] /\ mask[3]
  <2>1. \A x, y, z : Masked(mask, <<x, y, z>>) = <<y, z>>
    BY <1>5, MaskedIs
  <2>2. \A x, y, z : Follows(2, <<2, 3>>, <<y, z>>, x, y, z)
    BY DEF Follows
  <2>3. Picked(mask, 2, <<2, 3>>)
    BY <1>5 DEF Picked
  <2>4. \A x, y, z : Follows(2, <<2, 3>>, Masked(mask, <<x, y, z>>), x, y, z)
    BY Zenon, <2>1, <2>2
  <2>5. 2 \in Nat
    OBVIOUS
  <2> DEFINE pick == <<2, 3>>
  <2> HIDE DEF pick
  <2>6. Picked(mask, 2, pick) /\ \A x, y, z : Follows(2, pick, Masked(mask, <<x, y, z>>), x, y, z)
    BY <2>3, <2>4 DEF pick
  <2> QED
    BY <2>5, <2>6
<1>6. CASE ~mask[1] /\ mask[2] /\ ~mask[3]
  <2>1. \A x, y, z : Masked(mask, <<x, y, z>>) = <<y>>
    BY <1>6, MaskedIs
  <2>2. \A x, y, z : Follows(1, <<2>>, <<y>>, x, y, z)
    BY DEF Follows
  <2>3. Picked(mask, 1, <<2>>)
    BY <1>6 DEF Picked
  <2>4. \A x, y, z : Follows(1, <<2>>, Masked(mask, <<x, y, z>>), x, y, z)
    BY Zenon, <2>1, <2>2
  <2>5. 1 \in Nat
    OBVIOUS
  <2> DEFINE pick == <<2>>
  <2> HIDE DEF pick
  <2>6. Picked(mask, 1, pick) /\ \A x, y, z : Follows(1, pick, Masked(mask, <<x, y, z>>), x, y, z)
    BY <2>3, <2>4 DEF pick
  <2> QED
    BY <2>5, <2>6
<1>7. CASE ~mask[1] /\ ~mask[2] /\ mask[3]
  <2>1. \A x, y, z : Masked(mask, <<x, y, z>>) = <<z>>
    BY <1>7, MaskedIs
  <2>2. \A x, y, z : Follows(1, <<3>>, <<z>>, x, y, z)
    BY DEF Follows
  <2>3. Picked(mask, 1, <<3>>)
    BY <1>7 DEF Picked
  <2>4. \A x, y, z : Follows(1, <<3>>, Masked(mask, <<x, y, z>>), x, y, z)
    BY Zenon, <2>1, <2>2
  <2>5. 1 \in Nat
    OBVIOUS
  <2> DEFINE pick == <<3>>
  <2> HIDE DEF pick
  <2>6. Picked(mask, 1, pick) /\ \A x, y, z : Follows(1, pick, Masked(mask, <<x, y, z>>), x, y, z)
    BY <2>3, <2>4 DEF pick
  <2> QED
    BY <2>5, <2>6
<1>8. CASE ~mask[1] /\ ~mask[2] /\ ~mask[3]
  <2>1. \A x, y, z : Masked(mask, <<x, y, z>>) = <<>>
    BY <1>8, MaskedIs
  <2>2. \A x, y, z : Follows(0, <<>>, <<>>, x, y, z)
    BY DEF Follows
  <2>3. Picked(mask, 0, <<>>)
    BY <1>8 DEF Picked
  <2>4. \A x, y, z : Follows(0, <<>>, Masked(mask, <<x, y, z>>), x, y, z)
    BY Zenon, <2>1, <2>2
  <2>5. 0 \in Nat
    OBVIOUS
  <2> DEFINE pick == <<>>
  <2> HIDE DEF pick
  <2>6. Picked(mask, 0, pick) /\ \A x, y, z : Follows(0, pick, Masked(mask, <<x, y, z>>), x, y, z)
    BY <2>3, <2>4 DEF pick
  <2> QED
    BY <2>5, <2>6
<1> QED
  BY <1>1, <1>2, <1>3, <1>4, <1>5, <1>6, <1>7, <1>8

-----------------------------------------------------------------------------
\* Launch l makes tensor t hold w, from the arguments alone.
Computes(c, t, l, w) ==
  /\ t \in Tensors /\ Target(l) = t.name /\ w = [e \in Elements(t) |-> w[e]]
  /\ \A m : Holds(c, m) => Stored(l, ReadFrom(l, m)) = LoopOver(w, Numel(t))

\* It is what the reference asks for under that name.
IsAsked(c, name, t, w) ==
  /\ t.name = name
  /\ \E f : /\ Reference(c)[name] = ResultOf(t.shape, f)
            /\ \A q \in Elements(t) : w[q] = f[IndexAt(t.shape, q)]

\* Three gradients under a mask suffice if each is right.
LEMMA GradientsSuffice ==
  ASSUME NEW c, NEW mask, NEW t1, NEW t2, NEW t3, NEW l1, NEW l2, NEW l3, NEW w1, NEW w2, NEW w3,
         PlanOf(c) = GradPlan(mask, <<t1, t2, t3>>, <<l1, l2, l3>>),
         Computes(c, t1, l1, w1), Computes(c, t2, l2, w2), Computes(c, t3, l3, w3),
         \A name \in DOMAIN Reference(c) : \/ mask[1] /\ IsAsked(c, name, t1, w1)
                                           \/ mask[2] /\ IsAsked(c, name, t2, w2)
                                           \/ mask[3] /\ IsAsked(c, name, t3, w3)
  PROVE  Sufficient(c)
<1> DEFINE p == PlanOf(c)
           F == Masked(mask, <<t1, t2, t3>>)
           L == Masked(mask, <<l1, l2, l3>>)
           v == Masked(mask, <<w1, w2, w3>>)
           k1 == LoopOver(w1, Numel(t1))
           k2 == LoopOver(w2, Numel(t2))
           k3 == LoopOver(w3, Numel(t3))
           loops == Masked(mask, <<k1, k2, k3>>)
<1>1. p.fresh = F /\ p.launches = L /\ p.copy = <<>> /\ p.view = <<>>
  BY DEF GradPlan, Plan
<1>0. PICK n \in Nat : \E pick :
        Picked(mask, n, pick) /\ \A x, y, z : Follows(n, pick, Masked(mask, <<x, y, z>>), x, y, z)
  BY MaskPicks
<1>2. PICK pick :
        Picked(mask, n, pick) /\ \A x, y, z : Follows(n, pick, Masked(mask, <<x, y, z>>), x, y, z)
  BY <1>0
<1>3. /\ Follows(n, pick, F, t1, t2, t3) /\ Follows(n, pick, L, l1, l2, l3)
      /\ Follows(n, pick, v, w1, w2, w3) /\ Follows(n, pick, loops, k1, k2, k3)
  BY <1>2
<1> HIDE DEF F, L, v, loops, k1, k2, k3, p
<1>4. Len(p.launches) = Len(p.fresh) /\ DOMAIN p.fresh = 1..n
  BY <1>1, <1>3 DEF Follows
<1>5. ASSUME NEW j \in 1..n, NEW t, NEW l, NEW w, Computes(c, t, l, w), F[j] = t, L[j] = l, v[j] = w,
             loops[j] = LoopOver(w, Numel(t))
      PROVE  MapsInto(c, j, loops[j], v)
  <2>1. MapsTo(loops[j], Numel(t), v[j])
    BY <1>5, LoopOverMaps
  <2>2. \A m : ReadyFor(c, j, v, m) => Holds(c, m)
    BY DEF ReadyFor, Holds
  <2> QED
    BY <1>1, <1>5, <2>1, <2>2 DEF MapsInto, Computes, p
<1>6. ASSUME NEW j \in 1..n PROVE MapsInto(c, j, loops[j], v)
  <2>1. CASE pick[j] = 1
    <3>1. F[j] = t1 /\ L[j] = l1 /\ v[j] = w1 /\ loops[j] = LoopOver(w1, Numel(t1))
      BY <1>3, <2>1 DEF Follows, k1
    <3> QED
      BY <1>5, <3>1
  <2>2. CASE pick[j] = 2
    <3>1. F[j] = t2 /\ L[j] = l2 /\ v[j] = w2 /\ loops[j] = LoopOver(w2, Numel(t2))
      BY <1>3, <2>2 DEF Follows, k2
    <3> QED
      BY <1>5, <3>1
  <2>3. CASE pick[j] = 3
    <3>1. F[j] = t3 /\ L[j] = l3 /\ v[j] = w3 /\ loops[j] = LoopOver(w3, Numel(t3))
      BY <1>3, <2>3 DEF Follows, k3
    <3> QED
      BY <1>5, <3>1
  <2> QED
    BY <1>2, <2>1, <2>2, <2>3 DEF Picked
<1>7. ASSUME NEW name, NEW j \in 1..n, NEW t, NEW w, IsAsked(c, name, t, w), F[j] = t, v[j] = w
      PROVE  Promised(c, name, j, v)
  BY <1>1, <1>7 DEF IsAsked, Promised, p
<1>8. ASSUME NEW name \in DOMAIN Reference(c) PROVE \E j \in 1..n : Promised(c, name, j, v)
  <2>1. CASE mask[1] /\ IsAsked(c, name, t1, w1)
    <3>1. PICK j \in 1..n : pick[j] = 1
      BY <1>2, <2>1 DEF Picked
    <3>2. F[j] = t1 /\ v[j] = w1
      BY <1>3, <3>1 DEF Follows
    <3> QED
      BY <1>7, <2>1, <3>2
  <2>2. CASE mask[2] /\ IsAsked(c, name, t2, w2)
    <3>1. PICK j \in 1..n : pick[j] = 2
      BY <1>2, <2>2 DEF Picked
    <3>2. F[j] = t2 /\ v[j] = w2
      BY <1>3, <3>1 DEF Follows
    <3> QED
      BY <1>7, <2>2, <3>2
  <2>3. CASE mask[3] /\ IsAsked(c, name, t3, w3)
    <3>1. PICK j \in 1..n : pick[j] = 3
      BY <1>2, <2>3 DEF Picked
    <3>2. F[j] = t3 /\ v[j] = w3
      BY <1>3, <3>1 DEF Follows
    <3> QED
      BY <1>7, <2>3, <3>2
  <2> QED
    BY <2>1, <2>2, <2>3
<1> QED
  BY <1>1, <1>4, <1>6, <1>8, MapsSuffice DEF p

-----------------------------------------------------------------------------
\* The three gradients of linear, position by position.
InputGrads(c, batch, inF, outF) ==
  [i \in Upto(batch * inF) |->
     dot_strided(Before(c, 2), (i \div inF) * outF, 1, Before(c, 3), i % inF, inF, outF)]
WeightGrads(c, batch, inF, outF) ==
  [i \in Upto(outF * inF) |-> dot_strided(Before(c, 2), i \div inF, outF, Before(c, 1), i % inF, inF, batch)]
BiasGrads(c, batch, inF, outF) ==
  [col \in Upto(outF) |-> RowSum(c, batch, outF, col)]

\* The kernels compute them.
LEMMA LinearKernels ==
  ASSUME NEW c, NEW batch, NEW inF, NEW outF
  PROVE  /\ linear_backward_input(Before(c, 2), Before(c, 3), batch, outF, inF)
              = LoopOver(InputGrads(c, batch, inF, outF), batch * inF)
         /\ linear_backward_weight(Before(c, 1), Before(c, 2), batch, outF, inF)
              = LoopOver(WeightGrads(c, batch, inF, outF), outF * inF)
         /\ linear_backward_bias(Before(c, 2), batch, outF)
              = LoopOver(BiasGrads(c, batch, inF, outF), outF)
<1>1. linear_backward_input(Before(c, 2), Before(c, 3), batch, outF, inF)
        = LoopOver(InputGrads(c, batch, inF, outF), batch * inF)
  BY DEF linear_backward_input, Map, Loop, LoopOver, InputGrads
<1>2. linear_backward_weight(Before(c, 1), Before(c, 2), batch, outF, inF)
        = LoopOver(WeightGrads(c, batch, inF, outF), outF * inF)
  BY DEF linear_backward_weight, Map, Loop, LoopOver, WeightGrads
<1>3. linear_backward_bias(Before(c, 2), batch, outF) = LoopOver(BiasGrads(c, batch, inF, outF), outF)
  BY DEF linear_backward_bias, Map, Loop, LoopOver, BiasGrads, RowSum
<1> QED
  BY <1>1, <1>2, <1>3

\* What the reference asks of them, index by index.
InputAsked(c) ==
  [ix \in Indices(ShapeOf(c, 1)) |-> InputSum(c, ix)]
WeightAsked(c) ==
  [ix \in Indices(ShapeOf(c, 3)) |-> WeightSum(c, ix)]
BiasAsked(c, channel) ==
  [ix \in Indices(<<ShapeOf(c, 3)[1]>>) |-> BiasSum(c, channel, ix[1])]

\* Of those that the mask asks for.
MaskOf(c) == IF c.op = "linear_backward" THEN c.arg.mask ELSE autograd_mask(c.arg.needs, c.arg.bias)

\* A mask names the gradients it asks for.
LEMMA MaskedNames ==
  ASSUME NEW mask, NEW name \in GradNames(mask)
  PROVE  \/ name = "grad_input" /\ mask[1]
         \/ name = "grad_weight" /\ mask[2]
         \/ name = "grad_bias" /\ mask[3]
<1>1. PICK i \in {j \in 1..3 : mask[j]} : name = <<"grad_input", "grad_weight", "grad_bias">>[i]
  BY DEF GradNames
<1>2. (i = 1 \/ i = 2 \/ i = 3) /\ mask[i]
  OBVIOUS
<1> QED
  BY <1>1, <1>2

\* The gradients the reference knows of.
LEMMA GradientsAsked ==
  ASSUME NEW c, NEW channel
  PROVE  LET all == Gradients(c, channel)
         IN /\ DOMAIN all = {"grad_input", "grad_weight", "grad_bias"}
            /\ all["grad_input"] = ResultOf(ShapeOf(c, 1), InputAsked(c))
            /\ all["grad_weight"] = ResultOf(ShapeOf(c, 3), WeightAsked(c))
            /\ all["grad_bias"] = ResultOf(<<ShapeOf(c, 3)[1]>>, BiasAsked(c, channel))
<1>1. Gradients(c, channel) = [grad_input  |-> ResultOf(ShapeOf(c, 1), InputAsked(c)),
                               grad_weight |-> ResultOf(ShapeOf(c, 3), WeightAsked(c)),
                               grad_bias   |-> ResultOf(<<ShapeOf(c, 3)[1]>>, BiasAsked(c, channel))]
  BY Zenon DEF Gradients, Result, InputAsked, WeightAsked, BiasAsked,
                InputSum, WeightSum, BiasSum
<1> QED
  BY <1>1

\* Whatever the reference asks for, the mask asks for too.
LEMMA LinearAsked ==
  ASSUME NEW c, c.op \in LinearGrads, NEW name \in DOMAIN Reference(c)
  PROVE  LET mask == MaskOf(c)
         IN \/ /\ name = "grad_input" /\ mask[1]
               /\ Reference(c)[name] = ResultOf(ShapeOf(c, 1), InputAsked(c))
            \/ /\ name = "grad_weight" /\ mask[2]
               /\ Reference(c)[name] = ResultOf(ShapeOf(c, 3), WeightAsked(c))
            \/ /\ name = "grad_bias" /\ mask[3]
               /\ Reference(c)[name] = ResultOf(<<ShapeOf(c, 3)[1]>>, BiasAsked(c, Len(ShapeOf(c, 2))))
<1> DEFINE all == Gradients(c, Len(ShapeOf(c, 2)))
           few == GradNames(c.arg.needs) \ (IF c.arg.bias THEN {} ELSE {"grad_bias"})
           mask == MaskOf(c)
<1>1. /\ DOMAIN all = {"grad_input", "grad_weight", "grad_bias"}
      /\ all["grad_input"] = ResultOf(ShapeOf(c, 1), InputAsked(c))
      /\ all["grad_weight"] = ResultOf(ShapeOf(c, 3), WeightAsked(c))
      /\ all["grad_bias"] = ResultOf(<<ShapeOf(c, 3)[1]>>, BiasAsked(c, Len(ShapeOf(c, 2))))
  BY GradientsAsked
<1> HIDE DEF all
<1>2. CASE c.op = "linear_backward"
  <2>1. Reference(c) = Only(GradNames(c.arg.mask), all)
    BY <1>2 DEF Reference, InPlace, all
  <2>2. name \in GradNames(c.arg.mask) /\ Reference(c)[name] = all[name]
    BY <2>1 DEF Only
  <2>3. mask = c.arg.mask
    BY <1>2 DEF MaskOf
  <2> HIDE DEF mask
  <2> QED
    BY <1>1, <2>2, <2>3, MaskedNames DEF mask
<1>3. CASE c.op = "linear_grad"
  <2>1. Reference(c) = Only(few, all)
    BY <1>3 DEF Reference, InPlace, all
  <2>2. name \in few /\ Reference(c)[name] = all[name]
    BY <2>1 DEF Only
  <2>3. mask = autograd_mask(c.arg.needs, c.arg.bias)
    BY <1>3 DEF MaskOf
  <2> DEFINE needs == c.arg.needs
             bias == c.arg.bias
  <2>4. name \in GradNames(needs) /\ (name = "grad_bias" => bias)
    BY <2>2
  <2> HIDE DEF few, mask, needs, bias
  <2>5. /\ needs[1] => mask[1]
        /\ needs[2] => mask[2]
        /\ bias /\ needs[3] => mask[3]
    BY <2>3 DEF autograd_mask, needs, bias
  <2>6. \/ name = "grad_input" /\ needs[1]
        \/ name = "grad_weight" /\ needs[2]
        \/ name = "grad_bias" /\ needs[3]
    BY <2>4, MaskedNames
  <2> QED
    BY <1>1, <2>2, <2>4, <2>5, <2>6 DEF mask
<1> QED
  BY <1>2, <1>3 DEF LinearGrads

\* The launches of the three gradients.
GradInput(c)  == EmptyLike("grad_input", c.in[1])
GradWeight(c) == EmptyLike("grad_weight", c.in[3])
GradBias(c)   == Empty("grad_bias", <<Size(c.in[3], 1)>>, "fp32")
LinearNum(batch, inF, outF) == [batch |-> batch, out_f |-> outF, in_f |-> inF]
InputLaunch(c, num)  == LaunchFp32("linear_backward_input", <<c.in[2], c.in[3], GradInput(c)>>, num)
WeightLaunch(c, num) == LaunchFp32("linear_backward_weight", <<c.in[1], c.in[2], GradWeight(c)>>, num)
BiasLaunch(c, num)   == LaunchFp32("linear_backward_bias", <<c.in[2], GradBias(c)>>, num)

\* The tensors of such a call.
LEMMA ThreeGiven ==
  ASSUME NEW c, WellFormed(c), c.op \in ThreeTensors
  PROVE  /\ c.in[1] \in Tensors /\ c.in[2] \in Tensors /\ c.in[3] \in Tensors
         /\ 1 \in DOMAIN c.in /\ 2 \in DOMAIN c.in /\ 3 \in DOMAIN c.in
<1>1. c.op \notin OneTensor /\ c.op \notin TwoTensors
  BY DEF ThreeTensors, OneTensor, TwoTensors
<1>2. c.in \in Seq(Tensors) /\ Len(c.in) = 3
  BY <1>1 DEF WellFormed
<1> QED
  BY <1>1, <1>2, CallTensors

\* The plan of a linear gradient, and the shapes that it checked.
LEMMA LinearPlan ==
  ASSUME NEW c, WellFormed(c), c.op \in LinearGrads, PlanOf(c).kind = "launching"
  PROVE  \E batch, inF, outF :
           LET num == LinearNum(batch, inF, outF)
           IN /\ LinearFits(c, batch, inF, outF)
              /\ PlanOf(c) = GradPlan(MaskOf(c), <<GradInput(c), GradWeight(c), GradBias(c)>>,
                                      <<InputLaunch(c, num), WeightLaunch(c, num), BiasLaunch(c, num)>>)
<1> DEFINE a == c.in[1]
           g == c.in[2]
           w == c.in[3]
           batch == IF Dim(a) = 1 THEN 1 ELSE Size(a, 1)
           inF == Last(a)
           outF == Size(w, 1)
           num == LinearNum(batch, inF, outF)
           mask == MaskOf(c)
           p == GradPlan(mask, <<GradInput(c), GradWeight(c), GradBias(c)>>,
                         <<InputLaunch(c, num), WeightLaunch(c, num), BiasLaunch(c, num)>>)
           ok == /\ \A t \in {a, g, w} : require_fp32_minigpu_contiguous(t)
                 /\ Dim(w) = 2 /\ Dim(a) \in {1, 2} /\ Size(w, 2) = inF
                 /\ g.shape = (IF Dim(a) = 1 THEN <<outF>> ELSE <<batch, outF>>)
<1>1. PlanOf(c) = linear_backward(a, g, w, mask)
  <2>1. CASE c.op = "linear_backward"
    BY <2>1 DEF PlanOf, MiniGpuOps, aten_impl, MaskOf
  <2>2. CASE c.op = "linear_grad"
    BY <2>2 DEF PlanOf, MiniGpuOps, autograd_backward, MaskOf
  <2> QED
    BY <2>1, <2>2 DEF LinearGrads
<1>2. linear_backward(a, g, w, mask) = Check(ok, p)
  BY DEF linear_backward, LinearNum, InputLaunch, WeightLaunch, BiasLaunch, GradInput, GradWeight, GradBias
<1> HIDE DEF p, ok
<1>3. ok /\ PlanOf(c) = p
  BY <1>1, <1>2, CheckPassed
<1>4. a \in Tensors /\ g \in Tensors /\ w \in Tensors
  BY ThreeGiven DEF LinearGrads, ThreeTensors
<1>5. /\ Dim(w) = 2 /\ Dim(a) \in {1, 2} /\ Size(w, 2) = inF
      /\ g.shape = (IF Dim(a) = 1 THEN <<outF>> ELSE <<batch, outF>>)
  BY <1>3 DEF ok
<1>6. /\ a.shape \in Seq(Nat) /\ w.shape \in Seq(Nat)
      /\ Dim(a) = Len(a.shape) /\ Len(w.shape) = 2 /\ w.shape[1] = outF /\ w.shape[2] = inF
      /\ inF = a.shape[Len(a.shape)] /\ (Dim(a) # 1 => batch = a.shape[1])
  BY <1>4, <1>5 DEF Tensors, Dim, Size, Last
<1>7. outF \in Nat /\ inF \in Nat /\ batch \in Nat
  <2> HIDE DEF a, w, outF, inF
  <2>1. outF \in Nat /\ inF \in Nat
    BY <1>6, SizesOfFew
  <2>2. CASE Dim(a) = 1
    BY <2>1, <2>2
  <2>3. CASE Dim(a) # 1
    BY <1>5, <1>6, <2>1, <2>3, SizesOfFew
  <2> QED
    BY <2>1, <2>2, <2>3
<1> HIDE DEF num, mask
<1>8. IsRows(w.shape, outF, inF)
  BY <1>6, <1>7 DEF IsRows
<1>9. CASE Dim(a) = 1
  <2>1. batch = 1 /\ Len(a.shape) = 1 /\ a.shape[1] = inF /\ g.shape = <<outF>>
    BY <1>5, <1>6, <1>9
  <2> HIDE DEF a, g, w, outF, inF, batch
  <2>2. IsRows(a.shape, batch, inF)
    BY <1>6, <1>7, <2>1 DEF IsRows
  <2>3. g.shape \in Seq(Nat) /\ Len(g.shape) = 1 /\ g.shape[1] = outF
    BY <1>7, <2>1
  <2>4. IsRows(g.shape, batch, outF)
    BY <1>7, <2>1, <2>3 DEF IsRows
  <2>5. LinearFits(c, batch, inF, outF)
    BY <1>4, <1>6, <1>8, <2>1, <2>2, <2>3, <2>4 DEF LinearFits, ShapeOf, a, g, w
  <2> QED
    BY <1>3, <2>5 DEF p, num, mask, outF, w
<1>10. CASE Dim(a) # 1
  <2>1. batch = a.shape[1] /\ Len(a.shape) = 2 /\ a.shape[2] = inF /\ g.shape = <<batch, outF>>
    BY <1>5, <1>6, <1>10
  <2> HIDE DEF a, g, w, outF, inF, batch
  <2>2. IsRows(a.shape, batch, inF)
    BY <1>6, <1>7, <2>1 DEF IsRows
  <2>3. g.shape \in Seq(Nat) /\ Len(g.shape) = 2 /\ g.shape[1] = batch /\ g.shape[2] = outF
    BY <1>7, <2>1
  <2>4. IsRows(g.shape, batch, outF)
    BY <1>7, <2>1, <2>3 DEF IsRows
  <2>5. LinearFits(c, batch, inF, outF)
    BY <1>4, <1>6, <1>8, <2>1, <2>2, <2>3, <2>4 DEF LinearFits, ShapeOf, a, g, w
  <2> QED
    BY <1>3, <2>5 DEF p, num, mask, outF, w
<1> QED
  BY <1>9, <1>10

\* The new tensors of a gradient.
LEMMA NewGradients ==
  ASSUME NEW c, NEW batch, NEW inF, NEW outF, LinearFits(c, batch, inF, outF)
  PROVE  /\ GradInput(c) \in Tensors /\ GradInput(c).name = "grad_input"
         /\ GradInput(c).shape = ShapeOf(c, 1) /\ Numel(GradInput(c)) = batch * inF
         /\ GradWeight(c) \in Tensors /\ GradWeight(c).name = "grad_weight"
         /\ GradWeight(c).shape = ShapeOf(c, 3) /\ Numel(GradWeight(c)) = outF * inF
         /\ GradBias(c) \in Tensors /\ GradBias(c).name = "grad_bias"
         /\ GradBias(c).shape = <<outF>> /\ Numel(GradBias(c)) = outF
<1>1. c.in[1] \in Tensors /\ c.in[3] \in Tensors /\ outF \in Nat
  BY DEF LinearFits, IsRows
<1>2. GradInput(c) \in Tensors /\ GradInput(c).name = "grad_input" /\ GradInput(c).shape = ShapeOf(c, 1)
  BY <1>1, LikeIs DEF GradInput, ShapeOf, NewNames
<1>3. GradWeight(c) \in Tensors /\ GradWeight(c).name = "grad_weight" /\ GradWeight(c).shape = ShapeOf(c, 3)
  BY <1>1, LikeIs DEF GradWeight, ShapeOf, NewNames
<1>4. /\ GradBias(c) \in Tensors /\ GradBias(c).name = "grad_bias"
      /\ GradBias(c).shape = <<outF>> /\ Numel(GradBias(c)) = outF
  <2> DEFINE shape == <<outF>>
  <2>1. shape \in Seq(Nat) /\ "fp32" \in Dtypes /\ "grad_bias" \in NewNames
    BY <1>1 DEF Dtypes, SixTypes, NewNames
  <2>2. NumelOf(shape) = outF
    BY <1>1, NumelOfFew
  <2>3. GradBias(c) = Empty("grad_bias", shape, "fp32")
    <3>1. Size(c.in[3], 1) = outF
      BY DEF LinearFits, IsRows, ShapeOf, Size
    <3> QED
      BY <3>1 DEF GradBias
  <2> HIDE DEF shape
  <2>4. /\ Empty("grad_bias", shape, "fp32") \in Tensors
        /\ Empty("grad_bias", shape, "fp32").name = "grad_bias"
        /\ Empty("grad_bias", shape, "fp32").shape = shape
        /\ Numel(Empty("grad_bias", shape, "fp32")) = NumelOf(shape)
    BY <2>1, EmptyIs
  <2> QED
    BY <2>2, <2>3, <2>4 DEF shape
<1>5. NumelOf(ShapeOf(c, 1)) = batch * inF /\ NumelOf(ShapeOf(c, 3)) = outF * inF
  BY RowsNumel DEF LinearFits
<1> QED
  BY <1>2, <1>3, <1>4, <1>5 DEF Numel

\* Each launch computes its gradient.
LEMMA LinearComputes ==
  ASSUME NEW c, WellFormed(c), NEW batch, NEW inF, NEW outF, LinearFits(c, batch, inF, outF),
         NEW num, num = LinearNum(batch, inF, outF)
  PROVE  /\ Computes(c, GradInput(c), InputLaunch(c, num), InputGrads(c, batch, inF, outF))
         /\ Computes(c, GradWeight(c), WeightLaunch(c, num), WeightGrads(c, batch, inF, outF))
         /\ Computes(c, GradBias(c), BiasLaunch(c, num), BiasGrads(c, batch, inF, outF))
<1> DEFINE i == InputLaunch(c, num)
           w == WeightLaunch(c, num)
           b == BiasLaunch(c, num)
<1>1. num.batch = batch /\ num.in_f = inF /\ num.out_f = outF
  BY DEF LinearNum
<1>2. /\ i.kernel[1] = "linear_backward_input" /\ i.kernel[2] # "host" /\ i.num = num
      /\ i.pointers = <<c.in[2], c.in[3], GradInput(c)>>
      /\ w.kernel[1] = "linear_backward_weight" /\ w.kernel[2] # "host" /\ w.num = num
      /\ w.pointers = <<c.in[1], c.in[2], GradWeight(c)>>
      /\ b.kernel[1] = "linear_backward_bias" /\ b.kernel[2] # "host" /\ b.num = num
      /\ b.pointers = <<c.in[2], GradBias(c)>>
  BY DEF InputLaunch, WeightLaunch, BiasLaunch, LaunchFp32, Launch
<1>3. 1 \in DOMAIN c.in /\ 2 \in DOMAIN c.in /\ 3 \in DOMAIN c.in
  <2>1. c.op \in ThreeTensors
    BY DEF LinearFits, LinearGrads, ThreeTensors
  <2> QED
    BY <2>1, ThreeGiven
<1> HIDE DEF i, w, b
<1>4. Target(i) = GradInput(c).name /\ Target(w) = GradWeight(c).name /\ Target(b) = GradBias(c).name
  BY <1>2 DEF Target
<1>5. ASSUME NEW m, Holds(c, m)
      PROVE  /\ ReadFrom(i, m)[1] = Before(c, 2) /\ ReadFrom(i, m)[2] = Before(c, 3)
             /\ ReadFrom(w, m)[1] = Before(c, 1) /\ ReadFrom(w, m)[2] = Before(c, 2)
             /\ ReadFrom(b, m)[1] = Before(c, 2)
  BY <1>2, <1>3, <1>5 DEF ReadFrom, Holds
<1>6. \A x : x[1] = Before(c, 2) /\ x[2] = Before(c, 3) =>
               Stored(i, x) = linear_backward_input(Before(c, 2), Before(c, 3), batch, outF, inF)
  BY <1>1, <1>2 DEF Stored, Kernel
<1>7. \A x : x[1] = Before(c, 1) /\ x[2] = Before(c, 2) =>
               Stored(w, x) = linear_backward_weight(Before(c, 1), Before(c, 2), batch, outF, inF)
  BY <1>1, <1>2 DEF Stored, Kernel
<1>8. \A x : x[1] = Before(c, 2) => Stored(b, x) = linear_backward_bias(Before(c, 2), batch, outF)
  BY <1>1, <1>2 DEF Stored, Kernel
<1>9. \A m : Holds(c, m) =>
        /\ Stored(i, ReadFrom(i, m)) = LoopOver(InputGrads(c, batch, inF, outF), batch * inF)
        /\ Stored(w, ReadFrom(w, m)) = LoopOver(WeightGrads(c, batch, inF, outF), outF * inF)
        /\ Stored(b, ReadFrom(b, m)) = LoopOver(BiasGrads(c, batch, inF, outF), outF)
  BY <1>5, <1>6, <1>7, <1>8, LinearKernels
<1>10. /\ GradInput(c) \in Tensors /\ Numel(GradInput(c)) = batch * inF
       /\ GradWeight(c) \in Tensors /\ Numel(GradWeight(c)) = outF * inF
       /\ GradBias(c) \in Tensors /\ Numel(GradBias(c)) = outF
  BY NewGradients
<1>11. DOMAIN InputGrads(c, batch, inF, outF) = Upto(batch * inF)
       /\ DOMAIN WeightGrads(c, batch, inF, outF) = Upto(outF * inF)
       /\ DOMAIN BiasGrads(c, batch, inF, outF) = Upto(outF)
  BY Zenon DEF InputGrads, WeightGrads, BiasGrads
<1>12. /\ InputGrads(c, batch, inF, outF) =
            [e \in Upto(batch * inF) |-> InputGrads(c, batch, inF, outF)[e]]
       /\ WeightGrads(c, batch, inF, outF) =
            [e \in Upto(outF * inF) |-> WeightGrads(c, batch, inF, outF)[e]]
       /\ BiasGrads(c, batch, inF, outF) = [e \in Upto(outF) |-> BiasGrads(c, batch, inF, outF)[e]]
  BY Zenon DEF InputGrads, WeightGrads, BiasGrads
<1>13. Computes(c, GradInput(c), i, InputGrads(c, batch, inF, outF))
  BY <1>4, <1>9, <1>10, <1>12 DEF Computes, Elements
<1>14. Computes(c, GradWeight(c), w, WeightGrads(c, batch, inF, outF))
  BY <1>4, <1>9, <1>10, <1>12 DEF Computes, Elements
<1>15. Computes(c, GradBias(c), b, BiasGrads(c, batch, inF, outF))
  BY <1>4, <1>9, <1>10, <1>12 DEF Computes, Elements
<1> QED
  BY <1>13, <1>14, <1>15 DEF i, w, b

\* What the launch for the input computes is what the reference asks for there.
LEMMA InputIsAsked ==
  ASSUME NEW c, NEW batch, NEW inF, NEW outF, LinearFits(c, batch, inF, outF),
         Reference(c)["grad_input"] = ResultOf(ShapeOf(c, 1), InputAsked(c))
  PROVE  IsAsked(c, "grad_input", GradInput(c), InputGrads(c, batch, inF, outF))
<1> DEFINE w == InputGrads(c, batch, inF, outF)
           s == ShapeOf(c, 1)
<1>1. /\ GradInput(c) \in Tensors /\ GradInput(c).name = "grad_input"
      /\ GradInput(c).shape = s /\ Numel(GradInput(c)) = batch * inF
  BY NewGradients
<1>2. IsRows(s, batch, inF) /\ Len(s) = Len(ShapeOf(c, 2)) /\ s \in Seq(Nat) /\ NumelOf(s) = batch * inF
  BY RowsNumel DEF LinearFits, IsRows
<1>3. ASSUME NEW q \in Upto(batch * inF) PROVE w[q] = InputAsked(c)[IndexAt(s, q)]
  <2> DEFINE ix == IndexAt(s, q)
  <2>1. /\ q \div inF \in Upto(batch) /\ q % inF \in Upto(inF)
        /\ ix = Cell(Len(ShapeOf(c, 2)), q \div inF, q % inF)
    BY <1>2, <1>3, CellAt
  <2>2. ix \in Indices(s)
    BY <1>2, <1>3, IndexAtIs
  <2> HIDE DEF ix
  <2>3. w[q] = dot_strided(Before(c, 2), (q \div inF) * outF, 1, Before(c, 3), q % inF, inF, outF)
    BY Zenon, <1>3 DEF InputGrads
  <2>4. InputAsked(c)[ix] = InputSum(c, ix)
    BY Zenon, <2>2 DEF InputAsked
  <2>5. dot_strided(Before(c, 2), (q \div inF) * outF, 1, Before(c, 3), q % inF, inF, outF)
          = InputSum(c, ix)
    BY <2>1, InputGradient
  <2>6. w[q] = InputAsked(c)[ix]
    BY Zenon, <2>3, <2>4, <2>5
  <2> QED
    BY <2>6 DEF ix
<1> HIDE DEF w, s
<1> QED
  BY <1>1, <1>3 DEF IsAsked, Elements, w, s

\* So for the weight.
LEMMA WeightIsAsked ==
  ASSUME NEW c, NEW batch, NEW inF, NEW outF, LinearFits(c, batch, inF, outF),
         Reference(c)["grad_weight"] = ResultOf(ShapeOf(c, 3), WeightAsked(c))
  PROVE  IsAsked(c, "grad_weight", GradWeight(c), WeightGrads(c, batch, inF, outF))
<1> DEFINE w == WeightGrads(c, batch, inF, outF)
           s == ShapeOf(c, 3)
<1>1. /\ GradWeight(c) \in Tensors /\ GradWeight(c).name = "grad_weight"
      /\ GradWeight(c).shape = s /\ Numel(GradWeight(c)) = outF * inF
  BY NewGradients
<1>2. IsRows(s, outF, inF) /\ Len(s) = 2 /\ s \in Seq(Nat) /\ NumelOf(s) = outF * inF
  BY RowsNumel DEF LinearFits, IsRows
<1>3. ASSUME NEW q \in Upto(outF * inF) PROVE w[q] = WeightAsked(c)[IndexAt(s, q)]
  <2> DEFINE ix == IndexAt(s, q)
  <2>1. q \div inF \in Upto(outF) /\ q % inF \in Upto(inF) /\ ix = Cell(2, q \div inF, q % inF)
    BY <1>2, <1>3, CellAt
  <2>2. ix \in Indices(s)
    BY <1>2, <1>3, IndexAtIs
  <2>3. ix = <<q \div inF, q % inF>>
    BY <2>1 DEF Cell
  <2> HIDE DEF ix
  <2>4. w[q] = dot_strided(Before(c, 2), q \div inF, outF, Before(c, 1), q % inF, inF, batch)
    BY Zenon, <1>3 DEF WeightGrads
  <2>5. WeightAsked(c)[ix] = WeightSum(c, ix)
    BY Zenon, <2>2 DEF WeightAsked
  <2>6. dot_strided(Before(c, 2), q \div inF, outF, Before(c, 1), q % inF, inF, batch)
          = WeightSum(c, ix)
    BY <2>1, <2>3, WeightGradient
  <2>7. w[q] = WeightAsked(c)[ix]
    BY Zenon, <2>4, <2>5, <2>6
  <2> QED
    BY <2>7 DEF ix
<1> HIDE DEF w, s
<1> QED
  BY <1>1, <1>3 DEF IsAsked, Elements, w, s

\* So for the bias.
LEMMA BiasIsAsked ==
  ASSUME NEW c, NEW batch, NEW inF, NEW outF, LinearFits(c, batch, inF, outF),
         Reference(c)["grad_bias"] = ResultOf(<<ShapeOf(c, 3)[1]>>, BiasAsked(c, Len(ShapeOf(c, 2))))
  PROVE  IsAsked(c, "grad_bias", GradBias(c), BiasGrads(c, batch, inF, outF))
<1> DEFINE w == BiasGrads(c, batch, inF, outF)
           s == <<outF>>
           channel == Len(ShapeOf(c, 2))
<1>1. /\ GradBias(c) \in Tensors /\ GradBias(c).name = "grad_bias"
      /\ GradBias(c).shape = s /\ Numel(GradBias(c)) = outF
  BY NewGradients
<1>2. outF \in Nat /\ ShapeOf(c, 3)[1] = outF
  BY DEF LinearFits, IsRows
<1>3. s \in Seq(Nat) /\ Len(s) = 1 /\ s[1] = outF
  BY <1>2
<1>4. s = <<ShapeOf(c, 3)[1]>>
  BY <1>2
<1> HIDE DEF s
<1>5. NumelOf(s) = outF
  BY <1>2, NumelOfFew DEF s
<1>6. ASSUME NEW q \in Upto(outF) PROVE w[q] = BiasAsked(c, channel)[IndexAt(s, q)]
  <2> DEFINE ix == IndexAt(s, q)
  <2>1. ix = <<q>>
    BY <1>3, <1>6, IndexAtOne
  <2>2. ix \in Indices(s)
    BY <1>3, <1>5, <1>6, IndexAtIs
  <2>3. ix[1] = q
    BY <2>1
  <2> HIDE DEF ix
  <2>4. w[q] = RowSum(c, batch, outF, q)
    BY Zenon, <1>6 DEF BiasGrads
  <2>5. BiasAsked(c, channel)[ix] = BiasSum(c, channel, ix[1])
    BY Zenon, <1>4, <2>2 DEF BiasAsked
  <2>6. RowSum(c, batch, outF, q) = BiasSum(c, channel, q)
    BY <1>6, BiasGradient
  <2>7. w[q] = BiasAsked(c, channel)[ix]
    BY Zenon, <2>3, <2>4, <2>5, <2>6
  <2> QED
    BY <2>7 DEF ix
<1> HIDE DEF w, channel
<1>7. Reference(c)["grad_bias"] = ResultOf(s, BiasAsked(c, channel))
  BY <1>4 DEF channel
<1> QED
  BY <1>1, <1>6, <1>7 DEF IsAsked, Elements, w

\* The gradients of linear are those of the reference.
LEMMA LinearGradSuffices ==
  ASSUME NEW c, WellFormed(c), c.op \in LinearGrads, PlanOf(c).kind = "launching"
  PROVE  Sufficient(c)
<1>1. PICK batch, inF, outF :
        LET num == LinearNum(batch, inF, outF)
        IN /\ LinearFits(c, batch, inF, outF)
           /\ PlanOf(c) = GradPlan(MaskOf(c), <<GradInput(c), GradWeight(c), GradBias(c)>>,
                                   <<InputLaunch(c, num), WeightLaunch(c, num), BiasLaunch(c, num)>>)
  BY LinearPlan
<1> DEFINE num == LinearNum(batch, inF, outF)
           mask == MaskOf(c)
<1>2. /\ Computes(c, GradInput(c), InputLaunch(c, num), InputGrads(c, batch, inF, outF))
      /\ Computes(c, GradWeight(c), WeightLaunch(c, num), WeightGrads(c, batch, inF, outF))
      /\ Computes(c, GradBias(c), BiasLaunch(c, num), BiasGrads(c, batch, inF, outF))
  BY <1>1, LinearComputes
<1>3. PlanOf(c) = GradPlan(mask, <<GradInput(c), GradWeight(c), GradBias(c)>>,
                           <<InputLaunch(c, num), WeightLaunch(c, num), BiasLaunch(c, num)>>)
  BY <1>1
<1>4. ASSUME NEW name \in DOMAIN Reference(c)
      PROVE  \/ mask[1] /\ IsAsked(c, name, GradInput(c), InputGrads(c, batch, inF, outF))
             \/ mask[2] /\ IsAsked(c, name, GradWeight(c), WeightGrads(c, batch, inF, outF))
             \/ mask[3] /\ IsAsked(c, name, GradBias(c), BiasGrads(c, batch, inF, outF))
  <2>1. CASE /\ name = "grad_input" /\ mask[1]
             /\ Reference(c)[name] = ResultOf(ShapeOf(c, 1), InputAsked(c))
    BY <1>1, <2>1, InputIsAsked
  <2>2. CASE /\ name = "grad_weight" /\ mask[2]
             /\ Reference(c)[name] = ResultOf(ShapeOf(c, 3), WeightAsked(c))
    BY <1>1, <2>2, WeightIsAsked
  <2>3. CASE /\ name = "grad_bias" /\ mask[3]
             /\ Reference(c)[name] = ResultOf(<<ShapeOf(c, 3)[1]>>, BiasAsked(c, Len(ShapeOf(c, 2))))
    BY <1>1, <2>3, BiasIsAsked
  <2> QED
    BY <2>1, <2>2, <2>3, LinearAsked
<1> HIDE DEF num, mask
<1> QED
  BY <1>2, <1>3, <1>4, GradientsSuffice

-----------------------------------------------------------------------------
\* Tensor k of the call holds rows x cols logits, and tensor t the class of each
\* row, which is that of a column.
Class(c, row) == c.arg.labels[row + 1]
ClassesFit(c, k, t, rows, cols) ==
  /\ c.in[k] \in Tensors /\ c.in[t] \in Tensors
  /\ ShapeOf(c, k) \in Seq(Nat) /\ Len(ShapeOf(c, k)) = 2
  /\ rows = ShapeOf(c, k)[1] /\ cols = ShapeOf(c, k)[2] /\ rows \in Nat /\ cols \in Nat
  /\ Elements(c.in[t]) = Upto(rows) /\ c.in[t].dtype = "i32" /\ "labels" \in DOMAIN c.arg
  /\ \A row \in Upto(rows) : Class(c, row) \in Upto(cols)

\* What is read there.
LEMMA ReadsLogit ==
  ASSUME NEW c, NEW k, NEW t, NEW rows, NEW cols, ClassesFit(c, k, t, rows, cols),
         NEW row \in Upto(rows), NEW col \in Upto(cols)
  PROVE  At(Before(c, k), row * cols + col) = X(c, k, <<row, col>>)
<1> DEFINE s == ShapeOf(c, k)
           o == <<row, col>>
<1>1. IsRows(s, rows, cols) /\ Len(s) = 2 /\ c.in[k] \in Tensors
  BY DEF ClassesFit, IsRows
<1>2. Cell(2, row, col) = o
  BY DEF Cell
<1> HIDE DEF s, o
<1>3. o \in Indices(s) /\ Position(o, s) = row * cols + col
  <2>0. IsRows(s, rows, cols)
    BY <1>1
  <2>1. Cell(Len(s), row, col) \in Indices(s) /\ Position(Cell(Len(s), row, col), s) = row * cols + col
    BY <2>0, CellIs
  <2>2. Cell(Len(s), row, col) = o
    BY <1>1, <1>2
  <2> QED
    BY <2>1, <2>2
<1>4. At(Before(c, k), Position(o, s)) = X(c, k, o)
  BY <1>1, <1>3, ReadsIndex DEF s
<1> QED
  BY <1>3, <1>4 DEF o

\* And of the class.
LEMMA ReadsClass ==
  ASSUME NEW c, NEW k, NEW t, NEW rows, NEW cols, ClassesFit(c, k, t, rows, cols), NEW row \in Upto(rows)
  PROVE  At(Before(c, t), row) = <<"int", Class(c, row)>>
<1>1. At(Before(c, t), row) = InputAt(c, t, row)
  BY AtBefore DEF ClassesFit
<1> QED
  BY <1>1 DEF ClassesFit, InputAt, Class

\* The column that the kernel finds.
LEMMA ColumnIs ==
  ASSUME NEW c, NEW k, NEW t, NEW rows, NEW cols, ClassesFit(c, k, t, rows, cols), NEW row \in Upto(rows)
  PROVE  LabelColumn(Before(c, t), row, cols) = Class(c, row)
<1> DEFINE hits == {col \in Upto(cols) : At(Before(c, t), row) = <<"int", col>>}
           l == Class(c, row)
<1>1. At(Before(c, t), row) = <<"int", l>> /\ l \in Upto(cols)
  BY ReadsClass DEF ClassesFit
<1>2. LabelColumn(Before(c, t), row, cols) = IF hits = {} THEN 0 ELSE CHOOSE col \in hits : TRUE
  BY DEF LabelColumn
<1> HIDE DEF l
<1>3. \A col : <<"int", l>> = <<"int", col>> => l = col
  OBVIOUS
<1>4. hits = {l}
  BY <1>1, <1>3
<1> HIDE DEF hits
<1> QED
  BY <1>2, <1>4 DEF l

\* The pieces of a row.
LEMMA RowPieces ==
  ASSUME NEW c, NEW k, NEW t, NEW rows, NEW cols, ClassesFit(c, k, t, rows, cols), NEW row \in Upto(rows)
  PROVE  /\ row_max(Before(c, k), row * cols, cols) = Greatest(c, k, row)
         /\ exp_sum(Before(c, k), row * cols, cols) = ExponentialSum(c, k, row)
<1> DEFINE most == row_max(Before(c, k), row * cols, cols)
           f == [col \in Upto(cols) |-> Apply("exp", Minus(At(Before(c, k), row * cols + col), most))]
           g == [col \in Upto(cols) |-> Exponential(c, k, row, col)]
<1>1. \A col \in Upto(cols) : At(Before(c, k), row * cols + col) = X(c, k, <<row, col>>)
  BY ReadsLogit
<1>2. cols = ShapeOf(c, k)[2]
  BY DEF ClassesFit
<1>3. most = Greatest(c, k, row)
  <2>1. most = <<"max", {At(Before(c, k), row * cols + col) : col \in Upto(cols)}>>
    BY DEF row_max, MostOf
  <2>2. Greatest(c, k, row) = <<"max", {X(c, k, <<row, col>>) : col \in Upto(cols)}>>
    BY <1>2 DEF Greatest, MostOf
  <2>3. {At(Before(c, k), row * cols + col) : col \in Upto(cols)} = {X(c, k, <<row, col>>) : col \in Upto(cols)}
    BY <1>1
  <2> QED
    BY <2>1, <2>2, <2>3
<1> HIDE DEF most
<1>4. \A col \in Upto(cols) : f[col] = g[col]
  BY <1>1, <1>3 DEF Exponential
<1>5. f = g
  BY <1>4
<1>6. exp_sum(Before(c, k), row * cols, cols) = <<"sum", BagOf(f)>>
  BY DEF exp_sum, SumOf, most
<1>7. ExponentialSum(c, k, row) = <<"sum", BagOf(g)>>
  BY <1>2 DEF ExponentialSum, SumOf
<1> HIDE DEF f, g
<1> QED
  BY <1>3, <1>5, <1>6, <1>7 DEF most

-----------------------------------------------------------------------------
\* Rows of n values, one behind the other: the elements, and the loop with a
\* thread for each row that stores them.
RowByRow(rows, n, vals)  == [q \in Upto(rows * n) |-> vals[q \div n][(q % n) + 1]]
Stretches(rows, vals) ==
  [total |-> rows, shared |-> TRUE, stores |-> [row \in Upto(rows) |-> Stretch(row, vals[row])]]

\* An element of a row.
LEMMA RowByRowAt ==
  ASSUME NEW rows \in Nat, NEW n \in Nat \ {0}, NEW vals, NEW row \in Upto(rows), NEW col \in Upto(n)
  PROVE  /\ row * n + col \in Upto(rows * n)
         /\ RowByRow(rows, n, vals)[row * n + col] = vals[row][col + 1]
         /\ At(RowByRow(rows, n, vals), row * n + col) = vals[row][col + 1]
<1> DEFINE q == row * n + col
           w == RowByRow(rows, n, vals)
<1>1. row \in Nat /\ row < rows /\ col \in 0..(n - 1) /\ col \in Nat
  BY DEF Upto
<1>2. q \in Nat /\ q < rows * n
  BY <1>1, RowPlace
<1>3. rows * n \in Nat
  OBVIOUS
<1>4. q % n = col /\ q \div n = row
  BY <1>1, RowAndColumn
<1> HIDE DEF q
<1>5. q \in Upto(rows * n)
  BY <1>2, <1>3 DEF Upto
<1>6. DOMAIN w = Upto(rows * n) /\ w[q] = vals[q \div n][(q % n) + 1]
  BY <1>5 DEF RowByRow
<1>7. w[q] = vals[row][col + 1]
  BY <1>4, <1>6
<1> HIDE DEF w
<1>8. At(w, q) = w[q]
  BY <1>5, <1>6 DEF At
<1> QED
  BY <1>5, <1>7, <1>8 DEF q, w

\* The loop stores them.
LEMMA StretchesTo ==
  ASSUME NEW rows \in Nat, NEW n \in Nat \ {0}, NEW vals, \A row \in Upto(rows) : Len(vals[row]) = n
  PROVE  RowsTo(Stretches(rows, vals), rows, n, RowByRow(rows, n, vals))
<1> DEFINE w == RowByRow(rows, n, vals)
<1>1. ASSUME NEW row \in Upto(rows)
      PROVE  Stretch(row, vals[row]) = [e \in {row * n + col : col \in Upto(n)} |-> w[e]]
  <2> DEFINE E == {row * n + col : col \in Upto(n)}
             f == [e \in E |-> vals[row][e - row * n + 1]]
  <2>1. Stretch(row, vals[row]) = f
    BY DEF Stretch
  <2>2. ASSUME NEW e \in E PROVE f[e] = w[e]
    <3>1. PICK col \in Upto(n) : e = row * n + col
      OBVIOUS
    <3>2. w[e] = vals[row][col + 1]
      BY <3>1, RowByRowAt
    <3>3. row \in Nat /\ col \in Nat /\ row * n \in Nat
      BY DEF Upto
    <3> DEFINE base == row * n
    <3>4. e - base + 1 = col + 1
      <4> HIDE DEF base
      <4>1. base \in Nat /\ e = base + col
        BY <3>1, <3>3 DEF base
      <4> QED
        BY <3>3, <4>1
    <3>5. f[e] = vals[row][e - base + 1]
      BY <2>2
    <3> QED
      BY <3>2, <3>4, <3>5
  <2>3. f = [e \in E |-> w[e]]
    <3> HIDE DEF w
    <3> QED
      BY <2>2
  <2> QED
    BY <2>1, <2>3
<1> HIDE DEF w
<1>2. Stretches(rows, vals).total = rows
      /\ \A row \in Upto(rows) : Stretches(rows, vals).stores[row] = Stretch(row, vals[row])
  BY DEF Stretches
<1>3. RowsTo(Stretches(rows, vals), rows, n, w)
  BY <1>1, <1>2 DEF RowsTo
<1> QED
  BY <1>3 DEF w

-----------------------------------------------------------------------------
\* Of each row of the logits: what a cross entropy keeps, and what its debugging
\* variant returns.
Stats(c, rows) ==
  [row \in Upto(rows) |-> <<Greatest(c, 1, row), ExponentialSum(c, 1, row), ClassLogit(c, row)>>]
Debugs(c, rows) ==
  [row \in Upto(rows) |-> <<Greatest(c, 1, row), ExponentialSum(c, 1, row),
                            Apply("log", ExponentialSum(c, 1, row)), ClassLogit(c, row), RowLoss(c, row)>>]
RowLosses(c, rows) == [row \in Upto(rows) |-> RowLoss(c, row)]

\* What the first kernel stores.
LEMMA StatsKernel ==
  ASSUME NEW c, NEW rows, NEW cols, ClassesFit(c, 1, 2, rows, cols)
  PROVE  cross_entropy_stats(Before(c, 1), Before(c, 2), rows, cols) = Stretches(rows, Stats(c, rows))
<1> DEFINE f == [row \in Upto(rows) |->
                   Stretch(row, <<row_max(Before(c, 1), row * cols, cols), exp_sum(Before(c, 1), row * cols, cols),
                                  At(Before(c, 1), row * cols + LabelColumn(Before(c, 2), row, cols))>>)]
           g == [row \in Upto(rows) |-> Stretch(row, Stats(c, rows)[row])]
<1>1. ASSUME NEW row \in Upto(rows) PROVE f[row] = g[row]
  <2>1. /\ row_max(Before(c, 1), row * cols, cols) = Greatest(c, 1, row)
        /\ exp_sum(Before(c, 1), row * cols, cols) = ExponentialSum(c, 1, row)
    BY RowPieces
  <2>2. LabelColumn(Before(c, 2), row, cols) = Class(c, row) /\ Class(c, row) \in Upto(cols)
    BY ColumnIs DEF ClassesFit
  <2>3. At(Before(c, 1), row * cols + Class(c, row)) = ClassLogit(c, row)
    <3>1. At(Before(c, 1), row * cols + Class(c, row)) = X(c, 1, <<row, Class(c, row)>>)
      BY <2>2, ReadsLogit
    <3> QED
      BY <3>1 DEF ClassLogit, Class
  <2>4. Stats(c, rows)[row] = <<Greatest(c, 1, row), ExponentialSum(c, 1, row), ClassLogit(c, row)>>
    BY DEF Stats
  <2> QED
    BY <2>1, <2>2, <2>3, <2>4
<1>2. f = g
  BY <1>1
<1>3. cross_entropy_stats(Before(c, 1), Before(c, 2), rows, cols) = [total |-> rows, shared |-> TRUE, stores |-> f]
  BY DEF cross_entropy_stats, Loop
<1>4. Stretches(rows, Stats(c, rows)) = [total |-> rows, shared |-> TRUE, stores |-> g]
  BY DEF Stretches
<1> HIDE DEF f, g
<1> QED
  BY <1>2, <1>3, <1>4

\* What the second ones read of that.
LEMMA ReadsStats ==
  ASSUME NEW c, NEW rows \in Nat, NEW x, x = RowByRow(rows, 3, Stats(c, rows)), NEW row \in Upto(rows)
  PROVE  /\ At(x, 3 * row) = Greatest(c, 1, row)
         /\ At(x, 3 * row + 1) = ExponentialSum(c, 1, row)
         /\ At(x, 3 * row + 2) = ClassLogit(c, row)
<1> DEFINE s == Stats(c, rows)
<1>1. s[row][1] = Greatest(c, 1, row) /\ s[row][2] = ExponentialSum(c, 1, row) /\ s[row][3] = ClassLogit(c, row)
  BY DEF Stats
<1> HIDE DEF s
<1>2. 0 \in Upto(3) /\ 1 \in Upto(3) /\ 2 \in Upto(3) /\ 3 \in Nat \ {0}
  BY DEF Upto
<1>3. /\ At(RowByRow(rows, 3, s), row * 3 + 0) = s[row][0 + 1]
      /\ At(RowByRow(rows, 3, s), row * 3 + 1) = s[row][1 + 1]
      /\ At(RowByRow(rows, 3, s), row * 3 + 2) = s[row][2 + 1]
  BY <1>2, RowByRowAt
<1>4. row * 3 + 0 = 3 * row /\ row * 3 + 1 = 3 * row + 1 /\ row * 3 + 2 = 3 * row + 2
  BY DEF Upto
<1>5. At(x, 3 * row) = s[row][1] /\ At(x, 3 * row + 1) = s[row][2] /\ At(x, 3 * row + 2) = s[row][3]
  BY <1>3, <1>4 DEF s
<1> QED
  BY <1>1, <1>5

\* What these store.
LEMMA FinishKernel ==
  ASSUME NEW c, NEW rows \in Nat, NEW x, x = RowByRow(rows, 3, Stats(c, rows)), NEW inv
  PROVE  cross_entropy_finish(x, rows, inv) = Whole(Times(<<"sum", BagOf(RowLosses(c, rows))>>, inv))
<1> DEFINE f == [row \in Upto(rows) |->
                   Minus(Plus(Apply("log", At(x, 3 * row + 1)), At(x, 3 * row)), At(x, 3 * row + 2))]
<1>1. \A row \in Upto(rows) : f[row] = RowLosses(c, rows)[row]
  BY ReadsStats DEF RowLoss, RowLosses
<1>2. f = RowLosses(c, rows)
  BY <1>1 DEF RowLosses
<1>3. cross_entropy_finish(x, rows, inv) = Whole(Times(<<"sum", BagOf(f)>>, inv))
  BY DEF cross_entropy_finish, SumOf
<1> HIDE DEF f
<1> QED
  BY <1>2, <1>3

\* Those of the debugging variant.
LEMMA DebugKernel ==
  ASSUME NEW c, NEW rows \in Nat, NEW x, x = RowByRow(rows, 3, Stats(c, rows))
  PROVE  cross_entropy_debug_finish(x, rows) = Stretches(rows, Debugs(c, rows))
<1> DEFINE f == [row \in Upto(rows) |-> debug_row(row, At(x, 3 * row), At(x, 3 * row + 1), At(x, 3 * row + 2))]
           g == [row \in Upto(rows) |-> Stretch(row, Debugs(c, rows)[row])]
<1>1. ASSUME NEW row \in Upto(rows) PROVE f[row] = g[row]
  <2>1. f[row] = debug_row(row, Greatest(c, 1, row), ExponentialSum(c, 1, row), ClassLogit(c, row))
    BY ReadsStats
  <2>2. g[row] = Stretch(row, Debugs(c, rows)[row])
    OBVIOUS
  <2>3. Debugs(c, rows)[row] = <<Greatest(c, 1, row), ExponentialSum(c, 1, row),
          Apply("log", ExponentialSum(c, 1, row)), ClassLogit(c, row), RowLoss(c, row)>>
    BY DEF Debugs
  <2> HIDE DEF f, g
  <2> QED
    BY <2>1, <2>2, <2>3 DEF debug_row, RowLoss
<1>2. f = g
  BY <1>1
<1>3. cross_entropy_debug_finish(x, rows) = [total |-> rows, shared |-> TRUE, stores |-> f]
  BY DEF cross_entropy_debug_finish, Loop
<1>4. Stretches(rows, Debugs(c, rows)) = [total |-> rows, shared |-> TRUE, stores |-> g]
  BY DEF Stretches
<1> HIDE DEF f, g
<1> QED
  BY <1>2, <1>3, <1>4

-----------------------------------------------------------------------------
\* The calls that take classes, and where: the logits are tensor k.
ClassOps == {"cross_entropy", "cross_entropy_debug"}
GradOfClasses(c) == c.op = "loss_grad" /\ c.arg.loss = "cross_entropy"

\* Classes in range are those of columns.
LEMMA ClassesAreColumns ==
  ASSUME NEW c, WellFormed(c), ClassesInRange(c), NEW k,
         (c.op \in ClassOps /\ k = 1) \/ (GradOfClasses(c) /\ k = 2), ClassArgs(c.in[k], c.in[k + 1])
  PROVE  ClassesFit(c, k, k + 1, Size(c.in[k], 1), Size(c.in[k], 2))
<1> DEFINE logits == c.in[k]
           target == c.in[k + 1]
           rows == Size(logits, 1)
           cols == Size(logits, 2)
<1>1. /\ logits \in Tensors /\ target \in Tensors /\ Len(c.in) = k + 1 /\ (k = 1 \/ k = 2)
      /\ k = (IF c.op = "loss_grad" THEN 2 ELSE 1)
  <2>1. CASE c.op \in ClassOps /\ k = 1
    <3>1. c.op \in TwoTensors /\ c.op \notin OneTensor /\ c.op # "loss_grad"
      BY <2>1 DEF ClassOps, TwoTensors, OneTensor
    <3>2. c.in \in Seq(Tensors) /\ Len(c.in) = 2
      BY <3>1 DEF WellFormed
    <3> QED
      BY <2>1, <3>1, <3>2
  <2>2. CASE GradOfClasses(c) /\ k = 2
    <3>1. c.op \in ThreeTensors /\ c.op \notin TwoTensors /\ c.op \notin OneTensor /\ c.op = "loss_grad"
      BY <2>2 DEF GradOfClasses, ThreeTensors, TwoTensors, OneTensor
    <3>2. c.in \in Seq(Tensors) /\ Len(c.in) = 3
      BY <3>1 DEF WellFormed
    <3> QED
      BY <2>2, <3>1, <3>2
  <2> QED
    BY <2>1, <2>2
<1>2. target.dtype = "i32" /\ Dim(logits) = 2 /\ target.shape = <<rows>>
  BY DEF ClassArgs
<1>3. rows \in Nat /\ cols \in Nat /\ logits.shape \in Seq(Nat) /\ Len(logits.shape) = 2
      /\ rows = logits.shape[1] /\ cols = logits.shape[2]
  BY <1>1, <1>2 DEF Tensors, Dim, Size
<1>4. Numel(target) = rows
  BY <1>2, <1>3, NumelOfFew DEF Numel
<1>5. "labels" \in DOMAIN c.arg /\ c.arg.labels \in Seq(Int) /\ Len(c.arg.labels) = rows
  <2>1. c.in[Len(c.in)] = target
    BY <1>1
  <2> QED
    BY <1>2, <1>4, <2>1 DEF WellFormed, ClassOps, GradOfClasses
<1>6. \A i \in DOMAIN c.arg.labels : c.arg.labels[i] \in Upto(cols)
  BY <1>1, <1>3, <1>5 DEF ClassesInRange, ShapeOf
<1> HIDE DEF rows, cols
<1>7. \A row \in Upto(rows) : Class(c, row) \in Upto(cols)
  <2> TAKE row \in Upto(rows)
  <2>1. row + 1 \in 1..rows
    <3>1. rows \in Nat
      BY <1>3
    <3> QED
      BY <3>1 DEF Upto
  <2>2. row + 1 \in DOMAIN c.arg.labels
    BY <1>5, <2>1
  <2> QED
    BY <1>6, <2>2 DEF Class
<1> QED
  BY <1>1, <1>2, <1>3, <1>4, <1>5, <1>7 DEF ClassesFit, ShapeOf, Elements, rows, cols

-----------------------------------------------------------------------------
\* The plan of such a loss: what its two launches are.
StatsTensor(rows)    == Empty("stats", <<rows, 3>>, "fp32")
ClassOut(c, rows)    == Empty("out", IF c.op = "cross_entropy" THEN <<>> ELSE <<rows, 5>>, "fp32")
FinishLaunch(c, rows) ==
  IF c.op = "cross_entropy"
  THEN LaunchFp32("cross_entropy_finish", <<StatsTensor(rows), ClassOut(c, rows)>>,
                  [rows |-> rows, inv_rows |-> OneOver(rows)])
  ELSE LaunchFp32("cross_entropy_debug_finish", <<StatsTensor(rows), ClassOut(c, rows)>>, [rows |-> rows])

\* Behind its checks.
LEMMA ClassPlan ==
  ASSUME NEW c, c.op \in ClassOps, PlanOf(c).kind = "launching", NEW rows, rows = Size(c.in[1], 1)
  PROVE  /\ ClassArgs(c.in[1], c.in[2])
         /\ PlanOf(c) = Plan(<<StatsTensor(rows), ClassOut(c, rows)>>,
                             <<CrossEntropyStats(c.in[1], c.in[2], StatsTensor(rows)), FinishLaunch(c, rows)>>)
<1>1. CASE c.op = "cross_entropy"
  <2>1. PlanOf(c) = cross_entropy_loss(c.in[1], c.in[2])
    BY <1>1 DEF PlanOf, MiniGpuOps, minigpu_impl
  <2> QED
    BY <1>1, <2>1, CheckPassed DEF cross_entropy_loss, StatsTensor, ClassOut, FinishLaunch
<1>2. CASE c.op = "cross_entropy_debug"
  <2>1. PlanOf(c) = cross_entropy_debug_op(c.in[1], c.in[2])
    BY <1>2 DEF PlanOf, MiniGpuOps, minigpu_impl
  <2> QED
    BY <1>2, <2>1, CheckPassed DEF cross_entropy_debug_op, StatsTensor, ClassOut, FinishLaunch
<1> QED
  BY <1>1, <1>2 DEF ClassOps

\* What the second one stores, and the loop that does.
ClassValue(c, rows) == Times(<<"sum", BagOf(RowLosses(c, rows))>>, OneOver(rows))
ClassResult(c, rows) ==
  IF c.op = "cross_entropy" THEN [q \in {0} |-> ClassValue(c, rows)] ELSE RowByRow(rows, 5, Debugs(c, rows))
ClassLoop(c, rows) ==
  IF c.op = "cross_entropy" THEN Whole(ClassValue(c, rows)) ELSE Stretches(rows, Debugs(c, rows))

\* The tensors.
LEMMA ClassTensors ==
  ASSUME NEW c, c.op \in ClassOps, NEW rows \in Nat
  PROVE  /\ StatsTensor(rows) \in Tensors /\ StatsTensor(rows).name = "stats"
         /\ Elements(StatsTensor(rows)) = Upto(rows * 3) /\ Numel(StatsTensor(rows)) = rows * 3
         /\ ClassOut(c, rows) \in Tensors /\ ClassOut(c, rows).name = "out"
         /\ c.op = "cross_entropy" => /\ ClassOut(c, rows).shape = <<>> /\ Numel(ClassOut(c, rows)) = 1
                                      /\ Elements(ClassOut(c, rows)) = {0}
         /\ c.op # "cross_entropy" => /\ ClassOut(c, rows).shape = <<rows, 5>>
                                      /\ Numel(ClassOut(c, rows)) = rows * 5
                                      /\ Elements(ClassOut(c, rows)) = Upto(rows * 5)
<1>1. "stats" \in NewNames /\ "fp32" \in Dtypes
  BY DEF NewNames, Dtypes, SixTypes
<1>2. <<rows, 3>> \in Seq(Nat) /\ <<rows, 5>> \in Seq(Nat) /\ <<>> \in Seq(Nat)
  OBVIOUS
<1>3. NumelOf(<<rows, 3>>) = rows * 3 /\ NumelOf(<<rows, 5>>) = rows * 5 /\ NumelOf(<<>>) = 1
  BY <1>2, NumelOfFew
<1>4. StatsTensor(rows) \in Tensors /\ StatsTensor(rows).name = "stats" /\ Numel(StatsTensor(rows)) = rows * 3
  <2> DEFINE shape == <<rows, 3>>
  <2>1. shape \in Seq(Nat) /\ NumelOf(shape) = rows * 3 /\ StatsTensor(rows) = Empty("stats", shape, "fp32")
    BY <1>2, <1>3 DEF StatsTensor
  <2> HIDE DEF shape
  <2> QED
    BY <1>1, <2>1, EmptyIs
<1>5. Upto(1) = {0}
  BY DEF Upto
<1>6. CASE c.op = "cross_entropy"
  BY <1>1, <1>2, <1>3, <1>4, <1>5, <1>6, OutIs DEF ClassOut, Elements
<1>7. CASE c.op # "cross_entropy"
  BY <1>1, <1>2, <1>3, <1>4, <1>7, OutIs DEF ClassOut, Elements
<1> QED
  BY <1>6, <1>7

\* The first launch.
LEMMA StatsLaunched ==
  ASSUME NEW c, WellFormed(c), c.op \in ClassOps, NEW rows, NEW cols, ClassesFit(c, 1, 2, rows, cols),
         NEW m, Holds(c, m)
  PROVE  LET l == CrossEntropyStats(c.in[1], c.in[2], StatsTensor(rows))
         IN Target(l) = "stats" /\ l.kernel[2] # "host" /\ Stored(l, ReadFrom(l, m)) = Stretches(rows, Stats(c, rows))
<1> DEFINE stats == StatsTensor(rows)
           l == CrossEntropyStats(c.in[1], c.in[2], stats)
<1>1. rows \in Nat /\ rows = Size(c.in[1], 1) /\ cols = Size(c.in[1], 2)
  BY DEF ClassesFit, ShapeOf, Size
<1>2. stats.name = "stats"
  BY <1>1, ClassTensors
<1>3. 1 \in DOMAIN c.in /\ 2 \in DOMAIN c.in
  BY InputNames DEF ClassOps, TwoTensors
<1> HIDE DEF stats
<1>4. /\ l.pointers = <<c.in[1], c.in[2], stats>> /\ l.kernel[1] = "cross_entropy_stats" /\ l.kernel[2] = "fp32"
      /\ l.num.rows = rows /\ l.num.cols = cols
  BY <1>1 DEF CrossEntropyStats, LaunchFp32, Launch
<1> HIDE DEF l
<1>5. ReadFrom(l, m)[1] = Before(c, 1) /\ ReadFrom(l, m)[2] = Before(c, 2)
  BY <1>3, <1>4 DEF ReadFrom, Holds
<1>6. Stored(l, ReadFrom(l, m)) = cross_entropy_stats(Before(c, 1), Before(c, 2), rows, cols)
  BY <1>4, <1>5 DEF Stored, Kernel
<1>7. cross_entropy_stats(Before(c, 1), Before(c, 2), rows, cols) = Stretches(rows, Stats(c, rows))
  BY StatsKernel
<1>8. Target(l) = "stats"
  BY <1>2, <1>4 DEF Target
<1> QED
  BY <1>4, <1>6, <1>7, <1>8 DEF l, stats

\* The second one.
LEMMA FinishLaunched ==
  ASSUME NEW c, c.op \in ClassOps, NEW rows \in Nat, NEW m, m["stats"] = RowByRow(rows, 3, Stats(c, rows))
  PROVE  LET l == FinishLaunch(c, rows)
         IN Target(l) = "out" /\ l.kernel[2] # "host" /\ Stored(l, ReadFrom(l, m)) = ClassLoop(c, rows)
<1> DEFINE stats == StatsTensor(rows)
           out == ClassOut(c, rows)
           l == FinishLaunch(c, rows)
           x == ReadFrom(l, m)
<1>1. stats.name = "stats" /\ out.name = "out"
  BY ClassTensors
<1> HIDE DEF stats, out
<1>2. /\ l.pointers = <<stats, out>> /\ l.kernel[2] = "fp32" /\ l.num.rows = rows
      /\ c.op = "cross_entropy" => l.kernel[1] = "cross_entropy_finish" /\ l.num.inv_rows = OneOver(rows)
      /\ c.op # "cross_entropy" => l.kernel[1] = "cross_entropy_debug_finish"
  BY DEF FinishLaunch, LaunchFp32, Launch, stats, out
<1> HIDE DEF l
<1>3. x[1] = RowByRow(rows, 3, Stats(c, rows))
  BY <1>1, <1>2 DEF ReadFrom
<1>4. Target(l) = "out"
  BY <1>1, <1>2 DEF Target
<1> HIDE DEF x
<1>5. SUFFICES Stored(l, x) = ClassLoop(c, rows)
  BY <1>2, <1>4 DEF l, x
<1>6. CASE c.op = "cross_entropy"
  <2>1. Stored(l, x) = cross_entropy_finish(x[1], rows, OneOver(rows))
    BY <1>2, <1>6 DEF Stored, Kernel
  <2>2. cross_entropy_finish(x[1], rows, OneOver(rows)) = Whole(ClassValue(c, rows))
    BY <1>3, FinishKernel DEF ClassValue
  <2>3. ClassLoop(c, rows) = Whole(ClassValue(c, rows))
    BY <1>6 DEF ClassLoop
  <2> QED
    BY <2>1, <2>2, <2>3
<1>7. CASE c.op # "cross_entropy"
  <2>1. Stored(l, x) = cross_entropy_debug_finish(x[1], rows)
    BY <1>2, <1>7 DEF Stored, Kernel
  <2>2. cross_entropy_debug_finish(x[1], rows) = Stretches(rows, Debugs(c, rows))
    BY <1>3, DebugKernel
  <2>3. ClassLoop(c, rows) = Stretches(rows, Debugs(c, rows))
    BY <1>7 DEF ClassLoop
  <2> QED
    BY <2>1, <2>2, <2>3
<1> QED
  BY <1>6, <1>7

-----------------------------------------------------------------------------
\* What the reference asks for.
ClassAsked(c, rows) ==
  IF c.op = "cross_entropy" THEN [ix \in Indices(<<>>) |-> ClassValue(c, rows)]
  ELSE [ix \in Indices(<<rows, 5>>) |-> Debugs(c, rows)[ix[1]][ix[2] + 1]]

\* It does.
LEMMA ClassReference ==
  ASSUME NEW c, c.op \in ClassOps, NEW rows \in Nat, rows = ShapeOf(c, 1)[1]
  PROVE  Reference(c) = [out |-> ResultOf(ClassOut(c, rows).shape, ClassAsked(c, rows))]
<1>1. CASE c.op = "cross_entropy"
  <2>1. ClassOut(c, rows).shape = <<>> /\ ClassAsked(c, rows) = [ix \in Indices(<<>>) |-> ClassValue(c, rows)]
    BY <1>1, ClassTensors DEF ClassAsked
  <2>2. Reference(c) = [out |-> ResultOf(<<>>, [ix \in Indices(<<>>) |-> ClassValue(c, rows)])]
    BY <1>1 DEF Reference, InPlace, Result, SumOf, ClassValue, RowLosses, OneOver
  <2> QED
    BY <2>1, <2>2
<1>2. CASE c.op = "cross_entropy_debug"
  <2> DEFINE s == <<rows, 5>>
             f == [ix \in Indices(s) |->
                     <<Greatest(c, 1, ix[1]), ExponentialSum(c, 1, ix[1]), Apply("log", ExponentialSum(c, 1, ix[1])),
                       ClassLogit(c, ix[1]), RowLoss(c, ix[1])>>[ix[2] + 1]]
  <2>1. ClassOut(c, rows).shape = s /\ ClassAsked(c, rows) = [ix \in Indices(s) |-> Debugs(c, rows)[ix[1]][ix[2] + 1]]
    BY <1>2, ClassTensors DEF ClassAsked
  <2>2. Reference(c) = [out |-> ResultOf(s, f)]
    BY <1>2 DEF Reference, InPlace, Result
  <2>3. ASSUME NEW ix \in Indices(s) PROVE f[ix] = Debugs(c, rows)[ix[1]][ix[2] + 1]
    <3>1. ix[1] \in Upto(rows)
      <4>1. s \in Seq(Nat) /\ DOMAIN s = {1, 2} /\ s[1] = rows
        OBVIOUS
      <4> HIDE DEF s
      <4>2. ix \in [DOMAIN s -> UNION {Upto(s[d]) : d \in DOMAIN s}] /\ \A d \in DOMAIN s : ix[d] < s[d]
        BY DEF Indices
      <4>3. ix[1] \in UNION {Upto(s[d]) : d \in DOMAIN s} /\ ix[1] < rows
        BY <4>1, <4>2
      <4>4. ix[1] \in Nat
        BY <4>3 DEF Upto
      <4> QED
        BY <4>3, <4>4 DEF Upto
    <3>2. Debugs(c, rows)[ix[1]] =
            <<Greatest(c, 1, ix[1]), ExponentialSum(c, 1, ix[1]), Apply("log", ExponentialSum(c, 1, ix[1])),
              ClassLogit(c, ix[1]), RowLoss(c, ix[1])>>
      BY <3>1 DEF Debugs
    <3> HIDE DEF s
    <3> QED
      BY <3>2
  <2>4. f = ClassAsked(c, rows)
    BY <2>1, <2>3
  <2> QED
    BY <2>1, <2>2, <2>4
<1> QED
  BY <1>1, <1>2 DEF ClassOps

\* The two launches fill their tensors, the second with what is asked for.
LEMMA ClassFills ==
  ASSUME NEW c, c.op \in ClassOps, NEW rows \in Nat
  PROVE  /\ RowByRow(rows, 3, Stats(c, rows)) = [e \in Upto(rows * 3) |-> RowByRow(rows, 3, Stats(c, rows))[e]]
         /\ Fills(Stretches(rows, Stats(c, rows)), rows * 3, RowByRow(rows, 3, Stats(c, rows)))
         /\ ClassResult(c, rows) = [e \in Elements(ClassOut(c, rows)) |-> ClassResult(c, rows)[e]]
         /\ Fills(ClassLoop(c, rows), Numel(ClassOut(c, rows)), ClassResult(c, rows))
<1>1. RowByRow(rows, 3, Stats(c, rows)) = [e \in Upto(rows * 3) |-> RowByRow(rows, 3, Stats(c, rows))[e]]
  BY DEF RowByRow
<1>2. \A row \in Upto(rows) : Len(Stats(c, rows)[row]) = 3 /\ Len(Debugs(c, rows)[row]) = 5
  BY DEF Stats, Debugs
<1>3. Fills(Stretches(rows, Stats(c, rows)), rows * 3, RowByRow(rows, 3, Stats(c, rows)))
  <2> DEFINE vals == Stats(c, rows)
             n == 3
  <2>1. n \in Nat \ {0} /\ \A row \in Upto(rows) : Len(vals[row]) = n
    BY <1>2
  <2> HIDE DEF vals, n
  <2>2. RowsTo(Stretches(rows, vals), rows, n, RowByRow(rows, n, vals))
    BY <2>1, StretchesTo
  <2>3. Fills(Stretches(rows, vals), rows * n, RowByRow(rows, n, vals))
    BY <2>1, <2>2, RowsFill
  <2> QED
    BY <2>3 DEF vals, n
<1>4. CASE c.op = "cross_entropy"
  <2> DEFINE value == ClassValue(c, rows)
             w == [q \in {0} |-> value]
  <2>1. Elements(ClassOut(c, rows)) = {0} /\ Numel(ClassOut(c, rows)) = 1
    BY <1>4, ClassTensors
  <2>2. ClassResult(c, rows) = w /\ ClassLoop(c, rows) = Whole(value)
    BY <1>4 DEF ClassResult, ClassLoop
  <2> HIDE DEF value
  <2>3. Fills(Whole(value), 1, w)
    BY DEF Fills, Whole, Upto
  <2> QED
    BY <1>1, <1>3, <2>1, <2>2, <2>3
<1>5. CASE c.op # "cross_entropy"
  <2> DEFINE vals == Debugs(c, rows)
             w == RowByRow(rows, 5, vals)
  <2>1. Elements(ClassOut(c, rows)) = Upto(rows * 5) /\ Numel(ClassOut(c, rows)) = rows * 5
    BY <1>5, ClassTensors
  <2>2. ClassResult(c, rows) = w /\ ClassLoop(c, rows) = Stretches(rows, vals)
    BY <1>5 DEF ClassResult, ClassLoop
  <2>3. RowsTo(Stretches(rows, vals), rows, 5, w)
    <3> HIDE DEF vals
    <3> DEFINE n == 5
    <3>1. n \in Nat \ {0} /\ \A row \in Upto(rows) : Len(vals[row]) = n
      BY <1>2 DEF vals
    <3> HIDE DEF n
    <3>2. RowsTo(Stretches(rows, vals), rows, n, RowByRow(rows, n, vals))
      BY <3>1, StretchesTo
    <3> QED
      BY <3>2 DEF n
  <2>4. Fills(Stretches(rows, vals), rows * 5, w)
    <3> HIDE DEF vals, w
    <3> QED
      BY <2>3, RowsFill
  <2>5. w = [e \in Upto(rows * 5) |-> w[e]]
    BY DEF RowByRow
  <2> HIDE DEF vals, w
  <2> QED
    BY <1>1, <1>3, <2>1, <2>2, <2>4, <2>5
<1> QED
  BY <1>4, <1>5

\* Element by element.
LEMMA ClassIsAsked ==
  ASSUME NEW c, c.op \in ClassOps, NEW rows \in Nat, NEW q \in Elements(ClassOut(c, rows))
  PROVE  ClassResult(c, rows)[q] = ClassAsked(c, rows)[IndexAt(ClassOut(c, rows).shape, q)]
<1>1. CASE c.op = "cross_entropy"
  <2> DEFINE s == <<>>
  <2>1. ClassOut(c, rows).shape = s /\ q = 0
    BY <1>1, ClassTensors
  <2>2. s \in Seq(Nat) /\ 0 \in Upto(NumelOf(s))
    BY NumelOfFew DEF Upto
  <2>3. IndexAt(s, 0) \in Indices(s)
    BY <2>2, IndexAtIs
  <2>4. ClassAsked(c, rows) = [ix \in Indices(s) |-> ClassValue(c, rows)]
    BY <1>1 DEF ClassAsked
  <2>5. ClassResult(c, rows) = [e \in {0} |-> ClassValue(c, rows)]
    BY <1>1 DEF ClassResult
  <2> HIDE DEF s
  <2> QED
    BY <2>1, <2>3, <2>4, <2>5
<1>2. CASE c.op # "cross_entropy"
  <2> DEFINE s == <<rows, 5>>
             vals == Debugs(c, rows)
  <2>1. ClassOut(c, rows).shape = s /\ q \in Upto(rows * 5)
    BY <1>2, ClassTensors
  <2>2. s \in Seq(Nat) /\ Len(s) = 2 /\ s[1] = rows /\ s[2] = 5
    OBVIOUS
  <2>3. ClassAsked(c, rows) = [ix \in Indices(s) |-> vals[ix[1]][ix[2] + 1]]
    BY <1>2 DEF ClassAsked
  <2>4. ClassResult(c, rows)[q] = vals[q \div 5][(q % 5) + 1]
    BY <1>2, <2>1 DEF ClassResult, RowByRow
  <2> HIDE DEF s, vals
  <2>5. q \div 5 \in Upto(rows) /\ q % 5 \in Upto(5) /\ IndexAt(s, q) = <<q \div 5, q % 5>>
    BY <2>1, <2>2, IndexAtTwo
  <2>6. IndexAt(s, q) \in Indices(s)
    BY <2>1, <2>2, IndexAtIs, NumelOfFew
  <2>7. IndexAt(s, q)[1] = q \div 5 /\ IndexAt(s, q)[2] = q % 5
    BY <2>5
  <2> QED
    BY <2>1, <2>3, <2>4, <2>6, <2>7
<1> QED
  BY <1>1, <1>2

\* cross_entropy and cross_entropy_debug, of classes in range.
LEMMA ClassesSuffice ==
  ASSUME NEW c, WellFormed(c), ClassesInRange(c), c.op \in ClassOps, PlanOf(c).kind = "launching"
  PROVE  Sufficient(c)
<1> DEFINE rows == Size(c.in[1], 1)
           cols == Size(c.in[1], 2)
           stats == StatsTensor(rows)
           out == ClassOut(c, rows)
           k == CrossEntropyStats(c.in[1], c.in[2], stats)
           l == FinishLaunch(c, rows)
           p == Plan(<<stats, out>>, <<k, l>>)
           kept == RowByRow(rows, 3, Stats(c, rows))
           v == <<kept, ClassResult(c, rows)>>
           loops == <<Stretches(rows, Stats(c, rows)), ClassLoop(c, rows)>>
<1>1. PlanOf(c) = p /\ ClassArgs(c.in[1], c.in[2])
  BY ClassPlan
<1>2. ClassesFit(c, 1, 1 + 1, rows, cols)
  BY <1>1, ClassesAreColumns
<1>3. ClassesFit(c, 1, 2, rows, cols) /\ rows \in Nat /\ rows = ShapeOf(c, 1)[1]
  BY <1>2 DEF ClassesFit
<1>4. /\ stats \in Tensors /\ stats.name = "stats" /\ Elements(stats) = Upto(rows * 3) /\ Numel(stats) = rows * 3
      /\ out \in Tensors /\ out.name = "out"
  BY <1>3, ClassTensors
<1>5. /\ p.copy = <<>> /\ p.view = <<>> /\ Len(p.launches) = Len(p.fresh) /\ DOMAIN p.fresh = {1, 2}
      /\ p.fresh[1] = stats /\ p.fresh[2] = out /\ p.launches[1] = k /\ p.launches[2] = l
  <2> HIDE DEF stats, out, k, l
  <2> QED
    BY DEF Plan
<1>6. /\ v[1] = kept /\ v[2] = ClassResult(c, rows)
      /\ loops[1] = Stretches(rows, Stats(c, rows)) /\ loops[2] = ClassLoop(c, rows)
  OBVIOUS
<1>7. /\ kept = [e \in Upto(rows * 3) |-> kept[e]] /\ Fills(Stretches(rows, Stats(c, rows)), rows * 3, kept)
      /\ ClassResult(c, rows) = [e \in Elements(out) |-> ClassResult(c, rows)[e]]
      /\ Fills(ClassLoop(c, rows), Numel(out), ClassResult(c, rows))
  BY <1>3, ClassFills
<1>8. ASSUME NEW m, Holds(c, m)
      PROVE  Target(k) = "stats" /\ k.kernel[2] # "host" /\ Stored(k, ReadFrom(k, m)) = Stretches(rows, Stats(c, rows))
  BY <1>3, <1>8, StatsLaunched
<1>9. ASSUME NEW m, m["stats"] = kept
      PROVE  Target(l) = "out" /\ l.kernel[2] # "host" /\ Stored(l, ReadFrom(l, m)) = ClassLoop(c, rows)
  BY <1>3, <1>9, FinishLaunched
<1>10. Target(k) = "stats" /\ k.kernel[2] # "host" /\ Target(l) = "out" /\ l.kernel[2] # "host"
  <2>1. Target(k) = k.pointers[Len(k.pointers)].name /\ k.pointers = <<c.in[1], c.in[2], stats>>
        /\ k.kernel = <<"cross_entropy_stats", "fp32">>
    BY DEF Target, CrossEntropyStats, LaunchFp32, Launch
  <2>2. Target(k) = "stats" /\ k.kernel[2] # "host"
    <3> HIDE DEF k, stats
    <3> QED
      BY <1>4, <2>1
  <2>3. [n \in {"stats"} |-> kept]["stats"] = kept
    OBVIOUS
  <2> QED
    BY <1>9, <2>2, <2>3
<1> HIDE DEF v, loops, p, stats, out, k, l, kept, rows, cols
<1>11. Launches(c, 1, loops[1], v)
  <2>1. ASSUME NEW m, ReadyFor(c, 1, v, m) PROVE Stored(k, ReadFrom(k, m)) = loops[1]
    BY <1>6, <1>8, <2>1 DEF ReadyFor, Holds
  <2> QED
    BY <1>1, <1>4, <1>5, <1>6, <1>7, <1>10, <2>1 DEF Launches
<1>12. Launches(c, 2, loops[2], v)
  <2>1. ASSUME NEW m, ReadyFor(c, 2, v, m) PROVE Stored(l, ReadFrom(l, m)) = loops[2]
    <3>1. m[stats.name] = v[1]
      BY <1>1, <1>5, <2>1 DEF ReadyFor
    <3> QED
      BY <1>4, <1>6, <1>9, <3>1
  <2> QED
    BY <1>1, <1>4, <1>5, <1>6, <1>7, <1>10, <2>1 DEF Launches
<1>13. ASSUME NEW name \in DOMAIN Reference(c) PROVE Promised(c, name, 2, v)
  <2>1. Reference(c) = [out |-> ResultOf(out.shape, ClassAsked(c, rows))]
    BY <1>3, ClassReference DEF out
  <2>2. name = "out" /\ Reference(c)[name] = ResultOf(out.shape, ClassAsked(c, rows))
    BY <2>1
  <2>3. \A q \in Elements(out) : v[2][q] = ClassAsked(c, rows)[IndexAt(out.shape, q)]
    BY <1>3, <1>6, ClassIsAsked DEF out
  <2> QED
    BY <1>1, <1>4, <1>5, <2>2, <2>3 DEF Promised
<1>14. \A j \in DOMAIN PlanOf(c).fresh : PlanOf(c).fresh[j] \in Tensors /\ Launches(c, j, loops[j], v)
  BY <1>1, <1>4, <1>5, <1>11, <1>12
<1> QED
  BY <1>1, <1>5, <1>13, <1>14, StepsSuffice

-----------------------------------------------------------------------------
\* The gradient of a cross entropy: its one launch, behind its checks.
ClassGrad(c) == EmptyLike("grad", c.in[2])
ClassGradLaunch(c) ==
  LaunchFp32("cross_entropy_backward", <<c.in[1], c.in[2], c.in[3], ClassGrad(c)>>,
             [rows |-> Size(c.in[2], 1), cols |-> Size(c.in[2], 2), inv_rows |-> OneOver(Size(c.in[2], 1))])

\* Or no launch, when nothing asks for it.
LEMMA ClassGradPlan ==
  ASSUME NEW c, GradOfClasses(c), PlanOf(c).kind = "launching"
  PROVE  LET none == Plan(<<>>, <<>>)
             one == Plan(<<ClassGrad(c)>>, <<ClassGradLaunch(c)>>)
         IN \/ PlanOf(c) = none /\ c.arg.needs[1] # TRUE
            \/ PlanOf(c) = one /\ ClassArgs(c.in[2], c.in[3]) /\ Numel(c.in[1]) = 1
<1> DEFINE needs == c.arg.needs
           none == Plan(<<>>, <<>>)
           one == Plan(<<ClassGrad(c)>>, <<ClassGradLaunch(c)>>)
           base == cross_entropy_loss_backward(c.in[1], c.in[2], c.in[3])
           ok == ClassArgs(c.in[2], c.in[3]) /\ require_fp32_minigpu_contiguous(c.in[1]) /\ Numel(c.in[1]) = 1
<1>1. PlanOf(c) = loss_autograd_backward("cross_entropy", c.in[1], c.in[2], c.in[3], needs)
  BY DEF GradOfClasses, PlanOf, MiniGpuOps, minigpu_impl
<1>2. base = Check(ok, one)
  BY DEF cross_entropy_loss_backward, ClassGrad, ClassGradLaunch
<1>3. run_loss_backward("cross_entropy", c.in[1], c.in[2], c.in[3]) = base
  BY DEF run_loss_backward
<1>4. PlanOf(c) = IF needs[1] \/ needs[2] THEN base ELSE none
  BY <1>1, <1>3 DEF loss_autograd_backward
<1> HIDE DEF none, one, base, ok
<1>5. CASE needs[1] \/ needs[2]
  <2>1. PlanOf(c) = Check(ok, one)
    BY <1>2, <1>4, <1>5
  <2>2. ok /\ PlanOf(c) = one
    BY <2>1, CheckPassed
  <2> QED
    BY <2>2 DEF one, ok
<1>6. CASE ~(needs[1] \/ needs[2])
  <2>1. PlanOf(c) = none /\ needs[1] # TRUE
    BY <1>4, <1>6
  <2> QED
    BY <2>1 DEF none
<1> QED
  BY <1>5, <1>6

\* What the reference asks for.
ClassGradAsked(c) == [ix \in Indices(ShapeOf(c, 2)) |-> LossGradient(c, ix)]

\* Of the logits only.
LEMMA ClassGradReference ==
  ASSUME NEW c, GradOfClasses(c), NEW name \in DOMAIN Reference(c)
  PROVE  name = "grad" /\ c.arg.needs[1] = TRUE /\ Reference(c)[name] = ResultOf(ShapeOf(c, 2), ClassGradAsked(c))
<1> DEFINE shape == ShapeOf(c, 2)
           both == [grad |-> ResultOf(shape, [ix \in Indices(shape) |-> LossGradient(c, ix)]),
                    grad_target |->
                      ResultOf(shape, [ix \in Indices(shape) |-> Times(Scalar("-1"), LossGradient(c, ix))])]
           needs == c.arg.needs
           names == {<<"grad", "grad_target">>[i] : i \in {j \in 1..2 : needs[j]}}
                      \ (IF c.arg.loss = "cross_entropy" THEN {"grad_target"} ELSE {})
<1>1. Reference(c) = Only(names, both)
  BY DEF GradOfClasses, Reference, InPlace, Result
<1>2. both["grad"] = ResultOf(shape, ClassGradAsked(c)) /\ DOMAIN both = {"grad", "grad_target"}
  BY DEF ClassGradAsked
<1> HIDE DEF both, needs
<1>3. \A n \in names : n = "grad" /\ needs[1] = TRUE
  <2> TAKE n \in names
  <2>1. n \in {<<"grad", "grad_target">>[i] : i \in {j \in 1..2 : needs[j]}} /\ n # "grad_target"
    BY DEF GradOfClasses
  <2>2. PICK j \in {i \in 1..2 : needs[i]} : n = <<"grad", "grad_target">>[j]
    BY <2>1
  <2>3. (j = 1 \/ j = 2) /\ needs[j]
    OBVIOUS
  <2> HIDE DEF names
  <2> QED
    BY <2>1, <2>2, <2>3
<1> HIDE DEF names
<1>4. name \in names /\ Reference(c)[name] = both[name]
  BY <1>1 DEF Only
<1> QED
  BY <1>2, <1>3, <1>4 DEF needs

\* The gradient by position, and the loop that stores it.
ClassSlope(c, rows, cols, q) ==
  LET prob == Times(Exponential(c, 2, q \div cols, q % cols), Apply("rcp", ExponentialSum(c, 2, q \div cols)))
  IN Times(Times(At(Before(c, 1), 0), OneOver(rows)),
           IF Class(c, q \div cols) = q % cols THEN Minus(prob, Scalar("1")) ELSE prob)
ClassSlopes(c, rows, cols) == [q \in Upto(rows * cols) |-> ClassSlope(c, rows, cols, q)]

\* A number is made of its quotient and its remainder.
LEMMA Rejoined ==
  ASSUME NEW q \in Nat, NEW n \in Nat \ {0}, NEW i, i = q \div n, NEW j, j = q % n
  PROVE  i * n + j = q
<1>1. n * (q \div n) = q - (q % n) /\ q \div n \in Nat /\ q % n \in 0..(n - 1)
  BY QuotientAndRemainder, RowsFit, RemainderInRange
<1>2. n * i = q - j /\ i \in Nat /\ j \in Int
  BY <1>1
<1>3. i * n = q - j
  BY <1>2
<1> QED
  BY <1>2, <1>3

\* A position's row and column.
LEMMA PlaceOfLogit ==
  ASSUME NEW c, NEW rows, NEW cols, ClassesFit(c, 2, 3, rows, cols), NEW q \in Upto(rows * cols)
  PROVE  /\ q \div cols \in Upto(rows) /\ q % cols \in Upto(cols)
         /\ IndexAt(ShapeOf(c, 2), q) = <<q \div cols, q % cols>>
         /\ IndexAt(ShapeOf(c, 2), q) \in Indices(ShapeOf(c, 2))
<1> DEFINE s == ShapeOf(c, 2)
<1>1. s \in Seq(Nat) /\ Len(s) = 2 /\ rows = s[1] /\ cols = s[2] /\ rows \in Nat /\ cols \in Nat
  BY DEF ClassesFit
<1> HIDE DEF s
<1>2. q \div cols \in Upto(rows) /\ q % cols \in Upto(cols) /\ IndexAt(s, q) = <<q \div cols, q % cols>>
  BY <1>1, IndexAtTwo
<1>3. IndexAt(s, q) \in Indices(s)
  BY <1>1, IndexAtIs, NumelOfFew
<1> QED
  BY <1>2, <1>3 DEF s

\* That is what the reference says of its index.
LEMMA ClassSlopeIs ==
  ASSUME NEW c, GradOfClasses(c), NEW rows, NEW cols, ClassesFit(c, 2, 3, rows, cols),
         c.in[1] \in Tensors, Numel(c.in[1]) = 1, NEW q \in Upto(rows * cols)
  PROVE  ClassSlopes(c, rows, cols)[q] = ClassGradAsked(c)[IndexAt(ShapeOf(c, 2), q)]
<1> DEFINE i == q \div cols
           j == q % cols
           ix == IndexAt(ShapeOf(c, 2), q)
           g == InputAt(c, 1, 0)
           prob == Times(Exponential(c, 2, i, j), Apply("rcp", ExponentialSum(c, 2, i)))
<1>1. ix \in Indices(ShapeOf(c, 2)) /\ ix = <<i, j>>
  BY PlaceOfLogit
<1>2. At(Before(c, 1), 0) = g
  BY AtBefore DEF Elements, Upto
<1>3. ix[1] = i /\ ix[2] = j
  BY <1>1
<1>4. rows = ShapeOf(c, 2)[1]
  BY DEF ClassesFit
<1>5. ClassSlopes(c, rows, cols)[q] =
        Times(Times(g, OneOver(rows)), IF Class(c, i) = j THEN Minus(prob, Scalar("1")) ELSE prob)
  BY <1>2 DEF ClassSlopes, ClassSlope
<1> HIDE DEF ix, i, j
<1>6. LossGradient(c, ix) =
        Times(Times(g, <<"1/", rows>>), IF c.arg.labels[i + 1] = j THEN Minus(prob, Scalar("1")) ELSE prob)
  BY <1>3, <1>4 DEF LossGradient, GradOfClasses
<1>7. ClassGradAsked(c)[ix] = LossGradient(c, ix)
  BY <1>1 DEF ClassGradAsked
<1> QED
  BY <1>5, <1>6, <1>7 DEF ix, Class, OneOver

\* The kernel stores it.
LEMMA ClassGradKernel ==
  ASSUME NEW c, NEW rows, NEW cols, ClassesFit(c, 2, 3, rows, cols)
  PROVE  cross_entropy_backward(Before(c, 1), Before(c, 2), Before(c, 3), rows, cols, OneOver(rows))
           = LoopOver(ClassSlopes(c, rows, cols), rows * cols)
<1> DEFINE g == Before(c, 1)
           logits == Before(c, 2)
           target == Before(c, 3)
           n == rows * cols
           At_(q) ==
             LET row  == q \div cols
                 prob == Times(Apply("exp", Minus(At(logits, q), row_max(logits, row * cols, cols))),
                               Apply("rcp", exp_sum(logits, row * cols, cols)))
             IN Times(Times(At(g, 0), OneOver(rows)),
                      IF At(target, row) = <<"int", q % cols>> THEN Minus(prob, Scalar("1")) ELSE prob)
           f == [q \in Upto(n) |-> [j \in {q} |-> At_(q)]]
           h == [q \in Upto(n) |-> [j \in {q} |-> ClassSlopes(c, rows, cols)[q]]]
<1>1. ASSUME NEW q \in Upto(n) PROVE At_(q) = ClassSlopes(c, rows, cols)[q]
  <2> DEFINE i == q \div cols
             j == q % cols
  <2>1. i \in Upto(rows) /\ j \in Upto(cols)
    BY PlaceOfLogit
  <2>2. ClassSlopes(c, rows, cols)[q] = ClassSlope(c, rows, cols, q)
    BY DEF ClassSlopes
  <2>3. At(logits, q) = X(c, 2, <<i, j>>)
    <3>1. rows \in Nat /\ cols \in Nat
      BY DEF ClassesFit
    <3>2. q \in Nat /\ cols \in Nat \ {0}
      <4>1. n \in Nat
        BY <3>1
      <4> HIDE DEF n
      <4> QED
        BY <2>1, <3>1, <4>1 DEF Upto
    <3> HIDE DEF i, j
    <3>3. i * cols + j = q
      BY <3>2, Rejoined DEF i, j
    <3>4. At(Before(c, 2), i * cols + j) = X(c, 2, <<i, j>>)
      BY <2>1, ReadsLogit
    <3> QED
      BY <3>3, <3>4
  <2> HIDE DEF i, j
  <2>4. row_max(logits, i * cols, cols) = Greatest(c, 2, i) /\ exp_sum(logits, i * cols, cols) = ExponentialSum(c, 2, i)
    BY <2>1, RowPieces
  <2>5. At(target, i) = <<"int", Class(c, i)>>
    BY <2>1, ReadsClass
  <2>6. (At(target, i) = <<"int", j>>) <=> (Class(c, i) = j)
    BY <2>5
  <2>7. Apply("exp", Minus(At(logits, q), row_max(logits, i * cols, cols))) = Exponential(c, 2, i, j)
    BY <2>3, <2>4 DEF Exponential
  <2>8. At_(q) = ClassSlope(c, rows, cols, q)
    BY <2>4, <2>6, <2>7 DEF ClassSlope, i, j
  <2> QED
    BY <2>2, <2>8
<1>2. cross_entropy_backward(g, logits, target, rows, cols, OneOver(rows))
        = [total |-> n, shared |-> TRUE, stores |-> f]
  BY DEF cross_entropy_backward, Map, Loop
<1>3. LoopOver(ClassSlopes(c, rows, cols), n) = [total |-> n, shared |-> TRUE, stores |-> h]
  BY DEF LoopOver
<1>4. f = h
  <2> HIDE DEF At_
  <2> QED
    BY <1>1
<1> HIDE DEF f, h, g, logits, target
<1> QED
  BY <1>2, <1>3, <1>4 DEF g, logits, target

\* The gradient of a cross entropy, of classes in range.
LEMMA ClassGradSuffices ==
  ASSUME NEW c, WellFormed(c), ClassesInRange(c), GradOfClasses(c), PlanOf(c).kind = "launching"
  PROVE  Sufficient(c)
<1> DEFINE rows == Size(c.in[2], 1)
           cols == Size(c.in[2], 2)
           grad == ClassGrad(c)
           l == ClassGradLaunch(c)
           none == Plan(<<>>, <<>>)
           one == Plan(<<grad>>, <<l>>)
           p == PlanOf(c)
           w == ClassSlopes(c, rows, cols)
           v == <<w>>
           loops == <<LoopOver(w, rows * cols)>>
<1>1. \/ p = none /\ c.arg.needs[1] # TRUE
      \/ p = one /\ ClassArgs(c.in[2], c.in[3]) /\ Numel(c.in[1]) = 1
  BY ClassGradPlan
<1>2. c.in[1] \in Tensors /\ c.in[2] \in Tensors /\ c.in[3] \in Tensors
      /\ 1 \in DOMAIN c.in /\ 2 \in DOMAIN c.in /\ 3 \in DOMAIN c.in
  BY LossTensors DEF GradOfClasses
<1>3. /\ none.copy = <<>> /\ none.view = <<>> /\ Len(none.launches) = Len(none.fresh) /\ DOMAIN none.fresh = {}
      /\ one.copy = <<>> /\ one.view = <<>> /\ Len(one.launches) = Len(one.fresh) /\ DOMAIN one.fresh = {1}
      /\ one.fresh[1] = grad /\ one.launches[1] = l
  <2> HIDE DEF grad, l
  <2> QED
    BY DEF Plan
<1>4. v[1] = w /\ loops[1] = LoopOver(w, rows * cols)
  OBVIOUS
<1>5. CASE p = none /\ c.arg.needs[1] # TRUE
  <2>1. DOMAIN Reference(c) = {}
    BY <1>5, ClassGradReference
  <2> HIDE DEF p, none, v, loops
  <2>2. \A j \in DOMAIN p.fresh : MapsInto(c, j, loops[j], v)
    BY <1>3, <1>5
  <2> QED
    BY <1>3, <1>5, <2>1, <2>2, MapsSuffice DEF p
<1>6. CASE p = one /\ ClassArgs(c.in[2], c.in[3]) /\ Numel(c.in[1]) = 1
  <2>1. ClassesFit(c, 2, 3, rows, cols)
    <3>1. ClassArgs(c.in[2], c.in[2 + 1])
      BY <1>6
    <3>2. ClassesFit(c, 2, 2 + 1, rows, cols)
      BY <3>1, ClassesAreColumns
    <3> QED
      BY <3>2
  <2>2. Numel(c.in[2]) = rows * cols
    BY <1>2, <1>6, MatrixNumel DEF ClassArgs
  <2>3. grad \in Tensors /\ grad.name = "grad" /\ grad.shape = ShapeOf(c, 2) /\ Numel(grad) = rows * cols
        /\ Elements(grad) = Upto(rows * cols)
    BY <1>2, <2>2, LikeIs DEF ClassGrad, NewNames, ShapeOf, Elements
  <2>4. /\ l.pointers = <<c.in[1], c.in[2], c.in[3], grad>> /\ l.kernel[1] = "cross_entropy_backward"
        /\ l.kernel[2] = "fp32" /\ l.num.rows = rows /\ l.num.cols = cols /\ l.num.inv_rows = OneOver(rows)
    BY DEF ClassGradLaunch, LaunchFp32, Launch
  <2>5. w = [e \in Upto(rows * cols) |-> w[e]]
    BY DEF ClassSlopes
  <2>6. cross_entropy_backward(Before(c, 1), Before(c, 2), Before(c, 3), rows, cols, OneOver(rows))
          = LoopOver(w, rows * cols)
    BY <2>1, ClassGradKernel
  <2>7. \A q \in Upto(rows * cols) : w[q] = ClassGradAsked(c)[IndexAt(ShapeOf(c, 2), q)]
    BY <1>2, <1>6, <2>1, ClassSlopeIs
  <2> HIDE DEF p, none, one, v, loops, w, l, grad, rows, cols
  <2>8. ASSUME NEW m, ReadyFor(c, 1, v, m) PROVE Stored(l, ReadFrom(l, m)) = loops[1]
    <3> DEFINE x == ReadFrom(l, m)
    <3>1. x[1] = Before(c, 1) /\ x[2] = Before(c, 2) /\ x[3] = Before(c, 3)
      BY <1>2, <2>4, <2>8 DEF ReadFrom, ReadyFor
    <3> HIDE DEF x
    <3>2. Stored(l, x) = cross_entropy_backward(x[1], x[2], x[3], rows, cols, OneOver(rows))
      BY <2>4 DEF Stored, Kernel
    <3> QED
      BY <1>4, <2>6, <3>1, <3>2 DEF x
  <2>9. MapsInto(c, 1, loops[1], v)
    <3>1. Target(l) = "grad"
      BY <2>3, <2>4 DEF Target
    <3>2. MapsTo(loops[1], rows * cols, v[1])
      BY <1>4, LoopOverMaps
    <3> QED
      BY <1>3, <1>4, <1>6, <2>3, <2>5, <2>8, <3>1, <3>2 DEF MapsInto, p
  <2>10. ASSUME NEW name \in DOMAIN Reference(c) PROVE Promised(c, name, 1, v)
    <3>1. name = "grad" /\ Reference(c)[name] = ResultOf(ShapeOf(c, 2), ClassGradAsked(c))
      BY ClassGradReference
    <3> QED
      BY <1>3, <1>4, <1>6, <2>3, <2>7, <3>1 DEF Promised, p
  <2>11. \A j \in DOMAIN p.fresh : MapsInto(c, j, loops[j], v)
    BY <1>3, <1>6, <2>9
  <2> QED
    BY <1>3, <1>6, <2>10, <2>11, MapsSuffice DEF p
<1> QED
  BY <1>1, <1>5, <1>6

-----------------------------------------------------------------------------
\* Positions in tensors of three and of four dimensions.
LEMMA PositionOfMore ==
  ASSUME NEW shape \in Seq(Nat), NEW ix \in Indices(shape)
  PROVE  /\ Len(shape) = 3 => Position(ix, shape) = (ix[1] * shape[2] + ix[2]) * shape[3] + ix[3]
         /\ Len(shape) = 4 => Position(ix, shape)
                                = ((ix[1] * shape[2] + ix[2]) * shape[3] + ix[3]) * shape[4] + ix[4]
<1>1. PICK b \in [0..Len(shape) -> Nat] :
            /\ b[0] = 0
            /\ \A d \in 1..Len(shape) : b[d] = b[d - 1] * shape[d] + ix[d]
            /\ Position(ix, shape) = b[Len(shape)]
  BY PositionSteps
<1>2. \A d \in 1..Len(shape) : ix[d] \in Nat /\ shape[d] \in Nat
  BY IndexIs
<1>3. ASSUME Len(shape) >= 3 PROVE b[3] = (ix[1] * shape[2] + ix[2]) * shape[3] + ix[3]
  <2>1. b[1] = b[0] * shape[1] + ix[1] /\ shape[1] \in Nat /\ ix[1] \in Nat
    BY <1>1, <1>2, <1>3
  <2>2. b[1] = ix[1]
    BY <1>1, <2>1
  <2>3. b[2] = b[1] * shape[2] + ix[2] /\ b[3] = b[2] * shape[3] + ix[3]
    BY <1>1, <1>3
  <2> QED
    BY <2>2, <2>3
<1>4. CASE Len(shape) = 3
  BY <1>1, <1>3, <1>4
<1>5. CASE Len(shape) = 4
  <2>1. b[4] = b[3] * shape[4] + ix[4]
    BY <1>1, <1>5
  <2> QED
    BY <1>1, <1>3, <1>5, <2>1
<1> QED
  BY <1>4, <1>5

\* The sizes of such a tensor.
LEMMA SizesOfMore ==
  ASSUME NEW shape \in Seq(Nat)
  PROVE  /\ Len(shape) = 3 => DOMAIN shape = {1, 2, 3} /\ \A d \in DOMAIN shape : shape[d] \in Nat
         /\ Len(shape) = 4 => DOMAIN shape = {1, 2, 3, 4} /\ \A d \in DOMAIN shape : shape[d] \in Nat
<1>1. DOMAIN shape = 1..Len(shape) /\ \A d \in DOMAIN shape : shape[d] \in Nat
  OBVIOUS
<1>2. 1..3 = {1, 2, 3} /\ 1..4 = {1, 2, 3, 4}
  OBVIOUS
<1> QED
  BY <1>1, <1>2, Zenon

\* Tuples that are indices.
LEMMA IndexOfThree ==
  ASSUME NEW shape \in Seq(Nat), Len(shape) = 3,
         NEW i \in Upto(shape[1]), NEW j \in Upto(shape[2]), NEW k \in Upto(shape[3])
  PROVE  <<i, j, k>> \in Indices(shape)
         /\ Position(<<i, j, k>>, shape) = (i * shape[2] + j) * shape[3] + k
<1> DEFINE ix == <<i, j, k>>
<1>1. DOMAIN shape = {1, 2, 3} /\ \A d \in DOMAIN shape : shape[d] \in Nat
  BY SizesOfMore
<1>2. DOMAIN ix = {1, 2, 3} /\ ix[1] = i /\ ix[2] = j /\ ix[3] = k
  OBVIOUS
<1> HIDE DEF ix
<1>3. \A d \in DOMAIN shape : ix[d] \in Upto(shape[d])
  BY <1>1, <1>2, Zenon
<1>4. \A d \in DOMAIN shape : ix[d] < shape[d]
  <2>1. \A n \in Nat : \A e \in Upto(n) : e < n
    BY DEF Upto
  <2> QED
    BY <1>1, <1>3, <2>1, Zenon
<1>6. ix = [d \in DOMAIN shape |-> ix[d]]
  BY <1>1, <1>2 DEF ix
<1>7. ix \in [DOMAIN shape -> UNION {Upto(shape[d]) : d \in DOMAIN shape}]
  BY <1>3, <1>6, Zenon
<1>5. ix \in Indices(shape)
  BY <1>4, <1>7 DEF Indices
<1> QED
  BY <1>2, <1>5, PositionOfMore DEF ix

\* The position of four numbers.
LEMMA IndexOfFour ==
  ASSUME NEW shape \in Seq(Nat), Len(shape) = 4, NEW i \in Upto(shape[1]), NEW j \in Upto(shape[2]),
         NEW k \in Upto(shape[3]), NEW l \in Upto(shape[4])
  PROVE  <<i, j, k, l>> \in Indices(shape)
         /\ Position(<<i, j, k, l>>, shape) = ((i * shape[2] + j) * shape[3] + k) * shape[4] + l
<1> DEFINE ix == <<i, j, k, l>>
<1>1. DOMAIN shape = {1, 2, 3, 4} /\ \A d \in DOMAIN shape : shape[d] \in Nat
  BY SizesOfMore
<1>2. DOMAIN ix = {1, 2, 3, 4} /\ ix[1] = i /\ ix[2] = j /\ ix[3] = k /\ ix[4] = l
  OBVIOUS
<1> HIDE DEF ix
<1>3. \A d \in DOMAIN shape : ix[d] \in Upto(shape[d])
  BY <1>1, <1>2, Zenon
<1>4. \A d \in DOMAIN shape : ix[d] < shape[d]
  <2>1. \A n \in Nat : \A e \in Upto(n) : e < n
    BY DEF Upto
  <2> QED
    BY <1>1, <1>3, <2>1, Zenon
<1>6. ix = [d \in DOMAIN shape |-> ix[d]]
  BY <1>1, <1>2 DEF ix
<1>7. ix \in [DOMAIN shape -> UNION {Upto(shape[d]) : d \in DOMAIN shape}]
  BY <1>3, <1>6, Zenon
<1>5. ix \in Indices(shape)
  BY <1>4, <1>7 DEF Indices
<1> QED
  BY <1>2, <1>5, PositionOfMore DEF ix

\* q has last digit r to the base s, and u before it.
EndsIn(q, u, s, r) == s \in Nat /\ u \in Nat /\ r \in Nat /\ r < s /\ q = u * s + r

\* Quotient and remainder of a number that is given by them.
LEMMA Digits ==
  ASSUME NEW q, NEW u, NEW s, NEW r, EndsIn(q, u, s, r)
  PROVE  q \in Nat /\ q % s = r /\ q \div s = u
<1>1. s \in Nat \ {0} /\ r \in 0..(s - 1) /\ u \in Nat /\ q = u * s + r /\ q \in Nat
  BY DEF EndsIn
<1> QED
  BY <1>1, RowAndColumn

\* An index of a tensor of three and of four dimensions, and its position's
\* quotients and remainders.
DigitsOfThree(shape, q, ix) ==
  /\ ix = <<ix[1], ix[2], ix[3]>>
  /\ ix[1] \in Upto(shape[1]) /\ ix[2] \in Upto(shape[2]) /\ ix[3] \in Upto(shape[3])
  /\ q % shape[3] = ix[3]
  /\ (q \div shape[3]) % shape[2] = ix[2] /\ (q \div shape[3]) \div shape[2] = ix[1]

\* The index at a position of three dimensions.
LEMMA IndexAtThree ==
  ASSUME NEW shape \in Seq(Nat), Len(shape) = 3, NEW q \in Upto(NumelOf(shape))
  PROVE  DigitsOfThree(shape, q, IndexAt(shape, q))
<1> DEFINE ix == IndexAt(shape, q)
<1>1. ix \in Indices(shape) /\ Position(ix, shape) = q
  BY IndexAtIs
<1> HIDE DEF ix
<1>2. ix = [d \in 1..3 |-> ix[d]] /\ \A d \in 1..3 : ix[d] \in Nat /\ shape[d] \in Nat /\ ix[d] < shape[d]
  BY <1>1, IndexIs
<1>3. ix = <<ix[1], ix[2], ix[3]>>
  BY <1>2
<1>4. \A d \in 1..3 : ix[d] \in Upto(shape[d])
  BY <1>2 DEF Upto
<1>5. q = (ix[1] * shape[2] + ix[2]) * shape[3] + ix[3]
  BY <1>1, PositionOfMore
<1>6. \E t : t = ix[1] * shape[2] + ix[2]
  OBVIOUS
<1>7. PICK t : t = ix[1] * shape[2] + ix[2]
  BY <1>6
<1>8. t \in Nat /\ t % shape[2] = ix[2] /\ t \div shape[2] = ix[1]
  <2>1. EndsIn(t, ix[1], shape[2], ix[2])
    BY <1>2, <1>7 DEF EndsIn
  <2> QED
    BY <2>1, Digits
<1>9. q % shape[3] = ix[3] /\ q \div shape[3] = t
  <2>1. q = t * shape[3] + ix[3]
    BY <1>5, <1>7, Zenon
  <2>2. EndsIn(q, t, shape[3], ix[3])
    BY <1>2, <1>8, <2>1 DEF EndsIn
  <2> QED
    BY <2>2, Digits
<1> QED
  BY <1>3, <1>4, <1>8, <1>9 DEF DigitsOfThree, ix

DigitsOfFour(shape, q, ix) ==
  /\ ix = <<ix[1], ix[2], ix[3], ix[4]>>
  /\ ix[1] \in Upto(shape[1]) /\ ix[2] \in Upto(shape[2])
  /\ ix[3] \in Upto(shape[3]) /\ ix[4] \in Upto(shape[4])
  /\ q % shape[4] = ix[4]
  /\ (q \div shape[4]) % shape[3] = ix[3]
  /\ ((q \div shape[4]) \div shape[3]) % shape[2] = ix[2]
  /\ ((q \div shape[4]) \div shape[3]) \div shape[2] = ix[1]

\* The index at a position of four.
LEMMA IndexAtFour ==
  ASSUME NEW shape \in Seq(Nat), Len(shape) = 4, NEW q \in Upto(NumelOf(shape))
  PROVE  DigitsOfFour(shape, q, IndexAt(shape, q))
<1> DEFINE ix == IndexAt(shape, q)
<1>1. ix \in Indices(shape) /\ Position(ix, shape) = q
  BY IndexAtIs
<1> HIDE DEF ix
<1>2. ix = [d \in 1..4 |-> ix[d]] /\ \A d \in 1..4 : ix[d] \in Nat /\ shape[d] \in Nat /\ ix[d] < shape[d]
  BY <1>1, IndexIs
<1>3. ix = <<ix[1], ix[2], ix[3], ix[4]>>
  BY <1>2
<1>4. \A d \in 1..4 : ix[d] \in Upto(shape[d])
  BY <1>2 DEF Upto
<1>5. q = ((ix[1] * shape[2] + ix[2]) * shape[3] + ix[3]) * shape[4] + ix[4]
  BY <1>1, PositionOfMore
<1>6. \E t : t = ix[1] * shape[2] + ix[2]
  OBVIOUS
<1>7. PICK t : t = ix[1] * shape[2] + ix[2]
  BY <1>6
<1>8. t \in Nat /\ t % shape[2] = ix[2] /\ t \div shape[2] = ix[1]
  <2>1. EndsIn(t, ix[1], shape[2], ix[2])
    BY <1>2, <1>7 DEF EndsIn
  <2> QED
    BY <2>1, Digits
<1>9. \E u : u = t * shape[3] + ix[3]
  OBVIOUS
<1>10. PICK u : u = t * shape[3] + ix[3]
  BY <1>9
<1>11. u \in Nat /\ u % shape[3] = ix[3] /\ u \div shape[3] = t
  <2>1. EndsIn(u, t, shape[3], ix[3])
    BY <1>2, <1>8, <1>10 DEF EndsIn
  <2> QED
    BY <2>1, Digits
<1>12. q % shape[4] = ix[4] /\ q \div shape[4] = u
  <2>1. q = u * shape[4] + ix[4]
    BY <1>5, <1>7, <1>10, Zenon
  <2>2. EndsIn(q, u, shape[4], ix[4])
    BY <1>2, <1>11, <2>1 DEF EndsIn
  <2> QED
    BY <2>2, Digits
<1> QED
  BY <1>3, <1>4, <1>8, <1>11, <1>12 DEF DigitsOfFour, ix

\* The kernels add up products of sizes where the positions multiply sums.
LinePlace(b, ch, x, C, W)        == b * C * W + ch * W + x
PlanePlace(b, ch, y, x, C, H, W) == b * C * H * W + ch * H * W + y * W + x

\* The kernels' place in a tensor of rows, multiplied out.
LEMMA LineOffsets ==
  ASSUME NEW b \in Nat, NEW ch \in Nat, NEW x \in Nat, NEW C \in Nat, NEW W \in Nat
  PROVE  LinePlace(b, ch, x, C, W) = (b * C + ch) * W + x
<1> DEFINE m == b * C
           u == b * C * W
           v == ch * W
<1>1. m \in Nat /\ u \in Nat /\ v \in Nat
  OBVIOUS
<1>2. (m + ch) * W = u + v
  <2> HIDE DEF m
  <2>1. (m + ch) * W = m * W + ch * W
    BY <1>1
  <2> QED
    BY <2>1 DEF m
<1> QED
  BY <1>1, <1>2 DEF LinePlace

PlaneSum(b, ch, y, x, C, H, W) == PlanePlace(b, ch, y, x, C, H, W) = ((b * C + ch) * H + y) * W + x
\* The kernels' place in a tensor of planes, multiplied out.
LEMMA PlaneOffsets ==
  ASSUME NEW b \in Nat, NEW ch \in Nat, NEW y \in Nat, NEW x \in Nat,
         NEW C \in Nat, NEW H \in Nat, NEW W \in Nat
  PROVE  PlaneSum(b, ch, y, x, C, H, W)
<1> DEFINE m == b * C
           k == m * H
           l == ch * H
           r == b * C * H * W
           s == ch * H * W
           t == y * W
<1>1. m \in Nat /\ k \in Nat /\ l \in Nat /\ r \in Nat /\ s \in Nat /\ t \in Nat
  OBVIOUS
<1>2. (m + ch) * H = k + l
  <2> HIDE DEF m
  <2> QED
    BY <1>1
<1>3. (k + l + y) * W = r + s + t
  <2>1. r = k * W /\ s = l * W
    OBVIOUS
  <2> HIDE DEF k, l, r, s
  <2> QED
    BY <1>1, <2>1
<1> QED
  BY <1>1, <1>2, <1>3 DEF PlaneSum, PlanePlace

\* A quotient rounded down, times its divisor, does not exceed the number.
LEMMA ConvFits ==
  ASSUME NEW in \in Nat, NEW kernel \in Nat, kernel <= in, NEW stride \in Nat \ {0}
  PROVE  /\ ConvOut(in, kernel, stride) = (in - kernel) \div stride + 1
         /\ \A o \in Upto(ConvOut(in, kernel, stride)) : \A k \in Upto(kernel) : o * stride + k \in Upto(in)
<1>1. PICK x \in Nat : x = in - kernel
  OBVIOUS
<1>2. PICK d : d = x \div stride
  OBVIOUS
<1>3. d \in Nat /\ stride * d <= x
  <2>1. stride * d = x - (x % stride) /\ x % stride \in 0..(stride - 1)
    BY <1>2, QuotientAndRemainder, RemainderInRange
  <2>2. d \in Nat
    BY <1>2, RowsFit
  <2> QED
    BY <2>1, <2>2
<1>4. ConvOut(in, kernel, stride) = d + 1
  BY <1>1, <1>2 DEF ConvOut, TruncDiv
<1>5. ASSUME NEW o \in Upto(d + 1), NEW k \in Upto(kernel) PROVE o * stride + k \in Upto(in)
  <2>1. o \in Nat /\ o <= d /\ k \in Nat /\ k < kernel
    BY <1>3 DEF Upto
  <2>2. PICK e \in Nat : d = o + e
    <3>1. d - o \in Nat /\ d = o + (d - o)
      BY <1>3, <2>1
    <3> QED
      BY <3>1
  <2>3. stride * d = o * stride + e * stride /\ o * stride \in Nat /\ e * stride \in Nat
    BY <2>1, <2>2
  <2>4. PICK u, v : u = o * stride /\ v = e * stride
    OBVIOUS
  <2>5. u \in Nat /\ v \in Nat /\ u + v <= x
    BY <1>3, <2>3, <2>4
  <2>6. u + k \in Nat /\ u + k < in
    BY <1>1, <2>1, <2>5
  <2> QED
    BY <2>4, <2>6 DEF Upto
<1> QED
  BY <1>1, <1>2, <1>4, <1>5

-----------------------------------------------------------------------------
\* The pools: the strides and shape they are asked for, and what they make of
\* the values of a window.
Pools == {"max_pool2d", "avg_pool2d", "adaptive_avg_pool2d"}
PoolStride(c) == IF c.op = "adaptive_avg_pool2d" THEN <<2, 2>> ELSE StrideOf(c.arg)
PooledShape(c) ==
  IF c.op = "adaptive_avg_pool2d" THEN SubSeq(ShapeOf(c, 1), 1, 2) \o c.arg.size
  ELSE PoolShape(ShapeOf(c, 1), StrideOf(c.arg))
PoolOf(c, f) ==
  IF c.op = "max_pool2d" THEN <<"max", {f[k] : k \in DOMAIN f}>>
  ELSE Times(<<"sum", BagOf(f)>>, Scalar("1/4"))
WindowValues(c, ix) == [jx \in Window(ix, PoolStride(c)) |-> X(c, 1, jx)]
PoolAsked(c) == [ix \in Indices(PooledShape(c)) |-> PoolOf(c, WindowValues(c, ix))]

\* What the reference asks of a pool.
LEMMA PoolReference ==
  ASSUME NEW c, c.op \in Pools
  PROVE  Reference(c) = [out |-> ResultOf(PooledShape(c), PoolAsked(c))]
<1>0. \A ix, stride : {w \in Window(ix, stride) : TRUE} = Window(ix, stride)
  OBVIOUS
<1>1. ASSUME NEW d, d.op = "max_pool2d"
      PROVE  Reference(d) = [out |-> ResultOf(PooledShape(d), PoolAsked(d))]
  <2>1. PoolAsked(d) = [ix \in Indices(PooledShape(d)) |->
                          <<"max", {X(d, 1, jx) : jx \in Window(ix, StrideOf(d.arg))}>>]
    <3>1. \A f : PoolOf(d, f) = <<"max", {f[k] : k \in DOMAIN f}>>
      BY <1>1 DEF PoolOf
    <3>2. \A ix : DOMAIN WindowValues(d, ix) = Window(ix, StrideOf(d.arg))
                  /\ \A jx \in Window(ix, StrideOf(d.arg)) : WindowValues(d, ix)[jx] = X(d, 1, jx)
      BY <1>1 DEF WindowValues, PoolStride
    <3>3. \A ix : PoolOf(d, WindowValues(d, ix)) = <<"max", {X(d, 1, jx) : jx \in Window(ix, StrideOf(d.arg))}>>
      BY <3>1, <3>2
    <3> QED
      BY <3>3 DEF PoolAsked
  <2>2. PooledShape(d) = PoolShape(ShapeOf(d, 1), StrideOf(d.arg))
    BY <1>1 DEF PooledShape
  <2> QED
    BY <1>0, <1>1, <2>1, <2>2 DEF Reference, InPlace, Pooled, Result, MostOf
<1>2. ASSUME NEW d, d.op = "avg_pool2d"
      PROVE  Reference(d) = [out |-> ResultOf(PooledShape(d), PoolAsked(d))]
  <2>1. PoolAsked(d) = [ix \in Indices(PooledShape(d)) |->
          Times(<<"sum", BagOf([jx \in Window(ix, StrideOf(d.arg)) |-> X(d, 1, jx)])>>, Scalar("1/4"))]
    BY <1>2 DEF PoolAsked, PoolOf, WindowValues, PoolStride
  <2>2. PooledShape(d) = PoolShape(ShapeOf(d, 1), StrideOf(d.arg))
    BY <1>2 DEF PooledShape
  <2> QED
    BY <1>0, <1>2, <2>1, <2>2 DEF Reference, InPlace, Pooled, Result, SumOf
<1>3. ASSUME NEW d, d.op = "adaptive_avg_pool2d"
      PROVE  Reference(d) = [out |-> ResultOf(PooledShape(d), PoolAsked(d))]
  <2>1. PoolAsked(d) = [ix \in Indices(PooledShape(d)) |->
          Times(<<"sum", BagOf([jx \in Window(ix, <<2, 2>>) |-> X(d, 1, jx)])>>, Scalar("1/4"))]
    BY <1>3 DEF PoolAsked, PoolOf, WindowValues, PoolStride
  <2>2. PooledShape(d) = SubSeq(ShapeOf(d, 1), 1, 2) \o d.arg.size
    BY <1>3 DEF PooledShape
  <2> QED
    BY <1>0, <1>3, <2>1, <2>2 DEF Reference, InPlace, Pooled, Result, SumOf
<1> QED
  BY <1>1, <1>2, <1>3 DEF Pools

\* Where place k of the window at index ix lies.
InWindow(ix, stride, k) == <<ix[1], ix[2], ix[3] * stride[1] + k[1], ix[4] * stride[2] + k[2]>>
Window4 == (0..1) \X (0..1)

\* Every window has its four places, whatever the strides.
LEMMA WindowPlaces ==
  ASSUME NEW ix, NEW stride, ix[3] * stride[1] \in Nat, ix[4] * stride[2] \in Nat
  PROVE  /\ [k \in Window4 |-> InWindow(ix, stride, k)] \in Bijection(Window4, Window(ix, stride))
         /\ IsFiniteSet(Window4)
<1> DEFINE h == [k \in Window4 |-> InWindow(ix, stride, k)]
<1>1. PICK u \in Nat, v \in Nat : u = ix[3] * stride[1] /\ v = ix[4] * stride[2]
  OBVIOUS
<1>2. \A k \in Window4 : h[k] = <<ix[1], ix[2], u + k[1], v + k[2]>> /\ k = <<k[1], k[2]>> /\ k[1] \in Nat /\ k[2] \in Nat
  BY <1>1 DEF InWindow, Window4
<1>3. Window(ix, stride) = {h[k] : k \in Window4}
  BY DEF Window, InWindow, Window4
<1> HIDE DEF h
<1>4. ASSUME NEW j \in Window4, NEW k \in Window4, h[j] = h[k] PROVE j = k
  <2>1. u + j[1] = u + k[1] /\ v + j[2] = v + k[2]
    BY <1>2, <1>4
  <2>2. j[1] = k[1] /\ j[2] = k[2]
    BY <1>2, <2>1
  <2> QED
    BY <1>2, <2>2
<1>5. h \in Bijection(Window4, Window(ix, stride))
  <2>1. h \in [Window4 -> Window(ix, stride)]
    <3>1. h = [k \in Window4 |-> h[k]]
      BY DEF h
    <3> QED
      BY <1>3, <3>1
  <2> QED
    BY <1>3, <1>4, <2>1 DEF Bijection, Injection, Surjection, IsInjective
<1>6. IsFiniteSet(Window4)
  <2>1. IsFiniteSet(0..1)
    <3>1. 0 \in Int /\ 1 \in Int
      OBVIOUS
    <3> QED
      BY <3>1, FS_Interval, Zenon
  <2> QED
    BY <2>1, FS_Product DEF Window4
<1> QED
  BY <1>5, <1>6 DEF h

\* One element of a pool: the window that the kernel reads is the one asked for.
LEMMA PoolElement ==
  ASSUME NEW c, c.in[1] \in Tensors, Dim(c.in[1]) = 4, c.op \in Pools,
         NEW oh \in Nat, NEW ow \in Nat, NEW sh \in Nat, NEW sw \in Nat, PoolStride(c) = <<sh, sw>>,
         \A y \in Upto(oh) : \A k \in 0..1 : y * sh + k \in Upto(Size(c.in[1], 3)),
         \A x \in Upto(ow) : \A k \in 0..1 : x * sw + k \in Upto(Size(c.in[1], 4)),
         NEW shape, shape = <<Size(c.in[1], 1), Size(c.in[1], 2), oh, ow>>,
         NEW p, p.c = Size(c.in[1], 2), p.ih = Size(c.in[1], 3), p.iw = Size(c.in[1], 4), p.oh = oh, p.ow = ow,
         NEW q \in Upto(NumelOf(shape))
  PROVE  PoolOf(c, pool_window(Before(c, 1), q, sh, sw, p)) = PoolOf(c, WindowValues(c, IndexAt(shape, q)))
<1> DEFINE ix == IndexAt(shape, q)
           s  == ShapeOf(c, 1)
           h  == [k \in Window4 |-> InWindow(ix, <<sh, sw>>, k)]
           f  == pool_window(Before(c, 1), q, sh, sw, p)
           g  == WindowValues(c, ix)
<1>1. /\ s \in Seq(Nat) /\ Len(s) = 4
      /\ s[1] = Size(c.in[1], 1) /\ s[2] = p.c /\ s[3] = p.ih /\ s[4] = p.iw
      /\ s[1] \in Nat /\ s[2] \in Nat /\ s[3] \in Nat /\ s[4] \in Nat
  BY SizesOfMore DEF Tensors, ShapeOf, Size, Dim
<1>2. shape \in Seq(Nat) /\ Len(shape) = 4 /\ shape[1] = s[1] /\ shape[2] = s[2] /\ shape[3] = oh /\ shape[4] = ow
  BY <1>1
<1>3. /\ ix[1] \in Upto(s[1]) /\ ix[2] \in Upto(s[2]) /\ ix[3] \in Upto(oh) /\ ix[4] \in Upto(ow)
      /\ q % p.ow = ix[4] /\ (q \div p.ow) % p.oh = ix[3]
      /\ ((q \div p.ow) \div p.oh) % p.c = ix[2] /\ ((q \div p.ow) \div p.oh) \div p.c = ix[1]
  <2>1. /\ ix[1] \in Upto(shape[1]) /\ ix[2] \in Upto(shape[2])
        /\ ix[3] \in Upto(shape[3]) /\ ix[4] \in Upto(shape[4])
        /\ q % shape[4] = ix[4] /\ (q \div shape[4]) % shape[3] = ix[3]
        /\ ((q \div shape[4]) \div shape[3]) % shape[2] = ix[2]
        /\ ((q \div shape[4]) \div shape[3]) \div shape[2] = ix[1]
    <3>1. DigitsOfFour(shape, q, ix)
      BY <1>2, IndexAtFour, Zenon
    <3> HIDE DEF ix
    <3> QED
      BY <3>1 DEF DigitsOfFour
  <2> HIDE DEF ix, s
  <2>2. shape[2] = p.c /\ shape[3] = p.oh /\ shape[4] = p.ow
    BY <1>1, <1>2
  <2> QED
    BY <1>2, <2>1, <2>2, Zenon
<1>4. ix[1] \in Nat /\ ix[2] \in Nat /\ ix[3] \in Nat /\ ix[4] \in Nat
  BY <1>3 DEF Upto
<1>5. ASSUME NEW k \in Window4
      PROVE  At(Before(c, 1), ix[1] * p.c * p.ih * p.iw + ix[2] * p.ih * p.iw
                                + (ix[3] * sh + k[1]) * p.iw + ix[4] * sw + k[2])
               = X(c, 1, InWindow(ix, <<sh, sw>>, k))
  <2> HIDE DEF ix, s
  <2>1. k[1] \in 0..1 /\ k[2] \in 0..1
    BY DEF Window4
  <2>2. PICK y, x : y = ix[3] * sh + k[1] /\ x = ix[4] * sw + k[2]
    OBVIOUS
  <2>3. y \in Upto(s[3]) /\ x \in Upto(s[4])
    BY <1>1, <1>3, <2>1, <2>2
  <2>4. y \in Nat /\ x \in Nat
    BY <2>3 DEF Upto
  <2>5. InWindow(ix, <<sh, sw>>, k) = <<ix[1], ix[2], y, x>>
    BY <2>2 DEF InWindow
  <2>6. <<ix[1], ix[2], y, x>> \in Indices(s)
        /\ Position(<<ix[1], ix[2], y, x>>, s) = ((ix[1] * s[2] + ix[2]) * s[3] + y) * s[4] + x
    BY <1>1, <1>3, <2>3, IndexOfFour
  <2>7. PlanePlace(ix[1], ix[2], y, x, s[2], s[3], s[4]) = ((ix[1] * s[2] + ix[2]) * s[3] + y) * s[4] + x
    <3>1. /\ ix[1] \in Nat /\ ix[2] \in Nat /\ y \in Nat /\ x \in Nat
          /\ s[2] \in Nat /\ s[3] \in Nat /\ s[4] \in Nat
      BY <1>1, <1>4, <2>4, Zenon
    <3>2. PlaneSum(ix[1], ix[2], y, x, s[2], s[3], s[4])
      BY <3>1, PlaneOffsets
    <3> QED
      BY <3>2 DEF PlaneSum
  <2>8. At(Before(c, 1), Position(<<ix[1], ix[2], y, x>>, s)) = X(c, 1, <<ix[1], ix[2], y, x>>)
    BY <2>6, ReadsIndex DEF s
  <2>9. ix[1] * p.c * p.ih * p.iw + ix[2] * p.ih * p.iw + (ix[3] * sh + k[1]) * p.iw + ix[4] * sw + k[2]
          = PlanePlace(ix[1], ix[2], y, x, s[2], s[3], s[4])
    <3>1. PICK z, w, r : z = ix[1] * p.c * p.ih * p.iw /\ w = ix[2] * p.ih * p.iw /\ r = y * p.iw
      OBVIOUS
    <3>2. z \in Nat /\ w \in Nat /\ r \in Nat
      <4>1. p.c \in Nat /\ p.ih \in Nat /\ p.iw \in Nat
        BY <1>1
      <4>2. PICK i, j : i = ix[1] /\ j = ix[2]
        OBVIOUS
      <4>3. i \in Nat /\ j \in Nat
        BY <1>4, <4>2
      <4> QED
        BY <2>4, <3>1, <4>1, <4>2, <4>3
    <3>3. z + w + r + ix[4] * sw + k[2] = z + w + r + x
      <4>1. PICK e : e = ix[4] * sw
        OBVIOUS
      <4>2. e \in Nat
        BY <1>4, <4>1
      <4> QED
        BY <2>1, <2>2, <3>2, <4>1, <4>2
    <3> QED
      BY <1>1, <2>2, <3>1, <3>3 DEF PlanePlace
  <2> QED
    BY <2>5, <2>6, <2>7, <2>8, <2>9
<1>6. f = [k \in Window4 |-> f[k]] /\ \A k \in Window4 : f[k] = X(c, 1, h[k])
  <2>1. f = [k \in Window4 |-> At(Before(c, 1),
               ix[1] * p.c * p.ih * p.iw + ix[2] * p.ih * p.iw
                 + (ix[3] * sh + k[1]) * p.iw + ix[4] * sw + k[2])]
    <3> HIDE DEF ix
    <3> QED
      BY <1>3 DEF pool_window, Window4
  <2> HIDE DEF f, ix
  <2> QED
    BY <1>5, <2>1
<1>7. h \in Bijection(Window4, Window(ix, <<sh, sw>>)) /\ IsFiniteSet(Window4)
  <2>1. ix[3] * sh \in Nat /\ ix[4] * sw \in Nat /\ <<sh, sw>>[1] = sh /\ <<sh, sw>>[2] = sw
    BY <1>4
  <2> HIDE DEF ix
  <2> QED
    BY <2>1, WindowPlaces
<1>8. g = [jx \in Window(ix, <<sh, sw>>) |-> X(c, 1, jx)]
  BY DEF WindowValues
<1> HIDE DEF ix, f, g, h
<1>9. h \in [Window4 -> Window(ix, <<sh, sw>>)] /\ \A jx \in Window(ix, <<sh, sw>>) : \E k \in Window4 : h[k] = jx
  BY <1>7 DEF Bijection, Injection, Surjection
<1>10. \A k \in Window4 : f[k] = g[h[k]]
  BY <1>6, <1>8, <1>9
<1>11. BagOf(f) = BagOf(g)
  BY <1>6, <1>7, <1>8, <1>10, SameBag
<1>12. {f[k] : k \in DOMAIN f} = {g[k] : k \in DOMAIN g}
  <2>1. DOMAIN f = Window4 /\ DOMAIN g = Window(ix, <<sh, sw>>)
    BY <1>6, <1>8
  <2> QED
    BY <1>9, <1>10, <2>1
<1> QED
  BY <1>11, <1>12 DEF PoolOf, f, g, ix

\* What the launch of a pool stores.
PoolAt(c, sh, sw, p) == [q \in Upto(p.n) |-> PoolOf(c, pool_window(Before(c, 1), q, sh, sw, p))]

\* What the three pooling kernels store, as one function of the place.
LEMMA PoolKernels ==
  ASSUME NEW c, c.op \in Pools, NEW l, l.kernel[1] = c.op, l.kernel[2] # "host",
         NEW sh, NEW sw, c.op = "adaptive_avg_pool2d" => sh = 2 /\ sw = 2,
         c.op # "adaptive_avg_pool2d" => sh = l.num.sh /\ sw = l.num.sw,
         NEW x, x[1] = Before(c, 1)
  PROVE  Stored(l, x) = LoopOver(PoolAt(c, sh, sw, l.num), l.num.n)
<1> DEFINE p == l.num
           F(q) == pool_window(Before(c, 1), q, sh, sw, p)
           w == PoolAt(c, sh, sw, p)
<1>1. Stored(l, x) = Kernel(l, x)
  BY DEF Stored
<1>2. \A q \in Upto(p.n) : w[q] = PoolOf(c, F(q))
  BY DEF PoolAt
<1>3. CASE c.op = "max_pool2d"
  <2>1. Kernel(l, x) = max_pool2d(Before(c, 1), p.n, p)
    BY <1>3 DEF Kernel
  <2>2. \A q \in Upto(p.n) : w[q] = <<"max", {F(q)[k] : k \in DOMAIN F(q)}>>
    BY <1>2, <1>3 DEF PoolOf
  <2>3. sh = p.sh /\ sw = p.sw
    BY <1>3
  <2>4. max_pool2d(Before(c, 1), p.n, p) =
          [total |-> p.n, shared |-> TRUE,
           stores |-> [i \in Upto(p.n) |-> [j \in {i} |-> <<"max", {F(i)[k] : k \in DOMAIN F(i)}>>]]]
    BY <2>3 DEF max_pool2d, Map, Loop, MostOf
  <2> HIDE DEF w, F
  <2> QED
    BY <1>1, <2>1, <2>2, <2>4 DEF LoopOver, w
<1>4. CASE c.op = "avg_pool2d"
  <2>1. Kernel(l, x) = avg_pool2d(Before(c, 1), p.n, p)
    BY <1>4 DEF Kernel
  <2>2. \A q \in Upto(p.n) : w[q] = Times(<<"sum", BagOf(F(q))>>, Scalar("1/4"))
    BY <1>2, <1>4 DEF PoolOf
  <2>3. sh = p.sh /\ sw = p.sw
    BY <1>4
  <2>5. \A q : [k \in DOMAIN F(q) |-> F(q)[k]] = F(q)
    BY DEF pool_window
  <2>4. avg_pool2d(Before(c, 1), p.n, p) =
          [total |-> p.n, shared |-> TRUE,
           stores |-> [i \in Upto(p.n) |-> [j \in {i} |-> Times(<<"sum", BagOf([k \in DOMAIN F(i) |-> F(i)[k]])>>, Scalar("1/4"))]]]
    BY <2>3 DEF avg_pool2d, Map, Loop, SumOf
  <2> HIDE DEF w, F
  <2>6. [i \in Upto(p.n) |-> [j \in {i} |-> Times(<<"sum", BagOf([k \in DOMAIN F(i) |-> F(i)[k]])>>, Scalar("1/4"))]]
          = [i \in Upto(p.n) |-> [j \in {i} |-> w[i]]]
    BY <2>2, <2>5
  <2> QED
    BY <1>1, <2>1, <2>4, <2>6 DEF LoopOver, w
<1>5. CASE c.op = "adaptive_avg_pool2d"
  <2>1. Kernel(l, x) = adaptive_avg_pool2d(Before(c, 1), p.n, p)
    BY <1>5 DEF Kernel
  <2>2. \A q \in Upto(p.n) : w[q] = Times(<<"sum", BagOf(F(q))>>, Scalar("1/4"))
    BY <1>2, <1>5 DEF PoolOf
  <2>3. sh = 2 /\ sw = 2
    BY <1>5
  <2>5. \A q : [k \in DOMAIN F(q) |-> F(q)[k]] = F(q)
    BY DEF pool_window
  <2>4. adaptive_avg_pool2d(Before(c, 1), p.n, p) =
          [total |-> p.n, shared |-> TRUE,
           stores |-> [i \in Upto(p.n) |-> [j \in {i} |-> Times(<<"sum", BagOf([k \in DOMAIN F(i) |-> F(i)[k]])>>, Scalar("1/4"))]]]
    BY <2>3 DEF adaptive_avg_pool2d, Map, Loop, SumOf
  <2> HIDE DEF w, F
  <2>6. [i \in Upto(p.n) |-> [j \in {i} |-> Times(<<"sum", BagOf([k \in DOMAIN F(i) |-> F(i)[k]])>>, Scalar("1/4"))]]
          = [i \in Upto(p.n) |-> [j \in {i} |-> w[i]]]
    BY <2>2, <2>5
  <2> QED
    BY <1>1, <2>1, <2>4, <2>6 DEF LoopOver, w
<1> QED
  BY <1>3, <1>4, <1>5 DEF Pools

\* A pool's plan, from the numbers of its launch.
LEMMA PoolSuffices ==
  ASSUME NEW c, WellFormed(c), c.op \in Pools, Dim(c.in[1]) = 4, c.in[1].dtype \in Dtypes,
         NEW oh \in Nat, NEW ow \in Nat, NEW sh \in Nat, NEW sw \in Nat, PoolStride(c) = <<sh, sw>>,
         \A y \in Upto(oh) : \A k \in 0..1 : y * sh + k \in Upto(Size(c.in[1], 3)),
         \A x \in Upto(ow) : \A k \in 0..1 : x * sw + k \in Upto(Size(c.in[1], 4)),
         NEW shape, shape = <<Size(c.in[1], 1), Size(c.in[1], 2), oh, ow>>, PooledShape(c) = shape,
         NEW out, out = Empty("out", shape, c.in[1].dtype),
         NEW p, p.n = Numel(out), p.c = Size(c.in[1], 2), p.ih = Size(c.in[1], 3), p.iw = Size(c.in[1], 4),
         p.oh = oh, p.ow = ow,
         c.op = "adaptive_avg_pool2d" => sh = 2 /\ sw = 2,
         c.op # "adaptive_avg_pool2d" => sh = p.sh /\ sw = p.sw,
         PlanOf(c) = Plan(<<out>>, <<LaunchFp32(c.op, <<c.in[1], out>>, p)>>)
  PROVE  Sufficient(c)
<1> DEFINE l == LaunchFp32(c.op, <<c.in[1], out>>, p)
           w == PoolAt(c, sh, sw, p)
           f == PoolAsked(c)
           k == LoopOver(w, p.n)
<1>1. c.in[1] \in Tensors /\ 1 \in DOMAIN c.in
  BY InputNames, CallTensors
<1>2. shape \in Seq(Nat)
  <2>1. Size(c.in[1], 1) \in Nat /\ Size(c.in[1], 2) \in Nat
    BY <1>1, SizesAreNat
  <2> QED
    BY <2>1
<1>3. out \in Tensors /\ out.name = "out" /\ out.shape = shape
      /\ Numel(out) = NumelOf(shape) /\ Elements(out) = Upto(NumelOf(shape))
  BY <1>2, OutIs
<1>4. l.pointers = <<c.in[1], out>> /\ l.kernel[1] = c.op /\ l.kernel[2] # "host" /\ l.num = p
  BY DEF LaunchFp32, Launch
<1> HIDE DEF l
<1>5. \A x : x[1] = Before(c, 1) => Stored(l, x) = k
  BY <1>4, PoolKernels
<1>6. OneLoop(c, out, l, k)
  <2>1. Target(l) = "out"
    BY <1>3, <1>4 DEF Target
  <2>2. ASSUME NEW m, Holds(c, m) PROVE Stored(l, ReadFrom(l, m)) = k
    <3>1. ReadFrom(l, m)[1] = Before(c, 1)
      BY <1>4, <2>2, ReadsOne
    <3> QED
      BY <1>5, <3>1
  <2> HIDE DEF k
  <2> QED
    BY <1>3, <2>1, <2>2 DEF OneLoop, l
<1>7. Reference(c) = [out |-> ResultOf(out.shape, f)]
  <2>1. Reference(c) = [out |-> ResultOf(PooledShape(c), f)]
    BY PoolReference
  <2> QED
    BY <1>3, <2>1
<1>8. MapsTo(k, Numel(out), w)
  BY LoopOverMaps
<1>9. w = [q \in Elements(out) |-> w[q]]
  BY <1>3 DEF PoolAt
<1>10. ASSUME NEW q \in Elements(out) PROVE w[q] = f[IndexAt(out.shape, q)]
  <2>1. q \in Upto(NumelOf(shape)) /\ q \in Upto(p.n)
    BY <1>3
  <2>2. w[q] = PoolOf(c, pool_window(Before(c, 1), q, sh, sw, p))
    BY <2>1 DEF PoolAt
  <2>3. PoolOf(c, pool_window(Before(c, 1), q, sh, sw, p)) = PoolOf(c, WindowValues(c, IndexAt(shape, q)))
    BY <1>1, <2>1, PoolElement
  <2>4. IndexAt(shape, q) \in Indices(shape)
    BY <1>2, <2>1, IndexAtIs
  <2>5. f[IndexAt(shape, q)] = PoolOf(c, WindowValues(c, IndexAt(shape, q)))
    BY <2>4 DEF PoolAsked
  <2> HIDE DEF w, f
  <2> QED
    BY <1>3, <2>2, <2>3, <2>5
<1> HIDE DEF w, f, k
<1> QED
  BY <1>3, <1>6, <1>7, <1>8, <1>9, <1>10, MappedSuffices

\* The pair that a list of numbers makes.
PairTaken(v, fallback) ==
  /\ v = <<>> => pair_u32_or(v, fallback) = fallback
  /\ v # <<>> => /\ pair_u32_or(v, fallback) = <<v[1], v[Len(v)]>>
                 /\ v[1] \in Nat /\ v[Len(v)] \in Nat

\* The two sizes the helper takes from a list of one or two.
LEMMA PairsTaken ==
  ASSUME NEW v \in Seq(Int), pair_u32(v), NEW fallback
  PROVE  PairTaken(v, fallback)
<1>1. Len(v) \in Nat /\ Len(v) <= 2 /\ \A i \in 1..Len(v) : v[i] \in Nat
  BY DEF pair_u32
<1>2. CASE Len(v) = 0
  <2>1. v = <<>>
    BY <1>2
  <2>2. pair_u32_or(v, fallback) = fallback
    BY <1>2 DEF pair_u32_or
  <2> QED
    BY <2>1, <2>2 DEF PairTaken
<1>3. CASE Len(v) = 1
  <2>1. v[1] \in Nat
    BY <1>1, <1>3
  <2>2. pair_u32_or(v, fallback) = <<v[1], v[1]>>
    BY <1>3 DEF pair_u32_or
  <2>3. v # <<>>
    BY <1>3
  <2> QED
    BY <1>3, <2>1, <2>2, <2>3 DEF PairTaken
<1>4. CASE Len(v) = 2
  <2>1. v[1] \in Nat /\ v[2] \in Nat
    BY <1>1, <1>4
  <2>2. pair_u32_or(v, fallback) = v
    BY <1>4 DEF pair_u32_or
  <2>3. v # <<>> /\ v = <<v[1], v[2]>>
    BY <1>4
  <2> QED
    BY <1>4, <2>1, <2>2, <2>3, Zenon DEF PairTaken
<1>5. Len(v) = 0 \/ Len(v) = 1 \/ Len(v) = 2
  <2>1. \A n \in Nat : n <= 2 => n = 0 \/ n = 1 \/ n = 2
    OBVIOUS
  <2> QED
    BY <1>1, <2>1, Zenon
<1> QED
  BY <1>2, <1>3, <1>4, <1>5

\* A single number stands for both directions, in the code and in the reference.
LEMMA StrideTaken ==
  ASSUME NEW arg, arg.kernel \in Seq(Int), arg.stride \in Seq(Int), pair_u32(arg.kernel), pair_u32(arg.stride),
         pair_u32_or(arg.kernel, <<0, 0>>) = <<2, 2>>
  PROVE  /\ StrideOf(arg) = pair_u32_or(arg.stride, <<2, 2>>)
         /\ pair_u32_or(arg.stride, <<2, 2>>)[1] \in Nat
         /\ pair_u32_or(arg.stride, <<2, 2>>)[2] \in Nat
         /\ pair_u32_or(arg.stride, <<2, 2>>)
              = <<pair_u32_or(arg.stride, <<2, 2>>)[1], pair_u32_or(arg.stride, <<2, 2>>)[2]>>
<1>1. \A v \in Seq(Int) : \A fallback : pair_u32(v) => PairTaken(v, fallback)
  BY PairsTaken
<1>2. arg.kernel # <<>> /\ arg.kernel[1] = 2 /\ arg.kernel[Len(arg.kernel)] = 2
  <2>1. arg.kernel # <<>>
    <3>1. <<0, 0>> # <<2, 2>>
      OBVIOUS
    <3> QED
      BY <1>1, <3>1 DEF PairTaken
  <2>2. pair_u32_or(arg.kernel, <<0, 0>>) = <<arg.kernel[1], arg.kernel[Len(arg.kernel)]>>
    BY <1>1, <2>1 DEF PairTaken
  <2> QED
    BY <2>1, <2>2
<1>3. CASE arg.stride = <<>>
  <2>1. StrideOf(arg) = <<2, 2>>
    BY <1>2, <1>3 DEF StrideOf
  <2>2. pair_u32_or(arg.stride, <<2, 2>>) = <<2, 2>>
    BY <1>1, <1>3 DEF PairTaken
  <2> QED
    BY <2>1, <2>2
<1>4. CASE arg.stride # <<>>
  <2>1. StrideOf(arg) = <<arg.stride[1], arg.stride[Len(arg.stride)]>>
    BY <1>4 DEF StrideOf
  <2>2. /\ pair_u32_or(arg.stride, <<2, 2>>) = <<arg.stride[1], arg.stride[Len(arg.stride)]>>
        /\ arg.stride[1] \in Nat /\ arg.stride[Len(arg.stride)] \in Nat
    BY <1>1, <1>4 DEF PairTaken
  <2> QED
    BY <2>1, <2>2
<1> QED
  BY <1>3, <1>4

\* max_pool2d and avg_pool2d, on windows that fit into the input.
LEMMA WindowPoolsSuffice ==
  ASSUME NEW c, WellFormed(c), c.op \in {"max_pool2d", "avg_pool2d"}, ~Overhangs(c),
         PlanOf(c).kind = "launching"
  PROVE  Sufficient(c)
<1> DEFINE a == c.in[1]
           stride == pair_u32_or(c.arg.stride, <<2, 2>>)
           oh == ConvOut(Size(a, 3), 2, stride[1])
           ow == ConvOut(Size(a, 4), 2, stride[2])
           shape == <<Size(a, 1), Size(a, 2), oh, ow>>
           out == Empty("out", shape, a.dtype)
           p == [n |-> Numel(out), c |-> Size(a, 2), ih |-> Size(a, 3), iw |-> Size(a, 4),
                 oh |-> oh, ow |-> ow, sh |-> stride[1], sw |-> stride[2]]
<1>1. a \in Tensors /\ 1 \in DOMAIN c.in
  BY InputNames, CallTensors
<1>2. /\ PlanOf(c) = Pool2d(c.op, a, stride) /\ Dim(a) = 4 /\ a.dtype = "fp32"
      /\ pair_u32(c.arg.kernel) /\ pair_u32(c.arg.stride) /\ pair_u32_or(c.arg.kernel, <<0, 0>>) = <<2, 2>>
  <2>1. CASE c.op = "max_pool2d"
    <3>1. PlanOf(c) = max_pool2d_op(a, c.arg)
      BY <2>1 DEF PlanOf, MiniGpuOps, aten_impl
    <3> QED
      BY <2>1, <3>1, CheckPassed DEF max_pool2d_op, require_fp32_minigpu_contiguous
  <2>2. CASE c.op = "avg_pool2d"
    <3>1. PlanOf(c) = avg_pool2d_op(a, c.arg)
      BY <2>2 DEF PlanOf, MiniGpuOps, aten_impl
    <3> QED
      BY <2>2, <3>1, CheckPassed DEF avg_pool2d_op, require_fp32_minigpu_contiguous
  <2> QED
    BY <2>1, <2>2
<1>3. c.arg.kernel \in Seq(Int) /\ c.arg.stride \in Seq(Int)
  BY DEF WellFormed
<1>4. StrideOf(c.arg) = stride /\ stride[1] \in Nat /\ stride[2] \in Nat /\ stride = <<stride[1], stride[2]>>
  BY <1>2, <1>3, StrideTaken
<1> HIDE DEF stride
<1>5. /\ stride[1] # 0 /\ stride[2] # 0
      /\ PlanOf(c) = Plan(<<out>>, <<LaunchFp32(c.op, <<a, out>>, p)>>)
  BY <1>2, CheckPassed DEF Pool2d, Crashes
<1>6. Size(a, 3) \in Nat /\ Size(a, 4) \in Nat
  BY <1>1, <1>2, SizesAreNat
<1>7. Size(a, 3) >= 2 /\ Size(a, 4) >= 2
  <2>1. 3 \in 3..4 /\ 4 \in 3..4
    OBVIOUS
  <2> QED
    BY <1>6, <2>1 DEF Overhangs, ShapeOf, Size
<1>8. \A in \in Nat : \A s \in Nat \ {0} : in >= 2 =>
        /\ ConvOut(in, 2, s) \in Nat /\ ConvOut(in, 2, s) = (in - 2) \div s + 1
        /\ \A o \in Upto(ConvOut(in, 2, s)) : \A k \in 0..1 : o * s + k \in Upto(in)
  <2>1. ASSUME NEW in \in Nat, NEW s \in Nat \ {0}, in >= 2
        PROVE  /\ ConvOut(in, 2, s) \in Nat /\ ConvOut(in, 2, s) = (in - 2) \div s + 1
               /\ \A o \in Upto(ConvOut(in, 2, s)) : \A k \in 0..1 : o * s + k \in Upto(in)
    <3>1. ConvOut(in, 2, s) = (in - 2) \div s + 1
          /\ \A o \in Upto(ConvOut(in, 2, s)) : \A k \in Upto(2) : o * s + k \in Upto(in)
      BY <2>1, ConvFits
    <3>2. PICK x \in Nat : x = in - 2
      BY <2>1
    <3>3. x \div s \in Nat
      BY <3>2, RowsFit
    <3>4. Upto(2) = 0..1
      BY DEF Upto
    <3> QED
      BY <3>1, <3>2, <3>3, <3>4
  <2> QED
    BY <2>1
<1>9. /\ oh \in Nat /\ oh = (Size(a, 3) - 2) \div stride[1] + 1
      /\ ow \in Nat /\ ow = (Size(a, 4) - 2) \div stride[2] + 1
      /\ \A y \in Upto(oh) : \A k \in 0..1 : y * stride[1] + k \in Upto(Size(a, 3))
      /\ \A x \in Upto(ow) : \A k \in 0..1 : x * stride[2] + k \in Upto(Size(a, 4))
  <2>1. stride[1] \in Nat \ {0} /\ stride[2] \in Nat \ {0}
    BY <1>4, <1>5
  <2> QED
    BY <1>6, <1>7, <1>8, <2>1, Zenon
<1>10. PoolStride(c) = <<stride[1], stride[2]>>
  BY <1>4 DEF PoolStride
<1>11. PooledShape(c) = shape
  BY <1>4, <1>9 DEF PooledShape, PoolShape, ShapeOf, Size
<1>12. /\ p.n = Numel(out) /\ p.c = Size(a, 2) /\ p.ih = Size(a, 3) /\ p.iw = Size(a, 4)
       /\ p.oh = oh /\ p.ow = ow /\ p.sh = stride[1] /\ p.sw = stride[2]
  OBVIOUS
<1>13. c.op \in Pools /\ c.op # "adaptive_avg_pool2d" /\ a.dtype \in Dtypes
  BY <1>2 DEF Pools, Dtypes, SixTypes
<1> HIDE DEF p
<1>14. out = Empty("out", shape, c.in[1].dtype) /\ shape = <<Size(c.in[1], 1), Size(c.in[1], 2), oh, ow>>
  OBVIOUS
<1> HIDE DEF out, shape
<1> HIDE DEF oh, ow
<1> QED
  BY <1>2, <1>4, <1>5, <1>9, <1>10, <1>11, <1>12, <1>13, <1>14, PoolSuffices DEF a

\* Two pairs.
LEMMA PairsJoined == ASSUME NEW i, NEW j, NEW k, NEW l PROVE <<i, j>> \o <<k, l>> = <<i, j, k, l>>
<1> DEFINE t == <<i, j>> \o <<k, l>>
<1>1. t \in Seq({i, j, k, l}) /\ Len(t) = 4
  <2>1. <<i, j>> \in Seq({i, j, k, l}) /\ <<k, l>> \in Seq({i, j, k, l})
    OBVIOUS
  <2> QED
    BY <2>1
<1>2. t[1] = i /\ t[2] = j /\ t[3] = k /\ t[4] = l
  OBVIOUS
<1> HIDE DEF t
<1>3. t = <<i, j, k, l>>
  BY <1>1, <1>2
<1> QED
  BY <1>3 DEF t

\* Two sizes of four, and two others.
LEMMA TwoByTwo ==
  ASSUME NEW s \in Seq(Nat), Len(s) = 4, NEW t \in Seq(Int), Len(t) = 2
  PROVE  SubSeq(s, 1, 2) \o t = <<s[1], s[2], t[1], t[2]>>
<1> DEFINE u == SubSeq(s, 1, 2)
           v == <<s[1], s[2]>> \o <<t[1], t[2]>>
<1>1. u = [i \in 1..2 |-> s[i]]
  OBVIOUS
<1> HIDE DEF u
<1>2. u = <<s[1], s[2]>>
  BY <1>1
<1>3. t = <<t[1], t[2]>>
  OBVIOUS
<1>4. \A i, j, k, l : <<i, j>> \o <<k, l>> = <<i, j, k, l>>
  BY PairsJoined
<1> QED
  BY <1>2, <1>3, <1>4, Zenon DEF u

\* adaptive_avg_pool2d halves the input.
LEMMA AdaptivePoolSuffices ==
  ASSUME NEW c, WellFormed(c), c.op = "adaptive_avg_pool2d", PlanOf(c).kind = "launching"
  PROVE  Sufficient(c)
<1> DEFINE a == c.in[1]
           size == c.arg.size
           oh == size[1]
           ow == size[2]
           shape == <<Size(a, 1), Size(a, 2), oh, ow>>
           out == Empty("out", shape, a.dtype)
           p == [n |-> Numel(out), c |-> Size(a, 2), ih |-> Size(a, 3), iw |-> Size(a, 4),
                 oh |-> oh, ow |-> ow]
<1>1. a \in Tensors /\ 1 \in DOMAIN c.in
  BY InputNames, CallTensors
<1>2. /\ PlanOf(c) = Plan(<<out>>, <<LaunchFp32(c.op, <<a, out>>, p)>>)
      /\ Dim(a) = 4 /\ a.dtype = "fp32" /\ Len(size) = 2 /\ size[1] >= 0 /\ size[2] >= 0
      /\ Size(a, 3) = 2 * size[1] /\ Size(a, 4) = 2 * size[2]
  <2>1. PlanOf(c) = adaptive_avg_pool2d_op(a, size)
    BY DEF PlanOf, MiniGpuOps, aten_impl
  <2> QED
    BY <2>1, CheckPassed DEF adaptive_avg_pool2d_op, require_fp32_minigpu_contiguous
<1>3. size \in Seq(Int)
  BY DEF WellFormed
<1>4. oh \in Nat /\ ow \in Nat /\ size = <<oh, ow>>
  <2>1. oh \in Int /\ ow \in Int
    BY <1>2, <1>3
  <2> QED
    BY <1>2, <1>3, <2>1
<1>5. /\ \A y \in Upto(oh) : \A k \in 0..1 : y * 2 + k \in Upto(Size(a, 3))
      /\ \A x \in Upto(ow) : \A k \in 0..1 : x * 2 + k \in Upto(Size(a, 4))
  BY <1>2, <1>4 DEF Upto
<1>6. PoolStride(c) = <<2, 2>>
  BY DEF PoolStride
<1>7. PooledShape(c) = shape
  <2>1. a.shape \in Seq(Nat) /\ Len(a.shape) = 4
    BY <1>1, <1>2 DEF Tensors, Dim
  <2>2. SubSeq(a.shape, 1, 2) \o size = <<a.shape[1], a.shape[2], oh, ow>>
    BY <1>2, <1>3, <2>1, TwoByTwo
  <2> QED
    BY <2>2 DEF PooledShape, ShapeOf, Size
<1>8. /\ p.n = Numel(out) /\ p.c = Size(a, 2) /\ p.ih = Size(a, 3) /\ p.iw = Size(a, 4)
      /\ p.oh = oh /\ p.ow = ow
  OBVIOUS
<1>9. c.op \in Pools /\ a.dtype \in Dtypes
  BY <1>2 DEF Pools, Dtypes, SixTypes
<1> HIDE DEF p
<1>10. out = Empty("out", shape, c.in[1].dtype) /\ shape = <<Size(c.in[1], 1), Size(c.in[1], 2), oh, ow>>
  OBVIOUS
<1> HIDE DEF out, shape
<1> HIDE DEF oh, ow
<1>11. 2 \in Nat
  OBVIOUS
<1> QED
  BY <1>2, <1>4, <1>5, <1>6, <1>7, <1>8, <1>9, <1>10, <1>11, PoolSuffices DEF a

\* The three pools have sufficient plans.
LEMMA PoolsSuffice ==
  ASSUME NEW c, WellFormed(c), c.op \in Pools, ~Overhangs(c), PlanOf(c).kind = "launching"
  PROVE  Sufficient(c)
<1>1. c.op \in {"max_pool2d", "avg_pool2d"} \/ c.op = "adaptive_avg_pool2d"
  BY DEF Pools
<1> QED
  BY <1>1, WindowPoolsSuffice, AdaptivePoolSuffices

-----------------------------------------------------------------------------
\* view: p counts the elements behind each dimension, from the last to the first.
StridesBack(p, shape, n) == p = [d \in 0..n |-> IF d = 0 THEN 1 ELSE p[d - 1] * shape[Len(shape) - d + 1]]

\* Strides from the last dimension to the first, by induction over the dimensions.
LEMMA StridesExist ==
  ASSUME NEW shape \in Seq(Nat)
  PROVE  \E p : StridesBack(p, shape, Len(shape))
<1> DEFINE S == {n \in Nat : \E p : StridesBack(p, shape, n)}
<1>1. 0 \in S
  <2>1. StridesBack([d \in 0..0 |-> 1], shape, 0)
    BY DEF StridesBack
  <2> QED
    BY <2>1
<1>2. ASSUME NEW n \in S PROVE n + 1 \in S
  <2>1. PICK p : StridesBack(p, shape, n)
    OBVIOUS
  <2> DEFINE q == [d \in 0..(n + 1) |-> IF d = n + 1 THEN p[n] * shape[Len(shape) - d + 1] ELSE p[d]]
  <2>2. StridesBack(q, shape, n + 1)
    BY <2>1 DEF StridesBack
  <2> QED
    BY <2>2
<1>3. S \in SUBSET Nat
  OBVIOUS
<1>4. Len(shape) \in S
  <2> HIDE DEF S
  <2>1. \A n \in Nat : n \in S
    BY <1>1, <1>2, <1>3, AllNumbers
  <2> QED
    BY <2>1
<1> QED
  BY <1>4

\* The strides of a view, from the last dimension to the first.
LEMMA StrideSteps ==
  ASSUME NEW shape \in Seq(Nat)
  PROVE  \E p \in [0..Len(shape) -> Nat] :
            /\ p[0] = 1
            /\ \A d \in 1..Len(shape) : p[d] = p[d - 1] * shape[Len(shape) - d + 1]
            /\ \A d \in 1..Len(shape) : contiguous_strides(shape)[d] = p[Len(shape) - d]
<1> DEFINE p == CHOOSE p : StridesBack(p, shape, Len(shape))
<1>1. StridesBack(p, shape, Len(shape))
  BY StridesExist
<1>2. contiguous_strides(shape) = [d \in DOMAIN shape |-> p[Len(shape) - d]]
  BY DEF contiguous_strides, StridesBack
<1> HIDE DEF p
<1> DEFINE n == Len(shape)
           S == {d \in Nat : d <= n => p[d] \in Nat}
<1>3. n \in Nat /\ \A d \in 1..n : shape[d] \in Nat
  OBVIOUS
<1>4. p[0] = 1 /\ \A d \in 1..n : p[d] = p[d - 1] * shape[n - d + 1]
  <2>1. p[0] = 1
    BY <1>1, <1>3 DEF StridesBack
  <2>2. ASSUME NEW d \in 1..n PROVE p[d] = p[d - 1] * shape[n - d + 1]
    <3>1. d \in 0..n /\ d # 0
      BY <1>3
    <3> QED
      BY <1>1, <3>1, Zenon DEF StridesBack
  <2> QED
    BY <2>1, <2>2
<1>5. p = [d \in 0..n |-> p[d]]
  BY <1>1 DEF StridesBack
<1> HIDE DEF n
<1>6. 0 \in S
  BY <1>4
<1>7. ASSUME NEW d \in S PROVE d + 1 \in S
  <2>1. CASE d + 1 <= n
    <3>1. d + 1 \in 1..n /\ n - (d + 1) + 1 \in 1..n /\ (d + 1) - 1 = d /\ p[d] \in Nat
      BY <1>3, <2>1
    <3>2. p[d + 1] = p[d] * shape[n - (d + 1) + 1] /\ shape[n - (d + 1) + 1] \in Nat
      BY <1>3, <1>4, <3>1
    <3> QED
      BY <3>1, <3>2
  <2> QED
    BY <1>3, <2>1
<1>8. \A d \in Nat : d \in S
  <2>1. S \in SUBSET Nat
    OBVIOUS
  <2> HIDE DEF S
  <2> QED
    BY <1>6, <1>7, <2>1, AllNumbers
<1>9. p \in [0..n -> Nat]
  BY <1>3, <1>5, <1>8
<1> QED
  <2>1. \A d \in 1..Len(shape) : contiguous_strides(shape)[d] = p[Len(shape) - d]
    BY <1>2
  <2> QED
    BY <2>1, <1>4, <1>9 DEF n

\* Where the strides lead index ix, dimension by dimension.
LeadsBy(o, ix, strides, n) == o = [d \in 0..n |-> IF d = 0 THEN 0 ELSE o[d - 1] + ix[d] * strides[d]]

\* The offset of an index, by induction over the dimensions.
LEMMA OffsetsExist ==
  ASSUME NEW ix, NEW strides, NEW m \in Nat
  PROVE  \E o : LeadsBy(o, ix, strides, m)
<1> DEFINE S == {n \in Nat : \E o : LeadsBy(o, ix, strides, n)}
<1>1. 0 \in S
  <2>1. LeadsBy([d \in 0..0 |-> 0], ix, strides, 0)
    BY DEF LeadsBy
  <2> QED
    BY <2>1
<1>2. ASSUME NEW n \in S PROVE n + 1 \in S
  <2>1. PICK o : LeadsBy(o, ix, strides, n)
    OBVIOUS
  <2> DEFINE q == [d \in 0..(n + 1) |-> IF d = n + 1 THEN o[n] + ix[d] * strides[d] ELSE o[d]]
  <2>2. LeadsBy(q, ix, strides, n + 1)
    BY <2>1 DEF LeadsBy
  <2> QED
    BY <2>2
<1>3. S \in SUBSET Nat
  OBVIOUS
<1>4. m \in S
  <2> HIDE DEF S
  <2>1. \A n \in Nat : n \in S
    BY <1>1, <1>2, <1>3, AllNumbers
  <2> QED
    BY <2>1
<1> QED
  BY <1>4

\* An offset grows as the position does, times the stride it has reached.
LEMMA OffsetStep ==
  ASSUME NEW b \in Nat, NEW s \in Nat, NEW i \in Nat, NEW q \in Nat
  PROVE  b * (q * s) + i * q = (b * s + i) * q
<1>1. (b * s + i) * q = (b * s) * q + i * q
  <2>1. PICK m \in Nat : m = b * s
    OBVIOUS
  <2>2. (m + i) * q = m * q + i * q
    OBVIOUS
  <2> QED
    BY <2>1, <2>2
<1>2. (b * s) * q = b * (q * s)
  OBVIOUS
<1> QED
  BY <1>1, <1>2

\* Contiguous strides lead every index to its position.
LEMMA StridesLead ==
  ASSUME NEW v, v.shape \in Seq(Nat), v.strides = contiguous_strides(v.shape)
  PROVE  StridesFit(v)
<1> DEFINE shape == v.shape
           n == Len(shape)
<1>1. SUFFICES ASSUME NEW ix \in Indices(shape)
               PROVE  (CHOOSE o : LeadsBy(o, ix, v.strides, n))[n] = Position(ix, shape)
  BY DEF StridesFit, LeadsBy
<1> DEFINE o == CHOOSE o : LeadsBy(o, ix, v.strides, n)
<1>2. n \in Nat
  OBVIOUS
<1>3. LeadsBy(o, ix, v.strides, n)
  BY <1>2, OffsetsExist
<1> HIDE DEF o
<1>4. PICK p \in [0..n -> Nat] :
            /\ p[0] = 1
            /\ \A d \in 1..n : p[d] = p[d - 1] * shape[n - d + 1]
            /\ \A d \in 1..n : contiguous_strides(shape)[d] = p[n - d]
  BY StrideSteps
<1>5. PICK b \in [0..n -> Nat] :
            /\ b[0] = 0
            /\ \A d \in 1..n : b[d] = b[d - 1] * shape[d] + ix[d]
            /\ Position(ix, shape) = b[n]
  BY PositionSteps
<1>6. \A d \in 1..n : ix[d] \in Nat /\ shape[d] \in Nat
  BY IndexIs
<1>7. o[0] = 0 /\ \A d \in 1..n : o[d] = o[d - 1] + ix[d] * p[n - d]
  <2>1. o[0] = 0
    BY <1>2, <1>3 DEF LeadsBy
  <2>2. ASSUME NEW d \in 1..n PROVE o[d] = o[d - 1] + ix[d] * p[n - d]
    <3>1. d \in 0..n /\ d # 0
      BY <1>2
    <3>2. o[d] = o[d - 1] + ix[d] * v.strides[d]
      BY <1>3, <3>1, Zenon DEF LeadsBy
    <3>3. v.strides[d] = p[n - d]
      BY <1>4, Zenon
    <3> QED
      BY <3>2, <3>3, Zenon
  <2> QED
    BY <2>1, <2>2
<1> HIDE DEF n, shape
<1> DEFINE S == {d \in Nat : d <= n => o[d] = b[d] * p[n - d]}
<1>8. 0 \in S
  <2>1. p[n - 0] \in Nat
    BY <1>2, <1>4
  <2> QED
    BY <1>5, <1>7, <2>1
<1>9. ASSUME NEW d \in S PROVE d + 1 \in S
  <2>1. CASE d + 1 <= n
    <3>1. d + 1 \in 1..n /\ n - d \in 1..n /\ n - (d + 1) \in 0..n /\ d \in 0..n /\ d <= n
      BY <1>2, <2>1
    <3>2. n - (n - d) + 1 = d + 1 /\ (d + 1) - 1 = d /\ (n - d) - 1 = n - (d + 1)
      BY <1>2
    <3>3. o[d] = b[d] * p[n - d]
      BY <3>1
    <3>4. o[d + 1] = o[d] + ix[d + 1] * p[n - (d + 1)]
      BY <1>7, <3>1, <3>2
    <3>5. b[d + 1] = b[d] * shape[d + 1] + ix[d + 1]
      BY <1>5, <3>1, <3>2
    <3>6. p[n - d] = p[n - (d + 1)] * shape[d + 1]
      BY <1>4, <3>1, <3>2
    <3>7. b[d] \in Nat /\ shape[d + 1] \in Nat /\ ix[d + 1] \in Nat /\ p[n - (d + 1)] \in Nat
      BY <1>4, <1>5, <1>6, <3>1
    <3>8. b[d] * (p[n - (d + 1)] * shape[d + 1]) + ix[d + 1] * p[n - (d + 1)]
            = (b[d] * shape[d + 1] + ix[d + 1]) * p[n - (d + 1)]
      BY <3>7, OffsetStep
    <3>9. o[d + 1] = b[d + 1] * p[n - (d + 1)]
      BY <3>3, <3>4, <3>5, <3>6, <3>8, Zenon
    <3> QED
      BY <3>9
  <2> QED
    BY <1>2, <2>1
<1>10. n \in S
  <2>1. S \in SUBSET Nat
    OBVIOUS
  <2> HIDE DEF S
  <2>2. \A d \in Nat : d \in S
    BY <1>8, <1>9, <2>1, AllNumbers
  <2> QED
    BY <1>2, <2>2
<1>11. o[n] = b[n] * p[0]
  BY <1>2, <1>10
<1>12. b[n] \in Nat
  BY <1>2, <1>5
<1>13. o[n] = b[n]
  BY <1>4, <1>11, <1>12
<1> QED
  BY <1>5, <1>13 DEF o

-----------------------------------------------------------------------------
\* p has the factor s from dimension j on, q does not.
Behind(p, q, s, j, d) == (d < j => p[d] = q[d]) /\ (d >= j => p[d] = s * q[d])

\* The number of elements, one size taken out of the product.
LEMMA OneFactor ==
  ASSUME NEW shape \in Seq(Nat), NEW j \in DOMAIN shape,
         NEW rest, rest = [i \in DOMAIN shape |-> IF i = j THEN 1 ELSE shape[i]]
  PROVE  rest \in Seq(Nat) /\ NumelOf(shape) = shape[j] * NumelOf(rest)
<1> DEFINE n == Len(shape)
<1>1. n \in Nat /\ DOMAIN shape = 1..n /\ j \in 1..n /\ \A d \in 1..n : shape[d] \in Nat
  OBVIOUS
<1>2. rest \in Seq(Nat) /\ Len(rest) = n
  <2>1. rest \in [1..n -> Nat]
    BY <1>1
  <2> QED
    BY <1>1, <2>1
<1>3. PICK p \in [0..n -> Nat] :
            /\ p[0] = 1
            /\ \A d \in 1..n : p[d] = p[d - 1] * shape[d]
            /\ NumelOf(shape) = p[n]
  BY NumelSteps
<1>4. PICK q \in [0..n -> Nat] :
            /\ q[0] = 1
            /\ \A d \in 1..n : q[d] = q[d - 1] * rest[d]
            /\ NumelOf(rest) = q[n]
  BY <1>2, NumelSteps
<1>5. \A d \in 1..n : rest[d] = IF d = j THEN 1 ELSE shape[d]
  BY <1>1
<1>6. PICK s \in Nat : s = shape[j]
  BY <1>1
<1> HIDE DEF n
<1> DEFINE S == {d \in Nat : d <= n => Behind(p, q, s, j, d)}
<1>0. \A d : d \in S <=> d \in Nat /\ (d <= n => Behind(p, q, s, j, d))
  OBVIOUS
<1> HIDE DEF S
<1>j. j \in Nat /\ 0 < j /\ j <= n
  BY <1>1
<1>7. 0 \in S
  <2>1. 0 < j /\ ~(0 >= j)
    BY <1>j
  <2>2. Behind(p, q, s, j, 0)
    BY <1>3, <1>4, <2>1, Zenon DEF Behind
  <2> QED
    BY <1>0, <2>2
<1>8. ASSUME NEW d \in S PROVE d + 1 \in S
  <2>0. d \in Nat /\ (d <= n => Behind(p, q, s, j, d))
    BY <1>0, <1>8, Zenon
  <2>1. CASE d + 1 <= n
    <3>1. d + 1 \in 1..n /\ d \in 0..n /\ (d + 1) - 1 = d /\ d <= n
      BY <1>1, <2>0, <2>1
    <3> SUFFICES Behind(p, q, s, j, d + 1)
      BY <1>0, <2>0
    <3>2. p[d + 1] = p[d] * shape[d + 1] /\ q[d + 1] = q[d] * rest[d + 1]
      BY <1>3, <1>4, <3>1, Zenon
    <3>3. PICK y \in Nat : y = q[d]
      BY <1>4, <3>1
    <3>4. PICK x \in Nat : x = shape[d + 1]
      BY <1>1, <3>1
    <3>5. CASE d + 1 = j
      <4>1. d < j /\ ~(d + 1 < j)
        BY <1>j, <2>0, <3>5
      <4>2. y * 1 = y /\ y * s = s * y
        OBVIOUS
      <4>3. p[d] = y /\ rest[d + 1] = 1 /\ x = s
        BY <1>5, <1>6, <2>0, <3>1, <3>3, <3>4, <3>5, <4>1, Zenon DEF Behind
      <4>4. p[d + 1] = s * q[d + 1]
        BY <3>2, <3>3, <3>4, <4>2, <4>3, Zenon
      <4> QED
        BY <4>1, <4>4, Zenon DEF Behind
    <3>6. CASE d + 1 > j
      <4>1. d >= j /\ d + 1 # j /\ ~(d + 1 < j)
        BY <1>j, <2>0, <3>6
      <4>2. p[d] = s * y /\ rest[d + 1] = x
        BY <1>5, <2>0, <3>1, <3>3, <3>4, <4>1, Zenon DEF Behind
      <4>3. (s * y) * x = s * (y * x)
        OBVIOUS
      <4>4. p[d + 1] = s * q[d + 1]
        BY <3>2, <3>3, <3>4, <4>2, <4>3, Zenon
      <4> QED
        BY <4>1, <4>4, Zenon DEF Behind
    <3>7. CASE d + 1 < j
      <4>1. d < j /\ d + 1 # j /\ ~(d + 1 >= j)
        BY <1>j, <2>0, <3>7
      <4>2. p[d] = y /\ rest[d + 1] = x
        BY <1>5, <2>0, <3>1, <3>3, <3>4, <4>1, Zenon DEF Behind
      <4>3. p[d + 1] = q[d + 1]
        BY <3>2, <3>3, <3>4, <4>2, Zenon
      <4> QED
        BY <4>1, <4>3, Zenon DEF Behind
    <3>8. d + 1 = j \/ d + 1 > j \/ d + 1 < j
      BY <1>j, <2>0
    <3> QED
      BY <3>5, <3>6, <3>7, <3>8, Zenon
  <2>2. CASE ~(d + 1 <= n)
    BY <1>0, <2>0, <2>2
  <2> QED
    BY <2>1, <2>2
<1>9. n \in S
  <2>1. S \in SUBSET Nat
    BY <1>0
  <2>2. \A d \in Nat : d \in S
    BY <1>7, <1>8, <2>1, AllNumbers
  <2> QED
    BY <1>1, <2>2
<1>10. p[n] = s * q[n]
  <2>1. n >= j /\ n <= n
    BY <1>1
  <2> QED
    BY <1>0, <1>9, <2>1, Zenon DEF Behind
<1> QED
  BY <1>2, <1>3, <1>4, <1>6, <1>10, Zenon

\* Two factors of one product, over a factor that is not zero.
LEMMA FactorIsOne ==
  ASSUME NEW x \in Nat, NEW y \in Nat, NEW k \in Nat, k # 0, x * k = y * k
  PROVE  x = y
<1>1. CASE x < y
  <2>1. PICK e \in Nat : y = x + 1 + e
    <3>1. y - x - 1 \in Nat /\ y = x + 1 + (y - x - 1)
      BY <1>1
    <3> QED
      BY <3>1
  <2>2. y * k = x * k + k + e * k
    BY <2>1
  <2>3. x * k \in Nat /\ e * k \in Nat
    BY <2>1
  <2> QED
    BY <2>2, <2>3
<1>2. CASE y < x
  <2>1. PICK e \in Nat : x = y + 1 + e
    <3>1. x - y - 1 \in Nat /\ x = y + 1 + (x - y - 1)
      BY <1>2
    <3> QED
      BY <3>1
  <2>2. x * k = y * k + k + e * k
    BY <2>1
  <2>3. y * k \in Nat /\ e * k \in Nat
    BY <2>1
  <2> QED
    BY <2>2, <2>3
<1> QED
  BY <1>1, <1>2

\* Shapes are what their sizes are.
LEMMA SameSizes ==
  ASSUME NEW s \in Seq(Nat), NEW t \in Seq(Nat), Len(s) = Len(t), \A d \in 1..Len(s) : s[d] = t[d]
  PROVE  s = t
<1>1. s = [d \in 1..Len(s) |-> s[d]] /\ t = [d \in 1..Len(s) |-> t[d]]
  OBVIOUS
<1> QED
  BY <1>1, Zenon

\* A function over the first numbers is a sequence.
LEMMA SizesFrom ==
  ASSUME NEW n \in Nat, NEW s, s \in [1..n -> Nat]
  PROVE  s \in Seq(Nat) /\ Len(s) = n
OBVIOUS

\* The sizes a shape may have that a view of self asks for.
SizesAsked(shape, size, n) ==
  /\ shape \in Seq(Nat) /\ Len(shape) = Len(size)
  /\ \A d \in DOMAIN size : size[d] # -1 => shape[d] = size[d]
  /\ NumelOf(shape) = n

\* What the code infers is such a shape, and the only one.
LEMMA InferredIsAsked ==
  ASSUME NEW self, self.shape \in Seq(Nat), NEW size \in Seq(Int), ViewFits(self, size)
  PROVE  /\ SizesAsked(infer_view_size(self, size), size, Numel(self))
         /\ \A d \in DOMAIN size : infer_view_size(self, size)[d] \in 0..Numel(self) \/ infer_view_size(self, size)[d] = size[d]
         /\ \A shape : SizesAsked(shape, size, Numel(self)) => shape = infer_view_size(self, size)
<1> DEFINE inferred == {i \in DOMAIN size : size[i] = -1}
           known == [i \in DOMAIN size |-> IF size[i] = -1 THEN 1 ELSE size[i]]
           own == infer_view_size(self, size)
           n == Len(size)
<1>1. n \in Nat /\ DOMAIN size = 1..n /\ \A d \in 1..n : size[d] \in Int /\ size[d] >= -1
  BY DEF ViewFits
<1>2. Numel(self) \in Nat
  BY NumelIsNat DEF Numel
<1>3. known \in Seq(Nat) /\ known_product(size) = NumelOf(known)
  <2>1. known \in [1..n -> Nat]
    BY <1>1
  <2> QED
    BY <1>1, <2>1 DEF known_product
<1>4. PICK k \in Nat : k = known_product(size)
  BY <1>3, NumelIsNat
<1>5. CASE inferred = {}
  <2>1. \A d \in 1..n : size[d] \in Nat
    BY <1>1, <1>5
  <2>2. known = size /\ own = size /\ size \in Seq(Nat)
    <3>1. \A d \in DOMAIN size : size[d] # -1
      BY <1>5
    <3>2. size = [d \in DOMAIN size |-> size[d]]
      OBVIOUS
    <3>3. known = [d \in DOMAIN size |-> size[d]]
      BY <3>1, Zenon
    <3>4. own = [d \in DOMAIN size |-> size[d]]
      BY <3>1, Zenon DEF infer_view_size
    <3>5. size \in [1..n -> Nat]
      BY <1>1, <2>1
    <3>6. size \in Seq(Nat)
      BY <1>1, <3>5, SizesFrom
    <3> QED
      BY <3>2, <3>3, <3>4, <3>6, Zenon
  <2>3. NumelOf(size) = Numel(self)
    BY <1>3, <1>5, <2>2 DEF ViewFits
  <2>4. ASSUME NEW shape, SizesAsked(shape, size, Numel(self)) PROVE shape = size
    <3>1. \A d \in 1..n : shape[d] = size[d]
      BY <1>1, <1>5, <2>4 DEF SizesAsked
    <3> QED
      BY <1>1, <2>4, <3>1 DEF SizesAsked
  <2> QED
    BY <2>2, <2>3, <2>4 DEF SizesAsked
<1>6. CASE inferred # {}
  <2>1. PICK j \in 1..n : size[j] = -1 /\ \A d \in 1..n : size[d] = -1 => d = j
    <3>1. IsFiniteSet(inferred) /\ Cardinality(inferred) <= 1
      <4>1. IsFiniteSet(1..n)
        BY <1>1, FS_Interval
      <4> QED
        BY <1>1, <4>1, FS_Subset DEF ViewFits
    <3>2. PICK j \in inferred : TRUE
      BY <1>6
    <3>3. ASSUME NEW d \in inferred, d # j PROVE FALSE
      <4>1. IsFiniteSet({d, j}) /\ Cardinality({d, j}) = 2
        <5>1. IsFiniteSet({j}) /\ Cardinality({j}) = 1
          BY FS_Singleton
        <5>2. {j} \cup {d} = {d, j} /\ d \notin {j}
          BY <3>3
        <5>3. IsFiniteSet({j} \cup {d}) /\ Cardinality({j} \cup {d}) = Cardinality({j}) + 1
          BY <5>1, <5>2, FS_AddElement
        <5>4. IsFiniteSet({d, j}) /\ Cardinality({d, j}) = Cardinality({j}) + 1
          BY <5>2, <5>3, Zenon
        <5>5. Cardinality({j}) + 1 = 2
          BY <5>1
        <5> QED
          BY <5>4, <5>5, Zenon
      <4>2. Cardinality({d, j}) <= Cardinality(inferred)
        BY <3>1, <3>2, FS_Subset
      <4>3. Cardinality(inferred) \in Nat
        BY <3>1, FS_CardinalityType
      <4> QED
        BY <3>1, <4>1, <4>2, <4>3
    <3> QED
      BY <1>1, <3>2, <3>3
  <2>2. k # 0 /\ Numel(self) % k = 0
    BY <1>4, <1>6 DEF ViewFits
  <2>3. PICK m \in Nat : m = Numel(self) \div k /\ m * k = Numel(self) /\ m <= Numel(self)
    <3>1. PICK q \in Nat : \E r \in 0..(k - 1) : Numel(self) = k * q + r /\ r = Numel(self) % k
      BY <1>2, <2>2, Divided
    <3>2. Numel(self) = k * q + 0
      BY <2>2, <3>1
    <3>3. EndsIn(Numel(self), q, k, 0)
      <4>1. k * q = q * k /\ k * q \in Nat
        OBVIOUS
      <4> QED
        BY <2>2, <3>2, <4>1 DEF EndsIn
    <3>4. Numel(self) \div k = q
      BY <3>3, Digits
    <3>5. q <= k * q
      BY <2>2
    <3>6. q * k = k * q
      OBVIOUS
    <3>7. k * q + 0 = k * q
      OBVIOUS
    <3>8. q * k = Numel(self) /\ q <= Numel(self)
      BY <3>2, <3>5, <3>6, <3>7, Zenon
    <3> QED
      BY <3>4, <3>8, Zenon
  <2>4. own = [i \in DOMAIN size |-> IF size[i] = -1 THEN m ELSE size[i]]
    BY <1>4, <2>3, Zenon DEF infer_view_size
  <2>5. own \in Seq(Nat) /\ Len(own) = n /\ own[j] = m /\ \A d \in 1..n : d # j => own[d] = size[d]
    <3>1. own \in [1..n -> Nat]
      BY <1>1, <2>4
    <3> QED
      BY <1>1, <2>1, <2>4, <3>1
  <2> HIDE DEF own
  <2>6. ASSUME NEW shape \in Seq(Nat), Len(shape) = n, \A d \in 1..n : d # j => shape[d] = size[d]
        PROVE  NumelOf(shape) = shape[j] * k
    <3> DEFINE rest == [i \in DOMAIN shape |-> IF i = j THEN 1 ELSE shape[i]]
    <3>1. DOMAIN shape = DOMAIN size /\ j \in DOMAIN shape
      BY <1>1, <2>6
    <3>2. ASSUME NEW i \in DOMAIN size
          PROVE  (IF size[i] = -1 THEN 1 ELSE size[i]) = (IF i = j THEN 1 ELSE shape[i])
      BY <1>1, <2>1, <2>6
    <3>3. known = rest
      BY <3>1, <3>2, Zenon
    <3> HIDE DEF rest, known
    <3>4. NumelOf(shape) = shape[j] * NumelOf(rest)
      BY <3>1, OneFactor DEF rest
    <3> QED
      BY <1>3, <1>4, <3>3, <3>4, Zenon
  <2>7. NumelOf(own) = Numel(self)
    BY <2>3, <2>5, <2>6
  <2>8. SizesAsked(own, size, Numel(self))
    BY <1>1, <2>1, <2>5, <2>7 DEF SizesAsked
  <2>9. ASSUME NEW shape, SizesAsked(shape, size, Numel(self)) PROVE shape = own
    <3>1. shape \in Seq(Nat) /\ Len(shape) = n /\ \A d \in 1..n : d # j => shape[d] = size[d]
      BY <1>1, <2>1, <2>9 DEF SizesAsked
    <3>2. shape[j] * k = m * k /\ shape[j] \in Nat
      <4>1. NumelOf(shape) = shape[j] * k
        BY <2>6, <3>1
      <4>2. NumelOf(shape) = Numel(self)
        BY <2>9 DEF SizesAsked
      <4>3. shape[j] \in Nat
        BY <3>1
      <4> QED
        BY <2>3, <4>1, <4>2, <4>3, Zenon
    <3>3. shape[j] = m
      BY <2>2, <3>2, FactorIsOne
    <3>4. \A d \in 1..n : shape[d] = own[d]
      BY <2>5, <3>1, <3>3
    <3> QED
      BY <2>5, <3>1, <3>4, SameSizes
  <2>10. \A d \in 1..n : own[d] \in 0..Numel(self) \/ own[d] = size[d]
    BY <1>2, <2>3, <2>5
  <2> QED
    BY <1>1, <2>8, <2>9, <2>10, Zenon DEF own
<1> QED
  BY <1>5, <1>6

\* So it is the shape that the reference derives.
LEMMA ViewShapeIs ==
  ASSUME NEW c, WellFormed(c), c.op = "view", ViewFits(c.in[1], c.arg.size)
  PROVE  ViewShape(c) = infer_view_size(c.in[1], c.arg.size)
<1> DEFINE size == c.arg.size
           sizes == ({size[d] : d \in DOMAIN size} \ {-1}) \cup 0..CountOf(c, 1)
           own == infer_view_size(c.in[1], size)
           Right(shape) == /\ \A d \in DOMAIN size : size[d] # -1 => shape[d] = size[d]
                           /\ Cardinality(Indices(shape)) = CountOf(c, 1)
<1>1. c.in[1] \in Tensors /\ c.in[1].shape \in Seq(Nat) /\ size \in Seq(Int)
  <2>1. c.in[1] \in Tensors
    BY InputNames
  <2> QED
    BY <2>1 DEF Tensors, WellFormed
<1>2. CountOf(c, 1) = Numel(c.in[1])
  BY <1>1, AsManyIndices DEF CountOf, AllOf, ShapeOf, Numel
<1>3. \A d \in DOMAIN size : size[d] >= -1
  BY DEF ViewFits
<1>4. SizesAsked(own, size, Numel(c.in[1])) /\ \A shape : SizesAsked(shape, size, Numel(c.in[1])) => shape = own
      /\ \A d \in DOMAIN size : own[d] \in 0..Numel(c.in[1]) \/ own[d] = size[d]
  BY <1>1, InferredIsAsked
<1> HIDE DEF own
<1>5. own \in [DOMAIN size -> sizes] /\ Right(own)
  <2>1. own \in Seq(Nat) /\ DOMAIN own = DOMAIN size
    BY <1>1, <1>4 DEF SizesAsked
  <2>2. ASSUME NEW d \in DOMAIN size PROVE own[d] \in sizes
    BY <1>2, <1>4, <2>1, <2>2
  <2>3. Cardinality(Indices(own)) = Numel(c.in[1])
    BY <1>4, <2>1, AsManyIndices DEF SizesAsked
  <2> QED
    BY <1>2, <1>4, <2>1, <2>2, <2>3 DEF SizesAsked
<1>6. ASSUME NEW shape \in [DOMAIN size -> sizes], Right(shape) PROVE shape = own
  <2>1. \A x \in sizes : x \in Nat
    BY <1>1, <1>2, <1>3, NumelIsNat DEF Numel
  <2>2. shape \in Seq(Nat) /\ Len(shape) = Len(size)
    <3>1. DOMAIN size = 1..Len(size) /\ Len(size) \in Nat
      BY <1>1
    <3>2. \A d \in DOMAIN size : shape[d] \in Nat
      BY <1>6, <2>1, Zenon
    <3>3. shape = [d \in DOMAIN size |-> shape[d]]
      BY <1>6, Zenon
    <3>4. shape \in [1..Len(size) -> Nat]
      BY <3>1, <3>2, <3>3
    <3> QED
      BY <3>1, <3>4, SizesFrom
  <2>3. NumelOf(shape) = Numel(c.in[1])
    BY <1>2, <1>6, <2>2, AsManyIndices
  <2> QED
    BY <1>4, <1>6, <2>2, <2>3 DEF SizesAsked
<1>7. ViewShape(c) = CHOOSE shape \in [DOMAIN size -> sizes] : Right(shape)
  BY DEF ViewShape
<1> HIDE DEF Right, sizes
<1> QED
  BY <1>5, <1>6, <1>7, Zenon DEF own

-----------------------------------------------------------------------------
\* What view decides and what it promises.
ViewTensor(c) ==
  LET shape == infer_view_size(c.in[1], c.arg.size)
  IN [name |-> c.in[1].name, shape |-> shape, strides |-> contiguous_strides(shape)]

\* What view decides when it accepts.
LEMMA ViewPlan ==
  ASSUME NEW c, c.op = "view", PlanOf(c).kind = "launching"
  PROVE  /\ ViewFits(c.in[1], c.arg.size) /\ PlanOf(c).view = <<ViewTensor(c)>>
         /\ PlanOf(c).copy = <<>> /\ PlanOf(c).fresh = <<>>
<1>1. PlanOf(c) = view(c.in[1], c.arg.size)
  BY DEF PlanOf, MiniGpuOps, aten_impl
<1> DEFINE p == [Plan(<<>>, <<>>) EXCEPT !.view = <<ViewTensor(c)>>]
<1>2. view(c.in[1], c.arg.size) = Check(c.in[1].contiguous /\ ViewFits(c.in[1], c.arg.size), p)
  BY DEF view, ViewTensor
<1>3. p.view = <<ViewTensor(c)>> /\ p.copy = <<>> /\ p.fresh = <<>>
  BY DEF Plan
<1> HIDE DEF p
<1>4. Refused.kind # "launching"
  BY DEF Refused
<1>5. c.in[1].contiguous /\ ViewFits(c.in[1], c.arg.size)
  BY <1>1, <1>2, <1>4, Zenon DEF Check
<1> QED
  BY <1>1, <1>2, <1>3, <1>5, Zenon DEF Check

\* What the reference asks of a view: its argument's elements in order.
LEMMA ViewReference ==
  ASSUME NEW c, WellFormed(c), c.op = "view", PlanOf(c).kind = "launching"
  PROVE  Reference(c) = [in1 |-> [shape |-> ViewTensor(c).shape, flat |-> Before(c, 1)]]
<1> DEFINE shape == ViewShape(c)
           f == [ix \in Indices(shape) |-> InputAt(c, 1, Position(ix, shape))]
<1>1. Reference(c) = [in1 |-> ResultOf(shape, f)]
  BY DEF Reference, InPlace, Result
<1>2. ViewFits(c.in[1], c.arg.size)
  BY ViewPlan
<1>3. shape = ViewTensor(c).shape
  BY <1>2, ViewShapeIs DEF ViewTensor
<1>4. shape \in Seq(Nat) /\ NumelOf(shape) = Numel(c.in[1])
  <2>1. c.in[1] \in Tensors
    BY InputNames
  <2>2. c.in[1].shape \in Seq(Nat) /\ c.arg.size \in Seq(Int)
    BY <2>1 DEF Tensors, WellFormed
  <2> QED
    BY <1>2, <2>2, ViewShapeIs, InferredIsAsked DEF SizesAsked
<1> HIDE DEF shape
<1>5. ASSUME NEW q \in Upto(NumelOf(shape)) PROVE f[IndexAt(shape, q)] = InputAt(c, 1, q)
  BY <1>4, IndexAtIs
<1> HIDE DEF f
<1>6. ResultOf(shape, f) = [shape |-> shape, flat |-> [q \in Upto(NumelOf(shape)) |-> f[IndexAt(shape, q)]]]
  BY <1>4, ResultIs
<1>7. [q \in Upto(NumelOf(shape)) |-> f[IndexAt(shape, q)]] = Before(c, 1)
  BY <1>4, <1>5 DEF Before, Elements
<1> QED
  BY <1>1, <1>3, <1>6, <1>7, Zenon

\* The view of a call that returned has the shape asked for, and its strides lead
\* every index to the argument's element; the argument is as it was.
LEMMA ViewMatches ==
  ASSUME Inv, OnlyResultsChange, CallList[call].op = "view"
  PROVE  ResultMatches
<1> DEFINE c == CallList[call]
<1> SUFFICES ASSUME stage = "returned", mem # <<>>, NEW name \in DOMAIN Reference(c)
             PROVE  /\ mem[name] = Reference(c)[name].flat
                    /\ name \in DOMAIN Shapes => Shapes[name] = Reference(c)[name].shape
                    /\ \A i \in DOMAIN plan.view : StridesFit(plan.view[i])
  BY DEF ResultMatches
<1>1. stage \in Underway
  BY DEF Underway
<1>2. WellFormed(c) /\ plan = PlanOf(c) /\ plan.kind = "launching"
  BY <1>1, CallIs DEF Inv
<1>3. 1 \in DOMAIN c.in /\ c.in[1].name = "in1" /\ c.in[1] \in Tensors
  BY <1>2, InputNames
<1> DEFINE v == ViewTensor(c)
<1>4. plan.view = <<v>> /\ plan.copy = <<>> /\ plan.fresh = <<>> /\ ViewFits(c.in[1], c.arg.size)
  BY <1>2, ViewPlan
<1>5. Reference(c) = [in1 |-> [shape |-> v.shape, flat |-> Before(c, 1)]] /\ name = "in1"
  <2>1. Reference(c) = [in1 |-> [shape |-> v.shape, flat |-> Before(c, 1)]]
    BY <1>2, ViewReference
  <2> QED
    BY <2>1
<1>6. mem["in1"] = Before(c, 1)
  BY <1>3, <1>4 DEF OnlyResultsChange
<1>7. StridesFit(v)
  <2>1. c.in[1].shape \in Seq(Nat) /\ c.arg.size \in Seq(Int)
    BY <1>2, <1>3 DEF Tensors, WellFormed
  <2>2. v.shape \in Seq(Nat) /\ v.strides = contiguous_strides(v.shape)
    BY <1>4, <2>1, InferredIsAsked DEF ViewTensor, SizesAsked
  <2> HIDE DEF v
  <2> QED
    BY <2>2, StridesLead
<1>8. Shapes["in1"] = v.shape
  <2> DEFINE made == plan.fresh \o plan.view
  <2>1. made = <<v>>
    BY <1>4
  <2>2. v.name = "in1"
    BY <1>3 DEF ViewTensor
  <2>3. Shapes = [n \in Names(made) |-> made[Nth(made, n)].shape]
    BY DEF Shapes
  <2> HIDE DEF made, v
  <2>4. DOMAIN made = {1} /\ made[1] = v
    BY <2>1
  <2>5. "in1" \in Names(made)
    BY <2>2, <2>4 DEF Names
  <2>6. Nth(made, "in1") = 1
    BY <2>2, <2>4 DEF Nth
  <2> QED
    BY <2>3, <2>4, <2>5, <2>6
<1>9. \A i \in DOMAIN plan.view : StridesFit(plan.view[i])
  BY <1>4, <1>7
<1> HIDE DEF c, v
<1> QED
  BY <1>5, <1>6, <1>8, <1>9

-----------------------------------------------------------------------------
\* The convolutions and their gradients.  p holds the sizes a launch is made with.
Convs == {"convolution", "convolution_grad"}

\* One dimension: the weight is tensor w of the call, no window overhangs.
LineFits(c, w, p) ==
  /\ c.op \in Convs /\ c.in[1] \in Tensors /\ c.in[w] \in Tensors
  /\ ShapeOf(c, 1) = <<p.b, p.ic, p.iw>> /\ ShapeOf(c, w) = <<p.oc, p.ic, p.kw>>
  /\ DOMAIN c.arg.stride = {1} /\ c.arg.stride[1] = p.sw
  /\ p.b \in Nat /\ p.ic \in Nat /\ p.iw \in Nat /\ p.oc \in Nat /\ p.kw \in Nat /\ p.ow \in Nat /\ p.sw \in Nat
  /\ \A o \in Upto(p.ow) : \A k \in Upto(p.kw) : o * p.sw + k \in Upto(p.iw)

\* The element of the input and of the weight that are multiplied for output
\* element <<n, oc, ow>>.
LineFactors(sw, n, oc, ow, ic, k) == <<<<n, ic, ow * sw + k>>, <<oc, ic, k>>>>

\* Two numbers and a third.
LEMMA ThreeJoined == ASSUME NEW i, NEW j, NEW k PROVE <<i, j>> \o <<k>> = <<i, j, k>>
<1> DEFINE u == <<i, j>> \o <<k>>
<1>1. u \in Seq({i, j, k}) /\ Len(u) = 3
  <2>1. <<i, j>> \in Seq({i, j, k}) /\ <<k>> \in Seq({i, j, k})
    OBVIOUS
  <2> QED
    BY <2>1
<1>2. u[1] = i /\ u[2] = j /\ u[3] = k
  OBVIOUS
<1> HIDE DEF u
<1>3. u = <<i, j, k>>
  BY <1>1, <1>2
<1> QED
  BY <1>3 DEF u

\* A sequence's only index is the tuple of one.
LEMMA IndicesOfOne ==
  ASSUME NEW n \in Nat
  PROVE  Indices(<<n>>) = {<<k>> : k \in Upto(n)}
<1> DEFINE s == <<n>>
<1>1. s \in Seq(Nat) /\ Len(s) = 1 /\ s[1] = n
  OBVIOUS
<1> HIDE DEF s
<1>2. \A k \in Upto(n) : <<k>> \in Indices(s)
  BY <1>1, IndexOfOne, Zenon
<1>3. ASSUME NEW ix \in Indices(s) PROVE \E k \in Upto(n) : ix = <<k>>
  <2>1. ix = [i \in 1..1 |-> ix[i]] /\ ix[1] \in Nat /\ ix[1] < n
    BY <1>1, IndexIs
  <2>2. ix = <<ix[1]>> /\ ix[1] \in Upto(n)
    BY <2>1 DEF Upto
  <2> QED
    BY <2>2
<1> QED
  BY <1>2, <1>3 DEF s

\* The products a convolution of one dimension is asked to sum.
LEMMA LineProducts ==
  ASSUME NEW c, NEW w, NEW p, LineFits(c, w, p), NEW n, NEW oc, NEW ow
  PROVE  Products(c, ShapeOf(c, 1), ShapeOf(c, w), <<n, oc, ow>>)
           = {LineFactors(p.sw, n, oc, ow, r[1], r[2]) : r \in Upto(p.ic) \X Upto(p.kw)}
<1> DEFINE o  == <<n, oc, ow>>
           sb == ShapeOf(c, w)
           stride == c.arg.stride
           F(r) == << <<o[1], r[1]>> \o [d \in DOMAIN stride |-> o[d + 2] * stride[d] + r[2][d]],
                      <<o[2], r[1]>> \o r[2] >>
           R == Upto(sb[2]) \X Indices(SubSeq(sb, 3, Len(sb)))
<1>1. Products(c, ShapeOf(c, 1), sb, o) = {F(r) : r \in R}
  <2>1. c.op \in {"convolution", "convolution_grad"}
    BY DEF LineFits, Convs
  <2> HIDE DEF o, sb
  <2> QED
    BY <2>1 DEF Products
<1>2. sb[2] = p.ic /\ SubSeq(sb, 3, Len(sb)) = <<p.kw>> /\ p.kw \in Nat
  <2>1. sb = <<p.oc, p.ic, p.kw>> /\ p.oc \in Nat /\ p.ic \in Nat /\ p.kw \in Nat
    BY DEF LineFits
  <2> HIDE DEF sb
  <2>2. sb \in Seq(Nat) /\ Len(sb) = 3 /\ sb[3] = p.kw /\ sb[2] = p.ic
    BY <2>1
  <2> DEFINE t == SubSeq(sb, 3, 3)
  <2>3. t = [i \in 1..1 |-> sb[i + 2]]
    BY <2>2
  <2> HIDE DEF t
  <2>4. t = <<p.kw>>
    BY <2>2, <2>3
  <2> QED
    BY <2>1, <2>2, <2>4 DEF t
<1>3. R = Upto(p.ic) \X {<<k>> : k \in Upto(p.kw)}
  BY <1>2, IndicesOfOne
<1>4. \A i, k : F(<<i, <<k>>>>) = LineFactors(p.sw, n, oc, ow, i, k)
  <2> SUFFICES ASSUME NEW i, NEW k PROVE F(<<i, <<k>>>>) = LineFactors(p.sw, n, oc, ow, i, k)
    OBVIOUS
  <2> DEFINE r == <<i, <<k>>>>
             g == [d \in DOMAIN stride |-> o[d + 2] * stride[d] + r[2][d]]
  <2>1. r[1] = i /\ r[2] = <<k>> /\ r[2][1] = k /\ o[1] = n /\ o[2] = oc /\ o[1 + 2] = ow
    OBVIOUS
  <2>2. DOMAIN stride = {1} /\ stride[1] = p.sw
    BY DEF LineFits
  <2> HIDE DEF r, o, stride
  <2>3. g = <<ow * p.sw + k>>
    <3>1. g = [d \in {1} |-> ow * p.sw + k]
      BY <2>1, <2>2
    <3>2. {1} = 1..1
      OBVIOUS
    <3> QED
      BY <3>1, <3>2
  <2> HIDE DEF g
  <2>4. F(r) = <<<<n, i>> \o g, <<oc, i>> \o <<k>>>>
    BY <2>1 DEF g
  <2>5. F(r) = LineFactors(p.sw, n, oc, ow, i, k)
    BY <2>3, <2>4, ThreeJoined, Zenon DEF LineFactors
  <2> QED
    BY <2>5 DEF r
<1> HIDE DEF F, R, o, sb
<1>5. {F(r) : r \in R} = {LineFactors(p.sw, n, oc, ow, r[1], r[2]) : r \in Upto(p.ic) \X Upto(p.kw)}
  <2>1. ASSUME NEW r \in R
        PROVE  \E j \in Upto(p.ic) \X Upto(p.kw) : F(r) = LineFactors(p.sw, n, oc, ow, j[1], j[2])
    <3>1. PICK i \in Upto(p.ic), k \in Upto(p.kw) : r = <<i, <<k>>>>
      BY <1>3
    <3>2. <<i, k>> \in Upto(p.ic) \X Upto(p.kw) /\ <<i, k>>[1] = i /\ <<i, k>>[2] = k
      OBVIOUS
    <3> QED
      BY <1>4, <3>1, <3>2
  <2>2. ASSUME NEW j \in Upto(p.ic) \X Upto(p.kw)
        PROVE  \E r \in R : F(r) = LineFactors(p.sw, n, oc, ow, j[1], j[2])
    <3>1. <<j[1], <<j[2]>>>> \in R
      BY <1>3
    <3> QED
      BY <1>4, <3>1
  <2> QED
    BY <2>1, <2>2
<1> QED
  BY <1>1, <1>5 DEF o, sb

\* What is read at a place of a tensor of three dimensions.
LEMMA ReadLine ==
  ASSUME NEW c, NEW k, c.in[k] \in Tensors, NEW B \in Nat, NEW C \in Nat, NEW W \in Nat,
         ShapeOf(c, k) = <<B, C, W>>, NEW i \in Upto(B), NEW j \in Upto(C), NEW x \in Upto(W)
  PROVE  /\ <<i, j, x>> \in Indices(ShapeOf(c, k))
         /\ At(Before(c, k), LinePlace(i, j, x, C, W)) = X(c, k, <<i, j, x>>)
<1> DEFINE s == ShapeOf(c, k)
<1>1. s \in Seq(Nat) /\ Len(s) = 3 /\ s[1] = B /\ s[2] = C /\ s[3] = W
  OBVIOUS
<1> HIDE DEF s
<1>2. <<i, j, x>> \in Indices(s) /\ Position(<<i, j, x>>, s) = (i * C + j) * W + x
  BY <1>1, IndexOfThree
<1>3. i \in Nat /\ j \in Nat /\ x \in Nat
  BY DEF Upto
<1>4. LinePlace(i, j, x, C, W) = (i * C + j) * W + x
  BY <1>3, LineOffsets
<1>5. At(Before(c, k), Position(<<i, j, x>>, s)) = X(c, k, <<i, j, x>>)
  BY <1>2, ReadsIndex DEF s
<1> QED
  BY <1>2, <1>4, <1>5 DEF s

\* Equal triples have equal parts.
LEMMA TripleParts ==
  ASSUME NEW i, NEW j, NEW k, NEW u, NEW v, NEW w, <<i, j, k>> = <<u, v, w>>
  PROVE  i = u /\ j = v /\ k = w
<1>1. <<i, j, k>>[1] = <<u, v, w>>[1] /\ <<i, j, k>>[2] = <<u, v, w>>[2] /\ <<i, j, k>>[3] = <<u, v, w>>[3]
  OBVIOUS
<1> QED
  BY <1>1

\* Ranges are finite.
LEMMA UptoFinite == ASSUME NEW n \in Nat PROVE IsFiniteSet(Upto(n))
<1>1. 0 \in Int /\ n - 1 \in Int
  OBVIOUS
<1> QED
  BY <1>1, FS_Interval, Zenon DEF Upto

\* An output element of a convolution in one dimension.
LEMMA LineElement ==
  ASSUME NEW c, NEW p, LineFits(c, 2, p),
         NEW n \in Upto(p.b), NEW oc \in Upto(p.oc), NEW ow \in Upto(p.ow)
  PROVE  conv1d_element(Before(c, 1), Before(c, 2), n, oc, ow, p) = Bilinear(c, 1, 2, <<n, oc, ow>>)
<1> DEFINE S == Upto(p.ic) \X Upto(p.kw)
           T == Products(c, ShapeOf(c, 1), ShapeOf(c, 2), <<n, oc, ow>>)
           h == [r \in S |-> LineFactors(p.sw, n, oc, ow, r[1], r[2])]
           f == [r \in S |-> Times(At(Before(c, 1), LinePlace(n, r[1], ow * p.sw + r[2], p.ic, p.iw)),
                                   At(Before(c, 2), LinePlace(oc, r[1], r[2], p.ic, p.kw)))]
           g == [q \in T |-> Times(X(c, 1, q[1]), X(c, 2, q[2]))]
<1>1. conv1d_element(Before(c, 1), Before(c, 2), n, oc, ow, p) = <<"sum", BagOf(f)>>
  BY Zenon DEF conv1d_element, SumOf, LinePlace
<1>2. Bilinear(c, 1, 2, <<n, oc, ow>>) = <<"sum", BagOf(g)>>
  BY Zenon DEF Bilinear, SumOf
<1>3. T = {h[r] : r \in S}
  <2>1. T = {LineFactors(p.sw, n, oc, ow, r[1], r[2]) : r \in S}
    BY LineProducts
  <2> QED
    BY <2>1
<1>4. ASSUME NEW r \in S
      PROVE  /\ r = <<r[1], r[2]>> /\ h[r] \in T /\ h[r][2] = <<oc, r[1], r[2]>>
             /\ f[r] = Times(X(c, 1, h[r][1]), X(c, 2, h[r][2]))
  <2>1. r = <<r[1], r[2]>> /\ r[1] \in Upto(p.ic) /\ r[2] \in Upto(p.kw)
    OBVIOUS
  <2>2. h[r] = <<<<n, r[1], ow * p.sw + r[2]>>, <<oc, r[1], r[2]>>>>
    BY DEF LineFactors
  <2>3. At(Before(c, 1), LinePlace(n, r[1], ow * p.sw + r[2], p.ic, p.iw)) = X(c, 1, <<n, r[1], ow * p.sw + r[2]>>)
    <3>1. PICK x : x = ow * p.sw + r[2]
      OBVIOUS
    <3>2. x \in Upto(p.iw) /\ c.in[1] \in Tensors /\ ShapeOf(c, 1) = <<p.b, p.ic, p.iw>>
          /\ p.b \in Nat /\ p.ic \in Nat /\ p.iw \in Nat
      BY <2>1, <3>1 DEF LineFits
    <3>3. At(Before(c, 1), LinePlace(n, r[1], x, p.ic, p.iw)) = X(c, 1, <<n, r[1], x>>)
      BY <2>1, <3>2, ReadLine
    <3> QED
      BY <3>1, <3>3
  <2>4. At(Before(c, 2), LinePlace(oc, r[1], r[2], p.ic, p.kw)) = X(c, 2, <<oc, r[1], r[2]>>)
    <3>1. c.in[2] \in Tensors /\ ShapeOf(c, 2) = <<p.oc, p.ic, p.kw>>
          /\ p.oc \in Nat /\ p.ic \in Nat /\ p.kw \in Nat
      BY DEF LineFits
    <3> QED
      BY <2>1, <3>1, ReadLine
  <2>5. f[r] = Times(At(Before(c, 1), LinePlace(n, r[1], ow * p.sw + r[2], p.ic, p.iw)),
                     At(Before(c, 2), LinePlace(oc, r[1], r[2], p.ic, p.kw)))
    BY Zenon
  <2>6. h[r] \in T
    BY <1>3
  <2> HIDE DEF h, f, T
  <2> QED
    BY <2>1, <2>2, <2>3, <2>4, <2>5, <2>6
<1>5. \A r \in S : f[r] = g[h[r]]
  <2> HIDE DEF h, f, T, S
  <2> QED
    BY <1>4
<1>6. h \in Bijection(S, T)
  <2>1. h = [r \in S |-> h[r]]
    OBVIOUS
  <2> HIDE DEF h, T
  <2>2. h \in [S -> T]
    BY <1>4, <2>1
  <2>3. ASSUME NEW r \in S, NEW t \in S, h[r] = h[t] PROVE r = t
    <3>1. <<oc, r[1], r[2]>> = <<oc, t[1], t[2]>>
      BY <1>4, <2>3
    <3> HIDE DEF S
    <3>2. r[1] = t[1] /\ r[2] = t[2]
      BY <3>1, TripleParts
    <3> QED
      BY <1>4, <3>2
  <2> QED
    BY <1>3, <2>2, <2>3 DEF Bijection, Injection, Surjection, IsInjective
<1>7. IsFiniteSet(S)
  BY UptoFinite, FS_Product DEF LineFits
<1>8. DOMAIN f = S /\ DOMAIN g = T
  OBVIOUS
<1> HIDE DEF f, g, h, S, T
<1>9. BagOf(f) = BagOf(g)
  BY <1>5, <1>6, <1>7, <1>8, SameBag
<1> QED
  BY <1>1, <1>2, <1>9

-----------------------------------------------------------------------------
\* Two dimensions.
PlaneFits(c, w, p) ==
  /\ c.op \in Convs /\ c.in[1] \in Tensors /\ c.in[w] \in Tensors
  /\ ShapeOf(c, 1) = <<p.b, p.ic, p.ih, p.iw>> /\ ShapeOf(c, w) = <<p.oc, p.ic, p.kh, p.kw>>
  /\ DOMAIN c.arg.stride = {1, 2} /\ c.arg.stride[1] = p.sh /\ c.arg.stride[2] = p.sw
  /\ p.b \in Nat /\ p.ic \in Nat /\ p.ih \in Nat /\ p.iw \in Nat /\ p.oc \in Nat /\ p.kh \in Nat /\ p.kw \in Nat
  /\ p.oh \in Nat /\ p.ow \in Nat /\ p.sh \in Nat /\ p.sw \in Nat
  /\ \A o \in Upto(p.oh) : \A k \in Upto(p.kh) : o * p.sh + k \in Upto(p.ih)
  /\ \A o \in Upto(p.ow) : \A k \in Upto(p.kw) : o * p.sw + k \in Upto(p.iw)

PlaneFactors(sh, sw, n, oc, oy, ox, ic, ky, kx) ==
  <<<<n, ic, oy * sh + ky, ox * sw + kx>>, <<oc, ic, ky, kx>>>>

\* The indices of a matrix are the pairs of a row and a column.
LEMMA IndicesOfTwo ==
  ASSUME NEW m \in Nat, NEW n \in Nat
  PROVE  /\ \A j \in Upto(m), k \in Upto(n) : <<j, k>> \in Indices(<<m, n>>)
         /\ \A ix \in Indices(<<m, n>>) : \E j \in Upto(m), k \in Upto(n) : ix = <<j, k>>
<1> DEFINE s == <<m, n>>
<1>1. s \in Seq(Nat) /\ Len(s) = 2 /\ s[1] = m /\ s[2] = n
  OBVIOUS
<1> HIDE DEF s
<1>2. \A j \in Upto(m), k \in Upto(n) : <<j, k>> \in Indices(s)
  BY <1>1, IndexOfTwo, Zenon
<1>3. ASSUME NEW ix \in Indices(s) PROVE \E j \in Upto(m), k \in Upto(n) : ix = <<j, k>>
  <2>1. ix = [i \in 1..2 |-> ix[i]] /\ ix[1] \in Nat /\ ix[1] < m /\ ix[2] \in Nat /\ ix[2] < n
    BY <1>1, IndexIs
  <2>2. ix = <<ix[1], ix[2]>> /\ ix[1] \in Upto(m) /\ ix[2] \in Upto(n)
    BY <2>1 DEF Upto
  <2> QED
    BY <2>2
<1> QED
  BY <1>2, <1>3 DEF s

\* The products a convolution of two dimensions is asked to sum.
LEMMA PlaneProducts ==
  ASSUME NEW c, NEW w, NEW p, PlaneFits(c, w, p), NEW n, NEW oc, NEW oy, NEW ox
  PROVE  Products(c, ShapeOf(c, 1), ShapeOf(c, w), <<n, oc, oy, ox>>)
           = {PlaneFactors(p.sh, p.sw, n, oc, oy, ox, r[1], r[2], r[3]) :
                r \in Upto(p.ic) \X Upto(p.kh) \X Upto(p.kw)}
<1> DEFINE o  == <<n, oc, oy, ox>>
           sb == ShapeOf(c, w)
           stride == c.arg.stride
           F(r) == << <<o[1], r[1]>> \o [d \in DOMAIN stride |-> o[d + 2] * stride[d] + r[2][d]],
                      <<o[2], r[1]>> \o r[2] >>
           R == Upto(sb[2]) \X Indices(SubSeq(sb, 3, Len(sb)))
           G(r) == PlaneFactors(p.sh, p.sw, n, oc, oy, ox, r[1], r[2], r[3])
           J == Upto(p.ic) \X Upto(p.kh) \X Upto(p.kw)
<1>1. Products(c, ShapeOf(c, 1), sb, o) = {F(r) : r \in R}
  <2>1. c.op \in {"convolution", "convolution_grad"}
    BY DEF PlaneFits, Convs
  <2> HIDE DEF o, sb
  <2> QED
    BY <2>1 DEF Products
<1>2. sb[2] = p.ic /\ SubSeq(sb, 3, Len(sb)) = <<p.kh, p.kw>> /\ p.kh \in Nat /\ p.kw \in Nat
  <2>1. sb = <<p.oc, p.ic, p.kh, p.kw>> /\ p.oc \in Nat /\ p.ic \in Nat /\ p.kh \in Nat /\ p.kw \in Nat
    BY DEF PlaneFits
  <2> HIDE DEF sb
  <2>2. sb \in Seq(Nat) /\ Len(sb) = 4 /\ sb[3] = p.kh /\ sb[4] = p.kw /\ sb[2] = p.ic
    BY <2>1
  <2> DEFINE t == SubSeq(sb, 3, 4)
  <2>3. t = [i \in 1..2 |-> sb[i + 2]]
    BY <2>2
  <2> HIDE DEF t
  <2>4. t = <<p.kh, p.kw>>
    BY <2>2, <2>3
  <2> QED
    BY <2>1, <2>2, <2>4 DEF t
<1>3. R = Upto(p.ic) \X Indices(<<p.kh, p.kw>>)
  BY <1>2
<1>4. \A i, j, k : F(<<i, <<j, k>>>>) = PlaneFactors(p.sh, p.sw, n, oc, oy, ox, i, j, k)
  <2> SUFFICES ASSUME NEW i, NEW j, NEW k
               PROVE  F(<<i, <<j, k>>>>) = PlaneFactors(p.sh, p.sw, n, oc, oy, ox, i, j, k)
    OBVIOUS
  <2> DEFINE r == <<i, <<j, k>>>>
             g == [d \in DOMAIN stride |-> o[d + 2] * stride[d] + r[2][d]]
  <2>1. /\ r[1] = i /\ r[2] = <<j, k>> /\ r[2][1] = j /\ r[2][2] = k
        /\ o[1] = n /\ o[2] = oc /\ o[1 + 2] = oy /\ o[2 + 2] = ox
    OBVIOUS
  <2>2. DOMAIN stride = {1, 2} /\ stride[1] = p.sh /\ stride[2] = p.sw
    BY DEF PlaneFits
  <2> HIDE DEF r, o, stride
  <2>3. g = <<oy * p.sh + j, ox * p.sw + k>>
    <3> DEFINE y == oy * p.sh + j
               x == ox * p.sw + k
    <3>1. DOMAIN g = {1, 2} /\ g = [d \in DOMAIN g |-> g[d]]
      BY <2>2
    <3>2. g[1] = y /\ g[2] = x
      BY <2>1, <2>2
    <3> HIDE DEF g, y, x
    <3>3. {1, 2} = 1..2
      OBVIOUS
    <3>4. g = <<y, x>>
      BY <3>1, <3>2, <3>3
    <3> QED
      BY <3>4 DEF y, x
  <2> HIDE DEF g
  <2>4. F(r) = <<<<n, i>> \o g, <<oc, i>> \o <<j, k>>>>
    BY <2>1 DEF g
  <2>5. F(r) = PlaneFactors(p.sh, p.sw, n, oc, oy, ox, i, j, k)
    BY <2>3, <2>4, PairsJoined, Zenon DEF PlaneFactors
  <2> QED
    BY <2>5 DEF r
<1> HIDE DEF F, R, o, sb
<1>5. {F(r) : r \in R} = {G(r) : r \in J}
  <2>1. ASSUME NEW r \in R PROVE \E t \in J : F(r) = G(t)
    <3>1. r = <<r[1], r[2]>> /\ r[1] \in Upto(p.ic) /\ r[2] \in Indices(<<p.kh, p.kw>>)
      BY <1>3
    <3>2. PICK j \in Upto(p.kh), k \in Upto(p.kw) : r[2] = <<j, k>>
      BY <1>2, <3>1, IndicesOfTwo
    <3>3. PICK i \in Upto(p.ic) : r = <<i, <<j, k>>>>
      BY <3>1, <3>2
    <3> DEFINE t == <<i, j, k>>
    <3>4. t \in J /\ t[1] = i /\ t[2] = j /\ t[3] = k
      OBVIOUS
    <3> HIDE DEF t, J
    <3>5. F(r) = PlaneFactors(p.sh, p.sw, n, oc, oy, ox, t[1], t[2], t[3])
      BY <1>4, <3>3, <3>4
    <3> QED
      BY <3>4, <3>5
  <2>2. ASSUME NEW t \in J PROVE \E r \in R : F(r) = G(t)
    <3>1. t[1] \in Upto(p.ic) /\ t[2] \in Upto(p.kh) /\ t[3] \in Upto(p.kw)
      OBVIOUS
    <3> HIDE DEF J
    <3>2. <<t[2], t[3]>> \in Indices(<<p.kh, p.kw>>)
      BY <1>2, <3>1, IndicesOfTwo
    <3>3. <<t[1], <<t[2], t[3]>>>> \in R
      BY <1>3, <3>1, <3>2
    <3> QED
      BY <1>4, <3>3
  <2> HIDE DEF J, G
  <2> QED
    BY <2>1, <2>2
<1> QED
  BY <1>1, <1>5 DEF o, sb

\* What is read at a place of a tensor of four dimensions.
ReadsPlane(c, k, i, j, y, x, C, H, W) ==
  /\ <<i, j, y, x>> \in Indices(ShapeOf(c, k))
  /\ At(Before(c, k), PlanePlace(i, j, y, x, C, H, W)) = X(c, k, <<i, j, y, x>>)

\* The element of an argument of planes at an index.
LEMMA ReadPlane ==
  ASSUME NEW c, NEW k, c.in[k] \in Tensors, NEW B \in Nat, NEW C \in Nat, NEW H \in Nat, NEW W \in Nat,
         ShapeOf(c, k) = <<B, C, H, W>>,
         NEW i \in Upto(B), NEW j \in Upto(C), NEW y \in Upto(H), NEW x \in Upto(W)
  PROVE  ReadsPlane(c, k, i, j, y, x, C, H, W)
<1> DEFINE s == ShapeOf(c, k)
<1>1. s \in Seq(Nat) /\ Len(s) = 4 /\ s[1] = B /\ s[2] = C /\ s[3] = H /\ s[4] = W
  OBVIOUS
<1> HIDE DEF s
<1>2. <<i, j, y, x>> \in Indices(s) /\ Position(<<i, j, y, x>>, s) = ((i * C + j) * H + y) * W + x
  BY <1>1, IndexOfFour
<1>3. i \in Nat /\ j \in Nat /\ y \in Nat /\ x \in Nat
  BY DEF Upto
<1>4. PlanePlace(i, j, y, x, C, H, W) = ((i * C + j) * H + y) * W + x
  <2>1. PlaneSum(i, j, y, x, C, H, W)
    BY <1>3, PlaneOffsets
  <2> QED
    BY <2>1 DEF PlaneSum
<1>5. At(Before(c, k), Position(<<i, j, y, x>>, s)) = X(c, k, <<i, j, y, x>>)
  BY <1>2, ReadsIndex DEF s
<1> QED
  BY <1>2, <1>4, <1>5 DEF ReadsPlane, s

\* Equal quadruples have equal parts.
LEMMA FourParts ==
  ASSUME NEW i, NEW j, NEW k, NEW l, NEW u, NEW v, NEW w, NEW x, <<i, j, k, l>> = <<u, v, w, x>>
  PROVE  i = u /\ j = v /\ k = w /\ l = x
<1>1. /\ <<i, j, k, l>>[1] = <<u, v, w, x>>[1] /\ <<i, j, k, l>>[2] = <<u, v, w, x>>[2]
      /\ <<i, j, k, l>>[3] = <<u, v, w, x>>[3] /\ <<i, j, k, l>>[4] = <<u, v, w, x>>[4]
  OBVIOUS
<1> QED
  BY <1>1

\* The triples of finite sets are finite.
LEMMA TripleFinite ==
  ASSUME NEW R, NEW S, NEW T, IsFiniteSet(R), IsFiniteSet(S), IsFiniteSet(T)
  PROVE  IsFiniteSet(R \X S \X T)
<1> DEFINE A == (R \X S) \X T
           g == [q \in A |-> <<q[1][1], q[1][2], q[2]>>]
<1>1. IsFiniteSet(A)
  BY FS_Product
<1>2. R \X S \X T = {g[q] : q \in A}
  <2>1. \A t \in R \X S \X T : \E q \in A : t = g[q]
    <3> SUFFICES ASSUME NEW t \in R \X S \X T PROVE \E q \in A : t = g[q]
      OBVIOUS
    <3>1. t = <<t[1], t[2], t[3]>> /\ t[1] \in R /\ t[2] \in S /\ t[3] \in T
      OBVIOUS
    <3> DEFINE q == <<<<t[1], t[2]>>, t[3]>>
    <3>2. q \in A /\ q[1][1] = t[1] /\ q[1][2] = t[2] /\ q[2] = t[3]
      BY <3>1
    <3> HIDE DEF q
    <3>3. g[q] = <<t[1], t[2], t[3]>>
      BY <3>2
    <3> QED
      BY <3>1, <3>2, <3>3
  <2>2. \A q \in A : g[q] \in R \X S \X T
    OBVIOUS
  <2> HIDE DEF g, A
  <2> QED
    BY <2>1, <2>2
<1>3. IsFiniteSet({g[q] : q \in A})
  <2> DEFINE B == {g[q] : q \in A}
  <2>1. g \in [A -> B] /\ \A b \in B : \E q \in A : g[q] = b
    <3>1. g = [q \in A |-> g[q]]
      OBVIOUS
    <3> HIDE DEF g, A
    <3> QED
      BY <3>1
  <2> HIDE DEF g, A, B
  <2>2. g \in Surjection(A, B)
    BY <2>1 DEF Surjection
  <2>3. IsFiniteSet(B)
    BY <1>1, <2>2, FS_Surjection DEF ExistsSurjection
  <2> QED
    BY <2>3 DEF B
<1> QED
  BY <1>2, <1>3

\* An output element of a convolution in two dimensions.
LEMMA PlaneElement ==
  ASSUME NEW c, NEW p, PlaneFits(c, 2, p),
         NEW n \in Upto(p.b), NEW oc \in Upto(p.oc), NEW oy \in Upto(p.oh), NEW ox \in Upto(p.ow)
  PROVE  conv2d_element(Before(c, 1), Before(c, 2), n, oc, oy, ox, p) = Bilinear(c, 1, 2, <<n, oc, oy, ox>>)
<1> DEFINE S == Upto(p.ic) \X Upto(p.kh) \X Upto(p.kw)
           T == Products(c, ShapeOf(c, 1), ShapeOf(c, 2), <<n, oc, oy, ox>>)
           h == [r \in S |-> PlaneFactors(p.sh, p.sw, n, oc, oy, ox, r[1], r[2], r[3])]
           f == [r \in S |-> Times(At(Before(c, 1), PlanePlace(n, r[1], oy * p.sh + r[2], ox * p.sw + r[3],
                                                              p.ic, p.ih, p.iw)),
                                   At(Before(c, 2), PlanePlace(oc, r[1], r[2], r[3], p.ic, p.kh, p.kw)))]
           g == [q \in T |-> Times(X(c, 1, q[1]), X(c, 2, q[2]))]
<1>1. conv2d_element(Before(c, 1), Before(c, 2), n, oc, oy, ox, p) = <<"sum", BagOf(f)>>
  BY Zenon DEF conv2d_element, SumOf, PlanePlace
<1>2. Bilinear(c, 1, 2, <<n, oc, oy, ox>>) = <<"sum", BagOf(g)>>
  BY Zenon DEF Bilinear, SumOf
<1>3. T = {h[r] : r \in S}
  <2>1. T = {PlaneFactors(p.sh, p.sw, n, oc, oy, ox, r[1], r[2], r[3]) : r \in S}
    BY PlaneProducts
  <2> QED
    BY <2>1
<1>4. ASSUME NEW r \in S
      PROVE  /\ r = <<r[1], r[2], r[3]>> /\ h[r] \in T /\ h[r][2] = <<oc, r[1], r[2], r[3]>>
             /\ f[r] = Times(X(c, 1, h[r][1]), X(c, 2, h[r][2]))
  <2>1. r = <<r[1], r[2], r[3]>> /\ r[1] \in Upto(p.ic) /\ r[2] \in Upto(p.kh) /\ r[3] \in Upto(p.kw)
    OBVIOUS
  <2> DEFINE y == oy * p.sh + r[2]
             x == ox * p.sw + r[3]
  <2>2. h[r] = <<<<n, r[1], y, x>>, <<oc, r[1], r[2], r[3]>>>>
    BY DEF PlaneFactors
  <2>3. At(Before(c, 1), PlanePlace(n, r[1], y, x, p.ic, p.ih, p.iw)) = X(c, 1, <<n, r[1], y, x>>)
    <3>1. y \in Upto(p.ih) /\ x \in Upto(p.iw) /\ c.in[1] \in Tensors /\ ShapeOf(c, 1) = <<p.b, p.ic, p.ih, p.iw>>
          /\ p.b \in Nat /\ p.ic \in Nat /\ p.ih \in Nat /\ p.iw \in Nat
      BY <2>1 DEF PlaneFits
    <3> HIDE DEF y, x, S
    <3>2. ReadsPlane(c, 1, n, r[1], y, x, p.ic, p.ih, p.iw)
      BY <2>1, <3>1, ReadPlane
    <3> QED
      BY <3>2 DEF ReadsPlane
  <2>4. At(Before(c, 2), PlanePlace(oc, r[1], r[2], r[3], p.ic, p.kh, p.kw)) = X(c, 2, <<oc, r[1], r[2], r[3]>>)
    <3>1. c.in[2] \in Tensors /\ ShapeOf(c, 2) = <<p.oc, p.ic, p.kh, p.kw>>
          /\ p.oc \in Nat /\ p.ic \in Nat /\ p.kh \in Nat /\ p.kw \in Nat
      BY DEF PlaneFits
    <3> HIDE DEF S
    <3>2. ReadsPlane(c, 2, oc, r[1], r[2], r[3], p.ic, p.kh, p.kw)
      BY <2>1, <3>1, ReadPlane
    <3> QED
      BY <3>2 DEF ReadsPlane
  <2>5. f[r] = Times(At(Before(c, 1), PlanePlace(n, r[1], y, x, p.ic, p.ih, p.iw)),
                     At(Before(c, 2), PlanePlace(oc, r[1], r[2], r[3], p.ic, p.kh, p.kw)))
    BY Zenon
  <2>6. h[r] \in T
    BY <1>3
  <2> HIDE DEF h, f, T, y, x
  <2> QED
    BY <2>1, <2>2, <2>3, <2>4, <2>5, <2>6
<1>5. \A r \in S : f[r] = g[h[r]]
  <2> HIDE DEF h, f, T, S
  <2> QED
    BY <1>4
<1>6. h \in Bijection(S, T)
  <2>1. h = [r \in S |-> h[r]]
    OBVIOUS
  <2> HIDE DEF h, T
  <2>2. h \in [S -> T]
    BY <1>4, <2>1
  <2>3. ASSUME NEW r \in S, NEW t \in S, h[r] = h[t] PROVE r = t
    <3>1. <<oc, r[1], r[2], r[3]>> = <<oc, t[1], t[2], t[3]>>
      BY <1>4, <2>3
    <3> HIDE DEF S
    <3>2. r[1] = t[1] /\ r[2] = t[2] /\ r[3] = t[3]
      BY <3>1, FourParts
    <3> QED
      BY <1>4, <3>2
  <2> QED
    BY <1>3, <2>2, <2>3 DEF Bijection, Injection, Surjection, IsInjective
<1>7. IsFiniteSet(S)
  <2>1. IsFiniteSet(Upto(p.ic)) /\ IsFiniteSet(Upto(p.kh)) /\ IsFiniteSet(Upto(p.kw))
    BY UptoFinite DEF PlaneFits
  <2> QED
    BY <2>1, TripleFinite
<1>8. DOMAIN f = S /\ DOMAIN g = T
  OBVIOUS
<1> HIDE DEF f, g, h, S, T
<1>9. BagOf(f) = BagOf(g)
  BY <1>5, <1>6, <1>7, <1>8, SameBag
<1> QED
  BY <1>1, <1>2, <1>9

-----------------------------------------------------------------------------
\* convolution: its plan, from the call.
ConvOuts(c) ==
  [i \in 1..(Dim(c.in[1]) - 2) |-> ConvOut(Size(c.in[1], i + 2), Size(c.in[2], i + 2), c.arg.stride[i])]
ConvTensor(c) == Empty("out", <<Size(c.in[1], 1), Size(c.in[2], 1)>> \o ConvOuts(c), c.in[1].dtype)
LineNumbers(c) == ConvShape1(Numel(ConvTensor(c)), c.in[1], c.in[2], ConvOuts(c)[1], c.arg.stride)
PlaneNumbers(c) ==
  ConvShape2(Numel(ConvTensor(c)), c.in[1], c.in[2], ConvOuts(c)[1], ConvOuts(c)[2], c.arg.stride)
ConvLaunch(c) ==
  CASE Dim(c.in[1]) = 3 /\ BiasOf(c) = <<>> -> launch_conv1d(c.in[1], c.in[2], ConvTensor(c), LineNumbers(c))
    [] Dim(c.in[1]) = 3 /\ BiasOf(c) # <<>> ->
         launch_conv1d_bias(c.in[1], c.in[2], BiasOf(c)[1], ConvTensor(c), LineNumbers(c))
    [] Dim(c.in[1]) = 4 /\ BiasOf(c) = <<>> -> launch_conv2d(c.in[1], c.in[2], ConvTensor(c), PlaneNumbers(c))
    [] OTHER -> launch_conv2d_bias(c.in[1], c.in[2], BiasOf(c)[1], ConvTensor(c), PlaneNumbers(c))
ConvAccepts(c) ==
  /\ Dim(c.in[1]) \in {3, 4} /\ Dim(c.in[2]) = Dim(c.in[1])
  /\ Size(c.in[1], 2) = Size(c.in[2], 2) /\ supported_kernel_dtype(c.in[1])
  /\ BiasFits(BiasOf(c), c.in[2], c.in[1]) /\ ConvArgs(c.arg, Dim(c.in[1]))

\* What the convolution decides when it accepts.
LEMMA ConvPlan ==
  ASSUME NEW c, c.op = "convolution", PlanOf(c).kind = "launching"
  PROVE  ConvAccepts(c) /\ PlanOf(c) = Plan(<<ConvTensor(c)>>, <<ConvLaunch(c)>>)
<1> DEFINE input == c.in[1]
           weight == c.in[2]
           bias == BiasOf(c)
           arg == c.arg
           outs == ConvOuts(c)
           out == ConvTensor(c)
           ok   == /\ require_minigpu_contiguous(input) /\ require_minigpu_contiguous(weight)
                   /\ SameDtype(input, weight) /\ Dim(input) \in {3, 4} /\ Dim(weight) = Dim(input)
                   /\ Size(input, 2) = Size(weight, 2) /\ supported_kernel_dtype(input)
                   /\ BiasFits(bias, weight, input) /\ ConvArgs(arg, Dim(input))
                   /\ \A i \in DOMAIN outs : outs[i] >= 0
<1>1. PlanOf(c) = convolution(input, weight, bias, arg)
  BY DEF PlanOf, MiniGpuOps, aten_impl
<1>2. convolution(input, weight, bias, arg) = Check(ok, Plan(<<out>>, <<ConvLaunch(c)>>))
  <2>1. Dim(input) = 3 /\ bias = <<>> =>
          convolution(input, weight, bias, arg) =
            Check(ok, Plan(<<out>>, <<launch_conv1d(input, weight, out, LineNumbers(c))>>))
    BY DEF convolution, ConvOuts, ConvTensor, LineNumbers
  <2>2. Dim(input) = 3 /\ bias # <<>> =>
          convolution(input, weight, bias, arg) =
            Check(ok, Plan(<<out>>, <<launch_conv1d_bias(input, weight, bias[1], out, LineNumbers(c))>>))
    BY DEF convolution, ConvOuts, ConvTensor, LineNumbers
  <2>3. Dim(input) = 4 /\ bias = <<>> =>
          convolution(input, weight, bias, arg) =
            Check(ok, Plan(<<out>>, <<launch_conv2d(input, weight, out, PlaneNumbers(c))>>))
    BY DEF convolution, ConvOuts, ConvTensor, PlaneNumbers
  <2>4. ~(Dim(input) = 3) /\ ~(Dim(input) = 4 /\ bias = <<>>) =>
          convolution(input, weight, bias, arg) =
            Check(ok, Plan(<<out>>, <<launch_conv2d_bias(input, weight, bias[1], out, PlaneNumbers(c))>>))
    BY DEF convolution, ConvOuts, ConvTensor, PlaneNumbers
  <2> HIDE DEF ok
  <2> QED
    BY <2>1, <2>2, <2>3, <2>4 DEF ConvLaunch
<1>3. ok /\ PlanOf(c) = Plan(<<out>>, <<ConvLaunch(c)>>)
  <2> HIDE DEF ok, out
  <2> QED
    BY <1>1, <1>2, CheckPassed
<1> QED
  BY <1>3 DEF ConvAccepts

\* Its arguments are tensors and its strides a list.
LEMMA ConvTensors ==
  ASSUME NEW c, WellFormed(c), c.op = "convolution"
  PROVE  /\ c.in[1] \in Tensors /\ c.in[2] \in Tensors /\ 1 \in DOMAIN c.in /\ 2 \in DOMAIN c.in
         /\ Len(c.in) \in {2, 3} /\ c.in \in Seq(Tensors) /\ c.arg.stride \in Seq(Int)
<1>1. c.op \notin OneTensor /\ c.op \notin TwoTensors /\ c.op \notin ThreeTensors
  BY DEF OneTensor, TwoTensors, ThreeTensors
<1>2. Len(c.in) \in {2, 3} /\ c.in \in Seq(Tensors) /\ c.arg.stride \in Seq(Int)
  BY <1>1 DEF WellFormed
<1> QED
  BY <1>1, <1>2, CallTensors

\* Output size i of a convolution whose windows fit.
ConvSize(c, i) ==
  /\ c.arg.stride[i] \in Nat \ {0} /\ ConvOuts(c)[i] \in Nat
  /\ Size(c.in[1], i + 2) \in Nat /\ Size(c.in[2], i + 2) \in Nat
  /\ ConvOuts(c)[i] = (ShapeOf(c, 1)[i + 2] - ShapeOf(c, 2)[i + 2]) \div c.arg.stride[i] + 1
  /\ \A o \in Upto(ConvOuts(c)[i]) : \A k \in Upto(Size(c.in[2], i + 2)) :
       o * c.arg.stride[i] + k \in Upto(Size(c.in[1], i + 2))

\* Its sizes and strides fit its output.
LEMMA ConvSizes ==
  ASSUME NEW c, WellFormed(c), c.op = "convolution", ~Overhangs(c), PlanOf(c).kind = "launching"
  PROVE  /\ DOMAIN c.arg.stride = 1..(Dim(c.in[1]) - 2)
         /\ \A i \in 1..(Dim(c.in[1]) - 2) : ConvSize(c, i)
<1>1. ConvAccepts(c) /\ c.in[1] \in Tensors /\ c.in[2] \in Tensors /\ c.arg.stride \in Seq(Int)
  BY ConvPlan, ConvTensors
<1>2. /\ Len(c.arg.stride) = Dim(c.in[1]) - 2 /\ \A d \in DOMAIN c.arg.stride : c.arg.stride[d] > 0
      /\ Dim(c.in[1]) \in {3, 4} /\ Dim(c.in[2]) = Dim(c.in[1])
  BY <1>1 DEF ConvAccepts, ConvArgs
<1>3. ASSUME NEW i \in 1..(Dim(c.in[1]) - 2) PROVE ConvSize(c, i)
  <2> DEFINE s == c.arg.stride[i]
             in == Size(c.in[1], i + 2)
             kernel == Size(c.in[2], i + 2)
  <2>1. i + 2 \in 1..Dim(c.in[1]) /\ i + 2 \in 1..Dim(c.in[2]) /\ i + 2 \in 3..Dim(c.in[1])
    BY <1>2
  <2>2. in \in Nat /\ kernel \in Nat
    BY <1>1, <2>1, SizesAreNat
  <2>3. s \in Nat \ {0}
    BY <1>1, <1>2
  <2>4. kernel <= in
    <3>1. ~(ShapeOf(c, 1)[i + 2] < ShapeOf(c, 2)[i + 2])
      BY <2>1 DEF Overhangs, ShapeOf, Dim
    <3> QED
      BY <2>2, <3>1 DEF ShapeOf, Size
  <2>5. ConvOuts(c)[i] = ConvOut(in, kernel, s)
    BY DEF ConvOuts
  <2> HIDE DEF s, in, kernel
  <2>6. /\ ConvOut(in, kernel, s) = (in - kernel) \div s + 1
        /\ \A o \in Upto(ConvOut(in, kernel, s)) : \A k \in Upto(kernel) : o * s + k \in Upto(in)
    BY <2>2, <2>3, <2>4, ConvFits
  <2>7. (in - kernel) \div s + 1 \in Nat
    <3>1. PICK x \in Nat : x = in - kernel
      BY <2>2, <2>4
    <3>2. x \div s \in Nat
      BY <2>3, <3>1, RowsFit
    <3> QED
      BY <3>1, <3>2
  <2>8. in = ShapeOf(c, 1)[i + 2] /\ kernel = ShapeOf(c, 2)[i + 2]
    BY DEF in, kernel, ShapeOf, Size
  <2> QED
    BY <2>2, <2>3, <2>5, <2>6, <2>7, <2>8, Zenon DEF ConvSize, s, in, kernel
<1> QED
  BY <1>1, <1>2, <1>3

\* What a convolution is asked for.
ConvAsked(c, shape) == [o \in Indices(shape) |-> WithBias(c, o[2], Bilinear(c, 1, 2, o))]

\* What the reference asks of it.
LEMMA ConvReference ==
  ASSUME NEW c, WellFormed(c), c.op = "convolution", ~Overhangs(c), PlanOf(c).kind = "launching"
  PROVE  Reference(c) = [out |-> ResultOf(ConvTensor(c).shape, ConvAsked(c, ConvTensor(c).shape))]
<1> DEFINE outs == [d \in DOMAIN c.arg.stride |->
                      (ShapeOf(c, 1)[d + 2] - ShapeOf(c, 2)[d + 2]) \div c.arg.stride[d] + 1]
           shape == <<ShapeOf(c, 1)[1], ShapeOf(c, 2)[1]>> \o outs
<1>1. Reference(c) = [out |-> ResultOf(shape, ConvAsked(c, shape))]
  BY Zenon DEF Reference, InPlace, Result, ConvAsked
<1>2. outs = ConvOuts(c)
  <2>1. /\ DOMAIN c.arg.stride = 1..(Dim(c.in[1]) - 2)
        /\ \A i \in 1..(Dim(c.in[1]) - 2) :
             ConvOuts(c)[i] = (ShapeOf(c, 1)[i + 2] - ShapeOf(c, 2)[i + 2]) \div c.arg.stride[i] + 1
    BY ConvSizes DEF ConvSize
  <2>2. ConvOuts(c) = [i \in 1..(Dim(c.in[1]) - 2) |-> ConvOuts(c)[i]]
    BY DEF ConvOuts
  <2> QED
    BY <2>1, <2>2, Zenon
<1>3. ConvTensor(c).shape = shape
  BY <1>2 DEF ConvTensor, Empty, Tensor, ShapeOf, Size
<1> QED
  BY <1>1, <1>3

\* The values of a bias, one per channel.
Biased(c, ch, E, n) == [q \in Upto(n) |-> Plus(At(Before(c, 3), ch[q]), E[q])]

\* A launch that computes the product sums E, and adds the bias of channel
\* ch[q] to sum q if there is one, computes the convolution.
LEMMA ConvSuffices ==
  ASSUME NEW c, WellFormed(c), c.op = "convolution", ConvAccepts(c),
         NEW out \in Tensors, out.name = "out", NEW n, n = Numel(out),
         Reference(c) = [out |-> ResultOf(out.shape, ConvAsked(c, out.shape))],
         NEW l, PlanOf(c) = Plan(<<out>>, <<l>>),
         NEW E, E = [q \in Upto(n) |-> E[q]], NEW ch,
         \A q \in Upto(n) : /\ IndexAt(out.shape, q)[2] = ch[q]
                            /\ ch[q] \in Upto(Size(c.in[2], 1))
                            /\ E[q] = Bilinear(c, 1, 2, IndexAt(out.shape, q)),
         BiasOf(c) = <<>> =>
           /\ l.pointers = <<c.in[1], c.in[2], out>>
           /\ \A x : x[1] = Before(c, 1) /\ x[2] = Before(c, 2) => Stored(l, x) = LoopOver(E, n),
         BiasOf(c) # <<>> =>
           /\ l.pointers = <<c.in[1], c.in[2], BiasOf(c)[1], out>>
           /\ \A x : x[1] = Before(c, 1) /\ x[2] = Before(c, 2) /\ x[3] = Before(c, 3) =>
                Stored(l, x) = LoopOver(Biased(c, ch, E, n), n)
  PROVE  Sufficient(c)
<1> DEFINE f == ConvAsked(c, out.shape)
           oc == Size(c.in[2], 1)
<1>1. /\ c.in[1] \in Tensors /\ c.in[2] \in Tensors /\ 1 \in DOMAIN c.in /\ 2 \in DOMAIN c.in
      /\ Len(c.in) \in {2, 3} /\ c.in \in Seq(Tensors)
  BY ConvTensors
<1>2. Elements(out) = Upto(n) /\ out.shape \in Seq(Nat) /\ n = NumelOf(out.shape)
  BY DEF Elements, Tensors, Numel
<1>3. oc \in Nat
  <2>1. 1 \in 1..Dim(c.in[2])
    BY DEF ConvAccepts
  <2> QED
    BY <1>1, <2>1, SizesAreNat
<1>4. ASSUME NEW q \in Upto(n) PROVE f[IndexAt(out.shape, q)] = WithBias(c, ch[q], E[q])
  <2>1. IndexAt(out.shape, q) \in Indices(out.shape)
    BY <1>2, IndexAtIs
  <2>2. f[IndexAt(out.shape, q)] = WithBias(c, IndexAt(out.shape, q)[2], Bilinear(c, 1, 2, IndexAt(out.shape, q)))
    BY <2>1 DEF ConvAsked
  <2> HIDE DEF f
  <2> QED
    BY <2>2
<1> HIDE DEF f, oc
<1>5. Reference(c) = [out |-> ResultOf(out.shape, f)]
  BY DEF f
<1>6. CASE Len(c.in) = 2
  <2>1. BiasOf(c) = <<>>
    BY <1>1, <1>6 DEF BiasOf
  <2>2. E = [q \in Elements(out) |-> E[q]] /\ \A q \in Elements(out) : E[q] = f[IndexAt(out.shape, q)]
    BY <1>2, <1>4, <1>6 DEF WithBias
  <2>6. l.pointers = <<c.in[1], c.in[2], out>>
    BY <2>1
  <2>3. MapsTo(LoopOver(E, n), n, E)
    BY LoopOverMaps
  <2> DEFINE k == LoopOver(E, n)
  <2>4. MapsTo(k, Numel(out), E)
    BY <2>3
  <2>5. \A x : x[1] = Before(c, 1) /\ x[2] = Before(c, 2) => Stored(l, x) = k
    BY <2>1
  <2> HIDE DEF k
  <2> QED
    BY <1>1, <1>5, <2>2, <2>4, <2>5, <2>6, MapOfTwoSuffices
<1>7. CASE Len(c.in) = 3
  <2> DEFINE w == Biased(c, ch, E, n)
             k == LoopOver(w, n)
  <2>1. BiasOf(c) # <<>> /\ BiasOf(c)[1] = c.in[3] /\ 1 \in DOMAIN BiasOf(c) /\ 3 \in DOMAIN c.in
    <3> DEFINE s == SubSeq(c.in, 3, 3)
    <3>1. s \in Seq(Tensors) /\ Len(s) = 1 /\ s[1] = c.in[3]
      BY <1>1, <1>7
    <3>2. BiasOf(c) = s
      BY <1>7 DEF BiasOf
    <3> HIDE DEF s
    <3>3. s # <<>> /\ 1 \in DOMAIN s
      BY Zenon, <3>1, OneItem
    <3>4. 3 \in DOMAIN c.in
      BY <1>1, <1>7
    <3> QED
      BY <3>1, <3>2, <3>3, <3>4
  <2>2. c.in[3].shape = <<oc>> /\ c.in[3] \in Tensors
    BY <1>1, <2>1 DEF ConvAccepts, BiasFits, oc
  <2>3. l.pointers = <<c.in[1], c.in[2], c.in[3], out>>
        /\ \A x : x[1] = Before(c, 1) /\ x[2] = Before(c, 2) /\ x[3] = Before(c, 3) => Stored(l, x) = k
    BY <2>1
  <2>4. ASSUME NEW q \in Upto(n) PROVE w[q] = f[IndexAt(out.shape, q)]
    <3> DEFINE col == ch[q]
    <3>1. col \in Upto(oc)
      BY DEF oc
    <3>2. w[q] = Plus(At(Before(c, 3), col), E[q])
      BY DEF Biased
    <3>3. ShapeOf(c, 3) \in Seq(Nat) /\ Len(ShapeOf(c, 3)) = 1 /\ ShapeOf(c, 3)[1] = oc
      BY <1>3, <2>2 DEF ShapeOf
    <3> HIDE DEF col, w
    <3>4. Position(<<col>>, ShapeOf(c, 3)) = col
      BY <3>1, <3>3, IndexOfOne
    <3>5. col \in Elements(c.in[3])
      BY <1>3, <2>2, <3>1, NumelOfFew DEF Elements, Numel
    <3>6. At(Before(c, 3), col) = X(c, 3, <<col>>)
      BY <3>4, <3>5, AtBefore DEF X
    <3>7. f[IndexAt(out.shape, q)] = WithBias(c, col, E[q])
      BY <1>4 DEF col
    <3>8. WithBias(c, col, E[q]) = Plus(X(c, 3, <<col>>), E[q])
      BY <1>7 DEF WithBias
    <3> QED
      BY <3>2, <3>6, <3>7, <3>8
  <2>5. w = [q \in Elements(out) |-> w[q]] /\ \A q \in Elements(out) : w[q] = f[IndexAt(out.shape, q)]
    BY <1>2, <2>4 DEF Biased
  <2>6. MapsTo(k, Numel(out), w)
    BY LoopOverMaps
  <2> HIDE DEF w, k
  <2>7. Target(l) = "out"
    BY <2>3 DEF Target
  <2>8. ASSUME NEW m, Holds(c, m) PROVE Stored(l, ReadFrom(l, m)) = k
    <3>1. /\ ReadFrom(l, m)[1] = Before(c, 1) /\ ReadFrom(l, m)[2] = Before(c, 2)
          /\ ReadFrom(l, m)[3] = Before(c, 3)
      BY <1>1, <2>1, <2>3, <2>8 DEF ReadFrom, Holds
    <3> QED
      BY <2>3, <3>1
  <2>9. OneLoop(c, out, l, k)
    BY <2>7, <2>8 DEF OneLoop
  <2> QED
    BY <1>5, <2>5, <2>6, <2>9, MappedSuffices
<1> QED
  BY <1>1, <1>6, <1>7

\* The product sums of one dimension, and their channels.
LineSums(c, p) ==
  [i \in Upto(p.n) |-> conv1d_element(Before(c, 1), Before(c, 2),
                         (i \div p.ow) \div p.oc, (i \div p.ow) % p.oc, i % p.ow, p)]
LineChannels(p) == [i \in Upto(p.n) |-> (i \div p.ow) % p.oc]

\* What a launch for one dimension stores, without a bias and with one.
LineStores(c, l, p) ==
  /\ l.kernel[1] = "conv1d" =>
       \A x : x[1] = Before(c, 1) /\ x[2] = Before(c, 2) => Stored(l, x) = LoopOver(LineSums(c, p), p.n)
  /\ l.kernel[1] = "conv1d_bias" =>
       \A x : x[1] = Before(c, 1) /\ x[2] = Before(c, 2) /\ x[3] = Before(c, 3) =>
         Stored(l, x) = LoopOver(Biased(c, LineChannels(p), LineSums(c, p), p.n), p.n)

\* What the kernels of one dimension store.
LEMMA LineKernels ==
  ASSUME NEW c, NEW p, NEW l, l.num = p, l.kernel[2] # "host"
  PROVE  LineStores(c, l, p)
<1>1. ASSUME l.kernel[1] = "conv1d", NEW x, x[1] = Before(c, 1), x[2] = Before(c, 2)
      PROVE  Stored(l, x) = LoopOver(LineSums(c, p), p.n)
  <2>1. Stored(l, x) = conv1d(Before(c, 1), Before(c, 2), p.n, p)
    BY <1>1 DEF Stored, Kernel
  <2> QED
    BY <2>1 DEF conv1d, Map, Loop, LoopOver, LineSums
<1>2. ASSUME l.kernel[1] = "conv1d_bias", NEW x, x[1] = Before(c, 1), x[2] = Before(c, 2), x[3] = Before(c, 3)
      PROVE  Stored(l, x) = LoopOver(Biased(c, LineChannels(p), LineSums(c, p), p.n), p.n)
  <2>1. Stored(l, x) = conv1d_bias(Before(c, 1), Before(c, 2), Before(c, 3), p.n, p)
    BY <1>2 DEF Stored, Kernel
  <2> QED
    BY <2>1 DEF conv1d_bias, Map, Loop, LoopOver, Biased, LineChannels, LineSums
<1> QED
  BY <1>1, <1>2 DEF LineStores

\* convolution over one dimension.
LEMMA LineConvSuffices ==
  ASSUME NEW c, WellFormed(c), c.op = "convolution", ~Overhangs(c), PlanOf(c).kind = "launching",
         Dim(c.in[1]) = 3
  PROVE  Sufficient(c)
<1> DEFINE out == ConvTensor(c)
           p == LineNumbers(c)
           l == ConvLaunch(c)
           s == c.arg.stride
<1>1. ConvAccepts(c) /\ PlanOf(c) = Plan(<<out>>, <<l>>)
  BY ConvPlan
<1>2. /\ c.in[1] \in Tensors /\ c.in[2] \in Tensors /\ 1 \in DOMAIN c.in /\ 2 \in DOMAIN c.in
  BY ConvTensors
<1>3. DOMAIN s = {1} /\ ConvSize(c, 1) /\ ConvOuts(c) = <<ConvOuts(c)[1]>>
  <2>1. 1..(Dim(c.in[1]) - 2) = {1}
    OBVIOUS
  <2>2. ConvOuts(c) = [i \in {1} |-> ConvOuts(c)[i]]
    BY <2>1 DEF ConvOuts
  <2> HIDE DEF s
  <2>3. DOMAIN s = {1} /\ ConvSize(c, 1)
    <3>1. DOMAIN c.arg.stride = 1..(Dim(c.in[1]) - 2) /\ \A i \in 1..(Dim(c.in[1]) - 2) : ConvSize(c, i)
      BY ConvSizes
    <3> QED
      BY <2>1, <3>1 DEF s
  <2>4. ConvOuts(c) = [i \in 1..1 |-> ConvOuts(c)[i]]
    <3>1. {1} = 1..1
      OBVIOUS
    <3> QED
      BY <2>2, <3>1
  <2> QED
    BY <2>3, <2>4
<1>4. /\ Dim(c.in[2]) = 3 /\ Size(c.in[1], 2) = Size(c.in[2], 2) /\ c.in[1].dtype \in {"i32", "fp32"}
  BY <1>1 DEF ConvAccepts, supported_kernel_dtype
<1>5. \A d \in 1..3 : Size(c.in[1], d) \in Nat /\ Size(c.in[2], d) \in Nat
  BY <1>2, <1>4, SizesAreNat
<1>6. /\ p.n = Numel(out) /\ p.b = Size(c.in[1], 1) /\ p.ic = Size(c.in[1], 2) /\ p.oc = Size(c.in[2], 1)
      /\ p.iw = Size(c.in[1], 3) /\ p.ow = ConvOuts(c)[1] /\ p.kw = Size(c.in[2], 3) /\ p.sw = s[1]
  BY DEF LineNumbers, ConvShape1
<1>7. ShapeOf(c, 1) = <<p.b, p.ic, p.iw>> /\ ShapeOf(c, 2) = <<p.oc, p.ic, p.kw>>
  <2>1. \A t \in Seq(Nat) : Len(t) = 3 => t = <<t[1], t[2], t[3]>>
    OBVIOUS
  <2>2. ShapeOf(c, 1) \in Seq(Nat) /\ Len(ShapeOf(c, 1)) = 3 /\ ShapeOf(c, 2) \in Seq(Nat) /\ Len(ShapeOf(c, 2)) = 3
    BY <1>2, <1>4 DEF ShapeOf, Tensors, Dim
  <2>3. /\ ShapeOf(c, 1) = <<ShapeOf(c, 1)[1], ShapeOf(c, 1)[2], ShapeOf(c, 1)[3]>>
        /\ ShapeOf(c, 2) = <<ShapeOf(c, 2)[1], ShapeOf(c, 2)[2], ShapeOf(c, 2)[3]>>
    BY <2>1, <2>2, Zenon
  <2> HIDE DEF p
  <2> QED
    BY <1>4, <1>6, <2>3, Zenon DEF ShapeOf, Size
<1> HIDE DEF p, s
<1>8. LineFits(c, 2, p)
  <2>1. 1 \in 1..3 /\ 2 \in 1..3 /\ 3 \in 1..3
    OBVIOUS
  <2>2. /\ p.b \in Nat /\ p.ic \in Nat /\ p.iw \in Nat /\ p.oc \in Nat /\ p.kw \in Nat
    BY <1>5, <1>6, <2>1, Zenon
  <2>3. /\ p.ow \in Nat /\ p.sw \in Nat
        /\ \A o \in Upto(p.ow) : \A k \in Upto(p.kw) : o * p.sw + k \in Upto(p.iw)
    BY <1>3, <1>6 DEF ConvSize, s
  <2> QED
    BY <1>2, <1>3, <1>6, <1>7, <2>2, <2>3 DEF LineFits, Convs, s
<1>9. out = Empty("out", <<p.b, p.oc, p.ow>>, c.in[1].dtype)
  <2>1. <<p.b, p.oc>> \o <<p.ow>> = <<p.b, p.oc, p.ow>>
    BY ThreeJoined
  <2> QED
    BY <1>3, <1>6, <2>1 DEF ConvTensor
<1>10. out \in Tensors /\ out.name = "out" /\ out.shape = <<p.b, p.oc, p.ow>> /\ <<p.b, p.oc, p.ow>> \in Seq(Nat)
  <2>1. <<p.b, p.oc, p.ow>> \in Seq(Nat)
    BY <1>8 DEF LineFits
  <2>2. c.in[1].dtype \in Dtypes
    BY <1>4 DEF Dtypes, SixTypes
  <2> HIDE DEF out
  <2> QED
    BY <1>9, <2>1, <2>2, OutIs
<1> DEFINE E == LineSums(c, p)
           ch == LineChannels(p)
<1> HIDE DEF out
<1>11. ASSUME NEW q \in Upto(p.n)
       PROVE  /\ IndexAt(out.shape, q)[2] = ch[q] /\ ch[q] \in Upto(Size(c.in[2], 1))
              /\ E[q] = Bilinear(c, 1, 2, IndexAt(out.shape, q))
  <2> DEFINE shape == <<p.b, p.oc, p.ow>>
             ix == IndexAt(shape, q)
  <2>1. shape[1] = p.b /\ shape[2] = p.oc /\ shape[3] = p.ow /\ shape \in Seq(Nat) /\ Len(shape) = 3
    BY <1>10
  <2>2. out.shape = shape /\ q \in Upto(NumelOf(shape))
    BY <1>6, <1>10 DEF Numel
  <2> HIDE DEF shape
  <2>3. DigitsOfThree(shape, q, ix)
    BY <2>1, <2>2, IndexAtThree
  <2> HIDE DEF ix
  <2>4. /\ ix = <<ix[1], ix[2], ix[3]>>
        /\ ix[1] \in Upto(p.b) /\ ix[2] \in Upto(p.oc) /\ ix[3] \in Upto(p.ow)
        /\ q % p.ow = ix[3] /\ (q \div p.ow) % p.oc = ix[2] /\ (q \div p.ow) \div p.oc = ix[1]
    BY <2>1, <2>3 DEF DigitsOfThree
  <2>5. ch[q] = ix[2]
    BY <2>4 DEF LineChannels
  <2>6. E[q] = conv1d_element(Before(c, 1), Before(c, 2), ix[1], ix[2], ix[3], p)
    BY <2>4 DEF LineSums
  <2>7. E[q] = Bilinear(c, 1, 2, <<ix[1], ix[2], ix[3]>>)
    BY <1>8, <2>4, <2>6, LineElement
  <2> HIDE DEF E, ch
  <2> QED
    BY <1>6, <2>2, <2>4, <2>5, <2>7 DEF ix
<1>12. Reference(c) = [out |-> ResultOf(out.shape, ConvAsked(c, out.shape))]
  BY ConvReference DEF out
<1>13. /\ l.num = p /\ l.kernel[2] # "host"
       /\ BiasOf(c) = <<>> => l.kernel[1] = "conv1d" /\ l.pointers = <<c.in[1], c.in[2], out>>
       /\ BiasOf(c) # <<>> => l.kernel[1] = "conv1d_bias" /\ l.pointers = <<c.in[1], c.in[2], BiasOf(c)[1], out>>
  <2>1. CASE BiasOf(c) = <<>>
    <3>1. l = launch_conv1d(c.in[1], c.in[2], out, p)
      BY <2>1 DEF ConvLaunch, out, p
    <3> HIDE DEF l
    <3> QED
      BY <1>4, <2>1, <3>1 DEF launch_conv1d, Launch
  <2>2. CASE BiasOf(c) # <<>>
    <3>1. l = launch_conv1d_bias(c.in[1], c.in[2], BiasOf(c)[1], out, p)
      BY <2>2 DEF ConvLaunch, out, p
    <3> HIDE DEF l
    <3> QED
      BY <1>4, <2>2, <3>1 DEF launch_conv1d_bias, Launch
  <2> QED
    BY <2>1, <2>2
<1> HIDE DEF l
<1>14. /\ BiasOf(c) = <<>> =>
            \A x : x[1] = Before(c, 1) /\ x[2] = Before(c, 2) => Stored(l, x) = LoopOver(E, p.n)
       /\ BiasOf(c) # <<>> =>
            \A x : x[1] = Before(c, 1) /\ x[2] = Before(c, 2) /\ x[3] = Before(c, 3) =>
              Stored(l, x) = LoopOver(Biased(c, ch, E, p.n), p.n)
  <2>1. LineStores(c, l, p)
    BY <1>13, LineKernels
  <2> QED
    BY <1>13, <2>1, Zenon DEF LineStores
<1>15. E = [q \in Upto(p.n) |-> E[q]]
  BY DEF LineSums
<1> HIDE DEF E, ch
<1> DEFINE n == p.n
<1>16. /\ BiasOf(c) = <<>> =>
            /\ l.pointers = <<c.in[1], c.in[2], out>>
            /\ \A x : x[1] = Before(c, 1) /\ x[2] = Before(c, 2) => Stored(l, x) = LoopOver(E, n)
       /\ BiasOf(c) # <<>> =>
            /\ l.pointers = <<c.in[1], c.in[2], BiasOf(c)[1], out>>
            /\ \A x : x[1] = Before(c, 1) /\ x[2] = Before(c, 2) /\ x[3] = Before(c, 3) =>
                 Stored(l, x) = LoopOver(Biased(c, ch, E, n), n)
  BY <1>13, <1>14, Zenon
<1>17. /\ n = Numel(out) /\ E = [q \in Upto(n) |-> E[q]]
       /\ \A q \in Upto(n) : /\ IndexAt(out.shape, q)[2] = ch[q]
                             /\ ch[q] \in Upto(Size(c.in[2], 1))
                             /\ E[q] = Bilinear(c, 1, 2, IndexAt(out.shape, q))
  BY <1>6, <1>11, <1>15
<1> HIDE DEF n
<1> QED
  BY <1>1, <1>10, <1>12, <1>16, <1>17, ConvSuffices

\* The product sums of two dimensions, and their channels.
PlaneSums(c, p) ==
  [i \in Upto(p.n) |-> conv2d_element(Before(c, 1), Before(c, 2),
                         ((i \div p.ow) \div p.oh) \div p.oc, ((i \div p.ow) \div p.oh) % p.oc,
                         (i \div p.ow) % p.oh, i % p.ow, p)]
PlaneChannels(p) == [i \in Upto(p.n) |-> ((i \div p.ow) \div p.oh) % p.oc]

PlaneStores(c, l, p) ==
  /\ l.kernel[1] = "conv2d" =>
       \A x : x[1] = Before(c, 1) /\ x[2] = Before(c, 2) => Stored(l, x) = LoopOver(PlaneSums(c, p), p.n)
  /\ l.kernel[1] = "conv2d_bias" =>
       \A x : x[1] = Before(c, 1) /\ x[2] = Before(c, 2) /\ x[3] = Before(c, 3) =>
         Stored(l, x) = LoopOver(Biased(c, PlaneChannels(p), PlaneSums(c, p), p.n), p.n)

\* What the kernels of two dimensions store.
LEMMA PlaneKernels ==
  ASSUME NEW c, NEW p, NEW l, l.num = p, l.kernel[2] # "host"
  PROVE  PlaneStores(c, l, p)
<1>1. ASSUME l.kernel[1] = "conv2d", NEW x, x[1] = Before(c, 1), x[2] = Before(c, 2)
      PROVE  Stored(l, x) = LoopOver(PlaneSums(c, p), p.n)
  <2>1. Stored(l, x) = conv2d(Before(c, 1), Before(c, 2), p.n, p)
    BY <1>1 DEF Stored, Kernel
  <2> QED
    BY <2>1 DEF conv2d, Map, Loop, LoopOver, PlaneSums
<1>2. ASSUME l.kernel[1] = "conv2d_bias", NEW x, x[1] = Before(c, 1), x[2] = Before(c, 2), x[3] = Before(c, 3)
      PROVE  Stored(l, x) = LoopOver(Biased(c, PlaneChannels(p), PlaneSums(c, p), p.n), p.n)
  <2>1. Stored(l, x) = conv2d_bias(Before(c, 1), Before(c, 2), Before(c, 3), p.n, p)
    BY <1>2 DEF Stored, Kernel
  <2> QED
    BY <2>1 DEF conv2d_bias, Map, Loop, LoopOver, Biased, PlaneChannels, PlaneSums
<1> QED
  BY <1>1, <1>2 DEF PlaneStores

\* convolution over two dimensions.
LEMMA PlaneConvSuffices ==
  ASSUME NEW c, WellFormed(c), c.op = "convolution", ~Overhangs(c), PlanOf(c).kind = "launching",
         Dim(c.in[1]) = 4
  PROVE  Sufficient(c)
<1> DEFINE out == ConvTensor(c)
           p == PlaneNumbers(c)
           l == ConvLaunch(c)
           s == c.arg.stride
<1>1. ConvAccepts(c) /\ PlanOf(c) = Plan(<<out>>, <<l>>)
  BY ConvPlan
<1>2. /\ c.in[1] \in Tensors /\ c.in[2] \in Tensors /\ 1 \in DOMAIN c.in /\ 2 \in DOMAIN c.in
  BY ConvTensors
<1>3. DOMAIN s = {1, 2} /\ ConvSize(c, 1) /\ ConvSize(c, 2) /\ ConvOuts(c) = <<ConvOuts(c)[1], ConvOuts(c)[2]>>
  <2>1. 1..(Dim(c.in[1]) - 2) = {1, 2} /\ 1..(Dim(c.in[1]) - 2) = 1..2
    OBVIOUS
  <2>2. ConvOuts(c) = [i \in 1..2 |-> ConvOuts(c)[i]]
    BY <2>1 DEF ConvOuts
  <2>3. DOMAIN s = {1, 2} /\ ConvSize(c, 1) /\ ConvSize(c, 2)
    <3>1. DOMAIN c.arg.stride = 1..(Dim(c.in[1]) - 2) /\ \A i \in 1..(Dim(c.in[1]) - 2) : ConvSize(c, i)
      BY ConvSizes
    <3> QED
      BY <2>1, <3>1 DEF s
  <2> QED
    BY <2>2, <2>3
<1>4. /\ Dim(c.in[2]) = 4 /\ Size(c.in[1], 2) = Size(c.in[2], 2) /\ c.in[1].dtype \in {"i32", "fp32"}
  BY <1>1 DEF ConvAccepts, supported_kernel_dtype
<1>5. \A d \in 1..4 : Size(c.in[1], d) \in Nat /\ Size(c.in[2], d) \in Nat
  BY <1>2, <1>4, SizesAreNat
<1>6. /\ p.n = Numel(out) /\ p.b = Size(c.in[1], 1) /\ p.ic = Size(c.in[1], 2) /\ p.oc = Size(c.in[2], 1)
      /\ p.ih = Size(c.in[1], 3) /\ p.oh = ConvOuts(c)[1] /\ p.kh = Size(c.in[2], 3) /\ p.sh = s[1]
      /\ p.iw = Size(c.in[1], 4) /\ p.ow = ConvOuts(c)[2] /\ p.kw = Size(c.in[2], 4) /\ p.sw = s[2]
  BY DEF PlaneNumbers, ConvShape2
<1>7. ShapeOf(c, 1) = <<p.b, p.ic, p.ih, p.iw>> /\ ShapeOf(c, 2) = <<p.oc, p.ic, p.kh, p.kw>>
  <2>1. \A t \in Seq(Nat) : Len(t) = 4 => t = <<t[1], t[2], t[3], t[4]>>
    OBVIOUS
  <2>2. ShapeOf(c, 1) \in Seq(Nat) /\ Len(ShapeOf(c, 1)) = 4 /\ ShapeOf(c, 2) \in Seq(Nat) /\ Len(ShapeOf(c, 2)) = 4
    BY <1>2, <1>4 DEF ShapeOf, Tensors, Dim
  <2>3. /\ ShapeOf(c, 1) = <<ShapeOf(c, 1)[1], ShapeOf(c, 1)[2], ShapeOf(c, 1)[3], ShapeOf(c, 1)[4]>>
        /\ ShapeOf(c, 2) = <<ShapeOf(c, 2)[1], ShapeOf(c, 2)[2], ShapeOf(c, 2)[3], ShapeOf(c, 2)[4]>>
    BY <2>1, <2>2, Zenon
  <2> HIDE DEF p
  <2> QED
    BY <1>4, <1>6, <2>3, Zenon DEF ShapeOf, Size
<1> HIDE DEF p, s
<1>8. PlaneFits(c, 2, p)
  <2>1. 1 \in 1..4 /\ 2 \in 1..4 /\ 3 \in 1..4 /\ 4 \in 1..4 /\ 1 + 2 = 3 /\ 2 + 2 = 4
    OBVIOUS
  <2>2. /\ p.b \in Nat /\ p.ic \in Nat /\ p.ih \in Nat /\ p.iw \in Nat /\ p.oc \in Nat /\ p.kh \in Nat /\ p.kw \in Nat
    BY <1>5, <1>6, <2>1, Zenon
  <2>3. /\ p.oh \in Nat /\ p.sh \in Nat
        /\ \A o \in Upto(p.oh) : \A k \in Upto(p.kh) : o * p.sh + k \in Upto(p.ih)
    <3>1. s[1] \in Nat
      BY <1>3 DEF ConvSize, s
    <3> QED
      BY <1>3, <1>6, <2>1, <3>1, Zenon DEF ConvSize, s
  <2>4. /\ p.ow \in Nat /\ p.sw \in Nat
        /\ \A o \in Upto(p.ow) : \A k \in Upto(p.kw) : o * p.sw + k \in Upto(p.iw)
    <3>1. s[2] \in Nat
      BY <1>3 DEF ConvSize, s
    <3> QED
      BY <1>3, <1>6, <2>1, <3>1, Zenon DEF ConvSize, s
  <2> QED
    BY <1>2, <1>3, <1>6, <1>7, <2>2, <2>3, <2>4 DEF PlaneFits, Convs, s
<1>9. out = Empty("out", <<p.b, p.oc, p.oh, p.ow>>, c.in[1].dtype)
  <2>1. <<p.b, p.oc>> \o <<p.oh, p.ow>> = <<p.b, p.oc, p.oh, p.ow>>
    BY PairsJoined
  <2> QED
    BY <1>3, <1>6, <2>1 DEF ConvTensor
<1>10. out \in Tensors /\ out.name = "out" /\ out.shape = <<p.b, p.oc, p.oh, p.ow>>
       /\ <<p.b, p.oc, p.oh, p.ow>> \in Seq(Nat)
  <2>1. <<p.b, p.oc, p.oh, p.ow>> \in Seq(Nat)
    BY <1>8 DEF PlaneFits
  <2>2. c.in[1].dtype \in Dtypes
    BY <1>4 DEF Dtypes, SixTypes
  <2> HIDE DEF out
  <2> QED
    BY <1>9, <2>1, <2>2, OutIs
<1> DEFINE E == PlaneSums(c, p)
           ch == PlaneChannels(p)
<1> HIDE DEF out
<1>11. ASSUME NEW q \in Upto(p.n)
       PROVE  /\ IndexAt(out.shape, q)[2] = ch[q] /\ ch[q] \in Upto(Size(c.in[2], 1))
              /\ E[q] = Bilinear(c, 1, 2, IndexAt(out.shape, q))
  <2> DEFINE shape == <<p.b, p.oc, p.oh, p.ow>>
             ix == IndexAt(shape, q)
  <2>1. /\ shape[1] = p.b /\ shape[2] = p.oc /\ shape[3] = p.oh /\ shape[4] = p.ow
        /\ shape \in Seq(Nat) /\ Len(shape) = 4
    BY <1>10
  <2>2. out.shape = shape /\ q \in Upto(NumelOf(shape))
    BY <1>6, <1>10 DEF Numel
  <2> HIDE DEF shape
  <2>3. DigitsOfFour(shape, q, ix)
    BY <2>1, <2>2, IndexAtFour
  <2> HIDE DEF ix
  <2>4. /\ ix = <<ix[1], ix[2], ix[3], ix[4]>>
        /\ ix[1] \in Upto(p.b) /\ ix[2] \in Upto(p.oc) /\ ix[3] \in Upto(p.oh) /\ ix[4] \in Upto(p.ow)
        /\ q % p.ow = ix[4] /\ (q \div p.ow) % p.oh = ix[3]
        /\ ((q \div p.ow) \div p.oh) % p.oc = ix[2] /\ ((q \div p.ow) \div p.oh) \div p.oc = ix[1]
    BY <2>1, <2>3 DEF DigitsOfFour
  <2>5. ch[q] = ix[2]
    BY <2>4 DEF PlaneChannels
  <2>6. E[q] = conv2d_element(Before(c, 1), Before(c, 2), ix[1], ix[2], ix[3], ix[4], p)
    BY <2>4 DEF PlaneSums
  <2>7. E[q] = Bilinear(c, 1, 2, <<ix[1], ix[2], ix[3], ix[4]>>)
    BY <1>8, <2>4, <2>6, PlaneElement
  <2> HIDE DEF E, ch
  <2> QED
    BY <1>6, <2>2, <2>4, <2>5, <2>7 DEF ix
<1>12. Reference(c) = [out |-> ResultOf(out.shape, ConvAsked(c, out.shape))]
  BY ConvReference DEF out
<1>13. /\ l.num = p /\ l.kernel[2] # "host"
       /\ BiasOf(c) = <<>> => l.kernel[1] = "conv2d" /\ l.pointers = <<c.in[1], c.in[2], out>>
       /\ BiasOf(c) # <<>> => l.kernel[1] = "conv2d_bias" /\ l.pointers = <<c.in[1], c.in[2], BiasOf(c)[1], out>>
  <2>1. CASE BiasOf(c) = <<>>
    <3>1. l = launch_conv2d(c.in[1], c.in[2], out, p)
      BY <2>1 DEF ConvLaunch, out, p
    <3> HIDE DEF l
    <3> QED
      BY <1>4, <2>1, <3>1 DEF launch_conv2d, Launch
  <2>2. CASE BiasOf(c) # <<>>
    <3>1. l = launch_conv2d_bias(c.in[1], c.in[2], BiasOf(c)[1], out, p)
      BY <2>2 DEF ConvLaunch, out, p
    <3> HIDE DEF l
    <3> QED
      BY <1>4, <2>2, <3>1 DEF launch_conv2d_bias, Launch
  <2> QED
    BY <2>1, <2>2
<1> HIDE DEF l
<1>14. /\ BiasOf(c) = <<>> =>
            \A x : x[1] = Before(c, 1) /\ x[2] = Before(c, 2) => Stored(l, x) = LoopOver(E, p.n)
       /\ BiasOf(c) # <<>> =>
            \A x : x[1] = Before(c, 1) /\ x[2] = Before(c, 2) /\ x[3] = Before(c, 3) =>
              Stored(l, x) = LoopOver(Biased(c, ch, E, p.n), p.n)
  <2>1. PlaneStores(c, l, p)
    BY <1>13, PlaneKernels
  <2> QED
    BY <1>13, <2>1, Zenon DEF PlaneStores
<1>15. E = [q \in Upto(p.n) |-> E[q]]
  BY DEF PlaneSums
<1> HIDE DEF E, ch
<1> DEFINE n == p.n
<1>16. /\ BiasOf(c) = <<>> =>
            /\ l.pointers = <<c.in[1], c.in[2], out>>
            /\ \A x : x[1] = Before(c, 1) /\ x[2] = Before(c, 2) => Stored(l, x) = LoopOver(E, n)
       /\ BiasOf(c) # <<>> =>
            /\ l.pointers = <<c.in[1], c.in[2], BiasOf(c)[1], out>>
            /\ \A x : x[1] = Before(c, 1) /\ x[2] = Before(c, 2) /\ x[3] = Before(c, 3) =>
                 Stored(l, x) = LoopOver(Biased(c, ch, E, n), n)
  BY <1>13, <1>14, Zenon
<1>17. /\ n = Numel(out) /\ E = [q \in Upto(n) |-> E[q]]
       /\ \A q \in Upto(n) : /\ IndexAt(out.shape, q)[2] = ch[q]
                             /\ ch[q] \in Upto(Size(c.in[2], 1))
                             /\ E[q] = Bilinear(c, 1, 2, IndexAt(out.shape, q))
  BY <1>6, <1>11, <1>15
<1> HIDE DEF n
<1> QED
  BY <1>1, <1>10, <1>12, <1>16, <1>17, ConvSuffices

\* The convolution has a sufficient plan.
LEMMA ConvolutionSuffices ==
  ASSUME NEW c, WellFormed(c), c.op = "convolution", ~Overhangs(c), PlanOf(c).kind = "launching"
  PROVE  Sufficient(c)
<1>1. Dim(c.in[1]) \in {3, 4}
  BY ConvPlan DEF ConvAccepts
<1> QED
  BY <1>1, LineConvSuffices, PlaneConvSuffices

-----------------------------------------------------------------------------
\* Two sums of the same terms.
LEMMA SumsAgree ==
  ASSUME NEW S, NEW T, IsFiniteSet(S), NEW f, NEW g, DOMAIN f = S, DOMAIN g = T,
         NEW h, h = [r \in S |-> h[r]],
         \A r \in S : h[r] \in T /\ f[r] = g[h[r]],
         \A r \in S, t \in S : h[r] = h[t] => r = t,
         \A q \in T : \E r \in S : q = h[r]
  PROVE  BagOf(f) = BagOf(g)
<1>1. h \in [S -> T]
  OBVIOUS
<1>2. h \in Bijection(S, T)
  BY <1>1 DEF Bijection, Injection, Surjection, IsInjective
<1> QED
  BY <1>2, SameBag

\* The number of elements of three dimensions.
LEMMA NumelOfThree ==
  ASSUME NEW i \in Nat, NEW j \in Nat, NEW k \in Nat
  PROVE  NumelOf(<<i, j, k>>) = i * j * k
<1> DEFINE s == <<i, j, k>>
<1>1. s \in Seq(Nat) /\ Len(s) = 3 /\ s[1] = i /\ s[2] = j /\ s[3] = k
  OBVIOUS
<1> HIDE DEF s
<1>2. PICK b \in [0..3 -> Nat] : b[0] = 1 /\ (\A d \in 1..3 : b[d] = b[d - 1] * s[d]) /\ NumelOf(s) = b[3]
  BY <1>1, NumelSteps
<1>3. b[1] = b[0] * s[1] /\ b[2] = b[1] * s[2] /\ b[3] = b[2] * s[3]
  BY <1>2
<1>4. b[1] = i
  BY <1>1, <1>2, <1>3
<1> QED
  BY <1>1, <1>2, <1>3, <1>4 DEF s

\* The indices of three dimensions are triples.
LEMMA IndicesOfThree ==
  ASSUME NEW i \in Nat, NEW j \in Nat, NEW k \in Nat, NEW ix \in Indices(<<i, j, k>>)
  PROVE  \E x \in Upto(i), y \in Upto(j), z \in Upto(k) : ix = <<x, y, z>>
<1> DEFINE s == <<i, j, k>>
<1>1. s \in Seq(Nat) /\ Len(s) = 3 /\ s[1] = i /\ s[2] = j /\ s[3] = k
  OBVIOUS
<1>2. ix \in Indices(s)
  OBVIOUS
<1> HIDE DEF s
<1>3. ix = [d \in 1..3 |-> ix[d]] /\ \A d \in 1..3 : ix[d] \in Nat /\ ix[d] < s[d]
  BY <1>1, <1>2, IndexIs
<1>4. ix = <<ix[1], ix[2], ix[3]>> /\ ix[1] \in Upto(i) /\ ix[2] \in Upto(j) /\ ix[3] \in Upto(k)
  BY <1>1, <1>3 DEF Upto
<1> QED
  BY <1>4

\* Every triple has a number, and numbers with the same digits are the same.
LEMMA EveryTriple ==
  ASSUME NEW shape \in Seq(Nat), Len(shape) = 3,
         NEW i \in Upto(shape[1]), NEW j \in Upto(shape[2]), NEW k \in Upto(shape[3])
  PROVE  \E q \in Upto(NumelOf(shape)) : DigitsOfThree(shape, q, <<i, j, k>>)
<1> DEFINE ix == <<i, j, k>>
           q == Position(ix, shape)
<1>1. ix \in Indices(shape)
  BY IndexOfThree
<1> HIDE DEF ix
<1>2. q \in Upto(NumelOf(shape)) /\ IndexAt(shape, q) = ix
  BY <1>1, PositionInside, IndexAtOf
<1> HIDE DEF q
<1>3. DigitsOfThree(shape, q, ix)
  BY <1>2, IndexAtThree
<1> QED
  BY <1>2, <1>3 DEF ix

\* One position for every index.
LEMMA SamePlace ==
  ASSUME NEW shape \in Seq(Nat), NEW q \in Upto(NumelOf(shape)), NEW r \in Upto(NumelOf(shape)),
         IndexAt(shape, q) = IndexAt(shape, r)
  PROVE  q = r
<1>1. Position(IndexAt(shape, q), shape) = q /\ Position(IndexAt(shape, r), shape) = r
  BY IndexAtIs
<1> QED
  BY <1>1

\* The windows of as many output elements as the gradient has.
LEMMA WindowsFit ==
  ASSUME NEW in \in Nat, NEW out \in Nat, NEW kernel \in Nat, NEW stride \in Nat,
         ~((out - 1) * stride + kernel > in)
  PROVE  \A o \in Upto(out) : \A k \in Upto(kernel) : o * stride + k \in Upto(in)
<1> SUFFICES ASSUME NEW o \in Upto(out), NEW k \in Upto(kernel) PROVE o * stride + k \in Upto(in)
  OBVIOUS
<1>1. o \in Nat /\ o <= out - 1 /\ k \in Nat /\ k <= kernel - 1
  BY DEF Upto
<1>2. PICK e \in Nat : out - 1 = o + e
  <2>1. (out - 1) - o \in Nat /\ out - 1 = o + ((out - 1) - o)
    BY <1>1
  <2> QED
    BY <2>1
<1>3. (out - 1) * stride = o * stride + e * stride /\ o * stride \in Nat /\ e * stride \in Nat
  BY <1>1, <1>2
<1>4. PICK u, v : u = o * stride /\ v = e * stride
  OBVIOUS
<1>5. u \in Nat /\ v \in Nat /\ u + v + kernel <= in
  BY <1>3, <1>4
<1>6. u + k \in Nat /\ u + k < in
  BY <1>1, <1>5
<1> QED
  BY <1>4, <1>6 DEF Upto

-----------------------------------------------------------------------------
\* The gradients of a convolution in one dimension: in2 is the gradient of the
\* output, in3 the weight.
LineGradFits(c, p) ==
  /\ LineFits(c, 3, p) /\ c.op = "convolution_grad" /\ c.in[2] \in Tensors
  /\ ShapeOf(c, 2) = <<p.b, p.oc, p.ow>>

\* What contributes to the gradients: an output element and the two factors of
\* one of its products.
LinePart(p, n, oc, ow, ic, k) == <<<<n, oc, ow>>, LineFactors(p.sw, n, oc, ow, ic, k)>>
LinePartOf(c, p, n, oc, ow, ic, k) ==
  /\ LinePart(p, n, oc, ow, ic, k) \in Contributions(c)
  /\ X(c, 2, <<n, oc, ow>>) = At(Before(c, 2), LinePlace(n, oc, ow, p.oc, p.ow))
  /\ X(c, 1, <<n, ic, ow * p.sw + k>>) = At(Before(c, 1), LinePlace(n, ic, ow * p.sw + k, p.ic, p.iw))
  /\ X(c, 3, <<oc, ic, k>>) = At(Before(c, 3), LinePlace(oc, ic, k, p.ic, p.kw))

\* The contributions that the numbers of one dimension give.
LEMMA LinePartsOf ==
  ASSUME NEW c, NEW p, LineGradFits(c, p),
         NEW n \in Upto(p.b), NEW oc \in Upto(p.oc), NEW ow \in Upto(p.ow),
         NEW ic \in Upto(p.ic), NEW k \in Upto(p.kw)
  PROVE  LinePartOf(c, p, n, oc, ow, ic, k)
<1> DEFINE o == <<n, oc, ow>>
           Ps(i) == Products(c, ShapeOf(c, 1), ShapeOf(c, 3), i)
<1>1. LineFits(c, 3, p) /\ c.in[2] \in Tensors /\ ShapeOf(c, 2) = <<p.b, p.oc, p.ow>>
  BY DEF LineGradFits
<1>2. /\ p.b \in Nat /\ p.ic \in Nat /\ p.iw \in Nat /\ p.oc \in Nat /\ p.kw \in Nat /\ p.ow \in Nat
      /\ c.in[1] \in Tensors /\ c.in[3] \in Tensors
      /\ ShapeOf(c, 1) = <<p.b, p.ic, p.iw>> /\ ShapeOf(c, 3) = <<p.oc, p.ic, p.kw>>
  BY <1>1 DEF LineFits
<1>3. o \in Indices(ShapeOf(c, 2)) /\ X(c, 2, o) = At(Before(c, 2), LinePlace(n, oc, ow, p.oc, p.ow))
  BY <1>1, <1>2, ReadLine
<1>4. X(c, 3, <<oc, ic, k>>) = At(Before(c, 3), LinePlace(oc, ic, k, p.ic, p.kw))
  BY <1>2, ReadLine
<1>5. X(c, 1, <<n, ic, ow * p.sw + k>>) = At(Before(c, 1), LinePlace(n, ic, ow * p.sw + k, p.ic, p.iw))
  <2>1. PICK x : x = ow * p.sw + k
    OBVIOUS
  <2>2. x \in Upto(p.iw)
    BY <1>1, <2>1 DEF LineFits
  <2>3. X(c, 1, <<n, ic, x>>) = At(Before(c, 1), LinePlace(n, ic, x, p.ic, p.iw))
    BY <1>2, <2>2, ReadLine
  <2> QED
    BY <2>1, <2>3
<1>6. LinePart(p, n, oc, ow, ic, k) \in Contributions(c)
  <2> DEFINE q == LineFactors(p.sw, n, oc, ow, ic, k)
  <2>1. Ps(o) = {LineFactors(p.sw, n, oc, ow, r[1], r[2]) : r \in Upto(p.ic) \X Upto(p.kw)}
    BY <1>1, LineProducts
  <2>2. <<ic, k>> \in Upto(p.ic) \X Upto(p.kw) /\ <<ic, k>>[1] = ic /\ <<ic, k>>[2] = k
    OBVIOUS
  <2>3. q \in Ps(o)
    BY <2>1, <2>2
  <2>4. Contributions(c) = UNION {{<<i, r>> : r \in Ps(i)} : i \in Indices(ShapeOf(c, 2))}
    BY DEF Contributions, AllOf
  <2> HIDE DEF Ps, q, o
  <2>5. <<o, q>> \in Contributions(c)
    BY <1>3, <2>3, <2>4
  <2> QED
    BY <2>5 DEF LinePart, o, q
<1> QED
  BY <1>3, <1>4, <1>5, <1>6, Zenon DEF LinePartOf, o

\* There is nothing else.
IsLinePart(p, q) ==
  \E n \in Upto(p.b), oc \in Upto(p.oc), ow \in Upto(p.ow), ic \in Upto(p.ic), k \in Upto(p.kw) :
    q = LinePart(p, n, oc, ow, ic, k)
\* There are no others.
LEMMA EveryLinePart ==
  ASSUME NEW c, NEW p, LineGradFits(c, p), NEW q \in Contributions(c)
  PROVE  IsLinePart(p, q)
<1> DEFINE Ps(i) == Products(c, ShapeOf(c, 1), ShapeOf(c, 3), i)
<1>1. LineFits(c, 3, p) /\ ShapeOf(c, 2) = <<p.b, p.oc, p.ow>>
  BY DEF LineGradFits
<1>2. p.b \in Nat /\ p.oc \in Nat /\ p.ow \in Nat
  BY <1>1 DEF LineFits
<1>3. Contributions(c) = UNION {{<<i, r>> : r \in Ps(i)} : i \in Indices(ShapeOf(c, 2))}
  BY DEF Contributions, AllOf
<1> HIDE DEF Ps
<1>4. PICK o \in Indices(ShapeOf(c, 2)) : q \in {<<o, r>> : r \in Ps(o)}
  BY <1>3
<1>5. PICK f \in Ps(o) : q = <<o, f>>
  BY <1>4
<1>6. PICK n \in Upto(p.b), oc \in Upto(p.oc), ow \in Upto(p.ow) : o = <<n, oc, ow>>
  BY <1>1, <1>2, IndicesOfThree
<1>7. Ps(o) = {LineFactors(p.sw, n, oc, ow, r[1], r[2]) : r \in Upto(p.ic) \X Upto(p.kw)}
  BY <1>1, <1>6, LineProducts DEF Ps
<1>8. PICK r \in Upto(p.ic) \X Upto(p.kw) : f = LineFactors(p.sw, n, oc, ow, r[1], r[2])
  BY <1>5, <1>7
<1>9. q = LinePart(p, n, oc, ow, r[1], r[2]) /\ r[1] \in Upto(p.ic) /\ r[2] \in Upto(p.kw)
  BY <1>5, <1>6, <1>8 DEF LinePart
<1> QED
  BY <1>9 DEF IsLinePart

\* The parts of a contribution.
LEMMA LinePartParts ==
  ASSUME NEW p, NEW n, NEW oc, NEW ow, NEW ic, NEW k
  PROVE  LET q == LinePart(p, n, oc, ow, ic, k)
         IN q[1] = <<n, oc, ow>> /\ q[2][1] = <<n, ic, ow * p.sw + k>> /\ q[2][2] = <<oc, ic, k>>
BY DEF LinePart, LineFactors

-----------------------------------------------------------------------------
\* Number r of <<i, j, k>> among I x J x K.
Digits3(I, J, K, r, i, j, k) ==
  /\ i \in Upto(I) /\ j \in Upto(J) /\ k \in Upto(K)
  /\ r % K = k /\ (r \div K) % J = j /\ (r \div K) \div J = i

\* Every number below a product of three is given by three digits.
LEMMA DigitsFound ==
  ASSUME NEW I \in Nat, NEW J \in Nat, NEW K \in Nat, NEW r \in Upto(I * J * K)
  PROVE  \E i, j, k : Digits3(I, J, K, r, i, j, k)
<1> DEFINE s == <<I, J, K>>
           ix == IndexAt(s, r)
<1>1. s \in Seq(Nat) /\ Len(s) = 3 /\ s[1] = I /\ s[2] = J /\ s[3] = K
  OBVIOUS
<1>2. r \in Upto(NumelOf(s))
  BY NumelOfThree
<1> HIDE DEF s
<1>3. DigitsOfThree(s, r, ix)
  BY <1>1, <1>2, IndexAtThree
<1> HIDE DEF ix
<1>4. Digits3(I, J, K, r, ix[1], ix[2], ix[3])
  BY <1>1, <1>3 DEF DigitsOfThree, Digits3
<1> QED
  BY <1>4

\* Three digits give a number.
LEMMA NumberFound ==
  ASSUME NEW I \in Nat, NEW J \in Nat, NEW K \in Nat, NEW i \in Upto(I), NEW j \in Upto(J), NEW k \in Upto(K)
  PROVE  \E r \in Upto(I * J * K) : Digits3(I, J, K, r, i, j, k)
<1> DEFINE s == <<I, J, K>>
           ix == <<i, j, k>>
<1>1. s \in Seq(Nat) /\ Len(s) = 3 /\ s[1] = I /\ s[2] = J /\ s[3] = K
  OBVIOUS
<1>2. NumelOf(s) = I * J * K
  BY NumelOfThree
<1> HIDE DEF s
<1>3. PICK r \in Upto(NumelOf(s)) : DigitsOfThree(s, r, ix)
  BY <1>1, EveryTriple
<1>4. ix[1] = i /\ ix[2] = j /\ ix[3] = k
  OBVIOUS
<1> HIDE DEF ix
<1>5. Digits3(I, J, K, r, i, j, k)
  BY <1>1, <1>3, <1>4 DEF DigitsOfThree, Digits3
<1> QED
  BY <1>2, <1>3, <1>5

\* And only one.
LEMMA NumberIsOne ==
  ASSUME NEW I \in Nat, NEW J \in Nat, NEW K \in Nat, NEW r \in Upto(I * J * K), NEW t \in Upto(I * J * K),
         NEW i, NEW j, NEW k, Digits3(I, J, K, r, i, j, k), Digits3(I, J, K, t, i, j, k)
  PROVE  r = t
<1> DEFINE s == <<I, J, K>>
<1>1. s \in Seq(Nat) /\ Len(s) = 3 /\ s[1] = I /\ s[2] = J /\ s[3] = K
  OBVIOUS
<1>2. r \in Upto(NumelOf(s)) /\ t \in Upto(NumelOf(s))
  BY NumelOfThree
<1> HIDE DEF s
<1>3. DigitsOfThree(s, r, IndexAt(s, r)) /\ DigitsOfThree(s, t, IndexAt(s, t))
  BY <1>1, <1>2, IndexAtThree
<1>4. IndexAt(s, r) = <<i, j, k>>
  <2> DEFINE ix == IndexAt(s, r)
  <2> HIDE DEF ix
  <2> QED
    BY <1>1, <1>3 DEF DigitsOfThree, Digits3, ix
<1>5. IndexAt(s, t) = <<i, j, k>>
  <2> DEFINE ix == IndexAt(s, t)
  <2> HIDE DEF ix
  <2> QED
    BY <1>1, <1>3 DEF DigitsOfThree, Digits3, ix
<1> QED
  BY <1>1, <1>2, <1>4, <1>5, SamePlace

\* Number r of <<i, j>> among I x J.
Digits2(I, J, r, i, j) == i \in Upto(I) /\ j \in Upto(J) /\ r \div J = i /\ r % J = j

\* A product of two as the elements of a matrix.
LEMMA PairRows ==
  ASSUME NEW I \in Nat, NEW J \in Nat
  PROVE  IsRows(<<I, J>>, I, J) /\ NumelOf(<<I, J>>) = I * J /\ Len(<<I, J>>) = 2
<1> DEFINE s == <<I, J>>
<1>1. s \in Seq(Nat) /\ Len(s) = 2 /\ s[1] = I /\ s[2] = J
  OBVIOUS
<1> HIDE DEF s
<1>2. IsRows(s, I, J)
  BY <1>1 DEF IsRows
<1>3. NumelOf(s) = I * J
  BY <1>1, NumelOfFew
<1> QED
  BY <1>1, <1>2, <1>3 DEF s

\* Every number below it is given by two digits.
LEMMA PairDigits ==
  ASSUME NEW I \in Nat, NEW J \in Nat, NEW r \in Upto(I * J)
  PROVE  Digits2(I, J, r, r \div J, r % J)
<1>1. IsRows(<<I, J>>, I, J)
  BY PairRows
<1>2. r \div J \in Upto(I) /\ r % J \in Upto(J)
  BY <1>1, CellAt
<1> QED
  BY <1>2 DEF Digits2

\* Two digits give a number.
LEMMA PairNumber ==
  ASSUME NEW I \in Nat, NEW J \in Nat, NEW i \in Upto(I), NEW j \in Upto(J)
  PROVE  \E r \in Upto(I * J) : Digits2(I, J, r, i, j)
<1> DEFINE s == <<I, J>>
           ix == Cell(Len(s), i, j)
           r == Position(ix, s)
<1>1. IsRows(s, I, J) /\ NumelOf(s) = I * J /\ s \in Seq(Nat)
  BY PairRows
<1> HIDE DEF s
<1>2. ix \in Indices(s) /\ r = i * J + j
  BY <1>1, CellIs
<1> HIDE DEF ix
<1>3. r \in Upto(I * J)
  BY <1>1, <1>2, PositionInside
<1>4. J \in Nat \ {0} /\ i \in Nat /\ j \in 0..(J - 1)
  BY DEF Upto
<1>5. (i * J + j) % J = j /\ (i * J + j) \div J = i
  BY <1>4, RowAndColumn
<1> HIDE DEF r
<1> QED
  BY <1>2, <1>3, <1>5 DEF Digits2

\* And only one.
LEMMA PairIsOne ==
  ASSUME NEW I \in Nat, NEW J \in Nat, NEW r \in Upto(I * J), NEW t \in Upto(I * J),
         r \div J = t \div J, r % J = t % J
  PROVE  r = t
<1>1. J \in Nat \ {0} /\ r \in Nat /\ t \in Nat
  <2>1. r % J \in Upto(J)
    <3>1. Digits2(I, J, r, r \div J, r % J)
      BY PairDigits
    <3> QED
      BY <3>1 DEF Digits2
  <2> QED
    BY <2>1 DEF Upto
<1>2. J * (r \div J) = r - (r % J) /\ J * (t \div J) = t - (t % J)
  BY <1>1, QuotientAndRemainder
<1>3. PICK u, v : u = J * (r \div J) /\ v = r % J
  OBVIOUS
<1>4. v \in Nat /\ r = u + v /\ t = u + v
  <2>1. v \in Upto(J) /\ u = r - v /\ u = t - v
    <3>1. Digits2(I, J, r, r \div J, r % J)
      BY PairDigits
    <3> QED
      BY <1>2, <1>3, <3>1 DEF Digits2
  <2> QED
    BY <1>1, <2>1 DEF Upto
<1> QED
  BY <1>4

-----------------------------------------------------------------------------
\* The kernels step along a line from where a window begins.
LineStep(b, ch, u, k, C, W) == b * C * W + ch * W + u + k
LineStepIs(b, ch, u, k, C, W) == LineStep(b, ch, u, k, C, W) = LinePlace(b, ch, u + k, C, W)
\* The place a kernel reaches by steps of its window, multiplied out.
LEMMA LineSteps ==
  ASSUME NEW b \in Nat, NEW ch \in Nat, NEW u \in Nat, NEW k \in Nat, NEW C \in Nat, NEW W \in Nat
  PROVE  LineStepIs(b, ch, u, k, C, W)
<1>1. b * C * W \in Nat /\ ch * W \in Nat
  OBVIOUS
<1> QED
  BY <1>1 DEF LineStepIs, LineStep, LinePlace

\* The order of factors does not count.
LEMMA TimesCommutes == ASSUME NEW a, NEW b PROVE Times(a, b) = Times(b, a)
  BY DEF Times

\* The sums that the kernels of one dimension make.
LineInputTerms(p, x) ==
  {r \in Upto(p.oc * p.ow * p.kw) : ((r \div p.kw) % p.ow) * p.sw + (r % p.kw) = x}
LineInputGrad(c, p, n, ic, x) ==
  SumOf(LineInputTerms(p, x), LAMBDA r :
    Times(At(Before(c, 2), LinePlace(n, (r \div p.kw) \div p.ow, (r \div p.kw) % p.ow, p.oc, p.ow)),
          At(Before(c, 3), LinePlace((r \div p.kw) \div p.ow, ic, r % p.kw, p.ic, p.kw))))
LineWeightGrad(c, p, oc, ic, k) ==
  SumOf(Upto(p.b * p.ow), LAMBDA r :
    Times(At(Before(c, 1), LineStep(r \div p.ow, ic, (r % p.ow) * p.sw, k, p.ic, p.iw)),
          At(Before(c, 2), LinePlace(r \div p.ow, oc, r % p.ow, p.oc, p.ow))))
LineBiasGrad(c, p, oc) ==
  SumOf(Upto(p.b) \X Upto(p.ow), LAMBDA r : At(Before(c, 2), LinePlace(r[1], oc, r[2], p.oc, p.ow)))

\* The gradient of an element of the input.
LEMMA LineInputGradient ==
  ASSUME NEW c, NEW p, LineGradFits(c, p), NEW n \in Upto(p.b), NEW ic \in Upto(p.ic), NEW x
  PROVE  LineInputGrad(c, p, n, ic, x) = InputSum(c, <<n, ic, x>>)
<1> DEFINE ix == <<n, ic, x>>
           S == LineInputTerms(p, x)
           T == {q \in Contributions(c) : q[2][1] = ix}
           h == [r \in S |-> LinePart(p, n, (r \div p.kw) \div p.ow, (r \div p.kw) % p.ow, ic, r % p.kw)]
           f == [r \in S |->
             Times(At(Before(c, 2), LinePlace(n, (r \div p.kw) \div p.ow, (r \div p.kw) % p.ow, p.oc, p.ow)),
                   At(Before(c, 3), LinePlace((r \div p.kw) \div p.ow, ic, r % p.kw, p.ic, p.kw)))]
           g == [q \in T |-> Times(X(c, 2, q[1]), X(c, 3, q[2][2]))]
           Addend(r, oc, ow, k) ==
             /\ Digits3(p.oc, p.ow, p.kw, r, oc, ow, k) /\ ow * p.sw + k = x
             /\ h[r] = LinePart(p, n, oc, ow, ic, k) /\ h[r] \in T
             /\ f[r] = Times(X(c, 2, <<n, oc, ow>>), X(c, 3, <<oc, ic, k>>))
<1>1. LineInputGrad(c, p, n, ic, x) = <<"sum", BagOf(f)>>
  BY Zenon DEF LineInputGrad, SumOf
<1>2. InputSum(c, ix) = <<"sum", BagOf(g)>>
  BY Zenon DEF InputSum, SumOf
<1>3. p.oc \in Nat /\ p.ow \in Nat /\ p.kw \in Nat
  BY DEF LineGradFits, LineFits
<1>9. DOMAIN f = S /\ DOMAIN g = T /\ h = [r \in S |-> h[r]]
  OBVIOUS
<1> HIDE DEF ix, S, T, h, f, g, Addend
<1>4. ASSUME NEW r \in S PROVE \E oc, ow, k : Addend(r, oc, ow, k)
  <2>1. r \in Upto(p.oc * p.ow * p.kw) /\ ((r \div p.kw) % p.ow) * p.sw + (r % p.kw) = x
    BY DEF S, LineInputTerms
  <2>2. PICK oc, ow, k : Digits3(p.oc, p.ow, p.kw, r, oc, ow, k)
    BY <1>3, <2>1, DigitsFound
  <2>3. /\ oc \in Upto(p.oc) /\ ow \in Upto(p.ow) /\ k \in Upto(p.kw)
        /\ r % p.kw = k /\ (r \div p.kw) % p.ow = ow /\ (r \div p.kw) \div p.ow = oc
    BY <2>2 DEF Digits3
  <2>4. LinePartOf(c, p, n, oc, ow, ic, k)
    BY <2>3, LinePartsOf
  <2>5. ow * p.sw + k = x
    BY <2>1, <2>3
  <2>6. h[r] = LinePart(p, n, oc, ow, ic, k)
    BY <2>3, Zenon DEF h
  <2>7. f[r] = Times(At(Before(c, 2), LinePlace(n, oc, ow, p.oc, p.ow)),
                     At(Before(c, 3), LinePlace(oc, ic, k, p.ic, p.kw)))
    BY <2>3, Zenon DEF f
  <2>8. LinePart(p, n, oc, ow, ic, k) \in T
    <3>1. LinePart(p, n, oc, ow, ic, k)[2][1] = <<n, ic, ow * p.sw + k>>
      BY LinePartParts
    <3>2. LinePart(p, n, oc, ow, ic, k) \in Contributions(c)
      BY <2>4, Zenon DEF LinePartOf
    <3>3. LinePart(p, n, oc, ow, ic, k)[2][1] = ix
      BY <2>5, <3>1 DEF ix
    <3> QED
      BY <3>2, <3>3, Zenon DEF T
  <2>9. Addend(r, oc, ow, k)
    <3>1. X(c, 2, <<n, oc, ow>>) = At(Before(c, 2), LinePlace(n, oc, ow, p.oc, p.ow))
          /\ X(c, 3, <<oc, ic, k>>) = At(Before(c, 3), LinePlace(oc, ic, k, p.ic, p.kw))
      BY <2>4, Zenon DEF LinePartOf
    <3>2. f[r] = Times(X(c, 2, <<n, oc, ow>>), X(c, 3, <<oc, ic, k>>))
      BY <2>7, <3>1, Zenon
    <3>3. h[r] \in T
      BY <2>6, <2>8, Zenon
    <3> QED
      BY <2>2, <2>5, <2>6, <3>2, <3>3, Zenon DEF Addend
  <2> QED
    BY <2>9, Zenon
<1>5. \A r \in S : h[r] \in T /\ f[r] = g[h[r]]
  <2> SUFFICES ASSUME NEW r \in S PROVE h[r] \in T /\ f[r] = g[h[r]]
    OBVIOUS
  <2>1. PICK oc, ow, k : Addend(r, oc, ow, k)
    BY <1>4
  <2> DEFINE q == LinePart(p, n, oc, ow, ic, k)
  <2>2. q[1] = <<n, oc, ow>> /\ q[2][2] = <<oc, ic, k>>
    BY LinePartParts
  <2> HIDE DEF q
  <2>3. h[r] = q /\ q \in T /\ f[r] = Times(X(c, 2, <<n, oc, ow>>), X(c, 3, <<oc, ic, k>>))
    BY <2>1, Zenon DEF Addend, q
  <2>4. g[q] = Times(X(c, 2, q[1]), X(c, 3, q[2][2]))
    BY <2>3, Zenon DEF g
  <2> QED
    BY <2>2, <2>3, <2>4, Zenon
<1>6. \A r \in S, t \in S : h[r] = h[t] => r = t
  <2> SUFFICES ASSUME NEW r \in S, NEW t \in S, h[r] = h[t] PROVE r = t
    OBVIOUS
  <2>1. PICK oc, ow, k : Addend(r, oc, ow, k)
    BY <1>4
  <2>2. PICK oc2, ow2, k2 : Addend(t, oc2, ow2, k2)
    BY <1>4
  <2>3. LinePart(p, n, oc, ow, ic, k) = LinePart(p, n, oc2, ow2, ic, k2)
    BY <2>1, <2>2, Zenon DEF Addend
  <2>4. <<n, oc, ow>> = <<n, oc2, ow2>> /\ <<oc, ic, k>> = <<oc2, ic, k2>>
    BY <2>3, LinePartParts
  <2>6. Digits3(p.oc, p.ow, p.kw, r, oc, ow, k) /\ Digits3(p.oc, p.ow, p.kw, t, oc2, ow2, k2)
    BY <2>1, <2>2, Zenon DEF Addend
  <2>5. oc = oc2 /\ ow = ow2 /\ k = k2
    BY <2>4, TripleParts
  <2>7. r \in Upto(p.oc * p.ow * p.kw) /\ t \in Upto(p.oc * p.ow * p.kw)
    BY DEF S, LineInputTerms
  <2> QED
    BY <1>3, <2>5, <2>6, <2>7, NumberIsOne
<1>7. \A q \in T : \E r \in S : q = h[r]
  <2> SUFFICES ASSUME NEW q \in T PROVE \E r \in S : q = h[r]
    OBVIOUS
  <2>1. q \in Contributions(c) /\ q[2][1] = <<n, ic, x>>
    BY DEF T, ix
  <2>2. IsLinePart(p, q)
    BY <2>1, EveryLinePart
  <2>3. PICK m \in Upto(p.b), oc \in Upto(p.oc), ow \in Upto(p.ow), j \in Upto(p.ic), k \in Upto(p.kw) :
          q = LinePart(p, m, oc, ow, j, k)
    BY <2>2 DEF IsLinePart
  <2>4. <<m, j, ow * p.sw + k>> = <<n, ic, x>>
    BY <2>1, <2>3, LinePartParts
  <2>5. m = n /\ j = ic /\ ow * p.sw + k = x
    BY <2>4, TripleParts
  <2>6. PICK r \in Upto(p.oc * p.ow * p.kw) : Digits3(p.oc, p.ow, p.kw, r, oc, ow, k)
    BY <1>3, NumberFound
  <2>7. r % p.kw = k /\ (r \div p.kw) % p.ow = ow /\ (r \div p.kw) \div p.ow = oc
    BY <2>6 DEF Digits3
  <2>8. r \in S
    BY <2>5, <2>6, <2>7 DEF S, LineInputTerms
  <2>9. h[r] = q
    BY <2>3, <2>5, <2>7, <2>8, Zenon DEF h
  <2> QED
    BY <2>8, <2>9, Zenon
<1>8. IsFiniteSet(S)
  <2>1. p.oc * p.ow * p.kw \in Nat
    BY <1>3
  <2>2. IsFiniteSet(Upto(p.oc * p.ow * p.kw))
    BY <2>1, UptoFinite
  <2>3. S \subseteq Upto(p.oc * p.ow * p.kw)
    BY DEF S, LineInputTerms
  <2> QED
    BY <2>2, <2>3, FS_Subset
<1>10. BagOf(f) = BagOf(g)
  BY <1>5, <1>6, <1>7, <1>8, <1>9, SumsAgree
<1> QED
  BY <1>1, <1>2, <1>10 DEF ix

\* The gradient of an element of the weight.
LEMMA LineWeightGradient ==
  ASSUME NEW c, NEW p, LineGradFits(c, p), NEW oc \in Upto(p.oc), NEW ic \in Upto(p.ic), NEW k \in Upto(p.kw)
  PROVE  LineWeightGrad(c, p, oc, ic, k) = WeightSum(c, <<oc, ic, k>>)
<1> DEFINE ix == <<oc, ic, k>>
           S == Upto(p.b * p.ow)
           T == {q \in Contributions(c) : q[2][2] = ix}
           h == [r \in S |-> LinePart(p, r \div p.ow, oc, r % p.ow, ic, k)]
           f == [r \in S |->
             Times(At(Before(c, 1), LineStep(r \div p.ow, ic, (r % p.ow) * p.sw, k, p.ic, p.iw)),
                   At(Before(c, 2), LinePlace(r \div p.ow, oc, r % p.ow, p.oc, p.ow)))]
           g == [q \in T |-> Times(X(c, 2, q[1]), X(c, 1, q[2][1]))]
           Addend(r, n, ow) ==
             /\ Digits2(p.b, p.ow, r, n, ow)
             /\ h[r] = LinePart(p, n, oc, ow, ic, k) /\ h[r] \in T
             /\ f[r] = Times(X(c, 2, <<n, oc, ow>>), X(c, 1, <<n, ic, ow * p.sw + k>>))
<1>1. LineWeightGrad(c, p, oc, ic, k) = <<"sum", BagOf(f)>>
  BY Zenon DEF LineWeightGrad, SumOf
<1>2. WeightSum(c, ix) = <<"sum", BagOf(g)>>
  BY Zenon DEF WeightSum, SumOf
<1>3. /\ p.b \in Nat /\ p.ow \in Nat /\ p.kw \in Nat /\ p.ic \in Nat /\ p.iw \in Nat /\ p.sw \in Nat
      /\ p.b * p.ow \in Nat
  BY DEF LineGradFits, LineFits
<1>4. DOMAIN f = S /\ DOMAIN g = T /\ h = [r \in S |-> h[r]]
  OBVIOUS
<1> HIDE DEF ix, S, T, h, f, g, Addend
<1>5. ASSUME NEW r \in S PROVE \E n, ow : Addend(r, n, ow)
  <2> DEFINE n == r \div p.ow
             ow == r % p.ow
  <2>1. Digits2(p.b, p.ow, r, n, ow)
    BY <1>3, PairDigits DEF S
  <2>2. h[r] = LinePart(p, n, oc, ow, ic, k)
    BY Zenon DEF h
  <2>3. f[r] = Times(At(Before(c, 1), LineStep(n, ic, ow * p.sw, k, p.ic, p.iw)),
                     At(Before(c, 2), LinePlace(n, oc, ow, p.oc, p.ow)))
    BY Zenon DEF f
  <2> HIDE DEF n, ow
  <2>4. n \in Upto(p.b) /\ ow \in Upto(p.ow)
    BY <2>1, Zenon DEF Digits2
  <2>5. LinePartOf(c, p, n, oc, ow, ic, k)
    BY <2>4, LinePartsOf
  <2>6. LineStep(n, ic, ow * p.sw, k, p.ic, p.iw) = LinePlace(n, ic, ow * p.sw + k, p.ic, p.iw)
    <3>1. n \in Nat /\ ow \in Nat /\ ic \in Nat /\ k \in Nat
      BY <2>4 DEF Upto
    <3>2. PICK u \in Nat : u = ow * p.sw
      BY <1>3, <3>1
    <3>3. LineStepIs(n, ic, u, k, p.ic, p.iw)
      BY <1>3, <3>1, LineSteps
    <3> QED
      BY <3>2, <3>3, Zenon DEF LineStepIs
  <2>7. h[r] \in T
    <3>1. LinePart(p, n, oc, ow, ic, k) \in Contributions(c)
      BY <2>5, Zenon DEF LinePartOf
    <3>2. LinePart(p, n, oc, ow, ic, k)[2][2] = ix
      BY LinePartParts DEF ix
    <3> QED
      BY <2>2, <3>1, <3>2, Zenon DEF T
  <2>8. f[r] = Times(X(c, 2, <<n, oc, ow>>), X(c, 1, <<n, ic, ow * p.sw + k>>))
    <3>1. f[r] = Times(X(c, 1, <<n, ic, ow * p.sw + k>>), X(c, 2, <<n, oc, ow>>))
      BY <2>3, <2>5, <2>6, Zenon DEF LinePartOf
    <3> QED
      BY <3>1, TimesCommutes, Zenon
  <2>9. Addend(r, n, ow)
    BY <2>1, <2>2, <2>7, <2>8, Zenon DEF Addend
  <2> QED
    BY <2>9, Zenon
<1>6. \A r \in S : h[r] \in T /\ f[r] = g[h[r]]
  <2> SUFFICES ASSUME NEW r \in S PROVE h[r] \in T /\ f[r] = g[h[r]]
    OBVIOUS
  <2>1. PICK n, ow : Addend(r, n, ow)
    BY <1>5
  <2> DEFINE q == LinePart(p, n, oc, ow, ic, k)
  <2>2. q[1] = <<n, oc, ow>> /\ q[2][1] = <<n, ic, ow * p.sw + k>>
    BY LinePartParts
  <2> HIDE DEF q
  <2>3. h[r] = q /\ q \in T /\ f[r] = Times(X(c, 2, <<n, oc, ow>>), X(c, 1, <<n, ic, ow * p.sw + k>>))
    BY <2>1, Zenon DEF Addend, q
  <2>4. g[q] = Times(X(c, 2, q[1]), X(c, 1, q[2][1]))
    BY <2>3, Zenon DEF g
  <2> QED
    BY <2>2, <2>3, <2>4, Zenon
<1>7. \A r \in S, t \in S : h[r] = h[t] => r = t
  <2> SUFFICES ASSUME NEW r \in S, NEW t \in S, h[r] = h[t] PROVE r = t
    OBVIOUS
  <2>1. PICK n, ow : Addend(r, n, ow)
    BY <1>5
  <2>2. PICK n2, ow2 : Addend(t, n2, ow2)
    BY <1>5
  <2>3. LinePart(p, n, oc, ow, ic, k) = LinePart(p, n2, oc, ow2, ic, k)
    BY <2>1, <2>2, Zenon DEF Addend
  <2>4. <<n, oc, ow>> = <<n2, oc, ow2>>
    BY <2>3, LinePartParts
  <2>5. Digits2(p.b, p.ow, r, n, ow) /\ Digits2(p.b, p.ow, t, n2, ow2)
    BY <2>1, <2>2, Zenon DEF Addend
  <2>6. n = n2 /\ ow = ow2
    BY <2>4, TripleParts
  <2>7. r \div p.ow = t \div p.ow /\ r % p.ow = t % p.ow
    BY <2>5, <2>6, Zenon DEF Digits2
  <2>8. r \in Upto(p.b * p.ow) /\ t \in Upto(p.b * p.ow)
    BY Zenon DEF S
  <2> QED
    BY <1>3, <2>7, <2>8, PairIsOne
<1>8. \A q \in T : \E r \in S : q = h[r]
  <2> SUFFICES ASSUME NEW q \in T PROVE \E r \in S : q = h[r]
    OBVIOUS
  <2>1. q \in Contributions(c) /\ q[2][2] = <<oc, ic, k>>
    BY DEF T, ix
  <2>2. IsLinePart(p, q)
    BY <2>1, EveryLinePart
  <2>3. PICK n \in Upto(p.b), i \in Upto(p.oc), ow \in Upto(p.ow), j \in Upto(p.ic), l \in Upto(p.kw) :
          q = LinePart(p, n, i, ow, j, l)
    BY <2>2 DEF IsLinePart
  <2>4. <<i, j, l>> = <<oc, ic, k>>
    BY <2>1, <2>3, LinePartParts
  <2>5. i = oc /\ j = ic /\ l = k
    BY <2>4, TripleParts
  <2>6. PICK r \in Upto(p.b * p.ow) : Digits2(p.b, p.ow, r, n, ow)
    BY <1>3, PairNumber
  <2>7. r \div p.ow = n /\ r % p.ow = ow /\ r \in S
    BY <2>6, Zenon DEF Digits2, S
  <2>8. h[r] = q
    BY <2>3, <2>5, <2>7, Zenon DEF h
  <2> QED
    BY <2>7, <2>8, Zenon
<1>9. IsFiniteSet(S)
  BY <1>3, UptoFinite DEF S
<1>10. BagOf(f) = BagOf(g)
  BY <1>4, <1>6, <1>7, <1>8, <1>9, SumsAgree
<1> QED
  BY <1>1, <1>2, <1>10 DEF ix

\* The gradient of an element of the bias.
LEMMA LineBiasGradient ==
  ASSUME NEW c, NEW p, LineGradFits(c, p), NEW oc \in Upto(p.oc)
  PROVE  LineBiasGrad(c, p, oc) = BiasSum(c, 2, oc)
<1> DEFINE S == Upto(p.b) \X Upto(p.ow)
           T == {o \in AllOf(c, 2) : o[2] = oc}
           h == [r \in S |-> <<r[1], oc, r[2]>>]
           f == [r \in S |-> At(Before(c, 2), LinePlace(r[1], oc, r[2], p.oc, p.ow))]
           g == [o \in T |-> X(c, 2, o)]
<1>1. LineBiasGrad(c, p, oc) = <<"sum", BagOf(f)>>
  BY Zenon DEF LineBiasGrad, SumOf
<1>2. BiasSum(c, 2, oc) = <<"sum", BagOf(g)>>
  BY Zenon DEF BiasSum, SumOf
<1>3. /\ p.b \in Nat /\ p.ow \in Nat /\ p.oc \in Nat
      /\ c.in[2] \in Tensors /\ ShapeOf(c, 2) = <<p.b, p.oc, p.ow>>
  BY DEF LineGradFits, LineFits
<1>4. DOMAIN f = S /\ DOMAIN g = T /\ h = [r \in S |-> h[r]]
  OBVIOUS
<1>5. IsFiniteSet(S)
  BY <1>3, UptoFinite, FS_Product
<1>6. \A r \in S : r = <<r[1], r[2]>> /\ r[1] \in Upto(p.b) /\ r[2] \in Upto(p.ow)
  OBVIOUS
<1>7. \A n \in Upto(p.b), x \in Upto(p.ow) : <<n, x>> \in S /\ <<n, x>>[1] = n /\ <<n, x>>[2] = x
  OBVIOUS
<1> HIDE DEF S, T, h, f, g
<1>8. \A r \in S : h[r] \in T /\ f[r] = g[h[r]]
  <2> SUFFICES ASSUME NEW r \in S PROVE h[r] \in T /\ f[r] = g[h[r]]
    OBVIOUS
  <2> DEFINE o == <<r[1], oc, r[2]>>
  <2>1. o \in Indices(ShapeOf(c, 2)) /\ At(Before(c, 2), LinePlace(r[1], oc, r[2], p.oc, p.ow)) = X(c, 2, o)
    BY <1>3, <1>6, ReadLine
  <2>2. o[2] = oc
    OBVIOUS
  <2> HIDE DEF o
  <2>3. o \in T
    BY <2>1, <2>2, Zenon DEF T, AllOf
  <2>4. h[r] = o
    BY Zenon DEF h, o
  <2>5. f[r] = X(c, 2, o) /\ g[o] = X(c, 2, o)
    BY <2>1, <2>3, Zenon DEF f, g
  <2> QED
    BY <2>3, <2>4, <2>5, Zenon
<1>9. \A r \in S, t \in S : h[r] = h[t] => r = t
  <2> SUFFICES ASSUME NEW r \in S, NEW t \in S, h[r] = h[t] PROVE r = t
    OBVIOUS
  <2>1. <<r[1], oc, r[2]>> = <<t[1], oc, t[2]>>
    BY Zenon DEF h
  <2>2. r[1] = t[1] /\ r[2] = t[2]
    BY <2>1, TripleParts
  <2> QED
    BY <1>6, <2>2
<1>10. \A o \in T : \E r \in S : o = h[r]
  <2> SUFFICES ASSUME NEW o \in T PROVE \E r \in S : o = h[r]
    OBVIOUS
  <2>1. o \in Indices(ShapeOf(c, 2)) /\ o[2] = oc
    BY Zenon DEF T, AllOf
  <2>2. PICK n \in Upto(p.b), j \in Upto(p.oc), x \in Upto(p.ow) : o = <<n, j, x>>
    BY <1>3, <2>1, IndicesOfThree
  <2>3. j = oc
    BY <2>1, <2>2
  <2>4. h[<<n, x>>] = <<<<n, x>>[1], oc, <<n, x>>[2]>>
    BY <1>7, Zenon DEF h
  <2>5. h[<<n, x>>] = o
    BY <1>7, <2>2, <2>3, <2>4
  <2> QED
    BY <1>7, <2>5
<1>11. BagOf(f) = BagOf(g)
  BY <1>4, <1>5, <1>8, <1>9, <1>10, SumsAgree
<1> QED
  BY <1>1, <1>2, <1>11

-----------------------------------------------------------------------------
\* The indices of four dimensions are quadruples.
IsQuadruple(i, j, k, l, ix) ==
  \E w \in Upto(i), x \in Upto(j), y \in Upto(k), z \in Upto(l) : ix = <<w, x, y, z>>
\* An index of four dimensions is four numbers in their ranges.
LEMMA IndicesOfFour ==
  ASSUME NEW i \in Nat, NEW j \in Nat, NEW k \in Nat, NEW l \in Nat, NEW ix \in Indices(<<i, j, k, l>>)
  PROVE  IsQuadruple(i, j, k, l, ix)
<1> DEFINE s == <<i, j, k, l>>
<1>1. s \in Seq(Nat) /\ Len(s) = 4 /\ s[1] = i /\ s[2] = j /\ s[3] = k /\ s[4] = l
  OBVIOUS
<1>2. ix \in Indices(s)
  OBVIOUS
<1> HIDE DEF s
<1>3. ix = [d \in 1..4 |-> ix[d]] /\ \A d \in 1..4 : ix[d] \in Nat /\ ix[d] < s[d]
  BY <1>1, <1>2, IndexIs
<1>4. /\ ix = <<ix[1], ix[2], ix[3], ix[4]>>
      /\ ix[1] \in Upto(i) /\ ix[2] \in Upto(j) /\ ix[3] \in Upto(k) /\ ix[4] \in Upto(l)
  BY <1>1, <1>3 DEF Upto
<1> QED
  BY <1>4, Zenon DEF IsQuadruple

\* The gradients of a convolution in two dimensions.
PlaneGradFits(c, p) ==
  /\ PlaneFits(c, 3, p) /\ c.op = "convolution_grad" /\ c.in[2] \in Tensors
  /\ ShapeOf(c, 2) = <<p.b, p.oc, p.oh, p.ow>>

PlanePart(p, n, oc, oy, ox, ic, ky, kx) ==
  <<<<n, oc, oy, ox>>, PlaneFactors(p.sh, p.sw, n, oc, oy, ox, ic, ky, kx)>>
PlanePartOf(c, p, n, oc, oy, ox, ic, ky, kx) ==
  /\ PlanePart(p, n, oc, oy, ox, ic, ky, kx) \in Contributions(c)
  /\ X(c, 2, <<n, oc, oy, ox>>) = At(Before(c, 2), PlanePlace(n, oc, oy, ox, p.oc, p.oh, p.ow))
  /\ X(c, 1, <<n, ic, oy * p.sh + ky, ox * p.sw + kx>>)
       = At(Before(c, 1), PlanePlace(n, ic, oy * p.sh + ky, ox * p.sw + kx, p.ic, p.ih, p.iw))
  /\ X(c, 3, <<oc, ic, ky, kx>>) = At(Before(c, 3), PlanePlace(oc, ic, ky, kx, p.ic, p.kh, p.kw))

\* The contributions that the numbers of two dimensions give.
LEMMA PlanePartsOf ==
  ASSUME NEW c, NEW p, PlaneGradFits(c, p),
         NEW n \in Upto(p.b), NEW oc \in Upto(p.oc), NEW oy \in Upto(p.oh), NEW ox \in Upto(p.ow),
         NEW ic \in Upto(p.ic), NEW ky \in Upto(p.kh), NEW kx \in Upto(p.kw)
  PROVE  PlanePartOf(c, p, n, oc, oy, ox, ic, ky, kx)
<1> DEFINE o == <<n, oc, oy, ox>>
           Ps(i) == Products(c, ShapeOf(c, 1), ShapeOf(c, 3), i)
<1>1. PlaneFits(c, 3, p) /\ c.in[2] \in Tensors /\ ShapeOf(c, 2) = <<p.b, p.oc, p.oh, p.ow>>
  BY DEF PlaneGradFits
<1>2. /\ p.b \in Nat /\ p.ic \in Nat /\ p.ih \in Nat /\ p.iw \in Nat /\ p.oc \in Nat
      /\ p.kh \in Nat /\ p.kw \in Nat /\ p.oh \in Nat /\ p.ow \in Nat
      /\ c.in[1] \in Tensors /\ c.in[3] \in Tensors
      /\ ShapeOf(c, 1) = <<p.b, p.ic, p.ih, p.iw>> /\ ShapeOf(c, 3) = <<p.oc, p.ic, p.kh, p.kw>>
  BY <1>1 DEF PlaneFits
<1>3. o \in Indices(ShapeOf(c, 2)) /\ X(c, 2, o) = At(Before(c, 2), PlanePlace(n, oc, oy, ox, p.oc, p.oh, p.ow))
  <2>1. ReadsPlane(c, 2, n, oc, oy, ox, p.oc, p.oh, p.ow)
    BY <1>1, <1>2, ReadPlane
  <2> QED
    BY <2>1, Zenon DEF ReadsPlane
<1>4. X(c, 3, <<oc, ic, ky, kx>>) = At(Before(c, 3), PlanePlace(oc, ic, ky, kx, p.ic, p.kh, p.kw))
  <2>1. ReadsPlane(c, 3, oc, ic, ky, kx, p.ic, p.kh, p.kw)
    BY <1>2, ReadPlane
  <2> QED
    BY <2>1, Zenon DEF ReadsPlane
<1>5. X(c, 1, <<n, ic, oy * p.sh + ky, ox * p.sw + kx>>)
        = At(Before(c, 1), PlanePlace(n, ic, oy * p.sh + ky, ox * p.sw + kx, p.ic, p.ih, p.iw))
  <2> DEFINE y == oy * p.sh + ky
             x == ox * p.sw + kx
  <2>1. y \in Upto(p.ih) /\ x \in Upto(p.iw)
    BY <1>1 DEF PlaneFits
  <2> HIDE DEF y, x
  <2>2. ReadsPlane(c, 1, n, ic, y, x, p.ic, p.ih, p.iw)
    BY <1>2, <2>1, ReadPlane
  <2>3. X(c, 1, <<n, ic, y, x>>) = At(Before(c, 1), PlanePlace(n, ic, y, x, p.ic, p.ih, p.iw))
    BY <2>2, Zenon DEF ReadsPlane
  <2> QED
    BY <2>3 DEF y, x
<1>6. PlanePart(p, n, oc, oy, ox, ic, ky, kx) \in Contributions(c)
  <2> DEFINE q == PlaneFactors(p.sh, p.sw, n, oc, oy, ox, ic, ky, kx)
             J == Upto(p.ic) \X Upto(p.kh) \X Upto(p.kw)
             t == <<ic, ky, kx>>
  <2>1. Ps(o) = {PlaneFactors(p.sh, p.sw, n, oc, oy, ox, r[1], r[2], r[3]) : r \in J}
    BY <1>1, PlaneProducts
  <2>2. t \in J /\ t[1] = ic /\ t[2] = ky /\ t[3] = kx
    OBVIOUS
  <2> HIDE DEF t, J, Ps
  <2>3. q \in Ps(o)
    BY <2>1, <2>2
  <2>4. Contributions(c) = UNION {{<<i, r>> : r \in Ps(i)} : i \in Indices(ShapeOf(c, 2))}
    BY DEF Contributions, AllOf, Ps
  <2> HIDE DEF q, o
  <2>5. <<o, q>> \in Contributions(c)
    BY <1>3, <2>3, <2>4
  <2> QED
    BY <2>5 DEF PlanePart, o, q
<1> QED
  BY <1>3, <1>4, <1>5, <1>6, Zenon DEF PlanePartOf, o

IsPlanePart(p, q) ==
  \E n \in Upto(p.b), oc \in Upto(p.oc), oy \in Upto(p.oh), ox \in Upto(p.ow),
     ic \in Upto(p.ic), ky \in Upto(p.kh), kx \in Upto(p.kw) :
    q = PlanePart(p, n, oc, oy, ox, ic, ky, kx)
\* There are no others.
LEMMA EveryPlanePart ==
  ASSUME NEW c, NEW p, PlaneGradFits(c, p), NEW q \in Contributions(c)
  PROVE  IsPlanePart(p, q)
<1> DEFINE Ps(i) == Products(c, ShapeOf(c, 1), ShapeOf(c, 3), i)
           J == Upto(p.ic) \X Upto(p.kh) \X Upto(p.kw)
<1>1. PlaneFits(c, 3, p) /\ ShapeOf(c, 2) = <<p.b, p.oc, p.oh, p.ow>>
  BY DEF PlaneGradFits
<1>2. p.b \in Nat /\ p.oc \in Nat /\ p.oh \in Nat /\ p.ow \in Nat
  BY <1>1 DEF PlaneFits
<1>3. Contributions(c) = UNION {{<<i, r>> : r \in Ps(i)} : i \in Indices(ShapeOf(c, 2))}
  BY DEF Contributions, AllOf
<1> HIDE DEF Ps
<1>4. PICK o \in Indices(ShapeOf(c, 2)) : q \in {<<o, r>> : r \in Ps(o)}
  BY <1>3
<1>5. PICK f \in Ps(o) : q = <<o, f>>
  BY <1>4
<1>6. PICK n \in Upto(p.b), oc \in Upto(p.oc), oy \in Upto(p.oh), ox \in Upto(p.ow) : o = <<n, oc, oy, ox>>
  <2>1. IsQuadruple(p.b, p.oc, p.oh, p.ow, o)
    BY <1>1, <1>2, IndicesOfFour
  <2> QED
    BY <2>1 DEF IsQuadruple
<1>7. Ps(o) = {PlaneFactors(p.sh, p.sw, n, oc, oy, ox, r[1], r[2], r[3]) : r \in J}
  BY <1>1, <1>6, PlaneProducts DEF Ps
<1>8. \A r \in J : r[1] \in Upto(p.ic) /\ r[2] \in Upto(p.kh) /\ r[3] \in Upto(p.kw)
  OBVIOUS
<1> HIDE DEF J
<1>9. PICK r \in J : f = PlaneFactors(p.sh, p.sw, n, oc, oy, ox, r[1], r[2], r[3])
  <2>1. f \in {PlaneFactors(p.sh, p.sw, n, oc, oy, ox, r[1], r[2], r[3]) : r \in J}
    BY <1>5, <1>7, Zenon
  <2> QED
    BY <2>1, Zenon
<1>10. q = PlanePart(p, n, oc, oy, ox, r[1], r[2], r[3])
  BY <1>5, <1>6, <1>9, Zenon DEF PlanePart
<1> QED
  BY <1>8, <1>10, Zenon DEF IsPlanePart

\* The three indices of such a contribution.
LEMMA PlanePartParts ==
  ASSUME NEW p, NEW n, NEW oc, NEW oy, NEW ox, NEW ic, NEW ky, NEW kx
  PROVE  LET q == PlanePart(p, n, oc, oy, ox, ic, ky, kx)
         IN /\ q[1] = <<n, oc, oy, ox>> /\ q[2][1] = <<n, ic, oy * p.sh + ky, ox * p.sw + kx>>
            /\ q[2][2] = <<oc, ic, ky, kx>>
BY DEF PlanePart, PlaneFactors

\* Number r of <<i, j, k, l, m>> among I x J x K x L x M.
Digits5(I, J, K, L, M, r, i, j, k, l, m) ==
  \E u : Digits3(I * J * K, L, M, r, u, l, m) /\ Digits3(I, J, K, u, i, j, k)

\* Every number below a product of five is given by five digits.
LEMMA FiveFound ==
  ASSUME NEW I \in Nat, NEW J \in Nat, NEW K \in Nat, NEW L \in Nat, NEW M \in Nat,
         NEW r \in Upto(I * J * K * L * M)
  PROVE  \E i, j, k, l, m : Digits5(I, J, K, L, M, r, i, j, k, l, m)
<1> DEFINE A == I * J * K
<1>1. A \in Nat /\ r \in Upto(A * L * M)
  OBVIOUS
<1> HIDE DEF A
<1>2. PICK u, l, m : Digits3(A, L, M, r, u, l, m)
  BY <1>1, DigitsFound
<1>3. u \in Upto(I * J * K)
  BY <1>2 DEF Digits3, A
<1>4. PICK i, j, k : Digits3(I, J, K, u, i, j, k)
  BY <1>3, DigitsFound
<1>5. Digits5(I, J, K, L, M, r, i, j, k, l, m)
  BY <1>2, <1>4, Zenon DEF Digits5, A
<1> QED
  BY <1>5, Zenon

\* Five digits give a number.
LEMMA FiveNumber ==
  ASSUME NEW I \in Nat, NEW J \in Nat, NEW K \in Nat, NEW L \in Nat, NEW M \in Nat,
         NEW i \in Upto(I), NEW j \in Upto(J), NEW k \in Upto(K), NEW l \in Upto(L), NEW m \in Upto(M)
  PROVE  \E r \in Upto(I * J * K * L * M) : Digits5(I, J, K, L, M, r, i, j, k, l, m)
<1> DEFINE A == I * J * K
<1>1. A \in Nat
  OBVIOUS
<1>2. PICK u \in Upto(I * J * K) : Digits3(I, J, K, u, i, j, k)
  BY NumberFound
<1>3. u \in Upto(A)
  BY <1>2
<1> HIDE DEF A
<1>4. PICK r \in Upto(A * L * M) : Digits3(A, L, M, r, u, l, m)
  BY <1>1, <1>3, NumberFound
<1>5. Digits5(I, J, K, L, M, r, i, j, k, l, m)
  BY <1>2, <1>4, Zenon DEF Digits5, A
<1>6. r \in Upto(I * J * K * L * M)
  BY <1>4, Zenon DEF A
<1> QED
  BY <1>5, <1>6, Zenon

\* And only one.
LEMMA FiveIsOne ==
  ASSUME NEW I \in Nat, NEW J \in Nat, NEW K \in Nat, NEW L \in Nat, NEW M \in Nat,
         NEW r \in Upto(I * J * K * L * M), NEW t \in Upto(I * J * K * L * M),
         NEW i, NEW j, NEW k, NEW l, NEW m,
         Digits5(I, J, K, L, M, r, i, j, k, l, m), Digits5(I, J, K, L, M, t, i, j, k, l, m)
  PROVE  r = t
<1> DEFINE A == I * J * K
<1>1. A \in Nat /\ r \in Upto(A * L * M) /\ t \in Upto(A * L * M)
  OBVIOUS
<1>2. PICK u : Digits3(A, L, M, r, u, l, m) /\ Digits3(I, J, K, u, i, j, k)
  BY Zenon DEF Digits5
<1>3. PICK v : Digits3(A, L, M, t, v, l, m) /\ Digits3(I, J, K, v, i, j, k)
  BY Zenon DEF Digits5
<1>4. u \in Upto(I * J * K) /\ v \in Upto(I * J * K)
  BY <1>2, <1>3, Zenon DEF Digits3
<1> HIDE DEF A
<1>5. u = v
  BY <1>2, <1>3, <1>4, NumberIsOne
<1>6. Digits3(A, L, M, t, u, l, m)
  BY <1>3, <1>5
<1> QED
  BY <1>1, <1>2, <1>6, NumberIsOne

-----------------------------------------------------------------------------
\* The kernels step along the rows of a plane.
PlaneStep(b, ch, y, u, k, C, H, W) == b * C * H * W + ch * H * W + y * W + u + k
PlaneStepIs(b, ch, y, u, k, C, H, W) ==
  PlaneStep(b, ch, y, u, k, C, H, W) = PlanePlace(b, ch, y, u + k, C, H, W)
\* The place a kernel reaches by steps of its window in a plane, multiplied out.
LEMMA PlaneSteps ==
  ASSUME NEW b \in Nat, NEW ch \in Nat, NEW y \in Nat, NEW u \in Nat, NEW k \in Nat,
         NEW C \in Nat, NEW H \in Nat, NEW W \in Nat
  PROVE  PlaneStepIs(b, ch, y, u, k, C, H, W)
<1>1. b * C * H * W \in Nat /\ ch * H * W \in Nat /\ y * W \in Nat
  OBVIOUS
<1> DEFINE A == b * C * H * W
           B == ch * H * W
           D == y * W
<1>2. A \in Nat /\ B \in Nat /\ D \in Nat
  BY <1>1
<1>3. PlaneStep(b, ch, y, u, k, C, H, W) = A + B + D + u + k
  BY Zenon DEF PlaneStep
<1>4. PlanePlace(b, ch, y, u + k, C, H, W) = A + B + D + (u + k)
  BY Zenon DEF PlanePlace
<1> HIDE DEF A, B, D
<1>5. A + B + D + u + k = A + B + D + (u + k)
  BY <1>2
<1> QED
  BY <1>3, <1>4, <1>5, Zenon DEF PlaneStepIs

\* The sums that the kernels of two dimensions make.
PlaneOc(p, r) == ((((r \div p.kw) \div p.kh) \div p.ow) \div p.oh)
PlaneOy(p, r) == (((r \div p.kw) \div p.kh) \div p.ow) % p.oh
PlaneOx(p, r) == ((r \div p.kw) \div p.kh) % p.ow
PlaneInputTerms(p, y, x) ==
  {r \in Upto(p.oc * p.oh * p.ow * p.kh * p.kw) :
     PlaneOy(p, r) * p.sh + ((r \div p.kw) % p.kh) = y /\ PlaneOx(p, r) * p.sw + (r % p.kw) = x}
PlaneInputGrad(c, p, n, ic, y, x) ==
  SumOf(PlaneInputTerms(p, y, x), LAMBDA r :
    Times(At(Before(c, 2), PlanePlace(n, PlaneOc(p, r), PlaneOy(p, r), PlaneOx(p, r), p.oc, p.oh, p.ow)),
          At(Before(c, 3), PlanePlace(PlaneOc(p, r), ic, (r \div p.kw) % p.kh, r % p.kw, p.ic, p.kh, p.kw))))
PlaneWeightGrad(c, p, oc, ic, ky, kx) ==
  SumOf(Upto(p.b * p.oh * p.ow), LAMBDA r :
    Times(At(Before(c, 1), PlaneStep((r \div p.ow) \div p.oh, ic, ((r \div p.ow) % p.oh) * p.sh + ky,
                                     (r % p.ow) * p.sw, kx, p.ic, p.ih, p.iw)),
          At(Before(c, 2), PlanePlace((r \div p.ow) \div p.oh, oc, (r \div p.ow) % p.oh, r % p.ow,
                                      p.oc, p.oh, p.ow))))
PlaneBiasGrad(c, p, oc) ==
  SumOf(Upto(p.b) \X Upto(p.oh) \X Upto(p.ow),
        LAMBDA r : At(Before(c, 2), PlanePlace(r[1], oc, r[2], r[3], p.oc, p.oh, p.ow)))

PlaneNumber(p, r, oc, oy, ox, ky, kx) ==
  /\ Digits5(p.oc, p.oh, p.ow, p.kh, p.kw, r, oc, oy, ox, ky, kx)
  /\ oc \in Upto(p.oc) /\ oy \in Upto(p.oh) /\ ox \in Upto(p.ow) /\ ky \in Upto(p.kh) /\ kx \in Upto(p.kw)
  /\ PlaneOc(p, r) = oc /\ PlaneOy(p, r) = oy /\ PlaneOx(p, r) = ox
  /\ (r \div p.kw) % p.kh = ky /\ r % p.kw = kx

\* The digits as the kernel computes them, by quotients and remainders.
LEMMA PlaneNumberIs ==
  ASSUME NEW p, NEW r, NEW oc, NEW oy, NEW ox, NEW ky, NEW kx,
         Digits5(p.oc, p.oh, p.ow, p.kh, p.kw, r, oc, oy, ox, ky, kx)
  PROVE  PlaneNumber(p, r, oc, oy, ox, ky, kx)
<1>1. PICK u : Digits3(p.oc * p.oh * p.ow, p.kh, p.kw, r, u, ky, kx) /\ Digits3(p.oc, p.oh, p.ow, u, oc, oy, ox)
  BY Zenon DEF Digits5
<1>2. /\ ky \in Upto(p.kh) /\ kx \in Upto(p.kw)
      /\ r % p.kw = kx /\ (r \div p.kw) % p.kh = ky /\ (r \div p.kw) \div p.kh = u
  BY <1>1, Zenon DEF Digits3
<1>3. /\ oc \in Upto(p.oc) /\ oy \in Upto(p.oh) /\ ox \in Upto(p.ow)
      /\ u % p.ow = ox /\ (u \div p.ow) % p.oh = oy /\ (u \div p.ow) \div p.oh = oc
  BY <1>1, Zenon DEF Digits3
<1>4. PlaneOc(p, r) = oc /\ PlaneOy(p, r) = oy /\ PlaneOx(p, r) = ox
  BY <1>2, <1>3, Zenon DEF PlaneOc, PlaneOy, PlaneOx
<1> QED
  BY <1>2, <1>3, <1>4, Zenon DEF PlaneNumber

\* The gradient of an element of the input.
LEMMA PlaneInputGradient ==
  ASSUME NEW c, NEW p, PlaneGradFits(c, p), NEW n \in Upto(p.b), NEW ic \in Upto(p.ic), NEW y, NEW x
  PROVE  PlaneInputGrad(c, p, n, ic, y, x) = InputSum(c, <<n, ic, y, x>>)
<1> DEFINE ix == <<n, ic, y, x>>
           S == PlaneInputTerms(p, y, x)
           T == {q \in Contributions(c) : q[2][1] = ix}
           h == [r \in S |-> PlanePart(p, n, PlaneOc(p, r), PlaneOy(p, r), PlaneOx(p, r),
                                       ic, (r \div p.kw) % p.kh, r % p.kw)]
           f == [r \in S |->
             Times(At(Before(c, 2), PlanePlace(n, PlaneOc(p, r), PlaneOy(p, r), PlaneOx(p, r), p.oc, p.oh, p.ow)),
                   At(Before(c, 3), PlanePlace(PlaneOc(p, r), ic, (r \div p.kw) % p.kh, r % p.kw,
                                               p.ic, p.kh, p.kw)))]
           g == [q \in T |-> Times(X(c, 2, q[1]), X(c, 3, q[2][2]))]
           Addend(r, oc, oy, ox, ky, kx) ==
             /\ PlaneNumber(p, r, oc, oy, ox, ky, kx) /\ oy * p.sh + ky = y /\ ox * p.sw + kx = x
             /\ h[r] = PlanePart(p, n, oc, oy, ox, ic, ky, kx) /\ h[r] \in T
             /\ f[r] = Times(X(c, 2, <<n, oc, oy, ox>>), X(c, 3, <<oc, ic, ky, kx>>))
           size == p.oc * p.oh * p.ow * p.kh * p.kw
<1>1. PlaneInputGrad(c, p, n, ic, y, x) = <<"sum", BagOf(f)>>
  BY Zenon DEF PlaneInputGrad, SumOf
<1>2. InputSum(c, ix) = <<"sum", BagOf(g)>>
  BY Zenon DEF InputSum, SumOf
<1>3. p.oc \in Nat /\ p.oh \in Nat /\ p.ow \in Nat /\ p.kh \in Nat /\ p.kw \in Nat
  BY DEF PlaneGradFits, PlaneFits
<1>4. DOMAIN f = S /\ DOMAIN g = T /\ h = [r \in S |-> h[r]]
  OBVIOUS
<1> HIDE DEF ix, S, T, h, f, g, Addend
<1>5. ASSUME NEW r \in S PROVE \E oc, oy, ox, ky, kx : Addend(r, oc, oy, ox, ky, kx)
  <2>1. /\ r \in Upto(p.oc * p.oh * p.ow * p.kh * p.kw)
        /\ PlaneOy(p, r) * p.sh + ((r \div p.kw) % p.kh) = y /\ PlaneOx(p, r) * p.sw + (r % p.kw) = x
    BY Zenon DEF S, PlaneInputTerms
  <2>2. PICK oc, oy, ox, ky, kx : Digits5(p.oc, p.oh, p.ow, p.kh, p.kw, r, oc, oy, ox, ky, kx)
    BY <1>3, <2>1, FiveFound
  <2>3. PlaneNumber(p, r, oc, oy, ox, ky, kx)
    BY <2>2, PlaneNumberIs
  <2>4. /\ oc \in Upto(p.oc) /\ oy \in Upto(p.oh) /\ ox \in Upto(p.ow) /\ ky \in Upto(p.kh) /\ kx \in Upto(p.kw)
        /\ PlaneOc(p, r) = oc /\ PlaneOy(p, r) = oy /\ PlaneOx(p, r) = ox
        /\ (r \div p.kw) % p.kh = ky /\ r % p.kw = kx
    BY <2>3, Zenon DEF PlaneNumber
  <2>5. oy * p.sh + ky = y /\ ox * p.sw + kx = x
    BY <2>1, <2>4, Zenon
  <2>6. PlanePartOf(c, p, n, oc, oy, ox, ic, ky, kx)
    BY <2>4, PlanePartsOf
  <2>7. h[r] = PlanePart(p, n, oc, oy, ox, ic, ky, kx)
    BY <2>4, Zenon DEF h
  <2>8. f[r] = Times(At(Before(c, 2), PlanePlace(n, oc, oy, ox, p.oc, p.oh, p.ow)),
                     At(Before(c, 3), PlanePlace(oc, ic, ky, kx, p.ic, p.kh, p.kw)))
    BY <2>4, Zenon DEF f
  <2>9. h[r] \in T
    <3>1. PlanePart(p, n, oc, oy, ox, ic, ky, kx)[2][1] = <<n, ic, oy * p.sh + ky, ox * p.sw + kx>>
      BY PlanePartParts
    <3>2. PlanePart(p, n, oc, oy, ox, ic, ky, kx) \in Contributions(c)
      BY <2>6, Zenon DEF PlanePartOf
    <3>3. PlanePart(p, n, oc, oy, ox, ic, ky, kx)[2][1] = ix
      BY <2>5, <3>1 DEF ix
    <3> QED
      BY <2>7, <3>2, <3>3, Zenon DEF T
  <2>10. f[r] = Times(X(c, 2, <<n, oc, oy, ox>>), X(c, 3, <<oc, ic, ky, kx>>))
    <3>1. X(c, 2, <<n, oc, oy, ox>>) = At(Before(c, 2), PlanePlace(n, oc, oy, ox, p.oc, p.oh, p.ow))
          /\ X(c, 3, <<oc, ic, ky, kx>>) = At(Before(c, 3), PlanePlace(oc, ic, ky, kx, p.ic, p.kh, p.kw))
      BY <2>6, Zenon DEF PlanePartOf
    <3> QED
      BY <2>8, <3>1, Zenon
  <2>11. Addend(r, oc, oy, ox, ky, kx)
    BY <2>3, <2>5, <2>7, <2>9, <2>10, Zenon DEF Addend
  <2> QED
    BY <2>11, Zenon
<1>6. \A r \in S : h[r] \in T /\ f[r] = g[h[r]]
  <2> SUFFICES ASSUME NEW r \in S PROVE h[r] \in T /\ f[r] = g[h[r]]
    OBVIOUS
  <2>1. PICK oc, oy, ox, ky, kx : Addend(r, oc, oy, ox, ky, kx)
    BY <1>5
  <2> DEFINE q == PlanePart(p, n, oc, oy, ox, ic, ky, kx)
  <2>2. q[1] = <<n, oc, oy, ox>> /\ q[2][2] = <<oc, ic, ky, kx>>
    BY PlanePartParts
  <2> HIDE DEF q
  <2>3. h[r] = q /\ q \in T /\ f[r] = Times(X(c, 2, <<n, oc, oy, ox>>), X(c, 3, <<oc, ic, ky, kx>>))
    BY <2>1, Zenon DEF Addend, q
  <2>4. g[q] = Times(X(c, 2, q[1]), X(c, 3, q[2][2]))
    BY <2>3, Zenon DEF g
  <2> QED
    BY <2>2, <2>3, <2>4, Zenon
<1>7. \A r \in S, t \in S : h[r] = h[t] => r = t
  <2> SUFFICES ASSUME NEW r \in S, NEW t \in S, h[r] = h[t] PROVE r = t
    OBVIOUS
  <2>1. PICK oc, oy, ox, ky, kx : Addend(r, oc, oy, ox, ky, kx)
    BY <1>5
  <2>2. PICK oc2, oy2, ox2, ky2, kx2 : Addend(t, oc2, oy2, ox2, ky2, kx2)
    BY <1>5
  <2>3. PlanePart(p, n, oc, oy, ox, ic, ky, kx) = PlanePart(p, n, oc2, oy2, ox2, ic, ky2, kx2)
    BY <2>1, <2>2, Zenon DEF Addend
  <2>4. <<n, oc, oy, ox>> = <<n, oc2, oy2, ox2>> /\ <<oc, ic, ky, kx>> = <<oc2, ic, ky2, kx2>>
    BY <2>3, PlanePartParts
  <2>5. /\ Digits5(p.oc, p.oh, p.ow, p.kh, p.kw, r, oc, oy, ox, ky, kx)
        /\ Digits5(p.oc, p.oh, p.ow, p.kh, p.kw, t, oc2, oy2, ox2, ky2, kx2)
    BY <2>1, <2>2, Zenon DEF Addend, PlaneNumber
  <2>6. oc = oc2 /\ oy = oy2 /\ ox = ox2 /\ ky = ky2 /\ kx = kx2
    BY <2>4, FourParts
  <2>7. Digits5(p.oc, p.oh, p.ow, p.kh, p.kw, t, oc, oy, ox, ky, kx)
    BY <2>5, <2>6, Zenon
  <2>8. r \in Upto(size) /\ t \in Upto(size)
    BY Zenon DEF S, PlaneInputTerms
  <2> QED
    BY <1>3, <2>5, <2>7, <2>8, FiveIsOne
<1>8. \A q \in T : \E r \in S : q = h[r]
  <2> SUFFICES ASSUME NEW q \in T PROVE \E r \in S : q = h[r]
    OBVIOUS
  <2>1. q \in Contributions(c) /\ q[2][1] = <<n, ic, y, x>>
    BY DEF T, ix
  <2>2. IsPlanePart(p, q)
    BY <2>1, EveryPlanePart
  <2>3. PICK m \in Upto(p.b), oc \in Upto(p.oc), oy \in Upto(p.oh), ox \in Upto(p.ow),
             j \in Upto(p.ic), ky \in Upto(p.kh), kx \in Upto(p.kw) :
          q = PlanePart(p, m, oc, oy, ox, j, ky, kx)
    BY <2>2, Zenon DEF IsPlanePart
  <2>4. <<m, j, oy * p.sh + ky, ox * p.sw + kx>> = <<n, ic, y, x>>
    BY <2>1, <2>3, PlanePartParts
  <2>5. m = n /\ j = ic /\ oy * p.sh + ky = y /\ ox * p.sw + kx = x
    BY <2>4, FourParts
  <2>6. PICK r \in Upto(p.oc * p.oh * p.ow * p.kh * p.kw) :
          Digits5(p.oc, p.oh, p.ow, p.kh, p.kw, r, oc, oy, ox, ky, kx)
    BY <1>3, FiveNumber
  <2>7. PlaneNumber(p, r, oc, oy, ox, ky, kx)
    BY <2>6, PlaneNumberIs
  <2>8. /\ PlaneOc(p, r) = oc /\ PlaneOy(p, r) = oy /\ PlaneOx(p, r) = ox
        /\ (r \div p.kw) % p.kh = ky /\ r % p.kw = kx
    BY <2>7, Zenon DEF PlaneNumber
  <2>9. r \in S
    BY <2>5, <2>6, <2>8, Zenon DEF S, PlaneInputTerms
  <2>10. h[r] = q
    BY <2>3, <2>5, <2>8, <2>9, Zenon DEF h
  <2> QED
    BY <2>9, <2>10, Zenon
<1>9. IsFiniteSet(S)
  <2>1. size \in Nat
    BY <1>3
  <2>2. S \subseteq Upto(size)
    BY Zenon DEF S, PlaneInputTerms
  <2> HIDE DEF size
  <2>3. IsFiniteSet(Upto(size))
    BY <2>1, UptoFinite
  <2> QED
    BY <2>2, <2>3, FS_Subset
<1> HIDE DEF size
<1>10. BagOf(f) = BagOf(g)
  BY <1>4, <1>6, <1>7, <1>8, <1>9, SumsAgree
<1> QED
  BY <1>1, <1>2, <1>10 DEF ix

\* The gradient of an element of the weight.
LEMMA PlaneWeightGradient ==
  ASSUME NEW c, NEW p, PlaneGradFits(c, p), NEW oc \in Upto(p.oc), NEW ic \in Upto(p.ic),
         NEW ky \in Upto(p.kh), NEW kx \in Upto(p.kw)
  PROVE  PlaneWeightGrad(c, p, oc, ic, ky, kx) = WeightSum(c, <<oc, ic, ky, kx>>)
<1> DEFINE ix == <<oc, ic, ky, kx>>
           S == Upto(p.b * p.oh * p.ow)
           T == {q \in Contributions(c) : q[2][2] = ix}
           h == [r \in S |-> PlanePart(p, (r \div p.ow) \div p.oh, oc, (r \div p.ow) % p.oh, r % p.ow, ic, ky, kx)]
           f == [r \in S |->
             Times(At(Before(c, 1), PlaneStep((r \div p.ow) \div p.oh, ic, ((r \div p.ow) % p.oh) * p.sh + ky,
                                              (r % p.ow) * p.sw, kx, p.ic, p.ih, p.iw)),
                   At(Before(c, 2), PlanePlace((r \div p.ow) \div p.oh, oc, (r \div p.ow) % p.oh, r % p.ow,
                                               p.oc, p.oh, p.ow)))]
           g == [q \in T |-> Times(X(c, 2, q[1]), X(c, 1, q[2][1]))]
           Addend(r, n, oy, ox) ==
             /\ Digits3(p.b, p.oh, p.ow, r, n, oy, ox)
             /\ h[r] = PlanePart(p, n, oc, oy, ox, ic, ky, kx) /\ h[r] \in T
             /\ f[r] = Times(X(c, 2, <<n, oc, oy, ox>>), X(c, 1, <<n, ic, oy * p.sh + ky, ox * p.sw + kx>>))
<1>1. PlaneWeightGrad(c, p, oc, ic, ky, kx) = <<"sum", BagOf(f)>>
  BY Zenon DEF PlaneWeightGrad, SumOf
<1>2. WeightSum(c, ix) = <<"sum", BagOf(g)>>
  BY Zenon DEF WeightSum, SumOf
<1>3. /\ p.b \in Nat /\ p.oh \in Nat /\ p.ow \in Nat /\ p.kh \in Nat /\ p.kw \in Nat /\ p.ic \in Nat
      /\ p.ih \in Nat /\ p.iw \in Nat /\ p.sh \in Nat /\ p.sw \in Nat
  BY DEF PlaneGradFits, PlaneFits
<1>4. DOMAIN f = S /\ DOMAIN g = T /\ h = [r \in S |-> h[r]]
  OBVIOUS
<1> HIDE DEF ix, S, T, h, f, g, Addend
<1>5. ASSUME NEW r \in S PROVE \E n, oy, ox : Addend(r, n, oy, ox)
  <2>1. PICK n, oy, ox : Digits3(p.b, p.oh, p.ow, r, n, oy, ox)
    BY <1>3, DigitsFound DEF S
  <2>2. /\ n \in Upto(p.b) /\ oy \in Upto(p.oh) /\ ox \in Upto(p.ow)
        /\ (r \div p.ow) \div p.oh = n /\ (r \div p.ow) % p.oh = oy /\ r % p.ow = ox
    BY <2>1, Zenon DEF Digits3
  <2>3. h[r] = PlanePart(p, n, oc, oy, ox, ic, ky, kx)
    BY <2>2, Zenon DEF h
  <2>4. f[r] = Times(At(Before(c, 1), PlaneStep(n, ic, oy * p.sh + ky, ox * p.sw, kx, p.ic, p.ih, p.iw)),
                     At(Before(c, 2), PlanePlace(n, oc, oy, ox, p.oc, p.oh, p.ow)))
    BY <2>2, Zenon DEF f
  <2>5. PlanePartOf(c, p, n, oc, oy, ox, ic, ky, kx)
    BY <2>2, PlanePartsOf
  <2>6. PlaneStep(n, ic, oy * p.sh + ky, ox * p.sw, kx, p.ic, p.ih, p.iw)
          = PlanePlace(n, ic, oy * p.sh + ky, ox * p.sw + kx, p.ic, p.ih, p.iw)
    <3>1. n \in Nat /\ oy \in Nat /\ ox \in Nat /\ ic \in Nat /\ ky \in Nat /\ kx \in Nat
      BY <2>2 DEF Upto
    <3>2. PICK y \in Nat : y = oy * p.sh + ky
      BY <1>3, <3>1
    <3>3. PICK u \in Nat : u = ox * p.sw
      BY <1>3, <3>1
    <3>4. PlaneStepIs(n, ic, y, u, kx, p.ic, p.ih, p.iw)
      BY <1>3, <3>1, PlaneSteps
    <3> QED
      BY <3>2, <3>3, <3>4, Zenon DEF PlaneStepIs
  <2>7. h[r] \in T
    <3>1. PlanePart(p, n, oc, oy, ox, ic, ky, kx) \in Contributions(c)
      BY <2>5, Zenon DEF PlanePartOf
    <3>2. PlanePart(p, n, oc, oy, ox, ic, ky, kx)[2][2] = ix
      BY PlanePartParts DEF ix
    <3> QED
      BY <2>3, <3>1, <3>2, Zenon DEF T
  <2>8. f[r] = Times(X(c, 2, <<n, oc, oy, ox>>), X(c, 1, <<n, ic, oy * p.sh + ky, ox * p.sw + kx>>))
    <3>1. f[r] = Times(X(c, 1, <<n, ic, oy * p.sh + ky, ox * p.sw + kx>>), X(c, 2, <<n, oc, oy, ox>>))
      BY <2>4, <2>5, <2>6, Zenon DEF PlanePartOf
    <3> QED
      BY <3>1, TimesCommutes, Zenon
  <2>9. Addend(r, n, oy, ox)
    BY <2>1, <2>3, <2>7, <2>8, Zenon DEF Addend
  <2> QED
    BY <2>9, Zenon
<1>6. \A r \in S : h[r] \in T /\ f[r] = g[h[r]]
  <2> SUFFICES ASSUME NEW r \in S PROVE h[r] \in T /\ f[r] = g[h[r]]
    OBVIOUS
  <2>1. PICK n, oy, ox : Addend(r, n, oy, ox)
    BY <1>5
  <2> DEFINE q == PlanePart(p, n, oc, oy, ox, ic, ky, kx)
  <2>2. q[1] = <<n, oc, oy, ox>> /\ q[2][1] = <<n, ic, oy * p.sh + ky, ox * p.sw + kx>>
    BY PlanePartParts
  <2> HIDE DEF q
  <2>3. /\ h[r] = q /\ q \in T
        /\ f[r] = Times(X(c, 2, <<n, oc, oy, ox>>), X(c, 1, <<n, ic, oy * p.sh + ky, ox * p.sw + kx>>))
    BY <2>1, Zenon DEF Addend, q
  <2>4. g[q] = Times(X(c, 2, q[1]), X(c, 1, q[2][1]))
    BY <2>3, Zenon DEF g
  <2> QED
    BY <2>2, <2>3, <2>4, Zenon
<1>7. \A r \in S, t \in S : h[r] = h[t] => r = t
  <2> SUFFICES ASSUME NEW r \in S, NEW t \in S, h[r] = h[t] PROVE r = t
    OBVIOUS
  <2>1. PICK n, oy, ox : Addend(r, n, oy, ox)
    BY <1>5
  <2>2. PICK n2, oy2, ox2 : Addend(t, n2, oy2, ox2)
    BY <1>5
  <2>3. PlanePart(p, n, oc, oy, ox, ic, ky, kx) = PlanePart(p, n2, oc, oy2, ox2, ic, ky, kx)
    BY <2>1, <2>2, Zenon DEF Addend
  <2>4. <<n, oc, oy, ox>> = <<n2, oc, oy2, ox2>>
    BY <2>3, PlanePartParts
  <2>5. Digits3(p.b, p.oh, p.ow, r, n, oy, ox) /\ Digits3(p.b, p.oh, p.ow, t, n2, oy2, ox2)
    BY <2>1, <2>2, Zenon DEF Addend
  <2>6. n = n2 /\ oy = oy2 /\ ox = ox2
    BY <2>4, FourParts
  <2>7. Digits3(p.b, p.oh, p.ow, t, n, oy, ox)
    BY <2>5, <2>6, Zenon
  <2>8. r \in Upto(p.b * p.oh * p.ow) /\ t \in Upto(p.b * p.oh * p.ow)
    BY Zenon DEF S
  <2> QED
    BY <1>3, <2>5, <2>7, <2>8, NumberIsOne
<1>8. \A q \in T : \E r \in S : q = h[r]
  <2> SUFFICES ASSUME NEW q \in T PROVE \E r \in S : q = h[r]
    OBVIOUS
  <2>1. q \in Contributions(c) /\ q[2][2] = <<oc, ic, ky, kx>>
    BY DEF T, ix
  <2>2. IsPlanePart(p, q)
    BY <2>1, EveryPlanePart
  <2>3. PICK n \in Upto(p.b), i \in Upto(p.oc), oy \in Upto(p.oh), ox \in Upto(p.ow),
             j \in Upto(p.ic), k \in Upto(p.kh), l \in Upto(p.kw) :
          q = PlanePart(p, n, i, oy, ox, j, k, l)
    BY <2>2, Zenon DEF IsPlanePart
  <2>4. <<i, j, k, l>> = <<oc, ic, ky, kx>>
    BY <2>1, <2>3, PlanePartParts
  <2>5. i = oc /\ j = ic /\ k = ky /\ l = kx
    BY <2>4, FourParts
  <2>6. PICK r \in Upto(p.b * p.oh * p.ow) : Digits3(p.b, p.oh, p.ow, r, n, oy, ox)
    BY <1>3, NumberFound
  <2>7. (r \div p.ow) \div p.oh = n /\ (r \div p.ow) % p.oh = oy /\ r % p.ow = ox /\ r \in S
    BY <2>6, Zenon DEF Digits3, S
  <2>8. h[r] = q
    BY <2>3, <2>5, <2>7, Zenon DEF h
  <2> QED
    BY <2>7, <2>8, Zenon
<1>9. IsFiniteSet(S)
  <2>1. p.b * p.oh * p.ow \in Nat
    BY <1>3
  <2> QED
    BY <2>1, UptoFinite DEF S
<1>10. BagOf(f) = BagOf(g)
  BY <1>4, <1>6, <1>7, <1>8, <1>9, SumsAgree
<1> QED
  BY <1>1, <1>2, <1>10 DEF ix

\* The gradient of an element of the bias.
LEMMA PlaneBiasGradient ==
  ASSUME NEW c, NEW p, PlaneGradFits(c, p), NEW oc \in Upto(p.oc)
  PROVE  PlaneBiasGrad(c, p, oc) = BiasSum(c, 2, oc)
<1> DEFINE S == Upto(p.b) \X Upto(p.oh) \X Upto(p.ow)
           T == {o \in AllOf(c, 2) : o[2] = oc}
           h == [r \in S |-> <<r[1], oc, r[2], r[3]>>]
           f == [r \in S |-> At(Before(c, 2), PlanePlace(r[1], oc, r[2], r[3], p.oc, p.oh, p.ow))]
           g == [o \in T |-> X(c, 2, o)]
<1>1. PlaneBiasGrad(c, p, oc) = <<"sum", BagOf(f)>>
  BY Zenon DEF PlaneBiasGrad, SumOf
<1>2. BiasSum(c, 2, oc) = <<"sum", BagOf(g)>>
  BY Zenon DEF BiasSum, SumOf
<1>3. /\ p.b \in Nat /\ p.oh \in Nat /\ p.ow \in Nat /\ p.oc \in Nat
      /\ c.in[2] \in Tensors /\ ShapeOf(c, 2) = <<p.b, p.oc, p.oh, p.ow>>
  BY DEF PlaneGradFits, PlaneFits
<1>4. DOMAIN f = S /\ DOMAIN g = T /\ h = [r \in S |-> h[r]]
  OBVIOUS
<1>5. IsFiniteSet(S)
  <2>1. IsFiniteSet(Upto(p.b)) /\ IsFiniteSet(Upto(p.oh)) /\ IsFiniteSet(Upto(p.ow))
    BY <1>3, UptoFinite
  <2> QED
    BY <2>1, TripleFinite
<1>6. \A r \in S : /\ r = <<r[1], r[2], r[3]>>
                   /\ r[1] \in Upto(p.b) /\ r[2] \in Upto(p.oh) /\ r[3] \in Upto(p.ow)
  OBVIOUS
<1>7. \A n \in Upto(p.b), y \in Upto(p.oh), x \in Upto(p.ow) :
        <<n, y, x>> \in S /\ <<n, y, x>>[1] = n /\ <<n, y, x>>[2] = y /\ <<n, y, x>>[3] = x
  OBVIOUS
<1> HIDE DEF S, T, h, f, g
<1>8. \A r \in S : h[r] \in T /\ f[r] = g[h[r]]
  <2> SUFFICES ASSUME NEW r \in S PROVE h[r] \in T /\ f[r] = g[h[r]]
    OBVIOUS
  <2> DEFINE o == <<r[1], oc, r[2], r[3]>>
  <2>1. ReadsPlane(c, 2, r[1], oc, r[2], r[3], p.oc, p.oh, p.ow)
    BY <1>3, <1>6, ReadPlane
  <2>2. o[2] = oc
    OBVIOUS
  <2>3. /\ o \in Indices(ShapeOf(c, 2))
        /\ At(Before(c, 2), PlanePlace(r[1], oc, r[2], r[3], p.oc, p.oh, p.ow)) = X(c, 2, o)
    BY <2>1, Zenon DEF ReadsPlane
  <2> HIDE DEF o
  <2>4. o \in T
    BY <2>2, <2>3, Zenon DEF T, AllOf
  <2>5. h[r] = o
    BY Zenon DEF h, o
  <2>6. f[r] = X(c, 2, o) /\ g[o] = X(c, 2, o)
    BY <2>3, <2>4, Zenon DEF f, g
  <2> QED
    BY <2>4, <2>5, <2>6, Zenon
<1>9. \A r \in S, t \in S : h[r] = h[t] => r = t
  <2> SUFFICES ASSUME NEW r \in S, NEW t \in S, h[r] = h[t] PROVE r = t
    OBVIOUS
  <2>1. <<r[1], oc, r[2], r[3]>> = <<t[1], oc, t[2], t[3]>>
    BY Zenon DEF h
  <2>2. r[1] = t[1] /\ r[2] = t[2] /\ r[3] = t[3]
    BY <2>1, FourParts
  <2> QED
    BY <1>6, <2>2
<1>10. \A o \in T : \E r \in S : o = h[r]
  <2> SUFFICES ASSUME NEW o \in T PROVE \E r \in S : o = h[r]
    OBVIOUS
  <2>1. o \in Indices(ShapeOf(c, 2)) /\ o[2] = oc
    BY Zenon DEF T, AllOf
  <2>2. IsQuadruple(p.b, p.oc, p.oh, p.ow, o)
    BY <1>3, <2>1, IndicesOfFour
  <2>3. PICK n \in Upto(p.b), j \in Upto(p.oc), y \in Upto(p.oh), x \in Upto(p.ow) : o = <<n, j, y, x>>
    BY <2>2, Zenon DEF IsQuadruple
  <2>4. j = oc
    BY <2>1, <2>3
  <2>5. h[<<n, y, x>>] = <<<<n, y, x>>[1], oc, <<n, y, x>>[2], <<n, y, x>>[3]>>
    BY <1>7, Zenon DEF h
  <2>6. h[<<n, y, x>>] = o
    BY <1>7, <2>3, <2>4, <2>5
  <2> QED
    BY <1>7, <2>6
<1>11. BagOf(f) = BagOf(g)
  BY <1>4, <1>5, <1>8, <1>9, <1>10, SumsAgree
<1> QED
  BY <1>1, <1>2, <1>11

\* The gradients of convolution over one dimension, position by position.
LineInputGrads(c, p, n) ==
  [i \in Upto(n) |-> LineInputGrad(c, p, (i \div p.iw) \div p.ic, (i \div p.iw) % p.ic, i % p.iw)]
LineWeightGrads(c, p, n) ==
  [i \in Upto(n) |-> LineWeightGrad(c, p, (i \div p.kw) \div p.ic, (i \div p.kw) % p.ic, i % p.kw)]
LineBiasGrads(c, p) == [oc \in Upto(p.oc) |-> LineBiasGrad(c, p, oc)]

\* The kernels compute them.
LEMMA LineGradKernels ==
  ASSUME NEW c, NEW p, NEW n
  PROVE  /\ conv1d_backward_input(Before(c, 2), Before(c, 3), n, p) = LoopOver(LineInputGrads(c, p, n), n)
         /\ conv1d_backward_weight(Before(c, 1), Before(c, 2), n, p) = LoopOver(LineWeightGrads(c, p, n), n)
         /\ conv1d_backward_bias(Before(c, 2), p) = LoopOver(LineBiasGrads(c, p), p.oc)
<1>1. conv1d_backward_input(Before(c, 2), Before(c, 3), n, p) = LoopOver(LineInputGrads(c, p, n), n)
  BY Zenon DEF conv1d_backward_input, Map, Loop, LoopOver, LineInputGrads, LineInputGrad, LineInputTerms, LinePlace, SumOf
<1>2. conv1d_backward_weight(Before(c, 1), Before(c, 2), n, p) = LoopOver(LineWeightGrads(c, p, n), n)
  BY Zenon DEF conv1d_backward_weight, Map, Loop, LoopOver, LineWeightGrads, LineWeightGrad, LinePlace, LineStep, SumOf
<1>3. conv1d_backward_bias(Before(c, 2), p) = LoopOver(LineBiasGrads(c, p), p.oc)
  BY Zenon DEF conv1d_backward_bias, Map, Loop, LoopOver, LineBiasGrads, LineBiasGrad, LinePlace, SumOf
<1> QED
  BY <1>1, <1>2, <1>3

\* The gradients of convolution over two dimensions.
PlaneInputGrads(c, p, n) ==
  [i \in Upto(n) |-> PlaneInputGrad(c, p, ((i \div p.iw) \div p.ih) \div p.ic, ((i \div p.iw) \div p.ih) % p.ic,
                                    (i \div p.iw) % p.ih, i % p.iw)]
PlaneWeightGrads(c, p, n) ==
  [i \in Upto(n) |-> PlaneWeightGrad(c, p, ((i \div p.kw) \div p.kh) \div p.ic, ((i \div p.kw) \div p.kh) % p.ic,
                                     (i \div p.kw) % p.kh, i % p.kw)]
PlaneBiasGrads(c, p) == [oc \in Upto(p.oc) |-> PlaneBiasGrad(c, p, oc)]

\* What the three gradient kernels of two dimensions store.
LEMMA PlaneGradKernels ==
  ASSUME NEW c, NEW p, NEW n
  PROVE  /\ conv2d_backward_input(Before(c, 2), Before(c, 3), n, p) = LoopOver(PlaneInputGrads(c, p, n), n)
         /\ conv2d_backward_weight(Before(c, 1), Before(c, 2), n, p) = LoopOver(PlaneWeightGrads(c, p, n), n)
         /\ conv2d_backward_bias(Before(c, 2), p) = LoopOver(PlaneBiasGrads(c, p), p.oc)
<1>1. conv2d_backward_input(Before(c, 2), Before(c, 3), n, p) = LoopOver(PlaneInputGrads(c, p, n), n)
  BY Zenon DEF conv2d_backward_input, Map, Loop, LoopOver, PlaneInputGrads, PlaneInputGrad, PlaneInputTerms,
               PlaneOc, PlaneOy, PlaneOx, PlanePlace, SumOf
<1>2. conv2d_backward_weight(Before(c, 1), Before(c, 2), n, p) = LoopOver(PlaneWeightGrads(c, p, n), n)
  BY Zenon DEF conv2d_backward_weight, Map, Loop, LoopOver, PlaneWeightGrads, PlaneWeightGrad,
               PlanePlace, PlaneStep, SumOf
<1>3. conv2d_backward_bias(Before(c, 2), p) = LoopOver(PlaneBiasGrads(c, p), p.oc)
  BY Zenon DEF conv2d_backward_bias, Map, Loop, LoopOver, PlaneBiasGrads, PlaneBiasGrad, PlanePlace, SumOf
<1> QED
  BY <1>1, <1>2, <1>3

\* A launch that reads two tensors of the call, and one that reads one, compute
\* what their loops store.
LEMMA ComputesFromTwo ==
  ASSUME NEW c, NEW t \in Tensors, NEW l, NEW j \in DOMAIN c.in, NEW k \in DOMAIN c.in,
         l.pointers = <<c.in[j], c.in[k], t>>,
         NEW n, n = Numel(t), NEW w, w = [e \in Upto(n) |-> w[e]],
         \A x : x[1] = Before(c, j) /\ x[2] = Before(c, k) => Stored(l, x) = LoopOver(w, n)
  PROVE  Computes(c, t, l, w)
<1>1. ASSUME NEW m, Holds(c, m) PROVE ReadFrom(l, m)[1] = Before(c, j) /\ ReadFrom(l, m)[2] = Before(c, k)
  BY <1>1 DEF ReadFrom, Holds
<1>2. Target(l) = t.name
  BY DEF Target
<1> QED
  BY <1>1, <1>2 DEF Computes, Elements

\* A launch that reads one argument alone computes what its kernel stores.
LEMMA ComputesFromOne ==
  ASSUME NEW c, NEW t \in Tensors, NEW l, NEW j \in DOMAIN c.in,
         l.pointers = <<c.in[j], t>>,
         NEW n, n = Numel(t), NEW w, w = [e \in Upto(n) |-> w[e]],
         \A x : x[1] = Before(c, j) => Stored(l, x) = LoopOver(w, n)
  PROVE  Computes(c, t, l, w)
<1>1. ASSUME NEW m, Holds(c, m) PROVE ReadFrom(l, m)[1] = Before(c, j)
  BY <1>1 DEF ReadFrom, Holds
<1>2. Target(l) = t.name
  BY DEF Target
<1> QED
  BY <1>1, <1>2 DEF Computes, Elements

\* The new tensors of a convolution's gradients.
LEMMA NewConvGradients ==
  ASSUME NEW c, c.in[1] \in Tensors, c.in[3] \in Tensors, NEW oc \in Nat, ShapeOf(c, 3)[1] = oc
  PROVE  /\ GradInput(c) \in Tensors /\ GradInput(c).name = "grad_input"
         /\ GradInput(c).shape = ShapeOf(c, 1) /\ Numel(GradInput(c)) = Numel(c.in[1])
         /\ GradWeight(c) \in Tensors /\ GradWeight(c).name = "grad_weight"
         /\ GradWeight(c).shape = ShapeOf(c, 3) /\ Numel(GradWeight(c)) = Numel(c.in[3])
         /\ GradBias(c) \in Tensors /\ GradBias(c).name = "grad_bias"
         /\ GradBias(c).shape = <<oc>> /\ Numel(GradBias(c)) = oc
<1>1. /\ GradInput(c) \in Tensors /\ GradInput(c).name = "grad_input"
      /\ GradInput(c).shape = ShapeOf(c, 1) /\ Numel(GradInput(c)) = Numel(c.in[1])
  BY LikeIs DEF GradInput, ShapeOf, NewNames
<1>2. /\ GradWeight(c) \in Tensors /\ GradWeight(c).name = "grad_weight"
      /\ GradWeight(c).shape = ShapeOf(c, 3) /\ Numel(GradWeight(c)) = Numel(c.in[3])
  BY LikeIs DEF GradWeight, ShapeOf, NewNames
<1>3. /\ GradBias(c) \in Tensors /\ GradBias(c).name = "grad_bias"
      /\ GradBias(c).shape = <<oc>> /\ Numel(GradBias(c)) = oc
  <2> DEFINE shape == <<oc>>
  <2>1. shape \in Seq(Nat) /\ "fp32" \in Dtypes /\ "grad_bias" \in NewNames
    BY DEF Dtypes, SixTypes, NewNames
  <2>2. NumelOf(shape) = oc
    BY NumelOfFew
  <2>3. GradBias(c) = Empty("grad_bias", shape, "fp32")
    BY DEF GradBias, ShapeOf, Size
  <2> HIDE DEF shape
  <2>4. /\ Empty("grad_bias", shape, "fp32") \in Tensors
        /\ Empty("grad_bias", shape, "fp32").name = "grad_bias"
        /\ Empty("grad_bias", shape, "fp32").shape = shape
        /\ Numel(Empty("grad_bias", shape, "fp32")) = NumelOf(shape)
    BY <2>1, EmptyIs
  <2> QED
    BY <2>2, <2>3, <2>4 DEF shape
<1> QED
  BY <1>1, <1>2, <1>3

\* Values that are those of the reference at each position.
LEMMA AskedAt ==
  ASSUME NEW c, NEW name, NEW t \in Tensors, t.name = name, NEW f, NEW w,
         Reference(c)[name] = ResultOf(t.shape, f),
         \A q \in Upto(Numel(t)) : w[q] = f[IndexAt(t.shape, q)]
  PROVE  IsAsked(c, name, t, w)
BY DEF IsAsked, Elements

\* What the backward of a convolution accepts, and its launches.
ConvGradAccepts(c) ==
  /\ Dim(c.in[1]) \in {3, 4} /\ Dim(c.in[3]) = Dim(c.in[1]) /\ Dim(c.in[2]) = Dim(c.in[1])
  /\ Size(c.in[3], 2) = Size(c.in[1], 2)
  /\ Size(c.in[2], 1) = Size(c.in[1], 1) /\ Size(c.in[2], 2) = Size(c.in[3], 1)
  /\ ConvArgs(c.arg, Dim(c.in[1]))
LineGradNumbers(c, n) == ConvShape1(n, c.in[1], c.in[3], Size(c.in[2], 3), c.arg.stride)
PlaneGradNumbers(c, n) ==
  ConvShape2(n, c.in[1], c.in[3], Size(c.in[2], 3), Size(c.in[2], 4), c.arg.stride)
LineInputLaunch(c) ==
  LaunchFp32("conv1d_backward_input", <<c.in[2], c.in[3], GradInput(c)>>, LineGradNumbers(c, Numel(c.in[1])))
LineWeightLaunch(c) ==
  LaunchFp32("conv1d_backward_weight", <<c.in[1], c.in[2], GradWeight(c)>>, LineGradNumbers(c, Numel(c.in[3])))
LineBiasLaunch(c) == LaunchFp32("conv1d_backward_bias", <<c.in[2], GradBias(c)>>, LineGradNumbers(c, 0))
PlaneInputLaunch(c) ==
  LaunchFp32("conv2d_backward_input", <<c.in[2], c.in[3], GradInput(c)>>, PlaneGradNumbers(c, Numel(c.in[1])))
PlaneWeightLaunch(c) ==
  LaunchFp32("conv2d_backward_weight", <<c.in[1], c.in[2], GradWeight(c)>>, PlaneGradNumbers(c, Numel(c.in[3])))
PlaneBiasLaunch(c) == LaunchFp32("conv2d_backward_bias", <<c.in[2], GradBias(c)>>, PlaneGradNumbers(c, 0))

\* What the gradient of a convolution decides when it accepts.
LEMMA ConvGradPlan ==
  ASSUME NEW c, c.op = "convolution_grad", PlanOf(c).kind = "launching"
  PROVE  /\ ConvGradAccepts(c)
         /\ PlanOf(c) = GradPlan(MaskOf(c), <<GradInput(c), GradWeight(c), GradBias(c)>>,
                          IF Dim(c.in[1]) = 3
                          THEN <<LineInputLaunch(c), LineWeightLaunch(c), LineBiasLaunch(c)>>
                          ELSE <<PlaneInputLaunch(c), PlaneWeightLaunch(c), PlaneBiasLaunch(c)>>)
<1> DEFINE a == c.in[1]
           g == c.in[2]
           w == c.in[3]
           mask == MaskOf(c)
           p == GradPlan(mask, <<GradInput(c), GradWeight(c), GradBias(c)>>,
                         IF Dim(a) = 3
                         THEN <<LineInputLaunch(c), LineWeightLaunch(c), LineBiasLaunch(c)>>
                         ELSE <<PlaneInputLaunch(c), PlaneWeightLaunch(c), PlaneBiasLaunch(c)>>)
           ok == /\ \A t \in {a, g, w} : require_fp32_minigpu_contiguous(t)
                 /\ Dim(a) \in {3, 4} /\ Dim(w) = Dim(a) /\ Dim(g) = Dim(a)
                 /\ Size(w, 2) = Size(a, 2)
                 /\ Size(g, 1) = Size(a, 1) /\ Size(g, 2) = Size(w, 1)
                 /\ ConvArgs(c.arg, Dim(a))
<1>1. PlanOf(c) = convolution_backward(a, g, w, c.arg, mask)
  BY DEF PlanOf, MiniGpuOps, autograd_backward, MaskOf
<1>2. convolution_backward(a, g, w, c.arg, mask) = Check(ok, p)
  BY Zenon DEF convolution_backward, LineInputLaunch, LineWeightLaunch, LineBiasLaunch,
               PlaneInputLaunch, PlaneWeightLaunch, PlaneBiasLaunch, LineGradNumbers, PlaneGradNumbers,
               GradInput, GradWeight, GradBias
<1>3. ok /\ PlanOf(c) = p
  <2> HIDE DEF p, ok
  <2> QED
    BY <1>1, <1>2, CheckPassed
<1> QED
  BY <1>3 DEF ConvGradAccepts

\* The tensors of such a call.
LEMMA ConvGradTensors ==
  ASSUME NEW c, WellFormed(c), c.op = "convolution_grad"
  PROVE  /\ c.in[1] \in Tensors /\ c.in[2] \in Tensors /\ c.in[3] \in Tensors
         /\ 1 \in DOMAIN c.in /\ 2 \in DOMAIN c.in /\ 3 \in DOMAIN c.in /\ c.arg.stride \in Seq(Int)
<1>1. c.op \in ThreeTensors
  BY DEF ThreeTensors
<1>2. c.arg.stride \in Seq(Int)
  BY DEF WellFormed
<1> QED
  BY <1>1, <1>2, ThreeGiven

\* A size of the input whose windows fit.
ConvGradSize(c, i) ==
  /\ c.arg.stride[i] \in Nat
  /\ Size(c.in[1], i + 2) \in Nat /\ Size(c.in[2], i + 2) \in Nat /\ Size(c.in[3], i + 2) \in Nat
  /\ \A o \in Upto(Size(c.in[2], i + 2)) : \A k \in Upto(Size(c.in[3], i + 2)) :
       o * c.arg.stride[i] + k \in Upto(Size(c.in[1], i + 2))

\* Its sizes and strides fit the gradient of the output.
LEMMA ConvGradSizes ==
  ASSUME NEW c, WellFormed(c), c.op = "convolution_grad", ~Overhangs(c), PlanOf(c).kind = "launching"
  PROVE  /\ DOMAIN c.arg.stride = 1..(Dim(c.in[1]) - 2)
         /\ \A i \in 1..(Dim(c.in[1]) - 2) : ConvGradSize(c, i)
<1>1. /\ ConvGradAccepts(c) /\ c.in[1] \in Tensors /\ c.in[2] \in Tensors /\ c.in[3] \in Tensors
      /\ c.arg.stride \in Seq(Int)
  BY ConvGradPlan, ConvGradTensors
<1>2. /\ Len(c.arg.stride) = Dim(c.in[1]) - 2 /\ \A d \in DOMAIN c.arg.stride : c.arg.stride[d] > 0
      /\ Dim(c.in[1]) \in {3, 4} /\ Dim(c.in[2]) = Dim(c.in[1]) /\ Dim(c.in[3]) = Dim(c.in[1])
  BY <1>1 DEF ConvGradAccepts, ConvArgs
<1>3. ASSUME NEW i \in 1..(Dim(c.in[1]) - 2) PROVE ConvGradSize(c, i)
  <2> DEFINE s == c.arg.stride[i]
             in == Size(c.in[1], i + 2)
             out == Size(c.in[2], i + 2)
             kernel == Size(c.in[3], i + 2)
  <2>1. /\ i + 2 \in 1..Dim(c.in[1]) /\ i + 2 \in 1..Dim(c.in[2]) /\ i + 2 \in 1..Dim(c.in[3])
        /\ i + 2 \in 3..Dim(c.in[1]) /\ (i + 2) - 2 = i
    BY <1>2
  <2>2. in \in Nat /\ kernel \in Nat /\ out \in Nat
    BY <1>1, <2>1, SizesAreNat
  <2>3. s \in Nat
    BY <1>1, <1>2
  <2>4. ~((out - 1) * s + kernel > in)
    <3>1. \A d \in 3..Len(ShapeOf(c, 1)) :
            ~((ShapeOf(c, 2)[d] - 1) * c.arg.stride[d - 2] + ShapeOf(c, 3)[d] > ShapeOf(c, 1)[d])
      BY Zenon DEF Overhangs
    <3>2. ~((ShapeOf(c, 2)[i + 2] - 1) * c.arg.stride[(i + 2) - 2] + ShapeOf(c, 3)[i + 2] > ShapeOf(c, 1)[i + 2])
      BY <2>1, <3>1, Zenon DEF ShapeOf, Dim
    <3> QED
      BY <2>1, <3>2, Zenon DEF ShapeOf, Size
  <2> HIDE DEF s, in, out, kernel
  <2>5. \A o \in Upto(out) : \A k \in Upto(kernel) : o * s + k \in Upto(in)
    BY <2>2, <2>3, <2>4, WindowsFit
  <2> QED
    BY <2>2, <2>3, <2>5, Zenon DEF ConvGradSize, s, in, out, kernel
<1> QED
  BY <1>1, <1>2, <1>3

\* The numbers of a launch over one dimension describe the call's tensors.
LEMMA LineGradFit ==
  ASSUME NEW c, WellFormed(c), c.op = "convolution_grad", ~Overhangs(c), PlanOf(c).kind = "launching",
         Dim(c.in[1]) = 3, NEW n
  PROVE  LineGradFits(c, LineGradNumbers(c, n)) /\ LineGradNumbers(c, n).n = n
<1> DEFINE p == LineGradNumbers(c, n)
           s == c.arg.stride
<1>1. ConvGradAccepts(c)
  BY ConvGradPlan
<1>2. c.in[1] \in Tensors /\ c.in[2] \in Tensors /\ c.in[3] \in Tensors
  BY ConvGradTensors
<1>3. DOMAIN s = {1} /\ ConvGradSize(c, 1)
  <2>1. 1..(Dim(c.in[1]) - 2) = {1} /\ 1 \in 1..(Dim(c.in[1]) - 2)
    OBVIOUS
  <2>2. DOMAIN c.arg.stride = 1..(Dim(c.in[1]) - 2) /\ \A i \in 1..(Dim(c.in[1]) - 2) : ConvGradSize(c, i)
    BY ConvGradSizes
  <2> QED
    BY <2>1, <2>2 DEF s
<1>4. /\ Dim(c.in[2]) = 3 /\ Dim(c.in[3]) = 3 /\ Size(c.in[3], 2) = Size(c.in[1], 2)
      /\ Size(c.in[2], 1) = Size(c.in[1], 1) /\ Size(c.in[2], 2) = Size(c.in[3], 1)
  BY <1>1 DEF ConvGradAccepts
<1>5. \A d \in 1..3 : Size(c.in[1], d) \in Nat /\ Size(c.in[2], d) \in Nat /\ Size(c.in[3], d) \in Nat
  BY <1>2, <1>4, SizesAreNat
<1>6. /\ p.n = n /\ p.b = Size(c.in[1], 1) /\ p.ic = Size(c.in[1], 2) /\ p.oc = Size(c.in[3], 1)
      /\ p.iw = Size(c.in[1], 3) /\ p.ow = Size(c.in[2], 3) /\ p.kw = Size(c.in[3], 3) /\ p.sw = s[1]
  BY DEF LineGradNumbers, ConvShape1
<1>7. /\ ShapeOf(c, 1) = <<p.b, p.ic, p.iw>> /\ ShapeOf(c, 2) = <<p.b, p.oc, p.ow>>
      /\ ShapeOf(c, 3) = <<p.oc, p.ic, p.kw>>
  <2>1. \A t \in Seq(Nat) : Len(t) = 3 => t = <<t[1], t[2], t[3]>>
    OBVIOUS
  <2>2. /\ ShapeOf(c, 1) \in Seq(Nat) /\ Len(ShapeOf(c, 1)) = 3
        /\ ShapeOf(c, 2) \in Seq(Nat) /\ Len(ShapeOf(c, 2)) = 3
        /\ ShapeOf(c, 3) \in Seq(Nat) /\ Len(ShapeOf(c, 3)) = 3
    BY <1>2, <1>4 DEF ShapeOf, Tensors, Dim
  <2>3. /\ ShapeOf(c, 1) = <<ShapeOf(c, 1)[1], ShapeOf(c, 1)[2], ShapeOf(c, 1)[3]>>
        /\ ShapeOf(c, 2) = <<ShapeOf(c, 2)[1], ShapeOf(c, 2)[2], ShapeOf(c, 2)[3]>>
        /\ ShapeOf(c, 3) = <<ShapeOf(c, 3)[1], ShapeOf(c, 3)[2], ShapeOf(c, 3)[3]>>
    BY <2>1, <2>2, Zenon
  <2> HIDE DEF p
  <2> QED
    BY <1>4, <1>6, <2>3, Zenon DEF ShapeOf, Size
<1> HIDE DEF p, s
<1>8. /\ p.b \in Nat /\ p.ic \in Nat /\ p.iw \in Nat /\ p.oc \in Nat /\ p.kw \in Nat /\ p.ow \in Nat
  <2>1. 1 \in 1..3 /\ 2 \in 1..3 /\ 3 \in 1..3
    OBVIOUS
  <2> QED
    BY <1>5, <1>6, <2>1, Zenon
<1>9. p.sw \in Nat /\ \A o \in Upto(p.ow) : \A k \in Upto(p.kw) : o * p.sw + k \in Upto(p.iw)
  <2>1. 1 + 2 = 3
    OBVIOUS
  <2> QED
    BY <1>3, <1>6, <2>1, Zenon DEF ConvGradSize, s
<1>10. LineFits(c, 3, p)
  BY <1>2, <1>3, <1>6, <1>7, <1>8, <1>9 DEF LineFits, Convs, s
<1>11. LineGradFits(c, p)
  BY <1>2, <1>7, <1>10 DEF LineGradFits
<1> QED
  BY <1>6, <1>11 DEF p

\* And over two.
LEMMA PlaneGradFit ==
  ASSUME NEW c, WellFormed(c), c.op = "convolution_grad", ~Overhangs(c), PlanOf(c).kind = "launching",
         Dim(c.in[1]) = 4, NEW n
  PROVE  PlaneGradFits(c, PlaneGradNumbers(c, n)) /\ PlaneGradNumbers(c, n).n = n
<1> DEFINE p == PlaneGradNumbers(c, n)
           s == c.arg.stride
<1>1. ConvGradAccepts(c)
  BY ConvGradPlan
<1>2. c.in[1] \in Tensors /\ c.in[2] \in Tensors /\ c.in[3] \in Tensors
  BY ConvGradTensors
<1>3. DOMAIN s = {1, 2} /\ ConvGradSize(c, 1) /\ ConvGradSize(c, 2)
  <2>1. 1..(Dim(c.in[1]) - 2) = {1, 2} /\ 1 \in 1..(Dim(c.in[1]) - 2) /\ 2 \in 1..(Dim(c.in[1]) - 2)
    OBVIOUS
  <2>2. DOMAIN c.arg.stride = 1..(Dim(c.in[1]) - 2) /\ \A i \in 1..(Dim(c.in[1]) - 2) : ConvGradSize(c, i)
    BY ConvGradSizes
  <2> QED
    BY <2>1, <2>2 DEF s
<1>4. /\ Dim(c.in[2]) = 4 /\ Dim(c.in[3]) = 4 /\ Size(c.in[3], 2) = Size(c.in[1], 2)
      /\ Size(c.in[2], 1) = Size(c.in[1], 1) /\ Size(c.in[2], 2) = Size(c.in[3], 1)
  BY <1>1 DEF ConvGradAccepts
<1>5. \A d \in 1..4 : Size(c.in[1], d) \in Nat /\ Size(c.in[2], d) \in Nat /\ Size(c.in[3], d) \in Nat
  BY <1>2, <1>4, SizesAreNat
<1>6. /\ p.n = n /\ p.b = Size(c.in[1], 1) /\ p.ic = Size(c.in[1], 2) /\ p.oc = Size(c.in[3], 1)
      /\ p.ih = Size(c.in[1], 3) /\ p.oh = Size(c.in[2], 3) /\ p.kh = Size(c.in[3], 3) /\ p.sh = s[1]
      /\ p.iw = Size(c.in[1], 4) /\ p.ow = Size(c.in[2], 4) /\ p.kw = Size(c.in[3], 4) /\ p.sw = s[2]
  BY DEF PlaneGradNumbers, ConvShape2
<1>7. /\ ShapeOf(c, 1) = <<p.b, p.ic, p.ih, p.iw>> /\ ShapeOf(c, 2) = <<p.b, p.oc, p.oh, p.ow>>
      /\ ShapeOf(c, 3) = <<p.oc, p.ic, p.kh, p.kw>>
  <2>1. \A t \in Seq(Nat) : Len(t) = 4 => t = <<t[1], t[2], t[3], t[4]>>
    OBVIOUS
  <2>2. /\ ShapeOf(c, 1) \in Seq(Nat) /\ Len(ShapeOf(c, 1)) = 4
        /\ ShapeOf(c, 2) \in Seq(Nat) /\ Len(ShapeOf(c, 2)) = 4
        /\ ShapeOf(c, 3) \in Seq(Nat) /\ Len(ShapeOf(c, 3)) = 4
    BY <1>2, <1>4 DEF ShapeOf, Tensors, Dim
  <2>3. /\ ShapeOf(c, 1) = <<ShapeOf(c, 1)[1], ShapeOf(c, 1)[2], ShapeOf(c, 1)[3], ShapeOf(c, 1)[4]>>
        /\ ShapeOf(c, 2) = <<ShapeOf(c, 2)[1], ShapeOf(c, 2)[2], ShapeOf(c, 2)[3], ShapeOf(c, 2)[4]>>
        /\ ShapeOf(c, 3) = <<ShapeOf(c, 3)[1], ShapeOf(c, 3)[2], ShapeOf(c, 3)[3], ShapeOf(c, 3)[4]>>
    BY <2>1, <2>2, Zenon
  <2> HIDE DEF p
  <2> QED
    BY <1>4, <1>6, <2>3, Zenon DEF ShapeOf, Size
<1> HIDE DEF p, s
<1>8. /\ p.b \in Nat /\ p.ic \in Nat /\ p.ih \in Nat /\ p.iw \in Nat /\ p.oc \in Nat /\ p.kh \in Nat /\ p.kw \in Nat
      /\ p.oh \in Nat /\ p.ow \in Nat
  <2>1. 1 \in 1..4 /\ 2 \in 1..4 /\ 3 \in 1..4 /\ 4 \in 1..4
    OBVIOUS
  <2> QED
    BY <1>5, <1>6, <2>1, Zenon
<1>9. /\ p.sh \in Nat /\ \A o \in Upto(p.oh) : \A k \in Upto(p.kh) : o * p.sh + k \in Upto(p.ih)
      /\ p.sw \in Nat /\ \A o \in Upto(p.ow) : \A k \in Upto(p.kw) : o * p.sw + k \in Upto(p.iw)
  <2>1. 1 + 2 = 3 /\ 2 + 2 = 4
    OBVIOUS
  <2>2. p.sh \in Nat /\ \A o \in Upto(p.oh) : \A k \in Upto(p.kh) : o * p.sh + k \in Upto(p.ih)
    BY <1>3, <1>6, <2>1, Zenon DEF ConvGradSize, s
  <2>3. p.sw \in Nat /\ \A o \in Upto(p.ow) : \A k \in Upto(p.kw) : o * p.sw + k \in Upto(p.iw)
    BY <1>3, <1>6, <2>1, Zenon DEF ConvGradSize, s
  <2> QED
    BY <2>2, <2>3
<1>10. PlaneFits(c, 3, p)
  BY <1>2, <1>3, <1>6, <1>7, <1>8, <1>9 DEF PlaneFits, Convs, s
<1>11. PlaneGradFits(c, p)
  BY <1>2, <1>7, <1>10 DEF PlaneGradFits
<1> QED
  BY <1>6, <1>11 DEF p

\* At each position the gradients over one dimension are those of the reference.
LEMMA LineInputAsked ==
  ASSUME NEW c, NEW p, LineGradFits(c, p), NEW n, n = NumelOf(ShapeOf(c, 1)), NEW q \in Upto(n)
  PROVE  LineInputGrads(c, p, n)[q] = InputAsked(c)[IndexAt(ShapeOf(c, 1), q)]
<1> DEFINE shape == <<p.b, p.ic, p.iw>>
           ix == IndexAt(shape, q)
<1>1. ShapeOf(c, 1) = shape /\ p.b \in Nat /\ p.ic \in Nat /\ p.iw \in Nat
  BY DEF LineGradFits, LineFits
<1>2. /\ shape[1] = p.b /\ shape[2] = p.ic /\ shape[3] = p.iw
      /\ shape \in Seq(Nat) /\ Len(shape) = 3
  BY <1>1
<1> HIDE DEF shape
<1>3. q \in Upto(NumelOf(shape))
  BY <1>1
<1>4. ix \in Indices(shape) /\ DigitsOfThree(shape, q, ix)
  BY <1>2, <1>3, IndexAtThree, IndexAtIs
<1> HIDE DEF ix
<1>5. /\ ix = <<ix[1], ix[2], ix[3]>>
      /\ ix[1] \in Upto(p.b) /\ ix[2] \in Upto(p.ic)
      /\ q % p.iw = ix[3] /\ (q \div p.iw) % p.ic = ix[2] /\ (q \div p.iw) \div p.ic = ix[1]
  BY <1>2, <1>4 DEF DigitsOfThree
<1>6. LineInputGrads(c, p, n)[q] = LineInputGrad(c, p, ix[1], ix[2], ix[3])
  BY <1>5, Zenon DEF LineInputGrads
<1>7. LineInputGrad(c, p, ix[1], ix[2], ix[3]) = InputSum(c, <<ix[1], ix[2], ix[3]>>)
  BY <1>5, LineInputGradient
<1>8. InputAsked(c)[ix] = InputSum(c, ix)
  BY <1>1, <1>4, Zenon DEF InputAsked
<1> QED
  BY <1>1, <1>5, <1>6, <1>7, <1>8, Zenon DEF ix

\* The weight's gradient in one dimension is what the reference asks for.
LEMMA LineWeightAsked ==
  ASSUME NEW c, NEW p, LineGradFits(c, p), NEW n, n = NumelOf(ShapeOf(c, 3)), NEW q \in Upto(n)
  PROVE  LineWeightGrads(c, p, n)[q] = WeightAsked(c)[IndexAt(ShapeOf(c, 3), q)]
<1> DEFINE shape == <<p.oc, p.ic, p.kw>>
           ix == IndexAt(shape, q)
<1>1. ShapeOf(c, 3) = shape /\ p.oc \in Nat /\ p.ic \in Nat /\ p.kw \in Nat
  BY DEF LineGradFits, LineFits
<1>2. /\ shape[1] = p.oc /\ shape[2] = p.ic /\ shape[3] = p.kw
      /\ shape \in Seq(Nat) /\ Len(shape) = 3
  BY <1>1
<1> HIDE DEF shape
<1>3. q \in Upto(NumelOf(shape))
  BY <1>1
<1>4. ix \in Indices(shape) /\ DigitsOfThree(shape, q, ix)
  BY <1>2, <1>3, IndexAtThree, IndexAtIs
<1> HIDE DEF ix
<1>5. /\ ix = <<ix[1], ix[2], ix[3]>>
      /\ ix[1] \in Upto(p.oc) /\ ix[2] \in Upto(p.ic) /\ ix[3] \in Upto(p.kw)
      /\ q % p.kw = ix[3] /\ (q \div p.kw) % p.ic = ix[2] /\ (q \div p.kw) \div p.ic = ix[1]
  BY <1>2, <1>4 DEF DigitsOfThree
<1>6. LineWeightGrads(c, p, n)[q] = LineWeightGrad(c, p, ix[1], ix[2], ix[3])
  BY <1>5, Zenon DEF LineWeightGrads
<1>7. LineWeightGrad(c, p, ix[1], ix[2], ix[3]) = WeightSum(c, <<ix[1], ix[2], ix[3]>>)
  BY <1>5, LineWeightGradient
<1>8. WeightAsked(c)[ix] = WeightSum(c, ix)
  BY <1>1, <1>4, Zenon DEF WeightAsked
<1> QED
  BY <1>1, <1>5, <1>6, <1>7, <1>8, Zenon DEF ix

\* So over two.
LEMMA PlaneInputAsked ==
  ASSUME NEW c, NEW p, PlaneGradFits(c, p), NEW n, n = NumelOf(ShapeOf(c, 1)), NEW q \in Upto(n)
  PROVE  PlaneInputGrads(c, p, n)[q] = InputAsked(c)[IndexAt(ShapeOf(c, 1), q)]
<1> DEFINE shape == <<p.b, p.ic, p.ih, p.iw>>
           ix == IndexAt(shape, q)
<1>1. ShapeOf(c, 1) = shape /\ p.b \in Nat /\ p.ic \in Nat /\ p.ih \in Nat /\ p.iw \in Nat
  BY DEF PlaneGradFits, PlaneFits
<1>2. /\ shape[1] = p.b /\ shape[2] = p.ic /\ shape[3] = p.ih /\ shape[4] = p.iw
      /\ shape \in Seq(Nat) /\ Len(shape) = 4
  BY <1>1
<1> HIDE DEF shape
<1>3. q \in Upto(NumelOf(shape))
  BY <1>1
<1>4. ix \in Indices(shape) /\ DigitsOfFour(shape, q, ix)
  BY <1>2, <1>3, IndexAtFour, IndexAtIs
<1> HIDE DEF ix
<1>5. /\ ix = <<ix[1], ix[2], ix[3], ix[4]>>
      /\ ix[1] \in Upto(p.b) /\ ix[2] \in Upto(p.ic)
      /\ q % p.iw = ix[4] /\ (q \div p.iw) % p.ih = ix[3]
      /\ ((q \div p.iw) \div p.ih) % p.ic = ix[2] /\ ((q \div p.iw) \div p.ih) \div p.ic = ix[1]
  BY <1>2, <1>4 DEF DigitsOfFour
<1>6. PlaneInputGrads(c, p, n)[q] = PlaneInputGrad(c, p, ix[1], ix[2], ix[3], ix[4])
  BY <1>5, Zenon DEF PlaneInputGrads
<1>7. PlaneInputGrad(c, p, ix[1], ix[2], ix[3], ix[4]) = InputSum(c, <<ix[1], ix[2], ix[3], ix[4]>>)
  BY <1>5, PlaneInputGradient
<1>8. InputAsked(c)[ix] = InputSum(c, ix)
  BY <1>1, <1>4, Zenon DEF InputAsked
<1> QED
  BY <1>1, <1>5, <1>6, <1>7, <1>8, Zenon DEF ix

\* The weight's gradient in two dimensions is what the reference asks for.
LEMMA PlaneWeightAsked ==
  ASSUME NEW c, NEW p, PlaneGradFits(c, p), NEW n, n = NumelOf(ShapeOf(c, 3)), NEW q \in Upto(n)
  PROVE  PlaneWeightGrads(c, p, n)[q] = WeightAsked(c)[IndexAt(ShapeOf(c, 3), q)]
<1> DEFINE shape == <<p.oc, p.ic, p.kh, p.kw>>
           ix == IndexAt(shape, q)
<1>1. ShapeOf(c, 3) = shape /\ p.oc \in Nat /\ p.ic \in Nat /\ p.kh \in Nat /\ p.kw \in Nat
  BY DEF PlaneGradFits, PlaneFits
<1>2. /\ shape[1] = p.oc /\ shape[2] = p.ic /\ shape[3] = p.kh /\ shape[4] = p.kw
      /\ shape \in Seq(Nat) /\ Len(shape) = 4
  BY <1>1
<1> HIDE DEF shape
<1>3. q \in Upto(NumelOf(shape))
  BY <1>1
<1>4. ix \in Indices(shape) /\ DigitsOfFour(shape, q, ix)
  BY <1>2, <1>3, IndexAtFour, IndexAtIs
<1> HIDE DEF ix
<1>5. /\ ix = <<ix[1], ix[2], ix[3], ix[4]>>
      /\ ix[1] \in Upto(p.oc) /\ ix[2] \in Upto(p.ic) /\ ix[3] \in Upto(p.kh) /\ ix[4] \in Upto(p.kw)
      /\ q % p.kw = ix[4] /\ (q \div p.kw) % p.kh = ix[3]
      /\ ((q \div p.kw) \div p.kh) % p.ic = ix[2] /\ ((q \div p.kw) \div p.kh) \div p.ic = ix[1]
  BY <1>2, <1>4 DEF DigitsOfFour
<1>6. PlaneWeightGrads(c, p, n)[q] = PlaneWeightGrad(c, p, ix[1], ix[2], ix[3], ix[4])
  BY <1>5, Zenon DEF PlaneWeightGrads
<1>7. PlaneWeightGrad(c, p, ix[1], ix[2], ix[3], ix[4]) = WeightSum(c, <<ix[1], ix[2], ix[3], ix[4]>>)
  BY <1>5, PlaneWeightGradient
<1>8. WeightAsked(c)[ix] = WeightSum(c, ix)
  BY <1>1, <1>4, Zenon DEF WeightAsked
<1> QED
  BY <1>1, <1>5, <1>6, <1>7, <1>8, Zenon DEF ix

\* Over both, the bias has one gradient per channel.
LEMMA ChannelAsked ==
  ASSUME NEW c, NEW oc \in Nat, ShapeOf(c, 3)[1] = oc, NEW q \in Upto(oc)
  PROVE  BiasAsked(c, 2)[IndexAt(<<oc>>, q)] = BiasSum(c, 2, q)
<1> DEFINE s == <<oc>>
           ix == IndexAt(s, q)
<1>1. s \in Seq(Nat) /\ Len(s) = 1 /\ s[1] = oc /\ NumelOf(s) = oc /\ s = <<ShapeOf(c, 3)[1]>>
  BY NumelOfFew
<1> HIDE DEF s
<1>2. ix = <<q>> /\ ix \in Indices(s)
  BY <1>1, IndexAtOne, IndexAtIs
<1>3. ix[1] = q
  BY <1>2
<1> HIDE DEF ix
<1>4. BiasAsked(c, 2)[ix] = BiasSum(c, 2, ix[1])
  BY Zenon, <1>1, <1>2 DEF BiasAsked
<1> QED
  BY <1>3, <1>4 DEF ix, s

\* Whatever the reference asks for, the mask asks for too.
LEMMA ConvGradAsked ==
  ASSUME NEW c, c.op = "convolution_grad", NEW name \in DOMAIN Reference(c)
  PROVE  LET mask == MaskOf(c)
         IN \/ /\ name = "grad_input" /\ mask[1]
               /\ Reference(c)[name] = ResultOf(ShapeOf(c, 1), InputAsked(c))
            \/ /\ name = "grad_weight" /\ mask[2]
               /\ Reference(c)[name] = ResultOf(ShapeOf(c, 3), WeightAsked(c))
            \/ /\ name = "grad_bias" /\ mask[3]
               /\ Reference(c)[name] = ResultOf(<<ShapeOf(c, 3)[1]>>, BiasAsked(c, 2))
<1> DEFINE all == Gradients(c, 2)
           few == GradNames(c.arg.needs) \ (IF c.arg.bias THEN {} ELSE {"grad_bias"})
           mask == MaskOf(c)
           needs == c.arg.needs
           bias == c.arg.bias
<1>1. /\ DOMAIN all = {"grad_input", "grad_weight", "grad_bias"}
      /\ all["grad_input"] = ResultOf(ShapeOf(c, 1), InputAsked(c))
      /\ all["grad_weight"] = ResultOf(ShapeOf(c, 3), WeightAsked(c))
      /\ all["grad_bias"] = ResultOf(<<ShapeOf(c, 3)[1]>>, BiasAsked(c, 2))
  BY GradientsAsked
<1> HIDE DEF all
<1>2. Reference(c) = Only(few, all)
  BY DEF Reference, InPlace, all
<1>3. name \in few /\ Reference(c)[name] = all[name]
  BY <1>2 DEF Only
<1>4. mask = autograd_mask(c.arg.needs, c.arg.bias)
  BY DEF MaskOf
<1>5. name \in GradNames(needs) /\ (name = "grad_bias" => bias)
  BY <1>3
<1> HIDE DEF few, mask, needs, bias
<1>6. /\ needs[1] => mask[1]
      /\ needs[2] => mask[2]
      /\ bias /\ needs[3] => mask[3]
  BY <1>4 DEF autograd_mask, needs, bias
<1>7. \/ name = "grad_input" /\ needs[1]
      \/ name = "grad_weight" /\ needs[2]
      \/ name = "grad_bias" /\ needs[3]
  BY <1>5, MaskedNames
<1> QED
  BY <1>1, <1>3, <1>5, <1>6, <1>7 DEF mask

\* Three launches that make the new tensors hold what the reference asks for
\* suffice.
LEMMA ConvGradientsSuffice ==
  ASSUME NEW c, c.op = "convolution_grad", c.in[1] \in Tensors, c.in[3] \in Tensors,
         NEW oc \in Nat, ShapeOf(c, 3)[1] = oc,
         NEW l1, NEW l2, NEW l3,
         PlanOf(c) = GradPlan(MaskOf(c), <<GradInput(c), GradWeight(c), GradBias(c)>>, <<l1, l2, l3>>),
         NEW w1, NEW w2, NEW w3,
         Computes(c, GradInput(c), l1, w1), Computes(c, GradWeight(c), l2, w2), Computes(c, GradBias(c), l3, w3),
         \A q \in Upto(NumelOf(ShapeOf(c, 1))) : w1[q] = InputAsked(c)[IndexAt(ShapeOf(c, 1), q)],
         \A q \in Upto(NumelOf(ShapeOf(c, 3))) : w2[q] = WeightAsked(c)[IndexAt(ShapeOf(c, 3), q)],
         \A q \in Upto(oc) : w3[q] = BiasAsked(c, 2)[IndexAt(<<oc>>, q)]
  PROVE  Sufficient(c)
<1> DEFINE mask == MaskOf(c)
           t1 == GradInput(c)
           t2 == GradWeight(c)
           t3 == GradBias(c)
<1>1. /\ t1 \in Tensors /\ t1.name = "grad_input" /\ t1.shape = ShapeOf(c, 1)
      /\ Numel(t1) = NumelOf(ShapeOf(c, 1))
      /\ t2 \in Tensors /\ t2.name = "grad_weight" /\ t2.shape = ShapeOf(c, 3)
      /\ Numel(t2) = NumelOf(ShapeOf(c, 3))
      /\ t3 \in Tensors /\ t3.name = "grad_bias" /\ t3.shape = <<oc>> /\ Numel(t3) = oc
  BY NewConvGradients DEF Numel, ShapeOf
<1> HIDE DEF mask, t1, t2, t3
<1>2. Reference(c)["grad_input"] = ResultOf(t1.shape, InputAsked(c)) => IsAsked(c, "grad_input", t1, w1)
  BY <1>1, AskedAt
<1>3. Reference(c)["grad_weight"] = ResultOf(t2.shape, WeightAsked(c)) => IsAsked(c, "grad_weight", t2, w2)
  BY <1>1, AskedAt
<1>4. Reference(c)["grad_bias"] = ResultOf(t3.shape, BiasAsked(c, 2)) => IsAsked(c, "grad_bias", t3, w3)
  BY <1>1, AskedAt
<1>5. ASSUME NEW name \in DOMAIN Reference(c)
      PROVE  \/ mask[1] /\ IsAsked(c, name, t1, w1)
             \/ mask[2] /\ IsAsked(c, name, t2, w2)
             \/ mask[3] /\ IsAsked(c, name, t3, w3)
  <2>1. \/ /\ name = "grad_input" /\ mask[1]
           /\ Reference(c)[name] = ResultOf(ShapeOf(c, 1), InputAsked(c))
        \/ /\ name = "grad_weight" /\ mask[2]
           /\ Reference(c)[name] = ResultOf(ShapeOf(c, 3), WeightAsked(c))
        \/ /\ name = "grad_bias" /\ mask[3]
           /\ Reference(c)[name] = ResultOf(<<ShapeOf(c, 3)[1]>>, BiasAsked(c, 2))
    BY ConvGradAsked DEF mask
  <2> QED
    BY <1>1, <1>2, <1>3, <1>4, <2>1, Zenon
<1>6. PlanOf(c) = GradPlan(mask, <<t1, t2, t3>>, <<l1, l2, l3>>)
  BY DEF mask, t1, t2, t3
<1>7. Computes(c, t1, l1, w1) /\ Computes(c, t2, l2, w2) /\ Computes(c, t3, l3, w3)
  BY DEF t1, t2, t3
<1> QED
  BY <1>5, <1>6, <1>7, GradientsSuffice

\* Over one dimension they do.
LEMMA LineGradSuffices ==
  ASSUME NEW c, WellFormed(c), c.op = "convolution_grad", ~Overhangs(c), PlanOf(c).kind = "launching",
         Dim(c.in[1]) = 3
  PROVE  Sufficient(c)
<1> DEFINE n1 == Numel(c.in[1])
           n3 == Numel(c.in[3])
           p1 == LineGradNumbers(c, n1)
           p3 == LineGradNumbers(c, n3)
           p0 == LineGradNumbers(c, 0)
           l1 == LineInputLaunch(c)
           l2 == LineWeightLaunch(c)
           l3 == LineBiasLaunch(c)
           w1 == LineInputGrads(c, p1, n1)
           w2 == LineWeightGrads(c, p3, n3)
           w3 == LineBiasGrads(c, p0)
           oc == p0.oc
<1>1. /\ c.in[1] \in Tensors /\ c.in[2] \in Tensors /\ c.in[3] \in Tensors
      /\ 1 \in DOMAIN c.in /\ 2 \in DOMAIN c.in /\ 3 \in DOMAIN c.in
  BY ConvGradTensors
<1>2. /\ LineGradFits(c, p1) /\ p1.n = n1 /\ LineGradFits(c, p3) /\ p3.n = n3 /\ LineGradFits(c, p0)
  BY LineGradFit
<1>3. PlanOf(c) = GradPlan(MaskOf(c), <<GradInput(c), GradWeight(c), GradBias(c)>>, <<l1, l2, l3>>)
  BY ConvGradPlan
<1>4. n1 = NumelOf(ShapeOf(c, 1)) /\ n3 = NumelOf(ShapeOf(c, 3))
  BY DEF Numel, ShapeOf
<1>5. /\ l1.kernel[1] = "conv1d_backward_input" /\ l1.kernel[2] # "host" /\ l1.num = p1
      /\ l1.pointers = <<c.in[2], c.in[3], GradInput(c)>>
      /\ l2.kernel[1] = "conv1d_backward_weight" /\ l2.kernel[2] # "host" /\ l2.num = p3
      /\ l2.pointers = <<c.in[1], c.in[2], GradWeight(c)>>
      /\ l3.kernel[1] = "conv1d_backward_bias" /\ l3.kernel[2] # "host" /\ l3.num = p0
      /\ l3.pointers = <<c.in[2], GradBias(c)>>
  BY DEF LineInputLaunch, LineWeightLaunch, LineBiasLaunch, LaunchFp32, Launch
<1> HIDE DEF n1, n3, p1, p3, p0, l1, l2, l3
<1>6. oc \in Nat /\ ShapeOf(c, 3)[1] = oc
  BY <1>2 DEF LineGradFits, LineFits
<1>7. /\ w1 = [e \in Upto(n1) |-> w1[e]] /\ w2 = [e \in Upto(n3) |-> w2[e]] /\ w3 = [e \in Upto(oc) |-> w3[e]]
  BY Zenon DEF LineInputGrads, LineWeightGrads, LineBiasGrads
<1>8. \A q \in Upto(n1) : w1[q] = InputAsked(c)[IndexAt(ShapeOf(c, 1), q)]
  BY <1>2, <1>4, LineInputAsked
<1>9. \A q \in Upto(n3) : w2[q] = WeightAsked(c)[IndexAt(ShapeOf(c, 3), q)]
  BY <1>2, <1>4, LineWeightAsked
<1>10. ASSUME NEW q \in Upto(oc) PROVE w3[q] = BiasAsked(c, 2)[IndexAt(<<oc>>, q)]
  <2>1. w3[q] = LineBiasGrad(c, p0, q)
    BY Zenon DEF LineBiasGrads
  <2>2. LineBiasGrad(c, p0, q) = BiasSum(c, 2, q)
    BY <1>2, LineBiasGradient
  <2> HIDE DEF w3, oc
  <2>3. BiasAsked(c, 2)[IndexAt(<<oc>>, q)] = BiasSum(c, 2, q)
    BY <1>6, ChannelAsked
  <2> QED
    BY <2>1, <2>2, <2>3
<1>11. \A x : x[1] = Before(c, 2) /\ x[2] = Before(c, 3) => Stored(l1, x) = LoopOver(w1, n1)
  <2>1. \A x : x[1] = Before(c, 2) /\ x[2] = Before(c, 3) =>
                 Stored(l1, x) = conv1d_backward_input(Before(c, 2), Before(c, 3), n1, p1)
    BY <1>2, <1>5 DEF Stored, Kernel
  <2>2. conv1d_backward_input(Before(c, 2), Before(c, 3), n1, p1) = LoopOver(w1, n1)
    BY LineGradKernels
  <2> QED
    BY <2>1, <2>2, Zenon
<1>12. \A x : x[1] = Before(c, 1) /\ x[2] = Before(c, 2) => Stored(l2, x) = LoopOver(w2, n3)
  <2>1. \A x : x[1] = Before(c, 1) /\ x[2] = Before(c, 2) =>
                 Stored(l2, x) = conv1d_backward_weight(Before(c, 1), Before(c, 2), n3, p3)
    BY <1>2, <1>5 DEF Stored, Kernel
  <2>2. conv1d_backward_weight(Before(c, 1), Before(c, 2), n3, p3) = LoopOver(w2, n3)
    BY LineGradKernels
  <2> QED
    BY <2>1, <2>2, Zenon
<1>13. \A x : x[1] = Before(c, 2) => Stored(l3, x) = LoopOver(w3, oc)
  <2>1. \A x : x[1] = Before(c, 2) => Stored(l3, x) = conv1d_backward_bias(Before(c, 2), p0)
    BY <1>2, <1>5 DEF Stored, Kernel
  <2>2. conv1d_backward_bias(Before(c, 2), p0) = LoopOver(w3, oc)
    BY LineGradKernels
  <2> QED
    BY <2>1, <2>2, Zenon
<1> HIDE DEF w1, w2, w3, oc
<1>14. /\ GradInput(c) \in Tensors /\ Numel(GradInput(c)) = n1
       /\ GradWeight(c) \in Tensors /\ Numel(GradWeight(c)) = n3
       /\ GradBias(c) \in Tensors /\ Numel(GradBias(c)) = oc
  BY <1>1, <1>6, NewConvGradients DEF n1, n3
<1>15. Computes(c, GradInput(c), l1, w1)
  <2>1. l1.pointers = <<c.in[2], c.in[3], GradInput(c)>> /\ 2 \in DOMAIN c.in /\ 3 \in DOMAIN c.in
    BY <1>1, <1>5
  <2>2. GradInput(c) \in Tensors /\ n1 = Numel(GradInput(c)) /\ w1 = [e \in Upto(n1) |-> w1[e]]
    BY <1>7, <1>14
  <2> QED
    BY <1>11, <2>1, <2>2, ComputesFromTwo, Zenon
<1>16. Computes(c, GradWeight(c), l2, w2)
  <2>1. l2.pointers = <<c.in[1], c.in[2], GradWeight(c)>> /\ 1 \in DOMAIN c.in /\ 2 \in DOMAIN c.in
    BY <1>1, <1>5
  <2>2. GradWeight(c) \in Tensors /\ n3 = Numel(GradWeight(c)) /\ w2 = [e \in Upto(n3) |-> w2[e]]
    BY <1>7, <1>14
  <2> QED
    BY <1>12, <2>1, <2>2, ComputesFromTwo, Zenon
<1>17. Computes(c, GradBias(c), l3, w3)
  <2>1. l3.pointers = <<c.in[2], GradBias(c)>> /\ 2 \in DOMAIN c.in
    BY <1>1, <1>5
  <2>2. GradBias(c) \in Tensors /\ oc = Numel(GradBias(c)) /\ w3 = [e \in Upto(oc) |-> w3[e]]
    BY <1>7, <1>14
  <2> QED
    BY <1>13, <2>1, <2>2, ComputesFromOne, Zenon
<1>18. /\ \A q \in Upto(NumelOf(ShapeOf(c, 1))) : w1[q] = InputAsked(c)[IndexAt(ShapeOf(c, 1), q)]
       /\ \A q \in Upto(NumelOf(ShapeOf(c, 3))) : w2[q] = WeightAsked(c)[IndexAt(ShapeOf(c, 3), q)]
       /\ \A q \in Upto(oc) : w3[q] = BiasAsked(c, 2)[IndexAt(<<oc>>, q)]
  BY <1>4, <1>8, <1>9, <1>10, Zenon
<1> QED
  BY <1>1, <1>3, <1>6, <1>15, <1>16, <1>17, <1>18, ConvGradientsSuffice

\* And over two.
LEMMA PlaneGradSuffices ==
  ASSUME NEW c, WellFormed(c), c.op = "convolution_grad", ~Overhangs(c), PlanOf(c).kind = "launching",
         Dim(c.in[1]) = 4
  PROVE  Sufficient(c)
<1> DEFINE n1 == Numel(c.in[1])
           n3 == Numel(c.in[3])
           p1 == PlaneGradNumbers(c, n1)
           p3 == PlaneGradNumbers(c, n3)
           p0 == PlaneGradNumbers(c, 0)
           l1 == PlaneInputLaunch(c)
           l2 == PlaneWeightLaunch(c)
           l3 == PlaneBiasLaunch(c)
           w1 == PlaneInputGrads(c, p1, n1)
           w2 == PlaneWeightGrads(c, p3, n3)
           w3 == PlaneBiasGrads(c, p0)
           oc == p0.oc
<1>1. /\ c.in[1] \in Tensors /\ c.in[2] \in Tensors /\ c.in[3] \in Tensors
      /\ 1 \in DOMAIN c.in /\ 2 \in DOMAIN c.in /\ 3 \in DOMAIN c.in
  BY ConvGradTensors
<1>2. /\ PlaneGradFits(c, p1) /\ p1.n = n1 /\ PlaneGradFits(c, p3) /\ p3.n = n3 /\ PlaneGradFits(c, p0)
  BY PlaneGradFit
<1>3. PlanOf(c) = GradPlan(MaskOf(c), <<GradInput(c), GradWeight(c), GradBias(c)>>, <<l1, l2, l3>>)
  <2>1. Dim(c.in[1]) # 3
    OBVIOUS
  <2> HIDE DEF l1, l2, l3
  <2>2. PlanOf(c) = GradPlan(MaskOf(c), <<GradInput(c), GradWeight(c), GradBias(c)>>,
                       <<PlaneInputLaunch(c), PlaneWeightLaunch(c), PlaneBiasLaunch(c)>>)
    BY <2>1, ConvGradPlan, Zenon
  <2> QED
    BY <2>2 DEF l1, l2, l3
<1>4. n1 = NumelOf(ShapeOf(c, 1)) /\ n3 = NumelOf(ShapeOf(c, 3))
  BY DEF Numel, ShapeOf
<1>5. /\ l1.kernel[1] = "conv2d_backward_input" /\ l1.kernel[2] # "host" /\ l1.num = p1
      /\ l1.pointers = <<c.in[2], c.in[3], GradInput(c)>>
      /\ l2.kernel[1] = "conv2d_backward_weight" /\ l2.kernel[2] # "host" /\ l2.num = p3
      /\ l2.pointers = <<c.in[1], c.in[2], GradWeight(c)>>
      /\ l3.kernel[1] = "conv2d_backward_bias" /\ l3.kernel[2] # "host" /\ l3.num = p0
      /\ l3.pointers = <<c.in[2], GradBias(c)>>
  BY DEF PlaneInputLaunch, PlaneWeightLaunch, PlaneBiasLaunch, LaunchFp32, Launch
<1> HIDE DEF n1, n3, p1, p3, p0, l1, l2, l3
<1>6. oc \in Nat /\ ShapeOf(c, 3)[1] = oc
  BY <1>2 DEF PlaneGradFits, PlaneFits
<1>7. /\ w1 = [e \in Upto(n1) |-> w1[e]] /\ w2 = [e \in Upto(n3) |-> w2[e]] /\ w3 = [e \in Upto(oc) |-> w3[e]]
  BY Zenon DEF PlaneInputGrads, PlaneWeightGrads, PlaneBiasGrads
<1>8. \A q \in Upto(n1) : w1[q] = InputAsked(c)[IndexAt(ShapeOf(c, 1), q)]
  BY <1>2, <1>4, PlaneInputAsked
<1>9. \A q \in Upto(n3) : w2[q] = WeightAsked(c)[IndexAt(ShapeOf(c, 3), q)]
  BY <1>2, <1>4, PlaneWeightAsked
<1>10. ASSUME NEW q \in Upto(oc) PROVE w3[q] = BiasAsked(c, 2)[IndexAt(<<oc>>, q)]
  <2>1. w3[q] = PlaneBiasGrad(c, p0, q)
    BY Zenon DEF PlaneBiasGrads
  <2>2. PlaneBiasGrad(c, p0, q) = BiasSum(c, 2, q)
    BY <1>2, PlaneBiasGradient
  <2> HIDE DEF w3, oc
  <2>3. BiasAsked(c, 2)[IndexAt(<<oc>>, q)] = BiasSum(c, 2, q)
    BY <1>6, ChannelAsked
  <2> QED
    BY <2>1, <2>2, <2>3
<1>11. \A x : x[1] = Before(c, 2) /\ x[2] = Before(c, 3) => Stored(l1, x) = LoopOver(w1, n1)
  <2>1. \A x : x[1] = Before(c, 2) /\ x[2] = Before(c, 3) =>
                 Stored(l1, x) = conv2d_backward_input(Before(c, 2), Before(c, 3), n1, p1)
    BY <1>2, <1>5 DEF Stored, Kernel
  <2>2. conv2d_backward_input(Before(c, 2), Before(c, 3), n1, p1) = LoopOver(w1, n1)
    BY PlaneGradKernels
  <2> QED
    BY <2>1, <2>2, Zenon
<1>12. \A x : x[1] = Before(c, 1) /\ x[2] = Before(c, 2) => Stored(l2, x) = LoopOver(w2, n3)
  <2>1. \A x : x[1] = Before(c, 1) /\ x[2] = Before(c, 2) =>
                 Stored(l2, x) = conv2d_backward_weight(Before(c, 1), Before(c, 2), n3, p3)
    BY <1>2, <1>5 DEF Stored, Kernel
  <2>2. conv2d_backward_weight(Before(c, 1), Before(c, 2), n3, p3) = LoopOver(w2, n3)
    BY PlaneGradKernels
  <2> QED
    BY <2>1, <2>2, Zenon
<1>13. \A x : x[1] = Before(c, 2) => Stored(l3, x) = LoopOver(w3, oc)
  <2>1. \A x : x[1] = Before(c, 2) => Stored(l3, x) = conv2d_backward_bias(Before(c, 2), p0)
    BY <1>2, <1>5 DEF Stored, Kernel
  <2>2. conv2d_backward_bias(Before(c, 2), p0) = LoopOver(w3, oc)
    BY PlaneGradKernels
  <2> QED
    BY <2>1, <2>2, Zenon
<1> HIDE DEF w1, w2, w3, oc
<1>14. /\ GradInput(c) \in Tensors /\ Numel(GradInput(c)) = n1
       /\ GradWeight(c) \in Tensors /\ Numel(GradWeight(c)) = n3
       /\ GradBias(c) \in Tensors /\ Numel(GradBias(c)) = oc
  BY <1>1, <1>6, NewConvGradients DEF n1, n3
<1>15. Computes(c, GradInput(c), l1, w1)
  <2>1. l1.pointers = <<c.in[2], c.in[3], GradInput(c)>> /\ 2 \in DOMAIN c.in /\ 3 \in DOMAIN c.in
    BY <1>1, <1>5
  <2>2. GradInput(c) \in Tensors /\ n1 = Numel(GradInput(c)) /\ w1 = [e \in Upto(n1) |-> w1[e]]
    BY <1>7, <1>14
  <2> QED
    BY <1>11, <2>1, <2>2, ComputesFromTwo, Zenon
<1>16. Computes(c, GradWeight(c), l2, w2)
  <2>1. l2.pointers = <<c.in[1], c.in[2], GradWeight(c)>> /\ 1 \in DOMAIN c.in /\ 2 \in DOMAIN c.in
    BY <1>1, <1>5
  <2>2. GradWeight(c) \in Tensors /\ n3 = Numel(GradWeight(c)) /\ w2 = [e \in Upto(n3) |-> w2[e]]
    BY <1>7, <1>14
  <2> QED
    BY <1>12, <2>1, <2>2, ComputesFromTwo, Zenon
<1>17. Computes(c, GradBias(c), l3, w3)
  <2>1. l3.pointers = <<c.in[2], GradBias(c)>> /\ 2 \in DOMAIN c.in
    BY <1>1, <1>5
  <2>2. GradBias(c) \in Tensors /\ oc = Numel(GradBias(c)) /\ w3 = [e \in Upto(oc) |-> w3[e]]
    BY <1>7, <1>14
  <2> QED
    BY <1>13, <2>1, <2>2, ComputesFromOne, Zenon
<1>18. /\ \A q \in Upto(NumelOf(ShapeOf(c, 1))) : w1[q] = InputAsked(c)[IndexAt(ShapeOf(c, 1), q)]
       /\ \A q \in Upto(NumelOf(ShapeOf(c, 3))) : w2[q] = WeightAsked(c)[IndexAt(ShapeOf(c, 3), q)]
       /\ \A q \in Upto(oc) : w3[q] = BiasAsked(c, 2)[IndexAt(<<oc>>, q)]
  BY <1>4, <1>8, <1>9, <1>10, Zenon
<1> QED
  BY <1>1, <1>3, <1>6, <1>15, <1>16, <1>17, <1>18, ConvGradientsSuffice

\* The gradient of a convolution has a sufficient plan.
LEMMA ConvGradSuffices ==
  ASSUME NEW c, WellFormed(c), c.op = "convolution_grad", ~Overhangs(c), PlanOf(c).kind = "launching"
  PROVE  Sufficient(c)
<1>1. Dim(c.in[1]) \in {3, 4}
  BY ConvGradPlan DEF ConvGradAccepts
<1> QED
  BY <1>1, LineGradSuffices, PlaneGradSuffices

-----------------------------------------------------------------------------
\* Every operator that makes its result by launches has a sufficient plan.
LEMMA OperatorsAre ==
  ASSUME NEW c, WellFormed(c), c.op \notin InPlace \cup {"to_copy", "view"}
  PROVE  \/ c.op \in OneArgument \cup TwoArguments \cup {"mm", "mv", "dot", "addmm", "linear"}
         \/ c.op \in Reductions \cup Losses \cup Softmaxes \cup LinearGrads \cup ClassOps \cup Pools
         \/ c.op \in {"convolution", "convolution_grad"}
         \/ c.op = "loss_grad" /\ c.arg.loss \in Regressions \cup {"cross_entropy"}
<1>1. c.op \in OneTensor \cup TwoTensors \cup ThreeTensors \cup BiasOrNot
      /\ (c.op = "loss_grad" => c.arg.loss \in {"mse", "l1", "l2", "cross_entropy"})
  BY DEF WellFormed
<1>2. CASE c.op \in OneTensor
  BY <1>2 DEF OneTensor, OneArgument, Reductions, Softmaxes, Pools, InPlace
<1>3. CASE c.op \in TwoTensors
  BY <1>3 DEF TwoTensors, TwoArguments, Losses, ClassOps, Softmaxes, InPlace
<1>4. CASE c.op \in ThreeTensors \cup BiasOrNot
  BY <1>1, <1>4 DEF ThreeTensors, BiasOrNot, LinearGrads, Regressions
<1> QED
  BY <1>1, <1>2, <1>3, <1>4

\* Every operator that launches has a sufficient plan.
LEMMA LaunchesSuffice ==
  ASSUME NEW c, WellFormed(c), ~Overhangs(c), ClassesInRange(c),
         c.op \notin InPlace \cup {"to_copy", "view"}, PlanOf(c).kind = "launching"
  PROVE  Sufficient(c)
<1>1. CASE c.op \in OneArgument \cup TwoArguments
  BY <1>1, PointsSuffice
<1>2. CASE c.op \in {"mm", "mv", "dot", "addmm", "linear"}
  BY <1>2, MmSuffices, MvSuffices, DotSuffices, AddmmSuffices, LinearSuffices
<1>3. CASE c.op \in Reductions
  BY <1>3, ReductionsSuffice
<1>4. CASE c.op \in Losses
  BY <1>4, LossesSuffice
<1>5. CASE c.op \in Softmaxes
  BY <1>5, SoftmaxesSuffice
<1>6. CASE c.op = "loss_grad" /\ c.arg.loss \in Regressions
  BY <1>6, LossGradSuffices
<1>7. CASE c.op \in LinearGrads
  BY <1>7, LinearGradSuffices
<1>8. CASE c.op \in ClassOps
  BY <1>8, ClassesSuffice
<1>9. CASE c.op = "loss_grad" /\ c.arg.loss = "cross_entropy"
  BY <1>9, ClassGradSuffices DEF GradOfClasses
<1>10. CASE c.op \in Pools
  BY <1>10, PoolsSuffice
<1>11. CASE c.op = "convolution"
  BY <1>11, ConvolutionSuffices
<1>12. CASE c.op = "convolution_grad"
  BY <1>12, ConvGradSuffices
<1> QED
  BY <1>1, <1>2, <1>3, <1>4, <1>5, <1>6, <1>7, <1>8, <1>9, <1>10, <1>11, <1>12, OperatorsAre

\* Whatever the tensors and whatever order the threads ran in, a call that returns
\* has computed what its operator promises, shape and elements.  Excepted are the
\* calls the code accepts and the reference does not define: windows of a pool or
\* kernels of a convolution and its gradient that overhang the input, and classes
\* outside the rows (src/torch_ext/src/ops/math.cpp, tensor.cpp,
\* registrations/custom.cpp, and the kernels in src/runtime/kernels).
THEOREM ResultsAreAsked == Spec => []ResultMatches
<1>1. ASSUME Inv, DoneInv, ReturnInv, OnlyResultsChange, ConvertedInv
      PROVE  ResultMatches
  <2> DEFINE c == CallList[call]
  <2>1. CASE c.op \in InPlace
    BY <1>1, <2>1, InPlaceMatches
  <2>2. CASE c.op = "to_copy"
    BY <1>1, <2>2, ToCopyMatches
  <2>4. CASE c.op = "view"
    BY <1>1, <2>4, ViewMatches
  <2>3. CASE c.op \notin InPlace \cup {"to_copy", "view"}
    <3>1. SUFFICES ASSUME stage = "returned", ~Overhangs(c), ClassesInRange(c) PROVE ResultMatches
      BY DEF ResultMatches
    <3>2. WellFormed(c) /\ PlanOf(c).kind = "launching"
      BY <1>1, <3>1, CallsAssumption DEF Inv, CallInv, Underway, Busy
    <3>3. Sufficient(c)
      <4>1. ~Overhangs(c) /\ ClassesInRange(c) /\ WellFormed(c) /\ PlanOf(c).kind = "launching"
        BY <3>1, <3>2
      <4> HIDE DEF c
      <4> QED
        BY <2>3, <4>1, LaunchesSuffice
    <3> QED
      BY <1>1, <3>3, SufficientPlans
  <2> QED
    BY <2>1, <2>2, <2>3, <2>4
<1>2. Inv /\ DoneInv /\ ReturnInv /\ OnlyResultsChange /\ ConvertedInv => ResultMatches
  BY <1>1
<1> QED
  BY <1>2, DoneInvariant, ArgumentsAreKept, ConvertedInvariant, PTL
=============================================================================
