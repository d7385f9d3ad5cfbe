------------------------------- MODULE MCOpCalls -------------------------------
(***************************************************************************)
(* OpCalls on small tensors: every operator once with sizes that differ in *)
(* every dimension, so that no two strides are equal; the arguments it     *)
(* refuses; the empty tensors and the overhanging windows it accepts.      *)
(***************************************************************************)
EXTENDS OpCalls, TLC

F(k, shape)    == Tensor(InputName[k], "minigpu", TRUE, "fp32", shape)
I32(k, shape)  == Tensor(InputName[k], "minigpu", TRUE, "i32", shape)
As(k, dtype, shape) == Tensor(InputName[k], "minigpu", TRUE, dtype, shape)
Host(k, dtype, shape) == Tensor(InputName[k], "cpu", TRUE, dtype, shape)
Strided(k, shape) == Tensor(InputName[k], "minigpu", FALSE, "fp32", shape)

C(op, tensors, arg) == [op |-> op, in |-> tensors, arg |-> arg]
None == [none |-> TRUE]
Alpha(a) == [alpha |-> a]
Reduce(dims, keepdim) == [dims |-> dims, keepdim |-> keepdim]
Labels(s) == [labels |-> s]
Conv(stride) ==
  [stride |-> stride, padding |-> [i \in DOMAIN stride |-> 0], dilation |-> [i \in DOMAIN stride |-> 1],
   output_padding |-> [i \in DOMAIN stride |-> 0], groups |-> 1, transposed |-> FALSE]
ConvGrad(stride, needs, bias) == Conv(stride) @@ [needs |-> needs, bias |-> bias]
Pool(kernel, stride) ==
  [kernel |-> kernel, stride |-> stride, padding |-> <<>>, dilation |-> <<>>, ceil_mode |-> FALSE,
   count_include_pad |-> TRUE, divisor_override |-> <<>>]
LossGrad(loss, needs) == [loss |-> loss, needs |-> needs]
T == TRUE

Elementwise == <<
  C("relu", <<As(1, "i8", <<7>>)>>, None),
  C("exp", <<F(1, <<2, 2>>)>>, None),
  C("exp", <<I32(1, <<2>>)>>, None),
  C("log2", <<F(1, <<3>>)>>, None),
  C("sqrt", <<F(1, <<3>>)>>, None),
  C("reciprocal", <<F(1, <<3>>)>>, None),
  C("reciprocal", <<Host(1, "fp32", <<3>>)>>, None),
  C("relu", <<F(1, <<0>>)>>, None),
  C("pow", <<F(1, <<3>>), F(2, <<3>>)>>, None),
  C("pow_scalar", <<F(1, <<2>>)>>, None),
  C("sin", <<F(1, <<0>>)>>, None),
  C("cos", <<Strided(1, <<2>>)>>, None),
  C("add", <<F(1, <<5>>), F(2, <<5>>)>>, Alpha("1")),
  C("add", <<F(1, <<4>>), F(2, <<4>>)>>, Alpha("2")),
  C("add", <<I32(1, <<4>>), I32(2, <<4>>)>>, Alpha("2")),
  C("add", <<I32(1, <<2>>), F(2, <<2>>)>>, Alpha("1")),
  C("add_", <<F(1, <<5>>), F(2, <<5>>)>>, Alpha("1")),
  C("add_", <<F(1, <<4>>), F(2, <<4>>)>>, Alpha("2")),
  C("add_", <<F(1, <<3>>), F(1, <<3>>)>>, Alpha("2")),
  C("mul", <<I32(1, <<4>>), I32(2, <<4>>)>>, None),
  C("mul", <<F(1, <<2>>), F(1, <<2>>)>>, None),
  C("div", <<F(1, <<4>>), F(2, <<4>>)>>, None),
  C("scal", <<F(1, <<4>>)>>, Alpha("3")),
  C("axpy", <<F(1, <<4>>), F(2, <<4>>)>>, Alpha("3")),
  C("threshold_backward", <<F(1, <<4>>), F(2, <<4>>)>>, [threshold |-> "0"]),
  C("sigmoid_backward", <<F(1, <<2>>), F(2, <<2>>)>>, None),
  C("tanh_backward", <<F(1, <<2>>), F(2, <<2>>)>>, None),
  C("copy_", <<F(1, <<4>>), F(2, <<4>>)>>, None),
  C("copy_", <<F(1, <<2>>), F(1, <<2>>)>>, None),
  C("copy_", <<I32(1, <<2>>), Host(2, "fp32", <<2>>)>>, None),
  C("copy_", <<Host(1, "fp32", <<2>>), Host(2, "fp32", <<2>>)>>, None),
  C("fill_", <<F(1, <<2>>)>>, None),
  C("fill_", <<Strided(1, <<2>>)>>, None),
  C("to_copy", <<F(1, <<3>>)>>, [dtype |-> "i32", device |-> "cpu"]),
  C("to_copy", <<Host(1, "fp32", <<3>>)>>, [dtype |-> "fp32", device |-> "minigpu"]),
  C("view", <<F(1, <<4, 3>>)>>, [size |-> <<2, -1, 3>>]),
  C("view", <<F(1, <<6>>)>>, [size |-> <<3, 2>>]),
  C("view", <<F(1, <<6>>)>>, [size |-> <<4, -1>>]),
  C("view", <<F(1, <<6>>)>>, [size |-> <<-1, -1>>])
>>

Products_ == <<
  C("mm", <<F(1, <<2, 3>>), F(2, <<3, 4>>)>>, None),
  C("mm", <<As(1, "i16", <<1, 1>>), As(2, "i16", <<1, 1>>)>>, None),
  C("mm", <<F(1, <<2, 3>>), F(2, <<2, 3>>)>>, None),
  C("mv", <<I32(1, <<4, 3>>), I32(2, <<3>>)>>, None),
  C("dot", <<F(1, <<4>>), F(2, <<4>>)>>, None),
  C("addmm", <<F(1, <<2, 3>>), F(2, <<2, 2>>), F(3, <<2, 3>>)>>, [alpha |-> "2", beta |-> "3"]),
  C("addmm", <<F(1, <<3>>), F(2, <<2, 2>>), F(3, <<2, 3>>)>>, [alpha |-> "1", beta |-> "1"]),
  C("linear", <<F(1, <<2, 3>>), F(2, <<4, 3>>)>>, None),
  C("linear", <<F(1, <<3>>), F(2, <<2, 3>>)>>, None),
  C("linear", <<I32(1, <<2, 2>>), I32(2, <<3, 2>>), I32(3, <<3>>)>>, None),
  C("linear", <<F(1, <<2, 2>>), F(2, <<3, 2>>), F(3, <<2>>)>>, None),
  C("linear_backward", <<F(1, <<2, 3>>), F(2, <<2, 4>>), F(3, <<4, 3>>)>>, [mask |-> <<T, T, T>>]),
  C("linear_grad", <<F(1, <<3>>), F(2, <<2>>), F(3, <<2, 3>>)>>,
    [needs |-> <<FALSE, T, T>>, bias |-> FALSE]),
  C("linear_grad", <<F(1, <<2, 3>>), F(2, <<3, 2>>), F(3, <<2, 3>>)>>,
    [needs |-> <<T, T, T>>, bias |-> T])
>>

Convolutions == <<
  C("convolution", <<F(1, <<2, 2, 5>>), F(2, <<3, 2, 3>>)>>, Conv(<<2>>)),
  C("convolution", <<F(1, <<1, 2, 4>>), F(2, <<2, 2, 2>>), F(3, <<2>>)>>, Conv(<<1>>)),
  C("convolution", <<F(1, <<2, 2, 4, 3>>), F(2, <<2, 2, 2, 2>>)>>, Conv(<<2, 1>>)),
  C("convolution", <<F(1, <<1, 2, 3, 4>>), F(2, <<3, 2, 2, 3>>), F(3, <<3>>)>>, Conv(<<1, 1>>)),
  C("convolution", <<I32(1, <<1, 1, 3>>), I32(2, <<1, 1, 2>>)>>, Conv(<<1>>)),
  C("convolution", <<F(1, <<1, 1, 2>>), F(2, <<1, 1, 3>>)>>, Conv(<<2>>)),
  C("convolution", <<F(1, <<1, 1, 2>>), F(2, <<1, 1, 4>>)>>, Conv(<<1>>)),
  C("convolution", <<F(1, <<1, 2, 4>>), F(2, <<1, 2, 2>>)>>, [Conv(<<1>>) EXCEPT !.padding = <<1>>]),
  C("convolution_grad", <<F(1, <<2, 2, 5>>), F(2, <<2, 3, 2>>), F(3, <<3, 2, 3>>)>>,
    ConvGrad(<<2>>, <<T, T, T>>, T)),
  C("convolution_grad", <<F(1, <<2, 2, 4, 3>>), F(2, <<2, 2, 2, 2>>), F(3, <<2, 2, 2, 2>>)>>,
    ConvGrad(<<2, 1>>, <<T, T, T>>, T)),
  C("convolution_grad", <<F(1, <<1, 2, 3, 4>>), F(2, <<1, 3, 2, 2>>), F(3, <<3, 2, 2, 3>>)>>,
    ConvGrad(<<1, 1>>, <<FALSE, T, T>>, FALSE)),
  C("convolution_grad", <<F(1, <<1, 1, 2>>), F(2, <<1, 1, 2>>), F(3, <<1, 1, 2>>)>>,
    ConvGrad(<<1>>, <<T, T, T>>, FALSE)),
  C("max_pool2d", <<F(1, <<2, 2, 3, 4>>)>>, Pool(<<2>>, <<1, 2>>)),
  C("max_pool2d", <<F(1, <<1, 2, 4, 2>>)>>, Pool(<<2, 2>>, <<>>)),
  C("max_pool2d", <<F(1, <<1, 1, 1, 2>>)>>, Pool(<<2>>, <<2>>)),
  C("max_pool2d", <<F(1, <<1, 1, 2, 2>>)>>, Pool(<<2>>, <<0>>)),
  C("max_pool2d", <<F(1, <<1, 1, 3, 3>>)>>, Pool(<<3>>, <<1>>)),
  C("avg_pool2d", <<F(1, <<2, 1, 4, 3>>)>>, Pool(<<2>>, <<2, 1>>)),
  C("adaptive_avg_pool2d", <<F(1, <<1, 2, 4, 2>>)>>, [size |-> <<2, 1>>]),
  C("adaptive_avg_pool2d", <<F(1, <<1, 1, 3, 2>>)>>, [size |-> <<2, 1>>])
>>

Reductions == <<
  C("sum", <<F(1, <<2, 3>>)>>, Reduce(<<>>, FALSE)),
  C("mean", <<F(1, <<2, 2>>)>>, Reduce(<<0, -1>>, TRUE)),
  C("amax", <<F(1, <<3>>)>>, Reduce(<<-1>>, FALSE)),
  C("amin", <<F(1, <<3>>)>>, Reduce(<<>>, TRUE)),
  C("amin", <<F(1, <<2, 2>>)>>, Reduce(<<0>>, FALSE)),
  C("sum", <<F(1, <<0>>)>>, Reduce(<<>>, FALSE)),
  C("argmax", <<F(1, <<2, 2>>)>>, Reduce(<<>>, FALSE)),
  C("argmin", <<F(1, <<0>>)>>, Reduce(<<>>, FALSE)),
  C("softmax", <<F(1, <<2, 3>>)>>, [dim |-> -1]),
  C("softmax", <<F(1, <<2, 3>>)>>, [dim |-> 0]),
  C("softmax", <<F(1, <<2, 0>>)>>, [dim |-> 1]),
  C("softmax_backward", <<F(1, <<3, 2>>), F(2, <<3, 2>>)>>, [dim |-> 1])
>>

Losses == <<
  C("mse_loss", <<F(1, <<2, 2>>), F(2, <<2, 2>>)>>, None),
  C("l1_loss", <<F(1, <<3>>), F(2, <<3>>)>>, None),
  C("l2_loss", <<F(1, <<3>>), F(2, <<3>>)>>, None),
  C("mse_loss", <<F(1, <<3>>), F(2, <<2>>)>>, None),
  C("loss_grad", <<F(1, <<>>), F(2, <<2>>), F(2, <<2>>)>>, LossGrad("mse", <<T, T>>)),
  C("cross_entropy", <<F(1, <<2, 3>>), I32(2, <<2>>)>>, Labels(<<2, 0>>)),
  C("cross_entropy", <<F(1, <<1, 2>>), I32(2, <<1>>)>>, Labels(<<7>>)),
  C("cross_entropy", <<F(1, <<1, 2>>), F(2, <<1>>)>>, None),
  C("cross_entropy_debug", <<F(1, <<2, 2>>), I32(2, <<2>>)>>, Labels(<<1, 1>>)),
  C("loss_grad", <<F(1, <<>>), F(2, <<3>>), F(3, <<3>>)>>, LossGrad("mse", <<T, T>>)),
  C("loss_grad", <<F(1, <<>>), F(2, <<3>>), F(3, <<3>>)>>, LossGrad("l1", <<FALSE, T>>)),
  C("loss_grad", <<F(1, <<>>), F(2, <<2>>), F(3, <<2>>)>>, LossGrad("l2", <<T, FALSE>>)),
  C("loss_grad", <<F(1, <<>>), F(2, <<2>>), F(3, <<2>>)>>, LossGrad("l2", <<FALSE, FALSE>>)),
  C("loss_grad", <<F(1, <<>>), F(2, <<2, 3>>), I32(3, <<2>>)>>,
    LossGrad("cross_entropy", <<T, T>>) @@ Labels(<<1, 2>>))
>>

MCCallList == Elementwise \o Products_ \o Convolutions \o Reductions \o Losses
MCTrips == 0..64
=============================================================================
