--------------------------- MODULE TensorLineSize ---------------------------
(***************************************************************************)
(* Line sizes of strided tensors (cubecl-core lib.rs).  A tensor is its    *)
(* shape and strides, two sequences of the same length; the axis is a      *)
(* position of the sequences (Rust's axis + 1).  A kernel receives a       *)
(* tensor as an array of lines of L elements: the line holding the element *)
(* at offset o is line o \div L, and it covers offsets                     *)
(* (o \div L) * L .. (o \div L) * L + L - 1.                               *)
(***************************************************************************)
EXTENDS Naturals, FiniteSets, FiniteSetsExt

\* Fault variant: the check that the axis is contiguous within the next
\* stride left out.
TensorLineSizeParallelNoNextStride(supported, shape, strides, axis) ==
  IF axis \notin DOMAIN strides \/ strides[axis] # 1 \/ axis \notin DOMAIN shape THEN 1
  ELSE LET fits == {l \in supported : shape[axis] % l = 0}
       IN IF fits = {} THEN 1 ELSE Max(fits)

\* tensor_line_size_parallel (and tensor_line_size, which calls it): 1
\* unless the axis has stride 1 and the smallest stride above 1, if any,
\* equals the axis' shape; then the largest supported size dividing the
\* axis' shape, or 1 when none does.
TensorLineSizeParallel(supported, shape, strides, axis) ==
  IF axis \notin DOMAIN strides \/ strides[axis] # 1 \/ axis \notin DOMAIN shape THEN 1
  ELSE LET axisShape == shape[axis]
           nextStrides == {strides[d] : d \in {d \in DOMAIN strides : strides[d] > 1}}
       IN IF nextStrides # {} /\ Min(nextStrides) # axisShape THEN 1
          ELSE LET fits == {l \in supported : axisShape % l = 0}
               IN IF fits = {} THEN 1 ELSE Max(fits)

\* The indices of a tensor and the offset an index has in its buffer.
Indices(shape) ==
  {idx \in [DOMAIN shape -> 0..(Max({shape[d] : d \in DOMAIN shape}) - 1)] :
     \A d \in DOMAIN shape : idx[d] < shape[d]}
Offset(strides, idx) == MapThenSumSet(LAMBDA d : idx[d] * strides[d], DOMAIN strides)

\* The reference for a line size L along an axis: every index whose
\* coordinate on the axis is a multiple of L starts a line of the buffer,
\* and the L elements from it along the axis are the L elements of that
\* line, in order.
LinesAligned(shape, strides, axis, L) ==
  \A idx \in Indices(shape) :
    idx[axis] % L = 0 =>
      /\ Offset(strides, idx) % L = 0
      /\ \A j \in 0..(L - 1) :
           idx[axis] + j < shape[axis] =>
             Offset(strides, [idx EXCEPT ![axis] = @ + j]) = Offset(strides, idx) + j

=============================================================================
