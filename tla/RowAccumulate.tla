--------------------------- MODULE RowAccumulate ---------------------------
(***************************************************************************)
(* The row-accumulate stage matmul (cubecl-linalg                          *)
(* components/stage/row_accumulate.rs): plane p owns row p of the output   *)
(* tiles, with one accumulator per tile along n.  execute walks the NUM_K  *)
(* tiles of the stage along k (buffer_iter) and, for each, every           *)
(* accumulator (accumulator_iter), adding the tile product of Lhs tile     *)
(* (p, buffer_iter) and Rhs tile (buffer_iter, accumulator_iter).  A tile  *)
(* is abstracted to one number, so the tile matmul is a multiply-add.      *)
(***************************************************************************)
EXTENDS Naturals

\* acc_init_zeros: NUM_N accumulators.
AccInitZeros(numN) == [a \in 0..(numN - 1) |-> 0]

\* check_num_planes: one plane per row of tiles of the Lhs stage.
CheckNumPlanes(expectedNumPlanes, actualNumPlanes) == expectedNumPlanes = actualNumPlanes

\* One buffer_iter of execute: fill_lhs with Lhs tile b, then for every
\* accumulator a, fill_rhs with Rhs tile (b, a) and TMM::execute.
BufferIter(acc, lhs, rhs, b) == [a \in DOMAIN acc |-> acc[a] + lhs[b] * rhs[b][a]]

RECURSIVE ExecuteFrom(_, _, _, _, _)
\* execute from buffer_iter b on: lhs[b] is the plane's Lhs tile along k,
\* rhs[b][a] the Rhs tile of accumulator a.
ExecuteFrom(acc, lhs, rhs, b, numK) ==
  IF b >= numK THEN acc ELSE ExecuteFrom(BufferIter(acc, lhs, rhs, b), lhs, rhs, b + 1, numK)

\* Fault variant: the unrolled loop stops one buffer_iter early.
ExecuteShort(acc, lhs, rhs, numK) == ExecuteFrom(acc, lhs, rhs, 0, numK - 1)

\* execute: every buffer_iter of the stage, in order.
Execute(acc, lhs, rhs, numK) == ExecuteFrom(acc, lhs, rhs, 0, numK)

\* acc_read of plane p: read_output of each accumulator into the plane's
\* slice of out_smem, then SW::write of that slice as output tile
\* (p, accumulator_iter).  out maps output tiles to what was written.
AccRead(out, acc, p) ==
  [t \in DOMAIN out |-> IF t[1] = p /\ t[2] \in DOMAIN acc THEN acc[t[2]] ELSE out[t]]

=============================================================================
