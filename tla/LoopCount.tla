------------------------------ MODULE LoopCount ------------------------------
(***************************************************************************)
(* The stage and loop counts of the double-buffering execute               *)
(* (cubecl-linalg global/multi_stage/double_buffering/matmul.rs), in the   *)
(* u32 arithmetic of the device.                                           *)
(***************************************************************************)
EXTENDS Naturals

CONSTANT BufferStep   \* elements of k in one stage (tiling total_col of Lhs)

ASSUME BufferStep \in Nat \ {0}

DivCeil(a, b) == (a + b - 1) \div b

\* (2^32 - 2) \div 2: what (num_stage_matmuls - 2) / 2 gives in u32 when
\* num_stage_matmuls is 0 (TLC's integers stop at 2^31 - 1).
WrappedLoops == 2147483647

\* needed_stage_matmuls, rounded up to an even count, and the loop count,
\* all in u32 arithmetic as on the device.
NeededStageMatmuls(range) == DivCeil(range, BufferStep)
NumStageMatmuls(range) == NeededStageMatmuls(range) + (NeededStageMatmuls(range) % 2)
NumLoops(range) ==
  IF NumStageMatmuls(range) >= 2 THEN (NumStageMatmuls(range) - 2) \div 2 ELSE WrappedLoops

=============================================================================
