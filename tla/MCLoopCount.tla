----------------------------- MODULE MCLoopCount -----------------------------
(***************************************************************************)
(* Enumerates the k range of one execute call, 0..MaxRange, as the initial *)
(* states, to check the loop count against what the stages must cover.     *)
(***************************************************************************)
EXTENDS LoopCount

CONSTANT MaxRange

VARIABLE kRange  \* k_range.1 - k_range.0 of the call

Init == kRange \in 0..MaxRange

Spec == Init /\ [][UNCHANGED kRange]_kRange

\* The loop runs as often as the comment "Algorithm assumes an even number
\* of stages" intends.  execute computes a pair of stages (buffers A and
\* B) per loop iteration and one pair after the loop; these pairs cover the
\* k range, and the last one is needed unless it is the pair after the
\* loop, for every range, the empty one included.
CoversKRange ==
  LET pairs == DivCeil(kRange, 2 * BufferStep) IN
  /\ NumLoops(kRange) >= pairs - 1
  /\ NumLoops(kRange) < pairs \/ NumLoops(kRange) = 0

=============================================================================
