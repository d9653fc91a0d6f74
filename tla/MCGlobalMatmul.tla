---------------------------- MODULE MCGlobalMatmul ----------------------------
(***************************************************************************)
(* The global matmuls of cubecl-linalg side by side: a behaviour is one    *)
(* cube running either the double-buffering execute with its event         *)
(* listeners (DoubleBufferingPipeline) or the single-buffer homogeneous    *)
(* execute (HomogeneousMatmul).  The variables of the matmul a behaviour   *)
(* does not run stay at None.                                              *)
(***************************************************************************)
EXTENDS Naturals

CONSTANTS
  u1, u2, u3,
  Units, Empty, KRange, BufferStep, Totals, TaskCounts, Builds,
  KStep,       \* SMM::K of the homogeneous matmul
  NumN,        \* SS::NUM_N of its row-accumulate stage matmul
  None

MCUnits == {u1, u2, u3}

\* The operands of the homogeneous matmul: three rows of Lhs, two columns
\* of Rhs, over the six elements of k its three k steps cover.  No value
\* is zero, so every product a plane misses or repeats changes its sum.
MCLhs == [p \in 0..2 |-> [k \in 0..5 |-> ((p + k) % 3) + 1]]
MCRhs == [k \in 0..5 |-> [n \in 0..1 |-> ((2 * k + n) % 3) + 1]]

VARIABLES
  expansion, config, phase, step, current, counter, lines,   \* double buffering
  iter, pc, stage, acc, out                                   \* homogeneous

PipelineVars == <<expansion, config, phase, step, current, counter, lines>>
HomogeneousVars == <<iter, pc, stage, acc, out>>
vars == <<PipelineVars, HomogeneousVars>>

P == INSTANCE DoubleBufferingPipeline
H == INSTANCE HomogeneousMatmul WITH LhsData <- MCLhs, RhsData <- MCRhs

IsHomogeneous == iter # None

Init ==
  \/ /\ P!Init
     /\ iter = None /\ pc = None /\ stage = None /\ acc = None /\ out = None
  \/ /\ H!Init
     /\ expansion = None /\ config = None /\ phase = None /\ step = None
     /\ current = None /\ counter = None /\ lines = None

Next ==
  \/ ~IsHomogeneous /\ P!Next /\ UNCHANGED HomogeneousVars
  \/ IsHomogeneous /\ H!Next /\ UNCHANGED PipelineVars

\* The fairness of each matmul (P!Fairness, H!Fairness) on its own
\* behaviours.
Fairness ==
  /\ WF_PipelineVars(~IsHomogeneous /\ P!Expand)
  /\ WF_PipelineVars(~IsHomogeneous /\ P!Sync)
  /\ \A u \in Units :
       /\ WF_PipelineVars(~IsHomogeneous /\ P!Begin(u))
       /\ WF_PipelineVars(~IsHomogeneous /\ P!TmmCompleted(u))
       /\ WF_PipelineVars(~IsHomogeneous /\ P!End(u))
       /\ WF_HomogeneousVars(IsHomogeneous /\ H!FillStage(u))
       /\ WF_HomogeneousVars(IsHomogeneous /\ H!Execute(u))
       /\ WF_HomogeneousVars(IsHomogeneous /\ H!AccRead(u))
  /\ WF_HomogeneousVars(IsHomogeneous /\ H!SyncUnits)

Spec == Init /\ [][Next]_vars /\ Fairness

-----------------------------------------------------------------------------

TypeOK == IF IsHomogeneous THEN H!TypeOK ELSE P!TypeOK

\* Every tile matmul of either execute reads a complete stage: no unit is
\* still loading the buffer it reads, or has begun loading the next stage
\* into it, whatever the other units' progress (the sync_units of both
\* executes, and the listener's events in the double-buffering one).
ComputeReadsCompleteStage ==
  IF IsHomogeneous THEN H!ComputeReadsCompleteStage ELSE P!ComputeReadsCompleteStage

\* The homogeneous execute computes the product: once every unit has
\* returned, each output tile holds the sum of Lhs * Rhs over k (the
\* barriers, every plane's accumulation over all k steps, and acc_read).
ResultIsProduct == IsHomogeneous => H!ResultIsProduct

\* The double-buffering listener's purpose (the doc of Event): with at
\* least STEP tile matmuls per load task, Finish has nothing left to load.
OverlapLeavesNothingToFinish == [][~IsHomogeneous => P!NothingLeftToFinish]_vars

\* Loading line by line at the listener's events implements the coarse
\* double buffering: every step of the double-buffering execute is a step
\* of DoubleBuffering or leaves its state unchanged.
RefinesDoubleBuffering ==
  /\ ~IsHomogeneous => P!DB!Init
  /\ [][~IsHomogeneous => [P!DB!Next]_(P!DB!vars)]_vars

\* Every unit leaves execute, unless the double-buffering kernel could
\* not be expanded.
Termination == <>(IF IsHomogeneous THEN H!Done ELSE P!Done)

=============================================================================
