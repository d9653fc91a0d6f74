\* Double buffering: three units, three loop phases with a listener in
\* each buffer, stages of 1 to 3 tile matmuls and jobs of 1 or 2 tasks
\* (fewer events than tasks, exactly enough, and more), in both builds.
\* Homogeneous: the same three units and k range, two elements of k per
\* stage, so three iterations with a partial last one, and a row-accumulate
\* stage matmul with two accumulators per plane.
SPECIFICATION Spec
CONSTANTS
  u1 = u1
  u2 = u2
  u3 = u3
  Units <- MCUnits
  Empty = Empty
  None = None
  KRange = 5
  BufferStep = 1
  KStep = 2
  NumN = 2
  Totals = {1, 2, 3}
  TaskCounts = {1, 2}
  Builds = {"checked", "wrapping"}
INVARIANTS
  TypeOK
  ComputeReadsCompleteStage
  ResultIsProduct
PROPERTIES
  OverlapLeavesNothingToFinish
  RefinesDoubleBuffering
  Termination
\* execute ends after the last computation, or the kernel is never built.
CHECK_DEADLOCK FALSE
