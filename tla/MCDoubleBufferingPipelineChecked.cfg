\* The pipeline's configurations compiled with overflow checks: stages of
\* 1 to 3 tile matmuls and jobs of 1 or 2 tasks, so some configurations
\* have fewer events than load tasks.
SPECIFICATION Spec
CONSTANTS
  u1 = u1
  u2 = u2
  u3 = u3
  Units <- MCUnits
  Empty = Empty
  KRange = 5
  BufferStep = 1
  Totals = {1, 2, 3}
  TaskCounts = {1, 2}
  Builds = {"checked"}
\* execute ends after the last computation, or the kernel is never built.
CHECK_DEADLOCK FALSE
INVARIANT ExpansionCompletes
