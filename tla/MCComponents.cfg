\* ArgMax over two lines of two lanes, every tiling scheme of sizes 1 and 2,
\* every launch of the cmma matmul for m up to 3 and n up to 4, and the
\* double-buffering execute for k from 1 to 4 stages (up to two loops), the
\* element-wise grid for every count a 4-bit significand holds exactly, and
\* the kernel caches with one payload type, and the profiler over every
\* order of start, stop and error with three tokens and two errors, and
\* Display of ids whose info is a derive(Debug) value nested two deep or a
\* string of up to two characters.
CONSTANTS
  Values = {0, 1, 2}
  MinValue = 0
  NumLines = 2
  LineSize = 2
  NumUnits = 2
  SizeValues <- MCSizeValues
  SupportedLineSizes = {1, 2, 4}
  PlaneDim = 32
  TileM = 1
  TileN = 1
  TileK = 1
  NumM = 2
  NumN = 3
  NumK = 2
  Batches = {1, 2}
  Ms = {1, 2, 3}
  Ns = {2, 3, 4}
  Ks = {1, 2}
  BatchPads = {0}
  StageM = 2
  StageN = 2
  StageK = 2
  DbMs = {1, 2}
  DbNs = {2}
  DbKs = {1, 2, 3, 4, 5, 6, 7, 8, 9, 10, 11, 12}
  Precision = 4
  MaxExp = 8
  Elems = {1, 2, 3, 4, 5, 6, 7, 8, 9, 10, 11, 12, 13, 14, 15, 16}
  UnitsPerCube = {1, 2, 3, 4}
  kernel = kernel
  u32 = u32
  checked = checked
  PayloadTypes = {u32}
  PayloadValues = {0, 1}
  Modes = {checked}
  Persistent = TRUE
  e1 = e1
  e2 = e2
  NotRegistered = NotRegistered
  Ok = Ok
  MaxTokens = 3
  NoInfo = NoInfo
  None = None
SPECIFICATION Spec
INVARIANTS
  TypeOK
  ArgmaxIsLowestMaximum
  CountsMatchHierarchy
  IdentCountsConsistent
  OutputWrittenOnce
  NoOutOfBoundsWrite
  OperandsMatchDeclaredLayout
  StagesComputedInOrder
  LoadsPastKChecked
  GridCoversExactElems
  ServedKernelMatches
  FormatKeepsTokens
PROPERTY
  StopContract
\* Every part but the caches stops: the reduction once merged, the builder
\* once built, the launch once every cube has run, execute once it returns,
\* the grid once computed, Display once it returns.  The caches and the profiler may go on forever.
CHECK_DEADLOCK FALSE
