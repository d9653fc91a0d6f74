\* Launches whose output leaves two unused elements after each batch (a
\* narrowed tensor), against the doc comment of tensor_line_size_parallel.
CONSTANTS
  SupportedLineSizes = {1, 2, 4}
  PlaneDim = 32
  TileM = 1
  TileN = 1
  TileK = 1
  NumM = 2
  NumN = 3
  NumK = 2
  Batches = {1, 2}
  Ms = {1, 2}
  Ns = {2, 4}
  Ks = {1, 2}
  BatchPads = {0, 2}
SPECIFICATION Spec
INVARIANT LinesAligned
\* A launch stops once every cube has run.
CHECK_DEADLOCK FALSE
