\* Safety of the exclusive pool with its callers and the device queue.
CONSTANTS
  t1 = t1
  t2 = t2
  NoHandle = NoHandle
  Tensors <- MCTensors
  Sizes <- MCSizes
  Alignment = 4
  MinAllocSize = 4
  DeallocPeriod = 5
  MaxPageIds = 3
  MaxAllocNr = 4
  MaxLaunches = 2

SPECIFICATION Spec
SYMMETRY MCSymmetry

INVARIANT TypeOK
 
INVARIANT NoUseAfterFree
INVARIANT SliceFitsPage
PROPERTY NoAllocWhileFreeFits
PROPERTY RefinesAllocator

\* The pool is a library: once callers stop reserving, launching and
\* dropping, nothing is left to do and the system rests.
CHECK_DEADLOCK FALSE
