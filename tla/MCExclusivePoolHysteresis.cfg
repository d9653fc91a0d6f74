\* The spec's cleanup hysteresis, checked against what cleanup does.
CONSTANTS
  t1 = t1
  t2 = t2
  NoHandle = NoHandle
  Tensors <- MCTensors
  Sizes <- MCSizes
  Alignment = 4
  MinAllocSize = 4
  DeallocPeriod = 5
  MaxPageIds = 3
  MaxAllocNr = 5
  MaxLaunches = 2

SPECIFICATION Spec
SYMMETRY MCSymmetry

PROPERTY CleanupHysteresis

CHECK_DEADLOCK FALSE
