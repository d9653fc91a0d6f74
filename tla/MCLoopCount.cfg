SPECIFICATION Spec
CONSTANTS
  BufferStep = 2
  MaxRange = 6
INVARIANT
  CoversKRange
CHECK_DEADLOCK FALSE
