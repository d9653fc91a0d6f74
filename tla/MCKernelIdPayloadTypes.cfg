\* Two payload types with a value in common, as u32 and i32 both print 0.
SPECIFICATION Spec
CONSTANTS
  kernel = kernel
  u32 = u32
  i32 = i32
  checked = checked
  None = None
  KernelTypes <- MCKernelTypes
  TypeName <- MCTypeName
  PayloadTypes = {u32, i32}
  PayloadValues = {0}
  Modes = {checked}
  Persistent = TRUE
INVARIANT
  ServedKernelMatches
CHECK_DEADLOCK FALSE
