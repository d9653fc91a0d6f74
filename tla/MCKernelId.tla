----------------------------- MODULE MCKernelId -----------------------------
EXTENDS KernelId

CONSTANTS kernel, u32, i32, checked

\* One kernel type whose type_name is unique.
MCKernelTypes == {kernel}
MCTypeName == [k \in MCKernelTypes |-> "kernel"]

=============================================================================
