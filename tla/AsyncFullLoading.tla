-------------------------- MODULE AsyncFullLoading --------------------------
(***************************************************************************)
(* The asynchronous full-stage loader of cubecl-linalg                     *)
(* (global/load/loader/async_full_loader.rs) with the maximize-slice-length *)
(* strategy (global/load/strategy/async_full_maximize_slice_length.rs).    *)
(* AsyncLoader::new clears the stage when the bounds of the operand are    *)
(* checked and the stage reaches past the tensor's edge along its bounded  *)
(* dimension (rows of Lhs, columns of Rhs); fill_stage then runs the       *)
(* job's tasks, one memcpy_async of one contiguous slice (a row when the   *)
(* operand is row-major, a column otherwise) per task and unit.            *)
(*                                                                         *)
(* The memcpy of a slice copies the part of its window inside the tensor;  *)
(* a line of the stage past the tensor's edge is never written by it and  *)
(* keeps what shared memory held unless new cleared it.                    *)
(***************************************************************************)
EXTENDS Integers, Bags

CONSTANTS
  AsyncPlaneDims,      \* plane_dim()
  AsyncNumPlanesSet,   \* num_planes()
  TotalRows,           \* tiling_dimensions(ident).total_row()
  TotalCols,           \* tiling_dimensions(ident).total_col()
  Shapes,              \* shape_x (Lhs) or shape_y (Rhs) of the tensor reader
  CubeIndices,         \* which stage of the tensor the cube loads along that dimension
  UIntModulus          \* the modulus of u32 arithmetic on the device

Idents == {"Lhs", "Rhs"}
Layouts == {"RowMajor", "ColMajor"}

\* The extent of the stage along the dimension whose bounds new checks.
Extent(c) == IF c.ident = "Lhs" THEN c.totalRow ELSE c.totalCol

\* x_offset (Lhs) or y_offset (Rhs) of the cube's stage.
Offset(c) == c.cube * Extent(c)

\* The cube's stage starts inside the tensor, and bounds may go unchecked
\* only when the stages divide the tensor.
Configs ==
  {c \in [ident : Idents, layout : Layouts, totalRow : TotalRows, totalCol : TotalCols,
          planeDim : AsyncPlaneDims, numPlanes : AsyncNumPlanesSet, shape : Shapes,
          cube : CubeIndices, checkBounds : BOOLEAN] :
     /\ Offset(c) < c.shape
     /\ ~c.checkBounds => c.shape % Extent(c) = 0}

\* u32 subtraction as the kernel computes it: it wraps below zero.
WrappingSub(a, b) == (a - b) % UIntModulus

\* new: the stage reaches past the tensor's edge.
ClearsOnNew(c) ==
  c.checkBounds /\ Offset(c) > WrappingSub(c.shape, Extent(c))

\* new_job: one slice per row or per column of the stage, spread over all
\* the units of the cube.
NumSlices(c) == IF c.layout = "RowMajor" THEN c.totalRow ELSE c.totalCol
UnitCount(c) == c.planeDim * c.numPlanes
DivCeil(a, b) == (a + b - 1) \div b
NumTasksPerUnit(c) == DivCeil(NumSlices(c), UnitCount(c))

\* Fault variant: the comptime test of the balanced case on plane_dim.
LoadedSliceOnPlaneDim(c, u, t) ==
  LET nth == UnitCount(c) * t + u IN
  IF NumSlices(c) % c.planeDim = 0 \/ nth < NumSlices(c) THEN {nth} ELSE {}

\* execute_task(task_id = t) of unit UNIT_POS = u: the slice it copies, if
\* any (none past the last slice when the units do not divide them).
LoadedSlice(c, u, t) ==
  LET nth == UnitCount(c) * t + u IN
  IF NumSlices(c) % UnitCount(c) = 0 \/ nth < NumSlices(c) THEN {nth} ELSE {}

VARIABLES
  config,   \* the kernel's configuration and the cube's offset
  done,     \* [0..UnitCount - 1 -> tasks executed] of fill_stage
  writes,   \* bag of the slices of the stage memcpy_async was issued for
  cleared   \* "pending" before new, then whether new cleared the stage

vars == <<config, done, writes, cleared>>

Init ==
  /\ config \in Configs
  /\ done = [u \in 0..(UnitCount(config) - 1) |-> 0]
  /\ writes = EmptyBag
  /\ cleared = "pending"

\* AsyncLoader::new: the clear of the stage when it reaches past the edge.
New ==
  /\ cleared = "pending"
  /\ cleared' = IF ClearsOnNew(config) THEN "yes" ELSE "no"
  /\ UNCHANGED <<config, done, writes>>

\* fill_stage, task done[u] of unit u.
ExecuteTask(u) ==
  /\ cleared # "pending"
  /\ done[u] < NumTasksPerUnit(config)
  /\ done' = [done EXCEPT ![u] = @ + 1]
  /\ writes' = writes (+) SetToBag(LoadedSlice(config, u, done[u]))
  /\ UNCHANGED <<config, cleared>>

AllDone == cleared # "pending" /\ \A u \in DOMAIN done : done[u] = NumTasksPerUnit(config)

Next == New \/ \E u \in DOMAIN done : ExecuteTask(u)

Spec == Init /\ [][Next]_vars

-----------------------------------------------------------------------------

TypeOK ==
  /\ config \in Configs
  /\ done \in [0..(UnitCount(config) - 1) -> 0..NumTasksPerUnit(config)]
  /\ IsABag(writes)
  /\ cleared \in {"pending", "yes", "no"}

\* Once fill_stage is over, every slice of the stage has been copied
\* exactly once and no copy targets a slice past the stage, whether or not
\* the units divide the slices.
SlicesLoadedExactlyOnce ==
  AllDone => writes = SetToBag(0..(NumSlices(config) - 1))

\* The lines of the stage, along the bounded dimension, past the edge.
PastEdge(c) == {r \in 0..(Extent(c) - 1) : Offset(c) + r >= c.shape}

\* What new is for: once the loader exists, no line of the stage past the
\* tensor's edge holds what shared memory held before; new has zeroed it.
NoStaleLinesPastEdge ==
  (cleared # "pending" /\ PastEdge(config) # {}) => cleared = "yes"

=============================================================================
