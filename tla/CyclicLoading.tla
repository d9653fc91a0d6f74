---------------------------- MODULE CyclicLoading ----------------------------
(***************************************************************************)
(* The cyclic sync-buffer loading strategy (cubecl-linalg                  *)
(* global/load/strategy/sync_buffer_cyclic.rs).  Every unit of the cube    *)
(* runs task_count tasks; task t of unit u stores the line that starts at  *)
(* element unit_position_base + t * jump_length of the buffer.  A          *)
(* configuration is accepted only if check succeeds when the loader check  *)
(* level is Comptime; a task then stores unguarded, as it does when the    *)
(* job believes the workload is balanced, and otherwise only when its      *)
(* position lies inside the buffer.                                        *)
(*                                                                         *)
(* Positions and sizes are in elements, as in the code; a buffer of        *)
(* TileCount tiles of TileSize elements holds total_num_lines lines.       *)
(***************************************************************************)
EXTENDS Naturals, Bags

CONSTANTS
  LineSizes,     \* global_line_size
  TileSizes,     \* tile_size(), in elements
  TileCounts,    \* tile_count_row * tile_count_col
  PlaneDims,     \* plane_dim()
  NumPlanesSet,  \* num_planes()
  Levels         \* subset of {"Comptime", "Runtime"}: LC::to_level()

Configs ==
  {c \in [lineSize : LineSizes, tileSize : TileSizes, tileCount : TileCounts,
          planeDim : PlaneDims, numPlanes : NumPlanesSet, level : Levels] :
     c.tileSize % c.lineSize = 0}

NumLinesPerTile(c) == c.tileSize \div c.lineSize
TotalNumLines(c) == c.tileCount * NumLinesPerTile(c)
TotalUnits(c) == c.planeDim * c.numPlanes

\* Fault variant: the jump spans the units of one plane only.
JumpLengthOfPlane(c) == c.planeDim * c.lineSize

JumpLength(c) == TotalUnits(c) * c.lineSize
NumStageElements(c) == c.tileCount * c.tileSize
DivCeil(a, b) == (a + b - 1) \div b
NumTasksPerUnit(c) == DivCeil(TotalNumLines(c), TotalUnits(c))

\* balanced_workload as new_job computes it.
Balanced(c) == NumTasksPerUnit(c) % TotalUnits(c) = 0

UnitPositionBase(c, u) == u * c.lineSize

\* The start of the line task t of unit u stores.
UnitPosition(c, u, t) == UnitPositionBase(c, u) + t * JumpLength(c)

\* check: the last task of the last unit must not start past the buffer.
Check(c) ==
  c.level = "Comptime" =>
    UnitPosition(c, TotalUnits(c) - 1, NumTasksPerUnit(c) - 1) <= NumStageElements(c)

\* Whether a task stores without the bounds guard of execute_task.
Unguarded(c) == c.level = "Comptime" \/ Balanced(c)

VARIABLES
  config,   \* the accepted configuration the kernel runs with
  done,     \* [0..TotalUnits - 1 -> tasks executed]: the loop counter of each unit
  writes    \* bag of the element positions lines were stored at

vars == <<config, done, writes>>

Init ==
  /\ config \in {c \in Configs : Check(c)}
  /\ done = [u \in 0..(TotalUnits(config) - 1) |-> 0]
  /\ writes = EmptyBag

\* Fault variant: the task loop runs one task too many.
ExecuteTaskPastCount(u) ==
  LET pos == UnitPosition(config, u, done[u]) IN
  /\ done[u] <= NumTasksPerUnit(config)
  /\ done' = [done EXCEPT ![u] = @ + 1]
  /\ writes' = IF Unguarded(config) \/ pos < NumStageElements(config)
               THEN writes (+) SetToBag({pos})
               ELSE writes
  /\ UNCHANGED config

\* execute_task(task_id = done[u]) for unit u, with load_and_store_line.
ExecuteTask(u) ==
  LET pos == UnitPosition(config, u, done[u]) IN
  /\ done[u] < NumTasksPerUnit(config)
  /\ done' = [done EXCEPT ![u] = @ + 1]
  /\ writes' = IF Unguarded(config) \/ pos < NumStageElements(config)
               THEN writes (+) SetToBag({pos})
               ELSE writes
  /\ UNCHANGED config

AllDone == \A u \in DOMAIN done : done[u] = NumTasksPerUnit(config)

Next == \E u \in DOMAIN done : ExecuteTask(u)

Spec == Init /\ [][Next]_vars

-----------------------------------------------------------------------------

TypeOK ==
  /\ config \in Configs
  /\ done \in [0..(TotalUnits(config) - 1) -> 0..NumTasksPerUnit(config)]
  /\ IsABag(writes)

\* Every line store of the buffer lands inside it: no task of an accepted
\* configuration, guarded or not, stores a line that starts at or past
\* num_stage_elements (the slot it would take belongs to the other buffer
\* of the stage or to nothing).
WritesInsideBuffer ==
  \A p \in BagToSet(writes) : p < NumStageElements(config)

\* The units together fill the buffer: no line is stored twice, and once
\* every unit ran all its tasks every line of the buffer has been stored.
StageFilledExactlyOnce ==
  /\ \A p \in BagToSet(writes) : CopiesIn(p, writes) = 1
  /\ AllDone =>
       \A l \in 0..(TotalNumLines(config) - 1) : BagIn(l * config.lineSize, writes)

=============================================================================
