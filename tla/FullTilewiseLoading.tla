------------------------- MODULE FullTilewiseLoading -------------------------
(***************************************************************************)
(* The full-stage tilewise loading strategies of cubecl-linalg             *)
(* (global/load/strategy/sync_full_tilewise.rs and sync_full_ordered.rs).  *)
(* Plane y loads num_tiles_per_plane consecutive tiles of the stage,       *)
(* starting at tile y * num_tiles_per_plane; unit x of the plane runs      *)
(* num_lines_per_unit tasks, task t storing one line.  The ordered         *)
(* strategy builds the same Job (with OrderedTilingOrder) and only adds    *)
(* checks: Lhs only, and each plane loads whole rows of tiles.             *)
(*                                                                         *)
(* Positions are in lines of the stage memory (as_slice_mut(line_size)).   *)
(* Which tile of the tensor is read (to_x_y of the tiling order) does not  *)
(* change where the line is stored and is left out.                       *)
(***************************************************************************)
EXTENDS Naturals, Bags

CONSTANTS
  LineSizes,      \* global_line_size
  TileSizes,      \* tile_size(), in elements
  TileCountRows,  \* tile_count_row of the operand's stage
  TileCountCols,  \* tile_count_col of the operand's stage
  PlaneDims,      \* plane_dim()
  NumPlanesSet    \* num_planes()

Idents == {"Lhs", "Rhs"}
Strategies == {"tilewise", "ordered"}

Configs ==
  {c \in [strategy : Strategies, ident : Idents, lineSize : LineSizes,
          tileSize : TileSizes, rows : TileCountRows, cols : TileCountCols,
          planeDim : PlaneDims, numPlanes : NumPlanesSet] :
     c.tileSize % c.lineSize = 0}

NumTiles(c) == c.rows * c.cols
NumTilesPerPlane(c) == NumTiles(c) \div c.numPlanes
NumLinesPerTile(c) == c.tileSize \div c.lineSize
NumLinesPerPlane(c) == NumLinesPerTile(c) * NumTilesPerPlane(c)
NumLinesPerUnit(c) == NumLinesPerPlane(c) \div c.planeDim
RowsPerPlane(c) == c.rows \div c.numPlanes

\* sync_full_tilewise check: the planes divide the tiles, and the units of
\* a plane divide the plane's lines.
CheckTilewise(c) ==
  /\ NumTiles(c) % c.numPlanes = 0
  /\ NumLinesPerPlane(c) % c.planeDim = 0

\* sync_full_ordered check: Lhs only, the tilewise conditions, and a
\* plane's tiles are rows_per_plane whole rows.
CheckOrdered(c) ==
  /\ c.ident = "Lhs"
  /\ CheckTilewise(c)
  /\ NumTilesPerPlane(c) = RowsPerPlane(c) * c.cols

Check(c) == IF c.strategy = "ordered" THEN CheckOrdered(c) ELSE CheckTilewise(c)

\* Fault variant: the job skips no lines, as if every plane started at
\* the stage's first tile.
NumLinesToSkipNone(c, y) == 0

\* new_job of plane y: the lines of the tiles of the planes before it.
NumLinesToSkip(c, y) == y * NumTilesPerPlane(c) * NumLinesPerTile(c)

\* execute_task(task_id = t) of unit x of plane y, then load_and_store_line:
\* num_lines_to_skip + line_index_within_tile + nth_tile_for_this_plane *
\* num_lines_per_tile.
Offset(c, y, x, t) ==
  LET pos == t * c.planeDim + x IN
  NumLinesToSkip(c, y) + (pos % NumLinesPerTile(c)) + (pos \div NumLinesPerTile(c)) * NumLinesPerTile(c)

\* The units of the cube as <<UNIT_POS_Y, UNIT_POS_X>>.
Units(c) == (0..(c.numPlanes - 1)) \X (0..(c.planeDim - 1))

VARIABLES
  config,   \* the accepted configuration of the job
  done,     \* [Units -> tasks executed]: the loader's task loop of each unit
  writes    \* bag of the line offsets of the stage memory lines were stored at

vars == <<config, done, writes>>

Init ==
  /\ config \in {c \in Configs : Check(c)}
  /\ done = [u \in Units(config) |-> 0]
  /\ writes = EmptyBag

\* execute_task(task_id = done[u]) for unit u = <<y, x>>.
ExecuteTask(u) ==
  /\ done[u] < NumLinesPerUnit(config)
  /\ done' = [done EXCEPT ![u] = @ + 1]
  /\ writes' = writes (+) SetToBag({Offset(config, u[1], u[2], done[u])})
  /\ UNCHANGED config

AllDone == \A u \in DOMAIN done : done[u] = NumLinesPerUnit(config)

Next == \E u \in DOMAIN done : ExecuteTask(u)

Spec == Init /\ [][Next]_vars

-----------------------------------------------------------------------------

TypeOK ==
  /\ config \in Configs
  /\ done \in [Units(config) -> 0..NumLinesPerUnit(config)]
  /\ IsABag(writes)

\* The lines of the whole stage: every line of every tile.
StageLines(c) == 0..(NumTiles(c) * NumLinesPerTile(c) - 1)

\* Once every unit has run its tasks, each line of the stage has been
\* stored exactly once: the planes' ranges of tiles and the units' lines
\* within them partition the stage.
FillsStageExactlyOnce ==
  AllDone => writes = SetToBag(StageLines(config))

=============================================================================
