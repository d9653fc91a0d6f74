--------------------------- MODULE TilewiseLoading ---------------------------
(***************************************************************************)
(* The tilewise sync-buffer loading strategy (cubecl-linalg                *)
(* global/load/strategy/sync_buffer_tilewise.rs).  The stage memory holds  *)
(* NumStages buffers side by side along k: a row (Lhs) or column (Rhs) of  *)
(* the stage has NumStages * stage_width tile slots, and buffer b owns     *)
(* slots b * stage_width .. (b + 1) * stage_width - 1 of each.  Plane y    *)
(* loads num_tiles_per_plane consecutive tiles of buffer buffer_index,     *)
(* starting at tile y * num_tiles_per_plane of the buffer; unit x of the   *)
(* plane runs num_lines_per_unit tasks, task t storing one line.           *)
(*                                                                         *)
(* Positions are in lines of the stage memory (as_slice_mut(line_size)).   *)
(* The read of the line from global memory (load_coalesced_in_tile, at    *)
(* the tile TilingOrder::to_row_col names) does not change where it is     *)
(* stored and is left out.                                                 *)
(***************************************************************************)
EXTENDS Naturals, Bags

CONSTANTS
  LineSizes,      \* global_line_size
  TileSizes,      \* tile_size(), in elements
  TileCountRows,  \* tile_count_row of the operand's stage
  TileCountCols,  \* tile_count_col of the operand's stage
  PlaneDims,      \* plane_dim()
  NumPlanesSet,   \* num_planes()
  NumStages       \* num_stages(): the buffers of the stage memory

Idents == {"Lhs", "Rhs"}

Configs ==
  {c \in [ident : Idents, lineSize : LineSizes, tileSize : TileSizes,
          rows : TileCountRows, cols : TileCountCols, planeDim : PlaneDims,
          numPlanes : NumPlanesSet, buffer : 0..(NumStages - 1)] :
     c.tileSize % c.lineSize = 0}

NumTiles(c) == c.rows * c.cols
NumTilesPerPlane(c) == NumTiles(c) \div c.numPlanes
NumLinesPerTile(c) == c.tileSize \div c.lineSize
NumLinesPerPlane(c) == NumLinesPerTile(c) * NumTilesPerPlane(c)
NumLinesPerUnit(c) == NumLinesPerPlane(c) \div c.planeDim

\* check: the planes divide the tiles, and the units of a plane (the
\* second `num_planes`, which is plane_dim) divide the plane's lines.
Check(c) ==
  /\ NumTiles(c) % c.numPlanes = 0
  /\ NumLinesPerPlane(c) % c.planeDim = 0

\* new_job: the tiles of the buffer along k, and the slots of one row or
\* column of the whole stage memory.
StageWidth(c) == IF c.ident = "Lhs" THEN c.cols ELSE c.rows
RowColStride(c) == NumStages * StageWidth(c)
BufferOffset(c) == StageWidth(c) * c.buffer

\* Fault variant: the plane's first tile is not split into a row or
\* column and an offset, as if the buffer were contiguous.
NumTilesToSkipUnsplit(c, y) == y * NumTilesPerPlane(c) + BufferOffset(c)

\* num_tiles_to_skip of plane y: its first tile, split into a row or
\* column of the buffer and an offset inside it.
NumTilesToSkip(c, y) ==
  LET start == y * NumTilesPerPlane(c) IN
  (start \div StageWidth(c)) * RowColStride(c) + (start % StageWidth(c)) + BufferOffset(c)

\* execute_task(task_id = t) of unit x of plane y: the slot of the tile
\* (nth_tile_global) and the line inside it (line_index_within_tile).
PosAcrossTiles(c, x, t) == t * c.planeDim + x

NthTileGlobal(c, y, x, t) ==
  LET nth == PosAcrossTiles(c, x, t) \div NumLinesPerTile(c) IN
  NumTilesToSkip(c, y) + (nth \div StageWidth(c)) * RowColStride(c) + (nth % StageWidth(c))

\* load_and_store_line: the offset of the stored line in the stage slice.
Offset(c, y, x, t) ==
  (PosAcrossTiles(c, x, t) % NumLinesPerTile(c)) + NthTileGlobal(c, y, x, t) * NumLinesPerTile(c)

\* The units of the cube as <<UNIT_POS_Y, UNIT_POS_X>>.
Units(c) == (0..(c.numPlanes - 1)) \X (0..(c.planeDim - 1))

VARIABLES
  config,   \* the accepted configuration and buffer_index of the job
  done,     \* [Units -> tasks executed]: the loader's task loop of each unit
  writes    \* bag of the line offsets of the stage memory lines were stored at

vars == <<config, done, writes>>

Init ==
  /\ config \in {c \in Configs : Check(c)}
  /\ done = [u \in Units(config) |-> 0]
  /\ writes = EmptyBag

\* execute_task(task_id = done[u]) for unit u = <<y, x>>.
ExecuteTask(u) ==
  /\ done[u] < NumLinesPerUnit(config)
  /\ done' = [done EXCEPT ![u] = @ + 1]
  /\ writes' = writes (+) SetToBag({Offset(config, u[1], u[2], done[u])})
  /\ UNCHANGED config

AllDone == \A u \in DOMAIN done : done[u] = NumLinesPerUnit(config)

Next == \E u \in DOMAIN done : ExecuteTask(u)

Spec == Init /\ [][Next]_vars

-----------------------------------------------------------------------------

\* The lines of the stage memory that belong to the job's buffer: every
\* line of the slots buffer_index owns in each row or column.
BufferLines(c) ==
  LET slots == {r * RowColStride(c) + BufferOffset(c) + i :
                  r \in 0..(NumTiles(c) \div StageWidth(c) - 1),
                  i \in 0..(StageWidth(c) - 1)}
  IN {n * NumLinesPerTile(c) + l : n \in slots, l \in 0..(NumLinesPerTile(c) - 1)}

\* A plane's run of consecutive tiles never crosses the end of a row or
\* column of the buffer except at a row boundary: one of the plane's tile
\* count and the stage width divides the other.
RowAligned(c) ==
  NumTilesPerPlane(c) % StageWidth(c) = 0 \/ StageWidth(c) % NumTilesPerPlane(c) = 0

TypeOK ==
  /\ config \in Configs
  /\ done \in [Units(config) -> 0..NumLinesPerUnit(config)]
  /\ IsABag(writes)

\* Every line the job stores lies in its own buffer's slots: no plane
\* writes into the region of the other buffer (which the other units may
\* be computing on) or past the stage memory.
WritesInsideBuffer ==
  \A p \in BagToSet(writes) : p \in BufferLines(config)

\* For a row-aligned configuration check accepts, the units together store
\* every line of the job's buffer exactly once, and nothing else: each
\* plane's first tile is split into its row or column and offset
\* (num_tiles_to_skip), and its later tiles step over the other buffer's
\* slots.  (A configuration that is not row-aligned straddles a row, which
\* the violation run of WritesInsideBuffer shows.)
RowAlignedBufferFilledOnce ==
  (AllDone /\ RowAligned(config)) => writes = SetToBag(BufferLines(config))

=============================================================================
