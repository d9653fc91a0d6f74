\* Cyclic: lines of 1-2 elements, tiles of 2-4 elements, 1-3 tiles, 1-4
\* units, both check levels.  Tilewise: Lhs and Rhs stages of up to 3 x 3
\* tiles of 1 or 2 lines, 1-3 planes of 1-2 units, either buffer of two.
SPECIFICATION Spec
CONSTANTS
  LineSizes = {1, 2}
  TileSizes = {2, 3, 4}
  TileCounts = {1, 2, 3}
  PlaneDims = {1, 2}
  NumPlanesSet = {1, 2}
  Levels = {"Comptime", "Runtime"}
  TwLineSizes = {1, 2}
  TwTileSizes = {2, 4}
  TileCountRows = {1, 2, 3}
  TileCountCols = {1, 2, 3}
  TwPlaneDims = {1, 2}
  TwNumPlanesSet = {1, 2, 3}
  NumStages = 2
  FullLineSizes = {1, 2}
  FullTileSizes = {2, 4}
  FullTileCountRows = {1, 2, 3}
  FullTileCountCols = {1, 2}
  FullPlaneDims = {1, 2}
  FullNumPlanesSet = {1, 2, 3}
  AsyncPlaneDims = {1, 2}
  AsyncNumPlanesSet = {1, 2}
  TotalRows = {2, 3}
  TotalCols = {2, 4}
  Shapes = {1, 3, 4, 5}
  CubeIndices = {0, 1}
  UIntModulus = 65536
INVARIANTS
  TypeOK
  StageFilledExactlyOnce
\* A job ends once every unit ran its tasks.
CHECK_DEADLOCK FALSE
