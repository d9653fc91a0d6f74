------------------------- MODULE MCSyncBufferLoading -------------------------
(***************************************************************************)
(* The stage loading strategies of cubecl-linalg side by side: a behaviour *)
(* is the job of one strategy, for one configuration its check accepts,    *)
(* run by every unit of the cube.  The two SyncBufferLoadingStrategy       *)
(* implementations (cyclic, tilewise) load one buffer of a double-buffered *)
(* stage; the sync full-stage tilewise and ordered strategies and the      *)
(* asynchronous loader with the maximize-slice-length strategy load a     *)
(* whole stage.  They share the variables config, done and writes; a       *)
(* configuration's fields tell which strategy it belongs to.  Only the     *)
(* asynchronous loader has a `cleared` state, fixed to "none" for the      *)
(* others.                                                                 *)
(***************************************************************************)
EXTENDS Naturals, Bags

CONSTANTS
  LineSizes, TileSizes, TileCounts, PlaneDims, NumPlanesSet, Levels,
  TwLineSizes, TwTileSizes, TileCountRows, TileCountCols, TwPlaneDims,
  TwNumPlanesSet, NumStages,
  FullLineSizes, FullTileSizes, FullTileCountRows, FullTileCountCols,
  FullPlaneDims, FullNumPlanesSet,
  AsyncPlaneDims, AsyncNumPlanesSet, TotalRows, TotalCols, Shapes,
  CubeIndices, UIntModulus

VARIABLES config, done, writes, cleared

vars == <<config, done, writes, cleared>>

C == INSTANCE CyclicLoading

T == INSTANCE TilewiseLoading WITH LineSizes <- TwLineSizes, TileSizes <- TwTileSizes,
       PlaneDims <- TwPlaneDims, NumPlanesSet <- TwNumPlanesSet

F == INSTANCE FullTilewiseLoading WITH LineSizes <- FullLineSizes,
       TileSizes <- FullTileSizes, TileCountRows <- FullTileCountRows,
       TileCountCols <- FullTileCountCols, PlaneDims <- FullPlaneDims,
       NumPlanesSet <- FullNumPlanesSet

A == INSTANCE AsyncFullLoading

IsTilewise == "buffer" \in DOMAIN config
IsFull == "strategy" \in DOMAIN config
IsAsync == "cube" \in DOMAIN config
IsCyclic == "level" \in DOMAIN config

Init ==
  \/ (C!Init \/ T!Init \/ F!Init) /\ cleared = "none"
  \/ A!Init

Next ==
  \/ IsCyclic /\ C!Next /\ UNCHANGED cleared
  \/ IsTilewise /\ T!Next /\ UNCHANGED cleared
  \/ IsFull /\ F!Next /\ UNCHANGED cleared
  \/ IsAsync /\ A!Next

Spec == Init /\ [][Next]_vars

-----------------------------------------------------------------------------

TypeOK ==
  CASE IsCyclic -> C!TypeOK
    [] IsTilewise -> T!TypeOK
    [] IsFull -> F!TypeOK
    [] IsAsync -> A!TypeOK

\* Every line of what a job loads is stored exactly once: the cyclic
\* strategy's buffer (execute_task with its bounds guard and
\* balanced_workload shortcut), the tilewise strategy's buffer when the
\* configuration is row-aligned (num_tiles_to_skip), the full tilewise and ordered strategies'
\* stage (num_lines_to_skip of each plane), and the asynchronous loader's
\* slices (execute_task's guard when the units do not divide the slices).
StageFilledExactlyOnce ==
  /\ IsCyclic => C!StageFilledExactlyOnce
  /\ IsTilewise => T!RowAlignedBufferFilledOnce
  /\ IsFull => F!FillsStageExactlyOnce
  /\ IsAsync => A!SlicesLoadedExactlyOnce

\* After loading, the stage holds only the data of its own tile: no buffer
\* strategy stores a line outside the buffer its job loads, and the
\* asynchronous loader leaves no line past the tensor's edge holding what
\* shared memory held before (AsyncLoader::new's clear).
StageHoldsOnlyItsTile ==
  /\ IsCyclic => C!WritesInsideBuffer
  /\ IsTilewise => T!WritesInsideBuffer
  /\ IsAsync => A!NoStaleLinesPastEdge

=============================================================================
