---------------------------- MODULE MatmulLaunch ----------------------------
(***************************************************************************)
(* The launch of the cmma matmul of cubecl-linalg (kernels/matmul/base.rs, *)
(* algorithm/cmma.rs, batch/one_to_one.rs): launch_ref classifies the      *)
(* operands' layouts and makes the highly permuted ones contiguous,        *)
(* matmul_cmma_ref_no_check builds the problem and its line sizes, and     *)
(* launch_matmul makes the config of the one-to-one batch matmul over the  *)
(* homogeneous global matmul and the row-accumulate stage matmul, then     *)
(* launches a grid of cubes.  Each cube, in any order, runs one global     *)
(* matmul on the stage of the output at its offsets and writes that stage  *)
(* with acc_read, one tile per (plane, accumulator).                       *)
(*                                                                         *)
(* A tensor is [shape, strides, layout] of rank 3 (one batch dimension);   *)
(* layout is what matrix_layout (crate::tensor, not under src/) returns    *)
(* for the strides: "Contiguous", "Transposed" (MildlyPermuted with        *)
(* transposed and no batch swap) or "HighlyPermuted".  An output element   *)
(* is <<batch, row, column>>.                                              *)
(***************************************************************************)
EXTENDS Naturals, FiniteSets, FiniteSetsExt, Sequences

CONSTANTS
  SupportedLineSizes,   \* R::supported_line_sizes()
  PlaneDim,             \* Cmma::PLANE_DIM
  TileM, TileN, TileK,  \* TMM::M, N, K of the tile matmul
  NumM, NumN, NumK,     \* SS::NUM_M, NUM_N, NUM_K of the stage size
  Batches, Ms, Ns, Ks,  \* the batch count and m, n, k callers ask for
  BatchPads             \* unused elements between batches of the output

ASSUME \A c \in {TileM, TileN, TileK, NumM, NumN, NumK} : c \in Nat \ {0}

TLS == INSTANCE TensorLineSize
RA == INSTANCE RowAccumulate

Rank == 3

DivCeil(a, b) == (a + b - 1) \div b

\* The operands a caller passes: a batch of r x c matrices in each layout
\* (a highly permuted one interleaves the batches between the rows), and
\* an output of row-major matrices with pad unused elements after each.
Operand(b, r, c, layout) ==
  [shape |-> <<b, r, c>>,
   strides |-> CASE layout = "Contiguous" -> <<r * c, c, 1>>
                 [] layout = "Transposed" -> <<r * c, 1, r>>
                 [] layout = "HighlyPermuted" -> <<c, b * c, 1>>,
   layout |-> layout]
OutTensor(b, r, c, pad) ==
  [shape |-> <<b, r, c>>, strides |-> <<r * c + pad, c, 1>>, layout |-> "Contiguous"]

\* Calls the model starts from: operands of one batch count, lhs m x k, rhs
\* k x n, out m x n.  With one batch, interleaving batches permutes nothing.
Calls ==
  UNION {{[lhs |-> Operand(b, m, k, ll), rhs |-> Operand(b, k, n, rl),
           out |-> OutTensor(b, m, n, pad)] :
            ll \in IF b > 1 THEN {"Contiguous", "Transposed", "HighlyPermuted"}
                   ELSE {"Contiguous", "Transposed"},
            rl \in IF b > 1 THEN {"Contiguous", "Transposed", "HighlyPermuted"}
                   ELSE {"Contiguous", "Transposed"},
            pad \in BatchPads} :
          b \in Batches, m \in Ms, n \in Ns, k \in Ks}

\* into_contiguous (crate::tensor, not under src/): a row-major copy.
IntoContiguous(t) ==
  [shape |-> t.shape,
   strides |-> <<t.shape[2] * t.shape[3], t.shape[3], 1>>,
   layout |-> "Contiguous"]

\* check_layout in launch_ref: <<make_contiguous, transposed>>.
CheckLayout(t) ==
  CASE t.layout = "Contiguous" -> <<FALSE, FALSE>>
    [] t.layout = "Transposed" -> <<FALSE, TRUE>>
    [] t.layout = "HighlyPermuted" -> <<TRUE, FALSE>>

\* Fault variant: the arms (false, true) and (true, false) of the match
\* exchanged, so the operand that is not permuted is the one copied.
PassedOperandsSwapped(call) ==
  LET l == CheckLayout(call.lhs)
      r == CheckLayout(call.rhs)
      mk == IF l[1] # r[1] THEN <<r[1], l[1]>> ELSE <<l[1], r[1]>>
  IN [lhs |-> IF mk[1] THEN IntoContiguous(call.lhs) ELSE call.lhs,
      rhs |-> IF mk[2] THEN IntoContiguous(call.rhs) ELSE call.rhs,
      out |-> call.out,
      transposed |-> <<l[2], r[2]>>]

\* launch_ref: the operands matmul_cmma_ref_no_check receives (each
\* highly permuted one through into_contiguous) and the transposed flags.
PassedOperands(call) ==
  LET l == CheckLayout(call.lhs)
      r == CheckLayout(call.rhs)
  IN [lhs |-> IF l[1] THEN IntoContiguous(call.lhs) ELSE call.lhs,
      rhs |-> IF r[1] THEN IntoContiguous(call.rhs) ELSE call.rhs,
      out |-> call.out,
      transposed |-> <<l[2], r[2]>>]

\* matmul_cmma_ref_no_check: the MatmulProblem, with the line sizes of
\* tensor_line_size on the last axis of each operand.
Problem(op) ==
  [m |-> op.lhs.shape[Rank - 1],
   k |-> op.lhs.shape[Rank],
   n |-> op.rhs.shape[Rank],
   batches |-> <<SubSeq(op.lhs.shape, 1, Rank - 2), SubSeq(op.rhs.shape, 1, Rank - 2)>>,
   lhsLayout |-> IF op.transposed[1] THEN "ColMajor" ELSE "RowMajor",
   rhsLayout |-> IF op.transposed[2] THEN "ColMajor" ELSE "RowMajor",
   lhsLineSize |-> TLS!TensorLineSizeParallel(SupportedLineSizes, op.lhs.shape, op.lhs.strides, Rank),
   rhsLineSize |-> TLS!TensorLineSizeParallel(SupportedLineSizes, op.rhs.shape, op.rhs.strides, Rank),
   outLineSize |-> TLS!TensorLineSizeParallel(SupportedLineSizes, op.out.shape, op.out.strides, Rank)]

\* MatmulProblem::num_batches (not under src/): the product of the batch
\* dimensions of lhs.
NumBatches(problem) ==
  LET bs == problem.batches[1] IN ProductSet({bs[i] : i \in DOMAIN bs})

\* Cmma::cube_dim: one plane of PLANE_DIM units per row of tiles.
CubeDim == [x |-> PlaneDim, y |-> NumM, z |-> 1]

\* Fault variant: the cube counts round down.
CubeCountFloor(problem) ==
  [x |-> problem.m \div (NumM * TileM),
   y |-> problem.n \div (NumN * TileN),
   z |-> NumBatches(problem)]

\* Cmma::cube_count: enough cubes along m and n for stages of
\* NUM_M * M by NUM_N * N elements, one per batch.
CubeCount(problem) ==
  [x |-> DivCeil(problem.m, NumM * TileM),
   y |-> DivCeil(problem.n, NumN * TileN),
   z |-> NumBatches(problem)]

\* The stage dims of the row-accumulate config (create_stage_dim, not
\* under src/, from SMM::M, N, K and TMM::M, N, K), seen through the
\* StageDim trait: tiles and tile sizes along x (rows) and y (columns).
StageDims ==
  [lhs |-> [numTilesX |-> NumM, numTilesY |-> NumK, tileSizeX |-> TileM, tileSizeY |-> TileK],
   rhs |-> [numTilesX |-> NumK, numTilesY |-> NumN, tileSizeX |-> TileK, tileSizeY |-> TileN],
   out |-> [numTilesX |-> NumM, numTilesY |-> NumN, tileSizeX |-> TileM, tileSizeY |-> TileN]]

\* StageDim::height and width.
Height(sd) == sd.numTilesX * sd.tileSizeX
Width(sd) == sd.numTilesY * sd.tileSizeY

\* make_config of the row-accumulate stage matmul: its stage dims and
\* num_planes, taken from cube_dim.y (the tile matmul's config and the
\* tiling order are left out).
StageConfig(cubeDim) == [stageDims |-> StageDims, numPlanes |-> cubeDim.y]

\* Fault variant: check_n_bounds tested against SMM::M.
HomogeneousConfigNBoundsOfM(problem) ==
  [checkMBounds |-> problem.m % (NumM * TileM) # 0,
   checkNBounds |-> problem.n % (NumM * TileM) # 0,
   lhsLayout |-> problem.lhsLayout, rhsLayout |-> problem.rhsLayout,
   lineSizes |-> <<problem.lhsLineSize, problem.rhsLineSize, problem.outLineSize>>,
   smm |-> StageConfig(CubeDim)]

\* make_config of the homogeneous global matmul: bounds are checked along
\* m (n) when m (n) is not a multiple of SMM::M (SMM::N).
HomogeneousConfig(problem) ==
  [checkMBounds |-> problem.m % (NumM * TileM) # 0,
   checkNBounds |-> problem.n % (NumN * TileN) # 0,
   lhsLayout |-> problem.lhsLayout, rhsLayout |-> problem.rhsLayout,
   lineSizes |-> <<problem.lhsLineSize, problem.rhsLineSize, problem.outLineSize>>,
   smm |-> StageConfig(CubeDim)]

\* make_config of the one-to-one batch matmul: the global config and the
\* static cube count.
BatchConfig(problem, cubeCount) ==
  [gmm |-> HomogeneousConfig(problem),
   cubeCountX |-> cubeCount.x, cubeCountY |-> cubeCount.y, cubeCountZ |-> cubeCount.z]

\* check_config of the batch matmul down to the row-accumulate stage
\* matmul's: as many planes as lhs has tile rows.
CheckConfig(config) ==
  RA!CheckNumPlanes(config.gmm.smm.stageDims.lhs.numTilesX, config.gmm.smm.numPlanes)

\* Everything launch_ref computes before the kernel runs.
Launch(call) ==
  LET op == PassedOperands(call)
      problem == Problem(op)
  IN [passed |-> op, problem |-> problem, cubeDim |-> CubeDim,
      cubeCount |-> CubeCount(problem),
      config |-> BatchConfig(problem, CubeCount(problem))]

NoLaunch == <<>>

\* The cubes of the grid, <<CUBE_POS_X, CUBE_POS_Y, CUBE_POS_Z>>.
Grid(l) == (0..(l.config.cubeCountX - 1)) \X (0..(l.config.cubeCountY - 1))
             \X (0..(l.config.cubeCountZ - 1))

\* The elements of the output tensor.
OutElements(problem) ==
  (0..(NumBatches(problem) - 1)) \X (0..(problem.m - 1)) \X (0..(problem.n - 1))

\* one_to_one execute: the cube's offsets along m and n.
XOffset(config, pos) == pos[1] * Height(config.gmm.smm.stageDims.lhs)
YOffset(config, pos) == pos[2] * Width(config.gmm.smm.stageDims.rhs)

\* acc_read of every plane of the cube: plane p writes output tile
\* (p, accumulator_iter) of the stage for each of its NUM_N accumulators;
\* the unloader (tensor_view, not under src/) drops the elements past m
\* or n when the config checks bounds along that dimension.
CubeWrites(l, pos) ==
  LET sd == l.config.gmm.smm.stageDims.out
      rows == {XOffset(l.config, pos) + p * sd.tileSizeX + i :
                 p \in 0..(l.cubeDim.y - 1), i \in 0..(sd.tileSizeX - 1)}
      cols == {YOffset(l.config, pos) + a * sd.tileSizeY + j :
                 a \in 0..(sd.numTilesY - 1), j \in 0..(sd.tileSizeY - 1)}
  IN {e \in {pos[3]} \X rows \X cols :
        /\ e[2] < l.problem.m \/ ~l.config.gmm.checkMBounds
        /\ e[3] < l.problem.n \/ ~l.config.gmm.checkNBounds}

VARIABLES
  call,      \* the operands launch_ref is called with
  launch,    \* what launch_ref computed, or NoLaunch before
  executed,  \* the cubes that have run
  written,   \* [output elements -> how many cubes wrote each]
  oob        \* the positions written outside the output

vars == <<call, launch, executed, written, oob>>

Init ==
  /\ call \in Calls
  /\ launch = NoLaunch
  /\ executed = {}
  /\ written = <<>>
  /\ oob = {}

\* launch_ref down to launch_unchecked: the config is made and checked
\* (check_num_planes of the stage matmul against its num_planes) and
\* the grid launched.
LaunchRef ==
  /\ launch = NoLaunch
  /\ LET l == Launch(call)
     IN /\ CheckConfig(l.config)
        /\ launch' = l
        /\ written' = [e \in OutElements(l.problem) |-> 0]
  /\ UNCHANGED <<call, executed, oob>>

\* One cube of the grid runs the batch matmul's execute to the end.
CubeExecute(pos) ==
  /\ launch # NoLaunch
  /\ pos \in Grid(launch) \ executed
  /\ LET w == CubeWrites(launch, pos)
     IN /\ written' = [e \in DOMAIN written |-> IF e \in w THEN written[e] + 1 ELSE written[e]]
        /\ oob' = oob \cup (w \ DOMAIN written)
  /\ executed' = executed \cup {pos}
  /\ UNCHANGED <<call, launch>>

Next ==
  \/ LaunchRef
  \/ launch # NoLaunch /\ \E pos \in Grid(launch) : CubeExecute(pos)

Spec == Init /\ [][Next]_vars

Done == launch # NoLaunch /\ executed = Grid(launch)

-----------------------------------------------------------------------------

TypeOK ==
  /\ call \in Calls
  /\ launch = NoLaunch \/ launch.passed \in [lhs : {call.lhs, IntoContiguous(call.lhs)},
                                               rhs : {call.rhs, IntoContiguous(call.rhs)},
                                               out : {call.out},
                                               transposed : BOOLEAN \X BOOLEAN]
  /\ executed \subseteq (IF launch = NoLaunch THEN {} ELSE Grid(launch))
  /\ \A e \in DOMAIN written : written[e] \in 0..Cardinality(executed)

\* Once every cube of the grid has run, every element of the output has
\* been written by exactly one cube: cube_count, the one-to-one offsets
\* and the row-accumulate acc_read tile the output without gap or overlap
\* for every m, n and batch count.
OutputWrittenOnce == Done => \A e \in DOMAIN written : written[e] = 1

\* No cube writes outside the output, whatever m and n: wherever a
\* stage passes the edge of the output, make_config turned the bounds
\* check of that dimension on.
NoOutOfBoundsWrite == oob = {}

\* The kernel never receives a highly permuted operand, and it is told
\* ColMajor for exactly the transposed ones (launch_ref's four arms).
OperandsMatchDeclaredLayout ==
  launch # NoLaunch =>
    /\ launch.passed.lhs.layout # "HighlyPermuted"
    /\ launch.passed.rhs.layout # "HighlyPermuted"
    /\ (launch.problem.lhsLayout = "ColMajor") = (launch.passed.lhs.layout = "Transposed")
    /\ (launch.problem.rhsLayout = "ColMajor") = (launch.passed.rhs.layout = "Transposed")

\* The doc comment of tensor_line_size_parallel: it "is designed to never
\* return a line size above 1 by error".  Every operand the kernel gets is
\* read as lines of its line size: each must start a line of the buffer
\* wherever the last axis starts a line.
LinesAligned ==
  launch # NoLaunch =>
    /\ TLS!LinesAligned(launch.passed.lhs.shape, launch.passed.lhs.strides, Rank,
                        launch.problem.lhsLineSize)
    /\ TLS!LinesAligned(launch.passed.rhs.shape, launch.passed.rhs.strides, Rank,
                        launch.problem.rhsLineSize)
    /\ TLS!LinesAligned(launch.passed.out.shape, launch.passed.out.strides, Rank,
                        launch.problem.outLineSize)

=============================================================================
