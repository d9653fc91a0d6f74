-------------------------- MODULE MCComponents --------------------------------
(***************************************************************************)
(* Parts of the kernels side by side: a behaviour is one run of the       *)
(* ArgMax reduction (ArgMax), one use of the tiling scheme builder         *)
(* (TilingScheme), one launch of the cmma matmul (MatmulLaunch), one unit  *)
(* through the cubecl-matmul double-buffering execute                      *)
(* (MatmulDoubleBuffering), one element-wise grid computed in f32          *)
(* (CubeCountElemwise), the kernel caches serving launches by KernelId    *)
(* (KernelId), the server's timestamp profiler (TimestampProfiler), or     *)
(* one Display of a KernelId (KernelIdDisplay).  The variables of the      *)
(* parts a behaviour does not run stay at None.                            *)
(***************************************************************************)
EXTENDS Naturals, Sequences

CONSTANTS
  Values, MinValue, NumLines, LineSize, NumUnits,          \* ArgMax
  SizeValues,                                              \* TilingScheme
  SupportedLineSizes, PlaneDim, TileM, TileN, TileK,       \* MatmulLaunch
  NumM, NumN, NumK, Batches, Ms, Ns, Ks, BatchPads,
  StageM, StageN, StageK, DbMs, DbNs, DbKs,                \* MatmulDoubleBuffering
  Precision, MaxExp, Elems, UnitsPerCube,                  \* CubeCountElemwise
  kernel, u32, checked, PayloadTypes, PayloadValues,       \* KernelId
  Modes, Persistent,
  e1, e2, NotRegistered, Ok, MaxTokens,                    \* TimestampProfiler
  NoInfo,                                                  \* KernelIdDisplay
  None

\* Sizes of 1 and 2 along each dimension tell every product apart from a
\* swapped or repeated factor.
MCSizeValues == {1, 2}

\* One kernel type whose type_name is unique.
MCKernelTypes == {kernel}
MCTypeName == [k \in MCKernelTypes |-> "kernel"]

\* Two device errors, so that a later broadcast overwrites an earlier one.
MCErrors == {e1, e2}

\* The Debug strings derive(Debug) gives an info of nesting depth d: a unit
\* value or struct name "x", tuple structs x(..) and vectors [..] (possibly
\* empty) of one or two items, tuples (a,) and (a, b), and a struct with one
\* field, x { x: .. }.
RECURSIVE DeriveDebug(_)
DeriveDebug(d) ==
  IF d = 0 THEN {<<"x">>}
  ELSE LET items == DeriveDebug(d - 1)
           lists == items \cup {a \o <<",", " ">> \o b : a \in items, b \in items}
       IN {<<"x">>}
          \cup {<<"x", "(">> \o l \o <<")">> : l \in lists}
          \cup {<<"(">> \o a \o <<",", ")">> : a \in items}
          \cup {<<"(">> \o a \o <<",", " ">> \o b \o <<")">> : a \in items, b \in items}
          \cup {<<"[">> \o l \o <<"]">> : l \in lists \cup {<<>>}}
          \cup {<<"x", " ", "{", " ", "x", ":", " ">> \o v \o <<" ", "}">> : v \in items}
\* ... and the Debug strings of &str infos of up to two characters, quotes
\* counted as ordinary characters (the test of id.rs uses string infos).
MCStrInfos == {<<"x">> \o s \o <<"x">> : s \in UNION {[1..n -> {"x", "(", ")", ","}] : n \in 0..2}}
MCDebugInfos == DeriveDebug(2) \cup MCStrInfos

VARIABLES
  input, pending, accs, result,           \* ArgMax
  builder, tilingResult,                  \* TilingScheme
  call, launch, executed, written, oob,   \* MatmulLaunch
  problem, config, pc, iter, view, buffer, loads, computed, \* MatmulDoubleBuffering
  numElems, perCube, cubeCount,           \* CubeCountElemwise
  memCache, diskCache, served,            \* KernelId
  state, counter, lastStop, broadcast, stopped, \* TimestampProfiler
  info, pos, fmtResult, depth, prev, fmtPc       \* KernelIdDisplay

ArgMaxVars == <<input, pending, accs, result>>
TilingVars == <<builder, tilingResult>>
LaunchVars == <<call, launch, executed, written, oob>>
DbVars == <<problem, config, pc, iter, view, buffer, loads, computed>>
ElemwiseVars == <<numElems, perCube, cubeCount>>
CacheVars == <<memCache, diskCache, served>>
ProfilerVars == <<state, counter, lastStop, broadcast, stopped>>
DisplayVars == <<info, pos, fmtResult, depth, prev, fmtPc>>
vars == <<ArgMaxVars, TilingVars, LaunchVars, DbVars, ElemwiseVars, CacheVars, ProfilerVars,
          DisplayVars>>

A == INSTANCE ArgMax
T == INSTANCE TilingScheme WITH result <- tilingResult
L == INSTANCE MatmulLaunch
D == INSTANCE MatmulDoubleBuffering WITH Ms <- DbMs, Ns <- DbNs, Ks <- DbKs
E == INSTANCE CubeCountElemwise
K == INSTANCE KernelId WITH KernelTypes <- MCKernelTypes, TypeName <- MCTypeName
P == INSTANCE TimestampProfiler WITH Errors <- MCErrors
F == INSTANCE KernelIdDisplay WITH Infos <- MCDebugInfos, result <- fmtResult, pc <- fmtPc

IsArgMax == input # None
IsTiling == builder # None
IsLaunch == call # None
IsDb == problem # None
IsElemwise == numElems # None
IsCache == memCache # None
IsProfiler == state # None
IsDisplay == fmtPc # None

ArgMaxOff == input = None /\ pending = None /\ accs = None /\ result = None
TilingOff == builder = None /\ tilingResult = None
LaunchOff == call = None /\ launch = None /\ executed = None /\ written = None /\ oob = None
DbOff == problem = None /\ config = None /\ pc = None /\ iter = None /\ view = None
           /\ buffer = None /\ loads = None /\ computed = None
ElemwiseOff == numElems = None /\ perCube = None /\ cubeCount = None
CacheOff == memCache = None /\ diskCache = None /\ served = None
ProfilerOff == state = None /\ counter = None /\ lastStop = None /\ broadcast = None
                 /\ stopped = None
DisplayOff == info = None /\ pos = None /\ fmtResult = None /\ depth = None /\ prev = None
                /\ fmtPc = None

Init ==
  \/ A!Init /\ TilingOff /\ LaunchOff /\ DbOff /\ ElemwiseOff /\ CacheOff /\ ProfilerOff /\ DisplayOff
  \/ T!Init /\ ArgMaxOff /\ LaunchOff /\ DbOff /\ ElemwiseOff /\ CacheOff /\ ProfilerOff /\ DisplayOff
  \/ L!Init /\ ArgMaxOff /\ TilingOff /\ DbOff /\ ElemwiseOff /\ CacheOff /\ ProfilerOff /\ DisplayOff
  \/ D!Init /\ ArgMaxOff /\ TilingOff /\ LaunchOff /\ ElemwiseOff /\ CacheOff /\ ProfilerOff /\ DisplayOff
  \/ E!Init /\ ArgMaxOff /\ TilingOff /\ LaunchOff /\ DbOff /\ CacheOff /\ ProfilerOff /\ DisplayOff
  \/ K!Init /\ ArgMaxOff /\ TilingOff /\ LaunchOff /\ DbOff /\ ElemwiseOff /\ ProfilerOff /\ DisplayOff
  \/ P!Init /\ ArgMaxOff /\ TilingOff /\ LaunchOff /\ DbOff /\ ElemwiseOff /\ CacheOff /\ DisplayOff
  \/ F!Init /\ ArgMaxOff /\ TilingOff /\ LaunchOff /\ DbOff /\ ElemwiseOff /\ CacheOff /\ ProfilerOff

Next ==
  \/ IsArgMax /\ A!Next /\ UNCHANGED <<TilingVars, LaunchVars, DbVars, ElemwiseVars, CacheVars, ProfilerVars,
       DisplayVars>>
  \/ IsTiling /\ T!Next /\ UNCHANGED <<ArgMaxVars, LaunchVars, DbVars, ElemwiseVars, CacheVars, ProfilerVars,
       DisplayVars>>
  \/ IsLaunch /\ L!Next /\ UNCHANGED <<ArgMaxVars, TilingVars, DbVars, ElemwiseVars, CacheVars, ProfilerVars,
       DisplayVars>>
  \/ IsDb /\ D!Next /\ UNCHANGED <<ArgMaxVars, TilingVars, LaunchVars, ElemwiseVars, CacheVars, ProfilerVars,
       DisplayVars>>
  \/ IsElemwise /\ E!Next /\ UNCHANGED <<ArgMaxVars, TilingVars, LaunchVars, DbVars, CacheVars, ProfilerVars,
       DisplayVars>>
  \/ IsCache /\ K!Next /\ UNCHANGED <<ArgMaxVars, TilingVars, LaunchVars, DbVars, ElemwiseVars, ProfilerVars,
       DisplayVars>>
  \/ IsProfiler /\ P!Next /\ UNCHANGED <<ArgMaxVars, TilingVars, LaunchVars, DbVars, ElemwiseVars, CacheVars,
       DisplayVars>>
  \/ IsDisplay /\ F!Next /\ UNCHANGED <<ArgMaxVars, TilingVars, LaunchVars, DbVars, ElemwiseVars,
                                         CacheVars, ProfilerVars>>

Spec == Init /\ [][Next]_vars

-----------------------------------------------------------------------------

TypeOK ==
  /\ IsArgMax => A!TypeOK
  /\ IsLaunch => L!TypeOK
  /\ IsCache => K!TypeOK
  /\ IsProfiler => P!TypeOK

\* Whatever the order in which units reduce lines and accumulators are
\* fused, merge_line returns the lowest coordinate of the maximum
\* (choose_argmax's tie break on coordinates).
ArgmaxIsLowestMaximum == IsArgMax => A!ArgmaxIsLowestMaximum

\* Every count the built tiling scheme answers is the product of the sizes
\* between the two levels, and it refuses exactly the pairs with no such
\* product (try_count_1d over the builder's sizes).
CountsMatchHierarchy == IsTiling => T!CountsMatchHierarchy

\* Each operand's two-dimensional count is the product of its row and
\* column counts (the Ident row/column/2d counts of the tiling scheme).
IdentCountsConsistent == IsTiling => T!IdentCountsConsistent

\* Once every cube has run, each output element was written by exactly one
\* cube (cube_count, the one-to-one offsets and acc_read together).
OutputWrittenOnce == IsLaunch => L!OutputWrittenOnce

\* No cube writes outside the output: make_config checks the bounds of
\* every dimension a stage can pass.
NoOutOfBoundsWrite == IsLaunch => L!NoOutOfBoundsWrite

\* The kernel never gets a highly permuted operand and is told ColMajor for
\* exactly the transposed ones (launch_ref's check_layout and its arms).
OperandsMatchDeclaredLayout == IsLaunch => L!OperandsMatchDeclaredLayout

\* In the cubecl-matmul double-buffering execute, SMM::execute runs on
\* every stage of k once, in order, and the stages cover k (loop count,
\* fill, listener loads and advance_view by loop_step).
StagesComputedInOrder == IsDb => D!StagesComputedInOrder

\* A stage reaching past k is loaded only with check_k_bounds on
\* (make_config's k % (2 * stage k) against execute's even stage count).
LoadsPastKChecked == IsDb => D!LoadsPastKChecked

\* While num_elems is exact in the float type (up to 2^Precision), the f32
\* grid of calculate_cube_count_elemwise has a unit for every element.
GridCoversExactElems == IsElemwise => E!GridCoversElements

\* With one payload type per kernel, every launch runs a binary compiled
\* for the id it asked for, whether served by the in-memory cache (hash
\* and eq), the persistent cache (stable_format) or a fresh compile.
ServedKernelMatches == IsCache => K!ServedKernelMatches

\* Every stop answers the profiling contract: NotRegistered for a token
\* already stopped, the last error broadcast over the token's lifetime, and
\* a duration only when no failure touched it (start, stop and error of
\* timestamp_profiler.rs against the history of the calls).
StopContract == [][IsProfiler => P!StopObeysContract]_vars

\* Display of a KernelId, whenever it returns, re-lays the
\* Debug string out without losing, adding or reordering a character
\* (format_str's pushes, and its pops after an empty pair and before a
\* comma), trailing commas and whitespace aside.
FormatKeepsTokens == IsDisplay => F!FormatKeepsTokens

=============================================================================
