-------------------------- MODULE HomogeneousMatmul --------------------------
(***************************************************************************)
(* The single-buffer global matmul (cubecl-linalg                          *)
(* global/homogeneous.rs, execute): every unit of the cube loads its part  *)
(* of the one stage, sync_units, computes on the whole stage, sync_units,  *)
(* and advances its views, num_loops times.  A unit's part of the stage    *)
(* holds the index of the k step it was loaded for.                        *)
(*                                                                         *)
(* The stage matmul is the row-accumulate one (RowAccumulate), one unit    *)
(* per plane: plane p keeps one accumulator per tile along n and, after    *)
(* the loop, writes output row p with acc_read.  A tile is one number and  *)
(* holds one element of k (tile k of 1), so tile b of a stage loaded for   *)
(* k step s is element s * KStep + b of k.  Which unit loads which tile    *)
(* is up to the loaders (tensor_view, whose code is not under src/); the   *)
(* model spreads the stage's tiles over the units round robin, so every    *)
(* plane computes on tiles other units loaded.                             *)
(***************************************************************************)
EXTENDS Naturals, FiniteSets, FiniteSetsExt

CONSTANTS
  Units,     \* the units of the cube (UNIT_POS)
  KRange,    \* k_range.1 - k_range.0
  KStep,     \* SMM::K: elements of k in one stage
  Empty,     \* a part of the stage that holds nothing yet
  NumN,      \* SS::NUM_N: tiles of the stage along n
  LhsData,   \* [planes -> [covered k -> value]]: the Lhs row of each plane
  RhsData    \* [covered k -> [0..NumN - 1 -> value]]: the Rhs

ASSUME KStep \in Nat \ {0}

RA == INSTANCE RowAccumulate

\* check_config of the row-accumulate matmul: one plane per row of Lhs
\* tiles.
ASSUME RA!CheckNumPlanes(Cardinality(DOMAIN LhsData), Cardinality(Units))

\* UNIT_POS_Y: the plane of each unit.
PlaneId == CHOOSE f \in [Units -> 0..(Cardinality(Units) - 1)] :
             \A u, v \in Units : f[u] = f[v] => u = v

\* num_loops: the k steps that cover the range, the last one partial.
NumLoops == (KRange + KStep - 1) \div KStep

\* Fault variant: a unit leaves the sync_units after the computation out.
SyncAfterComputeMissing(u) == FALSE

\* Fault variant: the sync_units after the computation sits in a branch
\* only one unit takes.
SyncAfterComputeInBranch(u) == u = CHOOSE v \in Units : TRUE

\* The sync_units after SMM::execute, reached by every unit.
SyncAfterCompute(u) == TRUE

VARIABLES
  iter,    \* [Units -> 0..NumLoops]: the loop iteration a unit is in
  pc,      \* [Units -> {"fill", "fillSync", "compute", "computeSync"}]
  stage,   \* [Units -> k step or Empty]: each unit's part of the stage
  acc,     \* [Units -> [0..NumN - 1 -> value]]: each plane's accumulators
  out      \* [output tiles -> value or Empty]: the output the unloader holds

vars == <<iter, pc, stage, acc, out>>

OutTiles == (0..(Cardinality(Units) - 1)) \X (0..(NumN - 1))

Init ==
  /\ iter = [u \in Units |-> 0]
  /\ pc = [u \in Units |-> "fill"]
  /\ stage = [u \in Units |-> Empty]
  /\ acc = [u \in Units |-> RA!AccInitZeros(NumN)]
  /\ out = [t \in OutTiles |-> Empty]

\* fill_stage of the Lhs and the Rhs loader: the unit stores its lines of
\* the stage for k step iter[u], then waits at sync_units.
FillStage(u) ==
  /\ pc[u] = "fill"
  /\ iter[u] < NumLoops
  /\ stage' = [stage EXCEPT ![u] = iter[u]]
  /\ pc' = [pc EXCEPT ![u] = "fillSync"]
  /\ UNCHANGED <<iter, acc, out>>

\* The k step stage tile i holds: the part of the unit that loaded it.
TileStep(i) == stage[CHOOSE v \in Units : PlaneId[v] = i % Cardinality(Units)]

\* LhsReader::read_tile(plane_id, buffer_iter, 0) of every buffer_iter
\* (a part never loaded reads as 0).
LhsTiles(u) ==
  [b \in 0..(KStep - 1) |->
     LET s == TileStep(PlaneId[u] * KStep + b)
     IN IF s = Empty THEN 0 ELSE LhsData[PlaneId[u]][s * KStep + b]]

\* RhsReader::read_tile(buffer_iter, accumulator_iter) of every tile.
RhsTiles ==
  [b \in 0..(KStep - 1) |->
     [a \in 0..(NumN - 1) |->
        LET s == TileStep(b * NumN + a)
        IN IF s = Empty THEN 0 ELSE RhsData[s * KStep + b][a]]]

\* SMM::execute on the whole stage; then sync_units, or straight on to
\* advance_view and the next iteration.
Execute(u) ==
  /\ pc[u] = "compute"
  /\ IF SyncAfterCompute(u)
     THEN pc' = [pc EXCEPT ![u] = "computeSync"] /\ UNCHANGED iter
     ELSE pc' = [pc EXCEPT ![u] = "fill"] /\ iter' = [iter EXCEPT ![u] = @ + 1]
  /\ acc' = [acc EXCEPT ![u] = RA!Execute(@, LhsTiles(u), RhsTiles, KStep)]
  /\ UNCHANGED <<stage, out>>

\* sync_units: once every unit waits at the same barrier, all go on; after
\* the computation's barrier they advance their views to the next step.
SyncUnits ==
  \/ /\ \A u \in Units : pc[u] = "fillSync"
     /\ pc' = [u \in Units |-> "compute"]
     /\ UNCHANGED <<iter, stage, acc, out>>
  \/ /\ \A u \in Units : pc[u] = "computeSync"
     /\ pc' = [u \in Units |-> "fill"]
     /\ iter' = [u \in Units |-> iter[u] + 1]
     /\ UNCHANGED <<stage, acc, out>>

\* After the loop, SMM::acc_read: the plane writes its accumulators as
\* its row of output tiles.
AccRead(u) ==
  /\ pc[u] = "fill"
  /\ iter[u] = NumLoops
  /\ out' = RA!AccRead(out, acc[u], PlaneId[u])
  /\ pc' = [pc EXCEPT ![u] = "read"]
  /\ UNCHANGED <<iter, stage, acc>>

\* execute has returned in every unit.
Done == \A u \in Units : pc[u] = "read"

Next ==
  \/ \E u \in Units : FillStage(u) \/ Execute(u) \/ AccRead(u)
  \/ SyncUnits

\* The GPU keeps every resident unit running, and a barrier all units
\* reached is released.
Fairness ==
  /\ \A u \in Units : WF_vars(FillStage(u)) /\ WF_vars(Execute(u)) /\ WF_vars(AccRead(u))
  /\ WF_vars(SyncUnits)

Spec == Init /\ [][Next]_vars /\ Fairness

-----------------------------------------------------------------------------

TypeOK ==
  /\ iter \in [Units -> 0..NumLoops]
  /\ pc \in [Units -> {"fill", "fillSync", "compute", "computeSync", "read"}]
  /\ stage \in [Units -> 0..(NumLoops - 1) \cup {Empty}]
  /\ acc \in [Units -> [0..(NumN - 1) -> Nat]]
  /\ out \in [OutTiles -> Nat \cup {Empty}]

\* Every computation reads a complete stage of its own k step: while a
\* unit computes, every unit's part of the stage holds that step, so no
\* unit is still loading it and none has begun loading the next step.
ComputeReadsCompleteStage ==
  \A u \in Units : pc[u] = "compute" => \A v \in Units : stage[v] = iter[u]

\* The elements of k the k steps cover: k_range and, past it, the rest of
\* the last, partial step.
CoveredK == 0..(((KRange + KStep - 1) \div KStep) * KStep - 1)

\* What the kernel computes: once execute has returned in every unit,
\* output tile (m, n) holds the sum over the covered elements of k of
\* Lhs (m, k) * Rhs (k, n).  It takes the barriers, each plane reading
\* the tiles of all k steps in order and accumulating every one of them,
\* and acc_read writing each plane's own row.
ResultIsProduct ==
  Done => \A t \in OutTiles :
            out[t] = MapThenSumSet(LAMBDA k : LhsData[t[1]][k] * RhsData[k][t[2]], CoveredK)

\* Every unit leaves the loop: no unit waits forever at a sync_units.
Termination == <>Done

=============================================================================
