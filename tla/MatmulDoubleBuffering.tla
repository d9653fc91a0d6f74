------------------------- MODULE MatmulDoubleBuffering -------------------------
(***************************************************************************)
(* The double-buffering global matmul of cubecl-matmul                     *)
(* (components/global/multi_stage/double_buffering/matmul.rs): make_config *)
(* and the view arithmetic of execute, followed by one unit.  A stage is   *)
(* named by the k offset of its first element; a buffer holds the stage    *)
(* last loaded into it.  Buffer A reads the loaders' view, buffer B the    *)
(* view shifted by one buffer_step; the listener of a compute loads the    *)
(* other buffer (EventLoadingMode::Relaxed: all its events of one compute  *)
(* are one load here; their order is modelled by DoubleBufferingPipeline). *)
(***************************************************************************)
EXTENDS Integers, Sequences

CONSTANTS
  StageM, StageN, StageK,   \* elements_in_stage_m, n, k of the tiling scheme
  Ms, Ns, Ks                \* the problem sizes

ASSUME StageK \in Nat \ {0}

DivCeil(a, b) == (a + b - 1) \div b

\* Fault variant: k bounds checked when k is not a multiple of one stage.
MakeConfigOneStage(problem) ==
  [checkMBounds |-> problem.m % StageM # 0,
   checkNBounds |-> problem.n % StageN # 0,
   checkKBounds |-> problem.k % StageK # 0]

\* make_config: bounds are checked along k when k is not a multiple of two
\* stages, along m and n when they are not multiples of the stage.
MakeConfig(problem) ==
  [checkMBounds |-> problem.m % StageM # 0,
   checkNBounds |-> problem.n % StageN # 0,
   checkKBounds |-> problem.k % (2 * StageK) # 0]

\* execute's loop count: needed stages rounded up to an even count, two
\* computes per iteration and two after the loop.
NumStageMatmuls(range) == DivCeil(range, StageK) + (DivCeil(range, StageK) % 2)
NumLoops(range) == (NumStageMatmuls(range) - 2) \div 2

\* Fault variant: advance_view by one buffer_step instead of loop_step.
AdvanceViewOneStep(view) == view + StageK

\* advance_view of both loaders by loop_step = 2 * buffer_step.
AdvanceView(view) == view + 2 * StageK

\* The k offset a buffer reads: B sits one buffer_step past the view.
BufferOffset(view, b) == IF b = "A" THEN view ELSE view + StageK

VARIABLES
  problem,   \* [m, n, k] of the MatmulProblem
  config,    \* the global config, or <<>> before make_config
  pc,        \* the statement of execute the unit is at
  iter,      \* loop iterations done
  view,      \* the k offset of the loaders' view
  buffer,    \* [{"A", "B"} -> stage offset or -1]: the stage each buffer holds
  loads,     \* the loads so far: [offset, checked]
  computed   \* the stages SMM::execute has computed on, in order

vars == <<problem, config, pc, iter, view, buffer, loads, computed>>

\* A load of buffer b at the current view, bounds checked or not as the
\* config says.
Load(b, v) ==
  /\ buffer' = [buffer EXCEPT ![b] = BufferOffset(v, b)]
  /\ loads' = Append(loads, [offset |-> BufferOffset(v, b), checked |-> config.checkKBounds])

Init ==
  /\ problem \in [m : Ms, n : Ns, k : Ks]
  /\ config = <<>>
  /\ pc = "config"
  /\ iter = 0
  /\ view = 0
  /\ buffer = [b \in {"A", "B"} |-> -1]
  /\ loads = <<>>
  /\ computed = <<>>

\* make_config, as the launch does before the kernel runs.
Configure ==
  /\ pc = "config"
  /\ config' = MakeConfig(problem)
  /\ pc' = "fill"
  /\ UNCHANGED <<problem, iter, view, buffer, loads, computed>>

\* fill_stage of buffer A for both loaders, then sync_cube.
FillA ==
  /\ pc = "fill"
  /\ Load("A", view)
  /\ pc' = IF iter < NumLoops(problem.k) THEN "loopA" ELSE "tailA"
  /\ UNCHANGED <<problem, config, iter, view, computed>>

\* In the loop: compute on A while the listener loads B, advance_view,
\* sync_cube.
LoopComputeA ==
  /\ pc = "loopA"
  /\ computed' = Append(computed, buffer["A"])
  /\ Load("B", view)
  /\ view' = AdvanceView(view)
  /\ pc' = "loopB"
  /\ UNCHANGED <<problem, config, iter>>

\* In the loop: compute on B while the listener loads A at the advanced
\* view, sync_cube.
LoopComputeB ==
  /\ pc = "loopB"
  /\ computed' = Append(computed, buffer["B"])
  /\ Load("A", view)
  /\ iter' = iter + 1
  /\ pc' = IF iter + 1 < NumLoops(problem.k) THEN "loopA" ELSE "tailA"
  /\ UNCHANGED <<problem, config, view>>

\* After the loop: compute on A while the listener loads B, sync_cube.
TailComputeA ==
  /\ pc = "tailA"
  /\ computed' = Append(computed, buffer["A"])
  /\ Load("B", view)
  /\ pc' = "tailB"
  /\ UNCHANGED <<problem, config, iter, view>>

\* The last compute on B, with no listener, and write_results.
TailComputeB ==
  /\ pc = "tailB"
  /\ computed' = Append(computed, buffer["B"])
  /\ pc' = "done"
  /\ UNCHANGED <<problem, config, iter, view, buffer, loads>>

Next ==
  \/ Configure \/ FillA \/ LoopComputeA \/ LoopComputeB
  \/ TailComputeA \/ TailComputeB

Spec == Init /\ [][Next]_vars

-----------------------------------------------------------------------------

\* Once execute returns, SMM::execute has run on every stage of k exactly
\* once and in order, the stages covering k: the loop count, the fill of
\* A, the listeners' loads into the other buffer and advance_view by two
\* buffer steps together.
StagesComputedInOrder ==
  pc = "done" =>
    /\ computed = [i \in 1..Len(computed) |-> (i - 1) * StageK]
    /\ Len(computed) * StageK >= problem.k

\* A stage that reaches past k is only loaded with k bounds checked: the
\* even stage count of execute and make_config's check_k_bounds agree.
LoadsPastKChecked ==
  \A i \in 1..Len(loads) :
    loads[i].offset + StageK > problem.k => loads[i].checked

=============================================================================
