---------------------------- MODULE BufferSchedule ----------------------------
(***************************************************************************)
(* The unrolled schedule of the double-buffering execute (cubecl-linalg    *)
(* global/multi_stage/double_buffering/matmul.rs): phase 1 is the fill of  *)
(* A; phase k > 1 is compute number k - 2, reading stage k - 2 from A when *)
(* k is even and from B when odd, and loading stage k - 1 into the other   *)
(* buffer, except the last compute, which loads nothing; sync_units        *)
(* follows every phase but the last.                                       *)
(***************************************************************************)
EXTENDS Naturals, LoopCount

CONSTANTS
  Units,        \* the units of the cube (UNIT_POS)
  KRange,       \* k_range.1 - k_range.0
  Empty         \* a buffer part that holds no stage

ASSUME KRange \in Nat \ {0}

Buffers == {"A", "B"}

\* Stages the unrolled loop computes: two per iteration plus the last two.
NumStages == 2 * NumLoops(KRange) + 2
NumPhases == NumStages + 1

Other(b) == IF b = "A" THEN "B" ELSE "A"

\* The buffer and stage a phase reads, and the buffer and stage it loads.
ReadBuffer(k) == IF k = 1 THEN Empty ELSE IF k % 2 = 0 THEN "A" ELSE "B"
ReadStage(k) == k - 2
WriteBuffer(k) == IF k = 1 THEN "A" ELSE IF k = NumPhases THEN Empty ELSE Other(ReadBuffer(k))

\* Fault variant: the listener loads from a view one buffer_step too far.
WriteStageAdvanced(k) == k

WriteStage(k) == k - 1

\* Fault variant: the sync_units after the computation on buffer A inside
\* the loop is missing.
SyncAfterMissingInLoop(u, k) == k < NumPhases /\ ~(k > 1 /\ k % 2 = 0 /\ k < NumPhases - 2)

\* Fault variant: a sync_units after the last computation, in a branch
\* only one unit takes (as around a write of the results by one unit).
SyncAfterInLastBranch(u, k) == k < NumPhases \/ u = CHOOSE v \in Units : TRUE

\* sync_units follows every phase but the last, in every unit.
SyncAfter(u, k) == k < NumPhases

=============================================================================
