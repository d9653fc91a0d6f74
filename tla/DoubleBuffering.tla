--------------------------- MODULE DoubleBuffering ---------------------------
(***************************************************************************)
(* The double-buffering global matmul (cubecl-linalg                       *)
(* global/multi_stage/double_buffering/matmul.rs, execute): the units of   *)
(* one cube fill buffer A with stage 0, then alternately compute on one    *)
(* buffer while the event listener loads the next stage into the other,    *)
(* with sync_units between the phases.  The loading strategy spreads the   *)
(* lines of a stage over all units, so a buffer holds one part per unit.   *)
(*                                                                         *)
(* Execution is unrolled into phases 1..NumPhases: phase 1 is the fill of  *)
(* A; phase k > 1 is compute number k - 2, reading stage k - 2 from A when *)
(* k is even and from B when odd, and loading stage k - 1 into the other   *)
(* buffer, except the last compute, which loads nothing.  A unit brackets  *)
(* its phase by Begin and End (the reads and writes of the phase happen    *)
(* in between, interleaved by the event listener) and then waits at the   *)
(* sync_units that follows every phase but the last.                       *)
(***************************************************************************)
EXTENDS Naturals, FiniteSets, BufferSchedule

VARIABLES
  phase,      \* [Units -> 1..NumPhases + 1]: the phase a unit is in, NumPhases + 1 when done
  step,       \* [Units -> {"ready", "busy", "sync"}]
  content     \* [Buffers -> [Units -> stage or Empty]]: the stage each unit's part holds

vars == <<phase, step, content>>

Init ==
  /\ phase = [u \in Units |-> 1]
  /\ step = [u \in Units |-> "ready"]
  /\ content = [b \in Buffers |-> [u \in Units |-> Empty]]

\* The unit starts the phase: its part of the loaded buffer is being
\* overwritten, so it holds no complete stage until End.
Begin(u) ==
  /\ phase[u] <= NumPhases
  /\ step[u] = "ready"
  /\ step' = [step EXCEPT ![u] = "busy"]
  /\ content' = IF WriteBuffer(phase[u]) = Empty THEN content
                ELSE [content EXCEPT ![WriteBuffer(phase[u])][u] = Empty]
  /\ UNCHANGED phase

\* The unit has computed on its read buffer and stored its lines of the
\* loaded stage; it waits at sync_units or, after the last phase, finishes.
End(u) ==
  LET k == phase[u] IN
  /\ step[u] = "busy"
  /\ content' = IF WriteBuffer(k) = Empty THEN content
                ELSE [content EXCEPT ![WriteBuffer(k)][u] = WriteStage(k)]
  /\ IF SyncAfter(u, k)
     THEN step' = [step EXCEPT ![u] = "sync"] /\ UNCHANGED phase
     ELSE step' = [step EXCEPT ![u] = "ready"] /\ phase' = [phase EXCEPT ![u] = k + 1]

\* sync_units: once every unit of the cube waits at the barrier that ends
\* the same phase, all of them go on to the next phase.
Sync ==
  /\ \E k \in 1..NumPhases : \A u \in Units : phase[u] = k /\ step[u] = "sync"
  /\ phase' = [u \in Units |-> phase[u] + 1]
  /\ step' = [u \in Units |-> "ready"]
  /\ UNCHANGED content

Done == \A u \in Units : phase[u] = NumPhases + 1

Next ==
  \/ \E u \in Units : Begin(u) \/ End(u)
  \/ Sync

\* The GPU scheduler keeps every resident unit of a cube running, and a
\* barrier all units reached is released.
Fairness == \A u \in Units : WF_vars(Begin(u)) /\ WF_vars(End(u)) /\ WF_vars(Sync)

Spec == Init /\ [][Next]_vars /\ Fairness

-----------------------------------------------------------------------------

TypeOK ==
  /\ phase \in [Units -> 1..(NumPhases + 1)]
  /\ step \in [Units -> {"ready", "busy", "sync"}]
  /\ content \in [Buffers -> [Units -> 0..(NumStages - 1) \cup {Empty}]]

\* Every computation reads a complete stage: while a unit computes on a
\* buffer, every unit's part of that buffer holds the stage the compute
\* expects, so no unit is still loading it, none has begun overwriting it
\* with the next stage, and none left a previous stage in it.
ComputeReadsCompleteStage ==
  \A u \in Units :
    (step[u] = "busy" /\ ReadBuffer(phase[u]) # Empty) =>
      \A v \in Units : content[ReadBuffer(phase[u])][v] = ReadStage(phase[u])

\* Every unit leaves execute: no unit waits forever at a sync_units.
Termination == <>Done

=============================================================================
