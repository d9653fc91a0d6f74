------------------------ MODULE DoubleBufferingPipeline ------------------------
(***************************************************************************)
(* The double-buffering global matmul with its event listener, line by     *)
(* line (cubecl-linalg global/multi_stage/double_buffering/matmul.rs):     *)
(* the phases and sync_units of execute as in DoubleBuffering, where in    *)
(* each computation with a listener the stage matmul reports               *)
(* TmmCompleted{current, total} after each tile matmul and the listener    *)
(* runs the load tasks of the other buffer at the events its comptime      *)
(* schedule names, and the rest at Finish.  Task t of job j (Lhs or Rhs)   *)
(* of unit u stores one line, lines[b][j][u][t], of buffer b.              *)
(*                                                                         *)
(* The schedule is computed while the kernel is expanded, once for the     *)
(* configuration the kernel is compiled with (Expand); a build with        *)
(* overflow checks aborts the expansion when the schedule underflows.      *)
(***************************************************************************)
EXTENDS Naturals, BufferSchedule, ListenerSchedule

VARIABLES
  expansion,  \* "pending", "ok" or "panicked": the comptime expansion of the kernel
  config,     \* the listener's comptime configuration: total, task counts, build
  phase,      \* [Units -> 1..NumPhases + 1], as in DoubleBuffering
  step,       \* [Units -> {"ready", "busy", "sync"}], as in DoubleBuffering
  current,    \* [Units -> the `current` of the unit's next TmmCompleted]
  counter,    \* [Units -> [Jobs -> tasks executed]]: the listener jobs' counters
  lines       \* [Buffers -> [Jobs -> [Units -> [task -> stage or Empty]]]]

vars == <<expansion, config, phase, step, current, counter, lines>>

\* What the two buffers hold, unit by unit, seen at the granularity of
\* DoubleBuffering: a unit's part of the buffer it is loading holds no
\* stage; otherwise a part holds a stage when all its lines hold it.
PartStage(b, u) ==
  LET l0 == lines[b]["lhs"][u][0] IN
  IF \A j \in Jobs : \A t \in DOMAIN lines[b][j][u] : lines[b][j][u][t] = l0
  THEN l0 ELSE Empty

AbstractContent ==
  [b \in Buffers |-> [u \in Units |->
     IF step[u] = "busy" /\ WriteBuffer(phase[u]) = b THEN Empty ELSE PartStage(b, u)]]

DB == INSTANCE DoubleBuffering WITH content <- AbstractContent

\* Phases 2 .. NumPhases - 1 compute with execute_with_listener; phase 1
\* is fill_stage and the last phase is execute without a listener.
HasListener(k) == 1 < k /\ k < NumPhases

\* The lines of unit u that store stage s in buffer b: the tasks <<j, t>>.
Store(u, b, tasks, s) ==
  [b2 \in Buffers |-> [j \in Jobs |-> [v \in Units |-> [t \in DOMAIN lines[b2][j][v] |->
     IF b2 = b /\ v = u /\ <<j, t>> \in tasks THEN s ELSE lines[b2][j][v][t]]]]]

AllTasks == UNION {{<<j, t>> : t \in 0..(config.numTasks[j] - 1)} : j \in Jobs}

\* Fault variant: Finish resumes one task after the job's counter.
PendingSkippingOne(u, k) ==
  IF k = 1 THEN AllTasks
  ELSE IF HasListener(k) THEN {x \in AllTasks : x[2] > counter[u][x[1]]}
  ELSE {}

\* The tasks a unit runs when its phase ends: all of them in fill_stage,
\* what the job has left at Finish, nothing after the last computation.
Pending(u, k) ==
  IF k = 1 THEN AllTasks
  ELSE IF HasListener(k) THEN {x \in AllTasks : x[2] >= counter[u][x[1]]}
  ELSE {}

Init ==
  /\ expansion = "pending"
  /\ config \in Configs
  /\ phase = [u \in Units |-> 1]
  /\ step = [u \in Units |-> "ready"]
  /\ current = [u \in Units |-> 0]
  /\ counter = [u \in Units |-> [j \in Jobs |-> 0]]
  /\ lines = [b \in Buffers |-> [j \in Jobs |-> [u \in Units |->
               [t \in 0..(config.numTasks[j] - 1) |-> Empty]]]]

\* create_event's comptime block runs while the kernel is expanded.
Expand ==
  /\ expansion = "pending"
  /\ expansion' = IF StartUnderflows(config) THEN "panicked" ELSE "ok"
  /\ UNCHANGED <<config, phase, step, current, counter, lines>>

\* The unit enters its next phase; the stage matmul has not reported yet.
Begin(u) ==
  /\ expansion = "ok"
  /\ phase[u] <= NumPhases
  /\ step[u] = "ready"
  /\ step' = [step EXCEPT ![u] = "busy"]
  /\ current' = [current EXCEPT ![u] = 0]
  /\ UNCHANGED <<expansion, config, phase, counter, lines>>

\* on_event(TmmCompleted{current, total}) of the listener that loads the
\* other buffer: init at the first event, create_event, then the Lhs task
\* and the Rhs task whose event this is.
TmmCompleted(u) ==
  LET k   == phase[u]
      cnt == IF current[u] = 0 THEN [j \in Jobs |-> 0] ELSE counter[u]
      ev  == CreateEvent(config, cnt)
      run == {<<j, cnt[j]>> : j \in {i \in Jobs : Fires(ev, i, current[u])}}
  IN /\ step[u] = "busy"
     /\ HasListener(k)
     /\ current[u] < config.total
     /\ lines' = Store(u, WriteBuffer(k), run, WriteStage(k))
     /\ counter' = [counter EXCEPT ![u] = [j \in Jobs |->
                     cnt[j] + (IF <<j, cnt[j]>> \in run THEN 1 ELSE 0)]]
     /\ current' = [current EXCEPT ![u] = @ + 1]
     /\ UNCHANGED <<expansion, config, phase, step>>

\* The phase ends: fill_stage's tasks, or the listener's Finish after the
\* last event, or the last computation; then sync_units or, after the
\* last phase, the end of execute.
End(u) ==
  LET k == phase[u] IN
  /\ step[u] = "busy"
  /\ HasListener(k) => current[u] = config.total
  /\ lines' = Store(u, WriteBuffer(k), Pending(u, k), WriteStage(k))
  /\ counter' = IF HasListener(k) THEN [counter EXCEPT ![u] = config.numTasks] ELSE counter
  /\ IF SyncAfter(u, k)
     THEN step' = [step EXCEPT ![u] = "sync"] /\ UNCHANGED phase
     ELSE step' = [step EXCEPT ![u] = "ready"] /\ phase' = [phase EXCEPT ![u] = k + 1]
  /\ UNCHANGED <<expansion, config, current>>

\* sync_units, as in DoubleBuffering.
Sync ==
  /\ \E k \in 1..NumPhases : \A u \in Units : phase[u] = k /\ step[u] = "sync"
  /\ phase' = [u \in Units |-> phase[u] + 1]
  /\ step' = [u \in Units |-> "ready"]
  /\ UNCHANGED <<expansion, config, current, counter, lines>>

Done == expansion = "panicked" \/ \A u \in Units : phase[u] = NumPhases + 1

Next ==
  \/ Expand
  \/ \E u \in Units : Begin(u) \/ TmmCompleted(u) \/ End(u)
  \/ Sync

\* Expansion ends, the GPU keeps every resident unit running, and a
\* barrier all units reached is released.
Fairness ==
  /\ WF_vars(Expand)
  /\ \A u \in Units : WF_vars(Begin(u)) /\ WF_vars(TmmCompleted(u)) /\ WF_vars(End(u))
  /\ WF_vars(Sync)

Spec == Init /\ [][Next]_vars /\ Fairness

-----------------------------------------------------------------------------

TypeOK ==
  /\ expansion \in {"pending", "ok", "panicked"}
  /\ config \in Configs
  /\ phase \in [Units -> 1..(NumPhases + 1)]
  /\ step \in [Units -> {"ready", "busy", "sync"}]
  /\ current \in [Units -> 0..config.total]
  /\ \A u \in Units, j \in Jobs : counter[u][j] \in 0..config.numTasks[j]
  /\ \A b \in Buffers, j \in Jobs, u \in Units :
       lines[b][j][u] \in [0..(config.numTasks[j] - 1) -> 0..(NumStages - 1) \cup {Empty}]

\* Every tile matmul reads a complete stage: while a unit computes on a
\* buffer, every line of both operands, stored by whichever unit's listener
\* or fill_stage, holds the stage the computation expects, whatever events
\* the listeners of the other units have reached.
ComputeReadsCompleteStage ==
  \A u \in Units :
    (step[u] = "busy" /\ ReadBuffer(phase[u]) # Empty) =>
      \A j \in Jobs, v \in Units :
        \A t \in DOMAIN lines[ReadBuffer(phase[u])][j][v] :
          lines[ReadBuffer(phase[u])][j][v][t] = ReadStage(phase[u])

\* A step that ends a phase with a listener, in a stage of at least STEP
\* tile matmuls per load task, finds every job's counter at its task count.
NothingLeftToFinish ==
  \A u \in Units :
    (step[u] = "busy" /\ step'[u] # "busy" /\ HasListener(phase[u])
     /\ config.total >= Step * NumTasksTotal(config))
    => counter[u] = config.numTasks

\* The purpose of the listener (the doc of Event): when a stage has at
\* least STEP tile matmuls per load task, every load task runs at a
\* TmmCompleted event, and Finish has nothing left to load.
OverlapLeavesNothingToFinish == [][NothingLeftToFinish]_vars

\* Loading line by line at the listener's events implements the coarse
\* double buffering: every step is a step of DoubleBuffering or leaves its
\* state unchanged.
RefinesDoubleBuffering == DB!Init /\ [][DB!Next]_(DB!vars)

\* Every unit leaves execute, unless the kernel could not be expanded.
Termination == <>Done

\* Expanding the kernel succeeds: the comptime schedule of create_event
\* does not abort a build with overflow checks.
ExpansionCompletes == expansion # "panicked"

=============================================================================
