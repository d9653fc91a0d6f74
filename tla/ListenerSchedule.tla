--------------------------- MODULE ListenerSchedule ---------------------------
(***************************************************************************)
(* The comptime schedule of the double-buffering event listener (cubecl-   *)
(* linalg global/multi_stage/double_buffering/matmul.rs, Event, STEP,       *)
(* create_event and the guards of on_event): at which TmmCompleted event   *)
(* each load task of the Lhs and the Rhs job runs.                         *)
(***************************************************************************)
EXTENDS Naturals

CONSTANTS
  Totals,      \* the values of `total`: tile matmuls per stage execution
  TaskCounts,  \* the values of task_count of a loading job
  Builds       \* subset of {"checked", "wrapping"}: overflow behaviour of the build

Jobs == {"lhs", "rhs"}

\* const STEP.
Step == 1

\* A comptime configuration of the listener for one stage execution.
Configs == [total : Totals, numTasks : [Jobs -> TaskCounts], build : Builds]

\* num_tasks_total.
NumTasksTotal(c) == c.numTasks["lhs"] + c.numTasks["rhs"]

\* In a build with overflow checks the subtraction panics when it would go
\* below zero.
StartUnderflows(c) == c.build = "checked" /\ c.total < Step * NumTasksTotal(c)

\* Fault variant: the schedule starts one event late.
CreateEventStartLate(c, cnt) ==
  LET start == c.total - Step * NumTasksTotal(c) + 1 IN
  [at   |-> [lhs |-> cnt["lhs"] * Step + start,
             rhs |-> cnt["rhs"] * Step + c.numTasks["lhs"] * Step + start],
   done |-> [j \in Jobs |-> cnt[j] >= c.numTasks[j]]]

\* create_event: the event number of the next task of each job and whether
\* the job has run all its tasks.  In a wrapping build the event numbers are
\* taken modulo 2^32; the integers here are far below 2^31, so comparing
\* them with `current` modulo 2^32 is comparing them as integers.
CreateEvent(c, cnt) ==
  LET start == c.total - Step * NumTasksTotal(c) IN
  [at   |-> [lhs |-> cnt["lhs"] * Step + start,
             rhs |-> cnt["rhs"] * Step + c.numTasks["lhs"] * Step + start],
   done |-> [j \in Jobs |-> cnt[j] >= c.numTasks[j]]]

\* Fault variant: on_event ignores that a job has completed.
FiresIgnoringCompleted(ev, j, current) == ev.at[j] = current

\* on_event(event, current): whether the next task of job j runs now.
Fires(ev, j, current) == ~ev.done[j] /\ ev.at[j] = current

=============================================================================
