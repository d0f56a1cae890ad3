---------------------------- MODULE TaskingModel ----------------------------
(***************************************************************************)
(* The tasks of the tasking runtime as TAGASPI sees them through ALPI      *)
(* (src/src/common/TaskingModel.hpp, src/src/common/ALPI.hpp).             *)
(*                                                                         *)
(* A task runs its body, then stays finished until its external events are *)
(* fulfilled, and completes.  Completion releases its dependencies, so it  *)
(* is the moment at which the data it communicated may be used or reused.  *)
(* The runtime recycles task handles: a completed handle may be given to a *)
(* new task (Spawn), which is what makes a stale handle dangerous.         *)
(***************************************************************************)
EXTENDS Integers

CONSTANT Task            \* task handles (struct alpi_task pointers)

VARIABLES
    status,              \* [Task -> TaskStatus]
    events               \* [Task -> Int], the external event counter

taskVars == <<status, events>>

TaskStatus == {"running", "finished", "completed"}

TaskTypeOK ==
    /\ status \in [Task -> TaskStatus]
    /\ events \in [Task -> Int]

TaskInit ==
    /\ status = [t \in Task |-> "running"]
    /\ events = [t \in Task |-> 0]

\* Mutant of increaseCurrentTaskEvents: the events are not raised.
increaseForgotten(t, n) == UNCHANGED taskVars

\* alpi_task_events_increase on the calling task, which is running.
increaseCurrentTaskEvents(t, n) ==
    /\ events' = [events EXCEPT ![t] = @ + n]
    /\ UNCHANGED status

\* alpi_task_events_decrease: fulfils n events of any task, and completes the
\* task if its body is over and no event is left.
decreaseTaskEvents(t, n) ==
    /\ events' = [events EXCEPT ![t] = @ - n]
    /\ status' = [status EXCEPT ![t] =
                    IF @ = "finished" /\ events[t] = n THEN "completed" ELSE @]

\* The body of the task returns to the runtime.
FinishBody(t) ==
    /\ status[t] = "running"
    /\ status' = [status EXCEPT ![t] =
                    IF events[t] = 0 THEN "completed" ELSE "finished"]
    /\ UNCHANGED events

\* The runtime reuses the handle of a completed task for a new one.
Spawn(t) ==
    /\ status[t] = "completed"
    /\ status' = [status EXCEPT ![t] = "running"]
    /\ events' = [events EXCEPT ![t] = 0]
=============================================================================
