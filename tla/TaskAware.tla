----------------------------- MODULE TaskAware ------------------------------
(***************************************************************************)
(* What TAGASPI promises a task, without saying how: the communication     *)
(* items a task has started are outstanding until they are delivered, and  *)
(* the task completes (releasing its dependencies) only once its body is   *)
(* over and nothing it started is outstanding.                             *)
(***************************************************************************)
CONSTANTS
    Task,                \* the tasks
    Item                 \* what a task can wait for

VARIABLES
    status,              \* [Task -> {"running", "finished", "completed"}]
    outstanding          \* [Task -> SUBSET Item]

vars == <<status, outstanding>>

Init ==
    /\ status = [t \in Task |-> "running"]
    /\ outstanding = [t \in Task |-> {}]

\* A running task starts communications that nobody else has outstanding.
Start(t, S) ==
    /\ status[t] = "running"
    /\ \A u \in Task : outstanding[u] \cap S = {}
    /\ outstanding' = [outstanding EXCEPT ![t] = @ \cup S]
    /\ UNCHANGED status

Deliver(t, i) ==
    /\ i \in outstanding[t]
    /\ outstanding' = [outstanding EXCEPT ![t] = @ \ {i}]
    /\ UNCHANGED status

Finish(t) ==
    /\ status[t] = "running"
    /\ status' = [status EXCEPT ![t] = "finished"]
    /\ UNCHANGED outstanding

Complete(t) ==
    /\ status[t] \in {"running", "finished"}
    /\ outstanding[t] = {}
    /\ status' = [status EXCEPT ![t] = "completed"]
    /\ UNCHANGED outstanding

Respawn(t) ==
    /\ status[t] = "completed"
    /\ status' = [status EXCEPT ![t] = "running"]
    /\ UNCHANGED outstanding

Next ==
    \E t \in Task :
        \/ \E S \in SUBSET Item : Start(t, S)
        \/ \E i \in Item : Deliver(t, i)
        \/ Finish(t)
        \/ Complete(t)
        \/ Respawn(t)

Spec == Init /\ [][Next]_vars
=============================================================================
