------------------------------- MODULE System -------------------------------
(***************************************************************************)
(* One-sided operations and waits for notifications together: the tasks of *)
(* Operations and of Notifications are the same, with one event counter    *)
(* that the calls raise and that the polling tasks of both lower.  A task  *)
(* is in one call at a time.                                               *)
(***************************************************************************)
EXTENDS TaskingModel, QueueCheckers, FiniteSets

CONSTANTS
    Request, GASPI_TAG_NULL, CreatedQueues, ListSize, numRequests, listRequests, BatchSize,
    MaxSegments, NumIds, Buffers, Value, Garbage, Object, Capacity, NoTask, NumCPUs, MaxCalls

VARIABLES
    opc, ocall, loc, tag, oqueue, failed, oppc, pqueue, batch, completedReqs,
    npc, ncall, tid, held, calls, slot, resent, pool, range, nqueue, lock, list,
    nppc, seg, pos, pid, completeRanges, out, taken,
    aborted

operationsVars ==
    <<opc, ocall, loc, tag, oqueue, failed, oppc, pqueue, batch, completedReqs>>
notificationsVars ==
    <<npc, ncall, tid, held, calls, slot, resent, pool, range, nqueue, lock, list,
      nppc, seg, pos, pid, completeRanges, out, taken>>
vars == <<taskVars, operationsVars, notificationsVars, aborted>>

O == INSTANCE Operations WITH pc <- opc, call <- ocall, queue <- oqueue, ppc <- oppc
N == INSTANCE Notifications WITH pc <- npc, call <- ncall, queue <- nqueue, ppc <- nppc

\* What the components assume; requests are GASPI's and waiting ranges are
\* TAGASPI's, so none is both.
ASSUME SystemAssumption ==
    /\ O!OperationsAssumption
    /\ N!NotificationsAssumption
    /\ Request \cap Object = {}

Init == O!Init /\ N!Init

\* A task calls an operation only outside a wait, and the other way round.
OperationsStep ==
    /\ \/ \E t \in Task : npc[t] = "body" /\ O!TaskCall(t)
       \/ \E t \in Task : O!SubmitSucceeds(t) \/ O!SubmitFails(t) \/ O!Rollback(t)
       \/ \E r \in Request :
            \/ \E q \in Queue : O!PlainSubmit(r, q)
            \/ O!RequestDone(r)
            \/ O!RequestFails(r)
       \/ \E c \in O!Registered :
            \/ O!Poller(c)
            \/ O!RequestWaitError(c)
            \/ \E r \in Request : O!ProcessFailed(c, r)
    /\ UNCHANGED notificationsVars

NotificationsStep ==
    /\ \/ \E t \in Task : opc[t] = "body" /\ N!Alive /\ N!TaskCall(t)
       \/ \E t \in Task : N!TaskStep(t)
       \/ \E k \in N!Key, v \in Value : N!Alive /\ N!NotificationArrives(k, v)
       \/ N!Poller
       \/ N!NotificationError
    /\ UNCHANGED operationsVars

\* The body of a task ends, and its handle is reused, for both.
EndTask(t) == O!EndTask(t) /\ N!EndTask(t)
SpawnTask(t) == O!SpawnTask(t) /\ N!SpawnTask(t)

Aborted == aborted /\ UNCHANGED vars

Next ==
    \/ OperationsStep
    \/ NotificationsStep
    \/ \E t \in Task : EndTask(t) \/ SpawnTask(t)
    \/ Aborted

Spec == Init /\ [][Next]_vars

(***************************************************************************)
(* Properties.                                                             *)
(***************************************************************************)

\* The one counter of a task is the sum of what its operations and its waits
\* account for: neither polling task takes an event of the other.
SharedAccounting ==
    \A t \in Task :
        events[t] = ocall[t].n + Cardinality(O!InFlight(t)) + N!WaitEvents(t)

\* A task completes only after the network completed all its requests and its
\* waits consumed all their notifications, in whatever order the two kinds of
\* polling tasks fulfil its events.
TA == INSTANCE TaskAware WITH
        Item <- Request \cup Object,
        outstanding <- [t \in Task |->
            {r \in Request : loc[r] = "posted" /\ tag[r] = t}
            \cup {o \in N!RangesOf(t) : range[o].remaining > 0}]

ImplementsTaskAware == TA!Spec
=============================================================================
