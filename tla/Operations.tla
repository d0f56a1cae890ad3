----------------------------- MODULE Operations -----------------------------
(***************************************************************************)
(* One-sided operations: the tagaspi_* calls of tasks (src/src/c), the     *)
(* GASPI queues their requests go through, and the polling instances that  *)
(* reap the completed requests (Polling::pollQueues) and fulfil the events *)
(* of the tasks the requests are tagged with.                              *)
(*                                                                         *)
(* A call raises the caller's events by the number of low-level requests   *)
(* of the operation, submits them tagged with the task handle, and lowers  *)
(* the events again if the submission fails.  Every access to state that   *)
(* another thread touches is a step of its own.                            *)
(***************************************************************************)
EXTENDS TaskingModel, QueueCheckers, FiniteSets

CONSTANTS
    Request,             \* low-level GASPI requests that can be in flight
    GASPI_TAG_NULL,      \* tag of the requests posted outside TAGASPI
    CreatedQueues,       \* the queues created in this GASPI process
    ListSize,            \* sizes of the lists given to the list operations
    numRequests,         \* _env.numRequests, requests of one operation
    listRequests,        \* gaspi_operation_get_num_requests for the lists
    BatchSize            \* requests asked of one gaspi_request_wait

SingleOperation == {"READ", "WRITE", "NOTIFY", "WRITE_NOTIFY"}
ListOperation == {"READ_LIST", "WRITE_LIST", "WRITE_LIST_NOTIFY"}

ASSUME OperationsAssumption ==
    /\ IsFiniteSet(Request)
    /\ GASPI_TAG_NULL \notin Task
    /\ CreatedQueues \subseteq Queue
    /\ numRequests \in [SingleOperation -> Nat \ {0}]
    /\ listRequests \in [ListOperation -> [ListSize -> Nat \ {0}]]
    /\ BatchSize \in Nat \ {0}

VARIABLES
    pc,                  \* [Task -> where the task is in a tagaspi call]
    call,                \* [Task -> the queue and request count of the call]
    loc,                 \* [Request -> where the request is]
    tag,                 \* [Request -> its tag]
    queue,               \* [Request -> the queue it was posted to]
    failed,              \* completed requests whose status is an error
    ppc,                 \* [Checker -> where pollQueues is]
    pqueue,              \* [Checker -> the queue it is checking]
    batch,               \* [Checker -> reaped requests not yet processed]
    completedReqs,       \* [Checker -> size of the last reaped batch]
    aborted              \* the process called abort()

gaspiVars == <<loc, tag, queue, failed>>
pollVars == <<ppc, pqueue, batch, completedReqs>>
vars == <<taskVars, pc, call, gaspiVars, pollVars, aborted>>

NoCall == [queue |-> 0, n |-> 0]

TypeOK ==
    /\ TaskTypeOK
    /\ pc \in [Task -> {"body", "submit", "rollback"}]
    /\ call \in [Task -> [queue : Nat, n : Nat]]
    /\ loc \in [Request -> {"free", "posted", "done", "reaped"}]
    /\ tag \in [Request -> Task \cup {GASPI_TAG_NULL}]
    /\ queue \in [Request -> Nat]
    /\ failed \subseteq Request
    /\ ppc \in [Checker -> {"sleep", "wait", "reap"}]
    /\ pqueue \in [Checker -> Int]
    /\ batch \in [Checker -> SUBSET Request]
    /\ completedReqs \in [Checker -> 0 .. BatchSize]
    /\ aborted \in BOOLEAN

Init ==
    /\ TaskInit
    /\ pc = [t \in Task |-> "body"]
    /\ call = [t \in Task |-> NoCall]
    /\ loc = [r \in Request |-> "free"]
    /\ tag = [r \in Request |-> GASPI_TAG_NULL]
    /\ queue = [r \in Request |-> 0]
    /\ failed = {}
    /\ ppc = [c \in Checker |-> "sleep"]
    /\ pqueue = [c \in Checker |-> FirstQueue(c)]
    /\ batch = [c \in Checker |-> {}]
    /\ completedReqs = [c \in Checker |-> 0]
    /\ aborted = FALSE

(***************************************************************************)
(* The calls of a task.                                                    *)
(***************************************************************************)

\* The part every operation shares: the events are raised by the number of
\* requests before any of them can be submitted, and so reaped.
Issue(t, n, q) ==
    /\ ~aborted
    /\ status[t] = "running"
    /\ pc[t] = "body"
    /\ increaseCurrentTaskEvents(t, n)
    /\ call' = [call EXCEPT ![t] = [queue |-> q, n |-> n]]
    /\ pc' = [pc EXCEPT ![t] = "submit"]
    /\ UNCHANGED <<gaspiVars, pollVars, aborted>>

tagaspi_read(t, q) == Issue(t, numRequests["READ"], q)
tagaspi_write(t, q) == Issue(t, numRequests["WRITE"], q)
tagaspi_notify(t, q) == Issue(t, numRequests["NOTIFY"], q)
tagaspi_write_notify(t, q) == Issue(t, numRequests["WRITE_NOTIFY"], q)
tagaspi_read_list(t, num, q) == Issue(t, listRequests["READ_LIST"][num], q)
tagaspi_write_list(t, num, q) == Issue(t, listRequests["WRITE_LIST"][num], q)
tagaspi_write_list_notify(t, num, q) ==
    Issue(t, listRequests["WRITE_LIST_NOTIFY"][num], q)

FreeRequests == {r \in Request : loc[r] = "free"}

Post(S, t, q) ==
    /\ S \subseteq FreeRequests
    /\ loc' = [r \in Request |-> IF r \in S THEN "posted" ELSE loc[r]]
    /\ tag' = [r \in Request |-> IF r \in S THEN t ELSE tag[r]]
    /\ queue' = [r \in Request |-> IF r \in S THEN q ELSE queue[r]]
    /\ UNCHANGED failed

\* gaspi_operation_submit / gaspi_operation_list_submit accept the operation.
\* With GASPI_BLOCK the call waits until the queue has room for its requests.
SubmitSucceeds(t) ==
    /\ ~aborted
    /\ pc[t] = "submit"
    /\ call[t].queue \in CreatedQueues
    /\ \E S \in SUBSET FreeRequests :
        /\ Cardinality(S) = call[t].n
        /\ Post(S, t, call[t].queue)
    /\ pc' = [pc EXCEPT ![t] = "body"]
    /\ call' = [call EXCEPT ![t] = NoCall]
    /\ UNCHANGED <<taskVars, pollVars, aborted>>

\* The submission returns an error (a queue that was not created, among
\* others); none of the requests has been posted.
SubmitFails(t) ==
    /\ ~aborted
    /\ pc[t] = "submit"
    /\ pc' = [pc EXCEPT ![t] = "rollback"]
    /\ UNCHANGED <<taskVars, call, gaspiVars, pollVars, aborted>>

\* Mutant of GiveBack: one event only, whatever the number of requests.
GiveBackOne(t) == decreaseTaskEvents(t, 1)

GiveBack(t) == decreaseTaskEvents(t, call[t].n)

\* The error path of every operation: the events are given back.
Rollback(t) ==
    /\ ~aborted
    /\ pc[t] = "rollback"
    /\ GiveBack(t)
    /\ pc' = [pc EXCEPT ![t] = "body"]
    /\ call' = [call EXCEPT ![t] = NoCall]
    /\ UNCHANGED <<gaspiVars, pollVars, aborted>>

EndTask(t) ==
    /\ ~aborted
    /\ pc[t] = "body"
    /\ FinishBody(t)
    /\ UNCHANGED <<pc, call, gaspiVars, pollVars, aborted>>

SpawnTask(t) ==
    /\ ~aborted
    /\ Spawn(t)
    /\ UNCHANGED <<pc, call, gaspiVars, pollVars, aborted>>

(***************************************************************************)
(* GASPI.                                                                  *)
(***************************************************************************)

\* The application posts a plain GASPI request to a queue TAGASPI checks.
PlainSubmit(r, q) ==
    /\ ~aborted
    /\ q \in CreatedQueues
    /\ Post({r}, GASPI_TAG_NULL, q)
    /\ UNCHANGED <<taskVars, pc, call, pollVars, aborted>>

RequestDone(r) ==
    /\ ~aborted
    /\ loc[r] = "posted"
    /\ loc' = [loc EXCEPT ![r] = "done"]
    /\ UNCHANGED <<taskVars, pc, call, tag, queue, failed, pollVars, aborted>>

RequestFails(r) ==
    /\ ~aborted
    /\ loc[r] = "posted"
    /\ loc' = [loc EXCEPT ![r] = "done"]
    /\ failed' = failed \cup {r}
    /\ UNCHANGED <<taskVars, pc, call, tag, queue, pollVars, aborted>>

(***************************************************************************)
(* Polling::pollQueues.                                                    *)
(***************************************************************************)

\* The runtime resumes the polling task, which calls pollQueues again.
PollQueues(c) ==
    /\ ~aborted
    /\ ppc[c] = "sleep"
    /\ ppc' = [ppc EXCEPT ![c] = "wait"]
    /\ pqueue' = [pqueue EXCEPT ![c] = FirstQueue(c)]
    /\ UNCHANGED <<taskVars, pc, call, gaspiVars, batch, completedReqs, aborted>>

Reap(c, S) ==
    /\ loc' = [r \in Request |-> IF r \in S THEN "reaped" ELSE loc[r]]
    /\ batch' = [batch EXCEPT ![c] = S]
    /\ completedReqs' = [completedReqs EXCEPT ![c] = Cardinality(S)]

Completed(q) == {r \in Request : loc[r] = "done" /\ queue[r] = q}

\* Mutant of BatchFits: one request more than the arrays hold.
BatchFitsOver(S) == Cardinality(S) <= BatchSize + 1

BatchFits(S) == Cardinality(S) <= BatchSize

\* gaspi_request_wait with GASPI_TEST: up to BatchSize completed requests, none
\* (GASPI_TIMEOUT) only if there is none, none (GASPI_ERR_INV_QUEUE) if the
\* queue was not created.
RequestWait(c) ==
    /\ ~aborted
    /\ ppc[c] = "wait"
    /\ \E S \in SUBSET Completed(pqueue[c]) :
        /\ BatchFits(S)
        /\ S = {} => \/ Completed(pqueue[c]) = {}
                     \/ pqueue[c] \notin CreatedQueues
        /\ Reap(c, S)
    /\ ppc' = [ppc EXCEPT ![c] = "reap"]
    /\ UNCHANGED <<taskVars, pc, call, tag, queue, failed, pqueue, aborted>>

\* Any other return code of gaspi_request_wait: fprintf and abort.
RequestWaitError(c) ==
    /\ ~aborted
    /\ ppc[c] = "wait"
    /\ aborted' = TRUE
    /\ UNCHANGED <<taskVars, pc, call, gaspiVars, pollVars>>

Release(c, r) ==
    /\ loc' = [loc EXCEPT ![r] = "free"]
    /\ tag' = [tag EXCEPT ![r] = GASPI_TAG_NULL]
    /\ queue' = [queue EXCEPT ![r] = 0]
    /\ batch' = [batch EXCEPT ![c] = @ \ {r}]

\* Mutant of Fulfil: one request fulfils all the events of its task.
FulfilAll(c, r) ==
    \/ tag[r] = GASPI_TAG_NULL /\ UNCHANGED taskVars
    \/ tag[r] \in Task /\ decreaseTaskEvents(tag[r], events[tag[r]])

\* The event of a request that a task posted; nobody waits for a plain one.
Fulfil(c, r) ==
    \/ tag[r] = GASPI_TAG_NULL /\ UNCHANGED taskVars
    \/ tag[r] \in Task /\ decreaseTaskEvents(tag[r], 1)

\* One iteration of the loop over the reaped requests.
ProcessRequest(c, r) ==
    /\ ~aborted
    /\ ppc[c] = "reap"
    /\ r \in batch[c]
    /\ r \notin failed
    /\ Fulfil(c, r)
    /\ Release(c, r)
    /\ UNCHANGED <<pc, call, failed, ppc, pqueue, completedReqs, aborted>>

\* A request whose status is an error: fprintf and abort.
ProcessFailed(c, r) ==
    /\ ~aborted
    /\ ppc[c] = "reap"
    /\ r \in batch[c] \cap failed
    /\ aborted' = TRUE
    /\ UNCHANGED <<taskVars, pc, call, gaspiVars, pollVars>>

\* Mutant of MoreQueues: the last queue of the instance is not checked.
MoreQueuesButLast(c) == pqueue[c] + 2 < FirstQueue(c) + NumQueuesOf(c)

MoreQueues(c) == pqueue[c] + 1 < FirstQueue(c) + NumQueuesOf(c)

\* The batch is processed: a full one is followed by another of the same queue,
\* otherwise the next queue is checked, and after the last the task sleeps.
NextQueue(c) ==
    /\ ~aborted
    /\ ppc[c] = "reap"
    /\ batch[c] = {}
    /\ \/ /\ completedReqs[c] = BatchSize
          /\ ppc' = [ppc EXCEPT ![c] = "wait"]
          /\ UNCHANGED pqueue
       \/ /\ completedReqs[c] # BatchSize
          /\ pqueue' = [pqueue EXCEPT ![c] = @ + 1]
          /\ ppc' = [ppc EXCEPT ![c] = IF MoreQueues(c) THEN "wait" ELSE "sleep"]
    /\ UNCHANGED <<taskVars, pc, call, gaspiVars, batch, completedReqs, aborted>>

\* The process is gone.
Aborted == aborted /\ UNCHANGED vars

(***************************************************************************)
(* The specification.                                                      *)
(***************************************************************************)

TaskCall(t) ==
    \E q \in Queue :
        \/ tagaspi_read(t, q)
        \/ tagaspi_write(t, q)
        \/ tagaspi_notify(t, q)
        \/ tagaspi_write_notify(t, q)
        \/ \E num \in ListSize :
            \/ tagaspi_read_list(t, num, q)
            \/ tagaspi_write_list(t, num, q)
            \/ tagaspi_write_list_notify(t, num, q)

Poller(c) ==
    \/ PollQueues(c)
    \/ RequestWait(c)
    \/ \E r \in Request : ProcessRequest(c, r)
    \/ NextQueue(c)

Next ==
    \/ \E t \in Task :
        \/ TaskCall(t)
        \/ SubmitSucceeds(t)
        \/ SubmitFails(t)
        \/ Rollback(t)
        \/ EndTask(t)
        \/ SpawnTask(t)
    \/ \E r \in Request :
        \/ \E q \in Queue : PlainSubmit(r, q)
        \/ RequestDone(r)
        \/ RequestFails(r)
    \/ \E c \in Registered :
        \/ Poller(c)
        \/ RequestWaitError(c)
        \/ \E r \in Request : ProcessFailed(c, r)
    \/ Aborted

Spec == Init /\ [][Next]_vars

(***************************************************************************)
(* Fairness: the network completes every posted request, a call in         *)
(* progress goes on, the runtime resumes each polling task when its period *)
(* is over (alpi_task_waitfor_ns), and GASPI, whose completion queues are  *)
(* FIFO, does not pass over a completed request for ever.  Nothing makes a *)
(* task call, end, or be spawned.                                          *)
(***************************************************************************)
ReapRequest(c, r) == RequestWait(c) /\ r \in batch'[c]

Fairness ==
    /\ \A r \in Request :
        /\ WF_vars(RequestDone(r) \/ RequestFails(r))
        /\ SF_vars(\E c \in Registered : ReapRequest(c, r))
    /\ \A t \in Task : WF_vars(SubmitSucceeds(t) \/ SubmitFails(t) \/ Rollback(t))
    /\ \A c \in Registered :
        WF_vars(Poller(c) \/ \E r \in Request : ProcessFailed(c, r))

FairSpec == Spec /\ Fairness

(***************************************************************************)
(* Properties.                                                             *)
(***************************************************************************)

\* The requests of task t that GASPI or a polling instance still holds.
InFlight(t) == {r \in Request : loc[r] # "free" /\ tag[r] = t}

\* The events of a task are exactly the requests of the call it is in, if it
\* has raised the events and not yet submitted, and its requests in flight:
\* none is lost on an error path, none is fulfilled twice, and the counter is
\* never negative, which ALPI forbids (src/src/common/ALPI.hpp:206-208).
EventAccounting ==
    \A t \in Task : events[t] = call[t].n + Cardinality(InFlight(t))

\* No request that is in flight or being processed carries the handle of a
\* task that has completed: pollQueues casts the tag back to a task handle and
\* uses it (src/src/common/Polling.cpp:124-127).
NoStaleTag ==
    \A t \in Task : status[t] = "completed" => call[t].n = 0 /\ InFlight(t) = {}

\* The promise to tasks: a task completes only after every request it posted
\* was completed by the network (TaskAware), whatever the order in which the
\* requests are reaped by the polling instances.
TA == INSTANCE TaskAware WITH
        Item <- Request,
        outstanding <- [t \in Task |-> {r \in Request : loc[r] = "posted" /\ tag[r] = t}]

ImplementsTaskAware == TA!Spec

\* pollQueues returns again and again.  Nothing in the code bounds its inner
\* loop: while whole batches keep completing in one queue it stays there, and the
\* other queues of the instance are not checked (src/src/common/Polling.cpp:130).
PollersReturn == \A c \in Registered : []<>(ppc[c] = "sleep")

\* As long as no queue keeps its polling instance busy for ever, every task
\* whose body is over completes, unless the process aborts: no event is left
\* over, and every queue is checked by some polling instance.
FinishedTasksComplete ==
    PollersReturn =>
        \A t \in Task : status[t] = "finished" ~> (status[t] = "completed" \/ aborted)
=============================================================================
