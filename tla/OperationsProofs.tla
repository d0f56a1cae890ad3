-------------------------- MODULE OperationsProofs --------------------------
(***************************************************************************)
(* Proofs about Operations, for every number of tasks, requests, queues    *)
(* and polling instances and every request count of the operations.        *)
(***************************************************************************)
EXTENDS Operations, FiniteSetTheorems, TLAPS

(***************************************************************************)
(* The inductive invariant.                                                *)
(***************************************************************************)

\* A call in progress belongs to a running task, and only such a call has
\* requests that are accounted for without being posted.
CallInv ==
    \A t \in Task :
        /\ pc[t] # "body" => status[t] = "running"
        /\ pc[t] = "body" => call[t].n = 0

\* A batch holds reaped requests, no request is in two batches, and only the
\* instance that is processing has one.
BatchInv ==
    /\ \A c \in Checker : \A r \in batch[c] : loc[r] = "reaped"
    /\ \A c, d \in Checker : c # d => batch[c] \cap batch[d] = {}
    /\ \A c \in Checker : ppc[c] # "reap" => batch[c] = {}

\* A finished task waits for something, a completed one for nothing.
StatusInv ==
    \A t \in Task :
        /\ status[t] = "finished" => events[t] # 0
        /\ status[t] = "completed" => events[t] = 0

IInv == TypeOK /\ CallInv /\ BatchInv /\ StatusInv /\ EventAccounting

-----------------------------------------------------------------------------

\* The counts of requests an operation is given are positive numbers.
LEMMA RequestCounts ==
    /\ \A o \in SingleOperation : numRequests[o] \in Nat \ {0}
    /\ \A o \in ListOperation, k \in ListSize : listRequests[o][k] \in Nat \ {0}
  BY OperationsAssumption

\* The sets of requests that the accounting counts are finite.
LEMMA FiniteRequests ==
    ASSUME NEW S \in SUBSET Request
    PROVE  IsFiniteSet(S) /\ Cardinality(S) \in Nat
  BY OperationsAssumption, FS_Subset, FS_CardinalityType

\* Every queue index of a polling instance is an integer.
LEMMA FirstQueueInt == \A c \in Checker : FirstQueue(c) \in Int
  <1>1. qppi \in Int /\ remq \in Int
    BY QueueCheckersAssumption DEF qppi, remq
  <1>2. Checker \subseteq Int
    BY QueueCheckersAssumption DEF Checker
  <1>3. QED
    BY <1>1, <1>2 DEF FirstQueue

-----------------------------------------------------------------------------

\* The steps of Next, with the operations reduced to the call they share.
LEMMA NextCases ==
    ASSUME Next
    PROVE  \/ \E t \in Task, n \in Nat \ {0}, q \in Queue : Issue(t, n, q)
           \/ \E t \in Task : \/ SubmitSucceeds(t)
                              \/ SubmitFails(t)
                              \/ Rollback(t)
                              \/ EndTask(t)
                              \/ SpawnTask(t)
           \/ \E r \in Request : \/ \E q \in Queue : PlainSubmit(r, q)
                                 \/ RequestDone(r)
                                 \/ RequestFails(r)
           \/ \E c \in Checker : \/ PollQueues(c)
                                 \/ RequestWait(c)
                                 \/ RequestWaitError(c)
                                 \/ \E r \in Request : ProcessRequest(c, r)
                                 \/ \E r \in Request : ProcessFailed(c, r)
                                 \/ NextQueue(c)
           \/ UNCHANGED vars
  <1>1. ASSUME NEW t \in Task, TaskCall(t)
        PROVE  \E n \in Nat \ {0}, q \in Queue : Issue(t, n, q)
    BY <1>1, RequestCounts
    DEF TaskCall, SingleOperation, ListOperation, tagaspi_read, tagaspi_write,
        tagaspi_notify, tagaspi_write_notify, tagaspi_read_list,
        tagaspi_write_list, tagaspi_write_list_notify
  <1>2. Registered \subseteq Checker
    BY DEF Registered
  <1>3. QED
    BY <1>1, <1>2 DEF Next, Poller, Aborted

\* Posting a set of free requests for a task or for nobody.
LEMMA PostInFlight ==
    ASSUME TypeOK, NEW S \in SUBSET FreeRequests,
           NEW p \in Task \cup {GASPI_TAG_NULL}, NEW q, Post(S, p, q),
           NEW t \in Task
    PROVE  /\ InFlight(t)' = IF t = p THEN InFlight(t) \cup S ELSE InFlight(t)
           /\ InFlight(t) \cap S = {}
  BY DEF TypeOK, FreeRequests, Post, InFlight

-----------------------------------------------------------------------------

\* Before the first call nothing is announced, in flight or being processed.
THEOREM InitIInv == Init => IInv
  <1> SUFFICES ASSUME Init PROVE IInv
    OBVIOUS
  <1>1. TypeOK
    <2>1. aborted \in BOOLEAN
      BY Zenon DEF Init
    <2>2. pqueue \in [Checker -> Int]
      BY FirstQueueInt DEF Init
    <2>3. completedReqs \in [Checker -> 0 .. BatchSize]
      BY OperationsAssumption DEF Init
    <2>4. QED
      BY <2>1, <2>2, <2>3 DEF Init, TypeOK, TaskInit, TaskTypeOK, TaskStatus, NoCall
  <1>2. CallInv /\ BatchInv /\ StatusInv
    BY DEF Init, TaskInit, CallInv, BatchInv, StatusInv, NoCall
  <1>3. EventAccounting
    <2> SUFFICES ASSUME NEW t \in Task
                 PROVE  events[t] = call[t].n + Cardinality(InFlight(t))
      BY DEF EventAccounting
    <2>1. InFlight(t) = {}
      BY DEF Init, InFlight
    <2>2. QED
      BY <2>1, FS_EmptySet DEF Init, TaskInit, NoCall
  <1>4. QED
    BY <1>1, <1>2, <1>3 DEF IInv

-----------------------------------------------------------------------------

\* Every step keeps the types.
LEMMA TypeStep == TypeOK /\ [Next]_vars => TypeOK'
  <1> SUFFICES ASSUME TypeOK, [Next]_vars PROVE TypeOK'
    OBVIOUS
  <1> USE DEF TypeOK, TaskTypeOK, TaskStatus, taskVars, gaspiVars, pollVars
  <1>1. ASSUME NEW t \in Task, NEW n \in Nat \ {0}, NEW q \in Queue, Issue(t, n, q)
        PROVE  TypeOK'
    <2>1. q \in Nat
      BY QueueCheckersAssumption DEF Queue
    <2>2. QED
      BY <1>1, <2>1 DEF Issue, increaseCurrentTaskEvents
  <1>2. ASSUME NEW t \in Task, SubmitSucceeds(t)
        PROVE  TypeOK'
    BY <1>2 DEF SubmitSucceeds, Post, NoCall
  <1>3. ASSUME NEW t \in Task, SubmitFails(t)
        PROVE  TypeOK'
    BY <1>3 DEF SubmitFails
  <1>4. ASSUME NEW t \in Task, Rollback(t)
        PROVE  TypeOK'
    BY <1>4 DEF Rollback, GiveBack, decreaseTaskEvents, NoCall
  <1>5. ASSUME NEW t \in Task, EndTask(t) \/ SpawnTask(t)
        PROVE  TypeOK'
    BY <1>5 DEF EndTask, FinishBody, SpawnTask, Spawn
  <1>6. ASSUME NEW r \in Request, NEW q \in Queue, PlainSubmit(r, q)
        PROVE  TypeOK'
    <2>1. q \in Nat
      BY QueueCheckersAssumption DEF Queue
    <2>2. QED
      BY <1>6, <2>1 DEF PlainSubmit, Post
  <1>7. ASSUME NEW r \in Request, RequestDone(r) \/ RequestFails(r)
        PROVE  TypeOK'
    BY <1>7 DEF RequestDone, RequestFails
  <1>8. ASSUME NEW c \in Checker, PollQueues(c)
        PROVE  TypeOK'
    BY <1>8, FirstQueueInt DEF PollQueues
  <1>9. ASSUME NEW c \in Checker, RequestWait(c)
        PROVE  TypeOK'
    <2>1. PICK S \in SUBSET Completed(pqueue[c]) : Cardinality(S) <= BatchSize /\ Reap(c, S)
      BY <1>9 DEF RequestWait, BatchFits
    <2>2. S \subseteq Request
      BY DEF Completed
    <2>3. Cardinality(S) \in Nat
      BY <2>2, FiniteRequests
    <2>4. QED
      BY <1>9, <2>1, <2>2, <2>3 DEF RequestWait, BatchFits, Reap
  <1>10. ASSUME NEW c \in Checker, RequestWaitError(c)
         PROVE  TypeOK'
    BY <1>10 DEF RequestWaitError
  <1>11. ASSUME NEW c \in Checker, NEW r \in Request, ProcessRequest(c, r)
         PROVE  TypeOK'
    BY <1>11 DEF ProcessRequest, Fulfil, Release, decreaseTaskEvents
  <1>12. ASSUME NEW c \in Checker, NEW r \in Request, ProcessFailed(c, r)
         PROVE  TypeOK'
    BY <1>12 DEF ProcessFailed
  <1>13. ASSUME NEW c \in Checker, NextQueue(c)
         PROVE  TypeOK'
    BY <1>13 DEF NextQueue, MoreQueues
  <1>14. CASE UNCHANGED vars
    BY <1>14 DEF vars
  <1>15. QED
    BY <1>1, <1>2, <1>3, <1>4, <1>5, <1>6, <1>7, <1>8, <1>9, <1>10, <1>11,
       <1>12, <1>13, <1>14, NextCases

\* Every step keeps the relation between calls, tasks and their status.
LEMMA CallStep == IInv /\ [Next]_vars => CallInv'
  <1> SUFFICES ASSUME IInv, [Next]_vars PROVE CallInv'
    OBVIOUS
  <1> USE DEF IInv, TypeOK, TaskTypeOK, TaskStatus, CallInv, taskVars, NoCall
  <1>1. ASSUME NEW t \in Task, NEW n \in Nat \ {0}, NEW q \in Queue, Issue(t, n, q)
        PROVE  CallInv'
    BY <1>1 DEF Issue, increaseCurrentTaskEvents
  <1>2. ASSUME NEW t \in Task, SubmitSucceeds(t) \/ SubmitFails(t)
        PROVE  CallInv'
    BY <1>2 DEF SubmitSucceeds, SubmitFails
  <1>3. ASSUME NEW t \in Task, Rollback(t)
        PROVE  CallInv'
    BY <1>3 DEF Rollback, GiveBack, decreaseTaskEvents
  <1>4. ASSUME NEW t \in Task, EndTask(t) \/ SpawnTask(t)
        PROVE  CallInv'
    BY <1>4 DEF EndTask, FinishBody, SpawnTask, Spawn
  <1>5. ASSUME NEW r \in Request,
               (\E q \in Queue : PlainSubmit(r, q)) \/ RequestDone(r) \/ RequestFails(r)
        PROVE  CallInv'
    BY <1>5 DEF PlainSubmit, RequestDone, RequestFails
  <1>6. ASSUME NEW c \in Checker,
               \/ PollQueues(c) \/ RequestWait(c) \/ RequestWaitError(c) \/ NextQueue(c)
               \/ \E r \in Request : ProcessFailed(c, r)
        PROVE  CallInv'
    BY <1>6 DEF PollQueues, RequestWait, BatchFits, RequestWaitError, NextQueue, MoreQueues, ProcessFailed
  <1>7. ASSUME NEW c \in Checker, NEW r \in Request, ProcessRequest(c, r)
        PROVE  CallInv'
    BY <1>7 DEF ProcessRequest, Fulfil, decreaseTaskEvents
  <1>8. CASE UNCHANGED vars
    BY <1>8 DEF vars
  <1>9. QED
    BY <1>1, <1>2, <1>3, <1>4, <1>5, <1>6, <1>7, <1>8, NextCases

\* Every step keeps the batches disjoint and made of reaped requests.
LEMMA BatchStep == IInv /\ [Next]_vars => BatchInv'
  <1> SUFFICES ASSUME IInv, [Next]_vars PROVE BatchInv'
    OBVIOUS
  <1> USE DEF IInv, TypeOK, BatchInv, gaspiVars, pollVars
  <1>1. ASSUME NEW t \in Task, NEW n \in Nat \ {0}, NEW q \in Queue, Issue(t, n, q)
        PROVE  BatchInv'
    BY <1>1 DEF Issue
  <1>2. ASSUME NEW t \in Task, SubmitSucceeds(t)
        PROVE  BatchInv'
    BY <1>2 DEF SubmitSucceeds, Post, FreeRequests
  <1>3. ASSUME NEW t \in Task,
               SubmitFails(t) \/ Rollback(t) \/ EndTask(t) \/ SpawnTask(t)
        PROVE  BatchInv'
    BY <1>3 DEF SubmitFails, Rollback, GiveBack, EndTask, SpawnTask
  <1>4. ASSUME NEW r \in Request, NEW q \in Queue, PlainSubmit(r, q)
        PROVE  BatchInv'
    BY <1>4 DEF PlainSubmit, Post, FreeRequests
  <1>5. ASSUME NEW r \in Request, RequestDone(r) \/ RequestFails(r)
        PROVE  BatchInv'
    BY <1>5 DEF RequestDone, RequestFails
  <1>6. ASSUME NEW c \in Checker, RequestWait(c)
        PROVE  BatchInv'
    BY <1>6 DEF RequestWait, BatchFits, Reap, Completed
  <1>7. ASSUME NEW c \in Checker, NEW r \in Request, ProcessRequest(c, r)
        PROVE  BatchInv'
    BY <1>7 DEF ProcessRequest, Fulfil, Release
  <1>8. ASSUME NEW c \in Checker,
               \/ PollQueues(c) \/ RequestWaitError(c) \/ NextQueue(c)
               \/ \E r \in Request : ProcessFailed(c, r)
        PROVE  BatchInv'
    BY <1>8 DEF PollQueues, RequestWaitError, NextQueue, MoreQueues, ProcessFailed
  <1>9. CASE UNCHANGED vars
    BY <1>9 DEF vars
  <1>10. QED
    BY <1>1, <1>2, <1>3, <1>4, <1>5, <1>6, <1>7, <1>8, <1>9, NextCases

-----------------------------------------------------------------------------

\* A task with a request in flight has an event to be fulfilled, and the rest
\* of its requests is one fewer.
LEMMA InFlightPositive ==
    ASSUME IInv, NEW t \in Task, NEW r \in InFlight(t)
    PROVE  /\ events[t] > 0
           /\ Cardinality(InFlight(t) \ {r}) = Cardinality(InFlight(t)) - 1
  <1>1. InFlight(t) \subseteq Request
    BY DEF InFlight
  <1>2. IsFiniteSet(InFlight(t)) /\ Cardinality(InFlight(t)) \in Nat
    BY <1>1, FiniteRequests
  <1>3. Cardinality(InFlight(t)) # 0
    BY <1>2, FS_EmptySet
  <1>4. events[t] = call[t].n + Cardinality(InFlight(t)) /\ call[t].n \in Nat
    BY DEF IInv, EventAccounting, TypeOK
  <1>5. events[t] > 0
    BY <1>2, <1>3, <1>4
  <1>6. QED
    BY <1>2, <1>5, FS_RemoveElement

\* A request of a batch that is tagged with a task is in flight.
LEMMA BatchInFlight ==
    ASSUME IInv, NEW c \in Checker, NEW r \in batch[c], NEW t \in Task, tag[r] = t
    PROVE  r \in InFlight(t)
  BY DEF IInv, TypeOK, BatchInv, InFlight

\* Every step keeps a finished task waiting for something and a completed one
\* for nothing.  The step that could break it reaps a request of a completed
\* task; the accounting excludes it.
LEMMA StatusStep == IInv /\ [Next]_vars => StatusInv'
  <1> SUFFICES ASSUME IInv, [Next]_vars PROVE StatusInv'
    OBVIOUS
  <1> USE DEF StatusInv, taskVars
  <1>0. TypeOK /\ CallInv /\ StatusInv
    BY DEF IInv
  <1> USE DEF TypeOK, TaskTypeOK, TaskStatus
  <1>1. ASSUME NEW t \in Task, NEW n \in Nat \ {0}, NEW q \in Queue, Issue(t, n, q)
        PROVE  StatusInv'
    BY <1>0, <1>1 DEF Issue, increaseCurrentTaskEvents
  <1>2. ASSUME NEW t \in Task, SubmitSucceeds(t) \/ SubmitFails(t)
        PROVE  StatusInv'
    BY <1>0, <1>2 DEF SubmitSucceeds, SubmitFails
  <1>3. ASSUME NEW t \in Task, Rollback(t)
        PROVE  StatusInv'
    BY <1>0, <1>3 DEF Rollback, GiveBack, decreaseTaskEvents, CallInv
  <1>4. ASSUME NEW t \in Task, EndTask(t) \/ SpawnTask(t)
        PROVE  StatusInv'
    BY <1>0, <1>4 DEF EndTask, FinishBody, SpawnTask, Spawn
  <1>5. ASSUME NEW r \in Request,
               (\E q \in Queue : PlainSubmit(r, q)) \/ RequestDone(r) \/ RequestFails(r)
        PROVE  StatusInv'
    BY <1>0, <1>5 DEF PlainSubmit, RequestDone, RequestFails
  <1>6. ASSUME NEW c \in Checker,
               \/ PollQueues(c) \/ RequestWait(c) \/ RequestWaitError(c) \/ NextQueue(c)
               \/ \E r \in Request : ProcessFailed(c, r)
        PROVE  StatusInv'
    BY <1>0, <1>6 DEF PollQueues, RequestWait, BatchFits, RequestWaitError, NextQueue, MoreQueues, ProcessFailed
  <1>7. ASSUME NEW c \in Checker, NEW r \in Request, ProcessRequest(c, r)
        PROVE  StatusInv'
    <2>1. CASE tag[r] = GASPI_TAG_NULL
      BY <1>0, <1>7, <2>1, OperationsAssumption DEF ProcessRequest, Fulfil
    <2>2. CASE tag[r] \in Task
      <3>1. events[tag[r]] > 0
        BY <1>7, <2>2, BatchInFlight, InFlightPositive DEF ProcessRequest, Fulfil
      <3>2. decreaseTaskEvents(tag[r], 1)
        BY <1>7, <2>2, OperationsAssumption DEF ProcessRequest, Fulfil
      <3>3. QED
        BY <1>0, <2>2, <3>1, <3>2 DEF decreaseTaskEvents
    <2>3. QED
      BY <1>7, <2>1, <2>2 DEF ProcessRequest, Fulfil
  <1>8. CASE UNCHANGED vars
    BY <1>0, <1>8 DEF vars
  <1>9. QED
    BY <1>1, <1>2, <1>3, <1>4, <1>5, <1>6, <1>7, <1>8, NextCases

-----------------------------------------------------------------------------

\* A step that leaves the events, the calls and the requests in flight of a
\* task alone keeps its accounting.
LEMMA SameAccounting ==
    ASSUME IInv, NEW t \in Task, events'[t] = events[t], call'[t].n = call[t].n,
           InFlight(t)' = InFlight(t)
    PROVE  events'[t] = call'[t].n + Cardinality(InFlight(t)')
  BY DEF IInv, EventAccounting

\* Every step keeps the accounting of the events.
LEMMA AccountingStep == IInv /\ [Next]_vars => EventAccounting'
  <1> SUFFICES ASSUME IInv, [Next]_vars, NEW u \in Task
               PROVE  events'[u] = call'[u].n + Cardinality(InFlight(u)')
    BY DEF EventAccounting
  <1> DEFINE Goal == events'[u] = call'[u].n + Cardinality(InFlight(u)')
  <1> USE DEF taskVars, gaspiVars, pollVars
  <1>0. /\ TypeOK /\ CallInv /\ BatchInv
        /\ events[u] = call[u].n + Cardinality(InFlight(u))
        /\ InFlight(u) \subseteq Request
    BY DEF IInv, EventAccounting, InFlight
  <1>f. IsFiniteSet(InFlight(u)) /\ Cardinality(InFlight(u)) \in Nat
    BY <1>0, FiniteRequests
  <1>1. ASSUME NEW t \in Task, NEW n \in Nat \ {0}, NEW q \in Queue, Issue(t, n, q)
        PROVE  Goal
    <2>1. InFlight(u)' = InFlight(u)
      BY <1>1 DEF Issue, InFlight
    <2>2. CASE u = t
      BY <1>0, <1>1, <1>f, <2>1, <2>2
      DEF Issue, increaseCurrentTaskEvents, TypeOK, TaskTypeOK, CallInv
    <2>3. CASE u # t
      BY <1>0, <1>1, <2>1, <2>3
      DEF Issue, increaseCurrentTaskEvents, TypeOK, TaskTypeOK
    <2>4. QED
      BY <2>2, <2>3
  <1>2. ASSUME NEW t \in Task, SubmitSucceeds(t)
        PROVE  Goal
    <2>1. PICK S \in SUBSET FreeRequests :
              Cardinality(S) = call[t].n /\ Post(S, t, call[t].queue)
      BY <1>2 DEF SubmitSucceeds
    <2>2. /\ InFlight(u)' = IF u = t THEN InFlight(u) \cup S ELSE InFlight(u)
          /\ InFlight(u) \cap S = {}
      BY <1>0, <2>1, PostInFlight
    <2>3. IsFiniteSet(S)
      BY FiniteRequests DEF FreeRequests
    <2>4. Cardinality(InFlight(u) \cup S) = Cardinality(InFlight(u)) + Cardinality(S)
      <3>1. Cardinality(InFlight(u) \cup S) =
                Cardinality(InFlight(u)) + Cardinality(S) - Cardinality(InFlight(u) \cap S)
        BY <1>f, <2>3, FS_Union
      <3>2. Cardinality(InFlight(u) \cap S) = 0
        BY <2>2, FS_EmptySet
      <3>3. Cardinality(S) \in Nat
        BY <2>3, FS_CardinalityType
      <3>4. QED
        BY <1>f, <3>1, <3>2, <3>3
    <2>5. events' = events /\ call' = [call EXCEPT ![t] = NoCall]
      BY <1>2 DEF SubmitSucceeds
    <2>6. CASE u = t
      BY <1>0, <1>f, <2>1, <2>2, <2>4, <2>5, <2>6 DEF TypeOK, NoCall
    <2>7. CASE u # t
      BY <1>0, <2>2, <2>5, <2>7 DEF TypeOK
    <2>8. QED
      BY <2>6, <2>7
  <1>3. ASSUME NEW t \in Task, Rollback(t)
        PROVE  Goal
    <2>1. InFlight(u)' = InFlight(u)
      BY <1>3 DEF Rollback, GiveBack, InFlight
    <2>2. QED
      BY <1>0, <1>3, <1>f, <2>1
      DEF Rollback, GiveBack, decreaseTaskEvents, TypeOK, TaskTypeOK, NoCall
  <1>4. ASSUME NEW t \in Task, SubmitFails(t) \/ EndTask(t)
        PROVE  Goal
    <2>1. InFlight(u)' = InFlight(u) /\ events' = events /\ call' = call
      BY <1>4 DEF SubmitFails, EndTask, FinishBody, InFlight
    <2>2. QED
      BY <2>1, SameAccounting
  <1>5. ASSUME NEW t \in Task, SpawnTask(t)
        PROVE  Goal
    <2>1. InFlight(u)' = InFlight(u) /\ call' = call
      BY <1>5 DEF SpawnTask, InFlight
    <2>2. events'[u] = events[u]
      BY <1>0, <1>5 DEF SpawnTask, Spawn, IInv, StatusInv, TypeOK, TaskTypeOK
    <2>3. QED
      BY <2>1, <2>2, SameAccounting
  <1>6. ASSUME NEW r \in Request, NEW q \in Queue, PlainSubmit(r, q)
        PROVE  Goal
    <2>1. Post({r}, GASPI_TAG_NULL, q) /\ events' = events /\ call' = call
      BY <1>6 DEF PlainSubmit
    <2>2. InFlight(u)' = InFlight(u)
      BY <1>0, <2>1, OperationsAssumption DEF Post, FreeRequests, InFlight, TypeOK
    <2>3. QED
      BY <2>1, <2>2, SameAccounting
  <1>7. ASSUME NEW r \in Request, RequestDone(r) \/ RequestFails(r)
        PROVE  Goal
    <2>1. InFlight(u)' = InFlight(u)
      BY <1>0, <1>7 DEF RequestDone, RequestFails, InFlight, TypeOK
    <2>2. QED
      BY <1>7, <2>1, SameAccounting DEF RequestDone, RequestFails
  <1>8. ASSUME NEW c \in Checker, RequestWait(c)
        PROVE  Goal
    <2>1. InFlight(u)' = InFlight(u)
      BY <1>0, <1>8 DEF RequestWait, BatchFits, Reap, Completed, InFlight, TypeOK
    <2>2. QED
      BY <1>8, <2>1, SameAccounting DEF RequestWait, BatchFits
  <1>9. ASSUME NEW c \in Checker, NEW r \in Request, ProcessRequest(c, r)
        PROVE  Goal
    <2>1. InFlight(u)' = InFlight(u) \ {r} /\ call' = call
      BY <1>0, <1>9, OperationsAssumption DEF ProcessRequest, Fulfil, Release, InFlight, TypeOK
    <2>2. CASE tag[r] = u
      <3>1. r \in InFlight(u)
        BY <1>9, <2>2, BatchInFlight DEF ProcessRequest, Fulfil
      <3>2. events'[u] = events[u] - 1
        BY <1>0, <1>9, <2>2, OperationsAssumption
        DEF ProcessRequest, Fulfil, decreaseTaskEvents, TypeOK, TaskTypeOK
      <3>3. QED
        BY <1>0, <1>f, <2>1, <3>1, <3>2, InFlightPositive DEF TypeOK
    <2>3. CASE tag[r] # u
      <3>1. r \notin InFlight(u)
        BY <2>3 DEF InFlight
      <3>2. events'[u] = events[u]
        BY <1>0, <1>9, <2>3 DEF ProcessRequest, Fulfil, decreaseTaskEvents, TypeOK, TaskTypeOK
      <3>3. InFlight(u)' = InFlight(u)
        BY <2>1, <3>1
      <3>4. QED
        BY <2>1, <3>2, <3>3, SameAccounting
    <2>4. QED
      BY <2>2, <2>3
  <1>10. ASSUME NEW c \in Checker,
                \/ PollQueues(c) \/ RequestWaitError(c) \/ NextQueue(c)
                \/ \E r \in Request : ProcessFailed(c, r)
         PROVE  Goal
    <2>1. InFlight(u)' = InFlight(u) /\ events' = events /\ call' = call
      BY <1>10 DEF PollQueues, RequestWaitError, NextQueue, MoreQueues, ProcessFailed, InFlight
    <2>2. QED
      BY <2>1, SameAccounting
  <1>11. CASE UNCHANGED vars
    <2>1. InFlight(u)' = InFlight(u) /\ events' = events /\ call' = call
      BY <1>11 DEF vars, InFlight
    <2>2. QED
      BY <2>1, SameAccounting
  <1>12. QED
    BY <1>1, <1>2, <1>3, <1>4, <1>5, <1>6, <1>7, <1>8, <1>9, <1>10, <1>11,
       NextCases

-----------------------------------------------------------------------------

\* Every step keeps the inductive invariant.
THEOREM StepIInv == IInv /\ [Next]_vars => IInv'
  <1> SUFFICES ASSUME IInv, [Next]_vars PROVE IInv'
    OBVIOUS
  <1>1. TypeOK'
    BY TypeStep DEF IInv
  <1>2. QED
    BY <1>1, CallStep, BatchStep, StatusStep, AccountingStep DEF IInv

\* The inductive invariant holds in every state of every execution.
THEOREM Invariance == Spec => []IInv
  BY InitIInv, StepIInv, PTL DEF Spec

\* Every variable of the calls, the queues and the polling instances keeps its
\* type, whatever the interleaving of Write.cpp, Notify.cpp and their like with
\* Polling::pollQueues.
THEOREM TypeCorrect == Spec => []TypeOK
  <1>1. IInv => TypeOK
    BY DEF IInv
  <1>2. QED
    BY <1>1, Invariance, PTL

\* The external events of a task always equal the requests it has announced and
\* not yet submitted plus its requests in flight: no path through a tagaspi_*
\* call or through pollQueues loses an event or fulfils one twice.
THEOREM AccountingCorrect == Spec => []EventAccounting
  <1>1. IInv => EventAccounting
    BY DEF IInv
  <1>2. QED
    BY <1>1, Invariance, PTL

\* pollQueues never meets a tag whose task has completed: the handle it casts
\* the tag to (Polling.cpp:124-127) is live.
THEOREM NoStaleTagCorrect == Spec => []NoStaleTag
  <1>1. IInv => NoStaleTag
    <2> SUFFICES ASSUME IInv, NEW t \in Task, status[t] = "completed"
                 PROVE  call[t].n = 0 /\ InFlight(t) = {}
      BY DEF NoStaleTag
    <2>1. events[t] = 0 /\ events[t] = call[t].n + Cardinality(InFlight(t))
      BY DEF IInv, StatusInv, EventAccounting
    <2>2. call[t].n \in Nat
      BY DEF IInv, TypeOK
    <2>3. IsFiniteSet(InFlight(t)) /\ Cardinality(InFlight(t)) \in Nat
      BY FiniteRequests DEF InFlight
    <2>4. call[t].n = 0 /\ Cardinality(InFlight(t)) = 0
      BY <2>1, <2>2, <2>3
    <2>5. QED
      BY <2>3, <2>4, FS_EmptySet
  <1>2. QED
    BY <1>1, Invariance, PTL

-----------------------------------------------------------------------------

(***************************************************************************)
(* Operations implements TaskAware.                                        *)
(***************************************************************************)

Posted(t) == {r \in Request : loc[r] = "posted" /\ tag[r] = t}

\* A task without events has nothing outstanding, and neither has a task whose
\* only event is that of a request a polling instance is processing.
LEMMA NothingPosted ==
    ASSUME IInv, NEW t \in Task
    PROVE  /\ events[t] = 0 => Posted(t) = {}
           /\ \A c \in Checker : \A r \in batch[c] :
                tag[r] = t /\ events[t] = 1 => Posted(t) = {}
  <1>1. IsFiniteSet(InFlight(t)) /\ Cardinality(InFlight(t)) \in Nat
    BY FiniteRequests DEF InFlight
  <1>2. events[t] = call[t].n + Cardinality(InFlight(t)) /\ call[t].n \in Nat
    BY DEF IInv, EventAccounting, TypeOK
  <1>3. Posted(t) \subseteq InFlight(t)
    BY DEF Posted, InFlight
  <1>4. ASSUME events[t] = 0 PROVE Posted(t) = {}
    BY <1>1, <1>2, <1>3, <1>4, FS_EmptySet
  <1>5. ASSUME NEW c \in Checker, NEW r \in batch[c], tag[r] = t, events[t] = 1
        PROVE  Posted(t) = {}
    <2>1. r \in InFlight(t)
      BY <1>5, BatchInFlight
    <2>2. Cardinality(InFlight(t) \ {r}) = Cardinality(InFlight(t)) - 1
      BY <2>1, InFlightPositive
    <2>3. IsFiniteSet(InFlight(t) \ {r}) /\ Cardinality(InFlight(t) \ {r}) \in Nat
      BY <1>1, FS_RemoveElement, FS_CardinalityType
    <2>4. Cardinality(InFlight(t) \ {r}) = 0
      BY <1>1, <1>2, <1>5, <2>2, <2>3
    <2>5. InFlight(t) \ {r} = {}
      BY <2>3, <2>4, FS_EmptySet
    <2>6. r \notin Posted(t)
      BY DEF IInv, BatchInv, Posted
    <2>7. QED
      BY <1>3, <2>5, <2>6
  <1>6. QED
    BY <1>4, <1>5

\* Every step is a step of TaskAware or leaves its variables alone.
LEMMA RefinementStep == IInv /\ [Next]_vars => [TA!Next]_(TA!vars)
  <1> DEFINE Out == [t \in Task |-> {r \in Request : loc[r] = "posted" /\ tag[r] = t}]
             Unmoved == status' = status /\ \A t \in Task : Posted(t)' = Posted(t)
  <1> SUFFICES ASSUME IInv, [Next]_vars PROVE TA!Next \/ UNCHANGED TA!vars
    BY DEF TA!vars
  <1>0. TypeOK /\ CallInv /\ BatchInv
    BY DEF IInv
  <1>u. ASSUME Unmoved PROVE UNCHANGED TA!vars
    BY <1>u DEF TA!vars, Posted
  <1> USE DEF taskVars, gaspiVars, pollVars
  <1>1. ASSUME NEW t \in Task, NEW n \in Nat \ {0}, NEW q \in Queue, Issue(t, n, q)
        PROVE  Unmoved
    BY <1>1 DEF Issue, increaseCurrentTaskEvents, Posted
  <1>2. ASSUME NEW t \in Task, SubmitSucceeds(t)
        PROVE  TA!Next
    <2>1. PICK S \in SUBSET FreeRequests : Post(S, t, call[t].queue)
      BY <1>2 DEF SubmitSucceeds
    <2>2. status[t] = "running" /\ status' = status
      BY <1>0, <1>2 DEF SubmitSucceeds, CallInv
    <2>3. \A u \in Task : Posted(u) \cap S = {}
      BY DEF Posted, FreeRequests
    <2>4. \A u \in Task : Posted(u)' = IF u = t THEN Posted(u) \cup S ELSE Posted(u)
      BY <1>0, <2>1 DEF Post, FreeRequests, Posted, TypeOK
    <2>5. S \in SUBSET Request
      BY DEF FreeRequests
    <2>6. \A u \in Task : Out[u] = Posted(u) /\ Out'[u] = Posted(u)'
      BY DEF Posted
    <2>7. Out' = [Out EXCEPT ![t] = Out[t] \cup S]
      BY <2>4, <2>6
    <2>8. \A u \in Task : Out[u] \cap S = {}
      BY <2>3, <2>6
    <2>9. TA!Start(t, S)
      BY <2>2, <2>7, <2>8 DEF TA!Start
    <2>10. QED
      BY <2>5, <2>9 DEF TA!Next
  <1>3. ASSUME NEW t \in Task, SubmitFails(t)
        PROVE  Unmoved
    BY <1>3 DEF SubmitFails, Posted
  <1>4. ASSUME NEW t \in Task, Rollback(t)
        PROVE  Unmoved
    <2>1. status' = status
      BY <1>0, <1>4 DEF Rollback, GiveBack, decreaseTaskEvents, CallInv, TypeOK, TaskTypeOK
    <2>2. QED
      BY <1>4, <2>1 DEF Rollback, GiveBack, Posted
  <1>5. ASSUME NEW t \in Task, EndTask(t)
        PROVE  TA!Next
    <2>1. \A u \in Task : Posted(u)' = Posted(u)
      BY <1>5 DEF EndTask, Posted
    <2>2. CASE events[t] = 0
      <3>1. Posted(t) = {}
        BY <2>2, NothingPosted
      <3>2. TA!Complete(t)
        BY <1>5, <2>1, <2>2, <3>1 DEF EndTask, FinishBody, TA!Complete, Posted
      <3>3. QED
        BY <3>2 DEF TA!Next
    <2>3. CASE events[t] # 0
      <3>1. TA!Finish(t)
        BY <1>5, <2>1, <2>3 DEF EndTask, FinishBody, TA!Finish, Posted
      <3>2. QED
        BY <3>1 DEF TA!Next
    <2>4. QED
      BY <2>2, <2>3
  <1>6. ASSUME NEW t \in Task, SpawnTask(t)
        PROVE  TA!Next
    <2>1. \A u \in Task : Posted(u)' = Posted(u)
      BY <1>6 DEF SpawnTask, Posted
    <2>2. TA!Respawn(t)
      BY <1>6, <2>1 DEF SpawnTask, Spawn, TA!Respawn, Posted
    <2>3. QED
      BY <2>2 DEF TA!Next
  <1>7. ASSUME NEW r \in Request, NEW q \in Queue, PlainSubmit(r, q)
        PROVE  Unmoved
    BY <1>0, <1>7, OperationsAssumption
    DEF PlainSubmit, Post, FreeRequests, Posted, TypeOK
  <1>8. ASSUME NEW r \in Request, RequestDone(r) \/ RequestFails(r)
        PROVE  TA!Next \/ Unmoved
    <2>1. status' = status /\ \A u \in Task : Posted(u)' = Posted(u) \ {r}
      BY <1>0, <1>8 DEF RequestDone, RequestFails, Posted, TypeOK
    <2>2. CASE tag[r] \in Task
      <3>1. PICK t \in Task : t = tag[r]
        BY <2>2
      <3>2. /\ r \in Posted(t)
            /\ \A u \in Task : u # t => Posted(u) \ {r} = Posted(u)
        BY <1>8, <3>1 DEF RequestDone, RequestFails, Posted
      <3>3. TA!Deliver(t, r)
        BY <2>1, <3>2 DEF TA!Deliver, Posted
      <3>4. QED
        BY <3>3 DEF TA!Next
    <2>3. CASE tag[r] \notin Task
      BY <2>1, <2>3 DEF Posted
    <2>4. QED
      BY <2>2, <2>3
  <1>9. ASSUME NEW c \in Checker, RequestWait(c)
        PROVE  Unmoved
    BY <1>0, <1>9 DEF RequestWait, BatchFits, Reap, Completed, Posted, TypeOK
  <1>10. ASSUME NEW c \in Checker, NEW r \in Request, ProcessRequest(c, r)
         PROVE  TA!Next \/ Unmoved
    <2>1. \A u \in Task : Posted(u)' = Posted(u)
      BY <1>0, <1>10 DEF ProcessRequest, Fulfil, Release, Posted, TypeOK, BatchInv
    <2>2. CASE tag[r] = GASPI_TAG_NULL
      BY <1>10, <2>1, <2>2, OperationsAssumption DEF ProcessRequest, Fulfil
    <2>3. CASE tag[r] \in Task /\ status[tag[r]] = "finished" /\ events[tag[r]] = 1
      <3>1. Posted(tag[r]) = {}
        BY <1>10, <2>3, NothingPosted DEF ProcessRequest, Fulfil
      <3>2. status' = [status EXCEPT ![tag[r]] = "completed"]
        BY <1>0, <1>10, <2>3, OperationsAssumption
        DEF ProcessRequest, Fulfil, decreaseTaskEvents, TypeOK, TaskTypeOK
      <3>3. TA!Complete(tag[r])
        BY <2>1, <2>3, <3>1, <3>2 DEF TA!Complete, Posted
      <3>4. QED
        BY <2>3, <3>3 DEF TA!Next
    <2>4. CASE tag[r] \in Task /\ ~(status[tag[r]] = "finished" /\ events[tag[r]] = 1)
      <3>1. status' = status
        BY <1>0, <1>10, <2>4, OperationsAssumption
        DEF ProcessRequest, Fulfil, decreaseTaskEvents, TypeOK, TaskTypeOK
      <3>2. QED
        BY <2>1, <3>1
    <2>5. QED
      BY <1>10, <2>2, <2>3, <2>4 DEF ProcessRequest, Fulfil
  <1>11. ASSUME NEW c \in Checker,
                \/ PollQueues(c) \/ RequestWaitError(c) \/ NextQueue(c)
                \/ \E r \in Request : ProcessFailed(c, r)
         PROVE  Unmoved
    BY <1>11 DEF PollQueues, RequestWaitError, NextQueue, MoreQueues, ProcessFailed, Posted
  <1>12. CASE UNCHANGED vars
    BY <1>12, <1>u DEF vars, Posted
  <1>13. QED
    BY <1>u, <1>1, <1>2, <1>3, <1>4, <1>5, <1>6, <1>7, <1>8, <1>9, <1>10, <1>11,
       <1>12, NextCases

\* A task completes, and so releases its dependencies, only after the network
\* has completed every request it posted: the detailed model of the calls and
\* of pollQueues implements the promise of TaskAware.
THEOREM TaskAwareness == Spec => ImplementsTaskAware
  <1>1. Init => TA!Init
    BY DEF Init, TaskInit, TA!Init
  <1>2. QED
    BY <1>1, RefinementStep, Invariance, PTL DEF Spec, ImplementsTaskAware, TA!Spec
=============================================================================
