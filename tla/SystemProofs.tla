---------------------------- MODULE SystemProofs ----------------------------
(***************************************************************************)
(* Proofs about System, from the proofs about its components.  Each        *)
(* component is instantiated with the events that are its own: what is     *)
(* left of the shared counter without the other's.  A step of one          *)
(* component is then a step of its own specification, and a stuttering     *)
(* step of the other's.                                                    *)
(***************************************************************************)
EXTENDS System, Sequences, FiniteSetTheorems, TLAPS

\* The events that are for the requests of task t.
OperationEvents(t) == ocall[t].n + Cardinality(O!InFlight(t))

opEvents == [t \in Task |-> events[t] - N!WaitEvents(t)]
waitEvents == [t \in Task |-> events[t] - OperationEvents(t)]

\* The status a task would have if it had only the events e.
StatusFor(e) ==
    [t \in Task |-> IF status[t] = "running" THEN "running"
                    ELSE IF e[t] = 0 THEN "completed" ELSE "finished"]

opStatus == StatusFor(opEvents)
waitStatus == StatusFor(waitEvents)

\* The components alone.  That the process aborts is no step of theirs.
OP == INSTANCE OperationsProofs WITH
        pc <- opc, call <- ocall, queue <- oqueue, ppc <- oppc,
        events <- opEvents, status <- opStatus, aborted <- FALSE
NP == INSTANCE NotificationsProofs WITH
        pc <- npc, call <- ncall, queue <- nqueue, ppc <- nppc,
        events <- waitEvents, status <- waitStatus, aborted <- FALSE

\* A completed task has no events.
SharedTasks == TaskTypeOK /\ \A t \in Task : status[t] = "completed" => events[t] = 0

IInv == SharedTasks /\ SharedAccounting /\ OP!IInv /\ NP!IInv2

-----------------------------------------------------------------------------

(***************************************************************************)
(* The instances share the operators of FiniteSets and the assumptions.    *)
(***************************************************************************)

\* Finiteness and cardinality mean the same in every instance.
LEMMA SameSets ==
    ASSUME NEW S
    PROVE  /\ O!IsFiniteSet(S) <=> IsFiniteSet(S)
           /\ N!IsFiniteSet(S) <=> IsFiniteSet(S)
           /\ OP!IsFiniteSet(S) <=> IsFiniteSet(S)
           /\ NP!IsFiniteSet(S) <=> IsFiniteSet(S)
           /\ O!Cardinality(S) = Cardinality(S)
           /\ N!Cardinality(S) = Cardinality(S)
           /\ OP!Cardinality(S) = Cardinality(S)
           /\ NP!Cardinality(S) = Cardinality(S)
  BY DEF IsFiniteSet, O!IsFiniteSet, N!IsFiniteSet, OP!IsFiniteSet, NP!IsFiniteSet,
         Cardinality, O!Cardinality, N!Cardinality, OP!Cardinality, NP!Cardinality

\* The assumptions of the components hold of their instances.
LEMMA Assumptions ==
    /\ OP!OperationsAssumption
    /\ OP!QueueCheckersAssumption
    /\ NP!NotificationsAssumption
  BY SystemAssumption, QueueCheckersAssumption, SameSets
  DEF Queue, O!Queue, O!OperationsAssumption, O!SingleOperation, O!ListOperation,
      OP!Queue, OP!OperationsAssumption, OP!SingleOperation, OP!ListOperation,
      OP!QueueCheckersAssumption, N!NotificationsAssumption, NP!NotificationsAssumption

\* The lemmas of the components about their steps.
LEMMA ComponentSteps ==
    /\ OP!IInv /\ [OP!Next]_(OP!vars) => OP!IInv'
    /\ NP!IInv2 /\ [NP!Next]_(NP!vars) => NP!IInv2'
    /\ OP!IInv /\ [OP!Next]_(OP!vars) => [OP!TA!Next]_(OP!TA!vars)
    /\ NP!IInv /\ [NP!Next]_(NP!vars) => [NP!TA!Next]_(NP!TA!vars)
  BY Assumptions, OP!StepIInv, NP!StepIInv, OP!RefinementStep, NP!RefinementStep

-----------------------------------------------------------------------------

(***************************************************************************)
(* The events of each component.                                           *)
(***************************************************************************)

\* An instance counts the same requests and ranges as its component.
LEMMA SameCounts ==
    ASSUME NEW t
    PROVE  /\ OP!InFlight(t) = O!InFlight(t)
           /\ NP!WaitEvents(t) = N!WaitEvents(t)
           /\ NP!RangesOf(t) = N!RangesOf(t)
  <1>1. NP!RangesOf(t) = N!RangesOf(t)
    BY DEF NP!RangesOf, N!RangesOf
  <1>2. \A o : NP!Completing(o) <=> N!Completing(o)
    BY DEF NP!Completing, N!Completing
  <1>3. {o \in NP!RangesOf(t) : ~NP!Completing(o)} = {o \in N!RangesOf(t) : ~N!Completing(o)}
    BY <1>1, <1>2
  <1>4. NP!WaitEvents(t) = N!WaitEvents(t)
    BY <1>3, SameSets DEF NP!WaitEvents, N!WaitEvents
  <1>5. QED
    BY <1>1, <1>4 DEF OP!InFlight, O!InFlight

\* They are natural numbers.
LEMMA CountsNat ==
    ASSUME OP!IInv, NEW t \in Task
    PROVE  OperationEvents(t) \in Nat /\ N!WaitEvents(t) \in Nat
  <1>1. IsFiniteSet(Request) /\ IsFiniteSet(Object)
    BY Assumptions, SameSets DEF OP!OperationsAssumption, NP!NotificationsAssumption
  <1>2. O!InFlight(t) \subseteq Request /\ N!RangesOf(t) \subseteq Object
    BY DEF O!InFlight, N!RangesOf
  <1>3. {o \in N!RangesOf(t) : ~N!Completing(o)} \subseteq Object
    BY <1>2
  <1>4. /\ Cardinality(O!InFlight(t)) \in Nat
        /\ Cardinality({o \in N!RangesOf(t) : ~N!Completing(o)}) \in Nat
    BY <1>1, <1>2, <1>3, FS_Subset, FS_CardinalityType
  <1>5. ocall[t].n \in Nat
    BY DEF OP!IInv, OP!TypeOK
  <1>6. QED
    BY <1>4, <1>5, SameSets DEF OperationEvents, N!WaitEvents

\* With the accounting, the events that are left for a component are its own.
LEMMA Shares ==
    ASSUME IInv, NEW t \in Task
    PROVE  /\ opEvents[t] = OperationEvents(t) /\ OperationEvents(t) \in Nat
           /\ waitEvents[t] = N!WaitEvents(t) /\ N!WaitEvents(t) \in Nat
           /\ events[t] = opEvents[t] + waitEvents[t]
  <1>1. OperationEvents(t) \in Nat /\ N!WaitEvents(t) \in Nat
    BY CountsNat DEF IInv
  <1>2. events[t] = OperationEvents(t) + N!WaitEvents(t)
    BY DEF IInv, SharedAccounting, OperationEvents
  <1>3. QED
    BY <1>1, <1>2 DEF opEvents, waitEvents

\* They change only with the variables they are counted from.
LEMMA CountsUnchanged ==
    /\ UNCHANGED <<ocall, loc, tag>> =>
        \A t \in Task : OperationEvents(t)' = OperationEvents(t)
    /\ UNCHANGED <<npc, pool, range, nppc, completeRanges>> =>
        \A t \in Task : N!WaitEvents(t)' = N!WaitEvents(t)
  BY DEF OperationEvents, O!InFlight, N!WaitEvents, N!RangesOf, N!Completing

-----------------------------------------------------------------------------

(***************************************************************************)
(* What a step does to the tasks, as each component sees it.               *)
(***************************************************************************)

\* A step of the operations leaves the waits, one of the waits the operations.
KeepsWaits == \A u \in Task : N!WaitEvents(u)' = N!WaitEvents(u)
KeepsOperations == \A u \in Task : OperationEvents(u)' = OperationEvents(u)

\* A step of one component keeps what the tasks share, and if it changes the
\* status of a task then it completes one whose body is over and that had events.
TasksKept ==
    /\ SharedTasks'
    /\ \/ status' = status
       \/ \E t \in Task : /\ status[t] = "finished" /\ events[t] # 0
                          /\ status' = [status EXCEPT ![t] = "completed"]

\* A step that leaves the tasks alone.
LEMMA SameTasks ==
    /\ UNCHANGED taskVars /\ KeepsWaits => UNCHANGED <<opEvents, opStatus>>
    /\ UNCHANGED taskVars /\ KeepsOperations => UNCHANGED <<waitEvents, waitStatus>>
  <1>1. UNCHANGED taskVars /\ KeepsWaits => opEvents' = opEvents
    BY DEF taskVars, KeepsWaits, opEvents
  <1>2. UNCHANGED taskVars /\ KeepsOperations => waitEvents' = waitEvents
    BY DEF taskVars, KeepsOperations, waitEvents
  <1>3. QED
    BY <1>1, <1>2 DEF taskVars, opStatus, waitStatus, StatusFor

\* Events raised for a running task are raised for the component that did it.
LEMMA Increase ==
    ASSUME IInv, NEW t \in Task, NEW n \in Nat, status[t] = "running",
           increaseCurrentTaskEvents(t, n)
    PROVE  /\ KeepsWaits => OP!increaseCurrentTaskEvents(t, n)
           /\ KeepsOperations => NP!increaseCurrentTaskEvents(t, n)
           /\ TasksKept
  <1>0. /\ TaskTypeOK /\ \A u \in Task : OperationEvents(u) \in Nat /\ N!WaitEvents(u) \in Nat
        /\ \A u \in Task : status[u] = "completed" => events[u] = 0
    BY Shares DEF IInv, SharedTasks
  <1>1. events' = [events EXCEPT ![t] = events[t] + n] /\ status' = status
    BY DEF increaseCurrentTaskEvents
  <1>2. ASSUME KeepsWaits PROVE OP!increaseCurrentTaskEvents(t, n)
    <2>1. opEvents' = [opEvents EXCEPT ![t] = opEvents[t] + n]
      <3>1. \A u \in Task : /\ opEvents[u] = events[u] - N!WaitEvents(u)
                            /\ opEvents'[u] = events'[u] - N!WaitEvents(u)
        BY <1>2 DEF opEvents, KeepsWaits
      <3>2. \A u \in Task : opEvents'[u] = IF u = t THEN opEvents[t] + n ELSE opEvents[u]
        BY <1>0, <1>1, <3>1 DEF TaskTypeOK
      <3>3. QED
        BY <3>2 DEF opEvents
    <2>2. \A u \in Task : u # t => opEvents'[u] = opEvents[u]
      BY <2>1 DEF opEvents
    <2>3. opStatus' = opStatus
      BY <1>1, <2>2 DEF opStatus, StatusFor
    <2>4. QED
      BY <2>1, <2>3 DEF OP!increaseCurrentTaskEvents
  <1>3. ASSUME KeepsOperations PROVE NP!increaseCurrentTaskEvents(t, n)
    <2>1. waitEvents' = [waitEvents EXCEPT ![t] = waitEvents[t] + n]
      <3>1. \A u \in Task : /\ waitEvents[u] = events[u] - OperationEvents(u)
                            /\ waitEvents'[u] = events'[u] - OperationEvents(u)
        BY <1>3 DEF waitEvents, KeepsOperations
      <3>2. \A u \in Task : waitEvents'[u] = IF u = t THEN waitEvents[t] + n ELSE waitEvents[u]
        BY <1>0, <1>1, <3>1 DEF TaskTypeOK
      <3>3. QED
        BY <3>2 DEF waitEvents
    <2>2. \A u \in Task : u # t => waitEvents'[u] = waitEvents[u]
      BY <2>1 DEF waitEvents
    <2>3. waitStatus' = waitStatus
      BY <1>1, <2>2 DEF waitStatus, StatusFor
    <2>4. QED
      BY <2>1, <2>3 DEF NP!increaseCurrentTaskEvents
  <1>4. SharedTasks'
    BY <1>0, <1>1 DEF SharedTasks, TaskTypeOK
  <1>5. QED
    BY <1>1, <1>2, <1>3, <1>4 DEF TasksKept

\* An event that is fulfilled for a component that has one.
LEMMA Decrease ==
    ASSUME IInv, NEW t \in Task, NEW n \in Nat, decreaseTaskEvents(t, n)
    PROVE  /\ KeepsWaits /\ (status[t] = "running" \/ opEvents[t] # 0)
                => OP!decreaseTaskEvents(t, n)
           /\ KeepsOperations /\ (status[t] = "running" \/ waitEvents[t] # 0)
                => NP!decreaseTaskEvents(t, n)
           /\ status[t] = "running" \/ events[t] # 0 => TasksKept
  <1>0. /\ TaskTypeOK /\ \A u \in Task : OperationEvents(u) \in Nat /\ N!WaitEvents(u) \in Nat
        /\ \A u \in Task : status[u] = "completed" => events[u] = 0
    BY Shares DEF IInv, SharedTasks
  <1>1. /\ events' = [events EXCEPT ![t] = events[t] - n]
        /\ status' = [status EXCEPT ![t] =
                        IF status[t] = "finished" /\ events[t] = n THEN "completed" ELSE status[t]]
    BY DEF decreaseTaskEvents
  <1>r. \A u \in Task : status'[u] = "running" <=> status[u] = "running"
    BY <1>0, <1>1 DEF TaskTypeOK, TaskStatus
  <1>2. ASSUME KeepsWaits, status[t] = "running" \/ opEvents[t] # 0
        PROVE  OP!decreaseTaskEvents(t, n)
    <2>1. opEvents' = [opEvents EXCEPT ![t] = opEvents[t] - n]
      <3>1. \A u \in Task : /\ opEvents[u] = events[u] - N!WaitEvents(u)
                            /\ opEvents'[u] = events'[u] - N!WaitEvents(u)
        BY <1>2 DEF opEvents, KeepsWaits
      <3>2. \A u \in Task : opEvents'[u] = IF u = t THEN opEvents[t] - n ELSE opEvents[u]
        BY <1>0, <1>1, <3>1 DEF TaskTypeOK
      <3>3. QED
        BY <3>2 DEF opEvents
    <2>2. opEvents'[t] = opEvents[t] - n /\ opEvents[t] \in Int
      BY <1>0, <2>1 DEF opEvents, TaskTypeOK
    <2>3. \A u \in Task : u # t => opEvents'[u] = opEvents[u]
      BY <2>1 DEF opEvents
    <2>4. opStatus'[t] = IF opStatus[t] = "finished" /\ opEvents[t] = n
                         THEN "completed" ELSE opStatus[t]
      BY <1>2, <1>r, <2>2 DEF opStatus, StatusFor
    <2>5. \A u \in Task : u # t => opStatus'[u] = opStatus[u]
      BY <1>r, <2>3 DEF opStatus, StatusFor
    <2>6. opStatus' = [opStatus EXCEPT ![t] = IF opStatus[t] = "finished" /\ opEvents[t] = n
                                              THEN "completed" ELSE opStatus[t]]
      BY <2>4, <2>5 DEF opStatus, StatusFor
    <2>7. QED
      BY <2>1, <2>6 DEF OP!decreaseTaskEvents
  <1>3. ASSUME KeepsOperations, status[t] = "running" \/ waitEvents[t] # 0
        PROVE  NP!decreaseTaskEvents(t, n)
    <2>1. waitEvents' = [waitEvents EXCEPT ![t] = waitEvents[t] - n]
      <3>1. \A u \in Task : /\ waitEvents[u] = events[u] - OperationEvents(u)
                            /\ waitEvents'[u] = events'[u] - OperationEvents(u)
        BY <1>3 DEF waitEvents, KeepsOperations
      <3>2. \A u \in Task : waitEvents'[u] = IF u = t THEN waitEvents[t] - n ELSE waitEvents[u]
        BY <1>0, <1>1, <3>1 DEF TaskTypeOK
      <3>3. QED
        BY <3>2 DEF waitEvents
    <2>2. waitEvents'[t] = waitEvents[t] - n /\ waitEvents[t] \in Int
      BY <1>0, <2>1 DEF waitEvents, TaskTypeOK
    <2>3. \A u \in Task : u # t => waitEvents'[u] = waitEvents[u]
      BY <2>1 DEF waitEvents
    <2>4. waitStatus'[t] = IF waitStatus[t] = "finished" /\ waitEvents[t] = n
                           THEN "completed" ELSE waitStatus[t]
      BY <1>3, <1>r, <2>2 DEF waitStatus, StatusFor
    <2>5. \A u \in Task : u # t => waitStatus'[u] = waitStatus[u]
      BY <1>r, <2>3 DEF waitStatus, StatusFor
    <2>6. waitStatus' = [waitStatus EXCEPT ![t] =
                            IF waitStatus[t] = "finished" /\ waitEvents[t] = n
                            THEN "completed" ELSE waitStatus[t]]
      BY <2>4, <2>5 DEF waitStatus, StatusFor
    <2>7. QED
      BY <2>1, <2>6 DEF NP!decreaseTaskEvents
  <1>4. ASSUME status[t] = "running" \/ events[t] # 0 PROVE TasksKept
    <2>1. TaskTypeOK'
      BY <1>0, <1>1 DEF TaskTypeOK, TaskStatus
    <2>2. ASSUME NEW u \in Task, status'[u] = "completed" PROVE events'[u] = 0
      BY <1>0, <1>1, <1>4, <2>2 DEF TaskTypeOK
    <2>3. \/ status' = status
          \/ /\ status[t] = "finished" /\ events[t] # 0
             /\ status' = [status EXCEPT ![t] = "completed"]
      BY <1>0, <1>1, <1>4 DEF TaskTypeOK
    <2>4. QED
      BY <2>1, <2>2, <2>3 DEF SharedTasks, TasksKept
  <1>5. QED
    BY <1>2, <1>3, <1>4

\* The end of a body ends it for both components, each with its own events.
LEMMA Finish ==
    ASSUME IInv, NEW t \in Task, FinishBody(t), KeepsWaits, KeepsOperations
    PROVE  OP!FinishBody(t) /\ NP!FinishBody(t) /\ SharedTasks'
  <1>0. TaskTypeOK /\ \A u \in Task : status[u] = "completed" => events[u] = 0
    BY DEF IInv, SharedTasks
  <1>1. /\ status[t] = "running" /\ events' = events
        /\ status' = [status EXCEPT ![t] = IF events[t] = 0 THEN "completed" ELSE "finished"]
    BY DEF FinishBody
  <1>2. opEvents' = opEvents /\ waitEvents' = waitEvents
    BY <1>1 DEF opEvents, waitEvents, KeepsWaits, KeepsOperations
  <1>3. ASSUME NEW e
        PROVE  [u \in Task |-> IF status'[u] = "running" THEN "running"
                               ELSE IF e[u] = 0 THEN "completed" ELSE "finished"]
                = [StatusFor(e) EXCEPT ![t] = IF e[t] = 0 THEN "completed" ELSE "finished"]
    BY <1>0, <1>1 DEF StatusFor, TaskTypeOK, TaskStatus
  <1>4. /\ opStatus' = [opStatus EXCEPT ![t] = IF opEvents[t] = 0 THEN "completed" ELSE "finished"]
        /\ waitStatus' = [waitStatus EXCEPT ![t] =
                            IF waitEvents[t] = 0 THEN "completed" ELSE "finished"]
    BY <1>2, <1>3 DEF opStatus, waitStatus, StatusFor
  <1>5. opStatus[t] = "running" /\ waitStatus[t] = "running"
    BY <1>1 DEF opStatus, waitStatus, StatusFor
  <1>6. SharedTasks'
    BY <1>0, <1>1 DEF SharedTasks, TaskTypeOK, TaskStatus
  <1>7. QED
    BY <1>1, <1>2, <1>4, <1>5, <1>6 DEF OP!FinishBody, NP!FinishBody

\* A handle is reused when neither component has an event left for it.
LEMMA Reuse ==
    ASSUME IInv, NEW t \in Task, Spawn(t), KeepsWaits, KeepsOperations
    PROVE  OP!Spawn(t) /\ NP!Spawn(t) /\ SharedTasks'
  <1>0. TaskTypeOK /\ \A u \in Task : status[u] = "completed" => events[u] = 0
    BY DEF IInv, SharedTasks
  <1>1. /\ status[t] = "completed" /\ events[t] = 0
        /\ events' = [events EXCEPT ![t] = 0]
        /\ status' = [status EXCEPT ![t] = "running"]
    BY <1>0 DEF Spawn
  <1>2. events' = events
    BY <1>0, <1>1 DEF TaskTypeOK
  <1>3. opEvents' = opEvents /\ waitEvents' = waitEvents
    BY <1>2 DEF opEvents, waitEvents, KeepsWaits, KeepsOperations
  <1>4. opEvents[t] = 0 /\ waitEvents[t] = 0
    BY <1>1, Shares
  <1>5. /\ opEvents' = [opEvents EXCEPT ![t] = 0]
        /\ waitEvents' = [waitEvents EXCEPT ![t] = 0]
    BY <1>3, <1>4 DEF opEvents, waitEvents
  <1>6. opStatus[t] = "completed" /\ waitStatus[t] = "completed"
    BY <1>1, <1>4 DEF opStatus, waitStatus, StatusFor
  <1>7. ASSUME NEW e
        PROVE  [u \in Task |-> IF status'[u] = "running" THEN "running"
                               ELSE IF e[u] = 0 THEN "completed" ELSE "finished"]
                = [StatusFor(e) EXCEPT ![t] = "running"]
    BY <1>0, <1>1 DEF StatusFor, TaskTypeOK
  <1>8. /\ opStatus' = [opStatus EXCEPT ![t] = "running"]
        /\ waitStatus' = [waitStatus EXCEPT ![t] = "running"]
    BY <1>3, <1>7 DEF opStatus, waitStatus, StatusFor
  <1>9. SharedTasks'
    BY <1>0, <1>1 DEF SharedTasks, TaskTypeOK, TaskStatus
  <1>10. QED
    BY <1>5, <1>6, <1>8, <1>9 DEF OP!Spawn, NP!Spawn

-----------------------------------------------------------------------------

(***************************************************************************)
(* A step of the operations is one of the component alone.                 *)
(***************************************************************************)

\* The counts of requests an operation is given are natural numbers.
LEMMA RequestCounts ==
    /\ \A o \in O!SingleOperation : numRequests[o] \in Nat
    /\ \A o \in O!ListOperation, k \in ListSize : listRequests[o][k] \in Nat
  BY SystemAssumption DEF O!OperationsAssumption

\* Calls raise the events of the operations.
LEMMA CallMaps ==
    ASSUME IInv, KeepsWaits, NEW t \in Task, O!TaskCall(t)
    PROVE  OP!TaskCall(t) /\ TasksKept
  <1>1. ASSUME NEW n \in Nat, NEW q \in Queue, O!Issue(t, n, q)
        PROVE  OP!Issue(t, n, q) /\ TasksKept
    <2>1. status[t] = "running" /\ increaseCurrentTaskEvents(t, n)
      BY <1>1 DEF O!Issue, O!increaseCurrentTaskEvents, increaseCurrentTaskEvents
    <2>2. OP!increaseCurrentTaskEvents(t, n) /\ TasksKept /\ opStatus[t] = "running"
      BY <2>1, Increase DEF opStatus, StatusFor
    <2>3. QED
      BY <1>1, <2>2
      DEF O!Issue, OP!Issue, O!gaspiVars, O!pollVars, OP!gaspiVars, OP!pollVars
  <1>2. Queue = O!Queue /\ Queue = OP!Queue
    BY DEF Queue, O!Queue, OP!Queue
  <1>3. /\ {"READ", "WRITE", "NOTIFY", "WRITE_NOTIFY"} \subseteq O!SingleOperation
        /\ {"READ_LIST", "WRITE_LIST", "WRITE_LIST_NOTIFY"} \subseteq O!ListOperation
    BY DEF O!SingleOperation, O!ListOperation
  <1>4. QED
    BY <1>1, <1>2, <1>3, RequestCounts
    DEF O!TaskCall, O!tagaspi_read, O!tagaspi_write, O!tagaspi_notify,
        O!tagaspi_write_notify, O!tagaspi_read_list, O!tagaspi_write_list,
        O!tagaspi_write_list_notify,
        OP!TaskCall, OP!tagaspi_read, OP!tagaspi_write, OP!tagaspi_notify,
        OP!tagaspi_write_notify, OP!tagaspi_read_list, OP!tagaspi_write_list,
        OP!tagaspi_write_list_notify

\* The steps that leave the events alone.
LEMMA QuietOperation ==
    ASSUME IInv, KeepsWaits, UNCHANGED <<opEvents, opStatus>>
    PROVE  /\ \A t \in Task : /\ O!SubmitSucceeds(t) => OP!SubmitSucceeds(t)
                              /\ O!SubmitFails(t) => OP!SubmitFails(t)
           /\ \A r \in Request : /\ \A q \in Queue : O!PlainSubmit(r, q) => OP!PlainSubmit(r, q)
                                 /\ O!RequestDone(r) => OP!RequestDone(r)
                                 /\ O!RequestFails(r) => OP!RequestFails(r)
           /\ \A c \in O!Registered : /\ O!PollQueues(c) => OP!PollQueues(c)
                                      /\ O!RequestWait(c) => OP!RequestWait(c)
                                      /\ O!NextQueue(c) => OP!NextQueue(c)
  <1> USE DEF O!taskVars, O!gaspiVars, O!pollVars, OP!taskVars, OP!gaspiVars, OP!pollVars
  <1>1. ASSUME NEW t \in Task
        PROVE  /\ O!SubmitSucceeds(t) => OP!SubmitSucceeds(t)
               /\ O!SubmitFails(t) => OP!SubmitFails(t)
    BY SameSets
    DEF O!SubmitSucceeds, O!SubmitFails, O!Post, O!FreeRequests, O!NoCall,
        OP!SubmitSucceeds, OP!SubmitFails, OP!Post, OP!FreeRequests, OP!NoCall
  <1>2. ASSUME NEW r \in Request
        PROVE  /\ \A q \in Queue : O!PlainSubmit(r, q) => OP!PlainSubmit(r, q)
               /\ O!RequestDone(r) => OP!RequestDone(r)
               /\ O!RequestFails(r) => OP!RequestFails(r)
    BY DEF O!PlainSubmit, O!RequestDone, O!RequestFails, O!Post, O!FreeRequests,
           OP!PlainSubmit, OP!RequestDone, OP!RequestFails, OP!Post, OP!FreeRequests
  <1>3. ASSUME NEW c \in O!Registered
        PROVE  /\ O!PollQueues(c) => OP!PollQueues(c)
               /\ O!RequestWait(c) => OP!RequestWait(c)
               /\ O!NextQueue(c) => OP!NextQueue(c)
    <2>1. \A d : O!FirstQueue(d) = OP!FirstQueue(d) /\ O!NumQueuesOf(d) = OP!NumQueuesOf(d)
      BY DEF O!FirstQueue, O!NumQueuesOf, O!qppi, O!remq,
             OP!FirstQueue, OP!NumQueuesOf, OP!qppi, OP!remq
    <2>2. O!PollQueues(c) => OP!PollQueues(c)
      BY <2>1 DEF O!PollQueues, OP!PollQueues
    <2>3. O!RequestWait(c) => OP!RequestWait(c)
      <3>1. ASSUME NEW S
            PROVE  /\ O!BatchFits(S) <=> OP!BatchFits(S)
                   /\ O!Reap(c, S) <=> OP!Reap(c, S)
        <4>1. O!Cardinality(S) = OP!Cardinality(S)
          BY SameSets
        <4>2. QED
          BY <4>1 DEF O!BatchFits, O!Reap, OP!BatchFits, OP!Reap
      <3>2. O!Completed(pqueue[c]) = OP!Completed(pqueue[c])
        BY DEF O!Completed, OP!Completed
      <3>3. QED
        BY <3>1, <3>2 DEF O!RequestWait, OP!RequestWait
    <2>4. O!NextQueue(c) => OP!NextQueue(c)
      BY <2>1 DEF O!NextQueue, O!MoreQueues, OP!NextQueue, OP!MoreQueues
    <2>5. QED
      BY <2>2, <2>3, <2>4
  <1>4. QED
    BY <1>1, <1>2, <1>3

\* The steps that fulfil events: the task has an event of the operations, or it
\* is still in the call that gives its events back.
LEMMA Fulfils ==
    ASSUME IInv, KeepsWaits
    PROVE  /\ \A t \in Task : O!Rollback(t) => OP!Rollback(t) /\ TasksKept
           /\ \A c \in O!Registered, r \in Request :
                O!ProcessRequest(c, r) => OP!ProcessRequest(c, r) /\ TasksKept
  <1>0. OP!IInv /\ OP!TypeOK /\ OP!CallInv
    BY DEF IInv, OP!IInv
  <1> USE DEF O!taskVars, O!gaspiVars, O!pollVars, OP!taskVars, OP!gaspiVars, OP!pollVars
  <1>1. ASSUME NEW t \in Task, O!Rollback(t) PROVE OP!Rollback(t) /\ TasksKept
    <2>1. ocall[t].n \in Nat
      BY <1>0 DEF OP!TypeOK
    <2>2. opStatus[t] = "running"
      BY <1>0, <1>1 DEF O!Rollback, OP!CallInv
    <2>3. status[t] = "running"
      BY <2>2 DEF opStatus, StatusFor
    <2>4. decreaseTaskEvents(t, ocall[t].n)
      BY <1>1 DEF O!Rollback, O!GiveBack, O!decreaseTaskEvents, decreaseTaskEvents
    <2>5. OP!decreaseTaskEvents(t, ocall[t].n) /\ TasksKept
      BY <2>1, <2>3, <2>4, Decrease
    <2>6. QED
      BY <1>1, <2>5 DEF O!Rollback, OP!Rollback, OP!GiveBack, O!NoCall, OP!NoCall
  <1>2. ASSUME NEW c \in O!Registered, NEW r \in Request, O!ProcessRequest(c, r)
        PROVE  OP!ProcessRequest(c, r) /\ TasksKept
    <2>1. OP!Fulfil(c, r) /\ TasksKept
      <3>1. CASE tag[r] = GASPI_TAG_NULL
        <4>1. UNCHANGED taskVars
          BY <1>2, <3>1, SystemAssumption
          DEF O!ProcessRequest, O!Fulfil, taskVars, O!OperationsAssumption
        <4>2. UNCHANGED <<opEvents, opStatus>>
          BY <4>1, SameTasks
        <4>3. TasksKept
          BY <4>1 DEF IInv, SharedTasks, TaskTypeOK, taskVars, TasksKept
        <4>4. QED
          BY <3>1, <4>2, <4>3 DEF OP!Fulfil
      <3>2. CASE tag[r] # GASPI_TAG_NULL
        <4>1. tag[r] \in Task /\ O!decreaseTaskEvents(tag[r], 1)
          BY <1>2, <3>2 DEF O!ProcessRequest, O!Fulfil
        <4>2. decreaseTaskEvents(tag[r], 1)
          BY <4>1 DEF O!decreaseTaskEvents, decreaseTaskEvents
        <4>3. r \in batch[c] /\ c \in OP!Checker
          BY <1>2 DEF O!ProcessRequest, O!Registered, O!Checker, OP!Checker
        <4>4. r \in OP!InFlight(tag[r])
          BY <1>0, <4>1, <4>3, Assumptions, OP!BatchInFlight
        <4>5. opEvents[tag[r]] > 0
          BY <1>0, <4>1, <4>4, Assumptions, OP!InFlightPositive
        <4>6. opEvents[tag[r]] # 0 /\ events[tag[r]] # 0
          BY <4>1, <4>5, Shares
        <4>7. OP!decreaseTaskEvents(tag[r], 1) /\ TasksKept
          BY <4>1, <4>2, <4>6, Decrease
        <4>8. QED
          BY <4>1, <4>7 DEF OP!Fulfil
      <3>3. QED
        BY <3>1, <3>2
    <2>2. QED
      BY <1>2, <2>1 DEF O!ProcessRequest, OP!ProcessRequest, O!Release, OP!Release
  <1>3. QED
    BY <1>1, <1>2

\* Every step of the operations, as the component alone takes it.
LEMMA OperationsMaps ==
    ASSUME IInv, OperationsStep
    PROVE  [OP!Next]_(OP!vars) /\ TasksKept
  <1>1. KeepsWaits
    BY CountsUnchanged DEF OperationsStep, notificationsVars, KeepsWaits
  <1>q. ASSUME UNCHANGED taskVars PROVE UNCHANGED <<opEvents, opStatus>> /\ TasksKept
    BY <1>1, <1>q, SameTasks DEF IInv, SharedTasks, TaskTypeOK, taskVars, TasksKept
  <1>r. O!Registered = OP!Registered
    BY DEF O!Registered, O!Checker, O!NumQueuesOf, O!qppi, O!remq,
           OP!Registered, OP!Checker, OP!NumQueuesOf, OP!qppi, OP!remq
  <1>k. Queue = OP!Queue
    BY DEF Queue, OP!Queue
  <1>2. ASSUME NEW t \in Task, O!TaskCall(t) PROVE OP!Next /\ TasksKept
    BY <1>1, <1>2, CallMaps DEF OP!Next
  <1>3. ASSUME NEW t \in Task, O!SubmitSucceeds(t) \/ O!SubmitFails(t)
        PROVE  OP!Next /\ TasksKept
    <2>1. UNCHANGED taskVars
      BY <1>3 DEF O!SubmitSucceeds, O!SubmitFails, O!taskVars, taskVars
    <2>2. QED
      BY <1>1, <1>3, <1>q, <2>1, QuietOperation DEF OP!Next
  <1>4. ASSUME NEW t \in Task, O!Rollback(t) PROVE OP!Next /\ TasksKept
    BY <1>1, <1>4, Fulfils DEF OP!Next
  <1>5. ASSUME NEW r \in Request,
               (\E q \in Queue : O!PlainSubmit(r, q)) \/ O!RequestDone(r) \/ O!RequestFails(r)
        PROVE  OP!Next /\ TasksKept
    <2>1. UNCHANGED taskVars
      BY <1>5 DEF O!PlainSubmit, O!RequestDone, O!RequestFails, O!taskVars, taskVars
    <2>2. QED
      BY <1>1, <1>5, <1>k, <1>q, <2>1, QuietOperation DEF OP!Next
  <1>6. ASSUME NEW c \in O!Registered, O!PollQueues(c) \/ O!RequestWait(c) \/ O!NextQueue(c)
        PROVE  OP!Next /\ TasksKept
    <2>1. UNCHANGED taskVars
      BY <1>6 DEF O!PollQueues, O!RequestWait, O!NextQueue, O!taskVars, taskVars
    <2>2. QED
      BY <1>1, <1>6, <1>q, <1>r, <2>1, QuietOperation DEF OP!Next, OP!Poller
  <1>7. ASSUME NEW c \in O!Registered, NEW r \in Request, O!ProcessRequest(c, r)
        PROVE  OP!Next /\ TasksKept
    BY <1>1, <1>7, <1>r, Fulfils DEF OP!Next, OP!Poller
  <1>8. ASSUME NEW c \in O!Registered,
               O!RequestWaitError(c) \/ \E r \in Request : O!ProcessFailed(c, r)
        PROVE  UNCHANGED OP!vars /\ TasksKept
    <2>1. UNCHANGED <<taskVars, operationsVars>>
      BY <1>8 DEF O!RequestWaitError, O!ProcessFailed, O!taskVars, O!gaspiVars, O!pollVars,
                  taskVars, operationsVars
    <2>2. QED
      BY <1>q, <2>1 DEF OP!vars, OP!taskVars, OP!gaspiVars, OP!pollVars, operationsVars
  <1>9. QED
    BY <1>2, <1>3, <1>4, <1>5, <1>6, <1>7, <1>8 DEF OperationsStep, O!Poller

-----------------------------------------------------------------------------

(***************************************************************************)
(* A step of the waits is one of the component alone.                      *)
(***************************************************************************)

\* The sets of segments, ids and keys, and what a wait refers to.
LEMMA SameNames ==
    /\ N!Segment = NP!Segment /\ N!Id = NP!Id /\ N!Key = NP!Key
    /\ N!NoRange = NP!NoRange /\ N!NoValues = NP!NoValues
    /\ \A w : N!Keys(w) = NP!Keys(w) /\ N!Notified(w) = NP!Notified(w)
    /\ \A t : N!RangesOf(t) = NP!RangesOf(t)
    /\ N!ConsumedKeys = NP!ConsumedKeys
    /\ N!FreeCPU <=> NP!FreeCPU
    /\ N!MoreSegments <=> NP!MoreSegments
  <1>1. N!Segment = NP!Segment /\ N!Id = NP!Id /\ N!Key = NP!Key
    BY DEF N!Segment, N!Id, N!Key, NP!Segment, NP!Id, NP!Key
  <1>2. N!NoRange = NP!NoRange /\ N!NoValues = NP!NoValues
    BY <1>1 DEF N!NoRange, N!NoValues, NP!NoRange, NP!NoValues
  <1>3. \A w : N!Keys(w) = NP!Keys(w)
    BY DEF N!Keys, NP!Keys
  <1>4. \A w : N!Notified(w) = NP!Notified(w)
    BY <1>3 DEF N!Notified, NP!Notified
  <1>5. N!ConsumedKeys = NP!ConsumedKeys
    BY DEF N!ConsumedKeys, NP!ConsumedKeys
  <1>6. N!FreeCPU <=> NP!FreeCPU
    BY SameSets DEF N!FreeCPU, NP!FreeCPU
  <1>7. \A t : N!RangesOf(t) = NP!RangesOf(t)
    BY SameCounts
  <1>8. QED
    BY <1>1, <1>2, <1>3, <1>4, <1>5, <1>6, <1>7 DEF N!MoreSegments, NP!MoreSegments

\* The steps of a call that leave the events alone.
LEMMA QuietCall ==
    ASSUME UNCHANGED <<waitEvents, waitStatus>>, NEW t \in Task
    PROVE  /\ N!TaskCall(t) => NP!TaskCall(t)
           /\ N!TestNotification(t) => NP!TestNotification(t)
           /\ N!ResetNotification(t) => NP!ResetNotification(t)
           /\ N!Allocate(t) => NP!Allocate(t)
           /\ N!Lock(t) => NP!Lock(t)
           /\ N!Push(t) => NP!Push(t)
           /\ N!Unlock(t) => NP!Unlock(t)
  <1> USE SameNames
      DEF N!taskVars, N!callVars, N!gaspiVars, N!rangeVars, N!pollVars, N!outVars,
          NP!taskVars, NP!callVars, NP!gaspiVars, NP!rangeVars, NP!pollVars, NP!outVars
  <1>1. N!TaskCall(t) => NP!TaskCall(t)
    <2>1. ASSUME NEW w, N!Wait(t, w) PROVE NP!Wait(t, w)
      <3>1. waitStatus[t] = "running"
        BY <2>1 DEF N!Wait, waitStatus, StatusFor
      <3>2. w.buf => NP!ArrayFree(t, w)
        BY <2>1 DEF N!Wait, N!ArrayFree, NP!ArrayFree
      <3>3. QED
        BY <2>1, <3>1, <3>2 DEF N!Wait, NP!Wait
    <2>2. QED
      BY <2>1 DEF N!TaskCall, N!tagaspi_notify_async_wait, N!tagaspi_notify_async_waitall,
                  NP!TaskCall, NP!tagaspi_notify_async_wait, NP!tagaspi_notify_async_waitall
  <1>2. N!TestNotification(t) => NP!TestNotification(t)
    BY DEF N!TestNotification, NP!TestNotification
  <1>3. N!ResetNotification(t) => NP!ResetNotification(t)
    BY DEF N!ResetNotification, N!IsNotified, N!Got, N!Consume, N!Deliver,
           NP!ResetNotification, NP!IsNotified, NP!Got, NP!Consume, NP!Deliver
  <1>4. N!Allocate(t) => NP!Allocate(t)
    BY DEF N!Allocate, NP!Allocate
  <1>5. N!Lock(t) => NP!Lock(t)
    BY DEF N!Lock, NP!Lock
  <1>6. N!Push(t) => NP!Push(t)
    BY DEF N!Push, NP!Push
  <1>7. N!Unlock(t) => NP!Unlock(t)
    BY DEF N!Unlock, N!unlock, NP!Unlock, NP!unlock
  <1>8. QED
    BY <1>1, <1>2, <1>3, <1>4, <1>5, <1>6, <1>7

\* The steps of GASPI and of the polling task that leave the events alone.
LEMMA QuietPoll ==
    ASSUME UNCHANGED <<waitEvents, waitStatus>>
    PROVE  /\ \A k \in N!Key, v \in Value :
                N!NotificationArrives(k, v) => NP!NotificationArrives(k, v)
           /\ N!PollNotifications => NP!PollNotifications
           /\ N!DequeueAll => NP!DequeueAll
           /\ N!CheckRange => NP!CheckRange
           /\ N!ResetRange => NP!ResetRange
           /\ N!FreeRange => NP!FreeRange
  <1> USE SameNames
      DEF N!taskVars, N!callVars, N!gaspiVars, N!rangeVars, N!pollVars, N!outVars,
          NP!taskVars, NP!callVars, NP!gaspiVars, NP!rangeVars, NP!pollVars, NP!outVars
  <1>1. ASSUME NEW k \in N!Key, NEW v \in Value, N!NotificationArrives(k, v)
        PROVE  NP!NotificationArrives(k, v)
    BY <1>1 DEF N!NotificationArrives, NP!NotificationArrives
  <1>2. N!PollNotifications => NP!PollNotifications
    BY DEF N!PollNotifications, NP!PollNotifications
  <1>3. N!DequeueAll => NP!DequeueAll
    BY DEF N!DequeueAll, NP!DequeueAll
  <1>u. \A o : N!Unfinished(o) <=> NP!Unfinished(o)
    BY DEF N!Unfinished, NP!Unfinished
  <1>4. N!CheckRange => NP!CheckRange
    BY <1>u DEF N!CheckRange, NP!CheckRange
  <1>5. N!ResetRange => NP!ResetRange
    <2>1. \A o, k : N!Count(o, k) <=> NP!Count(o, k)
      BY DEF N!Count, N!Got, N!Deliver, N!LastOf, N!Erase,
             NP!Count, NP!Got, NP!Deliver, NP!LastOf, NP!Erase
    <2>2. \A k : N!Consume(k) <=> NP!Consume(k)
      BY DEF N!Consume, NP!Consume
    <2>3. QED
      BY <1>u, <2>1, <2>2 DEF N!ResetRange, N!IsNotified, NP!ResetRange, NP!IsNotified
  <1>6. N!FreeRange => NP!FreeRange
    BY DEF N!FreeRange, N!free, NP!FreeRange, NP!free
  <1>7. QED
    BY <1>1, <1>2, <1>3, <1>4, <1>5, <1>6

\* The steps of the waits that change the events: a call raises one, and the
\* polling task fulfils one for a range whose task still has it.
LEMMA WaitsEvents ==
    ASSUME IInv, KeepsOperations
    PROVE  /\ \A t \in Task : N!IncreaseEvents(t) => NP!IncreaseEvents(t) /\ TasksKept
           /\ N!CompleteRange => NP!CompleteRange /\ TasksKept
  <1>0. /\ NP!IInv /\ NP!TypeOK /\ NP!CallInv /\ NP!RangeInv /\ NP!PollInv
        /\ \A u \in Task : waitEvents[u] = N!WaitEvents(u)
    BY Shares DEF IInv, NP!IInv2, NP!IInv
  <1> USE DEF N!taskVars, N!callVars, N!gaspiVars, N!rangeVars, N!pollVars, N!outVars,
              NP!taskVars, NP!callVars, NP!gaspiVars, NP!rangeVars, NP!pollVars, NP!outVars
  <1>1. ASSUME NEW t \in Task, N!IncreaseEvents(t) PROVE NP!IncreaseEvents(t) /\ TasksKept
    <2>1. waitStatus[t] = "running"
      BY <1>0, <1>1 DEF N!IncreaseEvents, NP!CallInv, NP!CallOK
    <2>2. status[t] = "running"
      BY <2>1 DEF waitStatus, StatusFor
    <2>3. increaseCurrentTaskEvents(t, 1)
      BY <1>1 DEF N!IncreaseEvents, N!increaseCurrentTaskEvents, increaseCurrentTaskEvents
    <2>4. NP!increaseCurrentTaskEvents(t, 1) /\ TasksKept
      BY <2>2, <2>3, Increase
    <2>5. QED
      BY <1>1, <2>4 DEF N!IncreaseEvents, NP!IncreaseEvents
  <1>2. ASSUME N!CompleteRange PROVE NP!CompleteRange /\ TasksKept
    <2>1. CASE completeRanges = <<>>
      <3>1. UNCHANGED taskVars
        BY <1>2, <2>1 DEF N!CompleteRange, taskVars
      <3>2. UNCHANGED <<waitEvents, waitStatus>>
        BY <3>1, SameTasks
      <3>3. TasksKept
        BY <3>1 DEF IInv, SharedTasks, TaskTypeOK, taskVars, TasksKept
      <3>4. NP!CompleteRange
        BY <1>2, <2>1, <3>2, SameNames DEF N!CompleteRange, NP!CompleteRange
      <3>5. QED
        BY <3>3, <3>4
    <2>2. CASE completeRanges # <<>>
      <3> DEFINE o == Head(completeRanges)
                 t == range[o].task
      <3>1. o \in Object \ pool /\ t \in Task
        BY <1>0, <2>2, Assumptions, NP!FirstComplete DEF NP!RangeInv, NP!IInv
      <3>2. nppc = "complete" /\ N!complete(o)
        BY <1>2, <2>2 DEF N!CompleteRange
      <3>3. decreaseTaskEvents(t, 1)
        BY <3>2 DEF N!complete, N!decreaseTaskEvents, decreaseTaskEvents
      <3>4. waitEvents[t] # 0
        <4> DEFINE U == {p \in N!RangesOf(t) : ~N!Completing(p)}
        <4>1. o \in U
          BY <3>1, <3>2 DEF N!RangesOf, N!Completing
        <4>2. U \subseteq Object
          BY DEF N!RangesOf
        <4>3. IsFiniteSet(U)
          BY <4>2, Assumptions, SameSets, FS_Subset DEF NP!NotificationsAssumption
        <4>4. Cardinality(U) \in Nat /\ Cardinality(U) # 0
          BY <4>1, <4>3, FS_CardinalityType, FS_EmptySet
        <4>5. N!WaitEvents(t) = Cardinality(U) + (IF npc[t] = "allocate" THEN 1 ELSE 0)
          BY SameSets DEF N!WaitEvents
        <4>6. QED
          BY <1>0, <3>1, <4>4, <4>5
      <3>5. events[t] # 0
        BY <3>1, <3>4, Shares
      <3>6. NP!decreaseTaskEvents(t, 1) /\ TasksKept
        BY <3>1, <3>3, <3>4, <3>5, Decrease
      <3>7. QED
        BY <1>2, <2>2, <3>6 DEF N!CompleteRange, NP!CompleteRange, NP!complete
    <2>3. QED
      BY <2>1, <2>2
  <1>3. QED
    BY <1>1, <1>2

\* Every step of the waits, as the component alone takes it.
LEMMA NotificationsMaps ==
    ASSUME IInv, NotificationsStep
    PROVE  [NP!Next]_(NP!vars) /\ TasksKept
  <1>1. KeepsOperations
    BY CountsUnchanged DEF NotificationsStep, operationsVars, KeepsOperations
  <1>q. ASSUME UNCHANGED taskVars PROVE UNCHANGED <<waitEvents, waitStatus>> /\ TasksKept
    BY <1>1, <1>q, SameTasks DEF IInv, SharedTasks, TaskTypeOK, taskVars, TasksKept
  <1>a. NP!Alive
    BY DEF NP!Alive
  <1>2. ASSUME NEW t \in Task, \/ N!TaskCall(t) \/ N!TestNotification(t)
                               \/ N!ResetNotification(t) \/ N!Allocate(t) \/ N!Lock(t)
                               \/ N!Push(t) \/ N!Unlock(t)
        PROVE  NP!Next /\ TasksKept
    <2>1. UNCHANGED taskVars
      <3>1. N!TaskCall(t) => UNCHANGED taskVars
        <4>1. \A w : N!Wait(t, w) => UNCHANGED taskVars
          BY DEF N!Wait, N!taskVars, taskVars
        <4>2. QED
          BY <4>1, Zenon DEF N!TaskCall, N!tagaspi_notify_async_wait,
                             N!tagaspi_notify_async_waitall
      <3>2. N!TestNotification(t) \/ N!ResetNotification(t) => UNCHANGED taskVars
        BY DEF N!TestNotification, N!ResetNotification, N!taskVars, taskVars
      <3>3. N!Allocate(t) \/ N!Lock(t) \/ N!Push(t) \/ N!Unlock(t) => UNCHANGED taskVars
        BY DEF N!Allocate, N!Lock, N!Push, N!Unlock, N!taskVars, taskVars
      <3>4. QED
        BY <1>2, <3>1, <3>2, <3>3
    <2>2. \/ NP!TaskCall(t) \/ NP!TestNotification(t)
          \/ NP!ResetNotification(t) \/ NP!Allocate(t) \/ NP!Lock(t)
          \/ NP!Push(t) \/ NP!Unlock(t)
      BY <1>2, <1>q, <2>1, QuietCall
    <2>3. QED
      BY <1>a, <1>q, <2>1, <2>2 DEF NP!Next, NP!TaskStep
  <1>3. ASSUME NEW t \in Task, N!IncreaseEvents(t) PROVE NP!Next /\ TasksKept
    BY <1>1, <1>3, <1>a, WaitsEvents DEF NP!Next, NP!TaskStep
  <1>4. ASSUME NEW k \in N!Key, NEW v \in Value, N!NotificationArrives(k, v)
        PROVE  NP!Next /\ TasksKept
    <2>1. UNCHANGED taskVars
      BY <1>4 DEF N!NotificationArrives, N!taskVars, taskVars
    <2>2. NP!NotificationArrives(k, v) /\ k \in NP!Key
      BY <1>4, <1>q, <2>1, QuietPoll, SameNames
    <2>3. QED
      BY <1>a, <1>q, <2>1, <2>2 DEF NP!Next
  <1>5. ASSUME \/ N!PollNotifications \/ N!DequeueAll \/ N!CheckRange \/ N!ResetRange
               \/ N!FreeRange
        PROVE  NP!Next /\ TasksKept
    <2>1. UNCHANGED taskVars
      BY <1>5 DEF N!PollNotifications, N!DequeueAll, N!CheckRange, N!ResetRange, N!FreeRange,
                  N!taskVars, taskVars
    <2>2. QED
      BY <1>5, <1>a, <1>q, <2>1, QuietPoll DEF NP!Next, NP!Poller
  <1>6. ASSUME N!CompleteRange PROVE NP!Next /\ TasksKept
    BY <1>1, <1>6, <1>a, WaitsEvents DEF NP!Next, NP!Poller
  <1>7. ASSUME N!NotificationError PROVE UNCHANGED NP!vars /\ TasksKept
    <2>1. UNCHANGED <<taskVars, notificationsVars>>
      BY <1>7 DEF N!NotificationError, N!taskVars, N!callVars, N!gaspiVars, N!rangeVars,
                  N!pollVars, N!outVars, taskVars, notificationsVars
    <2>2. QED
      BY <1>q, <2>1 DEF NP!vars, NP!taskVars, NP!callVars, NP!gaspiVars, NP!rangeVars,
                        NP!pollVars, NP!outVars, notificationsVars
  <1>8. QED
    BY <1>2, <1>3, <1>4, <1>5, <1>6, <1>7 DEF NotificationsStep, N!TaskStep, N!Poller

-----------------------------------------------------------------------------

(***************************************************************************)
(* The invariant of the system.                                            *)
(***************************************************************************)

OperationsExact == \A t \in Task : opEvents[t] = OperationEvents(t) /\ OperationEvents(t) \in Nat
WaitsExact == \A t \in Task : waitEvents[t] = N!WaitEvents(t)

\* The events each component sees are those its invariant accounts for.
LEMMA ComponentsExact == (OP!IInv => OperationsExact) /\ (NP!IInv2 => WaitsExact)
  <1>1. ASSUME OP!IInv PROVE OperationsExact
    <2>1. \A t \in Task : opEvents[t] = ocall[t].n + OP!Cardinality(OP!InFlight(t))
      BY <1>1 DEF OP!IInv, OP!EventAccounting
    <2>2. QED
      BY <1>1, <2>1, CountsNat, SameCounts, SameSets DEF OperationEvents, OperationsExact
  <1>2. ASSUME NP!IInv2 PROVE WaitsExact
    BY <1>2, SameCounts DEF NP!IInv2, NP!IInv, NP!EventInv, NP!WaitAccounting, WaitsExact
  <1>3. QED
    BY <1>1, <1>2

\* The same after a step.
LEMMA ComponentsExactNext == (OP!IInv' => OperationsExact') /\ (NP!IInv2' => WaitsExact')
  BY ComponentsExact, PTL

\* The component that does not move sees its own events unchanged.
LEMMA OtherStutters ==
    ASSUME IInv, TasksKept
    PROVE  /\ UNCHANGED notificationsVars /\ OP!IInv' =>
                UNCHANGED NP!vars /\ SharedAccounting'
           /\ UNCHANGED operationsVars /\ NP!IInv2' =>
                UNCHANGED OP!vars /\ SharedAccounting'
  <1>0. \A t \in Task :
            /\ opEvents[t] = OperationEvents(t) /\ OperationEvents(t) \in Nat
            /\ waitEvents[t] = N!WaitEvents(t) /\ N!WaitEvents(t) \in Nat
    BY Shares
  <1>r. \A t \in Task : status'[t] = "running" <=> status[t] = "running"
    BY DEF TasksKept, IInv, SharedTasks, TaskTypeOK
  <1>e. \A t \in Task :
            /\ events'[t] \in Int
            /\ opEvents'[t] = events'[t] - N!WaitEvents(t)'
            /\ waitEvents'[t] = events'[t] - OperationEvents(t)'
    BY DEF TasksKept, SharedTasks, TaskTypeOK, opEvents, waitEvents
  <1>1. ASSUME UNCHANGED notificationsVars, OP!IInv'
        PROVE  UNCHANGED NP!vars /\ SharedAccounting'
    <2>1. KeepsWaits
      BY <1>1, CountsUnchanged DEF notificationsVars, KeepsWaits
    <2>3. \A t \in Task : opEvents'[t] = OperationEvents(t)' /\ OperationEvents(t)' \in Nat
      BY <1>1, ComponentsExactNext DEF OperationsExact
    <2>4. \A t \in Task : events'[t] = OperationEvents(t)' + N!WaitEvents(t)'
      BY <1>0, <1>e, <2>1, <2>3 DEF KeepsWaits
    <2>5. \A t \in Task : waitEvents'[t] = waitEvents[t]
      BY <1>0, <1>e, <2>1, <2>3, <2>4 DEF KeepsWaits
    <2>6. waitEvents' = waitEvents
      BY <2>5 DEF waitEvents
    <2>7. waitStatus' = waitStatus
      BY <1>r, <2>6 DEF waitStatus, StatusFor
    <2>8. QED
      BY <1>1, <2>4, <2>6, <2>7
      DEF SharedAccounting, OperationEvents, notificationsVars, NP!vars, NP!taskVars,
          NP!callVars, NP!gaspiVars, NP!rangeVars, NP!pollVars, NP!outVars
  <1>2. ASSUME UNCHANGED operationsVars, NP!IInv2'
        PROVE  UNCHANGED OP!vars /\ SharedAccounting'
    <2>1. KeepsOperations
      BY <1>2, CountsUnchanged DEF operationsVars, KeepsOperations
    <2>3. \A t \in Task : waitEvents'[t] = N!WaitEvents(t)'
      BY <1>2, ComponentsExactNext DEF WaitsExact
    <2>4. \A t \in Task : events'[t] = OperationEvents(t)' + N!WaitEvents(t)'
      BY <1>0, <1>e, <2>1, <2>3 DEF KeepsOperations
    <2>5. \A t \in Task : opEvents'[t] = opEvents[t]
      BY <1>0, <1>e, <2>1, <2>3, <2>4 DEF KeepsOperations
    <2>6. opEvents' = opEvents
      BY <2>5 DEF opEvents
    <2>7. opStatus' = opStatus
      BY <1>r, <2>6 DEF opStatus, StatusFor
    <2>8. QED
      BY <1>2, <2>4, <2>6, <2>7
      DEF SharedAccounting, OperationEvents, operationsVars, OP!vars, OP!taskVars,
          OP!gaspiVars, OP!pollVars
  <1>3. QED
    BY <1>1, <1>2

\* The invariant holds initially: nobody has events.
LEMMA InitIInv == Init => IInv
  <1> SUFFICES ASSUME Init PROVE IInv
    OBVIOUS
  <1>1. /\ status = [t \in Task |-> "running"] /\ events = [t \in Task |-> 0]
        /\ ocall = [t \in Task |-> O!NoCall] /\ loc = [r \in Request |-> "free"]
        /\ npc = [t \in Task |-> "body"] /\ pool = Object
    BY DEF Init, O!Init, O!TaskInit, N!Init
  <1>2. \A t \in Task : O!InFlight(t) = {} /\ N!RangesOf(t) = {}
    BY <1>1 DEF O!InFlight, N!RangesOf
  <1>3. Cardinality({}) = 0
    BY FS_EmptySet
  <1>4. \A t \in Task : OperationEvents(t) = 0
    <2> SUFFICES ASSUME NEW t \in Task PROVE OperationEvents(t) = 0
      OBVIOUS
    <2>1. ocall[t].n = 0
      BY <1>1 DEF O!NoCall
    <2>2. Cardinality(O!InFlight(t)) = 0
      BY <1>2, <1>3, Zenon
    <2>3. QED
      BY <2>1, <2>2 DEF OperationEvents
  <1>5. \A t \in Task : N!WaitEvents(t) = 0
    <2> SUFFICES ASSUME NEW t \in Task PROVE N!WaitEvents(t) = 0
      OBVIOUS
    <2>1. {o \in N!RangesOf(t) : ~N!Completing(o)} = {}
      BY <1>2
    <2>2. QED
      BY <1>1, <1>3, <2>1, SameSets DEF N!WaitEvents
  <1>6. opEvents = [t \in Task |-> 0] /\ waitEvents = [t \in Task |-> 0]
    BY <1>1, <1>4, <1>5 DEF opEvents, waitEvents
  <1>7. opStatus = [t \in Task |-> "running"] /\ waitStatus = [t \in Task |-> "running"]
    BY <1>1 DEF opStatus, waitStatus, StatusFor
  <1>8. OP!Init
    <2>1. \A c : O!FirstQueue(c) = OP!FirstQueue(c)
      BY DEF O!FirstQueue, O!qppi, O!remq, OP!FirstQueue, OP!qppi, OP!remq
    <2>2. QED
      BY <1>6, <1>7, <2>1 DEF Init, O!Init, O!NoCall, O!Checker,
                              OP!Init, OP!TaskInit, OP!NoCall, OP!Checker
  <1>9. NP!Init
    BY <1>6, <1>7, SameNames DEF Init, N!Init, NP!Init, NP!TaskInit
  <1>10. OP!IInv /\ NP!IInv2
    BY <1>8, <1>9, Assumptions, OP!InitIInv, NP!InitIInv
  <1>11. SharedTasks
    BY <1>1 DEF SharedTasks, TaskTypeOK, TaskStatus
  <1>12. SharedAccounting
    <2>1. ASSUME NEW t \in Task PROVE events[t] = OperationEvents(t) + N!WaitEvents(t)
      <3>1. events[t] = 0 /\ OperationEvents(t) = 0 /\ N!WaitEvents(t) = 0
        BY <1>1, <1>4, <1>5
      <3>2. QED
        BY <3>1
    <2>2. QED
      BY <2>1 DEF SharedAccounting, OperationEvents
  <1>13. QED
    BY <1>10, <1>11, <1>12 DEF IInv

\* The steps that both components take together.
LEMMA JointSteps ==
    ASSUME IInv, NEW t \in Task, EndTask(t) \/ SpawnTask(t)
    PROVE  OP!Next /\ NP!Next /\ SharedTasks'
  <1> USE DEF O!gaspiVars, O!pollVars, OP!gaspiVars, OP!pollVars,
              N!callVars, N!gaspiVars, N!rangeVars, N!pollVars,
              NP!callVars, NP!gaspiVars, NP!rangeVars, NP!pollVars
  <1>0. NP!Alive
    BY DEF NP!Alive
  <1>1. CASE EndTask(t)
    <2>1. KeepsWaits /\ KeepsOperations
      BY <1>1, CountsUnchanged
      DEF EndTask, O!EndTask, N!EndTask, KeepsWaits, KeepsOperations
    <2>2. FinishBody(t)
      BY <1>1 DEF EndTask, O!EndTask, O!FinishBody, FinishBody
    <2>3. OP!FinishBody(t) /\ NP!FinishBody(t) /\ SharedTasks'
      BY <2>1, <2>2, Finish
    <2>4. OP!EndTask(t)
      BY <1>1, <2>3 DEF EndTask, O!EndTask, OP!EndTask
    <2>5. NP!EndTask(t)
      BY <1>1, <2>3 DEF EndTask, N!EndTask, N!outVars, NP!EndTask, NP!outVars
    <2>6. QED
      BY <1>0, <2>3, <2>4, <2>5 DEF OP!Next, NP!Next
  <1>2. CASE SpawnTask(t)
    <2>1. KeepsWaits /\ KeepsOperations
      BY <1>2, CountsUnchanged
      DEF SpawnTask, O!SpawnTask, N!SpawnTask, KeepsWaits, KeepsOperations
    <2>2. Spawn(t)
      BY <1>2 DEF SpawnTask, O!SpawnTask, O!Spawn, Spawn
    <2>3. OP!Spawn(t) /\ NP!Spawn(t) /\ SharedTasks'
      BY <2>1, <2>2, Reuse
    <2>4. OP!SpawnTask(t)
      BY <1>2, <2>3 DEF SpawnTask, O!SpawnTask, OP!SpawnTask
    <2>5. NP!SpawnTask(t)
      BY <1>2, <2>3, SameNames DEF SpawnTask, N!SpawnTask, NP!SpawnTask
    <2>6. QED
      BY <1>0, <2>3, <2>4, <2>5 DEF OP!Next, NP!Next
  <1>3. QED
    BY <1>1, <1>2

\* A step that changes nothing, or only aborts the process.
LEMMA Stutter ==
    ASSUME IInv, UNCHANGED vars
    PROVE  UNCHANGED OP!vars /\ UNCHANGED NP!vars /\ TasksKept
  <1>1. UNCHANGED <<taskVars, operationsVars, notificationsVars>>
    BY DEF vars
  <1>2. KeepsWaits /\ KeepsOperations
    BY <1>1, CountsUnchanged DEF operationsVars, notificationsVars, KeepsWaits, KeepsOperations
  <1>3. UNCHANGED <<opEvents, opStatus, waitEvents, waitStatus>>
    BY <1>1, <1>2, SameTasks
  <1>4. TasksKept
    BY <1>1 DEF IInv, SharedTasks, TaskTypeOK, taskVars, TasksKept
  <1>5. UNCHANGED OP!vars
    BY <1>1, <1>3 DEF operationsVars, OP!vars, OP!taskVars, OP!gaspiVars, OP!pollVars
  <1>6. UNCHANGED NP!vars
    BY <1>1, <1>3 DEF notificationsVars, NP!vars, NP!taskVars, NP!callVars, NP!gaspiVars,
                      NP!rangeVars, NP!pollVars, NP!outVars
  <1>7. QED
    BY <1>4, <1>5, <1>6

\* Every step of the system is a step of both components, one of which may only
\* look on.
LEMMA StepsMap ==
    ASSUME IInv, [Next]_vars
    PROVE  /\ [OP!Next]_(OP!vars) /\ [NP!Next]_(NP!vars)
           /\ IInv'
  <1>1. CASE OperationsStep
    <2>1. [OP!Next]_(OP!vars) /\ TasksKept
      BY <1>1, OperationsMaps
    <2>2. OP!IInv'
      BY <2>1, ComponentSteps DEF IInv
    <2>3. UNCHANGED NP!vars /\ SharedAccounting'
      BY <1>1, <2>1, <2>2, OtherStutters DEF OperationsStep
    <2>4. NP!IInv2'
      BY <2>3, ComponentSteps DEF IInv
    <2>5. QED
      BY <2>1, <2>2, <2>3, <2>4 DEF IInv, TasksKept
  <1>2. CASE NotificationsStep
    <2>1. [NP!Next]_(NP!vars) /\ TasksKept
      BY <1>2, NotificationsMaps
    <2>2. NP!IInv2'
      BY <2>1, ComponentSteps DEF IInv
    <2>3. UNCHANGED OP!vars /\ SharedAccounting'
      BY <1>2, <2>1, <2>2, OtherStutters DEF NotificationsStep
    <2>4. OP!IInv'
      BY <2>3, ComponentSteps DEF IInv
    <2>5. QED
      BY <2>1, <2>2, <2>3, <2>4 DEF IInv, TasksKept
  <1>3. CASE \E t \in Task : EndTask(t) \/ SpawnTask(t)
    <2>1. OP!Next /\ NP!Next /\ SharedTasks'
      BY <1>3, JointSteps
    <2>2. OP!IInv' /\ NP!IInv2'
      BY <2>1, ComponentSteps DEF IInv
    <2>3. OperationsExact' /\ WaitsExact'
      BY <2>2, ComponentsExactNext
    <2>4. \A t \in Task : /\ events'[t] \in Int
                          /\ waitEvents'[t] = events'[t] - OperationEvents(t)'
                          /\ OperationEvents(t)' \in Nat
                          /\ waitEvents'[t] = N!WaitEvents(t)'
      BY <2>1, <2>3 DEF SharedTasks, TaskTypeOK, waitEvents, OperationsExact, WaitsExact
    <2>5. \A t \in Task : events'[t] = OperationEvents(t)' + N!WaitEvents(t)'
      BY <2>4
    <2>6. SharedAccounting'
      BY <2>5 DEF SharedAccounting, OperationEvents
    <2>7. QED
      BY <2>1, <2>2, <2>6 DEF IInv
  <1>4. CASE UNCHANGED vars
    <2>1. UNCHANGED OP!vars /\ UNCHANGED NP!vars /\ SharedTasks'
      BY <1>4, Stutter DEF TasksKept
    <2>2. OP!IInv' /\ NP!IInv2'
      BY <2>1, ComponentSteps DEF IInv
    <2>3. SharedAccounting'
      BY <1>4, CountsUnchanged
      DEF IInv, SharedAccounting, OperationEvents, vars, taskVars, operationsVars,
          notificationsVars
    <2>4. QED
      BY <2>1, <2>2, <2>3 DEF IInv
  <1>5. QED
    BY <1>1, <1>2, <1>3, <1>4 DEF Next, Aborted

\* The invariant holds in every state of every execution of the system.
THEOREM Invariance == Spec => []IInv
  <1>1. IInv /\ [Next]_vars => IInv'
    BY StepsMap
  <1>2. QED
    BY InitIInv, <1>1, PTL DEF Spec

\* The one event counter of a task is the sum of what its operations and its
\* waits account for: neither pollQueues nor pollNotifications takes an event
\* of the other, whatever the order in which they fulfil them.
THEOREM SharedAccountingCorrect == Spec => []SharedAccounting
  <1>1. IInv => SharedAccounting
    BY DEF IInv
  <1>2. QED
    BY Invariance, <1>1, PTL

-----------------------------------------------------------------------------

(***************************************************************************)
(* System implements TaskAware.                                            *)
(***************************************************************************)

\* What is outstanding of each component, and of both.
posted == [t \in Task |-> {r \in Request : loc[r] = "posted" /\ tag[r] = t}]
awaited == [t \in Task |-> {o \in N!RangesOf(t) : range[o].remaining > 0}]
outstanding ==
    [t \in Task |-> {r \in Request : loc[r] = "posted" /\ tag[r] = t}
                    \cup {o \in N!RangesOf(t) : range[o].remaining > 0}]

\* A task without events has nothing outstanding.
NothingLeft == \A t \in Task : events[t] = 0 => outstanding[t] = {}

LEMMA NoEventsNothingLeft == IInv => NothingLeft
  <1> SUFFICES ASSUME IInv, NEW t \in Task, events[t] = 0 PROVE outstanding[t] = {}
    BY DEF NothingLeft
  <1>1. opEvents[t] = 0 /\ waitEvents[t] = 0
    BY Shares
  <1>2. OP!Posted(t) = {}
    BY <1>1, Assumptions, OP!NothingPosted DEF IInv
  <1>3. NP!Outstanding(t) = {}
    BY <1>1, Assumptions, NP!NothingOutstanding DEF IInv, NP!IInv2
  <1>4. {o \in N!RangesOf(t) : range[o].remaining > 0} = {}
    BY <1>3, SameCounts DEF NP!Outstanding
  <1>5. QED
    BY <1>2, <1>4 DEF outstanding, OP!Posted

\* The same after a step.
LEMMA NoEventsNothingLeftNext == IInv' => NothingLeft'
  BY NoEventsNothingLeft, PTL

\* What is outstanding of the two components never overlaps.
LEMMA Outstanding ==
    /\ \A t \in Task : /\ posted[t] \subseteq Request /\ awaited[t] \subseteq Object
                       /\ outstanding[t] = posted[t] \cup awaited[t]
                       /\ outstanding'[t] = posted'[t] \cup awaited'[t]
    /\ Request \cap Object = {}
  BY SystemAssumption DEF outstanding, posted, awaited, N!RangesOf

\* How the operations move what is posted.
LEMMA PostedMoves ==
    ASSUME [OP!TA!Next]_(OP!TA!vars)
    PROVE  \/ posted' = posted
           \/ /\ opStatus' = opStatus
              /\ \E t \in Task :
                    \/ \E S \in SUBSET Request :
                        /\ opStatus[t] = "running"
                        /\ \A u \in Task : posted[u] \cap S = {}
                        /\ posted' = [posted EXCEPT ![t] = posted[t] \cup S]
                    \/ \E r \in posted[t] : posted' = [posted EXCEPT ![t] = posted[t] \ {r}]
  BY DEF OP!TA!Next, OP!TA!vars, OP!TA!Start, OP!TA!Deliver, OP!TA!Finish, OP!TA!Complete,
         OP!TA!Respawn, posted

\* How the waits move what is awaited.
LEMMA AwaitedMoves ==
    ASSUME [NP!TA!Next]_(NP!TA!vars)
    PROVE  \/ awaited' = awaited
           \/ /\ waitStatus' = waitStatus
              /\ \E t \in Task :
                    \/ \E S \in SUBSET Object :
                        /\ waitStatus[t] = "running"
                        /\ \A u \in Task : awaited[u] \cap S = {}
                        /\ awaited' = [awaited EXCEPT ![t] = awaited[t] \cup S]
                    \/ \E o \in awaited[t] : awaited' = [awaited EXCEPT ![t] = awaited[t] \ {o}]
  <1>1. /\ awaited = [t \in Task |-> {o \in NP!RangesOf(t) : range[o].remaining > 0}]
        /\ awaited' = [t \in Task |-> {o \in NP!RangesOf(t)' : range'[o].remaining > 0}]
    BY DEF awaited, N!RangesOf, NP!RangesOf
  <1> HIDE DEF awaited
  <1>2. QED
    BY <1>1 DEF NP!TA!Next, NP!TA!vars, NP!TA!Start, NP!TA!Deliver, NP!TA!Finish,
                NP!TA!Complete, NP!TA!Respawn

\* The events of a task are those that the components see.
Sums ==
    \A t \in Task : /\ opEvents[t] \in Nat /\ waitEvents[t] \in Nat
                    /\ events[t] = opEvents[t] + waitEvents[t]

LEMMA SumsHold == IInv => Sums
  BY Shares DEF Sums

\* The same after a step.
LEMMA SumsHoldNext == IInv' => Sums'
  BY SumsHold, PTL

\* A task that completes while one component looks on completes for the other,
\* and has nothing outstanding.
LEMMA Completion ==
    ASSUME IInv, IInv', NEW t \in Task, status[t] = "finished", events[t] # 0,
           status' = [status EXCEPT ![t] = "completed"]
    PROVE  /\ waitEvents' = waitEvents => opStatus' # opStatus
           /\ opEvents' = opEvents => waitStatus' # waitStatus
           /\ outstanding'[t] = {}
  <1>1. status'[t] = "completed"
    BY DEF IInv, SharedTasks, TaskTypeOK
  <1>2. events'[t] = 0
    BY <1>1 DEF IInv, SharedTasks
  <1>3. /\ opEvents[t] \in Nat /\ waitEvents[t] \in Nat
        /\ events[t] = opEvents[t] + waitEvents[t]
        /\ opEvents'[t] = 0 /\ waitEvents'[t] = 0
    <2>1. /\ opEvents'[t] \in Nat /\ waitEvents'[t] \in Nat
          /\ events'[t] = opEvents'[t] + waitEvents'[t]
      BY SumsHoldNext DEF Sums
    <2>2. QED
      BY <1>2, <2>1, SumsHold DEF Sums
  <1>4. outstanding'[t] = {}
    BY <1>2, NoEventsNothingLeftNext DEF NothingLeft
  <1>5. opStatus'[t] = "completed" /\ waitStatus'[t] = "completed"
    BY <1>1, <1>3 DEF opStatus, waitStatus, StatusFor
  <1>6. ASSUME waitEvents' = waitEvents PROVE opStatus' # opStatus
    <2>1. opEvents[t] # 0
      BY <1>3, <1>6
    <2>2. opStatus[t] = "finished"
      BY <2>1 DEF opStatus, StatusFor
    <2>3. QED
      BY <1>5, <2>2
  <1>7. ASSUME opEvents' = opEvents PROVE waitStatus' # waitStatus
    <2>1. waitEvents[t] # 0
      BY <1>3, <1>7
    <2>2. waitStatus[t] = "finished"
      BY <2>1 DEF waitStatus, StatusFor
    <2>3. QED
      BY <1>5, <2>2
  <1>8. QED
    BY <1>4, <1>6, <1>7

\* A step of the operations, as TaskAware sees it.
LEMMA OperationsRefine ==
    ASSUME IInv, IInv', OperationsStep
    PROVE  [TA!Next]_(TA!vars)
  <1>1. [OP!Next]_(OP!vars) /\ TasksKept
    BY OperationsMaps
  <1>2. [OP!TA!Next]_(OP!TA!vars)
    BY <1>1, ComponentSteps DEF IInv
  <1>3. UNCHANGED notificationsVars /\ UNCHANGED NP!vars
    BY <1>1, OtherStutters DEF IInv, OperationsStep
  <1>4. awaited' = awaited /\ waitEvents' = waitEvents
    BY <1>3 DEF notificationsVars, awaited, N!RangesOf, NP!vars, NP!taskVars
  <1>5. ASSUME posted' = posted PROVE outstanding' = outstanding
    BY <1>4, <1>5, Outstanding DEF outstanding
  <1>6. CASE status' # status
    <2>1. PICK t \in Task : /\ status[t] = "finished" /\ events[t] # 0
                            /\ status' = [status EXCEPT ![t] = "completed"]
      BY <1>1, <1>6 DEF TasksKept
    <2>2. opStatus' # opStatus /\ outstanding'[t] = {}
      BY <1>4, <2>1, Completion
    <2>3. outstanding' = outstanding
      BY <1>2, <1>5, <2>2, PostedMoves
    <2>4. TA!Complete(t)
      BY <2>1, <2>2, <2>3 DEF TA!Complete, outstanding
    <2>5. QED
      BY <2>4 DEF TA!Next
  <1>7. CASE status' = status
    <2>1. CASE posted' = posted
      BY <1>5, <1>7, <2>1 DEF TA!vars, outstanding
    <2>2. ASSUME NEW t \in Task, NEW S \in SUBSET Request, opStatus[t] = "running",
                 \A u \in Task : posted[u] \cap S = {},
                 posted' = [posted EXCEPT ![t] = posted[t] \cup S]
          PROVE  TA!Next
      <3>1. status[t] = "running"
        BY <2>2 DEF opStatus, StatusFor
      <3>2. \A u \in Task : outstanding[u] \cap S = {}
        BY <2>2, Outstanding
      <3>3. \A u \in Task : outstanding'[u] = IF u = t THEN outstanding[u] \cup S
                                              ELSE outstanding[u]
        BY <1>4, <2>2, Outstanding DEF posted
      <3>4. outstanding' = [outstanding EXCEPT ![t] = outstanding[t] \cup S]
        BY <3>3 DEF outstanding
      <3>5. TA!Start(t, S)
        BY <1>7, <3>1, <3>2, <3>4 DEF TA!Start, outstanding
      <3>6. QED
        BY <3>5 DEF TA!Next
    <2>3. ASSUME NEW t \in Task, NEW r \in posted[t],
                 posted' = [posted EXCEPT ![t] = posted[t] \ {r}]
          PROVE  TA!Next
      <3>1. r \in outstanding[t] /\ r \in Request
        BY Outstanding
      <3>2. \A u \in Task : outstanding'[u] = IF u = t THEN outstanding[u] \ {r}
                                              ELSE outstanding[u]
        <4>1. \A u \in Task : posted'[u] = IF u = t THEN posted[u] \ {r} ELSE posted[u]
          BY <2>3 DEF posted
        <4>2. \A u \in Task : /\ outstanding[u] = posted[u] \cup awaited[u]
                              /\ outstanding'[u] = posted'[u] \cup awaited[u]
                              /\ r \notin awaited[u]
          BY <1>4, <3>1, Outstanding
        <4>3. QED
          BY <4>1, <4>2
      <3>3. outstanding' = [outstanding EXCEPT ![t] = outstanding[t] \ {r}]
        BY <3>2 DEF outstanding
      <3>4. TA!Deliver(t, r)
        BY <1>7, <3>1, <3>3 DEF TA!Deliver, outstanding
      <3>5. QED
        BY <3>1, <3>4 DEF TA!Next
    <2>4. QED
      BY <1>2, <2>1, <2>2, <2>3, PostedMoves
  <1>8. QED
    BY <1>6, <1>7

\* A step of the waits, as TaskAware sees it.
LEMMA NotificationsRefine ==
    ASSUME IInv, IInv', NotificationsStep
    PROVE  [TA!Next]_(TA!vars)
  <1>1. [NP!Next]_(NP!vars) /\ TasksKept
    BY NotificationsMaps
  <1>2. [NP!TA!Next]_(NP!TA!vars)
    BY <1>1, ComponentSteps DEF IInv, NP!IInv2
  <1>3. UNCHANGED operationsVars /\ UNCHANGED OP!vars
    BY <1>1, OtherStutters DEF IInv, NotificationsStep
  <1>4. posted' = posted /\ opEvents' = opEvents
    BY <1>3 DEF operationsVars, posted, OP!vars, OP!taskVars
  <1>5. ASSUME awaited' = awaited PROVE outstanding' = outstanding
    BY <1>4, <1>5, Outstanding DEF outstanding
  <1>6. CASE status' # status
    <2>1. PICK t \in Task : /\ status[t] = "finished" /\ events[t] # 0
                            /\ status' = [status EXCEPT ![t] = "completed"]
      BY <1>1, <1>6 DEF TasksKept
    <2>2. waitStatus' # waitStatus /\ outstanding'[t] = {}
      BY <1>4, <2>1, Completion
    <2>3. outstanding' = outstanding
      BY <1>2, <1>5, <2>2, AwaitedMoves
    <2>4. TA!Complete(t)
      BY <2>1, <2>2, <2>3 DEF TA!Complete, outstanding
    <2>5. QED
      BY <2>4 DEF TA!Next
  <1>7. CASE status' = status
    <2>1. CASE awaited' = awaited
      BY <1>5, <1>7, <2>1 DEF TA!vars, outstanding
    <2>2. ASSUME NEW t \in Task, NEW S \in SUBSET Object, waitStatus[t] = "running",
                 \A u \in Task : awaited[u] \cap S = {},
                 awaited' = [awaited EXCEPT ![t] = awaited[t] \cup S]
          PROVE  TA!Next
      <3>1. status[t] = "running"
        BY <2>2 DEF waitStatus, StatusFor
      <3>2. \A u \in Task : outstanding[u] \cap S = {}
        BY <2>2, Outstanding
      <3>3. \A u \in Task : outstanding'[u] = IF u = t THEN outstanding[u] \cup S
                                              ELSE outstanding[u]
        BY <1>4, <2>2, Outstanding DEF awaited
      <3>4. outstanding' = [outstanding EXCEPT ![t] = outstanding[t] \cup S]
        BY <3>3 DEF outstanding
      <3>5. TA!Start(t, S)
        BY <1>7, <3>1, <3>2, <3>4 DEF TA!Start, outstanding
      <3>6. QED
        BY <3>5 DEF TA!Next
    <2>3. ASSUME NEW t \in Task, NEW o \in awaited[t],
                 awaited' = [awaited EXCEPT ![t] = awaited[t] \ {o}]
          PROVE  TA!Next
      <3>1. o \in outstanding[t] /\ o \in Object
        BY Outstanding
      <3>2. \A u \in Task : outstanding'[u] = IF u = t THEN outstanding[u] \ {o}
                                              ELSE outstanding[u]
        <4>1. \A u \in Task : awaited'[u] = IF u = t THEN awaited[u] \ {o} ELSE awaited[u]
          BY <2>3 DEF awaited
        <4>2. \A u \in Task : /\ outstanding[u] = awaited[u] \cup posted[u]
                              /\ outstanding'[u] = awaited'[u] \cup posted[u]
                              /\ o \notin posted[u]
          BY <1>4, <3>1, Outstanding
        <4>3. QED
          BY <4>1, <4>2
      <3>3. outstanding' = [outstanding EXCEPT ![t] = outstanding[t] \ {o}]
        BY <3>2 DEF outstanding
      <3>4. TA!Deliver(t, o)
        BY <1>7, <3>1, <3>3 DEF TA!Deliver, outstanding
      <3>5. QED
        BY <3>1, <3>4 DEF TA!Next
    <2>4. QED
      BY <1>2, <2>1, <2>2, <2>3, AwaitedMoves
  <1>8. QED
    BY <1>6, <1>7

\* The end of a body and the reuse of a handle, as TaskAware sees them.
LEMMA JointRefine ==
    ASSUME IInv, NEW t \in Task, EndTask(t) \/ SpawnTask(t)
    PROVE  TA!Next
  <1>1. UNCHANGED <<loc, tag, pool, range>>
    BY DEF EndTask, SpawnTask, O!EndTask, O!SpawnTask, O!gaspiVars, N!EndTask, N!SpawnTask,
           N!rangeVars
  <1>2. outstanding' = outstanding
    BY <1>1 DEF outstanding, N!RangesOf
  <1>3. CASE EndTask(t)
    <2>1. /\ status[t] = "running"
          /\ status' = [status EXCEPT ![t] = IF events[t] = 0 THEN "completed" ELSE "finished"]
      BY <1>3 DEF EndTask, O!EndTask, O!FinishBody
    <2>2. CASE events[t] = 0
      <3>1. outstanding[t] = {}
        BY <2>2, NoEventsNothingLeft DEF NothingLeft
      <3>2. TA!Complete(t)
        BY <1>2, <2>1, <2>2, <3>1 DEF TA!Complete, outstanding
      <3>3. QED
        BY <3>2 DEF TA!Next
    <2>3. CASE events[t] # 0
      <3>1. TA!Finish(t)
        BY <1>2, <2>1, <2>3 DEF TA!Finish, outstanding
      <3>2. QED
        BY <3>1 DEF TA!Next
    <2>4. QED
      BY <2>2, <2>3
  <1>4. CASE SpawnTask(t)
    <2>1. status[t] = "completed" /\ status' = [status EXCEPT ![t] = "running"]
      BY <1>4 DEF SpawnTask, O!SpawnTask, O!Spawn
    <2>2. TA!Respawn(t)
      BY <1>2, <2>1 DEF TA!Respawn, outstanding
    <2>3. QED
      BY <2>2 DEF TA!Next
  <1>5. QED
    BY <1>3, <1>4

\* A task completes only after the network has completed all its requests and
\* its waits have consumed all their notifications: the promise that each
\* component keeps for its own communications (Write.cpp and its like with
\* pollQueues, NotifyAsyncWait.cpp with pollNotifications) is kept by both on
\* the same tasks and counters.
THEOREM TaskAwareness == Spec => ImplementsTaskAware
  <1>1. Init => TA!Init
    BY DEF Init, O!Init, O!TaskInit, N!Init, TA!Init, N!RangesOf
  <1>2. IInv /\ [Next]_vars => [TA!Next]_(TA!vars)
    <2> SUFFICES ASSUME IInv, [Next]_vars PROVE [TA!Next]_(TA!vars)
      OBVIOUS
    <2>1. IInv'
      BY StepsMap
    <2>2. CASE OperationsStep
      BY <2>1, <2>2, OperationsRefine
    <2>3. CASE NotificationsStep
      BY <2>1, <2>3, NotificationsRefine
    <2>4. CASE \E t \in Task : EndTask(t) \/ SpawnTask(t)
      BY <2>4, JointRefine
    <2>5. CASE UNCHANGED vars
      BY <2>5 DEF vars, taskVars, operationsVars, notificationsVars, TA!vars, N!RangesOf
    <2>6. QED
      BY <2>2, <2>3, <2>4, <2>5 DEF Next, Aborted
  <1>3. QED
    BY <1>1, <1>2, Invariance, PTL DEF Spec, ImplementsTaskAware, TA!Spec

\* Also with waits, pollQueues never meets a tag whose task has completed.
THEOREM NoStaleTagCorrect == Spec => []O!NoStaleTag
  <1>1. ASSUME IInv PROVE O!NoStaleTag
    <2> SUFFICES ASSUME NEW t \in Task, status[t] = "completed"
                 PROVE  ocall[t].n = 0 /\ O!InFlight(t) = {}
      BY DEF O!NoStaleTag
    <2>1. events[t] = 0
      BY <1>1 DEF IInv, SharedTasks
    <2>2. OperationEvents(t) = 0
      BY <1>1, <2>1, Shares
    <2>3. ocall[t].n \in Nat /\ IsFiniteSet(Request)
      BY <1>1, Assumptions, SameSets DEF IInv, OP!IInv, OP!TypeOK, OP!OperationsAssumption
    <2>4. IsFiniteSet(O!InFlight(t)) /\ Cardinality(O!InFlight(t)) \in Nat
      BY <2>3, FS_Subset, FS_CardinalityType DEF O!InFlight
    <2>5. ocall[t].n = 0 /\ Cardinality(O!InFlight(t)) = 0
      BY <2>2, <2>3, <2>4 DEF OperationEvents
    <2>6. QED
      BY <2>4, <2>5, FS_EmptySet
  <1>2. QED
    BY Invariance, <1>1, PTL

\* Also with operations, a task that has completed has in its result arrays what
\* its waits consumed: the requests it waits for besides do not complete it
\* before a wait has overwritten what unsuccessful checks left there.
THEOREM ResultsCorrect == Spec => []N!ResultsDelivered
  <1>1. ASSUME IInv PROVE N!ResultsDelivered
    <2> SUFFICES ASSUME NEW t \in Task, status[t] = "completed" PROVE out[t] = taken[t]
      BY DEF N!ResultsDelivered
    <2>1. events[t] = 0
      BY <1>1 DEF IInv, SharedTasks
    <2>2. waitEvents[t] = 0
      BY <1>1, <2>1, Shares
    <2>3. waitStatus[t] = "completed"
      BY <2>2 DEF waitStatus, StatusFor
    <2>4. NP!ResultsDelivered
      BY <1>1, Assumptions, NP!CompletedDelivered DEF IInv
    <2>5. QED
      BY <2>3, <2>4 DEF NP!ResultsDelivered
  <1>2. QED
    BY Invariance, <1>1, PTL
=============================================================================
