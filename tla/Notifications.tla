--------------------------- MODULE Notifications ----------------------------
(***************************************************************************)
(* Waiting for notifications: tagaspi_notify_async_wait and                *)
(* tagaspi_notify_async_waitall (src/src/c/NotifyAsyncWait.cpp), the pool, *)
(* queues and lists of waiting ranges (Allocator.hpp, WaitingRange.hpp,    *)
(* WaitingRangeQueue.hpp, WaitingRangeList.hpp) and the polling task that  *)
(* checks them (Polling::pollNotifications).                               *)
(*                                                                         *)
(* A call first consumes the notifications that are already there.  If     *)
(* some are missing it raises the caller's events by one, takes a waiting  *)
(* range from the pool and pushes it, under the lock of the segment, to    *)
(* the segment's queue.  The polling task moves the queues to its lists,   *)
(* consumes the notifications of the listed ranges, and for a range that   *)
(* has them all fulfils the event and returns the range to the pool.       *)
(***************************************************************************)
EXTENDS TaskingModel, Sequences, FiniteSets

CONSTANTS
    MaxSegments,         \* _env.maxSegments
    NumIds,              \* notification ids per segment
    Buffers,             \* the choices of callers: to want the values or not
    Value,               \* notification values, not zero
    Garbage,             \* what an uninitialized gaspi_notification_t holds
    Object,              \* the waiting ranges of the pool
    Capacity,            \* WR_QUEUE_CAPACITY
    NoTask,              \* the task of a range that is free
    NumCPUs,             \* CPUs of the runtime
    MaxCalls             \* bound: calls made by all tasks

Segment == 0 .. MaxSegments - 1
Id == 0 .. NumIds - 1
Key == Segment \X Id

ASSUME NotificationsAssumption ==
    /\ MaxSegments \in Nat \ {0}
    /\ NumIds \in Nat \ {0}
    /\ Buffers \subseteq BOOLEAN
    /\ 0 \notin Value
    /\ Garbage \notin Value \cup {0}
    /\ IsFiniteSet(Object)
    /\ Capacity \in Nat \ {0}
    /\ NoTask \notin Task
    /\ NumCPUs \in Nat \ {0}
    /\ MaxCalls \in Nat

VARIABLES
    pc,                  \* [Task -> where the task is in a call]
    call,                \* [Task -> the range its call waits for]
    tid,                 \* [Task -> the id gaspi_notify_waitsome gave it]
    held,                \* [Task -> the object it allocated and not pushed]
    calls,               \* calls made so far
    slot,                \* [Key -> value of the notification, 0 if none]
    resent,              \* history: an id was notified again while a wait that
                         \* had consumed it missed others
    pool,                \* free objects
    range,               \* [Object -> the range the object stands for]
    queue,               \* [Segment -> objects pushed and not yet listed]
    lock,                \* [Segment -> tasks in the queue's FIFO lock]
    list,                \* [Segment -> objects being checked]
    ppc, seg, pos, pid,  \* pollNotifications: place, segment, iterator, id
    completeRanges,      \* objects to complete, and then to free
    out,                 \* [Task -> [Key -> what its result arrays hold]]
    taken,               \* history: the values its waits consumed for them
    aborted              \* the process called abort()

callVars == <<pc, call, tid, held, calls>>
gaspiVars == <<slot, resent>>
rangeVars == <<pool, range, queue, lock, list>>
pollVars == <<ppc, seg, pos, pid, completeRanges>>
outVars == <<out, taken>>
vars == <<taskVars, callVars, gaspiVars, rangeVars, pollVars, outVars, aborted>>

\* num ids of a segment from first on, of which remaining are missing; buf
\* tells whether the caller wants the values (not GASPI_NOTIFICATION_IGNORE).
\* History: got are the ids consumed.
WaitingRange ==
    [seg : Segment, first : Id, num : 0 .. NumIds, remaining : 0 .. NumIds,
     buf : BOOLEAN, task : Task \cup {NoTask}, got : SUBSET Id]
NoRange ==
    [seg |-> 0, first |-> 0, num |-> 0, remaining |-> 0, buf |-> FALSE, task |-> NoTask,
     got |-> {}]
Keys(w) == {w.seg} \X (w.first .. w.first + w.num - 1)
NoValues == [k \in Key |-> 0]

TypeOK ==
    /\ TaskTypeOK
    /\ pc \in [Task -> {"body", "test", "reset", "increase", "allocate", "lock",
                        "push", "unlock"}]
    /\ call \in [Task -> WaitingRange]
    /\ tid \in [Task -> Id]
    /\ held \in [Task -> SUBSET Object]
    /\ calls \in 0 .. MaxCalls
    /\ slot \in [Key -> Value \cup {0}]
    /\ resent \in BOOLEAN
    /\ pool \subseteq Object
    /\ range \in [Object -> WaitingRange]
    /\ queue \in [Segment -> Seq(Object)]
    /\ lock \in [Segment -> Seq(Task)]
    /\ list \in [Segment -> Seq(Object)]
    /\ ppc \in {"sleep", "dequeue", "scan", "reset", "complete", "free"}
    /\ seg \in Segment
    /\ pos \in Nat
    /\ pid \in Id
    /\ completeRanges \in Seq(Object)
    /\ out \in [Task -> [Key -> Value \cup {0, Garbage}]]
    /\ taken \in [Task -> [Key -> Value \cup {0}]]
    /\ aborted \in BOOLEAN

Init ==
    /\ TaskInit
    /\ pc = [t \in Task |-> "body"]
    /\ call = [t \in Task |-> NoRange]
    /\ tid = [t \in Task |-> 0]
    /\ held = [t \in Task |-> {}]
    /\ calls = 0
    /\ slot = NoValues /\ resent = FALSE
    /\ pool = Object
    /\ range = [o \in Object |-> NoRange]
    /\ queue = [s \in Segment |-> <<>>]
    /\ lock = [s \in Segment |-> <<>>]
    /\ list = [s \in Segment |-> <<>>]
    /\ ppc = "sleep" /\ seg = 0 /\ pos = 1 /\ pid = 0
    /\ completeRanges = <<>>
    /\ out = [t \in Task |-> NoValues]
    /\ taken = [t \in Task |-> NoValues]
    /\ aborted = FALSE

(***************************************************************************)
(* Notifications (GASPI).                                                  *)
(***************************************************************************)

\* The keys consumed by waits that miss others.
ConsumedKeys ==
    LET waits == {call[t] : t \in Task} \cup {range[o] : o \in Object \ pool}
    IN  UNION {{w.seg} \X w.got : w \in {v \in waits : v.remaining > 0}}

\* A notification arrives; one that is not consumed yet is overwritten.
NotificationArrives(k, v) ==
    /\ slot' = [slot EXCEPT ![k] = v]
    /\ resent' = (resent \/ k \in ConsumedKeys)
    /\ UNCHANGED <<taskVars, callVars, rangeVars, pollVars, outVars>>

\* gaspi_notify_waitsome with GASPI_TEST: some id of the range with a
\* notification, if there is one (otherwise GASPI_TIMEOUT).
Notified(w) == {k \in Keys(w) : slot[k] # 0}

\* gaspi_notify_reset reads and clears a notification in one atomic step.
Consume(k) == slot' = [slot EXCEPT ![k] = 0] /\ UNCHANGED resent

\* Mutant of Deliver: the uninitialized member is copied, not the value.
DeliverUninitialized(t, k) ==
    /\ out' = [out EXCEPT ![t][k] = Garbage]
    /\ taken' = [taken EXCEPT ![t][k] = slot[k]]

\* The result array of the wait of task t receives a notified value.
Deliver(t, k) ==
    /\ out' = [out EXCEPT ![t][k] = slot[k]]
    /\ taken' = [taken EXCEPT ![t][k] = slot[k]]

(***************************************************************************)
(* The calls of a task.                                                    *)
(***************************************************************************)

\* The live ranges of task t, pushed or about to be.
RangesOf(t) == {o \in Object \ pool : range[o].task = t}

\* A task does not give the same result array to two waits at once.
ArrayFree(t, w) ==
    \A o \in RangesOf(t) : range[o].buf => Keys(range[o]) \cap Keys(w) = {}

\* Calls and the polling function do not yield: they keep their CPU, and the
\* runtime starts another task only on a free one.
FreeCPU ==
    LET polling == IF ppc = "sleep" THEN 0 ELSE 1
    IN  Cardinality({t \in Task : pc[t] # "body"}) + polling < NumCPUs

Wait(t, w) ==
    /\ FreeCPU
    /\ status[t] = "running"
    /\ pc[t] = "body"
    /\ calls < MaxCalls
    /\ w.buf => ArrayFree(t, w)
    /\ calls' = calls + 1
    /\ call' = [call EXCEPT ![t] = w]
    /\ pc' = [pc EXCEPT ![t] = "test"]
    /\ UNCHANGED <<taskVars, tid, held, gaspiVars, rangeVars, pollVars, outVars>>

\* The first check of tagaspi_notify_async_wait (checkNotification) takes the
\* same steps as that of a tagaspi_notify_async_waitall of one id.
tagaspi_notify_async_wait(t, s, i, b) ==
    Wait(t, [seg |-> s, first |-> i, num |-> 1, remaining |-> 1, buf |-> b, task |-> t,
             got |-> {}])

\* With no ids the call returns at once.
tagaspi_notify_async_waitall(t, s, i, n, b) ==
    /\ n # 0
    /\ Wait(t, [seg |-> s, first |-> i, num |-> n, remaining |-> n, buf |-> b, task |-> t,
                got |-> {}])

\* The task's gaspi_notify_waitsome.
TestNotification(t) ==
    /\ pc[t] = "test"
    /\ \/ \E k \in Notified(call[t]) :
            /\ tid' = [tid EXCEPT ![t] = k[2]]
            /\ pc' = [pc EXCEPT ![t] = "reset"]
       \/ /\ Notified(call[t]) = {}
          /\ pc' = [pc EXCEPT ![t] = "increase"]
          /\ UNCHANGED tid
    /\ UNCHANGED <<taskVars, call, held, calls, gaspiVars, rangeVars, pollVars, outVars>>

\* Mutant of IsNotified: a reset is counted whatever its value.
IsNotifiedAlways(value) == TRUE

\* The value of a gaspi_notify_reset is that of a notification.
IsNotified(value) == value # 0

\* History: the id of k, if a reset consumes its notification.
Got(k) == {i \in {k[2]} : slot[k] # 0}

\* The task's gaspi_notify_reset.  Another thread may have consumed the
\* notification since the test: then the value is 0 and the check is over.
ResetNotification(t) ==
    LET w == call[t]
        k == <<w.seg, tid[t]>>
    IN  /\ pc[t] = "reset"
        /\ Consume(k)
        /\ tid' = [tid EXCEPT ![t] = 0]
        /\ \/ /\ ~IsNotified(slot[k])
              /\ pc' = [pc EXCEPT ![t] = "increase"]
              /\ UNCHANGED <<call, outVars>>
           \/ /\ IsNotified(slot[k])
              /\ IF w.buf THEN Deliver(t, k) ELSE UNCHANGED outVars
              /\ call' = [call EXCEPT ![t] = IF w.remaining = 1 THEN NoRange
                                             ELSE [w EXCEPT !.remaining = @ - 1,
                                                             !.got = @ \cup Got(k)]]
              /\ pc' = [pc EXCEPT ![t] = IF w.remaining = 1 THEN "body" ELSE "test"]
        /\ UNCHANGED <<taskVars, held, calls, rangeVars, pollVars>>

\* TaskingModel::increaseCurrentTaskEvents: one event for the whole range.
IncreaseEvents(t) ==
    /\ pc[t] = "increase"
    /\ increaseCurrentTaskEvents(t, 1)
    /\ pc' = [pc EXCEPT ![t] = "allocate"]
    /\ UNCHANGED <<call, tid, held, calls, gaspiVars, rangeVars, pollVars, outVars>>

\* Allocator::allocate spins until the pool has an object.
Allocate(t) ==
    /\ pc[t] = "allocate"
    /\ \E o \in pool :
        /\ pool' = pool \ {o}
        /\ range' = [range EXCEPT ![o] = call[t]]
        /\ held' = [held EXCEPT ![t] = {o}]
    /\ pc' = [pc EXCEPT ![t] = "lock"]
    /\ UNCHANGED <<taskVars, call, tid, calls, gaspiVars, queue, lock, list, pollVars,
                   outVars>>

\* WaitingRangeQueue::enqueue: _lock.lock() takes a ticket (see SpinLock), ...
Lock(t) ==
    /\ pc[t] = "lock"
    /\ lock' = [lock EXCEPT ![call[t].seg] = Append(@, t)]
    /\ pc' = [pc EXCEPT ![t] = "push"]
    /\ UNCHANGED <<taskVars, call, tid, held, calls, gaspiVars, pool, range, queue, list,
                   pollVars, outVars>>

\* ... the holder spins until the queue has room, ...
Push(t) ==
    LET s == call[t].seg
    IN  /\ pc[t] = "push"
        /\ t = Head(lock[s])
        /\ Len(queue[s]) < Capacity
        /\ \E o \in held[t] : queue' = [queue EXCEPT ![s] = Append(@, o)]
        /\ held' = [held EXCEPT ![t] = {}]
        /\ pc' = [pc EXCEPT ![t] = "unlock"]
        /\ UNCHANGED <<taskVars, call, tid, calls, gaspiVars, pool, range, lock, list,
                       pollVars, outVars>>

unlock(s) == lock' = [lock EXCEPT ![s] = Tail(@)]

\* ... and hands the lock over; the call returns.
Unlock(t) ==
    /\ pc[t] = "unlock"
    /\ unlock(call[t].seg)
    /\ call' = [call EXCEPT ![t] = NoRange]
    /\ pc' = [pc EXCEPT ![t] = "body"]
    /\ UNCHANGED <<taskVars, tid, held, calls, gaspiVars, pool, range, queue, list,
                   pollVars, outVars>>

EndTask(t) ==
    /\ pc[t] = "body"
    /\ FinishBody(t)
    /\ UNCHANGED <<callVars, gaspiVars, rangeVars, pollVars, outVars>>

\* The new task has result arrays of its own.
SpawnTask(t) ==
    /\ calls < MaxCalls
    /\ Spawn(t)
    /\ out' = [out EXCEPT ![t] = NoValues]
    /\ taken' = [taken EXCEPT ![t] = NoValues]
    /\ UNCHANGED <<callVars, gaspiVars, rangeVars, pollVars>>

(***************************************************************************)
(* Polling::pollNotifications.                                             *)
(***************************************************************************)

\* The runtime resumes the polling task.
PollNotifications ==
    /\ FreeCPU
    /\ ppc = "sleep"
    /\ ppc' = "dequeue"
    /\ seg' = 0
    /\ UNCHANGED <<taskVars, callVars, gaspiVars, rangeVars, pos, pid, completeRanges,
                   outVars>>

\* WaitingRangeQueue::dequeueAll, without the lock.
DequeueAll ==
    /\ ppc = "dequeue"
    /\ list' = [list EXCEPT ![seg] = @ \o queue[seg]]
    /\ queue' = [queue EXCEPT ![seg] = <<>>]
    /\ pos' = 1
    /\ ppc' = "scan"
    /\ UNCHANGED <<taskVars, callVars, gaspiVars, pool, range, lock, seg, pid,
                   completeRanges, outVars>>

\* The range at the iterator is still incomplete: ++it.  A range of one id has
\* copied its _notifiedValue, which nothing has set, to the result array.
Unfinished(o) ==
    /\ IF range[o].num = 1 /\ range[o].buf
       THEN out' = [out EXCEPT ![range[o].task][<<seg, range[o].first>>] = Garbage]
       ELSE UNCHANGED out
    /\ pos' = pos + 1
    /\ ppc' = "scan"
    /\ UNCHANGED <<range, list, completeRanges, taken>>

\* WaitingRangeList::checkNotifications: gaspi_notify_waitsome for the range at
\* the iterator, or the end of the list.
CheckRange ==
    /\ ppc = "scan"
    /\ \/ /\ pos > Len(list[seg])
          /\ ppc' = "complete"
          /\ pos' = 1
          /\ UNCHANGED <<range, list, pid, completeRanges, outVars>>
       \/ /\ pos <= Len(list[seg])
          /\ \/ \E k \in Notified(range[list[seg][pos]]) :
                  /\ pid' = k[2]
                  /\ ppc' = "reset"
                  /\ UNCHANGED <<range, list, pos, completeRanges, outVars>>
             \/ /\ Notified(range[list[seg][pos]]) = {}
                /\ Unfinished(list[seg][pos])
                /\ UNCHANGED pid
    /\ UNCHANGED <<taskVars, callVars, gaspiVars, pool, queue, lock, seg>>

\* Mutant of Erase: the range stays in the list.
EraseForgotten(s, i) == s

Erase(s, i) == SubSeq(s, 1, i - 1) \o SubSeq(s, i + 1, Len(s))

\* Mutants of LastOf: the range is complete after the notification that comes
\* when none remains, or after its first.
LastOfLate(o) == range[o].remaining = 0
LastOfEager(o) == TRUE

LastOf(o) == range[o].remaining = 1

\* What a reset that returns a value does for range o: the value is delivered
\* and, if it was the last, the range moves to the complete ranges.
Count(o, k) ==
    /\ IF range[o].buf THEN Deliver(range[o].task, k) ELSE UNCHANGED outVars
    /\ range' = [range EXCEPT ![o].remaining = @ - 1, ![o].got = @ \cup Got(k)]
    /\ IF LastOf(o)
       THEN /\ completeRanges' = Append(completeRanges, o)
            /\ list' = [list EXCEPT ![seg] = Erase(@, pos)]
       ELSE UNCHANGED <<completeRanges, list>>
    /\ ppc' = "scan"
    /\ UNCHANGED pos

\* The gaspi_notify_reset for that range.  The last notification moves it to the
\* complete ranges, an earlier one has the range checked again.
ResetRange ==
    LET o == list[seg][pos]
        k == <<seg, pid>>
    IN  /\ ppc = "reset"
        /\ Consume(k)
        /\ pid' = 0
        /\ \/ ~IsNotified(slot[k]) /\ Unfinished(o)
           \/ IsNotified(slot[k]) /\ Count(o, k)
        /\ UNCHANGED <<taskVars, callVars, pool, queue, lock, seg>>

\* Mutant of complete: two events are fulfilled for one range.
completeTwice(o) == decreaseTaskEvents(range[o].task, 2)

complete(o) == decreaseTaskEvents(range[o].task, 1)

\* Mutant of MoreSegments: the last segment is not checked.
MoreSegmentsButLast == seg + 2 < MaxSegments

MoreSegments == seg + 1 < MaxSegments

\* WaitingRange::complete for the first of the complete ranges, or, after the
\* last, the next segment.
CompleteRange ==
    /\ ppc = "complete"
    /\ \/ /\ completeRanges # <<>>
          /\ complete(Head(completeRanges))
          /\ ppc' = "free"
          /\ UNCHANGED seg
       \/ /\ completeRanges = <<>>
          /\ seg' = IF MoreSegments THEN seg + 1 ELSE 0
          /\ ppc' = IF MoreSegments THEN "dequeue" ELSE "sleep"
          /\ UNCHANGED taskVars
    /\ UNCHANGED <<callVars, gaspiVars, rangeVars, pos, pid, completeRanges, outVars>>

\* Mutant of free: the object is destroyed and not returned to the pool.
freeLeak(o) ==
    /\ range' = [range EXCEPT ![o] = NoRange]
    /\ UNCHANGED pool

\* Allocator::free.
free(o) ==
    /\ range' = [range EXCEPT ![o] = NoRange]
    /\ pool' = pool \cup {o}

FreeRange ==
    /\ ppc = "free"
    /\ free(Head(completeRanges))
    /\ completeRanges' = Tail(completeRanges)
    /\ ppc' = "complete"
    /\ UNCHANGED <<taskVars, callVars, gaspiVars, queue, lock, list, seg, pos, pid, outVars>>

\* gaspi_notify_waitsome or gaspi_notify_reset returns an error: abort().
NotificationError ==
    /\ ~aborted
    /\ \/ ppc \in {"scan", "reset"} /\ pos <= Len(list[seg])
       \/ \E t \in Task : pc[t] \in {"test", "reset"}
    /\ aborted' = TRUE
    /\ UNCHANGED <<taskVars, callVars, gaspiVars, rangeVars, pollVars, outVars>>

\* The process is gone.
Aborted == aborted /\ UNCHANGED vars

(***************************************************************************)
(* The specification.                                                      *)
(***************************************************************************)

\* Steps are those of a process that has not called abort().
Alive == ~aborted /\ UNCHANGED aborted

TaskCall(t) ==
    \E s \in Segment, i \in Id, b \in Buffers :
        \/ tagaspi_notify_async_wait(t, s, i, b)
        \/ \E n \in 0 .. NumIds - i : tagaspi_notify_async_waitall(t, s, i, n, b)

\* The rest of a call.
TaskStep(t) ==
    /\ Alive
    /\ \/ TestNotification(t)
       \/ ResetNotification(t)
       \/ IncreaseEvents(t)
       \/ Allocate(t)
       \/ Lock(t)
       \/ Push(t)
       \/ Unlock(t)

Poller ==
    /\ Alive
    /\ \/ PollNotifications
       \/ DequeueAll
       \/ CheckRange
       \/ ResetRange
       \/ CompleteRange
       \/ FreeRange

Next ==
    \/ \E t \in Task : Alive /\ (TaskCall(t) \/ EndTask(t) \/ SpawnTask(t))
    \/ \E t \in Task : TaskStep(t)
    \/ \E k \in Key, v \in Value : Alive /\ NotificationArrives(k, v)
    \/ Poller
    \/ NotificationError
    \/ Aborted

Spec == Init /\ [][Next]_vars

(***************************************************************************)
(* Fairness: a call in progress goes on, the runtime resumes the polling   *)
(* task when its period is over, and a peer eventually sends a             *)
(* notification that a range in a queue or list is missing.                *)
(***************************************************************************)
Awaited(k) == \E o \in Object \ pool : range[o].remaining > 0 /\ k \in Keys(range[o])

PeerNotifies(k) ==
    /\ Alive
    /\ slot[k] = 0
    /\ Awaited(k)
    /\ \E v \in Value : NotificationArrives(k, v)

Fairness ==
    /\ \A t \in Task : WF_vars(TaskStep(t))
    /\ WF_vars(Poller)
    /\ \A k \in Key : WF_vars(PeerNotifies(k))

FairSpec == Spec /\ Fairness

(***************************************************************************)
(* Properties.                                                             *)
(***************************************************************************)

Positions(s, o) == {i \in DOMAIN s : s[i] = o}
InSegments(kind, f, o) ==
    UNION {{<<kind, s, i>> : i \in Positions(f[s], o)} : s \in Segment}

\* Where object o is: in the pool, with a task, or at a position of a queue, of
\* a list or of the complete ranges.
Places(o) ==
    {<<"pool">> : p \in pool \cap {o}}
    \cup {<<"held", t>> : t \in {u \in Task : o \in held[u]}}
    \cup InSegments("queue", queue, o)
    \cup InSegments("list", list, o)
    \cup {<<"complete", i>> : i \in Positions(completeRanges, o)}

\* Every waiting range is in exactly one place: free, held by the task that is
\* about to push it, in one queue, in one list, or complete.  A range that is
\* lost drains the pool, and one that is in two places is completed or freed
\* twice (Allocator.hpp:80-83).
RangesConserved == \A o \in Object : Cardinality(Places(o)) = 1

Completing(o) == ppc = "free" /\ o = Head(completeRanges)

WaitEvents(t) ==
    Cardinality({o \in RangesOf(t) : ~Completing(o)}) + (IF pc[t] = "allocate" THEN 1 ELSE 0)

\* The events of a task are its ranges that wait for a notification or are to
\* be completed, and the one it is about to allocate.
WaitAccounting == \A t \in Task : events[t] = WaitEvents(t)

\* A range in a queue or a list misses a notification and one that is complete
\* misses none, as checkNotifications and the destructor assert
\* (WaitingRange.hpp:59, 115-116).
PendingRanges ==
    /\ \A s \in Segment :
        /\ \A i \in DOMAIN queue[s] : range[queue[s][i]].remaining > 0
        /\ \A i \in DOMAIN list[s] : range[list[s][i]].remaining > 0
    /\ \A i \in DOMAIN completeRanges : range[completeRanges[i]].remaining = 0

\* When a task completes, its result arrays hold the values its waits consumed:
\* what the polling task copied there on unsuccessful checks is gone.
ResultsDelivered ==
    \A t \in Task : status[t] = "completed" => out[t] = taken[t]

\* Nobody writes to the result arrays of a task that has completed: its
\* successors may have freed them.
NoLateWrite ==
    [][\A t \in Task : status[t] = "completed" /\ status'[t] = "completed"
                          => out'[t] = out[t]]_vars

Ids(w) == w.first .. w.first + w.num - 1

\* A wait ends when it has consumed a notification of every id of its range,
\* unless a peer notified an id again before: the code counts notifications and
\* not ids (WaitingRange.hpp:141).
EveryIdConsumed ==
    [][resent
       \/ /\ \A t \in Task : pc[t] = "reset" /\ pc'[t] = "body" =>
                call[t].got \cup Got(<<call[t].seg, tid[t]>>) = Ids(call[t])
          /\ \A i \in DOMAIN completeRanges' :
                LET w == range'[completeRanges'[i]] IN w.got = Ids(w)]_vars

\* When every task has completed and the polling task sleeps, no range is left
\* behind, as the destructors that Environment::finalize runs assert
\* (WaitingRangeQueue.hpp:39-42, WaitingRangeList.hpp:32-35).
CleanShutdown ==
    (\A t \in Task : status[t] = "completed") /\ ppc = "sleep" =>
        /\ pool = Object
        /\ \A s \in Segment : queue[s] = <<>> /\ list[s] = <<>> /\ lock[s] = <<>>

\* The promise to tasks (TaskAware), with the waiting ranges that miss a
\* notification as what is outstanding: a task completes only after each of its
\* waits has consumed all the notifications it asked for.
TA == INSTANCE TaskAware WITH
        Item <- Object,
        outstanding <- [t \in Task |-> {o \in RangesOf(t) : range[o].remaining > 0}]

ImplementsTaskAware == TA!Spec

\* Every call returns, also when the pool is empty or the queue full: the
\* polling task, which frees ranges and drains queues, takes no lock.
CallsReturn == \A t \in Task : pc[t] # "body" ~> (pc[t] = "body" \/ aborted)

\* Every task whose body is over completes, unless the process aborts: no range
\* is forgotten in the queue or the list of any segment.
FinishedTasksComplete ==
    \A t \in Task : status[t] = "finished" ~> (status[t] = "completed" \/ aborted)
=============================================================================
