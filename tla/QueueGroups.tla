---------------------------- MODULE QueueGroups -----------------------------
(***************************************************************************)
(* The table of queue groups (src/src/c/QueueGroups.cpp) and the objects   *)
(* it points to (src/src/common/QueueGroup.hpp).  Creation and deletion    *)
(* hold queueGroupsLock; tagaspi_queue_group_get_queue takes no lock: it   *)
(* reads the pointer, then the group, and advances its counter with one    *)
(* compare-and-exchange.  How the policy CPU_RR fills its table of queues  *)
(* is the subject of CPURoundRobin.                                        *)
(***************************************************************************)
EXTENDS Integers, Sequences, FiniteSets

CONSTANTS
    Thread,
    Group,               \* the heap: QueueGroup objects, reused once deleted
    Null,                \* nullptr
    maxQueueGroups,      \* _env.maxQueueGroups
    NumQueues            \* sizes of the groups that are created

ASSUME QueueGroupsAssumption ==
    /\ Null \notin Group
    /\ maxQueueGroups \in Nat \ {0}
    /\ NumQueues \subseteq Nat \ {0}

GroupId == 0 .. maxQueueGroups - 1
Policy == {"DEFAULT", "CPU_RR", "other"}

VARIABLES
    queueGroups,         \* [GroupId -> Group \cup {Null}]
    numQueueGroups,
    lock,                \* threads in queueGroupsLock, FIFO (see SpinLock)
    live,                \* groups allocated and not deleted
    group,               \* [Group -> its members], see QueueGroup
    pc, arg,             \* [Thread -> its place in a call, the arguments]
    ptr, offset,         \* [Thread -> the locals queueGroup and offset]
    moved                \* history: the counter moved on since the thread read it

tableVars == <<queueGroups, numQueueGroups>>
heapVars == <<live, group>>
getVars == <<offset, moved>>
vars == <<tableVars, lock, heapVars, pc, arg, ptr, getVars>>

\* _data is nullptr, a counter or a table of queues.
QueueGroup == [num : NumQueues \cup {0}, policy : Policy,
               data : {"null", "counter", "table"}, counter : Nat]
NoGroup == [num |-> 0, policy |-> "other", data |-> "null", counter |-> 0]
NoArg == [id |-> 0, num |-> 0, policy |-> "other"]

TypeOK ==
    /\ queueGroups \in [GroupId -> Group \cup {Null}]
    /\ numQueueGroups \in 0 .. maxQueueGroups
    /\ lock \in Seq(Thread)
    /\ live \subseteq Group
    /\ group \in [Group -> QueueGroup]
    /\ pc \in [Thread -> {"idle", "create", "setup", "publish", "delete", "destroy",
                          "clear", "unlock", "get", "use", "cas"}]
    /\ arg \in [Thread -> [id : GroupId, num : NumQueues \cup {0}, policy : Policy]]
    /\ ptr \in [Thread -> Group \cup {Null}]
    /\ offset \in [Thread -> Nat]
    /\ moved \in [Thread -> BOOLEAN]

Init ==
    /\ queueGroups = [i \in GroupId |-> Null]
    /\ numQueueGroups = 0
    /\ lock = <<>>
    /\ live = {}
    /\ group = [g \in Group |-> NoGroup]
    /\ pc = [t \in Thread |-> "idle"]
    /\ arg = [t \in Thread |-> NoArg]
    /\ ptr = [t \in Thread |-> Null]
    /\ offset = [t \in Thread |-> 0]
    /\ moved = [t \in Thread |-> TRUE]

Goto(t, from, to) == pc[t] = from /\ pc' = [pc EXCEPT ![t] = to]
Holds(t) == lock # <<>> /\ t = Head(lock)

Calling(id, places) == \E t \in Thread : pc[t] \in places /\ arg[t].id = id

\* The application does not delete a group while a call uses it.
InGet == {"get", "use", "cas"}
InDelete == {"delete", "destroy", "clear"}

(***************************************************************************)
(* tagaspi_queue_group_create.                                             *)
(***************************************************************************)
tagaspi_queue_group_create(t, id, num, policy) ==
    /\ Goto(t, "idle", "create")
    /\ lock' = Append(lock, t)
    /\ arg' = [arg EXCEPT ![t] = [id |-> id, num |-> num, policy |-> policy]]
    /\ UNCHANGED <<tableVars, heapVars, ptr, getVars>>

isValidPolicy(policy) == policy \in {"DEFAULT", "CPU_RR"}

CreateFails(t) ==
    \/ numQueueGroups >= maxQueueGroups
    \/ queueGroups[arg[t].id] # Null
    \/ ~isValidPolicy(arg[t].policy)

\* Mutant of QueueGroupNew: the table points to the group before its set-up.
QueueGroupPublished(t, g) ==
    /\ live' = live \cup {g}
    /\ group' = [group EXCEPT ![g] = [NoGroup EXCEPT !.num = arg[t].num]]
    /\ queueGroups' = [queueGroups EXCEPT ![arg[t].id] = g]

\* The constructor leaves _policy as it is.
QueueGroupNew(t, g) ==
    /\ live' = live \cup {g}
    /\ group' = [group EXCEPT ![g] = [NoGroup EXCEPT !.num = arg[t].num]]
    /\ UNCHANGED queueGroups

\* The early returns, or a new group.
CheckAndNew(t) ==
    /\ Holds(t)
    /\ \/ /\ CreateFails(t)
          /\ Goto(t, "create", "unlock")
          /\ UNCHANGED <<queueGroups, heapVars, ptr>>
       \/ /\ ~CreateFails(t)
          /\ Goto(t, "create", "setup")
          /\ \E g \in Group \ live : QueueGroupNew(t, g) /\ ptr' = [ptr EXCEPT ![t] = g]
    /\ UNCHANGED <<numQueueGroups, lock, arg, getVars>>

\* QueueGroup::setupPolicy.
setupPolicy(t) ==
    LET policy == arg[t].policy
        data == IF policy = "DEFAULT" THEN "counter" ELSE "table"
    IN  /\ Goto(t, "setup", "publish")
        /\ group' = [group EXCEPT ![ptr[t]] = [@ EXCEPT !.policy = policy, !.data = data]]
        /\ UNCHANGED <<tableVars, lock, live, arg, ptr, getVars>>

Publish(t) ==
    /\ Goto(t, "publish", "unlock")
    /\ queueGroups' = [queueGroups EXCEPT ![arg[t].id] = ptr[t]]
    /\ numQueueGroups' = numQueueGroups + 1
    /\ UNCHANGED <<lock, heapVars, arg, ptr, getVars>>

\* Mutant of Release: an error return does not release the lock.
ReleaseOnSuccess(t) == lock' = IF ptr[t] = Null THEN lock ELSE Tail(lock)

\* The destructor of the lock_guard.
Release(t) == lock' = Tail(lock)

\* A creation or deletion returns.
Unlock(t) ==
    /\ Goto(t, "unlock", "idle")
    /\ Release(t)
    /\ arg' = [arg EXCEPT ![t] = NoArg]
    /\ ptr' = [ptr EXCEPT ![t] = Null]
    /\ UNCHANGED <<tableVars, heapVars, getVars>>

(***************************************************************************)
(* tagaspi_queue_group_delete.                                             *)
(***************************************************************************)
tagaspi_queue_group_delete(t, id) ==
    /\ ~Calling(id, InGet)
    /\ Goto(t, "idle", "delete")
    /\ lock' = Append(lock, t)
    /\ arg' = [arg EXCEPT ![t] = [NoArg EXCEPT !.id = id]]
    /\ UNCHANGED <<tableVars, heapVars, ptr, getVars>>

FindGroup(t) ==
    /\ Holds(t)
    /\ ptr' = [ptr EXCEPT ![t] = queueGroups[arg[t].id]]
    /\ Goto(t, "delete", IF ptr'[t] = Null THEN "unlock" ELSE "destroy")
    /\ UNCHANGED <<tableVars, lock, heapVars, arg, getVars>>

\* ~QueueGroup frees the policy's data, and the object is free.
Destroy(t) ==
    /\ Goto(t, "destroy", "clear")
    /\ live' = live \ {ptr[t]}
    /\ group' = [group EXCEPT ![ptr[t]] = NoGroup]
    /\ UNCHANGED <<tableVars, lock, arg, ptr, getVars>>

\* Mutant of OneLess: the group deleted is still counted.
OneLessForgotten == numQueueGroups

OneLess == numQueueGroups - 1

Clear(t) ==
    /\ Goto(t, "clear", "unlock")
    /\ queueGroups' = [queueGroups EXCEPT ![arg[t].id] = Null]
    /\ numQueueGroups' = OneLess
    /\ UNCHANGED <<lock, heapVars, arg, ptr, getVars>>

(***************************************************************************)
(* tagaspi_queue_group_get_queue.                                          *)
(***************************************************************************)
tagaspi_queue_group_get_queue(t, id) ==
    /\ ~Calling(id, InDelete)
    /\ Goto(t, "idle", "get")
    /\ arg' = [arg EXCEPT ![t] = [NoArg EXCEPT !.id = id]]
    /\ UNCHANGED <<tableVars, lock, heapVars, ptr, getVars>>

\* The table is read without the lock.
ReadPointer(t) ==
    LET g == queueGroups[arg[t].id]
    IN  /\ Goto(t, "get", IF g = Null THEN "idle" ELSE "use")
        /\ ptr' = [ptr EXCEPT ![t] = g]
        /\ arg' = IF g = Null THEN [arg EXCEPT ![t] = NoArg] ELSE arg
        /\ UNCHANGED <<tableVars, lock, heapVars, getVars>>

Return(t, from) ==
    /\ Goto(t, from, "idle")
    /\ arg' = [arg EXCEPT ![t] = NoArg]
    /\ ptr' = [ptr EXCEPT ![t] = Null]

\* QueueGroup::getQueue: the counter of a round-robin group is loaded; a single
\* queue and the queue of the CPU are returned at once.
getQueue(t) ==
    LET g == group[ptr[t]]
    IN  /\ pc[t] = "use"
        /\ \/ /\ g.policy = "DEFAULT" /\ g.num > 1
              /\ Goto(t, "use", "cas")
              /\ offset' = [offset EXCEPT ![t] = g.counter]
              /\ moved' = [moved EXCEPT ![t] = FALSE]
              /\ UNCHANGED <<arg, ptr>>
           \/ /\ g.policy # "DEFAULT" \/ g.num = 1
              /\ Return(t, "use")
              /\ UNCHANGED getVars
        /\ UNCHANGED <<tableVars, lock, heapVars>>

nextOffset(o, num) == IF o < num - 1 THEN o + 1 ELSE 0

\* Mutant of Exchange: compare_exchange_weak, which may fail with equal values.
ExchangeWeak(t, g) ==
    \/ UNCHANGED <<group, moved>>
    \/ /\ group[g].counter = offset[t]
       /\ group' = [group EXCEPT ![g].counter = nextOffset(offset[t], group[g].num)]
       /\ moved' = [u \in Thread |-> moved[u] \/ ptr[u] = g]

\* compare_exchange_strong of thread t on the counter of group g.
Exchange(t, g) ==
    \/ /\ group[g].counter # offset[t]
       /\ UNCHANGED <<group, moved>>
    \/ /\ group[g].counter = offset[t]
       /\ group' = [group EXCEPT ![g].counter = nextOffset(offset[t], group[g].num)]
       /\ moved' = [u \in Thread |-> moved[u] \/ ptr[u] = g]

AdvanceCounter(t) ==
    /\ Return(t, "cas")
    /\ Exchange(t, ptr[t])
    /\ offset' = [offset EXCEPT ![t] = 0]
    /\ UNCHANGED <<tableVars, lock, live>>

(***************************************************************************)
(* The specification.                                                      *)
(***************************************************************************)
Call(t) ==
    \E id \in GroupId :
        \/ \E num \in NumQueues, policy \in Policy :
            tagaspi_queue_group_create(t, id, num, policy)
        \/ tagaspi_queue_group_delete(t, id)
        \/ tagaspi_queue_group_get_queue(t, id)

Step(t) ==
    \/ CheckAndNew(t)
    \/ setupPolicy(t)
    \/ Publish(t)
    \/ FindGroup(t)
    \/ Destroy(t)
    \/ Clear(t)
    \/ Unlock(t)
    \/ ReadPointer(t)
    \/ getQueue(t)
    \/ AdvanceCounter(t)

Next == \E t \in Thread : Call(t) \/ Step(t)

Spec == Init /\ [][Next]_vars

\* A thread inside a call goes on; the set-up of a CPU_RR group returns (see
\* CPURoundRobin for the machines on which it does not).
FairSpec == Spec /\ \A t \in Thread : WF_vars(Step(t))

(***************************************************************************)
(* Properties.                                                             *)
(***************************************************************************)

\* While nobody holds the lock, numQueueGroups is the number of groups in the
\* table and these are exactly the groups allocated, one per id: a creation
\* fails for "too many" only if its id exists, no group leaks and no two ids
\* share a group that both would delete.
GroupsCounted ==
    lock = <<>> =>
        LET ids == {i \in GroupId : queueGroups[i] # Null}
        IN  /\ numQueueGroups = Cardinality(ids)
            /\ live = {queueGroups[i] : i \in ids}
            /\ Cardinality(live) = Cardinality(ids)

\* A call that found a pointer, without the lock or to delete it, has a group
\* that is allocated, and get_queue one whose policy is set up, as getQueue
\* asserts (QueueGroup.hpp:58, 71): a creation that races with it shows either
\* no group or a complete one.
UsesReadyGroup ==
    \A t \in Thread :
        /\ pc[t] \in {"use", "cas", "setup", "publish", "destroy"} => ptr[t] \in live
        /\ pc[t] \in {"use", "cas"} =>
            group[ptr[t]].data = IF group[ptr[t]].policy = "DEFAULT" THEN "counter" ELSE "table"

\* Of the round-robin counter, whatever the interleaving of its updates: the
\* offset a call loads is that of a queue of the group, and when the call
\* returns the counter has moved on since, by this call or by another: "In case
\* the operation fails, another thread will update it" (QueueGroup.hpp:65).  So a
\* call that follows another does not get its queue; for calls that overlap see
\* DifferentQueues.
RoundRobin ==
    \A t \in Thread :
        IF pc[t] = "cas" THEN offset[t] < group[ptr[t]].num ELSE moved[t]

\* "Each call gets a different queue" (TAGASPI.h:25), as far as a round robin can
\* promise it: two calls get the same queue of a group only if the counter has
\* moved between their loads.
DifferentQueues ==
    \A t, u \in Thread :
        /\ t # u
        /\ pc[t] = "cas" /\ pc[u] = "cas"
        /\ ptr[t] = ptr[u] /\ offset[t] = offset[u]
        => moved[t] \/ moved[u]

\* Every call returns: each path through a creation or deletion releases the
\* lock that the others spin on.
CallsReturn == \A t \in Thread : pc[t] # "idle" ~> pc[t] = "idle"
=============================================================================
