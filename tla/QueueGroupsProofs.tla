------------------------- MODULE QueueGroupsProofs --------------------------
(***************************************************************************)
(* Proofs about QueueGroups, for every set of threads, every heap, every   *)
(* number of groups and all sizes of groups.                               *)
(***************************************************************************)
EXTENDS QueueGroups, FiniteSetTheorems, SequenceTheorems, TLAPS

(***************************************************************************)
(* The inductive invariant.                                                *)
(***************************************************************************)

\* Where a thread has the lock, and where it has it or waits for it.
Holding == {"setup", "publish", "destroy", "clear", "unlock"}
Within == Holding \cup {"create", "delete"}

\* The threads in the lock are those within a creation or deletion, once each,
\* and the one that holds it is the first.
LockInv ==
    /\ IsInjective(lock)
    /\ Range(lock) = {t \in Thread : pc[t] \in Within}
    /\ \A t \in Thread : pc[t] \in Holding => t = Head(lock)

\* Group g is set up, and its counter is an offset in it.
Ready(g) ==
    /\ group[g].num >= 1 /\ group[g].counter < group[g].num
    /\ group[g].data = IF group[g].policy = "DEFAULT" THEN "counter" ELSE "table"

UsedIds == {i \in GroupId : queueGroups[i] # Null}

\* A group has one id, and is allocated and ready unless it was destroyed and its
\* id is about to be cleared; an allocated group has an id or is about to.
TableInv ==
    /\ \A i, j \in GroupId : queueGroups[i] # Null /\ queueGroups[i] = queueGroups[j] => i = j
    /\ numQueueGroups = Cardinality(UsedIds)
    /\ \A i \in GroupId : queueGroups[i] # Null =>
        \/ queueGroups[i] \in live /\ Ready(queueGroups[i])
        \/ \E t \in Thread : pc[t] = "clear" /\ arg[t].id = i
    /\ \A g \in live :
        \/ \E i \in GroupId : queueGroups[i] = g
        \/ \E t \in Thread : pc[t] \in {"setup", "publish"} /\ ptr[t] = g

\* What thread t knows of the group it points to.
ThreadOK(t) ==
    /\ pc[t] = "create" => arg[t].num \in NumQueues
    /\ pc[t] \in {"setup", "publish"} =>
        /\ ptr[t] \in live /\ \A i \in GroupId : queueGroups[i] # ptr[t]
        /\ queueGroups[arg[t].id] = Null /\ numQueueGroups < maxQueueGroups
    /\ pc[t] = "setup" => group[ptr[t]].num >= 1 /\ group[ptr[t]].counter = 0
    /\ pc[t] = "publish" => Ready(ptr[t])
    /\ pc[t] = "destroy" => ptr[t] \in live /\ ptr[t] = queueGroups[arg[t].id]
    /\ pc[t] = "clear" => ptr[t] \in Group \ live /\ ptr[t] = queueGroups[arg[t].id]
    /\ pc[t] \in {"use", "cas"} => ptr[t] \in Group /\ ptr[t] = queueGroups[arg[t].id]
    /\ pc[t] = "cas" =>
        /\ offset[t] < group[ptr[t]].num
        /\ moved[t] \/ offset[t] = group[ptr[t]].counter
    /\ pc[t] # "cas" => moved[t]
ThreadInv == \A t \in Thread : ThreadOK(t)

\* The application's promise: nobody deletes a group that a call uses.
Exclusion ==
    \A t, u \in Thread : pc[t] \in InGet /\ pc[u] \in InDelete => arg[t].id # arg[u].id

IInv == TypeOK /\ LockInv /\ TableInv /\ ThreadInv /\ Exclusion

-----------------------------------------------------------------------------

\* An element that is appended is one more, at the end.
LEMMA AppendElement ==
    ASSUME NEW S, NEW s \in Seq(S), NEW e \in S
    PROVE  /\ Append(s, e) \in Seq(S)
           /\ Range(Append(s, e)) = Range(s) \cup {e}
           /\ IsInjective(s) /\ e \notin Range(s) => IsInjective(Append(s, e))
           /\ Head(Append(s, e)) = IF s = <<>> THEN e ELSE Head(s)
  <1> DEFINE a == Append(s, e)
  <1>1. /\ a \in Seq(S) /\ Len(a) = Len(s) + 1 /\ Len(s) \in Nat
        /\ \A i \in 1 .. Len(s) : a[i] = s[i]
        /\ a[Len(s) + 1] = e
    BY AppendProperties, LenProperties
  <1>2. DOMAIN s = 1 .. Len(s) /\ DOMAIN a = 1 .. Len(s) + 1
    BY <1>1, LenProperties
  <1>3. Head(a) = IF s = <<>> THEN e ELSE Head(s)
    BY HeadTailAppend
  <1> HIDE DEF a
  <1>4. Range(a) = Range(s) \cup {e}
    BY <1>1, <1>2 DEF Range
  <1>5. IsInjective(s) /\ e \notin Range(s) => IsInjective(a)
    BY <1>1, <1>2 DEF Range, IsInjective
  <1>6. QED
    BY <1>1, <1>3, <1>4, <1>5 DEF a

\* The rest of a sequence has all its elements but the first.
LEMMA TailElements ==
    ASSUME NEW S, NEW s \in Seq(S), s # <<>>, IsInjective(s)
    PROVE  /\ Tail(s) \in Seq(S)
           /\ Head(s) \in Range(s) /\ Head(s) \in S
           /\ Range(Tail(s)) = Range(s) \ {Head(s)}
           /\ IsInjective(Tail(s))
  <1> DEFINE r == Tail(s)
  <1>1. /\ r \in Seq(S) /\ Len(r) = Len(s) - 1 /\ Len(s) \in Nat /\ Len(s) >= 1
        /\ \A i \in 1 .. Len(r) : r[i] = s[i + 1]
        /\ Head(s) = s[1]
    BY HeadTailProperties, LenProperties, EmptySeq
  <1>2. DOMAIN s = 1 .. Len(s) /\ DOMAIN r = 1 .. Len(s) - 1
    BY <1>1, LenProperties
  <1> HIDE DEF r
  <1>3. \A i \in DOMAIN r : i + 1 \in DOMAIN s /\ i + 1 # 1 /\ r[i] = s[i + 1]
    BY <1>1, <1>2
  <1>4. \A i \in DOMAIN s : i # 1 => i - 1 \in DOMAIN r /\ (i - 1) + 1 = i
    BY <1>1, <1>2
  <1>5. Range(r) = Range(s) \ {s[1]}
    <2>1. ASSUME NEW x \in Range(r) PROVE x \in Range(s) /\ x # s[1]
      <3>1. PICK i \in DOMAIN r : x = r[i]
        BY DEF Range
      <3>2. QED
        BY <1>1, <1>2, <1>3, <3>1 DEF Range, IsInjective
    <2>2. ASSUME NEW x \in Range(s), x # s[1] PROVE x \in Range(r)
      <3>1. PICK i \in DOMAIN s : x = s[i]
        BY DEF Range
      <3>2. r[i - 1] = s[(i - 1) + 1] /\ i - 1 \in DOMAIN r
        BY <1>3, <1>4, <2>2, <3>1
      <3>3. QED
        BY <1>4, <2>2, <3>1, <3>2 DEF Range
    <2>3. QED
      BY <2>1, <2>2
  <1>6. IsInjective(r)
    <2> SUFFICES ASSUME NEW i \in DOMAIN r, NEW j \in DOMAIN r, r[i] = r[j] PROVE i = j
      BY DEF IsInjective
    <2>1. i + 1 = j + 1
      BY <1>3 DEF IsInjective
    <2>2. QED
      BY <1>1, <1>2, <2>1
  <1>7. s[1] \in Range(s) /\ s[1] \in S
    <2>1. 1 \in 1 .. Len(s)
      BY <1>1
    <2>2. QED
      BY <1>2, <2>1, ElementOfSeq DEF Range
  <1>8. QED
    BY <1>1, <1>5, <1>6, <1>7 DEF r


-----------------------------------------------------------------------------

\* Only one thread is where it needs the lock.
LEMMA OneHolder ==
    ASSUME LockInv, NEW t \in Thread, pc[t] \in Holding \/ Holds(t),
           NEW u \in Thread, pc[u] \in Holding
    PROVE  u = t
  BY DEF LockInv, Holds

\* A call that uses a group has one that is allocated and ready.
LEMMA UsedReady ==
    ASSUME IInv, NEW t \in Thread, pc[t] \in {"use", "cas"}
    PROVE  /\ arg[t].id \in GroupId /\ ptr[t] = queueGroups[arg[t].id] /\ ptr[t] # Null
           /\ ptr[t] \in live /\ Ready(ptr[t]) /\ ptr[t] \in Group
  <1>1. ptr[t] = queueGroups[arg[t].id] /\ ptr[t] \in Group /\ ptr[t] # Null
    BY QueueGroupsAssumption DEF IInv, ThreadInv, ThreadOK
  <1>2. arg[t].id \in GroupId
    BY DEF IInv, TypeOK
  <1>3. ~\E u \in Thread : pc[u] = "clear" /\ arg[u].id = arg[t].id
    BY DEF IInv, Exclusion, InGet, InDelete
  <1>4. ptr[t] \in live /\ Ready(ptr[t])
    BY <1>1, <1>2, <1>3 DEF IInv, TableInv
  <1>5. QED
    BY <1>1, <1>2, <1>4

\* While a thread has the lock and does not clear an id, every group in the
\* table is allocated and ready.
LEMMA TableLive ==
    ASSUME IInv, NEW t \in Thread, pc[t] \in Holding \/ Holds(t), pc[t] # "clear",
           NEW i \in GroupId, queueGroups[i] # Null
    PROVE  queueGroups[i] \in live /\ Ready(queueGroups[i])
  <1>1. ~\E u \in Thread : pc[u] = "clear"
    BY OneHolder DEF IInv, Holding
  <1>2. QED
    BY <1>1 DEF IInv, TableInv

\* Nothing is allocated and nobody calls.
LEMMA InitIInv == Init => IInv
  <1> SUFFICES ASSUME Init PROVE IInv
    OBVIOUS
  <1> USE DEF Init
  <1>1. TypeOK
    <2>1. 0 \in GroupId /\ 0 \in 0 .. maxQueueGroups
      BY QueueGroupsAssumption DEF GroupId
    <2>2. NoGroup \in QueueGroup
      BY DEF NoGroup, QueueGroup, Policy
    <2>3. NoArg \in [id : GroupId, num : NumQueues \cup {0}, policy : Policy]
      BY <2>1 DEF NoArg, Policy
    <2>4. QED
      BY <2>1, <2>2, <2>3 DEF TypeOK
  <1>2. LockInv
    BY DEF LockInv, Range, IsInjective, Within, Holding
  <1>3. TableInv
    <2>1. UsedIds = {}
      BY DEF UsedIds
    <2>2. Cardinality(UsedIds) = 0
      BY <2>1, FS_EmptySet
    <2>3. QED
      BY <2>2 DEF TableInv
  <1>4. ThreadInv
    BY DEF ThreadInv, ThreadOK
  <1>5. Exclusion
    BY DEF Exclusion, InGet, InDelete
  <1>6. QED
    BY <1>1, <1>2, <1>3, <1>4, <1>5 DEF IInv

-----------------------------------------------------------------------------

\* Every step keeps the types.
LEMMA StepType == IInv /\ [Next]_vars => TypeOK'
  <1> SUFFICES ASSUME IInv, [Next]_vars PROVE TypeOK'
    OBVIOUS
  <1> USE DEF tableVars, heapVars, getVars, Goto
  <1>0. TypeOK /\ LockInv /\ TableInv /\ ThreadInv
    BY DEF IInv
  <1>A. /\ NoArg \in [id : GroupId, num : NumQueues \cup {0}, policy : Policy]
        /\ NoGroup \in QueueGroup
    BY QueueGroupsAssumption DEF NoArg, NoGroup, QueueGroup, Policy, GroupId
  <1>1. ASSUME NEW t \in Thread, Call(t) PROVE TypeOK'
    <2>1. PICK id \in GroupId :
            \/ \E num \in NumQueues, policy \in Policy :
                tagaspi_queue_group_create(t, id, num, policy)
            \/ tagaspi_queue_group_delete(t, id)
            \/ tagaspi_queue_group_get_queue(t, id)
      BY <1>1 DEF Call
    <2>2. [NoArg EXCEPT !.id = id] \in [id : GroupId, num : NumQueues \cup {0}, policy : Policy]
      BY <1>A
    <2>3. CASE \E num \in NumQueues, policy \in Policy :
                tagaspi_queue_group_create(t, id, num, policy)
      BY <1>0, <2>3 DEF TypeOK, tagaspi_queue_group_create
    <2>4. CASE tagaspi_queue_group_delete(t, id)
      BY <1>0, <2>2, <2>4 DEF TypeOK, tagaspi_queue_group_delete
    <2>5. CASE tagaspi_queue_group_get_queue(t, id)
      BY <1>0, <2>2, <2>5 DEF TypeOK, tagaspi_queue_group_get_queue
    <2>6. QED
      BY <2>1, <2>3, <2>4, <2>5
  <1>2. ASSUME NEW t \in Thread, CheckAndNew(t) PROVE TypeOK'
    <2>1. [NoGroup EXCEPT !.num = arg[t].num] \in QueueGroup
      BY <1>0, <1>A DEF TypeOK, QueueGroup
    <2>2. CASE CreateFails(t)
      BY <1>0, <1>2, <2>2 DEF TypeOK, CheckAndNew
    <2>3. CASE ~CreateFails(t)
      <3>1. PICK g \in Group \ live : QueueGroupNew(t, g) /\ ptr' = [ptr EXCEPT ![t] = g]
        BY <1>2, <2>3 DEF CheckAndNew
      <3>2. pc' = [pc EXCEPT ![t] = "setup"] /\ UNCHANGED <<numQueueGroups, lock, arg, getVars>>
        BY <1>2, <2>3 DEF CheckAndNew
      <3>3. group' \in [Group -> QueueGroup] /\ live' \subseteq Group
        BY <1>0, <2>1, <3>1 DEF TypeOK, QueueGroupNew
      <3>4. ptr' \in [Thread -> Group \cup {Null}]
        BY <1>0, <3>1 DEF TypeOK
      <3>5. queueGroups' = queueGroups
        BY <3>1 DEF QueueGroupNew
      <3>6. QED
        BY <1>0, <3>2, <3>3, <3>4, <3>5 DEF TypeOK
    <2>4. QED
      BY <2>2, <2>3
  <1>3. ASSUME NEW t \in Thread, setupPolicy(t) PROVE TypeOK'
    <2>1. \A x \in QueueGroup, p \in Policy, d \in {"null", "counter", "table"} :
            [x EXCEPT !.policy = p, !.data = d] \in QueueGroup
      BY DEF QueueGroup
    <2>2. ptr[t] \in Group /\ arg[t].policy \in Policy
      BY <1>0, <1>3 DEF ThreadInv, ThreadOK, setupPolicy, TypeOK
    <2>3. group' \in [Group -> QueueGroup]
      <3>1. \E x \in QueueGroup : group' = [group EXCEPT ![ptr[t]] = x]
        <4>1. group[ptr[t]] \in QueueGroup
          BY <1>0, <2>2 DEF TypeOK
        <4>2. PICK d \in {"null", "counter", "table"} :
                d = IF arg[t].policy = "DEFAULT" THEN "counter" ELSE "table"
          OBVIOUS
        <4>3. group' = [group EXCEPT ![ptr[t]] =
                          [group[ptr[t]] EXCEPT !.policy = arg[t].policy, !.data = d]]
          BY <1>0, <1>3, <2>2, <4>2 DEF setupPolicy, TypeOK
        <4>4. [group[ptr[t]] EXCEPT !.policy = arg[t].policy, !.data = d] \in QueueGroup
          BY <2>1, <2>2, <4>1, Zenon
        <4>5. QED
          BY <4>3, <4>4, Zenon
      <3>2. QED
        BY <1>0, <3>1 DEF TypeOK
    <2>4. QED
      BY <1>0, <1>3, <2>3 DEF TypeOK, setupPolicy
  <1>4. ASSUME NEW t \in Thread, Publish(t) PROVE TypeOK'
    <2>1. numQueueGroups + 1 \in 0 .. maxQueueGroups
      BY <1>0, <1>4, QueueGroupsAssumption DEF ThreadInv, ThreadOK, Publish, TypeOK
    <2>2. QED
      BY <1>0, <1>4, <2>1 DEF TypeOK, Publish
  <1>5. ASSUME NEW t \in Thread, FindGroup(t) PROVE TypeOK'
    BY <1>0, <1>5 DEF TypeOK, FindGroup
  <1>6. ASSUME NEW t \in Thread, Destroy(t) PROVE TypeOK'
    BY <1>0, <1>A, <1>6 DEF TypeOK, Destroy
  <1>7. ASSUME NEW t \in Thread, Clear(t) PROVE TypeOK'
    <2>1. arg[t].id \in UsedIds
      BY <1>0, <1>7, QueueGroupsAssumption DEF ThreadInv, ThreadOK, Clear, TypeOK, UsedIds
    <2>2. IsFiniteSet(UsedIds)
      <3>1. IsFiniteSet(GroupId)
        BY QueueGroupsAssumption, FS_Interval DEF GroupId
      <3>2. QED
        BY <3>1, FS_Subset DEF UsedIds
    <2>3. numQueueGroups # 0
      BY <1>0, <2>1, <2>2, FS_EmptySet DEF TableInv
    <2>4. numQueueGroups - 1 \in 0 .. maxQueueGroups
      BY <1>0, <2>3, QueueGroupsAssumption DEF TypeOK
    <2>5. QED
      BY <1>0, <1>7, <2>4, QueueGroupsAssumption DEF TypeOK, Clear, OneLess
  <1>8. ASSUME NEW t \in Thread, Unlock(t) PROVE TypeOK'
    <2>1. t \in Range(lock)
      BY <1>0, <1>8 DEF LockInv, Unlock, Within, Holding
    <2>2. lock # <<>>
      BY <2>1 DEF Range
    <2>3. Tail(lock) \in Seq(Thread)
      BY <1>0, <2>2, TailElements DEF TypeOK, LockInv
    <2>4. QED
      BY <1>0, <1>A, <1>8, <2>3 DEF TypeOK, Unlock, Release
  <1>9. ASSUME NEW t \in Thread, ReadPointer(t) PROVE TypeOK'
    BY <1>0, <1>A, <1>9 DEF TypeOK, ReadPointer
  <1>10. ASSUME NEW t \in Thread, getQueue(t) PROVE TypeOK'
    <2>1. group[ptr[t]].counter \in Nat
      BY <1>0, <1>10, UsedReady DEF TypeOK, QueueGroup, getQueue
    <2>2. /\ offset' = offset \/ offset' = [offset EXCEPT ![t] = group[ptr[t]].counter]
          /\ moved' = moved \/ moved' = [moved EXCEPT ![t] = FALSE]
          /\ arg' = arg \/ arg' = [arg EXCEPT ![t] = NoArg]
          /\ ptr' = ptr \/ ptr' = [ptr EXCEPT ![t] = Null]
          /\ \E x \in {"cas", "idle"} : pc' = [pc EXCEPT ![t] = x]
          /\ UNCHANGED <<tableVars, lock, heapVars>>
      BY <1>10 DEF getQueue, Return
    <2> HIDE DEF NoArg
    <2>3. offset' \in [Thread -> Nat] /\ moved' \in [Thread -> BOOLEAN]
      BY <1>0, <2>1, <2>2 DEF TypeOK
    <2>4. arg' \in [Thread -> [id : GroupId, num : NumQueues \cup {0}, policy : Policy]]
      BY <1>0, <1>A, <2>2 DEF TypeOK
    <2>5. QED
      BY <1>0, <2>2, <2>3, <2>4 DEF TypeOK
  <1>11. ASSUME NEW t \in Thread, AdvanceCounter(t) PROVE TypeOK'
    <2>1. ptr[t] \in Group
      BY <1>0, <1>11, UsedReady DEF AdvanceCounter, Return
    <2>2. \A x \in QueueGroup, n \in Nat : [x EXCEPT !.counter = n] \in QueueGroup
      BY DEF QueueGroup
    <2>3. group[ptr[t]] \in QueueGroup /\ offset[t] \in Nat
      BY <1>0, <2>1 DEF TypeOK
    <2>4. nextOffset(offset[t], group[ptr[t]].num) \in Nat
      BY <2>3 DEF nextOffset
    <2>5. group' \in [Group -> QueueGroup]
      <3>1. group' = group \/ group' = [group EXCEPT ![ptr[t]] =
                [group[ptr[t]] EXCEPT !.counter = nextOffset(offset[t], group[ptr[t]].num)]]
        BY <1>0, <1>11, <2>1 DEF AdvanceCounter, Exchange, TypeOK
      <3>2. PICK x \in QueueGroup : x = [group[ptr[t]] EXCEPT !.counter =
                                          nextOffset(offset[t], group[ptr[t]].num)]
        BY <2>2, <2>3, <2>4
      <3>3. group' = group \/ group' = [group EXCEPT ![ptr[t]] = x]
        BY <3>1, <3>2
      <3>4. QED
        BY <1>0, <3>3 DEF TypeOK
    <2>6. moved' \in [Thread -> BOOLEAN]
      BY <1>0, <1>11 DEF AdvanceCounter, Exchange, TypeOK
    <2>7. QED
      BY <1>0, <1>A, <1>11, <2>5, <2>6 DEF TypeOK, AdvanceCounter, Return
  <1>12. CASE UNCHANGED vars
    BY <1>0, <1>12 DEF TypeOK, vars
  <1>13. QED
    BY <1>1, <1>2, <1>3, <1>4, <1>5, <1>6, <1>7, <1>8, <1>9, <1>10, <1>11, <1>12 DEF Next, Step

-----------------------------------------------------------------------------

\* The lock serves creations and deletions in the order of their calls.
LEMMA StepLock == IInv /\ [Next]_vars => LockInv'
  <1> SUFFICES ASSUME IInv, [Next]_vars PROVE LockInv'
    OBVIOUS
  <1> USE DEF tableVars, heapVars, getVars, Goto
  <1>0. TypeOK /\ LockInv
    BY DEF IInv
  <1>f. ASSUME NEW t \in Thread, NEW x, lock' = lock, pc' = [pc EXCEPT ![t] = x],
               pc[t] \in Within <=> x \in Within, x \in Holding => t = Head(lock)
        PROVE  LockInv'
    BY <1>0, <1>f DEF LockInv, TypeOK
  <1>a. ASSUME NEW t \in Thread, NEW x, lock' = Append(lock, t), pc' = [pc EXCEPT ![t] = x],
               pc[t] = "idle", x \in {"create", "delete"}
        PROVE  LockInv'
    <2>1. t \notin Range(lock) /\ IsInjective(lock) /\ lock \in Seq(Thread)
      BY <1>0, <1>a DEF LockInv, Within, Holding, TypeOK
    <2>2. /\ Range(lock') = Range(lock) \cup {t} /\ IsInjective(lock')
          /\ Head(lock') = IF lock = <<>> THEN t ELSE Head(lock)
      BY <1>a, <2>1, AppendElement
    <2>3. {u \in Thread : pc'[u] \in Within} = {u \in Thread : pc[u] \in Within} \cup {t}
      BY <1>0, <1>a DEF Within, TypeOK
    <2>4. ASSUME NEW u \in Thread, pc'[u] \in Holding PROVE u = Head(lock')
      <3>1. pc[u] \in Holding
        BY <1>0, <1>a, <2>4 DEF Holding, TypeOK
      <3>2. u \in Range(lock) /\ u = Head(lock)
        BY <1>0, <3>1 DEF LockInv, Within
      <3>3. lock # <<>>
        BY <3>2 DEF Range
      <3>4. QED
        BY <2>2, <3>2, <3>3
    <2>5. QED
      BY <1>0, <2>2, <2>3, <2>4 DEF LockInv
  <1>1. ASSUME NEW t \in Thread, Call(t) PROVE LockInv'
    <2>1. \/ lock' = Append(lock, t) /\ Goto(t, "idle", "create")
          \/ lock' = Append(lock, t) /\ Goto(t, "idle", "delete")
          \/ lock' = lock /\ Goto(t, "idle", "get")
      BY <1>1 DEF Call, tagaspi_queue_group_create, tagaspi_queue_group_delete,
                  tagaspi_queue_group_get_queue
    <2>2. QED
      BY <1>a, <1>f, <2>1 DEF Within, Holding
  <1>2. ASSUME NEW t \in Thread, CheckAndNew(t) PROVE LockInv'
    <2>1. \E x \in {"setup", "unlock"} : Goto(t, "create", x) /\ lock' = lock /\ Holds(t)
      BY <1>2 DEF CheckAndNew
    <2>2. QED
      BY <1>f, <2>1 DEF Within, Holding, Holds
  <1>3. ASSUME NEW t \in Thread, setupPolicy(t) \/ Publish(t) \/ Destroy(t) \/ Clear(t)
        PROVE  LockInv'
    <2>1. /\ lock' = lock /\ pc[t] \in Holding
          /\ \E x \in Holding : pc' = [pc EXCEPT ![t] = x]
      BY <1>3 DEF setupPolicy, Publish, Destroy, Clear, Holding
    <2>2. t = Head(lock)
      BY <1>0, <2>1 DEF LockInv
    <2>3. QED
      BY <1>f, <2>1, <2>2 DEF Within
  <1>4. ASSUME NEW t \in Thread, FindGroup(t) PROVE LockInv'
    <2>1. \E x \in {"destroy", "unlock"} : Goto(t, "delete", x) /\ lock' = lock /\ Holds(t)
      BY <1>4 DEF FindGroup
    <2>2. QED
      BY <1>f, <2>1 DEF Within, Holding, Holds
  <1>5. ASSUME NEW t \in Thread, Unlock(t) PROVE LockInv'
    <2>1. lock' = Tail(lock) /\ pc[t] = "unlock" /\ pc' = [pc EXCEPT ![t] = "idle"]
      BY <1>5 DEF Unlock, Release
    <2>2. t \in Range(lock) /\ t = Head(lock)
      BY <1>0, <2>1 DEF LockInv, Within, Holding
    <2>3. lock # <<>> /\ lock \in Seq(Thread) /\ IsInjective(lock)
      BY <1>0, <2>2 DEF Range, LockInv, TypeOK
    <2>4. Range(lock') = Range(lock) \ {t} /\ IsInjective(lock')
      BY <2>1, <2>2, <2>3, TailElements
    <2>5. {u \in Thread : pc'[u] \in Within} = {u \in Thread : pc[u] \in Within} \ {t}
      BY <1>0, <2>1 DEF Within, Holding, TypeOK
    <2>6. \A u \in Thread : pc'[u] \notin Holding
      BY <1>0, <2>1, <2>2 DEF LockInv, Holding, TypeOK
    <2>7. QED
      BY <1>0, <2>4, <2>5, <2>6 DEF LockInv
  <1>6. ASSUME NEW t \in Thread, ReadPointer(t) \/ getQueue(t) \/ AdvanceCounter(t)
        PROVE  LockInv'
    <2>1. lock' = lock /\ pc[t] \in InGet
          /\ \E x \in {"idle", "use", "cas"} : pc' = [pc EXCEPT ![t] = x]
      BY <1>6 DEF ReadPointer, getQueue, AdvanceCounter, Return, InGet
    <2>2. QED
      BY <1>f, <2>1 DEF Within, Holding, InGet
  <1>7. CASE UNCHANGED vars
    BY <1>0, <1>7 DEF LockInv, vars
  <1>8. QED
    BY <1>1, <1>2, <1>3, <1>4, <1>5, <1>6, <1>7 DEF Next, Step

-----------------------------------------------------------------------------

\* The size of a group is a natural number.
LEMMA SizesNat == \A x \in QueueGroup : x.num \in Nat
  <1>1. NumQueues \cup {0} \subseteq Nat
    BY QueueGroupsAssumption
  <1>2. \A x \in QueueGroup : x.num \in NumQueues \cup {0}
    BY DEF QueueGroup
  <1>3. QED
    BY <1>1, <1>2, Zenon

\* What a successful creation allocates.
LEMMA NewEffect ==
    ASSUME IInv, NEW t \in Thread, CheckAndNew(t), ~CreateFails(t)
    PROVE  \E g \in Group \ live :
            /\ live' = live \cup {g} /\ ptr' = [ptr EXCEPT ![t] = g]
            /\ group'[g].num = arg[t].num /\ group'[g].counter = 0
            /\ \A h \in Group : h # g => group'[h] = group[h]
            /\ pc[t] = "create" /\ pc' = [pc EXCEPT ![t] = "setup"]
            /\ UNCHANGED <<tableVars, lock, arg, getVars>>
  <1>1. PICK g \in Group \ live : QueueGroupNew(t, g) /\ ptr' = [ptr EXCEPT ![t] = g]
    BY DEF CheckAndNew
  <1>2. group' = [group EXCEPT ![g] = [NoGroup EXCEPT !.num = arg[t].num]]
    BY <1>1 DEF QueueGroupNew
  <1>3. group'[g].num = arg[t].num /\ group'[g].counter = 0
    BY <1>2 DEF IInv, TypeOK, NoGroup
  <1>4. \A h \in Group : h # g => group'[h] = group[h]
    BY <1>2 DEF IInv, TypeOK
  <1>5. live' = live \cup {g} /\ UNCHANGED queueGroups
    BY <1>1 DEF QueueGroupNew
  <1>6. pc[t] = "create" /\ pc' = [pc EXCEPT ![t] = "setup"]
        /\ UNCHANGED <<numQueueGroups, lock, arg, getVars>>
    BY DEF CheckAndNew, Goto
  <1>7. QED
    BY <1>1, <1>3, <1>4, <1>5, <1>6 DEF tableVars

\* The set-up of a new group changes no other, and leaves it ready.
LEMMA SetupEffect ==
    ASSUME IInv, NEW t \in Thread, setupPolicy(t)
    PROVE  /\ ptr[t] \in live /\ \A i \in GroupId : queueGroups[i] # ptr[t]
           /\ Ready(ptr[t])' /\ ptr' = ptr
           /\ \A g \in Group : g # ptr[t] => group'[g] = group[g]
  <1>1. /\ ptr[t] \in live /\ ptr[t] \in Group /\ \A i \in GroupId : queueGroups[i] # ptr[t]
        /\ group[ptr[t]].num >= 1 /\ group[ptr[t]].counter = 0
    BY DEF IInv, ThreadInv, ThreadOK, setupPolicy, Goto, TypeOK
  <1>2. ptr' = ptr
    BY DEF setupPolicy
  <1>3. PICK g, p, d : /\ g \in Group /\ g = ptr[t] /\ p = arg[t].policy
                       /\ d = IF p = "DEFAULT" THEN "counter" ELSE "table"
    BY <1>1
  <1>4. group' = [group EXCEPT ![g] = [group[g] EXCEPT !.policy = p, !.data = d]]
    BY <1>3 DEF IInv, TypeOK, setupPolicy
  <1>5. g \in Group /\ group[g] \in QueueGroup /\ group \in [Group -> QueueGroup]
    BY <1>3 DEF IInv, TypeOK
  <1>6. group'[g] = [group[g] EXCEPT !.policy = p, !.data = d]
    BY <1>4, <1>5, Zenon
  <1>7. /\ group'[g].policy = p /\ group'[g].data = d
        /\ group'[g].num = group[g].num /\ group'[g].counter = group[g].counter
    BY <1>5, <1>6 DEF QueueGroup
  <1>8. \A h \in Group : h # g => group'[h] = group[h]
    BY <1>4, <1>5
  <1>9. Ready(g)'
    BY <1>1, <1>3, <1>5, <1>7, SizesNat DEF Ready
  <1>10. QED
    BY <1>1, <1>2, <1>3, <1>8, <1>9

\* The exchange moves the counter of its group on, within the group, or does
\* nothing as another thread has moved it.
LEMMA ExchangeEffect ==
    ASSUME IInv, NEW t \in Thread, AdvanceCounter(t)
    PROVE  /\ \A h \in Group : h # ptr[t] => group'[h] = group[h]
           /\ \A h \in Group : /\ group'[h].num = group[h].num
                               /\ Ready(h) => Ready(h)'
           /\ \/ group' = group /\ moved' = moved /\ group[ptr[t]].counter # offset[t]
              \/ moved' = [u \in Thread |-> moved[u] \/ ptr[u] = ptr[t]]
  <1>1. PICK g \in Group : g = ptr[t] /\ Ready(g)
    BY UsedReady DEF AdvanceCounter, Return, Goto
  <1>2. group[g] \in QueueGroup /\ group \in [Group -> QueueGroup] /\ offset[t] \in Nat
    BY DEF IInv, TypeOK
  <1>3. CASE group[g].counter # offset[t] /\ UNCHANGED <<group, moved>>
    BY <1>1, <1>3 DEF Ready
  <1>4. CASE /\ group[g].counter = offset[t]
             /\ group' = [group EXCEPT ![g].counter = nextOffset(offset[t], group[g].num)]
             /\ moved' = [u \in Thread |-> moved[u] \/ ptr[u] = g]
    <2>1. group[g].num \in Nat
      BY <1>2, SizesNat
    <2>2. PICK n \in Nat : n = nextOffset(offset[t], group[g].num) /\ n < group[g].num
      BY <1>1, <1>2, <1>4, <2>1 DEF nextOffset, Ready
    <2>3. group' = [group EXCEPT ![g] = [group[g] EXCEPT !.counter = n]]
      BY <1>2, <1>4, <2>2
    <2>4. group'[g] = [group[g] EXCEPT !.counter = n]
      BY <1>2, <2>3, Zenon
    <2>5. /\ group'[g].policy = group[g].policy /\ group'[g].data = group[g].data
          /\ group'[g].num = group[g].num /\ group'[g].counter = n
      BY <1>2, <2>4 DEF QueueGroup
    <2>6. \A h \in Group : h # g => group'[h] = group[h]
      BY <1>2, <2>3
    <2>7. QED
      BY <1>1, <1>4, <2>2, <2>5, <2>6 DEF Ready
  <1>5. QED
    BY <1>1, <1>3, <1>4 DEF AdvanceCounter, Exchange

-----------------------------------------------------------------------------

\* The ids of groups are finitely many.
LEMMA UsedFinite == IsFiniteSet(UsedIds) /\ Cardinality(UsedIds) \in Nat
  <1>1. IsFiniteSet(GroupId)
    BY QueueGroupsAssumption, FS_Interval DEF GroupId
  <1>2. IsFiniteSet(UsedIds)
    BY <1>1, FS_Subset DEF UsedIds
  <1>3. QED
    BY <1>2, FS_CardinalityType

\* The table and the heap agree, but for the group that is being made or freed.
LEMMA StepTable == IInv /\ [Next]_vars => TableInv'
  <1> SUFFICES ASSUME IInv, [Next]_vars PROVE TableInv'
    OBVIOUS
  <1> USE DEF tableVars, heapVars, getVars
  <1>0. TypeOK /\ LockInv /\ TableInv /\ ThreadInv
    BY DEF IInv
  <1>f. ASSUME NEW t \in Thread, UNCHANGED <<tableVars, heapVars>>,
               \A u \in Thread : u # t => pc'[u] = pc[u] /\ arg'[u] = arg[u] /\ ptr'[u] = ptr[u],
               pc[t] \notin {"setup", "publish", "clear"}
        PROVE  TableInv'
    BY <1>0, <1>f DEF TableInv, UsedIds, Ready
  <1>1. ASSUME NEW t \in Thread, Call(t) PROVE TableInv'
    <2>1. /\ UNCHANGED <<tableVars, heapVars, ptr>> /\ pc[t] = "idle"
          /\ \E x, y : arg' = [arg EXCEPT ![t] = x] /\ pc' = [pc EXCEPT ![t] = y]
      BY <1>1 DEF Call, tagaspi_queue_group_create, tagaspi_queue_group_delete,
                  tagaspi_queue_group_get_queue, Goto
    <2>2. QED
      BY <1>0, <1>f, <2>1 DEF TypeOK
  <1>2. ASSUME NEW t \in Thread, CheckAndNew(t), CreateFails(t) PROVE TableInv'
    <2>1. /\ UNCHANGED <<tableVars, heapVars, ptr, arg>> /\ pc[t] = "create"
          /\ pc' = [pc EXCEPT ![t] = "unlock"]
      BY <1>2 DEF CheckAndNew, Goto
    <2>2. QED
      BY <1>0, <1>f, <2>1 DEF TypeOK
  <1>3. ASSUME NEW t \in Thread, FindGroup(t) PROVE TableInv'
    <2>1. /\ UNCHANGED <<tableVars, heapVars, arg>> /\ pc[t] = "delete"
          /\ \E x, y : ptr' = [ptr EXCEPT ![t] = x] /\ pc' = [pc EXCEPT ![t] = y]
      BY <1>3 DEF FindGroup, Goto
    <2>2. QED
      BY <1>0, <1>f, <2>1 DEF TypeOK
  <1>4. ASSUME NEW t \in Thread, Unlock(t) \/ ReadPointer(t) \/ getQueue(t) PROVE TableInv'
    <2>1. /\ UNCHANGED <<tableVars, heapVars>> /\ pc[t] \in {"unlock", "get", "use"}
          /\ \E y : pc' = [pc EXCEPT ![t] = y]
          /\ ptr' = ptr \/ \E y : ptr' = [ptr EXCEPT ![t] = y]
          /\ arg' = arg \/ \E y : arg' = [arg EXCEPT ![t] = y]
      BY <1>4 DEF Unlock, ReadPointer, getQueue, Return, Goto
    <2>2. QED
      BY <1>0, <1>f, <2>1 DEF TypeOK
  <1>5. ASSUME NEW t \in Thread, CheckAndNew(t), ~CreateFails(t) PROVE TableInv'
    <2>1. PICK g \in Group \ live :
            /\ live' = live \cup {g} /\ ptr' = [ptr EXCEPT ![t] = g]
            /\ group'[g].num = arg[t].num /\ group'[g].counter = 0
            /\ \A h \in Group : h # g => group'[h] = group[h]
            /\ pc[t] = "create" /\ pc' = [pc EXCEPT ![t] = "setup"]
            /\ UNCHANGED <<tableVars, lock, arg, getVars>>
      BY <1>5, NewEffect
    <2>2. ASSUME NEW i \in GroupId, queueGroups[i] # Null
          PROVE  queueGroups[i] \in live' /\ Ready(queueGroups[i])'
      <3>1. Holds(t) /\ pc[t] # "clear"
        BY <1>5, <2>1 DEF CheckAndNew
      <3>2. queueGroups[i] \in live /\ Ready(queueGroups[i])
        BY <2>2, <3>1, TableLive
      <3>3. group'[queueGroups[i]] = group[queueGroups[i]]
        BY <1>0, <2>1, <3>2 DEF TypeOK
      <3>4. QED
        BY <2>1, <3>2, <3>3 DEF Ready
    <2>3. ASSUME NEW h \in live'
          PROVE  \/ \E i \in GroupId : queueGroups'[i] = h
                 \/ \E u \in Thread : pc'[u] \in {"setup", "publish"} /\ ptr'[u] = h
      <3>1. CASE h = g
        BY <1>0, <2>1, <3>1 DEF TypeOK
      <3>2. CASE h \in live
        BY <1>0, <2>1, <3>2 DEF TypeOK, TableInv
      <3>3. QED
        BY <2>1, <3>1, <3>2
    <2>4. UsedIds' = UsedIds /\ numQueueGroups' = numQueueGroups /\ queueGroups' = queueGroups
      BY <2>1 DEF UsedIds
    <2>5. QED
      BY <1>0, <2>2, <2>3, <2>4 DEF TableInv
  <1>6. ASSUME NEW t \in Thread, setupPolicy(t) PROVE TableInv'
    <2>1. /\ UNCHANGED <<tableVars, live, arg, ptr>> /\ pc[t] = "setup"
          /\ pc' = [pc EXCEPT ![t] = "publish"]
      BY <1>6 DEF setupPolicy, Goto
    <2>2. /\ \A i \in GroupId : queueGroups[i] # ptr[t]
          /\ \A g \in Group : g # ptr[t] => group'[g] = group[g]
      BY <1>6, SetupEffect
    <2>3. ASSUME NEW i \in GroupId, queueGroups[i] # Null
          PROVE  queueGroups[i] \in live' /\ Ready(queueGroups[i])'
      <3>1. queueGroups[i] \in live /\ Ready(queueGroups[i])
        BY <2>1, <2>3, TableLive DEF Holding
      <3>2. group'[queueGroups[i]] = group[queueGroups[i]]
        BY <1>0, <2>2, <3>1 DEF TypeOK
      <3>3. QED
        BY <2>1, <3>1, <3>2 DEF Ready
    <2>4. ASSUME NEW h \in live'
          PROVE  \/ \E i \in GroupId : queueGroups'[i] = h
                 \/ \E u \in Thread : pc'[u] \in {"setup", "publish"} /\ ptr'[u] = h
      BY <1>0, <2>1 DEF TypeOK, TableInv
    <2>5. UsedIds' = UsedIds /\ numQueueGroups' = numQueueGroups /\ queueGroups' = queueGroups
      BY <2>1 DEF UsedIds
    <2>6. QED
      BY <1>0, <2>3, <2>4, <2>5 DEF TableInv
  <1>7. ASSUME NEW t \in Thread, Publish(t) PROVE TableInv'
    <2>1. PICK g \in Group, id \in GroupId : g = ptr[t] /\ id = arg[t].id
      BY <1>0, <1>7 DEF TypeOK, ThreadInv, ThreadOK, Publish, Goto
    <2>2. /\ queueGroups' = [queueGroups EXCEPT ![id] = g]
          /\ numQueueGroups' = numQueueGroups + 1
          /\ UNCHANGED <<heapVars, arg, ptr>> /\ pc[t] = "publish"
          /\ pc' = [pc EXCEPT ![t] = "unlock"]
      BY <1>7, <2>1 DEF Publish, Goto
    <2>3. /\ g \in live /\ Ready(g) /\ queueGroups[id] = Null
          /\ \A i \in GroupId : queueGroups[i] # g
      BY <1>0, <2>1, <2>2 DEF ThreadInv, ThreadOK
    <2>4. \A i \in GroupId : queueGroups'[i] = IF i = id THEN g ELSE queueGroups[i]
      BY <1>0, <2>2 DEF TypeOK
    <2>5. \A i, j \in GroupId : queueGroups'[i] # Null /\ queueGroups'[i] = queueGroups'[j] => i = j
      BY <1>0, <2>3, <2>4 DEF TableInv
    <2>6. UsedIds' = UsedIds \cup {id} /\ id \notin UsedIds
      BY <2>1, <2>3, <2>4, QueueGroupsAssumption DEF UsedIds
    <2>7. Cardinality(UsedIds') = Cardinality(UsedIds) + 1
      BY <2>6, UsedFinite, FS_AddElement
    <2>8. numQueueGroups' = Cardinality(UsedIds')
      BY <1>0, <2>2, <2>7 DEF TableInv
    <2>9. ASSUME NEW i \in GroupId, queueGroups'[i] # Null
          PROVE  queueGroups'[i] \in live' /\ Ready(queueGroups[i])'
      <3>1. PICK h : h = queueGroups'[i]
        OBVIOUS
      <3>2. h \in live /\ Ready(h)
        BY <2>2, <2>3, <2>4, <2>9, <3>1, TableLive DEF Holding
      <3>3. h \in live' /\ Ready(h)'
        BY <2>2, <3>2 DEF Ready
      <3>4. QED
        BY <3>1, <3>3
    <2>10. ASSUME NEW h \in live'
           PROVE  \/ \E i \in GroupId : queueGroups'[i] = h
                  \/ \E u \in Thread : pc'[u] \in {"setup", "publish"} /\ ptr'[u] = h
      <3>1. CASE \E i \in GroupId : queueGroups[i] = h
        BY <1>0, <2>2, <2>3, <2>4, <3>1, QueueGroupsAssumption DEF TypeOK
      <3>2. CASE \E u \in Thread : pc[u] \in {"setup", "publish"} /\ ptr[u] = h
        BY <1>0, <2>1, <2>2, <2>4, <3>2 DEF TypeOK
      <3>3. QED
        BY <1>0, <2>2, <3>1, <3>2 DEF TableInv
    <2>11. QED
      BY <2>5, <2>8, <2>9, <2>10 DEF TableInv
  <1>8. ASSUME NEW t \in Thread, Destroy(t) PROVE TableInv'
    <2>1. PICK g \in Group, id \in GroupId : g = ptr[t] /\ id = arg[t].id
      BY <1>0, <1>8 DEF TypeOK, ThreadInv, ThreadOK, Destroy, Goto
    <2>2. /\ live' = live \ {g} /\ group' = [group EXCEPT ![g] = NoGroup]
          /\ UNCHANGED <<tableVars, arg, ptr>> /\ pc[t] = "destroy"
          /\ pc' = [pc EXCEPT ![t] = "clear"]
      BY <1>8, <2>1 DEF Destroy, Goto
    <2>3. queueGroups[id] = g /\ g # Null
      BY <1>0, <2>1, <2>2, QueueGroupsAssumption DEF ThreadInv, ThreadOK
    <2>4. ASSUME NEW i \in GroupId, queueGroups[i] # Null, i # id
          PROVE  queueGroups[i] \in live' /\ Ready(queueGroups[i])'
      <3>1. queueGroups[i] \in live /\ Ready(queueGroups[i])
        BY <2>2, <2>4, TableLive DEF Holding
      <3>2. queueGroups[i] # g
        BY <1>0, <2>3, <2>4 DEF TableInv
      <3>3. group'[queueGroups[i]] = group[queueGroups[i]]
        BY <1>0, <2>2, <3>1, <3>2 DEF TypeOK
      <3>4. QED
        BY <2>2, <3>1, <3>2, <3>3 DEF Ready
    <2>5. pc'[t] = "clear" /\ arg'[t].id = id
      BY <1>0, <2>1, <2>2 DEF TypeOK
    <2>6. ASSUME NEW h \in live'
          PROVE  \/ \E i \in GroupId : queueGroups'[i] = h
                 \/ \E u \in Thread : pc'[u] \in {"setup", "publish"} /\ ptr'[u] = h
      BY <1>0, <2>2 DEF TypeOK, TableInv
    <2>7. UsedIds' = UsedIds /\ numQueueGroups' = numQueueGroups /\ queueGroups' = queueGroups
      BY <2>2 DEF UsedIds
    <2>8. QED
      BY <1>0, <2>4, <2>5, <2>6, <2>7 DEF TableInv
  <1>9. ASSUME NEW t \in Thread, Clear(t) PROVE TableInv'
    <2>1. PICK id \in GroupId : id = arg[t].id
      BY <1>0 DEF TypeOK
    <2>2. /\ queueGroups' = [queueGroups EXCEPT ![id] = Null]
          /\ numQueueGroups' = numQueueGroups - 1
          /\ UNCHANGED <<heapVars, arg, ptr>> /\ pc[t] = "clear"
          /\ pc' = [pc EXCEPT ![t] = "unlock"]
      BY <1>9, <2>1 DEF Clear, OneLess, Goto
    <2>3. queueGroups[id] = ptr[t] /\ ptr[t] \in Group \ live /\ ptr[t] # Null
      BY <1>0, <2>1, <2>2, QueueGroupsAssumption DEF ThreadInv, ThreadOK
    <2>4. \A i \in GroupId : queueGroups'[i] = IF i = id THEN Null ELSE queueGroups[i]
      BY <1>0, <2>2 DEF TypeOK
    <2>5. \A i, j \in GroupId : queueGroups'[i] # Null /\ queueGroups'[i] = queueGroups'[j] => i = j
      BY <1>0, <2>4 DEF TableInv
    <2>6. UsedIds' = UsedIds \ {id} /\ id \in UsedIds
      BY <2>3, <2>4 DEF UsedIds
    <2>7. Cardinality(UsedIds') = Cardinality(UsedIds) - 1
      BY <2>6, UsedFinite, FS_RemoveElement
    <2>8. numQueueGroups' = Cardinality(UsedIds')
      BY <1>0, <2>2, <2>7 DEF TableInv
    <2>9. ASSUME NEW i \in GroupId, queueGroups'[i] # Null
          PROVE  queueGroups'[i] \in live' /\ Ready(queueGroups[i])'
      <3>1. i # id /\ queueGroups'[i] = queueGroups[i]
        BY <2>4, <2>9
      <3>2. ~\E u \in Thread : pc[u] = "clear" /\ arg[u].id = i
        BY <1>0, <2>1, <2>2, <3>1, OneHolder DEF Holding
      <3>3. queueGroups[i] \in live /\ Ready(queueGroups[i])
        BY <1>0, <2>9, <3>1, <3>2 DEF TableInv
      <3>4. PICK h : h = queueGroups'[i]
        OBVIOUS
      <3>5. h \in live' /\ Ready(h)'
        BY <2>2, <3>1, <3>3, <3>4 DEF Ready
      <3>6. QED
        BY <3>4, <3>5
    <2>10. ASSUME NEW h \in live'
           PROVE  \/ \E i \in GroupId : queueGroups'[i] = h
                  \/ \E u \in Thread : pc'[u] \in {"setup", "publish"} /\ ptr'[u] = h
      <3>1. CASE \E i \in GroupId : queueGroups[i] = h
        BY <2>2, <2>3, <2>4, <3>1
      <3>2. CASE \E u \in Thread : pc[u] \in {"setup", "publish"} /\ ptr[u] = h
        BY <1>0, <2>2, <3>2 DEF TypeOK
      <3>3. QED
        BY <1>0, <2>2, <3>1, <3>2 DEF TableInv
    <2>11. QED
      BY <2>5, <2>8, <2>9, <2>10 DEF TableInv
  <1>10. ASSUME NEW t \in Thread, AdvanceCounter(t) PROVE TableInv'
    <2>1. /\ UNCHANGED <<tableVars, live>> /\ pc[t] = "cas"
          /\ \E x, y, z : pc' = [pc EXCEPT ![t] = x] /\ arg' = [arg EXCEPT ![t] = y]
                          /\ ptr' = [ptr EXCEPT ![t] = z]
      BY <1>10 DEF AdvanceCounter, Return, Goto
    <2>2. \A u \in Thread : u # t => pc'[u] = pc[u] /\ arg'[u] = arg[u] /\ ptr'[u] = ptr[u]
      BY <1>0, <2>1 DEF TypeOK
    <2>3. \A h \in Group : Ready(h) => Ready(h)'
      BY <1>10, ExchangeEffect
    <2>4. ASSUME NEW i \in GroupId, queueGroups'[i] # Null
          PROVE  \/ queueGroups'[i] \in live' /\ Ready(queueGroups[i])'
                 \/ \E u \in Thread : pc'[u] = "clear" /\ arg'[u].id = i
      <3>1. CASE queueGroups[i] \in live /\ Ready(queueGroups[i])
        <4>1. PICK h \in Group : h = queueGroups[i]
          BY <1>0, <3>1 DEF TypeOK
        <4>2. Ready(h)'
          BY <2>3, <3>1, <4>1
        <4>3. queueGroups' = queueGroups
          BY <2>1
        <4>4. QED
          BY <2>1, <3>1, <4>1, <4>2, <4>3
      <3>2. CASE \E u \in Thread : pc[u] = "clear" /\ arg[u].id = i
        BY <2>1, <2>2, <3>2
      <3>3. QED
        BY <1>0, <2>1, <2>4, <3>1, <3>2 DEF TableInv
    <2>5. ASSUME NEW h \in live'
          PROVE  \/ \E i \in GroupId : queueGroups'[i] = h
                 \/ \E u \in Thread : pc'[u] \in {"setup", "publish"} /\ ptr'[u] = h
      <3>1. h \in live /\ queueGroups' = queueGroups
        BY <2>1
      <3>2. CASE \E i \in GroupId : queueGroups[i] = h
        BY <3>1, <3>2
      <3>3. CASE \E u \in Thread : pc[u] \in {"setup", "publish"} /\ ptr[u] = h
        <4>1. PICK u \in Thread : pc[u] \in {"setup", "publish"} /\ ptr[u] = h
          BY <3>3
        <4>2. u # t
          BY <2>1, <4>1
        <4>3. QED
          BY <2>2, <4>1, <4>2
      <3>4. QED
        BY <1>0, <3>1, <3>2, <3>3 DEF TableInv
    <2>6. UsedIds' = UsedIds /\ numQueueGroups' = numQueueGroups /\ queueGroups' = queueGroups
      BY <2>1 DEF UsedIds
    <2>7. QED
      BY <1>0, <2>4, <2>5, <2>6 DEF TableInv
  <1>11. CASE UNCHANGED vars
    BY <1>0, <1>11 DEF TableInv, UsedIds, Ready, vars
  <1>12. QED
    BY <1>1, <1>2, <1>3, <1>4, <1>5, <1>6, <1>7, <1>8, <1>9, <1>10, <1>11 DEF Next, Step

-----------------------------------------------------------------------------

\* Nobody starts a deletion of a group in use, or a use of a group in deletion.
LEMMA StepExclusion == IInv /\ [Next]_vars => Exclusion'
  <1> SUFFICES ASSUME IInv, [Next]_vars PROVE Exclusion'
    OBVIOUS
  <1> USE DEF tableVars, heapVars, getVars, Goto
  <1>0. TypeOK /\ Exclusion
    BY DEF IInv
  <1>f. ASSUME NEW t \in Thread,
               \A u \in Thread : u # t => pc'[u] = pc[u] /\ arg'[u] = arg[u],
               pc'[t] \in InGet => pc[t] \in InGet /\ arg'[t] = arg[t],
               pc'[t] \in InDelete => pc[t] \in InDelete /\ arg'[t] = arg[t]
        PROVE  Exclusion'
    BY <1>0, <1>f DEF Exclusion
  <1>1. ASSUME NEW t \in Thread, Call(t) PROVE Exclusion'
    <2>1. PICK id \in GroupId :
            \/ \E num \in NumQueues, policy \in Policy :
                tagaspi_queue_group_create(t, id, num, policy)
            \/ tagaspi_queue_group_delete(t, id)
            \/ tagaspi_queue_group_get_queue(t, id)
      BY <1>1 DEF Call
    <2>2. CASE \E num \in NumQueues, policy \in Policy :
                tagaspi_queue_group_create(t, id, num, policy)
      <3>1. pc' = [pc EXCEPT ![t] = "create"] /\ \E x : arg' = [arg EXCEPT ![t] = x]
        BY <2>2 DEF tagaspi_queue_group_create
      <3>2. QED
        BY <1>0, <1>f, <3>1 DEF TypeOK, InGet, InDelete
    <2>3. CASE tagaspi_queue_group_delete(t, id)
      <3>1. /\ pc' = [pc EXCEPT ![t] = "delete"] /\ ~Calling(id, InGet)
            /\ arg' = [arg EXCEPT ![t] = [NoArg EXCEPT !.id = id]]
        BY <2>3 DEF tagaspi_queue_group_delete
      <3>2. arg'[t].id = id /\ pc'[t] = "delete"
            /\ \A u \in Thread : u # t => pc'[u] = pc[u] /\ arg'[u] = arg[u]
        BY <1>0, <3>1 DEF TypeOK, NoArg
      <3>3. \A u \in Thread : pc[u] \in InGet => arg[u].id # id
        BY <3>1 DEF Calling
      <3>4. QED
        BY <1>0, <3>2, <3>3 DEF Exclusion, InGet, InDelete
    <2>4. CASE tagaspi_queue_group_get_queue(t, id)
      <3>1. /\ pc' = [pc EXCEPT ![t] = "get"] /\ ~Calling(id, InDelete)
            /\ arg' = [arg EXCEPT ![t] = [NoArg EXCEPT !.id = id]]
        BY <2>4 DEF tagaspi_queue_group_get_queue
      <3>2. arg'[t].id = id /\ pc'[t] = "get"
            /\ \A u \in Thread : u # t => pc'[u] = pc[u] /\ arg'[u] = arg[u]
        BY <1>0, <3>1 DEF TypeOK, NoArg
      <3>3. \A u \in Thread : pc[u] \in InDelete => arg[u].id # id
        BY <3>1 DEF Calling
      <3>4. QED
        BY <1>0, <3>2, <3>3 DEF Exclusion, InGet, InDelete
    <2>5. QED
      BY <2>1, <2>2, <2>3, <2>4
  <1>2. ASSUME NEW t \in Thread, CheckAndNew(t) \/ setupPolicy(t) \/ Publish(t) \/ Clear(t)
        PROVE  Exclusion'
    <2>1. arg' = arg /\ \E x \in {"unlock", "setup", "publish"} : pc' = [pc EXCEPT ![t] = x]
      BY <1>2 DEF CheckAndNew, setupPolicy, Publish, Clear
    <2>2. QED
      BY <1>0, <1>f, <2>1 DEF TypeOK, InGet, InDelete
  <1>3. ASSUME NEW t \in Thread, FindGroup(t) \/ Destroy(t) PROVE Exclusion'
    <2>1. /\ arg' = arg /\ pc[t] \in InDelete
          /\ \E x \in {"unlock", "destroy", "clear"} : pc' = [pc EXCEPT ![t] = x]
      BY <1>3 DEF FindGroup, Destroy, InDelete
    <2>2. QED
      BY <1>0, <1>f, <2>1 DEF TypeOK, InGet, InDelete
  <1>4. ASSUME NEW t \in Thread, Unlock(t) \/ AdvanceCounter(t) PROVE Exclusion'
    <2>1. pc' = [pc EXCEPT ![t] = "idle"] /\ arg' = [arg EXCEPT ![t] = NoArg]
      BY <1>4 DEF Unlock, AdvanceCounter, Return
    <2>2. QED
      BY <1>0, <1>f, <2>1 DEF TypeOK, InGet, InDelete
  <1>5. ASSUME NEW t \in Thread, ReadPointer(t) \/ getQueue(t) PROVE Exclusion'
    <2>1. /\ pc[t] \in InGet
          /\ \/ arg' = arg /\ \E x \in {"use", "cas"} : pc' = [pc EXCEPT ![t] = x]
             \/ arg' = [arg EXCEPT ![t] = NoArg] /\ pc' = [pc EXCEPT ![t] = "idle"]
      BY <1>5 DEF ReadPointer, getQueue, Return, InGet
    <2>2. QED
      BY <1>0, <1>f, <2>1 DEF TypeOK, InGet, InDelete
  <1>6. CASE UNCHANGED vars
    BY <1>0, <1>6 DEF Exclusion, vars
  <1>7. QED
    BY <1>1, <1>2, <1>3, <1>4, <1>5, <1>6 DEF Next, Step

-----------------------------------------------------------------------------

\* A thread that has not the lock sees its group unchanged by one that has.
LEMMA StepThread == IInv /\ [Next]_vars => ThreadInv'
  <1> SUFFICES ASSUME IInv, [Next]_vars PROVE ThreadInv'
    OBVIOUS
  <1> USE DEF tableVars, heapVars, getVars, Goto
  <1>0. TypeOK /\ LockInv /\ TableInv /\ ThreadInv /\ Exclusion
    BY DEF IInv
  <1> DEFINE Same(u) == /\ pc'[u] = pc[u] /\ arg'[u] = arg[u] /\ ptr'[u] = ptr[u]
                        /\ offset'[u] = offset[u] /\ moved'[u] = moved[u]
  \* The others, when the table and the heap do not change.
  <1>f. ASSUME NEW t \in Thread, UNCHANGED <<tableVars, heapVars>>,
               \A u \in Thread : u # t => Same(u), ThreadOK(t)'
        PROVE  ThreadInv'
    <2>1. ASSUME NEW u \in Thread, u # t PROVE ThreadOK(u)'
      BY <1>0, <1>f, <2>1 DEF ThreadInv, ThreadOK, Ready
    <2>2. QED
      BY <1>f, <2>1 DEF ThreadInv
  \* The others, when they change by a thread with the lock.
  <1>g. ASSUME NEW t \in Thread, pc[t] \in Holding \/ Holds(t),
               \A u \in Thread : u # t => Same(u), ThreadOK(t)',
               \A u \in Thread : u # t /\ pc[u] \in {"use", "cas"} =>
                    queueGroups'[arg[u].id] = ptr[u] /\ group'[ptr[u]] = group[ptr[u]]
        PROVE  ThreadInv'
    <2>1. ASSUME NEW u \in Thread, u # t PROVE ThreadOK(u)'
      <3>1. pc[u] \notin Holding
        BY <1>0, <1>g, <2>1, OneHolder
      <3>2. ThreadOK(u) /\ Same(u)
        BY <1>0, <1>g, <2>1 DEF ThreadInv
      <3>3. QED
        BY <1>g, <2>1, <3>1, <3>2 DEF ThreadOK, Holding
    <2>2. QED
      BY <1>g, <2>1 DEF ThreadInv
  <1>1. ASSUME NEW t \in Thread, Call(t) PROVE ThreadInv'
    <2>1. PICK id \in GroupId :
            \/ \E num \in NumQueues, policy \in Policy :
                tagaspi_queue_group_create(t, id, num, policy)
            \/ tagaspi_queue_group_delete(t, id)
            \/ tagaspi_queue_group_get_queue(t, id)
      BY <1>1 DEF Call
    <2>2. pc[t] = "idle" /\ UNCHANGED <<tableVars, heapVars, ptr, getVars>>
          /\ \E x \in {"create", "delete", "get"} : pc' = [pc EXCEPT ![t] = x]
          /\ \E y : arg' = [arg EXCEPT ![t] = y]
      BY <2>1 DEF tagaspi_queue_group_create, tagaspi_queue_group_delete,
                  tagaspi_queue_group_get_queue
    <2>3. \A u \in Thread : u # t => Same(u)
      BY <1>0, <2>2 DEF TypeOK
    <2>4. pc'[t] \in {"create", "delete", "get"} /\ moved'[t]
      BY <1>0, <2>2 DEF TypeOK, ThreadInv, ThreadOK
    <2>5. pc'[t] = "create" => arg'[t].num \in NumQueues
      <3>1. CASE \E num \in NumQueues, policy \in Policy :
                  tagaspi_queue_group_create(t, id, num, policy)
        BY <1>0, <3>1 DEF tagaspi_queue_group_create, TypeOK
      <3>2. CASE tagaspi_queue_group_delete(t, id) \/ tagaspi_queue_group_get_queue(t, id)
        BY <1>0, <3>2 DEF tagaspi_queue_group_delete, tagaspi_queue_group_get_queue, TypeOK
      <3>3. QED
        BY <2>1, <3>1, <3>2
    <2>6. ThreadOK(t)'
      BY <2>4, <2>5 DEF ThreadOK
    <2>7. QED
      BY <1>f, <2>2, <2>3, <2>6
  <1>2. ASSUME NEW t \in Thread, CheckAndNew(t), CreateFails(t) PROVE ThreadInv'
    <2>1. /\ UNCHANGED <<tableVars, heapVars, ptr, arg, getVars>> /\ pc[t] = "create"
          /\ pc' = [pc EXCEPT ![t] = "unlock"]
      BY <1>2 DEF CheckAndNew
    <2>2. \A u \in Thread : u # t => Same(u)
      BY <1>0, <2>1 DEF TypeOK
    <2>3. pc'[t] = "unlock" /\ moved'[t]
      BY <1>0, <2>1 DEF TypeOK, ThreadInv, ThreadOK
    <2>4. ThreadOK(t)'
      BY <2>3 DEF ThreadOK
    <2>5. QED
      BY <1>f, <2>1, <2>2, <2>4
  <1>3. ASSUME NEW t \in Thread, FindGroup(t) PROVE ThreadInv'
    <2>1. /\ UNCHANGED <<tableVars, heapVars, arg, getVars>> /\ pc[t] = "delete" /\ Holds(t)
          /\ ptr' = [ptr EXCEPT ![t] = queueGroups[arg[t].id]]
          /\ pc' = [pc EXCEPT ![t] = IF ptr'[t] = Null THEN "unlock" ELSE "destroy"]
      BY <1>3 DEF FindGroup
    <2>2. \A u \in Thread : u # t => Same(u)
      BY <1>0, <2>1 DEF TypeOK
    <2>3. /\ ptr'[t] = queueGroups[arg[t].id] /\ moved'[t] /\ arg[t].id \in GroupId
          /\ pc'[t] = IF ptr'[t] = Null THEN "unlock" ELSE "destroy"
      BY <1>0, <2>1 DEF TypeOK, ThreadInv, ThreadOK
    <2>4. ptr'[t] # Null => ptr'[t] \in live
      BY <2>1, <2>3, TableLive
    <2>5. ThreadOK(t)'
      BY <2>1, <2>3, <2>4 DEF ThreadOK
    <2>6. QED
      BY <1>f, <2>1, <2>2, <2>5
  <1>4. ASSUME NEW t \in Thread, Unlock(t) PROVE ThreadInv'
    <2>1. /\ UNCHANGED <<tableVars, heapVars, getVars>> /\ pc[t] = "unlock"
          /\ pc' = [pc EXCEPT ![t] = "idle"]
          /\ \E x, y : arg' = [arg EXCEPT ![t] = x] /\ ptr' = [ptr EXCEPT ![t] = y]
      BY <1>4 DEF Unlock
    <2>2. \A u \in Thread : u # t => Same(u)
      BY <1>0, <2>1 DEF TypeOK
    <2>3. pc'[t] = "idle" /\ moved'[t]
      BY <1>0, <2>1 DEF TypeOK, ThreadInv, ThreadOK
    <2>4. ThreadOK(t)'
      BY <2>3 DEF ThreadOK
    <2>5. QED
      BY <1>f, <2>1, <2>2, <2>4
  <1>5. ASSUME NEW t \in Thread, ReadPointer(t) PROVE ThreadInv'
    <2>1. PICK g : g = queueGroups[arg[t].id]
      OBVIOUS
    <2>2. /\ UNCHANGED <<tableVars, heapVars, getVars>> /\ pc[t] = "get"
          /\ ptr' = [ptr EXCEPT ![t] = g]
          /\ \/ g = Null /\ pc' = [pc EXCEPT ![t] = "idle"]
                /\ arg' = [arg EXCEPT ![t] = NoArg]
             \/ g # Null /\ pc' = [pc EXCEPT ![t] = "use"] /\ arg' = arg
      BY <1>5, <2>1 DEF ReadPointer
    <2>3. \A u \in Thread : u # t => Same(u)
      BY <1>0, <2>2 DEF TypeOK
    <2>4. /\ ptr'[t] = g /\ moved'[t] /\ g \in Group \cup {Null}
          /\ \/ pc'[t] = "idle"
             \/ pc'[t] = "use" /\ g # Null /\ arg'[t] = arg[t]
      BY <1>0, <2>1, <2>2 DEF TypeOK, ThreadInv, ThreadOK
    <2>5. ThreadOK(t)'
      BY <2>1, <2>2, <2>4 DEF ThreadOK
    <2>6. QED
      BY <1>f, <2>2, <2>3, <2>5
  <1>6. ASSUME NEW t \in Thread, getQueue(t) PROVE ThreadInv'
    <2>1. PICK g \in Group : g = ptr[t] /\ Ready(g) /\ g = queueGroups[arg[t].id]
      BY <1>6, UsedReady DEF getQueue
    <2>2. /\ UNCHANGED <<tableVars, heapVars>> /\ pc[t] = "use"
          /\ \/ /\ pc' = [pc EXCEPT ![t] = "cas"] /\ arg' = arg /\ ptr' = ptr
                /\ offset' = [offset EXCEPT ![t] = group[g].counter]
                /\ moved' = [moved EXCEPT ![t] = FALSE]
             \/ /\ pc' = [pc EXCEPT ![t] = "idle"] /\ offset' = offset /\ moved' = moved
                /\ \E x, y : arg' = [arg EXCEPT ![t] = x] /\ ptr' = [ptr EXCEPT ![t] = y]
      BY <1>6, <2>1 DEF getQueue, Return
    <2>3. \A u \in Thread : u # t => Same(u)
      BY <1>0, <2>2 DEF TypeOK
    <2>4. \/ pc'[t] = "idle" /\ moved'[t]
          \/ /\ pc'[t] = "cas" /\ ptr'[t] = g /\ arg'[t] = arg[t]
             /\ offset'[t] = group[g].counter
      BY <1>0, <2>1, <2>2 DEF TypeOK, ThreadInv, ThreadOK
    <2>5. ThreadOK(t)'
      BY <2>1, <2>2, <2>4 DEF ThreadOK, Ready
    <2>6. QED
      BY <1>f, <2>2, <2>3, <2>5
  <1>7. ASSUME NEW t \in Thread, CheckAndNew(t), ~CreateFails(t) PROVE ThreadInv'
    <2>1. PICK g \in Group \ live :
            /\ live' = live \cup {g} /\ ptr' = [ptr EXCEPT ![t] = g]
            /\ group'[g].num = arg[t].num /\ group'[g].counter = 0
            /\ \A h \in Group : h # g => group'[h] = group[h]
            /\ pc[t] = "create" /\ pc' = [pc EXCEPT ![t] = "setup"]
            /\ UNCHANGED <<tableVars, lock, arg, getVars>>
      BY <1>7, NewEffect
    <2>2. \A u \in Thread : u # t => Same(u)
      BY <1>0, <2>1 DEF TypeOK
    <2>3. Holds(t)
      BY <1>7 DEF CheckAndNew
    <2>4. /\ pc'[t] = "setup" /\ ptr'[t] = g /\ arg'[t] = arg[t] /\ moved'[t]
          /\ arg[t].num \in NumQueues
      BY <1>0, <2>1 DEF TypeOK, ThreadInv, ThreadOK
    <2>5. queueGroups[arg[t].id] = Null /\ numQueueGroups < maxQueueGroups
      BY <1>0, <1>7, QueueGroupsAssumption DEF CreateFails, TypeOK
    <2>6. \A i \in GroupId : queueGroups[i] # g
      BY <2>1, <2>3, TableLive, QueueGroupsAssumption
    <2>7. group'[g].num >= 1
      <3>1. \A n \in NumQueues : n >= 1
        BY QueueGroupsAssumption
      <3>2. QED
        BY <2>1, <2>4, <3>1, Zenon
    <2>8. ThreadOK(t)'
      BY <2>1, <2>4, <2>5, <2>6, <2>7 DEF ThreadOK
    <2>9. ASSUME NEW u \in Thread, pc[u] \in {"use", "cas"}
          PROVE  queueGroups'[arg[u].id] = ptr[u] /\ group'[ptr[u]] = group[ptr[u]]
      BY <2>1, <2>9, UsedReady
    <2>10. QED
      BY <1>g, <2>2, <2>3, <2>8, <2>9
  <1>8. ASSUME NEW t \in Thread, setupPolicy(t) PROVE ThreadInv'
    <2>1. /\ UNCHANGED <<tableVars, live, arg, ptr, getVars>> /\ pc[t] = "setup"
          /\ pc' = [pc EXCEPT ![t] = "publish"]
      BY <1>8 DEF setupPolicy
    <2>2. \A u \in Thread : u # t => Same(u)
      BY <1>0, <2>1 DEF TypeOK
    <2>3. /\ ptr[t] \in live /\ \A i \in GroupId : queueGroups[i] # ptr[t]
          /\ Ready(ptr[t])'
          /\ \A g \in Group : g # ptr[t] => group'[g] = group[g]
      BY <1>8, SetupEffect
    <2>4. pc'[t] = "publish" /\ ptr'[t] = ptr[t] /\ arg'[t] = arg[t] /\ moved'[t]
      BY <1>0, <2>1 DEF TypeOK, ThreadInv, ThreadOK
    <2>5. queueGroups[arg[t].id] = Null /\ numQueueGroups < maxQueueGroups
      BY <1>0, <2>1 DEF ThreadInv, ThreadOK
    <2>6. ThreadOK(t)'
      BY <2>1, <2>3, <2>4, <2>5 DEF ThreadOK
    <2>7. ASSUME NEW u \in Thread, pc[u] \in {"use", "cas"}
          PROVE  queueGroups'[arg[u].id] = ptr[u] /\ group'[ptr[u]] = group[ptr[u]]
      BY <2>1, <2>3, <2>7, UsedReady
    <2>8. QED
      BY <1>g, <2>1, <2>2, <2>6, <2>7 DEF Holding
  <1>9. ASSUME NEW t \in Thread, Publish(t) PROVE ThreadInv'
    <2>1. /\ queueGroups' = [queueGroups EXCEPT ![arg[t].id] = ptr[t]]
          /\ UNCHANGED <<heapVars, arg, ptr, getVars>> /\ pc[t] = "publish"
          /\ pc' = [pc EXCEPT ![t] = "unlock"]
      BY <1>9 DEF Publish
    <2>2. \A u \in Thread : u # t => Same(u)
      BY <1>0, <2>1 DEF TypeOK
    <2>3. pc'[t] = "unlock" /\ moved'[t]
      BY <1>0, <2>1 DEF TypeOK, ThreadInv, ThreadOK
    <2>4. ThreadOK(t)'
      BY <2>3 DEF ThreadOK
    <2>5. queueGroups[arg[t].id] = Null
      BY <1>0, <2>1 DEF ThreadInv, ThreadOK
    <2>6. ASSUME NEW u \in Thread, pc[u] \in {"use", "cas"}
          PROVE  queueGroups'[arg[u].id] = ptr[u] /\ group'[ptr[u]] = group[ptr[u]]
      <3>1. /\ arg[u].id \in GroupId /\ ptr[u] = queueGroups[arg[u].id] /\ ptr[u] # Null
        BY <2>6, UsedReady
      <3>2. QED
        BY <1>0, <2>1, <2>5, <3>1 DEF TypeOK
    <2>7. QED
      BY <1>g, <2>1, <2>2, <2>4, <2>6 DEF Holding
  <1>10. ASSUME NEW t \in Thread, Destroy(t) PROVE ThreadInv'
    <2>1. /\ live' = live \ {ptr[t]} /\ group' = [group EXCEPT ![ptr[t]] = NoGroup]
          /\ UNCHANGED <<tableVars, arg, ptr, getVars>> /\ pc[t] = "destroy"
          /\ pc' = [pc EXCEPT ![t] = "clear"]
      BY <1>10 DEF Destroy
    <2>2. \A u \in Thread : u # t => Same(u)
      BY <1>0, <2>1 DEF TypeOK
    <2>3. /\ ptr[t] \in live /\ ptr[t] \in Group /\ ptr[t] = queueGroups[arg[t].id]
          /\ arg[t].id \in GroupId
      BY <1>0, <2>1 DEF TypeOK, ThreadInv, ThreadOK
    <2>4. pc'[t] = "clear" /\ ptr'[t] = ptr[t] /\ arg'[t] = arg[t] /\ moved'[t]
      BY <1>0, <2>1 DEF TypeOK, ThreadInv, ThreadOK
    <2>5. ThreadOK(t)'
      BY <2>1, <2>3, <2>4 DEF ThreadOK
    <2>6. ASSUME NEW u \in Thread, pc[u] \in {"use", "cas"}
          PROVE  queueGroups'[arg[u].id] = ptr[u] /\ group'[ptr[u]] = group[ptr[u]]
      <3>1. /\ arg[u].id \in GroupId /\ ptr[u] = queueGroups[arg[u].id] /\ ptr[u] # Null
            /\ ptr[u] \in Group
        BY <2>6, UsedReady
      <3>2. arg[u].id # arg[t].id
        BY <1>0, <2>1, <2>6 DEF Exclusion, InGet, InDelete
      <3>3. ptr[u] # ptr[t]
        BY <1>0, <2>3, <3>1, <3>2 DEF TableInv
      <3>4. QED
        BY <1>0, <2>1, <3>1, <3>3 DEF TypeOK
    <2>7. QED
      BY <1>g, <2>1, <2>2, <2>5, <2>6 DEF Holding
  <1>11. ASSUME NEW t \in Thread, Clear(t) PROVE ThreadInv'
    <2>1. /\ queueGroups' = [queueGroups EXCEPT ![arg[t].id] = Null]
          /\ UNCHANGED <<heapVars, arg, ptr, getVars>> /\ pc[t] = "clear"
          /\ pc' = [pc EXCEPT ![t] = "unlock"]
      BY <1>11 DEF Clear
    <2>2. \A u \in Thread : u # t => Same(u)
      BY <1>0, <2>1 DEF TypeOK
    <2>3. pc'[t] = "unlock" /\ moved'[t]
      BY <1>0, <2>1 DEF TypeOK, ThreadInv, ThreadOK
    <2>4. ThreadOK(t)'
      BY <2>3 DEF ThreadOK
    <2>5. ASSUME NEW u \in Thread, pc[u] \in {"use", "cas"}
          PROVE  queueGroups'[arg[u].id] = ptr[u] /\ group'[ptr[u]] = group[ptr[u]]
      <3>1. arg[u].id \in GroupId /\ ptr[u] = queueGroups[arg[u].id]
        BY <2>5, UsedReady
      <3>2. arg[u].id # arg[t].id
        BY <1>0, <2>1, <2>5 DEF Exclusion, InGet, InDelete
      <3>3. QED
        BY <1>0, <2>1, <3>1, <3>2 DEF TypeOK
    <2>6. QED
      BY <1>g, <2>1, <2>2, <2>4, <2>5 DEF Holding
  <1>12. ASSUME NEW t \in Thread, AdvanceCounter(t) PROVE ThreadInv'
    <2>1. /\ UNCHANGED <<tableVars, live>> /\ pc[t] = "cas"
          /\ pc' = [pc EXCEPT ![t] = "idle"] /\ offset' = [offset EXCEPT ![t] = 0]
          /\ \E y, z : arg' = [arg EXCEPT ![t] = y] /\ ptr' = [ptr EXCEPT ![t] = z]
      BY <1>12 DEF AdvanceCounter, Return
    <2>2. /\ \A h \in Group : h # ptr[t] => group'[h] = group[h]
          /\ \A h \in Group : /\ group'[h].num = group[h].num
                              /\ Ready(h) => Ready(h)'
          /\ \/ group' = group /\ moved' = moved /\ group[ptr[t]].counter # offset[t]
             \/ moved' = [u \in Thread |-> moved[u] \/ ptr[u] = ptr[t]]
      BY <1>12, ExchangeEffect
    <2>3. /\ \A u \in Thread : u # t =>
                /\ pc'[u] = pc[u] /\ arg'[u] = arg[u] /\ ptr'[u] = ptr[u]
                /\ offset'[u] = offset[u]
          /\ pc'[t] = "idle"
      BY <1>0, <2>1 DEF TypeOK
    <2>4. \A u \in Thread : moved[u] => moved'[u]
      BY <2>2
    <2>5. moved'[t]
      <3>1. moved[t] \/ offset[t] = group[ptr[t]].counter
        BY <1>0, <2>1 DEF ThreadInv, ThreadOK
      <3>2. QED
        BY <2>2, <3>1
    <2>6. ThreadOK(t)'
      BY <2>3, <2>5 DEF ThreadOK
    <2>7. ptr[t] = queueGroups[arg[t].id] /\ arg[t].id \in GroupId
      BY <2>1, UsedReady
    <2>8. ASSUME NEW u \in Thread, u # t PROVE ThreadOK(u)'
      <3>1. /\ pc'[u] = pc[u] /\ arg'[u] = arg[u] /\ ptr'[u] = ptr[u] /\ offset'[u] = offset[u]
            /\ ThreadOK(u) /\ UNCHANGED <<tableVars, live>>
        BY <1>0, <2>1, <2>3, <2>8 DEF ThreadInv
      <3>2. CASE pc[u] \in {"setup", "publish"}
        <4>1. PICK h \in Group : h = ptr[u]
          BY <1>0, <3>1, <3>2 DEF ThreadOK, TypeOK
        <4>2. h # ptr[t]
          BY <2>7, <3>1, <3>2, <4>1 DEF ThreadOK
        <4>3. group'[h] = group[h] /\ (Ready(h) => Ready(h)')
          BY <2>2, <4>2
        <4>4. moved'[u]
          BY <2>4, <3>1, <3>2 DEF ThreadOK
        <4>5. QED
          BY <3>1, <3>2, <4>1, <4>3, <4>4 DEF ThreadOK
      <3>3. CASE pc[u] = "cas"
        <4>1. PICK h \in Group : h = ptr[u]
          BY <3>1, <3>3 DEF ThreadOK
        <4>2. group'[h].num = group[h].num
          BY <2>2
        <4>3. moved'[u] \/ offset[u] = group'[h].counter
          BY <2>2, <3>1, <3>3, <4>1 DEF ThreadOK
        <4>4. QED
          BY <3>1, <3>3, <4>1, <4>2, <4>3 DEF ThreadOK
      <3>4. CASE pc[u] \notin {"setup", "publish", "cas"}
        BY <2>4, <3>1, <3>4 DEF ThreadOK
      <3>5. QED
        BY <3>2, <3>3, <3>4
    <2>9. QED
      BY <2>6, <2>8 DEF ThreadInv
  <1>13. CASE UNCHANGED vars
    BY <1>0, <1>13 DEF ThreadInv, ThreadOK, Ready, vars
  <1>14. QED
    BY <1>1, <1>2, <1>3, <1>4, <1>5, <1>6, <1>7, <1>8, <1>9, <1>10, <1>11, <1>12, <1>13
       DEF Next, Step

-----------------------------------------------------------------------------

\* IInv holds at the start and is preserved by every step.
THEOREM Invariance == Spec => []IInv
  <1>1. IInv /\ [Next]_vars => IInv'
    BY StepType, StepLock, StepTable, StepThread, StepExclusion DEF IInv
  <1>2. QED
    BY InitIInv, <1>1, PTL DEF Spec

\* The members of the groups and the locals of every call have their types; in
\* particular numQueueGroups never leaves 0 .. maxQueueGroups.
THEOREM TypeCorrect == Spec => []TypeOK
  BY Invariance, PTL DEF IInv

\* GroupsCounted: whenever the lock is free, numQueueGroups counts the groups in
\* the table, and these are the groups allocated, one per id.
THEOREM GroupsCountedCorrect == Spec => []GroupsCounted
  <1>1. ASSUME IInv PROVE GroupsCounted
    <2> SUFFICES ASSUME lock = <<>>
                 PROVE  /\ numQueueGroups = Cardinality(UsedIds)
                        /\ live = {queueGroups[i] : i \in UsedIds}
                        /\ Cardinality(live) = Cardinality(UsedIds)
      BY DEF GroupsCounted, UsedIds
    <2>0. TypeOK /\ LockInv /\ TableInv
      BY <1>1 DEF IInv
    <2>1. ASSUME NEW t \in Thread PROVE pc[t] \notin Within
      <3>1. Range(lock) = {}
        BY DEF Range
      <3>2. QED
        BY <2>0, <3>1 DEF LockInv
    <2>2. \A t \in Thread : pc[t] \notin {"setup", "publish", "clear"}
      BY <2>1 DEF Within, Holding
    <2>3. \A i \in UsedIds : i \in GroupId /\ queueGroups[i] # Null /\ queueGroups[i] \in live
      BY <2>0, <2>2 DEF TableInv, UsedIds
    <2>4. \A g \in live : \E i \in UsedIds : queueGroups[i] = g
      BY <2>0, <2>2, QueueGroupsAssumption DEF TableInv, UsedIds, TypeOK
    <2>5. live = {queueGroups[i] : i \in UsedIds}
      BY <2>3, <2>4
    <2>6. Cardinality(live) = Cardinality(UsedIds)
      <3> DEFINE f == [i \in UsedIds |-> queueGroups[i]]
      <3>1. f \in Bijection(UsedIds, live)
        <4>1. f \in [UsedIds -> live]
          BY <2>3
        <4>2. \A i, j \in UsedIds : f[i] = f[j] => i = j
          BY <2>0, <2>3 DEF TableInv
        <4>3. \A g \in live : \E i \in UsedIds : f[i] = g
          BY <2>4
        <4> HIDE DEF f
        <4>4. QED
          BY <4>1, <4>2, <4>3 DEF Bijection, Injection, Surjection, IsInjective
      <3> HIDE DEF f
      <3>2. ExistsBijection(UsedIds, live)
        BY <3>1 DEF ExistsBijection
      <3>3. QED
        BY <3>2, UsedFinite, FS_Bijection
    <2>7. QED
      BY <2>0, <2>5, <2>6 DEF TableInv
  <1>2. QED
    BY <1>1, Invariance, PTL

\* UsesReadyGroup: a call without the lock sees no group or one that is complete,
\* and no thread touches a group that was freed.
THEOREM UsesReadyGroupCorrect == Spec => []UsesReadyGroup
  <1>1. ASSUME IInv PROVE UsesReadyGroup
    <2>1. ASSUME NEW t \in Thread, pc[t] \in {"use", "cas"}
          PROVE  ptr[t] \in live /\ Ready(ptr[t])
      BY <1>1, <2>1, UsedReady
    <2>2. \A t \in Thread : pc[t] \in {"setup", "publish", "destroy"} => ptr[t] \in live
      BY <1>1 DEF IInv, ThreadInv, ThreadOK
    <2>3. QED
      BY <2>1, <2>2 DEF UsesReadyGroup, Ready
  <1>2. QED
    BY <1>1, Invariance, PTL

\* RoundRobin: the offset a call loads is that of a queue of its group, and the
\* counter has moved on when the call returns.
THEOREM RoundRobinCorrect == Spec => []RoundRobin
  <1>1. IInv => RoundRobin
    BY DEF IInv, ThreadInv, ThreadOK, RoundRobin
  <1>2. QED
    BY <1>1, Invariance, PTL
=============================================================================
