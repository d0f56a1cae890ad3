------------------------ MODULE NotificationsProofs -------------------------
(***************************************************************************)
(* Proofs about Notifications, for every set of tasks, every number of     *)
(* segments, ids, CPUs and calls, every pool of waiting ranges and every   *)
(* capacity of the queues.                                                 *)
(***************************************************************************)
EXTENDS Notifications, FiniteSetTheorems, SequenceTheorems, TLAPS

(***************************************************************************)
(* The inductive invariant.                                                *)
(***************************************************************************)

\* A wait of task t for at least one id of its segment.
IsWait(w, t) ==
    /\ w.task = t
    /\ w.num >= 1 /\ w.first + w.num <= NumIds
    /\ w.remaining <= w.num

\* A task in a call is running and misses a notification; between the
\* allocation and the push it holds the object that stands for the call.
CallOK(t) ==
    /\ pc[t] # "body" =>
        status[t] = "running" /\ IsWait(call[t], t) /\ call[t].remaining > 0
    /\ pc[t] = "reset" => <<call[t].seg, tid[t]>> \in Keys(call[t])
    /\ pc[t] \in {"lock", "push"} =>
        \E o \in Object \ pool : held[t] = {o} /\ range[o] = call[t]
    /\ pc[t] \notin {"lock", "push"} => held[t] = {}
CallInv == \A t \in Task : CallOK(t)

\* The tasks in a lock are those between the ticket and the unlock, once each,
\* and the first of them is the one that has pushed.
LockInv ==
    \A s \in Segment :
        /\ IsInjective(lock[s])
        /\ Range(lock[s]) = {t \in Task : pc[t] \in {"push", "unlock"} /\ call[t].seg = s}
        /\ \A t \in Task : pc[t] = "unlock" /\ call[t].seg = s => t = Head(lock[s])

\* A range of segment s that misses a notification.
Pending(o, s) == o \notin pool /\ range[o].seg = s /\ range[o].remaining > 0

\* A free object stands for nothing, the others for a wait; they are held,
\* queued, listed or complete, and nowhere twice.
RangeInv ==
    /\ \A o \in pool : range[o] = NoRange
    /\ \A o \in Object \ pool :
        /\ range[o].task \in Task /\ IsWait(range[o], range[o].task)
        /\ \/ \E t \in Task : o \in held[t]
           \/ \E s \in Segment : o \in Range(queue[s]) \cup Range(list[s])
           \/ o \in Range(completeRanges)
    /\ \A s \in Segment :
        /\ IsInjective(queue[s]) /\ IsInjective(list[s])
        /\ \A o \in Range(queue[s]) : Pending(o, s) /\ o \notin Range(list[s])
        /\ \A o \in Range(list[s]) : Pending(o, s)
        /\ \A t \in Task : held[t] \cap (Range(queue[s]) \cup Range(list[s])) = {}
    /\ IsInjective(completeRanges)
    /\ \A o \in Range(completeRanges) : o \notin pool /\ range[o].remaining = 0

\* What the polling task knows at each place.
PollInv ==
    /\ pos >= 1
    /\ ppc \in {"sleep", "dequeue"} => completeRanges = <<>>
    /\ ppc = "free" => completeRanges # <<>>
    /\ ppc = "reset" =>
        /\ pos <= Len(list[seg])
        /\ <<seg, pid>> \in Keys(range[list[seg][pos]])

\* The events of a task are exact, and none is left when it has completed.
EventInv ==
    /\ WaitAccounting
    /\ \A t \in Task : status[t] = "completed" => events[t] = 0

\* What a result array holds is what was consumed, but for a value that a wait
\* for one id has not overwritten yet.
ResultInv ==
    \A t \in Task, k \in Key :
        \/ out[t][k] = taken[t][k]
        \/ \E o \in RangesOf(t) :
            /\ range[o].buf /\ range[o].remaining > 0 /\ range[o].num = 1
            /\ k = <<range[o].seg, range[o].first>>

IInv == TypeOK /\ CallInv /\ LockInv /\ RangeInv /\ PollInv /\ EventInv /\ ResultInv

\* The ids that wait w has consumed are as many as it does not miss, and they
\* were not notified again.
Counted(w) == w.got \subseteq Ids(w) /\ Cardinality(w.got) + w.remaining = w.num
NotAgain(w) == \A i \in w.got : slot[<<w.seg, i>>] = 0

\* Unless an id was notified again, waits count ids and not only notifications.
IdInv ==
    ~resent =>
        /\ \A t \in Task : pc[t] # "body" => Counted(call[t]) /\ NotAgain(call[t])
        /\ \A o \in Object \ pool :
            Counted(range[o]) /\ (range[o].remaining > 0 => NotAgain(range[o]))

IInv2 == IInv /\ IdInv

-----------------------------------------------------------------------------

(***************************************************************************)
(* Sequences without repetitions, as the queues, lists and locks are.      *)
(***************************************************************************)

\* An element that is appended is one more, at the end.
LEMMA AppendElement ==
    ASSUME NEW S, NEW s \in Seq(S), NEW e \in S
    PROVE  /\ Append(s, e) \in Seq(S)
           /\ Range(Append(s, e)) = Range(s) \cup {e}
           /\ IsInjective(s) /\ e \notin Range(s) => IsInjective(Append(s, e))
           /\ Head(Append(s, e)) = IF s = <<>> THEN e ELSE Head(s)
  <1> DEFINE a == Append(s, e)
  <1>1. /\ a \in Seq(S) /\ Len(a) = Len(s) + 1 /\ Len(s) \in Nat
        /\ \A i \in 1 .. Len(s) : a[i] = s[i]
        /\ a[Len(s) + 1] = e
    BY AppendProperties, LenProperties
  <1>2. DOMAIN s = 1 .. Len(s) /\ DOMAIN a = 1 .. Len(s) + 1
    BY <1>1, LenProperties
  <1>3. Head(a) = IF s = <<>> THEN e ELSE Head(s)
    BY HeadTailAppend
  <1> HIDE DEF a
  <1>4. Range(a) = Range(s) \cup {e}
    BY <1>1, <1>2 DEF Range
  <1>5. IsInjective(s) /\ e \notin Range(s) => IsInjective(a)
    BY <1>1, <1>2 DEF Range, IsInjective
  <1>6. QED
    BY <1>1, <1>3, <1>4, <1>5 DEF a

\* Two sequences one after the other.
LEMMA ConcatElements ==
    ASSUME NEW S, NEW s \in Seq(S), NEW t \in Seq(S)
    PROVE  /\ s \o t \in Seq(S)
           /\ Range(s \o t) = Range(s) \cup Range(t)
           /\ IsInjective(s) /\ IsInjective(t) /\ Range(s) \cap Range(t) = {}
                => IsInjective(s \o t)
  <1> DEFINE c == s \o t
  <1>1. /\ c \in Seq(S) /\ Len(c) = Len(s) + Len(t)
        /\ \A i \in 1 .. Len(s) + Len(t) :
            c[i] = IF i <= Len(s) THEN s[i] ELSE t[i - Len(s)]
    BY ConcatProperties
  <1>2. /\ Len(s) \in Nat /\ Len(t) \in Nat /\ DOMAIN s = 1 .. Len(s)
        /\ DOMAIN t = 1 .. Len(t) /\ DOMAIN c = 1 .. Len(s) + Len(t)
    BY <1>1, LenProperties
  <1>3. Range(c) = Range(s) \cup Range(t)
    BY RangeConcatenation
  <1> HIDE DEF c
  <1>4. ASSUME IsInjective(s), IsInjective(t), Range(s) \cap Range(t) = {}
        PROVE  IsInjective(c)
    <2> SUFFICES ASSUME NEW i \in DOMAIN c, NEW j \in DOMAIN c, c[i] = c[j] PROVE i = j
      BY DEF IsInjective
    <2>1. CASE i <= Len(s) /\ j <= Len(s)
      BY <1>1, <1>2, <1>4, <2>1 DEF IsInjective
    <2>2. CASE i > Len(s) /\ j > Len(s)
      <3>1. i - Len(s) \in DOMAIN t /\ j - Len(s) \in DOMAIN t
        BY <1>2, <2>2
      <3>2. t[i - Len(s)] = t[j - Len(s)]
        BY <1>1, <1>2, <2>2
      <3>3. i - Len(s) = j - Len(s)
        BY <1>4, <3>1, <3>2 DEF IsInjective
      <3>4. QED
        BY <1>2, <3>3
    <2>3. CASE i <= Len(s) /\ j > Len(s)
      <3>1. i \in DOMAIN s /\ j - Len(s) \in DOMAIN t /\ s[i] = t[j - Len(s)]
        BY <1>1, <1>2, <2>3
      <3>2. QED
        BY <1>4, <3>1 DEF Range
    <2>4. CASE i > Len(s) /\ j <= Len(s)
      <3>1. j \in DOMAIN s /\ i - Len(s) \in DOMAIN t /\ s[j] = t[i - Len(s)]
        BY <1>1, <1>2, <2>4
      <3>2. QED
        BY <1>4, <3>1 DEF Range
    <2>5. QED
      BY <1>2, <2>1, <2>2, <2>3, <2>4
  <1>5. QED
    BY <1>1, <1>3, <1>4 DEF c

\* The rest of a sequence has all its elements but the first.
LEMMA TailElements ==
    ASSUME NEW S, NEW s \in Seq(S), s # <<>>, IsInjective(s)
    PROVE  /\ Tail(s) \in Seq(S)
           /\ Head(s) \in Range(s) /\ Head(s) \in S
           /\ Range(Tail(s)) = Range(s) \ {Head(s)}
           /\ IsInjective(Tail(s))
  <1> DEFINE r == Tail(s)
  <1>1. /\ r \in Seq(S) /\ Len(r) = Len(s) - 1 /\ Len(s) \in Nat /\ Len(s) >= 1
        /\ \A i \in 1 .. Len(r) : r[i] = s[i + 1]
        /\ Head(s) = s[1]
    BY HeadTailProperties, LenProperties, EmptySeq
  <1>2. DOMAIN s = 1 .. Len(s) /\ DOMAIN r = 1 .. Len(s) - 1
    BY <1>1, LenProperties
  <1> HIDE DEF r
  <1>3. \A i \in DOMAIN r : i + 1 \in DOMAIN s /\ i + 1 # 1 /\ r[i] = s[i + 1]
    BY <1>1, <1>2
  <1>4. \A i \in DOMAIN s : i # 1 => i - 1 \in DOMAIN r /\ (i - 1) + 1 = i
    BY <1>1, <1>2
  <1>5. Range(r) = Range(s) \ {s[1]}
    <2>1. ASSUME NEW x \in Range(r) PROVE x \in Range(s) /\ x # s[1]
      <3>1. PICK i \in DOMAIN r : x = r[i]
        BY DEF Range
      <3>2. QED
        BY <1>1, <1>2, <1>3, <3>1 DEF Range, IsInjective
    <2>2. ASSUME NEW x \in Range(s), x # s[1] PROVE x \in Range(r)
      <3>1. PICK i \in DOMAIN s : x = s[i]
        BY DEF Range
      <3>2. r[i - 1] = s[(i - 1) + 1] /\ i - 1 \in DOMAIN r
        BY <1>3, <1>4, <2>2, <3>1
      <3>3. QED
        BY <1>4, <2>2, <3>1, <3>2 DEF Range
    <2>3. QED
      BY <2>1, <2>2
  <1>6. IsInjective(r)
    <2> SUFFICES ASSUME NEW i \in DOMAIN r, NEW j \in DOMAIN r, r[i] = r[j] PROVE i = j
      BY DEF IsInjective
    <2>1. i + 1 = j + 1
      BY <1>3 DEF IsInjective
    <2>2. QED
      BY <1>1, <1>2, <2>1
  <1>7. s[1] \in Range(s) /\ s[1] \in S
    <2>1. 1 \in 1 .. Len(s)
      BY <1>1
    <2>2. QED
      BY <1>2, <2>1, ElementOfSeq DEF Range
  <1>8. QED
    BY <1>1, <1>5, <1>6, <1>7 DEF r

\* Erase removes the element at a position and nothing else.
LEMMA EraseElement ==
    ASSUME NEW S, NEW s \in Seq(S), NEW p \in 1 .. Len(s), IsInjective(s)
    PROVE  /\ Erase(s, p) \in Seq(S)
           /\ Range(Erase(s, p)) = Range(s) \ {s[p]}
           /\ IsInjective(Erase(s, p))
  <1>n. PICK n \in Nat : n = Len(s)
    BY LenProperties
  <1> DEFINE a == SubSeq(s, 1, p - 1)
             b == SubSeq(s, p + 1, n)
  <1>0. DOMAIN s = 1 .. n /\ p \in Nat /\ p >= 1 /\ p <= n
    BY <1>n, LenProperties
  <1>1. a \in Seq(S) /\ Len(a) = p - 1 /\ \A i \in 1 .. p - 1 : a[i] = s[i]
    <2>1. 1 \in Int /\ p - 1 \in Int /\ \A i \in 1 .. p - 1 : s[i] \in S
      BY <1>0, <1>n, ElementOfSeq
    <2>2. /\ a \in Seq(S) /\ Len(a) = IF 1 <= p - 1 THEN (p - 1) - 1 + 1 ELSE 0
          /\ \A i \in 1 .. (p - 1) - 1 + 1 : a[i] = s[1 + i - 1]
      BY <2>1, SubSeqProperties
    <2> HIDE DEF a
    <2>3. QED
      BY <1>0, <2>2
  <1>2. b \in Seq(S) /\ Len(b) = n - p /\ \A i \in 1 .. n - p : b[i] = s[p + i]
    <2>1. p + 1 \in Int /\ n \in Int /\ \A i \in p + 1 .. n : s[i] \in S
      BY <1>0, <1>n, ElementOfSeq
    <2>2. /\ b \in Seq(S)
          /\ Len(b) = IF p + 1 <= n THEN n - (p + 1) + 1 ELSE 0
          /\ \A i \in 1 .. n - (p + 1) + 1 : b[i] = s[p + 1 + i - 1]
      BY <2>1, SubSeqProperties
    <2> HIDE DEF b
    <2>3. ASSUME NEW i \in 1 .. n - p PROVE b[i] = s[p + i]
      <3>1. i \in 1 .. n - (p + 1) + 1 /\ p + 1 + i - 1 = p + i
        BY <1>0
      <3>2. QED
        BY <2>2, <3>1
    <2>4. Len(b) = n - p
      <3>1. CASE p < n
        BY <1>0, <2>2, <3>1
      <3>2. CASE p = n
        BY <1>0, <2>2, <3>2
      <3>3. QED
        BY <1>0, <3>1, <3>2
    <2>5. QED
      BY <2>2, <2>3, <2>4
  <1>3. /\ DOMAIN a = 1 .. p - 1 /\ DOMAIN b = 1 .. n - p
    BY <1>1, <1>2, LenProperties
  <1> HIDE DEF a, b
  <1>4. IsInjective(a)
    BY <1>0, <1>1, <1>3 DEF IsInjective
  <1>5. IsInjective(b)
    <2> SUFFICES ASSUME NEW i \in DOMAIN b, NEW j \in DOMAIN b, b[i] = b[j] PROVE i = j
      BY DEF IsInjective
    <2>1. p + i \in DOMAIN s /\ p + j \in DOMAIN s
      BY <1>0, <1>3
    <2>2. b[i] = s[p + i] /\ b[j] = s[p + j]
      BY <1>2, <1>3
    <2>3. p + i = p + j
      BY <2>1, <2>2 DEF IsInjective
    <2>4. QED
      BY <1>0, <1>3, <2>3
  <1>6. Range(a) \cap Range(b) = {}
    <2> SUFFICES ASSUME NEW i \in DOMAIN a, NEW j \in DOMAIN b, a[i] = b[j] PROVE FALSE
      BY DEF Range
    <2>1. i \in DOMAIN s /\ p + j \in DOMAIN s /\ i # p + j
      BY <1>0, <1>3
    <2>2. a[i] = s[i] /\ b[j] = s[p + j]
      BY <1>1, <1>2, <1>3
    <2>3. QED
      BY <2>1, <2>2 DEF IsInjective
  <1>7. Range(a) \cup Range(b) = Range(s) \ {s[p]}
    <2>1. ASSUME NEW i \in DOMAIN a PROVE a[i] \in Range(s) /\ a[i] # s[p]
      <3>1. i \in DOMAIN s /\ p \in DOMAIN s /\ i # p /\ a[i] = s[i]
        BY <1>0, <1>1, <1>3
      <3>2. QED
        BY <3>1 DEF Range, IsInjective
    <2>2. ASSUME NEW i \in DOMAIN b PROVE b[i] \in Range(s) /\ b[i] # s[p]
      <3>1. p + i \in DOMAIN s /\ p \in DOMAIN s /\ p + i # p /\ b[i] = s[p + i]
        BY <1>0, <1>2, <1>3
      <3>2. QED
        BY <3>1 DEF Range, IsInjective
    <2>3. ASSUME NEW i \in DOMAIN s, s[i] # s[p] PROVE s[i] \in Range(a) \cup Range(b)
      <3>1. CASE i < p
        BY <1>0, <1>1, <1>3, <3>1 DEF Range
      <3>2. CASE i > p
        <4>1. i - p \in DOMAIN b /\ b[i - p] = s[p + (i - p)] /\ p + (i - p) = i
          BY <1>0, <1>2, <1>3, <3>2
        <4>2. QED
          BY <4>1 DEF Range
      <3>3. QED
        BY <1>0, <2>3, <3>1, <3>2
    <2>4. QED
      BY <2>1, <2>2, <2>3 DEF Range
  <1>8. Erase(s, p) = a \o b
    BY <1>n DEF Erase, a, b
  <1>9. QED
    BY <1>1, <1>2, <1>4, <1>5, <1>6, <1>7, <1>8, ConcatElements

-----------------------------------------------------------------------------

(***************************************************************************)
(* Facts about waits and places that the steps below use.                  *)
(***************************************************************************)

\* The keys of a wait are notifications of its segment.
LEMMA KeysOfWait ==
    ASSUME NEW w \in WaitingRange, NEW t, IsWait(w, t)
    PROVE  /\ Ids(w) \subseteq Id /\ Keys(w) \subseteq Key
           /\ \A k \in Keys(w) : k = <<w.seg, k[2]>> /\ k[2] \in Ids(w) /\ k[2] \in Id
  <1>1. /\ w.seg \in Segment /\ w.first \in Nat /\ w.num \in Nat
        /\ w.first + w.num <= NumIds /\ NumIds \in Nat
    BY NotificationsAssumption DEF WaitingRange, Id, IsWait
  <1>2. Ids(w) \subseteq Id
    BY <1>1 DEF Ids, Id
  <1>3. QED
    BY <1>1, <1>2 DEF Keys, Ids, Key

\* The range at the iterator of a list is pending there.
LEMMA Listed ==
    ASSUME TypeOK, RangeInv, PollInv, pos <= Len(list[seg])
    PROVE  /\ list[seg] \in Seq(Object) /\ pos \in 1 .. Len(list[seg])
           /\ list[seg][pos] \in Object \ pool
           /\ list[seg][pos] \in Range(list[seg])
           /\ Pending(list[seg][pos], seg)
           /\ range[list[seg][pos]] \in WaitingRange
           /\ range[list[seg][pos]].task \in Task
           /\ IsWait(range[list[seg][pos]], range[list[seg][pos]].task)
  <1>1. list[seg] \in Seq(Object) /\ seg \in Segment /\ pos \in Nat /\ pos >= 1
    BY DEF TypeOK, PollInv
  <1>2. pos \in 1 .. Len(list[seg]) /\ DOMAIN list[seg] = 1 .. Len(list[seg])
    BY <1>1, LenProperties
  <1>3. list[seg][pos] \in Object /\ list[seg][pos] \in Range(list[seg])
    BY <1>1, <1>2, ElementOfSeq DEF Range
  <1>4. Pending(list[seg][pos], seg)
    BY <1>1, <1>3 DEF RangeInv
  <1>5. QED
    BY <1>1, <1>2, <1>3, <1>4 DEF RangeInv, Pending, TypeOK

\* The first of the complete ranges.
LEMMA FirstComplete ==
    ASSUME TypeOK, RangeInv, completeRanges # <<>>
    PROVE  /\ Head(completeRanges) \in Object \ pool
           /\ Head(completeRanges) \in Range(completeRanges)
           /\ Tail(completeRanges) \in Seq(Object)
           /\ Range(Tail(completeRanges)) = Range(completeRanges) \ {Head(completeRanges)}
           /\ IsInjective(Tail(completeRanges))
           /\ range[Head(completeRanges)].task \in Task
           /\ range[Head(completeRanges)].remaining = 0
  <1>1. completeRanges \in Seq(Object) /\ IsInjective(completeRanges)
    BY DEF TypeOK, RangeInv
  <1>2. /\ Tail(completeRanges) \in Seq(Object)
        /\ Head(completeRanges) \in Range(completeRanges) /\ Head(completeRanges) \in Object
        /\ Range(Tail(completeRanges)) = Range(completeRanges) \ {Head(completeRanges)}
        /\ IsInjective(Tail(completeRanges))
    BY <1>1, TailElements
  <1>3. QED
    BY <1>2 DEF RangeInv

\* The task that has pushed is the first in its lock.
LEMMA Unlocks ==
    ASSUME TypeOK, CallInv, LockInv, NEW t \in Task, pc[t] = "unlock"
    PROVE  LET s == call[t].seg
           IN  /\ s \in Segment /\ lock[s] # <<>> /\ t = Head(lock[s])
               /\ Tail(lock[s]) \in Seq(Task) /\ IsInjective(Tail(lock[s]))
               /\ Range(Tail(lock[s])) = Range(lock[s]) \ {t}
  <1> DEFINE s == call[t].seg
  <1>1. s \in Segment /\ lock[s] \in Seq(Task)
    BY DEF TypeOK, WaitingRange
  <1>2. t \in Range(lock[s]) /\ t = Head(lock[s]) /\ IsInjective(lock[s])
    BY <1>1 DEF LockInv
  <1>3. lock[s] # <<>>
    BY <1>2 DEF Range
  <1>4. QED
    BY <1>1, <1>2, <1>3, TailElements

\* What a wait is after it has consumed the notification of id i.
Consumed(w, i) == [w EXCEPT !.remaining = @ - 1, !.got = @ \cup {i}]

\* A reset of a notification that is there consumes its id.
LEMMA GotOne == \A s, i : slot[<<s, i>>] # 0 => Got(<<s, i>>) = {i}
  BY DEF Got

\* It misses one notification less, and is otherwise the same.
LEMMA ConsumedFields ==
    ASSUME NEW w \in WaitingRange, NEW i \in Id, w.remaining > 0
    PROVE  /\ Consumed(w, i) \in WaitingRange
           /\ Consumed(w, i).seg = w.seg /\ Consumed(w, i).first = w.first
           /\ Consumed(w, i).num = w.num /\ Consumed(w, i).buf = w.buf
           /\ Consumed(w, i).task = w.task
           /\ Consumed(w, i).remaining = w.remaining - 1
           /\ Consumed(w, i).got = w.got \cup {i}
           /\ Keys(Consumed(w, i)) = Keys(w) /\ Ids(Consumed(w, i)) = Ids(w)
  <1> DEFINE c == Consumed(w, i)
  <1>1. /\ c.seg = w.seg /\ c.first = w.first /\ c.num = w.num /\ c.buf = w.buf
        /\ c.task = w.task /\ c.remaining = w.remaining - 1 /\ c.got = w.got \cup {i}
    BY DEF Consumed, WaitingRange
  <1>2. w.remaining - 1 \in 0 .. NumIds /\ w.got \cup {i} \in SUBSET Id
    BY NotificationsAssumption DEF WaitingRange
  <1>3. ASSUME NEW r \in 0 .. NumIds, NEW g \in SUBSET Id
        PROVE  [w EXCEPT !.remaining = r, !.got = g] \in WaitingRange
    <2>1. [w EXCEPT !.remaining = r] \in WaitingRange
      BY DEF WaitingRange
    <2>2. \A v \in WaitingRange : [v EXCEPT !.got = g] \in WaitingRange
      BY DEF WaitingRange
    <2>3. QED
      BY <2>1, <2>2
  <1>4. c \in WaitingRange
    BY <1>2, <1>3 DEF Consumed
  <1> HIDE DEF c
  <1>5. Keys(c) = Keys(w) /\ Ids(c) = Ids(w)
    BY <1>1 DEF Keys, Ids
  <1>6. QED
    BY <1>1, <1>4, <1>5 DEF c

\* One value of one array is replaced.
LEMMA ReplaceValue ==
    ASSUME NEW V, NEW f \in [Task -> [Key -> V]], NEW t \in Task, NEW k \in Key, NEW v \in V
    PROVE  /\ [f EXCEPT ![t][k] = v] \in [Task -> [Key -> V]]
           /\ [f EXCEPT ![t][k] = v][t][k] = v
           /\ \A u \in Task, j \in Key :
                u # t \/ j # k => [f EXCEPT ![t][k] = v][u][j] = f[u][j]
  <1> DEFINE g == [f[t] EXCEPT ![k] = v]
  <1>1. [f EXCEPT ![t][k] = v] = [f EXCEPT ![t] = g]
    OBVIOUS
  <1>2. g \in [Key -> V] /\ g[k] = v /\ \A j \in Key : j # k => g[j] = f[t][j]
    OBVIOUS
  <1> HIDE DEF g
  <1>3. QED
    BY <1>1, <1>2

\* A delivery writes one value to one array.
LEMMA Delivered ==
    ASSUME TypeOK, NEW t \in Task, NEW k \in Key, Deliver(t, k)
    PROVE  /\ out' \in [Task -> [Key -> Value \cup {0, Garbage}]]
           /\ taken' \in [Task -> [Key -> Value \cup {0}]]
           /\ out'[t][k] = taken'[t][k]
           /\ \A u \in Task, j \in Key : u # t \/ j # k =>
                out'[u][j] = out[u][j] /\ taken'[u][j] = taken[u][j]
  <1>1. /\ out \in [Task -> [Key -> Value \cup {0, Garbage}]]
        /\ taken \in [Task -> [Key -> Value \cup {0}]]
        /\ slot[k] \in Value \cup {0} /\ slot[k] \in Value \cup {0, Garbage}
    BY DEF TypeOK
  <1>2. out' = [out EXCEPT ![t][k] = slot[k]] /\ taken' = [taken EXCEPT ![t][k] = slot[k]]
    BY DEF Deliver
  <1>3. /\ [out EXCEPT ![t][k] = slot[k]] \in [Task -> [Key -> Value \cup {0, Garbage}]]
        /\ [out EXCEPT ![t][k] = slot[k]][t][k] = slot[k]
        /\ \A u \in Task, j \in Key :
            u # t \/ j # k => [out EXCEPT ![t][k] = slot[k]][u][j] = out[u][j]
    BY <1>1, ReplaceValue
  <1>4. /\ [taken EXCEPT ![t][k] = slot[k]] \in [Task -> [Key -> Value \cup {0}]]
        /\ [taken EXCEPT ![t][k] = slot[k]][t][k] = slot[k]
        /\ \A u \in Task, j \in Key :
            u # t \/ j # k => [taken EXCEPT ![t][k] = slot[k]][u][j] = taken[u][j]
    BY <1>1, ReplaceValue
  <1>5. QED
    BY <1>2, <1>3, <1>4

-----------------------------------------------------------------------------

\* Nothing has been called, and every object is free.
LEMMA InitIInv == Init => IInv2
  <1> SUFFICES ASSUME Init PROVE IInv2
    OBVIOUS
  <1> USE DEF Init, TaskInit
  <1>1. NoRange \in WaitingRange /\ 0 \in Segment /\ 0 \in Id
    BY NotificationsAssumption DEF NoRange, WaitingRange, Segment, Id
  <1>2. TypeOK
    <2>1. NoValues \in [Key -> Value \cup {0}] /\ NoValues \in [Key -> Value \cup {0, Garbage}]
      BY DEF NoValues
    <2>2. TaskTypeOK /\ out \in [Task -> [Key -> Value \cup {0, Garbage}]]
          /\ taken \in [Task -> [Key -> Value \cup {0}]]
      BY <2>1 DEF TaskTypeOK, TaskStatus
    <2>3. /\ queue \in [Segment -> Seq(Object)] /\ lock \in [Segment -> Seq(Task)]
          /\ list \in [Segment -> Seq(Object)] /\ completeRanges \in Seq(Object)
      OBVIOUS
    <2>4. /\ pc \in [Task -> {"body", "test", "reset", "increase", "allocate", "lock",
                              "push", "unlock"}]
          /\ call \in [Task -> WaitingRange] /\ tid \in [Task -> Id]
          /\ held \in [Task -> SUBSET Object] /\ range \in [Object -> WaitingRange]
      BY <1>1
    <2>5. calls \in 0 .. MaxCalls
      BY NotificationsAssumption
    <2>6. QED
      BY <1>1, <2>1, <2>2, <2>3, <2>4, <2>5, Zenon DEF TypeOK
  <1>3. CallInv
    BY DEF CallInv, CallOK
  <1>4. LockInv
    BY DEF LockInv, Range, IsInjective
  <1>5. RangeInv
    BY DEF RangeInv, Range, IsInjective
  <1>6. PollInv
    BY DEF PollInv
  <1>7. EventInv
    <2>1. ASSUME NEW t \in Task PROVE WaitEvents(t) = 0
      <3>1. {o \in RangesOf(t) : ~Completing(o)} = {}
        BY DEF RangesOf
      <3>2. Cardinality({o \in RangesOf(t) : ~Completing(o)}) = 0 /\ pc[t] = "body"
        BY <3>1, FS_EmptySet
      <3>3. QED
        BY <3>2 DEF WaitEvents
    <2>2. QED
      BY <2>1 DEF EventInv, WaitAccounting
  <1>8. ResultInv
    BY DEF ResultInv
  <1>9. IdInv
    BY DEF IdInv
  <1>10. QED
    BY <1>2, <1>3, <1>4, <1>5, <1>6, <1>7, <1>8, <1>9 DEF IInv2, IInv

-----------------------------------------------------------------------------

\* Every step keeps the types.
LEMMA StepType == IInv /\ [Next]_vars => TypeOK'
  <1> SUFFICES ASSUME IInv, [Next]_vars PROVE TypeOK'
    OBVIOUS
  <1> USE DEF taskVars, callVars, gaspiVars, rangeVars, pollVars, outVars, TaskTypeOK, Alive
  <1>0. TypeOK /\ CallInv /\ LockInv /\ RangeInv /\ PollInv
    BY DEF IInv
  <1>A. 0 \in Segment /\ 0 \in Id /\ NoRange \in WaitingRange
        /\ NoValues \in [Key -> Value \cup {0}]
        /\ NoValues \in [Key -> Value \cup {0, Garbage}]
    BY NotificationsAssumption DEF Segment, Id, NoRange, WaitingRange, NoValues
  <1>1. ASSUME NEW t \in Task, Alive, TaskCall(t) PROVE TypeOK'
    <2>1. PICK w \in WaitingRange : Wait(t, w)
      <3>1. PICK s \in Segment, i \in Id, b \in Buffers :
                \/ tagaspi_notify_async_wait(t, s, i, b)
                \/ \E n \in 0 .. NumIds - i : tagaspi_notify_async_waitall(t, s, i, n, b)
        BY <1>1 DEF TaskCall
      <3>2. CASE tagaspi_notify_async_wait(t, s, i, b)
        <4>1. 1 \in 0 .. NumIds
          BY NotificationsAssumption
        <4>2. QED
          BY <3>2, <4>1, NotificationsAssumption DEF tagaspi_notify_async_wait, WaitingRange
      <3>3. ASSUME NEW n \in 0 .. NumIds - i, tagaspi_notify_async_waitall(t, s, i, n, b)
            PROVE  \E w \in WaitingRange : Wait(t, w)
        <4>1. n \in 0 .. NumIds
          BY NotificationsAssumption DEF Id
        <4>2. QED
          BY <3>3, <4>1, NotificationsAssumption DEF tagaspi_notify_async_waitall, WaitingRange
      <3>4. QED
        BY <3>1, <3>2, <3>3
    <2>2. calls + 1 \in 0 .. MaxCalls
      BY <1>0, <2>1, NotificationsAssumption DEF TypeOK, Wait
    <2>3. QED
      BY <1>0, <1>1, <2>1, <2>2 DEF TypeOK, Wait
  <1>2. ASSUME NEW t \in Task, Alive, EndTask(t) PROVE TypeOK'
    BY <1>0, <1>2 DEF TypeOK, EndTask, FinishBody, TaskStatus
  <1>3. ASSUME NEW t \in Task, Alive, SpawnTask(t) PROVE TypeOK'
    BY <1>0, <1>A, <1>3 DEF TypeOK, SpawnTask, Spawn, TaskStatus
  <1>4. ASSUME NEW t \in Task, Alive, TestNotification(t) PROVE TypeOK'
    <2>1. \A k \in Notified(call[t]) : k[2] \in Id
      BY <1>0, <1>4, KeysOfWait DEF TestNotification, Notified, CallInv, CallOK, TypeOK
    <2>2. QED
      BY <1>0, <1>4, <2>1 DEF TypeOK, TestNotification
  <1>5. ASSUME NEW t \in Task, Alive, ResetNotification(t) PROVE TypeOK'
    <2> DEFINE k == <<call[t].seg, tid[t]>>
    <2>1. k \in Key /\ k[2] \in Id /\ call[t] \in WaitingRange /\ call[t].remaining > 0
      BY <1>0, <1>5, KeysOfWait DEF ResetNotification, CallInv, CallOK, TypeOK
    <2>2. Consumed(call[t], k[2]) \in WaitingRange
      BY <2>1, ConsumedFields
    <2> DEFINE w == IF call[t].remaining = 1 THEN NoRange ELSE Consumed(call[t], k[2])
    <2>g. slot[k] # 0 => Got(k) = {k[2]}
      BY GotOne
    <2>a. call' = call \/ call' = [call EXCEPT ![t] = w]
      BY <1>5, <2>g DEF ResetNotification, IsNotified, Consumed
    <2>b. w \in WaitingRange
      BY <1>A, <2>2
    <2>c. call' \in [Task -> WaitingRange]
      BY <1>0, <2>a, <2>b DEF TypeOK
    <2>3. pc' \in [Task -> {"body", "test", "reset", "increase", "allocate", "lock", "push",
                            "unlock"}]
          /\ tid' \in [Task -> Id]
      BY <1>0, <1>A, <1>5 DEF TypeOK, ResetNotification, IsNotified
    <2>4. slot' \in [Key -> Value \cup {0}]
      BY <1>0, <1>5 DEF TypeOK, ResetNotification, Consume
    <2>5. out' \in [Task -> [Key -> Value \cup {0, Garbage}]]
          /\ taken' \in [Task -> [Key -> Value \cup {0}]]
      <3>1. Deliver(t, k) \/ UNCHANGED outVars
        BY <1>5 DEF ResetNotification, IsNotified
      <3>2. QED
        BY <1>0, <2>1, <3>1, Delivered DEF TypeOK
    <2> HIDE DEF w, k
    <2>6. QED
      BY <1>0, <1>5, <2>c, <2>3, <2>4, <2>5 DEF TypeOK, ResetNotification, IsNotified, Consume
  <1>6. ASSUME NEW t \in Task, Alive, IncreaseEvents(t) PROVE TypeOK'
    BY <1>0, <1>6 DEF TypeOK, IncreaseEvents, increaseCurrentTaskEvents
  <1>7. ASSUME NEW t \in Task, Alive, Allocate(t) PROVE TypeOK'
    BY <1>0, <1>7 DEF TypeOK, Allocate
  <1>8. ASSUME NEW t \in Task, Alive, Lock(t) PROVE TypeOK'
    <2>1. call[t].seg \in Segment
      BY <1>0 DEF TypeOK, WaitingRange
    <2>2. QED
      BY <1>0, <1>8, <2>1 DEF TypeOK, Lock
  <1>9. ASSUME NEW t \in Task, Alive, Push(t) PROVE TypeOK'
    <2>1. call[t].seg \in Segment
      BY <1>0 DEF TypeOK, WaitingRange
    <2>2. queue' \in [Segment -> Seq(Object)]
      BY <1>0, <1>9, <2>1 DEF TypeOK, Push
    <2>3. QED
      BY <1>0, <1>9, <2>2 DEF TypeOK, Push
  <1>10. ASSUME NEW t \in Task, Alive, Unlock(t) PROVE TypeOK'
    <2>1. call[t].seg \in Segment /\ Tail(lock[call[t].seg]) \in Seq(Task)
      BY <1>0, <1>10, Unlocks DEF Unlock
    <2>2. QED
      BY <1>0, <1>A, <1>10, <2>1 DEF TypeOK, Unlock, unlock
  <1>11. ASSUME NEW k \in Key, NEW v \in Value, Alive, NotificationArrives(k, v)
         PROVE  TypeOK'
    BY <1>0, <1>11 DEF TypeOK, NotificationArrives
  <1>12. ASSUME Alive, PollNotifications PROVE TypeOK'
    BY <1>0, <1>A, <1>12 DEF TypeOK, PollNotifications
  <1>13. ASSUME Alive, DequeueAll PROVE TypeOK'
    <2>1. list[seg] \o queue[seg] \in Seq(Object) /\ <<>> \in Seq(Object)
      BY <1>0, ConcatElements DEF TypeOK
    <2>2. QED
      BY <1>0, <1>13, <2>1 DEF TypeOK, DequeueAll
  <1>14. ASSUME NEW o \in Object \ pool, seg = range[o].seg, range[o] \in WaitingRange,
                range[o].task \in Task, Unfinished(o)
         PROVE  /\ out' \in [Task -> [Key -> Value \cup {0, Garbage}]]
                /\ pos' \in Nat /\ ppc' = "scan"
    <2>1. <<seg, range[o].first>> \in Key
      BY <1>14 DEF WaitingRange, Key
    <2>2. out \in [Task -> [Key -> Value \cup {0, Garbage}]] /\ Garbage \in Value \cup {0, Garbage}
      BY <1>0 DEF TypeOK
    <2>3. [out EXCEPT ![range[o].task][<<seg, range[o].first>>] = Garbage]
            \in [Task -> [Key -> Value \cup {0, Garbage}]]
      BY <1>14, <2>1, <2>2, ReplaceValue
    <2>4. out' \in [Task -> [Key -> Value \cup {0, Garbage}]] /\ ppc' = "scan"
      BY <1>14, <2>2, <2>3 DEF Unfinished
    <2>5. pos' \in Nat
      BY <1>0, <1>14 DEF TypeOK, Unfinished
    <2>6. QED
      BY <2>4, <2>5
  <1>15. ASSUME Alive, CheckRange PROVE TypeOK'
    <2>1. CASE pos > Len(list[seg])
      BY <1>0, <1>15, <2>1, LenProperties DEF TypeOK, CheckRange
    <2>2. CASE ~(pos > Len(list[seg]))
      <3> DEFINE o == list[seg][pos]
      <3>1. pos <= Len(list[seg])
        BY <1>0, <2>2, LenProperties DEF TypeOK
      <3>2. /\ o \in Object \ pool /\ seg = range[o].seg /\ range[o] \in WaitingRange
            /\ range[o].task \in Task /\ IsWait(range[o], range[o].task)
        BY <1>0, <3>1, Listed DEF Pending
      <3>3. \A k \in Notified(range[o]) : k[2] \in Id
        BY <3>2, KeysOfWait DEF Notified
      <3> HIDE DEF o
      <3>4. CASE \E k \in Notified(range[o]) :
                    /\ pid' = k[2]
                    /\ ppc' = "reset"
                    /\ UNCHANGED <<range, list, pos, completeRanges, outVars>>
        BY <1>0, <1>15, <3>3, <3>4 DEF TypeOK, CheckRange
      <3>5. CASE Unfinished(o) /\ UNCHANGED pid
        BY <1>0, <1>14, <1>15, <3>2, <3>5 DEF TypeOK, CheckRange, Unfinished
      <3>6. QED
        BY <1>15, <2>2, <3>4, <3>5 DEF CheckRange, o
    <2>3. QED
      BY <2>1, <2>2
  <1>16. ASSUME Alive, ResetRange PROVE TypeOK'
    <2> DEFINE o == list[seg][pos]
               k == <<seg, pid>>
    <2>1. pos <= Len(list[seg]) /\ k \in Keys(range[o])
      BY <1>0, <1>16 DEF PollInv, ResetRange
    <2>2. /\ o \in Object \ pool /\ seg = range[o].seg /\ range[o] \in WaitingRange
          /\ range[o].task \in Task /\ IsWait(range[o], range[o].task)
          /\ range[o].remaining > 0 /\ list[seg] \in Seq(Object) /\ pos \in 1 .. Len(list[seg])
      BY <1>0, <2>1, Listed DEF Pending
    <2>3. k \in Key /\ k[2] \in Id
      BY <1>0, <2>1, <2>2, KeysOfWait
    <2>4. Erase(list[seg], pos) \in Seq(Object)
      BY <1>0, <2>2, EraseElement DEF RangeInv, TypeOK
    <2>5. slot' \in [Key -> Value \cup {0}] /\ pid' = 0 /\ resent' = resent
          /\ UNCHANGED <<taskVars, callVars, pool, queue, lock, seg, aborted>>
      BY <1>0, <1>16 DEF TypeOK, ResetRange, Consume
    <2>6. Unfinished(o) \/ (slot[k] # 0 /\ Count(o, k))
      BY <1>16 DEF ResetRange, IsNotified
    <2>g. slot[k] # 0 => Got(k) = {k[2]}
      BY GotOne
    <2> HIDE DEF o, k
    <2>7. CASE Unfinished(o)
      BY <1>0, <1>A, <1>14, <2>2, <2>5, <2>7 DEF TypeOK, Unfinished
    <2>8. CASE slot[k] # 0 /\ Count(o, k)
      <3>1. range' \in [Object -> WaitingRange]
        <4>1. Consumed(range[o], k[2]) \in WaitingRange
          BY <2>2, <2>3, ConsumedFields
        <4>2. range' = [range EXCEPT ![o] = Consumed(range[o], k[2])]
          BY <1>0, <2>2, <2>8, <2>g DEF Count, TypeOK, WaitingRange, Consumed
        <4>3. QED
          BY <1>0, <4>1, <4>2 DEF TypeOK
      <3>2. /\ out' \in [Task -> [Key -> Value \cup {0, Garbage}]]
            /\ taken' \in [Task -> [Key -> Value \cup {0}]]
        <4>1. Deliver(range[o].task, k) \/ UNCHANGED outVars
          BY <2>8 DEF Count
        <4>2. QED
          BY <1>0, <2>2, <2>3, <4>1, Delivered DEF TypeOK
      <3>3. list' \in [Segment -> Seq(Object)] /\ completeRanges' \in Seq(Object)
        <4>1. CASE LastOf(o)
          <5>1. Append(completeRanges, o) \in Seq(Object)
            BY <1>0, <2>2, AppendElement DEF TypeOK
          <5>2. QED
            BY <1>0, <2>4, <2>8, <4>1, <5>1 DEF TypeOK, Count
        <4>2. CASE ~LastOf(o)
          BY <1>0, <2>8, <4>2 DEF TypeOK, Count
        <4>3. QED
          BY <4>1, <4>2
      <3>4. ppc' = "scan" /\ pos' = pos
        BY <2>8 DEF Count
      <3>5. QED
        BY <1>0, <1>A, <2>5, <3>1, <3>2, <3>3, <3>4 DEF TypeOK
    <2>9. QED
      BY <2>6, <2>7, <2>8
  <1>17. ASSUME Alive, CompleteRange PROVE TypeOK'
    <2>1. CASE completeRanges # <<>>
      <3>1. range[Head(completeRanges)].task \in Task
        BY <1>0, <2>1, FirstComplete
      <3>2. decreaseTaskEvents(range[Head(completeRanges)].task, 1)
            /\ ppc' = "free" /\ UNCHANGED <<seg, aborted>>
            /\ UNCHANGED <<callVars, gaspiVars, rangeVars, pos, pid, completeRanges, outVars>>
        BY <1>17, <2>1 DEF CompleteRange, complete
      <3>3. TaskTypeOK'
        BY <1>0, <3>1, <3>2 DEF TypeOK, decreaseTaskEvents, TaskStatus
      <3>4. QED
        BY <1>0, <3>2, <3>3 DEF TypeOK
    <2>2. CASE completeRanges = <<>>
      <3>1. seg' \in Segment
        <4>1. seg \in Nat /\ MaxSegments \in Nat /\ seg' \in {seg + 1, 0}
              /\ (seg' = 0 \/ seg + 1 < MaxSegments)
          BY <1>0, <1>17, <2>2, NotificationsAssumption
          DEF TypeOK, CompleteRange, MoreSegments, Segment
        <4>2. QED
          BY <1>A, <4>1 DEF Segment
      <3>2. QED
        BY <1>0, <1>17, <2>2, <3>1 DEF TypeOK, CompleteRange
    <2>3. QED
      BY <2>1, <2>2
  <1>18. ASSUME Alive, FreeRange PROVE TypeOK'
    <2>1. Head(completeRanges) \in Object /\ Tail(completeRanges) \in Seq(Object)
      BY <1>0, <1>18, FirstComplete DEF FreeRange, PollInv
    <2>2. QED
      BY <1>0, <1>A, <1>18, <2>1 DEF TypeOK, FreeRange, free
  <1>19. CASE NotificationError
    BY <1>0, <1>19 DEF TypeOK, NotificationError
  <1>20. CASE UNCHANGED vars
    BY <1>0, <1>20 DEF TypeOK, vars
  <1>21. QED
    BY <1>1, <1>2, <1>3, <1>4, <1>5, <1>6, <1>7, <1>8, <1>9, <1>10, <1>11, <1>12, <1>13,
       <1>15, <1>16, <1>17, <1>18, <1>19, <1>20
    DEF Next, TaskStep, Poller, Aborted

-----------------------------------------------------------------------------

(***************************************************************************)
(* What the steps with several outcomes do.                                *)
(***************************************************************************)

\* A call waits for at least one id and has consumed nothing.
LEMMA CallEffect ==
    ASSUME NEW t \in Task, TaskCall(t)
    PROVE  \E w \in WaitingRange :
            Wait(t, w) /\ IsWait(w, t) /\ w.remaining = w.num /\ w.got = {}
  <1>1. PICK s \in Segment, i \in Id, b \in Buffers :
            \/ tagaspi_notify_async_wait(t, s, i, b)
            \/ \E n \in 0 .. NumIds - i : tagaspi_notify_async_waitall(t, s, i, n, b)
    BY DEF TaskCall
  <1> DEFINE W(n) == [seg |-> s, first |-> i, num |-> n, remaining |-> n, buf |-> b,
                      task |-> t, got |-> {}]
  <1>2. PICK n \in 0 .. NumIds - i : n # 0 /\ Wait(t, W(n))
    <2>1. CASE tagaspi_notify_async_wait(t, s, i, b)
      <3>1. 1 \in 0 .. NumIds - i
        BY NotificationsAssumption DEF Id
      <3>2. Wait(t, W(1))
        BY <2>1 DEF tagaspi_notify_async_wait
      <3> HIDE DEF W
      <3>3. QED
        BY <3>1, <3>2
    <2>2. CASE \E n \in 0 .. NumIds - i : tagaspi_notify_async_waitall(t, s, i, n, b)
      BY <2>2 DEF tagaspi_notify_async_waitall
    <2>3. QED
      BY <1>1, <2>1, <2>2
  <1>3. n \in 0 .. NumIds /\ n >= 1 /\ i + n <= NumIds /\ n <= n
    BY <1>2, NotificationsAssumption DEF Id
  <1>4. W(n) \in WaitingRange
    BY <1>3, NotificationsAssumption DEF WaitingRange
  <1>5. IsWait(W(n), t) /\ W(n).remaining = W(n).num /\ W(n).got = {}
    BY <1>3 DEF IsWait
  <1>6. QED
    BY <1>2, <1>4, <1>5

\* The reset of a call finds nothing, consumes the last notification it misses
\* and returns, or consumes another one.
LEMMA ResetEffect ==
    ASSUME TypeOK, CallInv, NEW t \in Task, ResetNotification(t)
    PROVE  LET w == call[t]
               k == <<w.seg, tid[t]>>
           IN  /\ w \in WaitingRange /\ IsWait(w, t) /\ w.remaining > 0
               /\ k \in Key /\ tid[t] \in Ids(w) /\ tid[t] \in Id
               /\ pc[t] = "reset" /\ held[t] = {}
               /\ slot' = [slot EXCEPT ![k] = 0] /\ resent' = resent
               /\ \/ /\ pc' = [pc EXCEPT ![t] = "increase"]
                     /\ UNCHANGED <<call, out, taken>>
                  \/ /\ w.remaining = 1
                     /\ pc' = [pc EXCEPT ![t] = "body"]
                     /\ call' = [call EXCEPT ![t] = NoRange]
                  \/ /\ w.remaining # 1 /\ slot[k] # 0
                     /\ pc' = [pc EXCEPT ![t] = "test"]
                     /\ call' = [call EXCEPT ![t] = Consumed(w, tid[t])]
               /\ Deliver(t, k) \/ UNCHANGED <<out, taken>>
  <1> DEFINE w == call[t]
             k == <<w.seg, tid[t]>>
  <1>1. w \in WaitingRange /\ IsWait(w, t) /\ w.remaining > 0 /\ pc[t] = "reset"
        /\ k \in Keys(w) /\ held[t] = {}
    BY DEF TypeOK, CallInv, CallOK, ResetNotification
  <1>2. k \in Key /\ tid[t] \in Ids(w) /\ tid[t] \in Id
    BY <1>1, KeysOfWait
  <1>3. QED
    BY <1>1, <1>2, GotOne DEF ResetNotification, IsNotified, Consume, Consumed, outVars

\* An unsuccessful check writes at most the only key of the range.
LEMMA UnfinishedEffect ==
    ASSUME TypeOK, NEW o \in Object \ pool, seg = range[o].seg, range[o] \in WaitingRange,
           range[o].task \in Task, Unfinished(o)
    PROVE  /\ pos' = pos + 1 /\ ppc' = "scan"
           /\ UNCHANGED <<range, list, completeRanges, taken>>
           /\ \A u \in Task, j \in Key :
                \/ out'[u][j] = out[u][j]
                \/ /\ u = range[o].task /\ range[o].num = 1 /\ range[o].buf
                   /\ j = <<range[o].seg, range[o].first>>
  <1>1. <<seg, range[o].first>> \in Key
    BY DEF WaitingRange, Key
  <1>2. out \in [Task -> [Key -> Value \cup {0, Garbage}]] /\ Garbage \in Value \cup {0, Garbage}
    BY DEF TypeOK
  <1>3. \A u \in Task, j \in Key : u # range[o].task \/ j # <<seg, range[o].first>> =>
            [out EXCEPT ![range[o].task][<<seg, range[o].first>>] = Garbage][u][j] = out[u][j]
    BY <1>1, <1>2, ReplaceValue
  <1>4. QED
    BY <1>3 DEF Unfinished

\* The check of the polling task ends the list, finds a notification of the
\* range at the iterator, or does not.
LEMMA CheckEffect ==
    ASSUME TypeOK, RangeInv, PollInv, CheckRange
    PROVE  LET o == list[seg][pos]
           IN  \/ /\ ppc' = "complete" /\ pos' = 1
                  /\ UNCHANGED <<range, list, pid, completeRanges, out, taken>>
               \/ /\ pos <= Len(list[seg]) /\ ppc' = "reset"
                  /\ <<seg, pid'>> \in Keys(range[o])
                  /\ UNCHANGED <<range, list, pos, completeRanges, out, taken>>
               \/ /\ pos <= Len(list[seg]) /\ Unfinished(o) /\ ppc' = "scan" /\ pos' = pos + 1
                  /\ UNCHANGED <<range, list, pid, completeRanges, taken>>
  <1> DEFINE o == list[seg][pos]
  <1>1. CASE pos <= Len(list[seg])
    <2>1. /\ seg = range[o].seg /\ range[o] \in WaitingRange
          /\ IsWait(range[o], range[o].task)
      BY <1>1, Listed DEF Pending
    <2>2. \A k \in Notified(range[o]) : k \in Keys(range[o]) /\ k = <<seg, k[2]>>
      BY <2>1, KeysOfWait DEF Notified
    <2> HIDE DEF o
    <2>3. CASE \E k \in Notified(range[o]) :
                  /\ pid' = k[2]
                  /\ ppc' = "reset"
                  /\ UNCHANGED <<range, list, pos, completeRanges, outVars>>
      BY <1>1, <2>2, <2>3 DEF o, outVars
    <2>4. CASE Unfinished(o) /\ UNCHANGED pid
      BY <1>1, <2>4 DEF o, Unfinished
    <2>5. CASE /\ ppc' = "complete" /\ pos' = 1
               /\ UNCHANGED <<range, list, pid, completeRanges, outVars>>
      BY <2>5 DEF outVars
    <2>6. QED
      BY <2>3, <2>4, <2>5 DEF CheckRange, o
  <1>2. CASE ~(pos <= Len(list[seg]))
    BY <1>2 DEF CheckRange, outVars
  <1>3. QED
    BY <1>1, <1>2

\* The reset of the polling task is about the listed range at the iterator and
\* one of its keys; it finds nothing, or it consumes the notification.
LEMMA ResetRangeEffect ==
    ASSUME TypeOK, RangeInv, PollInv, ResetRange
    PROVE  LET o == list[seg][pos]
               k == <<seg, pid>>
           IN  /\ pos \in 1 .. Len(list[seg]) /\ list[seg] \in Seq(Object)
               /\ o \in Object \ pool /\ o \in Range(list[seg]) /\ Pending(o, seg)
               /\ range[o] \in WaitingRange /\ range[o].task \in Task
               /\ IsWait(range[o], range[o].task)
               /\ k \in Key /\ pid \in Ids(range[o]) /\ pid \in Id
               /\ slot' = [slot EXCEPT ![k] = 0] /\ resent' = resent
               /\ ppc = "reset" /\ ppc' = "scan"
               /\ \/ Unfinished(o)
                  \/ /\ slot[k] # 0 /\ Count(o, k) /\ pos' = pos
                     /\ range' = [range EXCEPT ![o] = Consumed(range[o], pid)]
  <1> DEFINE o == list[seg][pos]
             k == <<seg, pid>>
  <1>1. pos <= Len(list[seg]) /\ k \in Keys(range[o]) /\ ppc = "reset"
    BY DEF ResetRange, PollInv
  <1>2. /\ pos \in 1 .. Len(list[seg]) /\ list[seg] \in Seq(Object)
        /\ o \in Object \ pool /\ o \in Range(list[seg]) /\ Pending(o, seg)
        /\ range[o] \in WaitingRange /\ range[o].task \in Task
        /\ IsWait(range[o], range[o].task)
    BY <1>1, Listed
  <1>3. k \in Key /\ pid \in Ids(range[o]) /\ pid \in Id
    BY <1>1, <1>2, KeysOfWait
  <1>4. /\ slot' = [slot EXCEPT ![k] = 0] /\ resent' = resent
        /\ Unfinished(o) \/ (slot[k] # 0 /\ Count(o, k))
    BY DEF ResetRange, IsNotified, Consume
  <1>5. ppc' = "scan"
    BY <1>4 DEF Unfinished, Count
  <1>6. slot[k] # 0 /\ Count(o, k) => /\ pos' = pos
                       /\ range' = [range EXCEPT ![o] = Consumed(range[o], pid)]
    BY <1>2, GotOne DEF Count, TypeOK, WaitingRange, Consumed
  <1> HIDE DEF o, k
  <1>7. QED
    BY <1>1, <1>2, <1>3, <1>4, <1>5, <1>6 DEF o, k

-----------------------------------------------------------------------------

\* A call stays with the range it waits for, whatever others do meanwhile.
LEMMA StepCall == IInv /\ [Next]_vars => CallInv'
  <1> SUFFICES ASSUME IInv, [Next]_vars, NEW u \in Task PROVE CallOK(u)'
    BY DEF CallInv
  <1> USE DEF taskVars, callVars, gaspiVars, rangeVars, pollVars, outVars, Alive
  <1>0. TypeOK /\ CallInv /\ RangeInv /\ PollInv /\ CallOK(u)
    BY DEF IInv, CallInv
  <1>f. ASSUME pc'[u] = pc[u], call'[u] = call[u], tid'[u] = tid[u], held'[u] = held[u],
               pc[u] # "body" => status'[u] = status[u],
               \A o \in held[u] : o \notin pool => o \notin pool' /\ range'[o] = range[o]
        PROVE  CallOK(u)'
    BY <1>0, <1>f DEF CallOK
  <1>1. ASSUME NEW t \in Task, Alive, TaskCall(t) PROVE CallOK(u)'
    <2>1. PICK w \in WaitingRange :
            Wait(t, w) /\ IsWait(w, t) /\ w.remaining = w.num /\ w.got = {}
      BY <1>1, CallEffect
    <2>2. CASE u = t
      <3>1. pc'[u] = "test" /\ call'[u] = w /\ status'[u] = "running" /\ held'[u] = {}
        BY <1>0, <2>1, <2>2 DEF Wait, TypeOK, CallOK
      <3>2. w.remaining > 0
        BY <2>1 DEF IsWait, WaitingRange
      <3>3. QED
        BY <2>1, <2>2, <3>1, <3>2 DEF CallOK
    <2>3. CASE u # t
      BY <1>0, <1>f, <2>1, <2>3 DEF Wait, TypeOK
    <2>4. QED
      BY <2>2, <2>3
  <1>2. ASSUME NEW t \in Task, Alive, EndTask(t) PROVE CallOK(u)'
    BY <1>0, <1>f, <1>2 DEF EndTask, FinishBody, TypeOK, TaskTypeOK
  <1>3. ASSUME NEW t \in Task, Alive, SpawnTask(t) PROVE CallOK(u)'
    BY <1>0, <1>f, <1>3 DEF SpawnTask, Spawn, TypeOK, TaskTypeOK, CallOK
  <1>4. ASSUME NEW t \in Task, Alive, TestNotification(t) PROVE CallOK(u)'
    <2>1. CASE u = t
      <3>1. \A k \in Notified(call[u]) : k \in Keys(call[u]) /\ k = <<call[u].seg, k[2]>>
        BY <1>0, <1>4, <2>1, KeysOfWait DEF TestNotification, Notified, CallOK, TypeOK
      <3>2. /\ status'[u] = "running" /\ call'[u] = call[u] /\ held'[u] = {}
            /\ IsWait(call[u], u) /\ call[u].remaining > 0
        BY <1>0, <1>4, <2>1 DEF CallOK, TestNotification
      <3>3. \/ pc'[u] = "increase"
            \/ pc'[u] = "reset" /\ \E k \in Notified(call[u]) : tid'[u] = k[2]
        BY <1>0, <1>4, <2>1 DEF TestNotification, TypeOK
      <3>4. QED
        BY <3>1, <3>2, <3>3 DEF CallOK
    <2>2. CASE u # t
      BY <1>0, <1>f, <1>4, <2>2 DEF TestNotification, TypeOK
    <2>3. QED
      BY <2>1, <2>2
  <1>5. ASSUME NEW t \in Task, Alive, ResetNotification(t) PROVE CallOK(u)'
    <2> DEFINE w == call[t]
    <2>1. /\ w \in WaitingRange /\ IsWait(w, t) /\ w.remaining > 0 /\ tid[t] \in Id
          /\ pc[t] = "reset" /\ held[t] = {}
          /\ \/ pc' = [pc EXCEPT ![t] = "increase"] /\ call' = call
             \/ pc' = [pc EXCEPT ![t] = "body"] /\ call' = [call EXCEPT ![t] = NoRange]
             \/ /\ w.remaining # 1 /\ pc' = [pc EXCEPT ![t] = "test"]
                /\ call' = [call EXCEPT ![t] = Consumed(w, tid[t])]
      BY <1>0, <1>5, ResetEffect
    <2>2. /\ IsWait(Consumed(w, tid[t]), t)
          /\ w.remaining # 1 => Consumed(w, tid[t]).remaining > 0
      BY <2>1, ConsumedFields DEF IsWait, WaitingRange
    <2>3. held' = held /\ status' = status /\ pool' = pool /\ range' = range
      BY <1>5 DEF ResetNotification, IsNotified
    <2> HIDE DEF w
    <2>4. CASE u = t
      <3>1. call[t] = w /\ status[u] = "running"
        BY <1>0, <2>1, <2>4 DEF w, CallOK
      <3>2. QED
        BY <1>0, <2>1, <2>2, <2>3, <2>4, <3>1 DEF CallOK, TypeOK
    <2>5. CASE u # t
      BY <1>0, <1>f, <1>5, <2>1, <2>3, <2>5 DEF TypeOK, ResetNotification, IsNotified
    <2>6. QED
      BY <2>4, <2>5
  <1>6. ASSUME NEW t \in Task, Alive, IncreaseEvents(t) PROVE CallOK(u)'
    BY <1>0, <1>6 DEF IncreaseEvents, increaseCurrentTaskEvents, TypeOK, CallOK
  <1>7. ASSUME NEW t \in Task, Alive, Allocate(t) PROVE CallOK(u)'
    <2>1. PICK o \in pool : pool' = pool \ {o} /\ range' = [range EXCEPT ![o] = call[t]]
                            /\ held' = [held EXCEPT ![t] = {o}]
      BY <1>7 DEF Allocate
    <2>2. CASE u = t
      BY <1>0, <1>7, <2>1, <2>2 DEF Allocate, TypeOK, CallOK
    <2>3. CASE u # t
      BY <1>0, <1>f, <1>7, <2>1, <2>3 DEF Allocate, TypeOK
    <2>4. QED
      BY <2>2, <2>3
  <1>8. ASSUME NEW t \in Task, Alive, Lock(t) PROVE CallOK(u)'
    BY <1>0, <1>8 DEF Lock, TypeOK, CallOK
  <1>9. ASSUME NEW t \in Task, Alive, Push(t) PROVE CallOK(u)'
    BY <1>0, <1>9 DEF Push, TypeOK, CallOK
  <1>10. ASSUME NEW t \in Task, Alive, Unlock(t) PROVE CallOK(u)'
    BY <1>0, <1>10 DEF Unlock, unlock, TypeOK, CallOK
  <1>11. ASSUME NEW k \in Key, NEW v \in Value, Alive, NotificationArrives(k, v)
         PROVE  CallOK(u)'
    BY <1>0, <1>f, <1>11 DEF NotificationArrives
  <1>12. ASSUME PollNotifications \/ DequeueAll \/ NotificationError \/ UNCHANGED vars
         PROVE  CallOK(u)'
    BY <1>0, <1>f, <1>12 DEF PollNotifications, DequeueAll, NotificationError, vars
  <1>13. ASSUME CheckRange PROVE CallOK(u)'
    BY <1>0, <1>f, <1>13 DEF CheckRange, Unfinished
  <1>14. ASSUME ResetRange PROVE CallOK(u)'
    <2> DEFINE o == list[seg][pos]
    <2>1. /\ o \in Range(list[seg])
          /\ range' = range \/ range' = [range EXCEPT ![o] = Consumed(range[o], pid)]
      BY <1>0, <1>14, ResetRangeEffect DEF Unfinished
    <2>2. seg \in Segment
      BY <1>0 DEF TypeOK
    <2> HIDE DEF o
    <2>3. o \notin held[u]
      BY <1>0, <2>1, <2>2 DEF RangeInv
    <2>4. \A p \in held[u] : range'[p] = range[p]
      BY <1>0, <2>1, <2>3 DEF TypeOK
    <2>5. QED
      BY <1>0, <1>f, <1>14, <2>4 DEF ResetRange
  <1>15. ASSUME CompleteRange PROVE CallOK(u)'
    <2>1. pc[u] # "body" => status'[u] = status[u]
      BY <1>0, <1>15
      DEF CompleteRange, complete, decreaseTaskEvents, CallOK, TypeOK, TaskTypeOK
    <2>2. QED
      BY <1>0, <1>f, <1>15, <2>1 DEF CompleteRange
  <1>16. ASSUME FreeRange PROVE CallOK(u)'
    <2> DEFINE o == Head(completeRanges)
    <2>1. o \in Object \ pool /\ range[o].remaining = 0
      BY <1>0, <1>16, FirstComplete DEF FreeRange, PollInv
    <2>2. pool' = pool \cup {o} /\ range' = [range EXCEPT ![o] = NoRange]
      BY <1>16 DEF FreeRange, free
    <2> HIDE DEF o
    <2>3. o \notin held[u]
      <3>1. ASSUME o \in held[u] PROVE FALSE
        <4>1. range[o] = call[u] /\ call[u].remaining > 0
          BY <1>0, <3>1 DEF CallOK
        <4>2. QED
          BY <2>1, <4>1
      <3>2. QED
        BY <3>1
    <2>4. QED
      BY <1>0, <1>f, <1>16, <2>1, <2>2, <2>3 DEF FreeRange, TypeOK
  <1>17. QED
    BY <1>1, <1>2, <1>3, <1>4, <1>5, <1>6, <1>7, <1>8, <1>9, <1>10, <1>11, <1>12, <1>13,
       <1>14, <1>15, <1>16
    DEF Next, TaskStep, Poller, Aborted

-----------------------------------------------------------------------------

\* The lock of a segment serves its tasks in the order of their tickets.
LEMMA StepLock == IInv /\ [Next]_vars => LockInv'
  <1> SUFFICES ASSUME IInv, [Next]_vars PROVE LockInv'
    OBVIOUS
  <1> USE DEF taskVars, callVars, gaspiVars, rangeVars, pollVars, outVars, Alive
  <1>0. TypeOK /\ CallInv /\ LockInv
    BY DEF IInv
  <1>f. ASSUME NEW t \in Task, lock' = lock, pc[t] \notin {"push", "unlock"},
               pc'[t] \notin {"push", "unlock"},
               \A u \in Task \ {t} : pc'[u] = pc[u] /\ call'[u] = call[u]
        PROVE  LockInv'
    BY <1>0, <1>f DEF LockInv
  <1>g. ASSUME lock' = lock, pc' = pc, call' = call PROVE LockInv'
    BY <1>0, <1>g DEF LockInv
  <1>1. ASSUME NEW t \in Task, TaskCall(t) PROVE LockInv'
    <2>1. PICK w \in WaitingRange : Wait(t, w)
      BY <1>1, CallEffect
    <2>2. QED
      BY <1>0, <1>f, <2>1 DEF Wait, TypeOK
  <1>2. ASSUME NEW t \in Task, EndTask(t) \/ SpawnTask(t) PROVE LockInv'
    BY <1>2, <1>g DEF EndTask, SpawnTask
  <1>3. ASSUME NEW t \in Task, TestNotification(t) \/ IncreaseEvents(t) \/ Allocate(t)
        PROVE  LockInv'
    BY <1>0, <1>3, <1>f DEF TestNotification, IncreaseEvents, Allocate, TypeOK
  <1>4. ASSUME NEW t \in Task, ResetNotification(t) PROVE LockInv'
    BY <1>0, <1>4, <1>f DEF ResetNotification, TypeOK
  <1>5. ASSUME NEW t \in Task, Lock(t) PROVE LockInv'
    <2> DEFINE r == call[t].seg
    <2>1. r \in Segment /\ lock[r] \in Seq(Task)
      BY <1>0 DEF TypeOK, WaitingRange
    <2>2. /\ pc[t] = "lock" /\ pc' = [pc EXCEPT ![t] = "push"] /\ call' = call
          /\ lock' = [lock EXCEPT ![r] = Append(lock[r], t)]
      BY <1>0, <1>5 DEF Lock, TypeOK
    <2>3. t \notin Range(lock[r]) /\ IsInjective(lock[r])
      BY <1>0, <2>1, <2>2 DEF LockInv
    <2>4. /\ Range(Append(lock[r], t)) = Range(lock[r]) \cup {t}
          /\ IsInjective(Append(lock[r], t))
          /\ Head(Append(lock[r], t)) = IF lock[r] = <<>> THEN t ELSE Head(lock[r])
      BY <2>1, <2>3, AppendElement
    <2> SUFFICES ASSUME NEW s \in Segment
                 PROVE  /\ IsInjective(lock'[s])
                        /\ Range(lock'[s]) = {u \in Task : pc'[u] \in {"push", "unlock"}
                                                            /\ call'[u].seg = s}
                        /\ \A u \in Task :
                            pc'[u] = "unlock" /\ call'[u].seg = s => u = Head(lock'[s])
      BY DEF LockInv
    <2>5. CASE s = r
      <3>1. lock'[s] = Append(lock[r], t)
        BY <1>0, <2>1, <2>2, <2>5 DEF TypeOK
      <3>2. {u \in Task : pc'[u] \in {"push", "unlock"} /\ call'[u].seg = s}
                = {u \in Task : pc[u] \in {"push", "unlock"} /\ call[u].seg = s} \cup {t}
        BY <1>0, <2>2, <2>5 DEF TypeOK
      <3>3. ASSUME NEW u \in Task, pc'[u] = "unlock", call'[u].seg = s
            PROVE  u = Head(lock'[s])
        <4>1. pc[u] = "unlock" /\ call[u].seg = s
          BY <1>0, <2>2, <3>3 DEF TypeOK
        <4>2. u = Head(lock[s]) /\ u \in Range(lock[s])
          BY <1>0, <4>1 DEF LockInv
        <4>3. lock[s] # <<>>
          BY <4>2 DEF Range
        <4>4. QED
          BY <2>4, <2>5, <3>1, <4>2, <4>3
      <3>4. Range(lock[s]) = {u \in Task : pc[u] \in {"push", "unlock"} /\ call[u].seg = s}
        BY <1>0 DEF LockInv
      <3>5. QED
        BY <2>4, <2>5, <3>1, <3>2, <3>3, <3>4
    <2>6. CASE s # r
      <3>1. lock'[s] = lock[s]
        BY <1>0, <2>2, <2>6 DEF TypeOK
      <3>2. {u \in Task : pc'[u] \in {"push", "unlock"} /\ call'[u].seg = s}
                = {u \in Task : pc[u] \in {"push", "unlock"} /\ call[u].seg = s}
        BY <1>0, <2>2, <2>6 DEF TypeOK
      <3>3. QED
        BY <1>0, <2>2, <3>1, <3>2 DEF LockInv, TypeOK
    <2>7. QED
      BY <2>5, <2>6
  <1>6. ASSUME NEW t \in Task, Push(t) PROVE LockInv'
    <2>1. /\ pc[t] = "push" /\ pc' = [pc EXCEPT ![t] = "unlock"] /\ call' = call
          /\ lock' = lock /\ t = Head(lock[call[t].seg])
      BY <1>6 DEF Push
    <2>2. \A s : {u \in Task : pc'[u] \in {"push", "unlock"} /\ call'[u].seg = s}
                = {u \in Task : pc[u] \in {"push", "unlock"} /\ call[u].seg = s}
      BY <1>0, <2>1 DEF TypeOK
    <2>3. QED
      BY <1>0, <2>1, <2>2 DEF LockInv, TypeOK
  <1>7. ASSUME NEW t \in Task, Unlock(t) PROVE LockInv'
    <2> DEFINE r == call[t].seg
    <2>1. /\ pc[t] = "unlock" /\ pc' = [pc EXCEPT ![t] = "body"]
          /\ call' = [call EXCEPT ![t] = NoRange]
          /\ lock' = [lock EXCEPT ![r] = Tail(lock[r])]
      BY <1>0, <1>7 DEF Unlock, unlock, TypeOK
    <2>2. /\ r \in Segment /\ t = Head(lock[r]) /\ IsInjective(Tail(lock[r]))
          /\ Range(Tail(lock[r])) = Range(lock[r]) \ {t}
      BY <1>0, <2>1, Unlocks
    <2> HIDE DEF r
    <2> SUFFICES ASSUME NEW s \in Segment
                 PROVE  /\ IsInjective(lock'[s])
                        /\ Range(lock'[s]) = {u \in Task : pc'[u] \in {"push", "unlock"}
                                                            /\ call'[u].seg = s}
                        /\ \A u \in Task :
                            pc'[u] = "unlock" /\ call'[u].seg = s => u = Head(lock'[s])
      BY DEF LockInv
    <2>3. {u \in Task : pc'[u] \in {"push", "unlock"} /\ call'[u].seg = s}
                = {u \in Task : pc[u] \in {"push", "unlock"} /\ call[u].seg = s} \ {t}
      BY <1>0, <2>1 DEF TypeOK
    <2>4. /\ Range(lock[s]) = {u \in Task : pc[u] \in {"push", "unlock"} /\ call[u].seg = s}
          /\ IsInjective(lock[s])
          /\ \A u \in Task : pc[u] = "unlock" /\ call[u].seg = s => u = Head(lock[s])
      BY <1>0 DEF LockInv
    <2>5. ASSUME NEW u \in Task, pc'[u] = "unlock", call'[u].seg = s
          PROVE  u # t /\ u = Head(lock[s])
      BY <1>0, <2>1, <2>4, <2>5 DEF TypeOK
    <2>6. CASE s = r
      <3>1. lock'[s] = Tail(lock[r])
        BY <1>0, <2>1, <2>2, <2>6 DEF TypeOK
      <3>2. QED
        BY <2>2, <2>3, <2>4, <2>5, <2>6, <3>1
    <2>7. CASE s # r
      <3>1. lock'[s] = lock[s]
        BY <1>0, <2>1, <2>7 DEF TypeOK
      <3>2. t \notin {u \in Task : pc[u] \in {"push", "unlock"} /\ call[u].seg = s}
        BY <2>7 DEF r
      <3>3. QED
        BY <2>3, <2>4, <2>5, <3>1, <3>2
    <2>8. QED
      BY <2>6, <2>7
  <1>8. ASSUME NEW k \in Key, NEW v \in Value, NotificationArrives(k, v) PROVE LockInv'
    BY <1>8, <1>g DEF NotificationArrives
  <1>9. ASSUME \/ PollNotifications \/ DequeueAll \/ CheckRange \/ ResetRange
               \/ CompleteRange \/ FreeRange \/ NotificationError \/ UNCHANGED vars
        PROVE  LockInv'
    BY <1>9, <1>g DEF PollNotifications, DequeueAll, CheckRange, ResetRange, CompleteRange,
                      FreeRange, NotificationError, vars
  <1>10. QED
    BY <1>1, <1>2, <1>3, <1>4, <1>5, <1>6, <1>7, <1>8, <1>9
    DEF Next, TaskStep, Poller, Aborted

-----------------------------------------------------------------------------

\* An object is never in two places, and it moves from the pool to the task, to
\* the queue, to the list, to the complete ranges and back to the pool.
LEMMA StepRange == IInv /\ [Next]_vars => RangeInv'
  <1> SUFFICES ASSUME IInv, [Next]_vars PROVE RangeInv'
    OBVIOUS
  <1> USE DEF taskVars, callVars, gaspiVars, rangeVars, pollVars, outVars, Alive
  <1>0. TypeOK /\ CallInv /\ LockInv /\ RangeInv /\ PollInv
    BY DEF IInv
  <1>g. ASSUME UNCHANGED <<pool, range, held, queue, list, completeRanges>> PROVE RangeInv'
    BY <1>0, <1>g DEF RangeInv, Pending
  <1>1. ASSUME NEW t \in Task, TaskCall(t) PROVE RangeInv'
    <2>1. PICK w \in WaitingRange : Wait(t, w)
      BY <1>1, CallEffect
    <2>2. QED
      BY <1>g, <2>1 DEF Wait
  <1>2. ASSUME NEW t \in Task, \/ EndTask(t) \/ SpawnTask(t) \/ TestNotification(t)
                               \/ ResetNotification(t) \/ IncreaseEvents(t) \/ Lock(t)
                               \/ Unlock(t)
        PROVE  RangeInv'
    BY <1>2, <1>g DEF EndTask, SpawnTask, TestNotification, ResetNotification,
                      IncreaseEvents, Lock, Unlock
  <1>3. ASSUME NEW t \in Task, Allocate(t) PROVE RangeInv'
    <2>1. PICK o \in pool : pool' = pool \ {o} /\ range' = [range EXCEPT ![o] = call[t]]
                            /\ held' = [held EXCEPT ![t] = {o}]
      BY <1>3 DEF Allocate
    <2>2. /\ pc[t] = "allocate" /\ held[t] = {} /\ IsWait(call[t], t)
          /\ UNCHANGED <<queue, list, completeRanges>>
      BY <1>0, <1>3 DEF Allocate, CallInv, CallOK
    <2>3. /\ o \in Object /\ range'[o] = call[t] /\ held'[t] = {o}
          /\ \A p \in Object \ {o} : range'[p] = range[p]
          /\ \A u \in Task \ {t} : held'[u] = held[u]
      BY <1>0, <2>1 DEF TypeOK
    <2>4. \A s \in Segment : o \notin Range(queue[s]) /\ o \notin Range(list[s])
      BY <1>0 DEF RangeInv, Pending
    <2>5. o \notin Range(completeRanges)
      BY <1>0 DEF RangeInv
    <2>6. \A s \in Segment : Range(queue[s]) \subseteq Object /\ Range(list[s]) \subseteq Object
      BY <1>0, RangeOfSeq DEF TypeOK
    <2>7. Range(completeRanges) \subseteq Object
      BY <1>0, RangeOfSeq DEF TypeOK
    <2>8. \A p \in pool' : range'[p] = NoRange
      BY <1>0, <2>1, <2>3 DEF RangeInv, TypeOK
    <2>9. ASSUME NEW p \in Object \ pool'
          PROVE  /\ range'[p].task \in Task /\ IsWait(range'[p], range'[p].task)
                 /\ \/ \E u \in Task : p \in held'[u]
                    \/ \E s \in Segment : p \in Range(queue'[s]) \cup Range(list'[s])
                    \/ p \in Range(completeRanges')
      <3>1. CASE p = o
        <4>1. call[t].task = t
          BY <2>2 DEF IsWait
        <4>2. QED
          BY <2>2, <2>3, <3>1, <4>1
      <3>2. CASE p # o
        <4>1. p \in Object \ pool /\ range'[p] = range[p]
          BY <2>1, <2>3, <3>2
        <4>2. \A u \in Task : p \in held[u] => p \in held'[u]
          BY <2>2, <2>3
        <4>3. QED
          BY <1>0, <2>2, <4>1, <4>2 DEF RangeInv
      <3>3. QED
        BY <3>1, <3>2
    <2>10. ASSUME NEW s \in Segment
           PROVE  /\ IsInjective(queue'[s]) /\ IsInjective(list'[s])
                  /\ \A p \in Range(queue'[s]) : Pending(p, s)' /\ p \notin Range(list'[s])
                  /\ \A p \in Range(list'[s]) : Pending(p, s)'
                  /\ \A u \in Task : held'[u] \cap (Range(queue'[s]) \cup Range(list'[s])) = {}
      <3>1. \A p \in Object \ {o} : Pending(p, s) => Pending(p, s)'
        BY <2>1, <2>3 DEF Pending
      <3>2. QED
        BY <1>0, <2>2, <2>3, <2>4, <2>6, <3>1 DEF RangeInv
    <2>11. /\ IsInjective(completeRanges')
           /\ \A p \in Range(completeRanges') : p \notin pool' /\ range'[p].remaining = 0
      BY <1>0, <2>1, <2>2, <2>3, <2>5, <2>7 DEF RangeInv
    <2>12. QED
      BY <2>8, <2>9, <2>10, <2>11 DEF RangeInv
  <1>4. ASSUME NEW t \in Task, Push(t) PROVE RangeInv'
    <2> DEFINE r == call[t].seg
    <2>1. PICK o \in Object \ pool : held[t] = {o} /\ range[o] = call[t]
      BY <1>0, <1>4 DEF Push, CallInv, CallOK
    <2>2. /\ queue' = [queue EXCEPT ![r] = Append(queue[r], o)]
          /\ held' = [held EXCEPT ![t] = {}] /\ UNCHANGED <<pool, range, list, completeRanges>>
      BY <1>0, <1>4, <2>1 DEF Push, TypeOK
    <2>3. r \in Segment /\ queue[r] \in Seq(Object) /\ call[t].remaining > 0 /\ Pending(o, r)
      BY <1>0, <1>4, <2>1 DEF TypeOK, WaitingRange, CallInv, CallOK, Push, Pending
    <2>4. \A s \in Segment : o \notin Range(queue[s]) /\ o \notin Range(list[s])
      BY <1>0, <2>1 DEF RangeInv
    <2>5. /\ Range(Append(queue[r], o)) = Range(queue[r]) \cup {o}
          /\ IsInjective(Append(queue[r], o))
      BY <1>0, <2>3, <2>4, AppendElement DEF RangeInv
    <2> HIDE DEF r
    <2>6. /\ queue'[r] = Append(queue[r], o) /\ held'[t] = {}
          /\ \A s \in Segment \ {r} : queue'[s] = queue[s]
          /\ \A u \in Task \ {t} : held'[u] = held[u]
      BY <1>0, <2>2, <2>3 DEF TypeOK
    <2>7. \A u \in Task \ {t} : o \notin held[u]
      <3> SUFFICES ASSUME NEW u \in Task \ {t}, o \in held[u] PROVE FALSE
        OBVIOUS
      <3>1. range[o] = call[u] /\ IsWait(call[u], u) /\ IsWait(call[t], t)
        BY <1>0, <1>4 DEF CallInv, CallOK, Push
      <3>2. QED
        BY <2>1, <3>1 DEF IsWait
    <2>8. ASSUME NEW p \in Object \ pool'
          PROVE  /\ range'[p].task \in Task /\ IsWait(range'[p], range'[p].task)
                 /\ \/ \E u \in Task : p \in held'[u]
                    \/ \E s \in Segment : p \in Range(queue'[s]) \cup Range(list'[s])
                    \/ p \in Range(completeRanges')
      <3>1. range'[p].task \in Task /\ IsWait(range'[p], range'[p].task)
        BY <1>0, <2>2 DEF RangeInv
      <3>2. CASE p = o
        BY <2>3, <2>5, <2>6, <3>1, <3>2
      <3>3. CASE p # o
        <4>1. /\ \A u \in Task : p \in held[u] => p \in held'[u]
              /\ \A s \in Segment : p \in Range(queue[s]) => p \in Range(queue'[s])
          BY <2>1, <2>5, <2>6, <3>3
        <4>2. QED
          BY <1>0, <2>2, <3>1, <4>1 DEF RangeInv
      <3>4. QED
        BY <3>2, <3>3
    <2>9. ASSUME NEW s \in Segment
          PROVE  /\ IsInjective(queue'[s]) /\ IsInjective(list'[s])
                 /\ \A p \in Range(queue'[s]) : Pending(p, s)' /\ p \notin Range(list'[s])
                 /\ \A p \in Range(list'[s]) : Pending(p, s)'
                 /\ \A u \in Task : held'[u] \cap (Range(queue'[s]) \cup Range(list'[s])) = {}
      <3>1. \A p : Pending(p, s) => Pending(p, s)'
        BY <2>2 DEF Pending
      <3>2. CASE s = r
        <4>1. /\ Range(queue'[s]) = Range(queue[s]) \cup {o} /\ IsInjective(queue'[s])
              /\ list'[s] = list[s] /\ IsInjective(list[s])
              /\ Pending(o, s)' /\ o \notin Range(list[s])
          BY <1>0, <2>2, <2>3, <2>4, <2>5, <2>6, <3>1, <3>2 DEF RangeInv
        <4>2. /\ \A p \in Range(queue[s]) : Pending(p, s) /\ p \notin Range(list[s])
              /\ \A p \in Range(list[s]) : Pending(p, s)
              /\ \A u \in Task : held[u] \cap (Range(queue[s]) \cup Range(list[s])) = {}
          BY <1>0 DEF RangeInv
        <4>3. \A u \in Task : held'[u] \subseteq held[u] /\ o \notin held'[u]
          BY <2>6, <2>7
        <4>4. QED
          BY <3>1, <4>1, <4>2, <4>3
      <3>3. CASE s # r
        BY <1>0, <2>2, <2>6, <3>1, <3>3 DEF RangeInv
      <3>4. QED
        BY <3>2, <3>3
    <2>10. /\ \A p \in pool' : range'[p] = NoRange
           /\ IsInjective(completeRanges')
           /\ \A p \in Range(completeRanges') : p \notin pool' /\ range'[p].remaining = 0
      BY <1>0, <2>2 DEF RangeInv
    <2>11. QED
      BY <2>8, <2>9, <2>10 DEF RangeInv
  <1>5. ASSUME NEW k \in Key, NEW v \in Value, NotificationArrives(k, v) PROVE RangeInv'
    BY <1>5, <1>g DEF NotificationArrives
  <1>6. ASSUME PollNotifications \/ CompleteRange \/ NotificationError \/ UNCHANGED vars
        PROVE  RangeInv'
    BY <1>6, <1>g DEF PollNotifications, CompleteRange, NotificationError, vars
  <1>7. ASSUME DequeueAll PROVE RangeInv'
    <2>1. /\ list' = [list EXCEPT ![seg] = list[seg] \o queue[seg]]
          /\ queue' = [queue EXCEPT ![seg] = <<>>]
          /\ UNCHANGED <<pool, range, held, completeRanges>>
      BY <1>0, <1>7 DEF DequeueAll, TypeOK
    <2>2. seg \in Segment /\ list[seg] \in Seq(Object) /\ queue[seg] \in Seq(Object)
      BY <1>0 DEF TypeOK
    <2>3. /\ Range(list[seg] \o queue[seg]) = Range(list[seg]) \cup Range(queue[seg])
          /\ IsInjective(list[seg] \o queue[seg])
      <3>1. /\ IsInjective(list[seg]) /\ IsInjective(queue[seg])
            /\ Range(list[seg]) \cap Range(queue[seg]) = {}
        BY <1>0, <2>2 DEF RangeInv
      <3>2. QED
        BY <2>2, <3>1, ConcatElements
    <2>4. /\ list'[seg] = list[seg] \o queue[seg] /\ queue'[seg] = <<>>
          /\ \A s \in Segment \ {seg} : queue'[s] = queue[s] /\ list'[s] = list[s]
      BY <1>0, <2>1, <2>2 DEF TypeOK
    <2>5. Range(<<>>) = {} /\ IsInjective(<<>>)
      BY DEF Range, IsInjective
    <2>6. \A s \in Segment : Range(queue[s]) \cup Range(list[s])
                             = Range(queue'[s]) \cup Range(list'[s])
      BY <2>3, <2>4, <2>5
    <2>7. ASSUME NEW p \in Object \ pool'
          PROVE  /\ range'[p].task \in Task /\ IsWait(range'[p], range'[p].task)
                 /\ \/ \E u \in Task : p \in held'[u]
                    \/ \E s \in Segment : p \in Range(queue'[s]) \cup Range(list'[s])
                    \/ p \in Range(completeRanges')
      BY <1>0, <2>1, <2>6 DEF RangeInv
    <2>8. ASSUME NEW s \in Segment
          PROVE  /\ IsInjective(queue'[s]) /\ IsInjective(list'[s])
                 /\ \A p \in Range(queue'[s]) : Pending(p, s)' /\ p \notin Range(list'[s])
                 /\ \A p \in Range(list'[s]) : Pending(p, s)'
                 /\ \A u \in Task : held'[u] \cap (Range(queue'[s]) \cup Range(list'[s])) = {}
      <3>1. \A p : Pending(p, s) => Pending(p, s)'
        BY <2>1 DEF Pending
      <3>2. CASE s = seg
        BY <1>0, <2>1, <2>3, <2>4, <2>5, <2>6, <3>1, <3>2 DEF RangeInv
      <3>3. CASE s # seg
        BY <1>0, <2>1, <2>4, <3>1, <3>3 DEF RangeInv
      <3>4. QED
        BY <3>2, <3>3
    <2>9. /\ \A p \in pool' : range'[p] = NoRange
          /\ IsInjective(completeRanges')
          /\ \A p \in Range(completeRanges') : p \notin pool' /\ range'[p].remaining = 0
      BY <1>0, <2>1 DEF RangeInv
    <2>10. QED
      BY <2>7, <2>8, <2>9 DEF RangeInv
  <1>8. ASSUME CheckRange PROVE RangeInv'
    BY <1>8, <1>g DEF CheckRange, Unfinished

  <1>9. ASSUME ResetRange PROVE RangeInv'
    <2> DEFINE o == list[seg][pos]
               k == <<seg, pid>>
               c == Consumed(range[o], pid)
    <2>1. /\ pos \in 1 .. Len(list[seg]) /\ list[seg] \in Seq(Object) /\ o \in Object \ pool
          /\ o \in Range(list[seg]) /\ Pending(o, seg) /\ range[o] \in WaitingRange
          /\ range[o].task \in Task /\ IsWait(range[o], range[o].task) /\ pid \in Id
          /\ \/ Unfinished(o)
             \/ Count(o, k) /\ range' = [range EXCEPT ![o] = c]
      BY <1>0, <1>9, ResetRangeEffect
    <2>2. UNCHANGED <<pool, held, queue>> /\ seg \in Segment
      BY <1>0, <1>9 DEF ResetRange, TypeOK
    <2>3. /\ c.task = range[o].task /\ c.seg = range[o].seg /\ c.num = range[o].num
          /\ c.first = range[o].first /\ c.remaining = range[o].remaining - 1
          /\ range[o].remaining > 0 /\ range[o].remaining \in Nat /\ range[o].num \in Nat
      <3>1. range[o].remaining > 0
        BY <2>1 DEF Pending
      <3>2. range[o].remaining \in Nat /\ range[o].num \in Nat
        BY <2>1 DEF WaitingRange
      <3>3. QED
        BY <2>1, <3>1, <3>2, ConsumedFields
    <2>a. \A s \in Segment \ {seg} : o \notin Range(list[s])
      BY <1>0, <2>1, <2>2 DEF RangeInv, Pending
    <2>b. \A s \in Segment : o \notin Range(queue[s])
      BY <1>0, <2>1, <2>2 DEF RangeInv, Pending
    <2>c. \A u \in Task : o \notin held[u]
      BY <1>0, <2>1, <2>2 DEF RangeInv
    <2>d. o \notin Range(completeRanges)
      BY <1>0, <2>3 DEF RangeInv
    <2>e. \A s \in Segment : Range(queue[s]) \subseteq Object /\ Range(list[s]) \subseteq Object
      BY <1>0, RangeOfSeq DEF TypeOK
    <2>f. Range(completeRanges) \subseteq Object
      BY <1>0, RangeOfSeq DEF TypeOK
    <2>4. CASE Unfinished(o)
      BY <1>g, <2>2, <2>4 DEF Unfinished
    <2>5. CASE Count(o, k) /\ range' = [range EXCEPT ![o] = c]
      <3>1. Range(Erase(list[seg], pos)) = Range(list[seg]) \ {o}
            /\ IsInjective(Erase(list[seg], pos))
        BY <1>0, <2>1, <2>2, EraseElement DEF RangeInv
      <3>2. /\ Range(Append(completeRanges, o)) = Range(completeRanges) \cup {o}
            /\ IsInjective(Append(completeRanges, o))
        BY <1>0, <2>1, <2>d, AppendElement DEF RangeInv, TypeOK
      <3>3. \/ /\ range[o].remaining = 1 /\ completeRanges' = Append(completeRanges, o)
               /\ list' = [list EXCEPT ![seg] = Erase(list[seg], pos)]
            \/ range[o].remaining # 1 /\ UNCHANGED <<completeRanges, list>>
        BY <1>0, <2>2, <2>5 DEF Count, LastOf, TypeOK
      <3> HIDE DEF o, k, c
      <3>4. range'[o] = c /\ \A p \in Object \ {o} : range'[p] = range[p]
        BY <1>0, <2>1, <2>5 DEF TypeOK
      <3>5. \A s \in Segment \ {seg} : list'[s] = list[s]
        BY <1>0, <3>3 DEF TypeOK
      <3>6. IsWait(c, c.task)
        BY <2>1, <2>3 DEF IsWait
      <3>7. \/ /\ range[o].remaining = 1
               /\ Range(list'[seg]) = Range(list[seg]) \ {o} /\ IsInjective(list'[seg])
               /\ Range(completeRanges') = Range(completeRanges) \cup {o}
               /\ IsInjective(completeRanges')
            \/ /\ range[o].remaining # 1 /\ list'[seg] = list[seg]
               /\ completeRanges' = completeRanges
        BY <1>0, <2>2, <3>1, <3>2, <3>3 DEF TypeOK
      <3>8. \A p \in pool' : range'[p] = NoRange
        BY <1>0, <2>1, <2>2, <3>4 DEF RangeInv, TypeOK
      <3>9. ASSUME NEW p \in Object \ pool'
            PROVE  /\ range'[p].task \in Task /\ IsWait(range'[p], range'[p].task)
                   /\ \/ \E u \in Task : p \in held'[u]
                      \/ \E s \in Segment : p \in Range(queue'[s]) \cup Range(list'[s])
                      \/ p \in Range(completeRanges')
        <4>1. CASE p = o
          <5>1. range'[p].task \in Task /\ IsWait(range'[p], range'[p].task)
            BY <2>1, <2>3, <3>4, <3>6, <4>1
          <5>2. p \in Range(list'[seg]) \/ p \in Range(completeRanges')
            BY <2>1, <3>7, <4>1
          <5>3. QED
            BY <2>2, <5>1, <5>2
        <4>2. CASE p # o
          <5>1. range'[p].task \in Task /\ IsWait(range'[p], range'[p].task)
            BY <1>0, <2>2, <3>4, <4>2 DEF RangeInv
          <5>2. \A s \in Segment : p \in Range(list[s]) => p \in Range(list'[s])
            BY <3>5, <3>7, <4>2
          <5>3. p \in Range(completeRanges) => p \in Range(completeRanges')
            BY <3>7
          <5>4. QED
            BY <1>0, <2>2, <5>1, <5>2, <5>3 DEF RangeInv
        <4>3. QED
          BY <4>1, <4>2
      <3>10. ASSUME NEW s \in Segment
             PROVE  /\ IsInjective(queue'[s]) /\ IsInjective(list'[s])
                    /\ \A p \in Range(queue'[s]) : Pending(p, s)' /\ p \notin Range(list'[s])
                    /\ \A p \in Range(list'[s]) : Pending(p, s)'
                    /\ \A u \in Task :
                        held'[u] \cap (Range(queue'[s]) \cup Range(list'[s])) = {}
        <4>1. \A p \in Object \ {o} : Pending(p, s) => Pending(p, s)'
          BY <2>2, <3>4 DEF Pending
        <4>2. Range(list'[s]) \subseteq Range(list[s]) /\ IsInjective(list'[s])
          BY <1>0, <3>5, <3>7 DEF RangeInv
        <4>3. ASSUME NEW p \in Range(list'[s]) PROVE Pending(p, s)'
          <5>1. CASE p = o
            <6>1. s = seg /\ range[o].remaining # 1
              BY <2>a, <3>7, <4>2, <5>1
            <6>2. c.remaining > 0
              BY <2>3, <6>1
            <6>3. QED
              BY <2>1, <2>2, <2>3, <3>4, <5>1, <6>1, <6>2 DEF Pending
          <5>2. CASE p # o
            BY <1>0, <2>e, <4>1, <4>2, <5>2 DEF RangeInv
          <5>3. QED
            BY <5>1, <5>2
        <4>4. QED
          BY <1>0, <2>2, <2>b, <2>e, <4>1, <4>2, <4>3 DEF RangeInv
      <3>11. /\ IsInjective(completeRanges')
             /\ \A p \in Range(completeRanges') : p \notin pool' /\ range'[p].remaining = 0
        <4>1. ASSUME NEW p \in Range(completeRanges')
              PROVE  p \notin pool' /\ range'[p].remaining = 0
          <5>1. CASE p = o
            BY <2>1, <2>2, <2>3, <2>d, <3>4, <3>7, <5>1
          <5>2. CASE p # o
            BY <1>0, <2>2, <2>f, <3>4, <3>7, <5>2 DEF RangeInv
          <5>3. QED
            BY <5>1, <5>2
        <4>2. QED
          BY <1>0, <3>7, <4>1 DEF RangeInv
      <3>12. QED
        BY <3>8, <3>9, <3>10, <3>11 DEF RangeInv
    <2>6. QED
      BY <2>1, <2>4, <2>5
  <1>10. ASSUME FreeRange PROVE RangeInv'
    <2> DEFINE o == Head(completeRanges)
    <2>1. /\ o \in Object \ pool /\ range[o].remaining = 0
          /\ Range(Tail(completeRanges)) = Range(completeRanges) \ {o}
          /\ IsInjective(Tail(completeRanges))
      BY <1>0, <1>10, FirstComplete DEF FreeRange, PollInv
    <2>2. /\ pool' = pool \cup {o} /\ range' = [range EXCEPT ![o] = NoRange]
          /\ completeRanges' = Tail(completeRanges) /\ UNCHANGED <<queue, list, held>>
      BY <1>10 DEF FreeRange, free
    <2> HIDE DEF o
    <2>3. range'[o] = NoRange /\ \A p \in Object \ {o} : range'[p] = range[p]
      BY <1>0, <2>1, <2>2 DEF TypeOK
    <2>4. \A s \in Segment : o \notin Range(queue[s]) /\ o \notin Range(list[s])
      BY <1>0, <2>1 DEF RangeInv, Pending
    <2>5. \A s \in Segment : Range(queue[s]) \subseteq Object /\ Range(list[s]) \subseteq Object
      BY <1>0, RangeOfSeq DEF TypeOK
    <2>6. Range(completeRanges) \subseteq Object
      BY <1>0, RangeOfSeq DEF TypeOK
    <2>7. \A p \in pool' : range'[p] = NoRange
      BY <1>0, <2>1, <2>2, <2>3 DEF RangeInv, TypeOK
    <2>8. ASSUME NEW p \in Object \ pool'
          PROVE  /\ range'[p].task \in Task /\ IsWait(range'[p], range'[p].task)
                 /\ \/ \E u \in Task : p \in held'[u]
                    \/ \E s \in Segment : p \in Range(queue'[s]) \cup Range(list'[s])
                    \/ p \in Range(completeRanges')
      BY <1>0, <2>1, <2>2, <2>3 DEF RangeInv
    <2>9. ASSUME NEW s \in Segment
          PROVE  /\ IsInjective(queue'[s]) /\ IsInjective(list'[s])
                 /\ \A p \in Range(queue'[s]) : Pending(p, s)' /\ p \notin Range(list'[s])
                 /\ \A p \in Range(list'[s]) : Pending(p, s)'
                 /\ \A u \in Task : held'[u] \cap (Range(queue'[s]) \cup Range(list'[s])) = {}
      <3>1. \A p \in Object \ {o} : Pending(p, s) => Pending(p, s)'
        BY <2>2, <2>3 DEF Pending
      <3>2. QED
        BY <1>0, <2>2, <2>4, <2>5, <3>1 DEF RangeInv
    <2>10. /\ IsInjective(completeRanges')
           /\ \A p \in Range(completeRanges') : p \notin pool' /\ range'[p].remaining = 0
      BY <1>0, <2>1, <2>2, <2>3, <2>6 DEF RangeInv
    <2>11. QED
      BY <2>7, <2>8, <2>9, <2>10 DEF RangeInv
  <1>11. QED
    BY <1>1, <1>2, <1>3, <1>4, <1>5, <1>6, <1>7, <1>8, <1>9, <1>10
    DEF Next, TaskStep, Poller, Aborted

-----------------------------------------------------------------------------

\* The iterator stays on a range that others cannot take away.
LEMMA StepPoll == IInv /\ [Next]_vars => PollInv'
  <1> SUFFICES ASSUME IInv, [Next]_vars PROVE PollInv'
    OBVIOUS
  <1> USE DEF taskVars, callVars, gaspiVars, rangeVars, pollVars, outVars, Alive
  <1>0. TypeOK /\ CallInv /\ RangeInv /\ PollInv
    BY DEF IInv
  <1>g. ASSUME UNCHANGED <<pos, ppc, completeRanges, list, seg, pid, range>> PROVE PollInv'
    BY <1>0, <1>g DEF PollInv
  <1>1. ASSUME NEW t \in Task, TaskCall(t) PROVE PollInv'
    <2>1. PICK w \in WaitingRange : Wait(t, w)
      BY <1>1, CallEffect
    <2>2. QED
      BY <1>g, <2>1 DEF Wait
  <1>2. ASSUME NEW t \in Task, \/ EndTask(t) \/ SpawnTask(t) \/ TestNotification(t)
                               \/ ResetNotification(t) \/ IncreaseEvents(t) \/ Lock(t)
                               \/ Push(t) \/ Unlock(t)
        PROVE  PollInv'
    BY <1>2, <1>g DEF EndTask, SpawnTask, TestNotification, ResetNotification,
                      IncreaseEvents, Lock, Push, Unlock
  <1>3. ASSUME NEW t \in Task, Allocate(t) PROVE PollInv'
    <2>1. UNCHANGED <<pos, ppc, completeRanges, list, seg, pid>>
      BY <1>3 DEF Allocate
    <2>2. pos <= Len(list[seg]) => range'[list[seg][pos]] = range[list[seg][pos]]
      BY <1>0, <1>3, Listed DEF Allocate, TypeOK
    <2>3. QED
      BY <1>0, <2>1, <2>2 DEF PollInv
  <1>4. ASSUME NEW k \in Key, NEW v \in Value, NotificationArrives(k, v) PROVE PollInv'
    BY <1>4, <1>g DEF NotificationArrives
  <1>5. ASSUME NotificationError \/ UNCHANGED vars PROVE PollInv'
    BY <1>5, <1>g DEF NotificationError, vars
  <1>6. ASSUME PollNotifications PROVE PollInv'
    BY <1>0, <1>6 DEF PollInv, PollNotifications
  <1>7. ASSUME DequeueAll PROVE PollInv'
    BY <1>0, <1>7 DEF PollInv, DequeueAll
  <1>8. ASSUME CheckRange PROVE PollInv'
    <2>1. UNCHANGED seg /\ pos \in Nat /\ pos >= 1 /\ ppc = "scan"
      BY <1>0, <1>8 DEF CheckRange, TypeOK, PollInv
    <2>2. \/ ppc' = "complete" /\ pos' = 1
          \/ /\ pos <= Len(list[seg]) /\ ppc' = "reset"
             /\ <<seg, pid'>> \in Keys(range[list[seg][pos]])
             /\ UNCHANGED <<range, list, pos>>
          \/ ppc' = "scan" /\ pos' = pos + 1
      BY <1>0, <1>8, CheckEffect
    <2>3. pos' >= 1
      BY <2>1, <2>2
    <2>4. QED
      BY <2>1, <2>2, <2>3 DEF PollInv
  <1>9. ASSUME ResetRange PROVE PollInv'
    <2>1. pos \in Nat /\ pos >= 1 /\ ppc' = "scan"
      BY <1>0, <1>9, ResetRangeEffect DEF TypeOK, PollInv
    <2>2. pos' = pos + 1 \/ pos' = pos
      BY <1>9 DEF ResetRange, Unfinished, Count
    <2>3. pos' >= 1
      BY <2>1, <2>2
    <2>4. QED
      BY <2>1, <2>3 DEF PollInv
  <1>10. ASSUME CompleteRange PROVE PollInv'
    BY <1>0, <1>10 DEF PollInv, CompleteRange
  <1>11. ASSUME FreeRange PROVE PollInv'
    BY <1>0, <1>11 DEF PollInv, FreeRange
  <1>12. QED
    BY <1>1, <1>2, <1>3, <1>4, <1>5, <1>6, <1>7, <1>8, <1>9, <1>10, <1>11
    DEF Next, TaskStep, Poller, Aborted

-----------------------------------------------------------------------------

\* The ranges of a task that its events are for.
Uncompleted(t) == {o \in RangesOf(t) : ~Completing(o)}

\* They are finitely many.
LEMMA UncompletedFinite ==
    \A t : IsFiniteSet(Uncompleted(t)) /\ Cardinality(Uncompleted(t)) \in Nat
  <1> SUFFICES ASSUME NEW t
               PROVE  IsFiniteSet(Uncompleted(t)) /\ Cardinality(Uncompleted(t)) \in Nat
    OBVIOUS
  <1>1. Uncompleted(t) \subseteq Object
    BY DEF Uncompleted, RangesOf
  <1>2. IsFiniteSet(Uncompleted(t))
    BY <1>1, FS_Subset, NotificationsAssumption
  <1>3. QED
    BY <1>2, FS_CardinalityType

\* The events of a task follow its ranges.
LEMMA StepEvent == IInv /\ [Next]_vars => EventInv'
  <1> SUFFICES ASSUME IInv, [Next]_vars PROVE EventInv'
    OBVIOUS
  <1> USE DEF taskVars, callVars, gaspiVars, rangeVars, pollVars, outVars, Alive
  <1>0. TypeOK /\ CallInv /\ RangeInv /\ PollInv /\ EventInv
    BY DEF IInv
  <1>e. \A u \in Task :
            /\ events[u] = Cardinality(Uncompleted(u)) + (IF pc[u] = "allocate" THEN 1 ELSE 0)
            /\ status[u] = "completed" => events[u] = 0
    BY <1>0 DEF EventInv, WaitAccounting, WaitEvents, Uncompleted
  <1>f. ASSUME \A u \in Task :
                /\ events'[u] = Cardinality(Uncompleted(u)')
                                + (IF pc'[u] = "allocate" THEN 1 ELSE 0)
                /\ status'[u] = "completed" => events'[u] = 0
        PROVE  EventInv'
    BY <1>f DEF EventInv, WaitAccounting, WaitEvents, Uncompleted
  <1>g. ASSUME UNCHANGED <<status, events>>, \A u \in Task : Uncompleted(u)' = Uncompleted(u),
               \A u \in Task : (pc'[u] = "allocate") <=> (pc[u] = "allocate")
        PROVE  EventInv'
    BY <1>e, <1>f, <1>g
  <1>h. ASSUME UNCHANGED <<pool, range, ppc, completeRanges>>
        PROVE  \A u \in Task : Uncompleted(u)' = Uncompleted(u)
    BY <1>h DEF Uncompleted, RangesOf, Completing
  <1>1. ASSUME NEW t \in Task, TaskCall(t) PROVE EventInv'
    <2>1. PICK w \in WaitingRange : Wait(t, w)
      BY <1>1, CallEffect
    <2>2. QED
      BY <1>0, <1>g, <1>h, <2>1 DEF Wait, TypeOK
  <1>2. ASSUME NEW t \in Task, \/ TestNotification(t) \/ ResetNotification(t) \/ Lock(t)
                               \/ Push(t) \/ Unlock(t)
        PROVE  EventInv'
    <2>1. UNCHANGED <<status, events, pool, range, ppc, completeRanges>>
      BY <1>2 DEF TestNotification, ResetNotification, Lock, Push, Unlock
    <2>2. \A u \in Task : (pc'[u] = "allocate") <=> (pc[u] = "allocate")
      BY <1>0, <1>2 DEF TestNotification, ResetNotification, Lock, Push, Unlock, TypeOK
    <2>3. QED
      BY <1>g, <1>h, <2>1, <2>2
  <1>3. ASSUME NEW t \in Task, EndTask(t) PROVE EventInv'
    <2>1. UNCHANGED <<events, pc, pool, range, ppc, completeRanges>>
      BY <1>3 DEF EndTask, FinishBody
    <2>2. \A u \in Task : status'[u] = "completed" => events[u] = 0
      BY <1>0, <1>3, <1>e DEF EndTask, FinishBody, TypeOK, TaskTypeOK
    <2>3. QED
      BY <1>e, <1>f, <1>h, <2>1, <2>2
  <1>4. ASSUME NEW t \in Task, SpawnTask(t) PROVE EventInv'
    <2>1. UNCHANGED <<pc, pool, range, ppc, completeRanges>> /\ status[t] = "completed"
      BY <1>4 DEF SpawnTask, Spawn
    <2>2. events' = events
      BY <1>0, <1>4, <1>e, <2>1 DEF SpawnTask, Spawn, TypeOK, TaskTypeOK
    <2>3. \A u \in Task : status'[u] = "completed" => status[u] = "completed"
      BY <1>0, <1>4 DEF SpawnTask, Spawn, TypeOK, TaskTypeOK
    <2>4. QED
      BY <1>e, <1>f, <1>h, <2>1, <2>2, <2>3
  <1>5. ASSUME NEW t \in Task, IncreaseEvents(t) PROVE EventInv'
    <2>1. UNCHANGED <<status, pool, range, ppc, completeRanges>> /\ pc[t] = "increase"
          /\ pc' = [pc EXCEPT ![t] = "allocate"]
          /\ events' = [events EXCEPT ![t] = @ + 1]
      BY <1>5 DEF IncreaseEvents, increaseCurrentTaskEvents
    <2>2. status[t] = "running" /\ events \in [Task -> Int]
      BY <1>0, <2>1 DEF CallInv, CallOK, TypeOK, TaskTypeOK
    <2>3. ASSUME NEW u \in Task
          PROVE  /\ events'[u] = Cardinality(Uncompleted(u)')
                                 + (IF pc'[u] = "allocate" THEN 1 ELSE 0)
                 /\ status'[u] = "completed" => events'[u] = 0
      <3>1. Uncompleted(u)' = Uncompleted(u) /\ Cardinality(Uncompleted(u)) \in Nat
        BY <1>h, <2>1, UncompletedFinite
      <3>2. CASE u = t
        <4>1. events[t] = Cardinality(Uncompleted(t)) + 0
          BY <1>e, <2>1
        <4>2. events'[t] = events[t] + 1 /\ pc'[t] = "allocate" /\ status'[t] = "running"
          BY <1>0, <2>1, <2>2 DEF TypeOK
        <4>3. QED
          BY <2>2, <3>1, <3>2, <4>1, <4>2
      <3>3. CASE u # t
        BY <1>0, <1>e, <2>1, <2>2, <3>1, <3>3 DEF TypeOK
      <3>4. QED
        BY <3>2, <3>3
    <2>4. QED
      BY <1>f, <2>3

  <1>6. ASSUME NEW t \in Task, Allocate(t) PROVE EventInv'
    <2>1. PICK o \in pool : pool' = pool \ {o} /\ range' = [range EXCEPT ![o] = call[t]]
      BY <1>6 DEF Allocate
    <2>2. UNCHANGED <<status, events, ppc, completeRanges>> /\ pc[t] = "allocate"
          /\ pc' = [pc EXCEPT ![t] = "lock"]
      BY <1>6 DEF Allocate
    <2>3. call[t].task = t /\ o \in Object /\ range[o] = NoRange
      BY <1>0, <2>1, <2>2 DEF CallInv, CallOK, IsWait, TypeOK, RangeInv
    <2>4. ~Completing(o)'
      <3>1. ppc = "free" => Head(completeRanges) \notin pool
        BY <1>0, FirstComplete DEF PollInv
      <3>2. QED
        BY <2>1, <2>2, <3>1 DEF Completing
    <2>5. ASSUME NEW u \in Task
          PROVE  /\ events'[u] = Cardinality(Uncompleted(u)')
                                 + (IF pc'[u] = "allocate" THEN 1 ELSE 0)
                 /\ status'[u] = "completed" => events'[u] = 0
      <3>1. CASE u = t
        <4>1. o \notin Uncompleted(t)
          BY <2>1 DEF Uncompleted, RangesOf
        <4>2. Uncompleted(t)' = Uncompleted(t) \cup {o}
          BY <1>0, <2>1, <2>2, <2>3, <2>4 DEF Uncompleted, RangesOf, Completing, TypeOK
        <4>3. Cardinality(Uncompleted(t)') = Cardinality(Uncompleted(t)) + 1
          BY <4>1, <4>2, UncompletedFinite, FS_AddElement
        <4>4. pc'[t] = "lock" /\ events[t] = Cardinality(Uncompleted(t)) + 1
          BY <1>0, <1>e, <2>2 DEF TypeOK
        <4>5. QED
          BY <1>e, <2>2, <3>1, <4>3, <4>4, UncompletedFinite
      <3>2. CASE u # t
        <4>1. Uncompleted(u)' = Uncompleted(u)
          BY <1>0, <2>1, <2>2, <2>3, <3>2 DEF Uncompleted, RangesOf, Completing, TypeOK
        <4>2. pc'[u] = pc[u]
          BY <1>0, <2>2, <3>2 DEF TypeOK
        <4>3. QED
          BY <1>e, <2>2, <4>1, <4>2
      <3>3. QED
        BY <3>1, <3>2
    <2>6. QED
      BY <1>f, <2>5
  <1>7. ASSUME NEW k \in Key, NEW v \in Value, NotificationArrives(k, v) PROVE EventInv'
    BY <1>7, <1>g, <1>h DEF NotificationArrives
  <1>8. ASSUME NotificationError \/ UNCHANGED vars PROVE EventInv'
    BY <1>8, <1>g, <1>h DEF NotificationError, vars
  <1>i. ASSUME UNCHANGED <<pool, range>>, ppc # "free", ppc' # "free"
        PROVE  \A u \in Task : Uncompleted(u)' = Uncompleted(u)
    BY <1>i DEF Uncompleted, RangesOf, Completing
  <1>9. ASSUME PollNotifications \/ DequeueAll PROVE EventInv'
    BY <1>9, <1>g, <1>i DEF PollNotifications, DequeueAll
  <1>10. ASSUME CheckRange PROVE EventInv'
    BY <1>10, <1>g, <1>i DEF CheckRange, Unfinished
  <1>11. ASSUME ResetRange PROVE EventInv'
    <2> DEFINE o == list[seg][pos]
    <2>1. /\ o \in Object \ pool /\ range[o] \in WaitingRange /\ pid \in Id
          /\ range[o].remaining > 0 /\ ppc = "reset" /\ ppc' = "scan"
          /\ range' = range \/ range' = [range EXCEPT ![o] = Consumed(range[o], pid)]
      BY <1>0, <1>11, ResetRangeEffect DEF Unfinished, Pending
    <2>2. Consumed(range[o], pid).task = range[o].task
      BY <2>1, ConsumedFields
    <2>3. UNCHANGED <<status, events, pc, pool>>
      BY <1>11 DEF ResetRange, IsNotified
    <2> HIDE DEF o
    <2>4. \A p \in Object : range'[p].task = range[p].task
      BY <1>0, <2>1, <2>2 DEF TypeOK
    <2>5. \A u \in Task : Uncompleted(u)' = Uncompleted(u)
      BY <2>1, <2>3, <2>4 DEF Uncompleted, RangesOf, Completing
    <2>6. QED
      BY <1>g, <2>3, <2>5
  <1>12. ASSUME CompleteRange PROVE EventInv'
    <2>1. CASE completeRanges = <<>>
      BY <1>12, <1>g, <1>i, <2>1 DEF CompleteRange
    <2>2. CASE completeRanges # <<>>
      <3>0. PICK o \in Object \ pool, t \in Task :
                o = Head(completeRanges) /\ t = range[o].task
        BY <1>0, <2>2, FirstComplete
      <3>2. /\ ppc = "complete" /\ ppc' = "free"
            /\ UNCHANGED <<pc, pool, range, completeRanges>>
            /\ events' = [events EXCEPT ![t] = @ - 1]
            /\ status' = [status EXCEPT ![t] =
                            IF @ = "finished" /\ events[t] = 1 THEN "completed" ELSE @]
        BY <1>12, <2>2, <3>0 DEF CompleteRange, complete, decreaseTaskEvents
      <3>3. Completing(o)' /\ \A p : p # o => ~Completing(p)'
        BY <3>0, <3>2 DEF Completing
      <3>4. \A p : ~Completing(p)
        BY <3>0, <3>2 DEF Completing
      <3>5. o \in Uncompleted(t) /\ Uncompleted(t)' = Uncompleted(t) \ {o}
        BY <3>0, <3>2, <3>3, <3>4 DEF Uncompleted, RangesOf
      <3>6. \A u \in Task \ {t} : Uncompleted(u)' = Uncompleted(u)
        BY <3>0, <3>2, <3>3, <3>4 DEF Uncompleted, RangesOf
      <3>7. /\ Cardinality(Uncompleted(t)') = Cardinality(Uncompleted(t)) - 1
            /\ Cardinality(Uncompleted(t)) \in Nat
        BY <3>5, UncompletedFinite, FS_RemoveElement
      <3>8. Cardinality(Uncompleted(t)) # 0
        BY <3>5, UncompletedFinite, FS_EmptySet
      <3>9. /\ events'[t] = events[t] - 1 /\ events \in [Task -> Int]
            /\ status'[t] = IF status[t] = "finished" /\ events[t] = 1 THEN "completed"
                            ELSE status[t]
            /\ \A u \in Task \ {t} : events'[u] = events[u] /\ status'[u] = status[u]
        BY <1>0, <3>2 DEF TypeOK, TaskTypeOK
      <3>10. ASSUME NEW u \in Task
             PROVE  /\ events'[u] = Cardinality(Uncompleted(u)')
                                    + (IF pc'[u] = "allocate" THEN 1 ELSE 0)
                    /\ status'[u] = "completed" => events'[u] = 0
        <4>1. CASE u = t
          <5>1. status[t] # "completed"
            BY <1>e, <3>7, <3>8
          <5>2. pc'[t] = pc[t]
            BY <3>2
          <5>3. QED
            BY <1>e, <3>7, <3>9, <4>1, <5>1, <5>2
        <4>2. CASE u # t
          BY <1>e, <3>2, <3>6, <3>9, <4>2
        <4>3. QED
          BY <4>1, <4>2
      <3>11. QED
        BY <1>f, <3>10
    <2>3. QED
      BY <2>1, <2>2
  <1>13. ASSUME FreeRange PROVE EventInv'
    <2> DEFINE o == Head(completeRanges)
    <2>1. o \in Object \ pool
      BY <1>0, <1>13, FirstComplete DEF FreeRange, PollInv
    <2>2. /\ pool' = pool \cup {o} /\ range' = [range EXCEPT ![o] = NoRange]
          /\ ppc = "free" /\ ppc' = "complete" /\ UNCHANGED <<status, events, pc>>
      BY <1>13 DEF FreeRange, free
    <2>3. /\ \A p : Completing(p) <=> p = o
          /\ \A p : ~Completing(p)'
      BY <2>2 DEF Completing
    <2> HIDE DEF o
    <2>4. \A u \in Task : Uncompleted(u)' = Uncompleted(u)
      BY <1>0, <2>1, <2>2, <2>3 DEF Uncompleted, RangesOf, TypeOK
    <2>5. QED
      BY <1>g, <2>2, <2>4
  <1>14. QED
    BY <1>1, <1>2, <1>3, <1>4, <1>5, <1>6, <1>7, <1>8, <1>9, <1>10, <1>11, <1>12, <1>13
    DEF Next, TaskStep, Poller, Aborted

-----------------------------------------------------------------------------

\* A wait of one id may still overwrite key k of task t.
Overwritten(t, k) ==
    \E o \in RangesOf(t) :
        /\ range[o].buf /\ range[o].remaining > 0 /\ range[o].num = 1
        /\ k = <<range[o].seg, range[o].first>>

\* What an unsuccessful check leaves in a result array is overwritten later.
LEMMA StepResult == IInv /\ [Next]_vars => ResultInv'
  <1> SUFFICES ASSUME IInv, [Next]_vars, NEW u \in Task, NEW j \in Key
               PROVE  out'[u][j] = taken'[u][j] \/ Overwritten(u, j)'
    BY DEF ResultInv, Overwritten
  <1> USE DEF taskVars, callVars, gaspiVars, rangeVars, pollVars, outVars, Alive
  <1> DEFINE Goal == out'[u][j] = taken'[u][j] \/ Overwritten(u, j)'
  <1>0. TypeOK /\ CallInv /\ RangeInv /\ PollInv
        /\ (out[u][j] = taken[u][j] \/ Overwritten(u, j))
    BY DEF IInv, ResultInv, Overwritten
  <1>f. ASSUME UNCHANGED <<pool, range>> PROVE Overwritten(u, j)' <=> Overwritten(u, j)
    BY <1>f DEF Overwritten, RangesOf
  <1>g. ASSUME UNCHANGED <<pool, range, out, taken>> PROVE Goal
    BY <1>0, <1>f, <1>g
  <1>1. ASSUME NEW t \in Task, TaskCall(t) PROVE Goal
    <2>1. PICK w \in WaitingRange : Wait(t, w)
      BY <1>1, CallEffect
    <2>2. QED
      BY <1>g, <2>1 DEF Wait
  <1>2. ASSUME NEW t \in Task, \/ EndTask(t) \/ TestNotification(t) \/ IncreaseEvents(t)
                               \/ Lock(t) \/ Push(t) \/ Unlock(t)
        PROVE  Goal
    BY <1>2, <1>g DEF EndTask, TestNotification, IncreaseEvents, Lock, Push, Unlock
  <1>3. ASSUME NEW t \in Task, SpawnTask(t) PROVE Goal
    <2>1. /\ out' = [out EXCEPT ![t] = NoValues] /\ taken' = [taken EXCEPT ![t] = NoValues]
          /\ UNCHANGED <<pool, range>>
      BY <1>3 DEF SpawnTask
    <2>2. CASE u = t
      BY <1>0, <2>1, <2>2 DEF TypeOK
    <2>3. CASE u # t
      BY <1>0, <1>f, <2>1, <2>3 DEF TypeOK
    <2>4. QED
      BY <2>2, <2>3
  <1>4. ASSUME NEW t \in Task, ResetNotification(t) PROVE Goal
    <2> DEFINE k == <<call[t].seg, tid[t]>>
    <2>1. k \in Key /\ (Deliver(t, k) \/ UNCHANGED <<out, taken>>)
      BY <1>0, <1>4, ResetEffect
    <2>2. UNCHANGED <<pool, range>>
      BY <1>4 DEF ResetNotification, IsNotified
    <2>3. CASE Deliver(t, k)
      <3>1. /\ out'[t][k] = taken'[t][k]
            /\ u # t \/ j # k => out'[u][j] = out[u][j] /\ taken'[u][j] = taken[u][j]
        BY <1>0, <2>1, <2>3, Delivered
      <3>2. QED
        BY <1>0, <1>f, <2>2, <3>1
    <2>4. QED
      BY <1>g, <2>1, <2>2, <2>3
  <1>5. ASSUME NEW t \in Task, Allocate(t) PROVE Goal
    <2>1. PICK o \in pool : pool' = pool \ {o} /\ range' = [range EXCEPT ![o] = call[t]]
      BY <1>5 DEF Allocate
    <2>2. UNCHANGED <<out, taken>>
      BY <1>5 DEF Allocate
    <2>3. Overwritten(u, j) => Overwritten(u, j)'
      BY <1>0, <2>1 DEF Overwritten, RangesOf, TypeOK
    <2>4. QED
      BY <1>0, <2>2, <2>3
  <1>6. ASSUME NEW k \in Key, NEW v \in Value, NotificationArrives(k, v) PROVE Goal
    BY <1>6, <1>g DEF NotificationArrives
  <1>7. ASSUME PollNotifications \/ DequeueAll \/ CompleteRange \/ NotificationError
               \/ UNCHANGED vars
        PROVE  Goal
    BY <1>7, <1>g DEF PollNotifications, DequeueAll, CompleteRange, NotificationError, vars
  <1>8. ASSUME NEW o \in Object \ pool, Pending(o, seg), range[o] \in WaitingRange,
               range[o].task \in Task, Unfinished(o), pool' = pool
        PROVE  Goal
    <2>1. /\ UNCHANGED <<range, taken>>
          /\ \/ out'[u][j] = out[u][j]
             \/ /\ u = range[o].task /\ range[o].num = 1 /\ range[o].buf
                /\ j = <<range[o].seg, range[o].first>>
      BY <1>0, <1>8, UnfinishedEffect DEF Pending
    <2>2. CASE out'[u][j] = out[u][j]
      BY <1>0, <1>8, <1>f, <2>1, <2>2
    <2>3. CASE /\ u = range[o].task /\ range[o].num = 1 /\ range[o].buf
               /\ j = <<range[o].seg, range[o].first>>
      <3>1. o \in RangesOf(u) /\ range[o].remaining > 0
        BY <1>8, <2>3 DEF RangesOf, Pending
      <3>2. Overwritten(u, j)
        BY <2>3, <3>1 DEF Overwritten
      <3>3. QED
        BY <1>8, <1>f, <2>1, <3>2
    <2>4. QED
      BY <2>1, <2>2, <2>3
  <1>9. ASSUME CheckRange PROVE Goal
    <2> DEFINE o == list[seg][pos]
    <2>1. pool' = pool
      BY <1>9 DEF CheckRange
    <2>2. \/ UNCHANGED <<range, out, taken>>
          \/ pos <= Len(list[seg]) /\ Unfinished(o)
      BY <1>0, <1>9, CheckEffect
    <2>3. CASE pos <= Len(list[seg]) /\ Unfinished(o)
      <3>1. /\ o \in Object \ pool /\ Pending(o, seg) /\ range[o] \in WaitingRange
            /\ range[o].task \in Task
        BY <1>0, <2>3, Listed
      <3> HIDE DEF o
      <3>2. QED
        BY <1>8, <2>1, <2>3, <3>1
    <2>4. QED
      BY <1>g, <2>1, <2>2, <2>3
  <1>10. ASSUME ResetRange PROVE Goal
    <2> DEFINE o == list[seg][pos]
               k == <<seg, pid>>
               c == Consumed(range[o], pid)
    <2>1. /\ o \in Object \ pool /\ Pending(o, seg) /\ range[o] \in WaitingRange
          /\ range[o].task \in Task /\ IsWait(range[o], range[o].task)
          /\ k \in Key /\ pid \in Ids(range[o]) /\ pid \in Id
          /\ \/ Unfinished(o)
             \/ Count(o, k) /\ range' = [range EXCEPT ![o] = c]
      BY <1>0, <1>10, ResetRangeEffect
    <2>2. pool' = pool
      BY <1>10 DEF ResetRange, IsNotified
    <2>3. k = <<range[o].seg, pid>>
      BY <2>1 DEF Pending
    <2>4. range[o].num = 1 => pid = range[o].first
      <3>1. range[o].first \in Int /\ pid \in Int
        BY <2>1 DEF WaitingRange, Id
      <3>2. QED
        BY <2>1, <3>1 DEF Ids
    <2> HIDE DEF o, k, c
    <2>5. CASE Unfinished(o)
      BY <1>8, <2>1, <2>2, <2>5
    <2>6. CASE Count(o, k) /\ range' = [range EXCEPT ![o] = c]
      <3>1. \A p \in Object \ {o} : range'[p] = range[p]
        BY <1>0, <2>6 DEF TypeOK
      <3>2. range[o].buf => Deliver(range[o].task, k)
        BY <2>6 DEF Count
      <3>3. ~range[o].buf => UNCHANGED <<out, taken>>
        BY <2>6 DEF Count
      <3>4. range[o].buf /\ u = range[o].task /\ j = k => out'[u][j] = taken'[u][j]
        BY <1>0, <2>1, <3>2, Delivered
      <3>5. ~(range[o].buf /\ u = range[o].task /\ j = k) =>
                out'[u][j] = out[u][j] /\ taken'[u][j] = taken[u][j]
        BY <1>0, <2>1, <3>2, <3>3, Delivered
      <3>6. CASE range[o].buf /\ u = range[o].task /\ j = k
        BY <3>4, <3>6
      <3>7. CASE ~(range[o].buf /\ u = range[o].task /\ j = k)
        <4>1. ASSUME Overwritten(u, j) PROVE Overwritten(u, j)'
          <5>1. PICK p \in RangesOf(u) :
                    /\ range[p].buf /\ range[p].remaining > 0 /\ range[p].num = 1
                    /\ j = <<range[p].seg, range[p].first>>
            BY <4>1 DEF Overwritten
          <5>2. p # o
            BY <2>3, <2>4, <3>7, <5>1 DEF RangesOf
          <5>3. range'[p] = range[p] /\ p \in RangesOf(u)'
            BY <2>2, <3>1, <5>1, <5>2 DEF RangesOf
          <5>4. QED
            BY <5>1, <5>3 DEF Overwritten
        <4>2. QED
          BY <1>0, <3>5, <3>7, <4>1
      <3>8. QED
        BY <3>6, <3>7
    <2>7. QED
      BY <2>1, <2>5, <2>6
  <1>11. ASSUME FreeRange PROVE Goal
    <2> DEFINE o == Head(completeRanges)
    <2>1. o \in Object \ pool /\ range[o].remaining = 0
      BY <1>0, <1>11, FirstComplete DEF FreeRange, PollInv
    <2>2. /\ pool' = pool \cup {o} /\ range' = [range EXCEPT ![o] = NoRange]
          /\ UNCHANGED <<out, taken>>
      BY <1>11 DEF FreeRange, free
    <2> HIDE DEF o
    <2>3. ASSUME Overwritten(u, j) PROVE Overwritten(u, j)'
      <3>1. PICK p \in RangesOf(u) :
                /\ range[p].buf /\ range[p].remaining > 0 /\ range[p].num = 1
                /\ j = <<range[p].seg, range[p].first>>
        BY <2>3 DEF Overwritten
      <3>2. p # o
        BY <2>1, <3>1
      <3>3. range'[p] = range[p] /\ p \in RangesOf(u)'
        BY <1>0, <2>2, <3>1, <3>2 DEF RangesOf, TypeOK
      <3>4. QED
        BY <3>1, <3>3 DEF Overwritten
    <2>4. QED
      BY <1>0, <2>2, <2>3
  <1>12. QED
    BY <1>1, <1>2, <1>3, <1>4, <1>5, <1>6, <1>7, <1>9, <1>10, <1>11
    DEF Next, TaskStep, Poller, Aborted

-----------------------------------------------------------------------------

\* A wait that consumes an id it had not consumed counts it.
LEMMA CountConsumed ==
    ASSUME NEW w \in WaitingRange, NEW t, IsWait(w, t), w.remaining > 0, Counted(w),
           NEW i \in Ids(w), i \in Id, i \notin w.got
    PROVE  Counted(Consumed(w, i))
  <1>1. IsFiniteSet(w.got)
    <2>1. w.first \in Int /\ w.first + w.num - 1 \in Int
      BY DEF WaitingRange, Id
    <2>2. IsFiniteSet(Ids(w))
      BY <2>1, FS_Interval DEF Ids
    <2>3. QED
      BY <2>2, FS_Subset DEF Counted
  <1>2. Cardinality(w.got \cup {i}) = Cardinality(w.got) + 1 /\ Cardinality(w.got) \in Nat
    BY <1>1, FS_AddElement, FS_CardinalityType
  <1>3. /\ Consumed(w, i).got = w.got \cup {i} /\ Ids(Consumed(w, i)) = Ids(w)
        /\ Consumed(w, i).remaining = w.remaining - 1 /\ Consumed(w, i).num = w.num
    BY ConsumedFields
  <1>4. w.remaining \in Int /\ w.num \in Int
    BY DEF WaitingRange
  <1>5. QED
    BY <1>2, <1>3, <1>4 DEF Counted

\* A wait that has counted as many ids as it has asked for has them all.
LEMMA AllConsumed ==
    ASSUME NEW w \in WaitingRange, NEW t, IsWait(w, t), Counted(w), w.remaining = 0
    PROVE  w.got = Ids(w)
  <1>1. w.first \in Int /\ w.num \in Nat /\ w.num >= 1
    BY DEF WaitingRange, Id, IsWait
  <1>2. IsFiniteSet(Ids(w)) /\ Cardinality(Ids(w)) = w.num
    <2>1. PICK a \in Int, n \in Nat : a = w.first /\ n = w.num /\ n >= 1
      BY <1>1
    <2>2. /\ IsFiniteSet(a .. a + n - 1)
          /\ Cardinality(a .. a + n - 1) = IF a > a + n - 1 THEN 0 ELSE a + n - 1 - a + 1
      BY FS_Interval
    <2>3. Cardinality(a .. a + n - 1) = n
      BY <2>1, <2>2
    <2>4. QED
      BY <2>1, <2>2, <2>3 DEF Ids
  <1>3. w.got \subseteq Ids(w) /\ IsFiniteSet(w.got) /\ Cardinality(w.got) \in Nat
    BY <1>2, FS_Subset, FS_CardinalityType DEF Counted
  <1>4. Cardinality(w.got) = Cardinality(Ids(w))
    BY <1>1, <1>2, <1>3 DEF Counted
  <1>5. QED
    BY <1>2, <1>3, <1>4, FS_Subset

\* Nothing forgets that an id was notified again.
LEMMA ResentStable == [Next]_vars /\ resent => resent'
  <1> SUFFICES ASSUME [Next]_vars, resent PROVE resent'
    OBVIOUS
  <1> USE DEF gaspiVars
  <1>1. ASSUME NEW t \in Task, TaskCall(t) PROVE resent'
    BY <1>1, CallEffect DEF Wait
  <1>2. ASSUME NEW t \in Task, EndTask(t) \/ SpawnTask(t) PROVE resent'
    BY <1>2 DEF EndTask, SpawnTask
  <1>3. ASSUME NEW t \in Task, TaskStep(t) PROVE resent'
    BY <1>3 DEF TaskStep, TestNotification, ResetNotification, Consume, IncreaseEvents,
                Allocate, Lock, Push, Unlock
  <1>4. ASSUME NEW k \in Key, NEW v \in Value, NotificationArrives(k, v) PROVE resent'
    BY <1>4 DEF NotificationArrives
  <1>5. CASE Poller
    BY <1>5 DEF Poller, PollNotifications, DequeueAll, CheckRange, ResetRange, Consume,
                CompleteRange, FreeRange
  <1>6. CASE NotificationError \/ UNCHANGED vars
    BY <1>6 DEF NotificationError, vars
  <1>7. QED
    BY <1>1, <1>2, <1>3, <1>4, <1>5, <1>6 DEF Next, Aborted

\* Only a notification that arrives can be one that is sent again.
LEMMA OnlyArrivalResends ==
    [Next]_vars /\ ~resent /\ resent' => UNCHANGED <<range, completeRanges>>
  <1> SUFFICES ASSUME [Next]_vars, ~resent, resent' PROVE UNCHANGED <<range, completeRanges>>
    OBVIOUS
  <1> USE DEF gaspiVars, rangeVars, pollVars
  <1>1. ASSUME NEW t \in Task, TaskCall(t) PROVE FALSE
    BY <1>1, CallEffect DEF Wait
  <1>2. ASSUME NEW t \in Task, EndTask(t) \/ SpawnTask(t) PROVE FALSE
    BY <1>2 DEF EndTask, SpawnTask
  <1>3. ASSUME NEW t \in Task, TaskStep(t) PROVE FALSE
    BY <1>3 DEF TaskStep, TestNotification, ResetNotification, Consume, IncreaseEvents,
                Allocate, Lock, Push, Unlock
  <1>4. ASSUME NEW k \in Key, NEW v \in Value, NotificationArrives(k, v)
        PROVE  UNCHANGED <<range, completeRanges>>
    BY <1>4 DEF NotificationArrives
  <1>5. ASSUME Poller PROVE FALSE
    BY <1>5 DEF Poller, PollNotifications, DequeueAll, CheckRange, ResetRange, Consume,
                CompleteRange, FreeRange
  <1>6. CASE NotificationError \/ UNCHANGED vars
    BY <1>6 DEF NotificationError, vars
  <1>7. QED
    BY <1>1, <1>2, <1>3, <1>4, <1>5, <1>6 DEF Next, Aborted

\* Waits count ids until one is notified again.
LEMMA StepId == IInv2 /\ [Next]_vars => IdInv'
  <1> SUFFICES ASSUME IInv2, [Next]_vars, ~resent'
               PROVE  /\ \A u \in Task :
                            pc'[u] # "body" => Counted(call'[u]) /\ NotAgain(call[u])'
                      /\ \A p \in Object \ pool' :
                            /\ Counted(range'[p])
                            /\ range'[p].remaining > 0 => NotAgain(range[p])'
    BY DEF IdInv, Counted, Ids, NotAgain
  <1> USE DEF taskVars, callVars, gaspiVars, rangeVars, pollVars, outVars, Alive
  <1> DEFINE Cleared(w) == \A i \in w.got : slot'[<<w.seg, i>>] = 0
             CallsCount == \A u \in Task : pc'[u] # "body" => Counted(call'[u]) /\ Cleared(call'[u])
             RangesCount == \A p \in Object \ pool' :
                /\ Counted(range'[p])
                /\ range'[p].remaining > 0 => Cleared(range'[p])
             Goal == CallsCount /\ RangesCount
  <1> SUFFICES Goal
    BY DEF NotAgain
  <1>0. TypeOK /\ CallInv /\ RangeInv /\ PollInv
    BY DEF IInv2, IInv
  <1>a. ~resent
    BY ResentStable
  <1>b. /\ \A u \in Task : pc[u] # "body" => Counted(call[u]) /\ NotAgain(call[u])
        /\ \A p \in Object \ pool :
            Counted(range[p]) /\ (range[p].remaining > 0 => NotAgain(range[p]))
    BY <1>a DEF IInv2, IdInv
  <1>c. ASSUME NEW w, NotAgain(w), slot' = slot \/ \E k \in Key : slot' = [slot EXCEPT ![k] = 0],
               w \in WaitingRange
        PROVE  Cleared(w)
    <2>1. \A i \in w.got : <<w.seg, i>> \in Key
      BY <1>c DEF WaitingRange, Key
    <2>2. QED
      BY <1>0, <1>c, <2>1 DEF NotAgain, TypeOK
  <1>t. /\ \A u \in Task : call[u] \in WaitingRange
        /\ \A p \in Object : range[p] \in WaitingRange
    BY <1>0 DEF TypeOK
  <1>d. ASSUME slot' = slot \/ \E k \in Key : slot' = [slot EXCEPT ![k] = 0],
               NEW t \in Task, pc'[t] # "body" => Counted(call'[t]) /\ Cleared(call'[t]),
               \A u \in Task \ {t} : pc'[u] = pc[u] /\ call'[u] = call[u]
        PROVE  CallsCount
    BY <1>b, <1>c, <1>d, <1>t
  <1>e. ASSUME slot' = slot \/ \E k \in Key : slot' = [slot EXCEPT ![k] = 0],
               UNCHANGED <<pc, call>>
        PROVE  CallsCount
    BY <1>b, <1>c, <1>e, <1>t
  <1>f. ASSUME slot' = slot \/ \E k \in Key : slot' = [slot EXCEPT ![k] = 0],
               UNCHANGED <<pool, range>>
        PROVE  RangesCount
    BY <1>b, <1>c, <1>f, <1>t
  <1> HIDE DEF CallsCount, RangesCount, Cleared
  <1>1. ASSUME NEW t \in Task, TaskCall(t) PROVE Goal
    <2>1. PICK w \in WaitingRange : Wait(t, w) /\ w.remaining = w.num /\ w.got = {}
      BY <1>1, CallEffect
    <2>2. Counted(w) /\ Cleared(w)
      <3>1. w.num \in Nat
        BY DEF WaitingRange
      <3>2. QED
        BY <2>1, <3>1, FS_EmptySet DEF Counted, Cleared
    <2>3. /\ call'[t] = w /\ \A u \in Task \ {t} : pc'[u] = pc[u] /\ call'[u] = call[u]
          /\ UNCHANGED <<slot, pool, range>>
      BY <1>0, <2>1 DEF Wait, TypeOK
    <2>4. QED
      BY <1>d, <1>f, <2>2, <2>3
  <1>2. ASSUME NEW t \in Task, EndTask(t) \/ SpawnTask(t) PROVE Goal
    BY <1>2, <1>e, <1>f DEF EndTask, SpawnTask
  <1>3. ASSUME NEW t \in Task, \/ TestNotification(t) \/ IncreaseEvents(t) \/ Lock(t) \/ Push(t)
        PROVE  Goal
    <2>1. UNCHANGED <<slot, pool, range, call>> /\ pc[t] # "body"
      BY <1>3 DEF TestNotification, IncreaseEvents, Lock, Push
    <2>2. \A u \in Task \ {t} : pc'[u] = pc[u]
      BY <1>0, <1>3 DEF TestNotification, IncreaseEvents, Lock, Push, TypeOK
    <2>3. Counted(call'[t]) /\ Cleared(call'[t])
      BY <1>b, <1>c, <1>t, <2>1
    <2>4. QED
      BY <1>d, <1>f, <2>1, <2>2, <2>3
  <1>4. ASSUME NEW t \in Task, Unlock(t) PROVE Goal
    <2>1. /\ UNCHANGED <<slot, pool, range>> /\ pc'[t] = "body"
          /\ \A u \in Task \ {t} : pc'[u] = pc[u] /\ call'[u] = call[u]
      BY <1>0, <1>4 DEF Unlock, TypeOK
    <2>2. QED
      BY <1>d, <1>f, <2>1
  <1>5. ASSUME NEW t \in Task, ResetNotification(t) PROVE Goal
    <2> DEFINE w == call[t]
               k == <<w.seg, tid[t]>>
    <2>1. /\ w \in WaitingRange /\ IsWait(w, t) /\ w.remaining > 0
          /\ k \in Key /\ tid[t] \in Ids(w) /\ tid[t] \in Id
          /\ pc[t] = "reset" /\ slot' = [slot EXCEPT ![k] = 0]
          /\ \/ call' = call /\ pc' = [pc EXCEPT ![t] = "increase"]
             \/ pc' = [pc EXCEPT ![t] = "body"] /\ call' = [call EXCEPT ![t] = NoRange]
             \/ /\ slot[k] # 0 /\ call' = [call EXCEPT ![t] = Consumed(w, tid[t])]
                /\ pc' = [pc EXCEPT ![t] = "test"]
      BY <1>0, <1>5, ResetEffect
    <2>2. UNCHANGED <<pool, range>>
      BY <1>5 DEF ResetNotification, IsNotified
    <2>3. Counted(w) /\ NotAgain(w) /\ Cleared(w)
      BY <1>b, <1>c, <2>1
    <2>4. ASSUME slot[k] # 0 PROVE Counted(Consumed(w, tid[t])) /\ Cleared(Consumed(w, tid[t]))
      <3>1. tid[t] \notin w.got
        BY <2>3, <2>4 DEF NotAgain
      <3>2. Counted(Consumed(w, tid[t]))
        BY <2>1, <2>3, <3>1, CountConsumed
      <3>3. Consumed(w, tid[t]).got = w.got \cup {tid[t]} /\ Consumed(w, tid[t]).seg = w.seg
        BY <2>1, ConsumedFields
      <3>4. slot'[k] = 0
        BY <1>0, <2>1 DEF TypeOK
      <3>5. QED
        BY <2>3, <3>2, <3>3, <3>4 DEF Cleared
    <2>5. /\ \A u \in Task \ {t} : pc'[u] = pc[u] /\ call'[u] = call[u]
          /\ \/ call'[t] = w
             \/ pc'[t] = "body"
             \/ slot[k] # 0 /\ call'[t] = Consumed(w, tid[t])
      BY <1>0, <2>1 DEF TypeOK
    <2> HIDE DEF w, k
    <2>6. pc'[t] # "body" => Counted(call'[t]) /\ Cleared(call'[t])
      BY <2>3, <2>4, <2>5
    <2>7. QED
      BY <1>d, <1>f, <2>1, <2>2, <2>5, <2>6
  <1>6. ASSUME NEW t \in Task, Allocate(t) PROVE Goal
    <2>1. PICK o \in pool : pool' = pool \ {o} /\ range' = [range EXCEPT ![o] = call[t]]
      BY <1>6 DEF Allocate
    <2>2. /\ UNCHANGED <<slot, call>> /\ pc[t] # "body"
          /\ \A u \in Task \ {t} : pc'[u] = pc[u]
      BY <1>0, <1>6 DEF Allocate, TypeOK
    <2>3. Counted(call[t]) /\ Cleared(call[t])
      BY <1>b, <1>c, <1>t, <2>2
    <2>4. ASSUME NEW p \in Object \ pool'
          PROVE  Counted(range'[p]) /\ (range'[p].remaining > 0 => Cleared(range'[p]))
      <3>1. CASE p = o
        BY <1>0, <2>1, <2>3, <3>1 DEF TypeOK
      <3>2. CASE p # o
        <4>1. p \in Object \ pool /\ range'[p] = range[p]
          BY <1>0, <2>1, <3>2 DEF TypeOK
        <4>2. QED
          BY <1>b, <1>c, <1>t, <2>2, <4>1
      <3>3. QED
        BY <3>1, <3>2
    <2>5. QED
      BY <1>d, <2>2, <2>3, <2>4 DEF RangesCount
  <1>7. ASSUME NEW k \in Key, NEW v \in Value, NotificationArrives(k, v) PROVE Goal
    <2>1. /\ slot' = [slot EXCEPT ![k] = v] /\ k \notin ConsumedKeys
          /\ UNCHANGED <<pc, call, pool, range>>
      BY <1>7 DEF NotificationArrives
    <2>2. ASSUME NEW w \in WaitingRange, NotAgain(w), w.remaining > 0,
                 (\E u \in Task : w = call[u]) \/ (\E p \in Object \ pool : w = range[p])
          PROVE  Cleared(w)
      <3>1. \A i \in w.got : <<w.seg, i>> \in ConsumedKeys
        BY <2>2 DEF ConsumedKeys
      <3>2. \A i \in w.got : <<w.seg, i>> \in Key
        BY <2>2 DEF WaitingRange, Key
      <3>3. QED
        BY <1>0, <2>1, <2>2, <3>1, <3>2 DEF NotAgain, Cleared, TypeOK
    <2>3. CallsCount
      <3>1. \A u \in Task : pc[u] # "body" => call[u].remaining > 0
        BY <1>0 DEF CallInv, CallOK
      <3>2. QED
        BY <1>b, <1>t, <2>1, <2>2, <3>1 DEF CallsCount
    <2>4. RangesCount
      BY <1>b, <1>t, <2>1, <2>2 DEF RangesCount
    <2>5. QED
      BY <2>3, <2>4
  <1>8. ASSUME PollNotifications \/ DequeueAll \/ CompleteRange \/ NotificationError
               \/ UNCHANGED vars
        PROVE  Goal
    BY <1>8, <1>e, <1>f
    DEF PollNotifications, DequeueAll, CompleteRange, NotificationError, vars
  <1>9. ASSUME CheckRange PROVE Goal
    BY <1>9, <1>e, <1>f DEF CheckRange, Unfinished
  <1>10. ASSUME ResetRange PROVE Goal
    <2> DEFINE o == list[seg][pos]
               k == <<seg, pid>>
               c == Consumed(range[o], pid)
    <2>1. /\ o \in Object \ pool /\ Pending(o, seg) /\ range[o] \in WaitingRange
          /\ IsWait(range[o], range[o].task)
          /\ k \in Key /\ pid \in Ids(range[o]) /\ pid \in Id
          /\ slot' = [slot EXCEPT ![k] = 0]
          /\ \/ Unfinished(o)
             \/ slot[k] # 0 /\ range' = [range EXCEPT ![o] = c]
      BY <1>0, <1>10, ResetRangeEffect
    <2>2. UNCHANGED <<pool, pc, call>>
      BY <1>10 DEF ResetRange, IsNotified
    <2>3. CASE Unfinished(o)
      BY <1>e, <1>f, <2>1, <2>2, <2>3 DEF Unfinished
    <2>4. CASE slot[k] # 0 /\ range' = [range EXCEPT ![o] = c]
      <3>1. k = <<range[o].seg, pid>> /\ range[o].remaining > 0
        BY <2>1 DEF Pending
      <3>2. Counted(range[o]) /\ NotAgain(range[o]) /\ Cleared(range[o])
        BY <1>b, <1>c, <2>1, <3>1
      <3>3. pid \notin range[o].got
        BY <2>4, <3>1, <3>2 DEF NotAgain
      <3>4. Counted(c)
        BY <2>1, <3>1, <3>2, <3>3, CountConsumed
      <3>5. c.got = range[o].got \cup {pid} /\ c.seg = range[o].seg
        BY <2>1, <3>1, ConsumedFields
      <3>6. slot'[k] = 0
        BY <1>0, <2>1 DEF TypeOK
      <3> HIDE DEF c
      <3>7. Cleared(c)
        BY <3>1, <3>2, <3>5, <3>6 DEF Cleared
      <3> HIDE DEF o, k
      <3>8. range'[o] = c /\ \A p \in Object \ {o} : range'[p] = range[p]
        BY <1>0, <2>1, <2>4 DEF TypeOK
      <3>9. ASSUME NEW p \in Object \ pool'
            PROVE  Counted(range'[p]) /\ (range'[p].remaining > 0 => Cleared(range'[p]))
        BY <1>b, <1>c, <1>t, <2>1, <2>2, <3>4, <3>7, <3>8
      <3>10. QED
        BY <1>e, <2>1, <2>2, <3>9 DEF RangesCount
    <2>5. QED
      BY <2>1, <2>3, <2>4
  <1>11. ASSUME FreeRange PROVE Goal
    <2> DEFINE o == Head(completeRanges)
    <2>1. pool' = pool \cup {o} /\ range' = [range EXCEPT ![o] = NoRange]
          /\ UNCHANGED <<slot, pc, call>>
      BY <1>11 DEF FreeRange, free
    <2> HIDE DEF o
    <2>2. \A p \in Object \ pool' : p \in Object \ pool /\ range'[p] = range[p]
      BY <1>0, <2>1 DEF TypeOK
    <2>3. RangesCount
      BY <1>b, <1>c, <1>t, <2>1, <2>2 DEF RangesCount
    <2>4. QED
      BY <1>e, <2>1, <2>3
  <1>12. QED
    BY <1>1, <1>2, <1>3, <1>4, <1>5, <1>6, <1>7, <1>8, <1>9, <1>10, <1>11
    DEF Next, TaskStep, Poller, Aborted

-----------------------------------------------------------------------------

\* Every step keeps the inductive invariant.
LEMMA StepIInv == IInv2 /\ [Next]_vars => IInv2'
  BY StepType, StepCall, StepLock, StepRange, StepPoll, StepEvent, StepResult, StepId
  DEF IInv2, IInv

\* The inductive invariant holds in every state: Init establishes it and every
\* step keeps it.
THEOREM Invariance == Spec => []IInv2
  BY InitIInv, StepIInv, PTL DEF Spec

\* Every variable keeps the type its declaration gives it.
THEOREM TypeCorrect == Spec => []TypeOK
  <1>1. IInv2 => TypeOK
    BY DEF IInv2, IInv
  <1>2. QED
    BY Invariance, <1>1, PTL

\* The events of a task are its ranges that wait or are to be completed, and
\* the one it is about to allocate.
THEOREM EventsExact == Spec => []WaitAccounting
  <1>1. IInv2 => WaitAccounting
    BY DEF IInv2, IInv, EventInv
  <1>2. QED
    BY Invariance, <1>1, PTL

\* A range in a queue or a list misses a notification, a complete one none.
THEOREM PendingCorrect == Spec => []PendingRanges
  <1>1. IInv2 => PendingRanges
    BY DEF IInv2, IInv, RangeInv, PendingRanges, Pending, Range
  <1>2. QED
    BY Invariance, <1>1, PTL

\* A task that has completed has no range that is not being freed.
LEMMA CompletedHasNone ==
    ASSUME IInv, NEW o \in Object \ pool, ~Completing(o)
    PROVE  range[o].task \in Task /\ status[range[o].task] # "completed"
  <1> DEFINE t == range[o].task
  <1>1. t \in Task
    BY DEF IInv, RangeInv
  <1>2. o \in Uncompleted(t)
    BY DEF Uncompleted, RangesOf
  <1>3. Cardinality(Uncompleted(t)) # 0 /\ Cardinality(Uncompleted(t)) \in Nat
    BY <1>2, UncompletedFinite, FS_EmptySet
  <1>4. events[t] = Cardinality(Uncompleted(t)) + (IF pc[t] = "allocate" THEN 1 ELSE 0)
    BY <1>1 DEF IInv, EventInv, WaitAccounting, WaitEvents, Uncompleted
  <1>5. status[t] = "completed" => events[t] = 0
    BY <1>1 DEF IInv, EventInv
  <1> HIDE DEF t
  <1>6. status[t] # "completed"
    BY <1>3, <1>4, <1>5
  <1>7. QED
    BY <1>1, <1>6 DEF t

\* When a task completes, its result arrays hold what its waits consumed: no
\* wait is left whose unsuccessful checks write to them.
LEMMA CompletedDelivered == IInv2 => ResultsDelivered
  <1> SUFFICES ASSUME IInv2, NEW t \in Task, status[t] = "completed" PROVE out[t] = taken[t]
    BY DEF ResultsDelivered
  <1>0. IInv
    BY DEF IInv2
  <1>1. ASSUME NEW k \in Key, NEW o \in RangesOf(t), range[o].remaining > 0 PROVE FALSE
    <2>1. o \in Object \ pool /\ range[o].task = t
      BY DEF RangesOf
    <2>2. ~Completing(o)
      <3>1. ASSUME Completing(o) PROVE FALSE
        <4>1. completeRanges # <<>> /\ o = Head(completeRanges)
          BY <1>0, <3>1 DEF Completing, IInv, PollInv
        <4>2. range[o].remaining = 0
          BY <1>0, <4>1, FirstComplete DEF IInv
        <4>3. QED
          BY <1>1, <4>2
      <3>2. QED
        BY <3>1
    <2>3. QED
      BY <1>0, <2>1, <2>2, CompletedHasNone
  <1>2. \A k \in Key : out[t][k] = taken[t][k]
    BY <1>0, <1>1 DEF IInv, ResultInv
  <1>3. /\ out[t] \in [Key -> Value \cup {0, Garbage}]
        /\ taken[t] \in [Key -> Value \cup {0}]
    BY <1>0 DEF IInv, TypeOK
  <1>4. QED
    BY <1>2, <1>3

\* When a task completes, its result arrays hold what its waits consumed.
THEOREM ResultsCorrect == Spec => []ResultsDelivered
  BY Invariance, CompletedDelivered, PTL

\* When every task has completed and the polling task sleeps, the pool is full
\* and queues, lists and locks are empty.
THEOREM ShutdownClean == Spec => []CleanShutdown
  <1>1. ASSUME IInv2 PROVE CleanShutdown
    <2> SUFFICES ASSUME \A t \in Task : status[t] = "completed", ppc = "sleep"
                 PROVE  /\ pool = Object
                        /\ \A s \in Segment :
                            queue[s] = <<>> /\ list[s] = <<>> /\ lock[s] = <<>>
      BY DEF CleanShutdown
    <2>0. IInv
      BY <1>1 DEF IInv2
    <2>1. \A o \in Object \ pool : FALSE
      BY <2>0, CompletedHasNone DEF Completing
    <2>2. pool = Object
      BY <2>0, <2>1 DEF IInv, TypeOK
    <2>3. ASSUME NEW s \in Segment
          PROVE  queue[s] = <<>> /\ list[s] = <<>> /\ lock[s] = <<>>
      <3>1. /\ queue[s] \in Seq(Object) /\ list[s] \in Seq(Object) /\ lock[s] \in Seq(Task)
        BY <2>0 DEF IInv, TypeOK
      <3>2. Range(queue[s]) \subseteq Object /\ Range(list[s]) \subseteq Object
        BY <3>1, RangeOfSeq
      <3>3. Range(queue[s]) = {} /\ Range(list[s]) = {}
        BY <2>0, <2>2, <3>2 DEF IInv, RangeInv, Pending
      <3>4. Range(lock[s]) = {}
        BY <2>0 DEF IInv, LockInv, CallInv, CallOK
      <3>5. ASSUME NEW S, NEW q \in Seq(S), Range(q) = {} PROVE q = <<>>
        <4>1. q # <<>> => 1 \in DOMAIN q
          BY LenProperties, EmptySeq
        <4>2. QED
          BY <3>5, <4>1 DEF Range
      <3>6. QED
        BY <3>1, <3>3, <3>4, <3>5
    <2>4. QED
      BY <2>2, <2>3
  <1>2. QED
    BY Invariance, <1>1, PTL

\* Every waiting range is in exactly one place.
THEOREM RangesCorrect == Spec => []RangesConserved
  <1>1. ASSUME IInv2 PROVE RangesConserved
    <2>0. TypeOK /\ CallInv /\ RangeInv
      BY <1>1 DEF IInv2, IInv
    <2> SUFFICES ASSUME NEW o \in Object PROVE Cardinality(Places(o)) = 1
      BY DEF RangesConserved
    <2> DEFINE A == {<<"pool">> : p \in pool \cap {o}}
               B == {<<"held", t>> : t \in {u \in Task : o \in held[u]}}
               C == InSegments("queue", queue, o)
               D == InSegments("list", list, o)
               E == {<<"complete", i>> : i \in Positions(completeRanges, o)}
    <2>a. o \in pool => A = {<<"pool">>}
      OBVIOUS
    <2>b. o \notin pool => A = {}
      OBVIOUS
    <2>c. (\A t \in Task : o \notin held[t]) => B = {}
      OBVIOUS
    <2>d. (\A s \in Segment : o \notin Range(queue[s])) => C = {}
      BY DEF InSegments, Positions, Range
    <2>e. (\A s \in Segment : o \notin Range(list[s])) => D = {}
      BY DEF InSegments, Positions, Range
    <2>f. o \notin Range(completeRanges) => E = {}
      BY DEF Positions, Range
    <2>g. Places(o) = A \cup B \cup C \cup D \cup E
      BY DEF Places
    <2>h. ASSUME NEW t \in Task, o \in held[t]
          PROVE  /\ o \notin pool /\ B = {<<"held", t>>} /\ range[o].remaining > 0
                 /\ \A s \in Segment : o \notin Range(queue[s]) /\ o \notin Range(list[s])
      <3>1. /\ o \notin pool /\ range[o] = call[t] /\ IsWait(call[t], t)
            /\ call[t].remaining > 0
        BY <2>0, <2>h DEF CallInv, CallOK
      <3>2. \A u \in Task : o \in held[u] => range[o] = call[u] /\ IsWait(call[u], u)
        BY <2>0 DEF CallInv, CallOK
      <3>3. \A u \in Task : o \in held[u] => u = t
        BY <3>1, <3>2 DEF IsWait
      <3>4. {u \in Task : o \in held[u]} = {t}
        BY <2>h, <3>3
      <3>5. QED
        BY <2>0, <2>h, <3>1, <3>4 DEF RangeInv
    <2>i. \A s \in Segment : /\ o \in Range(queue[s]) => Pending(o, s) /\ o \notin Range(list[s])
                             /\ o \in Range(list[s]) => Pending(o, s)
                             /\ IsInjective(queue[s]) /\ IsInjective(list[s])
      BY <2>0 DEF RangeInv
    <2>j. ASSUME NEW s \in Segment, o \in Range(queue[s])
          PROVE  \E i : C = {<<"queue", s, i>>}
      <3>1. \A r \in Segment : r # s => Positions(queue[r], o) = {}
        BY <2>i, <2>j DEF Pending, Positions, Range
      <3>2. PICK i \in DOMAIN queue[s] : queue[s][i] = o
        BY <2>j DEF Range
      <3>3. Positions(queue[s], o) = {i}
        BY <2>i, <3>2 DEF Positions, IsInjective
      <3>4. C = {<<"queue", s, i>>}
        BY <3>1, <3>3 DEF InSegments
      <3>5. QED
        BY <3>4
    <2>k. ASSUME NEW s \in Segment, o \in Range(list[s])
          PROVE  \E i : D = {<<"list", s, i>>}
      <3>1. \A r \in Segment : r # s => Positions(list[r], o) = {}
        BY <2>i, <2>k DEF Pending, Positions, Range
      <3>2. PICK i \in DOMAIN list[s] : list[s][i] = o
        BY <2>k DEF Range
      <3>3. Positions(list[s], o) = {i}
        BY <2>i, <3>2 DEF Positions, IsInjective
      <3>4. D = {<<"list", s, i>>}
        BY <3>1, <3>3 DEF InSegments
      <3>5. QED
        BY <3>4
    <2>l. ASSUME o \in Range(completeRanges) PROVE \E i : E = {<<"complete", i>>}
      <3>1. PICK i \in DOMAIN completeRanges : completeRanges[i] = o
        BY <2>l DEF Range
      <3>2. IsInjective(completeRanges)
        BY <2>0 DEF RangeInv
      <3>3. Positions(completeRanges, o) = {i}
        BY <3>1, <3>2 DEF Positions, IsInjective
      <3>4. E = {<<"complete", i>>}
        BY <3>3
      <3>5. QED
        BY <3>4
    <2>m. o \in Range(completeRanges) => o \notin pool /\ range[o].remaining = 0
      BY <2>0 DEF RangeInv
    <2> HIDE DEF A, B, C, D, E
    <2>1. CASE o \in pool
      <3>1. B = {} /\ C = {} /\ D = {} /\ E = {}
        BY <2>1, <2>c, <2>d, <2>e, <2>f, <2>h, <2>i, <2>m DEF Pending
      <3>2. Places(o) = {<<"pool">>}
        BY <2>1, <2>a, <2>g, <3>1
      <3>3. QED
        BY <3>2, FS_Singleton
    <2>2. CASE \E t \in Task : o \in held[t]
      <3>1. PICK t \in Task : o \in held[t]
        BY <2>2
      <3>2. A = {} /\ B = {<<"held", t>>} /\ C = {} /\ D = {} /\ E = {}
        BY <2>b, <2>d, <2>e, <2>f, <2>h, <2>m, <3>1
      <3>3. Places(o) = {<<"held", t>>}
        BY <2>g, <3>2
      <3>4. QED
        BY <3>3, FS_Singleton
    <2>3. CASE \E s \in Segment : o \in Range(queue[s])
      <3>1. PICK s \in Segment : o \in Range(queue[s])
        BY <2>3
      <3>2. /\ Pending(o, s)
            /\ \A t \in Task : o \notin held[t]
            /\ \A r \in Segment : o \notin Range(list[r])
        BY <2>h, <2>i, <3>1 DEF Pending
      <3>3. PICK i : C = {<<"queue", s, i>>}
        BY <2>j, <3>1
      <3>4. A = {} /\ B = {} /\ D = {} /\ E = {}
        BY <2>b, <2>c, <2>e, <2>f, <2>m, <3>2 DEF Pending
      <3>5. Places(o) = {<<"queue", s, i>>}
        BY <2>g, <3>3, <3>4
      <3>6. QED
        BY <3>5, FS_Singleton
    <2>4. CASE \E s \in Segment : o \in Range(list[s])
      <3>1. PICK s \in Segment : o \in Range(list[s])
        BY <2>4
      <3>2. /\ Pending(o, s)
            /\ \A t \in Task : o \notin held[t]
            /\ \A r \in Segment : o \notin Range(queue[r])
        BY <2>h, <2>i, <3>1 DEF Pending
      <3>3. PICK i : D = {<<"list", s, i>>}
        BY <2>k, <3>1
      <3>4. A = {} /\ B = {} /\ C = {} /\ E = {}
        BY <2>b, <2>c, <2>d, <2>f, <2>m, <3>2 DEF Pending
      <3>5. Places(o) = {<<"list", s, i>>}
        BY <2>g, <3>3, <3>4
      <3>6. QED
        BY <3>5, FS_Singleton
    <2>5. CASE o \in Range(completeRanges)
      <3>1. PICK i : E = {<<"complete", i>>}
        BY <2>5, <2>l
      <3>2. A = {} /\ B = {} /\ C = {} /\ D = {}
        BY <2>5, <2>b, <2>c, <2>d, <2>e, <2>h, <2>i, <2>m DEF Pending
      <3>3. Places(o) = {<<"complete", i>>}
        BY <2>g, <3>1, <3>2
      <3>4. QED
        BY <3>3, FS_Singleton
    <2>6. QED
      BY <2>0, <2>1, <2>2, <2>3, <2>4, <2>5 DEF RangeInv
  <1>2. QED
    BY Invariance, <1>1, PTL

-----------------------------------------------------------------------------

\* The step writes to no result array of another task than t.
WritesOnly(t) == \A u \in Task : u # t => out'[u] = out[u]

\* Nobody writes to the result arrays of a task that has completed.
THEOREM NoLateWriteCorrect == Spec => NoLateWrite
  <1>1. ASSUME IInv2, [Next]_vars, NEW u \in Task, status[u] = "completed",
               status'[u] = "completed"
        PROVE  out'[u] = out[u]
    <2> USE DEF taskVars, callVars, gaspiVars, rangeVars, pollVars, outVars, Alive
    <2>0. IInv /\ TypeOK /\ CallInv /\ RangeInv /\ PollInv
      BY <1>1 DEF IInv2, IInv
    <2>1. ASSUME NEW t \in Task, TaskCall(t) PROVE out'[u] = out[u]
      BY <2>1, CallEffect DEF Wait
    <2>2. ASSUME NEW t \in Task, \/ EndTask(t) \/ TestNotification(t) \/ IncreaseEvents(t)
                                 \/ Allocate(t) \/ Lock(t) \/ Push(t) \/ Unlock(t)
          PROVE  out'[u] = out[u]
      BY <2>2 DEF EndTask, TestNotification, IncreaseEvents, Allocate, Lock, Push, Unlock
    <2>3. ASSUME NEW t \in Task, SpawnTask(t) PROVE out'[u] = out[u]
      <3>1. status'[t] = "running" /\ (u # t => out'[u] = out[u])
        BY <2>0, <2>3 DEF SpawnTask, Spawn, TypeOK, TaskTypeOK
      <3>2. QED
        BY <1>1, <3>1
    <2>4. ASSUME NEW t \in Task, ResetNotification(t) PROVE out'[u] = out[u]
      <3>1. status[t] = "running"
        BY <2>0, <2>4 DEF ResetNotification, IsNotified, CallInv, CallOK
      <3>2. WritesOnly(t)
        BY <2>0, <2>4 DEF ResetNotification, IsNotified, Deliver, WritesOnly, TypeOK
      <3>3. QED
        BY <1>1, <3>1, <3>2 DEF WritesOnly
    <2>5. ASSUME NEW k \in Key, NEW v \in Value, NotificationArrives(k, v)
          PROVE  out'[u] = out[u]
      BY <2>5 DEF NotificationArrives
    <2>6. ASSUME \/ PollNotifications \/ DequeueAll \/ CompleteRange \/ FreeRange
                 \/ NotificationError \/ UNCHANGED vars
          PROVE  out'[u] = out[u]
      BY <2>6 DEF PollNotifications, DequeueAll, CompleteRange, FreeRange,
                  NotificationError, vars
    <2>7. ASSUME CheckRange PROVE out'[u] = out[u]
      <3> DEFINE o == list[seg][pos]
      <3>1. out' = out \/ (pos <= Len(list[seg]) /\ Unfinished(o))
        BY <2>0, <2>7, CheckEffect
      <3>2. CASE pos <= Len(list[seg]) /\ Unfinished(o)
        <4>1. o \in Object \ pool /\ ~Completing(o)
          BY <2>0, <2>7, <3>2, Listed DEF CheckRange, Completing
        <4>2. range[o].task \in Task /\ status[range[o].task] # "completed"
          BY <2>0, <4>1, CompletedHasNone
        <4> HIDE DEF o
        <4>3. WritesOnly(range[o].task)
          BY <2>0, <3>2, <4>2 DEF Unfinished, WritesOnly, TypeOK
        <4>4. QED
          BY <1>1, <4>2, <4>3 DEF WritesOnly
      <3>3. QED
        BY <3>1, <3>2
    <2>8. ASSUME ResetRange PROVE out'[u] = out[u]
      <3> DEFINE o == list[seg][pos]
                 k == <<seg, pid>>
      <3>1. o \in Object \ pool /\ ppc = "reset" /\ (Unfinished(o) \/ Count(o, k))
        BY <2>0, <2>8, ResetRangeEffect
      <3>2. range[o].task \in Task /\ status[range[o].task] # "completed"
        BY <2>0, <3>1, CompletedHasNone DEF Completing
      <3> HIDE DEF o, k
      <3>3. WritesOnly(range[o].task)
        BY <2>0, <3>1, <3>2 DEF Unfinished, Count, Deliver, WritesOnly, TypeOK
      <3>4. QED
        BY <1>1, <3>2, <3>3 DEF WritesOnly
    <2>9. QED
      BY <1>1, <2>1, <2>2, <2>3, <2>4, <2>5, <2>6, <2>7, <2>8
      DEF Next, TaskStep, Poller, Aborted
  <1>2. IInv2 /\ [Next]_vars =>
            [\A t \in Task : status[t] = "completed" /\ status'[t] = "completed"
                                => out'[t] = out[t]]_vars
    BY <1>1
  <1>3. QED
    BY <1>2, Invariance, PTL DEF Spec, NoLateWrite

-----------------------------------------------------------------------------

\* The complete ranges have consumed every id.
CompleteConsumed ==
    \A i \in DOMAIN completeRanges :
        range[completeRanges[i]].got = Ids(range[completeRanges[i]])

\* That follows from the invariant while no id was notified again.
LEMMA CompleteRangesConsumed == IInv2 => (resent \/ CompleteConsumed)
  <1> SUFFICES ASSUME IInv2, ~resent, NEW i \in DOMAIN completeRanges
               PROVE  range[completeRanges[i]].got = Ids(range[completeRanges[i]])
    BY DEF CompleteConsumed
  <1> DEFINE o == completeRanges[i]
  <1>0. TypeOK /\ RangeInv /\ IdInv
    BY DEF IInv2, IInv
  <1>1. o \in Range(completeRanges)
    BY DEF Range
  <1>2. Range(completeRanges) \subseteq Object
    BY <1>0, RangeOfSeq DEF TypeOK
  <1>3. o \in Object \ pool /\ range[o].remaining = 0
    BY <1>0, <1>1, <1>2 DEF RangeInv
  <1>4. range[o] \in WaitingRange /\ IsWait(range[o], range[o].task) /\ Counted(range[o])
    BY <1>0, <1>3 DEF TypeOK, RangeInv, IdInv
  <1>5. QED
    BY <1>3, <1>4, AllConsumed

\* A wait ends when it has consumed every id of its range, unless one of them
\* was notified again.
THEOREM EveryIdConsumedCorrect == Spec => EveryIdConsumed
  <1> DEFINE Returns(t) ==
                pc[t] = "reset" /\ pc'[t] = "body" => call[t].got \cup Got(<<call[t].seg, tid[t]>>) = Ids(call[t])
             Ended == /\ \A t \in Task : Returns(t)
                      /\ \A i \in DOMAIN completeRanges' :
                            LET w == range'[completeRanges'[i]] IN w.got = Ids(w)
  <1>1. ASSUME IInv2, [Next]_vars, ~resent, NEW t \in Task, pc[t] = "reset", pc'[t] = "body"
        PROVE  call[t].got \cup Got(<<call[t].seg, tid[t]>>) = Ids(call[t])
    <2> USE DEF taskVars, callVars, gaspiVars, rangeVars, pollVars, outVars, Alive
    <2>0. TypeOK /\ CallInv /\ IdInv
      BY <1>1 DEF IInv2, IInv
    <2> DEFINE w == call[t]
               k == <<w.seg, tid[t]>>
    <2>1. CASE ResetNotification(t)
      <3>1. /\ w \in WaitingRange /\ IsWait(w, t) /\ w.remaining > 0
            /\ tid[t] \in Ids(w) /\ tid[t] \in Id
        BY <2>0, <2>1, ResetEffect
      <3>2. w.remaining = 1 /\ slot[k] # 0
        BY <1>1, <2>0, <2>1 DEF ResetNotification, IsNotified, TypeOK
      <3>3. Counted(w) /\ NotAgain(w)
        BY <1>1, <2>0 DEF IdInv
      <3>4. tid[t] \notin w.got
        BY <3>2, <3>3 DEF NotAgain
      <3> DEFINE c == Consumed(w, tid[t])
      <3>5. Counted(c)
        BY <3>1, <3>3, <3>4, CountConsumed
      <3>6. /\ c \in WaitingRange /\ c.got = w.got \cup {tid[t]} /\ c.remaining = w.remaining - 1
            /\ c.task = w.task /\ c.num = w.num /\ c.first = w.first /\ Ids(c) = Ids(w)
        BY <3>1, ConsumedFields
      <3> HIDE DEF c
      <3>7. c.remaining = 0 /\ IsWait(c, t)
        BY <3>1, <3>2, <3>6 DEF IsWait, WaitingRange
      <3>8. c.got = Ids(c)
        BY <3>5, <3>6, <3>7, AllConsumed
      <3>9. Got(k) = {tid[t]}
        BY <3>2, GotOne
      <3>10. QED
        BY <3>6, <3>8, <3>9
    <2>2. CASE ~ResetNotification(t)
      <3>1. ASSUME NEW u \in Task, TaskCall(u) PROVE FALSE
        BY <1>1, <2>0, <3>1, CallEffect DEF Wait, TypeOK
      <3>2. ASSUME NEW u \in Task, EndTask(u) \/ SpawnTask(u) PROVE FALSE
        BY <1>1, <3>2 DEF EndTask, SpawnTask
      <3>3. ASSUME NEW u \in Task, \/ TestNotification(u) \/ IncreaseEvents(u) \/ Allocate(u)
                                   \/ Lock(u) \/ Push(u) \/ Unlock(u)
            PROVE  FALSE
        BY <1>1, <2>0, <3>3
        DEF TestNotification, IncreaseEvents, Allocate, Lock, Push, Unlock, TypeOK
      <3>4. ASSUME NEW u \in Task, ResetNotification(u) PROVE FALSE
        <4>1. u # t
          BY <2>2, <3>4
        <4>2. QED
          BY <1>1, <2>0, <3>4, <4>1 DEF ResetNotification, IsNotified, TypeOK
      <3>5. ASSUME NEW j \in Key, NEW v \in Value, NotificationArrives(j, v) PROVE FALSE
        BY <1>1, <3>5 DEF NotificationArrives
      <3>6. ASSUME \/ PollNotifications \/ DequeueAll \/ CheckRange \/ ResetRange
                   \/ CompleteRange \/ FreeRange \/ NotificationError \/ UNCHANGED vars
            PROVE  FALSE
        BY <1>1, <3>6 DEF PollNotifications, DequeueAll, CheckRange, ResetRange,
                          CompleteRange, FreeRange, NotificationError, vars
      <3>7. QED
        BY <1>1, <3>1, <3>2, <3>3, <3>4, <3>5, <3>6 DEF Next, TaskStep, Poller, Aborted
    <2>3. QED
      BY <2>1, <2>2
  <1>2. IInv2' => (resent' \/ CompleteConsumed')
    BY CompleteRangesConsumed, PTL
  <1>3. ASSUME IInv2, IInv2', [Next]_vars, ~resent PROVE CompleteConsumed'
    <2>1. CASE ~resent'
      BY <1>2, <1>3, <2>1
    <2>2. CASE resent'
      <3>1. UNCHANGED <<range, completeRanges>>
        BY <1>3, <2>2, OnlyArrivalResends
      <3>2. QED
        BY <1>3, <3>1, CompleteRangesConsumed DEF CompleteConsumed, Ids
    <2>3. QED
      BY <2>1, <2>2
  <1>4. IInv2 /\ IInv2' /\ [Next]_vars => [resent \/ Ended]_vars
    BY <1>1, <1>3 DEF CompleteConsumed, Ids
  <1>5. QED
    BY <1>4, Invariance, PTL DEF Spec, EveryIdConsumed

-----------------------------------------------------------------------------

\* The waits of task t that TaskAware sees.
Outstanding(t) == {o \in RangesOf(t) : range[o].remaining > 0}

\* A task without events has none of them.
LEMMA NothingOutstanding ==
    ASSUME IInv, NEW t \in Task,
           events[t] = 0 \/ (events[t] = 1 /\ \E o \in RangesOf(t) :
                                range[o].remaining = 0 /\ ~Completing(o))
    PROVE  Outstanding(t) = {}
  <1>0. Outstanding(t) \subseteq Uncompleted(t)
    <2> SUFFICES ASSUME NEW o \in Outstanding(t), Completing(o) PROVE FALSE
      BY DEF Outstanding, Uncompleted
    <2>1. completeRanges # <<>> /\ o = Head(completeRanges)
      BY DEF Completing, IInv, PollInv
    <2>2. range[o].remaining = 0
      BY <2>1, FirstComplete DEF IInv
    <2>3. QED
      BY <2>2 DEF Outstanding
  <1>1. events[t] = Cardinality(Uncompleted(t)) + (IF pc[t] = "allocate" THEN 1 ELSE 0)
    BY DEF IInv, EventInv, WaitAccounting, WaitEvents, Uncompleted
  <1>2. IsFiniteSet(Uncompleted(t)) /\ Cardinality(Uncompleted(t)) \in Nat
    BY UncompletedFinite
  <1>3. CASE events[t] = 0
    <2>1. Cardinality(Uncompleted(t)) = 0
      BY <1>1, <1>2, <1>3
    <2>2. QED
      BY <1>0, <1>2, <2>1, FS_EmptySet
  <1>4. CASE events[t] = 1 /\ \E o \in RangesOf(t) : range[o].remaining = 0 /\ ~Completing(o)
    <2>1. PICK o \in RangesOf(t) : range[o].remaining = 0 /\ ~Completing(o)
      BY <1>4
    <2>2. o \in Uncompleted(t) /\ o \notin Outstanding(t)
      BY <2>1 DEF Uncompleted, Outstanding
    <2>3. IsFiniteSet(Uncompleted(t) \ {o})
          /\ Cardinality(Uncompleted(t) \ {o}) = Cardinality(Uncompleted(t)) - 1
          /\ Cardinality(Uncompleted(t) \ {o}) \in Nat
      BY <1>2, <2>2, FS_RemoveElement, FS_CardinalityType
    <2>4. Cardinality(Uncompleted(t) \ {o}) = 0
      BY <1>1, <1>2, <1>4, <2>3
    <2>5. Uncompleted(t) \ {o} = {}
      BY <2>3, <2>4, FS_EmptySet
    <2>6. QED
      BY <1>0, <2>2, <2>5
  <1>5. QED
    BY <1>3, <1>4

\* Every step is a step of TaskAware or leaves its variables alone.
LEMMA RefinementStep == IInv /\ [Next]_vars => [TA!Next]_(TA!vars)
  <1> DEFINE Out == [t \in Task |-> {o \in RangesOf(t) : range[o].remaining > 0}]
             Unmoved == status' = status /\ \A t \in Task : Outstanding(t)' = Outstanding(t)
  <1> SUFFICES ASSUME IInv, [Next]_vars PROVE TA!Next \/ UNCHANGED TA!vars
    BY DEF TA!vars
  <1> USE DEF taskVars, callVars, gaspiVars, rangeVars, pollVars, outVars, Alive
  <1>0. TypeOK /\ CallInv /\ RangeInv /\ PollInv
    BY DEF IInv
  <1>u. ASSUME Unmoved PROVE UNCHANGED TA!vars
    BY <1>u DEF TA!vars, Outstanding
  <1>o. \A t \in Task : Out[t] = Outstanding(t) /\ Out'[t] = Outstanding(t)'
    BY DEF Outstanding
  <1>f. ASSUME UNCHANGED <<pool, range>> PROVE \A t \in Task : Outstanding(t)' = Outstanding(t)
    BY <1>f DEF Outstanding, RangesOf
  <1>g. ASSUME UNCHANGED <<status, pool, range>> PROVE Unmoved
    BY <1>f, <1>g
  <1>1. ASSUME NEW t \in Task, TaskCall(t) PROVE Unmoved
    <2>1. PICK w \in WaitingRange : Wait(t, w)
      BY <1>1, CallEffect
    <2>2. QED
      BY <1>g, <2>1 DEF Wait
  <1>2. ASSUME NEW t \in Task, \/ TestNotification(t) \/ ResetNotification(t)
                               \/ IncreaseEvents(t) \/ Lock(t) \/ Push(t) \/ Unlock(t)
        PROVE  Unmoved
    BY <1>2, <1>g DEF TestNotification, ResetNotification, IncreaseEvents, Lock, Push, Unlock,
                      increaseCurrentTaskEvents
  <1>3. ASSUME NEW t \in Task, EndTask(t) PROVE TA!Next
    <2>1. /\ \A u \in Task : Outstanding(u)' = Outstanding(u)
          /\ FinishBody(t)
      BY <1>3, <1>f DEF EndTask
    <2>2. CASE events[t] = 0
      <3>1. Outstanding(t) = {}
        BY <2>2, NothingOutstanding
      <3>2. TA!Complete(t)
        BY <2>1, <2>2, <3>1 DEF FinishBody, TA!Complete, Outstanding
      <3>3. QED
        BY <3>2 DEF TA!Next
    <2>3. CASE events[t] # 0
      <3>1. TA!Finish(t)
        BY <2>1, <2>3 DEF FinishBody, TA!Finish, Outstanding
      <3>2. QED
        BY <3>1 DEF TA!Next
    <2>4. QED
      BY <2>2, <2>3
  <1>4. ASSUME NEW t \in Task, SpawnTask(t) PROVE TA!Next
    <2>1. \A u \in Task : Outstanding(u)' = Outstanding(u)
      BY <1>4, <1>f DEF SpawnTask
    <2>2. TA!Respawn(t)
      BY <1>4, <2>1 DEF SpawnTask, Spawn, TA!Respawn, Outstanding
    <2>3. QED
      BY <2>2 DEF TA!Next
  <1>5. ASSUME NEW t \in Task, Allocate(t) PROVE TA!Next
    <2>1. PICK o \in pool : pool' = pool \ {o} /\ range' = [range EXCEPT ![o] = call[t]]
      BY <1>5 DEF Allocate
    <2>2. /\ status[t] = "running" /\ status' = status /\ call[t].task = t
          /\ call[t].remaining > 0 /\ o \in Object
      BY <1>0, <1>5, <2>1 DEF Allocate, CallInv, CallOK, IsWait, TypeOK
    <2>3. \A u \in Task : o \notin Outstanding(u)
      BY <2>1 DEF Outstanding, RangesOf
    <2>4. \A u \in Task : Outstanding(u)' = IF u = t THEN Outstanding(u) \cup {o}
                                            ELSE Outstanding(u)
      BY <1>0, <2>1, <2>2 DEF Outstanding, RangesOf, TypeOK
    <2>5. Out' = [Out EXCEPT ![t] = Out[t] \cup {o}]
      BY <1>o, <2>4
    <2>6. \A u \in Task : Out[u] \cap {o} = {}
      BY <1>o, <2>3
    <2>7. TA!Start(t, {o})
      BY <2>2, <2>5, <2>6 DEF TA!Start
    <2>8. QED
      BY <2>2, <2>7 DEF TA!Next
  <1>6. ASSUME NEW k \in Key, NEW v \in Value, NotificationArrives(k, v) PROVE Unmoved
    BY <1>6, <1>g DEF NotificationArrives
  <1>7. ASSUME PollNotifications \/ DequeueAll \/ NotificationError \/ UNCHANGED vars
        PROVE  Unmoved
    BY <1>7, <1>g DEF PollNotifications, DequeueAll, NotificationError, vars
  <1>8. ASSUME CheckRange PROVE Unmoved
    BY <1>8, <1>g DEF CheckRange, Unfinished
  <1>9. ASSUME ResetRange PROVE TA!Next \/ Unmoved
    <2>1. PICK o \in Object \ pool : o = list[seg][pos]
      BY <1>0, <1>9, ResetRangeEffect
    <2> DEFINE c == Consumed(range[o], pid)
    <2>2. /\ range[o] \in WaitingRange /\ range[o].task \in Task /\ pid \in Id
          /\ range[o].remaining > 0
          /\ range' = range \/ range' = [range EXCEPT ![o] = c]
      BY <1>0, <1>9, <2>1, ResetRangeEffect DEF Unfinished, Pending
    <2>3. c.task = range[o].task /\ c.remaining = range[o].remaining - 1
      BY <2>2, ConsumedFields
    <2>4. range[o].remaining \in Nat
      BY <2>2 DEF WaitingRange
    <2>5. UNCHANGED <<status, pool>>
      BY <1>9 DEF ResetRange, IsNotified
    <2> HIDE DEF c
    <2>6. CASE range' = range
      BY <1>g, <2>5, <2>6
    <2>7. CASE range' = [range EXCEPT ![o] = c]
      <3>1. range'[o] = c /\ \A p \in Object \ {o} : range'[p] = range[p]
        BY <1>0, <2>7 DEF TypeOK
      <3>2. \A u \in Task : RangesOf(u)' = RangesOf(u)
        BY <2>3, <2>5, <3>1 DEF RangesOf
      <3>3. CASE range[o].remaining = 1
        <4>1. PICK t \in Task : t = range[o].task
          BY <2>2
        <4>2. o \in Outstanding(t) /\ \A u \in Task : o \in RangesOf(u) => u = t
          BY <2>2, <4>1 DEF Outstanding, RangesOf
        <4>3. c.remaining = 0
          BY <2>3, <3>3
        <4>4. \A u \in Task : Outstanding(u)' = Outstanding(u) \ {o}
          BY <3>1, <3>2, <4>3 DEF Outstanding, RangesOf
        <4>5. \A u \in Task : u # t => Outstanding(u) \ {o} = Outstanding(u)
          BY <4>2 DEF Outstanding
        <4>6. /\ o \in Out[t]
              /\ \A u \in Task : Out'[u] = IF u = t THEN Out[u] \ {o} ELSE Out[u]
          BY <1>o, <4>2, <4>4, <4>5
        <4>7. Out' = [Out EXCEPT ![t] = Out[t] \ {o}]
          BY <4>6
        <4>8. TA!Deliver(t, o)
          BY <2>5, <4>6, <4>7 DEF TA!Deliver
        <4>9. QED
          BY <4>8 DEF TA!Next
      <3>4. CASE range[o].remaining # 1
        <4>1. c.remaining > 0
          BY <2>2, <2>3, <2>4, <3>4
        <4>2. \A u \in Task : Outstanding(u)' = Outstanding(u)
          BY <2>2, <3>1, <3>2, <4>1 DEF Outstanding, RangesOf
        <4>3. QED
          BY <2>5, <4>2
      <3>5. QED
        BY <3>3, <3>4
    <2>8. QED
      BY <2>2, <2>6, <2>7
  <1>10. ASSUME CompleteRange PROVE TA!Next \/ Unmoved
    <2>0. \A u \in Task : Outstanding(u)' = Outstanding(u)
      BY <1>10, <1>f DEF CompleteRange
    <2>1. CASE completeRanges = <<>>
      BY <1>10, <2>0, <2>1 DEF CompleteRange
    <2>2. CASE completeRanges # <<>>
      <3>1. PICK o \in Object \ pool, t \in Task :
                o = Head(completeRanges) /\ t = range[o].task /\ range[o].remaining = 0
        BY <1>0, <2>2, FirstComplete
      <3>2. /\ ppc = "complete"
            /\ status' = [status EXCEPT ![t] =
                            IF @ = "finished" /\ events[t] = 1 THEN "completed" ELSE @]
        BY <1>10, <2>2, <3>1 DEF CompleteRange, complete, decreaseTaskEvents
      <3>3. CASE status[t] = "finished" /\ events[t] = 1
        <4>1. o \in RangesOf(t) /\ ~Completing(o)
          BY <3>1, <3>2 DEF RangesOf, Completing
        <4>2. Outstanding(t) = {}
          BY <3>1, <3>3, <4>1, NothingOutstanding
        <4>3. TA!Complete(t)
          BY <2>0, <3>2, <3>3, <4>2 DEF TA!Complete, Outstanding
        <4>4. QED
          BY <4>3 DEF TA!Next
      <3>4. CASE ~(status[t] = "finished" /\ events[t] = 1)
        <4>1. status' = status
          BY <1>0, <3>2, <3>4 DEF TypeOK, TaskTypeOK
        <4>2. QED
          BY <2>0, <4>1
      <3>5. QED
        BY <3>3, <3>4
    <2>3. QED
      BY <2>1, <2>2
  <1>11. ASSUME FreeRange PROVE Unmoved
    <2> DEFINE o == Head(completeRanges)
    <2>1. o \in Object \ pool /\ range[o].remaining = 0
      BY <1>0, <1>11, FirstComplete DEF FreeRange, PollInv
    <2>2. pool' = pool \cup {o} /\ range' = [range EXCEPT ![o] = NoRange] /\ status' = status
      BY <1>11 DEF FreeRange, free
    <2> HIDE DEF o
    <2>3. \A u \in Task : Outstanding(u)' = Outstanding(u)
      BY <1>0, <2>1, <2>2 DEF Outstanding, RangesOf, TypeOK
    <2>4. QED
      BY <2>2, <2>3
  <1> HIDE DEF Unmoved
  <1>12. QED
    BY <1>u, <1>1, <1>2, <1>3, <1>4, <1>5, <1>6, <1>7, <1>8, <1>9, <1>10, <1>11
    DEF Next, TaskStep, Poller, Aborted

\* A task completes, and so releases its dependencies, only after each of its
\* waits has consumed all the notifications it asked for: the detailed model of
\* the calls and of pollNotifications implements the promise of TaskAware.
THEOREM TaskAwareness == Spec => ImplementsTaskAware
  <1>1. Init => TA!Init
    BY DEF Init, TaskInit, TA!Init, RangesOf
  <1>2. IInv2 => IInv
    BY DEF IInv2
  <1>3. QED
    BY <1>1, <1>2, RefinementStep, Invariance, PTL DEF Spec, ImplementsTaskAware, TA!Spec
=============================================================================
