-------------------------- MODULE MPSCLockFreeQueue -------------------------
(***************************************************************************)
(* The queue of src/src/common/util/MPSCLockFreeQueue.hpp: producers       *)
(* reserve an entry by incrementing _count, take its position from _head   *)
(* and store their object there; the consumer takes the object at _tail    *)
(* and then decrements _count.  Each atomic access is a step.              *)
(***************************************************************************)
EXTENDS Integers, Sequences, FiniteSets

CONSTANTS
    Producer,
    Value,               \* the objects enqueued
    Nil,                 \* (T) 0
    Capacity,
    MaxEnqueues          \* bound: positions taken, 2^64 before a size_t wraps

ASSUME MPSCAssumption ==
    /\ IsFiniteSet(Producer)
    /\ Nil \notin Value
    /\ Capacity \in Nat \ {0}
    /\ MaxEnqueues \in Nat

VARIABLES
    count, head, tail,   \* _count, _head and _tail
    buffer,              \* _buffer
    pc, obj, pos,        \* [Producer -> its place in enqueue, obj and head]
    cpc, ret,            \* the consumer's place in dequeue and its result
    taken                \* history: objects dequeued

vars == <<count, head, tail, buffer, pc, obj, pos, cpc, ret, taken>>

Slot == 0 .. Capacity - 1
At(place) == {p \in Producer : pc[p] = place}

TypeOK ==
    /\ count \in 0 .. Capacity + Cardinality(Producer)
    /\ head \in 0 .. MaxEnqueues
    /\ tail \in Slot
    /\ buffer \in [Slot -> Value \cup {Nil}]
    /\ pc \in [Producer -> {"idle", "backoff", "position", "store"}]
    /\ obj \in [Producer -> Value \cup {Nil}]
    /\ pos \in [Producer -> 0 .. MaxEnqueues]
    /\ cpc \in {"idle", "count"}
    /\ ret \in Value \cup {Nil}
    /\ taken \in 0 .. MaxEnqueues

Init ==
    /\ count = 0 /\ head = 0 /\ tail = 0
    /\ buffer = [i \in Slot |-> Nil]
    /\ pc = [p \in Producer |-> "idle"]
    /\ obj = [p \in Producer |-> Nil]
    /\ pos = [p \in Producer |-> 0]
    /\ cpc = "idle" /\ ret = Nil /\ taken = 0

Goto(p, from, to) == pc[p] = from /\ pc' = [pc EXCEPT ![p] = to]

\* Mutant of IsFull: one object more than entries.
IsFullLate == count > Capacity

IsFull == count >= Capacity

\* enqueue: the fetch_add on _count reserves an entry, or finds none.
enqueue(p, v) ==
    /\ head + Cardinality(At("position")) < MaxEnqueues
    /\ count' = count + 1
    /\ Goto(p, "idle", IF IsFull THEN "backoff" ELSE "position")
    /\ obj' = [obj EXCEPT ![p] = IF IsFull THEN Nil ELSE v]
    /\ UNCHANGED <<head, tail, buffer, pos, cpc, ret, taken>>

\* Mutant of Undo: the failed reservation stays.
UndoForgotten == UNCHANGED count

Undo == count' = count - 1

\* The enqueue returns false.
BackOff(p) ==
    /\ Goto(p, "backoff", "idle")
    /\ Undo
    /\ UNCHANGED <<head, tail, buffer, obj, pos, cpc, ret, taken>>

\* The fetch_add on _head.
TakePosition(p) ==
    /\ Goto(p, "position", "store")
    /\ pos' = [pos EXCEPT ![p] = head]
    /\ head' = head + 1
    /\ UNCHANGED <<count, tail, buffer, obj, cpc, ret, taken>>

\* The exchange that stores the object; the enqueue returns true.
Store(p) ==
    /\ Goto(p, "store", "idle")
    /\ buffer' = [buffer EXCEPT ![pos[p] % Capacity] = obj[p]]
    /\ obj' = [obj EXCEPT ![p] = Nil]
    /\ pos' = [pos EXCEPT ![p] = 0]
    /\ UNCHANGED <<count, head, tail, cpc, ret, taken>>

\* Mutants of Present: an empty entry is taken as an object; and of NextTail: the
\* position wraps one entry early.
PresentAlways == TRUE
NextTailShort == IF tail + 2 >= Capacity THEN 0 ELSE tail + 1

Present == buffer[tail] # Nil
NextTail == IF tail + 1 >= Capacity THEN 0 ELSE tail + 1

\* dequeue: the exchange that takes the object at _tail.  If the producer that
\* has the position has not stored yet, the queue seems empty and dequeue
\* returns 0.
dequeue ==
    /\ cpc = "idle"
    /\ Present
    /\ ret' = buffer[tail]
    /\ buffer' = [buffer EXCEPT ![tail] = Nil]
    /\ tail' = NextTail
    /\ taken' = taken + 1
    /\ cpc' = "count"
    /\ UNCHANGED <<count, head, pc, obj, pos>>

DequeueNothing == cpc = "idle" /\ ~Present /\ UNCHANGED vars

\* The fetch_sub on _count; dequeue returns the object.
Release ==
    /\ cpc = "count"
    /\ count' = count - 1
    /\ cpc' = "idle"
    /\ UNCHANGED <<head, tail, buffer, pc, obj, pos, ret, taken>>

Step(p) == BackOff(p) \/ TakePosition(p) \/ Store(p)

Next ==
    \/ \E p \in Producer : (\E v \in Value : enqueue(p, v)) \/ Step(p)
    \/ dequeue
    \/ DequeueNothing
    \/ Release

Spec == Init /\ [][Next]_vars

\* An enqueue in progress goes on, and the consumer keeps dequeuing.
FairSpec == /\ Spec
            /\ \A p \in Producer : WF_vars(Step(p))
            /\ WF_vars(dequeue \/ Release)

(***************************************************************************)
(* Properties.                                                             *)
(***************************************************************************)

\* A producer with a position finds its entry empty, also when positions wrap
\* around while earlier producers have not stored yet: "which gives us
\* 'exclusive' access to that element" (lines 72-78).
EntryExclusive ==
    \A p \in At("store") :
        /\ buffer[pos[p] % Capacity] = Nil
        /\ \A q \in At("store") \ {p} : pos[q] % Capacity # pos[p] % Capacity

\* _count is the objects inside, the reservations of enqueues in progress and
\* the object whose dequeue is not over: it is positive when dequeue decrements
\* it (line 102) and zero when the queue is drained and idle (line 58).
CountExact ==
    count = (head - taken) + Cardinality(At("position") \cup At("backoff"))
            + (IF cpc = "count" THEN 1 ELSE 0)

\* The object at position n, stored or about to be.
ObjectAt(n) ==
    IF \E p \in At("store") : pos[p] = n
    THEN obj[CHOOSE p \in At("store") : pos[p] = n]
    ELSE buffer[n % Capacity]

\* The queue is a bounded FIFO, in the order of the positions: no object is
\* lost, duplicated or overtaken, whatever the order of the stores.
FIFO == INSTANCE BoundedFIFO WITH
            items <- [i \in 1 .. head - taken |-> ObjectAt(taken + i - 1)],
            last <- ret

ImplementsFIFO == FIFO!Spec

\* Every object enqueued is dequeued: "once it DOES finish, we can get at all
\* the data that has been filled in" (lines 91-92).
ObjectsDequeued == \A n \in 1 .. MaxEnqueues : head = n ~> taken >= n
=============================================================================
