------------------------------ MODULE SpinLock ------------------------------
(***************************************************************************)
(* The ticket lock of src/src/common/util/SpinLock.hpp.  A thread takes a  *)
(* ticket from _head and spins on the slot of the buffer the ticket falls  *)
(* in until it reads its ticket there; the holder, on leaving, stores the  *)
(* next ticket in that ticket's slot.  Tickets that are Size apart share a *)
(* slot.  Each atomic access is a step.                                    *)
(***************************************************************************)
EXTENDS Integers

CONSTANTS
    Thread,
    Size,                \* slots of the buffer, MAX_SYSTEM_CPUS
    MaxTickets           \* bound: tickets given, 2^64 before a size_t wraps

ASSUME SpinLockAssumption == Size \in Nat \ {0} /\ MaxTickets \in Nat

VARIABLES
    buffer,              \* _buffer, [slot -> ticket being served]
    head,                \* _head, the next ticket to give
    next,                \* _next, the ticket being served
    pc,                  \* [Thread -> where the thread is]
    ticket               \* [Thread -> the local head of lock and trylock]

vars == <<buffer, head, next, pc, ticket>>

Slot == 0 .. Size - 1
SlotOf(n) == n % Size

TypeOK ==
    /\ buffer \in [Slot -> 0 .. MaxTickets]
    /\ head \in 0 .. MaxTickets
    /\ next \in 0 .. MaxTickets
    /\ pc \in [Thread -> {"idle", "spin", "check", "cas", "held", "store"}]
    /\ ticket \in [Thread -> 0 .. MaxTickets]

Init ==
    /\ buffer = [i \in Slot |-> 0]
    /\ head = 0
    /\ next = 0
    /\ pc = [t \in Thread |-> "idle"]
    /\ ticket = [t \in Thread |-> 0]

Goto(t, l) == pc' = [pc EXCEPT ![t] = l]

\* lock(): the fetch_add on _head ...
lock(t) ==
    /\ pc[t] = "idle"
    /\ head < MaxTickets
    /\ ticket' = [ticket EXCEPT ![t] = head]
    /\ head' = head + 1
    /\ Goto(t, "spin")
    /\ UNCHANGED <<buffer, next>>

\* ... and the load that ends the spin.
SpinEnds(t) ==
    /\ pc[t] = "spin"
    /\ buffer[SlotOf(ticket[t])] = ticket[t]
    /\ Goto(t, "held")
    /\ UNCHANGED <<buffer, head, next, ticket>>

\* trylock(): the load of _head, ...
trylock(t) ==
    /\ pc[t] = "idle"
    /\ ticket' = [ticket EXCEPT ![t] = head]
    /\ Goto(t, "check")
    /\ UNCHANGED <<buffer, head, next>>

\* Mutant of TryCheck: trylock does not look at the slot.
TryCheckOmitted(t) ==
    /\ pc[t] = "check"
    /\ Goto(t, "cas")
    /\ UNCHANGED <<buffer, head, next, ticket>>

\* ... the load of the slot, which tells whether the lock is taken, ...
TryCheck(t) ==
    /\ pc[t] = "check"
    /\ \/ buffer[SlotOf(ticket[t])] # ticket[t] /\ Goto(t, "idle")
       \/ buffer[SlotOf(ticket[t])] = ticket[t] /\ Goto(t, "cas")
    /\ UNCHANGED <<buffer, head, next, ticket>>

\* Mutant of TryExchange: a store instead of the compare-and-exchange.
TryStore(t) ==
    /\ pc[t] = "cas"
    /\ ticket[t] < MaxTickets
    /\ head' = ticket[t] + 1
    /\ Goto(t, "held")
    /\ UNCHANGED <<buffer, next, ticket>>

\* ... and the compare-and-exchange on _head.
TryExchange(t) ==
    /\ pc[t] = "cas"
    /\ \/ head = ticket[t] /\ head < MaxTickets /\ head' = head + 1 /\ Goto(t, "held")
       \/ head # ticket[t] /\ Goto(t, "idle") /\ UNCHANGED head
    /\ UNCHANGED <<buffer, next, ticket>>

\* unlock(): the increment of _next, which only the holder touches, ...
unlock(t) ==
    /\ pc[t] = "held"
    /\ next' = next + 1
    /\ Goto(t, "store")
    /\ UNCHANGED <<buffer, head, ticket>>

\* Mutant of NextSlot: the slot is computed from _next before its increment.
NextSlotOld == SlotOf(next - 1)

NextSlot == SlotOf(next)

\* ... and the store that hands the lock over.
HandOver(t) ==
    /\ pc[t] = "store"
    /\ buffer' = [buffer EXCEPT ![NextSlot] = next]
    /\ Goto(t, "idle")
    /\ UNCHANGED <<head, next, ticket>>

Next ==
    \E t \in Thread :
        \/ lock(t)
        \/ SpinEnds(t)
        \/ trylock(t)
        \/ TryCheck(t)
        \/ TryExchange(t)
        \/ unlock(t)
        \/ HandOver(t)

Spec == Init /\ [][Next]_vars

\* A spinning thread keeps reading its slot, and a holder leaves the critical
\* section: those of the waiting range queues and of the error handler do (for
\* the one of the queue groups see CPURoundRobin).
Fairness == \A t \in Thread : WF_vars(SpinEnds(t) \/ unlock(t) \/ HandOver(t))

FairSpec == Spec /\ Fairness

(***************************************************************************)
(* Properties.                                                             *)
(***************************************************************************)

\* The holder, from the end of its lock() to the store of its unlock().
Holders == {t \in Thread : pc[t] \in {"held", "store"}}
Inside == {t \in Thread : pc[t] \in {"spin", "held", "store"}}

\* At most one thread is in the critical section or leaving it, also when more
\* threads than slots compete and tickets share a slot.
MutualExclusion == \A t, u \in Holders : t = u

\* The lock is FIFO: it serves the threads in the order of their fetch_add, and
\* a trylock succeeds only when nobody holds the lock or waits for it.
FL == INSTANCE FairLock WITH
        inside <- Inside,
        ahead <- [t \in Thread |->
                    IF t \in Inside
                    THEN {u \in Inside : ticket[u] < ticket[t]} ELSE {}],
        holder <- Holders

ImplementsFairLock == FL!Spec

\* Every call to lock() returns: the hand-over is never written to a slot the
\* thread that waits is not reading, nor overwritten before it is read.
LockReturns == \A t \in Thread : pc[t] = "spin" ~> pc[t] = "held"
=============================================================================
