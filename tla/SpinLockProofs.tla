--------------------------- MODULE SpinLockProofs ---------------------------
(***************************************************************************)
(* Proofs about SpinLock, for every number of threads, every size of the   *)
(* buffer (threads may outnumber the slots) and every number of tickets.   *)
(***************************************************************************)
EXTENDS SpinLock, TLAPS

(***************************************************************************)
(* The inductive invariant.                                                *)
(***************************************************************************)

\* The tickets of the threads inside are given out, distinct, and not yet
\* served but for the holder's.
TicketInv ==
    /\ next <= head
    /\ \A t \in Inside : ticket[t] < head
    /\ \A t, u \in Inside : t # u => ticket[t] # ticket[u]
    /\ \A t \in Thread : pc[t] = "spin" => ticket[t] >= next
    /\ \A t \in Thread : pc[t] = "held" => ticket[t] = next
    /\ \A t \in Thread : pc[t] = "store" => ticket[t] = next - 1

\* n was stored in the buffer: it is not beyond _next, nor equal to it while
\* the holder is between the increment of _next and its store.
Stored(n) == n <= next /\ \A t \in Thread : pc[t] = "store" => n < next

\* Every slot holds a ticket that was stored, and trylock goes on to its
\* exchange only with such a ticket.
BufferInv ==
    /\ \A i \in Slot : Stored(buffer[i])
    /\ \A t \in Thread : pc[t] = "cas" => Stored(ticket[t])

IInv == TypeOK /\ TicketInv /\ BufferInv /\ MutualExclusion

-----------------------------------------------------------------------------

\* Every ticket has a slot.
LEMMA SlotOfTicket == \A n \in Nat : SlotOf(n) \in Slot
  BY SpinLockAssumption DEF SlotOf, Slot

\* A thread that reads its ticket in its slot is the next to be served, and
\* nobody holds the lock.
LEMMA SpinEndsAlone ==
    ASSUME IInv, NEW t \in Thread, SpinEnds(t)
    PROVE  ticket[t] = next /\ Holders = {}
  <1>1. ticket[t] \in Nat /\ next \in Nat /\ Stored(ticket[t]) /\ ticket[t] >= next
    BY SlotOfTicket DEF IInv, TypeOK, BufferInv, TicketInv, SpinEnds
  <1>2. ticket[t] = next /\ \A u \in Thread : pc[u] # "store"
    BY <1>1 DEF Stored
  <1>3. \A u \in Thread : pc[u] # "held"
    BY <1>2 DEF IInv, TicketInv, SpinEnds, Inside
  <1>4. QED
    BY <1>2, <1>3 DEF Holders

\* A trylock whose exchange succeeds finds nobody inside.
LEMMA ExchangeAlone ==
    ASSUME IInv, NEW t \in Thread, pc[t] = "cas", head = ticket[t]
    PROVE  head = next /\ Inside = {}
  <1>1. head \in Nat /\ next \in Nat /\ next <= head /\ Stored(head)
    BY DEF IInv, TypeOK, BufferInv, TicketInv
  <1>2. head = next /\ \A u \in Thread : pc[u] # "store"
    BY <1>1 DEF Stored
  <1>3. \A u \in Thread : pc[u] # "spin" /\ pc[u] # "held"
    <2> SUFFICES ASSUME NEW u \in Thread, pc[u] \in {"spin", "held"} PROVE FALSE
      OBVIOUS
    <2>1. ticket[u] \in Nat /\ ticket[u] < head /\ ticket[u] >= next
      BY DEF IInv, TypeOK, TicketInv, Inside
    <2>2. QED
      BY <1>1, <1>2, <2>1
  <1>4. QED
    BY <1>2, <1>3 DEF Inside

-----------------------------------------------------------------------------

\* A lock as the constructor leaves it: slot 0 already holds ticket 0.
LEMMA InitIInv == Init => IInv
  BY SpinLockAssumption
  DEF Init, IInv, TypeOK, TicketInv, BufferInv, Stored, MutualExclusion, Holders,
      Inside, Slot

\* Every step keeps the inductive invariant.
LEMMA StepIInv == IInv /\ [Next]_vars => IInv'
  <1> SUFFICES ASSUME IInv, [Next]_vars PROVE IInv'
    OBVIOUS
  <1> USE DEF Goto
  <1>0. TypeOK /\ TicketInv /\ BufferInv /\ MutualExclusion
    BY DEF IInv
  <1>1. ASSUME NEW t \in Thread, lock(t) PROVE IInv'
    <2>1. TypeOK'
      BY <1>0, <1>1, SpinLockAssumption DEF TypeOK, lock
    <2>2. TicketInv'
      BY <1>0, <1>1 DEF TypeOK, lock, TicketInv, Inside
    <2>3. BufferInv' /\ MutualExclusion'
      BY <1>0, <1>1 DEF TypeOK, lock, BufferInv, Stored, MutualExclusion, Holders
    <2>4. QED
      BY <2>1, <2>2, <2>3 DEF IInv
  <1>2. ASSUME NEW t \in Thread, SpinEnds(t) PROVE IInv'
    <2>0. ticket[t] = next /\ Holders = {}
      BY <1>2, SpinEndsAlone
    <2>1. TypeOK'
      BY <1>0, <1>2 DEF TypeOK, SpinEnds
    <2>2. TicketInv'
      BY <1>0, <1>2, <2>0 DEF TypeOK, SpinEnds, TicketInv, Inside
    <2>3. BufferInv' /\ MutualExclusion'
      BY <1>0, <1>2, <2>0 DEF TypeOK, SpinEnds, BufferInv, Stored, MutualExclusion, Holders
    <2>4. QED
      BY <2>1, <2>2, <2>3 DEF IInv
  <1>3. ASSUME NEW t \in Thread, trylock(t) PROVE IInv'
    <2>1. TypeOK' /\ TicketInv'
      BY <1>0, <1>3 DEF TypeOK, trylock, TicketInv, Inside
    <2>2. BufferInv' /\ MutualExclusion'
      BY <1>0, <1>3 DEF TypeOK, trylock, BufferInv, Stored, MutualExclusion, Holders
    <2>3. QED
      BY <2>1, <2>2 DEF IInv
  <1>4. ASSUME NEW t \in Thread, TryCheck(t) PROVE IInv'
    <2>1. TypeOK' /\ TicketInv'
      BY <1>0, <1>4 DEF TypeOK, TryCheck, TicketInv, Inside
    <2>2. MutualExclusion'
      BY <1>0, <1>4 DEF TypeOK, TryCheck, MutualExclusion, Holders
    <2>3. pc'[t] = "cas" => Stored(ticket[t])
      BY <1>0, <1>4, SlotOfTicket DEF TypeOK, TryCheck, BufferInv
    <2>4. \A n : Stored(n) => Stored(n)'
      BY <1>0, <1>4 DEF TypeOK, TryCheck, Stored
    <2>5. BufferInv'
      BY <1>0, <1>4, <2>3, <2>4 DEF TypeOK, TryCheck, BufferInv
    <2>6. QED
      BY <2>1, <2>2, <2>5 DEF IInv
  <1>5. ASSUME NEW t \in Thread, TryExchange(t), head = ticket[t] PROVE IInv'
    <2>0. head = next /\ \A u \in Thread : pc[u] \notin {"spin", "held", "store"}
      BY <1>5, ExchangeAlone DEF TryExchange, Inside
    <2>1. /\ pc' = [pc EXCEPT ![t] = "held"] /\ head' = head + 1 /\ head < MaxTickets
          /\ UNCHANGED <<buffer, next, ticket>>
      BY <1>5 DEF TryExchange
    <2>2. TypeOK'
      BY <1>0, <2>1, SpinLockAssumption DEF TypeOK
    <2>3. Inside' = {t}
      BY <1>0, <2>0, <2>1 DEF TypeOK, Inside
    <2>4. TicketInv'
      <3>1. \A u \in Thread : u # t => pc'[u] \notin {"spin", "held", "store"}
        BY <1>0, <2>0, <2>1 DEF TypeOK
      <3>2. next \in Nat
        BY <1>0, SpinLockAssumption DEF TypeOK
      <3>3. next' = next /\ head' = next + 1 /\ ticket'[t] = next
        BY <1>5, <2>0, <2>1
      <3>4. pc'[t] = "held"
        BY <1>0, <2>1 DEF TypeOK
      <3>5. QED
        BY <2>3, <3>1, <3>2, <3>3, <3>4 DEF TicketInv
    <2>5. BufferInv' /\ MutualExclusion'
      BY <1>0, <2>0, <2>1 DEF TypeOK, BufferInv, Stored, MutualExclusion, Holders
    <2>6. QED
      BY <2>2, <2>4, <2>5 DEF IInv
  <1>6. ASSUME NEW t \in Thread, TryExchange(t), head # ticket[t] PROVE IInv'
    <2>1. TypeOK' /\ TicketInv'
      BY <1>0, <1>6 DEF TypeOK, TryExchange, TicketInv, Inside
    <2>2. BufferInv' /\ MutualExclusion'
      BY <1>0, <1>6 DEF TypeOK, TryExchange, BufferInv, Stored, MutualExclusion, Holders
    <2>3. QED
      BY <2>1, <2>2 DEF IInv
  <1>7. ASSUME NEW t \in Thread, unlock(t) PROVE IInv'
    <2>0. \A u \in Thread : u # t => pc[u] \notin {"held", "store"}
      BY <1>0, <1>7 DEF unlock, MutualExclusion, Holders
    <2>1. TypeOK'
      <3>1. next < head
        BY <1>0, <1>7 DEF TicketInv, unlock, Inside
      <3>2. QED
        BY <1>0, <1>7, <3>1, SpinLockAssumption DEF TypeOK, unlock
    <2>2. TicketInv'
      BY <1>0, <1>7, <2>0 DEF TypeOK, unlock, TicketInv, Inside
    <2>3. BufferInv' /\ MutualExclusion'
      BY <1>0, <1>7, <2>0 DEF TypeOK, unlock, BufferInv, Stored, MutualExclusion, Holders
    <2>4. QED
      BY <2>1, <2>2, <2>3 DEF IInv
  <1>8. ASSUME NEW t \in Thread, HandOver(t) PROVE IInv'
    <2>0. \A u \in Thread : u # t => pc[u] \notin {"held", "store"}
      BY <1>0, <1>8 DEF HandOver, NextSlot, MutualExclusion, Holders
    <2>1. TypeOK' /\ TicketInv'
      BY <1>0, <1>8, SlotOfTicket DEF TypeOK, HandOver, NextSlot, TicketInv, Inside
    <2>2. BufferInv' /\ MutualExclusion'
      BY <1>0, <1>8, <2>0, SlotOfTicket
      DEF TypeOK, HandOver, NextSlot, BufferInv, Stored, MutualExclusion, Holders
    <2>3. QED
      BY <2>1, <2>2 DEF IInv
  <1>9. CASE UNCHANGED vars
    BY <1>0, <1>9
    DEF vars, IInv, TypeOK, TicketInv, BufferInv, Stored, MutualExclusion, Holders, Inside
  <1>10. QED
    BY <1>1, <1>2, <1>3, <1>4, <1>5, <1>6, <1>7, <1>8, <1>9 DEF Next

\* The inductive invariant holds in every state of every execution.
THEOREM Invariance == Spec => []IInv
  BY InitIInv, StepIInv, PTL DEF Spec

\* Tickets, slots and the threads' places stay in their ranges: _next never
\* passes _head, and every slot of the buffer holds a ticket.
THEOREM TypeCorrect == Spec => []TypeOK
  <1>1. IInv => TypeOK
    BY DEF IInv
  <1>2. QED
    BY <1>1, Invariance, PTL

\* At most one thread is between the end of its lock() or successful trylock()
\* and the store of its unlock().
THEOREM MutexCorrect == Spec => []MutualExclusion
  <1>1. IInv => MutualExclusion
    BY DEF IInv
  <1>2. QED
    BY <1>1, Invariance, PTL

-----------------------------------------------------------------------------

(***************************************************************************)
(* SpinLock implements FairLock.                                           *)
(***************************************************************************)

\* Every step is a step of FairLock or leaves its variables alone.
LEMMA RefinementStep == IInv /\ [Next]_vars => [FL!Next]_(FL!vars)
  <1> DEFINE Ahead == [t \in Thread |->
                         IF t \in Inside
                         THEN {u \in Inside : ticket[u] < ticket[t]} ELSE {}]
             Unmoved == Inside' = Inside /\ Holders' = Holders /\ Ahead' = Ahead
  <1> SUFFICES ASSUME IInv, [Next]_vars PROVE FL!Next \/ Unmoved
    BY DEF FL!vars
  <1> USE DEF Goto
  <1>0. TypeOK /\ TicketInv /\ BufferInv /\ MutualExclusion
    BY DEF IInv
  <1>1. ASSUME NEW t \in Thread, lock(t) PROVE FL!Next
    <2>1. t \notin Inside /\ Inside' = Inside \cup {t} /\ Holders' = Holders
      BY <1>0, <1>1 DEF lock, TypeOK, Inside, Holders
    <2>2. Ahead' = [Ahead EXCEPT ![t] = Inside]
      <3>1. \A u \in Inside : ticket'[u] = ticket[u] /\ ticket[u] < head /\ u # t
        BY <1>0, <1>1, <2>1 DEF lock, TypeOK, TicketInv, Inside
      <3>2. ticket'[t] = head /\ \A u \in Inside : ticket[u] \in Nat
        BY <1>0, <1>1 DEF lock, TypeOK, Inside
      <3>3. {u \in Inside' : ticket'[u] < ticket'[t]} = Inside
        BY <1>0, <2>1, <3>1, <3>2 DEF TypeOK
      <3>4. ASSUME NEW v \in Inside
            PROVE  {u \in Inside' : ticket'[u] < ticket'[v]} =
                   {u \in Inside : ticket[u] < ticket[v]}
        BY <1>0, <2>1, <3>1, <3>2 DEF TypeOK
      <3>5. QED
        BY <2>1, <3>3, <3>4
    <2>3. FL!Arrive(t)
      BY <2>1, <2>2 DEF FL!Arrive
    <2>4. QED
      BY <2>3 DEF FL!Next
  <1>2. ASSUME NEW t \in Thread, SpinEnds(t) PROVE FL!Next
    <2>0. ticket[t] = next /\ Holders = {}
      BY <1>2, SpinEndsAlone
    <2>1. t \in Inside /\ Inside' = Inside /\ Holders' = {t} /\ Ahead' = Ahead
      BY <1>0, <1>2, <2>0 DEF SpinEnds, TypeOK, Inside, Holders
    <2>2. \A u \in Inside : ~(ticket[u] < ticket[t])
      BY <1>0, <2>0 DEF TypeOK, TicketInv, Inside, Holders
    <2>3. Ahead[t] = {}
      BY <2>1, <2>2 DEF Inside
    <2>4. FL!Acquire(t)
      BY <2>0, <2>1, <2>3 DEF FL!Acquire
    <2>5. QED
      BY <2>4 DEF FL!Next
  <1>3. ASSUME NEW t \in Thread, trylock(t) \/ TryCheck(t) PROVE Unmoved
    <2>1. Inside' = Inside /\ Holders' = Holders
      BY <1>0, <1>3 DEF trylock, TryCheck, TypeOK, Inside, Holders
    <2>2. \A u \in Inside : ticket'[u] = ticket[u]
      BY <1>0, <1>3 DEF trylock, TryCheck, TypeOK, Inside
    <2>3. QED
      BY <2>1, <2>2
  <1>4. ASSUME NEW t \in Thread, TryExchange(t), head = ticket[t] PROVE FL!Next
    <2>0. Inside = {}
      BY <1>4, ExchangeAlone DEF TryExchange
    <2>1. Inside' = {t} /\ Holders' = {t}
      BY <1>0, <1>4, <2>0 DEF TryExchange, TypeOK, Inside, Holders
    <2>2. ~(ticket'[t] < ticket'[t])
      BY <1>0, <1>4 DEF TryExchange, TypeOK
    <2>3. Ahead' = Ahead
      BY <2>0, <2>1, <2>2
    <2>4. FL!TryAcquire(t)
      BY <2>0, <2>1, <2>3 DEF FL!TryAcquire
    <2>5. QED
      BY <2>4 DEF FL!Next
  <1>5. ASSUME NEW t \in Thread, TryExchange(t), head # ticket[t] PROVE Unmoved
    BY <1>0, <1>5 DEF TryExchange, TypeOK, Inside, Holders
  <1>6. ASSUME NEW t \in Thread, unlock(t) PROVE Unmoved
    BY <1>0, <1>6 DEF unlock, TypeOK, Inside, Holders
  <1>7. ASSUME NEW t \in Thread, HandOver(t) PROVE FL!Next
    <2>1. Holders = {t} /\ Holders' = {} /\ Inside' = Inside \ {t}
      BY <1>0, <1>7 DEF HandOver, NextSlot, TypeOK, MutualExclusion, Holders, Inside
    <2>2. ticket' = ticket
      BY <1>7 DEF HandOver, NextSlot
    <2>3. {u \in Inside : ticket[u] < ticket[t]} = {}
      <3>1. ticket[t] = next - 1
        BY <1>0, <1>7 DEF HandOver, NextSlot, TicketInv
      <3>2. \A u \in Inside : u # t => ticket[u] >= next
        BY <1>0, <2>1 DEF TicketInv, Inside, Holders
      <3>3. QED
        BY <1>0, <3>1, <3>2 DEF TypeOK, Inside
    <2>4. Ahead' = [u \in Thread |-> Ahead[u] \ {t}]
      BY <2>1, <2>2, <2>3
    <2>5. FL!Release(t)
      BY <2>1, <2>4 DEF FL!Release
    <2>6. QED
      BY <2>5 DEF FL!Next
  <1>8. CASE UNCHANGED vars
    BY <1>8 DEF vars, Inside, Holders
  <1>9. QED
    BY <1>1, <1>2, <1>3, <1>4, <1>5, <1>6, <1>7, <1>8 DEF Next

\* lock(), trylock() and unlock() give the lock to one thread at a time and in
\* the order of the tickets: SpinLock implements FairLock.
THEOREM Fifo == Spec => ImplementsFairLock
  <1>1. Init => FL!Init
    BY DEF Init, FL!Init, Inside, Holders
  <1>2. QED
    BY <1>1, RefinementStep, Invariance, PTL DEF Spec, ImplementsFairLock, FL!Spec
=============================================================================
