---------------------- MODULE MPSCLockFreeQueueProofs -----------------------
(***************************************************************************)
(* Proofs about MPSCLockFreeQueue, for every number of producers, every    *)
(* capacity and every number of objects enqueued.                          *)
(***************************************************************************)
EXTENDS MPSCLockFreeQueue, FiniteSetTheorems, SequenceTheorems, TLAPS

(***************************************************************************)
(* The inductive invariant.                                                *)
(***************************************************************************)

\* The dequeue that has taken its object and not decremented _count yet.
Unreleased == IF cpc = "count" THEN 1 ELSE 0

\* The reservations that found room never exceed the entries.
ReserveInv ==
    /\ CountExact
    /\ head + Cardinality(At("position")) <= MaxEnqueues
    /\ (head - taken) + Cardinality(At("position")) + Unreleased <= Capacity

\* _tail is the entry of the oldest position; the producers that are about to
\* store have distinct positions that were given and not dequeued.
PositionInv ==
    /\ taken <= head
    /\ tail = taken % Capacity
    /\ \A p \in At("store") : taken <= pos[p] /\ pos[p] < head
    /\ \A p, q \in At("store") : pos[p] = pos[q] => p = q

\* A position that was given and not dequeued has an object in its entry or a
\* producer that brings it; every other entry is empty.
EntryInv ==
    /\ \A p \in Producer : pc[p] \in {"position", "store"} => obj[p] \in Value
    /\ \A n \in taken .. head - 1 :
        buffer[n % Capacity] = Nil <=> \E p \in At("store") : pos[p] = n
    /\ \A i \in Slot : buffer[i] # Nil => \E n \in taken .. head - 1 : n % Capacity = i

IInv == TypeOK /\ ReserveInv /\ PositionInv /\ EntryInv

-----------------------------------------------------------------------------

(***************************************************************************)
(* Arithmetic: positions less than a capacity apart have distinct entries, *)
(* and the entries of consecutive positions follow one another.            *)
(***************************************************************************)

\* The remainder of a position, with its quotient.
LEMMA DivMod ==
    ASSUME NEW C \in Nat \ {0}, NEW n \in Nat
    PROVE  \E q \in Nat, r \in 0 .. C - 1 : n = C * q + r /\ n % C = r
  <1>1. n = C * (n \div C) + (n % C) /\ n \div C \in Nat /\ n % C \in 0 .. C - 1
    OBVIOUS
  <1>2. QED
    BY <1>1, Zenon

\* Multiples of a capacity are at least a capacity apart.
LEMMA MultiplesApart ==
    ASSUME NEW C \in Nat \ {0}, NEW a \in Int, NEW b \in Int, a < b
    PROVE  C * a + C <= C * b
  <1>1. C * b = C * a + C * (b - a)
    OBVIOUS
  <1>2. C * (b - a) >= C
    OBVIOUS
  <1>3. QED
    BY <1>1, <1>2

\* Quotient and remainder are unique.
LEMMA DivUnique ==
    ASSUME NEW C \in Nat \ {0}, NEW q \in Int, NEW p \in Int,
           NEW r \in 0 .. C - 1, NEW s \in 0 .. C - 1,
           C * q + r = C * p + s
    PROVE  q = p /\ r = s
  <1>1. CASE q < p
    BY <1>1, MultiplesApart
  <1>2. CASE p < q
    BY <1>2, MultiplesApart
  <1>3. QED
    BY <1>1, <1>2

\* Positions less than a capacity apart have distinct entries.
LEMMA EntriesDistinct ==
    ASSUME NEW C \in Nat \ {0}, NEW n \in Nat, NEW m \in Nat, n < m, m < n + C
    PROVE  n % C # m % C
  <1>1. PICK q \in Nat, r \in 0 .. C - 1 : n = C * q + r /\ n % C = r
    BY DivMod
  <1>2. PICK p \in Nat, s \in 0 .. C - 1 : m = C * p + s /\ m % C = s
    BY DivMod
  <1>3. r # s
    <2> SUFFICES ASSUME r = s PROVE FALSE
      OBVIOUS
    <2>1. n = C * q + r /\ m = C * p + r
      BY <1>1, <1>2
    <2>2. CASE q = p
      BY <2>1, <2>2
    <2>3. CASE q < p
      <3>1. C * q + C <= C * p
        BY <2>3, MultiplesApart
      <3>2. QED
        BY <2>1, <3>1
    <2>4. CASE p < q
      <3>1. C * p + C <= C * q
        BY <2>4, MultiplesApart
      <3>2. QED
        BY <2>1, <3>1
    <2>5. QED
      BY <2>2, <2>3, <2>4
  <1>4. QED
    BY <1>1, <1>2, <1>3, Zenon

\* The entry of the next position, as dequeue computes it.
LEMMA EntryNext ==
    ASSUME NEW C \in Nat \ {0}, NEW n \in Nat
    PROVE  (n + 1) % C = IF (n % C) + 1 >= C THEN 0 ELSE (n % C) + 1
  <1>1. PICK q \in Nat, r \in 0 .. C - 1 : n = C * q + r /\ n % C = r
    BY DivMod
  <1>2. PICK p \in Nat, s \in 0 .. C - 1 : n + 1 = C * p + s /\ (n + 1) % C = s
    <2>1. n + 1 \in Nat
      OBVIOUS
    <2>2. QED
      BY <2>1, DivMod
  <1>3. s = IF r + 1 >= C THEN 0 ELSE r + 1
    <2>1. n = C * q + r /\ n + 1 = C * p + s
      BY <1>1, <1>2
    <2>2. CASE r + 1 < C
      <3>1. C * q + (r + 1) = C * p + s
        BY <2>1
      <3>2. QED
        BY <2>2, <3>1, DivUnique
    <2>3. CASE r + 1 = C
      <3>1. C * (q + 1) + 0 = C * p + s
        BY <2>1, <2>3
      <3>2. s = 0
        BY <2>3, <3>1, DivUnique
      <3>3. QED
        BY <2>3, <3>2
    <2>4. QED
      BY <2>2, <2>3
  <1>4. QED
    BY <1>1, <1>2, <1>3, Zenon

\* Every position has an entry.
LEMMA EntryOfPosition == \A n \in Nat : n % Capacity \in Slot
  BY MPSCAssumption DEF Slot

-----------------------------------------------------------------------------

\* Sets of producers are finite, and one more or less changes their number by
\* one.
LEMMA ProducersCounted ==
    /\ Cardinality(Producer) \in Nat
    /\ \A S \in SUBSET Producer :
        /\ Cardinality(S) \in Nat /\ Cardinality(S) <= Cardinality(Producer)
        /\ \A p \in Producer \ S : Cardinality(S \cup {p}) = Cardinality(S) + 1
        /\ \A p \in S : Cardinality(S \ {p}) = Cardinality(S) - 1
                        /\ Cardinality(S) > 0
  <1>1. IsFiniteSet(Producer) /\ Cardinality(Producer) \in Nat
    BY MPSCAssumption, FS_CardinalityType
  <1>2. ASSUME NEW S \in SUBSET Producer
        PROVE  /\ IsFiniteSet(S) /\ Cardinality(S) \in Nat
               /\ Cardinality(S) <= Cardinality(Producer)
    BY <1>1, FS_Subset, FS_CardinalityType
  <1>3. ASSUME NEW S \in SUBSET Producer, NEW p \in Producer \ S
        PROVE  Cardinality(S \cup {p}) = Cardinality(S) + 1
    BY <1>2, FS_AddElement
  <1>4. ASSUME NEW S \in SUBSET Producer, NEW p \in S
        PROVE  Cardinality(S \ {p}) = Cardinality(S) - 1 /\ Cardinality(S) > 0
    <2>1. IsFiniteSet(S \ {p}) /\ Cardinality(S \ {p}) = Cardinality(S) - 1
      BY <1>2, FS_RemoveElement
    <2>2. Cardinality(S \ {p}) \in Nat
      BY <2>1, FS_CardinalityType
    <2>3. QED
      BY <1>2, <2>1, <2>2
  <1>5. QED
    BY <1>1, <1>2, <1>3, <1>4

\* _count (n), for h positions given, d objects dequeued and the producers P
\* and B, exceeds the capacity by at most the producers that back off.
LEMMA CountInRange ==
    ASSUME NEW h \in Nat, NEW d \in Nat, NEW u \in {0, 1}, NEW n,
           NEW P \in SUBSET Producer, NEW B \in SUBSET Producer, d <= h,
           n = (h - d) + Cardinality(P \cup B) + u,
           (h - d) + Cardinality(P) + u <= Capacity
    PROVE  n \in 0 .. Capacity + Cardinality(Producer)
  <1>1. IsFiniteSet(P) /\ IsFiniteSet(B) /\ IsFiniteSet(P \cap B)
    BY MPSCAssumption, FS_Subset
  <1>2. Cardinality(P \cup B) = Cardinality(P) + Cardinality(B) - Cardinality(P \cap B)
    BY <1>1, FS_Union
  <1>3. /\ Cardinality(P \cup B) \in Nat /\ Cardinality(P \cap B) \in Nat
        /\ Cardinality(P) \in Nat /\ Cardinality(B) \in Nat
        /\ Cardinality(B) <= Cardinality(Producer) /\ Cardinality(Producer) \in Nat
    <2>1. P \cup B \in SUBSET Producer /\ P \cap B \in SUBSET Producer
      OBVIOUS
    <2>2. QED
      BY <2>1, ProducersCounted
  <1>4. QED
    BY <1>2, <1>3, MPSCAssumption

-----------------------------------------------------------------------------

\* An empty queue with no call in progress.
LEMMA InitIInv == Init => IInv
  <1> SUFFICES ASSUME Init PROVE IInv
    OBVIOUS
  <1>1. /\ At("position") = {} /\ At("position") \cup At("backoff") = {}
        /\ At("store") = {}
    BY DEF Init, At
  <1>2. Cardinality({}) = 0 /\ Cardinality(Producer) \in Nat
    BY FS_EmptySet, ProducersCounted
  <1>3. TypeOK
    BY <1>2, MPSCAssumption DEF Init, TypeOK, Slot
  <1>4. ReserveInv
    BY <1>1, <1>2, MPSCAssumption DEF Init, ReserveInv, CountExact, Unreleased
  <1>5. PositionInv
    BY <1>1, MPSCAssumption DEF Init, PositionInv
  <1>6. EntryInv
    BY <1>1, MPSCAssumption DEF Init, EntryInv
  <1>7. QED
    BY <1>3, <1>4, <1>5, <1>6 DEF IInv

\* The entry a producer is given is empty, and no other position in use shares
\* it.
LEMMA EntryGiven ==
    ASSUME IInv, NEW p \in At("position")
    PROVE  /\ head < MaxEnqueues /\ head - taken < Capacity
           /\ buffer[head % Capacity] = Nil
           /\ \A n \in taken .. head - 1 : n % Capacity # head % Capacity
  <1>1. /\ head \in Nat /\ taken \in Nat /\ taken <= head /\ Unreleased \in {0, 1}
        /\ Capacity \in Nat \ {0} /\ MaxEnqueues \in Nat
    BY MPSCAssumption DEF IInv, TypeOK, PositionInv, Unreleased
  <1>2. Cardinality(At("position")) \in Nat /\ Cardinality(At("position")) > 0
    <2>1. At("position") \in SUBSET Producer
      BY DEF At
    <2>2. QED
      BY <2>1, ProducersCounted
  <1>3. head < MaxEnqueues /\ head - taken < Capacity
    BY <1>1, <1>2 DEF IInv, ReserveInv
  <1>4. ASSUME NEW n \in taken .. head - 1 PROVE n % Capacity # head % Capacity
    <2>1. n \in Nat /\ n < head /\ head < n + Capacity
      BY <1>1, <1>3
    <2>2. QED
      BY <1>1, <2>1, EntriesDistinct, Zenon
  <1>5. buffer[head % Capacity] = Nil
    BY <1>1, <1>4, EntryOfPosition DEF IInv, EntryInv
  <1>6. QED
    BY <1>3, <1>4, <1>5

\* Positions in use have distinct entries.
LEMMA UsedDistinct ==
    ASSUME IInv
    PROVE  /\ head - taken <= Capacity
           /\ \A n, m \in taken .. head - 1 : n # m => n % Capacity # m % Capacity
  <1>1. /\ head \in Nat /\ taken \in Nat /\ taken <= head /\ Unreleased \in {0, 1}
        /\ Capacity \in Nat \ {0}
    BY MPSCAssumption DEF IInv, TypeOK, PositionInv, Unreleased
  <1>2. Cardinality(At("position")) \in Nat
    <2>1. At("position") \in SUBSET Producer
      BY DEF At
    <2>2. QED
      BY <2>1, ProducersCounted
  <1>3. head - taken <= Capacity
    BY <1>1, <1>2 DEF IInv, ReserveInv
  <1>4. ASSUME NEW n \in taken .. head - 1, NEW m \in taken .. head - 1, n # m
        PROVE  n % Capacity # m % Capacity
    <2>1. CASE n < m
      <3>1. n \in Nat /\ m \in Nat /\ m < n + Capacity
        BY <1>1, <1>3
      <3>2. QED
        BY <1>1, <2>1, <3>1, EntriesDistinct, Zenon
    <2>2. CASE m < n
      <3>1. n \in Nat /\ m \in Nat /\ n < m + Capacity
        BY <1>1, <1>3
      <3>2. m % Capacity # n % Capacity
        BY <1>1, <2>2, <3>1, EntriesDistinct, Zenon
      <3>3. QED
        BY <3>2
    <2>3. QED
      BY <1>1, <1>4, <2>1, <2>2
  <1>5. QED
    BY <1>3, <1>4

\* An object that dequeue takes is the one of the oldest position.
LEMMA OldestStored ==
    ASSUME IInv, Present
    PROVE  /\ taken < head /\ buffer[taken % Capacity] # Nil
           /\ \A p \in At("store") : pos[p] # taken
  <1>1. head \in Nat /\ taken \in Nat /\ taken <= head /\ tail = taken % Capacity
    BY MPSCAssumption DEF IInv, TypeOK, PositionInv
  <1>2. tail \in Slot /\ buffer[tail] # Nil
    BY DEF IInv, TypeOK, Present
  <1>3. taken < head
    BY <1>1, <1>2 DEF IInv, EntryInv
  <1>4. QED
    BY <1>1, <1>2, <1>3 DEF IInv, EntryInv

-----------------------------------------------------------------------------

\* Every step keeps the inductive invariant.
LEMMA StepIInv == IInv /\ [Next]_vars => IInv'
  <1> SUFFICES ASSUME IInv, [Next]_vars PROVE IInv'
    OBVIOUS
  <1> USE DEF Goto
  <1>0. TypeOK /\ ReserveInv /\ PositionInv /\ EntryInv
    BY DEF IInv
  <1>A. /\ head \in Nat /\ taken \in Nat /\ count \in Nat /\ Unreleased \in {0, 1}
        /\ Capacity \in Nat \ {0} /\ MaxEnqueues \in Nat
        /\ \A p \in Producer : pos[p] \in Nat
    BY <1>0, MPSCAssumption, ProducersCounted DEF TypeOK, Unreleased
  <1>B. \A place : At(place) \in SUBSET Producer /\ At(place)' \in SUBSET Producer
    BY DEF At
  <1>C. /\ Cardinality(At("position")) \in Nat
        /\ Cardinality(At("position") \cup At("backoff")) \in Nat
    BY <1>B, ProducersCounted
  <1>1. ASSUME NEW p \in Producer, NEW v \in Value, enqueue(p, v) PROVE IInv'
    <2>1. /\ pc' = [pc EXCEPT ![p] = IF IsFull THEN "backoff" ELSE "position"]
          /\ obj' = [obj EXCEPT ![p] = IF IsFull THEN Nil ELSE v]
          /\ count' = count + 1 /\ pc[p] = "idle"
          /\ head + Cardinality(At("position")) < MaxEnqueues
          /\ UNCHANGED <<head, tail, buffer, pos, cpc, ret, taken>>
      BY <1>1 DEF enqueue
    <2>2. p \notin At("position") \cup At("backoff") /\ At("store")' = At("store")
      BY <1>0, <2>1 DEF At, TypeOK
    <2>3. At("position")' = IF IsFull THEN At("position") ELSE At("position") \cup {p}
      BY <1>0, <2>1 DEF At, TypeOK
    <2>4. At("position")' \cup At("backoff")' = (At("position") \cup At("backoff")) \cup {p}
      BY <1>0, <2>1 DEF At, TypeOK
    <2>5. /\ Cardinality(At("position")' \cup At("backoff")')
                = Cardinality(At("position") \cup At("backoff")) + 1
          /\ Cardinality(At("position")) <= Cardinality(At("position") \cup At("backoff"))
          /\ ~IsFull => Cardinality(At("position")') = Cardinality(At("position")) + 1
      <3>1. p \notin At("position") /\ At("position") \cup At("backoff") \in SUBSET Producer
        BY <1>B, <2>2
      <3>2. Cardinality(At("position")) <= Cardinality(At("position") \cup At("backoff"))
        <4>1. IsFiniteSet(At("position") \cup At("backoff"))
          BY <3>1, FS_Subset, MPSCAssumption
        <4>2. QED
          BY <4>1, FS_Subset
      <3>3. QED
        BY <1>B, <2>2, <2>3, <2>4, <3>1, <3>2, ProducersCounted
    <2>6. ReserveInv'
      <3>1. CountExact'
        BY <1>0, <1>A, <1>C, <2>1, <2>5 DEF ReserveInv, CountExact
      <3>2. CASE IsFull
        BY <1>0, <2>1, <2>3, <3>1, <3>2 DEF ReserveInv, Unreleased
      <3>3. CASE ~IsFull
        <4>1. count < Capacity
          BY <1>A, <3>3 DEF IsFull
        <4>2. (head - taken) + Cardinality(At("position") \cup At("backoff")) + Unreleased < Capacity
          BY <1>0, <4>1 DEF ReserveInv, CountExact, Unreleased
        <4>3. QED
          BY <1>A, <1>C, <2>1, <2>5, <3>1, <3>3, <4>2 DEF ReserveInv, Unreleased
      <3>4. QED
        BY <3>2, <3>3
    <2>7. PositionInv'
      BY <1>0, <2>1, <2>2 DEF PositionInv
    <2>8. EntryInv'
      BY <1>0, <2>1, <2>2 DEF EntryInv, TypeOK
    <2>9. TypeOK'
      <3>1. count' \in 0 .. Capacity + Cardinality(Producer)
        <4>1. head' \in Nat /\ taken' \in Nat /\ taken' <= head' /\ Unreleased' \in {0, 1}
          BY <1>A, <2>1, <2>7 DEF PositionInv, Unreleased
        <4>2. /\ count' = (head' - taken') + Cardinality(At("position")' \cup At("backoff")')
                            + Unreleased'
              /\ (head' - taken') + Cardinality(At("position")') + Unreleased' <= Capacity
          BY <2>6 DEF ReserveInv, CountExact, Unreleased
        <4>3. QED
          BY <1>B, <4>1, <4>2, CountInRange, Zenon
      <3>2. QED
        BY <1>0, <2>1, <3>1 DEF TypeOK
    <2>10. QED
      BY <2>6, <2>7, <2>8, <2>9 DEF IInv
  <1>2. ASSUME NEW p \in Producer, BackOff(p) PROVE IInv'
    <2>1. /\ pc' = [pc EXCEPT ![p] = "idle"] /\ pc[p] = "backoff"
          /\ count' = count - 1
          /\ UNCHANGED <<head, tail, buffer, obj, pos, cpc, ret, taken>>
      BY <1>2 DEF BackOff, Undo
    <2>2. /\ p \in At("position") \cup At("backoff")
          /\ At("store")' = At("store") /\ At("position")' = At("position")
          /\ At("position")' \cup At("backoff")' = (At("position") \cup At("backoff")) \ {p}
      BY <1>0, <2>1 DEF At, TypeOK
    <2>3. Cardinality(At("position")' \cup At("backoff")')
            = Cardinality(At("position") \cup At("backoff")) - 1
      <3>1. At("position") \cup At("backoff") \in SUBSET Producer
        BY <1>B
      <3>2. QED
        BY <2>2, <3>1, ProducersCounted
    <2>4. ReserveInv'
      BY <1>0, <1>A, <1>C, <2>1, <2>2, <2>3 DEF ReserveInv, CountExact, Unreleased
    <2>5. PositionInv' /\ EntryInv'
      BY <1>0, <2>1, <2>2 DEF PositionInv, EntryInv, TypeOK
    <2>6. TypeOK'
      <3>1. count' \in 0 .. Capacity + Cardinality(Producer)
        <4>1. head' \in Nat /\ taken' \in Nat /\ taken' <= head' /\ Unreleased' \in {0, 1}
          BY <1>A, <2>1, <2>5 DEF PositionInv, Unreleased
        <4>2. /\ count' = (head' - taken') + Cardinality(At("position")' \cup At("backoff")')
                            + Unreleased'
              /\ (head' - taken') + Cardinality(At("position")') + Unreleased' <= Capacity
          BY <2>4 DEF ReserveInv, CountExact, Unreleased
        <4>3. QED
          BY <1>B, <4>1, <4>2, CountInRange, Zenon
      <3>2. QED
        BY <1>0, <2>1, <3>1 DEF TypeOK
    <2>7. QED
      BY <2>4, <2>5, <2>6 DEF IInv
  <1>3. ASSUME NEW p \in Producer, TakePosition(p) PROVE IInv'
    <2>1. /\ pc' = [pc EXCEPT ![p] = "store"] /\ pc[p] = "position"
          /\ pos' = [pos EXCEPT ![p] = head] /\ head' = head + 1
          /\ UNCHANGED <<count, tail, buffer, obj, cpc, ret, taken>>
      BY <1>3 DEF TakePosition
    <2>2. /\ p \in At("position") /\ p \notin At("store")
          /\ At("store")' = At("store") \cup {p}
          /\ At("position")' = At("position") \ {p}
          /\ At("position")' \cup At("backoff")' = (At("position") \cup At("backoff")) \ {p}
      BY <1>0, <2>1 DEF At, TypeOK
    <2>3. /\ head < MaxEnqueues /\ head - taken < Capacity
          /\ buffer[head % Capacity] = Nil
          /\ \A n \in taken .. head - 1 : n % Capacity # head % Capacity
      BY <2>2, EntryGiven
    <2>4. /\ Cardinality(At("position")' \cup At("backoff")')
                = Cardinality(At("position") \cup At("backoff")) - 1
          /\ Cardinality(At("position")') = Cardinality(At("position")) - 1
      <3>1. /\ At("position") \cup At("backoff") \in SUBSET Producer
            /\ p \in At("position") \cup At("backoff")
        BY <1>B, <2>2
      <3>2. QED
        BY <1>B, <2>2, <3>1, ProducersCounted
    <2>5. ReserveInv'
      <3>1. CountExact'
        BY <1>0, <1>A, <1>C, <2>1, <2>4 DEF ReserveInv, CountExact
      <3>2. QED
        BY <1>0, <1>A, <1>C, <2>1, <2>4, <3>1 DEF ReserveInv, Unreleased
    <2>6. PositionInv'
      <3>1. \A q \in At("store") : pos'[q] = pos[q] /\ pos[q] < head
        BY <1>0, <2>1, <2>2 DEF PositionInv, TypeOK, At
      <3>2. pos'[p] = head
        BY <1>0, <2>1 DEF TypeOK
      <3>3. taken' <= head' /\ tail' = taken' % Capacity
        BY <1>0, <1>A, <2>1 DEF PositionInv
      <3>4. \A q \in At("store")' : taken' <= pos'[q] /\ pos'[q] < head'
        BY <1>0, <1>A, <1>B, <2>1, <2>2, <3>1, <3>2 DEF PositionInv
      <3>5. \A q, r \in At("store")' : pos'[q] = pos'[r] => q = r
        BY <1>0, <1>A, <1>B, <2>1, <2>2, <3>1, <3>2 DEF PositionInv
      <3>6. QED
        BY <3>3, <3>4, <3>5 DEF PositionInv
    <2>7. EntryInv'
      <3>1. \A q \in Producer : pc'[q] \in {"position", "store"} => obj'[q] \in Value
        BY <1>0, <2>1 DEF EntryInv, TypeOK
      <3>2. ASSUME NEW n \in taken' .. head' - 1
            PROVE  buffer'[n % Capacity] = Nil <=> \E q \in At("store")' : pos'[q] = n
        <4>1. CASE n = head
          <5>1. pos'[p] = n /\ p \in At("store")'
            BY <1>0, <2>1, <2>2, <4>1 DEF TypeOK
          <5>2. QED
            BY <2>1, <2>3, <4>1, <5>1
        <4>2. CASE n # head
          <5>1. n \in taken .. head - 1
            BY <1>A, <2>1, <4>2
          <5>2. (\E q \in At("store")' : pos'[q] = n) <=> \E q \in At("store") : pos[q] = n
            BY <1>0, <2>1, <2>2, <4>2 DEF TypeOK, At
          <5>3. QED
            BY <1>0, <2>1, <5>1, <5>2 DEF EntryInv
        <4>3. QED
          BY <4>1, <4>2
      <3>3. taken .. head - 1 \subseteq taken' .. head' - 1
        BY <1>A, <2>1
      <3>4. \A i \in Slot : buffer'[i] # Nil => \E n \in taken' .. head' - 1 : n % Capacity = i
        BY <1>0, <2>1, <3>3, Zenon DEF EntryInv
      <3>5. QED
        BY <3>1, <3>2, <3>4 DEF EntryInv
    <2>8. TypeOK'
      <3>1. head + 1 \in 0 .. MaxEnqueues
        BY <1>A, <2>3
      <3>2. QED
        BY <1>0, <2>1, <3>1 DEF TypeOK
    <2>9. QED
      BY <2>5, <2>6, <2>7, <2>8 DEF IInv
  <1>4. ASSUME NEW p \in Producer, Store(p) PROVE IInv'
    <2> DEFINE e == pos[p] % Capacity
    <2>1. /\ pc' = [pc EXCEPT ![p] = "idle"] /\ pc[p] = "store"
          /\ buffer' = [buffer EXCEPT ![e] = obj[p]]
          /\ obj' = [obj EXCEPT ![p] = Nil] /\ pos' = [pos EXCEPT ![p] = 0]
          /\ UNCHANGED <<count, head, tail, cpc, ret, taken>>
      BY <1>4 DEF Store
    <2>2. /\ p \in At("store") /\ At("store")' = At("store") \ {p}
          /\ At("position")' = At("position") /\ At("backoff")' = At("backoff")
      BY <1>0, <2>1 DEF At, TypeOK
    <2>3. e \in Slot /\ obj[p] \in Value /\ obj[p] # Nil
          /\ pos[p] \in taken .. head - 1
      BY <1>0, <1>A, <2>1, <2>2, EntryOfPosition, MPSCAssumption DEF EntryInv, PositionInv
    <2>4. \A n \in taken .. head - 1 : n # pos[p] => n % Capacity # e
      BY <2>3, UsedDistinct
    <2> HIDE DEF e
    <2>5. ReserveInv'
      BY <1>0, <2>1, <2>2 DEF ReserveInv, CountExact, Unreleased
    <2>6. \A q \in At("store") \ {p} : pos'[q] = pos[q] /\ pos[q] # pos[p]
      BY <1>0, <2>1, <2>2 DEF PositionInv, TypeOK, At
    <2>7. PositionInv'
      BY <1>0, <2>1, <2>2, <2>6 DEF PositionInv
    <2>8. EntryInv'
      <3>1. \A q \in Producer : pc'[q] \in {"position", "store"} => obj'[q] \in Value
        BY <1>0, <2>1 DEF EntryInv, TypeOK
      <3>2. buffer'[e] = obj[p] /\ \A i \in Slot : i # e => buffer'[i] = buffer[i]
        BY <1>0, <2>1, <2>3 DEF TypeOK
      <3>3. ASSUME NEW n \in taken .. head - 1
            PROVE  buffer'[n % Capacity] = Nil <=> \E q \in At("store")' : pos'[q] = n
        <4>1. CASE n = pos[p]
          BY <2>2, <2>3, <2>6, <3>2, <4>1 DEF e
        <4>2. CASE n # pos[p]
          <5>1. n % Capacity \in Slot /\ n % Capacity # e
            BY <1>A, <2>4, <4>2, EntryOfPosition
          <5>2. (\E q \in At("store")' : pos'[q] = n) <=> \E q \in At("store") : pos[q] = n
            BY <2>2, <2>6, <4>2
          <5>3. QED
            BY <1>0, <3>2, <5>1, <5>2 DEF EntryInv
        <4>3. QED
          BY <4>1, <4>2
      <3>4. \A i \in Slot : buffer'[i] # Nil => \E n \in taken .. head - 1 : n % Capacity = i
        BY <1>0, <2>3, <3>2, Zenon DEF EntryInv, e
      <3>5. QED
        BY <2>1, <3>1, <3>3, <3>4 DEF EntryInv
    <2>9. TypeOK'
      BY <1>0, <1>A, <2>1, <2>3 DEF TypeOK
    <2>10. QED
      BY <2>5, <2>7, <2>8, <2>9 DEF IInv
  <1>5. ASSUME dequeue PROVE IInv'
    <2>1. /\ cpc = "idle" /\ cpc' = "count"
          /\ ret' = buffer[tail] /\ buffer' = [buffer EXCEPT ![tail] = Nil]
          /\ tail' = NextTail /\ taken' = taken + 1
          /\ UNCHANGED <<count, head, pc, obj, pos>>
      BY <1>5 DEF dequeue
    <2>2. /\ taken < head /\ buffer[taken % Capacity] # Nil
          /\ \A p \in At("store") : pos[p] # taken
      BY <1>5, OldestStored DEF dequeue
    <2>3. /\ At("position")' = At("position") /\ At("backoff")' = At("backoff")
          /\ At("store")' = At("store")
      BY <2>1 DEF At
    <2>4. ReserveInv'
      <3>1. CountExact'
        <4>1. Cardinality(At("position")' \cup At("backoff")')
                = Cardinality(At("position") \cup At("backoff"))
          BY <2>3
        <4>2. QED
          BY <1>0, <1>A, <1>C, <2>1, <4>1 DEF ReserveInv, CountExact
      <3>2. Unreleased = 0 /\ Unreleased' = 1
        BY <2>1 DEF Unreleased
      <3>3. QED
        BY <1>0, <1>A, <1>C, <2>1, <2>3, <3>1, <3>2 DEF ReserveInv
    <2>5. PositionInv'
      <3>1. tail' = (taken + 1) % Capacity
        <4>1. tail = taken % Capacity
          BY <1>0 DEF PositionInv
        <4>2. (taken + 1) % Capacity = IF tail + 1 >= Capacity THEN 0 ELSE tail + 1
          BY <1>A, <4>1, EntryNext, Zenon
        <4>3. QED
          BY <2>1, <4>2 DEF NextTail
      <3>2. taken' <= head'
        BY <1>A, <2>1, <2>2
      <3>3. \A p \in At("store") : taken + 1 <= pos[p]
        BY <1>0, <1>A, <1>B, <2>2 DEF PositionInv
      <3>4. QED
        BY <1>0, <2>1, <2>3, <3>1, <3>2, <3>3 DEF PositionInv
    <2>6. EntryInv'
      <3>1. tail \in Slot /\ tail = taken % Capacity
        BY <1>0 DEF TypeOK, PositionInv
      <3>2. buffer'[tail] = Nil /\ \A i \in Slot : i # tail => buffer'[i] = buffer[i]
        BY <1>0, <2>1, <3>1 DEF TypeOK
      <3>3. ASSUME NEW n \in taken' .. head' - 1
            PROVE  buffer'[n % Capacity] = Nil <=> \E q \in At("store")' : pos'[q] = n
        <4>1. n \in taken .. head - 1 /\ taken \in taken .. head - 1 /\ n # taken
          BY <1>A, <2>1, <2>2
        <4>2. n % Capacity \in Slot /\ n % Capacity # tail
          <5>1. n \in Nat
            BY <1>A, <4>1
          <5>2. n % Capacity # taken % Capacity
            BY <4>1, UsedDistinct, Zenon
          <5>3. QED
            BY <3>1, <5>1, <5>2, EntryOfPosition, Zenon
        <4>3. QED
          BY <1>0, <2>1, <2>3, <3>2, <4>1, <4>2 DEF EntryInv
      <3>4. ASSUME NEW i \in Slot, buffer'[i] # Nil
            PROVE  \E n \in taken' .. head' - 1 : n % Capacity = i
        <4>1. i # tail /\ buffer[i] # Nil
          BY <3>2, <3>4
        <4>2. PICK n \in taken .. head - 1 : n % Capacity = i
          BY <1>0, <4>1, Zenon DEF EntryInv
        <4>3. n # taken
          BY <3>1, <4>1, <4>2
        <4>4. n \in taken' .. head' - 1
          BY <1>A, <2>1, <4>3
        <4>5. QED
          BY <4>2, <4>4
      <3>5. QED
        BY <1>0, <2>1, <3>3, <3>4 DEF EntryInv
    <2>7. TypeOK'
      <3>1. taken + 1 \in 0 .. MaxEnqueues /\ NextTail \in Slot
        BY <1>0, <1>A, <2>2 DEF TypeOK, NextTail, Slot
      <3>2. QED
        BY <1>0, <2>1, <3>1 DEF TypeOK
    <2>8. QED
      BY <2>4, <2>5, <2>6, <2>7 DEF IInv
  <1>6. ASSUME Release PROVE IInv'
    <2>1. /\ cpc = "count" /\ cpc' = "idle" /\ count' = count - 1
          /\ UNCHANGED <<head, tail, buffer, pc, obj, pos, ret, taken>>
      BY <1>6 DEF Release
    <2>2. /\ At("position")' = At("position") /\ At("backoff")' = At("backoff")
          /\ At("store")' = At("store")
      BY <2>1 DEF At
    <2>3. ReserveInv'
      <3>1. CountExact'
        <4>1. Cardinality(At("position")' \cup At("backoff")')
                = Cardinality(At("position") \cup At("backoff"))
          BY <2>2
        <4>2. QED
          BY <1>0, <1>A, <1>C, <2>1, <4>1 DEF ReserveInv, CountExact
      <3>2. Unreleased = 1 /\ Unreleased' = 0
        BY <2>1 DEF Unreleased
      <3>3. QED
        BY <1>0, <1>A, <1>C, <2>1, <2>2, <3>1, <3>2 DEF ReserveInv
    <2>4. PositionInv' /\ EntryInv'
      BY <1>0, <2>1, <2>2 DEF PositionInv, EntryInv
    <2>5. TypeOK'
      <3>1. count' \in 0 .. Capacity + Cardinality(Producer)
        <4>1. head' \in Nat /\ taken' \in Nat /\ taken' <= head' /\ Unreleased' \in {0, 1}
          BY <1>A, <2>1, <2>4 DEF PositionInv, Unreleased
        <4>2. /\ count' = (head' - taken') + Cardinality(At("position")' \cup At("backoff")')
                            + Unreleased'
              /\ (head' - taken') + Cardinality(At("position")') + Unreleased' <= Capacity
          BY <2>3 DEF ReserveInv, CountExact, Unreleased
        <4>3. QED
          BY <1>B, <4>1, <4>2, CountInRange, Zenon
      <3>2. QED
        BY <1>0, <2>1, <3>1 DEF TypeOK
    <2>6. QED
      BY <2>3, <2>4, <2>5 DEF IInv
  <1>7. CASE UNCHANGED vars
    <2>1. \A place : At(place)' = At(place)
      BY <1>7 DEF At, vars
    <2>2. QED
      BY <1>0, <1>7, <2>1
      DEF vars, IInv, TypeOK, ReserveInv, CountExact, Unreleased, PositionInv, EntryInv
  <1>8. QED
    BY <1>1, <1>2, <1>3, <1>4, <1>5, <1>6, <1>7 DEF Next, Step, DequeueNothing

\* The inductive invariant holds in every state of every execution.
THEOREM Invariance == Spec => []IInv
  BY InitIInv, StepIInv, PTL DEF Spec

\* The variables stay in their ranges; _count is at most the capacity and one
\* more for each producer that backs off, and never negative.
THEOREM TypeCorrect == Spec => []TypeOK
  <1>1. IInv => TypeOK
    BY DEF IInv
  <1>2. QED
    BY <1>1, Invariance, PTL

\* A producer with a position has its entry for itself and finds it empty.
THEOREM ExclusiveEntry == Spec => []EntryExclusive
  <1>1. IInv => EntryExclusive
    <2> SUFFICES ASSUME IInv, NEW p \in At("store")
                 PROVE  /\ buffer[pos[p] % Capacity] = Nil
                        /\ \A q \in At("store") \ {p} :
                                pos[q] % Capacity # pos[p] % Capacity
      BY DEF EntryExclusive
    <2>1. \A q \in At("store") : pos[q] \in taken .. head - 1
      BY MPSCAssumption DEF IInv, TypeOK, PositionInv, At
    <2>2. buffer[pos[p] % Capacity] = Nil
      BY <2>1 DEF IInv, EntryInv
    <2>3. ASSUME NEW q \in At("store") \ {p}
          PROVE  pos[q] % Capacity # pos[p] % Capacity
      <3>1. pos[q] # pos[p]
        BY <2>3 DEF IInv, PositionInv
      <3>2. QED
        BY <2>1, <3>1, UsedDistinct
    <2>4. QED
      BY <2>2, <2>3
  <1>2. QED
    BY <1>1, Invariance, PTL

\* _count is exact: objects inside, reservations in progress, and the object
\* whose dequeue is not over.
THEOREM CountCorrect == Spec => []CountExact
  <1>1. IInv => CountExact
    BY DEF IInv, ReserveInv
  <1>2. QED
    BY <1>1, Invariance, PTL

-----------------------------------------------------------------------------

(***************************************************************************)
(* MPSCLockFreeQueue implements BoundedFIFO.                               *)
(***************************************************************************)

\* The objects inside, oldest position first.
Items == [i \in 1 .. head - taken |-> ObjectAt(taken + i - 1)]

\* They are a sequence of objects; the object of a position is the one its
\* producer is about to store, or the one in its entry.
ItemsKnown ==
    /\ Items \in Seq(Value) /\ Len(Items) = head - taken
    /\ \A i \in 1 .. head - taken : Items[i] = ObjectAt(taken + i - 1)
    /\ \A p \in At("store") : ObjectAt(pos[p]) = obj[p]
    /\ \A n \in taken .. head - 1 :
        (\A p \in At("store") : pos[p] # n) => ObjectAt(n) = buffer[n % Capacity]

\* The inductive invariant gives what the refinement mapping needs.
LEMMA ItemsFromIInv == IInv => ItemsKnown
  <1> SUFFICES ASSUME IInv PROVE ItemsKnown
    OBVIOUS
  <1>1. /\ head \in Nat /\ taken \in Nat /\ head - taken \in Nat
        /\ Capacity \in Nat \ {0}
    BY MPSCAssumption DEF IInv, TypeOK, PositionInv
  <1>2. ASSUME NEW n \in taken .. head - 1 PROVE ObjectAt(n) \in Value
    <2>1. CASE \E p \in At("store") : pos[p] = n
      BY <2>1 DEF ObjectAt, IInv, EntryInv, At
    <2>2. CASE ~\E p \in At("store") : pos[p] = n
      <3>1. n % Capacity \in Slot
        BY <1>1, EntryOfPosition
      <3>2. buffer[n % Capacity] # Nil
        BY <2>2 DEF IInv, EntryInv
      <3>3. QED
        BY <2>2, <3>1, <3>2 DEF ObjectAt, IInv, TypeOK
    <2>3. QED
      BY <2>1, <2>2
  <1>3. Items \in [1 .. head - taken -> Value]
    <2>1. \A i \in 1 .. head - taken : taken + i - 1 \in taken .. head - 1
      BY <1>1
    <2>2. QED
      BY <1>2, <2>1 DEF Items
  <1>4. /\ Items \in Seq(Value) /\ Len(Items) = head - taken
        /\ \A i \in 1 .. head - taken : Items[i] = ObjectAt(taken + i - 1)
    BY <1>1, <1>3 DEF Items
  <1>5. ASSUME NEW p \in At("store") PROVE ObjectAt(pos[p]) = obj[p]
    <2>1. (CHOOSE q \in At("store") : pos[q] = pos[p]) = p
      BY DEF IInv, PositionInv
    <2>2. QED
      BY <2>1 DEF ObjectAt
  <1>6. ASSUME NEW n \in taken .. head - 1, \A p \in At("store") : pos[p] # n
        PROVE  ObjectAt(n) = buffer[n % Capacity]
    BY <1>6 DEF ObjectAt
  <1>7. QED
    BY <1>4, <1>5, <1>6 DEF ItemsKnown

\* A step that gives no position and takes no object, and keeps the object of
\* each position, changes nothing in the abstract queue.
LEMMA ItemsUnchanged ==
    ASSUME head' = head, taken' = taken, head \in Nat, taken \in Nat,
           \A n \in taken .. head - 1 : ObjectAt(n)' = ObjectAt(n)
    PROVE  Items' = Items
  <1>1. \A i \in 1 .. head - taken : taken + i - 1 \in taken .. head - 1
    OBVIOUS
  <1>2. QED
    BY <1>1 DEF Items

\* Every step is a step of BoundedFIFO or leaves its variables alone.
LEMMA RefinementStep == IInv /\ IInv' /\ [Next]_vars => [FIFO!Next]_(FIFO!vars)
  <1> SUFFICES ASSUME IInv, IInv', [Next]_vars
               PROVE  FIFO!Next \/ (Items' = Items /\ ret' = ret)
    BY DEF FIFO!vars, Items
  <1> USE DEF Goto
  <1>0. TypeOK /\ ReserveInv /\ PositionInv /\ EntryInv
    BY DEF IInv
  <1>A. /\ head \in Nat /\ taken \in Nat /\ Capacity \in Nat \ {0}
        /\ \A p \in Producer : pos[p] \in Nat
    BY <1>0, MPSCAssumption DEF TypeOK
  <1>B. \A place : At(place) \in SUBSET Producer
    BY DEF At
  <1>K. ItemsKnown
    BY ItemsFromIInv
  <1>L. IInv' => ItemsKnown'
    BY ItemsFromIInv, PTL
  <1>M. ItemsKnown'
    BY <1>L
  <1>1. ASSUME NEW p \in Producer, NEW v \in Value, enqueue(p, v) PROVE Items' = Items
    <2>1. /\ At("store")' = At("store") /\ UNCHANGED <<head, taken, buffer, pos>>
          /\ \A q \in At("store") : obj'[q] = obj[q]
      BY <1>0, <1>1 DEF enqueue, At, TypeOK
    <2>2. \A n \in taken .. head - 1 : ObjectAt(n)' = ObjectAt(n)
      BY <1>K, <1>M, <2>1 DEF ItemsKnown
    <2>3. QED
      BY <1>A, <2>1, <2>2, ItemsUnchanged
  <1>2. ASSUME NEW p \in Producer, BackOff(p) PROVE Items' = Items
    <2>1. At("store")' = At("store") /\ UNCHANGED <<head, taken, buffer, pos, obj>>
      BY <1>0, <1>2 DEF BackOff, At, TypeOK
    <2>2. QED
      BY <2>1 DEF Items, ObjectAt
  <1>3. ASSUME NEW p \in Producer, TakePosition(p) PROVE FIFO!Put(obj[p]) /\ obj[p] \in Value
    <2>1. /\ pc' = [pc EXCEPT ![p] = "store"] /\ pc[p] = "position"
          /\ pos' = [pos EXCEPT ![p] = head] /\ head' = head + 1
          /\ UNCHANGED <<count, tail, buffer, obj, cpc, ret, taken>>
      BY <1>3 DEF TakePosition
    <2>2. /\ p \in At("position") /\ p \notin At("store") /\ p \in At("store")'
          /\ At("store")' = At("store") \cup {p}
      BY <1>0, <2>1 DEF At, TypeOK
    <2>3. head - taken < Capacity /\ obj[p] \in Value
      BY <1>0, <2>1, <2>2, EntryGiven DEF EntryInv
    <2>4. pos'[p] = head /\ \A q \in At("store") : pos'[q] = pos[q] /\ pos[q] < head
      BY <1>0, <1>B, <2>1, <2>2 DEF TypeOK, PositionInv
    <2>5. ASSUME NEW n, n = head PROVE ObjectAt(n)' = obj[p]
      <3>1. n = pos'[p] /\ obj'[p] = obj[p]
        BY <2>1, <2>4, <2>5
      <3>2. QED
        BY <1>M, <2>2, <3>1 DEF ItemsKnown
    <2>6. ASSUME NEW n \in taken .. head - 1 PROVE ObjectAt(n)' = ObjectAt(n)
      <3>1. n # head /\ n \in taken' .. head' - 1
        BY <1>A, <2>1
      <3>2. CASE \E q \in At("store") : pos[q] = n
        BY <1>K, <1>M, <2>1, <2>2, <2>4, <3>2 DEF ItemsKnown
      <3>3. CASE \A q \in At("store") : pos[q] # n
        <4>1. \A q \in At("store")' : pos'[q] # n
          BY <2>2, <2>4, <3>1, <3>3
        <4>2. QED
          BY <1>K, <1>M, <2>1, <3>1, <3>3, <4>1 DEF ItemsKnown
      <3>4. QED
        BY <3>2, <3>3
    <2>7. Items' = Append(Items, obj[p])
      <3>1. Append(Items, obj[p]) \in Seq(Value) /\ Items' \in Seq(Value)
        BY <1>K, <1>M, <2>3 DEF ItemsKnown
      <3>2. Len(Items') = head - taken + 1 /\ Len(Append(Items, obj[p])) = head - taken + 1
        BY <1>A, <1>K, <1>M, <2>1 DEF ItemsKnown
      <3>3. ASSUME NEW i \in 1 .. head - taken + 1
            PROVE  Items'[i] = Append(Items, obj[p])[i]
        <4>1. PICK n \in Nat : n = taken + i - 1
          BY <1>A
        <4>2. Items'[i] = ObjectAt(n)'
          BY <1>A, <1>M, <2>1, <4>1 DEF ItemsKnown
        <4>3. CASE i = head - taken + 1
          <5>1. n = head
            BY <1>A, <4>1, <4>3
          <5>2. Append(Items, obj[p])[i] = obj[p]
            <6>1. Items \in Seq(Value) /\ i = Len(Items) + 1
              BY <1>K, <4>3 DEF ItemsKnown
            <6>2. QED
              BY <2>3, <6>1, AppendProperties
          <5>3. QED
            BY <2>5, <4>2, <5>1, <5>2
        <4>4. CASE i # head - taken + 1
          <5>1. n \in taken .. head - 1 /\ i \in 1 .. head - taken
            BY <1>A, <4>1, <4>4
          <5>2. Append(Items, obj[p])[i] = ObjectAt(n)
            BY <1>A, <1>K, <2>3, <4>1, <5>1 DEF ItemsKnown
          <5>3. QED
            BY <2>6, <4>2, <5>1, <5>2
        <4>5. QED
          BY <4>3, <4>4
      <3>4. QED
        BY <3>1, <3>2, <3>3, SeqEqual
    <2>8. Len(Items) < Capacity
      BY <1>K, <2>3 DEF ItemsKnown
    <2>9. QED
      BY <2>1, <2>3, <2>7, <2>8 DEF FIFO!Put, Items
  <1>4. ASSUME NEW p \in Producer, Store(p) PROVE Items' = Items
    <2> DEFINE e == pos[p] % Capacity
    <2>1. /\ pc' = [pc EXCEPT ![p] = "idle"] /\ pc[p] = "store"
          /\ buffer' = [buffer EXCEPT ![e] = obj[p]]
          /\ obj' = [obj EXCEPT ![p] = Nil] /\ pos' = [pos EXCEPT ![p] = 0]
          /\ UNCHANGED <<head, taken>>
      BY <1>4 DEF Store
    <2>2. p \in At("store") /\ At("store")' = At("store") \ {p}
      BY <1>0, <2>1 DEF At, TypeOK
    <2>3. e \in Slot /\ pos[p] \in taken .. head - 1
      BY <1>0, <1>A, <2>2, EntryOfPosition DEF PositionInv
    <2>4. \A n \in taken .. head - 1 : n # pos[p] => n % Capacity # e
      BY <2>3, UsedDistinct
    <2>5. \A q \in At("store") \ {p} :
            pos'[q] = pos[q] /\ obj'[q] = obj[q] /\ pos[q] # pos[p]
      BY <1>0, <1>B, <2>1, <2>2 DEF PositionInv, TypeOK
    <2>6. buffer'[e] = obj[p] /\ \A i \in Slot : i # e => buffer'[i] = buffer[i]
      BY <1>0, <2>1, <2>3 DEF TypeOK
    <2>7. ASSUME NEW n \in taken .. head - 1 PROVE ObjectAt(n)' = ObjectAt(n)
      <3>1. CASE n = pos[p]
        <4>1. ObjectAt(n)' = buffer'[n % Capacity]
          BY <1>M, <2>1, <2>2, <2>5, <3>1 DEF ItemsKnown
        <4>2. QED
          BY <1>K, <2>2, <2>6, <3>1, <4>1 DEF ItemsKnown
      <3>2. CASE n # pos[p] /\ \E q \in At("store") : pos[q] = n
        BY <1>K, <1>M, <2>1, <2>2, <2>5, <3>2 DEF ItemsKnown
      <3>3. CASE n # pos[p] /\ \A q \in At("store") : pos[q] # n
        <4>1. n % Capacity \in Slot /\ n % Capacity # e
          BY <1>A, <2>4, <3>3, EntryOfPosition
        <4>2. ObjectAt(n)' = buffer'[n % Capacity]
          BY <1>M, <2>1, <2>2, <2>5, <3>3 DEF ItemsKnown
        <4>3. QED
          BY <1>K, <2>6, <3>3, <4>1, <4>2 DEF ItemsKnown
      <3>4. QED
        BY <3>1, <3>2, <3>3
    <2>8. QED
      BY <1>A, <2>1, <2>7, ItemsUnchanged
  <1>5. ASSUME dequeue PROVE FIFO!Take
    <2>1. /\ ret' = buffer[tail] /\ buffer' = [buffer EXCEPT ![tail] = Nil]
          /\ taken' = taken + 1
          /\ UNCHANGED <<count, head, pc, obj, pos>>
      BY <1>5 DEF dequeue
    <2>2. /\ taken < head /\ buffer[taken % Capacity] # Nil
          /\ \A p \in At("store") : pos[p] # taken
      BY <1>5, OldestStored DEF dequeue
    <2>3. At("store")' = At("store") /\ tail = taken % Capacity /\ tail \in Slot
      BY <1>0, <2>1 DEF At, PositionInv, TypeOK
    <2>4. ASSUME NEW n \in taken' .. head' - 1 PROVE ObjectAt(n)' = ObjectAt(n)
      <3>1. n \in taken .. head - 1 /\ taken \in taken .. head - 1 /\ n # taken /\ n \in Nat
        BY <1>A, <2>1, <2>2
      <3>2. n % Capacity # taken % Capacity
        BY <3>1, UsedDistinct, Zenon
      <3>3. n % Capacity \in Slot
        BY <3>1, EntryOfPosition
      <3>4. buffer'[n % Capacity] = buffer[n % Capacity]
        BY <1>0, <2>1, <2>3, <3>2, <3>3 DEF TypeOK
      <3>5. QED
        BY <2>1, <2>3, <3>4 DEF ObjectAt
    <2>5. Items # <<>> /\ ret' = Head(Items)
      <3>1. Items \in Seq(Value) /\ Len(Items) = head - taken /\ Items # <<>>
        BY <1>A, <1>K, <2>2 DEF ItemsKnown
      <3>2. 1 \in 1 .. head - taken /\ taken + 1 - 1 = taken /\ taken \in taken .. head - 1
        BY <1>A, <2>2
      <3>3. Items[1] = ObjectAt(taken)
        BY <1>K, <3>2 DEF ItemsKnown
      <3>4. ObjectAt(taken) = buffer[tail]
        BY <1>K, <2>2, <2>3, <3>2 DEF ItemsKnown
      <3>5. QED
        BY <2>1, <3>1, <3>3, <3>4
    <2>6. Items' = Tail(Items)
      <3>1. /\ Tail(Items) \in Seq(Value) /\ Len(Tail(Items)) = head - taken - 1
            /\ \A i \in 1 .. Len(Tail(Items)) : Tail(Items)[i] = Items[i + 1]
        BY <1>A, <1>K, <2>5, HeadTailProperties DEF ItemsKnown
      <3>2. Items' \in Seq(Value) /\ Len(Items') = head - taken - 1
        BY <1>A, <1>M, <2>1, <2>2 DEF ItemsKnown
      <3>3. ASSUME NEW i \in 1 .. head - taken - 1 PROVE Items'[i] = Tail(Items)[i]
        <4>1. PICK n \in Nat : n = taken + i
          BY <1>A
        <4>2. /\ i + 1 \in 1 .. head - taken /\ i \in 1 .. head' - taken'
              /\ taken' + i - 1 = n /\ taken + (i + 1) - 1 = n /\ n \in taken' .. head' - 1
          BY <1>A, <2>1, <2>2, <4>1
        <4>3. Items'[i] = ObjectAt(n)'
          BY <1>M, <4>2 DEF ItemsKnown
        <4>4. Items[i + 1] = ObjectAt(n)
          BY <1>K, <4>2 DEF ItemsKnown
        <4>5. QED
          BY <2>4, <3>1, <4>2, <4>3, <4>4
      <3>4. QED
        BY <3>1, <3>2, <3>3, SeqEqual
    <2>7. QED
      BY <2>5, <2>6 DEF FIFO!Take, Items
  <1>6. ASSUME Release PROVE Items' = Items
    BY <1>6 DEF Release, Items, ObjectAt, At
  <1>7. CASE UNCHANGED vars
    BY <1>7 DEF vars, Items, ObjectAt, At
  <1>8. QED
    BY <1>1, <1>2, <1>3, <1>4, <1>5, <1>6, <1>7
    DEF Next, Step, DequeueNothing, FIFO!Next, enqueue, BackOff, Store, Release, vars

\* Objects come out once and in the order of the positions, and at most Capacity
\* are inside: the queue implements BoundedFIFO, whatever the order of the stores.
THEOREM Fifo == Spec => ImplementsFIFO
  <1>1. Init => FIFO!Init
    BY MPSCAssumption DEF Init, FIFO!Init
  <1>2. QED
    BY <1>1, RefinementStep, Invariance, PTL DEF Spec, ImplementsFIFO, FIFO!Spec
=============================================================================
