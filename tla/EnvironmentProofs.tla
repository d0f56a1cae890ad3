------------------------- MODULE EnvironmentProofs --------------------------
(***************************************************************************)
(* Proofs about Environment and QueueCheckers, for every number of queues, *)
(* of checkers, of CPUs and of initializations, with and without errors of *)
(* ALPI.                                                                   *)
(***************************************************************************)
EXTENDS Environment, FiniteSetTheorems, SequenceTheorems, TLAPS

(***************************************************************************)
(* The inductive invariant.                                                *)
(***************************************************************************)

\* The library is up: what the polling functions use is there.
Up == enabled /\ info \in [Checker -> Info] /\ {"queues", "lists", "pool"} \subseteq ready

\* The infos of the first n checkers are those of QueueCheckers.
Ranges(n) ==
    \A c \in Checker : c < n =>
        /\ info[c].num = NumQueuesOf(c)
        /\ c \in Registered => info[c].first = FirstQueue(c)

\* The instances that Polling::initialize registers.
Instances == Registered \cup {NotificationsInstance}

\* Where the main task is tells which instances there are and what is allocated.
PhaseInv ==
    /\ mpc = "off" => k = 1 /\ live = {} /\ info = <<>> /\ ~enabled /\ ready \subseteq {"hardware"}
    /\ mpc = "init" =>
        /\ k \in 1 .. 10 /\ live = {} /\ info = <<>>
        /\ k > 4 => "queues" \in ready
        /\ k > 5 => "lists" \in ready
        /\ k > 8 => "pool" \in ready
        /\ k > 9 => enabled
    /\ mpc = "register" =>
        /\ k \in 0 .. NumCheckers /\ Up
        /\ live = {i \in Registered : i < k} /\ Ranges(k) /\ queue = FirstQueue(k)
    /\ mpc = "app" \/ (mpc = "term" /\ k = 1) =>
        Up /\ live = Instances /\ Ranges(NumCheckers)
    /\ mpc = "term" =>
        /\ k \in 1 .. 7
        /\ k > 1 => live = {} /\ info = <<>>
        /\ k > 2 => "pool" \notin ready
        /\ k > 3 => "locks" \notin ready
        /\ k > 4 => "queues" \notin ready
        /\ k > 5 => "lists" \notin ready
        /\ k > 6 => "groups" \notin ready
    /\ mpc \in {"stop", "wait"} =>
        /\ k \in 0 .. NumCheckers /\ Up
        /\ live = {i \in Instances : i >= k} /\ Ranges(NumCheckers)
    /\ mpc = "wait" => k \in live

\* A task exists until it has finished, and only while its object is allocated,
\* which also at an exit of the process has what it uses.
TaskInv ==
    /\ \A i \in Instance : /\ i \notin live => tpc[i] = "none"
                           /\ i \in live => (tpc[i] = "none" <=> finished[i])
    /\ live # {} => Up /\ \A i \in live : HasQueues(i)

\* The groups allocated are those in the table and those left before.
GroupInv ==
    /\ mpc \in {"off", "init", "register"} => table = {} /\ groups = left
    /\ mpc = "app" => groups = left \cup table /\ left \cap table = {}
    /\ mpc \in {"term", "stop", "wait"} => groups = left
    /\ mpc = "term" /\ k > 6 => table = {}

IInv == TypeOK /\ PhaseInv /\ TaskInv /\ GroupInv

-----------------------------------------------------------------------------
(***************************************************************************)
(* The division of the queues.                                             *)
(***************************************************************************)

\* Division with remainder.
LEMMA DivMod ==
    ASSUME NEW a \in Nat, NEW b \in Nat \ {0}
    PROVE  /\ a \div b \in Nat /\ a % b \in 0 .. b - 1
           /\ a = b * (a \div b) + (a % b)
  OBVIOUS

\* Products of natural numbers are monotonic and distribute.
LEMMA Products ==
    ASSUME NEW x \in Nat, NEW y \in Nat, NEW z \in Nat
    PROVE  /\ x * y \in Nat /\ (x + 1) * y = x * y + y /\ x * y = y * x
           /\ x <= z => x * y <= z * y
           /\ x < z => x * y + y <= z * y
           /\ (x + z) * y = x * y + z * y
  OBVIOUS

\* The queues are divided evenly, and remq are left.
LEMMA Division ==
    /\ qppi \in Nat /\ remq \in Nat /\ remq < NumCheckers
    /\ MaxQueues = NumCheckers * qppi + remq
  BY QueueCheckersAssumption, DivMod DEF qppi, remq

\* A range ends where the next one begins.
LEMMA NextRange ==
    ASSUME NEW c \in Nat
    PROVE  /\ NumQueuesOf(c) \in Nat /\ FirstQueue(c) \in Nat
           /\ FirstQueue(c + 1) = FirstQueue(c) + NumQueuesOf(c)
  <1>1. PICK p \in Nat, q \in Nat, r \in Nat, s \in Nat :
            p = c * qppi /\ s = (c + 1) * qppi /\ q = qppi /\ r = remq /\ s = p + q
    BY Division, Products
  <1>2. QED
    BY <1>1 DEF NumQueuesOf, FirstQueue

\* Ranges come in the order of the checkers and do not overlap.
LEMMA RangesOrdered ==
    ASSUME NEW c \in Nat, NEW d \in Nat, c < d
    PROVE  FirstQueue(c) + NumQueuesOf(c) <= FirstQueue(d)
  <1>1. PICK p \in Nat, q \in Nat, r \in Nat, s \in Nat :
            p = c * qppi /\ s = d * qppi /\ q = qppi /\ r = remq /\ p + q <= s
    BY Division, Products
  <1>2. QED
    BY <1>1 DEF NumQueuesOf, FirstQueue

\* The ranges begin at queue 0 and end with the last queue.
LEMMA RangesBounds ==
    /\ FirstQueue(0) = 0 /\ FirstQueue(NumCheckers) = MaxQueues
    /\ \A c \in 0 .. NumCheckers : FirstQueue(c) \in 0 .. MaxQueues
    /\ \A c \in Checker : NumQueuesOf(c) \in 0 .. MaxQueues
                          /\ FirstQueue(c) + NumQueuesOf(c) <= MaxQueues
  <1>1. NumCheckers \in Nat /\ MaxQueues \in Nat /\ 0 * qppi = 0
    BY QueueCheckersAssumption, Division
  <1>2. FirstQueue(0) = 0 /\ FirstQueue(NumCheckers) = MaxQueues
    BY <1>1, Division DEF FirstQueue
  <1>3. \A c \in Checker : FirstQueue(c) + NumQueuesOf(c) <= MaxQueues
                           /\ FirstQueue(c) \in Nat /\ NumQueuesOf(c) \in Nat
    <2>1. \A c \in Checker : c \in Nat /\ c < NumCheckers
      BY <1>1 DEF Checker
    <2>2. QED
      BY <1>1, <1>2, <2>1, RangesOrdered, NextRange
  <1>4. QED
    BY <1>1, <1>2, <1>3 DEF Checker

\* Every queue is in the range of a checker.
LEMMA EveryQueue ==
    ASSUME NEW q \in Queue
    PROVE  \E c \in Registered : FirstQueue(c) <= q /\ q < FirstQueue(c) + NumQueuesOf(c)
  <1>1. PICK Q \in Nat, R \in Nat, N \in Nat, M \in Nat :
            /\ Q = qppi /\ R = remq /\ N = NumCheckers /\ M = MaxQueues
            /\ R < N /\ M = N * Q + R /\ q \in Nat /\ q < M
    BY Division, QueueCheckersAssumption DEF Queue
  <1>2. ASSUME NEW c \in Nat, c < N, FirstQueue(c) <= q, q < FirstQueue(c) + NumQueuesOf(c)
        PROVE  c \in Registered
    BY <1>1, <1>2, NextRange DEF Registered, Checker
  <1>3. CASE q < R * (Q + 1)
    <2>1. PICK c \in Nat, x \in Nat : x < Q + 1 /\ q = (Q + 1) * c + x
      <3>1. Q + 1 \in Nat \ {0}
        OBVIOUS
      <3>2. q \div (Q + 1) \in Nat /\ q % (Q + 1) \in 0 .. (Q + 1) - 1
            /\ q = (Q + 1) * (q \div (Q + 1)) + (q % (Q + 1))
        BY <1>1, <3>1, DivMod
      <3>3. q % (Q + 1) \in Nat /\ q % (Q + 1) < Q + 1
        BY <3>2
      <3>4. QED
        BY <3>2, <3>3, Zenon
    <2>2. c < R
      <3>1. SUFFICES ASSUME R <= c PROVE FALSE
        OBVIOUS
      <3>2. R * (Q + 1) <= c * (Q + 1)
        BY <3>1, Products
      <3>3. (Q + 1) * c = c * (Q + 1) /\ c * (Q + 1) \in Nat /\ R * (Q + 1) \in Nat
        BY Products
      <3>4. QED
        BY <1>1, <1>3, <2>1, <3>2, <3>3
    <2>3. (Q + 1) * c = c * Q + c /\ c * Q \in Nat
      BY Products
    <2>4. FirstQueue(c) = c * Q + c /\ NumQueuesOf(c) = Q + 1
      BY <1>1, <2>2 DEF FirstQueue, NumQueuesOf
    <2>5. FirstQueue(c) <= q /\ q < FirstQueue(c) + NumQueuesOf(c) /\ c < N
      BY <1>1, <2>1, <2>2, <2>3, <2>4
    <2>6. QED
      BY <1>2, <2>5
  <1>4. CASE R * (Q + 1) <= q
    <2>1. PICK b \in Nat : b = R * (Q + 1) /\ b = R * Q + R /\ R * Q \in Nat
      BY Products
    <2>2. Q # 0
      <3>1. SUFFICES ASSUME Q = 0 PROVE FALSE
        OBVIOUS
      <3>2. N * Q = 0 /\ R * (Q + 1) = R
        BY <3>1
      <3>3. QED
        BY <1>1, <1>4, <3>2
    <2>3. PICK e \in Nat, x \in Nat : x < Q /\ q - b = Q * e + x
      <3>1. q - b \in Nat /\ Q \in Nat \ {0}
        BY <1>1, <1>4, <2>1, <2>2
      <3>2. (q - b) \div Q \in Nat /\ (q - b) % Q \in 0 .. Q - 1
            /\ q - b = Q * ((q - b) \div Q) + ((q - b) % Q)
        BY <3>1, DivMod
      <3>3. (q - b) % Q \in Nat /\ (q - b) % Q < Q
        BY <3>2
      <3>4. QED
        BY <3>2, <3>3, Zenon
    <2>4. PICK c \in Nat : c = R + e
      OBVIOUS
    <2>5. /\ Q * e = e * Q /\ c * Q = R * Q + e * Q /\ e * Q \in Nat /\ c * Q \in Nat
          /\ N * Q \in Nat
      BY <2>4, Products
    <2>6. FirstQueue(c) = c * Q + R /\ NumQueuesOf(c) = Q
      BY <1>1, <2>4 DEF FirstQueue, NumQueuesOf
    <2>7. FirstQueue(c) <= q /\ q < FirstQueue(c) + NumQueuesOf(c)
      BY <1>1, <2>1, <2>3, <2>5, <2>6
    <2>8. c < N
      <3>1. SUFFICES ASSUME N <= c PROVE FALSE
        BY <1>1
      <3>2. N * Q <= c * Q
        BY <1>1, <3>1, Products
      <3>3. QED
        BY <1>1, <2>5, <2>6, <2>7, <3>2
    <2>9. QED
      BY <1>2, <2>7, <2>8
  <1>5. QED
    BY <1>1, <1>3, <1>4

-----------------------------------------------------------------------------
(***************************************************************************)
(* The steps of the main task.                                             *)
(***************************************************************************)

\* The steps of Environment::initialize and Environment::finalize.
LEMMA Orders ==
    /\ InitOrder[1] = "hardware" /\ InitOrder[2] = "load" /\ InitOrder[3] = "version"
    /\ InitOrder[4] = "queues" /\ InitOrder[5] = "lists" /\ InitOrder[6] = "groups"
    /\ InitOrder[7] = "locks" /\ InitOrder[8] = "pool" /\ InitOrder[9] = "enable"
    /\ InitOrder[10] = "polling"
    /\ FinalizeOrder[1] = "polling" /\ FinalizeOrder[2] = "pool" /\ FinalizeOrder[3] = "locks"
    /\ FinalizeOrder[4] = "queues" /\ FinalizeOrder[5] = "lists" /\ FinalizeOrder[6] = "groups"
    /\ FinalizeOrder[7] = "disable"
    /\ AfterPolling = 2
  <1>1. /\ DOMAIN FinalizeOrder = 1 .. 7
        /\ FinalizeOrder[1] = "polling" /\ FinalizeOrder[2] = "pool" /\ FinalizeOrder[3] = "locks"
        /\ FinalizeOrder[4] = "queues" /\ FinalizeOrder[5] = "lists" /\ FinalizeOrder[6] = "groups"
        /\ FinalizeOrder[7] = "disable"
    BY DEF FinalizeOrder
  <1>2. \A n \in DOMAIN FinalizeOrder : FinalizeOrder[n] = "polling" <=> n = 1
    BY <1>1
  <1>3. 1 \in DOMAIN FinalizeOrder
    BY <1>1
  <1>4. (CHOOSE n \in DOMAIN FinalizeOrder : FinalizeOrder[n] = "polling") = 1
    BY <1>2, <1>3
  <1>5. AfterPolling = 2
    <2>1. AfterPolling = 1 + 1
      BY <1>4, Zenon DEF AfterPolling
    <2>2. QED
      BY <2>1
  <1>6. QED
    BY <1>1, <1>5 DEF InitOrder

\* The instance of the notifications is no checker, and the infos of checkers are
\* not the empty sequence.
LEMMA InstanceFacts ==
    /\ NumCheckers \in Nat /\ 0 \in Checker
    /\ NotificationsInstance \notin Checker /\ NotificationsInstance = NumCheckers
    /\ \A n \in 0 .. NumCheckers : n \in Checker <=> n # NumCheckers
    /\ Instance = 0 .. NumCheckers /\ Instances \subseteq Instance
    /\ Main \notin Instance
    /\ \A f \in [Checker -> Info] : f # <<>>
  <1>1. NumCheckers \in Nat /\ NumCheckers # 0
    BY QueueCheckersAssumption
  <1>2. 0 \in Checker /\ NotificationsInstance \notin Checker
        /\ \A n \in 0 .. NumCheckers : n \in Checker <=> n # NumCheckers
    BY <1>1 DEF Checker, NotificationsInstance
  <1>3. Instance = 0 .. NumCheckers /\ Main \notin Instance
    BY <1>1 DEF Checker, Instance, NotificationsInstance, Main
  <1>4. Instances \subseteq Instance
    BY DEF Instances, Instance, Registered
  <1>5. ASSUME NEW f \in [Checker -> Info] PROVE f # <<>>
    <2>1. DOMAIN f = Checker /\ DOMAIN <<>> = {}
      OBVIOUS
    <2>2. QED
      BY <1>2, <2>1
  <1>6. QED
    BY <1>1, <1>2, <1>3, <1>4, <1>5 DEF NotificationsInstance

\* The actors are finitely many, so a CPU given or given up is counted.
LEMMA CPUs ==
    ASSUME NEW S, S \subseteq Actor \cup {Busy}, Cardinality(S) <= NumCPUs
    PROVE  /\ \A a \in Actor : Cardinality(S) < NumCPUs => Cardinality(S \cup {a}) <= NumCPUs
           /\ \A a : Cardinality(S \ {a}) <= NumCPUs
  <1>1. IsFiniteSet(Actor \cup {Busy})
    <2>1. IsFiniteSet(0 .. NumCheckers)
      BY InstanceFacts, FS_Interval
    <2>2. Actor \cup {Busy} = ((0 .. NumCheckers) \cup {Main}) \cup {Busy}
      BY InstanceFacts DEF Actor
    <2>3. QED
      BY <2>1, <2>2, FS_AddElement
  <1>2. IsFiniteSet(S)
    BY <1>1, FS_Subset
  <1>3. Cardinality(S) \in Nat /\ NumCPUs \in Nat
    BY <1>2, FS_CardinalityType, EnvironmentAssumption
  <1>4. ASSUME NEW a, Cardinality(S) < NumCPUs PROVE Cardinality(S \cup {a}) <= NumCPUs
    <2>1. Cardinality(S \cup {a}) = IF a \in S THEN Cardinality(S) ELSE Cardinality(S) + 1
      BY <1>2, FS_AddElement
    <2>2. QED
      BY <1>3, <1>4, <2>1
  <1>5. ASSUME NEW a PROVE Cardinality(S \ {a}) <= NumCPUs
    <2>1. Cardinality(S \ {a}) = IF a \in S THEN Cardinality(S) - 1 ELSE Cardinality(S)
      BY <1>2, FS_RemoveElement
    <2>2. QED
      BY <1>3, <2>1
  <1>6. QED
    BY <1>4, <1>5

\* What a registration of a checker does to the infos.
LEMMA RegisterEffect ==
    ASSUME IInv, RegisterChecker
    PROVE  /\ info' \in [Checker -> Info] /\ queue' = FirstQueue(k') /\ queue' \in 0 .. MaxQueues
           /\ k' = k + 1 /\ k \in Checker /\ k + 1 \in 0 .. NumCheckers
           /\ Ranges(k)' /\ info'[k].num = NumQueuesOf(k)
           /\ k \in Registered => info'[k].first = FirstQueue(k)
           /\ live' = IF k \in Registered THEN live \cup {k} ELSE live
           /\ tpc' = IF k \in Registered THEN [tpc EXCEPT ![k] = "loop"] ELSE tpc
           /\ finished' = IF k \in Registered THEN [finished EXCEPT ![k] = FALSE] ELSE finished
           /\ mustFinish' \in [Instance -> BOOLEAN]
  <1>1. /\ mpc = "register" /\ k \in Checker /\ k' = k + 1
        /\ info \in [Checker -> Info] /\ queue = FirstQueue(k) /\ Ranges(k)
    BY DEF IInv, PhaseInv, RegisterChecker, Up
  <1>2. k \in Nat /\ k + 1 \in 0 .. NumCheckers /\ k \in 0 .. NumCheckers /\ k \in Instance
    BY <1>1, InstanceFacts DEF Checker, Instance
  <1>3. PICK num \in 0 .. MaxQueues, first \in 0 .. MaxQueues :
            /\ num = NumQueuesOf(k) /\ first = FirstQueue(k) /\ num \in Nat
            /\ first + num = FirstQueue(k + 1) /\ FirstQueue(k + 1) \in 0 .. MaxQueues
    BY <1>1, <1>2, NextRange, RangesBounds
  <1>4. k \in Registered <=> num > 0
    BY <1>1, <1>3 DEF Registered
  <1>5. \E x \in Info : /\ info' = [info EXCEPT ![k] = x]
                        /\ x.num = num /\ (num > 0 => x.first = first)
    <2>1. CASE num > 0
      <3>1. [num |-> num, first |-> first] \in Info
        BY <1>3 DEF Info
      <3>2. info' = [info EXCEPT ![k] = [num |-> num, first |-> first]]
        BY <1>1, <1>3, <2>1 DEF RegisterChecker
      <3>3. QED
        BY <3>1, <3>2
    <2>2. CASE num = 0
      <3>1. info[k] \in Info
        BY <1>1
      <3>2. [info[k] EXCEPT !.num = 0] \in Info /\ [info[k] EXCEPT !.num = 0].num = 0
        BY <1>3, <2>2, <3>1 DEF Info
      <3>3. info' = [info EXCEPT ![k] = [info[k] EXCEPT !.num = 0]]
        BY <1>1, <1>3, <2>2 DEF RegisterChecker
      <3>4. ~(num > 0)
        BY <2>2
      <3>5. QED
        BY <2>2, <3>2, <3>3, <3>4, Zenon
    <2>3. QED
      BY <1>3, <2>1, <2>2
  <1>6. PICK x \in Info : /\ info' = [info EXCEPT ![k] = x]
                          /\ x.num = num /\ (num > 0 => x.first = first)
    BY <1>5
  <1>7. /\ info' \in [Checker -> Info] /\ info'[k] = x
        /\ \A c \in Checker : c # k => info'[c] = info[c]
    BY <1>1, <1>6
  <1>8. Ranges(k)'
    <2>1. \A c \in Checker : c < k + 1 => /\ info'[c].num = NumQueuesOf(c)
                                          /\ c \in Registered => info'[c].first = FirstQueue(c)
      <3>1. ASSUME NEW c \in Checker, c < k + 1, c # k
            PROVE  c < k
        BY <1>2, <3>1, InstanceFacts DEF Checker
      <3>2. QED
        BY <1>1, <1>3, <1>4, <1>6, <1>7, <3>1 DEF Ranges
    <2>2. QED
      BY <1>1, <2>1 DEF Ranges
  <1>9. queue' = FirstQueue(k + 1)
    BY <1>1, <1>3 DEF RegisterChecker, NextFirst
  <1>10. CASE k \in Registered
    <2>1. registerPolling(k)
      BY <1>3, <1>4, <1>10 DEF RegisterChecker
    <2>2. mustFinish' \in [Instance -> BOOLEAN]
      BY <1>2, <2>1 DEF registerPolling, IInv, TypeOK
    <2>3. QED
      BY <1>1, <1>2, <1>3, <1>6, <1>7, <1>8, <1>9, <1>4, <1>10, <2>1, <2>2 DEF registerPolling
  <1>11. CASE k \notin Registered
    <2>1. UNCHANGED <<flagVars, tpc>>
      BY <1>3, <1>4, <1>11 DEF RegisterChecker
    <2>2. QED
      BY <1>1, <1>2, <1>3, <1>6, <1>7, <1>8, <1>9, <1>11, <2>1 DEF flagVars, IInv, TypeOK
  <1>12. QED
    BY <1>10, <1>11

-----------------------------------------------------------------------------

\* At the start the library is off.
LEMMA InitIInv == Init => IInv
  <1> SUFFICES ASSUME Init PROVE IInv
    OBVIOUS
  <1>1. TypeOK
    <2>1. cpu \subseteq Actor \cup {Busy}
      BY DEF Init, Actor
    <2>2. 0 \in 0 .. MaxInits /\ 0 \in 0 .. MaxQueues
      BY EnvironmentAssumption, QueueCheckersAssumption
    <2>3. mustFinish \in [Instance -> BOOLEAN] /\ finished \in [Instance -> BOOLEAN]
          /\ tpc \in [Instance -> {"none", "loop", "function", "ended"}]
      BY DEF Init
    <2>4. Cardinality(cpu) <= NumCPUs
      BY DEF Init
    <2>5. QED
      BY <2>1, <2>2, <2>3, <2>4 DEF Init, TypeOK
  <1>2. PhaseInv /\ TaskInv /\ GroupInv
    BY DEF Init, PhaseInv, TaskInv, GroupInv
  <1>3. QED
    BY <1>1, <1>2 DEF IInv

\* Every step keeps the types.
LEMMA StepType == IInv /\ [Next]_vars => TypeOK'
  <1> SUFFICES ASSUME IInv, [Next]_vars PROVE TypeOK'
    OBVIOUS
  <1> USE DEF envVars, groupVars, flagVars, Parts
  <1>0. TypeOK /\ PhaseInv
    BY DEF IInv
  <1>c. /\ \A a \in Actor : Cardinality(cpu) < NumCPUs => Cardinality(cpu \cup {a}) <= NumCPUs
        /\ \A a : Cardinality(cpu \ {a}) <= NumCPUs
    BY <1>0, CPUs DEF TypeOK
  <1>q. 0 \in 0 .. MaxQueues /\ NumCheckers \in Nat
    BY QueueCheckersAssumption
  <1>1. CASE tagaspi_proc_init
    BY <1>0, <1>1, EnvironmentAssumption DEF TypeOK, tagaspi_proc_init
  <1>2. CASE InitFails \/ getError
    <2>1. \E S : Fail(S)
      BY <1>2 DEF InitFails, getError
    <2>2. QED
      BY <1>0, <2>1 DEF TypeOK, Fail
  <1>3. CASE InitStep
    <2>1. /\ mpc = "init" /\ k \in 1 .. 10 /\ info = <<>>
      BY <1>0, <1>3 DEF PhaseInv, InitStep
    <2>2. InitOrder[k] \in {"hardware", "load", "version", "queues", "lists", "groups",
                            "locks", "pool", "enable", "polling"}
      <3>1. k = 1 \/ k = 2 \/ k = 3 \/ k = 4 \/ k = 5 \/ k = 6 \/ k = 7 \/ k = 8 \/ k = 9 \/ k = 10
        BY <2>1
      <3>2. QED
        BY <3>1, Orders
    <2>3. PICK what : what = InitOrder[k]
      OBVIOUS
    <2>4. /\ ready' = ready \cup ({what} \cap Parts)
          /\ enabled' = (what = "enable" \/ enabled)
          /\ info' = IF what = "polling" THEN [c \in Checker |-> [num |-> 0, first |-> 0]]
                     ELSE info
          /\ mpc' = IF what = "polling" THEN "register" ELSE mpc
          /\ k' = IF what = "polling" THEN 0 ELSE k + 1
          /\ queue' = 0
          /\ UNCHANGED <<inits, groups, left, flagVars, tpc, cpu>>
          /\ assigned' = assigned \cup ({what} \cap Parts)
          /\ table' = IF what = "groups" THEN {} ELSE table
      BY <1>3, <2>3 DEF InitStep
    <2>5. info' = <<>> \/ info' \in [Checker -> Info]
      <3>1. [num |-> 0, first |-> 0] \in Info
        BY <1>q DEF Info
      <3>2. QED
        BY <2>1, <2>4, <3>1
    <2>6. ready' \subseteq Parts /\ assigned' \subseteq Parts /\ table' \subseteq Group
      BY <1>0, <2>4 DEF TypeOK
    <2>7. enabled' \in BOOLEAN /\ k' \in Nat /\ mpc' \in {"init", "register"}
      BY <1>0, <2>1, <2>4 DEF TypeOK
    <2>8. QED
      BY <1>0, <1>q, <2>4, <2>5, <2>6, <2>7 DEF TypeOK
  <1>4. CASE RegisterChecker
    <2>1. /\ info' \in [Checker -> Info] /\ queue' \in 0 .. MaxQueues
          /\ k' = k + 1 /\ k \in Checker /\ k + 1 \in 0 .. NumCheckers
          /\ live' = IF k \in Registered THEN live \cup {k} ELSE live
          /\ tpc' = IF k \in Registered THEN [tpc EXCEPT ![k] = "loop"] ELSE tpc
          /\ finished' = IF k \in Registered THEN [finished EXCEPT ![k] = FALSE] ELSE finished
          /\ mustFinish' \in [Instance -> BOOLEAN]
      BY <1>4, RegisterEffect
    <2>2. k' \in Nat /\ k \in Instance
      BY <1>q, <2>1 DEF Instance
    <2>3. UNCHANGED <<mpc, inits, enabled, ready, assigned, loaded, groupVars, cpu>>
      BY <1>4 DEF RegisterChecker
    <2>4. QED
      BY <1>0, <2>1, <2>2, <2>3 DEF TypeOK
  <1>5. CASE RegisterNotifications
    <2>1. k \in Instance
      BY <1>5 DEF RegisterNotifications, Instance
    <2>2. QED
      BY <1>0, <1>5, <2>1 DEF TypeOK, RegisterNotifications, registerPolling
  <1>6. CASE FinalizeStep
    <2>1. enabled' \in BOOLEAN /\ k' \in Nat
      BY <1>0, <1>6 DEF FinalizeStep, TypeOK
    <2>2. mpc' \in {"stop", "off", "term"} /\ ready' \subseteq ready
      BY <1>0, <1>6 DEF FinalizeStep
    <2>3. QED
      BY <1>0, <1>6, <2>1, <2>2 DEF TypeOK, FinalizeStep
  <1>7. CASE unregisterPolling
    <2>1. mustFinish' = mustFinish \/ mustFinish' = [mustFinish EXCEPT ![k] = TRUE]
      BY <1>7 DEF unregisterPolling
    <2>2. mustFinish' \in [Instance -> BOOLEAN]
      BY <1>0, <2>1 DEF TypeOK
    <2>3. mpc' \in {"stop", "wait"} /\ k' \in Nat
      BY <1>0, <1>7 DEF TypeOK, unregisterPolling
    <2>4. /\ UNCHANGED <<inits, enabled, ready, assigned, loaded, groupVars>>
          /\ UNCHANGED <<info, called, queue, live, finished, tpc, cpu>>
      BY <1>7 DEF unregisterPolling
    <2>5. QED
      BY <1>0, <2>2, <2>3, <2>4 DEF TypeOK
  <1>8. CASE WaitFinished
    <2>1. mpc' \in {"wait", "term", "stop"} /\ k' \in Nat /\ (info' = info \/ info' = <<>>)
      BY <1>0, <1>8, Orders DEF WaitFinished, NextInstance, TypeOK
    <2>2. cpu' \subseteq Actor \cup {Busy} /\ Cardinality(cpu') <= NumCPUs
      BY <1>0, <1>8, <1>c DEF WaitFinished, Waitfor, TypeOK
    <2>3. live' \subseteq live
      BY <1>8 DEF WaitFinished
    <2>4. QED
      BY <1>0, <1>8, <2>1, <2>2, <2>3 DEF TypeOK, WaitFinished
  <1>9. CASE Taskwait
    <2>1. cpu' \subseteq Actor \cup {Busy} /\ Cardinality(cpu') <= NumCPUs
      BY <1>0, <1>9, <1>c DEF Taskwait, TypeOK
    <2>2. QED
      BY <1>0, <1>9, <2>1 DEF TypeOK, Taskwait
  <1>10. CASE tagaspi_proc_term \/ tagaspi_queue_group_create \/ tagaspi_queue_group_delete
    <2>1. /\ table' \subseteq Group /\ groups' \subseteq Group /\ left' \subseteq Group
          /\ mpc' \in {"app", "term"} /\ k' \in Nat
          /\ UNCHANGED <<envVars, called, flagVars, tpc, cpu>>
      BY <1>0, <1>10 DEF TypeOK, tagaspi_proc_term, tagaspi_queue_group_create,
                         tagaspi_queue_group_delete
    <2>2. QED
      BY <1>0, <2>1 DEF TypeOK
  <1>11. ASSUME NEW i \in Instance, PollingStep(i) PROVE TypeOK'
    <2>1. cpu' \subseteq Actor \cup {Busy} /\ Cardinality(cpu') <= NumCPUs
      BY <1>0, <1>11, <1>c DEF PollingStep, genericPolling, PollingPause, genericCompleted,
                               Waitfor, TypeOK
    <2>2. QED
      BY <1>0, <1>11, <2>1 DEF TypeOK, PollingStep, genericPolling, PollingPause, genericCompleted
  <1>12. ASSUME NEW a \in Actor, Resume(a) PROVE TypeOK'
    <2>1. cpu' \subseteq Actor \cup {Busy} /\ Cardinality(cpu') <= NumCPUs
      BY <1>0, <1>12, <1>c DEF Resume, TypeOK
    <2>2. QED
      BY <1>0, <1>12, <2>1 DEF TypeOK, Resume
  <1>13. CASE UNCHANGED vars
    BY <1>0, <1>13 DEF TypeOK, vars
  <1>14. QED
    BY <1>1, <1>2, <1>3, <1>4, <1>5, <1>6, <1>7, <1>8, <1>9, <1>10, <1>11, <1>12, <1>13
       DEF Next, MainStep, Ended

-----------------------------------------------------------------------------

\* The main task takes the library from one phase to the next.
LEMMA StepPhase == IInv /\ [Next]_vars => PhaseInv'
  <1> SUFFICES ASSUME IInv, [Next]_vars PROVE PhaseInv'
    OBVIOUS
  <1> USE DEF envVars, groupVars, flagVars, Parts
  <1>0. TypeOK /\ PhaseInv /\ TaskInv
    BY DEF IInv
  <1>f. ASSUME UNCHANGED <<mpc, k, envVars, live>> PROVE PhaseInv'
    BY <1>0, <1>f DEF PhaseInv, Up, Ranges
  <1>1. CASE tagaspi_proc_init
    <2>1. CASE UNCHANGED <<mpc, k>>
      BY <1>0, <1>1, <2>1 DEF PhaseInv, tagaspi_proc_init, Up, Ranges
    <2>2. CASE mpc' = "init" /\ k' = 1
      BY <1>0, <1>1, <2>2 DEF PhaseInv, tagaspi_proc_init
    <2>3. QED
      BY <1>1, <2>1, <2>2 DEF tagaspi_proc_init
  <1>2. CASE InitFails \/ getError
    <2>1. mpc' = "gone"
      BY <1>2 DEF InitFails, getError, Fail
    <2>2. QED
      BY <2>1 DEF PhaseInv
  <1>3. CASE InitStep
    <2>1. /\ mpc = "init" /\ k \in 1 .. 10 /\ live = {} /\ info = <<>>
          /\ k > 4 => "queues" \in ready
          /\ k > 5 => "lists" \in ready
          /\ k > 8 => "pool" \in ready
          /\ k > 9 => enabled
      BY <1>0, <1>3 DEF PhaseInv, InitStep
    <2>2. PICK what : what = InitOrder[k]
      OBVIOUS
    <2>3. /\ ready' = ready \cup ({what} \cap Parts)
          /\ enabled' = (what = "enable" \/ enabled)
          /\ info' = IF what = "polling" THEN [c \in Checker |-> [num |-> 0, first |-> 0]]
                     ELSE info
          /\ mpc' = IF what = "polling" THEN "register" ELSE mpc
          /\ k' = IF what = "polling" THEN 0 ELSE k + 1
          /\ queue' = 0 /\ live' = live
      BY <1>3, <2>2 DEF InitStep
    <2>4. CASE k = 10
      <3>1. what = "polling"
        BY <2>2, <2>4, Orders
      <3>2. [num |-> 0, first |-> 0] \in Info
        BY QueueCheckersAssumption DEF Info
      <3>3. Up'
        <4>1. k > 4 /\ k > 5 /\ k > 8 /\ k > 9
          BY <2>4
        <4>2. enabled' /\ ready' = ready /\ {"queues", "lists", "pool"} \subseteq ready
          BY <2>1, <2>3, <3>1, <4>1, Zenon
        <4>3. info' \in [Checker -> Info]
          BY <2>3, <3>1, <3>2
        <4>4. QED
          BY <4>2, <4>3 DEF Up
      <3>4. /\ k' \in 0 .. NumCheckers /\ k' = 0 /\ mpc' = "register"
            /\ queue' = FirstQueue(k')
        BY <2>3, <3>1, QueueCheckersAssumption, RangesBounds
      <3>5. \A c \in Checker : ~(c < 0)
        BY DEF Checker
      <3>6. Registered \subseteq Checker
        BY DEF Registered
      <3>7. live' = {i \in Registered : i < k'} /\ Ranges(k)'
        BY <2>1, <2>3, <3>4, <3>5, <3>6 DEF Ranges
      <3>8. QED
        BY <3>3, <3>4, <3>7 DEF PhaseInv
    <2>5. CASE k # 10
      <3>1. k = 1 \/ k = 2 \/ k = 3 \/ k = 4 \/ k = 5 \/ k = 6 \/ k = 7 \/ k = 8 \/ k = 9
        BY <2>1, <2>5
      <3>2. what # "polling" /\ (k = 4 => what = "queues") /\ (k = 5 => what = "lists")
            /\ (k = 8 => what = "pool") /\ (k = 9 => what = "enable")
        BY <2>2, <3>1, Orders
      <3>3. ready \subseteq ready' /\ (k = 4 => "queues" \in ready')
            /\ (k = 5 => "lists" \in ready') /\ (k = 8 => "pool" \in ready')
        BY <2>3, <3>2
      <3>4. mpc' = "init" /\ k' = k + 1 /\ live' = {} /\ info' = <<>>
            /\ (enabled \/ k = 9 => enabled')
        BY <2>1, <2>3, <3>2
      <3>5. /\ k' \in 1 .. 10
            /\ k' > 4 => "queues" \in ready'
            /\ k' > 5 => "lists" \in ready'
            /\ k' > 8 => "pool" \in ready'
            /\ k' > 9 => enabled'
        BY <2>1, <2>5, <3>1, <3>3, <3>4
      <3>6. QED
        BY <3>4, <3>5 DEF PhaseInv
    <2>6. QED
      BY <2>4, <2>5
  <1>4. CASE RegisterChecker
    <2>1. /\ info' \in [Checker -> Info] /\ queue' = FirstQueue(k')
          /\ k' = k + 1 /\ k \in Checker /\ k + 1 \in 0 .. NumCheckers /\ Ranges(k)'
          /\ live' = IF k \in Registered THEN live \cup {k} ELSE live
      BY <1>4, RegisterEffect
    <2>2. UNCHANGED <<mpc, enabled, ready>> /\ mpc = "register"
      BY <1>4 DEF RegisterChecker
    <2>3. Up /\ live = {i \in Registered : i < k}
      BY <1>0, <2>2 DEF PhaseInv
    <2>4. Up'
      BY <2>1, <2>2, <2>3 DEF Up
    <2>5. live' = {i \in Registered : i < k'}
      <3>1. \A i \in Registered : i < k + 1 <=> i < k \/ i = k
        BY <2>1 DEF Registered, Checker
      <3>2. QED
        BY <2>1, <2>3, <3>1
    <2>6. QED
      BY <2>1, <2>2, <2>4, <2>5 DEF PhaseInv
  <1>5. CASE RegisterNotifications
    <2>1. /\ mpc = "register" /\ k = NotificationsInstance /\ mpc' = "app" /\ k' = 1
          /\ live' = live \cup {NotificationsInstance} /\ UNCHANGED envVars
      BY <1>5 DEF RegisterNotifications, registerPolling
    <2>2. Up /\ live = {i \in Registered : i < NumCheckers} /\ Ranges(NumCheckers)
      BY <1>0, <2>1 DEF PhaseInv, NotificationsInstance
    <2>3. \A i \in Registered : i < NumCheckers
      BY QueueCheckersAssumption DEF Registered, Checker
    <2>4. live' = Instances
      BY <2>1, <2>2, <2>3 DEF Instances
    <2>5. Up' /\ Ranges(NumCheckers)'
      BY <2>1, <2>2 DEF Up, Ranges
    <2>6. QED
      BY <2>1, <2>4, <2>5 DEF PhaseInv
  <1>6. CASE FinalizeStep
    <2>1. /\ mpc = "term" /\ k \in 1 .. 7
          /\ k = 1 => Up /\ live = Instances /\ Ranges(NumCheckers)
          /\ k > 1 => live = {} /\ info = <<>>
          /\ k > 2 => "pool" \notin ready
          /\ k > 3 => "locks" \notin ready
          /\ k > 4 => "queues" \notin ready
          /\ k > 5 => "lists" \notin ready
          /\ k > 6 => "groups" \notin ready
      BY <1>0, <1>6 DEF PhaseInv, FinalizeStep
    <2>2. PICK what : what = FinalizeOrder[k]
      OBVIOUS
    <2>3. /\ ready' = ready \ {what}
          /\ enabled' = (what # "disable" /\ enabled)
          /\ mpc' = IF what = "polling" THEN "stop" ELSE IF what = "disable" THEN "off" ELSE mpc
          /\ k' = IF what = "polling" THEN 0 ELSE IF what = "disable" THEN 1 ELSE k + 1
          /\ UNCHANGED <<info, live>>
      BY <1>6, <2>2 DEF FinalizeStep
    <2>4. CASE k = 1
      <3>1. what = "polling"
        BY <2>2, <2>4, Orders
      <3>2. mpc' = "stop" /\ k' = 0 /\ k' \in 0 .. NumCheckers
        BY <2>3, <3>1, QueueCheckersAssumption
      <3>3. Up' /\ Ranges(NumCheckers)'
        BY <2>1, <2>3, <2>4, <3>1 DEF Up, Ranges
      <3>4. \A i \in Instances : i >= 0
        BY InstanceFacts
      <3>5. live' = {i \in Instances : i >= k'}
        BY <2>1, <2>3, <2>4, <3>2, <3>4
      <3>6. QED
        BY <3>2, <3>3, <3>5 DEF PhaseInv
    <2>5. CASE k = 7
      <3>1. what = "disable"
        BY <2>2, <2>5, Orders
      <3>2. mpc' = "off" /\ k' = 1 /\ live' = {} /\ info' = <<>> /\ ~enabled'
        <4>1. k > 1 /\ what # "polling"
          BY <2>5, <3>1
        <4>2. QED
          BY <2>1, <2>3, <3>1, <4>1, Zenon
      <3>3. ready' \subseteq {"hardware"}
        <4>1. "pool" \notin ready /\ "locks" \notin ready /\ "queues" \notin ready
              /\ "lists" \notin ready /\ "groups" \notin ready
          BY <2>1, <2>5
        <4>2. QED
          BY <1>0, <2>3, <4>1 DEF TypeOK
      <3>4. QED
        BY <3>2, <3>3 DEF PhaseInv
    <2>6. CASE k # 1 /\ k # 7
      <3>1. k = 2 \/ k = 3 \/ k = 4 \/ k = 5 \/ k = 6
        BY <2>1, <2>6
      <3>2. /\ what # "polling" /\ what # "disable"
            /\ (k = 2 => what = "pool") /\ (k = 3 => what = "locks") /\ (k = 4 => what = "queues")
            /\ (k = 5 => what = "lists") /\ (k = 6 => what = "groups")
        BY <2>2, <3>1, Orders
      <3>3. mpc' = "term" /\ k' = k + 1 /\ live' = {} /\ info' = <<>> /\ ready' = ready \ {what}
        BY <2>1, <2>3, <3>1, <3>2
      <3>4. /\ k' \in 1 .. 7 /\ k' # 1
            /\ k' > 2 => "pool" \notin ready'
            /\ k' > 3 => "locks" \notin ready'
            /\ k' > 4 => "queues" \notin ready'
            /\ k' > 5 => "lists" \notin ready'
            /\ k' > 6 => "groups" \notin ready'
        BY <2>1, <3>1, <3>2, <3>3
      <3>5. QED
        BY <3>3, <3>4 DEF PhaseInv
    <2>7. QED
      BY <2>4, <2>5, <2>6
  <1>7. CASE unregisterPolling
    <2>1. /\ mpc = "stop" /\ k \in 0 .. NumCheckers /\ Up
          /\ live = {i \in Instances : i >= k} /\ Ranges(NumCheckers)
      BY <1>0, <1>7 DEF PhaseInv, unregisterPolling
    <2>2. UNCHANGED <<inits, enabled, ready, loaded, called, queue, live, info>>
      BY <1>7 DEF unregisterPolling
    <2>3. Up' /\ Ranges(NumCheckers)'
      BY <2>1, <2>2 DEF Up, Ranges
    <2>4. HasQueues(k) <=> k \in Instances
      <3>1. CASE k \in Checker
        <4>1. k < NumCheckers /\ NumCheckers \in Nat
          BY <3>1, QueueCheckersAssumption DEF Checker
        <4>2. info[k].num = NumQueuesOf(k)
          BY <2>1, <3>1, <4>1 DEF Ranges
        <4>3. QED
          BY <3>1, <4>2, InstanceFacts DEF HasQueues, Instances, Registered
      <3>2. CASE k \notin Checker
        <4>1. k = NotificationsInstance
          BY <2>1, <3>2, InstanceFacts
        <4>2. QED
          BY <3>2, <4>1 DEF HasQueues, Instances
      <3>3. QED
        BY <3>1, <3>2
    <2>5. CASE ~HasQueues(k)
      <3>1. k' = k + 1 /\ mpc' = "stop"
        BY <1>7, <2>1, <2>5 DEF unregisterPolling
      <3>2. k # NotificationsInstance
        BY <2>4, <2>5 DEF Instances
      <3>3. k' \in 0 .. NumCheckers
        BY <2>1, <3>1, <3>2, InstanceFacts
      <3>4. \A i \in Instances : i >= k <=> i >= k + 1
        BY <2>1, <2>4, <2>5, InstanceFacts
      <3>5. live' = {i \in Instances : i >= k'}
        BY <2>1, <2>2, <3>1, <3>4
      <3>6. QED
        BY <2>3, <3>1, <3>3, <3>5 DEF PhaseInv
    <2>6. CASE HasQueues(k)
      <3>1. k' = k /\ mpc' = "wait"
        BY <1>7, <2>1, <2>6 DEF unregisterPolling
      <3>2. k \in live
        BY <2>1, <2>4, <2>6
      <3>3. QED
        BY <2>1, <2>2, <2>3, <3>1, <3>2 DEF PhaseInv
    <2>7. QED
      BY <2>5, <2>6
  <1>8. CASE WaitFinished
    <2>1. CASE ~HasFinished(k)
      <3>1. UNCHANGED <<mpc, k, envVars, live>>
        BY <1>8, <2>1 DEF WaitFinished
      <3>2. QED
        BY <1>f, <3>1
    <2>2. CASE HasFinished(k)
      <3>1. /\ mpc = "wait" /\ k \in 0 .. NumCheckers /\ Up
            /\ live = {i \in Instances : i >= k} /\ Ranges(NumCheckers) /\ k \in live
        BY <1>0, <1>8 DEF PhaseInv, WaitFinished
      <3>2. live' = live \ {k} /\ NextInstance
            /\ UNCHANGED <<inits, enabled, ready, loaded, queue>>
        BY <1>8, <2>2 DEF WaitFinished
      <3>3. CASE IsLast(k)
        <4>1. mpc' = "term" /\ k' = 2 /\ info' = <<>>
          BY <3>2, <3>3, Orders DEF NextInstance
        <4>2. \A i \in live : i = k
          BY <3>1, <3>3, InstanceFacts DEF IsLast
        <4>3. live' = {}
          BY <3>2, <4>2
        <4>4. QED
          BY <4>1, <4>3 DEF PhaseInv
      <3>4. CASE ~IsLast(k)
        <4>1. mpc' = "stop" /\ k' = k + 1 /\ info' = info
          BY <3>2, <3>4 DEF NextInstance
        <4>2. k' \in 0 .. NumCheckers
          BY <3>1, <3>4, <4>1, InstanceFacts DEF IsLast
        <4>3. \A i \in Instances : i >= k /\ i # k <=> i >= k + 1
          BY <3>1, InstanceFacts
        <4>4. live' = {i \in Instances : i >= k'}
          BY <3>1, <3>2, <4>1, <4>3
        <4>5. Up' /\ Ranges(NumCheckers)'
          BY <3>1, <3>2, <4>1 DEF Up, Ranges
        <4>6. QED
          BY <4>1, <4>2, <4>4, <4>5 DEF PhaseInv
      <3>5. QED
        BY <3>3, <3>4
    <2>3. QED
      BY <2>1, <2>2
  <1>9. CASE tagaspi_proc_term
    <2>1. /\ mpc = "app" /\ mpc' = "term" /\ k' = 1 /\ UNCHANGED <<envVars, live>>
      BY <1>9 DEF tagaspi_proc_term
    <2>2. Up /\ live = Instances /\ Ranges(NumCheckers)
      BY <1>0, <2>1 DEF PhaseInv
    <2>3. Up' /\ live' = Instances /\ Ranges(NumCheckers)'
      BY <2>1, <2>2 DEF Up, Ranges
    <2>4. QED
      BY <2>1, <2>3 DEF PhaseInv
  <1>10. CASE \/ Taskwait \/ (\E i \in Instance : PollingStep(i)) \/ \E a \in Actor : Resume(a)
              \/ tagaspi_queue_group_create \/ tagaspi_queue_group_delete
    <2>1. UNCHANGED <<mpc, k, envVars, live>>
      BY <1>10 DEF Taskwait, PollingStep, genericPolling, PollingPause, genericCompleted, Resume,
                   tagaspi_queue_group_create, tagaspi_queue_group_delete
    <2>2. QED
      BY <1>f, <2>1
  <1>11. CASE UNCHANGED vars
    BY <1>f, <1>11 DEF vars
  <1>12. QED
    BY <1>1, <1>2, <1>3, <1>4, <1>5, <1>6, <1>7, <1>8, <1>9, <1>10, <1>11
       DEF Next, MainStep, Ended

-----------------------------------------------------------------------------

\* A task ends before its object is deleted, and what it uses outlives it.
LEMMA StepTask == IInv /\ [Next]_vars => TaskInv'
  <1> SUFFICES ASSUME IInv, [Next]_vars PROVE TaskInv'
    OBVIOUS
  <1> USE DEF envVars, groupVars, flagVars, Parts
  <1>0. TypeOK /\ PhaseInv /\ TaskInv
    BY DEF IInv
  <1>f. ASSUME UNCHANGED <<enabled, ready, info, flagVars, tpc>> PROVE TaskInv'
    BY <1>0, <1>f DEF TaskInv, Up, HasQueues
  <1>n. ASSUME live = {}, live' = {}, tpc' = tpc PROVE TaskInv'
    BY <1>0, <1>n DEF TaskInv
  <1>1. CASE \/ tagaspi_proc_init \/ Taskwait \/ tagaspi_proc_term \/ InitFails \/ getError
             \/ tagaspi_queue_group_create \/ tagaspi_queue_group_delete
    <2>1. UNCHANGED <<enabled, ready, info, flagVars, tpc>>
      BY <1>1 DEF tagaspi_proc_init, Taskwait, tagaspi_proc_term, InitFails, getError, Fail,
                  tagaspi_queue_group_create, tagaspi_queue_group_delete
    <2>2. QED
      BY <1>f, <2>1
  <1>2. CASE InitStep
    <2>1. live = {} /\ live' = live /\ tpc' = tpc
      BY <1>0, <1>2 DEF InitStep, PhaseInv
    <2>2. QED
      BY <1>n, <2>1
  <1>3. CASE RegisterChecker
    <2>1. /\ info' \in [Checker -> Info] /\ k \in Checker /\ k' = k + 1
          /\ Ranges(k)' /\ info'[k].num = NumQueuesOf(k)
          /\ live' = IF k \in Registered THEN live \cup {k} ELSE live
          /\ tpc' = IF k \in Registered THEN [tpc EXCEPT ![k] = "loop"] ELSE tpc
          /\ finished' = IF k \in Registered THEN [finished EXCEPT ![k] = FALSE] ELSE finished
      BY <1>3, RegisterEffect
    <2>2. k \in Instance
      BY <2>1 DEF Instance
    <2>3. UNCHANGED <<mpc, enabled, ready>> /\ mpc = "register"
      BY <1>3 DEF RegisterChecker
    <2>4. Up /\ live = {i \in Registered : i < k}
      BY <1>0, <2>3 DEF PhaseInv
    <2>5. Up'
      BY <2>1, <2>3, <2>4 DEF Up
    <2>6. ASSUME NEW i \in Instance
          PROVE  /\ i \notin live' => tpc'[i] = "none"
                 /\ i \in live' => (tpc'[i] = "none" <=> finished'[i])
      <3>1. CASE i = k /\ k \in Registered
        BY <1>0, <2>1, <2>2, <3>1 DEF TypeOK
      <3>2. CASE ~(i = k /\ k \in Registered)
        <4>1. tpc'[i] = tpc[i] /\ finished'[i] = finished[i] /\ (i \in live' <=> i \in live)
          BY <1>0, <2>1, <2>2, <3>2 DEF TypeOK
        <4>2. QED
          BY <1>0, <4>1 DEF TaskInv
      <3>3. QED
        BY <3>1, <3>2
    <2>7. ASSUME NEW i \in live' PROVE HasQueues(i)'
      <3>1. i \in Registered /\ i \in Checker /\ i < k + 1 /\ NumQueuesOf(i) > 0
        BY <2>1, <2>4 DEF Registered, Checker
      <3>2. info'[i].num = NumQueuesOf(i)
        BY <2>1, <3>1 DEF Ranges
      <3>3. QED
        BY <3>1, <3>2 DEF HasQueues
    <2>8. QED
      BY <2>5, <2>6, <2>7 DEF TaskInv
  <1>4. CASE RegisterNotifications
    <2>1. PICK n \in Instance : n = NotificationsInstance
      BY DEF Instance
    <2>2. /\ mpc = "register" /\ live' = live \cup {n} /\ UNCHANGED envVars
          /\ tpc' = [tpc EXCEPT ![n] = "loop"] /\ finished' = [finished EXCEPT ![n] = FALSE]
      BY <1>4, <2>1 DEF RegisterNotifications, registerPolling
    <2>3. Up
      BY <1>0, <2>2 DEF PhaseInv
    <2>4. ASSUME NEW i \in Instance
          PROVE  /\ i \notin live' => tpc'[i] = "none"
                 /\ i \in live' => (tpc'[i] = "none" <=> finished'[i])
      <3>1. CASE i = n
        BY <1>0, <2>2, <3>1 DEF TypeOK
      <3>2. CASE i # n
        <4>1. tpc'[i] = tpc[i] /\ finished'[i] = finished[i] /\ (i \in live' <=> i \in live)
          BY <1>0, <2>2, <3>2 DEF TypeOK
        <4>2. QED
          BY <1>0, <4>1 DEF TaskInv
      <3>3. QED
        BY <3>1, <3>2
    <2>5. ASSUME NEW i \in live' PROVE HasQueues(i)'
      <3>1. CASE i = n
        BY <2>1, <3>1, InstanceFacts DEF HasQueues
      <3>2. CASE i \in live
        BY <1>0, <2>2, <3>2 DEF TaskInv, HasQueues
      <3>3. QED
        BY <2>2, <3>1, <3>2
    <2>6. Up'
      BY <2>2, <2>3 DEF Up
    <2>7. QED
      BY <2>4, <2>5, <2>6 DEF TaskInv
  <1>5. CASE FinalizeStep
    <2>1. mpc = "term" /\ k \in 1 .. 7 /\ UNCHANGED <<info, flagVars, tpc>>
      BY <1>0, <1>5 DEF FinalizeStep, PhaseInv
    <2>2. CASE k = 1
      <3>1. ready' = ready \ {"polling"} /\ enabled' = enabled
        BY <1>0, <1>5, <2>2, Orders DEF FinalizeStep, TypeOK
      <3>2. Up => Up'
        BY <2>1, <3>1 DEF Up
      <3>3. QED
        BY <1>0, <2>1, <3>2 DEF TaskInv, HasQueues
    <2>3. CASE k > 1
      <3>1. live = {}
        BY <1>0, <2>1, <2>3 DEF PhaseInv
      <3>2. QED
        BY <1>n, <2>1, <3>1
    <2>4. QED
      BY <2>1, <2>2, <2>3
  <1>6. CASE unregisterPolling
    <2>1. UNCHANGED <<enabled, ready, info, live, finished, tpc>>
      BY <1>6 DEF unregisterPolling
    <2>2. QED
      BY <1>0, <2>1 DEF TaskInv, Up, HasQueues
  <1>7. CASE WaitFinished
    <2>1. CASE ~HasFinished(k)
      <3>1. UNCHANGED <<enabled, ready, info, flagVars, tpc>>
        BY <1>7, <2>1 DEF WaitFinished
      <3>2. QED
        BY <1>f, <3>1
    <2>2. CASE HasFinished(k)
      <3>1. /\ mpc = "wait" /\ k \in live /\ live = {i \in Instances : i >= k}
            /\ k \in 0 .. NumCheckers /\ live \subseteq Instance
        BY <1>0, <1>7 DEF PhaseInv, WaitFinished, TypeOK
      <3>2. live' = live \ {k} /\ NextInstance /\ UNCHANGED <<enabled, ready, finished, tpc>>
        BY <1>7, <2>2 DEF WaitFinished
      <3>3. tpc[k] = "none"
        BY <1>0, <2>2, <3>1 DEF HasFinished, TaskInv
      <3>4. live' # {} => info' = info
        <4>1. CASE IsLast(k)
          <5>1. \A i \in live : i = k
            BY <3>1, <4>1, InstanceFacts DEF IsLast
          <5>2. QED
            BY <3>2, <5>1
        <4>2. CASE ~IsLast(k)
          BY <3>2, <4>2 DEF NextInstance
        <4>3. QED
          BY <4>1, <4>2
      <3>5. \A i \in Instance : /\ i \notin live' => tpc'[i] = "none"
                                /\ i \in live' => (tpc'[i] = "none" <=> finished'[i])
        BY <1>0, <3>1, <3>2, <3>3 DEF TaskInv
      <3>6. live' # {} => Up' /\ \A i \in live' : HasQueues(i)'
        BY <1>0, <3>2, <3>4 DEF TaskInv, Up, HasQueues
      <3>7. QED
        BY <3>5, <3>6 DEF TaskInv
    <2>3. QED
      BY <2>1, <2>2
  <1>8. ASSUME NEW i \in Instance, PollingStep(i) PROVE TaskInv'
    <2>1. i \in live /\ tpc[i] # "none"
      <3>1. tpc[i] # "none"
        BY <1>8 DEF PollingStep, genericPolling, PollingPause, genericCompleted
      <3>2. QED
        BY <1>0, <3>1 DEF TaskInv
    <2>2. /\ UNCHANGED <<envVars, live>>
          /\ \/ /\ finished' = finished
                /\ \E x \in {"ended", "function", "loop"} : tpc' = [tpc EXCEPT ![i] = x]
             \/ finished' = [finished EXCEPT ![i] = TRUE] /\ tpc' = [tpc EXCEPT ![i] = "none"]
      BY <1>8 DEF PollingStep, genericPolling, PollingPause, genericCompleted
    <2>3. ASSUME NEW j \in Instance
          PROVE  /\ j \notin live' => tpc'[j] = "none"
                 /\ j \in live' => (tpc'[j] = "none" <=> finished'[j])
      <3>1. CASE j = i
        <4>1. tpc[i] = "none" <=> finished[i]
          BY <1>0, <2>1 DEF TaskInv
        <4>2. QED
          BY <1>0, <2>1, <2>2, <3>1, <4>1 DEF TypeOK
      <3>2. CASE j # i
        <4>1. tpc'[j] = tpc[j] /\ finished'[j] = finished[j] /\ live' = live
          BY <1>0, <2>2, <3>2 DEF TypeOK
        <4>2. QED
          BY <1>0, <4>1 DEF TaskInv
      <3>3. QED
        BY <3>1, <3>2
    <2>4. live' # {} => Up' /\ \A j \in live' : HasQueues(j)'
      BY <1>0, <2>2 DEF TaskInv, Up, HasQueues
    <2>5. QED
      BY <2>3, <2>4 DEF TaskInv
  <1>9. ASSUME NEW a \in Actor, Resume(a) PROVE TaskInv'
    BY <1>f, <1>9 DEF Resume
  <1>10. CASE UNCHANGED vars
    BY <1>f, <1>10 DEF vars
  <1>11. QED
    BY <1>1, <1>2, <1>3, <1>4, <1>5, <1>6, <1>7, <1>8, <1>9, <1>10 DEF Next, MainStep, Ended

-----------------------------------------------------------------------------

\* Every group is in the table until the application deletes it or terminates the
\* library.
LEMMA StepGroup == IInv /\ [Next]_vars => GroupInv'
  <1> SUFFICES ASSUME IInv, [Next]_vars PROVE GroupInv'
    OBVIOUS
  <1> USE DEF groupVars
  <1>0. PhaseInv /\ GroupInv /\ k \in Nat
    BY DEF IInv, TypeOK
  <1>1. CASE tagaspi_proc_init
    <2>1. mpc = "off" /\ mpc' \in {"off", "init"} /\ UNCHANGED groupVars
      BY <1>1 DEF tagaspi_proc_init
    <2>2. QED
      BY <1>0, <2>1 DEF GroupInv
  <1>2. CASE InitFails \/ getError
    <2>1. mpc' = "gone"
      BY <1>2 DEF InitFails, getError, Fail
    <2>2. QED
      BY <2>1 DEF GroupInv
  <1>3. CASE InitStep \/ RegisterChecker
    <2>1. /\ mpc \in {"init", "register"} /\ mpc' \in {"init", "register"}
          /\ UNCHANGED <<groups, left>> /\ (table' = {} \/ table' = table)
      BY <1>3 DEF InitStep, RegisterChecker
    <2>2. QED
      BY <1>0, <2>1 DEF GroupInv
  <1>4. CASE RegisterNotifications
    <2>1. mpc = "register" /\ mpc' = "app" /\ UNCHANGED groupVars
      BY <1>4 DEF RegisterNotifications
    <2>2. QED
      BY <1>0, <2>1 DEF GroupInv
  <1>5. CASE tagaspi_queue_group_create \/ tagaspi_queue_group_delete
    <2>1. mpc = "app" /\ mpc' = mpc /\ left' = left
      BY <1>5 DEF tagaspi_queue_group_create, tagaspi_queue_group_delete
    <2>2. groups = left \cup table /\ left \cap table = {}
      BY <1>0, <2>1 DEF GroupInv
    <2>3. groups' = left' \cup table' /\ left' \cap table' = {}
      BY <1>5, <2>1, <2>2 DEF tagaspi_queue_group_create, tagaspi_queue_group_delete
    <2>4. QED
      BY <2>1, <2>3 DEF GroupInv
  <1>6. CASE tagaspi_proc_term
    <2>1. /\ mpc = "app" /\ mpc' = "term" /\ k' = 1 /\ left' = left \cup table
          /\ groups' = groups
      BY <1>6 DEF tagaspi_proc_term
    <2>2. QED
      BY <1>0, <2>1 DEF GroupInv
  <1>7. CASE FinalizeStep
    <2>1. /\ mpc = "term" /\ UNCHANGED <<groups, left>>
          /\ table' = IF FinalizeOrder[k] = "groups" THEN {} ELSE table
          /\ mpc' = IF FinalizeOrder[k] = "polling" THEN "stop"
                    ELSE IF FinalizeOrder[k] = "disable" THEN "off" ELSE mpc
          /\ k' = IF FinalizeOrder[k] = "polling" THEN 0
                  ELSE IF FinalizeOrder[k] = "disable" THEN 1 ELSE k + 1
      BY <1>7 DEF FinalizeStep
    <2>2. groups = left /\ (k > 6 => table = {}) /\ k \in 1 .. 7
      BY <1>0, <2>1 DEF GroupInv, PhaseInv
    <2>3. CASE k = 7
      BY <2>1, <2>2, <2>3, Orders DEF GroupInv
    <2>4. CASE k = 6
      BY <2>1, <2>2, <2>4, Orders DEF GroupInv
    <2>5. CASE k < 6
      <3>1. mpc' \in {"stop", "term"} /\ ~(k' > 6)
        <4>1. k = 1 \/ k = 2 \/ k = 3 \/ k = 4 \/ k = 5
          BY <2>2, <2>5
        <4>2. QED
          BY <2>1, <4>1, Orders
      <3>2. QED
        BY <2>1, <2>2, <3>1 DEF GroupInv
    <2>6. QED
      BY <2>2, <2>3, <2>4, <2>5
  <1>8. CASE unregisterPolling \/ WaitFinished
    <2>1. /\ mpc \in {"stop", "wait"} /\ UNCHANGED groupVars
          /\ mpc' \in {"stop", "wait"} \/ (mpc' = "term" /\ k' = 2)
      BY <1>8, Orders DEF unregisterPolling, WaitFinished, NextInstance
    <2>2. QED
      BY <1>0, <2>1 DEF GroupInv
  <1>9. CASE Taskwait \/ (\E i \in Instance : PollingStep(i)) \/ \E a \in Actor : Resume(a)
    <2>1. UNCHANGED <<mpc, k, groupVars>>
      BY <1>9 DEF Taskwait, PollingStep, genericPolling, PollingPause, genericCompleted, Resume
    <2>2. QED
      BY <1>0, <2>1 DEF GroupInv
  <1>10. CASE UNCHANGED vars
    BY <1>0, <1>10 DEF GroupInv, vars
  <1>11. QED
    BY <1>1, <1>2, <1>3, <1>4, <1>5, <1>6, <1>7, <1>8, <1>9, <1>10 DEF Next, MainStep, Ended

-----------------------------------------------------------------------------

\* IInv holds at the start and is preserved by every step.
THEOREM Invariance == Spec => []IInv
  <1>1. IInv /\ [Next]_vars => IInv'
    BY StepType, StepPhase, StepTask, StepGroup DEF IInv
  <1>2. QED
    BY InitIInv, <1>1, PTL DEF Spec

\* The state of the environment has its type; in particular never more tasks run
\* than there are CPUs, and the infos are cleared or cover all checkers.
THEOREM TypeCorrect == Spec => []TypeOK
  BY Invariance, PTL DEF IInv

\* InstanceAlive: no task touches a polling instance that was deleted.
THEOREM InstanceAliveCorrect == Spec => []InstanceAlive
  <1>1. IInv => InstanceAlive
    BY DEF IInv, TaskInv, InstanceAlive
  <1>2. QED
    BY <1>1, Invariance, PTL

\* PollingSafe: while a polling function runs, what it uses is there.
THEOREM PollingSafeCorrect == Spec => []PollingSafe
  <1>1. ASSUME IInv PROVE PollingSafe
    <2>1. ASSUME NEW i \in Instance, tpc[i] = "function"
          PROVE  Up /\ HasQueues(i)
      BY <1>1, <2>1 DEF IInv, TaskInv
    <2>2. Up => info # <<>>
      BY InstanceFacts DEF Up
    <2>3. QED
      BY <2>1, <2>2 DEF PollingSafe, Up
  <1>2. QED
    BY <1>1, Invariance, PTL

\* TerminatedClean: a termination leaves no task and no polling instance, frees
\* every part but the vectors of HardwareInfo, and leaks exactly the groups that
\* the application had not deleted.
THEOREM TerminatedCleanCorrect == Spec => []TerminatedClean
  <1>1. IInv => TerminatedClean
    BY DEF IInv, PhaseInv, TaskInv, GroupInv, TerminatedClean
  <1>2. QED
    BY <1>1, Invariance, PTL

\* QueuesDivided: once the library is initialized, every queue is checked by
\* exactly one polling instance, for any numbers of queues and checkers.
THEOREM QueuesDividedCorrect == Spec => []QueuesDivided
  <1>1. ASSUME IInv PROVE QueuesDivided
    <2> SUFFICES ASSUME mpc = "app"
                 PROVE  /\ \A q \in Queue : Cardinality({c \in live \ {NotificationsInstance} :
                                info[c].first <= q /\ q < info[c].first + info[c].num}) = 1
                        /\ \A c \in Registered :
                                info[c] = [num |-> NumQueuesOf(c), first |-> FirstQueue(c)]
      BY DEF QueuesDivided
    <2>1. live = Instances /\ Ranges(NumCheckers) /\ info \in [Checker -> Info]
      BY <1>1 DEF IInv, PhaseInv, Up
    <2>2. \A c \in Registered : c \in Checker /\ c \in Nat /\ c < NumCheckers
      BY QueueCheckersAssumption DEF Registered, Checker
    <2>3. \A c \in Registered : info[c].num = NumQueuesOf(c) /\ info[c].first = FirstQueue(c)
      BY <2>1, <2>2 DEF Ranges
    <2>4. live \ {NotificationsInstance} = Registered
      BY <2>1, <2>2, InstanceFacts DEF Instances
    <2>5. ASSUME NEW q \in Queue
          PROVE  Cardinality({c \in live \ {NotificationsInstance} :
                    info[c].first <= q /\ q < info[c].first + info[c].num}) = 1
      <3>1. PICK c \in Registered : FirstQueue(c) <= q /\ q < FirstQueue(c) + NumQueuesOf(c)
        BY EveryQueue
      <3>2. ASSUME NEW d \in Registered,
                   info[d].first <= q, q < info[d].first + info[d].num
            PROVE  d = c
        <4>1. FirstQueue(d) <= q /\ q < FirstQueue(d) + NumQueuesOf(d)
          BY <2>3, <3>2
        <4>2. /\ FirstQueue(c) \in Nat /\ FirstQueue(d) \in Nat /\ q \in Nat
              /\ NumQueuesOf(c) \in Nat /\ NumQueuesOf(d) \in Nat /\ c \in Nat /\ d \in Nat
          BY <2>2, NextRange DEF Queue
        <4>3. /\ c < d => FirstQueue(c) + NumQueuesOf(c) <= FirstQueue(d)
              /\ d < c => FirstQueue(d) + NumQueuesOf(d) <= FirstQueue(c)
          BY <4>2, RangesOrdered
        <4>4. QED
          BY <3>1, <4>1, <4>2, <4>3
      <3>3. {d \in live \ {NotificationsInstance} :
                info[d].first <= q /\ q < info[d].first + info[d].num} = {c}
        BY <2>3, <2>4, <3>1, <3>2
      <3>4. QED
        BY <3>3, FS_Singleton
    <2>6. ASSUME NEW c \in Registered
          PROVE  info[c] = [num |-> NumQueuesOf(c), first |-> FirstQueue(c)]
      <3>1. info[c] \in Info
        BY <2>1, <2>2
      <3>2. QED
        BY <2>3, <3>1 DEF Info
    <2>7. QED
      BY <2>5, <2>6
  <1>2. QED
    BY <1>1, Invariance, PTL
=============================================================================
