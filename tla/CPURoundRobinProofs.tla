------------------------ MODULE CPURoundRobinProofs -------------------------
(***************************************************************************)
(* Proofs about HardwareInfo and CPURoundRobin, for every machine, however *)
(* its CPUs and nodes are numbered, and every group of queues.             *)
(***************************************************************************)
EXTENDS CPURoundRobin, FiniteSetTheorems, TLAPS

(***************************************************************************)
(* The inductive invariant.                                                *)
(***************************************************************************)

\* The CPUs below k that can be used, and their nodes.
Usable(k) == {d \in 0 .. k - 1 : machine.node[d] # -1}
Nodes(k) == {machine.node[d] : d \in Usable(k)}

\* x is the greatest number of S, 0 if there is none.
IsLast(x, S) == IF S = {} THEN x = 0 ELSE x \in S /\ \A y \in S : y <= x

\* What initialize has collected when it comes to CPU c.
LoopInv ==
    /\ c \in 0 .. possibleCPUs
    /\ cpuToNUMANode =
        [d \in 0 .. possibleCPUs - 1 |-> IF d < c THEN machine.node[d] ELSE -1]
    /\ numaNodeAvailability = [n \in 0 .. machine.maxNUMAs - 1 |-> n \in Nodes(c)]
    /\ numAvailableNUMANodes = Cardinality(Nodes(c))
    /\ IsLast(maxAvailableCPU, Usable(c))
    /\ IsLast(maxAvailableNUMA, Nodes(c))

\* What the vectors hold when it is over.
Collected ==
    \E lastCPU \in UsableCPUs, lastNode \in UsedNodes :
        /\ \A d \in UsableCPUs : d <= lastCPU
        /\ \A n \in UsedNodes : n <= lastNode
        /\ cpuToNUMANode = [d \in 0 .. lastCPU |-> machine.node[d]]
        /\ numaNodeAvailability = [n \in 0 .. lastNode |-> n \in UsedNodes]
        /\ numAvailableNUMANodes = Cardinality(UsedNodes)

HardwareInv ==
    /\ machine \in Machine
    /\ hpc \in {"off", "loop", "ready", "final"}
    /\ hpc = "off" => cpuToNUMANode = Empty /\ numaNodeAvailability = Empty
    /\ hpc = "loop" => LoopInv
    /\ hpc \in {"ready", "final"} => Collected

\* A range of queues of the group, among those given so far.
IsRange(w) ==
    /\ w \in [first : Nat, num : Nat \ {0}]
    /\ group.first <= w.first /\ w.first + w.num <= queue

\* The nodes below k have ranges, one after the other.
Distinct(k) ==
    \A n \in UsedNodes :
        n < k =>
            /\ IsRange(numaQueues[n])
            /\ \A m \in UsedNodes :
                m < n => numaQueues[m].first + numaQueues[m].num <= numaQueues[n].first

\* The available nodes below k, and a bound of the queues they are given.
Before(k) == {n \in UsedNodes : n < k}
Given(k) ==
    Cardinality(Before(k)) * queuesPerNUMA + (IF k < remainingQueues THEN k ELSE remainingQueues)

\* The CPUs of the nodes below k have their queues.
AssignedBelow(k) ==
    \A d \in UsableCPUs : machine.node[d] < k => assignation[d] = QueueOf(d)

\* Where the set-up is tells how many nodes, and then CPUs, are served.
SetupInv ==
    /\ pc \in {"start", "distinct", "oneToOne", "last", "cpus", "done"}
    /\ pc = "start" => numa = 0 /\ numAssigned = 0
    /\ pc # "start" =>
        /\ hpc \in {"ready", "final"}
        /\ group \in Groups(machine)
        /\ numa \in Nat
        /\ queue \in Nat
        /\ DOMAIN numaQueues = 0 .. maxNUMAs - 1
        /\ DOMAIN assignation = CPUs
    /\ pc = "distinct" =>
        /\ numNUMAs <= group.num /\ numa <= maxNUMAs
        /\ Distinct(numa)
        /\ group.first <= queue /\ queue <= group.first + Given(numa)
    /\ pc = "oneToOne" => numa = 0
    /\ pc \in {"oneToOne", "last"} => group.num < numNUMAs
    /\ pc \in {"cpus", "done"} /\ numNUMAs <= group.num =>
        Distinct(maxNUMAs) /\ queue <= group.first + group.num
    /\ pc = "cpus" => AssignedBelow(numa)
    /\ pc = "done" => AssignedBelow(maxNUMAs)

IInv == HardwareInv /\ SetupInv

(***************************************************************************)
(* Fewer queues than nodes: what the code does then, for every group.      *)
(***************************************************************************)

\* The range that a node ends with, if the loop of QueueGroup.hpp:134 ends.
FewRange(n) ==
    IF n >= group.num - 1 THEN [first |-> group.num - 1, num |-> 1]
    ELSE IF n = 0 THEN [first |-> group.num - 2, num |-> 1]
    ELSE Unset

\* The range of a node while that loop gives node 0 one queue after the other.
LoopRange(n) ==
    IF n = 0 /\ numAssigned > 0 THEN [first |-> numAssigned - 1, num |-> 1] ELSE Unset

\* The last queue has been given to the nodes below k.
FewBelow(k) ==
    \A n \in UsedNodes :
        numaQueues[n] = IF n < k \/ n < group.num - 1 THEN FewRange(n) ELSE Unset

FewInv ==
    pc # "start" /\ group.num < numNUMAs =>
        /\ pc = "oneToOne" =>
            /\ numAssigned \in 0 .. group.num - 1
            /\ numAssigned > 0 => 0 \in UsedNodes
            /\ \A n \in UsedNodes : numaQueues[n] = LoopRange(n)
        /\ pc \in {"last", "cpus", "done"} => group.num = 1 \/ 0 \in UsedNodes
        /\ pc = "last" => group.num - 1 <= numa /\ numa <= maxNUMAs /\ FewBelow(numa)
        /\ pc \in {"cpus", "done"} => FewBelow(maxNUMAs)

-----------------------------------------------------------------------------

(***************************************************************************)
(* HardwareInfo.                                                           *)
(***************************************************************************)

\* The CPUs of a machine are numbered from 0, and some can be used.
LEMMA MachineFacts ==
    ASSUME machine \in Machine
    PROVE  /\ possibleCPUs \in Nat \ {0} /\ machine.maxNUMAs \in Nat \ {0}
           /\ DOMAIN machine.node = 0 .. possibleCPUs - 1
           /\ \A d \in 0 .. possibleCPUs - 1 : machine.node[d] \in -1 .. machine.maxNUMAs - 1
           /\ UsableCPUs = Usable(possibleCPUs) /\ UsedNodes = Nodes(possibleCPUs)
           /\ UsableCPUs # {} /\ UsedNodes # {}
  <1>1. IsMachine(machine)
    BY HardwareAssumption
  <1>2. possibleCPUs \in Nat
    BY <1>1, FS_CardinalityType DEF IsMachine, possibleCPUs
  <1>3. /\ machine.maxNUMAs \in Nat \ {0}
        /\ machine.node \in [0 .. possibleCPUs - 1 -> -1 .. machine.maxNUMAs - 1]
        /\ \E d \in DOMAIN machine.node : machine.node[d] # -1
    BY <1>1 DEF IsMachine, possibleCPUs
  <1>4. DOMAIN machine.node = 0 .. possibleCPUs - 1
    BY <1>3
  <1>5. possibleCPUs # 0
    BY <1>2, <1>3, <1>4
  <1>6. UsableCPUs = Usable(possibleCPUs) /\ UsableCPUs # {}
    BY <1>3, <1>4 DEF UsableCPUs, Usable
  <1>7. UsedNodes = Nodes(possibleCPUs) /\ UsedNodes # {}
    BY <1>6 DEF UsedNodes, Nodes
  <1>8. QED
    BY <1>2, <1>3, <1>4, <1>5, <1>6, <1>7

\* The nodes are finitely many numbers.
LEMMA NodesFacts ==
    ASSUME machine \in Machine, NEW k \in 0 .. possibleCPUs
    PROVE  /\ Usable(k) \subseteq 0 .. k - 1
           /\ Nodes(k) \subseteq 0 .. machine.maxNUMAs - 1
           /\ IsFiniteSet(Nodes(k)) /\ Cardinality(Nodes(k)) \in Nat
  <1>0. /\ possibleCPUs \in Nat /\ machine.maxNUMAs \in Nat
        /\ \A d \in 0 .. possibleCPUs - 1 : machine.node[d] \in -1 .. machine.maxNUMAs - 1
    BY MachineFacts
  <1>1. Usable(k) \subseteq 0 .. k - 1 /\ Usable(k) \subseteq 0 .. possibleCPUs - 1
    BY <1>0 DEF Usable
  <1>2. Nodes(k) \subseteq 0 .. machine.maxNUMAs - 1
    <2> SUFFICES ASSUME NEW d \in Usable(k) PROVE machine.node[d] \in 0 .. machine.maxNUMAs - 1
      BY DEF Nodes
    <2>1. machine.node[d] \in -1 .. machine.maxNUMAs - 1 /\ machine.node[d] # -1
      BY <1>0, <1>1 DEF Usable
    <2>2. QED
      BY <1>0, <2>1
  <1>3. IsFiniteSet(0 .. machine.maxNUMAs - 1)
    BY <1>0, FS_Interval
  <1>4. QED
    BY <1>1, <1>2, <1>3, FS_Subset, FS_CardinalityType

\* One iteration of the loop: a CPU that can be used brings its node.
LEMMA NextCPU ==
    ASSUME machine \in Machine, NEW k \in 0 .. possibleCPUs - 1
    PROVE  /\ machine.node[k] = -1 => Usable(k + 1) = Usable(k) /\ Nodes(k + 1) = Nodes(k)
           /\ machine.node[k] # -1 => /\ Usable(k + 1) = Usable(k) \cup {k}
                                      /\ Nodes(k + 1) = Nodes(k) \cup {machine.node[k]}
  <1>0. possibleCPUs \in Nat
    BY MachineFacts
  <1>1. machine.node[k] = -1 => Usable(k + 1) = Usable(k)
    BY <1>0 DEF Usable
  <1>2. machine.node[k] # -1 => Usable(k + 1) = Usable(k) \cup {k}
    BY <1>0 DEF Usable
  <1>3. QED
    BY <1>1, <1>2 DEF Nodes

\* The first state of the loop.
LEMMA InitializeKeeps == HardwareInv /\ initialize => HardwareInv'
  <1> SUFFICES ASSUME HardwareInv, initialize PROVE HardwareInv'
    OBVIOUS
  <1>0. machine \in Machine /\ machine' = machine /\ hpc' = "loop" /\ c' = 0
    BY DEF HardwareInv, initialize
  <1>1. possibleCPUs \in Nat /\ possibleCPUs' = possibleCPUs
    BY <1>0, MachineFacts DEF possibleCPUs
  <1>2. cpuToNUMANode = Empty /\ numaNodeAvailability = Empty
    BY DEF HardwareInv, initialize
  <1>3. Usable(0)' = {} /\ Nodes(0)' = {}
    BY <1>0 DEF Usable, Nodes
  <1>4. Cardinality({}) = 0
    BY FS_EmptySet
  <1>5. cpuToNUMANode' = [d \in 0 .. possibleCPUs - 1 |-> -1]
    BY <1>2 DEF initialize, resize, Empty
  <1>6. numaNodeAvailability' = [n \in 0 .. machine.maxNUMAs - 1 |-> FALSE]
    BY <1>2 DEF initialize, resize, Empty
  <1>7. cpuToNUMANode' =
            [d \in 0 .. possibleCPUs' - 1 |-> IF d < c' THEN machine'.node[d] ELSE -1]
    BY <1>0, <1>1, <1>5
  <1>8. numaNodeAvailability' = [n \in 0 .. machine'.maxNUMAs - 1 |-> n \in Nodes(0)']
    <2>1. \A n : (n \in Nodes(0)') = FALSE
      BY <1>3
    <2>2. machine'.maxNUMAs = machine.maxNUMAs
      BY <1>0
    <2>3. QED
      BY <1>6, <2>1, <2>2, Zenon
  <1>9. Nodes(c)' = {} /\ Usable(c)' = {} /\ Nodes(c)' = Nodes(0)'
    BY <1>0 DEF Usable, Nodes
  <1>10. LoopInv'
    <2>1. c' \in 0 .. possibleCPUs'
      BY <1>0, <1>1
    <2>2. numAvailableNUMANodes' = Cardinality(Nodes(c))'
      BY <1>4, <1>9 DEF initialize
    <2>3. IsLast(maxAvailableCPU, Usable(c))' /\ IsLast(maxAvailableNUMA, Nodes(c))'
      BY <1>9 DEF initialize, IsLast
    <2>4. numaNodeAvailability' = [n \in 0 .. machine'.maxNUMAs - 1 |-> n \in Nodes(c)']
      BY <1>8, <1>9, Zenon
    <2>5. QED
      BY <1>7, <2>1, <2>2, <2>3, <2>4, Zenon DEF LoopInv
  <1>11. QED
    BY <1>0, <1>10 DEF HardwareInv

\* One iteration keeps what the loop has collected.
LEMMA CheckCPUKeeps == HardwareInv /\ CheckCPU => HardwareInv'
  <1> SUFFICES ASSUME HardwareInv, CheckCPU PROVE HardwareInv'
    OBVIOUS
  <1>0. /\ machine \in Machine /\ machine' = machine /\ hpc = "loop" /\ hpc' = "loop"
        /\ LoopInv /\ c' = c + 1 /\ c < possibleCPUs
    BY DEF HardwareInv, CheckCPU
  <1>1. PICK k \in 0 .. possibleCPUs - 1 : k = c
    BY <1>0, MachineFacts DEF LoopInv
  <1>2. PICK P \in Nat : P = possibleCPUs /\ P = possibleCPUs'
    BY <1>0, MachineFacts DEF possibleCPUs
  <1>3. PICK n0 \in -1 .. machine.maxNUMAs - 1 : n0 = machine.node[k]
    BY <1>0, MachineFacts
  <1>4. /\ Usable(k) \subseteq 0 .. k - 1 /\ Nodes(k) \subseteq 0 .. machine.maxNUMAs - 1
        /\ IsFiniteSet(Nodes(k)) /\ machine.maxNUMAs \in Nat
    BY <1>0, <1>1, MachineFacts, NodesFacts
  <1>5. /\ Usable(c)' = Usable(k + 1) /\ Nodes(c)' = Nodes(k + 1)
        /\ Usable(c) = Usable(k) /\ Nodes(c) = Nodes(k)
    BY <1>0, <1>1 DEF Usable, Nodes
  <1>c. c' \in 0 .. possibleCPUs'
    BY <1>0, <1>1, <1>2
  <1>6. CASE n0 = -1
    <2>1. Usable(k + 1) = Usable(k) /\ Nodes(k + 1) = Nodes(k)
      BY <1>0, <1>3, <1>6, NextCPU
    <2>2. UNCHANGED <<infoVars, maxVars>>
      BY <1>1, <1>3, <1>6 DEF CheckCPU
    <2>3. cpuToNUMANode' = [d \in 0 .. P - 1 |-> IF d < k + 1 THEN machine.node[d] ELSE -1]
      <3>1. cpuToNUMANode' = [d \in 0 .. P - 1 |-> IF d < k THEN machine.node[d] ELSE -1]
        BY <1>0, <1>1, <1>2, <2>2 DEF LoopInv, infoVars
      <3>2. \A d \in 0 .. P - 1 : d < k + 1 <=> d < k \/ d = k
        BY <1>1, <1>2
      <3>3. QED
        BY <1>3, <1>6, <3>1, <3>2
    <2>4. LoopInv'
      BY <1>0, <1>1, <1>2, <1>5, <1>c, <2>1, <2>2, <2>3 DEF LoopInv, infoVars, maxVars
    <2>5. QED
      BY <1>0, <2>4 DEF HardwareInv
  <1>7. CASE n0 # -1
    <2>0. n0 \in 0 .. machine.maxNUMAs - 1 /\ n0 \in Nat /\ k \in Nat
      BY <1>1, <1>4, <1>7
    <2>1. Usable(k + 1) = Usable(k) \cup {k} /\ Nodes(k + 1) = Nodes(k) \cup {n0}
      BY <1>0, <1>3, <1>7, NextCPU
    <2>2. /\ cpuToNUMANode' = [cpuToNUMANode EXCEPT ![k] = n0]
          /\ numaNodeAvailability' = [numaNodeAvailability EXCEPT ![n0] = TRUE]
          /\ numAvailableNUMANodes' = numAvailableNUMANodes + (IF IsNew(n0) THEN 1 ELSE 0)
          /\ maxAvailableCPU' = k
          /\ maxAvailableNUMA' = IF maxAvailableNUMA < n0 THEN n0 ELSE maxAvailableNUMA
      BY <1>1, <1>3, <1>7 DEF CheckCPU
    <2>3. cpuToNUMANode' = [d \in 0 .. P - 1 |-> IF d < k + 1 THEN machine.node[d] ELSE -1]
      <3>1. cpuToNUMANode = [d \in 0 .. P - 1 |-> IF d < k THEN machine.node[d] ELSE -1]
        BY <1>0, <1>1, <1>2 DEF LoopInv
      <3>2. \A d \in 0 .. P - 1 : d < k + 1 <=> d < k \/ d = k
        BY <1>1, <1>2
      <3>3. QED
        BY <1>3, <2>2, <3>1, <3>2
    <2>4. numaNodeAvailability' = [n \in 0 .. machine.maxNUMAs - 1 |-> n \in Nodes(k + 1)]
      <3>1. numaNodeAvailability = [n \in 0 .. machine.maxNUMAs - 1 |-> n \in Nodes(k)]
        BY <1>0, <1>5, Zenon DEF LoopInv
      <3>2. numaNodeAvailability'
                = [n \in 0 .. machine.maxNUMAs - 1 |-> IF n = n0 THEN TRUE ELSE n \in Nodes(k)]
        BY <2>2, <3>1, Zenon
      <3>3. ASSUME NEW n
            PROVE  (IF n = n0 THEN TRUE ELSE n \in Nodes(k)) = (n \in Nodes(k + 1))
        <4>1. CASE n = n0
          BY <2>1, <4>1
        <4>2. CASE n # n0
          <5>1. n \in Nodes(k + 1) <=> n \in Nodes(k)
            BY <2>1, <4>2
          <5>2. QED
            BY <4>2, <5>1
        <4>3. QED
          BY <4>1, <4>2
      <3>4. QED
        BY <3>2, <3>3, Zenon
    <2>5. IsNew(n0) <=> n0 \notin Nodes(k)
      BY <1>0, <1>5, <2>0 DEF LoopInv, IsNew
    <2>6. numAvailableNUMANodes' = Cardinality(Nodes(k + 1))
      <3>1. numAvailableNUMANodes = Cardinality(Nodes(k)) /\ Cardinality(Nodes(k)) \in Nat
        BY <1>0, <1>4, <1>5, FS_CardinalityType DEF LoopInv
      <3>2. Cardinality(Nodes(k) \cup {n0})
                = IF n0 \in Nodes(k) THEN Cardinality(Nodes(k)) ELSE Cardinality(Nodes(k)) + 1
        BY <1>4, FS_AddElement
      <3>3. QED
        BY <2>1, <2>2, <2>5, <3>1, <3>2
    <2>7. IsLast(maxAvailableCPU', Usable(k + 1))
      BY <1>4, <2>0, <2>1, <2>2 DEF IsLast
    <2>8. IsLast(maxAvailableNUMA', Nodes(k + 1))
      <3>1. IsLast(maxAvailableNUMA, Nodes(k))
        BY <1>0, <1>5 DEF LoopInv
      <3>2. maxAvailableNUMA \in Nat
        BY <1>4, <3>1 DEF IsLast
      <3>3. QED
        BY <1>4, <2>0, <2>1, <2>2, <3>1, <3>2 DEF IsLast
    <2>9. LoopInv'
      BY <1>0, <1>1, <1>2, <1>5, <1>c, <2>3, <2>4, <2>6, <2>7, <2>8 DEF LoopInv
    <2>10. QED
      BY <1>0, <2>9 DEF HardwareInv
  <1>8. QED
    BY <1>6, <1>7

\* The end of initialize: the vectors are cut after the last CPU and node.
LEMMA ShrinkKeeps == HardwareInv /\ Shrink => HardwareInv'
  <1> SUFFICES ASSUME HardwareInv, Shrink PROVE HardwareInv'
    OBVIOUS
  <1>0. /\ machine \in Machine /\ machine' = machine /\ hpc' = "ready"
        /\ LoopInv /\ c = possibleCPUs
    BY DEF HardwareInv, Shrink
  <1>1. PICK P \in Nat \ {0} : P = possibleCPUs
    BY <1>0, MachineFacts
  <1>2. PICK U : U = UsableCPUs /\ U = UsableCPUs' /\ U = Usable(c) /\ U # {}
    BY <1>0, MachineFacts DEF UsableCPUs
  <1>3. PICK N : N = UsedNodes /\ N = UsedNodes' /\ N = Nodes(c) /\ N # {}
    BY <1>0, <1>2, MachineFacts DEF UsedNodes
  <1>4. U \subseteq 0 .. P - 1 /\ N \subseteq 0 .. machine.maxNUMAs - 1 /\ machine.maxNUMAs \in Nat
    BY <1>0, <1>1, <1>2, <1>3, MachineFacts, NodesFacts
  <1>5. PICK x \in U : x = maxAvailableCPU /\ \A y \in U : y <= x
    BY <1>0, <1>2 DEF LoopInv, IsLast
  <1>6. PICK z \in N : z = maxAvailableNUMA /\ \A y \in N : y <= z
    BY <1>0, <1>3 DEF LoopInv, IsLast
  <1>7. cpuToNUMANode' = [d \in 0 .. x |-> machine'.node[d]]
    <2>1. cpuToNUMANode = [d \in 0 .. P - 1 |-> IF d < P THEN machine.node[d] ELSE -1]
      BY <1>0, <1>1 DEF LoopInv
    <2>2. cpuToNUMANode' = [i \in 0 .. x |-> IF i \in 0 .. P - 1 THEN cpuToNUMANode[i] ELSE -1]
      <3>1. 0 .. (maxAvailableCPU + 1) - 1 = 0 .. x
        BY <1>4, <1>5
      <3>2. DOMAIN cpuToNUMANode = 0 .. P - 1
        BY <2>1
      <3>3. QED
        BY <3>1, <3>2, Zenon DEF Shrink, resize, Needed
    <2>3. \A i \in 0 .. x : i \in 0 .. P - 1 /\ i < P
      BY <1>1, <1>4, <1>5
    <2>4. QED
      BY <1>0, <2>1, <2>2, <2>3
  <1>8. numaNodeAvailability' = [n \in 0 .. z |-> n \in N]
    <2>1. numaNodeAvailability = [n \in 0 .. machine.maxNUMAs - 1 |-> n \in N]
      BY <1>0, <1>3, Zenon DEF LoopInv
    <2>2. numaNodeAvailability'
              = [i \in 0 .. z |-> IF i \in 0 .. machine.maxNUMAs - 1
                                  THEN numaNodeAvailability[i] ELSE FALSE]
      <3>1. 0 .. (maxAvailableNUMA + 1) - 1 = 0 .. z
        BY <1>4, <1>6
      <3>2. DOMAIN numaNodeAvailability = 0 .. machine.maxNUMAs - 1
        BY <2>1, Zenon
      <3>3. QED
        BY <3>1, <3>2, Zenon DEF Shrink, resize, Needed
    <2>3. \A i \in 0 .. z : i \in 0 .. machine.maxNUMAs - 1
      BY <1>4, <1>6
    <2>4. QED
      BY <2>1, <2>2, <2>3, Zenon
  <1>9. numAvailableNUMANodes' = Cardinality(N)
    BY <1>0, <1>3 DEF LoopInv, Shrink
  <1>10. Collected'
    BY <1>2, <1>3, <1>5, <1>6, <1>7, <1>8, <1>9, Zenon DEF Collected
  <1>11. QED
    BY <1>0, <1>10 DEF HardwareInv

\* What has been collected does not change any more.
LEMMA FrameHardware == HardwareInv /\ UNCHANGED hardwareVars => HardwareInv'
  <1> SUFFICES ASSUME HardwareInv, UNCHANGED hardwareVars PROVE HardwareInv'
    OBVIOUS
  <1> USE DEF hardwareVars, infoVars, maxVars
  <1>1. LoopInv => LoopInv'
    <2>1. Nodes(c)' = Nodes(c) /\ Usable(c)' = Usable(c) /\ possibleCPUs' = possibleCPUs
      BY DEF Nodes, Usable, possibleCPUs
    <2>2. QED
      BY <2>1 DEF LoopInv, IsLast
  <1>2. Collected => Collected'
    BY DEF Collected, UsedNodes, UsableCPUs
  <1>3. QED
    BY <1>1, <1>2 DEF HardwareInv

LEMMA FinalizeKeeps == HardwareInv /\ finalize => HardwareInv'
  <1> SUFFICES ASSUME HardwareInv, finalize PROVE HardwareInv'
    OBVIOUS
  <1>0. /\ machine' = machine /\ hpc = "ready" /\ hpc' = "final"
        /\ UNCHANGED infoVars
    BY DEF finalize
  <1>1. Collected
    BY <1>0 DEF HardwareInv
  <1>2. Collected'
    BY <1>0, <1>1 DEF Collected, UsedNodes, UsableCPUs, infoVars
  <1>3. QED
    BY <1>0, <1>2 DEF HardwareInv

\* A step of the set-up leaves the hardware information alone.
LEMMA StepHardware == HardwareInv /\ [Next]_vars => HardwareInv'
  <1> SUFFICES ASSUME HardwareInv, [Next]_vars PROVE HardwareInv'
    OBVIOUS
  <1>1. CASE Hardware
    BY <1>1, InitializeKeeps, CheckCPUKeeps, ShrinkKeeps DEF Hardware
  <1>2. CASE Finalize
    BY <1>2, FinalizeKeeps DEF Finalize
  <1>3. CASE UNCHANGED vars
    BY <1>3, FrameHardware DEF vars
  <1>4. CASE /\ ~Hardware /\ ~Finalize /\ ~UNCHANGED vars
    <2>1. UNCHANGED hardwareVars
      BY <1>4 DEF Next, setupCPURoundRobinData, AssignDistinct, AssignOneToOne, OneToOneDone,
                  AssignLast, RangesDone, AssignCPUs, CPUsDone, Ended
    <2>2. QED
      BY <2>1, FrameHardware
  <1>5. QED
    BY <1>1, <1>2, <1>3, <1>4

\* Numbers have one greatest.
LEMMA LastUnique ==
    ASSUME NEW S \in SUBSET Int, NEW x \in S, \A y \in S : y <= x
    PROVE  (CHOOSE w \in S : \A y \in S : y <= w) = x
  <1> DEFINE w == CHOOSE w \in S : \A y \in S : y <= w
  <1>1. w \in S /\ \A y \in S : y <= w
    OBVIOUS
  <1>2. w <= x /\ x <= w /\ w \in Int /\ x \in Int
    BY <1>1
  <1>3. w = x
    BY <1>2
  <1>4. QED
    BY <1>3

\* What initialize leaves, with names for the last CPU and node.
LEMMA Known ==
    ASSUME HardwareInv, hpc \in {"ready", "final"}
    PROVE  \E x \in UsableCPUs, z \in UsedNodes :
             /\ \A d \in UsableCPUs : d \in 0 .. x
             /\ \A n \in UsedNodes : n \in 0 .. z
             /\ x \in Nat /\ z \in Nat
             /\ cpuToNUMANode = [d \in 0 .. x |-> machine.node[d]]
             /\ numaNodeAvailability = [n \in 0 .. z |-> n \in UsedNodes]
             /\ numAvailableNUMANodes = Cardinality(UsedNodes)
             /\ numAvailableNUMANodes \in Nat \ {0}
             /\ IsFiniteSet(UsedNodes)
             /\ maxNUMAs = z + 1
  <1>1. PICK x \in UsableCPUs, z \in UsedNodes :
            /\ \A d \in UsableCPUs : d <= x
            /\ \A n \in UsedNodes : n <= z
            /\ cpuToNUMANode = [d \in 0 .. x |-> machine.node[d]]
            /\ numaNodeAvailability = [n \in 0 .. z |-> n \in UsedNodes]
            /\ numAvailableNUMANodes = Cardinality(UsedNodes)
    BY Zenon DEF HardwareInv, Collected
  <1>2. machine \in Machine
    BY DEF HardwareInv
  <1>3. /\ UsableCPUs = Usable(possibleCPUs) /\ UsedNodes = Nodes(possibleCPUs)
        /\ UsedNodes # {} /\ possibleCPUs \in Nat /\ machine.maxNUMAs \in Nat
    BY <1>2, MachineFacts
  <1>4. possibleCPUs \in 0 .. possibleCPUs
    BY <1>3
  <1>5. /\ UsableCPUs \subseteq 0 .. possibleCPUs - 1
        /\ UsedNodes \subseteq 0 .. machine.maxNUMAs - 1
        /\ IsFiniteSet(UsedNodes) /\ Cardinality(UsedNodes) \in Nat
    BY <1>2, <1>3, <1>4, NodesFacts
  <1>6. Cardinality(UsedNodes) # 0
    BY <1>3, <1>5, FS_EmptySet
  <1>7. x \in Nat /\ z \in Nat
    BY <1>1, <1>5
  <1>8. /\ \A d \in UsableCPUs : d \in 0 .. x
        /\ \A n \in UsedNodes : n \in 0 .. z
    <2>1. \A d \in UsableCPUs : d \in Nat /\ d <= x
      BY <1>1, <1>5
    <2>2. \A n \in UsedNodes : n \in Nat /\ n <= z
      BY <1>1, <1>5
    <2>3. QED
      BY <1>7, <2>1, <2>2
  <1>9. DOMAIN numaNodeAvailability = 0 .. z
    BY <1>1, Zenon
  <1>10. Cardinality(0 .. z) = z + 1
    BY <1>7, FS_Interval
  <1>11. maxNUMAs = z + 1
    BY <1>9, <1>10 DEF maxNUMAs
  <1>12. numAvailableNUMANodes \in Nat \ {0}
    BY <1>1, <1>5, <1>6
  <1>13. QED
    BY <1>1, <1>5, <1>7, <1>8, <1>11, <1>12, Zenon

LEMMA InvKnown == HardwareInv => HardwareKnown
  <1> SUFFICES ASSUME HardwareInv, hpc = "ready" PROVE HardwareKnown
    BY DEF HardwareKnown
  <1>1. PICK x \in UsableCPUs, z \in UsedNodes :
            /\ \A d \in UsableCPUs : d \in 0 .. x
            /\ \A n \in UsedNodes : n \in 0 .. z
            /\ x \in Nat /\ z \in Nat
            /\ cpuToNUMANode = [d \in 0 .. x |-> machine.node[d]]
            /\ numaNodeAvailability = [n \in 0 .. z |-> n \in UsedNodes]
            /\ numAvailableNUMANodes = Cardinality(UsedNodes)
            /\ numAvailableNUMANodes \in Nat \ {0}
    BY Known, Zenon
  <1>2. (CHOOSE w \in UsableCPUs : \A y \in UsableCPUs : y <= w) = x
    <2>1. UsableCPUs \in SUBSET Int /\ \A y \in UsableCPUs : y <= x
      BY <1>1
    <2>2. QED
      BY <2>1, LastUnique
  <1>3. (CHOOSE w \in UsedNodes : \A y \in UsedNodes : y <= w) = z
    <2>1. UsedNodes \in SUBSET Int /\ \A y \in UsedNodes : y <= z
      BY <1>1
    <2>2. QED
      BY <2>1, LastUnique
  <1>4. numAvailableNUMANodes > 0
    BY <1>1
  <1>5. QED
    BY <1>1, <1>2, <1>3, <1>4, Zenon DEF HardwareKnown, UsableCPUs, UsedNodes

-----------------------------------------------------------------------------

(***************************************************************************)
(* The set-up of a group.                                                  *)
(***************************************************************************)

\* What the set-up knows of the machine.
LEMMA SetupFacts ==
    ASSUME HardwareInv, hpc \in {"ready", "final"}
    PROVE  /\ maxNUMAs \in Nat
           /\ UsedNodes \subseteq 0 .. maxNUMAs - 1 /\ IsFiniteSet(UsedNodes)
           /\ numNUMAs = Cardinality(UsedNodes) /\ numNUMAs \in Nat \ {0}
           /\ \A n \in 0 .. maxNUMAs - 1 : isAvailable(n) <=> n \in UsedNodes
           /\ IsFiniteSet(CPUs)
           /\ \A d \in UsableCPUs : /\ d \in CPUs /\ cpuToNUMANode[d] = machine.node[d]
                                    /\ machine.node[d] \in UsedNodes
  <1>1. PICK x \in UsableCPUs, z \in UsedNodes :
            /\ \A d \in UsableCPUs : d \in 0 .. x
            /\ \A n \in UsedNodes : n \in 0 .. z
            /\ x \in Nat /\ z \in Nat
            /\ cpuToNUMANode = [d \in 0 .. x |-> machine.node[d]]
            /\ numaNodeAvailability = [n \in 0 .. z |-> n \in UsedNodes]
            /\ numAvailableNUMANodes = Cardinality(UsedNodes)
            /\ numAvailableNUMANodes \in Nat \ {0}
            /\ IsFiniteSet(UsedNodes)
            /\ maxNUMAs = z + 1
    BY Known, Zenon
  <1>2. maxNUMAs \in Nat /\ 0 .. maxNUMAs - 1 = 0 .. z
    BY <1>1
  <1>3. \A n \in 0 .. z : isAvailable(n) <=> n \in UsedNodes
    BY <1>1, Zenon DEF isAvailable
  <1>4. CPUs = 0 .. x /\ IsFiniteSet(0 .. x)
    BY <1>1, FS_Interval DEF CPUs
  <1>5. \A d \in UsableCPUs : /\ d \in CPUs /\ cpuToNUMANode[d] = machine.node[d]
                              /\ machine.node[d] \in UsedNodes
    BY <1>1, <1>4 DEF UsedNodes
  <1>6. QED
    BY <1>1, <1>2, <1>3, <1>4, <1>5, Zenon DEF numNUMAs

\* The queues of a group divided among the nodes.
LEMMA DivMod ==
    ASSUME NEW a \in Nat, NEW b \in Nat \ {0}
    PROVE  /\ a \div b \in Nat /\ (a % b) \in Nat
           /\ a = b * (a \div b) + (a % b)
           /\ b <= a => a \div b >= 1
  OBVIOUS

LEMMA Products ==
    ASSUME NEW a \in Nat, NEW b \in Nat
    PROVE  a * b \in Nat /\ (a + 1) * b = a * b + b /\ 0 * b = 0
  OBVIOUS

\* What the queues are divided into.
LEMMA GroupFacts ==
    ASSUME HardwareInv, hpc \in {"ready", "final"}, group \in Groups(machine)
    PROVE  /\ group.first \in Nat /\ group.num \in Nat \ {0}
           /\ queuesPerNUMA \in Nat /\ remainingQueues \in Nat
           /\ group.num = numNUMAs * queuesPerNUMA + remainingQueues
           /\ numNUMAs <= group.num => queuesPerNUMA >= 1
           /\ group.num < numNUMAs => remainingQueues = group.num
  <1>1. group.first \in Nat /\ group.num \in Nat \ {0}
    BY GroupsAssumption DEF HardwareInv, IsGroup
  <1>2. numNUMAs \in Nat \ {0}
    BY SetupFacts
  <1>3. PICK a \in Nat, b \in Nat \ {0} : a = group.num /\ b = numNUMAs
    BY <1>1, <1>2
  <1>4. a < b => (a % b) = a
    OBVIOUS
  <1>5. QED
    BY <1>1, <1>3, <1>4, DivMod DEF queuesPerNUMA, remainingQueues

\* One node more.
LEMMA NextNode ==
    ASSUME HardwareInv, hpc \in {"ready", "final"}, NEW k \in 0 .. maxNUMAs - 1
    PROVE  /\ Cardinality(Before(k)) \in Nat
           /\ k \in UsedNodes => Cardinality(Before(k + 1)) = Cardinality(Before(k)) + 1
           /\ k \notin UsedNodes => Before(k + 1) = Before(k)
  <1>1. /\ maxNUMAs \in Nat /\ UsedNodes \subseteq 0 .. maxNUMAs - 1
        /\ IsFiniteSet(UsedNodes)
    BY SetupFacts
  <1>2. UsedNodes \subseteq Nat /\ k \in Nat
    BY <1>1
  <1>3. \A n \in UsedNodes : n < k + 1 <=> n < k \/ n = k
    BY <1>2
  <1>4. k \in UsedNodes => Before(k + 1) = Before(k) \cup {k}
    BY <1>3 DEF Before
  <1>5. k \notin UsedNodes => Before(k + 1) = Before(k)
    BY <1>3 DEF Before
  <1>6. IsFiniteSet(Before(k)) /\ k \notin Before(k)
    BY <1>1, <1>2, FS_Subset DEF Before
  <1>7. Cardinality(Before(k) \cup {k}) = Cardinality(Before(k)) + 1
    BY <1>6, FS_AddElement
  <1>8. Cardinality(Before(k)) \in Nat
    BY <1>6, FS_CardinalityType
  <1>9. QED
    BY <1>4, <1>5, <1>7, <1>8

LEMMA BeforeEnds ==
    ASSUME HardwareInv, hpc \in {"ready", "final"}
    PROVE  /\ Cardinality(Before(0)) = 0
           /\ Cardinality(Before(maxNUMAs)) = numNUMAs
  <1>1. /\ maxNUMAs \in Nat /\ UsedNodes \subseteq 0 .. maxNUMAs - 1
        /\ numNUMAs = Cardinality(UsedNodes)
    BY SetupFacts
  <1>2. Before(0) = {} /\ Before(maxNUMAs) = UsedNodes
    <2>1. \A n \in UsedNodes : ~(n < 0) /\ n < maxNUMAs
      BY <1>1
    <2>2. QED
      BY <2>1 DEF Before
  <1>3. QED
    BY <1>1, <1>2, FS_EmptySet

\* A step of the set-up does not change the machine, nor what is derived from it.
LEMMA Same ==
    ASSUME UNCHANGED hardwareVars
    PROVE  /\ machine' = machine /\ hpc' = hpc /\ cpuToNUMANode' = cpuToNUMANode
           /\ UsableCPUs' = UsableCPUs /\ UsedNodes' = UsedNodes
           /\ maxNUMAs' = maxNUMAs /\ numNUMAs' = numNUMAs /\ CPUs' = CPUs
  BY DEF hardwareVars, infoVars, UsableCPUs, UsedNodes, maxNUMAs, numNUMAs, CPUs

LEMMA SameGroup ==
    ASSUME UNCHANGED hardwareVars, group' = group
    PROVE  /\ queuesPerNUMA' = queuesPerNUMA /\ remainingQueues' = remainingQueues
           /\ \A k : Given(k)' = Given(k)
  BY Same DEF queuesPerNUMA, remainingQueues, Given, Before

LEMMA SameQueue ==
    ASSUME UNCHANGED hardwareVars, numaQueues' = numaQueues
    PROVE  \A d : QueueOf(d)' = QueueOf(d)
  BY Same DEF QueueOf, CPUsOf, OffsetIn

\* The call.
LEMMA CallKeeps ==
    ASSUME HardwareInv, SetupInv, NEW g \in Groups(machine), setupCPURoundRobinData(g)
    PROVE  SetupInv'
  <1>0. /\ hpc = "ready" /\ pc = "start" /\ numa = 0 /\ numAssigned = 0
        /\ group' = g /\ queue' = g.first /\ numa' = numa /\ numAssigned' = numAssigned
        /\ UNCHANGED hardwareVars
    BY DEF SetupInv, setupCPURoundRobinData
  <1>1. /\ g.first \in Nat /\ g.num \in Nat \ {0}
    BY GroupsAssumption DEF HardwareInv, IsGroup
  <1>2. /\ numNUMAs \in Nat \ {0} /\ maxNUMAs \in Nat
        /\ UsedNodes \subseteq Nat
    BY <1>0, SetupFacts
  <1>3. pc' = IF g.num >= numNUMAs THEN "distinct" ELSE "oneToOne"
    BY DEF setupCPURoundRobinData
  <1>4. /\ DOMAIN numaQueues' = 0 .. maxNUMAs' - 1
        /\ DOMAIN assignation' = CPUs'
    BY <1>0, Same DEF setupCPURoundRobinData
  <1>5. HardwareInv' /\ hpc' = "ready" /\ group' \in Groups(machine)' /\ maxNUMAs' \in Nat
    BY <1>0, <1>2, FrameHardware, Same DEF setupCPURoundRobinData
  <1>6. Distinct(0)'
    <2>0. \A n \in UsedNodes' : n \in Nat
      BY <1>0, <1>2, Same
    <2>1. \A n \in UsedNodes' : ~(n < 0)
      BY <2>0
    <2>2. QED
      BY <2>1 DEF Distinct
  <1>7. Given(0)' \in Nat
    <2>1. PICK p \in Nat, r \in Nat : p = queuesPerNUMA' /\ r = remainingQueues'
      <3>1. PICK a \in Nat, b \in Nat \ {0} : a = group'.num /\ b = numNUMAs'
        BY <1>0, <1>1, <1>2, Same
      <3>2. queuesPerNUMA' = a \div b /\ remainingQueues' = a % b
        BY <3>1 DEF queuesPerNUMA, remainingQueues
      <3>3. QED
        BY <3>2, DivMod
    <2>2. Cardinality(Before(0))' = 0
      BY <1>0, BeforeEnds, Same DEF Before
    <2>3. Cardinality(Before(0))' * queuesPerNUMA' = 0
      BY <2>1, <2>2, Products
    <2>4. QED
      BY <2>1, <2>2, <2>3 DEF Given
  <1>8. numNUMAs' = numNUMAs
    BY <1>0, Same
  <1>9. group'.first <= queue' /\ queue' <= group'.first + Given(0)' /\ queue' \in Nat
    BY <1>0, <1>1, <1>7
  <1>10. CASE g.num >= numNUMAs
    <2>1. pc' = "distinct" /\ numNUMAs' <= group'.num /\ numa' = 0
      BY <1>0, <1>1, <1>2, <1>3, <1>8, <1>10
    <2>2. Distinct(numa)' /\ Given(numa)' = Given(0)'
      BY <1>6, <2>1 DEF Distinct, Given, Before
    <2>3. QED
      BY <1>4, <1>5, <1>9, <2>1, <2>2 DEF SetupInv
  <1>11. CASE ~(g.num >= numNUMAs)
    <2>1. pc' = "oneToOne" /\ group'.num < numNUMAs' /\ numa' = 0
      BY <1>0, <1>1, <1>2, <1>3, <1>8, <1>11
    <2>2. QED
      BY <1>4, <1>5, <1>9, <2>1 DEF SetupInv
  <1>12. QED
    BY <1>10, <1>11

\* One node of the loop that gives distinct ranges.
LEMMA AssignDistinctKeeps == HardwareInv /\ SetupInv /\ AssignDistinct => SetupInv'
  <1> SUFFICES ASSUME HardwareInv, SetupInv, AssignDistinct PROVE SetupInv'
    OBVIOUS
  <1>0. /\ pc = "distinct" /\ pc' = "distinct" /\ hpc \in {"ready", "final"}
        /\ group \in Groups(machine) /\ group' = group
        /\ UNCHANGED hardwareVars
        /\ numNUMAs <= group.num
        /\ DOMAIN numaQueues = 0 .. maxNUMAs - 1 /\ DOMAIN assignation = CPUs
        /\ numa \in Nat /\ queue \in Nat /\ numa < maxNUMAs
        /\ numa' = numa + 1 /\ assignation' = assignation
        /\ Distinct(numa) /\ group.first <= queue /\ queue <= group.first + Given(numa)
    BY DEF AssignDistinct, SetupInv
  <1>1. /\ maxNUMAs \in Nat /\ UsedNodes \subseteq 0 .. maxNUMAs - 1
        /\ \A n \in 0 .. maxNUMAs - 1 : isAvailable(n) <=> n \in UsedNodes
    BY <1>0, SetupFacts
  <1>2. /\ group.first \in Nat /\ group.num \in Nat
        /\ queuesPerNUMA \in Nat /\ remainingQueues \in Nat /\ queuesPerNUMA >= 1
    BY <1>0, GroupFacts
  <1>3. PICK k \in 0 .. maxNUMAs - 1 : k = numa
    BY <1>0, <1>1
  <1>4. /\ machine' = machine /\ hpc' = hpc /\ UsedNodes' = UsedNodes /\ maxNUMAs' = maxNUMAs
        /\ numNUMAs' = numNUMAs /\ CPUs' = CPUs /\ Given(k + 1)' = Given(k + 1)
    BY <1>0, Same, SameGroup
  <1>5. PICK x \in Nat, p \in Nat, r \in Nat, s \in Nat :
            /\ x = Cardinality(Before(k)) /\ p = queuesPerNUMA /\ r = remainingQueues
            /\ s = x * p
    BY <1>0, <1>2, NextNode, Products
  <1>6. Given(k) = s + (IF k < r THEN k ELSE r)
    BY <1>5 DEF Given
  <1>7. CASE isAvailable(numa)
    <2>1. PICK num \in Nat \ {0} : num = queuesPerNUMA + (IF numa < remainingQueues THEN 1 ELSE 0)
      BY <1>0, <1>2
    <2>2. /\ numaQueues' = [numaQueues EXCEPT ![k] = [first |-> queue, num |-> num]]
          /\ queue' = queue + num
      BY <1>3, <1>7, <2>1 DEF AssignDistinct, After
    <2>3. k \in UsedNodes
      BY <1>1, <1>3, <1>7
    <2>4. Given(k + 1) = s + p + (IF k + 1 < r THEN k + 1 ELSE r)
      <3>1. Cardinality(Before(k + 1)) = x + 1
        BY <1>0, <1>5, <2>3, NextNode
      <3>2. (x + 1) * p = s + p
        BY <1>5, Products
      <3>3. QED
        BY <1>5, <3>1, <3>2 DEF Given
    <2>5. Given(k + 1) = Given(k) + num /\ Given(k) \in Nat
      <3>1. k \in Nat /\ num = p + (IF k < r THEN 1 ELSE 0)
        BY <1>0, <1>3, <1>5, <2>1
      <3>2. (IF k + 1 < r THEN k + 1 ELSE r) = (IF k < r THEN k ELSE r) + (IF k < r THEN 1 ELSE 0)
        BY <3>1
      <3>3. QED
        BY <1>6, <2>4, <3>1, <3>2
    <2>6. queue' \in Nat /\ group.first <= queue' /\ queue' <= group.first + Given(k + 1)
      <3>1. PICK f \in Nat, q \in Nat, w \in Nat :
                /\ f = group.first /\ q = queue /\ w = Given(k) /\ f <= q /\ q <= f + w
        BY <1>0, <1>2, <1>3, <2>5
      <3>2. queue' = q + num /\ Given(k + 1) = w + num
        BY <2>2, <2>5, <3>1
      <3>3. q + num \in Nat /\ f <= q + num /\ q + num <= f + (w + num)
        BY <3>1
      <3>4. QED
        BY <3>1, <3>2, <3>3
    <2>7. Distinct(k + 1)'
      <3>1. /\ numaQueues'[k] = [first |-> queue, num |-> num]
            /\ \A n \in UsedNodes : n # k => numaQueues'[n] = numaQueues[n]
        BY <1>0, <1>1, <2>2
      <3>2. \A n \in UsedNodes : n < k + 1 => n < k \/ n = k
        BY <1>1, <1>3
      <3>3. \A n \in UsedNodes : n < k => IsRange(numaQueues[n]) /\ numaQueues'[n] = numaQueues[n]
        BY <1>0, <1>1, <1>3, <3>1 DEF Distinct
      <3>4. \A n \in UsedNodes : n < k => IsRange(numaQueues[n])'
        BY <1>0, <2>1, <2>2, <3>3 DEF IsRange
      <3>5. IsRange(numaQueues[k])'
        BY <1>0, <1>2, <2>1, <2>2, <3>1 DEF IsRange
      <3>6. SUFFICES ASSUME NEW n \in UsedNodes, n < k + 1
                     PROVE  /\ IsRange(numaQueues[n])'
                            /\ \A m \in UsedNodes : m < n =>
                                numaQueues'[m].first + numaQueues'[m].num <= numaQueues'[n].first
        BY <1>4, <3>6 DEF Distinct
      <3>7. CASE n = k
        BY <3>1, <3>3, <3>5, <3>7 DEF IsRange
      <3>8. CASE n < k
        <4>1. \A m \in UsedNodes : m < n => m < k
          BY <1>1, <1>3, <3>8
        <4>2. QED
          BY <1>0, <1>3, <3>3, <3>4, <3>8, <4>1 DEF Distinct
      <3>9. QED
        BY <3>2, <3>6, <3>7, <3>8
    <2>8. DOMAIN numaQueues' = 0 .. maxNUMAs - 1
      BY <1>0, <2>2
    <2>9. QED
      BY <1>0, <1>1, <1>3, <1>4, <2>6, <2>7, <2>8 DEF SetupInv
  <1>8. CASE ~isAvailable(numa)
    <2>1. numaQueues' = numaQueues /\ queue' = queue
      BY <1>8 DEF AssignDistinct
    <2>2. k \notin UsedNodes
      BY <1>1, <1>3, <1>8
    <2>3. Given(k + 1) = s + (IF k + 1 < r THEN k + 1 ELSE r)
      BY <1>0, <1>5, <2>2, NextNode DEF Given
    <2>4. Given(k) <= Given(k + 1) /\ Given(k) \in Nat /\ Given(k + 1) \in Nat
      BY <1>1, <1>3, <1>5, <1>6, <2>3
    <2>5. queue <= group.first + Given(k + 1)
      BY <1>0, <1>2, <1>3, <2>4
    <2>6. Distinct(k + 1)'
      <3>1. \A n \in UsedNodes : n < k + 1 => n < k
        BY <1>1, <1>3, <2>2
      <3>2. QED
        BY <1>0, <1>3, <1>4, <2>1, <3>1 DEF Distinct, IsRange
    <2>7. QED
      BY <1>0, <1>1, <1>3, <1>4, <2>1, <2>5, <2>6 DEF SetupInv
  <1>9. QED
    BY <1>7, <1>8

\* The two loops for fewer queues than nodes.
LEMMA FewKeeps ==
    HardwareInv /\ SetupInv /\ (AssignOneToOne \/ OneToOneDone \/ AssignLast) => SetupInv'
  <1> SUFFICES ASSUME HardwareInv, SetupInv, AssignOneToOne \/ OneToOneDone \/ AssignLast
               PROVE  SetupInv'
    OBVIOUS
  <1>0. /\ pc \in {"oneToOne", "last"} /\ pc' \in {"oneToOne", "last"}
        /\ pc' = "oneToOne" => pc = "oneToOne" /\ numa' = numa
        /\ UNCHANGED <<hardwareVars, group, queue, assignation>>
    BY DEF AssignOneToOne, OneToOneDone, AssignLast
  <1>1. /\ hpc \in {"ready", "final"} /\ group \in Groups(machine)
        /\ group.num < numNUMAs /\ numa \in Nat /\ queue \in Nat
        /\ DOMAIN numaQueues = 0 .. maxNUMAs - 1 /\ DOMAIN assignation = CPUs
        /\ pc = "oneToOne" => numa = 0
    BY <1>0 DEF SetupInv
  <1>2. /\ machine' = machine /\ hpc' = hpc /\ maxNUMAs' = maxNUMAs
        /\ numNUMAs' = numNUMAs /\ CPUs' = CPUs
    BY <1>0, Same
  <1>3. DOMAIN numaQueues' = 0 .. maxNUMAs - 1
    BY <1>1 DEF AssignOneToOne, OneToOneDone, AssignLast
  <1>4. numa' \in Nat
    <2>1. remainingQueues \in Nat \ {0}
      BY <1>1, GroupFacts
    <2>2. QED
      BY <1>1, <2>1 DEF AssignOneToOne, OneToOneDone, AssignLast
  <1>5. QED
    BY <1>0, <1>1, <1>2, <1>3, <1>4 DEF SetupInv

\* All nodes have their ranges, and they are queues of the group.
LEMMA RangesDoneKeeps == HardwareInv /\ SetupInv /\ RangesDone => SetupInv'
  <1> SUFFICES ASSUME HardwareInv, SetupInv, RangesDone PROVE SetupInv'
    OBVIOUS
  <1>0. /\ pc \in {"distinct", "last"} /\ pc' = "cpus" /\ numa = maxNUMAs /\ numa' = 0
        /\ UNCHANGED <<hardwareVars, group, queue, numaQueues, assignation>>
    BY DEF RangesDone
  <1>1. /\ hpc \in {"ready", "final"} /\ group \in Groups(machine)
        /\ queue \in Nat
        /\ DOMAIN numaQueues = 0 .. maxNUMAs - 1 /\ DOMAIN assignation = CPUs
        /\ pc = "last" => group.num < numNUMAs
        /\ pc = "distinct" =>
            /\ Distinct(maxNUMAs)
            /\ queue <= group.first + Given(maxNUMAs)
    BY <1>0 DEF SetupInv
  <1>2. /\ machine' = machine /\ hpc' = hpc /\ UsedNodes' = UsedNodes /\ maxNUMAs' = maxNUMAs
        /\ numNUMAs' = numNUMAs /\ CPUs' = CPUs
    BY <1>0, Same
  <1>3. numNUMAs \in Nat /\ maxNUMAs \in Nat /\ UsedNodes \subseteq Nat
    BY <1>1, SetupFacts
  <1>4. group.first \in Nat /\ group.num \in Nat
    BY <1>1, GroupFacts
  <1>5. Given(maxNUMAs) <= group.num /\ Given(maxNUMAs) \in Nat
    <2>1. PICK x \in Nat, p \in Nat, r \in Nat, s \in Nat :
            /\ x = numNUMAs /\ p = queuesPerNUMA /\ r = remainingQueues
            /\ s = x * p
      BY <1>1, <1>3, GroupFacts, Products
    <2>2. group.num = s + r
      BY <1>1, <2>1, GroupFacts
    <2>3. Given(maxNUMAs) = s + (IF maxNUMAs < r THEN maxNUMAs ELSE r)
      BY <1>1, <2>1, BeforeEnds DEF Given
    <2>4. QED
      BY <1>3, <2>1, <2>2, <2>3
  <1>6. numNUMAs <= group.num => Distinct(maxNUMAs) /\ queue <= group.first + group.num
    <2> SUFFICES ASSUME numNUMAs <= group.num
                 PROVE  Distinct(maxNUMAs) /\ queue <= group.first + group.num
      OBVIOUS
    <2>1. pc = "distinct"
      BY <1>0, <1>1, <1>3, <1>4
    <2>2. PICK f \in Nat, m \in Nat, w \in Nat :
              /\ f = group.first /\ m = group.num /\ w = Given(maxNUMAs)
              /\ queue <= f + w /\ w <= m
      BY <1>1, <1>4, <1>5, <2>1
    <2>3. queue <= f + m
      BY <1>1, <2>2
    <2>4. QED
      BY <1>1, <2>1, <2>2, <2>3
  <1>7. Distinct(maxNUMAs) => Distinct(maxNUMAs)'
    BY <1>0, <1>2 DEF Distinct, IsRange
  <1>8. AssignedBelow(numa)'
    <2>1. \A d \in UsableCPUs : machine.node[d] \in Nat
      BY <1>1, <1>3, SetupFacts
    <2>2. \A d \in UsableCPUs' : ~(machine'.node[d] < numa')
      BY <1>0, <1>2, <2>1, Same
    <2>3. QED
      BY <2>2 DEF AssignedBelow
  <1>9. QED
    BY <1>0, <1>1, <1>2, <1>6, <1>7, <1>8 DEF SetupInv

\* The CPUs of one node get their queues.
LEMMA AssignCPUsKeeps == HardwareInv /\ SetupInv /\ AssignCPUs => SetupInv'
  <1> SUFFICES ASSUME HardwareInv, SetupInv, AssignCPUs PROVE SetupInv'
    OBVIOUS
  <1>0. /\ pc = "cpus" /\ pc' = "cpus" /\ numa' = numa + 1
        /\ UNCHANGED <<hardwareVars, group, queue, numaQueues>>
        /\ assignation' =
            [d \in CPUs |-> IF d \in CPUsOf(numa) THEN QueueOf(d) ELSE assignation[d]]
    BY DEF AssignCPUs
  <1>1. /\ hpc \in {"ready", "final"} /\ group \in Groups(machine)
        /\ queue \in Nat /\ numa \in Nat
        /\ DOMAIN numaQueues = 0 .. maxNUMAs - 1 /\ DOMAIN assignation = CPUs
        /\ numNUMAs <= group.num => Distinct(maxNUMAs) /\ queue <= group.first + group.num
        /\ AssignedBelow(numa)
    BY <1>0 DEF SetupInv
  <1>2. /\ machine' = machine /\ hpc' = hpc /\ UsedNodes' = UsedNodes /\ maxNUMAs' = maxNUMAs
        /\ numNUMAs' = numNUMAs /\ CPUs' = CPUs /\ UsableCPUs' = UsableCPUs
        /\ \A d : QueueOf(d)' = QueueOf(d)
    BY <1>0, Same, SameQueue
  <1>3. /\ UsedNodes \subseteq Nat
        /\ \A d \in UsableCPUs : /\ d \in CPUs /\ cpuToNUMANode[d] = machine.node[d]
                                 /\ machine.node[d] \in UsedNodes
    BY <1>1, SetupFacts
  <1>4. AssignedBelow(numa)'
    <2>1. SUFFICES ASSUME NEW d \in UsableCPUs, machine.node[d] < numa + 1
                   PROVE  assignation'[d] = QueueOf(d)
      BY <1>0, <1>2, <2>1 DEF AssignedBelow
    <2>2. CASE machine.node[d] = numa
      BY <1>0, <1>3, <2>2 DEF CPUsOf
    <2>3. CASE machine.node[d] # numa
      <3>0. machine.node[d] \in Nat
        BY <1>3
      <3>1. machine.node[d] < numa
        BY <1>1, <2>1, <2>3, <3>0
      <3>2. assignation[d] = QueueOf(d)
        BY <1>1, <3>1 DEF AssignedBelow
      <3>3. QED
        BY <1>0, <1>3, <3>2
    <2>4. QED
      BY <2>2, <2>3
  <1>5. Distinct(maxNUMAs) => Distinct(maxNUMAs)'
    BY <1>0, <1>2 DEF Distinct, IsRange
  <1>6. DOMAIN assignation' = CPUs
    BY <1>0
  <1>7. numa' \in Nat
    BY <1>0, <1>1
  <1>8. QED
    BY <1>0, <1>1, <1>2, <1>4, <1>5, <1>6, <1>7 DEF SetupInv

\* The end, after which nothing changes.
LEMMA EndKeeps == HardwareInv /\ SetupInv /\ (CPUsDone \/ Finalize) => SetupInv'
  <1> SUFFICES ASSUME HardwareInv, SetupInv, CPUsDone \/ Finalize PROVE SetupInv'
    OBVIOUS
  <1>0. /\ pc \in {"cpus", "done"} /\ pc' = "done" /\ hpc' \in {hpc, "final"}
        /\ pc = "cpus" => numa = maxNUMAs
        /\ UNCHANGED <<machine, infoVars, group, numa, queue, numaQueues, assignation>>
    BY DEF CPUsDone, Finalize, finalize, setupVars, hardwareVars
  <1>1. /\ hpc \in {"ready", "final"} /\ group \in Groups(machine)
        /\ queue \in Nat /\ numa \in Nat
        /\ DOMAIN numaQueues = 0 .. maxNUMAs - 1 /\ DOMAIN assignation = CPUs
        /\ numNUMAs <= group.num => Distinct(maxNUMAs) /\ queue <= group.first + group.num
        /\ AssignedBelow(maxNUMAs)
    BY <1>0 DEF SetupInv
  <1>2. /\ UsableCPUs' = UsableCPUs /\ UsedNodes' = UsedNodes /\ maxNUMAs' = maxNUMAs
        /\ numNUMAs' = numNUMAs /\ CPUs' = CPUs
    BY <1>0 DEF infoVars, UsableCPUs, UsedNodes, maxNUMAs, numNUMAs, CPUs
  <1>3. AssignedBelow(maxNUMAs)'
    <2>1. \A d : QueueOf(d)' = QueueOf(d)
      BY <1>0, <1>2 DEF QueueOf, CPUsOf, OffsetIn, infoVars
    <2>2. QED
      BY <1>0, <1>1, <1>2, <2>1 DEF AssignedBelow
  <1>4. Distinct(maxNUMAs) => Distinct(maxNUMAs)'
    BY <1>0, <1>2 DEF Distinct, IsRange
  <1>5. QED
    BY <1>0, <1>1, <1>2, <1>3, <1>4 DEF SetupInv

LEMMA FrameSetup == SetupInv /\ UNCHANGED vars => SetupInv'
  <1> SUFFICES ASSUME SetupInv, UNCHANGED vars PROVE SetupInv'
    OBVIOUS
  <1>0. UNCHANGED hardwareVars /\ UNCHANGED setupVars
    BY DEF vars
  <1> USE <1>0 DEF setupVars
  <1>1. /\ machine' = machine /\ hpc' = hpc /\ UsableCPUs' = UsableCPUs /\ UsedNodes' = UsedNodes
        /\ maxNUMAs' = maxNUMAs /\ numNUMAs' = numNUMAs /\ CPUs' = CPUs
        /\ \A k : Given(k)' = Given(k)
        /\ \A d : QueueOf(d)' = QueueOf(d)
    BY Same, SameGroup, SameQueue
  <1>2. /\ Distinct(numa)' = Distinct(numa) /\ Distinct(maxNUMAs)' = Distinct(maxNUMAs)
    BY <1>1 DEF Distinct, IsRange
  <1>3. /\ AssignedBelow(numa)' = AssignedBelow(numa)
        /\ AssignedBelow(maxNUMAs)' = AssignedBelow(maxNUMAs)
    BY <1>1 DEF AssignedBelow
  <1>4. Given(numa)' = Given(numa)
    BY <1>1 DEF Given, Before, queuesPerNUMA, remainingQueues
  <1>5. QED
    BY <1>1, <1>2, <1>3, <1>4 DEF SetupInv

LEMMA StepIInv == IInv /\ [Next]_vars => IInv'
  <1> SUFFICES ASSUME HardwareInv, SetupInv, [Next]_vars PROVE SetupInv'
    BY StepHardware DEF IInv
  <1>1. CASE Hardware
    <2>1. hpc \in {"off", "loop"} /\ UNCHANGED setupVars
      BY <1>1 DEF Hardware, initialize, CheckCPU, Shrink
    <2>2. pc = "start" /\ numa = 0 /\ numAssigned = 0
      BY <2>1 DEF SetupInv
    <2>3. pc' = "start" /\ numa' = 0 /\ numAssigned' = 0
      BY <2>1, <2>2 DEF setupVars
    <2>4. QED
      BY <2>3 DEF SetupInv
  <1>2. ASSUME NEW g \in Groups(machine), setupCPURoundRobinData(g) PROVE SetupInv'
    BY <1>2, CallKeeps
  <1>3. CASE AssignDistinct
    BY <1>3, AssignDistinctKeeps
  <1>4. CASE AssignOneToOne \/ OneToOneDone \/ AssignLast
    BY <1>4, FewKeeps
  <1>5. CASE RangesDone
    BY <1>5, RangesDoneKeeps
  <1>6. CASE AssignCPUs
    BY <1>6, AssignCPUsKeeps
  <1>7. CASE CPUsDone \/ Finalize
    BY <1>7, EndKeeps
  <1>8. CASE UNCHANGED vars
    BY <1>8, FrameSetup
  <1>9. QED
    BY <1>1, <1>2, <1>3, <1>4, <1>5, <1>6, <1>7, <1>8 DEF Next, Ended

LEMMA InitIInv == Init => IInv
  BY DEF Init, HardwareInit, IInv, HardwareInv, SetupInv

\* Every reachable state satisfies the inductive invariant: what initialize has
\* collected, and the ranges and queues that the set-up has given so far.
THEOREM Invariance == Spec => []IInv
  <1>1. QED
    BY InitIInv, StepIInv, PTL DEF Spec

\* The vectors of HardwareInfo are right when initialize returns, for every
\* machine: they cover and end with the CPUs and nodes that can be used, and
\* each node is counted once.
THEOREM HardwareKnownCorrect == Spec => []HardwareKnown
  <1>1. IInv => HardwareKnown
    BY InvKnown DEF IInv
  <1>2. QED
    BY <1>1, Invariance, PTL

\* A CPU is given a queue of the range of its node.
LEMMA QueueInRange ==
    ASSUME HardwareInv, hpc \in {"ready", "final"}, NEW d \in UsableCPUs,
           numaQueues[machine.node[d]] \in [first : Nat, num : Nat \ {0}]
    PROVE  /\ QueueOf(d) \in Nat
           /\ numaQueues[machine.node[d]].first <= QueueOf(d)
           /\ QueueOf(d) < numaQueues[machine.node[d]].first + numaQueues[machine.node[d]].num
  <1>1. PICK n : n = machine.node[d] /\ n = cpuToNUMANode[d]
    BY SetupFacts
  <1>2. PICK f \in Nat, m \in Nat \ {0} :
            /\ f = numaQueues[n].first /\ m = numaQueues[n].num
            /\ numaQueues[n] = [first |-> f, num |-> m]
    BY <1>1
  <1>3. numaQueues[n] # Unset
    BY <1>2, GroupsAssumption
  <1>4. IsFiniteSet({e \in CPUsOf(n) : e < d})
    BY SetupFacts, FS_Subset DEF CPUsOf
  <1>5. PICK b \in Nat : b = Cardinality({e \in CPUsOf(n) : e < d})
    BY <1>4, FS_CardinalityType
  <1>6. QueueOf(d) = f + (b % m)
    BY <1>1, <1>2, <1>3, <1>5 DEF QueueOf, OffsetIn
  <1>7. (b % m) \in 0 .. m - 1
    OBVIOUS
  <1>8. QED
    BY <1>1, <1>2, <1>6, <1>7

\* With at least as many queues as nodes, the queue of a CPU is in the range of
\* its node, and the ranges are of the group and one after the other.
LEMMA EnoughServe ==
    ASSUME IInv, pc = "done", group.num >= Cardinality(UsedNodes)
    PROVE  /\ \A d \in UsableCPUs :
                /\ d \in DOMAIN assignation
                /\ assignation[d] \in group.first .. group.first + group.num - 1
           /\ \A d, e \in UsableCPUs :
                machine.node[d] < machine.node[e] => assignation[d] < assignation[e]
  <1>1. /\ HardwareInv /\ hpc \in {"ready", "final"} /\ group \in Groups(machine)
        /\ DOMAIN assignation = CPUs /\ AssignedBelow(maxNUMAs) /\ queue \in Nat
    BY DEF IInv, SetupInv
  <1>2. /\ maxNUMAs \in Nat /\ UsedNodes \subseteq 0 .. maxNUMAs - 1
        /\ numNUMAs = Cardinality(UsedNodes) /\ numNUMAs \in Nat
        /\ \A d \in UsableCPUs : d \in CPUs /\ machine.node[d] \in UsedNodes
    BY <1>1, SetupFacts
  <1>3. group.first \in Nat /\ group.num \in Nat
    BY <1>1, GroupFacts
  <1>4. Distinct(maxNUMAs) /\ queue <= group.first + group.num
    <2>1. numNUMAs <= group.num
      BY <1>2, <1>3
    <2>2. QED
      BY <2>1 DEF IInv, SetupInv
  <1>5. \A n \in UsedNodes : n < maxNUMAs
    BY <1>2
  <1>6. \A n \in UsedNodes : IsRange(numaQueues[n])
    BY <1>4, <1>5 DEF Distinct
  <1>7. ASSUME NEW d \in UsableCPUs
        PROVE  /\ assignation[d] \in Nat
               /\ numaQueues[machine.node[d]].first <= assignation[d]
               /\ assignation[d] < numaQueues[machine.node[d]].first
                                     + numaQueues[machine.node[d]].num
    <2>1. assignation[d] = QueueOf(d)
      BY <1>1, <1>2, <1>5 DEF AssignedBelow
    <2>2. numaQueues[machine.node[d]] \in [first : Nat, num : Nat \ {0}]
      BY <1>2, <1>6 DEF IsRange
    <2>3. QED
      BY <1>1, <2>1, <2>2, QueueInRange
  <1>8. ASSUME NEW d \in UsableCPUs
        PROVE  /\ d \in DOMAIN assignation
               /\ assignation[d] \in group.first .. group.first + group.num - 1
    <2>1. PICK f \in Nat, m \in Nat :
              /\ f = numaQueues[machine.node[d]].first /\ m = numaQueues[machine.node[d]].num
              /\ group.first <= f /\ f + m <= queue
      BY <1>2, <1>6 DEF IsRange
    <2>2. assignation[d] \in Nat /\ f <= assignation[d] /\ assignation[d] < f + m
      BY <1>7, <2>1
    <2>3. QED
      BY <1>1, <1>2, <1>3, <1>4, <2>1, <2>2
  <1>9. ASSUME NEW d \in UsableCPUs, NEW e \in UsableCPUs, machine.node[d] < machine.node[e]
        PROVE  assignation[d] < assignation[e]
    <2>1. PICK f \in Nat, m \in Nat, h \in Nat :
              /\ f = numaQueues[machine.node[d]].first /\ m = numaQueues[machine.node[d]].num
              /\ h = numaQueues[machine.node[e]].first /\ f + m <= h
      BY <1>2, <1>4, <1>5, <1>6, <1>9 DEF Distinct, IsRange
    <2>2. /\ assignation[d] \in Nat /\ assignation[d] < f + m
          /\ assignation[e] \in Nat /\ h <= assignation[e]
      BY <1>7, <2>1
    <2>3. QED
      BY <2>1, <2>2
  <1>10. QED
    BY <1>8, <1>9

\* With at least as many queues as nodes, CPUs of different nodes never share a
\* queue, for every machine and every group.
THEOREM NUMASeparationCorrect == Spec => []NUMASeparation
  <1>1. IInv => NUMASeparation
    <2> SUFFICES ASSUME IInv, pc = "done", group.num >= Cardinality(UsedNodes),
                        NEW d \in UsableCPUs, NEW e \in UsableCPUs,
                        machine.node[d] # machine.node[e]
                 PROVE  assignation[d] # assignation[e]
      BY DEF NUMASeparation, EnoughQueues
    <2>1. /\ HardwareInv /\ hpc \in {"ready", "final"} /\ group \in Groups(machine)
      BY DEF IInv, SetupInv
    <2>2. machine.node[d] \in Nat /\ machine.node[e] \in Nat
      BY <2>1, SetupFacts
    <2>3. machine.node[d] < machine.node[e] \/ machine.node[e] < machine.node[d]
      BY <2>2
    <2>4. assignation[d] < assignation[e] \/ assignation[e] < assignation[d]
      BY <2>3, EnoughServe
    <2>5. assignation[d] \in Nat /\ assignation[e] \in Nat
      BY <2>1, EnoughServe, GroupFacts
    <2>6. QED
      BY <2>4, <2>5
  <1>2. QED
    BY <1>1, Invariance, PTL

-----------------------------------------------------------------------------

(***************************************************************************)
(* Fewer queues than nodes.                                                *)
(***************************************************************************)

\* What is known of the group being set up then.
LEMMA FewFacts ==
    ASSUME IInv, pc # "start", group.num < numNUMAs
    PROVE  /\ group.first \in Nat /\ group.num \in Nat \ {0}
           /\ remainingQueues = group.num /\ group.num < maxNUMAs
  <1>1. /\ HardwareInv /\ hpc \in {"ready", "final"} /\ group \in Groups(machine)
    BY DEF IInv, SetupInv
  <1>2. group.first \in Nat /\ group.num \in Nat \ {0} /\ remainingQueues = group.num
    BY <1>1, GroupFacts
  <1>3. /\ maxNUMAs \in Nat /\ UsedNodes \subseteq 0 .. maxNUMAs - 1
        /\ numNUMAs = Cardinality(UsedNodes) /\ numNUMAs \in Nat \ {0}
    BY <1>1, SetupFacts
  <1>4. maxNUMAs # 0
    <2> SUFFICES ASSUME maxNUMAs = 0 PROVE FALSE
      OBVIOUS
    <2>1. UsedNodes = {}
      BY <1>3
    <2>2. QED
      BY <1>3, <2>1, FS_EmptySet
  <1>5. numNUMAs <= maxNUMAs
    <2>1. PICK b \in Nat : b = maxNUMAs - 1 /\ maxNUMAs = b + 1
      BY <1>3, <1>4
    <2>2. IsFiniteSet(0 .. b) /\ Cardinality(0 .. b) = b + 1
      BY FS_Interval
    <2>3. UsedNodes \subseteq 0 .. b
      BY <1>3, <2>1
    <2>4. Cardinality(UsedNodes) <= Cardinality(0 .. b)
      BY <2>2, <2>3, FS_Subset
    <2>5. QED
      BY <1>3, <2>1, <2>2, <2>4
  <1>6. QED
    BY <1>2, <1>3, <1>5

LEMMA FewStep == IInv /\ FewInv /\ [Next]_vars => FewInv'
  <1> SUFFICES ASSUME IInv, FewInv, [Next]_vars,
                      pc' # "start", group'.num < numNUMAs'
               PROVE  /\ pc' = "oneToOne" =>
                          /\ numAssigned' \in 0 .. group'.num - 1
                          /\ numAssigned' > 0 => 0 \in UsedNodes'
                          /\ \A n \in UsedNodes' : numaQueues'[n] = LoopRange(n)'
                      /\ pc' \in {"last", "cpus", "done"} => group'.num = 1 \/ 0 \in UsedNodes'
                      /\ pc' = "last" => group'.num - 1 <= numa' /\ numa' <= maxNUMAs'
                                         /\ FewBelow(numa)'
                      /\ pc' \in {"cpus", "done"} => FewBelow(maxNUMAs)'
    BY DEF FewInv
  <1>0. HardwareInv /\ HardwareInv' /\ SetupInv /\ IInv'
    BY StepHardware, StepIInv DEF IInv
  <1>1. /\ hpc' \in {"ready", "final"} /\ group'.num \in Nat \ {0}
    <2>1. hpc' \in {"ready", "final"} /\ group' \in Groups(machine')
      BY <1>0 DEF IInv, SetupInv
    <2>2. machine' \in Machine
      BY <1>0 DEF HardwareInv
    <2>3. QED
      BY <2>1, <2>2, GroupsAssumption DEF IsGroup
  <1>2. ASSUME NEW g \in Groups(machine), setupCPURoundRobinData(g)
        PROVE  /\ pc' \in {"distinct", "oneToOne"} /\ numAssigned' = 0
               /\ \A n \in UsedNodes' : numaQueues'[n] = LoopRange(n)'
    <2>1. /\ pc' \in {"distinct", "oneToOne"} /\ numAssigned' = 0 /\ UNCHANGED hardwareVars
          /\ hpc = "ready" /\ numaQueues' = [n \in 0 .. maxNUMAs - 1 |-> Unset]
      BY <1>0, <1>2 DEF setupCPURoundRobinData, SetupInv
    <2>2. UsedNodes' = UsedNodes /\ UsedNodes \subseteq 0 .. maxNUMAs - 1
      BY <1>0, <2>1, SetupFacts, Same
    <2>3. \A n \in UsedNodes : numaQueues'[n] = Unset
      BY <2>1, <2>2
    <2>4. QED
      BY <2>1, <2>2, <2>3 DEF LoopRange
  <1>3. CASE Hardware
    <2>1. hpc \in {"off", "loop"} /\ pc' = pc
      BY <1>3 DEF Hardware, initialize, CheckCPU, Shrink, setupVars
    <2>2. QED
      BY <1>0, <2>1 DEF SetupInv
  <1>4. CASE \E g \in Groups(machine) : setupCPURoundRobinData(g)
    BY <1>1, <1>2, <1>4
  <1>5. CASE ~Hardware /\ ~(\E g \in Groups(machine) : setupCPURoundRobinData(g))
    <2>1. /\ pc # "start" /\ machine' = machine /\ group' = group
          /\ UNCHANGED infoVars
      BY <1>5 DEF Next, AssignDistinct, AssignOneToOne, OneToOneDone, AssignLast, RangesDone,
                  AssignCPUs, CPUsDone, Finalize, finalize, Ended, vars, hardwareVars, setupVars
    <2>2. /\ UsedNodes' = UsedNodes /\ maxNUMAs' = maxNUMAs /\ numNUMAs' = numNUMAs
          /\ \A n : FewRange(n)' = FewRange(n)
      BY <2>1 DEF infoVars, UsableCPUs, UsedNodes, maxNUMAs, numNUMAs, FewRange
    <2>3. group.num < numNUMAs
      BY <2>1, <2>2
    <2>4. /\ group.num \in Nat \ {0}
          /\ remainingQueues = group.num /\ group.num < maxNUMAs
      BY <2>1, <2>3, FewFacts
    <2>5. /\ pc # "distinct" /\ hpc \in {"ready", "final"} /\ numa \in Nat
          /\ DOMAIN numaQueues = 0 .. maxNUMAs - 1
          /\ pc = "oneToOne" => numa = 0
      <3>1. numNUMAs \in Nat
        BY <1>0, <2>1, SetupFacts DEF SetupInv
      <3>2. QED
        BY <1>0, <2>1, <2>3, <2>4, <3>1 DEF SetupInv
    <2>6. /\ maxNUMAs \in Nat /\ UsedNodes \subseteq 0 .. maxNUMAs - 1
          /\ \A n \in 0 .. maxNUMAs - 1 : isAvailable(n) <=> n \in UsedNodes
      BY <1>0, <2>5, SetupFacts
    <2>7. /\ pc = "oneToOne" =>
              /\ numAssigned \in 0 .. group.num - 1
              /\ numAssigned > 0 => 0 \in UsedNodes
              /\ \A n \in UsedNodes : numaQueues[n] = LoopRange(n)
          /\ pc \in {"last", "cpus", "done"} => group.num = 1 \/ 0 \in UsedNodes
          /\ pc = "last" => group.num - 1 <= numa /\ numa <= maxNUMAs /\ FewBelow(numa)
          /\ pc \in {"cpus", "done"} => FewBelow(maxNUMAs)
      BY <2>1, <2>3 DEF FewInv
    <2>8. CASE AssignOneToOne
      <3>1. /\ pc = "oneToOne" /\ pc' = "oneToOne" /\ numa = 0
            /\ numAssigned < group.num - 1
        BY <2>4, <2>5, <2>8 DEF AssignOneToOne
      <3>2. CASE isAvailable(0)
        <4>1. /\ numaQueues' = [numaQueues EXCEPT ![0] = [first |-> numAssigned, num |-> 1]]
              /\ numAssigned' = numAssigned + 1
          BY <2>8, <3>1, <3>2 DEF AssignOneToOne, OneToOneRange, Assigned
        <4>2. 0 \in UsedNodes /\ 0 \in DOMAIN numaQueues
          BY <2>4, <2>5, <2>6, <3>2
        <4>3. numAssigned' \in 0 .. group.num - 1 /\ numAssigned' > 0
              /\ numAssigned' - 1 = numAssigned
          BY <2>4, <2>7, <3>1, <4>1
        <4>4. numaQueues'[0] = LoopRange(0)'
          BY <4>1, <4>2, <4>3 DEF LoopRange
        <4>5. ASSUME NEW n \in UsedNodes, n # 0
              PROVE  numaQueues'[n] = LoopRange(n)'
          <5>1. numaQueues'[n] = numaQueues[n]
            BY <2>5, <2>6, <4>1, <4>5
          <5>2. numaQueues[n] = Unset
            BY <2>7, <3>1, <4>5 DEF LoopRange
          <5>3. QED
            BY <4>5, <5>1, <5>2 DEF LoopRange
        <4>6. QED
          BY <2>1, <2>2, <3>1, <4>2, <4>3, <4>4, <4>5
      <3>3. CASE ~isAvailable(0)
        <4>1. UNCHANGED <<numaQueues, numAssigned>>
          BY <2>8, <3>1, <3>3 DEF AssignOneToOne
        <4>2. QED
          BY <2>1, <2>2, <2>7, <3>1, <4>1 DEF LoopRange
      <3>4. QED
        BY <3>2, <3>3
    <2>9. CASE OneToOneDone
      <3>1. /\ pc = "oneToOne" /\ pc' = "last" /\ numAssigned >= remainingQueues - 1
            /\ numa' = remainingQueues - 1 /\ numaQueues' = numaQueues
        BY <2>9 DEF OneToOneDone
      <3>2. numAssigned = group.num - 1 /\ numa' = group.num - 1
        BY <2>4, <2>7, <3>1
      <3>3. group.num = 1 \/ 0 \in UsedNodes
        BY <2>4, <2>7, <3>1, <3>2
      <3>4. ASSUME NEW n \in UsedNodes
            PROVE  numaQueues[n] = IF n < group.num - 1 THEN FewRange(n) ELSE Unset
        <4>1. n \in Nat
          BY <2>6
        <4>2. numaQueues[n] = IF n = 0 /\ group.num - 1 > 0
                              THEN [first |-> group.num - 2, num |-> 1] ELSE Unset
          <5>1. (group.num - 1) - 1 = group.num - 2
            BY <2>4
          <5>2. QED
            BY <2>7, <3>1, <3>2, <5>1 DEF LoopRange
        <4>3. QED
          BY <2>4, <4>1, <4>2 DEF FewRange
      <3>5. FewBelow(numa)'
        <4>1. ASSUME NEW n \in UsedNodes
              PROVE  numaQueues'[n] = IF n < numa' \/ n < group'.num - 1
                                      THEN FewRange(n)' ELSE Unset
          BY <2>1, <2>2, <3>1, <3>2, <3>4
        <4>2. QED
          BY <2>2, <4>1 DEF FewBelow
      <3>6. QED
        BY <2>1, <2>2, <2>4, <2>6, <3>1, <3>2, <3>3, <3>5
    <2>10. CASE AssignLast
      <3>1. /\ pc = "last" /\ pc' = "last" /\ numa < maxNUMAs /\ numa' = numa + 1
            /\ numaQueues' = IF isAvailable(numa)
                             THEN [numaQueues EXCEPT ![numa] = [first |-> group.num - 1, num |-> 1]]
                             ELSE numaQueues
        BY <2>4, <2>10 DEF AssignLast
      <3>2. numa \in 0 .. maxNUMAs - 1 /\ group.num - 1 <= numa
        BY <2>5, <2>6, <2>7, <3>1
      <3>3. ASSUME NEW n \in UsedNodes
            PROVE  numaQueues'[n] = IF n < numa + 1 \/ n < group.num - 1
                                    THEN FewRange(n) ELSE Unset
        <4>0. n \in Nat
          BY <2>6
        <4>1. CASE n = numa
          <5>1. FewRange(n) = [first |-> group.num - 1, num |-> 1]
            BY <2>4, <2>5, <3>2, <4>1 DEF FewRange
          <5>2. n < numa + 1
            BY <2>5, <4>1
          <5>3. QED
            BY <2>5, <2>6, <3>1, <3>2, <4>1, <5>1, <5>2
        <4>2. CASE n # numa
          <5>1. n < numa + 1 <=> n < numa
            BY <2>5, <4>0, <4>2
          <5>2. numaQueues[n] = IF n < numa \/ n < group.num - 1 THEN FewRange(n) ELSE Unset
            BY <2>7, <3>1 DEF FewBelow
          <5>3. numaQueues'[n] = numaQueues[n]
            BY <2>5, <2>6, <3>1, <4>2
          <5>4. QED
            BY <5>1, <5>2, <5>3
        <4>3. QED
          BY <4>1, <4>2
      <3>4. FewBelow(numa)'
        BY <2>1, <2>2, <3>1, <3>3 DEF FewBelow
      <3>5. group.num - 1 <= numa + 1 /\ numa + 1 <= maxNUMAs
        BY <2>4, <2>5, <2>6, <3>1, <3>2
      <3>6. QED
        BY <2>1, <2>2, <2>7, <3>1, <3>4, <3>5
    <2>11. CASE RangesDone
      <3>1. pc = "last" /\ numa = maxNUMAs /\ pc' = "cpus" /\ numaQueues' = numaQueues
        BY <2>5, <2>11 DEF RangesDone
      <3>2. FewBelow(maxNUMAs)'
        BY <2>1, <2>2, <2>7, <3>1 DEF FewBelow
      <3>3. QED
        BY <2>1, <2>2, <2>7, <3>1, <3>2
    <2>12. CASE AssignCPUs \/ CPUsDone \/ Finalize
      <3>1. pc \in {"cpus", "done"} /\ pc' \in {"cpus", "done"} /\ numaQueues' = numaQueues
        BY <2>12 DEF AssignCPUs, CPUsDone, Finalize, setupVars
      <3>2. FewBelow(maxNUMAs)'
        BY <2>1, <2>2, <2>7, <3>1 DEF FewBelow
      <3>3. QED
        BY <2>1, <2>2, <2>7, <3>1, <3>2
    <2>13. CASE UNCHANGED vars
      <3>1. UNCHANGED <<pc, numa, numAssigned, numaQueues>>
        BY <2>13 DEF vars, setupVars
      <3>2. (pc \in {"last", "cpus", "done"} => FewBelow(numa)' = FewBelow(numa)
             /\ FewBelow(maxNUMAs)' = FewBelow(maxNUMAs))
            /\ \A n : LoopRange(n)' = LoopRange(n)
        BY <2>1, <2>2, <3>1 DEF FewBelow, LoopRange
      <3>3. QED
        BY <2>1, <2>2, <2>7, <3>1, <3>2
    <2>14. QED
      BY <1>5, <2>5, <2>8, <2>9, <2>10, <2>11, <2>12, <2>13 DEF Next, Ended, AssignDistinct
  <1>6. QED
    BY <1>3, <1>4, <1>5

\* With fewer queues than nodes the ranges are the ones of FewRange, whatever the
\* machine and the group: node 0 has queue num - 2, the nodes below num - 1 none.
THEOREM FewInvariance == Spec => [](IInv /\ FewInv)
  <1>1. Init => FewInv
    BY DEF Init, FewInv
  <1>2. IInv /\ FewInv /\ [Next]_vars => FewInv'
    BY FewStep
  <1>3. QED
    BY <1>1, <1>2, Invariance, PTL DEF Spec

\* What a CPU is given then: the one queue of its node, or nothing.
LEMMA FewQueues ==
    ASSUME IInv, FewInv, pc = "done", group.num < Cardinality(UsedNodes)
    PROVE  /\ group.num = 1 \/ 0 \in UsedNodes
           /\ group.first \in Nat /\ group.num \in Nat \ {0}
           /\ \A n \in UsedNodes : n \in Nat
           /\ UsedNodes # {}
           /\ \A d \in UsableCPUs :
                /\ d \in DOMAIN assignation /\ machine.node[d] \in UsedNodes
                /\ machine.node[d] >= group.num - 1 => assignation[d] = group.num - 1
                /\ machine.node[d] < group.num - 1 =>
                    assignation[d] = IF machine.node[d] = 0 THEN group.num - 2 ELSE Unset
  <1>1. /\ HardwareInv /\ hpc \in {"ready", "final"} /\ group \in Groups(machine)
        /\ DOMAIN assignation = CPUs /\ AssignedBelow(maxNUMAs)
    BY DEF IInv, SetupInv
  <1>2. /\ maxNUMAs \in Nat /\ UsedNodes \subseteq 0 .. maxNUMAs - 1
        /\ numNUMAs = Cardinality(UsedNodes) /\ numNUMAs \in Nat \ {0}
        /\ \A d \in UsableCPUs : d \in CPUs /\ machine.node[d] \in UsedNodes
                                 /\ cpuToNUMANode[d] = machine.node[d]
    BY <1>1, SetupFacts
  <1>3. group.first \in Nat /\ group.num \in Nat \ {0}
    BY <1>2, FewFacts
  <1>4. \A n \in UsedNodes : n \in Nat /\ n < maxNUMAs
    BY <1>2
  <1>5. /\ \A n \in UsedNodes : numaQueues[n] = FewRange(n)
        /\ group.num = 1 \/ 0 \in UsedNodes
    BY <1>2, <1>4 DEF FewInv, FewBelow
  <1>6. ASSUME NEW d \in UsableCPUs
        PROVE  assignation[d] = QueueOf(d)
    BY <1>1, <1>2, <1>4 DEF AssignedBelow
  <1>7. ASSUME NEW d \in UsableCPUs, NEW f \in Nat,
               FewRange(machine.node[d]) = [first |-> f, num |-> 1]
        PROVE  assignation[d] = f
    <2>1. numaQueues[machine.node[d]] = [first |-> f, num |-> 1]
      BY <1>2, <1>5, <1>7
    <2>2. QueueOf(d) \in Nat /\ f <= QueueOf(d) /\ QueueOf(d) < f + 1
      BY <1>1, <2>1, QueueInRange
    <2>3. QED
      BY <1>6, <2>2
  <1>8. ASSUME NEW d \in UsableCPUs, machine.node[d] >= group.num - 1
        PROVE  assignation[d] = group.num - 1
    <2>1. group.num - 1 \in Nat
      BY <1>3
    <2>2. FewRange(machine.node[d]) = [first |-> group.num - 1, num |-> 1]
      BY <1>8 DEF FewRange
    <2>3. QED
      BY <1>7, <2>1, <2>2
  <1>9. ASSUME NEW d \in UsableCPUs, machine.node[d] < group.num - 1
        PROVE  assignation[d] = IF machine.node[d] = 0 THEN group.num - 2 ELSE Unset
    <2>0. PICK n \in Nat : n = machine.node[d]
      BY <1>2, <1>4
    <2>1. machine.node[d] \in Nat /\ ~(machine.node[d] >= group.num - 1)
      BY <1>3, <1>9, <2>0
    <2>2. CASE machine.node[d] = 0
      <3>1. group.num - 2 \in Nat
        BY <1>3, <1>9, <2>2
      <3>2. FewRange(machine.node[d]) = [first |-> group.num - 2, num |-> 1]
        BY <2>1, <2>2 DEF FewRange
      <3>3. QED
        BY <1>7, <2>2, <3>1, <3>2
    <2>3. CASE machine.node[d] # 0
      <3>1. numaQueues[machine.node[d]] = Unset
        BY <1>2, <1>5, <2>1, <2>3 DEF FewRange
      <3>2. QueueOf(d) = Unset
        BY <1>2, <3>1 DEF QueueOf
      <3>3. QED
        BY <1>6, <2>3, <3>2
    <2>4. QED
      BY <2>2, <2>3
  <1>10. UsedNodes # {}
    BY <1>2, FS_EmptySet
  <1>11. QED
    BY <1>1, <1>2, <1>3, <1>4, <1>5, <1>8, <1>9, <1>10

\* A CPU of each node.
LEMMA NodeHasCPU == \A n \in UsedNodes : \E d \in UsableCPUs : machine.node[d] = n
  BY DEF UsedNodes

\* For every machine and every group: with at least as many queues as nodes every
\* CPU the process may run on is given a queue of the group, and with fewer queues
\* exactly in the cases of FewQueuesSuffice.
THEOREM QueuesOfGroupCorrect == Spec => []QueuesOfGroup
  <1>1. IInv /\ FewInv => QueuesOfGroup
    <2> DEFINE GetsQueue(d) ==
                 /\ d \in DOMAIN assignation
                 /\ assignation[d] \in group.first .. group.first + group.num - 1
    <2> SUFFICES ASSUME IInv, FewInv, pc = "done"
                 PROVE  (\A d \in UsableCPUs : GetsQueue(d)) <=> EnoughQueues \/ FewQueuesSuffice
      BY DEF QueuesOfGroup
    <2>1. group.num \in Nat /\ Cardinality(UsedNodes) \in Nat
      <3>1. HardwareInv /\ hpc \in {"ready", "final"} /\ group \in Groups(machine)
        BY DEF IInv, SetupInv
      <3>2. QED
        BY <3>1, SetupFacts, GroupFacts
    <2>2. CASE group.num >= Cardinality(UsedNodes)
      BY <2>2, EnoughServe DEF EnoughQueues
    <2>3. CASE group.num < Cardinality(UsedNodes)
      <3>1. ~EnoughQueues
        BY <2>1, <2>3 DEF EnoughQueues
      <3>2. /\ group.num = 1 \/ 0 \in UsedNodes
            /\ group.first \in Nat /\ group.num \in Nat \ {0}
            /\ \A n \in UsedNodes : n \in Nat
            /\ UsedNodes # {}
        BY <2>3, FewQueues
      <3>3. \A d \in UsableCPUs :
              /\ d \in DOMAIN assignation /\ machine.node[d] \in UsedNodes
              /\ machine.node[d] >= group.num - 1 => assignation[d] = group.num - 1
              /\ machine.node[d] < group.num - 1 =>
                  assignation[d] = IF machine.node[d] = 0 THEN group.num - 2 ELSE Unset
        BY <2>3, FewQueues
      <3>4. Unset \notin group.first .. group.first + group.num - 1
        BY <3>2, GroupsAssumption
      <3>5. ASSUME FewQueuesSuffice, NEW d \in UsableCPUs
            PROVE  GetsQueue(d)
        <4>1. PICK n \in Nat : n = machine.node[d] /\ n \in UsedNodes
          BY <3>2, <3>3
        <4>2. CASE n >= group.num - 1
          BY <3>2, <3>3, <3>5, <4>1, <4>2 DEF FewQueuesSuffice
        <4>3. CASE n < group.num - 1
          <5>1. /\ group.num > 1 /\ group.first <= group.num - 2
                /\ n \notin 1 .. group.num - 2
            BY <3>2, <3>5, <4>1, <4>3 DEF FewQueuesSuffice
          <5>2. n = 0
            BY <3>2, <4>3, <5>1
          <5>3. d \in DOMAIN assignation /\ assignation[d] = group.num - 2
            BY <3>3, <4>1, <4>3, <5>2
          <5>4. group.num - 2 \in group.first .. group.first + group.num - 1
            BY <3>2, <5>1
          <5>5. QED
            BY <5>3, <5>4
        <4>4. QED
          BY <3>2, <4>2, <4>3
      <3>6. ASSUME \A d \in UsableCPUs : GetsQueue(d)
            PROVE  FewQueuesSuffice
        <4>1. CASE group.num = 1
          <5>1. PICK d \in UsableCPUs : machine.node[d] \in Nat
            BY <3>2, NodeHasCPU
          <5>2. assignation[d] = 0
            BY <3>3, <4>1, <5>1
          <5>3. QED
            BY <3>2, <3>6, <4>1, <5>1, <5>2 DEF FewQueuesSuffice
        <4>2. CASE group.num > 1
          <5>1. PICK d \in UsableCPUs : machine.node[d] = 0
            BY <3>2, <4>2, NodeHasCPU
          <5>2. assignation[d] = group.num - 2
            BY <3>2, <3>3, <4>2, <5>1
          <5>3. group.first <= group.num - 2
            BY <3>2, <3>6, <5>1, <5>2
          <5>4. ASSUME NEW n \in UsedNodes, n \in 1 .. group.num - 2
                PROVE  FALSE
            <6>1. PICK e \in UsableCPUs : machine.node[e] = n
              BY NodeHasCPU
            <6>2. assignation[e] = Unset
              BY <3>2, <3>3, <5>4, <6>1
            <6>3. QED
              BY <3>4, <3>6, <6>1, <6>2
          <5>5. UsedNodes \cap 1 .. group.num - 2 = {}
            BY <5>4
          <5>6. QED
            BY <4>2, <5>3, <5>5 DEF FewQueuesSuffice
        <4>3. QED
          BY <3>2, <4>1, <4>2
      <3>7. QED
        BY <3>1, <3>5, <3>6
    <2>4. QED
      BY <2>1, <2>2, <2>3
  <1>2. QED
    BY <1>1, FewInvariance, PTL

\* The set-up returns for no machine and group but those of Ends: with fewer
\* queues than nodes, more than one, and node 0 not available, it never does.
THEOREM ReturnsOnlyIfEnds == Spec => [](pc = "done" => Ends)
  <1>1. IInv /\ FewInv => (pc = "done" => Ends)
    <2> SUFFICES ASSUME IInv, FewInv, pc = "done"
                 PROVE  Ends
      OBVIOUS
    <2>1. group.num \in Nat /\ Cardinality(UsedNodes) \in Nat
      <3>1. HardwareInv /\ hpc \in {"ready", "final"} /\ group \in Groups(machine)
        BY DEF IInv, SetupInv
      <3>2. QED
        BY <3>1, SetupFacts, GroupFacts
    <2>2. CASE group.num >= Cardinality(UsedNodes)
      BY <2>2 DEF Ends, EnoughQueues
    <2>3. CASE group.num < Cardinality(UsedNodes)
      BY <2>3, FewQueues DEF Ends
    <2>4. QED
      BY <2>1, <2>2, <2>3
  <1>2. QED
    BY <1>1, FewInvariance, PTL
=============================================================================
