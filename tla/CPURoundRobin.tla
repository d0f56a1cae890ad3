--------------------------- MODULE CPURoundRobin ----------------------------
(***************************************************************************)
(* QueueGroup::setupCPURoundRobinData (src/src/common/QueueGroup.hpp): the *)
(* queues of a group with the policy CPU_RR are divided among the NUMA     *)
(* nodes this process runs on, as HardwareInfo knows them, and each CPU of *)
(* a node is given one queue of its node.  Each iteration of a loop over   *)
(* nodes is a step.                                                        *)
(***************************************************************************)
EXTENDS HardwareInfo

CONSTANTS
    Groups(_),           \* the groups that may be created on a machine
    Unset                \* what an entry that was not written holds

\* A group is num queues from first on.
IsGroup(g) == g.first \in Nat /\ g.num \in Nat \ {0}

ASSUME GroupsAssumption ==
    /\ \A m \in Machine : Groups(m) # {} /\ \A g \in Groups(m) : IsGroup(g)
    /\ Unset \notin Nat /\ Unset \notin [first : Nat, num : Nat]

VARIABLES
    pc,                  \* the loop being run
    group,               \* the group
    numa,                \* the node of the loop
    queue,               \* the next queue to give
    numAssigned,         \* queues given one to one
    numaQueues,          \* [node -> its range of queues]
    assignation          \* [CPU -> its queue]

setupVars == <<pc, group, numa, queue, numAssigned, numaQueues, assignation>>
vars == <<hardwareVars, setupVars>>

CPUs == DOMAIN cpuToNUMANode
maxNUMAs == Cardinality(DOMAIN numaNodeAvailability)
numNUMAs == numAvailableNUMANodes
queuesPerNUMA == group.num \div numNUMAs
remainingQueues == group.num % numNUMAs

NoGroup == [first |-> 0, num |-> 0]

TypeOK ==
    /\ HardwareTypeOK
    /\ pc \in {"start", "distinct", "oneToOne", "last", "cpus", "done"}
    /\ group \in {NoGroup} \cup Groups(machine)
    /\ numa \in 0 .. maxNUMAs
    /\ queue \in group.first .. group.first + group.num
    /\ numAssigned \in Nat
    /\ \A n \in DOMAIN numaQueues :
        numaQueues[n] \in {Unset} \cup [first : Nat, num : Nat \ {0}]
    /\ \A d \in DOMAIN assignation : assignation[d] \in Nat \cup {Unset}

Init ==
    /\ HardwareInit
    /\ pc = "start"
    /\ group = NoGroup
    /\ numa = 0 /\ queue = 0 /\ numAssigned = 0
    /\ numaQueues = Empty
    /\ assignation = Empty

\* The call: distinct ranges if there are enough queues.
setupCPURoundRobinData(g) ==
    /\ hpc = "ready"
    /\ pc = "start"
    /\ group' = g
    /\ pc' = IF g.num >= numNUMAs THEN "distinct" ELSE "oneToOne"
    /\ queue' = g.first
    /\ numaQueues' = [n \in 0 .. maxNUMAs - 1 |-> Unset]
    /\ assignation' = [d \in CPUs |-> 0]
    /\ UNCHANGED <<hardwareVars, numa, numAssigned>>

\* numaAvailability[n].
isAvailable(n) == numaNodeAvailability[n]

\* Mutant of After: a node with one queue more does not move the next node's.
AfterEvenly(num) == queue + queuesPerNUMA

After(num) == queue + num

\* At least as many queues as nodes: distinct ranges for the available nodes.
AssignDistinct ==
    /\ pc = "distinct"
    /\ numa < maxNUMAs
    /\ IF isAvailable(numa)
       THEN LET num == queuesPerNUMA + (IF numa < remainingQueues THEN 1 ELSE 0)
            IN  /\ numaQueues' = [numaQueues EXCEPT ![numa] = [first |-> queue, num |-> num]]
                /\ queue' = After(num)
       ELSE UNCHANGED <<numaQueues, queue>>
    /\ numa' = numa + 1
    /\ UNCHANGED <<hardwareVars, group, pc, numAssigned, assignation>>


OneToOneRange == [first |-> numAssigned, num |-> 1]
Assigned == numAssigned + 1

\* Fewer queues than nodes: the loop over all queues but the last.  It never
\* moves on from the first node; when that is not available nothing changes.
AssignOneToOne ==
    /\ pc = "oneToOne"
    /\ numAssigned < remainingQueues - 1
    /\ IF isAvailable(numa)
       THEN /\ numaQueues' = [numaQueues EXCEPT ![numa] = OneToOneRange]
            /\ numAssigned' = Assigned
       ELSE UNCHANGED <<numaQueues, numAssigned>>
    /\ UNCHANGED <<hardwareVars, group, pc, numa, queue, assignation>>

OneToOneDone ==
    /\ pc = "oneToOne"
    /\ numAssigned >= remainingQueues - 1
    /\ pc' = "last"
    /\ numa' = remainingQueues - 1
    /\ UNCHANGED <<hardwareVars, group, queue, numAssigned, numaQueues, assignation>>

\* The last queue goes to the nodes from the index of that queue on.
AssignLast ==
    /\ pc = "last"
    /\ numa < maxNUMAs
    /\ numaQueues' = IF isAvailable(numa)
                     THEN [numaQueues EXCEPT ![numa] = [first |-> remainingQueues - 1, num |-> 1]]
                     ELSE numaQueues
    /\ numa' = numa + 1
    /\ UNCHANGED <<hardwareVars, group, pc, queue, numAssigned, assignation>>

RangesDone ==
    /\ pc \in {"distinct", "last"}
    /\ numa = maxNUMAs
    /\ pc' = "cpus"
    /\ numa' = 0
    /\ UNCHANGED <<hardwareVars, group, queue, numAssigned, numaQueues, assignation>>

CPUsOf(n) == {d \in CPUs : cpuToNUMANode[d] = n}

\* Mutant of OffsetIn: the offset runs one past the range of the node.
OffsetInWide(before, num) == before % (num + 1)

OffsetIn(before, num) == before % num

\* The queues of a node in turn for its CPUs; an entry of numaQueues that was
\* not written gives whatever the stack held.
QueueOf(d) ==
    LET n == cpuToNUMANode[d]
        before == Cardinality({e \in CPUsOf(n) : e < d})
    IN  IF numaQueues[n] = Unset THEN Unset
        ELSE numaQueues[n].first + OffsetIn(before, numaQueues[n].num)

AssignCPUs ==
    /\ pc = "cpus"
    /\ numa < maxNUMAs
    /\ assignation' =
        [d \in CPUs |-> IF d \in CPUsOf(numa) THEN QueueOf(d) ELSE assignation[d]]
    /\ numa' = numa + 1
    /\ UNCHANGED <<hardwareVars, group, pc, queue, numAssigned, numaQueues>>

CPUsDone ==
    /\ pc = "cpus"
    /\ numa = maxNUMAs
    /\ pc' = "done"
    /\ UNCHANGED <<hardwareVars, group, numa, queue, numAssigned, numaQueues, assignation>>

\* The hardware information is finalized once the group is set up.
Finalize ==
    /\ pc = "done"
    /\ finalize
    /\ UNCHANGED setupVars

Ended == hpc = "final" /\ UNCHANGED vars

Hardware == (initialize \/ CheckCPU \/ Shrink) /\ UNCHANGED setupVars

Next ==
    \/ Hardware
    \/ \E g \in Groups(machine) : setupCPURoundRobinData(g)
    \/ AssignDistinct
    \/ AssignOneToOne
    \/ OneToOneDone
    \/ AssignLast
    \/ RangesDone
    \/ AssignCPUs
    \/ CPUsDone
    \/ Finalize
    \/ Ended

Spec == Init /\ [][Next]_vars

\* The functions run without waiting for anybody.
FairSpec == Spec /\ WF_vars(Next)

(***************************************************************************)
(* Properties.                                                             *)
(***************************************************************************)

UsableCPUs == {d \in DOMAIN machine.node : machine.node[d] # -1}
UsedNodes == {machine.node[d] : d \in UsableCPUs}

EnoughQueues == group.num >= Cardinality(UsedNodes)

\* Fewer queues than nodes and yet each CPU gets one of them: node 0 is given
\* queue num - 2, the nodes from num - 1 on queue num - 1, counted from 0 and not
\* from the first queue of the group, and the nodes between nothing.
FewQueuesSuffice ==
    \/ group.num = 1 /\ group.first = 0
    \/ /\ group.num > 1
       /\ group.first <= group.num - 2
       /\ UsedNodes \cap 1 .. group.num - 2 = {}

\* Every CPU the process may run on is given a queue of the group, which getQueue
\* returns without looking, if there are enough queues, however the CPUs and nodes
\* of the machine are numbered; with fewer queues than nodes only in the cases of
\* FewQueuesSuffice, and in all others some CPU gets a queue of another group or
\* one that was never written (QueueGroup.hpp:134-149).
QueuesOfGroup ==
    pc = "done" =>
        ((\A d \in UsableCPUs :
            /\ d \in DOMAIN assignation
            /\ assignation[d] \in group.first .. group.first + group.num - 1)
         <=> EnoughQueues \/ FewQueuesSuffice)

\* With at least as many queues as nodes, CPUs of different nodes never share a
\* queue, as the policy CPU_RR promises (src/src/include/TAGASPI.h:31-32).
NUMASeparation ==
    pc = "done" /\ EnoughQueues =>
        \A d, e \in UsableCPUs :
            machine.node[d] # machine.node[e] => assignation[d] # assignation[e]

\* With fewer queues than nodes, the queues of the group but the last go one to
\* one to the first nodes (src/src/common/QueueGroup.hpp:132).
OneToOne ==
    pc = "done" /\ ~EnoughQueues =>
        \A n \in UsedNodes :
            LET i == Cardinality({m \in UsedNodes : m < n})
            IN  i < group.num - 1 => numaQueues[n] = [first |-> group.first + i, num |-> 1]

\* What the set-up is called with lets it end: the loop for fewer queues than
\* nodes has nothing to do, or finds its only node available.
Ends == EnoughQueues \/ group.num = 1 \/ 0 \in UsedNodes

=============================================================================
