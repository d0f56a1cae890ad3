---------------------------- MODULE HardwareInfo ----------------------------
(***************************************************************************)
(* HardwareInfo::initialize and finalize (src/src/common/HardwareInfo.hpp):*)
(* the node of each CPU and the nodes the process may use, collected CPU   *)
(* by CPU into static vectors.  The modules that use them extend this one  *)
(* (see CPURoundRobin).                                                    *)
(***************************************************************************)
EXTENDS Integers, FiniteSets

CONSTANT Machine         \* machines, see IsMachine

\* The node of each possible CPU, -1 for one that is not in numa_all_cpus_ptr,
\* and numa_max_node() + 1.
IsMachine(m) ==
    /\ m.maxNUMAs \in Nat \ {0}
    /\ IsFiniteSet(DOMAIN m.node)
    /\ m.node \in [0 .. Cardinality(DOMAIN m.node) - 1 -> -1 .. m.maxNUMAs - 1]
    /\ \E c \in DOMAIN m.node : m.node[c] # -1

ASSUME HardwareAssumption == \A m \in Machine : IsMachine(m)

VARIABLES
    machine,
    hpc,                 \* off, loop, ready or final
    c,                   \* the CPU of the loop
    cpuToNUMANode, numaNodeAvailability, numAvailableNUMANodes,
    maxAvailableCPU, maxAvailableNUMA

infoVars == <<cpuToNUMANode, numaNodeAvailability, numAvailableNUMANodes>>
maxVars == <<maxAvailableCPU, maxAvailableNUMA>>
hardwareVars == <<machine, hpc, c, infoVars, maxVars>>

possibleCPUs == Cardinality(DOMAIN machine.node)

HardwareTypeOK ==
    /\ machine \in Machine
    /\ hpc \in {"off", "loop", "ready", "final"}
    /\ c \in 0 .. possibleCPUs
    /\ DOMAIN cpuToNUMANode \subseteq 0 .. possibleCPUs - 1
    /\ DOMAIN numaNodeAvailability \subseteq 0 .. machine.maxNUMAs - 1
    /\ numAvailableNUMANodes \in 0 .. machine.maxNUMAs

Empty == [i \in {} |-> 0]

HardwareInit ==
    /\ machine \in Machine
    /\ hpc = "off" /\ c = 0
    /\ cpuToNUMANode = Empty /\ numaNodeAvailability = Empty
    /\ numAvailableNUMANodes = 0
    /\ maxAvailableCPU = 0 /\ maxAvailableNUMA = 0

\* std::vector::resize keeps the elements that are there.
resize(f, n, v) == [i \in 0 .. n - 1 |-> IF i \in DOMAIN f THEN f[i] ELSE v]

initialize ==
    /\ hpc = "off"
    /\ hpc' = "loop" /\ c' = 0
    /\ cpuToNUMANode' = resize(cpuToNUMANode, possibleCPUs, -1)
    /\ numaNodeAvailability' = resize(numaNodeAvailability, machine.maxNUMAs, FALSE)
    /\ numAvailableNUMANodes' = 0
    /\ maxAvailableCPU' = 0 /\ maxAvailableNUMA' = 0
    /\ UNCHANGED machine

\* Mutant of IsNew: a node is counted for each of its CPUs.
IsNewAlways(numa) == TRUE

IsNew(numa) == ~numaNodeAvailability[numa]

\* One iteration of the loop over the CPUs.
CheckCPU ==
    LET numa == machine.node[c]
    IN  /\ hpc = "loop"
        /\ c < possibleCPUs
        /\ \/ numa = -1 /\ UNCHANGED <<infoVars, maxVars>>
           \/ /\ numa # -1
              /\ cpuToNUMANode' = [cpuToNUMANode EXCEPT ![c] = numa]
              /\ numaNodeAvailability' = [numaNodeAvailability EXCEPT ![numa] = TRUE]
              /\ numAvailableNUMANodes' = numAvailableNUMANodes + (IF IsNew(numa) THEN 1 ELSE 0)
              /\ maxAvailableCPU' = c
              /\ maxAvailableNUMA' = IF maxAvailableNUMA < numa THEN numa ELSE maxAvailableNUMA
        /\ c' = c + 1
        /\ UNCHANGED <<machine, hpc>>

\* The size of a vector whose last index is last.
Needed(last) == last + 1

\* The vectors end at the last CPU and node that can be used.
Shrink ==
    /\ hpc = "loop"
    /\ c = possibleCPUs
    /\ hpc' = "ready"
    /\ cpuToNUMANode' = resize(cpuToNUMANode, Needed(maxAvailableCPU), -1)
    /\ numaNodeAvailability' = resize(numaNodeAvailability, Needed(maxAvailableNUMA), FALSE)
    /\ UNCHANGED <<machine, c, numAvailableNUMANodes, maxVars>>

\* finalize leaves the vectors as they are.
finalize ==
    /\ hpc = "ready"
    /\ hpc' = "final"
    /\ UNCHANGED <<machine, c, infoVars, maxVars>>

(***************************************************************************)
(* Properties.                                                             *)
(***************************************************************************)

\* What setupCPURoundRobinData relies on: the vectors cover every CPU and node
\* that can be used and end with one, a CPU is on its node, a node is available
\* if it has such a CPU, and each such node is counted once; there is one, as
\* initialize asserts (HardwareInfo.hpp:68), for the queues are divided by it.
HardwareKnown ==
    LET usable == {d \in DOMAIN machine.node : machine.node[d] # -1}
        nodes == {machine.node[d] : d \in usable}
        last(S) == CHOOSE x \in S : \A y \in S : y <= x
    IN  hpc = "ready" =>
            /\ cpuToNUMANode = [d \in 0 .. last(usable) |-> machine.node[d]]
            /\ numaNodeAvailability = [n \in 0 .. last(nodes) |-> n \in nodes]
            /\ numAvailableNUMANodes = Cardinality(nodes)
            /\ numAvailableNUMANodes > 0
=============================================================================
