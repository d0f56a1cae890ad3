-------------------------- MODULE MCCPURoundRobin ---------------------------
(* CPURoundRobin for TLC: every machine of up to four CPUs and five nodes,  *)
(* some of them not available, and groups of up to four queues.             *)
EXTENDS CPURoundRobin

MCMachine ==
    {m \in UNION {[node : [0 .. n -> -1 .. 4], maxNUMAs : {5}] : n \in 0 .. 3} :
        \E d \in DOMAIN m.node : m.node[d] # -1}

MCGroup == [first : 0 .. 2, num : 1 .. 4]

MCGroups(m) == MCGroup

NodesOf(m) == {m.node[d] : d \in DOMAIN m.node} \ {-1}

\* Groups with fewer queues than nodes, and the machines that have any.
MCFewQueues(m) == {g \in MCGroup : g.num < Cardinality(NodesOf(m))}
MCManyNodes == {m \in MCMachine : Cardinality(NodesOf(m)) > 1}
MCManyNodes0 == {m \in MCManyNodes : 0 \in NodesOf(m)}
=============================================================================
