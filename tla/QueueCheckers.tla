--------------------------- MODULE QueueCheckers ----------------------------
(***************************************************************************)
(* How Polling::initialize (src/src/common/Polling.cpp) splits the GASPI   *)
(* queues among the polling instances that check them: contiguous ranges,  *)
(* the first remq instances one queue longer.  The code keeps the first    *)
(* queue of the next instance in a running sum; FirstQueue is that sum     *)
(* in closed form.                                                         *)
(***************************************************************************)
EXTENDS Integers

CONSTANTS
    MaxQueues,           \* _env.maxQueues
    NumCheckers          \* TAGASPI_QUEUE_CHECKERS

ASSUME QueueCheckersAssumption ==
    /\ MaxQueues \in Nat \ {0}
    /\ NumCheckers \in Nat \ {0}

Queue == 0 .. MaxQueues - 1
Checker == 0 .. NumCheckers - 1

qppi == MaxQueues \div NumCheckers
remq == MaxQueues % NumCheckers

NumQueuesOf(c) == qppi + (IF c < remq THEN 1 ELSE 0)
FirstQueue(c) == c * qppi + (IF c < remq THEN c ELSE remq)

\* Only an instance with queues is registered with the tasking model.
Registered == {c \in Checker : NumQueuesOf(c) > 0}
=============================================================================
