------------------------------ MODULE FairLock ------------------------------
(***************************************************************************)
(* What a lock of TAGASPI promises: one holder at a time, given to the     *)
(* threads in the order in which they arrived.                             *)
(***************************************************************************)
CONSTANT Thread

VARIABLES
    inside,              \* threads that wait for the lock or hold it
    ahead,               \* [Thread -> threads inside that arrived earlier]
    holder               \* the thread that holds the lock, as a set

vars == <<inside, ahead, holder>>

Init ==
    /\ inside = {}
    /\ ahead = [t \in Thread |-> {}]
    /\ holder = {}

Arrive(t) ==
    /\ t \notin inside
    /\ inside' = inside \cup {t}
    /\ ahead' = [ahead EXCEPT ![t] = inside]
    /\ UNCHANGED holder

\* Everyone who arrived earlier has left.
Acquire(t) ==
    /\ t \in inside
    /\ ahead[t] = {}
    /\ holder = {}
    /\ holder' = {t}
    /\ UNCHANGED <<inside, ahead>>

\* A thread that does not wait takes the lock only if nobody is inside.
TryAcquire(t) ==
    /\ inside = {}
    /\ inside' = {t}
    /\ holder' = {t}
    /\ UNCHANGED ahead

Release(t) ==
    /\ holder = {t}
    /\ holder' = {}
    /\ inside' = inside \ {t}
    /\ ahead' = [u \in Thread |-> ahead[u] \ {t}]

Next == \E t \in Thread : Arrive(t) \/ Acquire(t) \/ TryAcquire(t) \/ Release(t)

Spec == Init /\ [][Next]_vars
=============================================================================
