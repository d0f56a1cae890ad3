---------------------------- MODULE MCOperations ----------------------------
(* Operations for TLC: two tasks sharing a few requests. *)
EXTENDS Operations

\* A read or write is one request, a write with notification two.
MCnumRequests == [o \in SingleOperation |-> IF o = "WRITE_NOTIFY" THEN 2 ELSE 1]

\* A list is one request per element, and one more for its notification.
MClistRequests ==
    [o \in ListOperation |->
        [n \in ListSize |-> IF o = "WRITE_LIST_NOTIFY" THEN n + 1 ELSE n]]
=============================================================================
