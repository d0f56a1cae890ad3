------------------------------ MODULE MCSystem ------------------------------
(* System for TLC: operations of one and of two requests. *)
EXTENDS System, TLC

MCnumRequests ==
    [o \in {"READ", "WRITE", "NOTIFY", "WRITE_NOTIFY"} |->
        IF o = "WRITE_NOTIFY" THEN 2 ELSE 1]
MClistRequests ==
    [o \in {"READ_LIST", "WRITE_LIST", "WRITE_LIST_NOTIFY"} |-> [n \in ListSize |-> n]]

MCSymmetry == Permutations(Request)
=============================================================================
