-------------------------- MODULE MCNotifications ---------------------------
(* Notifications for TLC. *)
EXTENDS Notifications, TLC

MCSymmetry == Permutations(Task) \cup Permutations(Object)
=============================================================================
