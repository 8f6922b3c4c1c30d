-------------------------- MODULE MCSessionBudget --------------------------
(* A small instance of SessionBudget for TLC. *)
EXTENDS SessionBudget, TLC
=============================================================================
