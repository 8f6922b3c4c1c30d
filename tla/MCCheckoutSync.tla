---------------------------- MODULE MCCheckoutSync ----------------------------
(* Small instances of CheckoutSync for TLC. *)
EXTENDS CheckoutSync, TLC

Symmetry == Permutations(Operators) \cup Permutations(Runs)
=============================================================================
