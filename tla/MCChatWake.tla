----------------------------- MODULE MCChatWake -----------------------------
(* A small instance of ChatWake for TLC. *)
EXTENDS ChatWake, TLC

CONSTANTS p1, p2, e1, e2, e3

Symmetry == Permutations(Passes) \cup Permutations(Events)

=============================================================================
