---------------------------- MODULE MCRunTerminal ----------------------------
(* Small instances of RunTerminal for TLC. *)
EXTENDS RunTerminal, TLC

CONSTANTS p1, p2, p3, c1, c2, g1, g2

Symmetry == Permutations(Owners \ {Main}) \cup Permutations(Candidates) \cup Permutations(Packages)

=============================================================================
