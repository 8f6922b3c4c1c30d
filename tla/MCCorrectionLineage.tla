------------------------- MODULE MCCorrectionLineage -------------------------
(* A small instance of CorrectionLineage for TLC. *)
EXTENDS CorrectionLineage, TLC

CONSTANTS f, g, h

MCPair == {{f, g}}
MCPairAndOne == {{f, g}, {h}}
Symmetry == Permutations({f, g}) \cup Permutations(Checkouts)

=============================================================================
