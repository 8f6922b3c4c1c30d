------------------------- MODULE MCPublicationGate -------------------------
(* A small instance of PublicationGate for TLC. *)
EXTENDS PublicationGate, TLC

(* Jobs may be swapped, and so may the RUNs that start alike. *)
Symmetry == Permutations(Jobs) \cup Permutations(Legacy)
AllOps == {"submit", "replay", "publish", "recover", "author"}
=============================================================================
