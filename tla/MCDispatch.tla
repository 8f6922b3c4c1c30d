----------------------------- MODULE MCDispatch -----------------------------
(* Small instances of DispatchJournal for TLC. *)
EXTENDS DispatchJournal, TLC

CONSTANTS p1, p2, p3, d1, d2, d3, b1, b2

MCOnePrimary == d1 :> "PRIMARY"
MCRuns1 == 1..1
MCRuns3 == 1..3
MCEachFamily == d1 :> "PRIMARY" @@ d2 :> "REPAIR" @@ d3 :> "CORRECTION"
MCReserved == {1}
MCNone == {}

Symmetry == Permutations(Procs)

=============================================================================
