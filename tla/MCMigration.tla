---------------------------- MODULE MCMigration ----------------------------
(* Small instances of MigrationHandoff for TLC: the legacy generation g0 is
   left by m (version 1) or by o, which n supersedes; u upgrades what
   they reach, and v is another intent for that upgrade. *)
EXTENDS MigrationHandoff, TLC
CONSTANTS p1, p2, r1, r2, m, o, n, u, v, g0, g1, g2, g3, s, t

MCVersion == [e \in Edges |-> IF e = m THEN 1 ELSE 2]
MCSource == [e \in Edges |-> IF e \in {u, v} THEN g2 ELSE g0]
MCTarget == [e \in Edges |-> CASE e = o -> g1 [] e \in {u, v} -> g3 [] OTHER -> g2]
MCBase == [e \in Edges |-> IF e \in {u, v} THEN 1 ELSE 0]
MCControl == [e \in Edges |-> IF e = m THEN 1 ELSE MCBase[e]]
MCTask == [e \in Edges |-> IF e = u THEN s ELSE t]
MCRebinds == {<<o, n>>} \cap (Edges \X Edges)
Symmetry == Permutations(Procs) \cup Permutations(RunIds)
=============================================================================
