-------------------------- MODULE MCReviewTransport --------------------------
(* A small instance of ReviewTransport for TLC: two checkouts, one of them
   with two processes, and two RUN numbers. *)
EXTENDS ReviewTransport, TLC

CONSTANTS s1, s2, p1, p2, p3

MCTwoAndOne == p1 :> s1 @@ p2 :> s1 @@ p3 :> s2
MCRuns2 == 1..2

(* The two processes of s1 may be swapped. *)
Symmetry == Permutations({p1, p2})

(* RUN 2 is there to recover RUN 1 when its terminals conflict: it is followed
   without a fault, with the attention carrier, and in one process for each
   checkout.  Everything is followed for RUN 1. *)
SecondIsRecovery ==
  (\E s \in Sites : record[s][2].kind # "absent") =>
    /\ \A s \in Sites : record[s][2].kind # "absent" => record[s][2].source # NoRun
    /\ surface /\ faults = 0 /\ \E p \in {p1, p2} : pc[p] = "idle"

=============================================================================
