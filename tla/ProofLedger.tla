----------------------------- MODULE ProofLedger -----------------------------
(* What the evidence of one RUN promises to its readers: a chain of proofs
   that only grows, each for another candidate, and at most one terminal
   outcome, after which nothing is added.  A RESULT that consumed proofs
   rests on the last one.  RunTerminal is how the Runtime keeps it.        *)
EXTENDS Sequences, Naturals

CONSTANTS Candidates, Packages, MaxCheckpoints

VARIABLES
  chain,        \* the sealed proofs, oldest first
  outcome       \* the terminal outcome of the RUN

Proof == [cand: Candidates, ok: BOOLEAN]
Open == [kind |-> "open"]
Failed == [kind |-> "failure"]
Done(k, g) == [kind |-> "result", proof |-> k, package |-> g]

Init == chain = <<>> /\ outcome = Open

(* One more candidate was proved, or refuted. *)
Seal ==
  /\ outcome = Open /\ Len(chain) < MaxCheckpoints
  /\ \E proof \in Proof :
       /\ \A i \in DOMAIN chain : chain[i].cand # proof.cand
       /\ chain' = Append(chain, proof)
  /\ UNCHANGED outcome

(* The RUN succeeds on its last proof. *)
Succeed ==
  /\ outcome = Open
  /\ chain # <<>> /\ chain[Len(chain)].ok
  /\ \E g \in Packages : outcome' = Done(Len(chain), g)
  /\ UNCHANGED chain

(* The RUN succeeds on a verification outside the chain, which is then empty. *)
SucceedUnsealed ==
  /\ outcome = Open /\ chain = <<>>
  /\ \E g \in Packages : outcome' = Done(0, g)
  /\ UNCHANGED chain

Fail ==
  /\ outcome = Open
  /\ outcome' = Failed
  /\ UNCHANGED chain

Next == Seal \/ Succeed \/ SucceedUnsealed \/ Fail

Spec == Init /\ [][Next]_<<chain, outcome>>
=============================================================================
