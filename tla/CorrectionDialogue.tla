------------------------- MODULE CorrectionDialogue -------------------------
(***************************************************************************)
(* What an interactive execution promises: a bounded dialogue in which      *)
(* every refuted candidate is answered by a new one before the next proof,  *)
(* and which ends in the proven candidate or in a failure.                  *)
(***************************************************************************)
EXTENDS Naturals, Sequences

CONSTANTS Rounds, Candidates, NoCand

VARIABLES said, outcome

Open == outcome.kind = "open"
Final == said[Len(said)]

Init == said = <<>> /\ outcome = [kind |-> "open"]

Prove(c) ==
  /\ Open /\ Len(said) < Rounds
  /\ said # <<>> => ~Final.ok /\ Final.answer = c
  /\ \E ok \in BOOLEAN :
       said' = Append(said, [cand |-> c, ok |-> ok, asked |-> FALSE, answer |-> NoCand])
  /\ UNCHANGED outcome

Ask ==
  /\ Open /\ said # <<>> /\ ~Final.ok /\ ~Final.asked /\ Len(said) < Rounds
  /\ said' = [said EXCEPT ![Len(said)] = [Final EXCEPT !.asked = TRUE]]
  /\ UNCHANGED outcome

Answer(c) ==
  /\ Open /\ said # <<>> /\ Final.asked /\ Final.answer = NoCand
  /\ \A k \in DOMAIN said : said[k].cand # c
  /\ said' = [said EXCEPT ![Len(said)] = [Final EXCEPT !.answer = c]]
  /\ UNCHANGED outcome

Conclude == /\ Open /\ said # <<>> /\ Final.ok
            /\ outcome' = [kind |-> "done", cand |-> Final.cand]
            /\ UNCHANGED said

Fail == Open /\ outcome' = [kind |-> "failed"] /\ UNCHANGED said

Next == Ask \/ Conclude \/ Fail \/ \E c \in Candidates : Prove(c) \/ Answer(c)

vars == <<said, outcome>>
Spec == Init /\ [][Next]_vars
=============================================================================
