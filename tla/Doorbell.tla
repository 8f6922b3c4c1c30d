------------------------------ MODULE Doorbell ------------------------------
(***************************************************************************)
(* What a local chat wake promises about one event: its attention, once     *)
(* kept, stays until it is settled; its bell rings only while the event is  *)
(* held, and at most once; a held event never becomes ready to ring again.  *)
(***************************************************************************)
EXTENDS Naturals

CONSTANT Events

VARIABLES attention,   \* what is known of each event
          rung         \* how often its bell was rung

bells == <<attention, rung>>

Attention == {"none", "kept", "held", "settled"}

Init == /\ attention = [e \in Events |-> "none"]
        /\ rung = [e \in Events |-> 0]

(* The steps attention may take; ringing leaves it where it is. *)
Forward(from, to) == \/ from = to
                     \/ from = "none" /\ to = "kept"
                     \/ from = "kept" /\ to \in {"held", "settled"}
                     \/ from = "held" /\ to = "settled"

Advance == /\ attention' \in [Events -> Attention]
           /\ \A e \in Events : Forward(attention[e], attention'[e])
           /\ UNCHANGED rung

Ring(e) == /\ attention[e] = "held"
           /\ rung[e] = 0
           /\ rung' = [rung EXCEPT ![e] = 1]
           /\ UNCHANGED attention

Next == Advance \/ \E e \in Events : Ring(e)

Spec == Init /\ [][Next]_bells

=============================================================================
