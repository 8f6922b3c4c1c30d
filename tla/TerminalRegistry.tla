--------------------------- MODULE TerminalRegistry ---------------------------
(* What the remote refs of AIOS-renew promise to their readers: of every RUN
   and kind at most one terminal, published whole and never replaced, and at
   most one wake-up, which is about the terminal that came first.
   ReviewTransport is how several checkouts keep it without a lock.        *)
EXTENDS Sequences

CONSTANTS Sites, Runs, Kinds, Heads, NoRef

VARIABLES
  terminal,     \* per kind and RUN: who published it with which candidate
  order,        \* the kinds of the terminals of a RUN, first come first
  wake          \* per RUN: the kind that was signalled

Terminal == [site: Sites, head: Heads \cup {NoRef}]

Init ==
  /\ terminal = [k \in Kinds |-> [r \in Runs |-> NoRef]]
  /\ order = [r \in Runs |-> <<>>]
  /\ wake = [r \in Runs |-> NoRef]

Publish(k, r) ==
  /\ terminal[k][r] = NoRef
  /\ \E t \in Terminal : terminal' = [terminal EXCEPT ![k][r] = t]
  /\ order' = [order EXCEPT ![r] = Append(@, k)]
  /\ UNCHANGED wake

Signal(r) ==
  /\ wake[r] = NoRef /\ order[r] # <<>>
  /\ wake' = [wake EXCEPT ![r] = Head(order[r])]
  /\ UNCHANGED <<terminal, order>>

Next == \E r \in Runs : Signal(r) \/ \E k \in Kinds : Publish(k, r)

Spec == Init /\ [][Next]_<<terminal, order, wake>>
=============================================================================
