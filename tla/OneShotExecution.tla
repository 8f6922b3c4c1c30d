-------------------------- MODULE OneShotExecution --------------------------
(***************************************************************************)
(* What a dispatch journal promises, without locks, files, processes or    *)
(* crashes: a dispatch is authorized once, owned by at most one RUN,       *)
(* started at most once, and decided at most once; a dispatch given up     *)
(* before it owned a RUN is never started.                                 *)
(***************************************************************************)
EXTENDS Naturals

CONSTANTS Ids, Runs, NoRun

VARIABLES
  phase,    \* "new", "authorized" or "abandoned"
  owner,    \* the RUN a dispatch owns
  starts,   \* how often its executor was started
  verdict   \* "open", "SUCCEEDED" or "FAILED"

vars == <<phase, owner, starts, verdict>>

Init ==
  /\ phase = [x \in Ids |-> "new"]
  /\ owner = [x \in Ids |-> NoRun]
  /\ starts = [x \in Ids |-> 0]
  /\ verdict = [x \in Ids |-> "open"]

Authorize(x) ==
  /\ phase[x] = "new"
  /\ phase' = [phase EXCEPT ![x] = "authorized"]
  /\ UNCHANGED <<owner, starts, verdict>>

Own(x, r) ==
  /\ phase[x] = "authorized" /\ verdict[x] = "open"
  /\ owner[x] = NoRun /\ \A y \in Ids : owner[y] # r
  /\ owner' = [owner EXCEPT ![x] = r]
  /\ UNCHANGED <<phase, starts, verdict>>

Abandon(x) ==
  /\ phase[x] = "authorized" /\ verdict[x] = "open" /\ owner[x] = NoRun
  /\ phase' = [phase EXCEPT ![x] = "abandoned"]
  /\ UNCHANGED <<owner, starts, verdict>>

Start(x) ==
  /\ owner[x] # NoRun /\ verdict[x] = "open" /\ starts[x] = 0
  /\ starts' = [starts EXCEPT ![x] = 1]
  /\ UNCHANGED <<phase, owner, verdict>>

(* A success needs an execution; a failure may come before one. *)
Decide(x, v) ==
  /\ phase[x] = "authorized" /\ verdict[x] = "open"
  /\ v = "SUCCEEDED" => starts[x] = 1
  /\ verdict' = [verdict EXCEPT ![x] = v]
  /\ UNCHANGED <<phase, owner, starts>>

Next ==
  \E x \in Ids :
    \/ Authorize(x) \/ Abandon(x) \/ Start(x)
    \/ \E r \in Runs : Own(x, r)
    \/ \E v \in {"SUCCEEDED", "FAILED"} : Decide(x, v)

Spec == Init /\ [][Next]_vars
=============================================================================
