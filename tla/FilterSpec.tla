------------------------------ MODULE FilterSpec ------------------------------
(***************************************************************************)
(* What the scan engine expects of source.Filter                           *)
(* (src/internal/source/interface.go): a call made with a list of hosts    *)
(* judges each of them once and either returns exactly the ones it         *)
(* accepted or an error.  No thread, no lock, no order of the answer.      *)
(***************************************************************************)
CONSTANTS
  Jobs,      \* positions of the input list
  Outcomes,  \* what asking a host can give
  Accepted,  \* the outcomes for which the host is kept
  Unasked    \* no outcome yet

VARIABLES
  phase,     \* "calling", "returned" or "failed"
  outcome,   \* [Jobs -> Outcomes \cup {Unasked}]
  answer     \* the positions of the hosts returned

vars == <<phase, outcome, answer>>

Kept(o) == {j \in Jobs : o[j] \in Accepted}

Init ==
  /\ phase = "calling"
  /\ outcome = [j \in Jobs |-> Unasked]
  /\ answer = {}

\* A host is asked; others may be at the same time, the answers come one by one.
Judge(j) ==
  /\ phase = "calling"
  /\ outcome[j] = Unasked
  /\ \E o \in Outcomes : outcome' = [outcome EXCEPT ![j] = o]
  /\ UNCHANGED <<phase, answer>>

Return ==
  /\ phase = "calling"
  /\ \A j \in Jobs : outcome[j] # Unasked
  /\ phase' = "returned"
  /\ answer' = Kept(outcome)
  /\ UNCHANGED outcome

ReturnError ==
  /\ phase = "calling"
  /\ phase' = "failed"
  /\ UNCHANGED <<outcome, answer>>

Next == (\E j \in Jobs : Judge(j)) \/ Return \/ ReturnError

Spec == Init /\ [][Next]_vars
=============================================================================
