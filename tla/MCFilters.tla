------------------------------- MODULE MCFilters -------------------------------
(***************************************************************************)
(* Two filters of one scan: a call of ping_filter down to its packets      *)
(* (PingNet), then one of prom_exporter_filter down to its goroutines      *)
(* (HostPool).  Neither reads what the other keeps, so one order stands    *)
(* for all; the hosts of the second call are three of its own.             *)
(***************************************************************************)
EXTENDS HostPool, PingNet

CONSTANT p1

\* A host, then the same host again, another one, or the machine itself.
MCLists ==
  LET first == CHOOSE x \in Addresses : x # Self
  IN  {[p \in Pings |-> IF p = p1 THEN first ELSE x] : x \in Addresses}

MCInit == PingInit /\ Init

MCNext ==
  \/ PingNext /\ UNCHANGED vars
  \/ call = "returned" /\ Next /\ UNCHANGED pingVars

MCFairness ==
  /\ PingFairness
  /\ \A w \in Workers : /\ WF_vars(call = "returned" /\ Take(w))
                       /\ WF_vars(call = "returned" /\ Closure(w))
  /\ WF_vars(call = "returned" /\ WaitForCompletion)

MCSpec == MCInit /\ [][MCNext]_<<vars, pingVars>> /\ MCFairness
===============================================================================
