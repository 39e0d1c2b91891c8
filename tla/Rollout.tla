------------------------------- MODULE Rollout -------------------------------
(***************************************************************************)
(* What a run promises, whatever happens inside it: hosts are activated    *)
(* one at a time, each at most once; after a failed activation of a k3s    *)
(* node, or of any host under --on-failure=stop, no activation starts; and *)
(* each host ends with one outcome.                                        *)
(***************************************************************************)
CONSTANTS Hosts, K3s

VARIABLES
  outcome,       \* per host: see Outcomes
  halted,        \* no further activation will start
  stopOnFailure  \* --on-failure=stop; set once by the command line

vars == <<outcome, halted, stopOnFailure>>

\* "dropped": never activated, because its build, copy or precheck failed.
Outcomes == {"pending", "active", "deployed", "failed", "dropped", "cancelled"}

TypeOK == outcome \in [Hosts -> Outcomes] /\ halted \in BOOLEAN /\ stopOnFailure \in BOOLEAN

Init ==
  /\ outcome = [h \in Hosts |-> "pending"]
  /\ halted = FALSE /\ stopOnFailure \in BOOLEAN

Drop(h) ==
  /\ outcome[h] = "pending"
  /\ outcome' = [outcome EXCEPT ![h] = "dropped"]
  /\ UNCHANGED <<halted, stopOnFailure>>

Begin(h) ==
  /\ outcome[h] = "pending" /\ ~halted
  /\ \A g \in Hosts : outcome[g] # "active"
  /\ outcome' = [outcome EXCEPT ![h] = "active"]
  /\ UNCHANGED <<halted, stopOnFailure>>

Succeed(h) ==
  /\ outcome[h] = "active"
  /\ outcome' = [outcome EXCEPT ![h] = "deployed"]
  /\ UNCHANGED <<halted, stopOnFailure>>

Fail(h) ==
  /\ outcome[h] = "active"
  /\ outcome' = [outcome EXCEPT ![h] = "failed"]
  /\ halted' = (halted \/ h \in K3s \/ stopOnFailure)
  /\ UNCHANGED stopOnFailure

Cancel(h) ==
  /\ outcome[h] = "pending" /\ halted
  /\ outcome' = [outcome EXCEPT ![h] = "cancelled"]
  /\ UNCHANGED <<halted, stopOnFailure>>

Next == \E h \in Hosts : Drop(h) \/ Begin(h) \/ Succeed(h) \/ Fail(h) \/ Cancel(h)

Spec == Init /\ [][Next]_vars

-----------------------------------------------------------------------------
\* A rolling deploy breaks at most one k3s node, and while a node is being
\* activated every other one is either untouched or was left in good order
\* (pipeline.go 202-206, 226-233).
K3sRolling ==
  /\ \A g, h \in K3s \cap Hosts : outcome[g] = "failed" /\ outcome[h] = "failed" => g = h
  /\ \A g \in K3s \cap Hosts, h \in Hosts : outcome[g] = "failed" => outcome[h] # "active"
=============================================================================
