---------------------------- MODULE RolloutProofs ----------------------------
(***************************************************************************)
(* What the serial rollout is for, proved of any fleet: a rolling deploy   *)
(* breaks at most one k3s node.  PipelineProofs shows that Pipeline is such*)
(* a rollout, and DeployRunProofs that the loop of the debug modes is.     *)
(***************************************************************************)
EXTENDS Rollout, TLAPS

\* Every reachable state is well typed: each host has one of the outcomes.
THEOREM RolloutTyped == Spec => []TypeOK
<1>1. Init => TypeOK
  BY DEF Init, TypeOK, Outcomes
<1>2. TypeOK /\ [Next]_vars => TypeOK'
  BY DEF TypeOK, Next, vars, Outcomes, Drop, Begin, Succeed, Fail, Cancel
<1> QED
  BY <1>1, <1>2, PTL DEF Spec

\* Why a second k3s node cannot fail: the first failure halts the rollout, at
\* most one host is ever active, and nothing is active once it is halted.
SerialInv ==
  /\ TypeOK
  /\ \A g, h \in Hosts : outcome[g] = "active" /\ outcome[h] = "active" => g = h
  /\ halted => \A h \in Hosts : outcome[h] # "active"
  /\ \A g \in K3s \cap Hosts : outcome[g] = "failed" => halted
  /\ K3sRolling

\* A rolling deploy leaves at most one k3s node broken, and once one is, no
\* other host is activated (drainActivations, pipeline.go 202-237; the serial
\* loop, main.go 251-266).
THEOREM RollingK3s == Spec => []K3sRolling
<1>1. Init => SerialInv
  BY DEF Init, SerialInv, TypeOK, Outcomes, K3sRolling
<1>2. SerialInv /\ [Next]_vars => SerialInv'
  <2> SUFFICES ASSUME SerialInv, [Next]_vars PROVE SerialInv'
    OBVIOUS
  <2> USE DEF SerialInv, K3sRolling, TypeOK, Outcomes
  <2>1. ASSUME NEW h \in Hosts, Drop(h) PROVE SerialInv'
    BY <2>1 DEF Drop
  <2>2. ASSUME NEW h \in Hosts, Begin(h) PROVE SerialInv'
    BY <2>2 DEF Begin
  <2>3. ASSUME NEW h \in Hosts, Succeed(h) PROVE SerialInv'
    BY <2>3 DEF Succeed
  <2>4. ASSUME NEW h \in Hosts, Fail(h) PROVE SerialInv'
    BY <2>4 DEF Fail
  <2>5. ASSUME NEW h \in Hosts, Cancel(h) PROVE SerialInv'
    BY <2>5 DEF Cancel
  <2>6. CASE UNCHANGED vars
    BY <2>6 DEF vars
  <2> QED
    BY <2>1, <2>2, <2>3, <2>4, <2>5, <2>6 DEF Next
<1>3. SerialInv => K3sRolling
  BY DEF SerialInv
<1> QED
  BY <1>1, <1>2, <1>3, PTL DEF Spec
=============================================================================
