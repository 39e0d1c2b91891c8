--------------------------- MODULE CephGateProofs ---------------------------
(***************************************************************************)
(* The rolling gate holds for any number of storage hosts, any number of   *)
(* deploys and any number of health retries.                               *)
(***************************************************************************)
EXTENDS CephGate, TLAPS

\* Between CephBeforeDeploy's check and the end of the deploy, only the host's
\* own OSD is down, strays apart.
GateInv ==
  /\ AtMostOneDown
  /\ pc \in {"set", "deploy"} => down \ stray \subseteq {host}

\* Deploys never leave two hosts' OSDs down, those apart whose reboot or
\* watchdog outlived its deploy (CephBeforeDeploy, ceph.go 83-104).
THEOREM RollingGate == Spec => []AtMostOneDown
<1>1. Init => GateInv
  BY DEF Init, GateInv, AtMostOneDown
<1>2. GateInv /\ [Next]_vars => GateInv'
  <2> SUFFICES ASSUME GateInv, [Next]_vars PROVE GateInv'
    OBVIOUS
  <2> USE DEF GateInv, AtMostOneDown
  <2>1. CASE \E h \in Hosts : Start(h)
    BY <2>1 DEF Start, clusterVars
  <2>2. CASE \E h \in Hosts : OsdStops(h)
    BY <2>2 DEF OsdStops
  <2>3. CASE \E h \in Hosts : OsdStarts(h)
    BY <2>3 DEF OsdStarts
  <2>4. CASE PgsClean
    BY <2>4 DEF PgsClean
  <2>8. CASE Scrub
    BY <2>8 DEF Scrub
  <2>5. CASE DeployStep
    <3>1. CASE Reach
      BY <3>1 DEF Reach, Goto, Redial, Return, clusterVars
    <3>2. CASE CephBeforeTree
      BY <3>2 DEF CephBeforeTree, DownOSDsByHost, Goto, Redial, Return, clusterVars
    <3>3. CASE CephBeforeSet
      BY <3>3 DEF CephBeforeSet, Goto, Redial, Return, clusterVars
    <3>4. CASE DeployEnds
      BY <3>4 DEF DeployEnds, Goto, Fail, Return
    <3>5. CASE CephAfterOsds
      BY <3>5 DEF CephAfterOsds, NextTry, Goto, Redial, Fail, Return, clusterVars
    <3>6. CASE CephAfterPgs
      BY <3>6 DEF CephAfterPgs, NextTry, Goto, Redial, Fail, Return, clusterVars
    <3>7. CASE CephAfterUnset
      BY <3>7 DEF CephAfterUnset, Redial, Fail, Return, clusterVars
    <3> QED
      BY <2>5, <3>1, <3>2, <3>3, <3>4, <3>5, <3>6, <3>7 DEF DeployStep
  <2>6. CASE Interrupt
    BY <2>6 DEF Interrupt
  <2>7. CASE UNCHANGED vars
    BY <2>7 DEF vars, clusterVars
  <2> QED
    BY <2>1, <2>2, <2>3, <2>4, <2>5, <2>6, <2>7, <2>8 DEF Next
<1>3. GateInv => AtMostOneDown
  BY DEF GateInv
<1> QED
  BY <1>1, <1>2, <1>3, PTL DEF Spec

-----------------------------------------------------------------------------
(***************************************************************************)
(* The deployer: its types, and the noout flags it leaves.                 *)
(***************************************************************************)

\* A step of the deployer is about some host, and only then is there one.
Typed == TypeOK /\ (pc = "idle" <=> host = NoHost)

\* Every step of the deployer and of the cluster keeps the types.
LEMMA TypedStep == Typed /\ [Next]_vars => Typed'
<1> SUFFICES ASSUME Typed, [Next]_vars PROVE Typed'
  OBVIOUS
<1> USE CephAssumption DEF Typed, TypeOK, Steps
<1>1. CASE \E h \in Hosts : Start(h)
  BY <1>1 DEF Start, clusterVars
<1>2. CASE \E h \in Hosts : OsdStops(h)
  BY <1>2 DEF OsdStops
<1>3. CASE \E h \in Hosts : OsdStarts(h)
  BY <1>3 DEF OsdStarts
<1>4. CASE PgsClean \/ Scrub
  BY <1>4 DEF PgsClean, Scrub
<1>5. CASE Reach
  BY <1>5 DEF Reach, Goto, Redial, Return, clusterVars
<1>6. CASE CephBeforeTree
  BY <1>6 DEF CephBeforeTree, Goto, Redial, Return, clusterVars
<1>7. CASE CephBeforeSet
  BY <1>7 DEF CephBeforeSet, Goto, Redial, Return, clusterVars
<1>8. CASE DeployEnds
  BY <1>8 DEF DeployEnds, Goto, Fail, Return
<1>9. CASE CephAfterOsds
  BY <1>9 DEF CephAfterOsds, NextTry, Goto, Redial, Fail, Return, clusterVars
<1>10. CASE CephAfterPgs
  BY <1>10 DEF CephAfterPgs, NextTry, Goto, Redial, Fail, Return, clusterVars
<1>11. CASE CephAfterUnset
  BY <1>11 DEF CephAfterUnset, Redial, Fail, Return, clusterVars
<1>12. CASE Interrupt
  BY <1>12 DEF Interrupt
<1>13. CASE UNCHANGED vars
  BY <1>13 DEF vars, clusterVars
<1> QED
  BY <1>1, <1>2, <1>3, <1>4, <1>5, <1>6, <1>7, <1>8, <1>9, <1>10, <1>11, <1>12, <1>13
     DEF Next, DeployStep

\* The deployer names a host exactly while it is deploying one.
LEMMA AlwaysTyped == Spec => []Typed
<1>1. Init => Typed
  BY CephAssumption DEF Init, Typed, TypeOK, Steps
<1> QED
  BY <1>1, TypedStep, PTL DEF Spec

\* Every reachable state of the gate is well typed: the retries stay within
\* cephHealthRetries (ceph.go 115-144), whatever the cluster does.
THEOREM GateTyped == Spec => []TypeOK
<1>1. Typed => TypeOK
  BY DEF Typed
<1> QED
  BY <1>1, AlwaysTyped, PTL

\* A flag that outlives its deploy never hides behind a success, for any
\* number of hosts and deploys: a deploy that returns true has just cleared its
\* own, and every other return leaves a warning or a failure (deploy.go 73-92).
THEOREM NooutNeverHidden == Spec => []NooutAccounted
<1>1. Init => NooutAccounted
  BY DEF Init, NooutAccounted
<1>2. Typed /\ NooutAccounted /\ [Next]_vars => NooutAccounted'
  <2> SUFFICES ASSUME Typed, NooutAccounted, [Next]_vars PROVE NooutAccounted'
    OBVIOUS
  <2> USE DEF NooutAccounted
  <2> noout \subseteq Hosts /\ result \in [Hosts -> {"none", "ok", "failed", "interrupted"}]
    BY DEF Typed, TypeOK
  <2> IF pc = "idle" THEN host \notin Hosts ELSE host \in Hosts
    BY CephAssumption DEF Typed, TypeOK
  <2>1. CASE \E h \in Hosts : Start(h)
    BY <2>1 DEF Start, clusterVars
  <2>2. CASE \E h \in Hosts : OsdStops(h) \/ OsdStarts(h)
    BY <2>2 DEF OsdStops, OsdStarts
  <2>3. CASE PgsClean \/ Scrub
    BY <2>3 DEF PgsClean, Scrub
  <2>4. CASE Reach \/ CephBeforeTree
    BY <2>4 DEF Reach, CephBeforeTree, Goto, Redial, Return, clusterVars
  <2>5. CASE CephBeforeSet
    BY <2>5 DEF CephBeforeSet, Goto, Redial, Return, clusterVars
  <2>6. CASE DeployEnds
    BY <2>6 DEF DeployEnds, Goto, Fail, Return
  <2>7. CASE CephAfterOsds \/ CephAfterPgs
    BY <2>7 DEF CephAfterOsds, CephAfterPgs, NextTry, Goto, Redial, Fail, Return, clusterVars
  <2>8. CASE CephAfterUnset
    BY <2>8 DEF CephAfterUnset, Redial, Fail, Return, clusterVars
  <2>9. CASE Interrupt
    BY <2>9 DEF Interrupt
  <2>10. CASE UNCHANGED vars
    BY <2>10 DEF vars, clusterVars
  <2> QED
    BY <2>1, <2>2, <2>3, <2>4, <2>5, <2>6, <2>7, <2>8, <2>9, <2>10 DEF Next, DeployStep
<1> QED
  BY <1>1, <1>2, AlwaysTyped, PTL DEF Spec

\* An OSD that is down has degraded placement groups.
DownDegrades == down # {} => pgs = "degraded"

\* noout is cleared only of a cluster with every OSD up at that moment: the
\* placement groups, read last, tell of an OSD that stopped after the tree was
\* read (CephAfterDeploy, ceph.go 118-128).
THEOREM ClearsWhenHealthy == Spec => ClearedWhenHealthy
<1>1. Init => DownDegrades
  BY DEF Init, DownDegrades
<1>2. DownDegrades /\ [Next]_vars => DownDegrades'
  <2> SUFFICES ASSUME DownDegrades, [Next]_vars PROVE DownDegrades'
    OBVIOUS
  <2> USE DEF DownDegrades
  <2>1. CASE \E h \in Hosts : Start(h) \/ OsdStops(h) \/ OsdStarts(h)
    BY <2>1 DEF Start, OsdStops, OsdStarts, clusterVars
  <2>2. CASE PgsClean \/ Scrub
    BY <2>2 DEF PgsClean, Scrub
  <2>3. CASE DeployStep
    BY <2>3 DEF DeployStep, Reach, CephBeforeTree, CephBeforeSet, DeployEnds, CephAfterOsds,
       CephAfterPgs, CephAfterUnset, clusterVars
  <2>4. CASE Interrupt \/ UNCHANGED vars
    BY <2>4 DEF Interrupt, vars, clusterVars
  <2> QED
    BY <2>1, <2>2, <2>3, <2>4 DEF Next
<1>3. DownDegrades /\ [Next]_vars => [pc = "pgs" /\ pc' = "unset" => down = {}]_vars
  <2> SUFFICES ASSUME DownDegrades, Next, pc = "pgs", pc' = "unset" PROVE down = {}
    OBVIOUS
  <2>1. CephAfterPgs
    BY DEF Next, DeployStep, Start, OsdStops, OsdStarts, PgsClean, Scrub, Reach, CephBeforeTree,
       CephBeforeSet, DeployEnds, CephAfterOsds, CephAfterUnset, Interrupt
  <2>2. AllActiveClean
    BY <2>1 DEF CephAfterPgs, NextTry, Redial, Fail, Return
  <2> QED
    BY <2>2 DEF AllActiveClean, DownDegrades
<1> QED
  BY <1>1, <1>2, <1>3, PTL DEF Spec, ClearedWhenHealthy
=============================================================================
