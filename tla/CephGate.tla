------------------------------ MODULE CephGate ------------------------------
(***************************************************************************)
(* The Ceph gate around the deploy of a storage host: CephBeforeDeploy and *)
(* CephAfterDeploy of src/deployment/ceph.go and the branches of Deploy    *)
(* (deploy.go 63-94) that call them, over any sequence of deploys, one     *)
(* host at a time.                                                         *)
(*                                                                         *)
(* The cluster is what the gate reads of it: which host's OSD is up,       *)
(* the state of the placement groups, which hosts have noout.              *)
(* The inner deploy (HostDeploy) may stop the host's OSD, by restarting it *)
(* or by rebooting the host, and succeeds or fails.  Every query and every *)
(* command is an ssh call to the host itself that can fail or be lost.     *)
(***************************************************************************)
EXTENDS Naturals

CONSTANTS
  Hosts,       \* the storage hosts, one OSD each
  NoHost,      \* no deploy in progress
  Retries,     \* bound: cephHealthRetries
  MaxRuns      \* bound: deploys started

ASSUME CephAssumption ==
  /\ NoHost \notin Hosts
  /\ Retries \in Nat \ {0} /\ MaxRuns \in Nat

VARIABLES
  down,     \* hosts whose OSD is not up
  pgs,      \* placement groups: all active+clean, some of these scrubbing, or some degraded
  noout,    \* hosts with the noout flag set
  pending,  \* hosts whose reboot or watchdog outlives their deploy
  stray,    \* history: hosts that went down by such a reboot
  pc, host, \* the deployer: its step, and the host it deploys
  attempt,  \* which try of an ssh command
  tries,    \* which try of the health wait
  runs,     \* deploys started
  warned,   \* hosts with a "noout is still set" warning in the summary
  result    \* what Deploy last returned, per host

clusterVars == <<down, pgs, pending, stray>>
vars == <<clusterVars, noout, pc, host, attempt, tries, runs, warned, result>>

Steps == {"idle", "reach", "tree", "set", "deploy", "osds", "pgs", "unset"}

TypeOK ==
  /\ down \subseteq Hosts /\ pgs \in {"clean", "scrubbing", "degraded"} /\ noout \subseteq Hosts
  /\ pending \subseteq Hosts /\ stray \subseteq down
  /\ pc \in Steps /\ host \in Hosts \cup {NoHost}
  /\ attempt \in 1 .. 2 /\ tries \in 1 .. Retries /\ runs \in 0 .. MaxRuns
  /\ warned \subseteq Hosts
  /\ result \in [Hosts -> {"none", "ok", "failed", "interrupted"}]

\* A deploy is often how a node gets fixed: one OSD may be down at the start.
Init ==
  /\ down \in {{}} \cup {{h} : h \in Hosts}
  /\ pgs = (IF down = {} THEN "clean" ELSE "degraded") /\ noout = {} /\ pending = {} /\ stray = {}
  /\ pc = "idle" /\ host = NoHost /\ attempt = 1 /\ tries = 1 /\ runs = 0
  /\ warned = {} /\ result = [h \in Hosts |-> "none"]

-----------------------------------------------------------------------------
(***************************************************************************)
(* The cluster.                                                            *)
(***************************************************************************)

\* The host under deploy restarts its OSD or reboots; a host whose reboot or
\* watchdog outlived its deploy does so later.
OsdStops(h) ==
  /\ h \notin down
  /\ \/ pc = "deploy" /\ h = host /\ UNCHANGED <<pending, stray>>
     \/ h \in pending /\ pending' = pending \ {h} /\ stray' = stray \cup {h}
  /\ down' = down \cup {h} /\ pgs' = "degraded"
  /\ UNCHANGED <<noout, pc, host, attempt, tries, runs, warned, result>>

OsdStarts(h) ==
  /\ h \in down
  /\ down' = down \ {h} /\ stray' = stray \ {h}
  /\ UNCHANGED <<pgs, pending, noout, pc, host, attempt, tries, runs, warned, result>>

\* Recovery completes once every OSD is up.
PgsClean ==
  /\ down = {} /\ pgs = "degraded"
  /\ pgs' = "clean"
  /\ UNCHANGED <<down, pending, stray, noout, pc, host, attempt, tries, runs, warned, result>>

\* Ceph scrubs placement groups when it sees fit; they stay active+clean, but
\* their state then has a longer name.
Scrub ==
  /\ pgs # "degraded"
  /\ pgs' = IF pgs = "clean" THEN "scrubbing" ELSE "clean"
  /\ UNCHANGED <<down, pending, stray, noout, pc, host, attempt, tries, runs, warned, result>>

-----------------------------------------------------------------------------
(***************************************************************************)
(* The deployer.                                                           *)
(***************************************************************************)

Goto(step) == pc' = step /\ attempt' = 1 /\ UNCHANGED <<host, tries, result>>
Redial == attempt = 1 /\ attempt' = 2 /\ UNCHANGED <<pc, host, tries, result>>

Return(ok) ==
  /\ pc' = "idle" /\ host' = NoHost /\ attempt' = 1 /\ tries' = 1
  /\ result' = [result EXCEPT ![host] = IF ok THEN "ok" ELSE "failed"]

\* A failure after the gate was passed is reported with the noout warning.
Fail == Return(FALSE) /\ warned' = warned \cup {host}

\* The operator deploys h: no summary of an earlier run is open any more.
Start(h) ==
  /\ pc = "idle" /\ runs < MaxRuns
  /\ pc' = "reach" /\ host' = h /\ runs' = runs + 1
  /\ warned' = warned \ {h} /\ result' = [result EXCEPT ![h] = "none"]
  /\ UNCHANGED <<clusterVars, noout, attempt, tries>>

\* CheckSSHReachable.
Reach ==
  /\ pc = "reach"
  /\ Goto("tree") \/ Redial \/ Return(FALSE)
  /\ UNCHANGED <<clusterVars, noout, runs, warned>>

\* downOSDsByHost for the one-OSD hosts of this cluster.
DownOSDsByHost == down

\* Fault: every state whose name begins with "active" is counted.
AllActiveCleanPrefix == pgs \in {"clean", "scrubbing", "degraded"}

\* allActiveClean: the state's name is compared as a whole, so a scrub counts
\* against it.
AllActiveClean == pgs = "clean"

\* Fault: an osd tree that could not be read is taken for a healthy one.
CephBeforeTreeUnread ==
  /\ pc = "tree"
  /\ \/ Goto("set")
     \/ ~(DownOSDsByHost \subseteq {host}) /\ Return(FALSE)
     \/ Redial \/ Return(FALSE)
  /\ UNCHANGED <<clusterVars, noout, runs, warned>>

\* CephBeforeDeploy, first half: refuse while another host's OSD is down.
CephBeforeTree ==
  /\ pc = "tree"
  /\ \/ DownOSDsByHost \subseteq {host} /\ Goto("set")
     \/ ~(DownOSDsByHost \subseteq {host}) /\ Return(FALSE)
     \/ Redial \/ Return(FALSE)
  /\ UNCHANGED <<clusterVars, noout, runs, warned>>

\* Second half: set-group noout.  The command may run and its answer be lost.
CephBeforeSet ==
  /\ pc = "set"
  /\ \/ noout' = noout \cup {host} /\ (Goto("deploy") \/ Redial \/ Return(FALSE))
     \/ UNCHANGED noout /\ (Redial \/ Return(FALSE))
  /\ UNCHANGED <<clusterVars, runs, warned>>

\* The mode's flow returns; the reboot it asked for or the watchdog it left
\* armed may take the host down only later.
DeployEnds ==
  /\ pc = "deploy"
  /\ \/ Goto("osds") /\ UNCHANGED warned
     \/ Fail
  /\ \/ UNCHANGED pending
     \/ pending' = pending \cup {host}
  /\ UNCHANGED <<down, pgs, stray, noout, runs>>

\* Fault: the attempts are counted past the limit.
NextTryOffByOne ==
  \/ /\ tries <= Retries /\ tries' = tries + 1
     /\ pc' = "osds" /\ attempt' = 1 /\ UNCHANGED <<host, result, warned>>
  \/ tries > Retries /\ Fail

\* Fault: the wait for a healthy cluster has no limit.
NextTryForever == pc' = "osds" /\ attempt' = 1 /\ UNCHANGED <<host, tries, result, warned>>

\* One more attempt of CephAfterDeploy's wait, or the end of it.
NextTry ==
  \/ /\ tries < Retries /\ tries' = tries + 1
     /\ pc' = "osds" /\ attempt' = 1 /\ UNCHANGED <<host, result, warned>>
  \/ tries = Retries /\ Fail

\* CephAfterDeploy: osd tree.
CephAfterOsds ==
  /\ pc = "osds"
  /\ \/ DownOSDsByHost = {} /\ Goto("pgs") /\ UNCHANGED warned
     \/ Redial /\ UNCHANGED warned
     \/ NextTry
  /\ UNCHANGED <<clusterVars, noout, runs>>

\* CephAfterDeploy: pg stat, read after the tree.
CephAfterPgs ==
  /\ pc = "pgs"
  /\ \/ AllActiveClean /\ Goto("unset") /\ UNCHANGED warned
     \/ Redial /\ UNCHANGED warned
     \/ NextTry
  /\ UNCHANGED <<clusterVars, noout, runs>>

\* Fault: the exit status of unset-group is not looked at.
CephAfterUnsetUnchecked ==
  /\ pc = "unset"
  /\ noout' \in {noout, noout \ {host}}
  /\ (Return(TRUE) \/ Redial) /\ UNCHANGED warned
  /\ UNCHANGED <<clusterVars, runs>>

\* CephAfterDeploy: unset-group noout.
CephAfterUnset ==
  /\ pc = "unset"
  /\ \/ noout' = noout \ {host} /\ Return(TRUE) /\ UNCHANGED warned
     \/ noout' \in {noout, noout \ {host}} /\ Redial /\ UNCHANGED warned
     \/ noout' \in {noout, noout \ {host}} /\ Fail
  /\ UNCHANGED <<clusterVars, runs>>

\* Ctrl-C, or the deployer dies: the run's summary is never printed.
Interrupt ==
  /\ pc # "idle"
  /\ pc' = "idle" /\ host' = NoHost /\ attempt' = 1 /\ tries' = 1
  /\ result' = [result EXCEPT ![host] = "interrupted"]
  /\ \/ UNCHANGED pending
     \/ pc = "deploy" /\ pending' = pending \cup {host}
  /\ UNCHANGED <<down, pgs, stray, noout, runs, warned>>

-----------------------------------------------------------------------------
DeployStep ==
  Reach \/ CephBeforeTree \/ CephBeforeSet \/ DeployEnds \/ CephAfterOsds \/ CephAfterPgs
    \/ CephAfterUnset

Next ==
  \/ \E h \in Hosts : Start(h) \/ OsdStops(h) \/ OsdStarts(h)
  \/ PgsClean \/ Scrub
  \/ DeployStep
  \/ Interrupt

Spec == Init /\ [][Next]_vars

\* Each ssh call and the deploy itself have timeouts.
FairSpec == Spec /\ WF_vars(DeployStep)

-----------------------------------------------------------------------------
\* Rolling gate: the deploys never take a second node's OSD down, in whatever
\* order they come, whether they fail, and whatever they leave down
\* (ceph.go 79-104, deploy.go 73-75).  A host whose reboot or watchdog outlives
\* its deploy is out of the gate's reach: it was up when the gate looked.
AtMostOneDown == \A a, b \in down \ stray : a = b

\* A flag still set after its host's deploy never hides behind a success: the
\* summary warns of it, or the deploy failed before the gate was passed, or the
\* operator interrupted it (deploy.go 73-92, ceph.go 130-137).
NooutAccounted ==
  \A h \in noout : h # host => h \in warned \/ result[h] \in {"failed", "interrupted"}

\* Every gated deploy ends, however unhealthy the cluster stays: the wait is
\* bounded (ceph.go 115-144).
GateEnds == pc # "idle" ~> pc = "idle"

\* noout is cleared, and the deploy reported good, only on the word of a healthy
\* cluster, although the OSD tree and the placement groups are two reads and a
\* pending reboot may take an OSD down between them (ceph.go 118-128).
ClearedWhenHealthy == [][pc = "pgs" /\ pc' = "unset" => down = {}]_vars
=============================================================================
