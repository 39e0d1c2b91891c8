------------------------------ MODULE DeployRun ------------------------------
(***************************************************************************)
(* One process of the deploy tool: run of src/deployment/main.go from the  *)
(* selected hosts to the exit code, with ResolveToplevels (build.go), the  *)
(* concurrent PrecheckAll (precheck.go, printer.go), SelectHosts and       *)
(* BuildOnlyHosts (hosts.go), and the loop of the switch and boot modes.   *)
(*                                                                         *)
(* The pipeline of the safe mode appears as what it promises, the actions  *)
(* of Rollout; module Pipeline is shown to implement them.  The loop of    *)
(* the switch and boot modes is written out, and shown here to keep the    *)
(* same promise.  Hosts go up and down and prints start and end at any     *)
(* time, so everything the precheck saw may be stale when it is used.  A   *)
(* process keeps no state between runs: a later run is one that starts     *)
(* with other hosts down.                                                  *)
(* Interrupts are left to HostDeploy, CephGate and SshMux, which have the  *)
(* state they leave behind.                                                *)
(***************************************************************************)
EXTENDS Naturals, Sequences, FiniteSets, SequencesExt

CONSTANTS
  AllHosts,    \* the managed hosts in Host.Order: a sequence
  Default,     \* Host.Default
  K3s,         \* the hosts of group "k3s"
  Printers,    \* the hosts of group "printer"
  Selections,  \* what --hosts and --self may name: sequences of names
  ProbeSlots   \* precheckConcurrency

Hosts == ToSet(AllHosts)

ASSUME DeployRunAssumption ==
  /\ AllHosts \in Seq(Hosts) /\ IsInjective(AllHosts)
  /\ Default \subseteq Hosts /\ K3s \subseteq Hosts /\ Printers \subseteq Hosts
  /\ ProbeSlots \in Nat \ {0}

VARIABLES
  up,          \* hosts ssh reaches
  oldDown,     \* history: k3s nodes down ever since before the precheck
  printing,    \* printers with a print in progress
  oldPrint,    \* history: prints in progress ever since before the precheck
  names, mode, force, build,   \* --hosts, --mode, --force, --build
  pc,          \* main's step
  selected,    \* the hosts to deploy, in Host.Order
  buildOnly,   \* the hosts built but not deployed
  probe,       \* per host: where its precheck goroutine is
  verdict,     \* per host: what the precheck decided
  upToDate,    \* hosts that already run and boot the target
  built,       \* hosts whose toplevel is in the local store
  stopOnFailure,     \* --on-failure=stop
  outcome, halted,   \* the pipeline's rollout
  pos,         \* the loop's: the host range todo has come to, in AllHosts
  deployed,    \* history: hosts whose Deploy the loop saw succeed
  touched,     \* hosts whose Deploy got past its ssh check
  failed, skipped, buildFailed,     \* the summary
  exit         \* how the process ended

worldVars == <<up, oldDown, printing, oldPrint>>
argVars == <<names, mode, force, build>>
planVars == <<selected, buildOnly>>
probeVars == <<probe, verdict, upToDate>>
rollVars == <<outcome, halted, stopOnFailure>>
loopVars == <<pos, deployed>>
summaryVars == <<failed, skipped, buildFailed>>
vars == <<worldVars, argVars, pc, planVars, probeVars, built, rollVars, loopVars, touched, summaryVars, exit>>

Roll == INSTANCE Rollout

TypeOK ==
  /\ up \subseteq Hosts /\ oldDown \subseteq K3s \ up
  /\ printing \subseteq Printers /\ oldPrint \subseteq printing
  /\ names \in Selections /\ mode \in {"safe", "serial"} /\ force \in BOOLEAN /\ build \in BOOLEAN
  /\ pc \in {"select", "resolve", "build", "probe", "plan", "roll", "loop", "deploy", "extra", "judge", "done"}
  /\ selected \subseteq Hosts /\ buildOnly \subseteq Hosts \ selected
  /\ probe \in [Hosts -> {"queued", "ssh", "printer", "path", "done"}]
  /\ verdict \in [Hosts -> {"none", "failed", "skipped", "todo"}]
  /\ upToDate \subseteq Hosts /\ built \subseteq Hosts /\ touched \subseteq Hosts
  /\ Roll!TypeOK
  /\ pos \in 1 .. Len(AllHosts) + 1 /\ deployed \subseteq Hosts
  /\ pc = "deploy" => pos <= Len(AllHosts)
  /\ failed \subseteq Hosts /\ skipped \subseteq Hosts /\ buildFailed \subseteq Hosts
  /\ exit \in {"running", "ok", "failed"}

Exits(how) == pc' = "done" /\ exit' = how
Goto(step) == pc' = step /\ UNCHANGED exit

\* The hosts named, each once, or the default ones.  They are sorted by
\* Host.Order, the order of AllHosts, in which LoopNext goes through them.
SelectHosts(ns) == IF ns = <<>> THEN Default ELSE ToSet(ns)
UnknownHosts(ns) == ToSet(ns) \ Hosts
\* Fault: a plain run lists every configuration as build-only.
BuildOnlyHostsAll(ns) == IF ns = <<>> THEN Hosts ELSE {}

BuildOnlyHosts(ns) == IF ns = <<>> THEN Hosts \ Default ELSE {}

\* Any selected host may be down or printing; nobody looks at the others.
Init ==
  /\ names \in Selections /\ mode \in {"safe", "serial"}
  /\ force \in BOOLEAN /\ build \in BOOLEAN
  /\ up \in {Hosts \ S : S \in SUBSET SelectHosts(names)} /\ oldDown = K3s \ up
  /\ oldPrint \in SUBSET (Printers \cap SelectHosts(names)) /\ printing = oldPrint
  /\ pc = "select" /\ selected = {} /\ buildOnly = {}
  /\ probe = [h \in Hosts |-> "queued"] /\ verdict = [h \in Hosts |-> "none"]
  /\ upToDate = {} /\ built = {} /\ touched = {}
  /\ Roll!Init /\ pos = 1 /\ deployed = {}
  /\ failed = {} /\ skipped = {} /\ buildFailed = {} /\ exit = "running"

-----------------------------------------------------------------------------
(***************************************************************************)
(* The fleet.                                                              *)
(***************************************************************************)

HostDown(h) ==
  /\ h \in up
  /\ up' = up \ {h}
  /\ UNCHANGED <<oldDown, printing, oldPrint>>

HostUp(h) ==
  /\ h \notin up
  /\ up' = up \cup {h} /\ oldDown' = oldDown \ {h}
  /\ UNCHANGED <<printing, oldPrint>>

PrintStarts(h) ==
  /\ h \in Printers \ printing
  /\ printing' = printing \cup {h}
  /\ UNCHANGED <<up, oldDown, oldPrint>>

PrintEnds(h) ==
  /\ h \in printing
  /\ printing' = printing \ {h} /\ oldPrint' = oldPrint \ {h}
  /\ UNCHANGED <<up, oldDown>>

\* The steps at which the tool looks at the hosts: what changes between them
\* shows at the next.
World ==
  /\ pc \in {"probe", "roll", "deploy"}
  /\ \E h \in selected : HostDown(h) \/ HostUp(h) \/ PrintStarts(h) \/ PrintEnds(h)
  /\ UNCHANGED <<argVars, pc, planVars, probeVars, built, rollVars, loopVars, touched, summaryVars, exit>>

-----------------------------------------------------------------------------
(***************************************************************************)
(* Selection and evaluation.                                               *)
(***************************************************************************)

\* run up to ResolveToplevels: an unknown name ends it, --build adds the
\* build-only hosts to the selection's evaluation and touches nothing.
Select ==
  /\ pc = "select"
  /\ IF UnknownHosts(names) # {}
       THEN Exits("failed") /\ UNCHANGED planVars
       ELSE /\ Goto("resolve")
            /\ selected' = SelectHosts(names) /\ buildOnly' = BuildOnlyHosts(names)
  /\ UNCHANGED <<worldVars, argVars, probeVars, built, rollVars, loopVars, touched, summaryVars>>

\* One nix eval per host, run together; each writes its own slot and nothing
\* else, so only the set of failures counts.  One failure ends the run.
ResolveToplevels ==
  /\ pc = "resolve"
  /\ \E evalFailed \in SUBSET (selected \cup buildOnly) :
       IF evalFailed # {} THEN Exits("failed") ELSE Goto(IF build THEN "build" ELSE "probe")
  /\ UNCHANGED <<worldVars, argVars, planVars, probeVars, built, rollVars, loopVars, touched, summaryVars>>

\* BuildAll of the given hosts: --keep-going builds any part of them.
BuildAll(S) == built' \in {built \cup T : T \in SUBSET S}

\* BuiltOK of each of the given hosts, one nix path-info after the other: exact
\* for a path that is not there, but one that is may be missed by a timeout.
NotBuilt(S, missed) == S \ (built' \ missed)

\* --build: build everything selected, then ask the store about each.
BuildEverything ==
  /\ pc = "build"
  /\ LET all == selected \cup buildOnly IN
       /\ BuildAll(all)
       /\ \E missed \in SUBSET all : buildFailed' = NotBuilt(all, missed)
  /\ Exits(IF buildFailed' = {} THEN "ok" ELSE "failed")
  /\ UNCHANGED <<worldVars, argVars, planVars, probeVars, rollVars, loopVars, touched, failed, skipped>>

-----------------------------------------------------------------------------
(***************************************************************************)
(* PrecheckAll: one goroutine per selected host, ProbeSlots at a time.     *)
(***************************************************************************)

\* Fault: a goroutine keeps its slot when it returns.
InFlightLeaked == {h \in Hosts : probe[h] # "queued"}

\* The goroutines that hold a slot of sem.
InFlight == {h \in Hosts : probe[h] \in {"ssh", "printer", "path"}}

ProbeAt(h, step) == pc = "probe" /\ h \in selected /\ probe[h] = step

ProbeOnly ==
  UNCHANGED <<worldVars, argVars, pc, planVars, built, rollVars, loopVars, touched, summaryVars, exit>>

ProbeGoto(h, step) == probe' = [probe EXCEPT ![h] = step] /\ UNCHANGED <<verdict, upToDate>>

ProbeReturns(h, v) ==
  /\ probe' = [probe EXCEPT ![h] = "done"]
  /\ verdict' = [verdict EXCEPT ![h] = v]

\* sem <- struct{}{}
ProbeAcquire(h) ==
  /\ ProbeAt(h, "queued") /\ Cardinality(InFlight) < ProbeSlots
  /\ ProbeGoto(h, "ssh")
  /\ ProbeOnly

\* CheckSSHReachable: a host that is up may still fail to answer in time.
ProbeSsh(h) ==
  /\ ProbeAt(h, "ssh")
  /\ \/ h \in up /\ ProbeGoto(h, IF h \in Printers /\ ~force THEN "printer" ELSE "path")
     \/ ProbeReturns(h, "failed") /\ UNCHANGED upToDate
  /\ ProbeOnly

\* Fault: an unreachable moonraker is taken for an idle printer.
ProbePrinterFailOpen(h) ==
  /\ ProbeAt(h, "printer")
  /\ \/ ProbeGoto(h, "path")
     \/ h \in printing /\ ProbeReturns(h, "skipped") /\ UNCHANGED upToDate
  /\ ProbeOnly

\* CheckPrinterIdle: moonraker's answer is exact; no answer, or one without a
\* state, skips the host like an active print does.
ProbePrinter(h) ==
  /\ ProbeAt(h, "printer")
  /\ \/ h \notin printing /\ ProbeGoto(h, "path")
     \/ ProbeReturns(h, "skipped") /\ UNCHANGED upToDate
  /\ ProbeOnly

\* hostAtPath: whatever it answers, the host is to be deployed.
ProbePath(h) ==
  /\ ProbeAt(h, "path")
  /\ ProbeReturns(h, "todo")
  /\ upToDate' \in {upToDate, upToDate \cup {h}}
  /\ ProbeOnly

\* wg.Wait() is over.
Probed ==
  /\ pc = "probe" /\ \A h \in selected : probe[h] = "done"
  /\ Goto("plan")
  /\ UNCHANGED <<worldVars, argVars, planVars, probeVars, built, rollVars, loopVars, touched, summaryVars>>

-----------------------------------------------------------------------------
(***************************************************************************)
(* run after the precheck.                                                 *)
(***************************************************************************)

Verdicts(v) == {h \in selected : verdict[h] = v}
Todo == Verdicts("todo")

Rollouts == IF mode = "safe" THEN "roll" ELSE "loop"

\* Fault: a k3s node that failed the precheck is only reported.
PlanUnguarded ==
  /\ pc = "plan"
  /\ failed' = Verdicts("failed") /\ skipped' = Verdicts("skipped")
  /\ Goto(Rollouts)
  /\ UNCHANGED <<worldVars, argVars, planVars, probeVars, built, rollVars, loopVars, touched, buildFailed>>

\* The split into failed, skipped and todo, and the abort when a k3s node failed.
Plan ==
  /\ pc = "plan"
  /\ failed' = Verdicts("failed") /\ skipped' = Verdicts("skipped")
  /\ IF Verdicts("failed") \cap K3s # {} THEN Exits("failed") ELSE Goto(Rollouts)
  /\ UNCHANGED <<worldVars, argVars, planVars, probeVars, built, rollVars, loopVars, touched, buildFailed>>

-----------------------------------------------------------------------------
(***************************************************************************)
(* RunPipeline, as what it promises: see Pipeline.                         *)
(***************************************************************************)

RollOnly ==
  UNCHANGED <<worldVars, argVars, pc, planVars, probeVars, built, loopVars, touched, summaryVars, exit>>

\* The pipeline gives up on a host before its activation (build or copy failed).
RollDrop(h) == pc = "roll" /\ h \in Todo \ upToDate /\ Roll!Drop(h) /\ RollOnly

RollBegin(h) == pc = "roll" /\ h \in Todo /\ Roll!Begin(h) /\ RollOnly
RollSucceed(h) == pc = "roll" /\ h \in touched /\ Roll!Succeed(h) /\ RollOnly
RollFail(h) == pc = "roll" /\ Roll!Fail(h) /\ RollOnly

\* The pipeline drains the hosts it will not activate.
RollCancel(h) == pc = "roll" /\ h \in Todo /\ Roll!Cancel(h) /\ RollOnly

\* Fault: a cancelled host does not count as failed.
StatusFailedButCancelled == {"failed", "dropped"}

\* HostStatus.failed().
StatusFailed == {"failed", "dropped", "cancelled"}

\* RunPipeline returned.
Rolled ==
  /\ pc = "roll" /\ \A h \in Todo : outcome[h] \notin {"pending", "active"}
  /\ failed' = failed \cup {h \in Todo : outcome[h] \in StatusFailed}
  /\ Goto("judge")
  /\ UNCHANGED <<worldVars, argVars, planVars, probeVars, built, rollVars, loopVars, touched, skipped, buildFailed>>

-----------------------------------------------------------------------------
(***************************************************************************)
(* The loop of the switch and boot modes.                                  *)
(***************************************************************************)

LoopOnly ==
  UNCHANGED <<worldVars, argVars, planVars, probeVars, built, rollVars, touched, skipped, buildFailed>>

Advance == pos' = pos + 1

\* range todo: the next host of the fleet that the precheck left in todo.
LoopNext ==
  /\ pc = "loop" /\ pos <= Len(AllHosts)
  /\ IF AllHosts[pos] \in Todo
       THEN Goto("deploy") /\ UNCHANGED pos
       ELSE Advance /\ UNCHANGED <<pc, exit>>
  /\ UNCHANGED <<deployed, failed>> /\ LoopOnly

\* Deploy returned true: continue.
LoopSucceeds ==
  /\ pc = "deploy" /\ AllHosts[pos] \in touched
  /\ deployed' = deployed \cup {AllHosts[pos]}
  /\ Goto("loop") /\ Advance
  /\ UNCHANGED failed /\ LoopOnly

\* Fault: the loop breaks for --on-failure=stop only.
LoopFailsAlike ==
  /\ pc = "deploy"
  /\ failed' = failed \cup {AllHosts[pos]}
  /\ IF stopOnFailure THEN Goto("extra") /\ UNCHANGED pos ELSE Goto("loop") /\ Advance
  /\ UNCHANGED deployed /\ LoopOnly

\* Deploy returned false: break after a k3s node, and after any host under
\* --on-failure=stop.
LoopFails ==
  /\ pc = "deploy"
  /\ failed' = failed \cup {AllHosts[pos]}
  /\ IF AllHosts[pos] \in K3s \/ stopOnFailure
       THEN Goto("extra") /\ UNCHANGED pos
       ELSE Goto("loop") /\ Advance
  /\ UNCHANGED deployed /\ LoopOnly

LoopEnds ==
  /\ pc = "loop" /\ pos > Len(AllHosts)
  /\ Goto("extra")
  /\ UNCHANGED <<loopVars, failed>> /\ LoopOnly

-----------------------------------------------------------------------------
\* The host that the activation worker or the loop has called Deploy for.
Deploying(h) ==
  \/ pc = "roll" /\ outcome[h] = "active"
  \/ pc = "deploy" /\ h = AllHosts[pos]

\* Deploy's own ssh check answered: from here on it changes the host.
DeployReaches(h) ==
  /\ Deploying(h) /\ h \in up \ touched
  /\ touched' = touched \cup {h}
  /\ UNCHANGED <<worldVars, argVars, pc, planVars, probeVars, built, rollVars, loopVars, summaryVars, exit>>

\* The pipeline's nix build also builds the build-only hosts; it may still be at
\* it when RunPipeline has returned.
BuildOne(h) ==
  /\ mode = "safe" /\ pc \in {"roll", "judge"} /\ h \in buildOnly \ built
  /\ built' = built \cup {h}
  /\ UNCHANGED <<worldVars, argVars, pc, planVars, probeVars, rollVars, loopVars, touched, summaryVars, exit>>

\* The switch and boot modes build them afterwards.
BuildExtra ==
  /\ pc = "extra"
  /\ BuildAll(buildOnly)
  /\ Goto("judge")
  /\ UNCHANGED <<worldVars, argVars, planVars, probeVars, rollVars, loopVars, touched, summaryVars>>

\* Fault: the exit code looks at the builds only when nothing was deployed.
JudgeDeploysOnly ==
  /\ pc = "judge"
  /\ \E missed \in SUBSET buildOnly : buildFailed' = buildOnly \ (built \ missed)
  /\ Exits(IF failed = {} THEN "ok" ELSE "failed")
  /\ UNCHANGED <<worldVars, argVars, planVars, probeVars, built, rollVars, loopVars, touched, failed, skipped>>

\* The verdict on the build-only hosts, the summary and the exit code.
Judge ==
  /\ pc = "judge"
  /\ UNCHANGED built
  /\ \E missed \in SUBSET buildOnly : buildFailed' = NotBuilt(buildOnly, missed)
  /\ Exits(IF failed = {} /\ buildFailed' = {} THEN "ok" ELSE "failed")
  /\ UNCHANGED <<worldVars, argVars, planVars, probeVars, rollVars, loopVars, touched, failed, skipped>>

Finished == pc = "done" /\ UNCHANGED vars

-----------------------------------------------------------------------------
Probe(h) == ProbeAcquire(h) \/ ProbeSsh(h) \/ ProbePrinter(h) \/ ProbePath(h)
RollHost(h) == RollDrop(h) \/ RollBegin(h) \/ RollSucceed(h) \/ RollFail(h) \/ RollCancel(h)
Loop == LoopNext \/ LoopSucceeds \/ LoopFails \/ LoopEnds

Main ==
  \/ Select \/ ResolveToplevels \/ BuildEverything \/ Probed \/ Plan \/ Rolled \/ Loop \/ BuildExtra \/ Judge
  \/ \E h \in Hosts : Probe(h) \/ RollHost(h) \/ DeployReaches(h)

Next == Main \/ World \/ Finished \/ \E h \in Hosts : BuildOne(h)

Spec == Init /\ [][Next]_vars

\* Every command has a timeout, so the process always takes a next step.
FairSpec == Spec /\ WF_vars(Main)

-----------------------------------------------------------------------------
(***************************************************************************)
(* Properties.                                                             *)
(***************************************************************************)

\* What has become of a host in the loop, by where the loop stands and what it
\* has put on record.
LoopOutcome(h) ==
  IF pc = "deploy" /\ h = AllHosts[pos] THEN "active"
  ELSE IF h \in deployed THEN "deployed"
  ELSE IF mode = "serial" /\ h \in failed /\ verdict[h] = "todo" THEN "failed" ELSE "pending"

\* A failure that the loop may not go on after.
LoopHalted == \E h \in Hosts : LoopOutcome(h) = "failed" /\ (h \in K3s \/ stopOnFailure)

OutcomeOf(h) == IF mode = "safe" THEN outcome[h] ELSE LoopOutcome(h)

\* "All hosts processed successfully" and exit code 0 leave nothing out: each
\* selected host was deployed, but for a printer that policy skipped, and each
\* host to be built was built; --build changed no host (main.go 150-163, 273-286).
SuccessIsTotal ==
  exit = "ok" =>
    /\ buildOnly \subseteq built
    /\ IF build THEN selected \subseteq built /\ touched = {}
       ELSE \A h \in selected :
              OutcomeOf(h) = "deployed" \/ (h \in skipped \cap Printers /\ ~force)

\* The summary accounts for every host: one not named under failed or skipped
\* was deployed, unless the run stopped early and says so with a failed host
\* (main.go 213-271).
SummaryAccounts ==
  pc = "done" /\ ~build =>
    \A h \in selected \ (failed \cup skipped) :
      OutcomeOf(h) = "deployed" \/ (OutcomeOf(h) = "pending" /\ exit = "failed")

\* No host is changed while a selected k3s node has been unreachable ever since
\* before the run: "rolling a second would drop etcd quorum" (main.go 226-238).
QuorumGuard == touched # {} => oldDown = {}

\* Without --force no printer is deployed to during a print that was in
\* progress before the run, whatever moonraker answers or does not
\* (printer.go 27-33, precheck.go 79-91).
PrintSpared == ~force => touched \cap oldPrint = {}

LoopRoll == INSTANCE Rollout WITH outcome <- [h \in Hosts |-> LoopOutcome(h)], halted <- LoopHalted

\* The loop of the switch and boot modes makes the promise the pipeline makes:
\* one host at a time, each at most once, and none after a failed k3s node, or
\* after any failure under --on-failure=stop (main.go 249-266).
LoopImplementsRollout == LoopRoll!Spec

\* The run ends, although the precheck's goroutines compete for slots.
RunEnds == <>(pc = "done")
=============================================================================
