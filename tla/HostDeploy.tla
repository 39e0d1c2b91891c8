----------------------------- MODULE HostDeploy -----------------------------
(***************************************************************************)
(* One managed host and the deployer that works on it: Deploy,             *)
(* deploySafe and deployUnsafe of src/deployment/deploy.go, with the ssh   *)
(* layer (ssh.go), the connectivity and k8s checks (health.go) and the     *)
(* reboot decision (reboot.go) they call.                                  *)
(*                                                                         *)
(* The host is what the code in src/ uses of a NixOS machine: the active   *)
(* generation, the system profile, the boot loader's default, and the      *)
(* transient systemd timers.  Every remote command is one ssh call that    *)
(* may be answered, may run although its answer is lost, may never run, or *)
(* may still be running when the client gives up and take effect later.    *)
(* Watchdogs fire, the machine crashes and the operator interrupts the     *)
(* deployer between any two steps.                                         *)
(***************************************************************************)
EXTENDS Naturals, FiniteSets

CONSTANTS
  Gens,          \* system generations (toplevel store paths)
  InitGen,       \* the generation the host runs and boots at the start
  Unreachable,   \* generations under which ssh to the host does not work
  Degraded,      \* generations under which another of the host's ConnChecks fails
  Kernel,        \* Kernel[g]: the kernel and kernel parameters g boots with
  Unread,        \* what a failed readlink yields (the empty string)
  Modes,         \* the --mode values the operator uses
  Flags,         \* the --reboot values the operator uses
  K8sHealthCheck,\* Host.K8sHealthCheck
  MaxRuns,       \* bound: deploys of this host
  LateCommands,  \* commands that may take effect after their client gave up
  FastReboot     \* may a reboot complete between the arm's answer and the activation?

ASSUME ConstantsAssumption ==
  /\ InitGen \in Gens
  /\ Unreachable \subseteq Gens
  /\ Degraded \subseteq Gens
  /\ InitGen \notin Unreachable \cup Degraded
  /\ Unread \notin Gens
  /\ Modes \subseteq {"safe", "switch", "boot"}
  /\ Flags \subseteq {"never", "auto", "always", "ask"}
  /\ K8sHealthCheck \in BOOLEAN
  /\ MaxRuns \in Nat
  /\ FastReboot \in BOOLEAN

VARIABLES
  current,    \* /run/current-system: the active generation
  profile,    \* /nix/var/nix/profiles/system
  bootEntry,  \* the boot loader's default: what a reboot comes up on
  booted,     \* /run/booted-system: what the last boot came up on
  power,      \* "up", "stopping" (shutting down, sshd still answers), "down"
  timers,     \* armed deploy-watchdog-<unit> timers
  late,       \* commands on the host whose client has already given up
  pc,         \* the deployer's next step, "idle" between runs
  run,        \* number of the deploy; names its watchdog unit
  mode, flag, target,   \* --mode, --reboot and the plan's SystemPath
  prior,      \* deploySafe's priorPath
  attempt,    \* which try of the current ssh call or connectivity check
  upToDate,   \* deploySafe's upToDate
  timedOut,   \* deploySafe's testTimedOut
  result,     \* what Deploy returned for the last run
  downs       \* history: what has taken the host down since the run began

genVars == <<current, profile, bootEntry, booted>>
hostVars == <<genVars, power, timers, late, downs>>
planVars == <<run, mode, flag, target>>
localVars == <<prior, upToDate, timedOut>>
vars == <<hostVars, pc, planVars, localVars, attempt, result>>

Units == 1 .. MaxRuns
Ops == {"arm", "disarm", "cleanup", "test", "setProfile", "boot", "reboot"}
Commands == [op : Ops, unit : Units, path : Gens]

SafeSteps == {"probeActive", "probeBoot", "cleanup", "arm", "disarmAbort",
              "activate", "settle", "verifySsh", "verifyNet", "checkPath",
              "release", "clearUnit", "setProfile", "switchBoot",
              "disarmFail", "disarm"}
TailSteps == {"rebuild", "detect", "reboot", "rebootWait", "k8s"}
Steps == {"idle", "reach"} \cup SafeSteps \cup TailSteps

TypeOK ==
  /\ current \in Gens /\ profile \in Gens /\ bootEntry \in Gens /\ booted \in Gens
  /\ power \in {"up", "stopping", "down"}
  /\ timers \subseteq Units
  /\ late \subseteq Commands
  /\ pc \in Steps
  /\ run \in 0 .. MaxRuns
  /\ pc # "idle" => run \in Units
  /\ mode \in {"safe", "switch", "boot"}
  /\ flag \in {"never", "auto", "always", "ask"}
  /\ target \in Gens
  /\ prior \in Gens \cup {Unread}
  /\ attempt \in 1 .. 3
  /\ upToDate \in BOOLEAN /\ timedOut \in BOOLEAN
  /\ result \in {"none", "ok", "failed", "interrupted"}
  /\ downs \subseteq {"watchdog", "stale", "crash", "reboot"}

Init ==
  /\ current = InitGen /\ profile = InitGen /\ bootEntry = InitGen /\ booted = InitGen
  /\ power = "up" /\ timers = {} /\ late = {} /\ downs = {}
  /\ pc = "idle" /\ run = 0
  /\ mode = "safe" /\ flag = "never" /\ target = InitGen
  /\ prior = Unread /\ upToDate = FALSE /\ timedOut = FALSE
  /\ attempt = 1 /\ result = "none"

-----------------------------------------------------------------------------
(***************************************************************************)
(* The host, as the deployer's commands use it.                            *)
(***************************************************************************)

\* A fresh ssh handshake succeeds: the machine is up, or still going down,
\* and the active generation has a working network.
Reachable == power # "down" /\ current \notin Unreachable

\* All of the host's ConnChecks would pass.
Healthy == Reachable /\ current \notin Degraded

\* What a remote command does to the host when it runs there.  "cleanup" is
\* cleanupStaleUnits' glob over every deploy-watchdog unit.
Exec(c) ==
  /\ timers' = IF c.op = "arm" THEN timers \cup {c.unit}
               ELSE IF c.op = "disarm" THEN timers \ {c.unit}
               ELSE IF c.op = "cleanup" THEN {} ELSE timers
  /\ current' = IF c.op = "test" THEN c.path ELSE current
  /\ profile' = IF c.op = "setProfile" THEN c.path ELSE profile
  /\ bootEntry' = IF c.op = "boot" THEN c.path ELSE bootEntry
  /\ power' = IF c.op = "reboot" THEN "stopping" ELSE power
  /\ downs' = IF c.op = "reboot"
               THEN downs \cup {IF c.unit = run THEN "reboot" ELSE "stale"} ELSE downs
  /\ UNCHANGED booted

\* Fault: the watchdog is a background job of the deployer's ssh session, not a
\* unit of the host's own, and ends with it.
WatchdogFiresInSession(u) ==
  /\ pc # "idle"
  /\ power = "up" /\ u \in timers
  /\ timers' = timers \ {u} /\ power' = "stopping"
  /\ downs' = downs \cup {IF u = run THEN "watchdog" ELSE "stale"}
  /\ UNCHANGED <<genVars, late, pc, planVars, localVars, attempt, result>>

\* The systemd timer of an armed watchdog elapses and runs systemctl reboot.
WatchdogFires(u) ==
  /\ power = "up" /\ u \in timers
  /\ timers' = timers \ {u}
  /\ power' = "stopping"
  /\ downs' = IF pc = "idle" THEN downs
             ELSE downs \cup {IF u = run THEN "watchdog" ELSE "stale"}
  /\ UNCHANGED <<genVars, late, pc, planVars, localVars, attempt, result>>

\* Shutdown completes: transient units and running commands are gone.
GoesDown ==
  /\ power = "stopping"
  /\ power' = "down" /\ timers' = {} /\ late' = {}
  /\ UNCHANGED <<genVars, downs, pc, planVars, localVars, attempt, result>>

\* Power loss, panic or hang: the mid-deploy reboot nobody asked for.
Crash ==
  /\ power # "down"
  /\ power' = "down" /\ timers' = {} /\ late' = {}
  /\ downs' = downs \cup {"crash"}
  /\ UNCHANGED <<genVars, pc, planVars, localVars, attempt, result>>

\* The machine comes up on the boot loader's default.  A reboot takes longer
\* than the deployer takes from the arm's answer to the next ssh call, unless
\* FastReboot says otherwise (a suspended laptop, a very fast VM).
ComesUp ==
  /\ power = "down"
  /\ FastReboot \/ pc # "activate"
  /\ power' = "up" /\ current' = bootEntry /\ booted' = bootEntry
  /\ UNCHANGED <<profile, bootEntry, timers, late, downs, pc, planVars, localVars, attempt, result>>

\* A command whose client timed out finishes on the host after all.
LateLands(c) ==
  /\ power # "down" /\ c \in late
  /\ Exec(c)
  /\ late' = late \ {c}
  /\ UNCHANGED <<pc, planVars, localVars, attempt, result>>

-----------------------------------------------------------------------------
(***************************************************************************)
(* The ssh layer (ssh.go).                                                 *)
(***************************************************************************)

Goto(step) == pc' = step /\ attempt' = 1 /\ UNCHANGED result
Return(ok) == pc' = "idle" /\ attempt' = 1 /\ result' = IF ok THEN "ok" ELSE "failed"

\* What one ssh invocation did on the host: it ran; it never ran (or failed
\* there without effect); it is still running when the client gives up.
Ran(c) == Reachable /\ Exec(c) /\ UNCHANGED late
NeverRan == UNCHANGED hostVars
StillRunning(c) ==
  /\ Reachable /\ c.op \in LateCommands
  /\ late' = late \cup {c}
  /\ UNCHANGED <<genVars, power, timers, downs>>

\* SSHRunOnce: one try.  A command that ran may still be reported failed: its
\* answer was lost, or it exited non-zero after doing its work.
SSHRunOnce(c, ok, failed) ==
  \/ Ran(c) /\ (ok \/ failed)
  \/ (NeverRan \/ StillRunning(c)) /\ failed

\* A first transport failure is retried once on a new connection.
Redial == attempt = 1 /\ attempt' = 2 /\ UNCHANGED <<pc, result>>

\* SSHRun: an idempotent command, redialled once.  A failure that is not a
\* transport failure, or a run without multiplexing, is not retried.
SSHRun(c, ok, failed) == SSHRunOnce(c, ok, failed \/ Redial)

\* What an SSHRun of a read may return: the value, or nothing.
ReadOf(value) == {Unread} \cup (IF Reachable THEN {value} ELSE {})

\* The command of the current run.
Cmd(op) == [op |-> op, unit |-> run, path |-> target]

\* The step s of the deployer, one that leaves the plan and the locals alone.
At(s) == pc = s /\ UNCHANGED planVars
AtPlain(s) == At(s) /\ UNCHANGED localVars

-----------------------------------------------------------------------------
(***************************************************************************)
(* Deploy (deploy.go): the entry point of each per-host run.               *)
(***************************************************************************)

\* The operator deploys generation g.  parseArgs rejects the detecting
\* --reboot values in --mode boot.
Start(m, f, g) ==
  /\ pc = "idle" /\ run < MaxRuns
  /\ m = "boot" => f \in {"never", "always"}
  /\ run' = run + 1 /\ mode' = m /\ flag' = f /\ target' = g
  /\ downs' = IF power = "up" THEN {} ELSE {"stale"}
  /\ prior' = Unread /\ upToDate' = FALSE /\ timedOut' = FALSE
  /\ result' = "none" /\ pc' = "reach" /\ attempt' = 1
  /\ UNCHANGED <<genVars, power, timers, late>>

\* CheckSSHReachable, then the mode's flow.
Reach ==
  /\ AtPlain("reach")
  /\ NeverRan
  /\ \/ Reachable /\ Goto(IF mode = "safe" THEN "probeActive" ELSE "rebuild")
     \/ Return(FALSE) \/ Redial

-----------------------------------------------------------------------------
(***************************************************************************)
(* deploySafe.                                                             *)
(***************************************************************************)

\* alreadyDeployed, first read: /run/current-system.
ProbeActive ==
  /\ At("probeActive")
  /\ NeverRan /\ UNCHANGED <<upToDate, timedOut>>
  /\ \/ \E v \in ReadOf(current) : prior' = v /\ Goto("probeBoot")
     \/ Redial /\ UNCHANGED prior

\* Second read: the system profile.  Both must name the target.
ProbeBoot ==
  /\ At("probeBoot")
  /\ NeverRan /\ UNCHANGED <<prior, timedOut>>
  /\ \/ \E v \in ReadOf(profile) :
          /\ upToDate' = (prior = target /\ v = target)
          /\ Goto(IF prior = target /\ v = target THEN "detect" ELSE "cleanup")
     \/ Redial /\ UNCHANGED upToDate

\* [1/8] cleanupStaleUnits: best effort.  It stops every watchdog.  The other unit
\* it stops, nixos-rebuild-switch-to-configuration.service, is one that only
\* nixos-rebuild starts: activate runs switch-to-configuration straight over ssh,
\* so an activation of deploySafe that is still running is not in it, and
\* Rebuild, which is one step, leaves nothing running.
CleanupStaleUnits ==
  AtPlain("cleanup") /\ SSHRun(Cmd("cleanup"), Goto("arm"), Goto("arm"))

\* Fault: the arm's exit status is not looked at.
ArmWatchdogUnchecked ==
  AtPlain("arm") /\ SSHRunOnce(Cmd("arm"), Goto("activate"), Goto("activate"))

\* [2/8] armWatchdog: not retried.
ArmWatchdog ==
  AtPlain("arm") /\ SSHRunOnce(Cmd("arm"), Goto("activate"), Goto("disarmAbort"))

\* The arm reported failure: stop the timer it may have armed, then abort.
DisarmAbort ==
  AtPlain("disarmAbort") /\ SSHRun(Cmd("disarm"), Return(FALSE), Return(FALSE))

\* [3/8] activate: switch-to-configuration test, not retried.
Activate ==
  AtPlain("activate") /\ SSHRunOnce(Cmd("test"), Goto("verifySsh"), Goto("settle"))

\* activate's failure branch: a direct probe decides whether to assume success.
Settle ==
  /\ At("settle")
  /\ NeverRan /\ UNCHANGED <<prior, upToDate>>
  /\ \/ Reachable /\ timedOut' = TRUE /\ Goto("verifySsh")
     \/ UNCHANGED timedOut /\ Return(FALSE)

\* Fault: one attempt too many.
NextAttemptOffByOne ==
  \/ attempt <= 3 /\ attempt' = attempt + 1 /\ pc' = "verifySsh" /\ UNCHANGED result
  \/ attempt = 4 /\ Return(FALSE)

\* A failed connectivity attempt: up to three, all checks on one attempt.
NextAttempt ==
  \/ attempt < 3 /\ attempt' = attempt + 1 /\ pc' = "verifySsh" /\ UNCHANGED result
  \/ attempt = 3 /\ Return(FALSE)

\* [4/8] VerifyConnectivity: every ConnChecks list starts with a direct ssh.
VerifySsh ==
  /\ AtPlain("verifySsh")
  /\ NeverRan
  /\ \/ Reachable /\ pc' = "verifyNet" /\ UNCHANGED <<attempt, result>>
     \/ NextAttempt

\* Fault: only the ssh check has to pass.
VerifyNetSkipped == AtPlain("verifyNet") /\ NeverRan /\ (Goto("checkPath") \/ NextAttempt)

\* The remaining checks of the attempt.
VerifyNet ==
  /\ AtPlain("verifyNet")
  /\ NeverRan
  /\ \/ Healthy /\ Goto("checkPath")
     \/ NextAttempt

\* Fault: an unreadable path is taken for a match.
CheckPathUnread ==
  /\ AtPlain("checkPath")
  /\ NeverRan
  /\ \/ Goto(IF timedOut THEN "clearUnit" ELSE "setProfile")
     \/ Redial

\* [5/8] verifyActivePath, and what a mismatch does to the watchdog.
CheckPath ==
  /\ AtPlain("checkPath")
  /\ NeverRan
  /\ \/ \E v \in ReadOf(current) :
          \/ v = target /\ Goto(IF timedOut THEN "clearUnit" ELSE "setProfile")
          \/ v # target /\ v # Unread /\ v = prior /\ Goto("release")
          \/ v # target /\ (v = Unread \/ v # prior) /\ Return(FALSE)
     \/ Redial

\* The host is still on priorPath: release the watchdog and fail.
Release ==
  AtPlain("release") /\ SSHRun(Cmd("disarm"), Return(FALSE), Return(FALSE))

\* [6/8] clearRebuildUnit: best effort.  It stops the same unit, in which no
\* activation of deploySafe runs: no state of this model changes.
ClearRebuildUnit ==
  AtPlain("clearUnit") /\ NeverRan /\ (Redial \/ Goto("setProfile"))

\* persistBoot, first command: nix-env --set.
SetProfile ==
  AtPlain("setProfile") /\ SSHRun(Cmd("setProfile"), Goto("switchBoot"), Goto("disarmFail"))

\* Fault: the exit status of switch-to-configuration boot is not looked at.
SwitchBootUnchecked ==
  AtPlain("switchBoot") /\ SSHRun(Cmd("boot"), Goto("disarm"), Goto("disarm"))

\* persistBoot, second command: switch-to-configuration boot.
SwitchBoot ==
  AtPlain("switchBoot") /\ SSHRun(Cmd("boot"), Goto("disarm"), Goto("disarmFail"))

\* Persist failed: the watchdog is released and the deploy fails.
DisarmFail ==
  AtPlain("disarmFail") /\ SSHRun(Cmd("disarm"), Return(FALSE), Return(FALSE))

\* [7/8] disarmWatchdog; its outcome is ignored.
Disarm ==
  AtPlain("disarm") /\ SSHRun(Cmd("disarm"), Goto("detect"), Goto("detect"))

-----------------------------------------------------------------------------
(***************************************************************************)
(* deployUnsafe and the post-deploy tail every flow shares.                *)
(***************************************************************************)

RebootDecide(f, changed) ==
  CASE f = "never"               -> "skip"
    [] f = "always"              -> "do"
    [] f = "ask" /\ changed      -> "prompt"
    [] f = "auto" /\ changed     -> "do"
    [] OTHER                     -> "skip"

\* applyReboot; the prompt is answered either way.
ApplyReboot(changed) ==
  \/ RebootDecide(flag, changed) \in {"skip", "prompt"} /\ Goto("k8s")
  \/ RebootDecide(flag, changed) \in {"do", "prompt"} /\ Goto("reboot")

\* deployUnsafe: nixos-rebuild sets the profile, installs the boot entry and,
\* for switch, activates.  A failure may come after any prefix of these.
Rebuild ==
  /\ AtPlain("rebuild")
  /\ UNCHANGED <<booted, power, timers, late, downs>>
  /\ \E done \in 0 .. 3 :
       /\ Reachable \/ done = 0
       /\ profile' = IF done >= 1 THEN target ELSE profile
       /\ bootEntry' = IF done >= 2 THEN target ELSE bootEntry
       /\ current' = IF done = 3 THEN target ELSE current
       /\ mode = "boot" => done < 3
       /\ \/ Return(FALSE)
          \/ mode = "switch" /\ done = 3 /\ Goto("detect")
          \/ mode = "boot" /\ done = 2 /\ ApplyReboot(TRUE)

\* handleReboot: DetectKernelChange reads both sides; a failed read is
\* "unknown" and never counts as a change.
HandleReboot ==
  /\ AtPlain("detect")
  /\ NeverRan
  /\ \/ Reachable /\ ApplyReboot(Kernel[booted] # Kernel[current])
     \/ ApplyReboot(FALSE)

\* rebootAndWait: the answer is ignored, the connection is expected to die.
Reboot ==
  AtPlain("reboot") /\ SSHRunOnce(Cmd("reboot"), Goto("rebootWait"), Goto("rebootWait"))

\* Fault: no deadline on the poll.
RebootWaitForever == AtPlain("rebootWait") /\ NeverRan /\ Reachable /\ Goto("k8s")

\* The 30s wait and the poll of up to 300s, each poll a fresh connection.
RebootWait ==
  /\ AtPlain("rebootWait")
  /\ NeverRan
  /\ \/ Reachable /\ Goto("k8s")
     \/ Return(FALSE)

\* WaitForK8sReady, on a host that has it; the node status kubectl reports
\* is the API server's and may lag behind the host.
WaitForK8sReady ==
  /\ AtPlain("k8s")
  /\ NeverRan
  /\ \/ Return(TRUE)
     \/ K8sHealthCheck /\ Return(FALSE)

\* Ctrl-C, or the deployer dies: whatever it was doing is left as it is.
Interrupt ==
  /\ pc # "idle"
  /\ pc' = "idle" /\ attempt' = 1 /\ result' = "interrupted"
  /\ UNCHANGED <<hostVars, planVars, localVars>>

-----------------------------------------------------------------------------
DeployStep ==
  \/ Reach \/ ProbeActive \/ ProbeBoot \/ CleanupStaleUnits \/ ArmWatchdog
  \/ DisarmAbort \/ Activate \/ Settle \/ VerifySsh \/ VerifyNet \/ CheckPath
  \/ Release \/ ClearRebuildUnit \/ SetProfile \/ SwitchBoot \/ DisarmFail
  \/ Disarm \/ Rebuild \/ HandleReboot \/ Reboot \/ RebootWait \/ WaitForK8sReady

HostStep ==
  \/ \E u \in Units : WatchdogFires(u)
  \/ GoesDown \/ Crash \/ ComesUp
  \/ \E c \in late : LateLands(c)

Next ==
  \/ \E m \in Modes, f \in Flags, g \in Gens : Start(m, f, g)
  \/ DeployStep
  \/ Interrupt
  \/ HostStep

Spec == Init /\ [][Next]_vars

\* Every ssh call has a timeout, so the deployer keeps moving; an armed systemd
\* timer elapses; a machine that is going down goes down and comes back up.
\* Nothing is assumed of crashes, of the operator or of late commands.
Fairness ==
  /\ WF_vars(DeployStep)
  /\ \A u \in Units : WF_vars(WatchdogFires(u))
  /\ WF_vars(GoesDown) /\ WF_vars(ComesUp)

FairSpec == Spec /\ Fairness

-----------------------------------------------------------------------------
(***************************************************************************)
(* Properties of the safe flow.                                            *)
(***************************************************************************)

\* The boot default is always a generation that passes every connectivity
\* check, so whatever reboots the host brings it back: persistBoot is reached
\* only through VerifyConnectivity and verifyActivePath (deploy.go 149-186).
\* It needs an activation that does not take effect after its client gave up:
\* connectivity is verified before the path is, so a late one slips between.
BootEntryHealthy == bootEntry \notin Unreachable \cup Degraded

\* A host that activation has cut off, on a generation it does not boot, has a
\* live watchdog: no path of deploySafe, interrupt, crash or re-run takes the
\* only recovery away (deploy.go 129-201).
Protected == power = "up" /\ current \in Unreachable => timers # {}

\* A deploy that did more than find the host up to date, and reported success,
\* persisted the target in both places, whatever answers were lost and whatever
\* rebooted the host on the way (deploy.go 181-187, 206-247).
DeployedPersisted ==
  result = "ok" /\ ~upToDate => profile = target /\ bootEntry = target

\* ... and, unless a crash or a watchdog rebooted the host on the way, the host
\* runs it (verifyActivePath, deploy.go 158-179).
DeployedRuns ==
  (/\ result = "ok" /\ ~upToDate /\ mode # "boot"
   /\ downs \subseteq {"reboot"} /\ power = "up") => current = target

\* A host that is cut off or down is reachable again without anybody's help.
Recovers == ~Reachable ~> Reachable

\* Every deploy ends.
RunEnds == pc # "idle" ~> pc = "idle"

-----------------------------------------------------------------------------
(***************************************************************************)
(* What comments and the README claim, and the code does not do.           *)
(***************************************************************************)

\* deploy.go 112: "Config is already active and persisted as boot default".
UpToDateBoots == pc = "detect" /\ upToDate => bootEntry = target
=============================================================================
