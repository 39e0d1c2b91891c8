# A verification project for nix-configs

The repository is a NixOS fleet: machine configurations, service modules and
one program, `deployment/`, the Go tool that puts new configurations on running
machines over ssh. The tool is where things can go wrong in ways a test hardly
reaches: it changes the network configuration of machines it can only talk to
over that network. This project models all of it, and the Ceph backup job, the
other part of the repository with logic of its own that can lose data. Line
numbers are those of `src/`.

## Inventory

| Part | State | Operations | Hard behaviour |
|---|---|---|---|
| Per-host deploy (`deploy.go`, `health.go`, `reboot.go`) | on the host: active generation, system profile, boot default, armed watchdog timers; in the tool: step, `priorPath`, `testTimedOut` | arm, activate, verify, persist, disarm, reboot, wait | every command may run without an answer, not run, or run late; watchdog and crash reboots at any point; Ctrl-C and re-runs |
| ssh transport (`ssh.go`, `runner.go`) | one ControlMaster socket per host | `SSHRun` (one redial), `SSHRunOnce`, direct probes, `Drop`, `Close` | stale masters, retries of what was already done, timeouts, a signal handler that races with calls |
| Pipeline (`pipeline.go`, `build.go`, `copy.go`) | two channels, per-host status, the local store | one build, a poller, copy workers, one activation worker | five kinds of goroutine, channel capacity, closing order, statuses that start as "deployed" |
| Ceph gate (`ceph.go`) | per-host `noout`, OSD and placement-group health | check, set, deploy, wait, unset | lost answers, a cluster that stays unhealthy, reboots that outlive their deploy |
| The run (`main.go`, `precheck.go`, `printer.go`, `hosts.go`) | the plan, the summary, the exit code | select, probe concurrently, split, run, judge | stale probes, slots, k3s quorum rule, a loop that breaks off |
| Ceph backup (`modules/services/ceph-backup.nix`) | RBD snapshots, clones, mapped devices, status files, the shared lock | clean up leftovers, snapshot-clone-map-back up with Kopia, forget, restore | partial failure, kill or reboot in the middle, failures a shell swallows |
| TV power (`cec-control.nix`, `hosts/nelkir`, `common-tv.nix`, `steam-tv-menu.py`) | power and input state of the TV, of the session and of the CEC bus | wake, sleep, switch input, menu | events of several daemons in any order |
| Other service modules, router, networks, containers, hosts, packages, configuration, secrets | none of their own | declarative | out of scope: they configure programs that are not in the repository |

The parts interact by calls and shared state. `main.run` prechecks the fleet
and hands the plan to `RunPipeline`; its activation worker calls `Deploy` for
one host at a time; `Deploy` wraps the per-host flow in the Ceph gate; each of
these talks to hosts through `SSHRun`. `PROJECT.json` lists every part, and
under `hazards` what is hard to test in each, at its line.

## Modules

| Module | Models | Used by |
|---|---|---|
| `HostDeploy` | one host and the deployer working on it, over any number of deploys | `MCHostDeploy`, `HostDeployProofs` |
| `SshMux` | the ssh masters of one process, the calls that ride them, and `Close` | `MCSshMux`, `SshMuxProofs` |
| `Pipeline` | `RunPipeline`, every goroutine a process, and the build-only verdict of `main.go` | `MCPipeline`, `PipelineProofs` |
| `CephGate` | the gate around the deploy of a storage host, over any sequence of deploys | `MCCephGate`, `CephGateProofs` |
| `DeployRun` | `main.run` from the arguments to the exit code, with the precheck and the serial loop; `RunPipeline` as the actions of `Rollout` | `MCDeployRun`, `DeployRunProofs` |
| `Rollout` | abstract: what a run promises about the order of activations | refined by `Pipeline` and by the loop of `DeployRun`, `RolloutProofs` |
| `CephBackup` | the backup job command by command, `ceph-restore` and `ceph-restore-kopia` | `MCCephBackup`, `CephBackupProofs` |
| `HostDeployProofs`, `SshMuxProofs`, `PipelineProofs`, `CephGateProofs`, `DeployRunProofs`, `RolloutProofs`, `CephBackupProofs` | theorems about the module each extends; the two refinement proofs use `RolloutProofs` | |

### HostDeploy

The host's variables are what the commands of `deploy.go` read and write:
`current` (`/run/current-system`), `profile`, `bootEntry` (what the boot loader
starts), `booted`, `power`, and the armed `timers`. The last is a set of unit
names: a unit is named after the time of its run, here the run's number. `late`
holds commands still running on the host after their client gave up.
`downs` is history: what has taken the host down since the run began.

The deployer's variable `pc` is the step of `Deploy` that comes next; each step
is one action and performs one remote call. `deploySafe` is
`probeActive -> probeBoot -> cleanup -> arm -> activate -> (settle) ->
verifySsh -> verifyNet -> checkPath -> (clearUnit) -> setProfile -> switchBoot ->
disarm -> detect -> (reboot -> rebootWait) -> k8s`, with the exits
`disarmAbort`, `release` and `disarmFail`, in the order of the code.

A remote call (`SSHRunOnce`) has one of four outcomes: it ran and is reported
so; it ran and is reported failed; it never ran; it is still running when the
client gives up and takes effect later (`StillRunning`, `LateLands`; only for
the commands in `LateCommands`). `SSHRun` repeats a failed call once. Everything
needs a host that is `Reachable`. Between any two steps a watchdog may fire, the
host may crash or come up, and the operator may interrupt the run and start
another.

Abstractions: a generation is a model value with three facts that matter
(whether ssh works under it, whether the other connectivity checks do, which
kernel it boots); store paths, kernel versions and parameter lists are compared
only for equality; the three reads of the kernel comparison are one step that
yields the truth or "no change"; the connectivity checks after ssh are one step;
`nixos-rebuild` is one step that stops after any prefix of its effects; time is
left out, so a watchdog may fire at any moment after it was armed. A ConnCheck
may fail although the network is good; it does not pass when it is not.

### Pipeline and Rollout

`Init` is the state when `RunPipeline` starts its goroutines, the hosts queued in
the order of the fleet (`InOrder`): any set of hosts
that passed the precheck, any of them up to date, the store empty or filled by
an earlier run. The build goroutine finishes derivations in any order and exits
at any time (`--keep-going`, failure, timeout); the poller (`PollSelect`,
`PollHost`, `PollSwept`, `PollUnbuilt`, `PollFinal`) examines one host per step;
copy workers and the activation worker take, work and send in separate steps;
`Judge` is `main.go`'s question about each build-only host. `Deploy` is the step
from `ActTake` to `ActEnds`. For an empty plan the code starts none of the
worker goroutines; in the model they exit at once.

`Rollout` says what the operator relies on: one host is active at a time, each
at most once, none starts after the rollout was halted, and a failed activation
of a k3s node, or of any host under `stop`, halts it. `Pipeline` is shown to
implement it: `outcome` is computed from `active`, `succeeded` and `status`,
`halted` is `stopped`. A host whose build or copy failed is `dropped`: it was
never activated and halts nothing, k3s or not.

### DeployRun

`pc` is the step of `main.run`: `select -> resolve -> (build) -> probe -> plan ->
roll -> judge -> done` in safe mode, and `loop`, `deploy` and `extra` instead of
`roll` in the `switch` and `boot` modes. `selected` is a set: the order in which
hosts were named plays no part, since the loop follows the order of the fleet.
During `probe` every selected host's precheck is a process of its own
(`ProbeAcquire`, `ProbeSsh`, `ProbePrinter`, `ProbePath`) competing for the slots
of `sem`. `roll` is `RunPipeline`, as what `Pipeline` was shown to implement: its
actions are those of `Rollout`, and nothing about the order of activations is
claimed of it here. The loop is written out from `main.go` 248-266: `LoopNext`
advances `pos` through the fleet, `LoopSucceeds` and `LoopFails` are the two
returns of `Deploy` with the `continue` and the two `break`s, and
`LoopImplementsRollout` shows that this is a rollout too, with `LoopOutcome`
computed from where the loop stands and what it has put on record.
`DeployReaches` is the point where `Deploy` has made its own ssh check and changes
the host.

Hosts go up and down and prints start and end from the precheck to the end of
the rollout, so that whatever the precheck saw may be stale; `oldDown` and
`oldPrint` remember what has been so since before the run. A process keeps
nothing between runs, so one run from any state of the fleet stands for every
run. Abstractions: the `nix eval` processes are one step, since each writes its
own slot and one failure ends the run; an unusable control directory is a
failure of that step; argument errors end the process before any of this.

### SshMux

Per host: the `master` behind the control socket (`stale` when its TCP session is
gone), an `orphan` whose socket was unlinked, and the call in progress with its
attempt. A call is an `SSHRun`, an `SSHRunOnce` (with it those of `nix copy`, which
rides the master and does not redial), a `nixos-rebuild`, or an `SSHRunDirect`.
Whoever dials first becomes the master, with its own options: `keepalive` has the
hosts whose master was dialled with ServerAliveInterval, which `NIX_SSHOPTS` of
`nixos-rebuild` does not pass (`Dials`); `deployUnsafe` drops that master after the
call (`DropAndGo`). `Notice` and `Persist` are ServerAliveInterval and
ControlPersist. `ssh -O exit` may have no effect, since nobody looks at its result
(`ExitMaster`, `unheeded`). `Close` is three steps (glob, exit each, remove), taken
by `run`'s defer and by the signal handler, which may interleave with calls;
`raced` has the hosts dialled after a `Close` had listed the sockets. `Kill` is
what no handler sees. What a remote command does is left to `HostDeploy`.

### CephBackup

The pool is, per image, its snapshots, which of them are protected, and its clone,
with the mapped and mounted devices of the node; what `rbd` refuses (removing a
mapped clone, unprotecting a snapshot with a clone, deleting an image with
snapshots) is in the guards. `content` and `kopia` tell a whole volume from one
that a restore is filling. Each command of `cleanup` and `backup_one` is a step
that may fail, before or after it took effect; a failure in `backup_one` is
`ImageFails`, one in `cleanup` ends the job through its trap (`Dies`), and a
listing that fails inside a command substitution is an empty listing, as it is in
the shell. `Kill` and `Reboot` come at any step. `blind` remembers that a listing
or a read of this run failed in a way the script does not notice.

Abstractions: snapshot names are "this run's" and "an earlier run's"; the
snapshots of one image are removed in one step of `cleanup`; a restore is three
steps (begin, empty, fill); images never share a name.

`ClaimOf` is the PVC in an image's metadata. `ceph-restore` picks its snapshot by
namespace and PVC, so an image, also a new and empty one, is restored from any
backup of the PVC's images, deleted ones among them (`BackupsOf`), and is then as
whole as that backup: one made of a volume whose restore had died spreads. The
third holder of the lock, `ceph-restore-kopia`, holds it for as long as the kopia
it execs runs (`ToolBegins`, `ToolEnds`).

### CephGate

`Deploy`'s gate with `CephBeforeDeploy` (`tree`, `set`), the inner deploy
(`deploy`), and `CephAfterDeploy` (`osds`, `pgs`, `unset`). The cluster is what
the gate reads: which hosts' OSD is down, whether the placement groups are
clean, being scrubbed or degraded, which hosts have `noout`. The inner deploy may stop its host's OSD at any
time and may leave a reboot or a watchdog behind (`pending`) that stops it after
the deploy has returned; `stray` remembers the hosts that went down that way.
OSD failures without any deploy are not modelled: the gate cannot prevent them.

## Runs

All runs are small instances of the modules; "expect violation" runs show that
a comment or the deployment README says something the code does not do.

| Run | Checks | Bounds |
|---|---|---|
| `host_safe` | `TypeOK`, `BootEntryHealthy`, `Protected`, `DeployedPersisted`, `DeployedRuns`, `Recovers`, `RunEnds` | four generations (initial, good, unreachable, degraded), two safe deploys, late arms and reboots |
| `host_modes` | `DeployedPersisted`, `DeployedRuns` | every mode and `--reboot` value, two deploys, fast reboots |
| `pipeline` | `TypeOK`, `ActivatesCopied`, `NeverBlocks`, `ReportedDeployedIsDeployed`, `FailureIsFinal`, `ImplementsRollout`, `Terminates` | three hosts, two of them k3s, one build-only, two copy workers, either `--on-failure` |
| `ceph_gate` | `TypeOK`, `AtMostOneDown`, `NooutAccounted`, `ClearedWhenHealthy`, `GateEnds` | three storage hosts, three deploys, two health tries |
| `deploy_run` | `TypeOK`, `SuccessIsTotal`, `SummaryAccounts`, `QuorumGuard`, `PrintSpared`, `LoopImplementsRollout`, `RunEnds` | two k3s nodes, a printer, a build-only host, two probe slots; the default selection, a named one with a duplicate, an unknown name; every flag |
| `ssh_mux` | `TypeOK`, `SessionsNotice`, `ExitLeavesOnlyRaced`, `RedialSurvives` | two hosts, with and without multiplexing, two attempts |
| `ceph_backup` | `TypeOK`, `SuccessCovers`, `SuccessIsClean`, `StatusTruthful`, `NoTornBackup` | two images of one PVC, none excluded, two faults, two restores, any number of backup runs |
| `ceph_leftovers` | `LeftoversGo` | the same, with one restore |
| `claim_up_to_date` | `UpToDateBoots` | violated |
| `claim_late_activation` | `BootEntryHealthy`, with late activations | violated |
| `claim_verdict` | `VerdictAfterBuild` | violated |
| `claim_forget` | `ForgetsOnlyGone`, one image, one fault | violated |

Why the bounds are enough to be interesting: two deploys are what it takes for
one run to meet what another left behind (stale timers, a half-persisted
generation, a late command); four generations let a run try each kind of target
after another; three pipeline hosts with two workers let a copy finish while an
activation fails and another host is queued; three deploys let each storage host
take its turn; two slots for three probes make one of them wait; two k3s nodes let
one be down while the other is rolled; two ssh hosts let one open a master while
`Close` works on the other's; two images and two faults let the cleanup after one
failure meet another, or a kill meet what a failure left, and two images of one PVC
with two restores let a new volume be filled from an old one's backup. The two
hosts of `ssh_mux` and the two images of `ceph_backup` differ in nothing, so their
safety runs are checked up to symmetry; `ceph_leftovers`, a liveness run, is not. `MaxRuns`, `Retries`,
`MaxFaults`, `MaxRestores`, `Attempts` and the three connectivity attempts are the
only bounds on counters. The host and Ceph gate runs stop when the deploys are
used up, so they do not check deadlock; the others do, with `Finished` as the end
of a process.

What the passing runs show:

- **`BootEntryHealthy`**: the boot default is always a generation that passes
  every check, so any reboot brings the host back. It holds because `persistBoot`
  is reached only through the connectivity check and the path check, and needs
  that an activation does not land after its client gave up.
- **`Protected`**, **`Recovers`**: a host that an activation cut off has an armed
  watchdog, whoever interrupts or repeats the deploy, and so comes back.
- **`DeployedPersisted`**, **`DeployedRuns`**: a success that did work means what
  it says, in every mode.
- **`NeverBlocks`**, **`ReportedDeployedIsDeployed`**, **`FailureIsFinal`**,
  **`ActivatesCopied`**, **`Terminates`**: the channels are large enough, no host
  is lost between the stages although statuses start as deployed, no stage
  overwrites another's verdict, no host is activated without its closure.
- **`AtMostOneDown`**, **`NooutAccounted`**, **`ClearedWhenHealthy`**,
  **`GateEnds`**: the rolling gate. A scrub is not `active+clean` by the gate's
  comparison, so a cluster that scrubs throughout the wait fails a good deploy;
  the wait still ends and the flag it leaves is warned about.
- **`SuccessIsTotal`**, **`SummaryAccounts`**: exit code 0 means that every
  selected host was deployed or skipped by policy and every build-only host was
  built; a host that the summary does not name was deployed, unless the serial loop
  broke before its turn, and then the exit code is not 0.
- **`QuorumGuard`**, **`PrintSpared`**: no host is changed while a selected k3s node
  has been down since before the run, and no printer during a print that was in
  progress before it. Neither is promised of what changes later: a print that
  starts, or a node that goes down, after its probe is not seen.
- **`LoopImplementsRollout`**: the loop of the debug modes activates one host at a
  time and breaks where the rolling deploy of the k3s nodes needs it to.
- **`RedialSurvives`**: with masters on, an `SSHRun` fails for want of a connection
  only if the network failed during its last attempt, or the master it was to
  discard did not heed its exit. It needs the `Drop` between the two.
- **`SessionsNotice`**: no call waits on a master that cannot notice a dead peer,
  but `nixos-rebuild`'s own and one on a master that would not exit. It needs the
  `Drop` after `nixos-rebuild`.
- **`ExitLeavesOnlyRaced`**: a process that exits leaves neither directory nor
  socket, and no master but one that would not exit or, after a signal, one dialled
  behind a `Close`. That is what is left to ControlPersist.
- **`SuccessCovers`**, **`SuccessIsClean`**, **`StatusTruthful`**, **`NoTornBackup`**,
  **`LeftoversGo`**: a run that reports success, and lost no listing unnoticed, has
  backed up every volume and left nothing in the pool; a status file speaks of a
  backup that exists; the lock keeps a restore's half-filled volume out of the
  repository; whatever an interrupted run leaves, a later one removes.

What the violation runs show (quotes are in `PROJECT.json`):

- `claim_up_to_date`: `hostAtPath` reads the system profile, not the boot
  loader. If `nix-env --set` worked and `switch-to-configuration boot` failed,
  the next run skips the host as already persisted.
- `claim_late_activation`: connectivity is verified before the path; an
  activation that outlives its ssh client (the 255 or timeout that sets
  `testTimedOut`) can land in between, and an unverified generation is persisted.
- `claim_verdict`: `RunPipeline` does not wait for the build when every deployed
  host is done, so a build-only host still being built is reported as failed.
- `claim_forget`: when `rbd ls` fails, the backup job has nothing to back up,
  deletes the status file of every volume and exits 0. Both alerts fall silent.

Smaller observations, which follow from the models above:
`rebootAndWait` ignores the outcome of `systemctl reboot` and accepts any
reachable host, so `always` may report a host that never rebooted (README 82);
a `set-group noout` that ran and whose answer was lost leaves the flag set without
the warning README 123 promises; "everything else redials once" (README 314)
is not so of `nix copy` and `nixos-rebuild`, which ride the master and fail with
it; a failed read of a volume's metadata, or a failed `blkid`, skips the volume in
a backup that reports success; a killed backup leaves the previous `last-run`;
`priorPath` need not be the boot default when the watchdog is released early
(after the half-persisted state of `claim_up_to_date`); a watchdog that fires
between `persistBoot` and the disarm reboots into the new generation, and the
run may still succeed; a k3s host whose build or copy failed does not stop the
queue; a reboot that outlives its deploy can take a second OSD down.

## Fairness

`HostDeploy`: the deployer keeps moving because every call has a timeout
(`WithTimeout`, `ssh.go`); an armed timer elapses; a machine that is going down
goes down and comes back. Nothing is assumed of crashes, interrupts, late
commands or of the operator starting a run. `Pipeline`: each goroutine keeps
running and `BuildAll`, `CopyClosure` and `Deploy` return. `CephGate`: the
deployer keeps moving; the cluster need not. `DeployRun`: the process takes its
next step, since every command has a timeout; the fleet and the leftover build
need not move. `CephBackup`: the timer fires every day, and a
job, a restore or an operator's kopia that is not killed goes on until it ends;
failures and uses of the lock by hand are finitely many (a kopia left mounted would
keep every backup from starting). `SshMux` assumes nothing: it has no liveness
property.

## Proofs

Every safety property that a passing run checks is also a theorem, for every value
of the constants: any number of generations, hosts, workers, slots, volumes, deploys
and faults. The constants' assumptions are the modules' own `ASSUME`s. Each theorem
follows the same argument, an invariant that every action preserves (one step of the
proof per action) and that implies the property. What the invariants add:

**HostDeploy** (`HostDeployProofs`)
- `TypeCorrect`: `Spec => []TypeOK`.
- `BootDefaultHealthy`: `Spec => []BootEntryHealthy`, if every deploy is a safe
  one and `"test"` is not among `LateCommands`. All other commands may be late.
  `SafeInv` says why: at `checkPath` the active generation is healthy, past it the
  target is, and a boot installation that is still running installs such a target.
  `claim_late_activation` shows that the second hypothesis is needed; the unsafe
  modes install unverified targets.
- `CutOffProtected`: `Spec => []Protected`, if moreover `disarm` and `cleanup`
  have no late effect and a reboot does not complete between the arm's answer and
  the activation. `WatchInv` adds that the run's own timer is armed when the
  activation is sent to a running host. That everything which removes a timer
  needs a reachable host is lemma `SentEffect`; that a reboot lands on a healthy
  generation is `SafeInv`.
- `SuccessPersists`: `Spec => []DeployedPersisted` in every mode, if `setProfile` and
  `boot` have no late effect (an earlier run's could overwrite this run's).
  `PersistInv`: past `setProfile` the profile is the target, past `switchBoot` the
  boot default too. An answer of success means that the command ran (`RanEffect`).
- `SuccessRuns`: `Spec => []DeployedRuns`, if moreover `test` has none. `RunsInv`:
  past `verifyActivePath` the target runs, unless something is in `downs`; the only
  reboot that may be, its own, comes after the target was persisted, so it lands on
  the target. For that the invariant also keeps track of late `reboot` commands.

**Pipeline** (`PipelineProofs`)
- `ChannelsNeverBlock`, `CopiedFirst`, `FailureStays`, `ReportIsTrue` (`NeverBlocks`,
  `ActivatesCopied`, `FailureIsFinal`, `ReportedDeployedIsDeployed`) all rest on
  `PlaceInv`: there is a map from the hosts of the run to nine places (to be polled,
  missing, in `copyCh`, in a copy worker's hands, being sent, in `actCh`, active,
  succeeded, failed) such that each host is in its place, once, and in no other. The
  map is a witness, not a variable; every step moves at most one host in it. From
  it, a host about to be sent is not in the channel, so the channel has room
  (`RoomLeft`, by counting, with `FiniteSetTheorems`); whoever gives a verdict holds
  the host; and, with `ShutInv` on the order in which the stages close, a host
  that is nowhere on the way when `RunPipeline` returns succeeded or failed.
- `PipelineImplementsRollout`: `Spec => ImplementsRollout`, from the same two
  invariants. `PipelineRollsK3s` carries `RollingK3s` over.

**Rollout** (`RolloutProofs`)
- `RollingK3s`: a rollout leaves at most one k3s node broken and activates nothing
  once one is. `SerialInv` adds that at most one host is active and none once the
  rollout is halted.

**DeployRun** (`DeployRunProofs`)
- `SuccessTotal`, `SummaryComplete`, `QuorumGuarded`, `PrintsSpared`, from `RunInv`:
  the selection is settled once (`PlanInv`); a host that was down ever since before
  the run can only have failed its probe, a printer that printed all along was not
  let by (`ProbeInv`); only hosts the precheck let by are rolled out (`RollInv`);
  the summary takes every selected host up, and a serial loop that broke off leaves
  a failure in it (`SummaryInv`).
- `LoopRollout`: `Spec => LoopImplementsRollout`; `LoopRollsK3s` carries `RollingK3s`
  over. `LoopInv` says where the loop is: what lies before `pos` and was to be
  deployed has succeeded or failed, what lies after it is neither, and no failure
  that calls for a break is behind a loop that goes on.

**CephGate** (`CephGateProofs`)
- `RollingGate`: `Spec => []AtMostOneDown`. `GateInv` adds that between the gate's
  check and the end of the deploy no other host's OSD is down, strays apart.
- `NooutNeverHidden` (`NooutAccounted`), `ClearsWhenHealthy` (`ClearedWhenHealthy`: a
  stopped OSD leaves the placement groups degraded, and they are read last).

**SshMux** (`SshMuxProofs`)
- `OnlyRacedLeft` (`ExitLeavesOnlyRaced`). `CloseInv`: between the listing of the
  sockets and the removal of the directory, a master is still to be told to exit, did
  not heed that, or was dialled since. `QuietInv`: without a signal only `run`'s own
  `Close` acts, after every call has ended, so nothing is dialled behind it.
- `NoDeafSession` (`SessionsNotice`). `DeafInv`: outside `nixos-rebuild`'s call, the
  host's master has keep-alives or did not heed its exit.
- `RedialWorks` (`RedialSurvives`), if `Attempts > 1` (the code's is 2; with one attempt
  there is no redial). `RedialInv`: from the second attempt on, a call rides a master
  dialled after the `Drop`, which lasts as long as the network does, or the one that
  would not exit.

**CephBackup** (`CephBackupProofs`)
- `BackupIsTyped`, `StatusIsTruthful`, `SuccessLeavesNothing`, `SuccessCovered`,
  `NoBackupTorn`. The invariant annotates the script: what `backup_one` has built at
  each step (`ChainInv`), who holds the lock (`LockInv`), which volumes a restore left
  half filled, itself or through such a backup (`TornInv`), how far `cleanup` has come and what is clean outside it
  (`CleanInv`), that an image with a snapshot exists (`LifeInv`), and that what has
  still to be backed up is queued or at hand (`CoverInv`).

`GateTyped`, `RunTyped`, `PipelineTyped`, `MuxIsTyped` and `RolloutTyped` are the type
invariants of the other modules.

Left to TLC: the liveness properties `Recovers`, both `RunEnds`, `Terminates`,
`GateEnds` and `LeftoversGo`, since fairness and ENABLED
are out of the prover's reach, with the fairness conjuncts of the specifications,
which no proof uses; and the four violation runs, where there is nothing to prove.
The hypotheses on `LateCommands`, `FastReboot` and `Attempts` are what the property
needs of the environment; the passing runs give the constants values that meet them.

## Plan

1. Done: `HostDeploy`, `Pipeline`, `CephGate`, `DeployRun`, `SshMux`, `CephBackup`,
   the abstract `Rollout`, their runs, and the theorems above.
2. Next, proofs: what the claims of the violation runs become when the cause of the
   disagreement is assumed away (for instance `ForgetsOnlyGone` while no listing
   fails), which would show that the cause named is the only one; weaker hypotheses for `CutOffProtected`.

## Not modelled

- TV power and HDMI-CEC control: what its scripts do is a few commands per event;
  what matters is how televisions, libcec and Steam react, and nothing in the
  repository says.
- Configuration without behaviour of its own (see the inventory), and the scripts
  that run once and only report.
- Within the deploy tool: the text it prints and the lock that keeps its lines
  whole, the argv it builds and the JSON it parses; the timing of the watchdog
  against the checks (two minutes against the sum of the timeouts); the pipes of a
  killed child that keep `cmd.Run` waiting; two deployer processes on one fleet,
  against which the tool has no defence; interrupts of `DeployRun`, whose
  consequences are those of `HostDeploy`, `CephGate` and `SshMux`.
- Of what the environment may do: in the host runs, disarms and cleanups that take
  effect after their client gave up (`LateCommands`; a late cleanup would stop the
  next run's watchdog), and `nixos-rebuild` outliving the deployer, so that the
  stopping of its unit by `cleanupStaleUnits` and `clearRebuildUnit` has nothing to
  stop (`activate` does not run in that unit); a host that answers the last poll of
  `rebootAndWait` after its deadline (the end of the wait is a step that may always
  be taken, so its deadline is assumed rather than shown); OSDs that fail by
  themselves; placement groups that report a stopped OSD late (`ClearedWhenHealthy`
  assumes they do so at once); in `DeployRun`, a print or an outage that begins after
  its probe, against which the tool does nothing.
- Within the backup: kopia's policies and retention, pods (so the check for
  watchers before a restore is always true), the metrics that read the status
  files, excluded namespaces in the checked instance (they are never backed up).
