------------------------------ MODULE Pipeline ------------------------------
(***************************************************************************)
(* RunPipeline of src/deployment/pipeline.go: one nix build for the fleet, *)
(* a poller that dispatches a host when its store path appears, CopyJobs   *)
(* copy workers and one activation worker, joined by two channels, and the *)
(* verdict on the build-only hosts that main.go reaches afterwards.        *)
(*                                                                         *)
(* Every goroutine is a process of its own.  Build, copy and Deploy take   *)
(* any time and may fail; a path that is there may be missed by nix        *)
(* path-info timing out.  Deploy itself is the subject of HostDeploy.      *)
(***************************************************************************)
EXTENDS Naturals, Sequences, FiniteSets, SequencesExt

CONSTANTS
  Hosts,      \* the hosts selected for deployment, in Host.Order: a sequence
  BuildOnly,  \* the hosts built but not deployed
  K3s,        \* the hosts in group "k3s"
  CopyJobs,   \* number of copy workers
  None        \* no host

HostSet == ToSet(Hosts)
Workers == 1 .. CopyJobs

ASSUME PipelineAssumption ==
  /\ Hosts \in Seq(HostSet) /\ Len(Hosts) = Cardinality(HostSet)
  /\ HostSet \cap BuildOnly = {} /\ None \notin HostSet \cup BuildOnly
  /\ K3s \subseteq HostSet
  /\ CopyJobs \in Nat \ {0}

VARIABLES
  onFailure, \* --on-failure: "stop" or "continue"
  todo,      \* the hosts that passed the precheck
  upToDate,  \* those of them already running and booting the target
  building,  \* derivations nix build is still working on
  store,     \* hosts whose toplevel is valid in the local store
  buildDone, \* the buildDone channel is closed
  poller,    \* "select", "sweep", "final" (the last sweep) or "exited"
  left,      \* hosts the poller has still to examine in this sweep
  missing,   \* hosts this sweep did not find (sweep's remaining)
  copyCh,    \* channel to the copy workers
  copyClosed,
  copying,   \* per worker: the host it copies, or None
  sending,   \* per worker: the host it is about to send to actCh, or None
  exited,    \* copy workers whose range loop has ended
  actCh,     \* channel to the activation worker
  actClosed,
  onTarget,  \* hosts whose closure is in the target's own store
  active,    \* the host inside Deploy, or None
  stopped,   \* drainActivations' stopped
  status,    \* results[i].Status, per host
  succeeded, \* hosts for which Deploy returned true
  returned,  \* RunPipeline has returned
  judged,    \* build-only hosts main.go has asked BuiltOK about
  buildFailed\* those it reports under "Failed builds"

buildVars == <<building, store, buildDone>>
pollVars == <<poller, left, missing>>
copyVars == <<copyCh, copyClosed, copying, sending, exited, onTarget>>
actVars == <<actCh, actClosed, active, stopped, succeeded, returned>>
mainVars == <<onFailure, todo, upToDate, judged, buildFailed>>
vars == <<buildVars, pollVars, copyVars, actVars, mainVars, status>>

Statuses == {"Deployed", "BuildFailed", "CopyFailed", "DeployFailed", "Cancelled"}
Slots == HostSet \cup {None}

\* Fault: the channels are sized for the workers, not for the hosts.
CapacityOfWorkers == CopyJobs

\* Both channels are buffered to the host count.
Capacity == Cardinality(todo)

TypeOK ==
  /\ todo \subseteq HostSet /\ upToDate \subseteq todo
  /\ building \subseteq HostSet \cup BuildOnly /\ store \subseteq HostSet \cup BuildOnly
  /\ buildDone \in BOOLEAN
  /\ poller \in {"select", "sweep", "final", "exited"}
  /\ left \in Seq(todo) /\ missing \in Seq(todo)
  /\ copyCh \in Seq(todo) /\ actCh \in Seq(todo)
  /\ copying \in [Workers -> Slots] /\ sending \in [Workers -> Slots]
  /\ exited \subseteq Workers
  /\ copyClosed \in BOOLEAN /\ actClosed \in BOOLEAN
  /\ onTarget \subseteq HostSet /\ succeeded \subseteq HostSet
  /\ active \in Slots
  /\ stopped \in BOOLEAN /\ returned \in BOOLEAN
  /\ status \in [HostSet -> Statuses]
  /\ judged \subseteq BuildOnly /\ buildFailed \subseteq judged

\* The hosts of S as a sequence, in the order of Hosts: Host.Order is what sorts
\* it.  There is exactly one.
InOrder(S) ==
  {s \in SetToSeqs(S) : \A i, j \in DOMAIN s : i < j =>
     \E m, n \in DOMAIN Hosts : m < n /\ Hosts[m] = s[i] /\ Hosts[n] = s[j]}

\* Fault: the hosts the precheck skipped are not filtered out.
PlannedUnfiltered == todo \in SUBSET HostSet /\ upToDate \in SUBSET HostSet

\* The precheck pass has settled which hosts to deploy, and which of them are
\* up to date already (main.go splits pre into failed, skipped and todo).
Planned == todo \in SUBSET HostSet /\ upToDate \in SUBSET todo

\* RunPipeline up to its goroutines.  Up-to-date hosts go straight to actCh;
\* the others' derivations join the build-only ones in the one nix build.  Some
\* of the paths may be in the local store from an earlier run.
Init ==
  /\ Planned /\ onFailure \in {"stop", "continue"}
  /\ building = (todo \ upToDate) \cup BuildOnly
  /\ store \in {{}, BuildOnly \cup HostSet}
  /\ buildDone = FALSE
  /\ poller = "select" /\ left \in InOrder(todo \ upToDate) /\ missing = <<>>
  /\ copyCh = <<>> /\ copyClosed = FALSE
  /\ copying = [w \in Workers |-> None] /\ sending = [w \in Workers |-> None]
  /\ exited = {}
  /\ actCh \in InOrder(upToDate) /\ actClosed = FALSE
  /\ onTarget = upToDate
  /\ active = None /\ stopped = FALSE /\ succeeded = {} /\ returned = FALSE
  /\ status = [h \in HostSet |-> "Deployed"]
  /\ judged = {} /\ buildFailed = {}

-----------------------------------------------------------------------------
(***************************************************************************)
(* The build goroutine.                                                    *)
(***************************************************************************)

\* nix build finishes one derivation, successfully or not (--keep-going).
BuildOne(d) ==
  /\ ~buildDone /\ d \in building
  /\ building' = building \ {d}
  /\ store' \in {store, store \cup {d}}
  /\ UNCHANGED <<buildDone, pollVars, copyVars, actVars, mainVars, status>>

\* nix build exits, or BuildAll's timeout kills it; buildDone is closed.
BuildExits ==
  /\ ~buildDone
  /\ buildDone' = TRUE /\ building' = {}
  /\ UNCHANGED <<store, pollVars, copyVars, actVars, mainVars, status>>

-----------------------------------------------------------------------------
(***************************************************************************)
(* pollBuilds.                                                             *)
(***************************************************************************)

\* nix path-info: exact for a path that is not there, may time out on one that is.
BuiltOK(d, ok) == ok => d \in store

\* The loop ends when nothing is left: the deferred close of copyCh.
PollEmpty ==
  /\ poller = "select" /\ left = <<>>
  /\ poller' = "exited" /\ copyClosed' = TRUE
  /\ UNCHANGED <<buildVars, left, missing, copyCh, copying, sending, exited, onTarget,
                 actVars, mainVars, status>>

\* Fault: the loop never looks at buildDone.
PollSelectTickOnly ==
  /\ poller = "select" /\ left # <<>>
  /\ poller' = "sweep"
  /\ UNCHANGED <<buildVars, left, missing, copyVars, actVars, mainVars, status>>

\* select: a closed buildDone is ready at once, the tick only after two seconds,
\* so the tick is taken only while the build runs.
PollSelect ==
  /\ poller = "select" /\ left # <<>>
  /\ poller' = IF buildDone THEN "final" ELSE "sweep"
  /\ UNCHANGED <<buildVars, left, missing, copyVars, actVars, mainVars, status>>

\* Fault: a dispatched host stays among the remaining ones.
PollHostKept ==
  /\ poller \in {"sweep", "final"} /\ left # <<>>
  /\ left' = Tail(left)
  /\ missing' = Append(missing, Head(left))
  /\ \/ /\ BuiltOK(Head(left), TRUE) /\ Len(copyCh) < Capacity
        /\ copyCh' = Append(copyCh, Head(left))
     \/ BuiltOK(Head(left), FALSE) /\ UNCHANGED copyCh
  /\ UNCHANGED <<buildVars, poller, copyClosed, copying, sending, exited, onTarget,
                 actVars, mainVars, status>>

\* One host of a sweep: dispatched if its path is valid, kept otherwise.
PollHost ==
  /\ poller \in {"sweep", "final"} /\ left # <<>>
  /\ left' = Tail(left)
  /\ \/ /\ BuiltOK(Head(left), TRUE)
        /\ Len(copyCh) < Capacity
        /\ copyCh' = Append(copyCh, Head(left)) /\ UNCHANGED missing
     \/ /\ BuiltOK(Head(left), FALSE)
        /\ missing' = Append(missing, Head(left)) /\ UNCHANGED copyCh
  /\ UNCHANGED <<buildVars, poller, copyClosed, copying, sending, exited, onTarget,
                 actVars, mainVars, status>>

\* A tick's sweep is over: left = remaining.
PollSwept ==
  /\ poller = "sweep" /\ left = <<>>
  /\ poller' = "select" /\ left' = missing /\ missing' = <<>>
  /\ UNCHANGED <<buildVars, copyVars, actVars, mainVars, status>>

\* Fault: a host that was never built gets no status.
PollUnbuiltSilent ==
  /\ poller = "final" /\ left = <<>> /\ missing # <<>>
  /\ missing' = Tail(missing)
  /\ UNCHANGED <<buildVars, poller, left, copyVars, actVars, mainVars, status>>

\* The final sweep is over: what is still missing was never built.
PollUnbuilt ==
  /\ poller = "final" /\ left = <<>> /\ missing # <<>>
  /\ missing' = Tail(missing)
  /\ status' = [status EXCEPT ![Head(missing)] = "BuildFailed"]
  /\ UNCHANGED <<buildVars, poller, left, copyVars, actVars, mainVars>>

PollFinal ==
  /\ poller = "final" /\ left = <<>> /\ missing = <<>>
  /\ poller' = "exited" /\ copyClosed' = TRUE
  /\ UNCHANGED <<buildVars, left, missing, copyCh, copying, sending, exited, onTarget,
                 actVars, mainVars, status>>

-----------------------------------------------------------------------------
(***************************************************************************)
(* The copy workers.                                                       *)
(***************************************************************************)

CopyTake(w) ==
  /\ w \notin exited /\ copying[w] = None /\ sending[w] = None
  /\ copyCh # <<>>
  /\ copying' = [copying EXCEPT ![w] = Head(copyCh)]
  /\ copyCh' = Tail(copyCh)
  /\ UNCHANGED <<buildVars, pollVars, copyClosed, sending, exited, onTarget, actVars,
                 mainVars, status>>

\* Fault: a failed copy is reported but the host is sent on.
CopyEndsUnchecked(w) ==
  /\ copying[w] # None
  /\ copying' = [copying EXCEPT ![w] = None]
  /\ sending' = [sending EXCEPT ![w] = copying[w]]
  /\ \/ onTarget' = onTarget \cup {copying[w]} /\ UNCHANGED status
     \/ status' = [status EXCEPT ![copying[w]] = "CopyFailed"] /\ UNCHANGED onTarget
  /\ UNCHANGED <<buildVars, pollVars, copyCh, copyClosed, exited, actVars, mainVars>>

\* CopyClosure returns.  A failed copy sets the status and goes no further.
CopyEnds(w) ==
  /\ copying[w] # None
  /\ copying' = [copying EXCEPT ![w] = None]
  /\ \/ /\ onTarget' = onTarget \cup {copying[w]}
        /\ sending' = [sending EXCEPT ![w] = copying[w]] /\ UNCHANGED status
     \/ /\ status' = [status EXCEPT ![copying[w]] = "CopyFailed"]
        /\ UNCHANGED <<onTarget, sending>>
  /\ UNCHANGED <<buildVars, pollVars, copyCh, copyClosed, exited, actVars, mainVars>>

\* actCh <- p; a full channel would block the worker.
CopySend(w) ==
  /\ sending[w] # None
  /\ Len(actCh) < Capacity
  /\ actCh' = Append(actCh, sending[w])
  /\ sending' = [sending EXCEPT ![w] = None]
  /\ UNCHANGED <<buildVars, pollVars, copyCh, copyClosed, copying, exited, onTarget,
                 actClosed, active, stopped, succeeded, returned, mainVars, status>>

\* range copyCh ends: the channel is closed and drained.
CopyExits(w) ==
  /\ w \notin exited /\ copying[w] = None /\ sending[w] = None
  /\ copyClosed /\ copyCh = <<>>
  /\ exited' = exited \cup {w}
  /\ UNCHANGED <<buildVars, pollVars, copyCh, copyClosed, copying, sending, onTarget,
                 actVars, mainVars, status>>

\* wg.Wait(); close(actCh).
CloseActCh ==
  /\ exited = Workers /\ ~actClosed
  /\ actClosed' = TRUE
  /\ UNCHANGED <<buildVars, pollVars, copyVars, actCh, active, stopped, succeeded, returned,
                 mainVars, status>>

-----------------------------------------------------------------------------
(***************************************************************************)
(* drainActivations, and main.go after RunPipeline.                        *)
(***************************************************************************)

\* The next host in the ready queue: cancelled once stopped, else deployed.
ActTake ==
  /\ ~returned /\ active = None /\ actCh # <<>>
  /\ actCh' = Tail(actCh)
  /\ IF stopped
       THEN status' = [status EXCEPT ![Head(actCh)] = "Cancelled"] /\ UNCHANGED active
       ELSE active' = Head(actCh) /\ UNCHANGED status
  /\ UNCHANGED <<buildVars, pollVars, copyVars, actClosed, stopped, succeeded, returned, mainVars>>

\* Fault: a k3s failure is treated like any other.
ActEndsAlike ==
  /\ active # None
  /\ active' = None
  /\ \/ succeeded' = succeeded \cup {active} /\ UNCHANGED <<status, stopped>>
     \/ /\ status' = [status EXCEPT ![active] = "DeployFailed"]
        /\ stopped' = (stopped \/ onFailure = "stop")
        /\ UNCHANGED succeeded
  /\ UNCHANGED <<buildVars, pollVars, copyVars, actCh, actClosed, returned, mainVars>>

\* Deploy returns.
ActEnds ==
  /\ active # None
  /\ active' = None
  /\ \/ succeeded' = succeeded \cup {active} /\ UNCHANGED <<status, stopped>>
     \/ /\ status' = [status EXCEPT ![active] = "DeployFailed"]
        /\ stopped' = (stopped \/ active \in K3s \/ onFailure = "stop")
        /\ UNCHANGED succeeded
  /\ UNCHANGED <<buildVars, pollVars, copyVars, actCh, actClosed, returned, mainVars>>

\* actCh is closed and drained, or there was nothing to do and the build-only
\* build has ended: RunPipeline returns.
Return ==
  /\ ~returned
  /\ IF todo = {} THEN buildDone
                  ELSE active = None /\ actClosed /\ actCh = <<>>
  /\ returned' = TRUE
  /\ UNCHANGED <<buildVars, pollVars, copyVars, actCh, actClosed, active, stopped, succeeded,
                 mainVars, status>>

\* main.go asks BuiltOK about each build-only host.
Judge(d) ==
  /\ returned /\ d \in BuildOnly \ judged
  /\ judged' = judged \cup {d}
  /\ \/ BuiltOK(d, TRUE) /\ UNCHANGED buildFailed
     \/ BuiltOK(d, FALSE) /\ buildFailed' = buildFailed \cup {d}
  /\ UNCHANGED <<buildVars, pollVars, copyVars, actVars, onFailure, todo, upToDate, status>>

\* The process is about to exit.
Finished == returned /\ judged = BuildOnly /\ UNCHANGED vars

-----------------------------------------------------------------------------
Build == BuildExits \/ \E d \in HostSet \cup BuildOnly : BuildOne(d)
Poll == PollEmpty \/ PollSelect \/ PollHost \/ PollSwept \/ PollUnbuilt \/ PollFinal
Copy(w) == CopyTake(w) \/ CopyEnds(w) \/ CopySend(w) \/ CopyExits(w)
Activate == ActTake \/ ActEnds \/ Return \/ \E d \in BuildOnly : Judge(d)

Next ==
  \/ Build
  \/ Poll
  \/ \E w \in Workers : Copy(w)
  \/ CloseActCh
  \/ Activate
  \/ Finished

Spec == Init /\ [][Next]_vars

\* Each goroutine keeps running; build, copy and deploy have timeouts, so all end.
Fairness ==
  /\ WF_vars(BuildExits) /\ WF_vars(Poll) /\ WF_vars(CloseActCh) /\ WF_vars(Activate)
  /\ \A w \in Workers : WF_vars(Copy(w))

FairSpec == Spec /\ Fairness

-----------------------------------------------------------------------------
(***************************************************************************)
(* Properties.                                                             *)
(***************************************************************************)

\* A host enters Deploy only once its closure is in its own store: the window
\* under the watchdog never waits for a transfer (pipeline.go 135-143).
ActivatesCopied == active # None => active \in onTarget

\* The poller and the workers never wait for room: both channels hold every
\* host (pipeline.go 69-70, "no stage can block another").
NeverBlocks ==
  /\ poller \in {"sweep", "final"} /\ left # <<>> => Len(copyCh) < Capacity
  /\ \A w \in Workers : sending[w] # None => Len(actCh) < Capacity

\* Statuses start out as Deployed, so a host the stages lost would be reported
\* deployed.  When RunPipeline returns, exactly the hosts whose Deploy returned
\* true have that status (pipeline.go 89-95).
ReportedDeployedIsDeployed ==
  returned => \A h \in todo : status[h] = "Deployed" <=> h \in succeeded

\* A status, once it says that something went wrong, is final: no stage
\* overwrites another's verdict.
FailureIsFinal ==
  [][\A h \in HostSet : status[h] # "Deployed" => status'[h] = status[h]]_vars

\* RunPipeline returns and main reaches its summary.
Terminates == <>(returned /\ judged = BuildOnly)

\* The pipeline implements the serial rollout.
OutcomeOf(h) ==
  CASE h = active                 -> "active"
    [] h \in succeeded            -> "deployed"
    [] status[h] = "Cancelled"    -> "cancelled"
    [] status[h] \in {"BuildFailed", "CopyFailed"} -> "dropped"
    [] status[h] = "DeployFailed" -> "failed"
    [] OTHER                      -> "pending"

R == INSTANCE Rollout WITH
       Hosts <- HostSet, outcome <- [h \in HostSet |-> OutcomeOf(h)],
       halted <- stopped, stopOnFailure <- (onFailure = "stop")

\* One host at a time, each at most once, none after a failure that stops
\* (pipeline.go 207-242).
ImplementsRollout == R!Spec

-----------------------------------------------------------------------------
(***************************************************************************)
(* What the documentation claims, and the code does not do.                *)
(***************************************************************************)

\* pipeline.go 75-76: build-only derivations "join the one fleet build and go
\* no further; the caller checks whether they were built" - so a host is
\* reported as a failed build only once the build is over.
VerdictAfterBuild == buildFailed # {} => buildDone
=============================================================================
