------------------------------- MODULE SshMux --------------------------------
(***************************************************************************)
(* The shared ssh connections of one deploy process: SSHControl, SSHRun,   *)
(* SSHRunOnce, SSHRunDirect and Drop of src/deployment/ssh.go, the calls   *)
(* of nix that ride the same master (copy.go, deploy.go), and the two      *)
(* callers of Close: run's defer and the signal handler (main.go).         *)
(*                                                                         *)
(* The calls for one host follow one another (probe, copy, activation);    *)
(* calls for different hosts, the network, the masters' own timers and the *)
(* signal handler interleave freely.  A remote command that is reached     *)
(* answers within its timeout.                                             *)
(***************************************************************************)
EXTENDS Naturals

CONSTANTS
  Hosts,
  Attempts   \* how often SSHRun dials: 2

ASSUME SshMuxAssumption == Attempts \in Nat \ {0}

\* SSHRun; SSHRunOnce and nix copy, which rides the master through NIX_SSHOPTS;
\* nixos-rebuild, which does so too; SSHRunDirect.
Kinds == {"run", "once", "rebuild", "direct"}
Closers == {"main", "handler"}
Masters == {"none", "live", "stale"}

VARIABLES
  mux,      \* multiplexing is on (DEPLOY_NO_SSH_MUX is not set)
  net,      \* hosts the network reaches
  master,   \* per host: the master on its control socket; stale: its TCP is gone
  orphan,   \* per host: a master whose socket has been unlinked
  keepalive,\* hosts whose master, or orphan, was dialled with ServerAliveInterval
  unheeded, \* history: hosts whose master an "ssh -O exit" has not ended
  raced,    \* history: hosts dialled after a Close had listed the sockets
  dir,      \* the socket directory exists
  call,     \* per host: the call in progress, or "none"
  attempt,  \* per host: how often this call has dialled
  session,  \* per host: "none", "mux" (on a master), "own", "cut" or "drop" (about to drop it)
  sawDown,  \* history, per host: the network was down during this attempt
  proc,     \* "running", "closing" (run has returned), "exited" or "killed"
  signalled,\* the handler took a signal, or one killed the process
  pending,  \* per closer: sockets Close has found and not yet closed
  stage     \* per closer: "off", "exits" or "removed"

netVars == <<net, sawDown>>
masterVars == <<master, orphan, dir>>
dialVars == <<keepalive, unheeded, raced>>
callVars == <<call, attempt, session>>
closeVars == <<pending, stage>>
vars == <<mux, netVars, masterVars, dialVars, callVars, proc, signalled, closeVars>>

TypeOK ==
  /\ mux \in BOOLEAN /\ net \subseteq Hosts
  /\ master \in [Hosts -> Masters] /\ orphan \in [Hosts -> Masters] /\ dir \in BOOLEAN
  /\ keepalive \subseteq Hosts /\ unheeded \subseteq Hosts /\ raced \subseteq Hosts
  /\ call \in [Hosts -> Kinds \cup {"none"}] /\ attempt \in [Hosts -> 0 .. Attempts]
  /\ session \in [Hosts -> {"none", "mux", "own", "cut", "drop"}]
  /\ sawDown \in [Hosts -> BOOLEAN]
  /\ proc \in {"running", "closing", "exited", "killed"} /\ signalled \in BOOLEAN
  /\ pending \in [Closers -> SUBSET Hosts]
  /\ stage \in [Closers -> {"off", "exits", "removed"}]

\* NewSSHControl: the directory exists exactly when multiplexing is on.
Init ==
  /\ mux \in BOOLEAN /\ dir = mux
  /\ net \in SUBSET Hosts
  /\ master = [h \in Hosts |-> "none"] /\ orphan = [h \in Hosts |-> "none"]
  /\ keepalive = {} /\ unheeded = {} /\ raced = {}
  /\ call = [h \in Hosts |-> "none"] /\ attempt = [h \in Hosts |-> 0]
  /\ session = [h \in Hosts |-> "none"] /\ sawDown = [h \in Hosts |-> FALSE]
  /\ proc = "running" /\ signalled = FALSE
  /\ pending = [c \in Closers |-> {}] /\ stage = [c \in Closers |-> "off"]

-----------------------------------------------------------------------------
(***************************************************************************)
(* The network and the masters.                                            *)
(***************************************************************************)

\* A connection that loses its TCP session.
Broken(m) == IF m = "live" THEN "stale" ELSE m

\* The network goes away.  Connections may survive it (a link flap) or not (a
\* networkd restart, a reboot).
NetDown(h) ==
  /\ h \in net
  /\ net' = net \ {h} /\ sawDown' = [sawDown EXCEPT ![h] = session[h] # "none"]
  /\ \/ UNCHANGED <<master, orphan, session>>
     \/ /\ master' = [master EXCEPT ![h] = Broken(@)]
        /\ orphan' = [orphan EXCEPT ![h] = Broken(@)]
        /\ session' = [session EXCEPT ![h] = IF @ = "own" THEN "cut" ELSE @]
  /\ UNCHANGED <<mux, dir, dialVars, call, attempt, proc, signalled, closeVars>>

NetUp(h) ==
  /\ h \notin net
  /\ net' = net \cup {h}
  /\ UNCHANGED <<mux, sawDown, masterVars, dialVars, callVars, proc, signalled, closeVars>>

\* The sessions a master carries end with it.
CutMux(h) == session' = [session EXCEPT ![h] = IF @ = "mux" THEN "cut" ELSE @]

\* ServerAliveInterval: a master dialled with it exits when its peer does not
\* answer, and unlinks its socket if it still has one.
Notice(h) ==
  /\ h \in keepalive
  /\ \/ master[h] = "stale" /\ master' = [master EXCEPT ![h] = "none"] /\ UNCHANGED orphan
     \/ orphan[h] = "stale" /\ orphan' = [orphan EXCEPT ![h] = "none"] /\ UNCHANGED master
  /\ CutMux(h)
  /\ UNCHANGED <<mux, netVars, dir, dialVars, call, attempt, proc, signalled, closeVars>>

\* ControlPersist: a master that carries no session exits after a while.
Persist(h) ==
  /\ session[h] # "mux"
  /\ \/ master[h] # "none" /\ master' = [master EXCEPT ![h] = "none"] /\ UNCHANGED orphan
     \/ orphan[h] # "none" /\ orphan' = [orphan EXCEPT ![h] = "none"] /\ UNCHANGED master
  /\ UNCHANGED <<mux, netVars, dir, dialVars, callVars, proc, signalled, closeVars>>

-----------------------------------------------------------------------------
(***************************************************************************)
(* The calls.                                                              *)
(***************************************************************************)

\* A goroutine of run starts a call for a host no other call is busy with.
Start(h, k) ==
  /\ proc = "running" /\ call[h] = "none"
  /\ call' = [call EXCEPT ![h] = k]
  /\ UNCHANGED <<mux, netVars, masterVars, dialVars, attempt, session, proc, signalled, closeVars>>

Shared(h) == mux /\ call[h] # "direct"

\* A call becomes the master of its host.  SSHRun and nix copy pass
\* ServerAliveInterval; NIX_SSHOPTS of nixos-rebuild does not (NixSSHOpts).
Dials(h) ==
  /\ master[h] = "none" /\ h \in net /\ dir
  /\ session' = [session EXCEPT ![h] = "mux"] /\ master' = [master EXCEPT ![h] = "live"]
  /\ keepalive' = IF call[h] = "rebuild" THEN keepalive \ {h} ELSE keepalive \cup {h}
  /\ unheeded' = unheeded \ {h}
  /\ raced' = IF \E c \in Closers : stage[c] # "off" THEN raced \cup {h} ELSE raced

\* ssh starts: on the master if there is a socket, live or not; else it dials,
\* and with ControlMaster=auto becomes the master.  Without the directory it
\* cannot bind its socket and gives up.
Connect(h) ==
  /\ call[h] # "none" /\ session[h] = "none"
  /\ attempt' = [attempt EXCEPT ![h] = @ + 1]
  /\ sawDown' = [sawDown EXCEPT ![h] = h \notin net]
  /\ \/ Shared(h) /\ Dials(h)
     \/ /\ \/ /\ Shared(h) /\ master[h] # "none"
              /\ session' = [session EXCEPT ![h] = "mux"]
           \/ /\ ~Shared(h) /\ h \in net
              /\ session' = [session EXCEPT ![h] = "own"]
           \/ /\ (Shared(h) => master[h] = "none" /\ (dir => h \notin net))
              /\ (~Shared(h) => h \notin net)
              /\ session' = [session EXCEPT ![h] = "cut"]
        /\ UNCHANGED <<master, dialVars>>
  /\ UNCHANGED <<mux, net, orphan, dir, call, proc, signalled, closeVars>>

Returns(h) ==
  /\ call' = [call EXCEPT ![h] = "none"] /\ attempt' = [attempt EXCEPT ![h] = 0]
  /\ session' = [session EXCEPT ![h] = "none"] /\ sawDown' = [sawDown EXCEPT ![h] = FALSE]

\* The connection that carries the session works.
Carries(h) ==
  \/ session[h] = "own" /\ h \in net
  \/ session[h] = "mux" /\ h \in net /\ "live" \in {master[h], orphan[h]}

\* About to drop the master, before a redial or after nixos-rebuild.
WillDrop(h) == session' = [session EXCEPT ![h] = "drop"] /\ UNCHANGED <<call, attempt, sawDown>>

\* Fault: the master of nixos-rebuild is kept for the calls after it.
AnswerKept(h) ==
  /\ Carries(h)
  /\ Returns(h)
  /\ UNCHANGED <<mux, net, masterVars, dialVars, proc, signalled, closeVars>>

\* The call's command is done.  deployUnsafe drops the master of nixos-rebuild,
\* whatever its result.
Answer(h) ==
  /\ Carries(h)
  /\ IF call[h] = "rebuild" /\ mux THEN WillDrop(h) ELSE Returns(h)
  /\ UNCHANGED <<mux, net, masterVars, dialVars, proc, signalled, closeVars>>

\* Fault: SSHRun redials for as long as it takes.
RedialAlways(h) == call[h] = "run" /\ mux

\* SSHRun redials once, and only when there is a master to discard.
Redial(h) == call[h] = "run" /\ mux /\ attempt[h] < Attempts

\* transportFailed: ssh exits with 255, or the call's timeout ends the wait on a
\* connection that does not answer.
TransportFails(h) ==
  /\ session[h] \in {"mux", "own", "cut"} /\ ~Carries(h)
  /\ IF Redial(h) \/ (call[h] = "rebuild" /\ mux) THEN WillDrop(h) ELSE Returns(h)
  /\ UNCHANGED <<mux, net, masterVars, dialVars, proc, signalled, closeVars>>

\* ssh -O exit over the control socket.  Nobody looks at its result: it may have
\* no effect, or none within its five seconds.
ExitMaster(h) ==
  \/ master' = [master EXCEPT ![h] = "none"] /\ UNCHANGED dialVars
  \/ /\ master[h] # "none"
     /\ unheeded' = unheeded \cup {h}
     /\ UNCHANGED <<master, keepalive, raced>>

\* After the drop nixos-rebuild is done, and SSHRun dials again.
AfterDrop(h) ==
  /\ session[h] = "drop"
  /\ IF call[h] = "rebuild"
       THEN Returns(h)
       ELSE session' = [session EXCEPT ![h] = "none"] /\ UNCHANGED <<call, attempt, sawDown>>

\* Fault: SSHRun dials again without discarding the master.
DropAndGoUndropped(h) ==
  /\ AfterDrop(h)
  /\ IF call[h] = "rebuild" THEN ExitMaster(h) ELSE UNCHANGED <<master, dialVars>>
  /\ UNCHANGED <<mux, net, orphan, dir, proc, signalled, closeVars>>

\* SSHRun's Drop between its two attempts, and deployUnsafe's after nixos-rebuild.
DropAndGo(h) ==
  /\ AfterDrop(h)
  /\ ExitMaster(h)
  /\ UNCHANGED <<mux, net, orphan, dir, proc, signalled, closeVars>>

\* A Drop of the caller's: after activation, a reboot, a failed check, and when
\* the run is done with the host.
Drop(h) ==
  /\ proc = "running" /\ call[h] = "none" /\ mux
  /\ ExitMaster(h)
  /\ UNCHANGED <<mux, netVars, orphan, dir, callVars, proc, signalled, closeVars>>

-----------------------------------------------------------------------------
(***************************************************************************)
(* Close, and the two that call it.                                        *)
(***************************************************************************)

\* The handler takes SIGINT or SIGTERM; once run's defers have begun it is gone.
Signal ==
  /\ proc = "running" /\ ~signalled
  /\ signalled' = TRUE
  /\ UNCHANGED <<mux, netVars, masterVars, dialVars, callVars, proc, closeVars>>

\* run returns: every goroutine that makes calls has ended, and the deferred
\* uninstall of the handler comes before the deferred Close.
RunReturns ==
  /\ proc = "running" /\ \A h \in Hosts : call[h] = "none"
  /\ proc' = "closing"
  /\ UNCHANGED <<mux, netVars, masterVars, dialVars, callVars, signalled, closeVars>>

MayClose(c) == proc \notin {"exited", "killed"} /\ (IF c = "main" THEN proc = "closing" ELSE signalled)

\* Fault: Close only removes the directory.
CloseGlobNothing(c) ==
  /\ MayClose(c) /\ stage[c] = "off"
  /\ stage' = [stage EXCEPT ![c] = "exits"] /\ pending' = [pending EXCEPT ![c] = {}]
  /\ UNCHANGED <<mux, netVars, masterVars, dialVars, callVars, proc, signalled>>

\* Close lists the sockets there are.
CloseGlob(c) ==
  /\ MayClose(c) /\ stage[c] = "off"
  /\ stage' = [stage EXCEPT ![c] = "exits"]
  /\ pending' = [pending EXCEPT ![c] = {h \in Hosts : mux /\ master[h] # "none"}]
  /\ UNCHANGED <<mux, netVars, masterVars, dialVars, callVars, proc, signalled>>

\* ... tells the master of each to exit ...
CloseExit(c) ==
  /\ MayClose(c) /\ stage[c] = "exits"
  /\ \E h \in pending[c] :
       /\ pending' = [pending EXCEPT ![c] = @ \ {h}]
       /\ ExitMaster(h)
       /\ IF master'[h] # master[h] THEN CutMux(h) ELSE UNCHANGED session
  /\ UNCHANGED <<mux, netVars, orphan, dir, call, attempt, proc, signalled, stage>>

\* ... and removes the directory; a master that appeared meanwhile runs on
\* without its socket.
CloseRemove(c) ==
  /\ MayClose(c) /\ stage[c] = "exits" /\ pending[c] = {}
  /\ stage' = [stage EXCEPT ![c] = "removed"]
  /\ dir' = FALSE
  /\ orphan' = [h \in Hosts |-> IF master[h] # "none" THEN master[h] ELSE orphan[h]]
  /\ master' = [h \in Hosts |-> "none"]
  /\ UNCHANGED <<mux, netVars, dialVars, callVars, proc, signalled, pending>>

\* os.Exit, by main or by the handler.  ssh processes in flight are not killed.
Exit(c) ==
  /\ MayClose(c) /\ stage[c] = "removed"
  /\ proc' = "exited"
  /\ UNCHANGED <<mux, netVars, masterVars, dialVars, callVars, signalled, closeVars>>

\* SIGKILL at any time, or SIGINT once the handler is uninstalled: no Close.
Kill ==
  /\ proc \notin {"exited", "killed"}
  /\ proc' = "killed" /\ signalled' = TRUE
  /\ UNCHANGED <<mux, netVars, masterVars, dialVars, callVars, closeVars>>

\* An ssh process that outlived the deployer ends: nobody redials for it.
Outlived(h) ==
  /\ proc \in {"exited", "killed"} /\ call[h] # "none"
  /\ Returns(h)
  /\ UNCHANGED <<mux, net, masterVars, dialVars, proc, signalled, closeVars>>

-----------------------------------------------------------------------------
Call(h) == Connect(h) \/ Answer(h) \/ TransportFails(h) \/ DropAndGo(h)
Close(c) == CloseGlob(c) \/ CloseExit(c) \/ CloseRemove(c) \/ Exit(c)

Next ==
  \/ \E h \in Hosts :
       \/ NetDown(h) \/ NetUp(h) \/ Notice(h) \/ Persist(h)
       \/ proc \notin {"exited", "killed"} /\ Call(h)
       \/ Drop(h) \/ Outlived(h) \/ \E k \in Kinds : Start(h, k)
  \/ Signal \/ RunReturns \/ Kill
  \/ \E c \in Closers : Close(c)

Spec == Init /\ [][Next]_vars

-----------------------------------------------------------------------------
(***************************************************************************)
(* Properties.                                                             *)
(***************************************************************************)

\* "A drop costs a reconnect instead of a failed deploy step": with the masters
\* on, an SSHRun fails for want of a connection only if the network failed
\* during its last attempt, if the master it was to discard did not heed its
\* exit, or if the process is being interrupted (ssh.go 206-220).
RedialSurvives ==
  [][\A h \in Hosts :
       call[h] = "run" /\ call'[h] = "none" /\ ~Carries(h) /\ mux /\ ~signalled'
         => sawDown[h] \/ h \in unheeded]_vars

\* "ServerAliveInterval ensures the client notices a dead control socket in ~15s":
\* no call rides a master without it, although nixos-rebuild dials such masters
\* for all, but for nixos-rebuild itself and for one that would not exit
\* (ssh.go 83-99, 170-173, deploy.go 218-221).
SessionsNotice ==
  \A h \in Hosts : session[h] = "mux" /\ h \notin keepalive => call[h] = "rebuild" \/ h \in unheeded

\* However the two Closes, the calls and the signal interleave, a process that
\* exits leaves no directory and no socket, and no master process either but
\* one that would not exit, or one dialled after an interrupt's Close had listed
\* the sockets: what ControlPersist is "the backstop" for (ssh.go 123-147,
\* main.go 101-103, 288-302).
ExitLeavesOnlyRaced ==
  proc = "exited" =>
    /\ ~dir
    /\ \A h \in Hosts :
         master[h] = "none" /\ (orphan[h] # "none" => h \in unheeded \/ (signalled /\ h \in raced))
=============================================================================
