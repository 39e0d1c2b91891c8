-------------------------- MODULE HostDeployProofs --------------------------
(***************************************************************************)
(* Safety of the watchdog-protected flow for any set of generations, any   *)
(* number of runs and any of the faults HostDeploy models.                 *)
(***************************************************************************)
EXTENDS HostDeploy, TLAPS

-----------------------------------------------------------------------------
(***************************************************************************)
(* Type correctness.                                                       *)
(***************************************************************************)

\* The host's part of TypeOK.
HostTypeOK ==
  /\ current \in Gens /\ profile \in Gens /\ bootEntry \in Gens /\ booted \in Gens
  /\ power \in {"up", "stopping", "down"}
  /\ timers \subseteq Units
  /\ late \subseteq Commands
  /\ downs \subseteq {"watchdog", "stale", "crash", "reboot"}

\* What one ssh call of the current run may do to the host.
Sent(op) == Ran(Cmd(op)) \/ NeverRan \/ StillRunning(Cmd(op))

\* The fields of the current run's command.
LEMMA CmdType ==
  ASSUME TypeOK, run \in Units, NEW op \in Ops
  PROVE  /\ Cmd(op) \in Commands
         /\ Cmd(op).op = op /\ Cmd(op).unit = run /\ Cmd(op).path = target
BY DEF TypeOK, Cmd, Commands

\* Running a well-typed command (Exec) keeps the host well typed.
LEMMA ExecType ==
  ASSUME TypeOK, NEW c \in Commands, Exec(c), late' \subseteq late
  PROVE  HostTypeOK'
BY DEF TypeOK, HostTypeOK, Commands, Exec

\* Neither does an ssh call, whatever becomes of it.
LEMMA SentType ==
  ASSUME TypeOK, run \in Units, NEW op \in Ops, Sent(op)
  PROVE  HostTypeOK'
<1>1. Cmd(op) \in Commands
  BY CmdType
<1>2. CASE Ran(Cmd(op))
  BY <1>1, <1>2, ExecType DEF Ran
<1>3. CASE NeverRan
  BY <1>3 DEF NeverRan, TypeOK, HostTypeOK, hostVars, genVars
<1>4. CASE StillRunning(Cmd(op))
  BY <1>1, <1>4 DEF StillRunning, TypeOK, HostTypeOK, genVars
<1> QED
  BY <1>2, <1>3, <1>4 DEF Sent

\* applyReboot goes on with the reboot or without it.
LEMMA ApplyRebootGoes ==
  ASSUME NEW changed, ApplyReboot(changed)
  PROVE  Goto("k8s") \/ Goto("reboot")
BY Zenon DEF ApplyReboot

\* TypeOK is inductive: every step of the deployer and of the host keeps it.
LEMMA TypeStep == TypeOK /\ [Next]_vars => TypeOK'
<1> SUFFICES ASSUME TypeOK, [Next]_vars PROVE TypeOK'
  OBVIOUS
<1> USE ConstantsAssumption
<1>1. CASE \E m \in Modes, f \in Flags, g \in Gens : Start(m, f, g)
  <2> PICK m \in Modes, f \in Flags, g \in Gens : Start(m, f, g)
    BY <1>1
  <2>1. m \in {"safe", "switch", "boot"} /\ f \in {"never", "auto", "always", "ask"}
    OBVIOUS
  <2>2. run' \in Units /\ run' \in 0 .. MaxRuns
    BY DEF Start, TypeOK, Units
  <2>3. upToDate' \in BOOLEAN /\ timedOut' \in BOOLEAN
    BY Zenon DEF Start
  <2>4. pc' \in Steps /\ attempt' \in 1 .. 3
    BY DEF Start, Steps
  <2> QED
    BY <2>1, <2>2, <2>3, <2>4 DEF Start, TypeOK, genVars
<1>2. CASE DeployStep
  <2> USE DEF Steps, SafeSteps, TailSteps
  <2>1. CASE CleanupStaleUnits
    <3>1. run \in Units /\ Sent("cleanup") /\ "cleanup" \in Ops
      BY <2>1 DEF CleanupStaleUnits, TypeOK, AtPlain, At, SSHRun, SSHRunOnce, Sent, Ops
    <3>2. HostTypeOK'
      BY <3>1, SentType
    <3> QED
      BY <2>1, <3>1, <3>2 DEF CleanupStaleUnits, TypeOK, HostTypeOK, AtPlain, At, planVars, localVars,
         SSHRun, Redial, SSHRunOnce, Goto, Return
  <2>2. CASE ArmWatchdog
    <3>1. run \in Units /\ Sent("arm") /\ "arm" \in Ops
      BY <2>2 DEF ArmWatchdog, TypeOK, AtPlain, At, SSHRunOnce, Sent, Ops
    <3>2. HostTypeOK'
      BY <3>1, SentType
    <3> QED
      BY <2>2, <3>1, <3>2 DEF ArmWatchdog, TypeOK, HostTypeOK, AtPlain, At, planVars, localVars,
         SSHRunOnce, Goto, Return
  <2>3. CASE DisarmAbort
    <3>1. run \in Units /\ Sent("disarm") /\ "disarm" \in Ops
      BY <2>3 DEF DisarmAbort, TypeOK, AtPlain, At, SSHRun, SSHRunOnce, Sent, Ops
    <3>2. HostTypeOK'
      BY <3>1, SentType
    <3> QED
      BY <2>3, <3>1, <3>2 DEF DisarmAbort, TypeOK, HostTypeOK, AtPlain, At, planVars, localVars,
         SSHRun, Redial, SSHRunOnce, Goto, Return
  <2>4. CASE Activate
    <3>1. run \in Units /\ Sent("test") /\ "test" \in Ops
      BY <2>4 DEF Activate, TypeOK, AtPlain, At, SSHRunOnce, Sent, Ops
    <3>2. HostTypeOK'
      BY <3>1, SentType
    <3> QED
      BY <2>4, <3>1, <3>2 DEF Activate, TypeOK, HostTypeOK, AtPlain, At, planVars, localVars,
         SSHRunOnce, Goto, Return
  <2>5. CASE Release
    <3>1. run \in Units /\ Sent("disarm") /\ "disarm" \in Ops
      BY <2>5 DEF Release, TypeOK, AtPlain, At, SSHRun, SSHRunOnce, Sent, Ops
    <3>2. HostTypeOK'
      BY <3>1, SentType
    <3> QED
      BY <2>5, <3>1, <3>2 DEF Release, TypeOK, HostTypeOK, AtPlain, At, planVars, localVars,
         SSHRun, Redial, SSHRunOnce, Goto, Return
  <2>6. CASE SetProfile
    <3>1. run \in Units /\ Sent("setProfile") /\ "setProfile" \in Ops
      BY <2>6 DEF SetProfile, TypeOK, AtPlain, At, SSHRun, SSHRunOnce, Sent, Ops
    <3>2. HostTypeOK'
      BY <3>1, SentType
    <3> QED
      BY <2>6, <3>1, <3>2 DEF SetProfile, TypeOK, HostTypeOK, AtPlain, At, planVars, localVars,
         SSHRun, Redial, SSHRunOnce, Goto, Return
  <2>7. CASE SwitchBoot
    <3>1. run \in Units /\ Sent("boot") /\ "boot" \in Ops
      BY <2>7 DEF SwitchBoot, TypeOK, AtPlain, At, SSHRun, SSHRunOnce, Sent, Ops
    <3>2. HostTypeOK'
      BY <3>1, SentType
    <3> QED
      BY <2>7, <3>1, <3>2 DEF SwitchBoot, TypeOK, HostTypeOK, AtPlain, At, planVars, localVars,
         SSHRun, Redial, SSHRunOnce, Goto, Return
  <2>8. CASE DisarmFail
    <3>1. run \in Units /\ Sent("disarm") /\ "disarm" \in Ops
      BY <2>8 DEF DisarmFail, TypeOK, AtPlain, At, SSHRun, SSHRunOnce, Sent, Ops
    <3>2. HostTypeOK'
      BY <3>1, SentType
    <3> QED
      BY <2>8, <3>1, <3>2 DEF DisarmFail, TypeOK, HostTypeOK, AtPlain, At, planVars, localVars,
         SSHRun, Redial, SSHRunOnce, Goto, Return
  <2>9. CASE Disarm
    <3>1. run \in Units /\ Sent("disarm") /\ "disarm" \in Ops
      BY <2>9 DEF Disarm, TypeOK, AtPlain, At, SSHRun, SSHRunOnce, Sent, Ops
    <3>2. HostTypeOK'
      BY <3>1, SentType
    <3> QED
      BY <2>9, <3>1, <3>2 DEF Disarm, TypeOK, HostTypeOK, AtPlain, At, planVars, localVars,
         SSHRun, Redial, SSHRunOnce, Goto, Return
  <2>10. CASE Reboot
    <3>1. run \in Units /\ Sent("reboot") /\ "reboot" \in Ops
      BY <2>10 DEF Reboot, TypeOK, AtPlain, At, SSHRunOnce, Sent, Ops
    <3>2. HostTypeOK'
      BY <3>1, SentType
    <3> QED
      BY <2>10, <3>1, <3>2 DEF Reboot, TypeOK, HostTypeOK, AtPlain, At, planVars, localVars,
         SSHRunOnce, Goto, Return
  <2>11. CASE Reach
    BY <2>11 DEF Reach, TypeOK, AtPlain, At, NeverRan, hostVars, genVars, planVars, localVars,
       Goto, Return, Redial
  <2>12. CASE ProbeActive
    BY <2>12 DEF ProbeActive, TypeOK, At, NeverRan, hostVars, genVars, planVars, localVars,
       ReadOf, Goto, Redial
  <2>13. CASE ProbeBoot
    <3>1. upToDate' \in BOOLEAN
      BY <2>13, Zenon DEF ProbeBoot, TypeOK
    <3>2. Redial \/ Goto("detect") \/ Goto("cleanup")
      BY <2>13, Zenon DEF ProbeBoot
    <3>3. At("probeBoot") /\ NeverRan /\ UNCHANGED <<prior, timedOut>>
      BY <2>13 DEF ProbeBoot
    <3> QED
      BY <3>1, <3>2, <3>3 DEF TypeOK, At, NeverRan, hostVars, genVars, planVars, Goto, Redial
  <2>14. CASE Settle
    <3>1. timedOut' \in BOOLEAN
      BY <2>14, Zenon DEF Settle, TypeOK
    <3>2. Goto("verifySsh") \/ Return(FALSE)
      BY <2>14, Zenon DEF Settle
    <3>3. At("settle") /\ NeverRan /\ UNCHANGED <<prior, upToDate>>
      BY <2>14 DEF Settle
    <3> QED
      BY <3>1, <3>2, <3>3 DEF TypeOK, At, NeverRan, hostVars, genVars, planVars, Goto, Return
  <2>15. CASE VerifySsh
    BY <2>15 DEF VerifySsh, TypeOK, AtPlain, At, NeverRan, hostVars, genVars, planVars, localVars,
       NextAttempt, Return
  <2>16. CASE VerifyNet
    BY <2>16 DEF VerifyNet, TypeOK, AtPlain, At, NeverRan, hostVars, genVars, planVars, localVars,
       NextAttempt, Goto, Return
  <2>17. CASE CheckPath
    BY <2>17 DEF CheckPath, TypeOK, AtPlain, At, NeverRan, hostVars, genVars, planVars, localVars,
       ReadOf, Goto, Return, Redial
  <2>18. CASE ClearRebuildUnit
    BY <2>18 DEF ClearRebuildUnit, TypeOK, AtPlain, At, NeverRan, hostVars, genVars, planVars, localVars,
       Goto, Redial
  <2>19. CASE HandleReboot
    <3>1. Goto("k8s") \/ Goto("reboot")
      BY <2>19, ApplyRebootGoes, Zenon DEF HandleReboot
    <3>2. AtPlain("detect") /\ NeverRan
      BY <2>19 DEF HandleReboot
    <3> QED
      BY <3>1, <3>2 DEF TypeOK, AtPlain, At, NeverRan, hostVars, genVars, planVars, localVars, Goto
  <2>20. CASE RebootWait
    BY <2>20 DEF RebootWait, TypeOK, AtPlain, At, NeverRan, hostVars, genVars, planVars, localVars,
       Goto, Return
  <2>21. CASE WaitForK8sReady
    BY <2>21 DEF WaitForK8sReady, TypeOK, AtPlain, At, NeverRan, hostVars, genVars, planVars, localVars,
       Return
  <2>22. CASE Rebuild
    <3>1. Return(FALSE) \/ Goto("detect") \/ Goto("k8s") \/ Goto("reboot")
      BY <2>22, ApplyRebootGoes, Zenon DEF Rebuild
    <3>2. AtPlain("rebuild") /\ UNCHANGED <<booted, power, timers, late, downs>>
      BY <2>22 DEF Rebuild
    <3>3. PICK done \in 0 .. 3 :
            /\ profile' = IF done >= 1 THEN target ELSE profile
            /\ bootEntry' = IF done >= 2 THEN target ELSE bootEntry
            /\ current' = IF done = 3 THEN target ELSE current
      BY <2>22, Zenon DEF Rebuild
    <3>4. profile' \in Gens /\ bootEntry' \in Gens /\ current' \in Gens
      BY <3>3, Zenon DEF TypeOK
    <3> QED
      BY <3>1, <3>2, <3>4 DEF TypeOK, AtPlain, At, planVars, localVars, Goto, Return
  <2> QED
    BY <1>2, <2>1, <2>2, <2>3, <2>4, <2>5, <2>6, <2>7, <2>8, <2>9, <2>10, <2>11, <2>12, <2>13, <2>14, <2>15, <2>16, <2>17, <2>18, <2>19, <2>20, <2>21, <2>22 DEF DeployStep
<1>3. CASE Interrupt
  BY <1>3 DEF Interrupt, TypeOK, Steps, hostVars, genVars, planVars, localVars
<1>4. CASE \E u \in Units : WatchdogFires(u)
  BY <1>4 DEF WatchdogFires, TypeOK, genVars, planVars, localVars
<1>5. CASE GoesDown
  BY <1>5 DEF GoesDown, TypeOK, genVars, planVars, localVars
<1>6. CASE Crash
  BY <1>6 DEF Crash, TypeOK, genVars, planVars, localVars
<1>7. CASE ComesUp
  BY <1>7 DEF ComesUp, TypeOK, planVars, localVars
<1>8. CASE \E c \in late : LateLands(c)
  <2> PICK c \in late : LateLands(c)
    BY <1>8
  <2>1. c \in Commands /\ Exec(c) /\ late' \subseteq late
    BY DEF TypeOK, LateLands
  <2>2. HostTypeOK'
    BY <2>1, ExecType
  <2> QED
    BY <2>2 DEF LateLands, TypeOK, HostTypeOK, planVars, localVars
<1>9. CASE UNCHANGED vars
  BY <1>9 DEF vars, TypeOK, hostVars, genVars, planVars, localVars
<1> QED
  BY <1>1, <1>2, <1>3, <1>4, <1>5, <1>6, <1>7, <1>8, <1>9 DEF Next, HostStep

\* Every reachable state is well typed.
THEOREM TypeCorrect == Spec => []TypeOK
<1>1. Init => TypeOK
  <2> SUFFICES ASSUME Init PROVE TypeOK
    OBVIOUS
  <2>1. upToDate \in BOOLEAN /\ timedOut \in BOOLEAN
    BY Zenon DEF Init
  <2> QED
    BY <2>1, ConstantsAssumption DEF Init, TypeOK, Steps
<1> QED
  BY <1>1, TypeStep, PTL DEF Spec
-----------------------------------------------------------------------------
(***************************************************************************)
(* The generations of the safe flow.                                       *)
(***************************************************************************)

\* What one ssh call of the current run may change on the host: each op
\* touches its own piece of state, and only on a host that was reachable.
LEMMA SentEffect ==
  ASSUME TypeOK, run \in Units, NEW op \in Ops, Sent(op)
  PROVE  /\ bootEntry' = bootEntry \/ (op = "boot" /\ bootEntry' = target)
         /\ current' = current \/ op = "test"
         /\ late' = late \/ (op \in LateCommands /\ late' = late \cup {Cmd(op)})
         /\ \/ timers' = timers
            \/ op = "arm" /\ timers' = timers \cup {run}
            \/ op \in {"disarm", "cleanup"} /\ Reachable
         /\ power' = power \/ power' = "stopping"
<1>1. Cmd(op).op = op /\ Cmd(op).unit = run /\ Cmd(op).path = target
  BY CmdType
<1>2. CASE Ran(Cmd(op))
  BY <1>1, <1>2 DEF Ran, Exec, Ops
<1>3. CASE NeverRan
  BY <1>3 DEF NeverRan, hostVars, genVars
<1>4. CASE StillRunning(Cmd(op))
  BY <1>1, <1>4 DEF StillRunning, genVars
<1> QED
  BY <1>2, <1>3, <1>4 DEF Sent

Bad == Unreachable \cup Degraded

\* Why only a healthy generation is ever installed as the boot default: past
\* VerifyConnectivity the active generation is healthy, past verifyActivePath
\* it is the target, and a boot installation still running on the host when
\* its client gave up installs a target that had come that far.
SafeInv ==
  /\ bootEntry \notin Bad
  /\ pc = "checkPath" => current \notin Bad
  /\ pc \in {"clearUnit", "setProfile", "switchBoot"} => target \notin Bad
  /\ \A c \in late : c.op \in LateCommands /\ (c.op = "boot" => c.path \notin Bad)
  /\ mode = "safe" /\ pc # "rebuild"

\* SafeInv is inductive when every deploy is a safe one and an activation has
\* no effect once its client has given up.
LEMMA SafeStep ==
  ASSUME TypeOK, SafeInv, [Next]_vars, Modes = {"safe"}, "test" \notin LateCommands
  PROVE  SafeInv'
<1> USE ConstantsAssumption
<1>1. CASE \E m \in Modes, f \in Flags, g \in Gens : Start(m, f, g)
  BY <1>1 DEF Start, SafeInv, genVars
<1>2. CASE DeployStep
  <2>1. CASE CleanupStaleUnits
    <3>1. run \in Units /\ Sent("cleanup") /\ "cleanup" \in Ops
      BY <2>1 DEF CleanupStaleUnits, TypeOK, AtPlain, At, SSHRun, SSHRunOnce, Sent, Ops
    <3>2. Cmd("cleanup").op = "cleanup" /\ Cmd("cleanup").path = target
      BY <3>1, CmdType
    <3> QED
      BY <2>1, <3>1, <3>2, SentEffect
         DEF CleanupStaleUnits, SafeInv, AtPlain, At, planVars, SSHRun, Redial, SSHRunOnce, Goto, Return
  <2>2. CASE ArmWatchdog
    <3>1. run \in Units /\ Sent("arm") /\ "arm" \in Ops
      BY <2>2 DEF ArmWatchdog, TypeOK, AtPlain, At, SSHRunOnce, Sent, Ops
    <3>2. Cmd("arm").op = "arm" /\ Cmd("arm").path = target
      BY <3>1, CmdType
    <3> QED
      BY <2>2, <3>1, <3>2, SentEffect
         DEF ArmWatchdog, SafeInv, AtPlain, At, planVars, SSHRunOnce, Goto, Return
  <2>3. CASE DisarmAbort
    <3>1. run \in Units /\ Sent("disarm") /\ "disarm" \in Ops
      BY <2>3 DEF DisarmAbort, TypeOK, AtPlain, At, SSHRun, SSHRunOnce, Sent, Ops
    <3>2. Cmd("disarm").op = "disarm" /\ Cmd("disarm").path = target
      BY <3>1, CmdType
    <3> QED
      BY <2>3, <3>1, <3>2, SentEffect
         DEF DisarmAbort, SafeInv, AtPlain, At, planVars, SSHRun, Redial, SSHRunOnce, Goto, Return
  <2>4. CASE Activate
    <3>1. run \in Units /\ Sent("test") /\ "test" \in Ops
      BY <2>4 DEF Activate, TypeOK, AtPlain, At, SSHRunOnce, Sent, Ops
    <3>2. Cmd("test").op = "test" /\ Cmd("test").path = target
      BY <3>1, CmdType
    <3> QED
      BY <2>4, <3>1, <3>2, SentEffect
         DEF Activate, SafeInv, AtPlain, At, planVars, SSHRunOnce, Goto, Return
  <2>5. CASE Release
    <3>1. run \in Units /\ Sent("disarm") /\ "disarm" \in Ops
      BY <2>5 DEF Release, TypeOK, AtPlain, At, SSHRun, SSHRunOnce, Sent, Ops
    <3>2. Cmd("disarm").op = "disarm" /\ Cmd("disarm").path = target
      BY <3>1, CmdType
    <3> QED
      BY <2>5, <3>1, <3>2, SentEffect
         DEF Release, SafeInv, AtPlain, At, planVars, SSHRun, Redial, SSHRunOnce, Goto, Return
  <2>6. CASE SetProfile
    <3>1. run \in Units /\ Sent("setProfile") /\ "setProfile" \in Ops
      BY <2>6 DEF SetProfile, TypeOK, AtPlain, At, SSHRun, SSHRunOnce, Sent, Ops
    <3>2. Cmd("setProfile").op = "setProfile" /\ Cmd("setProfile").path = target
      BY <3>1, CmdType
    <3> QED
      BY <2>6, <3>1, <3>2, SentEffect
         DEF SetProfile, SafeInv, AtPlain, At, planVars, SSHRun, Redial, SSHRunOnce, Goto, Return
  <2>7. CASE SwitchBoot
    <3>1. run \in Units /\ Sent("boot") /\ "boot" \in Ops
      BY <2>7 DEF SwitchBoot, TypeOK, AtPlain, At, SSHRun, SSHRunOnce, Sent, Ops
    <3>2. Cmd("boot").op = "boot" /\ Cmd("boot").path = target
      BY <3>1, CmdType
    <3> QED
      BY <2>7, <3>1, <3>2, SentEffect
         DEF SwitchBoot, SafeInv, AtPlain, At, planVars, SSHRun, Redial, SSHRunOnce, Goto, Return
  <2>8. CASE DisarmFail
    <3>1. run \in Units /\ Sent("disarm") /\ "disarm" \in Ops
      BY <2>8 DEF DisarmFail, TypeOK, AtPlain, At, SSHRun, SSHRunOnce, Sent, Ops
    <3>2. Cmd("disarm").op = "disarm" /\ Cmd("disarm").path = target
      BY <3>1, CmdType
    <3> QED
      BY <2>8, <3>1, <3>2, SentEffect
         DEF DisarmFail, SafeInv, AtPlain, At, planVars, SSHRun, Redial, SSHRunOnce, Goto, Return
  <2>9. CASE Disarm
    <3>1. run \in Units /\ Sent("disarm") /\ "disarm" \in Ops
      BY <2>9 DEF Disarm, TypeOK, AtPlain, At, SSHRun, SSHRunOnce, Sent, Ops
    <3>2. Cmd("disarm").op = "disarm" /\ Cmd("disarm").path = target
      BY <3>1, CmdType
    <3> QED
      BY <2>9, <3>1, <3>2, SentEffect
         DEF Disarm, SafeInv, AtPlain, At, planVars, SSHRun, Redial, SSHRunOnce, Goto, Return
  <2>10. CASE Reboot
    <3>1. run \in Units /\ Sent("reboot") /\ "reboot" \in Ops
      BY <2>10 DEF Reboot, TypeOK, AtPlain, At, SSHRunOnce, Sent, Ops
    <3>2. Cmd("reboot").op = "reboot" /\ Cmd("reboot").path = target
      BY <3>1, CmdType
    <3> QED
      BY <2>10, <3>1, <3>2, SentEffect
         DEF Reboot, SafeInv, AtPlain, At, planVars, SSHRunOnce, Goto, Return
  <2>11. CASE Reach
    BY <2>11 DEF Reach, SafeInv, AtPlain, At, NeverRan, hostVars, genVars, planVars,
       Goto, Return, Redial
  <2>12. CASE ProbeActive
    BY <2>12 DEF ProbeActive, SafeInv, At, NeverRan, hostVars, genVars, planVars,
       Goto, Redial
  <2>13. CASE ProbeBoot
    <3>1. Redial \/ Goto("detect") \/ Goto("cleanup")
      BY <2>13, Zenon DEF ProbeBoot
    <3> QED
      BY <2>13, <3>1 DEF ProbeBoot, SafeInv, At, NeverRan, hostVars, genVars, planVars, Goto, Redial
  <2>14. CASE Settle
    BY <2>14 DEF Settle, SafeInv, At, NeverRan, hostVars, genVars, planVars,
       Goto, Return
  <2>15. CASE VerifySsh
    BY <2>15 DEF VerifySsh, SafeInv, AtPlain, At, NeverRan, hostVars, genVars, planVars,
       NextAttempt, Return
  <2>16. CASE VerifyNet
    BY <2>16 DEF VerifyNet, SafeInv, AtPlain, At, NeverRan, hostVars, genVars, planVars,
       NextAttempt, Goto, Return, Healthy, Reachable, Bad
  <2>17. CASE CheckPath
    BY <2>17 DEF CheckPath, SafeInv, AtPlain, At, NeverRan, hostVars, genVars, planVars,
       Goto, Return, Redial, ReadOf, TypeOK
  <2>18. CASE ClearRebuildUnit
    BY <2>18 DEF ClearRebuildUnit, SafeInv, AtPlain, At, NeverRan, hostVars, genVars, planVars,
       Goto, Redial
  <2>19. CASE HandleReboot
    <3>1. Goto("k8s") \/ Goto("reboot")
      BY <2>19, ApplyRebootGoes, Zenon DEF HandleReboot
    <3> QED
      BY <2>19, <3>1 DEF HandleReboot, SafeInv, AtPlain, At, NeverRan, hostVars, genVars, planVars, Goto
  <2>20. CASE RebootWait
    BY <2>20 DEF RebootWait, SafeInv, AtPlain, At, NeverRan, hostVars, genVars, planVars,
       Goto, Return
  <2>21. CASE WaitForK8sReady
    BY <2>21 DEF WaitForK8sReady, SafeInv, AtPlain, At, NeverRan, hostVars, genVars, planVars,
       Return
  <2>22. CASE Rebuild
    BY <2>22 DEF Rebuild, SafeInv, AtPlain, At
  <2> QED
    BY <1>2, <2>1, <2>2, <2>3, <2>4, <2>5, <2>6, <2>7, <2>8, <2>9, <2>10, <2>11, <2>12, <2>13, <2>14, <2>15, <2>16, <2>17, <2>18, <2>19, <2>20, <2>21, <2>22 DEF DeployStep
<1>3. CASE Interrupt
  BY <1>3 DEF Interrupt, SafeInv, hostVars, genVars, planVars
<1>4. CASE \E u \in Units : WatchdogFires(u)
  BY <1>4 DEF WatchdogFires, SafeInv, genVars, planVars
<1>5. CASE GoesDown
  BY <1>5 DEF GoesDown, SafeInv, genVars, planVars
<1>6. CASE Crash
  BY <1>6 DEF Crash, SafeInv, genVars, planVars
<1>7. CASE ComesUp
  BY <1>7 DEF ComesUp, SafeInv, planVars
<1>8. CASE \E c \in late : LateLands(c)
  BY <1>8 DEF LateLands, Exec, SafeInv, planVars
<1>9. CASE UNCHANGED vars
  BY <1>9 DEF vars, SafeInv, hostVars, genVars, planVars
<1> QED
  BY <1>1, <1>2, <1>3, <1>4, <1>5, <1>6, <1>7, <1>8, <1>9 DEF Next, HostStep

\* persistBoot never installs a generation that fails a connectivity check,
\* whatever commands are lost, retried, repeated or late (the activation
\* excepted), whenever the host crashes or a watchdog fires, and however often
\* the operator interrupts and re-runs the deploy.
THEOREM BootDefaultHealthy ==
  ASSUME Modes = {"safe"}, "test" \notin LateCommands
  PROVE  Spec => []BootEntryHealthy
<1>1. Init => SafeInv
  BY ConstantsAssumption DEF Init, SafeInv, Bad
<1>2. TypeOK /\ SafeInv /\ [Next]_vars => SafeInv'
  BY SafeStep
<1>3. SafeInv => BootEntryHealthy
  BY DEF SafeInv, BootEntryHealthy, Bad
<1> QED
  BY <1>1, <1>2, <1>3, TypeCorrect, PTL DEF Spec

-----------------------------------------------------------------------------
(***************************************************************************)
(* The watchdog.                                                           *)
(***************************************************************************)

\* Why a cut-off host always has a watchdog: the activation that can cut it
\* off is only sent while this run's own watchdog is armed, and everything
\* that takes a watchdog away is an ssh call, which needs a reachable host.
WatchInv ==
  /\ power = "up" /\ current \in Unreachable => timers # {}
  /\ power = "up" /\ pc = "activate" => run \in timers

\* WatchInv is inductive, given SafeInv: a reboot lands on a healthy default.
LEMMA WatchStep ==
  ASSUME TypeOK, SafeInv, WatchInv, [Next]_vars, Modes = {"safe"}, ~FastReboot,
         LateCommands \cap {"test", "disarm", "cleanup"} = {}
  PROVE  WatchInv'
<1>1. CASE \E m \in Modes, f \in Flags, g \in Gens : Start(m, f, g)
  BY <1>1 DEF Start, WatchInv, genVars
<1>2. CASE DeployStep
  <2>1. CASE CleanupStaleUnits
    <3>1. run \in Units /\ Sent("cleanup") /\ "cleanup" \in Ops
      BY <2>1 DEF CleanupStaleUnits, TypeOK, AtPlain, At, SSHRun, SSHRunOnce, Sent, Ops
    <3> QED
      BY <2>1, <3>1, SentEffect
         DEF CleanupStaleUnits, WatchInv, AtPlain, At, planVars, SSHRun, Redial, SSHRunOnce, Goto, Return, Reachable
  <2>2. CASE ArmWatchdog
    <3>1. run \in Units /\ Sent("arm") /\ "arm" \in Ops
      BY <2>2 DEF ArmWatchdog, TypeOK, AtPlain, At, SSHRunOnce, Sent, Ops
    <3>2. CASE pc' = "activate"
      <4>1. Ran(Cmd("arm"))
        BY <2>2, <3>2 DEF ArmWatchdog, SSHRunOnce, Goto
      <4>2. Cmd("arm").op = "arm" /\ Cmd("arm").unit = run
        BY <3>1, CmdType
      <4> QED
        BY <2>2, <4>1, <4>2 DEF ArmWatchdog, AtPlain, At, planVars, Ran, Exec, WatchInv
    <3> QED
      BY <2>2, <3>1, <3>2, SentEffect DEF ArmWatchdog, WatchInv, AtPlain, At, planVars
  <2>3. CASE DisarmAbort
    <3>1. run \in Units /\ Sent("disarm") /\ "disarm" \in Ops
      BY <2>3 DEF DisarmAbort, TypeOK, AtPlain, At, SSHRun, SSHRunOnce, Sent, Ops
    <3> QED
      BY <2>3, <3>1, SentEffect
         DEF DisarmAbort, WatchInv, AtPlain, At, planVars, SSHRun, Redial, SSHRunOnce, Goto, Return, Reachable
  <2>4. CASE Activate
    <3>1. run \in Units /\ Sent("test") /\ "test" \in Ops
      BY <2>4 DEF Activate, TypeOK, AtPlain, At, SSHRunOnce, Sent, Ops
    <3> QED
      BY <2>4, <3>1, SentEffect
         DEF Activate, WatchInv, AtPlain, At, planVars, SSHRunOnce, Goto, Return
  <2>5. CASE Release
    <3>1. run \in Units /\ Sent("disarm") /\ "disarm" \in Ops
      BY <2>5 DEF Release, TypeOK, AtPlain, At, SSHRun, SSHRunOnce, Sent, Ops
    <3> QED
      BY <2>5, <3>1, SentEffect
         DEF Release, WatchInv, AtPlain, At, planVars, SSHRun, Redial, SSHRunOnce, Goto, Return, Reachable
  <2>6. CASE SetProfile
    <3>1. run \in Units /\ Sent("setProfile") /\ "setProfile" \in Ops
      BY <2>6 DEF SetProfile, TypeOK, AtPlain, At, SSHRun, SSHRunOnce, Sent, Ops
    <3> QED
      BY <2>6, <3>1, SentEffect
         DEF SetProfile, WatchInv, AtPlain, At, planVars, SSHRun, Redial, SSHRunOnce, Goto, Return
  <2>7. CASE SwitchBoot
    <3>1. run \in Units /\ Sent("boot") /\ "boot" \in Ops
      BY <2>7 DEF SwitchBoot, TypeOK, AtPlain, At, SSHRun, SSHRunOnce, Sent, Ops
    <3> QED
      BY <2>7, <3>1, SentEffect
         DEF SwitchBoot, WatchInv, AtPlain, At, planVars, SSHRun, Redial, SSHRunOnce, Goto, Return
  <2>8. CASE DisarmFail
    <3>1. run \in Units /\ Sent("disarm") /\ "disarm" \in Ops
      BY <2>8 DEF DisarmFail, TypeOK, AtPlain, At, SSHRun, SSHRunOnce, Sent, Ops
    <3> QED
      BY <2>8, <3>1, SentEffect
         DEF DisarmFail, WatchInv, AtPlain, At, planVars, SSHRun, Redial, SSHRunOnce, Goto, Return, Reachable
  <2>9. CASE Disarm
    <3>1. run \in Units /\ Sent("disarm") /\ "disarm" \in Ops
      BY <2>9 DEF Disarm, TypeOK, AtPlain, At, SSHRun, SSHRunOnce, Sent, Ops
    <3> QED
      BY <2>9, <3>1, SentEffect
         DEF Disarm, WatchInv, AtPlain, At, planVars, SSHRun, Redial, SSHRunOnce, Goto, Return, Reachable
  <2>10. CASE Reboot
    <3>1. run \in Units /\ Sent("reboot") /\ "reboot" \in Ops
      BY <2>10 DEF Reboot, TypeOK, AtPlain, At, SSHRunOnce, Sent, Ops
    <3> QED
      BY <2>10, <3>1, SentEffect
         DEF Reboot, WatchInv, AtPlain, At, planVars, SSHRunOnce, Goto, Return
  <2>11. CASE Reach
    BY <2>11 DEF Reach, WatchInv, AtPlain, At, NeverRan, hostVars, genVars, planVars,
       Goto, Return, Redial
  <2>12. CASE ProbeActive
    BY <2>12 DEF ProbeActive, WatchInv, At, NeverRan, hostVars, genVars, planVars,
       Goto, Redial
  <2>13. CASE ProbeBoot
    <3>1. Redial \/ Goto("detect") \/ Goto("cleanup")
      BY <2>13, Zenon DEF ProbeBoot
    <3> QED
      BY <2>13, <3>1 DEF ProbeBoot, WatchInv, At, NeverRan, hostVars, genVars, planVars, Goto, Redial
  <2>14. CASE Settle
    BY <2>14 DEF Settle, WatchInv, At, NeverRan, hostVars, genVars, planVars,
       Goto, Return
  <2>15. CASE VerifySsh
    BY <2>15 DEF VerifySsh, WatchInv, AtPlain, At, NeverRan, hostVars, genVars, planVars,
       NextAttempt, Return
  <2>16. CASE VerifyNet
    BY <2>16 DEF VerifyNet, WatchInv, AtPlain, At, NeverRan, hostVars, genVars, planVars,
       NextAttempt, Goto, Return
  <2>17. CASE CheckPath
    BY <2>17 DEF CheckPath, WatchInv, AtPlain, At, NeverRan, hostVars, genVars, planVars,
       Goto, Return, Redial
  <2>18. CASE ClearRebuildUnit
    BY <2>18 DEF ClearRebuildUnit, WatchInv, AtPlain, At, NeverRan, hostVars, genVars, planVars,
       Goto, Redial
  <2>19. CASE HandleReboot
    <3>1. Goto("k8s") \/ Goto("reboot")
      BY <2>19, ApplyRebootGoes, Zenon DEF HandleReboot
    <3> QED
      BY <2>19, <3>1 DEF HandleReboot, WatchInv, AtPlain, At, NeverRan, hostVars, genVars, planVars, Goto
  <2>20. CASE RebootWait
    BY <2>20 DEF RebootWait, WatchInv, AtPlain, At, NeverRan, hostVars, genVars, planVars,
       Goto, Return
  <2>21. CASE WaitForK8sReady
    BY <2>21 DEF WaitForK8sReady, WatchInv, AtPlain, At, NeverRan, hostVars, genVars, planVars,
       Return
  <2>22. CASE Rebuild
    BY <2>22 DEF Rebuild, SafeInv, AtPlain, At
  <2> QED
    BY <1>2, <2>1, <2>2, <2>3, <2>4, <2>5, <2>6, <2>7, <2>8, <2>9, <2>10, <2>11, <2>12, <2>13, <2>14, <2>15, <2>16, <2>17, <2>18, <2>19, <2>20, <2>21, <2>22 DEF DeployStep
<1>3. CASE Interrupt
  BY <1>3 DEF Interrupt, WatchInv, hostVars, genVars, planVars
<1>4. CASE \E u \in Units : WatchdogFires(u)
  BY <1>4 DEF WatchdogFires, WatchInv
<1>5. CASE GoesDown
  BY <1>5 DEF GoesDown, WatchInv
<1>6. CASE Crash
  BY <1>6 DEF Crash, WatchInv
<1>7. CASE ComesUp
  BY <1>7 DEF ComesUp, WatchInv, SafeInv, Bad, planVars
<1>8. CASE \E c \in late : LateLands(c)
  BY <1>8 DEF LateLands, Exec, WatchInv, SafeInv, planVars
<1>9. CASE UNCHANGED vars
  BY <1>9 DEF vars, WatchInv, hostVars, genVars, planVars
<1> QED
  BY <1>1, <1>2, <1>3, <1>4, <1>5, <1>6, <1>7, <1>8, <1>9 DEF Next, HostStep

\* A host the deploy has cut off always has a live watchdog, so nothing the
\* deployer, the operator or the network does takes its recovery away.
THEOREM CutOffProtected ==
  ASSUME Modes = {"safe"}, ~FastReboot,
         LateCommands \cap {"test", "disarm", "cleanup"} = {}
  PROVE  Spec => []Protected
<1>1. Init => SafeInv /\ WatchInv
  BY ConstantsAssumption DEF Init, SafeInv, WatchInv, Bad
<1>2. "test" \notin LateCommands
  OBVIOUS
<1>3. TypeOK /\ SafeInv /\ [Next]_vars => SafeInv'
  BY <1>2, SafeStep
<1>4. TypeOK /\ SafeInv /\ WatchInv /\ [Next]_vars => WatchInv'
  BY WatchStep
<1>5. WatchInv => Protected
  BY DEF WatchInv, Protected
<1> QED
  BY <1>1, <1>3, <1>4, <1>5, TypeCorrect, PTL DEF Spec

-----------------------------------------------------------------------------
(***************************************************************************)
(* What a deploy that reports success has done, in any mode.               *)
(***************************************************************************)

\* What one ssh call of the current run may change: its own piece of state.
LEMMA SentChange ==
  ASSUME TypeOK, run \in Units, NEW op \in Ops, Sent(op)
  PROVE  /\ profile' = profile \/ (op = "setProfile" /\ profile' = target)
         /\ bootEntry' = bootEntry \/ (op = "boot" /\ bootEntry' = target)
         /\ current' = current \/ op = "test"
         /\ late' = late \/ \E c \in Commands : /\ c.op = op /\ op \in LateCommands /\ c.unit = run
                                              /\ late' = late \cup {c}
         /\ \/ power' = power /\ downs' = downs
            \/ op = "reboot" /\ power' = "stopping" /\ downs' = downs \cup {"reboot"}
<1>1. Cmd(op) \in Commands /\ Cmd(op).op = op /\ Cmd(op).unit = run /\ Cmd(op).path = target
  BY CmdType
<1>2. CASE Ran(Cmd(op))
  BY <1>1, <1>2 DEF Ran, Exec, Ops
<1>3. CASE NeverRan
  BY <1>3 DEF NeverRan, hostVars, genVars
<1>4. CASE StillRunning(Cmd(op))
  BY <1>1, <1>4 DEF StillRunning, genVars
<1> QED
  BY <1>2, <1>3, <1>4 DEF Sent

\* What persistBoot's two commands do when they run.
LEMMA RanEffect ==
  ASSUME TypeOK, run \in Units
  PROVE  /\ Ran(Cmd("setProfile")) => profile' = target
         /\ Ran(Cmd("boot")) => bootEntry' = target
<1>1. "setProfile" \in Ops /\ "boot" \in Ops
  BY DEF Ops
<1>2. /\ Cmd("setProfile").op = "setProfile" /\ Cmd("setProfile").path = target
      /\ Cmd("boot").op = "boot" /\ Cmd("boot").path = target
  BY <1>1, CmdType
<1> QED
  BY <1>2 DEF Ran, Exec

\* The steps a deploy goes through once the target is persisted.
Persisted == {"detect", "reboot", "rebootWait", "k8s"}

\* persistBoot goes on only when a command has run, and nothing but a later run
\* takes the target away again.
PersistInv ==
  /\ pc # "idle" => result \notin {"ok"}
  /\ pc = "switchBoot" => profile = target
  /\ pc = "disarm" => profile = target /\ bootEntry = target
  /\ (pc \in Persisted \/ result = "ok") /\ ~upToDate => profile = target /\ bootEntry = target
  /\ \A c \in late : c.op \in LateCommands

\* PersistInv is inductive when persistBoot's commands are never late.
LEMMA PersistStep ==
  ASSUME TypeOK, PersistInv, [Next]_vars,
         LateCommands \cap {"setProfile", "boot"} = {}
  PROVE  PersistInv'
<1> USE DEF PersistInv, Persisted, TypeOK, hostVars, genVars, planVars, localVars
<1>1. CASE \E m \in Modes, f \in Flags, g \in Gens : Start(m, f, g)
  BY <1>1 DEF Start
<1>2. CASE DeployStep
  <2>1. CASE CleanupStaleUnits
    <3>1. run \in Units /\ Sent("cleanup") /\ "cleanup" \in Ops
      BY <2>1 DEF CleanupStaleUnits, AtPlain, At, SSHRun, SSHRunOnce, Sent, Ops
    <3> QED
      BY <2>1, <3>1, SentChange DEF CleanupStaleUnits, AtPlain, At, SSHRun, Redial, SSHRunOnce, Goto, Return
  <2>2. CASE ArmWatchdog
    <3>1. run \in Units /\ Sent("arm") /\ "arm" \in Ops
      BY <2>2 DEF ArmWatchdog, AtPlain, At, SSHRunOnce, Sent, Ops
    <3> QED
      BY <2>2, <3>1, SentChange DEF ArmWatchdog, AtPlain, At, SSHRunOnce, Goto, Return
  <2>3. CASE DisarmAbort
    <3>1. run \in Units /\ Sent("disarm") /\ "disarm" \in Ops
      BY <2>3 DEF DisarmAbort, AtPlain, At, SSHRun, SSHRunOnce, Sent, Ops
    <3> QED
      BY <2>3, <3>1, SentChange DEF DisarmAbort, AtPlain, At, SSHRun, Redial, SSHRunOnce, Goto, Return
  <2>4. CASE Activate
    <3>1. run \in Units /\ Sent("test") /\ "test" \in Ops
      BY <2>4 DEF Activate, AtPlain, At, SSHRunOnce, Sent, Ops
    <3> QED
      BY <2>4, <3>1, SentChange DEF Activate, AtPlain, At, SSHRunOnce, Goto, Return
  <2>5. CASE Release
    <3>1. run \in Units /\ Sent("disarm") /\ "disarm" \in Ops
      BY <2>5 DEF Release, AtPlain, At, SSHRun, SSHRunOnce, Sent, Ops
    <3> QED
      BY <2>5, <3>1, SentChange DEF Release, AtPlain, At, SSHRun, Redial, SSHRunOnce, Goto, Return
  <2>6. CASE SetProfile
    <3>1. run \in Units /\ Sent("setProfile") /\ "setProfile" \in Ops
      BY <2>6 DEF SetProfile, AtPlain, At, SSHRun, SSHRunOnce, Sent, Ops
    <3>2. pc' = "switchBoot" => Ran(Cmd("setProfile"))
      BY <2>6 DEF SetProfile, AtPlain, At, SSHRun, SSHRunOnce, Redial, Goto
    <3>3. pc' = "switchBoot" => profile' = target
      BY <3>1, <3>2, RanEffect
    <3> QED
      BY <2>6, <3>1, <3>3, SentChange DEF SetProfile, AtPlain, At, SSHRun, Redial, SSHRunOnce, Goto, Return
  <2>7. CASE SwitchBoot
    <3>1. run \in Units /\ Sent("boot") /\ "boot" \in Ops
      BY <2>7 DEF SwitchBoot, AtPlain, At, SSHRun, SSHRunOnce, Sent, Ops
    <3>2. pc' = "disarm" => Ran(Cmd("boot"))
      BY <2>7 DEF SwitchBoot, AtPlain, At, SSHRun, SSHRunOnce, Redial, Goto
    <3>3. pc' = "disarm" => bootEntry' = target
      BY <3>1, <3>2, RanEffect
    <3> QED
      BY <2>7, <3>1, <3>3, SentChange DEF SwitchBoot, AtPlain, At, SSHRun, Redial, SSHRunOnce, Goto, Return
  <2>8. CASE DisarmFail
    <3>1. run \in Units /\ Sent("disarm") /\ "disarm" \in Ops
      BY <2>8 DEF DisarmFail, AtPlain, At, SSHRun, SSHRunOnce, Sent, Ops
    <3> QED
      BY <2>8, <3>1, SentChange DEF DisarmFail, AtPlain, At, SSHRun, Redial, SSHRunOnce, Goto, Return
  <2>9. CASE Disarm
    <3>1. run \in Units /\ Sent("disarm") /\ "disarm" \in Ops
      BY <2>9 DEF Disarm, AtPlain, At, SSHRun, SSHRunOnce, Sent, Ops
    <3> QED
      BY <2>9, <3>1, SentChange DEF Disarm, AtPlain, At, SSHRun, Redial, SSHRunOnce, Goto, Return
  <2>10. CASE Reboot
    <3>1. run \in Units /\ Sent("reboot") /\ "reboot" \in Ops
      BY <2>10 DEF Reboot, AtPlain, At, SSHRunOnce, Sent, Ops
    <3> QED
      BY <2>10, <3>1, SentChange DEF Reboot, AtPlain, At, SSHRunOnce, Goto, Return
  <2>11. CASE Reach
    BY <2>11 DEF Reach, AtPlain, At, NeverRan, Goto, Return, Redial
  <2>12. CASE ProbeActive
    BY <2>12 DEF ProbeActive, At, NeverRan, Goto, Redial
  <2>13. CASE ProbeBoot
    <3>1. \/ Redial \/ Goto("cleanup")
          \/ prior = target /\ Goto("detect") /\ upToDate'
      BY <2>13, Zenon DEF ProbeBoot
    <3>2. At("probeBoot") /\ NeverRan
      BY <2>13 DEF ProbeBoot
    <3> QED
      BY <3>1, <3>2 DEF At, NeverRan, Goto, Redial
  <2>14. CASE Settle
    BY <2>14 DEF Settle, At, NeverRan, Goto, Return
  <2>15. CASE VerifySsh
    BY <2>15 DEF VerifySsh, AtPlain, At, NeverRan, NextAttempt, Return
  <2>16. CASE VerifyNet
    BY <2>16 DEF VerifyNet, AtPlain, At, NeverRan, NextAttempt, Goto, Return
  <2>17. CASE CheckPath
    BY <2>17 DEF CheckPath, AtPlain, At, NeverRan, Goto, Return, Redial, ReadOf
  <2>18. CASE ClearRebuildUnit
    BY <2>18 DEF ClearRebuildUnit, AtPlain, At, NeverRan, Goto, Redial
  <2>19. CASE HandleReboot
    <3>1. Goto("k8s") \/ Goto("reboot")
      BY <2>19, ApplyRebootGoes, Zenon DEF HandleReboot
    <3> QED
      BY <2>19, <3>1 DEF HandleReboot, AtPlain, At, NeverRan, Goto
  <2>20. CASE RebootWait
    BY <2>20 DEF RebootWait, AtPlain, At, NeverRan, Goto, Return
  <2>21. CASE WaitForK8sReady
    BY <2>21 DEF WaitForK8sReady, AtPlain, At, NeverRan, Return
  <2>22. CASE Rebuild
    <3>1. PICK done \in 0 .. 3 :
            /\ profile' = IF done >= 1 THEN target ELSE profile
            /\ bootEntry' = IF done >= 2 THEN target ELSE bootEntry
            /\ current' = IF done = 3 THEN target ELSE current
            /\ \/ Return(FALSE)
               \/ mode = "switch" /\ done = 3 /\ Goto("detect")
               \/ mode = "boot" /\ done = 2 /\ ApplyReboot(TRUE)
      BY <2>22, Zenon DEF Rebuild
    <3>2. AtPlain("rebuild") /\ UNCHANGED <<booted, power, timers, late, downs>>
      BY <2>22 DEF Rebuild
    <3>3. CASE Return(FALSE)
      BY <3>2, <3>3 DEF AtPlain, At, Return
    <3>4. CASE mode = "switch" /\ done = 3 /\ Goto("detect")
      BY <3>1, <3>2, <3>4 DEF AtPlain, At, Goto
    <3>5. CASE mode = "boot" /\ done = 2 /\ ApplyReboot(TRUE)
      <4>1. Goto("k8s") \/ Goto("reboot")
        BY <3>5, ApplyRebootGoes, Zenon
      <4> QED
        BY <3>1, <3>2, <3>5, <4>1 DEF AtPlain, At, Goto
    <3> QED
      BY <3>1, <3>3, <3>4, <3>5
  <2> QED
    BY <1>2, <2>1, <2>2, <2>3, <2>4, <2>5, <2>6, <2>7, <2>8, <2>9, <2>10, <2>11,
       <2>12, <2>13, <2>14, <2>15, <2>16, <2>17, <2>18, <2>19, <2>20, <2>21, <2>22 DEF DeployStep
<1>3. CASE Interrupt
  BY <1>3 DEF Interrupt
<1>4. CASE \E u \in Units : WatchdogFires(u)
  BY <1>4 DEF WatchdogFires
<1>5. CASE GoesDown
  BY <1>5 DEF GoesDown
<1>6. CASE Crash
  BY <1>6 DEF Crash
<1>7. CASE ComesUp
  BY <1>7 DEF ComesUp
<1>8. CASE \E c \in late : LateLands(c)
  BY <1>8 DEF LateLands, Exec, Commands, Ops
<1>9. CASE UNCHANGED vars
  BY <1>9 DEF vars
<1> QED
  BY <1>1, <1>2, <1>3, <1>4, <1>5, <1>6, <1>7, <1>8, <1>9 DEF Next, HostStep

\* A deploy that did more than find the host up to date, and reported success,
\* persisted the target in both places, whatever answers were lost and whatever
\* rebooted the host on the way (deploy.go 181-187, 206-247): for every mode, if
\* no command of persistBoot takes effect after its client gave up.
THEOREM SuccessPersists ==
  ASSUME LateCommands \cap {"setProfile", "boot"} = {}
  PROVE  Spec => []DeployedPersisted
<1>1. Init => PersistInv
  BY DEF Init, PersistInv, Persisted
<1>2. TypeOK /\ PersistInv /\ [Next]_vars => PersistInv'
  BY PersistStep
<1>3. PersistInv => DeployedPersisted
  BY DEF PersistInv, DeployedPersisted
<1> QED
  BY <1>1, <1>2, <1>3, TypeCorrect, PTL DEF Spec

\* The steps between verifyActivePath and the end of a deploy.
Verified == {"clearUnit", "setProfile", "switchBoot", "disarm"} \cup Persisted

\* Until this run reboots the host, whatever takes it down is on record; past
\* verifyActivePath the target runs, unless something is on record, or, once the
\* target is persisted, was rebooted into.
RunsInv ==
  /\ pc # "idle" /\ power # "up" => downs # {}
  /\ pc \notin {"idle", "rebootWait", "k8s"} => "reboot" \notin downs
  /\ \A c \in late : c.unit <= run
  /\ \A c \in late : c.op = "reboot" /\ c.unit = run => pc \in {"idle", "rebootWait", "k8s"}
  /\ (pc \in Verified \/ result = "ok") /\ ~upToDate /\ mode # "boot" /\ downs \subseteq {"reboot"}
       => current = target


\* RunsInv is inductive, given PersistInv: a reboot lands on what is persisted.
LEMMA RunsStep ==
  ASSUME TypeOK, PersistInv, RunsInv, [Next]_vars,
         LateCommands \cap {"test", "setProfile", "boot"} = {}
  PROVE  RunsInv'
<1> USE DEF PersistInv, RunsInv, Persisted, Verified, TypeOK, hostVars, genVars, planVars, localVars
<1>1. CASE \E m \in Modes, f \in Flags, g \in Gens : Start(m, f, g)
  <2> PICK m \in Modes, f \in Flags, g \in Gens : Start(m, f, g)
    BY <1>1
  <2>1. \A c \in late : c.unit <= run' /\ c.unit # run'
    <3>1. run \in Nat /\ run' = run + 1
      BY ConstantsAssumption DEF Start
    <3>2. ASSUME NEW c \in late PROVE c.unit \in Nat /\ c.unit <= run
      <4>1. c \in Commands /\ c.unit <= run
        BY Zenon
      <4>2. c.unit \in 1 .. MaxRuns
        BY <4>1 DEF Commands, Units
      <4> QED
        BY <4>1, <4>2, ConstantsAssumption
    <3> QED
      BY <3>1, <3>2
  <2>2. late' = late /\ pc' = "reach" /\ power' = power /\ result' = "none"
    BY DEF Start
  <2>3. downs' = IF power = "up" THEN {} ELSE {"stale"}
    BY DEF Start
  <2> QED
    BY <2>1, <2>2, <2>3
<1>2. CASE DeployStep
  <2>1. CASE CleanupStaleUnits
    <3>1. run \in Units /\ Sent("cleanup") /\ "cleanup" \in Ops
      BY <2>1 DEF CleanupStaleUnits, AtPlain, At, SSHRun, SSHRunOnce, Sent, Ops
    <3> QED
      BY <2>1, <3>1, SentChange DEF CleanupStaleUnits, AtPlain, At, SSHRun, Redial, SSHRunOnce, Goto, Return
  <2>2. CASE ArmWatchdog
    <3>1. run \in Units /\ Sent("arm") /\ "arm" \in Ops
      BY <2>2 DEF ArmWatchdog, AtPlain, At, SSHRunOnce, Sent, Ops
    <3> QED
      BY <2>2, <3>1, SentChange DEF ArmWatchdog, AtPlain, At, SSHRunOnce, Goto, Return
  <2>3. CASE DisarmAbort
    <3>1. run \in Units /\ Sent("disarm") /\ "disarm" \in Ops
      BY <2>3 DEF DisarmAbort, AtPlain, At, SSHRun, SSHRunOnce, Sent, Ops
    <3> QED
      BY <2>3, <3>1, SentChange DEF DisarmAbort, AtPlain, At, SSHRun, Redial, SSHRunOnce, Goto, Return
  <2>4. CASE Activate
    <3>1. run \in Units /\ Sent("test") /\ "test" \in Ops
      BY <2>4 DEF Activate, AtPlain, At, SSHRunOnce, Sent, Ops
    <3> QED
      BY <2>4, <3>1, SentChange DEF Activate, AtPlain, At, SSHRunOnce, Goto, Return
  <2>5. CASE Release
    <3>1. run \in Units /\ Sent("disarm") /\ "disarm" \in Ops
      BY <2>5 DEF Release, AtPlain, At, SSHRun, SSHRunOnce, Sent, Ops
    <3> QED
      BY <2>5, <3>1, SentChange DEF Release, AtPlain, At, SSHRun, Redial, SSHRunOnce, Goto, Return
  <2>6. CASE SetProfile
    <3>1. run \in Units /\ Sent("setProfile") /\ "setProfile" \in Ops
      BY <2>6 DEF SetProfile, AtPlain, At, SSHRun, SSHRunOnce, Sent, Ops
    <3>2. pc' = "switchBoot" => Ran(Cmd("setProfile"))
      BY <2>6 DEF SetProfile, AtPlain, At, SSHRun, SSHRunOnce, Redial, Goto
    <3>3. pc' = "switchBoot" => profile' = target
      BY <3>1, <3>2, RanEffect
    <3> QED
      BY <2>6, <3>1, <3>3, SentChange DEF SetProfile, AtPlain, At, SSHRun, Redial, SSHRunOnce, Goto, Return
  <2>7. CASE SwitchBoot
    <3>1. run \in Units /\ Sent("boot") /\ "boot" \in Ops
      BY <2>7 DEF SwitchBoot, AtPlain, At, SSHRun, SSHRunOnce, Sent, Ops
    <3>2. pc' = "disarm" => Ran(Cmd("boot"))
      BY <2>7 DEF SwitchBoot, AtPlain, At, SSHRun, SSHRunOnce, Redial, Goto
    <3>3. pc' = "disarm" => bootEntry' = target
      BY <3>1, <3>2, RanEffect
    <3> QED
      BY <2>7, <3>1, <3>3, SentChange DEF SwitchBoot, AtPlain, At, SSHRun, Redial, SSHRunOnce, Goto, Return
  <2>8. CASE DisarmFail
    <3>1. run \in Units /\ Sent("disarm") /\ "disarm" \in Ops
      BY <2>8 DEF DisarmFail, AtPlain, At, SSHRun, SSHRunOnce, Sent, Ops
    <3> QED
      BY <2>8, <3>1, SentChange DEF DisarmFail, AtPlain, At, SSHRun, Redial, SSHRunOnce, Goto, Return
  <2>9. CASE Disarm
    <3>1. run \in Units /\ Sent("disarm") /\ "disarm" \in Ops
      BY <2>9 DEF Disarm, AtPlain, At, SSHRun, SSHRunOnce, Sent, Ops
    <3> QED
      BY <2>9, <3>1, SentChange DEF Disarm, AtPlain, At, SSHRun, Redial, SSHRunOnce, Goto, Return
  <2>10. CASE Reboot
    <3>1. run \in Units /\ Sent("reboot") /\ "reboot" \in Ops
      BY <2>10 DEF Reboot, AtPlain, At, SSHRunOnce, Sent, Ops
    <3> QED
      BY <2>10, <3>1, SentChange DEF Reboot, AtPlain, At, SSHRunOnce, Goto, Return
  <2>11. CASE Reach
    BY <2>11 DEF Reach, AtPlain, At, NeverRan, Goto, Return, Redial
  <2>12. CASE ProbeActive
    BY <2>12 DEF ProbeActive, At, NeverRan, Goto, Redial
  <2>13. CASE ProbeBoot
    <3>1. \/ Redial \/ Goto("cleanup")
          \/ prior = target /\ Goto("detect") /\ upToDate'
      BY <2>13, Zenon DEF ProbeBoot
    <3>2. At("probeBoot") /\ NeverRan
      BY <2>13 DEF ProbeBoot
    <3> QED
      BY <3>1, <3>2 DEF At, NeverRan, Goto, Redial
  <2>14. CASE Settle
    BY <2>14 DEF Settle, At, NeverRan, Goto, Return
  <2>15. CASE VerifySsh
    BY <2>15 DEF VerifySsh, AtPlain, At, NeverRan, NextAttempt, Return
  <2>16. CASE VerifyNet
    BY <2>16 DEF VerifyNet, AtPlain, At, NeverRan, NextAttempt, Goto, Return
  <2>17. CASE CheckPath
    <3>1. AtPlain("checkPath") /\ NeverRan
      BY <2>17 DEF CheckPath
    <3>2. \/ current = target /\ (Goto("clearUnit") \/ Goto("setProfile"))
          \/ Goto("release") \/ Return(FALSE) \/ Redial
      <4>1. ASSUME target \in ReadOf(current) PROVE current = target
        BY <4>1, ConstantsAssumption DEF ReadOf
      <4> QED
        BY <2>17, <4>1, Zenon DEF CheckPath
    <3> QED
      BY <3>1, <3>2 DEF AtPlain, At, NeverRan, Goto, Return, Redial
  <2>18. CASE ClearRebuildUnit
    BY <2>18 DEF ClearRebuildUnit, AtPlain, At, NeverRan, Goto, Redial
  <2>19. CASE HandleReboot
    <3>1. Goto("k8s") \/ Goto("reboot")
      BY <2>19, ApplyRebootGoes, Zenon DEF HandleReboot
    <3> QED
      BY <2>19, <3>1 DEF HandleReboot, AtPlain, At, NeverRan, Goto
  <2>20. CASE RebootWait
    BY <2>20 DEF RebootWait, AtPlain, At, NeverRan, Goto, Return
  <2>21. CASE WaitForK8sReady
    BY <2>21 DEF WaitForK8sReady, AtPlain, At, NeverRan, Return
  <2>22. CASE Rebuild
    <3>1. PICK done \in 0 .. 3 :
            /\ profile' = IF done >= 1 THEN target ELSE profile
            /\ bootEntry' = IF done >= 2 THEN target ELSE bootEntry
            /\ current' = IF done = 3 THEN target ELSE current
            /\ \/ Return(FALSE)
               \/ mode = "switch" /\ done = 3 /\ Goto("detect")
               \/ mode = "boot" /\ done = 2 /\ ApplyReboot(TRUE)
      BY <2>22, Zenon DEF Rebuild
    <3>2. AtPlain("rebuild") /\ UNCHANGED <<booted, power, timers, late, downs>>
      BY <2>22 DEF Rebuild
    <3>3. CASE Return(FALSE)
      BY <3>2, <3>3 DEF AtPlain, At, Return
    <3>4. CASE mode = "switch" /\ done = 3 /\ Goto("detect")
      BY <3>1, <3>2, <3>4 DEF AtPlain, At, Goto
    <3>5. CASE mode = "boot" /\ done = 2 /\ ApplyReboot(TRUE)
      <4>1. Goto("k8s") \/ Goto("reboot")
        BY <3>5, ApplyRebootGoes, Zenon
      <4> QED
        BY <3>1, <3>2, <3>5, <4>1 DEF AtPlain, At, Goto
    <3> QED
      BY <3>1, <3>3, <3>4, <3>5
  <2> QED
    BY <1>2, <2>1, <2>2, <2>3, <2>4, <2>5, <2>6, <2>7, <2>8, <2>9, <2>10, <2>11,
       <2>12, <2>13, <2>14, <2>15, <2>16, <2>17, <2>18, <2>19, <2>20, <2>21, <2>22 DEF DeployStep
<1>3. CASE Interrupt
  BY <1>3 DEF Interrupt
<1>4. CASE \E u \in Units : WatchdogFires(u)
  BY <1>4 DEF WatchdogFires
<1>5. CASE GoesDown
  BY <1>5 DEF GoesDown
<1>6. CASE Crash
  BY <1>6 DEF Crash
<1>7. CASE ComesUp
  BY <1>7 DEF ComesUp
<1>8. CASE \E c \in late : LateLands(c)
  BY <1>8 DEF LateLands, Exec, Commands, Ops
<1>9. CASE UNCHANGED vars
  BY <1>9 DEF vars
<1> QED
  BY <1>1, <1>2, <1>3, <1>4, <1>5, <1>6, <1>7, <1>8, <1>9 DEF Next, HostStep

\* A deploy in mode safe or switch that reported success left the host running
\* the target, unless a crash or a watchdog rebooted it on the way: whatever
\* answers were lost, and whatever this run's own reboot did (verifyActivePath,
\* deploy.go 158-179), if neither the activation nor a command of persistBoot
\* takes effect after its client gave up.
THEOREM SuccessRuns ==
  ASSUME LateCommands \cap {"test", "setProfile", "boot"} = {}
  PROVE  Spec => []DeployedRuns
<1>1. Init => PersistInv /\ RunsInv
  BY DEF Init, PersistInv, RunsInv, Persisted, Verified
<1>2. TypeOK /\ PersistInv /\ [Next]_vars => PersistInv'
  BY PersistStep
<1>3. TypeOK /\ PersistInv /\ RunsInv /\ [Next]_vars => RunsInv'
  BY RunsStep
<1>4. RunsInv => DeployedRuns
  BY DEF RunsInv, DeployedRuns
<1> QED
  BY <1>1, <1>2, <1>3, <1>4, TypeCorrect, PTL DEF Spec
=============================================================================
