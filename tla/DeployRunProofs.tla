-------------------------- MODULE DeployRunProofs ---------------------------
(***************************************************************************)
(* What one run of the deploy tool guarantees, for any fleet, any          *)
(* selection, any number of probe slots and any faults DeployRun models.   *)
(***************************************************************************)
EXTENDS DeployRun, SequenceTheorems, TLAPS

-----------------------------------------------------------------------------
(***************************************************************************)
(* The inductive invariant, in the order in which run establishes it.      *)
(***************************************************************************)

\* From the evaluation on, selected is what the command line says, and a --build
\* run goes no further than the build.
PlanInv ==
  /\ pc = "select" => selected = {} /\ buildOnly = {}
  /\ pc \notin {"select", "done"} => selected = SelectHosts(names)
  /\ pc = "build" => build
  /\ build => pc \in {"select", "resolve", "build", "done"}
  /\ oldDown \subseteq SelectHosts(names) /\ K3s \ up \subseteq SelectHosts(names)
  /\ exit = "running" <=> pc # "done"

\* What the precheck decided of a host, and what it can have seen: a host that
\* was down all along failed, a printer that printed all along was not let by.
ProbeInv ==
  /\ \A h \in Hosts : probe[h] = "done" <=> verdict[h] # "none"
  /\ \A h \in oldDown : probe[h] \in {"queued", "ssh", "done"} /\ verdict[h] \in {"none", "failed"}
  /\ \A h \in Hosts : probe[h] = "printer" => h \in Printers /\ ~force
  /\ \A h \in Hosts : verdict[h] = "skipped" => h \in Printers /\ ~force
  /\ ~force => \A h \in oldPrint : probe[h] # "path" /\ verdict[h] # "todo"
  /\ pc \in {"plan", "roll", "loop", "deploy", "extra", "judge"} => \A h \in selected : probe[h] = "done"

\* Only hosts the precheck let by are rolled out, none before the plan, and by
\* the pipeline or the loop as the mode has it.
RollInv ==
  /\ pc \in {"select", "resolve", "build", "probe", "plan"} => failed = {} /\ skipped = {}
  /\ pc \in {"select", "resolve", "build", "probe", "plan"} \/ mode = "serial" =>
       outcome = [h \in Hosts |-> "pending"] /\ ~halted
  /\ build => touched = {}
  /\ \A h \in touched : h \in Todo
  /\ \A h \in Hosts : outcome[h] # "pending" => h \in Todo
  /\ pc \in {"roll", "loop", "deploy", "extra", "judge"} \/ touched # {} => oldDown = {}
  /\ pc = "roll" => mode = "safe"
  /\ pc \in {"loop", "deploy", "extra"} => mode = "serial"

\* The loop has dealt with the hosts before pos, and with no other: those of
\* todo were deployed, or failed without ending the loop.
Passed == {AllHosts[i] : i \in 1 .. pos - 1}

LoopInv ==
  /\ pc \in {"select", "resolve", "build", "probe", "plan"} \/ mode = "safe" => pos = 1 /\ deployed = {}
  /\ deployed \cap failed = {}
  /\ pc = "deploy" => AllHosts[pos] \in Todo
  /\ pc \in {"loop", "deploy"} =>
       /\ deployed \cup (Todo \cap failed) = Todo \cap Passed
       /\ ~LoopHalted
  /\ pc = "extra" => Todo \subseteq deployed \cup failed \/ LoopHalted

\* The summary of a run in its rollout, and after it.
Settled(h) ==
  \/ h \in failed \cup skipped
  \/ OutcomeOf(h) = "deployed"
  \/ OutcomeOf(h) = "pending" /\ failed # {}

SummaryInv ==
  /\ pc \in {"roll", "loop", "deploy", "extra", "judge"} => failed \cup skipped \cup Todo = selected
  /\ \A h \in skipped : h \in Printers /\ ~force
  /\ pc \in {"extra", "judge"} => \A h \in selected : Settled(h)

RunInv == PlanInv /\ ProbeInv /\ RollInv /\ LoopInv /\ SummaryInv /\ SuccessIsTotal /\ SummaryAccounts

-----------------------------------------------------------------------------
(***************************************************************************)
(* Types.                                                                  *)
(***************************************************************************)

\* Every step of the run and of the fleet keeps the types.
LEMMA TypeStep == TypeOK /\ [Next]_vars => TypeOK'
<1> SUFFICES ASSUME TypeOK, [Next]_vars PROVE TypeOK'
  OBVIOUS
<1> USE DeployRunAssumption DEF TypeOK, Roll!TypeOK, Roll!Outcomes, worldVars, argVars, planVars, probeVars,
        rollVars, loopVars, summaryVars, Goto, Exits
<1>1. CASE World
  BY <1>1 DEF World, HostDown, HostUp, PrintStarts, PrintEnds
<1>2. CASE Select
  BY <1>2 DEF Select, SelectHosts, UnknownHosts, BuildOnlyHosts
<1>3. CASE ResolveToplevels
  BY <1>3 DEF ResolveToplevels
<1>4. CASE BuildEverything
  BY <1>4 DEF BuildEverything, BuildAll, NotBuilt
<1>5. CASE \E h \in Hosts : Probe(h)
  BY <1>5 DEF Probe, ProbeAcquire, ProbeSsh, ProbePrinter, ProbePath, ProbeGoto, ProbeReturns, ProbeOnly
<1>6. CASE Probed
  BY <1>6 DEF Probed
<1>7. CASE Plan
  BY <1>7 DEF Plan, Rollouts, Verdicts
<1>8. CASE \E h \in Hosts : RollHost(h)
  <2> PICK h \in Hosts : RollHost(h)
    BY <1>8
  <2>1. CASE RollFail(h)
    <3>1. halted' \in BOOLEAN
      BY <2>1, Zenon DEF RollFail, Roll!Fail
    <3> QED
      BY <2>1, <3>1 DEF RollFail, Roll!Fail, RollOnly
  <2>2. CASE RollDrop(h) \/ RollBegin(h) \/ RollSucceed(h) \/ RollCancel(h)
    BY <2>2 DEF RollDrop, RollBegin, RollSucceed, RollCancel, RollOnly,
       Roll!Drop, Roll!Begin, Roll!Succeed, Roll!Cancel
  <2> QED
    BY <2>1, <2>2 DEF RollHost
<1>9. CASE Rolled
  BY <1>9 DEF Rolled, Todo, Verdicts
<1>10. CASE \E h \in Hosts : BuildOne(h)
  BY <1>10 DEF BuildOne
<1>11. CASE BuildExtra
  BY <1>11 DEF BuildExtra, BuildAll
<1>12. CASE Judge
  BY <1>12 DEF Judge, NotBuilt
<1>13. CASE UNCHANGED vars
  BY <1>13 DEF vars
<1>14. CASE \E h \in Hosts : DeployReaches(h)
  BY <1>14 DEF DeployReaches, Deploying
<1>15. CASE LoopNext \/ LoopEnds
  BY <1>15 DEF LoopNext, LoopEnds, LoopOnly, Advance
<1>16. CASE LoopSucceeds
  BY <1>16 DEF LoopSucceeds, LoopOnly, Advance
<1>17. CASE LoopFails
  BY <1>17 DEF LoopFails, LoopOnly, Advance
<1> QED
  BY <1>1, <1>2, <1>3, <1>4, <1>5, <1>6, <1>7, <1>8, <1>9, <1>10, <1>11, <1>12, <1>13,
     <1>14, <1>15, <1>16, <1>17 DEF Next, Main, Loop, Finished
-----------------------------------------------------------------------------
(***************************************************************************)
(* The loop.                                                               *)
(***************************************************************************)

\* The host the loop deploys has not been dealt with: AllHosts names it once.
LEMMA LoopHere ==
  ASSUME TypeOK, LoopInv, pc = "deploy"
  PROVE  /\ pos \in 1 .. Len(AllHosts) /\ AllHosts[pos] \in Hosts /\ AllHosts[pos] \in Todo
         /\ AllHosts[pos] \notin deployed /\ AllHosts[pos] \notin failed
<1>1. pos \in 1 .. Len(AllHosts)
  BY DeployRunAssumption DEF LoopInv, TypeOK
<1>2. AllHosts[pos] \notin Passed
  BY <1>1, DeployRunAssumption DEF Passed, IsInjective
<1> QED
  BY <1>1, <1>2, DeployRunAssumption DEF LoopInv, TypeOK

\* A step of range todo adds one host to those the loop has dealt with.
LEMMA PassedOne ==
  ASSUME TypeOK, pos \in 1 .. Len(AllHosts), Advance
  PROVE  Passed' = Passed \cup {AllHosts[pos]}
<1>1. \A i : i \in 1 .. pos' - 1 <=> i \in 1 .. pos - 1 \/ i = pos
  BY DeployRunAssumption DEF TypeOK, Advance
<1> QED
  BY <1>1 DEF Passed

\* When the loop ends by itself, it has dealt with every host.
LEMMA PassedAll ==
  ASSUME TypeOK, pos > Len(AllHosts)
  PROVE  Hosts \subseteq Passed
<1>1. pos - 1 = Len(AllHosts) /\ DOMAIN AllHosts = 1 .. Len(AllHosts)
  BY DeployRunAssumption DEF TypeOK
<1> QED
  BY <1>1 DEF Passed, Hosts, ToSet

\* Outside the loop's turns an outcome is what is on record.
LEMMA OutcomeStays ==
  ASSUME pc # "deploy", pc' # "deploy", deployed' = deployed, mode' = mode,
         \A h \in Hosts : h \in failed /\ verdict[h] = "todo" <=> h \in failed' /\ verdict'[h] = "todo"
  PROVE  \A h \in Hosts : LoopOutcome(h)' = LoopOutcome(h)
BY DEF LoopOutcome

-----------------------------------------------------------------------------
(***************************************************************************)
(* The parts of the invariant.                                             *)
(***************************************************************************)

\* The selection is settled once.
LEMMA PlanStep ==
  ASSUME TypeOK, PlanInv, [Next]_vars
  PROVE  PlanInv'
<1> USE DEF PlanInv, TypeOK, worldVars, argVars, planVars, probeVars, rollVars, loopVars, summaryVars, Goto, Exits
<1>1. CASE World
  BY <1>1 DEF World, HostDown, HostUp, PrintStarts, PrintEnds
<1>2. CASE Select
  BY <1>2 DEF Select
<1>3. CASE ResolveToplevels
  BY <1>3 DEF ResolveToplevels
<1>4. CASE BuildEverything
  BY <1>4 DEF BuildEverything
<1>5. CASE \E h \in Hosts : Probe(h)
  BY <1>5 DEF Probe, ProbeAcquire, ProbeSsh, ProbePrinter, ProbePath, ProbeGoto, ProbeReturns, ProbeAt, ProbeOnly
<1>6. CASE Probed
  BY <1>6 DEF Probed
<1>7. CASE Plan
  BY <1>7 DEF Plan, Rollouts
<1>8. CASE \E h \in Hosts : RollHost(h)
  BY <1>8 DEF RollHost, RollDrop, RollBegin, RollSucceed, RollFail, RollCancel, RollOnly,
     Roll!Drop, Roll!Begin, Roll!Succeed, Roll!Fail, Roll!Cancel, Todo, Verdicts
<1>9. CASE Rolled
  BY <1>9 DEF Rolled
<1>10. CASE \E h \in Hosts : BuildOne(h)
  BY <1>10 DEF BuildOne
<1>11. CASE BuildExtra
  BY <1>11 DEF BuildExtra
<1>12. CASE Judge
  BY <1>12 DEF Judge
<1>13. CASE UNCHANGED vars
  BY <1>13 DEF vars
<1>14. CASE \E h \in Hosts : DeployReaches(h)
  BY <1>14 DEF DeployReaches, Deploying
<1>15. CASE LoopNext \/ LoopEnds
  BY <1>15 DEF LoopNext, LoopEnds, LoopOnly, Advance
<1>16. CASE LoopSucceeds
  BY <1>16 DEF LoopSucceeds, LoopOnly, Advance
<1>17. CASE LoopFails
  BY <1>17 DEF LoopFails, LoopOnly, Advance
<1> QED
  BY <1>1, <1>2, <1>3, <1>4, <1>5, <1>6, <1>7, <1>8, <1>9, <1>10, <1>11, <1>12, <1>13,
     <1>14, <1>15, <1>16, <1>17 DEF Next, Main, Loop, Finished

\* A verdict is given once, from what the probe saw.
LEMMA ProbeStep ==
  ASSUME TypeOK, PlanInv, ProbeInv, [Next]_vars
  PROVE  ProbeInv'
<1> USE DEF ProbeInv, PlanInv, TypeOK, worldVars, argVars, planVars, probeVars, rollVars, loopVars, summaryVars, Goto, Exits
<1>1. CASE World
  BY <1>1 DEF World, HostDown, HostUp, PrintStarts, PrintEnds
<1>2. CASE Select
  BY <1>2 DEF Select
<1>3. CASE ResolveToplevels
  BY <1>3 DEF ResolveToplevels
<1>4. CASE BuildEverything
  BY <1>4 DEF BuildEverything
<1>5. CASE \E h \in Hosts : Probe(h)
  <2> PICK h \in Hosts : Probe(h)
    BY <1>5
  <2>1. CASE ProbeAcquire(h)
    BY <2>1 DEF ProbeAcquire, ProbeAt, ProbeGoto, ProbeOnly
  <2>2. CASE ProbeSsh(h)
    <3>1. CASE ProbeReturns(h, "failed")
      BY <2>2, <3>1 DEF ProbeSsh, ProbeAt, ProbeReturns, ProbeOnly
    <3>2. CASE h \in up /\ h \in Printers /\ ~force /\ ProbeGoto(h, "printer")
      BY <2>2, <3>2 DEF ProbeSsh, ProbeAt, ProbeGoto, ProbeOnly
    <3>3. CASE h \in up /\ (h \notin Printers \/ force) /\ ProbeGoto(h, "path")
      BY <2>2, <3>3 DEF ProbeSsh, ProbeAt, ProbeGoto, ProbeOnly
    <3> QED
      BY <2>2, <3>1, <3>2, <3>3, Zenon DEF ProbeSsh
  <2>3. CASE ProbePrinter(h)
    <3>1. CASE ProbeReturns(h, "skipped")
      BY <2>3, <3>1 DEF ProbePrinter, ProbeAt, ProbeReturns, ProbeOnly
    <3>2. CASE h \notin printing /\ ProbeGoto(h, "path")
      BY <2>3, <3>2 DEF ProbePrinter, ProbeAt, ProbeGoto, ProbeOnly
    <3> QED
      BY <2>3, <3>1, <3>2, Zenon DEF ProbePrinter
  <2>4. CASE ProbePath(h)
    BY <2>4 DEF ProbePath, ProbeAt, ProbeReturns, ProbeOnly
  <2> QED
    BY <2>1, <2>2, <2>3, <2>4 DEF Probe
<1>6. CASE Probed
  BY <1>6 DEF Probed
<1>7. CASE Plan
  BY <1>7 DEF Plan, Rollouts
<1>8. CASE \E h \in Hosts : RollHost(h)
  BY <1>8 DEF RollHost, RollDrop, RollBegin, RollSucceed, RollFail, RollCancel, RollOnly,
     Roll!Drop, Roll!Begin, Roll!Succeed, Roll!Fail, Roll!Cancel, Todo, Verdicts
<1>9. CASE Rolled
  BY <1>9 DEF Rolled
<1>10. CASE \E h \in Hosts : BuildOne(h)
  BY <1>10 DEF BuildOne
<1>11. CASE BuildExtra
  BY <1>11 DEF BuildExtra
<1>12. CASE Judge
  BY <1>12 DEF Judge
<1>13. CASE UNCHANGED vars
  BY <1>13 DEF vars
<1>14. CASE \E h \in Hosts : DeployReaches(h)
  BY <1>14 DEF DeployReaches, Deploying
<1>15. CASE LoopNext \/ LoopEnds
  BY <1>15 DEF LoopNext, LoopEnds, LoopOnly, Advance
<1>16. CASE LoopSucceeds
  BY <1>16 DEF LoopSucceeds, LoopOnly, Advance
<1>17. CASE LoopFails
  BY <1>17 DEF LoopFails, LoopOnly, Advance
<1> QED
  BY <1>1, <1>2, <1>3, <1>4, <1>5, <1>6, <1>7, <1>8, <1>9, <1>10, <1>11, <1>12, <1>13,
     <1>14, <1>15, <1>16, <1>17 DEF Next, Main, Loop, Finished

\* The rollout starts from the plan, and with every k3s node seen up.
LEMMA RollStep ==
  ASSUME TypeOK, PlanInv, ProbeInv, RollInv, LoopInv, [Next]_vars
  PROVE  RollInv'
<1> USE DEF RollInv, ProbeInv, PlanInv, TypeOK, Todo, Verdicts, Roll!TypeOK, Roll!Outcomes, worldVars, argVars, planVars, probeVars, rollVars, loopVars, summaryVars, Goto, Exits
<1>1. CASE World
  BY <1>1 DEF World, HostDown, HostUp, PrintStarts, PrintEnds
<1>2. CASE Select
  BY <1>2 DEF Select
<1>3. CASE ResolveToplevels
  BY <1>3 DEF ResolveToplevels
<1>4. CASE BuildEverything
  BY <1>4 DEF BuildEverything
<1>5. CASE \E h \in Hosts : Probe(h)
  BY <1>5 DEF Probe, ProbeAcquire, ProbeSsh, ProbePrinter, ProbePath, ProbeGoto, ProbeReturns, ProbeAt, ProbeOnly
<1>6. CASE Probed
  BY <1>6 DEF Probed
<1>7. CASE Plan
  BY <1>7 DEF Plan, Rollouts, Verdicts
<1>8. CASE \E h \in Hosts : RollHost(h)
  BY <1>8 DEF RollHost, RollDrop, RollBegin, RollSucceed, RollFail, RollCancel, RollOnly,
     Roll!Drop, Roll!Begin, Roll!Succeed, Roll!Fail, Roll!Cancel, Todo, Verdicts
<1>9. CASE Rolled
  BY <1>9 DEF Rolled
<1>10. CASE \E h \in Hosts : BuildOne(h)
  BY <1>10 DEF BuildOne
<1>11. CASE BuildExtra
  BY <1>11 DEF BuildExtra
<1>12. CASE Judge
  BY <1>12 DEF Judge
<1>13. CASE UNCHANGED vars
  BY <1>13 DEF vars
<1>14. CASE \E h \in Hosts : DeployReaches(h)
  BY <1>14 DEF DeployReaches, Deploying, LoopInv
<1>15. CASE LoopNext \/ LoopEnds
  BY <1>15 DEF LoopNext, LoopEnds, LoopOnly, Advance
<1>16. CASE LoopSucceeds
  BY <1>16 DEF LoopSucceeds, LoopOnly, Advance
<1>17. CASE LoopFails
  BY <1>17 DEF LoopFails, LoopOnly, Advance
<1> QED
  BY <1>1, <1>2, <1>3, <1>4, <1>5, <1>6, <1>7, <1>8, <1>9, <1>10, <1>11, <1>12, <1>13,
     <1>14, <1>15, <1>16, <1>17 DEF Next, Main, Loop, Finished

\* The loop takes todo up host by host, and stops at a failure it may not pass.
LEMMA LoopStep ==
  ASSUME TypeOK, PlanInv, ProbeInv, RollInv, LoopInv, [Next]_vars
  PROVE  LoopInv'
<1> DEFINE early == {"select", "resolve", "build", "probe", "plan"}
<1> USE DEF worldVars, argVars, planVars, probeVars, rollVars, loopVars, summaryVars, Goto, Exits
<1>1. CASE World \/ (\E h \in Hosts : RollHost(h) \/ DeployReaches(h) \/ BuildOne(h)) \/ UNCHANGED vars
  <2>1. UNCHANGED <<pc, mode, pos, deployed, failed, selected, verdict, stopOnFailure>>
    BY <1>1 DEF World, RollHost, RollDrop, RollBegin, RollSucceed, RollFail, RollCancel, RollOnly,
       Roll!Drop, Roll!Begin, Roll!Succeed, Roll!Fail, Roll!Cancel, DeployReaches, BuildOne, vars
  <2> QED
    BY <2>1 DEF LoopInv, Passed, Todo, Verdicts, LoopHalted, LoopOutcome
<1>2. CASE Select \/ ResolveToplevels \/ BuildEverything \/ Probed \/ \E h \in Hosts : Probe(h)
  <2>1. pc \in early /\ pc' \in early \cup {"done"} /\ UNCHANGED <<mode, pos, deployed, failed>>
    BY <1>2 DEF Select, ResolveToplevels, BuildEverything, Probed, Probe, ProbeAcquire, ProbeSsh,
       ProbePrinter, ProbePath, ProbeGoto, ProbeReturns, ProbeAt, ProbeOnly
  <2> QED
    BY <2>1 DEF LoopInv
<1>3. CASE Plan
  <2>1. pc' \in {"done", Rollouts} /\ pos = 1 /\ deployed = {} /\ UNCHANGED <<mode, pos, deployed, selected, verdict>>
    BY <1>3 DEF Plan, LoopInv
  <2>2. Todo' \cap failed' = {} /\ \A h \in failed' : verdict'[h] = "failed"
    BY <1>3 DEF Plan, Todo, Verdicts
  <2>3. Passed' = {}
    BY <2>1 DEF Passed
  <2>4. ~LoopHalted'
    BY <2>2 DEF LoopHalted, LoopOutcome
  <2> QED
    BY <2>1, <2>2, <2>3, <2>4 DEF LoopInv, Rollouts
<1>4. CASE Rolled
  BY <1>4 DEF Rolled, LoopInv, RollInv
<1>5. CASE BuildExtra \/ Judge
  BY <1>5 DEF BuildExtra, Judge, LoopInv, RollInv
<1>6. CASE LoopNext /\ AllHosts[pos] \in Todo
  <2>1. pc = "loop" /\ pc' = "deploy" /\ UNCHANGED <<pos, mode, deployed, failed, selected, verdict, stopOnFailure>>
    BY <1>6 DEF LoopNext, LoopOnly
  <2>2. ~LoopHalted'
    BY <2>1 DEF LoopInv, LoopHalted, LoopOutcome
  <2>3. Todo' = Todo /\ Passed' = Passed
    BY <2>1 DEF Todo, Verdicts, Passed
  <2> QED
    BY <1>6, <2>1, <2>2, <2>3 DEF LoopInv, LoopNext
<1>7. CASE LoopNext /\ AllHosts[pos] \notin Todo
  <2>1. pc = "loop" /\ pc' = "loop" /\ UNCHANGED <<mode, deployed, failed, selected, verdict, stopOnFailure>>
    BY <1>7 DEF LoopNext, LoopOnly
  <2>2. Passed' = Passed \cup {AllHosts[pos]} /\ Todo' = Todo
    BY <1>7, <2>1, PassedOne DEF LoopNext, TypeOK, Todo, Verdicts
  <2>3. ~LoopHalted'
    BY <2>1 DEF LoopInv, LoopHalted, LoopOutcome
  <2> QED
    BY <1>7, <2>1, <2>2, <2>3 DEF LoopInv, RollInv
<1>8. CASE LoopSucceeds
  <2> DEFINE h == AllHosts[pos]
  <2>1. pc = "deploy" /\ pc' = "loop" /\ deployed' = deployed \cup {h} /\ Advance
        /\ UNCHANGED <<mode, failed, selected, verdict, stopOnFailure>>
    BY <1>8 DEF LoopSucceeds, LoopOnly
  <2>2. pos \in 1 .. Len(AllHosts) /\ h \in Hosts /\ h \in Todo /\ h \notin deployed /\ h \notin failed
    BY <2>1, LoopHere
  <2>3. Passed' = Passed \cup {h} /\ Todo' = Todo
    BY <2>1, <2>2, PassedOne DEF Todo, Verdicts
  <2>4. ~LoopHalted'
    BY <2>1, <2>2 DEF LoopInv, LoopHalted, LoopOutcome
  <2> QED
    BY <2>1, <2>2, <2>3, <2>4 DEF LoopInv, RollInv
<1>9. CASE LoopFails
  <2> DEFINE h == AllHosts[pos]
  <2>1. pc = "deploy" /\ failed' = failed \cup {h} /\ UNCHANGED <<mode, deployed, selected, verdict, stopOnFailure>>
    BY <1>9 DEF LoopFails, LoopOnly
  <2>2. pos \in 1 .. Len(AllHosts) /\ h \in Hosts /\ h \in Todo /\ h \notin deployed /\ h \notin failed
    BY <2>1, LoopHere
  <2>3. Todo' = Todo /\ mode = "serial" /\ verdict[h] = "todo"
    BY <2>1, <2>2 DEF Todo, Verdicts, RollInv
  <2>4. CASE h \in K3s \/ stopOnFailure
    <3>1. pc' = "extra" /\ pos' = pos
      BY <1>9, <2>4, Zenon DEF LoopFails
    <3>2. PICK g \in Hosts : g = AllHosts[pos]
      BY <2>2
    <3>3. LoopOutcome(g)' = "failed" /\ (g \in K3s \/ stopOnFailure')
      BY <2>1, <2>2, <2>3, <2>4, <3>1, <3>2 DEF LoopOutcome
    <3>4. LoopHalted'
      BY <3>3 DEF LoopHalted
    <3> QED
      BY <2>1, <2>2, <2>3, <3>1, <3>4 DEF LoopInv
  <2>5. CASE ~(h \in K3s \/ stopOnFailure)
    <3>1. pc' = "loop" /\ Advance
      BY <1>9, <2>5, Zenon DEF LoopFails, Goto
    <3>2. Passed' = Passed \cup {h}
      BY <2>2, <3>1, PassedOne
    <3>3. ~LoopHalted'
      BY <2>1, <2>2, <2>5, <3>1 DEF LoopInv, LoopHalted, LoopOutcome
    <3> QED
      BY <2>1, <2>2, <2>3, <3>1, <3>2, <3>3 DEF LoopInv
  <2> QED
    BY <2>4, <2>5
<1>10. CASE LoopEnds
  <2>1. pc = "loop" /\ pc' = "extra" /\ UNCHANGED <<mode, pos, deployed, failed, selected, verdict>>
        /\ Hosts \subseteq Passed
    BY <1>10, PassedAll DEF LoopEnds, LoopOnly
  <2>2. Todo \subseteq deployed \cup failed /\ Todo' = Todo
    BY <2>1 DEF LoopInv, Todo, Verdicts, TypeOK
  <2> QED
    BY <2>1, <2>2 DEF LoopInv
<1> QED
  BY <1>1, <1>2, <1>3, <1>4, <1>5, <1>6, <1>7, <1>8, <1>9, <1>10 DEF Next, Main, Loop, Finished

\* The summary takes every host of the selection up.
LEMMA SummaryStep ==
  ASSUME TypeOK, PlanInv, ProbeInv, RollInv, LoopInv, SummaryInv, [Next]_vars
  PROVE  SummaryInv'
<1> DEFINE rolling == {"roll", "loop", "deploy", "extra", "judge"}
<1> USE DEF worldVars, argVars, planVars, probeVars, rollVars, loopVars, summaryVars, Goto, Exits
<1>1. CASE World \/ (\E h \in Hosts : RollHost(h) \/ DeployReaches(h) \/ BuildOne(h)) \/ UNCHANGED vars
  <2>1. UNCHANGED <<pc, mode, force, failed, skipped, selected, verdict, deployed, pos>>
        /\ (pc \in {"extra", "judge"} => UNCHANGED outcome)
    BY <1>1 DEF World, RollHost, RollDrop, RollBegin, RollSucceed, RollFail, RollCancel, RollOnly,
       Roll!Drop, Roll!Begin, Roll!Succeed, Roll!Fail, Roll!Cancel, DeployReaches, BuildOne, vars
  <2> QED
    BY <2>1 DEF SummaryInv, Settled, OutcomeOf, LoopOutcome, Todo, Verdicts
<1>2. CASE Select \/ ResolveToplevels \/ BuildEverything \/ Probed \/ \E h \in Hosts : Probe(h)
  <2>1. pc' \notin rolling /\ UNCHANGED <<force, skipped>>
    BY <1>2 DEF Select, ResolveToplevels, BuildEverything, Probed, Probe, ProbeAcquire, ProbeSsh,
       ProbePrinter, ProbePath, ProbeGoto, ProbeReturns, ProbeAt, ProbeOnly
  <2> QED
    BY <2>1 DEF SummaryInv
<1>3. CASE Plan
  <2>1. \A h \in selected : verdict[h] \in {"failed", "skipped", "todo"}
    BY <1>3 DEF Plan, ProbeInv, TypeOK
  <2>2. pc' \notin {"extra", "judge"} /\ Todo' = Todo /\ failed' = Verdicts("failed") /\ skipped' = Verdicts("skipped")
        /\ UNCHANGED <<force, selected>>
    BY <1>3 DEF Plan, Rollouts, Todo, Verdicts
  <2> QED
    BY <2>1, <2>2 DEF SummaryInv, ProbeInv, Verdicts, Todo, TypeOK
<1>4. CASE Rolled
  <2>1. pc = "roll" /\ pc' = "judge" /\ mode = "safe" /\ UNCHANGED <<force, skipped, selected, verdict, outcome, mode>>
        /\ failed' = failed \cup {h \in Todo : outcome[h] \in StatusFailed} /\ Todo' = Todo
    BY <1>4 DEF Rolled, RollInv, Todo, Verdicts
  <2>2. \A h \in Todo : h \in failed' \/ outcome[h] = "deployed"
    BY <1>4, <2>1 DEF Rolled, TypeOK, Roll!TypeOK, Roll!Outcomes, StatusFailed, Todo, Verdicts
  <2> QED
    BY <2>1, <2>2 DEF SummaryInv, Settled, OutcomeOf, Todo, Verdicts, TypeOK
<1>5. CASE BuildExtra \/ Judge
  <2>1. pc \in {"extra", "judge"} /\ pc' \in {"judge", "done"}
        /\ UNCHANGED <<force, mode, failed, skipped, selected, verdict, outcome, deployed>>
    BY <1>5 DEF BuildExtra, Judge
  <2> QED
    BY <2>1 DEF SummaryInv, Settled, OutcomeOf, LoopOutcome, Todo, Verdicts
<1>6. CASE Loop
  <2>1. pc \in {"loop", "deploy"} /\ pc' \in {"loop", "deploy", "extra"} /\ mode = "serial" /\ mode' = "serial"
        /\ UNCHANGED <<force, skipped, selected, verdict>> /\ Todo' = Todo
    BY <1>6 DEF Loop, LoopNext, LoopSucceeds, LoopFails, LoopEnds, LoopOnly, Advance, RollInv, Todo, Verdicts
  <2>2. failed' = failed \/ (pc = "deploy" /\ failed' = failed \cup {AllHosts[pos]})
    <3>1. LoopFails => pc = "deploy" /\ failed' = failed \cup {AllHosts[pos]}
      BY Zenon DEF LoopFails
    <3>2. LoopNext \/ LoopSucceeds \/ LoopEnds => failed' = failed
      BY DEF LoopNext, LoopSucceeds, LoopEnds
    <3> QED
      BY <1>6, <3>1, <3>2 DEF Loop
  <2>3. failed' \cup skipped' \cup Todo' = selected'
    BY <2>1, <2>2, LoopHere DEF SummaryInv
  <2>4. ASSUME pc' = "extra", NEW h \in selected PROVE Settled(h)'
    <3>1. LoopInv'
      BY LoopStep
    <3>2. h \in failed' \cup skipped' \/ h \in Todo'
      BY <2>3, <2>1
    <3>3. LoopHalted' => failed' # {}
      BY <2>4 DEF LoopHalted, LoopOutcome
    <3>4. h \in deployed' => LoopOutcome(h)' = "deployed"
      BY <2>4 DEF LoopOutcome
    <3>5. LoopOutcome(h)' \in {"deployed", "failed", "pending"} /\ (LoopOutcome(h)' = "failed" => h \in failed')
      BY <2>4 DEF LoopOutcome
    <3> QED
      BY <2>1, <2>4, <3>1, <3>2, <3>3, <3>4, <3>5 DEF Settled, LoopInv, OutcomeOf
  <2> QED
    BY <2>1, <2>3, <2>4 DEF SummaryInv
<1> QED
  BY <1>1, <1>2, <1>3, <1>4, <1>5, <1>6 DEF Next, Main, Finished

\* The two things an exit says, from what was on record when run came to it.
LEMMA ExitStep ==
  ASSUME TypeOK, RunInv, [Next]_vars
  PROVE  SuccessIsTotal' /\ SummaryAccounts'
<1> USE DEF RunInv, TypeOK, worldVars, argVars, planVars, probeVars, rollVars, loopVars, summaryVars, Goto, Exits
<1> USE DEF SuccessIsTotal, SummaryAccounts
<1>1. CASE Select \/ ResolveToplevels
  BY <1>1 DEF Select, ResolveToplevels, PlanInv, RollInv, LoopInv, OutcomeOf, LoopOutcome
<1>2. CASE BuildEverything
  <2>1. build /\ touched' = {}
    BY <1>2 DEF BuildEverything, PlanInv, RollInv
  <2>2. ASSUME exit' = "ok" PROVE selected' \cup buildOnly' \subseteq built'
    <3>1. buildFailed' = {} /\ selected' = selected /\ buildOnly' = buildOnly
      BY <1>2, <2>2 DEF BuildEverything
    <3> QED
      BY <1>2, <3>1 DEF BuildEverything, NotBuilt
  <2> QED
    BY <1>2, <2>1, <2>2 DEF BuildEverything
<1>3. CASE Plan
  BY <1>3 DEF Plan, Rollouts, PlanInv, RollInv, LoopInv, OutcomeOf, LoopOutcome
<1>4. CASE Judge
  <2>1. pc = "judge" /\ UNCHANGED <<selected, buildOnly, built, force, build, mode, verdict, outcome, deployed, skipped, failed>>
    BY <1>4 DEF Judge
  <2>2. \A h \in Hosts : OutcomeOf(h)' = OutcomeOf(h)
    BY <1>4, <2>1 DEF OutcomeOf, LoopOutcome, Judge
  <2>3. ~build /\ \A h \in selected : Settled(h)
    BY <2>1 DEF PlanInv, SummaryInv
  <2>4. exit' = "ok" => failed = {} /\ buildOnly \subseteq built
    BY <1>4 DEF Judge, NotBuilt
  <2>5. exit' = "failed" \/ exit' = "ok"
    BY <1>4 DEF Judge
  <2> QED
    BY <2>1, <2>2, <2>3, <2>4, <2>5 DEF SummaryInv, Settled
<1>5. CASE Probed \/ Rolled \/ Loop \/ BuildExtra \/ World
  BY <1>5 DEF Probed, Rolled, Loop, LoopNext, LoopSucceeds, LoopFails, LoopEnds, BuildExtra, World, PlanInv
<1>6. CASE \E h \in Hosts : Probe(h) \/ RollHost(h) \/ DeployReaches(h) \/ BuildOne(h)
  <2>1. pc' = pc /\ exit' = exit /\ pc # "done"
    BY <1>6 DEF Probe, ProbeAcquire, ProbeSsh, ProbePrinter, ProbePath, ProbeAt, ProbeOnly, RollHost,
       RollDrop, RollBegin, RollSucceed, RollFail, RollCancel, RollOnly, DeployReaches, Deploying, BuildOne
  <2> QED
    BY <2>1 DEF PlanInv
<1>7. CASE UNCHANGED vars
  BY <1>7 DEF vars, OutcomeOf, LoopOutcome
<1> QED
  BY <1>1, <1>2, <1>3, <1>4, <1>5, <1>6, <1>7 DEF Next, Main, Finished

-----------------------------------------------------------------------------
(***************************************************************************)
(* The theorems.                                                           *)
(***************************************************************************)

\* The invariant holds at the start and after every step.
LEMMA RunInvariant == Spec => [](TypeOK /\ RunInv)
<1>1. Init => TypeOK /\ RunInv
  <2> SUFFICES ASSUME Init PROVE TypeOK /\ RunInv
    OBVIOUS
  <2> USE DeployRunAssumption DEF Init, Roll!Init
  <2>1. pos \in 1 .. Len(AllHosts) + 1
    BY LenProperties
  <2>2. Roll!TypeOK
    BY DEF Roll!TypeOK, Roll!Outcomes
  <2>3. TypeOK
    BY <2>1, <2>2 DEF TypeOK
  <2>4. PlanInv
    BY DEF PlanInv
  <2>5. ProbeInv
    BY DEF ProbeInv
  <2>6. RollInv /\ LoopInv /\ SummaryInv /\ SuccessIsTotal /\ SummaryAccounts
    BY DEF RollInv, LoopInv, Passed, SummaryInv, SuccessIsTotal, SummaryAccounts
  <2> QED
    BY <2>3, <2>4, <2>5, <2>6 DEF RunInv
<1>2. TypeOK /\ RunInv /\ [Next]_vars => (TypeOK /\ RunInv)'
  BY TypeStep, PlanStep, ProbeStep, RollStep, LoopStep, SummaryStep, ExitStep DEF RunInv
<1> QED
  BY <1>1, <1>2, PTL DEF Spec

\* Every reachable state of a run is well typed.
THEOREM RunTyped == Spec => []TypeOK
BY RunInvariant, PTL

\* Exit code 0 leaves nothing out (main.go 150-163, 273-286): the summary's
\* sets cover the selection, and a serial loop that broke off leaves a failure.
THEOREM SuccessTotal == Spec => []SuccessIsTotal
<1>1. RunInv => SuccessIsTotal
  BY DEF RunInv
<1> QED
  BY <1>1, RunInvariant, PTL

\* A host the summary does not name was deployed, or the run says that it
\* failed (main.go 213-271).
THEOREM SummaryComplete == Spec => []SummaryAccounts
<1>1. RunInv => SummaryAccounts
  BY DEF RunInv
<1> QED
  BY <1>1, RunInvariant, PTL

\* No host is changed while a k3s node has been unreachable since before the
\* run (main.go 226-238): its probe can only fail, and a failed k3s node ends
\* the run before its rollout, however the probes and the outage interleave.
THEOREM QuorumGuarded == Spec => []QuorumGuard
<1>1. RunInv => QuorumGuard
  BY DEF RunInv, RollInv, QuorumGuard
<1> QED
  BY <1>1, RunInvariant, PTL

\* No printer is deployed to during a print that began before the run, unless
\* --force is given (precheck.go 79-91): no such printer gets the verdict todo.
THEOREM PrintsSpared == Spec => []PrintSpared
<1>1. TypeOK /\ RunInv => PrintSpared
  BY DEF RunInv, RollInv, ProbeInv, PrintSpared, TypeOK, Todo, Verdicts
<1> QED
  BY <1>1, RunInvariant, PTL

-----------------------------------------------------------------------------
(***************************************************************************)
(* The refinement.                                                         *)
(***************************************************************************)

\* The loop's steps are steps of Rollout: LoopNext begins a host, LoopSucceeds and
\* LoopFails end it; nothing else in the run changes what the loop has on record.
LEMMA LoopRefines ==
  ASSUME TypeOK, RunInv, [Next]_vars
  PROVE  [LoopRoll!Next]_(LoopRoll!vars)
<1> DEFINE now == [g \in Hosts |-> LoopOutcome(g)]
<1> USE DEF worldVars, argVars, planVars, probeVars, rollVars, loopVars, summaryVars, Goto, Exits
<1>0. PlanInv /\ ProbeInv /\ RollInv /\ LoopInv
  BY DEF RunInv
<1>1. ASSUME \A g \in Hosts : LoopOutcome(g)' = LoopOutcome(g), stopOnFailure' = stopOnFailure
      PROVE  UNCHANGED LoopRoll!vars
  <2>1. now' = now
    BY <1>1
  <2>2. LoopHalted' <=> LoopHalted
    BY <1>1 DEF LoopHalted
  <2> QED
    BY <1>1, <2>1, <2>2, Zenon DEF LoopRoll!vars
<1>2. ASSUME \A g \in Hosts : g \in failed /\ verdict[g] = "todo" <=> g \in failed' /\ verdict'[g] = "todo",
             pc # "deploy", pc' # "deploy", UNCHANGED <<deployed, mode, stopOnFailure>>
      PROVE  UNCHANGED LoopRoll!vars
  BY <1>1, <1>2, OutcomeStays
<1>3. CASE World \/ (\E h \in Hosts : DeployReaches(h) \/ BuildOne(h)) \/ UNCHANGED vars
  <2>1. UNCHANGED <<pc, mode, pos, deployed, failed, verdict, stopOnFailure>>
    BY <1>3 DEF World, DeployReaches, BuildOne, vars
  <2> QED
    BY <2>1, <1>1 DEF LoopOutcome
<1>4. CASE Select \/ ResolveToplevels \/ BuildEverything \/ Probed \/ BuildExtra \/ Judge
  <2>1. pc # "deploy" /\ pc' # "deploy" /\ UNCHANGED <<mode, deployed, failed, verdict, stopOnFailure>>
    BY <1>4 DEF Select, ResolveToplevels, BuildEverything, Probed, BuildExtra, Judge
  <2> QED
    BY <2>1, <1>2
<1>5. CASE \E h \in Hosts : Probe(h)
  <2>1. pc = "probe" /\ pc' = pc /\ UNCHANGED <<mode, deployed, failed, stopOnFailure>>
    BY <1>5 DEF Probe, ProbeAcquire, ProbeSsh, ProbePrinter, ProbePath, ProbeAt, ProbeOnly
  <2>2. failed = {}
    BY <2>1, <1>0 DEF RollInv
  <2> QED
    BY <2>1, <2>2, <1>2
<1>6. CASE Plan
  <2>1. pc = "plan" /\ pc' # "deploy" /\ UNCHANGED <<mode, deployed, verdict, stopOnFailure>>
        /\ failed' = Verdicts("failed")
    BY <1>6 DEF Plan, Rollouts
  <2>2. failed = {}
    BY <2>1, <1>0 DEF RollInv
  <2> QED
    BY <2>1, <2>2, <1>2 DEF Verdicts
<1>7. CASE Rolled \/ \E h \in Hosts : RollHost(h)
  <2>1. pc = "roll" /\ pc' # "deploy" /\ UNCHANGED <<mode, pos, deployed, stopOnFailure>>
    BY <1>7 DEF Rolled, RollHost, RollDrop, RollBegin, RollSucceed, RollFail, RollCancel, RollOnly,
       Roll!Drop, Roll!Begin, Roll!Succeed, Roll!Fail, Roll!Cancel
  <2>2. mode = "safe"
    BY <2>1, <1>0 DEF RollInv
  <2> QED
    BY <2>1, <2>2, <1>1 DEF LoopOutcome
<1>8. CASE LoopEnds \/ (LoopNext /\ AllHosts[pos] \notin Todo)
  <2>1. pc # "deploy" /\ pc' # "deploy" /\ UNCHANGED <<mode, deployed, failed, verdict, stopOnFailure>>
    BY <1>8 DEF LoopEnds, LoopNext, LoopOnly
  <2> QED
    BY <2>1, <1>2
<1>9. CASE LoopNext /\ AllHosts[pos] \in Todo
  <2>1. PICK h \in Hosts : h = AllHosts[pos]
    BY <1>9 DEF Todo, Verdicts, TypeOK
  <2>2. pc = "loop" /\ pc' = "deploy" /\ UNCHANGED <<pos, mode, deployed, failed, selected, verdict, stopOnFailure>>
    BY <1>9 DEF LoopNext, LoopOnly
  <2>3. LoopInv'
    BY <1>0, LoopStep
  <2>4. \A g \in Hosts : LoopOutcome(g)' = IF g = h THEN "active" ELSE LoopOutcome(g)
    BY <2>1, <2>2 DEF LoopOutcome
  <2>5. h \notin deployed /\ h \notin failed
    <3>1. pos' \in 1 .. Len(AllHosts) /\ h \notin Passed'
      BY <1>9, <2>1, <2>2, DeployRunAssumption DEF LoopNext, TypeOK, Passed, IsInjective
    <3>2. h \in Todo'
      BY <1>9, <2>1, <2>2 DEF Todo, Verdicts
    <3> QED
      BY <2>2, <2>3, <3>1, <3>2 DEF LoopInv
  <2>6. LoopOutcome(h) = "pending" /\ \A g \in Hosts : LoopOutcome(g) # "active"
    BY <2>2, <2>5 DEF LoopOutcome
  <2>7. ~LoopHalted /\ ~LoopHalted'
    BY <2>2, <2>3, <1>0 DEF LoopInv
  <2>8. now' = [now EXCEPT ![h] = "active"]
    BY <2>4
  <2>9. LoopRoll!Begin(h)
    <3>1. now[h] = "pending" /\ \A g \in Hosts : now[g] # "active"
      BY <2>6
    <3>2. ~LoopHalted /\ (LoopHalted' <=> LoopHalted)
      BY <2>7
    <3>3. UNCHANGED <<LoopHalted, stopOnFailure>>
      <4>1. LoopHalted \in BOOLEAN /\ LoopHalted' \in BOOLEAN
        BY Zenon DEF LoopHalted
      <4> QED
        BY <2>2, <3>2, <4>1
    <3> HIDE DEF now
    <3>4. now[h] = "pending" /\ ~LoopHalted /\ (\A g \in Hosts : now[g] # "active")
          /\ now' = [now EXCEPT ![h] = "active"] /\ UNCHANGED <<LoopHalted, stopOnFailure>>
      BY <2>8, <3>1, <3>2, <3>3, Zenon
    <3> QED
      BY <3>4, Zenon DEF LoopRoll!Begin, now
  <2> QED
    BY <2>9 DEF LoopRoll!Next
<1>10. CASE LoopSucceeds
  <2>1. PICK h \in Hosts : h = AllHosts[pos] /\ h \notin deployed /\ h \notin failed
    BY <1>10, <1>0, LoopHere DEF LoopSucceeds
  <2>2. pc = "deploy" /\ pc' = "loop" /\ deployed' = deployed \cup {h}
        /\ UNCHANGED <<mode, failed, verdict, stopOnFailure>>
    BY <1>10, <2>1 DEF LoopSucceeds, LoopOnly
  <2>3. \A g \in Hosts : LoopOutcome(g)' = IF g = h THEN "deployed" ELSE LoopOutcome(g)
    BY <2>1, <2>2 DEF LoopOutcome
  <2>4. LoopOutcome(h) = "active"
    BY <2>1, <2>2 DEF LoopOutcome
  <2>5. LoopHalted' <=> LoopHalted
    BY <2>2, <2>3, <2>4 DEF LoopHalted
  <2>6. now' = [now EXCEPT ![h] = "deployed"]
    BY <2>3
  <2>7. LoopRoll!Succeed(h)
    BY <2>2, <2>4, <2>5, <2>6, Zenon DEF LoopRoll!Succeed
  <2> QED
    BY <2>7 DEF LoopRoll!Next
<1>11. CASE LoopFails
  <2>1. PICK h \in Hosts : h = AllHosts[pos] /\ h \notin deployed /\ h \notin failed /\ h \in Todo
    BY <1>11, <1>0, LoopHere DEF LoopFails
  <2>2. pc = "deploy" /\ pc' # "deploy" /\ failed' = failed \cup {h}
        /\ UNCHANGED <<mode, deployed, verdict, stopOnFailure>>
    BY <1>11, <2>1 DEF LoopFails, LoopOnly
  <2>3. mode = "serial" /\ verdict[h] = "todo"
    BY <2>1, <2>2, <1>0 DEF RollInv, Todo, Verdicts
  <2>4. \A g \in Hosts : LoopOutcome(g)' = IF g = h THEN "failed" ELSE LoopOutcome(g)
    BY <2>1, <2>2, <2>3 DEF LoopOutcome
  <2>5. LoopOutcome(h) = "active"
    BY <2>1, <2>2 DEF LoopOutcome
  <2>6. LoopHalted' <=> LoopHalted \/ h \in K3s \/ stopOnFailure
    BY <2>2, <2>4, <2>5 DEF LoopHalted
  <2>7. now' = [now EXCEPT ![h] = "failed"]
    BY <2>4
  <2>8. LoopHalted' = (LoopHalted \/ h \in K3s \/ stopOnFailure)
    <3>1. LoopHalted \in BOOLEAN /\ LoopHalted' \in BOOLEAN
      BY Zenon DEF LoopHalted
    <3> QED
      BY <2>6, <3>1
  <2>9. LoopRoll!Fail(h)
    BY <2>2, <2>5, <2>7, <2>8, Zenon DEF LoopRoll!Fail
  <2> QED
    BY <2>9 DEF LoopRoll!Next
<1> QED
  BY <1>3, <1>4, <1>5, <1>6, <1>7, <1>8, <1>9, <1>10, <1>11 DEF Next, Main, Loop, Finished

\* The loop of main.go 249-266 implements the serial rollout, for any fleet and
\* either --on-failure: its break, its order and its one Deploy at a time are
\* enough, although hosts that failed the precheck stand in the same list of
\* failures.
THEOREM LoopRollout == Spec => LoopImplementsRollout
<1>1. Init => LoopRoll!Init
  <2> SUFFICES ASSUME Init PROVE LoopRoll!Init
    OBVIOUS
  <2>1. \A g \in Hosts : LoopOutcome(g) = "pending"
    BY DEF Init, LoopOutcome
  <2>2. LoopHalted = FALSE
    BY <2>1 DEF LoopHalted
  <2>3. stopOnFailure \in BOOLEAN
    BY DEF Init, Roll!Init
  <2> QED
    BY <2>1, <2>2, <2>3, Zenon DEF LoopRoll!Init
<1> QED
  BY <1>1, LoopRefines, RunInvariant, PTL DEF Spec, LoopRoll!Spec, LoopImplementsRollout

RP == INSTANCE RolloutProofs WITH outcome <- [h \in Hosts |-> LoopOutcome(h)], halted <- LoopHalted

\* So what is proved of the rollout holds of the loop: it leaves at most one k3s
\* node broken, and deploys nothing once one is.
THEOREM LoopRollsK3s == Spec => []LoopRoll!K3sRolling
<1>1. LoopRoll!Init => RP!Init
  BY DEF LoopRoll!Init, RP!Init
<1>2. [LoopRoll!Next]_(LoopRoll!vars) => [RP!Next]_(RP!vars)
  BY DEF LoopRoll!Next, RP!Next, LoopRoll!vars, RP!vars, LoopRoll!Drop, LoopRoll!Begin, LoopRoll!Succeed,
         LoopRoll!Fail, LoopRoll!Cancel, RP!Drop, RP!Begin, RP!Succeed, RP!Fail, RP!Cancel
<1>3. RP!K3sRolling => LoopRoll!K3sRolling
  BY DEF LoopRoll!K3sRolling, RP!K3sRolling
<1>4. RP!Spec => []RP!K3sRolling
  BY RP!RollingK3s
<1> QED
  BY <1>1, <1>2, <1>3, <1>4, LoopRollout, PTL DEF LoopImplementsRollout, LoopRoll!Spec, RP!Spec
=============================================================================
