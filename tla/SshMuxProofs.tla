---------------------------- MODULE SshMuxProofs -----------------------------
(***************************************************************************)
(* Proofs about the shared ssh connections, for any set of hosts and any   *)
(* interleaving of their calls with the network, the masters' timers, the  *)
(* signal handler and Close: SSHRun never dials more often than it may, no *)
(* call rides a master that cannot notice a dead peer, an exit leaves only *)
(* what the code cannot help, and a redial costs no step that the network  *)
(* would have carried.                                                     *)
(***************************************************************************)
EXTENDS SshMux, TLAPS

\* What a call is doing: no call, no session and no attempt; and a call that is
\* about to dial has an attempt left.
CallInv ==
  \A h \in Hosts :
    /\ call[h] = "none" => session[h] = "none" /\ attempt[h] = 0
    /\ session[h] = "none" => attempt[h] < Attempts
    /\ session[h] = "drop" => call[h] \in {"run", "rebuild"} /\ (call[h] = "run" => attempt[h] < Attempts)

\* While nobody signals the process, only main closes, and only once every call
\* has ended.
QuietInv ==
  ~signalled =>
    /\ stage["handler"] = "off" /\ raced = {}
    /\ proc # "running" => \A h \in Hosts : call[h] = "none"
    /\ proc = "running" => stage["main"] = "off"
    /\ stage["main"] = "off" => dir = mux

\* A master that a Close has neither found nor ended was dialled behind its back.
CloseInv ==
  /\ proc = "exited" => \E c \in Closers : stage[c] = "removed"
  /\ \A h \in Hosts : orphan[h] # "none" =>
       h \in unheeded \cup raced /\ \E c \in Closers : stage[c] = "removed"
  /\ \A c \in Closers : stage[c] = "exits" =>
       \A h \in Hosts : master[h] # "none" => h \in pending[c] \cup unheeded \cup raced
  /\ \A c \in Closers : stage[c] = "removed" => ~dir /\ \A h \in Hosts : master[h] = "none"

\* Only shared calls have masters.
MuxInv == \A h \in Hosts : master[h] # "none" => mux

MuxTyped == TypeOK /\ CallInv

\* A call dials only with an attempt left, and a return resets it.
LEMMA MuxTypedStep == MuxTyped /\ [Next]_vars => MuxTyped'
<1> SUFFICES ASSUME MuxTyped, [Next]_vars PROVE MuxTyped'
  OBVIOUS
<1> USE SshMuxAssumption DEF MuxTyped, TypeOK, CallInv, Kinds, Closers, Masters,
        netVars, masterVars, dialVars, callVars, closeVars
<1>1. ASSUME NEW h \in Hosts, NetDown(h) PROVE MuxTyped'
  BY <1>1 DEF NetDown, Broken
<1>2. ASSUME NEW h \in Hosts, NetUp(h) PROVE MuxTyped'
  BY <1>2 DEF NetUp
<1>3. ASSUME NEW h \in Hosts, Notice(h) PROVE MuxTyped'
  BY <1>3 DEF Notice, CutMux
<1>4. ASSUME NEW h \in Hosts, Persist(h) PROVE MuxTyped'
  BY <1>4 DEF Persist
<1>5. ASSUME NEW h \in Hosts, Connect(h) PROVE MuxTyped'
  BY <1>5 DEF Connect, Dials
<1>6. ASSUME NEW h \in Hosts, Answer(h) PROVE MuxTyped'
  <2>1. Returns(h) \/ (WillDrop(h) /\ call[h] = "rebuild")
    BY <1>6, Zenon DEF Answer
  <2>2. CASE Returns(h)
    BY <1>6, <2>2 DEF Answer, Returns
  <2>3. CASE WillDrop(h) /\ call[h] = "rebuild"
    BY <1>6, <2>3 DEF Answer, WillDrop
  <2> QED
    BY <2>1, <2>2, <2>3
<1>7. ASSUME NEW h \in Hosts, TransportFails(h) PROVE MuxTyped'
  <2>1. CASE Redial(h) \/ (call[h] = "rebuild" /\ mux)
    <3>1. session' = [session EXCEPT ![h] = "drop"] /\ UNCHANGED <<call, attempt, sawDown>>
      BY <1>7, <2>1, Zenon DEF TransportFails, WillDrop
    <3>2. (attempt[h] < Attempts /\ call[h] = "run") \/ call[h] = "rebuild"
      BY <2>1 DEF Redial
    <3> QED
      BY <1>7, <3>1, <3>2 DEF TransportFails
  <2>2. CASE ~(Redial(h) \/ (call[h] = "rebuild" /\ mux))
    <3>1. Returns(h)
      BY <1>7, <2>2, Zenon DEF TransportFails
    <3> QED
      BY <1>7, <3>1 DEF TransportFails, Returns
  <2> QED
    BY <2>1, <2>2
<1>8. ASSUME NEW h \in Hosts, DropAndGo(h) PROVE MuxTyped'
  <2>1. master' \in [Hosts -> Masters] /\ UNCHANGED <<keepalive, raced>> /\ unheeded' \subseteq Hosts
    BY <1>8 DEF DropAndGo, ExitMaster, dialVars
  <2>2. CASE call[h] = "rebuild"
    <3>1. Returns(h)
      BY <1>8, <2>2, Zenon DEF DropAndGo, AfterDrop
    <3> QED
      BY <1>8, <2>1, <3>1 DEF DropAndGo, Returns
  <2>3. CASE call[h] # "rebuild"
    <3>1. session' = [session EXCEPT ![h] = "none"] /\ UNCHANGED <<call, attempt, sawDown>> /\ session[h] = "drop"
      BY <1>8, <2>3, Zenon DEF DropAndGo, AfterDrop
    <3>2. call[h] = "run" /\ attempt[h] < Attempts
      BY <2>3, <3>1
    <3>3. CallInv'
      BY <1>8, <3>1, <3>2 DEF DropAndGo
    <3>4. UNCHANGED <<mux, net, orphan, dir, proc, signalled, pending, stage>>
      BY <1>8, Zenon DEF DropAndGo, closeVars
    <3> QED
      BY <2>1, <3>1, <3>3, <3>4
  <2> QED
    BY <2>2, <2>3
<1>9. ASSUME NEW h \in Hosts, Drop(h) PROVE MuxTyped'
  BY <1>9 DEF Drop, ExitMaster
<1>10. ASSUME NEW h \in Hosts, Outlived(h) PROVE MuxTyped'
  BY <1>10 DEF Outlived, Returns
<1>11. ASSUME NEW h \in Hosts, NEW k \in Kinds, Start(h, k) PROVE MuxTyped'
  BY <1>11 DEF Start
<1>12. CASE Signal \/ RunReturns \/ Kill
  <2>1. UNCHANGED <<mux, netVars, masterVars, dialVars, callVars, closeVars>>
    BY <1>12, Zenon DEF Signal, RunReturns, Kill
  <2>2. proc' \in {"running", "closing", "exited", "killed"} /\ signalled' \in BOOLEAN
    BY <1>12, Zenon DEF Signal, RunReturns, Kill
  <2> QED
    BY <2>1, <2>2
<1>13. ASSUME NEW c \in Closers, CloseGlob(c) PROVE MuxTyped'
  BY <1>13 DEF CloseGlob
<1>14. ASSUME NEW c \in Closers, CloseExit(c) PROVE MuxTyped'
  BY <1>14 DEF CloseExit, ExitMaster, CutMux
<1>15. ASSUME NEW c \in Closers, CloseRemove(c) PROVE MuxTyped'
  BY <1>15 DEF CloseRemove
<1>16. ASSUME NEW c \in Closers, Exit(c) PROVE MuxTyped'
  BY <1>16 DEF Exit
<1>17. CASE UNCHANGED vars
  BY <1>17 DEF vars
<1> QED
  BY <1>1, <1>2, <1>3, <1>4, <1>5, <1>6, <1>7, <1>8, <1>9, <1>10, <1>11, <1>12, <1>13, <1>14, <1>15,
     <1>16, <1>17 DEF Next, Call, Close

\* So the counts and sessions of the calls are in order in every reachable state.
LEMMA AlwaysMuxTyped == Spec => []MuxTyped
<1>1. Init => MuxTyped
  <2> SUFFICES ASSUME Init PROVE MuxTyped
    OBVIOUS
  <2>1. mux \in BOOLEAN /\ dir \in BOOLEAN /\ signalled \in BOOLEAN
    BY Zenon DEF Init
  <2>2. /\ net \subseteq Hosts /\ proc = "running" /\ attempt \in [Hosts -> 0 .. Attempts]
        /\ sawDown \in [Hosts -> BOOLEAN]
    BY SshMuxAssumption DEF Init
  <2>3. CallInv
    <3>1. attempt = [h \in Hosts |-> 0] /\ session = [h \in Hosts |-> "none"]
      BY Zenon DEF Init
    <3>2. Attempts \in Nat /\ 0 < Attempts
      BY SshMuxAssumption
    <3> SUFFICES ASSUME NEW h \in Hosts PROVE attempt[h] = 0 /\ session[h] = "none"
      BY <3>2 DEF CallInv
    <3> QED
      BY <3>1
  <2> QED
    BY <2>1, <2>2, <2>3, Zenon DEF Init, MuxTyped, TypeOK, Masters
<1> QED
  BY <1>1, MuxTypedStep, PTL DEF Spec

\* Every reachable state is well typed; in particular no call dials more often
\* than Attempts (SSHRun, ssh.go 206-220).
THEOREM MuxIsTyped == Spec => []TypeOK
<1>1. MuxTyped => TypeOK
  BY DEF MuxTyped
<1> QED
  BY <1>1, AlwaysMuxTyped, PTL

-----------------------------------------------------------------------------
(***************************************************************************)
(* What a run leaves behind.                                               *)
(***************************************************************************)

LeaveInv == MuxInv /\ QuietInv /\ CloseInv

\* An "ssh -O exit" ends a master, or leaves it among those that did not heed it.
LEMMA ExitLeaves ==
  ASSUME MuxTyped, LeaveInv, NEW h \in Hosts, ExitMaster(h),
         UNCHANGED <<mux, orphan, dir, proc, signalled, pending, stage>>,
         \A g \in Hosts : call'[g] \in {"none", call[g]}
  PROVE  LeaveInv'
<1> USE DEF MuxTyped, TypeOK, LeaveInv, MuxInv, QuietInv, CloseInv, Closers, Masters, dialVars
<1>1. raced' = raced /\ unheeded \subseteq unheeded'
  BY DEF ExitMaster
<1>2. \A g \in Hosts : master'[g] \in {"none", master[g]}
  BY DEF ExitMaster
<1>3. MuxInv' /\ QuietInv'
  BY <1>1, <1>2
<1>4. ASSUME NEW c \in Closers, stage[c] = "exits", NEW g \in Hosts, master'[g] # "none"
      PROVE  g \in pending[c] \cup unheeded' \cup raced
  <2>1. g \in pending[c] \cup unheeded \cup raced
    BY <1>2, <1>4
  <2> QED
    BY <1>1, <2>1
<1>5. CloseInv'
  BY <1>1, <1>2, <1>4
<1> QED
  BY <1>3, <1>5

\* What Close leaves it has seen, or it was dialled after Close had looked.
LEMMA LeaveStep == MuxTyped /\ LeaveInv /\ [Next]_vars => LeaveInv'
<1> SUFFICES ASSUME MuxTyped, LeaveInv, [Next]_vars PROVE LeaveInv'
  OBVIOUS
<1> USE DEF MuxTyped, TypeOK, CallInv, LeaveInv, MuxInv, QuietInv, CloseInv, Kinds, Closers, Masters,
        netVars, masterVars, dialVars, callVars, closeVars
<1>1. ASSUME NEW h \in Hosts, NetDown(h) PROVE LeaveInv'
  BY <1>1 DEF NetDown, Broken
<1>2. ASSUME NEW h \in Hosts, NetUp(h) PROVE LeaveInv'
  BY <1>2 DEF NetUp
<1>3. ASSUME NEW h \in Hosts, Notice(h) PROVE LeaveInv'
  BY <1>3 DEF Notice
<1>4. ASSUME NEW h \in Hosts, Persist(h) PROVE LeaveInv'
  BY <1>4 DEF Persist
<1>5. ASSUME NEW h \in Hosts, Connect(h), proc \notin {"exited", "killed"} PROVE LeaveInv'
  BY <1>5 DEF Connect, Shared, Dials
<1>6. ASSUME NEW h \in Hosts, Answer(h) PROVE LeaveInv'
  BY <1>6 DEF Answer, Returns, WillDrop
<1>7. ASSUME NEW h \in Hosts, TransportFails(h) PROVE LeaveInv'
  BY <1>7 DEF TransportFails, Returns, WillDrop
<1>8. ASSUME NEW h \in Hosts, DropAndGo(h) PROVE LeaveInv'
  <2>1. \A g \in Hosts : call'[g] \in {"none", call[g]}
    BY <1>8 DEF DropAndGo, AfterDrop, Returns
  <2>2. ExitMaster(h) /\ UNCHANGED <<mux, orphan, dir, proc, signalled, pending, stage>>
    BY <1>8 DEF DropAndGo
  <2> QED
    BY <2>1, <2>2, ExitLeaves
<1>9. ASSUME NEW h \in Hosts, Drop(h) PROVE LeaveInv'
  <2>1. ExitMaster(h) /\ UNCHANGED <<mux, orphan, dir, proc, signalled, pending, stage, call>>
    BY <1>9 DEF Drop
  <2> QED
    BY <2>1, ExitLeaves
<1>10. ASSUME NEW h \in Hosts, Outlived(h) PROVE LeaveInv'
  BY <1>10 DEF Outlived, Returns
<1>11. ASSUME NEW h \in Hosts, NEW k \in Kinds, Start(h, k) PROVE LeaveInv'
  BY <1>11 DEF Start
<1>12. CASE Signal
  BY <1>12 DEF Signal
<1>13. CASE RunReturns
  BY <1>13 DEF RunReturns
<1>14. CASE Kill
  BY <1>14 DEF Kill
<1>15. ASSUME NEW c \in Closers, CloseGlob(c) PROVE LeaveInv'
  BY <1>15 DEF CloseGlob, MayClose
<1>16. ASSUME NEW c \in Closers, CloseExit(c) PROVE LeaveInv'
  BY <1>16 DEF CloseExit, MayClose, ExitMaster
<1>17. ASSUME NEW c \in Closers, CloseRemove(c) PROVE LeaveInv'
  BY <1>17 DEF CloseRemove, MayClose
<1>18. ASSUME NEW c \in Closers, Exit(c) PROVE LeaveInv'
  BY <1>18 DEF Exit, MayClose
<1>19. CASE UNCHANGED vars
  BY <1>19 DEF vars
<1> QED
  BY <1>1, <1>2, <1>3, <1>4, <1>5, <1>6, <1>7, <1>8, <1>9, <1>10, <1>11, <1>12, <1>13, <1>14, <1>15,
     <1>16, <1>17, <1>18, <1>19 DEF Next, Call, Close

\* So the stages of Close are in order in every reachable state.
LEMMA AlwaysLeave == Spec => []LeaveInv
<1>1. Init => LeaveInv
  BY DEF Init, LeaveInv, MuxInv, QuietInv, CloseInv, Closers
<1> QED
  BY <1>1, LeaveStep, AlwaysMuxTyped, PTL DEF Spec

\* However the Closes, the calls and the signal interleave, a process that exits
\* leaves no directory, no socket, and no master but one that would not exit or
\* one dialled behind an interrupt's Close (main.go 101-103, 288-302,
\* ssh.go 123-147).
THEOREM OnlyRacedLeft == Spec => []ExitLeavesOnlyRaced
<1>1. LeaveInv => ExitLeavesOnlyRaced
  <2> SUFFICES ASSUME LeaveInv, proc = "exited"
               PROVE  /\ ~dir
                      /\ \A h \in Hosts :
                           master[h] = "none" /\ (orphan[h] # "none" => h \in unheeded \/ (signalled /\ h \in raced))
    BY DEF ExitLeavesOnlyRaced
  <2>1. ~dir /\ \A h \in Hosts : master[h] = "none"
    BY DEF LeaveInv, CloseInv
  <2>2. ASSUME NEW h \in Hosts, orphan[h] # "none", h \notin unheeded PROVE signalled /\ h \in raced
    BY <2>2 DEF LeaveInv, CloseInv, QuietInv
  <2> QED
    BY <2>1, <2>2
<1> QED
  BY <1>1, AlwaysLeave, PTL

-----------------------------------------------------------------------------
(***************************************************************************)
(* Which masters the calls ride.                                           *)
(***************************************************************************)

\* A master that cannot notice a dead peer is nixos-rebuild's, for as long as its
\* call lasts, or it would not exit.
DeafInv ==
  /\ SessionsNotice
  /\ proc \notin {"exited", "killed"} =>
       \A h \in Hosts : master[h] # "none" /\ h \notin keepalive => call[h] = "rebuild" \/ h \in unheeded

\* nixos-rebuild's call ends with a drop of its master, whatever came of it.
LEMMA DeafStep == MuxTyped /\ LeaveInv /\ DeafInv /\ [Next]_vars => DeafInv'
<1> SUFFICES ASSUME MuxTyped, LeaveInv, DeafInv, [Next]_vars PROVE DeafInv'
  OBVIOUS
<1> USE DEF MuxTyped, TypeOK, CallInv, LeaveInv, MuxInv, DeafInv, SessionsNotice, Kinds, Closers, Masters,
        netVars, masterVars, dialVars, callVars, closeVars
<1>1. ASSUME NEW h \in Hosts, NetDown(h) PROVE DeafInv'
  BY <1>1 DEF NetDown, Broken
<1>2. ASSUME NEW h \in Hosts, NetUp(h) PROVE DeafInv'
  BY <1>2 DEF NetUp
<1>3. ASSUME NEW h \in Hosts, Notice(h) PROVE DeafInv'
  BY <1>3 DEF Notice, CutMux
<1>4. ASSUME NEW h \in Hosts, Persist(h) PROVE DeafInv'
  BY <1>4 DEF Persist
<1>5. ASSUME NEW h \in Hosts, Connect(h), proc \notin {"exited", "killed"} PROVE DeafInv'
  BY <1>5 DEF Connect, Shared, Dials
<1>6. ASSUME NEW h \in Hosts, Answer(h) PROVE DeafInv'
  BY <1>6 DEF Answer, Returns, WillDrop
<1>7. ASSUME NEW h \in Hosts, TransportFails(h) PROVE DeafInv'
  BY <1>7 DEF TransportFails, Returns, WillDrop
<1>8. ASSUME NEW h \in Hosts, DropAndGo(h) PROVE DeafInv'
  BY <1>8 DEF DropAndGo, AfterDrop, Returns, ExitMaster
<1>9. ASSUME NEW h \in Hosts, Drop(h) PROVE DeafInv'
  BY <1>9 DEF Drop, ExitMaster
<1>10. ASSUME NEW h \in Hosts, Outlived(h) PROVE DeafInv'
  BY <1>10 DEF Outlived, Returns
<1>11. ASSUME NEW h \in Hosts, NEW k \in Kinds, Start(h, k) PROVE DeafInv'
  BY <1>11 DEF Start
<1>12. CASE Signal \/ RunReturns \/ Kill
  BY <1>12 DEF Signal, RunReturns, Kill
<1>13. ASSUME NEW c \in Closers, CloseGlob(c) PROVE DeafInv'
  BY <1>13 DEF CloseGlob
<1>14. ASSUME NEW c \in Closers, CloseExit(c) PROVE DeafInv'
  BY <1>14 DEF CloseExit, ExitMaster, CutMux
<1>15. ASSUME NEW c \in Closers, CloseRemove(c) PROVE DeafInv'
  BY <1>15 DEF CloseRemove
<1>16. ASSUME NEW c \in Closers, Exit(c) PROVE DeafInv'
  BY <1>16 DEF Exit
<1>17. CASE UNCHANGED vars
  BY <1>17 DEF vars
<1> QED
  BY <1>1, <1>2, <1>3, <1>4, <1>5, <1>6, <1>7, <1>8, <1>9, <1>10, <1>11, <1>12, <1>13, <1>14, <1>15,
     <1>16, <1>17 DEF Next, Call, Close

\* No call waits on a master that cannot notice a dead peer, but nixos-rebuild's
\* own and those on one that would not exit: deployUnsafe's Drop comes before any
\* later call for the host (deploy.go 218-221, ssh.go 90-98, 166-173).
THEOREM NoDeafSession == Spec => []SessionsNotice
<1>1. Init => DeafInv
  BY DEF Init, DeafInv, SessionsNotice
<1>2. DeafInv => SessionsNotice
  BY DEF DeafInv
<1> QED
  BY <1>1, <1>2, DeafStep, AlwaysMuxTyped, AlwaysLeave, PTL DEF Spec

-----------------------------------------------------------------------------
(***************************************************************************)
(* What a redial is worth.                                                 *)
(***************************************************************************)

\* The second attempt of a shared call dials a master of its own: between Drop
\* and the dial no other call can make one, and a fresh master carries the
\* session for as long as the network does.
RedialOf(h) ==
  /\ session[h] # "own"
  /\ session[h] = "none" /\ attempt[h] > 0 => master[h] = "none" \/ h \in unheeded
  /\ session[h] \in {"mux", "cut"} /\ attempt[h] > 1 /\ ~sawDown[h] =>
       (session[h] = "mux" /\ h \in net /\ master[h] = "live") \/ h \in unheeded

RedialInv == ~signalled /\ mux => \A h \in Hosts : call[h] = "run" => RedialOf(h)

\* Only the host's own call, Drop, Close and the network touch the master it dialled.
LEMMA RedialStep == MuxTyped /\ LeaveInv /\ RedialInv /\ [Next]_vars => RedialInv'
<1> SUFFICES ASSUME MuxTyped, LeaveInv, RedialInv, [Next]_vars PROVE RedialInv'
  OBVIOUS
<1> USE DEF MuxTyped, TypeOK, CallInv, LeaveInv, QuietInv, CloseInv, RedialInv, RedialOf, Kinds, Closers, Masters,
        netVars, masterVars, dialVars, callVars, closeVars
<1>1. ASSUME NEW h \in Hosts, NetDown(h) PROVE RedialInv'
  <2> SUFFICES ASSUME ~signalled', mux', NEW g \in Hosts, call'[g] = "run" PROVE RedialOf(g)'
    BY DEF RedialInv
  <2>1. RedialOf(g) /\ call[g] = "run"
    BY <1>1 DEF NetDown
  <2>2. CASE g # h
    BY <1>1, <2>1, <2>2 DEF NetDown
  <2>3. CASE g = h
    <3>1. session[h] = "none" => session'[h] = "none" /\ (master[h] = "none" => master'[h] = "none")
      BY <1>1, <2>1, <2>3 DEF NetDown, Broken
    <3> QED
      BY <1>1, <2>1, <2>3, <3>1 DEF NetDown, Broken
  <2> QED
    BY <2>2, <2>3
<1>2. ASSUME NEW h \in Hosts, NetUp(h) PROVE RedialInv'
  BY <1>2 DEF NetUp
<1>3. ASSUME NEW h \in Hosts, Notice(h) PROVE RedialInv'
  BY <1>3 DEF Notice, CutMux
<1>4. ASSUME NEW h \in Hosts, Persist(h) PROVE RedialInv'
  BY <1>4 DEF Persist
<1>5. ASSUME NEW h \in Hosts, Connect(h), proc \notin {"exited", "killed"} PROVE RedialInv'
  <2> SUFFICES ASSUME ~signalled', mux', NEW g \in Hosts, call'[g] = "run" PROVE RedialOf(g)'
    BY DEF RedialInv
  <2>1. RedialOf(g) /\ call[g] = "run" /\ mux /\ ~signalled
    BY <1>5 DEF Connect
  <2>2. CASE g # h
    BY <1>5, <2>1, <2>2 DEF Connect, Dials
  <2>3. CASE g = h
    <3>1. dir /\ Shared(h)
      BY <1>5, <2>1, <2>3 DEF Shared
    <3>2. attempt[h] > 0 => master[h] = "none" \/ h \in unheeded
      BY <1>5, <2>1, <2>3 DEF Connect
    <3>3. attempt'[h] = attempt[h] + 1 /\ (sawDown'[h] <=> h \notin net) /\ net' = net
      BY <1>5 DEF Connect
    <3>4. \/ session'[h] = "mux" /\ master[h] # "none" /\ unheeded' = unheeded
          \/ session'[h] = "mux" /\ master'[h] = "live" /\ h \in net
          \/ session'[h] = "cut" /\ h \notin net
      BY <1>5, <3>1 DEF Connect, Dials
    <3> QED
      BY <2>1, <2>3, <3>2, <3>3, <3>4
  <2> QED
    BY <2>2, <2>3
<1>6. ASSUME NEW h \in Hosts, Answer(h) PROVE RedialInv'
  BY <1>6 DEF Answer, Returns, WillDrop
<1>7. ASSUME NEW h \in Hosts, TransportFails(h) PROVE RedialInv'
  BY <1>7 DEF TransportFails, Returns, WillDrop
<1>8. ASSUME NEW h \in Hosts, DropAndGo(h) PROVE RedialInv'
  BY <1>8 DEF DropAndGo, AfterDrop, Returns, ExitMaster
<1>9. ASSUME NEW h \in Hosts, Drop(h) PROVE RedialInv'
  BY <1>9 DEF Drop, ExitMaster
<1>10. ASSUME NEW h \in Hosts, Outlived(h) PROVE RedialInv'
  BY <1>10 DEF Outlived, Returns
<1>11. ASSUME NEW h \in Hosts, NEW k \in Kinds, Start(h, k) PROVE RedialInv'
  BY <1>11 DEF Start
<1>12. CASE Signal \/ RunReturns \/ Kill
  BY <1>12 DEF Signal, RunReturns, Kill
<1>13. ASSUME NEW c \in Closers, CloseGlob(c) PROVE RedialInv'
  BY <1>13 DEF CloseGlob
<1>14. ASSUME NEW c \in Closers, CloseExit(c) PROVE RedialInv'
  BY <1>14 DEF CloseExit, MayClose, ExitMaster, CutMux
<1>15. ASSUME NEW c \in Closers, CloseRemove(c) PROVE RedialInv'
  BY <1>15 DEF CloseRemove, MayClose
<1>16. ASSUME NEW c \in Closers, Exit(c) PROVE RedialInv'
  BY <1>16 DEF Exit
<1>17. CASE UNCHANGED vars
  BY <1>17 DEF vars
<1> QED
  BY <1>1, <1>2, <1>3, <1>4, <1>5, <1>6, <1>7, <1>8, <1>9, <1>10, <1>11, <1>12, <1>13, <1>14, <1>15,
     <1>16, <1>17 DEF Next, Call, Close

\* A call that ends without an answer, in a process nobody interrupts.
Lost(h) == call[h] = "run" /\ call'[h] = "none" /\ ~Carries(h) /\ mux /\ ~signalled'

\* A call that is lost has used its last attempt, on a master of its own unless
\* the old one would not exit.
LEMMA LostStep ==
  ASSUME Attempts > 1, MuxTyped, LeaveInv, RedialInv, [Next]_vars, NEW h \in Hosts, Lost(h)
  PROVE  sawDown[h] \/ h \in unheeded
<1> USE DEF Lost, MuxTyped, TypeOK, netVars, masterVars, dialVars, callVars, closeVars
<1>1. ASSUME NEW g \in Hosts, TransportFails(g) PROVE sawDown[h] \/ h \in unheeded
  <2>1. g = h
    BY <1>1 DEF TransportFails, Returns, WillDrop
  <2>2. ~Redial(h) /\ session[h] \in {"mux", "own", "cut"} /\ ~signalled
    BY <1>1, <2>1, SshMuxAssumption DEF TransportFails, Returns, WillDrop
  <2>3. attempt[h] > 1
    BY <2>2, SshMuxAssumption DEF Redial
  <2> QED
    BY <2>2, <2>3 DEF RedialInv, RedialOf, Carries
<1>2. ASSUME NEW g \in Hosts, Outlived(g) PROVE FALSE
  BY <1>2 DEF Outlived, Returns, LeaveInv, QuietInv
<1>3. ASSUME NEW g \in Hosts, Answer(g) PROVE FALSE
  BY <1>3 DEF Answer, Returns, WillDrop
<1>6. ASSUME NEW g \in Hosts, DropAndGo(g) PROVE FALSE
  BY <1>6 DEF DropAndGo, AfterDrop, Returns
<1>4. ASSUME NEW g \in Hosts, NetDown(g) \/ NetUp(g) \/ Notice(g) \/ Persist(g) \/ Connect(g)
               \/ Drop(g) \/ \E k \in Kinds : Start(g, k)
      PROVE FALSE
  BY <1>4 DEF NetDown, NetUp, Notice, Persist, Connect, Drop, Start, Kinds
<1>5. ASSUME Signal \/ RunReturns \/ Kill \/ (\E c \in Closers : Close(c)) \/ UNCHANGED vars PROVE FALSE
  BY <1>5 DEF Signal, RunReturns, Kill, Close, CloseGlob, CloseExit, CloseRemove, Exit, vars
<1> QED
  BY <1>1, <1>2, <1>3, <1>4, <1>5, <1>6 DEF Next, Call

\* "A drop costs a reconnect instead of a failed deploy step": once SSHRun dials
\* twice or more, it fails for want of a connection only if the network failed
\* during its last attempt, if the master it was to discard did not heed its
\* exit, or if the process is being interrupted (ssh.go 206-220).
THEOREM RedialWorks ==
  ASSUME Attempts > 1
  PROVE  Spec => RedialSurvives
<1>1. Init => RedialInv
  BY DEF Init, RedialInv, RedialOf
<1>2. MuxTyped /\ LeaveInv /\ RedialInv /\ [Next]_vars
        => [\A h \in Hosts :
              call[h] = "run" /\ call'[h] = "none" /\ ~Carries(h) /\ mux /\ ~signalled'
                => sawDown[h] \/ h \in unheeded]_vars
  BY LostStep DEF Lost
<1> QED
  BY <1>1, <1>2, RedialStep, AlwaysMuxTyped, AlwaysLeave, PTL DEF Spec, RedialSurvives
=============================================================================
