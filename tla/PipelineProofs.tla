--------------------------- MODULE PipelineProofs ----------------------------
(***************************************************************************)
(* Proofs about RunPipeline, for any fleet, any number of copy workers and *)
(* any interleaving of the goroutines.                                     *)
(***************************************************************************)
EXTENDS Pipeline, FiniteSetTheorems, TLAPS

-----------------------------------------------------------------------------
(***************************************************************************)
(* Sequences without repetition: the poller's lists and the two channels.  *)
(***************************************************************************)

\* Receiving takes the head, and only the head.
LEMMA TakeHead ==
  ASSUME NEW S, NEW s \in Seq(S), IsInjective(s), s # <<>>
  PROVE  /\ Tail(s) \in Seq(S) /\ Head(s) \in S /\ Head(s) \in ToSet(s) /\ IsInjective(Tail(s))
         /\ ToSet(Tail(s)) = ToSet(s) \ {Head(s)}
<1>1. s # <<>> /\ Len(s) \in Nat /\ DOMAIN s = 1 .. Len(s) /\ Len(s) > 0
  OBVIOUS
<1>2. /\ Tail(s) \in Seq(S) /\ Head(s) \in S /\ Head(s) = s[1]
      /\ DOMAIN Tail(s) = 1 .. Len(s) - 1 /\ \A i \in 1 .. Len(s) - 1 : Tail(s)[i] = s[i + 1]
  BY <1>1
<1>3. Head(s) \in ToSet(s)
  BY <1>1, <1>2 DEF ToSet
<1>4. IsInjective(Tail(s))
  BY <1>1, <1>2 DEF IsInjective
<1>5. ToSet(Tail(s)) \subseteq ToSet(s) \ {Head(s)}
  BY <1>1, <1>2 DEF ToSet, IsInjective
<1>6. ASSUME NEW x \in ToSet(s), x # Head(s) PROVE x \in ToSet(Tail(s))
  <2>1. PICK i \in 1 .. Len(s) : x = s[i]
    BY <1>1 DEF ToSet
  <2>2. i - 1 \in 1 .. Len(s) - 1 /\ (i - 1) + 1 = i
    BY <1>1, <1>2, <1>6, <2>1
  <2> QED
    BY <1>2, <2>1, <2>2 DEF ToSet
<1> QED
  BY <1>2, <1>3, <1>4, <1>5, <1>6

\* Sending adds one host.
LEMMA SendOne ==
  ASSUME NEW S, NEW s \in Seq(S), IsInjective(s), NEW x \in S, x \notin ToSet(s)
  PROVE  /\ Append(s, x) \in Seq(S) /\ IsInjective(Append(s, x))
         /\ ToSet(Append(s, x)) = ToSet(s) \cup {x}
<1>1. Len(s) \in Nat /\ DOMAIN s = 1 .. Len(s)
  OBVIOUS
<1>2. /\ Append(s, x) \in Seq(S) /\ DOMAIN Append(s, x) = 1 .. Len(s) + 1
      /\ Append(s, x)[Len(s) + 1] = x /\ \A i \in 1 .. Len(s) : Append(s, x)[i] = s[i]
  BY <1>1
<1>3. \A i \in 1 .. Len(s) : s[i] # x
  BY <1>1 DEF ToSet
<1>4. IsInjective(Append(s, x))
  BY <1>1, <1>2, <1>3 DEF IsInjective
<1>5. ToSet(Append(s, x)) = ToSet(s) \cup {x}
  BY <1>1, <1>2 DEF ToSet
<1> QED
  BY <1>2, <1>4, <1>5

\* A sequence without repetition is as long as the set of its elements is large.
LEMMA SeqCount ==
  ASSUME NEW S, NEW s \in Seq(S), IsInjective(s)
  PROVE  IsFiniteSet(ToSet(s)) /\ Cardinality(ToSet(s)) = Len(s)
<1>1. Len(s) \in Nat /\ DOMAIN s = 1 .. Len(s)
  OBVIOUS
<1>2. s \in Surjection(1 .. Len(s), ToSet(s)) /\ s \in Injection(1 .. Len(s), ToSet(s))
  BY <1>1 DEF ToSet, Surjection, Injection, IsInjective
<1>3. IsFiniteSet(1 .. Len(s)) /\ Cardinality(1 .. Len(s)) = Len(s)
  BY <1>1, FS_Interval
<1> QED
  BY <1>2, <1>3, FS_Surjection

\* A channel with room for all of T blocks nobody who still holds one of T.
LEMMA RoomLeft ==
  ASSUME NEW T, IsFiniteSet(T), NEW s \in Seq(T), IsInjective(s), NEW x \in T, x \notin ToSet(s)
  PROVE  Len(s) < Cardinality(T)
<1>1. ToSet(s) \in SUBSET T
  BY DEF ToSet
<1>2. Cardinality(ToSet(s)) <= Cardinality(T) /\ (Cardinality(T) = Cardinality(ToSet(s)) => T = ToSet(s))
  BY <1>1, FS_Subset
<1>3. Cardinality(T) \in Nat /\ Len(s) \in Nat /\ Cardinality(ToSet(s)) = Len(s)
  BY SeqCount, FS_CardinalityType
<1> QED
  BY <1>2, <1>3

\* Any number of hosts of the fleet is finite.
LEMMA FleetFinite ==
  ASSUME NEW T \in SUBSET HostSet
  PROVE  IsFiniteSet(T)
<1>1. Hosts \in Seq(HostSet) /\ Len(Hosts) \in Nat /\ DOMAIN Hosts = 1 .. Len(Hosts)
  BY PipelineAssumption
<1>2. Hosts \in Surjection(1 .. Len(Hosts), HostSet)
  BY <1>1 DEF HostSet, ToSet, Surjection
<1>3. IsFiniteSet(HostSet)
  BY <1>1, <1>2, FS_Interval, FS_Surjection
<1> QED
  BY <1>3, FS_Subset

\* InOrder lists every host of its set once.
LEMMA InOrderLists ==
  ASSUME NEW T \in SUBSET HostSet, NEW s \in InOrder(T)
  PROVE  s \in Seq(T) /\ IsInjective(s) /\ ToSet(s) = T
<1>1. IsFiniteSet(T) /\ Cardinality(T) \in Nat
  BY FleetFinite, FS_CardinalityType
<1>2. s \in [1 .. Cardinality(T) -> T] /\ IsInjective(s)
  BY DEF InOrder, SetToSeqs, IsInjective
<1>3. s \in Seq(T) /\ Len(s) = Cardinality(T)
  BY <1>1, <1>2
<1>4. ToSet(s) \in SUBSET T /\ Cardinality(ToSet(s)) = Cardinality(T)
  BY <1>2, <1>3, SeqCount DEF ToSet
<1> QED
  BY <1>1, <1>2, <1>3, <1>4, FS_Subset

-----------------------------------------------------------------------------
(***************************************************************************)
(* Types.                                                                  *)
(***************************************************************************)

\* The workers hold hosts of this run.
PipeTyped ==
  /\ TypeOK
  /\ active \in todo \cup {None}
  /\ \A w \in Workers : copying[w] \in todo \cup {None} /\ sending[w] \in todo \cup {None}

\* What the goroutines pass on is what they were given.
LEMMA PipeTypedStep == PipeTyped /\ [Next]_vars => PipeTyped'
<1> SUFFICES ASSUME PipeTyped, [Next]_vars PROVE PipeTyped'
  OBVIOUS
<1> USE PipelineAssumption DEF PipeTyped, TypeOK, Slots, Statuses, buildVars, pollVars, copyVars, actVars, mainVars
<1>1. ASSUME NEW d \in HostSet \cup BuildOnly, BuildOne(d) PROVE PipeTyped'
  BY <1>1 DEF BuildOne
<1>2. CASE BuildExits
  BY <1>2 DEF BuildExits
<1>3. CASE PollEmpty
  BY <1>3 DEF PollEmpty
<1>4. CASE PollSelect
  BY <1>4 DEF PollSelect
<1>5. CASE PollHost
  <2>1. Head(left) \in todo /\ Tail(left) \in Seq(todo)
    BY <1>5 DEF PollHost
  <2>2. /\ left' = Tail(left) /\ todo' = todo
        /\ missing' = missing \/ missing' = Append(missing, Head(left))
        /\ copyCh' = copyCh \/ copyCh' = Append(copyCh, Head(left))
    BY <1>5 DEF PollHost
  <2>3. left' \in Seq(todo') /\ missing' \in Seq(todo') /\ copyCh' \in Seq(todo')
    <3>1. Append(missing, Head(left)) \in Seq(todo) /\ Append(copyCh, Head(left)) \in Seq(todo)
      BY <2>1
    <3> QED
      BY <2>1, <2>2, <3>1
  <2>4. UNCHANGED <<buildVars, poller, copyClosed, copying, sending, exited, onTarget, actVars, mainVars, status>>
    BY <1>5 DEF PollHost
  <2> QED
    BY <2>3, <2>4
<1>6. CASE PollSwept
  BY <1>6 DEF PollSwept
<1>7. CASE PollUnbuilt
  BY <1>7 DEF PollUnbuilt
<1>8. CASE PollFinal
  BY <1>8 DEF PollFinal
<1>9. ASSUME NEW w \in Workers, CopyTake(w) PROVE PipeTyped'
  BY <1>9 DEF CopyTake
<1>10. ASSUME NEW w \in Workers, CopyEnds(w) PROVE PipeTyped'
  <2>1. copying[w] \in todo /\ copying' = [copying EXCEPT ![w] = None]
    BY <1>10 DEF CopyEnds
  <2>2. CASE onTarget' = onTarget \cup {copying[w]} /\ sending' = [sending EXCEPT ![w] = copying[w]]
             /\ UNCHANGED status
    BY <1>10, <2>1, <2>2 DEF CopyEnds
  <2>3. CASE status' = [status EXCEPT ![copying[w]] = "CopyFailed"] /\ UNCHANGED <<onTarget, sending>>
    BY <1>10, <2>1, <2>3 DEF CopyEnds
  <2> QED
    BY <1>10, <2>2, <2>3 DEF CopyEnds
<1>11. ASSUME NEW w \in Workers, CopySend(w) PROVE PipeTyped'
  BY <1>11 DEF CopySend
<1>12. ASSUME NEW w \in Workers, CopyExits(w) PROVE PipeTyped'
  BY <1>12 DEF CopyExits
<1>13. CASE CloseActCh
  BY <1>13 DEF CloseActCh
<1>14. CASE ActTake
  BY <1>14 DEF ActTake
<1>15. CASE ActEnds
  BY <1>15 DEF ActEnds
<1>16. CASE Return
  BY <1>16 DEF Return
<1>17. ASSUME NEW d \in BuildOnly, Judge(d) PROVE PipeTyped'
  BY <1>17 DEF Judge
<1>18. CASE UNCHANGED vars
  BY <1>18 DEF vars
<1> QED
  BY <1>1, <1>2, <1>3, <1>4, <1>5, <1>6, <1>7, <1>8, <1>9, <1>10, <1>11, <1>12, <1>13, <1>14, <1>15, <1>16,
     <1>17, <1>18 DEF Next, Build, Poll, Copy, Activate, Finished

\* So the workers hold hosts of this run in every reachable state.
LEMMA AlwaysPipeTyped == Spec => []PipeTyped
<1>1. Init => PipeTyped
  <2> SUFFICES ASSUME Init PROVE PipeTyped
    OBVIOUS
  <2>1. todo \subseteq HostSet /\ upToDate \subseteq todo
    BY DEF Init, Planned
  <2>2. left \in Seq(todo) /\ actCh \in Seq(todo)
    <3>1. todo \ upToDate \in SUBSET HostSet /\ upToDate \in SUBSET HostSet
      BY <2>1
    <3>2. left \in Seq(todo \ upToDate) /\ actCh \in Seq(upToDate)
      BY <3>1, InOrderLists DEF Init
    <3> QED
      BY <2>1, <3>2
  <2>3. /\ buildDone \in BOOLEAN /\ copyClosed \in BOOLEAN /\ actClosed \in BOOLEAN
        /\ stopped \in BOOLEAN /\ returned \in BOOLEAN
    BY Zenon DEF Init
  <2>4. missing \in Seq(todo) /\ copyCh \in Seq(todo) /\ onTarget \subseteq HostSet
    BY <2>1 DEF Init
  <2>5. building \subseteq HostSet \cup BuildOnly /\ store \subseteq HostSet \cup BuildOnly
    BY <2>1 DEF Init
  <2> QED
    BY <2>1, <2>2, <2>3, <2>4, <2>5 DEF Init, PipeTyped, TypeOK, Slots, Statuses
<1> QED
  BY <1>1, PipeTypedStep, PTL DEF Spec

\* Every reachable state is well typed: only hosts of this run are polled for,
\* copied, activated and given a status (RunPipeline, pipeline.go 76-147).
THEOREM PipelineTyped == Spec => []TypeOK
<1>1. PipeTyped => TypeOK
  BY DEF PipeTyped
<1> QED
  BY <1>1, AlwaysPipeTyped, PTL

-----------------------------------------------------------------------------
(***************************************************************************)
(* Where a host is.                                                        *)
(***************************************************************************)

Places == {"left", "missing", "copyCh", "copying", "sending", "actCh", "active", "succeeded", "failed"}

\* at says where each host is, and each is in that one place only.
Placed(at) ==
  /\ at \in [todo -> Places]
  /\ \A h \in todo :
       /\ h \in ToSet(left) <=> at[h] = "left"
       /\ h \in ToSet(missing) <=> at[h] = "missing"
       /\ h \in ToSet(copyCh) <=> at[h] = "copyCh"
       /\ (\E w \in Workers : copying[w] = h) <=> at[h] = "copying"
       /\ (\E w \in Workers : sending[w] = h) <=> at[h] = "sending"
       /\ h \in ToSet(actCh) <=> at[h] = "actCh"
       /\ h = active <=> at[h] = "active"
       /\ h \in succeeded <=> at[h] = "succeeded"
       /\ status[h] # "Deployed" <=> at[h] = "failed"
       /\ at[h] \in {"sending", "actCh", "active"} => h \in onTarget

\* No host is twice in the place it is in, and no worker holds two.
Once ==
  /\ IsInjective(left) /\ IsInjective(missing) /\ IsInjective(copyCh) /\ IsInjective(actCh)
  /\ \A v, w \in Workers :
       /\ copying[v] = copying[w] /\ copying[v] # None => v = w
       /\ sending[v] = sending[w] /\ sending[v] # None => v = w
  /\ \A w \in Workers : copying[w] = None \/ sending[w] = None

\* Every host is in exactly one place, once: none is lost and none is doubled.
PlaceInv == Once /\ \E at \in [todo -> Places] : Placed(at)

\* A step that moves no host.
LEMMA PlaceKept ==
  ASSUME PlaceInv, UNCHANGED <<todo, left, missing, copyCh, copying, sending, actCh, active, succeeded, status,
                               onTarget>>
  PROVE  PlaceInv'
BY DEF PlaceInv, Once, Placed

\* Every step moves at most one host, from one place to the next.
LEMMA PlaceStep == PipeTyped /\ PlaceInv /\ [Next]_vars => PlaceInv'
<1> SUFFICES ASSUME PipeTyped, PlaceInv, [Next]_vars PROVE PlaceInv'
  OBVIOUS
<1> USE PipelineAssumption DEF PipeTyped, TypeOK, Slots, Statuses, Once, Placed, Places,
        buildVars, pollVars, copyVars, actVars, mainVars
<1> PICK at \in [todo -> Places] : Placed(at)
  BY DEF PlaceInv
<1>0. Once
  BY DEF PlaceInv
<1>1. CASE \/ Build \/ PollEmpty \/ PollSelect \/ PollFinal \/ (\E w \in Workers : CopyExits(w)) \/ CloseActCh
           \/ Return \/ (\E d \in BuildOnly : Judge(d)) \/ UNCHANGED vars
  BY <1>1, PlaceKept DEF Build, BuildOne, BuildExits, PollEmpty, PollSelect, PollFinal, CopyExits, CloseActCh,
     Return, Judge, vars
<1>2. CASE PollHost
  <2> PICK h \in todo : h = Head(left)
    BY <1>2 DEF PollHost
  <2>1. /\ left' = Tail(left) /\ h \in ToSet(left) /\ IsInjective(left')
        /\ ToSet(left') = ToSet(left) \ {h}
    BY <1>0, <1>2, TakeHead DEF PollHost
  <2>2. UNCHANGED <<todo, copying, sending, actCh, active, succeeded, status, onTarget>>
    BY <1>2 DEF PollHost
  <2>3. CASE copyCh' = Append(copyCh, h) /\ missing' = missing
    <3> DEFINE at2 == [at EXCEPT ![h] = "copyCh"]
    <3>1. h \notin ToSet(copyCh)
      BY <2>1
    <3>2. IsInjective(copyCh') /\ ToSet(copyCh') = ToSet(copyCh) \cup {h}
      BY <1>0, <2>3, <3>1, SendOne
    <3>3. Once'
      BY <1>0, <2>1, <2>2, <2>3, <3>2
    <3>4. at2 \in [todo' -> Places] /\ Placed(at2)'
      BY <2>1, <2>2, <2>3, <3>2
    <3> QED
      BY <3>3, <3>4 DEF PlaceInv
  <2>4. CASE missing' = Append(missing, h) /\ copyCh' = copyCh
    <3> DEFINE at2 == [at EXCEPT ![h] = "missing"]
    <3>1. h \notin ToSet(missing)
      BY <2>1
    <3>2. IsInjective(missing') /\ ToSet(missing') = ToSet(missing) \cup {h}
      BY <1>0, <2>4, <3>1, SendOne
    <3>3. Once'
      BY <1>0, <2>1, <2>2, <2>4, <3>2
    <3>4. at2 \in [todo' -> Places] /\ Placed(at2)'
      BY <2>1, <2>2, <2>4, <3>2
    <3> QED
      BY <3>3, <3>4 DEF PlaceInv
  <2> QED
    BY <1>2, <2>3, <2>4 DEF PollHost
<1>3. CASE PollSwept
  <2> DEFINE at2 == [h \in todo |-> IF at[h] = "missing" THEN "left" ELSE at[h]]
  <2>1. ToSet(left) = {} /\ left' = missing /\ missing' = <<>> /\ ToSet(missing') = {} /\ IsInjective(missing')
    BY <1>3 DEF PollSwept, ToSet, IsInjective
  <2>2. UNCHANGED <<todo, copyCh, copying, sending, actCh, active, succeeded, status, onTarget>>
    BY <1>3 DEF PollSwept
  <2>3. Once'
    BY <1>0, <2>1, <2>2
  <2>4. at2 \in [todo' -> Places] /\ Placed(at2)'
    BY <2>1, <2>2
  <2> QED
    BY <2>3, <2>4 DEF PlaceInv
<1>4. CASE PollUnbuilt
  <2> PICK h \in todo : h = Head(missing)
    BY <1>4 DEF PollUnbuilt
  <2> DEFINE at2 == [at EXCEPT ![h] = "failed"]
  <2>1. /\ missing' = Tail(missing) /\ h \in ToSet(missing) /\ IsInjective(missing')
        /\ ToSet(missing') = ToSet(missing) \ {h}
    BY <1>0, <1>4, TakeHead DEF PollUnbuilt
  <2>2. /\ UNCHANGED <<todo, left, copyCh, copying, sending, actCh, active, succeeded, onTarget>>
        /\ status' = [status EXCEPT ![h] = "BuildFailed"]
    BY <1>4 DEF PollUnbuilt
  <2>3. Once'
    BY <1>0, <2>1, <2>2
  <2>4. at2 \in [todo' -> Places] /\ Placed(at2)'
    BY <2>1, <2>2
  <2> QED
    BY <2>3, <2>4 DEF PlaceInv
<1>5. ASSUME NEW w \in Workers, CopyTake(w) PROVE PlaceInv'
  <2> PICK h \in todo : h = Head(copyCh)
    BY <1>5 DEF CopyTake
  <2> DEFINE at2 == [at EXCEPT ![h] = "copying"]
  <2>1. /\ copyCh' = Tail(copyCh) /\ h \in ToSet(copyCh) /\ IsInjective(copyCh')
        /\ ToSet(copyCh') = ToSet(copyCh) \ {h}
    BY <1>0, <1>5, TakeHead DEF CopyTake
  <2>2. /\ UNCHANGED <<todo, left, missing, sending, actCh, active, succeeded, status, onTarget>>
        /\ copying[w] = None /\ sending[w] = None /\ copying' = [copying EXCEPT ![w] = h]
    BY <1>5 DEF CopyTake
  <2>3. Once'
    <3>1. \A v \in Workers : copying[v] # h
      <4>1. at[h] = "copyCh"
        BY <2>1
      <4> QED
        BY <4>1
    <3>2. \A v \in Workers : copying'[v] = IF v = w THEN h ELSE copying[v]
      BY <2>2
    <3> QED
      BY <1>0, <2>1, <2>2, <3>1, <3>2
  <2>4. at2 \in [todo' -> Places] /\ Placed(at2)'
    BY <2>1, <2>2
  <2> QED
    BY <2>3, <2>4 DEF PlaceInv
<1>6. ASSUME NEW w \in Workers, CopyEnds(w) PROVE PlaceInv'
  <2> PICK h \in todo : h = copying[w]
    BY <1>6 DEF CopyEnds
  <2>1. /\ UNCHANGED <<todo, left, missing, copyCh, actCh, active, succeeded>>
        /\ copying' = [copying EXCEPT ![w] = None] /\ h # None
    BY <1>6 DEF CopyEnds
  <2>2. \A g \in todo : (\E v \in Workers : copying'[v] = g) <=> at[g] = "copying" /\ g # h
    BY <1>0, <2>1
  <2>3. CASE onTarget' = onTarget \cup {h} /\ sending' = [sending EXCEPT ![w] = h] /\ UNCHANGED status
    <3> DEFINE at2 == [at EXCEPT ![h] = "sending"]
    <3>0. sending[w] = None
      BY <1>0, <2>1
    <3>1. Once'
      BY <1>0, <2>1, <2>3
    <3>2. at2 \in [todo' -> Places] /\ Placed(at2)'
      BY <2>1, <2>2, <2>3, <3>0
    <3> QED
      BY <3>1, <3>2 DEF PlaceInv
  <2>4. CASE status' = [status EXCEPT ![h] = "CopyFailed"] /\ UNCHANGED <<onTarget, sending>>
    <3> DEFINE at2 == [at EXCEPT ![h] = "failed"]
    <3>1. Once'
      BY <1>0, <2>1, <2>4
    <3>2. at2 \in [todo' -> Places] /\ Placed(at2)'
      BY <2>1, <2>2, <2>4
    <3> QED
      BY <3>1, <3>2 DEF PlaceInv
  <2> QED
    BY <1>6, <2>3, <2>4 DEF CopyEnds
<1>7. ASSUME NEW w \in Workers, CopySend(w) PROVE PlaceInv'
  <2> PICK h \in todo : h = sending[w]
    BY <1>7 DEF CopySend
  <2> DEFINE at2 == [at EXCEPT ![h] = "actCh"]
  <2>1. /\ UNCHANGED <<todo, left, missing, copyCh, copying, active, succeeded, status, onTarget>>
        /\ sending' = [sending EXCEPT ![w] = None] /\ h # None /\ actCh' = Append(actCh, h)
    BY <1>7 DEF CopySend
  <2>2. \A g \in todo : (\E v \in Workers : sending'[v] = g) <=> at[g] = "sending" /\ g # h
    BY <1>0, <2>1
  <2>3. h \notin ToSet(actCh)
    BY <2>1
  <2>4. IsInjective(actCh') /\ ToSet(actCh') = ToSet(actCh) \cup {h}
    BY <1>0, <2>1, <2>3, SendOne
  <2>5. Once'
    BY <1>0, <2>1, <2>4
  <2>6. at2 \in [todo' -> Places] /\ Placed(at2)'
    BY <2>1, <2>2, <2>4
  <2> QED
    BY <2>5, <2>6 DEF PlaceInv
<1>8. CASE ActTake
  <2> PICK h \in todo : h = Head(actCh)
    BY <1>8 DEF ActTake
  <2>1. /\ actCh' = Tail(actCh) /\ h \in ToSet(actCh) /\ IsInjective(actCh')
        /\ ToSet(actCh') = ToSet(actCh) \ {h}
    BY <1>0, <1>8, TakeHead DEF ActTake
  <2>2. UNCHANGED <<todo, left, missing, copyCh, copying, sending, succeeded, onTarget>> /\ active = None
    BY <1>8 DEF ActTake
  <2>3. Once'
    BY <1>0, <2>1, <2>2
  <2>4. CASE status' = [status EXCEPT ![h] = "Cancelled"] /\ UNCHANGED active
    <3> DEFINE at2 == [at EXCEPT ![h] = "failed"]
    <3>1. at2 \in [todo' -> Places] /\ Placed(at2)'
      BY <2>1, <2>2, <2>4
    <3> QED
      BY <2>3, <3>1 DEF PlaceInv
  <2>5. CASE active' = h /\ UNCHANGED status
    <3> DEFINE at2 == [at EXCEPT ![h] = "active"]
    <3>1. at2 \in [todo' -> Places] /\ Placed(at2)'
      BY <2>1, <2>2, <2>5
    <3> QED
      BY <2>3, <3>1 DEF PlaceInv
  <2> QED
    BY <1>8, <2>4, <2>5, Zenon DEF ActTake
<1>9. CASE ActEnds
  <2> PICK h \in todo : h = active
    BY <1>9 DEF ActEnds
  <2>1. UNCHANGED <<todo, left, missing, copyCh, copying, sending, actCh, onTarget>> /\ active' = None
    BY <1>9 DEF ActEnds
  <2>2. Once'
    BY <1>0, <2>1
  <2>3. CASE succeeded' = succeeded \cup {h} /\ UNCHANGED status
    <3> DEFINE at2 == [at EXCEPT ![h] = "succeeded"]
    <3>1. at2 \in [todo' -> Places] /\ Placed(at2)'
      BY <2>1, <2>3
    <3> QED
      BY <2>2, <3>1 DEF PlaceInv
  <2>4. CASE status' = [status EXCEPT ![h] = "DeployFailed"] /\ UNCHANGED succeeded
    <3> DEFINE at2 == [at EXCEPT ![h] = "failed"]
    <3>1. at2 \in [todo' -> Places] /\ Placed(at2)'
      BY <2>1, <2>4
    <3> QED
      BY <2>2, <3>1 DEF PlaceInv
  <2> QED
    BY <1>9, <2>3, <2>4, Zenon DEF ActEnds
<1> QED
  BY <1>1, <1>2, <1>3, <1>4, <1>5, <1>6, <1>7, <1>8, <1>9 DEF Next, Poll, Copy, Activate, Finished

\* So every host is in one place in every reachable state.
LEMMA AlwaysPlaced == Spec => []PlaceInv
<1>1. Init => PlaceInv
  <2> SUFFICES ASSUME Init PROVE PlaceInv
    OBVIOUS
  <2> DEFINE at == [h \in todo |-> IF h \in upToDate THEN "actCh" ELSE "left"]
  <2>1. todo \in SUBSET HostSet /\ upToDate \in SUBSET todo
    BY DEF Init, Planned
  <2>2. /\ IsInjective(left) /\ ToSet(left) = todo \ upToDate
        /\ IsInjective(actCh) /\ ToSet(actCh) = upToDate
    <3>1. todo \ upToDate \in SUBSET HostSet /\ upToDate \in SUBSET HostSet
      BY <2>1
    <3> QED
      BY <3>1, InOrderLists DEF Init
  <2>3. /\ missing = <<>> /\ copyCh = <<>> /\ active = None /\ succeeded = {} /\ onTarget = upToDate
        /\ copying = [w \in Workers |-> None] /\ sending = [w \in Workers |-> None]
        /\ status = [h \in HostSet |-> "Deployed"]
    BY DEF Init
  <2>4. IsInjective(<<>>) /\ ToSet(<<>>) = {}
    BY DEF IsInjective, ToSet
  <2>5. Once
    BY <2>2, <2>3, <2>4 DEF Once
  <2>6. at \in [todo -> Places] /\ Placed(at)
    BY <2>1, <2>2, <2>3, <2>4, PipelineAssumption DEF Placed, Places
  <2> QED
    BY <2>5, <2>6 DEF PlaceInv
<1> QED
  BY <1>1, PlaceStep, AlwaysPipeTyped, PTL DEF Spec

-----------------------------------------------------------------------------
(***************************************************************************)
(* What the places are for.                                                *)
(***************************************************************************)

\* A host enters Deploy only once its closure is in its own store: the window
\* under the watchdog never waits for a transfer (pipeline.go 135-143).
THEOREM CopiedFirst == Spec => []ActivatesCopied
<1>1. PipeTyped /\ PlaceInv => ActivatesCopied
  BY DEF PipeTyped, PlaceInv, Placed, ActivatesCopied
<1> QED
  BY <1>1, AlwaysPipeTyped, AlwaysPlaced, PTL

\* Neither channel can be full when a stage has something to send: a host that
\* is about to be sent is not in the channel, so the channel holds fewer hosts
\* than there are (pipeline.go 69-70, 96-97).
THEOREM ChannelsNeverBlock == Spec => []NeverBlocks
<1>1. PipeTyped /\ PlaceInv => NeverBlocks
  <2> SUFFICES ASSUME PipeTyped, PlaceInv PROVE NeverBlocks
    OBVIOUS
  <2> USE DEF PipeTyped, TypeOK, Once, Placed
  <2> PICK at \in [todo -> Places] : Placed(at)
    BY DEF PlaceInv
  <2>1. Once /\ IsFiniteSet(todo)
    BY FleetFinite DEF PlaceInv
  <2>2. ASSUME left # <<>> PROVE Len(copyCh) < Capacity
    <3>1. Head(left) \in todo /\ Head(left) \in ToSet(left)
      BY <2>1, <2>2, TakeHead
    <3>2. Head(left) \notin ToSet(copyCh)
      BY <3>1
    <3> QED
      BY <2>1, <3>1, <3>2, RoomLeft DEF Capacity
  <2>3. ASSUME NEW w \in Workers, sending[w] # None PROVE Len(actCh) < Capacity
    <3>1. sending[w] \in todo /\ at[sending[w]] = "sending"
      BY <2>3
    <3>2. sending[w] \notin ToSet(actCh)
      BY <3>1
    <3> QED
      BY <2>1, <3>1, <3>2, RoomLeft DEF Capacity
  <2> QED
    BY <2>2, <2>3 DEF NeverBlocks
<1> QED
  BY <1>1, AlwaysPipeTyped, AlwaysPlaced, PTL

\* No stage overwrites another's verdict: whoever sets a status holds the host,
\* and a host with a verdict is held by nobody (setStatus, pipeline.go 94).
THEOREM FailureStays == Spec => FailureIsFinal
<1>1. PipeTyped /\ PlaceInv /\ [Next]_vars
        => [\A h \in HostSet : status[h] # "Deployed" => status'[h] = status[h]]_vars
  <2> SUFFICES ASSUME PipeTyped, PlaceInv, Next, NEW h \in HostSet, status[h] # "Deployed"
               PROVE  status'[h] = status[h]
    BY DEF vars
  <2> USE DEF PipeTyped, TypeOK, Placed, buildVars, pollVars, copyVars, actVars, mainVars
  <2> PICK at \in [todo -> Places] : Placed(at)
    BY DEF PlaceInv
  <2>0. Once
    BY DEF PlaceInv
  <2>1. CASE PollUnbuilt
    <3>1. Head(missing) \in todo /\ Head(missing) \in ToSet(missing)
      BY <2>0, <2>1, TakeHead DEF PollUnbuilt, Once
    <3> QED
      BY <2>1, <3>1 DEF PollUnbuilt
  <2>2. ASSUME NEW w \in Workers, CopyEnds(w) PROVE status'[h] = status[h]
    <3>1. copying[w] \in todo /\ at[copying[w]] = "copying"
      BY <2>2 DEF CopyEnds
    <3> QED
      BY <2>2, <3>1 DEF CopyEnds
  <2>3. CASE ActTake
    <3>1. Head(actCh) \in todo /\ Head(actCh) \in ToSet(actCh)
      BY <2>0, <2>3, TakeHead DEF ActTake, Once
    <3> QED
      BY <2>3, <3>1 DEF ActTake
  <2>4. CASE ActEnds
    <3>1. active \in todo
      BY <2>4 DEF ActEnds
    <3> QED
      BY <2>4, <3>1 DEF ActEnds
  <2>5. CASE UNCHANGED status
    BY <2>5
  <2> QED
    BY <2>1, <2>2, <2>3, <2>4, <2>5
    DEF Next, Build, BuildOne, BuildExits, Poll, PollEmpty, PollSelect, PollHost, PollSwept, PollFinal, Copy,
        CopyTake, CopySend, CopyExits, CloseActCh, Activate, Return, Judge, Finished, vars
<1> QED
  BY <1>1, AlwaysPipeTyped, AlwaysPlaced, PTL DEF Spec, FailureIsFinal

-----------------------------------------------------------------------------
(***************************************************************************)
(* How the stages shut down, one after the other.                          *)
(***************************************************************************)

ShutInv ==
  /\ poller \in {"select", "exited"} => missing = <<>>
  /\ poller = "exited" => left = <<>>
  /\ copyClosed => poller = "exited"
  /\ \A w \in exited : copyClosed /\ copyCh = <<>> /\ copying[w] = None /\ sending[w] = None
  /\ actClosed => exited = Workers
  /\ returned => todo = {} \/ (actClosed /\ actCh = <<>> /\ active = None)

\* A stage closes its channel when it will send no more, and the next one ends
\* when the channel is closed and drained.
LEMMA ShutStep == PipeTyped /\ ShutInv /\ [Next]_vars => ShutInv'
<1> SUFFICES ASSUME PipeTyped, ShutInv, [Next]_vars PROVE ShutInv'
  OBVIOUS
<1> USE DEF PipeTyped, TypeOK, ShutInv, buildVars, pollVars, copyVars, actVars, mainVars
<1>1. CASE Build \/ CloseActCh \/ (\E d \in BuildOnly : Judge(d)) \/ UNCHANGED vars
  <2>1. CASE Build
    BY <2>1 DEF Build, BuildOne, BuildExits
  <2>2. CASE CloseActCh
    BY <2>2 DEF CloseActCh
  <2>3. CASE \E d \in BuildOnly : Judge(d)
    BY <2>3 DEF Judge
  <2>4. CASE UNCHANGED vars
    BY <2>4 DEF vars
  <2> QED
    BY <1>1, <2>1, <2>2, <2>3, <2>4
<1>2. CASE PollEmpty \/ PollSelect \/ PollSwept \/ PollUnbuilt \/ PollFinal
  BY <1>2 DEF PollEmpty, PollSelect, PollSwept, PollUnbuilt, PollFinal
<1>3. CASE PollHost
  BY <1>3 DEF PollHost
<1>4. ASSUME NEW w \in Workers, CopyTake(w) PROVE ShutInv'
  BY <1>4 DEF CopyTake
<1>5. ASSUME NEW w \in Workers, CopyEnds(w) PROVE ShutInv'
  <2>1. w \notin exited /\ copying[w] # None
    BY <1>5 DEF CopyEnds
  <2>2. /\ copying' = [copying EXCEPT ![w] = None]
        /\ sending' = sending \/ sending' = [sending EXCEPT ![w] = copying[w]]
        /\ UNCHANGED <<pollVars, copyCh, copyClosed, exited, actCh, actClosed, active, returned, todo>>
    BY <1>5 DEF CopyEnds
  <2> QED
    BY <2>1, <2>2
<1>6. ASSUME NEW w \in Workers, CopySend(w) PROVE ShutInv'
  BY <1>6 DEF CopySend
<1>7. ASSUME NEW w \in Workers, CopyExits(w) PROVE ShutInv'
  BY <1>7 DEF CopyExits
<1>8. CASE ActTake
  BY <1>8 DEF ActTake
<1>9. CASE ActEnds
  BY <1>9 DEF ActEnds
<1>10. CASE Return
  BY <1>10 DEF Return
<1> QED
  BY <1>1, <1>2, <1>3, <1>4, <1>5, <1>6, <1>7, <1>8, <1>9, <1>10 DEF Next, Poll, Copy, Activate, Finished

\* When RunPipeline returns, exactly the hosts whose Deploy returned true are
\* reported as deployed: every stage is drained by then, so a host that is not
\* among the failed ones has been activated (pipeline.go 89-95, 145-146).
THEOREM ReportIsTrue == Spec => []ReportedDeployedIsDeployed
<1>1. Init => ShutInv
  BY DEF Init, ShutInv
<1>2. PipeTyped /\ PlaceInv /\ ShutInv => ReportedDeployedIsDeployed
  <2> SUFFICES ASSUME PipeTyped, PlaceInv, ShutInv, returned, NEW h \in todo
               PROVE  status[h] = "Deployed" <=> h \in succeeded
    BY DEF ReportedDeployedIsDeployed
  <2> PICK at \in [todo -> Places] : Placed(at)
    BY DEF PlaceInv
  <2>1. actClosed /\ actCh = <<>> /\ active = None /\ exited = Workers
    BY DEF ShutInv
  <2>2. 1 \in Workers
    BY PipelineAssumption DEF Workers
  <2>3. /\ copyCh = <<>> /\ left = <<>> /\ missing = <<>>
        /\ \A w \in Workers : copying[w] = None /\ sending[w] = None
    BY <2>1, <2>2 DEF ShutInv
  <2>4. h # None
    BY PipelineAssumption DEF PipeTyped, TypeOK
  <2>5. ToSet(<<>>) = {}
    BY DEF ToSet
  <2>6. at[h] \in {"succeeded", "failed"}
    BY <2>1, <2>3, <2>4, <2>5 DEF Placed, Places
  <2> QED
    BY <2>6 DEF Placed
<1> QED
  BY <1>1, <1>2, ShutStep, AlwaysPipeTyped, AlwaysPlaced, PTL DEF Spec

-----------------------------------------------------------------------------
(***************************************************************************)
(* The refinement.                                                         *)
(***************************************************************************)

\* A step after which each host but h has the outcome it had, and h the outcome o.
LEMMA OutcomeMoves ==
  ASSUME NEW h \in HostSet, NEW o, OutcomeOf(h)' = o,
         \A g \in HostSet \ {h} : OutcomeOf(g)' = OutcomeOf(g)
  PROVE  [g \in HostSet |-> OutcomeOf(g)]' = [[g \in HostSet |-> OutcomeOf(g)] EXCEPT ![h] = o]
OBVIOUS

\* The pipeline implements the serial rollout: a host is dropped by the poller or
\* a copy worker, begun, ended or cancelled by the one activation worker, and
\* every other step leaves the outcomes alone (pipeline.go 207-242).
THEOREM PipelineImplementsRollout == Spec => ImplementsRollout
<1>1. Init => R!Init
  <2> SUFFICES ASSUME Init PROVE R!Init
    OBVIOUS
  <2>1. \A h \in HostSet : OutcomeOf(h) = "pending"
    BY PipelineAssumption DEF Init, OutcomeOf
  <2> QED
    BY <2>1 DEF Init, R!Init
<1>2. PipeTyped /\ PlaceInv /\ [Next]_vars => [R!Next]_(R!vars)
  <2> SUFFICES ASSUME PipeTyped, PlaceInv, [Next]_vars PROVE R!Next \/ UNCHANGED R!vars
    OBVIOUS
  <2> USE PipelineAssumption DEF buildVars, pollVars, copyVars, actVars, mainVars
  <2> PICK at \in [todo -> Places] : Placed(at)
    BY DEF PlaceInv
  <2>0. Once
    BY DEF PlaceInv
  <2>1. ASSUME UNCHANGED <<active, succeeded, status, stopped, onFailure>> PROVE UNCHANGED R!vars
    BY <2>1 DEF R!vars, OutcomeOf
  <2>2. CASE PollUnbuilt
    <3> PICK h \in todo : h = Head(missing) /\ h \in ToSet(missing)
      BY <2>0, <2>2, TakeHead DEF PollUnbuilt, Once, PipeTyped, TypeOK
    <3>1. h \in HostSet /\ status[h] = "Deployed" /\ h # active /\ h \notin succeeded
      BY DEF PipeTyped, TypeOK, Placed
    <3>2. UNCHANGED <<active, succeeded, stopped, onFailure>> /\ status' = [status EXCEPT ![h] = "BuildFailed"]
      BY <2>2 DEF PollUnbuilt
    <3>3. OutcomeOf(h) = "pending" /\ OutcomeOf(h)' = "dropped"
      BY <3>1, <3>2 DEF OutcomeOf, PipeTyped, TypeOK
    <3>4. \A g \in HostSet \ {h} : OutcomeOf(g)' = OutcomeOf(g)
      BY <3>2 DEF OutcomeOf, PipeTyped, TypeOK
    <3>5. R!Drop(h)
      BY <3>1, <3>2, <3>3, <3>4, OutcomeMoves DEF R!Drop
    <3> QED
      BY <3>1, <3>5 DEF R!Next
  <2>3. ASSUME NEW w \in Workers, CopyEnds(w) PROVE R!Next \/ UNCHANGED R!vars
    <3> PICK h \in todo : h = copying[w]
      BY <2>3 DEF CopyEnds, PipeTyped
    <3>1. h \in HostSet /\ status[h] = "Deployed" /\ h # active /\ h \notin succeeded
      BY <2>3 DEF PipeTyped, TypeOK, Placed
    <3>2. CASE UNCHANGED <<active, succeeded, stopped, onFailure>> /\ status' = [status EXCEPT ![h] = "CopyFailed"]
      <4>1. OutcomeOf(h) = "pending" /\ OutcomeOf(h)' = "dropped"
        BY <3>1, <3>2 DEF OutcomeOf, PipeTyped, TypeOK
      <4>2. \A g \in HostSet \ {h} : OutcomeOf(g)' = OutcomeOf(g)
        BY <3>2 DEF OutcomeOf, PipeTyped, TypeOK
      <4>3. R!Drop(h)
        BY <3>1, <3>2, <4>1, <4>2, OutcomeMoves DEF R!Drop
      <4> QED
        BY <3>1, <4>3 DEF R!Next
    <3> QED
      BY <2>1, <2>3, <3>2 DEF CopyEnds
  <2>4. CASE ActTake
    <3> PICK h \in todo : h = Head(actCh) /\ h \in ToSet(actCh)
      BY <2>0, <2>4, TakeHead DEF ActTake, Once, PipeTyped, TypeOK
    <3>1. h \in HostSet /\ status[h] = "Deployed" /\ h # active /\ h \notin succeeded /\ active = None
      BY <2>4 DEF PipeTyped, TypeOK, Placed, ActTake
    <3>2. UNCHANGED <<succeeded, stopped, onFailure>>
      BY <2>4 DEF ActTake
    <3>3. CASE stopped /\ status' = [status EXCEPT ![h] = "Cancelled"] /\ UNCHANGED active
      <4>1. OutcomeOf(h) = "pending" /\ OutcomeOf(h)' = "cancelled"
        BY <3>1, <3>2, <3>3 DEF OutcomeOf, PipeTyped, TypeOK
      <4>2. \A g \in HostSet \ {h} : OutcomeOf(g)' = OutcomeOf(g)
        BY <3>2, <3>3 DEF OutcomeOf, PipeTyped, TypeOK
      <4>3. R!Cancel(h)
        BY <3>1, <3>2, <3>3, <4>1, <4>2, OutcomeMoves DEF R!Cancel
      <4> QED
        BY <3>1, <4>3 DEF R!Next
    <3>4. CASE ~stopped /\ active' = h /\ UNCHANGED status
      <4>1. OutcomeOf(h) = "pending" /\ OutcomeOf(h)' = "active"
        BY <3>1, <3>2, <3>4 DEF OutcomeOf, PipeTyped, TypeOK
      <4>2. \A g \in HostSet \ {h} : OutcomeOf(g)' = OutcomeOf(g)
        BY <3>1, <3>2, <3>4 DEF OutcomeOf, PipeTyped, TypeOK
      <4>3. \A g \in HostSet : OutcomeOf(g) # "active"
        BY <3>1 DEF OutcomeOf, PipeTyped, TypeOK
      <4>4. R!Begin(h)
        BY <3>1, <3>2, <3>4, <4>1, <4>2, <4>3, OutcomeMoves DEF R!Begin
      <4> QED
        BY <3>1, <4>4 DEF R!Next
    <3> QED
      BY <2>4, <3>3, <3>4, Zenon DEF ActTake
  <2>5. CASE ActEnds
    <3> PICK h \in todo : h = active
      BY <2>5 DEF ActEnds, PipeTyped
    <3>1. h \in HostSet /\ h # None /\ status[h] = "Deployed" /\ h \notin succeeded
      BY DEF PipeTyped, TypeOK, Placed
    <3>2. active' = None /\ UNCHANGED onFailure /\ OutcomeOf(h) = "active"
      BY <2>5, <3>1 DEF ActEnds, OutcomeOf
    <3>3. CASE succeeded' = succeeded \cup {h} /\ UNCHANGED <<status, stopped>>
      <4>1. OutcomeOf(h)' = "deployed"
        BY <3>1, <3>2, <3>3 DEF OutcomeOf, PipeTyped, TypeOK
      <4>2. \A g \in HostSet \ {h} : OutcomeOf(g)' = OutcomeOf(g)
        BY <3>2, <3>3 DEF OutcomeOf, PipeTyped, TypeOK
      <4>3. R!Succeed(h)
        BY <3>1, <3>2, <3>3, <4>1, <4>2, OutcomeMoves DEF R!Succeed
      <4> QED
        BY <3>1, <4>3 DEF R!Next
    <3>4. CASE /\ status' = [status EXCEPT ![h] = "DeployFailed"]
               /\ stopped' = (stopped \/ h \in K3s \/ onFailure = "stop")
               /\ UNCHANGED succeeded
      <4>1. OutcomeOf(h)' = "failed"
        BY <3>1, <3>2, <3>4 DEF OutcomeOf, PipeTyped, TypeOK
      <4>2. \A g \in HostSet \ {h} : OutcomeOf(g)' = OutcomeOf(g)
        BY <3>2, <3>4 DEF OutcomeOf, PipeTyped, TypeOK
      <4>3. [g \in HostSet |-> OutcomeOf(g)]' = [[g \in HostSet |-> OutcomeOf(g)] EXCEPT ![h] = "failed"]
        BY <3>1, <4>1, <4>2, OutcomeMoves
      <4>4. [g \in HostSet |-> OutcomeOf(g)][h] = "active"
        BY <3>1, <3>2
      <4>5. R!Fail(h)
        BY <3>2, <3>4, <4>3, <4>4, Zenon DEF R!Fail
      <4> QED
        BY <3>1, <4>5 DEF R!Next
    <3> QED
      BY <2>5, <3>3, <3>4, Zenon DEF ActEnds
  <2>6. CASE \/ Build \/ PollEmpty \/ PollSelect \/ PollHost \/ PollSwept \/ PollFinal \/ CloseActCh \/ Return
             \/ (\E d \in BuildOnly : Judge(d)) \/ UNCHANGED vars
             \/ \E w \in Workers : CopyTake(w) \/ CopySend(w) \/ CopyExits(w)
    BY <2>1, <2>6 DEF Build, BuildOne, BuildExits, PollEmpty, PollSelect, PollHost, PollSwept, PollFinal,
       CloseActCh, Return, Judge, CopyTake, CopySend, CopyExits, vars
  <2> QED
    BY <2>2, <2>3, <2>4, <2>5, <2>6 DEF Next, Poll, Copy, Activate, Finished
<1> QED
  BY <1>1, <1>2, AlwaysPipeTyped, AlwaysPlaced, PTL DEF Spec, R!Spec, ImplementsRollout

RP == INSTANCE RolloutProofs WITH
        Hosts <- HostSet, outcome <- [h \in HostSet |-> OutcomeOf(h)],
        halted <- stopped, stopOnFailure <- (onFailure = "stop")

\* So what is proved of the rollout holds of the pipeline: whatever the build, the
\* copies and the activations do, it leaves at most one k3s node broken, and
\* activates nothing once one is (pipeline.go 202-206, 226-233).
THEOREM PipelineRollsK3s == Spec => []R!K3sRolling
<1>1. R!Init => RP!Init
  BY DEF R!Init, RP!Init
<1>2. [R!Next]_(R!vars) => [RP!Next]_(RP!vars)
  BY DEF R!Next, RP!Next, R!vars, RP!vars, R!Drop, R!Begin, R!Succeed, R!Fail, R!Cancel,
         RP!Drop, RP!Begin, RP!Succeed, RP!Fail, RP!Cancel
<1>3. RP!K3sRolling => R!K3sRolling
  BY DEF R!K3sRolling, RP!K3sRolling
<1>4. RP!Spec => []RP!K3sRolling
  BY RP!RollingK3s
<1> QED
  BY <1>1, <1>2, <1>3, <1>4, PipelineImplementsRollout, PTL DEF ImplementsRollout, R!Spec, RP!Spec
=============================================================================
