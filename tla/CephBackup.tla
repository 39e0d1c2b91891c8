----------------------------- MODULE CephBackup ------------------------------
(***************************************************************************)
(* The daily backup of the kubernetes pool, ceph-restore and               *)
(* ceph-restore-kopia, of src/modules/services/ceph-backup.nix: the lock   *)
(* the three share, cleanup, backup_one command by command, the forgetting *)
(* of volumes and the files the alerts read.  rbd, kopia and ceph-csi are external: what they allow *)
(* is in the guards of the steps that call them.                           *)
(*                                                                         *)
(* Any command may fail, before or after it took effect; the job may be    *)
(* killed and the node may reboot between any two commands.  "new" is what *)
(* the current run made, "old" what an earlier one left.                   *)
(***************************************************************************)
EXTENDS Naturals, FiniteSets

CONSTANTS
  Images,      \* images ceph-csi ever creates; their names are never reused
  ClaimOf,     \* per image: the namespace and PVC in its metadata
  Excluded,    \* images of excludeNamespaces
  MaxFaults,   \* bound: failures, kills and reboots
  MaxRestores, \* bound: uses of ceph-restore and ceph-restore-kopia
  None

ASSUME CephBackupAssumption ==
  /\ DOMAIN ClaimOf = Images /\ Excluded \subseteq Images /\ None \notin Images
  /\ MaxFaults \in Nat /\ MaxRestores \in Nat

VARIABLES
  life,      \* per image: "unborn", "live" or "gone"
  content,   \* per image: "empty" (no filesystem), "partial" (half restored) or "whole"
  snaps,     \* per image: this tool's snapshots, a set of "old" and "new"
  protected, \* per image: those of them that are protected
  clone,     \* per image: the snapshot its clone is of, or "none"
  captured,  \* per image: its content when "new" was taken
  mapped,    \* images whose clone has a block device
  mounted,   \* those of them that are mounted
  kopia,     \* history: <<image, content>> of the snapshots in the repository
  savedNow,  \* history: images this run has backed up
  status,    \* per image: its status file: "none", "old" or "new"
  lastRun,   \* the last-run file: "none", "ok" or "failed"
  lock,      \* "free", or who holds it: "backup", "restore" or "kopia"
  pc,        \* the job's next command
  after,     \* where the job goes on after cleanup
  found,     \* what the current listing of cleanup has still to remove
  listed,    \* the job's images
  queue,     \* those of them it has still to back up
  cur,       \* the image of backup_one
  failed,
  blind,     \* history: a listing or a read of this run failed unnoticed
  noFs,      \* history: images this run found without a filesystem
  target,    \* the image being restored, or None
  torn,      \* history: images left incomplete by a restore that died, or that took such a backup
  faults, restores

poolVars == <<snaps, protected, clone, captured, mapped, mounted>>
fileVars == <<kopia, savedNow, status, lastRun>>
jobVars == <<lock, pc, after, found, listed, queue, cur, failed, blind, noFs>>
restoreVars == <<target, torn, restores>>
vars == <<life, content, poolVars, fileVars, jobVars, restoreVars, faults>>

CleanSteps == {"cleanDevs", "unmapDevs", "cleanClones", "rmClones", "cleanSnaps", "rmSnaps"}
BackupSteps == {"meta", "snap", "protect", "clone", "map", "blkid", "mount", "kopia", "umount",
                "status", "unmap", "rmClone", "unprotect", "rmSnap"}

TypeOK ==
  /\ life \in [Images -> {"unborn", "live", "gone"}]
  /\ content \in [Images -> {"empty", "partial", "whole"}]
  /\ snaps \in [Images -> SUBSET {"old", "new"}] /\ protected \in [Images -> SUBSET {"old", "new"}]
  /\ clone \in [Images -> {"none", "old", "new"}]
  /\ \A i \in Images : protected[i] \subseteq snaps[i] /\ clone[i] \in {"none"} \cup protected[i]
  /\ captured \in [Images -> {"empty", "partial", "whole"}]
  /\ mounted \subseteq mapped /\ mapped \subseteq {i \in Images : clone[i] # "none"}
  /\ kopia \subseteq Images \X {"partial", "whole"} /\ savedNow \subseteq Images
  /\ status \in [Images -> {"none", "old", "new"}] /\ lastRun \in {"none", "ok", "failed"}
  /\ lock \in {"free", "backup", "restore", "kopia"}
  /\ pc \in {"idle", "connect", "list", "next", "forget", "exit"} \cup CleanSteps \cup BackupSteps
  /\ after \in {"connect", "next"} /\ cur \in Images \cup {None} /\ target \in Images \cup {None}
  /\ found \subseteq Images /\ listed \subseteq Images /\ queue \subseteq listed
  /\ failed \in BOOLEAN /\ blind \in BOOLEAN /\ noFs \subseteq Images /\ torn \subseteq Images
  /\ faults \in 0 .. MaxFaults /\ restores \in 0 .. MaxRestores

Init ==
  /\ life = [i \in Images |-> "unborn"] /\ content = [i \in Images |-> "empty"]
  /\ snaps = [i \in Images |-> {}] /\ protected = [i \in Images |-> {}]
  /\ clone = [i \in Images |-> "none"] /\ captured = [i \in Images |-> "empty"]
  /\ mapped = {} /\ mounted = {}
  /\ kopia = {} /\ savedNow = {} /\ status = [i \in Images |-> "none"] /\ lastRun = "none"
  /\ lock = "free" /\ pc = "idle" /\ after = "connect" /\ found = {} /\ listed = {} /\ queue = {}
  /\ cur = None /\ failed = FALSE /\ blind = FALSE /\ noFs = {}
  /\ target = None /\ torn = {} /\ restores = 0 /\ faults = 0

Live == {i \in Images : life[i] = "live"}
Fault == faults < MaxFaults /\ faults' = faults + 1

-----------------------------------------------------------------------------
(***************************************************************************)
(* ceph-csi.                                                               *)
(***************************************************************************)

Create(i) ==
  /\ life[i] = "unborn"
  /\ life' = [life EXCEPT ![i] = "live"]
  /\ UNCHANGED <<content, poolVars, fileVars, jobVars, restoreVars, faults>>

\* The first mount of a volume makes its filesystem.
Format(i) ==
  /\ life[i] = "live" /\ content[i] = "empty" /\ target # i
  /\ content' = [content EXCEPT ![i] = "whole"]
  /\ UNCHANGED <<life, poolVars, fileVars, jobVars, restoreVars, faults>>

\* An image with a snapshot, or one that is mapped, cannot be deleted.
Delete(i) ==
  /\ life[i] = "live" /\ snaps[i] = {} /\ target # i
  /\ life' = [life EXCEPT ![i] = "gone"]
  /\ UNCHANGED <<content, poolVars, fileVars, jobVars, restoreVars, faults>>

-----------------------------------------------------------------------------
(***************************************************************************)
(* The job: start, the ways it ends, and cleanup.                          *)
(***************************************************************************)

Goto(step) == pc' = step
Idle == pc' = "idle" /\ lock' = "free" /\ cur' = None /\ found' = {}
JobOnly == UNCHANGED <<life, content, restoreVars>>

Aged(S) == IF S = {} THEN {} ELSE {"old"}

\* What the previous run made becomes old.
Age ==
  /\ snaps' = [i \in Images |-> Aged(snaps[i])]
  /\ protected' = [i \in Images |-> Aged(protected[i])]
  /\ clone' = [i \in Images |-> IF clone[i] = "none" THEN "none" ELSE "old"]
  /\ status' = [i \in Images |-> IF status[i] = "none" THEN "none" ELSE "old"]
  /\ savedNow' = {} /\ failed' = FALSE /\ blind' = FALSE /\ noFs' = {}
  /\ listed' = {} /\ queue' = {} /\ found' = {}
  /\ UNCHANGED <<captured, mapped, mounted, kopia, lastRun>>

\* Fault: the lock is taken without looking at it.
StartUnlocked ==
  /\ pc = "idle"
  /\ lock' = "backup" /\ Goto("cleanDevs") /\ after' = "connect" /\ cur' = None
  /\ Age
  /\ UNCHANGED faults /\ JobOnly

\* The timer fires.  While another holds the lock, flock -n ends the job before
\* its trap is set, and nothing changes.
Start ==
  /\ pc = "idle" /\ lock = "free"
  /\ lock' = "backup" /\ Goto("cleanDevs") /\ after' = "connect" /\ cur' = None
  /\ Age
  /\ UNCHANGED faults /\ JobOnly

\* errexit: the EXIT trap records the failure.
Dies ==
  /\ Idle /\ lastRun' = "failed"
  /\ UNCHANGED <<kopia, savedNow, status, after, listed, queue, failed, blind, noFs>>

\* SIGKILL: no trap, and the devices stay.
Kill ==
  /\ pc # "idle" /\ Fault
  /\ Idle
  /\ UNCHANGED <<poolVars, fileVars, after, listed, queue, failed, blind, noFs>> /\ JobOnly

KeepJob == UNCHANGED <<lock, listed, queue, cur, failed, noFs>>

\* One of cleanup's listings: what is there, or nothing when the listing fails
\* (a failing command substitution does not stop the loop over its words).
CleanList(step, next, S) ==
  /\ pc = step
  /\ \/ found' = S /\ UNCHANGED <<blind, faults>>
     \/ S # {} /\ Fault /\ found' = {} /\ blind' = TRUE
  /\ Goto(next)
  /\ UNCHANGED <<after, poolVars, fileVars>> /\ KeepJob /\ JobOnly

CleanDevs == CleanList("cleanDevs", "unmapDevs", mapped)
CleanClones == CleanList("cleanClones", "rmClones", {i \in Images : clone[i] # "none"})
CleanSnaps == CleanList("cleanSnaps", "rmSnaps", Live)

\* One removal of cleanup, which succeeds only when rbd allows it ...
Removed(step, i) ==
  /\ pc = step
  /\ found' = found \ {i}
  /\ UNCHANGED <<pc, after, blind, faults, fileVars>> /\ KeepJob /\ JobOnly

\* ... and ends the job when it fails.
RemovalFails(step, allowed) ==
  /\ pc = step
  /\ IF allowed THEN Fault ELSE UNCHANGED faults
  /\ Dies /\ UNCHANGED poolVars /\ JobOnly

\* Fault: the device is unmapped by force, with its filesystem still mounted.
UnmapsForced(i) ==
  /\ mapped' = mapped \ {i}
  /\ UNCHANGED <<snaps, protected, clone, captured, mounted>>

\* umount, where it is mounted, and unmap.
Unmaps(i) ==
  /\ mounted' = mounted \ {i} /\ mapped' = mapped \ {i}
  /\ UNCHANGED <<snaps, protected, clone, captured>>
UnmapDevs ==
  \E i \in found : \/ Removed("unmapDevs", i) /\ Unmaps(i)
                  \/ RemovalFails("unmapDevs", TRUE)

RemovesClone(i) ==
  /\ clone' = [clone EXCEPT ![i] = "none"]
  /\ UNCHANGED <<snaps, protected, captured, mapped, mounted>>
MayRemoveClone(i) == i \notin mapped
RmClones ==
  \E i \in found : \/ Removed("rmClones", i) /\ MayRemoveClone(i) /\ RemovesClone(i)
                  \/ RemovalFails("rmClones", MayRemoveClone(i))

\* Every snapshot of one image; unprotect may fail, and then so does snap rm.
RemovesSnaps(i) ==
  /\ snaps' = [snaps EXCEPT ![i] = {}] /\ protected' = [protected EXCEPT ![i] = {}]
  /\ UNCHANGED <<clone, captured, mapped, mounted>>

\* Fault: no unprotect before snap rm.
MayRemoveSnapsPlain(i) == clone[i] = "none" /\ protected[i] = {}

MayRemoveSnaps(i) == clone[i] = "none"
RmSnaps ==
  \E i \in found : \/ Removed("rmSnaps", i) /\ MayRemoveSnaps(i) /\ RemovesSnaps(i)
                  \/ RemovalFails("rmSnaps", MayRemoveSnaps(i))

\* rbd snap ls of one image fails, and its loop is over.
SnapLsFails ==
  /\ pc = "rmSnaps" /\ Fault
  /\ \E i \in found : found' = found \ {i}
  /\ blind' = TRUE
  /\ UNCHANGED <<pc, after, poolVars, fileVars>> /\ KeepJob /\ JobOnly

CleanedTo(step, next) ==
  /\ pc = step /\ found = {}
  /\ Goto(next)
  /\ UNCHANGED <<after, found, blind, faults, poolVars, fileVars>> /\ KeepJob /\ JobOnly

Cleaned ==
  \/ CleanedTo("unmapDevs", "cleanClones") \/ CleanedTo("rmClones", "cleanSnaps")
  \/ CleanedTo("rmSnaps", after)

-----------------------------------------------------------------------------
(***************************************************************************)
(* The job after cleanup.                                                  *)
(***************************************************************************)

\* connect and the policies: a failure ends the job.
Connect ==
  /\ pc = "connect"
  /\ \/ /\ Goto("list")
        /\ UNCHANGED <<faults, after, found, blind, fileVars>> /\ KeepJob
     \/ Fault /\ Dies
  /\ UNCHANGED poolVars /\ JobOnly

\* mapfile < <(rbd ls ... || true): a failed listing is an empty one.
List ==
  /\ pc = "list"
  /\ \/ listed' = Live /\ UNCHANGED <<blind, faults>>
     \/ Fault /\ listed' = {} /\ blind' = TRUE
  /\ queue' = listed' /\ Goto("next")
  /\ UNCHANGED <<lock, after, found, cur, failed, noFs, poolVars, fileVars>> /\ JobOnly

NextImage ==
  /\ pc = "next"
  /\ IF queue = {}
       THEN Goto("forget") /\ UNCHANGED <<queue, cur>>
       ELSE \E i \in queue : cur' = i /\ queue' = queue \ {i} /\ Goto("meta")
  /\ UNCHANGED <<lock, after, found, listed, failed, blind, noFs, faults, poolVars, fileVars>> /\ JobOnly

KeepLists == UNCHANGED <<lock, found, listed, queue, cur>>

\* image_meta: an image without metadata is skipped, and so is one that is gone,
\* whose namespace is excluded, or whose metadata could not be read.
Meta ==
  /\ pc = "meta"
  /\ \/ cur \in Live \ Excluded /\ Goto("snap") /\ UNCHANGED <<blind, faults>>
     \/ cur \notin Live \ Excluded /\ Goto("next") /\ UNCHANGED <<blind, faults>>
     \/ cur \in Live \ Excluded /\ Fault /\ Goto("next") /\ blind' = TRUE
  /\ UNCHANGED <<after, failed, noFs, poolVars, fileVars>> /\ KeepLists /\ JobOnly

\* Fault: the image's failure is not remembered.
ImageFailsForgotten ==
  /\ after' = "next" /\ Goto("cleanDevs")
  /\ UNCHANGED <<failed, blind, noFs>>

\* The subshell of backup_one exits non-zero: failed=1 and cleanup.
ImageFails ==
  /\ failed' = TRUE /\ after' = "next" /\ Goto("cleanDevs")
  /\ UNCHANGED <<blind, noFs>>

\* One rbd, mount or umount command of backup_one.  It succeeds only if it is
\* allowed; one that fails may have taken effect.
RbdStep(step, next, allowed, effect) ==
  /\ pc = step
  /\ \/ /\ allowed /\ effect /\ Goto(next)
        /\ UNCHANGED <<after, failed, blind, noFs, faults>>
     \/ /\ IF allowed THEN Fault /\ (effect \/ UNCHANGED poolVars)
                      ELSE UNCHANGED <<faults, poolVars>>
        /\ ImageFails
  /\ UNCHANGED fileVars /\ KeepLists /\ JobOnly

SnapCreate ==
  RbdStep("snap", "protect", cur \in Live,
    /\ snaps' = [snaps EXCEPT ![cur] = @ \cup {"new"}]
    /\ captured' = [captured EXCEPT ![cur] = content[cur]]
    /\ UNCHANGED <<protected, clone, mapped, mounted>>)

SnapProtect ==
  RbdStep("protect", "clone", TRUE,
    /\ protected' = [protected EXCEPT ![cur] = @ \cup {"new"}]
    /\ UNCHANGED <<snaps, clone, captured, mapped, mounted>>)

\* The clone's name holds the image only: a leftover one is in the way.
CloneSnap ==
  RbdStep("clone", "map", clone[cur] = "none",
    /\ clone' = [clone EXCEPT ![cur] = "new"]
    /\ UNCHANGED <<snaps, protected, captured, mapped, mounted>>)

DeviceMap ==
  RbdStep("map", "blkid", TRUE,
    mapped' = mapped \cup {cur} /\ UNCHANGED <<snaps, protected, clone, captured, mounted>>)

\* blkid: a volume without a filesystem is skipped; so is one blkid cannot read.
Blkid ==
  /\ pc = "blkid"
  /\ \/ captured[cur] # "empty" /\ Goto("mount") /\ UNCHANGED <<noFs, blind, faults>>
     \/ captured[cur] = "empty" /\ Goto("unmap") /\ noFs' = noFs \cup {cur} /\ UNCHANGED <<blind, faults>>
     \/ captured[cur] # "empty" /\ Fault /\ Goto("unmap") /\ blind' = TRUE /\ UNCHANGED noFs
  /\ UNCHANGED <<after, failed, poolVars, fileVars>> /\ KeepLists /\ JobOnly

Mount ==
  RbdStep("mount", "kopia", TRUE,
    mounted' = mounted \cup {cur} /\ UNCHANGED <<snaps, protected, clone, captured, mapped>>)

\* Fault: the status does not depend on kopia's success.
KopiaUnchecked ==
  /\ pc = "kopia"
  /\ \/ kopia' = kopia \cup {<<cur, captured[cur]>>} /\ savedNow' = savedNow \cup {cur} /\ UNCHANGED faults
     \/ Fault /\ UNCHANGED <<kopia, savedNow>>
  /\ Goto("umount")
  /\ UNCHANGED <<after, failed, blind, noFs, poolVars, status, lastRun>> /\ KeepLists /\ JobOnly

\* kopia snapshot create reads the mounted clone.
Kopia ==
  /\ pc = "kopia"
  /\ \/ /\ kopia' = kopia \cup {<<cur, captured[cur]>>} /\ savedNow' = savedNow \cup {cur}
        /\ Goto("umount") /\ UNCHANGED <<after, failed, blind, noFs, faults>>
     \/ Fault /\ ImageFails /\ UNCHANGED <<kopia, savedNow>>
  /\ UNCHANGED <<poolVars, status, lastRun>> /\ KeepLists /\ JobOnly

Umount ==
  RbdStep("umount", "status", TRUE,
    mounted' = mounted \ {cur} /\ UNCHANGED <<snaps, protected, clone, captured, mapped>>)

WriteStatus ==
  /\ pc = "status"
  /\ status' = [status EXCEPT ![cur] = "new"]
  /\ Goto("unmap")
  /\ UNCHANGED <<after, failed, blind, noFs, faults, poolVars, kopia, savedNow, lastRun>>
  /\ KeepLists /\ JobOnly

DeviceUnmap ==
  RbdStep("unmap", "rmClone", cur \notin mounted,
    mapped' = mapped \ {cur} /\ UNCHANGED <<snaps, protected, clone, captured, mounted>>)

RmClone ==
  RbdStep("rmClone", "unprotect", cur \notin mapped,
    clone' = [clone EXCEPT ![cur] = "none"] /\ UNCHANGED <<snaps, protected, captured, mapped, mounted>>)

SnapUnprotect ==
  RbdStep("unprotect", "rmSnap", clone[cur] # "new",
    protected' = [protected EXCEPT ![cur] = @ \ {"new"}]
    /\ UNCHANGED <<snaps, clone, captured, mapped, mounted>>)

RemovesNew ==
  /\ snaps' = [snaps EXCEPT ![cur] = @ \ {"new"}]
  /\ UNCHANGED <<protected, clone, captured, mapped, mounted>>

\* Fault: the last removal's failure is ignored.
SnapRmIgnored ==
  /\ pc = "rmSnap"
  /\ \/ RemovesNew /\ UNCHANGED faults
     \/ Fault /\ UNCHANGED poolVars
  /\ Goto("next")
  /\ UNCHANGED <<after, failed, blind, noFs, fileVars>> /\ KeepLists /\ JobOnly

SnapRm == RbdStep("rmSnap", "next", "new" \notin protected[cur], RemovesNew)

\* The status files of images that were not listed go.
Forget ==
  /\ pc = "forget"
  /\ status' = [i \in Images |-> IF i \in listed THEN status[i] ELSE "none"]
  /\ Goto("exit")
  /\ UNCHANGED <<after, failed, blind, noFs, faults, poolVars, kopia, savedNow, lastRun>>
  /\ KeepLists /\ JobOnly

\* exit $failed, and the trap.
Exit ==
  /\ pc = "exit"
  /\ Idle /\ lastRun' = IF failed THEN "failed" ELSE "ok"
  /\ UNCHANGED <<after, listed, queue, failed, blind, noFs, faults, poolVars, kopia, savedNow, status>>
  /\ JobOnly

-----------------------------------------------------------------------------
(***************************************************************************)
(* ceph-restore and ceph-restore-kopia, and the node.                      *)
(***************************************************************************)

\* What the repository has of the PVC of this image, by the tags of its
\* snapshots: a re-created PVC is restored from those of its former images.
BackupsOf(i) == {b \in kopia : ClaimOf[b[1]] = ClaimOf[i]}

KeepPool == UNCHANGED <<life, poolVars, fileVars>>
KeepRun == UNCHANGED <<pc, after, found, listed, queue, cur, failed, blind, noFs>>

\* The lock, an image of the PVC, mounted before or not, that nothing uses, and
\* some backup of the PVC.
RestoreBegins(i) ==
  /\ restores < MaxRestores /\ lock = "free" /\ target = None
  /\ life[i] = "live" /\ BackupsOf(i) # {}
  /\ lock' = "restore" /\ target' = i /\ restores' = restores + 1
  /\ UNCHANGED <<content, torn, faults>> /\ KeepPool /\ KeepRun

\* Map, make a filesystem if there is none, mount and empty the volume.
RestoreWipes ==
  /\ target # None /\ content[target] # "partial"
  /\ content' = [content EXCEPT ![target] = "partial"]
  /\ UNCHANGED <<life, poolVars, fileVars, jobVars, restoreVars, faults>>

Released == target' = None /\ lock' = IF lock = "restore" THEN "free" ELSE lock

\* kopia snapshot restore, of the snapshot that was asked for or the latest: the
\* volume is then as whole as that backup.
RestoreEnds ==
  /\ target # None /\ content[target] = "partial"
  /\ \E b \in BackupsOf(target) :
       /\ content' = [content EXCEPT ![target] = b[2]]
       /\ torn' = IF b[2] = "partial" THEN torn \cup {target} ELSE torn \ {target}
  /\ Released
  /\ UNCHANGED <<restores, faults>> /\ KeepPool /\ KeepRun

\* It fails or is killed: what it has emptied stays as it is.
RestoreDies ==
  /\ target # None /\ Fault
  /\ torn' = IF content[target] = "partial" THEN torn \cup {target} ELSE torn
  /\ Released
  /\ UNCHANGED <<content, restores>> /\ KeepPool /\ KeepRun

\* ceph-restore-kopia: the kopia it execs keeps the lock for as long as it runs.
ToolBegins ==
  /\ restores < MaxRestores /\ lock = "free"
  /\ lock' = "kopia" /\ restores' = restores + 1
  /\ UNCHANGED <<content, target, torn, faults>> /\ KeepPool /\ KeepRun

ToolEnds ==
  /\ lock = "kopia"
  /\ lock' = "free"
  /\ UNCHANGED <<content, restoreVars, faults>> /\ KeepPool /\ KeepRun

\* The node reboots: devices and mounts go, and so does every process.
Reboot ==
  /\ Fault
  /\ mapped' = {} /\ mounted' = {}
  /\ Idle /\ target' = None
  /\ torn' = torn \cup {i \in Images : target = i /\ content[i] = "partial"}
  /\ UNCHANGED <<life, content, snaps, protected, clone, captured, fileVars, after, listed, queue,
                 failed, blind, noFs, restores>>

-----------------------------------------------------------------------------
BackupOne ==
  \/ Meta \/ SnapCreate \/ SnapProtect \/ CloneSnap \/ DeviceMap \/ Blkid \/ Mount \/ Kopia \/ Umount
  \/ WriteStatus \/ DeviceUnmap \/ RmClone \/ SnapUnprotect \/ SnapRm

Cleanup == CleanDevs \/ UnmapDevs \/ CleanClones \/ RmClones \/ CleanSnaps \/ RmSnaps \/ SnapLsFails \/ Cleaned

Job == Start \/ Cleanup \/ Connect \/ List \/ NextImage \/ BackupOne \/ Forget \/ Exit
Restore == (\E i \in Images : RestoreBegins(i)) \/ RestoreWipes \/ RestoreEnds \/ RestoreDies
Tool == ToolBegins \/ ToolEnds

Next ==
  \/ \E i \in Images : Create(i) \/ Format(i) \/ Delete(i)
  \/ Job \/ Kill \/ Restore \/ Tool \/ Reboot

Spec == Init /\ [][Next]_vars

\* The timer fires every day; a job, a restore and an operator's kopia go on
\* until they end.
FairSpec == Spec /\ WF_vars(Job) /\ WF_vars(RestoreWipes \/ RestoreEnds) /\ WF_vars(ToolEnds)

-----------------------------------------------------------------------------
(***************************************************************************)
(* Properties.                                                             *)
(***************************************************************************)

Ending == pc = "exit" /\ ~failed /\ ~blind

\* A run about to report success, none of whose listings and reads failed
\* unnoticed, has backed up every volume it listed, but for those that are
\* excluded, deleted or without a filesystem (lines 97-151).
SuccessCovers == Ending => (listed \cap Live) \ (Excluded \cup noFs) \subseteq savedNow

\* Such a run also leaves no snapshot, clone or device behind: ceph-csi can
\* delete every image (lines 32-35, 125-128).
SuccessIsClean == Ending => mapped = {} /\ \A i \in Images : snaps[i] = {} /\ clone[i] = "none"

\* A status file speaks of a backup that is in the repository; one written by
\* this run, of a backup made by this run (lines 117-120).
StatusTruthful ==
  \A i \in Images :
    /\ status[i] # "none" => \E c \in {"partial", "whole"} : <<i, c>> \in kopia
    /\ status[i] = "new" => i \in savedNow

\* No backup holds a volume in the middle of a restore, unless that restore died
\* there or restored such a backup: what the shared lock is for (lines 26-27,
\* 47-48).
NoTornBackup == [][kopia' # kopia => \A i \in Images : <<i, "partial">> \in kopia' \ kopia => i \in torn]_vars

\* What a run leaves behind in the pool, a later one removes: no image stays
\* undeletable once failures stop (lines 32-35, 76-95, 131).
LeftoversGo == \A i \in Images : (pc = "idle" /\ snaps[i] # {}) ~> (snaps[i] = {})

-----------------------------------------------------------------------------
(***************************************************************************)
(* What a comment claims, and the code does not do.                        *)
(***************************************************************************)

\* Lines 153-154: "Forget volumes that no longer exist" - so the status of a
\* volume that exists, which the alert on its age needs, is kept.
ForgetsOnlyGone == [][\A i \in Live : status[i] # "none" => status'[i] # "none"]_vars
=============================================================================
