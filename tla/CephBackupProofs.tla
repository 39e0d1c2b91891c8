--------------------------- MODULE CephBackupProofs ---------------------------
(***************************************************************************)
(* Proofs about the backup job, for any set of images, any number of       *)
(* failures, kills and reboots between its commands, and any interleaving  *)
(* with ceph-csi and ceph-restore: what a status file, a last-run file     *)
(* that says success and a backup in the repository are worth.             *)
(*                                                                         *)
(* The invariants are annotations of the script: what holds between two    *)
(* of its commands, by the value of pc.                                    *)
(***************************************************************************)
EXTENDS CephBackup, TLAPS

\* The commands of backup_one at which its snapshot exists, is protected, has a
\* clone, and at which the clone has a device.
HasSnap == BackupSteps \ {"meta", "snap"}
HasProtected == HasSnap \ {"protect", "rmSnap"}
HasClone == HasProtected \ {"clone", "unprotect"}
HasDevice == HasClone \ {"map", "rmClone"}

\* backup_one builds up its snapshot, clone and device in this order, and takes
\* them down in the reverse one.
ChainInv ==
  /\ pc \in BackupSteps => cur \in Images
  /\ pc \in HasSnap => "new" \in snaps[cur]
  /\ pc \in HasProtected => "new" \in protected[cur]
  /\ pc \in HasClone => clone[cur] = "new"
  /\ pc \in HasDevice => cur \in mapped
  /\ pc \in {"mount", "kopia"} => captured[cur] # "empty"

\* The lock: the job and a restore exclude each other.
LockInv == (pc # "idle" => lock = "backup") /\ (target # None => lock = "restore")

\* A volume is half restored only under a restore, or after one that died or took
\* such a backup; the snapshot of one only after one of the latter.
TornInv ==
  /\ \A i \in Images : content[i] = "partial" => i = target \/ i \in torn
  /\ pc \in HasSnap /\ captured[cur] = "partial" => cur \in torn

\* status is written for the image whose backup has just been made.
SavedInv ==
  /\ pc \in {"umount", "status"} => cur \in savedNow /\ \E c \in {"partial", "whole"} : <<cur, c>> \in kopia
  /\ StatusTruthful

\* Images with a snapshot exist, and what is listed has existed.
LifeInv ==
  /\ \A i \in Images : snaps[i] # {} => life[i] = "live"
  /\ \A i \in listed : life[i] # "unborn"

Clean(i) == snaps[i] = {} /\ clone[i] = "none" /\ i \notin mapped

\* How far cleanup has come; outside cleanup and backup_one the pool is clean,
\* and in backup_one all but its image is.  A listing that failed voids this.
CleanInv ==
  pc # "idle" /\ ~blind =>
    /\ pc = "unmapDevs" => mapped \subseteq found
    /\ pc \in {"cleanClones", "rmClones", "cleanSnaps", "rmSnaps"} => mapped = {}
    /\ pc = "rmClones" => \A i \in Images : clone[i] # "none" => i \in found
    /\ pc \in {"cleanSnaps", "rmSnaps"} => \A i \in Images : clone[i] = "none"
    /\ pc = "rmSnaps" => \A i \in Images : snaps[i] # {} => i \in found
    /\ pc \notin CleanSteps => \A i \in Images : (pc \in HasSnap /\ i = cur) \/ Clean(i)
    /\ pc \in HasSnap => snaps[cur] = {"new"}
    /\ pc \in HasSnap \ HasClone => clone[cur] = "none"
    /\ pc \in HasSnap \ HasDevice => cur \notin mapped

\* The commands of backup_one that come before its backup is made.
Unsaved == {"meta", "snap", "protect", "clone", "map", "blkid", "mount", "kopia"}

\* What has still to be backed up is queued, or is the image at hand.
CoverInv ==
  /\ (pc \in CleanSteps /\ after = "connect") \/ pc \in {"connect", "list"} => listed = {}
  /\ pc \in CleanSteps /\ ~failed => after = "connect"
  /\ pc \in {"forget", "exit"} => queue = {}
  /\ pc # "idle" /\ ~failed /\ ~blind =>
       \A i \in (listed \cap Live) \ (Excluded \cup noFs) :
         i \in savedNow \/ i \in queue \/ (pc \in Unsaved /\ i = cur)

BackupTyped == TypeOK /\ ChainInv
BackupInv == LockInv /\ TornInv /\ SavedInv /\ LifeInv /\ CleanInv /\ CoverInv

\* Every command keeps the chain of snapshot, clone, device and mount in order.
LEMMA BackupTypedStep == BackupTyped /\ [Next]_vars => BackupTyped'
<1> SUFFICES ASSUME BackupTyped, [Next]_vars PROVE BackupTyped'
  OBVIOUS
<1> USE CephBackupAssumption DEF BackupTyped, TypeOK, ChainInv, CleanSteps, BackupSteps, HasSnap, HasProtected, HasClone, HasDevice,
        poolVars, fileVars, jobVars, restoreVars, JobOnly, KeepJob, KeepLists, KeepPool, KeepRun
<1>1. ASSUME NEW i \in Images, Create(i) PROVE BackupTyped'
  BY <1>1 DEF Create
<1>2. ASSUME NEW i \in Images, Format(i) PROVE BackupTyped'
  BY <1>2 DEF Format
<1>3. ASSUME NEW i \in Images, Delete(i) PROVE BackupTyped'
  BY <1>3 DEF Delete
<1>4. CASE Start
  <2>1. (failed \in BOOLEAN /\ blind \in BOOLEAN)'
    BY <1>4, Zenon DEF Start, Age
  <2>2. TypeOK'
    BY <1>4, <2>1 DEF Start, Age, Aged, Goto
  <2>3. ChainInv'
    BY <1>4 DEF Start, Age, Aged, Goto
  <2> QED
    BY <2>2, <2>3 DEF BackupTyped
<1>5. CASE Kill
  BY <1>5 DEF Kill, Idle, Fault
<1>6. CASE CleanDevs
  <2>1. (failed \in BOOLEAN /\ blind \in BOOLEAN)'
    BY <1>6, Zenon DEF CleanDevs, CleanList, Goto, Fault
  <2>2. TypeOK'
    BY <1>6, <2>1 DEF CleanDevs, CleanList, Goto, Fault
  <2>3. ChainInv'
    BY <1>6 DEF CleanDevs, CleanList, Goto, Fault
  <2> QED
    BY <2>2, <2>3 DEF BackupTyped
<1>7. CASE UnmapDevs
  BY <1>7 DEF UnmapDevs, Removed, RemovalFails, Dies, Idle, Unmaps, Fault
<1>8. CASE CleanClones
  <2>1. (failed \in BOOLEAN /\ blind \in BOOLEAN)'
    BY <1>8, Zenon DEF CleanClones, CleanList, Goto, Fault
  <2>2. TypeOK'
    BY <1>8, <2>1 DEF CleanClones, CleanList, Goto, Fault
  <2>3. ChainInv'
    BY <1>8 DEF CleanClones, CleanList, Goto, Fault
  <2> QED
    BY <2>2, <2>3 DEF BackupTyped
<1>9. CASE RmClones
  BY <1>9 DEF RmClones, Removed, RemovalFails, Dies, Idle, RemovesClone, MayRemoveClone, Fault
<1>10. CASE CleanSnaps
  <2>1. (failed \in BOOLEAN /\ blind \in BOOLEAN)'
    BY <1>10, Zenon DEF CleanSnaps, CleanList, Goto, Fault, Live
  <2>2. TypeOK'
    BY <1>10, <2>1 DEF CleanSnaps, CleanList, Goto, Fault, Live
  <2>3. ChainInv'
    BY <1>10 DEF CleanSnaps, CleanList, Goto, Fault, Live
  <2> QED
    BY <2>2, <2>3 DEF BackupTyped
<1>11. CASE RmSnaps
  BY <1>11 DEF RmSnaps, Removed, RemovalFails, Dies, Idle, RemovesSnaps, MayRemoveSnaps, Fault
<1>12. CASE SnapLsFails
  BY <1>12 DEF SnapLsFails, Fault
<1>13. CASE Cleaned
  BY <1>13 DEF Cleaned, CleanedTo, Goto
<1>14. CASE Connect
  BY <1>14 DEF Connect, Goto, Dies, Idle, Fault
<1>15. CASE List
  <2>1. (failed \in BOOLEAN /\ blind \in BOOLEAN)'
    BY <1>15, Zenon DEF List, Goto, Fault, Live
  <2>2. TypeOK'
    BY <1>15, <2>1 DEF List, Goto, Fault, Live
  <2>3. ChainInv'
    BY <1>15 DEF List, Goto, Fault, Live
  <2> QED
    BY <2>2, <2>3 DEF BackupTyped
<1>16. CASE NextImage
  BY <1>16 DEF NextImage, Goto
<1>17. CASE Meta
  <2>1. (failed \in BOOLEAN /\ blind \in BOOLEAN)'
    BY <1>17, Zenon DEF Meta, Goto, Fault
  <2>2. TypeOK'
    BY <1>17, <2>1 DEF Meta, Goto, Fault
  <2>3. ChainInv'
    BY <1>17 DEF Meta, Goto, Fault
  <2> QED
    BY <2>2, <2>3 DEF BackupTyped
<1>18. CASE SnapCreate
  <2>1. (failed \in BOOLEAN /\ blind \in BOOLEAN)'
    BY <1>18, Zenon DEF SnapCreate, RbdStep, Goto, ImageFails, Fault
  <2>2. TypeOK'
    BY <1>18, <2>1 DEF SnapCreate, RbdStep, Goto, ImageFails, Fault
  <2>3. ChainInv'
    BY <1>18 DEF SnapCreate, RbdStep, Goto, ImageFails, Fault
  <2> QED
    BY <2>2, <2>3 DEF BackupTyped
<1>19. CASE SnapProtect
  <2>1. (failed \in BOOLEAN /\ blind \in BOOLEAN)'
    BY <1>19, Zenon DEF SnapProtect, RbdStep, Goto, ImageFails, Fault
  <2>2. TypeOK'
    BY <1>19, <2>1 DEF SnapProtect, RbdStep, Goto, ImageFails, Fault
  <2>3. ChainInv'
    BY <1>19 DEF SnapProtect, RbdStep, Goto, ImageFails, Fault
  <2> QED
    BY <2>2, <2>3 DEF BackupTyped
<1>20. CASE CloneSnap
  <2>1. (failed \in BOOLEAN /\ blind \in BOOLEAN)'
    BY <1>20, Zenon DEF CloneSnap, RbdStep, Goto, ImageFails, Fault
  <2>2. TypeOK'
    BY <1>20, <2>1 DEF CloneSnap, RbdStep, Goto, ImageFails, Fault
  <2>3. ChainInv'
    BY <1>20 DEF CloneSnap, RbdStep, Goto, ImageFails, Fault
  <2> QED
    BY <2>2, <2>3 DEF BackupTyped
<1>21. CASE DeviceMap
  <2>1. (failed \in BOOLEAN /\ blind \in BOOLEAN)'
    BY <1>21, Zenon DEF DeviceMap, RbdStep, Goto, ImageFails, Fault
  <2>2. TypeOK'
    BY <1>21, <2>1 DEF DeviceMap, RbdStep, Goto, ImageFails, Fault
  <2>3. ChainInv'
    BY <1>21 DEF DeviceMap, RbdStep, Goto, ImageFails, Fault
  <2> QED
    BY <2>2, <2>3 DEF BackupTyped
<1>22. CASE Blkid
  <2>1. (failed \in BOOLEAN /\ blind \in BOOLEAN)'
    BY <1>22, Zenon DEF Blkid, Goto, Fault
  <2>2. TypeOK'
    BY <1>22, <2>1 DEF Blkid, Goto, Fault
  <2>3. ChainInv'
    BY <1>22 DEF Blkid, Goto, Fault
  <2> QED
    BY <2>2, <2>3 DEF BackupTyped
<1>23. CASE Mount
  <2>1. (failed \in BOOLEAN /\ blind \in BOOLEAN)'
    BY <1>23, Zenon DEF Mount, RbdStep, Goto, ImageFails, Fault
  <2>2. TypeOK'
    BY <1>23, <2>1 DEF Mount, RbdStep, Goto, ImageFails, Fault
  <2>3. ChainInv'
    BY <1>23 DEF Mount, RbdStep, Goto, ImageFails, Fault
  <2> QED
    BY <2>2, <2>3 DEF BackupTyped
<1>24. CASE Kopia
  <2>1. (failed \in BOOLEAN /\ blind \in BOOLEAN)'
    BY <1>24, Zenon DEF Kopia, Goto, ImageFails, Fault
  <2>2. TypeOK'
    BY <1>24, <2>1 DEF Kopia, Goto, ImageFails, Fault
  <2>3. ChainInv'
    BY <1>24 DEF Kopia, Goto, ImageFails, Fault
  <2> QED
    BY <2>2, <2>3 DEF BackupTyped
<1>25. CASE Umount
  <2>1. (failed \in BOOLEAN /\ blind \in BOOLEAN)'
    BY <1>25, Zenon DEF Umount, RbdStep, Goto, ImageFails, Fault
  <2>2. TypeOK'
    BY <1>25, <2>1 DEF Umount, RbdStep, Goto, ImageFails, Fault
  <2>3. ChainInv'
    BY <1>25 DEF Umount, RbdStep, Goto, ImageFails, Fault
  <2> QED
    BY <2>2, <2>3 DEF BackupTyped
<1>26. CASE WriteStatus
  BY <1>26 DEF WriteStatus, Goto
<1>27. CASE DeviceUnmap
  <2>1. (failed \in BOOLEAN /\ blind \in BOOLEAN)'
    BY <1>27, Zenon DEF DeviceUnmap, RbdStep, Goto, ImageFails, Fault
  <2>2. TypeOK'
    BY <1>27, <2>1 DEF DeviceUnmap, RbdStep, Goto, ImageFails, Fault
  <2>3. ChainInv'
    BY <1>27 DEF DeviceUnmap, RbdStep, Goto, ImageFails, Fault
  <2> QED
    BY <2>2, <2>3 DEF BackupTyped
<1>28. CASE RmClone
  <2>1. (failed \in BOOLEAN /\ blind \in BOOLEAN)'
    BY <1>28, Zenon DEF RmClone, RbdStep, Goto, ImageFails, Fault
  <2>2. TypeOK'
    BY <1>28, <2>1 DEF RmClone, RbdStep, Goto, ImageFails, Fault
  <2>3. ChainInv'
    BY <1>28 DEF RmClone, RbdStep, Goto, ImageFails, Fault
  <2> QED
    BY <2>2, <2>3 DEF BackupTyped
<1>29. CASE SnapUnprotect
  <2>1. (failed \in BOOLEAN /\ blind \in BOOLEAN)'
    BY <1>29, Zenon DEF SnapUnprotect, RbdStep, Goto, ImageFails, Fault
  <2>2. TypeOK'
    BY <1>29, <2>1 DEF SnapUnprotect, RbdStep, Goto, ImageFails, Fault
  <2>3. ChainInv'
    BY <1>29 DEF SnapUnprotect, RbdStep, Goto, ImageFails, Fault
  <2> QED
    BY <2>2, <2>3 DEF BackupTyped
<1>30. CASE SnapRm
  <2>1. (failed \in BOOLEAN /\ blind \in BOOLEAN)'
    BY <1>30, Zenon DEF SnapRm, RemovesNew, RbdStep, Goto, ImageFails, Fault
  <2>2. TypeOK'
    BY <1>30, <2>1 DEF SnapRm, RemovesNew, RbdStep, Goto, ImageFails, Fault
  <2>3. ChainInv'
    BY <1>30 DEF SnapRm, RemovesNew, RbdStep, Goto, ImageFails, Fault
  <2> QED
    BY <2>2, <2>3 DEF BackupTyped
<1>31. CASE Forget
  BY <1>31 DEF Forget, Goto
<1>32. CASE Exit
  BY <1>32 DEF Exit, Idle
<1>33. ASSUME NEW i \in Images, RestoreBegins(i) PROVE BackupTyped'
  BY <1>33 DEF RestoreBegins
<1>34. CASE RestoreWipes
  BY <1>34 DEF RestoreWipes
<1>35. CASE RestoreEnds
  <2>1. PICK b \in kopia : /\ content' = [content EXCEPT ![target] = b[2]]
                          /\ torn' = IF b[2] = "partial" THEN torn \cup {target} ELSE torn \ {target}
    BY <1>35, Zenon DEF RestoreEnds, BackupsOf
  <2>2. b[2] \in {"partial", "whole"} /\ target \in Images
    BY <1>35, <2>1 DEF RestoreEnds
  <2> QED
    BY <1>35, <2>1, <2>2 DEF RestoreEnds, Released
<1>36. CASE RestoreDies
  BY <1>36 DEF RestoreDies, Released, Fault
<1>37. CASE Reboot
  BY <1>37 DEF Reboot, Idle, Fault
<1>38. CASE Tool
  BY <1>38 DEF Tool, ToolBegins, ToolEnds
<1>39. CASE UNCHANGED vars
  BY <1>39 DEF vars
<1> QED
  BY <1>1, <1>2, <1>3, <1>4, <1>5, <1>6, <1>7, <1>8, <1>9, <1>10, <1>11, <1>12, <1>13, <1>14, <1>15,
     <1>16, <1>17, <1>18, <1>19, <1>20, <1>21, <1>22, <1>23, <1>24, <1>25, <1>26, <1>27, <1>28, <1>29,
     <1>30, <1>31, <1>32, <1>33, <1>34, <1>35, <1>36, <1>37, <1>38, <1>39
     DEF Next, Job, Cleanup, BackupOne, Restore

\* The lock is taken before, and given back with, what it protects.
LEMMA LockStep == BackupTyped /\ LockInv /\ [Next]_vars => LockInv'
<1> SUFFICES ASSUME BackupTyped, LockInv, [Next]_vars PROVE LockInv'
  OBVIOUS
<1> USE CephBackupAssumption DEF LockInv, BackupTyped, TypeOK,
        poolVars, fileVars, jobVars, restoreVars, JobOnly, KeepJob, KeepLists, KeepPool, KeepRun
<1>1. ASSUME NEW i \in Images, Create(i) PROVE LockInv'
  BY <1>1 DEF Create
<1>2. ASSUME NEW i \in Images, Format(i) PROVE LockInv'
  BY <1>2 DEF Format
<1>3. ASSUME NEW i \in Images, Delete(i) PROVE LockInv'
  BY <1>3 DEF Delete
<1>4. CASE Start
  BY <1>4 DEF Start, Age, Aged, Goto
<1>5. CASE Kill
  BY <1>5 DEF Kill, Idle, Fault
<1>6. CASE CleanDevs
  BY <1>6 DEF CleanDevs, CleanList, Goto, Fault
<1>7. CASE UnmapDevs
  BY <1>7 DEF UnmapDevs, Removed, RemovalFails, Dies, Idle, Unmaps, Fault
<1>8. CASE CleanClones
  BY <1>8 DEF CleanClones, CleanList, Goto, Fault
<1>9. CASE RmClones
  BY <1>9 DEF RmClones, Removed, RemovalFails, Dies, Idle, RemovesClone, MayRemoveClone, Fault
<1>10. CASE CleanSnaps
  BY <1>10 DEF CleanSnaps, CleanList, Goto, Fault, Live
<1>11. CASE RmSnaps
  BY <1>11 DEF RmSnaps, Removed, RemovalFails, Dies, Idle, RemovesSnaps, MayRemoveSnaps, Fault
<1>12. CASE SnapLsFails
  BY <1>12 DEF SnapLsFails, Fault
<1>13. CASE Cleaned
  BY <1>13 DEF Cleaned, CleanedTo, Goto
<1>14. CASE Connect
  BY <1>14 DEF Connect, Goto, Dies, Idle, Fault
<1>15. CASE List
  BY <1>15 DEF List, Goto, Fault, Live
<1>16. CASE NextImage
  BY <1>16 DEF NextImage, Goto
<1>17. CASE Meta
  BY <1>17 DEF Meta, Goto, Fault
<1>18. CASE SnapCreate
  BY <1>18 DEF SnapCreate, RbdStep, Goto, ImageFails, Fault
<1>19. CASE SnapProtect
  BY <1>19 DEF SnapProtect, RbdStep, Goto, ImageFails, Fault
<1>20. CASE CloneSnap
  BY <1>20 DEF CloneSnap, RbdStep, Goto, ImageFails, Fault
<1>21. CASE DeviceMap
  BY <1>21 DEF DeviceMap, RbdStep, Goto, ImageFails, Fault
<1>22. CASE Blkid
  BY <1>22 DEF Blkid, Goto, Fault
<1>23. CASE Mount
  BY <1>23 DEF Mount, RbdStep, Goto, ImageFails, Fault
<1>24. CASE Kopia
  BY <1>24 DEF Kopia, Goto, ImageFails, Fault
<1>25. CASE Umount
  BY <1>25 DEF Umount, RbdStep, Goto, ImageFails, Fault
<1>26. CASE WriteStatus
  BY <1>26 DEF WriteStatus, Goto
<1>27. CASE DeviceUnmap
  BY <1>27 DEF DeviceUnmap, RbdStep, Goto, ImageFails, Fault
<1>28. CASE RmClone
  BY <1>28 DEF RmClone, RbdStep, Goto, ImageFails, Fault
<1>29. CASE SnapUnprotect
  BY <1>29 DEF SnapUnprotect, RbdStep, Goto, ImageFails, Fault
<1>30. CASE SnapRm
  BY <1>30 DEF SnapRm, RemovesNew, RbdStep, Goto, ImageFails, Fault
<1>31. CASE Forget
  BY <1>31 DEF Forget, Goto
<1>32. CASE Exit
  BY <1>32 DEF Exit, Idle
<1>33. ASSUME NEW i \in Images, RestoreBegins(i) PROVE LockInv'
  BY <1>33 DEF RestoreBegins
<1>34. CASE RestoreWipes
  BY <1>34 DEF RestoreWipes
<1>35. CASE RestoreEnds
  BY <1>35 DEF RestoreEnds, Released
<1>36. CASE RestoreDies
  BY <1>36 DEF RestoreDies, Released, Fault
<1>37. CASE Reboot
  BY <1>37 DEF Reboot, Idle, Fault
<1>38. CASE Tool
  BY <1>38 DEF Tool, ToolBegins, ToolEnds
<1>39. CASE UNCHANGED vars
  BY <1>39 DEF vars
<1> QED
  BY <1>1, <1>2, <1>3, <1>4, <1>5, <1>6, <1>7, <1>8, <1>9, <1>10, <1>11, <1>12, <1>13, <1>14, <1>15,
     <1>16, <1>17, <1>18, <1>19, <1>20, <1>21, <1>22, <1>23, <1>24, <1>25, <1>26, <1>27, <1>28, <1>29,
     <1>30, <1>31, <1>32, <1>33, <1>34, <1>35, <1>36, <1>37, <1>38, <1>39
     DEF Next, Job, Cleanup, BackupOne, Restore

\* A restore marks what it leaves half done; the job only ever sees what is marked.
LEMMA TornStep == BackupTyped /\ LockInv /\ TornInv /\ [Next]_vars => TornInv'
<1> SUFFICES ASSUME BackupTyped, LockInv, TornInv, [Next]_vars PROVE TornInv'
  OBVIOUS
<1> USE CephBackupAssumption DEF TornInv, LockInv, BackupTyped, TypeOK, ChainInv, CleanSteps, BackupSteps, HasSnap, HasProtected, HasClone, HasDevice,
        poolVars, fileVars, jobVars, restoreVars, JobOnly, KeepJob, KeepLists, KeepPool, KeepRun
<1>1. ASSUME NEW i \in Images, Create(i) PROVE TornInv'
  BY <1>1 DEF Create
<1>2. ASSUME NEW i \in Images, Format(i) PROVE TornInv'
  BY <1>2 DEF Format
<1>3. ASSUME NEW i \in Images, Delete(i) PROVE TornInv'
  BY <1>3 DEF Delete
<1>4. CASE Start
  BY <1>4 DEF Start, Age, Aged, Goto
<1>5. CASE Kill
  BY <1>5 DEF Kill, Idle, Fault
<1>6. CASE CleanDevs
  BY <1>6 DEF CleanDevs, CleanList, Goto, Fault
<1>7. CASE UnmapDevs
  BY <1>7 DEF UnmapDevs, Removed, RemovalFails, Dies, Idle, Unmaps, Fault
<1>8. CASE CleanClones
  BY <1>8 DEF CleanClones, CleanList, Goto, Fault
<1>9. CASE RmClones
  BY <1>9 DEF RmClones, Removed, RemovalFails, Dies, Idle, RemovesClone, MayRemoveClone, Fault
<1>10. CASE CleanSnaps
  BY <1>10 DEF CleanSnaps, CleanList, Goto, Fault, Live
<1>11. CASE RmSnaps
  BY <1>11 DEF RmSnaps, Removed, RemovalFails, Dies, Idle, RemovesSnaps, MayRemoveSnaps, Fault
<1>12. CASE SnapLsFails
  BY <1>12 DEF SnapLsFails, Fault
<1>13. CASE Cleaned
  BY <1>13 DEF Cleaned, CleanedTo, Goto
<1>14. CASE Connect
  BY <1>14 DEF Connect, Goto, Dies, Idle, Fault
<1>15. CASE List
  BY <1>15 DEF List, Goto, Fault, Live
<1>16. CASE NextImage
  BY <1>16 DEF NextImage, Goto
<1>17. CASE Meta
  BY <1>17 DEF Meta, Goto, Fault
<1>18. CASE SnapCreate
  BY <1>18 DEF SnapCreate, RbdStep, Goto, ImageFails, Fault
<1>19. CASE SnapProtect
  BY <1>19 DEF SnapProtect, RbdStep, Goto, ImageFails, Fault
<1>20. CASE CloneSnap
  BY <1>20 DEF CloneSnap, RbdStep, Goto, ImageFails, Fault
<1>21. CASE DeviceMap
  BY <1>21 DEF DeviceMap, RbdStep, Goto, ImageFails, Fault
<1>22. CASE Blkid
  BY <1>22 DEF Blkid, Goto, Fault
<1>23. CASE Mount
  BY <1>23 DEF Mount, RbdStep, Goto, ImageFails, Fault
<1>24. CASE Kopia
  BY <1>24 DEF Kopia, Goto, ImageFails, Fault
<1>25. CASE Umount
  BY <1>25 DEF Umount, RbdStep, Goto, ImageFails, Fault
<1>26. CASE WriteStatus
  BY <1>26 DEF WriteStatus, Goto
<1>27. CASE DeviceUnmap
  BY <1>27 DEF DeviceUnmap, RbdStep, Goto, ImageFails, Fault
<1>28. CASE RmClone
  BY <1>28 DEF RmClone, RbdStep, Goto, ImageFails, Fault
<1>29. CASE SnapUnprotect
  BY <1>29 DEF SnapUnprotect, RbdStep, Goto, ImageFails, Fault
<1>30. CASE SnapRm
  BY <1>30 DEF SnapRm, RemovesNew, RbdStep, Goto, ImageFails, Fault
<1>31. CASE Forget
  BY <1>31 DEF Forget, Goto
<1>32. CASE Exit
  BY <1>32 DEF Exit, Idle
<1>33. ASSUME NEW i \in Images, RestoreBegins(i) PROVE TornInv'
  BY <1>33 DEF RestoreBegins
<1>34. CASE RestoreWipes
  BY <1>34 DEF RestoreWipes
<1>35. CASE RestoreEnds
  BY <1>35 DEF RestoreEnds, Released
<1>36. CASE RestoreDies
  BY <1>36 DEF RestoreDies, Released, Fault
<1>37. CASE Reboot
  BY <1>37 DEF Reboot, Idle, Fault
<1>38. CASE Tool
  BY <1>38 DEF Tool, ToolBegins, ToolEnds
<1>39. CASE UNCHANGED vars
  BY <1>39 DEF vars
<1> QED
  BY <1>1, <1>2, <1>3, <1>4, <1>5, <1>6, <1>7, <1>8, <1>9, <1>10, <1>11, <1>12, <1>13, <1>14, <1>15,
     <1>16, <1>17, <1>18, <1>19, <1>20, <1>21, <1>22, <1>23, <1>24, <1>25, <1>26, <1>27, <1>28, <1>29,
     <1>30, <1>31, <1>32, <1>33, <1>34, <1>35, <1>36, <1>37, <1>38, <1>39
     DEF Next, Job, Cleanup, BackupOne, Restore

\* A status is written after the backup it speaks of.
LEMMA SavedStep == BackupTyped /\ SavedInv /\ [Next]_vars => SavedInv'
<1> SUFFICES ASSUME BackupTyped, SavedInv, [Next]_vars PROVE SavedInv'
  OBVIOUS
<1> USE CephBackupAssumption DEF SavedInv, StatusTruthful, BackupTyped, TypeOK, ChainInv, CleanSteps, BackupSteps, HasSnap, HasProtected, HasClone, HasDevice,
        poolVars, fileVars, jobVars, restoreVars, JobOnly, KeepJob, KeepLists, KeepPool, KeepRun
<1>1. ASSUME NEW i \in Images, Create(i) PROVE SavedInv'
  BY <1>1 DEF Create
<1>2. ASSUME NEW i \in Images, Format(i) PROVE SavedInv'
  BY <1>2 DEF Format
<1>3. ASSUME NEW i \in Images, Delete(i) PROVE SavedInv'
  BY <1>3 DEF Delete
<1>4. CASE Start
  BY <1>4 DEF Start, Age, Aged, Goto
<1>5. CASE Kill
  BY <1>5 DEF Kill, Idle, Fault
<1>6. CASE CleanDevs
  BY <1>6 DEF CleanDevs, CleanList, Goto, Fault
<1>7. CASE UnmapDevs
  BY <1>7 DEF UnmapDevs, Removed, RemovalFails, Dies, Idle, Unmaps, Fault
<1>8. CASE CleanClones
  BY <1>8 DEF CleanClones, CleanList, Goto, Fault
<1>9. CASE RmClones
  BY <1>9 DEF RmClones, Removed, RemovalFails, Dies, Idle, RemovesClone, MayRemoveClone, Fault
<1>10. CASE CleanSnaps
  BY <1>10 DEF CleanSnaps, CleanList, Goto, Fault, Live
<1>11. CASE RmSnaps
  BY <1>11 DEF RmSnaps, Removed, RemovalFails, Dies, Idle, RemovesSnaps, MayRemoveSnaps, Fault
<1>12. CASE SnapLsFails
  BY <1>12 DEF SnapLsFails, Fault
<1>13. CASE Cleaned
  BY <1>13 DEF Cleaned, CleanedTo, Goto
<1>14. CASE Connect
  BY <1>14 DEF Connect, Goto, Dies, Idle, Fault
<1>15. CASE List
  BY <1>15 DEF List, Goto, Fault, Live
<1>16. CASE NextImage
  BY <1>16 DEF NextImage, Goto
<1>17. CASE Meta
  BY <1>17 DEF Meta, Goto, Fault
<1>18. CASE SnapCreate
  BY <1>18 DEF SnapCreate, RbdStep, Goto, ImageFails, Fault
<1>19. CASE SnapProtect
  BY <1>19 DEF SnapProtect, RbdStep, Goto, ImageFails, Fault
<1>20. CASE CloneSnap
  BY <1>20 DEF CloneSnap, RbdStep, Goto, ImageFails, Fault
<1>21. CASE DeviceMap
  BY <1>21 DEF DeviceMap, RbdStep, Goto, ImageFails, Fault
<1>22. CASE Blkid
  BY <1>22 DEF Blkid, Goto, Fault
<1>23. CASE Mount
  BY <1>23 DEF Mount, RbdStep, Goto, ImageFails, Fault
<1>24. CASE Kopia
  BY <1>24 DEF Kopia, Goto, ImageFails, Fault
<1>25. CASE Umount
  BY <1>25 DEF Umount, RbdStep, Goto, ImageFails, Fault
<1>26. CASE WriteStatus
  BY <1>26 DEF WriteStatus, Goto
<1>27. CASE DeviceUnmap
  BY <1>27 DEF DeviceUnmap, RbdStep, Goto, ImageFails, Fault
<1>28. CASE RmClone
  BY <1>28 DEF RmClone, RbdStep, Goto, ImageFails, Fault
<1>29. CASE SnapUnprotect
  BY <1>29 DEF SnapUnprotect, RbdStep, Goto, ImageFails, Fault
<1>30. CASE SnapRm
  BY <1>30 DEF SnapRm, RemovesNew, RbdStep, Goto, ImageFails, Fault
<1>31. CASE Forget
  BY <1>31 DEF Forget, Goto
<1>32. CASE Exit
  BY <1>32 DEF Exit, Idle
<1>33. ASSUME NEW i \in Images, RestoreBegins(i) PROVE SavedInv'
  BY <1>33 DEF RestoreBegins
<1>34. CASE RestoreWipes
  BY <1>34 DEF RestoreWipes
<1>35. CASE RestoreEnds
  BY <1>35 DEF RestoreEnds, Released
<1>36. CASE RestoreDies
  BY <1>36 DEF RestoreDies, Released, Fault
<1>37. CASE Reboot
  BY <1>37 DEF Reboot, Idle, Fault
<1>38. CASE Tool
  BY <1>38 DEF Tool, ToolBegins, ToolEnds
<1>39. CASE UNCHANGED vars
  BY <1>39 DEF vars
<1> QED
  BY <1>1, <1>2, <1>3, <1>4, <1>5, <1>6, <1>7, <1>8, <1>9, <1>10, <1>11, <1>12, <1>13, <1>14, <1>15,
     <1>16, <1>17, <1>18, <1>19, <1>20, <1>21, <1>22, <1>23, <1>24, <1>25, <1>26, <1>27, <1>28, <1>29,
     <1>30, <1>31, <1>32, <1>33, <1>34, <1>35, <1>36, <1>37, <1>38, <1>39
     DEF Next, Job, Cleanup, BackupOne, Restore

\* ceph-csi cannot delete an image that has a snapshot.
LEMMA LifeStep == BackupTyped /\ LifeInv /\ [Next]_vars => LifeInv'
<1> SUFFICES ASSUME BackupTyped, LifeInv, [Next]_vars PROVE LifeInv'
  OBVIOUS
<1> USE CephBackupAssumption DEF LifeInv, Live, BackupTyped, TypeOK, ChainInv, CleanSteps, BackupSteps, HasSnap, HasProtected, HasClone, HasDevice,
        poolVars, fileVars, jobVars, restoreVars, JobOnly, KeepJob, KeepLists, KeepPool, KeepRun
<1>1. ASSUME NEW i \in Images, Create(i) PROVE LifeInv'
  BY <1>1 DEF Create
<1>2. ASSUME NEW i \in Images, Format(i) PROVE LifeInv'
  BY <1>2 DEF Format
<1>3. ASSUME NEW i \in Images, Delete(i) PROVE LifeInv'
  BY <1>3 DEF Delete
<1>4. CASE Start
  BY <1>4 DEF Start, Age, Aged, Goto
<1>5. CASE Kill
  BY <1>5 DEF Kill, Idle, Fault
<1>6. CASE CleanDevs
  BY <1>6 DEF CleanDevs, CleanList, Goto, Fault
<1>7. CASE UnmapDevs
  BY <1>7 DEF UnmapDevs, Removed, RemovalFails, Dies, Idle, Unmaps, Fault
<1>8. CASE CleanClones
  BY <1>8 DEF CleanClones, CleanList, Goto, Fault
<1>9. CASE RmClones
  BY <1>9 DEF RmClones, Removed, RemovalFails, Dies, Idle, RemovesClone, MayRemoveClone, Fault
<1>10. CASE CleanSnaps
  BY <1>10 DEF CleanSnaps, CleanList, Goto, Fault, Live
<1>11. CASE RmSnaps
  BY <1>11 DEF RmSnaps, Removed, RemovalFails, Dies, Idle, RemovesSnaps, MayRemoveSnaps, Fault
<1>12. CASE SnapLsFails
  BY <1>12 DEF SnapLsFails, Fault
<1>13. CASE Cleaned
  BY <1>13 DEF Cleaned, CleanedTo, Goto
<1>14. CASE Connect
  BY <1>14 DEF Connect, Goto, Dies, Idle, Fault
<1>15. CASE List
  BY <1>15 DEF List, Goto, Fault, Live
<1>16. CASE NextImage
  BY <1>16 DEF NextImage, Goto
<1>17. CASE Meta
  BY <1>17 DEF Meta, Goto, Fault
<1>18. CASE SnapCreate
  BY <1>18 DEF SnapCreate, RbdStep, Goto, ImageFails, Fault
<1>19. CASE SnapProtect
  BY <1>19 DEF SnapProtect, RbdStep, Goto, ImageFails, Fault
<1>20. CASE CloneSnap
  BY <1>20 DEF CloneSnap, RbdStep, Goto, ImageFails, Fault
<1>21. CASE DeviceMap
  BY <1>21 DEF DeviceMap, RbdStep, Goto, ImageFails, Fault
<1>22. CASE Blkid
  BY <1>22 DEF Blkid, Goto, Fault
<1>23. CASE Mount
  BY <1>23 DEF Mount, RbdStep, Goto, ImageFails, Fault
<1>24. CASE Kopia
  BY <1>24 DEF Kopia, Goto, ImageFails, Fault
<1>25. CASE Umount
  BY <1>25 DEF Umount, RbdStep, Goto, ImageFails, Fault
<1>26. CASE WriteStatus
  BY <1>26 DEF WriteStatus, Goto
<1>27. CASE DeviceUnmap
  BY <1>27 DEF DeviceUnmap, RbdStep, Goto, ImageFails, Fault
<1>28. CASE RmClone
  BY <1>28 DEF RmClone, RbdStep, Goto, ImageFails, Fault
<1>29. CASE SnapUnprotect
  BY <1>29 DEF SnapUnprotect, RbdStep, Goto, ImageFails, Fault
<1>30. CASE SnapRm
  BY <1>30 DEF SnapRm, RemovesNew, RbdStep, Goto, ImageFails, Fault
<1>31. CASE Forget
  BY <1>31 DEF Forget, Goto
<1>32. CASE Exit
  BY <1>32 DEF Exit, Idle
<1>33. ASSUME NEW i \in Images, RestoreBegins(i) PROVE LifeInv'
  BY <1>33 DEF RestoreBegins
<1>34. CASE RestoreWipes
  BY <1>34 DEF RestoreWipes
<1>35. CASE RestoreEnds
  BY <1>35 DEF RestoreEnds, Released
<1>36. CASE RestoreDies
  BY <1>36 DEF RestoreDies, Released, Fault
<1>37. CASE Reboot
  BY <1>37 DEF Reboot, Idle, Fault
<1>38. CASE Tool
  BY <1>38 DEF Tool, ToolBegins, ToolEnds
<1>39. CASE UNCHANGED vars
  BY <1>39 DEF vars
<1> QED
  BY <1>1, <1>2, <1>3, <1>4, <1>5, <1>6, <1>7, <1>8, <1>9, <1>10, <1>11, <1>12, <1>13, <1>14, <1>15,
     <1>16, <1>17, <1>18, <1>19, <1>20, <1>21, <1>22, <1>23, <1>24, <1>25, <1>26, <1>27, <1>28, <1>29,
     <1>30, <1>31, <1>32, <1>33, <1>34, <1>35, <1>36, <1>37, <1>38, <1>39
     DEF Next, Job, Cleanup, BackupOne, Restore

\* cleanup empties the pool, backup_one takes down what it built, or fails and is cleaned up.
LEMMA CleanStep == BackupTyped /\ LifeInv /\ CleanInv /\ [Next]_vars => CleanInv'
<1> SUFFICES ASSUME BackupTyped, LifeInv, CleanInv, [Next]_vars PROVE CleanInv'
  OBVIOUS
<1> USE CephBackupAssumption DEF CleanInv, Clean, LifeInv, Live, BackupTyped, TypeOK, ChainInv, CleanSteps, BackupSteps, HasSnap, HasProtected, HasClone, HasDevice,
        poolVars, fileVars, jobVars, restoreVars, JobOnly, KeepJob, KeepLists, KeepPool, KeepRun
<1>1. ASSUME NEW i \in Images, Create(i) PROVE CleanInv'
  BY <1>1 DEF Create
<1>2. ASSUME NEW i \in Images, Format(i) PROVE CleanInv'
  BY <1>2 DEF Format
<1>3. ASSUME NEW i \in Images, Delete(i) PROVE CleanInv'
  BY <1>3 DEF Delete
<1>4. CASE Start
  BY <1>4 DEF Start, Age, Aged, Goto
<1>5. CASE Kill
  BY <1>5 DEF Kill, Idle, Fault
<1>6. CASE CleanDevs
  BY <1>6 DEF CleanDevs, CleanList, Goto, Fault
<1>7. CASE UnmapDevs
  BY <1>7 DEF UnmapDevs, Removed, RemovalFails, Dies, Idle, Unmaps, Fault
<1>8. CASE CleanClones
  BY <1>8 DEF CleanClones, CleanList, Goto, Fault
<1>9. CASE RmClones
  BY <1>9 DEF RmClones, Removed, RemovalFails, Dies, Idle, RemovesClone, MayRemoveClone, Fault
<1>10. CASE CleanSnaps
  BY <1>10 DEF CleanSnaps, CleanList, Goto, Fault, Live
<1>11. CASE RmSnaps
  BY <1>11 DEF RmSnaps, Removed, RemovalFails, Dies, Idle, RemovesSnaps, MayRemoveSnaps, Fault
<1>12. CASE SnapLsFails
  BY <1>12 DEF SnapLsFails, Fault
<1>13. CASE Cleaned
  BY <1>13 DEF Cleaned, CleanedTo, Goto
<1>14. CASE Connect
  BY <1>14 DEF Connect, Goto, Dies, Idle, Fault
<1>15. CASE List
  BY <1>15 DEF List, Goto, Fault, Live
<1>16. CASE NextImage
  BY <1>16 DEF NextImage, Goto
<1>17. CASE Meta
  BY <1>17 DEF Meta, Goto, Fault
<1>18. CASE SnapCreate
  BY <1>18 DEF SnapCreate, RbdStep, Goto, ImageFails, Fault
<1>19. CASE SnapProtect
  BY <1>19 DEF SnapProtect, RbdStep, Goto, ImageFails, Fault
<1>20. CASE CloneSnap
  BY <1>20 DEF CloneSnap, RbdStep, Goto, ImageFails, Fault
<1>21. CASE DeviceMap
  BY <1>21 DEF DeviceMap, RbdStep, Goto, ImageFails, Fault
<1>22. CASE Blkid
  BY <1>22 DEF Blkid, Goto, Fault
<1>23. CASE Mount
  BY <1>23 DEF Mount, RbdStep, Goto, ImageFails, Fault
<1>24. CASE Kopia
  BY <1>24 DEF Kopia, Goto, ImageFails, Fault
<1>25. CASE Umount
  BY <1>25 DEF Umount, RbdStep, Goto, ImageFails, Fault
<1>26. CASE WriteStatus
  BY <1>26 DEF WriteStatus, Goto
<1>27. CASE DeviceUnmap
  BY <1>27 DEF DeviceUnmap, RbdStep, Goto, ImageFails, Fault
<1>28. CASE RmClone
  BY <1>28 DEF RmClone, RbdStep, Goto, ImageFails, Fault
<1>29. CASE SnapUnprotect
  BY <1>29 DEF SnapUnprotect, RbdStep, Goto, ImageFails, Fault
<1>30. CASE SnapRm
  BY <1>30 DEF SnapRm, RemovesNew, RbdStep, Goto, ImageFails, Fault
<1>31. CASE Forget
  BY <1>31 DEF Forget, Goto
<1>32. CASE Exit
  BY <1>32 DEF Exit, Idle
<1>33. ASSUME NEW i \in Images, RestoreBegins(i) PROVE CleanInv'
  BY <1>33 DEF RestoreBegins
<1>34. CASE RestoreWipes
  BY <1>34 DEF RestoreWipes
<1>35. CASE RestoreEnds
  BY <1>35 DEF RestoreEnds, Released
<1>36. CASE RestoreDies
  BY <1>36 DEF RestoreDies, Released, Fault
<1>37. CASE Reboot
  BY <1>37 DEF Reboot, Idle, Fault
<1>38. CASE Tool
  BY <1>38 DEF Tool, ToolBegins, ToolEnds
<1>39. CASE UNCHANGED vars
  BY <1>39 DEF vars
<1> QED
  BY <1>1, <1>2, <1>3, <1>4, <1>5, <1>6, <1>7, <1>8, <1>9, <1>10, <1>11, <1>12, <1>13, <1>14, <1>15,
     <1>16, <1>17, <1>18, <1>19, <1>20, <1>21, <1>22, <1>23, <1>24, <1>25, <1>26, <1>27, <1>28, <1>29,
     <1>30, <1>31, <1>32, <1>33, <1>34, <1>35, <1>36, <1>37, <1>38, <1>39
     DEF Next, Job, Cleanup, BackupOne, Restore

\* An image leaves the queue to be backed up, skipped for a reason, or to fail the run.
LEMMA CoverStep == BackupTyped /\ LifeInv /\ CoverInv /\ [Next]_vars => CoverInv'
<1> SUFFICES ASSUME BackupTyped, LifeInv, CoverInv, [Next]_vars PROVE CoverInv'
  OBVIOUS
<1> USE CephBackupAssumption DEF CoverInv, Unsaved, LifeInv, Live, BackupTyped, TypeOK, ChainInv, CleanSteps, BackupSteps, HasSnap, HasProtected, HasClone, HasDevice,
        poolVars, fileVars, jobVars, restoreVars, JobOnly, KeepJob, KeepLists, KeepPool, KeepRun
<1>1. ASSUME NEW i \in Images, Create(i) PROVE CoverInv'
  BY <1>1 DEF Create
<1>2. ASSUME NEW i \in Images, Format(i) PROVE CoverInv'
  BY <1>2 DEF Format
<1>3. ASSUME NEW i \in Images, Delete(i) PROVE CoverInv'
  BY <1>3 DEF Delete
<1>4. CASE Start
  BY <1>4 DEF Start, Age, Aged, Goto
<1>5. CASE Kill
  BY <1>5 DEF Kill, Idle, Fault
<1>6. CASE CleanDevs
  BY <1>6 DEF CleanDevs, CleanList, Goto, Fault
<1>7. CASE UnmapDevs
  BY <1>7 DEF UnmapDevs, Removed, RemovalFails, Dies, Idle, Unmaps, Fault
<1>8. CASE CleanClones
  BY <1>8 DEF CleanClones, CleanList, Goto, Fault
<1>9. CASE RmClones
  BY <1>9 DEF RmClones, Removed, RemovalFails, Dies, Idle, RemovesClone, MayRemoveClone, Fault
<1>10. CASE CleanSnaps
  BY <1>10 DEF CleanSnaps, CleanList, Goto, Fault, Live
<1>11. CASE RmSnaps
  BY <1>11 DEF RmSnaps, Removed, RemovalFails, Dies, Idle, RemovesSnaps, MayRemoveSnaps, Fault
<1>12. CASE SnapLsFails
  BY <1>12 DEF SnapLsFails, Fault
<1>13. CASE Cleaned
  BY <1>13 DEF Cleaned, CleanedTo, Goto
<1>14. CASE Connect
  BY <1>14 DEF Connect, Goto, Dies, Idle, Fault
<1>15. CASE List
  BY <1>15 DEF List, Goto, Fault, Live
<1>16. CASE NextImage
  BY <1>16 DEF NextImage, Goto
<1>17. CASE Meta
  BY <1>17 DEF Meta, Goto, Fault
<1>18. CASE SnapCreate
  BY <1>18 DEF SnapCreate, RbdStep, Goto, ImageFails, Fault
<1>19. CASE SnapProtect
  BY <1>19 DEF SnapProtect, RbdStep, Goto, ImageFails, Fault
<1>20. CASE CloneSnap
  BY <1>20 DEF CloneSnap, RbdStep, Goto, ImageFails, Fault
<1>21. CASE DeviceMap
  BY <1>21 DEF DeviceMap, RbdStep, Goto, ImageFails, Fault
<1>22. CASE Blkid
  BY <1>22 DEF Blkid, Goto, Fault
<1>23. CASE Mount
  BY <1>23 DEF Mount, RbdStep, Goto, ImageFails, Fault
<1>24. CASE Kopia
  BY <1>24 DEF Kopia, Goto, ImageFails, Fault
<1>25. CASE Umount
  BY <1>25 DEF Umount, RbdStep, Goto, ImageFails, Fault
<1>26. CASE WriteStatus
  BY <1>26 DEF WriteStatus, Goto
<1>27. CASE DeviceUnmap
  BY <1>27 DEF DeviceUnmap, RbdStep, Goto, ImageFails, Fault
<1>28. CASE RmClone
  BY <1>28 DEF RmClone, RbdStep, Goto, ImageFails, Fault
<1>29. CASE SnapUnprotect
  BY <1>29 DEF SnapUnprotect, RbdStep, Goto, ImageFails, Fault
<1>30. CASE SnapRm
  BY <1>30 DEF SnapRm, RemovesNew, RbdStep, Goto, ImageFails, Fault
<1>31. CASE Forget
  BY <1>31 DEF Forget, Goto
<1>32. CASE Exit
  BY <1>32 DEF Exit, Idle
<1>33. ASSUME NEW i \in Images, RestoreBegins(i) PROVE CoverInv'
  BY <1>33 DEF RestoreBegins
<1>34. CASE RestoreWipes
  BY <1>34 DEF RestoreWipes
<1>35. CASE RestoreEnds
  BY <1>35 DEF RestoreEnds, Released
<1>36. CASE RestoreDies
  BY <1>36 DEF RestoreDies, Released, Fault
<1>37. CASE Reboot
  BY <1>37 DEF Reboot, Idle, Fault
<1>38. CASE Tool
  BY <1>38 DEF Tool, ToolBegins, ToolEnds
<1>39. CASE UNCHANGED vars
  BY <1>39 DEF vars
<1> QED
  BY <1>1, <1>2, <1>3, <1>4, <1>5, <1>6, <1>7, <1>8, <1>9, <1>10, <1>11, <1>12, <1>13, <1>14, <1>15,
     <1>16, <1>17, <1>18, <1>19, <1>20, <1>21, <1>22, <1>23, <1>24, <1>25, <1>26, <1>27, <1>28, <1>29,
     <1>30, <1>31, <1>32, <1>33, <1>34, <1>35, <1>36, <1>37, <1>38, <1>39
     DEF Next, Job, Cleanup, BackupOne, Restore

-----------------------------------------------------------------------------
(***************************************************************************)
(* What follows.                                                           *)
(***************************************************************************)

\* The annotations hold at every step of the script.
LEMMA BackupInvariant == Spec => [](BackupTyped /\ BackupInv)
<1>1. Init => BackupTyped /\ BackupInv
  <2> SUFFICES ASSUME Init PROVE BackupTyped /\ BackupInv
    OBVIOUS
  <2> USE CephBackupAssumption DEF Init, BackupSteps, CleanSteps, HasSnap, HasProtected, HasClone, HasDevice
  <2>1. failed \in BOOLEAN /\ blind \in BOOLEAN
    BY Zenon
  <2>2. BackupTyped
    BY <2>1 DEF BackupTyped, TypeOK, ChainInv
  <2>3. BackupInv
    BY DEF BackupInv, LockInv, TornInv, SavedInv, StatusTruthful, LifeInv, CleanInv, CoverInv
  <2> QED
    BY <2>2, <2>3
<1>2. BackupTyped /\ BackupInv /\ [Next]_vars => (BackupTyped /\ BackupInv)'
  BY BackupTypedStep, LockStep, TornStep, SavedStep, LifeStep, CleanStep, CoverStep DEF BackupInv
<1> QED
  BY <1>1, <1>2, PTL DEF Spec

\* Every reachable state is well typed: a snapshot is unprotected before it goes
\* and after its clone is gone, and a device has its clone, whatever failed
\* before (cleanup and backup_one, ceph-backup.nix 76-128).
THEOREM BackupIsTyped == Spec => []TypeOK
<1>1. BackupTyped => TypeOK
  BY DEF BackupTyped
<1> QED
  BY <1>1, BackupInvariant, PTL

\* A status file speaks of a backup that is in the repository, and one written by
\* this run of a backup made by this run (lines 117-120): the alert on the age of
\* the newest backup reads these files.
THEOREM StatusIsTruthful == Spec => []StatusTruthful
<1>1. BackupInv => StatusTruthful
  BY DEF BackupInv, SavedInv
<1> QED
  BY <1>1, BackupInvariant, PTL

\* A run about to report success, none of whose listings failed unnoticed, has
\* left no snapshot, clone or device behind (lines 32-35, 125-128).
THEOREM SuccessLeavesNothing == Spec => []SuccessIsClean
<1>1. BackupTyped /\ BackupInv => SuccessIsClean
  BY DEF BackupTyped, TypeOK, BackupInv, CleanInv, Clean, CleanSteps, BackupSteps, HasSnap, SuccessIsClean, Ending
<1> QED
  BY <1>1, BackupInvariant, PTL

\* Such a run has backed up every volume it listed, but for those that are
\* excluded, deleted or without a filesystem (lines 97-151).
THEOREM SuccessCovered == Spec => []SuccessCovers
<1>1. BackupTyped /\ BackupInv => SuccessCovers
  BY DEF BackupTyped, TypeOK, BackupInv, CoverInv, Unsaved, SuccessCovers, Ending
<1> QED
  BY <1>1, BackupInvariant, PTL

\* No backup holds a volume in the middle of a restore, unless that restore died
\* there or restored such a backup: what the lock shared with ceph-restore is for
\* (lines 26-27, 47-48).
THEOREM NoBackupTorn == Spec => NoTornBackup
<1>1. BackupTyped /\ BackupInv /\ [Next]_vars
        => [kopia' # kopia => \A i \in Images : <<i, "partial">> \in kopia' \ kopia => i \in torn]_vars
  <2> SUFFICES ASSUME BackupTyped, BackupInv, Next, kopia' # kopia,
                      NEW i \in Images, <<i, "partial">> \in kopia' \ kopia
               PROVE  i \in torn
    OBVIOUS
  <2>1. Kopia
    BY DEF Next, Job, Cleanup, BackupOne, Restore, Create, Format, Delete, Start, Age, Kill, CleanDevs,
           CleanClones, CleanSnaps, CleanList, UnmapDevs, RmClones, RmSnaps, Removed, RemovalFails, Dies,
           SnapLsFails, Cleaned, CleanedTo, Connect, List, NextImage, Meta, SnapCreate, SnapProtect,
           CloneSnap, DeviceMap, Blkid, Mount, Umount, WriteStatus, DeviceUnmap, RmClone, SnapUnprotect,
           SnapRm, RbdStep, Forget, Exit, RestoreBegins, RestoreWipes, RestoreEnds, RestoreDies,
           Tool, ToolBegins, ToolEnds, KeepPool, Reboot, fileVars
  <2>2. pc = "kopia" /\ kopia' = kopia \cup {<<cur, captured[cur]>>}
    BY <2>1 DEF Kopia
  <2>3. i = cur /\ captured[cur] = "partial"
    BY <2>2
  <2> QED
    BY <2>2, <2>3 DEF BackupInv, TornInv, HasSnap, BackupSteps
<1> QED
  BY <1>1, BackupInvariant, PTL DEF Spec, NoTornBackup
===============================================================================
