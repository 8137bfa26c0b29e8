----------------------------- MODULE FileReplace -----------------------------
(***************************************************************************)
(* One credential file on disk while the plugin saves it: GetAuthFile,     *)
(* SaveAuthFile and atomicWriteAuthFile (cmd/cpa-auto-refresh-quota/       *)
(* main.go) and replaceAuthFileCAS of both platforms (replace_unix.go,     *)
(* replace_windows.go).                                                    *)
(*                                                                         *)
(* PriorityLease takes the outside writes and the rename for single steps. *)
(* Here a writer opens, writes and closes, a name refers to an inode, and  *)
(* what is not synced may be gone after a power loss. Contents are         *)
(* numbers, each new; Torn is what is not a whole JSON document. Whether   *)
(* the path is that of a regular .json file of limited size is one of the  *)
(* ways to fail.                                                           *)
(***************************************************************************)
EXTENDS Integers

CONSTANTS
    MaxInodes,   \* files ever created
    MaxContents, \* contents from which on nobody else writes
    MaxFaults    \* errors, crashes and power losses

ASSUME FileAssumption ==
    MaxInodes \in Nat \ {0} /\ MaxContents \in Nat /\ MaxFaults \in Nat

Inodes == 1..MaxInodes

Torn == 0

VARIABLES
    windows,          \* the platform
    data, flushed,    \* of each inode: as processes see it, as the disk has it
    used,             \* inodes created
    target, onDisk,   \* inode of the name; those it may have on disk
    pc, done,         \* the save, and its context being done
    snap, temp,       \* what was read; inode of the temporary file, 0 if none
    beside,           \* temporary files in the directory of the target
    writer,           \* an outside writer's open file
    last,             \* newest content
    faults,
    \* Observers, not in the code:
    touched,          \* inodes written from outside
    recent,           \* the last outside write began between comparison and
                      \* replacement of the attempt that is going on
    unseen,           \* a save replaced what it had not compared
    excused           \* temporary files that could not be removed

vars == <<windows, data, flushed, used, target, onDisk, pc, done, snap, temp,
          beside, writer, last, faults, touched, recent, unseen, excused>>

disk == <<data, flushed, used, target, onDisk>>
outside == <<writer, touched>>
observers == <<recent, unseen>>
copies == <<beside, excused>>

NoWriter == [inode |-> 0, begun |-> FALSE]

-----------------------------------------------------------------------------
Init ==
    /\ windows \in BOOLEAN
    /\ data = [i \in Inodes |-> IF i = 1 THEN 1 ELSE Torn] /\ flushed = data
    /\ used = 1 /\ target = 1 /\ onDisk = {1}
    /\ pc = "idle" /\ done = FALSE /\ snap = Torn /\ temp = 0
    /\ writer = NoWriter /\ last = 1 /\ faults = 0
    /\ touched = {} /\ recent = FALSE /\ unseen = FALSE
    /\ beside = {} /\ excused = {}

(* Mutant: the context is not looked at.                                   *)
NeverDone == FALSE

CtxDone == done

(* GetAuthFile: a document that cannot be decoded is refused.              *)
Read ==
    /\ pc = "idle" /\ used < MaxInodes /\ data[target] # Torn
    /\ snap' = data[target] /\ pc' = "save" /\ done' = FALSE
    /\ UNCHANGED <<windows, disk, temp, copies, outside, last, faults,
                   observers>>

(* Mutant: the temporary file stays when the save fails.                   *)
ReturnsLeaving(errors) ==
    /\ pc' = "idle" /\ temp' = 0 /\ faults' = faults + errors
    /\ UNCHANGED copies

(* The deferred function of atomicWriteAuthFile removes the file. If that  *)
(* fails, the file stays and nobody is told. (errors is 1 if an error is   *)
(* why the save returns.)                                                  *)
Returns(errors) ==
    /\ pc' = "idle" /\ temp' = 0
    /\ \/ /\ faults' = faults + errors
          /\ beside' = beside \ {temp} /\ UNCHANGED excused
       \/ /\ temp # 0 /\ faults + errors < MaxFaults
          /\ faults' = faults + errors + 1
          /\ excused' = excused \cup {temp} /\ UNCHANGED beside

(* SaveAuthFile compares and looks at the context.                         *)
Check ==
    /\ pc = "save"
    /\ \/ /\ data[target] = snap /\ ~CtxDone /\ pc' = "create"
          /\ UNCHANGED <<temp, copies, faults>>
       \/ data[target] # snap /\ Returns(0)
    /\ UNCHANGED <<windows, disk, done, snap, outside, last, observers>>

CreateTemp ==
    /\ pc = "create" /\ pc' = "write"
    /\ used' = used + 1 /\ temp' = used + 1
    /\ beside' = beside \cup {used + 1}
    /\ UNCHANGED <<windows, data, flushed, target, onDisk, done, snap, excused,
                   outside, last, faults, observers>>

Write ==
    /\ pc = "write" /\ pc' = "sync"
    /\ last' = last + 1 /\ data' = [data EXCEPT ![temp] = last + 1]
    /\ UNCHANGED <<windows, flushed, used, target, onDisk, done, snap, temp,
                   copies, outside, faults, observers>>

(* Mutant: the data is left in the cache.                                  *)
SyncSkipped ==
    /\ pc = "sync" /\ pc' = "compare"
    /\ UNCHANGED <<windows, disk, done, snap, temp, copies, outside, last,
                   faults, observers>>

(* Chmod, Sync and Close.                                                  *)
Sync ==
    /\ pc = "sync" /\ pc' = "compare"
    /\ flushed' = [flushed EXCEPT ![temp] = data[temp]]
    /\ UNCHANGED <<windows, data, used, target, onDisk, done, snap, temp,
                   copies, outside, last, faults, observers>>

(* replaceAuthFileCAS compares once more; on Windows under a lock that it  *)
(* gives up before the replacement, so that it only makes the read one     *)
(* piece.                                                                  *)
Recheck ==
    /\ pc = "compare"
    /\ \/ /\ data[target] = snap /\ ~CtxDone /\ pc' = "replace"
          /\ UNCHANGED <<temp, copies, faults>>
       \/ data[target] # snap /\ Returns(0)
    /\ UNCHANGED <<windows, disk, done, snap, outside, last, observers>>

(* os.Rename, ReplaceFileW or its fallback MoveFileExW. Windows does not   *)
(* replace a file that is open elsewhere.                                  *)
Replace ==
    /\ pc = "replace" /\ ~CtxDone
    /\ windows => writer.inode # target
    /\ unseen' = (unseen \/ (data[target] # snap /\ ~recent))
    /\ target' = temp /\ onDisk' = onDisk \cup {temp} /\ temp' = 0
    /\ beside' = beside \ {temp}
    /\ pc' = IF windows THEN "idle" ELSE "synced"
    /\ UNCHANGED <<windows, data, flushed, used, done, snap, excused, outside,
                   last, faults, recent>>

(* A sharing violation: on Windows the file cannot be replaced, and        *)
(* perhaps not be opened or locked, while it is open elsewhere. The        *)
(* attempt is over.                                                        *)
Blocked ==
    /\ pc \in {"compare", "replace"} /\ ~CtxDone
    /\ windows /\ writer.inode = target
    /\ pc' = "pause" /\ recent' = FALSE
    /\ UNCHANGED <<windows, disk, done, snap, temp, copies, outside, last,
                   faults, unseen>>

(* Mutant: only the replacement is tried again.                            *)
ResumeReplacing ==
    /\ pc = "pause" /\ pc' = "replace"
    /\ UNCHANGED <<windows, disk, done, snap, temp, copies, outside, last,
                   faults, observers>>

(* After a pause all of replaceAuthFileCASOnce is tried again.             *)
Resume ==
    /\ pc = "pause" /\ pc' = "compare"
    /\ UNCHANGED <<windows, disk, done, snap, temp, copies, outside, last,
                   faults, observers>>

(* The directory is synced, if it can be opened.                           *)
SyncDirectory ==
    /\ pc = "synced" /\ pc' = "idle"
    /\ onDisk' \in {onDisk, {target}}
    /\ UNCHANGED <<windows, data, flushed, used, target, done, snap, temp,
                   copies, outside, last, faults, observers>>

(* An error, or the context is done where it is looked at.                 *)
SaveFails ==
    /\ \/ /\ pc \in {"save", "compare", "replace", "pause"} /\ CtxDone
          /\ Returns(0)
       \/ /\ pc \notin {"idle", "synced", "pause"} /\ faults < MaxFaults
          /\ Returns(1)
    /\ UNCHANGED <<windows, disk, done, snap, outside, last, observers>>

-----------------------------------------------------------------------------
(* Everyone else (external).                                               *)

Cancel ==
    /\ pc # "idle" /\ ~done /\ done' = TRUE
    /\ UNCHANGED <<windows, disk, pc, snap, temp, copies, outside, last,
                   faults, observers>>

(* CPA or a user opens the file, truncating it or not,                     *)
WriterOpens(truncates) ==
    /\ writer = NoWriter /\ last < MaxContents
    /\ writer' = [inode |-> target, begun |-> truncates]
    /\ data' = IF truncates THEN [data EXCEPT ![target] = Torn] ELSE data
    /\ touched' = touched \cup {target}
    /\ recent' = IF truncates THEN pc = "replace" ELSE recent
    /\ UNCHANGED <<windows, flushed, used, target, onDisk, pc, done, snap,
                   temp, copies, last, faults, unseen>>

(* begins to write,                                                        *)
WriterWrites ==
    /\ writer.inode # 0 /\ ~writer.begun
    /\ writer' = [writer EXCEPT !.begun = TRUE]
    /\ data' = [data EXCEPT ![writer.inode] = Torn]
    /\ recent' = (pc = "replace")
    /\ UNCHANGED <<windows, flushed, used, target, onDisk, pc, done, snap,
                   temp, copies, last, faults, touched, unseen>>

(* and has written all.                                                    *)
WriterCloses ==
    /\ writer.inode # 0 /\ writer.begun
    /\ writer' = NoWriter /\ last' = last + 1
    /\ data' = [data EXCEPT ![writer.inode] = last + 1]
    /\ UNCHANGED <<windows, flushed, used, target, onDisk, pc, done, snap,
                   temp, copies, faults, touched, observers>>

(* Or puts a file of its own in place.                                     *)
OutsideRename ==
    /\ writer = NoWriter /\ last < MaxContents /\ used < MaxInodes - 1
    /\ used' = used + 1 /\ target' = used + 1
    /\ onDisk' = onDisk \cup {used + 1}
    /\ last' = last + 1 /\ data' = [data EXCEPT ![used + 1] = last + 1]
    /\ touched' = touched \cup {used + 1} /\ recent' = (pc = "replace")
    /\ UNCHANGED <<windows, flushed, pc, done, snap, temp, copies, writer,
                   faults, unseen>>

(* CPA dies, with the plugin in it and perhaps the writer. A temporary     *)
(* file stays, and nothing refers to it any more.                          *)
Crash ==
    /\ faults < MaxFaults /\ faults' = faults + 1
    /\ pc' = "idle" /\ temp' = 0
    /\ writer' \in {writer, NoWriter}
    /\ excused' = excused \cup ({temp} \ {0})
    /\ UNCHANGED <<windows, disk, done, snap, beside, last, touched, recent,
                   unseen>>

(* Of data that is not on the disk any part may be there, the name may     *)
(* still be that of an earlier inode, and temporary files may be back.     *)
PowerLoss ==
    /\ faults < MaxFaults /\ faults' = faults + 1
    /\ data' \in [Inodes -> {Torn} \cup 1..last]
    /\ \A i \in Inodes :
          IF data[i] = flushed[i] THEN data'[i] = data[i]
          ELSE data'[i] \in {Torn, data[i], flushed[i]}
    /\ flushed' = data'
    /\ \E i \in onDisk : target' = i /\ onDisk' = {i}
    /\ pc' = "idle" /\ temp' = 0 /\ writer' = NoWriter
    /\ beside' \in SUBSET (2..used \ {target'})
    /\ excused' = excused \cup beside'
    /\ UNCHANGED <<windows, used, done, snap, last, touched, recent,
                   unseen>>

-----------------------------------------------------------------------------
Step ==
    \/ Check \/ CreateTemp \/ Write \/ Sync \/ Recheck \/ Replace \/ Blocked
    \/ Resume \/ SyncDirectory \/ SaveFails

Next ==
    \/ Read \/ Step \/ Cancel
    \/ \E truncates \in BOOLEAN : WriterOpens(truncates)
    \/ WriterWrites \/ WriterCloses \/ OutsideRename
    \/ Crash \/ PowerLoss

Spec == Init /\ [][Next]_vars

(* The goroutine keeps running.                                            *)
FairSpec == Spec /\ WF_vars(Step)

-----------------------------------------------------------------------------
TypeOK ==
    /\ windows \in BOOLEAN
    /\ data \in [Inodes -> Nat] /\ flushed \in [Inodes -> Nat]
    /\ used \in Inodes /\ target \in Inodes /\ onDisk \subseteq Inodes
    /\ pc \in {"idle", "save", "create", "write", "sync", "compare",
               "replace", "pause", "synced"}
    /\ done \in BOOLEAN /\ snap \in Nat /\ temp \in Inodes \cup {0}
    /\ writer \in [inode : Inodes \cup {0}, begun : BOOLEAN]
    /\ last \in Nat /\ faults \in Nat /\ touched \subseteq Inodes
    /\ recent \in BOOLEAN /\ unseen \in BOOLEAN
    /\ beside \subseteq Inodes /\ excused \subseteq Inodes

(* Whoever reads the file, after a crash or a power loss as well, finds a  *)
(* whole document, unless a writer other than the plugin was at it.        *)
WholeUnlessOutside == data[target] = Torn => target \in touched

(* A save destroys nothing it has not compared, except an outside write    *)
(* that begins between the comparison and the replacement of one attempt:  *)
(* not one that it met before, and not one of the pause that follows a     *)
(* sharing violation.                                                      *)
NothingUnseenReplaced == ~unseen

(* No second copy of a credential stays beside the file: on whichever path *)
(* a save ends, the temporary file is gone, unless it could not be removed *)
(* or the process ended in the midst of the save.                          *)
CopiesExcused == beside \subseteq excused \cup {temp}

(* A save ends, unless on Windows the file stays open elsewhere and nobody *)
(* cancels: replaceAuthFileCAS has no limit of its own.                    *)
SaveEnds ==
    (pc # "idle") ~>
        (pc = "idle" \/ [](windows /\ writer.inode = target /\ ~done))
=============================================================================
