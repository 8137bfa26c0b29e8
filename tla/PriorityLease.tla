---------------------------- MODULE PriorityLease ----------------------------
(***************************************************************************)
(* The critical section guarded by Service.priorityMu: one task at a time  *)
(* (a refresh run, a dry run or the startup recovery) scans the credential *)
(* files for markers left by an earlier process, then raises the priority  *)
(* of one credential after the other for the duration of its model         *)
(* request (internal/refreshquota/priority_service.go, executeRun in       *)
(* service.go, and the file access of main.go and replace_*.go).           *)
(*                                                                         *)
(* Around it: CPA's file watcher and token refresh, a user who edits       *)
(* files, cancellation, timeouts, failing host calls, and crashes that     *)
(* keep nothing but the files. The plugin never locks a file against CPA   *)
(* or the user; it only compares what it read with what is there.          *)
(***************************************************************************)
EXTENDS AuthFile, FiniteSets

CONSTANTS
    NoAuth,              \* no credential
    Physical,            \* credentials backed by a file (not runtime-only)
    Disabled,            \* disabled credentials: scanned, never targets
    Files, FileOf,       \* physical files, and the file of a credential
    InitContents,        \* what each file may hold when the plugin is loaded
    UserPriorities,      \* raw priorities a user may write into a file
    RuntimeOnlyPriority, \* priority of the credentials without a file
    TemporaryPriority,   \* config: temporary_priority_override
    MaxRuns, MaxExternal, MaxFaults

ASSUME LeaseAssumption ==
    /\ NoAuth \notin AuthIndices
    /\ Physical \subseteq AuthIndices
    /\ Disabled \subseteq AuthIndices
    /\ FileOf \in [Physical -> Files]
    /\ InitContents \in [Files -> SUBSET Content]
    /\ UserPriorities \subseteq RawPriority
    /\ RuntimeOnlyPriority \in Int
    /\ TemporaryPriority \in BOOLEAN

VARIABLES
    file,      \* the physical files
    manager,   \* CPA's auth manager: its in-memory copy of each file
    pc,        \* where the task that holds priorityMu is
    job,       \* its variables in executeRun and the recovery scan
    txn,       \* its variables in begin/restore and SaveAuthFile
    canceled,  \* the run's or the recovery's context is done
    expired,   \* the context of restorePriorityOverride is done
    runID,     \* number of refresh runs started; the current run's id
    external,  \* writes by CPA and the user so far
    faults,    \* failures, timeouts, cancellations and crashes so far
    \* Observers, not in the code:
    intended,  \* the raw priority the outside world last gave each file
    latest,    \* the newest token version written to each file
    raced,     \* written between a comparison and the rename that follows
    aliased,   \* the last outside priority looks like the plugin's own
    vouched    \* files the current or last task answers for

vars == <<file, manager, pc, job, txn, canceled, expired, runID, external,
          faults, intended, latest, raced, aliased, vouched>>

outside == <<external, intended, latest, aliased>>

-----------------------------------------------------------------------------
Blank == [priority |-> Absent, marker |-> NoMarker, token |-> 0]

Job == [kind : {"none", "run", "dry", "recovery"},
        todo : SUBSET AuthIndices,  \* credentials the loop has not reached
        seen : SUBSET Files,        \* seenPaths of the scan
        listed : SUBSET AuthIndices,
        highest : Int,              \* highestAvailablePriority of the listing
        changed : BOOLEAN,          \* the scan rewrote a file
        failed : BOOLEAN]           \* errRecover, or report.Error

NoJob == [kind |-> "none", todo |-> {}, seen |-> {}, listed |-> {},
          highest |-> 0, changed |-> FALSE, failed |-> FALSE]

Txn == [mode : {"none", "scan", "begin", "lease"},
        auth : AuthIndices \cup {NoAuth},
        marker : Marker \cup {NoMarker},  \* the lease, or the fallback marker
        snap : Content,                   \* as read: ExpectedSHA256
        pend : Content,                   \* to be written
        want : Int,                       \* priority the runtime must publish
        attempt : 0..2]

NoTxn == [mode |-> "none", auth |-> NoAuth, marker |-> NoMarker,
          snap |-> Blank, pend |-> Blank, want |-> 0, attempt |-> 0]

PCs == {"idle", "scan", "targets", "read", "check", "recheck", "rename",
        "wait", "execute"}

(* The priority CPA's runtime publishes for a credential.                  *)
Runtime(a) ==
    IF a \in Physical
    THEN PriorityFromRawJSON(manager[FileOf[a]].priority)
    ELSE RuntimeOnlyPriority

(* The set that holds just the highest priority of the enabled listed      *)
(* credentials, 0 if there are none.                                       *)
HighestAvailablePriority(L) ==
    LET enabled == L \ Disabled
        top == {b \in enabled : \A a \in enabled : Runtime(a) <= Runtime(b)}
    IN IF enabled = {} THEN {0} ELSE {Runtime(b) : b \in top}

(* Mutant: a restore has the context of the run above its own.             *)
CtxShared == canceled \/ expired

CtxDone == IF txn.mode = "lease" THEN expired ELSE canceled

F == FileOf[txn.auth]

-----------------------------------------------------------------------------
Init ==
    /\ file \in [Files -> UNION {InitContents[f] : f \in Files}]
    /\ \A f \in Files : file[f] \in InitContents[f]
    /\ manager = file
    /\ pc = "idle" /\ job = NoJob /\ txn = NoTxn
    /\ canceled = FALSE /\ expired = FALSE
    /\ runID = 0 /\ external = 0 /\ faults = 0
    /\ intended = [f \in Files |-> Effective(file[f])]
    /\ latest = [f \in Files |-> file[f].token]
    /\ raced = [f \in Files |-> FALSE]
    /\ aliased = [f \in Files |-> FALSE]
    /\ vouched = {}

-----------------------------------------------------------------------------
(* A task takes priorityMu and lists the credentials. The listing may be   *)
(* incomplete while CPA is still loading them.                             *)
StartTask(kind, L) ==
    /\ pc = "idle"
    /\ kind = "run" => runID < MaxRuns
    /\ pc' = "scan"
    /\ \E p \in HighestAvailablePriority(L) :
          job' = [NoJob EXCEPT !.kind = kind, !.todo = L, !.listed = L,
                               !.highest = p]
    /\ runID' = IF kind = "run" THEN runID + 1 ELSE runID
    /\ canceled' = FALSE
    /\ vouched' = {FileOf[a] : a \in L \cap Physical}
    /\ UNCHANGED <<file, manager, txn, expired, faults, raced, outside>>

(* Mutant: an unreadable marker is taken for no marker.                    *)
ScanIgnoresBadMarker(a) ==
    /\ pc = "scan" /\ ~canceled /\ a \in job.todo \cap Physical
    /\ LET f == FileOf[a] IN
       /\ job' = [job EXCEPT !.todo = @ \ {a}, !.seen = @ \cup {f}]
       /\ IF f \notin job.seen /\ Owned(file[f])
          THEN /\ txn' = [NoTxn EXCEPT !.mode = "scan", !.auth = a,
                                       !.marker = file[f].marker]
               /\ pc' = "read"
          ELSE UNCHANGED <<pc, txn>>
    /\ UNCHANGED <<file, manager, canceled, expired, runID, faults, raced,
                   vouched, outside>>

(* One iteration of recoverStalePriorityOverrides: a credential without    *)
(* file, a file already seen through a sibling credential and one without  *)
(* marker are skipped, an unreadable marker is an error, an owned one      *)
(* starts a restore.                                                       *)
ScanNext(a) ==
    /\ pc = "scan" /\ ~canceled /\ a \in job.todo
    /\ LET f == FileOf[a]
           left == [job EXCEPT !.todo = @ \ {a}]
           visited == [left EXCEPT !.seen = @ \cup {f}]
       IN \/ /\ a \notin Physical
             /\ job' = left
             /\ UNCHANGED <<pc, txn>>
          \/ /\ a \in Physical
             /\ f \in job.seen \/ file[f].marker = NoMarker
             /\ job' = visited
             /\ UNCHANGED <<pc, txn>>
          \/ /\ a \in Physical
             /\ f \notin job.seen /\ file[f].marker = BadMarker
             /\ job' = [visited EXCEPT !.failed = TRUE]
             /\ UNCHANGED <<pc, txn>>
          \/ /\ a \in Physical
             /\ f \notin job.seen /\ Owned(file[f])
             /\ job' = visited
             /\ txn' = [NoTxn EXCEPT !.mode = "scan", !.auth = a,
                                     !.marker = file[f].marker]
             /\ pc' = "read"
    /\ UNCHANGED <<file, manager, canceled, expired, runID, faults, raced,
                   vouched, outside>>

(* GetAuthFile fails: the error is collected and the scan goes on.         *)
ScanReadFails(a) ==
    /\ pc = "scan" /\ ~canceled /\ a \in job.todo \cap Physical
    /\ faults < MaxFaults /\ faults' = faults + 1
    /\ job' = [job EXCEPT !.todo = @ \ {a}, !.failed = TRUE]
    /\ UNCHANGED <<file, manager, pc, txn, canceled, expired, runID, raced,
                   vouched, outside>>

EndTask(failed) ==
    /\ pc' = "idle"
    /\ job' = [NoJob EXCEPT !.kind = job.kind, !.failed = failed]
    /\ txn' = NoTxn /\ canceled' = FALSE /\ expired' = FALSE

(* The scan is over. An error or a done context ends a run before it       *)
(* touches a credential; the recovery and a dry run end here anyway.       *)
ScanEnds ==
    /\ pc = "scan" /\ (canceled \/ job.todo = {})
    /\ LET failed == job.failed \/ job.todo # {} IN
       /\ job.kind # "run" \/ failed
       /\ EndTask(failed)
    /\ UNCHANGED <<file, manager, runID, faults, raced, vouched, outside>>

(* Otherwise the run picks its targets. Only if the scan changed a file    *)
(* are the credentials, and so the highest priority, listed again.         *)
SelectTargets(L, T) ==
    /\ pc = "scan" /\ job.todo = {} /\ job.kind = "run" /\ ~job.failed
    /\ job.changed \/ L = job.listed
    /\ job.changed => ~canceled
    /\ T \subseteq L \ Disabled
    /\ pc' = "targets"
    /\ \E p \in IF job.changed THEN HighestAvailablePriority(L)
                               ELSE {job.highest} :
          job' = [job EXCEPT !.listed = L, !.todo = T, !.seen = {},
                             !.changed = FALSE, !.highest = p]
    /\ UNCHANGED <<file, manager, txn, canceled, expired, runID, faults,
                   raced, vouched, outside>>

(* ListAuths fails after the scan changed a file.                          *)
RelistFails ==
    /\ pc = "scan" /\ job.todo = {} /\ job.kind = "run" /\ ~job.failed
    /\ job.changed
    /\ \/ canceled /\ UNCHANGED faults
       \/ faults < MaxFaults /\ faults' = faults + 1
    /\ EndTask(TRUE)
    /\ UNCHANGED <<file, manager, runID, raced, vouched, outside>>

-----------------------------------------------------------------------------
(* The loop of executeRun over the targets. The runtime record is read     *)
(* again; a credential that is gone or no longer eligible is passed over.  *)
NeedsOverride(a) == TemporaryPriority /\ Runtime(a) < job.highest

TargetNext(a) ==
    /\ pc = "targets" /\ ~canceled /\ a \in job.todo
    /\ job' = [job EXCEPT !.todo = @ \ {a}]
    /\ \/ /\ ~NeedsOverride(a)
          /\ pc' = "execute"
          /\ txn' = [NoTxn EXCEPT !.auth = a]
       \/ /\ NeedsOverride(a) /\ a \in Physical
          /\ pc' = "read"
          /\ txn' = [NoTxn EXCEPT !.mode = "begin", !.auth = a,
                                  !.want = job.highest]
       \/ /\ NeedsOverride(a) /\ a \notin Physical
          /\ UNCHANGED <<pc, txn>>
    /\ UNCHANGED <<file, manager, canceled, expired, runID, faults, raced,
                   vouched, outside>>

TargetSkipped(a) ==
    /\ pc = "targets" /\ ~canceled /\ a \in job.todo
    /\ faults < MaxFaults /\ faults' = faults + 1
    /\ job' = [job EXCEPT !.todo = @ \ {a}]
    /\ UNCHANGED <<file, manager, pc, txn, canceled, expired, runID, raced,
                   vouched, outside>>

TargetsEnd ==
    /\ pc = "targets" /\ (canceled \/ job.todo = {})
    /\ EndTask(FALSE)
    /\ UNCHANGED <<file, manager, runID, faults, raced, vouched, outside>>

(* ExecutePinned returns, with whatever result; restorePriorityOverride    *)
(* then starts with a context of its own, so no cancellation reaches it.   *)
StartRestore ==
    /\ pc' = "read"
    /\ txn' = [txn EXCEPT !.mode = "lease", !.attempt = 0]
    /\ expired' = FALSE

ExecuteReturns ==
    /\ pc = "execute"
    /\ \/ /\ txn.marker = NoMarker
          /\ pc' = "targets" /\ txn' = NoTxn
          /\ UNCHANGED expired
       \/ /\ txn.marker # NoMarker
          /\ StartRestore
    /\ UNCHANGED <<file, manager, job, canceled, runID, faults, raced,
                   vouched, outside>>

-----------------------------------------------------------------------------
(* How the two transactions fail. beginPriorityOverride before its save    *)
(* has no lease: the run goes on. A restore that fails is an error of the  *)
(* scan, or ends the run: the remaining credentials are not attempted.     *)
BeginFails ==
    /\ txn.mode = "begin"
    /\ pc' = "targets" /\ txn' = NoTxn
    /\ UNCHANGED <<job, canceled, expired>>

(* Mutant: the run goes on to the next credential after a failed restore.  *)
RunGoesOn ==
    /\ pc' = IF txn.mode = "scan" THEN "scan" ELSE "targets"
    /\ txn.mode \in {"scan", "lease"} /\ txn' = NoTxn
    /\ job' = [job EXCEPT !.failed = TRUE]
    /\ UNCHANGED <<canceled, expired>>

RestoreFails ==
    \/ /\ txn.mode = "scan"
       /\ pc' = "scan" /\ txn' = NoTxn
       /\ job' = [job EXCEPT !.failed = TRUE]
       /\ UNCHANGED <<canceled, expired>>
    \/ /\ txn.mode = "lease"
       /\ EndTask(TRUE)

TxnFails == BeginFails \/ RestoreFails

(* beginPriorityOverride reads the file and builds the raised version,     *)
(* unless the file already carries a marker.                               *)
BeginRead ==
    /\ pc = "read" /\ txn.mode = "begin" /\ ~canceled
    /\ \/ /\ CanOverride(file[F])
          /\ LET raised == BuildPriorityOverrideJSON(file[F], txn.auth,
                                                     runID, txn.want)
             IN txn' = [txn EXCEPT !.snap = file[F], !.pend = raised]
          /\ pc' = "check"
          /\ UNCHANGED <<job, canceled, expired>>
       \/ /\ ~CanOverride(file[F])
          /\ BeginFails
    /\ UNCHANGED <<file, manager, runID, faults, raced, vouched, outside>>

(* restorePriorityFile reads the file. A marker of another transaction is  *)
(* an error; a file that someone else rewrote without the marker and with  *)
(* another priority is left alone, and only the runtime is waited for.     *)
RestoreRead ==
    /\ pc = "read" /\ txn.mode \in {"scan", "lease"} /\ ~CtxDone
    /\ LET m == txn.marker
           want == ExpectedPriority(file[F], m)
       IN \/ /\ RestoreRejected(file[F], m)
             /\ RestoreFails
          \/ /\ ~RestoreRejected(file[F], m) /\ ~NeedsSave(file[F], m)
             /\ pc' = "wait"
             /\ txn' = [txn EXCEPT !.marker = NoMarker, !.want = want,
                                   !.attempt = 0]
             /\ UNCHANGED <<job, canceled, expired>>
          \/ /\ ~RestoreRejected(file[F], m) /\ NeedsSave(file[F], m)
             /\ pc' = "check"
             /\ txn' = [txn EXCEPT !.snap = file[F],
                                   !.pend = RestoredJSON(file[F], m),
                                   !.want = want]
             /\ UNCHANGED <<job, canceled, expired>>
    /\ UNCHANGED <<file, manager, runID, faults, raced, vouched, outside>>

(* GetAuthFile fails: at once for begin; getAuthFileUntil polls until its  *)
(* context is done.                                                        *)
ReadFails ==
    /\ pc = "read"
    /\ \/ CtxDone /\ UNCHANGED faults
       \/ /\ txn.mode = "begin"
          /\ faults < MaxFaults /\ faults' = faults + 1
    /\ TxnFails
    /\ UNCHANGED <<file, manager, runID, raced, vouched, outside>>

-----------------------------------------------------------------------------
(* SaveAuthFile compares the file with what was read, writes a temporary   *)
(* file, compares again in replaceAuthFileCAS, and renames. A difference   *)
(* is ErrAuthFileChanged: read again, three times in all.                  *)
(* Mutant: one attempt too many.                                           *)
FourAttempts ==
    \/ /\ txn.attempt < 3
       /\ pc' = "read"
       /\ txn' = [txn EXCEPT !.attempt = @ + 1, !.snap = Blank,
                             !.pend = Blank]
       /\ UNCHANGED <<job, canceled, expired>>
    \/ /\ txn.attempt = 3
       /\ TxnFails

AuthFileChanged ==
    \/ /\ txn.attempt < 2
       /\ pc' = "read"
       /\ txn' = [txn EXCEPT !.attempt = @ + 1, !.snap = Blank,
                             !.pend = Blank]
       /\ UNCHANGED <<job, canceled, expired>>
    \/ /\ txn.attempt = 2
       /\ TxnFails

(* Mutant: the file is written without looking at it again.                *)
NoCompare(step, next) ==
    /\ pc = step /\ ~CtxDone
    /\ pc' = next
    /\ UNCHANGED <<file, manager, job, txn, canceled, expired, runID, faults,
                   raced, vouched, outside>>

Compare(step, next) ==
    /\ pc = step
    /\ \/ /\ file[F] = txn.snap /\ ~CtxDone
          /\ pc' = next
          /\ UNCHANGED <<job, txn, canceled, expired>>
       \/ /\ file[F] # txn.snap
          /\ AuthFileChanged
    /\ UNCHANGED <<file, manager, runID, faults, raced, vouched, outside>>

Check == Compare("check", "recheck")

Recheck == Compare("recheck", "rename")

(* Nothing can look at the file between the last comparison and the        *)
(* rename. After the save begin holds a lease; a restore is done with it.  *)
Rename ==
    /\ pc = "rename"
    /\ file' = [file EXCEPT ![F] = txn.pend]
    /\ txn' = [txn EXCEPT !.marker = txn.pend.marker, !.snap = Blank,
                          !.pend = Blank, !.attempt = 0]
    /\ job' = [job EXCEPT !.changed = @ \/ txn.mode = "scan"]
    /\ pc' = "wait"
    /\ UNCHANGED <<manager, canceled, expired, runID, faults, raced, vouched,
                   outside>>

(* The context is done, or reading, writing or renaming fails.             *)
SaveFails ==
    /\ pc \in {"check", "recheck", "rename"}
    /\ \/ CtxDone /\ UNCHANGED faults
       \/ faults < MaxFaults /\ faults' = faults + 1
    /\ TxnFails
    /\ UNCHANGED <<file, manager, runID, raced, vouched, outside>>

(* Windows: a sharing violation makes replaceAuthFileCAS start over.       *)
RenameBlocked ==
    /\ pc = "rename" /\ ~CtxDone
    /\ faults < MaxFaults /\ faults' = faults + 1
    /\ pc' = "recheck"
    /\ UNCHANGED <<file, manager, job, txn, canceled, expired, runID, raced,
                   vouched, outside>>

-----------------------------------------------------------------------------
(* waitForRuntimePriority: the watcher has delivered the priority.         *)
WaitSucceeds ==
    /\ pc = "wait" /\ ~CtxDone
    /\ Runtime(txn.auth) = txn.want
    /\ \/ /\ txn.mode = "begin"
          /\ pc' = "execute"
          /\ txn' = [txn EXCEPT !.want = 0]
       \/ /\ txn.mode = "scan"
          /\ pc' = "scan" /\ txn' = NoTxn
       \/ /\ txn.mode = "lease"
          /\ pc' = "targets" /\ txn' = NoTxn
    /\ UNCHANGED <<file, manager, job, canceled, expired, runID, faults,
                   raced, vouched, outside>>

(* It gives up. The raised priority of a lease is then taken back.         *)
WaitTimesOut ==
    /\ pc = "wait"
    /\ CtxDone \/ Runtime(txn.auth) # txn.want
    /\ \/ /\ txn.mode = "begin"
          /\ StartRestore
          /\ UNCHANGED <<job, canceled>>
       \/ RestoreFails
    /\ UNCHANGED <<file, manager, runID, faults, raced, vouched, outside>>

-----------------------------------------------------------------------------
(* ApplyConfig, Shutdown or the recovery's deadline ends the context.      *)
Cancel ==
    /\ pc # "idle" /\ ~canceled
    /\ faults < MaxFaults /\ faults' = faults + 1
    /\ canceled' = TRUE
    /\ UNCHANGED <<file, manager, pc, job, txn, expired, runID, raced,
                   vouched, outside>>

(* priority_sync_timeout passes during restorePriorityOverride.            *)
Expire ==
    /\ txn.mode = "lease" /\ ~expired
    /\ faults < MaxFaults /\ faults' = faults + 1
    /\ expired' = TRUE
    /\ UNCHANGED <<file, manager, pc, job, txn, canceled, runID, raced,
                   vouched, outside>>

(* CPA stops and is started again: only the files survive.                 *)
Crash ==
    /\ faults < MaxFaults /\ faults' = faults + 1
    /\ pc' = "idle" /\ job' = NoJob /\ txn' = NoTxn
    /\ canceled' = FALSE /\ expired' = FALSE
    /\ manager' = file
    /\ vouched' = {}
    /\ UNCHANGED <<file, runID, raced, outside>>

-----------------------------------------------------------------------------
(* CPA's watcher loads a changed file.                                     *)
Watcher(f) ==
    /\ manager[f] # file[f]
    /\ manager' = [manager EXCEPT ![f] = file[f]]
    /\ UNCHANGED <<file, pc, job, txn, canceled, expired, runID, faults,
                   raced, vouched, outside>>

(* A priority that a restore cannot tell from the plugin's own: the        *)
(* override of the marker beside it, or, without marker, of the lease.     *)
Alias(f, c, raw) ==
    \/ Owned(c) /\ Effective(c) # raw
    \/ /\ c.marker = NoMarker /\ txn.marker # NoMarker /\ F = f
       /\ PriorityFromRawJSON(c.priority) = txn.marker.override

OutsideWrite(f, c, raw) ==
    /\ external < MaxExternal /\ external' = external + 1
    /\ file' = [file EXCEPT ![f] = c]
    /\ intended' = [intended EXCEPT ![f] = raw]
    /\ aliased' = [aliased EXCEPT ![f] = Alias(f, c, raw)]
    /\ raced' = [raced EXCEPT ![f] = @ \/ (pc = "rename" /\ F = f)]
    /\ vouched' = vouched \ {f}
    /\ UNCHANGED <<pc, job, txn, canceled, expired, runID, faults>>

(* CPA refreshes a token: it writes back its copy, which may be older      *)
(* than the file (and may bring back a marker, or undo a raise).           *)
TokenRefresh(f) ==
    LET c == [manager[f] EXCEPT !.token = latest[f] + 1] IN
    /\ OutsideWrite(f, c, Effective(manager[f]))
    /\ latest' = [latest EXCEPT ![f] = @ + 1]
    /\ manager' = [manager EXCEPT ![f] = c]

(* A user edits the priority in place, or saves the file without the       *)
(* marker.                                                                 *)
UserEdit(f, raw) ==
    /\ OutsideWrite(f, [file[f] EXCEPT !.priority = raw], raw)
    /\ UNCHANGED <<manager, latest>>

UserReplace(f, raw) ==
    /\ file[f].marker # NoMarker
    /\ OutsideWrite(f, [file[f] EXCEPT !.priority = raw,
                                       !.marker = NoMarker], raw)
    /\ UNCHANGED <<manager, latest>>

-----------------------------------------------------------------------------
ScanStep ==
    \/ \E a \in AuthIndices : ScanNext(a) \/ ScanReadFails(a)
    \/ ScanEnds
    \/ RelistFails
    \/ \E L, T \in SUBSET AuthIndices : SelectTargets(L, T)

TargetStep ==
    \/ \E a \in AuthIndices : TargetNext(a) \/ TargetSkipped(a)
    \/ TargetsEnd
    \/ ExecuteReturns

FileStep ==
    \/ BeginRead \/ RestoreRead \/ ReadFails
    \/ Check \/ Recheck \/ Rename \/ SaveFails \/ RenameBlocked
    \/ WaitSucceeds \/ WaitTimesOut

Environment ==
    \/ Cancel \/ Expire \/ Crash
    \/ \E f \in Files : Watcher(f) \/ TokenRefresh(f)
    \/ \E f \in Files, raw \in UserPriorities :
          UserEdit(f, raw) \/ UserReplace(f, raw)

Next ==
    \/ \E kind \in {"run", "dry", "recovery"}, L \in SUBSET AuthIndices :
          StartTask(kind, L)
    \/ ScanStep
    \/ TargetStep
    \/ FileStep
    \/ Environment

Spec == Init /\ [][Next]_vars

-----------------------------------------------------------------------------
(* Types of the variables.                                                 *)
TypeOK ==
    /\ file \in [Files -> Content]
    /\ manager \in [Files -> Content]
    /\ pc \in PCs
    /\ job \in Job
    /\ txn \in Txn
    /\ canceled \in BOOLEAN /\ expired \in BOOLEAN
    /\ runID \in Nat /\ external \in Nat /\ faults \in Nat
    /\ intended \in [Files -> RawPriority]
    /\ latest \in [Files -> Nat]
    /\ raced \in [Files -> BOOLEAN]
    /\ aliased \in [Files -> BOOLEAN]
    /\ vouched \in SUBSET Files

(* Whatever the interleaving of the task's reads and writes with CPA, the  *)
(* user, cancellation, timeouts and crashes, the bytes of the priority     *)
(* that the outside world last gave a file are always in that file, either *)
(* as its priority or in the marker beside a raised one. Excepted are the  *)
(* two cases the code cannot exclude: a write lost between comparison and  *)
(* rename, and an outside priority equal to the override.                  *)
RestorableToIntended ==
    \A f \in Files :
        ~raced[f] /\ ~aliased[f] => Effective(file[f]) = intended[f]

(* The plugin's rewrites never put back an older token: the file always    *)
(* holds the newest version CPA wrote, unless a write was lost between     *)
(* comparison and rename.                                                  *)
TokensPreserved ==
    \A f \in Files : ~raced[f] => file[f].token = latest[f]

(* A task that ends without error leaves no marker, its own or an older    *)
(* one, in a file it listed and nobody else wrote in the meantime, on      *)
(* whichever of its paths it ended.                                        *)
CleanAfterTask ==
    pc = "idle" /\ ~job.failed => \A f \in vouched : file[f].marker = NoMarker

(* Once the scan is over, a marker in a listed file that nobody else wrote *)
(* is the one of the lease the run holds: never two raised credentials at  *)
(* once, and a raised one has its restore still to come.                   *)
SingleBoost ==
    pc \notin {"idle", "scan"} /\ txn.mode # "scan" =>
        \A f \in vouched :
            file[f].marker # NoMarker =>
                txn.marker = file[f].marker /\ F = f

(* No step lets go of a lease whose marker is still in the file, except a  *)
(* crash and the end of a run that reports the failed restore. And a       *)
(* restore fails only if its own time is over, a call fails or somebody    *)
(* else wrote the file: that the run was canceled is no reason.            *)
LeaseReleased ==
    txn.mode \in {"begin", "lease"} /\ txn.marker # NoMarker
        /\ file[F].marker = txn.marker /\ txn'.marker # txn.marker
    => \/ file'[F].marker = NoMarker
       \/ /\ job'.failed \/ job' = NoJob
          /\ expired \/ faults' # faults \/ F \notin vouched

LeaseNeverDropped == [][LeaseReleased]_vars

-----------------------------------------------------------------------------
(* Each goroutine keeps running, the watcher delivers, and again and again *)
(* a task starts that sees every credential (the startup recovery, or a    *)
(* run: each begins with the same scan).                                   *)
Fairness ==
    /\ WF_vars(ScanStep)
    /\ WF_vars(TargetStep)
    /\ WF_vars(FileStep)
    /\ \A f \in Files : WF_vars(Watcher(f))
    /\ SF_vars(StartTask("recovery", AuthIndices))

FairSpec == Spec /\ Fairness

(* A marker in a file, left by a crash, a failed restore or a write-back   *)
(* of CPA's, does not stay: some later task removes it.                    *)
MarkersCleared ==
    \A f \in Files : Owned(file[f]) ~> ~Owned(file[f])

-----------------------------------------------------------------------------
(* What the owners of the files see of all this.                           *)
Promise ==
    INSTANCE CredentialFiles WITH
        owner <- [f \in Files |-> Effective(file[f])],
        token <- [f \in Files |-> file[f].token],
        raised <- [f \in Files |-> Owned(file[f])],
        exposed <- [f \in Files |-> raced[f] \/ aliased[f]],
        writes <- external

(* The transactions implement the promise: each write of the plugin is a   *)
(* raise or a restore that keeps the owner's priority and tokens, and      *)
(* every other step of it leaves the files alone.                          *)
PromiseKept == Promise!Spec
=============================================================================
