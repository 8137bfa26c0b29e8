------------------------ MODULE PriorityLease_proofs ------------------------
(***************************************************************************)
(* Proofs about AuthFile and PriorityLease, for any number of credentials, *)
(* files, runs, outside writes, faults and crashes.                        *)
(***************************************************************************)
EXTENDS PriorityLease, TLAPS

-----------------------------------------------------------------------------
(* The two rewrites of a file.                                             *)

(* The number a raw priority stands for is an integer.                     *)
LEMMA PriorityIsInt ==
    ASSUME NEW raw \in RawPriority
    PROVE  PriorityFromRawJSON(raw) \in Int
BY DEF RawPriority, PriorityFromRawJSON

(* What undoing the recorded transaction gives is a raw priority.          *)
LEMMA EffectiveType ==
    ASSUME NEW c \in Content
    PROVE  Effective(c) \in RawPriority
BY DEF Content, Effective, Marker, Owned

(* buildPriorityOverrideJSON on a file without marker: the result is a     *)
(* well-formed file that still stands for the old priority, and keeps the  *)
(* token.                                                                  *)
LEMMA BuildKeepsPriority ==
    ASSUME NEW c \in Content, CanOverride(c),
           NEW a \in AuthIndices, NEW r \in Nat, NEW p \in Int
    PROVE  LET d == BuildPriorityOverrideJSON(c, a, r, p) IN
           /\ d \in Content
           /\ d.marker \in Marker
           /\ Effective(d) = Effective(c)
           /\ d.token = c.token
<1> DEFINE d == BuildPriorityOverrideJSON(c, a, r, p)
           m == NewMarker(c, a, r, p)
<1>1. PriorityFromRawJSON(c.priority) \in Int
  BY PriorityIsInt DEF Content
<1>2. m \in Marker /\ m.override = p /\ m.original = c.priority
  BY <1>1 DEF NewMarker, Marker, Content
<1>3. Number(p) \in RawPriority /\ PriorityFromRawJSON(Number(p)) = p
  BY DEF Number, RawPriority, RawForms, PriorityFromRawJSON
<1>4. d.priority = Number(p) /\ d.marker = m /\ d.token = c.token
  BY DEF BuildPriorityOverrideJSON, Content
<1>5. d \in Content
  BY <1>2, <1>3 DEF Content, BuildPriorityOverrideJSON
<1>6. Effective(d) = c.priority
  BY <1>2, <1>3, <1>4, MarkerAssumption DEF Effective, Owned
<1>7. Effective(c) = c.priority
  BY DEF Effective, Owned, CanOverride
<1> QED
  BY <1>2, <1>4, <1>5, <1>6, <1>7

(* restorePriorityOverrideJSON on a file with the marker of the            *)
(* transaction: the result has no marker, stands for the same priority,    *)
(* byte for byte, and keeps the token.                                     *)
LEMMA RestoreKeepsPriority ==
    ASSUME NEW c \in Content, NEW m \in Marker, Owned(c)
    PROVE  LET d == RestoredJSON(c, m) IN
           /\ d.priority = Effective(c)
           /\ Effective(d) = Effective(c)
<1>1. RestoredJSON(c, m).marker = NoMarker
  BY DEF RestoredJSON, Content
<1>2. RestoredJSON(c, m).priority = Effective(c)
  BY DEF RestoredJSON, Content, Effective, ExternalChange, Governing
<1> QED
  BY <1>1, <1>2 DEF Effective, Owned

(* With or without the marker, the result is a well-formed file without    *)
(* marker and with the same token.                                         *)
LEMMA RestoreType ==
    ASSUME NEW c \in Content, NEW m \in Marker
    PROVE  LET d == RestoredJSON(c, m) IN
           d \in Content /\ d.marker = NoMarker /\ d.token = c.token
<1>1. Governing(c, m) \in Marker
  BY DEF Governing, Owned, Content
<1>2. Governing(c, m).original \in RawPriority
  BY <1>1 DEF Marker
<1> QED
  BY <1>2 DEF RestoredJSON, Content

(* The priority waited for after a restore is an integer.                  *)
LEMMA ExpectedIsInt ==
    ASSUME NEW c \in Content, NEW m \in Marker
    PROVE  ExpectedPriority(c, m) \in Int
<1>1. Governing(c, m) \in Marker
  BY DEF Governing, Owned, Content
<1> QED
  BY <1>1, PriorityIsInt DEF ExpectedPriority, Marker, Content

-----------------------------------------------------------------------------
(* The inductive invariant.                                                *)

Saving == pc \in {"check", "recheck", "rename"}

(* The shape of a transaction at each step.                                *)
TxnShape ==
    /\ pc \in {"read", "wait"} \/ Saving => txn.mode # "none"
    /\ pc \in {"idle", "scan", "targets"} => txn = NoTxn
    /\ txn.mode = "none" => txn.marker = NoMarker
    /\ txn.mode # "none" => txn.auth \in Physical
    /\ (pc = "read" \/ Saving) /\ txn.mode = "begin" => txn.marker = NoMarker
    /\ (pc = "read" \/ Saving) /\ txn.mode \in {"scan", "lease"} =>
           txn.marker # NoMarker
    /\ pc = "wait" /\ txn.mode = "begin" => txn.marker # NoMarker

(* What is about to be written was computed from what was read.            *)
PendingOK ==
    Saving =>
        \/ /\ txn.mode = "begin" /\ CanOverride(txn.snap)
           /\ txn.pend = BuildPriorityOverrideJSON(txn.snap, txn.auth, runID,
                                                   txn.want)
        \/ /\ txn.mode \in {"scan", "lease"}
           /\ ~RestoreRejected(txn.snap, txn.marker)
           /\ NeedsSave(txn.snap, txn.marker)
           /\ txn.pend = RestoredJSON(txn.snap, txn.marker)

(* At the rename the file is what was read, unless someone wrote in the    *)
(* window after the comparison.                                            *)
RenameFresh == pc = "rename" /\ ~raced[F] => file[F] = txn.snap

(* A file whose marker is gone does not show the override of a held lease, *)
(* unless someone else set that very priority.                             *)
LeaseVisible ==
    txn.marker # NoMarker /\ ~raced[F] /\ ~aliased[F] =>
        ~(/\ file[F].marker = NoMarker
          /\ PriorityFromRawJSON(file[F].priority) = txn.marker.override)

IInv ==
    /\ TypeOK
    /\ TxnShape
    /\ PendingOK
    /\ RenameFresh
    /\ LeaseVisible
    /\ RestorableToIntended
    /\ TokensPreserved

-----------------------------------------------------------------------------
(* Types of the constant records, and of what the actions build.           *)

(* The zero values have their types.                                       *)
LEMMA BlankType == Blank \in Content
BY DEF Blank, Content, Absent, RawPriority, RawForms

(* No transaction is a transaction record.                                 *)
LEMMA NoTxnType == NoTxn \in Txn
BY BlankType DEF NoTxn, Txn

(* No job is a job record.                                                 *)
LEMMA NoJobType == NoJob \in Job
BY DEF NoJob, Job

(* The priorities the runtime publishes are integers.                      *)
LEMMA RuntimeIsInt ==
    ASSUME TypeOK, NEW a \in AuthIndices
    PROVE  Runtime(a) \in Int
<1>1. CASE a \in Physical
  <2>1. manager[FileOf[a]] \in Content
    BY <1>1, LeaseAssumption DEF TypeOK
  <2> QED
    BY <1>1, <2>1, PriorityIsInt DEF Runtime, Content
<1>2. CASE a \notin Physical
  BY <1>2, LeaseAssumption DEF Runtime
<1> QED
  BY <1>1, <1>2

(* So is the highest of them.                                              *)
LEMMA HighestIsInt ==
    ASSUME TypeOK, NEW L \in SUBSET AuthIndices
    PROVE  HighestAvailablePriority(L) \subseteq Int
BY RuntimeIsInt DEF HighestAvailablePriority

-----------------------------------------------------------------------------
(* The initial states.                                                     *)
LEMMA InitInv == Init => IInv
<1> SUFFICES ASSUME Init PROVE IInv
  OBVIOUS
<1>1. file \in [Files -> Content]
  BY LeaseAssumption DEF Init
<1>2. intended \in [Files -> RawPriority]
  BY <1>1, EffectiveType DEF Init
<1>3. latest \in [Files -> Nat]
  BY <1>1 DEF Init, Content
<1>4. TypeOK
  BY <1>1, <1>2, <1>3, NoTxnType, NoJobType DEF Init, TypeOK, PCs
<1>5. txn.mode = "none" /\ txn.marker = NoMarker
  BY DEF Init, NoTxn
<1>6. TxnShape /\ PendingOK /\ RenameFresh /\ LeaseVisible
  BY <1>5 DEF Init, TxnShape, Saving, PendingOK, RenameFresh, LeaseVisible
<1>7. RestorableToIntended /\ TokensPreserved
  BY DEF Init, RestorableToIntended, TokensPreserved
<1> QED
  BY <1>4, <1>6, <1>7 DEF IInv

-----------------------------------------------------------------------------
(* A step that writes no file and prepares no write keeps the invariant    *)
(* once the types and the shape of the transaction are seen to be kept.    *)
Quiet ==
    /\ UNCHANGED <<file, raced, aliased, intended, latest>>
    /\ Saving' => Saving /\ txn' = txn /\ runID' = runID
    /\ pc' = "rename" => pc = "rename"
    /\ \/ txn'.marker = NoMarker
       \/ txn'.marker = txn.marker /\ txn'.auth = txn.auth

(* A step that is quiet keeps the invariant if it keeps the types.         *)
LEMMA QuietStep ==
    ASSUME IInv, TypeOK', TxnShape', Quiet
    PROVE  IInv'
<1>1. PendingOK'
  BY DEF IInv, Quiet, PendingOK, CanOverride, BuildPriorityOverrideJSON,
         NewMarker, RestoreRejected, NeedsSave, RestoredJSON
<1>2. RenameFresh'
  BY DEF IInv, Quiet, RenameFresh, Saving, F
<1>3. LeaseVisible'
  BY DEF IInv, Quiet, LeaseVisible, F
<1>4. RestorableToIntended' /\ TokensPreserved'
  BY DEF IInv, Quiet, RestorableToIntended, TokensPreserved
<1> QED
  BY <1>1, <1>2, <1>3, <1>4 DEF IInv

(* The fields of no transaction.                                           *)
LEMMA NoTxnFields ==
    /\ NoTxn.mode = "none" /\ NoTxn.marker = NoMarker /\ NoTxn.auth = NoAuth
BY DEF NoTxn

(* Between transactions: no transaction is open before or after.           *)
LEMMA ClosedStep ==
    ASSUME IInv, TypeOK', txn' = NoTxn,
           pc' \in {"idle", "scan", "targets"},
           UNCHANGED <<file, raced, aliased, intended, latest>>
    PROVE  IInv'
<1>1. TxnShape'
  BY NoTxnFields DEF TxnShape, Saving
<1>2. Quiet
  BY NoTxnFields DEF Quiet, Saving
<1> QED
  BY <1>1, <1>2, QuietStep

(* What the end of a task leaves.                                          *)
LEMMA EndTaskType ==
    ASSUME TypeOK, NEW failed \in BOOLEAN, EndTask(failed)
    PROVE  /\ pc' = "idle" /\ job' \in Job /\ txn' = NoTxn /\ txn' \in Txn
           /\ canceled' \in BOOLEAN /\ expired' \in BOOLEAN
BY NoTxnType, NoJobType DEF EndTask, TypeOK, Job, NoJob

(* A task takes priorityMu.                                                *)
LEMMA StartTaskInv ==
    ASSUME IInv, NEW kind \in {"run", "dry", "recovery"},
           NEW L \in SUBSET AuthIndices, StartTask(kind, L)
    PROVE  IInv'
<1> USE DEF StartTask, outside
<1>1. txn' = NoTxn
  BY DEF IInv, TxnShape
<1>2. PICK p \in HighestAvailablePriority(L) :
        job' = [NoJob EXCEPT !.kind = kind, !.todo = L, !.listed = L,
                             !.highest = p]
  OBVIOUS
<1>3. job' \in Job
  BY <1>2, HighestIsInt, NoJobType DEF IInv, Job, NoJob
<1>4. vouched' \in SUBSET Files /\ runID' \in Nat
  BY LeaseAssumption DEF IInv, TypeOK
<1>5. TypeOK'
  BY <1>1, <1>3, <1>4, NoTxnType DEF IInv, TypeOK, PCs
<1> QED
  BY <1>1, <1>5, ClosedStep

(* One iteration of the recovery scan.                                     *)
LEMMA ScanNextInv ==
    ASSUME IInv, NEW a \in AuthIndices, ScanNext(a)
    PROVE  IInv'
<1> DEFINE f == FileOf[a]
           m == file[f].marker
           left == [job EXCEPT !.todo = @ \ {a}]
           visited == [left EXCEPT !.seen = @ \cup {f}]
<1> USE DEF outside
<1>1. txn = NoTxn
  BY DEF IInv, TxnShape, ScanNext
<1>2. left \in Job
  BY DEF IInv, TypeOK, Job
<1>3. a \in Physical => f \in Files
  BY LeaseAssumption
<1>4. a \in Physical => visited \in Job /\ [visited EXCEPT !.failed = TRUE] \in Job
  BY <1>2, <1>3 DEF Job
<1>5. CASE UNCHANGED <<pc, txn>> /\ job' \in Job
  <2>1. TypeOK'
    BY <1>5 DEF IInv, TypeOK, ScanNext
  <2> QED
    BY <1>1, <1>5, <2>1, ClosedStep DEF ScanNext
<1>6. CASE /\ Owned(file[f]) /\ a \in Physical
           /\ job' = visited
           /\ txn' = [NoTxn EXCEPT !.mode = "scan", !.auth = a, !.marker = m]
           /\ pc' = "read"
  <2>1. m \in Marker /\ m # NoMarker
    BY <1>3, <1>6 DEF IInv, TypeOK, Content, Owned
  <2>2. txn' \in Txn
    BY <1>6, <2>1, NoTxnType DEF Txn
  <2>3. txn'.mode = "scan" /\ txn'.auth = a /\ txn'.marker = m
    BY <1>6 DEF NoTxn
  <2>4. TypeOK'
    BY <1>4, <1>6, <2>2 DEF IInv, TypeOK, ScanNext, PCs
  <2>5. TxnShape' /\ PendingOK' /\ RenameFresh'
    BY <1>6, <2>1, <2>3 DEF TxnShape, PendingOK, RenameFresh, Saving
  <2>6. LeaseVisible'
    BY <1>6, <2>1, <2>3 DEF LeaseVisible, F, ScanNext
  <2>7. RestorableToIntended' /\ TokensPreserved'
    BY DEF ScanNext, IInv, RestorableToIntended, TokensPreserved
  <2> QED
    BY <2>4, <2>5, <2>6, <2>7 DEF IInv
<1> HIDE DEF left, visited
<1>7. \/ UNCHANGED <<pc, txn>> /\ job' = left
      \/ UNCHANGED <<pc, txn>> /\ a \in Physical /\ job' = visited
      \/ /\ UNCHANGED <<pc, txn>> /\ a \in Physical
         /\ job' = [visited EXCEPT !.failed = TRUE]
      \/ /\ Owned(file[f]) /\ a \in Physical
         /\ job' = visited
         /\ txn' = [NoTxn EXCEPT !.mode = "scan", !.auth = a, !.marker = m]
         /\ pc' = "read"
  BY DEF ScanNext, left, visited
<1> QED
  BY <1>2, <1>4, <1>5, <1>6, <1>7

(* The other steps of the scan.                                            *)
LEMMA ScanOtherInv ==
    ASSUME IInv,
           \/ \E a \in AuthIndices : ScanReadFails(a)
           \/ ScanEnds
           \/ RelistFails
           \/ \E L, T \in SUBSET AuthIndices : SelectTargets(L, T)
    PROVE  IInv'
<1> USE DEF outside
<1>1. ASSUME NEW a \in AuthIndices, ScanReadFails(a) PROVE IInv'
  <2>1. txn' = NoTxn
    BY <1>1 DEF IInv, TxnShape, ScanReadFails
  <2>2. job' \in Job
    BY <1>1 DEF IInv, TypeOK, ScanReadFails, Job
  <2>3. faults' \in Nat
    <3>1. faults' = faults + 1
      BY <1>1 DEF ScanReadFails
    <3> QED
      BY <3>1 DEF IInv, TypeOK
  <2>4. TypeOK'
    BY <1>1, <2>2, <2>3 DEF IInv, TypeOK, ScanReadFails
  <2> QED
    BY <1>1, <2>1, <2>4, ClosedStep DEF ScanReadFails
<1>2. CASE ScanEnds
  <2>1. PICK failed \in BOOLEAN : EndTask(failed)
    BY <1>2 DEF ScanEnds
  <2>2. /\ pc' = "idle" /\ job' \in Job /\ txn' = NoTxn /\ txn' \in Txn
        /\ canceled' \in BOOLEAN /\ expired' \in BOOLEAN
    BY <2>1, EndTaskType DEF IInv
  <2>3. TypeOK'
    BY <1>2, <2>2 DEF IInv, TypeOK, ScanEnds, PCs
  <2> QED
    BY <1>2, <2>2, <2>3, ClosedStep DEF ScanEnds
<1>3. CASE RelistFails
  <2>1. /\ pc' = "idle" /\ job' \in Job /\ txn' = NoTxn /\ txn' \in Txn
        /\ canceled' \in BOOLEAN /\ expired' \in BOOLEAN
    BY <1>3, EndTaskType DEF IInv, RelistFails
  <2>2. faults' \in Nat
    BY <1>3 DEF IInv, TypeOK, RelistFails
  <2>3. TypeOK'
    BY <1>3, <2>1, <2>2 DEF IInv, TypeOK, RelistFails, PCs
  <2> QED
    BY <1>3, <2>1, <2>3, ClosedStep DEF RelistFails
<1>4. ASSUME NEW L \in SUBSET AuthIndices, NEW T \in SUBSET AuthIndices,
             SelectTargets(L, T)
      PROVE  IInv'
  <2>1. txn' = NoTxn
    BY <1>4 DEF IInv, TxnShape, SelectTargets
  <2>2. PICK p \in IF job.changed THEN HighestAvailablePriority(L)
                                  ELSE {job.highest} :
          job' = [job EXCEPT !.listed = L, !.todo = T, !.seen = {},
                             !.changed = FALSE, !.highest = p]
    BY <1>4 DEF SelectTargets
  <2>3. p \in Int
    BY HighestIsInt DEF IInv, TypeOK, Job
  <2>4. job' \in Job
    BY <2>2, <2>3 DEF IInv, TypeOK, Job
  <2>5. TypeOK'
    BY <1>4, <2>4 DEF IInv, TypeOK, SelectTargets, PCs
  <2> QED
    BY <1>4, <2>1, <2>5, ClosedStep DEF SelectTargets
<1> QED
  BY <1>1, <1>2, <1>3, <1>4

-----------------------------------------------------------------------------
(* The loop over the targets.                                              *)
LEMMA TargetNextInv ==
    ASSUME IInv, NEW a \in AuthIndices, TargetNext(a)
    PROVE  IInv'
<1> USE DEF outside
<1>1. txn = NoTxn /\ pc = "targets"
  BY DEF IInv, TxnShape, TargetNext
<1>2. job' \in Job
  <2>1. job' = [job EXCEPT !.todo = @ \ {a}]
    BY DEF TargetNext
  <2> QED
    BY <2>1 DEF IInv, TypeOK, Job
<1>3. CASE pc' = "execute" /\ txn' = [NoTxn EXCEPT !.auth = a]
  <2>1. txn' \in Txn /\ txn'.mode = "none" /\ txn'.marker = NoMarker
    BY <1>3, NoTxnType, NoTxnFields DEF Txn
  <2>2. TypeOK'
    BY <1>2, <1>3, <2>1 DEF IInv, TypeOK, TargetNext, PCs
  <2>3. TxnShape' /\ Quiet
    BY <1>3, <2>1 DEF TxnShape, Quiet, Saving, TargetNext
  <2> QED
    BY <2>2, <2>3, QuietStep
<1>4. CASE /\ pc' = "read" /\ a \in Physical
           /\ txn' = [NoTxn EXCEPT !.mode = "begin", !.auth = a,
                                   !.want = job.highest]
  <2>1. job.highest \in Int
    BY DEF IInv, TypeOK, Job
  <2>2. txn' \in Txn
    BY <1>4, <2>1, NoTxnType DEF Txn
  <2>3. txn'.mode = "begin" /\ txn'.marker = NoMarker /\ txn'.auth = a
    BY <1>4 DEF NoTxn
  <2>4. TypeOK'
    BY <1>2, <1>4, <2>2 DEF IInv, TypeOK, TargetNext, PCs
  <2>5. TxnShape' /\ Quiet
    BY <1>4, <2>3 DEF TxnShape, Quiet, Saving, TargetNext
  <2> QED
    BY <2>4, <2>5, QuietStep
<1>5. CASE UNCHANGED <<pc, txn>>
  <2>1. TypeOK'
    BY <1>2, <1>5 DEF IInv, TypeOK, TargetNext
  <2> QED
    BY <1>1, <1>5, <2>1, ClosedStep DEF TargetNext
<1> QED
  BY <1>3, <1>4, <1>5 DEF TargetNext

(* A credential is skipped, or the loop ends.                              *)
LEMMA TargetOtherInv ==
    ASSUME IInv,
           (\E a \in AuthIndices : TargetSkipped(a)) \/ TargetsEnd
    PROVE  IInv'
<1> USE DEF outside
<1>1. ASSUME NEW a \in AuthIndices, TargetSkipped(a) PROVE IInv'
  <2>1. txn' = NoTxn
    BY <1>1 DEF IInv, TxnShape, TargetSkipped
  <2>2. job' \in Job
    BY <1>1 DEF IInv, TypeOK, TargetSkipped, Job
  <2>3. faults' = faults + 1
    BY <1>1 DEF TargetSkipped
  <2>4. faults' \in Nat
    BY <2>3 DEF IInv, TypeOK
  <2>5. TypeOK'
    BY <1>1, <2>2, <2>4 DEF IInv, TypeOK, TargetSkipped
  <2> QED
    BY <1>1, <2>1, <2>5, ClosedStep DEF TargetSkipped
<1>2. CASE TargetsEnd
  <2>1. /\ pc' = "idle" /\ job' \in Job /\ txn' = NoTxn /\ txn' \in Txn
        /\ canceled' \in BOOLEAN /\ expired' \in BOOLEAN
    BY <1>2, EndTaskType DEF IInv, TargetsEnd
  <2>2. TypeOK'
    BY <1>2, <2>1 DEF IInv, TypeOK, TargetsEnd, PCs
  <2> QED
    BY <1>2, <2>1, <2>2, ClosedStep DEF TargetsEnd
<1> QED
  BY <1>1, <1>2

(* restorePriorityOverride starts with the lease that is held.             *)
LEMMA StartRestoreInv ==
    ASSUME IInv, StartRestore, pc \in {"execute", "wait"},
           txn.mode # "none", txn.marker # NoMarker,
           UNCHANGED <<file, manager, job, canceled, runID, faults, raced,
                       vouched, outside>>
    PROVE  IInv'
<1> USE DEF outside
<1>1. txn' \in Txn
  <2>1. txn' = [txn EXCEPT !.mode = "lease", !.attempt = 0]
    BY DEF StartRestore
  <2>2. 0 \in 0..2
    OBVIOUS
  <2> QED
    BY <2>1, <2>2 DEF IInv, TypeOK, Txn
<1>2. txn'.mode = "lease" /\ txn'.marker = txn.marker /\ txn'.auth = txn.auth
  BY DEF StartRestore, IInv, TypeOK, Txn
<1>3. TypeOK'
  BY <1>1 DEF IInv, TypeOK, StartRestore, PCs
<1>4. TxnShape' /\ Quiet
  BY <1>2 DEF IInv, TxnShape, Quiet, Saving, StartRestore
<1> QED
  BY <1>3, <1>4, QuietStep

(* The model request returns.                                              *)
LEMMA ExecuteReturnsInv ==
    ASSUME IInv, ExecuteReturns
    PROVE  IInv'
<1> USE DEF outside
<1>1. CASE txn.marker = NoMarker
  <2>1. TypeOK' /\ txn' = NoTxn /\ pc' = "targets"
    BY <1>1, NoTxnType DEF IInv, TypeOK, ExecuteReturns, PCs
  <2> QED
    BY <2>1, ClosedStep DEF ExecuteReturns
<1>2. CASE txn.marker # NoMarker
  <2>1. txn.mode # "none"
    BY <1>2 DEF IInv, TxnShape
  <2> QED
    BY <1>2, <2>1, StartRestoreInv DEF ExecuteReturns
<1> QED
  BY <1>1, <1>2

-----------------------------------------------------------------------------
(* A transaction that fails leaves the files alone and is closed.          *)
LEMMA TxnFailsInv ==
    ASSUME IInv, TxnFails, faults' \in Nat,
           UNCHANGED <<file, manager, runID, raced, vouched, outside>>
    PROVE  IInv'
<1> USE DEF outside
<1>1. /\ pc' \in {"idle", "scan", "targets"} /\ job' \in Job
      /\ txn' = NoTxn /\ txn' \in Txn
      /\ canceled' \in BOOLEAN /\ expired' \in BOOLEAN
  <2>1. CASE BeginFails
    BY <2>1, NoTxnType DEF BeginFails, IInv, TypeOK
  <2>2. CASE RestoreFails /\ txn.mode = "scan"
    BY <2>2, NoTxnType DEF RestoreFails, IInv, TypeOK, Job
  <2>3. CASE RestoreFails /\ txn.mode = "lease"
    BY <2>3, EndTaskType DEF RestoreFails, IInv
  <2> QED
    BY <2>1, <2>2, <2>3 DEF TxnFails, RestoreFails
<1>2. TypeOK'
  BY <1>1 DEF IInv, TypeOK, PCs
<1> QED
  BY <1>1, <1>2, ClosedStep

(* A read or a save fails.                                                 *)
LEMMA FailuresInv ==
    ASSUME IInv, ReadFails \/ SaveFails
    PROVE  IInv'
<1>1. faults' = faults \/ faults' = faults + 1
  BY DEF ReadFails, SaveFails
<1>2. faults' \in Nat
  BY <1>1 DEF IInv, TypeOK
<1>3. TxnFails
  BY DEF ReadFails, SaveFails
<1> QED
  BY <1>2, <1>3, TxnFailsInv DEF ReadFails, SaveFails

-----------------------------------------------------------------------------
(* The file of an open transaction.                                        *)
LEMMA OpenFile ==
    ASSUME IInv, txn.mode # "none"
    PROVE  /\ F \in Files /\ file[F] \in Content
           /\ txn.auth \in AuthIndices
BY LeaseAssumption DEF IInv, TypeOK, TxnShape, F

(* A step that prepares a write from what is in the file now.              *)
LEMMA PrepareStep ==
    ASSUME IInv, pc = "read", pc' = "check", TypeOK',
           txn'.mode = txn.mode, txn'.auth = txn.auth,
           txn'.marker = txn.marker, PendingOK',
           UNCHANGED <<file, raced, aliased, intended, latest>>
    PROVE  IInv'
<1>1. TxnShape' /\ RenameFresh'
  BY DEF IInv, TxnShape, RenameFresh, Saving
<1>2. LeaseVisible'
  BY DEF IInv, LeaseVisible, F
<1>3. RestorableToIntended' /\ TokensPreserved'
  BY DEF IInv, RestorableToIntended, TokensPreserved
<1> QED
  BY <1>1, <1>2, <1>3 DEF IInv

(* begin reads the file and prepares the raise.                            *)
LEMMA BeginReadInv ==
    ASSUME IInv, BeginRead
    PROVE  IInv'
<1> USE DEF outside
<1> DEFINE raised == BuildPriorityOverrideJSON(file[F], txn.auth, runID,
                                               txn.want)
<1>1. F \in Files /\ file[F] \in Content /\ txn.auth \in AuthIndices
  BY OpenFile DEF BeginRead
<1>2. CASE /\ CanOverride(file[F]) /\ pc' = "check"
           /\ txn' = [txn EXCEPT !.snap = file[F], !.pend = raised]
           /\ UNCHANGED <<job, canceled, expired>>
  <2>1. runID \in Nat /\ txn.want \in Int /\ txn \in Txn
    BY DEF IInv, TypeOK, Txn
  <2>2. raised \in Content
    BY <1>1, <1>2, <2>1, BuildKeepsPriority
  <2> HIDE DEF raised
  <2>3. txn' \in Txn
    BY <1>1, <1>2, <2>1, <2>2 DEF Txn
  <2>4. /\ txn'.mode = txn.mode /\ txn'.auth = txn.auth
        /\ txn'.marker = txn.marker /\ txn'.want = txn.want
        /\ txn'.snap = file[F] /\ txn'.pend = raised
    BY <1>2, <2>1 DEF Txn
  <2>5. TypeOK'
    BY <1>2, <2>3 DEF IInv, TypeOK, BeginRead, PCs
  <2>6. PendingOK'
    BY <1>2, <2>4 DEF PendingOK, BeginRead, raised
  <2> QED
    BY <1>2, <2>4, <2>5, <2>6, PrepareStep DEF BeginRead
<1>3. CASE BeginFails
  <2>1. TxnFails /\ faults' \in Nat
    BY <1>3 DEF TxnFails, BeginRead, IInv, TypeOK
  <2> QED
    BY <2>1, TxnFailsInv DEF BeginRead
<1> QED
  BY <1>2, <1>3 DEF BeginRead

(* A restore reads the file and prepares the rewrite.                      *)
LEMMA RestoreReadInv ==
    ASSUME IInv, RestoreRead
    PROVE  IInv'
<1> USE DEF outside
<1> DEFINE m == txn.marker
           want == ExpectedPriority(file[F], m)
           restored == RestoredJSON(file[F], m)
<1>1. F \in Files /\ file[F] \in Content /\ txn.auth \in AuthIndices
  BY OpenFile DEF RestoreRead
<1>2. txn \in Txn /\ m \in Marker
  BY DEF IInv, TypeOK, TxnShape, Txn, RestoreRead
<1>3. want \in Int /\ restored \in Content
  BY <1>1, <1>2, ExpectedIsInt, RestoreType
<1>4. pc = "read" /\ txn.mode \in {"scan", "lease"}
  BY DEF RestoreRead
<1>5. CASE RestoreFails
  <2>1. TxnFails /\ faults' \in Nat
    BY <1>5 DEF TxnFails, RestoreRead, IInv, TypeOK
  <2> QED
    BY <2>1, TxnFailsInv DEF RestoreRead
<1>6. CASE /\ pc' = "wait"
           /\ txn' = [txn EXCEPT !.marker = NoMarker, !.want = want,
                                 !.attempt = 0]
           /\ UNCHANGED <<job, canceled, expired>>
  <2> HIDE DEF want, m
  <2>1. 0 \in 0..2
    OBVIOUS
  <2>2. txn' \in Txn
    BY <1>2, <1>3, <1>6, <2>1 DEF Txn
  <2>3. /\ txn'.mode = txn.mode /\ txn'.auth = txn.auth
        /\ txn'.marker = NoMarker
    BY <1>2, <1>6 DEF Txn
  <2>4. TypeOK'
    BY <1>6, <2>2 DEF IInv, TypeOK, RestoreRead, PCs
  <2>5. TxnShape'
    BY <1>4, <1>6, <2>3 DEF IInv, TxnShape, Saving
  <2>6. Quiet
    BY <1>6, <2>3 DEF Quiet, Saving, RestoreRead
  <2> QED
    BY <2>4, <2>5, <2>6, QuietStep
<1>7. CASE /\ ~RestoreRejected(file[F], m) /\ NeedsSave(file[F], m)
           /\ pc' = "check"
           /\ txn' = [txn EXCEPT !.snap = file[F], !.pend = restored,
                                 !.want = want]
           /\ UNCHANGED <<job, canceled, expired>>
  <2> HIDE DEF want, restored
  <2>1. txn' \in Txn
    BY <1>1, <1>2, <1>3, <1>7 DEF Txn
  <2>2. /\ txn'.mode = txn.mode /\ txn'.auth = txn.auth /\ txn'.marker = m
        /\ txn'.snap = file[F] /\ txn'.pend = restored
    BY <1>2, <1>7 DEF Txn
  <2>3. TypeOK'
    BY <1>7, <2>1 DEF IInv, TypeOK, RestoreRead, PCs
  <2>4. PendingOK'
    BY <1>4, <1>7, <2>2 DEF PendingOK, restored
  <2> QED
    BY <1>4, <1>7, <2>2, <2>3, <2>4, PrepareStep DEF RestoreRead
<1> QED
  BY <1>5, <1>6, <1>7 DEF RestoreRead

(* Both comparisons.                                                       *)
LEMMA CompareInv ==
    ASSUME IInv,
           Compare("check", "recheck") \/ Compare("recheck", "rename")
    PROVE  IInv'
<1> USE DEF outside
<1>1. Saving /\ txn.mode # "none" /\ txn \in Txn
  BY DEF Compare, Saving, IInv, TypeOK, TxnShape
<1>2. CASE /\ file[F] = txn.snap /\ pc' \in {"recheck", "rename"}
           /\ UNCHANGED <<job, txn, canceled, expired>>
  <2>1. TypeOK'
    BY <1>2 DEF IInv, TypeOK, Compare, PCs
  <2>2. TxnShape' /\ RenameFresh'
    BY <1>1, <1>2 DEF IInv, TxnShape, RenameFresh, Saving, Compare, F
  <2>3. PendingOK'
    BY <1>1, <1>2 DEF IInv, PendingOK, Compare, CanOverride,
       BuildPriorityOverrideJSON, NewMarker, RestoreRejected, NeedsSave,
       RestoredJSON
  <2>4. LeaseVisible'
    BY <1>2 DEF IInv, LeaseVisible, Compare, F
  <2>5. RestorableToIntended' /\ TokensPreserved'
    BY DEF IInv, Compare, RestorableToIntended, TokensPreserved
  <2> QED
    BY <2>1, <2>2, <2>3, <2>4, <2>5 DEF IInv
<1>3. CASE AuthFileChanged
  <2>1. CASE /\ txn.attempt < 2 /\ pc' = "read"
             /\ txn' = [txn EXCEPT !.attempt = @ + 1, !.snap = Blank,
                                   !.pend = Blank]
             /\ UNCHANGED <<job, canceled, expired>>
    <3>1. txn.attempt + 1 \in 0..2
      BY <1>1, <2>1 DEF Txn
    <3>2. txn' \in Txn
      BY <1>1, <2>1, <3>1, BlankType DEF Txn
    <3>3. /\ txn'.mode = txn.mode /\ txn'.auth = txn.auth
          /\ txn'.marker = txn.marker
      BY <1>1, <2>1 DEF Txn
    <3>4. TypeOK'
      BY <2>1, <3>2 DEF IInv, TypeOK, Compare, PCs
    <3>5. TxnShape' /\ Quiet
      BY <1>1, <2>1, <3>3 DEF IInv, TxnShape, Quiet, Saving, Compare
    <3> QED
      BY <3>4, <3>5, QuietStep
  <2>2. CASE TxnFails
    <3>1. faults' \in Nat
      BY DEF Compare, IInv, TypeOK
    <3> QED
      BY <2>2, <3>1, TxnFailsInv DEF Compare
  <2> QED
    BY <1>3, <2>1, <2>2 DEF AuthFileChanged
<1> QED
  BY <1>2, <1>3 DEF Compare

(* What the rename puts in place: the result of one of the two rewrites,   *)
(* of the file as it is now unless someone wrote it after the comparison.  *)
LEMMA RenameFacts ==
    ASSUME IInv, pc = "rename"
    PROVE  /\ Saving /\ txn.mode # "none" /\ txn \in Txn
           /\ txn.auth \in Physical /\ F \in Files /\ file[F] \in Content
           /\ ~raced[F] => file[F] = txn.snap
           /\ txn.pend \in Content /\ txn.pend.token = txn.snap.token
           /\ txn.mode = "begin" =>
                /\ CanOverride(txn.snap) /\ txn.pend.marker \in Marker
           /\ txn.mode # "begin" => txn.pend.marker = NoMarker
           /\ ~raced[F] /\ ~aliased[F] =>
                /\ Effective(txn.pend) = Effective(txn.snap)
                /\ txn.mode # "begin" => Owned(txn.snap)
<1> DEFINE g == F
<1>1. /\ Saving /\ txn.mode # "none" /\ txn \in Txn
      /\ txn.snap \in Content /\ txn.want \in Int /\ runID \in Nat
      /\ txn.auth \in Physical
  BY DEF Saving, IInv, TypeOK, TxnShape, Txn
<1>2. g \in Files /\ file[g] \in Content /\ txn.auth \in AuthIndices
  BY <1>1, OpenFile
<1>3. ~raced[g] => file[g] = txn.snap
  BY <1>1 DEF IInv, RenameFresh
<1>4. txn.mode = "begin" =>
        /\ CanOverride(txn.snap)
        /\ txn.pend \in Content /\ txn.pend.marker \in Marker
        /\ Effective(txn.pend) = Effective(txn.snap)
        /\ txn.pend.token = txn.snap.token
  BY <1>1, <1>2, BuildKeepsPriority DEF IInv, PendingOK
<1>5. txn.mode # "begin" =>
        /\ txn.mode \in {"scan", "lease"}
        /\ txn.marker \in Marker
        /\ ~RestoreRejected(txn.snap, txn.marker)
        /\ NeedsSave(txn.snap, txn.marker)
        /\ txn.pend = RestoredJSON(txn.snap, txn.marker)
  BY <1>1 DEF IInv, PendingOK, TxnShape, TypeOK, Txn
<1>6. txn.mode # "begin" =>
        /\ txn.pend \in Content /\ txn.pend.marker = NoMarker
        /\ txn.pend.token = txn.snap.token
  BY <1>1, <1>5, RestoreType
<1>7. txn.mode # "begin" /\ ~raced[g] /\ ~aliased[g] => Owned(txn.snap)
  <2> SUFFICES ASSUME txn.mode # "begin", ~raced[g], ~aliased[g],
                      ~Owned(txn.snap)
               PROVE  FALSE
    OBVIOUS
  <2>1. txn.snap.marker = NoMarker
    BY <1>5 DEF RestoreRejected, Owned
  <2>2. PriorityFromRawJSON(txn.snap.priority) = txn.marker.override
    BY <1>5 DEF NeedsSave, ExternalChange, Governing
  <2>3. txn.marker # NoMarker
    BY <1>5, MarkerAssumption
  <2> QED
    BY <1>3, <2>1, <2>2, <2>3 DEF IInv, LeaseVisible
<1>8. ~raced[g] /\ ~aliased[g] => Effective(txn.pend) = Effective(txn.snap)
  BY <1>1, <1>4, <1>5, <1>7, RestoreKeepsPriority
<1> QED
  BY <1>1, <1>2, <1>3, <1>4, <1>6, <1>7, <1>8

(* The write. Without a race the file is still what was read, so the two   *)
(* rewrites' lemmas apply; a restore never meets the markerless case that  *)
(* would undo someone else's priority, by LeaseVisible.                    *)
LEMMA RenameInv ==
    ASSUME IInv, Rename
    PROVE  IInv'
<1> USE DEF outside
<1> DEFINE g == F
<1>1. /\ pc = "rename" /\ Saving /\ txn.mode # "none" /\ txn \in Txn
      /\ txn.auth \in Physical /\ g \in Files /\ file[g] \in Content
  BY RenameFacts DEF Rename
<1>2. ~raced[g] => file[g] = txn.snap
  BY <1>1, RenameFacts
<1>3. txn.mode = "begin" => txn.pend.marker \in Marker
  BY <1>1, RenameFacts
<1>4. ~raced[g] /\ ~aliased[g] => Effective(txn.pend) = Effective(txn.snap)
  BY <1>1, RenameFacts
<1>5. txn.pend \in Content /\ txn.pend.token = txn.snap.token
      /\ txn.pend.marker \in Marker \cup {NoMarker}
  BY <1>1, RenameFacts
<1>6. txn' = [txn EXCEPT !.marker = txn.pend.marker, !.snap = Blank,
                          !.pend = Blank, !.attempt = 0]
  BY DEF Rename
<1>7. 0 \in 0..2
  OBVIOUS
<1>8. txn' \in Txn
  BY <1>1, <1>5, <1>6, <1>7, BlankType DEF Txn
<1>9. /\ txn'.mode = txn.mode /\ txn'.auth = txn.auth
       /\ txn'.marker = txn.pend.marker
  BY <1>1, <1>6 DEF Txn
<1>10. job' \in Job
  BY DEF Rename, IInv, TypeOK, Job
<1>11. file' = [file EXCEPT ![g] = txn.pend] /\ file' \in [Files -> Content]
  BY <1>1, <1>5 DEF Rename, IInv, TypeOK
<1>12. /\ pc' = "wait" /\ F' = g
       /\ UNCHANGED <<manager, canceled, expired, runID, faults, raced,
                      vouched, outside>>
  BY <1>9 DEF Rename, F
<1> HIDE DEF g
<1>13. TypeOK'
  BY <1>8, <1>10, <1>11, <1>12 DEF IInv, TypeOK, PCs
<1>14. TxnShape' /\ PendingOK' /\ RenameFresh'
  BY <1>1, <1>3, <1>9, <1>12, MarkerAssumption
     DEF TxnShape, PendingOK, RenameFresh, Saving
<1>15. LeaseVisible'
  <2>1. file'[g].marker = txn'.marker
    BY <1>1, <1>9, <1>11 DEF IInv, TypeOK
  <2> QED
    BY <1>12, <2>1 DEF LeaseVisible
<1>16. RestorableToIntended'
  <2> SUFFICES ASSUME NEW f \in Files, ~raced[f], ~aliased[f]
               PROVE  Effective(file'[f]) = intended[f]
    BY <1>12 DEF RestorableToIntended
  <2>1. Effective(file[f]) = intended[f]
    BY DEF IInv, RestorableToIntended
  <2>2. CASE f = g
    BY <1>2, <1>4, <1>11, <2>1, <2>2 DEF IInv, TypeOK
  <2>3. CASE f # g
    BY <1>11, <2>1, <2>3 DEF IInv, TypeOK
  <2> QED
    BY <2>2, <2>3
<1>17. TokensPreserved'
  <2> SUFFICES ASSUME NEW f \in Files, ~raced[f]
               PROVE  file'[f].token = latest[f]
    BY <1>12 DEF TokensPreserved
  <2>1. file[f].token = latest[f]
    BY DEF IInv, TokensPreserved
  <2>2. CASE f = g
    BY <1>2, <1>5, <1>11, <2>1, <2>2 DEF IInv, TypeOK
  <2>3. CASE f # g
    BY <1>11, <2>1, <2>3 DEF IInv, TypeOK
  <2> QED
    BY <2>2, <2>3
<1> QED
  BY <1>13, <1>14, <1>15, <1>16, <1>17 DEF IInv

(* The rename is tried again.                                              *)
LEMMA RenameBlockedInv ==
    ASSUME IInv, RenameBlocked
    PROVE  IInv'
<1> USE DEF outside
<1>1. faults' = faults + 1
  BY DEF RenameBlocked
<1>2. TypeOK'
  BY <1>1 DEF RenameBlocked, IInv, TypeOK, PCs
<1>3. TxnShape' /\ Quiet
  BY DEF RenameBlocked, IInv, TxnShape, Quiet, Saving
<1> QED
  BY <1>2, <1>3, QuietStep

(* The wait for the runtime ends, either way.                              *)
LEMMA WaitInv ==
    ASSUME IInv, WaitSucceeds \/ WaitTimesOut
    PROVE  IInv'
<1> USE DEF outside
<1>1. pc = "wait" /\ txn \in Txn /\ txn.mode # "none" /\ faults' \in Nat
  BY DEF WaitSucceeds, WaitTimesOut, IInv, TypeOK, TxnShape
<1>2. CASE WaitSucceeds /\ txn.mode = "begin"
  <2>1. txn' = [txn EXCEPT !.want = 0] /\ pc' = "execute"
    BY <1>2 DEF WaitSucceeds
  <2>2. txn' \in Txn
    BY <1>1, <2>1 DEF Txn
  <2>3. /\ txn'.mode = txn.mode /\ txn'.auth = txn.auth
        /\ txn'.marker = txn.marker
    BY <1>1, <2>1 DEF Txn
  <2>4. TypeOK'
    BY <1>2, <2>1, <2>2 DEF WaitSucceeds, IInv, TypeOK, PCs
  <2>5. TxnShape' /\ Quiet
    BY <1>2, <2>1, <2>3 DEF WaitSucceeds, IInv, TxnShape, Quiet, Saving
  <2> QED
    BY <2>4, <2>5, QuietStep
<1>3. CASE WaitSucceeds /\ txn.mode # "begin"
  <2>1. TypeOK' /\ txn' = NoTxn /\ pc' \in {"scan", "targets"}
    BY <1>3, NoTxnType DEF WaitSucceeds, IInv, TypeOK, PCs
  <2> QED
    BY <1>3, <2>1, ClosedStep DEF WaitSucceeds
<1>4. CASE WaitTimesOut /\ txn.mode = "begin" /\ txn.marker # NoMarker
  <2>1. StartRestore /\ UNCHANGED <<job, canceled>>
    BY <1>4 DEF WaitTimesOut, RestoreFails
  <2> QED
    BY <1>1, <1>4, <2>1, StartRestoreInv DEF WaitTimesOut
<1>5. CASE WaitTimesOut /\ txn.mode # "begin"
  <2>1. TxnFails
    BY <1>5 DEF WaitTimesOut, TxnFails
  <2> QED
    BY <1>1, <1>5, <2>1, TxnFailsInv DEF WaitTimesOut
<1>6. txn.mode = "begin" => txn.marker # NoMarker
  BY <1>1 DEF IInv, TxnShape
<1> QED
  BY <1>1, <1>2, <1>3, <1>4, <1>5, <1>6

-----------------------------------------------------------------------------
(* Cancellation, timeouts, crashes and the watcher.                        *)
LEMMA SignalsInv ==
    ASSUME IInv, Cancel \/ Expire \/ (\E f \in Files : Watcher(f))
    PROVE  IInv'
<1> USE DEF outside
<1>1. /\ UNCHANGED <<file, pc, job, txn, runID, raced, vouched, outside>>
      /\ faults' = faults \/ faults' = faults + 1
      /\ canceled' \in BOOLEAN /\ expired' \in BOOLEAN
      /\ manager' \in [Files -> Content]
  BY DEF Cancel, Expire, Watcher, IInv, TypeOK
<1>2. faults' \in Nat
  BY <1>1 DEF IInv, TypeOK
<1>3. TypeOK'
  BY <1>1, <1>2 DEF IInv, TypeOK
<1>4. TxnShape' /\ Quiet
  BY <1>1 DEF IInv, TxnShape, Quiet, Saving
<1> QED
  BY <1>3, <1>4, QuietStep

(* CPA is restarted.                                                       *)
LEMMA CrashInv ==
    ASSUME IInv, Crash
    PROVE  IInv'
<1> USE DEF outside
<1>1. faults' = faults + 1
  BY DEF Crash
<1>2. faults' \in Nat
  BY <1>1 DEF IInv, TypeOK
<1>3. /\ txn' = NoTxn /\ txn' \in Txn /\ job' \in Job /\ pc' = "idle"
      /\ vouched' \in SUBSET Files
  BY NoTxnType, NoJobType DEF Crash
<1>4. TypeOK'
  BY <1>2, <1>3 DEF Crash, IInv, TypeOK, PCs
<1> QED
  BY <1>3, <1>4, ClosedStep DEF Crash

-----------------------------------------------------------------------------
(* A write by CPA or the user: well-formed, with the newest token, and     *)
(* either standing for the priority it means to set or recognised as an    *)
(* alias.                                                                  *)
LEMMA OutsideWriteInv ==
    ASSUME IInv, NEW f \in Files, NEW c \in Content, NEW raw \in RawPriority,
           OutsideWrite(f, c, raw),
           Effective(c) = raw \/ Owned(c),
           manager' \in [Files -> Content],
           latest' \in [Files -> Nat],
           ~raced[f] => c.token = latest'[f],
           \A g \in Files : g # f => latest'[g] = latest[g]
    PROVE  IInv'
<1>1. /\ UNCHANGED <<pc, job, txn, canceled, expired, runID, faults>>
      /\ file' = [file EXCEPT ![f] = c]
      /\ intended' = [intended EXCEPT ![f] = raw]
      /\ aliased' = [aliased EXCEPT ![f] = Alias(f, c, raw)]
      /\ raced' = [raced EXCEPT ![f] = @ \/ (pc = "rename" /\ F = f)]
      /\ external' = external + 1
      /\ vouched' = vouched \ {f}
      /\ F' = F
  BY DEF OutsideWrite, F
<1>2. external' \in Nat
  BY <1>1 DEF IInv, TypeOK
<1>3. Alias(f, c, raw) \in BOOLEAN
  BY DEF Alias
<1>4. /\ raced[f] \in BOOLEAN
      /\ (raced[f] \/ (pc = "rename" /\ F = f)) \in BOOLEAN
  BY DEF IInv, TypeOK
<1>5. aliased' \in [Files -> BOOLEAN] /\ raced' \in [Files -> BOOLEAN]
  BY <1>1, <1>3, <1>4 DEF IInv, TypeOK
<1>6. file' \in [Files -> Content] /\ intended' \in [Files -> RawPriority]
  BY <1>1 DEF IInv, TypeOK
<1>7. TypeOK'
  BY <1>1, <1>2, <1>5, <1>6 DEF IInv, TypeOK
<1>8. TxnShape'
  BY <1>1 DEF IInv, TxnShape, Saving
<1>9. PendingOK'
  BY <1>1 DEF IInv, PendingOK, Saving
<1>10. /\ file'[f] = c /\ intended'[f] = raw
       /\ aliased'[f] = Alias(f, c, raw)
       /\ raced'[f] = (raced[f] \/ (pc = "rename" /\ F = f))
  BY <1>1 DEF IInv, TypeOK
<1>11. \A g \in Files : g # f =>
         /\ file'[g] = file[g] /\ intended'[g] = intended[g]
         /\ aliased'[g] = aliased[g] /\ raced'[g] = raced[g]
  BY <1>1 DEF IInv, TypeOK
<1>12. RenameFresh'
  <2> SUFFICES ASSUME pc = "rename", ~raced'[F] PROVE file'[F] = txn.snap
    BY <1>1 DEF RenameFresh
  <2>1. F \in Files
    BY OpenFile DEF IInv, TxnShape, Saving
  <2>2. F # f
    BY <1>10
  <2> QED
    BY <1>11, <2>1, <2>2 DEF IInv, RenameFresh
<1>13. LeaseVisible'
  <2> SUFFICES ASSUME txn.marker # NoMarker, ~raced'[F], ~aliased'[F],
                      file'[F].marker = NoMarker,
                      PriorityFromRawJSON(file'[F].priority)
                          = txn.marker.override
               PROVE  FALSE
    BY <1>1 DEF LeaseVisible
  <2>1. F \in Files
    BY OpenFile DEF IInv, TxnShape
  <2>2. CASE F = f
    BY <1>10, <2>2 DEF Alias
  <2>3. CASE F # f
    BY <1>11, <2>1, <2>3 DEF IInv, LeaseVisible
  <2> QED
    BY <2>2, <2>3
<1>14. RestorableToIntended'
  <2> SUFFICES ASSUME NEW g \in Files, ~raced'[g], ~aliased'[g]
               PROVE  Effective(file'[g]) = intended'[g]
    BY DEF RestorableToIntended
  <2>1. CASE g = f
    BY <1>10, <2>1 DEF Alias
  <2>2. CASE g # f
    BY <1>11, <2>2 DEF IInv, RestorableToIntended
  <2> QED
    BY <2>1, <2>2
<1>15. TokensPreserved'
  <2> SUFFICES ASSUME NEW g \in Files, ~raced'[g]
               PROVE  file'[g].token = latest'[g]
    BY DEF TokensPreserved
  <2>1. CASE g = f
    BY <1>10, <2>1
  <2>2. CASE g # f
    BY <1>11, <2>2 DEF IInv, TokensPreserved
  <2> QED
    BY <2>1, <2>2
<1> QED
  BY <1>7, <1>8, <1>9, <1>12, <1>13, <1>14, <1>15 DEF IInv

(* CPA writes its copy back.                                               *)
LEMMA TokenRefreshInv ==
    ASSUME IInv, NEW f \in Files, TokenRefresh(f)
    PROVE  IInv'
<1> DEFINE c == [manager[f] EXCEPT !.token = latest[f] + 1]
<1>1. manager[f] \in Content /\ latest[f] \in Nat
  BY DEF IInv, TypeOK
<1>2. /\ c \in Content /\ c.token = latest[f] + 1
      /\ c.marker = manager[f].marker /\ c.priority = manager[f].priority
  BY <1>1 DEF Content
<1>3. Effective(c) = Effective(manager[f])
  BY <1>2 DEF Effective, Owned
<1>4. /\ OutsideWrite(f, c, Effective(manager[f]))
      /\ latest' = [latest EXCEPT ![f] = @ + 1]
      /\ manager' = [manager EXCEPT ![f] = c]
  BY DEF TokenRefresh
<1> HIDE DEF c
<1>5. latest' \in [Files -> Nat] /\ manager' \in [Files -> Content]
  BY <1>2, <1>4 DEF IInv, TypeOK
<1>6. latest'[f] = latest[f] + 1 /\ \A g \in Files : g # f => latest'[g] = latest[g]
  BY <1>4 DEF IInv, TypeOK
<1>7. Effective(manager[f]) \in RawPriority
  BY <1>1, EffectiveType
<1> QED
  BY <1>2, <1>3, <1>4, <1>5, <1>6, <1>7, OutsideWriteInv

(* A user writes a priority.                                               *)
LEMMA UserWriteInv ==
    ASSUME IInv, NEW f \in Files, NEW raw \in UserPriorities,
           UserEdit(f, raw) \/ UserReplace(f, raw)
    PROVE  IInv'
<1>1. file[f] \in Content /\ raw \in RawPriority
  BY LeaseAssumption DEF IInv, TypeOK
<1>2. PICK m \in {file[f].marker, NoMarker} :
        OutsideWrite(f, [file[f] EXCEPT !.priority = raw, !.marker = m], raw)
  <2>1. CASE UserEdit(f, raw)
    <3>1. [file[f] EXCEPT !.priority = raw]
            = [file[f] EXCEPT !.priority = raw, !.marker = file[f].marker]
      BY <1>1 DEF Content
    <3> QED
      BY <2>1, <3>1 DEF UserEdit
  <2>2. CASE UserReplace(f, raw)
    BY <2>2 DEF UserReplace
  <2> QED
    BY <2>1, <2>2
<1> DEFINE c == [file[f] EXCEPT !.priority = raw, !.marker = m]
<1>3. /\ c \in Content /\ c.token = file[f].token /\ c.priority = raw
  BY <1>1 DEF Content
<1>4. Effective(c) = raw \/ Owned(c)
  BY <1>3 DEF Effective
<1>5. UNCHANGED <<manager, latest>>
  BY DEF UserEdit, UserReplace
<1>6. ~raced[f] => c.token = latest'[f]
  BY <1>3, <1>5 DEF IInv, TokensPreserved
<1>7. manager' \in [Files -> Content] /\ latest' \in [Files -> Nat]
  BY <1>5 DEF IInv, TypeOK
<1> HIDE DEF c
<1>8. OutsideWrite(f, c, raw)
  BY <1>2 DEF c
<1> QED
  BY <1>1, <1>3, <1>4, <1>5, <1>6, <1>7, <1>8, OutsideWriteInv

-----------------------------------------------------------------------------
(* The invariant is inductive.                                             *)
LEMMA NextInv ==
    ASSUME IInv, [Next]_vars
    PROVE  IInv'
<1>1. ASSUME NEW kind \in {"run", "dry", "recovery"},
             NEW L \in SUBSET AuthIndices, StartTask(kind, L)
      PROVE  IInv'
  BY <1>1, StartTaskInv
<1>2. CASE ScanStep
  BY <1>2, ScanNextInv, ScanOtherInv DEF ScanStep
<1>3. CASE TargetStep
  BY <1>3, TargetNextInv, TargetOtherInv, ExecuteReturnsInv DEF TargetStep
<1>4. CASE FileStep
  BY <1>4, BeginReadInv, RestoreReadInv, FailuresInv, CompareInv, RenameInv,
     RenameBlockedInv, WaitInv DEF FileStep, Check, Recheck
<1>5. CASE Environment
  BY <1>5, SignalsInv, CrashInv, TokenRefreshInv, UserWriteInv
     DEF Environment
<1>6. CASE UNCHANGED vars
  <2>1. TypeOK' /\ TxnShape' /\ Quiet
    BY <1>6 DEF vars, IInv, TypeOK, TxnShape, Quiet, Saving
  <2> QED
    BY <2>1, QuietStep
<1> QED
  BY <1>1, <1>2, <1>3, <1>4, <1>5, <1>6 DEF Next

(* The inductive invariant holds throughout.                               *)
THEOREM Inductive == Spec => []IInv
<1>1. IInv /\ [Next]_vars => IInv'
  BY NextInv
<1> QED
  BY InitInv, <1>1, PTL DEF Spec

(* Every reachable state is well typed.                                    *)
THEOREM TypeCorrect == Spec => []TypeOK
<1>1. IInv => TypeOK
  BY DEF IInv
<1> QED
  BY Inductive, <1>1, PTL

(* No interleaving with CPA, the user, timeouts or crashes makes the       *)
(* plugin lose the priority the outside world gave a file: it is the       *)
(* file's, or recorded in the marker beside a raised one.                  *)
THEOREM Restorable == Spec => []RestorableToIntended
<1>1. IInv => RestorableToIntended
  BY DEF IInv
<1> QED
  BY Inductive, <1>1, PTL

(* The plugin's own writes never bring back an older token.                *)
THEOREM TokensKept == Spec => []TokensPreserved
<1>1. IInv => TokensPreserved
  BY DEF IInv
<1> QED
  BY Inductive, <1>1, PTL

-----------------------------------------------------------------------------
(* The refinement of CredentialFiles.                                      *)

(* The steps that write a file.                                            *)
Writes ==
    \/ Rename
    \/ \E f \in Files : TokenRefresh(f)
    \/ \E f \in Files, raw \in UserPriorities :
          UserEdit(f, raw) \/ UserReplace(f, raw)

(* No other step of the task, of CPA's or of the watcher's touches what    *)
(* the owners of the files see.                                            *)
LEMMA OnlyWritesShow ==
    ASSUME [Next]_vars, ~Writes
    PROVE  UNCHANGED <<file, raced, aliased, external>>
<1> USE DEF outside
<1>1. ASSUME NEW kind \in {"run", "dry", "recovery"},
             NEW L \in SUBSET AuthIndices, StartTask(kind, L)
      PROVE  UNCHANGED <<file, raced, aliased, external>>
  BY <1>1 DEF StartTask
<1>2. CASE ScanStep
  BY <1>2 DEF ScanStep, ScanNext, ScanReadFails, ScanEnds, RelistFails,
              SelectTargets
<1>3. CASE TargetStep
  BY <1>3 DEF TargetStep, TargetNext, TargetSkipped, TargetsEnd,
              ExecuteReturns
<1>4. CASE FileStep
  BY <1>4 DEF Writes, FileStep, BeginRead, RestoreRead, ReadFails, Check,
              Recheck, Compare, SaveFails, RenameBlocked, WaitSucceeds,
              WaitTimesOut
<1>5. CASE Environment
  BY <1>5 DEF Writes, Environment, Cancel, Expire, Crash, Watcher
<1>6. CASE UNCHANGED vars
  BY <1>6 DEF vars
<1> QED
  BY <1>1, <1>2, <1>3, <1>4, <1>5, <1>6 DEF Next

(* The two kinds of writes leave all other files alone.                    *)
LEMMA OthersKept ==
    ASSUME NEW f \in Files,
           \A g \in Files \ {f} :
               file'[g] = file[g] /\ raced'[g] = raced[g]
                   /\ aliased'[g] = aliased[g]
    PROVE  Promise!OthersSame(f)
BY DEF Promise!OthersSame, Promise!Kept

(* The rename raises or restores; on a file that an unnoticed write has    *)
(* exposed it overwrites.                                                  *)
LEMMA RenameKeepsPromise ==
    ASSUME IInv, Rename
    PROVE  Promise!Next
<1>0. PICK g \in Files : g = F
  BY RenameFacts DEF Rename
<1>1. /\ file[g] \in Content
      /\ ~raced[g] => file[g] = txn.snap
      /\ txn.pend \in Content /\ txn.pend.token = txn.snap.token
  BY <1>0, RenameFacts DEF Rename
<1>2. /\ txn.mode = "begin" =>
           /\ CanOverride(txn.snap) /\ txn.pend.marker \in Marker
      /\ txn.mode # "begin" => txn.pend.marker = NoMarker
      /\ ~raced[g] /\ ~aliased[g] =>
           /\ Effective(txn.pend) = Effective(txn.snap)
           /\ txn.mode # "begin" => Owned(txn.snap)
  BY <1>0, RenameFacts DEF Rename
<1>3. /\ file' = [file EXCEPT ![g] = txn.pend]
      /\ UNCHANGED <<raced, aliased, external>>
  BY <1>0 DEF Rename, outside
<1>4. /\ file'[g] = txn.pend
      /\ \A f \in Files \ {g} : file'[f] = file[f]
  BY <1>1, <1>3 DEF IInv, TypeOK
<1>5. Promise!OthersSame(g)
  BY <1>1, <1>3, <1>4, OthersKept
<1>6. CASE raced[g] \/ aliased[g]
  <2>1. Promise!Overwrite(g)
    BY <1>1, <1>3, <1>5, <1>6 DEF Promise!Overwrite
  <2> QED
    BY <1>1, <2>1 DEF Promise!Next
<1>7. CASE ~raced[g] /\ ~aliased[g]
  <2>1. Promise!Kept(g)
    BY <1>1, <1>2, <1>4, <1>7 DEF Promise!Kept
  <2>2. CASE txn.mode = "begin"
    <3>1. ~Owned(file[g]) /\ Owned(file'[g])
      BY <1>1, <1>2, <1>4, <1>7, <2>2, MarkerAssumption
         DEF Owned, CanOverride
    <3>2. Promise!Raise(g)
      BY <1>1, <1>3, <1>5, <2>1, <3>1 DEF Promise!Raise
    <3> QED
      BY <1>1, <3>2 DEF Promise!Next
  <2>3. CASE txn.mode # "begin"
    <3>1. Owned(file[g]) /\ ~Owned(file'[g])
      BY <1>1, <1>2, <1>4, <1>7, <2>3 DEF Owned
    <3>2. Promise!Restore(g)
      BY <1>1, <1>3, <1>5, <2>1, <3>1 DEF Promise!Restore
    <3> QED
      BY <1>1, <3>2 DEF Promise!Next
  <2> QED
    BY <2>2, <2>3
<1> QED
  BY <1>6, <1>7

(* A write of CPA or a user is one of the owner's.                         *)
LEMMA OwnerKeepsPromise ==
    ASSUME IInv, NEW f \in Files, NEW c \in Content, NEW raw,
           OutsideWrite(f, c, raw),
           c.token >= file[f].token \/ raced[f]
    PROVE  Promise!Next
<1>1. /\ external' = external + 1
      /\ file'[f] = c
      /\ \A g \in Files \ {f} : file'[g] = file[g] /\ raced'[g] = raced[g]
                                 /\ aliased'[g] = aliased[g]
  BY DEF OutsideWrite, IInv, TypeOK
<1>2. Promise!OthersSame(f)
  BY <1>1, OthersKept
<1>3. Promise!OwnerWrites(f)
  BY <1>1, <1>2 DEF Promise!OwnerWrites
<1> QED
  BY <1>3 DEF Promise!Next

(* Every step is one of the promise or invisible.                          *)
LEMMA StepKeepsPromise ==
    ASSUME IInv, [Next]_vars
    PROVE  [Promise!Next]_(Promise!vars)
<1>1. CASE ~Writes
  BY <1>1, OnlyWritesShow DEF Promise!vars
<1>2. CASE Rename
  BY <1>2, RenameKeepsPromise
<1>3. ASSUME NEW f \in Files, TokenRefresh(f) PROVE Promise!Next
  <2> DEFINE c == [manager[f] EXCEPT !.token = latest[f] + 1]
  <2>1. manager[f] \in Content /\ latest[f] \in Nat
    BY DEF IInv, TypeOK
  <2>2. c \in Content /\ c.token = latest[f] + 1
    BY <2>1 DEF Content
  <2>3. c.token >= file[f].token \/ raced[f]
    BY <2>1, <2>2 DEF IInv, TokensPreserved
  <2>4. OutsideWrite(f, c, Effective(manager[f]))
    BY <1>3 DEF TokenRefresh
  <2> QED
    BY <2>2, <2>3, <2>4, OwnerKeepsPromise
<1>4. ASSUME NEW f \in Files, NEW raw \in UserPriorities,
             UserEdit(f, raw) \/ UserReplace(f, raw)
      PROVE  Promise!Next
  <2>1. file[f] \in Content /\ raw \in RawPriority
    BY LeaseAssumption DEF IInv, TypeOK
  <2> DEFINE edited == [file[f] EXCEPT !.priority = raw]
             replaced == [file[f] EXCEPT !.priority = raw,
                                         !.marker = NoMarker]
  <2>2. /\ edited \in Content /\ edited.token = file[f].token
        /\ replaced \in Content /\ replaced.token = file[f].token
    BY <2>1 DEF Content
  <2>3. OutsideWrite(f, edited, raw) \/ OutsideWrite(f, replaced, raw)
    BY <1>4 DEF UserEdit, UserReplace
  <2>4. file[f].token >= file[f].token
    BY <2>1 DEF Content
  <2> HIDE DEF edited, replaced
  <2> QED
    BY <2>2, <2>3, <2>4, OwnerKeepsPromise
<1> QED
  BY <1>1, <1>2, <1>3, <1>4 DEF Writes

(* The initial states are those of the promise.                            *)
LEMMA InitKeepsPromise == Init => Promise!Init
<1> SUFFICES ASSUME Init PROVE Promise!Init
  OBVIOUS
<1>1. file \in [Files -> Content]
  BY InitInv DEF IInv, TypeOK
<1>2. \A f \in Files : file[f].token \in Nat /\ Owned(file[f]) \in BOOLEAN
  BY <1>1 DEF Content, Owned
<1>3. [f \in Files |-> raced[f] \/ aliased[f]] = [f \in Files |-> FALSE]
  BY DEF Init
<1> QED
  BY <1>2, <1>3 DEF Promise!Init, Init

(* The transactions implement what CredentialFiles promises the owners of  *)
(* the files: outside the two unnoticeable cases, all the plugin ever      *)
(* writes is a raise or a restore that keeps the owner's priority, byte    *)
(* for byte, and tokens.                                                   *)
THEOREM KeepsPromise == Spec => PromiseKept
<1>1. IInv /\ [Next]_vars => [Promise!Next]_(Promise!vars)
  BY StepKeepsPromise
<1> QED
  BY Inductive, InitKeepsPromise, <1>1, PTL
     DEF Spec, PromiseKept, Promise!Spec

-----------------------------------------------------------------------------
(* Markers while a task runs and after it. The invariant above speaks of   *)
(* single files; these parts relate the markers in all files a task        *)
(* answers for to what the task has still to do.                           *)

(* In the scan, as long as it has met no error, a listed file with a       *)
(* marker is either still to be visited or the one being restored.         *)
ScanShape ==
    (pc = "scan" \/ txn.mode = "scan") /\ ~job.failed =>
        \A f \in vouched :
            file[f].marker # NoMarker =>
                \/ /\ f \notin job.seen
                   /\ \E a \in job.todo \cap Physical : FileOf[a] = f
                \/ txn.mode = "scan" /\ txn.marker = file[f].marker /\ F = f

(* A restore that waits for the runtime has nothing left to restore.       *)
RestoreShape ==
    /\ txn.mode = "scan" => pc # "execute"
    /\ pc = "wait" /\ txn.mode \in {"scan", "lease"} => txn.marker = NoMarker

MarkerInv == ScanShape /\ RestoreShape /\ SingleBoost /\ CleanAfterTask

Clean == \A f \in vouched : file[f].marker = NoMarker

(* Nothing is to be done while no listed file has a marker.                *)
LEMMA CleanStep ==
    ASSUME Clean', RestoreShape'
    PROVE  MarkerInv'
BY DEF Clean, MarkerInv, ScanShape, SingleBoost, CleanAfterTask

(* A step within a transaction that touches neither files nor lease.       *)
LEMMA SameLease ==
    ASSUME MarkerInv, UNCHANGED <<file, vouched, job>>,
           txn'.marker = txn.marker, txn'.auth = txn.auth,
           txn'.mode = "scan" <=> txn.mode = "scan",
           pc \notin {"idle", "scan"}, pc' \notin {"idle", "scan"},
           RestoreShape'
    PROVE  MarkerInv'
<1>1. F' = F
  BY DEF F
<1>2. ScanShape'
  BY <1>1 DEF MarkerInv, ScanShape
<1>3. SingleBoost' /\ CleanAfterTask'
  BY <1>1 DEF MarkerInv, SingleBoost, CleanAfterTask
<1> QED
  BY <1>2, <1>3 DEF MarkerInv

(* Without a lease or a scan no listed file has a marker.                  *)
LEMMA NothingRaised ==
    ASSUME MarkerInv, pc \notin {"idle", "scan"}, txn.mode # "scan",
           txn.marker = NoMarker
    PROVE  Clean
BY DEF MarkerInv, SingleBoost, Clean

(* A task ends with an error, which says that markers may be left.         *)
LEMMA FailedStep ==
    ASSUME pc' \in {"idle", "scan"}, job'.failed, txn' = NoTxn
    PROVE  MarkerInv'
BY NoTxnFields DEF MarkerInv, ScanShape, RestoreShape, SingleBoost,
                   CleanAfterTask

(* The job record at the end of a task.                                    *)
LEMMA EndTaskJob ==
    ASSUME NEW failed, EndTask(failed)
    PROVE  pc' = "idle" /\ txn' = NoTxn /\ job'.failed = failed
BY DEF EndTask, NoJob

(* No task yet.                                                            *)
LEMMA InitMarkers == Init => MarkerInv
BY NoTxnFields DEF Init, MarkerInv, ScanShape, RestoreShape, SingleBoost,
                   CleanAfterTask

(* All listed files are still to be visited.                               *)
LEMMA StartTaskMarkers ==
    ASSUME IInv, NEW kind \in {"run", "dry", "recovery"},
           NEW L \in SUBSET AuthIndices, StartTask(kind, L)
    PROVE  MarkerInv'
<1>1. txn' = NoTxn /\ pc' = "scan"
  BY DEF IInv, TxnShape, StartTask
<1>2. vouched' = {FileOf[a] : a \in L \cap Physical}
  BY DEF StartTask
<1>3. job'.todo = L /\ job'.seen = {}
  BY DEF StartTask, NoJob
<1>4. ScanShape'
  BY <1>2, <1>3 DEF ScanShape
<1> QED
  BY <1>1, <1>4, NoTxnFields DEF MarkerInv, RestoreShape, SingleBoost,
                                 CleanAfterTask

(* One credential of the scan: its file has no marker, or the scan has     *)
(* failed, or a restore of the file starts.                                *)
LEMMA ScanNextMarkers ==
    ASSUME IInv, MarkerInv, NEW a \in AuthIndices, ScanNext(a)
    PROVE  MarkerInv'
<1> DEFINE f == FileOf[a]
<1>1. txn = NoTxn /\ pc = "scan"
  BY DEF IInv, TxnShape, ScanNext
<1>2. UNCHANGED <<file, vouched>>
  BY DEF ScanNext
<1>3. job \in Job
  BY DEF IInv, TypeOK
<1>4. ~job.failed =>
        \A g \in vouched : file[g].marker # NoMarker =>
            /\ g \notin job.seen
            /\ \E b \in job.todo \cap Physical : FileOf[b] = g
  BY <1>1, NoTxnFields DEF MarkerInv, ScanShape
<1>5. CASE /\ a \notin Physical
           /\ job' = [job EXCEPT !.todo = @ \ {a}]
           /\ UNCHANGED <<pc, txn>>
  <2>1. /\ job'.todo = job.todo \ {a} /\ job'.seen = job.seen
        /\ job'.failed = job.failed
    BY <1>3, <1>5 DEF Job
  <2>2. ScanShape'
    BY <1>2, <1>4, <1>5, <2>1 DEF ScanShape
  <2> QED
    BY <1>1, <1>5, <2>2, NoTxnFields
       DEF MarkerInv, RestoreShape, SingleBoost, CleanAfterTask
<1>6. CASE /\ a \in Physical
           /\ f \in job.seen \/ file[f].marker = NoMarker
           /\ job' = [[job EXCEPT !.todo = @ \ {a}] EXCEPT !.seen = @ \cup {f}]
           /\ UNCHANGED <<pc, txn>>
  <2>1. /\ job'.todo = job.todo \ {a} /\ job'.seen = job.seen \cup {f}
        /\ job'.failed = job.failed
    BY <1>3, <1>6 DEF Job
  <2>2. ScanShape'
    BY <1>2, <1>4, <1>6, <2>1 DEF ScanShape
  <2> QED
    BY <1>1, <1>6, <2>2, NoTxnFields
       DEF MarkerInv, RestoreShape, SingleBoost, CleanAfterTask
<1>7. CASE /\ job' = [[[job EXCEPT !.todo = @ \ {a}]
                         EXCEPT !.seen = @ \cup {f}] EXCEPT !.failed = TRUE]
           /\ UNCHANGED <<pc, txn>>
  <2>1. job'.failed
    BY <1>3, <1>7 DEF Job
  <2> QED
    BY <1>1, <1>7, <2>1, FailedStep
<1>8. CASE /\ a \in Physical
           /\ job' = [[job EXCEPT !.todo = @ \ {a}] EXCEPT !.seen = @ \cup {f}]
           /\ txn' = [NoTxn EXCEPT !.mode = "scan", !.auth = a,
                                   !.marker = file[f].marker]
           /\ pc' = "read"
  <2>1. /\ job'.todo = job.todo \ {a} /\ job'.seen = job.seen \cup {f}
        /\ job'.failed = job.failed
    BY <1>3, <1>8 DEF Job
  <2>2. /\ txn'.mode = "scan" /\ txn'.auth = a
        /\ txn'.marker = file[f].marker
    BY <1>8 DEF NoTxn
  <2>3. F' = f
    BY <2>2 DEF F
  <2>4. ScanShape'
    BY <1>2, <1>4, <1>8, <2>1, <2>2, <2>3 DEF ScanShape
  <2> QED
    BY <1>8, <2>2, <2>4 DEF MarkerInv, RestoreShape, SingleBoost,
                            CleanAfterTask
<1> QED
  BY <1>5, <1>6, <1>7, <1>8 DEF ScanNext

(* A finished scan without error has left no marker.                       *)
LEMMA ScanDone ==
    ASSUME MarkerInv, txn = NoTxn, pc = "scan", ~job.failed, job.todo = {}
    PROVE  Clean
BY NoTxnFields DEF MarkerInv, ScanShape, Clean

(* The other steps of the scan.                                            *)
LEMMA ScanOtherMarkers ==
    ASSUME IInv, MarkerInv,
           \/ \E a \in AuthIndices : ScanReadFails(a)
           \/ ScanEnds \/ RelistFails
           \/ \E L, T \in SUBSET AuthIndices : SelectTargets(L, T)
    PROVE  MarkerInv'
<1>1. pc = "scan" /\ txn = NoTxn /\ UNCHANGED <<file, vouched>>
  BY DEF IInv, TxnShape, ScanReadFails, ScanEnds, RelistFails, SelectTargets
<1>2. job \in Job
  BY DEF IInv, TypeOK
<1>3. ASSUME NEW a \in AuthIndices, ScanReadFails(a) PROVE MarkerInv'
  <2>1. job'.failed
    BY <1>2, <1>3 DEF ScanReadFails, Job
  <2> QED
    BY <1>1, <1>3, <2>1, FailedStep DEF ScanReadFails
<1>4. CASE ScanEnds
  <2>1. PICK failed \in BOOLEAN :
           EndTask(failed) /\ failed = (job.failed \/ job.todo # {})
    BY <1>4 DEF ScanEnds
  <2>2. pc' = "idle" /\ txn' = NoTxn /\ job'.failed = failed
    BY <2>1, EndTaskJob
  <2>3. CASE failed
    BY <2>2, <2>3, FailedStep
  <2>4. CASE ~failed
    <3>1. Clean
      BY <1>1, <2>1, <2>4, ScanDone
    <3>2. Clean'
      BY <1>1, <3>1 DEF Clean
    <3> QED
      BY <2>2, <3>2, CleanStep, NoTxnFields DEF RestoreShape
  <2> QED
    BY <2>3, <2>4
<1>5. CASE RelistFails
  <2>1. EndTask(TRUE)
    BY <1>5 DEF RelistFails
  <2> QED
    BY <2>1, EndTaskJob, FailedStep
<1>6. ASSUME NEW L, NEW T, SelectTargets(L, T) PROVE MarkerInv'
  <2>1. Clean
    BY <1>1, <1>6, ScanDone DEF SelectTargets
  <2>2. Clean' /\ pc' = "targets" /\ txn' = NoTxn
    BY <1>1, <1>6, <2>1 DEF Clean, SelectTargets
  <2> QED
    BY <2>2, CleanStep, NoTxnFields DEF RestoreShape
<1> QED
  BY <1>3, <1>4, <1>5, <1>6

(* The loop over the targets holds no lease between two of them.           *)
LEMMA TargetMarkers ==
    ASSUME IInv, MarkerInv,
           \/ \E a \in AuthIndices : TargetNext(a) \/ TargetSkipped(a)
           \/ TargetsEnd
    PROVE  MarkerInv'
<1>1. pc = "targets" /\ txn = NoTxn /\ UNCHANGED <<file, vouched>>
  BY DEF IInv, TxnShape, TargetNext, TargetSkipped, TargetsEnd
<1>2. Clean
  BY <1>1, NothingRaised, NoTxnFields
<1>3. Clean'
  BY <1>1, <1>2 DEF Clean
<1>4. RestoreShape'
  <2>1. ASSUME NEW a \in AuthIndices, TargetNext(a) PROVE RestoreShape'
    <3>1. \/ UNCHANGED <<pc, txn>>
          \/ pc' = "execute" /\ txn' = [NoTxn EXCEPT !.auth = a]
          \/ pc' = "read"
      BY <2>1 DEF TargetNext
    <3>2. [NoTxn EXCEPT !.auth = a].mode = "none"
      BY DEF NoTxn
    <3> QED
      BY <1>1, <3>1, <3>2, NoTxnFields DEF RestoreShape
  <2>2. ASSUME NEW a \in AuthIndices, TargetSkipped(a) PROVE RestoreShape'
    BY <1>1, <2>2, NoTxnFields DEF TargetSkipped, RestoreShape
  <2>3. CASE TargetsEnd
    BY <2>3, EndTaskJob, NoTxnFields DEF TargetsEnd, RestoreShape
  <2> QED
    BY <2>1, <2>2, <2>3
<1> QED
  BY <1>3, <1>4, CleanStep

(* The request returns: without lease no file is raised, with one its      *)
(* restore starts.                                                         *)
LEMMA ExecuteReturnsMarkers ==
    ASSUME IInv, MarkerInv, ExecuteReturns
    PROVE  MarkerInv'
<1>1. pc = "execute" /\ UNCHANGED <<file, vouched, job>> /\ txn \in Txn
  BY DEF ExecuteReturns, IInv, TypeOK
<1>2. txn.mode # "scan"
  BY <1>1 DEF MarkerInv, RestoreShape
<1>3. CASE txn.marker = NoMarker /\ pc' = "targets" /\ txn' = NoTxn
  <2>1. Clean
    BY <1>1, <1>2, <1>3, NothingRaised
  <2>2. Clean' /\ RestoreShape'
    BY <1>1, <1>3, <2>1, NoTxnFields DEF Clean, RestoreShape
  <2> QED
    BY <2>2, CleanStep
<1>4. CASE StartRestore
  <2>1. /\ txn'.marker = txn.marker /\ txn'.auth = txn.auth
        /\ txn'.mode = "lease" /\ pc' = "read"
    BY <1>1, <1>4 DEF StartRestore, Txn
  <2>2. RestoreShape'
    BY <2>1 DEF RestoreShape
  <2> QED
    BY <1>1, <1>2, <2>1, <2>2, SameLease
<1> QED
  BY <1>3, <1>4 DEF ExecuteReturns

(* A restore fails, in the scan or of a lease.                             *)
LEMMA RestoreFailsMarkers ==
    ASSUME RestoreFails, job \in Job
    PROVE  MarkerInv'
<1>1. pc' \in {"idle", "scan"} /\ job'.failed /\ txn' = NoTxn
  <2>1. CASE txn.mode = "scan"
    BY <2>1 DEF RestoreFails, Job
  <2>2. CASE EndTask(TRUE)
    BY <2>2, EndTaskJob
  <2> QED
    BY <2>1, <2>2 DEF RestoreFails
<1> QED
  BY <1>1, FailedStep

(* A transaction fails: a begin has raised nothing yet, and a restore that *)
(* fails is an error of the task.                                          *)
LEMMA TxnFailsMarkers ==
    ASSUME IInv, MarkerInv, TxnFails, pc = "read" \/ Saving,
           UNCHANGED <<file, vouched>>
    PROVE  MarkerInv'
<1>1. CASE BeginFails
  <2>1. txn.marker = NoMarker
    BY <1>1 DEF BeginFails, IInv, TxnShape
  <2>2. Clean
    BY <1>1, <2>1, NothingRaised DEF BeginFails, Saving
  <2>3. Clean' /\ RestoreShape'
    BY <1>1, <2>2, NoTxnFields DEF Clean, RestoreShape, BeginFails
  <2> QED
    BY <2>3, CleanStep
<1>2. CASE RestoreFails
  BY <1>2, RestoreFailsMarkers DEF IInv, TypeOK
<1> QED
  BY <1>1, <1>2 DEF TxnFails

(* A read or a save fails.                                                 *)
LEMMA FailuresMarkers ==
    ASSUME IInv, MarkerInv, ReadFails \/ SaveFails
    PROVE  MarkerInv'
BY TxnFailsMarkers DEF ReadFails, SaveFails, Saving

(* begin reads a file that has no marker, or fails.                        *)
LEMMA BeginReadMarkers ==
    ASSUME IInv, MarkerInv, BeginRead
    PROVE  MarkerInv'
<1>1. pc = "read" /\ txn.mode = "begin" /\ UNCHANGED <<file, vouched>>
  BY DEF BeginRead
<1>2. CASE BeginFails
  BY <1>1, <1>2, TxnFailsMarkers DEF TxnFails
<1>3. CASE pc' = "check"
  <2>1. txn.marker = NoMarker
    BY <1>1 DEF IInv, TxnShape
  <2>2. Clean
    BY <1>1, <2>1, NothingRaised
  <2>3. Clean'
    BY <1>1, <2>2 DEF Clean
  <2> QED
    BY <1>3, <2>3, CleanStep DEF RestoreShape
<1> QED
  BY <1>2, <1>3 DEF BeginRead

(* A marker of the restore's own transaction makes it save.                *)
LEMMA OwnMarkerSaved ==
    ASSUME NEW c \in Content, NEW m \in Marker, c.marker = m
    PROVE  NeedsSave(c, m) /\ ~RestoreRejected(c, m)
BY MarkerAssumption DEF NeedsSave, RestoreRejected, Owned, SameTransaction

(* A restore reads its file. If it decides that nothing is to be saved,    *)
(* the file has no marker or was written by someone else.                  *)
LEMMA RestoreReadMarkers ==
    ASSUME IInv, MarkerInv, RestoreRead
    PROVE  MarkerInv'
<1>1. /\ pc = "read" /\ txn.mode \in {"scan", "lease"}
      /\ UNCHANGED <<file, vouched>>
  BY DEF RestoreRead
<1>2. F \in Files /\ file[F] \in Content /\ txn \in Txn /\ txn.marker \in Marker
  BY <1>1, OpenFile DEF IInv, TypeOK, TxnShape, Txn
<1>3. CASE RestoreFails
  BY <1>1, <1>3, RestoreFailsMarkers DEF IInv, TypeOK
<1>4. CASE /\ ~NeedsSave(file[F], txn.marker) /\ pc' = "wait"
           /\ txn' = [txn EXCEPT !.marker = NoMarker,
                                 !.want = ExpectedPriority(file[F], txn.marker),
                                 !.attempt = 0]
           /\ UNCHANGED job
  <2>1. /\ txn'.mode = txn.mode /\ txn'.auth = txn.auth
        /\ txn'.marker = NoMarker
    BY <1>2, <1>4 DEF Txn
  <2>2. file[F].marker # txn.marker
    BY <1>2, <1>4, OwnMarkerSaved
  <2>3. F' = F
    BY <2>1 DEF F
  <2>4. RestoreShape'
    BY <1>4, <2>1 DEF RestoreShape
  <2>5. ScanShape'
    BY <1>1, <1>4, <2>1, <2>2, <2>3 DEF MarkerInv, ScanShape
  <2>6. SingleBoost' /\ CleanAfterTask'
    BY <1>1, <1>4, <2>1, <2>2, <2>3 DEF MarkerInv, SingleBoost, CleanAfterTask
  <2> QED
    BY <2>4, <2>5, <2>6 DEF MarkerInv
<1>5. CASE /\ pc' = "check"
           /\ txn' = [txn EXCEPT !.snap = file[F],
                                 !.pend = RestoredJSON(file[F], txn.marker),
                                 !.want = ExpectedPriority(file[F], txn.marker)]
           /\ UNCHANGED job
  <2>1. /\ txn'.mode = txn.mode /\ txn'.auth = txn.auth
        /\ txn'.marker = txn.marker
    BY <1>2, <1>5 DEF Txn
  <2>2. RestoreShape'
    BY <1>5 DEF RestoreShape
  <2> QED
    BY <1>1, <1>5, <2>1, <2>2, SameLease
<1> QED
  BY <1>3, <1>4, <1>5 DEF RestoreRead

(* Both comparisons.                                                       *)
LEMMA CompareMarkers ==
    ASSUME IInv, MarkerInv,
           Compare("check", "recheck") \/ Compare("recheck", "rename")
    PROVE  MarkerInv'
<1>1. Saving /\ txn \in Txn /\ UNCHANGED <<file, vouched>>
  BY DEF Compare, Saving, IInv, TypeOK
<1>2. CASE pc' \in {"recheck", "rename"} /\ UNCHANGED <<job, txn>>
  BY <1>1, <1>2, SameLease DEF Saving, RestoreShape
<1>3. CASE /\ pc' = "read"
           /\ txn' = [txn EXCEPT !.attempt = @ + 1, !.snap = Blank,
                                 !.pend = Blank]
           /\ UNCHANGED job
  <2>1. /\ txn'.mode = txn.mode /\ txn'.auth = txn.auth
        /\ txn'.marker = txn.marker
    BY <1>1, <1>3 DEF Txn
  <2> QED
    BY <1>1, <1>3, <2>1, SameLease DEF Saving, RestoreShape
<1>4. CASE TxnFails
  BY <1>1, <1>4, TxnFailsMarkers
<1> QED
  BY <1>2, <1>3, <1>4 DEF Compare, AuthFileChanged

(* The write: a raise when no listed file has a marker, or the removal of  *)
(* the one there is.                                                       *)
LEMMA RenameMarkers ==
    ASSUME IInv, MarkerInv, Rename
    PROVE  MarkerInv'
<1> DEFINE g == F
<1>1. /\ pc = "rename" /\ Saving /\ txn.mode # "none" /\ txn \in Txn
      /\ g \in Files
      /\ txn.mode # "begin" => txn.pend.marker = NoMarker
  BY RenameFacts DEF Rename
<1>2. /\ txn' = [txn EXCEPT !.marker = txn.pend.marker, !.snap = Blank,
                            !.pend = Blank, !.attempt = 0]
      /\ file' = [file EXCEPT ![g] = txn.pend]
      /\ job' = [job EXCEPT !.changed = @ \/ txn.mode = "scan"]
      /\ pc' = "wait" /\ UNCHANGED vouched
  BY DEF Rename
<1>3. /\ txn'.mode = txn.mode /\ txn'.auth = txn.auth
      /\ txn'.marker = txn.pend.marker
  BY <1>1, <1>2 DEF Txn
<1>4. F' = g
  BY <1>3 DEF F
<1>5. /\ job'.failed = job.failed /\ job'.seen = job.seen
      /\ job'.todo = job.todo
  BY <1>2 DEF IInv, TypeOK, Job
<1>6. file \in [Files -> Content] /\ vouched \subseteq Files
  BY DEF IInv, TypeOK
<1> HIDE DEF g
<1>7. /\ file'[g].marker = txn.pend.marker
      /\ \A f \in Files : f # g => file'[f] = file[f]
  BY <1>1, <1>2, <1>6
<1>8. RestoreShape'
  BY <1>1, <1>2, <1>3 DEF RestoreShape
<1>9. CASE txn.mode = "scan"
  <2>1. ScanShape'
    BY <1>1, <1>2, <1>3, <1>4, <1>5, <1>6, <1>7, <1>9
       DEF MarkerInv, ScanShape, g
  <2> QED
    BY <1>2, <1>3, <1>8, <1>9, <2>1 DEF MarkerInv, SingleBoost, CleanAfterTask
<1>10. CASE txn.mode # "scan"
  <2>1. \A f \in vouched : f # g => file[f].marker = NoMarker
    BY <1>1, <1>10 DEF MarkerInv, SingleBoost, g
  <2>2. SingleBoost'
    BY <1>2, <1>3, <1>4, <1>6, <1>7, <2>1 DEF SingleBoost
  <2> QED
    BY <1>2, <1>3, <1>8, <1>10, <2>2 DEF MarkerInv, ScanShape, CleanAfterTask
<1> QED
  BY <1>9, <1>10

(* The wait for the runtime ends, either way, or the rename is tried       *)
(* again.                                                                  *)
LEMMA WaitMarkers ==
    ASSUME IInv, MarkerInv, WaitSucceeds \/ WaitTimesOut \/ RenameBlocked
    PROVE  MarkerInv'
<1>1. /\ pc \in {"wait", "rename"} /\ txn \in Txn /\ job \in Job
      /\ UNCHANGED <<file, vouched>>
  BY DEF WaitSucceeds, WaitTimesOut, RenameBlocked, IInv, TypeOK
<1>2. CASE RenameBlocked
  BY <1>1, <1>2, SameLease DEF RenameBlocked, RestoreShape
<1>3. CASE WaitTimesOut /\ txn.mode = "begin" /\ StartRestore /\ UNCHANGED job
  <2>1. /\ txn'.marker = txn.marker /\ txn'.auth = txn.auth
        /\ txn'.mode = "lease" /\ pc' = "read"
    BY <1>1, <1>3 DEF StartRestore, Txn
  <2> QED
    BY <1>1, <1>3, <2>1, SameLease DEF RestoreShape
<1>4. CASE WaitTimesOut /\ RestoreFails
  BY <1>1, <1>4, RestoreFailsMarkers
<1>5. CASE /\ WaitSucceeds /\ txn.mode = "begin" /\ pc' = "execute"
           /\ txn' = [txn EXCEPT !.want = 0]
  <2>1. /\ txn'.marker = txn.marker /\ txn'.auth = txn.auth
        /\ txn'.mode = "begin"
    BY <1>1, <1>5 DEF Txn
  <2>2. UNCHANGED job
    BY <1>5 DEF WaitSucceeds
  <2> QED
    BY <1>1, <1>5, <2>1, <2>2, SameLease DEF RestoreShape
<1>6. CASE /\ WaitSucceeds /\ txn.mode = "scan" /\ pc' = "scan" /\ txn' = NoTxn
  <2>1. txn.marker = NoMarker /\ UNCHANGED job
    BY <1>6 DEF MarkerInv, RestoreShape, WaitSucceeds
  <2>2. ScanShape'
    BY <1>1, <1>6, <2>1 DEF MarkerInv, ScanShape
  <2> QED
    BY <1>6, <2>2, NoTxnFields DEF MarkerInv, RestoreShape, SingleBoost,
                                   CleanAfterTask
<1>7. CASE /\ WaitSucceeds /\ txn.mode = "lease" /\ pc' = "targets"
           /\ txn' = NoTxn
  <2>1. txn.marker = NoMarker /\ pc = "wait"
    BY <1>7 DEF MarkerInv, RestoreShape, WaitSucceeds
  <2>2. Clean
    BY <1>7, <2>1, NothingRaised
  <2>3. Clean' /\ RestoreShape'
    BY <1>1, <1>7, <2>2, NoTxnFields DEF Clean, RestoreShape
  <2> QED
    BY <2>3, CleanStep
<1> QED
  BY <1>2, <1>3, <1>4, <1>5, <1>6, <1>7 DEF WaitSucceeds, WaitTimesOut

(* A write from outside: nobody answers for the file any more.             *)
LEMMA OutsideMarkers ==
    ASSUME IInv, MarkerInv, NEW f \in Files, NEW c, NEW raw,
           OutsideWrite(f, c, raw)
    PROVE  MarkerInv'
<1>1. /\ vouched' = vouched \ {f} /\ UNCHANGED <<pc, job, txn>>
      /\ file' = [file EXCEPT ![f] = c]
  BY DEF OutsideWrite
<1>2. file \in [Files -> Content] /\ vouched \subseteq Files
  BY DEF IInv, TypeOK
<1>3. \A g \in vouched' : g \in vouched /\ file'[g] = file[g]
  BY <1>1, <1>2
<1>4. F' = F
  BY <1>1 DEF F
<1>5. ScanShape'
  BY <1>1, <1>3, <1>4 DEF MarkerInv, ScanShape
<1>6. SingleBoost' /\ CleanAfterTask' /\ RestoreShape'
  BY <1>1, <1>3, <1>4 DEF MarkerInv, SingleBoost, CleanAfterTask, RestoreShape
<1> QED
  BY <1>5, <1>6 DEF MarkerInv

(* Steps that leave files, task and transaction alone.                     *)
LEMMA UnseenMarkers ==
    ASSUME MarkerInv, UNCHANGED <<file, vouched, pc, job, txn>>
    PROVE  MarkerInv'
BY DEF MarkerInv, ScanShape, RestoreShape, SingleBoost, CleanAfterTask, F

(* A crash: no task answers for any file.                                  *)
LEMMA CrashMarkers ==
    ASSUME Crash
    PROVE  MarkerInv'
<1>1. vouched' = {} /\ txn' = NoTxn
  BY DEF Crash
<1> QED
  BY <1>1, NoTxnFields, CleanStep DEF Clean, RestoreShape

(* Each step keeps the markers in hand.                                    *)
LEMMA NextMarkers ==
    ASSUME IInv, MarkerInv, [Next]_vars
    PROVE  MarkerInv'
<1>1. ASSUME NEW kind \in {"run", "dry", "recovery"},
             NEW L \in SUBSET AuthIndices, StartTask(kind, L)
      PROVE  MarkerInv'
  BY <1>1, StartTaskMarkers
<1>2. CASE ScanStep
  BY <1>2, ScanNextMarkers, ScanOtherMarkers DEF ScanStep
<1>3. CASE TargetStep
  BY <1>3, TargetMarkers, ExecuteReturnsMarkers DEF TargetStep
<1>4. CASE FileStep
  BY <1>4, BeginReadMarkers, RestoreReadMarkers, FailuresMarkers,
     CompareMarkers, RenameMarkers, WaitMarkers DEF FileStep, Check, Recheck
<1>5. CASE Environment
  <2>1. CASE Cancel \/ Expire \/ \E f \in Files : Watcher(f)
    BY <2>1, UnseenMarkers DEF Cancel, Expire, Watcher
  <2>2. CASE Crash
    BY <2>2, CrashMarkers
  <2>3. CASE \E f \in Files : TokenRefresh(f)
    BY <2>3, OutsideMarkers DEF TokenRefresh
  <2>4. CASE \E f \in Files, raw \in UserPriorities :
                UserEdit(f, raw) \/ UserReplace(f, raw)
    BY <2>4, OutsideMarkers DEF UserEdit, UserReplace
  <2> QED
    BY <1>5, <2>1, <2>2, <2>3, <2>4 DEF Environment
<1>6. CASE UNCHANGED vars
  BY <1>6, UnseenMarkers DEF vars
<1> QED
  BY <1>1, <1>2, <1>3, <1>4, <1>5, <1>6 DEF Next

(* The markers are in hand throughout.                                     *)
LEMMA MarkersInHand == Spec => []MarkerInv
<1>1. IInv /\ MarkerInv /\ [Next]_vars => MarkerInv'
  BY NextMarkers
<1> QED
  BY InitMarkers, <1>1, Inductive, PTL DEF Spec

(* After the scan of executeRun at most one listed file carries a marker,  *)
(* that of the lease beginPriorityOverride returned and                    *)
(* restorePriorityOverride has still to undo.                              *)
THEOREM OneBoost == Spec => []SingleBoost
<1>1. MarkerInv => SingleBoost
  BY DEF MarkerInv
<1> QED
  BY MarkersInHand, <1>1, PTL

(* A run or recovery that reports no error leaves no marker in a file it   *)
(* listed, unless somebody else wrote that file.                           *)
THEOREM CleanEnd == Spec => []CleanAfterTask
<1>1. MarkerInv => CleanAfterTask
  BY DEF MarkerInv
<1> QED
  BY MarkersInHand, <1>1, PTL

(* What a transaction has read is what its file holds until somebody else  *)
(* writes it.                                                              *)
SnapKept == Saving /\ F \in vouched => file[F] = txn.snap

(* A comparison is only made with what was read last, and who writes from  *)
(* outside makes the file one that is not vouched for.                     *)
LEMMA SnapStep ==
    ASSUME IInv, SnapKept, [Next]_vars
    PROVE  SnapKept'
<1>1. txn \in Txn /\ file \in [Files -> Content]
  BY DEF IInv, TypeOK
<1>2. CASE pc' \notin {"check", "recheck", "rename"}
  BY <1>2 DEF SnapKept, Saving
<1>3. CASE Saving /\ UNCHANGED <<txn, file, vouched>>
  BY <1>3 DEF SnapKept, F
<1>4. CASE BeginRead \/ RestoreRead
  <2>1. UNCHANGED <<file, vouched>>
    BY <1>4 DEF BeginRead, RestoreRead
  <2>2. CASE pc' = "check"
    <3>1. CASE BeginRead
      BY <1>1, <2>2, <3>1 DEF BeginRead, BeginFails, Txn, SnapKept, F
    <3>2. CASE RestoreRead
      <4>1. txn'.snap = file[F] /\ txn'.auth = txn.auth
        BY <1>1, <2>2, <3>2 DEF RestoreRead, RestoreFails, EndTask, Txn
      <4> QED
        BY <2>1, <4>1 DEF SnapKept, F
    <3> QED
      BY <1>4, <3>1, <3>2
  <2>3. CASE pc' # "check"
    BY <1>2, <1>4, <2>3 DEF BeginRead, RestoreRead, BeginFails, RestoreFails,
                            EndTask
  <2> QED
    BY <2>2, <2>3
<1>5. CASE FileStep
  <2>1. CASE Check \/ Recheck
    BY <1>2, <1>3, <2>1 DEF Check, Recheck, Compare, AuthFileChanged, TxnFails,
                            BeginFails, RestoreFails, EndTask, Saving
  <2>2. CASE ReadFails \/ SaveFails
    BY <1>2, <2>2 DEF ReadFails, SaveFails, TxnFails, BeginFails, RestoreFails,
                      EndTask
  <2>3. CASE Rename \/ WaitSucceeds \/ WaitTimesOut
    BY <1>2, <2>3 DEF Rename, WaitSucceeds, WaitTimesOut, StartRestore,
                      RestoreFails, EndTask
  <2>4. CASE RenameBlocked
    BY <1>3, <2>4 DEF RenameBlocked, Saving
  <2> QED
    BY <1>4, <1>5, <2>1, <2>2, <2>3, <2>4 DEF FileStep
<1>6. CASE ScanStep
  BY <1>2, <1>6 DEF ScanStep, ScanNext, ScanReadFails, ScanEnds, RelistFails,
                    SelectTargets, EndTask
<1>7. CASE TargetStep
  BY <1>2, <1>7 DEF TargetStep, TargetNext, TargetSkipped, TargetsEnd,
                    ExecuteReturns, StartRestore, EndTask
<1>8. CASE Environment
  <2>1. CASE \E f \in Files : \E c, raw : OutsideWrite(f, c, raw)
    <3>1. PICK f \in Files : \E c, raw : OutsideWrite(f, c, raw)
      BY <2>1
    <3>2. PICK c : /\ UNCHANGED <<pc, txn>> /\ vouched' = vouched \ {f}
                   /\ file' = [file EXCEPT ![f] = c]
      BY <3>1 DEF OutsideWrite
    <3>3. F' = F /\ (Saving' <=> Saving)
      BY <3>2 DEF F, Saving
    <3>4. CASE F = f
      BY <3>2, <3>3, <3>4 DEF SnapKept
    <3>5. CASE F # f
      BY <1>1, <3>2, <3>3, <3>5 DEF SnapKept
    <3> QED
      BY <3>4, <3>5
  <2>2. CASE Crash
    BY <1>2, <2>2 DEF Crash
  <2>3. CASE Cancel \/ Expire \/ \E f \in Files : Watcher(f)
    <3>1. UNCHANGED <<pc, txn, file, vouched>>
      BY <2>3 DEF Cancel, Expire, Watcher
    <3> QED
      BY <3>1 DEF SnapKept, Saving, F
  <2> QED
    BY <1>8, <2>1, <2>2, <2>3 DEF Environment, TokenRefresh, UserEdit,
                                  UserReplace
<1>9. CASE UNCHANGED vars
  BY <1>9 DEF vars, SnapKept, Saving, F
<1>10. CASE \E kind \in {"run", "dry", "recovery"}, L \in SUBSET AuthIndices :
               StartTask(kind, L)
  BY <1>2, <1>10 DEF StartTask
<1> QED
  BY <1>5, <1>6, <1>7, <1>8, <1>9, <1>10 DEF Next

(* A lease whose marker is in its file is given up only by the restore     *)
(* that takes the marker out, with an error that has a cause other than    *)
(* the run's cancellation, or by a crash.                                  *)
LEMMA ReleaseStep ==
    ASSUME IInv, MarkerInv, SnapKept, Next,
           txn.mode \in {"begin", "lease"}, txn.marker # NoMarker,
           file[F].marker = txn.marker, txn'.marker # txn.marker
    PROVE  \/ file'[F].marker = NoMarker
           \/ /\ job'.failed \/ job' = NoJob
              /\ expired \/ faults' # faults \/ F \notin vouched
<1>1. /\ txn \in Txn /\ txn # NoTxn /\ pc \notin {"idle", "scan", "targets"}
      /\ txn.marker \in Marker /\ F \in Files /\ file[F] \in Content
      /\ file \in [Files -> Content]
  BY OpenFile, NoTxnFields DEF IInv, TypeOK, TxnShape, Txn
<1>2. pc = "read" \/ Saving => txn.mode = "lease"
  BY DEF IInv, TxnShape
<1>3. pc = "wait" => txn.mode = "begin"
  BY DEF MarkerInv, RestoreShape
<1>4. ~ \E kind \in {"run", "dry", "recovery"}, L \in SUBSET AuthIndices :
           StartTask(kind, L)
  BY <1>1 DEF StartTask
<1>5. ~ScanStep
  BY <1>1 DEF ScanStep, ScanNext, ScanReadFails, ScanEnds, RelistFails,
              SelectTargets
<1>6. ~TargetStep
  <2>1. CASE ExecuteReturns
    BY <1>1, <2>1 DEF ExecuteReturns, StartRestore, Txn
  <2> QED
    BY <1>1, <2>1 DEF TargetStep, TargetNext, TargetSkipped, TargetsEnd
<1>7. TxnFails /\ txn.mode = "lease" => job'.failed
  BY EndTaskJob DEF TxnFails, BeginFails, RestoreFails
<1>8. faults + 1 # faults
  BY DEF IInv, TypeOK
<1>9. txn.mode = "lease" => CtxDone = expired
  BY DEF CtxDone
<1>10. CASE FileStep
  <2>1. CASE BeginRead
    BY <1>2, <2>1 DEF BeginRead
  <2>2. CASE RestoreRead
    <3>1. NeedsSave(file[F], txn.marker) /\ ~RestoreRejected(file[F], txn.marker)
      BY <1>1, OwnMarkerSaved
    <3> QED
      BY <1>1, <2>2, <3>1 DEF RestoreRead, Txn
  <2>3. CASE ReadFails
    BY <1>2, <1>7, <1>9, <2>3 DEF ReadFails
  <2>4. CASE SaveFails
    <3>1. txn.mode = "lease" /\ job'.failed
      BY <1>2, <1>7, <2>4 DEF SaveFails, Saving
    <3>2. expired \/ faults' # faults
      BY <1>8, <1>9, <2>4, <3>1 DEF SaveFails
    <3> QED
      BY <3>1, <3>2
  <2>5. CASE Check \/ Recheck
    <3>1. Saving /\ txn.mode = "lease"
      BY <1>2, <2>5 DEF Check, Recheck, Compare, Saving
    <3>2. file[F] # txn.snap /\ AuthFileChanged
      BY <1>1, <2>5 DEF Check, Recheck, Compare
    <3>3. TxnFails
      BY <1>1, <3>2 DEF AuthFileChanged, Txn
    <3> QED
      BY <1>7, <3>1, <3>2, <3>3 DEF SnapKept
  <2>6. CASE Rename
    <3>1. txn.pend.marker = NoMarker
      BY <1>2, <2>6, RenameFacts DEF Rename, Saving
    <3> QED
      BY <1>1, <2>6, <3>1 DEF Rename
  <2>7. CASE RenameBlocked
    BY <2>7 DEF RenameBlocked
  <2>8. CASE WaitSucceeds \/ WaitTimesOut
    BY <1>1, <1>3, <2>8 DEF WaitSucceeds, WaitTimesOut, StartRestore,
                            RestoreFails, Txn
  <2> QED
    BY <1>10, <2>1, <2>2, <2>3, <2>4, <2>5, <2>6, <2>7, <2>8 DEF FileStep
<1>11. CASE Environment
  <2>1. CASE Crash
    BY <1>8, <2>1 DEF Crash
  <2> QED
    BY <1>11, <2>1 DEF Environment, Cancel, Expire, Watcher, TokenRefresh,
                       UserEdit, UserReplace, OutsideWrite
<1> QED
  BY <1>4, <1>5, <1>6, <1>10, <1>11 DEF Next

(* No step lets go of a lease whose marker is still in the file: begin and *)
(* the wait hand it on, and restorePriorityOverride removes the marker or  *)
(* reports that it could not, for which the run's cancellation is no       *)
(* reason.                                                                 *)
THEOREM LeaseKept == Spec => LeaseNeverDropped
<1>1. Init => SnapKept
  BY DEF Init, SnapKept, Saving
<1>2. IInv /\ SnapKept /\ [Next]_vars => SnapKept'
  BY SnapStep
<1>3. IInv /\ MarkerInv /\ SnapKept /\ [Next]_vars => [LeaseReleased]_vars
  BY ReleaseStep DEF LeaseReleased
<1> QED
  BY Inductive, MarkersInHand, <1>1, <1>2, <1>3, PTL
     DEF Spec, LeaseNeverDropped

=============================================================================
