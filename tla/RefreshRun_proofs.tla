-------------------------- MODULE RefreshRun_proofs --------------------------
(***************************************************************************)
(* Proofs about RefreshRun, for any configurations, listings, runtime      *)
(* records and request bodies.                                             *)
(***************************************************************************)
EXTENDS RefreshRun, FiniteSetTheorems, TLAPS

(* The parts of executeRun before the targets are known, and the loop.     *)
Preparing == {"list", "recover", "relist", "select"}

InLoop == {"loop", "runtime", "begin", "execute", "restore", "undo", "stop",
           "wait"}

(* How many targets have their result, and up to which one a request may   *)
(* have been sent.                                                         *)
Handled == IF pc \in {"stop", "wait"} THEN index ELSE index - 1

Reached == IF pc \in {"restore", "stop", "wait"} THEN index ELSE index - 1

(* The report in the status is the run's own, as long as there is a run.   *)
StatusShape ==
    active = IF pc = "idle" THEN NoReport ELSE report

(* Nothing is counted before the loop.                                     *)
PreparedShape ==
    pc \in Preparing \cup {"selected"} =>
        /\ Total(report) = 0 /\ report.results = <<>> /\ report.error = ""
        /\ body.dry => report.dry
        /\ report.target = IF pc = "selected" THEN Len(targets) ELSE 0
        /\ ~lease /\ sent = <<>>

(* In the loop the report has one result for each target handled.          *)
LoopShape ==
    pc \in InLoop =>
        /\ ~body.dry /\ ~HasDuplicateAuthIdentity(targets)
        /\ index \in 1..(Len(targets) + 1)
        /\ pc # "loop" => index <= Len(targets)
        /\ report.target = Len(targets)
        /\ Len(report.results) = Handled /\ Total(report) = Handled
        /\ \A k \in 1..Handled : report.results[k].index = targets[k].index
        /\ report.error = IF pc = "stop" THEN "restore" ELSE ""
        /\ lease => pc \in {"execute", "restore", "undo", "stop"}

(* The caller's list is not empty, and the targets are on it.              *)
TargetShape ==
    /\ pc # "idle" => Accepted(body)
    /\ body.given => \A k \in DOMAIN targets : targets[k].index \in Named(body)

(* The runtime record is the target's and passed the filters.              *)
AuthShape ==
    pc \in {"begin", "execute"} => AuthEligible(cfg, auth) /\ SameCredential(auth)

(* What was sent went to targets that the loop has been at.                *)
SentShape ==
    /\ \A j \in DOMAIN sent :
          /\ AuthEligible(cfg, sent[j]) /\ ~body.dry
          /\ body.given => sent[j].index \in Named(body)
    /\ pc \in InLoop =>
          \A j \in DOMAIN sent : \E k \in 1..Reached :
              sent[j].id = targets[k].id /\ sent[j].index = targets[k].index

(* The report of the run that ended last.                                  *)
LastCounts ==
    last.error # "none" /\ ~last.dry =>
        Total(last) = IF last.error = "duplicate" THEN 0 ELSE last.target

LastShape == LastCounts /\ CompleteUnlessSaid /\ LeftoverReported

(* The inductive invariant.                                                *)
IInv ==
    /\ TypeOK /\ StatusShape /\ PreparedShape /\ LoopShape /\ TargetShape
    /\ AuthShape /\ SentShape /\ OneRequestEach /\ LastShape

-----------------------------------------------------------------------------
(* What the operators of the model return.                                 *)

(* FilterAuths selects from the listing what passes the filters and is     *)
(* named.                                                                  *)
LEMMA FilterSelects ==
    ASSUME NEW c, NEW listing \in Seq(Auth), NEW named,
           NEW t \in FilterAuths(c, listing, named)
    PROVE  /\ t \in Seq(Auth)
           /\ \A k \in DOMAIN t : named # {} => t[k].index \in named
<1> DEFINE wanted(a) == (named = {} \/ a.index \in named) /\ AuthEligible(c, a)
           D == {k \in DOMAIN listing : wanted(listing[k])}
<1>1. t \in Sortings(listing, D)
  BY DEF FilterAuths
<1>2. PICK p \in [1..Cardinality(D) -> D] :
         t = [k \in 1..Cardinality(D) |-> listing[p[k]]]
  BY <1>1 DEF Sortings
<1>3. Cardinality(D) \in Nat
  <2>1. IsFiniteSet(1..Len(listing)) /\ D \in SUBSET (1..Len(listing))
    BY FS_Interval
  <2>2. IsFiniteSet(D)
    BY <2>1, FS_Subset
  <2> QED
    BY <2>2, FS_CardinalityType
<1>4. \A k \in D : /\ listing[k] \in Auth
                   /\ named # {} => listing[k].index \in named
  OBVIOUS
<1> HIDE DEF D
<1>5. \A k \in 1..Cardinality(D) : p[k] \in D
  BY <1>2
<1>6. t \in [1..Cardinality(D) -> Auth]
  BY <1>2, <1>4, <1>5
<1>7. t \in Seq(Auth)
  BY <1>3, <1>6
<1> QED
  BY <1>2, <1>4, <1>5, <1>7

(* A new report, and none.                                                 *)
LEMMA EmptyReports ==
    ASSUME NEW dry \in BOOLEAN
    PROVE  /\ EmptyReport(dry) \in Report
           /\ Total(EmptyReport(dry)) = 0
           /\ EmptyReport(dry).results = <<>> /\ EmptyReport(dry).error = ""
           /\ EmptyReport(dry).target = 0
           /\ dry => EmptyReport(dry).dry
           /\ NoReport \in Report /\ NoReport.error = "none"
<1>1. ASSUME NEW d \in BOOLEAN
      PROVE  /\ EmptyReport(d) \in Report
             /\ Total(EmptyReport(d)) = 0
             /\ EmptyReport(d).results = <<>> /\ EmptyReport(d).error = ""
             /\ EmptyReport(d).target = 0
             /\ EmptyReport(d).dry = d
  BY DEF EmptyReport, Report, Errors, Total
<1>2. EmptyReport(FALSE) \in Report
  BY <1>1
<1>3. NoReport \in Report /\ NoReport.error = "none"
  BY <1>2 DEF NoReport, Report, Errors
<1> QED
  BY <1>1, <1>3

(* A run that ends before its targets are known.                           *)
LEMMA AbortedReport ==
    ASSUME TypeOK, NEW error \in Errors
    PROVE  /\ Aborted(error) \in Report
           /\ Aborted(error).error = error
           /\ Aborted(error).target = report.target
           /\ Total(Aborted(error)) = Total(report)
<1>1. report \in Report /\ canceled \in BOOLEAN
  BY DEF TypeOK, ReportType, FlagType
<1> QED
  BY <1>1 DEF Aborted, Report, Total

(* The result of a target is counted once.                                 *)
LEMMA RecordEffect ==
    ASSUME TypeOK, index \in 1..Len(targets),
           NEW outcome \in {"succeeded", "failed", "skipped"}
    PROVE  /\ Record(outcome) \in Report
           /\ Record(outcome).results =
                 Append(report.results, [index |-> targets[index].index,
                                         outcome |-> outcome])
           /\ Total(Record(outcome)) = Total(report) + 1
           /\ Record(outcome).target = report.target
           /\ Record(outcome).error = report.error
<1> DEFINE result == [index |-> targets[index].index, outcome |-> outcome]
           x == IF outcome = "succeeded" THEN 1 ELSE 0
           y == IF outcome = "failed" THEN 1 ELSE 0
           z == IF outcome = "skipped" THEN 1 ELSE 0
           results == Append(report.results, result)
           success == report.success + x
           failed == report.failed + y
           skipped == report.skipped + z
<1>1. report \in Report /\ targets[index] \in Auth
  BY DEF TypeOK, ReportType, RunType
<1>2. result \in [index : Nat, outcome : Outcomes]
  BY <1>1 DEF Auth, Outcomes
<1>3. x \in Nat /\ y \in Nat /\ z \in Nat /\ x + y + z = 1
  OBVIOUS
<1>4. Record(outcome) =
         [report EXCEPT !.results = results, !.success = success,
                        !.failed = failed, !.skipped = skipped]
  BY DEF Record
<1> HIDE DEF result, x, y, z
<1>5. /\ report.success \in Nat /\ report.failed \in Nat
      /\ report.skipped \in Nat
  BY <1>1 DEF Report
<1>6. success \in Nat /\ failed \in Nat /\ skipped \in Nat
  <2>1. \A m, n \in Nat : m + n \in Nat
    OBVIOUS
  <2> QED
    BY Zenon, <1>3, <1>5, <2>1
<1>7. results \in Seq([index : Nat, outcome : Outcomes])
  BY <1>1, <1>2 DEF Report
<1>8. success + failed + skipped =
         report.success + report.failed + report.skipped + 1
  <2>1. PICK a, b, c \in Nat : /\ a = report.success /\ b = report.failed
                               /\ c = report.skipped
    BY <1>5
  <2>2. (a + x) + (b + y) + (c + z) = a + b + c + 1
    BY <1>3
  <2> QED
    BY Zenon, <2>1, <2>2
<1> HIDE DEF results, success, failed, skipped
<1>9. /\ Record(outcome) \in Report
      /\ Record(outcome).results = results
      /\ Record(outcome).success = success
      /\ Record(outcome).failed = failed
      /\ Record(outcome).skipped = skipped
      /\ Record(outcome).target = report.target
      /\ Record(outcome).error = report.error
  BY <1>1, <1>4, <1>6, <1>7 DEF Report
<1>10. Total(Record(outcome)) = Total(report) + 1
  BY <1>8, <1>9 DEF Total
<1> QED
  BY <1>9, <1>10 DEF result, results

(* The targets from k on are counted as skipped.                           *)
LEMMA SkippingEffect ==
    ASSUME TypeOK, NEW k \in Nat, k <= Len(targets) + 1
    PROVE  /\ Skipping(k) \in Report
           /\ Total(Skipping(k)) = Total(report) + Len(targets) - k + 1
           /\ Skipping(k).target = report.target
           /\ Skipping(k).error = report.error
<1>1. report \in Report /\ Len(targets) \in Nat
  BY DEF TypeOK, ReportType, RunType
<1>2. report.success \in Nat /\ report.failed \in Nat /\ report.skipped \in Nat
  BY <1>1 DEF Report
<1>3. report.skipped + Len(targets) - k + 1 \in Nat
  BY <1>1, <1>2
<1>4. /\ Skipping(k) \in Report
      /\ Skipping(k).target = report.target
      /\ Skipping(k).error = report.error
      /\ Skipping(k).success = report.success
      /\ Skipping(k).failed = report.failed
      /\ Skipping(k).skipped = report.skipped + Len(targets) - k + 1
  BY <1>1, <1>3 DEF Skipping, Report
<1> QED
  BY <1>1, <1>2, <1>4 DEF Total

(* A report that says canceled counts the same.                            *)
LEMMA CanceledEffect ==
    ASSUME NEW r \in Report
    PROVE  LET s == [r EXCEPT !.canceled = TRUE]
           IN /\ s \in Report /\ Total(s) = Total(r) /\ s.target = r.target
              /\ s.error = r.error /\ s.canceled
BY DEF Report, Total

-----------------------------------------------------------------------------
(* What each step does to the invariant.                                   *)

(* The invariant holds initially.                                          *)
LEMMA InitInv == Init => IInv
<1> SUFFICES ASSUME Init PROVE IInv
  OBVIOUS
<1>1. NoReport \in Report /\ NoReport.error = "none"
  BY EmptyReports
<1>2. NoAuth \in Auth
  BY DEF NoAuth, Auth
<1>3. RunType
  BY <1>2, RunAssumption DEF Init, RunType
<1>4. FlagType
  BY Zenon DEF Init, FlagType
<1>5. ReportType
  BY <1>1 DEF Init, ReportType
<1>6. StatusShape /\ PreparedShape /\ LoopShape /\ TargetShape /\ AuthShape
  BY DEF Init, StatusShape, PreparedShape, LoopShape, TargetShape, AuthShape,
         Preparing, InLoop
<1>7. SentShape /\ OneRequestEach
  BY DEF Init, SentShape, OneRequestEach, InLoop
<1>8. LastShape
  BY <1>1 DEF Init, LastShape, LastCounts, CompleteUnlessSaid, LeftoverReported
<1> QED
  BY <1>3, <1>4, <1>5, <1>6, <1>7, <1>8 DEF IInv, TypeOK

(* A run starts with nothing of the one before it.                         *)
LEMMA StartRunInv ==
    ASSUME IInv, NEW c \in Configs, NEW b \in Bodies, StartRun(c, b)
    PROVE  IInv'
<1> DEFINE empty == EmptyReport(b.dry)
<1>1. /\ pc = "idle" /\ Accepted(b) /\ runs' = runs + 1 /\ cfg' = c
      /\ body' = b /\ report' = empty /\ active' = empty
      /\ auths' = <<>> /\ targets' = <<>> /\ index' = 0 /\ auth' = NoAuth
      /\ answer' = "none" /\ sent' = <<>> /\ pc' = "list" /\ last' = last
  BY DEF StartRun
<1>2. b \in Body /\ b.dry \in BOOLEAN /\ c \in Config
  BY RunAssumption DEF Body
<1>3. /\ empty \in Report /\ Total(empty) = 0 /\ empty.results = <<>>
      /\ empty.error = "" /\ empty.target = 0
      /\ b.dry => empty.dry
  BY <1>2, EmptyReports
<1> HIDE DEF empty
<1>4. NoAuth \in Auth
  BY DEF NoAuth, Auth
<1>5. RunType'
  BY <1>1, <1>2, <1>4 DEF IInv, TypeOK, RunType
<1>6. FlagType' /\ ~lease'
  BY Zenon DEF StartRun, FlagType
<1>7. ReportType'
  BY <1>1, <1>3 DEF IInv, TypeOK, ReportType
<1>8. StatusShape' /\ LoopShape' /\ AuthShape'
  BY <1>1 DEF StatusShape, LoopShape, AuthShape, InLoop
<1>9. PreparedShape'
  BY <1>1, <1>3, <1>6 DEF PreparedShape, Preparing, Total
<1>10. TargetShape'
  BY <1>1 DEF TargetShape, Accepted
<1>11. SentShape' /\ OneRequestEach'
  BY <1>1 DEF SentShape, OneRequestEach, InLoop
<1>12. LastShape'
  BY <1>1 DEF IInv, LastShape, LastCounts, CompleteUnlessSaid,
              LeftoverReported, Total
<1> QED
  BY <1>5, <1>6, <1>7, <1>8, <1>9, <1>10, <1>11, <1>12 DEF IInv, TypeOK

(* finishRun: what is left to show is that the report is a good one.       *)
LEMMA FinishInv ==
    ASSUME IInv, NEW r \in Report, Finish(r), UNCHANGED <<request, sent, lease>>,
           targets' = targets, RunType', FlagType',
           ~r.dry => Total(r) = IF r.error = "duplicate" THEN 0 ELSE r.target,
           r.error = "" /\ ~r.canceled =>
              /\ Len(r.results) = r.target
              /\ \A k \in 1..r.target : r.results[k].index = targets[k].index,
           lease => r.error = "restore"
    PROVE  IInv'
<1>1. report' = r /\ active' = NoReport /\ last' = r /\ pc' = "idle"
  BY DEF Finish
<1>2. ReportType'
  BY <1>1, EmptyReports DEF ReportType
<1>3. StatusShape' /\ PreparedShape' /\ LoopShape' /\ AuthShape'
  BY <1>1 DEF StatusShape, PreparedShape, LoopShape, AuthShape, Preparing,
              InLoop
<1>4. TargetShape'
  BY <1>1 DEF IInv, TargetShape, request, Named
<1>5. SentShape'
  <2>1. cfg' = cfg /\ body' = body /\ sent' = sent /\ pc' \notin InLoop
    BY <1>1 DEF request, InLoop
  <2>2. \A j \in DOMAIN sent :
           /\ AuthEligible(cfg, sent[j]) /\ ~body.dry
           /\ body.given => sent[j].index \in Named(body)
    BY DEF IInv, SentShape
  <2>3. \A j \in DOMAIN sent' :
           /\ AuthEligible(cfg', sent'[j]) /\ ~body'.dry
           /\ body'.given => sent'[j].index \in Named(body')
    BY Zenon, <2>1, <2>2
  <2> QED
    BY Zenon, <2>1, <2>3 DEF SentShape, AuthEligible, Named
<1>6. OneRequestEach'
  BY DEF IInv, OneRequestEach
<1>7. LastCounts'
  BY <1>1 DEF LastCounts, Total
<1>8. CompleteUnlessSaid' /\ LeftoverReported'
  BY <1>1 DEF CompleteUnlessSaid, LeftoverReported
<1> QED
  BY <1>2, <1>3, <1>4, <1>5, <1>6, <1>7, <1>8 DEF IInv, TypeOK, LastShape

(* A step on which the run goes on without ending leaves the last report   *)
(* alone.                                                                  *)
LEMMA LastKept ==
    ASSUME LastShape, last' = last, pc' # "idle"
    PROVE  LastShape'
BY DEF LastShape, LastCounts, CompleteUnlessSaid, LeftoverReported, Total

(* Before the targets are known.                                           *)
LEMMA PreparingInv ==
    ASSUME IInv, pc \in Preparing, pc' \in Preparing, Quiet,
           UNCHANGED <<request, targets, target, canceled, runs, sent>>,
           auths' \in Seq(Auth)
    PROVE  IInv'
<1>1. RunType'
  BY DEF IInv, TypeOK, RunType, Preparing, request, target
<1>2. FlagType' /\ (lease' => lease)
  BY Zenon DEF IInv, TypeOK, FlagType, target
<1>3. ReportType' /\ report' = report /\ active' = active /\ last' = last
  BY DEF IInv, TypeOK, ReportType, Quiet
<1>4. pc # "idle" /\ pc' # "idle" /\ pc' # "selected" /\ pc # "selected"
  BY DEF Preparing
<1>5. StatusShape' /\ LoopShape' /\ AuthShape'
  BY <1>3, <1>4 DEF IInv, StatusShape, LoopShape, AuthShape, InLoop, Preparing
<1>6. PreparedShape'
  BY <1>2, <1>3, <1>4 DEF IInv, PreparedShape, Total, request
<1>7. TargetShape'
  BY <1>4 DEF IInv, TargetShape, request, Named, Accepted
<1>8. SentShape' /\ OneRequestEach'
  <2>1. sent' = <<>> /\ pc' \notin InLoop
    BY DEF IInv, InLoop, Preparing, PreparedShape
  <2> QED
    BY <2>1 DEF SentShape, OneRequestEach
<1>9. LastShape'
  BY <1>3, <1>4, LastKept DEF IInv
<1> QED
  BY <1>1, <1>2, <1>3, <1>5, <1>6, <1>7, <1>8, <1>9 DEF IInv, TypeOK

(* A run that ends before its targets are known says why.                  *)
LEMMA AbortedInv ==
    ASSUME IInv, pc \in Preparing,
           NEW error \in {"listing", "recovery", "relisting"},
           Finish(Aborted(error)),
           UNCHANGED <<request, selection, target, canceled, runs, sent>>
    PROVE  IInv'
<1>1. /\ Aborted(error) \in Report /\ Aborted(error).error = error
      /\ Aborted(error).target = report.target
      /\ Total(Aborted(error)) = Total(report)
  BY AbortedReport DEF IInv, Errors
<1>2. Total(report) = 0 /\ report.target = 0 /\ ~lease
  BY DEF IInv, PreparedShape, Preparing
<1>3. RunType'
  BY DEF IInv, TypeOK, RunType, Finish, request, selection, target
<1>4. FlagType'
  BY Zenon DEF IInv, TypeOK, FlagType, target
<1>5. UNCHANGED <<request, sent, lease>> /\ targets' = targets
  BY DEF target, selection
<1> QED
  BY <1>1, <1>2, <1>3, <1>4, <1>5, FinishInv

(* The listing.                                                            *)
LEMMA ListAuthsInv ==
    ASSUME IInv, NEW from \in {"list", "relist"}, NEW to \in {"recover", "select"},
           NEW error \in {"listing", "relisting"}, ListAuths(from, to, error)
    PROVE  IInv'
<1>1. pc = from /\ pc \in Preparing
  BY DEF ListAuths, Preparing
<1>2. CASE ~canceled /\ auths' \in Listings /\ pc' = to /\ Quiet
  BY <1>1, <1>2, RunAssumption, PreparingInv DEF ListAuths, Preparing
<1>3. CASE Finish(Aborted(error)) /\ UNCHANGED auths
  BY <1>1, <1>3, AbortedInv DEF ListAuths, selection
<1> QED
  BY <1>2, <1>3 DEF ListAuths

(* The scan for raised priorities.                                         *)
LEMMA RecoverInv == IInv /\ Recover => IInv'
<1> SUFFICES ASSUME IInv, Recover PROVE IInv'
  OBVIOUS
<1>1. /\ pc = "recover" /\ pc \in Preparing
      /\ UNCHANGED <<request, selection, target, canceled, runs, sent>>
      /\ UNCHANGED targets /\ auths' \in Seq(Auth)
  BY DEF Recover, Preparing, selection, IInv, TypeOK, RunType
<1>2. CASE pc' \in {"select", "relist"} /\ Quiet
  BY <1>1, <1>2, PreparingInv DEF Preparing
<1>3. CASE Finish(Aborted("recovery"))
  BY <1>1, <1>3, AbortedInv
<1> QED
  BY <1>2, <1>3 DEF Recover

(* The selection of the targets.                                           *)
LEMMA SelectTargetsInv == IInv /\ SelectTargets => IInv'
<1> SUFFICES ASSUME IInv, SelectTargets PROVE IInv'
  OBVIOUS
<1> DEFINE named == IF body.given THEN Named(body) ELSE {}
           r == [report EXCEPT !.target = Len(targets')]
<1>1. /\ pc = "select" /\ pc' = "selected"
      /\ targets' \in FilterAuths(cfg, auths, named)
      /\ report' = r /\ active' = r /\ last' = last
      /\ UNCHANGED <<request, auths, target, canceled, runs, sent>>
  BY DEF SelectTargets, Publish
<1>2. auths \in Seq(Auth) /\ report \in Report
  BY DEF IInv, TypeOK, RunType, ReportType
<1> HIDE DEF named
<1>3. /\ targets' \in Seq(Auth)
      /\ \A k \in DOMAIN targets' : named # {} => targets'[k].index \in named
  BY <1>1, <1>2, FilterSelects
<1>4. Len(targets') \in Nat
  BY <1>3
<1>5. /\ r \in Report /\ Total(r) = Total(report) /\ r.target = Len(targets')
      /\ r.results = report.results /\ r.error = report.error
      /\ report.dry => r.dry
  BY <1>2, <1>4 DEF Report, Total
<1> HIDE DEF r
<1>6. RunType'
  BY <1>1, <1>3 DEF IInv, TypeOK, RunType, request, target
<1>7. FlagType' /\ (lease' => lease)
  BY Zenon, <1>1 DEF IInv, TypeOK, FlagType, target
<1>8. ReportType'
  BY <1>1, <1>5 DEF IInv, TypeOK, ReportType
<1>9. StatusShape' /\ LoopShape' /\ AuthShape'
  BY <1>1 DEF StatusShape, LoopShape, AuthShape, InLoop
<1>10. PreparedShape'
  <2>1. /\ Total(report) = 0 /\ report.results = <<>> /\ report.error = ""
        /\ body.dry => report.dry
        /\ ~lease /\ sent = <<>>
    BY <1>1 DEF IInv, PreparedShape, Preparing
  <2>2. Total(report') = 0
    BY <1>1, <1>5, <2>1
  <2> QED
    BY <1>1, <1>5, <1>7, <2>1, <2>2 DEF PreparedShape, request, Total
<1>11. TargetShape'
  <2>1. Accepted(body)
    BY <1>1 DEF IInv, TargetShape
  <2>2. ASSUME body.given, NEW k \in DOMAIN targets'
        PROVE  targets'[k].index \in Named(body)
    <3>1. 1 \in DOMAIN body.indices
      BY <2>1, <2>2 DEF Accepted, IInv, TypeOK, RunType, Body
    <3>2. body.indices[1] \in Named(body)
      BY <3>1 DEF Named
    <3> QED
      BY <1>3, <2>2, <3>2 DEF named
  <2> QED
    BY <1>1, <2>1, <2>2 DEF TargetShape, request, Accepted, Named
<1>12. SentShape' /\ OneRequestEach'
  <2>1. sent' = <<>> /\ pc' \notin InLoop
    BY <1>1 DEF IInv, InLoop, Preparing, PreparedShape
  <2> QED
    BY <2>1 DEF SentShape, OneRequestEach
<1>13. LastShape'
  BY <1>1, LastKept DEF IInv
<1> QED
  BY <1>6, <1>7, <1>8, <1>9, <1>10, <1>11, <1>12, <1>13 DEF IInv, TypeOK

(* Two targets that are the same credential: the run ends.                 *)
LEMMA DuplicateInv == IInv /\ Duplicate => IInv'
<1> SUFFICES ASSUME IInv, Duplicate PROVE IInv'
  OBVIOUS
<1> DEFINE r == [report EXCEPT !.error = "duplicate"]
<1>1. /\ pc = "selected" /\ Finish(r)
      /\ UNCHANGED <<request, selection, target, canceled, runs, sent>>
  BY DEF Duplicate
<1>2. report \in Report
  BY DEF IInv, TypeOK, ReportType
<1>3. r \in Report /\ r.error = "duplicate" /\ Total(r) = Total(report)
  BY <1>2 DEF Report, Errors, Total
<1> HIDE DEF r
<1>4. Total(report) = 0 /\ ~lease
  BY <1>1 DEF IInv, PreparedShape
<1>5. RunType'
  BY <1>1 DEF IInv, TypeOK, RunType, Finish, request, selection, target
<1>6. FlagType'
  BY Zenon, <1>1 DEF IInv, TypeOK, FlagType, target
<1>7. UNCHANGED <<request, sent, lease>> /\ targets' = targets
  BY <1>1 DEF target, selection
<1> QED
  BY <1>1, <1>3, <1>4, <1>5, <1>6, <1>7, FinishInv

(* A dry run lists the targets.                                            *)
LEMMA DryRunInv == IInv /\ DryRun => IInv'
<1> SUFFICES ASSUME IInv, DryRun PROVE IInv'
  OBVIOUS
<1> DEFINE results == [k \in DOMAIN targets |->
                         [index |-> targets[k].index, outcome |-> "selected"]]
           r == [report EXCEPT !.results = results]
<1>1. /\ pc = "selected" /\ body.dry /\ Finish(r)
      /\ UNCHANGED <<request, selection, target, canceled, runs, sent>>
  BY DEF DryRun
<1>2. report \in Report /\ targets \in Seq(Auth)
  BY DEF IInv, TypeOK, ReportType, RunType
<1>3. \A k \in 1..Len(targets) : targets[k].index \in Nat
  <2>1. \A k \in 1..Len(targets) : targets[k] \in Auth
    BY <1>2
  <2> QED
    BY <2>1 DEF Auth
<1>4. /\ results \in Seq([index : Nat, outcome : Outcomes])
      /\ Len(results) = Len(targets)
      /\ \A k \in 1..Len(targets) : results[k].index = targets[k].index
  <2>1. DOMAIN targets = 1..Len(targets) /\ Len(targets) \in Nat
    BY <1>2
  <2> DEFINE result(k) == [index |-> targets[k].index, outcome |-> "selected"]
  <2>2. \A k \in 1..Len(targets) :
           result(k) \in [index : Nat, outcome : Outcomes]
    BY <1>3 DEF Outcomes
  <2>3. \A k \in 1..Len(targets) : result(k).index = targets[k].index
    OBVIOUS
  <2>4. results = [k \in 1..Len(targets) |-> result(k)]
    BY <2>1
  <2> HIDE DEF results, result
  <2> QED
    BY <2>1, <2>2, <2>3, <2>4
<1> HIDE DEF results
<1>5. /\ r \in Report /\ r.results = results /\ r.target = report.target
      /\ report.dry => r.dry
      /\ r.error = report.error
  BY <1>2, <1>4 DEF Report
<1> HIDE DEF r
<1>6. report.target = Len(targets) /\ report.dry /\ ~lease
  BY <1>1 DEF IInv, PreparedShape
<1>7. RunType'
  BY <1>1 DEF IInv, TypeOK, RunType, Finish, request, selection, target
<1>8. FlagType'
  BY Zenon, <1>1 DEF IInv, TypeOK, FlagType, target
<1>9. UNCHANGED <<request, sent, lease>> /\ targets' = targets
  BY <1>1 DEF target, selection
<1>10. /\ Len(r.results) = r.target
       /\ \A k \in 1..r.target : r.results[k].index = targets[k].index
  BY <1>4, <1>5, <1>6
<1> QED
  BY <1>1, <1>5, <1>6, <1>7, <1>8, <1>9, <1>10, FinishInv

(* A step of the loop that publishes nothing.                              *)
LEMMA LoopGoesOn ==
    ASSUME IInv, pc # "idle", pc' \in InLoop, Quiet,
           UNCHANGED <<request, selection>>,
           RunType', FlagType', LoopShape', AuthShape', SentShape',
           OneRequestEach'
    PROVE  IInv'
<1>1. report' = report /\ active' = active /\ last' = last
  BY DEF Quiet
<1>2. pc' # "idle" /\ pc' \notin Preparing \cup {"selected"}
  BY DEF InLoop, Preparing
<1>3. ReportType' /\ StatusShape' /\ PreparedShape'
  BY <1>1, <1>2 DEF IInv, TypeOK, ReportType, StatusShape, PreparedShape
<1>4. TargetShape'
  BY DEF IInv, TargetShape, request, selection, Named, Accepted
<1>5. LastShape'
  BY <1>1, <1>2, LastKept DEF IInv
<1> QED
  BY <1>3, <1>4, <1>5 DEF IInv, TypeOK

(* Requests that were sent stay as they are.                               *)
LEMMA SentKept ==
    ASSUME IInv, pc \in InLoop, UNCHANGED <<request, selection, sent>>,
           index \in Nat, Reached \in Int, Reached' \in Int,
           Reached <= Reached'
    PROVE  SentShape' /\ OneRequestEach'
<1>1. /\ cfg' = cfg /\ body' = body /\ sent' = sent /\ targets' = targets
  BY DEF request, selection
<1>2. /\ \A j \in DOMAIN sent :
            /\ AuthEligible(cfg, sent[j]) /\ ~body.dry
            /\ body.given => sent[j].index \in Named(body)
      /\ \A j \in DOMAIN sent : \E k \in 1..Reached :
            sent[j].id = targets[k].id /\ sent[j].index = targets[k].index
  BY DEF IInv, SentShape
<1>3. 1..Reached \subseteq 1..Reached'
  OBVIOUS
<1>4. \A j \in DOMAIN sent : \E k \in 1..Reached' :
         sent[j].id = targets[k].id /\ sent[j].index = targets[k].index
  BY <1>2, <1>3
<1> HIDE DEF Reached
<1>5. SentShape'
  BY <1>1, <1>2, <1>4 DEF SentShape, AuthEligible, Named
<1>6. OneRequestEach'
  BY <1>1 DEF IInv, OneRequestEach
<1> QED
  BY <1>5, <1>6

(* Where the loop is,                                                      *)
LEMMA LoopPlace ==
    ASSUME IInv, pc \in InLoop
    PROVE  /\ index \in Nat /\ Len(targets) \in Nat /\ 1 <= index
           /\ index <= Len(targets) + 1
           /\ pc # "loop" => index <= Len(targets)
           /\ Handled \in Nat
<1>1. index \in Nat /\ targets \in Seq(Auth)
  BY DEF IInv, TypeOK, RunType
<1>2. Len(targets) \in Nat
  BY <1>1
<1>3. index \in 1..(Len(targets) + 1) /\ (pc # "loop" => index <= Len(targets))
  BY DEF IInv, LoopShape
<1>4. 1 <= index /\ index <= Len(targets) + 1
  BY <1>1, <1>2, <1>3
<1>5. Handled \in Nat
  BY <1>1, <1>4 DEF Handled
<1> QED
  BY <1>1, <1>2, <1>3, <1>4, <1>5

(* and what the report has by then.                                        *)
LEMMA LoopReport ==
    ASSUME IInv, pc \in InLoop
    PROVE  /\ ~body.dry /\ ~HasDuplicateAuthIdentity(targets)
           /\ report \in Report /\ report.target = Len(targets)
           /\ Len(report.results) = Handled /\ Total(report) = Handled
           /\ \A k \in 1..Handled : report.results[k].index = targets[k].index
           /\ report.error = IF pc = "stop" THEN "restore" ELSE ""
           /\ lease => pc \in {"execute", "restore", "undo", "stop"}
BY DEF IInv, LoopShape, TypeOK, ReportType

(* The loop begins with the first target.                                  *)
LEMMA EnterLoopInv == IInv /\ EnterLoop => IInv'
<1> SUFFICES ASSUME IInv, EnterLoop PROVE IInv'
  OBVIOUS
<1>1. /\ pc = "selected" /\ ~HasDuplicateAuthIdentity(targets) /\ ~body.dry
      /\ index' = 1 /\ pc' = "loop" /\ Quiet
      /\ UNCHANGED <<request, selection, auth, lease, answer, canceled, runs,
                     sent>>
  BY DEF EnterLoop
<1>2. RunType' /\ report' = report
  BY <1>1 DEF IInv, TypeOK, RunType, request, selection, Quiet
<1>3. FlagType' /\ (lease' => lease)
  BY Zenon, <1>1 DEF IInv, TypeOK, FlagType
<1>4. Handled' = 0 /\ Len(targets) \in Nat
  BY <1>1 DEF Handled, IInv, TypeOK, RunType
<1>5. /\ Total(report) = 0 /\ report.results = <<>> /\ report.error = ""
      /\ report.target = Len(targets)
      /\ ~lease /\ sent = <<>>
  BY <1>1 DEF IInv, PreparedShape
<1>6. LoopShape'
  <2>1. /\ ~body'.dry /\ ~HasDuplicateAuthIdentity(targets') /\ targets' = targets
        /\ index' \in 1..(Len(targets) + 1)
    BY <1>1, <1>4 DEF request, selection
  <2>2. /\ Len(report'.results) = Handled' /\ Total(report') = Handled'
        /\ report'.target = Len(targets) /\ report'.error = ""
    BY <1>2, <1>4, <1>5
  <2>3. \A k \in 1..Handled' : report'.results[k].index = targets[k].index
    BY <1>4
  <2> QED
    BY <1>1, <1>3, <1>5, <2>1, <2>2, <2>3
       DEF LoopShape, HasDuplicateAuthIdentity, Total
<1>7. AuthShape' /\ SentShape' /\ OneRequestEach'
  <2>1. sent' = <<>> /\ pc' = "loop"
    BY <1>1, <1>5
  <2> QED
    BY <2>1 DEF AuthShape, SentShape, OneRequestEach
<1> QED
  BY <1>1, <1>2, <1>3, <1>6, <1>7, LoopGoesOn DEF InLoop

(* The head of the loop: all targets done, canceled, or the next one.      *)
LEMMA LoopHeadInv == IInv /\ LoopHead => IInv'
<1> SUFFICES ASSUME IInv, LoopHead PROVE IInv'
  OBVIOUS
<1>1. /\ pc = "loop"
      /\ UNCHANGED <<request, selection, target, canceled, runs, sent>>
  BY DEF LoopHead
<1>2. UNCHANGED <<request, sent, lease>> /\ targets' = targets /\ index' = index
  BY <1>1 DEF target, selection
<1>3. /\ report.target = Len(targets) /\ Total(report) = Handled
      /\ Len(report.results) = Handled
      /\ \A k \in 1..Handled : report.results[k].index = targets[k].index
      /\ report.error = "" /\ ~lease /\ report \in Report
  BY <1>1, LoopReport DEF InLoop
<1>10. /\ index \in Nat /\ Len(targets) \in Nat /\ 1 <= index
       /\ index <= Len(targets) + 1
  BY <1>1, LoopPlace DEF InLoop
<1>9. Handled = index - 1
  BY <1>1 DEF Handled
<1>4. FlagType'
  BY Zenon, <1>1 DEF IInv, TypeOK, FlagType, target
<1>5. pc' \in {"idle", "runtime"} => RunType'
  BY <1>1 DEF IInv, TypeOK, RunType, request, selection, target
<1>6. CASE index > Len(targets) /\ Finish(report)
  <2>1. Handled = Len(targets)
    BY <1>6, <1>9, <1>10
  <2> QED
    BY <1>2, <1>3, <1>4, <1>5, <1>6, <2>1, FinishInv DEF Finish
<1>7. CASE /\ index <= Len(targets)
           /\ Finish([Skipping(index) EXCEPT !.canceled = TRUE])
  <2> DEFINE r == [Skipping(index) EXCEPT !.canceled = TRUE]
  <2>1. /\ Skipping(index) \in Report
        /\ Total(Skipping(index)) = Total(report) + Len(targets) - index + 1
        /\ Skipping(index).target = report.target
        /\ Skipping(index).error = report.error
    BY <1>10, SkippingEffect DEF IInv
  <2>2. /\ r \in Report /\ Total(r) = Total(Skipping(index))
        /\ r.target = report.target /\ r.error = "" /\ r.canceled
    BY <1>3, <2>1, CanceledEffect
  <2>3. Total(r) = r.target
    <3>1. Total(r) = (index - 1) + Len(targets) - index + 1
      BY <1>3, <1>9, <2>1, <2>2
    <3>2. (index - 1) + Len(targets) - index + 1 = Len(targets)
      BY <1>10
    <3> QED
      BY Zenon, <1>3, <2>2, <3>1, <3>2
  <2> HIDE DEF r
  <2>4. Finish(r)
    BY <1>7 DEF r
  <2> QED
    BY <1>2, <1>3, <1>4, <1>5, <2>2, <2>3, <2>4, FinishInv DEF Finish
<1>8. CASE index <= Len(targets) /\ pc' = "runtime" /\ Quiet
  <2>1. LoopShape'
    BY <1>1, <1>2, <1>8 DEF IInv, LoopShape, InLoop, Handled, Quiet, Total,
                            HasDuplicateAuthIdentity, request
  <2>2. AuthShape'
    BY <1>8 DEF AuthShape
  <2>3. SentShape' /\ OneRequestEach'
    <3>1. Reached = index - 1 /\ Reached' = index - 1
      BY <1>1, <1>2, <1>8 DEF Reached
    <3>2. index - 1 \in Int /\ index - 1 <= index - 1
      BY <1>10
    <3> QED
      BY <1>1, <1>2, <1>10, <3>1, <3>2, SentKept DEF InLoop
  <2> QED
    BY <1>1, <1>4, <1>5, <1>8, <2>1, <2>2, <2>3, LoopGoesOn DEF InLoop
<1> QED
  BY <1>6, <1>7, <1>8 DEF LoopHead

(* The entries of a report.                                                *)
Result == [index : Nat, outcome : Outcomes]

(* Numbers of the loop, free of the records around them.                   *)
LEMMA OneMore ==
    ASSUME NEW i \in Nat, NEW n \in Nat, 1 <= i, i <= n
    PROVE  /\ (i - 1) + 1 = i /\ i \in 1..(n + 1)
           /\ i \in Int /\ i - 1 \in Int /\ i - 1 <= i /\ i <= i
           /\ i \in 1..n
           /\ \A k \in 1..i : k = i \/ k \in 1..(i - 1)
OBVIOUS

(* The target the loop is at has an index.                                 *)
LEMMA TargetIndex ==
    ASSUME IInv, pc \in {"runtime", "begin", "restore", "undo"}
    PROVE  targets[index].index \in Nat
<1>1. targets \in Seq(Auth)
  BY DEF IInv, TypeOK, RunType
<1>2. index \in 1..Len(targets)
  BY LoopPlace DEF InLoop
<1>3. targets[index] \in Auth
  BY <1>1, <1>2
<1> QED
  BY <1>3 DEF Auth

(* The report r is the run's report with the result of one more target.    *)
OneMoreResult(r, outcome) ==
    /\ r.results = Append(report.results, [index |-> targets[index].index,
                                           outcome |-> outcome])
    /\ Total(r) = Total(report) + 1 /\ r.target = report.target
    /\ r.error = IF pc' = "stop" THEN "restore" ELSE ""

(* The result of the target the loop is at is published.                   *)
LEMMA LoopRecords ==
    ASSUME IInv, pc \in {"runtime", "begin", "restore", "undo"},
           pc' \in {"wait", "stop"}, NEW outcome \in Outcomes,
           NEW r \in Report, Publish(r),
           OneMoreResult(r, outcome),
           UNCHANGED <<request, selection, index, sent>>,
           lease' => pc' = "stop", RunType', FlagType'
    PROVE  IInv'
<1> DEFINE result == [index |-> targets[index].index, outcome |-> outcome]
<1>1. /\ report' = r /\ active' = r /\ last' = last /\ targets' = targets
      /\ body' = body /\ index' = index
  BY DEF Publish, selection, request
<1>2. /\ ~body.dry /\ ~HasDuplicateAuthIdentity(targets)
      /\ report.target = Len(targets)
      /\ Len(report.results) = Handled /\ Total(report) = Handled
      /\ \A k \in 1..Handled : report.results[k].index = targets[k].index
  BY LoopReport DEF InLoop
<1>11. /\ 1 <= index /\ index <= Len(targets)
       /\ index \in Nat /\ Len(targets) \in Nat
  BY LoopPlace DEF InLoop
<1>0. Handled = index - 1
  BY DEF Handled
<1>3. report.results \in Seq(Result)
  BY DEF IInv, TypeOK, ReportType, Report, Result
<1>4. Handled' = index /\ pc' # "idle" /\ pc' # "loop"
      /\ pc' \notin Preparing \cup {"selected"}
  BY <1>1 DEF Handled, Preparing
<1>5. /\ Len(r.results) = index
      /\ \A k \in 1..index : r.results[k].index = targets[k].index
  <2>1. result.index = targets[index].index
    OBVIOUS
  <2> HIDE DEF result
  <2>2. r.results = Append(report.results, result)
    BY DEF result, OneMoreResult
  <2>3. result \in Result
    <3>1. targets[index].index \in Nat
      BY TargetIndex
    <3> QED
      BY <3>1 DEF result, Result
  <2>4. Len(report.results) = index - 1
    BY <1>0, <1>2
  <2>6. /\ Len(r.results) = index /\ r.results[index] = result
        /\ \A k \in 1..(index - 1) : r.results[k] = report.results[k]
    <3>1. PICK old \in Seq(Result), e \in Result, i \in Nat :
             old = report.results /\ e = result /\ i = index
      BY Zenon, <1>3, <1>11, <2>3
    <3>2. r.results = Append(old, e)
      BY Zenon, <2>2, <3>1
    <3>4. 1 <= i /\ Len(old) = i - 1
      BY Zenon, <1>11, <2>4, <3>1
    <3>3. /\ Len(Append(old, e)) = i /\ Append(old, e)[i] = e
          /\ \A k \in 1..(i - 1) : Append(old, e)[k] = old[k]
      <4>1. Len(Append(old, e)) = i
        BY <3>4
      <4>2. Append(old, e)[i] = e
        BY <3>4
      <4>3. \A k \in 1..(i - 1) : Append(old, e)[k] = old[k]
        BY <3>4
      <4> QED
        BY Zenon, <4>1, <4>2, <4>3
    <3> QED
      BY Zenon, <3>1, <3>2, <3>3
  <2>7. \A k \in 1..index : k = index \/ k \in 1..(index - 1)
    BY Zenon, <1>11, OneMore
  <2> QED
    BY Zenon, <1>0, <1>2, <2>1, <2>6, <2>7
<1>6. LoopShape'
  <2>1. Total(report') = index /\ report'.target = Len(targets)
    <3>1. Total(r) = (index - 1) + 1
      BY <1>0, <1>2 DEF OneMoreResult
    <3>2. (index - 1) + 1 = index
      BY Zenon, <1>11, OneMore
    <3> QED
      BY Zenon, <1>1, <1>2, <3>1, <3>2 DEF OneMoreResult
  <2>5. index \in 1..(Len(targets) + 1)
    BY Zenon, <1>11, OneMore
  <2>2. pc' \in {"wait", "stop"} /\ (lease' => pc' = "stop")
    OBVIOUS
  <2>3. HasDuplicateAuthIdentity(targets)' = HasDuplicateAuthIdentity(targets)
    BY <1>1 DEF HasDuplicateAuthIdentity
  <2>6. r.error = IF pc' = "stop" THEN "restore" ELSE ""
    BY DEF OneMoreResult
  <2>4. Total(report)' = index
    BY <2>1 DEF Total
  <2> QED
    BY <1>1, <1>2, <1>4, <1>5, <1>11, <2>1, <2>2, <2>3, <2>4, <2>5, <2>6
       DEF LoopShape
<1>7. ReportType' /\ StatusShape' /\ PreparedShape' /\ AuthShape'
  BY <1>1, <1>4 DEF IInv, TypeOK, ReportType, StatusShape, PreparedShape,
                    AuthShape
<1>8. TargetShape'
  BY <1>1 DEF IInv, TargetShape, Named, Accepted
<1>9. SentShape' /\ OneRequestEach'
  <2>1. Reached \in {index, index - 1} /\ Reached' = index
    BY <1>1 DEF Reached
  <2>2. Reached \in Int /\ Reached' \in Int /\ Reached <= Reached'
    BY Zenon, <1>11, <2>1, OneMore
  <2> QED
    BY <1>11, <2>2, SentKept DEF InLoop
<1>10. LastShape'
  BY <1>1, <1>4, LastKept DEF IInv
<1> QED
  BY <1>6, <1>7, <1>8, <1>9, <1>10 DEF IInv, TypeOK

(* The result alone is published.                                          *)
LEMMA RecordsInv ==
    ASSUME IInv, pc \in {"runtime", "begin", "restore", "undo"}, pc' = "wait",
           NEW outcome \in {"succeeded", "failed", "skipped"},
           Publish(Record(outcome)),
           UNCHANGED <<request, selection, index, sent>>, ~lease',
           RunType', FlagType'
    PROVE  IInv'
<1>0. index \in 1..Len(targets)
  BY LoopPlace DEF InLoop
<1>1. report.error = ""
  BY LoopReport DEF InLoop
<1>2. /\ Record(outcome) \in Report
      /\ Record(outcome).results =
            Append(report.results, [index |-> targets[index].index,
                                    outcome |-> outcome])
      /\ Total(Record(outcome)) = Total(report) + 1
      /\ Record(outcome).target = report.target
      /\ Record(outcome).error = ""
  BY <1>0, <1>1, RecordEffect DEF IInv
<1>3. outcome \in Outcomes
  BY DEF Outcomes
<1> QED
  BY <1>2, <1>3, LoopRecords DEF OneMoreResult

(* The runtime record of the target cannot be had.                         *)
LEMMA RuntimeFailsInv == IInv /\ RuntimeFails => IInv'
<1> SUFFICES ASSUME IInv, RuntimeFails PROVE IInv'
  OBVIOUS
<1>1. /\ pc = "runtime" /\ Publish(Record("failed")) /\ pc' = "wait"
      /\ UNCHANGED <<request, selection, target, canceled, runs, sent>>
  BY DEF RuntimeFails
<1>2. RunType'
  BY <1>1 DEF IInv, TypeOK, RunType, request, selection, target
<1>3. FlagType' /\ ~lease
  <2>1. ~lease
    BY <1>1, LoopReport DEF InLoop
  <2> QED
    BY Zenon, <1>1, <2>1 DEF IInv, TypeOK, FlagType, target
<1>4. UNCHANGED <<request, selection, index, sent>> /\ ~lease'
  BY <1>1, <1>3 DEF target
<1> QED
  BY <1>1, <1>2, <1>3, <1>4, RecordsInv

(* A step of the loop that changes only where it is with a target.         *)
LEMMA SameTarget ==
    ASSUME IInv, pc \in InLoop, pc' \in {"begin", "execute", "undo", "restore"},
           pc # "loop", pc \notin {"stop", "wait", "restore"},
           Quiet, UNCHANGED <<request, selection, index>>
    PROVE  (lease' => pc' # "begin") => LoopShape'
<1>1. /\ report' = report /\ targets' = targets /\ body' = body
      /\ index' = index
  BY DEF Quiet, request, selection
<1>2. Handled = index - 1 /\ Handled' = index - 1
  BY <1>1 DEF Handled, InLoop
<1>3. /\ HasDuplicateAuthIdentity(targets)' = HasDuplicateAuthIdentity(targets)
      /\ Total(report)' = Total(report)
  BY <1>1 DEF HasDuplicateAuthIdentity, Total
<1>4. pc # "stop" /\ pc' # "stop" /\ pc' # "loop"
  OBVIOUS
<1>5. /\ ~body.dry /\ ~HasDuplicateAuthIdentity(targets)
      /\ index \in 1..(Len(targets) + 1)
      /\ index <= Len(targets)
      /\ report.target = Len(targets)
      /\ Len(report.results) = Handled /\ Total(report) = Handled
      /\ \A k \in 1..Handled : report.results[k].index = targets[k].index
      /\ report.error = ""
  BY <1>4 DEF IInv, LoopShape
<1> QED
  BY <1>1, <1>2, <1>3, <1>4, <1>5 DEF LoopShape

(* The runtime record is read: it is the target's, and it passes the       *)
(* filters or the target is skipped.                                       *)
LEMMA GetRuntimeAuthInv ==
    ASSUME IInv, NEW a \in Runtimes, GetRuntimeAuth(a) PROVE IInv'
<1>1. /\ pc = "runtime" /\ SameCredential(a) /\ auth' = a
      /\ UNCHANGED <<request, selection, index, lease, answer, canceled, runs,
                     sent>>
  BY DEF GetRuntimeAuth
<1>2. pc' \in {"begin", "wait"} => RunType'
  <2>1. a \in Auth
    BY RunAssumption
  <2> QED
    BY <1>1, <2>1 DEF IInv, TypeOK, RunType, request, selection
<1>3. FlagType' /\ ~lease' /\ ~lease
  <2>1. ~lease
    BY <1>1, LoopReport DEF InLoop
  <2> QED
    BY Zenon, <1>1, <2>1 DEF IInv, TypeOK, FlagType
<1>4. CASE Publish(Record("skipped")) /\ pc' = "wait"
  BY <1>1, <1>2, <1>3, <1>4, RecordsInv
<1>5. CASE AuthEligible(cfg, a) /\ pc' = "begin" /\ Quiet
  <2>1. LoopShape'
    BY <1>1, <1>3, <1>5, SameTarget DEF InLoop
  <2>2. AuthShape'
    BY <1>1, <1>5 DEF AuthShape, SameCredential, AuthEligible, request, selection
  <2>3. SentShape' /\ OneRequestEach'
    <3>1. Reached = index - 1 /\ Reached' = index - 1
      BY <1>1, <1>5 DEF Reached
    <3>2. index \in Nat /\ index - 1 \in Int /\ index - 1 <= index - 1
      BY <1>1, LoopPlace DEF InLoop
    <3> QED
      BY <1>1, <3>1, <3>2, SentKept DEF InLoop
  <2> QED
    BY <1>1, <1>2, <1>3, <1>5, <2>1, <2>2, <2>3, LoopGoesOn DEF InLoop
<1> QED
  BY <1>4, <1>5 DEF GetRuntimeAuth

(* The priority is raised, or need not be, or cannot be.                   *)
LEMMA BeginInv == IInv /\ Begin => IInv'
<1> SUFFICES ASSUME IInv, Begin PROVE IInv'
  OBVIOUS
<1>1. /\ pc = "begin"
      /\ UNCHANGED <<request, selection, index, auth, answer, canceled, runs,
                     sent>>
  BY DEF Begin
<1>2. pc' \in {"execute", "undo", "wait"} => RunType'
  BY <1>1 DEF IInv, TypeOK, RunType, request, selection
<1>3. ~lease
  BY <1>1, LoopReport DEF InLoop
<1>4. lease' \in BOOLEAN => FlagType'
  BY Zenon, <1>1 DEF IInv, TypeOK, FlagType
<1>5. CASE Publish(Record("failed")) /\ pc' = "wait" /\ UNCHANGED lease
  <2>1. ~lease' /\ lease' \in BOOLEAN
    BY Zenon, <1>3, <1>5 DEF IInv, TypeOK, FlagType
  <2> QED
    BY <1>1, <1>2, <1>4, <1>5, <2>1, RecordsInv
<1>6. CASE pc' \in {"execute", "undo"} /\ Quiet /\ lease' \in BOOLEAN
  <2>1. LoopShape'
    BY <1>1, <1>6, SameTarget DEF InLoop
  <2>2. AuthShape'
    BY <1>1, <1>6 DEF IInv, AuthShape, SameCredential, AuthEligible, request,
                      selection
  <2>3. SentShape' /\ OneRequestEach'
    <3>1. Reached = index - 1 /\ Reached' = index - 1
      BY <1>1, <1>6 DEF Reached
    <3>2. index \in Nat /\ index - 1 \in Int /\ index - 1 <= index - 1
      BY <1>1, LoopPlace DEF InLoop
    <3> QED
      BY <1>1, <3>1, <3>2, SentKept DEF InLoop
  <2> QED
    BY <1>1, <1>2, <1>4, <1>6, <2>1, <2>2, <2>3, LoopGoesOn DEF InLoop
<1>7. \/ Publish(Record("failed")) /\ pc' = "wait" /\ UNCHANGED lease
      \/ pc' \in {"execute", "undo"} /\ Quiet /\ lease' = TRUE
      \/ pc' \in {"execute", "undo"} /\ Quiet /\ UNCHANGED lease
  BY DEF Begin
<1>8. lease \in BOOLEAN /\ TRUE \in BOOLEAN
  BY DEF IInv, TypeOK, FlagType
<1> QED
  BY Zenon, <1>5, <1>6, <1>7, <1>8

(* Sent credentials and targets: a request to a target that the loop was   *)
(* not at before goes to a credential that had none.                       *)
LEMMA NewCredential ==
    ASSUME NEW s \in Seq(Auth), NEW t \in Seq(Auth), NEW i \in 1..Len(t),
           NEW a \in Auth, ~HasDuplicateAuthIdentity(t),
           a.index = t[i].index, a.id = t[i].id,
           \A j \in DOMAIN s : \E k \in 1..(i - 1) :
              s[j].id = t[k].id /\ s[j].index = t[k].index
    PROVE  \A j \in DOMAIN s : s[j].id # a.id /\ s[j].index # a.index
<1> TAKE j \in DOMAIN s
<1>1. PICK k \in 1..(i - 1) : s[j].id = t[k].id /\ s[j].index = t[k].index
  OBVIOUS
<1>2. i \in Nat /\ Len(t) \in Nat /\ DOMAIN t = 1..Len(t)
  OBVIOUS
<1>3. k \in 1..Len(t) /\ k < i
  BY <1>1, <1>2
<1>4. t[k].id # t[i].id /\ t[k].index # t[i].index
  BY <1>2, <1>3 DEF HasDuplicateAuthIdentity
<1> QED
  BY <1>1, <1>4

(* ExecutePinned: the request goes to the target, with the runtime record  *)
(* that passed the filters.                                                *)
LEMMA ExecuteInv == IInv /\ Execute => IInv'
<1> SUFFICES ASSUME IInv, Execute PROVE IInv'
  OBVIOUS
<1>1. /\ pc = "execute" /\ pc' = "restore" /\ Quiet
      /\ UNCHANGED <<request, selection, index, auth, lease, canceled, runs>>
  BY DEF Execute
<1>2. sent' = sent \/ sent' = Append(sent, auth)
  BY DEF Execute
<1>3. /\ auth \in Auth /\ sent \in Seq(Auth) /\ targets \in Seq(Auth)
      /\ answer' \in {"none", "2xx", "other", "error"}
  BY DEF Execute, IInv, TypeOK, RunType
<1>4. sent' \in Seq(Auth)
  BY <1>2, <1>3
<1>5. RunType'
  BY <1>1, <1>3, <1>4 DEF IInv, TypeOK, RunType, request, selection
<1>6. FlagType'
  BY Zenon, <1>1 DEF IInv, TypeOK, FlagType
<1>7. LoopShape'
  BY <1>1, SameTarget DEF InLoop
<1>8. AuthShape'
  BY <1>1 DEF AuthShape
<1>9. /\ index \in Nat /\ 1 <= index /\ index <= Len(targets)
      /\ Len(targets) \in Nat
  BY <1>1, LoopPlace DEF InLoop
<1>10. Reached = index - 1 /\ Reached' = index
  BY <1>1 DEF Reached
<1>11. CASE sent' = sent
  <2>1. Reached \in Int /\ Reached' \in Int /\ Reached <= Reached'
    BY <1>9, <1>10
  <2>2. SentShape' /\ OneRequestEach'
    BY <1>1, <1>9, <1>11, <2>1, SentKept DEF InLoop
  <2> QED
    BY <1>1, <1>5, <1>6, <1>7, <1>8, <2>2, LoopGoesOn DEF InLoop
<1>12. CASE sent' = Append(sent, auth)
  <2>1. /\ AuthEligible(cfg, auth)
        /\ auth.index = targets[index].index /\ auth.id = targets[index].id
    BY <1>1 DEF IInv, AuthShape, SameCredential
  <2>2. index \in 1..Len(targets) /\ index \in DOMAIN targets
    BY <1>3, <1>9
  <2>3. ~body.dry /\ ~HasDuplicateAuthIdentity(targets)
    BY <1>1, LoopReport DEF InLoop
  <2>4. body.given => auth.index \in Named(body)
    BY <2>1, <2>2 DEF IInv, TargetShape
  <2>5. /\ \A j \in DOMAIN sent :
              /\ AuthEligible(cfg, sent[j]) /\ ~body.dry
              /\ body.given => sent[j].index \in Named(body)
        /\ \A j \in DOMAIN sent : \E k \in 1..(index - 1) :
              sent[j].id = targets[k].id /\ sent[j].index = targets[k].index
    BY <1>1, <1>10 DEF IInv, SentShape, InLoop
  <2>6. \A j \in DOMAIN sent : sent[j].id # auth.id /\ sent[j].index # auth.index
    BY <1>3, <2>1, <2>2, <2>3, <2>5, NewCredential
  <2>7. PICK n \in Nat :
           /\ DOMAIN sent = 1..n /\ DOMAIN sent' = 1..(n + 1)
           /\ sent'[n + 1] = auth
           /\ \A j \in 1..n : sent'[j] = sent[j]
    <3>1. Len(sent) \in Nat /\ DOMAIN sent = 1..Len(sent)
      BY <1>3
    <3>2. /\ DOMAIN sent' = 1..(Len(sent) + 1)
          /\ sent'[Len(sent) + 1] = auth
          /\ \A j \in 1..Len(sent) : sent'[j] = sent[j]
      BY <1>3, <1>12
    <3> QED
      BY <3>1, <3>2
  <2>8. \A j \in 1..(n + 1) : j = n + 1 \/ j \in 1..n
    OBVIOUS
  <2>9. \A j \in DOMAIN sent' : sent'[j] = auth \/ (j \in DOMAIN sent /\ sent'[j] = sent[j])
    BY <2>7, <2>8
  <2>10. SentShape'
    <3>1. cfg' = cfg /\ body' = body /\ targets' = targets
      BY <1>1 DEF request, selection
    <3>2. \A j \in DOMAIN sent' :
             /\ AuthEligible(cfg, sent'[j]) /\ ~body.dry
             /\ body.given => sent'[j].index \in Named(body)
      BY <2>1, <2>3, <2>4, <2>5, <2>9
    <3>3. \A j \in DOMAIN sent' : \E k \in 1..Reached' :
             sent'[j].id = targets[k].id /\ sent'[j].index = targets[k].index
      <4>1. index \in 1..index /\ 1..(index - 1) \subseteq 1..index
        BY <1>9
      <4> QED
        BY <1>10, <2>1, <2>5, <2>9, <4>1
    <3> HIDE DEF Reached
    <3> QED
      BY <3>1, <3>2, <3>3 DEF SentShape, AuthEligible, Named
  <2>11. OneRequestEach'
    <3> SUFFICES ASSUME NEW j \in 1..(n + 1), NEW k \in 1..(n + 1), j # k
                 PROVE  sent'[j].id # sent'[k].id /\ sent'[j].index # sent'[k].index
      BY <2>7 DEF OneRequestEach
    <3>1. CASE j \in 1..n /\ k \in 1..n
      BY <2>7, <3>1 DEF IInv, OneRequestEach
    <3>2. CASE j = n + 1 /\ k \in 1..n
      BY <2>6, <2>7, <3>2
    <3>3. CASE k = n + 1 /\ j \in 1..n
      BY <2>6, <2>7, <3>3
    <3> QED
      BY <2>8, <3>1, <3>2, <3>3
  <2> QED
    BY <1>1, <1>5, <1>6, <1>7, <1>8, <2>10, <2>11, LoopGoesOn DEF InLoop
<1> QED
  BY <1>2, <1>11, <1>12

(* The priority is restored and the result published, or the run stops.    *)
LEMMA RestoreInv == IInv /\ Restore => IInv'
<1> SUFFICES ASSUME IInv, Restore PROVE IInv'
  OBVIOUS
<1>1. PICK outcome \in {"succeeded", "failed"} : RestorePriorityOverride(outcome)
  BY DEF Restore
<1>2. /\ pc \in {"restore", "undo"}
      /\ UNCHANGED <<request, selection, index, auth, answer, canceled, runs,
                     sent>>
  BY DEF Restore
<1>3. pc' \in {"wait", "stop"} => RunType'
  BY <1>2 DEF IInv, TypeOK, RunType, request, selection
<1>4. lease' \in BOOLEAN => FlagType'
  BY Zenon, <1>2 DEF IInv, TypeOK, FlagType
<1>5. CASE lease' = FALSE /\ Publish(Record(outcome)) /\ pc' = "wait"
  BY <1>2, <1>3, <1>4, <1>5, RecordsInv
<1>6. CASE /\ UNCHANGED lease
           /\ Publish([Record("failed") EXCEPT !.error = "restore"])
           /\ pc' = "stop"
  <2> DEFINE r == [Record("failed") EXCEPT !.error = "restore"]
  <2>1. index \in 1..Len(targets)
    BY <1>2, LoopPlace DEF InLoop
  <2>2. /\ Record("failed") \in Report
        /\ Record("failed").results =
              Append(report.results, [index |-> targets[index].index,
                                      outcome |-> "failed"])
        /\ Total(Record("failed")) = Total(report) + 1
        /\ Record("failed").target = report.target
    BY <2>1, RecordEffect DEF IInv
  <2>3. /\ r \in Report /\ r.results = Record("failed").results
        /\ Total(r) = Total(Record("failed"))
        /\ r.target = Record("failed").target /\ r.error = "restore"
    BY <2>2 DEF Report, Total, Errors
  <2> HIDE DEF r
  <2>4. OneMoreResult(r, "failed")
    BY <1>6, <2>2, <2>3 DEF OneMoreResult
  <2>5. lease' \in BOOLEAN
    BY Zenon, <1>6 DEF IInv, TypeOK, FlagType
  <2>6. Publish(r)
    BY <1>6 DEF r
  <2> QED
    BY <1>2, <1>3, <1>4, <1>6, <2>3, <2>4, <2>5, <2>6, LoopRecords DEF Outcomes
<1> QED
  BY <1>1, <1>5, <1>6 DEF RestorePriorityOverride

(* All targets after the one the loop is at are skipped.                   *)
LEMMA SkipRest ==
    ASSUME IInv, pc \in {"stop", "wait"}
    PROVE  /\ Skipping(index + 1) \in Report
           /\ Total(Skipping(index + 1)) = Skipping(index + 1).target
           /\ Skipping(index + 1).error = report.error
<1>1. /\ index \in Nat /\ 1 <= index /\ index <= Len(targets)
      /\ Len(targets) \in Nat
  BY LoopPlace DEF InLoop
<1>2. report.target = Len(targets) /\ Total(report) = index
  BY LoopReport DEF InLoop, Handled
<1>3. index + 1 \in Nat /\ index + 1 <= Len(targets) + 1
  BY <1>1
<1>4. /\ Skipping(index + 1) \in Report
      /\ Total(Skipping(index + 1)) =
            Total(report) + Len(targets) - (index + 1) + 1
      /\ Skipping(index + 1).target = report.target
      /\ Skipping(index + 1).error = report.error
  BY <1>3, SkippingEffect DEF IInv
<1>5. index + Len(targets) - (index + 1) + 1 = Len(targets)
  BY <1>1
<1> QED
  BY Zenon, <1>2, <1>4, <1>5

(* The run stops after a restore that failed, and says so.                 *)
LEMMA StopInv == IInv /\ Stop => IInv'
<1> SUFFICES ASSUME IInv, Stop PROVE IInv'
  OBVIOUS
<1>1. /\ pc = "stop" /\ Finish(Skipping(index + 1))
      /\ UNCHANGED <<request, selection, target, canceled, runs, sent>>
  BY DEF Stop
<1>2. PICK r \in Report : /\ r = Skipping(index + 1) /\ Total(r) = r.target
                          /\ r.error = report.error
  BY <1>1, SkipRest
<1>3. r.error = "restore"
  BY <1>1, <1>2, LoopReport DEF InLoop
<1>4. RunType'
  BY <1>1 DEF IInv, TypeOK, RunType, Finish, request, selection, target
<1>5. FlagType'
  BY Zenon, <1>1 DEF IInv, TypeOK, FlagType, target
<1>6. UNCHANGED <<request, sent, lease>> /\ targets' = targets /\ Finish(r)
  BY <1>1, <1>2 DEF target, selection
<1> QED
  BY <1>2, <1>3, <1>4, <1>5, <1>6, FinishInv

(* Between two targets: canceled, or on to the next.                       *)
LEMMA WaitInv == IInv /\ Wait => IInv'
<1> SUFFICES ASSUME IInv, Wait PROVE IInv'
  OBVIOUS
<1>1. /\ pc = "wait"
      /\ UNCHANGED <<request, selection, auth, lease, answer, canceled, runs,
                     sent>>
  BY DEF Wait
<1>2. report.error = "" /\ ~lease
  BY <1>1, LoopReport DEF InLoop
<1>3. FlagType'
  BY Zenon, <1>1 DEF IInv, TypeOK, FlagType
<1>4. /\ index \in Nat /\ 1 <= index /\ index <= Len(targets)
      /\ Len(targets) \in Nat
  BY <1>1, LoopPlace DEF InLoop
<1>5. CASE /\ UNCHANGED index
           /\ Finish([Skipping(index + 1) EXCEPT !.canceled = TRUE])
  <2>1. PICK r0 \in Report : /\ r0 = Skipping(index + 1)
                             /\ Total(r0) = r0.target /\ r0.error = ""
    BY <1>1, <1>2, SkipRest
  <2> DEFINE r == [r0 EXCEPT !.canceled = TRUE]
  <2>2. /\ r \in Report /\ Total(r) = r.target /\ r.error = "" /\ r.canceled
    BY <2>1, CanceledEffect
  <2>3. Finish(r)
    BY <1>5, <2>1
  <2> HIDE DEF r
  <2>4. RunType'
    BY <1>1, <1>5, <2>3 DEF IInv, TypeOK, RunType, Finish, request, selection
  <2>5. UNCHANGED <<request, sent, lease>> /\ targets' = targets
    BY <1>1 DEF selection
  <2> QED
    BY <1>2, <1>3, <2>2, <2>3, <2>4, <2>5, FinishInv
<1>6. CASE index' = index + 1 /\ pc' = "loop" /\ Quiet
  <2>1. index' \in Nat /\ index' \in 1..(Len(targets) + 1) /\ index' - 1 = index
    BY <1>4, <1>6
  <2>2. RunType'
    BY <1>1, <1>6, <2>1 DEF IInv, TypeOK, RunType, request, selection
  <2>3. LoopShape'
    <3>1. /\ report' = report /\ targets' = targets /\ body' = body
      BY <1>1, <1>6 DEF Quiet, request, selection
    <3>2. Handled = index /\ Handled' = index
      BY <1>1, <1>6, <2>1 DEF Handled
    <3>3. /\ HasDuplicateAuthIdentity(targets)' = HasDuplicateAuthIdentity(targets)
          /\ Total(report)' = Total(report)
      BY <3>1 DEF HasDuplicateAuthIdentity, Total
    <3>4. /\ ~body.dry /\ ~HasDuplicateAuthIdentity(targets)
          /\ report.target = Len(targets)
          /\ Len(report.results) = index /\ Total(report) = index
          /\ \A k \in 1..index : report.results[k].index = targets[k].index
      BY <1>1, <3>2, LoopReport DEF InLoop
    <3>5. ~lease'
      BY Zenon, <1>1, <1>2
    <3> QED
      BY <1>2, <1>6, <2>1, <3>1, <3>2, <3>3, <3>4, <3>5 DEF LoopShape
  <2>4. AuthShape'
    BY <1>6 DEF AuthShape
  <2>5. SentShape' /\ OneRequestEach'
    <3>1. Reached = index /\ Reached' = index
      BY <1>1, <1>6, <2>1 DEF Reached
    <3>2. index \in Int /\ index <= index
      BY <1>4
    <3> QED
      BY <1>1, <1>4, <3>1, <3>2, SentKept DEF InLoop
  <2> QED
    BY <1>1, <1>3, <1>6, <2>2, <2>3, <2>4, <2>5, LoopGoesOn DEF InLoop
<1> QED
  BY <1>5, <1>6 DEF Wait

(* A step that changes at most whether the run is canceled.                *)
LEMMA Unseen ==
    ASSUME IInv, FlagType',
           UNCHANGED <<pc, request, selection, target, report, active, last,
                       runs, sent>>
    PROVE  IInv'
<1>1. /\ pc' = pc /\ cfg' = cfg /\ body' = body /\ auths' = auths
      /\ targets' = targets /\ index' = index /\ auth' = auth
      /\ lease' = lease /\ answer' = answer
      /\ report' = report /\ active' = active /\ last' = last
      /\ runs' = runs /\ sent' = sent
  BY DEF request, selection, target
<1>2. RunType' /\ ReportType'
  BY <1>1 DEF IInv, TypeOK, RunType, ReportType
<1>3. StatusShape' /\ PreparedShape' /\ LastShape'
  BY <1>1 DEF IInv, StatusShape, PreparedShape, LastShape, LastCounts,
              CompleteUnlessSaid, LeftoverReported, Total
<1>4. LoopShape'
  <2>1. Handled' = Handled
    BY <1>1 DEF Handled
  <2> QED
    BY <1>1, <2>1 DEF IInv, LoopShape, HasDuplicateAuthIdentity, Total
<1>5. TargetShape' /\ AuthShape'
  BY <1>1 DEF IInv, TargetShape, AuthShape, Accepted, Named, AuthEligible,
              SameCredential
<1>6. SentShape' /\ OneRequestEach'
  <2>1. Reached' = Reached
    BY <1>1 DEF Reached
  <2> QED
    BY <1>1, <2>1 DEF IInv, SentShape, OneRequestEach, AuthEligible, Named
<1> QED
  BY <1>2, <1>3, <1>4, <1>5, <1>6 DEF IInv, TypeOK

(* The context of the run is canceled.                                     *)
LEMMA CancelInv == IInv /\ Cancel => IInv'
<1> SUFFICES ASSUME IInv, Cancel PROVE IInv'
  OBVIOUS
<1>1. canceled' \in BOOLEAN
  BY DEF Cancel
<1>2. UNCHANGED <<pc, request, selection, target, report, active, last, runs,
                  sent>>
  BY DEF Cancel
<1>3. FlagType'
  BY Zenon, <1>1, <1>2 DEF IInv, TypeOK, FlagType, target
<1> QED
  BY <1>2, <1>3, Unseen

(* Each step keeps the invariant.                                          *)
LEMMA NextInv == IInv /\ [Next]_vars => IInv'
<1> SUFFICES ASSUME IInv, [Next]_vars PROVE IInv'
  OBVIOUS
<1>1. ASSUME NEW c \in Configs, NEW b \in Bodies, StartRun(c, b) PROVE IInv'
  BY <1>1, StartRunInv
<1>2. CASE ListAuths("list", "recover", "listing")
  BY <1>2, ListAuthsInv
<1>3. CASE ListAuths("relist", "select", "relisting")
  BY <1>3, ListAuthsInv
<1>4. ASSUME NEW a \in Runtimes, GetRuntimeAuth(a) PROVE IInv'
  BY <1>4, GetRuntimeAuthInv
<1>5. CASE Recover \/ SelectTargets \/ Duplicate \/ DryRun \/ EnterLoop
  BY <1>5, RecoverInv, SelectTargetsInv, DuplicateInv, DryRunInv, EnterLoopInv
<1>6. CASE LoopHead \/ RuntimeFails \/ Begin \/ Execute \/ Restore \/ Stop
           \/ Wait \/ Cancel
  BY <1>6, LoopHeadInv, RuntimeFailsInv, BeginInv, ExecuteInv, RestoreInv,
     StopInv, WaitInv, CancelInv
<1>7. CASE UNCHANGED vars
  <2>1. UNCHANGED <<pc, request, selection, target, report, active, last, runs,
                    sent>>
    BY <1>7 DEF vars, request, selection, target
  <2>2. FlagType'
    BY Zenon, <1>7 DEF IInv, TypeOK, FlagType, vars
  <2> QED
    BY <2>1, <2>2, Unseen
<1> QED
  BY <1>1, <1>2, <1>3, <1>4, <1>5, <1>6, <1>7 DEF Next, Step

(* The invariant holds throughout.                                         *)
LEMMA Inductive == Spec => []IInv
BY InitInv, NextInv, PTL DEF Spec

-----------------------------------------------------------------------------
(* What a run and its report guarantee.                                    *)

(* The counts of the active report are those of its results, and those of  *)
(* the last report cover each target exactly once: executeRun and          *)
(* finishRun, on each of their paths.                                      *)
THEOREM Counted == Spec => []CountsAddUp
<1>1. IInv => CountsAddUp
  <2> SUFFICES ASSUME IInv PROVE CountsAddUp
    OBVIOUS
  <2>1. LastCounts
    BY DEF IInv, LastShape
  <2>2. active.error # "none" => Total(active) = Len(active.results)
    <3> SUFFICES ASSUME active.error # "none"
                 PROVE  Total(active) = Len(active.results)
      OBVIOUS
    <3>1. pc # "idle" /\ active = report
      BY EmptyReports DEF IInv, StatusShape
    <3>2. CASE pc \in InLoop
      BY <3>1, <3>2, LoopReport
    <3>3. CASE pc \in Preparing \cup {"selected"}
      <4>1. Total(report) = 0 /\ report.results = <<>>
        BY <3>3 DEF IInv, PreparedShape
      <4> QED
        BY <3>1, <4>1
    <3> QED
      BY <3>1, <3>2, <3>3 DEF IInv, TypeOK, RunType, InLoop, Preparing
  <2> QED
    BY <2>1, <2>2 DEF CountsAddUp, LastCounts
<1> QED
  BY <1>1, Inductive, PTL

(* A report without error that does not say canceled has the results of    *)
(* all targets, in their order: the loop of executeRun leaves none out.    *)
THEOREM Complete == Spec => []CompleteUnlessSaid
<1>1. IInv => CompleteUnlessSaid
  BY DEF IInv, LastShape
<1> QED
  BY <1>1, Inductive, PTL

(* In one run no credential gets two requests, however often the host      *)
(* lists it and whatever its runtime records say: the check of             *)
(* hasDuplicateAuthIdentity and the comparison with the target.            *)
THEOREM AtMostOnce == Spec => []OneRequestEach
<1>1. IInv => OneRequestEach
  BY DEF IInv
<1> QED
  BY <1>1, Inductive, PTL

(* Requests go only to credentials that pass authEligible when last looked *)
(* at, that the caller named if it named any, and never in a dry run.      *)
THEOREM Asked == Spec => []OnlyAsked
<1>1. IInv => OnlyAsked
  <2> SUFFICES ASSUME IInv, NEW k \in DOMAIN sent
               PROVE  LET a == sent[k]
                      IN /\ ~a.disabled /\ ~(cfg.skipUnavailable /\ a.unavailable)
                         /\ ~(cfg.physicalFilesOnly /\ a.runtimeOnly)
                         /\ cfg.providers # {} => a.provider \in cfg.providers
                         /\ cfg.include # {} => a.index \in cfg.include
                         /\ a.index \notin cfg.exclude
                         /\ body.given => a.index \in Named(body)
                         /\ ~body.dry
    BY DEF OnlyAsked
  <2>1. /\ AuthEligible(cfg, sent[k]) /\ ~body.dry
        /\ body.given => sent[k].index \in Named(body)
    BY DEF IInv, SentShape
  <2> QED
    BY <2>1 DEF AuthEligible
<1> QED
  BY <1>1, Inductive, PTL

(* A priority that a run leaves raised is in its report:                   *)
(* restorePriorityOverride failed and executeRun stopped.                  *)
THEOREM Reported == Spec => []LeftoverReported
<1>1. IInv => LeftoverReported
  BY DEF IInv, LastShape
<1> QED
  BY <1>1, Inductive, PTL

=============================================================================
