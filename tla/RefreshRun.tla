----------------------------- MODULE RefreshRun -----------------------------
(***************************************************************************)
(* One refresh run and its report: POST run with the validation of its     *)
(* body (cmd/cpa-auto-refresh-quota/main.go), the selection of targets     *)
(* (internal/refreshquota/filter.go) and executeRun (service.go) with all  *)
(* of its early ends.                                                      *)
(*                                                                         *)
(* A step is a host call or a block under Service.mu, so that the context  *)
(* can be canceled between any two. Raising and restoring a priority is    *)
(* PriorityLease; here each has only its possible results. Names are       *)
(* numbers, as they are after trimming and lowering; 0 is the empty one.   *)
(***************************************************************************)
EXTENDS Integers, Sequences, FiniteSets

CONSTANTS
    Configs,    \* the settings of Config that a run looks at
    Listings,   \* answers of host.auth.list
    Runtimes,   \* answers of host.auth.get_runtime
    Bodies,     \* bodies of POST run, and the options of a scheduled run
    MaxIndices, \* most entries of auth_indices (256)
    MaxRuns     \* runs started

Auth == [id : Nat, index : Nat, provider : Nat, priority : Int,
         disabled : BOOLEAN, unavailable : BOOLEAN, runtimeOnly : BOOLEAN,
         file : BOOLEAN]   \* source is "file"

Config == [providers : SUBSET Nat, include : SUBSET Nat, exclude : SUBSET Nat,
           skipUnavailable : BOOLEAN, physicalFilesOnly : BOOLEAN,
           temporaryPriority : BOOLEAN]

(* well: the body is small enough and decodes strictly; given: it names    *)
(* auth_indices, null being an empty list.                                 *)
Body == [well : BOOLEAN, dry : BOOLEAN, given : BOOLEAN, indices : Seq(Nat)]

ASSUME RunAssumption ==
    /\ Configs \subseteq Config /\ Listings \subseteq Seq(Auth)
    /\ Runtimes \subseteq Auth /\ Bodies \subseteq Body
    /\ MaxIndices \in Nat /\ MaxRuns \in Nat

VARIABLES
    pc,
    cfg, body,       \* of the current or last run
    auths, targets,  \* the listing, and FilterAuths of it
    index,           \* of the target the loop is at
    auth,            \* its runtime record
    lease,           \* its priority is raised and not yet restored
    answer,          \* what ExecutePinned returned
    report,          \* the run's own report
    active, last,    \* the reports in the status
    canceled,        \* the run's context is done
    runs,
    sent             \* observer: runtime records of the requests sent

vars == <<pc, cfg, body, auths, targets, index, auth, lease, answer, report,
          active, last, canceled, runs, sent>>

request == <<cfg, body>>
selection == <<auths, targets>>
target == <<index, auth, lease, answer>>

-----------------------------------------------------------------------------
Outcomes == {"selected", "succeeded", "failed", "skipped"}

(* "none" marks the reports that are nil.                                  *)
Errors == {"none", "", "listing", "recovery", "relisting", "duplicate",
           "restore"}

Report == [dry : BOOLEAN, target : Nat, success : Nat, failed : Nat,
           skipped : Nat, canceled : BOOLEAN, error : Errors,
           results : Seq([index : Nat, outcome : Outcomes])]

EmptyReport(dry) ==
    [dry |-> dry, target |-> 0, success |-> 0, failed |-> 0, skipped |-> 0,
     canceled |-> FALSE, error |-> "", results |-> <<>>]

NoReport == [EmptyReport(FALSE) EXCEPT !.error = "none"]

NoAuth == [id |-> 0, index |-> 0, provider |-> 0, priority |-> 0,
           disabled |-> FALSE, unavailable |-> FALSE, runtimeOnly |-> FALSE,
           file |-> FALSE]

-----------------------------------------------------------------------------
(* Mutant: an empty list is taken for no list.                             *)
AcceptedIfNotBlank(b) ==
    b.well /\ (b.given => \A k \in DOMAIN b.indices : b.indices[k] # 0)

(* The request is answered with 400 or 413 unless auth_indices, if there,  *)
(* names between one and MaxIndices credentials, none of them blank.       *)
Accepted(b) ==
    /\ b.well
    /\ b.given => /\ Len(b.indices) \in 1..MaxIndices
                  /\ \A k \in DOMAIN b.indices : b.indices[k] # 0

Named(b) == {b.indices[k] : k \in DOMAIN b.indices}

AuthEligible(c, a) ==
    /\ a.id # 0 /\ a.index # 0
    /\ ~a.disabled
    /\ c.skipUnavailable => ~a.unavailable
    /\ c.physicalFilesOnly => ~a.runtimeOnly
    /\ c.providers = {} \/ a.provider \in c.providers
    /\ c.include = {} \/ a.index \in c.include
    /\ a.index \notin c.exclude

Before(a, b) ==
    a.provider < b.provider \/ (a.provider = b.provider /\ a.index < b.index)

(* What sort.Slice may make of the entries D of a sequence: it is not      *)
(* stable.                                                                 *)
Sortings(s, D) ==
    LET places == 1..Cardinality(D)
        orders == {p \in [places -> D] :
                     /\ \A j, k \in places : p[j] = p[k] => j = k
                     /\ \A j, k \in places : j < k => ~Before(s[p[k]], s[p[j]])}
    IN {[k \in places |-> s[p[k]]] : p \in orders}

(* No named credential means no restriction.                               *)
FilterAuths(c, listing, named) ==
    LET wanted(a) == (named = {} \/ a.index \in named) /\ AuthEligible(c, a)
    IN Sortings(listing, {k \in DOMAIN listing : wanted(listing[k])})

(* Mutant: only neighbours with the same index are noticed.                *)
HasDuplicateIndex(s) == \E j, k \in DOMAIN s : j < k /\ s[j].index = s[k].index

HasDuplicateAuthIdentity(s) ==
    \E j, k \in DOMAIN s :
        j < k /\ (s[j].id = s[k].id \/ s[j].index = s[k].index)

(* Some enabled credential of the listing has a higher priority.           *)
NeedsOverride(a) ==
    /\ cfg.temporaryPriority
    /\ \E k \in DOMAIN auths :
          ~auths[k].disabled /\ auths[k].priority > a.priority

-----------------------------------------------------------------------------
Init ==
    /\ pc = "idle"
    /\ cfg \in Configs /\ body \in Bodies
    /\ auths = <<>> /\ targets = <<>>
    /\ index = 0 /\ auth = NoAuth /\ lease = FALSE /\ answer = "none"
    /\ report = NoReport /\ active = NoReport /\ last = NoReport
    /\ canceled = FALSE /\ runs = 0 /\ sent = <<>>

(* startRun, from handleManagement or scheduleLoop.                        *)
StartRun(c, b) ==
    /\ pc = "idle" /\ Accepted(b)
    /\ runs < MaxRuns /\ runs' = runs + 1
    /\ cfg' = c /\ body' = b
    /\ report' = EmptyReport(b.dry) /\ active' = EmptyReport(b.dry)
    /\ auths' = <<>> /\ targets' = <<>>
    /\ index' = 0 /\ auth' = NoAuth /\ lease' = FALSE /\ answer' = "none"
    /\ canceled' = FALSE /\ sent' = <<>>
    /\ pc' = "list"
    /\ UNCHANGED last

Publish(r) == report' = r /\ active' = r /\ UNCHANGED last

Quiet == UNCHANGED <<report, active, last>>

(* finishRun.                                                              *)
Finish(r) ==
    /\ report' = r /\ active' = NoReport /\ last' = r
    /\ pc' = "idle"

Aborted(error) == [report EXCEPT !.error = error, !.canceled = canceled]

(* Mutant: a scan that restored something is repeated.                     *)
ListAuthsRescan(from, to, error) ==
    /\ pc = from
    /\ \/ ~canceled /\ auths' \in Listings /\ pc' = "recover" /\ Quiet
       \/ Finish(Aborted(error)) /\ UNCHANGED auths
    /\ UNCHANGED <<request, targets, target, canceled, runs, sent>>

ListAuths(from, to, error) ==
    /\ pc = from
    /\ \/ ~canceled /\ auths' \in Listings /\ pc' = to /\ Quiet
       \/ Finish(Aborted(error)) /\ UNCHANGED auths
    /\ UNCHANGED <<request, targets, target, canceled, runs, sent>>

(* recoverStalePriorityOverrides looks at the context before each entry    *)
(* and can only fail over an entry that has a file.                        *)
Recover ==
    LET files == {k \in DOMAIN auths : /\ ~auths[k].runtimeOnly
                                       /\ auths[k].file /\ auths[k].index # 0}
    IN /\ pc = "recover"
       /\ \/ (canceled => auths = <<>>) /\ pc' = "select" /\ Quiet
          \/ ~canceled /\ files # {} /\ pc' = "relist" /\ Quiet
          \/ /\ files # {} \/ (canceled /\ auths # <<>>)
             /\ Finish(Aborted("recovery"))
       /\ UNCHANGED <<request, selection, target, canceled, runs, sent>>

SelectTargets ==
    /\ pc = "select"
    /\ targets' \in FilterAuths(cfg, auths,
                                IF body.given THEN Named(body) ELSE {})
    /\ Publish([report EXCEPT !.target = Len(targets')])
    /\ pc' = "selected"
    /\ UNCHANGED <<request, auths, target, canceled, runs, sent>>

Duplicate ==
    /\ pc = "selected" /\ HasDuplicateAuthIdentity(targets)
    /\ Finish([report EXCEPT !.error = "duplicate"])
    /\ UNCHANGED <<request, selection, target, canceled, runs, sent>>

DryRun ==
    /\ pc = "selected" /\ ~HasDuplicateAuthIdentity(targets) /\ body.dry
    /\ Finish([report EXCEPT !.results =
                 [k \in DOMAIN targets |->
                    [index |-> targets[k].index, outcome |-> "selected"]]])
    /\ UNCHANGED <<request, selection, target, canceled, runs, sent>>

EnterLoop ==
    /\ pc = "selected" /\ ~HasDuplicateAuthIdentity(targets) /\ ~body.dry
    /\ index' = 1 /\ pc' = "loop" /\ Quiet
    /\ UNCHANGED <<request, selection, auth, lease, answer, canceled, runs,
                   sent>>

-----------------------------------------------------------------------------
(* The loop over the targets.                                              *)

(* The targets from k on are not attempted.                                *)
Skipping(k) == [report EXCEPT !.skipped = @ + Len(targets) - k + 1]

LoopHead ==
    /\ pc = "loop"
    /\ \/ index > Len(targets) /\ Finish(report)
       \/ /\ index <= Len(targets) /\ canceled
          /\ Finish([Skipping(index) EXCEPT !.canceled = TRUE])
       \/ index <= Len(targets) /\ ~canceled /\ pc' = "runtime" /\ Quiet
    /\ UNCHANGED <<request, selection, target, canceled, runs, sent>>

(* The result of a target is added and published.                          *)
Record(outcome) ==
    LET result == [index |-> targets[index].index, outcome |-> outcome]
        one(o) == IF outcome = o THEN 1 ELSE 0
    IN [report EXCEPT !.results = Append(@, result),
                      !.success = @ + one("succeeded"),
                      !.failed = @ + one("failed"),
                      !.skipped = @ + one("skipped")]

SameCredential(a) == a.index = targets[index].index /\ a.id = targets[index].id

(* host.auth.get_runtime fails, or returns the record of another           *)
(* credential than the one listed.                                         *)
RuntimeFails ==
    /\ pc = "runtime"
    /\ Publish(Record("failed")) /\ pc' = "wait"
    /\ UNCHANGED <<request, selection, target, canceled, runs, sent>>

GetRuntimeAuth(a) ==
    /\ pc = "runtime" /\ ~canceled /\ SameCredential(a)
    /\ auth' = a
    /\ \/ AuthEligible(cfg, a) /\ pc' = "begin" /\ Quiet
       \/ ~AuthEligible(cfg, a) /\ Publish(Record("skipped")) /\ pc' = "wait"
    /\ UNCHANGED <<request, selection, index, lease, answer, canceled, runs,
                   sent>>

(* beginPriorityOverride. An error with a lease in hand is undone first.   *)
Begin ==
    LET raisable == ~auth.runtimeOnly /\ auth.file
    IN /\ pc = "begin"
       /\ \/ ~NeedsOverride(auth) /\ pc' = "execute" /\ Quiet /\ UNCHANGED lease
          \/ /\ NeedsOverride(auth)
             /\ Publish(Record("failed")) /\ pc' = "wait" /\ UNCHANGED lease
          \/ /\ NeedsOverride(auth) /\ raisable /\ ~canceled
             /\ lease' = TRUE /\ pc' \in {"execute", "undo"} /\ Quiet
       /\ UNCHANGED <<request, selection, index, auth, answer, canceled, runs,
                      sent>>

(* ExecutePinned: the request is not sent with a context that is done, and *)
(* an error can also mean that it was sent and the answer lost.            *)
Execute ==
    /\ pc = "execute"
    /\ \/ ~canceled /\ sent' = Append(sent, auth)
          /\ answer' \in {"2xx", "other", "error"}
       \/ answer' = "error" /\ UNCHANGED sent
    /\ pc' = "restore" /\ Quiet
    /\ UNCHANGED <<request, selection, index, auth, lease, canceled, runs>>

(* Mutant: a restore that fails is reported for the target only.           *)
RestoreErrorDropped(outcome) ==
    \/ /\ lease' = FALSE
       /\ Publish(Record(outcome)) /\ pc' = "wait"
    \/ /\ lease /\ UNCHANGED lease
       /\ Publish(Record("failed")) /\ pc' = "wait"

(* restorePriorityOverride runs under a context of its own, so a canceled  *)
(* run restores as well. When that fails no further target is attempted.   *)
RestorePriorityOverride(outcome) ==
    \/ /\ lease' = FALSE
       /\ Publish(Record(outcome)) /\ pc' = "wait"
    \/ /\ lease /\ UNCHANGED lease
       /\ Publish([Record("failed") EXCEPT !.error = "restore"])
       /\ pc' = "stop"

Restore ==
    /\ pc \in {"restore", "undo"}
    /\ RestorePriorityOverride(IF pc = "restore" /\ answer = "2xx"
                               THEN "succeeded" ELSE "failed")
    /\ UNCHANGED <<request, selection, index, auth, answer, canceled, runs,
                   sent>>

(* Mutant: the target at which the run stops is skipped as well.           *)
StopSkipsItself ==
    /\ pc = "stop"
    /\ Finish(Skipping(index))
    /\ UNCHANGED <<request, selection, target, canceled, runs, sent>>

Stop ==
    /\ pc = "stop"
    /\ Finish(Skipping(index + 1))
    /\ UNCHANGED <<request, selection, target, canceled, runs, sent>>

(* Mutant: a canceled wait leaves the loop without a word.                 *)
WaitSilent ==
    /\ pc = "wait"
    /\ \/ canceled /\ Finish(Skipping(index + 1)) /\ UNCHANGED index
       \/ ~canceled /\ index' = index + 1 /\ pc' = "loop" /\ Quiet
    /\ UNCHANGED <<request, selection, auth, lease, answer, canceled, runs,
                   sent>>

(* waitBetweenAuths, and the look at the context before it.                *)
Wait ==
    /\ pc = "wait"
    /\ \/ /\ canceled /\ UNCHANGED index
          /\ Finish([Skipping(index + 1) EXCEPT !.canceled = TRUE])
       \/ ~canceled /\ index' = index + 1 /\ pc' = "loop" /\ Quiet
    /\ UNCHANGED <<request, selection, auth, lease, answer, canceled, runs,
                   sent>>

(* ApplyConfig and Shutdown cancel the context of the run.                 *)
Cancel ==
    /\ pc # "idle" /\ ~canceled /\ canceled' = TRUE
    /\ UNCHANGED <<pc, request, selection, target, report, active, last, runs,
                   sent>>

-----------------------------------------------------------------------------
Step ==
    \/ ListAuths("list", "recover", "listing")
    \/ Recover
    \/ ListAuths("relist", "select", "relisting")
    \/ SelectTargets \/ Duplicate \/ DryRun \/ EnterLoop
    \/ LoopHead \/ RuntimeFails
    \/ \E a \in Runtimes : GetRuntimeAuth(a)
    \/ Begin \/ Execute \/ Restore \/ Stop \/ Wait

Next ==
    \/ \E c \in Configs, b \in Bodies : StartRun(c, b)
    \/ Step
    \/ Cancel

Spec == Init /\ [][Next]_vars

(* The scan and a raise have no deadline of their own: getAuthFileUntil    *)
(* reads again for as long as a file cannot be read, and the Windows       *)
(* replaceAuthFileCAS tries again for as long as it is held open.          *)
AtFile == pc \in {"recover", "begin"} /\ ~canceled

(* Otherwise host calls return, and the wait between two targets has a     *)
(* timer.                                                                  *)
FairSpec == Spec /\ WF_vars(~AtFile /\ Step)

-----------------------------------------------------------------------------
RunType ==
    /\ pc \in {"idle", "list", "recover", "relist", "select", "selected",
               "loop", "runtime", "begin", "execute", "restore", "undo",
               "stop", "wait"}
    /\ cfg \in Config /\ body \in Body
    /\ auths \in Seq(Auth) /\ targets \in Seq(Auth)
    /\ index \in Nat /\ auth \in Auth
    /\ answer \in {"none", "2xx", "other", "error"}
    /\ runs \in Nat /\ sent \in Seq(Auth)

FlagType == lease \in BOOLEAN /\ canceled \in BOOLEAN

ReportType == report \in Report /\ active \in Report /\ last \in Report

TypeOK == RunType /\ FlagType /\ ReportType

Total(r) == r.success + r.failed + r.skipped

(* What GET status shows is consistent at any moment: the counts of the    *)
(* active report are those of its results, and once the run is over each   *)
(* target is counted exactly once, on the paths that leave the loop early  *)
(* too. A dry run and duplicate identities count nothing.                  *)
CountsAddUp ==
    /\ active.error # "none" => Total(active) = Len(active.results)
    /\ last.error # "none" /\ ~last.dry =>
          Total(last) = IF last.error = "duplicate" THEN 0 ELSE last.target

(* A report without error that does not say canceled is complete: it has   *)
(* one result for every target, in the targets' order.                     *)
CompleteUnlessSaid ==
    pc = "idle" /\ last.error = "" /\ ~last.canceled =>
        /\ Len(last.results) = last.target
        /\ \A k \in 1..last.target :
              last.results[k].index = targets[k].index

(* No credential gets two requests in one run, by its id or by its index,  *)
(* however often the host lists it.                                        *)
OneRequestEach ==
    \A j, k \in DOMAIN sent :
        j # k => sent[j].id # sent[k].id /\ sent[j].index # sent[k].index

(* A request goes only to a credential that was enabled when last looked   *)
(* at, that the filters select and that the caller named, if it named any. *)
(* A body whose list is empty or blank never means all.                    *)
OnlyAsked ==
    \A k \in DOMAIN sent :
        LET a == sent[k]
        IN /\ ~a.disabled /\ ~(cfg.skipUnavailable /\ a.unavailable)
           /\ ~(cfg.physicalFilesOnly /\ a.runtimeOnly)
           /\ cfg.providers # {} => a.provider \in cfg.providers
           /\ cfg.include # {} => a.index \in cfg.include
           /\ a.index \notin cfg.exclude
           /\ body.given => a.index \in Named(body)
           /\ ~body.dry

(* A run never leaves a raised priority behind without saying so, whether  *)
(* it ends by itself or is canceled.                                       *)
LeftoverReported == pc = "idle" /\ lease => last.error = "restore"

(* Each run ends, unless one file holds it up for ever and nobody cancels  *)
(* it: once canceled it ends in any case.                                  *)
RunEnds == (pc # "idle") ~> (pc = "idle" \/ []AtFile)
=============================================================================
