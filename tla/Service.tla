------------------------------- MODULE Service -------------------------------
(***************************************************************************)
(* The control of the plugin: configuration generations, the scheduler     *)
(* goroutine, refresh runs, the startup recovery and shutdown              *)
(* (internal/refreshquota/service.go), and the replacement of a stopped    *)
(* service by the plugin entry points (cmd/cpa-auto-refresh-quota/main.go).*)
(*                                                                         *)
(* Each block under Service.mu is one step. What a run or a recovery does  *)
(* with the files while it holds priorityMu is PriorityLease; here it is   *)
(* a stay in the critical section during which model calls are made.       *)
(***************************************************************************)
EXTENDS Integers, Sequences, FiniteSets

CONSTANTS
    RunIDs,          \* enough ids for the runs alive at a time
    Callers,         \* concurrent callers of the management API
    MaxGenerations,  \* configurations applied to one service
    MaxEpochs,       \* services created, the first included
    MaxRequests,     \* manual runs requested
    MaxClock,        \* schedule slots before the clock stands still
    MaxStepBacks,    \* times the wall clock is set back by one slot
    MaxRemembered,   \* maxRememberedOccurrences
    Configs          \* configurations the host may send

ASSUME ServiceAssumption ==
    /\ RunIDs \subseteq Nat \ {0}
    /\ MaxGenerations \in Nat /\ MaxEpochs \in Nat \ {0}
    /\ MaxRequests \in Nat
    /\ MaxClock \in Nat /\ MaxStepBacks \in Nat
    /\ MaxRemembered \in Nat \ {0}
    /\ Configs \subseteq {"bad", "off", "manual", "daily", "hourly"}

VARIABLES
    epoch,      \* which service runtimeService points to
    stopped, gen, cfg,               \* Service.stopped, configGeneration, config
    active,                          \* running, active and activeCancel
    next,                            \* next.OccurrenceID, 0 for nil
    recGen, recPending, recError,    \* recoveryGeneration, priorityRecovery*
    occurrences,                     \* occurrenceOrder
    skipped,                         \* skippedOccurrences
    sched,      \* the scheduler goroutine of each generation
    runs,       \* run goroutines
    rec,        \* the recovery goroutine of each generation
    lifecycle,  \* what the caller that holds serviceLifecycle is doing
    captured,   \* the run whose activeCancel it read, 0 for none
    callers,    \* management calls in StartManual
    requests, clock, stepBacks,
    \* Observers, not in the code:
    starts,     \* runs started per occurrence
    scanned     \* generations whose recovery scanned without error

vars == <<epoch, stopped, gen, cfg, active, next, recGen, recPending, recError,
          occurrences, skipped, sched, runs, rec, lifecycle, captured, callers,
          requests, clock, stepBacks, starts, scanned>>

settings == <<epoch, stopped, gen, cfg>>
recovery == <<recGen, recPending, recError>>
schedule == <<occurrences, skipped, starts>>
outside == <<requests, clock, stepBacks>>
lock == <<lifecycle, captured>>

-----------------------------------------------------------------------------
Generations == 1..MaxGenerations
Slots == 1..MaxClock

(* "none" is the zero Config of a new service, "bad" what an invalid       *)
(* document leaves; both lack a model.                                     *)
Configured(c) == c \notin {"none", "bad"}
HostEnabled(c) == c \in {"manual", "daily", "hourly"}
ScheduleEnabled(c) == c \in {"daily", "hourly"}

NoSched == [pc |-> "none", due |-> 0, canceled |-> FALSE]
NoRun == [pc |-> "none", gen |-> 0, parent |-> 0, canceled |-> FALSE]
NoRec == [pc |-> "none", ctx |-> "live"]
NoCall == [pc |-> "none", epoch |-> 0, gen |-> 0, cfg |-> "none"]

(* priorityMu is held by a run from its lock to the return of executeRun,  *)
(* and by a recovery while it scans.                                       *)
PriorityFree ==
    /\ \A r \in RunIDs : runs[r].pc \notin {"work", "call", "exit"}
    /\ \A g \in Generations : rec[g].pc \notin {"locked", "scan"}

(* A scheduled run's context is a child of its scheduler's.                *)
RunCanceled(r) ==
    \/ runs[r].canceled
    \/ runs[r].parent # 0 /\ sched[runs[r].parent].canceled

Alive == {<<"sched", g>> : g \in {g \in Generations : sched[g].pc # "none"}}
    \cup {<<"run", r>> : r \in {r \in RunIDs : runs[r].pc # "none"}}
    \cup {<<"rec", g>> : g \in {g \in Generations : rec[g].pc # "none"}}

-----------------------------------------------------------------------------
Init ==
    /\ epoch = 1 /\ stopped = FALSE /\ gen = 0 /\ cfg = "none"
    /\ active = 0 /\ next = 0
    /\ recGen = 0 /\ recPending = FALSE /\ recError = FALSE
    /\ occurrences = <<>> /\ skipped = 0
    /\ sched = [g \in Generations |-> NoSched]
    /\ runs = [r \in RunIDs |-> NoRun]
    /\ rec = [g \in Generations |-> NoRec]
    /\ lifecycle = "none" /\ captured = 0
    /\ callers = [i \in Callers |-> NoCall]
    /\ requests = 0 /\ clock = 0 /\ stepBacks = 0
    /\ starts = [s \in Slots |-> 0]
    /\ scanned = {}

-----------------------------------------------------------------------------
(* applyConfiguration replaces a stopped service; ApplyConfig swaps the    *)
(* configuration under mu. An equivalent one changes nothing.              *)
NewService ==
    /\ lifecycle = "none" /\ stopped
    /\ epoch < MaxEpochs /\ epoch' = epoch + 1
    /\ stopped' = FALSE /\ gen' = 0 /\ cfg' = "none"
    /\ active' = 0 /\ next' = 0
    /\ recGen' = 0 /\ recPending' = FALSE /\ recError' = FALSE
    /\ occurrences' = <<>> /\ skipped' = 0
    /\ starts' = [s \in Slots |-> 0] /\ scanned' = {}
    /\ sched' = [g \in Generations |-> NoSched]
    /\ rec' = [g \in Generations |-> NoRec]
    /\ lifecycle' = "apply"
    /\ UNCHANGED <<runs, captured, callers, outside>>

(* Mutant of ApplyConfig: the memory of occurrences is dropped as well.    *)
ApplyForgets(c) ==
    /\ lifecycle = "none" /\ ~stopped
    /\ c # cfg
    /\ gen < MaxGenerations /\ gen' = gen + 1
    /\ cfg' = c /\ next' = 0
    /\ recGen' = 0 /\ recPending' = FALSE /\ recError' = FALSE
    /\ occurrences' = <<>>
    /\ lifecycle' = "cancel" /\ captured' = active
    /\ UNCHANGED <<epoch, stopped, active, skipped, starts, sched, runs, rec,
                   callers, outside, scanned>>

ApplyConfig(c) ==
    /\ \/ lifecycle = "none" /\ ~stopped
       \/ lifecycle = "apply"
    /\ c # cfg \/ c = "bad"
    /\ gen < MaxGenerations /\ gen' = gen + 1
    /\ cfg' = c /\ next' = 0
    /\ recGen' = 0 /\ recPending' = FALSE /\ recError' = FALSE
    /\ lifecycle' = "cancel" /\ captured' = active
    /\ UNCHANGED <<epoch, stopped, active, schedule, sched, runs, rec,
                   callers, outside, scanned>>

(* Mutant of CancelAll: the scheduler's context is not canceled.           *)
CancelRunsOnly ==
    /\ runs' = [r \in RunIDs |->
                    [runs[r] EXCEPT !.canceled = @ \/ r = captured]]
    /\ UNCHANGED <<sched, rec>>
    /\ captured' = 0

(* Mutant of CancelAll: activeCancel is not called.                        *)
CancelLoops ==
    /\ sched' = [g \in Generations |->
                    [sched[g] EXCEPT !.canceled = @ \/ sched[g].pc # "none"]]
    /\ rec' = [g \in Generations |->
                    [rec[g] EXCEPT !.ctx = IF rec[g].pc # "none" /\ @ = "live"
                                           THEN "canceled" ELSE @]]
    /\ captured' = 0 /\ UNCHANGED runs

(* The cancel functions read under mu are called without it.               *)
CancelAll ==
    /\ sched' = [g \in Generations |->
                    [sched[g] EXCEPT !.canceled = @ \/ sched[g].pc # "none"]]
    /\ runs' = [r \in RunIDs |->
                    [runs[r] EXCEPT !.canceled = @ \/ r = captured]]
    /\ rec' = [g \in Generations |->
                    [rec[g] EXCEPT !.ctx = IF rec[g].pc # "none" /\ @ = "live"
                                           THEN "canceled" ELSE @]]
    /\ captured' = 0

ApplyCancel ==
    /\ lifecycle = "cancel"
    /\ CancelAll
    /\ lifecycle' = IF ScheduleEnabled(cfg) THEN "scheduler"
                    ELSE IF HostEnabled(cfg) THEN "recovery" ELSE "none"
    /\ UNCHANGED <<settings, active, next, recovery, schedule, callers,
                   outside, scanned>>

StartScheduler ==
    /\ lifecycle = "scheduler"
    /\ sched' = [sched EXCEPT ![gen] = [NoSched EXCEPT !.pc = "compute"]]
    /\ lifecycle' = "recovery"
    /\ UNCHANGED <<settings, active, next, recovery, schedule, runs, rec,
                   captured, callers, outside, scanned>>

StartPriorityRecovery ==
    /\ lifecycle = "recovery"
    /\ recGen' = gen /\ recPending' = TRUE /\ recError' = FALSE
    /\ rec' = [rec EXCEPT ![gen] = [NoRec EXCEPT !.pc = "list"]]
    /\ lifecycle' = "none"
    /\ UNCHANGED <<settings, active, next, schedule, sched, runs, captured,
                   callers, outside, scanned>>

(* Shutdown: stop under mu, cancel, and wait for every goroutine while     *)
(* serviceLifecycle is held.                                               *)
Shutdown ==
    /\ lifecycle = "none" /\ ~stopped
    /\ stopped' = TRUE /\ next' = 0
    /\ recGen' = 0 /\ recPending' = FALSE
    /\ lifecycle' = "stop" /\ captured' = active
    /\ UNCHANGED <<epoch, gen, cfg, active, recError, schedule, sched, runs,
                   rec, callers, outside, scanned>>

ShutdownCancel ==
    /\ lifecycle = "stop"
    /\ CancelAll
    /\ lifecycle' = "wait"
    /\ UNCHANGED <<settings, active, next, recovery, schedule, callers,
                   outside, scanned>>

(* Mutant of ShutdownWait: it does not wait.                               *)
ShutdownReturns ==
    /\ lifecycle = "wait"
    /\ lifecycle' = "none"
    /\ UNCHANGED <<settings, active, next, recovery, schedule, sched, runs,
                   rec, captured, callers, outside, scanned>>

ShutdownWait ==
    /\ lifecycle = "wait" /\ Alive = {}
    /\ lifecycle' = "none"
    /\ UNCHANGED <<settings, active, next, recovery, schedule, sched, runs,
                   rec, captured, callers, outside, scanned>>

-----------------------------------------------------------------------------
(* Mutant of Refused: the generation is not compared.                      *)
RefusedWithoutGeneration(c, g) ==
    ~Configured(c) \/ stopped \/ ~HostEnabled(c)

(* startRun for configuration c read at generation g. In this order: not   *)
(* configured; stopped, replaced or disabled; occurrence already done;     *)
(* busy; started. A busy occurrence is remembered, so it is not retried.   *)
Refused(c, g) == ~Configured(c) \/ stopped \/ g # gen \/ ~HostEnabled(c)

Remember(seq, s) ==
    LET longer == Append(seq, s) IN
    IF Len(longer) > MaxRemembered THEN Tail(longer) ELSE longer

Remembered(s) == \E k \in DOMAIN occurrences : occurrences[k] = s

Fresh == {r \in RunIDs : runs[r].pc = "none" /\ r # captured}

(* Mutant of Launch: running is not looked at.                             *)
LaunchAnyway(g, parent) ==
    \E r \in Fresh :
        /\ active' = r
        /\ runs' = [runs EXCEPT ![r] =
                       [NoRun EXCEPT !.pc = "lock", !.gen = g,
                                     !.parent = parent]]

Launch(g, parent) ==
    /\ active = 0
    /\ \E r \in Fresh :
          /\ \A q \in Fresh : r <= q
          /\ active' = r
          /\ runs' = [runs EXCEPT ![r] =
                        [NoRun EXCEPT !.pc = "lock", !.gen = g,
                                      !.parent = parent]]

(* POST run: currentService, then StartManual reads config and generation, *)
(* then startRun, which may find another generation or a stopped service.  *)
ManualService(i) ==
    /\ callers[i].pc = "none" /\ lifecycle = "none"
    /\ requests < MaxRequests /\ requests' = requests + 1
    /\ callers' = [callers EXCEPT ![i].pc = "service", ![i].epoch = epoch]
    /\ UNCHANGED <<settings, active, next, recovery, schedule, sched, runs,
                   rec, lock, clock, stepBacks, scanned>>

ManualRead(i) ==
    /\ callers[i].pc = "service"
    /\ callers' = [callers EXCEPT ![i].pc = "start", ![i].gen = gen,
                                  ![i].cfg = cfg]
    /\ UNCHANGED <<settings, active, next, recovery, schedule, sched, runs,
                   rec, lock, outside, scanned>>

ManualStart(i) ==
    LET call == callers[i] IN
    /\ call.pc = "start"
    /\ callers' = [callers EXCEPT ![i] = NoCall]
    /\ \/ /\ call.epoch # epoch \/ Refused(call.cfg, call.gen) \/ active # 0
          /\ UNCHANGED <<active, runs>>
       \/ /\ call.epoch = epoch /\ ~Refused(call.cfg, call.gen)
          /\ Launch(call.gen, 0)
    /\ UNCHANGED <<settings, next, recovery, schedule, sched, rec, lock,
                   outside, scanned>>

-----------------------------------------------------------------------------
(* scheduleLoop of generation g: compute and publish the next slot, sleep  *)
(* until the timer fires or the context is done, start a run.              *)
SchedCompute(g) ==
    LET s == IF clock < MaxClock THEN clock + 1 ELSE 0 IN
    /\ sched[g].pc = "compute"
    /\ sched' = [sched EXCEPT ![g].pc = "sleep", ![g].due = s]
    /\ next' = IF ~stopped /\ g = gen THEN s ELSE next
    /\ UNCHANGED <<settings, active, recovery, schedule, runs, rec, lock,
                   callers, outside, scanned>>

SchedFire(g) ==
    /\ sched[g].pc = "sleep" /\ sched[g].due # 0
    /\ sched' = [sched EXCEPT ![g].pc = "start"]
    /\ clock' = IF clock < sched[g].due THEN sched[g].due ELSE clock
    /\ UNCHANGED <<settings, active, next, recovery, schedule, runs, rec,
                   lock, callers, requests, stepBacks, scanned>>

(* Mutant of SchedStop: any generation withdraws.                          *)
SchedWithdraws(g) ==
    /\ sched[g].pc = "sleep" /\ sched[g].canceled
    /\ sched' = [sched EXCEPT ![g] = [NoSched EXCEPT !.canceled = TRUE]]
    /\ next' = 0
    /\ UNCHANGED <<settings, active, recovery, schedule, runs, rec, lock,
                   callers, outside, scanned>>

SchedStop(g) ==
    /\ sched[g].pc = "sleep" /\ sched[g].canceled
    /\ sched' = [sched EXCEPT ![g] = [NoSched EXCEPT !.canceled = TRUE]]
    /\ next' = IF g = gen THEN 0 ELSE next
    /\ UNCHANGED <<settings, active, recovery, schedule, runs, rec, lock,
                   callers, outside, scanned>>

SchedStart(g) ==
    LET s == sched[g].due IN
    /\ sched[g].pc = "start"
    /\ \/ /\ stopped \/ g # gen \/ Remembered(s)
          /\ sched' = [sched EXCEPT ![g].pc = "compute", ![g].due = 0]
          /\ UNCHANGED <<active, runs, occurrences, starts>>
       \/ /\ ~stopped /\ g = gen /\ ~Remembered(s)
          /\ occurrences' = Remember(occurrences, s)
          /\ \/ /\ active # 0
                /\ sched' = [sched EXCEPT ![g].pc = "busy"]
                /\ UNCHANGED <<active, runs, starts>>
             \/ /\ Launch(g, g)
                /\ sched' = [sched EXCEPT ![g].pc = "compute", ![g].due = 0]
                /\ starts' = [starts EXCEPT ![s] = @ + 1]
    /\ UNCHANGED <<settings, next, recovery, skipped, rec, lock, callers,
                   outside, scanned>>

(* handleScheduleStartError counts a slot lost to a busy service.          *)
SchedSkip(g) ==
    /\ sched[g].pc = "busy"
    /\ skipped' = skipped + 1
    /\ sched' = [sched EXCEPT ![g].pc = "compute", ![g].due = 0]
    /\ UNCHANGED <<settings, active, next, recovery, occurrences, starts,
                   runs, rec, lock, callers, outside, scanned>>

(* NTP or an administrator sets the wall clock back.                       *)
StepBack ==
    /\ clock > 0 /\ stepBacks < MaxStepBacks
    /\ clock' = clock - 1 /\ stepBacks' = stepBacks + 1
    /\ UNCHANGED <<settings, active, next, recovery, schedule, sched, runs,
                   rec, lock, callers, requests, scanned>>

-----------------------------------------------------------------------------
(* executeRun: priorityMu.Lock cannot be canceled; the context is looked   *)
(* at before each model call, and the call itself cannot be interrupted.   *)
RunStep(r, from, to) ==
    /\ runs[r].pc = from
    /\ runs' = [runs EXCEPT ![r].pc = to]
    /\ UNCHANGED <<settings, next, recovery, schedule, sched, rec, lock,
                   callers, outside, scanned>>

RunLock(r) == PriorityFree /\ RunStep(r, "lock", "work") /\ UNCHANGED active

RunCall(r) ==
    ~RunCanceled(r) /\ RunStep(r, "work", "call") /\ UNCHANGED active

RunCallReturns(r) == RunStep(r, "call", "work") /\ UNCHANGED active

(* finishRun, on every path, still inside priorityMu.                      *)
RunFinish(r) ==
    /\ RunStep(r, "work", "exit")
    /\ active' = IF active = r THEN 0 ELSE active

RunExit(r) ==
    /\ runs[r].pc = "exit"
    /\ runs' = [runs EXCEPT ![r] = NoRun]
    /\ UNCHANGED <<settings, active, next, recovery, schedule, sched, rec,
                   lock, callers, outside, scanned>>

-----------------------------------------------------------------------------
(* The recovery goroutine of generation g.                                 *)
StillCurrent(g) == ~stopped /\ g = gen /\ recGen = g

RecStep(g, from, to) ==
    /\ rec[g].pc = from
    /\ rec' = [rec EXCEPT ![g].pc = to]
    /\ UNCHANGED <<settings, active, next, schedule, sched, runs, lock,
                   callers, outside>>

(* setPriorityRecoveryResult.                                              *)
SetResult(g, failed) ==
    IF StillCurrent(g)
    THEN recPending' = FALSE /\ recError' = failed /\ UNCHANGED recGen
    ELSE UNCHANGED recovery

(* The listing has been stable for the grace period.                       *)
RecReady(g) ==
    /\ StillCurrent(g)
    /\ RecStep(g, "list", "acquire")
    /\ UNCHANGED <<recovery, scanned>>

RecObsolete(g) ==
    /\ ~StillCurrent(g)
    /\ RecStep(g, "list", "exit")
    /\ UNCHANGED <<recovery, scanned>>

(* The context is done while polling for the listing or for priorityMu:    *)
(* only a passed deadline is reported.                                     *)
RecGiveUp(g) ==
    /\ rec[g].ctx # "live"
    /\ RecStep(g, "list", "exit") \/ RecStep(g, "acquire", "exit")
    /\ IF rec[g].ctx = "expired" THEN SetResult(g, TRUE)
                                 ELSE UNCHANGED recovery
    /\ UNCHANGED scanned

RecLock(g) ==
    /\ PriorityFree
    /\ RecStep(g, "acquire", "locked")
    /\ UNCHANGED <<recovery, scanned>>

(* With the lock held, once more: still current, and the context alive?    *)
RecRecheck(g) ==
    /\ \/ /\ StillCurrent(g) /\ rec[g].ctx = "live"
          /\ RecStep(g, "locked", "scan")
       \/ /\ ~(StillCurrent(g) /\ rec[g].ctx = "live")
          /\ RecStep(g, "locked", "exit")
    /\ UNCHANGED <<recovery, scanned>>

(* The scan ends and priorityMu is released; the result is set after that. *)
RecScanned(g) ==
    /\ RecStep(g, "scan", "good")
    /\ scanned' = scanned \cup {g}
    /\ UNCHANGED recovery

RecScanFails(g) ==
    /\ RecStep(g, "scan", "failed")
    /\ UNCHANGED <<recovery, scanned>>

(* Mutant of RecReport: a failed scan is not reported as such.             *)
RecReportDone(g) ==
    /\ \/ RecStep(g, "good", "exit") /\ SetResult(g, FALSE)
       \/ RecStep(g, "failed", "exit") /\ SetResult(g, FALSE)
    /\ UNCHANGED scanned

RecReport(g) ==
    /\ \/ RecStep(g, "good", "exit") /\ SetResult(g, FALSE)
       \/ RecStep(g, "failed", "exit") /\ SetResult(g, TRUE)
    /\ UNCHANGED scanned

(* Mutant of RecExit: no clean-up when the goroutine returns early.        *)
RecExitLeavesPending(g) ==
    /\ RecStep(g, "exit", "none")
    /\ UNCHANGED <<recovery, scanned>>

(* The deferred clean-up.                                                  *)
RecExit(g) ==
    /\ RecStep(g, "exit", "none")
    /\ IF recGen = g
       THEN recGen' = 0 /\ recPending' = FALSE /\ UNCHANGED recError
       ELSE UNCHANGED recovery
    /\ UNCHANGED scanned

(* priorityRecoveryTimeout.                                                *)
RecDeadline(g) ==
    /\ rec[g].pc # "none" /\ rec[g].ctx = "live"
    /\ rec' = [rec EXCEPT ![g].ctx = "expired"]
    /\ UNCHANGED <<settings, active, next, recovery, schedule, sched, runs,
                   lock, callers, outside, scanned>>

-----------------------------------------------------------------------------
LifecycleStep ==
    \/ ApplyCancel \/ StartScheduler \/ StartPriorityRecovery
    \/ ShutdownCancel \/ ShutdownWait

Manual(i) == ManualService(i) \/ ManualRead(i) \/ ManualStart(i)

Scheduler(g) ==
    \/ SchedCompute(g) \/ SchedFire(g) \/ SchedStop(g)
    \/ SchedStart(g) \/ SchedSkip(g)

Run(r) ==
    \/ RunLock(r) \/ RunCall(r) \/ RunCallReturns(r)
    \/ RunFinish(r) \/ RunExit(r)

Recovery(g) ==
    \/ RecReady(g) \/ RecObsolete(g) \/ RecGiveUp(g) \/ RecLock(g)
    \/ RecRecheck(g) \/ RecScanned(g) \/ RecScanFails(g) \/ RecReport(g)
    \/ RecExit(g)

Next ==
    \/ NewService \/ Shutdown \/ (\E c \in Configs : ApplyConfig(c))
    \/ LifecycleStep
    \/ \E i \in Callers : Manual(i)
    \/ \E g \in Generations : Scheduler(g) \/ Recovery(g) \/ RecDeadline(g)
    \/ \E r \in RunIDs : Run(r)
    \/ StepBack

Spec == Init /\ [][Next]_vars

-----------------------------------------------------------------------------
(* Types of the variables.                                                 *)
SchedStates == [pc : {"none", "compute", "sleep", "start", "busy"},
                due : 0..MaxClock, canceled : BOOLEAN]

RunStates == [pc : {"none", "lock", "work", "call", "exit"},
              gen : 0..MaxGenerations, parent : 0..MaxGenerations,
              canceled : BOOLEAN]

RecStates == [pc : {"none", "list", "acquire", "locked", "scan", "good",
                    "failed", "exit"},
              ctx : {"live", "canceled", "expired"}]

CallStates == [pc : {"none", "service", "start"}, epoch : 0..MaxEpochs,
               gen : 0..MaxGenerations, cfg : Configs \cup {"none"}]

ControlType ==
    /\ epoch \in 1..MaxEpochs
    /\ gen \in 0..MaxGenerations /\ cfg \in Configs \cup {"none"}
    /\ lifecycle \in {"none", "apply", "cancel", "scheduler", "recovery",
                      "stop", "wait"}
    /\ captured \in RunIDs \cup {0}

StatusType ==
    /\ active \in RunIDs \cup {0} /\ next \in 0..MaxClock
    /\ recGen \in 0..MaxGenerations

FlagType ==
    /\ stopped \in BOOLEAN /\ recPending \in BOOLEAN /\ recError \in BOOLEAN

GoroutineType ==
    /\ sched \in [Generations -> SchedStates]
    /\ runs \in [RunIDs -> RunStates]
    /\ rec \in [Generations -> RecStates]
    /\ callers \in [Callers -> CallStates]

MemoryType ==
    /\ occurrences \in Seq(Slots) /\ Len(occurrences) <= MaxRemembered
    /\ skipped \in Nat
    /\ requests \in Nat /\ clock \in 0..MaxClock /\ stepBacks \in Nat
    /\ starts \in [Slots -> Nat] /\ scanned \subseteq Generations

TypeOK ==
    /\ ControlType /\ StatusType /\ FlagType
    /\ GoroutineType /\ MemoryType

(* One refresh run at a time: a run that has not finished is the one the   *)
(* status shows as active, whoever started it (management call, scheduler  *)
(* of this or of a replaced generation), and finishing the one never       *)
(* clears the other.                                                       *)
SingleFlight ==
    {r \in RunIDs : runs[r].pc \in {"lock", "work", "call"}} = {active} \ {0}

(* Once ApplyConfig or Shutdown has canceled, no model request is sent for *)
(* an earlier configuration: neither by a run already going nor by a       *)
(* management call or a timer that was on its way. (A request is sent when *)
(* abiHost.call has looked at its context for the last time.)              *)
StaleCall(r) ==
    /\ runs[r].pc = "work" /\ runs'[r].pc = "call"
    /\ lifecycle \notin {"cancel", "stop"}
    /\ runs[r].gen # gen \/ stopped

NoStaleCall == [][\A r \in RunIDs : ~StaleCall(r)]_vars

(* The next run time in the status was computed by the scheduler of the    *)
(* configuration in the status, which is still going.                      *)
NextIsCurrent ==
    next # 0 =>
        /\ ~stopped /\ ScheduleEnabled(cfg)
        /\ sched[gen].pc # "none" /\ ~sched[gen].canceled

(* While that scheduler waits for a time, the status shows that time.      *)
NextShown ==
    \A g \in Generations :
        g = gen /\ ~stopped /\ sched[g].pc = "sleep" => next = sched[g].due

(* The next run time in the status is that of the scheduler of the         *)
(* configuration in the status: no scheduler of a replaced configuration   *)
(* overwrites it with its own or withdraws it, however late it stops.      *)
NextTruthful == NextIsCurrent /\ NextShown

(* No slot of the schedule starts two runs, though the wall clock may be   *)
(* set back and the configuration replaced in between.                     *)
OccurrenceOnce == \A s \in Slots : starts[s] <= 1

(* When Shutdown has returned nothing of the plugin is running any more.   *)
ShutdownQuiet ==
    stopped /\ lifecycle = "none" => Alive = {} /\ active = 0 /\ PriorityFree

(* A status without pending recovery and without recovery error.           *)
AllClear ==
    /\ lifecycle = "none" /\ ~stopped /\ HostEnabled(cfg)
    /\ ~recPending /\ ~recError

(* Such a status means that the recovery of this configuration scanned     *)
(* every file, or that its deadline passed.                                *)
VerdictBacked == AllClear => gen \in scanned \/ rec[gen].ctx = "expired"

(* As the deployment guide reads it: such a status means that the recovery *)
(* has ended without error. (It does not hold: see the README.)            *)
VerdictTruthful == AllClear => gen \in scanned

-----------------------------------------------------------------------------
(* Goroutines run on, callers' steps return, timers fire, the host answers *)
(* a model call, Lock on a mutex that is free again and again is granted.  *)
(* A run need not come to its end as long as it is not canceled (it may    *)
(* poll a credential file without a deadline, see RefreshRun); a canceled  *)
(* one sends no more calls and ends.                                       *)
Fairness ==
    /\ WF_vars(LifecycleStep)
    /\ \A i \in Callers : WF_vars(ManualRead(i) \/ ManualStart(i))
    /\ \A g \in Generations :
          /\ WF_vars(Scheduler(g)) /\ WF_vars(SchedStop(g))
          /\ WF_vars(Recovery(g)) /\ WF_vars(RecDeadline(g))
    /\ \A r \in RunIDs :
          /\ SF_vars(RunLock(r)) /\ WF_vars(RunCallReturns(r))
          /\ WF_vars(RunCanceled(r) /\ RunFinish(r)) /\ WF_vars(RunExit(r))

FairSpec == Spec /\ Fairness

(* Shutdown returns: everything it waits for ends by itself.               *)
ShutdownEnds == stopped ~> (stopped /\ lifecycle = "none")

(* A pending recovery comes to an end, whoever holds priorityMu.           *)
PendingClears == recPending ~> ~recPending

(* A run of a configuration that was replaced, or of a service that was    *)
(* stopped, ends and makes room for the next, though it may have been      *)
(* asked for by a management call, wait for priorityMu behind another run  *)
(* or the recovery, or be in a call: the one that replaces it cancels it.  *)
ReplacedRunsEnd ==
    \A r \in RunIDs :
        active = r /\ (stopped \/ runs[r].gen # gen) ~> active # r
=============================================================================
