# A TLA+ model of cpa-auto-refresh-quota

`cpa-auto-refresh-quota` is a native plugin of CLIProxyAPI (CPA). At the
configured times, or on a management request, it sends one small model request
through each selected credential so that the quota windows of all credentials
start. CPA only routes to the credentials of the highest priority, so the plugin
raises the priority of its target in the credential's own file for the duration
of the request, and restores it afterwards. This directory holds TLA+ modules of
the plugin, the TLC configurations that check them, and TLAPS proofs.

Paths below are relative to the repository; `service.go`, `priority.go`,
`priority_service.go`, `schedule.go`, `config.go` and `filter.go` are in
`internal/refreshquota`, `main.go`, `pin.go` and `replace_*.go` in
`cmd/cpa-auto-refresh-quota`. `PROJECT.json` maps each definition to its lines.

## Inventory

| Component | State | Operations | Meets | Hard because |
|---|---|---|---|---|
| Priority marker (`priority.go`) | the file: `priority`, marker, the rest | build, decode, restore | transaction | bytes must survive; others write too |
| Priority transaction (`priority_service.go`) | lease, attempt, contexts | begin, restore, scan, wait | file access, runtime of CPA | crash, timeout, cancellation, CAS window |
| File access (`main.go`, `replace_*.go`) | temporary file | get, save (compare, write, sync, compare, replace) | transaction, disk | other writers, power loss, sharing violations |
| Refresh run (`executeRun`, `filter.go`) | report, targets, index | list, scan, select, raise, request, restore, wait | transaction, pinning, status | early ends, failing steps, stale records |
| Service (`service.go`) | configuration and generation, run slot, next slot, recovery status, occurrences | ApplyConfig, StartManual, scheduleLoop, recovery goroutine, Shutdown | run, entry points | goroutines outlive what started them |
| Entry points (`main.go`) | `runtimeService`, `abiHost.mu`, `serviceLifecycle` | register, reconfigure, shutdown, status, run, pick, host calls | service, host | host and plugin wait for each other |
| Pinning (`pin.go`, `ExecutePinned`) | token -> pin | register, match, mark, finish | host scheduler | callbacks are concurrent and late |
| Schedule (`schedule.go`) | none | NextOccurrence, OccurrenceID | service | daylight saving |
| Configuration (`config.go`) | none | parse, normalise, compare | service | equality decides on restarts |
| Request body (`request.go`) | none | format | run | |

What makes them correct:

* files: the priority and the tokens that CPA or a user wrote last are never
  lost, whatever happens between two steps of the plugin; no credential stays
  raised unnoticed, and never two are raised at once;
* service: one run at a time, no slot twice, no request for a configuration that
  was replaced, a status that tells the truth, and a shutdown that ends;
* run: a request only to those asked for, one each, and a report in which every
  target is accounted for;
* entry points: of the calls that wait for the host, none enters it once its
  context is done, and no circle of waiting;
* pinning: a request of the plugin goes to its credential or fails;
* schedule: a configured time is run when the wall shows it, once;
* configuration: what is in force is what the last document says, and the same
  document again changes nothing.

## Modules

**AuthFile** models `priority.go`. A file is a record of the raw priority (its
JSON form and number, because `"3"` and `3` read alike but must be restored as
they were), the marker (absent, decodable, undecodable) and a version number for
everything else. `BuildPriorityOverrideJSON` and the `Restore...` operators are
the two rewrites. `Effective(f)` is not in the code: what is left of a priority
if nothing but the file survives.

**PriorityLease** models what happens under `Service.priorityMu`: a task (run,
dry run, recovery) scans for markers, then raises, requests and restores one
credential after the other. One step per read of a file, comparison, rename and
wait, since CPA and users write in between. Variables: `file` and `manager`
(CPA's copy), `pc`, `job` (locals of `executeRun` and of the scan), `txn`
(locals of begin, restore and save), the two contexts `canceled` and `expired`.
Observers record what the outside world wanted (`intended`, `latest`) and the two
situations the code cannot tell apart: `raced` (a write after the last
comparison) and `aliased` (an outside priority equal to the override). The loop
order is left open, a listing may be any subset of the credentials, and a run
whose first listing fails has no effect and is not a step. Targets whose runtime
record is missing, mismatched or ineligible are `TargetSkipped`.

**Service** models `service.go` around that critical section, with one step per
block under `Service.mu`: `ApplyConfig` swaps, then cancels without the lock,
then starts scheduler and recovery; `StartManual` reads in one block and starts
in another; `scheduleLoop`; the recovery goroutine with its deadline; `Shutdown`.
`lifecycle` is the caller that holds `serviceLifecycle`. Schedule slots are
numbers; the wall clock moves when a timer fires and may be set back. A
configuration is one of `bad` (does not parse), `off` (host disabled), `manual`,
`daily`, `hourly` (two different schedules). A model call counts as sent when its
last look at the context has succeeded (`abiHost.call`).

**PinRegistry** models `pin.go` and `ExecutePinned` with one step per block under
the registry's lock. The n-th random token is the number n: tokens of 256 random
bits are taken to be distinct. The host is external: it makes any attempts, with
any candidates, in any number of callbacks, also after the call has returned;
headers arrive as sent, emptied, repeated, or beside another value. A host either
asks `scheduler.pick` for all attempts of a call or for none (`consults`).

**CredentialFiles** is the abstract specification of PriorityLease: to the owner
a file is a priority and tokens, which the plugin may have raised for a while.
Raise and restore keep both; an owner's write counts; only an `exposed` file may
lose something. PriorityLease implements it with `owner` being `Effective`,
`token` the version of the rest, `raised` a decodable marker, and `exposed` the
two observers `raced` and `aliased` (`Promise`, `PromiseKept`).

**FileReplace** opens up the two steps that PriorityLease takes for single ones, a
comparison and a replacement, at the level of system calls: names, inodes,
temporary file, `Sync`, rename or `ReplaceFileW`, directory sync. On Windows a
sharing violation ends an attempt where the file is opened, locked or replaced; after
a pause the next one starts over. The temporary file is removed on each way out,
which may fail without notice. Another writer opens, truncates, writes and closes,
or renames a file of its own into place. After a power loss data that was not
synced may be gone in part, and a name may be the older one. `ReplaceFileW` and
`MoveFileExW` are taken to be atomic. Its `NothingUnseenReplaced` is why
PriorityLease needs `raced` for that one window only.

**RefreshRun** models one run: the validation of the body of `POST run`,
`FilterAuths` and `AuthEligible`, and `executeRun` with its report and all early
ends. A step is a host call or a block under `Service.mu`. Beginning and restoring
a priority have only their possible results here. `disabled` stands for the flag
and the status of that name; `sort.Slice` is not stable, so `Sortings` has every
order it may leave. `BuildRequestBody` cannot fail for the strings it is given.

**Schedule** models `NextOccurrence`, `OccurrenceID` and `scheduleLoop` over zones
whose offset changes. Moments and wall times are numbers, days have `DayLen`
units; `Local` and `Date` are what `Time.In` and `time.Date` compute, including the
second look-up `time.Date` makes. `late` records moments at which a timer was
overdue. `ZoneAssumption` excludes gaps that begin shortly after midnight (00:01
in St. John's until 2011), over which `AddDate` could step to the following day.

**Configuration** models `ParseConfig`, `Equivalent` and their use in `ApplyConfig`.
A text is a word with or without blanks and capitals, a daily time the sequence
of its numbers, so that `8:00` and `08:00:00` are spelled differently and mean the
same. `location` tells objects apart that `Equivalent` must not compare.

**HostBridge** models the calls in both directions and the locks they cross:
`abiHost.call` with a look at the context, `abiHost.mu`, a second look and the entry
into the host as steps of their own, the host that asks `scheduler.pick` before it answers, `serviceLifecycle` held by Shutdown while
it waits. A goroutine is its sequence of host calls; contexts have a clock.

The modules fit together at their abstractions: Service calls RefreshRun's whole
loop a run, RefreshRun calls PriorityLease's begin and restore single steps, and
PriorityLease calls FileReplace's save a comparison and a rename. Service takes
from Schedule an increasing sequence of slots and from Configuration one of five
kinds of configuration.

The modules named **..._proofs** hold the theorems about the module they are named
after, the modules named **MC...** the small instances.

The types of the variables are part of each inductive invariant, and so proved. In
Service and RefreshRun, where they are long, `TypeOK` is a conjunction of named
parts and no property of a run.

Operators introduced by the word *Mutant* are faulty variants of the definition
that follows; they are used to see that a property can fail.

## Runs

| Run | Question | Bounds |
|---|---|---|
| `lease_files` | Is a priority ever lost or left raised, over two files raised in turn, one shared by two credentials? | one run and any number of scans, one outside write, one fault, on top of what a crash may have left |
| `lease_churn` | Do tokens and edits survive a file that keeps changing, as CredentialFiles promises, and does every marker go away? | one file, three outside writes: each attempt of a save can fail; one fault |
| `service_control` | Does the status belong to the current configuration and name its next slot, and is a slot run twice? | two configurations of each of two services, one slot, one step back |
| `service_requests` | Single flight, stale work, quiet after shutdown, and does what was replaced or stopped end? | two configurations, one caller, one slot |
| `service_verdict` | Does a clear status mean a finished recovery? (it does not) | one configuration |
| `pin_routing` | Does a request leave its pin? | two credentials, two callbacks, two calls |
| `run_report` | Who gets a request, and does the report account for all? | listings of up to three of seven records, three configurations, eight bodies, one run |
| `schedule_dst` | Is a time missed, repeated or run when it does not exist? | days of 6 units, one or two changes of up to 6 units at any time of day, pairs of times, three and a half days, one late moment |
| `config_reload` | Is the last document in force, and a repetition no change? | each setting changed alone, at its bounds and beyond, three documents in a row |
| `bridge_locks` | How much enters the host after the contexts are canceled, and does anything wait in a circle? | a run, the scheduler and the recovery |
| `bridge_timeout` | Does `request_timeout` bound a request? (it does not) | one request |
| `file_replace` | Is a credential ever torn, copied or overwritten unseen? | saves as long as there are three inodes, outside writes up to the fourth content, two errors, crashes or power losses |

The bounds are what the interesting cases need: a second configuration, service,
file or call for every "while the first is still going"; three outside writes to
exhaust three attempts. `MaxFaults` and `MaxExternal`
count failing host calls, timeouts, cancellations and crashes, and outside writes.
`OccurrenceOnce` is checked with a memory that holds every slot; a slot that was
trimmed does run again when the clock goes back that far. Runs of Service switch off the deadlock
check: a stopped service whose bounds are used up may stop.

Fairness: the Go scheduler runs every goroutine and host calls return (weak
fairness of each loop), a timer fires, a mutex that is free again and again is
granted (strong fairness of `RunLock`: `sync.Mutex` has a starvation mode; the
recovery polls with `TryLock` and is bounded by its deadline instead), and a run
whose context is canceled finds that out and ends. Nothing is assumed of a run that
nobody cancels: it may go on for ever, and `ReplacedRunsEnd` says only of the runs
of a replaced configuration or a stopped service that they end. For
`MarkersCleared` a scan over all credentials must start again and again, which
is what the schedule, or a restart of CPA, does.

RefreshRun looks inside a run: `RunEnds` holds only up to `AtFile`. A scan and a
raise poll a file under the context of the run, which has no deadline
(`getAuthFileUntil`, and the Windows `replaceAuthFileCAS`, hence `SaveEnds` with
its exception), so a file that stays unreadable or open holds up a run until a
reconfiguration or a shutdown cancels it. HostBridge assumes that the host returns
from each call, and nothing about when.

### What the violated runs show

`service_verdict`: the startup recovery has 30 seconds. `lockPriority` tries the
lock before it looks at the context, so a recovery whose time ran out during the
listing can still get `priorityMu`; it then finds its context done and returns
(`service.go:174`). No result is set, and the deferred clean-up clears
`priority_recovery_pending`. The status now shows no pending recovery and no
error, which `docs/DEPLOYMENT.md:117` and `docs/INVESTIGATION.md:229` take for a
recovery that ended well, but no file was scanned. `VerdictBacked` states what
does hold: such a status means a complete scan, or a passed deadline.

`bridge_timeout`: `request_timeout` is described as the longest time a model
request takes (`docs/CONFIGURATION.md:36`, `main.go:280`), and
`docs/INVESTIGATION.md:195` counts on it to limit how long a credential stays
raised. `abiHost.call` looks at the context before it enters the host and not
again, and does not pass the deadline on; a request that hangs keeps `abiHost.mu`,
`priorityMu` and the raised priority for as long as the host takes.
`OneLateCall` states what does hold: once the contexts are canceled no call that was
waiting for the lock enters the host, and at most one does, which had the lock and
its second look behind it.

Not a run, because the documentation says so itself: the window between
comparison and rename (`docs/INVESTIGATION.md:193`). The model excepts just that
window (`raced`).

## Proofs

All theorems hold for all values of the constants, from the named assumptions of
the modules: distinct marker values, `FileOf` a function on the physical
credentials, contents and documents of the right type, bounds that are numbers, no
goroutine named like the free lock. None of the properties proved is inductive as
it stands, except where it says so; each module strengthens it to an invariant
`IInv` made of named parts.

**PriorityLease_proofs**

* `TypeCorrect`, `Restorable` (`RestorableToIntended`) and `TokensKept`
  (`TokensPreserved`). `IInv` adds `TxnShape` (which fields of `txn` are
  meaningful where), `PendingOK` (what is about to be written was built from the
  snapshot by a rewrite that was allowed), `RenameFresh` (at the rename the file
  still is the snapshot, unless `raced`) and `LeaseVisible` (a lease without its
  marker in the file stands beside a priority that is not the override, unless
  `aliased` or `raced`). With these, `Rename` is the one step that has to show
  that the two rewrites keep `Effective`; the outside writes set the observers;
  all other steps are `Quiet`.
* `KeepsPromise` (`PromiseKept`) is the refinement of CredentialFiles. Of the
  plugin's steps only `Rename` changes what an owner sees (`OnlyWritesShow`); with
  `PendingOK` and `RenameFresh` it is a raise or a restore that keeps the owner's
  priority and tokens, or meets an exposed file (`RenameKeepsPromise`).
* `OneBoost` (`SingleBoost`) and `CleanEnd` (`CleanAfterTask`), from a second
  invariant `MarkerInv` on top of `IInv`: `ScanShape` says that, as long as the scan
  has met no error, a listed file with a marker is still to be visited or is the
  one being restored; `RestoreShape` that a restore that waits for the runtime has
  nothing left to restore.
* `LeaseKept` (`LeaseNeverDropped`): a lease is given up with its marker removed, or
  as a failure for which the restore has a reason of its own: its own time ran out,
  a fault, or an outside write since it has read the file (`SnapKept`: without one it
  still is what was read). The canceled context of the run is no such reason.

**FileReplace_proofs**: `Whole` (`WholeUnlessOutside`), `SeenOnly`
(`NothingUnseenReplaced`) and `NothingLeft` (`CopiesExcused`). After a power loss the
name may be any older inode that a directory on the disk still knows, so `IInv`
speaks of all of those (`PluginsWhole`), and of the temporary file that is going
to be one: whole once written, and on the disk once synced. That is the reason for
the order write, sync, compare, replace. `Compared` says that between comparison
and replacement the file is what was compared, or another writer has begun since;
a sharing violation puts an end to that, and the next attempt compares anew.

**Service_proofs**

* `OneRun` (`SingleFlight`), `NextTrue` (`NextTruthful`), `QuietAfterShutdown`
  (`ShutdownQuiet`), `Backed` (`VerdictBacked`) and `NoLateCall` (`NoStaleCall`).
  `IInv` says for each kind of goroutine how it relates to the generation and to
  the caller that holds `serviceLifecycle`. ApplyConfig cancels after it has left
  `Service.mu`, so for a while a run of the replaced configuration is not canceled
  yet: `StaleShape` says that this is only the run it has captured, and only until
  it cancels. `VerdictShape` follows the recovery of the current configuration
  through every way it may end.
* `OccurrenceOnce` does not hold without a condition: a slot that was dropped
  from the memory starts again when the clock goes back that far. It is proved in
  the two cases in which it does: `OnceInMemory`, when there are no more slots
  than are remembered (`MemoryShape`: each started slot is in memory, once),
  however often the clock goes back; and `OnceByTheClock`, when the clock is
  never set back (`ClockShape`: what was started is past, what the current
  scheduler waits for is not), however small the memory is.

**RefreshRun_proofs**: `Counted` (`CountsAddUp`), `Complete`
(`CompleteUnlessSaid`), `AtMostOnce` (`OneRequestEach`), `Asked` (`OnlyAsked`) and
`Reported` (`LeftoverReported`), for any listings, records, bodies and answers of
the host. `LoopShape` ties the report to the loop: as many results as targets
handled, in the targets' order, and an error only on the way to the stop;
`SentShape` ties each request to a target that the loop has been at. That two
requests never go to one credential then rests on `HasDuplicateAuthIdentity`
being refused before the loop and on the runtime record having to be the target's.

**Schedule_proofs**: `OnTheWall` (`FiresOnTheWall`) and `OnceOnTheWall`
(`OncePerWallTime`) hold in any zone, without `ZoneAssumption`. `IInv` says that
the moment waited for is the one `time.Date` makes of its wall time, and is later
than all that were started. A wall time shown twice has one such moment, so it is
not started twice.

`NoneMissed` (`NothingMissed`) and `AlwaysNext` (`NeverGivesUp`) are proved for
zones that keep `ZoneAssumption` and are `Regular`: offsets and changes of at most
a day, changes at least a week apart, as under all rules in force. The zones
of the run also put two changes a day apart, which only TLC covers, so the two
complement each other. `AlwaysNext` also assumes that there is a configured time
and that at least four days are looked at (the code looks at 370).

* `OneChange`: a week sees at most one change, so all that follows is about an
  offset `p` before and `q` after one moment `a`. From it come what Date does with a
  wall time that is shown (`ShownExists`, `DateMonotone`), and with one that is not:
  it is in a gap (`InGap`), and if its day is not kept the gap begins at midnight
  (`MidnightGap`).
* `NextIsLeast`: NextOccurrence passes over no occurrence of today or of a later
  day. The days AddDate arrives at may repeat but do not step over one that has an
  occurrence of its own left (`StepOver`).
* An occurrence of an *earlier* local day can still be ahead, when an hour around
  midnight is repeated. `Caught` is the invariant that rules it out: a wall time
  shown on time that is not answered is not before the moment waited for, and all
  moments after that one were late.
* `AlwaysDay`: one of the next three days has every configured time, after the
  present, and AddDate arrives at it.

**Configuration_proofs**: `TakesEffect` (`ReloadTakesEffect`) and
`RepetitionIgnored` (`RepetitionChangesNothing`), for any documents. Two calls of
ParseConfig with one document differ in `location` only, and `Equivalent` compares
all the rest. `FiltersKept` (`FiltersNeverWiden`) holds for lists of any length:
NormalizeStrings is a recursive function of the rounds of its loop, shown to exist
(`KeptExists`) and followed round by round (`NormalizedWords`) with `SetInduction`,
the induction principle stated for a set of numbers.

**HostBridge_proofs**: `OneAtMost` (`OneLateCall`) and `LeftAlone` (`HostLeftAlone`,
stated beside its proof), that one call at a time is in the host and none after
plugin.shutdown has returned. `LockShape` says who is past the lock, so at most one
goroutine; `LateShape` that after the one late call nobody else is past the second
look with a canceled context, and nobody passes it any more.

**PinRegistry_proofs**: `TypeCorrect`, `OnlyPinned`, `Pinned`, `Bounded` and
`SelectionKept`. `IInv` says that a pin belongs to the call going on and names
its credential, that a matched callback serves the call whose token it
matched, and that a selected pin has a request on its credential.

Only model-checked: liveness, which is out of the prover's reach (`MarkersCleared`,
`ShutdownEnds`, `PendingClears`, `ReplacedRunsEnd`, `EntryPointsReturn`, `RunEnds`,
`SaveEnds`), and the schedule in zones with changes less than a week apart. All
safety invariants and action properties of the passing runs are theorems.

## Not modelled

JSON and YAML text and its parsing (a file that is not an object is a read that
fails, a document that does not decode is not `well`), logging, HTTP codes, the
wording of errors, request formatting, `Config.Summary`, C memory; checks of paths
and sizes other than as errors; a Windows replacement that fails half-way; several
CPA processes on one directory, which the documentation rules out.

## Plan

What the project does not have yet: a composition of Service and PriorityLease at
`priorityMu`, and of PriorityLease and FileReplace at a save.
