---------------------------- MODULE Service_proofs ----------------------------
(***************************************************************************)
(* Proofs about Service, for any number of callers, configurations,        *)
(* services and slots.                                                     *)
(***************************************************************************)
EXTENDS Service, FiniteSetTheorems, TLAPS

(* The states of a run that has not finished.                              *)
Going == {"lock", "work", "call"}

(* Which part of ApplyConfig or Shutdown the caller that holds             *)
(* serviceLifecycle can be in.                                             *)
LifecycleShape ==
    /\ lifecycle \in {"apply", "cancel", "scheduler", "recovery"} => ~stopped
    /\ lifecycle \in {"stop", "wait"} => stopped
    /\ lifecycle \in {"cancel", "scheduler", "recovery"} => gen # 0
    /\ cfg # "none" => gen # 0
    /\ lifecycle = "scheduler" => ScheduleEnabled(cfg)
    /\ lifecycle = "recovery" => HostEnabled(cfg)

(* The scheduler of the current generation is not started before the       *)
(* others were canceled, and canceled only to make room.                   *)
SchedulerShape ==
    \A g \in Generations : sched[g].pc # "none" =>
        /\ g <= gen
        /\ sched[g].pc = "start" => sched[g].due # 0
        /\ g = gen =>
              /\ lifecycle \notin {"cancel", "scheduler"}
              /\ ~stopped => ScheduleEnabled(cfg) /\ ~sched[g].canceled

(* A run belongs to a generation that there was, and to a scheduler that   *)
(* was started.                                                            *)
RunShape ==
    \A r \in RunIDs : runs[r].pc \in Going =>
        /\ runs[r].gen <= gen /\ runs[r].parent <= gen
        /\ lifecycle \in {"cancel", "scheduler"} => runs[r].parent # gen

(* A run of a replaced configuration or a stopped service is canceled, or  *)
(* is the one about to be.                                                 *)
StaleShape ==
    \A r \in RunIDs :
        runs[r].pc \in Going /\ (runs[r].gen # gen \/ stopped) =>
            \/ RunCanceled(r)
            \/ lifecycle \in {"cancel", "stop"} /\ r = captured

(* After Shutdown has returned all goroutines have ended.                  *)
AllEnded ==
    stopped /\ lifecycle = "none" =>
        /\ \A g \in Generations : sched[g].pc = "none" /\ rec[g].pc = "none"
        /\ \A r \in RunIDs : runs[r].pc = "none"

(* recoveryGeneration is that of the recovery at work.                     *)
RecoveryShape ==
    /\ \A g \in Generations : rec[g].pc # "none" => g <= gen
    /\ recGen # 0 => recGen = gen
    /\ stopped \/ lifecycle # "none" \/ ~HostEnabled(cfg) => recGen = 0
    /\ lifecycle \in {"cancel", "scheduler", "recovery"} => rec[gen].pc = "none"

(* As long as the recovery of the current configuration is on its way the  *)
(* status says pending; when it ends there is a result, or its time ran    *)
(* out.                                                                    *)
VerdictShape ==
    lifecycle = "none" /\ ~stopped /\ HostEnabled(cfg) =>
        /\ rec[gen].ctx # "canceled"
        /\ rec[gen].pc \notin {"exit", "none"} => recGen = gen /\ recPending
        /\ rec[gen].pc = "good" => gen \in scanned
        /\ rec[gen].pc \in {"exit", "none"} =>
              recError \/ gen \in scanned \/ rec[gen].ctx = "expired"

-----------------------------------------------------------------------------
(* What the steps of a goroutine do to its state.                          *)

(* A run moves on.                                                         *)
LEMMA RunMoves ==
    ASSUME TypeOK, NEW r \in RunIDs,
           NEW to \in {"none", "lock", "work", "call", "exit"},
           runs' = [runs EXCEPT ![r].pc = to]
    PROVE  /\ runs' \in [RunIDs -> RunStates]
           /\ runs'[r].pc = to
           /\ \A q \in RunIDs : /\ runs'[q].gen = runs[q].gen
                                /\ runs'[q].parent = runs[q].parent
                                /\ runs'[q].canceled = runs[q].canceled
                                /\ q # r => runs'[q].pc = runs[q].pc
<1>1. runs \in [RunIDs -> RunStates]
  BY DEF TypeOK, GoroutineType
<1>2. \A q \in RunIDs : runs[q] \in RunStates
  BY <1>1
<1>3. \A q \in RunIDs :
         runs'[q] = IF q = r THEN [runs[q] EXCEPT !.pc = to] ELSE runs[q]
  BY <1>1
<1>4. \A q \in RunIDs : [runs[q] EXCEPT !.pc = to] \in RunStates
  BY <1>2 DEF RunStates
<1> QED
  BY <1>1, <1>2, <1>3, <1>4 DEF RunStates

(* startRun starts a run under an id that is free.                         *)
LEMMA RunStarts ==
    ASSUME TypeOK, NEW g \in 0..MaxGenerations,
           NEW parent \in 0..MaxGenerations, Launch(g, parent)
    PROVE  /\ runs' \in [RunIDs -> RunStates]
           /\ active = 0
           /\ \E r \in RunIDs :
                 /\ active' = r /\ r # 0 /\ r # captured
                 /\ runs[r].pc = "none" /\ runs'[r].pc = "lock"
                 /\ runs'[r].gen = g /\ runs'[r].parent = parent
                 /\ \A q \in RunIDs : q # r => runs'[q] = runs[q]
<1> DEFINE new == [NoRun EXCEPT !.pc = "lock", !.gen = g, !.parent = parent]
<1>1. runs \in [RunIDs -> RunStates]
  BY DEF TypeOK, GoroutineType
<1>2. new \in RunStates /\ new.pc = "lock" /\ new.gen = g
        /\ new.parent = parent
  BY DEF NoRun, RunStates
<1>3. PICK r \in Fresh : active' = r /\ runs' = [runs EXCEPT ![r] = new]
  BY DEF Launch
<1>4. r \in RunIDs /\ r # 0 /\ r # captured /\ runs[r].pc = "none"
  BY <1>3, ServiceAssumption DEF Fresh
<1> HIDE DEF new
<1> QED
  BY <1>1, <1>2, <1>3, <1>4 DEF Launch

(* A scheduler moves on.                                                   *)
LEMMA SchedMoves ==
    ASSUME TypeOK, NEW g \in Generations,
           NEW to \in {"none", "compute", "sleep", "start", "busy"},
           NEW d \in 0..MaxClock,
           \/ sched' = [sched EXCEPT ![g].pc = to, ![g].due = d]
           \/ sched' = [sched EXCEPT ![g].pc = to] /\ d = sched[g].due
    PROVE  /\ sched' \in [Generations -> SchedStates]
           /\ sched'[g].pc = to /\ sched'[g].due = d
           /\ \A h \in Generations :
                 /\ sched'[h].canceled = sched[h].canceled
                 /\ h # g => sched'[h] = sched[h]
<1>1. sched \in [Generations -> SchedStates]
  BY DEF TypeOK, GoroutineType
<1>2. \A h \in Generations : sched[h] \in SchedStates
  BY <1>1
<1> DEFINE moved == [sched[g] EXCEPT !.pc = to, !.due = d]
<1>3. /\ moved \in SchedStates /\ moved.pc = to /\ moved.due = d
      /\ moved.canceled = sched[g].canceled
  BY <1>2 DEF SchedStates
<1>4. [sched[g] EXCEPT !.pc = to] = moved \/ d # sched[g].due
  BY <1>2 DEF SchedStates
<1>5. sched' = [sched EXCEPT ![g] = moved]
  BY <1>1, <1>4
<1> HIDE DEF moved
<1> QED
  BY <1>1, <1>2, <1>3, <1>5

(* A recovery moves on.                                                    *)
LEMMA RecMoves ==
    ASSUME TypeOK, NEW g \in Generations,
           NEW to \in {"none", "list", "acquire", "locked", "scan", "good",
                       "failed", "exit"},
           rec' = [rec EXCEPT ![g].pc = to]
    PROVE  /\ rec' \in [Generations -> RecStates]
           /\ rec'[g].pc = to /\ rec'[g].ctx = rec[g].ctx
           /\ \A h \in Generations : h # g => rec'[h] = rec[h]
<1>1. rec \in [Generations -> RecStates]
  BY DEF TypeOK, GoroutineType
<1>2. \A h \in Generations : rec[h] \in RecStates
  BY <1>1
<1> DEFINE moved == [rec[g] EXCEPT !.pc = to]
<1>3. moved \in RecStates /\ moved.pc = to /\ moved.ctx = rec[g].ctx
  BY <1>2 DEF RecStates
<1>4. rec' = [rec EXCEPT ![g] = moved]
  BY <1>1
<1> HIDE DEF moved
<1> QED
  BY <1>1, <1>2, <1>3, <1>4

(* The cancel functions only change contexts.                              *)
LEMMA CancelEffect ==
    ASSUME TypeOK, CancelAll
    PROVE  /\ sched' \in [Generations -> SchedStates]
           /\ \A g \in Generations :
                 /\ sched'[g].pc = sched[g].pc /\ sched'[g].due = sched[g].due
                 /\ sched[g].canceled \/ sched[g].pc # "none" =>
                       sched'[g].canceled
           /\ runs' \in [RunIDs -> RunStates]
           /\ \A r \in RunIDs :
                 /\ runs'[r].pc = runs[r].pc /\ runs'[r].gen = runs[r].gen
                 /\ runs'[r].parent = runs[r].parent
                 /\ runs[r].canceled \/ r = captured => runs'[r].canceled
           /\ rec' \in [Generations -> RecStates]
           /\ \A g \in Generations :
                 /\ rec'[g].pc = rec[g].pc
                 /\ rec[g].pc = "none" => rec'[g].ctx = rec[g].ctx
           /\ captured' = 0
<1>1. /\ \A g \in Generations : sched[g] \in SchedStates
      /\ \A g \in Generations : rec[g] \in RecStates
      /\ \A r \in RunIDs : runs[r] \in RunStates
  BY DEF TypeOK, GoroutineType
<1>2. ASSUME NEW g \in Generations
      PROVE  /\ sched'[g] \in SchedStates
             /\ sched'[g].pc = sched[g].pc /\ sched'[g].due = sched[g].due
             /\ sched[g].canceled \/ sched[g].pc # "none" =>
                   sched'[g].canceled
  <2>1. sched'[g] = [sched[g] EXCEPT
                        !.canceled = sched[g].canceled \/ sched[g].pc # "none"]
    BY DEF CancelAll
  <2> QED
    BY <1>1, <2>1 DEF SchedStates
<1>3. ASSUME NEW r \in RunIDs
      PROVE  /\ runs'[r] \in RunStates
             /\ runs'[r].pc = runs[r].pc /\ runs'[r].gen = runs[r].gen
             /\ runs'[r].parent = runs[r].parent
             /\ runs[r].canceled \/ r = captured => runs'[r].canceled
  <2>1. runs'[r] = [runs[r] EXCEPT !.canceled = runs[r].canceled
                                                   \/ r = captured]
    BY DEF CancelAll
  <2> QED
    BY <1>1, <2>1 DEF RunStates
<1>4. ASSUME NEW g \in Generations
      PROVE  /\ rec'[g] \in RecStates /\ rec'[g].pc = rec[g].pc
             /\ rec[g].pc = "none" => rec'[g].ctx = rec[g].ctx
  <2> DEFINE ctx == IF rec[g].pc # "none" /\ rec[g].ctx = "live"
                    THEN "canceled" ELSE rec[g].ctx
  <2>1. rec'[g] = [rec[g] EXCEPT !.ctx = ctx]
    BY DEF CancelAll
  <2> QED
    BY <1>1, <2>1 DEF RecStates
<1> QED
  BY <1>2, <1>3, <1>4 DEF CancelAll

(* The memory of occurrences is trimmed to its size.                       *)
LEMMA RememberType ==
    ASSUME NEW seq \in Seq(Slots), Len(seq) <= MaxRemembered, NEW s \in Slots
    PROVE  /\ Remember(seq, s) \in Seq(Slots)
           /\ Len(Remember(seq, s)) <= MaxRemembered
BY ServiceAssumption DEF Remember

-----------------------------------------------------------------------------
(* What a step that leaves a part of the state alone leaves of the         *)
(* invariant.                                                              *)

SchedulerPart == SchedulerShape /\ NextIsCurrent
RunPart == SingleFlight /\ RunShape /\ StaleShape
RecoveryPart == RecoveryShape /\ VerdictShape

(* Schedulers are not touched.                                             *)
LEMMA SchedulersKept ==
    ASSUME SchedulerPart, UNCHANGED <<settings, lifecycle, sched, next>>
    PROVE  SchedulerPart'
BY DEF SchedulerPart, SchedulerShape, NextIsCurrent, settings, ScheduleEnabled

(* Recoveries are not touched.                                             *)
LEMMA RecoveriesKept ==
    ASSUME RecoveryPart, UNCHANGED <<settings, lifecycle, rec, recovery, scanned>>
    PROVE  RecoveryPart'
BY DEF RecoveryPart, RecoveryShape, VerdictShape, settings, recovery,
       HostEnabled

(* Runs may go on; contexts that are done stay done.                       *)
LEMMA RunsKept ==
    ASSUME TypeOK, TypeOK', RunPart, UNCHANGED <<settings, lock>>,
           {r \in RunIDs : runs'[r].pc \in Going} =
              {r \in RunIDs : runs[r].pc \in Going},
           UNCHANGED active,
           \A r \in RunIDs : /\ runs'[r].gen = runs[r].gen
                             /\ runs'[r].parent = runs[r].parent
                             /\ runs'[r].canceled = runs[r].canceled,
           \A g \in Generations : sched[g].canceled => sched'[g].canceled
    PROVE  RunPart'
<1>1. \A r \in RunIDs : runs'[r].pc \in Going <=> runs[r].pc \in Going
  OBVIOUS
<1>2. SingleFlight'
  BY DEF RunPart, SingleFlight, Going
<1>3. RunShape'
  BY <1>1 DEF RunPart, RunShape, settings, lock
<1>4. ASSUME NEW r \in RunIDs, RunCanceled(r) PROVE RunCanceled(r)'
  <2>1. runs[r].parent \in 0..MaxGenerations
    BY DEF TypeOK, GoroutineType, RunStates
  <2> QED
    BY <1>4, <2>1, ServiceAssumption DEF RunCanceled, Generations
<1>5. StaleShape'
  BY <1>1, <1>4 DEF RunPart, StaleShape, settings, lock
<1> QED
  BY <1>2, <1>3, <1>5 DEF RunPart

(* A goroutine of a service that has stopped does not move.                *)
LEMMA EndedKept ==
    ASSUME AllEnded, UNCHANGED <<settings, lifecycle>>,
           \/ \E g \in Generations : sched[g].pc # "none" \/ rec[g].pc # "none"
           \/ \E r \in RunIDs : runs[r].pc # "none"
           \/ UNCHANGED <<sched, rec, runs>>
           \/ ~stopped
    PROVE  AllEnded'
BY DEF AllEnded, settings


(* The inductive invariant.                                                *)
IInv ==
    /\ TypeOK /\ LifecycleShape /\ AllEnded
    /\ SchedulerPart /\ RunPart /\ RecoveryPart

(* A step that touches no goroutine and no status.                         *)
LEMMA OthersKept ==
    ASSUME IInv, TypeOK',
           UNCHANGED <<settings, active, next, recovery, sched, runs, rec,
                       lock, scanned>>
    PROVE  IInv'
<1>1. LifecycleShape' /\ AllEnded'
  BY DEF IInv, LifecycleShape, AllEnded, settings, lock, ScheduleEnabled,
         HostEnabled
<1>2. SchedulerPart' /\ RecoveryPart'
  BY SchedulersKept, RecoveriesKept DEF IInv, lock
<1>3. RunPart'
  BY RunsKept DEF IInv
<1> QED
  BY <1>1, <1>2, <1>3 DEF IInv

-----------------------------------------------------------------------------
(* What each step does to the invariant.                                   *)

(* The invariant holds initially.                                          *)
LEMMA InitInv == Init => IInv
<1> SUFFICES ASSUME Init PROVE IInv
  OBVIOUS
<1>1. /\ NoSched \in SchedStates /\ NoRun \in RunStates
      /\ NoRec \in RecStates /\ NoCall \in CallStates
      /\ NoSched.pc = "none" /\ NoRun.pc = "none" /\ NoRec.pc = "none"
  BY ServiceAssumption DEF NoSched, NoRun, NoRec, NoCall, SchedStates,
     RunStates, RecStates, CallStates
<1>2. TypeOK
  <2>1. ControlType
    BY ServiceAssumption DEF Init, ControlType
  <2>4. StatusType
    BY ServiceAssumption DEF Init, StatusType
  <2>5. FlagType
    BY Zenon DEF Init, FlagType
  <2>2. GoroutineType
    BY <1>1 DEF Init, GoroutineType
  <2>3. MemoryType
    BY ServiceAssumption DEF Init, MemoryType
  <2> QED
    BY <2>1, <2>2, <2>3, <2>4, <2>5 DEF TypeOK
<1>3. LifecycleShape /\ AllEnded
  BY <1>1 DEF Init, LifecycleShape, AllEnded
<1>4. SchedulerPart
  BY <1>1 DEF Init, SchedulerPart, SchedulerShape, NextIsCurrent
<1>5. RunPart
  BY <1>1 DEF Init, RunPart, SingleFlight, RunShape, StaleShape, Going
<1>6. RecoveryPart
  BY <1>1 DEF Init, RecoveryPart, RecoveryShape, VerdictShape, HostEnabled
<1> QED
  BY <1>2, <1>3, <1>4, <1>5, <1>6 DEF IInv

(* A stopped service is replaced when all of its goroutines have ended.    *)
LEMMA NewServiceInv == IInv /\ NewService => IInv'
<1> SUFFICES ASSUME IInv, NewService PROVE IInv'
  OBVIOUS
<1>1. /\ NoSched \in SchedStates /\ NoRec \in RecStates
      /\ NoSched.pc = "none" /\ NoRec.pc = "none"
  BY ServiceAssumption DEF NoSched, NoRec, SchedStates, RecStates
<1>2. TypeOK'
  <2> USE DEF IInv, TypeOK, NewService
  <2>1. ControlType'
    BY ServiceAssumption DEF ControlType
  <2>4. StatusType'
    BY ServiceAssumption DEF StatusType
  <2>5. FlagType'
    BY Zenon DEF FlagType
  <2>2. GoroutineType'
    BY <1>1 DEF GoroutineType
  <2>3. MemoryType'
    BY ServiceAssumption DEF MemoryType, outside
  <2> QED
    BY <2>1, <2>2, <2>3, <2>4, <2>5
<1>3. LifecycleShape' /\ AllEnded'
  BY DEF NewService, LifecycleShape, AllEnded, ScheduleEnabled, HostEnabled
<1>4. SchedulerPart'
  BY <1>1 DEF NewService, SchedulerPart, SchedulerShape, NextIsCurrent
<1>5. \A r \in RunIDs : runs'[r].pc = "none"
  BY DEF IInv, NewService, AllEnded
<1>6. RunPart'
  BY <1>5 DEF NewService, RunPart, SingleFlight, RunShape, StaleShape, Going
<1>7. RecoveryPart'
  BY <1>1 DEF NewService, RecoveryPart, RecoveryShape, VerdictShape,
              HostEnabled
<1> QED
  BY <1>2, <1>3, <1>4, <1>6, <1>7 DEF IInv

(* ApplyConfig under mu: what was current is to be canceled from now on.   *)
LEMMA ApplyConfigInv ==
    ASSUME IInv, NEW c \in Configs, ApplyConfig(c)
    PROVE  IInv'
<1>1. gen' = gen + 1 /\ gen \in 0..MaxGenerations /\ gen' \in Generations
  BY ServiceAssumption DEF IInv, TypeOK, ControlType, ApplyConfig, Generations
<1>2. TypeOK'
  <2> USE DEF IInv, TypeOK, ApplyConfig
  <2>1. ControlType'
    BY <1>1, ServiceAssumption DEF ControlType, StatusType, Generations
  <2>4. StatusType'
    BY ServiceAssumption DEF StatusType
  <2>5. FlagType'
    BY Zenon DEF FlagType
  <2>2. GoroutineType' /\ MemoryType'
    BY DEF GoroutineType, MemoryType, outside, schedule
  <2> QED
    BY <2>1, <2>2, <2>4, <2>5
<1>3. ~stopped /\ lifecycle \in {"none", "apply"}
  BY DEF IInv, LifecycleShape, ApplyConfig
<1>4. LifecycleShape' /\ AllEnded'
  BY <1>1, <1>3 DEF ApplyConfig, LifecycleShape, AllEnded
<1>5. SchedulerPart'
  BY <1>1, <1>3, ServiceAssumption
     DEF IInv, SchedulerPart, SchedulerShape, NextIsCurrent, ApplyConfig,
         Generations
<1>6. SingleFlight'
  BY DEF IInv, RunPart, SingleFlight, ApplyConfig
<1>7. \A r \in RunIDs : runs[r].pc \in Going => r = active
  BY DEF IInv, RunPart, SingleFlight, Going
<1>8. RunShape'
  <2>1. ASSUME NEW r \in RunIDs, runs[r].pc \in Going
        PROVE  /\ runs[r].gen <= gen + 1 /\ runs[r].parent <= gen + 1
               /\ runs[r].parent # gen + 1
    <3>1. /\ runs[r].gen <= gen /\ runs[r].parent <= gen
          /\ runs[r].gen \in 0..MaxGenerations
          /\ runs[r].parent \in 0..MaxGenerations
      BY <2>1 DEF IInv, RunPart, RunShape, TypeOK, GoroutineType, RunStates
    <3> QED
      BY <3>1, <1>1, ServiceAssumption
  <2> QED
    BY <2>1, <1>1 DEF RunShape, ApplyConfig
<1>9. StaleShape'
  BY <1>7 DEF StaleShape, ApplyConfig
<1>10. RecoveryPart'
  BY <1>1, <1>3, ServiceAssumption
     DEF IInv, TypeOK, GoroutineType, RecoveryPart, RecoveryShape,
         VerdictShape, ApplyConfig, Generations
<1> QED
  BY <1>2, <1>4, <1>5, <1>6, <1>8, <1>9, <1>10 DEF IInv, RunPart


(* ApplyConfig calls the cancel functions: no replaced run goes on.        *)
LEMMA ApplyCancelInv == IInv /\ ApplyCancel => IInv'
<1> SUFFICES ASSUME IInv, ApplyCancel PROVE IInv'
  OBVIOUS
<1>1. /\ lifecycle = "cancel" /\ UNCHANGED settings /\ ~stopped
      /\ gen \in Generations
      /\ lifecycle' \in {"scheduler", "recovery", "none"}
      /\ lifecycle' = "scheduler" <=> ScheduleEnabled(cfg)
      /\ lifecycle' = "recovery" <=> ~ScheduleEnabled(cfg) /\ HostEnabled(cfg)
  BY ServiceAssumption
     DEF IInv, TypeOK, ControlType, ApplyCancel, LifecycleShape, Generations
<1>2. CancelAll /\ TypeOK
  BY DEF ApplyCancel, IInv
<1>3. TypeOK'
  <2> USE DEF IInv, TypeOK, ApplyCancel, settings, recovery, schedule, outside
  <2>1. ControlType'
    BY <1>1, <1>2, CancelEffect DEF ControlType
  <2>2. StatusType'
    BY DEF StatusType
  <2>3. FlagType'
    BY Zenon DEF FlagType
  <2>4. GoroutineType'
    BY <1>2, CancelEffect DEF GoroutineType
  <2>5. MemoryType'
    BY DEF MemoryType
  <2> QED
    BY <2>1, <2>2, <2>3, <2>4, <2>5
<1>4. LifecycleShape' /\ AllEnded'
  BY <1>1 DEF IInv, LifecycleShape, AllEnded, settings, ScheduleEnabled,
              HostEnabled
<1>5. \A g \in Generations :
         sched'[g].pc = sched[g].pc /\ sched'[g].due = sched[g].due
  BY <1>2, CancelEffect
<1>6. \A g \in Generations : sched[g].pc # "none" => g # gen
  BY <1>1 DEF IInv, SchedulerPart, SchedulerShape
<1>7. SchedulerPart'
  <2>1. SchedulerShape'
    BY <1>1, <1>5, <1>6 DEF IInv, SchedulerPart, SchedulerShape, settings
  <2>2. next' = 0
    BY <1>1, <1>6 DEF IInv, SchedulerPart, NextIsCurrent, ApplyCancel
  <2> QED
    BY <2>1, <2>2 DEF SchedulerPart, NextIsCurrent
<1>8. \A r \in RunIDs :
         /\ runs'[r].pc = runs[r].pc /\ runs'[r].gen = runs[r].gen
         /\ runs'[r].parent = runs[r].parent
         /\ runs[r].canceled \/ r = captured => runs'[r].canceled
  BY <1>2, CancelEffect
<1>9. SingleFlight'
  BY <1>8 DEF IInv, RunPart, SingleFlight, ApplyCancel
<1>10. RunShape'
  BY <1>1, <1>8 DEF IInv, RunPart, RunShape, settings
<1>11. StaleShape'
  <2>1. ASSUME NEW r \in RunIDs, RunCanceled(r) \/ r = captured
        PROVE  RunCanceled(r)'
    <3>1. runs[r].parent \in 0..MaxGenerations
      BY <1>2 DEF TypeOK, GoroutineType, RunStates
    <3>2. \A g \in Generations : sched[g].canceled => sched'[g].canceled
      BY <1>2, CancelEffect
    <3>3. CASE RunCanceled(r)
      BY <3>3, <3>1, <3>2, <1>8, ServiceAssumption DEF RunCanceled, Generations
    <3>4. CASE r = captured
      BY <3>4, <1>8 DEF RunCanceled
    <3> QED
      BY <2>1, <3>3, <3>4
  <2> QED
    BY <1>1, <1>8, <2>1 DEF IInv, RunPart, StaleShape, settings
<1>12. RecoveryPart'
  <2>1. \A g \in Generations : rec'[g].pc = rec[g].pc
    BY <1>2, CancelEffect
  <2>2. recGen' = 0 /\ rec[gen].pc = "none"
    BY <1>1 DEF IInv, RecoveryPart, RecoveryShape, ApplyCancel, recovery
  <2>3. RecoveryShape'
    BY <1>1, <2>1, <2>2 DEF IInv, RecoveryPart, RecoveryShape, settings
  <2>4. VerdictShape'
    BY <1>1 DEF VerdictShape, HostEnabled, ScheduleEnabled, settings
  <2> QED
    BY <2>3, <2>4 DEF RecoveryPart
<1> QED
  BY <1>3, <1>4, <1>7, <1>9, <1>10, <1>11, <1>12 DEF IInv, RunPart

(* The scheduler of the new configuration starts.                          *)
LEMMA StartSchedulerInv == IInv /\ StartScheduler => IInv'
<1> SUFFICES ASSUME IInv, StartScheduler PROVE IInv'
  OBVIOUS
<1> DEFINE new == [NoSched EXCEPT !.pc = "compute"]
<1>1. /\ lifecycle = "scheduler" /\ lifecycle' = "recovery"
      /\ UNCHANGED settings /\ ~stopped /\ ScheduleEnabled(cfg)
      /\ gen \in Generations /\ gen # 0
  BY ServiceAssumption
     DEF IInv, TypeOK, ControlType, StartScheduler, LifecycleShape, Generations
<1>2. new \in SchedStates /\ new.pc = "compute" /\ ~new.canceled
  <2>0. NoSched \in SchedStates
    BY ServiceAssumption DEF NoSched, SchedStates
  <2>1. new \in SchedStates
    BY <2>0 DEF SchedStates
  <2>2. new.pc = "compute"
    BY DEF NoSched
  <2>3. ~new.canceled
    BY DEF NoSched
  <2> QED
    BY <2>1, <2>2, <2>3
<1>3. /\ sched' = [sched EXCEPT ![gen] = new]
      /\ sched \in [Generations -> SchedStates]
  BY DEF StartScheduler, IInv, TypeOK, GoroutineType
<1> HIDE DEF new
<1>4. /\ sched' \in [Generations -> SchedStates] /\ sched'[gen] = new
      /\ \A g \in Generations : g # gen => sched'[g] = sched[g]
  BY <1>1, <1>2, <1>3
<1>5. TypeOK'
  <2> USE DEF IInv, TypeOK, StartScheduler, settings, recovery, schedule,
              outside
  <2>1. ControlType'
    BY <1>1 DEF ControlType
  <2>2. StatusType'
    BY DEF StatusType
  <2>3. FlagType'
    BY Zenon DEF FlagType
  <2>4. GoroutineType'
    BY <1>4 DEF GoroutineType
  <2>5. MemoryType'
    BY DEF MemoryType
  <2> QED
    BY <2>1, <2>2, <2>3, <2>4, <2>5
<1>6. LifecycleShape' /\ AllEnded'
  BY <1>1 DEF IInv, LifecycleShape, AllEnded, settings, ScheduleEnabled,
              HostEnabled
<1>7. SchedulerPart'
  <2>1. SchedulerShape'
    BY <1>1, <1>2, <1>4, ServiceAssumption
       DEF IInv, SchedulerPart, SchedulerShape, settings, ScheduleEnabled,
           Generations
  <2>2. NextIsCurrent'
    BY <1>1, <1>2, <1>4 DEF NextIsCurrent, settings, ScheduleEnabled
  <2> QED
    BY <2>1, <2>2 DEF SchedulerPart
<1>8. \A r \in RunIDs : runs[r].pc \in Going => runs[r].parent # gen
  BY <1>1 DEF IInv, RunPart, RunShape
<1>9. SingleFlight'
  BY DEF IInv, RunPart, SingleFlight, StartScheduler
<1>10. RunShape'
  BY <1>1 DEF IInv, RunPart, RunShape, settings, StartScheduler
<1>11. StaleShape'
  <2>1. ASSUME NEW r \in RunIDs, runs[r].pc \in Going, RunCanceled(r)
        PROVE  RunCanceled(r)'
    <3>1. runs[r].parent \in 0..MaxGenerations /\ runs' = runs
      BY DEF IInv, TypeOK, GoroutineType, RunStates, StartScheduler
    <3> QED
      BY <2>1, <3>1, <1>4, <1>8, ServiceAssumption DEF RunCanceled, Generations
  <2> QED
    BY <1>1, <2>1 DEF IInv, RunPart, StaleShape, settings, StartScheduler
<1>12. RecoveryPart'
  <2>1. RecoveryShape'
    BY <1>1 DEF IInv, RecoveryPart, RecoveryShape, settings, recovery,
                StartScheduler, HostEnabled
  <2>2. VerdictShape'
    BY <1>1 DEF VerdictShape
  <2> QED
    BY <2>1, <2>2 DEF RecoveryPart
<1> QED
  BY <1>5, <1>6, <1>7, <1>9, <1>10, <1>11, <1>12 DEF IInv, RunPart

(* The recovery of the new configuration starts: it is pending.            *)
LEMMA StartRecoveryInv == IInv /\ StartPriorityRecovery => IInv'
<1> SUFFICES ASSUME IInv, StartPriorityRecovery PROVE IInv'
  OBVIOUS
<1> DEFINE new == [NoRec EXCEPT !.pc = "list"]
<1>1. /\ lifecycle = "recovery" /\ lifecycle' = "none"
      /\ UNCHANGED settings /\ ~stopped /\ HostEnabled(cfg)
      /\ gen \in Generations /\ gen # 0 /\ gen \in 0..MaxGenerations
  BY ServiceAssumption
     DEF IInv, TypeOK, ControlType, StartPriorityRecovery, LifecycleShape,
         Generations
<1>2. /\ new \in RecStates /\ new.pc = "list" /\ new.ctx = "live"
  BY DEF NoRec, RecStates
<1>3. /\ rec' = [rec EXCEPT ![gen] = new]
      /\ rec \in [Generations -> RecStates]
  BY DEF StartPriorityRecovery, IInv, TypeOK, GoroutineType
<1> HIDE DEF new
<1>4. /\ rec' \in [Generations -> RecStates] /\ rec'[gen] = new
      /\ \A g \in Generations : g # gen => rec'[g] = rec[g]
  BY <1>1, <1>2, <1>3
<1>5. TypeOK'
  <2> USE DEF IInv, TypeOK, StartPriorityRecovery, settings, schedule, outside
  <2>1. ControlType'
    BY <1>1 DEF ControlType
  <2>2. StatusType'
    BY <1>1 DEF StatusType
  <2>3. FlagType'
    BY Zenon DEF FlagType
  <2>4. GoroutineType'
    BY <1>4 DEF GoroutineType
  <2>5. MemoryType'
    BY DEF MemoryType
  <2> QED
    BY <2>1, <2>2, <2>3, <2>4, <2>5
<1>6. LifecycleShape' /\ AllEnded'
  BY <1>1 DEF IInv, LifecycleShape, AllEnded, settings
<1>7. SchedulerPart'
  <2>1. SchedulerShape'
    BY <1>1 DEF IInv, SchedulerPart, SchedulerShape, settings,
                ScheduleEnabled, StartPriorityRecovery
  <2>2. NextIsCurrent'
    BY DEF IInv, SchedulerPart, NextIsCurrent, settings, ScheduleEnabled,
           StartPriorityRecovery
  <2> QED
    BY <2>1, <2>2 DEF SchedulerPart
<1>8. RunPart'
  <2>1. SingleFlight'
    BY DEF IInv, RunPart, SingleFlight, StartPriorityRecovery
  <2>2. RunShape'
    BY <1>1 DEF IInv, RunPart, RunShape, settings, StartPriorityRecovery
  <2>3. StaleShape'
    BY <1>1 DEF IInv, RunPart, StaleShape, RunCanceled, settings,
                StartPriorityRecovery
  <2> QED
    BY <2>1, <2>2, <2>3 DEF RunPart
<1>9. RecoveryPart'
  <2>1. recGen' = gen
    BY DEF StartPriorityRecovery
  <2>2. recPending'
    BY DEF StartPriorityRecovery
  <2>3. RecoveryShape'
    BY <1>1, <1>4, <2>1, ServiceAssumption
       DEF IInv, RecoveryPart, RecoveryShape, settings, Generations,
           HostEnabled
  <2>4. VerdictShape'
    BY <1>1, <1>2, <1>4, <2>1, <2>2 DEF VerdictShape, settings, HostEnabled
  <2> QED
    BY <2>3, <2>4 DEF RecoveryPart
<1> QED
  BY <1>5, <1>6, <1>7, <1>8, <1>9 DEF IInv

(* Shutdown under mu.                                                      *)
LEMMA ShutdownInv == IInv /\ Shutdown => IInv'
<1> SUFFICES ASSUME IInv, Shutdown PROVE IInv'
  OBVIOUS
<1>1. /\ lifecycle = "none" /\ lifecycle' = "stop" /\ stopped'
      /\ UNCHANGED <<epoch, gen, cfg>> /\ captured' = active
      /\ next' = 0 /\ recGen' = 0
      /\ UNCHANGED <<active, schedule, sched, runs, rec, callers, outside,
                     scanned>>
  BY DEF Shutdown
<1>2. TypeOK'
  <2> USE DEF IInv, TypeOK
  <2>1. ControlType'
    BY <1>1 DEF ControlType, StatusType
  <2>2. StatusType'
    BY <1>1, ServiceAssumption DEF StatusType
  <2>3. FlagType'
    BY Zenon DEF FlagType, Shutdown
  <2>4. GoroutineType'
    BY <1>1 DEF GoroutineType
  <2>5. MemoryType'
    BY <1>1 DEF MemoryType, schedule, outside
  <2> QED
    BY <2>1, <2>2, <2>3, <2>4, <2>5
<1>3. LifecycleShape' /\ AllEnded'
  BY <1>1 DEF IInv, LifecycleShape, AllEnded
<1>4. SchedulerPart'
  BY <1>1 DEF IInv, SchedulerPart, SchedulerShape, NextIsCurrent
<1>5. RunPart'
  <2>1. SingleFlight'
    BY <1>1 DEF IInv, RunPart, SingleFlight
  <2>2. \A r \in RunIDs : runs[r].pc \in Going => r = active
    BY DEF IInv, RunPart, SingleFlight, Going
  <2>3. RunShape'
    BY <1>1 DEF IInv, RunPart, RunShape
  <2>4. StaleShape'
    BY <1>1, <2>2 DEF StaleShape
  <2> QED
    BY <2>1, <2>3, <2>4 DEF RunPart
<1>6. RecoveryPart'
  BY <1>1 DEF IInv, RecoveryPart, RecoveryShape, VerdictShape
<1> QED
  BY <1>2, <1>3, <1>4, <1>5, <1>6 DEF IInv

(* Shutdown calls the cancel functions.                                    *)
LEMMA ShutdownCancelInv == IInv /\ ShutdownCancel => IInv'
<1> SUFFICES ASSUME IInv, ShutdownCancel PROVE IInv'
  OBVIOUS
<1>1. /\ lifecycle = "stop" /\ lifecycle' = "wait" /\ UNCHANGED settings
      /\ stopped /\ UNCHANGED <<active, next, recovery, schedule, callers,
                                outside, scanned>>
  BY DEF IInv, LifecycleShape, ShutdownCancel
<1>2. CancelAll /\ TypeOK
  BY DEF ShutdownCancel, IInv
<1>3. TypeOK'
  <2> USE DEF IInv, TypeOK, settings, recovery, schedule, outside
  <2>1. ControlType'
    BY <1>1, <1>2, CancelEffect DEF ControlType
  <2>2. StatusType'
    BY <1>1 DEF StatusType
  <2>3. FlagType'
    BY Zenon, <1>1 DEF FlagType
  <2>4. GoroutineType'
    BY <1>1, <1>2, CancelEffect DEF GoroutineType
  <2>5. MemoryType'
    BY <1>1 DEF MemoryType
  <2> QED
    BY <2>1, <2>2, <2>3, <2>4, <2>5
<1>4. LifecycleShape' /\ AllEnded'
  BY <1>1 DEF IInv, LifecycleShape, AllEnded, settings
<1>5. SchedulerPart'
  <2>1. \A g \in Generations :
           sched'[g].pc = sched[g].pc /\ sched'[g].due = sched[g].due
    BY <1>2, CancelEffect
  <2>2. SchedulerShape'
    BY <1>1, <2>1 DEF IInv, SchedulerPart, SchedulerShape, settings
  <2>3. next' = 0
    BY <1>1 DEF IInv, SchedulerPart, NextIsCurrent
  <2> QED
    BY <2>2, <2>3 DEF SchedulerPart, NextIsCurrent
<1>6. \A r \in RunIDs :
         /\ runs'[r].pc = runs[r].pc /\ runs'[r].gen = runs[r].gen
         /\ runs'[r].parent = runs[r].parent
         /\ runs[r].canceled \/ r = captured => runs'[r].canceled
  BY <1>2, CancelEffect
<1>7. SingleFlight'
  BY <1>1, <1>6 DEF IInv, RunPart, SingleFlight
<1>8. RunShape'
  BY <1>1, <1>6 DEF IInv, RunPart, RunShape, settings
<1>9. StaleShape'
  <2>1. ASSUME NEW r \in RunIDs, RunCanceled(r) \/ r = captured
        PROVE  RunCanceled(r)'
    <3>1. runs[r].parent \in 0..MaxGenerations
      BY <1>2 DEF TypeOK, GoroutineType, RunStates
    <3>2. \A g \in Generations : sched[g].canceled => sched'[g].canceled
      BY <1>2, CancelEffect
    <3>3. CASE RunCanceled(r)
      BY <3>3, <3>1, <3>2, <1>6, ServiceAssumption DEF RunCanceled, Generations
    <3>4. CASE r = captured
      BY <3>4, <1>6 DEF RunCanceled
    <3> QED
      BY <2>1, <3>3, <3>4
  <2> QED
    BY <1>1, <1>6, <2>1 DEF IInv, RunPart, StaleShape, settings
<1>10. RecoveryPart'
  <2>1. \A g \in Generations : rec'[g].pc = rec[g].pc
    BY <1>2, CancelEffect
  <2> QED
    BY <1>1, <2>1 DEF IInv, RecoveryPart, RecoveryShape, VerdictShape,
                      settings, recovery
<1> QED
  BY <1>3, <1>4, <1>5, <1>7, <1>8, <1>9, <1>10 DEF IInv, RunPart

(* Shutdown returns once every goroutine has ended.                        *)
LEMMA ShutdownWaitInv == IInv /\ ShutdownWait => IInv'
<1> SUFFICES ASSUME IInv, ShutdownWait PROVE IInv'
  OBVIOUS
<1>1. /\ lifecycle = "wait" /\ lifecycle' = "none" /\ stopped
      /\ UNCHANGED <<settings, active, next, recovery, schedule, sched, runs,
                     rec, captured, callers, outside, scanned>>
  BY DEF IInv, LifecycleShape, ShutdownWait
<1>2. TypeOK'
  <2> USE DEF IInv, TypeOK, settings, recovery, schedule, outside
  <2>1. ControlType' /\ StatusType'
    BY <1>1 DEF ControlType, StatusType
  <2>2. FlagType'
    BY Zenon, <1>1 DEF FlagType
  <2>3. GoroutineType' /\ MemoryType'
    BY <1>1 DEF GoroutineType, MemoryType
  <2> QED
    BY <2>1, <2>2, <2>3
<1>3. LifecycleShape'
  BY <1>1 DEF IInv, LifecycleShape, settings
<1>4. AllEnded'
  <2>1. Alive = {}
    BY DEF ShutdownWait
  <2>2. \A g \in Generations : sched[g].pc = "none"
    BY <2>1 DEF Alive
  <2>3. \A g \in Generations : rec[g].pc = "none"
    BY <2>1 DEF Alive
  <2>4. \A r \in RunIDs : runs[r].pc = "none"
    BY <2>1 DEF Alive
  <2> QED
    BY <1>1, <2>2, <2>3, <2>4 DEF AllEnded
<1>5. SchedulerPart'
  BY <1>1 DEF IInv, SchedulerPart, SchedulerShape, NextIsCurrent, settings
<1>6. SingleFlight' /\ RunShape'
  BY <1>1 DEF IInv, RunPart, SingleFlight, RunShape, settings
<1>7. StaleShape'
  BY <1>1 DEF IInv, RunPart, StaleShape, RunCanceled, settings
<1>8. RecoveryPart'
  BY <1>1 DEF IInv, RecoveryPart, RecoveryShape, VerdictShape, settings,
              recovery
<1> QED
  BY <1>2, <1>3, <1>4, <1>5, <1>6, <1>7, <1>8 DEF IInv, RunPart

(* startRun: the new run is the only one, and of the current generation.   *)
LEMMA LaunchKeepsRuns ==
    ASSUME TypeOK, RunPart, LifecycleShape, UNCHANGED <<settings, lock>>,
           NEW parent \in 0..MaxGenerations, Launch(gen, parent), ~stopped,
           \/ parent = 0
           \/ parent = gen /\ lifecycle \notin {"cancel", "scheduler"},
           \A g \in Generations : sched[g].canceled => sched'[g].canceled
    PROVE  RunPart'
<1>1. gen \in 0..MaxGenerations
  BY DEF TypeOK, ControlType
<1>2. /\ active = 0
      /\ \E r \in RunIDs :
            /\ active' = r /\ r # 0 /\ r # captured
            /\ runs[r].pc = "none" /\ runs'[r].pc = "lock"
            /\ runs'[r].gen = gen /\ runs'[r].parent = parent
            /\ \A q \in RunIDs : q # r => runs'[q] = runs[q]
  BY <1>1, RunStarts
<1>3. PICK r \in RunIDs :
         /\ active' = r /\ r # 0
         /\ runs'[r].pc = "lock"
         /\ runs'[r].gen = gen /\ runs'[r].parent = parent
         /\ \A q \in RunIDs : q # r => runs'[q] = runs[q]
  BY <1>2
<1>4. \A q \in RunIDs : runs[q].pc \notin Going
  BY <1>2 DEF RunPart, SingleFlight, Going
<1>5. \A q \in RunIDs : runs'[q].pc \in Going <=> q = r
  BY <1>3, <1>4 DEF Going
<1>6. SingleFlight'
  BY <1>3, <1>5 DEF SingleFlight, Going
<1>7. RunShape'
  <2>1. parent <= gen
    BY <1>1
  <2>2. lifecycle \in {"cancel", "scheduler"} => parent # gen
    BY DEF LifecycleShape
  <2> QED
    BY <1>1, <1>3, <1>5, <2>1, <2>2 DEF RunShape, settings, lock
<1>8. StaleShape'
  BY <1>3, <1>5 DEF StaleShape, settings
<1> QED
  BY <1>6, <1>7, <1>8 DEF RunPart

(* currentService for a management call.                                   *)
LEMMA ManualServiceInv ==
    ASSUME IInv, NEW i \in Callers, ManualService(i)
    PROVE  IInv'
<1>1. /\ UNCHANGED <<settings, active, next, recovery, schedule, sched, runs,
                     rec, lock, clock, stepBacks, scanned>>
      /\ requests' = requests + 1
  BY DEF ManualService
<1>2. callers' \in [Callers -> CallStates]
  <2>1. /\ callers \in [Callers -> CallStates] /\ callers[i] \in CallStates
        /\ epoch \in 1..MaxEpochs
    BY DEF IInv, TypeOK, GoroutineType, ControlType
  <2> DEFINE call == [callers[i] EXCEPT !.pc = "service", !.epoch = epoch]
  <2>2. epoch \in 0..MaxEpochs
    BY <2>1, ServiceAssumption
  <2>3. call \in CallStates
    BY <2>1, <2>2 DEF CallStates
  <2>4. callers' = [callers EXCEPT ![i] = call]
    BY <2>1 DEF ManualService
  <2> HIDE DEF call
  <2> QED
    BY <2>1, <2>3, <2>4
<1>3. TypeOK'
  <2> USE DEF IInv, TypeOK, settings, recovery, schedule, lock
  <2>1. ControlType' /\ StatusType'
    BY <1>1 DEF ControlType, StatusType
  <2>2. FlagType'
    BY Zenon, <1>1 DEF FlagType
  <2>3. GoroutineType' /\ MemoryType'
    BY <1>1, <1>2 DEF GoroutineType, MemoryType
  <2> QED
    BY <2>1, <2>2, <2>3
<1> QED
  BY <1>1, <1>3, OthersKept DEF IInv, lock

(* StartManual reads config and generation.                                *)
LEMMA ManualReadInv ==
    ASSUME IInv, NEW i \in Callers, ManualRead(i)
    PROVE  IInv'
<1>1. UNCHANGED <<settings, active, next, recovery, schedule, sched, runs,
                  rec, lock, outside, scanned>>
  BY DEF ManualRead
<1>2. callers' \in [Callers -> CallStates]
  <2>1. /\ callers \in [Callers -> CallStates] /\ callers[i] \in CallStates
        /\ gen \in 0..MaxGenerations /\ cfg \in Configs \cup {"none"}
    BY DEF IInv, TypeOK, GoroutineType, ControlType
  <2> DEFINE call == [callers[i] EXCEPT !.pc = "start", !.gen = gen,
                                        !.cfg = cfg]
  <2>2. call \in CallStates
    BY <2>1 DEF CallStates
  <2>3. callers' = [callers EXCEPT ![i] = call]
    BY <2>1 DEF ManualRead
  <2> HIDE DEF call
  <2> QED
    BY <2>1, <2>2, <2>3
<1>3. TypeOK'
  <2> USE DEF IInv, TypeOK, settings, recovery, schedule, lock, outside
  <2>1. ControlType' /\ StatusType'
    BY <1>1 DEF ControlType, StatusType
  <2>2. FlagType'
    BY Zenon, <1>1 DEF FlagType
  <2>3. GoroutineType' /\ MemoryType'
    BY <1>1, <1>2 DEF GoroutineType, MemoryType
  <2> QED
    BY <2>1, <2>2, <2>3
<1> QED
  BY <1>1, <1>3, OthersKept DEF IInv, lock

(* startRun for a management call.                                         *)
LEMMA ManualStartInv ==
    ASSUME IInv, NEW i \in Callers, ManualStart(i)
    PROVE  IInv'
<1>1. UNCHANGED <<settings, next, recovery, schedule, sched, rec, lock,
                  outside, scanned>>
  BY DEF ManualStart
<1>2. callers' \in [Callers -> CallStates]
  <2>1. NoCall \in CallStates /\ callers \in [Callers -> CallStates]
    BY ServiceAssumption DEF NoCall, CallStates, IInv, TypeOK, GoroutineType
  <2>2. callers' = [callers EXCEPT ![i] = NoCall]
    BY DEF ManualStart
  <2> QED
    BY <2>1, <2>2
<1>3. \/ UNCHANGED <<active, runs>>
      \/ ~stopped /\ Launch(gen, 0)
  BY DEF ManualStart, Refused
<1>4. 0 \in 0..MaxGenerations /\ gen \in 0..MaxGenerations
  BY ServiceAssumption DEF IInv, TypeOK, ControlType
<1>5. runs' \in [RunIDs -> RunStates] /\ active' \in RunIDs \cup {0}
  <2>1. CASE UNCHANGED <<active, runs>>
    BY <2>1 DEF IInv, TypeOK, GoroutineType, StatusType
  <2>2. CASE Launch(gen, 0)
    BY <2>2, <1>4, RunStarts DEF IInv
  <2> QED
    BY <1>3, <2>1, <2>2
<1>6. TypeOK'
  <2> USE DEF IInv, TypeOK, settings, recovery, schedule, lock, outside
  <2>1. ControlType' /\ StatusType'
    BY <1>1, <1>5 DEF ControlType, StatusType
  <2>2. FlagType'
    BY Zenon, <1>1 DEF FlagType
  <2>3. GoroutineType' /\ MemoryType'
    BY <1>1, <1>2, <1>5 DEF GoroutineType, MemoryType
  <2> QED
    BY <2>1, <2>2, <2>3
<1>7. CASE UNCHANGED <<active, runs>>
  BY <1>1, <1>6, <1>7, OthersKept DEF IInv, lock
<1>8. CASE ~stopped /\ Launch(gen, 0)
  <2>1. RunPart'
    BY <1>1, <1>4, <1>8, LaunchKeepsRuns DEF IInv
  <2>2. LifecycleShape' /\ AllEnded'
    BY <1>1, <1>8 DEF IInv, LifecycleShape, AllEnded, settings, lock,
                      ScheduleEnabled, HostEnabled
  <2>3. SchedulerPart' /\ RecoveryPart'
    BY <1>1, SchedulersKept, RecoveriesKept DEF IInv, lock
  <2> QED
    BY <1>6, <2>1, <2>2, <2>3 DEF IInv
<1> QED
  BY <1>3, <1>7, <1>8

(* A step of a scheduler: what is left to show is its own part.            *)
LEMMA SchedulerStepKeeps ==
    ASSUME IInv, NEW g \in Generations, sched[g].pc # "none",
           UNCHANGED <<settings, lock, recovery, rec, scanned, callers,
                       requests, stepBacks>>,
           UNCHANGED <<active, runs>> \/ RunPart',
           runs' \in [RunIDs -> RunStates], active' \in RunIDs \cup {0},
           sched' \in [Generations -> SchedStates], next' \in 0..MaxClock,
           MemoryType',
           \A h \in Generations : sched[h].canceled => sched'[h].canceled,
           SchedulerPart'
    PROVE  IInv'
<1>1. TypeOK'
  <2> USE DEF IInv, TypeOK, settings, recovery, lock
  <2>1. ControlType' /\ StatusType'
    BY DEF ControlType, StatusType
  <2>2. FlagType'
    BY Zenon DEF FlagType
  <2>3. GoroutineType'
    BY DEF GoroutineType
  <2> QED
    BY <2>1, <2>2, <2>3
<1>2. LifecycleShape'
  BY DEF IInv, LifecycleShape, settings, lock, ScheduleEnabled, HostEnabled
<1>3. AllEnded'
  BY EndedKept DEF IInv, lock
<1>4. RecoveryPart'
  BY RecoveriesKept DEF IInv, lock
<1>5. RunPart'
  BY <1>1, RunsKept DEF IInv
<1> QED
  BY <1>1, <1>2, <1>3, <1>4, <1>5 DEF IInv

(* The scheduler computes the next slot and, when it is the current one's, *)
(* publishes it.                                                           *)
LEMMA SchedComputeInv ==
    ASSUME IInv, NEW g \in Generations, SchedCompute(g)
    PROVE  IInv'
<1> DEFINE s == IF clock < MaxClock THEN clock + 1 ELSE 0
<1>1. /\ sched[g].pc = "compute"
      /\ sched' = [sched EXCEPT ![g].pc = "sleep", ![g].due = s]
      /\ next' = IF ~stopped /\ g = gen THEN s ELSE next
      /\ UNCHANGED <<settings, active, recovery, schedule, runs, rec, lock,
                     callers, outside, scanned>>
  BY DEF SchedCompute
<1>2. s \in 0..MaxClock
  BY ServiceAssumption DEF IInv, TypeOK, MemoryType
<1> HIDE DEF s
<1>3. /\ sched' \in [Generations -> SchedStates]
      /\ sched'[g].pc = "sleep"
      /\ \A h \in Generations : /\ sched'[h].canceled = sched[h].canceled
                                /\ h # g => sched'[h] = sched[h]
  BY <1>1, <1>2, SchedMoves DEF IInv
<1>4. next' \in 0..MaxClock /\ MemoryType'
  BY <1>1, <1>2 DEF IInv, TypeOK, StatusType, MemoryType, schedule, outside
<1>5. runs' \in [RunIDs -> RunStates] /\ active' \in RunIDs \cup {0}
  BY <1>1 DEF IInv, TypeOK, StatusType, GoroutineType
<1>6. SchedulerShape'
  BY <1>1, <1>3 DEF IInv, SchedulerPart, SchedulerShape, settings, lock,
                    ScheduleEnabled
<1>7. NextIsCurrent'
  <2>1. CASE ~stopped /\ g = gen
    BY <1>1, <1>3, <2>1 DEF IInv, SchedulerPart, SchedulerShape,
                            NextIsCurrent, settings, ScheduleEnabled
  <2>2. CASE ~(~stopped /\ g = gen)
    <3>1. next' = next
      BY <1>1, <2>2
    <3>2. next # 0 => gen \in Generations /\ gen # g
      <4>1. next # 0 => ~stopped /\ ScheduleEnabled(cfg)
        BY DEF IInv, SchedulerPart, NextIsCurrent
      <4>2. ScheduleEnabled(cfg) => gen # 0
        BY DEF IInv, LifecycleShape, ScheduleEnabled
      <4> QED
        BY <4>1, <4>2, <2>2, ServiceAssumption
           DEF IInv, TypeOK, ControlType, Generations
    <3> QED
      BY <1>1, <1>3, <3>1, <3>2
         DEF IInv, SchedulerPart, NextIsCurrent, settings, ScheduleEnabled
  <2> QED
    BY <2>1, <2>2
<1>8. SchedulerPart'
  BY <1>6, <1>7 DEF SchedulerPart
<1> QED
  BY <1>1, <1>3, <1>4, <1>5, <1>8, SchedulerStepKeeps DEF outside, schedule

(* A step after which the scheduler is on its way keeps the scheduler part *)
(* if the slot is not published.                                           *)
LEMMA SchedulerGoesOn ==
    ASSUME IInv, NEW g \in Generations, sched[g].pc # "none",
           UNCHANGED <<settings, lifecycle, next>>,
           sched'[g].pc # "none",
           sched'[g].pc = "start" => sched'[g].due # 0,
           \A h \in Generations : /\ sched'[h].canceled = sched[h].canceled
                                  /\ h # g => sched'[h] = sched[h]
    PROVE  SchedulerPart'
<1>1. SchedulerShape'
  BY DEF IInv, SchedulerPart, SchedulerShape, settings, ScheduleEnabled
<1>2. NextIsCurrent'
  <2>1. next # 0 => ~stopped /\ ScheduleEnabled(cfg)
    BY DEF IInv, SchedulerPart, NextIsCurrent
  <2>2. ScheduleEnabled(cfg) => gen # 0
    BY DEF IInv, LifecycleShape, ScheduleEnabled
  <2>3. next # 0 => gen \in Generations
    BY <2>1, <2>2, ServiceAssumption
       DEF IInv, TypeOK, ControlType, Generations
  <2> QED
    BY <2>3 DEF IInv, SchedulerPart, NextIsCurrent, settings, ScheduleEnabled
<1> QED
  BY <1>1, <1>2 DEF SchedulerPart

(* The timer fires.                                                        *)
LEMMA SchedFireInv ==
    ASSUME IInv, NEW g \in Generations, SchedFire(g)
    PROVE  IInv'
<1>1. /\ sched[g].pc = "sleep" /\ sched[g].due # 0
      /\ sched' = [sched EXCEPT ![g].pc = "start"]
      /\ clock' = IF clock < sched[g].due THEN sched[g].due ELSE clock
      /\ UNCHANGED <<settings, active, next, recovery, schedule, runs, rec,
                     lock, callers, requests, stepBacks, scanned>>
  BY DEF SchedFire
<1>2. sched[g].due \in 0..MaxClock
  BY DEF IInv, TypeOK, GoroutineType, SchedStates
<1>3. /\ sched' \in [Generations -> SchedStates]
      /\ sched'[g].pc = "start" /\ sched'[g].due = sched[g].due
      /\ \A h \in Generations : /\ sched'[h].canceled = sched[h].canceled
                                /\ h # g => sched'[h] = sched[h]
  BY <1>1, <1>2, SchedMoves DEF IInv
<1>4. next' \in 0..MaxClock /\ MemoryType'
  BY <1>1, <1>2 DEF IInv, TypeOK, StatusType, MemoryType, schedule
<1>5. runs' \in [RunIDs -> RunStates] /\ active' \in RunIDs \cup {0}
  BY <1>1 DEF IInv, TypeOK, StatusType, GoroutineType
<1>6. SchedulerPart'
  BY <1>1, <1>3, SchedulerGoesOn DEF lock
<1> QED
  BY <1>1, <1>3, <1>4, <1>5, <1>6, SchedulerStepKeeps

(* The context is done while the scheduler sleeps: it was replaced, and    *)
(* what it published is withdrawn with it.                                 *)
LEMMA SchedStopInv ==
    ASSUME IInv, NEW g \in Generations, SchedStop(g)
    PROVE  IInv'
<1> DEFINE ended == [NoSched EXCEPT !.canceled = TRUE]
<1>1. /\ sched[g].pc = "sleep" /\ sched[g].canceled
      /\ sched' = [sched EXCEPT ![g] = ended]
      /\ next' = IF g = gen THEN 0 ELSE next
      /\ UNCHANGED <<settings, active, recovery, schedule, runs, rec, lock,
                     callers, outside, scanned>>
  BY DEF SchedStop
<1>2. NoSched \in SchedStates
  BY ServiceAssumption DEF NoSched, SchedStates
<1>3. ended \in SchedStates
  BY <1>2 DEF SchedStates
<1>4. ended.pc = "none"
  BY DEF NoSched
<1>5. ended.canceled
  BY <1>2 DEF NoSched, SchedStates
<1> HIDE DEF ended
<1>6. /\ sched \in [Generations -> SchedStates]
      /\ sched' \in [Generations -> SchedStates]
      /\ sched'[g] = ended
      /\ \A h \in Generations : h # g => sched'[h] = sched[h]
  BY <1>1, <1>3 DEF IInv, TypeOK, GoroutineType
<1>7. next' \in 0..MaxClock /\ MemoryType'
  BY <1>1, ServiceAssumption
     DEF IInv, TypeOK, StatusType, MemoryType, schedule, outside
<1>8. runs' \in [RunIDs -> RunStates] /\ active' \in RunIDs \cup {0}
  BY <1>1 DEF IInv, TypeOK, StatusType, GoroutineType
<1>9. SchedulerShape'
  BY <1>1, <1>4, <1>6 DEF IInv, SchedulerPart, SchedulerShape, settings, lock,
                          ScheduleEnabled
<1>10. NextIsCurrent'
  <2>1. CASE g = gen
    BY <1>1, <2>1 DEF NextIsCurrent
  <2>2. CASE g # gen
    <3>1. next # 0 => ~stopped /\ ScheduleEnabled(cfg)
      BY DEF IInv, SchedulerPart, NextIsCurrent
    <3>2. ScheduleEnabled(cfg) => gen # 0
      BY DEF IInv, LifecycleShape, ScheduleEnabled
    <3>3. next # 0 => gen \in Generations
      BY <3>1, <3>2, ServiceAssumption
         DEF IInv, TypeOK, ControlType, Generations
    <3> QED
      BY <1>1, <1>6, <2>2, <3>3
         DEF IInv, SchedulerPart, NextIsCurrent, settings, ScheduleEnabled
  <2> QED
    BY <2>1, <2>2
<1>11. SchedulerPart'
  BY <1>9, <1>10 DEF SchedulerPart
<1>12. \A h \in Generations : sched[h].canceled => sched'[h].canceled
  BY <1>5, <1>6
<1> QED
  BY <1>1, <1>6, <1>7, <1>8, <1>11, <1>12, SchedulerStepKeeps
     DEF outside, schedule

(* startRun for a slot.                                                    *)
LEMMA SchedStartInv ==
    ASSUME IInv, NEW g \in Generations, SchedStart(g)
    PROVE  IInv'
<1> DEFINE s == sched[g].due
<1>1. /\ sched[g].pc = "start"
      /\ UNCHANGED <<settings, next, recovery, skipped, rec, lock, callers,
                     outside, scanned>>
  BY DEF SchedStart
<1>2. s \in 0..MaxClock /\ s # 0 /\ s \in Slots /\ 0 \in 0..MaxClock
  BY <1>1, ServiceAssumption
     DEF IInv, TypeOK, GoroutineType, SchedStates, SchedulerPart,
         SchedulerShape, Slots
<1>3. \/ sched' = [sched EXCEPT ![g].pc = "compute", ![g].due = 0]
      \/ sched' = [sched EXCEPT ![g].pc = "busy"]
  BY DEF SchedStart
<1>4. /\ sched' \in [Generations -> SchedStates]
      /\ sched'[g].pc \in {"compute", "busy"}
      /\ \A h \in Generations : /\ sched'[h].canceled = sched[h].canceled
                                /\ h # g => sched'[h] = sched[h]
  <2>1. CASE sched' = [sched EXCEPT ![g].pc = "compute", ![g].due = 0]
    BY <2>1, <1>2, SchedMoves DEF IInv
  <2>2. CASE sched' = [sched EXCEPT ![g].pc = "busy"]
    BY <2>2, <1>2, SchedMoves DEF IInv
  <2> QED
    BY <1>3, <2>1, <2>2
<1>5. \/ UNCHANGED <<active, runs>>
      \/ ~stopped /\ g = gen /\ Launch(gen, gen)
  BY DEF SchedStart
<1>6. /\ runs' \in [RunIDs -> RunStates] /\ active' \in RunIDs \cup {0}
      /\ UNCHANGED <<active, runs>> \/ RunPart'
  <2>1. CASE UNCHANGED <<active, runs>>
    BY <2>1 DEF IInv, TypeOK, GoroutineType, StatusType
  <2>2. CASE ~stopped /\ g = gen /\ Launch(gen, gen)
    <3>1. gen \in 0..MaxGenerations
      BY DEF IInv, TypeOK, ControlType
    <3>2. lifecycle \notin {"cancel", "scheduler"}
      BY <1>1, <2>2 DEF IInv, SchedulerPart, SchedulerShape
    <3>3. RunPart'
      BY <1>1, <1>4, <2>2, <3>1, <3>2, LaunchKeepsRuns DEF IInv
    <3> QED
      BY <2>2, <3>1, <3>3, RunStarts DEF IInv
  <2> QED
    BY <1>5, <2>1, <2>2
<1>7. MemoryType'
  <2>1. occurrences' \in Seq(Slots) /\ Len(occurrences') <= MaxRemembered
    <3>1. occurrences' = occurrences \/ occurrences' = Remember(occurrences, s)
      BY DEF SchedStart
    <3> HIDE DEF s
    <3> QED
      BY <3>1, <1>2, RememberType DEF IInv, TypeOK, MemoryType
  <2>2. starts' \in [Slots -> Nat]
    <3>1. starts' = starts \/ starts' = [starts EXCEPT ![s] = @ + 1]
      BY DEF SchedStart
    <3> HIDE DEF s
    <3> QED
      BY <3>1, <1>2 DEF IInv, TypeOK, MemoryType
  <2> QED
    BY <1>1, <2>1, <2>2 DEF IInv, TypeOK, MemoryType, outside
<1>8. next' \in 0..MaxClock
  BY <1>1 DEF IInv, TypeOK, StatusType
<1>9. SchedulerPart'
  BY <1>1, <1>4, SchedulerGoesOn DEF lock
<1> QED
  BY <1>1, <1>4, <1>6, <1>7, <1>8, <1>9, SchedulerStepKeeps DEF outside

(* A lost slot is counted.                                                 *)
LEMMA SchedSkipInv ==
    ASSUME IInv, NEW g \in Generations, SchedSkip(g)
    PROVE  IInv'
<1>1. /\ sched[g].pc = "busy" /\ skipped' = skipped + 1
      /\ sched' = [sched EXCEPT ![g].pc = "compute", ![g].due = 0]
      /\ UNCHANGED <<settings, active, next, recovery, occurrences, starts,
                     runs, rec, lock, callers, outside, scanned>>
  BY DEF SchedSkip
<1>2. 0 \in 0..MaxClock
  BY ServiceAssumption
<1>3. /\ sched' \in [Generations -> SchedStates]
      /\ sched'[g].pc = "compute"
      /\ \A h \in Generations : /\ sched'[h].canceled = sched[h].canceled
                                /\ h # g => sched'[h] = sched[h]
  BY <1>1, <1>2, SchedMoves DEF IInv
<1>4. next' \in 0..MaxClock /\ MemoryType'
  BY <1>1 DEF IInv, TypeOK, StatusType, MemoryType, outside
<1>5. runs' \in [RunIDs -> RunStates] /\ active' \in RunIDs \cup {0}
  BY <1>1 DEF IInv, TypeOK, StatusType, GoroutineType
<1>6. SchedulerPart'
  BY <1>1, <1>3, SchedulerGoesOn DEF lock
<1> QED
  BY <1>1, <1>3, <1>4, <1>5, <1>6, SchedulerStepKeeps DEF outside

(* The wall clock is set back.                                             *)
LEMMA StepBackInv == IInv /\ StepBack => IInv'
<1> SUFFICES ASSUME IInv, StepBack PROVE IInv'
  OBVIOUS
<1>1. /\ clock > 0 /\ clock' = clock - 1 /\ stepBacks' = stepBacks + 1
      /\ UNCHANGED <<settings, active, next, recovery, schedule, sched, runs,
                     rec, lock, callers, requests, scanned>>
  BY DEF StepBack
<1>2. TypeOK'
  <2> USE DEF IInv, TypeOK, settings, recovery, schedule, lock
  <2>1. ControlType' /\ StatusType'
    BY <1>1 DEF ControlType, StatusType
  <2>2. FlagType'
    BY Zenon, <1>1 DEF FlagType
  <2>3. GoroutineType' /\ MemoryType'
    BY <1>1, ServiceAssumption DEF GoroutineType, MemoryType
  <2> QED
    BY <2>1, <2>2, <2>3
<1> QED
  BY <1>1, <1>2, OthersKept

(* A step of a run: what is left to show is its own part.                  *)
LEMMA RunStepKeeps ==
    ASSUME IInv, NEW r \in RunIDs, runs[r].pc # "none",
           UNCHANGED <<settings, next, recovery, schedule, sched, rec, lock,
                       callers, outside, scanned>>,
           runs' \in [RunIDs -> RunStates], active' \in RunIDs \cup {0},
           TypeOK' => RunPart'
    PROVE  IInv'
<1>1. TypeOK'
  <2> USE DEF IInv, TypeOK, settings, recovery, schedule, lock, outside
  <2>1. ControlType' /\ StatusType'
    BY DEF ControlType, StatusType
  <2>2. FlagType'
    BY Zenon DEF FlagType
  <2>3. GoroutineType' /\ MemoryType'
    BY DEF GoroutineType, MemoryType
  <2> QED
    BY <2>1, <2>2, <2>3
<1>2. LifecycleShape'
  BY DEF IInv, LifecycleShape, settings, lock, ScheduleEnabled, HostEnabled
<1>3. AllEnded'
  BY EndedKept DEF IInv, lock
<1>4. SchedulerPart' /\ RecoveryPart'
  BY SchedulersKept, RecoveriesKept DEF IInv, lock
<1> QED
  BY <1>1, <1>2, <1>3, <1>4 DEF IInv

(* A run that goes on.                                                     *)
LEMMA RunGoesOnInv ==
    ASSUME IInv, NEW r \in RunIDs, NEW from \in Going, NEW to \in Going,
           RunStep(r, from, to), UNCHANGED active
    PROVE  IInv'
<1>1. /\ runs[r].pc = from /\ runs' = [runs EXCEPT ![r].pc = to]
      /\ UNCHANGED <<settings, next, recovery, schedule, sched, rec, lock,
                     callers, outside, scanned>>
  BY DEF RunStep
<1>2. /\ runs' \in [RunIDs -> RunStates]
      /\ runs'[r].pc = to
      /\ \A q \in RunIDs : /\ runs'[q].gen = runs[q].gen
                           /\ runs'[q].parent = runs[q].parent
                           /\ runs'[q].canceled = runs[q].canceled
                           /\ q # r => runs'[q].pc = runs[q].pc
  BY <1>1, RunMoves DEF IInv, Going
<1>3. {q \in RunIDs : runs'[q].pc \in Going} =
         {q \in RunIDs : runs[q].pc \in Going}
  BY <1>1, <1>2
<1>4. TypeOK' => RunPart'
  BY <1>1, <1>2, <1>3, RunsKept DEF IInv
<1>5. active' \in RunIDs \cup {0} /\ runs[r].pc # "none"
  BY <1>1 DEF IInv, TypeOK, StatusType, Going
<1> QED
  BY <1>1, <1>2, <1>4, <1>5, RunStepKeeps

(* finishRun clears active for the run that is active.                     *)
LEMMA RunFinishInv ==
    ASSUME IInv, NEW r \in RunIDs, RunFinish(r)
    PROVE  IInv'
<1>1. /\ runs[r].pc = "work" /\ runs' = [runs EXCEPT ![r].pc = "exit"]
      /\ active' = IF active = r THEN 0 ELSE active
      /\ UNCHANGED <<settings, next, recovery, schedule, sched, rec, lock,
                     callers, outside, scanned>>
  BY DEF RunFinish, RunStep
<1>2. /\ runs' \in [RunIDs -> RunStates]
      /\ runs'[r].pc = "exit"
      /\ \A q \in RunIDs : q # r => runs'[q].pc = runs[q].pc
  BY <1>1, RunMoves DEF IInv
<1>3. \A q \in RunIDs : runs[q].pc \in Going <=> q = active /\ active # 0
  BY DEF IInv, RunPart, SingleFlight, Going
<1>4. active = r
  BY <1>1, <1>3 DEF Going
<1>5. \A q \in RunIDs : runs'[q].pc \notin Going
  BY <1>2, <1>3, <1>4 DEF Going
<1>6. RunPart'
  BY <1>1, <1>4, <1>5 DEF RunPart, SingleFlight, RunShape, StaleShape, Going
<1> QED
  BY <1>1, <1>2, <1>4, <1>6, RunStepKeeps

(* executeRun returns.                                                     *)
LEMMA RunExitInv ==
    ASSUME IInv, NEW r \in RunIDs, RunExit(r)
    PROVE  IInv'
<1>1. /\ runs[r].pc = "exit" /\ runs' = [runs EXCEPT ![r] = NoRun]
      /\ UNCHANGED <<settings, active, next, recovery, schedule, sched, rec,
                     lock, callers, outside, scanned>>
  BY DEF RunExit
<1>2. NoRun \in RunStates /\ NoRun.pc = "none"
  BY ServiceAssumption DEF NoRun, RunStates
<1>3. /\ runs' \in [RunIDs -> RunStates]
      /\ runs'[r] = NoRun /\ \A q \in RunIDs : q # r => runs'[q] = runs[q]
  BY <1>1, <1>2 DEF IInv, TypeOK, GoroutineType
<1>4. \A q \in RunIDs :
         /\ runs'[q].pc \in Going <=> runs[q].pc \in Going
         /\ runs'[q].pc \in Going => runs'[q] = runs[q]
  BY <1>1, <1>2, <1>3 DEF Going
<1>5. SingleFlight'
  BY <1>1, <1>4 DEF IInv, RunPart, SingleFlight, Going
<1>6. RunShape'
  BY <1>1, <1>4 DEF IInv, RunPart, RunShape, settings, lock
<1>7. StaleShape'
  BY <1>1, <1>4 DEF IInv, RunPart, StaleShape, RunCanceled, settings, lock
<1>8. active' \in RunIDs \cup {0}
  BY <1>1 DEF IInv, TypeOK, StatusType
<1> QED
  BY <1>1, <1>3, <1>5, <1>6, <1>7, <1>8, RunStepKeeps DEF RunPart

(* A step of a run keeps the invariant.                                    *)
LEMMA RunInv ==
    ASSUME IInv, NEW r \in RunIDs, Run(r)
    PROVE  IInv'
<1>1. CASE RunLock(r)
  BY <1>1, RunGoesOnInv DEF RunLock, Going
<1>2. CASE RunCall(r)
  BY <1>2, RunGoesOnInv DEF RunCall, Going
<1>3. CASE RunCallReturns(r)
  BY <1>3, RunGoesOnInv DEF RunCallReturns, Going
<1>4. CASE RunFinish(r)
  BY <1>4, RunFinishInv
<1>5. CASE RunExit(r)
  BY <1>5, RunExitInv
<1> QED
  BY <1>1, <1>2, <1>3, <1>4, <1>5 DEF Run

(* A step of a recovery: what is left to show is its own part.             *)
LEMMA RecoveryStepKeeps ==
    ASSUME IInv, NEW g \in Generations, rec[g].pc # "none",
           UNCHANGED <<settings, active, next, schedule, sched, runs, lock,
                       callers, outside>>,
           rec' \in [Generations -> RecStates], recGen' \in 0..MaxGenerations,
           recPending' \in BOOLEAN, recError' \in BOOLEAN,
           scanned' \subseteq Generations, RecoveryPart'
    PROVE  IInv'
<1>1. TypeOK'
  <2> USE DEF IInv, TypeOK, settings, schedule, lock, outside
  <2>1. ControlType' /\ StatusType'
    BY DEF ControlType, StatusType
  <2>2. FlagType'
    BY Zenon DEF FlagType
  <2>3. GoroutineType' /\ MemoryType'
    BY DEF GoroutineType, MemoryType
  <2> QED
    BY <2>1, <2>2, <2>3
<1>2. LifecycleShape'
  BY DEF IInv, LifecycleShape, settings, lock, ScheduleEnabled, HostEnabled
<1>3. AllEnded'
  BY EndedKept DEF IInv, lock
<1>4. SchedulerPart'
  BY SchedulersKept DEF IInv, lock
<1>5. RunPart'
  BY <1>1, RunsKept DEF IInv
<1> QED
  BY <1>1, <1>2, <1>3, <1>4, <1>5 DEF IInv

(* A current configuration that the host enables has a generation.         *)
LEMMA CurrentGeneration ==
    ASSUME IInv, HostEnabled(cfg)
    PROVE  gen \in Generations
BY ServiceAssumption
   DEF IInv, LifecycleShape, HostEnabled, TypeOK, ControlType, Generations

(* The recovery moves on without a result.                                 *)
LEMMA RecGoesOnInv ==
    ASSUME IInv, NEW g \in Generations,
           NEW from \in {"list", "acquire", "locked", "scan"},
           NEW to \in {"acquire", "locked", "scan", "good", "failed"},
           RecStep(g, from, to), UNCHANGED recovery,
           \/ to # "good" /\ UNCHANGED scanned
           \/ to = "good" /\ scanned' = scanned \cup {g}
    PROVE  IInv'
<1>1. /\ rec[g].pc = from /\ rec' = [rec EXCEPT ![g].pc = to]
      /\ UNCHANGED <<settings, active, next, schedule, sched, runs, lock,
                     callers, outside>>
  BY DEF RecStep
<1>2. /\ rec' \in [Generations -> RecStates]
      /\ rec'[g].pc = to /\ rec'[g].ctx = rec[g].ctx
      /\ \A h \in Generations : h # g => rec'[h] = rec[h]
  BY <1>1, RecMoves DEF IInv
<1>3. /\ recGen' = recGen /\ recGen \in 0..MaxGenerations
      /\ scanned' \subseteq Generations /\ scanned \subseteq scanned'
      /\ to = "good" => g \in scanned'
  BY DEF IInv, TypeOK, StatusType, MemoryType, recovery
<1>4. /\ recPending' = recPending /\ recError' = recError
      /\ recPending \in BOOLEAN /\ recError \in BOOLEAN
  BY Zenon DEF IInv, TypeOK, FlagType, recovery
<1>5. RecoveryShape'
  <2>1. \A h \in Generations : rec'[h].pc # "none" => h <= gen
    BY <1>1, <1>2 DEF IInv, RecoveryPart, RecoveryShape
  <2>2. lifecycle \in {"cancel", "scheduler", "recovery"} =>
           gen \in Generations /\ rec'[gen].pc = "none"
    <3>1. lifecycle \in {"cancel", "scheduler", "recovery"} =>
             rec[gen].pc = "none"
      BY DEF IInv, RecoveryPart, RecoveryShape
    <3>2. lifecycle \in {"cancel", "scheduler", "recovery"} =>
             gen \in Generations
      BY ServiceAssumption
         DEF IInv, LifecycleShape, TypeOK, ControlType, Generations
    <3> QED
      BY <3>1, <3>2, <1>1, <1>2
  <2> QED
    BY <1>1, <1>3, <2>1, <2>2
       DEF IInv, RecoveryPart, RecoveryShape, settings, lock, HostEnabled
<1>6. VerdictShape'
  <2> SUFFICES ASSUME lifecycle = "none", ~stopped, HostEnabled(cfg)
               PROVE  /\ rec'[gen].ctx # "canceled"
                      /\ rec'[gen].pc \notin {"exit", "none"} =>
                            recGen' = gen /\ recPending'
                      /\ rec'[gen].pc = "good" => gen \in scanned'
                      /\ rec'[gen].pc \in {"exit", "none"} =>
                            \/ recError' \/ gen \in scanned'
                            \/ rec'[gen].ctx = "expired"
    BY <1>1 DEF VerdictShape, settings, lock, HostEnabled
  <2>1. /\ rec[gen].ctx # "canceled"
        /\ rec[gen].pc \notin {"exit", "none"} => recGen = gen /\ recPending
        /\ rec[gen].pc = "good" => gen \in scanned
        /\ rec[gen].pc \in {"exit", "none"} =>
              recError \/ gen \in scanned \/ rec[gen].ctx = "expired"
    BY DEF IInv, RecoveryPart, VerdictShape
  <2>2. gen \in Generations
    BY CurrentGeneration
  <2>3. CASE g = gen
    BY <1>1, <1>2, <1>3, <1>4, <2>1, <2>3
  <2>4. CASE g # gen
    BY <1>2, <1>3, <1>4, <2>1, <2>2, <2>4
  <2> QED
    BY <2>3, <2>4
<1>7. RecoveryPart' /\ rec[g].pc # "none"
  BY <1>1, <1>5, <1>6 DEF RecoveryPart
<1> QED
  BY <1>1, <1>2, <1>3, <1>4, <1>7, RecoveryStepKeeps

(* Where a recovery leaves off, the rest of its part is kept.              *)
LEMMA RecoveryShapeKept ==
    ASSUME IInv, NEW g \in Generations, rec[g].pc # "none",
           UNCHANGED <<settings, lock>>, recGen' \in {recGen, 0},
           \A h \in Generations : h # g => rec'[h] = rec[h]
    PROVE  RecoveryShape'
<1>1. g <= gen /\ \A h \in Generations : rec[h].pc # "none" => h <= gen
  BY DEF IInv, RecoveryPart, RecoveryShape
<1>2. lifecycle \in {"cancel", "scheduler", "recovery"} =>
         rec'[gen].pc = "none"
  <2>1. lifecycle \in {"cancel", "scheduler", "recovery"} =>
           rec[gen].pc = "none"
    BY DEF IInv, RecoveryPart, RecoveryShape
  <2>2. lifecycle \in {"cancel", "scheduler", "recovery"} =>
           gen \in Generations
    BY ServiceAssumption
       DEF IInv, LifecycleShape, TypeOK, ControlType, Generations
  <2> QED
    BY <2>1, <2>2
<1> QED
  BY <1>1, <1>2
     DEF IInv, RecoveryPart, RecoveryShape, settings, lock, HostEnabled

(* The recovery comes to an end: with a result if it is the current one's, *)
(* and without touching anything otherwise.                                *)
LEMMA RecEndsInv ==
    ASSUME IInv, NEW g \in Generations,
           NEW from \in {"list", "acquire", "locked", "good", "failed"},
           RecStep(g, from, "exit"), UNCHANGED scanned, recGen' = recGen,
           recPending' \in BOOLEAN, recError' \in BOOLEAN,
           g # gen => UNCHANGED recovery,
           lifecycle = "none" /\ StillCurrent(g) /\ rec[g].ctx # "canceled" =>
              recError' \/ from = "good" \/ rec[g].ctx = "expired"
    PROVE  IInv'
<1>1. /\ rec[g].pc = from /\ rec' = [rec EXCEPT ![g].pc = "exit"]
      /\ UNCHANGED <<settings, active, next, schedule, sched, runs, lock,
                     callers, outside>>
  BY DEF RecStep
<1>2. /\ rec' \in [Generations -> RecStates]
      /\ rec'[g].pc = "exit" /\ rec'[g].ctx = rec[g].ctx
      /\ \A h \in Generations : h # g => rec'[h] = rec[h]
  BY <1>1, RecMoves DEF IInv
<1>3. recGen' \in 0..MaxGenerations /\ scanned' \subseteq Generations
  BY DEF IInv, TypeOK, StatusType, MemoryType
<1>4. RecoveryShape'
  BY <1>1, <1>2, RecoveryShapeKept
<1>5. VerdictShape'
  <2> SUFFICES ASSUME lifecycle = "none", ~stopped, HostEnabled(cfg)
               PROVE  /\ rec'[gen].ctx # "canceled"
                      /\ rec'[gen].pc \notin {"exit", "none"} =>
                            recGen' = gen /\ recPending'
                      /\ rec'[gen].pc = "good" => gen \in scanned'
                      /\ rec'[gen].pc \in {"exit", "none"} =>
                            \/ recError' \/ gen \in scanned'
                            \/ rec'[gen].ctx = "expired"
    BY <1>1 DEF VerdictShape, settings, lock, HostEnabled
  <2>1. /\ rec[gen].ctx # "canceled"
        /\ rec[gen].pc \notin {"exit", "none"} => recGen = gen /\ recPending
        /\ rec[gen].pc = "good" => gen \in scanned
        /\ rec[gen].pc \in {"exit", "none"} =>
              recError \/ gen \in scanned \/ rec[gen].ctx = "expired"
    BY DEF IInv, RecoveryPart, VerdictShape
  <2>2. gen \in Generations
    BY CurrentGeneration
  <2>3. CASE g = gen
    <3>1. StillCurrent(g)
      BY <1>1, <2>1, <2>3 DEF StillCurrent
    <3>2. recError' \/ gen \in scanned \/ rec[gen].ctx = "expired"
      BY <1>1, <2>1, <2>3, <3>1
    <3> QED
      BY <1>2, <2>1, <2>3, <3>2
  <2>4. CASE g # gen
    <3>1. recPending' = recPending /\ recError' = recError
      BY <2>4 DEF recovery
    <3> QED
      BY <1>2, <2>1, <2>2, <2>4, <3>1
  <2> QED
    BY <2>3, <2>4
<1>6. RecoveryPart' /\ rec[g].pc # "none"
  BY <1>1, <1>4, <1>5 DEF RecoveryPart
<1> QED
  BY <1>1, <1>2, <1>3, <1>6, RecoveryStepKeeps

(* setPriorityRecoveryResult only speaks for the current generation.       *)
LEMMA SetResultEffect ==
    ASSUME IInv, NEW g \in Generations, NEW failed \in BOOLEAN,
           SetResult(g, failed)
    PROVE  /\ recGen' = recGen /\ recPending' \in BOOLEAN
           /\ recError' \in BOOLEAN
           /\ g # gen => UNCHANGED recovery
           /\ StillCurrent(g) /\ failed => recError'
<1>1. recPending \in BOOLEAN /\ recError \in BOOLEAN
  BY Zenon DEF IInv, TypeOK, FlagType
<1>2. CASE StillCurrent(g)
  <2>1. recPending' = FALSE /\ recError' = failed /\ recGen' = recGen /\ g = gen
    BY <1>2 DEF SetResult, StillCurrent
  <2> QED
    BY Zenon, <2>1
<1>3. CASE ~StillCurrent(g)
  <2>1. UNCHANGED recovery
    BY <1>3 DEF SetResult
  <2> QED
    BY Zenon, <1>1, <1>3, <2>1 DEF recovery
<1> QED
  BY <1>2, <1>3

(* A recovery that moves on without a word.                                *)
LEMMA SilentEffect ==
    ASSUME IInv, UNCHANGED recovery
    PROVE  recGen' = recGen /\ recPending' \in BOOLEAN /\ recError' \in BOOLEAN
BY Zenon DEF IInv, TypeOK, FlagType, recovery

(* The listing is ready, and the configuration still the current one.      *)
LEMMA RecReadyInv ==
    ASSUME IInv, NEW g \in Generations, RecReady(g)
    PROVE  IInv'
BY RecGoesOnInv DEF RecReady

(* The configuration was replaced: nobody waits for a result.              *)
LEMMA RecObsoleteInv ==
    ASSUME IInv, NEW g \in Generations, RecObsolete(g)
    PROVE  IInv'
<1>1. /\ RecStep(g, "list", "exit") /\ UNCHANGED recovery /\ UNCHANGED scanned
      /\ ~StillCurrent(g)
  BY DEF RecObsolete
<1> QED
  BY <1>1, SilentEffect, RecEndsInv

(* The context is done while polling.                                      *)
LEMMA RecGiveUpInv ==
    ASSUME IInv, NEW g \in Generations, RecGiveUp(g)
    PROVE  IInv'
<1>1. /\ rec[g].ctx # "live" /\ UNCHANGED scanned
      /\ RecStep(g, "list", "exit") \/ RecStep(g, "acquire", "exit")
  BY DEF RecGiveUp
<1>2. rec[g].ctx \in {"live", "canceled", "expired"}
  BY DEF IInv, TypeOK, GoroutineType, RecStates
<1>3. /\ recGen' = recGen /\ recPending' \in BOOLEAN /\ recError' \in BOOLEAN
      /\ g # gen => UNCHANGED recovery
  <2>1. CASE rec[g].ctx = "expired"
    BY <2>1, SetResultEffect DEF RecGiveUp
  <2>2. CASE rec[g].ctx # "expired"
    BY <2>2, SilentEffect DEF RecGiveUp
  <2> QED
    BY <2>1, <2>2
<1>4. rec[g].ctx # "canceled" => rec[g].ctx = "expired"
  BY <1>1, <1>2
<1>5. CASE RecStep(g, "list", "exit")
  BY <1>1, <1>3, <1>4, <1>5, RecEndsInv
<1>6. CASE RecStep(g, "acquire", "exit")
  BY <1>1, <1>3, <1>4, <1>6, RecEndsInv
<1> QED
  BY <1>1, <1>5, <1>6

(* priorityMu is taken.                                                    *)
LEMMA RecLockInv ==
    ASSUME IInv, NEW g \in Generations, RecLock(g)
    PROVE  IInv'
BY RecGoesOnInv DEF RecLock

(* With the lock held.                                                     *)
LEMMA RecRecheckInv ==
    ASSUME IInv, NEW g \in Generations, RecRecheck(g)
    PROVE  IInv'
<1>1. UNCHANGED recovery /\ UNCHANGED scanned
  BY DEF RecRecheck
<1>2. CASE RecStep(g, "locked", "scan")
  BY <1>1, <1>2, RecGoesOnInv
<1>3. CASE /\ ~(StillCurrent(g) /\ rec[g].ctx = "live")
           /\ RecStep(g, "locked", "exit")
  <2>1. rec[g].ctx \in {"live", "canceled", "expired"}
    BY DEF IInv, TypeOK, GoroutineType, RecStates
  <2>2. StillCurrent(g) /\ rec[g].ctx # "canceled" => rec[g].ctx = "expired"
    BY <1>3, <2>1
  <2> QED
    BY <1>1, <1>3, <2>2, SilentEffect, RecEndsInv
<1> QED
  BY <1>2, <1>3 DEF RecRecheck

(* The scan ends.                                                          *)
LEMMA RecScanInv ==
    ASSUME IInv, NEW g \in Generations, RecScanned(g) \/ RecScanFails(g)
    PROVE  IInv'
<1>1. CASE RecScanned(g)
  BY <1>1, RecGoesOnInv DEF RecScanned
<1>2. CASE RecScanFails(g)
  BY <1>2, RecGoesOnInv DEF RecScanFails
<1> QED
  BY <1>1, <1>2

(* The result of the scan is set.                                          *)
LEMMA RecReportInv ==
    ASSUME IInv, NEW g \in Generations, RecReport(g)
    PROVE  IInv'
<1>1. UNCHANGED scanned
  BY DEF RecReport
<1>2. CASE RecStep(g, "good", "exit") /\ SetResult(g, FALSE)
  <2>1. /\ recGen' = recGen /\ recPending' \in BOOLEAN
        /\ recError' \in BOOLEAN
        /\ g # gen => UNCHANGED recovery
    BY <1>2, SetResultEffect
  <2>2. RecStep(g, "good", "exit")
    BY <1>2
  <2> QED
    BY <1>1, <2>1, <2>2, RecEndsInv
<1>3. CASE RecStep(g, "failed", "exit") /\ SetResult(g, TRUE)
  <2>1. /\ recGen' = recGen /\ recPending' \in BOOLEAN
        /\ recError' \in BOOLEAN
        /\ g # gen => UNCHANGED recovery
        /\ StillCurrent(g) => recError'
    BY <1>3, SetResultEffect
  <2>2. RecStep(g, "failed", "exit")
    BY <1>3
  <2> QED
    BY <1>1, <2>1, <2>2, RecEndsInv
<1> QED
  BY <1>2, <1>3 DEF RecReport

(* The deferred clean-up.                                                  *)
LEMMA RecExitInv ==
    ASSUME IInv, NEW g \in Generations, RecExit(g)
    PROVE  IInv'
<1>1. /\ rec[g].pc = "exit" /\ rec' = [rec EXCEPT ![g].pc = "none"]
      /\ UNCHANGED <<settings, active, next, schedule, sched, runs, lock,
                     callers, outside>>
      /\ UNCHANGED scanned
  BY DEF RecExit, RecStep
<1>2. /\ rec' \in [Generations -> RecStates]
      /\ rec'[g].pc = "none" /\ rec'[g].ctx = rec[g].ctx
      /\ \A h \in Generations : h # g => rec'[h] = rec[h]
  BY <1>1, RecMoves DEF IInv
<1>3. /\ recGen' \in {recGen, 0} /\ recGen' \in 0..MaxGenerations
      /\ recGen # g => recGen' = recGen
      /\ scanned' \subseteq Generations
  BY <1>1, ServiceAssumption
     DEF RecExit, recovery, IInv, TypeOK, StatusType, MemoryType
<1>4. /\ recPending' \in BOOLEAN /\ recError' \in BOOLEAN
      /\ recError => recError'
      /\ recGen # g /\ recPending => recPending'
  <2>1. recPending \in BOOLEAN /\ recError \in BOOLEAN
    BY Zenon DEF IInv, TypeOK, FlagType
  <2>2. CASE recGen = g
    <3>1. recPending' = FALSE /\ recError' = recError
      BY <2>2 DEF RecExit
    <3> QED
      BY Zenon, <2>1, <2>2, <3>1
  <2>3. CASE recGen # g
    <3>1. recPending' = recPending /\ recError' = recError
      BY <2>3 DEF RecExit, recovery
    <3> QED
      BY Zenon, <2>1, <3>1
  <2> QED
    BY <2>2, <2>3
<1>5. RecoveryShape'
  BY <1>1, <1>2, <1>3, RecoveryShapeKept
<1>6. VerdictShape'
  <2> SUFFICES ASSUME lifecycle = "none", ~stopped, HostEnabled(cfg)
               PROVE  /\ rec'[gen].ctx # "canceled"
                      /\ rec'[gen].pc \notin {"exit", "none"} =>
                            recGen' = gen /\ recPending'
                      /\ rec'[gen].pc = "good" => gen \in scanned'
                      /\ rec'[gen].pc \in {"exit", "none"} =>
                            \/ recError' \/ gen \in scanned'
                            \/ rec'[gen].ctx = "expired"
    BY <1>1 DEF VerdictShape, settings, lock, HostEnabled
  <2>1. /\ rec[gen].ctx # "canceled"
        /\ rec[gen].pc \notin {"exit", "none"} => recGen = gen /\ recPending
        /\ rec[gen].pc = "good" => gen \in scanned
        /\ rec[gen].pc \in {"exit", "none"} =>
              recError \/ gen \in scanned \/ rec[gen].ctx = "expired"
    BY DEF IInv, RecoveryPart, VerdictShape
  <2>2. gen \in Generations
    BY CurrentGeneration
  <2>3. CASE g = gen
    BY <1>1, <1>2, <1>4, <2>1, <2>3
  <2>4. CASE g # gen
    <3>1. rec'[gen] = rec[gen] /\ scanned' = scanned
      BY <1>1, <1>2, <2>2, <2>4
    <3>2. recGen = gen => recGen' = gen /\ (recPending => recPending')
      BY <1>3, <1>4, <2>4
    <3> QED
      BY <1>4, <2>1, <3>1, <3>2
  <2> QED
    BY <2>3, <2>4
<1>7. RecoveryPart' /\ rec[g].pc # "none"
  BY <1>1, <1>5, <1>6 DEF RecoveryPart
<1>8. recPending' \in BOOLEAN /\ recError' \in BOOLEAN
  BY Zenon, <1>4
<1> QED
  BY <1>1, <1>2, <1>3, <1>7, <1>8, RecoveryStepKeeps

(* The recovery's time runs out.                                           *)
LEMMA RecDeadlineInv ==
    ASSUME IInv, NEW g \in Generations, RecDeadline(g)
    PROVE  IInv'
<1> DEFINE late == [rec[g] EXCEPT !.ctx = "expired"]
<1>1. /\ rec[g].pc # "none"
      /\ UNCHANGED <<settings, active, next, recovery, schedule, sched, runs,
                     lock, callers, outside, scanned>>
  BY DEF RecDeadline
<1>2. /\ rec \in [Generations -> RecStates] /\ rec[g] \in RecStates
      /\ rec' = [rec EXCEPT ![g] = late]
  BY DEF IInv, TypeOK, GoroutineType, RecDeadline
<1>3. late \in RecStates /\ late.pc = rec[g].pc /\ late.ctx = "expired"
  BY <1>2 DEF RecStates
<1> HIDE DEF late
<1>4. /\ rec' \in [Generations -> RecStates]
      /\ rec'[g].pc = rec[g].pc /\ rec'[g].ctx = "expired"
      /\ \A h \in Generations : h # g => rec'[h] = rec[h]
  BY <1>2, <1>3
<1>5. recGen' = recGen /\ recPending' \in BOOLEAN /\ recError' \in BOOLEAN
  BY <1>1, SilentEffect
<1>6. recGen' \in 0..MaxGenerations /\ scanned' \subseteq Generations
  BY <1>1, <1>5 DEF IInv, TypeOK, StatusType, MemoryType
<1>7. RecoveryShape'
  BY <1>1, <1>4, <1>5, RecoveryShapeKept
<1>8. VerdictShape'
  <2>1. /\ gen \in Generations \/ ~HostEnabled(cfg)
        /\ \A h \in Generations :
              /\ rec'[h].pc = rec[h].pc
              /\ rec'[h].ctx = rec[h].ctx \/ rec'[h].ctx = "expired"
    BY <1>4, CurrentGeneration
  <2> QED
    BY <1>1, <2>1 DEF IInv, RecoveryPart, VerdictShape, settings, lock,
                      recovery, HostEnabled
<1>9. RecoveryPart'
  BY <1>7, <1>8 DEF RecoveryPart
<1> QED
  BY <1>1, <1>4, <1>5, <1>6, <1>9, RecoveryStepKeeps

(* A model request is only sent by a run that has looked at its context.   *)
LEMMA CallLooks ==
    ASSUME IInv, Next, NEW r \in RunIDs,
           runs[r].pc = "work", runs'[r].pc = "call"
    PROVE  ~RunCanceled(r)
<1>0. TypeOK /\ runs' # runs
  BY DEF IInv
<1>1. CASE NewService \/ Shutdown \/ \E c \in Configs : ApplyConfig(c)
  BY <1>0, <1>1 DEF NewService, Shutdown, ApplyConfig
<1>2. CASE LifecycleStep
  <2>1. CancelAll
    BY <1>0, <1>2 DEF LifecycleStep, ApplyCancel, StartScheduler,
                      StartPriorityRecovery, ShutdownCancel, ShutdownWait
  <2> QED
    BY <1>0, <2>1, CancelEffect
<1>3. ASSUME NEW g \in 0..MaxGenerations, NEW parent \in 0..MaxGenerations,
             Launch(g, parent)
      PROVE  FALSE
  BY <1>0, <1>3, RunStarts
<1>4. ASSUME NEW i \in Callers, Manual(i) PROVE FALSE
  <2>1. ManualStart(i) /\ Launch(callers[i].gen, 0)
    BY <1>0, <1>4 DEF Manual, ManualService, ManualRead, ManualStart
  <2>2. callers[i].gen = gen
    BY <1>0, <2>1 DEF ManualStart, Refused
  <2>3. gen \in 0..MaxGenerations /\ 0 \in 0..MaxGenerations
    BY <1>0, ServiceAssumption DEF TypeOK, ControlType
  <2> QED
    BY <1>3, <2>1, <2>2, <2>3
<1>5. ASSUME NEW g \in Generations, Scheduler(g) PROVE FALSE
  <2>1. Launch(g, g)
    BY <1>0, <1>5 DEF Scheduler, SchedCompute, SchedFire, SchedStop,
                      SchedStart, SchedSkip
  <2>2. g \in 0..MaxGenerations
    BY ServiceAssumption DEF Generations
  <2> QED
    BY <1>3, <2>1, <2>2
<1>6. ASSUME NEW g \in Generations, Recovery(g) \/ RecDeadline(g) PROVE FALSE
  BY <1>0, <1>6 DEF Recovery, RecReady, RecObsolete, RecGiveUp, RecLock,
     RecRecheck, RecScanned, RecScanFails, RecReport, RecExit, RecDeadline,
     RecStep
<1>7. ASSUME NEW q \in RunIDs, Run(q) PROVE ~RunCanceled(r)
  <2>1. q = r
    <3>1. \/ \E from, to \in {"none", "lock", "work", "call", "exit"} :
                RunStep(q, from, to)
          \/ runs' = [runs EXCEPT ![q] = NoRun]
      BY <1>7 DEF Run, RunLock, RunCall, RunCallReturns, RunFinish, RunExit
    <3>2. \/ \E to \in {"none", "lock", "work", "call", "exit"} :
                runs' = [runs EXCEPT ![q].pc = to]
          \/ runs' = [runs EXCEPT ![q] = NoRun]
      BY <3>1 DEF RunStep
    <3> QED
      BY <3>2, <1>0 DEF TypeOK, GoroutineType
  <2>2. CASE RunCall(q)
    BY <2>1, <2>2 DEF RunCall
  <2>3. CASE RunLock(q) \/ RunCallReturns(q) \/ RunExit(q)
    BY <2>1, <2>3 DEF RunLock, RunCallReturns, RunExit, RunStep
  <2>4. CASE RunFinish(q)
    <3>1. runs' = [runs EXCEPT ![r].pc = "exit"]
      BY <2>1, <2>4 DEF RunFinish, RunStep
    <3> QED
      BY <1>0, <3>1, RunMoves
  <2> QED
    BY <1>7, <2>2, <2>3, <2>4 DEF Run
<1>8. CASE StepBack
  BY <1>0, <1>8 DEF StepBack
<1> QED
  BY <1>1, <1>2, <1>4, <1>5, <1>6, <1>7, <1>8 DEF Next

(* A step that changes nothing.                                            *)
LEMMA StutterInv == IInv /\ UNCHANGED vars => IInv'
<1> SUFFICES ASSUME IInv, UNCHANGED vars PROVE IInv'
  OBVIOUS
<1>1. TypeOK'
  <2> USE DEF IInv, TypeOK, vars
  <2>1. ControlType' /\ StatusType'
    BY DEF ControlType, StatusType
  <2>2. FlagType'
    BY Zenon DEF FlagType
  <2>3. GoroutineType' /\ MemoryType'
    BY DEF GoroutineType, MemoryType
  <2> QED
    BY <2>1, <2>2, <2>3
<1>2. UNCHANGED <<settings, active, next, recovery, sched, runs, rec, lock,
                  scanned>>
  BY DEF vars, settings, recovery, lock
<1> QED
  BY <1>1, <1>2, OthersKept

(* Every step keeps the invariant.                                         *)
LEMMA NextInv == IInv /\ [Next]_vars => IInv'
<1> SUFFICES ASSUME IInv, [Next]_vars PROVE IInv'
  OBVIOUS
<1>1. CASE NewService \/ Shutdown \/ \E c \in Configs : ApplyConfig(c)
  BY <1>1, NewServiceInv, ShutdownInv, ApplyConfigInv
<1>2. CASE LifecycleStep
  BY <1>2, ApplyCancelInv, StartSchedulerInv, StartRecoveryInv,
     ShutdownCancelInv, ShutdownWaitInv DEF LifecycleStep
<1>3. ASSUME NEW i \in Callers, Manual(i) PROVE IInv'
  BY <1>3, ManualServiceInv, ManualReadInv, ManualStartInv DEF Manual
<1>4. ASSUME NEW g \in Generations, Scheduler(g) PROVE IInv'
  BY <1>4, SchedComputeInv, SchedFireInv, SchedStopInv, SchedStartInv,
     SchedSkipInv DEF Scheduler
<1>5. ASSUME NEW g \in Generations, Recovery(g) \/ RecDeadline(g) PROVE IInv'
  BY <1>5, RecReadyInv, RecObsoleteInv, RecGiveUpInv, RecLockInv,
     RecRecheckInv, RecScanInv, RecReportInv, RecExitInv, RecDeadlineInv
     DEF Recovery
<1>6. ASSUME NEW r \in RunIDs, Run(r) PROVE IInv'
  BY <1>6, RunInv
<1>7. CASE StepBack
  BY <1>7, StepBackInv
<1>8. CASE UNCHANGED vars
  BY <1>8, StutterInv
<1> QED
  BY <1>1, <1>2, <1>3, <1>4, <1>5, <1>6, <1>7, <1>8 DEF Next

(* The invariant holds in every state of the service.                      *)
LEMMA Inductive == Spec => []IInv
BY InitInv, NextInv, PTL DEF Spec

-----------------------------------------------------------------------------
(* One refresh run at a time: whatever configurations replace one another, *)
(* a run that has not finished is the one that running and active show.    *)
THEOREM OneRun == Spec => []SingleFlight
<1>1. IInv => SingleFlight
  BY DEF IInv, RunPart
<1> QED
  BY <1>1, Inductive, PTL

(* Only the current scheduler changes the time that is shown, as long as   *)
(* the configuration is the same.                                          *)
LEMMA ShownStep ==
    ASSUME IInv, NextShown, [Next]_vars
    PROVE  NextShown'
<1> USE DEF settings, outside, lock, recovery, schedule
<1>1. sched \in [Generations -> SchedStates] /\ gen \in Nat
  BY ServiceAssumption DEF IInv, TypeOK, GoroutineType, ControlType
<1>2. CASE UNCHANGED <<settings, sched, next>>
  BY <1>2 DEF NextShown
<1>3. CASE NewService
  BY <1>3 DEF NewService, NoSched, NextShown
<1>4. ASSUME NEW c \in Configs, ApplyConfig(c) PROVE NextShown'
  <2>1. gen' = gen + 1 /\ UNCHANGED sched
    BY <1>4 DEF ApplyConfig
  <2>2. \A g \in Generations : g = gen' => sched[g].pc = "none"
    BY <1>1, <2>1, ServiceAssumption
       DEF IInv, SchedulerPart, SchedulerShape, Generations
  <2> QED
    BY <2>1, <2>2 DEF NextShown
<1>5. CASE Shutdown
  BY <1>5 DEF Shutdown, NextShown
<1>6. CASE ApplyCancel \/ ShutdownCancel
  <2>1. /\ UNCHANGED <<settings, next>>
        /\ sched' = [g \in Generations |->
                        [sched[g] EXCEPT !.canceled = @ \/ sched[g].pc # "none"]]
    BY <1>6 DEF ApplyCancel, ShutdownCancel, CancelAll
  <2>2. \A g \in Generations : /\ sched'[g].pc = sched[g].pc
                               /\ sched'[g].due = sched[g].due
    BY <1>1, <2>1 DEF SchedStates
  <2> QED
    BY <2>1, <2>2 DEF NextShown
<1>7. CASE StartScheduler
  <2>1. /\ UNCHANGED <<settings, next>>
        /\ sched' = [sched EXCEPT ![gen] = [NoSched EXCEPT !.pc = "compute"]]
    BY <1>7 DEF StartScheduler
  <2>2. \A g \in Generations : sched'[g] = sched[g] \/ sched'[g].pc = "compute"
    BY <1>1, <2>1 DEF NoSched
  <2> QED
    BY <2>1, <2>2 DEF NextShown
<1>8. ASSUME NEW g \in Generations, Scheduler(g) PROVE NextShown'
  <2>1. CASE SchedCompute(g)
    <3>1. /\ UNCHANGED settings
          /\ next' = IF ~stopped /\ g = gen THEN sched'[g].due ELSE next
          /\ \A h \in Generations : h # g => sched'[h] = sched[h]
      BY <1>1, <2>1 DEF SchedCompute, SchedStates
    <3> QED
      BY <3>1 DEF NextShown
  <2>2. CASE SchedStop(g)
    <3>1. /\ UNCHANGED settings /\ next' = IF g = gen THEN 0 ELSE next
          /\ sched'[g].pc = "none"
          /\ \A h \in Generations : h # g => sched'[h] = sched[h]
      BY <1>1, <2>2 DEF SchedStop, NoSched
    <3> QED
      BY <3>1 DEF NextShown
  <2>3. CASE SchedFire(g) \/ SchedStart(g) \/ SchedSkip(g)
    <3>1. /\ UNCHANGED <<settings, next>> /\ sched'[g].pc # "sleep"
          /\ \A h \in Generations : h # g => sched'[h] = sched[h]
      BY <1>1, <2>3 DEF SchedFire, SchedStart, SchedSkip, SchedStates
    <3> QED
      BY <3>1 DEF NextShown
  <2> QED
    BY <1>8, <2>1, <2>2, <2>3 DEF Scheduler
<1>9. ASSUME NEW i \in Callers, Manual(i) PROVE NextShown'
  BY <1>2, <1>9 DEF Manual, ManualService, ManualRead, ManualStart
<1>10. ASSUME NEW r \in RunIDs, Run(r) PROVE NextShown'
  BY <1>2, <1>10 DEF Run, RunLock, RunCall, RunCallReturns, RunFinish, RunExit,
                     RunStep
<1>11. ASSUME NEW g \in Generations, Recovery(g) \/ RecDeadline(g)
       PROVE  NextShown'
  BY <1>2, <1>11 DEF Recovery, RecReady, RecObsolete, RecGiveUp, RecLock,
                     RecRecheck, RecScanned, RecScanFails, RecReport, RecExit,
                     RecDeadline, RecStep
<1>12. CASE StepBack \/ StartPriorityRecovery \/ ShutdownWait
  BY <1>2, <1>12 DEF StepBack, StartPriorityRecovery, ShutdownWait
<1>13. CASE UNCHANGED vars
  BY <1>2, <1>13 DEF vars
<1> QED
  BY <1>3, <1>4, <1>5, <1>6, <1>7, <1>8, <1>9, <1>10, <1>11, <1>12, <1>13
     DEF Next, LifecycleStep

(* The next run time of the status is that of the scheduler of the         *)
(* configuration in the status, whatever schedulers of replaced            *)
(* configurations are still about to do.                                   *)
THEOREM NextTrue == Spec => []NextTruthful
<1>1. IInv => NextIsCurrent
  BY DEF IInv, SchedulerPart
<1>2. Init => NextShown
  BY DEF Init, NoSched, NextShown
<1>3. IInv /\ NextShown /\ [Next]_vars => NextShown'
  BY ShownStep
<1>4. Spec => []NextShown
  BY <1>2, <1>3, Inductive, PTL DEF Spec
<1>5. IInv /\ NextShown => NextTruthful
  BY <1>1 DEF NextTruthful
<1> QED
  BY <1>4, <1>5, Inductive, PTL

(* When Shutdown has returned, no goroutine of any generation is left, no  *)
(* run is active and priorityMu is free.                                   *)
THEOREM QuietAfterShutdown == Spec => []ShutdownQuiet
<1>1. IInv => ShutdownQuiet
  <2> SUFFICES ASSUME IInv, stopped, lifecycle = "none"
               PROVE  Alive = {} /\ active = 0 /\ PriorityFree
    BY DEF ShutdownQuiet
  <2>1. /\ \A g \in Generations : sched[g].pc = "none" /\ rec[g].pc = "none"
        /\ \A r \in RunIDs : runs[r].pc = "none"
    BY DEF IInv, AllEnded
  <2>2. Alive = {}
    BY <2>1 DEF Alive
  <2>3. active = 0
    BY <2>1 DEF IInv, RunPart, SingleFlight, TypeOK, StatusType
  <2>4. PriorityFree
    BY <2>1 DEF PriorityFree
  <2> QED
    BY <2>2, <2>3, <2>4
<1> QED
  BY <1>1, Inductive, PTL

(* A status without pending recovery and without recovery error is backed  *)
(* by a scan of the current configuration's recovery, or its time ran out. *)
THEOREM Backed == Spec => []VerdictBacked
<1>1. IInv => VerdictBacked
  <2> SUFFICES ASSUME IInv, lifecycle = "none", ~stopped, HostEnabled(cfg),
                      ~recPending, ~recError
               PROVE  gen \in scanned \/ rec[gen].ctx = "expired"
    BY DEF VerdictBacked, AllClear
  <2>1. /\ rec[gen].pc \notin {"exit", "none"} => recPending
        /\ rec[gen].pc \in {"exit", "none"} =>
              recError \/ gen \in scanned \/ rec[gen].ctx = "expired"
    BY DEF IInv, RecoveryPart, VerdictShape
  <2> QED
    BY <2>1
<1> QED
  BY <1>1, Inductive, PTL

(* Once ApplyConfig or Shutdown has canceled, no model request is sent for *)
(* an earlier configuration.                                               *)
THEOREM NoLateCall == Spec => NoStaleCall
<1>1. IInv /\ [Next]_vars => [\A r \in RunIDs : ~StaleCall(r)]_vars
  <2> SUFFICES ASSUME IInv, Next, NEW r \in RunIDs, StaleCall(r)
               PROVE  FALSE
    OBVIOUS
  <2>1. /\ runs[r].pc = "work" /\ runs'[r].pc = "call"
        /\ lifecycle \notin {"cancel", "stop"}
        /\ runs[r].gen # gen \/ stopped
    BY DEF StaleCall
  <2>2. RunCanceled(r)
    BY <2>1 DEF IInv, RunPart, StaleShape, Going
  <2>3. ~RunCanceled(r)
    BY <2>1, CallLooks DEF IInv
  <2> QED
    BY <2>2, <2>3
<1> QED
  BY <1>1, Inductive, PTL DEF Spec, NoStaleCall

-----------------------------------------------------------------------------
(* No slot starts two runs. The service has two reasons, and each is       *)
(* enough: the wall clock does not go back, or the memory of occurrences   *)
(* is not full (512 slots). Without both a slot may start again.           *)

(* As long as the memory is not full: every slot that was started is in    *)
(* it, once.                                                               *)
MemoryShape ==
    /\ \A j, k \in DOMAIN occurrences : occurrences[j] = occurrences[k] => j = k
    /\ \A s \in Slots : /\ starts[s] <= 1
                        /\ starts[s] # 0 => Remembered(s)

(* As long as the clock does not go back: what was started is past, and    *)
(* what the current scheduler waits for is not.                            *)
ClockShape ==
    /\ \A s \in Slots : starts[s] <= 1 /\ (starts[s] # 0 => s <= clock)
    /\ \A g \in Generations :
          g = gen /\ sched[g].pc \in {"sleep", "start"} /\ sched[g].due # 0 =>
             /\ starts[sched[g].due] = 0
             /\ sched[g].pc = "start" => sched[g].due <= clock

(* The steps that touch the memory of occurrences.                         *)
LEMMA MemorySteps ==
    ASSUME [Next]_vars
    PROVE  \/ UNCHANGED <<occurrences, starts>>
           \/ NewService
           \/ \E g \in Generations : SchedStart(g)
<1>1. CASE Shutdown \/ \E c \in Configs : ApplyConfig(c)
  BY <1>1 DEF Shutdown, ApplyConfig, schedule
<1>2. CASE LifecycleStep
  BY <1>2 DEF LifecycleStep, ApplyCancel, StartScheduler,
              StartPriorityRecovery, ShutdownCancel, ShutdownWait, schedule
<1>3. CASE \E i \in Callers : Manual(i)
  BY <1>3 DEF Manual, ManualService, ManualRead, ManualStart, schedule
<1>4. CASE \E g \in Generations : Scheduler(g)
  BY <1>4 DEF Scheduler, SchedCompute, SchedFire, SchedStop, SchedSkip,
              schedule
<1>5. CASE \E g \in Generations : Recovery(g) \/ RecDeadline(g)
  BY <1>5 DEF Recovery, RecReady, RecObsolete, RecGiveUp, RecLock, RecRecheck,
              RecScanned, RecScanFails, RecReport, RecExit, RecDeadline,
              RecStep, schedule
<1>6. CASE \E r \in RunIDs : Run(r)
  BY <1>6 DEF Run, RunLock, RunCall, RunCallReturns, RunFinish, RunExit,
              RunStep, schedule
<1>7. CASE StepBack \/ UNCHANGED vars
  BY <1>7 DEF StepBack, schedule, vars
<1> QED
  BY <1>1, <1>2, <1>3, <1>4, <1>5, <1>6, <1>7 DEF Next

(* Slots that are all different and leave one out do not fill the memory.  *)
LEMMA RoomForOne ==
    ASSUME MaxClock <= MaxRemembered, NEW seq \in Seq(Slots),
           \A j, k \in DOMAIN seq : seq[j] = seq[k] => j = k,
           NEW s \in Slots, \A k \in DOMAIN seq : seq[k] # s
    PROVE  Len(seq) < MaxRemembered
<1> DEFINE others == Slots \ {s}
<1>1. MaxClock \in Nat /\ MaxRemembered \in Nat /\ Len(seq) \in Nat
  BY ServiceAssumption
<1>2. IsFiniteSet(Slots) /\ Cardinality(Slots) = MaxClock
  BY <1>1, FS_Interval DEF Slots
<1>3. IsFiniteSet(others) /\ Cardinality(others) = MaxClock - 1
  BY <1>2, FS_RemoveElement
<1>4. IsFiniteSet(1..Len(seq)) /\ Cardinality(1..Len(seq)) = Len(seq)
  <2> DEFINE n == Len(seq)
  <2>1. n \in Nat
    BY <1>1
  <2> HIDE DEF n
  <2>2. IsFiniteSet(1..n) /\ Cardinality(1..n) = IF 1 > n THEN 0 ELSE n - 1 + 1
    BY <2>1, FS_Interval
  <2>3. IsFiniteSet(1..n) /\ Cardinality(1..n) = n
    BY <2>1, <2>2
  <2> QED
    BY <2>3 DEF n
<1>5. seq \in [1..Len(seq) -> others]
  OBVIOUS
<1>6. ~ \E j, k \in 1..Len(seq) : j # k /\ seq[j] = seq[k]
  OBVIOUS
<1> HIDE DEF others
<1>7. ~(Cardinality(others) < Cardinality(1..Len(seq)))
  BY <1>3, <1>4, <1>5, <1>6, FS_PigeonHole
<1> QED
  BY <1>1, <1>3, <1>4, <1>7

(* Every step keeps the memory in shape.                                   *)
LEMMA MemoryShapeKept ==
    ASSUME MaxClock <= MaxRemembered, IInv, MemoryShape, [Next]_vars
    PROVE  MemoryShape'
<1>1. CASE UNCHANGED <<occurrences, starts>>
  BY <1>1 DEF MemoryShape, Remembered
<1>2. CASE NewService
  BY <1>2 DEF NewService, MemoryShape
<1>3. ASSUME NEW g \in Generations, SchedStart(g)
      PROVE  MemoryShape'
  <2>0. sched[g].due \in Slots
    BY <1>3, ServiceAssumption
       DEF SchedStart, IInv, TypeOK, GoroutineType, SchedStates,
           SchedulerPart, SchedulerShape, Slots
  <2>1. PICK s \in Slots : s = sched[g].due
    BY <2>0
  <2>2. \/ UNCHANGED <<occurrences, starts>>
        \/ /\ ~Remembered(s) /\ occurrences' = Remember(occurrences, s)
           /\ \/ UNCHANGED starts
              \/ starts' = [starts EXCEPT ![s] = @ + 1]
    BY <1>3, <2>1 DEF SchedStart
  <2>3. occurrences \in Seq(Slots) /\ starts \in [Slots -> Nat]
    BY DEF IInv, TypeOK, MemoryType
  <2>4. ASSUME ~Remembered(s), occurrences' = Remember(occurrences, s),
               \/ UNCHANGED starts
               \/ starts' = [starts EXCEPT ![s] = @ + 1]
        PROVE  MemoryShape'
    <3>1. \A k \in DOMAIN occurrences : occurrences[k] # s
      BY <2>4 DEF Remembered
    <3>2. Len(occurrences) < MaxRemembered
      BY <2>1, <2>3, <3>1, RoomForOne DEF MemoryShape
    <3>3. occurrences' = Append(occurrences, s)
      BY <2>1, <2>3, <2>4, <3>2, ServiceAssumption DEF Remember
    <3>4. /\ DOMAIN occurrences = 1..Len(occurrences)
          /\ DOMAIN occurrences' = 1..Len(occurrences) + 1
          /\ occurrences'[Len(occurrences) + 1] = s
          /\ \A k \in 1..Len(occurrences) : occurrences'[k] = occurrences[k]
      BY <2>1, <2>3, <3>3
    <3>5. \A j, k \in DOMAIN occurrences' :
             occurrences'[j] = occurrences'[k] => j = k
      BY <2>3, <3>1, <3>4 DEF MemoryShape
    <3>6. starts[s] = 0
      BY <2>1, <2>3, <2>4 DEF MemoryShape
    <3>7. ASSUME NEW t \in Slots
          PROVE  starts'[t] <= 1 /\ (starts'[t] # 0 => Remembered(t)')
      <4>1. Remembered(s)' /\ (Remembered(t) => Remembered(t)')
        BY <2>3, <3>4 DEF Remembered
      <4>2. CASE t = s
        BY <2>1, <2>3, <2>4, <3>6, <4>1, <4>2
      <4>3. CASE t # s
        BY <2>1, <2>3, <2>4, <4>1, <4>3 DEF MemoryShape
      <4> QED
        BY <4>2, <4>3
    <3> QED
      BY <3>5, <3>7 DEF MemoryShape
  <2> QED
    BY <1>1, <2>2, <2>4
<1> QED
  BY <1>1, <1>2, <1>3, MemorySteps

(* No slot of the schedule starts two runs as long as there are no more    *)
(* slots than the memory of occurrences holds, however often the clock     *)
(* goes back.                                                              *)
THEOREM OnceInMemory ==
    ASSUME MaxClock <= MaxRemembered PROVE Spec => []OccurrenceOnce
<1>1. Init => MemoryShape
  BY DEF Init, MemoryShape
<1>2. IInv /\ MemoryShape /\ [Next]_vars => MemoryShape'
  BY MemoryShapeKept
<1>3. MemoryShape => OccurrenceOnce
  BY DEF MemoryShape, OccurrenceOnce
<1> QED
  BY <1>1, <1>2, <1>3, Inductive, PTL DEF Spec

(* The steps that touch the clock, the generation or a scheduler.          *)
LEMMA ClockSteps ==
    ASSUME [Next]_vars
    PROVE  \/ UNCHANGED <<gen, sched, clock, starts>>
           \/ NewService
           \/ \E c \in Configs : ApplyConfig(c)
           \/ CancelAll /\ UNCHANGED <<gen, clock, starts>>
           \/ StartScheduler
           \/ \E g \in Generations : Scheduler(g)
           \/ StepBack
<1>1. CASE Shutdown
  BY <1>1 DEF Shutdown, schedule, outside
<1>2. CASE LifecycleStep
  BY <1>2 DEF LifecycleStep, ApplyCancel, StartPriorityRecovery,
              ShutdownCancel, ShutdownWait, schedule, outside, settings
<1>3. CASE \E i \in Callers : Manual(i)
  <2>1. PICK i \in Callers : ManualService(i) \/ ManualRead(i) \/ ManualStart(i)
    BY <1>3 DEF Manual
  <2>2. CASE ManualService(i)
    BY <2>2 DEF ManualService, schedule, settings
  <2>3. CASE ManualRead(i)
    BY <2>3 DEF ManualRead, schedule, outside, settings
  <2>4. CASE ManualStart(i)
    BY <2>4 DEF ManualStart, schedule, outside, settings
  <2> QED
    BY <2>1, <2>2, <2>3, <2>4
<1>4. CASE \E g \in Generations : Recovery(g) \/ RecDeadline(g)
  <2>1. PICK g \in Generations : Recovery(g) \/ RecDeadline(g)
    BY <1>4
  <2>2. CASE RecReady(g) \/ RecObsolete(g) \/ RecGiveUp(g) \/ RecLock(g)
    BY <2>2 DEF RecReady, RecObsolete, RecGiveUp, RecLock, RecStep, schedule,
                outside, settings
  <2>3. CASE RecRecheck(g) \/ RecScanned(g) \/ RecScanFails(g)
    BY <2>3 DEF RecRecheck, RecScanned, RecScanFails, RecStep, schedule,
                outside, settings
  <2>4. CASE RecReport(g) \/ RecExit(g) \/ RecDeadline(g)
    BY <2>4 DEF RecReport, RecExit, RecDeadline, RecStep, schedule, outside,
                settings
  <2> QED
    BY <2>1, <2>2, <2>3, <2>4 DEF Recovery
<1>5. CASE \E r \in RunIDs : Run(r)
  BY <1>5 DEF Run, RunLock, RunCall, RunCallReturns, RunFinish, RunExit,
              RunStep, schedule, outside, settings
<1>6. CASE UNCHANGED vars
  BY <1>6 DEF vars
<1> QED
  BY <1>1, <1>2, <1>3, <1>4, <1>5, <1>6 DEF Next

(* A step of a scheduler keeps the clock's shape.                          *)
LEMMA SchedulerKeepsClock ==
    ASSUME IInv, ClockShape, NEW g \in Generations, Scheduler(g)
    PROVE  ClockShape'
<1>0. gen' = gen
  BY DEF Scheduler, SchedCompute, SchedFire, SchedStop, SchedStart,
         SchedSkip, settings
<1>1. /\ TypeOK /\ gen' = gen /\ sched[g].due \in 0..MaxClock
      /\ clock \in 0..MaxClock /\ starts \in [Slots -> Nat]
      /\ 0 \in 0..MaxClock /\ MaxClock \in Nat
  <2>1. TypeOK /\ GoroutineType /\ MemoryType
    BY DEF IInv, TypeOK
  <2>2. sched[g].due \in 0..MaxClock
    BY <2>1 DEF GoroutineType, SchedStates
  <2>3. clock \in 0..MaxClock /\ starts \in [Slots -> Nat]
    BY <2>1 DEF MemoryType
  <2>4. MaxClock \in Nat
    BY ServiceAssumption
  <2>5. 0 \in 0..MaxClock
    BY <2>4
  <2> QED
    BY Zenon, <1>0, <2>1, <2>2, <2>3, <2>4, <2>5
<1>2. CASE SchedCompute(g)
  <2> DEFINE s == IF clock < MaxClock THEN clock + 1 ELSE 0
  <2>1. /\ sched' = [sched EXCEPT ![g].pc = "sleep", ![g].due = s]
        /\ clock' = clock /\ starts' = starts
    BY <1>2 DEF SchedCompute, outside, schedule
  <2>2. s \in 0..MaxClock /\ (s # 0 => s = clock + 1 /\ s \in Slots)
    BY <1>1 DEF Slots
  <2> HIDE DEF s
  <2>3. /\ sched'[g].pc = "sleep" /\ sched'[g].due = s
        /\ \A h \in Generations : h # g => sched'[h] = sched[h]
    <3>1. /\ TypeOK /\ s \in 0..MaxClock
          /\ "sleep" \in {"none", "compute", "sleep", "start", "busy"}
      BY <1>1, <2>2
    <3> QED
      BY Zenon, <2>1, <3>1, SchedMoves
  <2>4. s # 0 => starts[s] = 0
    BY <1>1, <2>2 DEF ClockShape
  <2> QED
    BY <1>1, <2>1, <2>3, <2>4 DEF ClockShape
<1>3. CASE SchedFire(g)
  <2>1. /\ sched' = [sched EXCEPT ![g].pc = "start"]
        /\ sched[g].pc = "sleep" /\ starts' = starts
        /\ clock' = IF clock < sched[g].due THEN sched[g].due ELSE clock
    BY <1>3 DEF SchedFire, schedule
  <2>2. /\ sched'[g].pc = "start" /\ sched'[g].due = sched[g].due
        /\ \A h \in Generations : h # g => sched'[h] = sched[h]
    <3>1. /\ TypeOK /\ "start" \in {"none", "compute", "sleep", "start", "busy"}
          /\ sched[g].due \in 0..MaxClock
      BY Zenon, <1>1
    <3> QED
      BY Zenon, <2>1, <3>1, SchedMoves
  <2>3. clock <= clock' /\ sched[g].due <= clock' /\ clock' \in 0..MaxClock
    BY <1>1, <2>1
  <2>4. \A s \in Slots : starts'[s] <= 1 /\ (starts'[s] # 0 => s <= clock')
    BY <1>1, <2>1, <2>3 DEF ClockShape, Slots
  <2>5. \A h \in Generations :
           h = gen /\ sched'[h].pc \in {"sleep", "start"}
             /\ sched'[h].due # 0 =>
                /\ starts'[sched'[h].due] = 0
                /\ sched'[h].pc = "start" => sched'[h].due <= clock'
    <3>1. \A h \in Generations : sched[h].due \in 0..MaxClock
      BY <1>1 DEF TypeOK, GoroutineType, SchedStates
    <3> QED
      BY <1>1, <2>1, <2>2, <2>3, <3>1 DEF ClockShape
  <2> QED
    BY <1>1, <2>4, <2>5 DEF ClockShape
<1>4. CASE SchedStop(g)
  <2>1. /\ sched' = [sched EXCEPT ![g] = [NoSched EXCEPT !.canceled = TRUE]]
        /\ clock' = clock /\ starts' = starts
    BY <1>4 DEF SchedStop, outside, schedule
  <2>2. [NoSched EXCEPT !.canceled = TRUE].pc = "none"
    BY DEF NoSched
  <2>3. /\ sched'[g].pc = "none"
        /\ \A h \in Generations : h # g => sched'[h] = sched[h]
    BY <1>1, <2>1, <2>2 DEF TypeOK, GoroutineType
  <2> QED
    BY <1>1, <2>1, <2>3 DEF ClockShape
<1>5. CASE SchedSkip(g)
  <2>1. /\ sched' = [sched EXCEPT ![g].pc = "compute", ![g].due = 0]
        /\ clock' = clock /\ starts' = starts
    BY <1>5 DEF SchedSkip, outside
  <2>2. /\ sched'[g].pc = "compute"
        /\ \A h \in Generations : h # g => sched'[h] = sched[h]
    <3>1. /\ TypeOK /\ 0 \in 0..MaxClock
          /\ "compute" \in {"none", "compute", "sleep", "start", "busy"}
      BY <1>1
    <3> QED
      BY Zenon, <2>1, <3>1, SchedMoves
  <2> QED
    BY <1>1, <2>1, <2>2 DEF ClockShape
<1>6. CASE SchedStart(g)
  <2>1. /\ sched[g].pc = "start" /\ clock' = clock
        /\ \/ sched' = [sched EXCEPT ![g].pc = "compute", ![g].due = 0]
           \/ sched' = [sched EXCEPT ![g].pc = "busy"]
        /\ \/ starts' = starts
           \/ g = gen /\ starts' = [starts EXCEPT ![sched[g].due] = @ + 1]
    BY <1>6 DEF SchedStart, outside
  <2>2. /\ sched'[g].pc \in {"compute", "busy"}
        /\ \A h \in Generations : h # g => sched'[h] = sched[h]
    <3>1. /\ TypeOK /\ 0 \in 0..MaxClock /\ sched[g].due \in 0..MaxClock
          /\ "busy" \in {"none", "compute", "sleep", "start", "busy"}
          /\ "compute" \in {"none", "compute", "sleep", "start", "busy"}
      BY <1>1
    <3>2. CASE sched' = [sched EXCEPT ![g].pc = "compute", ![g].due = 0]
      <4>1. /\ sched'[g].pc = "compute"
            /\ \A h \in Generations : h # g => sched'[h] = sched[h]
        BY Zenon, <3>1, <3>2, SchedMoves
      <4> QED
        BY Zenon, <4>1
    <3>3. CASE sched' = [sched EXCEPT ![g].pc = "busy"]
      <4>1. /\ sched'[g].pc = "busy"
            /\ \A h \in Generations : h # g => sched'[h] = sched[h]
        BY Zenon, <3>1, <3>3, SchedMoves
      <4> QED
        BY Zenon, <4>1
    <3> QED
      BY Zenon, <2>1, <3>2, <3>3
  <2>3. PICK s \in Slots : s = sched[g].due
    BY <1>1, <2>1 DEF IInv, SchedulerPart, SchedulerShape, Slots
  <2>4. g = gen => starts[s] = 0 /\ s <= clock
    BY <1>1, <2>1, <2>3 DEF ClockShape, Slots
  <2>5. \A t \in Slots : starts'[t] <= 1 /\ (starts'[t] # 0 => t <= clock)
    BY <1>1, <2>1, <2>3, <2>4 DEF ClockShape
  <2>6. CASE g = gen
    BY <1>1, <2>1, <2>2, <2>5, <2>6 DEF ClockShape
  <2>7. CASE g # gen
    BY <1>1, <2>1, <2>2, <2>5, <2>7 DEF ClockShape
  <2> QED
    BY <2>6, <2>7
<1> QED
  BY <1>2, <1>3, <1>4, <1>5, <1>6 DEF Scheduler

(* Every step keeps the clock's shape.                                     *)
LEMMA ClockShapeKept ==
    ASSUME MaxStepBacks = 0, IInv, ClockShape, [Next]_vars
    PROVE  ClockShape'
<1>1. CASE UNCHANGED <<gen, sched, clock, starts>>
  BY <1>1 DEF ClockShape
<1>2. CASE NewService
  <2>1. NoSched.pc = "none"
    BY DEF NoSched
  <2> QED
    BY <1>2, <2>1 DEF NewService, ClockShape
<1>3. ASSUME NEW c \in Configs, ApplyConfig(c) PROVE ClockShape'
  <2>1. /\ gen' = gen + 1 /\ gen \in Nat
        /\ UNCHANGED <<sched, clock, starts>>
    BY <1>3, ServiceAssumption
       DEF ApplyConfig, outside, schedule, IInv, TypeOK, ControlType
  <2>2. \A g \in Generations : g = gen' => sched[g].pc = "none"
    BY <2>1, ServiceAssumption
       DEF IInv, SchedulerPart, SchedulerShape, Generations
  <2> QED
    BY <2>1, <2>2 DEF ClockShape
<1>4. CASE CancelAll /\ UNCHANGED <<gen, clock, starts>>
  <2>1. \A g \in Generations :
           sched'[g].pc = sched[g].pc /\ sched'[g].due = sched[g].due
    BY <1>4, CancelEffect DEF IInv
  <2> QED
    BY <1>4, <2>1 DEF ClockShape
<1>5. CASE StartScheduler
  <2>1. /\ sched' = [sched EXCEPT ![gen] = [NoSched EXCEPT !.pc = "compute"]]
        /\ UNCHANGED <<gen, clock, starts>>
    BY <1>5 DEF StartScheduler, settings, outside, schedule
  <2>2. [NoSched EXCEPT !.pc = "compute"].pc = "compute"
    BY DEF NoSched
  <2>3. \A g \in Generations : g = gen => sched'[g].pc = "compute"
    BY <2>1, <2>2 DEF IInv, TypeOK, GoroutineType
  <2> QED
    BY <2>1, <2>3 DEF ClockShape
<1>6. CASE \E g \in Generations : Scheduler(g)
  BY <1>6, SchedulerKeepsClock
<1>7. ~StepBack
  BY DEF StepBack, IInv, TypeOK, MemoryType
<1> QED
  BY <1>1, <1>2, <1>3, <1>4, <1>5, <1>6, <1>7, ClockSteps

(* No slot of the schedule starts two runs as long as the wall clock is    *)
(* not set back, whatever was dropped from the memory of occurrences.      *)
THEOREM OnceByTheClock ==
    ASSUME MaxStepBacks = 0 PROVE Spec => []OccurrenceOnce
<1>1. Init => ClockShape
  BY DEF Init, ClockShape, NoSched
<1>2. IInv /\ ClockShape /\ [Next]_vars => ClockShape'
  BY ClockShapeKept
<1>3. ClockShape => OccurrenceOnce
  BY DEF ClockShape, OccurrenceOnce
<1> QED
  BY <1>1, <1>2, <1>3, Inductive, PTL DEF Spec
=============================================================================
