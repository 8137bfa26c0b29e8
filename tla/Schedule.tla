------------------------------ MODULE Schedule ------------------------------
(***************************************************************************)
(* Local times of day as moments: NextOccurrence and OccurrenceID          *)
(* (internal/refreshquota/schedule.go) under scheduleLoop (service.go), in *)
(* a zone whose offset to UTC changes.                                     *)
(*                                                                         *)
(* Moments are numbers. A wall time is the number that UTC has at the same *)
(* reading, so that its day is w \div DayLen and its time of day           *)
(* w % DayLen; the calendar's months and years come down to day numbers.   *)
(* startRun and its memory of occurrences are in Service: here nothing     *)
(* stops a slot from being started twice but the computation itself.       *)
(***************************************************************************)
EXTENDS Integers, Sequences, FiniteSets

CONSTANTS
    DayLen,     \* units of time in a day
    Zones,      \* time zones
    TimesOfDay, \* sets of configured times, after normalizeTimes
    Horizon,    \* days NextOccurrence looks ahead (370)
    MaxTime,    \* when the clock stops
    MaxLate     \* time lost by timers that fire late

(* A zone has an offset and later changes of it, in order.                 *)
Zone == [first : Int, changes : Seq([at : Int, offset : Int])]

InOrder(z) ==
    \A j, k \in DOMAIN z.changes : j < k => z.changes[j].at < z.changes[k].at

VARIABLES
    zone, times,  \* Location and Times of the configuration
    now,
    pc,           \* "compute" or "sleep"
    due,          \* next
    begin,        \* when the loop was started
    fired,        \* wall times for which startRun was called
    late          \* observer: moments a timer was overdue

vars == <<zone, times, now, pc, due, begin, fired, late>>

-----------------------------------------------------------------------------
(* package time (external): Location.lookup, Time.In and time.Date.        *)

Segment(z, t) == Cardinality({k \in DOMAIN z.changes : z.changes[k].at <= t})

OffsetOf(z, s) == IF s = 0 THEN z.first ELSE z.changes[s].offset

Local(z, t) == t + OffsetOf(z, Segment(z, t))

(* The offset is looked up as if the wall time were UTC, and once more     *)
(* where that has led outside of the offset's validity.                    *)
Date(z, w) ==
    LET s == Segment(z, w)
        utc == w - OffsetOf(z, s)
    IN IF OffsetOf(z, s) = 0 \/ Segment(z, utc) = s THEN utc
       ELSE w - OffsetOf(z, Segment(z, utc))

-----------------------------------------------------------------------------
(* The local day that AddDate(0, 0, k) arrives at.                         *)
DayAfter(z, t, k) == Local(z, Date(z, Local(z, t) + k * DayLen)) \div DayLen

(* Mutant: a wall time that does not exist is moved, not skipped.          *)
ExistsAlways(z, w) == TRUE

(* Date has found a moment that reads as asked.                            *)
Exists(z, w) == Local(z, Date(z, w)) = w

(* Mutant: the present moment counts as well.                              *)
CandidatesFromNow(z, T, t, d) ==
    LET walls == {w \in {d * DayLen + i : i \in T} : Exists(z, w)}
    IN {c \in {Date(z, w) : w \in walls} : c >= t}

Candidates(z, T, t, d) ==
    LET walls == {w \in {d * DayLen + i : i \in T} : Exists(z, w)}
    IN {c \in {Date(z, w) : w \in walls} : c > t}

(* Mutant: only today and tomorrow are looked at.                          *)
DaysSoon(z, T, t) ==
    {k \in 0..1 : Candidates(z, T, t, DayAfter(z, t, k)) # {}}

(* Mutant: today is over once one of its times is.                         *)
DaysFromTomorrow(z, T, t) ==
    {k \in 0..(Horizon - 1) :
        /\ Candidates(z, T, t, DayAfter(z, t, k)) # {}
        /\ k > 0 \/ \A i \in T : i > Local(z, t) % DayLen}

(* The days, counted from today, that still have an occurrence.            *)
Days(z, T, t) ==
    {k \in 0..(Horizon - 1) : Candidates(z, T, t, DayAfter(z, t, k)) # {}}

Least(S) == CHOOSE x \in S : \A y \in S : x <= y

NextOccurrence(z, T, t) ==
    Least(Candidates(z, T, t, DayAfter(z, t, Least(Days(z, T, t)))))

(* OccurrenceID: local day and label, here together a wall time.           *)
OccurrenceID(z, t) == Local(z, t)

(* The wall times that the k-th change skips.                              *)
Gap(z, k) ==
    LET c == z.changes[k]
    IN (c.at + OffsetOf(z, k - 1))..(c.at + c.offset - 1)

(* A skipped wall time w is moved within its day by Date, unless the gap   *)
(* begins at midnight. It is so for the rules in force; a gap that began   *)
(* at 00:01 (St. John's, until 2011) could make DayAfter step over a day.  *)
KeepsDays(z) ==
    \A k \in DOMAIN z.changes : \A w \in Gap(z, k) :
        LET midnight == (w \div DayLen) * DayLen
        IN \/ Local(z, Date(z, w)) \div DayLen = w \div DayLen
           \/ midnight..w \subseteq Gap(z, k) /\ midnight - 1 \notin Gap(z, k)

ASSUME ScheduleAssumption ==
    /\ DayLen \in Nat \ {0} /\ Horizon \in Nat
    /\ MaxTime \in Int /\ MaxLate \in Nat
    /\ Zones \subseteq Zone /\ \A z \in Zones : InOrder(z)
    /\ TimesOfDay \subseteq SUBSET (0..(DayLen - 1))

ASSUME ZoneAssumption == \A z \in Zones : KeepsDays(z)

-----------------------------------------------------------------------------
Init ==
    /\ zone \in Zones /\ times \in TimesOfDay
    /\ begin \in 0..(DayLen - 1) /\ now = begin
    /\ pc = "compute" /\ due = begin
    /\ fired = <<>> /\ late = {}

(* scheduleLoop computes the next occurrence and arms a timer. Without one *)
(* the loop would end; NeverGivesUp says that there always is one.         *)
Compute ==
    /\ pc = "compute" /\ Days(zone, times, now) # {}
    /\ due' = NextOccurrence(zone, times, now) /\ pc' = "sleep"
    /\ UNCHANGED <<zone, times, now, begin, fired, late>>

(* The timer fires and startRun is called, which may answer ErrBusy.       *)
Fire ==
    /\ pc = "sleep" /\ now >= due
    /\ fired' = Append(fired, OccurrenceID(zone, due))
    /\ pc' = "compute"
    /\ UNCHANGED <<zone, times, now, due, begin, late>>

Tick ==
    /\ pc = "sleep" /\ now < MaxTime
    /\ now >= due => Cardinality(late) < MaxLate
    /\ now' = now + 1
    /\ late' = IF now >= due THEN late \cup {now + 1} ELSE late
    /\ UNCHANGED <<zone, times, pc, due, begin, fired>>

Next == Compute \/ Fire \/ Tick

Spec == Init /\ [][Next]_vars

-----------------------------------------------------------------------------
TypeOK ==
    /\ zone \in Zone /\ times \subseteq 0..(DayLen - 1)
    /\ now \in Int /\ begin \in Int /\ due \in Int
    /\ pc \in {"compute", "sleep"}
    /\ fired \in Seq(Int) /\ late \subseteq (begin + 1)..now

(* A run starts when the clock on the wall shows a configured time, never  *)
(* at a time that daylight saving skips.                                   *)
FiresOnTheWall ==
    pc = "sleep" => Local(zone, due) % DayLen \in times

(* One start per local day and configured time, when an hour is repeated   *)
(* as well.                                                                *)
OncePerWallTime ==
    \A j, k \in DOMAIN fired : fired[j] = fired[k] => j = k

(* No configured time is passed over: if the wall has shown it since the   *)
(* loop began, for the last time before the present and never while a      *)
(* timer was overdue, its run was started, or is the one that is due.      *)
NothingMissed ==
    pc = "sleep" =>
        \A w \in {Local(zone, t) : t \in begin..(now - 1)} :
            /\ w % DayLen \in times
            /\ \A t \in (begin - DayLen)..(now + DayLen) :
                  Local(zone, t) = w => t \in ((begin + 1)..(now - 1)) \ late
            => \/ w = OccurrenceID(zone, due)
               \/ \E k \in DOMAIN fired : fired[k] = w

(* There always is a next occurrence within the days that are looked at:   *)
(* the loop never ends by itself.                                          *)
NeverGivesUp == pc = "compute" => Days(zone, times, now) # {}
=============================================================================
