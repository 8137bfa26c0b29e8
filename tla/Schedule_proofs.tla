-------------------------- MODULE Schedule_proofs --------------------------
(***************************************************************************)
(* Proofs about Schedule, for any configured times and any lateness of the *)
(* timers. OnTheWall and OnceOnTheWall hold in any zone; NoneMissed and    *)
(* AlwaysNext in zones that KeepsDays and Regular describe.                *)
(***************************************************************************)
EXTENDS Schedule, FiniteSetTheorems, WellFoundedInduction, TLAPS

-----------------------------------------------------------------------------
(* Numbers.                                                                *)

(* A set of natural numbers has a least element.                           *)
LEMMA NatMinimum ==
    ASSUME NEW S \in SUBSET Nat, S # {}
    PROVE  \E x \in S : \A y \in S : x <= y
<1> DEFINE R == OpToRel(<, Nat)
<1>1. IsWellFoundedOn(R, Nat)
  BY NatLessThanWellFounded
<1>2. PICK x \in S : \A y \in S : ~ (<<y, x>> \in R)
  BY <1>1, WFMin
<1>3. \A y \in S : ~ (y < x)
  BY <1>2 DEF OpToRel
<1> HIDE DEF R
<1>4. \A y \in S : x <= y
  BY <1>3
<1> QED
  BY <1>4

(* The least of a set of moments after t.                                  *)
LEMMA LeastOf ==
    ASSUME NEW t \in Int, NEW S \in SUBSET Int, S # {}, \A c \in S : c > t
    PROVE  Least(S) \in S /\ \A y \in S : Least(S) <= y
<1> DEFINE D == {c - t : c \in S}
<1>1. D \in SUBSET Nat /\ D # {}
  <2>1. \A c \in S : c - t \in Nat
    OBVIOUS
  <2> QED
    BY Zenon, <2>1
<1>2. PICK x \in D : \A y \in D : x <= y
  BY <1>1, NatMinimum
<1>3. PICK c \in S : x = c - t
  BY <1>2
<1>4. \A e \in S : c - t <= e - t
  BY <1>2, <1>3
<1>5. \A e \in S : c <= e
  BY <1>4
<1> QED
  BY <1>5 DEF Least

(* The time of day of a wall time.                                         *)
LEMMA TimeOfDay ==
    ASSUME NEW n \in Nat \ {0}, NEW d \in Int, NEW i \in 0..(n - 1)
    PROVE  (d * n + i) % n = i
<1> DEFINE q == (d * n + i) \div n
           r == (d * n + i) % n
<1>1. q \in Int /\ r \in 0..(n - 1) /\ d * n + i = n * q + r
  OBVIOUS
<1> QED
  OBVIOUS

-----------------------------------------------------------------------------
(* What the zone computations return.                                      *)

(* Products with a positive number keep the order.                         *)
LEMMA ProductOrder ==
    ASSUME NEW n \in Nat \ {0}, NEW c \in Int, NEW d \in Int
    PROVE  c < d => c * n + n <= d * n
<1> SUFFICES ASSUME c < d PROVE c * n + n <= d * n
  OBVIOUS
<1>1. PICK e \in Nat : d = c + 1 + e
  <2>1. d - c - 1 \in Nat /\ d = c + 1 + (d - c - 1)
    OBVIOUS
  <2> QED
    BY <2>1
<1>2. d * n = c * n + n + e * n
  BY <1>1
<1>3. e * n \in Nat /\ c * n \in Int
  OBVIOUS
<1> QED
  BY <1>2, <1>3

(* Day and time of day.                                                    *)
LEMMA DayAndTime ==
    ASSUME NEW n \in Nat \ {0}, NEW w \in Int
    PROVE  /\ w \div n \in Int /\ w % n \in 0..(n - 1)
           /\ w = (w \div n) * n + (w % n)
<1> DEFINE q == w \div n
           r == w % n
<1>1. q \in Int /\ r \in 0..(n - 1) /\ w = n * q + r
  OBVIOUS
<1> HIDE DEF q, r
<1>2. n * q = q * n
  BY <1>1
<1>3. q \in Int /\ r \in 0..(n - 1) /\ w = q * n + r
  BY <1>1, <1>2
<1> QED
  BY Zenon, <1>3 DEF q, r

(* The day of a wall time put together from day and time.                  *)
LEMMA DayOf ==
    ASSUME NEW n \in Nat \ {0}, NEW d \in Int, NEW i \in 0..(n - 1)
    PROVE  (d * n + i) \div n = d
<1> DEFINE v == d * n + i
           q == v \div n
           r == v % n
<1>1. v \in Int /\ r = i
  BY TimeOfDay
<1>2. q \in Int /\ v = q * n + r
  BY <1>1, DayAndTime
<1>3. q * n \in Int /\ d * n \in Int
  BY <1>2
<1>4. q * n = d * n
  <2>1. v = d * n + i
    OBVIOUS
  <2> HIDE DEF v, q, r
  <2> QED
    BY <1>1, <1>2, <1>3, <2>1
<1>5. (q < d => q * n + n <= d * n) /\ (d < q => d * n + n <= q * n)
  BY <1>2, ProductOrder
<1> HIDE DEF q
<1>6. q = d
  BY <1>2, <1>3, <1>4, <1>5
<1> QED
  BY <1>6 DEF q

(* The beginning of a day.                                                 *)
LEMMA Midnight ==
    ASSUME NEW n \in Nat \ {0}, NEW w \in Int
    PROVE  (w \div n) * n \in Int /\ (w \div n) * n <= w
<1> DEFINE d == w \div n
           i == w % n
<1>1. d \in Int /\ i \in 0..(n - 1) /\ w = d * n + i
  BY DayAndTime
<1> HIDE DEF d, i
<1>2. d * n \in Int
  BY <1>1
<1>3. d * n \in Int /\ d * n <= w
  BY <1>1, <1>2
<1> QED
  BY <1>3 DEF d

(* An earlier wall time is not on a later day.                             *)
LEMMA DayOrder ==
    ASSUME NEW n \in Nat \ {0}, NEW v \in Int, NEW w \in Int
    PROVE  v \div n < w \div n => v < w
<1> DEFINE c == v \div n
           d == w \div n
           i == v % n
           j == w % n
<1>1. /\ c \in Int /\ i \in 0..(n - 1) /\ v = c * n + i
      /\ d \in Int /\ j \in 0..(n - 1) /\ w = d * n + j
  BY DayAndTime
<1> HIDE DEF c, d, i, j
<1>2. c < d => c * n + n <= d * n
  BY <1>1, ProductOrder
<1>3. c * n \in Int /\ d * n \in Int
  BY <1>1
<1>4. c < d => v < w
  BY <1>1, <1>2, <1>3
<1> QED
  BY <1>4 DEF c, d

(* A day later.                                                            *)
LEMMA DayShift ==
    ASSUME NEW n \in Nat \ {0}, NEW w \in Int, NEW k \in Int
    PROVE  (w + k * n) \div n = w \div n + k
<1> DEFINE d == w \div n
           v == w + k * n
           c == v \div n
           i == w % n
           j == v % n
<1>1. /\ d \in Int /\ i \in 0..(n - 1) /\ w = d * n + i
      /\ v \in Int /\ c \in Int /\ j \in 0..(n - 1) /\ v = c * n + j
  BY DayAndTime
<1>2. v = w + k * n /\ (d + k) * n = d * n + k * n
  BY <1>1
<1> HIDE DEF c, d, v, i, j
<1>3. /\ c < d + k => c * n + n <= (d + k) * n
      /\ d + k < c => (d + k) * n + n <= c * n
  BY <1>1, ProductOrder
<1>4. c * n \in Int /\ d * n \in Int /\ k * n \in Int
  BY <1>1
<1>5. c = d + k
  BY <1>1, <1>2, <1>3, <1>4
<1> QED
  BY <1>5 DEF c, d, v

(* A wall time within a day of another is on the next day at the latest.   *)
LEMMA DayNear ==
    ASSUME NEW n \in Nat \ {0}, NEW v \in Int, NEW w \in Int, w - v <= n
    PROVE  w \div n <= v \div n + 1
<1> DEFINE c == v \div n
           d == w \div n
           e == (v + 1 * n) \div n
<1>1. c \in Int /\ d \in Int /\ v + 1 * n \in Int
  BY DayAndTime
<1>2. e = c + 1
  BY DayShift
<1>3. e < d => v + 1 * n < w
  BY <1>1, DayOrder
<1> HIDE DEF c, d, e
<1>4. d <= c + 1
  BY <1>1, <1>2, <1>3
<1> QED
  BY <1>4 DEF c, d

(* An interval that begins at a number.                                    *)
LEMMA Beginning ==
    ASSUME NEW b \in Int, NEW c \in Int, NEW v \in Int, NEW w \in Int,
           b <= w, w < c, v <= w,
           v..w \subseteq b..(c - 1), v - 1 \notin b..(c - 1)
    PROVE  b = v
<1>1. v \in v..w
  OBVIOUS
<1>2. v \in b..(c - 1)
  BY Zenon, <1>1
<1> QED
  BY <1>2

(* The change in force is one of the zone's, or none yet.                  *)
LEMMA SegmentType ==
    ASSUME NEW z \in Zone, NEW t \in Int
    PROVE  Segment(z, t) \in 0..Len(z.changes)
<1> DEFINE n == Len(z.changes)
           past == {k \in DOMAIN z.changes : z.changes[k].at <= t}
<1>1. n \in Nat /\ DOMAIN z.changes = 1..n
  BY DEF Zone
<1>2. IsFiniteSet(1..n) /\ Cardinality(1..n) = n
  <2> HIDE DEF n
  <2>1. IsFiniteSet(1..n) /\ Cardinality(1..n) = IF 1 > n THEN 0 ELSE n - 1 + 1
    BY <1>1, FS_Interval
  <2> QED
    BY <1>1, <2>1
<1>3. past \in SUBSET (1..n)
  BY <1>1
<1>4. IsFiniteSet(past) /\ Cardinality(past) <= n
  BY <1>2, <1>3, FS_Subset
<1>5. Cardinality(past) \in Nat
  BY <1>4, FS_CardinalityType
<1> QED
  BY <1>1, <1>4, <1>5 DEF Segment

(* An entry of a sequence.                                                 *)
LEMMA EntryType ==
    ASSUME NEW S, NEW q \in Seq(S), NEW k \in 1..Len(q)
    PROVE  q[k] \in S
OBVIOUS

(* Offsets, wall times and moments are integers.                           *)
LEMMA OffsetType ==
    ASSUME NEW z \in Zone, NEW s \in 0..Len(z.changes)
    PROVE  OffsetOf(z, s) \in Int
<1>1. z.first \in Int /\ z.changes \in Seq([at : Int, offset : Int])
  BY DEF Zone
<1>2. CASE s # 0
  <2>1. s \in 1..Len(z.changes)
    BY <1>1, <1>2
  <2>2. z.changes[s] \in [at : Int, offset : Int]
    BY Zenon, <1>1, <2>1, EntryType
  <2> QED
    BY <1>2, <2>2 DEF OffsetOf
<1> QED
  BY <1>1, <1>2 DEF OffsetOf

(* The wall time of a moment.                                              *)
LEMMA LocalType ==
    ASSUME NEW z \in Zone, NEW t \in Int
    PROVE  Local(z, t) \in Int
<1>1. OffsetOf(z, Segment(z, t)) \in Int
  BY SegmentType, OffsetType
<1> QED
  BY <1>1 DEF Local

(* The moment of a wall time.                                              *)
LEMMA DateType ==
    ASSUME NEW z \in Zone, NEW w \in Int
    PROVE  Date(z, w) \in Int
<1>1. OffsetOf(z, Segment(z, w)) \in Int
  BY SegmentType, OffsetType
<1>2. w - OffsetOf(z, Segment(z, w)) \in Int
  BY <1>1
<1>3. OffsetOf(z, Segment(z, w - OffsetOf(z, Segment(z, w)))) \in Int
  BY <1>2, SegmentType, OffsetType
<1>4. w - OffsetOf(z, Segment(z, w - OffsetOf(z, Segment(z, w)))) \in Int
  BY <1>3
<1> QED
  BY <1>2, <1>4 DEF Date

(* A local day.                                                            *)
LEMMA DayType ==
    ASSUME NEW z \in Zone, NEW t \in Int, NEW k \in Int
    PROVE  DayAfter(z, t, k) \in Int
<1>1. DayLen \in Nat \ {0}
  BY ScheduleAssumption
<1>2. Local(z, t) \in Int
  BY LocalType
<1>3. Local(z, t) + k * DayLen \in Int
  BY <1>1, <1>2
<1>4. Local(z, Date(z, Local(z, t) + k * DayLen)) \in Int
  BY <1>3, DateType, LocalType
<1> QED
  BY <1>1, <1>4 DEF DayAfter

(* A candidate is a later moment at which the wall shows a configured      *)
(* time, and it is the only moment that Date makes of that wall time.      *)
LEMMA CandidateFacts ==
    ASSUME NEW z \in Zone, NEW T \in SUBSET (0..(DayLen - 1)), NEW t \in Int,
           NEW d \in Int, NEW c \in Candidates(z, T, t, d)
    PROVE  /\ c \in Int /\ c > t
           /\ Local(z, c) % DayLen \in T
           /\ Date(z, Local(z, c)) = c
<1>1. DayLen \in Nat \ {0}
  BY ScheduleAssumption
<1>2. PICK i \in T : /\ Exists(z, d * DayLen + i)
                     /\ c = Date(z, d * DayLen + i) /\ c > t
  BY DEF Candidates
<1>3. d * DayLen + i \in Int /\ (d * DayLen + i) % DayLen = i
  BY <1>1, TimeOfDay
<1>4. Local(z, c) = d * DayLen + i
  BY <1>2 DEF Exists
<1>5. c \in Int
  BY <1>2, <1>3, DateType
<1> QED
  BY <1>2, <1>3, <1>4, <1>5

(* A moment at which the wall shows a configured time, and that Date makes *)
(* of that wall time.                                                      *)
Occurs(z, T, m) ==
    Local(z, m) % DayLen \in T /\ Date(z, Local(z, m)) = m

(* An occurrence is a candidate of its day.                                *)
LEMMA IsCandidate ==
    ASSUME NEW z \in Zone, NEW T, NEW t \in Int, NEW m \in Int, m > t,
           Occurs(z, T, m)
    PROVE  m \in Candidates(z, T, t, Local(z, m) \div DayLen)
<1> DEFINE w == Local(z, m)
           d == w \div DayLen
           i == w % DayLen
<1>1. DayLen \in Nat \ {0} /\ w \in Int
  BY ScheduleAssumption, LocalType
<1>2. w = d * DayLen + i
  BY <1>1, DayAndTime
<1>3. i \in T /\ Date(z, w) = m
  BY DEF Occurs
<1>4. Exists(z, w)
  BY <1>3 DEF Exists
<1> HIDE DEF d, i, w
<1>5. Exists(z, d * DayLen + i) /\ Date(z, d * DayLen + i) = m
  BY Zenon, <1>2, <1>3, <1>4
<1>6. m \in Candidates(z, T, t, d)
  BY <1>3, <1>5 DEF Candidates
<1> QED
  BY <1>6 DEF d, w

(* A candidate shows the day it was looked for on.                         *)
LEMMA CandidateDay ==
    ASSUME NEW z \in Zone, NEW T \in SUBSET (0..(DayLen - 1)), NEW t \in Int,
           NEW d \in Int, NEW c \in Candidates(z, T, t, d)
    PROVE  Local(z, c) \div DayLen = d
<1>1. PICK i \in T : Exists(z, d * DayLen + i) /\ c = Date(z, d * DayLen + i)
  BY DEF Candidates
<1>2. Local(z, c) = d * DayLen + i
  BY <1>1 DEF Exists
<1>3. (d * DayLen + i) \div DayLen = d
  BY ScheduleAssumption, DayOf
<1> QED
  BY <1>2, <1>3

(* NextOccurrence is the least candidate of the first day that has one.    *)
LEMMA NextDay ==
    ASSUME NEW z \in Zone, NEW T \in SUBSET (0..(DayLen - 1)), NEW t \in Int,
           Days(z, T, t) # {}
    PROVE  \E k \in Days(z, T, t) :
              /\ \A j \in Days(z, T, t) : k <= j
              /\ NextOccurrence(z, T, t) \in
                    Candidates(z, T, t, DayAfter(z, t, k))
              /\ \A c \in Candidates(z, T, t, DayAfter(z, t, k)) :
                    NextOccurrence(z, T, t) <= c
<1> DEFINE k == Least(Days(z, T, t))
           d == DayAfter(z, t, k)
<1>1. /\ Days(z, T, t) \in SUBSET Int
      /\ \A j \in Days(z, T, t) : j > -1
  BY ScheduleAssumption DEF Days
<1>2. k \in Days(z, T, t) /\ \A j \in Days(z, T, t) : k <= j
  <2>1. -1 \in Int
    OBVIOUS
  <2> QED
    BY <1>1, <2>1, LeastOf
<1>3. k \in Int /\ Candidates(z, T, t, d) # {}
  BY <1>1, <1>2 DEF Days
<1> HIDE DEF k
<1>4. d \in Int
  BY <1>3, DayType
<1> HIDE DEF d
<1>5. \A c \in Candidates(z, T, t, d) : c \in Int /\ c > t
  BY <1>4, CandidateFacts
<1>6. Candidates(z, T, t, d) \in SUBSET Int
  BY <1>5
<1>7. /\ Least(Candidates(z, T, t, d)) \in Candidates(z, T, t, d)
      /\ \A c \in Candidates(z, T, t, d) : Least(Candidates(z, T, t, d)) <= c
  BY <1>3, <1>5, <1>6, LeastOf
<1>8. NextOccurrence(z, T, t) = Least(Candidates(z, T, t, d))
  BY DEF NextOccurrence, d, k
<1> QED
  BY Zenon, <1>2, <1>7, <1>8 DEF d

(* So it is a later moment at which the wall shows a configured time.      *)
LEMMA NextFacts ==
    ASSUME NEW z \in Zone, NEW T \in SUBSET (0..(DayLen - 1)), NEW t \in Int,
           Days(z, T, t) # {}
    PROVE  /\ NextOccurrence(z, T, t) \in Int /\ NextOccurrence(z, T, t) > t
           /\ Local(z, NextOccurrence(z, T, t)) % DayLen \in T
           /\ Date(z, Local(z, NextOccurrence(z, T, t))) =
                 NextOccurrence(z, T, t)
<1>1. PICK k \in Days(z, T, t) :
         NextOccurrence(z, T, t) \in Candidates(z, T, t, DayAfter(z, t, k))
  BY NextDay
<1>2. DayAfter(z, t, k) \in Int
  BY ScheduleAssumption, DayType DEF Days
<1> QED
  BY <1>1, <1>2, CandidateFacts

-----------------------------------------------------------------------------
(* The inductive invariant.                                                *)

Types ==
    /\ zone \in Zones /\ times \in TimesOfDay
    /\ now \in Int /\ due \in Int /\ fired \in Seq(Int)

(* The moment that is waited for is the one Date makes of its wall time.   *)
DueShape ==
    pc = "sleep" =>
        /\ Local(zone, due) % DayLen \in times
        /\ Date(zone, Local(zone, due)) = due

(* The moments of the starts so far are past, or before the one due.       *)
FiredShape ==
    \A k \in DOMAIN fired :
        /\ pc = "compute" => Date(zone, fired[k]) <= now
        /\ pc = "sleep" => Date(zone, fired[k]) < due

IInv == Types /\ DueShape /\ FiredShape /\ OncePerWallTime

(* Zones and times are what the operators above expect.                    *)
LEMMA Configured ==
    ASSUME Types
    PROVE  zone \in Zone /\ times \in SUBSET (0..(DayLen - 1))
BY ScheduleAssumption DEF Types

(* No start yet.                                                           *)
LEMMA InitInv == Init => IInv
<1> SUFFICES ASSUME Init PROVE IInv
  OBVIOUS
<1>1. begin \in Int
  BY ScheduleAssumption DEF Init
<1> QED
  BY <1>1 DEF Init, IInv, Types, DueShape, FiredShape, OncePerWallTime

(* The next occurrence is after the present, so after all starts.          *)
LEMMA ComputeInv == IInv /\ Compute => IInv'
<1> SUFFICES ASSUME IInv, Compute PROVE IInv'
  OBVIOUS
<1>1. /\ zone \in Zone /\ times \in SUBSET (0..(DayLen - 1)) /\ now \in Int
      /\ fired \in Seq(Int)
  BY Configured DEF IInv, Types
<1>2. /\ pc = "compute" /\ pc' = "sleep" /\ Days(zone, times, now) # {}
      /\ due' = NextOccurrence(zone, times, now)
      /\ UNCHANGED <<zone, times, now, fired>>
  BY DEF Compute
<1>3. /\ due' \in Int /\ due' > now
      /\ Local(zone, due') % DayLen \in times
      /\ Date(zone, Local(zone, due')) = due'
  BY <1>1, <1>2, NextFacts
<1>4. Types' /\ DueShape'
  BY <1>2, <1>3 DEF IInv, Types, DueShape
<1>5. FiredShape'
  <2> SUFFICES ASSUME NEW k \in DOMAIN fired PROVE Date(zone, fired[k]) < due'
    BY <1>2 DEF FiredShape
  <2>1. fired[k] \in Int
    BY <1>1
  <2>2. Date(zone, fired[k]) <= now /\ Date(zone, fired[k]) \in Int
    BY <1>1, <1>2, <2>1, DateType DEF IInv, FiredShape
  <2> QED
    BY <1>1, <1>3, <2>2
<1>6. OncePerWallTime'
  BY <1>2 DEF IInv, OncePerWallTime
<1> QED
  BY <1>4, <1>5, <1>6 DEF IInv

(* The start that is due is not one of the earlier ones: its wall time     *)
(* would stand for the same moment.                                        *)
LEMMA FireInv == IInv /\ Fire => IInv'
<1> SUFFICES ASSUME IInv, Fire PROVE IInv'
  OBVIOUS
<1>1. /\ zone \in Zone /\ now \in Int /\ due \in Int /\ fired \in Seq(Int)
  BY Configured DEF IInv, Types
<1>2. /\ pc = "sleep" /\ pc' = "compute" /\ now >= due
      /\ fired' = Append(fired, Local(zone, due))
      /\ UNCHANGED <<zone, times, now, due>>
  BY DEF Fire, OccurrenceID
<1>3. Local(zone, due) \in Int
  BY <1>1, LocalType
<1>4. Date(zone, Local(zone, due)) = due
  BY <1>2 DEF IInv, DueShape
<1>5. \A k \in DOMAIN fired :
         /\ fired[k] \in Int /\ Date(zone, fired[k]) \in Int
         /\ Date(zone, fired[k]) < due
  BY <1>1, <1>2, DateType DEF IInv, FiredShape
<1>6. PICK n \in Nat :
         /\ DOMAIN fired = 1..n /\ DOMAIN fired' = 1..(n + 1)
         /\ fired'[n + 1] = Local(zone, due)
         /\ \A k \in 1..n : fired'[k] = fired[k]
  <2>1. Len(fired) \in Nat /\ DOMAIN fired = 1..Len(fired)
    BY <1>1
  <2>2. /\ DOMAIN fired' = 1..(Len(fired) + 1)
        /\ fired'[Len(fired) + 1] = Local(zone, due)
        /\ \A k \in 1..Len(fired) : fired'[k] = fired[k]
    BY <1>1, <1>2, <1>3
  <2> QED
    BY <2>1, <2>2
<1>7. \A k \in 1..(n + 1) : k = n + 1 \/ k \in 1..n
  OBVIOUS
<1>8. Types' /\ DueShape'
  BY <1>1, <1>2, <1>3 DEF IInv, Types, DueShape
<1>9. FiredShape'
  <2> SUFFICES ASSUME NEW k \in 1..(n + 1)
               PROVE  Date(zone, fired'[k]) <= now
    BY <1>2, <1>6 DEF FiredShape
  <2>1. CASE k = n + 1
    BY <1>1, <1>2, <1>4, <1>6, <2>1
  <2>2. CASE k \in 1..n
    BY <1>1, <1>2, <1>5, <1>6, <2>2
  <2> QED
    BY <1>7, <2>1, <2>2
<1>10. OncePerWallTime'
  <2>1. \A k \in 1..n : fired[k] # Local(zone, due)
    BY <1>1, <1>4, <1>5, <1>6
  <2> SUFFICES ASSUME NEW j \in 1..(n + 1), NEW k \in 1..(n + 1),
                      fired'[j] = fired'[k]
               PROVE  j = k
    BY <1>6 DEF OncePerWallTime
  <2>2. CASE j \in 1..n /\ k \in 1..n
    BY <1>6, <2>2 DEF IInv, OncePerWallTime
  <2> QED
    BY <1>6, <1>7, <2>1, <2>2
<1> QED
  BY <1>8, <1>9, <1>10 DEF IInv

(* Time passes in the wait only.                                           *)
LEMMA TickInv == IInv /\ Tick => IInv'
<1> SUFFICES ASSUME IInv, Tick PROVE IInv'
  OBVIOUS
<1>1. /\ pc = "sleep" /\ now' = now + 1
      /\ UNCHANGED <<zone, times, pc, due, fired>>
  BY DEF Tick
<1>2. Types'
  BY <1>1 DEF IInv, Types
<1>3. DueShape' /\ FiredShape' /\ OncePerWallTime'
  BY <1>1 DEF IInv, DueShape, FiredShape, OncePerWallTime
<1> QED
  BY <1>2, <1>3 DEF IInv

(* The invariant holds throughout.                                         *)
LEMMA Inductive == Spec => []IInv
<1>1. IInv /\ [Next]_vars => IInv'
  <2>1. IInv /\ UNCHANGED vars => IInv'
    BY DEF vars, IInv, Types, DueShape, FiredShape, OncePerWallTime
  <2> QED
    BY <2>1, ComputeInv, FireInv, TickInv DEF Next
<1> QED
  BY <1>1, InitInv, PTL DEF Spec

(* The scheduler waits only for moments at which the wall shows a          *)
(* configured time, in whatever zone: NextOccurrence drops what time.Date  *)
(* has moved.                                                              *)
THEOREM OnTheWall == Spec => []FiresOnTheWall
<1>1. IInv => FiresOnTheWall
  BY DEF IInv, DueShape, FiresOnTheWall
<1> QED
  BY <1>1, Inductive, PTL

(* No local day and time is started twice, in an hour that is repeated     *)
(* neither: NextOccurrence takes the one moment time.Date chooses, and     *)
(* looks only after the present.                                           *)
THEOREM OnceOnTheWall == Spec => []OncePerWallTime
<1>1. IInv => OncePerWallTime
  BY DEF IInv
<1> QED
  BY <1>1, Inductive, PTL

-----------------------------------------------------------------------------
(* Zones as they are: what Date does around a change.                      *)

(* The offset in force at a moment.                                        *)
Off(z, t) == OffsetOf(z, Segment(z, t))

(* Offsets are no longer than a day, no change is by more than a day (a    *)
(* zone that crosses the date line skips one), and changes are at least a  *)
(* week apart.                                                             *)
Regular(z) ==
    /\ \A k \in 0..Len(z.changes) : OffsetOf(z, k) \in (-DayLen)..DayLen
    /\ \A k \in DOMAIN z.changes :
          OffsetOf(z, k) - OffsetOf(z, k - 1) \in (-DayLen)..DayLen
    /\ \A j, k \in DOMAIN z.changes :
          j < k => z.changes[k].at - z.changes[j].at >= 7 * DayLen

(* Within the week from x the zone changes at most once, at a from offset  *)
(* p to q.                                                                 *)
Week(z, x, a, p, q) ==
    /\ \A t \in Int : x <= t /\ t < x + 7 * DayLen =>
          Off(z, t) = IF t < a THEN p ELSE q
    /\ \/ p = q
       \/ \E k \in DOMAIN z.changes :
             a = z.changes[k].at /\ p = OffsetOf(z, k - 1) /\ q = OffsetOf(z, k)

(* Differences of at most a day.                                           *)
Span == (-DayLen)..DayLen

(* The changes up to a moment are the first ones.                          *)
LEMMA SegmentShape ==
    ASSUME NEW z \in Zone, InOrder(z), NEW t \in Int
    PROVE  \A k \in DOMAIN z.changes :
              z.changes[k].at <= t <=> k <= Segment(z, t)
<1> DEFINE n == Len(z.changes)
           at(k) == z.changes[k].at
           past == {k \in 1..n : at(k) <= t}
           coming == {k \in 1..n : ~(at(k) <= t)} \cup {n + 1}
<1>1. n \in Nat /\ DOMAIN z.changes = 1..n
  BY DEF Zone
<1>2. \A k \in 1..n : at(k) \in Int
  <2>1. z.changes \in Seq([at : Int, offset : Int])
    BY DEF Zone
  <2>2. \A k \in 1..n : z.changes[k] \in [at : Int, offset : Int]
    BY Zenon, <2>1, EntryType
  <2> QED
    BY <2>2
<1>3. \A j, k \in 1..n : j < k => at(j) < at(k)
  BY <1>1 DEF InOrder
<1>4. Segment(z, t) = Cardinality(past)
  BY <1>1 DEF Segment
<1> HIDE DEF n, at
<1>5. coming \in SUBSET Nat /\ coming # {}
  BY <1>1
<1>6. PICK r \in coming : \A y \in coming : r <= y
  BY <1>5, NatMinimum
<1>7. r \in 1..(n + 1)
  BY <1>1, <1>6
<1>8. \A k \in 1..n : at(k) <= t <=> k <= r - 1
  <2>1. \A k \in 1..n : k < r => at(k) <= t
    BY <1>6
  <2>2. \A k \in 1..n : k >= r => ~(at(k) <= t)
    BY <1>1, <1>2, <1>3, <1>6, <1>7
  <2> QED
    BY <1>1, <1>7, <2>1, <2>2
<1>9. past = 1..(r - 1)
  BY <1>1, <1>7, <1>8
<1>10. Cardinality(1..(r - 1)) = r - 1
  <2>1. r - 1 \in Int /\ 1 \in Int
    BY <1>7
  <2>2. Cardinality(1..(r - 1)) = IF 1 > r - 1 THEN 0 ELSE r - 1 - 1 + 1
    BY <2>1, FS_Interval
  <2> QED
    BY <1>7, <2>1, <2>2
<1> QED
  BY <1>1, <1>4, <1>8, <1>9, <1>10 DEF at

(* time.Date subtracts the offset of its first guess.                      *)
LEMMA DateIs ==
    ASSUME NEW z \in Zone, NEW w \in Int
    PROVE  Date(z, w) = w - Off(z, w - Off(z, w))
<1>1. Off(z, w) \in Int
  BY SegmentType, OffsetType DEF Off
<1>2. CASE Off(z, w) = 0
  BY <1>2 DEF Date, Off
<1>3. CASE Segment(z, w - Off(z, w)) = Segment(z, w)
  BY <1>3 DEF Date, Off
<1>4. CASE Off(z, w) # 0 /\ Segment(z, w - Off(z, w)) # Segment(z, w)
  BY <1>4 DEF Date, Off
<1> QED
  BY <1>2, <1>3, <1>4

(* A week sees one change at most.                                         *)
LEMMA OneChange ==
    ASSUME NEW z \in Zone, Regular(z), NEW x \in Int
    PROVE  \E a \in Int, p, q \in Span : q - p \in Span /\ Week(z, x, a, p, q)
<1> DEFINE n == Len(z.changes)
           at(k) == z.changes[k].at
           s == Segment(z, x)
           o(k) == OffsetOf(z, k)
<1>0. DayLen \in Nat \ {0}
  BY ScheduleAssumption
<1>1. n \in Nat /\ DOMAIN z.changes = 1..n /\ s \in 0..n
  BY SegmentType DEF Zone
<1>2. \A k \in 1..n : at(k) \in Int
  <2>1. z.changes \in Seq([at : Int, offset : Int])
    BY DEF Zone
  <2>2. \A k \in 1..n : z.changes[k] \in [at : Int, offset : Int]
    BY Zenon, <2>1, EntryType
  <2> QED
    BY <2>2
<1>3. \A j, k \in 1..n : j < k => at(k) - at(j) >= 7 * DayLen
  BY <1>1 DEF Regular
<1>4. InOrder(z)
  <2> SUFFICES ASSUME NEW j \in 1..n, NEW k \in 1..n, j < k
               PROVE  at(j) < at(k)
    BY <1>1 DEF InOrder
  <2>1. at(j) \in Int /\ at(k) \in Int /\ at(k) - at(j) >= 7 * DayLen
    BY <1>2, <1>3
  <2> HIDE DEF at, n
  <2>2. at(j) < at(k)
    BY <1>0, <2>1
  <2> QED
    BY <2>2 DEF at
<1>5. \A t \in Int : /\ Segment(z, t) \in 0..n
                     /\ \A k \in 1..n : at(k) <= t <=> k <= Segment(z, t)
  BY <1>1, <1>4, SegmentShape, SegmentType
<1>6. /\ \A k \in 0..n : o(k) \in Span
      /\ \A k \in 1..n : o(k) - o(k - 1) \in Span
  BY <1>1 DEF Regular, Span
<1>7. \A t \in Int : Off(z, t) = o(Segment(z, t))
  BY DEF Off
<1>a. \A k \in 1..n : at(k) <= x <=> k <= s
  BY <1>5
<1> HIDE DEF n, at, s, o
<1>8. CASE s < n /\ at(s + 1) < x + 7 * DayLen
  <2>1. /\ s + 1 \in 1..n /\ (s + 1) - 1 = s /\ at(s + 1) \in Int
        /\ o(s) \in Span /\ o(s + 1) \in Span /\ o(s + 1) - o(s) \in Span
    BY <1>1, <1>2, <1>6, <1>8
  <2>2. ASSUME NEW t \in Int, x <= t, t < x + 7 * DayLen
        PROVE  Off(z, t) = IF t < at(s + 1) THEN o(s) ELSE o(s + 1)
    <3>1. CASE t < at(s + 1)
      <4>1. Segment(z, t) < s + 1
        BY <1>5, <2>1, <3>1
      <4>2. s = 0 \/ at(s) <= t
        BY <1>1, <1>2, <1>a, <2>2
      <4>3. Segment(z, t) >= s
        BY <1>1, <1>5, <4>2
      <4> QED
        BY <1>1, <1>5, <1>7, <3>1, <4>1, <4>3
    <3>2. CASE ~(t < at(s + 1))
      <4>1. Segment(z, t) >= s + 1
        BY <1>5, <2>1, <3>2
      <4>2. ~(Segment(z, t) >= s + 2)
        <5> SUFFICES ASSUME Segment(z, t) >= s + 2 PROVE FALSE
          OBVIOUS
        <5>1. s + 2 \in 1..n
          BY <1>1, <1>5
        <5>2. at(s + 2) <= t
          BY <1>5, <5>1
        <5>3. at(s + 2) - at(s + 1) >= 7 * DayLen
          BY <1>3, <2>1, <5>1
        <5>4. at(s + 1) > x
          BY <1>1, <1>2, <1>a, <2>1
        <5> QED
          BY <1>0, <1>2, <2>1, <2>2, <5>1, <5>2, <5>3, <5>4
      <4>3. Segment(z, t) = s + 1
        BY <1>1, <1>5, <4>1, <4>2
      <4> QED
        BY <1>7, <3>2, <4>3
    <3> QED
      BY <3>1, <3>2
  <2>3. Week(z, x, at(s + 1), o(s), o(s + 1))
    BY <1>1, <2>1, <2>2 DEF Week, at, o
  <2> QED
    BY Zenon, <2>1, <2>3
<1>9. CASE ~(s < n /\ at(s + 1) < x + 7 * DayLen)
  <2>1. ASSUME NEW t \in Int, x <= t, t < x + 7 * DayLen
        PROVE  Off(z, t) = o(s)
    <3>1. s = 0 \/ at(s) <= t
      BY <1>1, <1>2, <1>a, <2>1
    <3>2. Segment(z, t) >= s
      BY <1>1, <1>5, <3>1
    <3>3. ~(Segment(z, t) >= s + 1)
      <4> SUFFICES ASSUME Segment(z, t) >= s + 1 PROVE FALSE
        OBVIOUS
      <4>1. s + 1 \in 1..n /\ s < n
        BY <1>1, <1>5
      <4>2. at(s + 1) <= t
        BY <1>5, <4>1
      <4>3. at(s + 1) < x + 7 * DayLen
        BY <1>0, <1>2, <2>1, <4>1, <4>2
      <4> QED
        BY <1>9, <4>1, <4>3
    <3>4. Segment(z, t) = s
      BY <1>1, <1>5, <3>2, <3>3
    <3> QED
      BY <1>7, <3>4
  <2>2. Week(z, x, x, o(s), o(s))
    BY <2>1 DEF Week
  <2>3. o(s) \in Span /\ o(s) - o(s) \in Span
    BY <1>0, <1>1, <1>6 DEF Span
  <2> QED
    BY Zenon, <2>2, <2>3
<1> QED
  BY <1>8, <1>9

(* A change as it is seen from within the week.                            *)
LEMMA InWeek ==
    ASSUME NEW z \in Zone, NEW x \in Int, NEW a \in Int, NEW p \in Span,
           NEW q \in Span, Week(z, x, a, p, q), NEW t \in Int,
           x <= t, t < x + 7 * DayLen
    PROVE  Off(z, t) = IF t < a THEN p ELSE q
BY DEF Week

(* An offset is no longer than a day.                                      *)
LEMMA OffBound ==
    ASSUME NEW z \in Zone, Regular(z), NEW t \in Int
    PROVE  Off(z, t) \in Span
<1>1. DayLen \in Nat \ {0}
  BY ScheduleAssumption
<1>2. PICK a \in Int, p \in Span, q \in Span : Week(z, t, a, p, q)
  BY OneChange
<1>3. Off(z, t) = IF t < a THEN p ELSE q
  <2>1. t <= t /\ t < t + 7 * DayLen
    BY <1>1
  <2> QED
    BY <1>2, <2>1, InWeek
<1> QED
  BY <1>3

(* Date finds a moment for every wall time that is shown.                  *)
LEMMA ShownExists ==
    ASSUME NEW z \in Zone, Regular(z), NEW t \in Int
    PROVE  Exists(z, Local(z, t))
<1> DEFINE x == t - 3 * DayLen
           w == t + Off(z, t)
           u == w - Off(z, w)
           m == w - Off(z, u)
<1>1. DayLen \in Nat \ {0} /\ x \in Int
  BY ScheduleAssumption
<1>2. PICK a \in Int, p \in Span, q \in Span :
         q - p \in Span /\ Week(z, x, a, p, q)
  BY <1>1, OneChange
<1>3. Off(z, t) \in Span /\ w \in Int
  BY <1>1, OffBound DEF Span
<1>4. Off(z, w) \in Span /\ u \in Int
  BY <1>1, <1>3, OffBound DEF Span
<1>5. Off(z, u) \in Span /\ m \in Int
  BY <1>1, <1>3, <1>4, OffBound DEF Span
<1>6. /\ Off(z, t) = IF t < a THEN p ELSE q
      /\ Off(z, w) = IF w < a THEN p ELSE q
      /\ Off(z, u) = IF u < a THEN p ELSE q
      /\ Off(z, m) = IF m < a THEN p ELSE q
  <2>1. /\ x <= t /\ t < x + 7 * DayLen /\ x <= w /\ w < x + 7 * DayLen
        /\ x <= u /\ u < x + 7 * DayLen /\ x <= m /\ m < x + 7 * DayLen
    BY <1>1, <1>3, <1>4, <1>5 DEF Span
  <2> HIDE DEF x, w, u, m
  <2> QED
    BY <1>1, <1>2, <1>3, <1>4, <1>5, <2>1, InWeek
<1>7. m + Off(z, m) = w
  BY <1>1, <1>2, <1>3, <1>4, <1>5, <1>6 DEF Span
<1>8. Local(z, t) = w /\ Date(z, w) = m /\ Local(z, m) = m + Off(z, m)
  BY <1>3, DateIs DEF Local, Off
<1> QED
  BY <1>7, <1>8 DEF Exists

(* Date stays within a day, and what it finds reads within a day of what   *)
(* was asked for.                                                          *)
LEMMA DateNear ==
    ASSUME NEW z \in Zone, Regular(z), NEW w \in Int
    PROVE  /\ Date(z, w) \in Int /\ Date(z, w) - w \in Span
           /\ Local(z, Date(z, w)) \in Int
           /\ Local(z, Date(z, w)) - w \in Span
<1> DEFINE x == w - 3 * DayLen
           u == w - Off(z, w)
           m == Date(z, w)
<1>1. DayLen \in Nat \ {0} /\ x \in Int
  BY ScheduleAssumption
<1>2. PICK a \in Int, p \in Span, q \in Span :
         q - p \in Span /\ Week(z, x, a, p, q)
  BY <1>1, OneChange
<1>3. Off(z, w) \in Span /\ u \in Int
  BY <1>1, OffBound DEF Span
<1>4. m = w - Off(z, u) /\ Local(z, m) = m + Off(z, m)
  BY DateIs DEF Local, Off
<1> HIDE DEF m
<1>5. Off(z, u) \in Span /\ m \in Int
  BY <1>1, <1>3, <1>4, OffBound DEF Span
<1>6. Off(z, m) \in Span
  BY <1>5, OffBound
<1>7. /\ Off(z, u) = IF u < a THEN p ELSE q
      /\ Off(z, m) = IF m < a THEN p ELSE q
  <2>1. x <= u /\ u < x + 7 * DayLen /\ x <= m /\ m < x + 7 * DayLen
    BY <1>1, <1>3, <1>4, <1>5 DEF Span
  <2> HIDE DEF x, u
  <2> QED
    BY <1>1, <1>2, <1>3, <1>5, <2>1, InWeek
<1>8. /\ Local(z, m) \in Int /\ Local(z, m) - w \in Span /\ m - w \in Span
  BY <1>1, <1>2, <1>3, <1>4, <1>5, <1>6, <1>7 DEF Span
<1> QED
  BY <1>5, <1>8 DEF m

(* A later wall time has a later moment.                                   *)
LEMMA DateMonotone ==
    ASSUME NEW z \in Zone, Regular(z), NEW v \in Int, NEW w \in Int, v < w,
           Exists(z, v), Exists(z, w)
    PROVE  Date(z, v) < Date(z, w)
<1> DEFINE x == v - 2 * DayLen
           m == Date(z, v)
           n == Date(z, w)
<1>1. DayLen \in Nat \ {0} /\ x \in Int
  BY ScheduleAssumption
<1>2. /\ m \in Int /\ m - v \in Span
      /\ n \in Int /\ n - w \in Span
  BY DateNear
<1>3. CASE w - v > 2 * DayLen
  <2> HIDE DEF m, n
  <2>1. m < n
    BY <1>1, <1>2, <1>3 DEF Span
  <2> QED
    BY <2>1 DEF m, n
<1>4. CASE w - v <= 2 * DayLen
  <2>1. PICK a \in Int, p \in Span, q \in Span :
           q - p \in Span /\ Week(z, x, a, p, q)
    BY <1>1, OneChange
  <2> DEFINE f == v - Off(z, v)
             g == w - Off(z, w)
  <2>2. Off(z, v) \in Span /\ Off(z, w) \in Span /\ f \in Int /\ g \in Int
    BY <1>1, OffBound DEF Span
  <2>3. /\ m = v - Off(z, f) /\ n = w - Off(z, g)
        /\ v = m + Off(z, m) /\ w = n + Off(z, n)
    BY DateIs DEF Local, Off, Exists
  <2> HIDE DEF m, n
  <2>4. /\ x <= v /\ v < x + 7 * DayLen /\ x <= w /\ w < x + 7 * DayLen
        /\ x <= f /\ f < x + 7 * DayLen /\ x <= g /\ g < x + 7 * DayLen
        /\ x <= m /\ m < x + 7 * DayLen /\ x <= n /\ n < x + 7 * DayLen
    BY <1>1, <1>2, <1>4, <2>2 DEF Span
  <2>5. /\ Off(z, v) = IF v < a THEN p ELSE q
        /\ Off(z, w) = IF w < a THEN p ELSE q
        /\ Off(z, f) = IF f < a THEN p ELSE q
        /\ Off(z, g) = IF g < a THEN p ELSE q
        /\ Off(z, m) = IF m < a THEN p ELSE q
        /\ Off(z, n) = IF n < a THEN p ELSE q
    <3> HIDE DEF x, f, g
    <3> QED
      BY <1>1, <1>2, <2>1, <2>2, <2>4, InWeek
  <2>6. m < n
    BY <1>1, <1>2, <2>1, <2>2, <2>3, <2>5 DEF Span
  <2> QED
    BY <2>6 DEF m, n
<1> QED
  BY <1>1, <1>3, <1>4

(* AddDate arrives at the day that was meant if the wall time is shown.    *)
LEMMA DayAfterExists ==
    ASSUME NEW z \in Zone, NEW t \in Int, NEW k \in Int,
           Exists(z, Local(z, t) + k * DayLen)
    PROVE  DayAfter(z, t, k) = Local(z, t) \div DayLen + k
<1>1. DayLen \in Nat \ {0} /\ Local(z, t) \in Int
  BY ScheduleAssumption, LocalType
<1> QED
  BY <1>1, DayShift DEF DayAfter, Exists

(* It arrives at the next day at the latest.                               *)
LEMMA DayAfterNear ==
    ASSUME NEW z \in Zone, Regular(z), NEW t \in Int, NEW k \in Int
    PROVE  DayAfter(z, t, k) <= Local(z, t) \div DayLen + k + 1
<1> DEFINE w == Local(z, t) + k * DayLen
           v == Local(z, Date(z, w))
<1>1. DayLen \in Nat \ {0} /\ Local(z, t) \in Int /\ w \in Int
  BY ScheduleAssumption, LocalType
<1>2. v \in Int /\ v - w \in Span
  BY <1>1, DateNear
<1>3. w \div DayLen = Local(z, t) \div DayLen + k
  BY <1>1, DayShift
<1>4. DayAfter(z, t, k) = v \div DayLen
  BY DEF DayAfter
<1> HIDE DEF v, w
<1>5. v - w <= DayLen
  BY <1>1, <1>2 DEF Span
<1>6. v \div DayLen <= w \div DayLen + 1
  BY <1>1, <1>2, <1>5, DayNear
<1> QED
  BY <1>3, <1>4, <1>6

(* A wall time that does not exist is in the gap of a change.              *)
LEMMA InGap ==
    ASSUME NEW z \in Zone, Regular(z), NEW w \in Int, ~Exists(z, w)
    PROVE  \E a \in Int, p, q \in Span :
              /\ Week(z, w - 3 * DayLen, a, p, q)
              /\ p < q /\ q - p \in Span /\ a + p <= w /\ w < a + q
              /\ \E k \in DOMAIN z.changes :
                    Gap(z, k) = (a + p)..(a + q - 1) /\ w \in Gap(z, k)
<1> DEFINE x == w - 3 * DayLen
           u == w - Off(z, w)
           m == Date(z, w)
<1>1. DayLen \in Nat \ {0} /\ x \in Int
  BY ScheduleAssumption
<1>2. PICK a \in Int, p \in Span, q \in Span :
         q - p \in Span /\ Week(z, x, a, p, q)
  BY <1>1, OneChange
<1>3. a \in Int /\ p \in Int /\ q \in Int
  BY <1>1 DEF Span
<1>4. Off(z, w) \in Span /\ u \in Int
  BY <1>1, OffBound DEF Span
<1>5. /\ m = w - Off(z, u) /\ Local(z, m) = m + Off(z, m)
      /\ m \in Int /\ m - w \in Span
  BY DateIs, DateNear DEF Local, Off
<1>6. Local(z, m) # w
  BY DEF Exists
<1> HIDE DEF m
<1>7. /\ Off(z, w) = IF w < a THEN p ELSE q
      /\ Off(z, u) = IF u < a THEN p ELSE q
      /\ Off(z, m) = IF m < a THEN p ELSE q
  <2>1. /\ x <= w /\ w < x + 7 * DayLen /\ x <= u /\ u < x + 7 * DayLen
        /\ x <= m /\ m < x + 7 * DayLen
    BY <1>1, <1>4, <1>5 DEF Span
  <2> HIDE DEF x, u
  <2> QED
    BY <1>1, <1>2, <1>4, <1>5, <2>1, InWeek
<1> HIDE DEF x
<1>8. p < q /\ a + p <= w /\ w < a + q
  BY <1>1, <1>3, <1>4, <1>5, <1>6, <1>7
<1>9. \E k \in DOMAIN z.changes :
         Gap(z, k) = (a + p)..(a + q - 1) /\ w \in Gap(z, k)
  <2>1. PICK k \in DOMAIN z.changes :
           a = z.changes[k].at /\ p = OffsetOf(z, k - 1) /\ q = OffsetOf(z, k)
    BY <1>2, <1>3, <1>8 DEF Week
  <2>2. k # 0
    BY DEF Zone
  <2>3. w \in (a + p)..(a + q - 1)
    BY <1>3, <1>8
  <2>4. Gap(z, k) = (a + p)..(a + q - 1)
    BY <2>1, <2>2 DEF Gap, OffsetOf
  <2> QED
    BY Zenon, <2>3, <2>4
<1> QED
  BY Zenon, <1>2, <1>8, <1>9 DEF x

(* A wall time whose day Date does not keep lies in a gap that begins at   *)
(* midnight.                                                               *)
LEMMA MidnightGap ==
    ASSUME NEW z \in Zone, Regular(z), KeepsDays(z), NEW w \in Int,
           Local(z, Date(z, w)) \div DayLen # w \div DayLen
    PROVE  \E a \in Int, p, q \in Span :
              /\ Week(z, w - 3 * DayLen, a, p, q)
              /\ p < q /\ q - p \in Span
              /\ w < a + q /\ a + p = (w \div DayLen) * DayLen
<1> DEFINE midnight == (w \div DayLen) * DayLen
<1>1. ~Exists(z, w)
  BY DEF Exists
<1>2. PICK a \in Int, p \in Span, q \in Span :
         /\ Week(z, w - 3 * DayLen, a, p, q)
         /\ p < q /\ q - p \in Span /\ a + p <= w /\ w < a + q
         /\ \E k \in DOMAIN z.changes :
               Gap(z, k) = (a + p)..(a + q - 1) /\ w \in Gap(z, k)
  BY Zenon, <1>1, InGap
<1>3. PICK k \in DOMAIN z.changes :
         Gap(z, k) = (a + p)..(a + q - 1) /\ w \in Gap(z, k)
  BY <1>2
<1>4. DayLen \in Nat \ {0} /\ a + p \in Int /\ a + q \in Int
  <2>1. p \in Int /\ q \in Int /\ DayLen \in Nat \ {0}
    BY ScheduleAssumption DEF Span
  <2> QED
    BY <2>1
<1>5. midnight..w \subseteq Gap(z, k) /\ midnight - 1 \notin Gap(z, k)
  BY Zenon, <1>3 DEF KeepsDays
<1>6. midnight \in Int /\ midnight <= w
  BY <1>4, Midnight
<1> HIDE DEF midnight
<1>7. a + p = midnight
  <2> DEFINE b == a + p
             c == a + q
  <2>1. b \in Int /\ c \in Int /\ b <= w /\ w < c
    BY Zenon, <1>2, <1>4
  <2>2. Gap(z, k) = b..(c - 1)
    <3>1. q \in Int
      BY ScheduleAssumption DEF Span
    <3>2. a + q - 1 = c - 1
      BY <3>1
    <3> QED
      BY Zenon, <1>3, <3>2
  <2> HIDE DEF b, c
  <2>3. midnight..w \subseteq b..(c - 1) /\ midnight - 1 \notin b..(c - 1)
    BY Zenon, <1>5, <2>2
  <2>4. b = midnight
    BY Zenon, <1>6, <2>1, <2>3, Beginning
  <2> QED
    BY <2>4 DEF b
<1> QED
  BY Zenon, <1>2, <1>7 DEF midnight

(* The day before a gap is shown, by the offset before the change.         *)
LEMMA BeforeGap ==
    ASSUME NEW z \in Zone, NEW x \in Int, NEW a \in Int, NEW p \in Span,
           NEW q \in Span, p < q, Week(z, x, a, p, q), NEW v \in Int,
           x + DayLen <= v, v < x + 6 * DayLen, v < a + p
    PROVE  Date(z, v) = v - p /\ Exists(z, v)
<1> DEFINE u == v - Off(z, v)
           m == v - p
<1>1. DayLen \in Nat \ {0} /\ p \in Int /\ q \in Int
  BY ScheduleAssumption DEF Span
<1>2. Off(z, v) = IF v < a THEN p ELSE q
  <2>1. x <= v /\ v < x + 7 * DayLen
    BY <1>1
  <2> QED
    BY <2>1, InWeek
<1>3. u \in Int /\ u < a /\ x <= u /\ u < x + 7 * DayLen
  BY <1>1, <1>2 DEF Span
<1>4. m \in Int /\ m < a /\ x <= m /\ m < x + 7 * DayLen
  BY <1>1 DEF Span
<1> HIDE DEF u, m
<1>5. Off(z, u) = p
  BY <1>3, InWeek
<1>6. Off(z, m) = p
  BY <1>4, InWeek
<1>7. Date(z, v) = v - p
  BY <1>5, DateIs DEF u
<1>8. Local(z, v - p) = v
  <2>1. Local(z, m) = m + p
    BY <1>6 DEF Local, Off
  <2>2. m + p = v
    BY <1>1 DEF m
  <2> QED
    BY <2>1, <2>2 DEF m
<1> QED
  BY <1>7, <1>8 DEF Exists

(* A wall time after the beginning of a gap that is shown is after it.     *)
LEMMA AfterGap ==
    ASSUME NEW z \in Zone, NEW x \in Int, NEW a \in Int, NEW p \in Span,
           NEW q \in Span, p < q, Week(z, x, a, p, q), NEW m \in Int,
           x <= m, m < x + 7 * DayLen, a + p <= Local(z, m)
    PROVE  a + q <= Local(z, m)
<1>1. p \in Int /\ q \in Int
  BY ScheduleAssumption DEF Span
<1>2. Off(z, m) = IF m < a THEN p ELSE q
  BY InWeek
<1>3. Local(z, m) = m + Off(z, m)
  BY DEF Local, Off
<1> QED
  BY <1>1, <1>2, <1>3

(* A moment is within a day of its wall time.                              *)
LEMMA LocalNear ==
    ASSUME NEW z \in Zone, Regular(z), NEW t \in Int
    PROVE  Local(z, t) \in Int /\ Local(z, t) - t \in Span
<1>1. Off(z, t) \in Span /\ DayLen \in Nat \ {0}
  BY OffBound, ScheduleAssumption
<1>2. Local(z, t) = t + Off(z, t)
  BY DEF Local, Off
<1> QED
  BY <1>1, <1>2 DEF Span

(* If j days on AddDate does not arrive at the day of m, where m is j days *)
(* on, then the days before it are shown, at the time of day of t and at   *)
(* that of m.                                                              *)
LEMMA StepOver ==
    ASSUME NEW z \in Zone, Regular(z), KeepsDays(z), NEW t \in Int,
           NEW m \in Int, t < m, NEW W \in Int, Local(z, t) <= W - DayLen,
           W \div DayLen = Local(z, m) \div DayLen,
           Local(z, Date(z, W)) \div DayLen # W \div DayLen
    PROVE  /\ Exists(z, W - DayLen)
           /\ Exists(z, Local(z, m) - DayLen)
           /\ Date(z, Local(z, m) - DayLen) > t
<1> DEFINE w == Local(z, m)
           l == Local(z, t)
           D == DayLen
           b == (W \div D) * D
           x == W - 3 * D
<1>1. D \in Nat \ {0} /\ w \in Int /\ l \in Int
  BY ScheduleAssumption, LocalType
<1>2. b \in Int /\ b <= W /\ W < b + D /\ b <= w /\ w < b + D
  <2> DEFINE d == W \div D
             i == W % D
             j == w % D
  <2>1. d \in Int /\ i \in 0..(D - 1) /\ W = d * D + i
    BY <1>1, DayAndTime
  <2>2. j \in 0..(D - 1) /\ w = d * D + j
    BY <1>1, DayAndTime
  <2> HIDE DEF d, i, j, w
  <2>3. d * D \in Int
    BY <1>1, <2>1
  <2> DEFINE e == d * D
  <2>4. /\ e \in Int /\ W = e + i /\ w = e + j
        /\ i \in 0..(D - 1) /\ j \in 0..(D - 1)
    BY <2>1, <2>2, <2>3
  <2> HIDE DEF e
  <2>5. e \in Int /\ e <= W /\ W < e + D /\ e <= w /\ w < e + D
    BY <1>1, <2>4
  <2> QED
    BY <2>5 DEF e, d
<1>3. PICK a \in Int, p \in Span, q \in Span :
         /\ Week(z, x, a, p, q) /\ p < q /\ q - p \in Span
         /\ W < a + q /\ a + p = b
  <2>1. Local(z, Date(z, W)) \div DayLen # W \div DayLen
    OBVIOUS
  <2> HIDE DEF w, l
  <2> QED
    BY <2>1, MidnightGap
<1>4. w - m \in Span /\ l - t \in Span
  BY LocalNear
<1>5. l <= W - D
  OBVIOUS
<1> HIDE DEF w, l, b, D, x
<1>6. x \in Int /\ x = W - 3 * D
  BY <1>1 DEF x
<1>7. p \in Int /\ q \in Int /\ Span = (-D)..D
  BY <1>1 DEF Span, D
<1>8. m \in Int /\ x <= m /\ m < x + 7 * D
  BY <1>1, <1>2, <1>4, <1>6, <1>7
<1>9. a + q <= w
  <2>1. a + p <= w
    BY <1>2, <1>3
  <2> QED
    BY <1>3, <1>6, <1>8, <2>1, AfterGap DEF w, D
<1>10. Date(z, W - D) = W - D - p /\ Exists(z, W - D)
  <2>1. /\ W - D \in Int /\ x + D <= W - D /\ W - D < x + 6 * D
        /\ W - D < a + p
    BY <1>1, <1>2, <1>3, <1>6, <1>7
  <2> QED
    BY <1>3, <1>6, <2>1, BeforeGap DEF D
<1>11. Date(z, w - D) = (w - D) - p /\ Exists(z, w - D)
  <2>1. /\ w - D \in Int /\ x + D <= w - D /\ w - D < x + 6 * D
        /\ w - D < a + p
    BY <1>1, <1>2, <1>3, <1>6, <1>7
  <2> QED
    BY <1>3, <1>6, <2>1, BeforeGap DEF D
<1>12. (w - D) - p > t
  <2> SUFFICES ASSUME t >= (w - D) - p PROVE FALSE
    BY <1>1, <1>7
  <2>1. x <= t /\ t < x + 7 * D
    BY <1>1, <1>2, <1>3, <1>6, <1>7, <1>8, <1>9
  <2>2. Off(z, t) = IF t < a THEN p ELSE q
    BY <1>3, <1>6, <2>1, InWeek DEF D
  <2>3. l = t + Off(z, t)
    BY DEF l, Local, Off
  <2> QED
    BY <1>1, <1>2, <1>3, <1>5, <1>6, <1>7, <1>9, <2>2, <2>3
<1> QED
  BY <1>10, <1>11, <1>12 DEF w, D

(* NextOccurrence passes over no occurrence of today or of a later day.    *)
LEMMA NextIsLeast ==
    ASSUME NEW z \in Zone, Regular(z), KeepsDays(z),
           NEW T \in SUBSET (0..(DayLen - 1)), NEW t \in Int,
           Days(z, T, t) # {}, NEW m \in Int, m > t, Occurs(z, T, m),
           Local(z, t) \div DayLen <= Local(z, m) \div DayLen
    PROVE  NextOccurrence(z, T, t) <= m
<1> DEFINE D == DayLen
           w == Local(z, m)
           l == Local(z, t)
           d == w \div D
           e == l \div D
           j == d - e
           c == NextOccurrence(z, T, t)
           W == l + j * D
           g(k) == DayAfter(z, t, k)
<1>1. D \in Nat \ {0} /\ w \in Int /\ l \in Int /\ d \in Int /\ e \in Int
  BY ScheduleAssumption, LocalType, DayAndTime
<1>2. j \in Nat
  <2>1. e <= d
    OBVIOUS
  <2> HIDE DEF d, e
  <2> QED
    BY <1>1, <2>1
<1>3. PICK k \in Days(z, T, t) :
         /\ \A i \in Days(z, T, t) : k <= i
         /\ c \in Candidates(z, T, t, g(k))
         /\ \A b \in Candidates(z, T, t, g(k)) : c <= b
  BY NextDay
<1>4. k \in 0..(Horizon - 1) /\ Horizon \in Nat
  BY ScheduleAssumption DEF Days
<1>5. /\ \A i \in Int : g(i) \in Int /\ g(i) <= e + i + 1
  BY DayType, DayAfterNear
<1>6. c \in Int /\ Date(z, Local(z, c)) = c /\ Local(z, c) \div D = g(k)
  <2>1. g(k) \in Int
    BY <1>4, <1>5
  <2> QED
    BY <1>3, <2>1, CandidateFacts, CandidateDay
<1>7. g(k) < d => c < m
  <2> SUFFICES ASSUME g(k) < d PROVE c < m
    OBVIOUS
  <2>1. Local(z, c) < w
    <3>1. Local(z, c) \div D < w \div D
      BY <1>6
    <3>2. Local(z, c) \in Int
      BY <1>6, LocalType
    <3> QED
      BY <1>1, <3>1, <3>2, DayOrder
  <2>2. Exists(z, Local(z, c)) /\ Exists(z, w) /\ Date(z, w) = m
    BY <1>6 DEF Exists, Occurs
  <2>3. Date(z, Local(z, c)) < Date(z, w)
    BY <1>1, <1>6, <2>1, <2>2, LocalType, DateMonotone
  <2> QED
    BY <1>6, <2>2, <2>3
<1>8. m \in Candidates(z, T, t, d)
  BY IsCandidate
<1>9. g(k) = d => c <= m
  BY Zenon, <1>3, <1>8
<1>10. g(j) = d /\ j < Horizon => j \in Days(z, T, t)
  <2> SUFFICES ASSUME g(j) = d, j < Horizon PROVE j \in Days(z, T, t)
    OBVIOUS
  <2>1. j \in 0..(Horizon - 1)
    BY <1>2, <1>4
  <2>2. Candidates(z, T, t, DayAfter(z, t, j)) # {}
    BY Zenon, <1>8
  <2> QED
    BY Zenon, <2>1, <2>2 DEF Days
<1>11. W \in Int /\ W \div D = d
  <2>1. W \in Int
    BY <1>1, <1>2
  <2>2. W \div D = e + j
    BY <1>1, <1>2, DayShift
  <2> HIDE DEF W, d, e
  <2> QED
    BY <1>1, <2>1, <2>2
<1>12. CASE g(j) = d
  <2>1. k = j => c <= m
    BY Zenon, <1>9, <1>12
  <2>2. k <= j
    BY <1>2, <1>3, <1>4, <1>10, <1>12
  <2> HIDE DEF g, c, d, e
  <2>3. k # j => g(k) < d \/ g(k) = d
    <3>1. g(k) \in Int /\ g(k) <= e + k + 1
      BY <1>4, <1>5
    <3> QED
      BY <1>1, <1>2, <1>4, <2>2, <3>1
  <2>4. c <= m
    BY <1>6, <1>7, <1>9, <2>1, <2>3
  <2> QED
    BY <2>4 DEF c
<1>13. CASE g(j) # d
  <2>1. j >= 1
    <3> SUFFICES ASSUME j = 0 PROVE FALSE
      BY <1>2
    <3>1. l + 0 * D = l
      BY <1>1
    <3>2. Exists(z, l + 0 * D)
      BY Zenon, <3>1, ShownExists
    <3>3. g(0) = e + 0
      BY <3>2, DayAfterExists
    <3>4. d = e + 0
      <4> HIDE DEF d, e
      <4> QED
        BY <1>1
    <3> QED
      BY Zenon, <1>13, <3>3, <3>4
  <2>2. /\ l <= W - D /\ W - D = l + (j - 1) * D
    <3>1. j - 1 \in Nat
      BY <1>2, <2>1
    <3> DEFINE i == j - 1
    <3>2. j * D = i * D + D /\ i * D \in Nat
      <4>1. j = i + 1
        BY <1>2
      <4> HIDE DEF i, j
      <4>2. (i + 1) * D = i * D + D /\ i * D \in Nat
        BY <1>1, <3>1 DEF i
      <4> QED
        BY <4>1, <4>2
    <3> DEFINE J == j * D
               I == i * D
    <3>3. J = I + D /\ I \in Nat /\ W = l + J
      BY <3>2
    <3> HIDE DEF I, J, W
    <3>4. l <= W - D /\ W - D = l + I
      BY <1>1, <3>3
    <3> QED
      BY <3>4 DEF I
  <2>3. Local(z, Date(z, W)) \div D # W \div D
    BY Zenon, <1>11, <1>13 DEF DayAfter
  <2>4. /\ Exists(z, W - D) /\ Exists(z, w - D) /\ Date(z, w - D) > t
    BY Zenon, <1>11, <2>2, <2>3, StepOver
  <2>5. g(j - 1) = d - 1
    <3>1. j - 1 \in Int /\ Exists(z, l + (j - 1) * D)
      <4>1. j - 1 \in Int
        BY <1>2
      <4> QED
        BY Zenon, <2>2, <2>4, <4>1
    <3>2. g(j - 1) = e + (j - 1)
      BY <3>1, DayAfterExists
    <3> HIDE DEF g, d, e
    <3> QED
      BY <1>1, <3>2
  <2>6. ~(k >= j)
    <3> SUFFICES ASSUME k >= j PROVE FALSE
      OBVIOUS
    <3> DEFINE v == w - D
               i == w % D
    <3>1. i \in T /\ w = d * D + i /\ i \in 0..(D - 1)
      BY <1>1, DayAndTime DEF Occurs
    <3>2. v = (d - 1) * D + i
      <4> HIDE DEF w, d, i, D
      <4>1. (d - 1) * D = d * D - D /\ d * D \in Int
        BY <1>1
      <4> QED
        BY <1>1, <3>1, <4>1
    <3>3. Date(z, v) \in Candidates(z, T, t, d - 1)
      <4> HIDE DEF i, w
      <4> QED
        BY <2>4, <3>1, <3>2 DEF Candidates
    <3>4. j - 1 \in 0..(Horizon - 1)
      BY <1>2, <1>4, <2>1
    <3>5. j - 1 \in Days(z, T, t)
      BY Zenon, <2>5, <3>3, <3>4 DEF Days
    <3> QED
      BY <1>2, <1>3, <1>4, <3>5
  <2>7. k = j - 1 => g(k) < d
    BY <1>1, <2>5
  <2> HIDE DEF g, c, d, e
  <2>8. c <= m
    BY <1>1, <1>2, <1>4, <1>5, <1>6, <1>7, <2>6, <2>7
  <2> QED
    BY <2>8 DEF c
<1> QED
  BY <1>12, <1>13

(* Two moments at which the wall shows the same are within a day.          *)
LEMMA ShowingsNear ==
    ASSUME NEW z \in Zone, Regular(z), NEW t \in Int, NEW u \in Int,
           Local(z, t) = Local(z, u)
    PROVE  u - t \in Span
<1> DEFINE D == DayLen
           x == t - 3 * D
<1>1. D \in Nat \ {0} /\ Span = (-D)..D /\ x \in Int
  BY ScheduleAssumption DEF Span
<1>2. PICK a \in Int, p \in Span, q \in Span :
         q - p \in Span /\ Week(z, x, a, p, q)
  BY <1>1, OneChange
<1>3. /\ Local(z, t) - t \in Span /\ Local(z, u) - u \in Span
      /\ Local(z, t) \in Int
  BY LocalNear
<1>4. x <= t /\ t < x + 7 * DayLen /\ x <= u /\ u < x + 7 * DayLen
  BY <1>1, <1>3
<1> HIDE DEF x
<1>5. /\ Off(z, t) = IF t < a THEN p ELSE q
      /\ Off(z, u) = IF u < a THEN p ELSE q
  BY <1>1, <1>2, <1>4, InWeek
<1>6. Local(z, t) = t + Off(z, t) /\ Local(z, u) = u + Off(z, u)
  BY DEF Local, Off
<1>7. p \in Int /\ q \in Int /\ q - p \in Span /\ p - q \in Span /\ 0 \in Span
  BY <1>1, <1>2
<1>8. Off(z, t) \in {p, q} /\ Off(z, u) \in {p, q}
  BY <1>5
<1>9. Off(z, t) - Off(z, u) \in Span
  BY <1>7, <1>8
<1>10. u - t = Off(z, t) - Off(z, u)
  <2>1. Off(z, t) \in Int /\ Off(z, u) \in Int
    BY <1>7, <1>8
  <2>2. t + Off(z, t) = u + Off(z, u)
    BY Zenon, <1>6
  <2> QED
    BY <2>1, <2>2
<1> QED
  BY <1>9, <1>10

(* A later moment shows less than n only in an overlap: what it shows was  *)
(* shown before n, and from then on nothing earlier was.                   *)
LEMMA ShownBefore ==
    ASSUME NEW z \in Zone, Regular(z), NEW n \in Int, NEW m \in Int, n < m,
           Local(z, m) < Local(z, n)
    PROVE  \E u \in Int :
              /\ u < n /\ Local(z, u) = Local(z, m)
              /\ \A v \in Int : u <= v /\ v <= n => Local(z, m) <= Local(z, v)
<1> DEFINE D == DayLen
           x == n - 3 * D
<1>1. D \in Nat \ {0} /\ Span = (-D)..D /\ x \in Int
  BY ScheduleAssumption DEF Span
<1>2. PICK a \in Int, p \in Span, q \in Span :
         q - p \in Span /\ Week(z, x, a, p, q)
  BY <1>1, OneChange
<1>3. /\ Local(z, n) - n \in Span /\ Local(z, m) - m \in Span
      /\ Local(z, n) \in Int /\ Local(z, m) \in Int
  BY LocalNear
<1>4. \A v \in Int : Local(z, v) = v + Off(z, v)
  BY DEF Local, Off
<1>5. x <= n /\ n < x + 7 * DayLen /\ x <= m /\ m < x + 7 * DayLen
  BY <1>1, <1>3
<1>6. /\ Off(z, n) = IF n < a THEN p ELSE q
      /\ Off(z, m) = IF m < a THEN p ELSE q
  <2> HIDE DEF x
  <2> QED
    BY <1>1, <1>2, <1>5, InWeek
<1>7. /\ n < a /\ Local(z, n) = n + p /\ Local(z, m) = m + q
      /\ p \in Int /\ q \in Int
  BY <1>1, <1>4, <1>6
<1> DEFINE u == m + (q - p)
<1>8. u \in Int /\ u < n /\ x <= u
  BY <1>1, <1>2, <1>7
<1>9. \A v \in Int : u <= v /\ v <= n => Local(z, v) = v + p
  <2> SUFFICES ASSUME NEW v \in Int, u <= v, v <= n PROVE Local(z, v) = v + p
    OBVIOUS
  <2>1. x <= v /\ v < x + 7 * DayLen /\ v < a
    BY <1>1, <1>5, <1>7, <1>8
  <2>2. Off(z, v) = p
    <3> HIDE DEF x
    <3> QED
      BY <1>1, <1>2, <2>1, InWeek
  <2> QED
    BY <1>4, <2>2
<1>10. Local(z, u) = Local(z, m)
  <2>1. Local(z, u) = u + p
    BY <1>8, <1>9
  <2> QED
    BY <1>7, <2>1
<1>11. \A v \in Int : u <= v /\ v <= n => Local(z, m) <= Local(z, v)
  <2>1. Local(z, m) = u + p
    BY <1>7
  <2> HIDE DEF u
  <2> QED
    BY <1>7, <1>8, <1>9, <2>1
<1> QED
  BY <1>8, <1>10, <1>11

(* Two weeks that see a change see the same one.                           *)
LEMMA SameChange ==
    ASSUME NEW z \in Zone, NEW x \in Int, NEW a \in Int, NEW p \in Span,
           NEW q \in Span, Week(z, x, a, p, q),
           NEW y \in Int, NEW b \in Int, NEW r \in Span,
           NEW s \in Span, Week(z, y, b, r, s), r # s,
           x < b, b < x + 7 * DayLen, y < b, b < y + 7 * DayLen
    PROVE  a = b /\ p = r /\ q = s
<1> DEFINE c == b - 1
<1>1. DayLen \in Nat \ {0} /\ p \in Int /\ q \in Int /\ r \in Int /\ s \in Int
  BY ScheduleAssumption DEF Span
<1>2. /\ c \in Int /\ c < b /\ x <= c /\ c < x + 7 * DayLen
      /\ y <= c /\ c < y + 7 * DayLen /\ x <= b /\ y <= b
  BY <1>1
<1>3. /\ Off(z, c) = IF c < a THEN p ELSE q
      /\ Off(z, b) = IF b < a THEN p ELSE q
  BY <1>2, InWeek
<1>4. Off(z, c) = r /\ Off(z, b) = s
  <2>1. /\ Off(z, c) = IF c < b THEN r ELSE s
        /\ Off(z, b) = IF b < b THEN r ELSE s
    BY <1>2, InWeek
  <2> QED
    BY <1>2, <2>1
<1>5. c < a /\ ~(b < a)
  BY <1>2, <1>3, <1>4
<1> QED
  BY <1>2, <1>3, <1>4, <1>5

(* So do two weeks around a wall time in a gap.                            *)
LEMMA SameGap ==
    ASSUME NEW z \in Zone, NEW x \in Int, NEW a \in Int, NEW p \in Span,
           NEW q \in Span, Week(z, x, a, p, q), NEW w \in Int,
           x + DayLen <= w, w < x + 6 * DayLen,
           NEW b \in Int, NEW r \in Span, NEW s \in Span, r < s,
           Week(z, w - 3 * DayLen, b, r, s), b + r <= w, w < b + s
    PROVE  a = b /\ p = r /\ q = s
<1> DEFINE y == w - 3 * DayLen
<1>1. /\ DayLen \in Nat \ {0} /\ Span = (-DayLen)..DayLen /\ y \in Int
      /\ r \in Int /\ s \in Int
  BY ScheduleAssumption DEF Span
<1>2. x < b /\ b < x + 7 * DayLen /\ y < b /\ b < y + 7 * DayLen /\ r # s
  BY <1>1
<1>3. Week(z, y, b, r, s)
  OBVIOUS
<1> HIDE DEF y
<1> QED
  BY <1>1, <1>2, <1>3, SameChange

(* What is not shown lies in the gap of the change in its week.            *)
LEMMA GapHere ==
    ASSUME NEW z \in Zone, Regular(z), NEW x \in Int, NEW a \in Int,
           NEW p \in Span, NEW q \in Span, Week(z, x, a, p, q), NEW w \in Int,
           x + DayLen <= w, w < x + 6 * DayLen, ~Exists(z, w)
    PROVE  p < q /\ a + p <= w /\ w < a + q
<1>1. PICK b \in Int, r \in Span, s \in Span :
         /\ Week(z, w - 3 * DayLen, b, r, s)
         /\ r < s /\ b + r <= w /\ w < b + s
  BY InGap
<1>2. a = b /\ p = r /\ q = s
  BY <1>1, SameGap
<1> QED
  BY <1>1, <1>2

(* If its day is not kept, the gap begins at its midnight.                 *)
LEMMA MidnightHere ==
    ASSUME NEW z \in Zone, Regular(z), KeepsDays(z), NEW x \in Int,
           NEW a \in Int, NEW p \in Span, NEW q \in Span,
           Week(z, x, a, p, q), NEW w \in Int,
           x + DayLen <= w, w < x + 6 * DayLen,
           Local(z, Date(z, w)) \div DayLen # w \div DayLen
    PROVE  p < q /\ a + p = (w \div DayLen) * DayLen
<1>1. PICK b \in Int, r \in Span, s \in Span :
         /\ Week(z, w - 3 * DayLen, b, r, s) /\ r < s
         /\ w < b + s /\ b + r = (w \div DayLen) * DayLen
  BY MidnightGap
<1>2. (w \div DayLen) * DayLen <= w
  BY ScheduleAssumption, Midnight
<1>3. b + r <= w
  BY Zenon, <1>1, <1>2
<1>4. a = b /\ p = r /\ q = s
  BY Zenon, <1>1, <1>3, SameGap
<1> QED
  BY Zenon, <1>1, <1>4

(* A wall time after the one that t shows is of a later moment, if no hour *)
(* is repeated or they are a day apart.                                    *)
LEMMA ShownLater ==
    ASSUME NEW z \in Zone, Regular(z), NEW t \in Int, NEW a \in Int,
           NEW p \in Span, NEW q \in Span, q - p \in Span,
           Week(z, Local(z, t) - 2 * DayLen, a, p, q), NEW v \in Int,
           Local(z, t) < v, p <= q \/ Local(z, t) + DayLen <= v,
           Exists(z, v)
    PROVE  Date(z, v) > t
<1> DEFINE l == Local(z, t)
           x == l - 2 * DayLen
           m == Date(z, v)
<1>1. /\ DayLen \in Nat \ {0} /\ Span = (-DayLen)..DayLen
      /\ p \in Int /\ q \in Int
  BY ScheduleAssumption DEF Span
<1>2. l \in Int /\ l - t \in Span /\ m \in Int /\ m - v \in Span
  BY LocalNear, DateNear
<1>3. Local(z, m) = v
  BY DEF Exists
<1>4. l < v /\ (p <= q \/ l + DayLen <= v)
  OBVIOUS
<1> HIDE DEF l, m
<1> SUFFICES ASSUME m <= t PROVE FALSE
  BY <1>2 DEF m
<1>5. x \in Int /\ x <= t /\ t < x + 7 * DayLen /\ x <= m /\ m < x + 7 * DayLen
  BY <1>1, <1>2, <1>4
<1> HIDE DEF x
<1>6. Week(z, x, a, p, q)
  BY DEF x, l
<1>7. /\ Off(z, t) = IF t < a THEN p ELSE q
      /\ Off(z, m) = IF m < a THEN p ELSE q
  BY <1>2, <1>5, <1>6, InWeek
<1>8. l = t + Off(z, t) /\ v = m + Off(z, m)
  BY <1>3 DEF l, Local, Off
<1> QED
  BY <1>1, <1>2, <1>4, <1>7, <1>8

(* A day on which the wall shows the time i after t.                       *)
LEMMA HasDay ==
    ASSUME NEW z \in Zone, NEW T \in SUBSET (0..(DayLen - 1)), NEW t \in Int,
           NEW k \in 0..(Horizon - 1), NEW d \in Int, NEW i \in T,
           DayAfter(z, t, k) = d, Exists(z, d * DayLen + i),
           Date(z, d * DayLen + i) > t
    PROVE  Days(z, T, t) # {}
<1>1. Date(z, d * DayLen + i) \in Candidates(z, T, t, d)
  BY DEF Candidates
<1> QED
  BY Zenon, <1>1 DEF Days

(* One of the next three days has every configured time.                   *)
LEMMA AlwaysDay ==
    ASSUME NEW z \in Zone, Regular(z), KeepsDays(z),
           NEW T \in SUBSET (0..(DayLen - 1)), NEW t \in Int, NEW i \in T,
           Horizon >= 4
    PROVE  Days(z, T, t) # {}
<1> DEFINE D == DayLen
           l == Local(z, t)
           e == l \div D
           b == e * D
           x == l - 2 * D
           v(k) == (e + k) * D + i
           W(k) == l + k * D
           g(k) == DayAfter(z, t, k)
<1>1. /\ D \in Nat \ {0} /\ Span = (-D)..D /\ l \in Int /\ x \in Int
      /\ i \in 0..(D - 1) /\ Horizon \in Nat
  BY ScheduleAssumption, LocalType DEF Span
<1>2. e \in Int /\ b \in Int /\ b <= l /\ l < b + D
  <2> DEFINE r == l % D
  <2>1. e \in Int /\ r \in 0..(D - 1) /\ l = e * D + r
    BY <1>1, DayAndTime
  <2> HIDE DEF e, r, l
  <2>2. b \in Int
    BY <1>1, <2>1
  <2>3. l = b + r
    BY <2>1
  <2> HIDE DEF b
  <2> QED
    BY <1>1, <2>1, <2>2, <2>3
<1>3. PICK a \in Int, p \in Span, q \in Span :
         q - p \in Span /\ Week(z, x, a, p, q)
  BY <1>1, OneChange
<1>4. p \in Int /\ q \in Int
  BY <1>1
<1>5. /\ v(1) = b + D + i /\ v(2) = b + 2 * D + i /\ v(3) = b + 3 * D + i
      /\ v(1) \in Int /\ v(2) \in Int /\ v(3) \in Int
  <2> HIDE DEF e
  <2>1. /\ (e + 1) * D = e * D + D /\ (e + 2) * D = e * D + 2 * D
        /\ (e + 3) * D = e * D + 3 * D
    BY <1>1, <1>2
  <2> QED
    BY <1>1, <1>2, <2>1
<1>6. /\ W(1) = l + D /\ W(2) = l + 2 * D /\ W(3) = l + 3 * D
      /\ W(1) \in Int /\ W(2) \in Int /\ W(3) \in Int
  BY <1>1
<1>7. \A k \in 1..3 : W(k) \div D = e + k
  <2> SUFFICES ASSUME NEW k \in 1..3 PROVE (l + k * D) \div D = l \div D + k
    OBVIOUS
  <2>1. k \in Int
    OBVIOUS
  <2> QED
    BY <1>1, <2>1, DayShift
<1>8. /\ (W(2) \div D) * D = b + 2 * D /\ (W(3) \div D) * D = b + 3 * D
  <2>1. (W(2) \div D) * D = (e + 2) * D /\ (W(3) \div D) * D = (e + 3) * D
    BY <1>7
  <2> HIDE DEF e
  <2>2. (e + 2) * D = e * D + 2 * D /\ (e + 3) * D = e * D + 3 * D
    BY <1>1, <1>2
  <2> QED
    BY Zenon, <2>1, <2>2
<1>9. \A k \in 1..3 : Exists(z, W(k)) => g(k) = e + k
  BY DayAfterExists
<1>10. \A k \in 1..3 : g(k) # e + k =>
          Local(z, Date(z, W(k))) \div DayLen # W(k) \div DayLen
  BY <1>7 DEF DayAfter
<1>11. \A k \in 1..3 :
          g(k) = e + k /\ Exists(z, v(k)) /\ Date(z, v(k)) > t
             => Days(z, T, t) # {}
  <2> SUFFICES ASSUME NEW k \in 1..3, g(k) = e + k, Exists(z, v(k)),
                      Date(z, v(k)) > t
               PROVE  Days(z, T, t) # {}
    OBVIOUS
  <2> HIDE DEF e, v
  <2>1. k \in 0..(Horizon - 1) /\ e + k \in Int
    BY <1>1, <1>2
  <2> QED
    BY <2>1, HasDay DEF v
<1>12. x = l - 2 * D
  OBVIOUS
<1> HIDE DEF e, b, v, W, g, x, l
<1> DEFINE Inside(w) == w \in Int /\ x + D <= w /\ w < x + 6 * D
<1>13. \A w \in {v(1), v(2), v(3), W(1), W(2), W(3)} : Inside(w)
  <2>1. Inside(v(1)) /\ Inside(v(2)) /\ Inside(v(3))
    <3> DEFINE r == v(1)
               r2 == v(2)
               r3 == v(3)
    <3>1. r = b + D + i /\ r2 = b + 2 * D + i /\ r3 = b + 3 * D + i
      BY <1>5
    <3> HIDE DEF r, r2, r3
    <3>2. Inside(r) /\ Inside(r2) /\ Inside(r3)
      BY <1>1, <1>2, <1>12, <3>1
    <3> QED
      BY <3>2 DEF r, r2, r3
  <2>2. Inside(W(1)) /\ Inside(W(2)) /\ Inside(W(3))
    BY <1>1, <1>6, <1>12
  <2> QED
    BY <2>1, <2>2
<1>14. \A w \in {v(1), v(2), v(3), W(1), W(2), W(3)} :
          ~Exists(z, w) => p < q /\ a + p <= w /\ w < a + q
  <2> SUFFICES ASSUME NEW w \in {v(1), v(2), v(3), W(1), W(2), W(3)},
                      ~Exists(z, w)
               PROVE  p < q /\ a + p <= w /\ w < a + q
    OBVIOUS
  <2>1. w \in Int /\ x + D <= w /\ w < x + 6 * D
    BY <1>13
  <2> HIDE DEF x, l
  <2> QED
    BY <1>1, <1>3, <2>1, GapHere
<1> DEFINE Kept(w) == Local(z, Date(z, w)) \div DayLen = w \div DayLen
<1>15. ASSUME NEW w \in Int, Inside(w), ~Kept(w)
      PROVE  p < q /\ a + p = (w \div D) * D
  <2>1. x \in Int /\ Week(z, x, a, p, q)
    BY <1>1, <1>3
  <2>2. /\ x + DayLen <= w /\ w < x + 6 * DayLen
        /\ Local(z, Date(z, w)) \div DayLen # w \div DayLen
    BY Zenon, <1>15
  <2> QED
    BY Zenon, <2>1, <2>2, MidnightHere
<1>16. /\ g(2) # e + 2 => p < q /\ a + p = b + 2 * D
       /\ g(3) # e + 3 => p < q /\ a + p = b + 3 * D
  <2>1. Inside(W(2)) /\ Inside(W(3))
    BY <1>13
  <2>2. /\ g(2) # e + 2 => ~Kept(W(2))
        /\ g(3) # e + 3 => ~Kept(W(3))
    BY <1>10
  <2> HIDE DEF Kept
  <2>3. g(2) # e + 2 => p < q /\ a + p = (W(2) \div D) * D
    BY Zenon, <1>15, <2>1, <2>2
  <2>4. g(3) # e + 3 => p < q /\ a + p = (W(3) \div D) * D
    BY Zenon, <1>15, <2>1, <2>2
  <2> QED
    BY Zenon, <1>8, <2>3, <2>4
<1>17. \A k \in {2, 3} : Exists(z, v(k)) => Date(z, v(k)) > t
  <2>1. v(2) \in Int /\ l < v(2) /\ l + D <= v(2)
    BY <1>1, <1>2, <1>5
  <2>2. v(3) \in Int /\ l < v(3) /\ l + D <= v(3)
    BY <1>1, <1>2, <1>5
  <2> QED
    BY <1>3, <2>1, <2>2, ShownLater DEF x, l
<1>18. CASE g(2) # e + 2
  <2>1. p < q /\ a + p = b + 2 * D
    BY <1>16, <1>18
  <2>2. Exists(z, v(1)) /\ Exists(z, W(1))
    <3>1. v(1) < a + p /\ W(1) < a + p
      <4>1. b + D + i < b + 2 * D /\ l + D < b + 2 * D
        BY <1>1, <1>2
      <4> QED
        BY Zenon, <1>5, <1>6, <2>1, <4>1
    <3> QED
      BY <1>4, <1>5, <1>6, <1>14, <3>1
  <2>3. Date(z, v(1)) > t
    <3>1. v(1) \in Int /\ l < v(1) /\ p <= q
      BY <1>1, <1>2, <1>4, <1>5, <2>1
    <3> QED
      BY <1>3, <2>2, <3>1, ShownLater DEF x, l
  <2>4. g(1) = e + 1
    BY <1>9, <2>2
  <2> QED
    BY <1>11, <2>2, <2>3, <2>4
<1>19. CASE ~Exists(z, v(2))
  <2>1. p < q /\ a + p <= v(2) /\ v(2) < a + q
    BY <1>14, <1>19
  <2>2. Exists(z, v(3))
    <3>1. ~(v(3) < a + q)
      BY <1>1, <1>2, <1>3, <1>4, <1>5, <2>1
    <3> QED
      BY <1>14, <3>1
  <2>3. g(3) = e + 3
    <3>1. ~(a + p = b + 3 * D)
      BY <1>1, <1>2, <1>4, <1>5, <2>1
    <3> QED
      BY <1>16, <3>1
  <2>4. Date(z, v(3)) > t
    BY <1>17, <2>2
  <2> QED
    BY <1>11, <2>2, <2>3, <2>4
<1>20. CASE g(2) = e + 2 /\ Exists(z, v(2))
  BY <1>11, <1>17, <1>20
<1> QED
  BY <1>18, <1>19, <1>20

-----------------------------------------------------------------------------
(* Nothing is missed.                                                      *)

(* A wall time is shown only after the loop began, and never while a timer *)
(* was overdue.                                                            *)
OnTime(w) == \A u \in Int : Local(zone, u) = w => u > begin /\ u \notin late

(* A run was started for the wall time.                                    *)
Answered(w) == \E k \in DOMAIN fired : fired[k] = w

(* All occurrences before m that were shown on time have been answered.    *)
AnsweredUntil(m) ==
    \A c \in Int : c < m /\ Occurs(zone, times, c) /\ OnTime(Local(zone, c))
                      => Answered(Local(zone, c))

(* The inductive invariant. An occurrence that is passed over would have   *)
(* to be between the present and the next one; in a repeated hour that     *)
(* takes the moment last waited for into account.                          *)
Caught ==
    /\ begin \in Int /\ begin <= now
    /\ due = begin \/ Occurs(zone, times, due)
    /\ \A u \in Int : due < u /\ u <= now => u \in late
    /\ pc = "compute" => due <= now /\ AnsweredUntil(now + 1)
    /\ pc = "sleep" => AnsweredUntil(due)

(* No occurrence is after the beginning and past.                          *)
LEMMA InitCaught == Init => Caught
<1> SUFFICES ASSUME Init PROVE Caught
  OBVIOUS
<1>1. begin \in Int /\ now = begin /\ due = begin /\ pc = "compute"
  BY ScheduleAssumption DEF Init
<1>2. \A c \in Int : OnTime(Local(zone, c)) => c > begin
  BY DEF OnTime
<1>3. AnsweredUntil(now + 1)
  BY <1>1, <1>2 DEF AnsweredUntil
<1> QED
  BY <1>1, <1>3 DEF Caught

(* What is after the present and before the next occurrence: nothing. On a *)
(* day before today it would be the second showing in an overlap.          *)
LEMMA ComputeCaught ==
    ASSUME \A z \in Zones : Regular(z), IInv, Caught, Compute
    PROVE  Caught'
<1> DEFINE c == NextOccurrence(zone, times, now)
<1>1. /\ zone \in Zone /\ Regular(zone) /\ KeepsDays(zone)
      /\ times \in SUBSET (0..(DayLen - 1)) /\ now \in Int /\ due \in Int
  BY Configured, ZoneAssumption DEF IInv, Types
<1>2. /\ pc = "compute" /\ pc' = "sleep" /\ Days(zone, times, now) # {}
      /\ due' = c /\ UNCHANGED <<zone, times, now, begin, fired, late>>
  BY DEF Compute
<1>3. c \in Int /\ c > now /\ Occurs(zone, times, c)
  BY <1>1, <1>2, NextFacts DEF Occurs
<1> HIDE DEF c
<1>4. ASSUME NEW m \in Int, m < c, Occurs(zone, times, m),
             OnTime(Local(zone, m))
      PROVE  m <= now
  <2> SUFFICES ASSUME m > now PROVE FALSE
    BY <1>1
  <2> DEFINE w == Local(zone, m)
             l == Local(zone, now)
  <2>1. w \in Int /\ l \in Int /\ Date(zone, w) = m
    BY <1>1, <1>4, LocalType DEF Occurs
  <2>2. w < l
    <3>1. ~(l \div DayLen <= w \div DayLen)
      <4> SUFFICES ASSUME l \div DayLen <= w \div DayLen PROVE FALSE
        OBVIOUS
      <4>1. c <= m
        BY <1>1, <1>2, <1>4, NextIsLeast DEF c
      <4> QED
        BY <1>3, <1>4, <4>1
    <3>2. DayLen \in Nat \ {0} /\ l \div DayLen \in Int /\ w \div DayLen \in Int
      BY <2>1, ScheduleAssumption, DayAndTime
    <3>3. w \div DayLen < l \div DayLen
      BY <3>1, <3>2
    <3> QED
      BY <2>1, <3>2, <3>3, DayOrder
  <2>3. PICK u \in Int :
           /\ u < now /\ Local(zone, u) = w
           /\ \A v \in Int : u <= v /\ v <= now => w <= Local(zone, v)
    BY <1>1, <2>2, ShownBefore
  <2>4. u > begin /\ u \notin late
    BY <1>4, <2>3 DEF OnTime
  <2>5. due <= now /\ (u > due => u \in late) /\ begin \in Int
    BY <1>1, <1>2, <2>3 DEF Caught
  <2>6. u <= due /\ due # begin
    BY <1>1, <2>4, <2>5
  <2>7. Occurs(zone, times, due)
    BY <2>6 DEF Caught
  <2> DEFINE v == Local(zone, due)
  <2>8. v \in Int /\ Date(zone, v) = due /\ w <= v
    BY <1>1, <2>3, <2>5, <2>6, <2>7, LocalType DEF Occurs
  <2>9. Exists(zone, v) /\ Exists(zone, w)
    BY <2>1, <2>8 DEF Exists
  <2>10. w < v => m < due
    BY <1>1, <2>1, <2>8, <2>9, DateMonotone
  <2>11. w = v => m = due
    BY <2>1, <2>8
  <2> HIDE DEF w, v, l
  <2> QED
    BY <1>1, <2>1, <2>5, <2>8, <2>10, <2>11
<1>5. AnsweredUntil(c)
  <2>1. \A m \in Int : m <= now => m < now + 1
    BY <1>1
  <2>2. AnsweredUntil(now + 1)
    BY <1>2 DEF Caught
  <2> QED
    BY <1>4, <2>1, <2>2 DEF AnsweredUntil
<1>6. AnsweredUntil(due)'
  BY <1>2, <1>5 DEF AnsweredUntil, Occurs, OnTime, Answered
<1>7. (\A u \in Int : due < u /\ u <= now => u \in late)'
  BY <1>1, <1>2, <1>3
<1>8. (begin \in Int /\ begin <= now /\ Occurs(zone, times, due))'
  BY <1>2, <1>3 DEF Caught
<1> QED
  BY <1>2, <1>6, <1>7, <1>8 DEF Caught

(* What was shown since the timer was due was shown while it was overdue.  *)
LEMMA FireCaught == ASSUME IInv, Caught, Fire PROVE Caught'
<1>1. /\ zone \in Zone /\ now \in Int /\ due \in Int /\ fired \in Seq(Int)
  BY Configured DEF IInv, Types
<1>2. /\ pc = "sleep" /\ pc' = "compute" /\ now >= due
      /\ fired' = Append(fired, Local(zone, due))
      /\ UNCHANGED <<zone, times, now, due, begin, late>>
  BY DEF Fire, OccurrenceID
<1> DEFINE AnsweredNow(w) == \E k \in DOMAIN fired' : fired'[k] = w
<1>3. /\ \A w : Answered(w) => AnsweredNow(w)
      /\ AnsweredNow(Local(zone, due))
  <2> DEFINE n == Len(fired)
  <2>1. Local(zone, due) \in Int /\ n \in Nat /\ DOMAIN fired = 1..n
    BY <1>1, LocalType
  <2>2. /\ DOMAIN fired' = 1..(n + 1) /\ fired'[n + 1] = Local(zone, due)
        /\ \A k \in 1..n : fired'[k] = fired[k]
    BY <1>1, <1>2, <2>1
  <2>3. n + 1 \in 1..(n + 1) /\ \A k \in 1..n : k \in 1..(n + 1)
    BY <2>1
  <2> HIDE DEF n
  <2>4. ASSUME NEW w, Answered(w) PROVE AnsweredNow(w)
    BY <2>1, <2>2, <2>3, <2>4 DEF Answered
  <2>5. AnsweredNow(Local(zone, due))
    BY <2>2, <2>3
  <2> QED
    BY <2>4, <2>5
<1>4. AnsweredUntil(now + 1)'
  <2> SUFFICES ASSUME NEW m \in Int, m < now + 1, Occurs(zone, times, m),
                      OnTime(Local(zone, m))
               PROVE  AnsweredNow(Local(zone, m))
    BY <1>2 DEF AnsweredUntil, OnTime, Occurs, Answered
  <2>1. m \notin late
    BY DEF OnTime
  <2>2. ~(due < m)
    BY <1>1, <2>1 DEF Caught
  <2>3. CASE m = due
    BY <1>3, <2>3
  <2>4. CASE m < due
    <3>1. Answered(Local(zone, m))
      BY <1>2, <2>4 DEF Caught, AnsweredUntil
    <3> QED
      BY <1>3, <3>1
  <2> QED
    BY <1>1, <2>2, <2>3, <2>4
<1>5. (due <= now /\ begin \in Int /\ begin <= now)'
  BY <1>1, <1>2 DEF Caught
<1>6. (due = begin \/ Occurs(zone, times, due))'
  BY <1>2 DEF Caught, Occurs
<1>7. (\A u \in Int : due < u /\ u <= now => u \in late)'
  BY <1>2 DEF Caught
<1> QED
  BY <1>2, <1>4, <1>5, <1>6, <1>7 DEF Caught

(* A moment that passes while the timer is overdue is noted as late.       *)
LEMMA TickCaught == ASSUME IInv, Caught, Tick PROVE Caught'
<1>1. now \in Int /\ due \in Int /\ begin \in Int
  BY DEF IInv, Types, Caught
<1>2. /\ pc = "sleep" /\ now' = now + 1
      /\ late' = IF now >= due THEN late \cup {now + 1} ELSE late
      /\ UNCHANGED <<zone, times, pc, due, begin, fired>>
  BY DEF Tick
<1>3. AnsweredUntil(due)'
  <2>1. late \subseteq late'
    BY <1>2
  <2>2. \A w : OnTime(w)' => OnTime(w)
    BY <1>2, <2>1 DEF OnTime
  <2>3. AnsweredUntil(due)
    BY <1>2 DEF Caught
  <2> QED
    BY <1>2, <2>2, <2>3 DEF AnsweredUntil, Occurs, Answered
<1>4. (\A u \in Int : due < u /\ u <= now => u \in late)'
  <2> SUFFICES ASSUME NEW u \in Int, due < u, u <= now + 1 PROVE u \in late'
    BY <1>2
  <2>1. CASE u <= now
    BY <1>2, <2>1 DEF Caught
  <2>2. CASE u = now + 1
    BY <1>1, <1>2, <2>2
  <2> QED
    BY <1>1, <2>1, <2>2
<1>5. (begin \in Int /\ begin <= now)'
  BY <1>1, <1>2 DEF Caught
<1>6. (due = begin \/ Occurs(zone, times, due))'
  BY <1>2 DEF Caught, Occurs
<1> QED
  BY <1>2, <1>3, <1>4, <1>5, <1>6 DEF Caught

(* Other steps change nothing.                                            *)
LEMMA StutterCaught == Caught /\ UNCHANGED vars => Caught'
BY DEF vars, Caught, AnsweredUntil, Occurs, OnTime, Answered

(* A wall time that was shown has one moment that counts as an occurrence. *)
LEMMA CaughtMeans ==
    ASSUME \A z \in Zones : Regular(z), IInv, Caught
    PROVE  NothingMissed
<1> SUFFICES
      ASSUME pc = "sleep", NEW t \in begin..(now - 1),
             Local(zone, t) % DayLen \in times,
             \A u \in (begin - DayLen)..(now + DayLen) :
                Local(zone, u) = Local(zone, t) =>
                   u \in ((begin + 1)..(now - 1)) \ late
      PROVE  \/ Local(zone, t) = Local(zone, due)
             \/ \E k \in DOMAIN fired : fired[k] = Local(zone, t)
  BY DEF NothingMissed, OccurrenceID
<1> DEFINE w == Local(zone, t)
           m == Date(zone, w)
<1>1. /\ zone \in Zone /\ Regular(zone) /\ now \in Int /\ due \in Int
      /\ begin \in Int /\ t \in Int /\ DayLen \in Nat \ {0}
  BY Configured, ScheduleAssumption DEF IInv, Types, Caught
<1>2. \A u \in Int : Local(zone, u) = w => u \in ((begin + 1)..(now - 1)) \ late
  <2> SUFFICES ASSUME NEW u \in Int, Local(zone, u) = w
               PROVE  u \in (begin - DayLen)..(now + DayLen)
    OBVIOUS
  <2>1. u - t \in Span
    BY <1>1, ShowingsNear
  <2> QED
    BY <1>1, <2>1 DEF Span
<1>3. w \in Int /\ m \in Int /\ Local(zone, m) = w
  BY <1>1, LocalType, DateType, ShownExists DEF Exists
<1>4. Occurs(zone, times, m)
  BY <1>3 DEF Occurs
<1>5. OnTime(w)
  BY <1>1, <1>2 DEF OnTime
<1> HIDE DEF w, m
<1>6. m \in ((begin + 1)..(now - 1)) \ late
  BY <1>2, <1>3
<1>7. ~(due < m)
  BY <1>1, <1>3, <1>6 DEF Caught
<1>8. m < due => Answered(w)
  BY <1>3, <1>4, <1>5 DEF Caught, AnsweredUntil
<1>9. m = due => w = Local(zone, due)
  BY <1>3
<1> QED
  BY <1>1, <1>3, <1>7, <1>8, <1>9 DEF Answered, w

(* In a zone that changes at most once a week, by no more than a day, the  *)
(* loop starts a run for every configured time that the wall has shown     *)
(* since it began, as long as its timers are on time: neither a skipped    *)
(* nor a repeated hour makes NextOccurrence pass one over.                 *)
THEOREM NoneMissed ==
    ASSUME \A z \in Zones : Regular(z)
    PROVE  Spec => []NothingMissed
<1>1. Init => IInv /\ Caught
  BY InitInv, InitCaught
<1>2. IInv /\ Caught /\ [Next]_vars => IInv' /\ Caught'
  <2>1. IInv /\ UNCHANGED vars => IInv'
    BY DEF vars, IInv, Types, DueShape, FiredShape, OncePerWallTime
  <2> QED
    BY <2>1, ComputeInv, FireInv, TickInv, ComputeCaught, FireCaught,
       TickCaught, StutterCaught DEF Next
<1>3. IInv /\ Caught => NothingMissed
  BY CaughtMeans
<1> QED
  BY <1>1, <1>2, <1>3, PTL DEF Spec

(* In such a zone a schedule with at least one time always has a next      *)
(* occurrence within four days, so scheduleLoop never ends for want of     *)
(* one: NextOccurrence looks 370 days ahead.                               *)
THEOREM AlwaysNext ==
    ASSUME \A z \in Zones : Regular(z), {} \notin TimesOfDay, Horizon >= 4
    PROVE  Spec => []NeverGivesUp
<1>1. IInv => NeverGivesUp
  <2> SUFFICES ASSUME IInv PROVE Days(zone, times, now) # {}
    BY DEF NeverGivesUp
  <2>1. /\ zone \in Zone /\ Regular(zone) /\ KeepsDays(zone)
        /\ times \in SUBSET (0..(DayLen - 1)) /\ times # {} /\ now \in Int
    BY Configured, ZoneAssumption DEF IInv, Types
  <2>2. PICK i \in times : TRUE
    BY <2>1
  <2> QED
    BY <2>1, <2>2, AlwaysDay
<1> QED
  BY <1>1, Inductive, PTL
=============================================================================
