----------------------------- MODULE MCSchedule -----------------------------
(***************************************************************************)
(* Small instances of Schedule: days of six units, changes of up to two    *)
(* units at any time of day, forward, backward and both, east and west of  *)
(* Greenwich, and a day that a zone skips as a whole.                      *)
(***************************************************************************)
EXTENDS Schedule

Change(t, o) == [at |-> t, offset |-> o]

OneChange ==
    {[first |-> o, changes |-> <<Change(t, p)>>] :
        o \in {-3, -1, 0, 2}, p \in {-2, 0, 1, 3}, t \in 9..14}

SummerTime ==
    {[first |-> o, changes |-> <<Change(t, o + 1), Change(t + 6, o)>>] :
        o \in {-2, -1, 0, 1}, t \in 7..12}

DayLineCrossed == [first |-> -3, changes |-> <<Change(9, 3)>>]

MCZones ==
    {z \in OneChange \cup SummerTime \cup {DayLineCrossed} : KeepsDays(z)}

MCTimes == {{i, j} : i, j \in 0..(DayLen - 1)}
=============================================================================
