------------------------------ MODULE StatTables ------------------------------
(***************************************************************************)
(* The four statistics tables of eagleowl_stat.db (sql_cmd.h) and the      *)
(* statements that db.c runs on them, as operators on their content.       *)
(*                                                                         *)
(* A minute record of energy_history belongs to one hour, one day, one     *)
(* month and one year; each of those is the key of one row of the table of *)
(* that level.  A cell <<level, period>> is such a key.  The content of    *)
(* the tables is count (record_count of each row, 0 when the row does not  *)
(* exist) and complete (the cells whose row has status = 1).               *)
(***************************************************************************)
EXTENDS Naturals, FiniteSets

CONSTANTS
    Minutes,     \* the minutes the device can report: keys of energy_history
    NoMinute,    \* not a minute
    Period,      \* Period[l][m]: the hour, day, month or year of minute m
    HourFull,    \* 60 in the code: the records of a complete hour
    DayFull      \* 60*24 in the code: the records of a complete day

Levels == {"hour", "day", "month", "year"}

\* Only the hour and the day tables get their status updated.
StatusLevels == {"hour", "day"}

Full(l) == IF l = "hour" THEN HourFull ELSE DayFull

Cell(l, m) == <<l, Period[l][m]>>

Cells == {Cell(l, m) : l \in Levels, m \in Minutes}

\* The minutes of S that fall in cell c.
InCell(S, c) == {m \in S : Cell(c[1], m) = c}

\* An hour has at most HourFull minutes and a day at most DayFull.
ASSUME CalendarAssumption ==
    /\ IsFiniteSet(Minutes)
    /\ NoMinute \notin Minutes
    /\ HourFull \in Nat \ {0}
    /\ DayFull \in Nat \ {0}
    /\ \A l \in StatusLevels, m \in Minutes :
          Cardinality(InCell(Minutes, Cell(l, m))) <= Full(l)

EmptyCount == [c \in Cells |-> 0]

\* Mutant of NextLevel: the month is refreshed before the day.
NextLevelSwapped(l) == CASE l = "hour"  -> "month"
                         [] l = "month" -> "day"
                         [] l = "day"   -> "year"
                         [] l = "year"  -> "done"

\* update_stat_db refreshes the tables in this order.
NextLevel(l) == CASE l = "hour"  -> "day"
                  [] l = "day"   -> "month"
                  [] l = "month" -> "year"
                  [] l = "year"  -> "done"

\* UPDATE_STAT_HOUR/DAY/MONTH/YEAR: of the existing row with one more record
\* and a fresh row with one record, keep the one with the larger count.  The
\* existing row also keeps its status.
CountedIn(count, l, m) == [count EXCEPT ![Cell(l, m)] = @ + 1]

\* Mutant of Matching: the size of the level compared in every table.
MatchingAnyLevel(count, l) == {c \in Cells : count[c] = Full(l)}

\* Mutant of Matching: a period one record short is taken as complete.
MatchingEarly(count, l) == {c \in Cells : c[1] = l /\ count[c] + 1 >= Full(l)}

\* UPDATE energy_<l>_stat SET status = 1 WHERE record_count = Full(l)
Matching(count, l) == {c \in Cells : c[1] = l /\ count[c] = Full(l)}

MarkedIn(count, complete, l) == complete \cup Matching(count, l)
===============================================================================
