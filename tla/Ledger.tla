-------------------------------- MODULE Ledger --------------------------------
(***************************************************************************)
(* What db.c promises to the one connection that records: the history of   *)
(* minutes and its four statistics tables, as that connection sees them.   *)
(*                                                                         *)
(* db_insert_hist runs INSERT OR IGNORE; for a new row, the trigger        *)
(* updatestat_cb calls update_stat, which counts the row in the hour, day, *)
(* month and year tables in that order.  A statistics statement may be     *)
(* refused (SQLITE_BUSY); update_stat_db then returns at once, the row     *)
(* stays uncounted in the remaining tables and is never counted again.     *)
(* Threads share the connection, whose mutex makes one insert at a time.   *)
(***************************************************************************)
EXTENDS StatTables

CONSTANT MayRefuse    \* whether a statistics statement can meet SQLITE_BUSY

ASSUME MayRefuseAssumption == MayRefuse \in BOOLEAN

VARIABLES
    rows,        \* the minutes of energy_history
    count,       \* record_count of the statistics rows
    complete,    \* the statistics rows with status = 1
    at           \* the row whose trigger runs and the table it is at, or NoRow

vars == <<rows, count, complete, at>>

NoRow == [minute |-> NoMinute, level |-> "none"]

Row(m, l) == [minute |-> m, level |-> l]

Init ==
    /\ rows = {}
    /\ count = EmptyCount
    /\ complete = {}
    /\ at = NoRow

-------------------------------------------------------------------------------

\* Mutant of InsertRow: INSERT OR REPLACE, which fires the trigger for a
\* minute that the device sends again.
InsertRowReplacing(m) ==
    /\ at = NoRow
    /\ rows' = rows \cup {m}
    /\ at' = Row(m, "hour")
    /\ UNCHANGED <<count, complete>>

\* INSERT OR IGNORE of a minute that is not in the table yet; the insert of a
\* known minute changes nothing.
InsertRow(m) ==
    /\ at = NoRow
    /\ m \notin rows
    /\ rows' = rows \cup {m}
    /\ at' = Row(m, "hour")
    /\ UNCHANGED <<count, complete>>

\* One UPDATE_STAT statement of update_stat_db.
CountRow(l) ==
    /\ at.level = l
    /\ count' = CountedIn(count, l, at.minute)
    /\ at' = Row(at.minute, NextLevel(l))
    /\ UNCHANGED <<rows, complete>>

\* The statement is refused: SQL_EXEC returns from update_stat_db.
RefuseRow ==
    /\ MayRefuse
    /\ at.level \in Levels
    /\ at' = Row(at.minute, "done")
    /\ UNCHANGED <<rows, count, complete>>

FinishRow ==
    /\ at.level = "done"
    /\ at' = NoRow
    /\ UNCHANGED <<rows, count, complete>>

\* One UPDATE ... SET status = 1 of db_update_status.
Mark(l) ==
    /\ complete' = MarkedIn(count, complete, l)
    /\ UNCHANGED <<rows, count, at>>

Next ==
    \/ \E m \in Minutes : InsertRow(m)
    \/ \E l \in Levels : CountRow(l)
    \/ RefuseRow
    \/ FinishRow
    \/ \E l \in StatusLevels : Mark(l)

Spec == Init /\ [][Next]_vars

-------------------------------------------------------------------------------

TypeOK ==
    /\ rows \subseteq Minutes
    /\ count \in [Cells -> Nat]
    /\ complete \subseteq {c \in Cells : c[1] \in StatusLevels}
    /\ at \in {NoRow} \cup [minute : rows, level : Levels \cup {"done"}]

\* The tables the trigger still has to count its row in.
LevelsLeft(l) == CASE l = "hour"  -> {"hour", "day", "month", "year"}
                   [] l = "day"   -> {"day", "month", "year"}
                   [] l = "month" -> {"month", "year"}
                   [] l = "year"  -> {"year"}
                   [] OTHER       -> {}

\* 1 when the row under the trigger is still to be counted in cell c.
Due(c) == IF c[1] \in LevelsLeft(at.level) /\ Cell(c[1], at.minute) = c
          THEN 1 ELSE 0

\* record_count never exceeds the minutes of the period that are recorded,
\* the row being counted left out: no minute is counted twice, whatever
\* statement is refused and whenever the status is marked (db.c:132-233).
NeverOvercounts ==
    \A c \in Cells : count[c] + Due(c) <= Cardinality(InCell(rows, c))

\* When no statement is refused, every recorded minute is counted once in
\* each of the four tables as soon as its trigger has ended.
CountsExact ==
    ~MayRefuse => \A c \in Cells :
        count[c] + Due(c) = Cardinality(InCell(rows, c))

\* The comment above db_update_status (db.c:235-239): blue means that the
\* data of the day is complete.  A row with status = 1 has every minute of
\* its hour or day in the history.
BlueIsComplete ==
    \A c \in complete : InCell(Minutes, c) \subseteq rows
===============================================================================
