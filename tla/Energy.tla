-------------------------------- MODULE Energy --------------------------------
(***************************************************************************)
(* The energy columns of the statistics, over Ledger: what a reading of    *)
(* the device adds to kwh_total, kwh_week_total and kwh_weekend_total of   *)
(* the hour, day, month and year of its minute.                            *)
(*                                                                         *)
(* decode_frame turns the reading into watt-hours, which INSERT_HISTORY    *)
(* writes with six decimals into an INT column; the trigger divides the    *)
(* column by 1000 and update_stat_db adds the quotient, again with six     *)
(* decimals, and splits it by tariff.  Energies are integers: microwatt-   *)
(* hours in the history, milliwatt-hours in the statistics.                *)
(***************************************************************************)
EXTENDS Ledger, Integers, FiniteSetsExt

CONSTANTS
    Date,        \* Date[m]: the year, month, day and hour recorded for minute m
    Reading      \* Reading[m]: bytes 8 and 9 of its frame

\* A year is a byte of the frame above 2000.
Years == 2000..2255

\* A row of the hour table is a date.
ASSUME EnergyAssumption ==
    /\ Date \in [Minutes -> [year : Years, month : 0..12, day : Nat, hour : Nat]]
    /\ Reading \in [Minutes -> Nat]
    /\ \A m, n \in Minutes : Cell("hour", m) = Cell("hour", n) => Date[m] = Date[n]

VARIABLES
    kwh, week, weekend,  \* the three columns of the statistics rows, in mWh
    full                 \* the tariff that update_stat_db found for the row

energyVars == <<kwh, week, weekend, full>>
allVars == <<vars, energyVars>>

-------------------------------------------------------------------------------
(* The calendar of update_stat_db.                                         *)

MonthTerm == <<0, 3, 2, 5, 0, 3, 5, 1, 4, 6, 2, 4>>

\* get_day_of_week: 0 = monday ... 6 = sunday.
DayOfWeek(year, m, d) ==
    LET y == IF m < 3 THEN year - 1 ELSE year
    IN  (y + y \div 4 - y \div 100 + y \div 400 + MonthTerm[m] + d - 1) % 7

FullTariff(hour) == hour \in 8..22

\* Mutant of Tariffs: the week-end has the tariffs of the week.
TariffsOfWeek(t) == {FullTariff(t.hour)}

\* The outcomes of the test of update_stat_db; month 0, which the daemon lets
\* through, makes get_day_of_week read before its table.
Tariffs(t) ==
    IF t.month = 0 THEN {FullTariff(t.hour), FALSE}
    ELSE {DayOfWeek(t.year, t.month, t.day) < 5 /\ FullTariff(t.hour)}

-------------------------------------------------------------------------------
(* From a reading to the statistics.                                       *)

\* amps = reading * 0.07, watts = amps * 230, wh = watts / 60, written "%f".
MicroWh(reading) == (reading * 805000 + 1) \div 3

Million == 1000000

\* A whole number of watt-hours is stored as an integer in the INT column.
Whole(e) == e % Million = 0

\* Mutant of KwhOf: the quotient of two integers, whatever is stored.
KwhOfTruncating(e) == ((e \div Million) \div 1000) * Million

\* NEW.ch1_kw_avg/1000, written "%f", in mWh: the quotient of two integers when
\* the column holds one.
KwhOf(e) ==
    IF Whole(e) THEN ((e \div Million) \div 1000) * Million
    ELSE (e + 500) \div 1000

-------------------------------------------------------------------------------

EnergyInit ==
    /\ Init
    /\ kwh = EmptyCount /\ week = EmptyCount /\ weekend = EmptyCount
    /\ full = FALSE

\* The tariff is found once, when the trigger of the row starts.
InsertEnergy(m) ==
    /\ InsertRow(m)
    /\ full' \in Tariffs(Date[m])
    /\ UNCHANGED <<kwh, week, weekend>>

Added(column, c, e) == [column EXCEPT ![c] = @ + e]

\* The three columns of one UPDATE_STAT statement.
CountEnergy(l) ==
    LET c == Cell(l, at.minute)
        e == KwhOf(MicroWh(Reading[at.minute]))
    IN  /\ CountRow(l)
        /\ kwh' = Added(kwh, c, e)
        /\ week' = IF full THEN Added(week, c, e) ELSE week
        /\ weekend' = IF full THEN weekend ELSE Added(weekend, c, e)
        /\ UNCHANGED full

\* The status changes and a refused statement leave the columns alone.
OtherEnergy ==
    /\ RefuseRow \/ FinishRow \/ \E l \in StatusLevels : Mark(l)
    /\ UNCHANGED energyVars

EnergyNext ==
    \/ \E m \in Minutes : InsertEnergy(m)
    \/ \E l \in Levels : CountEnergy(l)
    \/ OtherEnergy

EnergySpec == EnergyInit /\ [][EnergyNext]_allVars

-------------------------------------------------------------------------------

\* Days from 1 January 2000, a saturday, by counting.
Leap(y) == y % 4 = 0 /\ (y % 100 # 0 \/ y % 400 = 0)

MonthDays(y, m) ==
    CASE m = 2 -> IF Leap(y) THEN 29 ELSE 28
      [] m \in {4, 6, 9, 11} -> 30
      [] OTHER -> 31

DaysBeforeYear[y \in Years] ==
    IF y = 2000 THEN 0 ELSE DaysBeforeYear[y - 1] + (IF Leap(y - 1) THEN 366 ELSE 365)

DaysOf(y) == [k \in 1..12 |-> MonthDays(y, k)]

DaysBeforeMonth(y, m) == MapThenSumSet(LAMBDA k : DaysOf(y)[k], 1..(m - 1))

\* 0 = monday ... 6 = sunday.
WeekDay(y, m, d) == (5 + DaysBeforeYear[y] + DaysBeforeMonth(y, m) + d - 1) % 7

\* get_day_of_week agrees with the counting of days for every date a frame
\* can carry (db.c:35-41; its year is one byte above 2000).
CalendarCorrect ==
    \A y \in Years, m \in 1..12 :
        LET first == WeekDay(y, m, 1)
        IN  \A d \in 1..MonthDays(y, m) : DayOfWeek(y, m, d) = (first + d - 1) % 7

\* The full tariff: monday to friday, from eight to eleven in the evening.
OnWeekTariff(m) ==
    /\ WeekDay(Date[m].year, Date[m].month, Date[m].day) \in 0..4
    /\ 8 <= Date[m].hour /\ Date[m].hour < 23

\* All the energy of an hour is in the column of the tariff it falls under,
\* whatever was recorded before it and whichever tables refused it
\* (db.c:207-210).
TariffsSeparate ==
    \A m \in rows :
        Date[m].month # 0 =>
            LET c == Cell("hour", m)
            IN  IF OnWeekTariff(m) THEN weekend[c] = 0 ELSE week[c] = 0

FinerLevel(l) == CASE l = "day" -> "hour" [] l = "month" -> "day" [] l = "year" -> "month"

\* The rows of the finer table that a coarser row sums up.
Parts(c) == {Cell(FinerLevel(c[1]), m) : m \in InCell(Minutes, c)}

Nested(column) ==
    \A c \in Cells : c[1] # "hour" =>
        column[c] <= MapThenSumSet(LAMBDA q : column[q], Parts(c))

\* A chart never shows more energy for a day, month or year than the charts of
\* its parts, in any of the three columns, whatever statement is refused
\* (db.c:212-230), though the two tariffs always add up to the total.
TotalsNested ==
    /\ Nested(kwh) /\ Nested(week) /\ Nested(weekend)
    /\ \A c \in Cells : kwh[c] = week[c] + weekend[c]

Energies == [m \in Minutes |-> MicroWh(Reading[m])]

Consumed(S) == MapThenSumSet(LAMBDA m : Energies[m], S)

\* A row of the statistics shows at most the energy of its recorded minutes,
\* and when every one of them is counted all of it, but for half a milliwatt-
\* hour a minute and the minutes of a whole number of watt-hours, which the
\* integer division of the trigger loses (sql_cmd.h:65-70).
TotalsNearConsumption ==
    \A c \in Cells :
        LET S == InCell(rows, c)
        IN  /\ 1000 * kwh[c] <= Consumed(S) + 500 * count[c]
            /\ count[c] = Cardinality(S) =>
                 1000 * kwh[c] + 500 * count[c] >=
                     Consumed({m \in S : ~Whole(MicroWh(Reading[m]))})
===============================================================================
