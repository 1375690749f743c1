----------------------------- MODULE EnergyProofs -----------------------------
(***************************************************************************)
(* Proofs about Energy for every set of minutes, every calendar, every     *)
(* date a frame can carry and every reading.                               *)
(***************************************************************************)
EXTENDS Energy, LedgerProofs, SumProofs

(***************************************************************************)
(* The calendar.                                                           *)
(***************************************************************************)

\* The days and leap days of get_day_of_week before the months of year y + 1.
YearTerm(y) == y + y \div 4 - y \div 100 + y \div 400

YearLength(y) == IF Leap(y) THEN 366 ELSE 365

\* A year moves the days of the week by one, a leap year by two.
LEMMA YearTermStep ==
    ASSUME NEW y \in Years
    PROVE  YearTerm(y) = YearTerm(y - 1) + YearLength(y) - 364
BY DEF YearTerm, YearLength, Leap, Years

\* DaysBeforeYear in closed form.
DaysTo(y) == 364 * (y - 2000) + YearTerm(y - 1) - YearTerm(1999)

LEMMA DaysToStep ==
    /\ DaysTo(2000) = 0
    /\ \A y \in 2001..2255 : DaysTo(y) = DaysTo(y - 1) + YearLength(y - 1)
<1> USE DEF Years
<1>1. DaysTo(2000) = 0
  BY DEF DaysTo, YearTerm
<1>2. ASSUME NEW y \in 2001..2255 PROVE DaysTo(y) = DaysTo(y - 1) + YearLength(y - 1)
  <2>1. YearTerm(y - 1) = YearTerm(y - 2) + YearLength(y - 1) - 364
    BY YearTermStep
  <2>2. YearTerm(y - 2) \in Int /\ YearTerm(1999) \in Int /\ YearLength(y - 1) \in Int
    BY DEF YearTerm, YearLength
  <2> QED BY <2>1, <2>2 DEF DaysTo
<1> QED BY <1>1, <1>2

\* The recursive definition, which DaysTo satisfies, defines something.
LEMMA DaysBeforeYearStep ==
    \A y \in Years :
        DaysBeforeYear[y] =
            IF y = 2000 THEN 0 ELSE DaysBeforeYear[y - 1] + YearLength(y - 1)
<1> USE DEF Years
<1> DEFINE step(f, y) == IF y = 2000 THEN 0 ELSE f[y - 1] + YearLength(y - 1)
<1> DEFINE Counts(f) == f = [y \in Years |-> step(f, y)]
<1> DEFINE g == [y \in Years |-> DaysTo(y)]
<1>1. Counts(g)
  BY DaysToStep
<1>2. DaysBeforeYear = CHOOSE f : Counts(f)
  BY DEF DaysBeforeYear, YearLength
<1>3. Counts(DaysBeforeYear)
  <2> HIDE DEF Counts
  <2> QED BY <1>1, <1>2
<1>4. ASSUME NEW y \in Years PROVE DaysBeforeYear[y] = step(DaysBeforeYear, y)
  <2> HIDE DEF step
  <2> QED BY <1>3
<1> QED BY <1>4

LEMMA DaysBeforeYearIs == \A y \in Years : DaysBeforeYear[y] = DaysTo(y)
<1> USE DEF Years
<1> DEFINE Bad == {y \in Years : DaysBeforeYear[y] # DaysTo(y)}
<1> SUFFICES ASSUME Bad # {} PROVE FALSE
  OBVIOUS
<1>1. PICK y \in Bad : \A k \in Bad : y <= k
  <2>1. Bad \in SUBSET Nat
    OBVIOUS
  <2> HIDE DEF Bad
  <2> QED BY <2>1, LeastNat
<1>2. CASE y = 2000
  BY <1>1, <1>2, DaysBeforeYearStep, DaysToStep
<1>3. CASE y # 2000
  <2>1. y \in 2001..2255 /\ y - 1 \in Years /\ y - 1 \notin Bad
    BY <1>1, <1>3
  <2> QED BY <1>1, <1>3, <2>1, DaysBeforeYearStep, DaysToStep
<1> QED BY <1>2, <1>3

\* The days of the year before each month.
LEMMA DaysBeforeMonthIs ==
    ASSUME NEW y \in Nat
    PROVE  LET leap == IF Leap(y) THEN 1 ELSE 0
           IN  /\ DaysBeforeMonth(y, 1) = 0
               /\ DaysBeforeMonth(y, 2) = 31
               /\ DaysBeforeMonth(y, 3) = 59 + leap
               /\ DaysBeforeMonth(y, 4) = 90 + leap
               /\ DaysBeforeMonth(y, 5) = 120 + leap
               /\ DaysBeforeMonth(y, 6) = 151 + leap
               /\ DaysBeforeMonth(y, 7) = 181 + leap
               /\ DaysBeforeMonth(y, 8) = 212 + leap
               /\ DaysBeforeMonth(y, 9) = 243 + leap
               /\ DaysBeforeMonth(y, 10) = 273 + leap
               /\ DaysBeforeMonth(y, 11) = 304 + leap
               /\ DaysBeforeMonth(y, 12) = 334 + leap
<1>1. DaysBeforeMonth(y, 1) = 0
  <2>1. DaysBeforeMonth(y, 1) = Sum(DaysOf(y), 1..(1 - 1))
    BY DEF DaysBeforeMonth, Sum
  <2>2. 1..(1 - 1) = {}
    OBVIOUS
  <2> QED BY <2>1, <2>2, SumEmpty
<1>2. ASSUME NEW m \in 1..11
      PROVE  DaysBeforeMonth(y, m + 1) = MonthDays(y, m) + DaysBeforeMonth(y, m)
  <2>1. DaysBeforeMonth(y, m + 1) = Sum(DaysOf(y), 1..m)
    BY DEF DaysBeforeMonth, Sum
  <2>2. DaysBeforeMonth(y, m) = Sum(DaysOf(y), 1..(m - 1))
    BY DEF DaysBeforeMonth, Sum
  <2>3. IsFiniteSet(1..(m - 1)) /\ m \notin 1..(m - 1) /\ 1..m = (1..(m - 1)) \cup {m}
    BY FS_Interval
  <2>4. \A k \in (1..(m - 1)) \cup {m} : DaysOf(y)[k] \in Int /\ DaysOf(y)[k] = MonthDays(y, k)
    BY DEF DaysOf, MonthDays
  <2>5. Sum(DaysOf(y), (1..(m - 1)) \cup {m}) = DaysOf(y)[m] + Sum(DaysOf(y), 1..(m - 1))
    BY <2>3, <2>4, SumAdd
  <2> QED BY <2>1, <2>2, <2>3, <2>4, <2>5
<1>3. \A m \in 1..11 : MonthDays(y, m) =
          IF m = 2 THEN 28 + IF Leap(y) THEN 1 ELSE 0
          ELSE IF m \in {4, 6, 9, 11} THEN 30 ELSE 31
  BY DEF MonthDays
<1> QED BY <1>1, <1>2, <1>3

LEMMA DaysBeforeType ==
    ASSUME NEW y \in Years, NEW m \in 1..12
    PROVE  DaysBeforeYear[y] \in Int /\ DaysBeforeMonth(y, m) \in Int
<1> USE DEF Years
<1>1. DaysBeforeYear[y] \in Int
  BY DaysBeforeYearIs DEF DaysTo, YearTerm
<1>2. y \in Nat /\ m \in {1, 2, 3, 4, 5, 6, 7, 8, 9, 10, 11, 12}
  OBVIOUS
<1> QED BY <1>1, <1>2, DaysBeforeMonthIs

\* get_day_of_week counts the days.
LEMMA DayOfWeekIs ==
    ASSUME NEW y \in Years, NEW m \in 1..12, NEW d \in Nat
    PROVE  DayOfWeek(y, m, d) = WeekDay(y, m, d)
<1> USE DEF Years
<1> DEFINE leap == IF Leap(y) THEN 1 ELSE 0
<1>1. WeekDay(y, m, d) = (5 + DaysTo(y) + DaysBeforeMonth(y, m) + d - 1) % 7
  BY DaysBeforeYearIs DEF WeekDay
<1>2. /\ YearTerm(y) = YearTerm(y - 1) + 1 + leap
      /\ YearTerm(y - 1) \in Int
  BY YearTermStep DEF YearTerm, YearLength
<1>3. DaysTo(y) = 364 * (y - 2000) + YearTerm(y - 1) - 2483
  BY DEF DaysTo, YearTerm
<1>4. DayOfWeek(y, m, d) =
        ((IF m < 3 THEN YearTerm(y - 1) ELSE YearTerm(y)) + MonthTerm[m] + d - 1) % 7
  BY DEF DayOfWeek, YearTerm
<1> DEFINE t == YearTerm(y - 1)
<1> DEFINE weeks == <<0, 4, 8, 12, 17, 21, 25, 30, 34, 38, 43, 47>>
<1>5. DaysBeforeMonth(y, m) =
        MonthTerm[m] + (IF m < 3 THEN 0 ELSE 1 + leap) + 7 * weeks[m]
  <2>1. y \in Nat
    OBVIOUS
  <2>2. m \in {1, 2, 3, 4, 5, 6, 7, 8, 9, 10, 11, 12}
    OBVIOUS
  <2> QED BY <2>1, <2>2, DaysBeforeMonthIs DEF MonthTerm
<1>6. weeks[m] \in Nat /\ MonthTerm[m] \in Nat
  BY DEF MonthTerm
<1> QED BY <1>1, <1>2, <1>3, <1>4, <1>5, <1>6

\* get_day_of_week gives the day of the week of every date that a frame can
\* carry (db.c:35-41).
THEOREM CalendarIsCorrect == CalendarCorrect
<1>1. ASSUME NEW y \in Years, NEW m \in 1..12, NEW d \in 1..MonthDays(y, m)
      PROVE  DayOfWeek(y, m, d) = (WeekDay(y, m, 1) + d - 1) % 7
  <2>1. d \in Nat
    BY DEF MonthDays
  <2>2. DayOfWeek(y, m, d) = WeekDay(y, m, d)
    BY <2>1, DayOfWeekIs, Zenon
  <2>3. WeekDay(y, m, d) = (WeekDay(y, m, 1) + d - 1) % 7
    BY <2>1, DaysBeforeType DEF WeekDay
  <2> QED BY <2>2, <2>3
<1> QED BY <1>1, Zenon DEF CalendarCorrect

(***************************************************************************)
(* What one minute adds.                                                   *)
(***************************************************************************)

\* The rounding of the statistics: half a milliwatt-hour, unless the division
\* of an integer loses more.
LEMMA Rounding ==
    ASSUME NEW m \in Minutes
    PROVE  LET e == MicroWh(Reading[m])
           IN  /\ e \in Nat /\ Energies[m] = e
               /\ KwhOf(e) \in Nat
               /\ 1000 * KwhOf(e) <= e + 500
               /\ ~Whole(e) => 1000 * KwhOf(e) + 500 >= e
<1> DEFINE e == MicroWh(Reading[m])
<1>1. Reading[m] \in Nat
  BY EnergyAssumption
<1>2. e \in Nat
  BY <1>1 DEF MicroWh
<1>3. Energies[m] = e
  BY DEF Energies
<1> HIDE DEF e
<1>4. /\ KwhOf(e) \in Nat
      /\ 1000 * KwhOf(e) <= e + 500
      /\ ~Whole(e) => 1000 * KwhOf(e) + 500 >= e
  BY <1>2 DEF KwhOf, Whole, Million
<1> QED BY <1>2, <1>3, <1>4 DEF e

\* The test of update_stat_db, for a month the calendar knows.
LEMMA TariffIs ==
    ASSUME NEW m \in Minutes
    PROVE  /\ Tariffs(Date[m]) \subseteq BOOLEAN
           /\ Date[m].month # 0 => Tariffs(Date[m]) = {OnWeekTariff(m)}
<1>1. Date[m] \in [year : Years, month : 0..12, day : Nat, hour : Nat]
  BY EnergyAssumption
<1>2. PICK t \in [year : Years, month : 0..12, day : Nat, hour : Nat] : t = Date[m]
  BY <1>1
<1>3. Tariffs(t) \subseteq BOOLEAN
  <2>1. FullTariff(t.hour) \in BOOLEAN
    BY DEF FullTariff
  <2>2. (DayOfWeek(t.year, t.month, t.day) < 5 /\ FullTariff(t.hour)) \in BOOLEAN
    OBVIOUS
  <2> QED BY <2>1, <2>2 DEF Tariffs
<1>4. ASSUME t.month # 0 PROVE Tariffs(t) = {OnWeekTariff(m)}
  <2>1. t.year \in Years /\ t.month \in 1..12 /\ t.day \in Nat /\ t.hour \in Nat
    BY <1>4
  <2>2. DayOfWeek(t.year, t.month, t.day) = WeekDay(t.year, t.month, t.day)
    BY <2>1, DayOfWeekIs, Zenon
  <2>3. DaysBeforeYear[t.year] \in Int /\ DaysBeforeMonth(t.year, t.month) \in Int
    BY <2>1, DaysBeforeType, Zenon
  <2>4. WeekDay(t.year, t.month, t.day) \in Nat
    BY <2>1, <2>3 DEF WeekDay
  <2>5. OnWeekTariff(m) <=> (WeekDay(t.year, t.month, t.day) < 5 /\ FullTariff(t.hour))
    BY <1>2, <2>1, <2>4 DEF OnWeekTariff, FullTariff
  <2>6. OnWeekTariff(m) \in BOOLEAN
    BY DEF OnWeekTariff
  <2> QED BY <1>4, <2>2, <2>5, <2>6 DEF Tariffs
<1> QED BY <1>2, <1>3, <1>4

(***************************************************************************)
(* The inductive invariant.                                                *)
(***************************************************************************)

EnergyType ==
    /\ kwh \in [Cells -> Nat] /\ week \in [Cells -> Nat] /\ weekend \in [Cells -> Nat]
    /\ full \in BOOLEAN

\* The two tariffs add up to the total.
Split == \A c \in Cells : kwh[c] = week[c] + weekend[c]

\* The tariff of the row under the trigger is that of its date, and an hour
\* has nothing under the other one, whether or not its minutes are recorded.
TariffInv ==
    /\ at.level \in Levels => full \in Tariffs(Date[at.minute])
    /\ \A m \in Minutes : Date[m].month # 0 =>
          IF OnWeekTariff(m) THEN weekend[Cell("hour", m)] = 0 ELSE week[Cell("hour", m)] = 0

\* What the row under the trigger adds to each column.
DueKwh == KwhOf(MicroWh(Reading[at.minute]))
DueWeek == IF full THEN DueKwh ELSE 0
DueWeekend == IF full THEN 0 ELSE DueKwh

Coarse == {"day", "month", "year"}

\* The parts of the row of level l that minute m falls in are ahead by e.
Ahead(column, e, l, m) ==
    l \in Coarse => column[Cell(l, m)] + e <= Sum(column, Parts(Cell(l, m)))

\* So they are for a table that the trigger has still to visit.
NestedInv ==
    /\ Nested(kwh) /\ Nested(week) /\ Nested(weekend)
    /\ Ahead(kwh, DueKwh, at.level, at.minute)
    /\ Ahead(week, DueWeek, at.level, at.minute)
    /\ Ahead(weekend, DueWeekend, at.level, at.minute)

\* The energy of the row under the trigger that cell c has still to get.
DueEnergy(c) == IF Due(c) = 1 THEN Energies[at.minute] ELSE 0

DueRounded(c) == IF Due(c) = 1 /\ ~Whole(Energies[at.minute]) THEN Energies[at.minute] ELSE 0

Fractional(S) == {m \in S : ~Whole(Energies[m])}

\* TotalsNearConsumption, with what is due.
NearInv ==
    \A c \in Cells :
        LET S == InCell(rows, c)
        IN  /\ 1000 * kwh[c] + DueEnergy(c) <= Consumed(S) + 500 * count[c]
            /\ count[c] + Due(c) = Cardinality(S) =>
                  1000 * kwh[c] + 500 * count[c] + DueRounded(c) >= Consumed(Fractional(S))

EnergyInv == EnergyType /\ Split /\ TariffInv /\ NestedInv /\ NearInv

(***************************************************************************)
(* Energy implements Ledger.                                               *)
(***************************************************************************)

\* Adding up the energies does not change what is recorded and counted.
THEOREM EnergyIsRecorded == EnergySpec => Spec
<1>1. EnergyInit => Init
  BY DEF EnergyInit
<1>2. [EnergyNext]_allVars => [Next]_vars
  BY DEF EnergyNext, InsertEnergy, CountEnergy, OtherEnergy, Next, allVars, vars
<1> QED BY <1>1, <1>2, PTL DEF EnergySpec, Spec

(***************************************************************************)
(* One statement of update_stat_db.                                        *)
(***************************************************************************)

\* Each column gets what is due in one cell, and the next table is due.
LEMMA CountEnergyAdds ==
    ASSUME TypeOK, EnergyType, NEW l \in Levels, CountEnergy(l)
    PROVE  LET m == at.minute
               c == Cell(l, m)
           IN  /\ m \in Minutes /\ m \in rows /\ at.level = l
               /\ at'.minute = m /\ at'.level = NextLevel(l)
               /\ rows' = rows /\ full' = full
               /\ c \in Cells /\ c[1] = l
               /\ DueKwh \in Nat /\ DueWeek \in Nat /\ DueWeekend \in Nat
               /\ DueKwh' = DueKwh /\ DueWeek' = DueWeek /\ DueWeekend' = DueWeekend
               /\ EnergyType'
               /\ \A x \in Cells :
                     /\ count'[x] = IF x = c THEN count[x] + 1 ELSE count[x]
                     /\ kwh'[x] = IF x = c THEN kwh[x] + DueKwh ELSE kwh[x]
                     /\ week'[x] = IF x = c THEN week[x] + DueWeek ELSE week[x]
                     /\ weekend'[x] = IF x = c THEN weekend[x] + DueWeekend ELSE weekend[x]
<1> DEFINE m == at.minute
<1> DEFINE c == Cell(l, m)
<1>1. /\ m \in rows /\ m \in Minutes /\ at.level = l
      /\ at' = Row(m, NextLevel(l)) /\ rows' = rows /\ full' = full
      /\ count' = CountedIn(count, l, m)
  BY DEF CountEnergy, CountRow, TypeOK, NoRow, Levels
<1>2. at'.minute = m /\ at'.level = NextLevel(l)
  BY <1>1 DEF Row
<1>3. c \in Cells /\ c[1] = l
  BY <1>1, CellLevel
<1>4. DueKwh \in Nat /\ DueWeek \in Nat /\ DueWeekend \in Nat
  BY <1>1, Rounding DEF DueKwh, DueWeek, DueWeekend
<1>5. DueKwh' = DueKwh /\ DueWeek' = DueWeek /\ DueWeekend' = DueWeekend
  <2>1. DueKwh' = DueKwh
    BY <1>2 DEF DueKwh
  <2> QED BY <1>1, <2>1 DEF DueWeek, DueWeekend
<1>6. \A x \in Cells : count'[x] = IF x = c THEN count[x] + 1 ELSE count[x]
  BY <1>1, <1>3 DEF CountedIn, TypeOK
<1>7. /\ kwh' = Added(kwh, c, DueKwh)
      /\ week' = IF full THEN Added(week, c, DueKwh) ELSE week
      /\ weekend' = IF full THEN weekend ELSE Added(weekend, c, DueKwh)
  BY <1>1 DEF CountEnergy, DueKwh
<1> HIDE DEF c
<1>8. \A x \in Cells :
        /\ kwh'[x] = IF x = c THEN kwh[x] + DueKwh ELSE kwh[x]
        /\ week'[x] = IF x = c THEN week[x] + DueWeek ELSE week[x]
        /\ weekend'[x] = IF x = c THEN weekend[x] + DueWeekend ELSE weekend[x]
  BY <1>3, <1>4, <1>7 DEF Added, EnergyType, DueWeek, DueWeekend
<1>9. EnergyType'
  BY <1>1, <1>3, <1>4, <1>7 DEF Added, EnergyType
<1> QED BY <1>1, <1>2, <1>3, <1>4, <1>5, <1>6, <1>8, <1>9 DEF c

(***************************************************************************)
(* The parts of a row.                                                     *)
(***************************************************************************)

\* The rows of the finer table that a row covers.
LEMMA PartsAre ==
    ASSUME NEW c \in Cells, c[1] # "hour"
    PROVE  /\ c[1] \in Coarse
           /\ IsFiniteSet(Parts(c))
           /\ Parts(c) \subseteq Cells
           /\ \A x \in Parts(c) : x[1] = FinerLevel(c[1]) /\ x[1] # c[1]
           /\ \A m \in Minutes : c = Cell(c[1], m) => Cell(FinerLevel(c[1]), m) \in Parts(c)
<1>1. PICK l \in Levels, m \in Minutes : c = <<l, Period[l][m]>>
  BY DEF Cells, Cell
<1>2. c[1] = l /\ l \in Coarse
  BY <1>1 DEF Levels, Coarse
<1>3. FinerLevel(l) \in Levels /\ FinerLevel(l) # l
  BY <1>2 DEF FinerLevel, Levels, Coarse
<1> DEFINE f == FinerLevel(c[1])
<1>4. Parts(c) = {Cell(f, n) : n \in InCell(Minutes, c)}
  BY DEF Parts
<1>5. InCell(Minutes, c) \subseteq Minutes
  BY DEF InCell
<1>6. IsFiniteSet(Parts(c))
  <2>1. IsFiniteSet(InCell(Minutes, c))
    BY <1>5, CalendarAssumption, FS_Subset
  <2> DEFINE g == [n \in InCell(Minutes, c) |-> Cell(f, n)]
  <2>2. g \in Surjection(InCell(Minutes, c), Parts(c))
    BY <1>4 DEF Surjection
  <2> QED BY <2>1, <2>2, FS_Surjection
<1>7. \A x \in Parts(c) : x \in Cells /\ x[1] = f
  BY <1>2, <1>3, <1>4, <1>5 DEF Cells, Cell
<1>8. ASSUME NEW n \in Minutes, c = Cell(c[1], n) PROVE Cell(f, n) \in Parts(c)
  BY <1>4, <1>8 DEF InCell
<1> QED BY <1>2, <1>3, <1>6, <1>7, <1>8

\* Adding to a row, when the rows it covers are ahead by as much, keeps the
\* column nested and puts the next table behind.
LEMMA NestedAdd ==
    ASSUME NEW f \in [Cells -> Nat], Nested(f), NEW g \in [Cells -> Nat],
           NEW l \in Levels, NEW m \in Minutes, NEW e \in Nat,
           \A x \in Cells : g[x] = IF x = Cell(l, m) THEN f[x] + e ELSE f[x],
           Ahead(f, e, l, m)
    PROVE  Nested(g) /\ Ahead(g, e, NextLevel(l), m)
<1> DEFINE d == Cell(l, m)
<1>1. d \in Cells /\ d[1] = l
  BY CellLevel
<1>2. \A x \in Cells : g[x] = IF x = d THEN f[x] + e ELSE f[x]
  OBVIOUS
<1>3. l # "hour" => f[d] + e <= Sum(f, Parts(d))
  BY DEF Ahead, Levels, Coarse
<1> HIDE DEF d
<1>4. ASSUME NEW x \in Cells, x[1] # "hour"
      PROVE  /\ Sum(f, Parts(x)) \in Int
             /\ d \in Parts(x) => Sum(g, Parts(x)) = Sum(f, Parts(x)) + e
             /\ d \notin Parts(x) => Sum(g, Parts(x)) = Sum(f, Parts(x))
  <2>1. IsFiniteSet(Parts(x)) /\ Parts(x) \subseteq Cells
    BY <1>4, PartsAre
  <2>2. \A y \in Parts(x) : f[y] \in Int
    BY <2>1
  <2>3. Sum(f, Parts(x)) \in Int
    BY <2>1, <2>2, SumType
  <2>4. CASE d \in Parts(x)
    <3>1. \A y \in Parts(x) : g[y] = IF y = d THEN f[y] + e ELSE f[y]
      BY <1>2, <2>1
    <3> DEFINE P == Parts(x)
    <3>2. e \in Int /\ IsFiniteSet(P) /\ d \in P /\ \A y \in P : f[y] \in Int
      BY <2>1, <2>2, <2>4
    <3> HIDE DEF P
    <3>3. Sum(g, P) = Sum(f, P) + e
      BY <3>1, <3>2, SumRaise DEF P
    <3> QED BY <2>3, <2>4, <3>3 DEF P
  <2>5. CASE d \notin Parts(x)
    <3>1. \A y \in Parts(x) : g[y] = f[y]
      BY <1>2, <2>1, <2>5
    <3> QED BY <2>1, <2>3, <2>5, <3>1, SumSame
  <2> QED BY <2>4, <2>5
<1>5. \A x \in Cells : x[1] # "hour" => f[x] <= Sum(f, Parts(x))
  BY DEF Nested, Sum
<1>6. ASSUME NEW x \in Cells, x[1] # "hour" PROVE g[x] <= Sum(g, Parts(x))
  <2>1. f[x] <= Sum(f, Parts(x)) /\ f[x] \in Nat
    BY <1>5, <1>6
  <2>2. CASE x = d
    <3>1. d \notin Parts(x)
      BY <1>6, <2>2, PartsAre
    <3> QED BY <1>1, <1>2, <1>3, <1>4, <1>6, <2>2, <3>1
  <2>3. CASE x # d
    <3>1. g[x] = f[x]
      BY <1>2, <2>3
    <3> QED BY <1>4, <1>6, <2>1, <3>1
  <2> QED BY <2>2, <2>3
<1>7. ASSUME NextLevel(l) \in Coarse
      PROVE  g[Cell(NextLevel(l), m)] + e <= Sum(g, Parts(Cell(NextLevel(l), m)))
  <2> DEFINE n == NextLevel(l)
  <2> DEFINE x == Cell(n, m)
  <2>1. n \in Coarse /\ n \in Levels /\ FinerLevel(n) = l
    BY <1>7 DEF NextLevel, FinerLevel, Levels, Coarse
  <2>2. x \in Cells /\ x[1] = n
    BY <2>1, CellLevel
  <2>3. x[1] # "hour" /\ x # d
    BY <1>1, <2>1, <2>2 DEF Coarse, FinerLevel
  <2>4. d \in Parts(x)
    <3>1. Cell(FinerLevel(x[1]), m) \in Parts(x)
      BY <2>2, <2>3, PartsAre
    <3> QED BY <2>1, <2>2, <3>1 DEF d
  <2> HIDE DEF x, n
  <2>5. g[x] = f[x] /\ f[x] \in Nat
    BY <1>2, <2>2, <2>3
  <2>6. f[x] <= Sum(f, Parts(x))
    BY <1>5, <2>2, <2>3
  <2>7. g[x] + e <= Sum(g, Parts(x))
    BY <1>4, <2>2, <2>3, <2>4, <2>5, <2>6
  <2> QED BY <2>7 DEF x, n
<1>8. Nested(g)
  BY <1>6 DEF Nested, Sum
<1> QED BY <1>7, <1>8 DEF Ahead

(***************************************************************************)
(* The steps.                                                              *)
(***************************************************************************)

\* A step that counts nothing leaves the columns alone, and the trigger is
\* where it was, has ended or is about to start.
LEMMA QuietEnergy ==
    ASSUME OtherEnergy \/ UNCHANGED allVars
    PROVE  /\ UNCHANGED <<rows, count, energyVars>>
           /\ at' = at \/ at'.level \in {"done", "none"}
BY DEF OtherEnergy, RefuseRow, FinishRow, Mark, Row, NoRow, allVars, vars, energyVars

LEMMA NestedStep ==
    ASSUME TypeOK, EnergyType, NestedInv, [EnergyNext]_allVars
    PROVE  NestedInv'
<1>1. ASSUME NEW m \in Minutes, InsertEnergy(m) PROVE NestedInv'
  <2>1. UNCHANGED <<kwh, week, weekend>> /\ at'.level = "hour"
    BY <1>1 DEF InsertEnergy, InsertRow, Row
  <2> QED BY <2>1 DEF NestedInv, Ahead, Coarse
<1>2. ASSUME NEW l \in Levels, CountEnergy(l) PROVE NestedInv'
  <2> DEFINE m == at.minute
  <2>1. /\ m \in Minutes /\ at.level = l
        /\ at'.minute = m /\ at'.level = NextLevel(l)
        /\ DueKwh \in Nat /\ DueWeek \in Nat /\ DueWeekend \in Nat
        /\ DueKwh' = DueKwh /\ DueWeek' = DueWeek /\ DueWeekend' = DueWeekend
        /\ \A x \in Cells :
              /\ kwh'[x] = IF x = Cell(l, m) THEN kwh[x] + DueKwh ELSE kwh[x]
              /\ week'[x] = IF x = Cell(l, m) THEN week[x] + DueWeek ELSE week[x]
              /\ weekend'[x] = IF x = Cell(l, m) THEN weekend[x] + DueWeekend ELSE weekend[x]
    BY <1>2, CountEnergyAdds
  <2>2. /\ kwh \in [Cells -> Nat] /\ kwh' \in [Cells -> Nat]
        /\ week \in [Cells -> Nat] /\ week' \in [Cells -> Nat]
        /\ weekend \in [Cells -> Nat] /\ weekend' \in [Cells -> Nat]
    BY <1>2, CountEnergyAdds DEF EnergyType
  <2>3. /\ Nested(kwh) /\ Nested(week) /\ Nested(weekend)
        /\ Ahead(kwh, DueKwh, l, m) /\ Ahead(week, DueWeek, l, m)
        /\ Ahead(weekend, DueWeekend, l, m)
    BY <2>1 DEF NestedInv
  <2> HIDE DEF m
  <2>4. Nested(kwh') /\ Ahead(kwh', DueKwh, NextLevel(l), m)
    <3>1. DueKwh \in Nat /\ \A x \in Cells : kwh'[x] = IF x = Cell(l, m) THEN kwh[x] + DueKwh ELSE kwh[x]
      BY <2>1
    <3>2. kwh \in [Cells -> Nat] /\ kwh' \in [Cells -> Nat] /\ m \in Minutes
      BY <2>1, <2>2
    <3> QED BY <2>3, <3>1, <3>2, NestedAdd
  <2>5. Nested(week') /\ Ahead(week', DueWeek, NextLevel(l), m)
    <3>1. DueWeek \in Nat /\ \A x \in Cells : week'[x] = IF x = Cell(l, m) THEN week[x] + DueWeek ELSE week[x]
      BY <2>1
    <3>2. week \in [Cells -> Nat] /\ week' \in [Cells -> Nat] /\ m \in Minutes
      BY <2>1, <2>2
    <3> QED BY <2>3, <3>1, <3>2, NestedAdd
  <2>6. Nested(weekend') /\ Ahead(weekend', DueWeekend, NextLevel(l), m)
    <3>1. DueWeekend \in Nat /\ \A x \in Cells : weekend'[x] = IF x = Cell(l, m) THEN weekend[x] + DueWeekend ELSE weekend[x]
      BY <2>1
    <3>2. weekend \in [Cells -> Nat] /\ weekend' \in [Cells -> Nat] /\ m \in Minutes
      BY <2>1, <2>2
    <3> QED BY <2>3, <3>1, <3>2, NestedAdd
  <2> QED BY <2>1, <2>4, <2>5, <2>6 DEF NestedInv
<1>3. ASSUME OtherEnergy \/ UNCHANGED allVars PROVE NestedInv'
  <2>1. UNCHANGED <<kwh, week, weekend, full>> /\ (at' = at \/ at'.level \in {"done", "none"})
    BY <1>3, QuietEnergy DEF energyVars
  <2>2. CASE at' = at
    <3>1. DueKwh' = DueKwh /\ DueWeek' = DueWeek /\ DueWeekend' = DueWeekend
      BY <2>1, <2>2 DEF DueKwh, DueWeek, DueWeekend
    <3> QED BY <2>1, <2>2, <3>1 DEF NestedInv
  <2>3. CASE at'.level \in {"done", "none"}
    BY <2>1, <2>3 DEF NestedInv, Ahead, Coarse
  <2> QED BY <2>1, <2>2, <2>3
<1> QED BY <1>1, <1>2, <1>3 DEF EnergyNext

LEMMA TariffStep ==
    ASSUME TypeOK, EnergyType, TariffInv, [EnergyNext]_allVars
    PROVE  TariffInv'
<1>1. ASSUME NEW m \in Minutes, InsertEnergy(m) PROVE TariffInv'
  <2>1. /\ UNCHANGED <<kwh, week, weekend>>
        /\ at'.minute = m
        /\ full' \in Tariffs(Date[m])
    BY <1>1 DEF InsertEnergy, InsertRow, Row
  <2> QED BY <2>1 DEF TariffInv, Tariffs, OnWeekTariff
<1>2. ASSUME NEW l \in Levels, CountEnergy(l) PROVE TariffInv'
  <2> DEFINE m == at.minute
  <2>1. /\ m \in Minutes /\ at.level = l /\ at'.minute = m /\ full' = full
        /\ Cell(l, m)[1] = l
        /\ \A x \in Cells :
              /\ week'[x] = IF x = Cell(l, m) THEN week[x] + DueWeek ELSE week[x]
              /\ weekend'[x] = IF x = Cell(l, m) THEN weekend[x] + DueWeekend ELSE weekend[x]
    BY <1>2, CountEnergyAdds
  <2>2. full \in Tariffs(Date[m])
    BY <2>1 DEF TariffInv
  <2>3. ASSUME NEW n \in Minutes, Date[n].month # 0
        PROVE  IF OnWeekTariff(n) THEN weekend'[Cell("hour", n)] = 0
               ELSE week'[Cell("hour", n)] = 0
    <3> DEFINE x == Cell("hour", n)
    <3>1. x \in Cells /\ x[1] = "hour"
      BY CellLevel DEF Levels
    <3>2. week[x] \in Nat /\ weekend[x] \in Nat
      BY <3>1 DEF EnergyType
    <3>3. IF OnWeekTariff(n) THEN weekend[x] = 0 ELSE week[x] = 0
      BY <2>3 DEF TariffInv
    <3> DEFINE d == Cell(l, m)
    <3>6. /\ week'[x] = IF x = d THEN week[x] + DueWeek ELSE week[x]
          /\ weekend'[x] = IF x = d THEN weekend[x] + DueWeekend ELSE weekend[x]
      BY <2>1, <3>1
    <3>4. CASE x = d
      <4>1. l = "hour"
        BY <2>1, <3>1, <3>4
      <4>2. Date[n] = Date[m]
        BY <2>1, <3>4, <4>1, EnergyAssumption
      <4>3. full = OnWeekTariff(n)
        <5>1. full \in Tariffs(Date[n])
          BY <2>2, <4>2
        <5>2. Tariffs(Date[n]) = {OnWeekTariff(n)}
          BY <2>3, TariffIs
        <5> HIDE DEF x
        <5> QED BY <5>1, <5>2
      <4>4. IF OnWeekTariff(n) THEN weekend'[x] = 0 ELSE week'[x] = 0
        <5> HIDE DEF x, d
        <5> QED BY <3>2, <3>3, <3>4, <3>6, <4>3 DEF DueWeek, DueWeekend
      <4> QED BY <4>4
    <3>5. CASE x # d
      BY <3>3, <3>5, <3>6
    <3> QED BY <3>4, <3>5
  <2> QED BY <2>1, <2>2, <2>3 DEF TariffInv, Tariffs, OnWeekTariff
<1>3. ASSUME OtherEnergy \/ UNCHANGED allVars PROVE TariffInv'
  <2>1. UNCHANGED <<kwh, week, weekend, full>> /\ (at' = at \/ at'.level \in {"done", "none"})
    BY <1>3, QuietEnergy DEF energyVars
  <2> QED BY <2>1 DEF TariffInv, Levels, Tariffs, OnWeekTariff
<1> QED BY <1>1, <1>2, <1>3 DEF EnergyNext

(***************************************************************************)
(* The energy of the recorded minutes.                                     *)
(***************************************************************************)

LEMMA ConsumedType == ASSUME NEW S \in SUBSET Minutes PROVE Consumed(S) \in Nat
<1>1. IsFiniteSet(S) /\ \A m \in S : Energies[m] \in Nat
  BY CalendarAssumption, FS_Subset, Rounding
<1>2. Sum(Energies, S) \in Nat
  BY <1>1, SumType
<1> QED BY <1>2 DEF Consumed, Sum

LEMMA ConsumedAdd ==
    ASSUME NEW S \in SUBSET Minutes, NEW m \in Minutes, m \notin S
    PROVE  Consumed(S \cup {m}) = Consumed(S) + Energies[m]
<1>1. IsFiniteSet(S) /\ \A n \in S \cup {m} : Energies[n] \in Int
  BY CalendarAssumption, FS_Subset, Rounding
<1>2. Sum(Energies, S \cup {m}) = Energies[m] + Sum(Energies, S)
  BY <1>1, SumAdd
<1>3. Energies[m] \in Int /\ Sum(Energies, S) \in Int
  BY <1>1, SumType
<1> QED BY <1>2, <1>3 DEF Consumed, Sum

\* A new row brings its energy to the cells it falls in and nowhere else.
LEMMA InsertConsumes ==
    ASSUME NEW S \in SUBSET Minutes, NEW m \in Minutes, m \notin S, NEW c \in Cells
    PROVE  LET here == Cell(c[1], m) = c
           IN  /\ Consumed(InCell(S \cup {m}, c))
                    = Consumed(InCell(S, c)) + IF here THEN Energies[m] ELSE 0
               /\ Consumed(Fractional(InCell(S \cup {m}, c)))
                    = Consumed(Fractional(InCell(S, c)))
                        + IF here /\ ~Whole(Energies[m]) THEN Energies[m] ELSE 0
<1>1. /\ InCell(S, c) \in SUBSET Minutes /\ m \notin InCell(S, c)
      /\ Fractional(InCell(S, c)) \in SUBSET Minutes /\ m \notin Fractional(InCell(S, c))
  BY DEF InCell, Fractional
<1>2. /\ Consumed(InCell(S, c)) \in Nat /\ Consumed(Fractional(InCell(S, c))) \in Nat
      /\ Energies[m] \in Nat
  BY <1>1, ConsumedType, Rounding
<1>3. CASE Cell(c[1], m) = c
  <2>1. InCell(S \cup {m}, c) = InCell(S, c) \cup {m}
    BY <1>3 DEF InCell
  <2>2. Consumed(InCell(S \cup {m}, c)) = Consumed(InCell(S, c)) + Energies[m]
    BY <1>1, <2>1, ConsumedAdd
  <2>3. CASE Whole(Energies[m])
    <3>1. Fractional(InCell(S \cup {m}, c)) = Fractional(InCell(S, c))
      BY <2>1, <2>3 DEF Fractional
    <3> QED BY <1>2, <1>3, <2>2, <2>3, <3>1
  <2>4. CASE ~Whole(Energies[m])
    <3>1. Fractional(InCell(S \cup {m}, c)) = Fractional(InCell(S, c)) \cup {m}
      BY <2>1, <2>4 DEF Fractional
    <3>2. Consumed(Fractional(InCell(S \cup {m}, c)))
            = Consumed(Fractional(InCell(S, c))) + Energies[m]
      BY <1>1, <3>1, ConsumedAdd
    <3> QED BY <1>3, <2>2, <2>4, <3>2
  <2> QED BY <2>3, <2>4
<1>4. CASE Cell(c[1], m) # c
  <2>1. InCell(S \cup {m}, c) = InCell(S, c)
    BY <1>4 DEF InCell
  <2> QED BY <1>2, <1>4, <2>1
<1> QED BY <1>3, <1>4

LEMMA NearStep ==
    ASSUME TypeOK, NeverOvercounts, EnergyType, NearInv, [EnergyNext]_allVars
    PROVE  NearInv'
<1> SUFFICES ASSUME NEW c \in Cells
             PROVE  LET S == InCell(rows', c)
                    IN  /\ 1000 * kwh'[c] + DueEnergy(c)' <= Consumed(S) + 500 * count'[c]
                        /\ count'[c] + Due(c)' = Cardinality(S) =>
                              1000 * kwh'[c] + 500 * count'[c] + DueRounded(c)'
                                >= Consumed(Fractional(S))
  BY DEF NearInv, InCell, Cell, Cells
<1> DEFINE S == InCell(rows, c)
<1>1. /\ 1000 * kwh[c] + DueEnergy(c) <= Consumed(S) + 500 * count[c]
      /\ count[c] + Due(c) = Cardinality(S) =>
            1000 * kwh[c] + 500 * count[c] + DueRounded(c) >= Consumed(Fractional(S))
  BY DEF NearInv
<1>2. /\ kwh[c] \in Nat /\ count[c] \in Nat /\ Cardinality(S) \in Nat
      /\ Consumed(S) \in Nat /\ Consumed(Fractional(S)) \in Nat
      /\ count[c] + Due(c) <= Cardinality(S)
      /\ Due(c) \in {0, 1} /\ Due(c)' \in {0, 1}
  <2>1. S \in SUBSET Minutes /\ Fractional(S) \in SUBSET Minutes /\ rows \in SUBSET Minutes
    BY DEF TypeOK, InCell, Fractional
  <2>2. Cardinality(S) \in Nat
    BY <2>1, InCellSize
  <2>3. Consumed(S) \in Nat /\ Consumed(Fractional(S)) \in Nat
    BY <2>1, ConsumedType
  <2> QED BY <2>2, <2>3, DueType DEF TypeOK, EnergyType, NeverOvercounts
<1>3. Due(c) = 1 => at.minute \in Minutes /\ Energies[at.minute] \in Nat
  <2>1. Due(c) = 1 => at.minute \in rows
    BY DEF Due, LevelsLeft, TypeOK, NoRow
  <2> QED BY <2>1, Rounding DEF TypeOK
<1>4. ASSUME NEW m \in Minutes, InsertEnergy(m)
      PROVE  LET Sn == InCell(rows', c)
             IN  /\ 1000 * kwh'[c] + DueEnergy(c)' <= Consumed(Sn) + 500 * count'[c]
                 /\ count'[c] + Due(c)' = Cardinality(Sn) =>
                       1000 * kwh'[c] + 500 * count'[c] + DueRounded(c)'
                         >= Consumed(Fractional(Sn))
  <2>1. /\ Due(c) = 0 /\ count'[c] = count[c] /\ kwh' = kwh
        /\ Due(c)' = IF Cell(c[1], m) = c THEN 1 ELSE 0
        /\ Cardinality(InCell(rows', c)) = Cardinality(S) + Due(c)'
    BY <1>4, InsertRowAccounts DEF InsertEnergy
  <2>2. rows' = rows \cup {m} /\ m \notin rows /\ at'.minute = m /\ rows \in SUBSET Minutes
    BY <1>4 DEF InsertEnergy, InsertRow, Row, TypeOK
  <2>3. /\ Consumed(InCell(rows', c))
             = Consumed(S) + IF Cell(c[1], m) = c THEN Energies[m] ELSE 0
        /\ Consumed(Fractional(InCell(rows', c)))
             = Consumed(Fractional(S))
                 + IF Cell(c[1], m) = c /\ ~Whole(Energies[m]) THEN Energies[m] ELSE 0
    BY <2>2, InsertConsumes
  <2>4. /\ DueEnergy(c)' = IF Cell(c[1], m) = c THEN Energies[m] ELSE 0
        /\ DueRounded(c)' =
             IF Cell(c[1], m) = c /\ ~Whole(Energies[m]) THEN Energies[m] ELSE 0
        /\ DueEnergy(c) = 0 /\ DueRounded(c) = 0
    BY <2>1, <2>2 DEF DueEnergy, DueRounded, Energies, Whole
  <2>5. Energies[m] \in Nat
    BY Rounding
  <2> HIDE DEF S
  <2> QED BY <1>1, <1>2, <2>1, <2>3, <2>4, <2>5
<1>5. ASSUME NEW l \in Levels, CountEnergy(l)
      PROVE  /\ 1000 * kwh'[c] + DueEnergy(c)' <= Consumed(S) + 500 * count'[c]
             /\ count'[c] + Due(c)' = Cardinality(S) =>
                   1000 * kwh'[c] + 500 * count'[c] + DueRounded(c)' >= Consumed(Fractional(S))
  <2> DEFINE m == at.minute
  <2> DEFINE d == Cell(l, m)
  <2>1. /\ m \in Minutes /\ at'.minute = m
        /\ count'[c] = IF c = d THEN count[c] + 1 ELSE count[c]
        /\ kwh'[c] = IF c = d THEN kwh[c] + DueKwh ELSE kwh[c]
        /\ DueKwh \in Nat
    BY <1>5, CountEnergyAdds
  <2>2. count'[c] + Due(c)' = count[c] + Due(c)
    <3>1. CountRow(l)
      BY <1>5 DEF CountEnergy
    <3> QED BY <3>1, CountRowAccounts DEF Accounted
  <2>3. /\ Energies[m] \in Nat
        /\ 1000 * DueKwh <= Energies[m] + 500
        /\ ~Whole(Energies[m]) => 1000 * DueKwh + 500 >= Energies[m]
    BY <2>1, Rounding DEF DueKwh
  <2>4. /\ DueEnergy(c) = IF Due(c) = 1 THEN Energies[m] ELSE 0
        /\ DueRounded(c) = IF Due(c) = 1 /\ ~Whole(Energies[m]) THEN Energies[m] ELSE 0
        /\ DueEnergy(c)' = IF Due(c)' = 1 THEN Energies[m] ELSE 0
        /\ DueRounded(c)' = IF Due(c)' = 1 /\ ~Whole(Energies[m]) THEN Energies[m] ELSE 0
    BY <2>1 DEF DueEnergy, DueRounded, Energies, Whole
  <2> HIDE DEF S, d, m
  <2>5. CASE c = d
    <3>1. Due(c) = 1 /\ Due(c)' = 0 /\ count'[c] = count[c] + 1 /\ kwh'[c] = kwh[c] + DueKwh
      BY <1>2, <2>1, <2>2, <2>5
    <3> QED BY <1>1, <1>2, <2>1, <2>3, <2>4, <3>1
  <2>6. CASE c # d
    <3>1. Due(c)' = Due(c) /\ count'[c] = count[c] /\ kwh'[c] = kwh[c]
      BY <1>2, <2>1, <2>2, <2>6
    <3> QED BY <1>1, <2>4, <3>1
  <2> QED BY <2>5, <2>6
<1>6. ASSUME OtherEnergy \/ UNCHANGED allVars
      PROVE  /\ 1000 * kwh'[c] + DueEnergy(c)' <= Consumed(S) + 500 * count'[c]
             /\ count'[c] + Due(c)' = Cardinality(S) =>
                   1000 * kwh'[c] + 500 * count'[c] + DueRounded(c)' >= Consumed(Fractional(S))
  <2>1. /\ count'[c] = count[c] /\ kwh'[c] = kwh[c]
        /\ at' = at \/ at'.level \in {"done", "none"}
    BY <1>6, QuietEnergy DEF energyVars
  <2>2. CASE at' = at
    <3>1. /\ Due(c)' = Due(c)
          /\ DueEnergy(c)' = DueEnergy(c) /\ DueRounded(c)' = DueRounded(c)
      BY <2>2 DEF Due, DueEnergy, DueRounded, Energies, Whole
    <3> QED BY <1>1, <2>1, <3>1
  <2>3. CASE at'.level \in {"done", "none"}
    <3>1. Due(c)' = 0
      BY <2>3, LeaveTrigger
    <3>2. DueEnergy(c)' = 0 /\ DueRounded(c)' = 0
      BY <3>1 DEF DueEnergy, DueRounded
    <3>3. DueEnergy(c) >= 0 /\ DueEnergy(c) \in Nat
      BY <1>3 DEF DueEnergy
    <3>4. Due(c) = 0 => DueRounded(c) = 0
      BY DEF DueRounded
    <3> HIDE DEF S
    <3> QED BY <1>1, <1>2, <2>1, <3>1, <3>2, <3>3, <3>4
  <2> QED BY <2>1, <2>2, <2>3
<1>7. CASE \E m \in Minutes : InsertEnergy(m)
  BY <1>4, <1>7
<1>8. CASE \E l \in Levels : CountEnergy(l)
  <2>1. rows' = rows
    BY <1>8 DEF CountEnergy, CountRow
  <2> QED BY <1>5, <1>8, <2>1
<1>9. CASE OtherEnergy \/ UNCHANGED allVars
  <2>1. rows' = rows
    BY <1>9, QuietEnergy
  <2> QED BY <1>6, <1>9, <2>1
<1> QED BY <1>7, <1>8, <1>9 DEF EnergyNext

(***************************************************************************)
(* The invariant and what it says.                                         *)
(***************************************************************************)

LEMMA TypeSplitStep ==
    ASSUME TypeOK, EnergyType, Split, [EnergyNext]_allVars
    PROVE  EnergyType' /\ Split'
<1>1. ASSUME NEW m \in Minutes, InsertEnergy(m) PROVE EnergyType' /\ Split'
  <2>1. UNCHANGED <<kwh, week, weekend>> /\ full' \in BOOLEAN
    BY <1>1, TariffIs DEF InsertEnergy
  <2> QED BY <2>1 DEF EnergyType, Split
<1>2. ASSUME NEW l \in Levels, CountEnergy(l) PROVE EnergyType' /\ Split'
  <2> DEFINE d == Cell(l, at.minute)
  <2>1. /\ EnergyType' /\ DueKwh \in Nat
        /\ \A x \in Cells :
              /\ kwh'[x] = IF x = d THEN kwh[x] + DueKwh ELSE kwh[x]
              /\ week'[x] = IF x = d THEN week[x] + DueWeek ELSE week[x]
              /\ weekend'[x] = IF x = d THEN weekend[x] + DueWeekend ELSE weekend[x]
    BY <1>2, CountEnergyAdds
  <2> HIDE DEF d
  <2>2. DueKwh = DueWeek + DueWeekend /\ DueWeek \in Nat /\ DueWeekend \in Nat
    BY <2>1 DEF DueWeek, DueWeekend
  <2>3. \A x \in Cells : kwh[x] = week[x] + weekend[x] /\ week[x] \in Nat /\ weekend[x] \in Nat
    BY DEF Split, EnergyType
  <2>4. \A x \in Cells : kwh'[x] = week'[x] + weekend'[x]
    BY <2>1, <2>2, <2>3
  <2> QED BY <2>1, <2>4 DEF Split
<1>3. ASSUME OtherEnergy \/ UNCHANGED allVars PROVE EnergyType' /\ Split'
  BY <1>3, QuietEnergy DEF EnergyType, Split, energyVars
<1> QED BY <1>1, <1>2, <1>3 DEF EnergyNext

LEMMA EnergyInitInv == EnergyInit => EnergyInv
<1> SUFFICES ASSUME EnergyInit PROVE EnergyInv
  OBVIOUS
<1>1. /\ rows = {} /\ count = EmptyCount /\ at = NoRow
      /\ kwh = EmptyCount /\ week = EmptyCount /\ weekend = EmptyCount /\ full = FALSE
  BY DEF EnergyInit, Init
<1>2. EmptyCount \in [Cells -> Nat] /\ \A c \in Cells : EmptyCount[c] = 0
  BY DEF EmptyCount
<1>3. at.level = "none"
  BY <1>1 DEF NoRow
<1>4. EnergyType /\ Split
  <2>1. \A c \in Cells : kwh[c] = 0 /\ week[c] = 0 /\ weekend[c] = 0
    BY <1>1, <1>2
  <2>2. EnergyType
    BY <1>1, <1>2 DEF EnergyType
  <2> QED BY <2>1, <2>2 DEF Split
<1>5. TariffInv
  <2>1. \A m \in Minutes : Cell("hour", m) \in Cells
    BY CellLevel DEF Levels
  <2> QED BY <1>1, <1>2, <1>3, <2>1 DEF TariffInv, Levels
<1>6. Nested(EmptyCount)
  <2> SUFFICES ASSUME NEW c \in Cells, c[1] # "hour"
               PROVE  0 <= Sum(EmptyCount, Parts(c))
    BY <1>2 DEF Nested, Sum
  <2>1. IsFiniteSet(Parts(c)) /\ \A x \in Parts(c) : EmptyCount[x] \in Nat
    BY <1>2, PartsAre
  <2>2. Sum(EmptyCount, Parts(c)) \in Nat
    BY <2>1, SumType
  <2> QED BY <2>2
<1>7. NestedInv
  BY <1>1, <1>3, <1>6 DEF NestedInv, Ahead, Coarse
<1>8. NearInv
  <2> SUFFICES ASSUME NEW c \in Cells
               PROVE  LET S == InCell(rows, c)
                      IN  /\ 1000 * kwh[c] + DueEnergy(c) <= Consumed(S) + 500 * count[c]
                          /\ 1000 * kwh[c] + 500 * count[c] + DueRounded(c)
                                >= Consumed(Fractional(S))
    BY DEF NearInv
  <2>1. Due(c) = 0
    BY <1>3 DEF Due, LevelsLeft
  <2>2. DueEnergy(c) = 0 /\ DueRounded(c) = 0
    BY <2>1 DEF DueEnergy, DueRounded
  <2>3. InCell(rows, c) = {} /\ Fractional({}) = {}
    BY <1>1 DEF InCell, Fractional
  <2>4. Consumed({}) = 0
    <3>1. Consumed({}) = Sum(Energies, {})
      BY DEF Consumed, Sum
    <3> QED BY <3>1, SumEmpty
  <2> QED BY <1>1, <1>2, <2>2, <2>3, <2>4
<1> QED BY <1>4, <1>5, <1>7, <1>8 DEF EnergyInv

\* The energy columns keep EnergyInv, over Ledger's own invariant.
THEOREM EnergyInductive == EnergySpec => [](IInv /\ EnergyInv)
<1>1. EnergyInit => EnergyInv
  BY EnergyInitInv
<1>2. IInv /\ EnergyInv /\ [EnergyNext]_allVars => EnergyInv'
  BY TypeSplitStep, TariffStep, NestedStep, NearStep DEF IInv, EnergyInv
<1> QED BY <1>1, <1>2, EnergyIsRecorded, Inductive, PTL DEF EnergySpec

\* All the energy of an hour is under the tariff of its date, whatever was
\* recorded before it and whichever tables refused it (db.c:207-210).
THEOREM TariffsAreSeparate == EnergySpec => []TariffsSeparate
<1>1. IInv /\ EnergyInv => TariffsSeparate
  BY DEF IInv, TypeOK, EnergyInv, TariffInv, TariffsSeparate
<1> QED BY <1>1, EnergyInductive, PTL

\* No row of a day, month or year exceeds its parts in any of the three
\* columns, and the tariffs add up to the total (db.c:212-230).
THEOREM TotalsAreNested == EnergySpec => []TotalsNested
<1>1. EnergyInv => TotalsNested
  BY DEF EnergyInv, NestedInv, Split, TotalsNested
<1> QED BY <1>1, EnergyInductive, PTL

\* A row shows the energy of its recorded minutes but for the roundings of
\* the trigger (sql_cmd.h:65-70).
THEOREM TotalsAreNear == EnergySpec => []TotalsNearConsumption
<1>1. IInv /\ EnergyInv => TotalsNearConsumption
  <2>1. SUFFICES ASSUME IInv, EnergyInv PROVE TotalsNearConsumption
    OBVIOUS
  <2>2. ASSUME NEW c \in Cells
        PROVE  {m \in InCell(rows, c) : ~Whole(MicroWh(Reading[m]))} = Fractional(InCell(rows, c))
    <3>1. \A m \in Minutes : Energies[m] = MicroWh(Reading[m])
      BY DEF Energies
    <3>2. InCell(rows, c) \subseteq Minutes
      BY <2>1 DEF InCell, IInv, TypeOK
    <3> QED BY <3>1, <3>2 DEF Fractional
  <2> SUFFICES ASSUME NEW c \in Cells
               PROVE  LET S == InCell(rows, c)
                      IN  /\ 1000 * kwh[c] <= Consumed(S) + 500 * count[c]
                          /\ count[c] = Cardinality(S) =>
                                1000 * kwh[c] + 500 * count[c] >= Consumed(Fractional(S))
    BY <2>2 DEF TotalsNearConsumption
  <2> DEFINE S == InCell(rows, c)
  <2>3. /\ 1000 * kwh[c] + DueEnergy(c) <= Consumed(S) + 500 * count[c]
        /\ count[c] + Due(c) = Cardinality(S) =>
              1000 * kwh[c] + 500 * count[c] + DueRounded(c) >= Consumed(Fractional(S))
    BY <2>1 DEF EnergyInv, NearInv
  <2>4. kwh[c] \in Nat /\ count[c] \in Nat /\ Consumed(S) \in Nat
        /\ count[c] + Due(c) <= Cardinality(S) /\ Due(c) \in {0, 1}
    <3>1. S \in SUBSET Minutes
      BY <2>1 DEF InCell, IInv, TypeOK
    <3> QED BY <2>1, <3>1, ConsumedType, DueType
            DEF IInv, TypeOK, EnergyInv, EnergyType, NeverOvercounts
  <2>5. DueEnergy(c) \in Nat
    <3>1. Due(c) = 1 => at.minute \in Minutes
      BY <2>1 DEF Due, LevelsLeft, IInv, TypeOK, NoRow
    <3> QED BY <3>1, Rounding DEF DueEnergy
  <2>6. Due(c) = 0 => DueRounded(c) = 0
    BY DEF DueRounded
  <2>7. Cardinality(S) \in Nat
    BY <2>1, InCellSize DEF IInv, TypeOK
  <2> HIDE DEF S
  <2>8. count[c] = Cardinality(S) => Due(c) = 0
    BY <2>4, <2>7
  <2> QED BY <2>3, <2>4, <2>5, <2>6, <2>8 DEF S
<1> QED BY <1>1, EnergyInductive, PTL
===============================================================================
