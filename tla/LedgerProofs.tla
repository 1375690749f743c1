----------------------------- MODULE LedgerProofs -----------------------------
(***************************************************************************)
(* Proofs about Ledger for every set of minutes, every calendar that       *)
(* satisfies CalendarAssumption and either value of MayRefuse.             *)
(***************************************************************************)
EXTENDS Ledger, FiniteSetTheorems, TLAPS

(***************************************************************************)
(* Cells and the minutes in them.                                          *)
(***************************************************************************)

\* Cell(l, m) is a cell of level l, and the level of a cell is a level.
LEMMA CellLevel ==
    /\ \A l \in Levels, m \in Minutes : Cell(l, m) \in Cells /\ Cell(l, m)[1] = l
    /\ \A c \in Cells : c[1] \in Levels
BY DEF Cells, Cell

\* The recorded minutes of a cell are counted by a natural number, at most
\* the number of minutes the cell has.
LEMMA InCellSize ==
    ASSUME NEW S \in SUBSET Minutes, NEW c \in Cells
    PROVE  /\ IsFiniteSet(InCell(S, c))
           /\ Cardinality(InCell(S, c)) \in Nat
           /\ IsFiniteSet(InCell(Minutes, c))
           /\ Cardinality(InCell(Minutes, c)) \in Nat
           /\ Cardinality(InCell(S, c)) <= Cardinality(InCell(Minutes, c))
           /\ Cardinality(InCell(S, c)) = Cardinality(InCell(Minutes, c))
                => InCell(S, c) = InCell(Minutes, c)
<1>1. /\ IsFiniteSet(InCell(Minutes, c))
      /\ InCell(S, c) \in SUBSET InCell(Minutes, c)
  <2>1. InCell(Minutes, c) \in SUBSET Minutes
    BY DEF InCell
  <2>2. IsFiniteSet(Minutes)
    BY CalendarAssumption
  <2>3. IsFiniteSet(InCell(Minutes, c))
    BY <2>1, <2>2, FS_Subset
  <2>4. InCell(S, c) \in SUBSET InCell(Minutes, c)
    BY DEF InCell
  <2> QED BY <2>3, <2>4
<1>2. QED
  BY <1>1, FS_Subset, FS_CardinalityType

\* One more minute adds one to the cells it falls in and nothing elsewhere.
LEMMA InCellAdd ==
    ASSUME NEW S \in SUBSET Minutes, NEW m \in Minutes, m \notin S, NEW c \in Cells
    PROVE  Cardinality(InCell(S \cup {m}, c))
             = Cardinality(InCell(S, c)) + IF Cell(c[1], m) = c THEN 1 ELSE 0
<1>1. IsFiniteSet(InCell(S, c)) /\ Cardinality(InCell(S, c)) \in Nat
  BY InCellSize
<1>2. CASE Cell(c[1], m) = c
  <2>1. InCell(S \cup {m}, c) = InCell(S, c) \cup {m}
    BY <1>2 DEF InCell
  <2>2. m \notin InCell(S, c)
    BY DEF InCell
  <2> QED BY <1>1, <1>2, <2>1, <2>2, FS_AddElement
<1>3. CASE Cell(c[1], m) # c
  <2>1. InCell(S \cup {m}, c) = InCell(S, c)
    BY <1>3 DEF InCell
  <2> QED BY <1>1, <1>3, <2>1
<1> QED BY <1>2, <1>3

(***************************************************************************)
(* Type correctness.                                                       *)
(***************************************************************************)

\* The empty tables have their shape.
LEMMA TypeInit == Init => TypeOK
BY DEF Init, TypeOK, EmptyCount

\* Every statement of db.c keeps the shape of the tables.
LEMMA TypeStep ==
    ASSUME TypeOK, [Next]_vars
    PROVE  TypeOK'
<1> USE DEF TypeOK
<1>1. ASSUME NEW m \in Minutes, InsertRow(m) PROVE TypeOK'
  BY <1>1 DEF InsertRow, Row, Levels
<1>2. ASSUME NEW l \in Levels, CountRow(l) PROVE TypeOK'
  <2>1. at.minute \in rows /\ at.level \in Levels
    BY <1>2, CellLevel DEF CountRow, NoRow, Levels
  <2>2. NextLevel(l) \in Levels \cup {"done"}
    BY DEF NextLevel, Levels
  <2>3. count' \in [Cells -> Nat]
    <3>1. Cell(l, at.minute) \in Cells
      BY <2>1, CellLevel
    <3> QED BY <1>2, <3>1 DEF CountRow, CountedIn
  <2> QED BY <1>2, <2>1, <2>2, <2>3 DEF CountRow, Row
<1>3. CASE RefuseRow
  <2>1. at.minute \in rows
    BY <1>3 DEF RefuseRow, NoRow, Levels
  <2> QED BY <1>3, <2>1 DEF RefuseRow, Row
<1>4. CASE FinishRow
  BY <1>4 DEF FinishRow
<1>5. ASSUME NEW l \in StatusLevels, Mark(l) PROVE TypeOK'
  BY <1>5 DEF Mark, MarkedIn, Matching
<1>6. CASE UNCHANGED vars
  BY <1>6 DEF vars
<1> QED BY <1>1, <1>2, <1>3, <1>4, <1>5, <1>6 DEF Next

\* The tables keep their shape: the rows are minutes of the device, every
\* count is a natural number and only hours and days are ever marked.
THEOREM TypeCorrect == Spec => []TypeOK
<1>1. TypeOK /\ [Next]_vars => TypeOK'
  BY TypeStep
<1> QED BY TypeInit, <1>1, PTL DEF Spec

(***************************************************************************)
(* The inductive invariant.  NeverOvercounts alone is inductive with       *)
(* TypeOK because Due already counts the row under the trigger, whose      *)
(* tables it still has to visit; BlueIsComplete needs it, since a row is   *)
(* marked for its count alone.                                             *)
(***************************************************************************)

IInv == TypeOK /\ NeverOvercounts /\ BlueIsComplete

\* What a cell has counted and what it is still to count, together.
Accounted(c) == count[c] + Due(c)

\* A cell waits for at most one row, the one under the trigger.
LEMMA DueType == \A c : Due(c) \in {0, 1} /\ Due(c)' \in {0, 1}
BY DEF Due

\* A statement of the trigger turns a due row into a counted one.
LEMMA CountRowAccounts ==
    ASSUME TypeOK, NEW l \in Levels, CountRow(l), NEW c \in Cells
    PROVE  Accounted(c)' = Accounted(c)
<1>1. /\ at.minute \in Minutes
      /\ at.level = l
      /\ at' = Row(at.minute, NextLevel(l))
  BY CellLevel DEF TypeOK, CountRow, NoRow, Levels
<1>2. at'.minute = at.minute /\ at'.level = NextLevel(l)
  BY <1>1 DEF Row
<1>3. /\ Cell(l, at.minute) \in Cells
      /\ Cell(l, at.minute)[1] = l
      /\ c[1] \in Levels
  BY <1>1, CellLevel
<1>4. count' = [count EXCEPT ![Cell(l, at.minute)] = @ + 1]
  BY DEF CountRow, CountedIn
<1>5. count[c] \in Nat /\ count \in [Cells -> Nat]
  BY DEF TypeOK
<1>6. LevelsLeft(l) = LevelsLeft(NextLevel(l)) \cup {l} /\ l \notin LevelsLeft(NextLevel(l))
  BY DEF Levels, LevelsLeft, NextLevel
<1>7. CASE c = Cell(l, at.minute)
  <2>1. c[1] = l /\ count'[c] = count[c] + 1
    BY <1>3, <1>4, <1>5, <1>7
  <2>2. Due(c) = 1
    BY <1>1, <1>6, <1>7, <2>1 DEF Due
  <2>3. Due(c)' = 0
    BY <1>2, <1>6, <2>1 DEF Due
  <2> QED BY <1>5, <2>1, <2>2, <2>3 DEF Accounted
<1>8. CASE c # Cell(l, at.minute)
  <2>1. count'[c] = count[c]
    BY <1>4, <1>5, <1>8
  <2>2. Due(c)' = Due(c)
    <3>1. CASE c[1] = l
      BY <1>1, <1>2, <1>6, <1>8, <3>1 DEF Due, Cell
    <3>2. CASE c[1] # l
      BY <1>1, <1>2, <1>6, <3>2 DEF Due, Cell
    <3> QED BY <3>1, <3>2
  <2> QED BY <2>1, <2>2 DEF Accounted
<1> QED BY <1>7, <1>8

\* A new row becomes due in each of its four cells and nowhere else.
LEMMA InsertRowAccounts ==
    ASSUME TypeOK, NEW m \in Minutes, InsertRow(m), NEW c \in Cells
    PROVE  /\ Due(c) = 0
           /\ count'[c] = count[c]
           /\ Due(c)' = IF Cell(c[1], m) = c THEN 1 ELSE 0
           /\ Cardinality(InCell(rows', c))
                = Cardinality(InCell(rows, c)) + Due(c)'
<1>1. Due(c) = 0 /\ count'[c] = count[c]
  BY DEF InsertRow, NoRow, Due, LevelsLeft
<1>2. Due(c)' = IF Cell(c[1], m) = c THEN 1 ELSE 0
  <2>1. at'.minute = m /\ at'.level = "hour"
    BY DEF InsertRow, Row
  <2>2. c[1] \in LevelsLeft("hour")
    BY CellLevel DEF Levels, LevelsLeft
  <2> QED BY <2>1, <2>2 DEF Due, Cell
<1>3. /\ rows' = rows \cup {m}
      /\ m \notin rows
      /\ rows \in SUBSET Minutes
  BY DEF InsertRow, TypeOK
<1>4. Cardinality(InCell(rows', c)) = Cardinality(InCell(rows, c)) + Due(c)'
  BY <1>2, <1>3, InCellAdd
<1> QED BY <1>1, <1>2, <1>4

\* Leaving the trigger makes nothing due.
LEMMA LeaveTrigger ==
    ASSUME NEW c, at'.level \in {"done", "none"}
    PROVE  Due(c)' = 0
BY DEF Due, LevelsLeft

\* No statement makes a cell count more minutes than the history has: an
\* insert adds one minute and one due count, a statement of the trigger makes
\* a due count an actual one, a refusal gives due counts up.
LEMMA NeverOvercountsStep ==
    ASSUME TypeOK, NeverOvercounts, [Next]_vars
    PROVE  NeverOvercounts'
<1> SUFFICES ASSUME NEW c \in Cells
             PROVE  Accounted(c)' <= Cardinality(InCell(rows', c))
  BY DEF NeverOvercounts, Accounted, InCell, Cell, Cells
<1>1. /\ Accounted(c) <= Cardinality(InCell(rows, c))
      /\ count[c] \in Nat
      /\ Cardinality(InCell(rows, c)) \in Nat
  BY InCellSize DEF NeverOvercounts, Accounted, TypeOK
<1>2. ASSUME NEW m \in Minutes, InsertRow(m)
      PROVE  Accounted(c)' <= Cardinality(InCell(rows', c))
  BY <1>1, <1>2, InsertRowAccounts, DueType DEF Accounted
<1>3. ASSUME NEW l \in Levels, CountRow(l)
      PROVE  Accounted(c)' <= Cardinality(InCell(rows', c))
  <2>1. rows' = rows
    BY <1>3 DEF CountRow
  <2> QED BY <1>1, <1>3, <2>1, CountRowAccounts
<1>4. CASE RefuseRow
  <2>1. Due(c)' = 0
    BY <1>4, LeaveTrigger DEF RefuseRow, Row
  <2> QED BY <1>1, <1>4, <2>1, DueType DEF RefuseRow, Accounted
<1>5. CASE FinishRow
  <2>1. Due(c)' = 0
    BY <1>5, LeaveTrigger DEF FinishRow, NoRow
  <2> QED BY <1>1, <1>5, <2>1, DueType DEF FinishRow, Accounted
<1>6. ASSUME UNCHANGED <<rows, count, at>>
      PROVE  Accounted(c)' <= Cardinality(InCell(rows', c))
  BY <1>1, <1>6 DEF Accounted, Due
<1> QED BY <1>2, <1>3, <1>4, <1>5, <1>6 DEF Next, Mark, vars

\* A row is marked when its count is the size of its hour or day; the count
\* is at most the number of recorded minutes, so all of them are recorded.
LEMMA BlueIsCompleteStep ==
    ASSUME TypeOK, NeverOvercounts, BlueIsComplete, [Next]_vars
    PROVE  BlueIsComplete'
<1> SUFFICES ASSUME NEW c \in complete'
             PROVE  InCell(Minutes, c) \subseteq rows'
  BY DEF BlueIsComplete, InCell, Cell
<1>1. rows \subseteq rows'
  BY DEF Next, vars, InsertRow, CountRow, RefuseRow, FinishRow, Mark
<1>2. CASE c \in complete
  BY <1>1, <1>2 DEF BlueIsComplete
<1>3. CASE c \notin complete
  <2>1. PICK l \in StatusLevels : Mark(l)
    BY <1>3 DEF Next, vars, InsertRow, CountRow, RefuseRow, FinishRow
  <2>2. c \in Cells /\ c[1] = l /\ count[c] = Full(l)
    BY <1>3, <2>1 DEF Mark, MarkedIn, Matching
  <2>3. PICK m \in Minutes : c = Cell(l, m)
    BY <2>2 DEF Cells, Cell
  <2>4. Cardinality(InCell(Minutes, c)) <= Full(l)
    BY <2>3, CalendarAssumption
  <2>5. count[c] + Due(c) <= Cardinality(InCell(rows, c))
    BY <2>2 DEF NeverOvercounts
  <2>6. count[c] \in Nat
    BY <2>2 DEF TypeOK
  <2>7. rows \in SUBSET Minutes
    BY DEF TypeOK
  <2>8. Cardinality(InCell(rows, c)) = Cardinality(InCell(Minutes, c))
    BY <2>2, <2>4, <2>5, <2>6, <2>7, InCellSize, DueType
  <2>9. InCell(rows, c) = InCell(Minutes, c)
    BY <2>2, <2>7, <2>8, InCellSize
  <2> QED BY <1>1, <2>9 DEF InCell
<1> QED BY <1>2, <1>3

\* The empty tables satisfy the inductive invariant.
LEMMA InvInit == Init => IInv
<1> SUFFICES ASSUME Init PROVE IInv
  OBVIOUS
<1>1. TypeOK
  BY TypeInit
<1>2. NeverOvercounts
  <2> SUFFICES ASSUME NEW c \in Cells
               PROVE  count[c] + Due(c) <= Cardinality(InCell(rows, c))
    BY DEF NeverOvercounts
  <2>1. count[c] = 0 /\ Due(c) = 0
    BY DEF Init, EmptyCount, Due, LevelsLeft, NoRow
  <2>2. Cardinality(InCell(rows, c)) \in Nat
    BY <1>1, InCellSize DEF TypeOK
  <2> QED BY <2>1, <2>2
<1>3. BlueIsComplete
  BY DEF Init, BlueIsComplete
<1> QED BY <1>1, <1>2, <1>3 DEF IInv

\* The inductive invariant holds of every behaviour of db.c as one connection
\* sees it (db_insert_hist, update_stat_db, db_update_status).
THEOREM Inductive == Spec => []IInv
<1>1. TypeOK /\ [Next]_vars => TypeOK'
  BY TypeStep
<1>2. IInv /\ [Next]_vars => IInv'
  BY <1>1, NeverOvercountsStep, BlueIsCompleteStep DEF IInv
<1> QED BY InvInit, <1>2, PTL DEF Spec

\* No minute is ever counted twice, and no cell counts more minutes than
\* the history has for it (the trigger and update_stat_db, db.c:180-233).
THEOREM CountsAreSound == Spec => []NeverOvercounts
<1>1. IInv => NeverOvercounts
  BY DEF IInv
<1> QED BY Inductive, <1>1, PTL

\* The status that the calendar shows in blue is only set on hours and days
\* whose every minute is in the history (db_update_status, db.c:235-257).
THEOREM BlueIsSound == Spec => []BlueIsComplete
<1>1. IInv => BlueIsComplete
  BY DEF IInv
<1> QED BY Inductive, <1>1, PTL

\* When no statistics statement is refused, every recorded minute is counted
\* exactly once in each table (db_insert_hist and its trigger).
THEOREM CountsAreExact == Spec => []CountsExact
<1>1. Init => CountsExact
  <2> SUFFICES ASSUME Init, NEW c \in Cells
               PROVE  count[c] + Due(c) = Cardinality(InCell(rows, c))
    BY DEF CountsExact
  <2>1. count[c] = 0 /\ Due(c) = 0
    BY DEF Init, EmptyCount, Due, LevelsLeft, NoRow
  <2>2. InCell(rows, c) = {}
    BY DEF Init, InCell
  <2> QED BY <2>1, <2>2, FS_EmptySet
<1>2. TypeOK /\ CountsExact /\ [Next]_vars => CountsExact'
  <2> SUFFICES ASSUME TypeOK, CountsExact, [Next]_vars, ~MayRefuse, NEW c \in Cells
               PROVE  Accounted(c)' = Cardinality(InCell(rows', c))
    BY DEF CountsExact, Accounted, InCell, Cell, Cells
  <2>1. /\ Accounted(c) = Cardinality(InCell(rows, c))
        /\ count[c] \in Nat
        /\ Cardinality(InCell(rows, c)) \in Nat
    BY InCellSize DEF CountsExact, Accounted, TypeOK
  <2>2. ASSUME NEW m \in Minutes, InsertRow(m)
        PROVE  Accounted(c)' = Cardinality(InCell(rows', c))
    BY <2>1, <2>2, InsertRowAccounts, DueType DEF Accounted
  <2>3. ASSUME NEW l \in Levels, CountRow(l)
        PROVE  Accounted(c)' = Cardinality(InCell(rows', c))
    <3>1. rows' = rows
      BY <2>3 DEF CountRow
    <3> QED BY <2>1, <2>3, <3>1, CountRowAccounts
  <2>4. CASE FinishRow
    <3>1. Due(c) = 0 /\ Due(c)' = 0
      BY <2>4 DEF FinishRow, NoRow, Due, LevelsLeft
    <3> QED BY <2>1, <2>4, <3>1 DEF FinishRow, Accounted
  <2>5. ASSUME UNCHANGED <<rows, count, at>>
        PROVE  Accounted(c)' = Cardinality(InCell(rows', c))
    BY <2>1, <2>5 DEF Accounted, Due
  <2> QED BY <2>2, <2>3, <2>4, <2>5 DEF Next, RefuseRow, Mark, vars
<1> QED BY <1>1, <1>2, TypeCorrect, PTL DEF Spec
===============================================================================
