------------------------------ MODULE StatsProofs ------------------------------
(***************************************************************************)
(* Proof that the statistics stay nested: no row of a coarser table counts *)
(* more records than the rows of the finer table it covers, in whatever    *)
(* order update_stat_db is refused, retried, interrupted by a crash or     *)
(* interleaved with the import.                                            *)
(***************************************************************************)
EXTENDS Cm160Proofs, SumProofs

(***************************************************************************)
(* One statement of update_stat_db.                                        *)
(***************************************************************************)

Coarse == {"day", "month", "year"}

\* What StatsNested says of the committed tables, said of any content.
Nested(s) == \A c \in Cells : c[1] # "hour" => s.count[c] <= Sum(s.count, PartsOf(c))

\* The finer table is one record of minute m ahead.
Margin(s, l, m) == s.count[Cell(l, m)] + 1 <= Sum(s.count, PartsOf(Cell(l, m)))

LEMMA NestedCommitted == StatsNested <=> Nested(stat.disk)
BY DEF StatsNested, Nested, Sum

\* The rows of the finer table that a row covers.
LEMMA PartsAre ==
    ASSUME NEW c \in Cells, c[1] # "hour"
    PROVE  /\ c[1] \in Coarse
           /\ IsFiniteSet(PartsOf(c))
           /\ PartsOf(c) \subseteq Cells
           /\ \A x \in PartsOf(c) : x[1] = FinerThan(c[1]) /\ x[1] # c[1]
           /\ \A m \in Minutes : c = Cell(c[1], m) => Cell(FinerThan(c[1]), m) \in PartsOf(c)
<1>1. PICK l \in Levels, m \in Minutes : c = <<l, Period[l][m]>>
  BY DEF Cells, Cell
<1>2. c[1] = l /\ l \in Coarse
  BY <1>1 DEF Levels, Coarse
<1>3. FinerThan(l) \in Levels /\ FinerThan(l) # l
  BY <1>2 DEF FinerThan, Levels, Coarse
<1> DEFINE f == FinerThan(c[1])
<1>4. PartsOf(c) = {Cell(f, n) : n \in InCell(Minutes, c)}
  BY DEF PartsOf
<1>5. InCell(Minutes, c) \subseteq Minutes
  BY DEF InCell
<1>6. IsFiniteSet(PartsOf(c))
  <2>1. IsFiniteSet(InCell(Minutes, c))
    BY <1>5, CalendarAssumption, FS_Subset
  <2> DEFINE g == [n \in InCell(Minutes, c) |-> Cell(f, n)]
  <2>2. g \in Surjection(InCell(Minutes, c), PartsOf(c))
    BY <1>4 DEF Surjection
  <2> QED BY <2>1, <2>2, FS_Surjection
<1>7. \A x \in PartsOf(c) : x \in Cells /\ x[1] = f
  BY <1>2, <1>3, <1>4, <1>5 DEF Cells, Cell
<1>8. ASSUME NEW n \in Minutes, c = Cell(c[1], n) PROVE Cell(f, n) \in PartsOf(c)
  BY <1>4, <1>8 DEF InCell
<1> QED BY <1>2, <1>3, <1>6, <1>7, <1>8

\* Counting a minute in one table, when the finer one has counted it, keeps
\* the tables nested and leaves the next one a record behind.
LEMMA CountNested ==
    ASSUME NEW s \in Content, Nested(s), NEW l \in Levels, NEW m \in Minutes,
           l # "hour" => Margin(s, l, m)
    PROVE  LET c == [s EXCEPT !.count = CountedIn(s.count, l, m)]
           IN  Nested(c) /\ (l # "year" => Margin(c, NextLevel(l), m))
<1> DEFINE c == [s EXCEPT !.count = CountedIn(s.count, l, m)]
<1> DEFINE d == Cell(l, m)
<1>1. s.count \in [Cells -> Nat] /\ c \in Content
  BY CountedGrows DEF Content
<1>2. d \in Cells /\ d[1] = l
  BY DEF Cells, Cell
<1>3. \A x \in Cells : c.count[x] = IF x = d THEN s.count[x] + 1 ELSE s.count[x]
  BY <1>1, <1>2 DEF CountedIn, Content
<1> HIDE DEF c, d
<1>4. ASSUME NEW x \in Cells, x[1] # "hour"
      PROVE  /\ Sum(s.count, PartsOf(x)) \in Int
             /\ d \in PartsOf(x) => Sum(c.count, PartsOf(x)) = Sum(s.count, PartsOf(x)) + 1
             /\ d \notin PartsOf(x) => Sum(c.count, PartsOf(x)) = Sum(s.count, PartsOf(x))
  <2>1. IsFiniteSet(PartsOf(x)) /\ PartsOf(x) \subseteq Cells
    BY <1>4, PartsAre
  <2>2. \A y \in PartsOf(x) : s.count[y] \in Int
    BY <1>1, <2>1
  <2>3. Sum(s.count, PartsOf(x)) \in Int
    BY <2>1, <2>2, SumType
  <2>4. CASE d \in PartsOf(x)
    <3>1. \A y \in PartsOf(x) : c.count[y] = IF y = d THEN s.count[y] + 1 ELSE s.count[y]
      BY <1>3, <2>1
    <3>2. Sum(c.count, PartsOf(x)) = Sum(s.count, PartsOf(x)) + 1
      BY <2>1, <2>2, <2>4, <3>1, SumRaise
    <3> QED BY <2>3, <2>4, <3>2
  <2>5. CASE d \notin PartsOf(x)
    <3>1. \A y \in PartsOf(x) : c.count[y] = s.count[y]
      BY <1>3, <2>1, <2>5
    <3> QED BY <2>1, <2>3, <2>5, <3>1, SumSame
  <2> QED BY <2>4, <2>5
<1>5. ASSUME NEW x \in Cells, x[1] # "hour"
      PROVE  c.count[x] <= Sum(c.count, PartsOf(x))
  <2>1. s.count[x] <= Sum(s.count, PartsOf(x)) /\ s.count[x] \in Nat
    BY <1>1, <1>5 DEF Nested
  <2>2. CASE x = d
    <3>1. d \notin PartsOf(x)
      BY <1>5, <2>2, PartsAre
    <3>2. s.count[d] + 1 <= Sum(s.count, PartsOf(d))
      BY <1>2, <1>5, <2>2 DEF Margin, d
    <3> QED BY <1>3, <1>4, <1>5, <2>2, <3>1, <3>2
  <2>3. CASE x # d
    <3>1. c.count[x] = s.count[x]
      BY <1>3, <2>3
    <3> QED BY <1>4, <1>5, <2>1, <3>1
  <2> QED BY <2>2, <2>3
<1>6. ASSUME l # "year" PROVE Margin(c, NextLevel(l), m)
  <2> DEFINE n == NextLevel(l)
  <2> DEFINE x == Cell(n, m)
  <2>1. n \in Coarse /\ FinerThan(n) = l
    BY <1>6 DEF NextLevel, FinerThan, Levels, Coarse
  <2>2. x \in Cells /\ x[1] = n
    BY <2>1 DEF Cells, Cell, Levels, Coarse
  <2>3. x[1] # "hour" /\ x # d
    BY <1>2, <2>1, <2>2 DEF Coarse, FinerThan
  <2>4. d \in PartsOf(x)
    <3>1. Cell(FinerThan(x[1]), m) \in PartsOf(x)
      BY <2>2, <2>3, PartsAre
    <3> QED BY <2>1, <2>2, <3>1 DEF d
  <2> HIDE DEF x, n
  <2>5. c.count[x] = s.count[x] /\ s.count[x] \in Nat
    BY <1>1, <1>3, <2>2, <2>3
  <2>6. s.count[x] <= Sum(s.count, PartsOf(x))
    BY <2>2, <2>3 DEF Nested
  <2>7. c.count[x] + 1 <= Sum(c.count, PartsOf(x))
    BY <1>4, <2>2, <2>3, <2>4, <2>5, <2>6
  <2> QED BY <2>7 DEF Margin, x, n
<1> QED BY <1>5, <1>6 DEF Nested, c

(***************************************************************************)
(* What a statement that counts nothing leaves.  G is a set of contents    *)
(* that R does not lead out of.                                            *)
(***************************************************************************)

Stays(G, C, R) == \A a, b \in C : a \in G /\ <<a, b>> \in R => b \in G

\* Every content of the file that may be read or committed is in G.
Good(f, G) == f.disk \in G /\ f.work \in G

\* So is the one that p has, though not yet the one under it.
GoodFor(f, p, G) == f.work \in G /\ (f.owner # p => f.disk \in G)

LEMMA GoodWrite ==
    ASSUME NEW C, NEW X, NEW R, NEW f, FileInv(f, C, X, R), NEW M, NEW G, Stays(G, C, M),
           NEW p, NEW q \in Procs, NEW g, FileWrite(f, g, q, C, M)
    PROVE  /\ Good(f, G) => Good(g, G)
           /\ p \in Procs /\ GoodFor(f, p, G) => GoodFor(g, p, G)
<1> USE DbAssumption DEF FileInv, Files, Good, GoodFor
<1>1. CASE g \in {f, Sharing(f, q), Unsharing(f, q), Begun(f, q)}
  BY <1>1 DEF Sharing, Unsharing, Begun
<1>2. CASE g = AfterStatement(f, q)
  BY <1>2 DEF AfterStatement, Committed
<1>3. CASE g = Ended(f, q)
  BY <1>3 DEF Ended, Committed
<1>4. CASE g = EndRefused(f, q)
  BY <1>4 DEF EndRefused
<1>5. ASSUME Writable(f, q), NEW c \in C, <<Seen(f, q), c>> \in M,
             g \in {Written(f, q, c), AfterStatement(Written(f, q, c), q)}
      PROVE  /\ Good(f, G) => Good(g, G)
             /\ p \in Procs /\ GoodFor(f, p, G) => GoodFor(g, p, G)
  <2>1. Seen(f, q) \in C
    BY DEF Seen
  <2>2. Good(f, G) \/ (p \in Procs /\ GoodFor(f, p, G)) => Seen(f, q) \in G
    BY <1>5 DEF Seen, Writable
  <2>3. Good(f, G) \/ (p \in Procs /\ GoodFor(f, p, G)) => c \in G
    BY <1>5, <2>1, <2>2 DEF Stays
  <2> DEFINE w == Written(f, q, c)
  <2>4. w.disk = f.disk /\ w.work = c /\ w.owner = q /\ w \in Files(C, X)
    BY <1>5 DEF Written
  <2>5. /\ Good(f, G) => Good(w, G)
        /\ p \in Procs /\ GoodFor(f, p, G) => GoodFor(w, p, G)
    BY <1>5, <2>3, <2>4 DEF Writable
  <2>6. g \in {w, AfterStatement(w, q)}
    BY <1>5
  <2> HIDE DEF w
  <2> QED BY <2>4, <2>5, <2>6 DEF AfterStatement, Committed
<1> QED BY <1>1, <1>2, <1>3, <1>4, <1>5 DEF FileWrite

LEMMA GoodClosed ==
    ASSUME NEW C, NEW X, NEW R, NEW f, FileInv(f, C, X, R), NEW G, NEW p, NEW q \in Procs
    PROVE  /\ Good(f, G) => Good(Closed(f, q), G)
           /\ p # q /\ GoodFor(f, p, G) => GoodFor(Closed(f, q), p, G)
<1> DEFINE h == RolledBack(f, q)
<1>1. h \in Files(C, X) /\ h.disk = f.disk
  BY DbAssumption DEF FileInv, Files, RolledBack
<1>2. h.work = IF f.owner = q THEN f.disk ELSE f.work
  BY DEF FileInv, Files, RolledBack
<1>3. h.owner = IF f.owner = q THEN NoOwner ELSE f.owner
  BY DEF FileInv, Files, RolledBack
<1>4. Closed(f, q) = [h EXCEPT !.intx = @ \ {q}, !.shared = @ \ {q}]
  BY DEF Closed
<1> HIDE DEF h
<1>5. /\ Closed(f, q).disk = h.disk /\ Closed(f, q).work = h.work
      /\ Closed(f, q).owner = h.owner
  BY <1>1, <1>4 DEF Files
<1> QED BY <1>1, <1>2, <1>3, <1>5 DEF Good, GoodFor

(***************************************************************************)
(* The inductive invariant of the counts.                                  *)
(***************************************************************************)

\* A thread that counts does nothing else, and only that leads to the next
\* table.
LEMMA Counting ==
    ASSUME ThreadsInv, NEW t \in Threads, DbStep(t)
    PROVE  /\ at[t] \in Levels => CountStat(t)
           /\ at'[t] \in Coarse => CountStat(t)
           /\ at[t] \in Trigger => ~ CloseStat(t)
<1> USE DEF Levels, Coarse, Trigger
<1>1. at[t] \in Levels => CountStat(t)
  BY OpenAt, InsertAt, TransactionAt, TablesAre DEF DbStep, Open, Insert, Transaction, Close
<1>2. ASSUME at'[t] \in Coarse PROVE CountStat(t)
  <2>1. at[t] \in Trigger
    BY <1>2, IntoTrigger
  <2>2. CASE at[t] \in Levels
    BY <1>1, <2>2
  <2>3. CASE at[t] \in {"refused_stat", "commit"}
    <3>1. RefusedStat(t) \/ InsertEnds(t)
      BY <2>3, OpenAt, InsertAt, TransactionAt, TablesAre
         DEF DbStep, Open, Insert, Transaction, Close
    <3>2. at'[t] \in {"commit", "ret", "exec"}
      BY <3>1, GotoIs DEF RefusedStat, InsertEnds
    <3> QED BY <1>2, <3>2
  <2> QED BY <2>1, <2>2, <2>3
<1>3. at[t] \in Trigger => ~ CloseStat(t)
  BY TransactionAt
<1> QED BY <1>1, <1>2, <1>3

NestedContents == {s \in Content : Nested(s)}

Ahead(l, m) == {s \in Content : Margin(s, l, m)}

\* A thread that is about to count a minute in a coarser table has it counted
\* in the finer one, in what its process sees of the tables.
MarginInv ==
    \A t \in Threads : at[t] \in Coarse => GoodFor(stat, ProcOf[t], Ahead(at[t], arg[t]))

NestInv == MutexInv /\ Good(stat, NestedContents) /\ MarginInv

\* A thread closes the files of its process only while no other is counting.
ClosesAlone(t) ==
    at[t] \in Closing =>
        \A u \in Threads \ {t} : ProcOf[u] = ProcOf[t] => at[u] \notin Trigger

LEMMA MarksStay ==
    /\ Stays(NestedContents, Content, StatMarks)
    /\ \A l, m : Stays(Ahead(l, m), Content, StatMarks)
BY DEF Stays, NestedContents, Ahead, Nested, Margin, StatMarks

LEMMA CountStep ==
    ASSUME NEW X, StatInv(X), ThreadsInv, NestInv, NEW t \in Threads, CountStat(t)
    PROVE  /\ Good(stat', NestedContents)
           /\ at'[t] \in Coarse => GoodFor(stat', ProcOf[t], Ahead(at'[t], arg'[t]))
<1> DEFINE p == ProcOf[t]
<1> DEFINE s == Seen(stat, p)
<1> DEFINE l == at[t]
<1> DEFINE m == arg[t]
<1> DEFINE c == [s EXCEPT !.count = CountedIn(s.count, l, m)]
<1> DEFINE w == Written(stat, p, c)
<1>1. l \in Levels /\ m \in Minutes /\ s \in Content /\ p \in Procs
  BY SeenType, DbAssumption DEF CountStat, ThreadsInv, Inserting, Trigger, StatInv
<1>2. Nested(s)
  BY DEF NestInv, Good, NestedContents, Seen
<1>3. l # "hour" => Margin(s, l, m)
  BY <1>1 DEF NestInv, MarginInv, GoodFor, Ahead, Seen, Levels, Coarse
<1>4. /\ c \in Content /\ c \in NestedContents
      /\ l # "year" => c \in Ahead(NextLevel(l), m)
  BY <1>1, <1>2, <1>3, CountNested, CountedGrows DEF NestedContents, Ahead
<1>5. StatExec(t, TableOf[l], c, IF l = "year" THEN "commit" ELSE NextLevel(l),
               "commit", "refused_stat")
  BY DEF CountStat
<1> HIDE DEF c
<1>6. \/ /\ stat' = AfterStatement(w, p)
         /\ Goto(t, IF l = "year" THEN "commit" ELSE NextLevel(l))
      \/ /\ stat' \in {stat, Sharing(stat, p)}
         /\ Goto(t, "commit") \/ Goto(t, "refused_stat")
  BY <1>5 DEF StatExec
<1>7. CASE /\ stat' = AfterStatement(w, p)
           /\ Goto(t, IF l = "year" THEN "commit" ELSE NextLevel(l))
  <2>1. /\ w.disk = stat.disk /\ w.work = c /\ w.owner = p
        /\ w \in Files(Content, X)
    BY <1>1, <1>4 DEF Written, StatInv, FileInv, Files
  <2>2. /\ stat'.work = c
        /\ \/ stat'.owner = p /\ stat'.disk = stat.disk
           \/ stat'.disk = c
    <3> HIDE DEF w
    <3> QED BY <1>7, <2>1 DEF AfterStatement, Committed, Files
  <2>3. Good(stat', NestedContents)
    BY <1>4, <2>2 DEF NestInv, Good
  <2>4. l # "year" => GoodFor(stat', p, Ahead(NextLevel(l), m))
    BY <1>4, <2>2 DEF GoodFor
  <2>5. at'[t] \in Coarse => l # "year" /\ at'[t] = NextLevel(l) /\ arg'[t] = m
    BY <1>7, GotoIs DEF Coarse
  <2> QED BY <2>3, <2>4, <2>5
<1>8. CASE /\ stat' \in {stat, Sharing(stat, p)}
           /\ Goto(t, "commit") \/ Goto(t, "refused_stat")
  <2>1. at'[t] \notin Coarse
    BY <1>8, GotoIs DEF Coarse
  <2>2. stat'.disk = stat.disk /\ stat'.work = stat.work
    BY <1>8 DEF Sharing, StatInv, FileInv, Files
  <2> QED BY <2>1, <2>2 DEF NestInv, Good
<1> QED BY <1>6, <1>7, <1>8

\* What a step that is no count leaves of the tables.
LEMMA OtherStep ==
    ASSUME NEW X, StatInv(X), NEW t \in Threads, DbStep(t), ~CountStat(t),
           NEW G, Stays(G, Content, StatMarks)
    PROVE  /\ Good(stat, G) => Good(stat', G)
           /\ \A q \in Procs :
                 GoodFor(stat, q, G) /\ (CloseStat(t) => q # ProcOf[t]) => GoodFor(stat', q, G)
<1> DEFINE p == ProcOf[t]
<1>1. p \in Procs /\ FileInv(stat, Content, X, StatGrows)
  BY DbAssumption DEF StatInv
<1>2. CASE CloseStat(t)
  <2>1. stat' \in {stat, Closed(stat, p)}
    BY <1>2 DEF CloseStat
  <2>2. \A q \in Procs :
           /\ Good(stat, G) => Good(Closed(stat, p), G)
           /\ q # p /\ GoodFor(stat, q, G) => GoodFor(Closed(stat, p), q, G)
    BY <1>1, GoodClosed
  <2> QED BY <1>1, <1>2, <2>1, <2>2
<1>3. CASE ~CloseStat(t)
  <2>1. FileWrite(stat, stat', p, Content, StatMarks)
    BY <1>3, DbStepMarks
  <2>2. \A q \in Procs :
           /\ Good(stat, G) => Good(stat', G)
           /\ GoodFor(stat, q, G) => GoodFor(stat', q, G)
    BY <1>1, <2>1, GoodWrite
  <2> QED BY <1>1, <2>2
<1> QED BY <1>2, <1>3

LEMMA NestStep ==
    ASSUME NEW X, DbInv(X), NestInv, NEW t \in Threads, DbStep(t), ClosesAlone(t)
    PROVE  NestInv'
<1> USE DEF DbInv
<1>1. MutexInv'
  BY MutexStep DEF NestInv
<1>2. \A u \in Threads \ {t} : at'[u] = at[u] /\ arg'[u] = arg[u]
  BY DbStepThreads
<1>3. CASE CountStat(t)
  <2>1. ASSUME NEW u \in Threads, at'[u] \in Coarse PROVE u = t
    <3>1. at'[t] \in Trigger \/ at[t] \in Trigger
      BY <1>3 DEF CountStat, Trigger
    <3>2. u # t => at[u] \in Trigger /\ at[t] \notin Trigger
      BY <1>2, <2>1 DEF NestInv, MutexInv, Coarse, Trigger, Levels
    <3> QED BY <1>3, <3>2 DEF CountStat, Trigger
  <2> QED BY <1>1, <1>3, <2>1, CountStep DEF NestInv, MarginInv
<1>4. CASE ~CountStat(t)
  <2>1. Good(stat', NestedContents)
    BY <1>4, OtherStep, MarksStay DEF NestInv
  <2>2. ASSUME NEW u \in Threads, at'[u] \in Coarse
        PROVE  GoodFor(stat', ProcOf[u], Ahead(at'[u], arg'[u]))
    <3>1. u # t /\ at'[u] = at[u] /\ arg'[u] = arg[u]
      BY <1>2, <1>4, <2>2, Counting
    <3>2. GoodFor(stat, ProcOf[u], Ahead(at[u], arg[u])) /\ at[u] \in Trigger
      BY <2>2, <3>1 DEF NestInv, MarginInv, Coarse, Trigger, Levels
    <3>3. CloseStat(t) => ProcOf[u] # ProcOf[t]
      BY <3>1, <3>2, TransactionAt DEF ClosesAlone, Closing
    <3>4. ProcOf[u] \in Procs
      BY DbAssumption
    <3> HIDE DEF DbInv
    <3>5. GoodFor(stat', ProcOf[u], Ahead(at[u], arg[u]))
      BY <1>4, <3>2, <3>3, <3>4, OtherStep, MarksStay DEF DbInv
    <3> QED BY <3>1, <3>5
  <2> QED BY <1>1, <2>1, <2>2 DEF NestInv, MarginInv
<1> QED BY <1>3, <1>4

LEMMA NestDies ==
    ASSUME NEW X, DbInv(X), NestInv, NEW p \in Procs, DbDies(p)
    PROVE  NestInv'
<1>1. FileInv(stat, Content, X, StatGrows) /\ stat' = Closed(stat, p)
  BY DEF DbInv, StatInv, DbDies
<1>2. \A t \in Threads :
         IF ProcOf[t] = p THEN at'[t] = "ret" ELSE at'[t] = at[t] /\ arg'[t] = arg[t]
  BY DEF DbDies
<1>3. \A q \in Procs \ {p} : main.owner = q => main'.owner = q
  BY DEF DbInv, MainInv, FileInv, Files, DbDies, Closed, RolledBack
<1>4. MutexInv'
  BY <1>2, <1>3, DbAssumption DEF NestInv, MutexInv, Trigger, Levels
<1>5. Good(stat', NestedContents)
  BY <1>1, GoodClosed DEF NestInv
<1>6. ASSUME NEW t \in Threads, at'[t] \in Coarse
      PROVE  GoodFor(stat', ProcOf[t], Ahead(at'[t], arg'[t]))
  <2>1. ProcOf[t] # p /\ at'[t] = at[t] /\ arg'[t] = arg[t]
    BY <1>2, <1>6 DEF Coarse
  <2>2. GoodFor(stat, ProcOf[t], Ahead(at[t], arg[t]))
    BY <1>6, <2>1 DEF NestInv, MarginInv
  <2> QED BY <1>1, <2>1, <2>2, GoodClosed
<1> QED BY <1>4, <1>5, <1>6 DEF NestInv, MarginInv

\* No step of the installation breaks it, as long as a process that closes
\* its files does nothing else.
LEMMA NestDbAction ==
    ASSUME DbInv(Connections), NestInv, NEW T \in SUBSET Threads, DbAction(T),
           \A t \in T : ClosesAlone(t)
    PROVE  NestInv'
<1>1. ASSUME UNCHANGED <<main, at, arg>>, stat'.disk = stat.disk, stat'.work = stat.work,
             stat'.owner = stat.owner
      PROVE  NestInv'
  BY <1>1 DEF NestInv, MutexInv, MarginInv, Good, GoodFor
<1>2. CASE UNCHANGED dbVars
  BY <1>1, <1>2 DEF dbVars
<1>3. ASSUME NEW t \in T, DbStep(t) PROVE NestInv'
  BY <1>3, NestStep
<1>4. ASSUME NEW t \in T, NEW s \in Entries, NEW m, Call(t, s, m) PROVE NestInv'
  <2>1. UNCHANGED <<main, stat>>
    BY <1>4 DEF Call
  <2>2. \A u \in Threads : at'[u] \in Trigger => at'[u] = at[u] /\ arg'[u] = arg[u]
    BY <1>4 DEF Call, DbInv, ThreadsInv, Entries, Trigger, Levels
  <2> QED BY <2>1, <2>2 DEF NestInv, MutexInv, MarginInv, Trigger, Coarse, Levels
<1>5. ASSUME NEW t \in T, DbDies(ProcOf[t]) PROVE NestInv'
  BY <1>5, NestDies, DbAssumption
<1>6. ASSUME UNCHANGED <<main, stat, at, arg>> PROVE NestInv'
  BY <1>1, <1>6
<1>7. ASSUME NEW r \in Readers, stat' \in {Sharing(stat, r), Unsharing(stat, r)},
             UNCHANGED <<main, at, arg>>
      PROVE  NestInv'
  BY <1>1, <1>7 DEF Sharing, Unsharing, DbInv, StatInv, FileInv, Files
<1> QED BY <1>2, <1>3, <1>4, <1>5, <1>6, <1>7 DEF DbAction, DbActivity

LEMMA NestInit == ASSUME DbInit PROVE NestInv
<1>1. \A t \in Threads : at[t] \notin Trigger
  BY DEF DbInit, Trigger, Levels
<1>2. EmptyStat \in Content
  BY DEF EmptyStat, EmptyCount, Content
<1>3. Nested(EmptyStat)
  <2> SUFFICES ASSUME NEW c \in Cells, c[1] # "hour"
               PROVE  EmptyStat.count[c] <= Sum(EmptyStat.count, PartsOf(c))
    BY DEF Nested
  <2>1. IsFiniteSet(PartsOf(c)) /\ PartsOf(c) \subseteq Cells
    BY PartsAre
  <2>2. \A x \in Cells : EmptyStat.count[x] = 0
    BY DEF EmptyStat, EmptyCount
  <2>3. \A x \in PartsOf(c) : EmptyStat.count[x] \in Nat
    BY <2>1, <2>2
  <2>4. Sum(EmptyStat.count, PartsOf(c)) \in Nat
    BY <2>1, <2>3, SumType
  <2> QED BY <2>2, <2>4
<1>4. Good(stat, NestedContents)
  BY <1>2, <1>3 DEF DbInit, NewFile, Good, NestedContents
<1> QED BY <1>1, <1>4 DEF NestInv, MutexInv, MarginInv, Trigger, Coarse, Levels

LEMMA QuietAlone ==
    ASSUME QuietInv, NEW t \in DaemonThreads
    PROVE  ClosesAlone(t)
<1> SUFFICES ASSUME at[t] \in Closing, NEW u \in Threads \ {t}, ProcOf[u] = ProcOf[t]
             PROVE  at[u] \notin Trigger
  BY DEF ClosesAlone
<1>1. t = Main /\ pc = "closing"
  BY DEF QuietInv, DaemonThreads
<1>2. u \in Workers
  BY <1>1, DaemonAssumption
<1>3. wk[u].pc = "idle"
  BY <1>1, <1>2 DEF QuietInv, IdleWorkers, Away
<1> QED BY <1>2, <1>3 DEF QuietInv, Trigger, Levels

StatsInv == Inv /\ NestInv /\ QuietInv

LEMMA StatsInit == Init => StatsInv
<1> SUFFICES ASSUME Init PROVE StatsInv
  OBVIOUS
<1>1. QuietInv
  BY DaemonAssumption DEF Init, DbInit, QuietInv, Closing, IdleWorkers, IdleWorker
<1> QED BY <1>1, InvInit, NestInit DEF Init, StatsInv

LEMMA StatsStep ==
    ASSUME QuietFaults, StatsInv, [Next]_vars
    PROVE  StatsInv'
<1>1. Inv'
  BY InvStep DEF StatsInv
<1>2. QuietInv'
  BY QuietStep DEF StatsInv, Inv, DbInv
<1>3. DaemonThreads \in SUBSET Threads
  BY DaemonAssumption DEF DaemonThreads
<1>4. NestInv'
  BY <1>3, NextDbAction, NestDbAction, QuietAlone DEF StatsInv, Inv
<1> QED BY <1>1, <1>2, <1>4 DEF StatsInv

\* No row of the day, month or year table ever counts more records than the
\* rows of the finer table it covers, whatever is refused, retried, read by a
\* page or cut off by a crash (update_stat_db, db.c:194-233), unless the device
\* is unplugged while a history thread is at work.
THEOREM DaemonNests ==
    ASSUME QuietFaults
    PROVE  Spec => []StatsNested
<1>1. StatsInv /\ [Next]_vars => StatsInv'
  BY StatsStep
<1>2. StatsInv => StatsNested
  BY NestedCommitted DEF StatsInv, NestInv, Good, NestedContents
<1> QED BY StatsInit, <1>1, <1>2, PTL DEF Spec
===============================================================================
