# Verification of eagle-owl in TLA+

eagle-owl downloads the minute records of an OWL CM160 energy monitor, stores
them in `eagleowl.db` and keeps sums per hour, day, month and year in
`eagleowl_stat.db`, which web pages read; a live page shows the current power.
This directory holds TLA+ modules that model how the records and the power get
there, TLC configurations that check the models on small instances, and TLAPS
proofs, for every value of the constants, of the safety properties that the
configurations check. Every definition is translated from the source;
`PROJECT.json` maps each to its lines.

Paths below are those of the repository (`src/db.c` is the library of both
executables).

## 1. The system

| component | state | operations | talks to |
|---|---|---|---|
| `src/db.c` recording library | static pointers `db`, `stat_db`; the transactions of those connections | `db_open` (creates what is missing), `db_close`, `db_begin_transaction`, `db_end_transaction`, `db_insert_hist` (retry loop; its trigger calls `update_stat_db`), `db_update_status` | the two files, through SQLite |
| `src/sql_cmd.h` schema | `energy_history`, four `energy_*_stat` tables, trigger `updatestat_cb` | `CREATE TABLE`s and trigger, `INSERT OR IGNORE` of a minute, `INSERT OR REPLACE` of the four sums, `SQL_EXEC` (return at the first error) | run by `db.c` |
| SQLite 3.7.13 (vendored) | SHARED / RESERVED / PENDING locks, page cache of a connection | autocommit, BEGIN / END, rollback on close | files shared between processes |
| `src/cm160.c` daemon | `history[]`, `frame_id`, `receive_history`, a static `last_valid_month` per function (that of `insert_db_history` is one for all its threads), `_watts`, the file `.live` | `main` (open, wait for the device, session, close), `process_frame`, `process_live_data`, `insert_db_history` in a thread of its own | `db.c` from two threads at least; the device; `.live` |
| `src/db_import.c` command | the rows of the SELECT on the imported file | validate, one transaction over all rows, close | `db.c`, beside the daemon |
| `www/index.php`, `www/listValidDays.php` | none | open both files, SELECTs on `eagleowl_stat.db` | create a missing file empty; hold SHARED while they fetch |
| `www/live.php`, `live_data.php` | the plotted points | asynchronous requests for `.live` | the daemon's file |
| `etc/init/cm160.conf` | none | respawns the daemon | |
| `usb_utils.c`, `demonize.c` | device table | libusb and fork wrappers | |

What makes it hard:

* *Two files, no common commit.* A record is committed in one file and counted in
  another; SQLite makes each atomic, nothing makes them agree. The autocommitted
  insert commits the four counts before the row, the transaction commits the rows
  before the counts.
* *Locks without patience.* No busy handler is set. `db_insert_hist` retries
  SQLITE_BUSY for ever; every other call gives up at the first refusal, and most
  callers ignore the result. In particular an END that is refused stays open.
* *Shared statics.* History threads, never joined, use the connections that the main
  thread closes and reopens when the device is unplugged, the buffer that the next
  session refills, and one static month for all of them.
* *Restarts and resends.* The device sends its whole memory at each connection,
  the supervisor respawns a dead daemon: everything must be idempotent.
* *Files that appear.* `db_open` creates the tables only when the file is missing,
  one statement at a time; a page or a crash in between leaves a file that exists
  and is incomplete.
* *Strange frames.* The device sends months above 12 and dates of 255; what the code
  puts in their place depends on the frames before, of this session or of others.
* *A page without order.* Requests of the live page have no number and no time limit:
  replies come late, in another order, empty or never.

What correctness means, component by component: a minute recorded once is never
lost and never counted twice (`db.c`); coarse tables never exceed fine ones; a row
marked complete (blue in the calendar) is complete; every call returns; every
stored minute is recorded in the end, under its true month, and the time in `.live`
never goes back (`cm160.c`); energies are those of the recorded minutes, under the
right tariff (`db.c`); a database is imported all at once or not at all, and the
import ends (`db_import.c`); pages are served; the live page stays
bounded and ends up showing the last power. `PROJECT.json` lists the hazards at
their lines.

## 2. The modules

```
StatTables        keys, counts and status of the statistics rows (operators)
  Ledger          what one connection is promised: rows, counts, status
    LedgerProofs  theorems about Ledger
    Energy        Ledger with the energy columns, the tariffs and the calendar
      MCEnergy
      EnergyProofs    theorems about Energy, over LedgerProofs and SumProofs
SqliteFile        one database file: locks, transactions, commits (operators)
  Db              db.c, statement by statement, over two SqliteFiles
                  (EXTENDS StatTables, SqliteFile)
    DbProofs      lemmas about a file and about every statement of db.c
    Cm160         the daemon, its device, its pages; implements Ledger
      MCCm160
      Cm160Proofs     theorems about Cm160, over DbProofs; cites those of LedgerProofs
        StatsProofs   the nesting of the statistics, over SumProofs
    DbImport      db_import
    EagleOwl      Cm160 and DbImport on the same files
      MCEagleOwl
      EagleOwlProofs  theorems about EagleOwl, over StatsProofs
Frames            what cm160.c makes of the content of frames; the .live file
  LiveGraph       the live page, over Frames
    MCLive
    LiveProofs    theorems about Frames and LiveGraph
SumProofs         lemmas: least elements, sums over finite sets
```

**StatTables.** A cell `<<level, period>>` is the key of a row of one statistics
table; `Period` gives the hour, day, month and year of a minute. `CountedIn` is one
`UPDATE_STAT_*` statement, `Matching` and `MarkedIn` the `status = 1` updates.
`CalendarAssumption` says that the device knows finitely many minutes and that an
hour or a day has at most `HourFull` or `DayFull` of them (60 and 24*60).

**Ledger** is the abstract specification: `InsertRow` is the `INSERT OR IGNORE` that
fires the trigger, `CountRow(l)` each of its statements, `RefuseRow` the
`return` of `SQL_EXEC` on SQLITE_BUSY, `Mark` each statement of `db_update_status`.

**Energy** adds to Ledger's steps the three energy columns. `MicroWh` is the reading
decoded and printed with six decimals into the INT column, which stores a whole
number as an integer; `KwhOf` is its division by 1000 in the trigger, of integers
in that case; `Tariffs` is the test of `update_stat_db` with `DayOfWeek`, and for
month 0, where `t[-1]` is read, either outcome. Energies are integers of 10^-6 and
10^-3 watt-hours, so that every rounding of the code is exact in the model.

**SqliteFile** is a file as a record: committed content, the writer's view, and who
holds SHARED, RESERVED, PENDING or an open transaction. The end of a write transaction
is refused while another connection holds SHARED, *whether or not it has changed a
page*: `vdbeCommit` asks EXCLUSIVE for every file that a write statement has opened for
writing, an `INSERT OR IGNORE` of a known minute and an UPDATE that matches no row
included. A refused autocommit is rolled back; a refused END leaves the transaction
open, and PENDING keeps new readers out (`sqlite3VdbeHalt`, `unixLock`).

**Db** runs `db.c` for any set of processes and threads. `at[t]` is the statement a
thread is about to run, so that every `sqlite3_exec` and every access to `db` or
`stat_db` that another thread can change is a step. Threads of a process share its
connections, and the connection's mutex is held from the INSERT to its commit.
A refused statement holds SHARED for one step (`refused_stat`, `refused_main`): that is
what can make another process's COMMIT fail. `made` is the set of files, tables and
trigger that exist; with `Fresh` there is none at the start.

| action | code |
|---|---|
| `OpenCheckMain` ... `OpenDone` | `db_open`, `create_main_db`, `create_stat_db`, one step per `CREATE` |
| `InsertCheck`, `InsertExec`, `InsertRetry`, `InsertFails`, `InsertEnds` | `db_insert_hist` and its loop |
| `CountStat`, `RefusedStat` | `update_stat_db` |
| `MarkStat` | `db_update_status` |
| `BeginMain` ... `EndStat` | `db_begin_transaction`, `db_end_transaction` |
| `CloseMain`, `CloseStat`, `CloseReset` | `db_close` |
| `DbDies` | the process ends and its locks go |

**Cm160.** `pc` is the place of the main thread, `wk[w]` that of a history thread
with its `num_elems` and `i`. `BufferFrame`, `InsertFrame`/`UpdateStatus`/`FrameDone`
and `FirstLive` are the three branches of `process_frame`; `WorkerBegin` to
`WorkerExit` are `insert_db_history`. `Disconnect` is the failing `bulk_read`,
`Crash` any end of the process followed by its respawn. The device holds the last
`Memory` minutes and sends them at each connection; `DamagedFrame` is one that the
checksum rejects. `history` keeps what earlier sessions wrote, and `WorkerInsertTorn`
is a history thread that decodes a slot while the next session overwrites it.
`PageOpens` is a page that opens the files, `StartReading` its SELECT. `Misuses` says that a
closed or null pointer is about to reach SQLite; the behaviour is undefined there
(`SQL_EXEC` then reads an uninitialised message), so the call fails or the process
ends (`MisuseCrash`). `Recorded == INSTANCE Ledger` maps what the daemon's
connections *see* (uncommitted work included) to `Ledger`.

**DbImport** is one run of the command on a file given by its tables: `ValidImport` is
`validate_imported_db` with its limit on the names it reads, `RefuseImport` what
`main` does without it, `ImportFails` a SELECT that fails half way, `ImportMisuseCrash` the
end of the command on a null connection, which a refused CREATE TRIGGER leaves behind.
**EagleOwl** interleaves it with the daemon.

**Frames** follows the content of the frames, for a device that holds the last `Memory`
minutes and sends them again at each connection. `BufferFrame`, `InsertFrame` and `LiveFrame`
are the branches of `process_frame`; `ValidMonth` is the substitution of a month above 12,
with one static variable in `process_frame` (`last_valid_month`) and one in
`insert_db_history` (`worker_month`). The latter is shared by the history threads:
`WorkerInsert` is one turn of the loop of one of them, so that the threads of successive
sessions, which overlap when a session starts before the last thread has ended, mix the
months they keep; `WorkerInsertTorn` decodes a slot that the next session is overwriting
(`Mixes`). `overlapped` is a history variable: the session began while an earlier thread
was still inserting. `OpenLive` and `CloseLive` are `process_live_data` up to and from
`fclose`, between which the file is empty; `Restart` loses the statics and, in between, the
content.

**LiveGraph** is the script of `live.php`: `Poll` is `getData` (a point leaves, a request
goes), `Serve` is `live_data.php`, `Receive` is `onNewData`, which an empty reply ends by
an exception before the point is added, `Lose` a request that fails.

## 3. The runs

| run | instance | what it shows |
|---|---|---|
| `energy` | 5 minutes, 4 hours, 3 days (a friday, a saturday, a date of month 0), refusals allowed | `NeverOvercounts`, `BlueIsComplete`; `TariffsSeparate`, `TotalsNested`, `TotalsNearConsumption` |
| `steady` | daemon alone, no file yet, 4 minutes of which the device holds 3, buffer of 2, two history threads, one quiet reconnection | the daemon implements `Ledger` without refusals (`LedgerSpec`) and counts exactly (`CountedAtRest`); `FilesComplete`, `AllRecorded`, `AllCounted`, `AllBlue`; `NoMisuse` |
| `web` | one page reading at any time, 4 minutes | `LedgerSpec` with refusals, `StatsNested`, `BlueDayIsComplete`, `AllRecorded` |
| `crash` | no file yet, a page, one crash anywhere, a damaged frame, 3 minutes | `CommittedStays`, `StatsNested`, `AllRecordedOnceCreated` |
| `reconnect` | one disconnection anywhere, two history threads, 3 minutes of which the device holds 1, buffer of 1 (torn slots) | `CommittedStays`, `CallsReturn` |
| `import` | no file yet, daemon and import of two minutes, which the device also holds; a valid, an oversized and an incomplete file; one refused autocommit | `ImportAtomic`, `StatsNested`, `CommittedStays`, `CallsReturn` |
| `live` | 3 minutes of 2 months, one of them strange, of which the device holds 2, buffer of 2, two history threads, one disconnection or restart, two powers, graph of 2 points, 2 requests under way | `MonthRight`, `TimeNeverGoesBack`, `PointsBounded`, `ShowsTheLast` |
| `web_undercount` | a page, a minute that the main thread inserts | violates `CountedAtRest` |
| `web_lockout` | a page | violates `PagesServed` |
| `crash_blue` | one crash, no page | violates `BlueDayIsComplete` |
| `import_livelock` | daemon and import | violates `ImportCompletes` |
| `first_start` | no file yet, a page | violates `FilesComplete` |

`MCEnergy` also compares `get_day_of_week` with a count of days from 1 January 2000, for
every date of the years 2000 to 2255 that a frame can carry (an ASSUME, evaluated by
the run; `EnergyProofs` proves it).

What the five violations say of the code, each against a sentence of the repository:

* **web_undercount** (`sql_cmd.h:74`, "record_count: number of minutes records that have
  been used to compute the stat"). A page holds SHARED while a statement of
  `update_stat_db` autocommits: the statement is refused, the function returns, the
  row stays recorded and is never counted, since the resent minute is ignored. The run
  finds it in a minute that the main thread inserts before the history thread has begun
  its transaction, inside of which no such statement can be refused. `CountedAtRest`
  asks for the exact counts only while the daemon has no transaction open, so that an
  END that is refused, which is the subject of `web_lockout`, does not violate it.
* **web_lockout** (`README`, "The data is accessible via a web interface"). The END
  on `stat_db` meets a reading page: SQLite keeps the transaction with PENDING,
  nobody runs END again, and no page can read until the daemon disconnects.
* **crash_blue** (`db.c:239`, "blue   : data is complete"). A crash after the counts of an
  autocommitted row and before the row: the minute is counted twice once resent, and
  a day with one minute missing has its 1440.
* **import_livelock** (`README`, db_import merges the imported database). The worker's END
  is refused because the import is reading the schema; the daemon keeps RESERVED
  and PENDING, and the loop of `db_insert_hist` in the import spins for ever.
* **first_start** (`README:74`, "This will create eagleowl.db and eagleowl_stat.db";
  `db.c:48`). A page opened before the first start of the daemon, or while it creates the
  files, creates them empty; `db_open` takes a file that exists as it is, its CREATE
  TRIGGER fails for want of `energy_history`, and nothing is ever recorded.

Two more disagreements are matters of wording and have no run: `sql_cmd.h:76-77` says
that status 0 is "complete" and 1 "incomplete", and `db.c:250-253` sets 1 on the complete
rows, which is what the calendar shows; `.live` labels its watts "kW".

**Properties that do not hold, and where.**

* With a disconnection while a history thread runs, `StatsNested`, `LedgerSpec`,
  `NoMisuse` and `AllRecorded` fail in the model: connections are closed in the middle
  of a trigger, the BEGIN of the second thread fails, and rows that joined a
  transaction nobody ends are never committed. The `reconnect` run keeps the two that
  survive it. `QuietDrops = TRUE` is the instance where the device is only unplugged
  while no history thread runs. The shortest way to tables that are not nested has 37
  states: `db_close` of the main thread frees `db`, the history thread reopens it and counts
  the hour on the old `stat_db`, whose transaction the close then rolls back, and counts
  the day on the new one.
* `ImportAtomic` speaks of an import that has begun both its transactions. When the
  daemon is still creating the tables, the CREATE TRIGGER of the command can be refused,
  `db_open` then leaves `stat_db` null, the BEGIN on it fails or ends the process, and the
  import inserts without it whatever `db_insert_hist` lets through.
* `FilesComplete` fails with a crash between two `CREATE TABLE`s. `AllRecorded` then
  holds only where `energy_history` was made, as `AllRecordedOnceCreated` says.
* A row decoded from a slot that is being overwritten is a minute the device never
  sent. It is recorded like any other; no property calls it wrong.
* `MonthRight` needs the first frame of a session and of a month to be good. Otherwise
  the previous month, or month 0 after a start, is recorded, under another key. It also
  needs a session that began while no history thread ran: without `~overlapped`, TLC
  finds in twelve states a thread of the second session that reads a good frame of
  another month between the good and the strange frame of the first thread.
* `TimeNeverGoesBack` needs a buffer that holds the memory of the device. A DB frame
  inserted by the main thread shows the power of the last LIVE frame, strange or not.
* The energy of a minute of a whole number of watt-hours (161 for a reading of 600) is
  cut to whole kilowatt-hours by an integer division; `TotalsNearConsumption` allows
  for it.
* An OWL database with one more table, sorting first, is refused by `db_import`.
* An END refused to `db_import` imports nothing, and the command still exits with 0.

**Bounds.** Hours of two minutes and days of two hours keep "full" reachable: two
minutes fill an hour, four a day (three in `energy`). `HISTORY_SIZE` is 1 or 2, so that
a memory both fits it and overflows it, and 2 in `live`, where the 2 minutes the device
holds must fit and the third makes it forget one. `Memory` below `Size` or `LastMinute`
makes the device forget. `Workers` bounds the history threads that run at a time (two, the
least that overlap). `MaxDrops`, `MaxCrashes`, `MaxStops`, `MaxDamaged`
(0 or 1) bound the faults, `MaxRetries`
(0 or 1) the autocommits of a history row that another connection refuses (each
counts the row again, an unbounded counter otherwise). The hazards need two
actors and one fault; a second fault starts from a state that the first run of the
main loop also reaches. In `live` two requests under way can be reordered, and two
points can be exceeded; the page asks twice when it is loaded. `CHECK_DEADLOCK FALSE` everywhere: the device runs out of
minutes and a system with nothing to record stops.

**Fairness.** Weak for each thread: the operating system schedules them, and no step
waits except on a mutex or a file lock. Weak for the device being plugged in again
and for the LIVE frame that follows the history. Weak for a page ending
its SELECT. `EagleOwl` has strong fairness for each thread's library steps and for the
import (`Contention`) instead: two processes that retry against each other with a 20
microsecond pause do not stay in step for ever. `import_livelock` is violated in spite of it.
In `live`, weak for closing the file, loading the page, its polling timer and its replies;
strong for the server, since a request can also fail, but not all of them do.
Nothing is assumed of crashes, disconnections, new minutes or pages starting to read.

## 4. What is proved

Every theorem holds for all values of the constants that satisfy the named ASSUMEs of
the modules (`CalendarAssumption`, `DbAssumption`, `DaemonAssumption`, `ImportAssumption`,
`SystemAssumption`, `EnergyAssumption`, `FramesAssumption`, `LiveAssumption`), which say what
kind of thing each constant is: any finite set of minutes with hours and days
of at most 60 and 24*60, any set of processes, threads, history threads and pages, any
buffer, any memory of the device, any number of faults and retries. TLC evaluates them
on every instance. A theorem that needs more says so in its ASSUME; where TLC can show
that it is needed, section 3 gives the behaviour. The inductive invariants were checked
by TLC on the instances of the runs before they were proved.

### The recording contract (`LedgerProofs`, `EnergyProofs`)

* `TypeCorrect`, `CountsAreSound` (`NeverOvercounts`: no cell counts more minutes than the
  history has for it), `BlueIsSound` (`BlueIsComplete`: a marked hour or day has all its
  minutes), and `CountsAreExact`: without refusals every recorded minute is counted once
  per table when its trigger has ended.

  The inductive invariant is `TypeOK /\ NeverOvercounts /\ BlueIsComplete`.
  `NeverOvercounts` is inductive because `Due(c)` counts the row under the trigger for
  the tables it has still to visit: inserting adds one to both sides
  (`InsertRowAccounts`), a trigger statement moves one from due to counted
  (`CountRowAccounts`), a refusal only lowers the left side. `BlueIsComplete` needs it:
  a row is marked for its count alone, and a count equal to the size of its day that
  is at most the number of its recorded minutes leaves none missing (`InCellSize`).

* `CalendarIsCorrect`: `get_day_of_week` agrees with a count of days for every date of
  2000 to 2255. `DaysBeforeYear` is a recursive function: its closed form is proved from a
  least counterexample.

* `EnergyIsRecorded`: `Energy` implements `Ledger`, so that the theorems above hold of it.

* `TariffsAreSeparate`, `TotalsAreNested`, `TotalsAreNear`: the energy properties. They are
  not inductive alone. `EnergyInv` adds: the tariff found for the row under the trigger,
  and that no hour has energy under the other tariff *even for minutes that are not
  recorded* (`TariffInv`: two minutes of an hour have the same date); that the parts of
  the next row to be counted are already ahead of it by what the row will get, in each
  of the three columns (`Ahead`); and what the row under the trigger still owes to each
  cell, before and after rounding (`DueEnergy`, `DueRounded`).

### The daemon and its files (`DbProofs`, `Cm160Proofs`, `StatsProofs`)

`DbProofs` has one lemma per operation of a file (`FileInv`: one writer, whose view differs
from the disk only while it is one, contents that only grow) and one per statement of
`db.c` (`ThreadsInv`, `HandlesInv`), for threads of any process.

* `DaemonTypes` (`TypeOK`): among the rest, that PENDING is held by the writer of a file
  alone (`FileOK`), with or without a modified page. The strengthening is `SlotsFilled`: the first `frame_id` slots of
  the buffer and the first `num` slots of every history thread hold a frame. It is what
  makes the insertion of a torn slot, overwritten by the next session, the insertion
  of *some* minute and not of nothing.
* `DaemonKeeps` (`CommittedStays`): nothing committed is ever taken back. Each write of a
  connection starts from its view, the view from the disk (`Keeps`, `RowsGrow`, `StatGrows`).
* `DaemonNeverMisuses` (`NoMisuse`: no null or closed connection is handed to SQLite), under
  `QuietFaults` and `SoundStart`. `QuietFaults`: the device is never unplugged
  (`MaxDrops = 0`), or only while no history thread runs (`QuietDrops`). `SoundStart`: the
  files exist, or there is neither a page nor a crash while they are created. The
  inductive invariant `ServiceInv` adds three facts: the files are opened and closed
  by the main thread alone, while every other thread of the daemon is out of `db.c` (`QuietInv`);
  only the daemon's connection writes (`LocksInv`); and which of the two handles is
  open, with which tables, at each place of `db_open` and `db_close`, both being open
  and complete whenever another function runs (`OpenInv`).
* `DaemonNests` (`StatsNested`), under `QuietFaults` alone: crashes, pages,
  refusals and retries are not restricted. `NestInv` says it of the view of the
  writer as well as of the disk; that at most one thread of a process is inside the
  trigger, which is the mutex of the connection (`MutexInv`, of `DbProofs`); and that the
  parts of the row such a thread is about to count are ahead of it by one (`MarginInv`),
  on the disk too when each statement commits by itself. Without the hypothesis the
  property is false (section 3).
* `DaemonRefines` (`LedgerSpec`), under `QuietFaults` and `Undisturbed`: no crash, and either
  no page, or files that exist and a device that stays plugged in. A crash takes the
  daemon's view back to the disk, an END that a page refuses leaves the
  transaction open when the next history thread begins its own, and `db_close` rolls it
  back: none of these is a step of `Ledger`. The invariant is
  `RefInv`: `ServiceInv`, `MutexInv`, no `db_close` while the device stays plugged
  in, and, without pages, that transactions follow the one history thread that may
  run, nothing being uncommitted outside of them and of the trigger (`TxInv`). Each
  statement of `db.c` is then a step of `Ledger` or none: the INSERT of a new minute is
  `InsertRow` (`RowInserted`), a statement of the trigger is `CountRow` or, refused,
  `RefuseRow` (`RowCounted`), its end `FinishRow` (`RowFinished`), a status statement `Mark`
  (`LevelMarked`); all the others, BEGIN, END, open, close and the pages, change
  nothing that the connection sees.
* From it, by the theorems of `LedgerProofs`, which hold of the instance because their
  assumptions do (`PromisedCells`): `DaemonBlueIsComplete` (`BlueDayIsComplete`);
  `DaemonNeverOvercounts`, no committed row counts more minutes than the history has; and,
  without pages, `DaemonCountsExactly` (`CountedAtRest`): whenever the daemon has no insert
  and no transaction under way, the committed statistics are exactly those of the
  committed history, and it has none when no history thread runs. `crash_blue` shows
  that the first needs its hypothesis, `web_undercount` that the last does.

### The installation (`EagleOwlProofs`)

* `SystemTypes`, `SystemKeeps`, `SystemNests` (under `QuietFaults`): the same three
  properties with `db_import` on the same files, from the lemmas of `DbProofs`, which do not
  care whose thread takes the step.
* `ImportIsAtomic` (`ImportAtomic`), with no hypothesis: on existing files as on files that
  the daemon is creating. `ImportInv` follows the command. Its BEGIN on `stat_db` succeeds
  only if `db_open` went to its end, so that the history table, the trigger and the
  function of the trigger are there (`Sound`): every insert is then retried until it is
  taken. From that BEGIN to its END each row that its SELECT has returned is in its view
  of the history or about to be inserted (`Taken`), and nothing has been committed. An
  import that has missed the BEGIN (`Lost`) never gets it later.

### The frames and the live graph (`LiveProofs`)

* `LiveTypes` (`TypeOK`): with it, that no record gets a month above 12 (`ValidMonthType`), on
  either thread, and that the buffer never overflows.
* `MonthsAreRight` (`MonthRight`), under `FirstFramesGood`: a strange frame is neither the
  first of a session nor the first of a month. `MonthRight` itself speaks of sessions that
  began while no history thread ran. `MonthInv` says that the month kept by
  `process_frame` is that of the last frame of the session (`LastInv`); that the buffer
  holds the *first* frames of the session, whether or not it could take them all
  (`BufferInv`); and that, until threads overlap, at most one reads them, none is buffered
  meanwhile, and the static month is that of the slot before the one it is to read
  (`ThreadInv`, `AloneReads`), whatever it was when the thread started. A torn slot is
  then impossible.
* `GraphIsBounded` (`PointsBounded`). The number of points alone is not inductive: a reply
  brings a point back for the request that left with the oldest one. `PageInv` counts
  points, requests and replies together, and says that a page that is not loaded has
  asked nothing, so that it is never taken for one that lost its points.
* `TimeIsMonotone` (`TimeNeverGoesBack`), when `HISTORY_SIZE >= Memory`: the buffer takes the
  minutes that the device holds, however long it runs. `TimeInv` says that
  before the first LIVE frame of a session the buffer holds no more frames than the
  device has sent, so that one inserted for want of room comes after `Memory` others and
  is later than all that was shown (`ShownBefore`); after it, that `.live`, written or about
  to be, is of a minute before the next one to come; and that the file is empty whenever
  it is being written.

### Only model-checked

Liveness, in every run (`FilesComplete`, `AllRecorded`, `AllRecordedOnceCreated`, `AllCounted`,
`AllBlue`, `CallsReturn`, `ShowsTheLast`): it depends on fairness and ENABLED, which the proof
system does not treat. Every invariant, action property and refinement that a passing
run checks is stated by a theorem.

## 5. What is abstracted or left out

* Two threads that open the same file at once share one connection (in the code the
  first leaks, unused but for the statement in progress on it).
* A commit is one step: SQLite's journal makes it atomic. Pages never spill
  from the cache of a transaction.
* Pages read only the statistics; of the history file they only make an empty one
  when it is missing. Their ten second `busyTimeout` is waiting. `get_data` of
  `index.php`, which reads the history, is never reached: `$stat_db` is always an object.
  The rendering of the charts is left out; the chart of a day takes its hour 24 from
  the row of the next day number, which the last day of a month does not have.
* Cm160 numbers the minutes 1..now and leaves their content to Frames and Energy; Frames
  leaves the statements of `db.c`, the limits of its locks and the damaged frames to Cm160
  (a damaged frame before a strange one would make the latter a first frame).
* A turn of the loop of `insert_db_history` (decode, month, insert) is one step of Frames.
  The row is a local variable once its month is set, and the static is read or written
  once per turn; only a refill of the slot between the decoding and the test of the month
  could tell, which takes a session that overlaps the thread, where nothing is claimed
  of the months.
* The vertical lines of the live graph where the minute changes.
* The cost, ampere and min/max columns are written and never read by a test of the
  code. The `MERGE_*`, `SELECT_*` and `ATTACH` macros are used nowhere.
* The ID and WAIT answers to the device, `usb_utils.c` and `demonize.c` keep no state the
  rest reads. The chart and calendar libraries, `line_chart.php` (linked from no page)
  and all of SQLite but its locks and transactions are vendored or pure rendering.
  SQLite alone is nine tenths of the repository's lines: what `SqliteFile` maps of it
  is what the outcome of a statement of `db.c` depends on.
* The supervisor gives up after ten respawns in five seconds; here it never does.

## 6. Plan

Apart from what section 5 lists, the operations of the program's own code that change
state are actions of a module, and the safety properties of the passing runs are proved. What
could still be proved is under weaker hypotheses:

1. `BlueDayIsComplete` with pages *and* quiet disconnections: an END that a page refuses
   leaves rows that `db_close` rolls back, out of either file in any order, so it needs
   an invariant of the two disks and not of the views.
2. The counts and the marks for `db_import` and the daemon together, each process
   recording as `Ledger` says between two changes of the writer.
