---------------------------- MODULE EagleOwlProofs ----------------------------
(***************************************************************************)
(* Proofs about the whole installation: the daemon, its pages and one run  *)
(* of db_import, for every number of rows to import and of faults.         *)
(***************************************************************************)
EXTENDS EagleOwl, StatsProofs

(***************************************************************************)
(* What holds of the daemon holds of the installation.                     *)
(***************************************************************************)

ImportTypes ==
    /\ ipc \in {"none", "open", "rows", "end", "close", "exit"}
    /\ left \subseteq ImportRows

SystemInv == Inv /\ ImportTypes

LEMMA ImportDbAction ==
    ASSUME ImportTypes, ImportStep
    PROVE  DbAction({Importer}) /\ ImportTypes'
<1> USE ImportAssumption
<1>1. CASE RefuseImport \/ ImportFails
  BY <1>1 DEF RefuseImport, ImportFails, ImportTypes, DbAction, DbActivity
<1>2. CASE DbStep(Importer) /\ UNCHANGED importVars
  BY <1>2 DEF ImportTypes, DbAction, DbActivity, importVars
<1>3. CASE StartImport \/ ImportBegin \/ ImportStatus \/ ImportEnd \/ ImportClose
  <2>1. \E s \in Entries : Call(Importer, s, NoMinute)
    BY <1>3 DEF StartImport, ImportBegin, ImportStatus, ImportEnd, ImportClose, CallOpen,
                CallBegin, CallStatus, CallEnd, CallClose, Entries
  <2>2. ImportTypes'
    BY <1>3 DEF StartImport, ImportBegin, ImportStatus, ImportEnd, ImportClose, ImportTypes
  <2> QED BY <2>1, <2>2 DEF DbAction, DbActivity
<1>4. CASE ImportRow
  <2>1. PICK m \in left : CallInsert(Importer, m) /\ left' = left \ {m} /\ ipc' = ipc
    BY <1>4 DEF ImportRow
  <2>2. m \in Minutes /\ Call(Importer, "o_main", m)
    BY <2>1 DEF ImportTypes, CallInsert
  <2>3. DbAction({Importer})
    BY <2>2 DEF DbAction, DbActivity, Entries
  <2> QED BY <2>1, <2>3 DEF ImportTypes
<1>5. CASE ImportMisuseCrash
  BY <1>5 DEF ImportMisuseCrash, DbAction, ImportTypes
<1> QED BY <1>1, <1>2, <1>3, <1>4, <1>5 DEF ImportStep

LEMMA SystemInvStep ==
    ASSUME SystemInv, [SystemNext]_allVars
    PROVE  /\ SystemInv'
           /\ Keeps(main, main', RowsGrow) /\ Keeps(stat, stat', StatGrows)
<1>1. CASE DaemonNext
  BY <1>1, InvStep DEF DaemonNext, SystemInv, ImportTypes, importVars
<1>2. CASE ImportNext
  <2>1. DbAction({Importer}) /\ ImportTypes'
    BY <1>2, ImportDbAction DEF ImportNext, SystemInv
  <2>2. /\ DbInv(Connections)'
        /\ Keeps(main, main', RowsGrow) /\ Keeps(stat, stat', StatGrows)
    BY <2>1, DbActionInv, ImportAssumption DEF SystemInv, Inv
  <2>3. DeviceInv' /\ SessionInv'
    BY <1>2 DEF ImportNext, SystemInv, Inv, DeviceInv, SessionInv, SlotsFilled, daemonVars,
                deviceVars
  <2> QED BY <2>1, <2>2, <2>3 DEF SystemInv, Inv
<1>3. CASE UNCHANGED allVars
  BY <1>3, InvStep DEF allVars, SystemInv, ImportTypes, importVars
<1> QED BY <1>1, <1>2, <1>3 DEF SystemNext

\* The inductive invariant of the installation.
THEOREM SystemInductive == SystemSpec => []SystemInv
<1>1. SystemInit => SystemInv
  BY InvInit DEF SystemInit, SystemInv, ImportInit, ImportTypes
<1>2. SystemInv /\ [SystemNext]_allVars => SystemInv'
  BY SystemInvStep
<1> QED BY <1>1, <1>2, PTL DEF SystemSpec

\* The import never makes the daemon or a file leave its types (db.c,
\* cm160.c, db_import.c).
THEOREM SystemTypes == SystemSpec => []TypeOK
<1>1. SystemInv => TypeOK
  BY InvType DEF SystemInv
<1> QED BY SystemInductive, <1>1, PTL

\* An import takes nothing back of what the daemon has committed, nor the
\* other way round.
THEOREM SystemKeeps == SystemSpec => CommittedStays
<1>1. SystemInv /\ [SystemNext]_allVars =>
        [/\ main.disk \subseteq main'.disk
         /\ \A c \in Cells : stat.disk.count[c] <= stat'.disk.count[c]
         /\ stat.disk.complete \subseteq stat'.disk.complete]_vars
  BY SystemInvStep, KeepsStays
<1> QED BY SystemInductive, <1>1, PTL DEF SystemSpec, CommittedStays

SystemStatsInv == SystemInv /\ NestInv /\ QuietInv

LEMMA SystemStatsStep ==
    ASSUME QuietFaults, SystemStatsInv, [SystemNext]_allVars
    PROVE  SystemStatsInv'
<1>1. SystemInv'
  BY SystemInvStep DEF SystemStatsInv
<1>2. CASE [Next]_vars
  BY <1>1, <1>2, StatsStep DEF SystemStatsInv, SystemInv, StatsInv
<1>3. CASE ImportNext
  <2>1. Importer \in Threads /\ Importer \notin DaemonThreads
    BY ImportAssumption, SystemAssumption
  <2>2. DbAction({Importer})
    BY <1>3, ImportDbAction DEF ImportNext, SystemStatsInv, SystemInv
  <2>3. ClosesAlone(Importer)
    BY ImportAssumption DEF ClosesAlone
  <2>4. NestInv'
    BY <2>1, <2>2, <2>3, NestDbAction DEF SystemStatsInv, SystemInv, Inv
  <2>5. UNCHANGED daemonVars /\ UNCHANGED deviceVars
    BY <1>3 DEF ImportNext
  <2>6. \A t \in Threads \ {Importer} : at'[t] = at[t]
    <3>1. CASE DbStep(Importer)
      BY <2>1, <3>1, DbStepThreads DEF SystemStatsInv, SystemInv, Inv, DbInv
    <3>2. CASE \E s, m : Call(Importer, s, m)
      BY <3>2 DEF Call, SystemStatsInv, SystemInv, Inv, DbInv, ThreadsInv
    <3>3. CASE UNCHANGED dbVars
      BY <3>3 DEF dbVars
    <3>4. CASE DbDies(ProcOf[Importer])
      BY <3>4, ImportAssumption DEF DbDies, SystemStatsInv, SystemInv, Inv, DbInv, ThreadsInv
    <3> QED BY <1>3, <3>1, <3>2, <3>3, <3>4
       DEF ImportNext, ImportStep, ImportMisuseCrash, RefuseImport, StartImport,
           ImportBegin, ImportRow, ImportFails, ImportStatus, ImportEnd, ImportClose, CallOpen,
           CallBegin, CallInsert, CallStatus, CallEnd, CallClose
  <2>7. QuietInv'
    BY <2>1, <2>5, <2>6, DaemonAssumption
       DEF SystemStatsInv, QuietInv, IdleWorkers, daemonVars, deviceVars, DaemonThreads
  <2> QED BY <1>1, <2>4, <2>7 DEF SystemStatsInv
<1> QED BY <1>2, <1>3 DEF SystemNext, DaemonNext, allVars

\* Nor do the rows that db_import counts at the same time unnest the tables.
THEOREM SystemNests ==
    ASSUME QuietFaults
    PROVE  SystemSpec => []StatsNested
<1>1. SystemInit => SystemStatsInv
  BY StatsInit, InvInit DEF SystemInit, ImportInit, SystemStatsInv, SystemInv, ImportTypes,
                            StatsInv
<1>2. SystemStatsInv /\ [SystemNext]_allVars => SystemStatsInv'
  BY SystemStatsStep
<1>3. SystemStatsInv => StatsNested
  BY NestedCommitted DEF SystemStatsInv, NestInv, Good, NestedContents
<1> QED BY <1>1, <1>2, <1>3, PTL DEF SystemSpec

(***************************************************************************)
(* The import.  Its invariant follows the command: once it has begun both  *)
(* its transactions, every row it has asked for is in what it sees of      *)
(* eagleowl.db or still on its way there, and all of it is uncommitted     *)
(* until the END.                                                          *)
(***************************************************************************)

\* The process of the command, and where it is in db.c.
P == ProcOf[Importer]

A == at[Importer]

\* db_open, before and after the trigger is known to exist.
Early == {"o_main", "o_open", "o_fn", "refused_create"} \cup Tables(MainTables)

Late == {"o_trigger", "o_stat", "o_sopen", "refused_screate", "o_done"}
        \cup Tables(StatCreation)

\* The row is not in the history yet.
Waiting == {"o_main", "o_stat", "check", "exec", "refused_main"}

\* The command can insert rows.
Sound ==
    /\ {"t_history", "trigger"} \subseteq made
    /\ hdl[P].main = "open" /\ hdl[P].fn

Taken ==
    \A m \in ImportRows \ left :
        m \in Seen(main, P) \/ (A \in Waiting /\ m = arg[Importer])

BeforeBegin ==
    /\ left = ImportRows /\ P \notin stat.intx
    /\ hdl[P].stat # "null" => Sound

Opening ==
    /\ BeforeBegin
    /\ arg[Importer] = NoMinute
    /\ A \in Early \cup Late \cup {"ret"}
    /\ A = "o_main" => hdl[P].main = "null"
    /\ A \in Early => hdl[P].stat = "null"
    /\ A \in Late => Sound

Beginning ==
    /\ BeforeBegin
    /\ A \in {"b_main", "b_stat"}
    /\ A = "b_stat" => P \in main.intx

Importing ==
    /\ P \in main.intx /\ P \in stat.intx
    /\ Sound /\ hdl[P].stat = "open"
    /\ Taken
    /\ A \in {"ret", "refused_stat", "commit"} \cup Waiting \cup Levels
    /\ A \in Waiting => arg[Importer] \in Minutes

\* The BEGIN on eagleowl_stat.db failed.
Lost == P \notin stat.intx /\ A \notin Transacting

Ending ==
    /\ P \in main.intx
    /\ left = {} /\ Taken
    /\ A \in {"s_hour", "s_day", "refused_status", "ret"}

Leaving ==
    /\ A \in {"e_main", "e_stat", "ret"}
    /\ A = "e_main" /\ P \in stat.intx => ImportRows \subseteq Seen(main, P)

\* The trigger is created after the table of the history.
TriggerLast == "trigger" \in made => "t_history" \in made

ImportInv ==
    /\ TriggerLast
    /\ ipc = "none" => A = "ret" /\ hdl[P].main = "null" /\ BeforeBegin
    /\ ipc = "open" => Opening
    /\ ipc = "rows" => Beginning \/ Importing \/ Lost
    /\ ipc = "end" => Ending \/ Lost
    /\ ipc = "close" => Leaving
    /\ ipc = "exit" => A \in Closing \cup {"ret"}

\* Only CREATE TRIGGER makes the trigger, and it needs the table.
LEMMA TriggerStep ==
    ASSUME NEW t \in Threads, DbStep(t), TriggerLast
    PROVE  TriggerLast'
<1>1. made \subseteq made'
  BY DbStepMade
<1>2. CASE OpenRegister(t) /\ TriggerMade(t)
  <2>1. made' = made \/ "t_history" \in made
    BY <1>2 DEF TriggerMade, CreateOutcome
  <2> QED BY <1>1, <2>1 DEF TriggerLast
<1>3. CASE ~(OpenRegister(t) /\ TriggerMade(t))
  <2>1. \A o \in Tables(MainTables) \cup Tables(StatCreation) : o # "trigger"
    BY TablesAre
  <2>2. "trigger" \in made' => "trigger" \in made
    <3>1. CASE Open(t)
      <4>1. CASE OpenMain(t) \/ OpenStat(t)
        BY <4>1 DEF OpenMain, OpenStat
      <4>2. CASE CreateMainTable(t) \/ CreateStatTable(t)
        BY <2>1, <4>2 DEF CreateMainTable, CreateStatTable
      <4>3. CASE OpenRegister(t)
        BY <1>3, <4>3 DEF OpenRegister, TriggerExists
      <4>4. CASE OpenCheckMain(t) \/ OpenTrigger(t) \/ OpenCheckStat(t) \/ OpenDone(t)
        BY <4>4 DEF OpenCheckMain, OpenTrigger, OpenCheckStat, OpenDone
      <4> QED BY <3>1, <4>1, <4>2, <4>3, <4>4 DEF Open
    <3>2. CASE ~Open(t)
      BY <3>2 DEF DbStep, Insert, InsertCheck, InsertFails, InsertExec, InsertRetry, CountStat,
                  RefusedStat, InsertEnds, MarkStat, StatExec, Transaction, BeginMain, BeginStat,
                  EndMain, EndStat, Close, CloseMain, CloseStat, CloseReset
    <3> QED BY <3>1, <3>2
  <2> QED BY <1>1, <2>2 DEF TriggerLast
<1> QED BY <1>2, <1>3

\* Another process changes nothing of what the invariant is about, but for
\* rows that it commits and tables that it creates.
LEMMA ImportUndisturbed ==
    ASSUME ImportInv, UNCHANGED importVars, made \subseteq made', TriggerLast',
           A' = A, arg'[Importer] = arg[Importer], hdl'[P] = hdl[P],
           P \in main.intx <=> P \in main'.intx, P \in stat.intx <=> P \in stat'.intx,
           <<Seen(main, P), Seen(main', P)>> \in RowsGrow
    PROVE  ImportInv'
<1>1. Seen(main, P) \subseteq Seen(main', P)
  BY DEF RowsGrow
<1>2. UNCHANGED <<ipc, left>>
  BY DEF importVars
<1>3. Sound => Sound'
  BY DEF Sound
<1>4. BeforeBegin => BeforeBegin'
  BY <1>2, <1>3 DEF BeforeBegin
<1>5. Opening => Opening'
  BY <1>3, <1>4 DEF Opening
<1>6. Beginning => Beginning'
  BY <1>4 DEF Beginning
<1>7. Taken => Taken'
  BY <1>1, <1>2 DEF Taken
<1>8. Importing => Importing'
  BY <1>3, <1>7 DEF Importing
<1>9. Lost => Lost'
  BY DEF Lost
<1>10. Ending => Ending'
  BY <1>2, <1>7 DEF Ending
<1>11. Leaving => Leaving'
  BY <1>1 DEF Leaving
<1> QED BY <1>2, <1>4, <1>5, <1>6, <1>8, <1>9, <1>10, <1>11 DEF ImportInv

\* What the step of another process is, as far as the import sees it.
LEMMA DaemonLeavesImport ==
    ASSUME ImportInv, SystemInv, DaemonNext
    PROVE  ImportInv' /\ A' = A
<1>1. DbAction(DaemonThreads)
  BY NextDbAction DEF DaemonNext, SystemInv, Inv
<1>2. /\ Importer \in Threads /\ P \in Procs /\ Daemon \in Procs /\ P # Daemon
      /\ Daemon \in Connections
      /\ DaemonThreads \subseteq Threads
      /\ \A t \in DaemonThreads : ProcOf[t] = Daemon /\ t # Importer
  BY ImportAssumption, SystemAssumption, DaemonAssumption, DbAssumption
     DEF P, DaemonThreads, Connections
<1>3. UNCHANGED importVars /\ TriggerLast
  BY DEF DaemonNext, ImportInv
<1>4. /\ MainInv /\ StatInv(Connections) /\ ThreadsInv /\ HandlesInv
      /\ PreOrder(RowsGrow, SUBSET Minutes) /\ PreOrder(StatGrows, Content)
  BY RowsGrowOrder, StatGrowsOrder DEF SystemInv, Inv, DbInv
<1>5. ASSUME \/ FileStep(main, main', Daemon, SUBSET Minutes, RowsGrow)
             \/ main' = main,
             \/ FileStep(stat, stat', Daemon, Content, StatGrows)
             \/ stat'.intx = stat.intx
      PROVE  /\ P \in main.intx <=> P \in main'.intx
             /\ P \in stat.intx <=> P \in stat'.intx
             /\ <<Seen(main, P), Seen(main', P)>> \in RowsGrow
  <2>1. P \in stat.intx <=> P \in stat'.intx
    <3>1. CASE FileStep(stat, stat', Daemon, Content, StatGrows)
      <4>1. FileInv(stat, Content, Connections, StatGrows)
        BY <1>4 DEF StatInv
      <4>2. PreOrder(StatGrows, Content)
        BY <1>4
      <4>3. P \in Procs /\ Daemon \in Procs /\ Daemon \in Connections /\ P # Daemon
        BY <1>2
      <4>4. /\ P \in stat.intx <=> P \in stat'.intx
            /\ <<Seen(stat, P), Seen(stat', P)>> \in StatGrows
        BY <3>1, <4>1, <4>2, <4>3, FileStepOther
      <4> QED BY <4>4
    <3> QED BY <1>5, <3>1
  <2>2. CASE main' = main
    BY <1>4, <2>1, <2>2, SeenType DEF MainInv, PreOrder
  <2>3. CASE FileStep(main, main', Daemon, SUBSET Minutes, RowsGrow)
    BY <1>2, <1>4, <2>1, <2>3, FileStepOther DEF MainInv
  <2> QED BY <1>5, <2>2, <2>3
<1>6. ASSUME UNCHANGED main, stat'.intx = stat.intx, A' = A, arg'[Importer] = arg[Importer],
             hdl'[P] = hdl[P], made \subseteq made', TriggerLast'
      PROVE  ImportInv' /\ A' = A
  BY <1>3, <1>5, <1>6, ImportUndisturbed
<1>7. CASE UNCHANGED dbVars
  BY <1>3, <1>6, <1>7 DEF dbVars, A, TriggerLast
<1>8. ASSUME NEW t \in DaemonThreads, DbStep(t) PROVE ImportInv' /\ A' = A
  <2>1. /\ FileStep(main, main', Daemon, SUBSET Minutes, RowsGrow)
        /\ FileStep(stat, stat', Daemon, Content, StatGrows)
    BY <1>2, <1>4, <1>8, DbStepMain, DbStepStat
  <2>2. A' = A /\ arg'[Importer] = arg[Importer]
    BY <1>2, <1>4, <1>8, DbStepThreads DEF A
  <2>3. hdl'[P] = hdl[P] /\ made \subseteq made' /\ TriggerLast'
    BY <1>2, <1>3, <1>4, <1>8, DbStepHandles, TriggerStep
  <2> QED BY <1>3, <1>5, <2>1, <2>2, <2>3, ImportUndisturbed
<1>9. ASSUME NEW t \in DaemonThreads, NEW s, NEW m, Call(t, s, m) PROVE ImportInv' /\ A' = A
  <2>1. A' = A /\ arg'[Importer] = arg[Importer]
    BY <1>2, <1>4, <1>9 DEF A, Call, ThreadsInv
  <2> QED BY <1>3, <1>6, <1>9, <2>1 DEF Call, TriggerLast
<1>10. ASSUME NEW t \in DaemonThreads, DbDies(ProcOf[t]) PROVE ImportInv' /\ A' = A
  <2>1. DbDies(Daemon)
    BY <1>2, <1>10
  <2>2. /\ FileStep(main, main', Daemon, SUBSET Minutes, RowsGrow)
        /\ FileStep(stat, stat', Daemon, Content, StatGrows)
    BY <2>1 DEF DbDies, FileStep
  <2>3. A' = A /\ arg'[Importer] = arg[Importer]
    BY <1>2, <2>1 DEF A, P, DbDies
  <2>4. hdl'[P] = hdl[P] /\ made' = made
    BY <1>2, <1>4, <2>1 DEF DbDies, HandlesInv
  <2> QED BY <1>3, <1>5, <2>2, <2>3, <2>4, ImportUndisturbed DEF TriggerLast
<1>11. ASSUME NEW o \in {"db", "stat_db"}, made' = made \cup {o},
              UNCHANGED <<main, stat, hdl, at, arg, retries>>
       PROVE  ImportInv' /\ A' = A
  BY <1>3, <1>6, <1>11 DEF A, TriggerLast
<1>12. ASSUME NEW r \in Readers, stat' \in {Sharing(stat, r), Unsharing(stat, r)},
              UNCHANGED <<main, made, hdl, at, arg, retries>>
       PROVE  ImportInv' /\ A' = A
  <2>1. stat'.intx = stat.intx
    BY <1>4, <1>12 DEF Sharing, Unsharing, StatInv, FileInv, Files
  <2> QED BY <1>3, <1>6, <1>12, <2>1 DEF A, TriggerLast
<1> QED BY <1>1, <1>7, <1>8, <1>9, <1>10, <1>11, <1>12 DEF DbAction, DbActivity

\* What an importing step must show.
ImportStepOK ==
    /\ ImportInv'
    /\ main'.disk # main.disk /\ P \in stat.intx => ImportRows \subseteq main'.disk

\* The facts that every step of the command starts from.
ImportFacts ==
    /\ ImportInv /\ SystemInv
    /\ main \in Files(SUBSET Minutes, Procs)
    /\ stat \in Files(Content, Connections)
    /\ hdl \in [Procs -> [main : Pointers, stat : Pointers, fn : BOOLEAN]]
    /\ at \in [Threads -> Steps]
    /\ arg \in [Threads -> Minutes \cup {NoMinute}]
    /\ ThreadsInv /\ StatInv(Connections)
    /\ Importer \in Threads /\ P \in Procs
    /\ left \subseteq ImportRows /\ ImportRows \subseteq Minutes
    /\ NoMinute \notin Minutes /\ NoOwner \notin Procs

LEMMA ImportFactsHold == ASSUME ImportInv, SystemInv PROVE ImportFacts
BY ImportAssumption, DbAssumption, CalendarAssumption
   DEF ImportFacts, SystemInv, Inv, DbInv, MainInv, StatInv, FileInv, ThreadsInv, HandlesInv,
       ImportTypes, P

\* A call, or the end of the import itself.
LEMMA ImportCalls ==
    ASSUME ImportFacts, UNCHANGED <<main, stat, made, hdl>>,
           \/ RefuseImport \/ StartImport \/ ImportBegin \/ ImportRow
           \/ ImportFails \/ ImportStatus \/ ImportEnd \/ ImportClose
    PROVE  ImportInv'
<1> USE DEF ImportFacts
<1>0. TriggerLast' /\ (Sound <=> Sound')
  BY DEF ImportInv, TriggerLast, Sound
<1>1. CASE RefuseImport
  BY <1>0, <1>1 DEF RefuseImport, ImportInv, Leaving, A, dbVars
<1>2. CASE StartImport
  <2>1. A' = "o_main" /\ arg'[Importer] = NoMinute
    BY <1>2 DEF StartImport, CallOpen, Call, A
  <2>2. ipc = "none" /\ ipc' = "open" /\ left' = left
    BY <1>2 DEF StartImport
  <2>3. hdl[P].main = "null" /\ hdl[P].stat = "null" /\ BeforeBegin
    BY <2>2 DEF ImportInv, BeforeBegin, Sound
  <2>4. "o_main" \in Early /\ "o_main" \notin Late
    BY TablesAre DEF Early, Late
  <2>5. BeforeBegin'
    BY <1>0, <2>2, <2>3 DEF BeforeBegin
  <2>6. Opening'
    BY <2>1, <2>3, <2>4, <2>5 DEF Opening
  <2> QED BY <1>0, <2>2, <2>6 DEF ImportInv
<1>3. CASE ImportBegin
  <2>1. A = "ret" /\ A' = "b_main"
    BY <1>3 DEF ImportBegin, CallBegin, Call, A
  <2>2. ipc = "open" /\ ipc' = "rows" /\ left' = left
    BY <1>3 DEF ImportBegin
  <2>3. BeforeBegin'
    BY <1>0, <2>2 DEF ImportInv, Opening, BeforeBegin
  <2> QED BY <1>0, <2>1, <2>2, <2>3 DEF ImportInv, Beginning
<1>4. CASE ImportRow
  <2>1. PICK m \in left : CallInsert(Importer, m) /\ left' = left \ {m}
    BY <1>4 DEF ImportRow
  <2>2. A = "ret" /\ A' = "o_main" /\ arg'[Importer] = m
    BY <2>1 DEF CallInsert, Call, A
  <2>3. ipc = "rows" /\ ipc' = "rows"
    BY <1>4 DEF ImportRow
  <2>4. Importing \/ Lost
    BY <2>2, <2>3 DEF ImportInv, Beginning
  <2>5. Lost => Lost'
    BY <2>2 DEF Lost, Transacting
  <2>6. ASSUME Importing PROVE Importing'
    <3>1. \A n \in ImportRows \ left : n \in Seen(main, P)
      BY <2>2, <2>6 DEF Importing, Taken, Waiting
    <3>2. \A n \in ImportRows \ left' : n \in Seen(main', P) \/ n = arg'[Importer]
      BY <2>1, <2>2, <3>1
    <3>3. A' \in Waiting
      BY <2>2 DEF Waiting
    <3>4. Taken'
      BY <3>2, <3>3 DEF Taken
    <3>5. m \in Minutes
      BY <2>1
    <3> QED BY <1>0, <2>2, <2>6, <3>3, <3>4, <3>5 DEF Importing
  <2> QED BY <1>0, <2>3, <2>4, <2>5, <2>6 DEF ImportInv
<1>5. CASE ImportFails
  BY <1>0, <1>5 DEF ImportFails, ImportInv, Leaving, A, dbVars
<1>6. CASE ImportStatus
  <2>1. A = "ret" /\ A' = "s_hour"
    BY <1>6 DEF ImportStatus, CallStatus, Call, A
  <2>2. ipc = "rows" /\ ipc' = "end" /\ left = {} /\ left' = left
    BY <1>6 DEF ImportStatus
  <2>3. Importing \/ Lost
    BY <2>1, <2>2 DEF ImportInv, Beginning
  <2>4. Lost => Lost'
    BY <2>1 DEF Lost, Transacting
  <2>5. ASSUME Importing PROVE Ending'
    <3>1. Taken'
      BY <2>1, <2>2, <2>5 DEF Importing, Taken, Waiting
    <3> QED BY <2>1, <2>2, <2>5, <3>1 DEF Importing, Ending
  <2> QED BY <1>0, <2>2, <2>3, <2>4, <2>5 DEF ImportInv
<1>7. CASE ImportEnd
  <2>1. A = "ret" /\ A' = "e_main"
    BY <1>7 DEF ImportEnd, CallEnd, Call, A
  <2>2. ipc = "end" /\ ipc' = "close"
    BY <1>7 DEF ImportEnd
  <2>3. P \in stat.intx => ImportRows \subseteq Seen(main, P)
    BY <2>1, <2>2 DEF ImportInv, Ending, Taken, Waiting, Lost
  <2>4. Leaving'
    BY <2>1, <2>3 DEF Leaving
  <2> QED BY <1>0, <2>2, <2>4 DEF ImportInv
<1>8. CASE ImportClose
  BY <1>0, <1>8 DEF ImportClose, CallClose, Call, ImportInv, A, Closing
<1> QED BY <1>1, <1>2, <1>3, <1>4, <1>5, <1>6, <1>7, <1>8

LEMMA OpeningStep ==
    ASSUME ImportFacts, ipc = "open", DbStep(Importer), UNCHANGED importVars, TriggerLast'
    PROVE  ImportStepOK
<1> USE DEF ImportFacts
<1>1. Opening /\ BeforeBegin /\ TriggerLast
  BY DEF ImportInv, Opening
<1>2. UNCHANGED <<ipc, left>>
  BY DEF importVars
<1>3. \A s : Goto(Importer, s) => A' = s /\ arg'[Importer] = NoMinute
  BY <1>1, GotoIs DEF A, Opening
<1>4. Opened(Importer) => Goto(Importer, "ret")
  BY <1>1 DEF Opened, Opening
<1>5. made \subseteq made'
  BY DbStepMade
<1>6. /\ \A s \in Early : s \notin Late /\ s # "ret"
      /\ \A s \in Late : s # "ret" /\ s # "o_main"
      /\ A \in Early \cup Late \cup {"ret"}
      /\ A \notin Transacting /\ A \notin {"c_stat", "e_stat", "b_stat"}
  BY <1>1, TablesAre DEF Opening, Early, Late, Transacting
<1>7. P \notin stat'.intx
  <2>1. stat'.intx = stat.intx
    BY <1>6, StatChange DEF A
  <2> QED BY <1>1, <2>1 DEF BeforeBegin
\* The pointers are as they were, or db_open goes on.
<1>8. ASSUME NEW s, Goto(Importer, s), s \in Early \cup Late \cup {"ret"}, s # "o_main",
             hdl'[P].stat # "null" => Sound',
             s \in Early => hdl'[P].stat = "null",
             s \in Late => Sound'
      PROVE  ImportStepOK
  <2>1. A' = s /\ arg'[Importer] = NoMinute
    BY <1>3, <1>8
  <2>2. Opening'
    BY <1>1, <1>2, <1>7, <1>8, <2>1 DEF Opening, BeforeBegin
  <2> QED BY <1>1, <1>2, <2>2 DEF ImportInv, ImportStepOK, BeforeBegin
<1>9. ASSUME hdl' = hdl PROVE Sound => Sound'
  BY <1>5, <1>9 DEF Sound
<1>10. /\ {"o_main", "o_open", "o_fn", "refused_create"} \subseteq Early
       /\ {"o_trigger", "o_stat", "o_sopen", "refused_screate", "o_done"} \subseteq Late
  BY DEF Early, Late
<1>11. ASSUME NEW s, Goto(Importer, s), s \in Early \cup {"ret"}, s # "o_main", hdl' = hdl,
              A \in Early
       PROVE  ImportStepOK
  <2>1. hdl'[P].stat = "null"
    BY <1>1, <1>11 DEF Opening
  <2> QED BY <1>6, <1>8, <1>11, <2>1
<1>12. ASSUME NEW s, Goto(Importer, s), s \in Late \cup {"ret"}, A \in Late, Sound'
       PROVE  ImportStepOK
  BY <1>6, <1>8, <1>12
<1>13. CASE OpenCheckMain(Importer)
  <2>1. A = "o_main" /\ hdl' = hdl
    BY <1>13 DEF OpenCheckMain, A
  <2>2. Goto(Importer, "o_open")
    BY <1>1, <1>13, <2>1 DEF OpenCheckMain, Opening, P
  <2> QED BY <1>10, <1>11, <2>1, <2>2
<1>14. CASE OpenMain(Importer)
  <2>1. A = "o_open" /\ \E s \in {"o_fn", MainTables[1]} : Goto(Importer, s)
    BY <1>14 DEF OpenMain, A
  <2>2. hdl'[P].stat = "null"
    BY <1>1, <1>10, <1>14, <2>1 DEF OpenMain, P, Opening
  <2>3. "o_fn" \in Early /\ MainTables[1] \in Early /\ MainTables[1] # "o_main"
    BY <1>10, TablesAre, FirstTables DEF Early
  <2> QED BY <1>6, <1>8, <2>1, <2>2, <2>3
<1>15. CASE CreateMainTable(Importer)
  <2>1. A \in Tables(MainTables) /\ A \in Early /\ hdl' = hdl
    BY <1>15 DEF CreateMainTable, A, Early
  <2>2. NextTable(MainTables, A, "o_fn") \in Tables(MainTables) \cup {"o_fn"}
    BY <2>1, Creation
  <2>3. \/ Goto(Importer, NextTable(MainTables, A, "o_fn"))
        \/ Goto(Importer, "refused_create") \/ Goto(Importer, "ret")
    BY <1>4, <1>15 DEF CreateMainTable, A, CreateOutcome
  <2>4. \A s \in Tables(MainTables) \cup {"o_fn", "refused_create"} : s \in Early /\ s # "o_main"
    BY TablesAre DEF Early
  <2> QED BY <1>11, <2>1, <2>2, <2>3, <2>4
<1>16. CASE OpenRegister(Importer)
  <2>1. A = "o_fn" /\ A \in Early /\ hdl[P].stat = "null"
    BY <1>1, <1>10, <1>16 DEF OpenRegister, A, Opening
  <2>2. hdl'[P].stat = "null" /\ hdl'[P].main = hdl[P].main
        /\ hdl'[P].fn = (hdl[P].main = "open")
    BY <1>16, <2>1 DEF OpenRegister, P
  <2>3. ASSUME NEW s, Goto(Importer, s), s \in {"ret", "refused_create"} PROVE ImportStepOK
    BY <1>6, <1>8, <1>10, <2>2, <2>3
  <2>4. ASSUME NEW s, Goto(Importer, s), s \in {"o_trigger", "o_stat"},
               hdl[P].main = "open", "trigger" \in made'
        PROVE  ImportStepOK
    <3>1. Sound'
      BY <2>2, <2>4 DEF Sound, TriggerLast
    <3> QED BY <1>6, <1>8, <1>10, <2>4, <3>1
  <2>5. CASE hdl[P].main = "open" /\ TriggerExists(Importer)
    BY <1>4, <2>3, <2>4, <2>5 DEF TriggerExists
  <2>6. CASE hdl[P].main = "open" /\ TriggerMade(Importer)
    BY <1>4, <2>3, <2>4, <2>6 DEF TriggerMade, CreateOutcome
  <2>7. CASE hdl[P].main # "open"
    <3>1. Goto(Importer, "ret")
      BY <1>4, <1>16, <2>7 DEF OpenRegister, P
    <3> QED BY <2>3, <3>1
  <2> QED BY <1>16, <2>5, <2>6, <2>7 DEF OpenRegister, P
<1>17. ASSUME A \in Late, hdl' = hdl PROVE Sound'
  BY <1>1, <1>9, <1>17 DEF Opening
<1>18. CASE OpenTrigger(Importer)
  BY <1>10, <1>12, <1>17, <1>18 DEF OpenTrigger, A
<1>19. CASE OpenCheckStat(Importer)
  BY <1>4, <1>10, <1>12, <1>17, <1>19 DEF OpenCheckStat, A
<1>20. CASE OpenStat(Importer)
  <2>1. A = "o_sopen" /\ A \in Late /\ (Goto(Importer, "ret") \/ Goto(Importer, "t_year"))
    BY <1>4, <1>10, <1>20, FirstTables DEF OpenStat, A
  <2>2. Sound'
    BY <1>1, <1>5, <1>20, <2>1 DEF OpenStat, P, Opening, Sound
  <2>3. "t_year" \in Late
    BY TablesAre DEF Late
  <2> QED BY <1>12, <2>1, <2>2, <2>3
<1>21. CASE CreateStatTable(Importer)
  <2>1. A \in Tables(StatCreation) /\ A \in Late /\ hdl' = hdl
    BY <1>21 DEF CreateStatTable, A, Late
  <2>2. NextTable(StatCreation, A, "o_done") \in Tables(StatCreation) \cup {"o_done"}
    BY <2>1, Creation
  <2>3. \/ Goto(Importer, NextTable(StatCreation, A, "o_done"))
        \/ Goto(Importer, "refused_screate") \/ Goto(Importer, "ret")
    BY <1>4, <1>21 DEF CreateStatTable, A, CreateOutcome
  <2> QED BY <1>12, <1>17, <2>1, <2>2, <2>3 DEF Late
<1>22. CASE OpenDone(Importer)
  <2>1. Goto(Importer, "ret") /\ hdl' = hdl
        /\ A \in {"refused_create", "refused_screate", "o_done"}
    BY <1>4, <1>22 DEF OpenDone, A
  <2> QED BY <1>10, <1>11, <1>12, <1>17, <2>1
<1>23. Open(Importer)
  <2>1. A \notin {"b_main", "b_stat", "e_main", "e_stat", "c_main", "c_stat", "c_null", "c_snull",
                  "check", "exec", "refused_main", "refused_stat", "refused_status", "commit",
                  "s_hour", "s_day"} \cup Levels
    BY <1>6, TablesAre DEF Early, Late, Levels
  <2>2. ~Insert(Importer) /\ ~MarkStat(Importer)
    BY <2>1, InsertAt DEF A, Insert
  <2>3. ~Transaction(Importer) /\ ~Close(Importer)
    BY <2>1, TransactionAt DEF A, Transaction, Close
  <2> QED BY <2>2, <2>3 DEF DbStep
<1> QED BY <1>13, <1>14, <1>15, <1>16, <1>18, <1>19, <1>20, <1>21, <1>22, <1>23 DEF Open

\* The transactions begin, or the import goes on without them.
LEMMA BeginningStep ==
    ASSUME ImportFacts, ipc = "rows", Beginning, DbStep(Importer), UNCHANGED importVars,
           TriggerLast'
    PROVE  ImportStepOK
<1> USE DEF ImportFacts
<1>1. BeforeBegin /\ UNCHANGED <<ipc, left>> /\ P \notin stat.intx
  BY DEF importVars, Beginning, BeforeBegin
<1>2. \A s : Goto(Importer, s) => A' = s
  BY GotoIs DEF A
<1>3. ASSUME Goto(Importer, "ret"), P \notin stat'.intx PROVE ImportStepOK
  <2>1. Lost'
    BY <1>2, <1>3 DEF Lost, Transacting
  <2> QED BY <1>1, <2>1 DEF ImportInv, ImportStepOK
<1>4. CASE BeginMain(Importer)
  <2>1. UNCHANGED <<stat, made, hdl>>
    BY <1>4 DEF BeginMain
  <2>2. CASE main' = Begun(main, P) /\ Goto(Importer, "b_stat")
    <3>1. P \in main'.intx /\ A' = "b_stat"
      BY <1>2, <2>2 DEF Begun, Files
    <3>2. Beginning'
      BY <1>1, <2>1, <3>1 DEF Beginning, BeforeBegin, Sound
    <3> QED BY <1>1, <3>2 DEF ImportInv, ImportStepOK
  <2>3. CASE Goto(Importer, "ret")
    BY <1>1, <1>3, <2>1, <2>3
  <2> QED BY <1>4, <2>2, <2>3 DEF BeginMain, P
<1>5. CASE BeginStat(Importer)
  <2>1. A = "b_stat" /\ Goto(Importer, "ret") /\ UNCHANGED <<main, made, hdl>>
    BY <1>5 DEF BeginStat, A
  <2>2. CASE hdl[P].stat = "open" /\ stat' = Begun(stat, P)
    <3>1. P \in stat'.intx /\ P \in main'.intx /\ A' = "ret"
      BY <1>2, <2>1, <2>2 DEF Begun, Files, Beginning
    <3>2. Sound' /\ hdl'[P].stat = "open"
      BY <1>1, <2>1, <2>2 DEF BeforeBegin, Sound
    <3>3. Taken'
      BY <1>1 DEF BeforeBegin, Taken
    <3>4. Importing'
      BY <3>1, <3>2, <3>3 DEF Importing, Waiting
    <3> QED BY <1>1, <3>4 DEF ImportInv, ImportStepOK
  <2>3. CASE stat' = stat
    BY <1>1, <1>3, <2>1, <2>3
  <2> QED BY <1>1, <1>5, <2>2, <2>3 DEF BeginStat, P
<1>6. A \in {"b_main", "b_stat"}
  BY DEF Beginning
<1>7. BeginMain(Importer) \/ BeginStat(Importer)
  <2>1. ~Open(Importer)
    BY <1>6, OpenAt, TablesAre DEF A, Open
  <2>2. ~Insert(Importer) /\ ~MarkStat(Importer)
    BY <1>6, InsertAt DEF A, Insert, Levels
  <2> QED BY <1>6, <2>1, <2>2, TransactionAt DEF A, DbStep, Transaction, Close
<1> QED BY <1>4, <1>5, <1>7

LEMMA ImportingStep ==
    ASSUME ImportFacts, ipc = "rows", Importing, DbStep(Importer), UNCHANGED importVars,
           TriggerLast'
    PROVE  ImportStepOK
<1> USE DEF ImportFacts
<1>1. Importing /\ Sound
  BY DEF Importing
<1>2. UNCHANGED <<ipc, left>>
  BY DEF importVars
<1>3. \A s : Goto(Importer, s) => A' = s /\ (s # "ret" => arg'[Importer] = arg[Importer])
  BY GotoIs DEF A
<1>4. stat'.intx = stat.intx /\ made \subseteq made'
  <2>1. A \notin {"b_stat", "e_stat", "c_stat"}
    BY <1>1 DEF Importing, Waiting, Levels
  <2> QED BY <2>1, StatChange, DbStepMade DEF A
\* A step that adds a row to what the command sees, or none.
<1>5. ASSUME NEW s, Goto(Importer, s), hdl' = hdl,
             s \in {"ret", "refused_stat", "commit"} \cup Waiting \cup Levels,
             s \in Waiting => A \in Waiting,
             main'.intx = main.intx, main'.disk = main.disk,
             Seen(main, P) \subseteq Seen(main', P),
             A \in Waiting /\ s \notin Waiting => arg[Importer] \in Seen(main', P)
      PROVE  ImportStepOK
  <2>1. A' = s
    BY <1>3, <1>5
  <2>2. s \in Waiting => arg'[Importer] = arg[Importer]
    BY <1>3, <1>5 DEF Waiting
  <2>3. Taken'
    BY <1>1, <1>2, <1>5, <2>1, <2>2 DEF Importing, Taken
  <2>4. Importing'
    BY <1>1, <1>2, <1>4, <1>5, <2>1, <2>2, <2>3 DEF Importing, Sound
  <2> QED BY <1>1, <1>2, <1>5, <2>4 DEF ImportInv, ImportStepOK
<1>6. ASSUME NEW s, Goto(Importer, s), UNCHANGED <<main, hdl>>,
             s \in {"ret", "refused_stat", "commit"} \cup Waiting \cup Levels,
             s \in Waiting => A \in Waiting, A \in Waiting => s \in Waiting
      PROVE  ImportStepOK
  BY <1>5, <1>6
<1>7. Opened(Importer) /\ A \in Waiting => Goto(Importer, "check")
  BY <1>1 DEF Opened, Importing
<1>8. CASE OpenCheckMain(Importer)
  <2>1. A = "o_main" /\ Goto(Importer, "o_stat") /\ UNCHANGED <<main, hdl>>
    BY <1>1, <1>8 DEF OpenCheckMain, A, P, Sound
  <2> QED BY <1>6, <2>1 DEF Waiting
<1>9. CASE OpenCheckStat(Importer)
  <2>1. A = "o_stat" /\ UNCHANGED <<main, hdl>>
    BY <1>9 DEF OpenCheckStat, A
  <2>2. Opened(Importer)
    BY <1>1, <1>9 DEF OpenCheckStat, P, Importing
  <2>3. Goto(Importer, "check")
    BY <1>7, <2>1, <2>2 DEF Waiting
  <2> QED BY <1>6, <2>1, <2>3 DEF Waiting
<1>10. CASE InsertCheck(Importer)
  <2>1. A = "check" /\ Goto(Importer, "exec") /\ UNCHANGED <<main, hdl>>
    BY <1>1, <1>10 DEF InsertCheck, A, P, Importing, Sound
  <2> QED BY <1>6, <2>1 DEF Waiting
<1>11. CASE InsertExec(Importer)
  <2> DEFINE rows == Seen(main, P)
  <2>1. A = "exec" /\ hdl' = hdl /\ P \in main.intx
    BY <1>1, <1>11 DEF InsertExec, A, Importing
  <2>3. CASE main' = Sharing(main, P) /\ Goto(Importer, "refused_main")
    <3>1. main'.disk = main.disk /\ main'.intx = main.intx /\ Seen(main', P) = rows
      BY <2>3 DEF Sharing, Files, Seen
    <3> QED BY <1>5, <2>1, <2>3, <3>1 DEF Waiting
  <2>4. CASE /\ main' = AfterStatement(Written(main, P, rows), P)
             /\ Goto(Importer, "ret") /\ arg[Importer] \in rows
    <3>1. main' = Written(main, P, rows)
      BY <2>1, <2>4 DEF AfterStatement, Written, Files
    <3>2. main'.disk = main.disk /\ main'.intx = main.intx /\ Seen(main', P) = rows
      BY <3>1 DEF Written, Files, Seen
    <3> QED BY <1>5, <2>1, <2>4, <3>2 DEF Waiting
  <2>5. CASE /\ main' = Written(main, P, rows \cup {arg[Importer]})
             /\ Goto(Importer, "hour")
    <3>1. /\ main'.disk = main.disk /\ main'.intx = main.intx
          /\ Seen(main', P) = rows \cup {arg[Importer]}
      BY <2>5 DEF Written, Files, Seen
    <3> QED BY <1>5, <2>1, <2>5, <3>1 DEF Waiting, Levels
  <2>6. "trigger" \in made
    BY <1>1 DEF Sound
  <2> QED BY <1>11, <2>3, <2>4, <2>5, <2>6 DEF InsertExec, P
<1>12. CASE InsertRetry(Importer)
  <2>1. A = "refused_main" /\ Goto(Importer, "exec") /\ hdl' = hdl
    BY <1>12 DEF InsertRetry, A
  <2>3. main'.disk = main.disk /\ main'.intx = main.intx /\ Seen(main', P) = Seen(main, P)
    BY <1>12 DEF InsertRetry, P, Unsharing, Files, Seen
  <2> QED BY <1>5, <2>1, <2>3 DEF Waiting
<1>13. CASE CountStat(Importer)
  <2>1. /\ A \in Levels /\ UNCHANGED <<main, hdl>>
        /\ \E s \in Levels \cup {"commit", "refused_stat"} : Goto(Importer, s)
    BY <1>13 DEF CountStat, StatExec, A, NextLevel, Levels
  <2> QED BY <1>6, <2>1 DEF Waiting, Levels
<1>14. CASE RefusedStat(Importer)
  <2>1. A \in {"refused_stat", "refused_status"} /\ UNCHANGED <<main, hdl>>
    BY <1>14 DEF RefusedStat, A
  <2>2. A = "refused_stat"
    BY <1>1, <2>1 DEF Importing, Waiting, Levels
  <2>3. Goto(Importer, "commit")
    BY <1>14, <2>2 DEF RefusedStat, A
  <2> QED BY <1>6, <2>1, <2>2, <2>3 DEF Waiting
<1>15. CASE InsertEnds(Importer)
  <2>1. A = "commit" /\ P \in main.intx /\ hdl' = hdl
    BY <1>1, <1>15 DEF InsertEnds, A, Importing
  <2>2. main' = main /\ Goto(Importer, "ret")
    BY <1>15, <2>1 DEF InsertEnds, StatementEnds, AfterStatement, P
  <2> QED BY <1>6, <2>1, <2>2 DEF Waiting
<1>16. /\ A \in {"ret", "refused_stat", "commit", "o_main", "o_stat", "check", "exec",
                 "refused_main"} \cup Levels
       /\ ~InsertFails(Importer)
  <2>1. InsertPrepares(P) /\ hdl[P].main = "open"
    BY <1>1 DEF InsertPrepares, Sound
  <2> QED BY <1>1, <2>1 DEF Importing, Waiting, InsertFails, P
<1>17. CASE Open(Importer)
  <2>1. OpenCheckMain(Importer) \/ OpenCheckStat(Importer)
    BY <1>16, <1>17, OpenAt, TablesAre DEF A, Open, Levels
  <2> QED BY <1>8, <1>9, <2>1
<1>18. CASE Insert(Importer)
  BY <1>10, <1>11, <1>12, <1>13, <1>14, <1>15, <1>16, <1>18 DEF Insert
<1>19. ~MarkStat(Importer) /\ ~Transaction(Importer) /\ ~Close(Importer)
  BY <1>16, InsertAt, TransactionAt DEF A, Transaction, Close, Levels
<1> QED BY <1>17, <1>18, <1>19 DEF DbStep

\* Nothing leads back to the BEGIN.
LEMMA LostStep ==
    ASSUME ImportFacts, Lost, ipc \in {"rows", "end"}, DbStep(Importer), UNCHANGED importVars,
           TriggerLast'
    PROVE  ImportStepOK
<1> USE DEF ImportFacts
<1>1. UNCHANGED ipc
  BY DEF importVars
<1>2. Opened(Importer) \/ \E s : StepOK(Importer, s)
  BY OpenGoes, InsertGoes, OtherGoes DEF DbStep
<1>3. A' \notin Transacting
  <2>1. CASE Opened(Importer)
    <3>1. \E s \in {"ret", "check"} : Goto(Importer, s)
      BY <2>1 DEF Opened
    <3> QED BY <3>1, GotoIs DEF A, Transacting
  <2>2. ASSUME NEW s, StepOK(Importer, s) PROVE A' \notin Transacting
    <3>1. s \notin Transacting /\ Goto(Importer, s)
      BY <2>2 DEF StepOK, Lost, A
    <3> QED BY <3>1, GotoIs DEF A
  <2> QED BY <1>2, <2>1, <2>2
<1>4. P \notin stat'.intx
  <2>1. CASE A = "c_stat"
    <3>1. CloseStat(Importer)
      BY <2>1, OpenAt, InsertAt, TransactionAt, TablesAre
         DEF A, DbStep, Open, Insert, Transaction, Close, Levels
    <3>2. stat' \in {stat, Closed(stat, P)}
      BY <3>1 DEF CloseStat, P
    <3>3. stat'.intx \in {stat.intx, stat.intx \ {P}}
      <4> DEFINE g == RolledBack(stat, P)
      <4>1. g.intx = stat.intx /\ "intx" \in DOMAIN g
        BY DEF RolledBack, Files
      <4>2. Closed(stat, P) = [g EXCEPT !.intx = @ \ {P}, !.shared = @ \ {P}]
        BY DEF Closed
      <4> HIDE DEF g
      <4> QED BY <3>2, <4>1, <4>2
    <3> QED BY <3>3 DEF Lost
  <2>2. CASE A # "c_stat"
    <3>1. stat'.intx = stat.intx
      BY <2>2, StatChange DEF A, Lost, Transacting
    <3> QED BY <3>1 DEF Lost
  <2> QED BY <2>1, <2>2
<1>5. Lost'
  BY <1>3, <1>4 DEF Lost
<1> QED BY <1>1, <1>5 DEF ImportInv, ImportStepOK, Lost

LEMMA EndingStep ==
    ASSUME ImportFacts, ipc = "end", Ending, DbStep(Importer), UNCHANGED importVars, TriggerLast'
    PROVE  ImportStepOK
<1> USE DEF ImportFacts
<1>1. Ending
  OBVIOUS
<1>2. UNCHANGED <<ipc, left>>
  BY DEF importVars
<1>3. \A s : Goto(Importer, s) => A' = s
  BY GotoIs DEF A
<1>4. \A m \in ImportRows : m \in Seen(main, P)
  BY <1>1 DEF Ending, Taken, Waiting
<1>5. ASSUME UNCHANGED main,
             \E s \in {"s_day", "refused_status", "ret"} : Goto(Importer, s)
      PROVE  ImportStepOK
  <2>1. A' \in {"s_day", "refused_status", "ret"}
    BY <1>3, <1>5
  <2>2. Taken'
    BY <1>4, <1>5 DEF Taken
  <2>3. Ending'
    BY <1>1, <1>2, <1>5, <2>1, <2>2 DEF Ending
  <2> QED BY <1>1, <1>2, <1>5, <2>3 DEF ImportInv, ImportStepOK
<1>6. CASE MarkStat(Importer)
  BY <1>5, <1>6 DEF MarkStat, StatExec
<1>7. CASE RefusedStat(Importer)
  BY <1>1, <1>5, <1>7 DEF RefusedStat, A, Ending
<1>8. A \in {"s_hour", "s_day", "refused_status", "ret"}
  BY <1>1 DEF Ending
<1>9. ~Open(Importer)
  BY <1>8, OpenAt, TablesAre DEF A, Open
<1>10. Insert(Importer) => RefusedStat(Importer)
  BY <1>8, InsertAt DEF A, Insert, Levels
<1>11. ~Transaction(Importer) /\ ~Close(Importer)
  BY <1>8, TransactionAt DEF A, Transaction, Close
<1> QED BY <1>6, <1>7, <1>9, <1>10, <1>11 DEF DbStep

\* The only step that commits rows is the END.
LEMMA LeavingStep ==
    ASSUME ImportFacts, ipc = "close", DbStep(Importer), UNCHANGED importVars, TriggerLast'
    PROVE  ImportStepOK
<1> USE DEF ImportFacts
<1>1. Leaving
  BY DEF ImportInv
<1>2. UNCHANGED <<ipc, left>>
  BY DEF importVars
<1>3. ASSUME \E s \in {"e_stat", "ret"} : Goto(Importer, s) PROVE ImportInv'
  <2>1. A' \in {"e_stat", "ret"}
    BY <1>3, GotoIs DEF A
  <2> QED BY <1>1, <1>2, <1>3, <2>1 DEF ImportInv, Leaving
<1>4. CASE EndMain(Importer)
  <2>1. A = "e_main" /\ (P \in stat.intx => ImportRows \subseteq Seen(main, P))
    BY <1>1, <1>4 DEF EndMain, A, Leaving
  <2>2. main' \in {main, Ended(main, P), EndRefused(main, P)}
    BY <1>4 DEF EndMain, P
  <2>3. main'.disk # main.disk => main'.disk = Seen(main, P)
    BY <2>2 DEF Ended, Committed, EndRefused, Files, Seen
  <2> QED BY <1>3, <1>4, <2>1, <2>3 DEF EndMain, ImportStepOK
<1>5. CASE EndStat(Importer)
  BY <1>3, <1>5 DEF EndStat, ImportStepOK
<1>6. A \in {"e_main", "e_stat", "ret"}
  BY <1>1 DEF Leaving
<1>7. ~Open(Importer)
  BY <1>6, OpenAt, TablesAre DEF A, Open
<1>8. ~Insert(Importer) /\ ~MarkStat(Importer)
  BY <1>6, InsertAt DEF A, Insert, Levels
<1>9. ~BeginMain(Importer) /\ ~BeginStat(Importer) /\ ~Close(Importer)
  BY <1>6, TransactionAt DEF A, Close
<1> QED BY <1>4, <1>5, <1>7, <1>8, <1>9 DEF DbStep, Transaction

LEMMA ExitStep ==
    ASSUME ImportFacts, ipc = "exit", DbStep(Importer), UNCHANGED importVars, TriggerLast'
    PROVE  ImportStepOK
<1> USE DEF ImportFacts
<1>1. A \in Closing \cup {"ret"} /\ ipc' = "exit"
  BY DEF ImportInv, importVars
<1>2. A \in {"c_main", "c_null", "c_stat", "c_snull", "ret"}
  BY <1>1 DEF Closing
<1>3. CASE Close(Importer)
  <2>1. \E s \in Closing \cup {"ret"} : Goto(Importer, s)
    BY <1>3 DEF Close, CloseMain, CloseStat, CloseReset, Closing
  <2>2. main' \in {main, Closed(main, P)}
    BY <1>3 DEF Close, CloseMain, CloseStat, CloseReset, P
  <2>3. main'.disk = main.disk
    BY <2>2 DEF Closed, RolledBack, Files
  <2>4. A' \in Closing \cup {"ret"}
    BY <2>1, GotoIs DEF A
  <2> QED BY <1>1, <2>1, <2>3, <2>4 DEF ImportInv, ImportStepOK
<1>4. ~Open(Importer)
  BY <1>2, OpenAt, TablesAre DEF A, Open
<1>5. ~Insert(Importer) /\ ~MarkStat(Importer)
  BY <1>2, InsertAt DEF A, Insert, Levels
<1>6. ~Transaction(Importer)
  BY <1>2, TransactionAt DEF A, Transaction
<1> QED BY <1>3, <1>4, <1>5, <1>6 DEF DbStep

\* The process ends.
LEMMA ImportCrash ==
    ASSUME ImportFacts, ImportMisuseCrash
    PROVE  ImportStepOK
<1> USE DEF ImportFacts
<1>1. ipc' = "exit" /\ made' = made /\ main' = Closed(main, P)
  BY DEF ImportMisuseCrash, DbDies, P
<1>2. A' = "ret"
  BY DEF ImportMisuseCrash, DbDies, A
<1>3. main'.disk = main.disk
  BY <1>1 DEF Closed, RolledBack, Files
<1> QED BY <1>1, <1>2, <1>3 DEF ImportInv, TriggerLast, ImportStepOK

LEMMA ImportInvStep ==
    ASSUME ImportInv, SystemInv, [SystemNext]_allVars
    PROVE  /\ ImportInv'
           /\ A' # A /\ main'.disk # main.disk /\ P \in stat.intx
              => ImportRows \subseteq main'.disk
<1>1. CASE DaemonNext
  BY <1>1, DaemonLeavesImport
<1>2. CASE ImportNext
  <2>1. ImportFacts
    BY ImportFactsHold
  <2>2. CASE DbStep(Importer) /\ UNCHANGED importVars
    <3> SUFFICES ImportStepOK
      BY DEF ImportStepOK
    <3>1. ipc # "none"
      <4>1. ipc = "none" => A = "ret"
        BY DEF ImportInv
      <4>2. A # "ret"
        BY <2>2, OpenAt, InsertAt, TransactionAt, TablesAre
           DEF A, DbStep, Open, Insert, Transaction, Close, Levels
      <4> QED BY <4>1, <4>2
    <3>2. TriggerLast'
      BY <2>1, <2>2, TriggerStep DEF ImportFacts, ImportInv
    <3>3. CASE ipc = "open"
      BY <2>1, <2>2, <3>2, <3>3, OpeningStep
    <3>4. CASE ipc = "rows"
      <4>1. Beginning \/ Importing \/ Lost
        BY <3>4 DEF ImportInv
      <4> QED BY <2>1, <2>2, <3>2, <3>4, <4>1, BeginningStep, ImportingStep, LostStep
    <3>5. CASE ipc = "end"
      <4>1. Ending \/ Lost
        BY <3>5 DEF ImportInv
      <4> QED BY <2>1, <2>2, <3>2, <3>5, <4>1, EndingStep, LostStep
    <3>6. CASE ipc = "close"
      BY <2>1, <2>2, <3>2, <3>6, LeavingStep
    <3>7. CASE ipc = "exit"
      BY <2>1, <2>2, <3>2, <3>7, ExitStep
    <3>8. ipc \in {"open", "rows", "end", "close", "exit"}
      BY <3>1 DEF SystemInv, ImportTypes
    <3> QED BY <3>3, <3>4, <3>5, <3>6, <3>7, <3>8
  <2>3. CASE ImportMisuseCrash
    BY <2>1, <2>3, ImportCrash DEF ImportStepOK
  <2>4. CASE \/ RefuseImport \/ StartImport \/ ImportBegin \/ ImportRow
             \/ ImportFails \/ ImportStatus \/ ImportEnd \/ ImportClose
    <3>1. UNCHANGED <<main, stat, made, hdl>>
      BY <2>4 DEF RefuseImport, StartImport, ImportBegin, ImportRow, ImportFails,
                  ImportStatus, ImportEnd, ImportClose, CallOpen, CallBegin, CallInsert,
                  CallStatus, CallEnd, CallClose, Call, dbVars
    <3> QED BY <2>1, <2>4, <3>1, ImportCalls
  <2> QED BY <1>2, <2>2, <2>3, <2>4 DEF ImportNext, ImportStep
<1>3. CASE UNCHANGED allVars
  <2>1. UNCHANGED <<ipc, left, main, stat, made, hdl, at, arg>>
    BY <1>3 DEF allVars, vars, dbVars, importVars
  <2> QED BY <2>1
          DEF ImportInv, TriggerLast, Opening, Beginning, BeforeBegin, Importing, Lost, Ending,
              Leaving, Sound, Taken, A
<1> QED BY <1>1, <1>2, <1>3 DEF SystemNext

\* An import that has begun both its transactions takes effect at once or not
\* at all, however the daemon records meanwhile, creates the files itself,
\* whatever is refused and wherever the SELECT on the imported file fails
\* (db_import.c:157-178).
THEOREM ImportIsAtomic == SystemSpec => ImportAtomic
<1>1. SystemInit => ImportInv
  <2> SUFFICES ASSUME SystemInit PROVE ImportInv
    OBVIOUS
  <2>1. P \in Procs
    BY ImportAssumption, DbAssumption DEF P
  <2>2. P \notin stat.intx
    BY DEF SystemInit, Init, DbInit, NewFile
  <2>3. hdl[P].main = "null" /\ hdl[P].stat = "null" /\ A = "ret"
    BY <2>1, ImportAssumption DEF SystemInit, Init, DbInit, A
  <2>4. TriggerLast
    BY TablesAre DEF SystemInit, Init, DbInit, TriggerLast, Schema
  <2> QED BY <2>2, <2>3, <2>4 DEF SystemInit, ImportInit, ImportInv, BeforeBegin
<1>2. ImportInv /\ SystemInv /\ [SystemNext]_allVars => ImportInv'
  BY ImportInvStep
<1>3. ImportInv /\ SystemInv /\ [SystemNext]_allVars =>
        [/\ at'[Importer] # at[Importer] /\ main'.disk # main.disk
         /\ ProcOf[Importer] \in stat.intx
         => ImportRows \subseteq main'.disk]_allVars
  BY ImportInvStep DEF A, P
<1> QED BY <1>1, <1>2, <1>3, SystemInductive, PTL DEF SystemSpec, ImportAtomic
===============================================================================
