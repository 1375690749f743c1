--------------------------------- MODULE Cm160 --------------------------------
(***************************************************************************)
(* cm160.c: the daemon that downloads the history of the device, then      *)
(* records its new minutes, through db.c.                                  *)
(*                                                                         *)
(* The main thread runs one session per connection of the device.  The DB  *)
(* frames of a session are buffered in history[] until the first LIVE      *)
(* frame, which starts a worker thread that inserts the buffer within one  *)
(* transaction; later DB frames are inserted by the main thread, on the    *)
(* same connections.  Workers outlive the session that started them.       *)
(*                                                                         *)
(* The device has recorded the minutes 1..now and holds the last Memory of *)
(* them.  At every connection it sends those it holds, oldest first, then  *)
(* each new one; sent is the last it has sent in this session.             *)
(***************************************************************************)
EXTENDS Db, FiniteSetsExt

CONSTANTS
    Main,            \* the main thread of the daemon
    Workers,         \* its history threads
    Daemon,          \* its process
    Readers,         \* web pages that read the statistics
    HISTORY_SIZE,    \* frames the history buffer holds
    Stored,          \* minutes in the device before the first connection
    Memory,          \* minutes the device holds
    Mixed,           \* Mixed[m][n]: the minutes that a reader of a slot can
                     \* decode while the frame of n overwrites that of m
    MaxDamaged,      \* bound: frames of a session that arrive damaged
    MaxDrops,        \* bound: disconnections of the device
    QuietDrops,      \* bound: only while no history thread runs
    MaxCrashes       \* bound: crashes of the daemon

\* The threads of the daemon are its main thread and its history threads.
ASSUME DaemonAssumption ==
    /\ Minutes # {} /\ Minutes = 1..Cardinality(Minutes)
    /\ Main \in Threads \ Workers /\ Workers \subseteq Threads
    /\ \A t \in Threads : ProcOf[t] = Daemon <=> t \in {Main} \cup Workers
    /\ Readers \cap Procs = {}
    /\ HISTORY_SIZE \in Nat /\ Stored \in Minutes \cup {0} /\ Memory \in Nat
    /\ Mixed \in [Minutes -> [Minutes -> SUBSET Minutes]]
    /\ MaxDamaged \in Nat /\ MaxDrops \in Nat /\ MaxCrashes \in Nat
    /\ QuietDrops \in BOOLEAN

VARIABLES
    pc,                 \* main thread: where it is in main and process_frame
    receive_history,
    frame_id,
    history,            \* the buffer, with what earlier sessions left in it
    wk,                 \* per worker: where it is in insert_db_history, its
                        \* num_elems and its i
    now, sent,          \* the device
    damaged,            \* minutes whose frame was damaged in this session
    drops, crashes      \* faults so far

daemonVars == <<pc, receive_history, frame_id, history, wk>>
deviceVars == <<now, sent, damaged, drops, crashes>>
vars == <<dbVars, daemonVars, deviceVars>>

LastMinute == CHOOSE m \in Minutes : \A n \in Minutes : n <= m

\* The minutes the device has forgotten are 1..Forgotten.
Forgotten == IF now > Memory THEN now - Memory ELSE 0

IdleWorker == [pc |-> "idle", num |-> 0, i |-> 0]

IdleWorkers == {w \in Workers : wk[w].pc = "idle"}

Init ==
    /\ DbInit
    /\ pc = "boot"
    /\ receive_history = TRUE
    /\ frame_id = 0
    /\ history = [k \in 1..HISTORY_SIZE |-> NoMinute]
    /\ wk = [w \in Workers |-> IdleWorker]
    /\ now = Stored
    /\ sent = 0
    /\ damaged = {}
    /\ drops = 0
    /\ crashes = 0

-------------------------------------------------------------------------------
(* The main thread between two sessions.                                   *)

StartLoop ==
    /\ pc = "boot"
    /\ CallOpen(Main)
    /\ pc' = "opening"
    /\ UNCHANGED <<receive_history, frame_id, history, wk, deviceVars>>

ScanUsb ==
    /\ pc = "opening" /\ at[Main] = "ret"
    /\ receive_history' = TRUE
    /\ frame_id' = 0
    /\ pc' = "scanning"
    /\ UNCHANGED <<dbVars, history, wk, deviceVars>>

\* The device is found and opened; it starts to send its memory.
Connect ==
    /\ pc = "scanning"
    /\ pc' = "session"
    /\ sent' = Forgotten
    /\ damaged' = {}
    /\ UNCHANGED <<dbVars, receive_history, frame_id, history, wk, now, drops, crashes>>

\* bulk_read fails: io_loop and handle_device return and main closes.
Disconnect ==
    /\ pc = "session" /\ drops < MaxDrops
    /\ QuietDrops => IdleWorkers = Workers
    /\ drops' = drops + 1
    /\ CallClose(Main)
    /\ pc' = "closing"
    /\ UNCHANGED <<receive_history, frame_id, history, wk, now, sent, damaged, crashes>>

Reopen ==
    /\ pc = "closing" /\ at[Main] = "ret"
    /\ pc' = "boot"
    /\ UNCHANGED <<dbVars, receive_history, frame_id, history, wk, deviceVars>>

-------------------------------------------------------------------------------
(* process_frame.                                                          *)

\* Mutant of BufferFrame: no check of the room left in the buffer.
BufferFrameUnchecked ==
    /\ pc = "session" /\ sent < now
    /\ receive_history
    /\ history' = [history EXCEPT ![frame_id + 1] = sent + 1]
    /\ frame_id' = frame_id + 1
    /\ sent' = sent + 1
    /\ UNCHANGED <<dbVars, pc, receive_history, wk, now, damaged, drops, crashes>>

\* A DB frame of the history: cached in the buffer.
BufferFrame ==
    /\ pc = "session" /\ sent < now
    /\ receive_history /\ frame_id < HISTORY_SIZE
    /\ history' = [history EXCEPT ![frame_id + 1] = sent + 1]
    /\ frame_id' = frame_id + 1
    /\ sent' = sent + 1
    /\ UNCHANGED <<dbVars, pc, receive_history, wk, now, damaged, drops, crashes>>

\* A DB frame of a new minute, or one that the buffer has no room for:
\* db_insert_hist, then db_update_status.
InsertFrame ==
    /\ pc = "session" /\ sent < now
    /\ ~(receive_history /\ frame_id < HISTORY_SIZE)
    /\ CallInsert(Main, sent + 1)
    /\ sent' = sent + 1
    /\ pc' = "insert"
    /\ UNCHANGED <<receive_history, frame_id, history, wk, now, damaged, drops, crashes>>

\* A DB frame with a bad checksum or ID is dropped.
DamagedFrame ==
    /\ pc = "session" /\ sent < now
    /\ Cardinality(damaged) < MaxDamaged
    /\ sent' = sent + 1
    /\ damaged' = damaged \cup {sent'}
    /\ UNCHANGED <<dbVars, daemonVars, now, drops, crashes>>

UpdateStatus ==
    /\ pc = "insert"
    /\ CallStatus(Main)
    /\ pc' = "status"
    /\ UNCHANGED <<receive_history, frame_id, history, wk, deviceVars>>

FrameDone ==
    /\ pc = "status" /\ at[Main] = "ret"
    /\ pc' = "session"
    /\ UNCHANGED <<dbVars, receive_history, frame_id, history, wk, deviceVars>>

\* The first LIVE frame of the session, sent after the whole memory, starts
\* a history thread; the others only refresh the .live file.  Which of the
\* idle threads of the model stands for it makes no difference.
FirstLive(w) ==
    /\ pc = "session" /\ sent = now
    /\ receive_history
    /\ IdleWorkers # {} /\ w = CHOOSE v \in IdleWorkers : TRUE
    /\ receive_history' = FALSE
    /\ wk' = [wk EXCEPT ![w] = [pc |-> "begin", num |-> frame_id, i |-> 0]]
    /\ UNCHANGED <<dbVars, pc, frame_id, history, deviceVars>>

MainThread ==
    \/ StartLoop \/ ScanUsb \/ Reopen
    \/ BufferFrame \/ InsertFrame \/ DamagedFrame \/ UpdateStatus \/ FrameDone

-------------------------------------------------------------------------------
(* insert_db_history: begin, insert each frame, mark, end.                 *)

Move(w, s) == wk' = [wk EXCEPT ![w].pc = s]

WorkerBegin(w) ==
    /\ wk[w].pc = "begin"
    /\ CallBegin(w)
    /\ Move(w, "loop")
    /\ UNCHANGED <<pc, receive_history, frame_id, history, deviceVars>>

WorkerInsert(w) ==
    /\ wk[w].pc = "loop" /\ wk[w].i < wk[w].num
    /\ CallInsert(w, history[wk[w].i + 1])
    /\ wk' = [wk EXCEPT ![w].i = @ + 1]
    /\ UNCHANGED <<pc, receive_history, frame_id, history, deviceVars>>

\* The next session buffers a frame in the slot the worker is reading, which
\* decodes a mix of both.
WorkerInsertTorn(w) ==
    /\ wk[w].pc = "loop" /\ wk[w].i < wk[w].num
    /\ frame_id = wk[w].i
    /\ pc = "session" /\ sent < now
    /\ receive_history
    /\ \E m \in Mixed[history[frame_id + 1]][sent + 1] : CallInsert(w, m)
    /\ wk' = [wk EXCEPT ![w].i = @ + 1]
    /\ history' = [history EXCEPT ![frame_id + 1] = sent + 1]
    /\ frame_id' = frame_id + 1
    /\ sent' = sent + 1
    /\ UNCHANGED <<pc, receive_history, now, damaged, drops, crashes>>

\* Mutant of WorkerStatus: the status is not updated after the history.
WorkerNoStatus(w) ==
    /\ wk[w].pc = "loop" /\ wk[w].i = wk[w].num
    /\ at[w] = "ret"
    /\ Move(w, "end")
    /\ UNCHANGED <<dbVars, pc, receive_history, frame_id, history, deviceVars>>

\* db_update_status once the whole buffer is inserted.
WorkerStatus(w) ==
    /\ wk[w].pc = "loop" /\ wk[w].i = wk[w].num
    /\ CallStatus(w)
    /\ Move(w, "end")
    /\ UNCHANGED <<pc, receive_history, frame_id, history, deviceVars>>

\* Mutant of WorkerEnd: the transaction is left open.
WorkerNoEnd(w) ==
    /\ wk[w].pc = "end"
    /\ at[w] = "ret"
    /\ Move(w, "exit")
    /\ UNCHANGED <<dbVars, pc, receive_history, frame_id, history, deviceVars>>

\* db_end_transaction, whose result the thread ignores.
WorkerEnd(w) ==
    /\ wk[w].pc = "end"
    /\ CallEnd(w)
    /\ Move(w, "exit")
    /\ UNCHANGED <<pc, receive_history, frame_id, history, deviceVars>>

WorkerExit(w) ==
    /\ wk[w].pc = "exit" /\ at[w] = "ret"
    /\ wk' = [wk EXCEPT ![w] = IdleWorker]
    /\ UNCHANGED <<dbVars, pc, receive_history, frame_id, history, deviceVars>>

Worker(w) ==
    \/ WorkerBegin(w) \/ WorkerInsert(w) \/ WorkerInsertTorn(w)
    \/ WorkerStatus(w) \/ WorkerEnd(w) \/ WorkerExit(w)

-------------------------------------------------------------------------------
(* The surroundings of the daemon.                                         *)

Thread(t) == DbStep(t) /\ UNCHANGED <<daemonVars, deviceVars>>

\* The device stores a new minute.
Tick ==
    /\ now < LastMinute
    /\ now' = now + 1
    /\ UNCHANGED <<dbVars, daemonVars, sent, damaged, drops, crashes>>

\* A page opens the two files, creating them empty where they are missing (a
\* PHP SQLite3 object opens with the flags READWRITE and CREATE).
PageOpens ==
    /\ Readers # {}
    /\ \E o \in {"db", "stat_db"} \ made : made' = made \cup {o}
    /\ UNCHANGED <<main, stat, hdl, at, arg, retries, daemonVars, deviceVars>>

\* A page runs a SELECT on the statistics, holding SHARED until it has
\* fetched the result; it waits while another connection commits.
StartReading(r) ==
    /\ "stat_db" \in made
    /\ r \notin stat.shared
    /\ Readable(stat, r)
    /\ stat' = Sharing(stat, r)
    /\ UNCHANGED <<main, made, hdl, at, arg, retries, daemonVars, deviceVars>>

StopReading(r) ==
    /\ r \in stat.shared
    /\ stat' = Unsharing(stat, r)
    /\ UNCHANGED <<main, made, hdl, at, arg, retries, daemonVars, deviceVars>>

\* The process ends and is started again (respawn): main returns because the
\* device cannot be opened, it is killed, or SQLite is misused.
DaemonDies ==
    /\ DbDies(Daemon)
    /\ pc' = "boot"
    /\ receive_history' = TRUE
    /\ frame_id' = 0
    /\ history' = [k \in 1..HISTORY_SIZE |-> NoMinute]
    /\ wk' = [w \in Workers |-> IdleWorker]
    /\ UNCHANGED <<now, sent, damaged>>

Crash ==
    /\ crashes < MaxCrashes
    /\ crashes' = crashes + 1
    /\ DaemonDies
    /\ UNCHANGED drops

DaemonThreads == {Main} \cup Workers

MisuseCrash(t) ==
    /\ Misuses(t)
    /\ DaemonDies
    /\ UNCHANGED <<drops, crashes>>

Next ==
    \/ MainThread
    \/ Connect
    \/ \E w \in Workers : FirstLive(w)
    \/ \E w \in Workers : Worker(w)
    \/ \E t \in DaemonThreads : Thread(t)
    \/ Tick
    \/ PageOpens
    \/ \E r \in Readers : StartReading(r) \/ StopReading(r)
    \/ Disconnect
    \/ Crash
    \/ \E t \in DaemonThreads : MisuseCrash(t)

Spec == Init /\ [][Next]_vars

\* Every thread keeps running outside db.c, the device keeps being plugged
\* and sending, and a page ends its SELECT.
Fairness ==
    /\ WF_vars(MainThread)
    /\ WF_vars(Connect)
    /\ WF_vars(\E w \in Workers : FirstLive(w))
    /\ \A w \in Workers : WF_vars(Worker(w))
    /\ \A r \in Readers : WF_vars(StopReading(r))

\* Every thread keeps running in db.c.
DbFairness == \A t \in DaemonThreads : WF_vars(Thread(t))

FairSpec == Spec /\ Fairness /\ DbFairness

-------------------------------------------------------------------------------

TypeOK ==
    /\ DbTypeOK
    /\ pc \in {"boot", "opening", "scanning", "session", "insert", "status", "closing"}
    /\ receive_history \in BOOLEAN
    /\ frame_id \in 0..HISTORY_SIZE
    /\ history \in [1..HISTORY_SIZE -> Minutes \cup {NoMinute}]
    /\ wk \in [Workers -> [pc : {"idle", "begin", "loop", "end", "exit"},
                           num : 0..HISTORY_SIZE, i : 0..HISTORY_SIZE]]
    /\ now \in Minutes \cup {0}
    /\ sent \in 0..now
    /\ damaged \subseteq 1..sent /\ Cardinality(damaged) <= MaxDamaged

\* The coarser tables never count more than the finer ones: the hours of a
\* day add up to at least its count, and so on to the year (update_stat_db
\* counts hour first and stops at the first failure, db.c:194-233).
FinerThan(l) == CASE l = "day"   -> "hour"
                  [] l = "month" -> "day"
                  [] l = "year"  -> "month"

PartsOf(c) ==
    LET f == FinerThan(c[1])
    IN  {Cell(f, m) : m \in InCell(Minutes, c)}

StatsNested ==
    \A c \in Cells : c[1] # "hour" =>
        stat.disk.count[c] <= MapThenSumSet(LAMBDA q : stat.disk.count[q], PartsOf(c))

\* What the daemon's connections see behaves like Ledger.
InTrigger == {t \in DaemonThreads : at[t] \in Trigger}

Cursor ==
    IF InTrigger = {} THEN [minute |-> NoMinute, level |-> "none"]
    ELSE LET t == CHOOSE t \in InTrigger : TRUE
         IN  [minute |-> arg[t],
              level |-> IF at[t] \in Levels THEN at[t] ELSE "done"]

Recorded == INSTANCE Ledger WITH
    rows <- Seen(main, Daemon),
    count <- Seen(stat, Daemon).count,
    complete <- Seen(stat, Daemon).complete,
    at <- Cursor,
    MayRefuse <- Readers # {}

LedgerSpec == Recorded!Spec

\* Every minute that the device holds, and whose frame arrived intact in the
\* last session, ends up committed in eagleowl.db.
Received == (Forgotten + 1 .. now) \ damaged

AllRecorded == <>[](Received \subseteq main.disk)

\* The same where the files may be created under a page or a crash: the table
\* energy_history is then missing for ever or lacks no received minute.
AllRecordedOnceCreated == <>[]("t_history" \in made => Received \subseteq main.disk)

\* A missing database is created with the tables of the OWL one and its
\* statistics (db.c:48, db.c:52, README:74).
FilesComplete == <>[](made = Schema)

\* What has been committed to either file stays: no history row, count or
\* status that a page could have read is ever taken back.
CommittedStays ==
    [][/\ main.disk \subseteq main'.disk
       /\ \A c \in Cells : stat.disk.count[c] <= stat'.disk.count[c]
       /\ stat.disk.complete \subseteq stat'.disk.complete]_vars

\* Every call of the daemon into db.c returns: its retry loop ends, and no
\* mutex or transaction of another thread or process holds it for ever.
CallsReturn == \A t \in DaemonThreads : at[t] # "ret" ~> at[t] = "ret"

\* No thread hands a closed or null connection to SQLite.
NoMisuse == \A t \in DaemonThreads : ~Misuses(t)

\* record_count is the number of minute records used to compute the stat
\* (sql_cmd.h:74): in the end every committed row of the history is counted
\* once in each table.
AllCounted ==
    <>[](\A c \in Cells : stat.disk.count[c] = Cardinality(InCell(main.disk, c)))

\* The same as an invariant, whenever no insert is under way and the daemon has
\* no transaction open: no statement of update_stat_db is ever abandoned.
CountedAtRest ==
    InTrigger = {} /\ main.owner # Daemon /\ stat.owner # Daemon
    => \A c \in Cells : stat.disk.count[c] = Cardinality(InCell(main.disk, c))

\* In the end the hours and days whose minutes are all in the history are
\* shown in blue (db.c:235-239).
AllBlue ==
    <>[](\A c \in Cells : c[1] \in StatusLevels /\ InCell(Minutes, c) \subseteq main.disk
                            => c \in stat.disk.complete)

\* A day shown in blue has its complete data in the history, as it is committed
\* or as the daemon that is about to commit it sees it (db.c:239).
BlueDayIsComplete ==
    \A c \in stat.disk.complete :
        c[1] = "day" => InCell(Minutes, c) \subseteq main.disk \cup Seen(main, Daemon)

\* A page that wants to read the statistics is served again and again
\* (README: the data is accessible via a web interface).
PagesServed == []<>(~stat.pending)
===============================================================================
