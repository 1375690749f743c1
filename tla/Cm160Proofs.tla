----------------------------- MODULE Cm160Proofs ------------------------------
(***************************************************************************)
(* Proofs about Cm160, for every device, every set of history threads and  *)
(* of pages, every size of the buffer and every number of faults.          *)
(***************************************************************************)
EXTENDS Cm160, DbProofs, FiniteSetTheorems

(***************************************************************************)
(* The device, and the session of the main thread.                         *)
(***************************************************************************)

DeviceInv ==
    /\ now \in Minutes \cup {0}
    /\ sent \in 0..now
    /\ damaged \subseteq 1..sent /\ Cardinality(damaged) <= MaxDamaged

\* A slot that is to be inserted holds a frame: frame_id counts those of this
\* session, num those that a history thread was started with.
SlotsFilled ==
    /\ \A k \in 1..frame_id : history[k] \in Minutes
    /\ \A w \in Workers : \A k \in 1..wk[w].num : history[k] \in Minutes

MainSteps == {"boot", "opening", "scanning", "session", "insert", "status", "closing"}

WorkerStates ==
    [pc : {"idle", "begin", "loop", "end", "exit"}, num : 0..HISTORY_SIZE, i : 0..HISTORY_SIZE]

SessionInv ==
    /\ pc \in MainSteps
    /\ receive_history \in BOOLEAN
    /\ frame_id \in 0..HISTORY_SIZE
    /\ history \in [1..HISTORY_SIZE -> Minutes \cup {NoMinute}]
    /\ wk \in [Workers -> WorkerStates]
    /\ SlotsFilled

\* The minutes are 1..LastMinute.
LEMMA MinutesAre ==
    /\ LastMinute \in Nat \ {0}
    /\ Minutes = 1..LastMinute
    /\ IsFiniteSet(Minutes)
<1> DEFINE n == Cardinality(Minutes)
<1>1. n \in Nat /\ IsFiniteSet(Minutes)
  BY CalendarAssumption, FS_CardinalityType
<1>2. Minutes = 1..n /\ n # 0
  BY <1>1, DaemonAssumption
<1>3. n \in Minutes /\ \A m \in Minutes : m <= n
  BY <1>1, <1>2
<1>4. \A m \in Minutes : (\A k \in Minutes : k <= m) => m = n
  BY <1>1, <1>2, <1>3
<1>5. LastMinute = n
  <2> HIDE DEF n
  <2> QED BY <1>3, <1>4 DEF LastMinute
<1> QED BY <1>1, <1>2, <1>5

\* The minute of the frame that the device sends next.
LEMMA NextFrame ==
    ASSUME DeviceInv, sent < now
    PROVE  sent + 1 \in Minutes /\ sent + 1 \in 0..now
BY MinutesAre DEF DeviceInv

LEMMA DeviceStep ==
    ASSUME DeviceInv, [Next]_vars
    PROVE  DeviceInv'
<1> USE MinutesAre, DaemonAssumption
<1>1. now \in Nat /\ sent \in Nat /\ IsFiniteSet(damaged)
  <2>1. now \in Nat /\ sent \in Nat
    BY DEF DeviceInv
  <2>2. IsFiniteSet(1..sent)
    BY <2>1, FS_Interval
  <2> QED BY <2>1, <2>2, FS_Subset DEF DeviceInv
<1>2. ASSUME sent' = sent + 1, sent < now, now' = now, damaged' = damaged PROVE DeviceInv'
  BY <1>1, <1>2 DEF DeviceInv
<1>3. CASE DamagedFrame
  <2>1. sent + 1 \notin damaged
    BY <1>1 DEF DeviceInv
  <2>2. Cardinality(damaged) \in Nat
    BY <1>1, FS_CardinalityType
  <2>3. Cardinality(damaged \cup {sent + 1}) = Cardinality(damaged) + 1
    BY <1>1, <2>1, FS_AddElement
  <2> QED BY <1>1, <1>3, <2>2, <2>3 DEF DamagedFrame, DeviceInv
<1>4. CASE Connect
  <2>1. Forgotten \in 0..now
    BY <1>1 DEF Forgotten
  <2> QED BY <1>4, <2>1, FS_EmptySet DEF Connect, DeviceInv
<1>5. CASE Tick
  BY <1>1, <1>5 DEF Tick, DeviceInv
<1>6. ASSUME UNCHANGED <<now, sent, damaged>> PROVE DeviceInv'
  BY <1>6 DEF DeviceInv
<1>7. CASE MainThread
  BY <1>2, <1>3, <1>6, <1>7 DEF MainThread, StartLoop, ScanUsb, Reopen, BufferFrame,
        InsertFrame, UpdateStatus, FrameDone, deviceVars
<1>8. ASSUME NEW w \in Workers, Worker(w) PROVE DeviceInv'
  BY <1>2, <1>6, <1>8 DEF Worker, WorkerBegin, WorkerInsert, WorkerInsertTorn, WorkerStatus,
        WorkerEnd, WorkerExit, deviceVars
<1> QED
  BY <1>4, <1>5, <1>6, <1>7, <1>8 DEF Next, FirstLive, Thread, PageOpens, StartReading,
     StopReading, Disconnect, Crash, MisuseCrash, DaemonDies, vars, deviceVars

LEMMA SessionStep ==
    ASSUME DeviceInv, SessionInv, [Next]_vars
    PROVE  SessionInv'
<1> USE DaemonAssumption
<1>1. ASSUME UNCHANGED <<receive_history, frame_id, history, wk>>, pc' \in MainSteps
      PROVE  SessionInv'
  BY <1>1 DEF SessionInv, SlotsFilled
<1>2. CASE ScanUsb
  BY <1>2 DEF ScanUsb, SessionInv, SlotsFilled, MainSteps
<1>3. CASE BufferFrame
  <2>1. sent + 1 \in Minutes /\ frame_id + 1 \in 1..HISTORY_SIZE
    BY <1>3, NextFrame DEF BufferFrame, SessionInv
  <2>2. history' = [history EXCEPT ![frame_id + 1] = sent + 1] /\ frame_id' = frame_id + 1
    BY <1>3 DEF BufferFrame
  <2>3. SlotsFilled'
    BY <1>3, <2>1, <2>2 DEF BufferFrame, SessionInv, SlotsFilled, WorkerStates
  <2> QED BY <1>3, <2>1, <2>2, <2>3 DEF BufferFrame, SessionInv
<1>4. CASE MainThread
  BY <1>1, <1>2, <1>3, <1>4 DEF MainThread, StartLoop, Reopen, InsertFrame, DamagedFrame,
     UpdateStatus, FrameDone, MainSteps, SessionInv, daemonVars
<1>5. ASSUME NEW w \in Workers, FirstLive(w) PROVE SessionInv'
  <2> DEFINE s == [pc |-> "begin", num |-> frame_id, i |-> 0]
  <2>1. s \in WorkerStates /\ s.num = frame_id
    BY DEF SessionInv, WorkerStates
  <2>2. wk' = [wk EXCEPT ![w] = s] /\ receive_history' = FALSE
    BY <1>5 DEF FirstLive
  <2> HIDE DEF s
  <2>3. /\ wk' \in [Workers -> WorkerStates]
        /\ \A v \in Workers : wk'[v].num \in {frame_id, wk[v].num}
    BY <2>1, <2>2 DEF SessionInv
  <2>4. UNCHANGED <<pc, frame_id, history>>
    BY <1>5 DEF FirstLive
  <2> QED BY <2>2, <2>3, <2>4 DEF SessionInv, SlotsFilled
<1>6. ASSUME NEW w \in Workers, WorkerInsertTorn(w) PROVE SessionInv'
  <2>1. sent + 1 \in Minutes /\ frame_id + 1 \in 1..HISTORY_SIZE
    BY <1>6, NextFrame DEF WorkerInsertTorn, SessionInv, WorkerStates
  <2>2. history' = [history EXCEPT ![frame_id + 1] = sent + 1] /\ frame_id' = frame_id + 1
    BY <1>6 DEF WorkerInsertTorn
  <2>3. wk' = [wk EXCEPT ![w].i = @ + 1] /\ wk[w].i < wk[w].num
    BY <1>6 DEF WorkerInsertTorn
  <2>4. wk' \in [Workers -> WorkerStates] /\ \A v \in Workers : wk'[v].num = wk[v].num
    <3>1. wk[w].i + 1 \in 0..HISTORY_SIZE
      BY <2>3 DEF SessionInv, WorkerStates
    <3>2. \A v \in Workers : wk'[v] \in WorkerStates /\ wk'[v].num = wk[v].num
      BY <2>3, <3>1 DEF SessionInv, WorkerStates
    <3> QED BY <2>3, <3>2 DEF SessionInv
  <2>5. SlotsFilled'
    BY <2>1, <2>2, <2>4 DEF SessionInv, SlotsFilled, WorkerStates
  <2> QED BY <1>6, <2>1, <2>2, <2>4, <2>5 DEF WorkerInsertTorn, SessionInv
<1>7. ASSUME NEW w \in Workers, WorkerInsert(w) PROVE SessionInv'
  BY <1>7 DEF WorkerInsert, SessionInv, SlotsFilled, WorkerStates
<1>8. ASSUME NEW w \in Workers,
             WorkerBegin(w) \/ WorkerStatus(w) \/ WorkerEnd(w) \/ WorkerExit(w)
      PROVE  SessionInv'
  <2>1. UNCHANGED <<pc, receive_history, frame_id, history>>
    BY <1>8 DEF WorkerBegin, WorkerStatus, WorkerEnd, WorkerExit
  <2>2. /\ wk' \in [Workers -> WorkerStates]
        /\ \A v \in Workers : wk'[v].num \in {0, wk[v].num}
    <3>1. CASE WorkerExit(w)
      BY <3>1 DEF WorkerExit, IdleWorker, SessionInv, WorkerStates
    <3>2. ASSUME NEW s \in {"loop", "end", "exit"}, Move(w, s)
          PROVE  /\ wk' \in [Workers -> WorkerStates]
                 /\ \A v \in Workers : wk'[v].num = wk[v].num
      BY <3>2 DEF Move, SessionInv, WorkerStates
    <3> QED BY <1>8, <3>1, <3>2 DEF WorkerBegin, WorkerStatus, WorkerEnd
  <2>3. SlotsFilled'
    <3>1. ASSUME NEW v \in Workers, NEW k \in 1..wk'[v].num PROVE history[k] \in Minutes
      <4>1. wk'[v].num = wk[v].num
        BY <2>2, <3>1
      <4> QED BY <3>1, <4>1 DEF SessionInv, SlotsFilled
    <3> QED BY <2>1, <3>1 DEF SessionInv, SlotsFilled
  <2> QED BY <2>1, <2>2, <2>3 DEF SessionInv
<1>9. CASE DaemonDies
  BY <1>9 DEF DaemonDies, SessionInv, SlotsFilled, WorkerStates, IdleWorker, MainSteps
<1>10. CASE Connect \/ Disconnect
  BY <1>1, <1>10 DEF Connect, Disconnect, MainSteps
<1>11. ASSUME UNCHANGED daemonVars PROVE SessionInv'
  BY <1>1, <1>11 DEF daemonVars, SessionInv
<1> QED
  BY <1>4, <1>5, <1>6, <1>7, <1>8, <1>9, <1>10, <1>11 DEF Next, Worker, Thread, Tick,
     PageOpens, StartReading, StopReading, Crash, MisuseCrash, vars

(***************************************************************************)
(* The database files.                                                     *)
(***************************************************************************)

\* Who holds SHARED on eagleowl_stat.db.
Connections == Procs \cup Readers

\* The first statement of each function of db.c.
Entries == {"o_main", "b_main", "e_main", "s_hour", "c_main"}

\* What a step of a running daemon does to the files and in db.c; T are the
\* threads that may run.
DbActivity(T) ==
    \/ UNCHANGED dbVars
    \/ \E t \in T : DbStep(t)
    \/ \E t \in T, s \in Entries, m \in Minutes \cup {NoMinute} : Call(t, s, m)
    \/ \E o \in {"db", "stat_db"} :
          made' = made \cup {o} /\ UNCHANGED <<main, stat, hdl, at, arg, retries>>
    \/ \E r \in Readers :
          /\ stat' \in {Sharing(stat, r), Unsharing(stat, r)}
          /\ UNCHANGED <<main, made, hdl, at, arg, retries>>

DbAction(T) == DbActivity(T) \/ \E t \in T : DbDies(ProcOf[t])

\* The minute that a history thread inserts comes from a filled slot, read
\* before or while the next session overwrites it.
LEMMA WorkerCalls ==
    ASSUME DeviceInv, SessionInv, NEW w \in Workers, WorkerInsert(w) \/ WorkerInsertTorn(w)
    PROVE  \E m \in Minutes : CallInsert(w, m)
<1>1. wk[w].i + 1 \in 1..wk[w].num
  BY DEF WorkerInsert, WorkerInsertTorn, SessionInv, WorkerStates
<1>2. history[wk[w].i + 1] \in Minutes
  BY <1>1 DEF SessionInv, SlotsFilled
<1>3. CASE WorkerInsert(w)
  BY <1>2, <1>3 DEF WorkerInsert
<1>4. CASE WorkerInsertTorn(w)
  <2>1. /\ frame_id = wk[w].i /\ sent < now
        /\ \E m \in Mixed[history[frame_id + 1]][sent + 1] : CallInsert(w, m)
    BY <1>4 DEF WorkerInsertTorn
  <2>2. Mixed[history[frame_id + 1]][sent + 1] \in SUBSET Minutes
    BY <1>2, <2>1, NextFrame, DaemonAssumption
  <2> QED BY <2>1, <2>2
<1> QED BY <1>3, <1>4

LEMMA NextActivity ==
    ASSUME DeviceInv, SessionInv, [Next]_vars
    PROVE  DbActivity(DaemonThreads) \/ Crash \/ \E t \in DaemonThreads : MisuseCrash(t)
<1> DEFINE Calls == \E t \in DaemonThreads, s \in Entries, m \in Minutes \cup {NoMinute} :
                        Call(t, s, m)
<1>1. CASE MainThread
  <2>1. CASE InsertFrame
    <3>1. sent + 1 \in Minutes /\ Call(Main, "o_main", sent + 1)
      BY <2>1, NextFrame DEF InsertFrame, CallInsert
    <3>2. Calls
      BY <3>1 DEF DaemonThreads, Entries
    <3> QED BY <3>2 DEF DbActivity
  <2>2. CASE StartLoop \/ UpdateStatus
    <3>1. Call(Main, "o_main", NoMinute) \/ Call(Main, "s_hour", NoMinute)
      BY <2>2 DEF StartLoop, UpdateStatus, CallOpen, CallStatus
    <3>2. Calls
      BY <3>1 DEF DaemonThreads, Entries
    <3> QED BY <3>2 DEF DbActivity
  <2>3. CASE ScanUsb \/ Reopen \/ BufferFrame \/ DamagedFrame \/ FrameDone
    BY <2>3 DEF ScanUsb, Reopen, BufferFrame, DamagedFrame, FrameDone, DbActivity
  <2> QED BY <1>1, <2>1, <2>2, <2>3 DEF MainThread
<1>2. ASSUME NEW w \in Workers, Worker(w) PROVE DbActivity(DaemonThreads)
  <2>1. CASE WorkerInsert(w) \/ WorkerInsertTorn(w)
    <3>1. \E m \in Minutes : Call(w, "o_main", m)
      BY <2>1, WorkerCalls DEF CallInsert
    <3>2. Calls
      BY <3>1 DEF DaemonThreads, Entries
    <3> QED BY <3>2 DEF DbActivity
  <2>2. CASE WorkerBegin(w) \/ WorkerStatus(w) \/ WorkerEnd(w)
    <3>1. \E s \in {"b_main", "s_hour", "e_main"} : Call(w, s, NoMinute)
      BY <2>2 DEF WorkerBegin, WorkerStatus, WorkerEnd, CallBegin, CallStatus, CallEnd
    <3>2. Calls
      BY <3>1 DEF DaemonThreads, Entries
    <3> QED BY <3>2 DEF DbActivity
  <2>3. CASE WorkerExit(w)
    BY <2>3 DEF WorkerExit, DbActivity
  <2> QED BY <1>2, <2>1, <2>2, <2>3 DEF Worker
<1>3. CASE Disconnect
  <2>1. Call(Main, "c_main", NoMinute)
    BY <1>3 DEF Disconnect, CallClose
  <2>2. Calls
    BY <2>1 DEF DaemonThreads, Entries
  <2> QED BY <2>2 DEF DbActivity
<1>4. ASSUME NEW t \in DaemonThreads, Thread(t) PROVE DbActivity(DaemonThreads)
  BY <1>4 DEF Thread, DbActivity
<1>5. CASE PageOpens
  BY <1>5 DEF PageOpens, DbActivity
<1>6. ASSUME NEW r \in Readers, StartReading(r) \/ StopReading(r) PROVE DbActivity(DaemonThreads)
  BY <1>6 DEF StartReading, StopReading, DbActivity
<1>7. ASSUME UNCHANGED dbVars PROVE DbActivity(DaemonThreads)
  BY <1>7 DEF DbActivity
<1>8. CASE Connect \/ Tick \/ \E w \in Workers : FirstLive(w)
  BY <1>7, <1>8 DEF Connect, Tick, FirstLive
<1> QED
  BY <1>1, <1>2, <1>3, <1>4, <1>5, <1>6, <1>7, <1>8 DEF Next, vars

LEMMA NextDbAction ==
    ASSUME DeviceInv, SessionInv, [Next]_vars
    PROVE  DbAction(DaemonThreads)
BY NextActivity, DaemonAssumption DEF DbAction, Crash, MisuseCrash, DaemonDies, DaemonThreads

\* No step of the installation breaks the files or takes back what is
\* committed to them.
LEMMA DbActionInv ==
    ASSUME DbInv(Connections), NEW T \in SUBSET Threads, DbAction(T)
    PROVE  /\ DbInv(Connections)'
           /\ Keeps(main, main', RowsGrow) /\ Keeps(stat, stat', StatGrows)
<1>1. Daemon \in Procs
  BY DaemonAssumption, DbAssumption
<1>2. Keeps(main, main, RowsGrow) /\ Keeps(stat, stat, StatGrows)
  BY RowsGrowOrder, StatGrowsOrder DEF DbInv, MainInv, StatInv, FileInv, Files, PreOrder, Keeps
<1>3. CASE UNCHANGED dbVars
  BY <1>2, <1>3 DEF dbVars, DbInv, MainInv, StatInv, ThreadsInv, HandlesInv
<1>4. ASSUME NEW t \in T, DbStep(t)
      PROVE  /\ DbInv(Connections)'
             /\ Keeps(main, main', RowsGrow) /\ Keeps(stat, stat', StatGrows)
  BY <1>1, <1>4, DbStepInv DEF Connections
<1>5. ASSUME NEW t \in T, NEW s \in Entries,
             NEW m \in Minutes \cup {NoMinute}, Call(t, s, m)
      PROVE  /\ DbInv(Connections)'
             /\ Keeps(main, main', RowsGrow) /\ Keeps(stat, stat', StatGrows)
  <2>1. s \in Steps \ Inserting
    BY DEF Entries, Steps, Closing, Inserting, Trigger, Levels
  <2> QED BY <1>1, <1>2, <1>5, <2>1, CallInv
<1>6. ASSUME NEW t \in T, DbDies(ProcOf[t])
      PROVE  /\ DbInv(Connections)'
             /\ Keeps(main, main', RowsGrow) /\ Keeps(stat, stat', StatGrows)
  BY <1>6, DbDiesInv, DbAssumption
<1>7. ASSUME NEW o \in {"db", "stat_db"}, made' = made \cup {o},
             UNCHANGED <<main, stat, hdl, at, arg, retries>>
      PROVE  DbInv(Connections)'
  BY <1>7 DEF DbInv, MainInv, StatInv, ThreadsInv, HandlesInv, Schema
<1>8. ASSUME NEW r \in Readers, stat' \in {Sharing(stat, r), Unsharing(stat, r)},
             UNCHANGED <<main, made, hdl, at, arg, retries>>
      PROVE  DbInv(Connections)' /\ Keeps(stat, stat', StatGrows)
  <2>1. FileInv(stat', Content, Connections, StatGrows) /\ stat'.disk = stat.disk
    BY <1>1, <1>8, LockInv DEF DbInv, StatInv, Connections
  <2> QED BY <1>2, <1>8, <2>1 DEF DbInv, MainInv, StatInv, ThreadsInv, HandlesInv, Keeps
<1> QED BY <1>2, <1>3, <1>4, <1>5, <1>6, <1>7, <1>8 DEF DbAction, DbActivity

(***************************************************************************)
(* The daemon closes its files only while its history threads are idle,    *)
(* when the device is not unplugged while one is at work.                  *)
(***************************************************************************)

\* Where the main thread is while the device is not there.
Away == {"boot", "opening", "closing"}

QuietInv ==
    /\ drops \in Nat
    /\ \A w \in Workers : at[w] \notin Closing /\ (wk[w].pc = "idle" => at[w] = "ret")
    /\ at[Main] \in Closing => pc = "closing"
    /\ pc \in Away => IdleWorkers = Workers

\* Only db_close gets into db_close.
LEMMA StaysOut ==
    ASSUME ThreadsInv, NEW t \in Threads, DbStep(t)
    PROVE  /\ at[t] # "ret"
           /\ at'[t] \in Closing => at[t] \in Closing
<1>1. at[t] # "ret"
  BY OpenAt, InsertAt, TransactionAt, TablesAre
     DEF DbStep, Open, Insert, Transaction, Close, Levels
<1>2. (\E s : StepOK(t, s)) \/ at'[t] \in {"ret", "check"}
  BY OpenGoes, InsertGoes, OtherGoes, GotoIs DEF DbStep, Opened
<1> QED BY <1>1, <1>2, GotoIs DEF StepOK, Closing

QuietFaults == MaxDrops = 0 \/ QuietDrops

LEMMA QuietStep ==
    ASSUME QuietFaults, ThreadsInv, SessionInv, QuietInv, [Next]_vars
    PROVE  QuietInv'
<1> USE DaemonAssumption DEF QuietInv, IdleWorkers
<1>1. Main \in Threads \ Workers /\ Workers \subseteq Threads
  OBVIOUS
<1>2. ASSUME UNCHANGED <<at, wk, drops>>,
             pc' = pc \/ (at[Main] \notin Closing /\ (pc' \in Away => pc \in Away))
      PROVE  QuietInv'
  BY <1>2
<1>3. ASSUME NEW t \in DaemonThreads, NEW s \in Steps, NEW m, Call(t, s, m)
      PROVE  /\ at[t] = "ret" /\ at'[t] = s
             /\ \A u \in Threads \ {t} : at'[u] = at[u]
  BY <1>3 DEF Call, ThreadsInv, DaemonThreads
<1>4. CASE MainThread
  <2>1. CASE ScanUsb \/ Reopen \/ FrameDone \/ BufferFrame \/ DamagedFrame
    BY <1>2, <2>1 DEF ScanUsb, Reopen, FrameDone, BufferFrame, DamagedFrame, dbVars, daemonVars,
                      deviceVars, Closing, Away
  <2>2. CASE StartLoop \/ InsertFrame \/ UpdateStatus
    <3>1. \E s \in {"o_main", "s_hour"} : \E m : Call(Main, s, m)
      BY <2>2 DEF StartLoop, InsertFrame, UpdateStatus, CallOpen, CallInsert, CallStatus
    <3>2. at'[Main] \in {"o_main", "s_hour"} /\ \A u \in Workers : at'[u] = at[u]
      BY <1>1, <1>3, <3>1 DEF DaemonThreads, Steps
    <3>3. UNCHANGED <<wk, drops>> /\ (pc' \in Away => pc \in Away)
      BY <2>2 DEF StartLoop, InsertFrame, UpdateStatus, deviceVars, Away
    <3> QED BY <3>2, <3>3 DEF Closing
  <2> QED BY <1>4, <2>1, <2>2 DEF MainThread
<1>5. CASE Disconnect
  <2>1. QuietDrops
    BY <1>5 DEF Disconnect, QuietFaults
  <2>2. IdleWorkers = Workers /\ Call(Main, "c_main", NoMinute) /\ pc' = "closing"
    BY <1>5, <2>1 DEF Disconnect, CallClose
  <2>3. at'[Main] = "c_main" /\ \A u \in Workers : at'[u] = at[u]
    BY <1>1, <1>3, <2>2 DEF DaemonThreads, Steps, Closing
  <2> QED BY <1>5, <2>2, <2>3 DEF Disconnect
<1>6. ASSUME NEW w \in Workers, FirstLive(w) PROVE QuietInv'
  <2>1. wk' = [wk EXCEPT ![w] = [pc |-> "begin", num |-> frame_id, i |-> 0]]
    BY <1>6 DEF FirstLive
  <2>2. \A v \in Workers : wk'[v].pc = "idle" => wk[v].pc = "idle"
    BY <2>1 DEF SessionInv
  <2>3. pc \notin Away /\ UNCHANGED <<pc, at, drops>>
    BY <1>6 DEF FirstLive, dbVars, deviceVars, Away
  <2> QED BY <2>2, <2>3
<1>7. ASSUME NEW w \in Workers, Worker(w) PROVE QuietInv'
  <2>1. CASE WorkerExit(w)
    <3>1. UNCHANGED <<pc, at, drops>> /\ at[w] = "ret"
      BY <2>1 DEF WorkerExit, dbVars, deviceVars
    <3>2. wk' = [wk EXCEPT ![w] = IdleWorker]
      BY <2>1 DEF WorkerExit
    <3>3. \A v \in Workers : wk'[v] = IF v = w THEN IdleWorker ELSE wk[v]
      BY <3>2 DEF SessionInv
    <3> QED BY <3>1, <3>3 DEF IdleWorker
  <2>2. CASE WorkerBegin(w) \/ WorkerInsert(w) \/ WorkerInsertTorn(w) \/ WorkerStatus(w)
             \/ WorkerEnd(w)
    <3>1. \E s \in {"o_main", "b_main", "s_hour", "e_main"} : \E m : Call(w, s, m)
      BY <2>2 DEF WorkerBegin, WorkerInsert, WorkerInsertTorn, WorkerStatus, WorkerEnd,
                  CallBegin, CallInsert, CallStatus, CallEnd
    <3>2. /\ at'[w] \notin Closing
          /\ at'[Main] = at[Main]
          /\ \A u \in Workers \ {w} : at'[u] = at[u]
      BY <1>1, <1>3, <3>1 DEF DaemonThreads, Steps, Closing
    <3>3. UNCHANGED <<pc, drops>> /\ wk[w].pc # "idle"
      BY <2>2 DEF WorkerBegin, WorkerInsert, WorkerInsertTorn, WorkerStatus, WorkerEnd,
                  deviceVars
    <3>4. /\ wk'[w].pc # "idle"
          /\ \A u \in Workers \ {w} : wk'[u] = wk[u]
      BY <2>2, <3>3 DEF WorkerBegin, WorkerInsert, WorkerInsertTorn, WorkerStatus, WorkerEnd,
                        Move, SessionInv, WorkerStates
    <3> QED BY <3>2, <3>3, <3>4
  <2> QED BY <1>7, <2>1, <2>2 DEF Worker
<1>8. ASSUME NEW t \in DaemonThreads, Thread(t) PROVE QuietInv'
  <2>1. t \in Threads /\ DbStep(t) /\ UNCHANGED <<pc, wk, drops>>
    BY <1>8 DEF Thread, daemonVars, deviceVars, DaemonThreads
  <2>2. \A u \in Threads \ {t} : at'[u] = at[u]
    BY <2>1, DbStepThreads
  <2>3. at[t] # "ret" /\ (at'[t] \in Closing => at[t] \in Closing)
    BY <2>1, StaysOut
  <2> QED BY <1>1, <2>1, <2>2, <2>3 DEF DaemonThreads
<1>9. ASSUME DaemonDies, drops' = drops PROVE QuietInv'
  <2>1. \A t \in {Main} \cup Workers : at'[t] = "ret"
    BY <1>1, <1>9 DEF DaemonDies, DbDies
  <2> QED BY <1>9, <2>1 DEF DaemonDies, Closing, IdleWorker
<1>10. CASE Connect \/ Tick \/ PageOpens \/ UNCHANGED vars
  BY <1>2, <1>10 DEF Connect, Tick, PageOpens, vars, dbVars, daemonVars, deviceVars, Closing,
               Away
<1>11. ASSUME NEW r \in Readers, StartReading(r) \/ StopReading(r) PROVE QuietInv'
  BY <1>2, <1>11 DEF StartReading, StopReading, daemonVars, deviceVars
<1>12. CASE Crash
  BY <1>9, <1>12 DEF Crash
<1>13. ASSUME NEW t \in DaemonThreads, MisuseCrash(t) PROVE QuietInv'
  BY <1>9, <1>13 DEF MisuseCrash
<1> QED
  BY <1>4, <1>5, <1>6, <1>7, <1>8, <1>10, <1>11, <1>12, <1>13 DEF Next

(***************************************************************************)
(* The daemon.                                                             *)
(***************************************************************************)

Inv == DeviceInv /\ SessionInv /\ DbInv(Connections)

LEMMA InvInit == Init => Inv
<1> SUFFICES ASSUME Init PROVE Inv
  OBVIOUS
<1>1. DbInv(Connections)
  BY DbInitInv DEF Init
<1>2. DeviceInv
  <2>1. now \in Nat
    BY MinutesAre, DaemonAssumption DEF Init
  <2> QED BY <2>1, DaemonAssumption, FS_EmptySet DEF Init, DeviceInv
<1>3. SessionInv
  BY DaemonAssumption
     DEF Init, SessionInv, SlotsFilled, WorkerStates, IdleWorker, MainSteps
<1> QED BY <1>1, <1>2, <1>3 DEF Inv

LEMMA InvStep ==
    ASSUME Inv, [Next]_vars
    PROVE  /\ Inv'
           /\ Keeps(main, main', RowsGrow) /\ Keeps(stat, stat', StatGrows)
<1>1. DaemonThreads \in SUBSET Threads
  BY DaemonAssumption DEF DaemonThreads
<1> QED BY <1>1, DeviceStep, SessionStep, NextDbAction, DbActionInv DEF Inv

LEMMA InvType == Inv => TypeOK
BY DbInvType DEF Inv, TypeOK, DeviceInv, SessionInv, MainSteps, WorkerStates

\* The inductive invariant of the daemon.
THEOREM DaemonInductive == Spec => []Inv
<1>1. Inv /\ [Next]_vars => Inv'
  BY InvStep
<1> QED BY InvInit, <1>1, PTL DEF Spec

\* The daemon never leaves its types: no slot of the buffer is inserted before
\* a frame is in it, no statement of db.c runs without the minute it inserts,
\* and a file is never written but by the process that reserved it (db.c,
\* cm160.c:188-229).
THEOREM DaemonTypes == Spec => []TypeOK
BY DaemonInductive, InvType, PTL

LEMMA KeepsStays ==
    ASSUME Keeps(main, main', RowsGrow), Keeps(stat, stat', StatGrows)
    PROVE  /\ main.disk \subseteq main'.disk
           /\ \A c \in Cells : stat.disk.count[c] <= stat'.disk.count[c]
           /\ stat.disk.complete \subseteq stat'.disk.complete
BY DEF Keeps, RowsGrow, StatGrows

\* No committed history row, count or status is ever taken back, whatever the
\* device, its disconnections, the pages and the crashes do (db.c).
THEOREM DaemonKeeps == Spec => CommittedStays
<1>1. Inv /\ [Next]_vars =>
        [/\ main.disk \subseteq main'.disk
         /\ \A c \in Cells : stat.disk.count[c] <= stat'.disk.count[c]
         /\ stat.disk.complete \subseteq stat'.disk.complete]_vars
  BY InvStep, KeepsStays
<1> QED BY DaemonInductive, <1>1, PTL DEF Spec, CommittedStays

(***************************************************************************)
(* The connections of the daemon: whoever is about to use one finds it     *)
(* open, when the device is not unplugged while a history thread is at     *)
(* work and nothing comes between the statements that create the files.    *)
(***************************************************************************)

\* The files exist from the start, or only the daemon can touch them.
SoundStart == ~Fresh \/ (Readers = {} /\ MaxCrashes = 0)

\* The daemon alone holds locks, besides the pages that read the statistics.
LocksInv == HeldBy(main, Daemon, {}) /\ HeldBy(stat, Daemon, Readers)

LEMMA LocksStep ==
    ASSUME Inv, LocksInv, [Next]_vars
    PROVE  LocksInv'
<1> USE DEF LocksInv
<1>1. /\ Daemon \in Procs /\ Daemon \in Connections
      /\ FileInv(main, SUBSET Minutes, Procs, RowsGrow)
      /\ FileInv(stat, Content, Connections, StatGrows)
      /\ ThreadsInv
  BY DaemonAssumption, DbAssumption DEF Connections, Inv, DbInv, MainInv, StatInv
<1>2. DbAction(DaemonThreads)
  BY NextDbAction DEF Inv
<1>3. ASSUME FileStep(main, main', Daemon, SUBSET Minutes, RowsGrow) PROVE HeldBy(main', Daemon, {})
  BY <1>1, <1>3, RowsGrowOrder, FileStepHeld
<1>4. ASSUME FileStep(stat, stat', Daemon, Content, StatGrows) PROVE HeldBy(stat', Daemon, Readers)
  BY <1>1, <1>4, StatGrowsOrder, FileStepHeld
<1>5. ASSUME UNCHANGED <<main, stat>> PROVE LocksInv'
  BY <1>5
<1>6. ASSUME NEW t \in DaemonThreads, DbStep(t) PROVE LocksInv'
  <2>1. t \in Threads /\ ProcOf[t] = Daemon
    BY DaemonAssumption DEF DaemonThreads
  <2>2. FileStep(main, main', Daemon, SUBSET Minutes, RowsGrow)
    BY <1>1, <1>6, <2>1, DbStepMain DEF MainInv
  <2>3. FileStep(stat, stat', Daemon, Content, StatGrows)
    BY <1>1, <1>6, <2>1, DbStepStat DEF StatInv
  <2> QED BY <1>3, <1>4, <2>2, <2>3
<1>7. ASSUME NEW t \in DaemonThreads, DbDies(ProcOf[t]) PROVE LocksInv'
  <2>1. DbDies(Daemon)
    BY <1>7, DaemonAssumption DEF DaemonThreads
  <2> QED BY <1>3, <1>4, <2>1 DEF DbDies, FileStep
<1>8. ASSUME NEW r \in Readers, stat' \in {Sharing(stat, r), Unsharing(stat, r)}, main' = main
      PROVE  LocksInv'
  BY <1>1, <1>8 DEF HeldBy, Sharing, Unsharing, FileInv, Files
<1> QED BY <1>2, <1>5, <1>6, <1>7, <1>8 DEF DbAction, DbActivity, dbVars, Call

MainSchema == {"db"} \cup Tables(MainTables)

TriggerSchema == MainSchema \cup {"trigger"}

NothingOpen == hdl[Daemon].main = "null" /\ hdl[Daemon].stat = "null"

MainOpen == hdl[Daemon].main = "open" /\ hdl[Daemon].stat = "null"

Ready == hdl[Daemon].main = "open" /\ hdl[Daemon].stat = "open"

\* What exists at each step of the first db_open of a session, whether it finds
\* the two files or creates them.
OpeningInv ==
    LET s == at[Main] IN
    \/ s \in {"o_main", "o_open"} /\ NothingOpen /\ made \in {{}, Schema}
    \/ s \in Tables(MainTables) /\ MainOpen /\ made = {"db"} \cup Before(MainTables, s)
    \/ s = "o_fn" /\ MainOpen /\ made \in {MainSchema, Schema}
    \/ s = "o_trigger" /\ MainOpen /\ made = Schema
    \/ s \in {"o_stat", "o_sopen"} /\ MainOpen /\ made \in {TriggerSchema, Schema}
    \/ s \in Tables(StatCreation) /\ Ready
         /\ made = TriggerSchema \cup {"stat_db"} \cup Before(StatCreation, s)
    \/ s \in {"o_done", "ret"} /\ Ready /\ made = Schema

\* Where the threads are while the device is there.
Serving ==
    {"ret", "o_main", "o_stat", "check", "exec", "refused_main", "b_main", "b_stat",
     "e_main", "e_stat", "s_hour", "s_day", "refused_status"} \cup Trigger

ClosingInv ==
    LET h == hdl[Daemon] IN
    \/ at[Main] = "c_main" /\ Ready
    \/ at[Main] = "c_null" /\ h.stat = "open"
    \/ at[Main] = "c_stat" /\ h.main = "null" /\ h.stat = "open"
    \/ at[Main] = "c_snull" /\ h.main = "null"
    \/ at[Main] = "ret" /\ NothingOpen

OpenInv ==
    /\ crashes \in Nat
    /\ ~Fresh => made = Schema
    /\ pc = "boot" => at[Main] = "ret" /\ NothingOpen /\ made \in {{}, Schema}
    /\ pc = "opening" => arg[Main] = NoMinute /\ OpeningInv
    /\ pc \in {"scanning", "session", "insert", "status"} =>
         Ready /\ made = Schema /\ \A t \in DaemonThreads : at[t] \in Serving
    /\ pc = "closing" => made = Schema /\ ClosingInv

\* The daemon opens the files for a session.
LEMMA DaemonOpens ==
    ASSUME SoundStart, Inv, LocksInv, ~Fresh => made = Schema,
           arg[Main] = NoMinute, OpeningInv, DbStep(Main)
    PROVE  arg'[Main] = NoMinute /\ OpeningInv'
<1> DEFINE s == at[Main]
<1> USE DEF NothingOpen, MainOpen, Ready
<1>1. /\ Main \in Threads /\ ProcOf[Main] = Daemon /\ Daemon \in Procs
      /\ ThreadsInv /\ HandlesInv
      /\ FileInv(main, SUBSET Minutes, Procs, RowsGrow)
      /\ FileInv(stat, Content, Connections, StatGrows)
  BY DaemonAssumption, DbAssumption DEF Inv, DbInv, MainInv, StatInv
<1>2. ASSUME NEW x, Goto(Main, x)
      PROVE  at'[Main] = x /\ arg'[Main] = NoMinute
  BY <1>1, <1>2, GotoIs
<1>3. Opened(Main) <=> Goto(Main, "ret")
  BY DEF Opened
<1>4. Schema = TriggerSchema \cup {"stat_db"} \cup Tables(StatCreation)
  BY DEF Schema, TriggerSchema, MainSchema
<1>5. CASE s = "o_main"
  BY <1>1, <1>2, <1>5, StepIs, TablesAre DEF OpenCheckMain, OpeningInv
<1>6. CASE s = "o_open"
  <2>1. OpenMain(Main) /\ NothingOpen /\ made \in {{}, Schema}
    BY <1>6, StepIs, TablesAre DEF OpeningInv
  <2>2. MainOpen'
    BY <1>1, <2>1 DEF OpenMain, HandlesInv
  <2>3. CASE made = {}
    <3>1. at'[Main] = "t_history" /\ arg'[Main] = NoMinute
      BY <1>2, <2>1, <2>3, FirstTables DEF OpenMain
    <3>2. made' = {"db"} \cup Before(MainTables, at'[Main])
      BY <2>1, <2>3, <3>1, FirstTables DEF OpenMain
    <3> QED BY <2>2, <3>1, <3>2, TablesAre DEF OpeningInv
  <2>4. CASE made = Schema
    <3>1. "db" \in made /\ made' = Schema
      BY <2>1, <2>4 DEF OpenMain, Schema
    <3>2. at'[Main] = "o_fn" /\ arg'[Main] = NoMinute
      BY <1>2, <2>1, <3>1 DEF OpenMain
    <3> QED BY <2>2, <3>1, <3>2 DEF OpeningInv
  <2> QED BY <2>1, <2>3, <2>4
<1>7. CASE s \in Tables(MainTables)
  <2>1. CreateMainTable(Main) /\ MainOpen /\ made = {"db"} \cup Before(MainTables, s)
    BY <1>7, StepIs, TablesAre DEF OpeningInv
  <2> DEFINE n == NextTable(MainTables, s, "o_fn")
  <2>2. /\ s \notin Before(MainTables, s)
        /\ \/ n = "o_fn" /\ Before(MainTables, s) \cup {s} = Tables(MainTables)
           \/ /\ n \in Tables(MainTables)
              /\ Before(MainTables, n) = Before(MainTables, s) \cup {s}
    BY <1>7, Creation
  <2> HIDE DEF n
  <2>3. s \notin made
    BY <1>7, <2>1, <2>2, TablesAre
  <2>4. CreateOutcome(main, s, Daemon, TRUE) = "done"
    BY <1>1, <2>3, CreateDone DEF LocksInv
  <2>5. Goto(Main, n) /\ made' = made \cup {s} /\ UNCHANGED hdl
    BY <1>1, <2>1, <2>4 DEF CreateMainTable, n
  <2>6. at'[Main] = n /\ arg'[Main] = NoMinute
    BY <1>2, <2>5
  <2>7. \/ made' = MainSchema /\ n = "o_fn"
        \/ n \in Tables(MainTables) /\ made' = {"db"} \cup Before(MainTables, n)
    BY <2>1, <2>2, <2>5 DEF MainSchema
  <2> QED BY <2>1, <2>5, <2>6, <2>7 DEF OpeningInv
<1>8. CASE s = "o_fn"
  <2>1. OpenRegister(Main) /\ MainOpen /\ made \in {MainSchema, Schema}
    BY <1>8, StepIs, TablesAre DEF OpeningInv
  <2>2. MainOpen'
    BY <1>1, <2>1 DEF OpenRegister, HandlesInv
  <2>3. CASE made = Schema
    <3>1. TriggerExists(Main)
      BY <1>1, <2>1, <2>3 DEF OpenRegister, TriggerMade, Schema
    <3>2. Readable(main, Daemon)
      BY <1>1 DEF LocksInv, HeldBy, FileInv, Readable
    <3>3. at'[Main] = "o_trigger" /\ arg'[Main] = NoMinute /\ made' = made
      BY <1>1, <1>2, <3>1, <3>2 DEF TriggerExists
    <3> QED BY <2>2, <2>3, <3>3 DEF OpeningInv
  <2>4. CASE made = MainSchema
    <3>1. "trigger" \notin made /\ "t_history" \in made
      BY <2>4, TablesAre DEF MainSchema
    <3>2. TriggerMade(Main)
      BY <1>1, <2>1, <3>1 DEF OpenRegister, TriggerExists
    <3>3. CreateOutcome(main, "trigger", Daemon, TRUE) = "done"
      BY <1>1, <3>1, CreateDone DEF LocksInv
    <3>4. at'[Main] = "o_stat" /\ arg'[Main] = NoMinute /\ made' = TriggerSchema
      BY <1>1, <1>2, <2>4, <3>1, <3>2, <3>3 DEF TriggerMade, TriggerSchema
    <3> QED BY <2>2, <3>4 DEF OpeningInv
  <2> QED BY <2>1, <2>3, <2>4
<1>9. CASE s = "o_trigger"
  BY <1>1, <1>2, <1>9, StepIs, TablesAre DEF OpenTrigger, OpeningInv
<1>10. CASE s = "o_stat"
  BY <1>1, <1>2, <1>10, StepIs, TablesAre DEF OpenCheckStat, OpeningInv
<1>11. CASE s = "o_sopen"
  <2>1. OpenStat(Main) /\ MainOpen /\ made \in {TriggerSchema, Schema}
    BY <1>11, StepIs, TablesAre DEF OpeningInv
  <2>2. Ready'
    BY <1>1, <2>1 DEF OpenStat, HandlesInv
  <2>3. CASE made = Schema
    <3>1. "stat_db" \in made /\ made' = Schema
      BY <2>1, <2>3 DEF OpenStat, Schema
    <3>2. at'[Main] = "ret" /\ arg'[Main] = NoMinute
      BY <1>2, <1>3, <2>1, <3>1 DEF OpenStat
    <3> QED BY <2>2, <3>1, <3>2 DEF OpeningInv
  <2>4. CASE made = TriggerSchema
    <3>1. "stat_db" \notin made
      BY <2>4, TablesAre DEF TriggerSchema, MainSchema
    <3>2. at'[Main] = "t_year" /\ arg'[Main] = NoMinute
      BY <1>2, <2>1, <3>1, FirstTables DEF OpenStat
    <3>3. made' = TriggerSchema \cup {"stat_db"} \cup Before(StatCreation, at'[Main])
      BY <2>1, <2>4, <3>2, FirstTables DEF OpenStat
    <3> QED BY <2>2, <3>2, <3>3, TablesAre DEF OpeningInv
  <2> QED BY <2>1, <2>3, <2>4
<1>12. CASE s \in Tables(StatCreation)
  <2>1. /\ CreateStatTable(Main) /\ Ready
        /\ made = TriggerSchema \cup {"stat_db"} \cup Before(StatCreation, s)
    BY <1>12, StepIs, TablesAre DEF OpeningInv
  <2> DEFINE n == NextTable(StatCreation, s, "o_done")
  <2>2. /\ s \notin Before(StatCreation, s)
        /\ \/ n = "o_done" /\ Before(StatCreation, s) \cup {s} = Tables(StatCreation)
           \/ /\ n \in Tables(StatCreation)
              /\ Before(StatCreation, n) = Before(StatCreation, s) \cup {s}
    BY <1>12, Creation
  <2> HIDE DEF n
  <2>3. s \notin made /\ s \in Schema
    BY <1>12, <2>1, <2>2, TablesAre DEF TriggerSchema, MainSchema, Schema
  <2>4. Readers = {}
    BY <2>3 DEF SoundStart
  <2>5. CreateOutcome(stat, s, Daemon, TRUE) = "done"
    BY <1>1, <2>3, <2>4, CreateDone DEF LocksInv
  <2>6. Goto(Main, n) /\ made' = made \cup {s} /\ UNCHANGED hdl
    BY <1>1, <2>1, <2>5 DEF CreateStatTable, n
  <2>7. at'[Main] = n /\ arg'[Main] = NoMinute
    BY <1>2, <2>6
  <2>8. \/ made' = Schema /\ n = "o_done"
        \/ /\ n \in Tables(StatCreation)
           /\ made' = TriggerSchema \cup {"stat_db"} \cup Before(StatCreation, n)
    BY <1>4, <2>1, <2>2, <2>6
  <2> QED BY <2>1, <2>6, <2>7, <2>8 DEF OpeningInv
<1>13. CASE s = "o_done"
  BY <1>1, <1>2, <1>3, <1>13, StepIs, TablesAre DEF OpenDone, OpeningInv
<1> QED
  BY <1>5, <1>6, <1>7, <1>8, <1>9, <1>10, <1>11, <1>12, <1>13, StepIs DEF OpeningInv

\* While the device is there, no step of db.c opens, creates or closes a file.
LEMMA DaemonServes ==
    ASSUME ThreadsInv, Ready, NEW t \in DaemonThreads, at[t] \in Serving, DbStep(t)
    PROVE  UNCHANGED <<hdl, made>> /\ at'[t] \in Serving
<1>1. t \in Threads /\ ProcOf[t] = Daemon
  BY DaemonAssumption DEF DaemonThreads
<1>2. \A x : Goto(t, x) => at'[t] = x
  BY <1>1, GotoIs
<1>3. at[t] # "ret"
  BY StepIs
<1>4. CASE at[t] \in {"o_main", "o_stat"}
  <2>1. OpenCheckMain(t) \/ OpenCheckStat(t)
    BY <1>4, StepIs
  <2> QED BY <1>1, <1>2, <2>1 DEF OpenCheckMain, OpenCheckStat, Opened, Ready, Serving
<1>5. CASE at[t] \in Inserting \cup {"refused_status"}
  <2>1. Insert(t)
    BY <1>5, StepIs
  <2>2. UNCHANGED <<hdl, made>>
    BY <2>1 DEF Insert, InsertCheck, InsertFails, InsertExec, InsertRetry, CountStat, StatExec,
                RefusedStat, InsertEnds
  <2>3. \E x \in Serving : Goto(t, x)
    BY <2>1 DEF Insert, InsertCheck, InsertFails, InsertExec, InsertRetry, CountStat, StatExec,
                RefusedStat, InsertEnds, Serving, Trigger, Levels, NextLevel
  <2> QED BY <1>2, <2>2, <2>3
<1>6. CASE at[t] \in {"s_hour", "s_day"}
  <2>1. MarkStat(t)
    BY <1>6, StepIs
  <2> QED BY <1>2, <2>1 DEF MarkStat, StatExec, Serving
<1>7. CASE at[t] \in {"b_main", "b_stat", "e_main", "e_stat"}
  <2>1. Transaction(t)
    BY <1>7, StepIs
  <2> QED BY <1>2, <2>1 DEF Transaction, BeginMain, BeginStat, EndMain, EndStat, Serving
<1> QED BY <1>3, <1>4, <1>5, <1>6, <1>7 DEF Serving, Inserting

\* The daemon closes the files at the end of a session.
LEMMA DaemonCloses ==
    ASSUME ThreadsInv, HandlesInv, ClosingInv, DbStep(Main)
    PROVE  made' = made /\ ClosingInv'
<1>1. Main \in Threads /\ ProcOf[Main] = Daemon /\ Daemon \in Procs
  BY DaemonAssumption, DbAssumption
<1>2. \A x : Goto(Main, x) => at'[Main] = x
  BY <1>1, GotoIs
<1>3. at[Main] # "ret"
  BY StepIs
<1>4. CASE at[Main] = "c_main"
  <2>1. CloseMain(Main) /\ Ready
    BY <1>4, StepIs DEF ClosingInv
  <2> QED BY <1>1, <1>2, <2>1 DEF CloseMain, ClosingInv, Ready, HandlesInv
<1>5. CASE at[Main] = "c_stat"
  <2>1. CloseStat(Main)
    BY <1>5, StepIs
  <2> QED BY <1>1, <1>2, <1>5, <2>1 DEF CloseStat, ClosingInv, Ready, HandlesInv
<1>6. CASE at[Main] \in {"c_null", "c_snull"}
  <2>1. CloseReset(Main)
    BY <1>6, StepIs
  <2> QED BY <1>1, <1>2, <1>6, <2>1 DEF CloseReset, ClosingInv, Ready, NothingOpen, HandlesInv
<1> QED BY <1>3, <1>4, <1>5, <1>6 DEF ClosingInv

LEMMA OpenMisuse ==
    ASSUME Inv, QuietInv, OpenInv
    PROVE  NoMisuse
<1> SUFFICES ASSUME NEW t \in DaemonThreads PROVE ~Misuses(t)
  BY DEF NoMisuse
<1>1. ProcOf[t] = Daemon
  BY DaemonAssumption DEF DaemonThreads
<1>2. pc \in MainSteps
  BY DEF Inv, SessionInv
<1>3. CASE at[t] = "ret"
  BY <1>3, TablesAre DEF Misuses
<1>4. CASE t \in Workers /\ pc \in Away
  <2>1. at[t] = "ret"
    BY <1>4 DEF QuietInv, IdleWorkers
  <2> QED BY <1>3, <2>1
<1>5. CASE pc \in {"scanning", "session", "insert", "status"}
  BY <1>1, <1>5, TablesAre DEF OpenInv, Misuses, Ready
<1>6. CASE t = Main /\ pc = "opening"
  BY <1>1, <1>6, TablesAre DEF OpenInv, OpeningInv, Misuses, Ready, MainOpen
<1>7. CASE t = Main /\ pc = "closing"
  BY <1>1, <1>7, TablesAre DEF OpenInv, ClosingInv, Misuses
<1>8. CASE t = Main /\ pc = "boot"
  BY <1>3, <1>8 DEF OpenInv
<1> QED BY <1>2, <1>4, <1>5, <1>6, <1>7, <1>8 DEF MainSteps, Away, DaemonThreads

\* A thread of the daemon that runs is the main thread, unless the device is
\* there.
LEMMA AwayAlone ==
    ASSUME QuietInv, pc \in Away, NEW t \in DaemonThreads, at[t] # "ret"
    PROVE  t = Main
BY DEF QuietInv, IdleWorkers, DaemonThreads

LEMMA OpenStep ==
    ASSUME SoundStart, Inv, QuietInv, LocksInv, OpenInv, [Next]_vars
    PROVE  OpenInv'
<1> DEFINE There == {"scanning", "session", "insert", "status"}
<1>1. /\ Main \in Threads /\ ProcOf[Main] = Daemon /\ Daemon \in Procs /\ Main \in DaemonThreads
      /\ ThreadsInv /\ HandlesInv /\ pc \in Away \cup There
      /\ DaemonThreads \subseteq Threads
  BY DaemonAssumption, DbAssumption DEF Inv, DbInv, SessionInv, MainSteps, Away, DaemonThreads
<1>2. NoMisuse
  BY OpenMisuse
<1>3. ASSUME UNCHANGED <<pc, made, hdl, at, arg, crashes>> PROVE OpenInv'
  BY <1>3 DEF OpenInv, OpeningInv, ClosingInv, Ready, MainOpen, NothingOpen
<1>4. ASSUME pc \in There, pc' \in There, UNCHANGED <<made, hdl, crashes>>,
             \A t \in DaemonThreads : at'[t] \in Serving
      PROVE  OpenInv'
  BY <1>4 DEF OpenInv, Ready
<1>5. ASSUME NEW t \in DaemonThreads, NEW x \in Serving, NEW m, Call(t, x, m)
      PROVE  /\ UNCHANGED <<made, hdl>> /\ at[t] = "ret"
             /\ pc \in There => \A u \in DaemonThreads : at'[u] \in Serving
  BY <1>1, <1>5 DEF Call, ThreadsInv, OpenInv
<1>6. CASE MainThread
  <2>1. CASE StartLoop
    <3>1. pc = "boot" /\ pc' = "opening" /\ Call(Main, "o_main", NoMinute) /\ crashes' = crashes
      BY <2>1 DEF StartLoop, CallOpen, deviceVars
    <3>2. /\ at'[Main] = "o_main" /\ arg'[Main] = NoMinute
          /\ UNCHANGED <<made, hdl>> /\ NothingOpen /\ made \in {{}, Schema}
      BY <1>1, <3>1 DEF Call, ThreadsInv, OpenInv
    <3> QED BY <3>1, <3>2 DEF OpenInv, OpeningInv, NothingOpen
  <2>2. CASE ScanUsb
    <3>1. /\ pc = "opening" /\ pc' = "scanning" /\ at[Main] = "ret"
          /\ UNCHANGED <<made, hdl, at, crashes>>
      BY <2>2 DEF ScanUsb, dbVars, deviceVars
    <3>2. Ready /\ made = Schema
      BY <3>1, TablesAre DEF OpenInv, OpeningInv
    <3>3. \A t \in DaemonThreads : at[t] = "ret"
      BY <3>1, AwayAlone DEF Away
    <3> QED BY <3>1, <3>2, <3>3 DEF OpenInv, Ready, Serving
  <2>3. CASE Reopen
    BY <2>3 DEF Reopen, OpenInv, ClosingInv, NothingOpen, dbVars, deviceVars
  <2>4. CASE BufferFrame \/ DamagedFrame \/ FrameDone
    <3>1. pc \in There /\ pc' \in There /\ UNCHANGED <<made, hdl, at, crashes>>
      BY <2>4 DEF BufferFrame, DamagedFrame, FrameDone, dbVars, daemonVars, deviceVars
    <3> QED BY <1>4, <3>1 DEF OpenInv
  <2>5. CASE InsertFrame \/ UpdateStatus
    <3>1. /\ pc \in There /\ pc' \in There /\ UNCHANGED crashes
          /\ \E x \in Serving : \E m : Call(Main, x, m)
      BY <2>5 DEF InsertFrame, UpdateStatus, CallInsert, CallStatus, deviceVars, Serving
    <3> QED BY <1>1, <1>4, <1>5, <3>1
  <2> QED BY <1>6, <2>1, <2>2, <2>3, <2>4, <2>5 DEF MainThread
<1>7. CASE Connect
  <2>1. pc \in There /\ pc' \in There /\ UNCHANGED <<made, hdl, at, crashes>>
    BY <1>7 DEF Connect, dbVars
  <2> QED BY <1>4, <2>1 DEF OpenInv
<1>8. CASE Disconnect
  <2>1. pc = "session" /\ pc' = "closing" /\ Call(Main, "c_main", NoMinute) /\ crashes' = crashes
    BY <1>8 DEF Disconnect, CallClose
  <2>2. at'[Main] = "c_main" /\ UNCHANGED <<made, hdl>> /\ Ready /\ made = Schema
    BY <1>1, <2>1 DEF Call, ThreadsInv, OpenInv
  <2> QED BY <2>1, <2>2 DEF OpenInv, ClosingInv, Ready
<1>9. ASSUME NEW w \in Workers, FirstLive(w) PROVE OpenInv'
  BY <1>3, <1>9 DEF FirstLive, dbVars, deviceVars
<1>10. ASSUME NEW w \in Workers, Worker(w) PROVE OpenInv'
  <2>1. CASE WorkerExit(w)
    BY <1>3, <2>1 DEF WorkerExit, dbVars, deviceVars
  <2>2. CASE ~WorkerExit(w)
    <3>1. /\ wk[w].pc # "idle" /\ UNCHANGED <<pc, crashes>>
          /\ \E x \in Serving : \E m : Call(w, x, m)
      BY <1>10, <2>2 DEF Worker, WorkerBegin, WorkerInsert, WorkerInsertTorn, WorkerStatus,
          WorkerEnd, CallBegin, CallInsert, CallStatus, CallEnd, deviceVars, Serving
    <3>2. pc \in There
      BY <1>1, <3>1 DEF QuietInv, IdleWorkers
    <3> QED BY <1>4, <1>5, <3>1, <3>2 DEF DaemonThreads
  <2> QED BY <2>1, <2>2
<1>11. ASSUME NEW t \in DaemonThreads, Thread(t) PROVE OpenInv'
  <2>1. DbStep(t) /\ UNCHANGED <<pc, crashes>>
    BY <1>11 DEF Thread, daemonVars, deviceVars
  <2>2. at[t] # "ret" /\ t \in Threads
    BY <1>1, <2>1, StepIs
  <2>3. \A u \in Threads \ {t} : at'[u] = at[u]
    BY <1>1, <2>1, <2>2, DbStepThreads
  <2>4. CASE pc \in There
    <3>1. UNCHANGED <<hdl, made>> /\ at'[t] \in Serving
      BY <1>1, <2>1, <2>4, DaemonServes DEF OpenInv
    <3>2. \A u \in DaemonThreads : at'[u] \in Serving
      BY <1>1, <2>3, <2>4, <3>1 DEF OpenInv
    <3> QED BY <1>4, <2>1, <2>4, <3>1, <3>2
  <2>5. CASE pc \in Away
    <3>1. t = Main
      BY <2>2, <2>5, AwayAlone
    <3>2. ~Fresh => made' = Schema
      <4>1. made \subseteq made' /\ made' \subseteq Schema
        BY <1>1, <2>1, <2>2, DbStepHandles DEF HandlesInv
      <4> QED BY <4>1 DEF OpenInv
    <3>3. CASE pc = "boot"
      BY <2>2, <3>1, <3>3 DEF OpenInv
    <3>4. CASE pc = "opening"
      <4>1. arg'[Main] = NoMinute /\ OpeningInv'
        BY <2>1, <3>1, <3>4, DaemonOpens DEF OpenInv
      <4> QED BY <2>1, <3>2, <3>4, <4>1 DEF OpenInv
    <3>5. CASE pc = "closing"
      <4>1. made' = made /\ ClosingInv'
        BY <1>1, <2>1, <3>1, <3>5, DaemonCloses DEF OpenInv
      <4> QED BY <2>1, <3>2, <3>5, <4>1 DEF OpenInv
    <3> QED BY <2>5, <3>3, <3>4, <3>5 DEF Away
  <2> QED BY <1>1, <2>4, <2>5
<1>12. CASE Tick \/ UNCHANGED vars
  BY <1>3, <1>12 DEF Tick, vars, dbVars, daemonVars, deviceVars
<1>13. CASE PageOpens
  <2>1. Readers # {} /\ \E o \in {"db", "stat_db"} : o \notin made
    BY <1>13 DEF PageOpens
  <2> QED BY <2>1 DEF SoundStart, OpenInv, Schema
<1>14. ASSUME NEW r \in Readers, StartReading(r) \/ StopReading(r) PROVE OpenInv'
  BY <1>3, <1>14 DEF StartReading, StopReading, daemonVars, deviceVars
<1>15. CASE Crash
  <2>1. made = Schema /\ crashes' \in Nat
    BY <1>15, DaemonAssumption DEF Crash, SoundStart, OpenInv
  <2>2. /\ made' = made /\ pc' = "boot" /\ at'[Main] = "ret"
        /\ NothingOpen'
    BY <1>1, <1>15 DEF Crash, DaemonDies, DbDies, NothingOpen, HandlesInv
  <2> QED BY <2>1, <2>2 DEF OpenInv
<1>16. ASSUME NEW t \in DaemonThreads, MisuseCrash(t) PROVE OpenInv'
  BY <1>2, <1>16 DEF MisuseCrash, NoMisuse
<1> QED
  BY <1>6, <1>7, <1>8, <1>9, <1>10, <1>11, <1>12, <1>13, <1>14, <1>15, <1>16 DEF Next

ServiceInv == Inv /\ QuietInv /\ LocksInv /\ OpenInv

\* The daemon starts with nothing open, no lock and no thread at work.
LEMMA ServiceInit == Init => ServiceInv
<1> SUFFICES ASSUME Init PROVE ServiceInv
  OBVIOUS
<1>1. QuietInv
  BY DaemonAssumption DEF Init, DbInit, QuietInv, Closing, IdleWorkers, IdleWorker
<1>2. LocksInv
  BY DEF Init, DbInit, LocksInv, HeldBy, NewFile
<1>3. Main \in Threads /\ Daemon \in Procs
  BY DaemonAssumption, DbAssumption
<1>4. OpenInv
  BY <1>3, DbAssumption DEF Init, DbInit, OpenInv, NothingOpen
<1> QED BY <1>1, <1>2, <1>4, InvInit DEF ServiceInv

LEMMA ServiceStep ==
    ASSUME QuietFaults, SoundStart, ServiceInv, [Next]_vars
    PROVE  ServiceInv'
<1>1. QuietInv'
  BY QuietStep DEF ServiceInv, Inv, DbInv
<1> QED BY <1>1, InvStep, LocksStep, OpenStep DEF ServiceInv

\* No thread of the daemon hands a null or closed connection to SQLite: db_open
\* gets both files open, with all their tables, before any other function of
\* db.c runs, and db_close runs after all of them (cm160.c:322-343,
\* db.c:77-116), when the device is not unplugged while a history thread is at
\* work, and no page and no crash comes before the files are complete.
THEOREM DaemonNeverMisuses ==
    ASSUME QuietFaults, SoundStart
    PROVE  Spec => []NoMisuse
<1>1. ServiceInv /\ [Next]_vars => ServiceInv'
  BY ServiceStep
<1>2. ServiceInv => NoMisuse
  BY OpenMisuse DEF ServiceInv
<1> QED BY ServiceInit, <1>1, <1>2, PTL DEF Spec

(***************************************************************************)
(* The daemon records as Ledger says.                                      *)
(***************************************************************************)

\* No crash; and either no page, so that every END is accepted, or no
\* disconnection and complete files.
Undisturbed == MaxCrashes = 0 /\ (Readers = {} \/ (MaxDrops = 0 /\ ~Fresh))

\* The history thread is within its transaction on eagleowl.db, on
\* eagleowl_stat.db.
MainBegun(w) ==
    \/ wk[w].pc = "loop" /\ at[w] # "b_main"
    \/ wk[w].pc = "end"
    \/ wk[w].pc = "exit" /\ at[w] = "e_main"

StatBegun(w) ==
    \/ wk[w].pc = "loop" /\ at[w] \notin {"b_main", "b_stat"}
    \/ wk[w].pc = "end"
    \/ wk[w].pc = "exit" /\ at[w] \in {"e_main", "e_stat"}

\* One history thread at most, which alone begins and ends transactions.
SoloInv ==
    /\ \A v, w \in Workers : wk[v].pc # "idle" /\ wk[w].pc # "idle" => v = w
    /\ receive_history => IdleWorkers = Workers
    /\ \A t \in DaemonThreads :
          /\ at[t] \in {"b_main", "b_stat"} => t \in Workers /\ wk[t].pc = "loop"
          /\ at[t] \in {"e_main", "e_stat"} => t \in Workers /\ wk[t].pc = "exit"

\* Nothing is left uncommitted outside of the transactions and of the trigger.
TxInv ==
    /\ SoloInv
    /\ Daemon \in main.intx <=> \E w \in Workers : MainBegun(w)
    /\ Daemon \in stat.intx => \E w \in Workers : StatBegun(w)
    /\ main.owner = Daemon => Daemon \in main.intx \/ \E t \in DaemonThreads : at[t] \in Trigger
    /\ stat.owner = Daemon => Daemon \in stat.intx

\* No lock of another connection refuses what the daemon does; only a page
\* prevents the commit of its statistics.
LEMMA NeverRefused ==
    ASSUME Inv, LocksInv
    PROVE  /\ Readable(main, Daemon) /\ Writable(main, Daemon) /\ Committable(main, Daemon)
           /\ Readable(stat, Daemon) /\ Writable(stat, Daemon)
           /\ Readers = {} => Committable(stat, Daemon)
<1>1. /\ FileInv(main, SUBSET Minutes, Procs, RowsGrow)
      /\ FileInv(stat, Content, Connections, StatGrows)
  BY DEF Inv, DbInv, MainInv, StatInv
<1> QED BY <1>1 DEF FileInv, LocksInv, HeldBy, Readable, Writable, Committable

\* A thread at work in db.c finds the files open and complete.
LEMMA AtWork ==
    ASSUME Inv, QuietInv, OpenInv, NEW t \in DaemonThreads,
           at[t] \in Inserting \cup Transacting \cup {"s_hour", "s_day", "refused_status"}
    PROVE  Ready /\ made = Schema /\ pc \notin Away
<1>1. pc \in MainSteps
  BY DEF Inv, SessionInv
<1>2. CASE pc \in {"scanning", "session", "insert", "status"}
  BY <1>2 DEF OpenInv, Away
<1>3. CASE pc \in Away
  <2>1. at[t] # "ret"
    BY DEF Inserting, Transacting, Trigger, Levels
  <2>2. t = Main
    BY <1>3, <2>1, AwayAlone
  <2> QED
    BY <1>3, <2>1, <2>2, TablesAre
       DEF Away, OpenInv, OpeningInv, ClosingInv, Inserting, Transacting, Trigger, Levels
<1> QED BY <1>1, <1>2, <1>3 DEF MainSteps, Away

\* The connections are closed without a transaction.
LEMMA ClosesClean ==
    ASSUME QuietInv, TxInv, NEW t \in DaemonThreads, at[t] \in Closing
    PROVE  /\ Daemon \notin main.intx /\ Daemon \notin stat.intx
           /\ main.owner # Daemon /\ stat.owner # Daemon
<1>1. t = Main /\ pc = "closing"
  BY DEF QuietInv, DaemonThreads
<1>2. \A w \in Workers : wk[w].pc = "idle" /\ at[w] = "ret"
  BY <1>1 DEF QuietInv, Away, IdleWorkers
<1>3. \A u \in DaemonThreads : at[u] \notin Trigger
  BY <1>1, <1>2 DEF DaemonThreads, Trigger, Levels, Closing
<1> QED BY <1>2, <1>3 DEF TxInv, MainBegun, StatBegun

\* BEGIN and END: the transactions follow the history thread.
LEMMA TxTransaction ==
    ASSUME Readers = {}, ServiceInv, TxInv, NEW t \in DaemonThreads, Transaction(t),
           UNCHANGED wk
    PROVE  /\ \A u \in DaemonThreads :
                 /\ at'[u] \in {"b_main", "b_stat"} => u \in Workers /\ wk[u].pc = "loop"
                 /\ at'[u] \in {"e_main", "e_stat"} => u \in Workers /\ wk[u].pc = "exit"
           /\ Daemon \in main'.intx <=> \E w \in Workers : MainBegun(w)'
           /\ Daemon \in stat'.intx => \E w \in Workers : StatBegun(w)'
<1>1. /\ t \in Threads /\ ProcOf[t] = Daemon /\ Daemon \in Procs /\ DaemonThreads \subseteq Threads
      /\ Workers \subseteq DaemonThreads /\ ThreadsInv
      /\ FileInv(main, SUBSET Minutes, Procs, RowsGrow)
      /\ FileInv(stat, Content, Connections, StatGrows)
  BY DaemonAssumption, DbAssumption DEF DaemonThreads, ServiceInv, Inv, DbInv, MainInv, StatInv
<1>2. at[t] \in Transacting
  BY TransactionAt DEF Transaction, Transacting
<1>3. Ready
  BY <1>2, AtWork DEF ServiceInv
<1>4. t \in Workers /\ wk[t].pc \in {"loop", "exit"}
  BY <1>2 DEF Transacting, TxInv, SoloInv
<1>5. \A w \in Workers \ {t} : wk[w].pc = "idle"
  BY <1>4 DEF TxInv, SoloInv
<1>6. \A w \in Workers \ {t} :
        ~MainBegun(w) /\ ~StatBegun(w) /\ ~MainBegun(w)' /\ ~StatBegun(w)'
  BY <1>5 DEF MainBegun, StatBegun
<1>7. \A x : Goto(t, x) => at'[t] = x /\ \A u \in Threads \ {t} : at'[u] = at[u]
  BY <1>1, GotoIs
<1>8. Committable(main, Daemon) /\ Committable(stat, Daemon)
  BY NeverRefused DEF ServiceInv
<1>9. /\ Begun(main, Daemon).intx = main.intx \cup {Daemon}
      /\ Begun(stat, Daemon).intx = stat.intx \cup {Daemon}
      /\ Ended(main, Daemon).intx = main.intx \ {Daemon}
      /\ Ended(stat, Daemon).intx = stat.intx \ {Daemon}
  BY <1>1, Locks
<1>10. ASSUME NEW x, Goto(t, x),
              x \in {"b_main", "b_stat"} => wk[t].pc = "loop",
              x \in {"e_main", "e_stat"} => wk[t].pc = "exit"
       PROVE  \A u \in DaemonThreads :
                 /\ at'[u] \in {"b_main", "b_stat"} => u \in Workers /\ wk[u].pc = "loop"
                 /\ at'[u] \in {"e_main", "e_stat"} => u \in Workers /\ wk[u].pc = "exit"
  BY <1>1, <1>4, <1>7, <1>10 DEF TxInv, SoloInv
<1>11. CASE BeginMain(t)
  <2>1. at[t] = "b_main" /\ wk[t].pc = "loop"
    BY <1>11 DEF BeginMain, TxInv, SoloInv
  <2>2. Daemon \notin main.intx /\ Daemon \notin stat.intx
    BY <1>6, <2>1 DEF TxInv, MainBegun, StatBegun
  <2>3. main' = Begun(main, Daemon) /\ stat' = stat /\ Goto(t, "b_stat")
    BY <1>1, <1>3, <1>11, <2>2 DEF BeginMain, Ready
  <2>4. at'[t] = "b_stat"
    BY <1>7, <2>3
  <2>5. MainBegun(t)'
    BY <2>1, <2>4 DEF MainBegun
  <2> QED BY <1>4, <1>9, <1>10, <2>1, <2>2, <2>3, <2>5
<1>12. CASE BeginStat(t)
  <2>1. at[t] = "b_stat" /\ wk[t].pc = "loop" /\ main' = main /\ Goto(t, "ret")
    BY <1>12 DEF BeginStat, TxInv, SoloInv
  <2>2. at'[t] = "ret"
    BY <1>7, <2>1
  <2>3. MainBegun(t) /\ MainBegun(t)' /\ StatBegun(t)'
    BY <2>1, <2>2 DEF MainBegun, StatBegun
  <2> QED BY <1>4, <1>10, <2>1, <2>3 DEF TxInv
<1>13. CASE EndMain(t)
  <2>1. at[t] = "e_main" /\ wk[t].pc = "exit"
    BY <1>13 DEF EndMain, TxInv, SoloInv
  <2>2. Daemon \in main.intx
    BY <1>4, <2>1 DEF TxInv, MainBegun
  <2>3. main' = Ended(main, Daemon) /\ stat' = stat /\ Goto(t, "e_stat")
    BY <1>1, <1>3, <1>8, <1>13, <2>2 DEF EndMain, Ready
  <2>4. at'[t] = "e_stat"
    BY <1>7, <2>3
  <2>5. ~MainBegun(t)' /\ StatBegun(t)'
    BY <2>1, <2>4 DEF MainBegun, StatBegun
  <2> QED BY <1>4, <1>6, <1>9, <1>10, <2>1, <2>3, <2>5
<1>14. CASE EndStat(t)
  <2>1. at[t] = "e_stat" /\ wk[t].pc = "exit" /\ main' = main /\ Goto(t, "ret")
    BY <1>14 DEF EndStat, TxInv, SoloInv
  <2>2. at'[t] = "ret"
    BY <1>7, <2>1
  <2>3. ~MainBegun(t) /\ ~MainBegun(t)'
    BY <2>1, <2>2 DEF MainBegun
  <2>4. Daemon \notin stat'.intx
    BY <1>1, <1>3, <1>8, <1>9, <1>14 DEF EndStat, Ready
  <2> QED BY <1>6, <1>10, <2>1, <2>3, <2>4 DEF TxInv
<1> QED BY <1>11, <1>12, <1>13, <1>14 DEF Transaction

LEMMA TxThread ==
    ASSUME Readers = {}, ServiceInv, TxInv, NEW t \in DaemonThreads, DbStep(t),
           UNCHANGED <<pc, receive_history, wk>>
    PROVE  TxInv'
<1>1. /\ t \in Threads /\ ProcOf[t] = Daemon /\ Daemon \in Procs /\ DaemonThreads \subseteq Threads
      /\ Workers \subseteq DaemonThreads /\ ThreadsInv /\ MainInv /\ StatInv(Connections)
  BY DaemonAssumption, DbAssumption DEF DaemonThreads, ServiceInv, Inv, DbInv
<1>2. \A u \in Threads \ {t} : at'[u] = at[u]
  BY <1>1, DbStepThreads
<1>3. /\ \A v, w \in Workers : wk'[v].pc # "idle" /\ wk'[w].pc # "idle" => v = w
      /\ receive_history' => IdleWorkers' = Workers
  BY DEF TxInv, SoloInv, IdleWorkers
<1>4. main'.owner = Daemon => Daemon \in main'.intx \/ \E u \in DaemonThreads : at'[u] \in Trigger
  <2>1. \/ at'[t] \in Trigger
        \/ main'.owner = Daemon => Daemon \in main'.intx
        \/ at[t] \notin Trigger /\ main'.owner = main.owner /\ main.intx \subseteq main'.intx
    BY <1>1, MainChange DEF KeepsLock
  <2> QED BY <1>1, <1>2, <2>1 DEF TxInv
<1>5. stat'.owner = Daemon => Daemon \in stat'.intx
  BY <1>1, StatChange DEF KeepsLock, TxInv
<1>6. /\ \A u \in DaemonThreads :
            /\ at'[u] \in {"b_main", "b_stat"} => u \in Workers /\ wk[u].pc = "loop"
            /\ at'[u] \in {"e_main", "e_stat"} => u \in Workers /\ wk[u].pc = "exit"
      /\ Daemon \in main'.intx <=> \E w \in Workers : MainBegun(w)'
      /\ Daemon \in stat'.intx => \E w \in Workers : StatBegun(w)'
  <2>1. CASE Transaction(t)
    BY <2>1, TxTransaction
  <2>2. CASE ~Transaction(t)
    <3>1. at[t] \notin Transacting
      BY <2>2, StepIs DEF Transacting
    <3>2. at'[t] \notin Transacting
      <4>1. (\E s : StepOK(t, s)) \/ at'[t] \in {"ret", "check"}
        BY <1>1, OpenGoes, InsertGoes, OtherGoes, GotoIs DEF DbStep, Opened
      <4> QED BY <1>1, <3>1, <4>1, GotoIs DEF StepOK, Transacting
    <3>3. /\ \A u \in DaemonThreads :
               /\ at'[u] \in {"b_main", "b_stat"} => u \in Workers /\ wk[u].pc = "loop"
               /\ at'[u] \in {"e_main", "e_stat"} => u \in Workers /\ wk[u].pc = "exit"
      BY <1>1, <1>2, <3>2 DEF TxInv, SoloInv, Transacting
    <3>4. \A w \in Workers : (MainBegun(w)' <=> MainBegun(w)) /\ (StatBegun(w)' <=> StatBegun(w))
      BY <1>1, <1>2, <3>1, <3>2 DEF MainBegun, StatBegun, Transacting
    <3>5. Daemon \in main'.intx <=> Daemon \in main.intx
      <4>1. CASE at[t] # "c_main"
        BY <1>1, <3>1, <4>1, MainChange DEF Transacting
      <4>2. CASE at[t] = "c_main"
        <5>1. main' \in {main, Closed(main, Daemon)}
          BY <1>1, <4>2, StepIs DEF CloseMain
        <5>2. Closed(main, Daemon).intx = main.intx \ {Daemon}
          BY <1>1, Locks DEF MainInv
        <5>3. Daemon \notin main.intx
          BY <4>2, ClosesClean DEF ServiceInv, Closing
        <5> QED BY <5>1, <5>2, <5>3
      <4> QED BY <4>1, <4>2
    <3>6. Daemon \in stat'.intx => Daemon \in stat.intx
      <4>1. CASE at[t] # "c_stat"
        BY <1>1, <3>1, <4>1, StatChange DEF Transacting
      <4>2. CASE at[t] = "c_stat"
        <5>1. stat' \in {stat, Closed(stat, Daemon)}
          BY <1>1, <4>2, StepIs DEF CloseStat
        <5>2. Closed(stat, Daemon).intx = stat.intx \ {Daemon}
          BY <1>1, Locks DEF StatInv
        <5> QED BY <5>1, <5>2
      <4> QED BY <4>1, <4>2
    <3> QED BY <3>3, <3>4, <3>5, <3>6 DEF TxInv
  <2> QED BY <2>1, <2>2
<1> QED BY <1>3, <1>4, <1>5, <1>6 DEF TxInv, SoloInv

\* A thread that enters db.c begins or ends a transaction only for
\* insert_db_history.
LEMMA TxCall ==
    ASSUME ServiceInv, TxInv, NEW t \in DaemonThreads, NEW x \in Entries, NEW m, Call(t, x, m),
           \A w \in Workers \ {t} : wk'[w] = wk[w],
           t \in Workers => wk[t].pc # "idle",
           receive_history' => receive_history,
           x = "b_main" => t \in Workers /\ wk[t].pc = "begin" /\ wk'[t].pc = "loop",
           x = "e_main" => t \in Workers /\ wk[t].pc = "end" /\ wk'[t].pc = "exit",
           t \in Workers /\ x \notin {"b_main", "e_main"} =>
             /\ wk[t].pc = "loop" /\ wk'[t].pc \in {"loop", "end"}
    PROVE  TxInv'
<1>1. at \in [Threads -> Steps] /\ DaemonThreads \subseteq Threads /\ Workers \subseteq DaemonThreads
  BY DaemonAssumption DEF DaemonThreads, ServiceInv, Inv, DbInv, ThreadsInv
<1>2. /\ at[t] = "ret" /\ at'[t] = x /\ UNCHANGED <<main, stat>>
      /\ \A u \in Threads \ {t} : at'[u] = at[u]
  BY <1>1 DEF Call
<1>3. SoloInv'
  <2>1. \A w \in Workers : wk'[w].pc # "idle" => wk[w].pc # "idle"
    OBVIOUS
  <2>2. receive_history' => t \notin Workers /\ \A w \in Workers : wk[w].pc = "idle"
    BY DEF TxInv, SoloInv, IdleWorkers
  <2>3. receive_history' => IdleWorkers' = Workers
    BY <2>2 DEF IdleWorkers
  <2>4. ASSUME NEW u \in DaemonThreads
        PROVE  /\ at'[u] \in {"b_main", "b_stat"} => u \in Workers /\ wk'[u].pc = "loop"
               /\ at'[u] \in {"e_main", "e_stat"} => u \in Workers /\ wk'[u].pc = "exit"
    BY <1>1, <1>2, <2>4 DEF TxInv, SoloInv, Entries
  <2> QED BY <2>1, <2>3, <2>4 DEF TxInv, SoloInv
<1>4. \A w \in Workers : (MainBegun(w)' <=> MainBegun(w)) /\ (StatBegun(w)' <=> StatBegun(w))
  BY <1>1, <1>2 DEF MainBegun, StatBegun, Entries
<1>5. \A u \in DaemonThreads : at[u] \in Trigger => at'[u] \in Trigger
  BY <1>1, <1>2 DEF Trigger, Levels
<1> QED BY <1>2, <1>3, <1>4, <1>5 DEF TxInv

LEMMA TxStep ==
    ASSUME MaxCrashes = 0, Readers = {}, ServiceInv, TxInv, [Next]_vars
    PROVE  TxInv'
<1>1. /\ Main \in DaemonThreads /\ Main \notin Workers /\ Workers \subseteq DaemonThreads
      /\ wk \in [Workers -> WorkerStates]
  BY DaemonAssumption DEF DaemonThreads, ServiceInv, Inv, SessionInv
<1>2. NoMisuse
  BY OpenMisuse DEF ServiceInv
<1>3. ASSUME UNCHANGED <<main, stat, at, wk>>,
             receive_history' => receive_history \/ IdleWorkers = Workers
      PROVE  TxInv'
  BY <1>3 DEF TxInv, SoloInv, IdleWorkers, MainBegun, StatBegun
<1>4. CASE MainThread \/ Disconnect
  <2>1. CASE ScanUsb
    <3>1. IdleWorkers = Workers
      BY <2>1 DEF ScanUsb, ServiceInv, QuietInv, Away
    <3> QED BY <1>3, <2>1, <3>1 DEF ScanUsb, dbVars
  <2>2. CASE Reopen \/ BufferFrame \/ DamagedFrame \/ FrameDone
    BY <1>3, <2>2 DEF Reopen, BufferFrame, DamagedFrame, FrameDone, dbVars, daemonVars
  <2>3. CASE StartLoop \/ InsertFrame \/ UpdateStatus \/ Disconnect
    <3>1. /\ \E x \in {"o_main", "s_hour", "c_main"} : \E m : Call(Main, x, m)
          /\ UNCHANGED <<wk, receive_history>>
      BY <2>3 DEF StartLoop, InsertFrame, UpdateStatus, Disconnect, CallOpen, CallInsert,
                  CallStatus, CallClose
    <3> QED BY <1>1, <3>1, TxCall DEF Entries
  <2> QED BY <1>4, <2>1, <2>2, <2>3 DEF MainThread
<1>5. CASE Connect \/ Tick \/ UNCHANGED vars
  BY <1>3, <1>5 DEF Connect, Tick, vars, dbVars, daemonVars
<1>6. ASSUME NEW w \in Workers, FirstLive(w) PROVE TxInv'
  <2>1. /\ receive_history /\ ~receive_history' /\ UNCHANGED <<main, stat, at>>
        /\ wk' = [wk EXCEPT ![w] = [pc |-> "begin", num |-> frame_id, i |-> 0]]
    BY <1>6 DEF FirstLive, dbVars
  <2>2. \A v \in Workers : wk[v].pc = "idle"
    BY <2>1 DEF TxInv, SoloInv, IdleWorkers
  <2>3. wk'[w].pc = "begin" /\ \A v \in Workers \ {w} : wk'[v].pc = "idle"
    BY <1>1, <2>1, <2>2
  <2>4. \A v \in Workers :
          ~MainBegun(v) /\ ~StatBegun(v) /\ ~MainBegun(v)' /\ ~StatBegun(v)'
    BY <2>2, <2>3 DEF MainBegun, StatBegun
  <2>5. SoloInv'
    BY <2>1, <2>2, <2>3 DEF TxInv, SoloInv
  <2> QED BY <2>1, <2>4, <2>5 DEF TxInv
<1>7. ASSUME NEW w \in Workers, Worker(w) PROVE TxInv'
  <2>1. CASE WorkerExit(w)
    <3>1. /\ wk[w].pc = "exit" /\ at[w] = "ret" /\ UNCHANGED <<main, stat, at, receive_history>>
          /\ wk'[w].pc = "idle" /\ \A v \in Workers \ {w} : wk'[v] = wk[v]
      BY <1>1, <2>1 DEF WorkerExit, IdleWorker, dbVars
    <3>2. \A v \in Workers : (MainBegun(v)' <=> MainBegun(v)) /\ (StatBegun(v)' <=> StatBegun(v))
      BY <3>1 DEF MainBegun, StatBegun
    <3>3. SoloInv'
      BY <3>1 DEF TxInv, SoloInv, IdleWorkers
    <3> QED BY <3>1, <3>2, <3>3 DEF TxInv
  <2>2. CASE WorkerBegin(w)
    <3>1. /\ Call(w, "b_main", NoMinute) /\ wk[w].pc = "begin" /\ wk'[w].pc = "loop"
          /\ UNCHANGED receive_history /\ \A v \in Workers \ {w} : wk'[v] = wk[v]
      BY <1>1, <2>2 DEF WorkerBegin, CallBegin, Move, WorkerStates
    <3> QED BY <1>1, <3>1, TxCall DEF Entries
  <2>3. CASE WorkerEnd(w)
    <3>1. /\ Call(w, "e_main", NoMinute) /\ wk[w].pc = "end" /\ wk'[w].pc = "exit"
          /\ UNCHANGED receive_history /\ \A v \in Workers \ {w} : wk'[v] = wk[v]
      BY <1>1, <2>3 DEF WorkerEnd, CallEnd, Move, WorkerStates
    <3> QED BY <1>1, <3>1, TxCall DEF Entries
  <2>4. CASE WorkerInsert(w) \/ WorkerInsertTorn(w) \/ WorkerStatus(w)
    <3>1. /\ \E x \in {"o_main", "s_hour"} : \E m : Call(w, x, m)
          /\ wk[w].pc = "loop" /\ wk'[w].pc \in {"loop", "end"}
          /\ UNCHANGED receive_history /\ \A v \in Workers \ {w} : wk'[v] = wk[v]
      BY <1>1, <2>4 DEF WorkerInsert, WorkerInsertTorn, WorkerStatus, CallInsert, CallStatus,
                        Move, WorkerStates
    <3> QED BY <1>1, <3>1, TxCall DEF Entries
  <2> QED BY <1>7, <2>1, <2>2, <2>3, <2>4 DEF Worker
<1>8. ASSUME NEW t \in DaemonThreads, Thread(t) PROVE TxInv'
  BY <1>8, TxThread DEF Thread, daemonVars
<1>9. ~PageOpens /\ ~\E r \in Readers : StartReading(r) \/ StopReading(r)
  BY DEF PageOpens
<1>10. ~Crash
  BY DEF Crash, ServiceInv, OpenInv
<1>11. \A t \in DaemonThreads : ~MisuseCrash(t)
  BY <1>2 DEF MisuseCrash, NoMisuse
<1> QED
  BY <1>4, <1>5, <1>6, <1>7, <1>8, <1>9, <1>10, <1>11 DEF Next

\* One thread at a time is within the trigger.
LEMMA MutexActivity ==
    ASSUME DbInv(Connections), MutexInv, NEW T \in SUBSET Threads, DbActivity(T)
    PROVE  MutexInv'
<1>1. MainInv /\ ThreadsInv
  BY DEF DbInv
<1>2. ASSUME NEW t \in T, DbStep(t) PROVE MutexInv'
  BY <1>1, <1>2, MutexStep
<1>3. ASSUME UNCHANGED <<main, at>> PROVE MutexInv'
  BY <1>3 DEF MutexInv
<1>4. ASSUME NEW t \in T, NEW s \in Entries, NEW m, Call(t, s, m) PROVE MutexInv'
  BY <1>1, <1>4 DEF Call, ThreadsInv, MutexInv, Entries, Trigger, Levels
<1> QED BY <1>2, <1>3, <1>4 DEF DbActivity, dbVars

RefInv ==
    /\ ServiceInv /\ MutexInv
    /\ MaxDrops = 0 => pc # "closing"
    /\ Readers = {} => TxInv

LEMMA RefInit == Init => RefInv
<1> SUFFICES ASSUME Init PROVE RefInv
  OBVIOUS
<1>1. Main \in Threads /\ Workers \subseteq Threads /\ Daemon # NoOwner
  BY DaemonAssumption, DbAssumption
<1>2. /\ \A t \in Threads : at[t] = "ret"
      /\ \A w \in Workers : wk[w].pc = "idle"
      /\ main = NewFile({}) /\ stat = NewFile(EmptyStat) /\ pc = "boot"
  BY DEF Init, DbInit, IdleWorker
<1>3. MutexInv
  BY <1>2 DEF MutexInv, Trigger, Levels
<1>4. TxInv
  BY <1>1, <1>2 DEF TxInv, SoloInv, IdleWorkers, DaemonThreads, MainBegun, StatBegun, NewFile
<1> QED BY <1>2, <1>3, <1>4, ServiceInit DEF RefInv

LEMMA RefStep ==
    ASSUME QuietFaults, Undisturbed, RefInv, [Next]_vars
    PROVE  RefInv' /\ DbActivity(DaemonThreads)
<1>1. SoundStart /\ MaxCrashes = 0
  BY DEF Undisturbed, SoundStart
<1>2. ServiceInv'
  BY <1>1, ServiceStep DEF RefInv
<1>3. DbActivity(DaemonThreads)
  <2>1. NoMisuse
    BY OpenMisuse DEF RefInv, ServiceInv
  <2>2. ~Crash /\ \A t \in DaemonThreads : ~MisuseCrash(t)
    BY <1>1, <2>1 DEF Crash, MisuseCrash, NoMisuse, RefInv, ServiceInv, OpenInv
  <2> QED BY <2>2, NextActivity DEF RefInv, ServiceInv, Inv
<1>4. MutexInv'
  <2>1. DaemonThreads \in SUBSET Threads
    BY DaemonAssumption DEF DaemonThreads
  <2> QED BY <1>3, <2>1, MutexActivity DEF RefInv, ServiceInv, Inv
<1>5. ASSUME MaxDrops = 0 PROVE pc' # "closing"
  <2>1. ~Disconnect
    BY <1>5 DEF Disconnect, RefInv, ServiceInv, QuietInv
  <2>2. pc # "closing"
    BY <1>5 DEF RefInv
  <2> QED
    BY <2>1, <2>2
       DEF Next, vars, daemonVars, MainThread, StartLoop, ScanUsb, Reopen, BufferFrame,
           InsertFrame, DamagedFrame, UpdateStatus, FrameDone, Connect, FirstLive, Worker,
           WorkerBegin, WorkerInsert, WorkerInsertTorn, WorkerStatus, WorkerEnd, WorkerExit,
           Thread, Tick, PageOpens, StartReading, StopReading, Crash, MisuseCrash, DaemonDies
<1> QED BY <1>1, <1>2, <1>3, <1>4, <1>5, TxStep DEF RefInv

\* What the daemon sees of its files is never rolled back.
LEMMA MainView ==
    ASSUME Undisturbed, RefInv, NEW t \in DaemonThreads, DbStep(t)
    PROVE  \/ Seen(main', Daemon) = Seen(main, Daemon)
           \/ InsertExec(t) /\ arg[t] \notin Seen(main, Daemon)
<1>1. /\ t \in Threads /\ ProcOf[t] = Daemon /\ MainInv /\ ThreadsInv
  BY DaemonAssumption DEF DaemonThreads, RefInv, ServiceInv, Inv, DbInv
<1>2. StatementEnds(main, Daemon)
  BY NeverRefused DEF RefInv, ServiceInv, StatementEnds
<1>3. CloseMain(t) => main.owner # Daemon
  BY ClosesClean, TransactionAt DEF Undisturbed, RefInv, ServiceInv, QuietInv, Closing,
                                    DaemonThreads
<1> QED BY <1>1, <1>2, <1>3, MainChange

LEMMA StatView ==
    ASSUME Undisturbed, RefInv, NEW t \in DaemonThreads, DbStep(t), ~CountStat(t), ~MarkStat(t)
    PROVE  Seen(stat', Daemon) = Seen(stat, Daemon)
<1>1. /\ t \in Threads /\ ProcOf[t] = Daemon /\ StatInv(Connections) /\ ThreadsInv
  BY DaemonAssumption DEF DaemonThreads, RefInv, ServiceInv, Inv, DbInv
<1>2. CloseStat(t) => stat.owner # Daemon
  BY ClosesClean, TransactionAt DEF Undisturbed, RefInv, ServiceInv, QuietInv, Closing,
                                    DaemonThreads
<1> QED BY <1>1, <1>2, StatChange

\* A statement of the daemon on its statistics takes effect, unless a page
\* prevents its commit.
LEMMA StatDone ==
    ASSUME RefInv, NEW t \in DaemonThreads, at[t] \in Levels \cup {"s_hour", "s_day"},
           NEW l \in Levels, NEW c \in Content, NEW x, NEW y, NEW z,
           StatExec(t, TableOf[l], c, x, y, z)
    PROVE  \/ Seen(stat', Daemon) = c /\ Goto(t, x)
           \/ stat' = stat /\ Goto(t, y) /\ Readers # {}
<1>1. /\ ProcOf[t] = Daemon /\ Daemon \in Procs /\ FileInv(stat, Content, Connections, StatGrows)
  BY DaemonAssumption, DbAssumption
     DEF DaemonThreads, RefInv, ServiceInv, Inv, DbInv, StatInv
<1>2. Ready /\ made = Schema
  BY AtWork DEF RefInv, ServiceInv, Inserting, Trigger
<1>3. TableOf[l] \in made
  BY <1>2, TablesAre DEF TableOf, Levels, Schema
<1>4. Readable(stat, Daemon) /\ Writable(stat, Daemon) /\ (Readers = {} => stat.shared \subseteq {Daemon})
  BY NeverRefused DEF RefInv, ServiceInv, LocksInv, HeldBy
<1> DEFINE w == Written(stat, Daemon, c)
<1>5. Seen(AfterStatement(w, Daemon), Daemon) = c
  BY <1>1, WriteLocks
<1>6. w.shared = stat.shared
  BY <1>1 DEF Written, FileInv, Files
<1>7. StatementEnds(w, Daemon) \/ Readers # {}
  BY <1>4, <1>6 DEF StatementEnds, Committable
<1>8. CASE StatementEnds(w, Daemon)
  BY <1>1, <1>2, <1>3, <1>4, <1>5, <1>8 DEF StatExec, Ready
<1>9. CASE ~StatementEnds(w, Daemon)
  BY <1>1, <1>2, <1>3, <1>4, <1>7, <1>9 DEF StatExec, Ready
<1> QED BY <1>8, <1>9

\* The row under the trigger, for the thread t that is within it.
CursorAt(t) ==
    [minute |-> arg[t], level |-> IF at[t] \in Levels THEN at[t] ELSE "done"]

LEMMA CursorIs ==
    ASSUME MutexInv, MutexInv'
    PROVE  /\ InTrigger = {} => Cursor = Recorded!NoRow
           /\ InTrigger' = {} => Cursor' = Recorded!NoRow
           /\ \A t \in DaemonThreads : at[t] \in Trigger => Cursor = CursorAt(t)
           /\ \A t \in DaemonThreads : at'[t] \in Trigger => Cursor' = CursorAt(t)'
<1>1. InTrigger = {} => Cursor = Recorded!NoRow
  BY DEF Cursor, Recorded!NoRow
<1>2. InTrigger' = {} => Cursor' = Recorded!NoRow
  BY DEF Cursor, Recorded!NoRow
<1>3. DaemonThreads \subseteq Threads
  BY DaemonAssumption DEF DaemonThreads
<1>4. ASSUME NEW t \in DaemonThreads, at[t] \in Trigger PROVE Cursor = CursorAt(t)
  <2>1. InTrigger = {t}
    BY <1>3, <1>4 DEF InTrigger, MutexInv
  <2> QED BY <2>1 DEF Cursor, CursorAt
<1>5. ASSUME NEW t \in DaemonThreads, at'[t] \in Trigger PROVE Cursor' = CursorAt(t)'
  <2>1. InTrigger' = {t}
    BY <1>3, <1>5 DEF InTrigger, MutexInv
  <2> QED BY <2>1 DEF Cursor, CursorAt
<1> QED BY <1>1, <1>2, <1>4, <1>5

\* Outside of the trigger a step leaves the row under it alone.
LEMMA CursorStays ==
    ASSUME MutexInv, MutexInv', NEW t \in DaemonThreads,
           at[t] \notin Trigger, at'[t] \notin Trigger,
           \A u \in Threads \ {t} : at'[u] = at[u] /\ arg'[u] = arg[u]
    PROVE  Cursor' = Cursor
<1>1. DaemonThreads \subseteq Threads
  BY DaemonAssumption DEF DaemonThreads
<1>2. \A u \in DaemonThreads : at'[u] \in Trigger <=> at[u] \in Trigger
  BY <1>1
<1>3. CASE InTrigger = {}
  <2>1. InTrigger' = {}
    BY <1>2, <1>3 DEF InTrigger
  <2> QED BY <1>3, <2>1, CursorIs
<1>4. ASSUME NEW u \in InTrigger PROVE Cursor' = Cursor
  <2>1. u \in DaemonThreads /\ u \in Threads \ {t} /\ at[u] \in Trigger /\ at'[u] \in Trigger
    BY <1>1, <1>2, <1>4 DEF InTrigger
  <2>2. CursorAt(u)' = CursorAt(u)
    BY <2>1 DEF CursorAt
  <2> QED BY <2>1, <2>2, CursorIs
<1> QED BY <1>3, <1>4

ledgerVars == <<Seen(main, Daemon), Seen(stat, Daemon), Cursor>>

LEMMA LedgerStutters ==
    ASSUME UNCHANGED ledgerVars
    PROVE  [Recorded!Next]_(Recorded!vars)
BY DEF ledgerVars, Recorded!vars

\* The way into the trigger.
LEMMA RowInserted ==
    ASSUME Undisturbed, RefInv, RefInv', NEW t \in DaemonThreads, DbStep(t),
           at[t] \notin Trigger, at'[t] \in Trigger
    PROVE  Recorded!InsertRow(arg[t])
<1> DEFINE rows == Seen(main, Daemon)
<1>1. /\ t \in Threads /\ ProcOf[t] = Daemon /\ Daemon \in Procs /\ ThreadsInv
      /\ FileInv(main, SUBSET Minutes, Procs, RowsGrow)
      /\ rows \in SUBSET Minutes
      /\ MutexInv /\ MutexInv' /\ DaemonThreads \subseteq Threads
  BY DaemonAssumption, DbAssumption, SeenType
     DEF DaemonThreads, RefInv, ServiceInv, Inv, DbInv, MainInv
<1>2. \A x : Goto(t, x) => at'[t] = x /\ (x # "ret" => arg'[t] = arg[t])
  BY <1>1, GotoIs
<1>3. at[t] \in {"check", "exec", "refused_main"}
  <2>1. (\E s : StepOK(t, s)) \/ at'[t] \in {"ret", "check"}
    BY <1>1, OpenGoes, InsertGoes, OtherGoes, GotoIs DEF DbStep, Opened
  <2> QED BY <1>1, <2>1, GotoIs DEF StepOK, Inserting, Trigger, Levels
<1>4. InsertExec(t)
  <2>1. Insert(t)
    BY <1>3, StepIs DEF Inserting
  <2>2. ~InsertCheck(t) /\ ~InsertFails(t) /\ ~InsertRetry(t)
    BY <1>2 DEF InsertCheck, InsertFails, InsertRetry, Trigger, Levels
  <2> QED BY <1>3, <2>1, <2>2, InsertAt DEF Insert, Levels
<1>5. arg[t] \in Minutes /\ made = Schema
  BY <1>1, <1>3, AtWork DEF ThreadsInv, Inserting, RefInv, ServiceInv
<1>6. /\ MainMutexFree(Daemon) /\ stat' = stat /\ arg[t] \notin rows
      /\ main' = Written(main, Daemon, rows \cup {arg[t]})
      /\ Goto(t, "hour")
  <2>1. \/ Goto(t, "refused_main") \/ Goto(t, "ret")
        \/ /\ arg[t] \notin rows
           /\ main' = Written(main, Daemon, rows \cup {arg[t]})
           /\ Goto(t, IF "trigger" \in made THEN "hour" ELSE "commit")
    <3>1. Writable(main, Daemon)
      BY NeverRefused DEF RefInv, ServiceInv
    <3> QED BY <1>1, <1>4, <3>1 DEF InsertExec
  <2>2. ~Goto(t, "refused_main") /\ ~Goto(t, "ret")
    BY <1>2 DEF Trigger, Levels
  <2>3. MainMutexFree(Daemon) /\ stat' = stat
    BY <1>1, <1>4 DEF InsertExec
  <2> QED BY <1>5, <2>1, <2>2, <2>3 DEF Schema
<1>7. Seen(main', Daemon) = rows \cup {arg[t]} /\ Seen(stat', Daemon) = Seen(stat, Daemon)
  BY <1>1, <1>6 DEF Seen, Written, FileInv, Files
<1>8. Cursor = Recorded!NoRow
  <2>1. InTrigger = {}
    BY <1>1, <1>6, DaemonAssumption DEF MainMutexFree, InTrigger, DaemonThreads
  <2> QED BY <1>1, <2>1, CursorIs
<1>9. Cursor' = Recorded!Row(arg[t], "hour")
  <2>1. at'[t] = "hour" /\ arg'[t] = arg[t]
    BY <1>2, <1>6
  <2>2. CursorAt(t)' = [minute |-> arg[t], level |-> "hour"]
    BY <2>1 DEF CursorAt, Levels
  <2> QED BY <1>1, <2>2, CursorIs DEF Recorded!Row
<1> QED BY <1>6, <1>7, <1>8, <1>9 DEF Recorded!InsertRow

\* A statement of update_stat: counted, or refused under a page.
LEMMA RowCounted ==
    ASSUME Undisturbed, RefInv, RefInv', NEW t \in DaemonThreads, DbStep(t), at[t] \in Levels
    PROVE  Recorded!CountRow(at[t]) \/ Recorded!RefuseRow
<1> DEFINE l == at[t]
<1> DEFINE s == Seen(stat, Daemon)
<1> DEFINE c == [s EXCEPT !.count = CountedIn(s.count, l, arg[t])]
<1> DEFINE x == IF l = "year" THEN "commit" ELSE NextLevel(l)
<1>1. /\ t \in Threads /\ ProcOf[t] = Daemon /\ Daemon \in Procs /\ ThreadsInv
      /\ l \in Trigger /\ arg[t] \in Minutes /\ s \in Content
      /\ MutexInv /\ MutexInv'
  BY DaemonAssumption, DbAssumption, SeenType
     DEF DaemonThreads, RefInv, ServiceInv, Inv, DbInv, StatInv, ThreadsInv, Inserting, Trigger
<1>2. \A y : Goto(t, y) => at'[t] = y /\ (y # "ret" => arg'[t] = arg[t])
  BY <1>1, GotoIs
<1>3. CountStat(t)
  BY <1>1, StepIs, InsertAt DEF Insert, Inserting, Levels
<1>4. StatExec(t, TableOf[l], c, x, "commit", "refused_stat") /\ main' = main
  BY <1>1, <1>3 DEF CountStat, StatExec
<1>5. c \in Content /\ c.count = CountedIn(s.count, l, arg[t]) /\ c.complete = s.complete
  BY <1>1, CountedGrows DEF Content
<1>6. Cursor = [minute |-> arg[t], level |-> l]
  <2>1. CursorAt(t) = [minute |-> arg[t], level |-> l]
    BY DEF CursorAt
  <2> QED BY <1>1, <2>1, CursorIs
<1> HIDE DEF c
<1>7. \/ Seen(stat', Daemon) = c /\ Goto(t, x)
      \/ stat' = stat /\ Goto(t, "commit") /\ Readers # {}
  BY <1>4, <1>5, StatDone
<1>8. CASE Seen(stat', Daemon) = c /\ Goto(t, x)
  <2>1. at'[t] = x /\ arg'[t] = arg[t] /\ x \in Trigger
    BY <1>2, <1>8 DEF Levels, NextLevel, Trigger
  <2>2. CursorAt(t)' = [minute |-> arg[t], level |-> Recorded!NextLevel(l)]
    BY <2>1 DEF CursorAt, Levels, NextLevel, Recorded!NextLevel
  <2>3. Cursor' = Recorded!Row(arg[t], Recorded!NextLevel(l))
    BY <1>1, <2>1, <2>2, CursorIs DEF Recorded!Row
  <2>4. CountedIn(s.count, l, arg[t]) = Recorded!CountedIn(s.count, l, arg[t])
    BY DEF CountedIn, Recorded!CountedIn, Cell, Recorded!Cell
  <2> QED BY <1>4, <1>5, <1>6, <1>8, <2>3, <2>4 DEF Recorded!CountRow
<1>9. CASE stat' = stat /\ Goto(t, "commit") /\ Readers # {}
  <2>1. at'[t] = "commit" /\ arg'[t] = arg[t] /\ at'[t] \in Trigger
    BY <1>2, <1>9 DEF Trigger
  <2>2. CursorAt(t)' = [minute |-> arg[t], level |-> "done"]
    BY <2>1 DEF CursorAt, Levels
  <2>3. Cursor' = Recorded!Row(arg[t], "done")
    BY <1>1, <2>1, <2>2, CursorIs DEF Recorded!Row
  <2> QED BY <1>4, <1>6, <1>9, <2>3 DEF Recorded!RefuseRow, Recorded!Levels, Levels
<1> QED BY <1>7, <1>8, <1>9

\* The statement of update_stat that a page refused gives its lock back, then
\* the INSERT ends.
LEMMA RowFinished ==
    ASSUME Undisturbed, RefInv, RefInv', NEW t \in DaemonThreads, DbStep(t),
           at[t] \in {"refused_stat", "commit"}
    PROVE  [Recorded!Next]_(Recorded!vars)
<1>1. /\ t \in Threads /\ ProcOf[t] = Daemon /\ Daemon \in Procs /\ ThreadsInv
      /\ at[t] \in Trigger /\ DaemonThreads \subseteq Threads
      /\ MutexInv /\ MutexInv'
  BY DaemonAssumption, DbAssumption
     DEF DaemonThreads, RefInv, ServiceInv, Inv, DbInv, Trigger
<1>2. \A y : Goto(t, y) => at'[t] = y /\ (y # "ret" => arg'[t] = arg[t])
  BY <1>1, GotoIs
<1>3. /\ at[t] = "refused_stat" => RefusedStat(t)
      /\ at[t] = "commit" => InsertEnds(t)
  BY <1>1, StepIs, InsertAt DEF Insert, Inserting, Levels
<1>4. Cursor = Recorded!Row(arg[t], "done")
  <2>1. CursorAt(t) = [minute |-> arg[t], level |-> "done"]
    BY DEF CursorAt, Levels
  <2> QED BY <1>1, <2>1, CursorIs DEF Recorded!Row
<1>5. /\ Seen(main', Daemon) = Seen(main, Daemon)
      /\ Seen(stat', Daemon) = Seen(stat, Daemon)
  <2>1. ~InsertExec(t) /\ ~CountStat(t) /\ ~MarkStat(t)
    BY InsertAt DEF Levels
  <2> QED BY <2>1, MainView, StatView
<1>6. CASE at[t] = "refused_stat"
  <2>1. Goto(t, "commit")
    BY <1>3, <1>6 DEF RefusedStat
  <2>2. at'[t] = "commit" /\ arg'[t] = arg[t] /\ at'[t] \in Trigger
    BY <1>2, <2>1 DEF Trigger
  <2>3. CursorAt(t)' = [minute |-> arg[t], level |-> "done"]
    BY <2>2 DEF CursorAt, Levels
  <2>4. Cursor' = Cursor
    BY <1>1, <1>4, <2>2, <2>3, CursorIs DEF Recorded!Row
  <2> QED BY <1>5, <2>4, LedgerStutters DEF ledgerVars
<1>7. CASE at[t] = "commit"
  <2>1. Goto(t, "ret")
    <3>1. StatementEnds(main, Daemon)
      BY NeverRefused DEF RefInv, ServiceInv, StatementEnds
    <3> QED BY <1>1, <1>3, <1>7, <3>1 DEF InsertEnds
  <2>2. at'[t] \notin Trigger /\ \A u \in Threads \ {t} : at'[u] = at[u]
    BY <1>1, <2>1, GotoIs DEF Trigger, Levels
  <2>3. InTrigger' = {}
    BY <1>1, <2>2 DEF InTrigger, MutexInv
  <2>4. Cursor' = Recorded!NoRow
    BY <1>1, <2>3, CursorIs
  <2>5. Recorded!FinishRow
    BY <1>4, <1>5, <2>4 DEF Recorded!FinishRow, Recorded!Row
  <2> QED BY <2>5 DEF Recorded!Next
<1> QED BY <1>6, <1>7

\* A statement of db_update_status.
LEMMA LevelMarked ==
    ASSUME RefInv, RefInv', NEW t \in DaemonThreads, MarkStat(t)
    PROVE  [Recorded!Next]_(Recorded!vars)
<1> DEFINE l == IF at[t] = "s_hour" THEN "hour" ELSE "day"
<1> DEFINE s == Seen(stat, Daemon)
<1> DEFINE c == [s EXCEPT !.complete = MarkedIn(s.count, @, l)]
<1> DEFINE x == IF l = "hour" THEN "s_day" ELSE "ret"
<1>1. /\ t \in Threads /\ ProcOf[t] = Daemon /\ Daemon \in Procs /\ ThreadsInv
      /\ at[t] \in {"s_hour", "s_day"} /\ s \in Content /\ MutexInv /\ MutexInv'
  BY DaemonAssumption, DbAssumption, SeenType
     DEF DaemonThreads, RefInv, ServiceInv, Inv, DbInv, StatInv, MarkStat
<1>2. StatExec(t, TableOf[l], c, x, "ret", "refused_status") /\ main' = main
  BY <1>1 DEF MarkStat, StatExec
<1>3. c \in Content /\ c.count = s.count /\ c.complete = MarkedIn(s.count, s.complete, l)
  BY <1>1, MarkedMarks DEF Content
<1>4. l \in Levels /\ l \in Recorded!StatusLevels
  BY DEF Levels, Recorded!StatusLevels
<1> HIDE DEF c
<1>5. \/ Seen(stat', Daemon) = c /\ Goto(t, x)
      \/ stat' = stat /\ Goto(t, "ret")
  BY <1>1, <1>2, <1>3, <1>4, StatDone
<1>6. Cursor' = Cursor
  <2>1. at'[t] \notin Trigger /\ \A u \in Threads \ {t} : at'[u] = at[u] /\ arg'[u] = arg[u]
    <3>1. \E y \in {"s_day", "ret"} : Goto(t, y)
      BY <1>5
    <3> QED BY <1>1, <3>1, GotoIs DEF Trigger, Levels
  <2>2. at[t] \notin Trigger
    BY <1>1 DEF Trigger, Levels
  <2> QED BY <1>1, <2>1, <2>2, CursorStays
<1>7. CASE Seen(stat', Daemon) = c
  <2>1. MarkedIn(s.count, s.complete, l) = Recorded!MarkedIn(s.count, s.complete, l)
    BY DEF MarkedIn, Recorded!MarkedIn, Matching, Recorded!Matching, Cells, Recorded!Cells,
           Levels, Recorded!Levels, Cell, Recorded!Cell, Full, Recorded!Full
  <2>2. Recorded!Mark(l)
    BY <1>2, <1>3, <1>6, <1>7, <2>1 DEF Recorded!Mark
  <2> QED BY <1>4, <2>2 DEF Recorded!Next
<1>8. CASE stat' = stat
  BY <1>2, <1>6, <1>8, LedgerStutters DEF ledgerVars
<1> QED BY <1>5, <1>7, <1>8

LEMMA ThreadRecords ==
    ASSUME Undisturbed, RefInv, RefInv', NEW t \in DaemonThreads, DbStep(t)
    PROVE  [Recorded!Next]_(Recorded!vars)
<1>1. /\ t \in Threads /\ ThreadsInv /\ MutexInv /\ MutexInv'
  BY DaemonAssumption DEF DaemonThreads, RefInv, ServiceInv, Inv, DbInv
<1>2. CASE at[t] \in Levels
  <2>1. at[t] \in Recorded!Levels
    BY <1>2 DEF Levels, Recorded!Levels
  <2> QED BY <1>2, <2>1, RowCounted DEF Recorded!Next
<1>3. CASE at[t] \in {"refused_stat", "commit"}
  BY <1>3, RowFinished
<1>4. CASE at[t] \notin Trigger /\ at'[t] \in Trigger
  <2>1. Recorded!InsertRow(arg[t])
    BY <1>4, RowInserted
  <2>2. arg[t] \in Minutes
    <3>1. (\E s : StepOK(t, s)) \/ at'[t] \in {"ret", "check"}
      BY <1>1, OpenGoes, InsertGoes, OtherGoes, GotoIs DEF DbStep, Opened
    <3>2. at[t] \in Inserting
      BY <1>1, <1>4, <3>1, GotoIs DEF StepOK, Inserting, Trigger, Levels
    <3> QED BY <1>1, <3>2 DEF ThreadsInv
  <2> QED BY <2>1, <2>2 DEF Recorded!Next
<1>5. CASE at[t] \notin Trigger /\ at'[t] \notin Trigger
  <2>1. CASE MarkStat(t)
    BY <2>1, LevelMarked
  <2>2. CASE ~MarkStat(t)
    <3>1. \A u \in Threads \ {t} : at'[u] = at[u] /\ arg'[u] = arg[u]
      BY <1>1, DbStepThreads
    <3>2. Cursor' = Cursor
      BY <1>1, <1>5, <3>1, CursorStays
    <3>3. Seen(stat', Daemon) = Seen(stat, Daemon)
      BY <1>5, <2>2, StatView, InsertAt DEF Trigger
    <3>4. Seen(main', Daemon) = Seen(main, Daemon)
      <4>1. CASE InsertExec(t) /\ arg[t] \notin Seen(main, Daemon)
        <5>1. ProcOf[t] = Daemon /\ Writable(main, Daemon) /\ made = Schema
          BY <4>1, NeverRefused, AtWork, DaemonAssumption
             DEF DaemonThreads, RefInv, ServiceInv, InsertExec, Inserting
        <5>2. Goto(t, "hour")
          BY <4>1, <5>1 DEF InsertExec, Schema
        <5> QED BY <1>1, <1>5, <5>2, GotoIs DEF Trigger, Levels
      <4> QED BY <4>1, MainView
    <3> QED BY <3>2, <3>3, <3>4, LedgerStutters DEF ledgerVars
  <2> QED BY <2>1, <2>2
<1> QED BY <1>2, <1>3, <1>4, <1>5 DEF Trigger

LEMMA DaemonRecords ==
    ASSUME QuietFaults, Undisturbed, RefInv, [Next]_vars
    PROVE  [Recorded!Next]_(Recorded!vars)
<1>1. RefInv' /\ DbActivity(DaemonThreads) /\ MutexInv /\ MutexInv' /\ ThreadsInv
  BY RefStep DEF RefInv, ServiceInv, Inv, DbInv
<1>2. ASSUME NEW t \in DaemonThreads, DbStep(t) PROVE [Recorded!Next]_(Recorded!vars)
  BY <1>1, <1>2, ThreadRecords
<1>3. ASSUME UNCHANGED <<main, at, arg>>, Seen(stat', Daemon) = Seen(stat, Daemon)
      PROVE  [Recorded!Next]_(Recorded!vars)
  <2>1. Cursor' = Cursor
    BY <1>3 DEF Cursor, InTrigger
  <2> QED BY <1>3, <2>1, LedgerStutters DEF ledgerVars
<1>4. ASSUME NEW t \in DaemonThreads, NEW s \in Entries, NEW m, Call(t, s, m)
      PROVE  [Recorded!Next]_(Recorded!vars)
  <2>1. t \in Threads
    BY DaemonAssumption DEF DaemonThreads
  <2>2. /\ at[t] \notin Trigger /\ at'[t] \notin Trigger /\ UNCHANGED <<main, stat>>
        /\ \A u \in Threads \ {t} : at'[u] = at[u] /\ arg'[u] = arg[u]
    BY <1>1, <1>4, <2>1 DEF Call, ThreadsInv, Entries, Trigger, Levels
  <2>3. Cursor' = Cursor
    BY <1>1, <2>2, CursorStays
  <2> QED BY <2>2, <2>3, LedgerStutters DEF ledgerVars
<1>5. ASSUME NEW r \in Readers, stat' \in {Sharing(stat, r), Unsharing(stat, r)}
      PROVE  Seen(stat', Daemon) = Seen(stat, Daemon)
  BY <1>5 DEF Seen, Sharing, Unsharing, RefInv, ServiceInv, Inv, DbInv, StatInv, FileInv, Files
<1> QED BY <1>1, <1>2, <1>3, <1>4, <1>5 DEF DbActivity, dbVars

\* What the daemon sees of its two files behaves like Ledger: whatever its
\* threads do at once, each row is inserted once, counted table by table until
\* a page refuses a statement, and no view is rolled back (db.c:119-267), as
\* long as no crash and no disconnection comes in the middle.
THEOREM DaemonRefines ==
    ASSUME QuietFaults, Undisturbed
    PROVE  Spec => LedgerSpec
<1>1. Init => Recorded!Init
  <2> SUFFICES ASSUME Init PROVE Recorded!Init
    OBVIOUS
  <2>1. /\ main = NewFile({}) /\ stat = NewFile(EmptyStat) /\ \A t \in Threads : at[t] = "ret"
    BY DEF Init, DbInit
  <2>2. InTrigger = {}
    BY <2>1, DaemonAssumption DEF InTrigger, DaemonThreads, Trigger, Levels
  <2>3. EmptyCount = Recorded!EmptyCount
    BY DEF EmptyCount, Recorded!EmptyCount, Cells, Recorded!Cells, Levels, Recorded!Levels,
           Cell, Recorded!Cell
  <2> QED
    BY <2>1, <2>2, <2>3
       DEF Recorded!Init, Recorded!NoRow, Cursor, Seen, NewFile, EmptyStat
<1>2. RefInv /\ [Next]_vars => RefInv' /\ [Recorded!Next]_(Recorded!vars)
  BY RefStep, DaemonRecords
<1> QED BY RefInit, <1>1, <1>2, PTL DEF Spec, LedgerSpec, Recorded!Spec

(***************************************************************************)
(* What follows from the promise: the theorems of LedgerProofs, about the  *)
(* connections of the daemon.                                              *)
(***************************************************************************)

Promised == INSTANCE LedgerProofs WITH
    rows <- Seen(main, Daemon),
    count <- Seen(stat, Daemon).count,
    complete <- Seen(stat, Daemon).complete,
    at <- Cursor,
    MayRefuse <- Readers # {}

\* The instance speaks of the same minutes and cells, so that the assumptions
\* of LedgerProofs hold of it.
LEMMA PromisedCells ==
    /\ (Readers # {}) \in BOOLEAN
    /\ Promised!StatusLevels = StatusLevels
    /\ Promised!Cells = Cells
    /\ Promised!IsFiniteSet(Minutes) = IsFiniteSet(Minutes)
    /\ \A S : Promised!Cardinality(S) = Cardinality(S)
    /\ \A S, c : Promised!InCell(S, c) = InCell(S, c)
    /\ \A l, m : Promised!Cell(l, m) = Cell(l, m) /\ Promised!Full(l) = Full(l)
<1>1. (Readers # {}) \in BOOLEAN
  OBVIOUS
<1>2. /\ Promised!StatusLevels = StatusLevels
      /\ \A S, c : Promised!InCell(S, c) = InCell(S, c)
      /\ \A l, m : Promised!Cell(l, m) = Cell(l, m) /\ Promised!Full(l) = Full(l)
  BY DEF Promised!StatusLevels, StatusLevels, Promised!InCell, InCell, Promised!Cell, Cell,
         Promised!Full, Full
<1>3. Promised!Cells = Cells
  BY DEF Promised!Cells, Cells, Promised!Levels, Levels, Promised!Cell, Cell
<1>4. Promised!IsFiniteSet(Minutes) = IsFiniteSet(Minutes)
  BY DEF Promised!IsFiniteSet, IsFiniteSet
<1>5. ASSUME NEW S PROVE Promised!Cardinality(S) = Cardinality(S)
  BY DEF Promised!Cardinality, Cardinality
<1> QED BY <1>1, <1>2, <1>3, <1>4, <1>5

\* The refinement proved above is that of the instance.
LEMMA PromisedSpec == Recorded!Spec => Promised!Spec
<1>1. Recorded!Init => Promised!Init
  BY DEF Recorded!Init, Promised!Init, Recorded!EmptyCount, Promised!EmptyCount,
         Recorded!Cells, Promised!Cells, Recorded!Levels, Promised!Levels,
         Recorded!Cell, Promised!Cell, Recorded!NoRow, Promised!NoRow
<1>2. [Recorded!Next]_(Recorded!vars) => [Promised!Next]_(Promised!vars)
  <2>1. ASSUME NEW m \in Minutes, Recorded!InsertRow(m) PROVE Promised!InsertRow(m)
    BY <2>1 DEF Recorded!InsertRow, Promised!InsertRow, Recorded!NoRow, Promised!NoRow,
                Recorded!Row, Promised!Row
  <2>2. ASSUME NEW l, Recorded!CountRow(l) PROVE Promised!CountRow(l)
    BY <2>2 DEF Recorded!CountRow, Promised!CountRow, Recorded!Row, Promised!Row,
                Recorded!CountedIn, Promised!CountedIn, Recorded!Cell, Promised!Cell,
                Recorded!NextLevel, Promised!NextLevel
  <2>3. Recorded!RefuseRow => Promised!RefuseRow
    BY DEF Recorded!RefuseRow, Promised!RefuseRow, Recorded!Levels, Promised!Levels,
           Recorded!Row, Promised!Row
  <2>4. Recorded!FinishRow => Promised!FinishRow
    BY DEF Recorded!FinishRow, Promised!FinishRow, Recorded!NoRow, Promised!NoRow
  <2>5. ASSUME NEW l, Recorded!Mark(l) PROVE Promised!Mark(l)
    BY <2>5 DEF Recorded!Mark, Promised!Mark, Recorded!MarkedIn, Promised!MarkedIn,
                Recorded!Matching, Promised!Matching, Recorded!Cells, Promised!Cells,
                Recorded!Levels, Promised!Levels, Recorded!Cell, Promised!Cell,
                Recorded!Full, Promised!Full
  <2>6. Recorded!Levels = Promised!Levels /\ Recorded!StatusLevels = Promised!StatusLevels
    BY DEF Recorded!Levels, Promised!Levels, Recorded!StatusLevels, Promised!StatusLevels
  <2>7. UNCHANGED Recorded!vars => UNCHANGED Promised!vars
    BY DEF Recorded!vars, Promised!vars
  <2> QED BY <2>1, <2>2, <2>3, <2>4, <2>5, <2>6, <2>7 DEF Recorded!Next, Promised!Next
<1> QED BY <1>1, <1>2, PTL DEF Recorded!Spec, Promised!Spec

\* RefInv is inductive: what the refinement and the theorems below rest on.
THEOREM DaemonRefInv ==
    ASSUME QuietFaults, Undisturbed
    PROVE  Spec => []RefInv
BY RefInit, RefStep, PTL DEF Spec

\* A day that a page shows in blue has all its minutes in the history that the
\* daemon keeps (db.c:239), whichever statements a page has refused and
\* whenever the status was marked: the committed marks are among those that
\* the daemon sees, and those are sound.
THEOREM DaemonBlueIsComplete ==
    ASSUME QuietFaults, Undisturbed
    PROVE  Spec => []BlueDayIsComplete
<1>1. Promised!Spec => []Promised!BlueIsComplete
  BY Promised!BlueIsSound, PromisedCells, CalendarAssumption
<1>2. ASSUME RefInv, Promised!BlueIsComplete PROVE BlueDayIsComplete
  <2>1. stat.disk.complete \subseteq Seen(stat, Daemon).complete
    BY <1>2 DEF RefInv, ServiceInv, Inv, DbInv, StatInv, FileInv, StatGrows, Seen
  <2> QED BY <1>2, <2>1, PromisedCells DEF Promised!BlueIsComplete, BlueDayIsComplete
<1> QED BY <1>1, <1>2, DaemonRefInv, DaemonRefines, PromisedSpec, PTL DEF LedgerSpec

\* No row of the statistics that a page reads counts more minutes than the
\* history of the daemon has for its period: a retried, repeated or
\* interrupted insert is not counted twice (db.c:132-233).
THEOREM DaemonNeverOvercounts ==
    ASSUME QuietFaults, Undisturbed
    PROVE  Spec => [](\A c \in Cells :
                        stat.disk.count[c] <= Cardinality(InCell(Seen(main, Daemon), c)))
<1> DEFINE Sound == \A c \in Cells :
                stat.disk.count[c] <= Cardinality(InCell(Seen(main, Daemon), c))
<1>1. Promised!Spec => []Promised!NeverOvercounts
  BY Promised!CountsAreSound, PromisedCells, CalendarAssumption
<1>2. ASSUME RefInv, Promised!NeverOvercounts PROVE Sound
  <2> SUFFICES ASSUME NEW c \in Cells
               PROVE  stat.disk.count[c] <= Cardinality(InCell(Seen(main, Daemon), c))
    OBVIOUS
  <2>1. /\ stat.disk \in Content /\ Seen(stat, Daemon) \in Content
        /\ stat.disk.count[c] <= Seen(stat, Daemon).count[c]
    <3>1. FileInv(stat, Content, Connections, StatGrows)
      BY <1>2 DEF RefInv, ServiceInv, Inv, DbInv, StatInv
    <3>2. stat.disk \in Content /\ <<stat.disk, stat.work>> \in StatGrows
      BY <3>1 DEF FileInv, Files
    <3>3. stat.disk.count[c] \in Nat /\ stat.disk.count[c] <= stat.work.count[c]
      BY <3>2 DEF StatGrows, Content
    <3> QED BY <3>1, <3>2, <3>3, SeenType DEF Seen
  <2>2. Seen(stat, Daemon).count[c] + Promised!Due(c) <= Cardinality(InCell(Seen(main, Daemon), c))
    BY <1>2, PromisedCells DEF Promised!NeverOvercounts
  <2>3. Promised!Due(c) \in {0, 1}
    BY DEF Promised!Due
  <2>4. Cardinality(InCell(Seen(main, Daemon), c)) \in Nat
    <3>1. Seen(main, Daemon) \in SUBSET Minutes
      BY <1>2, DaemonAssumption, DbAssumption, SeenType
         DEF RefInv, ServiceInv, Inv, DbInv, MainInv, FileInv, Files, Seen
    <3>2. IsFiniteSet(Minutes) /\ InCell(Seen(main, Daemon), c) \in SUBSET Minutes
      BY <3>1, CalendarAssumption DEF InCell
    <3> QED BY <3>2, FS_Subset, FS_CardinalityType
  <2> QED BY <2>1, <2>2, <2>3, <2>4 DEF Content
<1> QED BY <1>1, <1>2, DaemonRefInv, DaemonRefines, PromisedSpec, PTL DEF LedgerSpec

\* Without pages, the committed statistics are exactly those of the committed
\* history whenever the daemon has no insert and no transaction under way:
\* every minute is counted once in each of the four tables; and it has none
\* when no history thread runs (db.c:118-131, db.c:132-233).
THEOREM DaemonCountsExactly ==
    ASSUME QuietFaults, Undisturbed, Readers = {}
    PROVE  Spec => [](/\ CountedAtRest
                      /\ InTrigger = {} /\ IdleWorkers = Workers =>
                            main.owner # Daemon /\ stat.owner # Daemon)
<1> DEFINE NoTransaction == InTrigger = {} /\ IdleWorkers = Workers =>
                       main.owner # Daemon /\ stat.owner # Daemon
<1>1. Promised!Spec => []Promised!CountsExact
  BY Promised!CountsAreExact, PromisedCells, CalendarAssumption
<1>2. ASSUME RefInv, Promised!CountsExact PROVE CountedAtRest
  <2> SUFFICES ASSUME InTrigger = {}, main.owner # Daemon, stat.owner # Daemon, NEW c \in Cells
               PROVE  stat.disk.count[c] = Cardinality(InCell(main.disk, c))
    BY DEF CountedAtRest
  <2>1. Seen(main, Daemon) = main.disk /\ Seen(stat, Daemon) = stat.disk
    BY DEF Seen
  <2>2. Promised!Due(c) = 0
    <3>1. Cursor.level = "none"
      BY DEF Cursor
    <3> QED BY <3>1 DEF Promised!Due, Promised!LevelsLeft
  <2>3. stat.disk.count[c] + Promised!Due(c) = Cardinality(InCell(main.disk, c))
    BY <1>2, <2>1, PromisedCells DEF Promised!CountsExact
  <2>4. stat.disk.count[c] \in Nat
    BY <1>2 DEF RefInv, ServiceInv, Inv, DbInv, StatInv, FileInv, Files, Content
  <2> QED BY <2>2, <2>3, <2>4
<1>3. ASSUME RefInv PROVE NoTransaction
  <2> SUFFICES ASSUME InTrigger = {}, IdleWorkers = Workers
               PROVE  main.owner # Daemon /\ stat.owner # Daemon
    OBVIOUS
  <2>1. TxInv /\ \A w \in Workers : wk[w].pc = "idle"
    BY <1>3 DEF RefInv, IdleWorkers
  <2>2. ~(\E w \in Workers : MainBegun(w)) /\ ~(\E w \in Workers : StatBegun(w))
    BY <2>1 DEF MainBegun, StatBegun
  <2>3. ~\E t \in DaemonThreads : at[t] \in Trigger
    BY DEF InTrigger
  <2> QED BY <2>1, <2>2, <2>3 DEF TxInv
<1> QED BY <1>1, <1>2, <1>3, DaemonRefInv, DaemonRefines, PromisedSpec, PTL DEF LedgerSpec
===============================================================================
