--------------------------------- MODULE Frames -------------------------------
(***************************************************************************)
(* What cm160.c makes of the content of the frames, one after the other:   *)
(* the month it substitutes, the records it inserts and the .live file it  *)
(* writes.  insert_db_history keeps its last valid month in a static       *)
(* variable: the history threads of successive sessions share it when they *)
(* overlap, and the buffer with the main thread.  What db.c does with the  *)
(* records, and when, is in Cm160.                                         *)
(*                                                                         *)
(* The device has recorded the minutes 1..clock and holds the last Memory  *)
(* of them.  It sends those it holds at a connection, then LIVE frames,    *)
(* with a DB frame when a minute starts.  Some frames are strange: their   *)
(* month is above 12, or all the bytes of their date are 255.              *)
(***************************************************************************)
EXTENDS Integers, SequencesExt

CONSTANTS
    LastMinute,      \* bound: minutes of the device
    MonthOf,         \* MonthOf[m]: the month of minute m
    StrangeMinutes,  \* minutes whose DB frame can be strange
    FirstStrange,    \* whether it can be when it is the first of a session
    Mixed,           \* Mixed[m][n]: the minutes that a reader of a slot can
                     \* decode while a frame of n overwrites one of m
    Powers,          \* the powers, in watts, of the LIVE frames
    Memory,          \* minutes the device holds
    HISTORY_SIZE,    \* frames the history buffer holds
    Workers,         \* the history threads
    MaxStops         \* bound: disconnections and crashes

VARIABLES
    clock, start, next,      \* the device: its last minute, the first DB frame
                             \* of the session and the next one
    session,         \* whether the device is connected
    receive_history,
    frame_id, history,       \* the buffer, with what earlier sessions left
    wk,              \* per history thread: its num_elems and its i
    last_valid_month,        \* the static variable of process_frame
    worker_month,            \* that of insert_db_history
    rows,            \* energy_history: the keys inserted
    watts,           \* _watts of process_live_data
    live,            \* the .live file
    writing,         \* what fclose is about to write, or Closed
    stops,
    overlapped       \* history: this session began while a thread of an
                     \* earlier one was still inserting

deviceVars == <<clock, start, next>>
bufferVars == <<receive_history, frame_id, history>>
workerVars == <<wk, worker_month>>
liveVars == <<watts, live, writing>>
frameVars == <<deviceVars, session, bufferVars, workerVars, last_valid_month, rows,
               liveVars, stops, overlapped>>

ASSUME FramesAssumption ==
    /\ LastMinute \in Nat \ {0}
    /\ MonthOf \in [1..LastMinute -> 1..12]
    /\ FirstStrange \in BOOLEAN
    /\ Mixed \in [0..LastMinute -> [0..LastMinute -> SUBSET (0..LastMinute)]]
    /\ Powers \subseteq Nat
    /\ Memory \in Nat /\ HISTORY_SIZE \in Nat /\ MaxStops \in Nat

NoPower == -1

\* The minute of a record whose date is 255 everywhere.
Never == 0

Empty == [minute |-> Never, watts |-> NoPower]

Closed == [minute |-> Never, watts |-> NoPower - 1]

\* A date of 255 everywhere has a strange month too.
StrangeMonth == 255

\* A slot of the static buffer before any frame.
NoFrame == [minute |-> Never, month |-> 0]

IdleWorker == [num |-> 0, i |-> 0]

IdleWorkers == {w \in Workers : wk[w] = IdleWorker}

FramesInit ==
    /\ clock = 1 /\ start = 1 /\ next = 1
    /\ session = FALSE
    /\ receive_history = TRUE
    /\ frame_id = 0
    /\ history = [k \in 1..HISTORY_SIZE |-> NoFrame]
    /\ wk = [w \in Workers |-> IdleWorker]
    /\ last_valid_month = 0 /\ worker_month = 0
    /\ rows = {}
    /\ watts = NoPower
    /\ live = Empty
    /\ writing = Closed
    /\ stops = 0
    /\ overlapped = FALSE

-------------------------------------------------------------------------------
(* The device.                                                             *)

\* The minutes the device has forgotten are 1..Forgotten.
Forgotten == IF clock > Memory THEN clock - Memory ELSE 0

\* The frames it can send for minute m.
Good(m)    == [minute |-> m, month |-> MonthOf[m]]
BadMonth(m) == [minute |-> m, month |-> StrangeMonth]
BadDate    == [minute |-> Never, month |-> StrangeMonth]

CanBeStrange(m) == m \in StrangeMinutes /\ (m = start => FirstStrange)

DbFrames(m) == {Good(m)} \cup (IF CanBeStrange(m) THEN {BadMonth(m), BadDate} ELSE {})

LiveFrames(m) == {Good(m), BadMonth(m), BadDate}

\* What a reader can decode while frame f overwrites frame old.
Mixes(old, f) == [minute : Mixed[old.minute][f.minute], month : {old.month, f.month}]

-------------------------------------------------------------------------------
(* process_frame.                                                          *)

\* Mutant of ValidMonth: the month is taken as it comes.
ValidMonthUnchecked(month, last) == month

\* The month of a record, in both functions: the last valid one if need be.
ValidMonth(month, last) == IF month > 12 THEN last ELSE month

Record(f, last) == [minute |-> f.minute, month |-> ValidMonth(f.month, last)]

\* process_live_data, up to fclose, with the power w of the record or of the
\* last LIVE frame; the hour of a strange date is not written.
OpenLive(f, w) ==
    IF w = NoPower THEN UNCHANGED <<live, writing>>
    ELSE /\ live' = Empty
         /\ writing' = IF f.minute = Never THEN Empty ELSE [minute |-> f.minute, watts |-> w]

\* fclose writes what fprintf left in the buffer.
CloseLive ==
    /\ writing # Closed
    /\ live' = writing
    /\ writing' = Closed
    /\ UNCHANGED <<deviceVars, session, bufferVars, workerVars, last_valid_month, rows,
                   watts, stops, overlapped>>

\* A DB frame is waiting, and the main thread is back from the last one.
FrameWaits == session /\ writing = Closed /\ next <= clock

\* The main thread gets it.
GetsFrame(f) ==
    /\ next' = next + 1
    /\ last_valid_month' = ValidMonth(f.month, last_valid_month)
    /\ UNCHANGED <<clock, start, session, receive_history, watts, stops, overlapped>>

\* A DB frame of the history goes as it is to the next slot.
Buffers(f) ==
    /\ receive_history /\ frame_id < HISTORY_SIZE
    /\ history' = [history EXCEPT ![frame_id + 1] = f]
    /\ frame_id' = frame_id + 1

BufferFrame ==
    /\ FrameWaits
    /\ \E f \in DbFrames(next) : GetsFrame(f) /\ Buffers(f)
    /\ UNCHANGED <<workerVars, rows, live, writing>>

\* A later one, or one without room, is inserted and its time shown.
InsertFrame ==
    /\ FrameWaits
    /\ ~(receive_history /\ frame_id < HISTORY_SIZE)
    /\ \E f \in DbFrames(next) :
        /\ GetsFrame(f)
        /\ rows' = rows \cup {Record(f, last_valid_month)}
        /\ OpenLive(f, watts)
    /\ UNCHANGED <<frame_id, history, workerVars>>

\* pthread_create(insert_db_history, frame_id); any idle thread will do.
StartHistory ==
    /\ IdleWorkers # {}
    /\ LET w == CHOOSE v \in IdleWorkers : TRUE
       IN  wk' = [wk EXCEPT ![w] = [IdleWorker EXCEPT !.num = frame_id]]

\* A LIVE frame; the first one of a session starts a history thread.
LiveFrame ==
    /\ session /\ writing = Closed /\ next > clock
    /\ \E f \in LiveFrames(clock), w \in Powers :
        /\ last_valid_month' = ValidMonth(f.month, last_valid_month)
        /\ watts' = w
        /\ OpenLive(f, w)
    /\ IF receive_history THEN StartHistory ELSE UNCHANGED wk
    /\ receive_history' = FALSE
    /\ UNCHANGED <<deviceVars, session, frame_id, history, worker_month, rows, stops, overlapped>>

-------------------------------------------------------------------------------
(* insert_db_history.                                                      *)

\* The thread has still to read slot i.
Reads(w) == wk[w].i < wk[w].num

\* The thread goes on to slot i + 1, or ends.
Advanced(w) ==
    IF wk[w].i + 1 = wk[w].num THEN IdleWorker ELSE [wk[w] EXCEPT !.i = @ + 1]

\* Mutant of Inserts: last_valid_month is not static.
InsertsFresh(w, f) ==
    /\ worker_month' = ValidMonth(f.month, 0)
    /\ rows' = rows \cup {Record(f, 0)}
    /\ wk' = [wk EXCEPT ![w] = Advanced(w)]

\* Frame f is decoded, its month checked and its record inserted: only a
\* session that overlaps the thread could come in between.
Inserts(w, f) ==
    /\ worker_month' = ValidMonth(f.month, worker_month)
    /\ rows' = rows \cup {Record(f, worker_month)}
    /\ wk' = [wk EXCEPT ![w] = Advanced(w)]

WorkerInsert(w) ==
    /\ Reads(w)
    /\ Inserts(w, history[wk[w].i + 1])
    /\ UNCHANGED <<deviceVars, session, bufferVars, last_valid_month, liveVars, stops, overlapped>>

\* The next session buffers a frame in the slot that the thread is reading,
\* which decodes a mix of both.
WorkerInsertTorn(w) ==
    /\ Reads(w) /\ frame_id = wk[w].i
    /\ FrameWaits
    /\ \E f \in DbFrames(next) :
        /\ GetsFrame(f) /\ Buffers(f)
        /\ \E mix \in Mixes(history[frame_id + 1], f) : Inserts(w, mix)
    /\ UNCHANGED <<live, writing>>

Worker(w) == WorkerInsert(w) \/ WorkerInsertTorn(w)

-------------------------------------------------------------------------------
(* Sessions.                                                               *)

\* Mutant of Connect: the flag is set only once, when the program starts.
ConnectAgain ==
    /\ ~session
    /\ session' = TRUE
    /\ start' = Forgotten + 1 /\ next' = start'
    /\ frame_id' = 0
    /\ overlapped' = (IdleWorkers # Workers)
    /\ UNCHANGED <<clock, receive_history, history, workerVars, last_valid_month, rows,
                   liveVars, stops>>

\* main resets receive_history and frame_id; the device sends its memory.
Connect ==
    /\ ~session
    /\ session' = TRUE
    /\ start' = Forgotten + 1 /\ next' = start'
    /\ receive_history' = TRUE
    /\ frame_id' = 0
    /\ overlapped' = (IdleWorkers # Workers)
    /\ UNCHANGED <<clock, history, workerVars, last_valid_month, rows, liveVars, stops>>

Disconnect ==
    /\ session /\ writing = Closed /\ stops < MaxStops
    /\ session' = FALSE
    /\ stops' = stops + 1
    /\ UNCHANGED <<deviceVars, bufferVars, workerVars, last_valid_month, rows, liveVars,
                   overlapped>>

\* The process ends, between fopen and fclose perhaps, and is respawned.
Restart ==
    /\ stops < MaxStops
    /\ stops' = stops + 1
    /\ session' = FALSE
    /\ receive_history' = TRUE
    /\ frame_id' = 0
    /\ history' = [k \in 1..HISTORY_SIZE |-> NoFrame]
    /\ wk' = [w \in Workers |-> IdleWorker]
    /\ last_valid_month' = 0 /\ worker_month' = 0
    /\ watts' = NoPower
    /\ writing' = Closed
    /\ UNCHANGED <<deviceVars, rows, live, overlapped>>

Tick ==
    /\ clock < LastMinute
    /\ clock' = clock + 1
    /\ UNCHANGED <<start, next, session, bufferVars, workerVars, last_valid_month, rows,
                   liveVars, stops, overlapped>>

FramesNext ==
    \/ BufferFrame \/ InsertFrame \/ LiveFrame \/ CloseLive
    \/ \E w \in Workers : Worker(w)
    \/ Connect \/ Disconnect \/ Restart \/ Tick

-------------------------------------------------------------------------------

IsReading(content) == content \notin {Empty, Closed}

\* A record whose month came above 12 gets its true month, and so the key
\* under which the device would send it otherwise, as long as no history
\* thread of an earlier session shares the static month, when the first
\* frames of a session and of a month are good (cm160.c:106-108, 120-123,
\* 185-188).
MonthRight ==
    [][~overlapped => \A r \in rows' \ rows :
           r.minute # Never => r.month = MonthOf[r.minute]]_frameVars

\* The time shown in .live never goes back: the history that the device sends
\* again at a connection does not reach it as long as it fits the buffer
\* (cm160.c:192, 210; HISTORY_SIZE is 65536, the device holds 43200 minutes).
TimeNeverGoesBack ==
    [][IsReading(live) /\ IsReading(writing') => live.minute <= writing'.minute]_frameVars
===============================================================================
