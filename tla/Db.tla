---------------------------------- MODULE Db ----------------------------------
(***************************************************************************)
(* db.c: the recording library of cm160 and db_import, over eagleowl.db    *)
(* (main) and eagleowl_stat.db (stat).                                     *)
(*                                                                         *)
(* A thread calls one function of the library at a time; at[t] is where it *)
(* is in it ("ret" when it is outside) and arg[t] the minute it inserts.   *)
(* Every sqlite3_exec is a step of its own, and so is every access to the  *)
(* static pointers db and stat_db that another thread may change.  The     *)
(* threads of a process share its two connections; sqlite3_exec on db      *)
(* holds the mutex of that connection from the INSERT to its commit, with  *)
(* the trigger and its statistics statements in between.                   *)
(*                                                                         *)
(* Two threads that open the same file at once share one connection here;  *)
(* in the code the first leaks, unused but for the statement in progress   *)
(* on it.                                                                  *)
(***************************************************************************)
EXTENDS StatTables, SqliteFile, Sequences

CONSTANTS
    Procs,           \* the processes that link db.c
    Threads,         \* their threads
    ProcOf,          \* ProcOf[t]: the process of thread t
    Fresh,           \* whether the two files are still to be created
    MaxRetries       \* bound: autocommits of a history row that are refused

ASSUME DbAssumption ==
    /\ ProcOf \in [Threads -> Procs]
    /\ NoOwner \notin Procs
    /\ Fresh \in BOOLEAN
    /\ MaxRetries \in Nat

VARIABLES
    main,            \* eagleowl.db: the set of recorded minutes
    stat,            \* eagleowl_stat.db: count and complete of StatTables
    made,            \* the files, tables and trigger that exist
    hdl,             \* per process: the pointers db and stat_db, and whether
                     \* update_stat_db is registered with db
    at,              \* per thread: the statement of db.c it is about to run
    arg,             \* per thread: the minute passed to db_insert_hist
    retries          \* autocommits refused so far

dbVars == <<main, stat, made, hdl, at, arg, retries>>

EmptyStat == [count |-> EmptyCount, complete |-> {}]

Closing == {"c_main", "c_null", "c_stat", "c_snull"}

Trigger == Levels \cup {"refused_stat", "commit"}

\* The tables of the two files, in the order in which they are created.
MainTables == <<"t_history", "t_param", "t_sensor", "t_tariffv2">>

StatCreation == <<"t_year", "t_month", "t_day", "t_hour">>

TableOf == [l \in Levels |-> CASE l = "year"  -> "t_year"
                               [] l = "month" -> "t_month"
                               [] l = "day"   -> "t_day"
                               [] l = "hour"  -> "t_hour"]

Tables(creation) == {creation[i] : i \in DOMAIN creation}

\* What a complete installation has.
Schema == {"db", "trigger", "stat_db"} \cup Tables(MainTables) \cup Tables(StatCreation)

Steps == {"ret", "o_main", "o_open", "o_fn", "o_trigger", "o_stat", "o_sopen",
          "o_done", "refused_create", "refused_screate",
          "check", "exec", "refused_main", "b_main", "b_stat", "e_main",
          "e_stat", "s_hour", "s_day", "refused_status"}
         \cup Tables(MainTables) \cup Tables(StatCreation) \cup Trigger \cup Closing

DbInit ==
    /\ main = NewFile({})
    /\ stat = NewFile(EmptyStat)
    /\ made = IF Fresh THEN {} ELSE Schema
    /\ hdl = [p \in Procs |-> [main |-> "null", stat |-> "null", fn |-> FALSE]]
    /\ at = [t \in Threads |-> "ret"]
    /\ arg = [t \in Threads |-> NoMinute]
    /\ retries = 0

-------------------------------------------------------------------------------
(* Calls and returns.                                                      *)

Goto(t, s) ==
    /\ at' = [at EXCEPT ![t] = s]
    /\ arg' = [arg EXCEPT ![t] = IF s = "ret" THEN NoMinute ELSE @]

\* A thread outside the library enters it at step s, with minute m.
Call(t, s, m) ==
    /\ at[t] = "ret"
    /\ at' = [at EXCEPT ![t] = s]
    /\ arg' = [arg EXCEPT ![t] = m]
    /\ UNCHANGED <<main, stat, made, hdl, retries>>

CallOpen(t)      == Call(t, "o_main", NoMinute)
CallInsert(t, m) == Call(t, "o_main", m)
CallBegin(t)     == Call(t, "b_main", NoMinute)
CallEnd(t)       == Call(t, "e_main", NoMinute)
CallStatus(t)    == Call(t, "s_hour", NoMinute)
CallClose(t)     == Call(t, "c_main", NoMinute)

\* The mutex of the connection to eagleowl.db, held through the trigger, and
\* that of the connection to eagleowl_stat.db, held while a statement waits
\* to give its SHARED lock back.
MainMutexFree(p) ==
    /\ p \notin main.shared
    /\ ~\E t \in Threads : ProcOf[t] = p /\ at[t] \in Trigger
StatMutexFree(p) == p \notin stat.shared

-------------------------------------------------------------------------------
(* db_open.  From db_insert_hist it continues with the insert, whatever it *)
(* returns.                                                                *)

Opened(t) == Goto(t, IF arg[t] = NoMinute THEN "ret" ELSE "check")

OpenCheckMain(t) ==
    /\ at[t] = "o_main"
    /\ Goto(t, IF hdl[ProcOf[t]].main = "null" THEN "o_open" ELSE "o_stat")
    /\ UNCHANGED <<main, stat, made, hdl, retries>>

\* The file is opened as it is, or created.
OpenMain(t) ==
    /\ at[t] = "o_open"
    /\ hdl' = [hdl EXCEPT ![ProcOf[t]].main = "open", ![ProcOf[t]].fn = FALSE]
    /\ made' = made \cup {"db"}
    /\ Goto(t, IF "db" \in made THEN "o_fn" ELSE MainTables[1])
    /\ UNCHANGED <<main, stat, retries>>

\* A statement that creates object o of file f, on a connection that is open
\* or not, ends in one of these ways: done; refused at once (misused pointer,
\* o exists, another connection commits or prevents the commit); or refused
\* by RESERVED after having held SHARED.
CreateOutcome(f, o, p, open) ==
    IF ~open \/ o \in made \/ ~Readable(f, p) THEN "refused"
    ELSE IF ~Writable(f, p) THEN "reserved"
    ELSE IF StatementEnds(Written(f, p, Seen(f, p)), p) THEN "done"
    ELSE "refused"

AfterCreate(f, p, outcome) ==
    CASE outcome = "done"     -> AfterStatement(Written(f, p, Seen(f, p)), p)
      [] outcome = "reserved" -> Sharing(f, p)
      [] outcome = "refused"  -> f

\* Mutant of NextTable: the last table of a file is forgotten.
NextTableShort(creation, o, last) ==
    LET i == CHOOSE i \in DOMAIN creation : creation[i] = o
    IN  IF i + 1 >= Len(creation) THEN last ELSE creation[i + 1]

\* The step after the creation of table o.
NextTable(creation, o, last) ==
    LET i == CHOOSE i \in DOMAIN creation : creation[i] = o
    IN  IF i = Len(creation) THEN last ELSE creation[i + 1]

\* CREATE TABLE of create_main_db: a refused one ends db_open.
CreateMainTable(t) ==
    LET p == ProcOf[t]
        o == at[t]
        outcome == CreateOutcome(main, o, p, hdl[p].main = "open")
    IN  /\ o \in Tables(MainTables)
        /\ MainMutexFree(p)
        /\ main' = AfterCreate(main, p, outcome)
        /\ made' = IF outcome = "done" THEN made \cup {o} ELSE made
        /\ CASE outcome = "done"     -> Goto(t, NextTable(MainTables, o, "o_fn"))
             [] outcome = "reserved" -> Goto(t, "refused_create")
             [] outcome = "refused"  -> Opened(t)
        /\ UNCHANGED <<stat, hdl, retries>>

\* CREATE TRIGGER IF NOT EXISTS when it exists only reads the schema.
TriggerExists(t) ==
    /\ "trigger" \in made
    /\ IF Readable(main, ProcOf[t])
       THEN main' = Sharing(main, ProcOf[t]) /\ Goto(t, "o_trigger")
       ELSE main' = main /\ Opened(t)
    /\ UNCHANGED made

\* Otherwise it writes, and needs the table energy_history.
TriggerMade(t) ==
    LET p == ProcOf[t]
        outcome == CreateOutcome(main, "trigger", p, "t_history" \in made)
    IN  /\ "trigger" \notin made
        /\ main' = AfterCreate(main, p, outcome)
        /\ made' = IF outcome = "done" THEN made \cup {"trigger"} ELSE made
        /\ CASE outcome = "done"     -> Goto(t, "o_stat")
             [] outcome = "reserved" -> Goto(t, "refused_create")
             [] outcome = "refused"  -> Opened(t)

\* sqlite3_create_function, then CREATE TRIGGER; a refused one ends db_open.
OpenRegister(t) ==
    LET p == ProcOf[t] IN
    /\ at[t] = "o_fn"
    /\ MainMutexFree(p)
    /\ hdl' = [hdl EXCEPT ![p].fn = (hdl[p].main = "open")]
    /\ IF hdl[p].main = "open"
       THEN TriggerExists(t) \/ TriggerMade(t)
       ELSE Opened(t) /\ UNCHANGED <<main, made>>
    /\ UNCHANGED <<stat, retries>>

\* Mutant of OpenTrigger: the statement is never finalized.
OpenTriggerHolding(t) ==
    /\ at[t] = "o_trigger"
    /\ Goto(t, "o_stat")
    /\ UNCHANGED <<main, stat, made, hdl, retries>>

\* The CREATE TRIGGER statement ends.
OpenTrigger(t) ==
    /\ at[t] = "o_trigger"
    /\ main' = Unsharing(main, ProcOf[t])
    /\ Goto(t, "o_stat")
    /\ UNCHANGED <<stat, made, hdl, retries>>

OpenCheckStat(t) ==
    /\ at[t] = "o_stat"
    /\ IF hdl[ProcOf[t]].stat = "null" THEN Goto(t, "o_sopen") ELSE Opened(t)
    /\ UNCHANGED <<main, stat, made, hdl, retries>>

\* Mutant of OpenStat: the statistics file is created again.
OpenStatCreating(t) ==
    /\ at[t] = "o_sopen"
    /\ hdl' = [hdl EXCEPT ![ProcOf[t]].stat = "open"]
    /\ stat' = NewFile(EmptyStat)
    /\ made' = (made \ Tables(StatCreation)) \cup {"stat_db"}
    /\ Goto(t, StatCreation[1])
    /\ UNCHANGED <<main, retries>>

\* The file is opened as it is, or created.
OpenStat(t) ==
    /\ at[t] = "o_sopen"
    /\ hdl' = [hdl EXCEPT ![ProcOf[t]].stat = "open"]
    /\ made' = made \cup {"stat_db"}
    /\ IF "stat_db" \in made THEN Opened(t) ELSE Goto(t, StatCreation[1])
    /\ UNCHANGED <<main, stat, retries>>

\* CREATE TABLE of create_stat_db: a refused one ends db_open.
CreateStatTable(t) ==
    LET p == ProcOf[t]
        o == at[t]
        outcome == CreateOutcome(stat, o, p, hdl[p].stat = "open")
    IN  /\ o \in Tables(StatCreation)
        /\ StatMutexFree(p)
        /\ stat' = AfterCreate(stat, p, outcome)
        /\ made' = IF outcome = "done" THEN made \cup {o} ELSE made
        /\ CASE outcome = "reserved" -> Goto(t, "refused_screate")
             [] outcome = "done"     -> Goto(t, NextTable(StatCreation, o, "o_done"))
             [] outcome = "refused"  -> Opened(t)
        /\ UNCHANGED <<main, hdl, retries>>

\* db_open returns; a refused CREATE has given SHARED back.
OpenDone(t) ==
    LET p == ProcOf[t] IN
    /\ at[t] \in {"refused_create", "refused_screate", "o_done"}
    /\ main' = IF at[t] = "refused_create" THEN Unsharing(main, p) ELSE main
    /\ stat' = IF at[t] = "refused_screate" THEN Unsharing(stat, p) ELSE stat
    /\ Opened(t)
    /\ UNCHANGED <<made, hdl, retries>>

Open(t) ==
    \/ OpenCheckMain(t) \/ OpenMain(t) \/ CreateMainTable(t) \/ OpenRegister(t)
    \/ OpenTrigger(t) \/ OpenCheckStat(t) \/ OpenStat(t) \/ CreateStatTable(t)
    \/ OpenDone(t)

-------------------------------------------------------------------------------
(* Statements on eagleowl_stat.db.                                         *)

\* A write statement on table o that leaves content c: it succeeds; or it
\* fails at once (misused pointer, no such table, another connection commits,
\* a reader prevents the commit); or another connection holds RESERVED and it
\* fails after having held SHARED.
StatExec(t, o, c, onSuccess, onFailure, onReserved) ==
    LET p == ProcOf[t]
        w == Written(stat, p, c)
        open == hdl[p].stat = "open" /\ o \in made
        reserved == open /\ Readable(stat, p) /\ ~Writable(stat, p)
        succeeds == open /\ Writable(stat, p) /\ StatementEnds(w, p)
    IN  /\ StatMutexFree(p)
        /\ stat' = IF succeeds THEN AfterStatement(w, p)
                   ELSE IF reserved THEN Sharing(stat, p) ELSE stat
        /\ Goto(t, IF succeeds THEN onSuccess
                   ELSE IF reserved THEN onReserved ELSE onFailure)
        /\ UNCHANGED <<main, made, hdl, retries>>

\* The failed statement gives SHARED back.
RefusedStat(t) ==
    /\ at[t] \in {"refused_stat", "refused_status"}
    /\ stat' = Unsharing(stat, ProcOf[t])
    /\ Goto(t, IF at[t] = "refused_stat" THEN "commit" ELSE "ret")
    /\ UNCHANGED <<main, made, hdl, retries>>

\* Mutant of CountStat: a refused statement does not end update_stat_db.
CountStatGoingOn(t) ==
    LET l == at[t]
        s == Seen(stat, ProcOf[t])
        c == [s EXCEPT !.count = CountedIn(s.count, l, arg[t])]
        next == IF l = "year" THEN "commit" ELSE NextLevel(l)
    IN  /\ l \in Levels
        /\ StatExec(t, TableOf[l], c, next, next, "refused_stat")

\* Mutant of CountStat: the replaced row starts again with status 0.
CountStatUnmarking(t) ==
    LET l == at[t]
        s == Seen(stat, ProcOf[t])
        c == [count |-> CountedIn(s.count, l, arg[t]),
              complete |-> s.complete \ {Cell(l, arg[t])}]
    IN  /\ l \in Levels
        /\ StatExec(t, TableOf[l], c, IF l = "year" THEN "commit" ELSE NextLevel(l),
                    "commit", "refused_stat")

\* update_stat_db, called by the trigger: its four statements, abandoned at
\* the first failure.
CountStat(t) ==
    LET l == at[t]
        s == Seen(stat, ProcOf[t])
        c == [s EXCEPT !.count = CountedIn(s.count, l, arg[t])]
    IN  /\ l \in Levels
        /\ StatExec(t, TableOf[l], c, IF l = "year" THEN "commit" ELSE NextLevel(l),
                    "commit", "refused_stat")

\* db_update_status: its two statements, abandoned at the first failure; one
\* that matches no row is a write statement too.
MarkStat(t) ==
    LET l == IF at[t] = "s_hour" THEN "hour" ELSE "day"
        s == Seen(stat, ProcOf[t])
        c == [s EXCEPT !.complete = MarkedIn(s.count, @, l)]
    IN  /\ at[t] \in {"s_hour", "s_day"}
        /\ StatExec(t, TableOf[l], c, IF l = "hour" THEN "s_day" ELSE "ret",
                    "ret", "refused_status")

-------------------------------------------------------------------------------
(* db_insert_hist.                                                         *)

InsertCheck(t) ==
    /\ at[t] = "check"
    /\ LET h == hdl[ProcOf[t]] IN
       Goto(t, IF "null" \in {h.main, h.stat} THEN "ret" ELSE "exec")
    /\ UNCHANGED <<main, stat, made, hdl, retries>>

\* The INSERT cannot be prepared without its table, nor with a trigger whose
\* function is not registered with the connection.
InsertPrepares(p) == "t_history" \in made /\ ("trigger" \in made => hdl[p].fn)

\* The error path of db_insert_hist gives the record up.
InsertFails(t) ==
    LET p == ProcOf[t] IN
    /\ at[t] = "exec"
    /\ \/ hdl[p].main # "open"
       \/ MainMutexFree(p) /\ Readable(main, p) /\ ~InsertPrepares(p)
    /\ Goto(t, "ret")
    /\ UNCHANGED <<main, stat, made, hdl, retries>>

\* Mutant of InsertExec: INSERT OR REPLACE, which fires the trigger again for
\* a known minute.
InsertExecReplacing(t) ==
    LET p == ProcOf[t] IN
    /\ at[t] = "exec"
    /\ hdl[p].main = "open" /\ InsertPrepares(p)
    /\ MainMutexFree(p) /\ Writable(main, p)
    /\ main' = Written(main, p, Seen(main, p) \cup {arg[t]})
    /\ Goto(t, "hour")
    /\ UNCHANGED <<stat, made, hdl, retries>>

\* The statement starts.  INSERT OR IGNORE of a known minute changes nothing
\* but reserves the file until its commit; refused, that commit leaves nothing
\* behind and the loop runs the statement again, so it is a step only once it
\* succeeds.  A new minute fires the trigger.  SQLITE_BUSY is retried without
\* end.
InsertExec(t) ==
    LET p == ProcOf[t]
        rows == Seen(main, p)
        known == Written(main, p, rows)
    IN  /\ at[t] = "exec"
        /\ hdl[p].main = "open" /\ InsertPrepares(p)
        /\ MainMutexFree(p)
        /\ Readable(main, p)
        /\ CASE ~Writable(main, p) ->
                  main' = Sharing(main, p) /\ Goto(t, "refused_main")
             [] Writable(main, p) /\ arg[t] \in rows ->
                  /\ StatementEnds(known, p)
                  /\ main' = AfterStatement(known, p)
                  /\ Goto(t, "ret")
             [] OTHER ->
                  /\ main' = Written(main, p, rows \cup {arg[t]})
                  /\ Goto(t, IF "trigger" \in made THEN "hour" ELSE "commit")
        /\ UNCHANGED <<stat, made, hdl, retries>>

\* Mutant of InsertRetry: the refused statement keeps its SHARED lock.
InsertRetryHolding(t) ==
    /\ at[t] = "refused_main"
    /\ Goto(t, "exec")
    /\ UNCHANGED <<main, stat, made, hdl, retries>>

\* The refused statement gives SHARED back and the loop starts again.
InsertRetry(t) ==
    /\ at[t] = "refused_main"
    /\ main' = Unsharing(main, ProcOf[t])
    /\ Goto(t, "exec")
    /\ UNCHANGED <<stat, made, hdl, retries>>

\* The statement ends; an autocommit that another connection prevents rolls
\* the row back and the loop inserts it again.
InsertEnds(t) ==
    LET p == ProcOf[t]
        ends == StatementEnds(main, p)
    IN  /\ at[t] = "commit"
        /\ ends \/ retries < MaxRetries
        /\ main' = IF ends THEN AfterStatement(main, p) ELSE RolledBack(main, p)
        /\ retries' = IF ends THEN retries ELSE retries + 1
        /\ Goto(t, IF ends THEN "ret" ELSE "exec")
        /\ UNCHANGED <<stat, made, hdl>>

Insert(t) ==
    \/ InsertCheck(t) \/ InsertFails(t) \/ InsertExec(t) \/ InsertRetry(t)
    \/ CountStat(t) \/ RefusedStat(t) \/ InsertEnds(t)

-------------------------------------------------------------------------------
(* db_begin_transaction, db_end_transaction: main first, stat only when    *)
(* main succeeded.                                                         *)

BeginMain(t) ==
    LET p == ProcOf[t]
        ok == hdl[p].main = "open" /\ p \notin main.intx
    IN  /\ at[t] = "b_main"
        /\ MainMutexFree(p)
        /\ main' = IF ok THEN Begun(main, p) ELSE main
        /\ Goto(t, IF ok THEN "b_stat" ELSE "ret")
        /\ UNCHANGED <<stat, made, hdl, retries>>

BeginStat(t) ==
    LET p == ProcOf[t]
        ok == hdl[p].stat = "open" /\ p \notin stat.intx
    IN  /\ at[t] = "b_stat"
        /\ StatMutexFree(p)
        /\ stat' = IF ok THEN Begun(stat, p) ELSE stat
        /\ Goto(t, "ret")
        /\ UNCHANGED <<main, made, hdl, retries>>

\* Mutant of EndMain: the transaction on eagleowl_stat.db is forgotten.
EndMainOnly(t) ==
    LET p == ProcOf[t]
        ok == hdl[p].main = "open" /\ p \in main.intx /\ Committable(main, p)
    IN  /\ at[t] = "e_main"
        /\ MainMutexFree(p)
        /\ main' = IF ok THEN Ended(main, p) ELSE main
        /\ Goto(t, "ret")
        /\ UNCHANGED <<stat, made, hdl, retries>>

\* END TRANSACTION on db; SQL_EXEC returns when it is refused.
EndMain(t) ==
    LET p == ProcOf[t]
        active == hdl[p].main = "open" /\ p \in main.intx
        ok == active /\ Committable(main, p)
    IN  /\ at[t] = "e_main"
        /\ MainMutexFree(p)
        /\ main' = IF ok THEN Ended(main, p)
                   ELSE IF active THEN EndRefused(main, p) ELSE main
        /\ Goto(t, IF ok THEN "e_stat" ELSE "ret")
        /\ UNCHANGED <<stat, made, hdl, retries>>

EndStat(t) ==
    LET p == ProcOf[t]
        active == hdl[p].stat = "open" /\ p \in stat.intx
        ok == active /\ Committable(stat, p)
    IN  /\ at[t] = "e_stat"
        /\ StatMutexFree(p)
        /\ stat' = IF ok THEN Ended(stat, p)
                   ELSE IF active THEN EndRefused(stat, p) ELSE stat
        /\ Goto(t, "ret")
        /\ UNCHANGED <<main, made, hdl, retries>>

Transaction(t) == BeginMain(t) \/ BeginStat(t) \/ EndMain(t) \/ EndStat(t)

-------------------------------------------------------------------------------
(* db_close: sqlite3_close waits for the statement in progress and rolls   *)
(* an open transaction back; the pointer dangles until it is reset.        *)

CloseMain(t) ==
    LET p == ProcOf[t] IN
    /\ at[t] = "c_main"
    /\ IF hdl[p].main = "null"
       THEN Goto(t, "c_stat") /\ UNCHANGED <<main, hdl>>
       ELSE /\ MainMutexFree(p)
            /\ main' = Closed(main, p)
            /\ hdl' = [hdl EXCEPT ![p].main = "freed", ![p].fn = FALSE]
            /\ Goto(t, "c_null")
    /\ UNCHANGED <<stat, made, retries>>

CloseStat(t) ==
    LET p == ProcOf[t] IN
    /\ at[t] = "c_stat"
    /\ IF hdl[p].stat = "null"
       THEN Goto(t, "ret") /\ UNCHANGED <<stat, hdl>>
       ELSE /\ StatMutexFree(p)
            /\ stat' = Closed(stat, p)
            /\ hdl' = [hdl EXCEPT ![p].stat = "freed"]
            /\ Goto(t, "c_snull")
    /\ UNCHANGED <<main, made, retries>>

\* Mutant of CloseReset: the pointers are not reset to NULL.
CloseDangling(t) ==
    /\ at[t] \in {"c_null", "c_snull"}
    /\ Goto(t, IF at[t] = "c_null" THEN "c_stat" ELSE "ret")
    /\ UNCHANGED <<main, stat, made, hdl, retries>>

\* db = NULL, stat_db = NULL.
CloseReset(t) ==
    LET p == ProcOf[t] IN
    /\ at[t] \in {"c_null", "c_snull"}
    /\ IF at[t] = "c_null"
       THEN hdl' = [hdl EXCEPT ![p].main = "null"] /\ Goto(t, "c_stat")
       ELSE hdl' = [hdl EXCEPT ![p].stat = "null"] /\ Goto(t, "ret")
    /\ UNCHANGED <<main, stat, made, retries>>

Close(t) == CloseMain(t) \/ CloseStat(t) \/ CloseReset(t)

-------------------------------------------------------------------------------

DbStep(t) == Open(t) \/ Insert(t) \/ MarkStat(t) \/ Transaction(t) \/ Close(t)

\* A thread is about to pass a closed or null pointer to SQLite; the error
\* path then reads an uninitialised message, which may end its process.
Misuses(t) ==
    LET h == hdl[ProcOf[t]] IN
    \/ at[t] \in {"o_fn", "exec", "b_main", "e_main"} \cup Tables(MainTables)
       /\ h.main # "open"
    \/ at[t] \in {"day", "month", "year", "b_stat", "e_stat", "s_day"}
              \cup Tables(StatCreation)
       /\ h.stat # "open"
    \/ at[t] \in {"hour", "s_hour"} /\ h.stat = "freed"

\* The process ends: its connections are rolled back.
DbDies(p) ==
    /\ main' = Closed(main, p)
    /\ stat' = Closed(stat, p)
    /\ hdl' = [hdl EXCEPT ![p] = [main |-> "null", stat |-> "null", fn |-> FALSE]]
    /\ at' = [t \in Threads |-> IF ProcOf[t] = p THEN "ret" ELSE at[t]]
    /\ arg' = [t \in Threads |-> IF ProcOf[t] = p THEN NoMinute ELSE arg[t]]
    /\ UNCHANGED <<made, retries>>

-------------------------------------------------------------------------------

Content == [count : [Cells -> Nat], complete : SUBSET Cells]

\* Only the owner has written, and only a writer can be pending.
FileOK(f) ==
    /\ f.owner \in Procs \cup {NoOwner}
    /\ f.intx \subseteq Procs
    /\ f.pending \in BOOLEAN
    /\ f.pending => f.owner # NoOwner
    /\ f.owner = NoOwner => f.work = f.disk

DbTypeOK ==
    /\ FileOK(main) /\ FileOK(stat)
    /\ main.disk \subseteq Minutes /\ main.work \subseteq Minutes
    /\ stat.disk \in Content /\ stat.work \in Content
    /\ made \subseteq Schema
    /\ hdl \in [Procs -> [main : {"null", "open", "freed"},
                          stat : {"null", "open", "freed"}, fn : BOOLEAN]]
    /\ at \in [Threads -> Steps]
    /\ arg \in [Threads -> Minutes \cup {NoMinute}]
    /\ retries \in 0..MaxRetries
===============================================================================
