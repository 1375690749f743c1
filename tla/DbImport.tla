-------------------------------- MODULE DbImport ------------------------------
(***************************************************************************)
(* db_import.c: the command that copies the history of an OWL database     *)
(* into eagleowl.db, through db.c, while the daemon may be recording.      *)
(***************************************************************************)
EXTENDS Db

CONSTANTS
    Importer,        \* the only thread of the command
    ImportRows,      \* the minutes of the imported database
    OwlTables,       \* owl_db_tables: the tables a valid database has
    TableNames,      \* the names a table can have, in alphabetical order
    ImportFiles      \* the files given to the command, as their sets of tables

ASSUME ImportAssumption ==
    /\ Importer \in Threads
    /\ \A t \in Threads : ProcOf[t] = ProcOf[Importer] => t = Importer
    /\ ImportRows \subseteq Minutes

VARIABLES
    ipc,             \* where the command is
    left,            \* the rows its SELECT has still to return
    file             \* the tables of the file given to the command

importVars == <<ipc, left, file>>

ImportInit ==
    /\ ipc = "none"
    /\ left = ImportRows
    /\ file \in ImportFiles

OWL_DB_TABLES_CNT == Cardinality(OwlTables)

\* LIST_TABLES returns the names in order; only the first ones are read.
ReadTables(tables) ==
    LET listed == {i \in DOMAIN TableNames : TableNames[i] \in tables}
        read   == {i \in listed : Cardinality({j \in listed : j <= i}) <= OWL_DB_TABLES_CNT}
    IN  {TableNames[i] : i \in read}

\* validate_imported_db.
ValidImport(tables) ==
    /\ Cardinality(ReadTables(tables)) = OWL_DB_TABLES_CNT
    /\ OwlTables \subseteq ReadTables(tables)

\* The file is not a valid OWL database: main goes to its end.
RefuseImport ==
    /\ ipc = "none" /\ ~ValidImport(file)
    /\ ipc' = "close"
    /\ UNCHANGED <<dbVars, left, file>>

\* The database was found valid.
StartImport ==
    /\ ipc = "none" /\ ValidImport(file)
    /\ CallOpen(Importer)
    /\ ipc' = "open"
    /\ UNCHANGED <<left, file>>

ImportBegin ==
    /\ ipc = "open"
    /\ CallBegin(Importer)
    /\ ipc' = "rows"
    /\ UNCHANGED <<left, file>>

\* import_db_cb, once per row.
ImportRow ==
    /\ ipc = "rows"
    /\ \E m \in left :
          /\ CallInsert(Importer, m)
          /\ left' = left \ {m}
    /\ UNCHANGED <<ipc, file>>

\* Mutant of ImportFails: the error path ends the transaction.
ImportFailsEnding ==
    /\ ipc = "rows" /\ at[Importer] = "ret"
    /\ ipc' = "end"
    /\ UNCHANGED <<dbVars, left, file>>

\* The SELECT on the imported database fails: import_db returns with both
\* transactions open.
ImportFails ==
    /\ ipc = "rows" /\ at[Importer] = "ret"
    /\ ipc' = "close"
    /\ UNCHANGED <<dbVars, left, file>>

ImportStatus ==
    /\ ipc = "rows" /\ left = {}
    /\ CallStatus(Importer)
    /\ ipc' = "end"
    /\ UNCHANGED <<left, file>>

ImportEnd ==
    /\ ipc = "end"
    /\ CallEnd(Importer)
    /\ ipc' = "close"
    /\ UNCHANGED <<left, file>>

ImportClose ==
    /\ ipc = "close"
    /\ CallClose(Importer)
    /\ ipc' = "exit"
    /\ UNCHANGED <<left, file>>

\* The command ends on a misused pointer.
ImportMisuseCrash ==
    /\ Misuses(Importer)
    /\ DbDies(ProcOf[Importer])
    /\ ipc' = "exit"
    /\ UNCHANGED <<left, file>>

ImportStep ==
    \/ RefuseImport \/ StartImport \/ ImportBegin \/ ImportRow
    \/ ImportFails \/ ImportStatus \/ ImportEnd \/ ImportClose
    \/ ImportMisuseCrash
    \/ DbStep(Importer) /\ UNCHANGED importVars

ImportDone == ipc = "exit" /\ at[Importer] = "ret"
===============================================================================
