-------------------------------- MODULE EagleOwl ------------------------------
(***************************************************************************)
(* The whole installation: the daemon with its device and its web pages,   *)
(* and one run of db_import, on the same two database files.               *)
(***************************************************************************)
EXTENDS Cm160, DbImport

ASSUME SystemAssumption == Importer \notin DaemonThreads

allVars == <<vars, importVars>>

SystemInit == Init /\ ImportInit

DaemonNext == Next /\ UNCHANGED importVars

ImportNext == ImportStep /\ UNCHANGED <<daemonVars, deviceVars>>

SystemNext == DaemonNext \/ ImportNext

\* Two processes that retry against each other do not stay in step for ever:
\* a statement that can run again and again ends up running.
Contention ==
    /\ \A t \in DaemonThreads : SF_allVars(Thread(t) /\ UNCHANGED importVars)
    /\ SF_allVars(ImportNext)

SystemSpec ==
    /\ SystemInit
    /\ [][SystemNext]_allVars
    /\ Fairness
    /\ Contention

-------------------------------------------------------------------------------

\* An import that has begun both its transactions takes effect at once or not
\* at all: the step of the command that changes the committed history leaves
\* every imported row in it, and a refused END, a failed SELECT or the end of
\* the process leaves none behind (db_import.c:157-178).
ImportAtomic ==
    [][/\ at'[Importer] # at[Importer] /\ main'.disk # main.disk
       /\ ProcOf[Importer] \in stat.intx
       => ImportRows \subseteq main'.disk]_allVars

\* README: db_import merges the imported database with eagleowl.db; here it
\* at least ends.
ImportCompletes == <>ImportDone
===============================================================================
