------------------------------- MODULE MCEagleOwl -----------------------------
(***************************************************************************)
(* EagleOwl on small instances: hours of two minutes, days of two hours.   *)
(***************************************************************************)
EXTENDS EagleOwl

CONSTANTS Size      \* how many minutes the device stores at most

MCMinutes == 1..Size
MCPeriod == [l \in Levels |-> [m \in MCMinutes |->
    CASE l = "hour" -> (m + 1) \div 2
      [] l = "day"  -> (m + 3) \div 4
      [] OTHER      -> 1]]
MCThreads == {Main, Importer} \cup Workers
MCProcs == {Daemon, "import"}
MCProcOf == [t \in MCThreads |-> IF t = Importer THEN "import" ELSE Daemon]
MCMixed == [m \in MCMinutes |-> [n \in MCMinutes |->
    {x \in MCMinutes : /\ MCPeriod["hour"][x] \in {MCPeriod["hour"][m], MCPeriod["hour"][n]}
                       /\ x % 2 \in {m % 2, n % 2}}]]
\* The tables of OWL, one table that sorts before them and one after.
MCOwlTables == {"energy_history", "energy_param", "energy_sensor", "energy_tariffv2"}
MCTableNames == <<"android_metadata", "energy_history", "energy_param",
                  "energy_sensor", "energy_tariffv2", "sqlite_sequence">>
MCImportFiles == {
    MCOwlTables,
    MCOwlTables \cup {"android_metadata"},
    (MCOwlTables \ {"energy_history"}) \cup {"sqlite_sequence"}}
===============================================================================
