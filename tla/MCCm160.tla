-------------------------------- MODULE MCCm160 -------------------------------
(***************************************************************************)
(* Cm160 on small instances: hours of two minutes, days of two hours.      *)
(***************************************************************************)
EXTENDS Cm160

CONSTANTS Size      \* how many minutes the device stores at most

MCMinutes == 1..Size
MCPeriod == [l \in Levels |-> [m \in MCMinutes |->
    CASE l = "hour" -> (m + 1) \div 2
      [] l = "day"  -> (m + 3) \div 4
      [] OTHER      -> 1]]
MCThreads == {Main} \cup Workers
MCProcs == {Daemon}
MCProcOf == [t \in MCThreads |-> Daemon]
MCMixed == [m \in MCMinutes |-> [n \in MCMinutes |->
    {x \in MCMinutes : /\ MCPeriod["hour"][x] \in {MCPeriod["hour"][m], MCPeriod["hour"][n]}
                       /\ x % 2 \in {m % 2, n % 2}}]]
===============================================================================
