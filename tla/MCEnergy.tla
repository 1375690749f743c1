------------------------------- MODULE MCEnergy -------------------------------
(***************************************************************************)
(* Energy, and with it Ledger, over hours of two minutes and days of       *)
(* three: minutes 1 to 3 fill a friday whose second hour is on the night   *)
(* tariff, minute 4 is on the saturday, minute 5 is recorded with month 0. *)
(* Reading 600 is 161 whole watt-hours.                                    *)
(***************************************************************************)
EXTENDS Energy

MCMinutes == 1..5
MCPeriod == [hour  |-> <<1, 1, 2, 3, 4>>,
             day   |-> <<1, 1, 1, 2, 3>>,
             month |-> <<1, 1, 1, 1, 2>>,
             year  |-> <<1, 1, 1, 1, 1>>]
MCDate == <<[year |-> 2008, month |-> 2, day |-> 1, hour |-> 22],
            [year |-> 2008, month |-> 2, day |-> 1, hour |-> 22],
            [year |-> 2008, month |-> 2, day |-> 1, hour |-> 23],
            [year |-> 2008, month |-> 2, day |-> 2, hour |-> 22],
            [year |-> 2008, month |-> 0, day |-> 2, hour |-> 22]>>
MCReading == <<7, 600, 23, 601, 1200>>

\* The formula of db.c against the calendar, for every date of a frame.
ASSUME CalendarCorrect
===============================================================================
