--------------------------------- MODULE MCLive -------------------------------
(***************************************************************************)
(* LiveGraph over three minutes of two months: the second minute can come  *)
(* with a strange month, the first minute of each month and the first of a *)
(* session cannot.                                                         *)
(***************************************************************************)
EXTENDS LiveGraph

MCMonthOf == <<1, 1, 2>>
MCMixed == [m \in 0..LastMinute |-> [n \in 0..LastMinute |-> {m, n}]]
===============================================================================
