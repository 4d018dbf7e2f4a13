--------------------------- MODULE MCLoraRouting ---------------------------
(***************************************************************************)
(* LoraRouting on three devices.                                           *)
(***************************************************************************)
EXTENDS LoraRouting

Table(rows) == [n \in Node |-> [d \in Node |-> rows[n + 1][d + 1]]]

\* The tables of user_params.h, where 0 and 2 reach each other through 1.
UserTables == Table(<<<<0, 1, 1>>, <<0, 1, 2>>, <<1, 1, 2>>>>)

\* Devices 0 and 1 each take the other for the way to 2.
LoopTables == Table(<<<<0, 1, 1>>, <<0, 1, 0>>, <<1, 1, 2>>>>)

RowAndLoop == {UserTables, LoopTables}

ThereAndBack == {<<0, 2>>, <<2, 0>>}
=============================================================================
