------------------------------ MODULE MCGated -------------------------------
(***************************************************************************)
(* Prices, for TLC: one table of five rows, two of them lying, and a gate. *)
(***************************************************************************)
EXTENDS PriceGated

CONSTANTS a, b, c, d, e   \* keys

FiveRows == <<a, b, c, d, e>>
FiveRowTables == {FiveRows}

(* In the first minute every exchange shows 2, later they show 2 or 3. *)
FairFrom == [m \in Minute |-> 2]
FairTo == [m \in Minute |-> IF m = 1 THEN 2 ELSE 3]

None == {}
=============================================================================
