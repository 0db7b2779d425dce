----------------------------- MODULE MCBuilder -----------------------------
(***************************************************************************)
(* Instances of Builder for TLC.                                           *)
(***************************************************************************)
EXTENDS Builder

CONSTANTS a, b,   \* keys
          x, y    \* builders

TwoRows == <<a, b>>
Swapped == <<b, a>>
OneTable == {TwoRows}
RotatedTables == {TwoRows, Swapped}
Fair1 == [m \in Minute |-> 1]

ToSwapped == {[by |-> n, old |-> TwoRows, next |-> [lock |-> "oracle", table |-> Swapped]] : n \in {a, b}}
None == {}
=============================================================================
