---------------------------- MODULE MCGovernance ----------------------------
(* Two homes: each can pay for a genesis, one has the manifest of a v26 deployment.  Three tables *)
(* of the same two rows' keys in different order or with another key; a loyal key in each        *)
(* majority.                                                                                      *)
EXTENDS Governance

const_Table == {<<1, 2>>, <<2, 1>>, <<1, 3>>}
const_Genesis == [h \in Home |-> <<1, 2>>]
const_OldTable == <<1, 2>>
const_Coins == [h \in Home |-> IF h = "h1" THEN {[id |-> 1, first |-> TRUE, sats |-> 1],
                                                 [id |-> 2, first |-> FALSE, sats |-> 3]}
                                           ELSE {[id |-> 3, first |-> TRUE, sats |-> 2]}]
=============================================================================
