------------------------------ MODULE MCOracle ------------------------------
(***************************************************************************)
(* Governance and value, for TLC: tables of two rows; d colludes.          *)
(***************************************************************************)
EXTENDS Oracle

CONSTANTS a, b, d   \* keys

MixedPair == <<a, d>>
HonestPair == <<a, b>>
PairTables == {MixedPair, HonestPair}
Fair2 == [m \in Minute |-> 2]

Retire == [lock |-> "p2pkh", table |-> <<>>]
To(t) == [lock |-> "oracle", table |-> t]
Approves(n, old, next) == [by |-> n, old |-> old, next |-> next]
PairApprovals ==
    {Approves(a, MixedPair, To(HonestPair)), Approves(d, MixedPair, To(HonestPair)),
     Approves(d, MixedPair, Retire),         Approves(a, HonestPair, Retire),
     Approves(b, HonestPair, Retire)}

ForgedOne == {[ts |-> 1, seq |-> 1, price |-> 9, k |-> 2]}
None == {}
=============================================================================
