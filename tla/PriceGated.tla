----------------------------- MODULE PriceGated -----------------------------
(***************************************************************************)
(* The reference consumer, beside the covenants it reads: a coin that its  *)
(* recipient may spend once, with a Ticker that shows enough.              *)
(*                                                                         *)
(* The gate must be input 0, and so must a head: no transaction releases   *)
(* and posts, rotates or recycles at once.                                 *)
(***************************************************************************)
EXTENDS Oracle

CONSTANTS
    Strike,    \* least price
    MinShown,  \* minTime, maxTime: the minutes a Ticker may show
    MaxShown,
    MinK       \* rows that must have signed

ASSUME GateAssumption ==
    Strike \in Int /\ MinShown \in Int /\ MaxShown \in Int /\ MinK \in Int

VARIABLE released  \* what the gate was shown, and under which lock the head was; {} before

gateVars == <<mtp, head, tickers, approvals, log, moves, books, released>>

(* Mutation: the number of rows is not checked. *)
ShowsAnyRows(s) == s.ts \in MinShown..MaxShown /\ s.price >= Strike
Shows(s) == s.ts \in MinShown..MaxShown /\ s.price >= Strike /\ s.k >= MinK

(* Only the category of the Ticker is looked at: whoever minted it. *)
Release(t, value) ==
    /\ released = {}
    /\ Shows(t.snap)
    /\ Consume(t, value)
    /\ released' = {[snap |-> t.snap, lock |-> head.lock]}

GateInit == Init /\ released = {}

GateNext ==
    \/ Next /\ UNCHANGED released
    \/ \E t \in tickers, value \in Values : Release(t, value)

GateSpec == GateInit /\ [][GateNext]_gateVars

-----------------------------------------------------------------------------
(* A posted message in the window; and if fewer than keys_to_forge(minK) keys behind it lied, some *)
(* exchange showed the strike in its minute.                                                      *)
Earned(s) ==
    \E i \in 1..Len(log) :
        /\ log[i].snap = s
        /\ s.ts \in MinShown..MaxShown
        /\ Cardinality(LiarsIn(log[i])) < KeysToForge(MinK) => FairHigh[s.ts] >= Strike

(* A release under the Oracle lock was earned ("7 is the oracle's floor (4 keys to forge), 11 is  *)
(* six keys, 13 is seven", PriceGated.cash), although the gate sees only a category and 17 bytes. *)
GateFair == \A r \in released : r.lock = "oracle" => Earned(r.snap)
=============================================================================
