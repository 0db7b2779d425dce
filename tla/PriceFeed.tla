------------------------------ MODULE PriceFeed ------------------------------
(***************************************************************************)
(* What the oracle promises a reader of the chain, with no covenant in it: *)
(* an append-only sequence of price messages whose minutes increase, each  *)
(* signed by at least Quorum rows, never far ahead of chain time, and each *)
(* one readable on chain until a lifetime after its minute.                *)
(* Oracle implements it (Oracle!RefinesFeed).                              *)
(***************************************************************************)
EXTENDS Integers, Sequences

CONSTANTS
    Quorum,   \* rows behind every message
    Life,     \* how long after its minute a message stays readable
    Ahead     \* how far a message's minute may lead chain time

VARIABLES
    clock,     \* chain time (median-time-past)
    feed,      \* the messages published so far, [ts, seq, price, k]
    readable   \* the positions in feed still held by a Ticker on chain

vars == <<clock, feed, readable>>

Init ==
    /\ clock \in Nat
    /\ feed = <<>>
    /\ readable = {}

(* A message may leave the chain only once its lifetime is over. *)
Lapsed(i) == feed[i].ts + Life < clock

OnlyLapsedLeave ==
    \A i \in readable \ readable' : Lapsed(i)

Publish ==
    /\ Len(feed') = Len(feed) + 1
    /\ \A i \in 1..Len(feed) : feed'[i] = feed[i]
    /\ LET m == feed'[Len(feed) + 1]
       IN  /\ m.k >= Quorum
           /\ m.ts < clock + Ahead
           /\ Len(feed) > 0 => /\ m.ts > feed[Len(feed)].ts
                               /\ m.seq = feed[Len(feed)].seq + 1
    /\ Len(feed) + 1 \in readable'
    /\ readable' \subseteq readable \cup {Len(feed) + 1}
    /\ OnlyLapsedLeave
    /\ UNCHANGED clock

Lapse ==
    /\ readable' \subseteq readable
    /\ OnlyLapsedLeave
    /\ UNCHANGED <<clock, feed>>

Tick ==
    /\ clock' \in Nat
    /\ clock' > clock
    /\ UNCHANGED <<feed, readable>>

Next == Publish \/ Lapse \/ Tick

Spec == Init /\ [][Next]_vars
=============================================================================
