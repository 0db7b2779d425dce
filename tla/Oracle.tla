------------------------------- MODULE Oracle -------------------------------
(***************************************************************************)
(* The v27 covenants on chain: the head NFT under Oracle.cash and the      *)
(* Tickers under Ticker.cash, spent by anyone who can satisfy them.        *)
(*                                                                         *)
(* A transaction is one step.  What a spender supplies (statements, a      *)
(* median, recycled inputs, output values) is a parameter of the action,   *)
(* chosen freely: no builder is trusted.  Signatures are modelled by who   *)
(* may sign what: a notary outside Honest signs anything, one inside it    *)
(* only a price its exchange showed in that minute and only approvals its  *)
(* operator gave.  Times are in minutes of any unit; hashes are injective, *)
(* so a table hash is the table.                                           *)
(***************************************************************************)
EXTENDS Integers, Sequences, FiniteSetsExt

CONSTANTS
    Notary,          \* keys that may stand in a table
    Honest,          \* those that sign what their exchange showed
    Price,           \* prices that appear in statements (script numbers: signed)
    Minute,          \* timestamps that appear in statements
    FairLow,         \* FairLow[m]..FairHigh[m]: what the exchanges showed in minute m
    FairHigh,
    Tables,          \* notary tables, each a sequence of keys, one per row
    FirstTable,      \* the table the head is created with
    FirstTs,         \* the timestamp the head is created with
    FirstSeq,        \* its counter: 0 from genesis, the v26 price's high dword from migration
    Reserve,         \* its value
    ApprovalChoices, \* the approvals that keys ever sign
    Forged,          \* snapshots the holder of a retired head may mint
    Quorum,          \* rows an update needs (7)
    Ahead,           \* how far an update's minute may lead chain time (21600 s)
    Life,            \* how long a Ticker may not be recycled (86400 s)
    TickerSats,      \* value of a fresh Ticker (792)
    Toll,            \* what a consumer adds (1000)
    FeeBase,         \* fee cap: constant part, with the redeem script's share ...
    FeePerRow,       \* ... per included row (69 unlocking bytes) ...
    FeePerApproval,  \* ... per approving row of a rotation (65 unlocking bytes) ...
    FeePerEntry,     \* ... and per table entry (34 unlocking bytes)
    TopUps,          \* values of coins a builder may add (0: none)
    Values,          \* output values that spenders choose from
    MaxRows,         \* largest k that encodes as one positive byte (127)
    MaxCounter,      \* largest four-byte script number (2^31 - 1)
    MaxTime          \* bound on chain time in a finite instance

Row == 1..MaxRows
Snapshot == [ts: Nat, seq: Nat, price: Int, k: Nat]
Quotes == UNION {[rows -> Price] : rows \in SUBSET Row}
Place == [lock: {"oracle"}, table: Tables] \cup {[lock |-> "p2pkh", table |-> <<>>]}
Approval == [by: Notary, old: Tables, next: Place]

(* validate_rows (manifest.rs) refuses a table with a repeated key, and one longer than MAX_ROWS. *)
ValidTable(t) ==
    /\ t \in Seq(Notary)
    /\ Len(t) \in Row
    /\ \A r, s \in 1..Len(t) : t[r] = t[s] => r = s

ASSUME SizeAssumption ==
    /\ Quorum \in Nat \ {0}
    /\ {Ahead, Life, TickerSats, Toll, FeeBase, FeePerRow, FeePerApproval, FeePerEntry,
        Reserve, MaxRows, MaxCounter, FirstTs, FirstSeq} \subseteq Nat
    /\ TopUps \subseteq Nat /\ Values \subseteq Nat
    /\ MaxTime \in Nat

ASSUME FeedAssumption ==
    /\ Honest \subseteq Notary
    /\ Price \subseteq Int
    /\ Minute \subseteq Nat
    /\ FairLow \in [Minute -> Int] /\ FairHigh \in [Minute -> Int]

ASSUME TableAssumption ==
    /\ \A t \in Tables : ValidTable(t)
    /\ FirstTable \in Tables
    /\ ApprovalChoices \subseteq Approval
    /\ Forged \subseteq Snapshot

VARIABLES
    mtp,        \* chain time: median-time-past
    head,       \* the minting NFT: [lock, snap, table, value]
    tickers,    \* unspent Tickers: [snap, out, value]; out tells the two of an update apart
    approvals,  \* rotation approvals signed so far
    log,        \* history: every update posted, [snap, table, quotes]
    moves,      \* history: every rotation posted, [old, next]
    books       \* history, until the head is released: sats that entered, and fees allowed

vars == <<mtp, head, tickers, approvals, log, moves, books>>

-----------------------------------------------------------------------------
(* Oracle.update *)

(* The rank check: k prices q, and m the claimed lower median. *)
Below(q, m) == {r \in DOMAIN q : q[r] < m}
Above(q, m) == {r \in DOMAIN q : q[r] > m}

(* Mutations: the lower bound rounded up; both bounds rounded up. *)
UpperMedianToo(q, m) ==
    LET k == Cardinality(DOMAIN q)
    IN  /\ Cardinality(Below(q, m)) <= k \div 2
        /\ Cardinality(Above(q, m)) <= k \div 2
        /\ Cardinality(Below(q, m)) + Cardinality(Above(q, m)) < k
OffByOneRank(q, m) ==
    LET k == Cardinality(DOMAIN q)
    IN  /\ Cardinality(Below(q, m)) <= (k + 1) \div 2
        /\ Cardinality(Above(q, m)) <= (k + 1) \div 2
        /\ Cardinality(Below(q, m)) + Cardinality(Above(q, m)) < k

IsLowerMedian(q, m) ==
    LET k == Cardinality(DOMAIN q)
    IN  /\ Cardinality(Below(q, m)) <= (k - 1) \div 2
        /\ Cardinality(Above(q, m)) <= k \div 2
        /\ Cardinality(Below(q, m)) + Cardinality(Above(q, m)) < k

(* Who can produce a statement of key n for minute ts at price p. *)
Signs(n, ts, p) ==
    n \in Honest => p \in FairLow[ts]..FairHigh[ts]

(* Consensus and tx.time: some locktime at or past `earliest` is final, i.e. below mtp. *)
Final(earliest) == earliest < mtp

(* Mutation: the lead is not checked. *)
AnyLead(ts) == TRUE
NotFarAhead(ts) == Final(ts - Ahead)

FeeCap(perRow, k, n) == FeeBase + perRow * k + FeePerEntry * n

Sats(S) == MapThenSumSet(LAMBDA t : t.value, S)

(* Mutation: no lifetime. *)
RecyclableNow(t) == TRUE
Recyclable(t) == Final(t.snap.ts + Life)

(* The two Tickers an update creates.  Mutation: they carry the state the head had before it. *)
FreshBefore(snap) == {[snap |-> head.snap, out |-> o, value |-> TickerSats] : o \in 1..2}
Fresh(snap) == {[snap |-> snap, out |-> o, value |-> TickerSats] : o \in 1..2}

(* Mutation: the 16-byte message without its k. *)
MessageOnly(ts, q, m) == [ts |-> ts, seq |-> head.snap.seq + 1, price |-> m]

NextSnapshot(ts, q, m) ==
    [ts |-> ts, seq |-> head.snap.seq + 1, price |-> m, k |-> Cardinality(DOMAIN q)]

(* Mutation: a minute may be posted twice. *)
SameMinuteAllowed(ts) == ts >= head.snap.ts
NewMinute(ts) == ts > head.snap.ts

(* Mutation: recycled Tickers are not counted as income. *)
KeepsOwnValue(value, spend, recycled, topUp) ==
    value + spend >= head.value + topUp

(* Output 0 keeps everything that came in, less what may be spent. *)
KeepsReserve(value, spend, recycled, topUp) ==
    value + spend >= head.value + Sats(recycled) + topUp

(* What consensus and the covenant ask of an update. *)
UpdateAllowed(ts, q, m, recycled, topUp, value) ==
    LET k   == Cardinality(DOMAIN q)
        cap == FeeCap(FeePerRow, k, Len(head.table))
    IN  /\ head.lock = "oracle"
        /\ DOMAIN q \subseteq DOMAIN head.table
        /\ k \in Quorum..MaxRows
        /\ IsLowerMedian(q, m)
        /\ NewMinute(ts)
        /\ NotFarAhead(ts)
        /\ ts <= MaxCounter /\ head.snap.seq < MaxCounter
        /\ \A r \in DOMAIN q : Signs(head.table[r], ts, q[r])
        /\ \A t \in recycled : Recyclable(t)
        /\ value + 2 * TickerSats <= head.value + Sats(recycled) + topUp
        /\ KeepsReserve(value, 2 * TickerSats + cap, recycled, topUp)

Update(ts, q, m, recycled, topUp, value) ==
    LET k    == Cardinality(DOMAIN q)
        snap == NextSnapshot(ts, q, m)
        cap  == FeeCap(FeePerRow, k, Len(head.table))
    IN  /\ UpdateAllowed(ts, q, m, recycled, topUp, value)
        /\ head' = [head EXCEPT !.snap = snap, !.value = value]
        /\ tickers' = (tickers \ recycled) \cup Fresh(snap)
        /\ log' = Append(log, [snap |-> snap, table |-> head.table, quotes |-> q])
        /\ books' = [in |-> books.in + topUp, fees |-> books.fees + cap]
        /\ UNCHANGED <<mtp, approvals, moves>>

-----------------------------------------------------------------------------
(* Oracle.rotate.  Table change, migration and retirement differ only in where the head goes.     *)
(* A head that leaves the Oracle lock is "p2pkh", whatever the other lock is.                     *)

SignApproval(a) ==
    /\ approvals' = approvals \cup {a}
    /\ UNCHANGED <<mtp, head, tickers, log, moves, books>>

(* Mutation: half of the rows rotate. *)
HalfSuffices(rows, table) == Cardinality(rows) * 2 >= Len(table)
IsMajority(rows, table) == Cardinality(rows) * 2 > Len(table)

(* Mutation: a rotation starts the head's clock afresh. *)
RestartedState == [head.snap EXCEPT !.ts = FirstTs]

(* The 17-byte state is carried over unchanged. *)
CarriedState == head.snap

Rotate(rows, next, recycled, topUp, value) ==
    LET cap == FeeCap(FeePerApproval, Cardinality(rows), Len(head.table))
    IN  /\ head.lock = "oracle"
        /\ rows \subseteq DOMAIN head.table
        /\ IsMajority(rows, head.table)
        /\ \A r \in rows :
              [by |-> head.table[r], old |-> head.table, next |-> next] \in approvals
        /\ \A t \in recycled : Recyclable(t)
        /\ value <= head.value + Sats(recycled) + topUp
        /\ KeepsReserve(value, cap, recycled, topUp)
        /\ head' = [lock |-> next.lock, snap |-> CarriedState, table |-> next.table, value |-> value]
        /\ tickers' = tickers \ recycled
        /\ moves' = moves \cup {[old |-> head.table, next |-> next]}
        /\ books' = [in |-> books.in + topUp, fees |-> books.fees + cap]
        /\ UNCHANGED <<mtp, approvals, log>>

-----------------------------------------------------------------------------
(* Ticker.consume: the co-spent Ticker comes back with its toll. *)

Recreated(t, value) == {[t EXCEPT !.value = value]}

Consume(t, value) ==
    /\ value >= t.value + Toll
    /\ tickers' = (tickers \ {t}) \cup Recreated(t, value)
    /\ books' = IF head.lock = "oracle" THEN [books EXCEPT !.in = @ + (value - t.value)]
                                        ELSE books
    /\ UNCHANGED <<mtp, head, approvals, log, moves>>

(* "p2pkh" stands for every place a holder's key may put a head the rows released: it is then a   *)
(* coin with minting power, and may be spent with Tickers being recycled (their own lock still    *)
(* demands the day) and mint others.  Where it goes and what it is worth is no longer followed.   *)
HolderSpend(recycled, minted) ==
    /\ head.lock = "p2pkh"
    /\ \A t \in recycled : Recyclable(t)
    /\ recycled # {} \/ minted # {}
    /\ tickers' = (tickers \ recycled)
                  \cup {[snap |-> s, out |-> 0, value |-> TickerSats] : s \in minted}
    /\ head' = [head EXCEPT !.value = 0]
    /\ UNCHANGED <<mtp, approvals, log, moves, books>>

(* A block moves chain time; it never goes back. *)
AdvanceTime ==
    /\ mtp < MaxTime
    /\ mtp' = mtp + 1
    /\ UNCHANGED <<head, tickers, approvals, log, moves, books>>

-----------------------------------------------------------------------------
(* build_genesis, or build_migration's result. *)
Init ==
    /\ mtp \in {x \in 0..MaxTime : FirstTs < x + Ahead}
    /\ head = [lock |-> "oracle", table |-> FirstTable, value |-> Reserve,
               snap |-> [ts |-> FirstTs, seq |-> FirstSeq, price |-> 0, k |-> 0]]
    /\ tickers = {}
    /\ approvals = {}
    /\ log = <<>>
    /\ moves = {}
    /\ books = [in |-> Reserve, fees |-> 0]

(* The inputs the two covenant functions would refuse at once are not enumerated. *)
SomeUpdate ==
    \E ts \in {x \in Minute : NewMinute(x) /\ NotFarAhead(x)}, m \in Price :
      \E recycled \in SUBSET {t \in tickers : Recyclable(t)}, topUp \in TopUps, value \in Values :
        \E rows \in {s \in SUBSET DOMAIN head.table : Cardinality(s) >= Quorum} :
          \E q \in [rows -> Price] : Update(ts, q, m, recycled, topUp, value)

SomeRotation ==
    \E recycled \in SUBSET {t \in tickers : Recyclable(t)}, topUp \in TopUps, value \in Values :
      \E next \in Place, rows \in SUBSET DOMAIN head.table :
        Rotate(rows, next, recycled, topUp, value)

Next ==
    \/ SomeUpdate
    \/ SomeRotation
    \/ \E a \in ApprovalChoices : SignApproval(a)
    \/ \E t \in tickers, value \in Values : Consume(t, value)
    \/ \E recycled \in SUBSET {t \in tickers : Recyclable(t)}, minted \in SUBSET Forged : HolderSpend(recycled, minted)
    \/ AdvanceTime

Spec == Init /\ [][Next]_vars

-----------------------------------------------------------------------------
(* Properties. *)

TypeOK ==
    /\ mtp \in Nat
    /\ [lock |-> head.lock, table |-> head.table] \in Place
    /\ head \in [lock: {"oracle", "p2pkh"}, snap: Snapshot,
                 table: Tables \cup {<<>>}, value: Nat]
    /\ tickers \subseteq [snap: Snapshot, out: 0..2, value: Nat]
    /\ approvals \subseteq Approval
    /\ log \in Seq([snap: Snapshot, table: Tables, quotes: Quotes])
    /\ moves \subseteq [old: Tables, next: Place]
    /\ books \in [in: Nat, fees: Nat]

(* The messages form one contiguous, strictly increasing history, and the head's state is its     *)
(* last message whatever rotations came between: dataSequence counts from FirstSeq without a gap, *)
(* timestamps strictly increase (Oracle.cash header, update and rotate).                          *)
OneHistory ==
    /\ \A i \in 1..Len(log) : log[i].snap.seq = FirstSeq + i
    /\ \A i, j \in 1..Len(log) : i < j => log[i].snap.ts < log[j].snap.ts
    /\ \A i \in 1..Len(log) : log[i].snap.ts > FirstTs
    /\ IF log = <<>> THEN head.snap.ts = FirstTs /\ head.snap.seq = FirstSeq
                     ELSE head.snap = log[Len(log)].snap

(* keys_to_forge: the lower median's rank plus one. *)
KeysToForge(k) == (k - 1) \div 2 + 1

LiarsIn(e) == {e.table[r] : r \in DOMAIN e.quotes} \ Honest

(* A posted price lies within what the honest exchanges showed in its minute unless at least      *)
(* keys_to_forge(k) keys behind it lie, however the poster picked rows and median.                *)
MedianHonest ==
    \A i \in 1..Len(log) :
        LET s == log[i].snap
        IN  Cardinality(LiarsIn(log[i])) < KeysToForge(s.k)
              => s.price \in FairLow[s.ts]..FairHigh[s.ts]

(* Sorting the prices and taking index (k-1)/2, as the builder does. *)
LowerMedian(q) ==
    LET i == (Cardinality(DOMAIN q) - 1) \div 2
    IN  CHOOSE p \in {q[r] : r \in DOMAIN q} :
            /\ Cardinality(Below(q, p)) <= i
            /\ i < Cardinality({r \in DOMAIN q : q[r] <= p})

(* The covenant's rank check admits exactly the price an honest builder computes from the same    *)
(* statements: a poster has no choice of median left (lower_median in build.rs against update).   *)
MedianUnique ==
    \A i \in 1..Len(log) : log[i].snap.price = LowerMedian(log[i].quotes)

(* The head can always be posted to within Ahead of chain time: no coalition strands it in the    *)
(* future (Oracle.update's tx.time check).                                                        *)
HeadNotStranded == head.snap.ts < mtp + Ahead

(* Every Ticker that did not come from a retired head's holder is an update's message, and there  *)
(* is none of the other kind while the head is under the covenant: a consumer that pins only the  *)
(* category (PriceGated) reads posted messages only.                                              *)
TickersAuthentic ==
    /\ \A t \in tickers : t.out # 0 => \E i \in 1..Len(log) : t.snap = log[i].snap
    /\ head.lock = "oracle" => \A t \in tickers : t.out # 0

(* Until its lifetime is over each message is on chain in both its Tickers, exactly once each,    *)
(* whatever was consumed, recycled, rotated or retired meanwhile (Ticker.recycle, consume).       *)
FreshTickersAlive ==
    \A i \in 1..Len(log) : log[i].snap.ts + Life >= mtp =>
        \A o \in 1..2 : \E t \in tickers :
            /\ t.snap = log[i].snap /\ t.out = o
            /\ \A u \in tickers : u.snap = t.snap /\ u.out = o => u = t

(* No poster takes more than the fee caps allow: what entered the covenants (reserve, top-ups,    *)
(* tolls) is in the head and the Tickers but for those fees (the value rules of update, rotate,   *)
(* consume together).                                                                             *)
SatsAccounted ==
    head.lock = "oracle" =>
        head.value + Sats(tickers) \in (books.in - books.fees)..books.in

Colluding(t) == {r \in 1..Len(t) : t[r] \notin Honest}

(* A rotation away from a table whose honest rows are at least half needs an honest row's consent *)
(* to that very move (rotate's majority check and what an approval binds).                        *)
HonestConsent ==
    \A m \in moves : 2 * Cardinality(Colluding(m.old)) <= Len(m.old) =>
        \E r \in 1..Len(m.old) :
            /\ m.old[r] \in Honest
            /\ [by |-> m.old[r], old |-> m.old, next |-> m.next] \in approvals

(* The chain implements the abstract feed: the messages posted, and which of them a Ticker holds. *)
feed == [i \in 1..Len(log) |-> log[i].snap]
readable == {i \in 1..Len(log) : \E t \in tickers : t.snap = log[i].snap /\ t.out # 0}

Feed == INSTANCE PriceFeed WITH clock <- mtp

(* Every step of the covenants is a step of PriceFeed: messages are only appended, with the next  *)
(* counter and a later minute, and one leaves the chain only after its lifetime.                  *)
RefinesFeed == Feed!Spec
=============================================================================
