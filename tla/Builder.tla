------------------------------ MODULE Builder ------------------------------
(***************************************************************************)
(* ticker-node's builders (`run`, `build`, `topup`) posting to the head of *)
(* Oracle.  A builder reads the head, the statements, chain time, Tickers  *)
(* and coins one after another, while other builders, consumers, rotations *)
(* and blocks move what it has read, and then broadcasts.  API and         *)
(* Electrum calls are lost; a broadcast whose answer is lost is sent again *)
(* to another server.  All servers share one first-seen view of the chain. *)
(*                                                                         *)
(* Every step that changes the chain is a step of Oracle.  The wall clock  *)
(* counts ticks, MinuteLen to a minute; a timestamp is its minute's number.*)
(***************************************************************************)
EXTENDS Oracle

CONSTANTS
    Builder,      \* builder processes
    Once,         \* those that end after a post: `topup` and `build --once`
    TopUp,        \* the `topup` ones
    MinuteLen,    \* ticks in a minute
    PostAt,       \* POST_AT_SEC: from this tick on fewer than all rows will do
    MaxRecycle,   \* MAX_RECYCLE_PER_UPDATE
    Coins,        \* the operator's coins (each its value)
    Needed,       \* smallest coin a top-up takes: --sats plus 1000
    Fee,          \* size + 1
    MaxTolled,    \* bound on what a Ticker is worth after consumers' tolls
    MaxFaults,    \* bound on lost calls and restarts
    MaxClock      \* bound on the clock

ASSUME BuilderAssumption ==
    /\ TopUp \subseteq Once /\ Once \subseteq Builder
    /\ MinuteLen \in Nat \ {0} /\ PostAt \in 0..(MinuteLen - 1)
    /\ {MaxRecycle, Needed, Fee, MaxTolled, MaxFaults, MaxClock} \subseteq Nat
    /\ IsFiniteSet(Coins) /\ 0 \notin Coins /\ Coins \cup {0} \subseteq TopUps
    /\ 0..(MaxClock \div MinuteLen) \subseteq Minute
    /\ (FirstTs + 1) * MinuteLen <= MaxClock

(* A statement's price is four bytes. *)
ASSUME PriceAssumption == Price \subseteq (-MaxCounter)..MaxCounter

(* size + 1 is below the cap for every update the builder lays out. *)
ASSUME FeeAssumption == Fee <= FeeCap(FeePerRow, Quorum, 1)

VARIABLES
    clock,      \* wall clock
    offers,     \* statements the notaries' APIs serve, [by, ts, price]
    coins,      \* the operator's unspent coins
    outpoint,   \* which output the head is: how often it has been spent
    manifest,   \* the table in each builder's memory, as loaded at its start
    job,        \* what each builder has read in its pass, and where it is in it
    faults,     \* failures so far
    posts       \* history: the updates that builders got onto the chain, [by, outpoint, coin]

own == <<clock, offers, coins, outpoint, manifest, job, faults, posts>>
allVars == <<vars, own>>

Now == clock \div MinuteLen
Second == clock % MinuteLen

FirstHead == [lock |-> "oracle", table |-> FirstTable, value |-> Reserve,
              snap |-> [ts |-> FirstTs, seq |-> FirstSeq, price |-> 0, k |-> 0]]

Asleep == [pc |-> "asleep", head |-> FirstHead, outpoint |-> 0, minute |-> 0, late |-> FALSE,
           quotes |-> <<>>, mtp |-> 0, recycled |-> {}, coin |-> 0]
Done == [Asleep EXCEPT !.pc = "done"]

At(b, pc) == job[b].pc = pc
Go(b, j) == job' = [job EXCEPT ![b] = j]
Lost == faults < MaxFaults /\ faults' = faults + 1

-----------------------------------------------------------------------------
(* build_once *)

(* An unknown head, or one whose table is not the manifest's, ends the pass at once. *)
FindHead(b) ==
    /\ At(b, "asleep")
    /\ head.lock = "oracle" /\ head.table = manifest[b]
    /\ Go(b, [Asleep EXCEPT !.pc = "found", !.head = head, !.outpoint = outpoint])
    /\ UNCHANGED <<vars, clock, offers, coins, outpoint, manifest, faults, posts>>

(* Mutation: `topup` ends without a post too. *)
NothingEndsOnce(b) == Go(b, IF b \in Once THEN Done ELSE Asleep)

(* Ok(None): `build --once` ends, `topup` and `run` poll again. *)
NothingToPost(b) == Go(b, IF b \in Once \ TopUp THEN Done ELSE Asleep)

(* The clock is read once; the minute and the choice of second twenty both come from it. *)
CheckMinute(b) ==
    /\ At(b, "found")
    /\ IF job[b].head.snap.ts >= Now
         THEN NothingToPost(b)
         ELSE Go(b, [job[b] EXCEPT !.pc = "collect", !.minute = Now, !.late = Second >= PostAt])
    /\ UNCHANGED <<vars, clock, offers, coins, outpoint, manifest, faults, posts>>

Offered(table, m) == {r \in 1..Len(table) : \E s \in offers : s.by = table[r] /\ s.ts = m}
(* Mutation: the wrong field of the statement. *)
TimesOf(table, m, rows) == [r \in rows |-> m]
QuotesOf(table, m, rows) ==
    [r \in rows |-> (CHOOSE s \in offers : s.by = table[r] /\ s.ts = m).price]

(* Mutations: the builder always waits for every row; it never does. *)
AllRowsOnly(b, rows) == Cardinality(rows) = Len(manifest[b])
QuorumOnly(b, rows) == Cardinality(rows) >= Quorum

(* All rows, or seven from second twenty on. *)
EnoughRows(b, rows) ==
    /\ Cardinality(rows) >= Quorum
    /\ Cardinality(rows) = Len(manifest[b]) \/ job[b].late

(* Each row's API is asked; some answers are lost. *)
Collect(b) ==
    /\ At(b, "collect")
    /\ \E rows \in SUBSET Offered(manifest[b], job[b].minute) :
         /\ IF rows = Offered(manifest[b], job[b].minute) THEN UNCHANGED faults ELSE Lost
         /\ IF EnoughRows(b, rows)
              THEN Go(b, [job[b] EXCEPT !.pc = "time",
                            !.quotes = QuotesOf(manifest[b], job[b].minute, rows)])
              ELSE NothingToPost(b)
    /\ UNCHANGED <<vars, clock, offers, coins, outpoint, manifest, posts>>

ReadTime(b) ==
    /\ At(b, "time")
    /\ Go(b, [job[b] EXCEPT !.pc = "tickers", !.mtp = mtp])
    /\ UNCHANGED <<vars, clock, offers, coins, outpoint, manifest, faults, posts>>

(* Mutation: due a minute early. *)
DueEarly(t, time) == t.snap.ts + Life <= time
Due(t, time) == t.snap.ts + Life < time

(* find_recyclable_tickers: the oldest of those that are due, at most MaxRecycle; ties either way. *)
OldestDue(time) ==
    LET due == {t \in tickers : Due(t, time)}
    IN  {S \in SUBSET due :
           /\ Cardinality(S) = Min({MaxRecycle, Cardinality(due)})
           /\ \A t \in S, u \in due \ S : t.snap.ts <= u.snap.ts}

ReadTickers(b) ==
    /\ At(b, "tickers")
    /\ \E S \in OldestDue(job[b].mtp) :
         Go(b, [job[b] EXCEPT !.pc = IF b \in TopUp THEN "coins" ELSE "send", !.recycled = S])
    /\ UNCHANGED <<vars, clock, offers, coins, outpoint, manifest, faults, posts>>

(* find_coins lists the largest first, so the largest is taken, if it is large enough. *)
ReadCoins(b) ==
    /\ At(b, "coins")
    /\ IF \E c \in coins : c >= Needed
         THEN Go(b, [job[b] EXCEPT !.pc = "send", !.coin = Max(coins)])
         ELSE Go(b, Asleep)
    /\ UNCHANGED <<vars, clock, offers, coins, outpoint, manifest, faults, posts>>

-----------------------------------------------------------------------------
(* build_update *)

(* Prices are u32 here and signed script numbers in the covenant. *)
U32(p) == p % (2 * MaxCounter + 2)

lower_median(q) ==
    LET i == (Cardinality(DOMAIN q) - 1) \div 2
    IN  CHOOSE p \in {q[r] : r \in DOMAIN q} :
            /\ Cardinality({r \in DOMAIN q : U32(q[r]) < U32(p)}) <= i
            /\ i < Cardinality({r \in DOMAIN q : U32(q[r]) <= U32(p)})

update_locktime(j) == Max({0, j.minute - Ahead} \cup {t.snap.ts + Life : t \in j.recycled})

Total(j) == j.head.value + Sats(j.recycled) + j.coin
Spend == Fee + 2 * TickerSats
InputsUnspent(j) == j.outpoint = outpoint /\ j.recycled \subseteq tickers /\ j.coin \in coins \cup {0}

(* BuildError::Insufficient *)
CannotPay(b) ==
    /\ At(b, "send") /\ Total(job[b]) < Spend
    /\ Go(b, Asleep)
    /\ UNCHANGED <<vars, clock, offers, coins, outpoint, manifest, faults, posts>>

(* The first-seen rule, finality of the locktime, the covenants' tx.time, and Oracle.update. *)
Accepts(j) ==
    /\ InputsUnspent(j)
    /\ Final(update_locktime(j))
    /\ update_locktime(j) >= j.minute - Ahead
    /\ \A t \in j.recycled : update_locktime(j) >= t.snap.ts + Life
    /\ UpdateAllowed(j.minute, j.quotes, lower_median(j.quotes), j.recycled, j.coin, Total(j) - Spend)

(* No answer: call() sends the same bytes once more to the next endpoint, then gives up. *)
Unanswered(b) ==
    /\ Lost
    /\ Go(b, IF At(b, "send") THEN [job[b] EXCEPT !.pc = "resend"] ELSE Asleep)

Sending(b) == job[b].pc \in {"send", "resend"} /\ Total(job[b]) >= Spend

BroadcastAccepted(b) ==
    LET j == job[b]
    IN  /\ Sending(b) /\ Accepts(j)
        /\ Total(j) - Spend \in Values
        /\ Update(j.minute, j.quotes, lower_median(j.quotes), j.recycled, j.coin, Total(j) - Spend)
        /\ outpoint' = outpoint + 1
        /\ coins' = coins \ {j.coin}
        /\ posts' = posts \cup {[by |-> b, outpoint |-> j.outpoint, coin |-> j.coin]}
        /\ \/ Go(b, IF b \in Once THEN Done ELSE Asleep) /\ UNCHANGED faults
           \/ Unanswered(b)
        /\ UNCHANGED <<clock, offers, manifest>>

(* A server that has this very transaction may say so with its txid or with an error. *)
BroadcastRefused(b) ==
    LET j == job[b]
        known == [by |-> b, outpoint |-> j.outpoint, coin |-> j.coin] \in posts
    IN  /\ Sending(b) /\ ~Accepts(j)
        /\ \/ Go(b, Asleep)
           \/ known /\ Go(b, IF b \in Once THEN Done ELSE Asleep)
        /\ UNCHANGED <<vars, clock, offers, coins, outpoint, manifest, faults, posts>>

BroadcastLost(b) ==
    /\ Sending(b)
    /\ Unanswered(b)
    /\ UNCHANGED <<vars, clock, offers, coins, outpoint, manifest, posts>>

(* A read fails on every endpoint: the pass ends with an error. *)
ReadFails(b) ==
    /\ job[b].pc \in {"time", "tickers", "coins"}
    /\ Lost /\ Go(b, Asleep)
    /\ UNCHANGED <<vars, clock, offers, coins, outpoint, manifest, posts>>

(* The daemon is started again, with the old manifest.json or one rewritten for the head's table. *)
Restart(b) ==
    /\ b \notin Once
    /\ Lost /\ Go(b, Asleep)
    /\ manifest' \in {manifest} \cup {[manifest EXCEPT ![b] = t] : t \in {head.table} \cap Tables}
    /\ UNCHANGED <<vars, clock, offers, coins, outpoint, posts>>

BuilderStep(b) ==
    \/ FindHead(b) \/ CheckMinute(b) \/ Collect(b) \/ ReadTime(b) \/ ReadTickers(b) \/ ReadCoins(b)
    \/ CannotPay(b) \/ BroadcastAccepted(b) \/ BroadcastRefused(b)

Failure(b) == BroadcastLost(b) \/ ReadFails(b) \/ Restart(b)

-----------------------------------------------------------------------------
(* What happens around the builders. *)

(* A notary serves a statement from its minute on, one per minute. *)
Offer(n, m, p) ==
    /\ m <= Now /\ Signs(n, m, p)
    /\ ~\E s \in offers : s.by = n /\ s.ts = m
    /\ offers' = offers \cup {[by |-> n, ts |-> m, price |-> p]}
    /\ UNCHANGED <<vars, clock, coins, outpoint, manifest, job, faults, posts>>

(* build_rotate recycles nothing and adds no coin. *)
RotateHead(rows, next) ==
    /\ head.value - Fee \in Values
    /\ Rotate(rows, next, {}, 0, head.value - Fee)
    /\ outpoint' = outpoint + 1
    /\ UNCHANGED <<clock, offers, coins, manifest, job, faults, posts>>

Elsewhere ==
    /\ \/ \E a \in ApprovalChoices : SignApproval(a)
       \/ \E t \in tickers, value \in Values \cap 0..MaxTolled : Consume(t, value)
       \/ AdvanceTime
    /\ UNCHANGED own

Tick ==
    /\ clock < MaxClock
    /\ clock' = clock + 1
    /\ UNCHANGED <<vars, offers, coins, outpoint, manifest, job, faults, posts>>

BuilderInit ==
    /\ Init
    /\ clock = (FirstTs + 1) * MinuteLen
    /\ offers = {}
    /\ coins = Coins
    /\ outpoint = 0
    /\ manifest = [b \in Builder |-> FirstTable]
    /\ job = [b \in Builder |-> Asleep]
    /\ faults = 0
    /\ posts = {}

BuilderNext ==
    \/ \E b \in Builder : BuilderStep(b) \/ Failure(b)
    \/ \E n \in Notary, m \in Minute, p \in Price : Offer(n, m, p)
    \/ \E rows \in SUBSET DOMAIN head.table, next \in Place : RotateHead(rows, next)
    \/ Elsewhere
    \/ Tick

BuilderSafety == BuilderInit /\ [][BuilderNext]_allVars

(* Every call has a timeout and the loop never blocks, so a builder keeps taking steps; time passes. *)
BuilderSpec ==
    /\ BuilderSafety
    /\ \A b \in Builder : WF_allVars(BuilderStep(b))
    /\ WF_allVars(Tick)

-----------------------------------------------------------------------------
(* Properties. *)

Job == [pc: {"asleep", "found", "collect", "time", "tickers", "coins", "send", "resend", "done"},
        head: [lock: {"oracle"}, snap: Snapshot, table: Tables, value: Nat],
        outpoint: Nat, minute: Minute \cup {0}, late: BOOLEAN, quotes: Quotes, mtp: Nat,
        recycled: SUBSET [snap: Snapshot, out: 0..2, value: Nat], coin: Coins \cup {0}]

BuilderTypeOK ==
    /\ clock \in 0..MaxClock
    /\ offers \subseteq [by: Notary, ts: Minute, price: Price]
    /\ coins \subseteq Coins
    /\ outpoint \in Nat
    /\ manifest \in [Builder -> Tables]
    /\ job \in [Builder -> Job]
    /\ faults \in 0..MaxFaults
    /\ posts \subseteq [by: Builder, outpoint: Nat, coin: Coins \cup {0}]

(* What the builder takes from others fits a positive four-byte script number. *)
InRange(j) ==
    /\ j.minute <= MaxCounter /\ j.head.snap.seq < MaxCounter
    /\ \A r \in DOMAIN j.quotes : j.quotes[r] >= 0

(* However old each of its five reads is by then, the transaction a builder sends is one the      *)
(* covenants and consensus accept, unless an input is spent or chain time lags its minute by the  *)
(* full lead (build_update against Oracle.update and Ticker.recycle).                             *)
BuiltIsValid ==
    \A b \in Builder :
        /\ Sending(b) /\ InputsUnspent(job[b]) /\ InRange(job[b])
        /\ NotFarAhead(job[b].minute) /\ mtp > 0
        => Accepts(job[b])

(* An update without every row never reaches the chain before second twenty of its own minute     *)
(* (POST_AT_SEC), whichever clock reading its builder decided by.                                 *)
NoEarlyPost ==
    [][\A e \in {log'[i] : i \in (Len(log) + 1)..Len(log')} :
          Cardinality(DOMAIN e.quotes) = Len(e.table) \/ clock >= e.snap.ts * MinuteLen + PostAt]_allVars

(* `topup` returns only after a transaction of its own has put a coin into the reserve, whatever  *)
(* answers were lost.                                                                             *)
TopUpMoved ==
    \A b \in TopUp : At(b, "done") => \E p \in posts : p.by = b /\ p.coin >= Needed

(* In minute m builder b lacks nothing an update needs. *)
CanPost(m, b) ==
    /\ Now = m /\ Second >= PostAt
    /\ Cardinality(Offered(head.table, m)) >= Quorum
    /\ \A s \in offers : s.price >= 0
    /\ head.lock = "oracle" /\ manifest[b] = head.table
    /\ head.value >= Spend
    /\ NotFarAhead(m) /\ mtp > 0

(* A minute that lasts is posted: with a builder running and seven rows' statements served, no    *)
(* interleaving with consumers, blocks, late statements and lost calls starves it (build_loop).   *)
FeedAdvances ==
    \A m \in Minute, b \in Builder \ Once :
        <>[]CanPost(m, b) => <>(head.snap.ts >= m)
=============================================================================
