------------------------------ MODULE Spending ------------------------------
(***************************************************************************)
(* The bytes that ticker-node makes, over the life of a head: genesis or   *)
(* the migration of a v26 head, updates that recycle Tickers of both       *)
(* generations and take top-up coins, table changes, retirement to an      *)
(* address that an operator typed.  Each transaction is built from what is *)
(* unspent, and what a node reads in it is what happens.                   *)
(*                                                                         *)
(* One home and one transaction at a time: what goes wrong between two is  *)
(* in Builder and Governance.  A txid is the number of the transaction.    *)
(***************************************************************************)
EXTENDS Assemble, Network, CashAddr

CONSTANTS
    Start,        \* unspent outputs at first, [outpoint, out]: one of these sets
    Table,        \* the tables, as validate_rows lets them be; the first in use is FirstTable
    FirstTable,
    Moments,      \* the clock and median-time-past, [now, mtp], one after another
    PriceOf,      \* the price of each source
    ReserveSats,  \* genesis --reserve
    OperatorKey,
    MAX_RECYCLE_PER_UPDATE,
    Address,      \* key addresses as their wallets show them, [text, hash]
    HeadAddress,  \* the head's, as README.md shows it, with the hash of its lock
    Other,        \* texts of other addresses
    Net,          \* the manifest's network, by its prefix
    MaxTx         \* bound on transactions

ASSUME SpendingAssumption ==
    /\ FirstTable \in Table
    /\ \A t \in Table : /\ Len(t) \in QUORUM..MAX_ROWS
                        /\ t = [i \in 1..Len(t) |-> [key |-> t[i].key, source |-> t[i].source]]
                        /\ \A i, j \in DOMAIN t : i # j => t[i].key # t[j].key /\ t[i].source # t[j].source
    /\ Net \in Prefix
    /\ Len(Moments) \in Nat \ {0} /\ \A m \in 1..Len(Moments) : Moments[m].now \in Int /\ Moments[m].mtp \in Int
    /\ {MAX_RECYCLE_PER_UPDATE, MaxTx, ReserveSats} \subseteq Nat

(* A name stands for the txid behind an id; later transactions are named by their number. *)
NameOf(id) == id[1][3][1]
IsOutpoint(p) == p = [txid |-> Display(NameOf(p.txid)), vout |-> p.vout] /\ p.vout \in Nat

OperatorLock == p2pkh_locking_script(hash160(Piece(33, "key", OperatorKey)))

(* What an output holds: nothing but sats of the operator, or an NFT with a commitment. *)
IsCoin(o) == o = Paid(o.value, OperatorLock, <<>>)
HasNFT(o, lock, capability) ==
    /\ o.token # <<>>
    /\ o = Paid(o.value, lock, Token(Display(NameOf(o.token[1].category)), capability, o.token[1].commitment))
IsTicker(o) ==
    /\ HasNFT(o, ticker_lock, NO_CAPABILITY)
    /\ LET s == Decoded(o.token[1].commitment)
       IN o.token[1].commitment = SnapshotBytes(s) /\ s.ts \in Int
IsTicker26(o) ==
    /\ HasNFT(o, ticker26_lock, NO_CAPABILITY)
    /\ LET s == Decoded26(o.token[1].commitment)
       IN o.token[1].commitment = Snapshot26Bytes(s) /\ s.seq \in Int
IsHead26(o, hash) ==
    /\ HasNFT(o, oracle26_lock, MINTING)
    /\ LET s == Decoded26(o.token[1].commitment)
       IN o.token[1].commitment = Commit26Bytes([snapshot |-> s, table_hash |-> hash])

(* At first: the operator's coins, Tickers, and at most one head, of v26, of the first table. *)
ASSUME StartAssumption ==
    LET hash == table_hash(FirstTable)
    IN \A S \in Start :
           /\ IsFiniteSet(S)
           /\ \A u \in S : /\ IsOutpoint(u.outpoint) /\ NameOf(u.outpoint.txid) \notin 1..MaxTx
                           /\ u.out.value \in Nat
                           /\ IsCoin(u.out) \/ IsTicker(u.out) \/ IsTicker26(u.out) \/ IsHead26(u.out, hash)
           /\ \A u, v \in S : u.outpoint = v.outpoint => u = v
           /\ \A u, v \in S : IsHead26(u.out, hash) /\ IsHead26(v.out, hash) => u = v

VARIABLES
    utxos,    \* unspent outputs: the head, Tickers, the operator's coins
    table,    \* the manifest's table
    moment,   \* which of Moments it is
    sent,     \* transactions so far
    job       \* the transaction just built, if any, with what it was built from

vars == <<utxos, table, moment, sent, job>>

now == Moments[moment].now
mtp == Moments[moment].mtp

-----------------------------------------------------------------------------
(* Chain reads (chain.rs). *)

Minting(lock) ==
    {u \in utxos : u.out.locking_script = lock /\ \E t \in ToSet(u.out.token) : t.capability = MINTING}

HeadOf(u, commit) ==
    [outpoint |-> u.outpoint, value |-> u.out.value, commit |-> commit,
     raw |-> u.out.token[1].commitment, category |-> Reversed(u.out.token[1].category)]

(* find_head, find_legacy_head: a minting NFT at the lock whose commitment decodes. *)
find_head ==
    {HeadOf(u, HeadDecoded(u.out.token[1].commitment)) :
        u \in {v \in Minting(oracle_lock) : Size(v.out.token[1].commitment) = HEAD_COMMIT_LEN}}
find_legacy_head ==
    {HeadOf(u, HeadDecoded26(u.out.token[1].commitment)) :
        u \in {v \in Minting(oracle26_lock) : Size(v.out.token[1].commitment) = Legacy_HEAD_COMMIT_LEN}}

Coin(u) == [outpoint |-> u.outpoint, value |-> u.out.value, key |-> OperatorKey]
find_coins == {Coin(u) : u \in {v \in utxos : v.out.locking_script = OperatorLock /\ v.out.token = <<>>}}

-----------------------------------------------------------------------------
(* The commands, up to their broadcast. *)

Nothing == [kind |-> "none"]
Ready == job = Nothing /\ sent < MaxTx

Builds(kind, built, next, typed) ==
    /\ Ready /\ built # Refused
    /\ job' = [kind |-> kind, built |-> built[1], table |-> next, typed |-> typed]
    /\ UNCHANGED <<utxos, table, moment, sent>>

Minute == now - (now % 60)
NoText == [prefix |-> Net, body |-> <<>>]

Need == ReserveSats + 2000
Fundings == {c \in find_coins : c.outpoint.vout = 0 /\ c.value >= Need}

(* The largest coins, as few as make up for genesis and for the transaction that merges them. *)
Picked ==
    LET largest == InOrder(find_coins, [c \in find_coins |-> -c.value])
        worth(n) == Total([i \in 1..n |-> CoinInput(largest[i])])
        enough == {n \in DOMAIN largest : worth(n) >= Need + 1000}
    IN IF enough = {} THEN <<>> ELSE SubSeq(largest, 1, Min(enough))

(* While there is no head: the coin first, if there is none that will do. *)
Genesis ==
    /\ \A u \in utxos : u.out.token = <<>>
    /\ \/ \E c \in {d \in Fundings : \A e \in Fundings : e.value <= d.value} :
            Builds("genesis", build_genesis(c, table_hash(table), ReserveSats, Minute - 60), table, NoText)
       \/ Fundings = {} /\ Picked # <<>> /\ Builds("self-spend", self_spend(Picked), table, NoText)

(* What the rows from the first on signed in minute ts. *)
Statements(first, ts) ==
    [i \in 1..(Len(table) - first + 1) |->
        LET row == table[first + i - 1]
            price == PriceOf[row.source]
        IN [source |-> row.source, ts |-> ts, price |-> price,
            sig |-> Signature(row.key, message(row.source, ts, price))]]

(* All rows sign, or the last seven. *)
Turnouts == {1, Len(table) - QUORUM + 1}

(* `topup` takes the largest coin. *)
TopUps == {<<>>} \cup {<<c>> : c \in {d \in find_coins : \A e \in find_coins : e.value <= d.value}}

Update ==
    \E head \in find_head, first \in Turnouts, topups \in TopUps :
        Builds("update",
               build_update(head, table, Statements(first, Minute),
                            find_recyclable_tickers(utxos, mtp, MAX_RECYCLE_PER_UPDATE), topups),
               table, NoText)

(* The first rows approve: half of them, a bare majority, all. *)
Approvals(count, head, lock, tail) ==
    [i \in 1..count |->
        LET text == approval_message(Reversed(head.category), head.commit.table_hash, lock, tail)
        IN [key |-> table[i].key, sig |-> Signature(table[i].key, text)]]
Counts == {Len(table) \div 2, Len(table) \div 2 + 1, Len(table)}

Rotated(head, lock, tail, count) ==
    build_rotate(head, table, lock, tail, Approvals(count, head, lock, tail), <<>>)

(* plan and rotate (rotate.rs), with --table and with --retire-to. *)
ChangeTable ==
    \E head \in find_head, t \in Table \ {table}, count \in Counts :
        Builds("table", Rotated(head, oracle_lock, table_hash(t), count), t, NoText)

RetireLock(text) ==
    p2pkh_locking_script(Piece(20, "address", decode_p2pkh_cashaddr(text, Net)))

(* An address as it is, with one character wrong, or with two neighbours swapped. *)
Mistyped(text, i, d) == [text EXCEPT !.body[i] = (text.body[i] + d) % 33]
Swapped(text, i) == [text EXCEPT !.body[i] = text.body[i + 1], !.body[i + 1] = text.body[i]]
Slips(text) ==
    {Mistyped(text, i, d) : i \in DOMAIN text.body, d \in {1, 16}}
    \cup {Swapped(text, i) : i \in 1..(Len(text.body) - 1)}
Typed == Other \cup {HeadAddress.text} \cup {a.text : a \in Address} \cup UNION {Slips(a.text) : a \in Address}
TakenTexts == {text \in Typed : decode_p2pkh_cashaddr(text, Net) # <<>>}

Retire ==
    \E head \in find_head, text \in TakenTexts :
        Builds("retire", Rotated(head, RetireLock(text), <<>>, Len(table) \div 2 + 1), table, text)

Migrate ==
    \E head \in find_legacy_head, count \in Counts :
        LET tail == migration_tail(head.commit.table_hash)
            approvals == Approvals(count, head, oracle_lock, tail)
        IN Builds("migrate", build_migration(head, table, approvals, <<>>), table, NoText)

-----------------------------------------------------------------------------
(* The network's part. *)

OutOf(p) == (CHOOSE u \in utxos : u.outpoint = p).out
SpendsOf(tx) == [i \in DOMAIN tx.inputs |-> OutOf(tx.inputs[i].prev)]
Unspent(tx) == \A x \in ToSet(tx.inputs) : \E u \in utxos : u.outpoint = x.prev

Taken ==
    LET tx == Read(job.built.raw).v
    IN Unspent(tx) /\ Accepts(job.built.raw, SpendsOf(tx), mtp)

Created(tx) ==
    {[outpoint |-> [txid |-> Display(sent + 1), vout |-> i - 1], out |-> tx.outputs[i]] :
        i \in DOMAIN tx.outputs}

(* The manifest is rewritten once the transaction is out. *)
Broadcast ==
    /\ job # Nothing
    /\ IF Taken
         THEN LET tx == Read(job.built.raw).v
              IN /\ utxos' = {u \in utxos : \A x \in ToSet(tx.inputs) : u.outpoint # x.prev} \cup Created(tx)
                 /\ table' = job.table
                 /\ sent' = sent + 1
         ELSE UNCHANGED <<utxos, table, sent>>
    /\ job' = Nothing
    /\ UNCHANGED moment

Tick ==
    /\ job = Nothing /\ moment < Len(Moments)
    /\ moment' = moment + 1
    /\ UNCHANGED <<utxos, table, sent, job>>

Init ==
    /\ utxos \in Start
    /\ table = FirstTable
    /\ moment = 1
    /\ sent = 0
    /\ job = Nothing

Next ==
    \/ Genesis \/ Update \/ ChangeTable \/ Retire \/ Migrate
    \/ Broadcast \/ Tick

Spec == Init /\ [][Next]_vars

-----------------------------------------------------------------------------
(* Properties. *)

(* Whatever was built, from whatever the head has been through, a node reads in the bytes what    *)
(* the builder meant, and what the inputs hold beyond the outputs is the fee, exactly size + 1,   *)
(* although the coins sign only once the fee is set (encode_tx, finish and all that leads to it). *)
BuiltAsMeant ==
    job # Nothing =>
        LET built == job.built
        IN /\ Read(built.raw) = [v |-> built.tx, rest |-> <<>>]
           /\ Unspent(built.tx)
           /\ Sum(SpendsOf(built.tx)) - Sum(built.tx.outputs) = Size(built.raw) + 1
           /\ built.fee = Size(built.raw) + 1

(* A head takes the next minute: the update is built, taken, counts on from its counter and leaves *)
(* a canonical snapshot (commit.rs).                                                              *)
GoesOn(head, built) ==
    /\ built # Refused
    /\ Accepts(built[1].raw, SpendsOf(built[1].tx), mtp)
    /\ LET commit == built[1].tx.outputs[1].token[1].commitment
       IN /\ is_canonical(Slice(commit, 0, SNAPSHOT_LEN))
          /\ HeadDecoded(commit).snapshot.seq = head.commit.snapshot.seq + 1
          /\ HeadDecoded(commit).table_hash = table_hash(table)

(* Every input of what was built lets it be spent (the covenants, the coins' signatures), and the *)
(* network's limits are kept: the builder and the contracts agree on the layout of an unlocking   *)
(* script, of a commitment and of what is signed (build.rs, script.rs, sighash.rs).  Whatever     *)
(* came before, migration included, the head that is left takes the next minute.                  *)
BuiltIsSpendable ==
    /\ job # Nothing => Taken
    /\ job = Nothing =>
          \A head \in find_head :
              GoesOn(head, build_update(head, table, Statements(1, Minute + 60), <<>>, <<>>))

DueAt(u) == IF u.out.locking_script = ticker_lock THEN TickerDue(u.out) ELSE Ticker26Due(u.out)

(* An update recycles the Tickers of both generations that their own covenants let go, the oldest *)
(* first, up to its limit, and leaves none of those behind (find_recyclable_tickers).             *)
RecyclesBoth ==
    job.kind = "update" =>
        LET tickers == {u \in utxos : u.out.locking_script \in {ticker_lock, ticker26_lock}}
            due == {u \in tickers : DueAt(u) < mtp}
            recycled == {u \in tickers : \E x \in ToSet(job.built.tx.inputs) : u.outpoint = x.prev}
        IN /\ recycled \subseteq due
           /\ Cardinality(recycled) = Min({MAX_RECYCLE_PER_UPDATE, Cardinality(due)})
           /\ \A t \in recycled, u \in due \ recycled : DueAt(t) <= DueAt(u)

(* A head that genesis, a migration, an update or a table change left at the lock of v27 is one   *)
(* the builder finds, and it holds the manifest's table (find_head; migration_tail, which places  *)
(* a v26 state so that v27 reads it; the manifest, rewritten after the broadcast).                *)
HeadIsFound ==
    \A u \in Minting(oracle_lock) :
        \E head \in find_head : /\ head.outpoint = u.outpoint
                                /\ head.commit.table_hash = table_hash(table)

(* A head is retired only to the key hash that the wallet meant by its address, whatever single   *)
(* character or pair of neighbours was mistyped, and to each such address it can be               *)
(* (decode_p2pkh_cashaddr; the state carries over and no table follows it).                       *)
AddressHolds ==
    /\ job.kind = "retire" =>
          \E a \in Address :
              /\ job.typed = a.text
              /\ job.built.tx.outputs[1].locking_script = p2pkh_locking_script(Piece(20, "address", a.hash))
    /\ job = Nothing => \A head \in find_head, a \in Address :
          decode_p2pkh_cashaddr(a.text, Net) = a.hash /\ encode_p2pkh_cashaddr(a.hash, Net) = a.text
    /\ job.kind = "genesis" =>
          encode_p2sh32_cashaddr(HeadAddress.hash, HeadAddress.text.prefix) = HeadAddress.text
=============================================================================
