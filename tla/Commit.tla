------------------------------- MODULE Commit -------------------------------
(***************************************************************************)
(* What the head and the Tickers carry, as bytes: the snapshot and head    *)
(* commitment of v27 and of v26 (commit.rs), the scripts that hold them    *)
(* (tx/covenant.rs), the two messages rows sign (statement.rs), and which  *)
(* Tickers an update recycles (chain.rs).                                  *)
(***************************************************************************)
EXTENDS Wire

(* How many pieces the first n bytes take; at is how many are behind, and the bytes still to go. *)
Pieces(bs, n) ==
    LET reached[at \in (0..Len(bs)) \X Int] ==
            IF at[2] <= 0 \/ at[1] = Len(bs) THEN at[1]
            ELSE reached[<<at[1] + 1, at[2] - bs[at[1] + 1][1]>>]
    IN reached[<<0, n>>]

(* The first n bytes, and those after them; both have another size when this cuts inside a piece. *)
Upto(bs, n) == SubSeq(bs, 1, Pieces(bs, n))
After(bs, n) == SubSeq(bs, Pieces(bs, n) + 1, Len(bs))

(* Bytes from..from+len-1. *)
Slice(bs, from, len) == Upto(After(bs, from), len)

(* The little-endian number in a string; -1 when it holds anything but numbers. *)
Num(bs) ==
    LET value[i \in 1..(Len(bs) + 1)] ==
            IF i > Len(bs) THEN 0
            ELSE bs[i][3] + (IF value[i + 1] = 0 THEN 0 ELSE 256^bs[i][1] * value[i + 1])
    IN IF \A i \in DOMAIN bs : bs[i][2] = "number" THEN value[1] ELSE -1

-----------------------------------------------------------------------------
(* commit.rs *)

SNAPSHOT_LEN == 17
HEAD_COMMIT_LEN == 37
Legacy_SNAPSHOT_LEN == 13
Legacy_HEAD_COMMIT_LEN == 33

SnapshotBytes(s) == LE(4, s.ts) \o LE(4, s.seq) \o LE(4, s.seq) \o LE(4, s.price) \o LE(1, s.k)
CommitBytes(c) == SnapshotBytes(c.snapshot) \o c.table_hash

(* The counter is the one at bytes 8..12, which the covenant advances. *)
Decoded(bs) ==
    [ts |-> Num(Slice(bs, 0, 4)), seq |-> Num(Slice(bs, 8, 4)),
     price |-> Num(Slice(bs, 12, 4)), k |-> Num(Slice(bs, 16, 1))]
HeadDecoded(bs) ==
    [snapshot |-> Decoded(Slice(bs, 0, SNAPSHOT_LEN)), table_hash |-> Slice(bs, SNAPSHOT_LEN, 20)]
is_canonical(bs) == Size(bs) = SNAPSHOT_LEN /\ Slice(bs, 4, 4) = Slice(bs, 8, 4)

(* v26: a minute instead of a timestamp, and a price of eight bytes, here its two halves. *)
Snapshot26Bytes(s) == LE(4, s.seq) \o LE(4, s.price.low) \o LE(4, s.price.high) \o LE(1, s.k)
Commit26Bytes(c) == Snapshot26Bytes(c.snapshot) \o c.table_hash
Decoded26(bs) ==
    [seq |-> Num(Slice(bs, 0, 4)), k |-> Num(Slice(bs, 12, 1)),
     price |-> [low |-> Num(Slice(bs, 4, 4)), high |-> Num(Slice(bs, 8, 4))]]
HeadDecoded26(bs) ==
    [snapshot |-> Decoded26(Slice(bs, 0, Legacy_SNAPSHOT_LEN)),
     table_hash |-> Slice(bs, Legacy_SNAPSHOT_LEN, 20)]

recyclable_at(s) == s.ts + 86400            \* TICKER_LIFE_SECS
(* Mutation: the life of a v27 Ticker. *)
LivesADay(s) == s.seq * 60 + 86400
recyclable_at26(s) == s.seq * 60 + 3600     \* LEGACY_TICKER_LIFE_SECS

-----------------------------------------------------------------------------
(* tx/covenant.rs: the bodies are compiled code, of the sizes its tests pin. *)

ticker_lock == Piece(55, "code", "Ticker")
ticker26_lock == Piece(57, "code", "Ticker26")
oracle_redeem == push_data(ticker_lock) \o Piece(518, "code", "Oracle")
oracle26_redeem == push_data(ticker26_lock) \o Piece(506, "code", "Oracle26")
oracle_lock == p2sh32_locking_script(oracle_redeem)
oracle26_lock == p2sh32_locking_script(oracle26_redeem)

(* A table is a sequence of rows [key, source], 34 bytes each. *)
table_bytes(table) == Each(LAMBDA row : Piece(33, "key", row.key) \o LE(1, row.source), table)
table_hash(table) == hash160(table_bytes(table))

-----------------------------------------------------------------------------
(* statement.rs; a signature is the pair of its key and what it signs. *)

message(source, ts, price) == LE(1, 78) \o LE(1, source) \o LE(4, ts) \o LE(4, price)
approval_message(category_vm, old_table_hash, next_lock, tail) ==
    LE(1, 82) \o category_vm \o old_table_hash \o next_lock \o tail
Signature(key, msg) == Piece(64, "sig", <<key, msg>>)

-----------------------------------------------------------------------------
(* chain.rs: find_recyclable_tickers over the unspent outputs at both Ticker locks. *)

TickerUtxo(u, at) ==
    [outpoint |-> u.outpoint, value |-> u.out.value, lock |-> u.out.locking_script,
     commitment |-> u.out.token[1].commitment, recyclable_at |-> at]

(* What a Ticker's lock and commitment make of it; anything else is skipped. *)
TickersAt(utxos) ==
    {TickerUtxo(u, recyclable_at(Decoded(u.out.token[1].commitment))) :
        u \in {v \in utxos : v.out.locking_script = ticker_lock
                             /\ Size(v.out.token[1].commitment) = SNAPSHOT_LEN}}
    \cup
    {TickerUtxo(u, recyclable_at26(Decoded26(u.out.token[1].commitment))) :
        u \in {v \in utxos : v.out.locking_script = ticker26_lock
                             /\ Size(v.out.token[1].commitment) = Legacy_SNAPSHOT_LEN}}

(* A set as a sequence of ascending rank; of equals, the one that the server lists first. *)
InOrder(S, rank) ==
    LET first(T) == CHOOSE t \in T : \A u \in T : rank[t] <= rank[u]
        without(T) == T \ {first(T)}
        left[i \in 0..Cardinality(S)] == IF i = 0 THEN S ELSE without(left[i - 1])
    IN [i \in 1..Cardinality(S) |-> first(left[i - 1])]

find_recyclable_tickers(utxos, mtp, max) ==
    LET ready == {t \in TickersAt(utxos) : t.recyclable_at < mtp}
        oldest == InOrder(ready, [t \in ready |-> t.recyclable_at])
    IN SubSeq(oldest, 1, Min({max, Len(oldest)}))
=============================================================================
