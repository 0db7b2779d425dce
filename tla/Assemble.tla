------------------------------ MODULE Assemble ------------------------------
(***************************************************************************)
(* The transactions the builder makes (tx/build.rs): update, rotation,     *)
(* the migration of a v26 head, genesis and the coin for it.  Each is      *)
(* laid out with placeholders, sized, given its fee of size + 1, and       *)
(* signed.                                                                 *)
(*                                                                         *)
(* A transaction that is refused is <<>>, one that is built a sequence of  *)
(* one record [tx, raw, fee].                                              *)
(***************************************************************************)
EXTENDS Commit

QUORUM == 7
MAX_ROWS == 127
TICKERS_PER_UPDATE == 2
TICKER_SATS == 792
P2PKH_DUST == 546
SEQ_AHEAD_SECS == 21600

Refused == <<>>

fee_cap(unlock_len) == 1000 + 2 * unlock_len    \* FEE_CAP_BASE_SATS, FEE_CAP_PER_UNLOCK_BYTE

(* The element at the lower median's rank, of prices in ascending order. *)
lower_median(prices) == SortSeq(prices, LAMBDA p, q : p < q)[(Len(prices) - 1) \div 2 + 1]

check_table(table, hash) == Len(table) \in 1..MAX_ROWS /\ table_hash(table) = hash

(* The rows a statement may be placed on; the first is taken. *)
RowsOf(table, s) ==
    {r \in DOMAIN table : /\ table[r].source = s.source
                          /\ s.sig = Signature(table[r].key, message(s.source, s.ts, s.price))}

select_statements(head, table, statements) ==
    LET ts == statements[1].ts
        rows == [i \in DOMAIN statements |-> RowsOf(table, statements[i])]
        placed == [i \in DOMAIN statements |-> [row |-> Min(rows[i]), statement |-> statements[i]]]
    IN IF /\ check_table(table, head.commit.table_hash)
          /\ Len(statements) >= QUORUM
          /\ ts > head.commit.snapshot.ts
          /\ \A i \in DOMAIN statements : statements[i].ts = ts /\ rows[i] # {}
          /\ Cardinality({p.row : p \in ToSet(placed)}) = Len(statements)
       THEN InOrder(ToSet(placed), [p \in ToSet(placed) |-> p.row])
       ELSE Refused

(* Mutation: as if no Ticker were spent. *)
AheadOnly(ts, recycled) == Max({0, ts - SEQ_AHEAD_SECS})
update_locktime(ts, recycled) ==
    Max({Max({0, ts - SEQ_AHEAD_SECS})} \cup {t.recyclable_at : t \in ToSet(recycled)})

-----------------------------------------------------------------------------
(* Inputs, each with the output it spends and, if it needs a signature, its coin. *)

Token(category, capability, commitment) ==
    <<[category |-> Reversed(category), capability |-> capability, commitment |-> commitment, amount |-> 0]>>
Paid(value, lock, token) == [value |-> value, locking_script |-> lock, token |-> token]

HeadInput(head, lock, unlock) ==
    [prev |-> head.outpoint, unlock |-> unlock, coin |-> <<>>,
     spends |-> Paid(head.value, lock, Token(head.category, MINTING, head.raw))]

TickerInput(t, category) ==
    [prev |-> t.outpoint, unlock |-> push_int(1), coin |-> <<>>,
     spends |-> Paid(t.value, t.lock, Token(category, NO_CAPABILITY, t.commitment))]

(* A coin is [outpoint, value, key]; pkh is the hash of its public key. *)
public_key(coin) == Piece(33, "key", coin.key)
pkh(coin) == hash160(public_key(coin))
(* Mutation: no room for the byte that follows a signature. *)
UnmarkedPlaceholder(key) == push_data(Piece(64, "zeros", <<>>)) \o push_data(key)
p2pkh_placeholder(key) == push_data(Piece(65, "zeros", <<>>)) \o push_data(key)
CoinInput(coin) ==
    [prev |-> coin.outpoint, unlock |-> p2pkh_placeholder(public_key(coin)), coin |-> <<coin>>,
     spends |-> Paid(coin.value, p2pkh_locking_script(pkh(coin)), <<>>)]

Total(ins) == MapThenSumSet(LAMBDA i : ins[i].spends.value, DOMAIN ins)

Draft(ins, outputs, locktime) ==
    [version |-> 2, outputs |-> outputs, locktime |-> locktime,
     inputs |-> [i \in DOMAIN ins |-> [prev |-> ins[i].prev, unlock_script |-> ins[i].unlock,
                                       sequence |-> SEQUENCE_TIMELOCK]]]

(* The unlocking script of coin, for what is to be signed. *)
CoinUnlock(coin, digest) ==
    push_data(Signature(coin.key, digest) \o LE(1, SIGHASH_ALL_UTXOS_FORKID)) \o push_data(public_key(coin))

sign_p2pkh_inputs(tx, ins) ==
    LET sources == [i \in DOMAIN ins |-> ins[i].spends]
        digest(i) == sighash_digest(tx, i, p2pkh_locking_script(pkh(ins[i].coin[1])), sources)
    IN [tx EXCEPT !.inputs = [i \in DOMAIN ins |->
           IF ins[i].coin = <<>> THEN @[i]
           ELSE [@[i] EXCEPT !.unlock_script = CoinUnlock(ins[i].coin[1], digest(i))]]]

fee_of(draft) == Size(encode_tx(draft)) + 1
Encoded(tx, fee) == <<[tx |-> tx, raw |-> encode_tx(tx), fee |-> fee]>>

(* Output i gets what is left; then the coins sign, and the transaction is encoded. *)
Finish(draft, ins, i, left, fee) ==
    Encoded(sign_p2pkh_inputs([draft EXCEPT !.outputs[i].value = left], ins), fee)

(* The head goes to outputs[1], with all that fee and the other outputs leave, at least `least`. *)
SpendHead(ins, draft, others, least) ==
    LET fee == fee_of(draft)
    IN IF fee > fee_cap(Size(ins[1].unlock)) \/ Total(ins) < fee + others + least
       THEN Refused
       ELSE Finish(draft, ins, 1, Total(ins) - fee - others, fee)

-----------------------------------------------------------------------------
UpdateUnlock(table, placed, snapshot) ==
    push_data(LE(4, snapshot.price))
    \o push_data(Each(LAMBDA p : p.statement.sig, placed))
    \o push_data(Each(LAMBDA p : LE(4, p.statement.price), placed))
    \o push_data(Each(LAMBDA p : LE(1, p.row - 1), placed))
    \o push_data(LE(4, snapshot.ts))
    \o push_data(table_bytes(table))
    \o push_int(0)
    \o push_data(oracle_redeem)

NextSnapshot(head, placed) ==
    [ts |-> placed[1].statement.ts, seq |-> head.commit.snapshot.seq + 1, k |-> Len(placed),
     price |-> lower_median([i \in DOMAIN placed |-> placed[i].statement.price])]

UpdateInputs(head, unlock, recycled, topups) ==
    <<HeadInput(head, oracle_lock, unlock)>>
    \o [i \in DOMAIN recycled |-> TickerInput(recycled[i], head.category)]
    \o [i \in DOMAIN topups |-> CoinInput(topups[i])]

UpdateOutputs(head, snapshot) ==
    LET commit == CommitBytes([snapshot |-> snapshot, table_hash |-> head.commit.table_hash])
        ticker == Paid(TICKER_SATS, ticker_lock, Token(head.category, NO_CAPABILITY, SnapshotBytes(snapshot)))
    IN <<Paid(0, oracle_lock, Token(head.category, MINTING, commit))>>
       \o [i \in 1..TICKERS_PER_UPDATE |-> ticker]

UpdateFor(head, table, placed, snapshot, recycled, topups) ==
    LET ins == UpdateInputs(head, UpdateUnlock(table, placed, snapshot), recycled, topups)
        locktime == update_locktime(snapshot.ts, recycled)
    IN SpendHead(ins, Draft(ins, UpdateOutputs(head, snapshot), locktime),
                 TICKER_SATS * TICKERS_PER_UPDATE, 0)

UpdateWith(head, table, placed, recycled, topups) ==
    IF placed = Refused THEN Refused
    ELSE UpdateFor(head, table, placed, NextSnapshot(head, placed), recycled, topups)

build_update(head, table, statements, recycled, topups) ==
    UpdateWith(head, table, select_statements(head, table, statements), recycled, topups)

-----------------------------------------------------------------------------
(* An approval is [key, sig], of a rotation to next_lock with this tail. *)
place_approvals(table, hash, category_vm, next_lock, tail, approvals) ==
    LET rows == [i \in DOMAIN approvals |-> {r \in DOMAIN table : table[r].key = approvals[i].key}]
        approval(key) == Signature(key, approval_message(category_vm, hash, next_lock, tail))
        placed == [i \in DOMAIN approvals |-> [row |-> Min(rows[i]), sig |-> approvals[i].sig]]
    IN IF /\ check_table(table, hash)
          /\ \A i \in DOMAIN approvals : rows[i] # {} /\ approvals[i].sig = approval(approvals[i].key)
          /\ Cardinality({p.row : p \in ToSet(placed)}) = Len(approvals)
          /\ Len(approvals) * 2 > Len(table)
       THEN InOrder(ToSet(placed), [p \in ToSet(placed) |-> p.row])
       ELSE Refused

RotateUnlock(placed, table, redeem) ==
    push_data(Each(LAMBDA p : p.sig, placed))
    \o push_data(Each(LAMBDA p : LE(1, p.row - 1), placed))
    \o push_data(table_bytes(table))
    \o push_int(1)
    \o push_data(redeem)

(* The head under redeem and lock_in goes to next_lock with the commitment state ‖ tail. *)
rotate_generic(head, state, lock_in, redeem, table, placed, next_lock, tail, topups) ==
    LET ins == <<HeadInput(head, lock_in, RotateUnlock(placed, table, redeem))>>
               \o [i \in DOMAIN topups |-> CoinInput(topups[i])]
        output == Paid(0, next_lock, Token(head.category, MINTING, state \o tail))
    IN IF placed = Refused THEN Refused
       ELSE SpendHead(ins, Draft(ins, <<output>>, 0), 0, P2PKH_DUST)

build_rotate(head, table, next_lock, tail, approvals, topups) ==
    LET placed == place_approvals(table, head.commit.table_hash, Reversed(head.category),
                                  next_lock, tail, approvals)
    IN rotate_generic(head, Slice(head.raw, 0, SNAPSHOT_LEN), oracle_lock, oracle_redeem,
                      table, placed, next_lock, tail, topups)

(* Mutation: as a table change does it. *)
HashOnly(hash) == hash

(* Four bytes of filler: the table hash lands where v27 reads it, at 17..37. *)
migration_tail(hash) == LE(1, 0) \o LE(1, 0) \o LE(1, 0) \o LE(1, 0) \o hash

build_migration(head, table, approvals, topups) ==
    LET tail == migration_tail(head.commit.table_hash)
        placed == place_approvals(table, head.commit.table_hash, Reversed(head.category),
                                  oracle_lock, tail, approvals)
    IN rotate_generic(head, Slice(head.raw, 0, Legacy_SNAPSHOT_LEN), oracle26_lock, oracle26_redeem,
                      table, placed, oracle_lock, tail, topups)

(* All of some coins, into one output 0 of the same key (genesis.rs). *)
Merged(draft, ins) == Finish(draft, ins, 1, Total(ins) - fee_of(draft), fee_of(draft))

self_spend(coins) ==
    LET ins == [i \in DOMAIN coins |-> CoinInput(coins[i])]
        plain == Draft(ins, <<Paid(0, p2pkh_locking_script(pkh(coins[1])), <<>>)>>, 0)
    IN Merged([plain EXCEPT !.inputs = [i \in DOMAIN ins |-> [@[i] EXCEPT !.sequence = SEQUENCE_FINAL]]], ins)

(* The funding coin's txid becomes the category; the counter starts at 0. *)
GenesisOutputs(funding, hash, reserve, snapshot) ==
    LET commit == CommitBytes([snapshot |-> snapshot, table_hash |-> hash])
    IN <<Paid(reserve, oracle_lock, Token(funding.outpoint.txid, MINTING, commit)),
         Paid(0, p2pkh_locking_script(pkh(funding)), <<>>)>>

Funded(draft, funding, reserve) ==
    LET fee == fee_of(draft)
    IN IF funding.outpoint.vout # 0 \/ funding.value < reserve + fee + P2PKH_DUST
       THEN Refused
       ELSE Finish(draft, <<CoinInput(funding)>>, 2, funding.value - reserve - fee, fee)

build_genesis(funding, hash, reserve, initial_ts) ==
    LET snapshot == [ts |-> initial_ts, seq |-> 0, price |-> 0, k |-> 0]
    IN Funded(Draft(<<CoinInput(funding)>>, GenesisOutputs(funding, hash, reserve, snapshot), 0),
              funding, reserve)
=============================================================================
