------------------------------- MODULE Network -------------------------------
(***************************************************************************)
(* The other side of the builder's bytes: how a node reads a transaction,  *)
(* what the covenants of contracts/ make of the pushes in it, and the      *)
(* rules of consensus and relay that the builder counts on.  Nothing of    *)
(* Assemble is used here; the layout of a transaction and the rules of     *)
(* the network are external, from how tx/ and docs/ use them.              *)
(***************************************************************************)
EXTENDS Commit

-----------------------------------------------------------------------------
(* Reading.  What was read is a record [v, rest]; several things in a row are a tuple in v. *)

Bytes(bs, n) == [v |-> Upto(bs, n), rest |-> After(bs, n)]
As(Of(_), read) == [v |-> Of(read.v), rest |-> read.rest]
Number(bs, width) == As(Num, Bytes(bs, width))

From(bs) == [v |-> <<>>, rest |-> bs]
Adding(vs, item) == [v |-> Append(vs, item.v), rest |-> item.rest]
Then(read, Item(_)) == Adding(read.v, Item(read.rest))

U8(bs) == Number(bs, 1)
U32(bs) == Number(bs, 4)
U64(bs) == Number(bs, 8)
Id(bs) == Bytes(bs, 32)

LongForm(first) ==
    CASE first.v = 253 -> Number(first.rest, 2)
      [] first.v = 254 -> Number(first.rest, 4)
      [] OTHER -> first
Varint(bs) == LongForm(U8(bs))

OfLength(len) == Bytes(len.rest, len.v)
VarBytes(bs) == OfLength(Varint(bs))

(* Item after item, as many as the count in front says. *)
Several(Item(_), count) ==
    LET read[i \in 0..count.v] == IF i = 0 THEN From(count.rest) ELSE Then(read[i - 1], Item)
    IN read[count.v]
Counted(Item(_), bs) == Several(Item, Varint(bs))

InputOf(f) ==
    [prev |-> [txid |-> Reversed(f[1]), vout |-> f[2]], unlock_script |-> f[3], sequence |-> f[4]]
Input(bs) == As(InputOf, Then(Then(Then(Then(From(bs), Id), U32), VarBytes), U32))

(* 0xef, category, bits: 64 a commitment follows, 32 there is an NFT, 16 an amount follows. *)
IfBit(read, bit, Item(_), none) ==
    IF (read.v[2] \div bit) % 2 = 1 THEN Then(read, Item)
                                    ELSE Adding(read.v, [v |-> none, rest |-> read.rest])
TokenFrom(f) == [category |-> f[1], capability |-> f[2] % 16, commitment |-> f[3], amount |-> f[4]]
TokenOf(script) ==
    As(TokenFrom,
       IfBit(IfBit(Then(Then(From(After(script, 1)), Id), U8), 64, VarBytes, <<>>), 16, Varint, 0))

Holding(value, token) == [value |-> value, locking_script |-> token.rest, token |-> <<token.v>>]
OutputOf(f) ==
    IF Upto(f[2], 1) = LE(1, 239) THEN Holding(f[1], TokenOf(f[2]))
    ELSE [value |-> f[1], locking_script |-> f[2], token |-> <<>>]
Output(bs) == As(OutputOf, Then(Then(From(bs), U64), VarBytes))

Inputs(bs) == Counted(Input, bs)
Outputs(bs) == Counted(Output, bs)
TxOf(f) == [version |-> f[1], inputs |-> f[2], outputs |-> f[3], locktime |-> f[4]]

(* The transaction, and what is left over. *)
Read(bs) == As(TxOf, Then(Then(Then(Then(From(bs), U32), Inputs), Outputs), U32))

(* The items an unlocking script pushes; one push in a longer form than needed fails it. *)
Failed == [v |-> Piece(0, "failed", <<>>), rest |-> <<>>]

PushLength(op) ==
    CASE op.v = 76 -> U8(op.rest)
      [] op.v = 77 -> Number(op.rest, 2)
      [] OTHER -> op
Minimal(op, len) ==
    CASE op.v = 76 -> len.v \in 76..255
      [] op.v = 77 -> len.v > 255
      [] OTHER -> op.v \in 0..75 \cup 81..96
Pushed(op, len) ==
    CASE ~Minimal(op, len) -> Failed
      [] Minimal(op, len) /\ op.v = 0 -> From(op.rest)
      [] Minimal(op, len) /\ op.v \in 81..96 -> [v |-> LE(1, op.v - 80), rest |-> op.rest]
      [] Minimal(op, len) /\ op.v \in 1..77 -> OfLength(len)
PushedBy(op) == Pushed(op, PushLength(op))
Push(bs) == PushedBy(U8(bs))

More(read) == IF read.rest = <<>> THEN read ELSE Then(read, Push)
Items(script) ==
    LET read[i \in 0..Len(script)] == IF i = 0 THEN From(script) ELSE More(read[i - 1])
    IN read[Len(script)].v

-----------------------------------------------------------------------------
(* contracts/: the arguments come in reverse, then the function's number, then the script.  *)
(* spends[i] is the output that input i spends.                                             *)

checkDataSig(sig, msg, key) == sig = Signature(key[1][3], msg)

Byte(bs, i) == Num(Slice(bs, i, 1))
Ascending(rows) == \A j \in 1..(Size(rows) - 1) : Byte(rows, j - 1) < Byte(rows, j)
Key(table, r) == Slice(table, 34 * r, 33)
Sum(outputs) == MapThenSumSet(LAMBDA i : outputs[i].value, DOMAIN outputs)
Commitment(o) == o.token[1].commitment
(* What a covenant's tx.time needs: a timestamp, in a transaction it is enforced in. *)
TimeLocked(tx) ==
    /\ tx.locktime >= 500000000
    /\ \A i \in DOMAIN tx.inputs : tx.inputs[i].sequence # SEQUENCE_FINAL

Category(o) == [category |-> o.token[1].category, capability |-> o.token[1].capability]

OracleUpdate(tx, spends, args) ==
    LET k == Size(args.rows)
        price == [j \in 1..k |-> Num(Slice(args.prices, 4 * (j - 1), 4))]
        lower == Cardinality({j \in 1..k : price[j] < Num(args.median)})
        upper == Cardinality({j \in 1..k : price[j] > Num(args.median)})
        state == Upto(Commitment(spends[1]), 17)
        tableHash == After(Commitment(spends[1]), 17)
        sequence == LE(4, Num(Slice(state, 8, 4)) + 1)
        row == [j \in 1..k |-> Byte(args.rows, j - 1)]
        said == [j \in 1..k |-> LE(1, 78) \o Slice(args.table, 34 * row[j] + 33, 1) \o args.ts
                                \o Slice(args.prices, 4 * (j - 1), 4)]
        snapshot == args.ts \o sequence \o sequence \o args.median \o LE(1, k)
        ticker == [value |-> 792, locking_script |-> ticker_lock,
                   token |-> <<[category |-> spends[1].token[1].category, capability |-> NO_CAPABILITY,
                                commitment |-> snapshot, amount |-> 0]>>]
    IN /\ Size(args.ts) = 4 /\ Size(args.median) = 4 /\ k >= 7
       /\ lower <= (k - 1) \div 2 /\ upper <= k \div 2 /\ lower + upper < k
       /\ hash160(args.table) = tableHash
       /\ Num(args.ts) > Num(Slice(state, 0, 4))
       /\ TimeLocked(tx) /\ tx.locktime >= Num(args.ts) - 21600
       /\ Ascending(args.rows)
       /\ \A j \in 1..k : checkDataSig(Slice(args.sigs, 64 * (j - 1), 64), said[j], Key(args.table, row[j]))
       /\ Len(tx.outputs) = 3 /\ tx.outputs[2] = ticker /\ tx.outputs[3] = ticker
       /\ tx.outputs[1].locking_script = spends[1].locking_script
       /\ Category(tx.outputs[1]) = Category(spends[1])
       /\ Commitment(tx.outputs[1]) = snapshot \o tableHash
       /\ tx.outputs[1].value >= Sum(spends) - 2584 - 2 * Size(tx.inputs[1].unlock_script)

(* The state is 17 bytes here and 13 in v26. *)
OracleRotate(tx, spends, args, stateLen) ==
    LET state == Upto(Commitment(spends[1]), stateLen)
        tableHash == After(Commitment(spends[1]), stateLen)
        nextState == Upto(Commitment(tx.outputs[1]), stateLen)
        tail == After(Commitment(tx.outputs[1]), stateLen)
        approval == LE(1, 82) \o spends[1].token[1].category \o tableHash
                    \o tx.outputs[1].locking_script \o tail
        k == Size(args.rows)
    IN /\ hash160(args.table) = tableHash
       /\ k * 2 > Size(args.table) \div 34
       /\ Len(tx.outputs) = 1
       /\ Category(tx.outputs[1]) = Category(spends[1])
       /\ nextState = state
       /\ Ascending(args.rows)
       /\ \A j \in 1..k : checkDataSig(Slice(args.sigs, 64 * (j - 1), 64), approval,
                                       Key(args.table, Byte(args.rows, j - 1)))
       /\ tx.outputs[1].value >= Sum(spends) - 1000 - 2 * Size(tx.inputs[1].unlock_script)

(* The function that the items call, on its arguments. *)
OracleCall(tx, spends, items, stateLen) ==
    LET n == Len(items)
    IN /\ n \in {5, 8}
       /\ spends[1].locking_script = p2sh32_locking_script(items[n])
       /\ \/ /\ n = 8 /\ stateLen = 17 /\ items[7] = <<>>
             /\ OracleUpdate(tx, spends, [median |-> items[1], sigs |-> items[2], prices |-> items[3],
                                          rows |-> items[4], ts |-> items[5], table |-> items[6]])
          \/ /\ n = 5 /\ items[4] = LE(1, 1)
             /\ OracleRotate(tx, spends, [sigs |-> items[1], rows |-> items[2], table |-> items[3]], stateLen)

OracleAllows(tx, spends, i, stateLen) ==
    i = 1 /\ OracleCall(tx, spends, Items(tx.inputs[1].unlock_script), stateLen)

(* recycle: only beside the category's minting head, and late enough by chain time. *)
TickerAllows(tx, spends, i, due) ==
    /\ Items(tx.inputs[i].unlock_script) = <<LE(1, 1)>>
    /\ Category(spends[1]) = [category |-> spends[i].token[1].category, capability |-> MINTING]
    /\ TimeLocked(tx) /\ tx.locktime >= due

TickerDue(o) == Num(Slice(Commitment(o), 0, 4)) + 86400
Ticker26Due(o) == 60 * Num(Slice(Commitment(o), 0, 4)) + 3600

-----------------------------------------------------------------------------
(* Consensus and relay. *)

(* A coin's input: the key of its lock, and that key's signature over the transaction as read. *)
SignedBy(items, lock, digest) ==
    /\ Len(items) = 2
    /\ lock = p2pkh_locking_script(hash160(items[2]))
    /\ items[1] = Signature(items[2][1][3], digest) \o LE(1, SIGHASH_ALL_UTXOS_FORKID)

KeyAllows(tx, spends, i) ==
    SignedBy(Items(tx.inputs[i].unlock_script), spends[i].locking_script,
             sighash_digest(tx, i, spends[i].locking_script, spends))

InputAllowed(tx, spends, i) ==
    LET lock == spends[i].locking_script
    IN CASE lock = oracle_lock -> OracleAllows(tx, spends, i, 17)
         [] lock = oracle26_lock -> OracleAllows(tx, spends, i, 13)
         [] lock = ticker_lock -> TickerAllows(tx, spends, i, TickerDue(spends[i]))
         [] lock = ticker26_lock -> TickerAllows(tx, spends, i, Ticker26Due(spends[i]))
         [] OTHER -> KeyAllows(tx, spends, i)

(* A category is minted by its minting NFT, or made by an input that spends output 0 of its txid. *)
MayMint(tx, spends, category) ==
    \/ \E i \in DOMAIN spends : \E t \in ToSet(spends[i].token) :
          t.category = category /\ t.capability = MINTING
    \/ \E i \in DOMAIN tx.inputs :
          tx.inputs[i].prev.vout = 0 /\ Reversed(tx.inputs[i].prev.txid) = category

(* Three times what an output and the input that spends it take. *)
DustFloor(o) == 3 * (Size(OutputBytes(o)) + 148)

Fits(read, spends, mtp, size) ==
    LET tx == read.v
    IN /\ read.rest = <<>>
       /\ Len(tx.inputs) = Len(spends)
       /\ \A i \in DOMAIN spends :
             InputAllowed(tx, spends, i) /\ Size(tx.inputs[i].unlock_script) <= 10000
       /\ \A o \in ToSet(tx.outputs) :
             /\ o.value >= DustFloor(o)
             /\ \A t \in ToSet(o.token) : MayMint(tx, spends, t.category) /\ Size(t.commitment) <= 128
       /\ tx.locktime < mtp
       /\ Sum(spends) - Sum(tx.outputs) >= size

Accepts(raw, spends, mtp) == Fits(Read(raw), spends, mtp, Size(raw))
=============================================================================
