-------------------------------- MODULE Wire --------------------------------
(***************************************************************************)
(* Transactions and scripts as bytes (tx/encode.rs, tx/script.rs), and     *)
(* what a transaction signature signs (tx/sighash.rs).                     *)
(*                                                                         *)
(* A byte string is a sequence of pieces <<width, kind, content>>.         *)
(* Numbers, opcodes, prefixes, counts and lengths are the real ones; a     *)
(* key, a signature, a hash or compiled code is one piece of its width.    *)
(***************************************************************************)
EXTENDS Integers, SequencesExt

Piece(width, kind, content) == <<<<width, kind, content>>>>
LE(width, n) == Piece(width, "number", n)           \* to_le_bytes, below 2^31
double_sha256(bs) == Piece(32, "sha256d", bs)       \* no two texts share a hash
hash160(bs) == Piece(20, "hash160", bs)

(* A txid or category in the order it is displayed in; on the wire it is reversed. *)
Display(name) == Piece(32, "id", <<name, "display">>)
Reversed(id) ==
    LET other == IF id[1][3][2] = "display" THEN "wire" ELSE "display"
    IN Piece(32, "id", <<id[1][3][1], other>>)

(* Where each piece ends, and the whole. *)
Ends(bs) ==
    LET end[i \in 0..Len(bs)] == IF i = 0 THEN 0 ELSE end[i - 1] + bs[i][1]
    IN end
Size(bs) == Ends(bs)[Len(bs)]

Each(Op(_), s) == FlattenSeq([i \in DOMAIN s |-> Op(s[i])])

(* Sequence numbers are u32, written here as signed: 0xffff_ffff is -1. *)
SEQUENCE_FINAL == -1
SEQUENCE_TIMELOCK == -2
MINTING == 2          \* MINTING_CAPABILITY
NO_CAPABILITY == 0

-----------------------------------------------------------------------------
(* tx/script.rs *)

(* A push of at most 75 bytes is preceded by its length; none is the opcode 0. *)
LengthPrefix(len) ==
    CASE len <= 75 -> LE(1, len)
      [] len >= 76 /\ len <= 255 -> LE(1, 76) \o LE(1, len)
      [] len >= 256 /\ len <= 65535 -> LE(1, 77) \o LE(2, len)
      [] len > 65535 -> LE(1, 78) \o LE(4, len)

push_data(data) ==
    LET b == data[1][3]
    IN CASE Size(data) = 1 /\ b = 129 -> LE(1, 79)
         [] Size(data) = 1 /\ b \in 1..16 -> LE(1, 80 + b)
         [] OTHER -> LengthPrefix(Size(data)) \o data

push_int(n) == IF n = 0 THEN LE(1, 0) ELSE push_data(LE(1, n))   \* the selectors, 0 and 1

p2pkh_locking_script(pkh) == LE(1, 118) \o LE(1, 169) \o LE(1, 20) \o pkh \o LE(1, 136) \o LE(1, 172)
p2sh32_locking_script(redeem) == LE(1, 170) \o LE(1, 32) \o double_sha256(redeem) \o LE(1, 135)

-----------------------------------------------------------------------------
(* tx/encode.rs.  An output's token is a sequence of at most one prefix.    *)

encode_varint(n) ==
    CASE n < 253 -> LE(1, n)
      [] n >= 253 /\ n <= 65535 -> LE(1, 253) \o LE(2, n)
      [] n > 65535 -> LE(1, 254) \o LE(4, n)

WithLength(bs) == encode_varint(Size(bs)) \o bs

encode_token_prefix(t) ==
    LET commits == t.commitment # <<>>
        nft == IF t.capability # NO_CAPABILITY \/ commits THEN 32 + t.capability ELSE 0
        bits == nft + (IF commits THEN 64 ELSE 0) + (IF t.amount > 0 THEN 16 ELSE 0)
    IN LE(1, 239) \o t.category \o LE(1, bits)
       \o (IF commits THEN WithLength(t.commitment) ELSE <<>>)
       \o (IF t.amount > 0 THEN encode_varint(t.amount) ELSE <<>>)

output_script_bytes(o) == Each(encode_token_prefix, o.token) \o o.locking_script
OutputBytes(o) == LE(8, o.value) \o WithLength(output_script_bytes(o))

OutpointBytes(p) == Reversed(p.txid) \o LE(4, p.vout)

InputBytes(x) ==
    OutpointBytes(x.prev) \o WithLength(x.unlock_script) \o LE(4, x.sequence)

encode_tx(tx) ==
    LE(4, tx.version)
    \o encode_varint(Len(tx.inputs)) \o Each(InputBytes, tx.inputs)
    \o encode_varint(Len(tx.outputs)) \o Each(OutputBytes, tx.outputs)
    \o LE(4, tx.locktime)

-----------------------------------------------------------------------------
(* tx/sighash.rs, for 0x61 = ALL | UTXOS | FORKID, the one type in use.     *)

SIGHASH_ALL_UTXOS_FORKID == 97

(* What input i signs; sources[j] is the output that input j spends. *)
sighash_preimage(tx, i, script_code, sources) ==
    LET prevouts == Each(LAMBDA x : OutpointBytes(x.prev), tx.inputs)
        sequences == Each(LAMBDA x : LE(4, x.sequence), tx.inputs)
    IN LE(4, tx.version)
       \o double_sha256(prevouts)
       \o double_sha256(Each(OutputBytes, sources))
       \o double_sha256(sequences)
       \o OutpointBytes(tx.inputs[i].prev)
       \o Each(encode_token_prefix, sources[i].token)
       \o WithLength(script_code)
       \o LE(8, sources[i].value) \o LE(4, tx.inputs[i].sequence)
       \o double_sha256(Each(OutputBytes, tx.outputs))
       \o LE(4, tx.locktime) \o LE(4, SIGHASH_ALL_UTXOS_FORKID)

sighash_digest(tx, i, script_code, sources) ==
    double_sha256(sighash_preimage(tx, i, script_code, sources))
=============================================================================
