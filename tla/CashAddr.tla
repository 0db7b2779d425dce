------------------------------ MODULE CashAddr ------------------------------
(***************************************************************************)
(* Addresses (tx/cashaddr.rs): what is printed, and what is made of an     *)
(* address an operator types.                                              *)
(*                                                                         *)
(* A text is a record [prefix, body]; a character of the body is its       *)
(* number 0..31 in the alphabet, any other character is 32.  (A character  *)
(* outside ASCII counts by its low byte.)  The 40 bits of the checksum are *)
(* eight such symbols, the high one first.                                 *)
(***************************************************************************)
EXTENDS Integers, SequencesExt

Prefix == {"bitcoincash", "bchtest"}    \* AddressPrefix
NotInAlphabet == 32

(* The low five bits of each character of a prefix. *)
PrefixSymbols ==
    [bitcoincash |-> <<2, 9, 20, 3, 15, 9, 14, 3, 1, 19, 8>>,
     bchtest |-> <<2, 3, 8, 20, 5, 19, 20>>]

Generator ==
    <<<<19, 3, 25, 11, 25, 3, 19, 1>>,
      <<15, 6, 27, 22, 27, 6, 15, 2>>,
      <<30, 12, 31, 5, 31, 12, 30, 4>>,
      <<21, 24, 23, 10, 23, 24, 21, 8>>,
      <<3, 25, 7, 20, 7, 25, 3, 16>>>>

Bit(n, i) == (n \div 2^i) % 2 = 1
FromBits(set) == MapThenSumSet(LAMBDA i : 2^i, set)
Xor5 == [a \in 0..31 |-> [b \in 0..31 |-> FromBits({i \in 0..4 : Bit(a, i) # Bit(b, i)})]]
Plus(c, d) == [i \in 1..8 |-> Xor5[c[i]][d[i]]]
Zero == [i \in 1..8 |-> 0]
One == [i \in 1..8 |-> IF i = 8 THEN 1 ELSE 0]

(* The sum of the generators that are chosen. *)
Generators(chosen) ==
    LET sum[g \in 0..5] == IF g = 0 THEN Zero
                           ELSE IF g \in chosen THEN Plus(sum[g - 1], Generator[g]) ELSE sum[g - 1]
    IN sum[5]

(* Mutation: the bits are taken from the other end. *)
FeedbackReversed == [out \in 0..31 |-> Generators({g \in 1..5 : Bit(out, 5 - g)})]

(* What each value of the symbol that is shifted out adds: a generator for each bit set. *)
Feedback == [out \in 0..31 |-> Generators({g \in 1..5 : Bit(out, g - 1)})]

(* The symbols move up by one, the next comes in below. *)
Shifted(c, value) ==
    LET moved == [i \in 1..8 |-> IF i = 8 THEN value ELSE c[i + 1]]
    IN IF c[1] = 0 THEN moved ELSE Plus(moved, Feedback[c[1]])

polymod(values) ==
    LET c[i \in 0..Len(values)] == IF i = 0 THEN One ELSE Shifted(c[i - 1], values[i])
    IN c[Len(values)]

(* Regroups the bits of data; what does not fill a group is padded or dropped. *)
convert_bits(data, from, to, pad) ==
    LET count == from * Len(data)
        bit(i) == i < count /\ Bit(data[i \div from + 1], from - 1 - (i % from))
        groups == (count + (IF pad THEN to - 1 ELSE 0)) \div to
        Group(first) ==
            LET value[i \in 0..to] ==
                    IF i = 0 THEN 0 ELSE 2 * value[i - 1] + (IF bit(first + i - 1) THEN 1 ELSE 0)
            IN value[to]
    IN [g \in 1..groups |-> Group(to * (g - 1))]

size_code(len) ==
    CASE len \in {20, 24, 28, 32} -> (len - 20) \div 4
      [] len \in {40, 48, 56, 64} -> (len - 40) \div 8 + 4
      [] OTHER -> 0

encode_cashaddr(version_byte, hash, prefix) ==
    LET size == size_code(Len(hash))
        payload == <<FromBits({i \in 0..7 : Bit(version_byte, i) \/ Bit(size, i)})>> \o hash
        data5 == convert_bits(payload, 8, 5, TRUE)
        checksum == polymod(PrefixSymbols[prefix] \o <<0>> \o data5 \o Zero)
    IN [prefix |-> prefix, body |-> data5 \o Plus(checksum, One)]

encode_p2pkh_cashaddr(pkh, prefix) == encode_cashaddr(0, pkh, prefix)
encode_p2sh32_cashaddr(hash, prefix) == encode_cashaddr(11, hash, prefix)

(* The 20 bytes of the key hash, or <<>> when the text is refused. *)
decode_p2pkh_cashaddr(text, expected) ==
    LET body == text.body
        payload == convert_bits(SubSeq(body, 1, Len(body) - 8), 5, 8, FALSE)
    IN IF /\ text.prefix = expected
          /\ \A i \in DOMAIN body : body[i] # NotInAlphabet
          /\ Len(body) >= 8
          /\ polymod(PrefixSymbols[text.prefix] \o <<0>> \o body) = One
          /\ Len(payload) >= 21
          /\ payload[1] \in {0, 16}
       THEN SubSeq(payload, 2, 21)
       ELSE <<>>
=============================================================================
