----------------------------- MODULE MCSpending -----------------------------
EXTENDS Spending

T0 == 1792200000                       \* 2026-10-17, minute 29870000

Rows(sources) == [i \in DOMAIN sources |-> [key |-> <<"row", sources[i]>>, source |-> sources[i]]]
MCFirstTable == Rows([i \in 1..7 |-> i])
MCTable == {MCFirstTable, Rows([i \in 1..13 |-> 17 - i]), Rows([i \in 1..16 |-> i])}
MCPriceOf == [s \in 1..16 |-> 45000 + 10 * ((7 * s) % 11)]

Funding(n, vout, value) ==
    [outpoint |-> [txid |-> Display(n), vout |-> vout],
     out |-> Paid(value, p2pkh_locking_script(hash160(Piece(33, "key", "op"))), <<>>)]

Fresh == {Funding(0, 0, 150000)}
Scattered == {Funding(-3, 1, 60000), Funding(-4, 1, 50000), Funding(-5, 0, 3000)}

(* A v26 head of 272,570,000,00 units of 1e-8 dollars, and two of its Tickers. *)
Snap26(seq) == [seq |-> seq, price |-> [low |-> 1487196224, high |-> 6], k |-> 7]
Old(n, value, lock, capability, commitment) ==
    [outpoint |-> [txid |-> Display(-1), vout |-> n],
     out |-> Paid(value, lock, Token(Display(-2), capability, commitment))]
V26 ==
    {Old(0, 90000, oracle26_lock, MINTING,
         Commit26Bytes([snapshot |-> Snap26(29870000), table_hash |-> table_hash(MCFirstTable)])),
     Old(1, 786, ticker26_lock, NO_CAPABILITY, Snapshot26Bytes(Snap26(29869999))),
     Old(2, 1786, ticker26_lock, NO_CAPABILITY, Snapshot26Bytes(Snap26(29870000))),
     Funding(-3, 0, 5000)}
MCStart == {Fresh, Scattered, V26}

(* Each life ends between two moments: at it nothing may be taken yet. *)
MCMoments ==
    <<[now |-> T0 + 75, mtp |-> T0 - 3600],
      [now |-> T0 + 4215, mtp |-> T0 + 3540],
      [now |-> T0 + 4275, mtp |-> T0 + 3541],
      [now |-> T0 + 86460 + 4000, mtp |-> T0 + 86460],
      [now |-> T0 + 86460 + 4060, mtp |-> T0 + 86461]>>

(* Of the CashAddr specification: the key address and the script address of one hash. *)
MCAddress ==
    {[text |-> [prefix |-> "bitcoincash",
                body |-> <<0, 1, 27, 10, 0, 16, 2, 19, 23, 22, 16, 10, 17, 2, 30, 26, 10, 5, 27, 27, 16,
                           26, 16, 21, 24, 14, 25, 9, 30, 21, 12, 24, 14, 12, 4, 10, 10, 8, 13, 6, 26, 29>>],
      hash |-> <<118, 160, 64, 83, 189, 160, 168, 139, 218, 81, 119, 184, 106, 21, 195, 178, 159, 85, 152, 115>>]}
MCOther ==
    {[prefix |-> "bitcoincash",
      body |-> <<1, 1, 27, 10, 0, 16, 2, 19, 23, 22, 16, 10, 17, 2, 30, 26, 10, 5, 27, 27, 16, 26, 16, 21, 24,
                 14, 25, 9, 30, 21, 12, 24, 14, 12, 19, 15, 23, 7, 10, 5, 1, 0>>]}

(* The address of the head on the test network, and the hash in its lock. *)
MCHeadAddress ==
    [text |-> [prefix |-> "bchtest",
               body |-> <<1, 14, 20, 31, 19, 16, 29, 28, 30, 5, 15, 17, 31, 26, 11, 26, 20, 7, 6, 11, 28,
                          4, 31, 10, 14, 31, 5, 31, 14, 31, 29, 21, 25, 23, 8, 15, 4, 3, 14, 30, 19, 1,
                          28, 24, 23, 6, 21, 10, 24, 3, 20, 7, 8, 6, 14, 29, 22, 5, 10, 2, 28>>],
     hash |-> <<169, 249, 195, 188, 241, 95, 31, 233, 122, 161, 204, 190, 19, 234, 119, 203, 247, 127,
                181, 205, 208, 242, 13, 222, 152, 121, 139, 154, 170, 192, 232, 116>>]
=============================================================================
