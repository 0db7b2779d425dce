----------------------------- MODULE Governance -----------------------------
(***************************************************************************)
(* The operators' side of governance: `ticker-node genesis`, `rotate` and  *)
(* `migrate`, the manifest.json they keep, the approvals rows sign with    *)
(* `ticker-notary sign-rotate`, and the heads on chain, among them that of *)
(* a deployment of v26, the release before.  Commands stop at any point:   *)
(* killed, refused, or without the answer to a broadcast.                  *)
(*                                                                         *)
(* One command runs in a home at a time; homes run theirs concurrently,    *)
(* with updates in between.  A table is its hash, a signature the fact     *)
(* that it was given.  The sats of coins are in coarse units: fees round   *)
(* to nothing.  No approval given before this release is outstanding.      *)
(***************************************************************************)
EXTENDS Integers, Sequences, FiniteSetsExt

CONSTANTS
    Home,          \* the operators' home directories
    Key,           \* notary keys
    Loyal,         \* keys whose operators never approve a table that was used before
    Table,         \* the tables of genesis.json and of table files
    GenesisTable,  \* the one in each home's genesis.json
    FirstCoins,    \* each operator key's coins at first
    FirstTx,       \* transactions that made them
    OldHome,       \* homes with the manifest.json of a v26 deployment,
    OldCat,        \* its category
    OldTable,      \* and its table
    Need,          \* what a genesis takes: --reserve plus 2000
    MaxFaults,     \* bound on commands that stop early
    MaxSpent       \* bound on how often heads are made or spent

Majorities(table) == {rows \in SUBSET DOMAIN table : Cardinality(rows) * 2 > Len(table)}

ASSUME GovernanceAssumption ==
    /\ Loyal \subseteq Key
    /\ Table \subseteq Seq(Key) /\ <<>> \notin Table
    /\ GenesisTable \in [Home -> Table]
    /\ FirstTx \in Nat
    /\ FirstCoins \in [Home -> SUBSET [id: 1..FirstTx, first: BOOLEAN, sats: Nat]]
    /\ \A g, h \in Home : \A c \in FirstCoins[g], d \in FirstCoins[h] :
          c.id = d.id => c = d /\ g = h
    /\ OldHome \subseteq Home /\ OldTable \in Table /\ OldCat \in 1..FirstTx
    /\ \A h \in Home : \A c \in FirstCoins[h] : c.id # OldCat
    /\ Need \in Nat \ {0} /\ MaxFaults \in Nat /\ MaxSpent \in Nat

(* The rule of operation is kept by at least one row of every majority. *)
ASSUME LoyaltyAssumption ==
    \A t \in Table : \A rows \in Majorities(t) : \E r \in rows : t[r] \in Loyal

VARIABLES
    heads,      \* the minting NFT of each category: its lock, table, the length of its
                \* commitment, how often it was spent, and (history) the tables it had
    txs,        \* transactions that made coins so far: a coin's id is the one it came from
    coins,      \* each operator key's coins, [id, first, sats]; first: it is output 0
    approvals,  \* what loyal keys have signed, [by, cat, old, next]
    file,       \* each home's manifest.json
    cmd,        \* the command running in each home
    pick,       \* the coins it has picked
    printed,    \* history: the category --prepare last printed in each home (0: none)
    faults      \* commands stopped early so far

vars == <<heads, txs, coins, approvals, file, cmd, pick, printed, faults>>

(* Where approvals send a head: its next lock and the tail of its commitment, which is the hash   *)
(* of a table, after four filler bytes (pad) in a migration, and nothing in a retirement.         *)
Place == [lock: {"oracle"}, table: Table, pad: BOOLEAN] \cup
         {[lock |-> "p2pkh", table |-> <<>>, pad |-> FALSE]}
Retired == [lock |-> "p2pkh", table |-> <<>>, pad |-> FALSE]
At27(t) == [lock |-> "oracle", table |-> t, pad |-> FALSE]

StateLen(lock) == IF lock = "oracle26" THEN 13 ELSE 17
TailLen(next) == (IF next.pad THEN 4 ELSE 0) + (IF next.lock = "oracle" THEN 20 ELSE 0)

(* Either covenant takes what follows its state for the table hash. *)
Readable(head) == head.lock # "p2pkh" /\ head.len = StateLen(head.lock) + 20

NoFile == [state |-> "none", version |-> 27, cat |-> 0, table |-> <<>>]
TornFile == [state |-> "torn", version |-> 27, cat |-> 0, table |-> <<>>]
Manifest(v, c, t) == [state |-> "whole", version |-> v, cat |-> c, table |-> t]

Idle == [pc |-> "idle", prepare |-> FALSE, cat |-> 0, old |-> <<>>,
         next |-> Retired, spent |-> 0]

At(h, pc) == cmd[h].pc = pc
Go(h, c) == cmd' = [cmd EXCEPT ![h] = c]
Lost == faults < MaxFaults /\ faults' = faults + 1

Sats(S) == MapThenSumSet(LAMBDA c : c.sats, S)

-----------------------------------------------------------------------------
(* genesis *)

(* Mutation: an existing manifest.json is overwritten. *)
MayAlwaysStart(h) == TRUE
MayStart(h) == file[h] = NoFile

StartGenesis(h, prepare) ==
    /\ At(h, "idle") /\ MayStart(h)
    /\ Go(h, [Idle EXCEPT !.pc = "coins", !.prepare = prepare])
    /\ UNCHANGED <<heads, txs, coins, approvals, file, pick, printed, faults>>

Largest(S) == {c \in S : \A d \in S : d.sats <= c.sats}

(* Mutations: a fresh output 0 is made every time; a coin's worth is not looked at. *)
NoFunding(h) == {}
AnyFirst(h) == Largest({c \in coins[h] : c.first})
Funding(h) == Largest({c \in coins[h] : c.first /\ c.sats >= Need})

(* The largest coins, as few as cover the genesis and the self-spend itself. *)
ToMerge(h) ==
    {S \in SUBSET coins[h] :
        /\ Sats(S) > Need
        /\ \A c \in S, d \in coins[h] \ S : d.sats <= c.sats
        /\ \E c \in S : Sats(S \ {c}) <= Need /\ \A d \in S : c.sats <= d.sats}

HasCoin(h) == IF cmd[h].prepare THEN "print" ELSE "mint"

FindCoins(h) ==
    /\ At(h, "coins")
    /\ \/ \E c \in Funding(h) :
            Go(h, [cmd[h] EXCEPT !.pc = HasCoin(h)]) /\ pick' = [pick EXCEPT ![h] = {c}]
       \/ /\ Funding(h) = {}
          /\ \E S \in ToMerge(h) :
               Go(h, [cmd[h] EXCEPT !.pc = "split"]) /\ pick' = [pick EXCEPT ![h] = S]
       \/ Funding(h) = {} /\ ToMerge(h) = {} /\ Go(h, Idle) /\ UNCHANGED pick
    /\ UNCHANGED <<heads, txs, coins, approvals, file, printed, faults>>

SelfSpend(h) ==
    LET made == [id |-> txs + 1, first |-> TRUE, sats |-> Sats(pick[h])]
    IN  /\ At(h, "split")
        /\ txs' = txs + 1
        /\ coins' = [coins EXCEPT ![h] = (@ \ pick[h]) \cup {made}]
        /\ pick' = [pick EXCEPT ![h] = {made}]
        /\ Go(h, [cmd[h] EXCEPT !.pc = HasCoin(h)])
        /\ UNCHANGED <<heads, approvals, file, printed, faults>>

PrintCategory(h) ==
    /\ At(h, "print")
    /\ \E c \in pick[h] : printed' = [printed EXCEPT ![h] = c.id]
    /\ pick' = [pick EXCEPT ![h] = {}]
    /\ Go(h, Idle)
    /\ UNCHANGED <<heads, txs, coins, approvals, file, faults>>

FirstHead(lock, t) ==
    [lock |-> lock, table |-> t, len |-> StateLen(lock) + 20, used |-> {t}, spent |-> 0]

(* The category is the id of the coin spent; what is left comes back as output 1. *)
Mint(h) ==
    \E c \in pick[h] :
        /\ At(h, "mint")
        /\ heads' = [x \in DOMAIN heads \cup {c.id} |->
                       IF x = c.id THEN FirstHead("oracle", GenesisTable[h]) ELSE heads[x]]
        /\ txs' = txs + 1
        /\ coins' = [coins EXCEPT ![h] = (@ \ {c}) \cup
                                         {[id |-> txs + 1, first |-> FALSE, sats |-> c.sats - Need]}]
        /\ Go(h, [Idle EXCEPT !.pc = "write", !.cat = c.id,
                              !.next = At27(GenesisTable[h])])
        /\ pick' = [pick EXCEPT ![h] = {}]
        /\ UNCHANGED <<approvals, file, printed, faults>>

-----------------------------------------------------------------------------
(* approval-request, sign-rotate *)

(* plan(): any table but the manifest's, or retirement, both for a v27 manifest; or, whatever its *)
(* version, a migration.                                                                          *)
Plans(m) ==
    {p \in Place : IF p.pad THEN p.table = m.table ELSE m.version = 27 /\ p.table # m.table}

(* A loyal row signs what approval-request prints in some home, unless it changes the table for   *)
(* one used before; any other key has signed everything from the start.                           *)
SignApproval(k, h, next) ==
    LET m == file[h]
    IN  /\ m.state = "whole" /\ next \in Plans(m)
        /\ next.pad \/ next.table \notin heads[m.cat].used
        /\ approvals' = approvals \cup {[by |-> k, cat |-> m.cat, old |-> m.table, next |-> next]}
        /\ UNCHANGED <<heads, txs, coins, file, cmd, pick, printed, faults>>

(* Mutation: an approval does not bind the table it was given for. *)
SignedForAnyTable(k, c, old, next) ==
    k \in Loyal => \E a \in approvals : a.by = k /\ a.cat = c /\ a.next = next

(* Approval::verify, and the covenant's checkDataSig. *)
Signed(k, c, old, next) ==
    k \in Loyal => [by |-> k, cat |-> c, old |-> old, next |-> next] \in approvals

-----------------------------------------------------------------------------
(* rotate, migrate *)

(* rotate is for a manifest of version 27, migrate for one of 26. *)
StartRotate(h, next) ==
    /\ At(h, "idle")
    /\ file[h].state = "whole" /\ next \in Plans(file[h])
    /\ next.pad = (file[h].version = 26)
    /\ Go(h, [Idle EXCEPT !.pc = "head", !.cat = file[h].cat, !.old = file[h].table, !.next = next])
    /\ UNCHANGED <<heads, txs, coins, approvals, file, pick, printed, faults>>

(* What Oracle.rotate, the same in v26, asks of the rows whose approvals a transaction carries. *)
RotateAllowed(c, rows, next) ==
    /\ Readable(heads[c])
    /\ \A r \in rows : Signed(heads[c].table[r], c, heads[c].table, next)

(* place_approvals fails on one file that is no row's, repeats one or is for another move, though *)
(* a majority is there: the directory is the operator's, so it may always fail.                   *)
FindHead(h) ==
    LET j == cmd[h]
    IN  /\ At(h, "head")
        /\ \/ /\ heads[j.cat].lock = IF j.next.pad THEN "oracle26" ELSE "oracle"
              /\ heads[j.cat].table = j.old
              /\ \E rows \in Majorities(heads[j.cat].table) : RotateAllowed(j.cat, rows, j.next)
              /\ Go(h, [j EXCEPT !.pc = "send", !.spent = heads[j.cat].spent])
           \/ Go(h, Idle)
        /\ UNCHANGED <<heads, txs, coins, approvals, file, pick, printed, faults>>

(* Any other head is out of the covenants' hands; MaxSpent bounds the instance. *)
Spendable(c) ==
    /\ Readable(heads[c])
    /\ MapThenSumSet(LAMBDA x : heads[x].spent + 1, DOMAIN heads) <= MaxSpent

Moved(head, next) ==
    [lock |-> next.lock, table |-> next.table, len |-> StateLen(head.lock) + TailLen(next),
     used |-> head.used \cup {next.table}, spent |-> head.spent + 1]

(* Mutation: the file is rewritten whatever the server said. *)
RefusalIgnored(h) == Go(h, [cmd[h] EXCEPT !.pc = "write"])
Refused(h) == Go(h, Idle)

(* The transaction spends the head it was built on; all but a retirement then rewrite the file. *)
Broadcast(h) ==
    LET j == cmd[h]
    IN  /\ At(h, "send")
        /\ IF heads[j.cat].spent = j.spent
             THEN /\ Spendable(j.cat)
                  /\ heads' = [heads EXCEPT ![j.cat] = Moved(@, j.next)]
                  /\ Go(h, IF j.next.lock = "oracle" THEN [j EXCEPT !.pc = "write"] ELSE Idle)
             ELSE Refused(h) /\ UNCHANGED heads
        /\ UNCHANGED <<txs, coins, approvals, file, pick, printed, faults>>

(* genesis, rotate and migrate all end here. *)
WriteManifest(h) ==
    /\ At(h, "write")
    /\ file' = [file EXCEPT ![h] = Manifest(27, cmd[h].cat, cmd[h].next.table)]
    /\ Go(h, Idle)
    /\ UNCHANGED <<heads, txs, coins, approvals, pick, printed, faults>>

(* fs::write empties the file first. *)
TornWrite(h) ==
    /\ At(h, "write")
    /\ Lost
    /\ file' = [file EXCEPT ![h] = TornFile]
    /\ Go(h, Idle)
    /\ UNCHANGED <<heads, txs, coins, approvals, pick, printed>>

(* Killed, an error on the way, or no answer; after a broadcast the chain has moved all the same. *)
Stop(h) ==
    /\ ~At(h, "idle")
    /\ Lost
    /\ Go(h, Idle) /\ pick' = [pick EXCEPT ![h] = {}]
    /\ UNCHANGED <<heads, txs, coins, approvals, file, printed>>

Command(h) ==
    \/ \E prepare \in BOOLEAN : StartGenesis(h, prepare)
    \/ FindCoins(h) \/ SelfSpend(h) \/ PrintCategory(h) \/ Mint(h)
    \/ \E next \in Place : StartRotate(h, next)
    \/ FindHead(h) \/ Broadcast(h) \/ WriteManifest(h)
    \/ TornWrite(h) \/ Stop(h)

-----------------------------------------------------------------------------
(* What happens around the commands. *)

(* "rewrite manifest.json first": the operator restores the file from what the chain shows. *)
RewriteByHand(h, c) ==
    /\ At(h, "idle")
    /\ heads[c].lock # "p2pkh"
    /\ file[h].state = "whole" => file[h].cat = c
    /\ file' = [file EXCEPT ![h] =
                   Manifest(IF heads[c].lock = "oracle26" THEN 26 ELSE 27, c, heads[c].table)]
    /\ UNCHANGED <<heads, txs, coins, approvals, cmd, pick, printed, faults>>

(* Anybody may assemble approvals that were ever published. *)
AnyoneRotates(c, rows, next) ==
    /\ RotateAllowed(c, rows, next) /\ Spendable(c)
    /\ heads' = [heads EXCEPT ![c] = Moved(@, next)]
    /\ UNCHANGED <<txs, coins, approvals, file, cmd, pick, printed, faults>>

(* A builder posts. *)
Updated(head) == [head EXCEPT !.spent = head.spent + 1]
PostUpdate(c) ==
    /\ Spendable(c)
    /\ heads' = [heads EXCEPT ![c] = Updated(@)]
    /\ UNCHANGED <<txs, coins, approvals, file, cmd, pick, printed, faults>>

Init ==
    /\ heads = [c \in {OldCat : h \in OldHome} |-> FirstHead("oracle26", OldTable)]
    /\ txs = FirstTx
    /\ coins = FirstCoins
    /\ approvals = {}
    /\ file = [h \in Home |-> IF h \in OldHome THEN Manifest(26, OldCat, OldTable) ELSE NoFile]
    /\ cmd = [h \in Home |-> Idle]
    /\ pick = [h \in Home |-> {}]
    /\ printed = [h \in Home |-> 0]
    /\ faults = 0

Next ==
    \/ \E h \in Home : Command(h)
    \/ \E k \in Loyal, h \in Home, next \in Place : SignApproval(k, h, next)
    \/ \E h \in Home, c \in DOMAIN heads : RewriteByHand(h, c)
    \/ \E c \in DOMAIN heads, next \in Place :
         \E rows \in Majorities(heads[c].table) : AnyoneRotates(c, rows, next)
    \/ \E c \in DOMAIN heads : PostUpdate(c)

Spec == Init /\ [][Next]_vars
-----------------------------------------------------------------------------
(* Properties. *)

HeadState == [lock: {"oracle26", "oracle", "p2pkh"}, table: Table \cup {<<>>}, len: Nat,
              used: SUBSET (Table \cup {<<>>}), spent: Nat]
Coin == [id: Nat \ {0}, first: BOOLEAN, sats: Nat]

TypeOK ==
    /\ heads \in [DOMAIN heads -> HeadState] /\ DOMAIN heads \subseteq Nat \ {0}
    /\ txs \in Nat
    /\ coins \in [Home -> SUBSET Coin]
    /\ approvals \subseteq [by: Key, cat: Nat, old: Table, next: Place]
    /\ file \in [Home -> [state: {"none", "torn", "whole"}, version: {26, 27}, cat: Nat,
                          table: Table \cup {<<>>}]]
    /\ cmd \in [Home -> [pc: {"idle", "coins", "split", "print", "mint", "write", "head", "send"},
                         prepare: BOOLEAN, cat: Nat,
                         old: Table \cup {<<>>}, next: Place, spent: Nat]]
    /\ pick \in [Home -> SUBSET Coin]
    /\ printed \in [Home -> Nat]
    /\ faults \in 0..MaxFaults

(* A readable manifest.json names a head that is on chain and a table that head has had, and is   *)
(* of the new version only when the head has left the old covenant: stopped anywhere, overtaken   *)
(* by another operator or by a retirement, a command never leaves a file that is ahead of the     *)
(* chain (broadcast before fs::write in genesis.rs and rotate.rs).                                *)
FileDescribesChain ==
    \A h \in Home : file[h].state = "whole" =>
        /\ file[h].cat \in DOMAIN heads
        /\ file[h].table \in heads[file[h].cat].used \cap Table
        /\ file[h].version = 27 => heads[file[h].cat].lock # "oracle26"

(* No head ever takes a table it had before: the rule of operation of v26-plan.md, kept by a row  *)
(* in every majority, is enough, although approvals never expire, anyone may post them, a         *)
(* migration keeps the table, and commands run from stale manifests (what approvals bind).        *)
NeverReturns ==
    [][\A c \in DOMAIN heads : heads'[c].table # heads[c].table =>
          heads'[c].table \notin heads[c].used]_vars

(* A head that no manifest.json names, and none is about to, comes from a command that was        *)
(* stopped: genesis is not run twice over a deployment (manifest_path.exists).                    *)
NothingForgotten ==
    Cardinality({c \in DOMAIN heads :
        /\ heads[c].lock # "p2pkh"
        /\ \A h \in Home : /\ ~(file[h].state = "whole" /\ file[h].cat = c)
                           /\ ~(At(h, "write") /\ cmd[h].cat = c)}) <= faults

(* The head keeps a commitment its covenant can read, so that the rows go on to govern it: not    *)
(* so, for the approvals of a migration bind what a migration keeps, and move a migrated head     *)
(* once more, past the layout ("The head NFT carries 37 bytes", commit.rs; "the one-time move").  *)
HeadStaysReadable == \A c \in DOMAIN heads : heads[c].lock # "p2pkh" => Readable(heads[c])

(* The category printed by `genesis --prepare`, for which notaries are then set up, is the one    *)
(* that genesis mints, unless that is on chain already: both choose the same coin, though they    *)
(* are separate runs, either may be stopped, and one of them may make the coin first.             *)
PreparedKept ==
    [][\A h \in Home : At(h, "mint") /\ cmd'[h].pc = "write"
          /\ printed[h] # 0 /\ printed[h] \notin DOMAIN heads
          => cmd'[h].cat = printed[h]]_vars
=============================================================================
