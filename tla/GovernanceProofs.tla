-------------------------- MODULE GovernanceProofs --------------------------
(***************************************************************************)
(* Theorems about Governance, for any homes, keys, tables and bounds: the  *)
(* manifests operators keep describe the chain, no head is left without    *)
(* one but by a command that was stopped, genesis mints what was printed,  *)
(* and a head never takes a table twice as long as every majority has a    *)
(* row that keeps the rule.                                                *)
(*                                                                         *)
(* None is inductive.  That approvals work once needs to know of each      *)
(* approval that it is from a table the head has had; that in turn needs   *)
(* the manifests, and those the commands that are about to write them.  A  *)
(* rotation decided on an older state needs that the head it will spend    *)
(* tells whether anything has moved (cmd.spent).  A head stays named only  *)
(* if a rotation writes over the file of the head it moved                 *)
(* (OneDeployment), and a printed category is minted only if the coin that *)
(* gave it stays the home's one best (PreparedOK).                         *)
(***************************************************************************)
EXTENDS Governance, FiniteSums

FileState == [state: {"none", "torn", "whole"}, version: {26, 27}, cat: Nat, table: Table \cup {<<>>}]
CmdState == [pc: {"idle", "coins", "split", "print", "mint", "write", "head", "send"},
             prepare: BOOLEAN, cat: Nat, old: Table \cup {<<>>}, next: Place, spent: Nat]

Shape ==
    /\ txs \in Nat
    /\ heads \in [DOMAIN heads -> HeadState] /\ DOMAIN heads \subseteq 1..txs
    /\ file \in [Home -> FileState]
    /\ cmd \in [Home -> CmdState]
    /\ coins = [h \in Home |-> coins[h]] /\ pick = [h \in Home |-> pick[h]]

(* A category is the id of a coin that is spent, so no coin can mint it again. *)
FreshIds ==
    /\ \A h \in Home : \A c \in coins[h] : c.id \in 1..txs /\ c.id \notin DOMAIN heads
    /\ \A g, h \in Home : \A c \in coins[g], d \in coins[h] : c.id = d.id => c = d /\ g = h
    /\ \A h \in Home : pick[h] \subseteq coins[h]

TablesUsed ==
    \A c \in DOMAIN heads :
        /\ heads[c].table \in heads[c].used
        /\ heads[c].lock # "p2pkh" => heads[c].table \in Table

FileOK(f, hs) ==
    f.state = "whole" => /\ f.cat \in DOMAIN hs
                         /\ f.table \in hs[f.cat].used \cap Table
                         /\ f.version = 27 => hs[f.cat].lock # "oracle26"

(* A table that the head has not had, or the one it has now. *)
MovesOn(next, head) == next.table = head.table \/ next.table \notin head.used

CommandOK(j, hs) ==
    /\ j.pc \in {"head", "send", "write"} => j.cat \in DOMAIN hs
    /\ j.pc = "write" => /\ j.next.table \in hs[j.cat].used \cap Table
                         /\ hs[j.cat].lock # "oracle26"
    /\ j.pc = "send" => /\ j.spent <= hs[j.cat].spent
                        /\ j.spent = hs[j.cat].spent => MovesOn(j.next, hs[j.cat])
CommandsOK == \A h \in Home : CommandOK(cmd[h], heads)

ApprovalOK(a, hs) ==
    /\ a.cat \in DOMAIN hs /\ a.old \in hs[a.cat].used
    /\ a.old = hs[a.cat].table => MovesOn(a.next, hs[a.cat])
ApprovalsOK == \A a \in approvals : ApprovalOK(a, heads)

IInv == Shape /\ FreshIds /\ TablesUsed /\ FileDescribesChain /\ CommandsOK /\ ApprovalsOK

-----------------------------------------------------------------------------
(* What can happen to the heads. *)

Fresh(c, t) ==
    /\ c \in 1..txs /\ c \notin DOMAIN heads /\ t \in Table
    /\ heads' = [x \in DOMAIN heads \cup {c} |->
                   IF x = c THEN FirstHead("oracle", t) ELSE heads[x]]

Rotation(c, next) ==
    /\ c \in DOMAIN heads /\ next \in Place /\ MovesOn(next, heads[c])
    /\ heads' = [heads EXCEPT ![c] = Moved(@, next)]

Posted(c) ==
    /\ c \in DOMAIN heads
    /\ heads' = [heads EXCEPT ![c] = Updated(@)]

HeadsMove ==
    \/ heads' = heads
    \/ \E c \in Nat, t \in Table : Fresh(c, t)
    \/ \E c \in DOMAIN heads, next \in Place : Rotation(c, next)
    \/ \E c \in DOMAIN heads : Posted(c)

LEMMA PlaceShape ==
  ASSUME NEW p \in Place
  PROVE  /\ p.lock \in {"oracle", "p2pkh"} /\ p.table \in Table \cup {<<>>}
         /\ p.lock = "oracle" => p.table \in Table
         /\ p = [lock |-> p.lock, table |-> p.table, pad |-> p.pad]
  BY DEF Place

(* A majority that moves a head has a loyal row, whose approval moves on. *)
LEMMA MajorityMovesOn ==
  ASSUME IInv, NEW c \in DOMAIN heads, NEW next, NEW rows \in Majorities(heads[c].table),
         RotateAllowed(c, rows, next)
  PROVE  MovesOn(next, heads[c])
<1>1. heads[c].table \in Table
  BY DEF IInv, TablesUsed, RotateAllowed, Readable
<1>2. PICK r \in rows : heads[c].table[r] \in Loyal
  BY <1>1, LoyaltyAssumption
<1>3. [by |-> heads[c].table[r], cat |-> c, old |-> heads[c].table, next |-> next] \in approvals
  BY <1>2 DEF RotateAllowed, Signed
<1> QED
  BY <1>3 DEF IInv, ApprovalsOK, ApprovalOK

(* No step touches the heads otherwise, and none reverses what was used or spent. *)
LEMMA EachMove == IInv /\ [Next]_vars => HeadsMove
<1> SUFFICES ASSUME IInv, [Next]_vars PROVE HeadsMove
  OBVIOUS
<1>1. CASE heads' = heads
  BY <1>1 DEF HeadsMove
<1>2. ASSUME NEW h \in Home, Mint(h) PROVE HeadsMove
  <2>1. PICK c \in pick[h] :
          heads' = [x \in DOMAIN heads \cup {c.id} |->
                     IF x = c.id THEN FirstHead("oracle", GenesisTable[h]) ELSE heads[x]]
    BY <1>2 DEF Mint
  <2>2. c.id \in 1..txs /\ c.id \notin DOMAIN heads
    BY DEF IInv, FreshIds
  <2>3. GenesisTable[h] \in Table
    BY GovernanceAssumption
  <2>4. Fresh(c.id, GenesisTable[h])
    BY <2>1, <2>2, <2>3 DEF Fresh
  <2>5. c.id \in Nat
    BY <2>2 DEF IInv, Shape
  <2> QED
    BY <2>3, <2>4, <2>5 DEF HeadsMove
<1>3. ASSUME NEW h \in Home, Broadcast(h) PROVE HeadsMove
  <2>1. CASE heads[cmd[h].cat].spent = cmd[h].spent
    <3>1. cmd[h].pc = "send" /\ heads' = [heads EXCEPT ![cmd[h].cat] = Moved(@, cmd[h].next)]
      BY <1>3, <2>1 DEF Broadcast, At
    <3>2. cmd[h].cat \in DOMAIN heads /\ MovesOn(cmd[h].next, heads[cmd[h].cat])
      BY <2>1, <3>1 DEF IInv, CommandsOK, CommandOK
    <3>3. cmd[h].next \in Place
      BY DEF IInv, Shape, CmdState
    <3> QED
      BY <3>1, <3>2, <3>3 DEF HeadsMove, Rotation
  <2>2. CASE heads[cmd[h].cat].spent # cmd[h].spent
    BY <1>3, <2>2 DEF Broadcast, HeadsMove
  <2> QED
    BY <2>1, <2>2
<1>4. ASSUME NEW c \in DOMAIN heads, NEW next \in Place, NEW rows \in Majorities(heads[c].table),
             AnyoneRotates(c, rows, next)
      PROVE  HeadsMove
  <2>1. MovesOn(next, heads[c])
    BY <1>4, MajorityMovesOn DEF AnyoneRotates
  <2> QED
    BY <1>4, <2>1 DEF AnyoneRotates, HeadsMove, Rotation
<1>5. ASSUME NEW c \in DOMAIN heads, PostUpdate(c) PROVE HeadsMove
  BY <1>5 DEF PostUpdate, HeadsMove, Posted
<1>6. ASSUME NEW h \in Home, Command(h) PROVE HeadsMove
  BY <1>1, <1>2, <1>3, <1>6
     DEF Command, StartGenesis, FindCoins, SelfSpend, PrintCategory, StartRotate, FindHead,
         WriteManifest, TornWrite, Stop
<1>7. ASSUME NEW k \in Loyal, NEW h \in Home, NEW next \in Place, SignApproval(k, h, next)
      PROVE  HeadsMove
  BY <1>1, <1>7 DEF SignApproval
<1>8. ASSUME NEW h \in Home, NEW c \in DOMAIN heads, RewriteByHand(h, c) PROVE HeadsMove
  BY <1>1, <1>8 DEF RewriteByHand
<1>9. CASE UNCHANGED vars
  BY <1>1, <1>9 DEF vars
<1> QED
  BY <1>4, <1>5, <1>6, <1>7, <1>8, <1>9 DEF Next

-----------------------------------------------------------------------------
(* What such a move keeps. *)

Later(c) ==
    /\ c \in DOMAIN heads'
    /\ heads[c].used \subseteq heads'[c].used
    /\ heads[c].spent <= heads'[c].spent
    /\ heads'[c].spent = heads[c].spent => heads'[c] = heads[c]
    /\ heads'[c].table = heads[c].table => heads'[c].used = heads[c].used
    /\ heads'[c].table # heads[c].table => heads'[c].table \notin heads[c].used
    /\ heads[c].lock # "oracle26" => heads'[c].lock # "oracle26"

Kept ==
    /\ heads' \in [DOMAIN heads' -> HeadState]
    /\ DOMAIN heads' \subseteq 1..txs
    /\ \A c \in DOMAIN heads : Later(c)
    /\ TablesUsed'

LEMMA MovedShape ==
  ASSUME NEW x \in HeadState, NEW next \in Place
  PROVE  /\ Moved(x, next) \in HeadState
         /\ Moved(x, next).table = next.table /\ Moved(x, next).lock = next.lock
         /\ Moved(x, next).used = x.used \cup {next.table}
         /\ Moved(x, next).spent = x.spent + 1
<1>1. StateLen(x.lock) + TailLen(next) \in Nat
  BY DEF StateLen, TailLen
<1> QED
  BY <1>1, PlaceShape DEF Moved, HeadState

LEMMA UpdatedShape ==
  ASSUME NEW x \in HeadState
  PROVE  /\ Updated(x) \in HeadState
         /\ Updated(x).table = x.table /\ Updated(x).lock = x.lock
         /\ Updated(x).used = x.used
         /\ Updated(x).spent = x.spent + 1
  BY DEF Updated, HeadState

LEMMA MoveKeeps == Shape /\ TablesUsed /\ HeadsMove => Kept
<1> SUFFICES ASSUME Shape, TablesUsed, HeadsMove PROVE Kept
  OBVIOUS
<1>0. /\ \A c \in DOMAIN heads : heads[c] \in HeadState
      /\ heads = [c \in DOMAIN heads |-> heads[c]]
      /\ DOMAIN heads \subseteq 1..txs
  BY DEF Shape
<1>1. CASE heads' = heads
  <2>1. \A c \in DOMAIN heads : Later(c)
    <3> SUFFICES ASSUME NEW c \in DOMAIN heads PROVE Later(c)
      OBVIOUS
    <3>1. heads[c].spent \in Nat
      BY <1>0 DEF HeadState
    <3> QED
      BY <1>1, <3>1 DEF Later
  <2>2. TablesUsed'
    BY <1>1 DEF TablesUsed
  <2> QED
    BY <1>0, <1>1, <2>1, <2>2 DEF Kept, Shape
<1>2. ASSUME NEW n \in Nat, NEW t \in Table, Fresh(n, t) PROVE Kept
  <2> DEFINE new == FirstHead("oracle", t)
  <2>1. /\ n \in 1..txs /\ n \notin DOMAIN heads
        /\ heads' = [x \in DOMAIN heads \cup {n} |-> IF x = n THEN new ELSE heads[x]]
    BY <1>2 DEF Fresh
  <2>2. new \in HeadState /\ new.table \in new.used /\ new.table \in Table
    BY DEF HeadState, FirstHead, StateLen
  <2> HIDE DEF new
  <2>3. /\ DOMAIN heads' = DOMAIN heads \cup {n} /\ heads'[n] = new
        /\ \A c \in DOMAIN heads : heads'[c] = heads[c]
    BY <2>1
  <2>4. heads' \in [DOMAIN heads' -> HeadState]
    BY <1>0, <2>1, <2>2
  <2>5. \A c \in DOMAIN heads : Later(c)
    <3> SUFFICES ASSUME NEW c \in DOMAIN heads PROVE Later(c)
      OBVIOUS
    <3>1. heads[c].spent \in Nat
      BY <1>0 DEF HeadState
    <3> QED
      BY <2>3, <3>1 DEF Later
  <2>6. TablesUsed'
    BY <2>2, <2>3 DEF TablesUsed
  <2> QED
    BY <1>0, <2>1, <2>3, <2>4, <2>5, <2>6 DEF Kept
<1>3. ASSUME NEW n \in DOMAIN heads, NEW next \in Place, Rotation(n, next) PROVE Kept
  <2>1. MovesOn(next, heads[n])
    BY <1>3 DEF Rotation
  <2>2. /\ DOMAIN heads' = DOMAIN heads
        /\ heads'[n] = Moved(heads[n], next)
        /\ \A c \in DOMAIN heads : c # n => heads'[c] = heads[c]
        /\ heads' = [c \in DOMAIN heads |-> heads'[c]]
    BY <1>0, <1>3 DEF Rotation
  <2>3. /\ heads'[n] \in HeadState
        /\ heads'[n].table = next.table /\ heads'[n].lock = next.lock
        /\ heads'[n].used = heads[n].used \cup {next.table}
        /\ heads'[n].spent = heads[n].spent + 1
    BY <1>0, <2>2, MovedShape
  <2>4. heads' \in [DOMAIN heads' -> HeadState]
    BY <1>0, <2>2, <2>3
  <2>5. \A c \in DOMAIN heads : Later(c)
    <3> SUFFICES ASSUME NEW c \in DOMAIN heads PROVE Later(c)
      OBVIOUS
    <3>1. heads[c].spent \in Nat
      BY <1>0 DEF HeadState
    <3>2. CASE c = n
      <4>1. heads[n].table \in heads[n].used /\ next.lock # "oracle26"
        BY PlaceShape DEF TablesUsed
      <4>2. /\ heads'[n].used = heads[n].used \cup {next.table}
            /\ next.table = heads[n].table \/ next.table \notin heads[n].used
        BY <2>1, <2>3 DEF MovesOn
      <4>3. next.table = heads[n].table => heads'[n].used = heads[n].used
        BY <4>1, <4>2
      <4>4. heads'[n].spent # heads[n].spent /\ heads[n].spent <= heads'[n].spent
        BY <2>3, <3>1, <3>2
      <4> QED
        BY <2>2, <2>3, <3>2, <4>1, <4>2, <4>3, <4>4 DEF Later
    <3>3. CASE c # n
      BY <2>2, <3>1, <3>3 DEF Later
    <3> QED
      BY <3>2, <3>3
  <2>6. TablesUsed'
    BY <2>2, <2>3, PlaceShape DEF TablesUsed
  <2> QED
    BY <1>0, <2>2, <2>4, <2>5, <2>6 DEF Kept
<1>4. ASSUME NEW n \in DOMAIN heads, Posted(n) PROVE Kept
  <2>1. /\ DOMAIN heads' = DOMAIN heads
        /\ heads'[n] = Updated(heads[n])
        /\ \A c \in DOMAIN heads : c # n => heads'[c] = heads[c]
        /\ heads' = [c \in DOMAIN heads |-> heads'[c]]
    BY <1>0, <1>4 DEF Posted
  <2>2. /\ heads'[n] \in HeadState
        /\ heads'[n].table = heads[n].table /\ heads'[n].lock = heads[n].lock
        /\ heads'[n].used = heads[n].used
        /\ heads'[n].spent = heads[n].spent + 1
    BY <1>0, <2>1, UpdatedShape
  <2>3. heads' \in [DOMAIN heads' -> HeadState]
    BY <1>0, <2>1, <2>2
  <2>4. \A c \in DOMAIN heads : Later(c)
    <3> SUFFICES ASSUME NEW c \in DOMAIN heads PROVE Later(c)
      OBVIOUS
    <3>1. heads[c].spent \in Nat
      BY <1>0 DEF HeadState
    <3>2. CASE c = n
      BY <2>1, <2>2, <3>1, <3>2 DEF Later
    <3>3. CASE c # n
      BY <2>1, <3>1, <3>3 DEF Later
    <3> QED
      BY <3>2, <3>3
  <2>5. TablesUsed'
    BY <2>1, <2>2 DEF TablesUsed
  <2> QED
    BY <1>0, <2>1, <2>3, <2>4, <2>5 DEF Kept
<1> QED
  BY <1>1, <1>2, <1>3, <1>4 DEF HeadsMove

LEMMA StepKeeps == IInv /\ [Next]_vars => Kept
  BY EachMove, MoveKeeps DEF IInv

-----------------------------------------------------------------------------
(* What was true of a file, a command or an approval stays true of it while heads move. *)

LEMMA StaysTrue ==
  ASSUME IInv, Kept
  PROVE  /\ \A f : FileOK(f, heads) => FileOK(f, heads')
         /\ \A j \in CmdState : CommandOK(j, heads) => CommandOK(j, heads')
         /\ \A a : ApprovalOK(a, heads) => ApprovalOK(a, heads')
<1>1. \A c \in DOMAIN heads :
        /\ c \in DOMAIN heads' /\ heads[c].used \subseteq heads'[c].used
        /\ heads[c].spent \in Nat /\ heads'[c].spent \in Nat
        /\ heads[c].spent <= heads'[c].spent
        /\ heads'[c].spent = heads[c].spent => heads'[c] = heads[c]
        /\ heads'[c].table = heads[c].table => heads'[c].used = heads[c].used
        /\ heads'[c].table # heads[c].table => heads'[c].table \notin heads[c].used
        /\ heads[c].lock # "oracle26" => heads'[c].lock # "oracle26"
  BY DEF IInv, Shape, Kept, Later, HeadState
<1>2. ASSUME NEW f, FileOK(f, heads) PROVE FileOK(f, heads')
  BY <1>1, <1>2 DEF FileOK
<1>3. ASSUME NEW j \in CmdState, CommandOK(j, heads) PROVE CommandOK(j, heads')
  <2>1. j.spent \in Nat
    BY DEF CmdState
  <2>2. CASE j.pc = "send"
    BY <1>1, <1>3, <2>1, <2>2 DEF CommandOK
  <2>3. CASE j.pc # "send"
    BY <1>1, <1>3, <2>3 DEF CommandOK
  <2> QED
    BY <2>2, <2>3
<1>4. ASSUME NEW a, ApprovalOK(a, heads) PROVE ApprovalOK(a, heads')
  BY <1>1, <1>4 DEF ApprovalOK, MovesOn
<1> QED
  BY <1>2, <1>3, <1>4

FilesKept == file' \in [Home -> FileState] /\ FileDescribesChain'
CommandsKept == cmd' \in [Home -> CmdState] /\ CommandsOK'
CoinsKept ==
    /\ txs' \in Nat /\ DOMAIN heads' \subseteq 1..txs' /\ FreshIds'
    /\ coins' = [h \in Home |-> coins'[h]] /\ pick' = [h \in Home |-> pick'[h]]

LEMMA FilesStay == IInv /\ Kept /\ file' = file => FilesKept
  BY StaysTrue DEF IInv, Shape, FilesKept, FileDescribesChain, FileOK

LEMMA FileSet ==
  ASSUME IInv, Kept, NEW h \in Home, NEW f \in FileState, FileOK(f, heads),
         file' = [file EXCEPT ![h] = f]
  PROVE  FilesKept
<1>1. file' \in [Home -> FileState]
  BY DEF IInv, Shape
<1>2. ASSUME NEW g \in Home PROVE FileOK(file'[g], heads')
  <2>1. FileOK(file[g], heads)
    BY DEF IInv, FileDescribesChain, FileOK
  <2>2. file'[g] = IF g = h THEN f ELSE file[g]
    BY DEF IInv, Shape
  <2> QED
    BY <2>1, <2>2, StaysTrue
<1> QED
  BY <1>1, <1>2 DEF FilesKept, FileDescribesChain, FileOK

LEMMA CommandsStay == IInv /\ Kept /\ cmd' = cmd => CommandsKept
  BY StaysTrue DEF IInv, Shape, CommandsKept, CommandsOK

LEMMA CommandSet ==
  ASSUME IInv, Kept, NEW h \in Home, NEW j \in CmdState, CommandOK(j, heads'), Go(h, j)
  PROVE  CommandsKept
<1>1. cmd' \in [Home -> CmdState]
  BY DEF IInv, Shape, Go
<1>2. ASSUME NEW g \in Home PROVE CommandOK(cmd'[g], heads')
  <2>1. CommandOK(cmd[g], heads) /\ cmd[g] \in CmdState
    BY DEF IInv, CommandsOK, Shape
  <2>2. cmd'[g] = IF g = h THEN j ELSE cmd[g]
    BY DEF IInv, Shape, Go
  <2> QED
    BY <2>1, <2>2, StaysTrue
<1> QED
  BY <1>1, <1>2 DEF CommandsKept, CommandsOK

LEMMA ApprovalsStay == IInv /\ Kept /\ approvals' = approvals => ApprovalsOK'
  BY StaysTrue DEF IInv, ApprovalsOK

LEMMA CoinsStay ==
  ASSUME IInv, DOMAIN heads' = DOMAIN heads, txs' = txs, coins' = coins,
         pick' = [h \in Home |-> pick'[h]], \A h \in Home : pick'[h] \subseteq coins[h]
  PROVE  CoinsKept
  BY DEF IInv, Shape, FreshIds, CoinsKept

LEMMA AllKept ==
  IInv /\ Kept /\ FilesKept /\ CommandsKept /\ CoinsKept /\ ApprovalsOK' => IInv'
  BY DEF IInv, Shape, Kept, FilesKept, CommandsKept, CoinsKept

LEMMA IdleOK == Idle \in CmdState /\ \A hs : CommandOK(Idle, hs)
  BY DEF Idle, CmdState, CommandOK, Retired, Place

-----------------------------------------------------------------------------
(* Each action keeps the invariant. *)

LEMMA GenesisKeeps ==
  ASSUME IInv, Kept, NEW h \in Home,
         \/ \E prepare \in BOOLEAN : StartGenesis(h, prepare)
         \/ FindCoins(h) \/ PrintCategory(h)
  PROVE  IInv'
<1>0. cmd[h] \in CmdState
  BY DEF IInv, Shape
<1>1. FilesKept /\ ApprovalsOK'
  BY FilesStay, ApprovalsStay DEF StartGenesis, FindCoins, PrintCategory
<1>2. ASSUME NEW prepare \in BOOLEAN, StartGenesis(h, prepare) PROVE CommandsKept /\ CoinsKept
  <2> DEFINE j == [Idle EXCEPT !.pc = "coins", !.prepare = prepare]
  <2>1. j \in CmdState /\ j.pc = "coins"
    BY DEF Idle, CmdState, Retired, Place
  <2>2. Go(h, j) /\ coins' = coins /\ pick' = pick /\ txs' = txs /\ heads' = heads
    BY <1>2 DEF StartGenesis
  <2> HIDE DEF j
  <2>3. CommandsKept
    BY <2>1, <2>2, CommandSet DEF CommandOK
  <2>4. CoinsKept
    BY <2>2, CoinsStay DEF IInv, Shape, FreshIds
  <2> QED
    BY <2>3, <2>4
<1>3. ASSUME FindCoins(h) PROVE CommandsKept /\ CoinsKept
  <2>1. /\ coins' = coins /\ txs' = txs /\ heads' = heads
        /\ \/ Go(h, Idle) /\ pick' = pick
           \/ \E pc \in {"print", "mint", "split"}, S \in SUBSET coins[h] :
                Go(h, [cmd[h] EXCEPT !.pc = pc]) /\ pick' = [pick EXCEPT ![h] = S]
    <3>1. \A c \in Funding(h) : {c} \in SUBSET coins[h]
      BY DEF Funding, Largest
    <3>2. ToMerge(h) \subseteq SUBSET coins[h]
      BY DEF ToMerge
    <3>3. HasCoin(h) \in {"print", "mint"}
      BY DEF HasCoin
    <3> QED
      BY <1>3, <3>1, <3>2, <3>3 DEF FindCoins
  <2>2. /\ pick' = [g \in Home |-> pick'[g]]
        /\ \A g \in Home : pick'[g] \subseteq coins[g]
    BY <2>1 DEF IInv, Shape, FreshIds
  <2>3. CoinsKept
    BY <2>1, <2>2, CoinsStay
  <2>4. ASSUME NEW pc \in {"print", "mint", "split"}, Go(h, [cmd[h] EXCEPT !.pc = pc])
        PROVE  CommandsKept
    <3> DEFINE j == [cmd[h] EXCEPT !.pc = pc]
    <3>1. j \in CmdState /\ j.pc = pc
      BY <1>0 DEF CmdState
    <3>2. Go(h, j)
      BY <2>4
    <3> HIDE DEF j
    <3>3. CommandOK(j, heads')
      BY <3>1 DEF CommandOK
    <3> QED
      BY <3>1, <3>2, <3>3, CommandSet
  <2>5. ASSUME Go(h, Idle) PROVE CommandsKept
    BY <2>5, IdleOK, CommandSet
  <2>6. CommandsKept
    BY <2>1, <2>4, <2>5
  <2> QED
    BY <2>3, <2>6
<1>4. ASSUME PrintCategory(h) PROVE CommandsKept /\ CoinsKept
  <2>1. /\ Go(h, Idle) /\ coins' = coins /\ txs' = txs /\ heads' = heads
        /\ pick' = [pick EXCEPT ![h] = {}]
    BY <1>4 DEF PrintCategory
  <2> QED
    BY <2>1, IdleOK, CommandSet, CoinsStay DEF IInv, Shape, FreshIds
<1> QED
  BY <1>1, <1>2, <1>3, <1>4, AllKept

(* A new coin's id is new, so whatever it mints later is, too. *)
LEMMA SelfSpendKeeps ==
  ASSUME IInv, Kept, NEW h \in Home, SelfSpend(h)
  PROVE  IInv'
<1> DEFINE made == [id |-> txs + 1, first |-> TRUE, sats |-> Sats(pick[h])]
           j == [cmd[h] EXCEPT !.pc = HasCoin(h)]
<1>1. FilesKept /\ ApprovalsOK'
  BY FilesStay, ApprovalsStay DEF SelfSpend
<1>2. /\ txs' = txs + 1 /\ heads' = heads /\ Go(h, j)
      /\ coins' = [coins EXCEPT ![h] = (@ \ pick[h]) \cup {made}]
      /\ pick' = [pick EXCEPT ![h] = {made}]
  BY DEF SelfSpend
<1>3. j \in CmdState /\ j.pc \in {"print", "mint"}
  BY DEF IInv, Shape, CmdState, HasCoin
<1>4. made.id = txs + 1
  OBVIOUS
<1> HIDE DEF made, j
<1>5. CommandsKept
  BY <1>2, <1>3, CommandSet DEF CommandOK
<1>6. txs \in Nat /\ DOMAIN heads \subseteq 1..txs
  BY DEF IInv, Shape
<1>c. /\ coins' = [g \in Home |-> coins'[g]] /\ pick' = [g \in Home |-> pick'[g]]
      /\ \A g \in Home : coins'[g] = IF g = h THEN (coins[g] \ pick[g]) \cup {made} ELSE coins[g]
  <2>1. coins = [g \in Home |-> coins[g]] /\ pick = [g \in Home |-> pick[g]]
    BY DEF IInv, Shape
  <2> QED
    BY <1>2, <2>1
<1>7. \A g \in Home : \A c \in coins'[g] : c \in coins[g] \/ (g = h /\ c = made)
  BY <1>c
<1>8. \A g \in Home : \A c \in coins[g] : c.id \in 1..txs /\ c.id \notin DOMAIN heads
  BY DEF IInv, FreshIds
<1>9. \A g \in Home : \A c \in coins'[g] : c.id \in 1..txs' /\ c.id \notin DOMAIN heads'
  BY <1>2, <1>4, <1>6, <1>7, <1>8
<1>10. ASSUME NEW g \in Home, NEW k \in Home, NEW c \in coins'[g], NEW d \in coins'[k], c.id = d.id
       PROVE  c = d /\ g = k
  <2>1. CASE c \in coins[g] /\ d \in coins[k]
    BY <1>10, <2>1 DEF IInv, FreshIds
  <2>2. CASE c = made /\ g = h /\ d = made /\ k = h
    BY <2>2
  <2>3. ~(made.id \in 1..txs)
    BY <1>4, <1>6
  <2> QED
    BY <1>7, <1>8, <1>10, <2>1, <2>2, <2>3
<1>11. \A g \in Home : pick'[g] \subseteq coins'[g]
  BY <1>2 DEF IInv, Shape, FreshIds
<1>12. CoinsKept
  BY <1>2, <1>6, <1>c, <1>9, <1>10, <1>11 DEF CoinsKept, FreshIds
<1> QED
  BY <1>1, <1>5, <1>12, AllKept

(* The coin's id becomes a category, and the coin is gone. *)
LEMMA MintKeeps ==
  ASSUME IInv, Kept, NEW h \in Home, Mint(h)
  PROVE  IInv'
<1> DEFINE place == At27(GenesisTable[h])
           head == FirstHead("oracle", GenesisTable[h])
<1>1. PICK c \in pick[h] :
        /\ heads' = [x \in DOMAIN heads \cup {c.id} |-> IF x = c.id THEN head ELSE heads[x]]
        /\ txs' = txs + 1
        /\ coins' = [coins EXCEPT ![h] = (@ \ {c}) \cup
                       {[id |-> txs + 1, first |-> FALSE, sats |-> c.sats - Need]}]
        /\ Go(h, [Idle EXCEPT !.pc = "write", !.cat = c.id, !.next = place])
        /\ pick' = [pick EXCEPT ![h] = {}]
        /\ UNCHANGED <<approvals, file, printed, faults>>
  BY DEF Mint
<1> DEFINE made == [id |-> txs + 1, first |-> FALSE, sats |-> c.sats - Need]
           j == [Idle EXCEPT !.pc = "write", !.cat = c.id, !.next = place]
<1>2. made.id = txs + 1
  OBVIOUS
<1>3. GenesisTable[h] \in Table
  BY GovernanceAssumption
<1>4. txs \in Nat /\ DOMAIN heads \subseteq 1..txs
  BY DEF IInv, Shape
<1>5. /\ c \in coins[h] /\ c.id \in 1..txs /\ c.id \notin DOMAIN heads
      /\ \A g \in Home : \A d \in coins[g] : d.id \in 1..txs /\ d.id \notin DOMAIN heads
      /\ \A g, k \in Home : \A d \in coins[g], e \in coins[k] : d.id = e.id => d = e /\ g = k
      /\ \A g \in Home : pick[g] \subseteq coins[g]
  BY DEF IInv, FreshIds
<1>6. /\ j \in CmdState /\ j.pc = "write" /\ j.cat = c.id
      /\ j.next.table = GenesisTable[h]
  <2>1. place \in Place /\ c.id \in Nat
    BY <1>3, <1>4, <1>5 DEF Place, At27
  <2> QED
    BY <2>1 DEF Idle, CmdState, Retired, Place, At27
<1>7. /\ DOMAIN heads' = DOMAIN heads \cup {c.id}
      /\ heads'[c.id].used = {GenesisTable[h]} /\ heads'[c.id].lock = "oracle"
  BY <1>1 DEF FirstHead
<1>8. /\ coins' = [g \in Home |-> coins'[g]] /\ pick' = [g \in Home |-> pick'[g]]
      /\ \A g \in Home :
           /\ coins'[g] = IF g = h THEN (coins[g] \ {c}) \cup {made} ELSE coins[g]
           /\ pick'[g] = IF g = h THEN {} ELSE pick[g]
  <2>1. coins = [g \in Home |-> coins[g]] /\ pick = [g \in Home |-> pick[g]]
    BY DEF IInv, Shape
  <2> QED
    BY <1>1, <2>1
<1>9. Go(h, j)
  BY <1>1
<1>10. txs' = txs + 1 /\ approvals' = approvals /\ file' = file
  BY <1>1
<1> HIDE DEF made, j, place, head
<1>11. CommandsKept
  <2>1. CommandOK(j, heads')
    BY <1>3, <1>6, <1>7 DEF CommandOK
  <2> QED
    BY <1>6, <1>9, <2>1, CommandSet
<1>12. FilesKept /\ ApprovalsOK'
  BY <1>10, FilesStay, ApprovalsStay
<1>13. \A g \in Home : \A d \in coins'[g] :
         \/ d = made /\ g = h
         \/ d \in coins[g] /\ (g = h => d # c)
  BY <1>8
<1>14. \A g \in Home : \A d \in coins[g] : (g = h => d # c) => d.id # c.id
  BY <1>5
<1>15. \A g \in Home : \A d \in coins'[g] : d.id \in 1..txs' /\ d.id \notin DOMAIN heads'
  BY <1>2, <1>4, <1>5, <1>7, <1>10, <1>13, <1>14
<1>16. ASSUME NEW g \in Home, NEW k \in Home, NEW d \in coins'[g], NEW e \in coins'[k], d.id = e.id
       PROVE  d = e /\ g = k
  <2>1. ~(made.id \in 1..txs)
    BY <1>2, <1>4
  <2> QED
    BY <1>5, <1>13, <1>16, <2>1
<1>17. \A g \in Home : pick'[g] \subseteq coins'[g]
  BY <1>5, <1>8
<1>18. txs' \in Nat /\ DOMAIN heads' \subseteq 1..txs'
  BY <1>4, <1>5, <1>7, <1>10
<1>19. CoinsKept
  BY <1>8, <1>15, <1>16, <1>17, <1>18 DEF CoinsKept, FreshIds
<1> QED
  BY <1>11, <1>12, <1>19, AllKept

LEMMA SameCoins ==
  ASSUME IInv, DOMAIN heads' = DOMAIN heads, UNCHANGED <<txs, coins, pick>>
  PROVE  CoinsKept
  BY CoinsStay DEF IInv, Shape, FreshIds

LEMMA RotateKeeps ==
  ASSUME IInv, Kept, NEW h \in Home,
         \/ \E next \in Place : StartRotate(h, next)
         \/ FindHead(h)
  PROVE  IInv'
<1>1. FilesKept /\ ApprovalsOK' /\ CoinsKept /\ heads' = heads
  BY FilesStay, ApprovalsStay, SameCoins DEF StartRotate, FindHead
<1>2. ASSUME NEW next \in Place, StartRotate(h, next) PROVE CommandsKept
  <2> DEFINE j == [Idle EXCEPT !.pc = "head", !.cat = file[h].cat, !.old = file[h].table,
                               !.next = next]
  <2>1. /\ file[h].cat \in DOMAIN heads
        /\ file[h].cat \in Nat /\ file[h].table \in Table \cup {<<>>}
    BY <1>2 DEF StartRotate, IInv, FileDescribesChain, Shape, FileState
  <2>2. j \in CmdState /\ j.pc = "head" /\ j.cat = file[h].cat
    BY <2>1 DEF Idle, CmdState, Retired, Place
  <2>3. Go(h, j)
    BY <1>2 DEF StartRotate
  <2> HIDE DEF j
  <2>4. CommandOK(j, heads')
    BY <1>1, <2>1, <2>2 DEF CommandOK
  <2> QED
    BY <2>2, <2>3, <2>4, CommandSet
<1>3. ASSUME FindHead(h) PROVE CommandsKept
  <2>1. CASE Go(h, Idle)
    BY <2>1, IdleOK, CommandSet
  <2>2. CASE /\ cmd[h].pc = "head"
             /\ \E rows \in Majorities(heads[cmd[h].cat].table) :
                  RotateAllowed(cmd[h].cat, rows, cmd[h].next)
             /\ Go(h, [cmd[h] EXCEPT !.pc = "send", !.spent = heads[cmd[h].cat].spent])
    <3> DEFINE j == [cmd[h] EXCEPT !.pc = "send", !.spent = heads[cmd[h].cat].spent]
    <3>1. cmd[h] \in CmdState /\ cmd[h].cat \in DOMAIN heads
      BY <2>2 DEF IInv, Shape, CommandsOK, CommandOK
    <3>2. heads[cmd[h].cat].spent \in Nat
      BY <3>1 DEF IInv, Shape, HeadState
    <3>3. /\ j \in CmdState /\ j.pc = "send" /\ j.spent = heads[cmd[h].cat].spent
          /\ j.cat = cmd[h].cat /\ j.next = cmd[h].next
      BY <3>1, <3>2 DEF CmdState
    <3>4. MovesOn(cmd[h].next, heads[cmd[h].cat])
      BY <2>2, <3>1, MajorityMovesOn
    <3>5. Go(h, j)
      BY <2>2
    <3> HIDE DEF j
    <3>6. CommandOK(j, heads')
      BY <1>1, <3>1, <3>2, <3>3, <3>4 DEF CommandOK
    <3> QED
      BY <3>3, <3>5, <3>6, CommandSet
  <2> QED
    BY <1>3, <2>1, <2>2 DEF FindHead, At
<1> QED
  BY <1>1, <1>2, <1>3, AllKept

(* The head the transaction spends is the one it was decided on, and the file only now follows. *)
LEMMA BroadcastKeeps ==
  ASSUME IInv, Kept, NEW h \in Home, Broadcast(h)
  PROVE  IInv'
<1> DEFINE j == cmd[h]
<1>1. j \in CmdState /\ j.pc = "send" /\ j.cat \in DOMAIN heads /\ j.next \in Place
  BY DEF Broadcast, At, IInv, Shape, CmdState, CommandsOK, CommandOK
<1>2. file' = file /\ approvals' = approvals /\ UNCHANGED <<txs, coins, pick>>
  BY DEF Broadcast
<1>3. DOMAIN heads' = DOMAIN heads
  BY DEF Broadcast
<1>4. CommandsKept
  <2>1. CASE Go(h, Idle)
    BY <2>1, IdleOK, CommandSet
  <2>2. CASE /\ heads' = [heads EXCEPT ![j.cat] = Moved(@, j.next)]
             /\ j.next.lock = "oracle"
             /\ Go(h, [j EXCEPT !.pc = "write"])
    <3> DEFINE k == [cmd[h] EXCEPT !.pc = "write"]
    <3>1. k \in CmdState /\ k.pc = "write" /\ k.cat = j.cat /\ k.next = j.next
      BY <1>1 DEF CmdState
    <3>2. heads'[j.cat] = Moved(heads[j.cat], j.next) /\ heads[j.cat] \in HeadState
      BY <1>1, <2>2 DEF IInv, Shape
    <3>3. j.next.table \in heads'[j.cat].used \cap Table /\ heads'[j.cat].lock # "oracle26"
      BY <1>1, <2>2, <3>2, MovedShape, PlaceShape
    <3>4. Go(h, k)
      BY <2>2
    <3> HIDE DEF k, j
    <3>5. CommandOK(k, heads')
      BY <1>1, <1>3, <3>1, <3>3 DEF CommandOK
    <3> QED
      BY <3>1, <3>4, <3>5, CommandSet
  <2> QED
    BY <2>1, <2>2 DEF Broadcast, Refused
<1> HIDE DEF j
<1> QED
  BY <1>2, <1>3, <1>4, FilesStay, ApprovalsStay, SameCoins, AllKept

LEMMA EndKeeps ==
  ASSUME IInv, Kept, NEW h \in Home, WriteManifest(h) \/ TornWrite(h) \/ Stop(h)
  PROVE  IInv'
<1>1. /\ Go(h, Idle) /\ heads' = heads /\ approvals' = approvals
      /\ txs' = txs /\ coins' = coins
  BY DEF WriteManifest, TornWrite, Stop
<1>2. CommandsKept /\ ApprovalsOK'
  BY <1>1, IdleOK, CommandSet, ApprovalsStay
<1>3. CoinsKept
  <2>1. pick' = pick \/ pick' = [pick EXCEPT ![h] = {}]
    BY DEF WriteManifest, TornWrite, Stop
  <2> QED
    BY <1>1, <2>1, CoinsStay DEF IInv, Shape, FreshIds
<1>4. CASE WriteManifest(h)
  <2> DEFINE f == Manifest(27, cmd[h].cat, cmd[h].next.table)
  <2>1. /\ cmd[h] \in CmdState /\ cmd[h].cat \in DOMAIN heads
        /\ cmd[h].next.table \in heads[cmd[h].cat].used \cap Table
        /\ heads[cmd[h].cat].lock # "oracle26"
    BY <1>4 DEF WriteManifest, At, IInv, Shape, CommandsOK, CommandOK
  <2>2. cmd[h].cat \in Nat
    BY <2>1 DEF CmdState
  <2>3. f \in FileState /\ FileOK(f, heads)
    BY <2>1, <2>2 DEF Manifest, FileState, FileOK
  <2>4. file' = [file EXCEPT ![h] = f]
    BY <1>4 DEF WriteManifest
  <2> HIDE DEF f
  <2> QED
    BY <1>2, <1>3, <2>3, <2>4, FileSet, AllKept
<1>5. CASE TornWrite(h)
  <2>1. TornFile \in FileState /\ FileOK(TornFile, heads)
    BY DEF TornFile, FileState, FileOK
  <2> QED
    BY <1>2, <1>3, <1>5, <2>1, FileSet, AllKept DEF TornWrite
<1>6. CASE Stop(h)
  BY <1>2, <1>3, <1>6, FilesStay, AllKept DEF Stop
<1> QED
  BY <1>4, <1>5, <1>6

(* A manifest names a table the head has had, so a loyal row's approval is from such a table, to *)
(* one the head has not had by then or, in a migration, to the same.                             *)
LEMMA SignKeeps ==
  ASSUME IInv, Kept, NEW k \in Loyal, NEW h \in Home, NEW next \in Place, SignApproval(k, h, next)
  PROVE  IInv'
<1> DEFINE a == [by |-> k, cat |-> file[h].cat, old |-> file[h].table, next |-> next]
<1>1. /\ heads' = heads /\ file' = file /\ cmd' = cmd /\ UNCHANGED <<txs, coins, pick>>
      /\ approvals' = approvals \cup {a}
      /\ file[h].state = "whole"
      /\ next.table \notin heads[file[h].cat].used \/ next.table = file[h].table
  BY DEF SignApproval, Plans
<1>2. ApprovalOK(a, heads)
  BY <1>1 DEF IInv, FileDescribesChain, ApprovalOK, MovesOn
<1> HIDE DEF a
<1>3. ApprovalsOK'
  BY <1>1, <1>2 DEF IInv, ApprovalsOK
<1> QED
  BY <1>1, <1>3, FilesStay, CommandsStay, SameCoins, AllKept

LEMMA RewriteKeeps ==
  ASSUME IInv, Kept, NEW h \in Home, NEW c \in DOMAIN heads, RewriteByHand(h, c)
  PROVE  IInv'
<1> DEFINE f == Manifest(IF heads[c].lock = "oracle26" THEN 26 ELSE 27, c, heads[c].table)
<1>1. /\ heads' = heads /\ approvals' = approvals /\ cmd' = cmd /\ UNCHANGED <<txs, coins, pick>>
      /\ file' = [file EXCEPT ![h] = f] /\ heads[c].lock # "p2pkh"
  BY DEF RewriteByHand
<1>2. c \in Nat /\ heads[c].table \in heads[c].used \cap Table
  BY <1>1 DEF IInv, Shape, TablesUsed
<1>3. f \in FileState /\ FileOK(f, heads)
  BY <1>2 DEF Manifest, FileState, FileOK
<1> HIDE DEF f
<1> QED
  BY <1>1, <1>3, FileSet, ApprovalsStay, CommandsStay, SameCoins, AllKept

LEMMA StepInv == IInv /\ [Next]_vars => IInv'
<1> SUFFICES ASSUME IInv, [Next]_vars PROVE IInv'
  OBVIOUS
<1>1. Kept
  BY StepKeeps
<1>2. ASSUME NEW h \in Home, Command(h) PROVE IInv'
  BY <1>1, <1>2, GenesisKeeps, SelfSpendKeeps, MintKeeps, RotateKeeps, BroadcastKeeps, EndKeeps
     DEF Command
<1>3. ASSUME DOMAIN heads' = DOMAIN heads,
             UNCHANGED <<txs, coins, approvals, file, cmd, pick, printed, faults>>
      PROVE  IInv'
  BY <1>1, <1>3, FilesStay, ApprovalsStay, CommandsStay, SameCoins, AllKept
<1>4. ASSUME NEW c \in DOMAIN heads, NEW next \in Place, NEW rows \in Majorities(heads[c].table),
             AnyoneRotates(c, rows, next)
      PROVE  IInv'
  BY <1>3, <1>4 DEF AnyoneRotates
<1>5. ASSUME NEW c \in DOMAIN heads, PostUpdate(c) PROVE IInv'
  BY <1>3, <1>5 DEF PostUpdate
<1>6. CASE UNCHANGED vars
  BY <1>3, <1>6 DEF vars
<1> QED
  BY <1>1, <1>2, <1>4, <1>5, <1>6, SignKeeps, RewriteKeeps DEF Next

LEMMA InitInv == Init => IInv
<1> SUFFICES ASSUME Init PROVE IInv
  OBVIOUS
<1> DEFINE olds == {OldCat : h \in OldHome}
           first == FirstHead("oracle26", OldTable)
<1>1. /\ heads = [c \in olds |-> first] /\ txs = FirstTx /\ approvals = {}
      /\ file = [h \in Home |-> IF h \in OldHome THEN Manifest(26, OldCat, OldTable) ELSE NoFile]
      /\ cmd = [h \in Home |-> Idle]
      /\ pick = [h \in Home |-> {}] /\ coins = FirstCoins
  BY DEF Init
<1>2. /\ OldTable \in Table /\ OldCat \in 1..FirstTx /\ FirstTx \in Nat
      /\ \A h \in Home : \A c \in FirstCoins[h] : c.id # OldCat /\ c.id \in 1..FirstTx
      /\ FirstCoins = [h \in Home |-> FirstCoins[h]]
  BY GovernanceAssumption
<1>3. first \in HeadState /\ first.table = OldTable /\ first.used = {OldTable}
  BY <1>2 DEF FirstHead, HeadState, StateLen
<1> HIDE DEF first
<1>4. olds \subseteq {OldCat} /\ (OldHome # {} => olds = {OldCat})
  OBVIOUS
<1> HIDE DEF olds
<1>5. DOMAIN heads = olds /\ \A c \in DOMAIN heads : heads[c] = first
  BY <1>1
<1>6. file \in [Home -> FileState]
  BY <1>1, <1>2 DEF NoFile, Manifest, FileState
<1>7. Shape
  BY <1>1, <1>2, <1>3, <1>4, <1>5, <1>6, IdleOK DEF Shape
<1>8. FreshIds
  <2>1. \A h \in Home : \A c \in coins[h] : c.id \in 1..txs /\ c.id \notin DOMAIN heads
    BY <1>1, <1>2, <1>4, <1>5
  <2>2. \A g, h \in Home : \A c \in coins[g], d \in coins[h] : c.id = d.id => c = d /\ g = h
    BY <1>1, GovernanceAssumption
  <2>3. \A h \in Home : pick[h] \subseteq coins[h]
    BY <1>1
  <2> QED
    BY <2>1, <2>2, <2>3 DEF FreshIds
<1>9. TablesUsed /\ CommandsOK /\ ApprovalsOK
  BY <1>1, <1>2, <1>3, <1>5, IdleOK DEF TablesUsed, CommandsOK, ApprovalsOK
<1>10. FileDescribesChain
  <2> SUFFICES ASSUME NEW h \in Home, file[h].state = "whole"
               PROVE  /\ file[h].cat \in DOMAIN heads
                      /\ file[h].table \in heads[file[h].cat].used \cap Table
                      /\ file[h].version = 27 => heads[file[h].cat].lock # "oracle26"
    BY DEF FileDescribesChain
  <2>1. h \in OldHome /\ file[h] = Manifest(26, OldCat, OldTable)
    BY <1>1 DEF NoFile
  <2> QED
    BY <1>2, <1>3, <1>4, <1>5, <2>1 DEF Manifest
<1> QED
  BY <1>7, <1>8, <1>9, <1>10 DEF IInv

LEMMA Invariant == Spec => []IInv
  BY InitInv, StepInv, PTL DEF Spec

-----------------------------------------------------------------------------
(* Coins. *)

(* The fold that Sats is, as the sum of a weight. *)
LEMMA SatsIsSum ==
  ASSUME NEW S, IsFiniteSet(S)
  PROVE  \E g : IsSum(g, [t \in S |-> t.sats], S) /\ Sats(S) = g[S]
<1> DEFINE w == [t \in S |-> t.sats]
           F(g) == [s \in SUBSET S |-> IF s = {} THEN 0
                       ELSE (CHOOSE x \in s : TRUE).sats + g[s \ {CHOOSE x \in s : TRUE}]]
           sum == CHOOSE g : g = F(g)
<1>1. \A s \in SUBSET S : s # {} => w[Pick(s)] = (CHOOSE x \in s : TRUE).sats
  <2> TAKE s \in SUBSET S
  <2> HAVE s # {}
  <2>1. Pick(s) \in S /\ Pick(s) = CHOOSE x \in s : TRUE
    BY DEF Pick
  <2> QED
    BY <2>1
<1>2. \A g : IsSum(g, w, S) <=> g = F(g)
  <2> TAKE g
  <2>1. [s \in SUBSET S |-> IF s = {} THEN 0 ELSE w[Pick(s)] + g[s \ {Pick(s)}]] = F(g)
    BY <1>1 DEF Pick
  <2> QED
    BY <2>1 DEF IsSum
<1>3. \E g : g = F(g)
  <2>1. \E g : IsSum(g, w, S)
    <3> HIDE DEF w
    <3> QED
      BY SumExists
  <2> HIDE DEF w, F
  <2> QED
    BY <1>2, <2>1
<1>4. sum = F(sum)
  BY <1>3
<1>5. Sats(S) = sum[S]
  BY DEF Sats, MapThenSumSet, MapThenFoldSet
<1> QED
  BY <1>2, <1>4, <1>5

LEMMA SatsType ==
  ASSUME NEW S, IsFiniteSet(S), \A c \in S : c.sats \in Nat
  PROVE  Sats(S) \in Nat
<1> DEFINE w == [t \in S |-> t.sats]
<1>1. PICK g : IsSum(g, w, S) /\ Sats(S) = g[S]
  BY SatsIsSum
<1>2. \A x \in S : w[x] \in Nat
  OBVIOUS
<1> HIDE DEF w
<1>3. g[S] \in Nat
  BY <1>1, <1>2, SumFacts
<1> QED
  BY <1>1, <1>3

(* A home's coins are told apart by transactions, of which there are so many. *)
LEMMA CoinsAreFinite ==
  ASSUME IInv, NEW h \in Home
  PROVE  IsFiniteSet(coins[h])
<1> DEFINE f == [c \in coins[h] |-> c.id]
<1>1. f \in Injection(coins[h], 1..txs)
  <2>1. \A c \in coins[h] : c.id \in 1..txs
    BY DEF IInv, FreshIds
  <2>2. \A c, d \in coins[h] : c.id = d.id => c = d
    BY DEF IInv, FreshIds
  <2> QED
    BY <2>1, <2>2 DEF Injection, IsInjective
<1>2. IsFiniteSet(1..txs)
  BY FS_Interval DEF IInv, Shape
<1> QED
  BY <1>1, <1>2, FS_Injection

(* A finite set that is not empty has a coin worth the most. *)
LEMMA LargestExists ==
  ASSUME NEW S, IsFiniteSet(S), S # {}, \A c \in S : c.sats \in Nat
  PROVE  Largest(S) # {}
<1> DEFINE Good == {T \in SUBSET S : T # {} => \E c \in T : \A d \in T : d.sats <= c.sats}
<1>1. {} \in Good
  OBVIOUS
<1>2. ASSUME NEW T \in Good, NEW x \in S PROVE T \cup {x} \in Good
  <2>1. CASE T = {}
    BY <2>1
  <2>2. CASE T # {}
    <3>1. PICK c \in T : \A d \in T : d.sats <= c.sats
      BY <2>2
    <3>2. CASE x.sats <= c.sats
      BY <3>1, <3>2
    <3>3. CASE ~(x.sats <= c.sats)
      <4>1. \A d \in T \cup {x} : d.sats <= x.sats
        BY <3>1, <3>3
      <4> QED
        BY <4>1
    <3> QED
      BY <3>2, <3>3
  <2> QED
    BY <2>1, <2>2
<1>3. Good \in SUBSET SUBSET S
  OBVIOUS
<1> HIDE DEF Good
<1>4. Good = SUBSET S
  BY <1>1, <1>2, <1>3, SetInductive
<1>5. S \in Good
  BY <1>4
<1> QED
  BY <1>5 DEF Good, Largest

-----------------------------------------------------------------------------
(* What is on record. *)

RecordsOK ==
    /\ approvals \subseteq [by: Key, cat: Nat, old: Table, next: Place]
    /\ printed \in [Home -> Nat]
    /\ faults \in 0..MaxFaults

LEMMA RecordsInit == Init => RecordsOK
  BY GovernanceAssumption DEF Init, RecordsOK

LEMMA RecordsStep == IInv /\ RecordsOK /\ [Next]_vars => RecordsOK'
<1> SUFFICES ASSUME IInv, RecordsOK, [Next]_vars PROVE RecordsOK'
  OBVIOUS
<1>0. MaxFaults \in Nat /\ Loyal \subseteq Key
  BY GovernanceAssumption
<1>1. CASE UNCHANGED <<approvals, printed, faults>>
  BY <1>1 DEF RecordsOK
<1>2. ASSUME NEW h \in Home, PrintCategory(h) PROVE RecordsOK'
  <2>1. PICK c \in pick[h] : printed' = [printed EXCEPT ![h] = c.id]
    BY <1>2 DEF PrintCategory
  <2>2. c.id \in Nat
    BY DEF IInv, FreshIds, Shape
  <2> QED
    BY <1>2, <2>1, <2>2 DEF PrintCategory, RecordsOK
<1>3. ASSUME NEW h \in Home, TornWrite(h) \/ Stop(h) PROVE RecordsOK'
  BY <1>0, <1>3 DEF TornWrite, Stop, Lost, RecordsOK
<1>4. ASSUME NEW k \in Loyal, NEW h \in Home, NEW next \in Place, SignApproval(k, h, next)
      PROVE  RecordsOK'
  <2>1. file[h].cat \in Nat /\ file[h].table \in Table
    BY <1>4 DEF SignApproval, IInv, Shape, FileState, FileDescribesChain
  <2> QED
    BY <1>0, <1>4, <2>1 DEF SignApproval, RecordsOK
<1>5. ASSUME NEW h \in Home, Command(h) PROVE RecordsOK'
  BY <1>1, <1>2, <1>3, <1>5
     DEF Command, StartGenesis, FindCoins, SelfSpend, Mint, StartRotate, FindHead, Broadcast,
         WriteManifest
<1>6. CASE UNCHANGED vars
  BY <1>1, <1>6 DEF vars
<1> QED
  BY <1>1, <1>4, <1>5, <1>6 DEF Next, RewriteByHand, AnyoneRotates, PostUpdate

-----------------------------------------------------------------------------
(* A genesis counts on the coins it picked: they were the home's best, and nobody else's to spend. *)

Paying(h) == {c \in coins[h] : c.first /\ c.sats >= Need}

HomeOK(h) ==
    /\ coins[h] \subseteq Coin
    /\ cmd[h].pc = "split" => Paying(h) = {} /\ Sats(pick[h]) > Need
    /\ cmd[h].pc \in {"print", "mint"} => pick[h] \subseteq Funding(h)
CoinsOK == \A h \in Home : HomeOK(h)

Quiet(h) ==
    /\ coins'[h] = coins[h] /\ printed'[h] = printed[h]
    /\ cmd'[h].pc \in {"split", "print", "mint"} => cmd'[h].pc = cmd[h].pc /\ pick'[h] = pick[h]

(* Only a genesis in this very home touches its coins. *)
LEMMA EachHome ==
  ASSUME IInv, RecordsOK, [Next]_vars, NEW h \in Home
  PROVE  Quiet(h) \/ FindCoins(h) \/ SelfSpend(h) \/ PrintCategory(h) \/ Mint(h)
<1>0. /\ cmd = [g \in Home |-> cmd[g]] /\ coins = [g \in Home |-> coins[g]]
      /\ pick = [g \in Home |-> pick[g]] /\ printed = [g \in Home |-> printed[g]]
  BY DEF IInv, Shape, RecordsOK
<1>1. CASE UNCHANGED <<coins, cmd, pick, printed>>
  BY <1>1 DEF Quiet
<1>2. ASSUME NEW g \in Home, g # h, Command(g) PROVE Quiet(h)
  <2>1. /\ cmd' = cmd \/ \E c : Go(g, c)
        /\ pick' = pick \/ \E c : pick' = [pick EXCEPT ![g] = c]
        /\ coins' = coins \/ \E c : coins' = [coins EXCEPT ![g] = c]
        /\ printed' = printed \/ \E c : printed' = [printed EXCEPT ![g] = c]
    <3>1. CASE \E prepare \in BOOLEAN : StartGenesis(g, prepare)
      BY <3>1 DEF StartGenesis
    <3>2. CASE FindCoins(g)
      BY <3>2 DEF FindCoins
    <3>3. CASE SelfSpend(g)
      BY <3>3 DEF SelfSpend
    <3>4. CASE PrintCategory(g)
      BY <3>4 DEF PrintCategory
    <3>5. CASE Mint(g)
      BY <3>5 DEF Mint
    <3>6. CASE \E next \in Place : StartRotate(g, next)
      BY <3>6 DEF StartRotate
    <3>7. CASE FindHead(g)
      BY <3>7 DEF FindHead
    <3>8. CASE Broadcast(g)
      BY <3>8 DEF Broadcast, Refused
    <3>9. CASE WriteManifest(g) \/ TornWrite(g) \/ Stop(g)
      BY <3>9 DEF WriteManifest, TornWrite, Stop
    <3> QED
      BY <1>2, <3>1, <3>2, <3>3, <3>4, <3>5, <3>6, <3>7, <3>8, <3>9 DEF Command
  <2>2. cmd'[h] = cmd[h] /\ pick'[h] = pick[h] /\ coins'[h] = coins[h] /\ printed'[h] = printed[h]
    BY <1>0, <1>2, <2>1 DEF Go
  <2> QED
    BY <2>2 DEF Quiet
<1>3. ASSUME Command(h), ~FindCoins(h), ~SelfSpend(h), ~PrintCategory(h), ~Mint(h) PROVE Quiet(h)
  <2>1. coins' = coins /\ printed' = printed
    BY <1>3 DEF Command, StartGenesis, StartRotate, FindHead, Broadcast, WriteManifest, TornWrite,
                Stop
  <2>2. cmd'[h].pc \in {"idle", "coins", "head", "send", "write"}
    <3>0. cmd[h] \in CmdState
      BY DEF IInv, Shape
    <3>1. \A c : Go(h, c) => cmd'[h] = c
      BY <1>0 DEF Go
    <3>2. Idle.pc = "idle"
      BY DEF Idle
    <3>3. CASE \E prepare \in BOOLEAN : StartGenesis(h, prepare)
      BY <3>1, <3>3 DEF StartGenesis, Idle
    <3>4. CASE \E next \in Place : StartRotate(h, next)
      BY <3>1, <3>4 DEF StartRotate, Idle
    <3>5. CASE FindHead(h)
      <4>1. \A n : [cmd[h] EXCEPT !.pc = "send", !.spent = n].pc = "send"
        BY <3>0 DEF CmdState
      <4> QED
        BY <3>1, <3>2, <3>5, <4>1 DEF FindHead
    <3>6. CASE Broadcast(h)
      <4>1. [cmd[h] EXCEPT !.pc = "write"].pc = "write"
        BY <3>0 DEF CmdState
      <4> QED
        BY <3>1, <3>2, <3>6, <4>1 DEF Broadcast, Refused
    <3>7. CASE WriteManifest(h) \/ TornWrite(h) \/ Stop(h)
      BY <3>1, <3>2, <3>7 DEF WriteManifest, TornWrite, Stop
    <3> QED
      BY <1>3, <3>3, <3>4, <3>5, <3>6, <3>7 DEF Command
  <2> QED
    BY <2>1, <2>2 DEF Quiet
<1> QED
  BY <1>1, <1>2, <1>3 DEF Next, vars, SignApproval, RewriteByHand, AnyoneRotates, PostUpdate

LEMMA FundingFacts ==
  ASSUME NEW h \in Home
  PROVE  /\ Funding(h) = {c \in Paying(h) : \A d \in Paying(h) : d.sats <= c.sats}
         /\ Funding(h) \subseteq Paying(h) /\ Paying(h) \subseteq coins[h]
         /\ (Funding(h) = {c \in Paying(h) : \A d \in Paying(h) : d.sats <= c.sats})'
         /\ (Paying(h) \subseteq coins[h])'
  BY DEF Funding, Largest, Paying

(* A home without funding has no coin that pays, so that one is made. *)
LEMMA NothingPays ==
  ASSUME IInv, NEW h \in Home, HomeOK(h), Funding(h) = {}
  PROVE  Paying(h) = {}
<1>1. IsFiniteSet(Paying(h)) /\ \A c \in Paying(h) : c.sats \in Nat
  BY CoinsAreFinite, FundingFacts, FS_Subset DEF HomeOK, Coin
<1>2. Largest(Paying(h)) = Funding(h)
  BY FundingFacts DEF Largest
<1> HIDE DEF Paying
<1> QED
  BY <1>1, <1>2, LargestExists

(* What a self-spend makes is the one coin that pays. *)
LEMMA SelfSpendMakes ==
  ASSUME IInv, NEW h \in Home, HomeOK(h), SelfSpend(h)
  PROVE  \E made \in Coin :
           /\ coins'[h] = (coins[h] \ pick[h]) \cup {made} /\ pick'[h] = {made}
           /\ (Paying(h) = {made} /\ Funding(h) = {made})'
<1> DEFINE made == [id |-> txs + 1, first |-> TRUE, sats |-> Sats(pick[h])]
<1>1. /\ coins' = [coins EXCEPT ![h] = (@ \ pick[h]) \cup {made}]
      /\ pick' = [pick EXCEPT ![h] = {made}] /\ cmd[h].pc = "split"
  BY DEF SelfSpend, At
<1>2. coins'[h] = (coins[h] \ pick[h]) \cup {made} /\ pick'[h] = {made}
  <2>1. coins = [g \in Home |-> coins[g]] /\ pick = [g \in Home |-> pick[g]]
    BY DEF IInv, Shape
  <2> HIDE DEF made
  <2> QED
    BY <1>1, <2>1
<1>3. Paying(h) = {} /\ Sats(pick[h]) > Need
  BY <1>1 DEF HomeOK
<1>4. Sats(pick[h]) \in Nat
  <2>1. IsFiniteSet(pick[h]) /\ \A c \in pick[h] : c.sats \in Nat
    BY CoinsAreFinite, FS_Subset DEF IInv, FreshIds, HomeOK, Coin
  <2> QED
    BY <2>1, SatsType
<1>5. made \in Coin /\ made.first /\ made.sats >= Need /\ made.sats \in Nat
  BY <1>3, <1>4, GovernanceAssumption DEF Coin, IInv, Shape
<1> HIDE DEF made
<1>6. Paying(h)' = {made}
  BY <1>2, <1>3, <1>5 DEF Paying
<1>7. Funding(h)' = {made}
  BY <1>5, <1>6, FundingFacts
<1> QED
  BY <1>2, <1>5, <1>6, <1>7

(* Minting takes the coin it picked, and the change it makes funds nothing. *)
LEMMA MintTakes ==
  ASSUME IInv, NEW h \in Home, HomeOK(h), Mint(h)
  PROVE  \E c \in Funding(h) :
           /\ Paying(h)' = Paying(h) \ {c}
           /\ coins'[h] \subseteq Coin
           /\ DOMAIN heads' = DOMAIN heads \cup {c.id}
           /\ cmd'[h].pc = "write" /\ cmd'[h].cat = c.id
<1>1. PICK c \in pick[h] :
        /\ cmd[h].pc = "mint"
        /\ heads' = [x \in DOMAIN heads \cup {c.id} |->
                       IF x = c.id THEN FirstHead("oracle", GenesisTable[h]) ELSE heads[x]]
        /\ coins' = [coins EXCEPT ![h] = (@ \ {c}) \cup
                        {[id |-> txs + 1, first |-> FALSE, sats |-> c.sats - Need]}]
        /\ Go(h, [Idle EXCEPT !.pc = "write", !.cat = c.id, !.next = At27(GenesisTable[h])])
  BY DEF Mint, At
<1> DEFINE change == [id |-> txs + 1, first |-> FALSE, sats |-> c.sats - Need]
<1>2. c \in Funding(h)
  BY <1>1 DEF HomeOK
<1>3. c \in coins[h] /\ c.sats >= Need /\ c.sats \in Nat
  BY <1>2, FundingFacts DEF Paying, HomeOK, Coin
<1>4. change \in Coin /\ ~change.first
  BY <1>3, GovernanceAssumption DEF Coin, IInv, Shape
<1>5. coins'[h] = (coins[h] \ {c}) \cup {change}
  <2>1. coins = [g \in Home |-> coins[g]]
    BY DEF IInv, Shape
  <2> QED
    BY <1>1, <2>1
<1> HIDE DEF change
<1>6. coins'[h] \subseteq Coin
  BY <1>4, <1>5 DEF HomeOK
<1>7. Paying(h)' = Paying(h) \ {c}
  BY <1>4, <1>5 DEF Paying
<1>8. DOMAIN heads' = DOMAIN heads \cup {c.id}
  BY <1>1
<1>9. cmd'[h].pc = "write" /\ cmd'[h].cat = c.id
  BY <1>1 DEF Go, Idle, IInv, Shape
<1> QED
  BY <1>2, <1>6, <1>7, <1>8, <1>9

LEMMA FindPicks ==
  ASSUME IInv, NEW h \in Home, FindCoins(h)
  PROVE  /\ coins'[h] = coins[h]
         /\ \/ cmd'[h].pc = "idle"
            \/ cmd'[h].pc \in {"print", "mint"} /\ pick'[h] \subseteq Funding(h)
            \/ cmd'[h].pc = "split" /\ Funding(h) = {} /\ Sats(pick'[h]) > Need
<1>0. /\ cmd = [g \in Home |-> cmd[g]] /\ pick = [g \in Home |-> pick[g]]
      /\ cmd[h] \in CmdState
  BY DEF IInv, Shape
<1>1. coins' = coins
  BY DEF FindCoins
<1>2. /\ \A j : Go(h, j) => cmd'[h] = j
      /\ \A p : [cmd[h] EXCEPT !.pc = p].pc = p
  BY <1>0 DEF Go, CmdState
<1>3. HasCoin(h) \in {"print", "mint"}
  BY DEF HasCoin
<1>4. ASSUME NEW c \in Funding(h), Go(h, [cmd[h] EXCEPT !.pc = HasCoin(h)]),
             pick' = [pick EXCEPT ![h] = {c}]
      PROVE  cmd'[h].pc \in {"print", "mint"} /\ pick'[h] \subseteq Funding(h)
  BY <1>0, <1>2, <1>3, <1>4
<1>5. ASSUME NEW S \in ToMerge(h), Go(h, [cmd[h] EXCEPT !.pc = "split"]),
             pick' = [pick EXCEPT ![h] = S]
      PROVE  cmd'[h].pc = "split" /\ Sats(pick'[h]) > Need
  <2>1. cmd'[h].pc = "split" /\ pick'[h] = S
    BY <1>0, <1>2, <1>5
  <2>2. Sats(S) > Need
    BY DEF ToMerge
  <2> QED
    BY <2>1, <2>2
<1>6. Go(h, Idle) => cmd'[h].pc = "idle"
  BY <1>2 DEF Idle
<1> QED
  BY <1>1, <1>4, <1>5, <1>6 DEF FindCoins

LEMMA HomeStep ==
  ASSUME IInv, RecordsOK, [Next]_vars, NEW h \in Home, HomeOK(h)
  PROVE  HomeOK(h)'
<1>1. CASE Quiet(h)
  <2>1. coins'[h] = coins[h]
    BY <1>1 DEF Quiet
  <2>2. Paying(h)' = Paying(h) /\ Funding(h)' = Funding(h)
    BY <2>1 DEF Paying, Funding
  <2> QED
    BY <1>1, <2>1, <2>2 DEF Quiet, HomeOK
<1>2. CASE FindCoins(h)
  <2>1. Paying(h)' = Paying(h) /\ Funding(h)' = Funding(h) /\ coins'[h] = coins[h]
    BY <1>2, FindPicks DEF Paying, Funding
  <2> QED
    BY <1>2, <2>1, FindPicks, NothingPays DEF HomeOK
<1>3. CASE SelfSpend(h)
  <2>1. cmd'[h].pc \in {"print", "mint"}
    BY <1>3 DEF SelfSpend, Go, HasCoin, IInv, Shape, CmdState
  <2> QED
    BY <1>3, <2>1, SelfSpendMakes DEF HomeOK
<1>4. CASE PrintCategory(h)
  <2>1. cmd'[h].pc = "idle" /\ coins'[h] = coins[h]
    BY <1>4 DEF PrintCategory, Go, Idle, IInv, Shape
  <2> QED
    BY <2>1 DEF HomeOK
<1>5. CASE Mint(h)
  BY <1>5, MintTakes DEF HomeOK
<1> QED
  BY <1>1, <1>2, <1>3, <1>4, <1>5, EachHome

LEMMA HomeInit == Init => CoinsOK
<1> SUFFICES ASSUME Init, NEW h \in Home PROVE HomeOK(h)
  BY DEF CoinsOK
<1>1. FirstCoins[h] \subseteq Coin
  BY GovernanceAssumption DEF Coin
<1> QED
  BY <1>1 DEF Init, HomeOK, Idle

LEMMA AlwaysCoins == Spec => [](IInv /\ RecordsOK /\ CoinsOK)
<1>1. IInv /\ RecordsOK /\ CoinsOK /\ [Next]_vars => CoinsOK'
  BY HomeStep DEF CoinsOK
<1> QED
  BY <1>1, InitInv, StepInv, RecordsInit, RecordsStep, HomeInit, PTL DEF Spec

-----------------------------------------------------------------------------
(* The category that was printed. *)

(* No two of a home's first coins that could pay for a genesis are worth the same: which of equal *)
(* coins a genesis takes is up to the order in which the server lists them.                       *)
NoTies ==
    \A h \in Home : \A c, d \in FirstCoins[h] :
        c.first /\ d.first /\ c.sats = d.sats /\ c.sats >= Need => c = d

PreparedOK(h) ==
    /\ \A c, d \in Paying(h) : c.sats = d.sats => c = d
    /\ printed[h] # 0 /\ printed[h] \notin DOMAIN heads => \E c \in Funding(h) : c.id = printed[h]

LEMMA OneBest ==
  ASSUME NEW h \in Home, HomeOK(h), PreparedOK(h), NEW c \in Funding(h), NEW d \in Funding(h)
  PROVE  c = d
<1>1. c \in Paying(h) /\ d \in Paying(h) /\ c.sats <= d.sats /\ d.sats <= c.sats
  BY FundingFacts
<1>2. c.sats \in Nat /\ d.sats \in Nat
  BY <1>1, FundingFacts DEF HomeOK, Coin
<1> QED
  BY <1>1, <1>2 DEF PreparedOK

LEMMA PreparedStep ==
  ASSUME IInv, RecordsOK, [Next]_vars, NEW h \in Home, HomeOK(h), PreparedOK(h)
  PROVE  PreparedOK(h)'
<1>1. DOMAIN heads \subseteq DOMAIN heads'
  BY StepKeeps DEF Kept, Later
<1>2. CASE coins'[h] = coins[h] /\ printed'[h] = printed[h]
  <2>1. Paying(h)' = Paying(h) /\ Funding(h)' = Funding(h)
    BY <1>2 DEF Paying, Funding
  <2> QED
    BY <1>1, <1>2, <2>1 DEF PreparedOK
<1>3. CASE FindCoins(h)
  BY <1>2, <1>3 DEF FindCoins
<1>4. CASE SelfSpend(h)
  <2>1. PICK made \in Coin : Paying(h)' = {made} /\ Funding(h)' = {made}
    BY <1>4, SelfSpendMakes
  <2>2. printed'[h] = printed[h]
    BY <1>4 DEF SelfSpend
  <2>3. Funding(h) = {}
    BY <1>4, FundingFacts DEF SelfSpend, At, HomeOK
  <2> QED
    BY <1>1, <2>1, <2>2, <2>3 DEF PreparedOK
<1>5. CASE PrintCategory(h)
  <2>1. PICK c \in pick[h] : printed' = [printed EXCEPT ![h] = c.id]
    BY <1>5 DEF PrintCategory
  <2>2. c \in Funding(h) /\ coins' = coins
    BY <1>5 DEF PrintCategory, At, HomeOK
  <2>3. printed'[h] = c.id
    BY <2>1 DEF RecordsOK
  <2>4. Paying(h)' = Paying(h) /\ Funding(h)' = Funding(h)
    BY <2>2 DEF Paying, Funding
  <2> QED
    BY <2>2, <2>3, <2>4 DEF PreparedOK
<1>6. CASE Mint(h)
  <2>1. PICK c \in Funding(h) : Paying(h)' = Paying(h) \ {c} /\ DOMAIN heads' = DOMAIN heads \cup {c.id}
    BY <1>6, MintTakes
  <2>2. printed'[h] = printed[h]
    BY <1>6 DEF Mint
  <2>3. printed[h] # 0 /\ printed[h] \notin DOMAIN heads => printed[h] = c.id
    BY OneBest DEF PreparedOK
  <2> QED
    BY <2>1, <2>2, <2>3 DEF PreparedOK
<1>7. CASE Quiet(h)
  BY <1>2, <1>7 DEF Quiet
<1> QED
  BY <1>3, <1>4, <1>5, <1>6, <1>7, EachHome

LEMMA PreparedInit ==
  ASSUME NoTies, Init, NEW h \in Home
  PROVE  PreparedOK(h)
<1>1. Paying(h) \subseteq FirstCoins[h] /\ \A c \in Paying(h) : c.first /\ c.sats >= Need
  BY DEF Init, Paying
<1> QED
  BY <1>1 DEF NoTies, PreparedOK, Init

LEMMA MintsWhatWasPrinted ==
  ASSUME IInv, NEW h \in Home, HomeOK(h), PreparedOK(h), [Next]_vars, RecordsOK,
         At(h, "mint"), cmd'[h].pc = "write", printed[h] # 0, printed[h] \notin DOMAIN heads
  PROVE  cmd'[h].cat = printed[h]
<1>1. Mint(h)
  <2>1. cmd[h].pc = "mint" /\ cmd'[h].pc # cmd[h].pc
    BY DEF At
  <2>2. CASE \E g \in Home : Command(g)
    <3>1. PICK g \in Home : Command(g)
      BY <2>2
    <3>2. g = h
      BY <2>1, <3>1 DEF IInv, Shape, Command, Go, StartGenesis, FindCoins, SelfSpend, PrintCategory,
         Mint, StartRotate, FindHead, Broadcast, Refused, WriteManifest, TornWrite, Stop
    <3>3. Mint(h) \/ Stop(h)
      BY <2>1, <3>1, <3>2 DEF Command, At, StartGenesis, FindCoins, SelfSpend, PrintCategory,
         StartRotate, FindHead, Broadcast, WriteManifest, TornWrite
    <3>4. Stop(h) => cmd'[h].pc = "idle"
      BY DEF Stop, Go, Idle, IInv, Shape
    <3> QED
      BY <3>3, <3>4
  <2>3. CASE cmd' = cmd
    BY <2>1, <2>3
  <2> QED
    BY <2>2, <2>3 DEF Next, vars, SignApproval, RewriteByHand, AnyoneRotates, PostUpdate
<1>2. PICK c \in Funding(h) : cmd'[h].cat = c.id
  BY <1>1, MintTakes
<1> QED
  BY <1>2, OneBest DEF PreparedOK

-----------------------------------------------------------------------------
(* Heads nobody's manifest names. *)

Names(h, c) ==
    \/ file[h].state = "whole" /\ file[h].cat = c
    \/ cmd[h].pc = "write" /\ cmd[h].cat = c

Forgotten == {c \in DOMAIN heads : heads[c].lock # "p2pkh" /\ \A h \in Home : ~Names(h, c)}

(* A genesis runs without a manifest, and a rotation over the one of its own deployment, so that *)
(* the file it overwrites names no other head.                                                   *)
OneDeployment(h) ==
    file[h].state = "whole" =>
        /\ cmd[h].pc \notin {"coins", "split", "print", "mint"}
        /\ cmd[h].pc \in {"head", "send", "write"} => cmd[h].cat = file[h].cat

FewForgotten ==
    /\ \A h \in Home : OneDeployment(h)
    /\ Cardinality(Forgotten) <= faults

(* What a step does to the file and the command of one home. *)
Replaces(h) ==
    /\ OneDeployment(h)'
    /\ \A c \in DOMAIN heads : Names(h, c) => Names(h, c)'
Drops(h) ==
    /\ OneDeployment(h)'
    /\ faults' = faults + 1
    /\ \E x \in Nat : \A c \in DOMAIN heads : Names(h, c) => Names(h, c)' \/ c = x

LEMMA Commanded ==
  ASSUME IInv, NEW h \in Home, OneDeployment(h), Command(h)
  PROVE  (Replaces(h) /\ faults' = faults) \/ Drops(h)
<1>0. /\ cmd = [g \in Home |-> cmd[g]] /\ file = [g \in Home |-> file[g]]
      /\ cmd[h] \in CmdState
  BY DEF IInv, Shape
<1>1. /\ \A c : Go(h, c) => cmd'[h] = c
      /\ \A p : [cmd[h] EXCEPT !.pc = p].pc = p /\ [cmd[h] EXCEPT !.pc = p].cat = cmd[h].cat
      /\ \A n : /\ [cmd[h] EXCEPT !.pc = "send", !.spent = n].pc = "send"
                /\ [cmd[h] EXCEPT !.pc = "send", !.spent = n].cat = cmd[h].cat
      /\ Idle.pc = "idle"
  BY <1>0 DEF Go, CmdState, Idle
<1>2. ASSUME file' = file, faults' = faults, cmd[h].pc # "write",
             \/ cmd'[h].pc = "idle"
             \/ file[h] = NoFile
             \/ cmd'[h].pc \in {"head", "send", "write"} /\ cmd'[h].cat = file[h].cat
             \/ cmd[h].pc \in {"coins", "split", "print", "mint"}
      PROVE  Replaces(h) /\ faults' = faults
  BY <1>2 DEF Replaces, OneDeployment, Names, NoFile
<1>3. ASSUME NEW prepare \in BOOLEAN, StartGenesis(h, prepare) PROVE Replaces(h) /\ faults' = faults
  BY <1>2, <1>3 DEF StartGenesis, MayStart, At
<1>4. ASSUME FindCoins(h) \/ SelfSpend(h) \/ PrintCategory(h) \/ Mint(h)
      PROVE  Replaces(h) /\ faults' = faults
  BY <1>2, <1>4 DEF FindCoins, SelfSpend, PrintCategory, Mint, At
<1>5. ASSUME NEW next \in Place, StartRotate(h, next) PROVE Replaces(h) /\ faults' = faults
  <2>1. cmd'[h].pc = "head" /\ cmd'[h].cat = file[h].cat
    BY <1>1, <1>5 DEF StartRotate, Idle
  <2> QED
    BY <1>2, <1>5, <2>1 DEF StartRotate, At
<1>6. ASSUME FindHead(h) PROVE Replaces(h) /\ faults' = faults
  <2>1. cmd[h].pc = "head" /\ file' = file /\ faults' = faults
    BY <1>6 DEF FindHead, At
  <2>2. cmd'[h].pc = "idle" \/ (cmd'[h].pc = "send" /\ cmd'[h].cat = cmd[h].cat)
    <3>1. CASE Go(h, Idle)
      BY <1>1, <3>1
    <3>2. CASE Go(h, [cmd[h] EXCEPT !.pc = "send", !.spent = heads[cmd[h].cat].spent])
      <4> DEFINE j == [cmd[h] EXCEPT !.pc = "send", !.spent = heads[cmd[h].cat].spent]
      <4>1. cmd'[h] = j /\ j.pc = "send" /\ j.cat = cmd[h].cat
        BY <1>0, <1>1, <3>2 DEF CmdState
      <4> HIDE DEF j
      <4> QED
        BY <4>1
    <3> QED
      BY <1>6, <3>1, <3>2 DEF FindHead
  <2> QED
    BY <2>1, <2>2 DEF Replaces, OneDeployment, Names
<1>7. ASSUME Broadcast(h) PROVE Replaces(h) /\ faults' = faults
  <2>1. cmd[h].pc = "send" /\ file' = file /\ faults' = faults
    BY <1>7 DEF Broadcast, At
  <2>2. cmd'[h].pc = "idle" \/ (cmd'[h].pc = "write" /\ cmd'[h].cat = cmd[h].cat)
    <3>1. CASE Go(h, Idle)
      BY <1>1, <3>1
    <3>2. CASE Go(h, [cmd[h] EXCEPT !.pc = "write"])
      <4> DEFINE j == [cmd[h] EXCEPT !.pc = "write"]
      <4>1. cmd'[h] = j /\ j.pc = "write" /\ j.cat = cmd[h].cat
        BY <1>0, <1>1, <3>2 DEF CmdState
      <4> HIDE DEF j
      <4> QED
        BY <4>1
    <3> QED
      BY <1>7, <3>1, <3>2 DEF Broadcast, Refused
  <2> QED
    BY <2>1, <2>2 DEF Replaces, OneDeployment, Names
<1>8. ASSUME WriteManifest(h) PROVE Replaces(h) /\ faults' = faults
  <2>1. cmd[h].pc = "write" /\ cmd'[h].pc = "idle" /\ faults' = faults
    BY <1>1, <1>8 DEF WriteManifest, At
  <2>2. file'[h].state = "whole" /\ file'[h].cat = cmd[h].cat
    BY <1>0, <1>8 DEF WriteManifest, Manifest
  <2> QED
    BY <2>1, <2>2 DEF Replaces, OneDeployment, Names
<1>9. ASSUME TornWrite(h) \/ Stop(h) PROVE Drops(h)
  <2>1. /\ cmd'[h].pc = "idle" /\ faults' = faults + 1
        /\ file'[h] = file[h] \/ (file'[h] = TornFile /\ cmd[h].pc = "write")
    BY <1>0, <1>1, <1>9 DEF TornWrite, Stop, Lost, At
  <2>2. OneDeployment(h)'
    BY <2>1 DEF OneDeployment
  <2>3. \A c \in DOMAIN heads : Names(h, c) => Names(h, c)' \/ c = cmd[h].cat
    BY <2>1 DEF Names, OneDeployment
  <2>4. cmd[h].cat \in Nat
    BY <1>0 DEF CmdState
  <2> QED
    BY <2>1, <2>2, <2>3, <2>4 DEF Drops
<1> QED
  BY <1>3, <1>4, <1>5, <1>6, <1>7, <1>8, <1>9 DEF Command

LEMMA OthersHome ==
  ASSUME IInv, NEW h \in Home, NEW g \in Home, g # h, OneDeployment(g), Command(h)
  PROVE  Replaces(g)
<1>1. /\ cmd' = cmd \/ \E c : Go(h, c)
      /\ file' = file \/ \E f : file' = [file EXCEPT ![h] = f]
  <2>1. CASE \E prepare \in BOOLEAN : StartGenesis(h, prepare)
    BY <2>1 DEF StartGenesis
  <2>2. CASE FindCoins(h) \/ SelfSpend(h) \/ PrintCategory(h)
    BY <2>2 DEF FindCoins, SelfSpend, PrintCategory
  <2>3. CASE Mint(h)
    BY <2>3 DEF Mint
  <2>4. CASE \E next \in Place : StartRotate(h, next)
    BY <2>4 DEF StartRotate
  <2>5. CASE FindHead(h)
    BY <2>5 DEF FindHead
  <2>6. CASE Broadcast(h)
    BY <2>6 DEF Broadcast, Refused
  <2>7. CASE WriteManifest(h) \/ TornWrite(h) \/ Stop(h)
    BY <2>7 DEF WriteManifest, TornWrite, Stop
  <2> QED
    BY <2>1, <2>2, <2>3, <2>4, <2>5, <2>6, <2>7 DEF Command
<1>2. cmd'[g] = cmd[g] /\ file'[g] = file[g]
  BY <1>1 DEF IInv, Shape, Go
<1> QED
  BY <1>2 DEF Replaces, Names, OneDeployment

(* A head that is new is about to be named, and one that was spent stays spent. *)
LEMMA NoneNewlyLoose ==
  ASSUME IInv, [Next]_vars, NEW c \in DOMAIN heads', heads'[c].lock # "p2pkh"
  PROVE  \/ c \in DOMAIN heads /\ heads[c].lock # "p2pkh"
         \/ \E h \in Home : Names(h, c)'
<1>1. CASE heads' = heads
  BY <1>1
<1>2. ASSUME NEW h \in Home, Mint(h)
      PROVE  (c \in DOMAIN heads /\ heads'[c] = heads[c]) \/ Names(h, c)'
  <2>1. PICK d \in pick[h] :
          /\ heads' = [x \in DOMAIN heads \cup {d.id} |->
                         IF x = d.id THEN FirstHead("oracle", GenesisTable[h]) ELSE heads[x]]
          /\ Go(h, [Idle EXCEPT !.pc = "write", !.cat = d.id, !.next = At27(GenesisTable[h])])
    BY <1>2 DEF Mint
  <2>2. cmd'[h].pc = "write" /\ cmd'[h].cat = d.id
    BY <2>1 DEF Go, Idle, IInv, Shape
  <2> QED
    BY <2>1, <2>2 DEF Names
<1>3. ASSUME NEW x \in DOMAIN heads, Readable(heads[x]),
             \E y : heads' = [heads EXCEPT ![x] = y]
      PROVE  c \in DOMAIN heads /\ heads[c].lock # "p2pkh"
  <2>1. DOMAIN heads' = DOMAIN heads
    BY <1>3
  <2>2. CASE c = x
    BY <1>3, <2>2 DEF Readable
  <2>3. CASE c # x
    <3>1. heads = [y \in DOMAIN heads |-> heads[y]]
      BY DEF IInv, Shape
    <3>2. heads'[c] = heads[c]
      BY <1>3, <2>1, <2>3, <3>1
    <3> QED
      BY <2>1, <3>2
  <2> QED
    BY <2>2, <2>3
<1>4. ASSUME NEW h \in Home, Broadcast(h) PROVE c \in DOMAIN heads /\ heads[c].lock # "p2pkh"
  <2>1. cmd[h].cat \in DOMAIN heads
    BY <1>4 DEF Broadcast, At, IInv, CommandsOK, CommandOK
  <2> QED
    BY <1>1, <1>3, <1>4, <2>1 DEF Broadcast, Spendable
<1>5. ASSUME NEW h \in Home, Command(h), heads' # heads, ~Mint(h) PROVE Broadcast(h)
  BY <1>5 DEF Command, StartGenesis, FindCoins, SelfSpend, PrintCategory, StartRotate, FindHead,
       WriteManifest, TornWrite, Stop
<1>6. ASSUME NEW x \in DOMAIN heads, NEW next \in Place, NEW rows \in Majorities(heads[x].table),
             AnyoneRotates(x, rows, next)
      PROVE  c \in DOMAIN heads /\ heads[c].lock # "p2pkh"
  BY <1>3, <1>6 DEF AnyoneRotates, Spendable
<1>7. ASSUME NEW x \in DOMAIN heads, PostUpdate(x)
      PROVE  c \in DOMAIN heads /\ heads[c].lock # "p2pkh"
  BY <1>3, <1>7 DEF PostUpdate, Spendable
<1> QED
  BY <1>1, <1>2, <1>4, <1>5, <1>6, <1>7 DEF Next, vars, SignApproval, RewriteByHand

LEMMA ForgottenFacts ==
  ASSUME IInv
  PROVE  IsFiniteSet(Forgotten) /\ Cardinality(Forgotten) \in Nat
<1>1. IsFiniteSet(1..txs)
  BY FS_Interval DEF IInv, Shape
<1>2. Forgotten \subseteq 1..txs
  BY DEF Forgotten, IInv, Shape
<1> QED
  BY <1>1, <1>2, FS_Subset, FS_CardinalityType

(* Each step forgets nothing, or one head and a command has stopped. *)
LEMMA ForgettingStep ==
  ASSUME IInv, RecordsOK, FewForgotten, [Next]_vars
  PROVE  FewForgotten'
<1>0. IsFiniteSet(Forgotten) /\ Cardinality(Forgotten) \in Nat /\ faults \in Nat
  BY ForgottenFacts, GovernanceAssumption DEF RecordsOK
<1>1. ASSUME \A h \in Home : Replaces(h), faults' = faults PROVE FewForgotten'
  <2>1. Forgotten' \subseteq Forgotten
    <3> SUFFICES ASSUME NEW c \in Forgotten' PROVE c \in Forgotten
      OBVIOUS
    <3>1. c \in DOMAIN heads' /\ heads'[c].lock # "p2pkh" /\ \A h \in Home : ~(Names(h, c)')
      BY DEF Forgotten
    <3>2. c \in DOMAIN heads /\ heads[c].lock # "p2pkh"
      BY <3>1, NoneNewlyLoose
    <3> QED
      BY <1>1, <3>1, <3>2 DEF Forgotten, Replaces
  <2>2. Cardinality(Forgotten') <= Cardinality(Forgotten) /\ Cardinality(Forgotten') \in Nat
    BY <1>0, <2>1, FS_Subset, FS_CardinalityType
  <2>3. Cardinality(Forgotten') <= faults'
    BY <1>0, <1>1, <2>2 DEF FewForgotten
  <2> QED
    BY <1>1, <2>3 DEF FewForgotten, Replaces
<1>2. ASSUME NEW h \in Home, Drops(h), \A g \in Home : g # h => Replaces(g) PROVE FewForgotten'
  <2>1. PICK x \in Nat : \A c \in DOMAIN heads : Names(h, c) => Names(h, c)' \/ c = x
    BY <1>2 DEF Drops
  <2>2. Forgotten' \subseteq Forgotten \cup {x}
    <3> SUFFICES ASSUME NEW c \in Forgotten', c # x PROVE c \in Forgotten
      OBVIOUS
    <3>1. c \in DOMAIN heads' /\ heads'[c].lock # "p2pkh" /\ \A g \in Home : ~(Names(g, c)')
      BY DEF Forgotten
    <3>2. c \in DOMAIN heads /\ heads[c].lock # "p2pkh"
      BY <3>1, NoneNewlyLoose
    <3> QED
      BY <1>2, <2>1, <3>1, <3>2 DEF Forgotten, Replaces
  <2>3. /\ IsFiniteSet(Forgotten \cup {x})
        /\ Cardinality(Forgotten \cup {x}) <= Cardinality(Forgotten) + 1
        /\ Cardinality(Forgotten \cup {x}) \in Nat
    <3>1. /\ IsFiniteSet(Forgotten \cup {x})
          /\ Cardinality(Forgotten \cup {x}) =
               IF x \in Forgotten THEN Cardinality(Forgotten) ELSE Cardinality(Forgotten) + 1
      BY <1>0, FS_AddElement
    <3> HIDE DEF Forgotten
    <3> QED
      BY <1>0, <3>1
  <2>4. Cardinality(Forgotten') <= Cardinality(Forgotten \cup {x}) /\ Cardinality(Forgotten') \in Nat
    BY <2>2, <2>3, FS_Subset, FS_CardinalityType
  <2>5. Cardinality(Forgotten') <= faults'
    BY <1>0, <1>2, <2>3, <2>4 DEF FewForgotten, Drops
  <2> QED
    BY <1>2, <2>5 DEF FewForgotten, Drops, Replaces
<1>3. ASSUME file' = file, cmd' = cmd, faults' = faults PROVE FewForgotten'
  <2>1. \A h \in Home : Replaces(h)
    BY <1>3 DEF FewForgotten, Replaces, OneDeployment, Names
  <2> QED
    BY <1>1, <1>3, <2>1
<1>4. ASSUME NEW h \in Home, Command(h) PROVE FewForgotten'
  <2>1. \A g \in Home : g # h => Replaces(g)
    BY <1>4, OthersHome DEF FewForgotten
  <2>2. (Replaces(h) /\ faults' = faults) \/ Drops(h)
    BY <1>4, Commanded DEF FewForgotten
  <2> QED
    BY <1>1, <1>2, <2>1, <2>2
<1>5. ASSUME NEW h \in Home, NEW c \in DOMAIN heads, RewriteByHand(h, c) PROVE FewForgotten'
  <2>0. file = [g \in Home |-> file[g]]
    BY DEF IInv, Shape
  <2>1. /\ cmd[h].pc = "idle" /\ cmd' = cmd /\ faults' = faults
        /\ file[h].state = "whole" => file[h].cat = c
        /\ file'[h].state = "whole" /\ file'[h].cat = c
        /\ \A g \in Home : g # h => file'[g] = file[g]
    BY <1>5, <2>0 DEF RewriteByHand, At, Manifest
  <2>2. \A g \in Home : Replaces(g)
    <3> TAKE g \in Home
    <3>1. CASE g = h
      BY <2>1, <3>1 DEF Replaces, OneDeployment, Names
    <3>2. CASE g # h
      BY <2>1, <3>2 DEF FewForgotten, Replaces, OneDeployment, Names
    <3> QED
      BY <3>1, <3>2
  <2> QED
    BY <1>1, <2>1, <2>2
<1>6. CASE UNCHANGED vars
  BY <1>3, <1>6 DEF vars
<1> QED
  BY <1>3, <1>4, <1>5, <1>6 DEF Next, SignApproval, AnyoneRotates, PostUpdate

LEMMA ForgottenInit == Init => FewForgotten
<1> SUFFICES ASSUME Init PROVE FewForgotten
  OBVIOUS
<1>1. /\ \A h \in Home : cmd[h].pc = "idle"
      /\ \A h \in OldHome : h \in Home /\ file[h].state = "whole" /\ file[h].cat = OldCat
      /\ faults = 0
  BY GovernanceAssumption DEF Init, Idle, Manifest
<1>2. \A c \in DOMAIN heads : c = OldCat /\ OldHome # {}
  BY DEF Init
<1>3. Forgotten = {}
  BY <1>1, <1>2 DEF Forgotten, Names
<1>4. Cardinality(Forgotten) = 0
  BY <1>3, FS_EmptySet
<1> QED
  BY <1>1, <1>4 DEF FewForgotten, OneDeployment

-----------------------------------------------------------------------------
(* Theorems. *)

(* A readable manifest.json names a head on chain and a table it has had, and the new version    *)
(* only of a head that has left the old covenant, wherever genesis, rotate and migrate were      *)
(* stopped and whoever overtook them (broadcast before fs::write).                               *)
THEOREM FilesDescribeChain == Spec => []FileDescribesChain
  BY Invariant, PTL DEF IInv

(* No head takes a table again, however old the approvals that are posted, if every majority of  *)
(* every table has one row that keeps the rule of operation (what Approval's digest binds).      *)
THEOREM NoReturn == Spec => NeverReturns
<1>1. IInv /\ [Next]_vars =>
        [\A c \in DOMAIN heads : heads'[c].table # heads[c].table =>
            heads'[c].table \notin heads[c].used]_vars
  BY StepKeeps DEF Kept, Later
<1> QED
  BY <1>1, Invariant, PTL DEF Spec, NeverReturns

(* Every variable stays in its range; what is more than its shape is that the coin a genesis      *)
(* mints from is worth what it takes, so that the change is not negative (`*v >= need` and        *)
(* `acc < need + 1_000` in genesis.rs, of coins read some steps before they are spent).           *)
THEOREM TypeCorrect == Spec => []TypeOK
<1>1. IInv /\ RecordsOK /\ CoinsOK => TypeOK
  <2> SUFFICES ASSUME IInv, RecordsOK, CoinsOK PROVE TypeOK
    OBVIOUS
  <2>1. coins \in [Home -> SUBSET Coin] /\ pick \in [Home -> SUBSET Coin]
    BY DEF IInv, Shape, FreshIds, CoinsOK, HomeOK
  <2>2. DOMAIN heads \subseteq Nat \ {0}
    BY DEF IInv, Shape
  <2> QED
    BY <2>1, <2>2 DEF IInv, Shape, FileState, CmdState, RecordsOK, TypeOK
<1> QED
  BY <1>1, AlwaysCoins, PTL

(* No more heads are without a manifest than commands were stopped: genesis is not run twice over *)
(* a deployment, and rotate rewrites the file of the very head it moved.                          *)
THEOREM NoneForgotten == Spec => []NothingForgotten
<1>1. FewForgotten => NothingForgotten
  BY DEF FewForgotten, Forgotten, Names, NothingForgotten, At
<1> QED
  BY <1>1, AlwaysCoins, ForgottenInit, ForgettingStep, PTL DEF Spec

(* genesis mints the category that --prepare printed, in whatever order the two run and wherever  *)
(* they are stopped, when no two of the home's first coins that could pay are worth the same.     *)
THEOREM PreparedIsMinted == NoTies => (Spec => PreparedKept)
<1> SUFFICES ASSUME NoTies PROVE Spec => PreparedKept
  OBVIOUS
<1> DEFINE AllPrepared == \A h \in Home : PreparedOK(h)
           AsPrinted == \A h \in Home : At(h, "mint") /\ cmd'[h].pc = "write"
                           /\ printed[h] # 0 /\ printed[h] \notin DOMAIN heads
                           => cmd'[h].cat = printed[h]
<1>1. Init => AllPrepared
  BY PreparedInit
<1>2. IInv /\ RecordsOK /\ CoinsOK /\ AllPrepared /\ [Next]_vars => AllPrepared'
  BY PreparedStep DEF CoinsOK
<1>3. IInv /\ RecordsOK /\ CoinsOK /\ AllPrepared /\ [Next]_vars => [AsPrinted]_vars
  BY MintsWhatWasPrinted DEF CoinsOK
<1> HIDE DEF AllPrepared
<1>4. Spec => [](IInv /\ RecordsOK /\ CoinsOK /\ AllPrepared)
  BY <1>1, <1>2, AlwaysCoins, PTL DEF Spec
<1>5. Spec => [][AsPrinted]_vars
  BY <1>3, <1>4, PTL DEF Spec
<1> QED
  BY <1>5 DEF PreparedKept
=============================================================================
