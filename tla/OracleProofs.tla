---------------------------- MODULE OracleProofs ----------------------------
(***************************************************************************)
(* What holds of Oracle for every table, price, quorum and bound, proved   *)
(* by induction over its steps; and of the consumer that reads it through  *)
(* a gate.                                                                 *)
(***************************************************************************)
EXTENDS PriceGated, FiniteSums, SequenceTheorems

-----------------------------------------------------------------------------
(* Type correctness. *)

(* A row of a table is a row index, and a table in place is a table. *)
LEMMA TableFacts ==
  ASSUME NEW t \in Tables
  PROVE  /\ Len(t) \in Row /\ Len(t) \in Nat
         /\ DOMAIN t = 1..Len(t)
         /\ \A r \in 1..Len(t) : t[r] \in Notary
<1>1. t \in Seq(Notary) /\ Len(t) \in Row
  BY TableAssumption DEF ValidTable
<1>2. Len(t) \in Nat /\ DOMAIN t = 1..Len(t)
  BY <1>1, LenProperties
<1>3. \A r \in 1..Len(t) : t[r] \in Notary
  BY <1>1, ElementOfSeq
<1> QED
  BY <1>1, <1>2, <1>3

LEMMA Sizes ==
  /\ Quorum \in Nat /\ Quorum > 0
  /\ Ahead \in Nat /\ Life \in Nat /\ TickerSats \in Nat /\ Toll \in Nat
  /\ FeeBase \in Nat /\ FeePerRow \in Nat /\ FeePerApproval \in Nat /\ FeePerEntry \in Nat
  /\ Reserve \in Nat /\ MaxRows \in Nat /\ MaxCounter \in Nat
  /\ FirstTs \in Nat /\ FirstSeq \in Nat
  BY SizeAssumption

LEMMA RowSets ==
  ASSUME NEW t \in Tables, NEW rows \in SUBSET DOMAIN t
  PROVE  /\ rows \in SUBSET Row
         /\ IsFiniteSet(DOMAIN t) /\ Cardinality(DOMAIN t) = Len(t)
         /\ IsFiniteSet(rows) /\ Cardinality(rows) \in Nat /\ Cardinality(rows) <= Len(t)
<1>1. DOMAIN t = 1..Len(t) /\ Len(t) \in Nat /\ Len(t) \in Row
  BY TableFacts
<1>2. Len(t) >= 1 /\ Len(t) <= MaxRows /\ MaxRows \in Nat
  BY <1>1, Sizes DEF Row
<1>3. rows \in SUBSET Row
  BY <1>1, <1>2 DEF Row
<1>4. IsFiniteSet(1..Len(t)) /\ Cardinality(1..Len(t)) = Len(t)
  BY <1>1, <1>2, FS_Interval
<1>5. IsFiniteSet(rows) /\ Cardinality(rows) <= Len(t)
  BY <1>1, <1>4, FS_Subset
<1> QED
  BY <1>1, <1>3, <1>4, <1>5, FS_CardinalityType

LEMMA CapType ==
  ASSUME NEW perRow \in Nat, NEW k \in Nat, NEW n \in Nat
  PROVE  FeeCap(perRow, k, n) \in Nat
<1>1. perRow * k \in Nat /\ FeePerEntry * n \in Nat
  BY Sizes
<1> QED
  BY <1>1, Sizes DEF FeeCap

LEMMA InitType == Init => TypeOK
<1> SUFFICES ASSUME Init PROVE TypeOK
  OBVIOUS
<1> USE DEF Init
<1>1. mtp \in Nat
  BY SizeAssumption
<1>2. head.snap \in Snapshot
  BY SizeAssumption DEF Snapshot
<1>3. /\ [lock |-> head.lock, table |-> head.table] \in Place
      /\ head \in [lock: {"oracle", "p2pkh"}, snap: Snapshot,
                   table: Tables \cup {<<>>}, value: Nat]
  BY <1>2, SizeAssumption, TableAssumption DEF Place
<1>4. /\ tickers \subseteq [snap: Snapshot, out: 0..2, value: Nat]
      /\ approvals \subseteq Approval
      /\ moves \subseteq [old: Tables, next: Place]
      /\ books \in [in: Nat, fees: Nat]
  BY SizeAssumption
<1>5. log \in Seq([snap: Snapshot, table: Tables, quotes: Quotes])
  OBVIOUS
<1> QED
  BY <1>1, <1>3, <1>4, <1>5 DEF TypeOK

LEMMA UpdateType ==
  ASSUME TypeOK,
         NEW rows \in SUBSET DOMAIN head.table, NEW q \in [rows -> Price],
         NEW ts \in Minute, NEW m \in Price, NEW recycled \in SUBSET tickers,
         NEW topUp \in TopUps, NEW value \in Values,
         Update(ts, q, m, recycled, topUp, value)
  PROVE  TypeOK'
<1> DEFINE k == Cardinality(DOMAIN q)
           snap == NextSnapshot(ts, q, m)
           cap == FeeCap(FeePerRow, k, Len(head.table))
           entry == [snap |-> snap, table |-> head.table, quotes |-> q]
<1>1. /\ head.lock = "oracle"
      /\ k \in Quorum..MaxRows
      /\ head' = [head EXCEPT !.snap = snap, !.value = value]
      /\ tickers' = (tickers \ recycled) \cup Fresh(snap)
      /\ log' = Append(log, entry)
      /\ books' = [in |-> books.in + topUp, fees |-> books.fees + cap]
      /\ UNCHANGED <<mtp, approvals, moves>>
  BY DEF Update, UpdateAllowed
<1>2. /\ head.table \in Tables
      /\ head.snap \in Snapshot /\ head.snap.seq \in Nat
  BY <1>1 DEF TypeOK, Place, Snapshot
<1>3. k \in Nat /\ topUp \in Nat /\ value \in Nat /\ ts \in Nat /\ m \in Int
  BY <1>1, Sizes, SizeAssumption, FeedAssumption
<1>4. snap \in Snapshot
  BY <1>2, <1>3 DEF NextSnapshot, Snapshot
<1>5. cap \in Nat
  BY <1>2, <1>3, Sizes, TableFacts, CapType
<1>6. head' \in [lock: {"oracle", "p2pkh"}, snap: Snapshot, table: Tables \cup {<<>>}, value: Nat]
  BY <1>1, <1>3, <1>4 DEF TypeOK
<1>7. head'.lock = head.lock /\ head'.table = head.table
  BY <1>1 DEF TypeOK
<1>8. Fresh(snap) \subseteq [snap: Snapshot, out: 0..2, value: Nat]
  BY <1>4, Sizes DEF Fresh
<1>9. entry \in [snap: Snapshot, table: Tables, quotes: Quotes]
  <2>1. rows \in SUBSET Row
    BY <1>2, RowSets
  <2>2. q \in Quotes
    BY <2>1 DEF Quotes
  <2> QED
    BY <2>2, <1>2, <1>4
<1>10. log' \in Seq([snap: Snapshot, table: Tables, quotes: Quotes])
  BY <1>1, <1>9 DEF TypeOK
<1>11. books' \in [in: Nat, fees: Nat]
  BY <1>1, <1>3, <1>5 DEF TypeOK
<1> QED
  BY <1>1, <1>6, <1>7, <1>8, <1>10, <1>11 DEF TypeOK

LEMMA RotateType ==
  ASSUME TypeOK,
         NEW rows \in SUBSET DOMAIN head.table, NEW next \in Place,
         NEW recycled \in SUBSET tickers, NEW topUp \in TopUps, NEW value \in Values,
         Rotate(rows, next, recycled, topUp, value)
  PROVE  TypeOK'
<1> DEFINE cap == FeeCap(FeePerApproval, Cardinality(rows), Len(head.table))
<1>1. /\ head.lock = "oracle"
      /\ head' = [lock |-> next.lock, snap |-> head.snap, table |-> next.table, value |-> value]
      /\ tickers' = tickers \ recycled
      /\ moves' = moves \cup {[old |-> head.table, next |-> next]}
      /\ books' = [in |-> books.in + topUp, fees |-> books.fees + cap]
      /\ UNCHANGED <<mtp, approvals, log>>
  BY DEF Rotate, CarriedState
<1>2. head.table \in Tables
  BY <1>1 DEF TypeOK, Place
<1>3. topUp \in Nat /\ value \in Nat
  BY SizeAssumption
<1>4. cap \in Nat
  <2>2. Cardinality(rows) \in Nat
    BY <1>2, RowSets
  <2> QED
    BY <2>2, <1>2, Sizes, TableFacts, CapType
<1>5. /\ [lock |-> head'.lock, table |-> head'.table] \in Place
      /\ head' \in [lock: {"oracle", "p2pkh"}, snap: Snapshot, table: Tables \cup {<<>>}, value: Nat]
  BY <1>1, <1>3 DEF TypeOK, Place
<1>6. books' \in [in: Nat, fees: Nat]
  BY <1>1, <1>3, <1>4 DEF TypeOK
<1>7. moves' \subseteq [old: Tables, next: Place]
  BY <1>1, <1>2 DEF TypeOK
<1> QED
  BY <1>1, <1>5, <1>6, <1>7 DEF TypeOK

LEMMA TypeStep == TypeOK /\ [Next]_vars => TypeOK'
<1> SUFFICES ASSUME TypeOK, [Next]_vars PROVE TypeOK'
  OBVIOUS
<1>1. CASE SomeUpdate
  BY <1>1, UpdateType DEF SomeUpdate
<1>2. CASE SomeRotation
  BY <1>2, RotateType DEF SomeRotation
<1>3. CASE \E a \in ApprovalChoices : SignApproval(a)
  BY <1>3, TableAssumption DEF SignApproval, TypeOK
<1>4. ASSUME NEW t \in tickers, NEW value \in Values, Consume(t, value) PROVE TypeOK'
  <2>1. value \in Nat /\ t \in [snap: Snapshot, out: 0..2, value: Nat] /\ value >= t.value
    <3>1. value \in Nat
      BY SizeAssumption
    <3>2. t \in [snap: Snapshot, out: 0..2, value: Nat]
      BY DEF TypeOK
    <3>3. value >= t.value + Toll
      BY <1>4 DEF Consume
    <3> QED
      BY <3>1, <3>2, <3>3, Sizes
  <2>2. tickers' \subseteq [snap: Snapshot, out: 0..2, value: Nat]
    BY <1>4, <2>1 DEF Consume, Recreated, TypeOK
  <2>3. books' \in [in: Nat, fees: Nat]
    BY <1>4, <2>1 DEF Consume, TypeOK
  <2> QED
    BY <1>4, <2>2, <2>3 DEF Consume, TypeOK
<1>5. ASSUME NEW recycled \in SUBSET tickers, NEW minted \in SUBSET Forged,
             HolderSpend(recycled, minted)
      PROVE  TypeOK'
  <2>1. tickers' \subseteq [snap: Snapshot, out: 0..2, value: Nat]
    BY <1>5, TableAssumption, Sizes DEF HolderSpend, TypeOK
  <2> QED
    BY <1>5, <2>1 DEF HolderSpend, TypeOK
<1>6. CASE AdvanceTime
  BY <1>6 DEF AdvanceTime, TypeOK
<1>7. CASE UNCHANGED vars
  BY <1>7 DEF vars, TypeOK
<1> QED
  BY <1>1, <1>2, <1>3, <1>4, <1>5, <1>6, <1>7 DEF Next

(* Every behaviour is well typed, whatever the tables, the quorum and the values: in particular   *)
(* a head under the covenant always names a table, and no spender's choice makes a sat negative.  *)
THEOREM TypeCorrect == Spec => []TypeOK
<1>1. Init => TypeOK
  BY InitType
<1>2. TypeOK /\ [Next]_vars => TypeOK'
  BY TypeStep
<1> QED
  BY <1>1, <1>2, PTL DEF Spec
-----------------------------------------------------------------------------
(* The history, and what an update adds to it. *)

(* The steps as the proofs below use them: an update, or a step that leaves log and head.snap. *)
LEMMA StepKinds ==
  ASSUME TypeOK, [Next]_vars
  PROVE  \/ \E ts \in Minute, m \in Price, topUp \in TopUps, value \in Values :
             \E recycled \in SUBSET tickers, rows \in SUBSET DOMAIN head.table :
               \E q \in [rows -> Price] : Update(ts, q, m, recycled, topUp, value)
         \/ log' = log /\ head'.snap = head.snap
<1>1. CASE SomeUpdate
  BY <1>1 DEF SomeUpdate
<1>2. CASE SomeRotation
  BY <1>2 DEF SomeRotation, Rotate, CarriedState
<1>3. CASE \E a \in ApprovalChoices : SignApproval(a)
  BY <1>3 DEF SignApproval
<1>4. CASE \E t \in tickers, value \in Values : Consume(t, value)
  BY <1>4 DEF Consume
<1>5. CASE \E recycled \in SUBSET {t \in tickers : Recyclable(t)}, minted \in SUBSET Forged :
             HolderSpend(recycled, minted)
  BY <1>5 DEF HolderSpend, TypeOK
<1>6. CASE AdvanceTime
  BY <1>6 DEF AdvanceTime
<1>7. CASE UNCHANGED vars
  BY <1>7 DEF vars
<1> QED
  BY <1>1, <1>2, <1>3, <1>4, <1>5, <1>6, <1>7 DEF Next

LEMMA TimeStep ==
  ASSUME [Next]_vars
  PROVE  mtp' = mtp \/ mtp' = mtp + 1
<1>1. CASE SomeUpdate
  BY <1>1 DEF SomeUpdate, Update, UpdateAllowed
<1>2. CASE SomeRotation
  BY <1>2 DEF SomeRotation, Rotate
<1>3. CASE \E a \in ApprovalChoices : SignApproval(a)
  BY <1>3 DEF SignApproval
<1>4. CASE \E t \in tickers, value \in Values : Consume(t, value)
  BY <1>4 DEF Consume
<1>5. CASE \E recycled \in SUBSET {t \in tickers : Recyclable(t)}, minted \in SUBSET Forged :
             HolderSpend(recycled, minted)
  BY <1>5 DEF HolderSpend
<1>6. CASE AdvanceTime
  BY <1>6 DEF AdvanceTime
<1>7. CASE UNCHANGED vars
  BY <1>7 DEF vars
<1> QED
  BY <1>1, <1>2, <1>3, <1>4, <1>5, <1>6, <1>7 DEF Next

Entry == [snap: Snapshot, table: Tables, quotes: Quotes]

LEMMA LogEntries ==
  ASSUME TypeOK
  PROVE  /\ log \in Seq(Entry) /\ Len(log) \in Nat
         /\ \A i \in 1..Len(log) : /\ log[i] \in Entry
                                   /\ log[i].snap.ts \in Nat /\ log[i].snap.seq \in Nat
<1>1. log \in Seq(Entry)
  BY DEF TypeOK, Entry
<1>2. Len(log) \in Nat
  BY <1>1, LenProperties
<1>3. \A i \in 1..Len(log) : log[i] \in Entry
  BY <1>1, ElementOfSeq
<1> QED
  BY <1>1, <1>2, <1>3 DEF Entry, Snapshot

(* What an update does to the history. *)
Appends(ts, q, m) ==
    /\ Len(log') = Len(log) + 1
    /\ \A i \in 1..Len(log) : log'[i] = log[i]
    /\ log'[Len(log) + 1] = [snap |-> NextSnapshot(ts, q, m), table |-> head.table, quotes |-> q]
    /\ head'.snap = log'[Len(log) + 1].snap
    /\ log'[Len(log) + 1].snap =
         [ts |-> ts, seq |-> head.snap.seq + 1, price |-> m, k |-> Cardinality(DOMAIN q)]
    /\ ts > head.snap.ts /\ ts - Ahead < mtp /\ mtp' = mtp
    /\ ts \in Nat /\ head.snap.ts \in Nat /\ head.snap.seq \in Nat

LEMMA UpdateAppends ==
  ASSUME TypeOK,
         NEW rows \in SUBSET DOMAIN head.table, NEW q \in [rows -> Price],
         NEW ts \in Minute, NEW m \in Price, NEW recycled \in SUBSET tickers,
         NEW topUp \in TopUps, NEW value \in Values,
         Update(ts, q, m, recycled, topUp, value)
  PROVE  Appends(ts, q, m)
<1> DEFINE e == [snap |-> NextSnapshot(ts, q, m), table |-> head.table, quotes |-> q]
<1>1. log' = Append(log, e)
  BY DEF Update, UpdateAllowed
<1>2. /\ Len(log') = Len(log) + 1
      /\ \A i \in 1..Len(log) : log'[i] = log[i]
      /\ log'[Len(log) + 1] = e
  BY <1>1, LogEntries
<1>3. head'.snap = e.snap
  BY DEF Update, UpdateAllowed, TypeOK
<1>4. e.snap = [ts |-> ts, seq |-> head.snap.seq + 1, price |-> m, k |-> Cardinality(DOMAIN q)]
  BY DEF NextSnapshot
<1>5. ts > head.snap.ts /\ ts - Ahead < mtp /\ mtp' = mtp
  BY DEF Update, UpdateAllowed, NewMinute, NotFarAhead, Final
<1>6. ts \in Nat /\ head.snap.ts \in Nat /\ head.snap.seq \in Nat
  BY FeedAssumption DEF TypeOK, Snapshot
<1> QED
  BY <1>2, <1>3, <1>4, <1>5, <1>6 DEF Appends

LEMMA HistoryStep == TypeOK /\ OneHistory /\ [Next]_vars => OneHistory'
<1> SUFFICES ASSUME TypeOK, OneHistory, [Next]_vars PROVE OneHistory'
  OBVIOUS
<1>1. ASSUME NEW ts \in Minute, NEW m \in Price, NEW topUp \in TopUps, NEW value \in Values,
             NEW recycled \in SUBSET tickers, NEW rows \in SUBSET DOMAIN head.table,
             NEW q \in [rows -> Price], Update(ts, q, m, recycled, topUp, value)
      PROVE  OneHistory'
  <2> DEFINE n == Len(log)
  <2>1. /\ n \in Nat /\ Len(log') = n + 1
        /\ \A i \in 1..n : log'[i] = log[i]
        /\ head'.snap = log'[n + 1].snap
        /\ log'[n + 1].snap.ts = ts
        /\ log'[n + 1].snap.seq = head.snap.seq + 1
        /\ ts > head.snap.ts
        /\ ts \in Nat /\ head.snap.ts \in Nat /\ head.snap.seq \in Nat
    <3>1. Appends(ts, q, m)
      BY <1>1, UpdateAppends
    <3> QED
      BY <3>1, LogEntries DEF Appends
  <2>2. /\ head.snap.seq = FirstSeq + n
        /\ head.snap.ts >= FirstTs
        /\ \A i \in 1..n : log[i].snap.ts <= head.snap.ts
    <3>1. \A i \in 1..n : log[i].snap.ts \in Nat
      BY LogEntries
    <3>2. CASE log = <<>>
      BY <3>2, <2>1, Sizes DEF OneHistory
    <3>3. CASE log # <<>>
      <4>1. n \in 1..n
        BY <3>3, <2>1, EmptySeq DEF TypeOK
      <4>2. head.snap = log[n].snap
        BY <3>3 DEF OneHistory
      <4>3. \A i \in 1..n : i < n \/ i = n
        BY <2>1
      <4>4. \A i \in 1..n : log[i].snap.ts <= log[n].snap.ts
        BY <4>1, <4>3, <3>1 DEF OneHistory
      <4>5. log[n].snap.ts > FirstTs /\ log[n].snap.seq = FirstSeq + n
        BY <4>1 DEF OneHistory
      <4> QED
        BY <4>1, <4>2, <4>4, <4>5, <3>1, <2>1, Sizes
    <3> QED
      BY <3>2, <3>3
  <2>3. \A i \in 1..(n + 1) : i \in 1..n \/ i = n + 1
    BY <2>1
  <2>4. \A i \in 1..(n + 1) : log'[i].snap.seq = FirstSeq + i
    <3>1. \A i \in 1..n : log[i].snap.seq = FirstSeq + i
      BY DEF OneHistory
    <3>2. \A i \in 1..n : log'[i].snap.seq = FirstSeq + i
      BY <2>1, <3>1
    <3>3. head.snap.seq + 1 = FirstSeq + (n + 1)
      BY <2>1, <2>2, Sizes
    <3>4. log'[n + 1].snap.seq = FirstSeq + (n + 1)
      BY <2>1, <3>3
    <3> QED
      BY <2>3, <3>2, <3>4
  <2>5. \A i, j \in 1..(n + 1) : i < j => log'[i].snap.ts < log'[j].snap.ts
    <3> SUFFICES ASSUME NEW i \in 1..(n + 1), NEW j \in 1..(n + 1), i < j
                 PROVE  log'[i].snap.ts < log'[j].snap.ts
      OBVIOUS
    <3>1. i \in 1..n
      BY <2>1
    <3>2. CASE j \in 1..n
      BY <2>1, <3>1, <3>2 DEF OneHistory
    <3>3. CASE j = n + 1
      <4>1. log[i].snap.ts <= head.snap.ts /\ log[i].snap.ts \in Nat
        BY <2>2, <3>1, LogEntries
      <4> QED
        BY <4>1, <2>1, <3>1, <3>3
    <3> QED
      BY <2>3, <3>2, <3>3
  <2>6. \A i \in 1..(n + 1) : log'[i].snap.ts > FirstTs
    <3>1. \A i \in 1..n : log'[i].snap.ts > FirstTs
      BY <2>1 DEF OneHistory
    <3>2. log'[n + 1].snap.ts > FirstTs
      BY <2>1, <2>2, Sizes
    <3> QED
      BY <2>3, <3>1, <3>2
  <2>7. log' # <<>>
    BY <2>1
  <2> QED
    BY <2>1, <2>4, <2>5, <2>6, <2>7 DEF OneHistory
<1>2. CASE log' = log /\ head'.snap = head.snap
  BY <1>2 DEF OneHistory
<1> QED
  BY <1>1, <1>2, StepKinds

(* The messages are numbered without a gap and their minutes increase, through every rotation:    *)
(* no order of updates, rotations and retirements forks or rewinds the feed.                      *)
THEOREM History == Spec => []OneHistory
<1>1. Init => OneHistory
  BY DEF Init, OneHistory
<1>2. TypeOK /\ OneHistory /\ [Next]_vars => OneHistory'
  BY HistoryStep
<1> QED
  BY <1>1, <1>2, TypeCorrect, PTL DEF Spec

(* No coalition of rows can put the head further than Ahead before chain time, so an honest       *)
(* update becomes possible again after at most that long.                                         *)
THEOREM NotStranded == Spec => []HeadNotStranded
<1>1. Init => HeadNotStranded
  BY Sizes, SizeAssumption DEF Init, HeadNotStranded
<1>2. TypeOK /\ HeadNotStranded /\ [Next]_vars => HeadNotStranded'
  <2> SUFFICES ASSUME TypeOK, HeadNotStranded, [Next]_vars PROVE HeadNotStranded'
    OBVIOUS
  <2>1. mtp \in Nat /\ head.snap.ts \in Nat
    BY DEF TypeOK, Snapshot
  <2>2. mtp' = mtp \/ mtp' = mtp + 1
    BY TimeStep
  <2>3. ASSUME NEW ts \in Minute, NEW m \in Price, NEW topUp \in TopUps, NEW value \in Values,
               NEW recycled \in SUBSET tickers, NEW rows \in SUBSET DOMAIN head.table,
               NEW q \in [rows -> Price], Update(ts, q, m, recycled, topUp, value)
        PROVE  HeadNotStranded'
    <3>1. Appends(ts, q, m)
      BY <2>3, UpdateAppends
    <3> QED
      BY <2>1, <3>1, Sizes DEF HeadNotStranded, Appends
  <2>4. CASE head'.snap = head.snap
    BY <2>1, <2>2, <2>4, Sizes DEF HeadNotStranded
  <2> QED
    BY <2>3, <2>4, StepKinds
<1> QED
  BY <1>1, <1>2, TypeCorrect, PTL DEF Spec

-----------------------------------------------------------------------------
(* The Tickers. *)

(* The steps as the proofs below use them: an update, a consumer's spend, or a step that at most  *)
(* burns lapsed Tickers and adds some of a released head's.                                       *)
Burns(recycled) ==
    /\ recycled \subseteq tickers
    /\ \A t \in recycled : Recyclable(t)
    /\ tickers \ recycled \subseteq tickers'
    /\ \A t \in tickers' \ tickers : t.out = 0
    /\ tickers' # tickers \ recycled => head'.lock = "p2pkh"
    /\ head'.lock = "oracle" => head.lock = "oracle"
    /\ log' = log

LEMMA TickerSteps ==
  ASSUME TypeOK, [Next]_vars
  PROVE  \/ \E ts \in Minute, m \in Price, topUp \in TopUps, value \in Values :
             \E recycled \in SUBSET tickers, rows \in SUBSET DOMAIN head.table :
               \E q \in [rows -> Price] : Update(ts, q, m, recycled, topUp, value)
         \/ \E t \in tickers, value \in Values : Consume(t, value)
         \/ \E recycled : Burns(recycled)
<1>1. CASE SomeUpdate
  BY <1>1 DEF SomeUpdate
<1>2. ASSUME NEW recycled \in SUBSET tickers, NEW topUp \in TopUps, NEW value \in Values,
             NEW next \in Place, NEW rows \in SUBSET DOMAIN head.table,
             Rotate(rows, next, recycled, topUp, value)
      PROVE  Burns(recycled)
  BY <1>2 DEF Rotate, Burns
<1>3. ASSUME UNCHANGED <<head, tickers, log>>
      PROVE  Burns({})
  BY <1>3 DEF Burns
<1>4. CASE \E a \in ApprovalChoices : SignApproval(a)
  BY <1>3, <1>4 DEF SignApproval
<1>5. ASSUME NEW recycled \in SUBSET tickers, NEW minted \in SUBSET Forged,
             HolderSpend(recycled, minted)
      PROVE  Burns(recycled)
  <2>1. head'.lock = "p2pkh"
    BY <1>5 DEF HolderSpend, TypeOK
  <2> QED
    BY <1>5, <2>1 DEF HolderSpend, Burns
<1>6. CASE AdvanceTime
  BY <1>3, <1>6 DEF AdvanceTime
<1>7. CASE UNCHANGED vars
  BY <1>3, <1>7 DEF vars
<1> QED
  BY <1>1, <1>2, <1>4, <1>5, <1>6, <1>7 DEF Next, SomeRotation

LEMMA AuthenticStep == TypeOK /\ TickersAuthentic /\ [Next]_vars => TickersAuthentic'
<1> SUFFICES ASSUME TypeOK, TickersAuthentic, [Next]_vars PROVE TickersAuthentic'
  OBVIOUS
<1> DEFINE Posted(t) == \E i \in 1..Len(log) : t.snap = log[i].snap
<1>1. ASSUME NEW ts \in Minute, NEW m \in Price, NEW topUp \in TopUps, NEW value \in Values,
             NEW recycled \in SUBSET tickers, NEW rows \in SUBSET DOMAIN head.table,
             NEW q \in [rows -> Price], Update(ts, q, m, recycled, topUp, value)
      PROVE  TickersAuthentic'
  <2> DEFINE snap == NextSnapshot(ts, q, m)
             n == Len(log)
  <2>1. /\ n \in Nat /\ Len(log') = n + 1
        /\ \A i \in 1..n : log'[i] = log[i]
        /\ log'[n + 1].snap = snap
    <3>1. Appends(ts, q, m)
      BY <1>1, UpdateAppends
    <3> QED
      BY <3>1, LogEntries DEF Appends
  <2>2. head.lock = "oracle" /\ tickers' = (tickers \ recycled) \cup Fresh(snap)
    BY <1>1 DEF Update, UpdateAllowed
  <2>3. \A t \in Fresh(snap) : t.snap = snap /\ t.out # 0
    BY DEF Fresh
  <2>4. \A t \in tickers : t.out # 0 /\ Posted(t)
    BY <2>2 DEF TickersAuthentic
  <2>5. \A t \in tickers' : t.out # 0 /\ (Posted(t) \/ t.snap = snap)
    BY <2>2, <2>3, <2>4
  <2>6. \A i \in 1..n : i \in 1..Len(log')
    BY <2>1
  <2>7. n + 1 \in 1..Len(log')
    BY <2>1
  <2>8. \A t \in tickers' : \E i \in 1..Len(log') : t.snap = log'[i].snap
    BY <2>1, <2>5, <2>6, <2>7
  <2> QED
    BY <2>5, <2>8 DEF TickersAuthentic
<1>2. ASSUME NEW t \in tickers, NEW value \in Values, Consume(t, value)
      PROVE  TickersAuthentic'
  <2>1. /\ \A u \in Recreated(t, value) : u.snap = t.snap /\ u.out = t.out
        /\ tickers' = (tickers \ {t}) \cup Recreated(t, value)
        /\ log' = log /\ head' = head
    BY <1>2 DEF Consume, Recreated, TypeOK
  <2>2. \A u \in tickers' : \E v \in tickers : u.snap = v.snap /\ u.out = v.out
    BY <2>1
  <2> QED
    BY <2>1, <2>2 DEF TickersAuthentic
<1>3. ASSUME NEW recycled, Burns(recycled)
      PROVE  TickersAuthentic'
  BY <1>3 DEF Burns, TickersAuthentic
<1> QED
  BY <1>1, <1>2, <1>3, TickerSteps

(* A Ticker is always one of the posted messages, unaltered by the consumers who spent it: only   *)
(* the holder of a head that its rows released can put another on chain.                          *)
THEOREM Authentic == Spec => []TickersAuthentic
<1>1. Init => TickersAuthentic
  BY DEF Init, TickersAuthentic
<1>2. TypeOK /\ TickersAuthentic /\ [Next]_vars => TickersAuthentic'
  BY AuthenticStep
<1> QED
  BY <1>1, <1>2, TypeCorrect, PTL DEF Spec

(* One message's Tickers, [snap, out], each on chain once. *)
Held(S, snap) ==
    \A o \in 1..2 : \E t \in S : /\ t.snap = snap /\ t.out = o
                              /\ \A u \in S : u.snap = t.snap /\ u.out = o => u = t

LEMMA AliveStep ==
  TypeOK /\ OneHistory /\ TickersAuthentic /\ FreshTickersAlive /\ [Next]_vars => FreshTickersAlive'
<1> SUFFICES ASSUME TypeOK, OneHistory, TickersAuthentic, FreshTickersAlive, [Next]_vars
             PROVE  FreshTickersAlive'
  OBVIOUS
<1>1. \A i \in 1..Len(log) : log[i].snap.ts + Life >= mtp => Held(tickers, log[i].snap)
  BY DEF FreshTickersAlive, Held
<1>2. SUFFICES \A i \in 1..Len(log') : log'[i].snap.ts + Life >= mtp' => Held(tickers', log'[i].snap)
  BY DEF FreshTickersAlive, Held
<1>3. mtp \in Nat /\ mtp' \in Nat /\ mtp <= mtp'
  BY TimeStep DEF TypeOK
<1>4. ASSUME NEW snap, Held(tickers, snap), NEW S,
             \A t \in S : t.snap # snap,
             NEW recycled, \A t \in recycled : Recyclable(t),
             snap.ts \in Nat, snap.ts + Life >= mtp
      PROVE  Held((tickers \ recycled) \cup S, snap)
  <2>1. \A t \in recycled : t.snap # snap
    <3> SUFFICES ASSUME NEW t \in recycled, t.snap = snap PROVE FALSE
      OBVIOUS
    <3>1. snap.ts + Life < mtp
      BY <1>4 DEF Recyclable, Final
    <3> QED
      BY <1>3, <1>4, <3>1, Sizes
  <2> QED
    BY <1>4, <2>1 DEF Held
<1>5. ASSUME NEW ts \in Minute, NEW m \in Price, NEW topUp \in TopUps, NEW value \in Values,
             NEW recycled \in SUBSET tickers, NEW rows \in SUBSET DOMAIN head.table,
             NEW q \in [rows -> Price], Update(ts, q, m, recycled, topUp, value),
             NEW i \in 1..Len(log'), log'[i].snap.ts + Life >= mtp'
      PROVE  Held(tickers', log'[i].snap)
  <2> DEFINE snap == NextSnapshot(ts, q, m)
             n == Len(log)
  <2>1. /\ n \in Nat /\ Len(log') = n + 1 /\ mtp' = mtp
        /\ \A j \in 1..n : log'[j] = log[j]
        /\ log'[n + 1].snap = snap
    <3>1. Appends(ts, q, m)
      BY <1>5, UpdateAppends
    <3> QED
      BY <3>1, LogEntries DEF Appends
  <2>2. /\ head.lock = "oracle" /\ tickers' = (tickers \ recycled) \cup Fresh(snap)
        /\ \A t \in recycled : Recyclable(t)
    BY <1>5 DEF Update, UpdateAllowed
  <2>3. \A j \in 1..n : log[j].snap # snap
    <3>1. OneHistory'
      BY HistoryStep
    <3>2. \A j \in 1..n : log'[j].snap.seq = FirstSeq + j /\ log'[n + 1].snap.seq = FirstSeq + (n + 1)
      BY <3>1, <2>1 DEF OneHistory
    <3> QED
      BY <2>1, <3>2, Sizes
  <2>4. CASE i \in 1..n
    <3>1. \A t \in Fresh(snap) : t.snap # log[i].snap
      BY <2>3, <2>4 DEF Fresh
    <3>2. /\ Held(tickers, log[i].snap) /\ log[i].snap.ts + Life >= mtp
          /\ log[i].snap.ts \in Nat
      BY <1>1, <1>5, <2>1, <2>4, LogEntries
    <3> QED
      BY <1>4, <2>1, <2>2, <2>4, <3>1, <3>2
  <2>5. CASE i = n + 1
    <3>1. \A t \in tickers : t.snap # snap
      BY <2>2, <2>3 DEF TickersAuthentic
    <3>2. \A o \in 1..2 : [snap |-> snap, out |-> o, value |-> TickerSats] \in Fresh(snap)
      BY DEF Fresh
    <3>3. \A t \in Fresh(snap) : t = [snap |-> snap, out |-> t.out, value |-> TickerSats]
      BY DEF Fresh
    <3> QED
      BY <2>1, <2>2, <2>5, <3>1, <3>2, <3>3 DEF Held
  <2> QED
    BY <2>1, <2>4, <2>5
<1>6. ASSUME NEW t \in tickers, NEW value \in Values, Consume(t, value),
             NEW i \in 1..Len(log'), log'[i].snap.ts + Life >= mtp'
      PROVE  Held(tickers', log'[i].snap)
  <2>1. /\ Recreated(t, value) = {[t EXCEPT !.value = value]}
        /\ tickers' = (tickers \ {t}) \cup Recreated(t, value)
        /\ log' = log /\ mtp' = mtp
    BY <1>6 DEF Consume, Recreated
  <2>2. Held(tickers, log[i].snap)
    BY <1>1, <1>6, <2>1
  <2>3. [t EXCEPT !.value = value].snap = t.snap /\ [t EXCEPT !.value = value].out = t.out
    BY DEF TypeOK
  <2> DEFINE new == [t EXCEPT !.value = value]
  <2>4. /\ \A u \in tickers' : u = new \/ (u \in tickers /\ u # t)
        /\ \A u \in tickers : u # t => u \in tickers'
        /\ new \in tickers'
    BY <2>1
  <2>5. ASSUME NEW o \in 1..2
        PROVE  \E w \in tickers' : /\ w.snap = log[i].snap /\ w.out = o
                                   /\ \A u \in tickers' : u.snap = w.snap /\ u.out = o => u = w
    <3>1. PICK w \in tickers : /\ w.snap = log[i].snap /\ w.out = o
                               /\ \A u \in tickers : u.snap = w.snap /\ u.out = o => u = w
      BY <2>2 DEF Held
    <3> HIDE DEF new
    <3>2. new.snap = t.snap /\ new.out = t.out
      BY <2>3 DEF new
    <3>3. CASE w = t
      BY <2>4, <3>1, <3>2, <3>3
    <3>4. CASE w # t
      BY <2>4, <3>1, <3>2, <3>4
    <3> QED
      BY <3>3, <3>4
  <2> QED
    BY <2>1, <2>5 DEF Held
<1>7. ASSUME NEW recycled, Burns(recycled),
             NEW i \in 1..Len(log'), log'[i].snap.ts + Life >= mtp'
      PROVE  Held(tickers', log'[i].snap)
  <2> DEFINE S == tickers' \ (tickers \ recycled)
  <2>1. log' = log /\ log[i].snap.ts \in Nat
    BY <1>7, LogEntries DEF Burns
  <2>2. log[i].snap.ts + Life >= mtp /\ Held(tickers, log[i].snap)
    BY <1>1, <1>3, <1>7, <2>1, Sizes
  <2>3. \A t \in recycled : t.snap # log[i].snap
    <3> SUFFICES ASSUME NEW t \in recycled, t.snap = log[i].snap PROVE FALSE
      OBVIOUS
    <3>1. log[i].snap.ts + Life < mtp
      BY <1>7 DEF Burns, Recyclable, Final
    <3> QED
      BY <2>1, <2>2, <3>1, Sizes, <1>3
  <2>4. \A t \in tickers' : t.snap = log[i].snap /\ t.out # 0 => t \in tickers
    BY <1>7 DEF Burns
  <2>5. \A t \in tickers : t.snap = log[i].snap => t \in tickers'
    BY <1>7, <2>3 DEF Burns
  <2> QED
    BY <2>1, <2>2, <2>4, <2>5 DEF Held
<1> QED
  BY <1>5, <1>6, <1>7, TickerSteps

(* Each message stays readable in both its Tickers, once in each, for its whole lifetime: nobody, *)
(* not even the holder of a released head, can take one off the chain or double it before.        *)
THEOREM Alive == Spec => []FreshTickersAlive
<1>1. Init => FreshTickersAlive
  BY DEF Init, FreshTickersAlive
<1>2. TypeOK /\ OneHistory /\ TickersAuthentic /\ FreshTickersAlive /\ [Next]_vars => FreshTickersAlive'
  BY AliveStep
<1> QED
  BY <1>1, <1>2, TypeCorrect, History, Authentic, PTL DEF Spec

-----------------------------------------------------------------------------
(* The prices: what the rank check of update admits. *)

LEMMA Halves ==
  ASSUME NEW k \in Nat, k > 0
  PROVE  /\ k \div 2 \in Nat /\ (k - 1) \div 2 \in Nat
         /\ k \div 2 + (k - 1) \div 2 = k - 1
  OBVIOUS

LEMMA Ranks ==
  ASSUME NEW rows, IsFiniteSet(rows), NEW q \in [rows -> Int], NEW m \in Int
  PROVE  /\ Below(q, m) \subseteq rows /\ Above(q, m) \subseteq rows
         /\ IsFiniteSet(Below(q, m)) /\ IsFiniteSet(Above(q, m))
         /\ Cardinality(rows) \in Nat
         /\ Cardinality(Below(q, m)) \in Nat /\ Cardinality(Above(q, m)) \in Nat
         /\ IsFiniteSet({r \in rows : q[r] <= m})
         /\ Cardinality({r \in rows : q[r] <= m}) = Cardinality(rows) - Cardinality(Above(q, m))
<1>1. Below(q, m) \subseteq rows /\ Above(q, m) \subseteq rows
  BY DEF Below, Above
<1>2. IsFiniteSet(Below(q, m)) /\ IsFiniteSet(Above(q, m))
  BY <1>1, FS_Subset
<1>3. /\ Cardinality(rows) \in Nat
      /\ Cardinality(Below(q, m)) \in Nat /\ Cardinality(Above(q, m)) \in Nat
  BY <1>2, FS_CardinalityType
<1>4. {r \in rows : q[r] <= m} = rows \ Above(q, m)
  BY DEF Above
<1>5. rows \cap Above(q, m) = Above(q, m)
  BY <1>1
<1>6. /\ IsFiniteSet(rows \ Above(q, m))
      /\ Cardinality(rows \ Above(q, m)) = Cardinality(rows) - Cardinality(Above(q, m))
  BY <1>5, FS_Difference
<1> QED
  BY <1>1, <1>2, <1>3, <1>4, <1>6

(* A claimed median that passes update's check is the one the builder would have sorted out. *)
LEMMA RankCheckIsExact ==
  ASSUME NEW rows, IsFiniteSet(rows), NEW q \in [rows -> Int], NEW m \in Int, IsLowerMedian(q, m)
  PROVE  LowerMedian(q) = m
<1> DEFINE k == Cardinality(rows)
           i == (k - 1) \div 2
           AtMost(p) == {r \in rows : q[r] <= p}
           Middle(p) == /\ Cardinality(Below(q, p)) <= i
                        /\ i < Cardinality(AtMost(p))
<1>1. DOMAIN q = rows /\ k \in Nat
  BY Ranks
<1>2. /\ Cardinality(Below(q, m)) <= i
      /\ Cardinality(Above(q, m)) <= k \div 2
      /\ Cardinality(Below(q, m)) + Cardinality(Above(q, m)) < k
  BY <1>1 DEF IsLowerMedian
<1>3. k > 0
  <2>1. Cardinality(Below(q, m)) \in Nat /\ Cardinality(Above(q, m)) \in Nat
    BY Ranks
  <2> HIDE DEF k, i
  <2> QED
    BY <1>1, <1>2, <2>1
<1>4. k \div 2 + i = k - 1 /\ i \in Nat /\ k \div 2 \in Nat
  BY <1>1, <1>3, Halves
<1>5. Middle(m)
  <2>1. Cardinality(AtMost(m)) = k - Cardinality(Above(q, m)) /\ Cardinality(Above(q, m)) \in Nat
    BY Ranks
  <2> HIDE DEF i, k
  <2> QED
    BY <1>1, <1>2, <1>4, <2>1
<1>6. m \in {q[r] : r \in rows}
  <2> SUFFICES ASSUME \A r \in rows : q[r] # m PROVE FALSE
    OBVIOUS
  <2>1. AtMost(m) = Below(q, m)
    BY DEF Below
  <2>2. Cardinality(Below(q, m)) = k - Cardinality(Above(q, m))
    BY <2>1, Ranks
  <2>3. Cardinality(Below(q, m)) \in Nat /\ Cardinality(Above(q, m)) \in Nat
    BY Ranks
  <2> QED
    BY <1>1, <1>2, <2>2, <2>3
<1>7. ASSUME NEW p1 \in Int, NEW p2 \in Int, p1 < p2, Middle(p1), Middle(p2)
      PROVE  FALSE
  <2>1. AtMost(p1) \subseteq Below(q, p2)
    BY <1>7 DEF Below
  <2>2. /\ IsFiniteSet(Below(q, p2)) /\ Cardinality(Below(q, p2)) \in Nat
        /\ Cardinality(AtMost(p1)) \in Nat
    <3>1. IsFiniteSet(Below(q, p2)) /\ Cardinality(Below(q, p2)) \in Nat
      BY Ranks
    <3>2. IsFiniteSet(AtMost(p1))
      BY Ranks
    <3> QED
      BY <3>1, <3>2, FS_CardinalityType
  <2>3. Cardinality(AtMost(p1)) <= Cardinality(Below(q, p2))
    BY <2>1, <2>2, FS_Subset
  <2> QED
    BY <1>4, <1>7, <2>2, <2>3
<1>8. \A p \in {q[r] : r \in rows} : Middle(p) => p = m
  BY <1>5, <1>7
<1>9. LowerMedian(q) = CHOOSE p \in {q[r] : r \in rows} : Middle(p)
  BY <1>1 DEF LowerMedian
<1> QED
  BY <1>5, <1>6, <1>8, <1>9

(* While fewer than KeysToForge rows are outside a range, so is no median that passes the check. *)
LEMMA RankCheckResists ==
  ASSUME NEW rows, IsFiniteSet(rows), NEW q \in [rows -> Int], NEW m \in Int, IsLowerMedian(q, m),
         NEW low \in Int, NEW high \in Int,
         NEW liars \in SUBSET rows,
         Cardinality(liars) < KeysToForge(Cardinality(rows)),
         \A r \in rows \ liars : q[r] \in low..high
  PROVE  m \in low..high
<1> DEFINE k == Cardinality(rows)
           fair == rows \ liars
<1>1. /\ DOMAIN q = rows /\ k \in Nat
      /\ Cardinality(Below(q, m)) \in Nat /\ Cardinality(Above(q, m)) \in Nat
      /\ IsFiniteSet(Below(q, m)) /\ IsFiniteSet(Above(q, m))
  BY Ranks
<1>2. /\ Cardinality(Below(q, m)) <= (k - 1) \div 2
      /\ Cardinality(Above(q, m)) <= k \div 2
      /\ Cardinality(Below(q, m)) + Cardinality(Above(q, m)) < k
  BY <1>1 DEF IsLowerMedian
<1>3. /\ k > 0 /\ k \div 2 + (k - 1) \div 2 = k - 1
      /\ (k - 1) \div 2 \in Nat /\ k \div 2 \in Nat
  <2>1. k > 0
    <3> HIDE DEF k
    <3> QED
      BY <1>1, <1>2
  <2> QED
    BY <1>1, <2>1, Halves
<1>4. Cardinality(liars) \in Nat /\ Cardinality(fair) = k - Cardinality(liars)
  <2>1. IsFiniteSet(liars) /\ rows \cap liars = liars
    BY FS_Subset
  <2> QED
    BY <2>1, FS_Difference, FS_CardinalityType
<1>5. Cardinality(liars) <= (k - 1) \div 2
  BY <1>1, <1>3, <1>4 DEF KeysToForge
<1>6. Cardinality(fair) > k \div 2 /\ Cardinality(fair) > (k - 1) \div 2
  <2> HIDE DEF k, fair
  <2>1. (k - 1) \div 2 <= k \div 2
    BY <1>1, <1>3
  <2> QED
    BY <1>1, <1>3, <1>4, <1>5, <2>1
<1>7. CASE m < low
  <2>1. fair \subseteq Above(q, m)
    BY <1>1, <1>7 DEF Above
  <2>2. Cardinality(fair) <= Cardinality(Above(q, m))
    BY <2>1, <1>1, FS_Subset
  <2> QED
    BY <1>1, <1>2, <1>3, <1>4, <1>6, <2>2
<1>8. CASE m > high
  <2>1. fair \subseteq Below(q, m)
    BY <1>1, <1>8 DEF Below
  <2>2. Cardinality(fair) <= Cardinality(Below(q, m))
    BY <2>1, <1>1, FS_Subset
  <2> QED
    BY <1>1, <1>2, <1>3, <1>4, <1>6, <2>2
<1> QED
  BY <1>7, <1>8

(* What every posted entry carries with it. *)
Vouched(e) ==
    /\ e.table \in Tables
    /\ DOMAIN e.quotes \subseteq DOMAIN e.table
    /\ e.quotes \in [DOMAIN e.quotes -> Int]
    /\ e.snap.ts \in Minute
    /\ e.snap.price \in Int
    /\ e.snap.k = Cardinality(DOMAIN e.quotes)
    /\ IsLowerMedian(e.quotes, e.snap.price)
    /\ \A r \in DOMAIN e.quotes : Signs(e.table[r], e.snap.ts, e.quotes[r])

AllVouched == \A i \in 1..Len(log) : Vouched(log[i])

LEMMA VouchedStep == TypeOK /\ AllVouched /\ [Next]_vars => AllVouched'
<1> SUFFICES ASSUME TypeOK, AllVouched, [Next]_vars PROVE AllVouched'
  OBVIOUS
<1>1. ASSUME NEW ts \in Minute, NEW m \in Price, NEW topUp \in TopUps, NEW value \in Values,
             NEW recycled \in SUBSET tickers, NEW rows \in SUBSET DOMAIN head.table,
             NEW q \in [rows -> Price], Update(ts, q, m, recycled, topUp, value)
      PROVE  AllVouched'
  <2> DEFINE n == Len(log)
             e == [snap |-> NextSnapshot(ts, q, m), table |-> head.table, quotes |-> q]
  <2>1. /\ n \in Nat /\ Len(log') = n + 1
        /\ \A i \in 1..n : log'[i] = log[i]
        /\ log'[n + 1] = e
    <3>1. Appends(ts, q, m)
      BY <1>1, UpdateAppends
    <3> QED
      BY <3>1, LogEntries DEF Appends
  <2>2. /\ head.lock = "oracle" /\ IsLowerMedian(q, m)
        /\ \A r \in DOMAIN q : Signs(head.table[r], ts, q[r])
    BY <1>1 DEF Update, UpdateAllowed
  <2>3. head.table \in Tables
    BY <2>2 DEF TypeOK, Place
  <2>4. q \in [DOMAIN q -> Int] /\ DOMAIN q \subseteq DOMAIN head.table /\ m \in Int
    BY FeedAssumption
  <2>5. e.snap.ts = ts /\ e.snap.price = m /\ e.snap.k = Cardinality(DOMAIN q)
    BY DEF NextSnapshot
  <2>6. Vouched(e)
    BY <2>2, <2>3, <2>4, <2>5 DEF Vouched
  <2>7. \A i \in 1..(n + 1) : i \in 1..n \/ i = n + 1
    BY <2>1
  <2>8. \A i \in 1..(n + 1) : Vouched(log'[i])
    BY <2>1, <2>6, <2>7 DEF AllVouched
  <2> QED
    BY <2>1, <2>8 DEF AllVouched, Vouched, Signs
<1>2. CASE log' = log
  BY <1>2 DEF AllVouched, Vouched, Signs
<1> QED
  BY <1>1, <1>2, StepKinds

LEMMA AlwaysVouched == Spec => []AllVouched
<1>1. Init => AllVouched
  BY DEF Init, AllVouched
<1>2. TypeOK /\ AllVouched /\ [Next]_vars => AllVouched'
  BY VouchedStep
<1> QED
  BY <1>1, <1>2, TypeCorrect, PTL DEF Spec

(* As many rows lie as keys do: a table names no key twice. *)
LEMMA LyingRows ==
  ASSUME NEW e, Vouched(e)
  PROVE  LET liars == {r \in DOMAIN e.quotes : e.table[r] \notin Honest}
         IN  Cardinality(liars) = Cardinality(LiarsIn(e))
<1> DEFINE liars == {r \in DOMAIN e.quotes : e.table[r] \notin Honest}
           f == [r \in liars |-> e.table[r]]
<1>1. IsFiniteSet(liars)
  <2>1. IsFiniteSet(DOMAIN e.quotes)
    BY RowSets DEF Vouched
  <2> QED
    BY <2>1, FS_Subset
<1>2. LiarsIn(e) = {e.table[r] : r \in liars}
  BY DEF LiarsIn
<1>3. f \in Surjection(liars, LiarsIn(e))
  BY <1>2 DEF Surjection
<1>4. f \in Injection(liars, LiarsIn(e))
  <2>1. e.table \in Tables /\ DOMAIN e.quotes \subseteq 1..Len(e.table)
    BY TableFacts DEF Vouched
  <2>2. \A r, s \in 1..Len(e.table) : e.table[r] = e.table[s] => r = s
    BY <2>1, TableAssumption DEF ValidTable
  <2>3. \A r, s \in liars : f[r] = f[s] => r = s
    BY <2>1, <2>2
  <2>4. f \in [liars -> LiarsIn(e)]
    BY <1>2
  <2> QED
    BY <2>3, <2>4 DEF Injection, IsInjective
<1>5. Cardinality(LiarsIn(e)) = Cardinality(liars)
  BY <1>1, <1>3, <1>4, FS_Surjection
<1> QED
  BY <1>5

(* The covenant accepts one price for a set of statements, the one an honest builder computes.    *)
THEOREM UniqueMedian == Spec => []MedianUnique
<1>1. AllVouched => MedianUnique
  <2> SUFFICES ASSUME AllVouched, NEW i \in 1..Len(log)
               PROVE  log[i].snap.price = LowerMedian(log[i].quotes)
    BY DEF MedianUnique
  <2>1. Vouched(log[i])
    BY DEF AllVouched
  <2>2. IsFiniteSet(DOMAIN log[i].quotes)
    BY <2>1, RowSets DEF Vouched
  <2> QED
    BY <2>1, <2>2, RankCheckIsExact DEF Vouched
<1> QED
  BY <1>1, AlwaysVouched, PTL

(* The trust bar k a reader is given means what it says: moving the price out of what the honest  *)
(* exchanges showed takes keys_to_forge(k) lying keys, for every table, quorum and price.         *)
THEOREM HonestMedian == Spec => []MedianHonest
<1>1. AllVouched => MedianHonest
  <2> SUFFICES ASSUME AllVouched, NEW i \in 1..Len(log),
                      Cardinality(LiarsIn(log[i])) < KeysToForge(log[i].snap.k)
               PROVE  log[i].snap.price \in FairLow[log[i].snap.ts]..FairHigh[log[i].snap.ts]
    BY DEF MedianHonest
  <2> DEFINE e == log[i]
             liars == {r \in DOMAIN e.quotes : e.table[r] \notin Honest}
  <2>1. Vouched(e)
    BY DEF AllVouched
  <2>2. IsFiniteSet(DOMAIN e.quotes)
    BY <2>1, RowSets DEF Vouched
  <2>3. Cardinality(liars) < KeysToForge(Cardinality(DOMAIN e.quotes))
    BY <2>1, LyingRows DEF Vouched
  <2>4. FairLow[e.snap.ts] \in Int /\ FairHigh[e.snap.ts] \in Int
    BY <2>1, FeedAssumption DEF Vouched
  <2>5. \A r \in DOMAIN e.quotes \ liars : e.quotes[r] \in FairLow[e.snap.ts]..FairHigh[e.snap.ts]
    BY <2>1 DEF Vouched, Signs
  <2>6. /\ e.quotes \in [DOMAIN e.quotes -> Int] /\ e.snap.price \in Int
        /\ IsLowerMedian(e.quotes, e.snap.price)
    BY <2>1 DEF Vouched
  <2> DEFINE rows == DOMAIN e.quotes
  <2>8. liars \in SUBSET rows /\ e.quotes \in [rows -> Int]
    BY <2>6
  <2> HIDE DEF e, liars, rows
  <2>7. e.snap.price \in FairLow[e.snap.ts]..FairHigh[e.snap.ts]
    <3>1. IsFiniteSet(rows) /\ Cardinality(liars) < KeysToForge(Cardinality(rows))
      BY <2>2, <2>3 DEF rows
    <3>2. \A r \in rows \ liars : e.quotes[r] \in FairLow[e.snap.ts]..FairHigh[e.snap.ts]
      BY <2>5 DEF rows
    <3> DEFINE q == e.quotes
               low == FairLow[e.snap.ts]
               high == FairHigh[e.snap.ts]
               m == e.snap.price
    <3>3. /\ liars \in SUBSET rows /\ q \in [rows -> Int] /\ m \in Int /\ low \in Int /\ high \in Int
          /\ IsLowerMedian(q, m) /\ \A r \in rows \ liars : q[r] \in low..high
      BY <2>4, <2>6, <2>8, <3>2
    <3> HIDE DEF q, low, high, m
    <3>4. m \in low..high
      BY <3>1, <3>3, RankCheckResists
    <3> QED
      BY <3>4 DEF q, low, high, m
  <2> QED
    BY <2>7 DEF e
<1> QED
  BY <1>1, AlwaysVouched, PTL

-----------------------------------------------------------------------------
(* Governance. *)

(* A majority of the rows includes an honest one while at most half of them collude. *)
LEMMA MajorityIncludesHonest ==
  ASSUME NEW t \in Tables, NEW rows \in SUBSET DOMAIN t,
         IsMajority(rows, t), 2 * Cardinality(Colluding(t)) <= Len(t)
  PROVE  \E r \in rows : t[r] \in Honest
<1> SUFFICES ASSUME \A r \in rows : t[r] \notin Honest PROVE FALSE
  OBVIOUS
<1>1. DOMAIN t = 1..Len(t) /\ Len(t) \in Nat
  BY TableFacts
<1>2. rows \subseteq Colluding(t) /\ Colluding(t) \in SUBSET DOMAIN t
  BY <1>1 DEF Colluding
<1>3. IsFiniteSet(Colluding(t)) /\ Cardinality(Colluding(t)) \in Nat /\ Cardinality(rows) \in Nat
  BY <1>2, RowSets
<1>4. Cardinality(rows) <= Cardinality(Colluding(t))
  BY <1>2, <1>3, FS_Subset
<1>5. Cardinality(rows) * 2 > Len(t)
  BY DEF IsMajority
<1> QED
  BY <1>1, <1>3, <1>4, <1>5

LEMMA ConsentStep == TypeOK /\ HonestConsent /\ [Next]_vars => HonestConsent'
<1> SUFFICES ASSUME TypeOK, HonestConsent, [Next]_vars PROVE HonestConsent'
  OBVIOUS
<1>1. ASSUME NEW recycled \in SUBSET tickers, NEW topUp \in TopUps, NEW value \in Values,
             NEW next \in Place, NEW rows \in SUBSET DOMAIN head.table,
             Rotate(rows, next, recycled, topUp, value)
      PROVE  HonestConsent'
  <2>1. /\ head.lock = "oracle" /\ IsMajority(rows, head.table)
        /\ \A r \in rows :
              [by |-> head.table[r], old |-> head.table, next |-> next] \in approvals
        /\ moves' = moves \cup {[old |-> head.table, next |-> next]}
        /\ approvals' = approvals
    BY <1>1 DEF Rotate
  <2>2. head.table \in Tables
    BY <2>1 DEF TypeOK, Place
  <2>3. ASSUME 2 * Cardinality(Colluding(head.table)) <= Len(head.table)
        PROVE  \E r \in 1..Len(head.table) :
                  /\ head.table[r] \in Honest
                  /\ [by |-> head.table[r], old |-> head.table, next |-> next] \in approvals
    <3>1. \E r \in rows : head.table[r] \in Honest
      BY <2>1, <2>2, <2>3, MajorityIncludesHonest
    <3> QED
      BY <2>1, <2>2, <3>1, TableFacts
  <2> DEFINE Consented(m) ==
        2 * Cardinality(Colluding(m.old)) <= Len(m.old) =>
          \E r \in 1..Len(m.old) : /\ m.old[r] \in Honest
                                  /\ [by |-> m.old[r], old |-> m.old, next |-> m.next] \in approvals
  <2>4. \A m \in moves : Consented(m)
    BY DEF HonestConsent
  <2>5. Consented([old |-> head.table, next |-> next])
    BY <2>3
  <2>6. \A m \in moves' : Consented(m)
    BY <2>1, <2>4, <2>5
  <2> QED
    BY <2>1, <2>6 DEF HonestConsent, Colluding
<1>2. ASSUME moves' = moves, approvals \subseteq approvals'
      PROVE  HonestConsent'
  BY <1>2 DEF HonestConsent, Colluding
<1>3. CASE SomeUpdate
  BY <1>2, <1>3 DEF SomeUpdate, Update, UpdateAllowed
<1>4. CASE \E a \in ApprovalChoices : SignApproval(a)
  BY <1>2, <1>4 DEF SignApproval
<1>5. CASE \E t \in tickers, value \in Values : Consume(t, value)
  BY <1>2, <1>5 DEF Consume
<1>6. CASE \E recycled \in SUBSET {t \in tickers : Recyclable(t)}, minted \in SUBSET Forged :
             HolderSpend(recycled, minted)
  BY <1>2, <1>6 DEF HolderSpend
<1>7. CASE AdvanceTime
  BY <1>2, <1>7 DEF AdvanceTime
<1>8. CASE UNCHANGED vars
  BY <1>2, <1>8 DEF vars
<1> QED
  BY <1>1, <1>3, <1>4, <1>5, <1>6, <1>7, <1>8 DEF Next, SomeRotation

(* No table whose honest rows are half or more of it is ever replaced, moved or retired without   *)
(* one of them having approved that very move.                                                    *)
THEOREM Consent == Spec => []HonestConsent
<1>1. Init => HonestConsent
  BY DEF Init, HonestConsent
<1>2. TypeOK /\ HonestConsent /\ [Next]_vars => HonestConsent'
  BY ConsentStep
<1> QED
  BY <1>1, <1>2, TypeCorrect, PTL DEF Spec

-----------------------------------------------------------------------------
(* The reserve. *)

(* The fold that Sats is, as the sum of a weight. *)
LEMMA SatsIsSum ==
  ASSUME NEW S, IsFiniteSet(S)
  PROVE  \E g : IsSum(g, [t \in S |-> t.value], S) /\ Sats(S) = g[S]
<1> DEFINE w == [t \in S |-> t.value]
           F(g) == [s \in SUBSET S |-> IF s = {} THEN 0
                       ELSE (CHOOSE x \in s : TRUE).value + g[s \ {CHOOSE x \in s : TRUE}]]
           sum == CHOOSE g : g = F(g)
<1>1. \A s \in SUBSET S : s # {} => w[Pick(s)] = (CHOOSE x \in s : TRUE).value
  <2> TAKE s \in SUBSET S
  <2> HAVE s # {}
  <2>1. Pick(s) \in S /\ Pick(s) = CHOOSE x \in s : TRUE
    BY DEF Pick
  <2> QED
    BY <2>1
<1>2. \A g : IsSum(g, w, S) <=> g = F(g)
  <2> TAKE g
  <2>1. [s \in SUBSET S |-> IF s = {} THEN 0 ELSE w[Pick(s)] + g[s \ {Pick(s)}]] = F(g)
    BY <1>1 DEF Pick
  <2> QED
    BY <2>1 DEF IsSum
<1>3. \E g : g = F(g)
  <2>1. \E g : IsSum(g, w, S)
    <3> HIDE DEF w
    <3> QED
      BY SumExists
  <2> HIDE DEF w, F
  <2> QED
    BY <1>2, <2>1
<1>4. sum = F(sum)
  BY <1>3
<1>5. Sats(S) = sum[S]
  BY DEF Sats, MapThenSumSet, MapThenFoldSet
<1> QED
  BY <1>2, <1>4, <1>5

LEMMA SatsFacts ==
  ASSUME NEW S, IsFiniteSet(S), \A t \in S : t.value \in Nat, NEW R \in SUBSET S
  PROVE  /\ Sats(S) \in Nat /\ Sats(R) \in Nat /\ Sats(S \ R) \in Nat
         /\ Sats(S) = Sats(R) + Sats(S \ R)
<1> DEFINE w(T) == [t \in T |-> t.value]
<1>1. PICK g : IsSum(g, w(S), S) /\ Sats(S) = g[S]
  BY SatsIsSum
<1>2. ASSUME NEW T \in SUBSET S PROVE Sats(T) = g[T] /\ g[T] \in Nat
  <2>1. IsFiniteSet(T)
    BY FS_Subset
  <2>2. PICK h : IsSum(h, w(T), T) /\ Sats(T) = h[T]
    BY <2>1, SatsIsSum
  <2>3. \A x \in T : w(S)[x] = w(T)[x]
    OBVIOUS
  <2>4. g[T] = h[T]
    <3> HIDE DEF w
    <3> QED
      BY <1>1, <2>1, <2>2, <2>3, SumUnique
  <2>5. \A x \in S : w(S)[x] \in Nat
    OBVIOUS
  <2>6. g[T] \in Nat
    <3> HIDE DEF w
    <3> QED
      BY <1>1, <2>5, SumFacts
  <2> QED
    BY <2>2, <2>4, <2>6
<1>3. g[S] = g[R] + g[S \ R]
  <2>1. \A x \in S : w(S)[x] \in Nat
    OBVIOUS
  <2> HIDE DEF w
  <2> QED
    BY <1>1, <2>1, SumSplits
<1>4. S \in SUBSET S /\ S \ R \in SUBSET S
  OBVIOUS
<1> QED
  BY <1>2, <1>3, <1>4

LEMMA SatsOfUnion ==
  ASSUME NEW S, NEW T, IsFiniteSet(S), IsFiniteSet(T), S \cap T = {},
         \A t \in S \cup T : t.value \in Nat
  PROVE  Sats(S \cup T) = Sats(S) + Sats(T)
<1>1. IsFiniteSet(S \cup T)
  BY FS_Union
<1>2. S \in SUBSET (S \cup T) /\ (S \cup T) \ S = T
  OBVIOUS
<1>3. Sats(S \cup T) = Sats(S) + Sats((S \cup T) \ S)
  BY <1>1, <1>2, SatsFacts
<1> QED
  BY <1>2, <1>3

LEMMA SatsOfNone == Sats({}) = 0
<1>1. PICK h : IsSum(h, [t \in {} |-> t.value], {}) /\ Sats({}) = h[{}]
  BY FS_EmptySet, SatsIsSum
<1> QED
  BY <1>1 DEF IsSum

LEMMA SatsOfOne ==
  ASSUME NEW t, t.value \in Nat
  PROVE  Sats({t}) = t.value
<1>1. IsFiniteSet({t})
  BY FS_Singleton
<1>2. PICK g : IsSum(g, [u \in {t} |-> u.value], {t}) /\ Sats({t}) = g[{t}]
  BY <1>1, SatsIsSum
<1>3. \A u \in {t} : [x \in {t} |-> x.value][u] \in Nat
  OBVIOUS
<1>4. g[{}] = 0 /\ g[{t}] = [x \in {t} |-> x.value][t] + g[{t} \ {t}]
  BY <1>1, <1>2, <1>3, SumFacts
<1>5. {t} \ {t} = {}
  OBVIOUS
<1> QED
  BY <1>2, <1>4, <1>5

(* What the sum needs: while the head is under the covenant there are finitely many Tickers, and  *)
(* a consumer's does not fall together with another when it comes back with a new value.          *)
Accounted ==
    head.lock = "oracle" =>
        /\ IsFiniteSet(tickers)
        /\ \A t, u \in tickers : t.snap = u.snap /\ t.out = u.out => t = u
        /\ head.value + Sats(tickers) \in (books.in - books.fees)..books.in

LEMMA TickerValues ==
  ASSUME TypeOK, NEW S \in SUBSET tickers
  PROVE  \A t \in S : t.value \in Nat
  BY DEF TypeOK

(* What is left when some Tickers are burnt. *)
LEMMA SatsLeft ==
  ASSUME TypeOK, IsFiniteSet(tickers), NEW recycled \in SUBSET tickers
  PROVE  /\ IsFiniteSet(tickers \ recycled)
         /\ Sats(tickers) \in Nat /\ Sats(recycled) \in Nat /\ Sats(tickers \ recycled) \in Nat
         /\ Sats(tickers) = Sats(recycled) + Sats(tickers \ recycled)
<1>1. \A t \in tickers : t.value \in Nat
  BY TickerValues
<1> QED
  BY <1>1, SatsFacts, FS_Difference

LEMMA UpdateAccounts ==
  ASSUME TypeOK, OneHistory, TickersAuthentic, Accounted,
         NEW ts \in Minute, NEW m \in Price, NEW topUp \in TopUps, NEW value \in Values,
         NEW recycled \in SUBSET tickers, NEW rows \in SUBSET DOMAIN head.table,
         NEW q \in [rows -> Price], Update(ts, q, m, recycled, topUp, value)
  PROVE  Accounted'
<1> DEFINE snap == NextSnapshot(ts, q, m)
           cap == FeeCap(FeePerRow, Cardinality(DOMAIN q), Len(head.table))
           left == tickers \ recycled
           one == [snap |-> snap, out |-> 1, value |-> TickerSats]
           two == [snap |-> snap, out |-> 2, value |-> TickerSats]
<1>1. /\ head.lock = "oracle"
      /\ tickers' = left \cup Fresh(snap)
      /\ books' = [in |-> books.in + topUp, fees |-> books.fees + cap]
      /\ value + 2 * TickerSats <= head.value + Sats(recycled) + topUp
      /\ value + (2 * TickerSats + cap) >= head.value + Sats(recycled) + topUp
  BY DEF Update, UpdateAllowed, KeepsReserve
<1>2. head'.value = value /\ head.value \in Nat /\ books.in \in Nat /\ books.fees \in Nat
  BY DEF Update, UpdateAllowed, TypeOK
<1>3. topUp \in Nat /\ value \in Nat /\ TickerSats \in Nat /\ cap \in Nat
  <2>1. head.table \in Tables
    BY <1>1 DEF TypeOK, Place
  <2>2. DOMAIN q = rows /\ Cardinality(rows) \in Nat /\ Len(head.table) \in Nat
    BY <2>1, RowSets, TableFacts
  <2> QED
    BY <2>2, Sizes, SizeAssumption, CapType
<1>4. Fresh(snap) = {one, two} /\ one # two
  BY DEF Fresh
<1>5. \A t \in tickers : t.snap # snap
  <2>1. Appends(ts, q, m)
    BY UpdateAppends
  <2>2. [Next]_vars
    <3>1. ts \in {x \in Minute : NewMinute(x) /\ NotFarAhead(x)}
      BY DEF Update, UpdateAllowed
    <3>2. recycled \in SUBSET {t \in tickers : Recyclable(t)}
      BY DEF Update, UpdateAllowed
    <3>3. rows \in {r \in SUBSET DOMAIN head.table : Cardinality(r) >= Quorum}
      BY Sizes DEF Update, UpdateAllowed
    <3> QED
      BY <3>1, <3>2, <3>3 DEF Next, SomeUpdate
  <2>3. OneHistory'
    BY <2>2, HistoryStep
  <2>4. \A i \in 1..Len(log) : log[i].snap # snap
    <3>1. Len(log) \in Nat
      BY LogEntries
    <3>2. \A i \in 1..Len(log) : log'[i].snap.seq = FirstSeq + i
                              /\ log'[Len(log) + 1].snap.seq = FirstSeq + (Len(log) + 1)
      BY <2>1, <2>3, <3>1 DEF OneHistory, Appends
    <3> QED
      BY <2>1, <3>1, <3>2, Sizes DEF Appends
  <2> QED
    BY <1>1, <2>4 DEF TickersAuthentic
<1>6. /\ IsFiniteSet(left)
      /\ Sats(tickers) \in Nat /\ Sats(recycled) \in Nat /\ Sats(left) \in Nat
      /\ Sats(tickers) = Sats(recycled) + Sats(left)
  BY <1>1, SatsLeft DEF Accounted
<1>7. /\ IsFiniteSet({one}) /\ IsFiniteSet({two}) /\ IsFiniteSet(Fresh(snap))
      /\ Sats({one}) = TickerSats /\ Sats({two}) = TickerSats
  <2>1. one.value = TickerSats /\ two.value = TickerSats
    OBVIOUS
  <2>2. Sats({one}) = TickerSats /\ Sats({two}) = TickerSats
    BY <1>3, <2>1, SatsOfOne
  <2>3. IsFiniteSet({one}) /\ IsFiniteSet({two}) /\ IsFiniteSet({one} \cup {two})
    BY FS_Singleton, FS_Union
  <2>4. Fresh(snap) = {one} \cup {two}
    BY <1>4
  <2> QED
    BY <2>2, <2>3, <2>4
<1>8. Sats(Fresh(snap)) = 2 * TickerSats
  <2>1. {one} \cap {two} = {} /\ Fresh(snap) = {one} \cup {two}
    BY <1>4
  <2>2. \A t \in {one} \cup {two} : t.value \in Nat
    BY <1>3
  <2>3. Sats({one} \cup {two}) = Sats({one}) + Sats({two})
    <3> HIDE DEF one, two
    <3> QED
      BY <1>7, <2>1, <2>2, SatsOfUnion
  <2> QED
    BY <1>3, <1>7, <2>1, <2>3
<1>9. Sats(tickers') = Sats(left) + 2 * TickerSats /\ IsFiniteSet(tickers')
  <2>1. left \cap Fresh(snap) = {}
    BY <1>5 DEF Fresh
  <2>2. \A t \in left \cup Fresh(snap) : t.value \in Nat
    BY <1>3, TickerValues DEF Fresh
  <2>3. Sats(left \cup Fresh(snap)) = Sats(left) + Sats(Fresh(snap))
    BY <1>6, <1>7, <2>1, <2>2, SatsOfUnion
  <2> QED
    BY <1>1, <1>6, <1>7, <1>8, <2>3, FS_Union
<1>10. \A t, u \in tickers' : t.snap = u.snap /\ t.out = u.out => t = u
  <2>1. \A t, u \in left : t.snap = u.snap /\ t.out = u.out => t = u
    BY <1>1 DEF Accounted
  <2>2. \A t \in left, u \in Fresh(snap) : t.snap # u.snap
    BY <1>5 DEF Fresh
  <2>3. \A t, u \in Fresh(snap) : t.out = u.out => t = u
    BY DEF Fresh
  <2> QED
    BY <1>1, <2>1, <2>2, <2>3
<1>11. head'.value + Sats(tickers') \in (books'.in - books'.fees)..books'.in
  <2>1. head.value + Sats(tickers) \in (books.in - books.fees)..books.in
    BY <1>1 DEF Accounted
  <2>2. books'.in = books.in + topUp /\ books'.fees = books.fees + cap
    BY <1>1
  <2> HIDE DEF cap, left
  <2> QED
    BY <1>1, <1>2, <1>3, <1>6, <1>9, <2>1, <2>2
<1> QED
  BY <1>9, <1>10, <1>11 DEF Accounted

LEMMA RotateAccounts ==
  ASSUME TypeOK, Accounted,
         NEW recycled \in SUBSET tickers, NEW topUp \in TopUps, NEW value \in Values,
         NEW next \in Place, NEW rows \in SUBSET DOMAIN head.table,
         Rotate(rows, next, recycled, topUp, value)
  PROVE  Accounted'
<1> DEFINE cap == FeeCap(FeePerApproval, Cardinality(rows), Len(head.table))
           left == tickers \ recycled
<1>1. /\ head.lock = "oracle" /\ tickers' = left
      /\ books' = [in |-> books.in + topUp, fees |-> books.fees + cap]
      /\ head'.value = value
      /\ value <= head.value + Sats(recycled) + topUp
      /\ value + cap >= head.value + Sats(recycled) + topUp
  BY DEF Rotate, KeepsReserve
<1>2. head.value \in Nat /\ books.in \in Nat /\ books.fees \in Nat
  BY DEF TypeOK
<1>3. topUp \in Nat /\ value \in Nat /\ cap \in Nat
  <2>1. head.table \in Tables
    BY <1>1 DEF TypeOK, Place
  <2>2. Cardinality(rows) \in Nat /\ Len(head.table) \in Nat
    BY <2>1, RowSets, TableFacts
  <2> QED
    BY <2>2, Sizes, SizeAssumption, CapType
<1>4. /\ IsFiniteSet(left)
      /\ Sats(tickers) \in Nat /\ Sats(recycled) \in Nat /\ Sats(left) \in Nat
      /\ Sats(tickers) = Sats(recycled) + Sats(left)
  BY <1>1, SatsLeft DEF Accounted
<1>5. head'.value + Sats(tickers') \in (books'.in - books'.fees)..books'.in
  <2>1. head.value + Sats(tickers) \in (books.in - books.fees)..books.in
    BY <1>1 DEF Accounted
  <2>2. books'.in = books.in + topUp /\ books'.fees = books.fees + cap
    BY <1>1
  <2> HIDE DEF cap, left
  <2> QED
    BY <1>1, <1>2, <1>3, <1>4, <2>1, <2>2
<1> QED
  BY <1>1, <1>4, <1>5 DEF Accounted

LEMMA ConsumeAccounts ==
  ASSUME TypeOK, Accounted, NEW t \in tickers, NEW value \in Values, Consume(t, value)
  PROVE  Accounted'
<1> SUFFICES ASSUME head.lock = "oracle" PROVE Accounted'
  BY DEF Consume, Accounted
<1> DEFINE left == tickers \ {t}
           new == [t EXCEPT !.value = value]
<1>1. /\ tickers' = left \cup {new} /\ head' = head
      /\ books' = [books EXCEPT !.in = @ + (value - t.value)]
  BY DEF Consume, Recreated
<1>2. /\ value \in Nat /\ t.value \in Nat /\ head.value \in Nat
      /\ books.in \in Nat /\ books.fees \in Nat
      /\ books'.in = books.in + (value - t.value) /\ books'.fees = books.fees
  BY <1>1, SizeAssumption DEF TypeOK
<1>3. new.snap = t.snap /\ new.out = t.out /\ new.value = value
  BY DEF TypeOK
<1>4. /\ IsFiniteSet(tickers)
      /\ \A u, v \in tickers : u.snap = v.snap /\ u.out = v.out => u = v
      /\ head.value + Sats(tickers) \in (books.in - books.fees)..books.in
  BY DEF Accounted
<1>5. /\ IsFiniteSet(left) /\ Sats(tickers) \in Nat /\ Sats(left) \in Nat
      /\ Sats(tickers) = t.value + Sats(left)
  <2>1. {t} \in SUBSET tickers
    OBVIOUS
  <2>2. IsFiniteSet(left) /\ Sats(tickers) \in Nat /\ Sats(left) \in Nat
    BY <1>4, <2>1, SatsLeft
  <2>3. Sats(tickers) = Sats({t}) + Sats(left)
    BY <1>4, <2>1, SatsLeft
  <2> QED
    BY <1>2, <2>2, <2>3, SatsOfOne
<1>6. \A u \in left : ~(u.snap = t.snap /\ u.out = t.out)
  BY <1>4
<1> HIDE DEF new
<1>7. Sats(tickers') = Sats(left) + value /\ IsFiniteSet(tickers')
  <2>1. left \cap {new} = {}
    BY <1>3, <1>6
  <2>2. \A u \in left \cup {new} : u.value \in Nat
    BY <1>2, <1>3, TickerValues
  <2>3. IsFiniteSet({new}) /\ Sats({new}) = value
    BY <1>2, <1>3, FS_Singleton, SatsOfOne
  <2>4. Sats(left \cup {new}) = Sats(left) + Sats({new})
    BY <1>5, <2>1, <2>2, <2>3, SatsOfUnion
  <2> QED
    BY <1>1, <1>5, <2>3, <2>4, FS_Union
<1>8. \A u, v \in tickers' : u.snap = v.snap /\ u.out = v.out => u = v
  BY <1>1, <1>3, <1>4, <1>6
<1>9. head'.value + Sats(tickers') \in (books'.in - books'.fees)..books'.in
  <2> HIDE DEF left
  <2> QED
    BY <1>1, <1>2, <1>4, <1>5, <1>7
<1> QED
  BY <1>7, <1>8, <1>9 DEF Accounted

LEMMA AccountedStep ==
  TypeOK /\ OneHistory /\ TickersAuthentic /\ Accounted /\ [Next]_vars => Accounted'
<1> SUFFICES ASSUME TypeOK, OneHistory, TickersAuthentic, Accounted, [Next]_vars
             PROVE  Accounted'
  OBVIOUS
<1>1. CASE SomeUpdate
  BY <1>1, UpdateAccounts DEF SomeUpdate
<1>2. CASE SomeRotation
  BY <1>2, RotateAccounts DEF SomeRotation
<1>3. CASE \E a \in ApprovalChoices : SignApproval(a)
  BY <1>3 DEF SignApproval, Accounted
<1>4. CASE \E t \in tickers, value \in Values : Consume(t, value)
  BY <1>4, ConsumeAccounts
<1>5. CASE \E recycled \in SUBSET {t \in tickers : Recyclable(t)}, minted \in SUBSET Forged :
             HolderSpend(recycled, minted)
  BY <1>5 DEF HolderSpend, Accounted, TypeOK
<1>6. CASE AdvanceTime
  BY <1>6 DEF AdvanceTime, Accounted
<1>7. CASE UNCHANGED vars
  BY <1>7 DEF vars, Accounted
<1> QED
  BY <1>1, <1>2, <1>3, <1>4, <1>5, <1>6, <1>7 DEF Next

(* Nobody who builds the covenants' transactions takes more from them than the fee caps allow,    *)
(* whatever the caps, the values and the top-ups, and however long the history is.                *)
THEOREM Solvent == Spec => []SatsAccounted
<1>1. Init => Accounted
  <2> SUFFICES ASSUME Init PROVE Accounted
    OBVIOUS
  <2>1. tickers = {} /\ head.value = Reserve /\ books.in = Reserve /\ books.fees = 0
    BY DEF Init
  <2>2. IsFiniteSet(tickers) /\ Sats(tickers) = 0
    BY <2>1, FS_EmptySet, SatsOfNone
  <2> QED
    BY <2>1, <2>2, Sizes DEF Accounted
<1>2. TypeOK /\ OneHistory /\ TickersAuthentic /\ Accounted /\ [Next]_vars => Accounted'
  BY AccountedStep
<1>3. Accounted => SatsAccounted
  BY DEF Accounted, SatsAccounted
<1> QED
  BY <1>1, <1>2, <1>3, TypeCorrect, History, Authentic, PTL DEF Spec

-----------------------------------------------------------------------------
(* The covenants implement the abstract feed. *)

LEMMA FeedFacts ==
  TypeOK => /\ Len(log) \in Nat /\ Len(feed) = Len(log)
            /\ \A i \in 1..Len(log) : feed[i] = log[i].snap
<1> SUFFICES ASSUME TypeOK
             PROVE  /\ Len(log) \in Nat /\ Len(feed) = Len(log)
                    /\ \A i \in 1..Len(log) : feed[i] = log[i].snap
  OBVIOUS
<1>1. Len(log) \in Nat /\ \A i \in 1..Len(log) : log[i].snap \in Snapshot
  BY LogEntries DEF Entry
<1>2. feed \in Seq(Snapshot)
  BY <1>1, IsASeq DEF feed
<1>3. DOMAIN feed = 1..Len(log)
  BY DEF feed
<1>4. Len(feed) = Len(log)
  BY <1>1, <1>2, <1>3, LenProperties
<1> QED
  BY <1>1, <1>4 DEF feed

LEMMA PublishStep ==
  ASSUME TypeOK, TypeOK', OneHistory, OneHistory',
         NEW ts \in Minute, NEW m \in Price, NEW topUp \in TopUps, NEW value \in Values,
         NEW recycled \in SUBSET tickers, NEW rows \in SUBSET DOMAIN head.table,
         NEW q \in [rows -> Price], Update(ts, q, m, recycled, topUp, value)
  PROVE  Feed!Publish
<1> DEFINE snap == NextSnapshot(ts, q, m)
           n == Len(log)
<1>1. /\ n \in Nat /\ Len(log') = n + 1 /\ mtp' = mtp
      /\ \A i \in 1..n : log'[i] = log[i]
      /\ log'[n + 1].snap = snap
      /\ snap = [ts |-> ts, seq |-> head.snap.seq + 1, price |-> m, k |-> Cardinality(DOMAIN q)]
      /\ ts - Ahead < mtp /\ ts \in Nat /\ head.snap.seq \in Nat
  <2>1. Appends(ts, q, m)
    BY UpdateAppends
  <2> QED
    BY <2>1, LogEntries DEF Appends
<1>2. /\ tickers' = (tickers \ recycled) \cup Fresh(snap)
      /\ \A t \in recycled : Recyclable(t)
      /\ Cardinality(DOMAIN q) >= Quorum
  <2>1. Cardinality(DOMAIN q) \in Quorum..MaxRows
    BY DEF Update, UpdateAllowed
  <2> QED
    BY <2>1, Sizes DEF Update, UpdateAllowed
<1>3. /\ Len(feed) = n /\ Len(feed') = n + 1
      /\ \A i \in 1..n : feed'[i] = feed[i] /\ feed[i] = log[i].snap
      /\ feed'[n + 1] = snap
  <2>1. Len(feed) = n /\ \A i \in 1..n : feed[i] = log[i].snap
    BY FeedFacts
  <2>2. Len(feed') = Len(log') /\ \A i \in 1..Len(log') : feed'[i] = log'[i].snap
    <3>1. (TypeOK => /\ Len(log) \in Nat /\ Len(feed) = Len(log)
                     /\ \A i \in 1..Len(log) : feed[i] = log[i].snap)'
      BY FeedFacts, PTL
    <3> QED
      BY <3>1
  <2>3. \A i \in 1..n : i \in 1..(n + 1)
    BY <1>1
  <2>4. n + 1 \in 1..(n + 1)
    BY <1>1
  <2> QED
    BY <1>1, <2>1, <2>2, <2>3, <2>4
<1>4. /\ feed'[n + 1].k >= Quorum
      /\ feed'[n + 1].ts < mtp + Ahead
  BY <1>1, <1>2, <1>3, Sizes DEF TypeOK
<1>5. n > 0 => /\ feed'[n + 1].ts > feed[n].ts
               /\ feed'[n + 1].seq = feed[n].seq + 1
  <2> SUFFICES ASSUME n > 0
               PROVE  feed'[n + 1].ts > feed[n].ts /\ feed'[n + 1].seq = feed[n].seq + 1
    OBVIOUS
  <2>1. n \in 1..n /\ n \in 1..(n + 1) /\ n + 1 \in 1..(n + 1) /\ n < n + 1
    BY <1>1
  <2>2. log'[n].snap.ts < log'[n + 1].snap.ts
    BY <1>1, <2>1 DEF OneHistory
  <2>3. log[n].snap.seq = FirstSeq + n /\ log'[n + 1].snap.seq = FirstSeq + (n + 1)
    BY <1>1, <2>1 DEF OneHistory
  <2>4. log[n].snap.ts \in Nat
    BY <2>1, LogEntries
  <2> QED
    BY <1>1, <1>3, <2>1, <2>2, <2>3, <2>4, Sizes
<1>6. n + 1 \in readable'
  <2>1. n + 1 \in 1..Len(log')
    BY <1>1
  <2>2. [snap |-> snap, out |-> 1, value |-> TickerSats] \in tickers'
    BY <1>2 DEF Fresh
  <2> QED
    BY <1>1, <2>1, <2>2 DEF readable
<1>7. \A i \in 1..n : log[i].snap # snap
  <2>1. \A i \in 1..n : log[i].snap.seq = FirstSeq + i
    BY DEF OneHistory
  <2>2. n + 1 \in 1..Len(log')
    BY <1>1
  <2>3. snap.seq = FirstSeq + (n + 1)
    BY <1>1, <2>2 DEF OneHistory
  <2> HIDE DEF snap, n
  <2> QED
    BY <1>1, <2>1, <2>3, Sizes
<1>8. readable' \subseteq readable \cup {n + 1}
  <2> SUFFICES ASSUME NEW i \in readable', i # n + 1 PROVE i \in readable
    OBVIOUS
  <2>1. i \in 1..n
    BY <1>1 DEF readable
  <2>2. PICK t \in tickers' : t.snap = log'[i].snap /\ t.out # 0
    BY DEF readable
  <2>3. t.snap = log[i].snap
    BY <1>1, <2>1, <2>2
  <2>4. t \in tickers
    BY <1>2, <1>7, <2>1, <2>3 DEF Fresh
  <2> QED
    BY <2>1, <2>2, <2>3, <2>4 DEF readable
<1>9. \A i \in readable \ readable' : feed[i].ts + Life < mtp
  <2> SUFFICES ASSUME NEW i \in readable, i \notin readable' PROVE feed[i].ts + Life < mtp
    OBVIOUS
  <2>1. i \in 1..n /\ i \in 1..Len(log') /\ log'[i] = log[i]
    BY <1>1 DEF readable
  <2>2. PICK t \in tickers : t.snap = log[i].snap /\ t.out # 0
    BY DEF readable
  <2>3. t \in recycled
    BY <1>2, <2>1, <2>2 DEF readable
  <2>4. t.snap.ts + Life < mtp
    BY <1>2, <2>3 DEF Recyclable, Final
  <2> QED
    BY <1>3, <2>1, <2>2, <2>4
<1> HIDE DEF snap
<1> QED
  BY <1>1, <1>3, <1>4, <1>5, <1>6, <1>8, <1>9 DEF Feed!Publish, Feed!OnlyLapsedLeave, Feed!Lapsed

LEMMA LapseStep ==
  ASSUME TypeOK, mtp' = mtp, log' = log,
         \A i \in readable \ readable' : log[i].snap.ts + Life < mtp,
         readable' \subseteq readable
  PROVE  Feed!Lapse
<1>1. feed' = feed
  BY DEF feed
<1>2. \A i \in readable : feed[i] = log[i].snap
  BY FeedFacts DEF readable
<1> QED
  BY <1>1, <1>2 DEF Feed!Lapse, Feed!OnlyLapsedLeave, Feed!Lapsed

LEMMA FeedStep ==
  ASSUME TypeOK, TypeOK', OneHistory, OneHistory', [Next]_vars
  PROVE  [Feed!Next]_(Feed!vars)
<1>1. ASSUME NEW ts \in Minute, NEW m \in Price, NEW topUp \in TopUps, NEW value \in Values,
             NEW recycled \in SUBSET tickers, NEW rows \in SUBSET DOMAIN head.table,
             NEW q \in [rows -> Price], Update(ts, q, m, recycled, topUp, value)
      PROVE  Feed!Next
  BY <1>1, PublishStep DEF Feed!Next
<1>2. ASSUME NEW t \in tickers, NEW value \in Values, Consume(t, value)
      PROVE  [Feed!Next]_(Feed!vars)
  <2>1. /\ tickers' = (tickers \ {t}) \cup {[t EXCEPT !.value = value]}
        /\ log' = log /\ mtp' = mtp
    BY <1>2 DEF Consume, Recreated
  <2>2. [t EXCEPT !.value = value].snap = t.snap /\ [t EXCEPT !.value = value].out = t.out
    BY DEF TypeOK
  <2>3. /\ \A u \in tickers : \E v \in tickers' : v.snap = u.snap /\ v.out = u.out
        /\ \A v \in tickers' : \E u \in tickers : v.snap = u.snap /\ v.out = u.out
    BY <2>1, <2>2
  <2>4. readable' = readable /\ feed' = feed
    BY <2>1, <2>3 DEF readable, feed
  <2> QED
    BY <2>1, <2>4 DEF Feed!vars
<1>3. ASSUME NEW recycled, Burns(recycled), mtp' = mtp
      PROVE  Feed!Next
  <2>1. log' = log /\ \A t \in recycled : Recyclable(t)
    BY <1>3 DEF Burns
  <2>2. readable' \subseteq readable
    BY <1>3, <2>1 DEF Burns, readable
  <2>3. \A i \in readable \ readable' : log[i].snap.ts + Life < mtp
    <3> SUFFICES ASSUME NEW i \in readable, i \notin readable' PROVE log[i].snap.ts + Life < mtp
      OBVIOUS
    <3>1. PICK t \in tickers : t.snap = log[i].snap /\ t.out # 0
      BY DEF readable
    <3>2. t \in recycled
      BY <1>3, <2>1, <3>1 DEF Burns, readable
    <3> QED
      BY <2>1, <3>1, <3>2 DEF Recyclable, Final
  <2> QED
    BY <1>3, <2>1, <2>2, <2>3, LapseStep DEF Feed!Next
<1>4. CASE UNCHANGED <<mtp, log, tickers>>
  BY <1>4 DEF Feed!vars, feed, readable
<1>5. CASE SomeUpdate
  BY <1>1, <1>5 DEF SomeUpdate
<1>6. CASE \E t \in tickers, value \in Values : Consume(t, value)
  BY <1>2, <1>6
<1>7. CASE \E a \in ApprovalChoices : SignApproval(a)
  BY <1>4, <1>7 DEF SignApproval
<1>8. CASE UNCHANGED vars
  BY <1>4, <1>8 DEF vars
<1>9. CASE AdvanceTime
  <2>1. mtp \in Nat /\ mtp' = mtp + 1
    BY <1>9 DEF AdvanceTime, TypeOK
  <2>2. feed' = feed /\ readable' = readable
    BY <1>9 DEF AdvanceTime, feed, readable
  <2> QED
    BY <2>1, <2>2 DEF Feed!Next, Feed!Tick
<1>10. CASE SomeRotation
  <2>1. ASSUME NEW recycled \in SUBSET tickers, NEW topUp \in TopUps, NEW value \in Values,
               NEW next \in Place, NEW rows \in SUBSET DOMAIN head.table,
               Rotate(rows, next, recycled, topUp, value)
        PROVE  Burns(recycled) /\ mtp' = mtp
    BY <2>1 DEF Rotate, Burns
  <2> QED
    BY <1>3, <1>10, <2>1 DEF SomeRotation
<1>11. CASE \E recycled \in SUBSET {t \in tickers : Recyclable(t)}, minted \in SUBSET Forged :
              HolderSpend(recycled, minted)
  <2>1. ASSUME NEW recycled \in SUBSET tickers, NEW minted \in SUBSET Forged,
               HolderSpend(recycled, minted)
        PROVE  Burns(recycled) /\ mtp' = mtp
    <3>1. head'.lock = "p2pkh"
      BY <2>1 DEF HolderSpend, TypeOK
    <3> QED
      BY <2>1, <3>1 DEF HolderSpend, Burns
  <2> QED
    BY <1>3, <1>11, <2>1
<1> QED
  BY <1>5, <1>6, <1>7, <1>8, <1>9, <1>10, <1>11 DEF Next

(* The covenants implement PriceFeed for every table, quorum, lifetime and price.                 *)
THEOREM Refinement == Spec => RefinesFeed
<1>1. Init => Feed!Init
  <2>1. Init => feed = <<>> /\ readable = {} /\ mtp \in Nat
    BY SizeAssumption DEF Init, feed, readable
  <2> QED
    BY <2>1 DEF Feed!Init
<1>2. TypeOK /\ TypeOK' /\ OneHistory /\ OneHistory' /\ [Next]_vars => [Feed!Next]_(Feed!vars)
  BY FeedStep
<1> QED
  BY <1>1, <1>2, TypeCorrect, History, PTL DEF Spec, RefinesFeed, Feed!Spec

-----------------------------------------------------------------------------
(* The gate: what a release proves, for every gate and every table.  The    *)
(* covenants' theorems, carried over to the consumer that reads them.       *)

(* The gate adds nothing to what the covenants do: a release is a consume. *)
LEMMA GateIsConsumer == GateSpec => Spec
<1>1. GateInit => Init
  BY DEF GateInit
<1>2. [GateNext]_gateVars => [Next]_vars
  <2>1. ASSUME NEW t \in tickers, NEW value \in Values, Release(t, value)
        PROVE  Next
    <3>1. Consume(t, value)
      BY <2>1 DEF Release
    <3> QED
      BY <3>1 DEF Next
  <2>2. CASE UNCHANGED gateVars
    BY <2>2 DEF gateVars, vars
  <2> QED
    BY <2>1, <2>2 DEF GateNext
<1> QED
  BY <1>1, <1>2, PTL DEF GateSpec, Spec

(* More rows never need fewer keys. *)
LEMMA ForgeMonotone ==
  ASSUME NEW j \in Int, NEW k \in Int, j <= k
  PROVE  KeysToForge(j) <= KeysToForge(k) /\ KeysToForge(j) \in Int /\ KeysToForge(k) \in Int
<1>1. (j - 1) \div 2 <= (k - 1) \div 2
  OBVIOUS
<1> QED
  BY <1>1 DEF KeysToForge

(* A posted message that opens the gate: the rows it asks for put the lie out of reach of fewer   *)
(* keys than keys_to_forge(minK).                                                                 *)
LEMMA ShownIsFair ==
  ASSUME AllVouched, MedianHonest, NEW i \in 1..Len(log), Shows(log[i].snap),
         Cardinality(LiarsIn(log[i])) < KeysToForge(MinK)
  PROVE  FairHigh[log[i].snap.ts] >= Strike
<1> DEFINE e == log[i]
           liars == {r \in DOMAIN e.quotes : e.table[r] \notin Honest}
<1>1. Vouched(e)
  BY DEF AllVouched
<1>2. e.snap.k \in Nat /\ Cardinality(LiarsIn(e)) \in Nat
  <2>1. IsFiniteSet(DOMAIN e.quotes) /\ Cardinality(DOMAIN e.quotes) \in Nat
    BY <1>1, RowSets DEF Vouched
  <2>2. IsFiniteSet(liars)
    BY <2>1, FS_Subset
  <2>3. Cardinality(liars) \in Nat
    BY <2>2, FS_CardinalityType
  <2>4. Cardinality(liars) = Cardinality(LiarsIn(e))
    BY <1>1, LyingRows
  <2> QED
    BY <1>1, <2>1, <2>3, <2>4 DEF Vouched
<1>3. e.snap.k >= MinK /\ e.snap.price >= Strike
  BY DEF Shows
<1>4. /\ KeysToForge(MinK) <= KeysToForge(e.snap.k)
      /\ KeysToForge(MinK) \in Int /\ KeysToForge(e.snap.k) \in Int
  <2>1. \A k \in Int : MinK <= k => /\ KeysToForge(MinK) <= KeysToForge(k)
                                    /\ KeysToForge(MinK) \in Int /\ KeysToForge(k) \in Int
    BY GateAssumption, ForgeMonotone
  <2>2. e.snap.k \in Int /\ MinK <= e.snap.k
    BY <1>2, <1>3, GateAssumption
  <2> QED
    BY <2>1, <2>2
<1>5. Cardinality(LiarsIn(e)) < KeysToForge(e.snap.k)
  BY <1>2, <1>4
<1>6. e.snap.price \in FairLow[e.snap.ts]..FairHigh[e.snap.ts]
  BY <1>5 DEF MedianHonest
<1>7. e.snap.price \in Int /\ FairLow[e.snap.ts] \in Int /\ FairHigh[e.snap.ts] \in Int
  BY <1>1, FeedAssumption DEF Vouched
<1> QED
  BY <1>3, <1>6, <1>7, GateAssumption

LEMMA GateStep ==
  ASSUME TypeOK, TickersAuthentic, AllVouched, MedianHonest, GateFair, [GateNext]_gateVars
  PROVE  GateFair'
<1>1. ASSUME NEW t \in tickers, NEW value \in Values, Release(t, value)
      PROVE  GateFair'
  <2>1. /\ Shows(t.snap) /\ log' = log
        /\ released' = {[snap |-> t.snap, lock |-> head.lock]}
    BY <1>1 DEF Release, Consume
  <2>2. ASSUME head.lock = "oracle" PROVE Earned(t.snap)
    <3>1. PICK i \in 1..Len(log) : t.snap = log[i].snap
      BY <2>2 DEF TickersAuthentic
    <3>2. t.snap.ts \in MinShown..MaxShown
      BY <2>1 DEF Shows
    <3> QED
      BY <2>1, <3>1, <3>2, ShownIsFair DEF Earned
  <2>3. Earned(t.snap)' <=> Earned(t.snap)
    BY <2>1 DEF Earned, LiarsIn
  <2> QED
    BY <2>1, <2>2, <2>3 DEF GateFair
<1>2. ASSUME [Next]_vars, released' = released
      PROVE  GateFair'
  <2>1. \A i \in 1..Len(log) : i \in 1..Len(log') /\ log'[i] = log[i]
    <3>1. CASE log' = log
      BY <3>1
    <3>2. ASSUME NEW ts \in Minute, NEW m \in Price, NEW topUp \in TopUps, NEW value \in Values,
                 NEW recycled \in SUBSET tickers, NEW rows \in SUBSET DOMAIN head.table,
                 NEW q \in [rows -> Price], Update(ts, q, m, recycled, topUp, value)
          PROVE  \A i \in 1..Len(log) : i \in 1..Len(log') /\ log'[i] = log[i]
      <4>1. Appends(ts, q, m)
        BY <3>2, UpdateAppends
      <4> QED
        BY <4>1, LogEntries DEF Appends
    <3> QED
      BY <1>2, <3>1, <3>2, StepKinds
  <2>2. ASSUME NEW r \in released, Earned(r.snap) PROVE Earned(r.snap)'
    BY <2>1, <2>2 DEF Earned, LiarsIn
  <2> QED
    BY <1>2, <2>2 DEF GateFair
<1>3. CASE UNCHANGED gateVars
  BY <1>2, <1>3 DEF gateVars, vars
<1> QED
  BY <1>1, <1>2, <1>3 DEF GateNext

(* Whoever posts, and however a consumer times it: no coin behind a gate is released, while the   *)
(* head is under the covenant, at a strike that no exchange showed, unless minK's keys were lost. *)
THEOREM FairGate == GateSpec => []GateFair
<1>1. GateInit => GateFair
  BY DEF GateInit, GateFair
<1>2. TypeOK /\ TickersAuthentic /\ AllVouched /\ MedianHonest /\ GateFair /\ [GateNext]_gateVars
        => GateFair'
  BY GateStep
<1>3. GateSpec => []TypeOK /\ []TickersAuthentic /\ []AllVouched /\ []MedianHonest
  BY GateIsConsumer, TypeCorrect, Authentic, AlwaysVouched, HonestMedian, PTL
<1> QED
  BY <1>1, <1>2, <1>3, PTL DEF GateSpec
=============================================================================
