--------------------------- MODULE BuilderProofs ---------------------------
(***************************************************************************)
(* What holds of any number of builders that race on one head, for every   *)
(* table, clock and number of lost calls.                                  *)
(***************************************************************************)
EXTENDS Builder, OracleProofs

LEMMA BuilderConstants ==
  /\ TopUp \subseteq Once /\ Once \subseteq Builder
  /\ MinuteLen \in Nat /\ MinuteLen > 0 /\ PostAt \in Nat /\ PostAt < MinuteLen
  /\ MaxRecycle \in Nat /\ Needed \in Nat /\ Fee \in Nat /\ MaxFaults \in Nat /\ MaxClock \in Nat
  /\ IsFiniteSet(Coins) /\ Coins \cup {0} \subseteq TopUps /\ TopUps \subseteq Nat /\ Values \subseteq Nat
  /\ Minute \subseteq Nat
  BY BuilderAssumption, SizeAssumption, FeedAssumption

-----------------------------------------------------------------------------
(* The median a builder computes. *)

LEMMA Unsigned ==
  /\ \A p \in Int : U32(p) \in 0..(2 * MaxCounter + 1)
  /\ \A p \in 0..MaxCounter : U32(p) = p
<1> DEFINE M == 2 * MaxCounter + 2
<1>1. MaxCounter \in Nat /\ M \in Nat /\ M > 0 /\ M - 1 = 2 * MaxCounter + 1
  BY Sizes
<1>2. \A p \in Int : p % M \in 0..(M - 1)
  <2> HIDE DEF M
  <2> QED
    BY <1>1
<1>3. \A p \in 0..MaxCounter : p % M = p
  <2>1. \A p \in Nat : p < M => p % M = p
    <3> HIDE DEF M
    <3> QED
      BY <1>1
  <2> QED
    BY <1>1, <2>1
<1> QED
  BY <1>1, <1>2, <1>3 DEF U32

(* Among finitely many numbers there is one that as many as i are below, and more than i not above. *)
Lower(u, rows, n) == {s \in rows : u[s] < n}
UpTo(u, rows, n) == {s \in rows : u[s] <= n}

LEMMA RankExists ==
  ASSUME NEW rows, IsFiniteSet(rows), NEW u, NEW top \in Nat,
         \A r \in rows : u[r] \in 0..top, NEW i \in Nat, i < Cardinality(rows)
  PROVE  \E r \in rows : /\ Cardinality(Lower(u, rows, u[r])) <= i
                         /\ i < Cardinality(UpTo(u, rows, u[r]))
<1> USE DEF Lower, UpTo
<1> DEFINE Upto(n) == UpTo(u, rows, n)
           Under(n) == Lower(u, rows, n)
           Enough == {n \in Nat : i < Cardinality(Upto(n))}
<1>1. \A S \in SUBSET rows : IsFiniteSet(S) /\ Cardinality(S) \in Nat
  BY FS_Subset, FS_CardinalityType
<1>2. top \in Enough
  <2>1. Upto(top) = rows
    OBVIOUS
  <2> QED
    BY <2>1
<1>3. PICK n \in Enough : \A m \in Enough : n <= m
  <2>1. Enough \in SUBSET Nat
    OBVIOUS
  <2> HIDE DEF Enough
  <2> QED
    BY <1>2, <2>1, NatLeast
<1>4. n \in Nat /\ i < Cardinality(Upto(n))
  OBVIOUS
<1>5. Cardinality(Under(n)) <= i
  <2>1. CASE n = 0
    <3>1. Under(n) = {}
      BY <2>1
    <3> QED
      BY <3>1, FS_EmptySet
  <2>2. CASE n # 0
    <3>1. n - 1 \in Nat /\ ~(n <= n - 1)
      BY <1>4, <2>2
    <3>2. ~(i < Cardinality(Upto(n - 1)))
      BY <1>3, <3>1
    <3>3. Under(n) = Upto(n - 1)
      BY <1>4, <2>2
    <3>4. Cardinality(Upto(n - 1)) \in Nat
      BY <1>1
    <3> QED
      BY <3>2, <3>3, <3>4
  <2> QED
    BY <2>1, <2>2
<1>6. Cardinality(Under(n)) \in Nat /\ Cardinality(Upto(n)) \in Nat
  BY <1>1
<1>7. PICK r \in rows : u[r] = n
  <2> SUFFICES ASSUME \A r \in rows : u[r] # n PROVE FALSE
    OBVIOUS
  <2>1. Under(n) = Upto(n)
    BY <1>4
  <2> QED
    BY <1>4, <1>5, <1>6, <2>1
<1> QED
  BY <1>4, <1>5, <1>7

LEMMA MedianExists ==
  ASSUME NEW rows, IsFiniteSet(rows), rows # {}, NEW q \in [rows -> Int]
  PROVE  LET i == (Cardinality(rows) - 1) \div 2
             m == lower_median(q)
         IN  /\ m \in {q[r] : r \in rows}
             /\ Cardinality({r \in rows : U32(q[r]) < U32(m)}) <= i
             /\ i < Cardinality({r \in rows : U32(q[r]) <= U32(m)})
<1> DEFINE k == Cardinality(rows)
           i == (k - 1) \div 2
           u == [r \in rows |-> U32(q[r])]
           top == 2 * MaxCounter + 1
           Middle(p) == /\ Cardinality({r \in rows : U32(q[r]) < U32(p)}) <= i
                        /\ i < Cardinality({r \in rows : U32(q[r]) <= U32(p)})
<1>1. k \in Nat /\ k > 0
  BY FS_CardinalityType, FS_EmptySet
<1>2. i \in Nat /\ i < k
  <2> HIDE DEF k
  <2> QED
    BY <1>1
<1>3. top \in Nat /\ \A r \in rows : u[r] \in 0..top
  BY Unsigned, Sizes
<1>4. PICK r \in rows : /\ Cardinality(Lower(u, rows, u[r])) <= i
                        /\ i < Cardinality(UpTo(u, rows, u[r]))
  <2> HIDE DEF u, i, top
  <2> QED
    BY <1>2, <1>3, RankExists
<1>5. Middle(q[r])
  <2>1. /\ Lower(u, rows, u[r]) = {s \in rows : U32(q[s]) < U32(q[r])}
        /\ UpTo(u, rows, u[r]) = {s \in rows : U32(q[s]) <= U32(q[r])}
    BY DEF Lower, UpTo
  <2> QED
    BY <1>4, <2>1
<1>6. lower_median(q) = CHOOSE p \in {q[s] : s \in rows} : Middle(p)
  BY DEF lower_median
<1> HIDE DEF Middle
<1>7. lower_median(q) \in {q[s] : s \in rows} /\ Middle(lower_median(q))
  BY <1>5, <1>6
<1> QED
  BY <1>7 DEF Middle

(* Sorting prices as unsigned numbers finds what the covenant's signed rank check asks for, when   *)
(* none is negative.                                                                              *)
LEMMA MedianPasses ==
  ASSUME NEW rows, IsFiniteSet(rows), rows # {}, NEW q \in [rows -> 0..MaxCounter]
  PROVE  IsLowerMedian(q, lower_median(q))
<1> DEFINE k == Cardinality(rows)
           i == (k - 1) \div 2
           m == lower_median(q)
<1>1. k \in Nat /\ k > 0 /\ DOMAIN q = rows /\ q \in [rows -> Int]
  BY FS_CardinalityType, FS_EmptySet
<1>2. /\ m \in {q[r] : r \in rows}
      /\ Cardinality({r \in rows : U32(q[r]) < U32(m)}) <= i
      /\ i < Cardinality({r \in rows : U32(q[r]) <= U32(m)})
  BY <1>1, MedianExists
<1> HIDE DEF m
<1>3. m \in 0..MaxCounter /\ m \in Int /\ U32(m) = m /\ \A r \in rows : U32(q[r]) = q[r]
  BY <1>2, Unsigned, Sizes
<1>4. /\ {r \in rows : U32(q[r]) < U32(m)} = Below(q, m)
      /\ {r \in rows : U32(q[r]) <= U32(m)} = {r \in rows : q[r] <= m}
  BY <1>1, <1>3 DEF Below
<1>5. /\ Cardinality({r \in rows : q[r] <= m}) = k - Cardinality(Above(q, m))
      /\ Cardinality(Above(q, m)) \in Nat /\ Cardinality(Below(q, m)) \in Nat
      /\ IsFiniteSet({r \in rows : q[r] <= m})
  BY <1>1, <1>3, Ranks
<1>6. Cardinality(Below(q, m)) < Cardinality({r \in rows : q[r] <= m})
  <2> DEFINE AtMost == {r \in rows : q[r] <= m}
  <2>1. PICK r \in rows : q[r] = m
    BY <1>2
  <2>2. r \in AtMost /\ Below(q, m) \subseteq AtMost \ {r}
    BY <1>1, <1>3, <2>1 DEF Below
  <2>3. Cardinality(AtMost \ {r}) = Cardinality(AtMost) - 1 /\ IsFiniteSet(AtMost \ {r})
    BY <1>5, <2>2, FS_RemoveElement
  <2>4. Cardinality(Below(q, m)) <= Cardinality(AtMost \ {r})
    BY <2>2, <2>3, FS_Subset
  <2>5. Cardinality(AtMost) \in Nat
    BY <1>5, FS_CardinalityType
  <2> QED
    BY <1>5, <2>3, <2>4, <2>5
<1>7. k \div 2 + i = k - 1 /\ i \in Nat /\ k \div 2 \in Nat
  BY <1>1, Halves
<1> HIDE DEF i, k
<1>8. /\ Cardinality(Below(q, m)) <= i
      /\ Cardinality(Above(q, m)) <= k \div 2
      /\ Cardinality(Below(q, m)) + Cardinality(Above(q, m)) < k
  <2>1. Cardinality(Below(q, m)) <= i /\ i < Cardinality({r \in rows : q[r] <= m})
    BY <1>2, <1>4
  <2>2. i < k - Cardinality(Above(q, m)) /\ Cardinality(Below(q, m)) < k - Cardinality(Above(q, m))
    BY <1>5, <1>6, <2>1
  <2> QED
    BY <1>1, <1>5, <1>7, <2>1, <2>2
<1> QED
  BY <1>1, <1>8 DEF IsLowerMedian, m, i, k

LEMMA MaxOfInts ==
  ASSUME NEW S \in SUBSET Int, IsFiniteSet(S), S # {}
  PROVE  Max(S) \in S /\ \A y \in S : Max(S) >= y
<1> DEFINE Good == {T \in SUBSET S : T = {} \/ \E x \in T : \A y \in T : x >= y}
<1>1. {} \in Good /\ Good \in SUBSET SUBSET S
  OBVIOUS
<1>2. ASSUME NEW T \in Good, NEW z \in S PROVE T \cup {z} \in Good
  <2>1. CASE T = {}
    <3>1. z >= z /\ T \cup {z} = {z}
      BY <2>1
    <3> QED
      BY <3>1
  <2>2. ASSUME NEW x \in T, \A y \in T : x >= y PROVE T \cup {z} \in Good
    <3>1. x \in Int /\ z \in Int
      OBVIOUS
    <3>2. \E v \in T \cup {z} : \A y \in T \cup {z} : v >= y
      <4>1. CASE x >= z
        BY <2>2, <4>1
      <4>2. CASE ~(x >= z)
        <5>1. \A y \in T \cup {z} : z >= y
          <6> TAKE y \in T \cup {z}
          <6>1. y \in Int /\ (y = z \/ x >= y)
            BY <2>2
          <6> QED
            BY <3>1, <4>2, <6>1
        <5> QED
          BY <5>1
      <4> QED
        BY <4>1, <4>2
    <3> QED
      BY <3>2
  <2> QED
    BY <2>1, <2>2
<1>3. Good = SUBSET S
  <2> HIDE DEF Good
  <2> QED
    BY <1>1, <1>2, SetInductive
<1>4. \E x \in S : \A y \in S : x >= y
  <2>1. S \in Good
    BY <1>3
  <2> QED
    BY <2>1
<1> QED
  BY <1>4 DEF Max

-----------------------------------------------------------------------------
(* What a builder has read, and what still holds of it. *)

Working == {"found", "collect", "time", "tickers", "coins", "send", "resend"}
Quoted == {"time", "tickers", "coins", "send", "resend"}

(* While nobody has spent the head it read, that is the head; its table is the manifest's. *)
SawHead(b, j) ==
    j.pc \in Working =>
        /\ j.head.table = manifest[b]
        /\ j.outpoint <= outpoint
        /\ j.outpoint = outpoint => j.head = head

(* Its minute is later than that head's; and it is late by the clock's own reading. *)
SawMinute(j) ==
    j.pc \in Working \ {"found"} =>
        /\ j.minute > j.head.snap.ts
        /\ j.late => clock >= j.minute * MinuteLen + PostAt

(* Its statements are of rows of the table, signed for that minute, and enough of them. *)
SawRows(b, j) ==
    j.pc \in Quoted =>
        /\ DOMAIN j.quotes \subseteq 1..Len(manifest[b])
        /\ Cardinality(DOMAIN j.quotes) >= Quorum
        /\ Cardinality(DOMAIN j.quotes) = Len(manifest[b]) \/ j.late
        /\ \A r \in DOMAIN j.quotes : Signs(manifest[b][r], j.minute, j.quotes[r])

(* Its Tickers were due by a chain time that has passed. *)
SawTickers(j) ==
    /\ j.pc \in Quoted \ {"time"} => j.mtp <= mtp
    /\ j.pc \in {"coins", "send", "resend"} => IsFiniteSet(j.recycled) /\ \A t \in j.recycled : Due(t, j.mtp)

(* A top-up's coin is large enough. *)
SawCoin(b, j) == b \in TopUp /\ j.pc \in {"send", "resend"} => j.coin >= Needed

Read(b, j) == SawHead(b, j) /\ SawMinute(j) /\ SawRows(b, j) /\ SawTickers(j) /\ SawCoin(b, j)

BuilderInv ==
    /\ TypeOK /\ BuilderTypeOK
    /\ IsFiniteSet(tickers)
    /\ \A s \in offers : Signs(s.by, s.ts, s.price)
    /\ \A b \in Builder : Read(b, job[b])
    /\ TopUpMoved

(* What stays true of what was read while others move the chain and the clock. *)
LEMMA ReadStays ==
  ASSUME NEW b \in Builder, NEW j \in Job, Read(b, j), outpoint \in Nat, outpoint' \in Nat,
         (outpoint' = outpoint /\ head' = head) \/ outpoint' > outpoint,
         manifest'[b] = manifest[b] \/ j.pc \notin Working,
         clock \in Nat, clock' \in Nat, clock' >= clock, mtp \in Nat, mtp' \in Nat, mtp' >= mtp
  PROVE  Read(b, j)'
<1>1. /\ j.outpoint \in Nat /\ j.minute \in Nat /\ j.mtp \in Nat
      /\ j.minute * MinuteLen + PostAt \in Nat
  <2>1. j.outpoint \in Nat /\ j.mtp \in Nat /\ j.minute \in Minute \cup {0}
    BY DEF Job
  <2>2. j.minute \in Nat
    BY <2>1, BuilderConstants
  <2> QED
    BY <2>1, <2>2, BuilderConstants
<1>2. SawHead(b, j)'
  BY <1>1 DEF Read, SawHead
<1>3. SawMinute(j)'
  <2> DEFINE due == j.minute * MinuteLen + PostAt
  <2>1. clock >= due => clock' >= due
    <3>1. due \in Nat
      BY <1>1
    <3> HIDE DEF due
    <3> QED
      BY <3>1
  <2> QED
    BY <2>1 DEF Read, SawMinute
<1>4. SawRows(b, j)'
  BY DEF Read, SawRows, Quoted, Working, Signs
<1>5. SawTickers(j)' /\ SawCoin(b, j)'
  BY <1>1 DEF Read, SawTickers, SawCoin, Due
<1> QED
  BY <1>2, <1>3, <1>4, <1>5 DEF Read

LEMMA AsleepFacts ==
  /\ Asleep \in Job /\ Done \in Job /\ Asleep.pc = "asleep" /\ Done.pc = "done"
  /\ \A b : Read(b, Asleep) /\ Read(b, Done)
<1>1. FirstHead \in [lock: {"oracle"}, snap: Snapshot, table: Tables, value: Nat]
  BY SizeAssumption, TableAssumption DEF FirstHead, Snapshot
<1>2. <<>> \in Quotes
  <2>1. <<>> \in [{} -> Price] /\ {} \in SUBSET Row
    OBVIOUS
  <2> QED
    BY <2>1 DEF Quotes
<1>3. Asleep \in Job
  BY <1>1, <1>2 DEF Asleep, Job
<1>4. Done \in Job
  BY <1>3 DEF Done, Job
<1>5. Asleep.pc = "asleep" /\ Done.pc = "done"
  BY DEF Asleep, Done
<1>6. \A b : Read(b, Asleep) /\ Read(b, Done)
  BY <1>5 DEF Read, SawHead, SawMinute, SawRows, SawTickers, SawCoin, Working, Quoted
<1> QED
  BY <1>3, <1>4, <1>5, <1>6

(* A step of one builder that leaves the chain alone. *)
LEMMA QuietStep ==
  ASSUME BuilderInv, NEW b \in Builder, NEW j \in Job, Read(b, j), Go(b, j),
         UNCHANGED <<vars, clock, offers, coins, outpoint, posts>>,
         faults' \in 0..MaxFaults, manifest' \in [Builder -> Tables],
         \A c \in Builder : manifest'[c] = manifest[c] \/ (c = b /\ j.pc \notin Working),
         b \in TopUp /\ j.pc = "done" => \E p \in posts : p.by = b /\ p.coin >= Needed
  PROVE  BuilderInv'
<1>1. /\ TypeOK /\ BuilderTypeOK /\ IsFiniteSet(tickers)
      /\ \A s \in offers : Signs(s.by, s.ts, s.price)
      /\ \A c \in Builder : Read(c, job[c])
      /\ TopUpMoved
  BY DEF BuilderInv
<1>2. \A c \in Builder : job'[c] = IF c = b THEN j ELSE job[c]
  BY <1>1 DEF Go, BuilderTypeOK
<1>3. job' \in [Builder -> Job]
  BY <1>1 DEF Go, BuilderTypeOK
<1>4. BuilderTypeOK'
  BY <1>1, <1>3 DEF BuilderTypeOK
<1>5. TypeOK' /\ IsFiniteSet(tickers)' /\ (\A s \in offers : Signs(s.by, s.ts, s.price))'
  BY <1>1 DEF TypeOK, vars, Signs
<1>6. ASSUME NEW c \in Builder PROVE Read(c, job[c])'
  <2> PICK k : k = job'[c]
    OBVIOUS
  <2>1. k \in Job /\ Read(c, k)
    BY <1>1, <1>2, <1>3
  <2>2. /\ outpoint \in Nat /\ clock \in Nat /\ mtp \in Nat
        /\ UNCHANGED <<outpoint, head, clock, mtp>>
    BY <1>1, BuilderConstants DEF BuilderTypeOK, TypeOK, vars
  <2>3. manifest'[c] = manifest[c] \/ k.pc \notin Working
    BY <1>2
  <2>4. Read(c, k)'
    BY <2>1, <2>2, <2>3, ReadStays
  <2> QED
    BY <2>4 DEF Read, SawHead, SawMinute, SawRows, SawTickers, SawCoin
<1>7. TopUpMoved'
  BY <1>1, <1>2, BuilderConstants DEF TopUpMoved, At
<1> QED
  BY <1>1, <1>4, <1>5, <1>6, <1>7 DEF BuilderInv

(* The clock's minute and tick together are the clock. *)
LEMMA MinuteAndTick ==
  ASSUME clock \in 0..MaxClock
  PROVE  /\ Now \in Minute /\ Now \in Nat /\ Second \in Nat
         /\ clock = Now * MinuteLen + Second
<1>1. \A x, n \in Nat : n > 0 => /\ x \div n \in Nat /\ x % n \in Nat /\ x = (x \div n) * n + (x % n)
  OBVIOUS
<1>2. \A x, y, n \in Nat : n > 0 /\ x <= y => x \div n <= y \div n
  OBVIOUS
<1>3. MinuteLen \in Nat /\ MinuteLen > 0 /\ MaxClock \in Nat /\ clock \in Nat /\ clock <= MaxClock
  BY BuilderConstants
<1>4. Now \in Nat /\ Now <= MaxClock \div MinuteLen /\ MaxClock \div MinuteLen \in Nat
  BY <1>1, <1>2, <1>3 DEF Now
<1>5. Now \in Minute
  BY <1>4, BuilderAssumption
<1> QED
  BY <1>1, <1>3, <1>4, <1>5 DEF Now, Second

(* What a builder in the middle of a pass knows. *)
LEMMA PassFacts ==
  ASSUME BuilderInv, NEW b \in Builder
  PROVE  /\ job[b] \in Job /\ job \in [Builder -> Job] /\ Read(b, job[b])
         /\ job[b].minute \in Minute /\ job[b].minute \in Nat
         /\ manifest \in [Builder -> Tables] /\ manifest[b] \in Tables
         /\ clock \in 0..MaxClock /\ faults \in 0..MaxFaults /\ faults \in Nat
         /\ (Lost => faults' \in 0..MaxFaults)
<1>1. BuilderTypeOK /\ Read(b, job[b])
  BY DEF BuilderInv
<1>2. job[b].minute \in Minute \cup {0}
  BY <1>1 DEF BuilderTypeOK, Job
<1>3. 0 \in Minute
  <2>1. MaxClock \in Nat /\ MinuteLen \in Nat /\ MinuteLen > 0
    BY BuilderConstants
  <2>2. MaxClock \div MinuteLen \in Nat
    BY <2>1
  <2> QED
    BY <2>2, BuilderAssumption
<1>4. Lost => faults' \in 0..MaxFaults
  BY <1>1, BuilderConstants DEF Lost, BuilderTypeOK
<1>5. job[b].minute \in Minute /\ job[b].minute \in Nat
  BY <1>2, <1>3, BuilderConstants
<1>6. /\ job[b] \in Job /\ job \in [Builder -> Job]
      /\ manifest \in [Builder -> Tables] /\ manifest[b] \in Tables
      /\ clock \in 0..MaxClock /\ faults \in 0..MaxFaults /\ faults \in Nat
  BY <1>1 DEF BuilderTypeOK
<1> QED
  BY <1>1, <1>4, <1>5, <1>6

(* The pass ends: the builder sleeps, or ends without a post if it may. *)
LEMMA PassEnds ==
  ASSUME BuilderInv, NEW b \in Builder,
         UNCHANGED <<vars, clock, offers, coins, outpoint, posts>>,
         faults' \in 0..MaxFaults, manifest' \in [Builder -> Tables],
         \A c \in Builder : manifest'[c] = manifest[c] \/ c = b,
         Go(b, Asleep) \/ NothingToPost(b)
  PROVE  BuilderInv'
<1>1. CASE Go(b, Asleep)
  BY <1>1, AsleepFacts, QuietStep DEF Working
<1>2. CASE b \notin TopUp /\ Go(b, Done)
  BY <1>2, AsleepFacts, QuietStep DEF Working
<1> QED
  BY <1>1, <1>2 DEF NothingToPost

LEMMA FindHeadStep ==
  ASSUME BuilderInv, NEW b \in Builder, FindHead(b)
  PROVE  BuilderInv'
<1> DEFINE j == [Asleep EXCEPT !.pc = "found", !.head = head, !.outpoint = outpoint]
<1>1. /\ head.lock = "oracle" /\ head.table = manifest[b] /\ Go(b, j)
      /\ UNCHANGED <<vars, clock, offers, coins, outpoint, manifest, faults, posts>>
  BY DEF FindHead
<1>2. manifest[b] \in Tables /\ manifest \in [Builder -> Tables] /\ faults \in 0..MaxFaults
  BY PassFacts
<1>3. head \in [lock: {"oracle"}, snap: Snapshot, table: Tables, value: Nat] /\ outpoint \in Nat
  BY <1>1, <1>2 DEF BuilderInv, TypeOK, BuilderTypeOK
<1>4. j \in Job /\ j.pc = "found" /\ j.head = head /\ j.outpoint = outpoint
  BY <1>3, AsleepFacts DEF Job
<1> HIDE DEF j
<1>5. Read(b, j)
  BY <1>1, <1>3, <1>4 DEF Read, SawHead, SawMinute, SawRows, SawTickers, SawCoin, Working, Quoted
<1> QED
  BY <1>1, <1>2, <1>4, <1>5, QuietStep

LEMMA CheckMinuteStep ==
  ASSUME BuilderInv, NEW b \in Builder, CheckMinute(b)
  PROVE  BuilderInv'
<1> DEFINE late == Second >= PostAt
           j == [job[b] EXCEPT !.pc = "collect", !.minute = Now, !.late = late]
<1>1. /\ job[b] \in Job /\ Read(b, job[b]) /\ manifest \in [Builder -> Tables]
      /\ faults \in 0..MaxFaults /\ clock \in 0..MaxClock
  BY PassFacts
<1>2. /\ job[b].pc = "found"
      /\ UNCHANGED <<vars, clock, offers, coins, outpoint, manifest, faults, posts>>
  BY DEF CheckMinute, At
<1>3. CASE NothingToPost(b)
  BY <1>1, <1>2, <1>3, PassEnds
<1>4. CASE ~(job[b].head.snap.ts >= Now) /\ Go(b, j)
  <2>1. /\ Now \in Minute /\ Now \in Nat /\ Second \in Nat
        /\ clock = Now * MinuteLen + Second
    BY <1>1, MinuteAndTick
  <2>2. job[b].head.snap.ts \in Nat
    BY <1>1 DEF Job, Snapshot
  <2>3. late \in BOOLEAN /\ (late => Second >= PostAt)
    OBVIOUS
  <2> HIDE DEF late
  <2>4. /\ j \in Job /\ j.pc = "collect" /\ j.minute = Now /\ j.late = late
        /\ j.head = job[b].head /\ j.outpoint = job[b].outpoint
    BY <1>1, <2>1, <2>3 DEF Job
  <2> HIDE DEF j
  <2>5. SawMinute(j)
    <3>1. late => clock >= Now * MinuteLen + PostAt
      <4>1. Now * MinuteLen \in Nat /\ PostAt \in Nat
        BY <2>1, BuilderConstants
      <4> DEFINE start == Now * MinuteLen
      <4>2. clock = start + Second /\ start \in Nat
        BY <2>1, <4>1
      <4> HIDE DEF start
      <4>3. late => clock >= start + PostAt
        BY <2>1, <2>3, <4>1, <4>2
      <4> QED
        BY <4>3 DEF start
    <3> QED
      BY <1>4, <2>1, <2>2, <2>4, <3>1 DEF SawMinute
  <2>6. Read(b, j)
    BY <1>1, <1>2, <2>4, <2>5 DEF Read, SawHead, SawRows, SawTickers, SawCoin, Working, Quoted
  <2> QED
    BY <1>1, <1>2, <1>4, <2>4, <2>6, QuietStep
<1> QED
  BY <1>3, <1>4 DEF CheckMinute

LEMMA CollectStep ==
  ASSUME BuilderInv, NEW b \in Builder, Collect(b)
  PROVE  BuilderInv'
<1> DEFINE table == manifest[b]
           m == job[b].minute
<1>1. /\ job[b] \in Job /\ Read(b, job[b]) /\ manifest \in [Builder -> Tables] /\ table \in Tables
      /\ faults \in 0..MaxFaults /\ (Lost => faults' \in 0..MaxFaults)
  BY PassFacts
<1>2. /\ job[b].pc = "collect"
      /\ UNCHANGED <<vars, clock, offers, coins, outpoint, manifest, posts>>
  BY DEF Collect, At
<1>3. PICK rows \in SUBSET Offered(table, m) :
         /\ IF rows = Offered(table, m) THEN UNCHANGED faults ELSE Lost
         /\ IF EnoughRows(b, rows)
              THEN Go(b, [job[b] EXCEPT !.pc = "time", !.quotes = QuotesOf(table, m, rows)])
              ELSE NothingToPost(b)
  BY DEF Collect
<1>4. faults' \in 0..MaxFaults
  BY <1>1, <1>3
<1>5. CASE NothingToPost(b)
  BY <1>1, <1>2, <1>4, <1>5, PassEnds
<1>6. CASE EnoughRows(b, rows) /\ Go(b, [job[b] EXCEPT !.pc = "time", !.quotes = QuotesOf(table, m, rows)])
  <2> DEFINE q == QuotesOf(table, m, rows)
             j == [job[b] EXCEPT !.pc = "time", !.quotes = q]
  <2>1. rows \subseteq 1..Len(table) /\ rows \subseteq Row
    <3>1. rows \subseteq 1..Len(table)
      BY DEF Offered
    <3>2. DOMAIN table = 1..Len(table)
      BY <1>1, TableFacts
    <3> QED
      BY <1>1, <3>1, <3>2, RowSets
  <2>2. DOMAIN q = rows
    BY DEF QuotesOf
  <2>3. \A r \in rows : q[r] \in Price /\ Signs(table[r], m, q[r])
    <3> TAKE r \in rows
    <3> DEFINE s == CHOOSE x \in offers : x.by = table[r] /\ x.ts = m
    <3>1. s \in offers /\ s.by = table[r] /\ s.ts = m
      BY DEF Offered
    <3>2. q[r] = s.price
      BY DEF QuotesOf
    <3> HIDE DEF s
    <3>3. s.price \in Price /\ Signs(s.by, s.ts, s.price)
      BY <3>1 DEF BuilderInv, BuilderTypeOK
    <3> QED
      BY <3>1, <3>2, <3>3
  <2>4. q \in Quotes
    <3>1. q = [r \in rows |-> q[r]]
      BY DEF QuotesOf
    <3>2. q \in [rows -> Price]
      BY <2>3, <3>1
    <3> QED
      BY <2>1, <3>2 DEF Quotes
  <2> HIDE DEF q
  <2>5. /\ j \in Job /\ j.pc = "time" /\ j.quotes = q /\ j.minute = m /\ j.late = job[b].late
        /\ j.head = job[b].head /\ j.outpoint = job[b].outpoint
    BY <1>1, <2>4 DEF Job
  <2>6. Go(b, j)
    BY <1>6 DEF q
  <2> HIDE DEF j
  <2>7. SawRows(b, j)
    BY <1>6, <2>1, <2>2, <2>3, <2>5 DEF SawRows, EnoughRows
  <2>8. Read(b, j)
    BY <1>1, <1>2, <2>5, <2>7 DEF Read, SawHead, SawMinute, SawTickers, SawCoin, Working, Quoted
  <2> QED
    BY <1>1, <1>2, <1>4, <2>5, <2>6, <2>8, QuietStep
<1> QED
  BY <1>3, <1>5, <1>6

LEMMA ReadTimeStep ==
  ASSUME BuilderInv, NEW b \in Builder, ReadTime(b)
  PROVE  BuilderInv'
<1> DEFINE j == [job[b] EXCEPT !.pc = "tickers", !.mtp = mtp]
<1>1. /\ job[b] \in Job /\ Read(b, job[b]) /\ manifest \in [Builder -> Tables]
      /\ faults \in 0..MaxFaults
  BY PassFacts
<1>2. /\ job[b].pc = "time" /\ Go(b, j)
      /\ UNCHANGED <<vars, clock, offers, coins, outpoint, manifest, faults, posts>>
  BY DEF ReadTime, At
<1>3. mtp \in Nat
  BY DEF BuilderInv, TypeOK
<1>4. /\ j \in Job /\ j.pc = "tickers" /\ j.mtp = mtp
      /\ j.quotes = job[b].quotes /\ j.minute = job[b].minute /\ j.late = job[b].late
      /\ j.head = job[b].head /\ j.outpoint = job[b].outpoint
  BY <1>1, <1>3 DEF Job
<1> HIDE DEF j
<1>5. Read(b, j)
  BY <1>1, <1>2, <1>3, <1>4 DEF Read, SawHead, SawMinute, SawRows, SawTickers, SawCoin, Working, Quoted
<1> QED
  BY <1>1, <1>2, <1>4, <1>5, QuietStep

LEMMA ReadTickersStep ==
  ASSUME BuilderInv, NEW b \in Builder, ReadTickers(b)
  PROVE  BuilderInv'
<1>1. /\ job[b] \in Job /\ Read(b, job[b]) /\ manifest \in [Builder -> Tables]
      /\ faults \in 0..MaxFaults
  BY PassFacts
<1>2. /\ job[b].pc = "tickers"
      /\ UNCHANGED <<vars, clock, offers, coins, outpoint, manifest, faults, posts>>
  BY DEF ReadTickers, At
<1>3. PICK S \in OldestDue(job[b].mtp) :
         Go(b, [job[b] EXCEPT !.pc = IF b \in TopUp THEN "coins" ELSE "send", !.recycled = S])
  BY DEF ReadTickers
<1>4. S \subseteq tickers /\ \A t \in S : Due(t, job[b].mtp)
  BY DEF OldestDue
<1>5. S \in SUBSET [snap: Snapshot, out: 0..2, value: Nat] /\ IsFiniteSet(S)
  BY <1>4, FS_Subset DEF BuilderInv, TypeOK
<1> DEFINE next == IF b \in TopUp THEN "coins" ELSE "send"
           j == [job[b] EXCEPT !.pc = next, !.recycled = S]
<1>6. next \in {"coins", "send"} /\ (next = "send" => b \notin TopUp)
  OBVIOUS
<1>7. Go(b, j)
  BY <1>3
<1> HIDE DEF next
<1>8. /\ j \in Job /\ j.pc = next /\ j.recycled = S /\ j.mtp = job[b].mtp
      /\ j.quotes = job[b].quotes /\ j.minute = job[b].minute /\ j.late = job[b].late
      /\ j.head = job[b].head /\ j.outpoint = job[b].outpoint
  BY <1>1, <1>5, <1>6 DEF Job
<1> HIDE DEF j
<1>9. SawTickers(j)
  BY <1>1, <1>2, <1>4, <1>5, <1>6, <1>8 DEF Read, SawTickers, Quoted
<1>10. Read(b, j)
  BY <1>1, <1>2, <1>6, <1>8, <1>9 DEF Read, SawHead, SawMinute, SawRows, SawCoin, Working, Quoted
<1> QED
  BY <1>1, <1>2, <1>6, <1>7, <1>8, <1>10, QuietStep

LEMMA ReadCoinsStep ==
  ASSUME BuilderInv, NEW b \in Builder, ReadCoins(b)
  PROVE  BuilderInv'
<1> DEFINE c == Max(coins)
           j == [job[b] EXCEPT !.pc = "send", !.coin = c]
<1>1. /\ job[b] \in Job /\ Read(b, job[b]) /\ manifest \in [Builder -> Tables]
      /\ faults \in 0..MaxFaults
  BY PassFacts
<1>2. /\ job[b].pc = "coins"
      /\ UNCHANGED <<vars, clock, offers, coins, outpoint, manifest, faults, posts>>
  BY DEF ReadCoins, At
<1>3. CASE Go(b, Asleep)
  BY <1>1, <1>2, <1>3, PassEnds
<1>4. ASSUME NEW d \in coins, d >= Needed, Go(b, j) PROVE BuilderInv'
  <2>1. coins \subseteq Coins /\ coins \in SUBSET Int /\ IsFiniteSet(coins) /\ coins # {}
    <3>1. coins \subseteq Coins
      BY DEF BuilderInv, BuilderTypeOK
    <3>2. IsFiniteSet(coins)
      BY <3>1, FS_Subset, BuilderConstants
    <3>3. Coins \subseteq TopUps /\ TopUps \subseteq Int
      BY BuilderConstants
    <3> QED
      BY <3>1, <3>2, <3>3
  <2>2. c \in coins /\ c >= d
    BY <2>1, MaxOfInts
  <2>3. c \in Coins /\ c >= Needed
    <3>1. c \in Int /\ d \in Int /\ Needed \in Int
      <4>1. Needed \in Int
        BY BuilderConstants
      <4> HIDE DEF c
      <4> QED
        BY <2>1, <2>2, <4>1
    <3> HIDE DEF c
    <3> QED
      BY <1>4, <2>1, <2>2, <3>1
  <2> HIDE DEF c
  <2>4. /\ j \in Job /\ j.pc = "send" /\ j.coin = c /\ j.recycled = job[b].recycled /\ j.mtp = job[b].mtp
        /\ j.quotes = job[b].quotes /\ j.minute = job[b].minute /\ j.late = job[b].late
        /\ j.head = job[b].head /\ j.outpoint = job[b].outpoint
    BY <1>1, <2>3 DEF Job
  <2> HIDE DEF j
  <2>5. Read(b, j)
    BY <1>1, <1>2, <2>3, <2>4 DEF Read, SawHead, SawMinute, SawRows, SawTickers, SawCoin, Working, Quoted
  <2> QED
    BY <1>1, <1>2, <1>4, <2>4, <2>5, QuietStep
<1> QED
  BY <1>3, <1>4 DEF ReadCoins

(* A broadcast that is not answered is sent again, then given up. *)
LEMMA AgainFacts ==
  ASSUME BuilderInv, NEW b \in Builder, job[b].pc \in {"send", "resend"}
  PROVE  LET j == [job[b] EXCEPT !.pc = "resend"]
         IN  j \in Job /\ j.pc = "resend" /\ Read(b, j)
<1> DEFINE j == [job[b] EXCEPT !.pc = "resend"]
<1>1. job[b] \in Job /\ Read(b, job[b])
  BY PassFacts
<1>2. /\ j \in Job /\ j.pc = "resend" /\ j.coin = job[b].coin
      /\ j.recycled = job[b].recycled /\ j.mtp = job[b].mtp
      /\ j.quotes = job[b].quotes /\ j.minute = job[b].minute /\ j.late = job[b].late
      /\ j.head = job[b].head /\ j.outpoint = job[b].outpoint
  BY <1>1 DEF Job
<1> HIDE DEF j
<1>3. Read(b, j)
  BY <1>1, <1>2 DEF Read, SawHead, SawMinute, SawRows, SawTickers, SawCoin, Working, Quoted
<1> QED
  BY <1>2, <1>3 DEF j

LEMMA GivingUpSteps ==
  ASSUME BuilderInv, NEW b \in Builder,
         CannotPay(b) \/ BroadcastRefused(b) \/ BroadcastLost(b) \/ ReadFails(b) \/ Restart(b)
  PROVE  BuilderInv'
<1>1. /\ job[b] \in Job /\ Read(b, job[b]) /\ manifest \in [Builder -> Tables]
      /\ faults \in 0..MaxFaults /\ (Lost => faults' \in 0..MaxFaults)
  BY PassFacts
<1>2. CASE CannotPay(b)
  BY <1>1, <1>2, PassEnds DEF CannotPay
<1>3. CASE BroadcastRefused(b)
  <2>1. UNCHANGED <<vars, clock, offers, coins, outpoint, manifest, faults, posts>>
    BY <1>3 DEF BroadcastRefused
  <2>2. CASE Go(b, Asleep)
    BY <1>1, <2>1, <2>2, PassEnds
  <2>3. CASE [by |-> b, outpoint |-> job[b].outpoint, coin |-> job[b].coin] \in posts /\ Go(b, Done)
    <3>1. b \in TopUp => job[b].coin >= Needed
      BY <1>1, <1>3 DEF BroadcastRefused, Sending, Read, SawCoin
    <3>2. b \in TopUp => \E p \in posts : p.by = b /\ p.coin >= Needed
      BY <2>3, <3>1
    <3> QED
      BY <1>1, <2>1, <2>3, <3>2, AsleepFacts, QuietStep DEF Working
  <2> QED
    BY <1>3, <2>2, <2>3 DEF BroadcastRefused
<1>4. CASE BroadcastLost(b)
  <2>1. /\ UNCHANGED <<vars, clock, offers, coins, outpoint, manifest, posts>>
        /\ faults' \in 0..MaxFaults /\ job[b].pc \in {"send", "resend"}
    BY <1>1, <1>4 DEF BroadcastLost, Unanswered, Sending
  <2>2. CASE Go(b, Asleep)
    BY <1>1, <2>1, <2>2, PassEnds
  <2>3. CASE Go(b, [job[b] EXCEPT !.pc = "resend"])
    BY <1>1, <2>1, <2>3, AgainFacts, QuietStep
  <2> QED
    BY <1>4, <2>2, <2>3 DEF BroadcastLost, Unanswered
<1>5. CASE ReadFails(b)
  BY <1>1, <1>5, PassEnds DEF ReadFails
<1>6. CASE Restart(b)
  <2>1. /\ UNCHANGED <<vars, clock, offers, coins, outpoint, posts>> /\ Lost /\ Go(b, Asleep)
        /\ manifest' \in {manifest} \cup {[manifest EXCEPT ![b] = t] : t \in {head.table} \cap Tables}
    BY <1>6 DEF Restart
  <2>2. /\ manifest' \in [Builder -> Tables]
        /\ \A c \in Builder : manifest'[c] = manifest[c] \/ c = b
    BY <1>1, <2>1
  <2> QED
    BY <1>1, <2>1, <2>2, PassEnds
<1> QED
  BY <1>2, <1>3, <1>4, <1>5, <1>6

-----------------------------------------------------------------------------
(* What a builder broadcasts. *)

(* update_locktime is late enough for the lead and for every Ticker, and one of those it is.      *)
LEMMA Locktime ==
  ASSUME NEW j \in Job, IsFiniteSet(j.recycled), j.minute \in Nat
  PROVE  LET lock == update_locktime(j)
         IN  /\ lock \in Int /\ lock >= j.minute - Ahead
             /\ \A t \in j.recycled : lock >= t.snap.ts + Life
             /\ \/ lock = 0 \/ lock = j.minute - Ahead
                \/ \E t \in j.recycled : lock = t.snap.ts + Life
<1> DEFINE lives == {t.snap.ts + Life : t \in j.recycled}
           S == {0, j.minute - Ahead} \cup lives
           f == [t \in j.recycled |-> t.snap.ts + Life]
<1>1. \A t \in j.recycled : t.snap.ts + Life \in Int
  BY Sizes DEF Job, Snapshot
<1>2. IsFiniteSet(lives)
  <2>1. f \in Surjection(j.recycled, lives)
    BY DEF Surjection
  <2> HIDE DEF f, lives
  <2> QED
    BY <2>1, FS_Surjection
<1>3. IsFiniteSet(S)
  <2>1. IsFiniteSet({0}) /\ IsFiniteSet({j.minute - Ahead})
    BY FS_Singleton
  <2>2. IsFiniteSet({0} \cup {j.minute - Ahead})
    BY <2>1, FS_Union
  <2>3. S = ({0} \cup {j.minute - Ahead}) \cup lives
    OBVIOUS
  <2> QED
    BY <1>2, <2>2, <2>3, FS_Union
<1>4. S \in SUBSET Int /\ S # {}
  <2>1. j.minute - Ahead \in Int
    BY Sizes
  <2> QED
    BY <1>1, <2>1
<1>5. Max(S) \in S /\ \A y \in S : Max(S) >= y
  <2> HIDE DEF S
  <2> QED
    BY <1>3, <1>4, MaxOfInts
<1>6. update_locktime(j) = Max(S)
  BY DEF update_locktime
<1> HIDE DEF S
<1>7. /\ j.minute - Ahead \in S /\ \A t \in j.recycled : t.snap.ts + Life \in S
      /\ \A y \in S : \/ y = 0 \/ y = j.minute - Ahead
                      \/ \E t \in j.recycled : y = t.snap.ts + Life
  BY DEF S
<1> QED
  BY <1>4, <1>5, <1>6, <1>7

(* The covenant's cap allows the builder's fee, however many rows and however long the table. *)
LEMMA CapCovers ==
  ASSUME NEW k \in Nat, k >= Quorum, NEW n \in Nat, n >= 1
  PROVE  FeeCap(FeePerRow, k, n) \in Nat /\ Fee <= FeeCap(FeePerRow, k, n)
<1>1. \A a, b, c \in Nat : b <= c => a * b \in Nat /\ a * c \in Nat /\ a * b <= a * c
  OBVIOUS
<1>2. /\ FeePerRow \in Nat /\ FeePerEntry \in Nat /\ FeeBase \in Nat /\ Quorum \in Nat /\ Fee \in Nat
  BY Sizes, BuilderConstants
<1>3. /\ FeePerRow * Quorum \in Nat /\ FeePerRow * k \in Nat /\ FeePerRow * Quorum <= FeePerRow * k
      /\ FeePerEntry * 1 \in Nat /\ FeePerEntry * n \in Nat /\ FeePerEntry * 1 <= FeePerEntry * n
  BY <1>1, <1>2
<1>4. Fee <= FeeBase + FeePerRow * Quorum + FeePerEntry * 1
  BY FeeAssumption DEF FeeCap
<1> DEFINE low == FeePerRow * Quorum
           high == FeePerRow * k
           one == FeePerEntry * 1
           all == FeePerEntry * n
<1> HIDE DEF low, high, one, all
<1>5. /\ low \in Nat /\ high \in Nat /\ low <= high /\ one \in Nat /\ all \in Nat /\ one <= all
      /\ Fee <= FeeBase + low + one
  BY <1>3, <1>4 DEF low, high, one, all
<1>6. FeeBase + high + all \in Nat /\ Fee <= FeeBase + high + all
  BY <1>2, <1>5
<1> QED
  BY <1>6 DEF FeeCap, high, all

(* What a builder is about to send, while the head it read is unspent. *)
LEMMA SendFacts ==
  ASSUME BuilderInv, NEW b \in Builder, job[b].pc \in {"send", "resend"}, job[b].outpoint = outpoint
  PROVE  LET j == job[b]
             rows == DOMAIN j.quotes
         IN  /\ j \in Job /\ Read(b, j) /\ j.head = head /\ head.table = manifest[b]
             /\ head.lock = "oracle" /\ head.table \in Tables /\ head.value \in Nat
             /\ head.snap.ts \in Nat /\ head.snap.seq \in Nat
             /\ j.minute \in Minute /\ j.minute \in Nat /\ j.minute > head.snap.ts
             /\ rows \in SUBSET DOMAIN head.table /\ IsFiniteSet(rows) /\ rows # {}
             /\ Cardinality(rows) \in Quorum..MaxRows /\ Cardinality(rows) \in Nat
             /\ Cardinality(rows) <= Len(head.table)
             /\ j.quotes \in [rows -> Price] /\ lower_median(j.quotes) \in Price
             /\ \A r \in rows : Signs(head.table[r], j.minute, j.quotes[r])
             /\ j.coin \in TopUps /\ j.coin \in Nat
             /\ IsFiniteSet(j.recycled) /\ Sats(j.recycled) \in Nat
<1> DEFINE j == job[b]
           rows == DOMAIN j.quotes
<1>1. j \in Job /\ Read(b, j) /\ j.minute \in Minute /\ j.minute \in Nat /\ manifest[b] \in Tables
  BY PassFacts
<1>2. j.head = head /\ head.table = manifest[b]
  BY <1>1 DEF Read, SawHead, Working
<1>3. /\ head.lock = "oracle" /\ head.table \in Tables /\ head.value \in Nat
      /\ head.snap.ts \in Nat /\ head.snap.seq \in Nat /\ j.minute > head.snap.ts
  BY <1>1, <1>2 DEF Job, Snapshot, Read, SawMinute, Working
<1>4. /\ rows \subseteq 1..Len(head.table) /\ Cardinality(rows) >= Quorum
      /\ \A r \in rows : Signs(head.table[r], j.minute, j.quotes[r])
  BY <1>1, <1>2 DEF Read, SawRows, Quoted
<1>5. Len(head.table) \in Row /\ DOMAIN head.table = 1..Len(head.table)
  BY <1>3, TableFacts
<1>6. rows \in SUBSET DOMAIN head.table
  BY <1>4, <1>5
<1>7. IsFiniteSet(rows) /\ Cardinality(rows) \in Nat /\ Cardinality(rows) <= Len(head.table)
  BY <1>3, <1>6, RowSets
<1>8. Cardinality(rows) \in Quorum..MaxRows /\ rows # {}
  BY <1>4, <1>5, <1>7, Sizes, FS_EmptySet DEF Row
<1>9. j.quotes \in [rows -> Price]
  BY <1>1 DEF Job, Quotes
<1>10. lower_median(j.quotes) \in Price
  <2> DEFINE q == j.quotes
  <2>1. q \in [rows -> Int]
    BY <1>9, FeedAssumption
  <2> HIDE DEF q, rows
  <2>2. lower_median(q) \in {q[r] : r \in rows}
    BY <1>7, <1>8, <2>1, MedianExists
  <2> QED
    BY <1>9, <2>2 DEF q
<1>11. j.coin \in TopUps /\ j.coin \in Nat
  <2>1. j.coin \in Coins \cup {0}
    BY <1>1 DEF Job
  <2> QED
    BY <2>1, BuilderConstants
<1>12. IsFiniteSet(j.recycled) /\ Sats(j.recycled) \in Nat
  <2>1. IsFiniteSet(j.recycled)
    BY <1>1 DEF Read, SawTickers
  <2>2. \A t \in j.recycled : t.value \in Nat
    BY <1>1 DEF Job
  <2> DEFINE S == j.recycled
  <2> HIDE DEF S
  <2>3. S \in SUBSET S
    OBVIOUS
  <2> QED
    BY <2>1, <2>2, <2>3, SatsFacts DEF S
<1> QED
  BY <1>1, <1>2, <1>3, <1>4, <1>6, <1>7, <1>8, <1>9, <1>10, <1>11, <1>12

LEMMA BuiltValid == BuilderInv => BuiltIsValid
<1> SUFFICES ASSUME BuilderInv, NEW b \in Builder, Sending(b), InputsUnspent(job[b]),
                    InRange(job[b]), NotFarAhead(job[b].minute), mtp > 0
             PROVE  Accepts(job[b])
  BY DEF BuiltIsValid
<1> DEFINE j == job[b]
           q == j.quotes
           rows == DOMAIN q
           lock == update_locktime(j)
           cap == FeeCap(FeePerRow, Cardinality(rows), Len(head.table))
           value == Total(j) - Spend
           burnt == Sats(j.recycled)
<1>1. job[b].pc \in {"send", "resend"} /\ job[b].outpoint = outpoint
  BY DEF Sending, InputsUnspent
<1>2. /\ j \in Job /\ Read(b, j) /\ j.head = head
      /\ head.lock = "oracle" /\ head.table \in Tables /\ head.value \in Nat
      /\ head.snap.ts \in Nat /\ head.snap.seq \in Nat
      /\ j.minute \in Nat /\ j.minute > head.snap.ts
      /\ rows \in SUBSET DOMAIN head.table /\ IsFiniteSet(rows) /\ rows # {}
      /\ Cardinality(rows) \in Quorum..MaxRows /\ Cardinality(rows) \in Nat
      /\ q \in [rows -> Price]
      /\ \A r \in rows : Signs(head.table[r], j.minute, q[r])
      /\ j.coin \in Nat /\ IsFiniteSet(j.recycled) /\ burnt \in Nat
  BY <1>1, SendFacts
<1>3. mtp \in Nat /\ j.mtp \in Nat /\ j.mtp <= mtp /\ \A t \in j.recycled : Due(t, j.mtp)
  BY <1>1, <1>2 DEF Read, SawTickers, Quoted, Job, BuilderInv, TypeOK
<1>4. \A t \in j.recycled : t.snap.ts + Life \in Int /\ t.snap.ts + Life < mtp
  <2> TAKE t \in j.recycled
  <2>1. t.snap.ts \in Nat /\ Life \in Nat
    BY <1>2, Sizes DEF Job, Snapshot
  <2>2. t.snap.ts + Life < j.mtp
    BY <1>3 DEF Due
  <2> QED
    BY <1>3, <2>1, <2>2
<1>5. /\ Final(lock) /\ lock >= j.minute - Ahead
      /\ \A t \in j.recycled : lock >= t.snap.ts + Life
  <2>1. /\ lock \in Int /\ lock >= j.minute - Ahead
        /\ \A t \in j.recycled : lock >= t.snap.ts + Life
        /\ \/ lock = 0 \/ lock = j.minute - Ahead
           \/ \E t \in j.recycled : lock = t.snap.ts + Life
    BY <1>2, Locktime
  <2> HIDE DEF lock
  <2>2. lock < mtp
    BY <1>4, <2>1 DEF NotFarAhead, Final
  <2> QED
    BY <2>1, <2>2 DEF Final
<1>6. IsLowerMedian(q, lower_median(q))
  <2>1. \A r \in rows : q[r] \in 0..MaxCounter
    <3> TAKE r \in rows
    <3>1. q[r] \in Price
      BY <1>2
    <3>2. q[r] \in (-MaxCounter)..MaxCounter /\ q[r] >= 0
      BY <3>1, PriceAssumption DEF InRange
    <3> QED
      BY <3>2, Sizes
  <2>2. q = [r \in rows |-> q[r]]
    BY <1>2
  <2>3. q \in [rows -> 0..MaxCounter]
    BY <2>1, <2>2
  <2> HIDE DEF q, rows
  <2> QED
    BY <1>2, <2>3, MedianPasses
<1>7. cap \in Nat /\ Fee <= cap
  <2>1. Len(head.table) \in Nat /\ Len(head.table) >= 1
    BY <1>2, TableFacts DEF Row
  <2>2. Cardinality(rows) >= Quorum
    BY <1>2
  <2> QED
    BY <1>2, <2>1, <2>2, CapCovers
<1>8. /\ value + 2 * TickerSats <= head.value + burnt + j.coin
      /\ value + (2 * TickerSats + cap) >= head.value + burnt + j.coin
  <2>1. Total(j) = head.value + burnt + j.coin /\ Spend = Fee + 2 * TickerSats
    BY <1>2 DEF Total, Spend
  <2>2. /\ head.value \in Nat /\ j.coin \in Nat /\ burnt \in Nat /\ Fee \in Nat
        /\ 2 * TickerSats \in Nat
    BY <1>2, BuilderConstants, Sizes
  <2> DEFINE two == 2 * TickerSats
             c == j.coin
             v == head.value
  <2>3. two \in Nat /\ c \in Nat /\ v \in Nat /\ value = (v + burnt + c) - (Fee + two)
    BY <2>1, <2>2
  <2> HIDE DEF two, c, v, burnt, cap, value
  <2>4. value + two <= v + burnt + c /\ value + (two + cap) >= v + burnt + c
    BY <1>7, <2>2, <2>3
  <2> QED
    BY <2>4 DEF two, c, v
<1>9. UpdateAllowed(j.minute, q, lower_median(q), j.recycled, j.coin, value)
  <2>1. /\ j.minute <= MaxCounter /\ head.snap.seq < MaxCounter
        /\ NewMinute(j.minute) /\ \A t \in j.recycled : Recyclable(t)
    BY <1>2, <1>4 DEF InRange, NewMinute, Recyclable, Final
  <2>2. KeepsReserve(value, 2 * TickerSats + cap, j.recycled, j.coin)
    BY <1>8 DEF KeepsReserve
  <2>3. /\ head.lock = "oracle" /\ rows \subseteq DOMAIN head.table
        /\ Cardinality(rows) \in Quorum..MaxRows
        /\ \A r \in rows : Signs(head.table[r], j.minute, q[r])
    BY <1>2
  <2> HIDE DEF value, q
  <2> QED
    BY <1>6, <1>8, <2>1, <2>2, <2>3 DEF UpdateAllowed, q
<1> QED
  BY <1>5, <1>9 DEF Accepts

-----------------------------------------------------------------------------
(* Steps that move the chain, the clock or the statements. *)

LEMMA WorldMoves ==
  ASSUME BuilderInv, TypeOK', BuilderTypeOK', IsFiniteSet(tickers)',
         \A s \in offers' : Signs(s.by, s.ts, s.price),
         \A c \in Builder : Read(c, job'[c]),
         (outpoint' = outpoint /\ head' = head) \/ outpoint' > outpoint,
         manifest' = manifest, clock' >= clock, mtp' >= mtp,
         TopUpMoved'
  PROVE  BuilderInv'
<1>1. /\ outpoint \in Nat /\ outpoint' \in Nat /\ clock \in Nat /\ clock' \in Nat
      /\ mtp \in Nat /\ mtp' \in Nat
  BY BuilderConstants DEF BuilderInv, TypeOK, BuilderTypeOK
<1>2. ASSUME NEW c \in Builder PROVE Read(c, job[c])'
  <2> PICK k : k = job'[c]
    OBVIOUS
  <2>1. k \in Job /\ Read(c, k) /\ manifest'[c] = manifest[c]
    BY DEF BuilderTypeOK
  <2>2. Read(c, k)'
    BY <1>1, <2>1, ReadStays
  <2> QED
    BY <2>2 DEF Read, SawHead, SawMinute, SawRows, SawTickers, SawCoin
<1>3. (\A s \in offers : Signs(s.by, s.ts, s.price))'
  BY DEF Signs
<1> QED
  BY <1>2, <1>3 DEF BuilderInv

(* The head moves, or another spender's step is taken: what the builders hold is as before. *)
LEMMA OthersStep ==
  ASSUME BuilderInv, [Next]_vars, IsFiniteSet(tickers)', outpoint' \in Nat,
         (outpoint' = outpoint /\ head' = head) \/ outpoint' > outpoint,
         UNCHANGED <<clock, offers, coins, manifest, job, faults, posts>>
  PROVE  BuilderInv'
<1>1. TypeOK /\ BuilderTypeOK /\ TopUpMoved
  BY DEF BuilderInv
<1>2. TypeOK'
  BY <1>1, TypeStep
<1>3. BuilderTypeOK' /\ TopUpMoved'
  BY <1>1 DEF BuilderTypeOK, TopUpMoved, At
<1>4. mtp' >= mtp /\ clock' >= clock
  BY <1>1, TimeStep, BuilderConstants DEF TypeOK, BuilderTypeOK
<1>5. /\ \A s \in offers' : Signs(s.by, s.ts, s.price)
      /\ \A c \in Builder : Read(c, job'[c])
  BY DEF BuilderInv
<1> QED
  BY <1>2, <1>3, <1>4, <1>5, WorldMoves

LEMMA RotateHeadStep ==
  ASSUME BuilderInv, NEW next \in Place, NEW rows \in SUBSET DOMAIN head.table, RotateHead(rows, next)
  PROVE  SomeRotation /\ BuilderInv'
<1>1. /\ head.value - Fee \in Values /\ Rotate(rows, next, {}, 0, head.value - Fee)
      /\ outpoint' = outpoint + 1
      /\ UNCHANGED <<clock, offers, coins, manifest, job, faults, posts>>
  BY DEF RotateHead
<1>2. SomeRotation
  <2>1. 0 \in TopUps /\ {} \in SUBSET {t \in tickers : Recyclable(t)}
    BY BuilderConstants
  <2> QED
    BY <1>1, <2>1 DEF SomeRotation
<1>3. tickers' = tickers \ {} /\ outpoint \in Nat /\ IsFiniteSet(tickers)
  BY <1>1 DEF Rotate, BuilderInv, BuilderTypeOK
<1>4. IsFiniteSet(tickers)' /\ outpoint' \in Nat /\ outpoint' > outpoint
  <2>1. tickers' = tickers
    BY <1>3
  <2> QED
    BY <1>1, <1>3, <2>1
<1>5. [Next]_vars
  BY <1>2 DEF Next
<1> QED
  BY <1>1, <1>2, <1>4, <1>5, OthersStep

LEMMA ElsewhereStep ==
  ASSUME BuilderInv, Elsewhere
  PROVE  [Next]_vars /\ BuilderInv'
<1>1. UNCHANGED own
  BY DEF Elsewhere
<1>2. CASE \E a \in ApprovalChoices : SignApproval(a)
  <2>1. head' = head /\ tickers' = tickers
    BY <1>2 DEF SignApproval
  <2>2. [Next]_vars
    BY <1>2 DEF Next
  <2> QED
    BY <1>1, <2>1, <2>2, OthersStep DEF own, BuilderInv, BuilderTypeOK
<1>3. ASSUME NEW t \in tickers, NEW value \in Values, Consume(t, value)
      PROVE  [Next]_vars /\ BuilderInv'
  <2>1. head' = head /\ tickers' = (tickers \ {t}) \cup Recreated(t, value)
    BY <1>3 DEF Consume
  <2>2. IsFiniteSet(tickers)'
    <3>1. IsFiniteSet(tickers \ {t})
      BY FS_Difference DEF BuilderInv
    <3>2. IsFiniteSet(Recreated(t, value))
      BY FS_Singleton DEF Recreated
    <3> QED
      BY <2>1, <3>1, <3>2, FS_Union
  <2>3. [Next]_vars
    BY <1>3 DEF Next
  <2> QED
    BY <1>1, <2>1, <2>2, <2>3, OthersStep DEF own, BuilderInv, BuilderTypeOK
<1>4. CASE AdvanceTime
  <2>1. head' = head /\ tickers' = tickers
    BY <1>4 DEF AdvanceTime
  <2>2. [Next]_vars
    BY <1>4 DEF Next
  <2> QED
    BY <1>1, <2>1, <2>2, OthersStep DEF own, BuilderInv, BuilderTypeOK
<1> QED
  BY <1>2, <1>3, <1>4 DEF Elsewhere

LEMMA OfferStep ==
  ASSUME BuilderInv, NEW n \in Notary, NEW m \in Minute, NEW p \in Price, Offer(n, m, p)
  PROVE  BuilderInv'
<1> DEFINE s == [by |-> n, ts |-> m, price |-> p]
<1>1. /\ offers' = offers \cup {s} /\ Signs(n, m, p)
      /\ UNCHANGED <<vars, clock, coins, outpoint, manifest, job, faults, posts>>
  BY DEF Offer
<1>2. TypeOK' /\ IsFiniteSet(tickers)' /\ TopUpMoved'
  BY <1>1 DEF BuilderInv, TypeOK, TopUpMoved, At, vars
<1>3. BuilderTypeOK'
  BY <1>1 DEF BuilderInv, BuilderTypeOK
<1>4. \A c \in Builder : Read(c, job'[c])
  BY <1>1 DEF BuilderInv
<1>5. \A t \in offers' : Signs(t.by, t.ts, t.price)
  BY <1>1 DEF BuilderInv
<1>6. clock' >= clock /\ mtp' >= mtp /\ head' = head
  BY <1>1, BuilderConstants DEF BuilderInv, TypeOK, BuilderTypeOK, vars
<1> QED
  BY <1>1, <1>2, <1>3, <1>4, <1>5, <1>6, WorldMoves

LEMMA TickStep ==
  ASSUME BuilderInv, Tick
  PROVE  BuilderInv'
<1>1. /\ clock < MaxClock /\ clock' = clock + 1
      /\ UNCHANGED <<vars, offers, coins, outpoint, manifest, job, faults, posts>>
  BY DEF Tick
<1>2. TypeOK' /\ IsFiniteSet(tickers)' /\ TopUpMoved'
  BY <1>1 DEF BuilderInv, TypeOK, TopUpMoved, At, vars
<1>3. clock' \in 0..MaxClock /\ clock' >= clock
  BY <1>1, BuilderConstants DEF BuilderInv, BuilderTypeOK
<1>4. BuilderTypeOK'
  BY <1>1, <1>3 DEF BuilderInv, BuilderTypeOK
<1>5. /\ \A s \in offers' : Signs(s.by, s.ts, s.price)
      /\ \A c \in Builder : Read(c, job'[c])
  BY <1>1 DEF BuilderInv
<1>6. mtp' >= mtp /\ head' = head
  BY <1>1 DEF BuilderInv, TypeOK, vars
<1> QED
  BY <1>1, <1>2, <1>3, <1>4, <1>5, <1>6, WorldMoves

(* A broadcast that is accepted is an update of the covenant. *)
LEMMA PostIsUpdate ==
  ASSUME BuilderInv, NEW b \in Builder, BroadcastAccepted(b)
  PROVE  /\ SomeUpdate /\ IsFiniteSet(tickers)'
         /\ job[b].pc \in {"send", "resend"} /\ job[b].outpoint = outpoint
         /\ mtp' = mtp /\ clock' = clock
         /\ log' = Append(log, [snap |-> NextSnapshot(job[b].minute, job[b].quotes, lower_median(job[b].quotes)),
                                table |-> head.table, quotes |-> job[b].quotes])
<1> DEFINE j == job[b]
           q == j.quotes
           rows == DOMAIN q
           m == lower_median(q)
           value == Total(j) - Spend
           snap == NextSnapshot(j.minute, q, m)
<1>1. /\ j.pc \in {"send", "resend"} /\ Accepts(j) /\ value \in Values
      /\ Update(j.minute, q, m, j.recycled, j.coin, value)
  BY DEF BroadcastAccepted, Sending
<1>2. /\ InputsUnspent(j) /\ j.recycled \subseteq tickers /\ j.outpoint = outpoint
      /\ UpdateAllowed(j.minute, q, m, j.recycled, j.coin, value)
  BY <1>1 DEF Accepts, InputsUnspent
<1>3. /\ j.minute \in Minute /\ m \in Price /\ j.coin \in TopUps
      /\ rows \in SUBSET DOMAIN head.table /\ Cardinality(rows) >= Quorum
      /\ q \in [rows -> Price]
  <2>1. /\ j.minute \in Minute /\ m \in Price /\ j.coin \in TopUps
        /\ rows \in SUBSET DOMAIN head.table /\ Cardinality(rows) \in Quorum..MaxRows
        /\ q \in [rows -> Price]
    BY <1>1, <1>2, SendFacts
  <2> QED
    BY <2>1
<1>4. /\ j.minute \in {x \in Minute : NewMinute(x) /\ NotFarAhead(x)}
      /\ j.recycled \in SUBSET {t \in tickers : Recyclable(t)}
      /\ rows \in {s \in SUBSET DOMAIN head.table : Cardinality(s) >= Quorum}
  BY <1>2, <1>3 DEF UpdateAllowed
<1>5. SomeUpdate
  <2> HIDE DEF q, m, value, rows
  <2> QED
    BY <1>1, <1>3, <1>4 DEF SomeUpdate
<1>6. /\ tickers' = (tickers \ j.recycled) \cup Fresh(snap)
      /\ mtp' = mtp
      /\ log' = Append(log, [snap |-> snap, table |-> head.table, quotes |-> q])
  BY <1>1 DEF Update
<1>7. IsFiniteSet(tickers)'
  <2>1. IsFiniteSet(tickers \ j.recycled)
    BY FS_Difference DEF BuilderInv
  <2> DEFINE one == [snap |-> snap, out |-> 1, value |-> TickerSats]
             two == [snap |-> snap, out |-> 2, value |-> TickerSats]
  <2>2. Fresh(snap) = {one} \cup {two}
    <3>1. 1..2 = {1, 2}
      OBVIOUS
    <3> HIDE DEF snap
    <3> QED
      BY <3>1 DEF Fresh
  <2> HIDE DEF one, two
  <2>3. IsFiniteSet({one}) /\ IsFiniteSet({two})
    BY FS_Singleton
  <2>4. IsFiniteSet({one} \cup {two})
    BY <2>3, FS_Union
  <2> HIDE DEF snap
  <2>5. IsFiniteSet((tickers \ j.recycled) \cup Fresh(snap))
    BY <2>1, <2>2, <2>4, FS_Union
  <2> QED
    BY <1>6, <2>5
<1>8. clock' = clock
  BY DEF BroadcastAccepted
<1> QED
  BY <1>1, <1>2, <1>5, <1>6, <1>7, <1>8

LEMMA BroadcastAcceptedStep ==
  ASSUME BuilderInv, NEW b \in Builder, BroadcastAccepted(b)
  PROVE  BuilderInv'
<1> DEFINE j == job[b]
           mine == [by |-> b, outpoint |-> j.outpoint, coin |-> j.coin]
<1>1. /\ outpoint' = outpoint + 1 /\ coins' = coins \ {j.coin} /\ posts' = posts \cup {mine}
      /\ UNCHANGED <<clock, offers, manifest>>
      /\ \/ Go(b, IF b \in Once THEN Done ELSE Asleep) /\ UNCHANGED faults
         \/ Unanswered(b)
  BY DEF BroadcastAccepted
<1>2. /\ SomeUpdate /\ IsFiniteSet(tickers)' /\ j.pc \in {"send", "resend"} /\ mtp' = mtp
  BY PostIsUpdate
<1>3. /\ TypeOK /\ BuilderTypeOK /\ TopUpMoved /\ outpoint \in Nat /\ mtp \in Nat /\ clock \in Nat
      /\ \A c \in Builder : Read(c, job[c])
  BY BuilderConstants DEF BuilderInv, TypeOK, BuilderTypeOK
<1>4. TypeOK'
  BY <1>2, <1>3, TypeStep DEF Next
<1>5. /\ j \in Job /\ job \in [Builder -> Job] /\ faults \in 0..MaxFaults
      /\ (Lost => faults' \in 0..MaxFaults)
  BY PassFacts
<1>6. PICK k \in Job : /\ Go(b, k) /\ Read(b, k) /\ faults' \in 0..MaxFaults
  <2>1. CASE Go(b, IF b \in Once THEN Done ELSE Asleep) /\ UNCHANGED faults
    BY <1>5, <2>1, AsleepFacts
  <2>2. CASE Unanswered(b)
    <3>1. faults' \in 0..MaxFaults
      BY <1>5, <2>2 DEF Unanswered
    <3>2. CASE Go(b, Asleep)
      BY <3>1, <3>2, AsleepFacts
    <3>3. CASE Go(b, [job[b] EXCEPT !.pc = "resend"])
      BY <1>2, <3>1, <3>3, AgainFacts
    <3> QED
      BY <2>2, <3>2, <3>3 DEF Unanswered
  <2> QED
    BY <1>1, <2>1, <2>2
<1>7. job' \in [Builder -> Job] /\ \A c \in Builder : job'[c] = IF c = b THEN k ELSE job[c]
  BY <1>5, <1>6 DEF Go
<1>8. \A c \in Builder : Read(c, job'[c])
  BY <1>3, <1>6, <1>7
<1>9. mine \in [by: Builder, outpoint: Nat, coin: Coins \cup {0}]
  BY <1>5 DEF Job
<1>10. BuilderTypeOK'
  <2>1. coins' \subseteq Coins /\ outpoint' \in Nat
    BY <1>1, <1>3 DEF BuilderTypeOK
  <2>2. posts' \subseteq [by: Builder, outpoint: Nat, coin: Coins \cup {0}]
    <3> HIDE DEF mine
    <3> QED
      BY <1>1, <1>3, <1>9 DEF BuilderTypeOK
  <2> QED
    BY <1>1, <1>3, <1>6, <1>7, <2>1, <2>2 DEF BuilderTypeOK
<1>11. TopUpMoved'
  <2> SUFFICES ASSUME NEW c \in TopUp, job'[c].pc = "done"
               PROVE  \E p \in posts' : p.by = c /\ p.coin >= Needed
    BY DEF TopUpMoved, At
  <2>1. c \in Builder
    BY BuilderConstants
  <2>2. CASE c = b
    <3>1. j.coin >= Needed
      BY <1>2, <1>3, <2>2 DEF Read, SawCoin
    <3>2. mine \in posts' /\ mine.by = c /\ mine.coin = j.coin
      BY <1>1, <2>2
    <3> HIDE DEF mine
    <3> QED
      BY <3>1, <3>2
  <2>3. CASE c # b
    <3>1. job[c].pc = "done"
      BY <1>7, <2>1, <2>3
    <3>2. PICK p \in posts : p.by = c /\ p.coin >= Needed
      BY <1>3, <3>1 DEF TopUpMoved, At
    <3> QED
      BY <1>1, <3>2
  <2> QED
    BY <2>2, <2>3
<1>12. \A s \in offers' : Signs(s.by, s.ts, s.price)
  BY <1>1 DEF BuilderInv
<1>13. outpoint' > outpoint /\ manifest' = manifest /\ clock' >= clock /\ mtp' >= mtp
  BY <1>1, <1>2, <1>3
<1> QED
  BY <1>2, <1>4, <1>8, <1>10, <1>11, <1>12, <1>13, WorldMoves

-----------------------------------------------------------------------------
(* Every step. *)

LEMMA BuilderInitial == BuilderInit => BuilderInv
<1> SUFFICES ASSUME BuilderInit PROVE BuilderInv
  OBVIOUS
<1> USE DEF BuilderInit
<1>1. TypeOK
  BY InitType
<1>2. BuilderTypeOK
  <2>1. (FirstTs + 1) * MinuteLen \in Nat
    BY Sizes, BuilderConstants
  <2>2. clock \in 0..MaxClock
    <3> DEFINE first == (FirstTs + 1) * MinuteLen
    <3>1. first \in Nat /\ first <= MaxClock
      BY <2>1, BuilderAssumption
    <3> HIDE DEF first
    <3>2. first \in 0..MaxClock
      BY <3>1, BuilderConstants
    <3> QED
      BY <3>2 DEF first
  <2>3. manifest \in [Builder -> Tables] /\ job \in [Builder -> Job]
    BY TableAssumption, AsleepFacts
  <2>4. faults \in 0..MaxFaults
    BY BuilderConstants
  <2> QED
    BY <2>2, <2>3, <2>4 DEF BuilderTypeOK
<1>3. IsFiniteSet(tickers)
  BY FS_EmptySet DEF Init
<1>4. \A b \in Builder : Read(b, job[b])
  BY AsleepFacts
<1>5. TopUpMoved
  BY AsleepFacts, BuilderConstants DEF TopUpMoved, At
<1> QED
  BY <1>1, <1>2, <1>3, <1>4, <1>5 DEF BuilderInv

LEMMA BuilderStepKept ==
  ASSUME BuilderInv, NEW b \in Builder, BuilderStep(b) \/ Failure(b)
  PROVE  [Next]_vars /\ BuilderInv'
<1>1. CASE BroadcastAccepted(b)
  BY <1>1, PostIsUpdate, BroadcastAcceptedStep DEF Next
<1>2. CASE FindHead(b)
  BY <1>2, FindHeadStep DEF FindHead
<1>3. CASE CheckMinute(b)
  BY <1>3, CheckMinuteStep DEF CheckMinute
<1>4. CASE Collect(b)
  BY <1>4, CollectStep DEF Collect
<1>5. CASE ReadTime(b)
  BY <1>5, ReadTimeStep DEF ReadTime
<1>6. CASE ReadTickers(b)
  BY <1>6, ReadTickersStep DEF ReadTickers
<1>7. CASE ReadCoins(b)
  BY <1>7, ReadCoinsStep DEF ReadCoins
<1>8. CASE CannotPay(b) \/ BroadcastRefused(b) \/ BroadcastLost(b) \/ ReadFails(b) \/ Restart(b)
  <2>1. UNCHANGED vars
    BY <1>8 DEF CannotPay, BroadcastRefused, BroadcastLost, ReadFails, Restart
  <2> QED
    BY <1>8, <2>1, GivingUpSteps
<1> QED
  BY <1>1, <1>2, <1>3, <1>4, <1>5, <1>6, <1>7, <1>8 DEF BuilderStep, Failure

(* The invariant is inductive, and every step around the builders is one the covenants allow.     *)
LEMMA BuilderInvKept == BuilderInv /\ [BuilderNext]_allVars => [Next]_vars /\ BuilderInv'
<1> SUFFICES ASSUME BuilderInv, [BuilderNext]_allVars PROVE [Next]_vars /\ BuilderInv'
  OBVIOUS
<1>1. CASE \E b \in Builder : BuilderStep(b) \/ Failure(b)
  BY <1>1, BuilderStepKept
<1>2. CASE \E n \in Notary, m \in Minute, p \in Price : Offer(n, m, p)
  BY <1>2, OfferStep DEF Offer
<1>3. CASE \E rows \in SUBSET DOMAIN head.table, next \in Place : RotateHead(rows, next)
  BY <1>3, RotateHeadStep DEF Next
<1>4. CASE Elsewhere
  BY <1>4, ElsewhereStep
<1>5. CASE Tick
  BY <1>5, TickStep DEF Tick
<1>6. CASE UNCHANGED allVars
  <2>1. UNCHANGED <<vars, own>>
    BY <1>6 DEF allVars
  <2>2. /\ head' = head /\ tickers' = tickers /\ outpoint' = outpoint
        /\ UNCHANGED <<clock, offers, coins, manifest, job, faults, posts>>
    BY <2>1 DEF vars, own
  <2> QED
    BY <2>1, <2>2, OthersStep DEF BuilderInv, BuilderTypeOK
<1> QED
  BY <1>1, <1>2, <1>3, <1>4, <1>5, <1>6 DEF BuilderNext

LEMMA AlwaysBuilderInv == BuilderSafety => []BuilderInv
<1>1. BuilderInit => BuilderInv
  BY BuilderInitial
<1>2. BuilderInv /\ [BuilderNext]_allVars => BuilderInv'
  BY BuilderInvKept
<1> QED
  BY <1>1, <1>2, PTL DEF BuilderSafety

(* Any number of builders racing, crashing and losing answers is one poster more to the covenants. *)
LEMMA BuilderIsPoster == BuilderSafety => Spec
<1>1. BuilderInit => Init
  BY DEF BuilderInit
<1>2. BuilderInv /\ [BuilderNext]_allVars => [Next]_vars
  BY BuilderInvKept
<1> QED
  BY <1>1, <1>2, AlwaysBuilderInv, PTL DEF BuilderSafety, Spec

-----------------------------------------------------------------------------
(* What follows. *)

(* Every builder, whatever it read when and whichever calls it lost, is in one of the states of   *)
(* build_loop, and holds statements, Tickers and coins of the shapes it read.                     *)
THEOREM BuilderTypeCorrect == BuilderSafety => []BuilderTypeOK
<1>1. BuilderInv => BuilderTypeOK
  BY DEF BuilderInv
<1> QED
  BY <1>1, AlwaysBuilderInv, PTL

(* The transaction that build_update lays out from five reads of different ages is one that       *)
(* Oracle.update, Ticker.recycle and consensus accept, for every table, coin, fee and clock, as   *)
(* long as nobody has spent what it spends.                                                       *)
THEOREM BuiltIsAccepted == BuilderSafety => []BuiltIsValid
  BY BuiltValid, AlwaysBuilderInv, PTL

(* A `topup` that has returned has put a coin of at least --sats into the reserve, however many   *)
(* answers were lost and however often it sent its bytes.                                         *)
THEOREM TopUpsMove == BuilderSafety => []TopUpMoved
<1>1. BuilderInv => TopUpMoved
  BY DEF BuilderInv
<1> QED
  BY <1>1, AlwaysBuilderInv, PTL

(* What a step may add to the log: entries with every row, or past second twenty. *)
LateOrFull ==
  \A e \in {log'[i] : i \in (Len(log) + 1)..Len(log')} :
     Cardinality(DOMAIN e.quotes) = Len(e.table) \/ clock >= e.snap.ts * MinuteLen + PostAt

LEMMA PostIsLateOrFull ==
  ASSUME BuilderInv, NEW b \in Builder, BroadcastAccepted(b)
  PROVE  LateOrFull
<1> DEFINE j == job[b]
           e == [snap |-> NextSnapshot(j.minute, j.quotes, lower_median(j.quotes)),
                 table |-> head.table, quotes |-> j.quotes]
<1>1. /\ j.pc \in {"send", "resend"} /\ j.outpoint = outpoint /\ log' = Append(log, e)
  BY PostIsUpdate
<1>2. Len(log') = Len(log) + 1 /\ log'[Len(log) + 1] = e /\ Len(log) \in Nat
  <2>1. log \in Seq([snap: Snapshot, table: Tables, quotes: Quotes])
    BY DEF BuilderInv, TypeOK
  <2> HIDE DEF e
  <2> QED
    BY <1>1, <2>1
<1>3. /\ Read(b, j) /\ head.table = manifest[b]
  BY <1>1, SendFacts
<1>4. /\ Cardinality(DOMAIN j.quotes) = Len(head.table) \/ j.late
      /\ j.late => clock >= j.minute * MinuteLen + PostAt
  BY <1>1, <1>3 DEF Read, SawRows, SawMinute, Quoted, Working
<1>5. e.quotes = j.quotes /\ e.table = head.table /\ e.snap.ts = j.minute
  BY DEF NextSnapshot
<1> HIDE DEF e, j
<1>6. Cardinality(DOMAIN e.quotes) = Len(e.table) \/ clock >= e.snap.ts * MinuteLen + PostAt
  BY <1>4, <1>5
<1>7. \A i \in (Len(log) + 1)..Len(log') : log'[i] = e
  BY <1>2
<1> QED
  BY <1>6, <1>7 DEF LateOrFull

LEMMA OthersPostNothing ==
  ASSUME BuilderInv, log' = log
  PROVE  LateOrFull
<1>1. Len(log) \in Nat
  BY DEF BuilderInv, TypeOK
<1>2. (Len(log) + 1)..Len(log') = {}
  BY <1>1
<1> QED
  BY <1>2 DEF LateOrFull

LEMMA EarlyStep == BuilderInv /\ [BuilderNext]_allVars => LateOrFull
<1> SUFFICES ASSUME BuilderInv, [BuilderNext]_allVars PROVE LateOrFull
  OBVIOUS
<1>1. ASSUME NEW b \in Builder, BuilderStep(b) \/ Failure(b) PROVE LateOrFull
  <2>1. CASE BroadcastAccepted(b)
    BY <2>1, PostIsLateOrFull
  <2>2. CASE UNCHANGED vars
    BY <2>2, OthersPostNothing DEF vars
  <2> QED
    BY <1>1, <2>1, <2>2 DEF BuilderStep, Failure, FindHead, CheckMinute, Collect, ReadTime, ReadTickers,
       ReadCoins, CannotPay, BroadcastRefused, BroadcastLost, ReadFails, Restart
<1>2. CASE \E n \in Notary, m \in Minute, p \in Price : Offer(n, m, p)
  BY <1>2, OthersPostNothing DEF Offer, vars
<1>3. CASE \E rows \in SUBSET DOMAIN head.table, next \in Place : RotateHead(rows, next)
  BY <1>3, OthersPostNothing DEF RotateHead, Rotate
<1>4. CASE Elsewhere
  BY <1>4, OthersPostNothing DEF Elsewhere, SignApproval, Consume, AdvanceTime
<1>5. CASE Tick
  BY <1>5, OthersPostNothing DEF Tick, vars
<1>6. CASE UNCHANGED allVars
  BY <1>6, OthersPostNothing DEF allVars, vars
<1> QED
  BY <1>1, <1>2, <1>3, <1>4, <1>5, <1>6 DEF BuilderNext

(* POST_AT_SEC: whichever clock reading a builder decided by and however late its broadcast is    *)
(* answered, fewer than all rows reach the chain only from second twenty of their own minute on.  *)
THEOREM PostsInTime == BuilderSafety => NoEarlyPost
<1>1. BuilderInv /\ [BuilderNext]_allVars
        => [\A e \in {log'[i] : i \in (Len(log) + 1)..Len(log')} :
              Cardinality(DOMAIN e.quotes) = Len(e.table)
              \/ clock >= e.snap.ts * MinuteLen + PostAt]_allVars
  BY EarlyStep DEF LateOrFull
<1> QED
  BY <1>1, AlwaysBuilderInv, PTL DEF BuilderSafety, NoEarlyPost

(* What the covenants promise of any poster holds of the system with its builders: one price      *)
(* history, each message readable for its lifetime.                                               *)
THEOREM BuildersRefineFeed == BuilderSafety => RefinesFeed
  BY BuilderIsPoster, Refinement, PTL
=============================================================================
