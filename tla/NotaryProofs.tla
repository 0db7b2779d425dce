---------------------------- MODULE NotaryProofs ----------------------------
(***************************************************************************)
(* What holds of Notary for every timing, bound and answer: proved by      *)
(* induction over the steps of the process, its clock and its disk.        *)
(***************************************************************************)
EXTENDS Notary, FiniteSums, SequenceTheorems

-----------------------------------------------------------------------------
(* Minutes. *)

LEMMA Timing ==
  /\ MinuteLen \in Nat /\ MinuteLen > 0 /\ Window \in Nat
  /\ LastAttempt \in Nat /\ LastAttempt < MinuteLen
  /\ Spacing \in Nat /\ Spacing > 0 /\ Offset \in Nat /\ Offset <= LastAttempt
  /\ Retries \in Nat /\ Retries > 0 /\ Keep \in Nat /\ Keep > 0
  /\ MaxBack \in Nat /\ MaxRuns \in Nat /\ MaxClock \in Nat /\ MaxClock >= MinuteLen - 1
  BY TimingAssumption

LEMMA Division ==
  ASSUME NEW c \in Nat
  PROVE  /\ c \div MinuteLen \in Nat /\ c % MinuteLen \in 0..(MinuteLen - 1)
         /\ c = (c \div MinuteLen) * MinuteLen + (c % MinuteLen)
  BY Timing

LEMMA Products ==
  ASSUME NEW j \in Int, NEW k \in Int
  PROVE  /\ j * MinuteLen \in Int /\ k * MinuteLen \in Int
         /\ j <= k => j * MinuteLen <= k * MinuteLen
         /\ j < k => j * MinuteLen + MinuteLen <= k * MinuteLen
<1>1. MinuteLen \in Nat /\ MinuteLen > 0
  BY Timing
<1>2. j * MinuteLen \in Int /\ k * MinuteLen \in Int
  BY <1>1
<1>3. \A d \in Nat : (j + d) * MinuteLen = j * MinuteLen + d * MinuteLen
  BY <1>1
<1>4. \A d \in Nat : d * MinuteLen >= 0
  BY <1>1
<1>5. ASSUME j <= k PROVE j * MinuteLen <= k * MinuteLen
  <2>1. k - j \in Nat /\ j + (k - j) = k
    BY <1>5
  <2>2. (k - j) * MinuteLen \in Int
    BY <1>1
  <2> QED
    BY <1>2, <1>3, <1>4, <2>1, <2>2
<1>6. ASSUME j < k PROVE j * MinuteLen + MinuteLen <= k * MinuteLen
  <2>1. k - j - 1 \in Nat /\ j + 1 + (k - j - 1) = k
    BY <1>6
  <2>2. (j + 1) * MinuteLen = j * MinuteLen + MinuteLen
    BY <1>1
  <2>3. (j + 1 + (k - j - 1)) * MinuteLen = (j + 1) * MinuteLen + (k - j - 1) * MinuteLen
    BY <1>1
  <2>4. (k - j - 1) * MinuteLen >= 0 /\ (k - j - 1) * MinuteLen \in Int
    BY <1>1, <2>1
  <2> QED
    BY <1>1, <1>2, <2>1, <2>2, <2>3, <2>4
<1> QED
  BY <1>2, <1>5, <1>6

(* A time is in minute k when it is k minutes and less than one more. *)
LEMMA InMinute ==
  ASSUME NEW c \in Nat, NEW k \in Nat, NEW r \in 0..(MinuteLen - 1), c = k * MinuteLen + r
  PROVE  c \div MinuteLen = k /\ c % MinuteLen = r
<1> DEFINE q == c \div MinuteLen
           s == c % MinuteLen
<1>1. q \in Nat /\ s \in 0..(MinuteLen - 1) /\ c = q * MinuteLen + s
  BY Division
<1> HIDE DEF q, s
<1>2. ~(q < k)
  BY <1>1, Products, Timing
<1>3. ~(k < q)
  BY <1>1, Products, Timing
<1>4. q = k
  BY <1>1, <1>2, <1>3
<1>5. s = r
  BY <1>1, <1>4, Products
<1> QED
  BY <1>4, <1>5 DEF q, s

LEMMA CurrentMinute ==
  ASSUME clock \in 0..MaxClock
  PROVE  /\ current_minute \in Minute /\ current_minute \in Nat
         /\ Second \in 0..(MinuteLen - 1)
         /\ clock = current_minute * MinuteLen + Second
<1>1. clock \in Nat /\ MaxClock \in Nat /\ clock <= MaxClock
  BY Timing
<1>2. /\ current_minute \in Nat /\ Second \in 0..(MinuteLen - 1)
      /\ clock = current_minute * MinuteLen + Second
  BY <1>1, Division DEF current_minute, Second
<1> DEFINE last == MaxClock \div MinuteLen
<1>3. last \in Nat /\ MaxClock % MinuteLen \in 0..(MinuteLen - 1)
      /\ MaxClock = last * MinuteLen + (MaxClock % MinuteLen)
  BY <1>1, Division
<1> HIDE DEF last
<1>4. ~(last < current_minute)
  BY <1>1, <1>2, <1>3, Products, Timing
<1>5. current_minute \in 0..last
  BY <1>2, <1>3, <1>4
<1> QED
  BY <1>2, <1>5 DEF Minute, last

-----------------------------------------------------------------------------
(* Numbers read digit by digit. *)

(* f is what has been read after each digit, starting from b. *)
Reads(f, b, s, n) ==
    f[0] = b /\ \A i \in 1..n : f[i] = 10 * f[i - 1] + s[i]

LEMMA ReadsExists ==
  ASSUME NEW n \in Nat, NEW b \in Int, NEW s, \A i \in 1..n : s[i] \in Int
  PROVE  \E f \in [0..n -> Int] : Reads(f, b, s, n)
<1> DEFINE Good == {k \in Nat : k <= n => \E f \in [0..n -> Int] : Reads(f, b, s, k)}
<1>1. 0 \in Good
  <2>1. [i \in 0..n |-> b] \in [0..n -> Int] /\ Reads([i \in 0..n |-> b], b, s, 0)
    BY DEF Reads
  <2> QED
    BY <2>1
<1>2. ASSUME NEW k \in Good PROVE k + 1 \in Good
  <2> SUFFICES ASSUME k + 1 <= n PROVE \E f \in [0..n -> Int] : Reads(f, b, s, k + 1)
    OBVIOUS
  <2>1. PICK f \in [0..n -> Int] : Reads(f, b, s, k)
    OBVIOUS
  <2> DEFINE g == [i \in 0..n |-> IF i = k + 1 THEN 10 * f[k] + s[k + 1] ELSE f[i]]
  <2>2. k \in 0..n /\ k + 1 \in 1..n /\ f[k] \in Int /\ s[k + 1] \in Int
    OBVIOUS
  <2>3. g \in [0..n -> Int] /\ g[0] = b
    BY <2>1, <2>2 DEF Reads
  <2>4. ASSUME NEW i \in 1..(k + 1) PROVE g[i] = 10 * g[i - 1] + s[i]
    <3>1. i \in 0..n /\ i - 1 \in 0..n /\ i - 1 # k + 1
      BY <2>2
    <3>2. CASE i = k + 1
      BY <2>2, <3>1, <3>2
    <3>3. CASE i # k + 1
      <4>1. i \in 1..k
        BY <3>3
      <4> QED
        BY <2>1, <3>1, <3>3, <4>1 DEF Reads
    <3> QED
      BY <3>2, <3>3
  <2> HIDE DEF g
  <2> QED
    BY <2>3, <2>4 DEF Reads
<1>3. Good = Nat
  <2> HIDE DEF Good
  <2>1. Good \in SUBSET Nat
    BY DEF Good
  <2> QED
    BY <1>1, <1>2, <2>1, NatInductive
<1> QED
  BY <1>3

(* Two readings of the same digits agree, and are numbers. *)
LEMMA ReadsUnique ==
  ASSUME NEW n \in Nat, NEW b \in Int, NEW s, \A i \in 1..n : s[i] \in Int,
         NEW f, Reads(f, b, s, n), NEW g, NEW t, Reads(g, b, t, n), \A i \in 1..n : t[i] = s[i]
  PROVE  \A i \in 0..n : f[i] = g[i] /\ f[i] \in Int
<1> DEFINE Good == {k \in Nat : k <= n => f[k] = g[k] /\ f[k] \in Int}
<1>1. 0 \in Good
  BY DEF Reads
<1>2. ASSUME NEW k \in Good PROVE k + 1 \in Good
  <2> SUFFICES ASSUME k + 1 <= n PROVE f[k + 1] = g[k + 1] /\ f[k + 1] \in Int
    OBVIOUS
  <2>1. k + 1 \in 1..n /\ k + 1 - 1 = k /\ f[k] = g[k] /\ f[k] \in Int
    OBVIOUS
  <2>2. f[k + 1] = 10 * f[k] + s[k + 1] /\ g[k + 1] = 10 * g[k] + t[k + 1]
    BY <2>1 DEF Reads
  <2> QED
    BY <2>1, <2>2
<1>3. Good = Nat
  <2> HIDE DEF Good
  <2>1. Good \in SUBSET Nat
    BY DEF Good
  <2> QED
    BY <1>1, <1>2, <2>1, NatInductive
<1> QED
  BY <1>3

(* NumberOf reads a sequence from 0. *)
LEMMA NumberIsRead ==
  ASSUME NEW s \in Seq(Int), NEW f, Reads(f, 0, s, Len(s))
  PROVE  NumberOf(s) = f[Len(s)] /\ NumberOf(s) \in Int
<1> DEFINE n == Len(s)
           F(g) == [i \in 0..n |-> IF i = 0 THEN 0 ELSE 10 * g[i - 1] + s[i]]
           upTo == CHOOSE g : g = F(g)
<1>1. n \in Nat /\ \A i \in 1..n : s[i] \in Int
  OBVIOUS
<1>2. \A g : g = F(g) => Reads(g, 0, s, n)
  <2> TAKE g
  <2> HAVE g = F(g)
  <2>1. \A i \in 0..n : g[i] = IF i = 0 THEN 0 ELSE 10 * g[i - 1] + s[i]
    OBVIOUS
  <2> HIDE DEF n, F
  <2> QED
    BY <1>1, <2>1 DEF Reads
<1>3. \E g : g = F(g)
  <2> HIDE DEF n
  <2>1. PICK g \in [0..n -> Int] : Reads(g, 0, s, n)
    <3>1. 0 \in Int
      OBVIOUS
    <3> QED
      BY <1>1, <3>1, ReadsExists
  <2>2. \A i \in 0..n : g[i] = F(g)[i]
    BY <1>1, <2>1 DEF Reads
  <2>3. g = F(g)
    BY <2>2
  <2> QED
    BY <2>3
<1>4. upTo = F(upTo)
  BY <1>3
<1> HIDE DEF upTo
<1>5. Reads(upTo, 0, s, n)
  BY <1>2, <1>4
<1>6. NumberOf(s) = upTo[n]
  BY DEF NumberOf, upTo
<1> HIDE DEF n
<1>7. \A i \in 0..n : upTo[i] = f[i] /\ upTo[i] \in Int
  <2>1. Reads(f, 0, s, n)
    BY DEF n
  <2> QED
    BY <1>1, <1>5, <2>1, ReadsUnique
<1> QED
  BY <1>1, <1>6, <1>7 DEF n

LEMMA NumberReads ==
  ASSUME NEW s \in Seq(Int)
  PROVE  \E f : Reads(f, 0, s, Len(s)) /\ NumberOf(s) = f[Len(s)]
<1>1. Len(s) \in Nat /\ \A i \in 1..Len(s) : s[i] \in Int
  OBVIOUS
<1> QED
  BY <1>1, ReadsExists, NumberIsRead

(* TenTo reads as many zeros after a one. *)
Zeros == [i \in Nat |-> 0]

LEMMA TenReads ==
  ASSUME NEW n \in Nat
  PROVE  \E f : Reads(f, 1, Zeros, n) /\ TenTo(n) = f[n]
<1> DEFINE F(g) == [i \in 0..n |-> IF i = 0 THEN 1 ELSE 10 * g[i - 1]]
           power == CHOOSE g : g = F(g)
<1>1. PICK f \in [0..n -> Int] : Reads(f, 1, Zeros, n)
  <2>1. (\A i \in 1..n : Zeros[i] \in Int) /\ 1 \in Int
    BY DEF Zeros
  <2> QED
    BY <2>1, ReadsExists
<1>2. f = F(f)
  <2>1. \A i \in 0..n : f[i] = IF i = 0 THEN 1 ELSE 10 * f[i - 1]
    BY <1>1 DEF Reads, Zeros
  <2> QED
    BY <2>1
<1>3. power = F(power)
  BY <1>2
<1>4. \A i \in 1..n : i - 1 \in 0..n /\ i \in 0..n
  OBVIOUS
<1> HIDE DEF power
<1>5. \A i \in 0..n : power[i] = f[i]
  <2> DEFINE Good == {k \in Nat : k <= n => power[k] = f[k]}
  <2>1. 0 \in Good
    BY <1>1, <1>3 DEF Reads
  <2>2. ASSUME NEW k \in Good PROVE k + 1 \in Good
    <3> SUFFICES ASSUME k + 1 <= n PROVE power[k + 1] = f[k + 1]
      OBVIOUS
    <3>1. k + 1 \in 1..n /\ k + 1 - 1 = k /\ k \in 0..n /\ power[k] = f[k] /\ f[k] \in Int
      OBVIOUS
    <3>2. power[k + 1] = 10 * power[k] /\ f[k + 1] = 10 * f[k] + Zeros[k + 1] /\ Zeros[k + 1] = 0
      BY <1>1, <1>3, <3>1 DEF Reads, Zeros
    <3> QED
      BY <3>1, <3>2
  <2>3. Good = Nat
    <3> HIDE DEF Good
    <3>1. Good \in SUBSET Nat
      BY DEF Good
    <3> QED
      BY <2>1, <2>2, <3>1, NatInductive
  <2> QED
    BY <2>3
<1>6. TenTo(n) = power[n]
  BY DEF TenTo, power
<1> QED
  BY <1>1, <1>5, <1>6

LEMMA Tens ==
  /\ TenTo(0) = 1
  /\ \A n \in Nat : TenTo(n) \in Nat /\ TenTo(n) > 0 /\ TenTo(n + 1) = 10 * TenTo(n)
<1>1. TenTo(0) = 1
  BY TenReads DEF Reads
<1>2. ASSUME NEW n \in Nat PROVE TenTo(n) \in Int /\ TenTo(n + 1) = 10 * TenTo(n)
  <2>1. PICK f : Reads(f, 1, Zeros, n) /\ TenTo(n) = f[n]
    BY TenReads
  <2>2. PICK g : Reads(g, 1, Zeros, n + 1) /\ TenTo(n + 1) = g[n + 1]
    <3>1. n + 1 \in Nat
      OBVIOUS
    <3> QED
      BY <3>1, TenReads
  <2>3. Reads(g, 1, Zeros, n)
    BY <2>2 DEF Reads
  <2>4. f[n] = g[n] /\ f[n] \in Int
    <3>1. (\A i \in 1..n : Zeros[i] \in Int) /\ 1 \in Int /\ n \in 0..n
      BY DEF Zeros
    <3>2. \A i \in 0..n : f[i] = g[i] /\ f[i] \in Int
      BY <2>1, <2>3, <3>1, ReadsUnique
    <3> QED
      BY <3>1, <3>2
  <2>5. g[n + 1] = 10 * g[n] + 0
    BY <2>2 DEF Reads, Zeros
  <2> QED
    BY <2>1, <2>2, <2>4, <2>5
<1>3. \A n \in Nat : TenTo(n) \in Nat /\ TenTo(n) > 0
  <2> DEFINE Good == {n \in Nat : TenTo(n) \in Nat /\ TenTo(n) > 0}
  <2>1. 0 \in Good /\ \A n \in Good : n + 1 \in Good
    BY <1>1, <1>2
  <2>2. Good = Nat
    <3> HIDE DEF Good
    <3>1. Good \in SUBSET Nat
      BY DEF Good
    <3> QED
      BY <2>1, <3>1, NatInductive
  <2> QED
    BY <2>2
<1> QED
  BY <1>1, <1>2, <1>3

(* What is signed of a usable answer fits a word. *)
LEMMA FieldIsText ==
  ASSUME NEW a \in Usable
  PROVE  LET t == Field(a)
         IN  /\ t.int \in Seq(Digit) /\ t.frac \in Seq(Digit)
             /\ ~Refused(t) /\ a \in Answer /\ a.status = 200 /\ ~a.cut /\ Resolves(a)
<1>1. /\ a \in Answer /\ Resolves(a) /\ Field(a) # NotText /\ ~Refused(Field(a))
      /\ a.status = 200 /\ ~a.cut
  BY DEF Usable, IsJson
<1> DEFINE Found == {i \in DOMAIN a.fields : a.fields[i] # Absent}
           First(i) == a.fields[i] # Absent /\ \A j \in 1..(i - 1) : a.fields[j] = Absent
<1>2. DOMAIN a.fields = 1..Len(a.fields) /\ Len(a.fields) \in Nat
  BY <1>1, AnswerAssumption
<1>3. \E i \in DOMAIN a.fields : First(i)
  <2>1. Found \in SUBSET Nat /\ Found # {}
    BY <1>1, <1>2 DEF Resolves
  <2>2. PICK i \in Found : \A k \in Found : i <= k
    <3> HIDE DEF Found
    <3> QED
      BY <2>1, NatLeast
  <2>3. \A j \in 1..(i - 1) : j \in DOMAIN a.fields /\ ~(i <= j)
    BY <1>2, <2>1
  <2> QED
    BY <2>2, <2>3
<1> DEFINE at == CHOOSE i \in DOMAIN a.fields : First(i)
<1>4. at \in DOMAIN a.fields /\ First(at)
  BY <1>3
<1>5. Field(a) = a.fields[at]
  BY DEF Field
<1> HIDE DEF at
<1>6. Field(a) \notin {Absent, NotText}
  BY <1>1, <1>4, <1>5
<1>7. Field(a).int \in Seq(Digit) /\ Field(a).frac \in Seq(Digit)
  BY <1>1, <1>4, <1>5, <1>6, AnswerAssumption
<1> QED
  BY <1>1, <1>7

LEMMA WordOf ==
  ASSUME NEW v \in Int
  PROVE  cents_from_1e8(v) \in Price
<1> DEFINE unit == TenTo(Scale - Cents)
<1>1. unit \in Nat /\ unit > 0
  <2>1. Scale - Cents \in Nat
    BY ScaleAssumption
  <2> QED
    BY <2>1, Tens
<1> HIDE DEF unit
<1>2. (v + unit \div 2) \div unit \in Int
  <2>1. unit \div 2 \in Int
    BY <1>1
  <2>2. v + unit \div 2 \in Int
    BY <2>1
  <2> QED
    BY <1>1, <2>2
<1>3. ((v + unit \div 2) \div unit) % Word \in 0..(Word - 1)
  BY <1>2, ScaleAssumption
<1> QED
  BY <1>3 DEF cents_from_1e8, Price, unit

LEMMA PricesAreWords ==
  ASSUME NEW a \in Usable
  PROVE  PriceOf[a] \in Price
<1> DEFINE t == Field(a)
           s == t.int \o Padded(t.frac, Scale)
<1>1. t.int \in Seq(Digit) /\ t.frac \in Seq(Digit)
  BY FieldIsText
<1>2. s \in Seq(Int)
  <2>1. \A i \in 1..Scale : Padded(t.frac, Scale)[i] \in Int
    BY <1>1 DEF Padded, Digit, Other
  <2>2. Padded(t.frac, Scale) \in Seq(Int)
    BY <2>1, ScaleAssumption DEF Padded
  <2>3. t.int \in Seq(Int)
    BY <1>1 DEF Digit, Other
  <2> QED
    BY <2>2, <2>3
<1>3. NumberOf(s) \in Int
  <2> HIDE DEF s
  <2>1. PICK f : Reads(f, 0, s, Len(s))
    BY <1>2, NumberReads
  <2> QED
    BY <1>2, <2>1, NumberIsRead
<1>4. parse_price_1e8(t) \in Int
  BY <1>3 DEF parse_price_1e8, RoundUp
<1> QED
  BY <1>4, WordOf DEF PriceOf

-----------------------------------------------------------------------------
(* Maps of statements. *)

LEMMA MapFacts ==
  ASSUME NEW f
  PROVE  f \in PriceMap <=> DOMAIN f \subseteq Minute /\ f \in [DOMAIN f -> Price]
<1>1. ASSUME f \in PriceMap PROVE DOMAIN f \subseteq Minute /\ f \in [DOMAIN f -> Price]
  <2>1. PICK D \in SUBSET Minute : f \in [D -> Price]
    BY <1>1 DEF PriceMap
  <2> QED
    BY <2>1
<1>2. ASSUME DOMAIN f \subseteq Minute, f \in [DOMAIN f -> Price] PROVE f \in PriceMap
  BY <1>2 DEF PriceMap
<1> QED
  BY <1>1, <1>2

LEMMA EmptyMap == Empty \in PriceMap /\ DOMAIN Empty = {} /\ Cardinality(DOMAIN Empty) <= Keep
<1>1. DOMAIN Empty = {} /\ Empty \in [DOMAIN Empty -> Price]
  BY DEF Empty
<1>2. Cardinality(DOMAIN Empty) = 0
  BY <1>1, FS_EmptySet
<1>3. Empty \in PriceMap
  BY <1>1, MapFacts
<1> QED
  BY <1>1, <1>2, <1>3, Timing

LEMMA WithFacts ==
  ASSUME NEW f \in PriceMap, NEW m \in Minute, NEW p \in Price
  PROVE  /\ With(f, m, p) \in PriceMap
         /\ DOMAIN With(f, m, p) = DOMAIN f \cup {m}
<1>1. DOMAIN With(f, m, p) = DOMAIN f \cup {m}
  BY DEF With
<1>2. \A x \in DOMAIN f \cup {m} : With(f, m, p)[x] \in Price
  BY MapFacts DEF With
<1>3. With(f, m, p) \in [DOMAIN With(f, m, p) -> Price]
  BY <1>1, <1>2 DEF With
<1> QED
  BY <1>1, <1>3, MapFacts

LEMMA Minutes ==
  /\ Minute \in SUBSET Nat
  /\ \A D \in SUBSET Minute : IsFiniteSet(D) /\ Cardinality(D) \in Nat
<1>1. MaxClock \div MinuteLen \in Nat
  BY Timing, Division
<1>2. IsFiniteSet(Minute)
  BY <1>1, FS_Interval DEF Minute
<1>3. Minute \in SUBSET Nat
  BY <1>1 DEF Minute
<1> QED
  BY <1>2, <1>3, FS_Subset, FS_CardinalityType

(* Newer(D, x): the minutes of D after x. *)
Newer(D, x) == {y \in D : y > x}

(* Trimming leaves at most Keep minutes, and drops one only for Keep newer ones. *)
LEMMA TrimFacts ==
  ASSUME NEW f \in PriceMap
  PROVE  /\ Trim(f) \in PriceMap
         /\ DOMAIN Trim(f) \subseteq DOMAIN f
         /\ Cardinality(DOMAIN Trim(f)) <= Keep
         /\ \A x \in DOMAIN f \ DOMAIN Trim(f) : Cardinality(Newer(DOMAIN f, x)) >= Keep
<1> DEFINE D == DOMAIN f
           K == {x \in D : Cardinality(Newer(D, x)) < Keep}
<1>1. D \in SUBSET Minute /\ f \in [D -> Price]
  BY MapFacts
<1>2. Trim(f) = [m \in K |-> f[m]] /\ DOMAIN Trim(f) = K
  BY DEF Trim, Newer
<1>3. \A x \in D : Newer(D, x) \in SUBSET Minute
  BY <1>1 DEF Newer
<1>4. \A x \in D : IsFiniteSet(Newer(D, x)) /\ Cardinality(Newer(D, x)) \in Nat
  BY <1>3, Minutes
<1>5. Trim(f) \in PriceMap
  <2>1. Trim(f) \in [K -> Price] /\ K \subseteq Minute
    BY <1>1, <1>2
  <2> QED
    BY <1>2, <2>1, MapFacts
<1>6. Cardinality(K) <= Keep
  <2>1. K \in SUBSET Minute /\ K \in SUBSET Nat
    BY <1>1, Minutes
  <2>2. CASE K = {}
    BY <2>2, FS_EmptySet, Timing
  <2>3. CASE K # {}
    <3>1. PICK x \in K : \A y \in K : x <= y
      <4> HIDE DEF K
      <4> QED
        BY <2>1, <2>3, NatLeast
    <3>2. K \subseteq Newer(D, x) \cup {x}
      <4>1. \A y \in K : y \in Nat /\ x \in Nat /\ x <= y /\ y \in D
        BY <2>1, <3>1
      <4>2. \A y \in K : y = x \/ y > x
        BY <4>1
      <4> QED
        BY <4>1, <4>2 DEF Newer
    <3>3. Cardinality(Newer(D, x)) < Keep /\ IsFiniteSet(Newer(D, x)) /\ x \notin Newer(D, x)
      BY <1>4, <2>1, <3>1 DEF Newer
    <3>4. /\ IsFiniteSet(Newer(D, x) \cup {x})
          /\ Cardinality(Newer(D, x) \cup {x}) = Cardinality(Newer(D, x)) + 1
      BY <3>3, FS_AddElement
    <3>5. Cardinality(K) <= Cardinality(Newer(D, x) \cup {x})
      BY <3>2, <3>4, FS_Subset
    <3>6. Cardinality(K) \in Nat /\ Cardinality(Newer(D, x)) \in Nat
      BY <1>4, <2>1, <3>1, Minutes
    <3> QED
      BY <3>3, <3>4, <3>5, <3>6, Timing
  <2> QED
    BY <2>2, <2>3
<1>7. \A x \in D \ K : Cardinality(Newer(D, x)) >= Keep
  BY <1>4, Timing
<1> QED
  BY <1>2, <1>5, <1>6, <1>7

-----------------------------------------------------------------------------
(* Type correctness. *)

(* The statement at the end of the log, once a reader takes it for one. *)
LEMMA TailFacts ==
  ASSUME NEW f \in [read: PriceMap, tail: Tails]
  PROVE  /\ IsStatement(f.tail) => f.tail.minute \in Minute /\ f.tail.price \in Price
         /\ Terminated(f) \in [read: PriceMap, tail: Tails]
         /\ load_issued(f) \in PriceMap /\ Cardinality(DOMAIN load_issued(f)) <= Keep
<1> DEFINE whole == IF IsStatement(f.tail) THEN With(f.read, f.tail.minute, f.tail.price) ELSE f.read
<1>1. IsStatement(f.tail) => f.tail.minute \in Minute /\ f.tail.price \in Price
  <2>1. f.tail \in Tails
    OBVIOUS
  <2> QED
    BY <2>1 DEF Tails, IsStatement, Line, NoTail, Junk
<1>2. whole \in PriceMap
  BY <1>1, WithFacts
<1>3. NoTail \in Tails
  BY DEF Tails
<1>4. Terminated(f) \in [read: PriceMap, tail: Tails]
  BY <1>2, <1>3 DEF Terminated
<1>5. load_issued(f) = Trim(whole)
  BY DEF load_issued
<1> HIDE DEF whole
<1> QED
  BY <1>1, <1>2, <1>4, <1>5, TrimFacts

LEMMA AppendedType ==
  ASSUME NEW f \in [read: PriceMap, tail: Tails], NEW m \in Minute, NEW p \in Price
  PROVE  Appended(f, m, p) \in [read: PriceMap, tail: Tails]
  BY DEF Appended, Tails

(* A process that runs was started, and it has a price in hand while it writes one. *)
TypeInv ==
    /\ TypeOK
    /\ pc # "down" => run >= 1
    /\ pc \in {"append", "newline"} => price \in Price

LEMMA InitType == Init => TypeInv
<1> SUFFICES ASSUME Init PROVE TypeInv
  OBVIOUS
<1>1. clock \in 0..MaxClock /\ back \in 0..MaxBack
  BY Timing DEF Init
<1>2. issued \in PriceMap /\ Cardinality(DOMAIN issued) <= Keep
  BY EmptyMap DEF Init
<1>3. file \in [read: PriceMap, tail: Tails]
  BY EmptyMap DEF Init, Tails
<1>4. seq \in Minute
  BY Timing, Division DEF Init, Minute
<1>5. timer \in 0..(MinuteLen + Offset + Spacing) /\ attempt \in 1..Retries
  BY Timing DEF Init
<1>6. pc = "down" /\ price = NoPrice /\ held \in BOOLEAN /\ signed = {}
  BY DEF Init
<1>7. run \in 0..MaxRuns
  BY Timing DEF Init
<1> QED
  BY <1>1, <1>2, <1>3, <1>4, <1>5, <1>6, <1>7 DEF TypeInv, TypeOK

LEMMA TypeStep == TypeInv /\ [Next]_vars => TypeInv'
<1> SUFFICES ASSUME TypeInv, [Next]_vars PROVE TypeInv'
  OBVIOUS
<1> USE DEF TypeInv
<1>1. CASE Start
  <2>1. load_issued(file) \in PriceMap /\ Cardinality(DOMAIN load_issued(file)) <= Keep
    BY TailFacts DEF TypeOK
  <2>2. current_minute \in Minute
    BY CurrentMinute DEF TypeOK
  <2>3. run' \in 0..MaxRuns /\ run' >= 1
    BY <1>1, Timing DEF Start, TypeOK
  <2>4. pc' \in {"begin", "idle"}
    BY <1>1 DEF Start
  <2>5. held' \in BOOLEAN
    BY <1>1 DEF Start
  <2> QED
    BY <1>1, <2>1, <2>2, <2>3, <2>4, <2>5 DEF Start, TypeOK
<1>2. CASE Sleep
  <2>1. timer' \in 0..(MinuteLen + Offset + Spacing)
    BY <1>2, Timing, CurrentMinute DEF Sleep, TypeOK
  <2> QED
    BY <1>2, <2>1 DEF Sleep, TypeOK
<1>3. CASE Wake
  BY <1>3 DEF Wake, TypeOK
<1>4. CASE Begin
  <2>1. current_minute \in Minute /\ 1 \in 1..Retries
    BY CurrentMinute, Timing DEF TypeOK
  <2>2. pc' \in {"idle", "fetch"}
    BY <1>4 DEF Begin
  <2> QED
    BY <1>4, <2>1, <2>2 DEF Begin, TypeOK
<1>5. CASE FetchFails
  BY <1>5 DEF FetchFails, TypeOK
<1>6. ASSUME NEW a \in Answer, FetchAnswers(a) PROVE TypeInv'
  <2>1. CASE a \in Usable /\ InWindow /\ seq \notin DOMAIN issued
    <3> DEFINE p == PriceOf[a]
    <3>1. p \in Price
      BY <2>1, PricesAreWords
    <3>2. /\ signed' = signed \cup {[minute |-> seq, price |-> p, run |-> run]}
          /\ issued' = Trim(With(issued, seq, p)) /\ price' = p /\ pc' = "append"
          /\ pc = "fetch" /\ UNCHANGED <<clock, back, timer, seq, attempt, file, run, held>>
      BY <1>6, <2>1 DEF FetchAnswers
    <3> HIDE DEF p
    <3>3. With(issued, seq, p) \in PriceMap
      BY <3>1, WithFacts DEF TypeOK
    <3>4. issued' \in PriceMap /\ Cardinality(DOMAIN issued') <= Keep
      BY <3>2, <3>3, TrimFacts
    <3>5. run \in 1..MaxRuns
      BY <3>2, Timing DEF TypeOK
    <3>6. signed' \subseteq [minute: Minute, price: Price, run: 1..MaxRuns]
      BY <3>1, <3>2, <3>5 DEF TypeOK
    <3> QED
      BY <3>1, <3>2, <3>4, <3>6 DEF TypeOK
  <2>2. CASE ~(a \in Usable /\ InWindow /\ seq \notin DOMAIN issued)
    BY <1>6, <2>2 DEF FetchAnswers, TypeOK
  <2> QED
    BY <2>1, <2>2
<1>7. CASE Retry
  <2>1. timer' \in 0..(MinuteLen + Offset + Spacing)
    BY <1>7, Timing DEF Retry, TypeOK
  <2> QED
    BY <1>7, <2>1 DEF Retry, TypeOK
<1>8. CASE Resume
  <2>1. attempt' \in 1..Retries
    BY <1>8, Timing DEF Resume, TypeOK
  <2>2. pc' \in {"fetch", "idle"} /\ pc = "pause"
    BY <1>8 DEF Resume
  <2> QED
    BY <1>8, <2>1, <2>2 DEF Resume, TypeOK
<1>9. CASE AppendLine
  <2>1. file' \in [read: PriceMap, tail: Tails]
    BY <1>9, AppendedType DEF AppendLine, TypeOK
  <2> QED
    BY <1>9, <2>1 DEF AppendLine, TypeOK
<1>10. CASE AppendNewline
  <2>1. file' \in [read: PriceMap, tail: Tails]
    BY <1>10, TailFacts DEF AppendNewline, TypeOK
  <2> QED
    BY <1>10, <2>1 DEF AppendNewline, TypeOK
<1>11. CASE AppendFails
  <2>1. file' \in [read: PriceMap, tail: Tails]
    <3>1. file' = file \/ file' = [file EXCEPT !.tail = Junk]
      BY <1>11 DEF AppendFails
    <3> QED
      BY <3>1 DEF TypeOK, Tails
  <2>2. pc' = "idle" /\ pc # "down" /\ price' = NoPrice
    BY <1>11 DEF AppendFails
  <2> QED
    BY <1>11, <2>1, <2>2 DEF AppendFails, TypeOK
<1>12. CASE Stop
  <2>1. 0 \in 0..(MinuteLen + Offset + Spacing)
    BY Timing
  <2> QED
    BY <1>12, <2>1, EmptyMap DEF Stop, TypeOK
<1>13. CASE Tick
  <2>1. clock' \in 0..MaxClock /\ timer' \in 0..(MinuteLen + Offset + Spacing)
    BY <1>13, Timing DEF Tick, TypeOK
  <2>2. held' \in BOOLEAN
    BY <1>13 DEF Tick, TypeOK
  <2> QED
    BY <1>13, <2>1, <2>2 DEF Tick, TypeOK
<1>14. CASE SetBack
  <2>1. clock' \in 0..MaxClock /\ back' \in 0..MaxBack
    BY <1>14, Timing DEF SetBack, TypeOK
  <2> QED
    BY <1>14, <2>1 DEF SetBack, TypeOK
<1>15. CASE UNCHANGED vars
  BY <1>15 DEF vars, TypeOK
<1> QED
  BY <1>1, <1>2, <1>3, <1>4, <1>5, <1>6, <1>7, <1>8, <1>9, <1>10, <1>11, <1>12, <1>13, <1>14,
     <1>15 DEF Next

LEMMA AlwaysTyped == Spec => []TypeInv
<1>1. Init => TypeInv
  BY InitType
<1>2. TypeInv /\ [Next]_vars => TypeInv'
  BY TypeStep
<1> QED
  BY <1>1, <1>2, PTL DEF Spec

(* The notary's state is well typed for every timing, bound and answer: its memory never holds    *)
(* more than Keep statements, and what it signs fits a word.                                      *)
THEOREM TypeCorrect == Spec => []TypeOK
<1>1. TypeInv => TypeOK
  BY DEF TypeInv
<1> QED
  BY <1>1, AlwaysTyped, PTL

-----------------------------------------------------------------------------
(* What a process remembers.                                                                      *)
(*                                                                                                *)
(* clock + back never decreases, whatever the clock does: it is the latest time the clock could   *)
(* have shown.  A minute leaves memory only for Keep later ones, all begun by then, and so is so  *)
(* far behind that no set-back can bring its window round again.                                  *)

Seen(m) == m * MinuteLen <= clock + back
Past(m) == (m + Keep) * MinuteLen <= clock + back
Covered(m) == m \in DOMAIN issued \/ Past(m)

MemoryInv ==
    /\ \A m \in DOMAIN issued : Seen(m)
    /\ \A m \in Minute : Logged(m) => Seen(m)
    /\ \A s \in signed : s.run <= run
    /\ pc # "down" => /\ \A m \in Minute : Logged(m) => Covered(m)
                      /\ \A s \in signed : s.run = run => Covered(s.minute)
    /\ pc \in {"append", "newline"} => Seen(seq) /\ Covered(seq)

LEMMA Latest ==
  ASSUME TypeOK, [Next]_vars
  PROVE  /\ clock + back \in Nat /\ clock' + back' \in Nat
         /\ clock + back <= clock' + back'
<1>1. clock \in Nat /\ back \in Nat
  BY DEF TypeOK
<1>2. \/ clock' = clock /\ back' = back
      \/ clock' = clock + 1 /\ back' = back
      \/ clock > 0 /\ clock' = clock - 1 /\ back' = back + 1
  BY DEF Next, vars, Start, Sleep, Wake, Begin, FetchFails, FetchAnswers, Retry, Resume,
         AppendLine, AppendNewline, AppendFails, Stop, Tick, SetBack
<1> QED
  BY <1>1, <1>2

(* What trimming drops is Keep minutes behind. *)
LEMMA DroppedIsPast ==
  ASSUME NEW f \in PriceMap, NEW latest \in Nat, \A m \in DOMAIN f : m * MinuteLen <= latest,
         NEW x \in DOMAIN f \ DOMAIN Trim(f)
  PROVE  (x + Keep) * MinuteLen <= latest
<1> DEFINE N == Newer(DOMAIN f, x)
<1>1. DOMAIN f \in SUBSET Nat /\ N \in SUBSET Nat /\ Cardinality(N) >= Keep /\ x \in Nat
  BY MapFacts, Minutes, TrimFacts DEF Newer
<1>2. \E y \in N : y >= x + Keep
  <2> SUFFICES ASSUME \A y \in N : ~(y >= x + Keep) PROVE FALSE
    OBVIOUS
  <2>1. N \subseteq (x + 1)..(x + Keep - 1)
    BY <1>1, Timing DEF Newer
  <2>2. /\ IsFiniteSet((x + 1)..(x + Keep - 1))
        /\ Cardinality((x + 1)..(x + Keep - 1)) = Keep - 1
    <3>1. x + 1 \in Int /\ x + Keep - 1 \in Int
      BY <1>1, Timing
    <3>2. (x + Keep - 1) - (x + 1) + 1 = Keep - 1 /\ (x + 1 > x + Keep - 1 => Keep - 1 = 0)
      BY <1>1, Timing
    <3> QED
      BY <3>1, <3>2, FS_Interval
  <2>3. Cardinality(N) <= Keep - 1 /\ Cardinality(N) \in Nat
    BY <2>1, <2>2, FS_Subset, FS_CardinalityType
  <2> QED
    BY <1>1, <2>3, Timing
<1>3. PICK y \in DOMAIN f : y >= x + Keep /\ y \in Nat
  BY <1>1, <1>2 DEF Newer
<1>4. y * MinuteLen <= latest /\ y * MinuteLen \in Int
  BY <1>3, Products
<1>5. (x + Keep) * MinuteLen <= y * MinuteLen /\ (x + Keep) * MinuteLen \in Int
  <2>1. x + Keep \in Int /\ y \in Int /\ x + Keep <= y
    BY <1>1, <1>3, Timing
  <2> QED
    BY <2>1, Products
<1> QED
  BY <1>4, <1>5

LEMMA LoggedMinutes ==
  ASSUME TypeOK
  PROVE  \A m : Logged(m) => m \in Minute
<1>1. DOMAIN file.read \subseteq Minute
  BY MapFacts DEF TypeOK
<1>2. IsStatement(file.tail) => file.tail.minute \in Minute
  BY TailFacts DEF TypeOK
<1> QED
  BY <1>1, <1>2 DEF Logged

(* A minute once seen, or past, stays so. *)
LEMMA StaysBehind ==
  ASSUME TypeOK, [Next]_vars, NEW m \in Minute
  PROVE  (Seen(m) => Seen(m)') /\ (Past(m) => Past(m)')
<1>1. clock + back \in Nat /\ clock' + back' \in Nat /\ clock + back <= clock' + back'
  BY Latest
<1>2. m * MinuteLen \in Int /\ (m + Keep) * MinuteLen \in Int
  <2>1. m \in Int /\ m + Keep \in Int
    BY Minutes, Timing
  <2> QED
    BY <2>1, Products
<1> QED
  BY <1>1, <1>2 DEF Seen, Past

(* A minute whose window is open is neither past nor still to come. *)
LEMMA OpenWindow ==
  ASSUME TypeOK, InWindow
  PROVE  Seen(seq) /\ ~Past(seq)
<1>1. /\ clock \in Nat /\ back \in Nat /\ back <= MaxBack /\ seq \in Int
      /\ MaxBack \in Nat /\ Window \in Nat /\ Keep \in Nat
  BY Minutes, Timing DEF TypeOK
<1>2. seq * MinuteLen \in Int /\ Keep * MinuteLen \in Int /\ (seq + Keep) * MinuteLen \in Int
  <2>1. seq + Keep \in Int /\ Keep \in Int
    BY <1>1
  <2> QED
    BY <1>1, <2>1, Products
<1>3. (seq + Keep) * MinuteLen = seq * MinuteLen + Keep * MinuteLen
  BY <1>1, Timing
<1>4. seq * MinuteLen <= clock /\ clock <= seq * MinuteLen + Window - 1
  BY <1>1, <1>2 DEF InWindow
<1>5. MaxBack + Window <= Keep * MinuteLen
  BY ClockAssumption
<1> QED
  BY <1>1, <1>2, <1>3, <1>4, <1>5 DEF Seen, Past

(* A step that leaves memory, log and history alone. *)
LEMMA QuietStep ==
  ASSUME TypeInv, MemoryInv, [Next]_vars, UNCHANGED <<issued, file, run, signed>>,
         pc' # "down" => pc # "down",
         pc' \in {"append", "newline"} => pc \in {"append", "newline"} /\ seq' = seq
  PROVE  MemoryInv'
<1>1. TypeOK
  BY DEF TypeInv
<1>2. \A m \in Minute : (Seen(m) => Seen(m)') /\ (Covered(m) => Covered(m)')
  BY <1>1, StaysBehind DEF Covered
<1>3. DOMAIN issued \subseteq Minute /\ seq \in Minute /\ \A s \in signed : s.minute \in Minute
  BY <1>1, MapFacts DEF TypeOK
<1>4. \A m : Logged(m)' <=> Logged(m)
  BY DEF Logged
<1>5. \A m \in DOMAIN issued' : Seen(m)'
  BY <1>2, <1>3 DEF MemoryInv
<1>6. \A m \in Minute : Logged(m)' => Seen(m)'
  BY <1>2, <1>4 DEF MemoryInv
<1>7. \A s \in signed' : s.run <= run'
  BY DEF MemoryInv
<1>8. ASSUME pc' # "down"
      PROVE  /\ \A m \in Minute : Logged(m)' => Covered(m)'
             /\ \A s \in signed' : s.run = run' => Covered(s.minute)'
  BY <1>2, <1>3, <1>4, <1>8 DEF MemoryInv
<1>9. ASSUME pc' \in {"append", "newline"} PROVE Seen(seq)' /\ Covered(seq)'
  <2>1. Seen(seq) /\ Covered(seq) /\ seq' = seq
    BY <1>9 DEF MemoryInv
  <2> QED
    BY <1>2, <1>3, <2>1 DEF Seen, Covered, Past
<1> QED
  BY <1>5, <1>6, <1>7, <1>8, <1>9 DEF MemoryInv

(* What the log is read into: nothing that is not in it, and all of it but what is Keep behind. *)
LEMMA LoadedLog ==
  ASSUME TypeOK, \A m \in Minute : Logged(m) => Seen(m), clock + back \in Nat
  PROVE  /\ \A m \in DOMAIN load_issued(file) : m \in Minute /\ Logged(m)
         /\ \A m \in Minute : Logged(m) => m \in DOMAIN load_issued(file) \/ Past(m)
<1> DEFINE whole == IF IsStatement(file.tail) THEN With(file.read, file.tail.minute, file.tail.price)
                    ELSE file.read
<1>1. file.read \in PriceMap /\ DOMAIN file.read \subseteq Minute
  BY MapFacts DEF TypeOK
<1>2. /\ whole \in PriceMap /\ DOMAIN whole \subseteq Minute
      /\ \A m : m \in DOMAIN whole <=> Logged(m)
  <2>1. CASE IsStatement(file.tail)
    <3>1. file.tail.minute \in Minute /\ file.tail.price \in Price
      BY <2>1, TailFacts DEF TypeOK
    <3>2. /\ With(file.read, file.tail.minute, file.tail.price) \in PriceMap
          /\ DOMAIN With(file.read, file.tail.minute, file.tail.price)
                 = DOMAIN file.read \cup {file.tail.minute}
      BY <1>1, <3>1, WithFacts
    <3>3. whole = With(file.read, file.tail.minute, file.tail.price)
      BY <2>1
    <3> HIDE DEF whole
    <3> QED
      BY <1>1, <2>1, <3>1, <3>2, <3>3 DEF Logged
  <2>2. CASE ~IsStatement(file.tail)
    BY <1>1, <2>2 DEF Logged
  <2> QED
    BY <2>1, <2>2
<1>3. load_issued(file) = Trim(whole)
  BY DEF load_issued
<1> HIDE DEF whole
<1>4. DOMAIN Trim(whole) \subseteq DOMAIN whole
  BY <1>2, TrimFacts
<1>5. ASSUME NEW m \in DOMAIN whole \ DOMAIN Trim(whole) PROVE Past(m)
  <2>1. \A x \in DOMAIN whole : x * MinuteLen <= clock + back
    BY <1>2 DEF Seen
  <2> QED
    BY <1>2, <2>1, DroppedIsPast DEF Past
<1> QED
  BY <1>2, <1>3, <1>4, <1>5

LEMMA StartStep == TypeInv /\ MemoryInv /\ Start => MemoryInv'
<1> SUFFICES ASSUME TypeInv, MemoryInv, Start PROVE MemoryInv'
  OBVIOUS
<1>1. TypeOK /\ clock + back \in Nat /\ [Next]_vars
  BY Latest DEF TypeInv, Next
<1>2. /\ issued' = load_issued(file) /\ run' = run + 1 /\ pc' \notin {"append", "newline"}
      /\ UNCHANGED <<clock, back, file, signed>>
  BY DEF Start
<1>3. \A m : (Seen(m)' <=> Seen(m)) /\ (Past(m)' <=> Past(m)) /\ (Logged(m)' <=> Logged(m))
  BY <1>2 DEF Seen, Past, Logged
<1>4. \A m \in Minute : Logged(m) => Seen(m)
  BY DEF MemoryInv
<1>5. /\ \A m \in DOMAIN load_issued(file) : m \in Minute /\ Logged(m)
      /\ \A m \in Minute : Logged(m) => m \in DOMAIN load_issued(file) \/ Past(m)
  BY <1>1, <1>4, LoadedLog
<1>6. \A m \in DOMAIN issued' : Seen(m)'
  BY <1>2, <1>3, <1>4, <1>5
<1>7. \A m \in Minute : Logged(m)' => Seen(m)' /\ Covered(m)'
  BY <1>2, <1>3, <1>4, <1>5 DEF Covered
<1>8. \A s \in signed' : s.run <= run' /\ s.run # run'
  <2>1. run \in Int /\ \A s \in signed : s.run \in Int
    BY <1>1 DEF TypeOK
  <2> QED
    BY <1>2, <2>1 DEF MemoryInv
<1> QED
  BY <1>2, <1>6, <1>7, <1>8 DEF MemoryInv

(* The statement just signed is in memory, unless trimming dropped it at once; what trimming drops *)
(* is past.                                                                                       *)
LEMMA SignStep ==
  ASSUME TypeInv, MemoryInv, NEW a \in Usable, InWindow, seq \notin DOMAIN issued,
         FetchAnswers(a)
  PROVE  MemoryInv'
<1> DEFINE map == With(issued, seq, PriceOf[a])
<1>1. TypeOK /\ clock + back \in Nat
  BY DEF TypeInv, TypeOK
<1>2. /\ signed' = signed \cup {[minute |-> seq, price |-> PriceOf[a], run |-> run]}
      /\ issued' = Trim(map)
      /\ UNCHANGED <<clock, back, file, run, seq>> /\ pc = "fetch" /\ pc' = "append"
  BY DEF FetchAnswers
<1>3. map \in PriceMap /\ DOMAIN map = DOMAIN issued \cup {seq} /\ DOMAIN map \subseteq Minute
  BY <1>1, WithFacts, MapFacts, PricesAreWords DEF TypeOK
<1> HIDE DEF map
<1>4. Seen(seq) /\ ~Past(seq)
  BY <1>1, OpenWindow
<1>5. \A m \in DOMAIN map : Seen(m)
  BY <1>3, <1>4 DEF MemoryInv
<1>6. DOMAIN issued' \subseteq DOMAIN map /\ \A m \in DOMAIN map \ DOMAIN issued' : Past(m)
  <2>1. DOMAIN Trim(map) \subseteq DOMAIN map
    BY <1>3, TrimFacts
  <2>2. \A x \in DOMAIN map : x * MinuteLen <= clock + back
    BY <1>5 DEF Seen
  <2>3. ASSUME NEW m \in DOMAIN map \ DOMAIN Trim(map) PROVE Past(m)
    BY <1>1, <1>3, <2>2, DroppedIsPast DEF Past
  <2> QED
    BY <1>2, <2>1, <2>3
<1>7. \A m : (Seen(m)' <=> Seen(m)) /\ (Past(m)' <=> Past(m)) /\ (Logged(m)' <=> Logged(m))
  BY <1>2 DEF Seen, Past, Logged
<1>8. \A m : Covered(m) \/ m = seq => Covered(m)'
  BY <1>3, <1>6, <1>7 DEF Covered
<1>9. \A m \in DOMAIN issued' : Seen(m)'
  BY <1>5, <1>6, <1>7
<1>10. \A m \in Minute : Logged(m)' => Seen(m)' /\ Covered(m)'
  BY <1>2, <1>7, <1>8 DEF MemoryInv
<1>11. \A s \in signed' : s.run <= run' /\ (s.run = run' => Covered(s.minute)')
  <2>1. run \in Int
    BY <1>1 DEF TypeOK
  <2> QED
    BY <1>2, <1>8, <2>1 DEF MemoryInv
<1>12. Seen(seq)' /\ Covered(seq)'
  <2>1. seq' = seq
    BY <1>2
  <2>2. Covered(seq)'
    BY <1>8, <2>1 DEF Covered, Past
  <2> QED
    BY <1>2, <1>4, <2>1, <2>2 DEF Seen
<1> QED
  BY <1>9, <1>10, <1>11, <1>12 DEF MemoryInv

(* The log gains no minute but the one in hand. *)
LEMMA LogGains ==
  ASSUME TypeOK, AppendLine \/ AppendNewline \/ AppendFails, NEW m \in Minute, Logged(m)'
  PROVE  Logged(m) \/ m = seq
<1>1. file.read \in PriceMap
  BY DEF TypeOK
<1>2. CASE file' = file
  BY <1>2 DEF Logged
<1>3. CASE file' = Appended(file, seq, price)
  <2>1. file'.read = file.read /\ file'.tail \in {Line(seq, price), Junk}
    BY <1>3 DEF Appended, TypeOK
  <2> QED
    BY <2>1 DEF Logged, IsStatement, Line, Junk
<1>4. CASE file' = [file EXCEPT !.tail = Junk]
  <2>1. file'.read = file.read /\ file'.tail = Junk
    BY <1>4 DEF TypeOK
  <2> QED
    BY <2>1 DEF Logged, IsStatement, Junk
<1>5. CASE file' = Terminated(file)
  <2>1. IsStatement(file.tail) => file.tail.minute \in Minute /\ file.tail.price \in Price
    BY TailFacts DEF TypeOK
  <2>2. \A x : x \in DOMAIN file'.read => Logged(x)
    <3>1. CASE IsStatement(file.tail)
      <4>1. DOMAIN With(file.read, file.tail.minute, file.tail.price)
                = DOMAIN file.read \cup {file.tail.minute}
        BY <1>1, <2>1, <3>1, WithFacts
      <4>2. file'.read = With(file.read, file.tail.minute, file.tail.price)
        BY <1>5, <3>1 DEF Terminated
      <4> QED
        BY <3>1, <4>1, <4>2 DEF Logged
    <3>2. CASE ~IsStatement(file.tail)
      BY <1>5, <3>2 DEF Terminated, Logged
    <3> QED
      BY <3>1, <3>2
  <2>3. ~IsStatement(file'.tail)
    BY <1>5 DEF Terminated, IsStatement, NoTail
  <2> QED
    BY <2>2, <2>3 DEF Logged
<1> QED
  BY <1>2, <1>3, <1>4, <1>5 DEF AppendLine, AppendNewline, AppendFails

LEMMA WriteStep ==
  ASSUME TypeInv, MemoryInv, AppendLine \/ AppendNewline \/ AppendFails
  PROVE  MemoryInv'
<1>1. TypeOK
  BY DEF TypeInv
<1>2. UNCHANGED <<clock, back, seq, issued, run, signed>> /\ pc \in {"append", "newline"}
  BY DEF AppendLine, AppendNewline, AppendFails
<1>3. \A m : (Seen(m)' <=> Seen(m)) /\ (Covered(m)' <=> Covered(m))
  BY <1>2 DEF Seen, Past, Covered
<1>4. Seen(seq) /\ Covered(seq) /\ pc # "down" /\ Seen(seq)' /\ Covered(seq)'
  <2>1. Seen(seq) /\ Covered(seq) /\ pc # "down"
    BY <1>2 DEF MemoryInv
  <2> QED
    BY <1>2, <2>1 DEF Seen, Past, Covered
<1>5. \A m \in Minute : Logged(m)' => Seen(m)' /\ Covered(m)'
  BY <1>1, <1>3, <1>4, LogGains DEF MemoryInv
<1>6. \A m \in DOMAIN issued' : Seen(m)'
  BY <1>2, <1>3 DEF MemoryInv
<1>7. \A s \in signed' : s.run <= run' /\ (s.run = run' => Covered(s.minute)')
  BY <1>2, <1>3, <1>4 DEF MemoryInv
<1> QED
  BY <1>4, <1>5, <1>6, <1>7 DEF MemoryInv

LEMMA StopStep == TypeInv /\ MemoryInv /\ Stop => MemoryInv'
<1> SUFFICES ASSUME TypeInv, MemoryInv, Stop PROVE MemoryInv'
  OBVIOUS
<1>1. issued' = Empty /\ pc' = "down" /\ UNCHANGED <<clock, back, file, run, signed>>
  BY DEF Stop
<1>2. DOMAIN issued' = {}
  BY <1>1, EmptyMap
<1>3. \A m : (Seen(m)' <=> Seen(m)) /\ (Logged(m)' <=> Logged(m))
  BY <1>1 DEF Seen, Logged
<1> QED
  BY <1>1, <1>2, <1>3 DEF MemoryInv

LEMMA MemoryStep == TypeInv /\ MemoryInv /\ [Next]_vars => MemoryInv'
<1> SUFFICES ASSUME TypeInv, MemoryInv, [Next]_vars PROVE MemoryInv'
  OBVIOUS
<1>1. CASE Start
  BY <1>1, StartStep
<1>2. CASE Sleep \/ Wake \/ Begin \/ FetchFails \/ Retry \/ Resume
  <2>1. /\ UNCHANGED <<issued, file, run, signed>> /\ pc # "down"
        /\ pc' \notin {"append", "newline"}
    BY <1>2 DEF Sleep, Wake, Begin, FetchFails, Retry, Resume
  <2> QED
    BY <2>1, QuietStep
<1>3. ASSUME NEW a \in Answer, FetchAnswers(a) PROVE MemoryInv'
  <2>1. CASE a \in Usable /\ InWindow /\ seq \notin DOMAIN issued
    BY <1>3, <2>1, SignStep
  <2>2. CASE ~(a \in Usable /\ InWindow /\ seq \notin DOMAIN issued)
    <3>1. /\ UNCHANGED <<issued, file, run, signed>> /\ pc # "down"
          /\ pc' \notin {"append", "newline"}
      BY <1>3, <2>2 DEF FetchAnswers
    <3> QED
      BY <3>1, QuietStep
  <2> QED
    BY <2>1, <2>2
<1>4. CASE AppendLine \/ AppendNewline \/ AppendFails
  BY <1>4, WriteStep
<1>5. CASE Stop
  BY <1>5, StopStep
<1>6. CASE Tick \/ SetBack \/ UNCHANGED vars
  <2>1. UNCHANGED <<issued, file, run, signed, pc, seq>>
    BY <1>6 DEF Tick, SetBack, vars
  <2> QED
    BY <2>1, QuietStep
<1> QED
  BY <1>1, <1>2, <1>3, <1>4, <1>5, <1>6 DEF Next

LEMMA AlwaysRemembers == Spec => [](TypeInv /\ MemoryInv)
<1>1. Init => TypeInv /\ MemoryInv
  <2> SUFFICES ASSUME Init PROVE MemoryInv
    BY InitType
  <2>1. DOMAIN issued = {} /\ signed = {} /\ pc = "down"
    BY EmptyMap DEF Init
  <2>2. \A m : ~Logged(m)
    BY EmptyMap DEF Init, Logged, IsStatement, NoTail
  <2> QED
    BY <2>1, <2>2 DEF MemoryInv
<1>2. (TypeInv /\ MemoryInv) /\ [Next]_vars => (TypeInv /\ MemoryInv)'
  BY TypeStep, MemoryStep
<1> QED
  BY <1>1, <1>2, PTL DEF Spec

-----------------------------------------------------------------------------
(* What is signed. *)

LEMMA Signing ==
  ASSUME [Next]_vars
  PROVE  \/ signed' = signed
         \/ \E a \in Usable :
                /\ signed' = signed \cup {[minute |-> seq, price |-> PriceOf[a], run |-> run]}
                /\ pc = "fetch" /\ InWindow /\ seq \notin DOMAIN issued
  BY DEF Next, vars, Start, Sleep, Wake, Begin, FetchFails, FetchAnswers, Retry, Resume,
         AppendLine, AppendNewline, AppendFails, Stop, Tick, SetBack

(* The minute signed is in no log, and nothing of it was signed in this run. *)
LEMMA SignsFresh ==
  ASSUME TypeInv, MemoryInv, [Next]_vars, signed' # signed
  PROVE  \E a \in Usable :
             /\ signed' = signed \cup {[minute |-> seq, price |-> PriceOf[a], run |-> run]}
             /\ ~Logged(seq)
             /\ \A s \in signed : ~(s.run = run /\ s.minute = seq)
<1>1. PICK a \in Usable :
          /\ signed' = signed \cup {[minute |-> seq, price |-> PriceOf[a], run |-> run]}
          /\ pc = "fetch" /\ InWindow /\ seq \notin DOMAIN issued
  BY Signing
<1>2. TypeOK /\ seq \in Minute /\ pc # "down"
  BY <1>1 DEF TypeInv, TypeOK
<1>3. ~Covered(seq)
  BY <1>1, <1>2, OpenWindow DEF Covered
<1>4. ~Logged(seq) /\ \A s \in signed : ~(s.run = run /\ s.minute = seq)
  <2>1. \A m \in Minute : Logged(m) => Covered(m)
    BY <1>2 DEF MemoryInv
  <2>2. \A s \in signed : s.run = run => Covered(s.minute)
    BY <1>2 DEF MemoryInv
  <2> QED
    BY <1>2, <1>3, <2>1, <2>2
<1> QED
  BY <1>1, <1>4

(* Notary.OncePerRun: attempt_once checks the map before it signs, and the map forgets a minute     *)
(* only when it is Keep minutes behind, which no set-back bridges.                                  *)
THEOREM SignsOncePerRun == Spec => []OncePerRun
<1>1. Init => OncePerRun
  BY DEF Init, OncePerRun
<1>2. TypeInv /\ MemoryInv /\ OncePerRun /\ [Next]_vars => OncePerRun'
  <2> SUFFICES ASSUME TypeInv, MemoryInv, OncePerRun, [Next]_vars PROVE OncePerRun'
    OBVIOUS
  <2>1. CASE signed' = signed
    BY <2>1 DEF OncePerRun
  <2>2. CASE signed' # signed
    BY <2>2, SignsFresh DEF OncePerRun
  <2> QED
    BY <2>1, <2>2
<1> QED
  BY <1>1, <1>2, AlwaysRemembers, PTL DEF Spec

(* Notary.NeverSignsLogged: whatever can be read from the log is in the map or Keep minutes behind, *)
(* so the reload keeps every later process from signing it again.                                   *)
THEOREM LogIsHonoured == Spec => NeverSignsLogged
<1>1. TypeInv /\ MemoryInv /\ [Next]_vars => [\A s \in signed' \ signed : ~Logged(s.minute)]_vars
  <2> SUFFICES ASSUME TypeInv, MemoryInv, [Next]_vars, NEW s \in signed' \ signed
               PROVE  ~Logged(s.minute)
    OBVIOUS
  <2>1. PICK a \in Usable :
            /\ signed' = signed \cup {[minute |-> seq, price |-> PriceOf[a], run |-> run]}
            /\ ~Logged(seq)
    BY SignsFresh
  <2> QED
    BY <2>1
<1> QED
  BY <1>1, AlwaysRemembers, PTL DEF Spec, NeverSignsLogged

-----------------------------------------------------------------------------
(* When a fetch starts.                                                                           *)
(*                                                                                                *)
(* A process that is not held up wakes Offset into a minute, and after a pause still within the   *)
(* first LastAttempt ticks of the minute it works on: the sum of clock and timer does not move    *)
(* while the timer runs.                                                                          *)

Wakes(t) == \E k \in Nat : t = k * MinuteLen + Offset

TimelyInv ==
    /\ timer > 0 => pc \in {"asleep", "pause"}
    /\ ~held => /\ pc = "begin" => Second <= LastAttempt
                /\ pc = "asleep" => Wakes(clock + timer)
                /\ pc = "pause" => /\ seq * MinuteLen <= clock + timer
                                   /\ clock + timer <= seq * MinuteLen + LastAttempt

LEMMA TimelyWake ==
  ASSUME NEW c \in Nat, Wakes(c)
  PROVE  c % MinuteLen <= LastAttempt
<1>1. PICK k \in Nat : c = k * MinuteLen + Offset
  BY DEF Wakes
<1>2. Offset \in 0..(MinuteLen - 1) /\ Offset <= LastAttempt
  BY Timing
<1>3. c % MinuteLen = Offset
  BY <1>1, <1>2, InMinute
<1> QED
  BY <1>2, <1>3

LEMMA WithinMinute ==
  ASSUME NEW c \in Nat, NEW k \in Nat, k * MinuteLen <= c, c <= k * MinuteLen + LastAttempt
  PROVE  c \div MinuteLen = k /\ c % MinuteLen <= LastAttempt
<1>1. k * MinuteLen \in Int /\ LastAttempt \in Nat /\ LastAttempt < MinuteLen
  BY Timing
<1> DEFINE r == c - k * MinuteLen
<1>2. r \in 0..(MinuteLen - 1) /\ c = k * MinuteLen + r /\ r <= LastAttempt
  BY <1>1, Timing
<1> HIDE DEF r
<1>3. c \div MinuteLen = k /\ c % MinuteLen = r
  BY <1>2, InMinute
<1> QED
  BY <1>2, <1>3

LEMMA TimelyStep == TypeOK /\ TimelyInv /\ [Next]_vars => TimelyInv'
<1> SUFFICES ASSUME TypeOK, TimelyInv, [Next]_vars PROVE TimelyInv'
  OBVIOUS
<1>1. /\ clock \in Nat /\ timer \in Nat /\ held \in BOOLEAN /\ seq \in Nat
      /\ clock \in 0..MaxClock
  BY Minutes DEF TypeOK
<1>2. /\ current_minute \in Nat /\ Second \in 0..(MinuteLen - 1)
      /\ clock = current_minute * MinuteLen + Second
  BY <1>1, CurrentMinute
<1>3. CASE Start
  <2>1. /\ pc' \in {"begin", "idle"} /\ (pc' = "begin" => Second <= LastAttempt)
        /\ timer' = timer /\ clock' = clock /\ pc = "down"
    BY <1>3 DEF Start
  <2>2. Second' = Second /\ ~(timer' > 0)
    BY <2>1 DEF Second, TimelyInv
  <2> QED
    BY <2>1, <2>2 DEF TimelyInv
<1>4. CASE Sleep
  <2>1. pc' = "asleep" /\ timer' = MinuteLen - Second + Offset /\ clock' = clock
    BY <1>4 DEF Sleep
  <2>2. clock' + timer' = (current_minute + 1) * MinuteLen + Offset
    BY <1>2, <2>1, Timing
  <2>3. current_minute + 1 \in Nat
    BY <1>2
  <2>4. Wakes(clock + timer)'
    BY <2>2, <2>3 DEF Wakes
  <2> QED
    BY <2>1, <2>4 DEF TimelyInv
<1>5. CASE Wake
  <2>1. /\ pc = "asleep" /\ timer = 0 /\ pc' = "begin"
        /\ UNCHANGED <<timer, clock, held>>
    BY <1>5 DEF Wake
  <2>2. ~held => Wakes(clock)
    BY <1>1, <2>1 DEF TimelyInv
  <2>3. ~held' => Second' <= LastAttempt
    BY <1>1, <2>1, <2>2, TimelyWake DEF Second
  <2> QED
    BY <2>1, <2>3 DEF TimelyInv
<1>6. CASE Begin \/ FetchFails \/ (\E a \in Answer : FetchAnswers(a))
  <2>1. timer' = timer /\ pc' \in {"idle", "fetch", "failed", "append"}
        /\ pc \in {"begin", "fetch"}
    BY <1>6 DEF Begin, FetchFails, FetchAnswers
  <2> QED
    BY <2>1 DEF TimelyInv
<1>7. CASE Retry
  <2>1. CASE TimeForAnother /\ timer' = Spacing /\ pc' = "pause"
    <3>1. clock' = clock /\ seq' = seq
      BY <1>7 DEF Retry
    <3>2. /\ clock = seq * MinuteLen + Second /\ Second + Spacing <= LastAttempt
          /\ Spacing \in Nat /\ Second \in Nat /\ seq * MinuteLen \in Int /\ LastAttempt \in Nat
      BY <1>1, <1>2, <2>1, Timing DEF TimeForAnother
    <3>3. /\ seq * MinuteLen <= clock + Spacing
          /\ clock + Spacing <= seq * MinuteLen + LastAttempt
      BY <3>2
    <3> QED
      BY <2>1, <3>1, <3>3 DEF TimelyInv
  <2>2. CASE pc' = "idle" /\ timer' = timer
    BY <1>7, <2>2 DEF Retry, TimelyInv
  <2> QED
    BY <1>7, <2>1, <2>2 DEF Retry
<1>8. CASE Resume
  BY <1>8, <1>1 DEF Resume, TimelyInv
<1>9. CASE AppendLine \/ AppendNewline \/ AppendFails
  BY <1>9 DEF AppendLine, AppendNewline, AppendFails, TimelyInv
<1>10. CASE Stop
  BY <1>10 DEF Stop, TimelyInv
<1>11. CASE Tick
  <2>1. /\ clock' = clock + 1 /\ UNCHANGED <<pc, seq>>
        /\ timer' = IF timer > 0 THEN timer - 1 ELSE 0
        /\ held' = (held \/ (pc \notin {"down", "fetch"} /\ timer = 0))
    BY <1>11 DEF Tick
  <2>2. CASE timer > 0
    <3>1. clock' + timer' = clock + timer /\ held' = held
      BY <1>1, <2>1, <2>2
    <3>2. pc \in {"asleep", "pause"}
      BY <2>2 DEF TimelyInv
    <3>3. ~held' => /\ pc' = "asleep" => Wakes(clock + timer)'
                    /\ pc' = "pause" => /\ seq' * MinuteLen <= clock' + timer'
                                        /\ clock' + timer' <= seq' * MinuteLen + LastAttempt
      BY <2>1, <3>1 DEF TimelyInv, Wakes
    <3> QED
      BY <2>1, <3>2, <3>3 DEF TimelyInv
  <2>3. CASE ~(timer > 0)
    <3>1. timer = 0 /\ timer' = 0
      BY <1>1, <2>1, <2>3
    <3>2. pc' \in {"begin", "asleep", "pause"} => held'
      BY <2>1, <3>1
    <3> QED
      BY <3>1, <3>2 DEF TimelyInv
  <2> QED
    BY <2>2, <2>3
<1>12. CASE SetBack
  BY <1>12 DEF SetBack, TimelyInv
<1>13. CASE UNCHANGED vars
  <2>1. UNCHANGED <<timer, pc, held, clock, seq>>
    BY <1>13 DEF vars
  <2> QED
    BY <2>1 DEF TimelyInv, Second, Wakes
<1> QED
  BY <1>3, <1>4, <1>5, <1>6, <1>7, <1>8, <1>9, <1>10, <1>11, <1>12, <1>13 DEF Next

(* Notary.NoLateFetch: the check before a retry counts the spacing against the minute, so a process *)
(* that is not held up resumes in time.                                                             *)
THEOREM FetchesInTime == Spec => NoLateFetch
<1>1. Init => TimelyInv
  BY DEF Init, TimelyInv
<1>2. TypeInv /\ TimelyInv /\ [Next]_vars => TimelyInv'
  BY TimelyStep DEF TypeInv
<1>3. TypeInv /\ TimelyInv /\ [Next]_vars
          => [~held /\ pc # "fetch" /\ pc' = "fetch"
                  => seq' = current_minute /\ Second <= LastAttempt]_vars
  <2> SUFFICES ASSUME TypeInv, TimelyInv, [Next]_vars, ~held, pc # "fetch", pc' = "fetch"
               PROVE  seq' = current_minute /\ Second <= LastAttempt
    OBVIOUS
  <2>1. Begin \/ Resume
    BY DEF Next, vars, Start, Sleep, Wake, FetchFails, FetchAnswers, Retry,
           AppendLine, AppendNewline, AppendFails, Stop, Tick, SetBack
  <2>2. CASE Begin
    BY <2>2 DEF Begin, TimelyInv
  <2>3. CASE Resume
    <3>1. clock \in Nat /\ seq \in Nat
      BY Minutes DEF TypeInv, TypeOK
    <3>2. pc = "pause" /\ timer = 0 /\ seq' = seq
      BY <2>3 DEF Resume
    <3>3. seq * MinuteLen <= clock /\ clock <= seq * MinuteLen + LastAttempt
      BY <3>1, <3>2 DEF TimelyInv
    <3>4. clock \div MinuteLen = seq /\ clock % MinuteLen <= LastAttempt
      BY <3>1, <3>3, WithinMinute
    <3> QED
      BY <3>2, <3>4 DEF current_minute, Second
  <2> QED
    BY <2>1, <2>2, <2>3
<1> QED
  BY <1>1, <1>2, <1>3, AlwaysTyped, PTL DEF Spec, NoLateFetch

-----------------------------------------------------------------------------
(* What numbers the digits are. *)

LEMMA OneDigitMore ==
  ASSUME NEW s \in Seq(Int), NEW d \in Int
  PROVE  /\ NumberOf(Append(s, d)) = 10 * NumberOf(s) + d
         /\ NumberOf(s) \in Int /\ NumberOf(Append(s, d)) \in Int
<1> DEFINE t == Append(s, d)
           n == Len(s)
<1>1. /\ t \in Seq(Int) /\ Len(t) = n + 1 /\ n \in Nat
      /\ \A i \in 1..n : t[i] = s[i] /\ s[i] \in Int
      /\ t[n + 1] = d
  BY AppendProperties
<1> HIDE DEF t
<1>2. PICK f : Reads(f, 0, s, n) /\ NumberOf(s) = f[n]
  BY NumberReads
<1>3. PICK g : Reads(g, 0, t, n + 1) /\ NumberOf(t) = g[n + 1]
  BY <1>1, NumberReads
<1> HIDE DEF n
<1>4. Reads(g, 0, t, n)
  BY <1>1, <1>3 DEF Reads
<1>5. \A i \in 0..n : f[i] = g[i] /\ f[i] \in Int
  <2>1. 0 \in Int /\ n \in Nat /\ Reads(f, 0, s, n)
    BY <1>1, <1>2
  <2>2. \A i \in 1..n : s[i] \in Int
    BY <1>1
  <2>3. \A i \in 1..n : t[i] = s[i]
    BY <1>1
  <2> QED
    BY <1>4, <2>1, <2>2, <2>3, ReadsUnique
<1>6. f[n] = g[n] /\ f[n] \in Int
  BY <1>1, <1>5
<1>7. g[n + 1] = 10 * g[n] + t[n + 1]
  BY <1>1, <1>3 DEF Reads
<1> QED
  BY <1>1, <1>2, <1>3, <1>6, <1>7 DEF t

LEMMA NoDigits == NumberOf(<<>>) = 0
<1>1. <<>> \in Seq(Int) /\ Len(<<>>) = 0
  BY EmptySeq
<1>2. PICK f : Reads(f, 0, <<>>, 0) /\ NumberOf(<<>>) = f[0]
  BY <1>1, NumberReads
<1> QED
  BY <1>2 DEF Reads

LEMMA Numbers ==
  ASSUME NEW s \in Seq(Int)
  PROVE  NumberOf(s) \in Int
<1>1. Append(s, 0) \in Seq(Int) /\ 0 \in Int
  BY AppendProperties
<1> QED
  BY <1>1, OneDigitMore

(* A sequence of n + 1 is one of n with an element more. *)
LEMMA AllButLast ==
  ASSUME NEW S, NEW s \in Seq(S), NEW n \in Nat, Len(s) = n + 1
  PROVE  \E u \in Seq(S), d \in S : s = Append(u, d) /\ Len(u) = n
<1>1. s # <<>>
  BY EmptySeq
<1>2. PICK u \in Seq(S), d \in S : s = Append(u, d)
  BY <1>1, SequenceEmptyOrAppend
<1>3. Len(u) \in Nat /\ Len(s) = Len(u) + 1
  BY <1>2, AppendProperties, LenProperties
<1> QED
  BY <1>2, <1>3

LEMMA PowersAdd ==
  ASSUME NEW a \in Nat
  PROVE  \A b \in Nat : TenTo(a + b) = TenTo(a) * TenTo(b)
<1> DEFINE Good == {b \in Nat : TenTo(a + b) = TenTo(a) * TenTo(b)}
<1>1. 0 \in Good
  <2>1. TenTo(a) \in Nat /\ TenTo(0) = 1 /\ a + 0 = a
    BY Tens
  <2> QED
    BY <2>1
<1>2. ASSUME NEW b \in Good PROVE b + 1 \in Good
  <2>1. /\ a + b \in Nat /\ a + (b + 1) = (a + b) + 1
        /\ TenTo(a + b) = TenTo(a) * TenTo(b) /\ b \in Nat /\ b + 1 \in Nat
    OBVIOUS
  <2>2. TenTo((a + b) + 1) = 10 * TenTo(a + b) /\ TenTo(b + 1) = 10 * TenTo(b)
    BY <2>1, Tens
  <2>3. TenTo(a) \in Nat /\ TenTo(b) \in Nat
    BY <2>1, Tens
  <2>4. \A x, y \in Nat : 10 * (x * y) = x * (10 * y)
    OBVIOUS
  <2>5. TenTo(a + (b + 1)) = TenTo(a) * TenTo(b + 1)
    BY <2>1, <2>2, <2>3, <2>4
  <2> QED
    BY <2>1, <2>5
<1>3. Good = Nat
  <2> HIDE DEF Good
  <2>1. Good \in SUBSET Nat
    BY DEF Good
  <2> QED
    BY <1>1, <1>2, <2>1, NatInductive
<1> QED
  BY <1>3

LEMMA AppendOutside ==
  ASSUME NEW s \in Seq(Int), NEW u \in Seq(Int), NEW d \in Int
  PROVE  s \o Append(u, d) = Append(s \o u, d)
<1>1. /\ Append(u, d) = u \o <<d>> /\ <<d>> \in Seq(Int) /\ s \o u \in Seq(Int)
      /\ Append(s \o u, d) = (s \o u) \o <<d>>
  BY AppendIsConcat, ConcatProperties
<1> QED
  BY <1>1, ConcatAssociative

(* Reading on: what is read first counts as many tens as digits follow. *)
LEMMA ReadOn ==
  ASSUME NEW s \in Seq(Int), NEW t \in Seq(Int)
  PROVE  NumberOf(s \o t) = NumberOf(s) * TenTo(Len(t)) + NumberOf(t)
<1> DEFINE Holds(u) == NumberOf(s \o u) = NumberOf(s) * TenTo(Len(u)) + NumberOf(u)
           Good == {n \in Nat : \A u \in Seq(Int) : Len(u) = n => Holds(u)}
<1>1. 0 \in Good
  <2> SUFFICES ASSUME NEW u \in Seq(Int), Len(u) = 0 PROVE Holds(u)
    OBVIOUS
  <2>1. u = <<>> /\ s \o u = s
    BY EmptySeq, ConcatEmptySeq
  <2>2. NumberOf(s) \in Int /\ NumberOf(u) = 0 /\ TenTo(0) = 1
    BY <2>1, Numbers, NoDigits, Tens
  <2> QED
    BY <2>1, <2>2
<1>2. ASSUME NEW n \in Good PROVE n + 1 \in Good
  <2> SUFFICES ASSUME NEW u \in Seq(Int), Len(u) = n + 1 PROVE Holds(u)
    OBVIOUS
  <2>1. PICK w \in Seq(Int), d \in Int : u = Append(w, d) /\ Len(w) = n
    BY AllButLast
  <2>2. Holds(w)
    BY <2>1
  <2>3. NumberOf(u) = 10 * NumberOf(w) + d /\ NumberOf(w) \in Int
    BY <2>1, OneDigitMore
  <2>4. s \o u = Append(s \o w, d) /\ s \o w \in Seq(Int)
    BY <2>1, AppendOutside, ConcatProperties
  <2>5. NumberOf(s \o u) = 10 * NumberOf(s \o w) + d
    BY <2>4, OneDigitMore
  <2>6. TenTo(n + 1) = 10 * TenTo(n) /\ TenTo(n) \in Nat /\ NumberOf(s) \in Int
    BY Tens, Numbers
  <2>7. \A x \in Int, y \in Nat, z \in Int : 10 * (x * y + z) + d = x * (10 * y) + (10 * z + d)
    OBVIOUS
  <2>8. NumberOf(s \o w) = NumberOf(s) * TenTo(n) + NumberOf(w)
    BY <2>1, <2>2
  <2>9. NumberOf(s \o u) = NumberOf(s) * TenTo(n + 1) + NumberOf(u)
    BY <2>3, <2>5, <2>6, <2>7, <2>8
  <2> QED
    BY <2>9
<1>3. Good = Nat
  <2> HIDE DEF Good
  <2>1. Good \in SUBSET Nat
    BY DEF Good
  <2> QED
    BY <1>1, <1>2, <2>1, NatInductive
<1>4. Len(t) \in Nat
  BY LenProperties
<1> QED
  BY <1>3, <1>4

(* n digits are less than TenTo(n). *)
LEMMA Bounded ==
  ASSUME NEW t \in Seq(0..9)
  PROVE  NumberOf(t) \in Nat /\ NumberOf(t) < TenTo(Len(t))
<1> DEFINE Holds(u) == NumberOf(u) \in Nat /\ NumberOf(u) < TenTo(Len(u))
           Good == {n \in Nat : \A u \in Seq(0..9) : Len(u) = n => Holds(u)}
<1>1. 0 \in Good
  <2> SUFFICES ASSUME NEW u \in Seq(0..9), Len(u) = 0 PROVE Holds(u)
    OBVIOUS
  <2>1. u = <<>>
    BY EmptySeq
  <2>2. NumberOf(u) = 0 /\ TenTo(Len(u)) = 1
    BY <2>1, NoDigits, Tens
  <2> QED
    BY <2>2
<1>2. ASSUME NEW n \in Good PROVE n + 1 \in Good
  <2> SUFFICES ASSUME NEW u \in Seq(0..9), Len(u) = n + 1 PROVE Holds(u)
    OBVIOUS
  <2>1. PICK w \in Seq(0..9), d \in 0..9 : u = Append(w, d) /\ Len(w) = n
    <3> HIDE DEF Good
    <3>1. n \in Nat
      BY DEF Good
    <3>2. \A S : u \in Seq(S) => \E w \in Seq(S), d \in S : u = Append(w, d) /\ Len(w) = n
      BY <3>1, AllButLast
    <3> QED
      BY <3>2
  <2>2. NumberOf(w) \in Nat /\ NumberOf(w) < TenTo(n)
    BY <2>1
  <2>3. NumberOf(u) = 10 * NumberOf(w) + d
    <3>1. w \in Seq(Int) /\ d \in Int
      <4>1. 0..9 \subseteq Int
        OBVIOUS
      <4> QED
        BY <4>1, SeqMonotonic
    <3> QED
      BY <2>1, <3>1, OneDigitMore
  <2>4. TenTo(n + 1) = 10 * TenTo(n) /\ TenTo(n) \in Nat
    BY Tens
  <2> QED
    BY <2>2, <2>3, <2>4
<1>3. Good = Nat
  <2> HIDE DEF Good
  <2>1. Good \in SUBSET Nat
    BY DEF Good
  <2> QED
    BY <1>1, <1>2, <2>1, NatInductive
<1>4. Len(t) \in Nat
  BY LenProperties
<1> QED
  BY <1>3, <1>4

-----------------------------------------------------------------------------
(* How far the price signed is from the one shown. *)

LEMMA RoundedDivision ==
  ASSUME NEW v \in Nat, NEW u \in Nat, u > 0
  PROVE  LET c == (v + u \div 2) \div u
         IN  /\ c \in Nat
             /\ -u <= 2 * (c * u - v) /\ 2 * (c * u - v) <= u
             /\ \A T \in Nat : v <= T * u => c <= T
<1> DEFINE h == u \div 2
           c == (v + h) \div u
           r == (v + h) % u
<1>1. h \in Nat /\ 2 * h <= u /\ u <= 2 * h + 1 /\ h < u
  OBVIOUS
<1> HIDE DEF h
<1>2. c \in Nat /\ r \in 0..(u - 1) /\ v + h = c * u + r
  <2>1. v + h \in Nat
    BY <1>1
  <2>2. \A x \in Nat : x \div u \in Nat /\ x % u \in 0..(u - 1) /\ x = (x \div u) * u + (x % u)
    OBVIOUS
  <2> QED
    BY <2>1, <2>2
<1> HIDE DEF c, r
<1>3. c * u \in Nat
  BY <1>2
<1>4. -u <= 2 * (c * u - v) /\ 2 * (c * u - v) <= u
  BY <1>1, <1>2, <1>3
<1>5. ASSUME NEW T \in Nat, v <= T * u PROVE c <= T
  <2> SUFFICES ASSUME c >= T + 1 PROVE FALSE
    BY <1>2
  <2>1. c - (T + 1) \in Nat /\ c = (T + 1) + (c - (T + 1))
    BY <1>2
  <2>2. \A x, y \in Nat : (x + y) * u = x * u + y * u /\ y * u >= 0 /\ (x + 1) * u = x * u + u
    OBVIOUS
  <2>3. c * u >= (T + 1) * u /\ (T + 1) * u = T * u + u
    BY <1>2, <2>1, <2>2
  <2>4. T * u \in Nat
    OBVIOUS
  <2> QED
    BY <1>1, <1>2, <1>3, <1>5, <2>3, <2>4
<1> QED
  BY <1>2, <1>4, <1>5 DEF c, h

(* The first digit decides whether a number is at least half of the next power of ten. *)
LEMMA FirstDigit ==
  ASSUME NEW s \in Seq(0..9), s # <<>>
  PROVE  /\ s[1] >= 5 => TenTo(Len(s)) <= 2 * NumberOf(s)
         /\ s[1] < 5 => 2 * NumberOf(s) <= TenTo(Len(s))
<1> DEFINE d == s[1]
           n == Len(s) - 1
           rest == SubSeq(s, 2, Len(s))
<1>1. d \in 0..9 /\ n \in Nat /\ Len(s) = n + 1 /\ Len(s) \in Nat
  BY EmptySeq
<1>2. rest \in Seq(0..9) /\ Len(rest) = n
  <2>1. \A i \in 2..Len(s) : s[i] \in 0..9
    BY <1>1
  <2>2. /\ rest \in Seq(0..9)
        /\ Len(rest) = IF 2 <= Len(s) THEN Len(s) - 2 + 1 ELSE 0
    BY <1>1, <2>1, SubSeqProperties
  <2> QED
    BY <1>1, <2>2
<1>3. s = <<d>> \o rest
  <2>1. SubSeq(s, 1, Len(s)) = <<s[1]>> \o SubSeq(s, 1 + 1, Len(s))
    <3>1. 1 \in 1..Len(s) /\ Len(s) \in 1..Len(s)
      BY <1>1
    <3> QED
      BY <3>1, SubSeqRecursiveFirst
  <2>2. SubSeq(s, 1, Len(s)) = s
    BY SubSeqFull
  <2> QED
    BY <2>1, <2>2
<1> HIDE DEF d, n, rest
<1>4. NumberOf(<<d>>) = d
  <2>1. <<d>> = Append(<<>>, d) /\ <<>> \in Seq(Int) /\ d \in Int
    BY <1>1, EmptySeq
  <2>2. NumberOf(Append(<<>>, d)) = 10 * NumberOf(<<>>) + d
    BY <2>1, OneDigitMore
  <2>3. NumberOf(<<d>>) = 10 * 0 + d
    BY <2>1, <2>2, NoDigits
  <2> QED
    BY <1>1, <2>3
<1>5. NumberOf(s) = d * TenTo(n) + NumberOf(rest)
  <2>1. <<d>> \in Seq(Int) /\ rest \in Seq(Int)
    BY <1>1, <1>2
  <2> QED
    BY <1>2, <1>3, <1>4, <2>1, ReadOn
<1>6. NumberOf(rest) \in Nat /\ NumberOf(rest) < TenTo(n)
  BY <1>2, Bounded
<1>7. TenTo(n) \in Nat /\ TenTo(n + 1) = 10 * TenTo(n)
  BY <1>1, Tens
<1>8. d * TenTo(n) \in Nat /\ (d >= 5 => d * TenTo(n) >= 5 * TenTo(n))
      /\ (d < 5 => d * TenTo(n) <= 4 * TenTo(n))
  <2>1. d \in {0, 1, 2, 3, 4, 5, 6, 7, 8, 9}
    BY <1>1
  <2> QED
    BY <1>7, <2>1
<1> QED
  BY <1>1, <1>5, <1>6, <1>7, <1>8 DEF d

LEMMA PaddedDigits ==
  ASSUME NEW s \in Seq(0..9), NEW n \in Nat
  PROVE  /\ Padded(s, n) \in Seq(0..9) /\ Len(Padded(s, n)) = n
         /\ Len(s) <= n => Padded(s, n) = s \o [i \in 1..(n - Len(s)) |-> 0]
         /\ n < Len(s) => s = Padded(s, n) \o SubSeq(s, n + 1, Len(s))
<1>1. \A i \in 1..n : (IF i \in DOMAIN s THEN s[i] ELSE 0) \in 0..9
  OBVIOUS
<1>2. Padded(s, n) \in Seq(0..9) /\ Len(Padded(s, n)) = n
  BY <1>1 DEF Padded
<1>3. Len(s) \in Nat
  OBVIOUS
<1>4. ASSUME Len(s) <= n PROVE Padded(s, n) = s \o [i \in 1..(n - Len(s)) |-> 0]
  <2> DEFINE z == [i \in 1..(n - Len(s)) |-> 0]
  <2>1. z \in Seq(0..9) /\ Len(z) = n - Len(s)
    BY <1>3, <1>4
  <2>2. \A i \in 1..Len(z) : z[i] = 0
    BY <2>1
  <2> HIDE DEF z
  <2>3. /\ s \o z \in Seq(0..9) /\ Len(s \o z) = n
        /\ \A i \in 1..n : (s \o z)[i] = IF i <= Len(s) THEN s[i] ELSE z[i - Len(s)]
    <3>1. Len(s) + Len(z) = n
      BY <1>3, <2>1
    <3> QED
      BY <2>1, <3>1, ConcatProperties
  <2>4. ASSUME NEW i \in 1..n PROVE Padded(s, n)[i] = (s \o z)[i]
    <3>1. CASE i <= Len(s)
      BY <2>3, <3>1, <1>3 DEF Padded
    <3>2. CASE ~(i <= Len(s))
      <4>1. i - Len(s) \in 1..Len(z) /\ i \notin DOMAIN s
        BY <1>3, <2>1, <3>2
      <4> QED
        BY <2>2, <2>3, <3>2, <4>1 DEF Padded
    <3> QED
      BY <3>1, <3>2
  <2>5. Padded(s, n) = s \o z
    BY <1>2, <2>3, <2>4, SeqEqual
  <2> QED
    BY <2>5 DEF z
<1>5. ASSUME n < Len(s) PROVE s = Padded(s, n) \o SubSeq(s, n + 1, Len(s))
  <2>1. SubSeq(s, 1, n) \o SubSeq(s, n + 1, Len(s)) = SubSeq(s, 1, Len(s))
    <3>1. 1 \in 1..(Len(s) + 1) /\ n \in (1 - 1)..Len(s) /\ Len(s) \in n..Len(s)
      BY <1>3, <1>5
    <3> QED
      BY <3>1, ConcatAdjacentSubSeq
  <2>2. SubSeq(s, 1, Len(s)) = s
    BY SubSeqFull
  <2>3. SubSeq(s, 1, n) = Padded(s, n)
    <3>1. \A i \in 1..n : i \in DOMAIN s /\ s[i] \in 0..9
      BY <1>3, <1>5
    <3>2. SubSeq(s, 1, n) \in Seq(0..9) /\ Len(SubSeq(s, 1, n)) = n
          /\ \A i \in 1..n : SubSeq(s, 1, n)[i] = s[i]
      <4>1. SubSeq(s, 1, n) = [i \in 1..n |-> s[i]]
        <5>1. \A i \in 1..n : 1 + i - 1 = i
          OBVIOUS
        <5> QED
          BY <3>1, <5>1
      <4> QED
        BY <3>1, <4>1
    <3>3. \A i \in 1..n : Padded(s, n)[i] = s[i]
      BY <3>1 DEF Padded
    <3> QED
      BY <1>2, <3>2, <3>3, SeqEqual
  <2> QED
    BY <2>1, <2>2, <2>3
<1> QED
  BY <1>2, <1>4, <1>5

LEMMA ZerosAreNone ==
  ASSUME NEW n \in Nat
  PROVE  /\ [i \in 1..n |-> 0] \in Seq(Int) /\ Len([i \in 1..n |-> 0]) = n
         /\ NumberOf([i \in 1..n |-> 0]) = 0
<1> DEFINE z(k) == [i \in 1..k |-> 0]
           Good == {k \in Nat : NumberOf(z(k)) = 0}
<1>1. \A k \in Nat : z(k) \in Seq(Int) /\ Len(z(k)) = k
  OBVIOUS
<1>2. 0 \in Good
  <2>1. z(0) = <<>>
    OBVIOUS
  <2> QED
    BY <2>1, NoDigits
<1>3. ASSUME NEW k \in Good PROVE k + 1 \in Good
  <2>1. k \in Nat /\ k + 1 \in Nat
    OBVIOUS
  <2>2. z(k + 1) = Append(z(k), 0)
    <3>1. Append(z(k), 0) \in Seq(Int) /\ Len(Append(z(k), 0)) = k + 1
          /\ (\A i \in 1..k : Append(z(k), 0)[i] = z(k)[i]) /\ Append(z(k), 0)[k + 1] = 0
      BY <1>1, <2>1, AppendProperties
    <3>2. z(k + 1) \in Seq(Int) /\ Len(z(k + 1)) = k + 1
      BY <1>1, <2>1
    <3>3. \A i \in 1..(k + 1) : Append(z(k), 0)[i] = z(k + 1)[i]
      <4> TAKE i \in 1..(k + 1)
      <4>1. i = k + 1 \/ i \in 1..k
        BY <2>1
      <4> QED
        BY <3>1, <4>1
    <3> QED
      BY <3>1, <3>2, <3>3, SeqEqual
  <2>3. NumberOf(Append(z(k), 0)) = 10 * NumberOf(z(k)) + 0
    <3>1. z(k) \in Seq(Int) /\ 0 \in Int
      BY <1>1, <2>1
    <3> HIDE DEF z
    <3> QED
      BY <3>1, OneDigitMore
  <2>4. NumberOf(z(k)) = 0
    OBVIOUS
  <2> HIDE DEF z
  <2>5. NumberOf(z(k + 1)) = 0
    <3>1. NumberOf(Append(z(k), 0)) = 10 * 0 + 0
      BY <2>3, <2>4
    <3>2. 10 * 0 + 0 = 0
      OBVIOUS
    <3> QED
      BY <2>2, <3>1, <3>2
  <2> QED
    BY <2>1, <2>5
<1>4. Good = Nat
  <2> HIDE DEF Good
  <2>1. Good \in SUBSET Nat
    BY DEF Good
  <2> QED
    BY <1>2, <1>3, <2>1, NatInductive
<1> QED
  BY <1>1, <1>4

(* A text the parser accepts: what stands before its dot, u, and after it, w. *)
Accepted(u, w) ==
    u \in Seq(0..9) /\ w \in Seq(0..9) /\ NumberOf(u) < TenTo(MaxInt)

LEMMA SequenceOf ==
  ASSUME NEW S, NEW T, NEW s \in Seq(S), \A i \in 1..Len(s) : s[i] \in T
  PROVE  s \in Seq(T)
<1>1. Len(s) \in Nat /\ s \in [1..Len(s) -> S]
  BY LenProperties
<1>2. s \in [1..Len(s) -> T]
  BY <1>1
<1> QED
  BY <1>1, <1>2

LEMMA DigitsAreNumbers ==
  ASSUME NEW s \in Seq(0..9)
  PROVE  s \in Seq(Int)
<1>1. 0..9 \subseteq Int
  OBVIOUS
<1> QED
  BY <1>1, SeqMonotonic

LEMMA OnlyDigits ==
  ASSUME NEW u \in Seq(Digit), NEW w \in Seq(Digit),
         \A i \in DOMAIN (u \o w) : (u \o w)[i] # Other
  PROVE  u \in Seq(0..9) /\ w \in Seq(0..9)
<1> DEFINE s == u \o w
<1>1. /\ Len(s) = Len(u) + Len(w) /\ Len(u) \in Nat /\ Len(w) \in Nat /\ DOMAIN s = 1..Len(s)
      /\ \A i \in 1..(Len(u) + Len(w)) : s[i] = IF i <= Len(u) THEN u[i] ELSE w[i - Len(u)]
  <2>1. s \in Seq(Digit)
    BY ConcatProperties
  <2> QED
    BY <2>1, ConcatProperties, LenProperties
<1>2. \A i \in DOMAIN s : s[i] # Other
  OBVIOUS
<1> HIDE DEF s
<1>3. \A i \in 1..Len(u) : u[i] \in 0..9
  <2> TAKE i \in 1..Len(u)
  <2>1. i \in DOMAIN s /\ s[i] = u[i] /\ u[i] \in Digit
    BY <1>1
  <2> QED
    BY <1>2, <2>1 DEF Digit, Other
<1>4. \A i \in 1..Len(w) : w[i] \in 0..9
  <2> TAKE i \in 1..Len(w)
  <2>1. /\ i + Len(u) \in 1..(Len(u) + Len(w)) /\ ~(i + Len(u) <= Len(u))
        /\ i + Len(u) - Len(u) = i /\ w[i] \in Digit
    BY <1>1
  <2>2. i + Len(u) \in DOMAIN s /\ s[i + Len(u)] = w[i]
    BY <1>1, <2>1
  <2> QED
    BY <1>2, <2>1, <2>2 DEF Digit, Other
<1> QED
  BY <1>3, <1>4, SequenceOf

LEMMA UsableIsAccepted ==
  ASSUME NEW a \in Usable
  PROVE  Accepted(Field(a).int, Field(a).frac) /\ Field(a) \in Shown
<1> DEFINE t == Field(a)
<1>1. /\ t.int \in Seq(Digit) /\ t.frac \in Seq(Digit)
      /\ ~Refused(t) /\ a \in Answer /\ a.status = 200 /\ ~a.cut /\ Resolves(a)
  BY FieldIsText
<1>2. t # NotText
  BY DEF Usable
<1> HIDE DEF t
<1>3. ~Malformed(t) /\ ~(NumberOf(t.int) >= TenTo(MaxInt))
  BY <1>1 DEF Refused
<1>4. \A i \in DOMAIN (t.int \o t.frac) : (t.int \o t.frac)[i] # Other
  BY <1>3 DEF Malformed
<1>5. t.int \in Seq(0..9) /\ t.frac \in Seq(0..9)
  <2> DEFINE u == t.int
             w == t.frac
  <2>1. u \in Seq(Digit) /\ w \in Seq(Digit) /\ \A i \in DOMAIN (u \o w) : (u \o w)[i] # Other
    BY <1>1, <1>4
  <2> HIDE DEF u, w
  <2>2. u \in Seq(0..9) /\ w \in Seq(0..9)
    BY <2>1, OnlyDigits
  <2> QED
    BY <2>2 DEF u, w
<1>6. NumberOf(t.int) < TenTo(MaxInt)
  <2>1. NumberOf(t.int) \in Nat /\ TenTo(MaxInt) \in Nat
    BY <1>5, Bounded, Tens, ScaleAssumption
  <2> QED
    BY <1>3, <2>1
<1>7. t \in Shown
  BY <1>1, <1>2, <1>3 DEF Shown, Decimal, t
<1> QED
  BY <1>5, <1>6, <1>7 DEF Accepted, t

(* parse_price_1e8 of the two parts. *)
Parsed(u, w) == NumberOf(u \o Padded(w, Scale)) + RoundUp(w)

(* The digits kept are a number below TenTo(MaxInt + Scale). *)
LEMMA KeptDigits ==
  ASSUME NEW u, NEW w, Accepted(u, w)
  PROVE  /\ NumberOf(u \o Padded(w, Scale)) \in Nat
         /\ NumberOf(u \o Padded(w, Scale)) + 1 <= TenTo(MaxInt + Scale)
<1> DEFINE P == Padded(w, Scale)
<1>1. /\ Scale \in Nat /\ MaxInt \in Nat /\ u \in Seq(0..9) /\ w \in Seq(0..9)
      /\ NumberOf(u) < TenTo(MaxInt)
  BY ScaleAssumption DEF Accepted
<1>2. P \in Seq(0..9) /\ Len(P) = Scale
  BY <1>1, PaddedDigits
<1> HIDE DEF P
<1>3. u \in Seq(Int) /\ P \in Seq(Int)
  BY <1>1, <1>2
<1>4. NumberOf(u \o P) = NumberOf(u) * TenTo(Scale) + NumberOf(P)
  BY <1>2, <1>3, ReadOn
<1>5. /\ NumberOf(u) \in Nat /\ NumberOf(P) \in Nat /\ NumberOf(P) < TenTo(Scale)
      /\ TenTo(Scale) \in Nat /\ TenTo(MaxInt) \in Nat
  BY <1>1, <1>2, Bounded, Tens
<1>6. TenTo(MaxInt + Scale) = TenTo(MaxInt) * TenTo(Scale)
  BY <1>1, PowersAdd
<1>7. \A x, y, m \in Nat : x < y => x * m + m <= y * m
  <2> TAKE x, y, m \in Nat
  <2> HAVE x < y
  <2>1. y - (x + 1) \in Nat /\ y = (x + 1) + (y - (x + 1))
    OBVIOUS
  <2>2. \A e \in Nat : ((x + 1) + e) * m = x * m + m + e * m /\ e * m >= 0
    OBVIOUS
  <2> QED
    BY <2>1, <2>2
<1>8. NumberOf(u) * TenTo(Scale) + TenTo(Scale) <= TenTo(MaxInt) * TenTo(Scale)
  BY <1>1, <1>5, <1>7
<1>9. NumberOf(u) * TenTo(Scale) \in Nat /\ TenTo(MaxInt) * TenTo(Scale) \in Nat
  BY <1>5
<1> QED
  BY <1>4, <1>5, <1>6, <1>8, <1>9 DEF P

(* A number of at most Scale digits after the dot is kept whole. *)
LEMMA ShortIsExact ==
  ASSUME NEW u, NEW w, Accepted(u, w), Len(w) <= Scale
  PROVE  Parsed(u, w) = NumberOf(u \o w) * TenTo(Scale - Len(w))
<1> DEFINE P == Padded(w, Scale)
           z == [i \in 1..(Scale - Len(w)) |-> 0]
<1>1. Scale \in Nat /\ u \in Seq(0..9) /\ w \in Seq(0..9) /\ Len(w) \in Nat
  BY ScaleAssumption DEF Accepted
<1>2. P = w \o z
  BY <1>1, PaddedDigits
<1>3. /\ Scale - Len(w) \in Nat /\ z \in Seq(Int) /\ Len(z) = Scale - Len(w)
      /\ NumberOf(z) = 0
  <2>1. Scale - Len(w) \in Nat
    BY <1>1
  <2> QED
    BY <2>1, ZerosAreNone
<1> HIDE DEF P, z
<1>4. u \in Seq(Int) /\ w \in Seq(Int)
  BY <1>1, DigitsAreNumbers
<1>5. u \o P = (u \o w) \o z /\ u \o w \in Seq(Int)
  <2>1. u \o w \in Seq(Int)
    BY <1>4, ConcatProperties
  <2>2. (u \o w) \o z = u \o (w \o z)
    BY <1>3, <1>4, ConcatAssociative
  <2> QED
    BY <1>2, <2>1, <2>2
<1>6. NumberOf(u \o P) = NumberOf(u \o w) * TenTo(Scale - Len(w)) + 0
  BY <1>3, <1>5, ReadOn
<1>7. NumberOf(u \o w) \in Int /\ TenTo(Scale - Len(w)) \in Int
  <2>1. NumberOf(u \o w) \in Int
    BY <1>5, Numbers
  <2>2. TenTo(Scale - Len(w)) \in Nat
    BY <1>3, Tens
  <2> QED
    BY <2>1, <2>2
<1>8. RoundUp(w) = 0
  BY <1>1 DEF RoundUp
<1> QED
  BY <1>6, <1>7, <1>8 DEF Parsed, P

(* A longer one is rounded to half of the last digit kept. *)
LEMMA LongIsRounded ==
  ASSUME NEW u, NEW w, Accepted(u, w), Scale < Len(w)
  PROVE  LET m == TenTo(Len(w) - Scale)
             off == Parsed(u, w) * m - NumberOf(u \o w)
         IN  off \in Int /\ -m <= 2 * off /\ 2 * off <= m
<1> DEFINE P == Padded(w, Scale)
           L == Len(w)
           rest == SubSeq(w, Scale + 1, L)
           m == TenTo(L - Scale)
           N == NumberOf(u \o P)
<1>1. Scale \in Nat /\ u \in Seq(0..9) /\ w \in Seq(0..9) /\ L \in Nat
      /\ L - Scale \in Nat /\ L - Scale > 0
  BY ScaleAssumption DEF Accepted
<1>2. w = P \o rest /\ P \in Seq(0..9)
  BY <1>1, PaddedDigits
<1>3. /\ rest \in Seq(0..9) /\ Len(rest) = L - Scale /\ rest # <<>>
      /\ rest[1] = w[Scale + 1] /\ rest[1] \in 0..9
  <2>1. /\ Scale + 1 \in Int /\ L \in Int /\ Scale + 1 <= L
        /\ \A i \in (Scale + 1)..L : w[i] \in 0..9
    BY <1>1
  <2>2. /\ rest \in Seq(0..9)
        /\ Len(rest) = IF Scale + 1 <= L THEN L - (Scale + 1) + 1 ELSE 0
        /\ \A i \in 1..(L - (Scale + 1) + 1) : rest[i] = w[Scale + 1 + i - 1]
    BY <2>1, SubSeqProperties
  <2>3. Len(rest) = L - Scale /\ 1 \in 1..(L - (Scale + 1) + 1) /\ Scale + 1 + 1 - 1 = Scale + 1
    BY <1>1, <2>1, <2>2
  <2>4. rest[1] = w[Scale + 1]
    BY <2>2, <2>3
  <2>5. rest[1] \in 0..9
    <3>1. Scale + 1 \in (Scale + 1)..L
      BY <2>1
    <3> QED
      BY <2>1, <2>4, <3>1
  <2> HIDE DEF rest, L
  <2>6. rest # <<>>
    <3> SUFFICES ASSUME rest = <<>> PROVE FALSE
      OBVIOUS
    <3>1. Len(rest) = 0
      BY EmptySeq
    <3> QED
      BY <1>1, <2>3, <3>1
  <2>7. rest \in Seq(0..9) /\ Len(rest) = L - Scale
    BY <2>2, <2>3
  <2> QED
    BY <2>4, <2>5, <2>6, <2>7
<1> HIDE DEF rest
<1>4. m \in Nat /\ m > 0
  BY <1>1, Tens
<1>5. N \in Nat
  BY KeptDigits
<1>6. NumberOf(u \o w) = N * m + NumberOf(rest)
  <2> HIDE DEF P
  <2>1. u \in Seq(Int) /\ P \in Seq(Int) /\ rest \in Seq(Int)
    BY <1>1, <1>2, <1>3, DigitsAreNumbers
  <2>2. u \o (P \o rest) = (u \o P) \o rest /\ u \o P \in Seq(Int)
    BY <2>1, ConcatAssociative, ConcatProperties
  <2>3. NumberOf((u \o P) \o rest) = NumberOf(u \o P) * TenTo(Len(rest)) + NumberOf(rest)
    BY <2>1, <2>2, ReadOn
  <2> QED
    BY <1>2, <1>3, <2>2, <2>3
<1>7. NumberOf(rest) \in Nat /\ NumberOf(rest) < m
  BY <1>3, Bounded
<1>8. /\ rest[1] >= 5 => m <= 2 * NumberOf(rest)
      /\ rest[1] < 5 => 2 * NumberOf(rest) <= m
  BY <1>3, FirstDigit
<1>9. Parsed(u, w) = N + (IF rest[1] >= 5 THEN 1 ELSE 0)
  BY <1>1, <1>3 DEF Parsed, RoundUp
<1> HIDE DEF N, m
<1>10. N * m \in Nat /\ (N + 1) * m = N * m + m /\ (N + 0) * m = N * m
  BY <1>4, <1>5
<1>11. LET off == Parsed(u, w) * m - NumberOf(u \o w)
       IN  off \in Int /\ -m <= 2 * off /\ 2 * off <= m
  <2>1. CASE rest[1] >= 5
    <3>1. Parsed(u, w) * m = N * m + m
      BY <1>9, <1>10, <2>1
    <3> QED
      BY <1>4, <1>6, <1>7, <1>8, <1>10, <2>1, <3>1
  <2>2. CASE rest[1] < 5
    <3>1. Parsed(u, w) * m = N * m
      <4>1. ~(rest[1] >= 5)
        BY <1>3, <2>2
      <4> QED
        BY <1>9, <1>10, <4>1
    <3> QED
      BY <1>4, <1>6, <1>7, <1>8, <1>10, <2>2, <3>1
  <2> QED
    BY <1>3, <2>1, <2>2
<1> QED
  BY <1>11 DEF m

(* What was parsed is the number shown, to half of the last digit kept, when both are counted in    *)
(* units of the last digit of the longer.                                                           *)
Longer(w) == IF Len(w) > Scale THEN Len(w) ELSE Scale
Exact(u, w) == NumberOf(u \o w) * TenTo(Longer(w) - Len(w))

LEMMA ParsedIsClose ==
  ASSUME NEW u, NEW w, Accepted(u, w)
  PROVE  LET m == TenTo(Longer(w) - Scale)
             off == Parsed(u, w) * m - Exact(u, w)
         IN  /\ Longer(w) - Scale \in Nat /\ Exact(u, w) \in Int
             /\ off \in Int /\ -m <= 2 * off /\ 2 * off <= m
<1>1. Scale \in Nat /\ Len(w) \in Nat
  BY ScaleAssumption DEF Accepted
<1>2. NumberOf(u \o w) \in Int
  <2>1. u \in Seq(Int) /\ w \in Seq(Int)
    BY DigitsAreNumbers DEF Accepted
  <2>2. u \o w \in Seq(Int)
    BY <2>1, ConcatProperties
  <2> QED
    BY <2>2, Numbers
<1>3. CASE Len(w) <= Scale
  <2>1. Longer(w) = Scale /\ Scale - Scale = 0 /\ Scale - Len(w) \in Nat
    BY <1>1, <1>3 DEF Longer
  <2>2. TenTo(Longer(w) - Scale) = 1
    BY <2>1, Tens
  <2>3. Parsed(u, w) = NumberOf(u \o w) * TenTo(Scale - Len(w))
    BY <1>3, ShortIsExact
  <2>4. TenTo(Scale - Len(w)) \in Nat
    BY <2>1, Tens
  <2>5. Exact(u, w) = NumberOf(u \o w) * TenTo(Scale - Len(w)) /\ Exact(u, w) \in Int
    BY <1>2, <2>1, <2>4 DEF Exact
  <2>6. Parsed(u, w) * 1 - Exact(u, w) = 0
    BY <2>3, <2>5
  <2> QED
    BY <2>1, <2>2, <2>5, <2>6
<1>4. CASE Scale < Len(w)
  <2>1. Longer(w) = Len(w) /\ Len(w) - Len(w) = 0 /\ Len(w) - Scale \in Nat
    BY <1>1, <1>4 DEF Longer
  <2>2. Exact(u, w) = NumberOf(u \o w)
    BY <1>2, <2>1, Tens DEF Exact
  <2> QED
    BY <1>2, <1>4, <2>1, <2>2, LongIsRounded
<1> QED
  BY <1>1, <1>3, <1>4

(* It never exceeds TenTo(MaxInt + Scale). *)
LEMMA ParsedIsBounded ==
  ASSUME NEW u, NEW w, Accepted(u, w)
  PROVE  Parsed(u, w) \in Nat /\ Parsed(u, w) <= TenTo(MaxInt + Scale)
<1>1. RoundUp(w) \in 0..1
  BY DEF RoundUp
<1>2. MaxInt + Scale \in Nat
  BY ScaleAssumption
<1>3. TenTo(MaxInt + Scale) \in Nat
  BY <1>2, Tens
<1> QED
  BY <1>1, <1>3, KeptDigits DEF Parsed

LEMMA SignedIsNear ==
  ASSUME NEW t, Accepted(t.int, t.frac)
  PROVE  Near(cents_from_1e8(parse_price_1e8(t)), t)
<1> DEFINE u == t.int
           w == t.frac
           v == Parsed(u, w)
           n == Longer(w)
           unit == TenTo(Scale - Cents)
           c == (v + unit \div 2) \div unit
           p == c % Word
           wraps == c \div Word
           m == TenTo(n - Scale)
           exact == Exact(u, w)
<1>1. /\ Scale \in Nat /\ Cents \in Nat /\ MaxInt \in Nat /\ Word \in Nat /\ Word > 0
      /\ Scale - Cents \in Nat /\ MaxInt + Cents \in Nat
  BY ScaleAssumption
<1>2. unit \in Nat /\ unit > 0
  BY <1>1, Tens
<1>3. v \in Nat /\ v <= TenTo(MaxInt + Scale)
  BY ParsedIsBounded
<1>4. n - Scale \in Nat /\ exact \in Int /\ -m <= 2 * (v * m - exact) /\ 2 * (v * m - exact) <= m
      /\ v * m - exact \in Int
  BY ParsedIsClose
<1>5. m \in Nat /\ m > 0
  BY <1>4, Tens
<1>6. TenTo(MaxInt + Scale) = TenTo(MaxInt + Cents) * unit
  <2>1. (MaxInt + Cents) + (Scale - Cents) = MaxInt + Scale
    BY <1>1
  <2> QED
    BY <1>1, <2>1, PowersAdd
<1>7. TenTo(n - Cents) = unit * m
  <2>1. (Scale - Cents) + (n - Scale) = n - Cents
    <3>1. n \in Int
      BY <1>1 DEF Longer, Accepted
    <3> QED
      BY <1>1, <3>1
  <2> QED
    BY <1>1, <1>4, <2>1, PowersAdd
<1> HIDE DEF v, n, m, exact, unit
<1>8. /\ c \in Nat /\ -unit <= 2 * (c * unit - v) /\ 2 * (c * unit - v) <= unit
      /\ c <= TenTo(MaxInt + Cents)
  <2>1. TenTo(MaxInt + Cents) \in Nat
    BY <1>1, Tens
  <2> QED
    BY <1>2, <1>3, <1>6, <2>1, RoundedDivision
<1> HIDE DEF c
<1>9. wraps \in 0..(TenTo(MaxInt + Cents) \div Word) /\ p + wraps * Word = c
  <2>1. \A x \in Nat : x \div Word \in Nat /\ x % Word \in 0..(Word - 1)
                       /\ x = (x \div Word) * Word + (x % Word)
    BY <1>1
  <2>2. TenTo(MaxInt + Cents) \in Nat
    BY <1>1, Tens
  <2>3. \A x, y \in Nat : x <= y => x \div Word <= y \div Word
    BY <1>1
  <2>4. c \div Word <= TenTo(MaxInt + Cents) \div Word
    BY <1>8, <2>2, <2>3
  <2>5. c = (c \div Word) * Word + (c % Word) /\ c \div Word \in Nat /\ c % Word \in Nat
    BY <1>8, <2>1
  <2>6. (c \div Word) * Word \in Nat
    BY <1>1, <2>5
  <2>7. (c % Word) + (c \div Word) * Word = c
    BY <2>5, <2>6
  <2>8. TenTo(MaxInt + Cents) \div Word \in Nat
    BY <2>1, <2>2
  <2> QED
    BY <2>4, <2>5, <2>7, <2>8
<1> HIDE DEF p, wraps
<1>10. LET off == c * (unit * m) - exact
       IN  2 * off \in -(unit * m + m)..(unit * m + m)
  <2>1. c * unit \in Nat /\ unit * m \in Nat /\ c * (unit * m) = (c * unit) * m /\ v * m \in Nat
    BY <1>2, <1>3, <1>5, <1>8
  <2> DEFINE d == c * unit - v
  <2>2. d \in Int /\ -unit <= 2 * d /\ 2 * d <= unit /\ c * unit = v + d
    BY <1>2, <1>3, <1>8, <2>1
  <2> HIDE DEF d
  <2>3. (v + d) * m = v * m + d * m /\ d * m \in Int
    BY <1>3, <1>5, <2>2
  <2>4. -(unit * m) <= 2 * (d * m) /\ 2 * (d * m) <= unit * m
    <3>1. \A x \in Nat : x * m >= 0
      BY <1>5
    <3>2. unit - 2 * d \in Nat /\ unit + 2 * d \in Nat
      BY <1>2, <2>2
    <3>3. (unit - 2 * d) * m >= 0 /\ (unit + 2 * d) * m >= 0
      BY <3>1, <3>2
    <3>4. /\ (unit - 2 * d) * m = unit * m - 2 * (d * m)
          /\ (unit + 2 * d) * m = unit * m + 2 * (d * m)
      BY <1>2, <1>5, <2>2
    <3> QED
      BY <2>1, <2>3, <3>3, <3>4
  <2>5. c * (unit * m) = v * m + d * m
    BY <2>1, <2>2, <2>3
  <2>6. c * (unit * m) - exact = (v * m - exact) + d * m
    BY <1>4, <2>1, <2>3, <2>5
  <2> QED
    BY <1>4, <1>5, <2>1, <2>3, <2>4, <2>6
<1>11. cents_from_1e8(parse_price_1e8(t)) = p
  BY DEF cents_from_1e8, parse_price_1e8, Parsed, p, c, v, unit
<1>12. Near(p, t)
  <2>1. LET off == (p + wraps * Word) * TenTo(n - Cents) - exact
        IN  2 * off \in -(TenTo(n - Cents) + m)..(TenTo(n - Cents) + m)
    BY <1>7, <1>9, <1>10
  <2> QED
    BY <1>9, <2>1 DEF Near, n, m, exact, Longer, Exact
<1> QED
  BY <1>11, <1>12

(* Notary.SignedIsShown: a price is signed only of an answer that is all there, and the parser and  *)
(* the two roundings stay within half a cent and half of the last digit kept.                       *)
THEOREM SignsWhatIsShown == Spec => []SignedIsShown
<1>1. ASSUME NEW a \in Usable PROVE PriceOf[a] \in Fair
  <2>1. Accepted(Field(a).int, Field(a).frac) /\ Field(a) \in Shown
    BY UsableIsAccepted
  <2>2. Near(cents_from_1e8(parse_price_1e8(Field(a))), Field(a))
    BY <2>1, SignedIsNear
  <2>3. PriceOf[a] = cents_from_1e8(parse_price_1e8(Field(a))) /\ PriceOf[a] \in Price
    BY PricesAreWords DEF PriceOf
  <2> QED
    BY <2>1, <2>2, <2>3 DEF Fair
<1>2. Init => SignedIsShown
  BY DEF Init, SignedIsShown
<1>3. SignedIsShown /\ [Next]_vars => SignedIsShown'
  <2> SUFFICES ASSUME SignedIsShown, [Next]_vars PROVE SignedIsShown'
    OBVIOUS
  <2>1. \/ signed' = signed
        \/ \E a \in Usable :
               signed' = signed \cup {[minute |-> seq, price |-> PriceOf[a], run |-> run]}
    BY Signing
  <2> QED
    BY <1>1, <2>1 DEF SignedIsShown
<1> QED
  BY <1>2, <1>3, PTL DEF Spec
=============================================================================
