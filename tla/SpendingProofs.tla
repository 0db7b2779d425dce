--------------------------- MODULE SpendingProofs ---------------------------
(***************************************************************************)
(* What holds of the bytes the builder makes, for every table, chain and   *)
(* amount: a node reads in them what was meant, the fee is exact, updates  *)
(* recycle what is due, and the commands that go on from what they leave   *)
(* find it.  Texts and what encode_tx makes of them come first, then what  *)
(* each builder makes of the unspent outputs, then the invariant           *)
(* (WellBuilt) and the theorems.  Addresses follow: the checksum, the      *)
(* bits, and what a head is retired to.                                    *)
(***************************************************************************)
EXTENDS Spending, FiniteSums, SequenceTheorems

-----------------------------------------------------------------------------
(* Texts: byte strings whose pieces have a width. *)

Text(bs) == \E S : bs \in Seq(S) /\ \A p \in S : p[1] \in Nat \ {0}

LEMMA TextOver ==
  ASSUME NEW S, NEW bs \in Seq(S), \A p \in S : p[1] \in Nat \ {0}
  PROVE  Text(bs)
  BY DEF Text

(* A function on 1..n is a sequence of that length. *)
LEMMA FunctionIsSeq ==
  ASSUME NEW n \in Nat, NEW f, f = [i \in 1..n |-> f[i]]
  PROVE  Len(f) = n /\ DOMAIN f = 1..n /\ f \in Seq({f[i] : i \in 1..n})
<1> DEFINE S == {f[i] : i \in 1..n}
<1>1. f \in [1..n -> S]
  OBVIOUS
<1>2. f \in Seq(S)
  <2> HIDE DEF S
  <2> QED
    BY <1>1, SeqDef
<1>3. DOMAIN f = 1..n /\ DOMAIN f = 1..Len(f) /\ Len(f) \in Nat
  <2> HIDE DEF S
  <2> QED
    BY <1>1, <1>2, LenProperties
<1>4. Len(f) = n
  BY <1>3
<1> QED
  BY <1>2, <1>3, <1>4

(* Two texts, over one set of pieces. *)
LEMMA SameAlphabet ==
  ASSUME NEW a, NEW b, Text(a), Text(b)
  PROVE  \E S : a \in Seq(S) /\ b \in Seq(S) /\ \A p \in S : p[1] \in Nat \ {0}
<1>1. PICK S : a \in Seq(S) /\ \A p \in S : p[1] \in Nat \ {0}
  BY DEF Text
<1>2. PICK T : b \in Seq(T) /\ \A p \in T : p[1] \in Nat \ {0}
  BY DEF Text
<1> DEFINE U == S \cup T
<1>3. S \subseteq U /\ T \subseteq U /\ \A p \in U : p[1] \in Nat \ {0}
  BY <1>1, <1>2
<1> HIDE DEF U
<1>4. a \in Seq(U) /\ b \in Seq(U)
  BY <1>1, <1>2, <1>3, SeqMonotonic
<1> QED
  BY <1>3, <1>4

LEMMA TextLen ==
  ASSUME NEW a, Text(a)
  PROVE  /\ Len(a) \in Nat /\ DOMAIN a = 1..Len(a) /\ a = [i \in 1..Len(a) |-> a[i]]
         /\ \A i \in 1..Len(a) : a[i][1] \in Nat \ {0}
<1>1. PICK S : a \in Seq(S) /\ \A p \in S : p[1] \in Nat \ {0}
  BY DEF Text
<1>2. Len(a) \in Nat /\ DOMAIN a = 1..Len(a) /\ a \in [1..Len(a) -> S]
  BY <1>1, LenProperties
<1> QED
  BY <1>1, <1>2

LEMMA TextConcat ==
  ASSUME NEW a, NEW b, Text(a), Text(b)
  PROVE  /\ Text(a \o b)
         /\ Len(a \o b) = Len(a) + Len(b)
         /\ \A i \in 1..Len(a) : (a \o b)[i] = a[i]
         /\ \A i \in 1..Len(b) : (a \o b)[Len(a) + i] = b[i]
<1>1. PICK S : a \in Seq(S) /\ b \in Seq(S) /\ \A p \in S : p[1] \in Nat \ {0}
  BY SameAlphabet
<1>2. /\ a \o b \in Seq(S) /\ Len(a \o b) = Len(a) + Len(b)
      /\ \A i \in 1..(Len(a) + Len(b)) : (a \o b)[i] = IF i <= Len(a) THEN a[i] ELSE b[i - Len(a)]
  BY <1>1, ConcatProperties
<1>3. Len(a) \in Nat /\ Len(b) \in Nat
  BY TextLen
<1>4. ASSUME NEW i \in 1..Len(b) PROVE (a \o b)[Len(a) + i] = b[i]
  <2>1. Len(a) + i \in 1..(Len(a) + Len(b)) /\ ~(Len(a) + i <= Len(a)) /\ Len(a) + i - Len(a) = i
    BY <1>3
  <2> QED
    BY <1>2, <2>1
<1>5. \A i \in 1..Len(a) : (a \o b)[i] = a[i]
  BY <1>2, <1>3
<1>6. Text(a \o b)
  BY <1>1, <1>2 DEF Text
<1> QED
  BY <1>2, <1>4, <1>5, <1>6

LEMMA TextAssoc ==
  ASSUME NEW a, NEW b, NEW c, Text(a), Text(b), Text(c)
  PROVE  (a \o b) \o c = a \o (b \o c)
<1>1. PICK S : a \in Seq(S) /\ b \in Seq(S) /\ \A p \in S : p[1] \in Nat \ {0}
  BY SameAlphabet
<1>2. PICK T : c \in Seq(T) /\ \A p \in T : p[1] \in Nat \ {0}
  BY DEF Text
<1> DEFINE U == S \cup T
<1>3. S \subseteq U /\ T \subseteq U
  OBVIOUS
<1> HIDE DEF U
<1>4. a \in Seq(U) /\ b \in Seq(U) /\ c \in Seq(U)
  BY <1>1, <1>2, <1>3, SeqMonotonic
<1> QED
  BY <1>4, ConcatAssociative

LEMMA TextEmpty ==
  /\ Text(<<>>) /\ Len(<<>>) = 0
  /\ \A a : Text(a) => a \o <<>> = a /\ <<>> \o a = a
<1>1. Text(<<>>)
  <2> DEFINE bs == <<>>
             S == {}
  <2>1. bs \in Seq(S)
    BY EmptySeq
  <2>2. \A p \in S : p[1] \in Nat \ {0}
    OBVIOUS
  <2>3. Text(bs)
    <3> HIDE DEF bs, S
    <3> QED
      BY <2>1, <2>2, TextOver
  <2> QED
    BY <2>3
<1>2. ASSUME NEW a, Text(a) PROVE a \o <<>> = a /\ <<>> \o a = a
  <2>1. PICK S : a \in Seq(S)
    BY <1>2 DEF Text
  <2> QED
    BY <2>1, ConcatEmptySeq
<1>3. Len(<<>>) = 0
  BY EmptySeq
<1> QED
  BY <1>1, <1>2, <1>3

LEMMA TextPiece ==
  ASSUME NEW width \in Nat \ {0}, NEW kind, NEW content
  PROVE  Text(Piece(width, kind, content)) /\ Len(Piece(width, kind, content)) = 1
<1> DEFINE p == <<width, kind, content>>
<1>1. p[1] = width
  OBVIOUS
<1> HIDE DEF p
<1>2. <<p>> \in Seq({p}) /\ Len(<<p>>) = 1
  OBVIOUS
<1>3. \A x \in {p} : x[1] \in Nat \ {0}
  BY <1>1
<1> DEFINE bs == <<p>>
           S == {p}
<1>4. bs \in Seq(S) /\ \A x \in S : x[1] \in Nat \ {0}
  BY <1>2, <1>3
<1>5. Text(bs)
  <2> HIDE DEF bs, S
  <2> QED
    BY <1>4, TextOver
<1> QED
  BY <1>2, <1>5 DEF p, Piece

(* Where the pieces of a text end. *)
LEMMA EndsFacts ==
  ASSUME NEW a, Text(a)
  PROVE  /\ Ends(a)[0] = 0
         /\ \A i \in 1..Len(a) : Ends(a)[i] = Ends(a)[i - 1] + a[i][1]
         /\ \A i \in 0..Len(a) : Ends(a)[i] \in Nat
         /\ Size(a) \in Nat
<1> DEFINE n == Len(a)
           F(g) == [i \in 0..n |-> IF i = 0 THEN 0 ELSE g[i - 1] + a[i][1]]
           end == CHOOSE g : g = F(g)
           Right(m) == \E g : \A i \in 0..n : i <= m => g[i] = IF i = 0 THEN 0 ELSE g[i - 1] + a[i][1]
           Whole == {m \in Nat : Right(m)}
<1>1. n \in Nat /\ \A i \in 1..n : a[i][1] \in Nat \ {0}
  BY TextLen
<1> HIDE DEF n
<1>2. 0 \in Whole
  <2> DEFINE g == [i \in 0..n |-> 0]
  <2>1. \A i \in 0..n : i <= 0 => g[i] = IF i = 0 THEN 0 ELSE g[i - 1] + a[i][1]
    BY <1>1
  <2> QED
    BY <2>1
<1>3. ASSUME NEW m \in Whole PROVE m + 1 \in Whole
  <2>1. PICK g : \A i \in 0..n : i <= m => g[i] = IF i = 0 THEN 0 ELSE g[i - 1] + a[i][1]
    OBVIOUS
  <2> DEFINE h == [i \in 0..n |-> IF i = 0 THEN 0 ELSE g[i - 1] + a[i][1]]
  <2>2. ASSUME NEW i \in 0..n, i <= m + 1 PROVE h[i] = IF i = 0 THEN 0 ELSE h[i - 1] + a[i][1]
    <3>1. CASE i = 0
      BY <3>1
    <3>2. CASE i # 0
      <4>1. i - 1 \in 0..n /\ i - 1 <= m
        BY <1>1, <2>2, <3>2
      <4>2. h[i - 1] = g[i - 1]
        BY <2>1, <4>1
      <4> QED
        BY <3>2, <4>2
    <3> QED
      BY <3>1, <3>2
  <2>3. Right(m + 1)
    <3> HIDE DEF h
    <3> QED
      BY <2>2
  <2>4. m + 1 \in Nat
    OBVIOUS
  <2> HIDE DEF Right
  <2> QED
    BY <2>3, <2>4
<1>4. Whole = Nat
  <2> HIDE DEF Whole
  <2>1. Whole \in SUBSET Nat
    BY DEF Whole
  <2> QED
    BY <1>2, <1>3, <2>1, NatInductive
<1>5. PICK g : \A i \in 0..n : g[i] = IF i = 0 THEN 0 ELSE g[i - 1] + a[i][1]
  <2>1. n \in Whole
    BY <1>1, <1>4
  <2>2. PICK g : \A i \in 0..n : i <= n => g[i] = IF i = 0 THEN 0 ELSE g[i - 1] + a[i][1]
    BY <2>1
  <2> QED
    BY <1>1, <2>2
<1>6. \E h : h = F(h)
  <2> DEFINE h == [i \in 0..n |-> g[i]]
  <2>1. ASSUME NEW i \in 0..n PROVE h[i] = IF i = 0 THEN 0 ELSE h[i - 1] + a[i][1]
    <3>1. i # 0 => i - 1 \in 0..n
      BY <1>1
    <3> QED
      BY <1>5, <3>1
  <2>2. h = F(h)
    BY <2>1
  <2> QED
    BY <2>2
<1>7. end = F(end)
  BY <1>6
<1> HIDE DEF end
<1>8. Ends(a) = end
  BY DEF Ends, end, n
<1>9. end[0] = 0 /\ \A i \in 1..n : end[i] = end[i - 1] + a[i][1]
  <2>1. \A i \in 0..n : end[i] = IF i = 0 THEN 0 ELSE end[i - 1] + a[i][1]
    BY <1>7
  <2> QED
    BY <1>1, <2>1
<1>10. \A i \in 0..n : end[i] \in Nat
  <2> DEFINE P == {i \in Nat : i <= n => end[i] \in Nat}
  <2>1. 0 \in P
    BY <1>9
  <2>2. ASSUME NEW i \in P PROVE i + 1 \in P
    <3>1. i + 1 <= n => end[i + 1] = end[i] + a[i + 1][1] /\ a[i + 1][1] \in Nat /\ end[i] \in Nat
      <4>1. i + 1 <= n => i + 1 \in 1..n /\ (i + 1) - 1 = i /\ i <= n
        BY <1>1
      <4> QED
        BY <1>1, <1>9, <4>1
    <3> QED
      BY <3>1
  <2>3. P = Nat
    <3> HIDE DEF P
    <3>1. P \in SUBSET Nat
      BY DEF P
    <3> QED
      BY <2>1, <2>2, <3>1, NatInductive
  <2> QED
    BY <1>1, <2>3
<1>11. n \in 0..n /\ Size(a) = end[n]
  BY <1>1, <1>8 DEF Size, n
<1> QED
  BY <1>8, <1>9, <1>10, <1>11 DEF n

(* The pieces of two texts in a row end where those of each do. *)
LEMMA EndsConcat ==
  ASSUME NEW a, NEW b, Text(a), Text(b)
  PROVE  /\ \A i \in 0..Len(a) : Ends(a \o b)[i] = Ends(a)[i]
         /\ Size(a \o b) = Size(a) + Size(b)
<1> DEFINE c == a \o b
           m == Len(a)
           n == Len(b)
<1>1. m \in Nat /\ n \in Nat /\ Len(c) = m + n /\ Text(c)
  BY TextLen, TextConcat
<1>2. /\ \A i \in 1..m : c[i] = a[i]
      /\ \A i \in 1..n : c[m + i] = b[i]
  BY TextConcat
<1> DEFINE ea == Ends(a)
           eb == Ends(b)
           ec == Ends(c)
<1>3. /\ ea[0] = 0 /\ \A i \in 1..m : ea[i] = ea[i - 1] + a[i][1]
      /\ \A i \in 0..m : ea[i] \in Nat
      /\ eb[0] = 0 /\ \A i \in 1..n : eb[i] = eb[i - 1] + b[i][1]
      /\ \A i \in 0..n : eb[i] \in Nat
  BY EndsFacts
<1>4. ec[0] = 0 /\ \A i \in 1..(m + n) : ec[i] = ec[i - 1] + c[i][1]
  <2> HIDE DEF c
  <2> QED
    BY <1>1, EndsFacts
<1>5. Size(a) = ea[m] /\ Size(b) = eb[n] /\ Size(c) = ec[m + n]
  BY <1>1 DEF Size
<1>12. \A i \in 1..n : b[i][1] \in Nat
  BY TextLen
<1> HIDE DEF c, ea, eb, ec, m, n
<1>6. \A i \in Nat : i <= m => ec[i] = ea[i]
  <2> DEFINE P == {i \in Nat : i <= m => ec[i] = ea[i]}
  <2>1. 0 \in P
    BY <1>3, <1>4
  <2>2. ASSUME NEW i \in P PROVE i + 1 \in P
    <3> SUFFICES ASSUME i + 1 <= m PROVE ec[i + 1] = ea[i + 1]
      OBVIOUS
    <3>1. i + 1 \in 1..m /\ i + 1 \in 1..(m + n) /\ (i + 1) - 1 = i /\ i <= m
      BY <1>1
    <3>2. ec[i] = ea[i] /\ c[i + 1] = a[i + 1]
      BY <1>2, <3>1
    <3>3. ec[i + 1] = ec[i] + c[i + 1][1] /\ ea[i + 1] = ea[i] + a[i + 1][1]
      BY <1>3, <1>4, <3>1
    <3> QED
      BY <3>2, <3>3
  <2>3. P = Nat
    <3> HIDE DEF P
    <3>1. P \in SUBSET Nat
      BY DEF P
    <3> QED
      BY <2>1, <2>2, <3>1, NatInductive
  <2> QED
    BY <2>3
<1>7. \A i \in Nat : i <= n => ec[m + i] = ea[m] + eb[i]
  <2> DEFINE P == {i \in Nat : i <= n => ec[m + i] = ea[m] + eb[i]}
  <2>1. 0 \in P
    <3>1. m + 0 = m /\ ea[m] \in Nat /\ ec[m] = ea[m]
      BY <1>1, <1>3, <1>6
    <3> QED
      BY <1>3, <3>1
  <2>2. ASSUME NEW i \in P PROVE i + 1 \in P
    <3> SUFFICES ASSUME i + 1 <= n PROVE ec[m + (i + 1)] = ea[m] + eb[i + 1]
      OBVIOUS
    <3> DEFINE j == m + (i + 1)
    <3>1. i + 1 \in 1..n /\ j \in 1..(m + n) /\ j - 1 = m + i /\ (i + 1) - 1 = i /\ i <= n /\ i \in 0..n
      BY <1>1
    <3>2. ec[m + i] = ea[m] + eb[i] /\ c[j] = b[i + 1]
      BY <1>2, <3>1
    <3>3. eb[i + 1] = eb[i] + b[i + 1][1] /\ eb[i] \in Nat /\ b[i + 1][1] \in Nat
      BY <1>3, <1>12, <3>1
    <3>4. ec[j] = ec[m + i] + c[j][1]
      <4> HIDE DEF j
      <4> QED
        BY <1>4, <3>1
    <3>5. ea[m] \in Nat
      BY <1>1, <1>3
    <3> QED
      BY <3>2, <3>3, <3>4, <3>5
  <2>3. P = Nat
    <3> HIDE DEF P
    <3>1. P \in SUBSET Nat
      BY DEF P
    <3> QED
      BY <2>1, <2>2, <3>1, NatInductive
  <2> QED
    BY <2>3
<1>8. ec[m + n] = ea[m] + eb[n]
  BY <1>1, <1>7
<1>9. Size(c) = Size(a) + Size(b)
  BY <1>5, <1>8
<1>10. \A i \in 0..m : ec[i] = ea[i]
  BY <1>1, <1>6
<1> QED
  BY <1>9, <1>10 DEF c, m, ea, ec

LEMMA SizeFacts ==
  /\ Size(<<>>) = 0
  /\ \A width \in Nat \ {0} : \A kind, content : Size(Piece(width, kind, content)) = width
  /\ \A a : Text(a) /\ Size(a) = 0 => a = <<>>
<1>1. Size(<<>>) = 0
  BY TextEmpty, EndsFacts DEF Size
<1>2. ASSUME NEW width \in Nat \ {0}, NEW kind, NEW content
      PROVE  Size(Piece(width, kind, content)) = width
  <2> DEFINE a == Piece(width, kind, content)
  <2>1. a[1][1] = width
    BY DEF Piece
  <2> HIDE DEF a
  <2>2. Text(a) /\ Len(a) = 1
    BY TextPiece DEF a
  <2>3. Ends(a)[0] = 0 /\ Ends(a)[1] = Ends(a)[1 - 1] + a[1][1]
    BY <2>2, EndsFacts
  <2>4. Size(a) = width
    BY <2>1, <2>2, <2>3 DEF Size
  <2> QED
    BY <2>4 DEF a
<1>3. ASSUME NEW a, Text(a), Size(a) = 0 PROVE a = <<>>
  <2>1. Len(a) \in Nat /\ \A i \in 1..Len(a) : a[i][1] \in Nat \ {0}
    BY <1>3, TextLen
  <2>2. CASE Len(a) = 0
    <3>1. PICK S : a \in Seq(S)
      BY <1>3 DEF Text
    <3> QED
      BY <2>2, <3>1, EmptySeq
  <2>3. CASE Len(a) # 0
    <3>1. Len(a) \in 1..Len(a) /\ Len(a) - 1 \in 0..Len(a)
      BY <2>1, <2>3
    <3>2. Ends(a)[Len(a)] = Ends(a)[Len(a) - 1] + a[Len(a)][1] /\ Ends(a)[Len(a) - 1] \in Nat
      BY <1>3, <3>1, EndsFacts
    <3>3. Ends(a)[Len(a)] = 0
      BY <1>3 DEF Size
    <3>4. a[Len(a)][1] \in Nat \ {0}
      BY <2>1, <3>1
    <3> QED
      BY <3>2, <3>3, <3>4
  <2> QED
    BY <2>2, <2>3
<1> QED
  BY <1>1, <1>2, <1>3

-----------------------------------------------------------------------------
(* Cutting a text where a piece ends. *)

(* The function that Pieces defines exists, and is what its definition says. *)
LEMMA PiecesReached ==
  ASSUME NEW a, Text(a)
  PROVE  \E f : /\ \A at \in (0..Len(a)) \X Int :
                      f[at] = IF at[2] <= 0 \/ at[1] = Len(a) THEN at[1]
                              ELSE f[<<at[1] + 1, at[2] - a[at[1] + 1][1]>>]
                /\ \A n \in Int : Pieces(a, n) = f[<<0, n>>]
<1> DEFINE n == Len(a)
           D == (0..n) \X Int
           Next1(at) == <<at[1] + 1, at[2] - a[at[1] + 1][1]>>
           Stop(at) == at[2] <= 0 \/ at[1] = n
           F(g) == [at \in D |-> IF Stop(at) THEN at[1] ELSE g[Next1(at)]]
           reached == CHOOSE g : g = F(g)
           Holds(g, at) == g[at] = IF Stop(at) THEN at[1] ELSE g[Next1(at)]
           Right(m) == \E g : \A at \in D : at[1] >= n - m => Holds(g, at)
           Upto0 == {m \in Nat : Right(m)}
<1>1. n \in Nat /\ \A i \in 1..n : a[i][1] \in Nat \ {0}
  BY TextLen
<1>2. \A k \in Int : Pieces(a, k) = reached[<<0, k>>]
  BY DEF Pieces
<1> HIDE DEF n, reached
<1>3. \A at \in D : /\ at[1] \in 0..n
                    /\ ~Stop(at) => Next1(at) \in D /\ Next1(at)[1] = at[1] + 1
  <2> TAKE at \in D
  <2>1. at[1] \in 0..n /\ at[2] \in Int
    OBVIOUS
  <2>2. ASSUME ~Stop(at) PROVE Next1(at) \in D /\ Next1(at)[1] = at[1] + 1
    <3>1. at[1] + 1 \in 1..n
      BY <1>1, <2>1, <2>2
    <3>2. at[2] - a[at[1] + 1][1] \in Int /\ at[1] + 1 \in 0..n
      BY <1>1, <2>1, <3>1
    <3> QED
      BY <3>2
  <2> QED
    BY <2>1, <2>2
<1>4. reached = F(reached)
  <2> HIDE DEF D, Next1, Stop
  <2>1. 0 \in Upto0
    <3> DEFINE g == [at \in D |-> at[1]]
    <3>1. \A at \in D : at[1] >= n - 0 => Holds(g, at)
      <4> TAKE at \in D
      <4> HAVE at[1] >= n - 0
      <4>1. Stop(at)
        BY <1>1, <1>3 DEF Stop
      <4> QED
        BY <4>1
    <3> QED
      BY <3>1
  <2>2. ASSUME NEW m \in Upto0 PROVE m + 1 \in Upto0
    <3>1. PICK g : \A at \in D : at[1] >= n - m => Holds(g, at)
      OBVIOUS
    <3> DEFINE h == F(g)
    <3>2. ASSUME NEW at \in D, at[1] >= n - (m + 1) PROVE Holds(h, at)
      <4>1. CASE Stop(at)
        BY <4>1
      <4>2. CASE ~Stop(at)
        <5>1. Next1(at) \in D /\ Next1(at)[1] >= n - m
          BY <1>1, <1>3, <3>2, <4>2
        <5>2. Holds(g, Next1(at))
          BY <3>1, <5>1
        <5>3. h[Next1(at)] = g[Next1(at)]
          BY <5>1, <5>2
        <5> QED
          BY <4>2, <5>3
      <4> QED
        BY <4>1, <4>2
    <3>3. Right(m + 1)
      <4> HIDE DEF h, Holds
      <4> QED
        BY <3>2
    <3>4. m + 1 \in Nat
      OBVIOUS
    <3> HIDE DEF Right
    <3> QED
      BY <3>3, <3>4
  <2>3. Upto0 = Nat
    <3> HIDE DEF Upto0
    <3>1. Upto0 \in SUBSET Nat
      BY DEF Upto0
    <3> QED
      BY <2>1, <2>2, <3>1, NatInductive
  <2>4. PICK g : \A at \in D : Holds(g, at)
    <3>1. n \in Upto0
      BY <1>1, <2>3
    <3>2. PICK g : \A at \in D : at[1] >= n - n => Holds(g, at)
      BY <3>1
    <3>3. \A at \in D : at[1] >= n - n
      BY <1>1, <1>3
    <3> HIDE DEF Holds
    <3> QED
      BY <3>2, <3>3
  <2>5. \E h : h = F(h)
    <3> DEFINE h == [at \in D |-> g[at]]
    <3>1. \A at \in D : Holds(h, at)
      BY <1>3, <2>4
    <3>2. h = F(h)
      BY <3>1
    <3> QED
      BY <3>2
  <2> HIDE DEF F
  <2> QED
    BY <2>5 DEF reached
<1>5. \A at \in D : Holds(reached, at)
  BY <1>4
<1> HIDE DEF D
<1> QED
  BY <1>2, <1>5 DEF D, n

LEMMA PiecesWhole ==
  ASSUME NEW a, NEW b, Text(a), Text(b)
  PROVE  Pieces(a \o b, Size(a)) = Len(a)
<1> DEFINE c == a \o b
           m == Len(a)
           e == Ends(a)
           s == Size(a)
<1>1. Text(c) /\ m \in Nat /\ Len(c) \in Nat /\ m <= Len(c) /\ \A i \in 1..m : c[i] = a[i]
  BY TextLen, TextConcat
<1>2. /\ e[0] = 0 /\ \A i \in 1..m : e[i] = e[i - 1] + a[i][1]
      /\ \A i \in 0..m : e[i] \in Nat
      /\ s = e[m] /\ s \in Nat
      /\ \A i \in 1..m : a[i][1] \in Nat \ {0}
  BY EndsFacts, TextLen DEF Size
<1> HIDE DEF c, m, e, s
<1>3. PICK f : /\ \A at \in (0..Len(c)) \X Int :
                      f[at] = IF at[2] <= 0 \/ at[1] = Len(c) THEN at[1]
                              ELSE f[<<at[1] + 1, at[2] - c[at[1] + 1][1]>>]
               /\ \A n \in Int : Pieces(c, n) = f[<<0, n>>]
  BY <1>1, PiecesReached
<1> DEFINE P == {j \in Nat : j <= m => e[m - j] <= s /\ f[<<m - j, s - e[m - j]>>] = m}
<1>4. 0 \in P
  <2>1. m - 0 = m /\ s - e[m] = 0 /\ <<m, 0>> \in (0..Len(c)) \X Int
    BY <1>1, <1>2
  <2>2. f[<<m, 0>>] = m
    <3> DEFINE at == <<m, 0>>
    <3>1. at \in (0..Len(c)) \X Int /\ at[1] = m /\ at[2] <= 0
      BY <2>1
    <3> HIDE DEF at
    <3>2. f[at] = m
      BY <1>3, <3>1
    <3> QED
      BY <3>2 DEF at
  <2>3. e[m - 0] <= s /\ f[<<m - 0, s - e[m - 0]>>] = m
    <3>1. m - 0 = m /\ e[m] = s /\ s - e[m - 0] = 0 /\ s <= s
      BY <1>2, <2>1
    <3>2. <<m - 0, s - e[m - 0]>> = <<m, 0>>
      BY <3>1
    <3>3. f[<<m - 0, s - e[m - 0]>>] = f[<<m, 0>>]
      BY <3>2
    <3> QED
      BY <2>2, <3>1, <3>3
  <2> QED
    BY <2>3
<1>5. ASSUME NEW j \in P PROVE j + 1 \in P
  <2> SUFFICES ASSUME j + 1 <= m PROVE e[m - (j + 1)] <= s /\ f[<<m - (j + 1), s - e[m - (j + 1)]>>] = m
    OBVIOUS
  <2> DEFINE i == m - (j + 1)
             left == s - e[i]
  <2>1. i \in 0..m /\ i + 1 \in 1..m /\ m - j = i + 1 /\ i < m /\ j <= m /\ i # Len(c) /\ i \in 0..Len(c)
    BY <1>1
  <2>2. e[i + 1] = e[i] + a[i + 1][1] /\ e[i + 1] <= s /\ f[<<i + 1, s - e[i + 1]>>] = m
    <3>1. (i + 1) - 1 = i
      BY <2>1
    <3> HIDE DEF i
    <3> QED
      BY <1>2, <2>1, <3>1
  <2>3. a[i + 1][1] \in Nat \ {0} /\ c[i + 1] = a[i + 1] /\ e[i] \in Nat /\ e[i + 1] \in Nat
    BY <1>1, <1>2, <2>1
  <2> HIDE DEF i
  <2>4. left \in Int /\ left > 0 /\ left - c[i + 1][1] = s - e[i + 1]
    BY <1>2, <2>2, <2>3
  <2>5. <<i, left>> \in (0..Len(c)) \X Int
    BY <2>1, <2>4
  <2> HIDE DEF left
  <2>6. f[<<i, left>>] = f[<<i + 1, left - c[i + 1][1]>>]
    BY <1>3, <2>1, <2>4, <2>5
  <2>7. f[<<i, left>>] = m /\ e[i] <= s
    BY <1>2, <2>2, <2>3, <2>4, <2>6
  <2> QED
    BY <2>7 DEF i, left
<1>6. P = Nat
  <2> HIDE DEF P
  <2>1. P \in SUBSET Nat
    BY DEF P
  <2> QED
    BY <1>4, <1>5, <2>1, NatInductive
<1>7. f[<<0, s>>] = m
  <2>1. m \in P
    BY <1>1, <1>6
  <2>2. m - m = 0 /\ s - e[0] = s
    BY <1>1, <1>2
  <2> QED
    BY <1>1, <2>1, <2>2
<1>8. Pieces(c, s) = m
  BY <1>2, <1>3, <1>7
<1> QED
  BY <1>8 DEF c, s, m

(* What was written first is read first, and what follows is left. *)
LEMMA Cut ==
  ASSUME NEW a, NEW b, Text(a), Text(b)
  PROVE  Upto(a \o b, Size(a)) = a /\ After(a \o b, Size(a)) = b
<1> DEFINE c == a \o b
           m == Len(a)
           k == Len(b)
<1>1. PICK S : a \in Seq(S) /\ b \in Seq(S) /\ \A p \in S : p[1] \in Nat \ {0}
  BY SameAlphabet
<1>2. m \in Nat /\ k \in Nat /\ Len(c) = m + k /\ c \in Seq(S)
  BY <1>1, TextLen, TextConcat, ConcatProperties
<1>3. /\ \A i \in 1..m : c[i] = a[i]
      /\ \A i \in 1..k : c[m + i] = b[i]
      /\ a = [i \in 1..m |-> a[i]] /\ b = [i \in 1..k |-> b[i]]
  BY TextConcat, TextLen
<1>4. Pieces(c, Size(a)) = m
  BY PiecesWhole
<1> HIDE DEF c, m, k
<1>5. SubSeq(c, 1, m) = a
  <2>1. SubSeq(c, 1, m) = [i \in 1..m |-> c[i]]
    BY <1>2 DEF SubSeq
  <2> QED
    BY <1>3, <2>1
<1>6. SubSeq(c, m + 1, Len(c)) = b
  <2>1. SubSeq(c, m + 1, Len(c)) = [i \in 1..k |-> c[m + i]]
    BY <1>2, SMT
  <2> QED
    BY <1>3, <2>1
<1>7. Upto(c, Size(a)) = a /\ After(c, Size(a)) = b
  BY <1>4, <1>5, <1>6 DEF Upto, After
<1> QED
  BY <1>7 DEF c

(* Texts in a row, as what is left after each of them. *)
LEMMA FlattenTails ==
  ASSUME NEW n \in Nat, NEW e, e = [i \in 1..n |-> e[i]], \A i \in 1..n : Text(e[i])
  PROVE  \E tail : /\ \A i \in 0..n : Text(tail[i])
                   /\ tail[n] = <<>>
                   /\ \A i \in 1..n : tail[i - 1] = e[i] \o tail[i]
                   /\ tail[0] = FlattenSeq(e)
<1> DEFINE F(g) == [i \in 1..n |-> IF i = 1 THEN e[i] ELSE g[i - 1] \o e[i]]
           flatten == CHOOSE g : g = F(g)
           Right(m) == \E g : \A i \in 1..n : i <= m => g[i] = IF i = 1 THEN e[i] ELSE g[i - 1] \o e[i]
           Upto0 == {m \in Nat : Right(m)}
<1>1. Len(e) = n
  BY FunctionIsSeq
<1>2. 0 \in Upto0
  <2> DEFINE g == [i \in 1..n |-> 0]
  <2>1. \A i \in 1..n : i <= 0 => g[i] = IF i = 1 THEN e[i] ELSE g[i - 1] \o e[i]
    OBVIOUS
  <2> QED
    BY <2>1
<1>3. ASSUME NEW m \in Upto0 PROVE m + 1 \in Upto0
  <2>1. PICK g : \A i \in 1..n : i <= m => g[i] = IF i = 1 THEN e[i] ELSE g[i - 1] \o e[i]
    OBVIOUS
  <2> DEFINE h == [i \in 1..n |-> IF i = 1 THEN e[i] ELSE g[i - 1] \o e[i]]
  <2>2. ASSUME NEW i \in 1..n, i <= m + 1 PROVE h[i] = IF i = 1 THEN e[i] ELSE h[i - 1] \o e[i]
    <3>1. CASE i = 1
      BY <3>1
    <3>2. CASE i # 1
      <4>1. i - 1 \in 1..n /\ i - 1 <= m
        BY <2>2, <3>2
      <4>2. h[i - 1] = g[i - 1]
        BY <2>1, <4>1
      <4> QED
        BY <3>2, <4>2
    <3> QED
      BY <3>1, <3>2
  <2>3. Right(m + 1)
    <3> HIDE DEF h
    <3> QED
      BY <2>2
  <2>4. m + 1 \in Nat
    OBVIOUS
  <2> HIDE DEF Right
  <2> QED
    BY <2>3, <2>4
<1>4. Upto0 = Nat
  <2> HIDE DEF Upto0
  <2>1. Upto0 \in SUBSET Nat
    BY DEF Upto0
  <2> QED
    BY <1>2, <1>3, <2>1, NatInductive
<1>5. PICK g : \A i \in 1..n : g[i] = IF i = 1 THEN e[i] ELSE g[i - 1] \o e[i]
  <2>1. n \in Upto0
    BY <1>4
  <2>2. PICK g : \A i \in 1..n : i <= n => g[i] = IF i = 1 THEN e[i] ELSE g[i - 1] \o e[i]
    BY <2>1
  <2> QED
    BY <2>2
<1>6. \E h : h = F(h)
  <2> DEFINE h == [i \in 1..n |-> g[i]]
  <2>1. ASSUME NEW i \in 1..n PROVE h[i] = IF i = 1 THEN e[i] ELSE h[i - 1] \o e[i]
    <3>1. i # 1 => i - 1 \in 1..n
      OBVIOUS
    <3> QED
      BY <1>5, <3>1
  <2>2. h = F(h)
    BY <2>1
  <2> QED
    BY <2>2
<1>7. flatten = F(flatten)
  BY <1>6
<1> HIDE DEF flatten
<1>8. \A i \in 1..n : flatten[i] = IF i = 1 THEN e[i] ELSE flatten[i - 1] \o e[i]
  BY <1>7
<1>9. n # 0 => FlattenSeq(e) = flatten[n]
  BY <1>1 DEF FlattenSeq, flatten
<1> DEFINE flat(m) == IF m = 0 THEN <<>> ELSE flatten[m]
           Tails(m, tail) == /\ \A i \in 0..m : Text(tail[i])
                             /\ tail[m] = <<>>
                             /\ \A i \in 1..m : tail[i - 1] = e[i] \o tail[i]
                             /\ tail[0] = flat(m)
           Good == {m \in Nat : m <= n => \E tail : Tails(m, tail)}
<1>10. ASSUME NEW m \in 1..n PROVE flat(m) = flat(m - 1) \o e[m]
  <2>1. CASE m = 1
    <3>1. flat(m) = e[1] /\ flat(m - 1) = <<>>
      BY <1>8, <2>1
    <3>2. <<>> \o e[1] = e[1]
      BY TextEmpty, <2>1
    <3> QED
      BY <2>1, <3>1, <3>2
  <2>2. CASE m # 1
    <3>1. m # 0 /\ m - 1 # 0
      BY <2>2
    <3>2. flat(m) = flatten[m] /\ flat(m - 1) = flatten[m - 1]
      BY <3>1
    <3>3. flatten[m] = flatten[m - 1] \o e[m]
      BY <1>8, <2>2
    <3> HIDE DEF flat
    <3> QED
      BY <3>2, <3>3
  <2> QED
    BY <2>1, <2>2
<1> HIDE DEF flat
<1>11. 0 \in Good
  <2> DEFINE tail == [i \in 0..0 |-> <<>>]
  <2>1. tail[0] = <<>> /\ flat(0) = <<>>
    BY DEF flat
  <2>2. Tails(0, tail)
    <3>1. \A i \in 0..0 : tail[i] = <<>>
      OBVIOUS
    <3>2. \A i \in 1..0 : FALSE
      OBVIOUS
    <3> HIDE DEF tail
    <3> QED
      BY <2>1, <3>1, <3>2, TextEmpty
  <2>3. \E t : Tails(0, t)
    <3> HIDE DEF Tails, tail
    <3> QED
      BY <2>2
  <2> HIDE DEF Tails
  <2> QED
    BY <2>3
<1>12. ASSUME NEW m \in Good PROVE m + 1 \in Good
  <2> SUFFICES ASSUME m + 1 <= n PROVE \E tail : Tails(m + 1, tail)
    <3>1. m + 1 \in Nat
      OBVIOUS
    <3> HIDE DEF Tails
    <3> QED
      BY <3>1
  <2>1. PICK tail : Tails(m, tail)
    <3>1. m <= n
      OBVIOUS
    <3> HIDE DEF Tails
    <3> QED
      BY <3>1
  <2> DEFINE k == m + 1
             more == [i \in 0..k |-> IF i = k THEN <<>> ELSE tail[i] \o e[k]]
  <2>2. k \in 1..n /\ Text(e[k]) /\ k - 1 = m
    OBVIOUS
  <2>3. more[k] = <<>> /\ \A i \in 0..m : more[i] = tail[i] \o e[k]
    OBVIOUS
  <2> HIDE DEF more, k
  <2>4. \A i \in 0..k : Text(more[i])
    <3> TAKE i \in 0..k
    <3>1. CASE i = k
      BY <2>3, <3>1, TextEmpty
    <3>2. CASE i # k
      <4>1. i \in 0..m
        BY <3>2 DEF k
      <4>2. Text(tail[i]) /\ Text(e[k]) /\ more[i] = tail[i] \o e[k]
        BY <2>1, <2>2, <2>3, <4>1
      <4>3. Text(tail[i] \o e[k])
        BY <4>2, TextConcat
      <4> QED
        BY <4>2, <4>3
    <3> QED
      BY <3>1, <3>2
  <2>5. \A i \in 1..k : more[i - 1] = e[i] \o more[i]
    <3> TAKE i \in 1..k
    <3>1. CASE i = k
      <4>1. more[i - 1] = tail[m] \o e[k] /\ tail[m] = <<>>
        <5>1. i - 1 = m /\ m \in 0..m
          BY <3>1 DEF k
        <5> QED
          BY <2>1, <2>3, <5>1
      <4>2. <<>> \o e[k] = e[k] /\ e[k] \o <<>> = e[k]
        BY <2>2, TextEmpty
      <4> QED
        BY <2>3, <3>1, <4>1, <4>2
    <3>2. CASE i # k
      <4>1. i \in 1..m /\ i - 1 \in 0..m /\ i \in 0..m /\ i \in 1..n
        BY <2>2, <3>2 DEF k
      <4>2. more[i - 1] = tail[i - 1] \o e[k] /\ more[i] = tail[i] \o e[k] /\ tail[i - 1] = e[i] \o tail[i]
        BY <2>1, <2>3, <4>1
      <4>3. Text(e[i]) /\ Text(tail[i]) /\ Text(e[k])
        BY <2>1, <2>2, <4>1
      <4>4. (e[i] \o tail[i]) \o e[k] = e[i] \o (tail[i] \o e[k])
        <5> DEFINE x == e[i]
                   y == tail[i]
                   z == e[k]
        <5>1. Text(x) /\ Text(y) /\ Text(z)
          BY <4>3
        <5> HIDE DEF x, y, z
        <5>2. (x \o y) \o z = x \o (y \o z)
          BY <5>1, TextAssoc
        <5> QED
          BY <5>2 DEF x, y, z
      <4> QED
        BY <4>2, <4>4
    <3> QED
      BY <3>1, <3>2
  <2>6. more[0] = flat(k)
    <3>1. flat(k) = flat(m) \o e[k]
      BY <1>10, <2>2
    <3>2. more[0] = tail[0] \o e[k] /\ tail[0] = flat(m)
      <4>1. 0 \in 0..m
        OBVIOUS
      <4> QED
        BY <2>1, <2>3, <4>1
    <3> QED
      BY <3>1, <3>2
  <2>7. Tails(k, more)
    BY <2>3, <2>4, <2>5, <2>6
  <2> HIDE DEF Tails
  <2> QED
    BY <2>7 DEF k
<1>13. Good = Nat
  <2> HIDE DEF Good
  <2>1. Good \in SUBSET Nat
    BY DEF Good
  <2> QED
    BY <1>11, <1>12, <2>1, NatInductive
<1>14. PICK tail : Tails(n, tail)
  <2>1. n \in Good
    BY <1>13
  <2> HIDE DEF Tails
  <2> QED
    BY <2>1
<1>15. flat(n) = FlattenSeq(e)
  <2>1. CASE n = 0
    <3>1. e \in Seq({e[i] : i \in 1..n})
      BY FunctionIsSeq
    <3>2. e = <<>>
      BY <1>1, <2>1, <3>1, EmptySeq
    <3>3. FlattenSeq(e) = e
      BY <1>1, <2>1 DEF FlattenSeq
    <3> QED
      BY <2>1, <3>2, <3>3 DEF flat
  <2>2. CASE n # 0
    BY <1>9, <2>2 DEF flat
  <2> QED
    BY <2>1, <2>2
<1> QED
  BY <1>14, <1>15

LEMMA FlattenText ==
  ASSUME NEW n \in Nat, NEW e, e = [i \in 1..n |-> e[i]], \A i \in 1..n : Text(e[i])
  PROVE  Text(FlattenSeq(e))
<1>1. PICK tail : (\A i \in 0..n : Text(tail[i])) /\ tail[0] = FlattenSeq(e)
  <2>1. \E tail : /\ \A i \in 0..n : Text(tail[i])
                  /\ tail[n] = <<>>
                  /\ \A i \in 1..n : tail[i - 1] = e[i] \o tail[i]
                  /\ tail[0] = FlattenSeq(e)
    BY FlattenTails
  <2> QED
    BY <2>1
<1> QED
  BY <1>1

(* n texts, and n texts of their lengths. *)
AsLong(n, d, e) ==
    /\ n \in Nat
    /\ e = [i \in 1..n |-> e[i]] /\ d = [i \in 1..n |-> d[i]]
    /\ \A i \in 1..n : Text(e[i])
    /\ \A i \in 1..n : Text(d[i])
    /\ \A i \in 1..n : Size(d[i]) = Size(e[i])

(* Texts in a row are as long as others of their lengths. *)
LEMMA FlattenSize ==
  ASSUME NEW n, NEW d, NEW e, AsLong(n, d, e)
  PROVE  Size(FlattenSeq(d)) = Size(FlattenSeq(e))
<1> USE DEF AsLong
<1>1. PICK s : /\ \A i \in 0..n : Text(s[i])
               /\ s[n] = <<>>
               /\ \A i \in 1..n : s[i - 1] = e[i] \o s[i]
               /\ s[0] = FlattenSeq(e)
  BY FlattenTails
<1>2. PICK t : /\ \A i \in 0..n : Text(t[i])
               /\ t[n] = <<>>
               /\ \A i \in 1..n : t[i - 1] = d[i] \o t[i]
               /\ t[0] = FlattenSeq(d)
  BY FlattenTails
<1> DEFINE P == {j \in Nat : j <= n => Size(s[n - j]) = Size(t[n - j])}
<1>3. 0 \in P
  BY <1>1, <1>2
<1>4. ASSUME NEW j \in P PROVE j + 1 \in P
  <2> SUFFICES ASSUME j + 1 <= n PROVE Size(s[n - (j + 1)]) = Size(t[n - (j + 1)])
    OBVIOUS
  <2> DEFINE i == n - j
  <2>1. i \in 1..n /\ i \in 0..n /\ i - 1 = n - (j + 1) /\ Size(s[i]) = Size(t[i])
    OBVIOUS
  <2> HIDE DEF i
  <2> DEFINE a == e[i]
             b == s[i]
             x == d[i]
             y == t[i]
  <2>2. Text(a) /\ Text(b) /\ Text(x) /\ Text(y) /\ Size(a) = Size(x) /\ Size(b) = Size(y)
    BY <1>1, <1>2, <2>1
  <2>3. s[i - 1] = a \o b /\ t[i - 1] = x \o y
    BY <1>1, <1>2, <2>1
  <2> HIDE DEF a, b, x, y
  <2>4. Size(a \o b) = Size(a) + Size(b) /\ Size(x \o y) = Size(x) + Size(y)
    BY <2>2, EndsConcat
  <2>5. Size(s[i - 1]) = Size(t[i - 1])
    BY <2>2, <2>3, <2>4
  <2> QED
    BY <2>1, <2>5
<1>5. P = Nat
  <2> HIDE DEF P
  <2>1. P \in SUBSET Nat
    BY DEF P
  <2> QED
    BY <1>3, <1>4, <2>1, NatInductive
<1>6. Size(s[0]) = Size(t[0])
  <2>1. n \in P /\ n - n = 0
    BY <1>5
  <2> QED
    BY <2>1
<1> QED
  BY <1>1, <1>2, <1>6

LEMMA FlattenOne ==
  /\ FlattenSeq(<<>>) = <<>>
  /\ \A a : FlattenSeq(<<a>>) = a
<1>1. FlattenSeq(<<>>) = <<>>
  BY TextEmpty DEF FlattenSeq
<1>2. ASSUME NEW a PROVE FlattenSeq(<<a>>) = a
  <2> DEFINE s == <<a>>
             F(g) == [i \in 1..1 |-> IF i = 1 THEN s[i] ELSE g[i - 1] \o s[i]]
             flatten == CHOOSE g : g = F(g)
  <2>1. Len(s) = 1
    OBVIOUS
  <2>2. \E g : g = F(g)
    <3> DEFINE g == [i \in 1..1 |-> a]
    <3>1. F(g) = [i \in 1..1 |-> a]
      OBVIOUS
    <3> QED
      BY <3>1
  <2>3. flatten = F(flatten)
    BY <2>2
  <2> HIDE DEF flatten
  <2>4. flatten[1] = s[1] /\ s[1] = a
    BY <2>3
  <2>5. FlattenSeq(s) = flatten[1]
    <3> HIDE DEF s
    <3> QED
      BY <2>1 DEF FlattenSeq, flatten
  <2> QED
    BY <2>4, <2>5
<1> QED
  BY <1>1, <1>2

-----------------------------------------------------------------------------
(* Numbers, and reading a text from its front. *)

LEMMA NumberRead ==
  ASSUME NEW w, NEW n \in Int
  PROVE  Num(LE(w, n)) = n
<1> DEFINE bs == LE(w, n)
           F(g) == [i \in 1..2 |-> IF i > 1 THEN 0
                       ELSE bs[i][3] + (IF g[i + 1] = 0 THEN 0 ELSE 256^bs[i][1] * g[i + 1])]
           value == CHOOSE g : g = F(g)
<1>1. Len(bs) = 1 /\ DOMAIN bs = {1} /\ bs[1][1] = w /\ bs[1][2] = "number" /\ bs[1][3] = n
  BY DEF LE, Piece
<1> HIDE DEF bs
<1>2. \E g : g = F(g)
  <2> DEFINE g == [i \in 1..2 |-> IF i > 1 THEN 0 ELSE n]
  <2>1. g[2] = 0 /\ g[1] = n
    OBVIOUS
  <2>2. \A i \in 1..2 : g[i] = F(g)[i]
    <3> TAKE i \in 1..2
    <3>1. CASE i = 1
      <4>1. i + 1 = 2 /\ bs[i][3] = n
        BY <1>1, <3>1
      <4>2. F(g)[i] = n + 0
        <5> HIDE DEF g
        <5> QED
          BY <2>1, <3>1, <4>1
      <4> QED
        BY <2>1, <3>1, <4>2
    <3>2. CASE i = 2
      BY <3>2
    <3> QED
      BY <3>1, <3>2
  <2>3. g = F(g)
    BY <2>2
  <2> QED
    BY <2>3
<1>3. value = F(value)
  BY <1>2
<1> HIDE DEF value
<1>4. value[2] = 0 /\ value[1] = n
  <2>1. value[2] = 0
    BY <1>3
  <2>2. value[1] = bs[1][3] + (IF value[2] = 0 THEN 0 ELSE 256^bs[1][1] * value[2])
    BY <1>3
  <2> QED
    BY <1>1, <2>1, <2>2
<1>5. Num(bs) = value[1]
  BY <1>1 DEF Num, value
<1> QED
  BY <1>4, <1>5 DEF bs

LEMMA LEFacts ==
  ASSUME NEW w \in Nat \ {0}, NEW n
  PROVE  Text(LE(w, n)) /\ Size(LE(w, n)) = w /\ Len(LE(w, n)) = 1
  BY TextPiece, SizeFacts DEF LE

LEMMA BytesRead ==
  ASSUME NEW a, NEW b, Text(a), Text(b)
  PROVE  Bytes(a \o b, Size(a)) = [v |-> a, rest |-> b]
  BY Cut DEF Bytes

LEMMA NumRead ==
  ASSUME NEW w \in Nat \ {0}, NEW n \in Int, NEW b, Text(b)
  PROVE  Number(LE(w, n) \o b, w) = [v |-> n, rest |-> b]
<1> DEFINE a == LE(w, n)
<1>1. Text(a) /\ Size(a) = w /\ Num(a) = n
  BY LEFacts, NumberRead
<1> HIDE DEF a
<1>2. Bytes(a \o b, w) = [v |-> a, rest |-> b]
  BY <1>1, BytesRead
<1>3. Number(a \o b, w) = [v |-> n, rest |-> b]
  BY <1>1, <1>2 DEF Number, As
<1> QED
  BY <1>3 DEF a

LEMMA VarintForms ==
  ASSUME NEW n \in Nat
  PROVE  /\ n < 253 => encode_varint(n) = LE(1, n)
         /\ n >= 253 /\ n <= 65535 => encode_varint(n) = LE(1, 253) \o LE(2, n)
         /\ n > 65535 => encode_varint(n) = LE(1, 254) \o LE(4, n)
  BY DEF encode_varint

LEMMA VarintText ==
  ASSUME NEW n \in Nat
  PROVE  Text(encode_varint(n))
<1> DEFINE one == LE(1, n)
           mid == LE(1, 253) \o LE(2, n)
           long == LE(1, 254) \o LE(4, n)
<1>1. Text(LE(1, n)) /\ Text(LE(1, 253)) /\ Text(LE(2, n)) /\ Text(LE(1, 254)) /\ Text(LE(4, n))
  BY LEFacts
<1>2. Text(one) /\ Text(mid) /\ Text(long)
  BY <1>1, TextConcat
<1>3. /\ n < 253 => encode_varint(n) = one
      /\ n >= 253 /\ n <= 65535 => encode_varint(n) = mid
      /\ n > 65535 => encode_varint(n) = long
  BY VarintForms
<1> HIDE DEF one, mid, long
<1> QED
  BY <1>2, <1>3, SMT

(* A count reads back in each of its three forms. *)
LEMMA VarintRead ==
  ASSUME NEW n \in Nat, NEW b, Text(b)
  PROVE  Varint(encode_varint(n) \o b) = [v |-> n, rest |-> b]
<1>1. Text(LE(1, 253)) /\ Text(LE(2, n)) /\ Text(LE(1, 254)) /\ Text(LE(4, n))
  BY LEFacts
<1> DEFINE two == LE(2, n)
           four == LE(4, n)
           x253 == LE(1, 253)
           x254 == LE(1, 254)
<1>2. CASE n < 253
  <2>1. Number(LE(1, n) \o b, 1) = [v |-> n, rest |-> b]
    BY NumRead
  <2>2. encode_varint(n) = LE(1, n)
    BY <1>2, VarintForms
  <2>3. LongForm([v |-> n, rest |-> b]) = [v |-> n, rest |-> b]
    BY <1>2 DEF LongForm
  <2> QED
    BY <2>1, <2>2, <2>3 DEF Varint, U8
<1>3. CASE n >= 253 /\ n <= 65535
  <2>1. encode_varint(n) = x253 \o two
    BY <1>3, VarintForms
  <2>2. Number(two \o b, 2) = [v |-> n, rest |-> b]
    BY NumRead
  <2>3. Text(two \o b)
    <3> HIDE DEF two
    <3> QED
      BY <1>1, TextConcat DEF two
  <2>4. Number(x253 \o (two \o b), 1) = [v |-> 253, rest |-> two \o b]
    <3> DEFINE c == two \o b
    <3> HIDE DEF c
    <3>1. Text(c)
      BY <2>3 DEF c
    <3>2. Number(x253 \o c, 1) = [v |-> 253, rest |-> c]
      BY <3>1, NumRead
    <3> QED
      BY <3>2 DEF c
  <2> HIDE DEF two, x253
  <2>5. (x253 \o two) \o b = x253 \o (two \o b)
    <3>1. Text(x253) /\ Text(two)
      BY <1>1 DEF two, x253
    <3> QED
      BY <3>1, TextAssoc
  <2>6. LongForm([v |-> 253, rest |-> two \o b]) = [v |-> n, rest |-> b]
    BY <2>2 DEF LongForm
  <2> QED
    BY <2>1, <2>4, <2>5, <2>6 DEF Varint, U8
<1>4. CASE n > 65535
  <2>1. encode_varint(n) = x254 \o four
    BY <1>4, VarintForms
  <2>2. Number(four \o b, 4) = [v |-> n, rest |-> b]
    BY NumRead
  <2>3. Text(four \o b)
    <3> HIDE DEF four
    <3> QED
      BY <1>1, TextConcat DEF four
  <2>4. Number(x254 \o (four \o b), 1) = [v |-> 254, rest |-> four \o b]
    <3> DEFINE c == four \o b
    <3> HIDE DEF c
    <3>1. Text(c)
      BY <2>3 DEF c
    <3>2. Number(x254 \o c, 1) = [v |-> 254, rest |-> c]
      BY <3>1, NumRead
    <3> QED
      BY <3>2 DEF c
  <2> HIDE DEF four, x254
  <2>5. (x254 \o four) \o b = x254 \o (four \o b)
    <3>1. Text(x254) /\ Text(four)
      BY <1>1 DEF four, x254
    <3> QED
      BY <3>1, TextAssoc
  <2>6. LongForm([v |-> 254, rest |-> four \o b]) = [v |-> n, rest |-> b]
    BY <2>2 DEF LongForm
  <2> QED
    BY <2>1, <2>4, <2>5, <2>6 DEF Varint, U8
<1> QED
  BY <1>2, <1>3, <1>4

LEMMA WithLengthText ==
  ASSUME NEW a, Text(a)
  PROVE  /\ Text(WithLength(a)) /\ Text(encode_varint(Size(a)))
         /\ Size(WithLength(a)) = Size(encode_varint(Size(a))) + Size(a)
<1> DEFINE c == encode_varint(Size(a))
<1>1. Text(c)
  BY EndsFacts, VarintText
<1> HIDE DEF c
<1>2. Text(c \o a) /\ Size(c \o a) = Size(c) + Size(a)
  BY <1>1, TextConcat, EndsConcat
<1> QED
  BY <1>1, <1>2 DEF WithLength, c

LEMMA VarBytesRead ==
  ASSUME NEW a, NEW b, Text(a), Text(b)
  PROVE  VarBytes(WithLength(a) \o b) = [v |-> a, rest |-> b]
<1> DEFINE c == encode_varint(Size(a))
           r == a \o b
<1>1. Text(c) /\ Text(r) /\ Size(a) \in Nat
  BY WithLengthText, TextConcat, EndsFacts
<1>2. (c \o a) \o b = c \o r
  <2> HIDE DEF c
  <2> QED
    BY <1>1, TextAssoc
<1>3. Varint(c \o r) = [v |-> Size(a), rest |-> r]
  <2> HIDE DEF r
  <2> QED
    BY <1>1, VarintRead
<1>4. Bytes(r, Size(a)) = [v |-> a, rest |-> b]
  BY BytesRead
<1> HIDE DEF c, r
<1>5. VarBytes(c \o r) = [v |-> a, rest |-> b]
  BY <1>3, <1>4 DEF VarBytes, OfLength
<1> QED
  BY <1>2, <1>5 DEF WithLength, c, r

-----------------------------------------------------------------------------
(* An input, a token and an output, written and read back. *)

LEMMA Appended ==
  /\ \A a : Append(<<>>, a) = <<a>>
  /\ \A a, b : Append(<<a>>, b) = <<a, b>>
  /\ \A a, b, c : Append(<<a, b>>, c) = <<a, b, c>>
  /\ \A a, b, c, d : Append(<<a, b, c>>, d) = <<a, b, c, d>>
<1>1. \A a : Append(<<>>, a) = <<a>>
  OBVIOUS
<1>2. ASSUME NEW a, NEW b PROVE Append(<<a>>, b) = <<a, b>>
  <2> DEFINE S == {a, b}
             s == <<a>>
             t == <<a, b>>
             u == Append(s, b)
  <2>1. s \in Seq(S) /\ Len(s) = 1 /\ s[1] = a
    OBVIOUS
  <2>2. t \in Seq(S) /\ Len(t) = 2 /\ t[1] = a /\ t[2] = b
    OBVIOUS
  <2>3. b \in S
    OBVIOUS
  <2> HIDE DEF S, s, t
  <2>7. s \in Seq(S)
    BY <2>1
  <2>6. u \in Seq(S) /\ Len(u) = Len(s) + 1 /\ (\A i \in 1..Len(s) : u[i] = s[i]) /\ u[Len(s) + 1] = b
    BY <2>3, <2>7, AppendProperties
  <2> HIDE DEF u
  <2>4. u \in Seq(S) /\ Len(u) = 2 /\ (\A i \in 1..1 : u[i] = s[i]) /\ u[2] = b
    BY <2>1, <2>6
  <2>5. u = t
    BY <2>1, <2>2, <2>4, SeqEqual
  <2> QED
    BY <2>5 DEF u, s, t
<1>3. ASSUME NEW a, NEW b, NEW c PROVE Append(<<a, b>>, c) = <<a, b, c>>
  <2> DEFINE S == {a, b, c}
             s == <<a, b>>
             t == <<a, b, c>>
             u == Append(s, c)
  <2>1. s \in Seq(S) /\ Len(s) = 2 /\ s[1] = a /\ s[2] = b
    OBVIOUS
  <2>2. t \in Seq(S) /\ Len(t) = 3 /\ t[1] = a /\ t[2] = b /\ t[3] = c
    OBVIOUS
  <2>3. c \in S
    OBVIOUS
  <2> HIDE DEF S, s, t
  <2>7. s \in Seq(S)
    BY <2>1
  <2>6. u \in Seq(S) /\ Len(u) = Len(s) + 1 /\ (\A i \in 1..Len(s) : u[i] = s[i]) /\ u[Len(s) + 1] = c
    BY <2>3, <2>7, AppendProperties
  <2> HIDE DEF u
  <2>4. u \in Seq(S) /\ Len(u) = 3 /\ (\A i \in 1..2 : u[i] = s[i]) /\ u[3] = c
    BY <2>1, <2>6
  <2>5. u = t
    BY <2>1, <2>2, <2>4, SeqEqual
  <2> QED
    BY <2>5 DEF u, s, t
<1>4. ASSUME NEW a, NEW b, NEW c, NEW d PROVE Append(<<a, b, c>>, d) = <<a, b, c, d>>
  <2> DEFINE S == {a, b, c, d}
             s == <<a, b, c>>
             t == <<a, b, c, d>>
             u == Append(s, d)
  <2>1. s \in Seq(S) /\ Len(s) = 3 /\ s[1] = a /\ s[2] = b /\ s[3] = c
    OBVIOUS
  <2>2. t \in Seq(S) /\ Len(t) = 4 /\ t[1] = a /\ t[2] = b /\ t[3] = c /\ t[4] = d
    OBVIOUS
  <2>3. d \in S
    OBVIOUS
  <2> HIDE DEF S, s, t
  <2>7. s \in Seq(S)
    BY <2>1
  <2>6. u \in Seq(S) /\ Len(u) = Len(s) + 1 /\ (\A i \in 1..Len(s) : u[i] = s[i]) /\ u[Len(s) + 1] = d
    BY <2>3, <2>7, AppendProperties
  <2> HIDE DEF u
  <2>4. u \in Seq(S) /\ Len(u) = 4 /\ (\A i \in 1..3 : u[i] = s[i]) /\ u[4] = d
    BY <2>1, <2>6
  <2>5. u = t
    BY <2>1, <2>2, <2>4, SeqEqual
  <2> QED
    BY <2>5 DEF u, s, t
<1>5. \A a, b : Append(<<a>>, b) = <<a, b>>
  BY <1>2
<1>6. \A a, b, c : Append(<<a, b>>, c) = <<a, b, c>>
  BY <1>3
<1>7. \A a, b, c, d : Append(<<a, b, c>>, d) = <<a, b, c, d>>
  BY <1>4
<1> QED
  BY <1>1, <1>5, <1>6, <1>7

IsInput(x) ==
    /\ x = [prev |-> x.prev, unlock_script |-> x.unlock_script, sequence |-> x.sequence]
    /\ IsOutpoint(x.prev) /\ Text(x.unlock_script) /\ x.sequence \in Int

IsToken(t) ==
    /\ t = [category |-> t.category, capability |-> t.capability, commitment |-> t.commitment,
            amount |-> t.amount]
    /\ Text(t.category) /\ Size(t.category) = 32
    /\ t.capability \in {NO_CAPABILITY, 1, MINTING} /\ Text(t.commitment) /\ t.amount \in Nat

IsOutput(o) ==
    /\ o = [value |-> o.value, locking_script |-> o.locking_script, token |-> o.token]
    /\ o.value \in Int /\ Text(o.locking_script)
    /\ \/ o.token = <<>> /\ Upto(o.locking_script, 1) # LE(1, 239)
       \/ o.token = <<o.token[1]>> /\ IsToken(o.token[1])

LEMMA IdFacts ==
  ASSUME NEW name
  PROVE  /\ Text(Display(name)) /\ Size(Display(name)) = 32
         /\ Text(Reversed(Display(name))) /\ Size(Reversed(Display(name))) = 32
         /\ Reversed(Reversed(Display(name))) = Display(name)
<1>1. Reversed(Display(name)) = Piece(32, "id", <<name, "wire">>)
  BY DEF Reversed, Display, Piece
<1>2. Reversed(Piece(32, "id", <<name, "wire">>)) = Display(name)
  BY DEF Reversed, Display, Piece
<1>3. Display(name) = Piece(32, "id", <<name, "display">>)
  BY DEF Display
<1>4. \A kind, content : Text(Piece(32, kind, content)) /\ Size(Piece(32, kind, content)) = 32
  BY TextPiece, SizeFacts
<1> HIDE DEF Piece, Display, Reversed
<1> QED
  BY <1>1, <1>2, <1>3, <1>4

LEMMA OutpointText ==
  ASSUME NEW p, IsOutpoint(p)
  PROVE  /\ Text(OutpointBytes(p)) /\ Size(OutpointBytes(p)) = 36
         /\ \A b : Text(b) => OutpointBytes(p) \o b = Reversed(p.txid) \o (LE(4, p.vout) \o b)
         /\ Text(Reversed(p.txid)) /\ Size(Reversed(p.txid)) = 32
         /\ Reversed(Reversed(p.txid)) = p.txid
         /\ p = [txid |-> p.txid, vout |-> p.vout] /\ p.vout \in Nat
<1> DEFINE id == Reversed(p.txid)
           n == LE(4, p.vout)
<1>1. p.txid = Display(NameOf(p.txid)) /\ p.vout \in Nat /\ p = [txid |-> p.txid, vout |-> p.vout]
  BY DEF IsOutpoint
<1>2. Text(id) /\ Size(id) = 32 /\ Reversed(id) = p.txid
  BY <1>1, IdFacts
<1>3. Text(n) /\ Size(n) = 4
  BY LEFacts
<1> HIDE DEF id, n
<1>4. Text(id \o n) /\ Size(id \o n) = 36 /\ \A b : Text(b) => (id \o n) \o b = id \o (n \o b)
  BY <1>2, <1>3, TextConcat, EndsConcat, TextAssoc
<1> QED
  BY <1>1, <1>2, <1>4 DEF OutpointBytes, id, n

LEMMA InputText ==
  ASSUME NEW x, IsInput(x)
  PROVE  /\ Text(InputBytes(x))
         /\ Size(InputBytes(x)) = 40 + Size(WithLength(x.unlock_script))
<1> DEFINE p == OutpointBytes(x.prev)
           u == WithLength(x.unlock_script)
           s == LE(4, x.sequence)
<1>1. Text(p) /\ Text(u) /\ Text(s) /\ Size(p) = 36 /\ Size(s) = 4
  <2>1. IsOutpoint(x.prev) /\ Text(x.unlock_script)
    BY DEF IsInput
  <2>2. Text(p) /\ Size(p) = 36
    BY <2>1, OutpointText
  <2>3. Text(u)
    BY <2>1, WithLengthText
  <2>4. Text(s) /\ Size(s) = 4
    BY LEFacts
  <2> QED
    BY <2>2, <2>3, <2>4
<1> HIDE DEF p, u, s
<1>2. Text(p \o u) /\ Size(p \o u) = 36 + Size(u)
  BY <1>1, TextConcat, EndsConcat
<1>3. Text((p \o u) \o s) /\ Size((p \o u) \o s) = 36 + Size(u) + 4
  BY <1>1, <1>2, TextConcat, EndsConcat
<1>4. Size(u) \in Nat
  BY <1>1, EndsFacts
<1> QED
  BY <1>3, <1>4 DEF InputBytes, p, u, s

LEMMA InputRead ==
  ASSUME NEW x, IsInput(x), NEW b, Text(b)
  PROVE  Input(InputBytes(x) \o b) = [v |-> x, rest |-> b]
<1> DEFINE p == OutpointBytes(x.prev)
           id == Reversed(x.prev.txid)
           n == LE(4, x.prev.vout)
           u == WithLength(x.unlock_script)
           s == LE(4, x.sequence)
           b3 == s \o b
           b2 == u \o b3
           b1 == n \o b2
<1>17. IsOutpoint(x.prev) /\ Text(x.unlock_script) /\ x.sequence \in Int
  BY DEF IsInput
<1>1. /\ Text(p) /\ Text(id) /\ Size(id) = 32 /\ Reversed(id) = x.prev.txid
      /\ x.prev = [txid |-> x.prev.txid, vout |-> x.prev.vout] /\ x.prev.vout \in Nat
  BY <1>17, OutpointText
<1>18. \A c : Text(c) => p \o c = id \o (n \o c)
  BY <1>17, OutpointText
<1>2. Text(n) /\ Text(u) /\ Text(s) /\ Text(x.unlock_script) /\ x.sequence \in Int
  <2>1. Text(u)
    BY <1>17, WithLengthText
  <2>2. Text(n) /\ Text(s)
    BY LEFacts
  <2> QED
    BY <1>17, <2>1, <2>2
<1>3. Text(b3)
  <2> HIDE DEF s
  <2> QED
    BY <1>2, TextConcat
<1>4. Text(b2)
  <2> HIDE DEF u, b3
  <2> QED
    BY <1>2, <1>3, TextConcat
<1>5. Text(b1)
  <2> HIDE DEF n, b2
  <2> QED
    BY <1>2, <1>4, TextConcat
<1>6. InputBytes(x) \o b = id \o b1
  <2>1. InputBytes(x) = (p \o u) \o s
    BY DEF InputBytes
  <2> HIDE DEF p, u, s, n, id
  <2>5. Text(p) /\ Text(u) /\ Text(s)
    BY <1>1, <1>2
  <2>6. Text(p \o u)
    BY <2>5, TextConcat
  <2>2. ((p \o u) \o s) \o b = (p \o u) \o (s \o b)
    <3> DEFINE pu == p \o u
    <3>1. Text(pu)
      BY <2>6
    <3> HIDE DEF pu
    <3>2. (pu \o s) \o b = pu \o (s \o b)
      BY <2>5, <3>1, TextAssoc
    <3> QED
      BY <3>2 DEF pu
  <2>3. (p \o u) \o b3 = p \o (u \o b3)
    <3> HIDE DEF b3
    <3> QED
      BY <1>3, <2>5, TextAssoc
  <2>4. p \o b2 = id \o (n \o b2)
    <3> HIDE DEF b2
    <3> QED
      BY <1>4, <1>18
  <2> QED
    BY <2>1, <2>2, <2>3, <2>4
<1>7. Id(id \o b1) = [v |-> id, rest |-> b1]
  <2> HIDE DEF id, b1
  <2> QED
    BY <1>1, <1>5, BytesRead DEF Id
<1>8. U32(b1) = [v |-> x.prev.vout, rest |-> b2]
  <2> HIDE DEF b2
  <2> QED
    BY <1>1, <1>4, NumRead DEF U32
<1>9. VarBytes(b2) = [v |-> x.unlock_script, rest |-> b3]
  <2> HIDE DEF b3
  <2> QED
    BY <1>2, <1>3, VarBytesRead
<1>10. U32(b3) = [v |-> x.sequence, rest |-> b]
  BY <1>2, NumRead DEF U32
<1> HIDE DEF b1, b2, b3, id, n, u, s, p
<1> DEFINE r1 == Then(From(id \o b1), Id)
           r2 == Then(r1, U32)
           r3 == Then(r2, VarBytes)
           r4 == Then(r3, U32)
<1>11. r1 = [v |-> <<id>>, rest |-> b1]
  BY <1>7, Appended DEF Then, From, Adding
<1> HIDE DEF r1
<1>12. r2 = [v |-> <<id, x.prev.vout>>, rest |-> b2]
  BY <1>8, <1>11, Appended DEF Then, Adding
<1> HIDE DEF r2
<1>13. r3 = [v |-> <<id, x.prev.vout, x.unlock_script>>, rest |-> b3]
  BY <1>9, <1>12, Appended DEF Then, Adding
<1> HIDE DEF r3
<1>14. r4 = [v |-> <<id, x.prev.vout, x.unlock_script, x.sequence>>, rest |-> b]
  BY <1>10, <1>13, Appended DEF Then, Adding
<1> HIDE DEF r4
<1>15. InputOf(<<id, x.prev.vout, x.unlock_script, x.sequence>>) = x
  <2>1. InputOf(<<id, x.prev.vout, x.unlock_script, x.sequence>>)
           = [prev |-> [txid |-> Reversed(id), vout |-> x.prev.vout],
              unlock_script |-> x.unlock_script, sequence |-> x.sequence]
    BY DEF InputOf
  <2>2. x = [prev |-> x.prev, unlock_script |-> x.unlock_script, sequence |-> x.sequence]
    BY DEF IsInput
  <2> QED
    BY <1>1, <2>1, <2>2
<1>16. Input(id \o b1) = [v |-> InputOf(r4.v), rest |-> r4.rest]
  BY DEF Input, As, r1, r2, r3, r4
<1> QED
  BY <1>6, <1>14, <1>15, <1>16

(* What the bits of a token prefix say. *)
LEMMA TokenBits ==
  ASSUME NEW cap \in {NO_CAPABILITY, 1, MINTING}, NEW commits \in BOOLEAN, NEW amount \in Nat,
         NEW bits, bits = (IF cap # NO_CAPABILITY \/ commits THEN 32 + cap ELSE 0)
                          + (IF commits THEN 64 ELSE 0) + (IF amount > 0 THEN 16 ELSE 0)
  PROVE  /\ bits \in Nat /\ bits % 16 = cap
         /\ ((bits \div 64) % 2 = 1) <=> commits
         /\ ((bits \div 16) % 2 = 1) <=> (amount > 0)
<1>1. cap \in {0, 1, 2}
  BY DEF NO_CAPABILITY, MINTING
<1> DEFINE nft == IF cap # 0 \/ commits THEN 32 + cap ELSE 0
           c == IF commits THEN 64 ELSE 0
           a == IF amount > 0 THEN 16 ELSE 0
<1>2. bits = nft + c + a
  BY DEF NO_CAPABILITY
<1>3. nft \in {0, 32, 33, 34} /\ (nft = 0 => cap = 0 /\ ~commits) /\ (nft # 0 => nft = 32 + cap)
  BY <1>1
<1>4. c \in {0, 64} /\ (c = 64 <=> commits) /\ a \in {0, 16} /\ (a = 16 <=> amount > 0)
  OBVIOUS
<1> HIDE DEF nft, c, a
<1>5. bits \in {0, 16, 32, 33, 34, 48, 49, 50, 64, 80, 96, 97, 98, 112, 113, 114}
  BY <1>2, <1>3, <1>4
<1>6. bits \in Nat /\ bits % 16 = cap
  BY <1>1, <1>2, <1>3, <1>4
<1>7. (bits \div 64) % 2 = 1 <=> commits
  BY <1>1, <1>2, <1>3, <1>4
<1>8. (bits \div 16) % 2 = 1 <=> amount > 0
  BY <1>1, <1>2, <1>3, <1>4
<1> QED
  BY <1>6, <1>7, <1>8

LEMMA TokenRead ==
  ASSUME NEW t, IsToken(t), NEW lock, Text(lock)
  PROVE  /\ Text(encode_token_prefix(t))
         /\ Upto(encode_token_prefix(t) \o lock, 1) = LE(1, 239)
         /\ TokenOf(encode_token_prefix(t) \o lock) = [v |-> t, rest |-> lock]
<1> DEFINE commits == t.commitment # <<>>
           bits == (IF t.capability # NO_CAPABILITY \/ commits THEN 32 + t.capability ELSE 0)
                   + (IF commits THEN 64 ELSE 0) + (IF t.amount > 0 THEN 16 ELSE 0)
           mark == LE(1, 239)
           cat == t.category
           flag == LE(1, bits)
           comm == IF commits THEN WithLength(t.commitment) ELSE <<>>
           amt == IF t.amount > 0 THEN encode_varint(t.amount) ELSE <<>>
           b4 == amt \o lock
           b3 == comm \o b4
           b2 == flag \o b3
           b1 == cat \o b2
<1>1. /\ Text(cat) /\ Size(cat) = 32 /\ t.capability \in {NO_CAPABILITY, 1, MINTING}
      /\ Text(t.commitment) /\ t.amount \in Nat
  BY DEF IsToken
<1>2. /\ bits \in Nat /\ bits % 16 = t.capability
      /\ ((bits \div 64) % 2 = 1) <=> commits
      /\ ((bits \div 16) % 2 = 1) <=> (t.amount > 0)
  <2>1. commits \in BOOLEAN
    OBVIOUS
  <2> HIDE DEF commits
  <2> QED
    BY <1>1, <2>1, TokenBits
<1>3. encode_token_prefix(t) = (((mark \o cat) \o flag) \o comm) \o amt
  BY DEF encode_token_prefix
<1>4. Text(mark) /\ Size(mark) = 1 /\ Text(flag)
  <2> HIDE DEF bits
  <2> QED
    BY LEFacts
<1>5. Text(comm)
  BY <1>1, WithLengthText, TextEmpty
<1>6. Text(amt)
  BY <1>1, VarintText, TextEmpty
<1> HIDE DEF mark, bits, flag, comm, amt, cat
<1>7. Text(b4)
  BY <1>6, TextConcat
<1> HIDE DEF b4
<1>8. Text(b3)
  BY <1>5, <1>7, TextConcat
<1> HIDE DEF b3
<1>9. Text(b2)
  BY <1>4, <1>8, TextConcat
<1> HIDE DEF b2
<1>10. Text(b1)
  BY <1>1, <1>9, TextConcat
<1> HIDE DEF b1
<1>11. Text(encode_token_prefix(t)) /\ encode_token_prefix(t) \o lock = mark \o b1
  <2> DEFINE d1 == mark \o cat
             d2 == d1 \o flag
             d3 == d2 \o comm
             d4 == d3 \o amt
  <2>0. Text(cat) /\ Text(lock)
    BY <1>1
  <2>1. Text(d1)
    BY <2>0, <1>4, TextConcat
  <2> HIDE DEF d1
  <2>2. Text(d2)
    BY <2>1, <1>4, TextConcat
  <2> HIDE DEF d2
  <2>3. Text(d3)
    BY <2>2, <1>5, TextConcat
  <2> HIDE DEF d3
  <2>4. Text(d4)
    BY <2>3, <1>6, TextConcat
  <2>5. d4 \o lock = d3 \o b4
    BY <2>0, <2>3, <1>6, TextAssoc DEF b4
  <2>6. d3 \o b4 = d2 \o b3
    BY <2>2, <1>5, <1>7, TextAssoc DEF d3, b3
  <2>7. d2 \o b3 = d1 \o b2
    BY <2>1, <1>4, <1>8, TextAssoc DEF d2, b2
  <2>8. d1 \o b2 = mark \o b1
    BY <2>0, <1>4, <1>9, TextAssoc DEF d1, b1
  <2>9. encode_token_prefix(t) = d4
    BY <1>3 DEF d1, d2, d3
  <2> HIDE DEF d4
  <2> QED
    BY <2>4, <2>5, <2>6, <2>7, <2>8, <2>9
<1>12. Upto(mark \o b1, 1) = mark /\ After(mark \o b1, 1) = b1
  <2>1. Upto(mark \o b1, Size(mark)) = mark /\ After(mark \o b1, Size(mark)) = b1
    BY <1>4, <1>10, Cut
  <2> QED
    BY <1>4, <2>1
<1>13. Id(b1) = [v |-> cat, rest |-> b2]
  BY <1>1, <1>9, BytesRead DEF Id, b1
<1>14. U8(b2) = [v |-> bits, rest |-> b3]
  BY <1>2, <1>8, NumRead DEF U8, b2, flag
<1>15. commits => VarBytes(b3) = [v |-> t.commitment, rest |-> b4]
  <2> SUFFICES ASSUME commits PROVE VarBytes(b3) = [v |-> t.commitment, rest |-> b4]
    OBVIOUS
  <2>1. b3 = WithLength(t.commitment) \o b4
    BY DEF b3, comm
  <2> QED
    BY <2>1, <1>1, <1>7, VarBytesRead
<1>16. ~commits => t.commitment = <<>> /\ b3 = b4
  BY <1>7, TextEmpty DEF b3, comm
<1>17. t.amount > 0 => Varint(b4) = [v |-> t.amount, rest |-> lock]
  <2> SUFFICES ASSUME t.amount > 0 PROVE Varint(b4) = [v |-> t.amount, rest |-> lock]
    OBVIOUS
  <2>1. b4 = encode_varint(t.amount) \o lock
    BY DEF b4, amt
  <2> QED
    BY <2>1, <1>1, VarintRead
<1>18. ~(t.amount > 0) => t.amount = 0 /\ b4 = lock
  <2> SUFFICES ASSUME ~(t.amount > 0) PROVE t.amount = 0 /\ b4 = lock
    OBVIOUS
  <2>1. t.amount = 0
    BY <1>1
  <2>2. b4 = <<>> \o lock
    BY DEF b4, amt
  <2> QED
    BY <2>1, <2>2, TextEmpty
<1> HIDE DEF commits
<1> DEFINE r1 == Then(From(b1), Id)
           r2 == Then(r1, U8)
           r3 == IfBit(r2, 64, VarBytes, <<>>)
           r4 == IfBit(r3, 16, Varint, 0)
<1>19. r1 = [v |-> <<cat>>, rest |-> b2]
  BY <1>13, Appended DEF Then, From, Adding
<1> HIDE DEF r1
<1>20. r2 = [v |-> <<cat, bits>>, rest |-> b3]
  BY <1>14, <1>19, Appended DEF Then, Adding
<1> HIDE DEF r2
<1>21. r3 = [v |-> <<cat, bits, t.commitment>>, rest |-> b4]
  <2>0. r2.v = <<cat, bits>> /\ r2.rest = b3 /\ r2.v[2] = bits
    BY <1>20
  <2>1. CASE commits
    <3>1. (r2.v[2] \div 64) % 2 = 1
      BY <1>2, <2>0, <2>1
    <3>2. r3 = Then(r2, VarBytes)
      BY <3>1 DEF IfBit
    <3>3. VarBytes(r2.rest) = [v |-> t.commitment, rest |-> b4]
      BY <1>15, <2>0, <2>1
    <3>4. Then(r2, VarBytes) = [v |-> Append(r2.v, t.commitment), rest |-> b4]
      BY <3>3 DEF Then, Adding
    <3>5. Append(<<cat, bits>>, t.commitment) = <<cat, bits, t.commitment>>
      BY Appended
    <3> QED
      BY <2>0, <3>2, <3>4, <3>5
  <2>2. CASE ~commits
    <3>1. ~((r2.v[2] \div 64) % 2 = 1)
      BY <1>2, <2>0, <2>2
    <3>2. r3 = Adding(r2.v, [v |-> <<>>, rest |-> r2.rest])
      BY <3>1 DEF IfBit
    <3>3. r3 = [v |-> Append(r2.v, <<>>), rest |-> r2.rest]
      BY <3>2 DEF Adding
    <3>4. t.commitment = <<>> /\ b3 = b4
      BY <1>16, <2>2
    <3>5. Append(<<cat, bits>>, t.commitment) = <<cat, bits, t.commitment>>
      BY Appended
    <3> HIDE DEF r3
    <3> QED
      BY <2>0, <3>3, <3>4, <3>5
  <2> QED
    BY <2>1, <2>2
<1> HIDE DEF r3
<1>22. r4 = [v |-> <<cat, bits, t.commitment, t.amount>>, rest |-> lock]
  <2>0. r3.v = <<cat, bits, t.commitment>> /\ r3.rest = b4 /\ r3.v[2] = bits
    BY <1>21
  <2>9. Append(<<cat, bits, t.commitment>>, t.amount) = <<cat, bits, t.commitment, t.amount>>
    BY Appended
  <2>1. CASE t.amount > 0
    <3>1. (r3.v[2] \div 16) % 2 = 1
      BY <1>2, <2>0, <2>1
    <3>2. r4 = Then(r3, Varint)
      BY <3>1 DEF IfBit
    <3>3. Varint(r3.rest) = [v |-> t.amount, rest |-> lock]
      BY <1>17, <2>0, <2>1
    <3>4. Then(r3, Varint) = [v |-> Append(r3.v, t.amount), rest |-> lock]
      BY <3>3 DEF Then, Adding
    <3> QED
      BY <2>0, <2>9, <3>2, <3>4
  <2>2. CASE ~(t.amount > 0)
    <3>1. ~((r3.v[2] \div 16) % 2 = 1)
      BY <1>2, <2>0, <2>2
    <3>2. r4 = Adding(r3.v, [v |-> 0, rest |-> r3.rest])
      BY <3>1 DEF IfBit
    <3>3. r4 = [v |-> Append(r3.v, 0), rest |-> r3.rest]
      BY <3>2 DEF Adding
    <3>4. t.amount = 0 /\ b4 = lock
      BY <1>18, <2>2
    <3> HIDE DEF r4
    <3> QED
      BY <2>0, <2>9, <3>3, <3>4
  <2> QED
    BY <2>1, <2>2
<1> HIDE DEF r4
<1>23. TokenFrom(<<cat, bits, t.commitment, t.amount>>) = t
  <2>1. TokenFrom(<<cat, bits, t.commitment, t.amount>>)
           = [category |-> cat, capability |-> bits % 16, commitment |-> t.commitment, amount |-> t.amount]
    BY DEF TokenFrom
  <2>2. t = [category |-> t.category, capability |-> t.capability, commitment |-> t.commitment,
             amount |-> t.amount]
    BY DEF IsToken
  <2> QED
    BY <1>2, <2>1, <2>2 DEF cat
<1>24. TokenOf(mark \o b1) = [v |-> TokenFrom(r4.v), rest |-> r4.rest]
  BY <1>12 DEF TokenOf, As, r1, r2, r3, r4
<1>25. TokenOf(mark \o b1) = [v |-> t, rest |-> lock]
  BY <1>22, <1>23, <1>24
<1> QED
  BY <1>11, <1>12, <1>25 DEF mark

LEMMA EachOfFew ==
  /\ [i \in DOMAIN <<>> |-> encode_token_prefix(<<>>[i])] = <<>>
  /\ \A t : [i \in DOMAIN <<t>> |-> encode_token_prefix(<<t>>[i])] = <<encode_token_prefix(t)>>
<1>1. [i \in DOMAIN <<>> |-> encode_token_prefix(<<>>[i])] = <<>>
  <2> DEFINE e == [i \in DOMAIN <<>> |-> encode_token_prefix(<<>>[i])]
  <2>1. e = [i \in 1..0 |-> e[i]]
    OBVIOUS
  <2> HIDE DEF e
  <2>2. Len(e) = 0 /\ e \in Seq({e[i] : i \in 1..0})
    BY <2>1, FunctionIsSeq
  <2>3. e = <<>>
    BY <2>2, EmptySeq
  <2> QED
    BY <2>3 DEF e
<1>2. ASSUME NEW t PROVE [i \in DOMAIN <<t>> |-> encode_token_prefix(<<t>>[i])] = <<encode_token_prefix(t)>>
  <2> DEFINE s == <<t>>
             p == encode_token_prefix(t)
  <2>1. DOMAIN s = 1..1 /\ s[1] = t
    OBVIOUS
  <2>2. <<p>> = [i \in 1..1 |-> p]
    <3> HIDE DEF p
    <3> QED
      OBVIOUS
  <2> HIDE DEF s
  <2>3. [i \in DOMAIN s |-> encode_token_prefix(s[i])] = [i \in 1..1 |-> p]
    BY <2>1
  <2> HIDE DEF p
  <2>4. [i \in DOMAIN s |-> encode_token_prefix(s[i])] = <<p>>
    BY <2>2, <2>3
  <2> QED
    BY <2>4 DEF s, p
<1> QED
  BY <1>1, <1>2

LEMMA ScriptRead ==
  ASSUME NEW o, IsOutput(o)
  PROVE  /\ Text(output_script_bytes(o))
         /\ OutputOf(<<o.value, output_script_bytes(o)>>) = o
<1> DEFINE lock == o.locking_script
           script == output_script_bytes(o)
           f == <<o.value, script>>
<1>1. /\ o = [value |-> o.value, locking_script |-> o.locking_script, token |-> o.token]
      /\ Text(lock)
      /\ \/ o.token = <<>> /\ Upto(lock, 1) # LE(1, 239)
         \/ o.token = <<o.token[1]>> /\ IsToken(o.token[1])
  BY DEF IsOutput
<1>2. f[1] = o.value /\ f[2] = script
  <2> HIDE DEF script
  <2> QED
    OBVIOUS
<1>3. CASE o.token = <<>> /\ Upto(lock, 1) # LE(1, 239)
  <2>1. script = <<>> \o lock
    <3>1. Each(encode_token_prefix, <<>>) = <<>>
      BY EachOfFew, FlattenOne DEF Each
    <3> QED
      BY <1>3, <3>1 DEF output_script_bytes
  <2>2. script = lock
    BY <1>1, <2>1, TextEmpty
  <2> HIDE DEF script, f
  <2>3. OutputOf(f) = [value |-> o.value, locking_script |-> lock, token |-> <<>>]
    BY <1>2, <1>3, <2>2 DEF OutputOf
  <2> QED
    BY <1>1, <1>3, <2>2, <2>3 DEF script, f
<1>4. CASE o.token = <<o.token[1]>> /\ IsToken(o.token[1])
  <2> DEFINE t == o.token[1]
             p == encode_token_prefix(t)
  <2>1. script = p \o lock
    <3>1. Each(encode_token_prefix, <<t>>) = p
      <4>1. [i \in DOMAIN <<t>> |-> encode_token_prefix(<<t>>[i])] = <<p>>
        <5> HIDE DEF t
        <5> QED
          BY EachOfFew
      <4>2. FlattenSeq(<<p>>) = p
        <5> HIDE DEF p
        <5> QED
          BY FlattenOne
      <4> QED
        BY <4>1, <4>2 DEF Each
    <3>2. o.token = <<t>>
      BY <1>4
    <3>3. script = Each(encode_token_prefix, o.token) \o lock
      BY DEF output_script_bytes
    <3> QED
      BY <3>1, <3>2, <3>3
  <2>2. /\ Text(p) /\ Upto(p \o lock, 1) = LE(1, 239)
        /\ TokenOf(p \o lock) = [v |-> t, rest |-> lock]
    BY <1>1, <1>4, TokenRead
  <2>3. Text(p \o lock)
    <3> HIDE DEF p
    <3> QED
      BY <1>1, <2>2, TextConcat
  <2>4. o.token = <<t>>
    BY <1>4
  <2> HIDE DEF script, f, p, t
  <2>5. OutputOf(f) = Holding(o.value, TokenOf(p \o lock))
    BY <1>2, <2>1, <2>2 DEF OutputOf
  <2>6. Holding(o.value, TokenOf(p \o lock)) = [value |-> o.value, locking_script |-> lock, token |-> <<t>>]
    BY <2>2 DEF Holding
  <2> QED
    BY <1>1, <2>1, <2>3, <2>4, <2>5, <2>6 DEF script, f
<1> QED
  BY <1>1, <1>3, <1>4

LEMMA OutputText ==
  ASSUME NEW o, IsOutput(o)
  PROVE  /\ Text(OutputBytes(o))
         /\ Size(OutputBytes(o)) = 8 + Size(WithLength(output_script_bytes(o)))
<1> DEFINE n == LE(8, o.value)
           s == WithLength(output_script_bytes(o))
<1>1. Text(n) /\ Size(n) = 8
  BY LEFacts
<1>2. Text(s)
  BY ScriptRead, WithLengthText
<1>3. OutputBytes(o) = n \o s
  BY DEF OutputBytes
<1> HIDE DEF n, s
<1>4. Text(n \o s) /\ Size(n \o s) = 8 + Size(s)
  BY <1>1, <1>2, TextConcat, EndsConcat
<1> QED
  BY <1>3, <1>4 DEF s

LEMMA OutputRead ==
  ASSUME NEW o, IsOutput(o), NEW b, Text(b)
  PROVE  Output(OutputBytes(o) \o b) = [v |-> o, rest |-> b]
<1> DEFINE n == LE(8, o.value)
           script == output_script_bytes(o)
           s == WithLength(script)
           b1 == s \o b
<1>1. Text(n) /\ Text(script) /\ OutputOf(<<o.value, script>>) = o /\ o.value \in Int
  <2>1. Text(n)
    BY LEFacts
  <2>2. o.value \in Int
    BY DEF IsOutput
  <2>3. Text(script) /\ OutputOf(<<o.value, script>>) = o
    BY ScriptRead
  <2> QED
    BY <2>1, <2>2, <2>3
<1>2. Text(s)
  BY <1>1, WithLengthText
<1>3. Text(b1)
  <2> HIDE DEF s
  <2> QED
    BY <1>2, TextConcat
<1>4. OutputBytes(o) \o b = n \o b1
  <2>1. OutputBytes(o) = n \o s
    BY DEF OutputBytes
  <2> HIDE DEF n, s
  <2> QED
    BY <1>1, <1>2, <2>1, TextAssoc
<1>5. U64(n \o b1) = [v |-> o.value, rest |-> b1]
  <2> HIDE DEF b1
  <2> QED
    BY <1>1, <1>3, NumRead DEF U64
<1>6. VarBytes(b1) = [v |-> script, rest |-> b]
  <2> HIDE DEF script
  <2> QED
    BY <1>1, VarBytesRead
<1> HIDE DEF n, b1, s, script
<1> DEFINE r1 == Then(From(n \o b1), U64)
           r2 == Then(r1, VarBytes)
<1>7. r1 = [v |-> <<o.value>>, rest |-> b1]
  BY <1>5, Appended DEF Then, From, Adding
<1> HIDE DEF r1
<1>8. r2 = [v |-> <<o.value, script>>, rest |-> b]
  BY <1>6, <1>7, Appended DEF Then, Adding
<1> HIDE DEF r2
<1>9. Output(n \o b1) = [v |-> OutputOf(r2.v), rest |-> r2.rest]
  BY DEF Output, As, r1, r2
<1> QED
  BY <1>1, <1>4, <1>8, <1>9 DEF script

-----------------------------------------------------------------------------
(* As many items as the count in front says. *)

LEMMA FirstItems ==
  ASSUME NEW s, NEW n \in Nat, s = [i \in 1..n |-> s[i]]
  PROVE  /\ SubSeq(s, 1, 0) = <<>> /\ SubSeq(s, 1, n) = s
         /\ \A i \in 1..n : SubSeq(s, 1, i) = Append(SubSeq(s, 1, i - 1), s[i])
<1> DEFINE S == {s[i] : i \in 1..n}
<1>1. s \in Seq(S) /\ Len(s) = n
  BY FunctionIsSeq
<1>2. \A i \in 1..n : s[i] \in S
  OBVIOUS
<1> HIDE DEF S
<1>3. SubSeq(s, 1, 0) = <<>>
  BY SubSeqEmpty
<1>4. SubSeq(s, 1, n) = s
  BY <1>1, SubSeqFull
<1>5. ASSUME NEW i \in 1..n PROVE SubSeq(s, 1, i) = Append(SubSeq(s, 1, i - 1), s[i])
  <2> DEFINE p == SubSeq(s, 1, i - 1)
  <2>1. SubSeq(s, 1, i) = p \o <<s[i]>>
    BY <1>1, SubSeqRecursiveSecond
  <2>2. p \in Seq(S)
    <3>1. \A j \in 1..(i - 1) : s[j] \in S
      BY <1>2
    <3> QED
      BY <3>1, SubSeqProperties
  <2> HIDE DEF p
  <2>3. Append(p, s[i]) = p \o <<s[i]>>
    BY <1>2, <2>2, AppendIsConcat
  <2> QED
    BY <2>1, <2>3 DEF p
<1> QED
  BY <1>3, <1>4, <1>5

(* The inputs behind their count. *)
LEMMA InputsRead ==
  ASSUME NEW s, NEW n \in Nat, s = [i \in 1..n |-> s[i]], \A i \in 1..n : IsInput(s[i]), NEW b, Text(b)
  PROVE  /\ Text(Each(InputBytes, s))
         /\ Inputs(encode_varint(n) \o (Each(InputBytes, s) \o b)) = [v |-> s, rest |-> b]
<1> DEFINE e == [i \in DOMAIN s |-> InputBytes(s[i])]
<1>1. /\ DOMAIN s = 1..n /\ Len(s) = n
      /\ e = [i \in 1..n |-> e[i]] /\ \A i \in 1..n : e[i] = InputBytes(s[i])
  <2>1. DOMAIN s = 1..n /\ Len(s) = n
    BY FunctionIsSeq
  <2> QED
    BY <2>1
<1>2. Each(InputBytes, s) = FlattenSeq(e)
  BY DEF Each
<1> HIDE DEF e
<1>3. \A i \in 1..n : Text(e[i])
  BY <1>1, InputText
<1>4. PICK tail : /\ \A i \in 0..n : Text(tail[i])
                  /\ tail[n] = <<>>
                  /\ \A i \in 1..n : tail[i - 1] = e[i] \o tail[i]
                  /\ tail[0] = FlattenSeq(e)
  BY <1>1, <1>3, FlattenTails
<1> DEFINE left(i) == tail[i] \o b
<1>5. \A i \in 0..n : Text(left(i))
  <2> TAKE i \in 0..n
  <2> DEFINE t == tail[i]
  <2>1. Text(t)
    BY <1>4
  <2> HIDE DEF t
  <2>2. Text(t \o b)
    BY <2>1, TextConcat
  <2> QED
    BY <2>2 DEF t
<1>6. left(n) = b
  BY <1>4, TextEmpty
<1>7. \A i \in 1..n : left(i - 1) = InputBytes(s[i]) \o left(i)
  <2> TAKE i \in 1..n
  <2> DEFINE x == e[i]
             t == tail[i]
  <2>1. Text(x) /\ Text(t) /\ tail[i - 1] = x \o t /\ x = InputBytes(s[i])
    BY <1>1, <1>3, <1>4
  <2> HIDE DEF x, t
  <2>2. (x \o t) \o b = x \o (t \o b)
    BY <2>1, TextAssoc
  <2> QED
    BY <2>1, <2>2 DEF t
<1>8. Each(InputBytes, s) \o b = left(0) /\ Text(Each(InputBytes, s))
  <2>1. 0 \in 0..n
    OBVIOUS
  <2> QED
    BY <1>2, <1>4, <2>1
<1> HIDE DEF left
<1> DEFINE count == Varint(encode_varint(n) \o left(0))
<1>9. count = [v |-> n, rest |-> left(0)]
  <2> DEFINE c == left(0)
  <2>1. Text(c)
    BY <1>5
  <2> HIDE DEF c
  <2>2. Varint(encode_varint(n) \o c) = [v |-> n, rest |-> c]
    BY <2>1, VarintRead
  <2> QED
    BY <2>2 DEF c
<1> HIDE DEF count
<1> DEFINE F(g) == [i \in 0..count.v |-> IF i = 0 THEN From(count.rest) ELSE Then(g[i - 1], Input)]
           read == CHOOSE g : g = F(g)
           G == [i \in 0..n |-> [v |-> SubSeq(s, 1, i), rest |-> left(i)]]
<1>10. ASSUME NEW i \in 1..n
       PROVE  Then([v |-> SubSeq(s, 1, i - 1), rest |-> left(i - 1)], Input)
                 = [v |-> SubSeq(s, 1, i), rest |-> left(i)]
  <2> DEFINE x == s[i]
             l == left(i)
             p == SubSeq(s, 1, i - 1)
  <2>1. IsInput(x) /\ Text(l) /\ left(i - 1) = InputBytes(x) \o l
    BY <1>5, <1>7
  <2>2. SubSeq(s, 1, i) = Append(p, x)
    BY FirstItems
  <2> HIDE DEF x, l, p
  <2>3. Input(left(i - 1)) = [v |-> x, rest |-> l]
    BY <2>1, InputRead
  <2> DEFINE r == [v |-> p, rest |-> left(i - 1)]
  <2>5. r.v = p /\ r.rest = left(i - 1)
    OBVIOUS
  <2> HIDE DEF r
  <2>4. Then(r, Input) = [v |-> Append(p, x), rest |-> l]
    BY <2>3, <2>5 DEF Then, Adding
  <2> QED
    BY <2>2, <2>4 DEF p, l, r
<1>11. From(left(0)) = [v |-> SubSeq(s, 1, 0), rest |-> left(0)]
  BY FirstItems DEF From
<1>12. \A i \in 0..n : G[i] = [v |-> SubSeq(s, 1, i), rest |-> left(i)]
  OBVIOUS
<1>13. G = F(G)
  <2>1. \A i \in 0..n : G[i] = IF i = 0 THEN From(left(0)) ELSE Then(G[i - 1], Input)
    <3> TAKE i \in 0..n
    <3>1. CASE i = 0
      BY <1>11, <1>12, <3>1
    <3>2. CASE i # 0
      <4>1. i \in 1..n /\ i - 1 \in 0..n
        BY <3>2
      <4>2. G[i - 1] = [v |-> SubSeq(s, 1, i - 1), rest |-> left(i - 1)]
        BY <1>12, <4>1
      <4>3. Then(G[i - 1], Input) = [v |-> SubSeq(s, 1, i), rest |-> left(i)]
        BY <1>10, <4>1, <4>2
      <4> QED
        BY <1>12, <3>2, <4>3
    <3> QED
      BY <3>1, <3>2
  <2>2. count.v = n /\ count.rest = left(0)
    BY <1>9
  <2>3. G = [i \in 0..n |-> G[i]]
    OBVIOUS
  <2> HIDE DEF G
  <2> QED
    BY <2>1, <2>2, <2>3
<1>14. read = F(read)
  <2>1. \E g : g = F(g)
    <3> HIDE DEF F, G
    <3> QED
      BY <1>13
  <2> HIDE DEF F
  <2> QED
    BY <2>1
<1>15. Several(Input, count) = read[n]
  BY <1>9 DEF Several
<1> HIDE DEF read
<1>16. \A i \in 0..n : read[i] = IF i = 0 THEN From(left(0)) ELSE Then(read[i - 1], Input)
  BY <1>9, <1>14
<1> DEFINE P == {i \in Nat : i <= n => read[i] = [v |-> SubSeq(s, 1, i), rest |-> left(i)]}
<1>17. 0 \in P
  BY <1>11, <1>16
<1>18. ASSUME NEW i \in P PROVE i + 1 \in P
  <2> SUFFICES ASSUME i + 1 <= n PROVE read[i + 1] = [v |-> SubSeq(s, 1, i + 1), rest |-> left(i + 1)]
    OBVIOUS
  <2> DEFINE j == i + 1
  <2>1. j \in 1..n /\ j \in 0..n /\ j # 0 /\ j - 1 = i /\ i <= n
    OBVIOUS
  <2>2. read[i] = [v |-> SubSeq(s, 1, i), rest |-> left(i)]
    BY <2>1
  <2> HIDE DEF j
  <2>3. read[j] = Then(read[i], Input)
    BY <1>16, <2>1
  <2>4. Then([v |-> SubSeq(s, 1, i), rest |-> left(i)], Input) = [v |-> SubSeq(s, 1, j), rest |-> left(j)]
    BY <1>10, <2>1
  <2> QED
    BY <2>2, <2>3, <2>4 DEF j
<1>19. P = Nat
  <2> HIDE DEF P
  <2>1. P \in SUBSET Nat
    BY DEF P
  <2> QED
    BY <1>17, <1>18, <2>1, NatInductive
<1>20. read[n] = [v |-> s, rest |-> b]
  <2>1. n \in P
    BY <1>19
  <2>2. read[n] = [v |-> SubSeq(s, 1, n), rest |-> left(n)]
    BY <2>1
  <2>3. SubSeq(s, 1, n) = s
    BY FirstItems
  <2> QED
    BY <1>6, <2>2, <2>3
<1>21. Inputs(encode_varint(n) \o left(0)) = Several(Input, count)
  BY DEF Inputs, Counted, count
<1> QED
  BY <1>8, <1>15, <1>20, <1>21

(* The outputs behind theirs. *)
LEMMA OutputsRead ==
  ASSUME NEW s, NEW n \in Nat, s = [i \in 1..n |-> s[i]], \A i \in 1..n : IsOutput(s[i]), NEW b, Text(b)
  PROVE  /\ Text(Each(OutputBytes, s))
         /\ Outputs(encode_varint(n) \o (Each(OutputBytes, s) \o b)) = [v |-> s, rest |-> b]
<1> DEFINE e == [i \in DOMAIN s |-> OutputBytes(s[i])]
<1>1. /\ DOMAIN s = 1..n /\ Len(s) = n
      /\ e = [i \in 1..n |-> e[i]] /\ \A i \in 1..n : e[i] = OutputBytes(s[i])
  <2>1. DOMAIN s = 1..n /\ Len(s) = n
    BY FunctionIsSeq
  <2> QED
    BY <2>1
<1>2. Each(OutputBytes, s) = FlattenSeq(e)
  BY DEF Each
<1> HIDE DEF e
<1>3. \A i \in 1..n : Text(e[i])
  BY <1>1, OutputText
<1>4. PICK tail : /\ \A i \in 0..n : Text(tail[i])
                  /\ tail[n] = <<>>
                  /\ \A i \in 1..n : tail[i - 1] = e[i] \o tail[i]
                  /\ tail[0] = FlattenSeq(e)
  BY <1>1, <1>3, FlattenTails
<1> DEFINE left(i) == tail[i] \o b
<1>5. \A i \in 0..n : Text(left(i))
  <2> TAKE i \in 0..n
  <2> DEFINE t == tail[i]
  <2>1. Text(t)
    BY <1>4
  <2> HIDE DEF t
  <2>2. Text(t \o b)
    BY <2>1, TextConcat
  <2> QED
    BY <2>2 DEF t
<1>6. left(n) = b
  BY <1>4, TextEmpty
<1>7. \A i \in 1..n : left(i - 1) = OutputBytes(s[i]) \o left(i)
  <2> TAKE i \in 1..n
  <2> DEFINE x == e[i]
             t == tail[i]
  <2>1. Text(x) /\ Text(t) /\ tail[i - 1] = x \o t /\ x = OutputBytes(s[i])
    BY <1>1, <1>3, <1>4
  <2> HIDE DEF x, t
  <2>2. (x \o t) \o b = x \o (t \o b)
    BY <2>1, TextAssoc
  <2> QED
    BY <2>1, <2>2 DEF t
<1>8. Each(OutputBytes, s) \o b = left(0) /\ Text(Each(OutputBytes, s))
  <2>1. 0 \in 0..n
    OBVIOUS
  <2> QED
    BY <1>2, <1>4, <2>1
<1> HIDE DEF left
<1> DEFINE count == Varint(encode_varint(n) \o left(0))
<1>9. count = [v |-> n, rest |-> left(0)]
  <2> DEFINE c == left(0)
  <2>1. Text(c)
    BY <1>5
  <2> HIDE DEF c
  <2>2. Varint(encode_varint(n) \o c) = [v |-> n, rest |-> c]
    BY <2>1, VarintRead
  <2> QED
    BY <2>2 DEF c
<1> HIDE DEF count
<1> DEFINE F(g) == [i \in 0..count.v |-> IF i = 0 THEN From(count.rest) ELSE Then(g[i - 1], Output)]
           read == CHOOSE g : g = F(g)
           G == [i \in 0..n |-> [v |-> SubSeq(s, 1, i), rest |-> left(i)]]
<1>10. ASSUME NEW i \in 1..n
       PROVE  Then([v |-> SubSeq(s, 1, i - 1), rest |-> left(i - 1)], Output)
                 = [v |-> SubSeq(s, 1, i), rest |-> left(i)]
  <2> DEFINE x == s[i]
             l == left(i)
             p == SubSeq(s, 1, i - 1)
  <2>1. IsOutput(x) /\ Text(l) /\ left(i - 1) = OutputBytes(x) \o l
    BY <1>5, <1>7
  <2>2. SubSeq(s, 1, i) = Append(p, x)
    BY FirstItems
  <2> HIDE DEF x, l, p
  <2>3. Output(left(i - 1)) = [v |-> x, rest |-> l]
    BY <2>1, OutputRead
  <2> DEFINE r == [v |-> p, rest |-> left(i - 1)]
  <2>5. r.v = p /\ r.rest = left(i - 1)
    OBVIOUS
  <2> HIDE DEF r
  <2>4. Then(r, Output) = [v |-> Append(p, x), rest |-> l]
    BY <2>3, <2>5 DEF Then, Adding
  <2> QED
    BY <2>2, <2>4 DEF p, l, r
<1>11. From(left(0)) = [v |-> SubSeq(s, 1, 0), rest |-> left(0)]
  BY FirstItems DEF From
<1>12. \A i \in 0..n : G[i] = [v |-> SubSeq(s, 1, i), rest |-> left(i)]
  OBVIOUS
<1>13. G = F(G)
  <2>1. \A i \in 0..n : G[i] = IF i = 0 THEN From(left(0)) ELSE Then(G[i - 1], Output)
    <3> TAKE i \in 0..n
    <3>1. CASE i = 0
      BY <1>11, <1>12, <3>1
    <3>2. CASE i # 0
      <4>1. i \in 1..n /\ i - 1 \in 0..n
        BY <3>2
      <4>2. G[i - 1] = [v |-> SubSeq(s, 1, i - 1), rest |-> left(i - 1)]
        BY <1>12, <4>1
      <4>3. Then(G[i - 1], Output) = [v |-> SubSeq(s, 1, i), rest |-> left(i)]
        BY <1>10, <4>1, <4>2
      <4> QED
        BY <1>12, <3>2, <4>3
    <3> QED
      BY <3>1, <3>2
  <2>2. count.v = n /\ count.rest = left(0)
    BY <1>9
  <2>3. G = [i \in 0..n |-> G[i]]
    OBVIOUS
  <2> HIDE DEF G
  <2> QED
    BY <2>1, <2>2, <2>3
<1>14. read = F(read)
  <2>1. \E g : g = F(g)
    <3> HIDE DEF F, G
    <3> QED
      BY <1>13
  <2> HIDE DEF F
  <2> QED
    BY <2>1
<1>15. Several(Output, count) = read[n]
  BY <1>9 DEF Several
<1> HIDE DEF read
<1>16. \A i \in 0..n : read[i] = IF i = 0 THEN From(left(0)) ELSE Then(read[i - 1], Output)
  BY <1>9, <1>14
<1> DEFINE P == {i \in Nat : i <= n => read[i] = [v |-> SubSeq(s, 1, i), rest |-> left(i)]}
<1>17. 0 \in P
  BY <1>11, <1>16
<1>18. ASSUME NEW i \in P PROVE i + 1 \in P
  <2> SUFFICES ASSUME i + 1 <= n PROVE read[i + 1] = [v |-> SubSeq(s, 1, i + 1), rest |-> left(i + 1)]
    OBVIOUS
  <2> DEFINE j == i + 1
  <2>1. j \in 1..n /\ j \in 0..n /\ j # 0 /\ j - 1 = i /\ i <= n
    OBVIOUS
  <2>2. read[i] = [v |-> SubSeq(s, 1, i), rest |-> left(i)]
    BY <2>1
  <2> HIDE DEF j
  <2>3. read[j] = Then(read[i], Output)
    BY <1>16, <2>1
  <2>4. Then([v |-> SubSeq(s, 1, i), rest |-> left(i)], Output) = [v |-> SubSeq(s, 1, j), rest |-> left(j)]
    BY <1>10, <2>1
  <2> QED
    BY <2>2, <2>3, <2>4 DEF j
<1>19. P = Nat
  <2> HIDE DEF P
  <2>1. P \in SUBSET Nat
    BY DEF P
  <2> QED
    BY <1>17, <1>18, <2>1, NatInductive
<1>20. read[n] = [v |-> s, rest |-> b]
  <2>1. n \in P
    BY <1>19
  <2>2. read[n] = [v |-> SubSeq(s, 1, n), rest |-> left(n)]
    BY <2>1
  <2>3. SubSeq(s, 1, n) = s
    BY FirstItems
  <2> QED
    BY <1>6, <2>2, <2>3
<1>21. Outputs(encode_varint(n) \o left(0)) = Several(Output, count)
  BY DEF Outputs, Counted, count
<1> QED
  BY <1>8, <1>15, <1>20, <1>21

-----------------------------------------------------------------------------
(* A transaction. *)

IsTx(tx) ==
    /\ tx = [version |-> tx.version, inputs |-> tx.inputs, outputs |-> tx.outputs, locktime |-> tx.locktime]
    /\ tx.version \in Int /\ tx.locktime \in Int
    /\ Len(tx.inputs) \in Nat /\ tx.inputs = [i \in 1..Len(tx.inputs) |-> tx.inputs[i]]
    /\ \A i \in 1..Len(tx.inputs) : IsInput(tx.inputs[i])
    /\ Len(tx.outputs) \in Nat /\ tx.outputs = [i \in 1..Len(tx.outputs) |-> tx.outputs[i]]
    /\ \A i \in 1..Len(tx.outputs) : IsOutput(tx.outputs[i])

(* The parts that encode_tx puts in a row. *)
LEMMA TxParts ==
  ASSUME NEW tx, IsTx(tx)
  PROVE  /\ Text(LE(4, tx.version)) /\ Text(LE(4, tx.locktime))
         /\ Text(encode_varint(Len(tx.inputs))) /\ Text(Each(InputBytes, tx.inputs))
         /\ Text(encode_varint(Len(tx.outputs))) /\ Text(Each(OutputBytes, tx.outputs))
         /\ Size(LE(4, tx.version)) = 4 /\ Size(LE(4, tx.locktime)) = 4
<1>1. /\ Len(tx.inputs) \in Nat /\ tx.inputs = [i \in 1..Len(tx.inputs) |-> tx.inputs[i]]
      /\ \A i \in 1..Len(tx.inputs) : IsInput(tx.inputs[i])
  BY DEF IsTx
<1>2. /\ Len(tx.outputs) \in Nat /\ tx.outputs = [i \in 1..Len(tx.outputs) |-> tx.outputs[i]]
      /\ \A i \in 1..Len(tx.outputs) : IsOutput(tx.outputs[i])
  BY DEF IsTx
<1>3. Text(encode_varint(Len(tx.inputs))) /\ Text(encode_varint(Len(tx.outputs)))
  BY <1>1, <1>2, VarintText
<1>4. Text(Each(InputBytes, tx.inputs))
  <2> DEFINE s == tx.inputs
             n == Len(s)
  <2>1. n \in Nat /\ s = [i \in 1..n |-> s[i]] /\ \A i \in 1..n : IsInput(s[i])
    BY <1>1
  <2>2. Text(<<>>)
    BY TextEmpty
  <2> HIDE DEF s, n
  <2>3. Text(Each(InputBytes, s))
    BY <2>1, <2>2, InputsRead
  <2> QED
    BY <2>3 DEF s
<1>5. Text(Each(OutputBytes, tx.outputs))
  <2> DEFINE s == tx.outputs
             n == Len(s)
  <2>1. n \in Nat /\ s = [i \in 1..n |-> s[i]] /\ \A i \in 1..n : IsOutput(s[i])
    BY <1>2
  <2>2. Text(<<>>)
    BY TextEmpty
  <2> HIDE DEF s, n
  <2>3. Text(Each(OutputBytes, s))
    BY <2>1, <2>2, OutputsRead
  <2> QED
    BY <2>3 DEF s
<1>6. /\ Text(LE(4, tx.version)) /\ Size(LE(4, tx.version)) = 4
      /\ Text(LE(4, tx.locktime)) /\ Size(LE(4, tx.locktime)) = 4
  BY LEFacts
<1> QED
  BY <1>3, <1>4, <1>5, <1>6

(* A node reads in the bytes of a transaction that very transaction, and nothing is left over: *)
(* the counts, lengths, token prefixes and byte orders of encode_tx are those of the network.  *)
THEOREM ReadsWhatIsWritten ==
  ASSUME NEW tx, IsTx(tx)
  PROVE  Read(encode_tx(tx)) = [v |-> tx, rest |-> <<>>]
<1> DEFINE ver == LE(4, tx.version)
           nin == encode_varint(Len(tx.inputs))
           ins == Each(InputBytes, tx.inputs)
           nout == encode_varint(Len(tx.outputs))
           outs == Each(OutputBytes, tx.outputs)
           lock == LE(4, tx.locktime)
           b4 == nout \o (outs \o lock)
           b3 == nin \o (ins \o b4)
<1>1. Text(ver) /\ Text(nin) /\ Text(ins) /\ Text(nout) /\ Text(outs) /\ Text(lock)
  BY TxParts
<1>2. /\ tx = [version |-> tx.version, inputs |-> tx.inputs, outputs |-> tx.outputs, locktime |-> tx.locktime]
      /\ tx.version \in Int /\ tx.locktime \in Int
  BY DEF IsTx
<1>3. /\ Len(tx.inputs) \in Nat /\ tx.inputs = [i \in 1..Len(tx.inputs) |-> tx.inputs[i]]
      /\ \A i \in 1..Len(tx.inputs) : IsInput(tx.inputs[i])
  BY DEF IsTx
<1>4. /\ Len(tx.outputs) \in Nat /\ tx.outputs = [i \in 1..Len(tx.outputs) |-> tx.outputs[i]]
      /\ \A i \in 1..Len(tx.outputs) : IsOutput(tx.outputs[i])
  BY DEF IsTx
<1>5. Text(b4)
  <2> HIDE DEF nout, outs, lock
  <2>1. Text(outs \o lock)
    BY <1>1, TextConcat
  <2> DEFINE t == outs \o lock
  <2>2. Text(t)
    BY <2>1
  <2> HIDE DEF t
  <2>3. Text(nout \o t)
    BY <1>1, <2>2, TextConcat
  <2> QED
    BY <2>3 DEF t
<1>6. Text(b3)
  <2> HIDE DEF nin, ins, b4
  <2> DEFINE t == ins \o b4
  <2>2. Text(t)
    BY <1>1, <1>5, TextConcat
  <2> HIDE DEF t
  <2>3. Text(nin \o t)
    BY <1>1, <2>2, TextConcat
  <2> QED
    BY <2>3 DEF t
<1>7. encode_tx(tx) = ver \o b3
  <2>0. encode_tx(tx) = ((((ver \o nin) \o ins) \o nout) \o outs) \o lock
    BY DEF encode_tx
  <2> HIDE DEF ver, nin, ins, nout, outs, lock
  <2>11. Text(ver)
    BY <1>1
  <2>12. Text(nin)
    BY <1>1
  <2>13. Text(ins)
    BY <1>1
  <2>14. Text(nout)
    BY <1>1
  <2>15. Text(outs)
    BY <1>1
  <2>16. Text(lock)
    BY <1>1
  <2> DEFINE d1 == ver \o nin
             d2 == d1 \o ins
             d3 == d2 \o nout
             t2 == ins \o b4
             t4 == outs \o lock
  <2>1. Text(d1)
    BY <1>1, TextConcat
  <2> HIDE DEF d1
  <2>2. Text(d2)
    BY <1>1, <2>1, TextConcat
  <2> HIDE DEF d2
  <2>3. Text(d3)
    BY <1>1, <2>2, TextConcat
  <2> HIDE DEF d3
  <2>4. Text(t4)
    BY <1>1, TextConcat
  <2>5. (d3 \o outs) \o lock = d3 \o t4
    BY <2>3, <2>15, <2>16, TextAssoc
  <2> HIDE DEF t4
  <2>6. d3 \o t4 = d2 \o (nout \o t4)
    BY <2>2, <2>4, <2>14, TextAssoc DEF d3
  <2>17. nout \o t4 = b4
    BY DEF t4
  <2> HIDE DEF b4
  <2>7. Text(t2)
    BY <1>1, <1>5, TextConcat
  <2>8. d2 \o b4 = d1 \o t2
    BY <1>5, <2>1, <2>13, TextAssoc DEF d2
  <2> HIDE DEF t2
  <2>9. d1 \o t2 = ver \o (nin \o t2)
    BY <2>7, <2>11, <2>12, TextAssoc DEF d1
  <2>18. nin \o t2 = b3
    BY DEF t2
  <2>10. encode_tx(tx) = (d3 \o outs) \o lock
    BY <2>0 DEF d1, d2, d3
  <2> QED
    BY <2>5, <2>6, <2>8, <2>9, <2>10, <2>17, <2>18
<1>8. U32(ver \o b3) = [v |-> tx.version, rest |-> b3]
  <2> HIDE DEF b3
  <2> QED
    BY <1>2, <1>6, NumRead DEF U32
<1>9. Inputs(b3) = [v |-> tx.inputs, rest |-> b4]
  <2> DEFINE s == tx.inputs
             n == Len(s)
  <2>1. n \in Nat /\ s = [i \in 1..n |-> s[i]] /\ \A i \in 1..n : IsInput(s[i])
    BY <1>3
  <2> HIDE DEF s, n, b4
  <2>2. Inputs(encode_varint(n) \o (Each(InputBytes, s) \o b4)) = [v |-> s, rest |-> b4]
    BY <1>5, <2>1, InputsRead
  <2> QED
    BY <2>2 DEF s, n
<1>10. Outputs(b4) = [v |-> tx.outputs, rest |-> lock]
  <2> DEFINE s == tx.outputs
             n == Len(s)
  <2>1. n \in Nat /\ s = [i \in 1..n |-> s[i]] /\ \A i \in 1..n : IsOutput(s[i])
    BY <1>4
  <2> HIDE DEF s, n, lock
  <2>2. Outputs(encode_varint(n) \o (Each(OutputBytes, s) \o lock)) = [v |-> s, rest |-> lock]
    BY <1>1, <2>1, OutputsRead
  <2> QED
    BY <2>2 DEF s, n
<1>11. U32(lock) = [v |-> tx.locktime, rest |-> <<>>]
  <2>1. Number(lock \o <<>>, 4) = [v |-> tx.locktime, rest |-> <<>>]
    <3> DEFINE none == <<>>
    <3>1. Text(none)
      BY TextEmpty
    <3> HIDE DEF none
    <3>2. Number(lock \o none, 4) = [v |-> tx.locktime, rest |-> none]
      BY <1>2, <3>1, NumRead
    <3> QED
      BY <3>2 DEF none
  <2>2. lock \o <<>> = lock
    <3> HIDE DEF lock
    <3> QED
      BY <1>1, TextEmpty
  <2> QED
    BY <2>1, <2>2 DEF U32
<1> HIDE DEF ver, nin, ins, nout, outs, lock, b3, b4
<1> DEFINE r1 == Then(From(ver \o b3), U32)
           r2 == Then(r1, Inputs)
           r3 == Then(r2, Outputs)
           r4 == Then(r3, U32)
<1>12. r1 = [v |-> <<tx.version>>, rest |-> b3]
  BY <1>8, Appended DEF Then, From, Adding
<1> HIDE DEF r1
<1>13. r2 = [v |-> <<tx.version, tx.inputs>>, rest |-> b4]
  BY <1>9, <1>12, Appended DEF Then, Adding
<1> HIDE DEF r2
<1>14. r3 = [v |-> <<tx.version, tx.inputs, tx.outputs>>, rest |-> lock]
  BY <1>10, <1>13, Appended DEF Then, Adding
<1> HIDE DEF r3
<1>15. r4 = [v |-> <<tx.version, tx.inputs, tx.outputs, tx.locktime>>, rest |-> <<>>]
  BY <1>11, <1>14, Appended DEF Then, Adding
<1> HIDE DEF r4
<1>16. TxOf(<<tx.version, tx.inputs, tx.outputs, tx.locktime>>) = tx
  <2>1. TxOf(<<tx.version, tx.inputs, tx.outputs, tx.locktime>>)
           = [version |-> tx.version, inputs |-> tx.inputs, outputs |-> tx.outputs, locktime |-> tx.locktime]
    BY DEF TxOf
  <2> QED
    BY <1>2, <2>1
<1>17. Read(ver \o b3) = [v |-> TxOf(r4.v), rest |-> r4.rest]
  BY DEF Read, As, r1, r2, r3, r4
<1> QED
  BY <1>7, <1>15, <1>16, <1>17

(* What a transaction takes depends on its inputs' unlocking scripts by their sizes, and not at *)
(* all on the values and the numbers in it.                                                     *)
LEMMA EncodedSize ==
  ASSUME NEW tx, NEW ty, IsTx(tx), IsTx(ty),
         Len(ty.inputs) = Len(tx.inputs), Len(ty.outputs) = Len(tx.outputs),
         \A i \in 1..Len(tx.inputs) : Size(ty.inputs[i].unlock_script) = Size(tx.inputs[i].unlock_script),
         \A i \in 1..Len(tx.outputs) :
            output_script_bytes(ty.outputs[i]) = output_script_bytes(tx.outputs[i])
  PROVE  /\ Size(encode_tx(ty)) = Size(encode_tx(tx))
         /\ Size(encode_tx(tx)) \in Nat
<1>1. /\ Len(tx.inputs) \in Nat /\ tx.inputs = [i \in 1..Len(tx.inputs) |-> tx.inputs[i]]
      /\ Len(tx.outputs) \in Nat /\ tx.outputs = [i \in 1..Len(tx.outputs) |-> tx.outputs[i]]
      /\ ty.inputs = [i \in 1..Len(tx.inputs) |-> ty.inputs[i]]
      /\ ty.outputs = [i \in 1..Len(tx.outputs) |-> ty.outputs[i]]
  BY DEF IsTx
<1>2. \A i \in 1..Len(tx.inputs) : IsInput(tx.inputs[i]) /\ IsInput(ty.inputs[i])
  BY DEF IsTx
<1>3. \A i \in 1..Len(tx.outputs) : IsOutput(tx.outputs[i]) /\ IsOutput(ty.outputs[i])
  BY DEF IsTx
<1>4. Size(Each(InputBytes, ty.inputs)) = Size(Each(InputBytes, tx.inputs))
  <2> DEFINE n == Len(tx.inputs)
             e == [i \in 1..n |-> InputBytes(tx.inputs[i])]
             d == [i \in 1..n |-> InputBytes(ty.inputs[i])]
  <2>1. Each(InputBytes, tx.inputs) = FlattenSeq(e) /\ Each(InputBytes, ty.inputs) = FlattenSeq(d)
    <3>1. DOMAIN tx.inputs = 1..n /\ DOMAIN ty.inputs = 1..n
      BY <1>1
    <3> QED
      BY <3>1 DEF Each
  <2>2. n \in Nat
    BY <1>1
  <2>3. \A i \in 1..n : e[i] = InputBytes(tx.inputs[i]) /\ d[i] = InputBytes(ty.inputs[i])
    OBVIOUS
  <2>4. e = [i \in 1..n |-> e[i]] /\ d = [i \in 1..n |-> d[i]]
    OBVIOUS
  <2> HIDE DEF e, d
  <2>5. ASSUME NEW i \in 1..n PROVE Text(e[i]) /\ Text(d[i]) /\ Size(d[i]) = Size(e[i])
    <3> DEFINE x == tx.inputs[i]
               y == ty.inputs[i]
    <3>1. IsInput(x) /\ IsInput(y) /\ e[i] = InputBytes(x) /\ d[i] = InputBytes(y)
      BY <1>2, <2>3
    <3>2. Size(y.unlock_script) = Size(x.unlock_script)
      OBVIOUS
    <3> HIDE DEF x, y
    <3>3. Text(x.unlock_script) /\ Text(y.unlock_script)
      BY <3>1 DEF IsInput
    <3>4. Size(WithLength(y.unlock_script)) = Size(WithLength(x.unlock_script))
      BY <3>2, <3>3, WithLengthText
    <3>5. Text(InputBytes(x)) /\ Size(InputBytes(x)) = 40 + Size(WithLength(x.unlock_script))
      BY <3>1, InputText
    <3>6. Text(InputBytes(y)) /\ Size(InputBytes(y)) = 40 + Size(WithLength(y.unlock_script))
      BY <3>1, InputText
    <3> QED
      BY <3>1, <3>4, <3>5, <3>6
  <2> HIDE DEF n
  <2>7. /\ \A i \in 1..n : Text(e[i])
        /\ \A i \in 1..n : Text(d[i])
        /\ \A i \in 1..n : Size(d[i]) = Size(e[i])
    BY <2>5
  <2>8. e = [i \in 1..n |-> e[i]]
    BY <2>4
  <2>9. d = [i \in 1..n |-> d[i]]
    BY <2>4
  <2>6. Size(FlattenSeq(d)) = Size(FlattenSeq(e))
    <3>1. AsLong(n, d, e)
      BY ONLY <2>2, <2>7, <2>8, <2>9 DEF AsLong
    <3> QED
      BY ONLY <3>1, FlattenSize
  <2> QED
    BY <2>1, <2>6
<1>5. Size(Each(OutputBytes, ty.outputs)) = Size(Each(OutputBytes, tx.outputs))
  <2> DEFINE n == Len(tx.outputs)
             e == [i \in 1..n |-> OutputBytes(tx.outputs[i])]
             d == [i \in 1..n |-> OutputBytes(ty.outputs[i])]
  <2>1. Each(OutputBytes, tx.outputs) = FlattenSeq(e) /\ Each(OutputBytes, ty.outputs) = FlattenSeq(d)
    <3>1. DOMAIN tx.outputs = 1..n /\ DOMAIN ty.outputs = 1..n
      BY <1>1
    <3> QED
      BY <3>1 DEF Each
  <2>2. n \in Nat
    BY <1>1
  <2>3. \A i \in 1..n : e[i] = OutputBytes(tx.outputs[i]) /\ d[i] = OutputBytes(ty.outputs[i])
    OBVIOUS
  <2>4. e = [i \in 1..n |-> e[i]] /\ d = [i \in 1..n |-> d[i]]
    OBVIOUS
  <2> HIDE DEF e, d
  <2>5. ASSUME NEW i \in 1..n PROVE Text(e[i]) /\ Text(d[i]) /\ Size(d[i]) = Size(e[i])
    <3> DEFINE x == tx.outputs[i]
               y == ty.outputs[i]
    <3>1. IsOutput(x) /\ IsOutput(y) /\ e[i] = OutputBytes(x) /\ d[i] = OutputBytes(y)
      BY <1>3, <2>3
    <3>2. output_script_bytes(y) = output_script_bytes(x)
      OBVIOUS
    <3> HIDE DEF x, y
    <3>5. Text(OutputBytes(x)) /\ Size(OutputBytes(x)) = 8 + Size(WithLength(output_script_bytes(x)))
      BY <3>1, OutputText
    <3>6. Text(OutputBytes(y)) /\ Size(OutputBytes(y)) = 8 + Size(WithLength(output_script_bytes(y)))
      BY <3>1, OutputText
    <3> QED
      BY <3>1, <3>2, <3>5, <3>6
  <2> HIDE DEF n
  <2>7. /\ \A i \in 1..n : Text(e[i])
        /\ \A i \in 1..n : Text(d[i])
        /\ \A i \in 1..n : Size(d[i]) = Size(e[i])
    BY <2>5
  <2>8. e = [i \in 1..n |-> e[i]]
    BY <2>4
  <2>9. d = [i \in 1..n |-> d[i]]
    BY <2>4
  <2>6. Size(FlattenSeq(d)) = Size(FlattenSeq(e))
    <3>1. AsLong(n, d, e)
      BY ONLY <2>2, <2>7, <2>8, <2>9 DEF AsLong
    <3> QED
      BY ONLY <3>1, FlattenSize
  <2> QED
    BY <2>1, <2>6
<1>6. ASSUME NEW z, IsTx(z)
      PROVE  /\ Size(encode_tx(z)) = 8 + Size(encode_varint(Len(z.inputs))) + Size(Each(InputBytes, z.inputs))
                                     + Size(encode_varint(Len(z.outputs))) + Size(Each(OutputBytes, z.outputs))
             /\ Size(encode_tx(z)) \in Nat
  <2> DEFINE ver == LE(4, z.version)
             nin == encode_varint(Len(z.inputs))
             ins == Each(InputBytes, z.inputs)
             nout == encode_varint(Len(z.outputs))
             outs == Each(OutputBytes, z.outputs)
             lock == LE(4, z.locktime)
  <2>1. /\ Text(ver) /\ Text(nin) /\ Text(ins) /\ Text(nout) /\ Text(outs) /\ Text(lock)
        /\ Size(ver) = 4 /\ Size(lock) = 4
    BY <1>6, TxParts
  <2>2. encode_tx(z) = ((((ver \o nin) \o ins) \o nout) \o outs) \o lock
    BY DEF encode_tx
  <2> HIDE DEF ver, nin, ins, nout, outs, lock
  <2> DEFINE d1 == ver \o nin
             d2 == d1 \o ins
             d3 == d2 \o nout
             d4 == d3 \o outs
             d5 == d4 \o lock
  <2>3. Text(d1) /\ Size(d1) = Size(ver) + Size(nin)
    BY <2>1, TextConcat, EndsConcat
  <2> HIDE DEF d1
  <2>4. Text(d2) /\ Size(d2) = Size(d1) + Size(ins)
    BY <2>1, <2>3, TextConcat, EndsConcat
  <2> HIDE DEF d2
  <2>5. Text(d3) /\ Size(d3) = Size(d2) + Size(nout)
    BY <2>1, <2>4, TextConcat, EndsConcat
  <2> HIDE DEF d3
  <2>6. Text(d4) /\ Size(d4) = Size(d3) + Size(outs)
    BY <2>1, <2>5, TextConcat, EndsConcat
  <2> HIDE DEF d4
  <2>7. Text(d5) /\ Size(d5) = Size(d4) + Size(lock)
    BY <2>1, <2>6, TextConcat, EndsConcat
  <2> HIDE DEF d5
  <2>8. Size(nin) \in Nat /\ Size(ins) \in Nat /\ Size(nout) \in Nat /\ Size(outs) \in Nat
    BY <2>1, EndsFacts
  <2>9. Size(d5) = 8 + Size(nin) + Size(ins) + Size(nout) + Size(outs) /\ Size(d5) \in Nat
    BY <2>1, <2>3, <2>4, <2>5, <2>6, <2>7, <2>8
  <2>10. encode_tx(z) = d5
    BY <2>2 DEF d1, d2, d3, d4, d5
  <2> QED
    BY <2>9, <2>10 DEF nin, ins, nout, outs
<1>7. /\ Size(encode_tx(tx)) = 8 + Size(encode_varint(Len(tx.inputs))) + Size(Each(InputBytes, tx.inputs))
                               + Size(encode_varint(Len(tx.outputs))) + Size(Each(OutputBytes, tx.outputs))
      /\ Size(encode_tx(tx)) \in Nat
  BY <1>6
<1>8. Size(encode_tx(ty)) = 8 + Size(encode_varint(Len(ty.inputs))) + Size(Each(InputBytes, ty.inputs))
                            + Size(encode_varint(Len(ty.outputs))) + Size(Each(OutputBytes, ty.outputs))
  BY <1>6
<1> QED
  BY <1>4, <1>5, <1>7, <1>8

-----------------------------------------------------------------------------
(* Scripts: pushes, locks and the unlocking scripts of coins are texts. *)

LEMMA PrefixText ==
  ASSUME NEW n \in Nat
  PROVE  Text(LengthPrefix(n))
<1>1. \A b : Text(LE(1, b)) /\ Text(LE(2, b)) /\ Text(LE(4, b))
  BY LEFacts
<1>2. CASE n <= 75
  BY <1>1, <1>2 DEF LengthPrefix
<1>3. CASE n >= 76 /\ n <= 255
  <2>1. Text(LE(1, 76) \o LE(1, n))
    BY <1>1, TextConcat
  <2> QED
    BY <1>3, <2>1 DEF LengthPrefix
<1>4. CASE n >= 256 /\ n <= 65535
  <2>1. Text(LE(1, 77) \o LE(2, n))
    BY <1>1, TextConcat
  <2> QED
    BY <1>4, <2>1 DEF LengthPrefix
<1>5. CASE n > 65535
  <2>1. Text(LE(1, 78) \o LE(4, n))
    BY <1>1, TextConcat
  <2> QED
    BY <1>5, <2>1 DEF LengthPrefix
<1> QED
  BY <1>2, <1>3, <1>4, <1>5

LEMMA PushText ==
  ASSUME NEW data, Text(data)
  PROVE  Text(push_data(data))
<1> DEFINE b == data[1][3]
<1>1. Text(LengthPrefix(Size(data)) \o data)
  BY EndsFacts, PrefixText, TextConcat
<1>2. Text(LE(1, 79)) /\ Text(LE(1, 80 + b))
  BY LEFacts
<1> HIDE DEF b
<1>3. CASE Size(data) = 1 /\ b = 129
  BY <1>2, <1>3 DEF push_data, b
<1>4. CASE Size(data) = 1 /\ b \in 1..16
  <2>1. b # 129
    BY <1>4
  <2> QED
    BY <1>2, <1>4, <2>1 DEF push_data, b
<1>5. CASE ~(Size(data) = 1 /\ b = 129) /\ ~(Size(data) = 1 /\ b \in 1..16)
  BY <1>1, <1>5 DEF push_data, b
<1> QED
  BY <1>3, <1>4, <1>5

(* What is longer than a byte and at most 75 bytes is pushed behind its length. *)
LEMMA ShortPush ==
  ASSUME NEW data, Text(data), Size(data) \in 2..75
  PROVE  /\ push_data(data) = LE(1, Size(data)) \o data
         /\ Text(push_data(data)) /\ Size(push_data(data)) = 1 + Size(data)
<1> DEFINE n == Size(data)
           one == LE(1, n)
<1>1. Text(one) /\ Size(one) = 1
  BY LEFacts
<1>2. n # 1 /\ n \in Nat /\ n <= 75
  OBVIOUS
<1>5. LengthPrefix(n) = one
  <2> HIDE DEF n
  <2> QED
    BY <1>2 DEF LengthPrefix
<1>6. push_data(data) = LengthPrefix(n) \o data
  BY <1>2 DEF push_data
<1> HIDE DEF one
<1>3. Text(one \o data) /\ Size(one \o data) = 1 + Size(data)
  BY <1>1, TextConcat, EndsConcat
<1>4. push_data(data) = one \o data
  BY <1>5, <1>6
<1> QED
  BY <1>3, <1>4 DEF one

LEMMA PushIntText ==
  Text(push_int(0)) /\ Text(push_int(1))
<1>1. Text(LE(1, 0)) /\ Text(LE(1, 1))
  BY LEFacts
<1>2. Text(push_data(LE(1, 1)))
  BY <1>1, PushText
<1> QED
  BY <1>1, <1>2 DEF push_int

(* What a text begins with. *)
LEMMA FrontGrows ==
  ASSUME NEW a, NEW r, NEW x, Text(a), Text(r), Text(x)
  PROVE  Text(r \o x) /\ (a \o r) \o x = a \o (r \o x)
  BY TextConcat, TextAssoc

LEMMA Fronts ==
  ASSUME NEW a, NEW b, Text(a), Text(b)
  PROVE  /\ Text(a \o b) /\ Len(a \o b) = Len(a) + Len(b)
         /\ Len(a) >= 1 => (a \o b)[1] = a[1]
         /\ Len(a) >= 3 => (a \o b)[3] = a[3]
         /\ Len(b) >= 1 => (a \o b)[Len(a) + 1] = b[1]
<1>1. Len(a) \in Nat /\ Len(b) \in Nat
  BY TextLen
<1>2. /\ Text(a \o b) /\ Len(a \o b) = Len(a) + Len(b)
      /\ \A i \in 1..Len(a) : (a \o b)[i] = a[i]
      /\ \A i \in 1..Len(b) : (a \o b)[Len(a) + i] = b[i]
  BY TextConcat
<1> QED
  BY <1>1, <1>2

LEMMA HashTexts ==
  ASSUME NEW a
  PROVE  /\ Text(hash160(a)) /\ Size(hash160(a)) = 20
         /\ Text(double_sha256(a)) /\ Size(double_sha256(a)) = 32 /\ Len(double_sha256(a)) = 1
         /\ double_sha256(a)[1][3] = a
<1>1. Text(Piece(20, "hash160", a)) /\ Size(Piece(20, "hash160", a)) = 20
  BY TextPiece, SizeFacts
<1>2. /\ Text(Piece(32, "sha256d", a)) /\ Size(Piece(32, "sha256d", a)) = 32
      /\ Len(Piece(32, "sha256d", a)) = 1
  BY TextPiece, SizeFacts
<1>3. Piece(32, "sha256d", a)[1][3] = a
  BY DEF Piece
<1> QED
  BY <1>1, <1>2, <1>3 DEF hash160, double_sha256

(* A key's lock: it begins with an opcode that is no token prefix and no contract's. *)
LEMMA KeyLock ==
  ASSUME NEW x, Text(x)
  PROVE  /\ Text(p2pkh_locking_script(x))
         /\ p2pkh_locking_script(x)[1] = <<1, "number", 118>>
         /\ Upto(p2pkh_locking_script(x), 1) # LE(1, 239)
<1> DEFINE a == LE(1, 118)
           b == LE(1, 169)
           c == LE(1, 20)
           e == LE(1, 136)
           f == LE(1, 172)
<1>1. /\ Text(a) /\ Text(b) /\ Text(c) /\ Text(e) /\ Text(f) /\ Size(a) = 1 /\ Len(a) = 1
      /\ Text(LE(1, 239))
  BY LEFacts
<1>2. a[1] = <<1, "number", 118>> /\ a # LE(1, 239)
  BY DEF LE, Piece
<1>3. p2pkh_locking_script(x) = ((((a \o b) \o c) \o x) \o e) \o f
  BY DEF p2pkh_locking_script
<1> HIDE DEF a, b, c, e, f
<1> DEFINE r2 == b \o c
           r3 == r2 \o x
           r4 == r3 \o e
           r == r4 \o f
<1>4. Text(r2) /\ (a \o b) \o c = a \o r2
  BY <1>1, FrontGrows
<1> HIDE DEF r2
<1>5. Text(r3) /\ (a \o r2) \o x = a \o r3
  BY <1>1, <1>4, FrontGrows
<1> HIDE DEF r3
<1>6. Text(r4) /\ (a \o r3) \o e = a \o r4
  BY <1>1, <1>5, FrontGrows
<1> HIDE DEF r4
<1>7. Text(r) /\ (a \o r4) \o f = a \o r
  BY <1>1, <1>6, FrontGrows
<1> HIDE DEF r
<1>8. p2pkh_locking_script(x) = a \o r
  BY <1>3, <1>4, <1>5, <1>6, <1>7
<1>9. Text(a \o r) /\ (a \o r)[1] = a[1]
  BY <1>1, <1>7, Fronts
<1>10. Upto(a \o r, Size(a)) = a
  BY <1>1, <1>7, Cut
<1> QED
  BY <1>1, <1>2, <1>8, <1>9, <1>10

(* A contract's lock gives away which script is behind it. *)
LEMMA ScriptLock ==
  ASSUME NEW r
  PROVE  /\ Text(p2sh32_locking_script(r))
         /\ p2sh32_locking_script(r)[1] = <<1, "number", 170>>
         /\ p2sh32_locking_script(r)[3][3] = r
<1> DEFINE a == LE(1, 170)
           b == LE(1, 32)
           c == double_sha256(r)
           e == LE(1, 135)
<1>1. /\ Text(a) /\ Text(b) /\ Text(c) /\ Text(e) /\ Len(a) = 1 /\ Len(b) = 1 /\ Len(c) = 1
      /\ c[1][3] = r
  BY LEFacts, HashTexts
<1>2. a[1] = <<1, "number", 170>>
  BY DEF LE, Piece
<1>3. p2sh32_locking_script(r) = ((a \o b) \o c) \o e
  BY DEF p2sh32_locking_script
<1> HIDE DEF a, b, c, e
<1> DEFINE d1 == a \o b
           d2 == d1 \o c
           d3 == d2 \o e
<1>8. Len(a) >= 1 /\ Len(c) >= 1
  BY <1>1
<1>4. Text(d1) /\ Len(d1) = Len(a) + Len(b) /\ d1[1] = a[1]
  BY <1>1, <1>8, Fronts, Zenon
<1> HIDE DEF d1
<1>9. Len(d1) = 2 /\ Len(d1) >= 1
  BY <1>1, <1>4
<1>5. Text(d2) /\ Len(d2) = Len(d1) + Len(c) /\ d2[1] = d1[1] /\ d2[Len(d1) + 1] = c[1]
  BY <1>1, <1>4, <1>8, <1>9, Fronts, Zenon
<1> HIDE DEF d2
<1>10. Len(d2) >= 1 /\ Len(d2) >= 3 /\ d2[3] = c[1]
  BY <1>1, <1>5, <1>9
<1>6. Text(d3) /\ d3[1] = d2[1] /\ d3[3] = d2[3]
  BY <1>1, <1>5, <1>10, Fronts, Zenon
<1>7. p2sh32_locking_script(r) = d3
  BY <1>3 DEF d1, d2, d3
<1> HIDE DEF d3
<1> QED
  BY <1>1, <1>2, <1>4, <1>5, <1>6, <1>7, <1>10

(* The contracts as texts; the four locks and those of keys are different. *)
LEMMA CodeTexts ==
  /\ Text(ticker_lock) /\ Text(ticker26_lock) /\ Text(oracle_lock) /\ Text(oracle26_lock)
  /\ Text(oracle_redeem) /\ Text(oracle26_redeem)
  /\ oracle_lock # oracle26_lock
  /\ ticker_lock[1][1] = 55 /\ ticker26_lock[1][1] = 57
  /\ oracle_lock[1] = <<1, "number", 170>> /\ oracle26_lock[1] = <<1, "number", 170>>
<1> DEFINE p == Piece(518, "code", "Oracle")
           p26 == Piece(506, "code", "Oracle26")
<1>10. \A kind, content : /\ Text(Piece(55, kind, content)) /\ Size(Piece(55, kind, content)) = 55
                          /\ Text(Piece(57, kind, content)) /\ Size(Piece(57, kind, content)) = 57
                          /\ Text(Piece(518, kind, content)) /\ Size(Piece(518, kind, content)) = 518
                          /\ Text(Piece(506, kind, content)) /\ Size(Piece(506, kind, content)) = 506
  BY TextPiece, SizeFacts
<1>1. /\ Text(ticker_lock) /\ Size(ticker_lock) = 55
      /\ Text(ticker26_lock) /\ Size(ticker26_lock) = 57
      /\ Text(p) /\ Size(p) = 518 /\ Text(p26) /\ Size(p26) = 506
  <2>1. Text(ticker_lock) /\ Size(ticker_lock) = 55
    BY <1>10 DEF ticker_lock
  <2>2. Text(ticker26_lock) /\ Size(ticker26_lock) = 57
    BY <1>10 DEF ticker26_lock
  <2>3. Text(p) /\ Size(p) = 518
    BY <1>10
  <2>4. Text(p26) /\ Size(p26) = 506
    BY <1>10
  <2> QED
    BY <2>1, <2>2, <2>3, <2>4
<1> HIDE DEF p, p26
<1>2. /\ Text(push_data(ticker_lock)) /\ Size(push_data(ticker_lock)) = 56
      /\ Text(push_data(ticker26_lock)) /\ Size(push_data(ticker26_lock)) = 58
  BY <1>1, ShortPush
<1>3. Text(oracle_redeem) /\ Size(oracle_redeem) = 574
  <2> DEFINE u == push_data(ticker_lock)
  <2>1. Text(u) /\ Size(u) = 56
    BY <1>2
  <2>2. oracle_redeem = u \o p
    BY DEF oracle_redeem, p
  <2> HIDE DEF u
  <2>3. Text(u \o p) /\ Size(u \o p) = Size(u) + Size(p)
    BY <1>1, <2>1, TextConcat, EndsConcat
  <2> QED
    BY <1>1, <2>1, <2>2, <2>3
<1>4. Text(oracle26_redeem) /\ Size(oracle26_redeem) = 564
  <2> DEFINE u == push_data(ticker26_lock)
  <2>1. Text(u) /\ Size(u) = 58
    BY <1>2
  <2>2. oracle26_redeem = u \o p26
    BY DEF oracle26_redeem, p26
  <2> HIDE DEF u
  <2>3. Text(u \o p26) /\ Size(u \o p26) = Size(u) + Size(p26)
    BY <1>1, <2>1, TextConcat, EndsConcat
  <2> QED
    BY <1>1, <2>1, <2>2, <2>3
<1>5. oracle_lock[3][3] = oracle_redeem /\ oracle26_lock[3][3] = oracle26_redeem
  BY ScriptLock DEF oracle_lock, oracle26_lock
<1>6. oracle_redeem # oracle26_redeem
  BY <1>3, <1>4
<1>7. oracle_lock # oracle26_lock
  BY <1>5, <1>6
<1>8. /\ Text(oracle_lock) /\ oracle_lock[1] = <<1, "number", 170>>
      /\ Text(oracle26_lock) /\ oracle26_lock[1] = <<1, "number", 170>>
  BY ScriptLock DEF oracle_lock, oracle26_lock
<1>9. ticker_lock[1][1] = 55 /\ ticker26_lock[1][1] = 57
  BY DEF ticker_lock, ticker26_lock, Piece
<1> QED
  BY <1>1, <1>3, <1>4, <1>7, <1>8, <1>9

IsKeyLock(lock) == Text(lock) /\ lock[1] = <<1, "number", 118>> /\ Upto(lock, 1) # LE(1, 239)

LEMMA LocksDiffer ==
  ASSUME NEW lock, IsKeyLock(lock)
  PROVE  /\ lock \notin {oracle_lock, oracle26_lock, ticker_lock, ticker26_lock}
         /\ oracle_lock \notin {oracle26_lock, ticker_lock, ticker26_lock}
         /\ oracle26_lock \notin {ticker_lock, ticker26_lock}
         /\ ticker_lock # ticker26_lock
<1>1. lock[1][1] = 1 /\ lock[1][3] = 118
  BY DEF IsKeyLock
<1>2. /\ oracle_lock[1][1] = 1 /\ oracle_lock[1][3] = 170
      /\ oracle26_lock[1][1] = 1 /\ oracle26_lock[1][3] = 170
  BY CodeTexts
<1>3. oracle_lock # oracle26_lock /\ ticker_lock[1][1] = 55 /\ ticker26_lock[1][1] = 57
  BY CodeTexts
<1> QED
  BY <1>1, <1>2, <1>3

LEMMA KeyLocks ==
  ASSUME NEW x, Text(x)
  PROVE  IsKeyLock(p2pkh_locking_script(x))
  BY KeyLock DEF IsKeyLock

(* A coin's input is as long before it is signed as after. *)
LEMMA CoinScripts ==
  ASSUME NEW coin, NEW digest
  PROVE  /\ Text(p2pkh_placeholder(public_key(coin))) /\ Text(CoinUnlock(coin, digest))
         /\ Size(CoinUnlock(coin, digest)) = Size(p2pkh_placeholder(public_key(coin)))
<1> DEFINE key == public_key(coin)
           zeros == Piece(65, "zeros", <<>>)
           sig == Signature(coin.key, digest)
           type == LE(1, SIGHASH_ALL_UTXOS_FORKID)
<1>1. Text(key) /\ Size(key) = 33
  BY TextPiece, SizeFacts DEF public_key
<1>2. Text(zeros) /\ Size(zeros) = 65
  BY TextPiece, SizeFacts
<1>3. Text(sig) /\ Size(sig) = 64
  BY TextPiece, SizeFacts DEF Signature
<1>4. Text(type) /\ Size(type) = 1
  BY LEFacts
<1>5. /\ p2pkh_placeholder(key) = push_data(zeros) \o push_data(key)
      /\ CoinUnlock(coin, digest) = push_data(sig \o type) \o push_data(key)
  BY DEF p2pkh_placeholder, CoinUnlock
<1> HIDE DEF key, zeros, sig, type
<1> DEFINE signed == sig \o type
<1>6. Text(signed) /\ Size(signed) = 65
  <2>1. Text(sig \o type) /\ Size(sig \o type) = Size(sig) + Size(type)
    BY <1>3, <1>4, TextConcat, EndsConcat
  <2> QED
    BY <1>3, <1>4, <2>1
<1> HIDE DEF signed
<1> DEFINE k == push_data(key)
           z == push_data(zeros)
           s == push_data(signed)
<1>7. Text(k) /\ Size(k) = 34
  BY <1>1, ShortPush
<1>8. Text(z) /\ Size(z) = 66
  BY <1>2, ShortPush
<1>9. Text(s) /\ Size(s) = 66
  BY <1>6, ShortPush
<1>10. p2pkh_placeholder(key) = z \o k /\ CoinUnlock(coin, digest) = s \o k
  BY <1>5 DEF z, k, s, signed
<1> HIDE DEF k, z, s
<1>11. Text(z \o k) /\ Size(z \o k) = Size(z) + Size(k)
  BY <1>7, <1>8, TextConcat, EndsConcat
<1>12. Text(s \o k) /\ Size(s \o k) = Size(s) + Size(k)
  BY <1>7, <1>9, TextConcat, EndsConcat
<1>13. Size(s \o k) = Size(z \o k)
  BY <1>7, <1>8, <1>9, <1>11, <1>12
<1> QED
  BY <1>10, <1>11, <1>12, <1>13 DEF key

-----------------------------------------------------------------------------
(* What a transaction is put together from, and what becomes of its draft. *)

IsSource(x) ==
    /\ IsOutpoint(x.prev) /\ Text(x.unlock) /\ x.spends.value \in Int
    /\ \/ x.coin = <<>>
       \/ x.coin # <<>> /\ x.unlock = p2pkh_placeholder(public_key(x.coin[1]))

IsPlan(ins) ==
    /\ Len(ins) \in Nat /\ ins = [i \in 1..Len(ins) |-> ins[i]]
    /\ \A i \in 1..Len(ins) : IsSource(ins[i])

IsDraft(d, ins) ==
    /\ IsTx(d) /\ Len(d.inputs) = Len(ins)
    /\ \A i \in 1..Len(ins) : d.inputs[i].prev = ins[i].prev /\ d.inputs[i].unlock_script = ins[i].unlock

(* Signing changes no length. *)
LEMMA Signed ==
  ASSUME NEW d, NEW ins, IsPlan(ins), IsDraft(d, ins)
  PROVE  LET s == sign_p2pkh_inputs(d, ins)
         IN /\ IsTx(s)
            /\ s.outputs = d.outputs /\ Len(s.inputs) = Len(ins)
            /\ \A i \in 1..Len(ins) : s.inputs[i].prev = ins[i].prev
            /\ Size(encode_tx(s)) = Size(encode_tx(d))
<1> DEFINE n == Len(ins)
           s == sign_p2pkh_inputs(d, ins)
           sources == [i \in DOMAIN ins |-> ins[i].spends]
           digest(i) == sighash_digest(d, i, p2pkh_locking_script(pkh(ins[i].coin[1])), sources)
           x(i) == IF ins[i].coin = <<>> THEN d.inputs[i]
                   ELSE [d.inputs[i] EXCEPT !.unlock_script = CoinUnlock(ins[i].coin[1], digest(i))]
           xs == [i \in 1..n |-> x(i)]
<1>1. n \in Nat /\ DOMAIN ins = 1..n /\ DOMAIN d.inputs = 1..n
  BY DEF IsPlan, IsDraft, IsTx
<1>2. s = [d EXCEPT !.inputs = xs]
  BY <1>1 DEF sign_p2pkh_inputs
<1>3. ASSUME NEW i \in 1..n
      PROVE  /\ IsInput(x(i)) /\ x(i).prev = ins[i].prev
             /\ Size(x(i).unlock_script) = Size(d.inputs[i].unlock_script)
  <2> DEFINE y == d.inputs[i]
             u == CoinUnlock(ins[i].coin[1], digest(i))
             p == ins[i]
  <2>1. IsInput(y) /\ y.prev = p.prev /\ y.unlock_script = p.unlock
    BY DEF IsDraft, IsTx
  <2>2. IsSource(p)
    BY DEF IsPlan
  <2>3. /\ Text(u)
        /\ Size(u) = Size(p2pkh_placeholder(public_key(ins[i].coin[1])))
    BY CoinScripts
  <2>4. x(i) = IF p.coin = <<>> THEN y ELSE [y EXCEPT !.unlock_script = u]
    OBVIOUS
  <2>5. p.coin # <<>> => Size(u) = Size(p.unlock)
    BY <2>2, <2>3 DEF IsSource
  <2> HIDE DEF y, u, p, x
  <2>6. CASE p.coin = <<>>
    BY <2>1, <2>4, <2>6 DEF y, p
  <2>7. CASE p.coin # <<>>
    <3> DEFINE z == [y EXCEPT !.unlock_script = u]
    <3>1. z = [prev |-> y.prev, unlock_script |-> u, sequence |-> y.sequence]
      BY <2>1 DEF IsInput
    <3> HIDE DEF z
    <3>2. z.prev = y.prev /\ z.unlock_script = u /\ z.sequence = y.sequence
      BY <3>1
    <3>3. IsInput(z)
      BY <2>1, <2>3, <3>1, <3>2 DEF IsInput
    <3>4. x(i) = z
      BY <2>4, <2>7 DEF z
    <3> QED
      BY <2>1, <2>5, <2>7, <3>2, <3>3, <3>4 DEF y, p
  <2> QED
    BY <2>6, <2>7
<1>4. \A i \in 1..n : xs[i] = x(i)
  OBVIOUS
<1>5. xs = [i \in 1..n |-> xs[i]]
  OBVIOUS
<1> HIDE DEF xs, x
<1>6. Len(xs) = n
  BY <1>1, <1>5, FunctionIsSeq
<1>7. s = [version |-> d.version, inputs |-> xs, outputs |-> d.outputs, locktime |-> d.locktime]
  BY <1>2 DEF IsDraft, IsTx
<1> HIDE DEF s
<1>8. s.version = d.version /\ s.inputs = xs /\ s.outputs = d.outputs /\ s.locktime = d.locktime
  BY <1>7
<1>9. IsTx(s)
  <2>1. s = [version |-> s.version, inputs |-> s.inputs, outputs |-> s.outputs, locktime |-> s.locktime]
    BY <1>7, <1>8
  <2>2. \A i \in 1..Len(s.inputs) : IsInput(s.inputs[i])
    BY <1>3, <1>4, <1>6, <1>8
  <2>3. Len(s.inputs) \in Nat /\ s.inputs = [i \in 1..Len(s.inputs) |-> s.inputs[i]]
    BY <1>1, <1>5, <1>6, <1>8
  <2> QED
    BY <1>8, <2>1, <2>2, <2>3 DEF IsDraft, IsTx
<1>10. \A i \in 1..n : s.inputs[i].prev = ins[i].prev
  BY <1>3, <1>4, <1>8
<1>11. Size(encode_tx(s)) = Size(encode_tx(d))
  <2>1. Len(s.inputs) = Len(d.inputs) /\ Len(s.outputs) = Len(d.outputs)
    BY <1>6, <1>8 DEF IsDraft
  <2>2. \A i \in 1..Len(d.inputs) : Size(s.inputs[i].unlock_script) = Size(d.inputs[i].unlock_script)
    BY <1>3, <1>4, <1>8 DEF IsDraft
  <2>3. \A i \in 1..Len(d.outputs) : output_script_bytes(s.outputs[i]) = output_script_bytes(d.outputs[i])
    BY <1>8
  <2>4. IsTx(d)
    BY DEF IsDraft
  <2> QED
    BY <1>9, <2>1, <2>2, <2>3, <2>4, EncodedSize
<1> QED
  BY <1>6, <1>8, <1>9, <1>10, <1>11 DEF s

(* What the outputs of a transaction are, one of them now worth left. *)
LEMMA Worth ==
  ASSUME NEW o, IsOutput(o), NEW left \in Int
  PROVE  LET p == [o EXCEPT !.value = left]
         IN /\ p = [value |-> left, locking_script |-> o.locking_script, token |-> o.token]
            /\ IsOutput(p) /\ output_script_bytes(p) = output_script_bytes(o)
<1> DEFINE p == [o EXCEPT !.value = left]
<1>1. p = [value |-> left, locking_script |-> o.locking_script, token |-> o.token]
  BY DEF IsOutput
<1> HIDE DEF p
<1>2. p.value = left /\ p.locking_script = o.locking_script /\ p.token = o.token
  BY <1>1
<1>3. IsOutput(p)
  BY <1>1, <1>2 DEF IsOutput
<1>4. output_script_bytes(p) = output_script_bytes(o)
  BY <1>2 DEF output_script_bytes
<1> QED
  BY <1>1, <1>3, <1>4 DEF p

(* What becomes of a draft: the output that was to be worth the rest is, the inputs are those *)
(* planned, and it is as long as it was.                                                      *)
IsFinished(b, d, ins, i, left) ==
    /\ b.raw = encode_tx(b.tx) /\ Size(b.raw) = Size(encode_tx(d)) /\ Size(b.raw) \in Nat
    /\ IsTx(b.tx)
    /\ Len(b.tx.inputs) = Len(ins)
    /\ \A j \in 1..Len(ins) : b.tx.inputs[j].prev = ins[j].prev
    /\ Len(b.tx.outputs) = Len(d.outputs)
    /\ \A j \in 1..Len(d.outputs) : b.tx.outputs[j] = IF j = i THEN [d.outputs[i] EXCEPT !.value = left]
                                                               ELSE d.outputs[j]

LEMMA Finished ==
  ASSUME NEW d, NEW ins, IsPlan(ins), IsDraft(d, ins), NEW i \in 1..Len(d.outputs), NEW left \in Int,
         NEW fee
  PROVE  LET f == Finish(d, ins, i, left, fee)
         IN f # Refused /\ f[1].fee = fee /\ IsFinished(f[1], d, ins, i, left)
<1> DEFINE m == Len(d.outputs)
           os == [d.outputs EXCEPT ![i].value = left]
           p == [d.outputs[i] EXCEPT !.value = left]
           e == [d EXCEPT !.outputs[i].value = left]
           s == sign_p2pkh_inputs(e, ins)
<1>1. m \in Nat /\ d.outputs = [j \in 1..m |-> d.outputs[j]] /\ \A j \in 1..m : IsOutput(d.outputs[j])
  BY DEF IsDraft, IsTx
<1>2. os = [j \in 1..m |-> IF j = i THEN p ELSE d.outputs[j]]
  BY <1>1
<1>3. IsOutput(p) /\ output_script_bytes(p) = output_script_bytes(d.outputs[i])
  <2> DEFINE o == d.outputs[i]
  <2>1. IsOutput(o)
    BY <1>1
  <2> HIDE DEF o
  <2>2. IsOutput([o EXCEPT !.value = left]) /\ output_script_bytes([o EXCEPT !.value = left]) = output_script_bytes(o)
    BY <2>1, Worth
  <2> QED
    BY <2>2 DEF o
<1>18. e = [d EXCEPT !.outputs = os]
  OBVIOUS
<1> HIDE DEF e, os, p
<1>4. e = [version |-> d.version, inputs |-> d.inputs, outputs |-> os, locktime |-> d.locktime]
  <2>1. d = [version |-> d.version, inputs |-> d.inputs, outputs |-> d.outputs, locktime |-> d.locktime]
    BY DEF IsDraft, IsTx
  <2> QED
    BY ONLY <1>18, <2>1
<1>5. e.version = d.version /\ e.inputs = d.inputs /\ e.outputs = os /\ e.locktime = d.locktime
  BY <1>4
<1>6. \A j \in 1..m : os[j] = IF j = i THEN p ELSE d.outputs[j]
  BY <1>2
<1>7. os = [j \in 1..m |-> os[j]]
  BY <1>2
<1>8. Len(os) = m
  <2> HIDE DEF m
  <2> QED
    BY <1>1, <1>7, FunctionIsSeq
<1>9. \A j \in 1..m : IsOutput(os[j]) /\ output_script_bytes(os[j]) = output_script_bytes(d.outputs[j])
  BY <1>1, <1>3, <1>6
<1>10. IsTx(e)
  <2>1. e = [version |-> e.version, inputs |-> e.inputs, outputs |-> e.outputs, locktime |-> e.locktime]
    BY <1>4, <1>5
  <2>2. Len(e.outputs) \in Nat /\ e.outputs = [j \in 1..Len(e.outputs) |-> e.outputs[j]]
    BY <1>1, <1>5, <1>7, <1>8
  <2>3. \A j \in 1..Len(e.outputs) : IsOutput(e.outputs[j])
    BY <1>5, <1>8, <1>9
  <2> QED
    BY <1>5, <2>1, <2>2, <2>3 DEF IsDraft, IsTx
<1>11. IsDraft(e, ins)
  BY <1>5, <1>10 DEF IsDraft
<1>12. /\ IsTx(s) /\ s.outputs = e.outputs /\ Len(s.inputs) = Len(ins)
       /\ \A j \in 1..Len(ins) : s.inputs[j].prev = ins[j].prev
       /\ Size(encode_tx(s)) = Size(encode_tx(e))
  <2> HIDE DEF s
  <2>1. LET t == sign_p2pkh_inputs(e, ins)
        IN /\ IsTx(t) /\ t.outputs = e.outputs /\ Len(t.inputs) = Len(ins)
           /\ \A j \in 1..Len(ins) : t.inputs[j].prev = ins[j].prev
           /\ Size(encode_tx(t)) = Size(encode_tx(e))
    BY <1>11, Signed
  <2> QED
    BY <2>1 DEF s
<1>13. Size(encode_tx(e)) = Size(encode_tx(d)) /\ Size(encode_tx(d)) \in Nat
  <2>1. IsTx(d)
    BY DEF IsDraft
  <2>2. Len(e.inputs) = Len(d.inputs) /\ Len(e.outputs) = Len(d.outputs)
    BY <1>5, <1>8
  <2>3. \A j \in 1..Len(d.inputs) : Size(e.inputs[j].unlock_script) = Size(d.inputs[j].unlock_script)
    BY <1>5
  <2>4. \A j \in 1..Len(d.outputs) : output_script_bytes(e.outputs[j]) = output_script_bytes(d.outputs[j])
    BY <1>5, <1>9
  <2> QED
    BY <1>10, <2>1, <2>2, <2>3, <2>4, EncodedSize
<1> DEFINE b == [tx |-> s, raw |-> encode_tx(s), fee |-> fee]
<1>14. Finish(d, ins, i, left, fee) = <<b>>
  BY DEF Finish, Encoded, s, e
<1> HIDE DEF s
<1>15. b.tx = s /\ b.raw = encode_tx(s) /\ b.fee = fee
  OBVIOUS
<1> HIDE DEF b
<1>16. IsFinished(b, d, ins, i, left)
  <2>1. b.raw = encode_tx(b.tx) /\ Size(b.raw) = Size(encode_tx(d)) /\ Size(b.raw) \in Nat
    BY <1>12, <1>13, <1>15
  <2>2. \A j \in 1..Len(d.outputs) : b.tx.outputs[j] = IF j = i THEN [d.outputs[i] EXCEPT !.value = left]
                                                                 ELSE d.outputs[j]
    BY <1>5, <1>6, <1>12, <1>15 DEF p
  <2>3. Len(b.tx.outputs) = Len(d.outputs)
    BY <1>5, <1>8, <1>12, <1>15
  <2>4. /\ IsTx(b.tx) /\ Len(b.tx.inputs) = Len(ins)
        /\ \A j \in 1..Len(ins) : b.tx.inputs[j].prev = ins[j].prev
    BY <1>12, <1>15
  <2> QED
    BY <2>1, <2>2, <2>3, <2>4 DEF IsFinished
<1>17. <<b>> # Refused /\ <<b>>[1] = b
  BY DEF Refused
<1> QED
  BY <1>14, <1>15, <1>16, <1>17

(* A draft of ins: what Draft makes is one, if its outputs are. *)
LEMMA DraftPlanned ==
  ASSUME NEW ins, IsPlan(ins), NEW os, NEW m \in Nat, os = [i \in 1..m |-> os[i]],
         \A i \in 1..m : IsOutput(os[i]), NEW locktime \in Int
  PROVE  IsDraft(Draft(ins, os, locktime), ins) /\ Draft(ins, os, locktime).outputs = os /\ Len(os) = m
<1> DEFINE n == Len(ins)
           x(i) == [prev |-> ins[i].prev, unlock_script |-> ins[i].unlock, sequence |-> SEQUENCE_TIMELOCK]
           xs == [i \in 1..n |-> x(i)]
           d == Draft(ins, os, locktime)
<1>1. n \in Nat /\ DOMAIN ins = 1..n
  BY DEF IsPlan
<1>2. d = [version |-> 2, inputs |-> xs, outputs |-> os, locktime |-> locktime]
  BY <1>1 DEF Draft
<1>3. ASSUME NEW i \in 1..n
      PROVE  IsInput(x(i)) /\ x(i).prev = ins[i].prev /\ x(i).unlock_script = ins[i].unlock
  <2> DEFINE p == ins[i]
  <2>1. IsSource(p)
    BY DEF IsPlan
  <2>2. x(i) = [prev |-> p.prev, unlock_script |-> p.unlock, sequence |-> SEQUENCE_TIMELOCK]
    OBVIOUS
  <2> HIDE DEF x
  <2>3. x(i).prev = p.prev /\ x(i).unlock_script = p.unlock /\ x(i).sequence = SEQUENCE_TIMELOCK
    BY <2>2
  <2>4. SEQUENCE_TIMELOCK \in Int
    BY DEF SEQUENCE_TIMELOCK
  <2> HIDE DEF p
  <2>5. IsInput(x(i))
    BY <2>1, <2>2, <2>3, <2>4 DEF IsInput, IsSource
  <2> QED
    BY <2>3, <2>5 DEF p
<1>4. \A i \in 1..n : xs[i] = x(i)
  OBVIOUS
<1>5. xs = [i \in 1..n |-> xs[i]]
  OBVIOUS
<1> HIDE DEF xs, x, n
<1>6. Len(xs) = n /\ Len(os) = m
  BY <1>1, <1>5, FunctionIsSeq
<1> HIDE DEF d
<1>7. d.version = 2 /\ d.inputs = xs /\ d.outputs = os /\ d.locktime = locktime
  BY <1>2
<1>8. IsTx(d)
  <2>1. d = [version |-> d.version, inputs |-> d.inputs, outputs |-> d.outputs, locktime |-> d.locktime]
    BY <1>2, <1>7
  <2>2. \A i \in 1..n : IsInput(xs[i])
    BY <1>3, <1>4
  <2> QED
    BY <1>1, <1>5, <1>6, <1>7, <2>1, <2>2 DEF IsTx
<1>9. \A i \in 1..n : d.inputs[i].prev = ins[i].prev /\ d.inputs[i].unlock_script = ins[i].unlock
  BY <1>3, <1>4, <1>7
<1>10. IsDraft(d, ins)
  BY <1>6, <1>7, <1>8, <1>9 DEF IsDraft, n
<1> QED
  BY <1>6, <1>7, <1>10 DEF d

-----------------------------------------------------------------------------
(* Amounts. *)

LEMMA SumIsSum ==
  ASSUME NEW n \in Nat, NEW os, DOMAIN os = 1..n
  PROVE  \E g : IsSum(g, [i \in 1..n |-> os[i].value], 1..n) /\ Sum(os) = g[1..n]
<1> DEFINE S == 1..n
           w == [i \in S |-> os[i].value]
           F(g) == [s \in SUBSET S |-> IF s = {} THEN 0
                       ELSE os[CHOOSE x \in s : TRUE].value + g[s \ {CHOOSE x \in s : TRUE}]]
           sum == CHOOSE g : g = F(g)
<1>1. \A s \in SUBSET S : s # {} => w[Pick(s)] = os[CHOOSE x \in s : TRUE].value
  <2> TAKE s \in SUBSET S
  <2> HAVE s # {}
  <2>1. Pick(s) \in S /\ Pick(s) = CHOOSE x \in s : TRUE
    BY DEF Pick
  <2> QED
    BY <2>1
<1>2. \A g : IsSum(g, w, S) <=> g = F(g)
  <2> TAKE g
  <2>1. [s \in SUBSET S |-> IF s = {} THEN 0 ELSE w[Pick(s)] + g[s \ {Pick(s)}]] = F(g)
    BY <1>1 DEF Pick
  <2> QED
    BY <2>1 DEF IsSum
<1>3. \E g : g = F(g)
  <2>1. \E g : IsSum(g, w, S)
    <3>1. IsFiniteSet(S)
      BY FS_Interval
    <3> HIDE DEF w, S
    <3> QED
      BY <3>1, SumExists
  <2> HIDE DEF w, F
  <2> QED
    BY <1>2, <2>1
<1>4. sum = F(sum)
  BY <1>3
<1>5. Sum(os) = sum[S]
  BY DEF Sum, MapThenSumSet, MapThenFoldSet
<1> QED
  BY <1>2, <1>4, <1>5

LEMMA TotalIsSum ==
  ASSUME NEW n \in Nat, NEW ins, DOMAIN ins = 1..n
  PROVE  \E g : IsSum(g, [i \in 1..n |-> ins[i].spends.value], 1..n) /\ Total(ins) = g[1..n]
<1> DEFINE S == 1..n
           w == [i \in S |-> ins[i].spends.value]
           F(g) == [s \in SUBSET S |-> IF s = {} THEN 0
                       ELSE ins[CHOOSE x \in s : TRUE].spends.value + g[s \ {CHOOSE x \in s : TRUE}]]
           sum == CHOOSE g : g = F(g)
<1>1. \A s \in SUBSET S : s # {} => w[Pick(s)] = ins[CHOOSE x \in s : TRUE].spends.value
  <2> TAKE s \in SUBSET S
  <2> HAVE s # {}
  <2>1. Pick(s) \in S /\ Pick(s) = CHOOSE x \in s : TRUE
    BY DEF Pick
  <2> QED
    BY <2>1
<1>2. \A g : IsSum(g, w, S) <=> g = F(g)
  <2> TAKE g
  <2>1. [s \in SUBSET S |-> IF s = {} THEN 0 ELSE w[Pick(s)] + g[s \ {Pick(s)}]] = F(g)
    BY <1>1 DEF Pick
  <2> QED
    BY <2>1 DEF IsSum
<1>3. \E g : g = F(g)
  <2>1. \E g : IsSum(g, w, S)
    <3>1. IsFiniteSet(S)
      BY FS_Interval
    <3> HIDE DEF w, S
    <3> QED
      BY <3>1, SumExists
  <2> HIDE DEF w, F
  <2> QED
    BY <1>2, <2>1
<1>4. sum = F(sum)
  BY <1>3
<1>5. Total(ins) = sum[S]
  BY DEF Total, MapThenSumSet, MapThenFoldSet
<1> QED
  BY <1>2, <1>4, <1>5

(* What the inputs are planned to hold is what the outputs they spend hold. *)
LEMMA SumIsTotal ==
  ASSUME NEW n \in Nat, NEW os, DOMAIN os = 1..n, NEW ins, DOMAIN ins = 1..n,
         \A i \in 1..n : os[i].value = ins[i].spends.value
  PROVE  Sum(os) = Total(ins)
<1> DEFINE S == 1..n
           w == [i \in S |-> os[i].value]
           u == [i \in S |-> ins[i].spends.value]
<1>1. PICK g : IsSum(g, w, S) /\ Sum(os) = g[S]
  BY SumIsSum
<1>2. PICK h : IsSum(h, u, S) /\ Total(ins) = h[S]
  BY TotalIsSum
<1>3. \A x \in S : w[x] = u[x]
  OBVIOUS
<1>4. IsFiniteSet(S) /\ S \subseteq S
  BY FS_Interval
<1> HIDE DEF w, u, S
<1>5. g[S] = h[S]
  BY <1>1, <1>2, <1>3, <1>4, SumUnique
<1> QED
  BY <1>1, <1>2, <1>5

LEMMA TotalInt ==
  ASSUME NEW n \in Nat, NEW ins, DOMAIN ins = 1..n, \A i \in 1..n : ins[i].spends.value \in Int
  PROVE  Total(ins) \in Int
<1> DEFINE S == 1..n
           u == [i \in S |-> ins[i].spends.value]
<1>2. PICK h : IsSum(h, u, S) /\ Total(ins) = h[S]
  BY TotalIsSum
<1>3. \A x \in S : u[x] \in Int
  OBVIOUS
<1>4. IsFiniteSet(S) /\ S \in SUBSET S
  BY FS_Interval
<1> HIDE DEF u, S
<1>5. \A T \in SUBSET S : h[T] \in Int
  BY <1>2, <1>3, <1>4, SumInt
<1> QED
  BY <1>2, <1>4, <1>5

LEMMA SumOfFew ==
  ASSUME NEW n \in {1, 2, 3}, NEW os, DOMAIN os = 1..n, \A i \in 1..n : os[i].value \in Int
  PROVE  Sum(os) = os[1].value + (IF n > 1 THEN os[2].value ELSE 0) + (IF n > 2 THEN os[3].value ELSE 0)
<1> DEFINE S == 1..n
           w == [i \in S |-> os[i].value]
<1>1. PICK g : IsSum(g, w, S) /\ Sum(os) = g[S]
  BY SumIsSum
<1>3. \A x \in S : w[x] \in Int /\ w[x] = os[x].value
  OBVIOUS
<1>4. IsFiniteSet(S)
  BY FS_Interval
<1> HIDE DEF w, S
<1>5. /\ g[{}] = 0
      /\ \A T \in SUBSET S : \A y \in T : g[T] = w[y] + g[T \ {y}]
  BY <1>1, <1>3, <1>4, SumInt
<1>9. ASSUME NEW T, T \subseteq S, NEW y \in T, NEW R, R = T \ {y}
      PROVE  g[T] = os[y].value + g[R]
  <2>1. T \in SUBSET S /\ y \in S
    BY <1>9
  <2>2. g[T] = w[y] + g[T \ {y}]
    BY <1>5, <1>9, <2>1, Zenon
  <2>3. w[y] = os[y].value
    BY <1>3, <2>1
  <2> QED
    BY ONLY <1>9, <2>2, <2>3
<1>10. g[{}] = 0 /\ \A i \in S : os[i].value \in Int
  BY <1>3, <1>5
<1>6. CASE n = 1
  <2>1. S \subseteq S /\ 1 \in S /\ {} = S \ {1}
    BY <1>6 DEF S
  <2>2. g[S] = os[1].value + g[{}]
    BY <1>9, <2>1
  <2> QED
    BY <1>1, <1>6, <1>10, <2>1, <2>2
<1>7. CASE n = 2
  <2> DEFINE A == {2}
  <2>1. S \subseteq S /\ 1 \in S /\ 2 \in S /\ A = S \ {1} /\ A \subseteq S /\ 2 \in A /\ {} = A \ {2}
    BY <1>7 DEF S
  <2> HIDE DEF A
  <2>2. g[S] = os[1].value + g[A]
    BY <1>9, <2>1
  <2>3. g[A] = os[2].value + g[{}]
    BY <1>9, <2>1
  <2> QED
    BY <1>1, <1>7, <1>10, <2>1, <2>2, <2>3
<1>8. CASE n = 3
  <2> DEFINE A == {2, 3}
             B == {3}
  <2>1. /\ S \subseteq S /\ 1 \in S /\ 2 \in S /\ 3 \in S
        /\ A = S \ {1} /\ A \subseteq S /\ 2 \in A
        /\ B = A \ {2} /\ B \subseteq S /\ 3 \in B /\ {} = B \ {3}
    BY <1>8 DEF S
  <2> HIDE DEF A, B
  <2>2. g[S] = os[1].value + g[A]
    BY <1>9, <2>1
  <2>3. g[A] = os[2].value + g[B]
    BY <1>9, <2>1
  <2>4. g[B] = os[3].value + g[{}]
    BY <1>9, <2>1
  <2> QED
    BY <1>1, <1>8, <1>10, <2>1, <2>2, <2>3, <2>4
<1> QED
  BY <1>6, <1>7, <1>8

-----------------------------------------------------------------------------
(* Sorting. *)

LEMMA LeastOf ==
  ASSUME NEW S, IsFiniteSet(S), S # {}, NEW rank, \A t \in S : rank[t] \in Int
  PROVE  \E t \in S : \A u \in S : rank[t] <= rank[u]
<1> DEFINE Least(T) == \E t \in T : \A u \in T : rank[t] <= rank[u]
           Good == {T \in SUBSET S : T # {} => Least(T)}
<1>1. {} \in Good
  OBVIOUS
<1>2. ASSUME NEW T \in Good, NEW x \in S PROVE T \cup {x} \in Good
  <2> SUFFICES Least(T \cup {x})
    OBVIOUS
  <2>1. CASE T = {}
    <3>1. T \cup {x} = {x} /\ rank[x] <= rank[x]
      BY <2>1
    <3> QED
      BY <3>1
  <2>2. CASE T # {}
    <3>1. PICK t \in T : \A u \in T : rank[t] <= rank[u]
      BY <2>2
    <3>2. t \in S /\ rank[t] \in Int /\ rank[x] \in Int /\ \A u \in T : rank[u] \in Int
      OBVIOUS
    <3>3. CASE rank[t] <= rank[x]
      <4>1. \A u \in T \cup {x} : rank[t] <= rank[u]
        BY <3>1, <3>3
      <4> QED
        BY <4>1
    <3>4. CASE ~(rank[t] <= rank[x])
      <4>1. \A u \in T \cup {x} : rank[x] <= rank[u]
        BY <3>1, <3>2, <3>4
      <4> QED
        BY <4>1
    <3> QED
      BY <3>3, <3>4
  <2> QED
    BY <2>1, <2>2
<1>3. Good = SUBSET S
  <2> HIDE DEF Good
  <2>1. Good \in SUBSET SUBSET S
    BY DEF Good
  <2> QED
    BY <1>1, <1>2, <2>1, SetInductive
<1>4. S \in Good
  BY <1>3
<1> QED
  BY <1>4

(* What is left of a set from which pick takes one thing at a time. *)
Leaves(S, pick, left, n) ==
    left = [i \in 0..n |-> IF i = 0 THEN S ELSE left[i - 1] \ {pick[left[i - 1]]}]

LEMMA LeavesExists ==
  ASSUME NEW S, NEW pick, NEW n \in Nat
  PROVE  \E left : Leaves(S, pick, left, n)
<1> DEFINE Next1(g, i) == g[i - 1] \ {pick[g[i - 1]]}
           Upto0(g, m) == g[0] = S /\ \A i \in 1..n : i <= m => g[i] = Next1(g, i)
           Good == {m \in Nat : \E g : Upto0(g, m)}
<1>1. 0 \in Good
  <2> DEFINE g == [i \in 0..n |-> S]
  <2>1. Upto0(g, 0)
    OBVIOUS
  <2> HIDE DEF g, Upto0
  <2> QED
    BY <2>1
<1>2. ASSUME NEW m \in Good PROVE m + 1 \in Good
  <2>1. m \in Nat /\ \E g : Upto0(g, m)
    OBVIOUS
  <2>2. PICK g : Upto0(g, m)
    BY <2>1
  <2>3. g[0] = S /\ \A i \in 1..n : i <= m => g[i] = Next1(g, i)
    BY <2>2
  <2> DEFINE h == [i \in 0..n |-> IF i <= m THEN g[i] ELSE Next1(g, i)]
  <2>4. \A i \in 0..n : h[i] = IF i <= m THEN g[i] ELSE Next1(g, i)
    OBVIOUS
  <2> HIDE DEF h, Good, Upto0
  <2>5. h[0] = S
    <3>1. 0 \in 0..n /\ 0 <= m
      BY <2>1
    <3>2. h[0] = g[0]
      BY <2>4, <3>1
    <3> QED
      BY <2>3, <3>2
  <2>6. ASSUME NEW i \in 1..n, i <= m + 1 PROVE h[i] = Next1(h, i)
    <3>1. i - 1 \in 0..n /\ i - 1 <= m /\ i \in 0..n
      BY <2>1, <2>6
    <3>2. h[i - 1] = g[i - 1]
      BY <2>4, <3>1
    <3>3. h[i] = Next1(g, i)
      BY <2>3, <2>4, <3>1
    <3> QED
      BY <3>2, <3>3
  <2>7. Upto0(h, m + 1)
    BY <2>5, <2>6 DEF Upto0
  <2> QED
    BY <2>1, <2>7 DEF Good
<1>3. Good = Nat
  <2> HIDE DEF Good
  <2>1. Good \in SUBSET Nat
    BY DEF Good
  <2> QED
    BY <1>1, <1>2, <2>1, NatInductive
<1>4. PICK g : Upto0(g, n)
  <2>1. n \in Good
    BY <1>3
  <2> HIDE DEF Upto0
  <2> QED
    BY <2>1
<1>5. g[0] = S /\ \A i \in 1..n : g[i] = Next1(g, i)
  BY <1>4
<1> DEFINE left == [i \in 0..n |-> g[i]]
<1>6. \A i \in 0..n : left[i] = g[i]
  OBVIOUS
<1>7. left = [i \in 0..n |-> left[i]]
  OBVIOUS
<1> HIDE DEF left
<1>8. ASSUME NEW i \in 0..n PROVE left[i] = IF i = 0 THEN S ELSE left[i - 1] \ {pick[left[i - 1]]}
  <2>1. CASE i = 0
    BY <1>5, <1>6, <2>1
  <2>2. CASE i # 0
    <3>1. i \in 1..n /\ i - 1 \in 0..n
      BY <2>2
    <3>2. left[i - 1] = g[i - 1] /\ left[i] = g[i] /\ g[i] = g[i - 1] \ {pick[g[i - 1]]}
      BY <1>5, <1>6, <3>1
    <3> QED
      BY <2>2, <3>2
  <2> QED
    BY <2>1, <2>2
<1>9. left = [i \in 0..n |-> IF i = 0 THEN S ELSE left[i - 1] \ {pick[left[i - 1]]}]
  BY <1>7, <1>8
<1> QED
  BY <1>9 DEF Leaves

LEMMA Leaving ==
  ASSUME NEW S, IsFiniteSet(S), NEW n, n = Cardinality(S), NEW pick, NEW left, Leaves(S, pick, left, n),
         \A T \in SUBSET S : T # {} => pick[T] \in T
  PROVE  /\ n \in Nat
         /\ \A i \in 0..n : left[i] \subseteq S
         /\ \A i \in 1..n : /\ pick[left[i - 1]] \in left[i - 1]
                            /\ left[i] = left[i - 1] \ {pick[left[i - 1]]}
         /\ left[0] = S /\ left[n] = {}
<1>1. n \in Nat
  BY FS_CardinalityType
<1>2. left[0] = S
  BY <1>1 DEF Leaves
<1>3. ASSUME NEW i \in 1..n PROVE left[i] = left[i - 1] \ {pick[left[i - 1]]}
  <2>1. i \in 0..n /\ i # 0
    BY <1>1
  <2> QED
    BY <2>1 DEF Leaves
<1> DEFINE Good == {i \in Nat : i <= n => left[i] \subseteq S /\ IsFiniteSet(left[i]) /\ Cardinality(left[i]) = n - i}
<1>4. 0 \in Good
  BY <1>1, <1>2
<1>5. ASSUME NEW i \in Nat, i + 1 <= n, left[i] \subseteq S, IsFiniteSet(left[i]), Cardinality(left[i]) = n - i
      PROVE  /\ pick[left[i]] \in left[i]
             /\ left[i + 1] \subseteq S /\ IsFiniteSet(left[i + 1]) /\ Cardinality(left[i + 1]) = n - (i + 1)
  <2> DEFINE T == left[i]
             R == left[i + 1]
             x == pick[T]
  <2>1. T # {}
    <3>1. Cardinality(T) # 0
      BY <1>1, <1>5
    <3> HIDE DEF T
    <3> QED
      BY <3>1, FS_EmptySet
  <2>2. x \in T
    BY <1>5, <2>1
  <2>3. R = T \ {x}
    <3>1. i + 1 \in 1..n /\ (i + 1) - 1 = i
      BY <1>1, <1>5
    <3>2. left[i + 1] = left[(i + 1) - 1] \ {pick[left[(i + 1) - 1]]}
      BY <1>3, <3>1
    <3> QED
      BY <3>1, <3>2
  <2>4. T \subseteq S /\ IsFiniteSet(T) /\ Cardinality(T) = n - i
    BY <1>5
  <2> HIDE DEF T, R, x
  <2>5. IsFiniteSet(T \ {x}) /\ Cardinality(T \ {x}) = Cardinality(T) - 1
    BY <2>2, <2>4, FS_RemoveElement
  <2>6. R \subseteq S /\ IsFiniteSet(R) /\ Cardinality(R) = n - (i + 1)
    BY <1>1, <2>3, <2>4, <2>5
  <2> QED
    BY <2>2, <2>6 DEF T, R, x
<1>6. ASSUME NEW i \in Good PROVE i + 1 \in Good
  BY <1>1, <1>5
<1>7. Good = Nat
  <2> HIDE DEF Good
  <2>1. Good \in SUBSET Nat
    BY DEF Good
  <2> QED
    BY <1>4, <1>6, <2>1, NatInductive
<1>8. ASSUME NEW i \in 0..n PROVE left[i] \subseteq S /\ IsFiniteSet(left[i]) /\ Cardinality(left[i]) = n - i
  <2>1. i \in Good /\ i <= n
    BY <1>1, <1>7
  <2> QED
    BY <2>1
<1>9. ASSUME NEW i \in 1..n PROVE pick[left[i - 1]] \in left[i - 1]
  <2> DEFINE j == i - 1
  <2>1. j \in Nat /\ j + 1 <= n /\ j \in 0..n
    BY <1>1
  <2> HIDE DEF j
  <2>2. left[j] \subseteq S /\ IsFiniteSet(left[j]) /\ Cardinality(left[j]) = n - j
    BY <1>8, <2>1
  <2>3. pick[left[j]] \in left[j]
    BY <1>5, <2>1, <2>2
  <2> QED
    BY <2>3 DEF j
<1>10. left[n] = {}
  <2> DEFINE T == left[n]
  <2>1. IsFiniteSet(T) /\ Cardinality(T) = 0
    BY <1>1, <1>8
  <2> HIDE DEF T
  <2>2. T = {}
    BY <2>1, FS_EmptySet
  <2> QED
    BY <2>2 DEF T
<1> QED
  BY <1>1, <1>2, <1>3, <1>8, <1>9, <1>10

(* InOrder lists a set, each member once, by rank. *)
LEMMA InOrderFacts ==
  ASSUME NEW S, IsFiniteSet(S), NEW rank, \A t \in S : rank[t] \in Int
  PROVE  LET s == InOrder(S, rank)
             n == Cardinality(S)
         IN /\ n \in Nat /\ Len(s) = n /\ s = [i \in 1..n |-> s[i]]
            /\ \A i \in 1..n : s[i] \in S
            /\ \A t \in S : \E i \in 1..n : s[i] = t
            /\ \A i \in 1..n, j \in 1..n : i < j => s[i] # s[j] /\ rank[s[i]] <= rank[s[j]]
<1> DEFINE n == Cardinality(S)
           First(T) == CHOOSE t \in T : \A u \in T : rank[t] <= rank[u]
           pick == [T \in SUBSET S |-> First(T)]
           F(g) == [i \in 0..n |-> IF i = 0 THEN S ELSE g[i - 1] \ {First(g[i - 1])}]
           left == CHOOSE g : g = F(g)
           s == [i \in 1..n |-> First(left[i - 1])]
<1>1. n \in Nat
  BY FS_CardinalityType
<1>2. InOrder(S, rank) = s
  BY DEF InOrder
<1>3. ASSUME NEW T \in SUBSET S, T # {}
      PROVE  First(T) \in T /\ \A u \in T : rank[First(T)] <= rank[u]
  <2>1. IsFiniteSet(T) /\ \A t \in T : rank[t] \in Int
    BY FS_Subset
  <2>2. \E t \in T : \A u \in T : rank[t] <= rank[u]
    BY <1>3, <2>1, LeastOf
  <2> QED
    BY <2>2
<1>4. \A T \in SUBSET S : pick[T] = First(T)
  OBVIOUS
<1>5. \A T \in SUBSET S : T # {} => pick[T] \in T /\ \A u \in T : rank[pick[T]] <= rank[u]
  <2> HIDE DEF First, pick
  <2> QED
    BY <1>3, <1>4
<1> HIDE DEF pick, First, n
<1>6. \E g : g = F(g)
  <2>1. PICK g : Leaves(S, pick, g, n)
    BY <1>1, LeavesExists
  <2>2. /\ \A i \in 0..n : g[i] \subseteq S
        /\ g = [i \in 0..n |-> IF i = 0 THEN S ELSE g[i - 1] \ {pick[g[i - 1]]}]
    <3>1. \A T \in SUBSET S : T # {} => pick[T] \in T
      BY <1>5
    <3>2. \A i \in 0..n : g[i] \subseteq S
      BY <2>1, <3>1, Leaving DEF n
    <3> QED
      BY <2>1, <3>2 DEF Leaves
  <2>3. ASSUME NEW i \in 0..n
        PROVE  (IF i = 0 THEN S ELSE g[i - 1] \ {pick[g[i - 1]]})
               = (IF i = 0 THEN S ELSE g[i - 1] \ {First(g[i - 1])})
    <3>1. CASE i = 0
      BY <3>1
    <3>2. CASE i # 0
      <4>1. i - 1 \in 0..n
        BY <1>1, <3>2
      <4>2. g[i - 1] \in SUBSET S
        BY <2>2, <4>1
      <4>3. pick[g[i - 1]] = First(g[i - 1])
        BY <1>4, <4>2
      <4> QED
        BY <4>3
    <3> QED
      BY <3>1, <3>2
  <2>4. g = F(g)
    BY <2>2, <2>3
  <2> QED
    BY <2>4
<1>7. left = F(left)
  <2> HIDE DEF F
  <2> QED
    BY <1>6
<1> HIDE DEF left
<1>8. /\ left[0] = S
      /\ \A i \in 1..n : left[i] = left[i - 1] \ {First(left[i - 1])}
      /\ left = [i \in 0..n |-> left[i]]
  <2>1. \A i \in 0..n : left[i] = IF i = 0 THEN S ELSE left[i - 1] \ {First(left[i - 1])}
    BY <1>7
  <2>2. left = [i \in 0..n |-> left[i]]
    BY <1>7
  <2>3. left[0] = S
    <3>1. 0 \in 0..n
      BY <1>1
    <3> QED
      BY <2>1, <3>1
  <2>4. ASSUME NEW i \in 1..n PROVE left[i] = left[i - 1] \ {First(left[i - 1])}
    <3>1. i \in 0..n /\ i # 0
      BY <1>1
    <3> QED
      BY <2>1, <3>1
  <2> QED
    BY <2>2, <2>3, <2>4
<1> DEFINE Good == {i \in Nat : i <= n => left[i] \subseteq S}
<1>9. Good = Nat
  <2>1. 0 \in Good
    BY <1>8
  <2>2. ASSUME NEW i \in Good PROVE i + 1 \in Good
    <3> SUFFICES ASSUME i + 1 <= n PROVE left[i + 1] \subseteq S
      OBVIOUS
    <3>1. i + 1 \in 1..n /\ (i + 1) - 1 = i /\ left[i] \subseteq S
      BY <1>1
    <3>2. left[i + 1] = left[(i + 1) - 1] \ {First(left[(i + 1) - 1])}
      BY <1>8, <3>1
    <3>3. left[i + 1] \subseteq left[i]
      BY <3>1, <3>2
    <3> QED
      BY <3>1, <3>3
  <2> HIDE DEF Good
  <2>3. Good \in SUBSET Nat
    BY DEF Good
  <2> QED
    BY <2>1, <2>2, <2>3, NatInductive
<1>10. \A i \in 0..n : left[i] \in SUBSET S
  <2> TAKE i \in 0..n
  <2>1. i \in Good /\ i <= n
    BY <1>1, <1>9
  <2> QED
    BY <2>1
<1>11. Leaves(S, pick, left, n)
  <2>1. ASSUME NEW i \in 0..n
        PROVE  left[i] = IF i = 0 THEN S ELSE left[i - 1] \ {pick[left[i - 1]]}
    <3>1. CASE i = 0
      BY <1>8, <3>1
    <3>2. CASE i # 0
      <4>1. i - 1 \in 0..n /\ i \in 1..n
        BY <1>1, <3>2
      <4>2. pick[left[i - 1]] = First(left[i - 1])
        BY <1>4, <1>10, <4>1
      <4> QED
        BY <1>8, <3>2, <4>1, <4>2
    <3> QED
      BY <3>1, <3>2
  <2> QED
    BY <1>8, <2>1 DEF Leaves
<1>12. /\ \A i \in 1..n : /\ pick[left[i - 1]] \in left[i - 1]
                          /\ left[i] = left[i - 1] \ {pick[left[i - 1]]}
       /\ left[n] = {}
  <2>1. \A T \in SUBSET S : T # {} => pick[T] \in T
    BY <1>5
  <2>2. n = Cardinality(S)
    BY DEF n
  <2> QED
    BY <1>11, <2>1, <2>2, Leaving
<1>13. ASSUME NEW i \in 1..n
       PROVE  /\ s[i] \in left[i - 1] /\ left[i] = left[i - 1] \ {s[i]}
              /\ \A u \in left[i - 1] : rank[s[i]] <= rank[u]
  <2>1. i - 1 \in 0..n
    BY <1>1
  <2>2. left[i - 1] \in SUBSET S
    BY <1>10, <2>1
  <2>3. s[i] = pick[left[i - 1]]
    BY <1>4, <2>2
  <2>4. pick[left[i - 1]] \in left[i - 1]
    BY <1>12
  <2> HIDE DEF s
  <2> QED
    BY <1>5, <1>12, <2>2, <2>3, <2>4
<1>14. s = [i \in 1..n |-> s[i]]
  OBVIOUS
<1> HIDE DEF s
<1>15. Len(s) = n
  BY <1>1, <1>14, FunctionIsSeq
<1>16. \A i \in 1..n : s[i] \in S
  <2> TAKE i \in 1..n
  <2>1. i - 1 \in 0..n
    BY <1>1
  <2> QED
    BY <1>10, <1>13, <2>1
<1> DEFINE Listed == {i \in Nat : i <= n => left[i] = S \ {s[k] : k \in 1..i}}
<1>17. Listed = Nat
  <2>1. 0 \in Listed
    <3>1. 1..0 = {}
      OBVIOUS
    <3>2. {s[k] : k \in 1..0} = {}
      BY <3>1
    <3> QED
      BY <1>8, <3>2
  <2>2. ASSUME NEW i \in Listed PROVE i + 1 \in Listed
    <3> SUFFICES ASSUME i + 1 <= n PROVE left[i + 1] = S \ {s[k] : k \in 1..(i + 1)}
      OBVIOUS
    <3>1. i + 1 \in 1..n /\ (i + 1) - 1 = i /\ left[i] = S \ {s[k] : k \in 1..i}
      BY <1>1
    <3>2. left[i + 1] = left[i] \ {s[i + 1]}
      BY <1>13, <3>1
    <3>3. 1..(i + 1) = (1..i) \cup {i + 1}
      OBVIOUS
    <3>4. {s[k] : k \in 1..(i + 1)} = {s[k] : k \in 1..i} \cup {s[i + 1]}
      BY <3>3
    <3> QED
      BY <3>1, <3>2, <3>4
  <2> HIDE DEF Listed
  <2>3. Listed \in SUBSET Nat
    BY DEF Listed
  <2> QED
    BY <2>1, <2>2, <2>3, NatInductive
<1>18. \A i \in 0..n : left[i] = S \ {s[k] : k \in 1..i}
  <2> TAKE i \in 0..n
  <2>1. i \in Listed /\ i <= n
    BY <1>1, <1>17
  <2> QED
    BY <2>1
<1> HIDE DEF Good, Listed
<1>19. \A t \in S : \E i \in 1..n : s[i] = t
  <2>1. n \in 0..n
    BY <1>1
  <2>2. S \ {s[k] : k \in 1..n} = {}
    BY <1>12, <1>18, <2>1
  <2> QED
    BY <2>2
<1>20. ASSUME NEW i \in 1..n, NEW j \in 1..n, i < j
       PROVE  s[i] # s[j] /\ rank[s[i]] <= rank[s[j]]
  <2>1. i - 1 \in 0..n /\ j - 1 \in 0..n /\ i \in 1..(j - 1) /\ 1..(i - 1) \subseteq 1..(j - 1)
    BY <1>1, <1>20
  <2>2. s[j] \in left[j - 1] /\ left[j - 1] = S \ {s[k] : k \in 1..(j - 1)}
    BY <1>13, <1>18, <2>1
  <2>3. s[j] # s[i]
    BY <2>1, <2>2
  <2>4. left[i - 1] = S \ {s[k] : k \in 1..(i - 1)}
    BY <1>18, <2>1
  <2>5. s[j] \in left[i - 1]
    BY <2>1, <2>2, <2>4
  <2> QED
    BY <1>13, <2>3, <2>5
<1> QED
  BY <1>1, <1>2, <1>14, <1>15, <1>16, <1>19, <1>20 DEF n

-----------------------------------------------------------------------------
(* What there is to spend. *)

Mints(o) == \E t \in ToSet(o.token) : t.capability = MINTING

AsHead(o, hash) ==
    /\ HasNFT(o, oracle_lock, MINTING)
    /\ \E state : /\ Text(state) /\ Size(state) = SNAPSHOT_LEN
                  /\ o.token[1].commitment = state \o hash
AsHead26(o, hash) ==
    /\ HasNFT(o, oracle26_lock, MINTING)
    /\ \E state : /\ Text(state) /\ Size(state) = Legacy_SNAPSHOT_LEN
                  /\ o.token[1].commitment = state \o hash
AsRetired(o) ==
    HasNFT(o, o.locking_script, MINTING) /\ IsKeyLock(o.locking_script) /\ Text(o.token[1].commitment)
AsTicker(o) ==
    /\ HasNFT(o, ticker_lock, NO_CAPABILITY)
    /\ Text(o.token[1].commitment) /\ Size(o.token[1].commitment) = SNAPSHOT_LEN
    /\ Decoded(o.token[1].commitment).ts \in Int
AsTicker26(o) ==
    /\ HasNFT(o, ticker26_lock, NO_CAPABILITY)
    /\ Text(o.token[1].commitment) /\ Size(o.token[1].commitment) = Legacy_SNAPSHOT_LEN
    /\ Decoded26(o.token[1].commitment).seq \in Int

(* An output that the commands leave behind while the head has a table of this hash. *)
Kind(o, hash) ==
    \/ IsCoin(o) \/ AsTicker(o) \/ AsTicker26(o)
    \/ AsHead(o, hash) \/ AsHead26(o, hash) \/ AsRetired(o)

(* An NFT is as it was built. *)
LEMMA NFTFacts ==
  ASSUME NEW o, NEW lock, NEW capability, HasNFT(o, lock, capability)
  PROVE  /\ o.locking_script = lock /\ o.token[1].capability = capability
         /\ o.token = <<o.token[1]>> /\ o.token # <<>>
         /\ Mints(o) <=> capability = MINTING
         /\ Reversed(o.token[1].category) = Display(NameOf(o.token[1].category))
         /\ o.token[1].category = Reversed(Display(NameOf(o.token[1].category)))
         /\ o.token[1].amount = 0
         /\ o = [value |-> o.value, locking_script |-> lock, token |-> <<o.token[1]>>]
         /\ o.token[1] = [category |-> o.token[1].category, capability |-> capability,
                          commitment |-> o.token[1].commitment, amount |-> 0]
<1> DEFINE c == o.token[1].commitment
           id == Display(NameOf(o.token[1].category))
           t == [category |-> Reversed(id), capability |-> capability, commitment |-> c, amount |-> 0]
           v == o.value
<1>1. o = [value |-> v, locking_script |-> lock, token |-> <<t>>]
  BY DEF HasNFT, Token, Paid
<1>2. Reversed(Reversed(id)) = id
  BY IdFacts
<1> HIDE DEF v
<1>3. o.locking_script = lock /\ o.token = <<t>> /\ o.value = v
  <2> HIDE DEF t
  <2> QED
    BY <1>1
<1>4. o.token[1] = t
  <2> HIDE DEF t
  <2> QED
    BY <1>3
<1>5. t.category = Reversed(id) /\ t.capability = capability /\ t.amount = 0
  OBVIOUS
<1>6. ToSet(o.token) = {t}
  <2> HIDE DEF t
  <2> QED
    BY <1>3 DEF ToSet
<1>7. Mints(o) <=> capability = MINTING
  <2> HIDE DEF t
  <2> QED
    BY <1>5, <1>6 DEF Mints
<1>8. o.token # <<>>
  BY <1>3
<1>9. Reversed(o.token[1].category) = id /\ o.token[1].category = Reversed(id)
  <2> HIDE DEF t, id
  <2> QED
    BY <1>2, <1>4, <1>5
<1>10. o = [value |-> o.value, locking_script |-> lock, token |-> <<o.token[1]>>]
  <2> HIDE DEF t
  <2> QED
    BY <1>1, <1>3, <1>4
<1>11. o.token[1] = [category |-> o.token[1].category, capability |-> capability,
                     commitment |-> o.token[1].commitment, amount |-> 0]
  <2> HIDE DEF id
  <2> DEFINE x == o.token[1]
  <2>1. x = [category |-> Reversed(id), capability |-> capability, commitment |-> x.commitment, amount |-> 0]
    BY <1>4
  <2> HIDE DEF x
  <2>2. x = [category |-> x.category, capability |-> capability, commitment |-> x.commitment, amount |-> 0]
    BY <2>1
  <2> QED
    BY <2>2 DEF x
<1> HIDE DEF t, id
<1> QED
  BY <1>3, <1>4, <1>5, <1>7, <1>8, <1>9, <1>10, <1>11 DEF id

LEMMA NFTOutput ==
  ASSUME NEW o, NEW lock, NEW capability \in {NO_CAPABILITY, MINTING}, HasNFT(o, lock, capability),
         Text(lock), Text(o.token[1].commitment), o.value \in Int
  PROVE  IsOutput(o)
<1> DEFINE t == o.token[1]
           n == NameOf(o.token[1].category)
<1>1. /\ o.locking_script = lock /\ o.token[1].capability = capability
      /\ o.token = <<o.token[1]>>
      /\ o.token[1].category = Reversed(Display(n)) /\ o.token[1].amount = 0
      /\ o = [value |-> o.value, locking_script |-> lock, token |-> <<o.token[1]>>]
      /\ o.token[1] = [category |-> o.token[1].category, capability |-> capability,
                       commitment |-> o.token[1].commitment, amount |-> 0]
  BY NFTFacts
<1>2. Text(Reversed(Display(n))) /\ Size(Reversed(Display(n))) = 32
  BY IdFacts
<1> HIDE DEF n
<1>3. IsToken(o.token[1])
  <2>1. t = [category |-> t.category, capability |-> t.capability, commitment |-> t.commitment, amount |-> t.amount]
    BY <1>1
  <2>2. Text(t.category) /\ Size(t.category) = 32 /\ t.amount \in Nat /\ Text(t.commitment)
        /\ t.capability \in {NO_CAPABILITY, 1, MINTING}
    BY <1>1, <1>2
  <2> QED
    BY <2>1, <2>2 DEF IsToken
<1>4. o = [value |-> o.value, locking_script |-> o.locking_script, token |-> o.token]
  BY <1>1
<1>5. Text(o.locking_script)
  BY <1>1
<1> QED
  BY <1>1, <1>3, <1>4, <1>5 DEF IsOutput

(* The operator's lock is a key's. *)
LEMMA OperatorsLock == IsKeyLock(OperatorLock)
  BY HashTexts, KeyLocks DEF OperatorLock

LEMMA CoinFacts ==
  ASSUME NEW o, IsCoin(o)
  PROVE  /\ o = [value |-> o.value, locking_script |-> OperatorLock, token |-> <<>>]
         /\ o.locking_script = OperatorLock /\ o.token = <<>> /\ ~Mints(o)
         /\ o.value \in Int => IsOutput(o)
<1>1. o = [value |-> o.value, locking_script |-> OperatorLock, token |-> <<>>]
  BY DEF IsCoin, Paid
<1>2. o.locking_script = OperatorLock /\ o.token = <<>>
  BY <1>1
<1>3. ~Mints(o)
  BY <1>2 DEF Mints, ToSet
<1>4. o.value \in Int => IsOutput(o)
  BY <1>1, <1>2, OperatorsLock DEF IsOutput, IsKeyLock
<1> QED
  BY <1>1, <1>2, <1>3, <1>4

(* An NFT, or a coin, is one whatever it is worth. *)
LEMMA NFTWorth ==
  ASSUME NEW o, NEW lock, NEW capability, HasNFT(o, lock, capability), NEW left
  PROVE  LET p == [o EXCEPT !.value = left]
         IN /\ HasNFT(p, lock, capability) /\ p.token = o.token
            /\ p.locking_script = o.locking_script /\ p.value = left
<1> DEFINE p == [o EXCEPT !.value = left]
           tk == Token(Display(NameOf(o.token[1].category)), capability, o.token[1].commitment)
           v == o.value
<1>1. o = [value |-> v, locking_script |-> lock, token |-> tk] /\ o.token # <<>>
  BY DEF HasNFT, Paid
<1> HIDE DEF tk, v
<1>2. o.token = tk /\ o.locking_script = lock
  BY <1>1
<1>3. p = [value |-> left, locking_script |-> lock, token |-> tk]
  BY <1>1
<1> HIDE DEF p
<1>4. p.token = tk /\ p.locking_script = lock /\ p.value = left
  BY <1>3
<1>5. HasNFT(p, lock, capability)
  <2>1. p.token = o.token /\ p.token # <<>>
    BY <1>1, <1>2, <1>4
  <2>2. Paid(p.value, lock, tk) = [value |-> left, locking_script |-> lock, token |-> tk]
    BY <1>4 DEF Paid
  <2>3. tk = Token(Display(NameOf(p.token[1].category)), capability, p.token[1].commitment)
    BY <2>1 DEF tk
  <2> QED
    BY <1>3, <2>1, <2>2, <2>3 DEF HasNFT
<1> QED
  BY <1>2, <1>4, <1>5 DEF p

LEMMA CoinWorth ==
  ASSUME NEW o, IsCoin(o), NEW left
  PROVE  LET p == [o EXCEPT !.value = left]
         IN IsCoin(p) /\ p.token = o.token /\ p.value = left
<1> DEFINE p == [o EXCEPT !.value = left]
           v == o.value
<1>1. o = [value |-> v, locking_script |-> OperatorLock, token |-> <<>>]
  BY DEF IsCoin, Paid
<1> HIDE DEF v
<1>2. p = [value |-> left, locking_script |-> OperatorLock, token |-> <<>>] /\ o.token = <<>>
  BY <1>1
<1> HIDE DEF p
<1>3. p.value = left /\ p.token = <<>>
  BY <1>2
<1> QED
  BY <1>2, <1>3 DEF IsCoin, Paid, p

LEMMA KindWorth ==
  ASSUME NEW o, NEW hash, Kind(o, hash), NEW left
  PROVE  LET p == [o EXCEPT !.value = left]
         IN Kind(p, hash) /\ p.token = o.token /\ p.value = left
<1> DEFINE p == [o EXCEPT !.value = left]
<1>1. CASE IsCoin(o)
  <2>1. IsCoin(p) /\ p.token = o.token /\ p.value = left
    BY <1>1, CoinWorth
  <2> QED
    BY <2>1 DEF Kind
<1>2. ASSUME NEW lock, NEW capability, HasNFT(o, lock, capability)
      PROVE  /\ HasNFT(p, lock, capability) /\ p.token = o.token
             /\ p.locking_script = o.locking_script /\ p.value = left
  BY <1>2, NFTWorth
<1> HIDE DEF p
<1>3. CASE AsTicker(o)
  BY <1>2, <1>3 DEF AsTicker, Kind, p
<1>4. CASE AsTicker26(o)
  BY <1>2, <1>4 DEF AsTicker26, Kind, p
<1>5. CASE AsHead(o, hash)
  BY <1>2, <1>5 DEF AsHead, Kind, p
<1>6. CASE AsHead26(o, hash)
  BY <1>2, <1>6 DEF AsHead26, Kind, p
<1>7. CASE AsRetired(o)
  BY <1>2, <1>7 DEF AsRetired, Kind, p
<1> QED
  BY <1>1, <1>3, <1>4, <1>5, <1>6, <1>7 DEF Kind, p

(* Each kind is an output that reads back, and its lock gives it away. *)
LEMMA KindOutput ==
  ASSUME NEW o, NEW hash, Text(hash), Kind(o, hash), o.value \in Int
  PROVE  IsOutput(o)
<1>1. Text(ticker_lock) /\ Text(ticker26_lock) /\ Text(oracle_lock) /\ Text(oracle26_lock)
  BY CodeTexts
<1>2. ASSUME NEW lock, NEW capability \in {NO_CAPABILITY, MINTING}, HasNFT(o, lock, capability),
             Text(lock), Text(o.token[1].commitment)
      PROVE  IsOutput(o)
  BY <1>2, NFTOutput
<1>3. NO_CAPABILITY \in {NO_CAPABILITY, MINTING} /\ MINTING \in {NO_CAPABILITY, MINTING}
  OBVIOUS
<1>4. CASE IsCoin(o)
  BY <1>4, CoinFacts
<1>5. CASE AsTicker(o)
  BY <1>1, <1>2, <1>3, <1>5 DEF AsTicker
<1>6. CASE AsTicker26(o)
  BY <1>1, <1>2, <1>3, <1>6 DEF AsTicker26
<1>7. CASE AsHead(o, hash)
  <2>1. PICK state : Text(state) /\ o.token[1].commitment = state \o hash
    BY <1>7 DEF AsHead
  <2>2. Text(o.token[1].commitment)
    BY <2>1, Fronts
  <2> QED
    BY <1>1, <1>2, <1>3, <1>7, <2>2 DEF AsHead
<1>8. CASE AsHead26(o, hash)
  <2>1. PICK state : Text(state) /\ o.token[1].commitment = state \o hash
    BY <1>8 DEF AsHead26
  <2>2. Text(o.token[1].commitment)
    BY <2>1, Fronts
  <2> QED
    BY <1>1, <1>2, <1>3, <1>8, <2>2 DEF AsHead26
<1>9. CASE AsRetired(o)
  BY <1>2, <1>3, <1>9 DEF AsRetired, IsKeyLock
<1> QED
  BY <1>4, <1>5, <1>6, <1>7, <1>8, <1>9 DEF Kind

LEMMA KindByLock ==
  ASSUME NEW o, NEW hash, Kind(o, hash)
  PROVE  /\ o.locking_script = oracle_lock => AsHead(o, hash)
         /\ o.locking_script = oracle26_lock => AsHead26(o, hash)
         /\ o.locking_script = ticker_lock => AsTicker(o)
         /\ o.locking_script = ticker26_lock => AsTicker26(o)
         /\ Mints(o) <=> AsHead(o, hash) \/ AsHead26(o, hash) \/ AsRetired(o)
<1>1. ASSUME NEW lock, NEW capability, HasNFT(o, lock, capability)
      PROVE  o.locking_script = lock /\ (Mints(o) <=> capability = MINTING)
  BY <1>1, NFTFacts
<1>2. /\ oracle_lock \notin {OperatorLock, oracle26_lock, ticker_lock, ticker26_lock}
      /\ oracle26_lock \notin {OperatorLock, ticker_lock, ticker26_lock}
      /\ OperatorLock \notin {ticker_lock, ticker26_lock} /\ ticker_lock # ticker26_lock
  BY OperatorsLock, LocksDiffer
<1>3. NO_CAPABILITY # MINTING
  BY DEF NO_CAPABILITY, MINTING
<1>4. AsTicker(o) => o.locking_script = ticker_lock /\ ~Mints(o)
  BY <1>1, <1>3 DEF AsTicker
<1>5. AsTicker26(o) => o.locking_script = ticker26_lock /\ ~Mints(o)
  BY <1>1, <1>3 DEF AsTicker26
<1>6. AsHead(o, hash) => o.locking_script = oracle_lock /\ Mints(o)
  BY <1>1 DEF AsHead
<1>7. AsHead26(o, hash) => o.locking_script = oracle26_lock /\ Mints(o)
  BY <1>1 DEF AsHead26
<1>8. AsRetired(o) => Mints(o) /\ o.locking_script \notin {oracle_lock, oracle26_lock, ticker_lock, ticker26_lock}
  <2>1. IsKeyLock(o.locking_script) => o.locking_script \notin {oracle_lock, oracle26_lock, ticker_lock, ticker26_lock}
    BY LocksDiffer
  <2> QED
    BY <1>1, <2>1 DEF AsRetired
<1>9. IsCoin(o) => o.locking_script = OperatorLock /\ ~Mints(o)
  BY CoinFacts
<1> QED
  BY <1>2, <1>4, <1>5, <1>6, <1>7, <1>8, <1>9 DEF Kind

-----------------------------------------------------------------------------
(* What is built, from what is unspent. *)

Backed(x, U) == \E u \in U : u.outpoint = x.prev /\ u.out.value = x.spends.value
OneEach(U) == \A u, v \in U : u.outpoint = v.outpoint => u = v

PlanFrom(ins, U) == IsPlan(ins) /\ \A i \in 1..Len(ins) : Backed(ins[i], U)

SpentOf(U, tx) == [i \in DOMAIN tx.inputs |-> (CHOOSE u \in U : u.outpoint = tx.inputs[i].prev).out]

SoundFor(b, U) ==
    /\ b.raw = encode_tx(b.tx) /\ IsTx(b.tx)
    /\ \A i \in 1..Len(b.tx.inputs) : \E u \in U : u.outpoint = b.tx.inputs[i].prev
    /\ Sum(SpentOf(U, b.tx)) - Sum(b.tx.outputs) = Size(b.raw) + 1
    /\ b.fee = Size(b.raw) + 1

(* What the inputs of a finished transaction hold is what was planned. *)
LEMMA SpentIsTotal ==
  ASSUME NEW U, OneEach(U), NEW ins, PlanFrom(ins, U), NEW tx, IsTx(tx), Len(tx.inputs) = Len(ins),
         \A j \in 1..Len(ins) : tx.inputs[j].prev = ins[j].prev
  PROVE  /\ Sum(SpentOf(U, tx)) = Total(ins) /\ Total(ins) \in Int
         /\ \A i \in 1..Len(tx.inputs) : \E u \in U : u.outpoint = tx.inputs[i].prev
<1> DEFINE n == Len(ins)
           os == SpentOf(U, tx)
<1>1. n \in Nat /\ DOMAIN ins = 1..n /\ DOMAIN tx.inputs = 1..n
  BY DEF PlanFrom, IsPlan, IsTx
<1>2. \A i \in 1..n : ins[i].spends.value \in Int
  BY DEF PlanFrom, IsPlan, IsSource
<1>3. Total(ins) \in Int
  BY <1>1, <1>2, TotalInt
<1>4. DOMAIN os = 1..n /\ \A i \in 1..n : os[i] = (CHOOSE u \in U : u.outpoint = tx.inputs[i].prev).out
  BY <1>1 DEF SpentOf
<1> HIDE DEF os
<1>5. ASSUME NEW i \in 1..n
      PROVE  os[i].value = ins[i].spends.value /\ \E u \in U : u.outpoint = tx.inputs[i].prev
  <2> DEFINE p == tx.inputs[i].prev
  <2>1. p = ins[i].prev /\ Backed(ins[i], U)
    BY DEF PlanFrom
  <2>2. PICK u \in U : u.outpoint = p /\ u.out.value = ins[i].spends.value
    BY <2>1 DEF Backed
  <2>3. (CHOOSE w \in U : w.outpoint = p) = u
    <3>1. \A w \in U : w.outpoint = p => w = u
      BY <2>2 DEF OneEach
    <3> HIDE DEF p
    <3> QED
      BY <2>2, <3>1
  <2> QED
    BY <1>4, <2>2, <2>3
<1>6. Sum(os) = Total(ins)
  <2>1. \A i \in 1..n : os[i].value = ins[i].spends.value
    BY <1>5
  <2> HIDE DEF n
  <2> QED
    BY <1>1, <1>4, <2>1, SumIsTotal
<1> QED
  BY <1>3, <1>5, <1>6 DEF os

(* ps is os but for what output i is worth. *)
Revalued(n, os, ps, i, left) ==
    /\ n \in {1, 2, 3} /\ i \in 1..n /\ left \in Int
    /\ DOMAIN os = 1..n /\ \A j \in 1..n : os[j].value \in Int
    /\ DOMAIN ps = 1..n /\ \A j \in 1..n : ps[j].value = IF j = i THEN left ELSE os[j].value

LEMMA SumWithRest ==
  ASSUME NEW n, NEW os, NEW ps, NEW i, NEW left, Revalued(n, os, ps, i, left)
  PROVE  Sum(ps) = Sum(os) - os[i].value + left
<1> USE DEF Revalued
<1>1. Sum(os) = os[1].value + (IF n > 1 THEN os[2].value ELSE 0) + (IF n > 2 THEN os[3].value ELSE 0)
  BY SumOfFew
<1>2. \A j \in 1..n : ps[j].value \in Int
  OBVIOUS
<1>3. Sum(ps) = ps[1].value + (IF n > 1 THEN ps[2].value ELSE 0) + (IF n > 2 THEN ps[3].value ELSE 0)
  BY <1>2, SumOfFew
<1>4. CASE n = 1
  <2>1. i = 1 /\ 1 \in 1..n
    BY <1>4
  <2> QED
    BY <1>1, <1>3, <1>4, <2>1
<1>5. CASE n = 2
  <2>1. i \in {1, 2} /\ 1 \in 1..n /\ 2 \in 1..n
    BY <1>5
  <2> QED
    BY <1>1, <1>3, <1>5, <2>1
<1>6. CASE n = 3
  <2>1. i \in {1, 2, 3} /\ 1 \in 1..n /\ 2 \in 1..n /\ 3 \in 1..n
    BY <1>6
  <2> QED
    BY <1>1, <1>3, <1>6, <2>1
<1> QED
  BY <1>4, <1>5, <1>6

LEMMA BuiltSound ==
  ASSUME NEW U, OneEach(U), NEW ins, PlanFrom(ins, U), NEW d, IsDraft(d, ins),
         Len(d.outputs) \in {1, 2, 3}, NEW i \in 1..Len(d.outputs), NEW left,
         left = Total(ins) - fee_of(d) - (Sum(d.outputs) - d.outputs[i].value)
  PROVE  LET f == Finish(d, ins, i, left, fee_of(d))
         IN f # Refused /\ SoundFor(f[1], U) /\ IsFinished(f[1], d, ins, i, left)
<1> DEFINE n == Len(d.outputs)
           f == Finish(d, ins, i, left, fee_of(d))
           b == f[1]
           os == d.outputs
<1>1. IsTx(d) /\ IsPlan(ins) /\ Len(d.inputs) = Len(ins)
  BY DEF IsDraft, PlanFrom
<1>2. Size(encode_tx(d)) \in Nat /\ fee_of(d) = Size(encode_tx(d)) + 1 /\ fee_of(d) \in Int
  <2>1. Size(encode_tx(d)) \in Nat
    BY <1>1, EncodedSize
  <2> QED
    BY <2>1 DEF fee_of
<1>3. DOMAIN os = 1..n /\ \A j \in 1..n : os[j].value \in Int
  BY <1>1 DEF IsTx, IsOutput
<1>4. Total(ins) \in Int
  <2>1. Len(ins) \in Nat /\ DOMAIN ins = 1..Len(ins) /\ \A j \in 1..Len(ins) : ins[j].spends.value \in Int
    BY DEF PlanFrom, IsPlan, IsSource
  <2> QED
    BY <2>1, TotalInt
<1>5. Sum(os) \in Int
  <2> HIDE DEF os, n
  <2>1. n \in {1, 2, 3}
    BY DEF n
  <2>2. Sum(os) = os[1].value + (IF n > 1 THEN os[2].value ELSE 0) + (IF n > 2 THEN os[3].value ELSE 0)
    BY <1>3, <2>1, SumOfFew
  <2>3. 1 \in 1..n /\ (n > 1 => 2 \in 1..n) /\ (n > 2 => 3 \in 1..n)
    BY <2>1
  <2> QED
    BY <1>3, <2>1, <2>2, <2>3
<1>6. left \in Int
  BY <1>2, <1>3, <1>4, <1>5
<1>7. f # Refused /\ b.fee = fee_of(d) /\ IsFinished(b, d, ins, i, left)
  <2>1. LET g == Finish(d, ins, i, left, fee_of(d))
        IN g # Refused /\ g[1].fee = fee_of(d) /\ IsFinished(g[1], d, ins, i, left)
    BY <1>1, <1>6, Finished
  <2> QED
    BY <2>1
<1> HIDE DEF f, b
<1>8. /\ b.raw = encode_tx(b.tx) /\ Size(b.raw) = Size(encode_tx(d)) /\ IsTx(b.tx)
      /\ Len(b.tx.inputs) = Len(ins)
      /\ \A j \in 1..Len(ins) : b.tx.inputs[j].prev = ins[j].prev
      /\ Len(b.tx.outputs) = n
      /\ \A j \in 1..n : b.tx.outputs[j] = IF j = i THEN [os[i] EXCEPT !.value = left] ELSE os[j]
  BY <1>7 DEF IsFinished
<1>9. /\ Sum(SpentOf(U, b.tx)) = Total(ins)
      /\ \A j \in 1..Len(b.tx.inputs) : \E u \in U : u.outpoint = b.tx.inputs[j].prev
  BY <1>8, SpentIsTotal
<1>10. Sum(b.tx.outputs) = Sum(os) - os[i].value + left
  <2> DEFINE ps == b.tx.outputs
  <2>1. DOMAIN ps = 1..n
    BY <1>8 DEF IsTx
  <2>2. ASSUME NEW j \in 1..n PROVE ps[j].value = IF j = i THEN left ELSE os[j].value
    <3> DEFINE o == os[i]
    <3>1. IsOutput(o)
      BY <1>1 DEF IsTx
    <3> HIDE DEF o
    <3>2. [o EXCEPT !.value = left] = [value |-> left, locking_script |-> o.locking_script, token |-> o.token]
      BY <1>6, <3>1, Worth
    <3>3. [o EXCEPT !.value = left].value = left
      BY <3>2
    <3> QED
      BY <1>8, <3>3 DEF o
  <2> HIDE DEF ps, os, n
  <2>3. n \in {1, 2, 3} /\ i \in 1..n
    BY DEF n
  <2>4. \A j \in 1..n : ps[j].value = IF j = i THEN left ELSE os[j].value
    BY <2>2
  <2>5. Sum(ps) = Sum(os) - os[i].value + left
    <3>1. Revalued(n, os, ps, i, left)
      BY <1>3, <1>6, <2>1, <2>3, <2>4 DEF Revalued
    <3> QED
      BY <3>1, SumWithRest
  <2> QED
    BY <2>5 DEF ps
<1>11. Sum(SpentOf(U, b.tx)) - Sum(b.tx.outputs) = Size(b.raw) + 1 /\ b.fee = Size(b.raw) + 1
  <2>1. os[i].value \in Int
    BY <1>3
  <2> HIDE DEF os
  <2>2. Sum(d.outputs) = Sum(os) /\ d.outputs[i] = os[i]
    BY DEF os
  <2> QED
    BY <1>2, <1>4, <1>5, <1>6, <1>7, <1>8, <1>9, <1>10, <2>1, <2>2
<1> QED
  BY <1>7, <1>8, <1>9, <1>11 DEF SoundFor, f, b

(* Outputs of the kinds the commands leave behind; only the first may be a head. *)
Kinds(os, hash) == \A j \in 1..Len(os) : Kind(os[j], hash) /\ (j > 1 => ~Mints(os[j]))

LEMMA FinishedKinds ==
  ASSUME NEW b, NEW d, NEW ins, NEW i \in 1..Len(d.outputs), NEW left, NEW hash,
         IsFinished(b, d, ins, i, left), Kinds(d.outputs, hash)
  PROVE  Kinds(b.tx.outputs, hash)
<1>1. Len(b.tx.outputs) = Len(d.outputs)
  BY DEF IsFinished
<1>2. ASSUME NEW j \in 1..Len(d.outputs)
      PROVE  Kind(b.tx.outputs[j], hash) /\ (j > 1 => ~Mints(b.tx.outputs[j]))
  <2>1. b.tx.outputs[j] = IF j = i THEN [d.outputs[i] EXCEPT !.value = left] ELSE d.outputs[j]
    BY DEF IsFinished
  <2>2. CASE j # i
    BY <2>1, <2>2 DEF Kinds
  <2>3. CASE j = i
    <3> DEFINE o == d.outputs[j]
               p == [o EXCEPT !.value = left]
    <3>1. b.tx.outputs[j] = p
      BY <2>1, <2>3
    <3>2. Kind(o, hash) /\ (j > 1 => ~Mints(o))
      BY DEF Kinds
    <3> HIDE DEF o
    <3>3. Kind(p, hash) /\ p.token = o.token
      BY <3>2, KindWorth
    <3> HIDE DEF p
    <3>4. Mints(p) <=> Mints(o)
      BY <3>3 DEF Mints
    <3> QED
      BY <3>1, <3>2, <3>3, <3>4
  <2> QED
    BY <2>2, <2>3
<1> QED
  BY <1>1, <1>2 DEF Kinds

(* Plans in a row. *)
LEMMA ListPlan ==
  ASSUME NEW U, NEW n \in Nat, NEW s, s = [i \in 1..n |-> s[i]],
         \A i \in 1..n : IsSource(s[i]) /\ Backed(s[i], U)
  PROVE  PlanFrom(s, U) /\ Len(s) = n
<1>1. Len(s) = n
  BY FunctionIsSeq
<1> QED
  BY <1>1 DEF PlanFrom, IsPlan

LEMMA PlanConcat ==
  ASSUME NEW U, NEW a, NEW b, PlanFrom(a, U), PlanFrom(b, U)
  PROVE  /\ PlanFrom(a \o b, U) /\ Len(a \o b) = Len(a) + Len(b)
         /\ \A i \in 1..Len(a) : (a \o b)[i] = a[i]
         /\ \A i \in 1..Len(b) : (a \o b)[Len(a) + i] = b[i]
<1> DEFINE n == Len(a)
           m == Len(b)
           A == {a[i] : i \in 1..n}
           B == {b[i] : i \in 1..m}
           c == a \o b
<1>1. n \in Nat /\ m \in Nat /\ a = [i \in 1..n |-> a[i]] /\ b = [i \in 1..m |-> b[i]]
  BY DEF PlanFrom, IsPlan
<1>2. a \in Seq(A) /\ b \in Seq(B)
  BY <1>1, FunctionIsSeq
<1>3. a \in Seq(A \cup B) /\ b \in Seq(A \cup B)
  <2> HIDE DEF A, B
  <2>1. A \subseteq A \cup B /\ B \subseteq A \cup B
    OBVIOUS
  <2> QED
    BY <1>2, <2>1, SeqMonotonic
<1> DEFINE S == A \cup B
<1> HIDE DEF S
<1>4. a \in Seq(S) /\ b \in Seq(S)
  BY <1>3 DEF S
<1>5. /\ c \in Seq(S) /\ Len(c) = n + m
      /\ \A i \in 1..(n + m) : c[i] = IF i <= n THEN a[i] ELSE b[i - n]
  BY <1>4, ConcatProperties
<1> HIDE DEF c
<1>6. c = [i \in 1..(n + m) |-> c[i]]
  BY <1>5
<1>7. \A i \in 1..n : c[i] = a[i]
  BY <1>1, <1>5
<1>8. ASSUME NEW i \in 1..m PROVE c[n + i] = b[i]
  <2>1. n + i \in 1..(n + m) /\ ~(n + i <= n) /\ (n + i) - n = i
    BY <1>1
  <2>2. c[n + i] = b[(n + i) - n]
    BY <1>5, <2>1
  <2> QED
    BY <2>1, <2>2
<1>9. ASSUME NEW i \in 1..(n + m) PROVE IsSource(c[i]) /\ Backed(c[i], U)
  <2>1. CASE i <= n
    <3>1. i \in 1..n /\ c[i] = a[i]
      BY <1>1, <1>7, <2>1
    <3> QED
      BY <3>1 DEF PlanFrom, IsPlan
  <2>2. CASE ~(i <= n)
    <3>1. i - n \in 1..m /\ c[i] = b[i - n]
      BY <1>1, <1>5, <2>2
    <3> QED
      BY <3>1 DEF PlanFrom, IsPlan
  <2> QED
    BY <2>1, <2>2
<1>10. PlanFrom(c, U)
  <2>1. n + m \in Nat
    BY <1>1
  <2> QED
    BY <1>5, <1>6, <1>9, <2>1, ListPlan
<1> QED
  BY <1>5, <1>7, <1>8, <1>10 DEF c

FewOutputs(m, os) == m \in {1, 2, 3} /\ os = [i \in 1..m |-> os[i]] /\ \A i \in 1..m : IsOutput(os[i])

(* Spending the head, when it is not refused. *)
SpendsHead(r, U, ins, m, os, locktime, others, least) ==
    /\ OneEach(U) /\ PlanFrom(ins, U) /\ FewOutputs(m, os) /\ locktime \in Int
    /\ others = Sum(os) - os[1].value
    /\ r = SpendHead(ins, Draft(ins, os, locktime), others, least) /\ r # Refused

LEMMA HeadSpent ==
  ASSUME NEW r, NEW U, NEW ins, NEW m, NEW os, NEW locktime, NEW others, NEW least,
         SpendsHead(r, U, ins, m, os, locktime, others, least), NEW hash, Kinds(os, hash)
  PROVE  /\ SoundFor(r[1], U) /\ Kinds(r[1].tx.outputs, hash)
         /\ Len(r[1].tx.inputs) = Len(ins)
         /\ \A j \in 1..Len(ins) : r[1].tx.inputs[j].prev = ins[j].prev
<1> USE DEF SpendsHead
<1> DEFINE d == Draft(ins, os, locktime)
           left == Total(ins) - fee_of(d) - others
           f == Finish(d, ins, 1, left, fee_of(d))
<1>1. r = f
  BY DEF SpendHead
<1>2. IsDraft(d, ins) /\ d.outputs = os /\ Len(os) = m
  <2>1. IsPlan(ins) /\ m \in Nat
    BY DEF PlanFrom, FewOutputs
  <2> QED
    BY <2>1, DraftPlanned DEF FewOutputs
<1> HIDE DEF d
<1>3. Len(d.outputs) \in {1, 2, 3} /\ 1 \in 1..Len(d.outputs)
  BY <1>2 DEF FewOutputs
<1>4. left = Total(ins) - fee_of(d) - (Sum(d.outputs) - d.outputs[1].value)
  BY <1>2
<1> HIDE DEF left
<1>5. f # Refused /\ SoundFor(f[1], U) /\ IsFinished(f[1], d, ins, 1, left)
  <2>1. LET g == Finish(d, ins, 1, left, fee_of(d))
        IN g # Refused /\ SoundFor(g[1], U) /\ IsFinished(g[1], d, ins, 1, left)
    BY <1>2, <1>3, <1>4, BuiltSound
  <2> QED
    BY <2>1
<1> HIDE DEF f
<1>6. Kinds(f[1].tx.outputs, hash)
  BY <1>2, <1>3, <1>5, FinishedKinds
<1> QED
  BY <1>1, <1>5, <1>6 DEF IsFinished

-----------------------------------------------------------------------------
(* What the commands find. *)

(* The parts of a text in two. *)
LEMMA Halves ==
  ASSUME NEW a, NEW b, Text(a), Text(b)
  PROVE  /\ Slice(a \o b, 0, Size(a)) = a
         /\ Slice(a \o b, Size(a), Size(b)) = b
         /\ Text(a \o b) /\ Size(a \o b) = Size(a) + Size(b)
<1> DEFINE c == a \o b
<1>1. Text(c) /\ Size(c) = Size(a) + Size(b)
  BY TextConcat, EndsConcat
<1>2. Upto(c, Size(a)) = a /\ After(c, Size(a)) = b
  BY Cut
<1>3. After(c, 0) = c
  <2>1. Text(<<>>) /\ Size(<<>>) = 0
    BY TextEmpty, SizeFacts
  <2> HIDE DEF c
  <2>2. After(<<>> \o c, Size(<<>>)) = c
    BY <1>1, <2>1, Cut
  <2>3. <<>> \o c = c
    BY <1>1, TextEmpty
  <2> QED
    BY <2>1, <2>2, <2>3
<1>4. Upto(b, Size(b)) = b
  <2>1. Text(<<>>)
    BY TextEmpty
  <2>2. Upto(b \o <<>>, Size(b)) = b
    BY <2>1, Cut
  <2>3. b \o <<>> = b
    BY TextEmpty
  <2> QED
    BY <2>2, <2>3
<1> HIDE DEF c
<1>5. Slice(c, 0, Size(a)) = a
  BY <1>2, <1>3 DEF Slice
<1>6. Slice(c, Size(a), Size(b)) = b
  BY <1>2, <1>4 DEF Slice
<1> QED
  BY <1>1, <1>5, <1>6 DEF c

Chain(U, hash) ==
    /\ IsFiniteSet(U) /\ OneEach(U)
    /\ \A u \in U : IsOutpoint(u.outpoint) /\ u.out.value \in Int /\ Kind(u.out, hash)
    /\ \A u, v \in U : Mints(u.out) /\ Mints(v.out) => u = v

IsHash(hash) == Text(hash) /\ Size(hash) = 20

LEMMA TableHash ==
  ASSUME NEW t
  PROVE  IsHash(table_hash(t))
BY HashTexts DEF table_hash, IsHash

(* The head, as it is found: the output u, its state and the hash behind it. *)
FoundAs(head, u, state, hash, len) ==
    /\ head.outpoint = u.outpoint /\ head.value = u.out.value
    /\ Text(state) /\ Size(state) = len /\ head.raw = state \o hash
    /\ head.category = Display(NameOf(u.out.token[1].category))
    /\ head.commit.table_hash = hash

LEMMA HeadFields ==
  ASSUME NEW u, NEW commit
  PROVE  LET head == HeadOf(u, commit)
         IN /\ head.outpoint = u.outpoint /\ head.value = u.out.value /\ head.commit = commit
            /\ head.raw = u.out.token[1].commitment /\ head.category = Reversed(u.out.token[1].category)
BY DEF HeadOf

LEMMA HeadRead ==
  ASSUME NEW u, NEW hash, IsHash(hash), AsHead(u.out, hash)
  PROVE  /\ Size(u.out.token[1].commitment) = HEAD_COMMIT_LEN
         /\ \E state : FoundAs(HeadOf(u, HeadDecoded(u.out.token[1].commitment)), u, state, hash, SNAPSHOT_LEN)
<1> DEFINE c == u.out.token[1].commitment
           head == HeadOf(u, HeadDecoded(c))
<1>1. PICK state : Text(state) /\ Size(state) = SNAPSHOT_LEN /\ c = state \o hash
  BY DEF AsHead
<1>2. HasNFT(u.out, oracle_lock, MINTING)
  BY DEF AsHead
<1>3. Reversed(u.out.token[1].category) = Display(NameOf(u.out.token[1].category))
  BY <1>2, NFTFacts
<1>4. /\ head.outpoint = u.outpoint /\ head.value = u.out.value /\ head.commit = HeadDecoded(c)
      /\ head.raw = c /\ head.category = Reversed(u.out.token[1].category)
  BY HeadFields
<1> HIDE DEF head
<1>5. Slice(c, SNAPSHOT_LEN, 20) = hash /\ Size(c) = SNAPSHOT_LEN + 20
  <2>1. Slice(state \o hash, Size(state), Size(hash)) = hash /\ Size(state \o hash) = Size(state) + Size(hash)
    BY <1>1, Halves DEF IsHash
  <2> HIDE DEF c
  <2> QED
    BY <1>1, <2>1 DEF IsHash
<1>6. HeadDecoded(c).table_hash = Slice(c, SNAPSHOT_LEN, 20)
  BY DEF HeadDecoded
<1> HIDE DEF c
<1>7. FoundAs(head, u, state, hash, SNAPSHOT_LEN)
  BY <1>1, <1>3, <1>4, <1>5, <1>6 DEF FoundAs
<1>8. Size(c) = HEAD_COMMIT_LEN
  BY <1>5 DEF SNAPSHOT_LEN, HEAD_COMMIT_LEN
<1> QED
  BY <1>7, <1>8 DEF head, c

LEMMA LegacyRead ==
  ASSUME NEW u, NEW hash, IsHash(hash), AsHead26(u.out, hash)
  PROVE  \E state : FoundAs(HeadOf(u, HeadDecoded26(u.out.token[1].commitment)), u, state, hash,
                            Legacy_SNAPSHOT_LEN)
<1> DEFINE c == u.out.token[1].commitment
           head == HeadOf(u, HeadDecoded26(c))
<1>1. PICK state : Text(state) /\ Size(state) = Legacy_SNAPSHOT_LEN /\ c = state \o hash
  BY DEF AsHead26
<1>2. HasNFT(u.out, oracle26_lock, MINTING)
  BY DEF AsHead26
<1>3. Reversed(u.out.token[1].category) = Display(NameOf(u.out.token[1].category))
  BY <1>2, NFTFacts
<1>4. /\ head.outpoint = u.outpoint /\ head.value = u.out.value /\ head.commit = HeadDecoded26(c)
      /\ head.raw = c /\ head.category = Reversed(u.out.token[1].category)
  BY HeadFields
<1> HIDE DEF head
<1>5. Slice(c, Legacy_SNAPSHOT_LEN, 20) = hash
  <2>1. Slice(state \o hash, Size(state), Size(hash)) = hash
    BY <1>1, Halves DEF IsHash
  <2> HIDE DEF c
  <2> QED
    BY <1>1, <2>1 DEF IsHash
<1>6. HeadDecoded26(c).table_hash = Slice(c, Legacy_SNAPSHOT_LEN, 20)
  BY DEF HeadDecoded26
<1> HIDE DEF c
<1>7. FoundAs(head, u, state, hash, Legacy_SNAPSHOT_LEN)
  BY <1>1, <1>3, <1>4, <1>5, <1>6 DEF FoundAs
<1> QED
  BY <1>7 DEF head, c

(* Whatever head is found is that of one output, which can mint. *)
LEMMA HeadFound ==
  ASSUME NEW hash, IsHash(hash), Chain(utxos, hash), NEW head \in find_head
  PROVE  \E u \in utxos : /\ AsHead(u.out, hash) /\ Mints(u.out)
                          /\ \E state : FoundAs(head, u, state, hash, SNAPSHOT_LEN)
<1>1. PICK u \in utxos : /\ u.out.locking_script = oracle_lock
                         /\ head = HeadOf(u, HeadDecoded(u.out.token[1].commitment))
  BY DEF find_head, Minting
<1>2. Kind(u.out, hash)
  BY DEF Chain
<1>3. AsHead(u.out, hash) /\ Mints(u.out)
  BY <1>1, <1>2, KindByLock
<1> QED
  BY <1>1, <1>3, HeadRead

LEMMA LegacyFound ==
  ASSUME NEW hash, IsHash(hash), Chain(utxos, hash), NEW head \in find_legacy_head
  PROVE  \E u \in utxos : /\ AsHead26(u.out, hash) /\ Mints(u.out)
                          /\ \E state : FoundAs(head, u, state, hash, Legacy_SNAPSHOT_LEN)
<1>1. PICK u \in utxos : /\ u.out.locking_script = oracle26_lock
                         /\ head = HeadOf(u, HeadDecoded26(u.out.token[1].commitment))
  BY DEF find_legacy_head, Minting
<1>2. Kind(u.out, hash)
  BY DEF Chain
<1>3. AsHead26(u.out, hash) /\ Mints(u.out)
  BY <1>1, <1>2, KindByLock
<1> QED
  BY <1>1, <1>3, LegacyRead

(* And every head at the lock of v27 is found. *)
LEMMA EveryHeadFound ==
  ASSUME Chain(utxos, table_hash(table))
  PROVE  HeadIsFound
<1> DEFINE hash == table_hash(table)
<1> SUFFICES ASSUME NEW u \in Minting(oracle_lock)
             PROVE  \E head \in find_head : /\ head.outpoint = u.outpoint
                                            /\ head.commit.table_hash = hash
  BY DEF HeadIsFound
<1>1. IsHash(hash)
  BY TableHash
<1> HIDE DEF hash
<1>2. u \in utxos /\ u.out.locking_script = oracle_lock
  BY DEF Minting
<1>3. AsHead(u.out, hash)
  <2>1. Kind(u.out, hash)
    BY <1>2 DEF Chain, hash
  <2> QED
    BY <1>2, <2>1, KindByLock
<1> DEFINE head == HeadOf(u, HeadDecoded(u.out.token[1].commitment))
<1>4. /\ Size(u.out.token[1].commitment) = HEAD_COMMIT_LEN
      /\ \E state : FoundAs(head, u, state, hash, SNAPSHOT_LEN)
  BY <1>1, <1>3, HeadRead
<1>5. head \in find_head
  BY <1>4 DEF find_head
<1> HIDE DEF head
<1> QED
  BY <1>4, <1>5 DEF FoundAs

-----------------------------------------------------------------------------
(* The sources of a transaction. *)

LEMMA HeadSource ==
  ASSUME NEW U, NEW u \in U, IsOutpoint(u.outpoint), u.out.value \in Int, NEW head,
         head.outpoint = u.outpoint, head.value = u.out.value, NEW lock, NEW unlock, Text(unlock)
  PROVE  LET x == HeadInput(head, lock, unlock)
         IN IsSource(x) /\ Backed(x, U) /\ x.prev = u.outpoint
<1> DEFINE x == HeadInput(head, lock, unlock)
           spends == Paid(head.value, lock, Token(head.category, MINTING, head.raw))
<1>1. x = [prev |-> head.outpoint, unlock |-> unlock, coin |-> <<>>, spends |-> spends]
  BY DEF HeadInput
<1>2. spends.value = head.value
  BY DEF Paid
<1> HIDE DEF x, spends
<1>3. x.prev = head.outpoint /\ x.unlock = unlock /\ x.coin = <<>> /\ x.spends = spends
  BY <1>1
<1>4. IsSource(x)
  BY <1>2, <1>3 DEF IsSource
<1>5. Backed(x, U)
  BY <1>2, <1>3 DEF Backed
<1> QED
  BY <1>3, <1>4, <1>5 DEF x

LEMMA TickerSource ==
  ASSUME NEW U, NEW u \in U, IsOutpoint(u.outpoint), u.out.value \in Int, NEW t,
         t.outpoint = u.outpoint, t.value = u.out.value, NEW category
  PROVE  LET x == TickerInput(t, category)
         IN IsSource(x) /\ Backed(x, U) /\ x.prev = u.outpoint
<1> DEFINE x == TickerInput(t, category)
           spends == Paid(t.value, t.lock, Token(category, NO_CAPABILITY, t.commitment))
<1>1. x = [prev |-> t.outpoint, unlock |-> push_int(1), coin |-> <<>>, spends |-> spends]
  BY DEF TickerInput
<1>2. spends.value = t.value
  BY DEF Paid
<1> HIDE DEF x, spends
<1>3. x.prev = t.outpoint /\ x.unlock = push_int(1) /\ x.coin = <<>> /\ x.spends = spends
  BY <1>1
<1>4. IsSource(x)
  BY <1>2, <1>3, PushIntText DEF IsSource
<1>5. Backed(x, U)
  BY <1>2, <1>3 DEF Backed
<1> QED
  BY <1>3, <1>4, <1>5 DEF x

LEMMA CoinSource ==
  ASSUME NEW U, NEW u \in U, IsOutpoint(u.outpoint), u.out.value \in Int, NEW coin,
         coin.outpoint = u.outpoint, coin.value = u.out.value
  PROVE  LET x == CoinInput(coin)
         IN IsSource(x) /\ Backed(x, U) /\ x.prev = u.outpoint /\ x.spends.value = coin.value
<1> DEFINE x == CoinInput(coin)
           spends == Paid(coin.value, p2pkh_locking_script(pkh(coin)), <<>>)
           unlock == p2pkh_placeholder(public_key(coin))
<1>1. x = [prev |-> coin.outpoint, unlock |-> unlock, coin |-> <<coin>>, spends |-> spends]
  BY DEF CoinInput
<1>2. spends.value = coin.value
  BY DEF Paid
<1>3. Text(unlock)
  BY CoinScripts
<1>4. <<coin>> # <<>> /\ <<coin>>[1] = coin
  OBVIOUS
<1> HIDE DEF x, spends, unlock
<1>5. x.prev = coin.outpoint /\ x.unlock = unlock /\ x.coin = <<coin>> /\ x.spends = spends
  BY <1>1
<1>6. x.coin # <<>> /\ x.coin[1] = coin
  BY <1>4, <1>5
<1>7. IsSource(x)
  BY <1>2, <1>3, <1>5, <1>6 DEF IsSource, unlock
<1>8. Backed(x, U)
  BY <1>2, <1>5 DEF Backed
<1> QED
  BY <1>2, <1>5, <1>7, <1>8 DEF x

(* The coins found are outputs of the operator. *)
LEMMA CoinFound ==
  ASSUME NEW hash, Chain(utxos, hash), NEW coin \in find_coins
  PROVE  /\ \E u \in utxos : coin.outpoint = u.outpoint /\ coin.value = u.out.value
         /\ coin.key = OperatorKey /\ coin.value \in Int /\ IsOutpoint(coin.outpoint)
         /\ p2pkh_locking_script(pkh(coin)) = OperatorLock
         /\ IsSource(CoinInput(coin)) /\ Backed(CoinInput(coin), utxos)
         /\ CoinInput(coin).prev = coin.outpoint /\ CoinInput(coin).spends.value = coin.value
<1>1. PICK u \in utxos : coin = Coin(u)
  BY DEF find_coins
<1>2. coin.outpoint = u.outpoint /\ coin.value = u.out.value /\ coin.key = OperatorKey
  BY <1>1 DEF Coin
<1>3. IsOutpoint(u.outpoint) /\ u.out.value \in Int
  BY DEF Chain
<1>4. p2pkh_locking_script(pkh(coin)) = OperatorLock
  BY <1>2 DEF OperatorLock, pkh, public_key
<1>5. LET x == CoinInput(coin)
      IN IsSource(x) /\ Backed(x, utxos) /\ x.prev = u.outpoint /\ x.spends.value = coin.value
  BY <1>2, <1>3, CoinSource
<1> QED
  BY <1>2, <1>3, <1>4, <1>5

(* Top-ups, in their order. *)
LEMMA CoinsPlan ==
  ASSUME NEW hash, Chain(utxos, hash), NEW n \in Nat, NEW coins, coins = [i \in 1..n |-> coins[i]],
         \A i \in 1..n : coins[i] \in find_coins
  PROVE  LET ins == [i \in DOMAIN coins |-> CoinInput(coins[i])]
         IN /\ PlanFrom(ins, utxos) /\ Len(ins) = n
            /\ \A i \in 1..n : ins[i] = CoinInput(coins[i]) /\ ins[i].prev = coins[i].outpoint
<1> DEFINE ins == [i \in DOMAIN coins |-> CoinInput(coins[i])]
<1>1. DOMAIN coins = 1..n
  OBVIOUS
<1>2. ins = [i \in 1..n |-> ins[i]] /\ \A i \in 1..n : ins[i] = CoinInput(coins[i])
  BY <1>1
<1> HIDE DEF ins
<1>3. ASSUME NEW i \in 1..n
      PROVE  IsSource(ins[i]) /\ Backed(ins[i], utxos) /\ ins[i].prev = coins[i].outpoint
  <2> DEFINE coin == coins[i]
  <2>1. coin \in find_coins
    OBVIOUS
  <2> HIDE DEF coin
  <2>2. IsSource(CoinInput(coin)) /\ Backed(CoinInput(coin), utxos) /\ CoinInput(coin).prev = coin.outpoint
    BY <2>1, CoinFound
  <2> QED
    BY <1>2, <2>2 DEF coin
<1>4. PlanFrom(ins, utxos) /\ Len(ins) = n
  BY <1>2, <1>3, ListPlan
<1> QED
  BY <1>2, <1>3, <1>4 DEF ins

(* The unlocking scripts of the head. *)
LEMMA EachText ==
  ASSUME NEW n \in Nat, NEW e, e = [i \in 1..n |-> e[i]], \A i \in 1..n : Text(e[i])
  PROVE  Text(push_data(FlattenSeq(e)))
BY FlattenText, PushText

LEMMA TableText ==
  ASSUME NEW t, Len(t) \in Nat, t = [i \in 1..Len(t) |-> t[i]]
  PROVE  Text(table_bytes(t))
<1> DEFINE n == Len(t)
           e == [i \in DOMAIN t |-> Piece(33, "key", t[i].key) \o LE(1, t[i].source)]
<1>1. DOMAIN t = 1..n
  OBVIOUS
<1>2. e = [i \in 1..n |-> e[i]]
  BY <1>1
<1>3. ASSUME NEW i \in 1..n PROVE Text(e[i])
  <2> DEFINE k == t[i].key
  <2>1. Text(Piece(33, "key", k))
    <3>1. \A kind, content : Text(Piece(33, kind, content)) /\ Size(Piece(33, kind, content)) = 33
      BY ONLY TextPiece, SizeFacts
    <3> HIDE DEF k
    <3> QED
      BY <3>1
  <2>2. Text(LE(1, t[i].source))
    BY LEFacts
  <2>3. e[i] = Piece(33, "key", t[i].key) \o LE(1, t[i].source)
    BY <1>1
  <2> QED
    BY <2>1, <2>2, <2>3, Fronts
<1> HIDE DEF e
<1>4. Text(FlattenSeq(e))
  BY <1>2, <1>3, FlattenText
<1> QED
  BY <1>4 DEF table_bytes, Each, e

(* Statements and approvals, each on its row. *)
LEMMA LeastIn ==
  ASSUME NEW S, S \subseteq Int, IsFiniteSet(S), S # {}
  PROVE  Min(S) \in S /\ \A x \in S : Min(S) <= x
<1> DEFINE rank == [x \in S |-> x]
<1>1. \A x \in S : rank[x] = x /\ rank[x] \in Int
  OBVIOUS
<1> HIDE DEF rank
<1>2. \E x \in S : \A y \in S : rank[x] <= rank[y]
  BY <1>1, LeastOf
<1>3. \E x \in S : \A y \in S : x <= y
  BY <1>1, <1>2
<1> QED
  BY <1>3 DEF Min

(* What a list lists. *)
LEMMA Listed ==
  ASSUME NEW n \in Nat, NEW s, s = [i \in 1..n |-> s[i]]
  PROVE  /\ IsFiniteSet(ToSet(s))
         /\ \A x \in ToSet(s) : \E i \in 1..n : x = s[i]
         /\ \A i \in 1..n : s[i] \in ToSet(s)
<1> DEFINE S == ToSet(s)
<1>1. DOMAIN s = 1..n
  OBVIOUS
<1>2. S = {s[i] : i \in 1..n}
  BY <1>1 DEF ToSet
<1>3. (\A x \in S : \E i \in 1..n : x = s[i]) /\ \A i \in 1..n : s[i] \in S
  BY <1>2
<1> HIDE DEF S
<1>4. s \in Surjection(1..n, S)
  BY <1>3 DEF Surjection
<1>5. IsFiniteSet(1..n)
  BY FS_Interval
<1>6. IsFiniteSet(S)
  BY <1>4, <1>5, FS_Surjection
<1> QED
  BY <1>3, <1>6 DEF S

ByRows(placed) == InOrder(ToSet(placed), [p \in ToSet(placed) |-> p.row])

OnRows(n, placed) ==
    n \in Nat /\ placed = [i \in 1..n |-> placed[i]] /\ \A i \in 1..n : placed[i].row \in Int

LEMMA ByRow ==
  ASSUME NEW n, NEW placed, OnRows(n, placed), NEW s, s = ByRows(placed)
  PROVE  /\ Len(s) \in Nat /\ s = [i \in 1..Len(s) |-> s[i]]
         /\ \A i \in 1..Len(s) : \E j \in 1..n : s[i] = placed[j]
<1> DEFINE S == ToSet(placed)
           rank == [p \in S |-> p.row]
<1> USE DEF OnRows
<1>0. s = InOrder(S, rank)
  BY DEF ByRows
<1>1. IsFiniteSet(S) /\ \A x \in S : \E i \in 1..n : x = placed[i]
  BY Listed
<1> HIDE DEF S
<1>2. \A p \in S : rank[p] \in Int
  BY <1>1
<1> HIDE DEF rank
<1>3. LET t == InOrder(S, rank)
          m == Cardinality(S)
      IN /\ m \in Nat /\ Len(t) = m /\ t = [i \in 1..m |-> t[i]]
         /\ \A i \in 1..m : t[i] \in S
  BY <1>1, <1>2, InOrderFacts
<1>4. /\ Len(s) \in Nat /\ s = [i \in 1..Len(s) |-> s[i]]
      /\ \A i \in 1..Len(s) : s[i] \in S
  BY <1>0, <1>3
<1>5. \A i \in 1..Len(s) : \E j \in 1..n : s[i] = placed[j]
  BY <1>1, <1>4
<1> QED
  BY <1>4, <1>5

LEMMA RowsFinite ==
  ASSUME NEW t, Len(t) \in Nat, t = [i \in 1..Len(t) |-> t[i]], NEW R, R \subseteq DOMAIN t, R # {}
  PROVE  Min(R) \in Int
<1> DEFINE n == Len(t)
<1>1. DOMAIN t = 1..n /\ n \in Nat
  OBVIOUS
<1> HIDE DEF n
<1>2. IsFiniteSet(1..n) /\ R \subseteq 1..n
  <2>1. IsFiniteSet(1..n)
    BY <1>1, FS_Interval
  <2> QED
    BY <1>1, <2>1
<1>3. IsFiniteSet(R)
  BY <1>2, FS_Subset
<1>4. Min(R) \in R
  BY <1>2, <1>3, LeastIn
<1> QED
  BY <1>2, <1>4

IsList(s) == Len(s) \in Nat /\ s = [i \in 1..Len(s) |-> s[i]]

StatementList(n, s, ts) ==
    n \in Nat /\ s = [i \in 1..n |-> s[i]] /\ \A i \in 1..n : s[i].ts = ts /\ Text(s[i].sig)
PlacedStatements(placed, ts) ==
    /\ IsList(placed) /\ Len(placed) # 0
    /\ \A i \in 1..Len(placed) : placed[i].statement.ts = ts /\ Text(placed[i].statement.sig)

ApprovalList(n, a) == n \in Nat /\ a = [i \in 1..n |-> a[i]] /\ \A i \in 1..n : Text(a[i].sig)
PlacedApprovals(placed) == IsList(placed) /\ \A i \in 1..Len(placed) : Text(placed[i].sig)

(* What an update places: the signatures of one minute. *)
LEMMA StatementsPlaced ==
  ASSUME NEW t, IsList(t), NEW head, NEW ts, NEW n, NEW statements, StatementList(n, statements, ts),
         NEW placed, placed = select_statements(head, t, statements), placed # Refused
  PROVE  PlacedStatements(placed, ts)
<1> DEFINE rows == [i \in DOMAIN statements |-> RowsOf(t, statements[i])]
           at == [i \in DOMAIN statements |-> [row |-> Min(rows[i]), statement |-> statements[i]]]
<1>1. n \in Nat /\ DOMAIN statements = 1..n
  BY DEF StatementList
<1>2. placed = ByRows(at) /\ \A i \in DOMAIN statements : rows[i] # {}
  <2> HIDE DEF rows, at
  <2> DEFINE cond == /\ check_table(t, head.commit.table_hash)
                     /\ Len(statements) >= QUORUM
                     /\ statements[1].ts > head.commit.snapshot.ts
                     /\ \A i \in DOMAIN statements : statements[i].ts = statements[1].ts /\ rows[i] # {}
                     /\ Cardinality({p.row : p \in ToSet(at)}) = Len(statements)
  <2>1. placed = IF cond THEN ByRows(at) ELSE Refused
    BY DEF select_statements, rows, at, ByRows
  <2> QED
    BY <2>1
<1>3. ASSUME NEW i \in 1..n PROVE at[i].row \in Int /\ at[i].statement = statements[i]
  <2>1. rows[i] \subseteq DOMAIN t /\ rows[i] # {}
    BY <1>1, <1>2 DEF RowsOf
  <2> HIDE DEF rows
  <2>2. Min(rows[i]) \in Int
    BY <2>1, RowsFinite DEF IsList
  <2>3. at[i] = [row |-> Min(rows[i]), statement |-> statements[i]]
    BY <1>1
  <2> QED
    BY <2>2, <2>3
<1>4. at = [i \in 1..n |-> at[i]]
  BY <1>1
<1> HIDE DEF at, rows
<1>5. OnRows(n, at)
  BY <1>1, <1>3, <1>4 DEF OnRows
<1>6. /\ Len(placed) \in Nat /\ placed = [i \in 1..Len(placed) |-> placed[i]]
      /\ \A i \in 1..Len(placed) : \E j \in 1..n : placed[i] = at[j]
  BY ONLY <1>2, <1>5, ByRow
<1>7. Len(placed) # 0
  <2>1. Len(placed) = 0 => placed = <<>>
    BY <1>6
  <2> QED
    BY <2>1 DEF Refused
<1>8. \A i \in 1..Len(placed) : placed[i].statement.ts = ts /\ Text(placed[i].statement.sig)
  BY <1>3, <1>6 DEF StatementList
<1> QED
  BY <1>6, <1>7, <1>8 DEF PlacedStatements, IsList

(* What a rotation places. *)
LEMMA ApprovalsPlaced ==
  ASSUME NEW t, IsList(t), NEW hash, NEW category, NEW lock, NEW tail,
         NEW n, NEW approvals, ApprovalList(n, approvals),
         NEW placed, placed = place_approvals(t, hash, category, lock, tail, approvals), placed # Refused
  PROVE  PlacedApprovals(placed)
<1> DEFINE rows == [i \in DOMAIN approvals |-> {r \in DOMAIN t : t[r].key = approvals[i].key}]
           at == [i \in DOMAIN approvals |-> [row |-> Min(rows[i]), sig |-> approvals[i].sig]]
<1>1. n \in Nat /\ DOMAIN approvals = 1..n
  BY DEF ApprovalList
<1>2. placed = ByRows(at) /\ \A i \in DOMAIN approvals : rows[i] # {}
  <2> HIDE DEF rows, at
  <2> DEFINE cond == /\ check_table(t, hash)
                     /\ \A i \in DOMAIN approvals :
                           /\ rows[i] # {}
                           /\ approvals[i].sig = Signature(approvals[i].key, approval_message(category, hash, lock, tail))
                     /\ Cardinality({p.row : p \in ToSet(at)}) = Len(approvals)
                     /\ Len(approvals) * 2 > Len(t)
  <2>1. placed = IF cond THEN ByRows(at) ELSE Refused
    BY DEF place_approvals, rows, at, ByRows
  <2> QED
    BY <2>1
<1>3. ASSUME NEW i \in 1..n PROVE at[i].row \in Int /\ at[i].sig = approvals[i].sig
  <2>1. rows[i] \subseteq DOMAIN t /\ rows[i] # {}
    BY <1>1, <1>2
  <2> HIDE DEF rows
  <2>2. Min(rows[i]) \in Int
    BY <2>1, RowsFinite DEF IsList
  <2>3. at[i] = [row |-> Min(rows[i]), sig |-> approvals[i].sig]
    BY <1>1
  <2> QED
    BY <2>2, <2>3
<1>4. at = [i \in 1..n |-> at[i]]
  BY <1>1
<1> HIDE DEF at, rows
<1>5. OnRows(n, at)
  BY <1>1, <1>3, <1>4 DEF OnRows
<1>6. /\ Len(placed) \in Nat /\ placed = [i \in 1..Len(placed) |-> placed[i]]
      /\ \A i \in 1..Len(placed) : \E j \in 1..n : placed[i] = at[j]
  BY ONLY <1>2, <1>5, ByRow
<1>7. \A i \in 1..Len(placed) : Text(placed[i].sig)
  BY <1>3, <1>6 DEF ApprovalList
<1> QED
  BY <1>6, <1>7 DEF PlacedApprovals, IsList

LEMMA FourTexts ==
  ASSUME NEW a, NEW b, NEW c, NEW d, Text(a), Text(b), Text(c), Text(d)
  PROVE  Text(a \o b \o c \o d)
<1> DEFINE r == a \o b
           s == r \o c
<1>1. Text(r)
  BY TextConcat
<1> HIDE DEF r
<1>2. Text(s)
  BY <1>1, TextConcat
<1> HIDE DEF s
<1>3. Text(s \o d)
  BY <1>2, TextConcat
<1> QED
  BY <1>3 DEF s, r


(* Something about each item of a list, all in one push. *)
LEMMA NumbersText ==
  ASSUME NEW n \in Nat, NEW e, e = [i \in 1..n |-> e[i]], NEW w \in Nat \ {0}, NEW v,
         \A i \in 1..n : e[i] = LE(w, v[i])
  PROVE  Text(push_data(FlattenSeq(e)))
<1>1. \A i \in 1..n : Text(e[i])
  BY LEFacts
<1> QED
  BY <1>1, EachText

LEMMA UpdateUnlockText ==
  ASSUME NEW t, IsList(t), NEW placed, IsList(placed),
         \A i \in 1..Len(placed) : Text(placed[i].statement.sig), NEW snapshot
  PROVE  Text(UpdateUnlock(t, placed, snapshot))
<1> DEFINE n == Len(placed)
           sigs == [i \in DOMAIN placed |-> placed[i].statement.sig]
           prices == [i \in DOMAIN placed |-> LE(4, placed[i].statement.price)]
           rows == [i \in DOMAIN placed |-> LE(1, placed[i].row - 1)]
           a == push_data(LE(4, snapshot.price))
           b == push_data(FlattenSeq(sigs))
           c == push_data(FlattenSeq(prices))
           d == push_data(FlattenSeq(rows))
           e == push_data(LE(4, snapshot.ts))
           f == push_data(table_bytes(t))
           g == push_int(0)
           h == push_data(oracle_redeem)
<1>1. n \in Nat /\ DOMAIN placed = 1..n
  BY DEF IsList
<1>2. Text(a) /\ Text(e)
  <2>1. \A x : Text(LE(4, x))
    BY LEFacts
  <2>2. \A x : Text(push_data(LE(4, x)))
    BY ONLY <2>1, PushText
  <2> QED
    BY <2>2
<1>3. Text(b)
  <2>1. sigs = [i \in 1..n |-> sigs[i]] /\ \A i \in 1..n : Text(sigs[i])
    BY <1>1
  <2> HIDE DEF sigs, n
  <2> QED
    BY ONLY <1>1, <2>1, EachText
<1>4. Text(c)
  <2> DEFINE v == [i \in 1..n |-> placed[i].statement.price]
  <2>1. prices = [i \in 1..n |-> prices[i]] /\ \A i \in 1..n : prices[i] = LE(4, v[i])
    BY <1>1
  <2>2. 4 \in Nat \ {0}
    OBVIOUS
  <2> HIDE DEF prices, v, n
  <2> QED
    BY ONLY <1>1, <2>1, <2>2, NumbersText
<1>5. Text(d)
  <2> DEFINE v == [i \in 1..n |-> placed[i].row - 1]
  <2>1. rows = [i \in 1..n |-> rows[i]] /\ \A i \in 1..n : rows[i] = LE(1, v[i])
    BY <1>1
  <2>2. 1 \in Nat \ {0}
    OBVIOUS
  <2> HIDE DEF rows, v, n
  <2> QED
    BY ONLY <1>1, <2>1, <2>2, NumbersText
<1>6. Text(f)
  <2>1. Text(table_bytes(t))
    BY TableText DEF IsList
  <2> QED
    BY ONLY <2>1, PushText
<1>7. Text(g) /\ Text(h)
  BY PushIntText, CodeTexts, PushText
<1> DEFINE front == a \o b \o c \o d
<1>8. Text(front)
  <2> HIDE DEF a, b, c, d
  <2> QED
    BY <1>2, <1>3, <1>4, <1>5, FourTexts
<1>9. Text(front \o e \o f \o g \o h)
  <2> HIDE DEF front, e, f, g, h
  <2>1. Text(front \o e \o f \o g)
    BY <1>2, <1>6, <1>7, <1>8, FourTexts
  <2> DEFINE r == front \o e \o f \o g
  <2> HIDE DEF r
  <2>2. Text(r \o h)
    BY <1>7, <2>1, TextConcat DEF r
  <2> QED
    BY <2>2 DEF r
<1>10. UpdateUnlock(t, placed, snapshot) = a \o b \o c \o d \o e \o f \o g \o h
  BY DEF UpdateUnlock, Each
<1> HIDE DEF a, b, c, d, e, f, g, h
<1> QED
  BY <1>9, <1>10 DEF front

LEMMA RotateUnlockText ==
  ASSUME NEW t, IsList(t), NEW placed, IsList(placed),
         \A i \in 1..Len(placed) : Text(placed[i].sig), NEW redeem, Text(redeem)
  PROVE  Text(RotateUnlock(placed, t, redeem))
<1> DEFINE n == Len(placed)
           sigs == [i \in DOMAIN placed |-> placed[i].sig]
           rows == [i \in DOMAIN placed |-> LE(1, placed[i].row - 1)]
           a == push_data(FlattenSeq(sigs))
           b == push_data(FlattenSeq(rows))
           c == push_data(table_bytes(t))
           d == push_int(1)
           e == push_data(redeem)
<1>1. n \in Nat /\ DOMAIN placed = 1..n
  BY DEF IsList
<1>2. Text(a)
  <2>1. sigs = [i \in 1..n |-> sigs[i]] /\ \A i \in 1..n : Text(sigs[i])
    BY <1>1
  <2> HIDE DEF sigs, n
  <2> QED
    BY ONLY <1>1, <2>1, EachText
<1>3. Text(b)
  <2> DEFINE v == [i \in 1..n |-> placed[i].row - 1]
  <2>1. rows = [i \in 1..n |-> rows[i]] /\ \A i \in 1..n : rows[i] = LE(1, v[i])
    BY <1>1
  <2>2. 1 \in Nat \ {0}
    OBVIOUS
  <2> HIDE DEF rows, v, n
  <2> QED
    BY ONLY <1>1, <2>1, <2>2, NumbersText
<1>4. Text(c)
  <2>1. Text(table_bytes(t))
    BY TableText DEF IsList
  <2> QED
    BY ONLY <2>1, PushText
<1>5. Text(d) /\ Text(e)
  BY PushIntText, PushText
<1>6. Text(a \o b \o c \o d \o e)
  <2> HIDE DEF a, b, c, d, e
  <2>1. Text(a \o b \o c \o d)
    BY <1>2, <1>3, <1>4, <1>5, FourTexts
  <2> DEFINE r == a \o b \o c \o d
  <2> HIDE DEF r
  <2>2. Text(r \o e)
    BY <1>5, <2>1, TextConcat DEF r
  <2> QED
    BY <2>2 DEF r
<1>7. RotateUnlock(placed, t, redeem) = a \o b \o c \o d \o e
  BY DEF RotateUnlock, Each
<1> HIDE DEF a, b, c, d, e
<1> QED
  BY <1>6, <1>7

-----------------------------------------------------------------------------
(* Rotations: a table change, a retirement, a migration. *)

LEMMA Tables ==
  ASSUME NEW t \in Table
  PROVE  IsList(t) /\ Len(t) >= QUORUM
<1> DEFINE n == Len(t)
<1>1. n \in QUORUM..MAX_ROWS /\ t = [i \in 1..n |-> [key |-> t[i].key, source |-> t[i].source]]
  BY SpendingAssumption
<1>2. n \in Nat /\ n >= QUORUM
  BY <1>1 DEF QUORUM, MAX_ROWS
<1>3. t = [i \in 1..n |-> t[i]]
  BY <1>1
<1> QED
  BY <1>2, <1>3 DEF IsList

LEMMA PaidNFT ==
  ASSUME NEW name, NEW lock, NEW capability, NEW c, NEW value
  PROVE  LET o == Paid(value, lock, Token(Display(name), capability, c))
         IN /\ HasNFT(o, lock, capability) /\ o.token[1].commitment = c
            /\ o.value = value /\ o.locking_script = lock
<1> DEFINE t == [category |-> Reversed(Display(name)), capability |-> capability, commitment |-> c, amount |-> 0]
           o == Paid(value, lock, Token(Display(name), capability, c))
<1>1. o = [value |-> value, locking_script |-> lock, token |-> <<t>>]
  BY DEF Paid, Token
<1>2. t.category = Reversed(Display(name)) /\ t.commitment = c
  <2> DEFINE r == Reversed(Display(name))
  <2> HIDE DEF r
  <2>1. t.category = r /\ t.commitment = c
    BY DEF r
  <2> QED
    BY <2>1 DEF r
<1> HIDE DEF o, t
<1>3. o.token = <<t>> /\ o.value = value /\ o.locking_script = lock
  BY <1>1
<1>4. o.token[1] = t /\ o.token # <<>>
  BY <1>3
<1>5. NameOf(Reversed(Display(name))) = name
  BY DEF NameOf, Reversed, Display, Piece
<1>6. o = Paid(o.value, lock, Token(Display(NameOf(o.token[1].category)), capability, o.token[1].commitment))
  <2>1. NameOf(o.token[1].category) = name /\ o.token[1].commitment = c
    BY <1>2, <1>4, <1>5
  <2> QED
    BY <1>3, <2>1 DEF o
<1> QED
  BY <1>2, <1>3, <1>4, <1>6 DEF HasNFT, o

(* What was built spends the head, if there is one, and leaves at most one. *)
JobSound(b, U, hash) ==
    /\ SoundFor(b, U) /\ Kinds(b.tx.outputs, hash)
    /\ \A u \in U : Mints(u.out) => \E i \in 1..Len(b.tx.inputs) : b.tx.inputs[i].prev = u.outpoint

LEMMA OneOutput ==
  ASSUME NEW o, NEW hash, Text(hash), Kind(o, hash), o.value = 0
  PROVE  /\ Kinds(<<o>>, hash) /\ <<o>> = [i \in 1..1 |-> <<o>>[i]]
         /\ \A i \in 1..1 : IsOutput(<<o>>[i])
         /\ Sum(<<o>>) - <<o>>[1].value = 0
<1> DEFINE s == <<o>>
<1>1. Len(s) = 1 /\ s[1] = o /\ DOMAIN s = 1..1 /\ s = [i \in 1..1 |-> s[i]]
  OBVIOUS
<1>2. IsOutput(o)
  BY KindOutput
<1> HIDE DEF s
<1>3. \A i \in 1..1 : s[i] = o
  BY <1>1
<1>4. Kinds(s, hash)
  BY <1>1, <1>3 DEF Kinds
<1>5. \A i \in 1..1 : s[i].value \in Int
  BY <1>3
<1>6. Sum(s) = s[1].value
  <2>1. 1 \in {1, 2, 3}
    OBVIOUS
  <2>2. Sum(s) = s[1].value + (IF 1 > 1 THEN s[2].value ELSE 0) + (IF 1 > 2 THEN s[3].value ELSE 0)
    BY <1>1, <1>5, <2>1, SumOfFew
  <2>3. s[1].value = 0
    BY <1>1
  <2> QED
    BY <2>2, <2>3
<1> QED
  BY <1>1, <1>2, <1>3, <1>4, <1>6 DEF s

LEMMA RotationBuilt ==
  ASSUME NEW hash, Chain(utxos, hash), NEW u \in utxos, Mints(u.out),
         NEW head, head.outpoint = u.outpoint, head.value = u.out.value,
         NEW lock_in, NEW redeem, Text(redeem), NEW t, IsList(t),
         NEW placed, placed # Refused => PlacedApprovals(placed),
         NEW state, NEW next_lock, NEW tail, NEW hash2, Text(hash2),
         Kind(Paid(0, next_lock, Token(head.category, MINTING, state \o tail)), hash2),
         NEW r, r = rotate_generic(head, state, lock_in, redeem, t, placed, next_lock, tail, <<>>), r # Refused
  PROVE  JobSound(r[1], utxos, hash2)
<1> DEFINE x == HeadInput(head, lock_in, RotateUnlock(placed, t, redeem))
           none == [i \in DOMAIN <<>> |-> CoinInput(<<>>[i])]
           ins == <<x>> \o none
           o == Paid(0, next_lock, Token(head.category, MINTING, state \o tail))
<1>1. placed # Refused /\ r = SpendHead(ins, Draft(ins, <<o>>, 0), 0, P2PKH_DUST)
  BY DEF rotate_generic
<1>2. Text(RotateUnlock(placed, t, redeem))
  BY <1>1, RotateUnlockText DEF PlacedApprovals
<1>3. IsOutpoint(u.outpoint) /\ u.out.value \in Int /\ OneEach(utxos)
  BY DEF Chain
<1>4. IsSource(x) /\ Backed(x, utxos) /\ x.prev = u.outpoint
  <2> DEFINE k == RotateUnlock(placed, t, redeem)
  <2> HIDE DEF k, x
  <2>1. LET y == HeadInput(head, lock_in, k)
        IN IsSource(y) /\ Backed(y, utxos) /\ y.prev = u.outpoint
    BY ONLY <1>2, <1>3, u \in utxos, head.outpoint = u.outpoint, head.value = u.out.value, HeadSource DEF k
  <2> QED
    BY <2>1 DEF k, x
<1> HIDE DEF x
<1>5. PlanFrom(<<x>>, utxos) /\ Len(<<x>>) = 1
  <2> DEFINE s == <<x>>
  <2>1. s = [i \in 1..1 |-> s[i]] /\ \A i \in 1..1 : s[i] = x
    OBVIOUS
  <2>2. \A i \in 1..1 : IsSource(s[i]) /\ Backed(s[i], utxos)
    BY <1>4, <2>1
  <2> HIDE DEF s
  <2>3. PlanFrom(s, utxos) /\ Len(s) = 1
    BY <2>1, <2>2, ListPlan
  <2> QED
    BY <2>3 DEF s
<1>6. PlanFrom(none, utxos)
  <2> DEFINE coins == <<>>
  <2>1. coins = [i \in 1..0 |-> coins[i]] /\ \A i \in 1..0 : coins[i] \in find_coins
    OBVIOUS
  <2> HIDE DEF coins
  <2>2. PlanFrom([i \in DOMAIN coins |-> CoinInput(coins[i])], utxos)
    BY <2>1, CoinsPlan
  <2> QED
    BY <2>2 DEF coins
<1> HIDE DEF none
<1>7. PlanFrom(ins, utxos) /\ Len(ins) \in Nat /\ Len(ins) >= 1 /\ ins[1] = x
  <2> DEFINE a == <<x>>
  <2>1. Len(a) = 1 /\ a[1] = x
    OBVIOUS
  <2>2. PlanFrom(a, utxos)
    BY <1>5
  <2> HIDE DEF a
  <2>3. /\ PlanFrom(a \o none, utxos) /\ Len(a \o none) = Len(a) + Len(none)
        /\ \A i \in 1..Len(a) : (a \o none)[i] = a[i]
    BY <1>6, <2>2, PlanConcat
  <2>4. Len(none) \in Nat
    BY <1>6 DEF PlanFrom, IsPlan
  <2>5. (a \o none)[1] = x
    BY <2>1, <2>3
  <2> QED
    BY <2>1, <2>3, <2>4, <2>5 DEF a
<1> HIDE DEF ins
<1> DEFINE os == <<o>>
<1>8. /\ Kinds(os, hash2) /\ os = [i \in 1..1 |-> os[i]]
      /\ \A i \in 1..1 : IsOutput(os[i]) /\ 0 = Sum(os) - os[1].value
  <2>1. o.value = 0 /\ Kind(o, hash2)
    BY DEF Paid
  <2> HIDE DEF o
  <2> QED
    BY <2>1, OneOutput
<1> HIDE DEF os
<1>9. 0 = Sum(os) - os[1].value /\ FewOutputs(1, os)
  BY <1>8 DEF FewOutputs
<1>10. r = SpendHead(ins, Draft(ins, os, 0), 0, P2PKH_DUST)
  BY <1>1 DEF os
<1>11. /\ SoundFor(r[1], utxos) /\ Kinds(r[1].tx.outputs, hash2)
       /\ Len(r[1].tx.inputs) = Len(ins)
       /\ \A j \in 1..Len(ins) : r[1].tx.inputs[j].prev = ins[j].prev
  <2>1. Kinds(os, hash2) /\ SpendsHead(r, utxos, ins, 1, os, 0, 0, P2PKH_DUST)
    BY <1>3, <1>7, <1>8, <1>9, <1>10 DEF SpendsHead
  <2> QED
    BY ONLY <2>1, HeadSpent
<1>12. ASSUME NEW v \in utxos, Mints(v.out)
       PROVE  \E i \in 1..Len(r[1].tx.inputs) : r[1].tx.inputs[i].prev = v.outpoint
  <2>1. v = u
    BY <1>12 DEF Chain
  <2>2. 1 \in 1..Len(ins)
    BY <1>7
  <2>3. r[1].tx.inputs[1].prev = u.outpoint
    BY <1>4, <1>7, <1>11, <2>2
  <2> QED
    BY <1>11, <2>1, <2>2, <2>3
<1> QED
  BY <1>11, <1>12 DEF JobSound

(* A state that goes to this lock, with this tail behind it. *)
Carries(lock, tail, len, hash) ==
    \A name, state : Text(state) /\ Size(state) = len
                     => Kind(Paid(0, lock, Token(Display(name), MINTING, state \o tail)), hash)

LEMMA ApprovalTexts ==
  ASSUME table \in Table, NEW count \in Counts, NEW head, NEW lock, NEW tail
  PROVE  ApprovalList(count, Approvals(count, head, lock, tail))
<1> DEFINE text == approval_message(Reversed(head.category), head.commit.table_hash, lock, tail)
           a == Approvals(count, head, lock, tail)
<1>1. Len(table) \in Nat
  BY Tables DEF IsList
<1>2. count \in Nat
  BY <1>1 DEF Counts
<1>3. a = [i \in 1..count |-> [key |-> table[i].key, sig |-> Signature(table[i].key, text)]]
  BY DEF Approvals
<1>4. \A key, msg : Text(Signature(key, msg))
  <2>1. \A kind, content : Text(Piece(64, kind, content))
    BY TextPiece
  <2> QED
    BY <2>1 DEF Signature
<1> HIDE DEF a, text
<1>5. \A i \in 1..count : a[i].sig = Signature(table[i].key, text)
  BY <1>3
<1>6. a = [i \in 1..count |-> a[i]]
  BY <1>3
<1> QED
  BY <1>2, <1>4, <1>5, <1>6 DEF a, ApprovalList

LEMMA RotatedBuilt ==
  ASSUME table \in Table, Chain(utxos, table_hash(table)), NEW head \in find_head,
         NEW lock, NEW tail, NEW count \in Counts, NEW hash, Text(hash),
         Carries(lock, tail, SNAPSHOT_LEN, hash),
         NEW r, r = Rotated(head, lock, tail, count), r # Refused
  PROVE  JobSound(r[1], utxos, hash)
<1> DEFINE old == table_hash(table)
           a == Approvals(count, head, lock, tail)
           placed == place_approvals(table, head.commit.table_hash, Reversed(head.category), lock, tail, a)
<1>1. IsHash(old)
  BY TableHash
<1>2. Chain(utxos, old)
  OBVIOUS
<1>3. IsList(table)
  BY Tables
<1>4. ApprovalList(count, a)
  BY ApprovalTexts
<1> HIDE DEF old
<1>5. PICK u \in utxos : /\ AsHead(u.out, old) /\ Mints(u.out)
                         /\ \E state : FoundAs(head, u, state, old, SNAPSHOT_LEN)
  BY <1>1, <1>2, HeadFound
<1>6. PICK state : FoundAs(head, u, state, old, SNAPSHOT_LEN)
  BY <1>5
<1>7. /\ head.outpoint = u.outpoint /\ head.value = u.out.value
      /\ Text(state) /\ Size(state) = SNAPSHOT_LEN /\ head.raw = state \o old
      /\ head.category = Display(NameOf(u.out.token[1].category))
  BY <1>6 DEF FoundAs
<1>8. Slice(head.raw, 0, SNAPSHOT_LEN) = state
  <2>1. Slice(state \o old, 0, Size(state)) = state
    BY <1>1, <1>7, Halves DEF IsHash
  <2> QED
    BY <1>7, <2>1
<1>9. Kind(Paid(0, lock, Token(head.category, MINTING, state \o tail)), hash)
  BY <1>7 DEF Carries
<1>10. r = rotate_generic(head, state, oracle_lock, oracle_redeem, table, placed, lock, tail, <<>>)
  BY <1>8 DEF Rotated, build_rotate
<1> HIDE DEF a
<1>11. placed # Refused => PlacedApprovals(placed)
  <2> HIDE DEF placed
  <2> SUFFICES ASSUME placed # Refused PROVE PlacedApprovals(placed)
    OBVIOUS
  <2> QED
    BY ONLY <1>3, <1>4, placed # Refused, ApprovalsPlaced DEF placed
<1> HIDE DEF placed
<1>12. Text(oracle_redeem)
  BY CodeTexts
<1> QED
  BY ONLY <1>2, <1>3, <1>5, <1>7, <1>9, <1>10, <1>11, <1>12, RotationBuilt, r # Refused, u \in utxos, Text(hash)

LEMMA MigrationBuilt ==
  ASSUME table \in Table, Chain(utxos, table_hash(table)), NEW head \in find_legacy_head, NEW count \in Counts,
         NEW tail, tail = migration_tail(head.commit.table_hash),
         NEW r, r = build_migration(head, table, Approvals(count, head, oracle_lock, tail), <<>>), r # Refused
  PROVE  JobSound(r[1], utxos, table_hash(table))
<1> DEFINE old == table_hash(table)
           a == Approvals(count, head, oracle_lock, tail)
           placed == place_approvals(table, head.commit.table_hash, Reversed(head.category),
                                     oracle_lock, tail, a)
           filler == LE(1, 0) \o LE(1, 0) \o LE(1, 0) \o LE(1, 0)
<1>1. IsHash(old)
  BY TableHash
<1>2. Chain(utxos, old)
  OBVIOUS
<1>3. IsList(table)
  BY Tables
<1>4. ApprovalList(count, a)
  BY ApprovalTexts
<1> HIDE DEF old
<1>5. PICK u \in utxos : /\ AsHead26(u.out, old) /\ Mints(u.out)
                         /\ \E state : FoundAs(head, u, state, old, Legacy_SNAPSHOT_LEN)
  BY <1>1, <1>2, LegacyFound
<1>6. PICK state : FoundAs(head, u, state, old, Legacy_SNAPSHOT_LEN)
  BY <1>5
<1>7. /\ head.outpoint = u.outpoint /\ head.value = u.out.value
      /\ Text(state) /\ Size(state) = Legacy_SNAPSHOT_LEN /\ head.raw = state \o old
      /\ head.category = Display(NameOf(u.out.token[1].category))
      /\ head.commit.table_hash = old
  BY <1>6 DEF FoundAs
<1>8. Slice(head.raw, 0, Legacy_SNAPSHOT_LEN) = state
  <2>1. Slice(state \o old, 0, Size(state)) = state
    BY <1>1, <1>7, Halves DEF IsHash
  <2> QED
    BY <1>7, <2>1
<1>9. Text(filler) /\ Size(filler) = 4
  <2> DEFINE z == LE(1, 0)
  <2>1. Text(z) /\ Size(z) = 1
    BY LEFacts
  <2> HIDE DEF z
  <2>2. Text(z \o z) /\ Size(z \o z) = 2
    BY <2>1, TextConcat, EndsConcat
  <2>3. Text(z \o z \o z) /\ Size(z \o z \o z) = 3
    BY <2>1, <2>2, TextConcat, EndsConcat
  <2>4. Text(z \o z \o z \o z) /\ Size(z \o z \o z \o z) = 4
    BY <2>1, <2>3, TextConcat, EndsConcat
  <2> QED
    BY <2>4 DEF z
<1>10. tail = filler \o old
  BY <1>7 DEF migration_tail
<1> HIDE DEF filler
<1>11. Text(state \o filler) /\ Size(state \o filler) = SNAPSHOT_LEN
  <2>1. Text(state \o filler) /\ Size(state \o filler) = Size(state) + Size(filler)
    BY <1>7, <1>9, TextConcat, EndsConcat
  <2> QED
    BY <1>7, <1>9, <2>1 DEF SNAPSHOT_LEN, Legacy_SNAPSHOT_LEN
<1>12. state \o tail = (state \o filler) \o old
  <2>1. Text(old) /\ Text(state) /\ Text(filler)
    BY <1>1, <1>7, <1>9 DEF IsHash
  <2>2. (state \o filler) \o old = state \o (filler \o old)
    BY ONLY <2>1, TextAssoc
  <2> QED
    BY ONLY <1>10, <2>2
<1>13. Kind(Paid(0, oracle_lock, Token(head.category, MINTING, state \o tail)), old)
  <2> DEFINE c == state \o tail
             name == NameOf(u.out.token[1].category)
             o == Paid(0, oracle_lock, Token(Display(name), MINTING, c))
  <2>1. c = (state \o filler) \o old /\ head.category = Display(name)
    BY <1>7, <1>12
  <2> HIDE DEF c, name
  <2>2. HasNFT(o, oracle_lock, MINTING) /\ o.token[1].commitment = c
    BY ONLY PaidNFT
  <2> HIDE DEF o
  <2>3. AsHead(o, old)
    BY <1>11, <2>1, <2>2 DEF AsHead
  <2> QED
    BY <2>1, <2>3 DEF Kind, o, c
<1>14. r = rotate_generic(head, state, oracle26_lock, oracle26_redeem, table, placed, oracle_lock, tail, <<>>)
  BY <1>8 DEF build_migration
<1> HIDE DEF a
<1>15. placed # Refused => PlacedApprovals(placed)
  <2> HIDE DEF placed
  <2> SUFFICES ASSUME placed # Refused PROVE PlacedApprovals(placed)
    OBVIOUS
  <2> QED
    BY ONLY <1>3, <1>4, placed # Refused, ApprovalsPlaced DEF placed
<1> HIDE DEF placed
<1>16. Text(oracle26_redeem) /\ Text(old)
  BY <1>1, CodeTexts DEF IsHash
<1>17. JobSound(r[1], utxos, old)
  BY ONLY <1>2, <1>3, <1>5, <1>7, <1>13, <1>14, <1>15, <1>16, RotationBuilt, r # Refused, u \in utxos
<1> QED
  BY <1>17 DEF old

(* A table change and a retirement carry the state on. *)
LEMMA TableChangeCarries ==
  ASSUME NEW t
  PROVE  Text(table_hash(t)) /\ Carries(oracle_lock, table_hash(t), SNAPSHOT_LEN, table_hash(t))
<1> DEFINE hash == table_hash(t)
<1>1. Text(hash)
  BY TableHash DEF IsHash
<1> HIDE DEF hash
<1>2. ASSUME NEW name, NEW state, Text(state), Size(state) = SNAPSHOT_LEN
      PROVE  Kind(Paid(0, oracle_lock, Token(Display(name), MINTING, state \o hash)), hash)
  <2> DEFINE c == state \o hash
             o == Paid(0, oracle_lock, Token(Display(name), MINTING, c))
  <2>1. c = state \o hash
    OBVIOUS
  <2> HIDE DEF c
  <2>2. HasNFT(o, oracle_lock, MINTING) /\ o.token[1].commitment = c
    BY ONLY PaidNFT
  <2> HIDE DEF o
  <2>3. AsHead(o, hash)
    BY <1>2, <2>1, <2>2 DEF AsHead
  <2> QED
    BY <2>3 DEF Kind, o, c
<1>3. Carries(oracle_lock, hash, SNAPSHOT_LEN, hash)
  BY <1>2 DEF Carries
<1> QED
  BY <1>1, <1>3 DEF hash

LEMMA RetirementCarries ==
  ASSUME NEW text, NEW hash
  PROVE  Carries(RetireLock(text), <<>>, SNAPSHOT_LEN, hash)
<1> DEFINE lock == RetireLock(text)
<1>1. IsKeyLock(lock)
  <2>1. \A kind, content : Text(Piece(20, kind, content))
    BY TextPiece
  <2> QED
    BY <2>1, KeyLocks DEF RetireLock
<1> HIDE DEF lock
<1>2. ASSUME NEW name, NEW state, Text(state), Size(state) = SNAPSHOT_LEN
      PROVE  Kind(Paid(0, lock, Token(Display(name), MINTING, state \o <<>>)), hash)
  <2> DEFINE c == state \o <<>>
             o == Paid(0, lock, Token(Display(name), MINTING, c))
  <2>1. HasNFT(o, lock, MINTING) /\ o.token[1].commitment = c /\ o.locking_script = lock
    BY PaidNFT
  <2>2. Text(c)
    BY <1>2, TextEmpty
  <2> HIDE DEF o, c
  <2>3. AsRetired(o)
    BY <1>1, <2>1, <2>2 DEF AsRetired
  <2> QED
    BY <2>3 DEF Kind, o, c
<1> QED
  BY <1>2 DEF Carries, lock

-----------------------------------------------------------------------------
(* Tickers. *)

Matches(S, T, f) ==
    /\ f = [x \in S |-> f[x]] /\ \A x \in S : f[x] \in T
    /\ \A y \in T : \E x \in S : f[x] = y
    /\ \A x, y \in S : f[x] = f[y] => x = y

LEMMA SameCount ==
  ASSUME NEW S, IsFiniteSet(S), NEW T, NEW f, Matches(S, T, f)
  PROVE  IsFiniteSet(T) /\ Cardinality(T) = Cardinality(S) /\ Cardinality(S) \in Nat
<1>1. DOMAIN f = S /\ f \in [S -> T]
  BY DEF Matches
<1>2. f \in Surjection(S, T)
  BY <1>1 DEF Matches, Surjection
<1>3. IsInjective(f)
  BY <1>1 DEF Matches, IsInjective
<1>4. f \in Injection(S, T)
  BY <1>1, <1>3 DEF Injection
<1> QED
  BY <1>2, <1>4, FS_Surjection, FS_CardinalityType

TickersOf(U) == {u \in U : u.out.locking_script \in {ticker_lock, ticker26_lock}}
Recyclable(u) == TickerUtxo(u, DueAt(u))

LEMMA TickerRead ==
  ASSUME NEW U, NEW hash, Chain(U, hash), NEW u \in TickersOf(U)
  PROVE  /\ DueAt(u) \in Int
         /\ u.out.locking_script = ticker_lock =>
               /\ Size(u.out.token[1].commitment) = SNAPSHOT_LEN
               /\ recyclable_at(Decoded(u.out.token[1].commitment)) = DueAt(u)
         /\ u.out.locking_script = ticker26_lock =>
               /\ Size(u.out.token[1].commitment) = Legacy_SNAPSHOT_LEN
               /\ recyclable_at26(Decoded26(u.out.token[1].commitment)) = DueAt(u)
<1> DEFINE c == u.out.token[1].commitment
<1>1. u \in U /\ u.out.locking_script \in {ticker_lock, ticker26_lock} /\ Kind(u.out, hash)
  BY DEF TickersOf, Chain
<1>2. ticker_lock # ticker26_lock
  <2>1. \A x : Text(x) => IsKeyLock(p2pkh_locking_script(x))
    BY KeyLocks
  <2> QED
    BY <2>1, TextEmpty, LocksDiffer
<1>3. CASE u.out.locking_script = ticker_lock
  <2>1. Size(c) = SNAPSHOT_LEN /\ Decoded(c).ts \in Int
    BY <1>1, <1>3, KindByLock DEF AsTicker
  <2>2. Decoded(c).ts = Num(Slice(c, 0, 4))
    BY DEF Decoded
  <2>3. DueAt(u) = Num(Slice(c, 0, 4)) + 86400
    BY <1>3 DEF DueAt, TickerDue, Commitment
  <2>4. recyclable_at(Decoded(c)) = Decoded(c).ts + 86400
    BY DEF recyclable_at
  <2> HIDE DEF c
  <2> QED
    BY <1>2, <1>3, <2>1, <2>2, <2>3, <2>4 DEF c
<1>4. CASE u.out.locking_script = ticker26_lock
  <2>1. Size(c) = Legacy_SNAPSHOT_LEN /\ Decoded26(c).seq \in Int
    BY <1>1, <1>4, KindByLock DEF AsTicker26
  <2>2. Decoded26(c).seq = Num(Slice(c, 0, 4))
    BY DEF Decoded26
  <2>3. DueAt(u) = 60 * Num(Slice(c, 0, 4)) + 3600
    BY <1>2, <1>4 DEF DueAt, Ticker26Due, Commitment
  <2>4. recyclable_at26(Decoded26(c)) = Decoded26(c).seq * 60 + 3600
    BY DEF recyclable_at26
  <2> HIDE DEF c
  <2> QED
    BY <1>2, <1>4, <2>1, <2>2, <2>3, <2>4 DEF c
<1> QED
  BY <1>1, <1>3, <1>4

LEMMA TickersAre ==
  ASSUME NEW U, NEW hash, Chain(U, hash)
  PROVE  TickersAt(U) = {Recyclable(u) : u \in TickersOf(U)}
<1> DEFINE old == {v \in U : /\ v.out.locking_script = ticker_lock
                             /\ Size(v.out.token[1].commitment) = SNAPSHOT_LEN}
           new == {v \in U : /\ v.out.locking_script = ticker26_lock
                             /\ Size(v.out.token[1].commitment) = Legacy_SNAPSHOT_LEN}
<1>1. ASSUME NEW u \in TickersOf(U) PROVE Recyclable(u) \in TickersAt(U)
  <2>1. u \in U /\ u.out.locking_script \in {ticker_lock, ticker26_lock}
    BY DEF TickersOf
  <2>2. CASE u.out.locking_script = ticker_lock
    <3>1. u \in old /\ recyclable_at(Decoded(u.out.token[1].commitment)) = DueAt(u)
      BY <2>1, <2>2, TickerRead
    <3>2. \A v \in old : TickerUtxo(v, recyclable_at(Decoded(v.out.token[1].commitment))) \in TickersAt(U)
      BY DEF TickersAt
    <3> HIDE DEF old
    <3> QED
      BY <3>1, <3>2 DEF Recyclable
  <2>3. CASE u.out.locking_script = ticker26_lock
    <3>1. u \in new /\ recyclable_at26(Decoded26(u.out.token[1].commitment)) = DueAt(u)
      BY <2>1, <2>3, TickerRead
    <3>2. \A v \in new : TickerUtxo(v, recyclable_at26(Decoded26(v.out.token[1].commitment))) \in TickersAt(U)
      BY DEF TickersAt
    <3> HIDE DEF new
    <3> QED
      BY <3>1, <3>2 DEF Recyclable
  <2> QED
    BY <2>1, <2>2, <2>3
<1>2. ASSUME NEW t \in TickersAt(U) PROVE \E u \in TickersOf(U) : t = Recyclable(u)
  <2>1. \/ \E u \in old : t = TickerUtxo(u, recyclable_at(Decoded(u.out.token[1].commitment)))
        \/ \E u \in new : t = TickerUtxo(u, recyclable_at26(Decoded26(u.out.token[1].commitment)))
    BY DEF TickersAt
  <2>2. CASE \E u \in old : t = TickerUtxo(u, recyclable_at(Decoded(u.out.token[1].commitment)))
    <3>1. PICK u \in old : t = TickerUtxo(u, recyclable_at(Decoded(u.out.token[1].commitment)))
      BY <2>2
    <3>2. u \in TickersOf(U) /\ u.out.locking_script = ticker_lock
      BY DEF TickersOf
    <3>3. recyclable_at(Decoded(u.out.token[1].commitment)) = DueAt(u)
      BY <3>2, TickerRead
    <3> QED
      BY <3>1, <3>2, <3>3 DEF Recyclable
  <2>3. CASE \E u \in new : t = TickerUtxo(u, recyclable_at26(Decoded26(u.out.token[1].commitment)))
    <3>1. PICK u \in new : t = TickerUtxo(u, recyclable_at26(Decoded26(u.out.token[1].commitment)))
      BY <2>3
    <3>2. u \in TickersOf(U) /\ u.out.locking_script = ticker26_lock
      BY DEF TickersOf
    <3>3. recyclable_at26(Decoded26(u.out.token[1].commitment)) = DueAt(u)
      BY <3>2, TickerRead
    <3> QED
      BY <3>1, <3>2, <3>3 DEF Recyclable
  <2> QED
    BY <2>1, <2>2, <2>3
<1> HIDE DEF old, new
<1> QED
  BY <1>1, <1>2

LEMMA RecyclableFields ==
  ASSUME NEW u
  PROVE  LET t == Recyclable(u)
         IN /\ t.outpoint = u.outpoint /\ t.value = u.out.value /\ t.recyclable_at = DueAt(u)
BY DEF Recyclable, TickerUtxo

(* Those that may be recycled, one for each Ticker that is due. *)
DueBy(U, m) == {u \in TickersOf(U) : DueAt(u) < m}

LEMMA ReadyAreDue ==
  ASSUME NEW U, NEW hash, Chain(U, hash), NEW m \in Int, NEW ready,
         ready = {t \in TickersAt(U) : t.recyclable_at < m}
  PROVE  /\ ready = {Recyclable(u) : u \in DueBy(U, m)}
         /\ IsFiniteSet(ready) /\ Cardinality(ready) = Cardinality(DueBy(U, m))
         /\ \A t \in ready : t.recyclable_at \in Int
<1> DEFINE due == DueBy(U, m)
           f == [u \in due |-> Recyclable(u)]
<1>1. \A u : Recyclable(u).recyclable_at = DueAt(u) /\ Recyclable(u).outpoint = u.outpoint
  BY RecyclableFields
<1>2. TickersAt(U) = {Recyclable(u) : u \in TickersOf(U)}
  BY TickersAre
<1>3. ready = {Recyclable(u) : u \in due}
  BY <1>1, <1>2 DEF DueBy
<1>4. due \subseteq U /\ OneEach(U) /\ IsFiniteSet(U)
  BY DEF DueBy, TickersOf, Chain
<1>5. IsFiniteSet(due)
  BY <1>4, FS_Subset
<1>6. \A u, v \in due : Recyclable(u) = Recyclable(v) => u = v
  BY <1>1, <1>4 DEF OneEach
<1>7. \A u \in due : DueAt(u) \in Int
  BY TickerRead DEF DueBy
<1> HIDE DEF due
<1>8. f = [u \in due |-> f[u]] /\ \A u \in due : f[u] = Recyclable(u)
  OBVIOUS
<1> HIDE DEF f
<1>9. Matches(due, ready, f)
  BY <1>3, <1>6, <1>8 DEF Matches
<1>10. IsFiniteSet(ready) /\ Cardinality(ready) = Cardinality(due)
  BY <1>5, <1>9, SameCount
<1>11. \A t \in ready : t.recyclable_at \in Int
  BY <1>1, <1>3, <1>7
<1> QED
  BY <1>3, <1>10, <1>11 DEF due

(* What an update recycles. *)
Recycled(s, U, m) ==
    /\ IsList(s) /\ Len(s) = Min({MAX_RECYCLE_PER_UPDATE, Cardinality(DueBy(U, m))})
    /\ \A i \in 1..Len(s) : \E u \in DueBy(U, m) : s[i] = Recyclable(u)
    /\ \A i \in 1..Len(s), j \in 1..Len(s) : i # j => s[i] # s[j]
    /\ \A i \in 1..Len(s), u \in DueBy(U, m) :
          (\A j \in 1..Len(s) : s[j] # Recyclable(u)) => s[i].recyclable_at <= DueAt(u)

LEMMA FrontOf ==
  ASSUME NEW o, IsList(o), NEW k \in 0..Len(o)
  PROVE  LET s == SubSeq(o, 1, k)
         IN IsList(s) /\ Len(s) = k /\ \A i \in 1..k : s[i] = o[i]
<1> DEFINE n == Len(o)
           S == {o[i] : i \in 1..n}
           s == SubSeq(o, 1, k)
<1>0. n \in Nat /\ o = [i \in 1..n |-> o[i]]
  BY DEF IsList
<1>1. o \in Seq(S) /\ Len(o) = n
  BY <1>0, FunctionIsSeq
<1> HIDE DEF S
<1>2. s \in Seq(S) /\ Len(s) = k /\ \A i \in 1..k : s[i] = o[i]
  BY ONLY <1>0, <1>1, k \in 0..n
<1>3. s = [i \in 1..Len(s) |-> s[i]] /\ Len(s) \in Nat
  <2> HIDE DEF s
  <2> QED
    BY <1>2
<1> QED
  BY <1>2, <1>3 DEF IsList

LEMMA LesserOf ==
  ASSUME NEW a \in Nat, NEW b \in Nat
  PROVE  Min({a, b}) \in 0..b
<1> DEFINE S == {a, b}
<1>1. S \subseteq Int /\ IsFiniteSet(S) /\ S # {} /\ a \in S /\ b \in S
  <2>1. IsFiniteSet({}) /\ {b} = {} \cup {b} /\ S = {b} \cup {a}
    BY FS_EmptySet
  <2>2. IsFiniteSet({b})
    BY <2>1, FS_AddElement
  <2>3. IsFiniteSet(S)
    BY <2>1, <2>2, FS_AddElement
  <2> QED
    BY <2>3
<1>2. \A x \in S : x = a \/ x = b
  OBVIOUS
<1> HIDE DEF S
<1>3. Min(S) \in S /\ Min(S) <= b
  BY <1>1, LeastIn
<1>4. Min(S) \in 0..b
  BY <1>2, <1>3
<1> QED
  BY <1>4 DEF S

Ordered(s, S, rank) ==
    LET n == Cardinality(S)
    IN /\ n \in Nat /\ Len(s) = n /\ s = [i \in 1..n |-> s[i]]
       /\ \A i \in 1..n : s[i] \in S
       /\ \A t \in S : \E i \in 1..n : s[i] = t
       /\ \A i \in 1..n, j \in 1..n : i < j => s[i] # s[j] /\ rank[s[i]] <= rank[s[j]]

LEMMA OrderedSet ==
  ASSUME NEW S, IsFiniteSet(S), NEW rank, \A t \in S : rank[t] \in Int
  PROVE  Ordered(InOrder(S, rank), S, rank)
BY InOrderFacts DEF Ordered

LEMMA OldestFirst ==
  ASSUME NEW U, NEW hash, Chain(U, hash), NEW m \in Int,
         NEW s, s = find_recyclable_tickers(U, m, MAX_RECYCLE_PER_UPDATE)
  PROVE  Recycled(s, U, m)
<1> DEFINE ready == {t \in TickersAt(U) : t.recyclable_at < m}
           rank == [t \in ready |-> t.recyclable_at]
           o == InOrder(ready, rank)
           n == Cardinality(ready)
           due == DueBy(U, m)
           k == Min({MAX_RECYCLE_PER_UPDATE, Len(o)})
<1>1. s = SubSeq(o, 1, k)
  BY DEF find_recyclable_tickers
<1>2. /\ ready = {Recyclable(u) : u \in due}
      /\ IsFiniteSet(ready) /\ Cardinality(ready) = Cardinality(due)
      /\ \A t \in ready : t.recyclable_at \in Int
  BY ReadyAreDue
<1> HIDE DEF ready
<1>3. \A t \in ready : rank[t] = t.recyclable_at /\ rank[t] \in Int
  BY <1>2
<1> HIDE DEF rank
<1>4. /\ n \in Nat /\ Len(o) = n /\ o = [i \in 1..n |-> o[i]]
      /\ \A i \in 1..n : o[i] \in ready
      /\ \A t \in ready : \E i \in 1..n : o[i] = t
      /\ \A i \in 1..n, j \in 1..n : i < j => o[i] # o[j] /\ rank[o[i]] <= rank[o[j]]
  <2>1. Ordered(InOrder(ready, rank), ready, rank)
    BY <1>2, <1>3, OrderedSet
  <2>2. Ordered(o, ready, rank)
    BY <2>1
  <2> HIDE DEF o
  <2> QED
    BY <2>2 DEF Ordered
<1>5. MAX_RECYCLE_PER_UPDATE \in Nat
  BY SpendingAssumption
<1> HIDE DEF o
<1>6. k \in 0..n /\ k = Min({MAX_RECYCLE_PER_UPDATE, Cardinality(due)})
  BY <1>2, <1>4, <1>5, LesserOf
<1> HIDE DEF n, k, due
<1>7. IsList(s) /\ Len(s) = k /\ \A i \in 1..k : s[i] = o[i]
  <2>1. IsList(o) /\ Len(o) = n
    BY <1>4 DEF IsList
  <2>2. LET r == SubSeq(o, 1, k) IN IsList(r) /\ Len(r) = k /\ \A i \in 1..k : r[i] = o[i]
    BY <1>6, <2>1, FrontOf
  <2> QED
    BY <1>1, <2>2
<1>8. \A i \in 1..k : i \in 1..n
  BY <1>4, <1>6
<1>9. \A i \in 1..k : \E u \in due : s[i] = Recyclable(u)
  BY <1>2, <1>4, <1>7, <1>8
<1>10. ASSUME NEW i \in 1..k, NEW j \in 1..k, i # j PROVE s[i] # s[j]
  <2>1. i \in 1..n /\ j \in 1..n /\ (i < j \/ j < i)
    BY <1>4, <1>6, <1>8, <1>10
  <2>2. o[i] # o[j]
    BY <1>4, <2>1
  <2> QED
    BY <1>7, <2>2
<1>11. ASSUME NEW i \in 1..k, NEW u \in due, \A j \in 1..k : s[j] # Recyclable(u)
       PROVE  s[i].recyclable_at <= DueAt(u)
  <2>1. Recyclable(u) \in ready /\ Recyclable(u).recyclable_at = DueAt(u)
    BY <1>2, RecyclableFields
  <2>2. PICK j \in 1..n : o[j] = Recyclable(u)
    BY <1>4, <2>1
  <2>3. j \notin 1..k
    BY <1>7, <1>11, <2>2
  <2>4. i < j /\ i \in 1..n
    BY <1>4, <1>6, <1>8, <2>3
  <2>5. rank[o[i]] <= rank[o[j]]
    BY <1>4, <2>4
  <2>6. rank[o[i]] = s[i].recyclable_at /\ rank[o[j]] = DueAt(u)
    BY <1>3, <1>4, <1>7, <2>1, <2>2, <2>4
  <2> QED
    BY <2>5, <2>6
<1> QED
  BY <1>6, <1>7, <1>9, <1>10, <1>11 DEF Recycled, due

-----------------------------------------------------------------------------
(* The parts of an update. *)

LEMMA MostIn ==
  ASSUME NEW S, S \subseteq Int, IsFiniteSet(S), S # {}
  PROVE  Max(S) \in S
<1> DEFINE rank == [x \in S |-> -x]
<1>1. \A x \in S : rank[x] = -x /\ rank[x] \in Int /\ x \in Int
  OBVIOUS
<1> HIDE DEF rank
<1>2. \E x \in S : \A y \in S : rank[x] <= rank[y]
  BY <1>1, LeastOf
<1>3. \E x \in S : \A y \in S : x >= y
  BY <1>1, <1>2
<1> QED
  BY <1>3 DEF Max

LEMMA LocktimeInt ==
  ASSUME NEW ts \in Int, NEW s, IsList(s), \A i \in 1..Len(s) : s[i].recyclable_at \in Int
  PROVE  update_locktime(ts, s) \in Int
<1> DEFINE a == ts - SEQ_AHEAD_SECS
           S == {0, a}
           f == Max(S)
           n == Len(s)
           at == [i \in 1..n |-> s[i].recyclable_at]
           T == {s[i].recyclable_at : i \in 1..n}
<1>1. a \in Int
  BY DEF SEQ_AHEAD_SECS
<1> HIDE DEF a
<1>2. S \subseteq Int /\ IsFiniteSet(S) /\ S # {}
  <2>1. IsFiniteSet({}) /\ {a} = {} \cup {a} /\ S = {a} \cup {0}
    BY FS_EmptySet
  <2>2. IsFiniteSet({a})
    BY <2>1, FS_AddElement
  <2>3. IsFiniteSet(S)
    BY <2>1, <2>2, FS_AddElement
  <2> QED
    BY <1>1, <2>3
<1>3. f \in Int
  <2> HIDE DEF S
  <2> QED
    BY <1>2, MostIn
<1>4. n \in Nat /\ \A i \in 1..n : s[i].recyclable_at \in Int
  BY DEF IsList
<1>5. {t.recyclable_at : t \in ToSet(s)} = T
  <2>1. n \in Nat /\ s = [i \in 1..n |-> s[i]]
    BY DEF IsList
  <2> HIDE DEF n
  <2>2. /\ \A x \in ToSet(s) : \E i \in 1..n : x = s[i]
        /\ \A i \in 1..n : s[i] \in ToSet(s)
    BY <2>1, Listed
  <2> QED
    BY <2>2
<1> HIDE DEF n
<1>6. IsFiniteSet(T) /\ T \subseteq Int
  <2>1. at = [i \in 1..n |-> at[i]] /\ \A i \in 1..n : at[i] = s[i].recyclable_at
    OBVIOUS
  <2> HIDE DEF at
  <2>2. /\ IsFiniteSet(ToSet(at)) /\ \A x \in ToSet(at) : \E i \in 1..n : x = at[i]
        /\ \A i \in 1..n : at[i] \in ToSet(at)
    BY <1>4, <2>1, Listed
  <2>3. ToSet(at) = T
    BY <2>1, <2>2
  <2> QED
    BY <1>4, <2>2, <2>3
<1> HIDE DEF S, T, f
<1>7. update_locktime(ts, s) = Max({f} \cup T)
  BY <1>5 DEF update_locktime, f, S, a
<1>8. T \cup {f} \subseteq Int /\ IsFiniteSet(T \cup {f}) /\ T \cup {f} # {} /\ {f} \cup T = T \cup {f}
  BY <1>3, <1>6, FS_AddElement
<1> DEFINE R == T \cup {f}
<1> HIDE DEF R
<1>9. Max(R) \in Int
  <2>1. R \subseteq Int /\ IsFiniteSet(R) /\ R # {}
    BY <1>8 DEF R
  <2> QED
    BY <2>1, MostIn
<1> QED
  BY <1>7, <1>8, <1>9 DEF R

LEMMA FiveTexts ==
  ASSUME NEW a, NEW b, NEW c, NEW d, NEW e, Text(a), Text(b), Text(c), Text(d), Text(e)
  PROVE  /\ Text(a \o b \o c \o d \o e)
         /\ Size(a \o b \o c \o d \o e) = Size(a) + Size(b) + Size(c) + Size(d) + Size(e)
         /\ Slice(a \o b \o c \o d \o e, 0, Size(a)) = a
<1> DEFINE r == ((b \o c) \o d) \o e
           whole == (((a \o b) \o c) \o d) \o e
<1>1. Text(b \o c) /\ Text((b \o c) \o d) /\ Text(r) /\ Text(a \o b) /\ Text((a \o b) \o c) /\ Text(((a \o b) \o c) \o d)
  BY TextConcat
<1>2. (a \o b) \o c = a \o (b \o c)
  BY TextAssoc
<1>3. (a \o (b \o c)) \o d = a \o ((b \o c) \o d)
  <2> DEFINE x == b \o c
  <2>1. Text(x)
    BY <1>1
  <2> HIDE DEF x
  <2>2. (a \o x) \o d = a \o (x \o d)
    BY ONLY <2>1, Text(a), Text(d), TextAssoc
  <2> QED
    BY <2>2 DEF x
<1>4. (a \o ((b \o c) \o d)) \o e = a \o r
  <2> DEFINE x == (b \o c) \o d
  <2>1. Text(x)
    BY <1>1
  <2> HIDE DEF x
  <2>2. (a \o x) \o e = a \o (x \o e)
    BY ONLY <2>1, Text(a), Text(e), TextAssoc
  <2> QED
    BY <2>2 DEF x
<1>5. whole = a \o r
  BY <1>2, <1>3, <1>4
<1>6. Slice(a \o r, 0, Size(a)) = a
  BY <1>1, Halves
<1>7. Text(whole) /\ Size(whole) = Size(a) + Size(b) + Size(c) + Size(d) + Size(e)
  <2>1. Size(a \o b) = Size(a) + Size(b)
    BY EndsConcat
  <2>2. Size((a \o b) \o c) = Size(a \o b) + Size(c)
    BY <1>1, EndsConcat
  <2>3. Size(((a \o b) \o c) \o d) = Size((a \o b) \o c) + Size(d)
    BY <1>1, EndsConcat
  <2>4. Size(whole) = Size(((a \o b) \o c) \o d) + Size(e)
    BY <1>1, EndsConcat
  <2>5. Text(whole)
    BY <1>1, TextConcat
  <2> HIDE DEF whole
  <2> QED
    BY <2>1, <2>2, <2>3, <2>4, <2>5
<1> HIDE DEF r
<1>8. Slice(whole, 0, Size(a)) = a
  BY <1>5, <1>6
<1> QED
  BY <1>7, <1>8

LEMMA SnapshotText ==
  ASSUME NEW s, s.ts \in Int
  PROVE  LET c == SnapshotBytes(s)
         IN Text(c) /\ Size(c) = SNAPSHOT_LEN /\ Decoded(c).ts = s.ts
<1> DEFINE c == SnapshotBytes(s)
           a == LE(4, s.ts)
           b == LE(4, s.seq)
           d == LE(4, s.price)
           e == LE(1, s.k)
<1>1. \A n : Text(LE(4, n)) /\ Size(LE(4, n)) = 4 /\ Text(LE(1, n)) /\ Size(LE(1, n)) = 1
  BY LEFacts
<1>2. Text(a) /\ Text(b) /\ Text(d) /\ Text(e) /\ Size(a) = 4 /\ Size(b) = 4 /\ Size(d) = 4 /\ Size(e) = 1
  BY <1>1
<1>3. Num(a) = s.ts
  BY NumberRead
<1>4. c = a \o b \o b \o d \o e
  BY DEF SnapshotBytes
<1> HIDE DEF a, b, d, e
<1>5. /\ Text(a \o b \o b \o d \o e)
      /\ Size(a \o b \o b \o d \o e) = Size(a) + Size(b) + Size(b) + Size(d) + Size(e)
      /\ Slice(a \o b \o b \o d \o e, 0, Size(a)) = a
  BY <1>2, FiveTexts
<1> HIDE DEF c
<1>6. Text(c) /\ Size(c) = SNAPSHOT_LEN /\ Slice(c, 0, 4) = a
  BY <1>2, <1>4, <1>5 DEF SNAPSHOT_LEN
<1>7. Decoded(c).ts = Num(Slice(c, 0, 4))
  BY DEF Decoded
<1> QED
  BY <1>3, <1>6, <1>7 DEF c

LEMMA StatementTexts ==
  ASSUME table \in Table, NEW first \in Turnouts, NEW ts
  PROVE  \E n : StatementList(n, Statements(first, ts), ts)
<1> DEFINE n == Len(table) - first + 1
           s == Statements(first, ts)
           price(row) == PriceOf[row.source]
<1>1. Len(table) \in Nat /\ Len(table) >= 7
  BY Tables DEF IsList, QUORUM
<1>2. n \in Nat
  <2>1. first = 1 \/ first = Len(table) - 7 + 1
    BY DEF Turnouts, QUORUM
  <2> QED
    BY <1>1, <2>1
<1> HIDE DEF n
<1>3. s = [i \in 1..n |-> LET row == table[first + i - 1]
                          IN [source |-> row.source, ts |-> ts, price |-> price(row),
                              sig |-> Signature(row.key, message(row.source, ts, price(row)))]]
  BY DEF Statements, n
<1>4. \A key, msg : Text(Signature(key, msg))
  <2>1. \A kind, content : Text(Piece(64, kind, content))
    BY TextPiece
  <2> QED
    BY <2>1 DEF Signature
<1> HIDE DEF s
<1>5. \A i \in 1..n : s[i].ts = ts /\ \E key, msg : s[i].sig = Signature(key, msg)
  BY <1>3
<1>6. s = [i \in 1..n |-> s[i]]
  BY <1>3
<1>7. StatementList(n, s, ts)
  BY <1>2, <1>4, <1>5, <1>6 DEF StatementList
<1> QED
  BY <1>7 DEF s

LEMMA UpdateOutputsAre ==
  ASSUME NEW hash, IsHash(hash), NEW head, NEW name, head.category = Display(name),
         head.commit.table_hash = hash, NEW snapshot, snapshot.ts \in Int
  PROVE  LET os == UpdateOutputs(head, snapshot)
         IN /\ FewOutputs(3, os) /\ Kinds(os, hash)
            /\ TICKER_SATS * TICKERS_PER_UPDATE = Sum(os) - os[1].value
<1> DEFINE state == SnapshotBytes(snapshot)
           commit == state \o hash
           h == Paid(0, oracle_lock, Token(Display(name), MINTING, commit))
           t == Paid(TICKER_SATS, ticker_lock, Token(Display(name), NO_CAPABILITY, state))
           os == UpdateOutputs(head, snapshot)
<1>1. CommitBytes([snapshot |-> snapshot, table_hash |-> hash]) = commit
  BY DEF CommitBytes
<1>2. os = <<h>> \o [i \in 1..2 |-> t]
  BY <1>1 DEF UpdateOutputs, TICKERS_PER_UPDATE
<1>3. Text(state) /\ Size(state) = SNAPSHOT_LEN /\ Decoded(state).ts \in Int
  BY SnapshotText
<1>4. commit = state \o hash
  OBVIOUS
<1> HIDE DEF state, commit
<1>5. HasNFT(h, oracle_lock, MINTING) /\ h.token[1].commitment = commit /\ h.value = 0
  BY ONLY PaidNFT
<1>6. HasNFT(t, ticker_lock, NO_CAPABILITY) /\ t.token[1].commitment = state /\ t.value = TICKER_SATS
  BY ONLY PaidNFT
<1> HIDE DEF h, t, os
<1>7. [i \in 1..2 |-> t] = <<t, t>>
  OBVIOUS
<1>8. os \in Seq({h, t}) /\ Len(os) = 3 /\ os[1] = h /\ os[2] = t /\ os[3] = t
  <2> DEFINE a == <<h>>
             b == <<t, t>>
  <2>1. os = a \o b
    BY ONLY <1>2, <1>7
  <2>2. a \in Seq({h, t}) /\ Len(a) = 1 /\ a[1] = h /\ b \in Seq({h, t}) /\ Len(b) = 2 /\ b[1] = t /\ b[2] = t
    OBVIOUS
  <2> HIDE DEF a, b
  <2> DEFINE S == {h, t}
  <2>3. a \in Seq(S) /\ b \in Seq(S)
    BY <2>2
  <2> HIDE DEF S
  <2>4. /\ os \in Seq(S) /\ Len(os) = Len(a) + Len(b)
        /\ \A i \in 1..Len(a) : os[i] = a[i]
        /\ \A i \in 1..Len(b) : os[Len(a) + i] = b[i]
    BY ONLY <2>1, <2>3
  <2>5. 1 \in 1..Len(a) /\ 1 \in 1..Len(b) /\ 2 \in 1..Len(b)
    BY <2>2
  <2>6. os[1] = a[1] /\ os[Len(a) + 1] = b[1] /\ os[Len(a) + 2] = b[2] /\ Len(os) = 3
    BY <2>2, <2>4, <2>5
  <2>7. Len(a) + 1 = 2 /\ Len(a) + 2 = 3
    BY <2>2
  <2> QED
    BY <2>2, <2>4, <2>6, <2>7 DEF S
<1>9. Kind(h, hash) /\ Kind(t, hash)
  <2>1. AsHead(h, hash)
    BY <1>3, <1>4, <1>5 DEF AsHead
  <2>2. AsTicker(t)
    BY <1>3, <1>6 DEF AsTicker
  <2> QED
    BY <2>1, <2>2 DEF Kind
<1>10. ~Mints(t)
  <2>1. \A capability : HasNFT(t, ticker_lock, capability) => (Mints(t) <=> capability = MINTING)
    BY ONLY NFTFacts
  <2>2. NO_CAPABILITY # MINTING
    BY DEF MINTING, NO_CAPABILITY
  <2> QED
    BY ONLY <1>6, <2>1, <2>2
<1>11. /\ DOMAIN os = 1..3 /\ Len(os) = 3 /\ os = [i \in 1..3 |-> os[i]]
       /\ os[1] = h /\ os[2] = t /\ os[3] = t
  BY ONLY <1>8
<1>12. \A i \in 1..3 : i = 1 \/ i = 2 \/ i = 3
  OBVIOUS
<1>13. Kinds(os, hash)
  BY <1>9, <1>10, <1>11, <1>12 DEF Kinds
<1>14. IsOutput(h) /\ IsOutput(t)
  BY <1>5, <1>6, <1>9, KindOutput DEF IsHash, TICKER_SATS
<1>15. FewOutputs(3, os)
  BY <1>11, <1>12, <1>14 DEF FewOutputs
<1>16. Sum(os) = os[1].value + os[2].value + os[3].value
  <2>1. \A i \in 1..3 : os[i].value \in Int
    BY <1>5, <1>6, <1>11, <1>12 DEF TICKER_SATS
  <2>2. 3 \in {1, 2, 3} /\ 3 > 1 /\ 3 > 2
    OBVIOUS
  <2>3. Sum(os) = os[1].value + (IF 3 > 1 THEN os[2].value ELSE 0) + (IF 3 > 2 THEN os[3].value ELSE 0)
    BY ONLY <1>11, <2>1, <2>2, SumOfFew
  <2> QED
    BY <2>2, <2>3
<1>17. TICKER_SATS * TICKERS_PER_UPDATE = Sum(os) - os[1].value
  BY <1>5, <1>6, <1>11, <1>16 DEF TICKER_SATS, TICKERS_PER_UPDATE
<1> QED
  BY <1>13, <1>15, <1>17 DEF os

LEMMA TopUpCoins ==
  ASSUME NEW topups \in TopUps
  PROVE  IsList(topups) /\ \A i \in 1..Len(topups) : topups[i] \in find_coins
<1>1. topups = <<>> \/ \E c \in find_coins : topups = <<c>>
  BY DEF TopUps
<1>2. CASE topups = <<>>
  BY <1>2 DEF IsList
<1>3. CASE \E c \in find_coins : topups = <<c>>
  <2>1. PICK c \in find_coins : topups = <<c>>
    BY <1>3
  <2>2. Len(topups) = 1 /\ topups = [i \in 1..1 |-> topups[i]] /\ topups[1] = c
    BY <2>1
  <2> QED
    BY <2>2 DEF IsList
<1> QED
  BY <1>1, <1>2, <1>3

TickerInputs(s, category) == [i \in DOMAIN s |-> TickerInput(s[i], category)]

LEMMA TickersPlanned ==
  ASSUME NEW U, NEW hash, Chain(U, hash), NEW m, NEW s, Recycled(s, U, m), NEW category
  PROVE  LET ins == TickerInputs(s, category)
         IN /\ PlanFrom(ins, U) /\ Len(ins) = Len(s)
            /\ \A i \in 1..Len(s) : ins[i].prev = s[i].outpoint
<1> DEFINE n == Len(s)
           ins == TickerInputs(s, category)
<1>1. n \in Nat /\ s = [i \in 1..n |-> s[i]]
  BY DEF Recycled, IsList
<1>2. DOMAIN s = 1..n
  BY <1>1
<1>3. \A i \in 1..n : \E u \in DueBy(U, m) : s[i] = Recyclable(u)
  BY DEF Recycled
<1> HIDE DEF n
<1>4. ins = [i \in 1..n |-> ins[i]] /\ \A i \in 1..n : ins[i] = TickerInput(s[i], category)
  BY <1>2 DEF TickerInputs
<1> HIDE DEF ins
<1>5. ASSUME NEW i \in 1..n PROVE IsSource(ins[i]) /\ Backed(ins[i], U) /\ ins[i].prev = s[i].outpoint
  <2>1. PICK u \in DueBy(U, m) : s[i] = Recyclable(u)
    BY <1>3
  <2>2. u \in U /\ IsOutpoint(u.outpoint) /\ u.out.value \in Int
    BY DEF DueBy, TickersOf, Chain
  <2> DEFINE t == s[i]
  <2>3. t.outpoint = u.outpoint /\ t.value = u.out.value
    BY <2>1, RecyclableFields
  <2>4. ins[i] = TickerInput(t, category)
    BY <1>4
  <2> HIDE DEF t
  <2>5. LET x == TickerInput(t, category)
        IN IsSource(x) /\ Backed(x, U) /\ x.prev = u.outpoint
    BY ONLY <2>2, <2>3, TickerSource
  <2> QED
    BY <2>3, <2>4, <2>5 DEF t
<1>6. PlanFrom(ins, U) /\ Len(ins) = n
  BY <1>1, <1>4, <1>5, ListPlan
<1> QED
  BY <1>5, <1>6 DEF n, ins

(* What an update spends, in this order. *)
Spends(xs, p, s, topups) ==
    /\ Len(xs) = 1 + Len(s) + Len(topups) /\ xs[1].prev = p
    /\ \A i \in 1..Len(s) : xs[1 + i].prev = s[i].outpoint
    /\ \A i \in 1..Len(topups) : xs[1 + Len(s) + i].prev = topups[i].outpoint

LEMMA UpdatePlanned ==
  ASSUME NEW hash, Chain(utxos, hash), NEW u \in utxos, NEW head,
         head.outpoint = u.outpoint, head.value = u.out.value, NEW unlock, Text(unlock),
         NEW m, NEW s, Recycled(s, utxos, m), NEW topups \in TopUps
  PROVE  LET ins == UpdateInputs(head, unlock, s, topups)
         IN PlanFrom(ins, utxos) /\ Spends(ins, head.outpoint, s, topups)
<1> DEFINE x == HeadInput(head, oracle_lock, unlock)
           a == <<x>>
           b == TickerInputs(s, head.category)
           c == [i \in DOMAIN topups |-> CoinInput(topups[i])]
           ins == UpdateInputs(head, unlock, s, topups)
<1>1. ins = (a \o b) \o c
  BY DEF UpdateInputs, TickerInputs
<1>2. IsSource(x) /\ Backed(x, utxos) /\ x.prev = u.outpoint
  <2>1. IsOutpoint(u.outpoint) /\ u.out.value \in Int
    BY DEF Chain
  <2> QED
    BY <2>1, HeadSource
<1> HIDE DEF x
<1>3. Len(a) = 1 /\ a[1] = x /\ a = [i \in 1..1 |-> a[i]] /\ \A i \in 1..1 : a[i] = x
  OBVIOUS
<1> HIDE DEF a
<1>4. PlanFrom(a, utxos)
  <2>1. \A i \in 1..1 : IsSource(a[i]) /\ Backed(a[i], utxos)
    BY <1>2, <1>3
  <2> QED
    BY <1>3, <2>1, ListPlan
<1>5. PlanFrom(b, utxos) /\ Len(b) = Len(s) /\ \A i \in 1..Len(s) : b[i].prev = s[i].outpoint
  BY TickersPlanned
<1> HIDE DEF b
<1>6. IsList(topups) /\ \A i \in 1..Len(topups) : topups[i] \in find_coins
  BY TopUpCoins
<1>7. PlanFrom(c, utxos) /\ Len(c) = Len(topups) /\ \A i \in 1..Len(topups) : c[i].prev = topups[i].outpoint
  <2>1. Len(topups) \in Nat /\ topups = [i \in 1..Len(topups) |-> topups[i]]
    BY <1>6 DEF IsList
  <2> QED
    BY ONLY <1>6, <2>1, Chain(utxos, hash), CoinsPlan
<1> HIDE DEF c
<1>8. /\ PlanFrom(a \o b, utxos) /\ Len(a \o b) = Len(a) + Len(b)
      /\ \A i \in 1..Len(a) : (a \o b)[i] = a[i]
      /\ \A i \in 1..Len(b) : (a \o b)[Len(a) + i] = b[i]
  BY <1>4, <1>5, PlanConcat
<1> DEFINE ab == a \o b
<1>9. /\ PlanFrom(ab, utxos) /\ Len(ab) = 1 + Len(s)
      /\ ab[1].prev = u.outpoint /\ \A i \in 1..Len(s) : ab[1 + i].prev = s[i].outpoint
  BY <1>2, <1>3, <1>5, <1>8
<1>10. ins = ab \o c
  BY <1>1
<1> HIDE DEF ab, ins
<1>11. /\ PlanFrom(ins, utxos) /\ Len(ins) = Len(ab) + Len(c)
       /\ \A i \in 1..Len(ab) : ins[i] = ab[i]
       /\ \A i \in 1..Len(c) : ins[Len(ab) + i] = c[i]
  BY <1>7, <1>9, <1>10, PlanConcat
<1>12. Len(s) \in Nat
  BY DEF Recycled, IsList
<1>13. 1 \in 1..Len(ab) /\ \A i \in 1..Len(s) : 1 + i \in 1..Len(ab)
  BY <1>9, <1>12
<1>14. ins[1].prev = head.outpoint /\ \A i \in 1..Len(s) : ins[1 + i].prev = s[i].outpoint
  BY <1>9, <1>11, <1>13
<1>15. \A i \in 1..Len(topups) : ins[1 + Len(s) + i].prev = topups[i].outpoint
  BY <1>7, <1>9, <1>11
<1>16. Len(ins) = 1 + Len(s) + Len(topups)
  BY <1>7, <1>9, <1>11
<1> QED
  BY <1>11, <1>14, <1>15, <1>16 DEF Spends, ins

(* What an update that spends these inputs recycles. *)
RecyclesFrom(xs, U, m) ==
    LET recycled == {u \in TickersOf(U) : \E x \in ToSet(xs) : u.outpoint = x.prev}
    IN /\ recycled \subseteq DueBy(U, m)
       /\ Cardinality(recycled) = Min({MAX_RECYCLE_PER_UPDATE, Cardinality(DueBy(U, m))})
       /\ \A t \in recycled, u \in DueBy(U, m) \ recycled : DueAt(t) <= DueAt(u)

LEMMA UpdateRecycles ==
  ASSUME NEW hash, Chain(utxos, hash), NEW head \in utxos, head.out.locking_script = oracle_lock,
         NEW m, NEW s, Recycled(s, utxos, m), NEW topups \in TopUps,
         NEW xs, IsList(xs), Spends(xs, head.outpoint, s, topups)
  PROVE  RecyclesFrom(xs, utxos, m)
<1> DEFINE due == DueBy(utxos, m)
           recycled == {u \in TickersOf(utxos) : \E x \in ToSet(xs) : u.outpoint = x.prev}
           n == Len(s)
           f == [i \in 1..n |-> CHOOSE u \in due : s[i] = Recyclable(u)]
<1>1. /\ n \in Nat /\ \A i \in 1..n : \E u \in due : s[i] = Recyclable(u)
      /\ n = Min({MAX_RECYCLE_PER_UPDATE, Cardinality(due)})
      /\ \A i \in 1..n, j \in 1..n : i # j => s[i] # s[j]
      /\ \A i \in 1..n, u \in due :
            (\A j \in 1..n : s[j] # Recyclable(u)) => s[i].recyclable_at <= DueAt(u)
  BY DEF Recycled, IsList
<1>2. /\ due \subseteq TickersOf(utxos) /\ TickersOf(utxos) \subseteq utxos
      /\ \A u \in TickersOf(utxos) : u.out.locking_script \in {ticker_lock, ticker26_lock}
      /\ \A u \in utxos, v \in utxos : u.outpoint = v.outpoint => u = v
  BY DEF DueBy, TickersOf, Chain, OneEach
<1>3. \A u : Recyclable(u).outpoint = u.outpoint /\ Recyclable(u).recyclable_at = DueAt(u)
  BY RecyclableFields
<1>4. /\ Len(xs) \in Nat /\ \A x \in ToSet(xs) : \E j \in 1..Len(xs) : x = xs[j]
      /\ \A j \in 1..Len(xs) : xs[j] \in ToSet(xs)
  <2>1. Len(xs) \in Nat /\ xs = [i \in 1..Len(xs) |-> xs[i]]
    BY DEF IsList
  <2> DEFINE k == Len(xs)
  <2>2. k \in Nat /\ xs = [i \in 1..k |-> xs[i]]
    BY <2>1
  <2> HIDE DEF k
  <2>3. /\ \A x \in ToSet(xs) : \E j \in 1..k : x = xs[j]
        /\ \A j \in 1..k : xs[j] \in ToSet(xs)
    BY <2>2, Listed
  <2> QED
    BY <2>2, <2>3 DEF k
<1>5. IsList(topups) /\ \A i \in 1..Len(topups) : topups[i] \in find_coins
  BY TopUpCoins
<1>6. /\ Len(xs) = 1 + n + Len(topups) /\ xs[1].prev = head.outpoint
      /\ \A i \in 1..n : xs[1 + i].prev = s[i].outpoint
      /\ \A i \in 1..Len(topups) : xs[1 + n + i].prev = topups[i].outpoint
  BY DEF Spends
<1>7. Len(topups) \in Nat
  BY <1>5 DEF IsList
<1>8. /\ OperatorLock \notin {ticker_lock, ticker26_lock} /\ oracle_lock \notin {ticker_lock, ticker26_lock}
  BY OperatorsLock, LocksDiffer
<1> HIDE DEF n, due
<1>9. f = [i \in 1..n |-> f[i]] /\ \A i \in 1..n : f[i] \in due /\ s[i] = Recyclable(f[i])
  BY <1>1
<1> HIDE DEF f
<1>10. \A u \in TickersOf(utxos) : u \in recycled <=> \E x \in ToSet(xs) : u.outpoint = x.prev
  OBVIOUS
<1>11. recycled \subseteq TickersOf(utxos)
  OBVIOUS
<1> HIDE DEF recycled
<1>12. ASSUME NEW i \in 1..n PROVE f[i] \in recycled
  <2>1. 1 + i \in 1..Len(xs)
    BY <1>1, <1>6, <1>7
  <2>2. f[i].outpoint = xs[1 + i].prev
    BY <1>3, <1>6, <1>9
  <2> QED
    BY <1>2, <1>4, <1>9, <1>10, <2>1, <2>2
<1>13. ASSUME NEW u \in recycled PROVE \E i \in 1..n : f[i] = u
  <2>1. u \in TickersOf(utxos) /\ u \in utxos
    BY <1>2, <1>11
  <2>2. PICK j \in 1..Len(xs) : u.outpoint = xs[j].prev
    BY <1>4, <1>10, <2>1
  <2>3. CASE j = 1
    <3>1. u = head
      BY <1>2, <1>6, <2>1, <2>2, <2>3
    <3> QED
      BY <1>2, <1>8, <2>1, <3>1
  <2>4. CASE j > 1 /\ j <= 1 + n
    <3> DEFINE i == j - 1
    <3>1. i \in 1..n /\ 1 + i = j
      BY <1>1, <2>4
    <3> HIDE DEF i
    <3>2. u.outpoint = f[i].outpoint /\ f[i] \in utxos
      BY <1>2, <1>3, <1>6, <1>9, <2>2, <3>1
    <3> QED
      BY <1>2, <2>1, <3>1, <3>2
  <2>5. CASE j > 1 + n
    <3> DEFINE i == j - 1 - n
    <3>1. i \in 1..Len(topups) /\ 1 + n + i = j
      <4> DEFINE l == Len(xs)
                 k == Len(topups)
      <4>1. n \in Nat /\ k \in Nat /\ l = 1 + n + k /\ j \in 1..l
        BY <1>1, <1>6, <1>7
      <4> HIDE DEF l, k
      <4>2. j - 1 - n \in 1..k /\ 1 + n + (j - 1 - n) = j
        BY ONLY <4>1, <2>5
      <4> QED
        BY <4>2 DEF k
    <3> HIDE DEF i
    <3>2. u.outpoint = topups[i].outpoint /\ topups[i] \in find_coins
      BY <1>5, <1>6, <2>2, <3>1
    <3>3. PICK v \in utxos : v.out.locking_script = OperatorLock /\ topups[i] = Coin(v)
      BY <3>2 DEF find_coins
    <3>4. topups[i].outpoint = v.outpoint
      BY <3>3 DEF Coin
    <3>5. u = v
      BY <1>2, <2>1, <3>2, <3>4
    <3> QED
      BY <1>2, <1>8, <2>1, <3>3, <3>5
  <2> QED
    <3>1. j = 1 \/ (j > 1 /\ j <= 1 + n) \/ j > 1 + n
      BY <1>1, <1>4
    <3> QED
      BY <2>3, <2>4, <2>5, <3>1
<1>14. ASSUME NEW i \in 1..n, NEW j \in 1..n, f[i] = f[j] PROVE i = j
  <2>1. s[i] = Recyclable(f[i]) /\ s[j] = Recyclable(f[j])
    BY <1>9
  <2>2. s[i] = s[j]
    BY <1>14, <2>1
  <2> QED
    BY <1>1, <2>2
<1>15. Matches(1..n, recycled, f)
  BY <1>9, <1>12, <1>13, <1>14 DEF Matches
<1>16. Cardinality(recycled) = n
  <2>1. IsFiniteSet(1..n) /\ Cardinality(1..n) = n
    BY <1>1, FS_Interval
  <2> QED
    BY <1>15, <2>1, SameCount
<1>17. recycled \subseteq due
  BY <1>9, <1>13
<1>18. ASSUME NEW t \in recycled, NEW u \in due \ recycled PROVE DueAt(t) <= DueAt(u)
  <2>1. PICK i \in 1..n : f[i] = t
    BY <1>13
  <2>2. s[i].recyclable_at = DueAt(t)
    BY <1>3, <1>9, <2>1
  <2>3. ASSUME NEW j \in 1..n, s[j] = Recyclable(u) PROVE FALSE
    <3>1. u.outpoint = f[j].outpoint
      BY <1>3, <1>9, <2>3
    <3>2. u = f[j]
      BY <1>2, <1>9, <3>1
    <3> QED
      BY <1>12, <3>2
  <2> QED
    BY <1>1, <2>2, <2>3
<1> QED
  BY <1>1, <1>16, <1>17, <1>18 DEF RecyclesFrom, recycled, due

LEMMA MomentsInt ==
  ASSUME moment \in 1..Len(Moments)
  PROVE  mtp \in Int /\ Minute \in Int
<1>1. now \in Int /\ mtp \in Int
  BY SpendingAssumption DEF now, mtp
<1> HIDE DEF now
<1>2. now % 60 \in Int
  BY <1>1
<1> QED
  BY <1>1, <1>2 DEF Minute

(* An update, when it is built. *)
LEMMA UpdateBuilt ==
  ASSUME table \in Table, Chain(utxos, table_hash(table)), moment \in 1..Len(Moments),
         NEW head \in find_head, NEW first \in Turnouts, NEW topups \in TopUps,
         NEW r, r = build_update(head, table, Statements(first, Minute),
                                 find_recyclable_tickers(utxos, mtp, MAX_RECYCLE_PER_UPDATE), topups),
         r # Refused
  PROVE  JobSound(r[1], utxos, table_hash(table)) /\ RecyclesFrom(r[1].tx.inputs, utxos, mtp)
<1> DEFINE hash == table_hash(table)
           s == find_recyclable_tickers(utxos, mtp, MAX_RECYCLE_PER_UPDATE)
           given == Statements(first, Minute)
           placed == select_statements(head, table, given)
           snapshot == NextSnapshot(head, placed)
           unlock == UpdateUnlock(table, placed, snapshot)
           ins == UpdateInputs(head, unlock, s, topups)
           os == UpdateOutputs(head, snapshot)
           locktime == update_locktime(snapshot.ts, s)
           others == TICKER_SATS * TICKERS_PER_UPDATE
<1>1. IsHash(hash) /\ Chain(utxos, hash)
  BY TableHash
<1>2. mtp \in Int /\ Minute \in Int
  BY MomentsInt
<1>3. IsList(table)
  BY Tables
<1>4. r = UpdateWith(head, table, placed, s, topups)
  BY DEF build_update
<1>5. \E n : StatementList(n, given, Minute)
  BY StatementTexts
<1>6. Recycled(s, utxos, mtp)
  <2> DEFINE t == s
  <2>1. t = find_recyclable_tickers(utxos, mtp, MAX_RECYCLE_PER_UPDATE)
    OBVIOUS
  <2> HIDE DEF t
  <2>2. Recycled(t, utxos, mtp)
    BY ONLY <1>1, <1>2, <2>1, OldestFirst
  <2> QED
    BY <2>2 DEF t
<1> HIDE DEF hash, s, given
<1>7. placed # Refused /\ r = UpdateFor(head, table, placed, snapshot, s, topups)
  <2> HIDE DEF placed, snapshot
  <2>1. r = IF placed = Refused THEN Refused
            ELSE UpdateFor(head, table, placed, NextSnapshot(head, placed), s, topups)
    BY <1>4 DEF UpdateWith
  <2> QED
    BY <2>1 DEF snapshot
<1>8. PlacedStatements(placed, Minute)
  <2> DEFINE p == placed
  <2>1. p = select_statements(head, table, given) /\ p # Refused
    BY <1>7
  <2> HIDE DEF p
  <2>2. PlacedStatements(p, Minute)
    BY ONLY <1>3, <1>5, <2>1, StatementsPlaced
  <2> QED
    BY <2>2 DEF p
<1> HIDE DEF placed
<1>9. /\ IsList(placed) /\ Len(placed) \in Nat /\ Len(placed) # 0
      /\ \A i \in 1..Len(placed) : placed[i].statement.ts = Minute /\ Text(placed[i].statement.sig)
  BY <1>8 DEF PlacedStatements, IsList
<1>10. snapshot.ts \in Int
  <2>1. 1 \in 1..Len(placed)
    BY <1>9
  <2>2. placed[1].statement.ts = Minute
    BY <1>9, <2>1
  <2> QED
    BY <1>2, <2>2 DEF NextSnapshot
<1> HIDE DEF snapshot
<1>11. Text(unlock)
  BY <1>3, <1>9, UpdateUnlockText
<1>12. r = SpendHead(ins, Draft(ins, os, locktime), others, 0)
  BY <1>7 DEF UpdateFor
<1> HIDE DEF unlock
<1>13. PICK u \in utxos : /\ AsHead(u.out, hash) /\ Mints(u.out)
                          /\ \E state : FoundAs(head, u, state, hash, SNAPSHOT_LEN)
  BY <1>1, HeadFound
<1>14. /\ head.outpoint = u.outpoint /\ head.value = u.out.value
       /\ head.category = Display(NameOf(u.out.token[1].category))
       /\ head.commit.table_hash = hash
  BY <1>13 DEF FoundAs
<1>15. PlanFrom(ins, utxos) /\ Spends(ins, head.outpoint, s, topups)
  BY <1>1, <1>6, <1>11, <1>14, UpdatePlanned
<1>16. FewOutputs(3, os) /\ Kinds(os, hash) /\ others = Sum(os) - os[1].value
  <2> DEFINE name == NameOf(u.out.token[1].category)
  <2>1. head.category = Display(name)
    BY <1>14
  <2> HIDE DEF name, os, others
  <2> QED
    BY <1>1, <1>10, <1>14, <2>1, UpdateOutputsAre DEF os, others
<1>17. locktime \in Int
  <2>1. \A i \in 1..Len(s) : s[i].recyclable_at \in Int
    <3>1. \A i \in 1..Len(s) : \E v \in DueBy(utxos, mtp) : s[i] = Recyclable(v)
      BY <1>6 DEF Recycled
    <3>2. \A v \in DueBy(utxos, mtp) : DueAt(v) \in Int
      BY <1>1, TickerRead DEF DueBy
    <3>3. \A v : Recyclable(v).recyclable_at = DueAt(v)
      BY RecyclableFields
    <3> QED
      BY <3>1, <3>2, <3>3
  <2>2. IsList(s)
    BY <1>6 DEF Recycled
  <2> QED
    BY <1>10, <2>1, <2>2, LocktimeInt
<1> HIDE DEF ins, os, locktime, others
<1>18. OneEach(utxos)
  BY <1>1 DEF Chain
<1>19. SpendsHead(r, utxos, ins, 3, os, locktime, others, 0)
  BY <1>12, <1>15, <1>16, <1>17, <1>18, r # Refused DEF SpendsHead
<1> DEFINE xs == r[1].tx.inputs
<1>20. /\ SoundFor(r[1], utxos) /\ Kinds(r[1].tx.outputs, hash)
       /\ Len(xs) = Len(ins) /\ \A j \in 1..Len(ins) : xs[j].prev = ins[j].prev
  BY ONLY <1>16, <1>19, HeadSpent
<1>21. IsList(xs)
  BY <1>20 DEF SoundFor, IsTx, IsList
<1>22. Len(s) \in Nat /\ Len(topups) \in Nat
  BY <1>6, TopUpCoins DEF Recycled, IsList
<1> HIDE DEF xs
<1>23. Spends(xs, u.outpoint, s, topups)
  <2>1. /\ Len(ins) = 1 + Len(s) + Len(topups) /\ ins[1].prev = head.outpoint
        /\ \A i \in 1..Len(s) : ins[1 + i].prev = s[i].outpoint
        /\ \A i \in 1..Len(topups) : ins[1 + Len(s) + i].prev = topups[i].outpoint
    BY <1>15 DEF Spends
  <2>2. /\ 1 \in 1..Len(ins) /\ \A i \in 1..Len(s) : 1 + i \in 1..Len(ins)
        /\ \A i \in 1..Len(topups) : 1 + Len(s) + i \in 1..Len(ins)
    BY <1>22, <2>1
  <2> QED
    BY <1>14, <1>20, <2>1, <2>2 DEF Spends
<1>24. RecyclesFrom(xs, utxos, mtp)
  <2>1. u.out.locking_script = oracle_lock
    BY <1>13, NFTFacts DEF AsHead
  <2> QED
    BY <1>1, <1>6, <1>21, <1>23, <2>1, UpdateRecycles
<1>25. ASSUME NEW v \in utxos, Mints(v.out)
       PROVE  \E i \in 1..Len(xs) : xs[i].prev = v.outpoint
  <2>1. v = u
    BY <1>1, <1>13, <1>25 DEF Chain
  <2>2. 1 \in 1..Len(xs) /\ xs[1].prev = u.outpoint
    BY <1>22, <1>23 DEF Spends
  <2> QED
    BY <2>1, <2>2
<1>26. JobSound(r[1], utxos, hash)
  BY <1>20, <1>25 DEF JobSound, xs
<1> QED
  BY <1>24, <1>26 DEF hash, xs

-----------------------------------------------------------------------------
(* Genesis, and the coin for it. *)

LEMMA GenesisBuilt ==
  ASSUME Chain(utxos, table_hash(table)), moment \in 1..Len(Moments),
         \A u \in utxos : ~Mints(u.out), NEW c \in find_coins,
         NEW r, r = build_genesis(c, table_hash(table), ReserveSats, Minute - 60), r # Refused
  PROVE  JobSound(r[1], utxos, table_hash(table))
<1> DEFINE hash == table_hash(table)
           snapshot == [ts |-> Minute - 60, seq |-> 0, price |-> 0, k |-> 0]
           x == CoinInput(c)
           ins == <<x>>
           os == GenesisOutputs(c, hash, ReserveSats, snapshot)
           d == Draft(ins, os, 0)
           fee == fee_of(d)
           left == c.value - ReserveSats - fee
           name == NameOf(c.outpoint.txid)
           state == SnapshotBytes(snapshot)
           commit == state \o hash
           h == Paid(ReserveSats, oracle_lock, Token(Display(name), MINTING, commit))
           o == Paid(0, OperatorLock, <<>>)
<1>1. IsHash(hash) /\ Chain(utxos, hash)
  BY TableHash
<1>2. Minute \in Int /\ ReserveSats \in Int
  BY MomentsInt, SpendingAssumption
<1>3. snapshot.ts = Minute - 60
  OBVIOUS
<1>4. /\ c.value \in Int /\ IsOutpoint(c.outpoint) /\ p2pkh_locking_script(pkh(c)) = OperatorLock
      /\ IsSource(x) /\ Backed(x, utxos) /\ x.spends.value = c.value
  BY <1>1, CoinFound
<1> HIDE DEF hash, snapshot, x
<1>5. r = Finish(d, ins, 2, left, fee)
  <2>1. r = Funded(d, c, ReserveSats)
    BY DEF build_genesis, snapshot, x, hash
  <2> HIDE DEF d, ins
  <2>2. r = IF c.outpoint.vout # 0 \/ c.value < ReserveSats + fee + P2PKH_DUST THEN Refused
            ELSE Finish(d, <<CoinInput(c)>>, 2, left, fee)
    BY <2>1 DEF Funded
  <2> QED
    BY <2>2 DEF ins, x
<1>6. Text(state) /\ Size(state) = SNAPSHOT_LEN
  BY <1>2, <1>3, SnapshotText
<1>7. c.outpoint.txid = Display(name)
  <2>1. c.outpoint = [txid |-> Display(name), vout |-> c.outpoint.vout]
    BY <1>4 DEF IsOutpoint
  <2> HIDE DEF name
  <2> QED
    BY <2>1
<1>8. os = <<h, o>>
  <2>1. CommitBytes([snapshot |-> snapshot, table_hash |-> hash]) = commit
    BY DEF CommitBytes
  <2> HIDE DEF commit, name
  <2> QED
    BY <1>4, <1>7, <2>1 DEF GenesisOutputs
<1>9. commit = state \o hash
  OBVIOUS
<1> HIDE DEF state, commit, name
<1>10. HasNFT(h, oracle_lock, MINTING) /\ h.token[1].commitment = commit /\ h.value = ReserveSats
  BY ONLY PaidNFT
<1>11. IsCoin(o) /\ o.value = 0
  BY DEF IsCoin, Paid
<1> HIDE DEF h, o
<1>12. Kind(h, hash) /\ Kind(o, hash)
  <2>1. AsHead(h, hash)
    BY <1>6, <1>9, <1>10 DEF AsHead
  <2> QED
    BY <1>11, <2>1 DEF Kind
<1>13. ~Mints(o) /\ IsOutput(o) /\ IsOutput(h)
  BY <1>1, <1>2, <1>10, <1>11, <1>12, CoinFacts, KindOutput DEF IsHash
<1>14. /\ Len(os) = 2 /\ DOMAIN os = 1..2 /\ os = [i \in 1..2 |-> os[i]] /\ os[1] = h /\ os[2] = o
       /\ \A i \in 1..2 : i = 1 \/ i = 2
  BY <1>8
<1> HIDE DEF os
<1>15. Kinds(os, hash) /\ \A i \in 1..2 : IsOutput(os[i])
  BY <1>12, <1>13, <1>14 DEF Kinds
<1>16. Len(ins) = 1 /\ ins = [i \in 1..1 |-> ins[i]] /\ DOMAIN ins = 1..1 /\ \A i \in 1..1 : ins[i] = x
  OBVIOUS
<1> HIDE DEF ins
<1>17. PlanFrom(ins, utxos)
  <2>1. \A i \in 1..1 : IsSource(ins[i]) /\ Backed(ins[i], utxos)
    BY <1>4, <1>16
  <2> QED
    BY <1>16, <2>1, ListPlan
<1>18. Total(ins) = c.value
  <2> DEFINE ps == <<x.spends>>
  <2>1. DOMAIN ps = 1..1 /\ ps[1] = x.spends /\ \A i \in 1..1 : ps[i] = x.spends
    OBVIOUS
  <2> HIDE DEF ps
  <2>2. Sum(ps) = Total(ins)
    BY <1>16, <2>1, SumIsTotal
  <2>3. 1 \in {1, 2, 3} /\ ~(1 > 1) /\ ~(1 > 2)
    OBVIOUS
  <2>4. \A i \in 1..1 : ps[i].value \in Int
    BY <1>4, <2>1
  <2>5. Sum(ps) = ps[1].value + (IF 1 > 1 THEN ps[2].value ELSE 0) + (IF 1 > 2 THEN ps[3].value ELSE 0)
    BY ONLY <2>1, <2>3, <2>4, SumOfFew
  <2> QED
    BY <1>4, <2>1, <2>2, <2>3, <2>5
<1>19. Sum(os) = ReserveSats
  <2>1. 2 \in {1, 2, 3} /\ 2 > 1 /\ ~(2 > 2)
    OBVIOUS
  <2>2. \A i \in 1..2 : os[i].value \in Int
    BY <1>2, <1>10, <1>11, <1>14
  <2>3. Sum(os) = os[1].value + (IF 2 > 1 THEN os[2].value ELSE 0) + (IF 2 > 2 THEN os[3].value ELSE 0)
    BY ONLY <1>14, <2>1, <2>2, SumOfFew
  <2> QED
    BY <1>2, <1>10, <1>11, <1>14, <2>1, <2>3
<1>20. IsDraft(d, ins) /\ d.outputs = os
  <2>1. 0 \in Int /\ 2 \in Nat /\ IsPlan(ins) /\ d = Draft(ins, os, 0)
    BY <1>17 DEF PlanFrom
  <2>2. os = [i \in 1..2 |-> os[i]] /\ \A i \in 1..2 : IsOutput(os[i])
    BY <1>14, <1>15
  <2> HIDE DEF d
  <2> QED
    BY ONLY <2>1, <2>2, DraftPlanned
<1> HIDE DEF d
<1>21. fee \in Int
  <2>1. Size(encode_tx(d)) \in Nat
    <3>1. IsTx(d)
      BY <1>20 DEF IsDraft
    <3>2. Len(d.inputs) = Len(d.inputs)
      OBVIOUS
    <3> QED
      BY <3>1, EncodedSize
  <2> QED
    BY <2>1 DEF fee_of
<1> HIDE DEF fee
<1>22. left = Total(ins) - fee_of(d) - (Sum(d.outputs) - d.outputs[2].value)
  BY <1>2, <1>4, <1>11, <1>14, <1>18, <1>19, <1>20, <1>21 DEF fee
<1>23. /\ Len(d.outputs) \in {1, 2, 3} /\ 2 \in 1..Len(d.outputs) /\ OneEach(utxos)
  BY <1>1, <1>14, <1>20 DEF Chain
<1> HIDE DEF left
<1>24. SoundFor(r[1], utxos) /\ IsFinished(r[1], d, ins, 2, left)
  <2>1. LET f == Finish(d, ins, 2, left, fee_of(d))
        IN f # Refused /\ SoundFor(f[1], utxos) /\ IsFinished(f[1], d, ins, 2, left)
    BY ONLY <1>17, <1>20, <1>22, <1>23, BuiltSound
  <2> QED
    BY <1>5, <2>1 DEF fee
<1>25. Kinds(r[1].tx.outputs, hash)
  BY <1>15, <1>20, <1>23, <1>24, FinishedKinds
<1>26. JobSound(r[1], utxos, hash)
  BY <1>24, <1>25 DEF JobSound
<1> QED
  BY <1>26 DEF hash

LEMMA CoinsFinite ==
  ASSUME NEW hash, Chain(utxos, hash)
  PROVE  IsFiniteSet(find_coins)
<1> DEFINE V == {v \in utxos : v.out.locking_script = OperatorLock /\ v.out.token = <<>>}
           f == [v \in V |-> Coin(v)]
<1>1. IsFiniteSet(V)
  <2>1. IsFiniteSet(utxos) /\ V \subseteq utxos
    BY DEF Chain
  <2> QED
    BY <2>1, FS_Subset
<1>2. find_coins = {Coin(u) : u \in V}
  BY DEF find_coins
<1> HIDE DEF V
<1>3. f \in Surjection(V, find_coins)
  BY <1>2 DEF Surjection
<1> QED
  BY <1>1, <1>3, FS_Surjection

LEMMA PickedCoins ==
  ASSUME NEW hash, Chain(utxos, hash), Picked # <<>>
  PROVE  IsList(Picked) /\ Len(Picked) # 0 /\ \A i \in 1..Len(Picked) : Picked[i] \in find_coins
<1> DEFINE rank == [c \in find_coins |-> -c.value]
           largest == InOrder(find_coins, rank)
           worth(n) == Total([i \in 1..n |-> CoinInput(largest[i])])
           enough == {n \in DOMAIN largest : worth(n) >= Need + 1000}
           N == Cardinality(find_coins)
<1>1. Picked = IF enough = {} THEN <<>> ELSE SubSeq(largest, 1, Min(enough))
  BY DEF Picked
<1>2. enough \subseteq DOMAIN largest
  OBVIOUS
<1> HIDE DEF enough
<1>3. enough # {} /\ Picked = SubSeq(largest, 1, Min(enough))
  BY <1>1
<1>4. IsFiniteSet(find_coins)
  BY CoinsFinite
<1>5. \A c \in find_coins : rank[c] \in Int
  BY CoinFound
<1> HIDE DEF rank
<1>6. Ordered(largest, find_coins, rank)
  BY <1>4, <1>5, OrderedSet
<1> HIDE DEF largest
<1>7. /\ N \in Nat /\ Len(largest) = N /\ largest = [i \in 1..N |-> largest[i]]
      /\ \A i \in 1..N : largest[i] \in find_coins
  BY <1>6 DEF Ordered
<1> HIDE DEF N
<1>8. Min(enough) \in 1..N
  <2>1. DOMAIN largest = 1..N /\ IsFiniteSet(1..N)
    BY <1>7, FS_Interval
  <2> DEFINE T == 1..N
  <2>4. enough \subseteq T /\ T \subseteq Int /\ IsFiniteSet(T)
    BY <1>2, <1>7, <2>1
  <2> HIDE DEF T
  <2>2. IsFiniteSet(enough) /\ enough \subseteq Int
    BY <2>4, FS_Subset
  <2>3. Min(enough) \in enough
    BY <1>3, <2>2, LeastIn
  <2> QED
    BY <1>2, <2>1, <2>3
<1> DEFINE k == Min(enough)
<1>9. k \in 0..Len(largest) /\ IsList(largest) /\ k \in 1..N
  BY <1>7, <1>8 DEF IsList
<1> HIDE DEF k
<1>10. LET s == SubSeq(largest, 1, k)
       IN IsList(s) /\ Len(s) = k /\ \A i \in 1..k : s[i] = largest[i]
  BY <1>9, FrontOf
<1>11. Picked = SubSeq(largest, 1, k)
  BY <1>3 DEF k
<1>12. \A i \in 1..k : largest[i] \in find_coins
  BY <1>7, <1>9
<1> QED
  BY <1>7, <1>9, <1>10, <1>11, <1>12

LEMMA MergeBuilt ==
  ASSUME NEW hash, Text(hash), Chain(utxos, hash), \A u \in utxos : ~Mints(u.out),
         NEW coins, IsList(coins), Len(coins) # 0, \A i \in 1..Len(coins) : coins[i] \in find_coins,
         NEW r, r = self_spend(coins)
  PROVE  JobSound(r[1], utxos, hash)
<1> DEFINE n == Len(coins)
           ins == [i \in DOMAIN coins |-> CoinInput(coins[i])]
           o == Paid(0, OperatorLock, <<>>)
           plain == Draft(ins, <<o>>, 0)
           final == [i \in DOMAIN ins |-> [plain.inputs[i] EXCEPT !.sequence = SEQUENCE_FINAL]]
           d == [plain EXCEPT !.inputs = final]
           left == Total(ins) - fee_of(d)
<1>1. n \in Nat /\ n # 0 /\ coins = [i \in 1..n |-> coins[i]]
  BY DEF IsList
<1>2. 1 \in 1..n /\ p2pkh_locking_script(pkh(coins[1])) = OperatorLock
  <2>1. 1 \in 1..n
    BY <1>1
  <2>2. coins[1] \in find_coins
    BY <2>1
  <2> QED
    BY <2>1, <2>2, CoinFound
<1>3. PlanFrom(ins, utxos) /\ Len(ins) = n
  <2> DEFINE m == n
  <2>1. m \in Nat /\ coins = [i \in 1..m |-> coins[i]] /\ \A i \in 1..m : coins[i] \in find_coins
    BY <1>1
  <2> HIDE DEF m
  <2>2. PlanFrom(ins, utxos) /\ Len(ins) = m
    BY ONLY <2>1, Chain(utxos, hash), CoinsPlan
  <2> QED
    BY <2>2 DEF m
<1>4. r = Finish(d, ins, 1, left, fee_of(d))
  BY <1>2 DEF self_spend, Merged
<1> HIDE DEF ins
<1>5. IsCoin(o) /\ o.value = 0
  BY DEF IsCoin, Paid
<1> HIDE DEF o
<1> DEFINE os == <<o>>
<1>6. /\ Kinds(os, hash) /\ os = [i \in 1..1 |-> os[i]]
      /\ \A i \in 1..1 : IsOutput(os[i])
      /\ Sum(os) - os[1].value = 0
  BY <1>5, OneOutput DEF Kind
<1>7. Len(os) = 1
  OBVIOUS
<1> HIDE DEF os
<1>8. IsDraft(plain, ins) /\ plain.outputs = os
  <2>1. 0 \in Int /\ 1 \in Nat /\ IsPlan(ins) /\ plain = Draft(ins, os, 0)
    BY <1>3 DEF PlanFrom, os
  <2> HIDE DEF plain
  <2> QED
    BY ONLY <1>6, <2>1, DraftPlanned
<1> HIDE DEF plain
<1>9. /\ plain = [version |-> plain.version, inputs |-> plain.inputs, outputs |-> plain.outputs,
                  locktime |-> plain.locktime]
      /\ plain.version \in Int /\ plain.locktime \in Int
      /\ Len(plain.inputs) = n /\ \A i \in 1..n : IsInput(plain.inputs[i])
      /\ Len(plain.outputs) \in Nat /\ plain.outputs = [i \in 1..Len(plain.outputs) |-> plain.outputs[i]]
      /\ \A i \in 1..Len(plain.outputs) : IsOutput(plain.outputs[i])
      /\ \A i \in 1..n : plain.inputs[i].prev = ins[i].prev /\ plain.inputs[i].unlock_script = ins[i].unlock
  BY <1>3, <1>8 DEF IsDraft, IsTx
<1>10. DOMAIN ins = 1..n
  BY <1>1, <1>3 DEF PlanFrom, IsPlan
<1>11. ASSUME NEW i \in 1..n
       PROVE  /\ IsInput(final[i]) /\ final[i].prev = ins[i].prev
              /\ final[i].unlock_script = ins[i].unlock
  <2> DEFINE y == plain.inputs[i]
             z == [y EXCEPT !.sequence = SEQUENCE_FINAL]
  <2>1. /\ y = [prev |-> y.prev, unlock_script |-> y.unlock_script, sequence |-> y.sequence]
        /\ IsOutpoint(y.prev) /\ Text(y.unlock_script)
        /\ y.prev = ins[i].prev /\ y.unlock_script = ins[i].unlock
    BY <1>9 DEF IsInput
  <2>2. final[i] = z
    BY <1>10
  <2> HIDE DEF y
  <2>3. z = [prev |-> y.prev, unlock_script |-> y.unlock_script, sequence |-> SEQUENCE_FINAL]
    BY ONLY <2>1
  <2>4. z.prev = y.prev /\ z.unlock_script = y.unlock_script /\ z.sequence = SEQUENCE_FINAL
    BY <2>3
  <2>5. z = [prev |-> z.prev, unlock_script |-> z.unlock_script, sequence |-> z.sequence]
    BY <2>3, <2>4
  <2> HIDE DEF z
  <2>6. IsInput(z)
    BY <2>1, <2>4, <2>5 DEF IsInput, SEQUENCE_FINAL
  <2> QED
    BY <2>1, <2>2, <2>4, <2>6
<1>12. final = [i \in 1..n |-> final[i]] /\ Len(final) = n
  <2>1. final = [i \in 1..n |-> final[i]]
    BY <1>10
  <2> HIDE DEF final
  <2> QED
    BY <1>1, <2>1, FunctionIsSeq
<1> HIDE DEF final
<1>13. /\ d = [version |-> plain.version, inputs |-> final, outputs |-> plain.outputs,
               locktime |-> plain.locktime]
  BY ONLY <1>9
<1>14. /\ d.version = plain.version /\ d.inputs = final /\ d.outputs = plain.outputs
       /\ d.locktime = plain.locktime
  BY <1>13
<1>15. d = [version |-> d.version, inputs |-> d.inputs, outputs |-> d.outputs, locktime |-> d.locktime]
  BY <1>13, <1>14
<1> HIDE DEF d
<1>16. IsTx(d)
  <2>1. Len(d.inputs) = n /\ d.inputs = [i \in 1..n |-> d.inputs[i]] /\ \A i \in 1..n : IsInput(d.inputs[i])
    BY <1>11, <1>12, <1>14
  <2> QED
    BY <1>1, <1>9, <1>14, <1>15, <2>1 DEF IsTx
<1>17. IsDraft(d, ins)
  BY <1>3, <1>11, <1>12, <1>14, <1>16 DEF IsDraft
<1>18. d.outputs = os /\ Len(d.outputs) \in {1, 2, 3} /\ 1 \in 1..Len(d.outputs) /\ OneEach(utxos)
  <2>1. d.outputs = os
    BY <1>8, <1>14
  <2>2. Len(d.outputs) = 1
    BY <1>7, <2>1
  <2>3. OneEach(utxos)
    BY DEF Chain
  <2> QED
    BY ONLY <2>1, <2>2, <2>3
<1>19. left = Total(ins) - fee_of(d) - (Sum(d.outputs) - d.outputs[1].value)
  <2>1. Size(encode_tx(d)) \in Nat
    BY <1>16, EncodedSize
  <2>2. fee_of(d) \in Int
    BY <2>1 DEF fee_of
  <2>3. Total(ins) \in Int
    <3>1. \A i \in 1..n : ins[i].spends.value \in Int
      BY <1>3 DEF PlanFrom, IsPlan, IsSource
    <3> QED
      BY <1>1, <1>10, <3>1, TotalInt
  <2> QED
    BY <1>6, <1>18, <2>2, <2>3
<1> HIDE DEF left
<1>20. SoundFor(r[1], utxos) /\ IsFinished(r[1], d, ins, 1, left)
  <2>1. LET f == Finish(d, ins, 1, left, fee_of(d))
        IN f # Refused /\ SoundFor(f[1], utxos) /\ IsFinished(f[1], d, ins, 1, left)
    BY ONLY <1>3, <1>17, <1>18, <1>19, BuiltSound
  <2> QED
    BY <1>4, <2>1
<1>21. Kinds(r[1].tx.outputs, hash)
  BY <1>6, <1>18, <1>20, FinishedKinds
<1> QED
  BY <1>20, <1>21 DEF JobSound

-----------------------------------------------------------------------------
(* What a transaction leaves behind. *)

LEMMA NamedOutpoint ==
  ASSUME NEW name, NEW i \in Nat
  PROVE  LET p == [txid |-> Display(name), vout |-> i]
         IN IsOutpoint(p) /\ NameOf(p.txid) = name /\ p.vout = i
<1>1. NameOf(Display(name)) = name
  BY DEF NameOf, Display, Piece
<1> DEFINE p == [txid |-> Display(name), vout |-> i]
<1>2. p.txid = Display(name) /\ p.vout = i /\ p = [txid |-> p.txid, vout |-> p.vout]
  OBVIOUS
<1> HIDE DEF p
<1>3. NameOf(p.txid) = name
  BY <1>1, <1>2
<1> QED
  BY <1>2, <1>3 DEF IsOutpoint, p

(* The output that can mint is the first; whatever else is kept knows no table. *)
LEMMA StillKind ==
  ASSUME NEW o, NEW hash, NEW other, Kind(o, hash), ~Mints(o)
  PROVE  Kind(o, other)
<1>1. IsCoin(o) \/ AsTicker(o) \/ AsTicker26(o)
  BY KindByLock DEF Kind
<1> QED
  BY <1>1 DEF Kind

Leftover(U, tx) == {u \in U : \A x \in ToSet(tx.inputs) : u.outpoint # x.prev}
Fresh(n, os) == {[outpoint |-> [txid |-> Display(n), vout |-> i - 1], out |-> os[i]] : i \in DOMAIN os}

LEMMA ChainGoesOn ==
  ASSUME NEW U, NEW hash, Chain(U, hash), NEW n, \A u \in U : NameOf(u.outpoint.txid) # n,
         NEW b, NEW other, JobSound(b, U, other)
  PROVE  LET V == Leftover(U, b.tx) \cup Fresh(n, b.tx.outputs)
         IN Chain(V, other) /\ \A v \in V : v \in U \/ NameOf(v.outpoint.txid) = n
<1> DEFINE old == Leftover(U, b.tx)
           os == b.tx.outputs
           m == Len(os)
           at == [i \in 1..m |-> [outpoint |-> [txid |-> Display(n), vout |-> i - 1], out |-> os[i]]]
           new == Fresh(n, os)
<1>1. /\ IsFiniteSet(U) /\ OneEach(U)
      /\ \A u \in U : IsOutpoint(u.outpoint) /\ u.out.value \in Int /\ Kind(u.out, hash)
  BY DEF Chain
<1>2. IsTx(b.tx) /\ Kinds(os, other)
  BY DEF JobSound, SoundFor
<1>3. \A u \in U : Mints(u.out) => \E i \in 1..Len(b.tx.inputs) : b.tx.inputs[i].prev = u.outpoint
  BY DEF JobSound
<1>4. /\ m \in Nat /\ os = [i \in 1..m |-> os[i]] /\ \A i \in 1..m : IsOutput(os[i])
  BY <1>2 DEF IsTx
<1>5. DOMAIN os = 1..m
  BY <1>4
<1>6. \A i \in 1..Len(b.tx.inputs) : b.tx.inputs[i] \in ToSet(b.tx.inputs)
  <2> DEFINE xs == b.tx.inputs
             k == Len(xs)
  <2>1. k \in Nat /\ xs = [i \in 1..k |-> xs[i]]
    BY <1>2 DEF IsTx
  <2> HIDE DEF xs, k
  <2>2. \A i \in 1..k : xs[i] \in ToSet(xs)
    BY <2>1, Listed
  <2> QED
    BY <2>2 DEF xs, k
<1>7. old \subseteq U /\ \A u \in old : ~Mints(u.out)
  BY <1>3, <1>6 DEF Leftover
<1>8. \A i \in 1..m : /\ os[i].value \in Int /\ Kind(os[i], other) /\ (i > 1 => ~Mints(os[i]))
  BY <1>2, <1>4 DEF Kinds, IsOutput
<1>9. new = {[outpoint |-> [txid |-> Display(n), vout |-> i - 1], out |-> os[i]] : i \in 1..m}
  BY <1>5 DEF Fresh
<1> HIDE DEF old, os, m
<1>10. ASSUME NEW i \in 1..m
       PROVE  /\ at[i] \in new /\ at[i].out = os[i] /\ IsOutpoint(at[i].outpoint)
              /\ NameOf(at[i].outpoint.txid) = n /\ at[i].outpoint.vout = i - 1
  <2>1. i - 1 \in Nat
    BY <1>4
  <2> DEFINE p == [txid |-> Display(n), vout |-> i - 1]
  <2>2. IsOutpoint(p) /\ NameOf(p.txid) = n /\ p.vout = i - 1
    BY <2>1, NamedOutpoint
  <2>3. at[i] = [outpoint |-> p, out |-> os[i]] /\ at[i] \in new
    BY <1>9
  <2> HIDE DEF p, at
  <2> QED
    BY <2>2, <2>3
<1>11. \A v \in new : \E i \in 1..m : v = at[i]
  BY <1>9
<1> HIDE DEF new
<1>12. IsFiniteSet(new)
  <2>1. DOMAIN at = 1..m
    OBVIOUS
  <2>2. at = [i \in 1..m |-> at[i]]
    OBVIOUS
  <2> HIDE DEF at
  <2>3. at \in Surjection(1..m, new)
    BY <1>10, <1>11, <2>2 DEF Surjection
  <2>4. IsFiniteSet(1..m)
    BY <1>4, FS_Interval
  <2> QED
    BY <2>3, <2>4, FS_Surjection
<1> HIDE DEF at
<1> DEFINE V == old \cup new
<1>13. IsFiniteSet(V)
  <2>1. IsFiniteSet(old)
    BY <1>1, <1>7, FS_Subset
  <2> QED
    BY <1>12, <2>1, FS_Union
<1>14. ASSUME NEW u \in old, NEW v \in new PROVE u.outpoint # v.outpoint
  BY <1>7, <1>10, <1>11, u \in old, v \in new
<1>15. ASSUME NEW u \in new, NEW v \in new, u.outpoint = v.outpoint PROVE u = v
  <2>1. PICK i \in 1..m : u = at[i]
    BY <1>11
  <2>2. PICK j \in 1..m : v = at[j]
    BY <1>11
  <2>3. i - 1 = j - 1
    BY <1>10, <1>15, <2>1, <2>2
  <2>4. i = j
    BY <1>4, <2>3
  <2> QED
    BY <2>1, <2>2, <2>4
<1>16. OneEach(V)
  <2> SUFFICES ASSUME NEW u \in V, NEW v \in V, u.outpoint = v.outpoint PROVE u = v
    BY DEF OneEach
  <2>1. CASE u \in old /\ v \in old
    BY <1>1, <1>7, <2>1 DEF OneEach
  <2>2. CASE u \in new /\ v \in new
    BY <1>15, <2>2
  <2> QED
    BY <1>14, <2>1, <2>2
<1>17. ASSUME NEW u \in V PROVE IsOutpoint(u.outpoint) /\ u.out.value \in Int /\ Kind(u.out, other)
  <2>1. CASE u \in old
    BY <1>1, <1>7, <2>1, StillKind
  <2>2. CASE u \in new
    <3>1. PICK i \in 1..m : u = at[i]
      BY <1>11, <2>2
    <3> QED
      BY <1>8, <1>10, <3>1
  <2> QED
    BY <2>1, <2>2
<1>18. ASSUME NEW u \in V, Mints(u.out) PROVE 1 \in 1..m /\ u = at[1]
  <2>1. u \in new
    BY <1>7, <1>18
  <2>2. PICK i \in 1..m : u = at[i]
    BY <1>11, <2>1
  <2>3. ~(i > 1)
    BY <1>8, <1>10, <1>18, <2>2
  <2>4. i = 1
    BY <1>4, <2>3
  <2> QED
    BY <2>2, <2>4
<1>19. \A u, v \in V : Mints(u.out) /\ Mints(v.out) => u = v
  BY <1>18
<1>20. \A v \in V : v \in U \/ NameOf(v.outpoint.txid) = n
  BY <1>7, <1>10, <1>11
<1> HIDE DEF V
<1>21. Chain(V, other)
  BY <1>13, <1>16, <1>17, <1>19 DEF Chain
<1> QED
  BY <1>20, <1>21 DEF V, old, new, os

-----------------------------------------------------------------------------
(* What there is at first. *)

LEMMA Snapshot26Text ==
  ASSUME NEW s
  PROVE  Text(Snapshot26Bytes(s)) /\ Size(Snapshot26Bytes(s)) = Legacy_SNAPSHOT_LEN
<1> DEFINE a == LE(4, s.seq)
           b == LE(4, s.price.low)
           d == LE(4, s.price.high)
           e == LE(1, s.k)
           ab == a \o b
           abd == ab \o d
<1>1. \A n : Text(LE(4, n)) /\ Size(LE(4, n)) = 4 /\ Text(LE(1, n)) /\ Size(LE(1, n)) = 1
  BY LEFacts
<1>2. Text(a) /\ Text(b) /\ Text(d) /\ Text(e) /\ Size(a) = 4 /\ Size(b) = 4 /\ Size(d) = 4 /\ Size(e) = 1
  BY <1>1
<1>3. Snapshot26Bytes(s) = abd \o e
  BY DEF Snapshot26Bytes
<1> HIDE DEF a, b, d, e
<1>4. Text(ab) /\ Size(ab) = 8
  BY <1>2, TextConcat, EndsConcat
<1> HIDE DEF ab
<1>5. Text(abd) /\ Size(abd) = 12
  BY <1>2, <1>4, TextConcat, EndsConcat
<1> HIDE DEF abd
<1>6. Text(abd \o e) /\ Size(abd \o e) = 13
  BY <1>2, <1>5, TextConcat, EndsConcat
<1> QED
  BY <1>3, <1>6 DEF Legacy_SNAPSHOT_LEN

(* What is unspent at first is of a kind that the commands know, and only the v26 head can mint. *)
LEMMA FirstKinds ==
  ASSUME NEW o, NEW hash, IsCoin(o) \/ IsTicker(o) \/ IsTicker26(o) \/ IsHead26(o, hash)
  PROVE  Kind(o, hash) /\ (Mints(o) => IsHead26(o, hash))
<1> DEFINE c == o.token[1].commitment
<1>5. \A lock, capability : HasNFT(o, lock, capability) => (Mints(o) <=> capability = MINTING)
  BY ONLY NFTFacts
<1>1. CASE IsCoin(o)
  BY <1>1, CoinFacts DEF Kind
<1>2. CASE IsTicker(o)
  <2> DEFINE s == Decoded(c)
  <2>1. HasNFT(o, ticker_lock, NO_CAPABILITY) /\ c = SnapshotBytes(s) /\ s.ts \in Int
    BY <1>2 DEF IsTicker
  <2> HIDE DEF s
  <2>2. Text(c) /\ Size(c) = SNAPSHOT_LEN
    BY <2>1, SnapshotText
  <2>3. AsTicker(o)
    BY <2>1, <2>2 DEF AsTicker, s
  <2>4. ~Mints(o)
    BY <1>5, <2>1 DEF NO_CAPABILITY, MINTING
  <2> QED
    BY <2>3, <2>4 DEF Kind
<1>3. CASE IsTicker26(o)
  <2> DEFINE s == Decoded26(c)
  <2>1. HasNFT(o, ticker26_lock, NO_CAPABILITY) /\ c = Snapshot26Bytes(s) /\ s.seq \in Int
    BY <1>3 DEF IsTicker26
  <2> HIDE DEF s
  <2>2. Text(c) /\ Size(c) = Legacy_SNAPSHOT_LEN
    BY <2>1, Snapshot26Text
  <2>3. AsTicker26(o)
    BY <2>1, <2>2 DEF AsTicker26, s
  <2>4. ~Mints(o)
    BY <1>5, <2>1 DEF NO_CAPABILITY, MINTING
  <2> QED
    BY <2>3, <2>4 DEF Kind
<1>4. CASE IsHead26(o, hash)
  <2> DEFINE s == Decoded26(c)
             state == Snapshot26Bytes(s)
  <2>1. HasNFT(o, oracle26_lock, MINTING) /\ c = Commit26Bytes([snapshot |-> s, table_hash |-> hash])
    BY <1>4 DEF IsHead26
  <2> HIDE DEF s
  <2>2. c = state \o hash
    BY <2>1 DEF Commit26Bytes
  <2>3. Text(state) /\ Size(state) = Legacy_SNAPSHOT_LEN
    BY Snapshot26Text
  <2> HIDE DEF state
  <2>4. AsHead26(o, hash)
    BY <2>1, <2>2, <2>3 DEF AsHead26
  <2> QED
    BY <1>4, <2>4 DEF Kind
<1> QED
  BY <1>1, <1>2, <1>3, <1>4

LEMMA FirstChain ==
  ASSUME NEW S \in Start
  PROVE  /\ Chain(S, table_hash(FirstTable))
         /\ \A u \in S : NameOf(u.outpoint.txid) \notin 1..MaxTx
<1> DEFINE hash == table_hash(FirstTable)
<1>1. /\ IsFiniteSet(S)
      /\ \A u \in S : /\ IsOutpoint(u.outpoint) /\ NameOf(u.outpoint.txid) \notin 1..MaxTx
                      /\ u.out.value \in Nat
                      /\ IsCoin(u.out) \/ IsTicker(u.out) \/ IsTicker26(u.out) \/ IsHead26(u.out, hash)
      /\ \A u \in S, v \in S : u.outpoint = v.outpoint => u = v
      /\ \A u \in S, v \in S : IsHead26(u.out, hash) /\ IsHead26(v.out, hash) => u = v
  BY StartAssumption
<1> HIDE DEF hash
<1>2. \A u \in S : Kind(u.out, hash) /\ (Mints(u.out) => IsHead26(u.out, hash))
  BY <1>1, FirstKinds
<1>3. OneEach(S)
  BY <1>1 DEF OneEach
<1>4. \A u \in S, v \in S : Mints(u.out) /\ Mints(v.out) => u = v
  BY <1>1, <1>2
<1>5. \A u \in S : IsOutpoint(u.outpoint) /\ u.out.value \in Int /\ Kind(u.out, hash)
  <2>1. Nat \subseteq Int
    OBVIOUS
  <2> QED
    BY <1>1, <1>2, <2>1
<1>6. Chain(S, hash)
  BY <1>1, <1>3, <1>4, <1>5 DEF Chain
<1> QED
  BY <1>1, <1>6 DEF hash

-----------------------------------------------------------------------------
(* The invariant: the head knows the manifest's table, no output has the name of a transaction yet *)
(* to come, and what is built is sound for what is unspent and for the table that it leads to.    *)
Unnamed == \A u \in utxos : NameOf(u.outpoint.txid) \notin (sent + 1)..MaxTx
JobIsSound ==
    job # Nothing => /\ sent < MaxTx /\ job.table \in Table
                     /\ JobSound(job.built, utxos, table_hash(job.table))
JobRecycles == job.kind = "update" => RecyclesFrom(job.built.tx.inputs, utxos, mtp)
WellBuilt ==
    /\ sent \in Nat /\ moment \in 1..Len(Moments) /\ table \in Table
    /\ Chain(utxos, table_hash(table))
    /\ Unnamed /\ JobIsSound /\ JobRecycles

LEMMA NoUpdate == Nothing.kind # "update"
  BY DEF Nothing

LEMMA WellBuiltInit == Init => WellBuilt
<1> SUFFICES ASSUME Init PROVE WellBuilt
  OBVIOUS
<1>1. utxos \in Start /\ table = FirstTable /\ moment = 1 /\ sent = 0 /\ job = Nothing
  BY DEF Init
<1>2. sent \in Nat /\ moment \in 1..Len(Moments) /\ table \in Table
  BY <1>1, SpendingAssumption
<1>3. Chain(utxos, table_hash(table)) /\ \A u \in utxos : NameOf(u.outpoint.txid) \notin 1..MaxTx
  BY <1>1, FirstChain
<1>4. Unnamed
  BY <1>1, <1>3 DEF Unnamed
<1>5. JobIsSound /\ JobRecycles
  BY <1>1, NoUpdate DEF JobIsSound, JobRecycles
<1> QED
  BY <1>2, <1>3, <1>4, <1>5 DEF WellBuilt

(* A command that builds what is sound keeps it. *)
LEMMA JobKept ==
  ASSUME WellBuilt, NEW kind, NEW r, NEW next \in Table, NEW typed, Builds(kind, r, next, typed),
         JobSound(r[1], utxos, table_hash(next)),
         kind = "update" => RecyclesFrom(r[1].tx.inputs, utxos, mtp)
  PROVE  WellBuilt'
<1>1. /\ sent < MaxTx
      /\ job' = [kind |-> kind, built |-> r[1], table |-> next, typed |-> typed]
      /\ utxos' = utxos /\ table' = table /\ moment' = moment /\ sent' = sent
  BY DEF Builds, Ready
<1>2. job'.kind = kind /\ job'.built = r[1] /\ job'.table = next
  BY <1>1
<1>3. mtp' = mtp
  BY <1>1 DEF mtp
<1>4. /\ sent \in Nat /\ moment \in 1..Len(Moments) /\ table \in Table
      /\ Chain(utxos, table_hash(table)) /\ Unnamed
  BY DEF WellBuilt
<1>5. JobIsSound'
  BY <1>1, <1>2 DEF JobIsSound
<1>6. JobRecycles'
  BY <1>1, <1>2, <1>3 DEF JobRecycles
<1>7. Unnamed'
  BY <1>1, <1>4 DEF Unnamed
<1> QED
  BY <1>1, <1>4, <1>5, <1>6, <1>7 DEF WellBuilt

LEMMA GenesisKeeps == WellBuilt /\ Genesis => WellBuilt'
<1> SUFFICES ASSUME WellBuilt, Genesis PROVE WellBuilt'
  OBVIOUS
<1>1. table \in Table /\ Chain(utxos, table_hash(table)) /\ moment \in 1..Len(Moments)
  BY DEF WellBuilt
<1>2. \A u \in utxos : ~Mints(u.out)
  <2>1. \A u \in utxos : u.out.token = <<>>
    BY DEF Genesis
  <2>2. \A x : x \notin ToSet(<<>>)
    BY DEF ToSet
  <2> QED
    BY <2>1, <2>2 DEF Mints
<1>3. CASE \E c \in {d \in Fundings : \A e \in Fundings : e.value <= d.value} :
              Builds("genesis", build_genesis(c, table_hash(table), ReserveSats, Minute - 60), table, NoText)
  <2>1. PICK c \in Fundings :
              Builds("genesis", build_genesis(c, table_hash(table), ReserveSats, Minute - 60), table, NoText)
    BY <1>3
  <2>2. PICK r : r = build_genesis(c, table_hash(table), ReserveSats, Minute - 60)
    OBVIOUS
  <2>3. PICK typed : typed = NoText
    OBVIOUS
  <2>4. PICK t : t = table
    OBVIOUS
  <2>5. Builds("genesis", r, t, typed)
    BY <2>1, <2>2, <2>3, <2>4
  <2>6. r # Refused
    BY <2>5 DEF Builds
  <2>7. c \in find_coins
    BY DEF Fundings
  <2>8. JobSound(r[1], utxos, table_hash(t))
    BY <1>1, <1>2, <2>2, <2>4, <2>6, <2>7, GenesisBuilt
  <2> QED
    BY <1>1, <2>4, <2>5, <2>8, JobKept
<1>4. CASE Picked # <<>> /\ Builds("self-spend", self_spend(Picked), table, NoText)
  <2>1. PICK coins : coins = Picked
    OBVIOUS
  <2>2. PICK r : r = self_spend(coins)
    OBVIOUS
  <2>3. PICK typed : typed = NoText
    OBVIOUS
  <2>4. PICK t : t = table
    OBVIOUS
  <2>5. Builds("self-spend", r, t, typed)
    BY <1>4, <2>1, <2>2, <2>3, <2>4
  <2>6. IsList(coins) /\ Len(coins) # 0 /\ \A i \in 1..Len(coins) : coins[i] \in find_coins
    BY <1>1, <1>4, <2>1, PickedCoins
  <2>7. Text(table_hash(t))
    BY TableHash DEF IsHash
  <2>8. JobSound(r[1], utxos, table_hash(t))
    <3> DEFINE hash == table_hash(t)
    <3>1. Text(hash) /\ Chain(utxos, hash)
      BY <1>1, <2>4, <2>7
    <3> HIDE DEF hash
    <3>2. JobSound(r[1], utxos, hash)
      BY <1>2, <2>2, <2>6, <3>1, MergeBuilt
    <3> QED
      BY <3>2 DEF hash
  <2> QED
    BY <1>1, <2>4, <2>5, <2>8, JobKept
<1> QED
  BY <1>3, <1>4 DEF Genesis

LEMMA UpdateKeeps == WellBuilt /\ Update => WellBuilt'
<1> SUFFICES ASSUME WellBuilt, Update PROVE WellBuilt'
  OBVIOUS
<1>1. table \in Table /\ Chain(utxos, table_hash(table)) /\ moment \in 1..Len(Moments)
  BY DEF WellBuilt
<1>2. PICK head \in find_head, first \in Turnouts, topups \in TopUps :
        Builds("update",
               build_update(head, table, Statements(first, Minute),
                            find_recyclable_tickers(utxos, mtp, MAX_RECYCLE_PER_UPDATE), topups),
               table, NoText)
  BY DEF Update
<1>3. PICK r : r = build_update(head, table, Statements(first, Minute),
                                find_recyclable_tickers(utxos, mtp, MAX_RECYCLE_PER_UPDATE), topups)
  OBVIOUS
<1>4. PICK typed : typed = NoText
  OBVIOUS
<1>5. PICK t : t = table
  OBVIOUS
<1>6. Builds("update", r, t, typed)
  BY <1>2, <1>3, <1>4, <1>5
<1>7. r # Refused
  BY <1>6 DEF Builds
<1>8. JobSound(r[1], utxos, table_hash(table)) /\ RecyclesFrom(r[1].tx.inputs, utxos, mtp)
  BY <1>1, <1>3, <1>7, UpdateBuilt
<1> QED
  BY <1>1, <1>5, <1>6, <1>8, JobKept

LEMMA ChangeTableKeeps == WellBuilt /\ ChangeTable => WellBuilt'
<1> SUFFICES ASSUME WellBuilt, ChangeTable PROVE WellBuilt'
  OBVIOUS
<1>1. table \in Table /\ Chain(utxos, table_hash(table))
  BY DEF WellBuilt
<1>2. PICK head \in find_head, t \in Table \ {table}, count \in Counts :
        Builds("table", Rotated(head, oracle_lock, table_hash(t), count), t, NoText)
  BY DEF ChangeTable
<1>3. PICK r : r = Rotated(head, oracle_lock, table_hash(t), count)
  OBVIOUS
<1>4. PICK typed : typed = NoText
  OBVIOUS
<1>5. Builds("table", r, t, typed)
  BY <1>2, <1>3, <1>4
<1>6. r # Refused
  BY <1>5 DEF Builds
<1> DEFINE hash == table_hash(t)
<1>7. Text(hash) /\ Carries(oracle_lock, hash, SNAPSHOT_LEN, hash)
  BY TableChangeCarries
<1>8. r = Rotated(head, oracle_lock, hash, count)
  BY <1>3
<1> HIDE DEF hash
<1>9. JobSound(r[1], utxos, hash)
  BY <1>1, <1>6, <1>7, <1>8, RotatedBuilt
<1> QED
  BY <1>5, <1>9, JobKept DEF hash

LEMMA RetireKeeps == WellBuilt /\ Retire => WellBuilt'
<1> SUFFICES ASSUME WellBuilt, Retire PROVE WellBuilt'
  OBVIOUS
<1>1. table \in Table /\ Chain(utxos, table_hash(table))
  BY DEF WellBuilt
<1>2. PICK head \in find_head, text \in TakenTexts :
        Builds("retire", Rotated(head, RetireLock(text), <<>>, Len(table) \div 2 + 1), table, text)
  BY DEF Retire
<1>3. PICK count : count = Len(table) \div 2 + 1
  OBVIOUS
<1>4. PICK lock : lock = RetireLock(text)
  OBVIOUS
<1>5. PICK r : r = Rotated(head, lock, <<>>, count)
  OBVIOUS
<1>6. PICK t : t = table
  OBVIOUS
<1>7. Builds("retire", r, t, text)
  BY <1>2, <1>3, <1>4, <1>5, <1>6
<1>8. r # Refused
  BY <1>7 DEF Builds
<1>9. count \in Counts
  BY <1>3 DEF Counts
<1> DEFINE hash == table_hash(t)
<1>10. Text(hash)
  BY TableHash DEF IsHash
<1>11. t \in Table
  BY <1>1, <1>6
<1> HIDE DEF hash
<1>12. Carries(lock, <<>>, SNAPSHOT_LEN, hash)
  BY <1>4, RetirementCarries
<1>13. JobSound(r[1], utxos, hash)
  BY <1>1, <1>5, <1>8, <1>9, <1>10, <1>12, RotatedBuilt
<1> QED
  BY <1>7, <1>11, <1>13, JobKept DEF hash

LEMMA MigrateKeeps == WellBuilt /\ Migrate => WellBuilt'
<1> SUFFICES ASSUME WellBuilt, Migrate PROVE WellBuilt'
  OBVIOUS
<1>1. table \in Table /\ Chain(utxos, table_hash(table))
  BY DEF WellBuilt
<1>2. PICK head \in find_legacy_head, count \in Counts :
        LET tail == migration_tail(head.commit.table_hash)
            approvals == Approvals(count, head, oracle_lock, tail)
        IN Builds("migrate", build_migration(head, table, approvals, <<>>), table, NoText)
  BY DEF Migrate
<1>3. PICK tail : tail = migration_tail(head.commit.table_hash)
  OBVIOUS
<1>4. PICK r : r = build_migration(head, table, Approvals(count, head, oracle_lock, tail), <<>>)
  OBVIOUS
<1>5. PICK typed : typed = NoText
  OBVIOUS
<1>6. PICK t : t = table
  OBVIOUS
<1>7. Builds("migrate", r, t, typed)
  BY <1>2, <1>3, <1>4, <1>5, <1>6
<1>8. r # Refused
  BY <1>7 DEF Builds
<1>9. JobSound(r[1], utxos, table_hash(table))
  BY <1>1, <1>3, <1>4, <1>8, MigrationBuilt
<1> QED
  BY <1>1, <1>6, <1>7, <1>9, JobKept

LEMMA BroadcastKeeps == WellBuilt /\ Broadcast => WellBuilt'
<1> SUFFICES ASSUME WellBuilt, Broadcast PROVE WellBuilt'
  OBVIOUS
<1>1. /\ sent \in Nat /\ moment \in 1..Len(Moments) /\ table \in Table
      /\ Chain(utxos, table_hash(table)) /\ Unnamed /\ JobIsSound
  BY DEF WellBuilt
<1>2. job # Nothing /\ job' = Nothing /\ moment' = moment
  BY DEF Broadcast
<1>3. JobIsSound' /\ JobRecycles'
  BY <1>2, NoUpdate DEF JobIsSound, JobRecycles
<1>4. CASE Taken
  <2>1. PICK b : b = job.built
    OBVIOUS
  <2>2. PICK other : other = table_hash(job.table)
    OBVIOUS
  <2>3. sent < MaxTx /\ job.table \in Table /\ JobSound(b, utxos, other)
    BY <1>1, <1>2, <2>1, <2>2 DEF JobIsSound
  <2>4. Read(b.raw).v = b.tx
    <3>1. b.raw = encode_tx(b.tx) /\ IsTx(b.tx)
      BY <2>3 DEF JobSound, SoundFor
    <3>2. Read(encode_tx(b.tx)) = [v |-> b.tx, rest |-> <<>>]
      BY <3>1, ReadsWhatIsWritten
    <3> QED
      BY <3>1, <3>2
  <2>5. PICK n : n = sent + 1
    OBVIOUS
  <2>6. /\ utxos' = Leftover(utxos, b.tx) \cup Fresh(n, b.tx.outputs)
        /\ table' = job.table /\ sent' = n
    BY <1>4, <2>1, <2>4, <2>5 DEF Broadcast, Created, Leftover, Fresh
  <2>7. MaxTx \in Nat
    BY SpendingAssumption
  <2>8. \A u \in utxos : NameOf(u.outpoint.txid) # n
    <3>1. n \in (sent + 1)..MaxTx
      BY <1>1, <2>3, <2>5, <2>7
    <3> QED
      BY <1>1, <3>1 DEF Unnamed
  <2>9. Chain(utxos', other) /\ \A v \in utxos' : v \in utxos \/ NameOf(v.outpoint.txid) = n
    BY <1>1, <2>3, <2>6, <2>8, ChainGoesOn
  <2>10. Unnamed'
    <3> SUFFICES ASSUME NEW v \in utxos' PROVE NameOf(v.outpoint.txid) \notin (n + 1)..MaxTx
      BY <2>6 DEF Unnamed
    <3>1. n \notin (n + 1)..MaxTx /\ (n + 1)..MaxTx \subseteq (sent + 1)..MaxTx
      BY <1>1, <2>5, <2>7
    <3> QED
      BY <1>1, <2>9, <3>1 DEF Unnamed
  <2>11. sent' \in Nat /\ table' \in Table /\ Chain(utxos', table_hash(table'))
    BY <1>1, <2>2, <2>3, <2>5, <2>6, <2>9
  <2> QED
    BY <1>1, <1>2, <1>3, <2>10, <2>11 DEF WellBuilt
<1>5. CASE ~Taken
  <2>1. utxos' = utxos /\ table' = table /\ sent' = sent
    BY <1>5 DEF Broadcast
  <2>2. Unnamed'
    BY <1>1, <2>1 DEF Unnamed
  <2> QED
    BY <1>1, <1>2, <1>3, <2>1, <2>2 DEF WellBuilt
<1> QED
  BY <1>4, <1>5

LEMMA TickKeeps == WellBuilt /\ Tick => WellBuilt'
<1> SUFFICES ASSUME WellBuilt, Tick PROVE WellBuilt'
  OBVIOUS
<1>1. /\ sent \in Nat /\ moment \in 1..Len(Moments) /\ table \in Table
      /\ Chain(utxos, table_hash(table)) /\ Unnamed
  BY DEF WellBuilt
<1>2. /\ job = Nothing /\ job' = Nothing /\ moment < Len(Moments) /\ moment' = moment + 1
      /\ utxos' = utxos /\ table' = table /\ sent' = sent
  BY DEF Tick
<1>3. moment' \in 1..Len(Moments)
  BY <1>1, <1>2, SpendingAssumption
<1>4. Unnamed' /\ JobIsSound' /\ JobRecycles'
  BY <1>1, <1>2, NoUpdate DEF Unnamed, JobIsSound, JobRecycles
<1> QED
  BY <1>1, <1>2, <1>3, <1>4 DEF WellBuilt

LEMMA StutterKeeps == WellBuilt /\ UNCHANGED vars => WellBuilt'
<1> SUFFICES ASSUME WellBuilt, UNCHANGED vars PROVE WellBuilt'
  OBVIOUS
<1>1. /\ sent \in Nat /\ moment \in 1..Len(Moments) /\ table \in Table
      /\ Chain(utxos, table_hash(table)) /\ Unnamed /\ JobIsSound /\ JobRecycles
  BY DEF WellBuilt
<1>2. /\ job' = job /\ moment' = moment
      /\ utxos' = utxos /\ table' = table /\ sent' = sent
  BY DEF vars
<1>3. mtp' = mtp
  BY <1>2 DEF mtp
<1>4. Unnamed' /\ JobIsSound' /\ JobRecycles'
  BY <1>1, <1>2, <1>3 DEF Unnamed, JobIsSound, JobRecycles
<1> QED
  BY <1>1, <1>2, <1>4 DEF WellBuilt

(* Whatever the commands do, from any such start, with any prices and for every bound, the chain *)
(* and the transaction just built are as they should be.                                        *)
THEOREM AlwaysWellBuilt == Spec => []WellBuilt
<1>1. WellBuilt /\ [Next]_vars => WellBuilt'
  BY GenesisKeeps, UpdateKeeps, ChangeTableKeeps, RetireKeeps, MigrateKeeps, BroadcastKeeps,
     TickKeeps, StutterKeeps DEF Next
<1> QED
  BY <1>1, WellBuiltInit, PTL DEF Spec

(* What a node reads in the bytes is what was built, its inputs are unspent, and the fee is the *)
(* size and one more: encode_tx, and every builder down to finish and self_spend.              *)
THEOREM AlwaysBuiltAsMeant == Spec => []BuiltAsMeant
<1>1. WellBuilt => BuiltAsMeant
  <2> SUFFICES ASSUME WellBuilt, job # Nothing PROVE BuiltAsMeant
    BY DEF BuiltAsMeant
  <2>1. PICK b : b = job.built
    OBVIOUS
  <2>2. SoundFor(b, utxos)
    BY <2>1 DEF WellBuilt, JobIsSound, JobSound
  <2>3. /\ b.raw = encode_tx(b.tx) /\ IsTx(b.tx)
        /\ \A i \in 1..Len(b.tx.inputs) : \E u \in utxos : u.outpoint = b.tx.inputs[i].prev
        /\ Sum(SpentOf(utxos, b.tx)) - Sum(b.tx.outputs) = Size(b.raw) + 1
        /\ b.fee = Size(b.raw) + 1
    BY <2>2 DEF SoundFor
  <2>4. Read(b.raw) = [v |-> b.tx, rest |-> <<>>]
    <3>1. Read(encode_tx(b.tx)) = [v |-> b.tx, rest |-> <<>>]
      BY <2>3, ReadsWhatIsWritten
    <3> QED
      BY <2>3, <3>1
  <2>5. Unspent(b.tx)
    <3> DEFINE xs == b.tx.inputs
               k == Len(xs)
    <3>1. k \in Nat /\ xs = [i \in 1..k |-> xs[i]]
      BY <2>3 DEF IsTx
    <3>2. \A i \in 1..k : \E u \in utxos : u.outpoint = xs[i].prev
      BY <2>3
    <3> HIDE DEF xs, k
    <3>3. \A x \in ToSet(xs) : \E i \in 1..k : x = xs[i]
      BY <3>1, Listed
    <3>4. \A x \in ToSet(xs) : \E u \in utxos : u.outpoint = x.prev
      BY <3>2, <3>3
    <3> QED
      BY <3>4 DEF Unspent, xs
  <2>6. SpendsOf(b.tx) = SpentOf(utxos, b.tx)
    BY DEF SpendsOf, SpentOf, OutOf
  <2>7. Sum(SpendsOf(b.tx)) - Sum(b.tx.outputs) = Size(b.raw) + 1
    BY <2>3, <2>6
  <2> QED
    BY <2>1, <2>3, <2>4, <2>5, <2>7 DEF BuiltAsMeant
<1> QED
  BY <1>1, AlwaysWellBuilt, PTL

(* The builder finds every head that is at the lock of v27, with the manifest's table in it: *)
(* find_head, after genesis, migration, update and table change alike.                      *)
THEOREM AlwaysHeadIsFound == Spec => []HeadIsFound
<1>1. WellBuilt => HeadIsFound
  BY EveryHeadFound DEF WellBuilt
<1> QED
  BY <1>1, AlwaysWellBuilt, PTL

(* An update recycles the oldest Tickers of both generations that their covenants let go, and *)
(* as many as its limit allows: find_recyclable_tickers and the inputs of build_update.      *)
THEOREM AlwaysRecyclesBoth == Spec => []RecyclesBoth
<1>1. WellBuilt => RecyclesBoth
  BY DEF WellBuilt, JobRecycles, RecyclesBoth, RecyclesFrom, TickersOf, DueBy
<1> QED
  BY <1>1, AlwaysWellBuilt, PTL

-----------------------------------------------------------------------------
(* Addresses: bits. *)

LEMMA BitsFinite ==
  ASSUME NEW S \in SUBSET (0..7)
  PROVE  IsFiniteSet(S)
<1>1. 0 \in Int /\ 7 \in Int
  OBVIOUS
<1> DEFINE U == 0..7
<1>2. IsFiniteSet(U)
  BY ONLY <1>1, FS_Interval, Zenon
<1>3. S \in SUBSET U
  OBVIOUS
<1> HIDE DEF U
<1> QED
  BY <1>2, <1>3, FS_Subset

LEMMA BitsAreSum ==
  ASSUME NEW S \in SUBSET (0..7)
  PROVE  \E g : IsSum(g, [i \in S |-> 2^i], S) /\ FromBits(S) = g[S]
<1> DEFINE w == [i \in S |-> 2^i]
           F(g) == [s \in SUBSET S |-> IF s = {} THEN 0
                       ELSE 2^(CHOOSE x \in s : TRUE) + g[s \ {CHOOSE x \in s : TRUE}]]
           sum == CHOOSE g : g = F(g)
<1>1. \A s \in SUBSET S : s # {} => w[Pick(s)] = 2^(CHOOSE x \in s : TRUE)
  <2> TAKE s \in SUBSET S
  <2> HAVE s # {}
  <2>1. Pick(s) \in S /\ Pick(s) = CHOOSE x \in s : TRUE
    BY DEF Pick
  <2> QED
    BY <2>1
<1>2. \A g : IsSum(g, w, S) <=> g = F(g)
  <2> TAKE g
  <2>1. [s \in SUBSET S |-> IF s = {} THEN 0 ELSE w[Pick(s)] + g[s \ {Pick(s)}]] = F(g)
    BY <1>1 DEF Pick
  <2> QED
    BY <2>1 DEF IsSum
<1>3. \E g : g = F(g)
  <2>1. \E g : IsSum(g, w, S)
    <3>1. IsFiniteSet(S)
      BY BitsFinite
    <3> HIDE DEF w
    <3> QED
      BY <3>1, SumExists
  <2> HIDE DEF w, F
  <2> QED
    BY <1>2, <2>1
<1>4. sum = F(sum)
  BY <1>3
<1>5. FromBits(S) = sum[S]
  BY DEF FromBits, MapThenSumSet, MapThenFoldSet
<1> QED
  BY <1>2, <1>4, <1>5

(* A number, from its eight bits. *)
Worth1(S, i, worth) == IF i \in S THEN worth ELSE 0
Splits(g, w, S) ==
    /\ g[{}] = 0 /\ \A T \in SUBSET S : g[T] \in Nat
    /\ \A T \in SUBSET S : \A y \in T : g[T] = w[y] + g[T \ {y}]

LEMMA SumsSplit ==
  ASSUME NEW S, IsFiniteSet(S), NEW w, \A x \in S : w[x] \in Nat, NEW g, IsSum(g, w, S)
  PROVE  Splits(g, w, S)
<1>1. g[{}] = 0
  BY SumFacts
<1>2. ASSUME NEW T \in SUBSET S PROVE g[T] \in Nat
  BY SumFacts
<1>3. ASSUME NEW T \in SUBSET S, NEW y \in T PROVE g[T] = w[y] + g[T \ {y}]
  BY SumFacts
<1> QED
  BY <1>1, <1>2, <1>3, Zenon DEF Splits

LEMMA TakeBit ==
  ASSUME NEW S, NEW g, NEW w, Splits(g, w, S), NEW T \in SUBSET S, NEW i, i \in T <=> i \in S
  PROVE  T \ {i} \in SUBSET S /\ g[T] = Worth1(S, i, w[i]) + g[T \ {i}] /\ g[T] \in Nat
<1>1. g[T] \in Nat /\ \A y \in T : g[T] = w[y] + g[T \ {y}]
  BY DEF Splits
<1>2. CASE i \in S
  <2>1. Worth1(S, i, w[i]) = w[i]
    BY <1>2 DEF Worth1
  <2>2. g[T] = w[i] + g[T \ {i}]
    BY <1>1, <1>2
  <2> QED
    BY <1>1, <2>1, <2>2
<1>3. CASE i \notin S
  <2>1. T \ {i} = T
    BY <1>3
  <2>2. Worth1(S, i, w[i]) = 0
    BY <1>3 DEF Worth1
  <2>3. g[T \ {i}] = g[T]
    BY ONLY <2>1, Zenon
  <2>4. g[T] = 0 + g[T \ {i}]
    BY <1>1, <2>3
  <2> QED
    BY <1>1, <2>1, <2>2, <2>4
<1> QED
  BY <1>2, <1>3

LEMMA Powers ==
  /\ 2^0 = 1 /\ 2^1 = 2 /\ 2^2 = 4 /\ 2^3 = 8 /\ 2^4 = 16 /\ 2^5 = 32 /\ 2^6 = 64 /\ 2^7 = 128
  /\ \A i \in 0..7 : 2^i \in Nat
<1>1. 2^0 = 1 /\ 2^1 = 2 /\ 2^2 = 4 /\ 2^3 = 8 /\ 2^4 = 16 /\ 2^5 = 32 /\ 2^6 = 64 /\ 2^7 = 128
  OBVIOUS
<1>2. 2^0 \in Nat /\ 2^1 \in Nat /\ 2^2 \in Nat /\ 2^3 \in Nat /\ 2^4 \in Nat /\ 2^5 \in Nat
      /\ 2^6 \in Nat /\ 2^7 \in Nat
  OBVIOUS
<1>3. ASSUME NEW i \in 0..7 PROVE 2^i \in Nat
  <2>1. i = 0 \/ i = 1 \/ i = 2 \/ i = 3 \/ i = 4 \/ i = 5 \/ i = 6 \/ i = 7
    OBVIOUS
  <2> QED
    BY <1>2, <2>1, Zenon
<1> QED
  BY <1>1, <1>3

LEMMA BitsAdded ==
  ASSUME NEW S \in SUBSET (0..7)
  PROVE  FromBits(S) = Worth1(S, 0, 1) + Worth1(S, 1, 2) + Worth1(S, 2, 4) + Worth1(S, 3, 8)
                       + Worth1(S, 4, 16) + Worth1(S, 5, 32) + Worth1(S, 6, 64) + Worth1(S, 7, 128)
<1> DEFINE w == [i \in S |-> 2^i]
<1>1. PICK g : IsSum(g, w, S) /\ FromBits(S) = g[S]
  BY BitsAreSum
<1>2. \A i \in S : w[i] = 2^i
  OBVIOUS
<1> HIDE DEF w
<1>3. \A i \in S : w[i] \in Nat
  <2>1. \A i \in S : i \in 0..7
    OBVIOUS
  <2> QED
    BY <1>2, <2>1, Powers, Zenon
<1>4. /\ 0 \in S => w[0] = 1
      /\ 1 \in S => w[1] = 2
      /\ 2 \in S => w[2] = 4
      /\ 3 \in S => w[3] = 8
      /\ 4 \in S => w[4] = 16
      /\ 5 \in S => w[5] = 32
      /\ 6 \in S => w[6] = 64
      /\ 7 \in S => w[7] = 128
  BY <1>2, Powers, Zenon
<1>5. Splits(g, w, S)
  BY ONLY <1>1, <1>3, BitsFinite, SumsSplit, S \in SUBSET (0..7)
<1> DEFINE T1 == S \ {0}
           T2 == T1 \ {1}
           T3 == T2 \ {2}
           T4 == T3 \ {3}
           T5 == T4 \ {4}
           T6 == T5 \ {5}
           T7 == T6 \ {6}
           T8 == T7 \ {7}
<1>6. \A T \in SUBSET S, i \in Nat : (i \in T <=> i \in S) =>
          T \ {i} \in SUBSET S /\ g[T] = Worth1(S, i, w[i]) + g[T \ {i}] /\ g[T] \in Nat
  BY ONLY <1>5, TakeBit
<1>7. /\ T8 = {}
      /\ 0 \in S <=> 0 \in S
      /\ 1 \in T1 <=> 1 \in S
      /\ 2 \in T2 <=> 2 \in S
      /\ 3 \in T3 <=> 3 \in S
      /\ 4 \in T4 <=> 4 \in S
      /\ 5 \in T5 <=> 5 \in S
      /\ 6 \in T6 <=> 6 \in S
      /\ 7 \in T7 <=> 7 \in S
  OBVIOUS
<1>8. /\ T1 = S \ {0} /\ T2 = T1 \ {1} /\ T3 = T2 \ {2} /\ T4 = T3 \ {3}
      /\ T5 = T4 \ {4} /\ T6 = T5 \ {5} /\ T7 = T6 \ {6} /\ T8 = T7 \ {7} /\ S \in SUBSET S
  OBVIOUS
<1> HIDE DEF T1, T2, T3, T4, T5, T6, T7, T8
<1>9. T1 \in SUBSET S /\ g[S] = Worth1(S, 0, 1) + g[T1] /\ g[S] \in Nat
  <2>1. S \in SUBSET S /\ T1 = S \ {0} /\ (0 \in S <=> 0 \in S) /\ 0 \in Nat
    BY ONLY <1>7, <1>8
  <2>2. Worth1(S, 0, w[0]) = Worth1(S, 0, 1)
    BY ONLY <1>4 DEF Worth1
  <2> QED
    BY ONLY <2>1, <2>2, <1>6, Zenon
<1>10. T2 \in SUBSET S /\ g[T1] = Worth1(S, 1, 2) + g[T2] /\ g[T1] \in Nat
  <2>1. T1 \in SUBSET S /\ T2 = T1 \ {1} /\ (1 \in T1 <=> 1 \in S) /\ 1 \in Nat
    BY ONLY <1>7, <1>8, <1>9
  <2>2. Worth1(S, 1, w[1]) = Worth1(S, 1, 2)
    BY ONLY <1>4 DEF Worth1
  <2> QED
    BY ONLY <2>1, <2>2, <1>6, Zenon
<1>11. T3 \in SUBSET S /\ g[T2] = Worth1(S, 2, 4) + g[T3] /\ g[T2] \in Nat
  <2>1. T2 \in SUBSET S /\ T3 = T2 \ {2} /\ (2 \in T2 <=> 2 \in S) /\ 2 \in Nat
    BY ONLY <1>7, <1>8, <1>10
  <2>2. Worth1(S, 2, w[2]) = Worth1(S, 2, 4)
    BY ONLY <1>4 DEF Worth1
  <2> QED
    BY ONLY <2>1, <2>2, <1>6, Zenon
<1>12. T4 \in SUBSET S /\ g[T3] = Worth1(S, 3, 8) + g[T4] /\ g[T3] \in Nat
  <2>1. T3 \in SUBSET S /\ T4 = T3 \ {3} /\ (3 \in T3 <=> 3 \in S) /\ 3 \in Nat
    BY ONLY <1>7, <1>8, <1>11
  <2>2. Worth1(S, 3, w[3]) = Worth1(S, 3, 8)
    BY ONLY <1>4 DEF Worth1
  <2> QED
    BY ONLY <2>1, <2>2, <1>6, Zenon
<1>13. T5 \in SUBSET S /\ g[T4] = Worth1(S, 4, 16) + g[T5] /\ g[T4] \in Nat
  <2>1. T4 \in SUBSET S /\ T5 = T4 \ {4} /\ (4 \in T4 <=> 4 \in S) /\ 4 \in Nat
    BY ONLY <1>7, <1>8, <1>12
  <2>2. Worth1(S, 4, w[4]) = Worth1(S, 4, 16)
    BY ONLY <1>4 DEF Worth1
  <2> QED
    BY ONLY <2>1, <2>2, <1>6, Zenon
<1>14. T6 \in SUBSET S /\ g[T5] = Worth1(S, 5, 32) + g[T6] /\ g[T5] \in Nat
  <2>1. T5 \in SUBSET S /\ T6 = T5 \ {5} /\ (5 \in T5 <=> 5 \in S) /\ 5 \in Nat
    BY ONLY <1>7, <1>8, <1>13
  <2>2. Worth1(S, 5, w[5]) = Worth1(S, 5, 32)
    BY ONLY <1>4 DEF Worth1
  <2> QED
    BY ONLY <2>1, <2>2, <1>6, Zenon
<1>15. T7 \in SUBSET S /\ g[T6] = Worth1(S, 6, 64) + g[T7] /\ g[T6] \in Nat
  <2>1. T6 \in SUBSET S /\ T7 = T6 \ {6} /\ (6 \in T6 <=> 6 \in S) /\ 6 \in Nat
    BY ONLY <1>7, <1>8, <1>14
  <2>2. Worth1(S, 6, w[6]) = Worth1(S, 6, 64)
    BY ONLY <1>4 DEF Worth1
  <2> QED
    BY ONLY <2>1, <2>2, <1>6, Zenon
<1>16. T8 \in SUBSET S /\ g[T7] = Worth1(S, 7, 128) + g[T8] /\ g[T7] \in Nat
  <2>1. T7 \in SUBSET S /\ T8 = T7 \ {7} /\ (7 \in T7 <=> 7 \in S) /\ 7 \in Nat
    BY ONLY <1>7, <1>8, <1>15
  <2>2. Worth1(S, 7, w[7]) = Worth1(S, 7, 128)
    BY ONLY <1>4 DEF Worth1
  <2> QED
    BY ONLY <2>1, <2>2, <1>6, Zenon
<1>17. g[T8] = 0
  BY <1>5, <1>7 DEF Splits
<1>18. /\ Worth1(S, 0, 1) \in Nat /\ Worth1(S, 1, 2) \in Nat /\ Worth1(S, 2, 4) \in Nat
       /\ Worth1(S, 3, 8) \in Nat /\ Worth1(S, 4, 16) \in Nat /\ Worth1(S, 5, 32) \in Nat
       /\ Worth1(S, 6, 64) \in Nat /\ Worth1(S, 7, 128) \in Nat
  BY DEF Worth1
<1>19. g[S] = Worth1(S, 0, 1) + Worth1(S, 1, 2) + Worth1(S, 2, 4) + Worth1(S, 3, 8)
              + Worth1(S, 4, 16) + Worth1(S, 5, 32) + Worth1(S, 6, 64) + Worth1(S, 7, 128)
  BY ONLY <1>9, <1>10, <1>11, <1>12, <1>13, <1>14, <1>15, <1>16, <1>17, <1>18
<1> QED
  BY <1>1, <1>19

(* Five bits make a symbol, which has them. *)
LEMMA FiveBits ==
  ASSUME NEW S \in SUBSET (0..4)
  PROVE  /\ FromBits(S) \in 0..31
         /\ \A i \in 0..4 : Bit(FromBits(S), i) <=> i \in S
<1> DEFINE a == Worth1(S, 0, 1)
           b == Worth1(S, 1, 2)
           c == Worth1(S, 2, 4)
           d == Worth1(S, 3, 8)
           e == Worth1(S, 4, 16)
           n == a + b + c + d + e
<1>1. S \in SUBSET (0..7) /\ 5 \notin S /\ 6 \notin S /\ 7 \notin S
  OBVIOUS
<1>2. Worth1(S, 5, 32) = 0 /\ Worth1(S, 6, 64) = 0 /\ Worth1(S, 7, 128) = 0
  BY <1>1 DEF Worth1
<1>3. /\ a \in {0, 1} /\ b \in {0, 2} /\ c \in {0, 4} /\ d \in {0, 8} /\ e \in {0, 16}
      /\ (a = 1 <=> 0 \in S) /\ (b = 2 <=> 1 \in S) /\ (c = 4 <=> 2 \in S) /\ (d = 8 <=> 3 \in S)
      /\ (e = 16 <=> 4 \in S)
  BY DEF Worth1
<1>4. FromBits(S) = a + b + c + d + e + 0 + 0 + 0
  BY <1>1, <1>2, BitsAdded
<1> HIDE DEF a, b, c, d, e
<1>5. FromBits(S) = n /\ n \in 0..31
  BY <1>3, <1>4
<1>6. /\ (n \div 2^0) % 2 = 1 <=> a = 1
      /\ (n \div 2^1) % 2 = 1 <=> b = 2
      /\ (n \div 2^2) % 2 = 1 <=> c = 4
      /\ (n \div 2^3) % 2 = 1 <=> d = 8
      /\ (n \div 2^4) % 2 = 1 <=> e = 16
  BY <1>3
<1> HIDE DEF n
<1>7. \A i \in 0..4 : i \in {0, 1, 2, 3, 4}
  OBVIOUS
<1> QED
  BY <1>3, <1>5, <1>6, <1>7 DEF Bit

(* A number is known by its bits. *)
LEMMA SameFiveBits ==
  ASSUME NEW a \in 0..31, NEW b \in 0..31, \A i \in 0..4 : Bit(a, i) <=> Bit(b, i)
  PROVE  a = b
<1>1. /\ 0 \in 0..4 /\ 1 \in 0..4 /\ 2 \in 0..4 /\ 3 \in 0..4 /\ 4 \in 0..4
  OBVIOUS
<1>2. /\ (Bit(a, 0) <=> Bit(b, 0)) /\ (Bit(a, 1) <=> Bit(b, 1)) /\ (Bit(a, 2) <=> Bit(b, 2))
      /\ (Bit(a, 3) <=> Bit(b, 3)) /\ (Bit(a, 4) <=> Bit(b, 4))
  BY <1>1, Zenon
<1> QED
  BY ONLY <1>2, a \in 0..31, b \in 0..31 DEF Bit

LEMMA Xor5Bits ==
  ASSUME NEW a \in 0..31, NEW b \in 0..31
  PROVE  /\ Xor5[a][b] \in 0..31
         /\ \A i \in 0..4 : Bit(Xor5[a][b], i) <=> ~(Bit(a, i) <=> Bit(b, i))
<1> DEFINE S == {i \in 0..4 : Bit(a, i) # Bit(b, i)}
<1>1. Xor5[a][b] = FromBits(S)
  BY DEF Xor5
<1>2. S \in SUBSET (0..4)
  OBVIOUS
<1>3. \A i \in 0..4 : i \in S <=> ~(Bit(a, i) <=> Bit(b, i))
  BY Zenon DEF Bit
<1> HIDE DEF S
<1>4. FromBits(S) \in 0..31 /\ \A i \in 0..4 : Bit(FromBits(S), i) <=> i \in S
  BY <1>2, FiveBits
<1> QED
  BY <1>1, <1>3, <1>4, Zenon

LEMMA Xor5Laws ==
  /\ \A a, b \in 0..31 : Xor5[a][b] \in 0..31
  /\ \A a \in 0..31 : Xor5[a][0] = a
  /\ \A a \in 0..31 : Xor5[a][a] = 0
  /\ \A a, b \in 0..31 : Xor5[a][b] = Xor5[b][a]
  /\ \A a, b, c \in 0..31 : Xor5[Xor5[a][b]][c] = Xor5[a][Xor5[b][c]]
<1>1. \A x, y \in 0..31 : Xor5[x][y] \in 0..31
  BY Xor5Bits
<1>2. \A x, y \in 0..31 : \A i \in 0..4 : Bit(Xor5[x][y], i) <=> ~(Bit(x, i) <=> Bit(y, i))
  BY Xor5Bits
<1>3. 0 \in 0..31 /\ \A i \in 0..4 : ~Bit(0, i)
  <2>1. \A i \in 0..4 : i \in {0, 1, 2, 3, 4}
    OBVIOUS
  <2>2. (0 \div 2^0) % 2 = 0 /\ (0 \div 2^1) % 2 = 0 /\ (0 \div 2^2) % 2 = 0 /\ (0 \div 2^3) % 2 = 0
        /\ (0 \div 2^4) % 2 = 0 /\ 0 # 1
    OBVIOUS
  <2> QED
    BY <2>1, <2>2 DEF Bit
<1>4. ASSUME NEW a \in 0..31 PROVE Xor5[a][0] = a
  <2>1. Xor5[a][0] \in 0..31
    BY <1>1, <1>3
  <2>2. \A i \in 0..4 : Bit(Xor5[a][0], i) <=> Bit(a, i)
    BY <1>2, <1>3, Zenon
  <2> QED
    BY <2>1, <2>2, SameFiveBits
<1>5. ASSUME NEW a \in 0..31 PROVE Xor5[a][a] = 0
  <2>1. Xor5[a][a] \in 0..31
    BY <1>1
  <2>2. \A i \in 0..4 : Bit(Xor5[a][a], i) <=> Bit(0, i)
    BY <1>2, <1>3, Zenon
  <2> QED
    BY <1>3, <2>1, <2>2, SameFiveBits
<1>6. ASSUME NEW a \in 0..31, NEW b \in 0..31 PROVE Xor5[a][b] = Xor5[b][a]
  <2>1. Xor5[a][b] \in 0..31 /\ Xor5[b][a] \in 0..31
    BY <1>1
  <2>2. \A i \in 0..4 : Bit(Xor5[a][b], i) <=> Bit(Xor5[b][a], i)
    BY <1>2, Zenon
  <2> QED
    BY <2>1, <2>2, SameFiveBits
<1>7. ASSUME NEW a \in 0..31, NEW b \in 0..31, NEW c \in 0..31
      PROVE  Xor5[Xor5[a][b]][c] = Xor5[a][Xor5[b][c]]
  <2> DEFINE p == Xor5[a][b]
             q == Xor5[b][c]
  <2>1. p \in 0..31 /\ q \in 0..31
    BY <1>1
  <2>2. \A i \in 0..4 : /\ Bit(p, i) <=> ~(Bit(a, i) <=> Bit(b, i))
                        /\ Bit(q, i) <=> ~(Bit(b, i) <=> Bit(c, i))
    BY <1>2, Zenon
  <2> HIDE DEF p, q
  <2>3. Xor5[p][c] \in 0..31 /\ Xor5[a][q] \in 0..31
    BY <1>1, <2>1
  <2>4. \A i \in 0..4 : /\ Bit(Xor5[p][c], i) <=> ~(Bit(p, i) <=> Bit(c, i))
                        /\ Bit(Xor5[a][q], i) <=> ~(Bit(a, i) <=> Bit(q, i))
    BY <1>2, <2>1, Zenon
  <2>5. \A i \in 0..4 : Bit(Xor5[p][c], i) <=> Bit(Xor5[a][q], i)
    BY <2>2, <2>4, Zenon
  <2>6. Xor5[p][c] = Xor5[a][q]
    BY <2>3, <2>5, SameFiveBits
  <2> QED
    BY <2>6 DEF p, q
<1> QED
  BY <1>1, <1>4, <1>5, <1>6, <1>7

-----------------------------------------------------------------------------
(* Addresses: states of the checksum. *)
CheckState == [1..8 -> 0..31]

LEMMA PlusLaws ==
  /\ \A c, d \in CheckState : Plus(c, d) \in CheckState
  /\ \A c, d \in CheckState : \A i \in 1..8 : Plus(c, d)[i] = Xor5[c[i]][d[i]]
  /\ \A c \in CheckState : Plus(c, Zero) = c
  /\ \A c \in CheckState : Plus(c, c) = Zero
  /\ \A c, d \in CheckState : Plus(c, d) = Plus(d, c)
  /\ \A c, d, e \in CheckState : Plus(Plus(c, d), e) = Plus(c, Plus(d, e))
<1> SUFFICES ASSUME NEW c \in CheckState, NEW d \in CheckState, NEW e \in CheckState
             PROVE  /\ Plus(c, d) \in CheckState
                    /\ \A i \in 1..8 : Plus(c, d)[i] = Xor5[c[i]][d[i]]
                    /\ Plus(c, Zero) = c
                    /\ Plus(c, c) = Zero
                    /\ Plus(c, d) = Plus(d, c)
                    /\ Plus(Plus(c, d), e) = Plus(c, Plus(d, e))
  OBVIOUS
<1>1. \A i \in 1..8 : c[i] \in 0..31 /\ d[i] \in 0..31 /\ e[i] \in 0..31
  BY DEF CheckState
<1>2. \A i \in 1..8 : Plus(c, d)[i] = Xor5[c[i]][d[i]] /\ Plus(d, e)[i] = Xor5[d[i]][e[i]]
                      /\ Plus(c, d)[i] \in 0..31
  BY <1>1, Xor5Laws DEF Plus
<1>3. Plus(c, d) \in CheckState
  BY <1>2 DEF Plus, CheckState
<1>4. c = [i \in 1..8 |-> c[i]]
  BY DEF CheckState
<1>5. Plus(c, Zero) = c
  <2>1. Plus(c, Zero) = [i \in 1..8 |-> Xor5[c[i]][0]]
    BY DEF Plus, Zero
  <2>2. \A i \in 1..8 : Xor5[c[i]][0] = c[i]
    BY <1>1, Xor5Laws
  <2> QED
    BY ONLY <1>4, <2>1, <2>2
<1>6. Plus(c, c) = Zero
  <2>2. \A i \in 1..8 : Xor5[c[i]][c[i]] = 0
    BY <1>1, Xor5Laws
  <2> QED
    BY ONLY <2>2 DEF Plus, Zero
<1>7. Plus(c, d) = Plus(d, c)
  <2>2. \A i \in 1..8 : Xor5[c[i]][d[i]] = Xor5[d[i]][c[i]]
    BY <1>1, Xor5Laws
  <2> QED
    BY ONLY <2>2 DEF Plus
<1>8. Plus(Plus(c, d), e) = Plus(c, Plus(d, e))
  <2>1. Plus(Plus(c, d), e) = [i \in 1..8 |-> Xor5[Xor5[c[i]][d[i]]][e[i]]]
    BY DEF Plus
  <2>2. Plus(c, Plus(d, e)) = [i \in 1..8 |-> Xor5[c[i]][Xor5[d[i]][e[i]]]]
    BY DEF Plus
  <2>3. \A i \in 1..8 : Xor5[Xor5[c[i]][d[i]]][e[i]] = Xor5[c[i]][Xor5[d[i]][e[i]]]
    <3>1. \A x, y, z \in 0..31 : Xor5[Xor5[x][y]][z] = Xor5[x][Xor5[y][z]]
      BY Xor5Laws
    <3> QED
      BY ONLY <1>1, <3>1
  <2> QED
    BY ONLY <2>1, <2>2, <2>3
<1> QED
  BY <1>2, <1>3, <1>5, <1>6, <1>7, <1>8

LEMMA GeneratorsTyped ==
  ASSUME NEW g \in 1..5
  PROVE  Generator[g] \in CheckState
<1>1. <<19, 3, 25, 11, 25, 3, 19, 1>> \in CheckState
  BY DEF CheckState
<1>2. <<15, 6, 27, 22, 27, 6, 15, 2>> \in CheckState
  BY DEF CheckState
<1>3. <<30, 12, 31, 5, 31, 12, 30, 4>> \in CheckState
  BY DEF CheckState
<1>4. <<21, 24, 23, 10, 23, 24, 21, 8>> \in CheckState
  BY DEF CheckState
<1>5. <<3, 25, 7, 20, 7, 25, 3, 16>> \in CheckState
  BY DEF CheckState
<1>6. g = 1 \/ g = 2 \/ g = 3 \/ g = 4 \/ g = 5
  OBVIOUS
<1> HIDE DEF CheckState
<1> QED
  BY <1>1, <1>2, <1>3, <1>4, <1>5, <1>6 DEF Generator

(* The last symbol of each generator is one bit. *)
LEMMA GeneratorsLast ==
  ASSUME NEW g \in 1..5, NEW i \in 0..4
  PROVE  Bit(Generator[g][8], i) <=> i = g - 1
<1>1. /\ Generator[1][8] = 1 /\ Generator[2][8] = 2 /\ Generator[3][8] = 4 /\ Generator[4][8] = 8
      /\ Generator[5][8] = 16
  BY DEF Generator
<1>2. /\ \A n \in {1, 2, 4, 8, 16} : /\ Bit(n, 0) <=> n = 1
                                     /\ Bit(n, 1) <=> n = 2
                                     /\ Bit(n, 2) <=> n = 4
                                     /\ Bit(n, 3) <=> n = 8
                                     /\ Bit(n, 4) <=> n = 16
  BY DEF Bit
<1>3. (g = 1 \/ g = 2 \/ g = 3 \/ g = 4 \/ g = 5) /\ (i = 0 \/ i = 1 \/ i = 2 \/ i = 3 \/ i = 4)
  OBVIOUS
<1>4. i = g - 1 <=> \/ g = 1 /\ i = 0
                    \/ g = 2 /\ i = 1
                    \/ g = 3 /\ i = 2
                    \/ g = 4 /\ i = 3
                    \/ g = 5 /\ i = 4
  OBVIOUS
<1>5. CASE g = 1
  BY <1>1, <1>2, <1>3, <1>5
<1>6. CASE g = 2
  BY <1>1, <1>2, <1>3, <1>6
<1>7. CASE g = 3
  BY <1>1, <1>2, <1>3, <1>7
<1>8. CASE g = 4
  BY <1>1, <1>2, <1>3, <1>8
<1>9. CASE g = 5
  BY <1>1, <1>2, <1>3, <1>9
<1> QED
  BY <1>3, <1>5, <1>6, <1>7, <1>8, <1>9

Chosen(x, g, chosen) == IF g \in chosen THEN Plus(x, Generator[g]) ELSE x

LEMMA ChosenAdds ==
  ASSUME NEW x \in CheckState, NEW g \in 1..5, NEW chosen
  PROVE  /\ Chosen(x, g, chosen) \in CheckState
         /\ \A i \in 0..4 : Bit(Chosen(x, g, chosen)[8], i)
                            <=> ~(Bit(x[8], i) <=> (i = g - 1 /\ g \in chosen))
<1>1. CASE g \in chosen
  <2> DEFINE y == Generator[g]
  <2>1. Chosen(x, g, chosen) = Plus(x, y)
    BY <1>1 DEF Chosen
  <2>2. y \in CheckState /\ \A i \in 0..4 : Bit(y[8], i) <=> i = g - 1
    BY GeneratorsTyped, GeneratorsLast
  <2> HIDE DEF y
  <2>3. Plus(x, y) \in CheckState /\ Plus(x, y)[8] = Xor5[x[8]][y[8]]
    BY <2>2, PlusLaws
  <2>4. x[8] \in 0..31 /\ y[8] \in 0..31
    BY <2>2 DEF CheckState
  <2>5. \A i \in 0..4 : Bit(Xor5[x[8]][y[8]], i) <=> ~(Bit(x[8], i) <=> Bit(y[8], i))
    BY <2>4, Xor5Bits
  <2> QED
    BY <1>1, <2>1, <2>2, <2>3, <2>5, Zenon
<1>2. CASE g \notin chosen
  BY <1>2, Zenon DEF Chosen
<1> QED
  BY <1>1, <1>2

LEMMA GeneratorsUnfold ==
  ASSUME NEW chosen
  PROVE  Generators(chosen) =
             Chosen(Chosen(Chosen(Chosen(Chosen(Zero, 1, chosen), 2, chosen), 3, chosen), 4, chosen), 5, chosen)
<1> DEFINE Fold(f) == [g \in 0..5 |->
                         IF g = 0 THEN Zero
                         ELSE IF g \in chosen THEN Plus(f[g - 1], Generator[g]) ELSE f[g - 1]]
           sum == CHOOSE f : f = Fold(f)
           h1 == Chosen(Zero, 1, chosen)
           h2 == Chosen(h1, 2, chosen)
           h3 == Chosen(h2, 3, chosen)
           h4 == Chosen(h3, 4, chosen)
           h5 == Chosen(h4, 5, chosen)
           h == [g \in 0..5 |-> IF g = 0 THEN Zero ELSE IF g = 1 THEN h1 ELSE IF g = 2 THEN h2
                                ELSE IF g = 3 THEN h3 ELSE IF g = 4 THEN h4 ELSE h5]
<1>1. \A f : Fold(f) = [g \in 0..5 |-> IF g = 0 THEN Zero ELSE Chosen(f[g - 1], g, chosen)]
  BY DEF Chosen
<1>2. h1 = Chosen(Zero, 1, chosen) /\ h2 = Chosen(h1, 2, chosen) /\ h3 = Chosen(h2, 3, chosen)
      /\ h4 = Chosen(h3, 4, chosen) /\ h5 = Chosen(h4, 5, chosen)
  OBVIOUS
<1> HIDE DEF h1, h2, h3, h4, h5
<1>3. h[0] = Zero /\ h[1] = h1 /\ h[2] = h2 /\ h[3] = h3 /\ h[4] = h4 /\ h[5] = h5
      /\ h = [g \in 0..5 |-> h[g]]
  OBVIOUS
<1> HIDE DEF h
<1>4. \A g \in 0..5 : h[g] = IF g = 0 THEN Zero ELSE Chosen(h[g - 1], g, chosen)
  <2> TAKE g \in 0..5
  <2>1. g = 0 \/ g = 1 \/ g = 2 \/ g = 3 \/ g = 4 \/ g = 5
    OBVIOUS
  <2>2. 1 - 1 = 0 /\ 2 - 1 = 1 /\ 3 - 1 = 2 /\ 4 - 1 = 3 /\ 5 - 1 = 4
    OBVIOUS
  <2>3. 1 # 0 /\ 2 # 0 /\ 3 # 0 /\ 4 # 0 /\ 5 # 0
    OBVIOUS
  <2> QED
    BY <1>2, <1>3, <2>1, <2>2, <2>3, Zenon
<1> HIDE DEF Fold
<1>5. h = Fold(h)
  BY ONLY <1>1, <1>3, <1>4
<1>6. sum = Fold(sum)
  BY <1>5, Zenon
<1>7. sum = [g \in 0..5 |-> IF g = 0 THEN Zero ELSE Chosen(sum[g - 1], g, chosen)]
  BY <1>1, <1>6, Zenon
<1>8. Generators(chosen) = sum[5]
  BY DEF Generators, Fold
<1> HIDE DEF sum
<1>9. /\ sum[0] = Zero
      /\ sum[1] = Chosen(sum[0], 1, chosen)
      /\ sum[2] = Chosen(sum[1], 2, chosen)
      /\ sum[3] = Chosen(sum[2], 3, chosen)
      /\ sum[4] = Chosen(sum[3], 4, chosen)
      /\ sum[5] = Chosen(sum[4], 5, chosen)
  BY ONLY <1>7
<1> QED
  BY <1>8, <1>9

(* What the symbol shifted out adds has it as its last symbol. *)
LEMMA FeedbackLast ==
  ASSUME NEW out \in 0..31
  PROVE  Feedback[out] \in CheckState /\ Feedback[out][8] = out
<1> DEFINE chosen == {g \in 1..5 : Bit(out, g - 1)}
           h1 == Chosen(Zero, 1, chosen)
           h2 == Chosen(h1, 2, chosen)
           h3 == Chosen(h2, 3, chosen)
           h4 == Chosen(h3, 4, chosen)
           h5 == Chosen(h4, 5, chosen)
<1>1. Feedback[out] = h5
  <2>1. Feedback[out] = Generators(chosen)
    BY DEF Feedback
  <2> HIDE DEF chosen
  <2> QED
    BY <2>1, GeneratorsUnfold
<1>2. (1 \in chosen <=> Bit(out, 0)) /\ (2 \in chosen <=> Bit(out, 1)) /\ (3 \in chosen <=> Bit(out, 2))
      /\ (4 \in chosen <=> Bit(out, 3)) /\ (5 \in chosen <=> Bit(out, 4))
  BY DEF Bit
<1> HIDE DEF chosen
<1>3. Zero \in CheckState /\ Zero[8] = 0
  BY DEF Zero, CheckState
<1>4. \A i \in 0..4 : ~Bit(Zero[8], i)
  <2>1. \A i \in 0..4 : i \in {0, 1, 2, 3, 4}
    OBVIOUS
  <2>2. (0 \div 2^0) % 2 = 0 /\ (0 \div 2^1) % 2 = 0 /\ (0 \div 2^2) % 2 = 0 /\ (0 \div 2^3) % 2 = 0
        /\ (0 \div 2^4) % 2 = 0 /\ 0 # 1
    OBVIOUS
  <2> QED
    BY <1>3, <2>1, <2>2 DEF Bit
<1>5. h1 \in CheckState /\ \A i \in 0..4 : Bit(h1[8], i) <=> ~(Bit(Zero[8], i) <=> (i = 1 - 1 /\ 1 \in chosen))
  BY <1>3, ChosenAdds
<1> HIDE DEF h1
<1>6. h2 \in CheckState /\ \A i \in 0..4 : Bit(h2[8], i) <=> ~(Bit(h1[8], i) <=> (i = 2 - 1 /\ 2 \in chosen))
  BY <1>5, ChosenAdds
<1> HIDE DEF h2
<1>7. h3 \in CheckState /\ \A i \in 0..4 : Bit(h3[8], i) <=> ~(Bit(h2[8], i) <=> (i = 3 - 1 /\ 3 \in chosen))
  BY <1>6, ChosenAdds
<1> HIDE DEF h3
<1>8. h4 \in CheckState /\ \A i \in 0..4 : Bit(h4[8], i) <=> ~(Bit(h3[8], i) <=> (i = 4 - 1 /\ 4 \in chosen))
  BY <1>7, ChosenAdds
<1> HIDE DEF h4
<1>9. h5 \in CheckState /\ \A i \in 0..4 : Bit(h5[8], i) <=> ~(Bit(h4[8], i) <=> (i = 5 - 1 /\ 5 \in chosen))
  BY <1>8, ChosenAdds
<1> HIDE DEF h5
<1>10. \A i \in 0..4 : Bit(h5[8], i) <=> Bit(out, i)
  <2> TAKE i \in 0..4
  <2>1. i = 0 \/ i = 1 \/ i = 2 \/ i = 3 \/ i = 4
    OBVIOUS
  <2>2. 1 - 1 = 0 /\ 2 - 1 = 1 /\ 3 - 1 = 2 /\ 4 - 1 = 3 /\ 5 - 1 = 4
    OBVIOUS
  <2>3. /\ Bit(h1[8], i) <=> ~(Bit(Zero[8], i) <=> (i = 0 /\ 1 \in chosen))
        /\ Bit(h2[8], i) <=> ~(Bit(h1[8], i) <=> (i = 1 /\ 2 \in chosen))
        /\ Bit(h3[8], i) <=> ~(Bit(h2[8], i) <=> (i = 2 /\ 3 \in chosen))
        /\ Bit(h4[8], i) <=> ~(Bit(h3[8], i) <=> (i = 3 /\ 4 \in chosen))
        /\ Bit(h5[8], i) <=> ~(Bit(h4[8], i) <=> (i = 4 /\ 5 \in chosen))
        /\ ~Bit(Zero[8], i)
    BY <1>4, <1>5, <1>6, <1>7, <1>8, <1>9, <2>2, Zenon
  <2> QED
    BY ONLY <1>2, <2>1, <2>3
<1>11. h5[8] \in 0..31
  BY <1>9 DEF CheckState
<1> QED
  BY <1>1, <1>9, <1>10, <1>11, SameFiveBits

LEMMA Xor5Cancel ==
  \A a, b, c \in 0..31 : Xor5[a][c] = Xor5[b][c] => a = b
<1> SUFFICES ASSUME NEW a \in 0..31, NEW b \in 0..31, NEW c \in 0..31, Xor5[a][c] = Xor5[b][c]
             PROVE  a = b
  OBVIOUS
<1>1. a = Xor5[Xor5[a][c]][c] /\ b = Xor5[Xor5[b][c]][c]
  <2>1. Xor5[Xor5[a][c]][c] = Xor5[a][Xor5[c][c]] /\ Xor5[Xor5[b][c]][c] = Xor5[b][Xor5[c][c]]
    BY Xor5Laws
  <2>2. Xor5[c][c] = 0 /\ Xor5[a][0] = a /\ Xor5[b][0] = b
    BY Xor5Laws
  <2> QED
    BY <2>1, <2>2
<1> QED
  BY <1>1

LEMMA PlusCancel ==
  \A c, d, e \in CheckState : Plus(c, e) = Plus(d, e) => c = d
<1> SUFFICES ASSUME NEW c \in CheckState, NEW d \in CheckState, NEW e \in CheckState,
                    Plus(c, e) = Plus(d, e)
             PROVE  c = d
  OBVIOUS
<1>1. Plus(Plus(c, e), e) = Plus(c, Plus(e, e)) /\ Plus(Plus(d, e), e) = Plus(d, Plus(e, e))
  BY PlusLaws
<1>2. Plus(e, e) = Zero /\ Plus(c, Zero) = c /\ Plus(d, Zero) = d
  BY PlusLaws
<1> QED
  BY <1>1, <1>2

Moved(c, value) == [i \in 1..8 |-> IF i = 8 THEN value ELSE c[i + 1]]

LEMMA FeedbackOfZero ==
  Feedback[0] = Zero
<1> DEFINE chosen == {g \in 1..5 : Bit(0, g - 1)}
<1>1. Feedback[0] = Generators(chosen)
  BY DEF Feedback
<1>2. chosen = {}
  <2>1. (0 \div 2^0) % 2 = 0 /\ (0 \div 2^1) % 2 = 0 /\ (0 \div 2^2) % 2 = 0 /\ (0 \div 2^3) % 2 = 0
        /\ (0 \div 2^4) % 2 = 0 /\ 0 # 1
    OBVIOUS
  <2>2. \A g \in 1..5 : g - 1 = 0 \/ g - 1 = 1 \/ g - 1 = 2 \/ g - 1 = 3 \/ g - 1 = 4
    OBVIOUS
  <2>3. \A g \in 1..5 : ~Bit(0, g - 1)
    BY <2>1, <2>2, Zenon DEF Bit
  <2> QED
    BY <2>3
<1>3. Generators({}) = Zero
  BY GeneratorsUnfold DEF Chosen
<1> HIDE DEF chosen
<1> QED
  BY <1>1, <1>2, <1>3

LEMMA ShiftedIs ==
  ASSUME NEW c \in CheckState, NEW value \in 0..31
  PROVE  /\ Moved(c, value) \in CheckState /\ c[1] \in 0..31 /\ Feedback[c[1]] \in CheckState
         /\ Shifted(c, value) = Plus(Moved(c, value), Feedback[c[1]])
         /\ Shifted(c, value) \in CheckState
<1>1. Moved(c, value) \in CheckState
  BY DEF Moved, CheckState
<1>2. c[1] \in 0..31
  BY DEF CheckState
<1>3. Feedback[c[1]] \in CheckState
  BY <1>2, FeedbackLast
<1>4. Shifted(c, value) = IF c[1] = 0 THEN Moved(c, value) ELSE Plus(Moved(c, value), Feedback[c[1]])
  BY DEF Shifted, Moved
<1>5. Plus(Moved(c, value), Zero) = Moved(c, value)
  BY <1>1, PlusLaws
<1>6. Shifted(c, value) = Plus(Moved(c, value), Feedback[c[1]])
  BY <1>4, <1>5, FeedbackOfZero
<1>7. Shifted(c, value) \in CheckState
  BY <1>1, <1>3, <1>6, PlusLaws
<1> QED
  BY <1>1, <1>2, <1>3, <1>6, <1>7

(* What is shifted in and what was there are both recovered from the outcome. *)
LEMMA ShiftedInjective ==
  ASSUME NEW c \in CheckState, NEW d \in CheckState, NEW value \in 0..31,
         Shifted(c, value) = Shifted(d, value)
  PROVE  c = d
<1> DEFINE m == Moved(c, value)
           n == Moved(d, value)
           f == Feedback[c[1]]
           g == Feedback[d[1]]
<1>1. m \in CheckState /\ f \in CheckState /\ Shifted(c, value) = Plus(m, f) /\ c[1] \in 0..31
  BY ShiftedIs
<1>2. n \in CheckState /\ g \in CheckState /\ Shifted(d, value) = Plus(n, g) /\ d[1] \in 0..31
  BY ShiftedIs
<1>3. f[8] = c[1] /\ g[8] = d[1]
  BY <1>1, <1>2, FeedbackLast
<1>4. m[8] = value /\ n[8] = value
  BY DEF Moved
<1>5. \A i \in 1..7 : m[i] = c[i + 1] /\ n[i] = d[i + 1]
  BY DEF Moved
<1>6. c[1] = d[1] => f = g
  OBVIOUS
<1> HIDE DEF m, n, f, g
<1>7. Plus(m, f)[8] = Xor5[value][c[1]] /\ Plus(n, g)[8] = Xor5[value][d[1]]
  <2>1. \A x, y \in CheckState : Plus(x, y)[8] = Xor5[x[8]][y[8]]
    BY PlusLaws
  <2> QED
    BY <1>1, <1>2, <1>3, <1>4, <2>1
<1>8. c[1] = d[1]
  <2>1. Xor5[value][c[1]] = Xor5[value][d[1]]
    BY ONLY <1>7, Shifted(c, value) = Shifted(d, value), <1>1, <1>2
  <2>2. Xor5[c[1]][value] = Xor5[d[1]][value]
    BY <1>1, <1>2, <2>1, Xor5Laws
  <2> QED
    BY <1>1, <1>2, <2>2, Xor5Cancel
<1>9. m = n
  BY <1>1, <1>2, <1>6, <1>8, PlusCancel
<1>10. \A i \in 2..8 : c[i] = d[i]
  <2> TAKE i \in 2..8
  <2>1. i - 1 \in 1..7 /\ (i - 1) + 1 = i
    OBVIOUS
  <2> QED
    BY <1>5, <1>9, <2>1
<1>11. \A i \in 1..8 : c[i] = d[i]
  BY <1>8, <1>10
<1> QED
  BY <1>11 DEF CheckState

LEMMA ShiftedTells ==
  ASSUME NEW c \in CheckState, NEW v \in 0..31, NEW w \in 0..31, Shifted(c, v) = Shifted(c, w)
  PROVE  v = w
<1>1. Moved(c, v) \in CheckState /\ Moved(c, w) \in CheckState /\ Feedback[c[1]] \in CheckState
      /\ Shifted(c, v) = Plus(Moved(c, v), Feedback[c[1]])
      /\ Shifted(c, w) = Plus(Moved(c, w), Feedback[c[1]])
  BY ShiftedIs
<1>2. Moved(c, v) = Moved(c, w)
  BY <1>1, PlusCancel
<1>3. Moved(c, v)[8] = v /\ Moved(c, w)[8] = w
  BY DEF Moved
<1> QED
  BY <1>2, <1>3

LEMMA ShiftedInOrder ==
  ASSUME NEW c \in CheckState, NEW v \in 0..31, NEW w \in 0..31,
         Shifted(Shifted(c, v), w) = Shifted(Shifted(c, w), v)
  PROVE  v = w
<1> DEFINE f == Feedback[c[1]]
           a == Shifted(c, v)
           b == Shifted(c, w)
<1>1. /\ Moved(c, v) \in CheckState /\ Moved(c, w) \in CheckState /\ f \in CheckState
      /\ a = Plus(Moved(c, v), f) /\ b = Plus(Moved(c, w), f) /\ a \in CheckState /\ b \in CheckState
  BY ShiftedIs
<1>2. Moved(c, v)[8] = v /\ Moved(c, w)[8] = w /\ Moved(c, v)[1] = Moved(c, w)[1]
  BY DEF Moved
<1> HIDE DEF f, a, b
<1>3. a[1] = b[1] /\ a[8] = Xor5[v][f[8]] /\ b[8] = Xor5[w][f[8]]
  BY <1>1, <1>2, PlusLaws
<1>4. /\ Moved(a, w) \in CheckState /\ Moved(b, v) \in CheckState /\ Feedback[a[1]] \in CheckState
      /\ Shifted(a, w) = Plus(Moved(a, w), Feedback[a[1]])
      /\ Shifted(b, v) = Plus(Moved(b, v), Feedback[b[1]])
  BY <1>1, ShiftedIs
<1>5. Shifted(a, w) = Shifted(b, v)
  BY DEF a, b
<1>6. Moved(a, w) = Moved(b, v)
  <2>1. Plus(Moved(a, w), Feedback[a[1]]) = Plus(Moved(b, v), Feedback[a[1]])
    BY <1>3, <1>4, <1>5, Zenon
  <2> QED
    BY ONLY <1>4, <2>1, PlusCancel
<1>7. Moved(a, w)[7] = a[8] /\ Moved(b, v)[7] = b[8]
  BY DEF Moved
<1>8. f[8] \in 0..31
  BY <1>1 DEF CheckState
<1>9. Xor5[v][f[8]] = Xor5[w][f[8]]
  BY <1>3, <1>6, <1>7, Zenon
<1> QED
  BY <1>8, <1>9, Xor5Cancel

-----------------------------------------------------------------------------
(* Addresses: the checksum of a text. *)

(* The states the checksum goes through. *)
Run(c, values) ==
    /\ c[0] = One
    /\ \A i \in 1..Len(values) : c[i] = Shifted(c[i - 1], values[i])

LEMMA RunExists ==
  ASSUME NEW values, Len(values) \in Nat
  PROVE  \E c : Run(c, values) /\ polymod(values) = c[Len(values)]
<1> DEFINE n == Len(values)
           Fold(f) == [i \in 0..n |-> IF i = 0 THEN One ELSE Shifted(f[i - 1], values[i])]
           Right(m) == \E f : \A i \in 0..m : f[i] = IF i = 0 THEN One ELSE Shifted(f[i - 1], values[i])
           Until == {m \in Nat : Right(m)}
           c == CHOOSE f : f = Fold(f)
<1>1. Right(0)
  <2>1. \A i \in 0..0 : i = 0
    OBVIOUS
  <2> DEFINE f == [i \in {0} |-> One]
  <2>2. f[0] = One
    OBVIOUS
  <2> HIDE DEF f
  <2>3. \A i \in 0..0 : f[i] = IF i = 0 THEN One ELSE Shifted(f[i - 1], values[i])
    BY ONLY <2>1, <2>2, Zenon
  <2> QED
    BY ONLY <2>3, Zenon
<1>2. ASSUME NEW m \in Nat, Right(m) PROVE Right(m + 1)
  <2>1. PICK f : \A i \in 0..m : f[i] = IF i = 0 THEN One ELSE Shifted(f[i - 1], values[i])
    BY <1>2
  <2> DEFINE h == [i \in 0..(m + 1) |-> IF i = m + 1 THEN Shifted(f[m], values[m + 1]) ELSE f[i]]
  <2>2. /\ \A i \in 0..m : h[i] = f[i]
        /\ h[m + 1] = Shifted(f[m], values[m + 1])
    OBVIOUS
  <2> HIDE DEF h
  <2>3. ASSUME NEW i \in 0..(m + 1)
        PROVE  h[i] = IF i = 0 THEN One ELSE Shifted(h[i - 1], values[i])
    <3>1. CASE i = m + 1
      <4>1. i # 0 /\ i - 1 = m /\ m \in 0..m
        BY ONLY <3>1, m \in Nat
      <4>2. h[i - 1] = f[m]
        BY ONLY <2>2, <4>1
      <4> QED
        BY ONLY <2>2, <3>1, <4>1, <4>2
    <3>2. CASE i # m + 1
      <4>1. i \in 0..m /\ (i # 0 => i - 1 \in 0..m)
        BY ONLY <3>2, m \in Nat, i \in 0..(m + 1)
      <4>2. h[i] = f[i] /\ (i # 0 => h[i - 1] = f[i - 1])
        BY ONLY <2>2, <4>1
      <4> QED
        BY ONLY <2>1, <4>1, <4>2
    <3> QED
      BY <3>1, <3>2
  <2> QED
    BY ONLY <2>3, Zenon
<1>3. Right(n)
  <2>1. Until \in SUBSET Nat /\ 0 \in Until
    BY <1>1
  <2>2. ASSUME NEW m \in Until PROVE m + 1 \in Until
    <3>1. m \in Nat /\ Right(m) /\ m + 1 \in Nat
      OBVIOUS
    <3> HIDE DEF Right
    <3>2. Right(m + 1)
      BY <1>2, <3>1
    <3> QED
      BY <3>1, <3>2
  <2> HIDE DEF Until
  <2>3. Until = Nat
    BY <2>1, <2>2, NatInductive
  <2> QED
    BY <2>3 DEF Until
<1>4. \E f : f = Fold(f)
  <2>1. PICK f : \A i \in 0..n : f[i] = IF i = 0 THEN One ELSE Shifted(f[i - 1], values[i])
    BY <1>3
  <2> DEFINE h == [i \in 0..n |-> f[i]]
  <2>2. /\ \A i \in 0..n : h[i] = f[i]
        /\ h = [i \in 0..n |-> h[i]]
    OBVIOUS
  <2> HIDE DEF h
  <2>3. ASSUME NEW i \in 0..n PROVE h[i] = IF i = 0 THEN One ELSE Shifted(h[i - 1], values[i])
    <3>1. i # 0 => i - 1 \in 0..n
      OBVIOUS
    <3>2. h[i] = f[i] /\ (i # 0 => h[i - 1] = f[i - 1])
      BY ONLY <2>2, <3>1, i \in 0..n
    <3> QED
      BY ONLY <2>1, <3>2, i \in 0..n
  <2>4. h = Fold(h)
    BY ONLY <2>2, <2>3
  <2> QED
    BY ONLY <2>4, Zenon
<1>5. c = Fold(c)
  BY <1>4, Zenon
<1>6. polymod(values) = c[n]
  BY DEF polymod
<1> HIDE DEF c
<1>7. Run(c, values)
  <2>1. \A i \in 0..n : c[i] = IF i = 0 THEN One ELSE Shifted(c[i - 1], values[i])
    BY ONLY <1>5
  <2>2. 0 \in 0..n /\ \A i \in 1..n : i \in 0..n /\ i # 0
    OBVIOUS
  <2> QED
    BY ONLY <2>1, <2>2, Zenon DEF Run
<1> QED
  BY <1>6, <1>7

LEMMA RunTyped ==
  ASSUME NEW values \in Seq(0..31), NEW c, Run(c, values)
  PROVE  \A i \in 0..Len(values) : c[i] \in CheckState
<1> DEFINE Until == {m \in Nat : m \in 0..Len(values) => c[m] \in CheckState}
<1>1. One \in CheckState
  BY DEF One, CheckState
<1>2. Until \in SUBSET Nat /\ 0 \in Until
  BY <1>1 DEF Run
<1>3. ASSUME NEW m \in Until PROVE m + 1 \in Until
  <2> SUFFICES ASSUME m + 1 \in 0..Len(values) PROVE c[m + 1] \in CheckState
    OBVIOUS
  <2>1. m \in Nat /\ m \in 0..Len(values) /\ m + 1 \in 1..Len(values) /\ (m + 1) - 1 = m
    BY LenProperties
  <2>2. c[m] \in CheckState
    BY <2>1
  <2>3. values[m + 1] \in 0..31
    BY <2>1, LenProperties
  <2>4. c[m + 1] = Shifted(c[m], values[m + 1])
    BY ONLY <2>1, Run(c, values) DEF Run
  <2> QED
    BY <2>2, <2>3, <2>4, ShiftedIs
<1> HIDE DEF Until
<1>4. Until = Nat
  BY <1>2, <1>3, NatInductive
<1> QED
  BY <1>4, LenProperties DEF Until

(* Texts that begin alike are at the same state; from then on what differs stays so. *)
LEMMA RunsAgree ==
  ASSUME NEW x, NEW y, NEW c, NEW d, Run(c, x), Run(d, y), Len(x) \in Nat, Len(y) \in Nat,
         NEW k \in Nat, k <= Len(x), k <= Len(y), \A i \in 1..k : x[i] = y[i]
  PROVE  c[k] = d[k]
<1> DEFINE Until == {m \in Nat : m <= k => c[m] = d[m]}
<1>1. Until \in SUBSET Nat /\ 0 \in Until
  BY DEF Run
<1>2. ASSUME NEW m \in Until PROVE m + 1 \in Until
  <2> SUFFICES ASSUME m + 1 <= k PROVE c[m + 1] = d[m + 1]
    OBVIOUS
  <2>1. m \in Nat /\ m <= k /\ m + 1 \in 1..k /\ m + 1 \in 1..Len(x) /\ m + 1 \in 1..Len(y) /\ (m + 1) - 1 = m
    OBVIOUS
  <2>2. c[m] = d[m] /\ x[m + 1] = y[m + 1]
    BY <2>1
  <2>3. c[m + 1] = Shifted(c[m], x[m + 1])
    BY ONLY <2>1, Run(c, x) DEF Run
  <2>4. d[m + 1] = Shifted(d[m], y[m + 1])
    BY ONLY <2>1, Run(d, y) DEF Run
  <2> QED
    BY ONLY <2>2, <2>3, <2>4
<1> HIDE DEF Until
<1>3. Until = Nat
  BY <1>1, <1>2, NatInductive
<1> QED
  BY <1>3 DEF Until

LEMMA RunsPart ==
  ASSUME NEW x \in Seq(0..31), NEW y \in Seq(0..31), Len(y) = Len(x), NEW c, NEW d, Run(c, x), Run(d, y),
         NEW k \in 0..Len(x), c[k] # d[k], \A i \in (k + 1)..Len(x) : x[i] = y[i]
  PROVE  c[Len(x)] # d[Len(x)]
<1> DEFINE n == Len(x)
           Until == {m \in Nat : k + m <= n => c[k + m] # d[k + m]}
<1>1. n \in Nat /\ k \in Nat
  BY LenProperties
<1>2. Until \in SUBSET Nat /\ 0 \in Until
  BY <1>1
<1>3. ASSUME NEW m \in Until PROVE m + 1 \in Until
  <2> DEFINE j == k + m
  <2> SUFFICES ASSUME j + 1 <= n PROVE c[j + 1] # d[j + 1]
    BY <1>1
  <2>1. j \in Nat /\ j <= n /\ j \in 0..n /\ j + 1 \in 1..n /\ (j + 1) - 1 = j /\ j + 1 \in (k + 1)..n
    BY <1>1
  <2>2. c[j] # d[j]
    BY <1>1, <2>1
  <2> HIDE DEF j, Until
  <2>3. x[j + 1] = y[j + 1] /\ x[j + 1] \in 0..31
    BY <2>1, LenProperties
  <2>4. c[j] \in CheckState /\ d[j] \in CheckState
    BY <2>1, RunTyped
  <2>5. c[j + 1] = Shifted(c[j], x[j + 1])
    BY ONLY <2>1, Run(c, x) DEF Run
  <2>6. d[j + 1] = Shifted(d[j], x[j + 1])
    BY ONLY <2>1, <2>3, Run(d, y), Len(y) = Len(x) DEF Run
  <2> QED
    BY <2>2, <2>3, <2>4, <2>5, <2>6, ShiftedInjective
<1> HIDE DEF Until
<1>4. Until = Nat
  BY <1>2, <1>3, NatInductive
<1>5. n - k \in Nat /\ k + (n - k) = n /\ n <= n
  BY <1>1
<1>6. n - k \in Until
  BY <1>4, <1>5
<1>7. k + (n - k) <= n => c[k + (n - k)] # d[k + (n - k)]
  BY ONLY <1>6 DEF Until
<1> QED
  BY ONLY <1>5, <1>7, Zenon

(* The checksum tells two texts of one length that differ in one symbol, or in the order of two neighbours. *)
LEMMA OneSymbolTold ==
  ASSUME NEW x \in Seq(0..31), NEW y \in Seq(0..31), Len(y) = Len(x), NEW i \in 1..Len(x), x[i] # y[i],
         \A j \in 1..Len(x) : j # i => x[j] = y[j]
  PROVE  polymod(x) # polymod(y)
<1> DEFINE n == Len(x)
<1>1. n \in Nat
  BY LenProperties
<1>2. PICK c : Run(c, x) /\ polymod(x) = c[n]
  BY <1>1, RunExists
<1>3. PICK d : Run(d, y) /\ polymod(y) = d[n]
  BY <1>1, RunExists
<1>4. i - 1 \in Nat /\ i - 1 <= n /\ i - 1 \in 0..n /\ i \in 0..n
      /\ (\A j \in 1..(i - 1) : j \in 1..n /\ j # i) /\ (\A j \in (i + 1)..n : j \in 1..n /\ j # i)
  BY <1>1
<1>5. c[i - 1] = d[i - 1]
  <2>1. \A j \in 1..(i - 1) : x[j] = y[j]
    BY <1>4
  <2> QED
    BY <1>1, <1>2, <1>3, <1>4, <2>1, RunsAgree
<1>6. c[i] = Shifted(c[i - 1], x[i]) /\ d[i] = Shifted(d[i - 1], y[i])
  BY ONLY <1>2, <1>3, Len(y) = Len(x), i \in 1..Len(x) DEF Run
<1>7. c[i - 1] \in CheckState /\ x[i] \in 0..31 /\ y[i] \in 0..31
  <2>1. c[i - 1] \in CheckState
    BY <1>2, <1>4, RunTyped
  <2> QED
    BY <2>1, LenProperties
<1>8. c[i] # d[i]
  BY <1>5, <1>6, <1>7, ShiftedTells
<1>9. \A j \in (i + 1)..n : x[j] = y[j]
  BY <1>4
<1> QED
  BY <1>2, <1>3, <1>4, <1>8, <1>9, RunsPart

LEMMA NeighboursTold ==
  ASSUME NEW x \in Seq(0..31), NEW y \in Seq(0..31), Len(y) = Len(x), NEW i \in 1..(Len(x) - 1),
         x[i] # x[i + 1], y[i] = x[i + 1], y[i + 1] = x[i],
         \A j \in 1..Len(x) : j # i /\ j # i + 1 => x[j] = y[j]
  PROVE  polymod(x) # polymod(y)
<1> DEFINE n == Len(x)
<1>1. n \in Nat
  BY LenProperties
<1>2. PICK c : Run(c, x) /\ polymod(x) = c[n]
  BY <1>1, RunExists
<1>3. PICK d : Run(d, y) /\ polymod(y) = d[n]
  BY <1>1, RunExists
<1>4. /\ i - 1 \in Nat /\ i - 1 <= n /\ i - 1 \in 0..n /\ i \in 1..n /\ i + 1 \in 1..n /\ i + 1 \in 0..n
      /\ (i + 1) - 1 = i
      /\ \A j \in 1..(i - 1) : j \in 1..n /\ j # i /\ j # i + 1
      /\ \A j \in ((i + 1) + 1)..n : j \in 1..n /\ j # i /\ j # i + 1
  BY <1>1
<1>5. c[i - 1] = d[i - 1]
  <2>1. \A j \in 1..(i - 1) : x[j] = y[j]
    BY <1>4
  <2> QED
    BY <1>1, <1>2, <1>3, <1>4, <2>1, RunsAgree
<1>6. c[i] = Shifted(c[i - 1], x[i]) /\ d[i] = Shifted(d[i - 1], y[i])
  BY ONLY <1>2, <1>3, <1>4, Len(y) = Len(x) DEF Run
<1>7. c[i + 1] = Shifted(c[i], x[i + 1]) /\ d[i + 1] = Shifted(d[i], y[i + 1])
  BY ONLY <1>2, <1>3, <1>4, Len(y) = Len(x) DEF Run
<1>8. c[i - 1] \in CheckState /\ x[i] \in 0..31 /\ x[i + 1] \in 0..31
  BY <1>2, <1>4, RunTyped, LenProperties
<1>9. c[i + 1] # d[i + 1]
  <2>1. c[i + 1] = Shifted(Shifted(c[i - 1], x[i]), x[i + 1])
    BY <1>6, <1>7
  <2>2. d[i + 1] = Shifted(Shifted(c[i - 1], x[i + 1]), x[i])
    BY <1>5, <1>6, <1>7
  <2> QED
    BY <1>8, <2>1, <2>2, ShiftedInOrder
<1>10. \A j \in ((i + 1) + 1)..n : x[j] = y[j]
  BY <1>4
<1> QED
  BY <1>2, <1>3, <1>4, <1>9, <1>10, RunsPart

-----------------------------------------------------------------------------
(* Addresses: slips. *)

LEMMA PrefixTyped ==
  ASSUME NEW net \in Prefix
  PROVE  PrefixSymbols[net] \in Seq(0..31)
<1>1. <<2, 9, 20, 3, 15, 9, 14, 3, 1, 19, 8>> \in Seq(0..31)
  OBVIOUS
<1>2. <<2, 3, 8, 20, 5, 19, 20>> \in Seq(0..31)
  OBVIOUS
<1>3. PrefixSymbols["bitcoincash"] = <<2, 9, 20, 3, 15, 9, 14, 3, 1, 19, 8>>
      /\ PrefixSymbols["bchtest"] = <<2, 3, 8, 20, 5, 19, 20>>
  BY DEF PrefixSymbols
<1>4. net = "bitcoincash" \/ net = "bchtest"
  BY DEF Prefix
<1> QED
  BY ONLY <1>1, <1>2, <1>3, <1>4, Zenon

(* What is summed: the prefix, a nought and the body. *)
Summed(net, body) == PrefixSymbols[net] \o <<0>> \o body
Lead(net) == Len(PrefixSymbols[net]) + 1

LEMMA SummedIs ==
  ASSUME NEW net \in Prefix, NEW body \in Seq(0..31)
  PROVE  /\ Summed(net, body) \in Seq(0..31)
         /\ Lead(net) \in Nat
         /\ Len(Summed(net, body)) = Lead(net) + Len(body)
         /\ \A i \in 1..Len(body) : Summed(net, body)[Lead(net) + i] = body[i]
         /\ \A i \in 1..Lead(net) : Summed(net, body)[i] = (PrefixSymbols[net] \o <<0>>)[i]
<1> DEFINE p == PrefixSymbols[net]
           q == p \o <<0>>
<1>1. p \in Seq(0..31) /\ <<0>> \in Seq(0..31) /\ Len(<<0>>) = 1
  BY PrefixTyped
<1> HIDE DEF p
<1>2. q \in Seq(0..31) /\ Len(q) = Len(p) + 1 /\ Len(p) \in Nat
  BY <1>1, ConcatProperties, LenProperties
<1> HIDE DEF q
<1>3. /\ q \o body \in Seq(0..31)
      /\ Len(q \o body) = Len(q) + Len(body)
      /\ \A i \in 1..(Len(q) + Len(body)) : (q \o body)[i] = IF i <= Len(q) THEN q[i] ELSE body[i - Len(q)]
  BY <1>2, ConcatProperties
<1>4. Len(body) \in Nat /\ Len(q) \in Nat
  BY <1>2, LenProperties
<1>5. Summed(net, body) = q \o body /\ Lead(net) = Len(q)
  BY <1>2 DEF Summed, Lead, q, p
<1>6. \A i \in 1..Len(body) : (q \o body)[Len(q) + i] = body[i]
  <2> TAKE i \in 1..Len(body)
  <2>1. Len(q) + i \in 1..(Len(q) + Len(body)) /\ ~(Len(q) + i <= Len(q)) /\ (Len(q) + i) - Len(q) = i
    BY <1>4
  <2> QED
    BY ONLY <1>3, <2>1
<1>7. \A i \in 1..Len(q) : (q \o body)[i] = q[i]
  <2> TAKE i \in 1..Len(q)
  <2>1. i \in 1..(Len(q) + Len(body)) /\ i <= Len(q)
    BY <1>4
  <2> QED
    BY ONLY <1>3, <2>1
<1>8. q = PrefixSymbols[net] \o <<0>>
  BY DEF q, p
<1> QED
  BY ONLY <1>3, <1>4, <1>5, <1>6, <1>7, <1>8, Zenon

OneWrong(x, y) ==
    \E i \in 1..Len(x) : x[i] # y[i] /\ \A j \in 1..Len(x) : j # i => x[j] = y[j]
NeighboursSwapped(x, y) ==
    \E i \in 1..(Len(x) - 1) :
        /\ x[i] # x[i + 1] /\ y[i] = x[i + 1] /\ y[i + 1] = x[i]
        /\ \A j \in 1..Len(x) : j # i /\ j # i + 1 => x[j] = y[j]

LEMMA SumTold ==
  ASSUME NEW net \in Prefix, NEW a \in Seq(0..31), NEW b \in Seq(0..31), Len(b) = Len(a),
         OneWrong(a, b) \/ NeighboursSwapped(a, b)
  PROVE  polymod(Summed(net, a)) # polymod(Summed(net, b))
<1> DEFINE x == Summed(net, a)
           y == Summed(net, b)
           n == Lead(net)
           m == Len(a)
           q == PrefixSymbols[net] \o <<0>>
<1>1. /\ x \in Seq(0..31) /\ n \in Nat /\ Len(x) = n + m
      /\ \A i \in 1..m : x[n + i] = a[i]
      /\ \A i \in 1..n : x[i] = q[i]
  BY SummedIs
<1>2. /\ y \in Seq(0..31) /\ Len(y) = n + m
      /\ \A i \in 1..m : y[n + i] = b[i]
      /\ \A i \in 1..n : y[i] = q[i]
  <2>1. /\ y \in Seq(0..31) /\ Len(y) = n + Len(b)
        /\ \A i \in 1..Len(b) : y[n + i] = b[i]
        /\ \A i \in 1..n : y[i] = q[i]
    BY SummedIs
  <2> HIDE DEF y, n, q
  <2> QED
    BY ONLY <2>1, Len(b) = Len(a), Zenon
<1>3. m \in Nat
  BY LenProperties
<1> HIDE DEF x, y, n, m, q
<1>4. \A j \in 1..Len(x) : \/ x[j] = y[j]
                           \/ j - n \in 1..m /\ x[j] = a[j - n] /\ y[j] = b[j - n]
  <2> TAKE j \in 1..Len(x)
  <2>1. j \in 1..n \/ (j - n \in 1..m /\ n + (j - n) = j)
    BY <1>1, <1>3
  <2>2. CASE j \in 1..n
    BY ONLY <1>1, <1>2, <2>2
  <2>3. CASE j - n \in 1..m /\ n + (j - n) = j
    BY ONLY <1>1, <1>2, <2>3
  <2> QED
    BY <2>1, <2>2, <2>3
<1>5. CASE OneWrong(a, b)
  <2>1. PICK i \in 1..m : a[i] # b[i] /\ \A j \in 1..m : j # i => a[j] = b[j]
    BY <1>5 DEF OneWrong, m
  <2>2. n + i \in 1..Len(x) /\ x[n + i] # y[n + i]
    BY <1>1, <1>2, <1>3, <2>1
  <2>3. \A j \in 1..Len(x) : j # n + i => x[j] = y[j]
    <3> TAKE j \in 1..Len(x)
    <3> HAVE j # n + i
    <3>1. j - n # i
      BY <1>1, <1>3
    <3> QED
      BY <1>4, <2>1, <3>1
  <2> QED
    BY <1>1, <1>2, <2>2, <2>3, OneSymbolTold DEF x, y
<1>6. CASE NeighboursSwapped(a, b)
  <2>1. PICK i \in 1..(m - 1) :
            /\ a[i] # a[i + 1] /\ b[i] = a[i + 1] /\ b[i + 1] = a[i]
            /\ \A j \in 1..m : j # i /\ j # i + 1 => a[j] = b[j]
    BY <1>6 DEF NeighboursSwapped, m
  <2>2. n + i \in 1..(Len(x) - 1) /\ i \in 1..m /\ i + 1 \in 1..m /\ (n + i) + 1 = n + (i + 1)
    BY <1>1, <1>3
  <2>3. /\ x[n + i] = a[i] /\ x[(n + i) + 1] = a[i + 1]
        /\ y[n + i] = b[i] /\ y[(n + i) + 1] = b[i + 1]
    <3>1. x[n + i] = a[i] /\ x[n + (i + 1)] = a[i + 1]
      BY ONLY <1>1, <2>2, Zenon
    <3>2. y[n + i] = b[i] /\ y[n + (i + 1)] = b[i + 1]
      BY ONLY <1>2, <2>2, Zenon
    <3> QED
      BY ONLY <2>2, <3>1, <3>2, Zenon
  <2>4. \A j \in 1..Len(x) : j # n + i /\ j # (n + i) + 1 => x[j] = y[j]
    <3> TAKE j \in 1..Len(x)
    <3> HAVE j # n + i /\ j # (n + i) + 1
    <3>1. j - n # i /\ j - n # i + 1
      BY <1>1, <1>3
    <3> QED
      BY <1>4, <2>1, <3>1
  <2> DEFINE k == n + i
  <2>5. k \in 1..(Len(x) - 1) /\ x[k] # x[k + 1] /\ y[k] = x[k + 1] /\ y[k + 1] = x[k]
        /\ \A j \in 1..Len(x) : j # k /\ j # k + 1 => x[j] = y[j]
    BY <2>1, <2>2, <2>3, <2>4
  <2> HIDE DEF k
  <2>6. polymod(x) # polymod(y)
    BY <1>1, <1>2, <2>5, NeighboursTold
  <2> QED
    BY <2>6 DEF x, y
<1> QED
  BY <1>5, <1>6

(* What is taken for an address: its symbols are of the alphabet, and their sum is one. *)
LEMMA TakenText ==
  ASSUME NEW net \in Prefix, NEW text, text.body \in Seq(0..32), decode_p2pkh_cashaddr(text, net) # <<>>
  PROVE  text.prefix = net /\ text.body \in Seq(0..31) /\ polymod(Summed(net, text.body)) = One
<1>1. /\ text.prefix = net
      /\ \A i \in DOMAIN text.body : text.body[i] # NotInAlphabet
      /\ polymod(Summed(net, text.body)) = One
  BY DEF decode_p2pkh_cashaddr, Summed
<1> DEFINE b == text.body
<1>2. Len(b) \in Nat /\ b \in [1..Len(b) -> 0..32] /\ DOMAIN b = 1..Len(b)
  BY LenProperties
<1>3. \A i \in 1..Len(b) : b[i] # 32
  BY <1>1, <1>2, Zenon DEF NotInAlphabet
<1> HIDE DEF b
<1>4. b \in [1..Len(b) -> 0..31]
  <2>1. b = [i \in 1..Len(b) |-> b[i]] /\ \A i \in 1..Len(b) : b[i] \in 0..32
    BY ONLY <1>2
  <2>2. \A i \in 1..Len(b) : b[i] \in 0..31
    <3> TAKE i \in 1..Len(b)
    <3>1. b[i] \in 0..32 /\ b[i] # 32
      BY ONLY <1>3, <2>1, i \in 1..Len(b), Zenon
    <3> QED
      BY ONLY <3>1
  <2> QED
    BY ONLY <2>1, <2>2
<1>5. b \in Seq(0..31)
  <2> DEFINE S == 0..31
  <2>1. b \in [1..Len(b) -> S]
    BY <1>4
  <2> HIDE DEF S
  <2>2. b \in Seq(S)
    BY <1>2, <2>1, SeqDef
  <2> QED
    BY <2>2 DEF S
<1> QED
  BY <1>1, <1>5 DEF b

(* An address with one character wrong, or with two different neighbours swapped, is refused. *)
THEOREM SlipRefused ==
  ASSUME NEW net \in Prefix, NEW text, NEW slip, text.body \in Seq(0..32), slip.body \in Seq(0..32),
         decode_p2pkh_cashaddr(text, net) # <<>>, Len(slip.body) = Len(text.body),
         OneWrong(text.body, slip.body) \/ NeighboursSwapped(text.body, slip.body)
  PROVE  decode_p2pkh_cashaddr(slip, net) = <<>>
<1> SUFFICES ASSUME decode_p2pkh_cashaddr(slip, net) # <<>> PROVE FALSE
  OBVIOUS
<1>1. text.body \in Seq(0..31) /\ polymod(Summed(net, text.body)) = One
  BY TakenText
<1>2. slip.body \in Seq(0..31) /\ polymod(Summed(net, slip.body)) = One
  BY TakenText
<1> QED
  BY <1>1, <1>2, SumTold

-----------------------------------------------------------------------------
(* Addresses: bits regrouped. *)

(* Bit i of data, each item of which has `from` bits. *)
BitAt(data, from, i) == i < from * Len(data) /\ Bit(data[i \div from + 1], from - 1 - (i % from))

LEMMA HornerExists ==
  ASSUME NEW n \in Nat, NEW w
  PROVE  \E v : v = [i \in 0..n |-> IF i = 0 THEN 0 ELSE 2 * v[i - 1] + w[i]]
<1> DEFINE Right(m) == \E f : \A i \in 0..m : f[i] = IF i = 0 THEN 0 ELSE 2 * f[i - 1] + w[i]
           Until == {m \in Nat : Right(m)}
<1>1. Right(0)
  <2>1. \A i \in 0..0 : i = 0
    OBVIOUS
  <2> DEFINE f == [i \in {0} |-> 0]
  <2>2. f[0] = 0
    OBVIOUS
  <2> HIDE DEF f
  <2>3. \A i \in 0..0 : f[i] = IF i = 0 THEN 0 ELSE 2 * f[i - 1] + w[i]
    BY ONLY <2>1, <2>2, Zenon
  <2> QED
    BY ONLY <2>3, Zenon
<1>2. ASSUME NEW m \in Nat, Right(m) PROVE Right(m + 1)
  <2>1. PICK f : \A i \in 0..m : f[i] = IF i = 0 THEN 0 ELSE 2 * f[i - 1] + w[i]
    BY <1>2
  <2> DEFINE h == [i \in 0..(m + 1) |-> IF i = m + 1 THEN 2 * f[m] + w[m + 1] ELSE f[i]]
  <2>2. /\ \A i \in 0..m : h[i] = f[i]
        /\ h[m + 1] = 2 * f[m] + w[m + 1]
    OBVIOUS
  <2> HIDE DEF h
  <2>3. ASSUME NEW i \in 0..(m + 1)
        PROVE  h[i] = IF i = 0 THEN 0 ELSE 2 * h[i - 1] + w[i]
    <3>1. CASE i = m + 1
      <4>1. i # 0 /\ i - 1 = m /\ m \in 0..m
        BY ONLY <3>1, m \in Nat
      <4>2. h[i - 1] = f[m]
        BY ONLY <2>2, <4>1
      <4> QED
        BY ONLY <2>2, <3>1, <4>1, <4>2
    <3>2. CASE i # m + 1
      <4>1. i \in 0..m /\ (i # 0 => i - 1 \in 0..m)
        BY ONLY <3>2, m \in Nat, i \in 0..(m + 1)
      <4>2. h[i] = f[i] /\ (i # 0 => h[i - 1] = f[i - 1])
        BY ONLY <2>2, <4>1
      <4> QED
        BY ONLY <2>1, <4>1, <4>2
    <3> QED
      BY <3>1, <3>2
  <2> QED
    BY ONLY <2>3, Zenon
<1>3. Right(n)
  <2>1. Until \in SUBSET Nat /\ 0 \in Until
    BY <1>1
  <2>2. ASSUME NEW m \in Until PROVE m + 1 \in Until
    <3>1. m \in Nat /\ Right(m) /\ m + 1 \in Nat
      OBVIOUS
    <3> HIDE DEF Right
    <3>2. Right(m + 1)
      BY <1>2, <3>1
    <3> QED
      BY <3>1, <3>2
  <2> HIDE DEF Until
  <2>3. Until = Nat
    BY <2>1, <2>2, NatInductive
  <2> QED
    BY <2>3 DEF Until
<1>4. PICK f : \A i \in 0..n : f[i] = IF i = 0 THEN 0 ELSE 2 * f[i - 1] + w[i]
  BY <1>3
<1> DEFINE h == [i \in 0..n |-> f[i]]
<1>5. /\ \A i \in 0..n : h[i] = f[i]
      /\ h = [i \in 0..n |-> h[i]]
  OBVIOUS
<1> HIDE DEF h
<1>6. ASSUME NEW i \in 0..n PROVE h[i] = IF i = 0 THEN 0 ELSE 2 * h[i - 1] + w[i]
  <2>1. i # 0 => i - 1 \in 0..n
    OBVIOUS
  <2>2. h[i] = f[i] /\ (i # 0 => h[i - 1] = f[i - 1])
    BY ONLY <1>5, <2>1, i \in 0..n
  <2> QED
    BY ONLY <1>4, <2>2, i \in 0..n
<1>7. h = [i \in 0..n |-> IF i = 0 THEN 0 ELSE 2 * h[i - 1] + w[i]]
  BY ONLY <1>5, <1>6
<1> QED
  BY ONLY <1>7, Zenon

Groups(data, from, to, pad) == (from * Len(data) + (IF pad THEN to - 1 ELSE 0)) \div to
Horner(v, n, data, from, first) ==
    /\ v[0] = 0
    /\ \A i \in 1..n : v[i] = 2 * v[i - 1] + (IF BitAt(data, from, first + i - 1) THEN 1 ELSE 0)

GroupedAs(q, data, from, to, pad) ==
    /\ convert_bits(data, from, to, pad) = [g \in 1..Groups(data, from, to, pad) |-> q[g]]
    /\ \A g \in 1..Groups(data, from, to, pad) :
          \E v : Horner(v, to, data, from, to * (g - 1)) /\ q[g] = v[to]

LEMMA GroupsAre ==
  ASSUME NEW data, NEW from, NEW to \in Nat, NEW pad
  PROVE  \E q : GroupedAs(q, data, from, to, pad)
<1> DEFINE Fold(first, v) == [i \in 0..to |->
                                IF i = 0 THEN 0
                                ELSE 2 * v[i - 1] + (IF BitAt(data, from, first + i - 1) THEN 1 ELSE 0)]
           Value(first) == CHOOSE v : v = Fold(first, v)
           n == Groups(data, from, to, pad)
           q == [g \in 1..n |-> Value(to * (g - 1))[to]]
<1>1. convert_bits(data, from, to, pad) = q
  BY DEF convert_bits, Groups, BitAt
<1>2. ASSUME NEW first PROVE Horner(Value(first), to, data, from, first)
  <2> DEFINE w == [i \in 1..to |-> IF BitAt(data, from, first + i - 1) THEN 1 ELSE 0]
             W(v) == [i \in 0..to |-> IF i = 0 THEN 0 ELSE 2 * v[i - 1] + w[i]]
  <2>1. \A v : W(v) = Fold(first, v)
    <3> TAKE v
    <3>1. \A i \in 0..to : i # 0 => w[i] = IF BitAt(data, from, first + i - 1) THEN 1 ELSE 0
      <4> TAKE i \in 0..to
      <4> HAVE i # 0
      <4>1. i \in 1..to
        OBVIOUS
      <4> QED
        BY ONLY <4>1
    <3> HIDE DEF w
    <3> QED
      BY ONLY <3>1
  <2>2. \E v : v = W(v)
    <3> HIDE DEF w
    <3> QED
      BY HornerExists
  <2> HIDE DEF W, Fold
  <2>3. \E v : v = Fold(first, v)
    BY ONLY <2>1, <2>2, Zenon
  <2> DEFINE v == Value(first)
  <2>4. v = Fold(first, v)
    BY ONLY <2>3, Zenon
  <2> HIDE DEF v
  <2>5. \A i \in 0..to : v[i] = IF i = 0 THEN 0
                                ELSE 2 * v[i - 1] + (IF BitAt(data, from, first + i - 1) THEN 1 ELSE 0)
    BY ONLY <2>4 DEF Fold
  <2>6. 0 \in 0..to /\ \A i \in 1..to : i \in 0..to /\ i # 0
    OBVIOUS
  <2>7. Horner(v, to, data, from, first)
    BY ONLY <2>5, <2>6, Zenon DEF Horner
  <2> QED
    BY ONLY <2>7 DEF v
<1> HIDE DEF Value
<1>3. \A g \in 1..n : q[g] = Value(to * (g - 1))[to]
  OBVIOUS
<1>4. q = [g \in 1..n |-> q[g]]
  OBVIOUS
<1> HIDE DEF q, n
<1>5. \A g \in 1..n : \E v : Horner(v, to, data, from, to * (g - 1)) /\ q[g] = v[to]
  BY ONLY <1>2, <1>3, Zenon
<1> QED
  BY ONLY <1>1, <1>4, <1>5, Zenon DEF n, GroupedAs

LEMMA FiveAre ==
  ASSUME NEW a \in {0, 1}, NEW b \in {0, 1}, NEW c \in {0, 1}, NEW d \in {0, 1},
         NEW e \in {0, 1},
         NEW n, n = 16 * a + 8 * b + 4 * c + 2 * d + e
  PROVE  /\ Bit(n, 4) <=> a = 1
         /\ Bit(n, 3) <=> b = 1
         /\ Bit(n, 2) <=> c = 1
         /\ Bit(n, 1) <=> d = 1
         /\ Bit(n, 0) <=> e = 1
<1>1. (n \div 2^4) % 2 = 1 <=> a = 1
  OBVIOUS
<1>2. (n \div 2^3) % 2 = 1 <=> b = 1
  OBVIOUS
<1>3. (n \div 2^2) % 2 = 1 <=> c = 1
  OBVIOUS
<1>4. (n \div 2^1) % 2 = 1 <=> d = 1
  OBVIOUS
<1>5. (n \div 2^0) % 2 = 1 <=> e = 1
  OBVIOUS
<1> QED
  BY ONLY <1>1, <1>2, <1>3, <1>4, <1>5, Zenon DEF Bit

LEMMA EightAre ==
  ASSUME NEW a \in {0, 1}, NEW b \in {0, 1}, NEW c \in {0, 1}, NEW d \in {0, 1},
         NEW e \in {0, 1}, NEW f \in {0, 1}, NEW g \in {0, 1}, NEW h \in {0, 1},
         NEW n, n = 128 * a + 64 * b + 32 * c + 16 * d + 8 * e + 4 * f + 2 * g + h
  PROVE  /\ Bit(n, 7) <=> a = 1
         /\ Bit(n, 6) <=> b = 1
         /\ Bit(n, 5) <=> c = 1
         /\ Bit(n, 4) <=> d = 1
         /\ Bit(n, 3) <=> e = 1
         /\ Bit(n, 2) <=> f = 1
         /\ Bit(n, 1) <=> g = 1
         /\ Bit(n, 0) <=> h = 1
<1>1. (n \div 2^7) % 2 = 1 <=> a = 1
  OBVIOUS
<1>2. (n \div 2^6) % 2 = 1 <=> b = 1
  OBVIOUS
<1>3. (n \div 2^5) % 2 = 1 <=> c = 1
  OBVIOUS
<1>4. (n \div 2^4) % 2 = 1 <=> d = 1
  OBVIOUS
<1>5. (n \div 2^3) % 2 = 1 <=> e = 1
  OBVIOUS
<1>6. (n \div 2^2) % 2 = 1 <=> f = 1
  OBVIOUS
<1>7. (n \div 2^1) % 2 = 1 <=> g = 1
  OBVIOUS
<1>8. (n \div 2^0) % 2 = 1 <=> h = 1
  OBVIOUS
<1> QED
  BY ONLY <1>1, <1>2, <1>3, <1>4, <1>5, <1>6, <1>7, <1>8, Zenon DEF Bit

LEMMA Horner5 ==
  ASSUME NEW v, NEW data, NEW from, NEW first, Horner(v, 5, data, from, first)
  PROVE  /\ v[5] \in 0..31
         /\ \A k \in 0..4 : Bit(v[5], 4 - k) <=> BitAt(data, from, first + k)
<1> DEFINE w == [i \in 1..5 |-> IF BitAt(data, from, first + i - 1) THEN 1 ELSE 0]
<1>1. /\ v[0] = 0
      /\ v[1] = 2 * v[0] + w[1] /\ v[2] = 2 * v[1] + w[2] /\ v[3] = 2 * v[2] + w[3]
      /\ v[4] = 2 * v[3] + w[4] /\ v[5] = 2 * v[4] + w[5]
  <2>1. /\ 1 \in 1..5 /\ 2 \in 1..5 /\ 3 \in 1..5 /\ 4 \in 1..5 /\ 5 \in 1..5
        /\ 1 - 1 = 0 /\ 2 - 1 = 1 /\ 3 - 1 = 2 /\ 4 - 1 = 3 /\ 5 - 1 = 4
    OBVIOUS
  <2>2. \A i \in 1..5 : w[i] = IF BitAt(data, from, first + i - 1) THEN 1 ELSE 0
    OBVIOUS
  <2> HIDE DEF w
  <2>3. v[0] = 0 /\ \A i \in 1..5 : v[i] = 2 * v[i - 1] + w[i]
    BY <2>2, Zenon DEF Horner
  <2> QED
    BY ONLY <2>1, <2>3
<1>2. \A i \in 1..5 : w[i] \in {0, 1} /\ (w[i] = 1 <=> BitAt(data, from, first + i - 1))
  <2> TAKE i \in 1..5
  <2>1. w[i] = IF BitAt(data, from, first + i - 1) THEN 1 ELSE 0
    OBVIOUS
  <2> HIDE DEF w
  <2> QED
    BY ONLY <2>1
<1> HIDE DEF w
<1>3. w[1] \in {0, 1} /\ w[2] \in {0, 1} /\ w[3] \in {0, 1} /\ w[4] \in {0, 1} /\ w[5] \in {0, 1}
  BY ONLY <1>2
<1> DEFINE n == v[5]
<1>4. n = 16 * w[1] + 8 * w[2] + 4 * w[3] + 2 * w[4] + w[5] /\ n \in 0..31
  BY ONLY <1>1, <1>3
<1> HIDE DEF n
<1>5. /\ Bit(n, 4) <=> w[1] = 1
      /\ Bit(n, 3) <=> w[2] = 1
      /\ Bit(n, 2) <=> w[3] = 1
      /\ Bit(n, 1) <=> w[4] = 1
      /\ Bit(n, 0) <=> w[5] = 1
  BY ONLY <1>3, <1>4, FiveAre
<1>6. \A k \in 0..4 : (Bit(n, 4 - k) <=> w[k + 1] = 1) /\ k + 1 \in 1..5
  <2>1. /\ 4 - 0 = 4 /\ 4 - 1 = 3 /\ 4 - 2 = 2 /\ 4 - 3 = 1 /\ 4 - 4 = 0
        /\ 0 + 1 = 1 /\ 1 + 1 = 2 /\ 2 + 1 = 3 /\ 3 + 1 = 4 /\ 4 + 1 = 5
    OBVIOUS
  <2>2. \A k \in 0..4 : (k = 0 \/ k = 1 \/ k = 2 \/ k = 3 \/ k = 4) /\ k + 1 \in 1..5
    OBVIOUS
  <2> QED
    BY ONLY <1>5, <2>1, <2>2, Zenon
<1>7. ASSUME NEW k \in 0..4 PROVE Bit(n, 4 - k) <=> BitAt(data, from, first + k)
  <2>1. (Bit(n, 4 - k) <=> w[k + 1] = 1) /\ k + 1 \in 1..5
    BY ONLY <1>6, k \in 0..4, Zenon
  <2>2. w[k + 1] = 1 <=> BitAt(data, from, first + k)
    <3>1. \A i \in 1..5 : w[i] = 1 <=> BitAt(data, from, first + (i - 1))
      BY ONLY <1>2, Zenon
    <3>2. (k + 1) - 1 = k
      OBVIOUS
    <3> QED
      BY ONLY <2>1, <3>1, <3>2, Zenon
  <2> QED
    BY ONLY <2>1, <2>2, Zenon
<1>8. n \in 0..31
  BY ONLY <1>4
<1> QED
  BY ONLY <1>7, <1>8, Zenon DEF n

LEMMA Horner8 ==
  ASSUME NEW v, NEW data, NEW from, NEW first, Horner(v, 8, data, from, first)
  PROVE  /\ v[8] \in 0..255
         /\ \A k \in 0..7 : Bit(v[8], 7 - k) <=> BitAt(data, from, first + k)
<1> DEFINE w == [i \in 1..8 |-> IF BitAt(data, from, first + i - 1) THEN 1 ELSE 0]
<1>1. /\ v[0] = 0
      /\ v[1] = 2 * v[0] + w[1] /\ v[2] = 2 * v[1] + w[2] /\ v[3] = 2 * v[2] + w[3]
      /\ v[4] = 2 * v[3] + w[4] /\ v[5] = 2 * v[4] + w[5] /\ v[6] = 2 * v[5] + w[6]
      /\ v[7] = 2 * v[6] + w[7] /\ v[8] = 2 * v[7] + w[8]
  <2>1. /\ 1 \in 1..8 /\ 2 \in 1..8 /\ 3 \in 1..8 /\ 4 \in 1..8 /\ 5 \in 1..8 /\ 6 \in 1..8 /\ 7 \in 1..8 /\ 8 \in 1..8
        /\ 1 - 1 = 0 /\ 2 - 1 = 1 /\ 3 - 1 = 2 /\ 4 - 1 = 3 /\ 5 - 1 = 4 /\ 6 - 1 = 5 /\ 7 - 1 = 6 /\ 8 - 1 = 7
    OBVIOUS
  <2>2. \A i \in 1..8 : w[i] = IF BitAt(data, from, first + i - 1) THEN 1 ELSE 0
    OBVIOUS
  <2> HIDE DEF w
  <2>3. v[0] = 0 /\ \A i \in 1..8 : v[i] = 2 * v[i - 1] + w[i]
    BY <2>2, Zenon DEF Horner
  <2> QED
    BY ONLY <2>1, <2>3
<1>2. \A i \in 1..8 : w[i] \in {0, 1} /\ (w[i] = 1 <=> BitAt(data, from, first + i - 1))
  <2> TAKE i \in 1..8
  <2>1. w[i] = IF BitAt(data, from, first + i - 1) THEN 1 ELSE 0
    OBVIOUS
  <2> HIDE DEF w
  <2> QED
    BY ONLY <2>1
<1> HIDE DEF w
<1>3. w[1] \in {0, 1} /\ w[2] \in {0, 1} /\ w[3] \in {0, 1} /\ w[4] \in {0, 1} /\ w[5] \in {0, 1}
      /\ w[6] \in {0, 1} /\ w[7] \in {0, 1} /\ w[8] \in {0, 1}
  BY ONLY <1>2
<1> DEFINE n == v[8]
<1>4. /\ n = 128 * w[1] + 64 * w[2] + 32 * w[3] + 16 * w[4] + 8 * w[5] + 4 * w[6] + 2 * w[7] + w[8]
      /\ n \in 0..255
  BY ONLY <1>1, <1>3
<1> HIDE DEF n
<1>5. /\ Bit(n, 7) <=> w[1] = 1
      /\ Bit(n, 6) <=> w[2] = 1
      /\ Bit(n, 5) <=> w[3] = 1
      /\ Bit(n, 4) <=> w[4] = 1
      /\ Bit(n, 3) <=> w[5] = 1
      /\ Bit(n, 2) <=> w[6] = 1
      /\ Bit(n, 1) <=> w[7] = 1
      /\ Bit(n, 0) <=> w[8] = 1
  BY ONLY <1>3, <1>4, EightAre
<1>6. \A k \in 0..7 : (Bit(n, 7 - k) <=> w[k + 1] = 1) /\ k + 1 \in 1..8
  <2>1. /\ 7 - 0 = 7 /\ 7 - 1 = 6 /\ 7 - 2 = 5 /\ 7 - 3 = 4 /\ 7 - 4 = 3 /\ 7 - 5 = 2 /\ 7 - 6 = 1 /\ 7 - 7 = 0
        /\ 0 + 1 = 1 /\ 1 + 1 = 2 /\ 2 + 1 = 3 /\ 3 + 1 = 4 /\ 4 + 1 = 5 /\ 5 + 1 = 6 /\ 6 + 1 = 7 /\ 7 + 1 = 8
    OBVIOUS
  <2>2. \A k \in 0..7 : (k = 0 \/ k = 1 \/ k = 2 \/ k = 3 \/ k = 4 \/ k = 5 \/ k = 6 \/ k = 7) /\ k + 1 \in 1..8
    OBVIOUS
  <2> QED
    BY ONLY <1>5, <2>1, <2>2, Zenon
<1>7. ASSUME NEW k \in 0..7 PROVE Bit(n, 7 - k) <=> BitAt(data, from, first + k)
  <2>1. (Bit(n, 7 - k) <=> w[k + 1] = 1) /\ k + 1 \in 1..8
    BY ONLY <1>6, k \in 0..7, Zenon
  <2>2. w[k + 1] = 1 <=> BitAt(data, from, first + k)
    <3>1. \A i \in 1..8 : w[i] = 1 <=> BitAt(data, from, first + (i - 1))
      BY ONLY <1>2, Zenon
    <3>2. (k + 1) - 1 = k
      OBVIOUS
    <3> QED
      BY ONLY <2>1, <3>1, <3>2, Zenon
  <2> QED
    BY ONLY <2>1, <2>2, Zenon
<1>8. n \in 0..255
  BY ONLY <1>4
<1> QED
  BY ONLY <1>7, <1>8, Zenon DEF n

LEMMA SameEightBits ==
  ASSUME NEW a \in 0..255, NEW b \in 0..255, \A k \in 0..7 : Bit(a, 7 - k) <=> Bit(b, 7 - k)
  PROVE  a = b
<1>1. /\ 0 \in 0..7 /\ 1 \in 0..7 /\ 2 \in 0..7 /\ 3 \in 0..7 /\ 4 \in 0..7 /\ 5 \in 0..7 /\ 6 \in 0..7 /\ 7 \in 0..7
      /\ 7 - 0 = 7 /\ 7 - 1 = 6 /\ 7 - 2 = 5 /\ 7 - 3 = 4 /\ 7 - 4 = 3 /\ 7 - 5 = 2 /\ 7 - 6 = 1 /\ 7 - 7 = 0
  OBVIOUS
<1>2. /\ (Bit(a, 0) <=> Bit(b, 0)) /\ (Bit(a, 1) <=> Bit(b, 1)) /\ (Bit(a, 2) <=> Bit(b, 2))
      /\ (Bit(a, 3) <=> Bit(b, 3)) /\ (Bit(a, 4) <=> Bit(b, 4)) /\ (Bit(a, 5) <=> Bit(b, 5))
      /\ (Bit(a, 6) <=> Bit(b, 6)) /\ (Bit(a, 7) <=> Bit(b, 7))
  BY <1>1, Zenon
<1> QED
  BY ONLY <1>2, a \in 0..255, b \in 0..255 DEF Bit

LEMMA ConvertTo5 ==
  ASSUME NEW data, Len(data) \in Nat, NEW s, s = convert_bits(data, 8, 5, TRUE),
         NEW n, n = (8 * Len(data) + 4) \div 5
  PROVE  /\ n \in Nat /\ s \in Seq(0..31) /\ Len(s) = n
         /\ \A g \in 1..n : \A k \in 0..4 : Bit(s[g], 4 - k) <=> BitAt(data, 8, 5 * (g - 1) + k)
<1>1. Groups(data, 8, 5, TRUE) = n /\ n \in Nat
  BY DEF Groups
<1>2. PICK q : /\ s = [g \in 1..n |-> q[g]]
               /\ \A g \in 1..n : \E v : Horner(v, 5, data, 8, 5 * (g - 1)) /\ q[g] = v[5]
  <2>1. 5 \in Nat
    OBVIOUS
  <2>2. \E q : GroupedAs(q, data, 8, 5, TRUE)
    BY ONLY <2>1, GroupsAre, Zenon
  <2> QED
    BY ONLY <1>1, <2>2, s = convert_bits(data, 8, 5, TRUE), Zenon DEF GroupedAs
<1>3. ASSUME NEW g \in 1..n
      PROVE  s[g] \in 0..31 /\ \A k \in 0..4 : Bit(s[g], 4 - k) <=> BitAt(data, 8, 5 * (g - 1) + k)
  <2>1. PICK v : Horner(v, 5, data, 8, 5 * (g - 1)) /\ q[g] = v[5]
    BY <1>2
  <2>2. v[5] \in 0..31 /\ \A k \in 0..4 : Bit(v[5], 4 - k) <=> BitAt(data, 8, 5 * (g - 1) + k)
    BY ONLY <2>1, Horner5
  <2>3. s[g] = v[5]
    BY <1>2, <2>1
  <2> QED
    BY ONLY <2>2, <2>3, Zenon
<1>4. s = [g \in 1..n |-> s[g]]
  BY <1>2
<1>5. Len(s) = n
  BY <1>1, <1>4, FunctionIsSeq
<1>6. s \in Seq(0..31)
  <2> DEFINE S == 0..31
  <2>1. \A g \in 1..n : s[g] \in S
    BY <1>3
  <2> HIDE DEF S
  <2>2. s \in [1..n -> S]
    BY ONLY <1>4, <2>1
  <2>3. s \in Seq(S)
    BY ONLY <1>1, <2>2, SeqDef
  <2> QED
    BY <2>3 DEF S
<1> QED
  BY ONLY <1>1, <1>3, <1>5, <1>6, Zenon

GroupsOf8(data) ==
    LET s == convert_bits(data, 5, 8, FALSE)
        n == (5 * Len(data)) \div 8
    IN /\ n \in Nat /\ s \in Seq(0..255) /\ Len(s) = n
       /\ \A g \in 1..n : \A k \in 0..7 : Bit(s[g], 7 - k) <=> BitAt(data, 5, 8 * (g - 1) + k)

LEMMA ConvertTo8 ==
  ASSUME NEW data, Len(data) \in Nat
  PROVE  GroupsOf8(data)
<1> DEFINE s == convert_bits(data, 5, 8, FALSE)
           n == (5 * Len(data)) \div 8
<1>1. Groups(data, 5, 8, FALSE) = n /\ n \in Nat
  BY DEF Groups
<1>2. PICK q : /\ s = [g \in 1..n |-> q[g]]
               /\ \A g \in 1..n : \E v : Horner(v, 8, data, 5, 8 * (g - 1)) /\ q[g] = v[8]
  <2>1. 8 \in Nat
    OBVIOUS
  <2>2. \E q : GroupedAs(q, data, 5, 8, FALSE)
    BY ONLY <2>1, GroupsAre, Zenon
  <2> QED
    BY ONLY <1>1, <2>2, Zenon DEF GroupedAs
<1> HIDE DEF s, n
<1>3. ASSUME NEW g \in 1..n
      PROVE  s[g] \in 0..255 /\ \A k \in 0..7 : Bit(s[g], 7 - k) <=> BitAt(data, 5, 8 * (g - 1) + k)
  <2>1. PICK v : Horner(v, 8, data, 5, 8 * (g - 1)) /\ q[g] = v[8]
    BY <1>2
  <2>2. v[8] \in 0..255 /\ \A k \in 0..7 : Bit(v[8], 7 - k) <=> BitAt(data, 5, 8 * (g - 1) + k)
    BY ONLY <2>1, Horner8
  <2>3. s[g] = v[8]
    BY <1>2, <2>1
  <2> QED
    BY ONLY <2>2, <2>3, Zenon
<1>4. s = [g \in 1..n |-> s[g]]
  BY <1>2
<1>5. Len(s) = n
  BY <1>1, <1>4, FunctionIsSeq
<1>6. s \in Seq(0..255)
  <2> DEFINE S == 0..255
  <2>1. \A g \in 1..n : s[g] \in S
    BY <1>3
  <2> HIDE DEF S
  <2>2. s \in [1..n -> S]
    BY ONLY <1>4, <2>1
  <2>3. s \in Seq(S)
    BY ONLY <1>1, <2>2, SeqDef
  <2> QED
    BY <2>3 DEF S
<1> QED
  BY ONLY <1>1, <1>3, <1>5, <1>6, Zenon DEF GroupsOf8, s, n

(* Bytes come back from the groups of five bits that they were made into. *)
LEMMA BytesComeBack ==
  ASSUME NEW p \in Seq(0..255), Len(p) \in {21, 33}, NEW s, s = convert_bits(p, 8, 5, TRUE)
  PROVE  /\ s \in Seq(0..31)
         /\ convert_bits(s, 5, 8, FALSE) = p
<1> DEFINE n == (8 * Len(p) + 4) \div 5
           m == (5 * n) \div 8
           q == convert_bits(s, 5, 8, FALSE)
<1>1. Len(p) \in Nat /\ n \in Nat /\ m = Len(p) /\ 8 * Len(p) <= 5 * n
  OBVIOUS
<1>2. /\ s \in Seq(0..31) /\ Len(s) = n
      /\ \A g \in 1..n : \A k \in 0..4 : Bit(s[g], 4 - k) <=> BitAt(p, 8, 5 * (g - 1) + k)
  BY <1>1, ConvertTo5
<1>3. /\ q \in Seq(0..255) /\ Len(q) = m
      /\ \A g \in 1..m : \A k \in 0..7 : Bit(q[g], 7 - k) <=> BitAt(s, 5, 8 * (g - 1) + k)
  <2>1. Len(s) \in Nat /\ m = (5 * Len(s)) \div 8
    BY <1>1, <1>2
  <2> HIDE DEF n, m, q
  <2>2. GroupsOf8(s)
    BY ONLY <2>1, ConvertTo8
  <2> QED
    BY ONLY <2>1, <2>2, Zenon DEF GroupsOf8, q
<1> HIDE DEF n, m, q
<1>4. ASSUME NEW g \in 1..m, NEW k \in 0..7
      PROVE  Bit(q[g], 7 - k) <=> Bit(p[g], 7 - k)
  <2> DEFINE i == 8 * (g - 1) + k
             a == i \div 5 + 1
             b == i % 5
  <2>1. i \in Nat /\ i < 8 * Len(p) /\ i < 5 * Len(s) /\ i \div 8 + 1 = g /\ i % 8 = k
    <3>1. g \in Nat /\ 1 <= g /\ g <= Len(p) /\ Len(s) = n
      BY ONLY <1>1, <1>2, g \in 1..m
    <3> QED
      BY ONLY <1>1, <3>1, k \in 0..7
  <2> HIDE DEF i
  <2>2. a \in 1..n /\ b \in 0..4 /\ 5 * (a - 1) + b = i
    BY <1>1, <1>2, <2>1
  <2> HIDE DEF a, b
  <2>3. Bit(s[a], 4 - b) <=> BitAt(p, 8, i)
    BY ONLY <1>2, <2>2, Zenon
  <2>4. BitAt(s, 5, i) <=> Bit(s[a], 4 - b)
    <3>1. 5 - 1 - (i % 5) = 4 - b
      BY ONLY <2>1 DEF b
    <3> QED
      BY ONLY <2>1, <3>1, Zenon DEF BitAt, a
  <2>5. BitAt(p, 8, i) <=> Bit(p[g], 7 - k)
    <3>1. 8 - 1 - (i % 8) = 7 - k
      BY ONLY <2>1, k \in 0..7
    <3> QED
      BY ONLY <2>1, <3>1, Zenon DEF BitAt
  <2>6. Bit(q[g], 7 - k) <=> BitAt(s, 5, i)
    BY ONLY <1>3, g \in 1..m, k \in 0..7, Zenon DEF i
  <2> QED
    BY ONLY <2>3, <2>4, <2>5, <2>6, Zenon
<1>5. ASSUME NEW g \in 1..m PROVE q[g] = p[g]
  <2>1. q[g] \in 0..255
    <3>1. q \in Seq(0..255)
      BY <1>3
    <3>2. q \in [1..Len(q) -> 0..255]
      BY ONLY <3>1, LenProperties
    <3> QED
      BY ONLY <1>3, <3>2, g \in 1..m
  <2>2. p[g] \in 0..255
    BY <1>1, LenProperties
  <2>3. \A k \in 0..7 : Bit(q[g], 7 - k) <=> Bit(p[g], 7 - k)
    BY <1>4
  <2> QED
    BY ONLY <2>1, <2>2, <2>3, SameEightBits
<1>6. q = [g \in 1..m |-> q[g]]
  BY <1>3, LenProperties
<1>7. p = [g \in 1..m |-> p[g]]
  BY <1>1, LenProperties
<1>8. q = p
  BY ONLY <1>5, <1>6, <1>7
<1> QED
  BY <1>2, <1>8 DEF q

-----------------------------------------------------------------------------
(* Addresses: what is written is taken. *)

LEMMA StateIsSeq ==
  ASSUME NEW c \in CheckState
  PROVE  c \in Seq(0..31) /\ Len(c) = 8
<1> DEFINE S == 0..31
<1>1. c \in [1..8 -> S]
  BY DEF CheckState
<1>2. c = [i \in 1..8 |-> c[i]] /\ 8 \in Nat
  BY DEF CheckState
<1> HIDE DEF S
<1>3. c \in Seq(S)
  BY ONLY <1>1, <1>2, SeqDef
<1>4. Len(c) = 8
  BY ONLY <1>2, FunctionIsSeq
<1> QED
  BY <1>3, <1>4 DEF S

(* What a symbol adds to the state while nothing of it has been shifted out. *)
LEMMA ShiftedPlus ==
  ASSUME NEW c \in CheckState, NEW d \in CheckState, d[1] = 0, NEW w \in 0..31
  PROVE  Shifted(Plus(c, d), w) = Plus(Shifted(c, 0), Moved(d, w)) /\ Moved(d, w) \in CheckState
<1> DEFINE s == Plus(c, d)
           a == Moved(c, 0)
           b == Moved(d, w)
           f == Feedback[c[1]]
<1>1. s \in CheckState /\ \A i \in 1..8 : s[i] = Xor5[c[i]][d[i]]
  BY PlusLaws
<1>2. 0 \in 0..31
  OBVIOUS
<1>3. a \in CheckState /\ f \in CheckState /\ Shifted(c, 0) = Plus(a, f) /\ c[1] \in 0..31
  BY <1>2, ShiftedIs
<1>4. b \in CheckState
  BY ShiftedIs
<1>5. s[1] = c[1]
  <2>1. s[1] = Xor5[c[1]][0]
    BY <1>1
  <2> QED
    BY <1>3, <2>1, Xor5Laws
<1>6. Moved(s, w) \in CheckState /\ Shifted(s, w) = Plus(Moved(s, w), Feedback[s[1]])
  BY <1>1, ShiftedIs
<1>7. \A i \in 1..8 : /\ Moved(s, w)[i] = (IF i = 8 THEN w ELSE s[i + 1])
                      /\ a[i] = (IF i = 8 THEN 0 ELSE c[i + 1])
                      /\ b[i] = (IF i = 8 THEN w ELSE d[i + 1])
  BY DEF Moved
<1> HIDE DEF s, a, b, f
<1>8. Moved(s, w) = Plus(a, b)
  <2>1. Plus(a, b) \in CheckState /\ \A i \in 1..8 : Plus(a, b)[i] = Xor5[a[i]][b[i]]
    BY <1>3, <1>4, PlusLaws
  <2>2. Xor5[0][w] = w
    BY <1>2, Xor5Laws
  <2>3. ASSUME NEW i \in 1..8 PROVE Moved(s, w)[i] = Xor5[a[i]][b[i]]
    <3>1. CASE i = 8
      BY ONLY <1>7, <2>2, <3>1, i \in 1..8
    <3>2. CASE i # 8
      <4>1. i + 1 \in 1..8
        BY ONLY <3>2, i \in 1..8
      <4>2. s[i + 1] = Xor5[c[i + 1]][d[i + 1]]
        BY ONLY <1>1, <4>1
      <4> QED
        BY ONLY <1>7, <3>2, <4>2, i \in 1..8
    <3> QED
      BY <3>1, <3>2
  <2>4. Moved(s, w) = [i \in 1..8 |-> Moved(s, w)[i]] /\ Plus(a, b) = [i \in 1..8 |-> Plus(a, b)[i]]
    BY <1>6, <2>1 DEF CheckState
  <2> QED
    BY ONLY <2>1, <2>3, <2>4
<1>9. Shifted(s, w) = Plus(Plus(a, b), f)
  BY <1>5, <1>6, <1>8 DEF f
<1>10. Plus(Plus(a, b), f) = Plus(Plus(a, f), b)
  <2>1. Plus(Plus(a, b), f) = Plus(a, Plus(b, f)) /\ Plus(Plus(a, f), b) = Plus(a, Plus(f, b))
    BY <1>3, <1>4, PlusLaws
  <2>2. Plus(b, f) = Plus(f, b)
    BY <1>3, <1>4, PlusLaws
  <2> QED
    BY <2>1, <2>2
<1> QED
  BY <1>3, <1>4, <1>9, <1>10 DEF s, b

LEMMA WithState ==
  ASSUME NEW x \in Seq(0..31), NEW c \in CheckState
  PROVE  /\ x \o c \in Seq(0..31) /\ Len(x \o c) = Len(x) + 8
         /\ \A i \in 1..(Len(x) + 8) : (x \o c)[i] = IF i <= Len(x) THEN x[i] ELSE c[i - Len(x)]
<1>1. c \in Seq(0..31) /\ Len(c) = 8
  BY StateIsSeq
<1>2. /\ x \o c \in Seq(0..31) /\ Len(x \o c) = Len(x) + Len(c)
      /\ \A i \in 1..(Len(x) + Len(c)) : (x \o c)[i] = IF i <= Len(x) THEN x[i] ELSE c[i - Len(x)]
  BY <1>1, ConcatProperties
<1> QED
  BY ONLY <1>1, <1>2, Zenon

(* The checksum with one added closes the sum of what it was taken of. *)
LEMMA ChecksumCloses ==
  ASSUME NEW x \in Seq(0..31)
  PROVE  /\ Plus(polymod(x \o Zero), One) \in CheckState
         /\ polymod(x \o Plus(polymod(x \o Zero), One)) = One
<1> DEFINE n == Len(x)
           t == polymod(x \o Zero)
           e == Plus(t, One)
           y == x \o Zero
           z == x \o e
<1>1. Zero \in CheckState /\ One \in CheckState /\ n \in Nat
  BY LenProperties DEF Zero, One, CheckState
<1>2. y \in Seq(0..31) /\ Len(y) = n + 8
      /\ (\A i \in 1..(n + 8) : y[i] = IF i <= n THEN x[i] ELSE Zero[i - n])
  BY <1>1, WithState
<1>3. PICK c : Run(c, y) /\ t = c[n + 8]
  <2>1. Len(y) \in Nat /\ Len(y) = n + 8
    BY <1>1, <1>2
  <2> HIDE DEF y, n
  <2>2. \E c : Run(c, y) /\ polymod(y) = c[Len(y)]
    BY ONLY <2>1, RunExists
  <2> QED
    BY ONLY <2>1, <2>2, Zenon DEF y
<1>4. \A i \in 0..(n + 8) : c[i] \in CheckState
  BY <1>2, <1>3, RunTyped
<1>5. t \in CheckState /\ e \in CheckState
  <2>1. n + 8 \in 0..(n + 8)
    BY <1>1
  <2>2. t \in CheckState
    BY ONLY <1>3, <1>4, <2>1
  <2> QED
    BY <1>1, <2>2, PlusLaws
<1> HIDE DEF t
<1>6. z \in Seq(0..31) /\ Len(z) = n + 8
      /\ (\A i \in 1..(n + 8) : z[i] = IF i <= n THEN x[i] ELSE e[i - n])
  <2> HIDE DEF e
  <2> QED
    BY <1>5, WithState
<1>7. PICK d : Run(d, z) /\ polymod(z) = d[n + 8]
  <2>1. Len(z) \in Nat /\ Len(z) = n + 8
    BY <1>1, <1>6
  <2> HIDE DEF z, n
  <2>2. \E d : Run(d, z) /\ polymod(z) = d[Len(z)]
    BY ONLY <2>1, RunExists
  <2> QED
    BY ONLY <2>1, <2>2, Zenon
<1> HIDE DEF n, y, z, e
<1>8. c[n] = d[n]
  <2>1. \A i \in 1..n : i \in 1..(n + 8) /\ i <= n
    BY <1>1
  <2>2. \A i \in 1..n : y[i] = z[i]
    BY ONLY <1>2, <1>6, <2>1
  <2>3. Len(y) \in Nat /\ Len(z) \in Nat /\ n <= Len(y) /\ n <= Len(z)
    BY <1>1, <1>2, <1>6
  <2> QED
    BY ONLY <1>1, <1>3, <1>7, <2>2, <2>3, RunsAgree
<1> DEFINE D(k) == [i \in 1..8 |-> IF i > 8 - k THEN e[i - (8 - k)] ELSE 0]
           Until == {k \in Nat : k <= 8 => d[n + k] = Plus(c[n + k], D(k))}
<1>9. \A i \in 1..8 : e[i] \in 0..31
  BY <1>5 DEF CheckState
<1>10. D(0) = Zero /\ D(8) = e
  <2>1. D(0) = Zero
    BY DEF Zero
  <2>2. e = [i \in 1..8 |-> e[i]]
    BY <1>5 DEF CheckState
  <2>3. D(8) = [i \in 1..8 |-> e[i]]
    OBVIOUS
  <2> QED
    BY ONLY <2>1, <2>2, <2>3
<1>11. ASSUME NEW k \in 0..7
       PROVE  D(k) \in CheckState /\ D(k)[1] = 0 /\ Moved(D(k), e[k + 1]) = D(k + 1)
  <2>1. D(k) \in CheckState
    <3>2. ASSUME NEW i \in 1..8 PROVE (IF i > 8 - k THEN e[i - (8 - k)] ELSE 0) \in 0..31
      <4>1. CASE i > 8 - k
        <5>1. i - (8 - k) \in 1..8
          BY ONLY <4>1, i \in 1..8, k \in 0..7
        <5>2. e[i - (8 - k)] \in 0..31
          BY ONLY <1>9, <5>1, Zenon
        <5> QED
          BY ONLY <4>1, <5>2
      <4>2. CASE ~(i > 8 - k)
        BY ONLY <4>2
      <4> QED
        BY ONLY <4>1, <4>2
    <3> QED
      BY ONLY <3>2 DEF CheckState
  <2>2. D(k)[1] = 0
    OBVIOUS
  <2>3. ASSUME NEW i \in 1..8
        PROVE  (IF i = 8 THEN e[k + 1] ELSE D(k)[i + 1]) = IF i > 8 - (k + 1) THEN e[i - (8 - (k + 1))] ELSE 0
    <3>1. CASE i = 8
      <4>1. i > 8 - (k + 1) /\ i - (8 - (k + 1)) = k + 1
        BY ONLY <3>1, k \in 0..7
      <4> QED
        BY ONLY <3>1, <4>1
    <3>2. CASE i # 8
      <4>1. i + 1 \in 1..8 /\ (i + 1 > 8 - k <=> i > 8 - (k + 1)) /\ (i + 1) - (8 - k) = i - (8 - (k + 1))
        BY ONLY <3>2, i \in 1..8, k \in 0..7
      <4>2. D(k)[i + 1] = IF i + 1 > 8 - k THEN e[(i + 1) - (8 - k)] ELSE 0
        BY ONLY <4>1
      <4> QED
        BY ONLY <3>2, <4>1, <4>2, Zenon
    <3> QED
      BY <3>1, <3>2
  <2>4. Moved(D(k), e[k + 1]) = D(k + 1)
    BY ONLY <2>3 DEF Moved
  <2> QED
    BY ONLY <2>1, <2>2, <2>4
<1> HIDE DEF D
<1>12. Until \in SUBSET Nat /\ 0 \in Until
  <2>1. n + 0 = n /\ n \in 0..(n + 8)
    BY <1>1
  <2>2. Plus(c[n], Zero) = c[n]
    BY <1>4, <2>1, PlusLaws
  <2>3. d[n + 0] = Plus(c[n + 0], D(0))
    BY ONLY <1>8, <1>10, <2>1, <2>2, Zenon
  <2> QED
    BY <2>3
<1>13. ASSUME NEW k \in Until PROVE k + 1 \in Until
  <2> SUFFICES ASSUME k + 1 <= 8 PROVE d[n + (k + 1)] = Plus(c[n + (k + 1)], D(k + 1))
    OBVIOUS
  <2> DEFINE j == n + k
  <2>1. k \in Nat /\ k <= 8 /\ k \in 0..7 /\ j + 1 = n + (k + 1)
        /\ j \in 0..(n + 8) /\ j + 1 \in 1..(n + 8) /\ (j + 1) - 1 = j /\ (j + 1) - n = k + 1 /\ ~(j + 1 <= n)
        /\ k + 1 \in 1..8
    BY <1>1
  <2>2. d[j] = Plus(c[j], D(k))
    BY <2>1
  <2> HIDE DEF j, Until
  <2>3. y[j + 1] = 0 /\ z[j + 1] = e[k + 1]
    <3>1. y[j + 1] = Zero[k + 1] /\ z[j + 1] = e[k + 1]
      BY ONLY <1>2, <1>6, <2>1
    <3> QED
      BY ONLY <2>1, <3>1 DEF Zero
  <2>4. c[j + 1] = Shifted(c[j], 0)
    <3>1. c[j + 1] = Shifted(c[(j + 1) - 1], y[j + 1])
      BY ONLY <1>2, <1>3, <2>1 DEF Run
    <3> QED
      BY ONLY <2>1, <2>3, <3>1, Zenon
  <2>5. d[j + 1] = Shifted(d[j], e[k + 1])
    <3>1. d[j + 1] = Shifted(d[(j + 1) - 1], z[j + 1])
      BY ONLY <1>6, <1>7, <2>1 DEF Run
    <3> QED
      BY ONLY <2>1, <2>3, <3>1, Zenon
  <2>6. c[j] \in CheckState /\ e[k + 1] \in 0..31
    BY ONLY <1>4, <1>9, <2>1
  <2>7. D(k) \in CheckState /\ D(k)[1] = 0 /\ Moved(D(k), e[k + 1]) = D(k + 1)
    BY <1>11, <2>1
  <2>8. Shifted(Plus(c[j], D(k)), e[k + 1]) = Plus(Shifted(c[j], 0), Moved(D(k), e[k + 1]))
    BY ONLY <2>6, <2>7, ShiftedPlus
  <2>9. d[j + 1] = Plus(c[j + 1], D(k + 1))
    BY ONLY <2>2, <2>4, <2>5, <2>7, <2>8, Zenon
  <2> QED
    BY ONLY <2>1, <2>9, Zenon
<1>14. d[n + 8] = Plus(c[n + 8], D(8))
  <2>1. Until = Nat
    <3> HIDE DEF Until
    <3> QED
      BY <1>12, <1>13, NatInductive
  <2>2. 8 \in Until /\ 8 <= 8
    BY <2>1
  <2> QED
    BY <2>2
<1>15. polymod(z) = Plus(t, Plus(t, One))
  BY ONLY <1>3, <1>7, <1>10, <1>14, Zenon DEF e
<1>16. Plus(t, Plus(t, One)) = One
  <2>1. Plus(Plus(t, t), One) = Plus(t, Plus(t, One)) /\ Plus(t, t) = Zero
    BY <1>1, <1>5, PlusLaws
  <2>2. Plus(Zero, One) = Plus(One, Zero) /\ Plus(One, Zero) = One
    BY <1>1, PlusLaws
  <2> QED
    BY <2>1, <2>2
<1> QED
  BY <1>5, <1>15, <1>16 DEF z, e, t

LEMMA FirstByte ==
  ASSUME NEW S \in SUBSET (0..7)
  PROVE  /\ FromBits(S) \in 0..255
         /\ S = {} => FromBits(S) = 0
         /\ 3 \in S => FromBits(S) \notin {0, 16}
<1> DEFINE a == Worth1(S, 0, 1)
           b == Worth1(S, 1, 2)
           c == Worth1(S, 2, 4)
           d == Worth1(S, 3, 8)
           e == Worth1(S, 4, 16)
           f == Worth1(S, 5, 32)
           g == Worth1(S, 6, 64)
           h == Worth1(S, 7, 128)
           n == FromBits(S)
<1>1. n = a + b + c + d + e + f + g + h
  BY BitsAdded
<1>2. /\ a \in {0, 1} /\ b \in {0, 2} /\ c \in {0, 4} /\ d \in {0, 8} /\ e \in {0, 16} /\ f \in {0, 32}
      /\ g \in {0, 64} /\ h \in {0, 128}
      /\ 3 \in S => d = 8
      /\ S = {} => a = 0 /\ b = 0 /\ c = 0 /\ d = 0 /\ e = 0 /\ f = 0 /\ g = 0 /\ h = 0
  BY DEF Worth1
<1> HIDE DEF a, b, c, d, e, f, g, h, n
<1>3. n \in 0..255
  BY ONLY <1>1, <1>2
<1>4. S = {} => n = 0
  BY ONLY <1>1, <1>2
<1>5. 3 \in S => n \notin {0, 16}
  BY ONLY <1>1, <1>2
<1> QED
  BY ONLY <1>3, <1>4, <1>5 DEF n

VersionBits(version_byte, hash) ==
    {i \in 0..7 : Bit(version_byte, i) \/ Bit(size_code(Len(hash)), i)}
Payload(version_byte, hash) == <<FromBits(VersionBits(version_byte, hash))>> \o hash

LEMMA PayloadTyped ==
  ASSUME NEW version_byte, NEW hash \in Seq(0..255), Len(hash) \in {20, 32}
  PROVE  /\ Payload(version_byte, hash) \in Seq(0..255)
         /\ Len(Payload(version_byte, hash)) = Len(hash) + 1
         /\ Payload(version_byte, hash)[1] = FromBits(VersionBits(version_byte, hash))
         /\ \A i \in 1..Len(hash) : Payload(version_byte, hash)[i + 1] = hash[i]
<1> DEFINE f == FromBits(VersionBits(version_byte, hash))
           p == <<f>> \o hash
<1>1. f \in 0..255
  <2>1. VersionBits(version_byte, hash) \in SUBSET (0..7)
    BY DEF VersionBits
  <2> DEFINE S == VersionBits(version_byte, hash)
  <2> HIDE DEF S
  <2>2. FromBits(S) \in 0..255
    BY <2>1, FirstByte DEF S
  <2> QED
    BY <2>2 DEF S
<1> HIDE DEF f
<1>2. <<f>> \in Seq(0..255) /\ Len(<<f>>) = 1 /\ <<f>>[1] = f
  BY <1>1
<1>3. /\ p \in Seq(0..255) /\ Len(p) = Len(<<f>>) + Len(hash)
      /\ \A i \in 1..(Len(<<f>>) + Len(hash)) : p[i] = IF i <= Len(<<f>>) THEN <<f>>[i] ELSE hash[i - Len(<<f>>)]
  BY <1>2, ConcatProperties
<1>4. Len(hash) \in Nat
  OBVIOUS
<1> HIDE DEF p
<1>5. Len(p) = Len(hash) + 1 /\ p[1] = f
  BY ONLY <1>2, <1>3, <1>4
<1>6. ASSUME NEW i \in 1..Len(hash) PROVE p[i + 1] = hash[i]
  <2>1. i + 1 \in 1..(1 + Len(hash)) /\ ~(i + 1 <= 1) /\ (i + 1) - 1 = i
    BY ONLY <1>4, i \in 1..Len(hash)
  <2>2. p[i + 1] = IF i + 1 <= 1 THEN <<f>>[i + 1] ELSE hash[(i + 1) - 1]
    BY ONLY <1>2, <1>3, <2>1
  <2> QED
    BY ONLY <2>1, <2>2
<1> QED
  BY ONLY <1>3, <1>5, <1>6, Zenon DEF Payload, p, f

(* Whatever the kind of address: its symbols sum to one, and its payload is read as it was written. *)
Encodes(text, version_byte, hash, prefix) ==
    /\ text.prefix = prefix
    /\ text.body \in Seq(0..31) /\ Len(text.body) >= 8
    /\ polymod(Summed(prefix, text.body)) = One
    /\ convert_bits(SubSeq(text.body, 1, Len(text.body) - 8), 5, 8, FALSE) = Payload(version_byte, hash)

LEMMA EncodedIs ==
  ASSUME NEW version_byte, NEW hash \in Seq(0..255), Len(hash) \in {20, 32}, NEW prefix \in Prefix
  PROVE  Encodes(encode_cashaddr(version_byte, hash, prefix), version_byte, hash, prefix)
<1> DEFINE text == encode_cashaddr(version_byte, hash, prefix)
           p == Payload(version_byte, hash)
           s == convert_bits(p, 8, 5, TRUE)
           q == PrefixSymbols[prefix] \o <<0>>
           t == polymod(q \o s \o Zero)
           e == Plus(t, One)
           n == Len(s)
<1>1. text = [prefix |-> prefix, body |-> s \o e]
  BY DEF encode_cashaddr, Payload, VersionBits
<1> HIDE DEF text
<1>2. s \in Seq(0..31) /\ convert_bits(s, 5, 8, FALSE) = p
  <2>1. p \in Seq(0..255) /\ Len(p) \in {21, 33}
    <3>1. p \in Seq(0..255) /\ Len(p) = Len(hash) + 1
      BY PayloadTyped
    <3> HIDE DEF p
    <3>2. \A a, b : a = b + 1 /\ b \in {20, 32} => a \in {21, 33}
      OBVIOUS
    <3> QED
      BY ONLY <3>1, <3>2, Len(hash) \in {20, 32}, Zenon
  <2> HIDE DEF p
  <2> QED
    BY <2>1, BytesComeBack
<1> HIDE DEF p, s
<1>3. q \in Seq(0..31)
  <2>1. PrefixSymbols[prefix] \in Seq(0..31) /\ <<0>> \in Seq(0..31)
    BY PrefixTyped
  <2> QED
    BY ONLY <2>1, ConcatProperties
<1> DEFINE x == q \o s
<1>4. x \in Seq(0..31)
  BY ONLY <1>2, <1>3, ConcatProperties
<1>5. e \in CheckState /\ polymod(x \o e) = One
  BY ONLY <1>4, ChecksumCloses
<1> HIDE DEF e, q
<1>6. e \in Seq(0..31) /\ Len(e) = 8
  BY ONLY <1>5, StateIsSeq
<1>7. x \o e = q \o (s \o e)
  BY ONLY <1>2, <1>3, <1>6, ConcatAssociative
<1> DEFINE body == s \o e
<1>8. /\ body \in Seq(0..31) /\ Len(body) = n + 8 /\ n \in Nat
      /\ \A i \in 1..(n + 8) : body[i] = IF i <= n THEN s[i] ELSE e[i - n]
  <2>1. /\ s \o e \in Seq(0..31) /\ Len(s \o e) = Len(s) + 8
        /\ \A i \in 1..(Len(s) + 8) : (s \o e)[i] = IF i <= Len(s) THEN s[i] ELSE e[i - Len(s)]
    BY ONLY <1>2, <1>5, WithState
  <2>2. Len(s) \in Nat
    BY <1>2, LenProperties
  <2> QED
    BY ONLY <2>1, <2>2, Zenon
<1> HIDE DEF body
<1>9. SubSeq(body, 1, Len(body) - 8) = s
  <2>1. Len(body) - 8 = n
    BY ONLY <1>8
  <2>2. SubSeq(body, 1, n) = [i \in 1..n |-> body[i]]
    BY ONLY <1>8, SMT
  <2>3. \A i \in 1..n : body[i] = s[i]
    BY ONLY <1>8
  <2>4. s = [i \in 1..n |-> s[i]]
    BY <1>2, LenProperties
  <2> HIDE DEF n
  <2> QED
    BY ONLY <2>1, <2>2, <2>3, <2>4
<1>10. text.prefix = prefix /\ text.body = body
  BY ONLY <1>1 DEF body
<1>11. polymod(Summed(prefix, body)) = One
  BY ONLY <1>5, <1>7 DEF Summed, q, body
<1>12. Len(body) >= 8
  BY ONLY <1>8
<1> QED
  BY ONLY <1>2, <1>8, <1>9, <1>10, <1>11, <1>12, Zenon DEF Encodes, p, text

(* A key address is taken for the hash it was made of. *)
THEOREM AddressComesBack ==
  ASSUME NEW hash \in Seq(0..255), Len(hash) = 20, NEW prefix \in Prefix
  PROVE  decode_p2pkh_cashaddr(encode_p2pkh_cashaddr(hash, prefix), prefix) = hash
<1> DEFINE text == encode_p2pkh_cashaddr(hash, prefix)
           p == Payload(0, hash)
<1>1. /\ text.prefix = prefix
      /\ text.body \in Seq(0..31) /\ Len(text.body) >= 8
      /\ polymod(Summed(prefix, text.body)) = One
      /\ convert_bits(SubSeq(text.body, 1, Len(text.body) - 8), 5, 8, FALSE) = p
  <2>1. text = encode_cashaddr(0, hash, prefix) /\ Len(hash) \in {20, 32}
    BY DEF encode_p2pkh_cashaddr
  <2>2. Encodes(encode_cashaddr(0, hash, prefix), 0, hash, prefix)
    BY ONLY <2>1, hash \in Seq(0..255), prefix \in Prefix, EncodedIs, Zenon
  <2> HIDE DEF text
  <2> QED
    BY ONLY <2>1, <2>2, Zenon DEF Encodes, p
<1>2. p \in Seq(0..255) /\ Len(p) = 21 /\ p[1] = 0 /\ \A i \in 1..20 : p[i + 1] = hash[i]
  <2>1. VersionBits(0, hash) = {}
    <3>1. size_code(Len(hash)) = 0
      BY DEF size_code
    <3>2. \A i \in 0..7 : i \in {0, 1, 2, 3, 4, 5, 6, 7}
      OBVIOUS
    <3>3. /\ (0 \div 2^0) % 2 = 0 /\ (0 \div 2^1) % 2 = 0 /\ (0 \div 2^2) % 2 = 0 /\ (0 \div 2^3) % 2 = 0
          /\ (0 \div 2^4) % 2 = 0 /\ (0 \div 2^5) % 2 = 0 /\ (0 \div 2^6) % 2 = 0 /\ (0 \div 2^7) % 2 = 0 /\ 0 # 1
      OBVIOUS
    <3>4. \A i \in 0..7 : ~Bit(0, i)
      BY <3>2, <3>3, Zenon DEF Bit
    <3> QED
      BY <3>1, <3>4 DEF VersionBits
  <2>2. FromBits({}) = 0
    BY FirstByte
  <2>3. /\ p \in Seq(0..255) /\ Len(p) = Len(hash) + 1 /\ p[1] = FromBits(VersionBits(0, hash))
        /\ \A i \in 1..Len(hash) : p[i + 1] = hash[i]
    BY PayloadTyped
  <2> HIDE DEF p
  <2>4. \A i \in 1..20 : p[i + 1] = hash[i]
    BY ONLY <2>3, Len(hash) = 20
  <2>5. Len(p) = 21 /\ p[1] = 0
    <3>1. Len(p) = Len(hash) + 1 /\ 20 + 1 = 21
      BY ONLY <2>3
    <3>2. p[1] = 0
      BY ONLY <2>1, <2>2, <2>3, Zenon
    <3> QED
      BY ONLY <3>1, <3>2, Len(hash) = 20, Zenon
  <2> QED
    BY ONLY <2>3, <2>4, <2>5, Zenon
<1> HIDE DEF p, text
<1>3. \A i \in DOMAIN text.body : text.body[i] # NotInAlphabet
  <2>1. text.body \in [1..Len(text.body) -> 0..31]
    BY <1>1, LenProperties
  <2>2. \A i \in DOMAIN text.body : text.body[i] \in 0..31
    BY ONLY <2>1
  <2>3. 32 \notin 0..31
    OBVIOUS
  <2> QED
    BY ONLY <2>2, <2>3, Zenon DEF NotInAlphabet
<1>4. polymod(PrefixSymbols[text.prefix] \o <<0>> \o text.body) = One
  BY <1>1 DEF Summed
<1>5. Len(p) >= 21 /\ p[1] \in {0, 16}
  BY <1>2
<1>6. decode_p2pkh_cashaddr(text, prefix) = SubSeq(p, 2, 21)
  BY ONLY <1>1, <1>3, <1>4, <1>5 DEF decode_p2pkh_cashaddr
<1>7. SubSeq(p, 2, 21) = hash
  <2>1. SubSeq(p, 2, 21) = [i \in 1..20 |-> p[i + 1]]
    BY ONLY <1>2, SMT
  <2>2. hash = [i \in 1..20 |-> hash[i]]
    BY LenProperties
  <2> QED
    BY ONLY <1>2, <2>1, <2>2
<1> QED
  BY <1>6, <1>7 DEF text

(* The address of a script is not taken. *)
LEMMA ScriptRefused ==
  ASSUME NEW version_byte, Bit(version_byte, 3), NEW hash \in Seq(0..255), Len(hash) \in {20, 32},
         NEW prefix \in Prefix, NEW net \in Prefix
  PROVE  decode_p2pkh_cashaddr(encode_cashaddr(version_byte, hash, prefix), net) = <<>>
<1> DEFINE text == encode_cashaddr(version_byte, hash, prefix)
           p == Payload(version_byte, hash)
<1>1. convert_bits(SubSeq(text.body, 1, Len(text.body) - 8), 5, 8, FALSE) = p
  <2>1. Encodes(text, version_byte, hash, prefix)
    BY EncodedIs, Zenon
  <2> HIDE DEF text
  <2> QED
    BY ONLY <2>1, Zenon DEF Encodes
<1>2. p[1] \notin {0, 16}
  <2>1. 3 \in VersionBits(version_byte, hash) /\ VersionBits(version_byte, hash) \in SUBSET (0..7)
    BY DEF VersionBits
  <2>2. FromBits(VersionBits(version_byte, hash)) \notin {0, 16}
    BY ONLY <2>1, FirstByte
  <2>3. p[1] = FromBits(VersionBits(version_byte, hash))
    BY PayloadTyped
  <2> QED
    BY ONLY <2>2, <2>3
<1> HIDE DEF text, p
<1>3. decode_p2pkh_cashaddr(text, net) = <<>>
  BY ONLY <1>1, <1>2 DEF decode_p2pkh_cashaddr
<1> QED
  BY <1>3 DEF text

-----------------------------------------------------------------------------
(* Retirement. *)

(* Key addresses that are what their hashes encode to, and other addresses of scripts. *)
AddressesRight ==
    /\ \A a \in Address : /\ a.hash \in Seq(0..255) /\ Len(a.hash) = 20
                          /\ a.text = encode_p2pkh_cashaddr(a.hash, Net)
    /\ \A text \in Other :
          \E version_byte \in Nat, hash \in Seq(0..255), prefix \in Prefix :
              /\ Bit(version_byte, 3) /\ Len(hash) \in {20, 32}
              /\ text = encode_cashaddr(version_byte, hash, prefix)
    /\ HeadAddress.hash \in Seq(0..255) /\ Len(HeadAddress.hash) = 32
    /\ HeadAddress.text.prefix \in Prefix
    /\ HeadAddress.text = encode_p2sh32_cashaddr(HeadAddress.hash, HeadAddress.text.prefix)

LEMMA ScriptAddress == Bit(11, 3)
<1>1. 2^3 = 8
  BY Powers
<1> QED
  BY <1>1 DEF Bit

LEMMA ListOver ==
  ASSUME NEW n \in Nat, NEW S, NEW s, s = [i \in 1..n |-> s[i]], \A i \in 1..n : s[i] \in S
  PROVE  s \in Seq(S) /\ Len(s) = n
<1>1. s \in [1..n -> S]
  OBVIOUS
<1>2. s \in Seq(S)
  BY <1>1, SeqDef
<1> QED
  BY <1>2, FunctionIsSeq

LEMMA AddressTaken ==
  ASSUME AddressesRight, NEW a \in Address
  PROVE  /\ decode_p2pkh_cashaddr(a.text, Net) = a.hash /\ a.hash # <<>>
         /\ a.text.prefix = Net /\ a.text.body \in Seq(0..31)
<1>1. /\ a.hash \in Seq(0..255) /\ Len(a.hash) = 20
      /\ a.text = encode_p2pkh_cashaddr(a.hash, Net) /\ Net \in Prefix
  BY SpendingAssumption DEF AddressesRight
<1>2. PICK hash : hash = a.hash
  OBVIOUS
<1>3. PICK text : text = encode_cashaddr(0, hash, Net)
  OBVIOUS
<1>4. text = a.text /\ text = encode_p2pkh_cashaddr(hash, Net)
  BY <1>1, <1>2, <1>3 DEF encode_p2pkh_cashaddr
<1>5. hash \in Seq(0..255) /\ Len(hash) = 20 /\ Len(hash) \in {20, 32}
  BY <1>1, <1>2
<1>6. decode_p2pkh_cashaddr(text, Net) = hash
  BY ONLY <1>1, <1>4, <1>5, AddressComesBack
<1>7. Encodes(text, 0, hash, Net)
  <2>1. Encodes(encode_cashaddr(0, hash, Net), 0, hash, Net)
    BY ONLY <1>1, <1>5, EncodedIs, Zenon
  <2> QED
    BY <1>3, <2>1
<1>8. text.prefix = Net /\ text.body \in Seq(0..31)
  BY ONLY <1>7 DEF Encodes
<1>9. hash # <<>>
  BY ONLY <1>5
<1> QED
  BY ONLY <1>2, <1>4, <1>6, <1>8, <1>9

(* What a slip of a text is. *)
LEMMA SlipsAre ==
  ASSUME NEW text, text.body \in Seq(0..31), text = [prefix |-> text.prefix, body |-> text.body],
         NEW slip \in Slips(text)
  PROVE  \/ slip = text
         \/ /\ slip.body \in Seq(0..32) /\ Len(slip.body) = Len(text.body)
            /\ OneWrong(text.body, slip.body) \/ NeighboursSwapped(text.body, slip.body)
<1> DEFINE b == text.body
           n == Len(b)
<1>1. n \in Nat /\ b = [i \in 1..n |-> b[i]] /\ \A i \in 1..n : b[i] \in 0..31
  BY LenProperties
<1>2. CASE \E i \in 1..n, d \in {1, 16} : slip = Mistyped(text, i, d)
  <2>1. PICK i \in 1..n, d \in {1, 16} : slip = [text EXCEPT !.body[i] = (b[i] + d) % 33]
    BY <1>2 DEF Mistyped
  <2>2. PICK v : v = (b[i] + d) % 33
    OBVIOUS
  <2>3. v \in 0..32 /\ v # b[i]
    <3>1. PICK x : x = b[i]
      OBVIOUS
    <3>2. x \in 0..31 /\ v = (x + d) % 33
      BY <1>1, <2>2, <3>1
    <3>3. ASSUME x + d < 33 PROVE v \in 0..32 /\ v # x
      <4>1. v = x + d
        BY ONLY <3>2, <3>3, d \in {1, 16}
      <4> QED
        BY ONLY <3>2, <3>3, <4>1, d \in {1, 16}
    <3>4. ASSUME x + d >= 33 PROVE v \in 0..32 /\ v # x
      <4>1. v = x + d - 33
        BY ONLY <3>2, <3>4, d \in {1, 16}
      <4> QED
        BY ONLY <3>2, <3>4, <4>1, d \in {1, 16}
    <3>5. v \in 0..32 /\ v # x
      BY ONLY <3>2, <3>3, <3>4, d \in {1, 16}
    <3> QED
      BY <3>1, <3>5
  <2> DEFINE s == [b EXCEPT ![i] = v]
  <2>4. slip.body = s
    BY <2>1, <2>2
  <2>5. s = [j \in 1..n |-> IF j = i THEN v ELSE b[j]]
    BY <1>1
  <2> HIDE DEF b, n
  <2>6. s[i] = v /\ \A j \in 1..n : j # i => s[j] = b[j]
    BY <2>5
  <2> HIDE DEF s
  <2>7. s = [j \in 1..n |-> s[j]] /\ \A j \in 1..n : s[j] \in 0..32
    <3>1. s = [j \in 1..n |-> s[j]]
      BY <2>5
    <3>2. ASSUME NEW j \in 1..n PROVE s[j] \in 0..32
      <4>1. b[j] \in 0..32
        <5>1. b[j] \in 0..31
          BY <1>1
        <5> QED
          BY <5>1
      <4> QED
        BY <2>3, <2>6, <4>1
    <3> QED
      BY <3>1, <3>2
  <2>8. s \in Seq(0..32) /\ Len(s) = n
    <3> DEFINE S == 0..32
    <3>1. n \in Nat /\ s = [j \in 1..n |-> s[j]] /\ \A j \in 1..n : s[j] \in S
      BY <1>1, <2>7
    <3> HIDE DEF S
    <3>2. s \in Seq(S) /\ Len(s) = n
      BY ONLY <3>1, ListOver
    <3> QED
      BY <3>2 DEF S
  <2>9. OneWrong(b, s)
    BY <2>3, <2>6 DEF OneWrong, n
  <2> QED
    BY <2>4, <2>8, <2>9 DEF b, n
<1>3. CASE \E i \in 1..(n - 1) : slip = Swapped(text, i)
  <2>1. PICK i \in 1..(n - 1) : slip = [text EXCEPT !.body[i] = b[i + 1], !.body[i + 1] = b[i]]
    BY <1>3 DEF Swapped
  <2> DEFINE s == [b EXCEPT ![i] = b[i + 1], ![i + 1] = b[i]]
  <2>2. slip.body = s /\ slip = [prefix |-> text.prefix, body |-> s]
    BY <2>1
  <2>3. s = [j \in 1..n |-> IF j = i + 1 THEN b[i] ELSE IF j = i THEN b[i + 1] ELSE b[j]]
    BY <1>1
  <2> HIDE DEF b, n
  <2>4. i \in 1..n /\ i + 1 \in 1..n /\ i # i + 1
    BY <1>1
  <2>5. /\ s[i] = b[i + 1] /\ s[i + 1] = b[i]
        /\ \A j \in 1..n : j # i /\ j # i + 1 => s[j] = b[j]
    BY <2>3, <2>4
  <2> HIDE DEF s
  <2>6. s = [j \in 1..n |-> s[j]]
    BY <2>3
  <2>7. CASE b[i] = b[i + 1]
    <3>1. \A j \in 1..n : s[j] = b[j]
      BY <2>5, <2>7
    <3>2. s = b
      BY <1>1, <2>6, <3>1
    <3> QED
      BY <2>2, <3>2 DEF b
  <2>8. CASE b[i] # b[i + 1]
    <3>1. ASSUME NEW j \in 1..n PROVE s[j] \in 0..32
      <4>1. b[j] \in 0..31 /\ b[i] \in 0..31 /\ b[i + 1] \in 0..31
        BY <1>1, <2>4
      <4>2. s[j] \in 0..31
        BY <2>5, <4>1
      <4> QED
        BY <4>2
    <3>2. s \in Seq(0..32) /\ Len(s) = n
      <4> DEFINE S == 0..32
      <4>1. n \in Nat /\ s = [j \in 1..n |-> s[j]] /\ \A j \in 1..n : s[j] \in S
        BY <1>1, <2>6, <3>1
      <4> HIDE DEF S
      <4>2. s \in Seq(S) /\ Len(s) = n
        BY ONLY <4>1, ListOver
      <4> QED
        BY <4>2 DEF S
    <3>3. NeighboursSwapped(b, s)
      BY <2>5, <2>8 DEF NeighboursSwapped, n
    <3> QED
      BY <2>2, <3>2, <3>3 DEF b, n
  <2> QED
    BY <2>7, <2>8
<1>4. Slips(text) = {Mistyped(text, i, d) : i \in DOMAIN b, d \in {1, 16}} \cup {Swapped(text, i) : i \in 1..(n - 1)}
  BY DEF Slips
<1> HIDE DEF b, n
<1>5. \/ \E i \in 1..n, d \in {1, 16} : slip = Mistyped(text, i, d)
      \/ \E i \in 1..(n - 1) : slip = Swapped(text, i)
  BY <1>1, <1>4
<1> QED
  BY <1>2, <1>3, <1>5 DEF b, n

(* Of all that is typed, only what a wallet showed is taken, and for the hash that it meant. *)
LEMMA TakenIsMeant ==
  ASSUME AddressesRight, NEW text \in TakenTexts
  PROVE  \E a \in Address : text = a.text /\ decode_p2pkh_cashaddr(text, Net) = a.hash
<1>1. text \in Typed /\ decode_p2pkh_cashaddr(text, Net) # <<>>
  BY DEF TakenTexts
<1>2. Net \in Prefix
  BY SpendingAssumption
<1>3. text \notin Other
  <2> SUFFICES ASSUME text \in Other PROVE FALSE
    OBVIOUS
  <2>1. PICK version_byte \in Nat, hash \in Seq(0..255), prefix \in Prefix :
          /\ Bit(version_byte, 3) /\ Len(hash) \in {20, 32}
          /\ text = encode_cashaddr(version_byte, hash, prefix)
    BY DEF AddressesRight
  <2>2. decode_p2pkh_cashaddr(encode_cashaddr(version_byte, hash, prefix), Net) = <<>>
    BY ONLY <1>2, <2>1, ScriptRefused
  <2> QED
    BY <1>1, <2>1, <2>2
<1>4. text # HeadAddress.text
  <2> SUFFICES ASSUME text = HeadAddress.text PROVE FALSE
    OBVIOUS
  <2>1. PICK hash, prefix : hash = HeadAddress.hash /\ prefix = HeadAddress.text.prefix
    OBVIOUS
  <2>2. /\ hash \in Seq(0..255) /\ Len(hash) \in {20, 32} /\ prefix \in Prefix
        /\ text = encode_cashaddr(11, hash, prefix)
    BY <2>1 DEF AddressesRight, encode_p2sh32_cashaddr
  <2>3. decode_p2pkh_cashaddr(encode_cashaddr(11, hash, prefix), Net) = <<>>
    BY ONLY <1>2, <2>2, ScriptAddress, ScriptRefused
  <2> QED
    BY <1>1, <2>2, <2>3
<1>5. ASSUME NEW a \in Address, text \in Slips(a.text) PROVE text = a.text
  <2>1. /\ decode_p2pkh_cashaddr(a.text, Net) # <<>> /\ a.text.body \in Seq(0..31)
    BY AddressTaken
  <2>2. a.text = [prefix |-> a.text.prefix, body |-> a.text.body]
    <3>1. \A x, y : LET z == [prefix |-> x, body |-> y] IN z = [prefix |-> z.prefix, body |-> z.body]
      OBVIOUS
    <3>2. PICK hash : hash = a.hash
      OBVIOUS
    <3>3. a.text = encode_cashaddr(0, hash, Net)
      BY <3>2 DEF AddressesRight, encode_p2pkh_cashaddr
    <3>4. \E x, y : encode_cashaddr(0, hash, Net) = [prefix |-> x, body |-> y]
      BY Zenon DEF encode_cashaddr
    <3> QED
      BY <3>1, <3>3, <3>4
  <2>3. PICK whole : whole = a.text
    OBVIOUS
  <2>4. /\ decode_p2pkh_cashaddr(whole, Net) # <<>> /\ whole.body \in Seq(0..31)
        /\ whole = [prefix |-> whole.prefix, body |-> whole.body] /\ text \in Slips(whole)
    BY <1>5, <2>1, <2>2, <2>3
  <2>5. \/ text = whole
        \/ /\ text.body \in Seq(0..32) /\ Len(text.body) = Len(whole.body)
           /\ OneWrong(whole.body, text.body) \/ NeighboursSwapped(whole.body, text.body)
    BY ONLY <2>4, SlipsAre
  <2>6. whole.body \in Seq(0..32)
    <3>1. 0..31 \subseteq 0..32
      OBVIOUS
    <3>2. PICK b : b = whole.body
      OBVIOUS
    <3>3. b \in Seq(0..31)
      BY <2>4, <3>2
    <3>4. b \in Seq(0..32)
      BY ONLY <3>1, <3>3
    <3> QED
      BY <3>2, <3>4
  <2>7. CASE text # whole
    <3>1. decode_p2pkh_cashaddr(text, Net) = <<>>
      BY ONLY <1>2, <2>4, <2>5, <2>6, <2>7, SlipRefused
    <3> QED
      BY <1>1, <3>1
  <2> QED
    BY <2>3, <2>7
<1>6. PICK a \in Address : text = a.text
  BY <1>1, <1>3, <1>4, <1>5 DEF Typed
<1> QED
  BY <1>6, AddressTaken

(* A rotation leaves the head at the lock that it names. *)
LEMMA RotatedTo ==
  ASSUME NEW head, NEW lock, NEW tail, NEW count,
         NEW r, r = Rotated(head, lock, tail, count), r # Refused
  PROVE  r[1].tx.outputs[1].locking_script = lock
<1> DEFINE a == Approvals(count, head, lock, tail)
           placed == place_approvals(table, head.commit.table_hash, Reversed(head.category), lock, tail, a)
           state == Slice(head.raw, 0, SNAPSHOT_LEN)
           ins == <<HeadInput(head, oracle_lock, RotateUnlock(placed, table, oracle_redeem))>>
                  \o [i \in DOMAIN <<>> |-> CoinInput(<<>>[i])]
           token == Token(head.category, MINTING, state \o tail)
           o == Paid(0, lock, token)
           draft == Draft(ins, <<o>>, 0)
           fee == fee_of(draft)
           left == Total(ins) - fee - 0
<1>1. r = rotate_generic(head, state, oracle_lock, oracle_redeem, table, placed, lock, tail, <<>>)
  BY DEF Rotated, build_rotate
<1> HIDE DEF placed, state
<1>2. r = SpendHead(ins, draft, 0, P2PKH_DUST)
  BY <1>1 DEF rotate_generic
<1> HIDE DEF ins, o
<1>3. draft.outputs = <<o>>
  BY DEF Draft
<1> HIDE DEF draft
<1>4. r = Finish(draft, ins, 1, left, fee)
  BY <1>2 DEF SpendHead
<1> HIDE DEF fee, left
<1> DEFINE paid == [draft EXCEPT !.outputs[1].value = left]
           tx == sign_p2pkh_inputs(paid, ins)
<1>5. r[1].tx = tx
  BY <1>4 DEF Finish, Encoded
<1>6. o.locking_script = lock /\ o = [value |-> 0, locking_script |-> lock, token |-> token]
  BY DEF o, Paid
<1>7. paid.outputs[1].locking_script = lock
  BY <1>3, <1>6 DEF draft, Draft
<1> HIDE DEF paid
<1>8. tx.outputs = paid.outputs
  BY DEF sign_p2pkh_inputs
<1> QED
  BY <1>5, <1>7, <1>8

(* The invariant: the head that is retired goes where the text that was typed leads. *)
Retires ==
    job.kind = "retire" =>
        \E text \in TakenTexts : /\ job.typed = text
                                 /\ job.built.tx.outputs[1].locking_script = RetireLock(text)

LEMMA NothingRetires == Nothing.kind # "retire"
  BY DEF Nothing

LEMMA OtherJobRetires ==
  ASSUME NEW kind, kind # "retire", NEW r, NEW next, NEW typed, Builds(kind, r, next, typed)
  PROVE  Retires'
<1>1. job'.kind = kind
  BY DEF Builds
<1> QED
  BY <1>1 DEF Retires

LEMMA RetireRetires == Retire => Retires'
<1> SUFFICES ASSUME Retire PROVE Retires'
  OBVIOUS
<1>1. PICK head \in find_head, text \in TakenTexts :
        Builds("retire", Rotated(head, RetireLock(text), <<>>, Len(table) \div 2 + 1), table, text)
  BY DEF Retire
<1>2. PICK count : count = Len(table) \div 2 + 1
  OBVIOUS
<1>3. PICK lock : lock = RetireLock(text)
  OBVIOUS
<1>4. PICK r : r = Rotated(head, lock, <<>>, count)
  OBVIOUS
<1>5. PICK t : t = table
  OBVIOUS
<1>6. Builds("retire", r, t, text)
  BY <1>1, <1>2, <1>3, <1>4, <1>5
<1>7. r # Refused /\ job'.typed = text /\ job'.built = r[1]
  BY <1>6 DEF Builds
<1>8. r[1].tx.outputs[1].locking_script = lock
  BY <1>4, <1>7, RotatedTo
<1> QED
  BY <1>3, <1>7, <1>8 DEF Retires

LEMMA NextRetires == Retires /\ [Next]_vars => Retires'
<1> SUFFICES ASSUME Retires, [Next]_vars PROVE Retires'
  OBVIOUS
<1>1. ASSUME NEW kind \in {"genesis", "self-spend", "update", "table", "migrate"},
             \E r, next, typed : Builds(kind, r, next, typed)
      PROVE  Retires'
  <2>1. kind # "retire"
    OBVIOUS
  <2> QED
    BY <1>1, <2>1, OtherJobRetires
<1>2. CASE Genesis
  <2>1. \/ \E r, next, typed : Builds("genesis", r, next, typed)
        \/ \E r, next, typed : Builds("self-spend", r, next, typed)
    BY <1>2, Zenon DEF Genesis
  <2> QED
    BY <1>1, <2>1
<1>3. CASE Update
  <2>1. \E r, next, typed : Builds("update", r, next, typed)
    BY <1>3, Zenon DEF Update
  <2> QED
    BY <1>1, <2>1
<1>4. CASE ChangeTable
  <2>1. \E r, next, typed : Builds("table", r, next, typed)
    BY <1>4, Zenon DEF ChangeTable
  <2> QED
    BY <1>1, <2>1
<1>5. CASE Retire
  BY <1>5, RetireRetires
<1>6. CASE Migrate
  <2>1. \E r, next, typed : Builds("migrate", r, next, typed)
    BY <1>6, Zenon DEF Migrate
  <2> QED
    BY <1>1, <2>1
<1>7. CASE Broadcast
  BY <1>7, NothingRetires DEF Broadcast, Retires
<1>8. CASE Tick
  BY <1>8, NothingRetires DEF Tick, Retires
<1>9. CASE UNCHANGED vars
  BY <1>9 DEF vars, Retires
<1> QED
  BY <1>2, <1>3, <1>4, <1>5, <1>6, <1>7, <1>8, <1>9 DEF Next

(* If the addresses that wallets show are what CashAddr makes of their hashes, a head is retired  *)
(* only to the hash that was meant, whatever character or neighbours were mistyped; the address  *)
(* of a script is not taken.  For every set of addresses, with whatever else the commands build. *)
THEOREM AlwaysAddressHolds ==
  ASSUME AddressesRight
  PROVE  Spec => []AddressHolds
<1>1. Init => Retires
  BY NothingRetires DEF Init, Retires
<1>2. Retires => AddressHolds
  <2> SUFFICES ASSUME Retires PROVE AddressHolds
    OBVIOUS
  <2>1. ASSUME job.kind = "retire"
        PROVE  \E a \in Address :
                 /\ job.typed = a.text
                 /\ job.built.tx.outputs[1].locking_script
                      = p2pkh_locking_script(Piece(20, "address", a.hash))
    <3>1. PICK text \in TakenTexts : /\ job.typed = text
                                     /\ job.built.tx.outputs[1].locking_script = RetireLock(text)
      BY <2>1 DEF Retires
    <3>2. PICK a \in Address : text = a.text /\ decode_p2pkh_cashaddr(text, Net) = a.hash
      BY TakenIsMeant
    <3> QED
      BY <3>1, <3>2 DEF RetireLock
  <2>2. \A a \in Address : /\ decode_p2pkh_cashaddr(a.text, Net) = a.hash
                           /\ encode_p2pkh_cashaddr(a.hash, Net) = a.text
    BY AddressTaken DEF AddressesRight
  <2>3. encode_p2sh32_cashaddr(HeadAddress.hash, HeadAddress.text.prefix) = HeadAddress.text
    BY DEF AddressesRight
  <2> QED
    BY <2>1, <2>2, <2>3 DEF AddressHolds
<1> QED
  BY <1>1, <1>2, NextRetires, PTL DEF Spec
=============================================================================
