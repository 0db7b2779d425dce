----------------------------- MODULE FiniteSums -----------------------------
(***************************************************************************)
(* Induction, and the sum of a weight over a finite set.                   *)
(*                                                                         *)
(* The library's induction theorems take a predicate; the two stated here  *)
(* take the set of what satisfies it, so that they can be used by name.    *)
(***************************************************************************)
EXTENDS Integers, FiniteSetTheorems, WellFoundedInduction, TLAPS

LEMMA NatLeast ==
  ASSUME NEW T \in SUBSET Nat, T # {}
  PROVE  \E x \in T : \A y \in T : x <= y
<1>1. \E x \in T : \A y \in T : ~(<<y, x>> \in OpToRel(<, Nat))
  BY WFMin, NatLessThanWellFounded
<1>2. PICK x \in T : \A y \in T : ~(y < x)
  BY <1>1 DEF OpToRel
<1> QED
  BY <1>2

LEMMA NatInductive ==
  ASSUME NEW S \in SUBSET Nat, 0 \in S, \A n \in S : n + 1 \in S
  PROVE  S = Nat
<1> SUFFICES ASSUME S # Nat PROVE FALSE
  OBVIOUS
<1> DEFINE T == Nat \ S
<1>1. T # {} /\ T \subseteq Nat
  OBVIOUS
<1> HIDE DEF T
<1>2. PICK x \in T : \A y \in T : x <= y
  BY <1>1, NatLeast
<1>3. x # 0 /\ x - 1 \in Nat
  BY <1>1 DEF T
<1>4. x - 1 \in S
  BY <1>2, <1>3 DEF T
<1>5. x - 1 + 1 \in S
  BY <1>4
<1> QED
  BY <1>3, <1>5 DEF T

(* What holds of {} and of a set with one more element holds of every finite set. *)
LEMMA SetInductive ==
  ASSUME NEW S, IsFiniteSet(S), NEW Good \in SUBSET SUBSET S, {} \in Good,
         \A T \in Good : \A x \in S : T \cup {x} \in Good
  PROVE  Good = SUBSET S
<1> DEFINE Upto == {n \in Nat : \A T \in SUBSET S : Cardinality(T) = n => T \in Good}
<1>1. \A T \in SUBSET S : IsFiniteSet(T) /\ Cardinality(T) \in Nat
  BY FS_Subset, FS_CardinalityType
<1>2. 0 \in Upto
  BY <1>1, FS_EmptySet
<1>3. ASSUME NEW n \in Upto PROVE n + 1 \in Upto
  <2> SUFFICES ASSUME NEW T \in SUBSET S, Cardinality(T) = n + 1 PROVE T \in Good
    OBVIOUS
  <2>1. T # {}
    BY FS_EmptySet
  <2>2. PICK x \in T : TRUE
    BY <2>1
  <2>3. Cardinality(T \ {x}) = n
    BY <1>1, <2>2, FS_RemoveElement
  <2>4. T \ {x} \in Good
    BY <2>3
  <2>5. T = (T \ {x}) \cup {x} /\ x \in S
    BY <2>2
  <2> QED
    BY <2>4, <2>5
<1>4. Upto = Nat
  <2> HIDE DEF Upto
  <2>1. Upto \in SUBSET Nat
    BY DEF Upto
  <2> QED
    BY <1>2, <1>3, <2>1, NatInductive
<1> QED
  BY <1>1, <1>4

-----------------------------------------------------------------------------
(* The fold that MapThenSumSet makes of a set: an element chosen, and the rest. *)
Pick(s) == CHOOSE x \in s : TRUE

IsSum(g, w, S) ==
    g = [s \in SUBSET S |-> IF s = {} THEN 0 ELSE w[Pick(s)] + g[s \ {Pick(s)}]]

LEMMA SumExists ==
  ASSUME NEW S, IsFiniteSet(S), NEW w
  PROVE  \E g : IsSum(g, w, S)
<1> DEFINE Fold(g, s) == IF s = {} THEN 0 ELSE w[Pick(s)] + g[s \ {Pick(s)}]
           Right(n) == \E g : \A s \in SUBSET S : Cardinality(s) <= n => g[s] = Fold(g, s)
           Upto == {n \in Nat : Right(n)}
<1>1. \A T \in SUBSET S : IsFiniteSet(T) /\ Cardinality(T) \in Nat
  BY FS_Subset, FS_CardinalityType
<1>2. \A s \in SUBSET S : s # {} => Pick(s) \in s /\ Cardinality(s \ {Pick(s)}) = Cardinality(s) - 1
  <2> TAKE s \in SUBSET S
  <2> HAVE s # {}
  <2>1. Pick(s) \in s
    BY DEF Pick
  <2> QED
    BY <1>1, <2>1, FS_RemoveElement
<1>3. 0 \in Upto
  <2> DEFINE g == [s \in SUBSET S |-> 0]
  <2>1. \A s \in SUBSET S : Cardinality(s) <= 0 => g[s] = Fold(g, s)
    BY <1>1, FS_EmptySet
  <2> QED
    BY <2>1
<1>4. ASSUME NEW n \in Upto PROVE n + 1 \in Upto
  <2>1. PICK g : \A s \in SUBSET S : Cardinality(s) <= n => g[s] = Fold(g, s)
    OBVIOUS
  <2> DEFINE h == [s \in SUBSET S |-> Fold(g, s)]
  <2>2. ASSUME NEW s \in SUBSET S, Cardinality(s) <= n + 1 PROVE h[s] = Fold(h, s)
    <3>1. CASE s = {}
      BY <3>1
    <3>2. CASE s # {}
      <4>1. s \ {Pick(s)} \in SUBSET S /\ Cardinality(s \ {Pick(s)}) <= n
        BY <1>1, <1>2, <2>2, <3>2
      <4>2. h[s \ {Pick(s)}] = g[s \ {Pick(s)}]
        BY <2>1, <4>1
      <4> QED
        BY <3>2, <4>2
    <3> QED
      BY <3>1, <3>2
  <2>3. Right(n + 1)
    <3> HIDE DEF h
    <3> QED
      BY <2>2
  <2>4. n + 1 \in Nat
    OBVIOUS
  <2> HIDE DEF Right
  <2> QED
    BY <2>3, <2>4
<1>5. Upto = Nat
  <2> HIDE DEF Upto
  <2>1. Upto \in SUBSET Nat
    BY DEF Upto
  <2> QED
    BY <1>3, <1>4, <2>1, NatInductive
<1>6. PICK g : \A s \in SUBSET S : Cardinality(s) <= Cardinality(S) => g[s] = Fold(g, s)
  BY <1>1, <1>5
<1>7. \A s \in SUBSET S : g[s] = Fold(g, s)
  BY <1>6, FS_Subset
<1> DEFINE f == [s \in SUBSET S |-> g[s]]
<1>8. \A s \in SUBSET S : f[s] = Fold(f, s)
  <2> TAKE s \in SUBSET S
  <2>1. s \ {Pick(s)} \in SUBSET S
    OBVIOUS
  <2> QED
    BY <1>7, <2>1
<1>9. IsSum(f, w, S)
  <2>1. f = [s \in SUBSET S |-> Fold(g, s)]
    BY <1>7
  <2>2. \A s \in SUBSET S : Fold(g, s) = Fold(f, s)
    BY <1>7, <1>8
  <2>3. f = [s \in SUBSET S |-> Fold(f, s)]
    <3> HIDE DEF f
    <3> QED
      BY <2>1, <2>2
  <2> QED
    BY <2>3 DEF IsSum
<1> QED
  BY <1>9

(* Sums over parts of two sets agree where the weights do. *)
LEMMA SumUnique ==
  ASSUME NEW S, NEW R, NEW w, NEW u, NEW g, NEW h, IsSum(g, w, S), IsSum(h, u, R),
         NEW T, IsFiniteSet(T), T \subseteq S, T \subseteq R, \A x \in T : w[x] = u[x]
  PROVE  g[T] = h[T]
<1> DEFINE Upto == {n \in Nat : \A s \in SUBSET T : Cardinality(s) <= n => g[s] = h[s]}
<1>1. \A s \in SUBSET T : IsFiniteSet(s) /\ Cardinality(s) \in Nat
  BY FS_Subset, FS_CardinalityType
<1>2. \A s \in SUBSET T : s # {} =>
         Pick(s) \in s /\ s \ {Pick(s)} \in SUBSET T /\ Cardinality(s \ {Pick(s)}) = Cardinality(s) - 1
  <2> TAKE s \in SUBSET T
  <2> HAVE s # {}
  <2>1. Pick(s) \in s
    BY DEF Pick
  <2> QED
    BY <1>1, <2>1, FS_RemoveElement
<1>3. g[{}] = 0 /\ h[{}] = 0
  BY DEF IsSum
<1>4. \A s \in SUBSET T : s # {} => /\ g[s] = w[Pick(s)] + g[s \ {Pick(s)}]
                                  /\ h[s] = u[Pick(s)] + h[s \ {Pick(s)}]
  <2>1. \A s \in SUBSET T : s \in SUBSET S /\ s \in SUBSET R
    OBVIOUS
  <2> QED
    BY <2>1 DEF IsSum
<1>5. 0 \in Upto
  BY <1>1, <1>3, FS_EmptySet
<1>6. ASSUME NEW n \in Upto PROVE n + 1 \in Upto
  <2>1. ASSUME NEW s \in SUBSET T, Cardinality(s) <= n + 1 PROVE g[s] = h[s]
    <3>1. CASE s = {}
      BY <1>3, <3>1
    <3>2. CASE s # {}
      <4>1. s \ {Pick(s)} \in SUBSET T /\ Cardinality(s \ {Pick(s)}) <= n /\ Pick(s) \in T
        BY <1>1, <1>2, <2>1, <3>2
      <4>2. g[s \ {Pick(s)}] = h[s \ {Pick(s)}] /\ w[Pick(s)] = u[Pick(s)]
        BY <4>1
      <4> QED
        BY <1>4, <3>2, <4>2
    <3> QED
      BY <3>1, <3>2
  <2> QED
    BY <2>1
<1>7. Upto = Nat
  <2> HIDE DEF Upto
  <2>1. Upto \in SUBSET Nat
    BY DEF Upto
  <2> QED
    BY <1>5, <1>6, <2>1, NatInductive
<1> QED
  BY <1>1, <1>7

(* A sum of integers is one, and does not depend on the order of the elements. *)
LEMMA SumInt ==
  ASSUME NEW S, IsFiniteSet(S), NEW w, \A x \in S : w[x] \in Int, NEW g, IsSum(g, w, S)
  PROVE  /\ g[{}] = 0
         /\ \A T \in SUBSET S : g[T] \in Int
         /\ \A T \in SUBSET S : \A y \in T : g[T] = w[y] + g[T \ {y}]
<1> DEFINE Upto == {n \in Nat : \A s \in SUBSET S : Cardinality(s) <= n =>
                       g[s] \in Int /\ \A y \in s : g[s] = w[y] + g[s \ {y}]}
<1>1. \A s \in SUBSET S : IsFiniteSet(s) /\ Cardinality(s) \in Nat
  BY FS_Subset, FS_CardinalityType
<1>2. \A s \in SUBSET S : \A y \in s :
         y \in S /\ s \ {y} \in SUBSET S /\ Cardinality(s \ {y}) = Cardinality(s) - 1
  BY <1>1, FS_RemoveElement
<1>3. \A s \in SUBSET S : s # {} => Pick(s) \in s /\ g[s] = w[Pick(s)] + g[s \ {Pick(s)}]
  BY DEF IsSum, Pick
<1>4. g[{}] = 0
  BY DEF IsSum
<1>5. 0 \in Upto
  <2>1. \A s \in SUBSET S : Cardinality(s) <= 0 => s = {}
    BY <1>1, FS_EmptySet
  <2>2. ASSUME NEW s \in SUBSET S, Cardinality(s) <= 0
        PROVE  g[s] \in Int /\ \A y \in s : g[s] = w[y] + g[s \ {y}]
    <3>1. s = {}
      BY <2>1, <2>2
    <3>2. g[s] = 0
      BY <1>4, <3>1
    <3>3. \A y \in s : FALSE
      BY <3>1
    <3> QED
      BY <3>2, <3>3
  <2> QED
    BY <2>2
<1>6. ASSUME NEW n \in Upto PROVE n + 1 \in Upto
  <2>1. ASSUME NEW s \in SUBSET S, Cardinality(s) <= n + 1
        PROVE  g[s] \in Int /\ \A y \in s : g[s] = w[y] + g[s \ {y}]
    <3>1. CASE s = {}
      BY <1>4, <3>1
    <3>2. CASE s # {}
      <4> DEFINE p == Pick(s)
      <4>1. p \in s /\ g[s] = w[p] + g[s \ {p}]
        BY <1>3, <3>2
      <4> HIDE DEF p
      <4>2. /\ \A y \in s : s \ {y} \in SUBSET S /\ Cardinality(s \ {y}) <= n
            /\ w[p] \in Int /\ \A y \in s : w[y] \in Int
        BY <1>1, <1>2, <2>1, <4>1
      <4>3. \A y \in s : g[s \ {y}] \in Int /\ \A z \in s \ {y} : g[s \ {y}] = w[z] + g[(s \ {y}) \ {z}]
        BY <4>2
      <4>4. ASSUME NEW y \in s, y # p PROVE g[s] = w[y] + g[s \ {y}]
        <5>1. g[s \ {p}] = w[y] + g[(s \ {p}) \ {y}]
          BY <4>1, <4>3, <4>4
        <5>2. g[s \ {y}] = w[p] + g[(s \ {y}) \ {p}]
          BY <4>1, <4>3, <4>4
        <5>3. (s \ {p}) \ {y} = (s \ {y}) \ {p}
          OBVIOUS
        <5>4. g[(s \ {y}) \ {p}] \in Int
          <6> DEFINE r == s \ {y}
          <6>1. r \in SUBSET S /\ p \in r /\ Cardinality(r) <= n
            BY <4>1, <4>2, <4>4
          <6> HIDE DEF r
          <6>2. r \ {p} \in SUBSET S /\ Cardinality(r \ {p}) = Cardinality(r) - 1
            BY <1>2, <6>1
          <6>3. Cardinality(r \ {p}) <= n
            BY <1>1, <6>1, <6>2
          <6>4. g[r \ {p}] \in Int
            BY <6>2, <6>3
          <6> QED
            BY <6>4 DEF r
        <5>5. w[p] \in Int /\ w[y] \in Int
          BY <4>2
        <5> DEFINE rest == g[(s \ {y}) \ {p}]
        <5>6. g[s \ {p}] = w[y] + rest /\ g[s \ {y}] = w[p] + rest /\ rest \in Int
          BY <5>1, <5>2, <5>3, <5>4
        <5> HIDE DEF rest
        <5> QED
          BY <4>1, <5>5, <5>6
      <4>5. g[s] \in Int
        <5>1. w[p] \in Int /\ g[s \ {p}] \in Int
          BY <4>1, <4>2, <4>3
        <5> QED
          BY <4>1, <5>1
      <4> QED
        BY <4>1, <4>4, <4>5
    <3> QED
      BY <3>1, <3>2
  <2> QED
    BY <2>1
<1>7. Upto = Nat
  <2> HIDE DEF Upto
  <2>1. Upto \in SUBSET Nat
    BY DEF Upto
  <2> QED
    BY <1>5, <1>6, <2>1, NatInductive
<1> QED
  BY <1>1, <1>4, <1>7

(* A sum of naturals is one. *)
LEMMA SumFacts ==
  ASSUME NEW S, IsFiniteSet(S), NEW w, \A x \in S : w[x] \in Nat, NEW g, IsSum(g, w, S)
  PROVE  /\ g[{}] = 0
         /\ \A T \in SUBSET S : g[T] \in Nat
         /\ \A T \in SUBSET S : \A y \in T : g[T] = w[y] + g[T \ {y}]
<1> DEFINE Good == {T \in SUBSET S : g[T] \in Nat}
<1>1. \A x \in S : w[x] \in Int
  OBVIOUS
<1>2. /\ g[{}] = 0
      /\ \A T \in SUBSET S : g[T] \in Int
      /\ \A T \in SUBSET S : \A y \in T : g[T] = w[y] + g[T \ {y}]
  <2> HIDE DEF Good
  <2> QED
    BY <1>1, SumInt
<1>3. {} \in Good
  BY <1>2
<1>4. ASSUME NEW T \in Good, NEW x \in S PROVE T \cup {x} \in Good
  <2> DEFINE more == T \cup {x}
  <2>1. CASE x \in T
    <3>1. T \cup {x} = T
      BY <2>1
    <3> QED
      BY <3>1
  <2>2. CASE x \notin T
    <3>1. more \in SUBSET S /\ x \in more /\ more \ {x} = T
      BY <2>2
    <3> HIDE DEF more
    <3>2. g[more] = w[x] + g[T]
      BY <1>2, <3>1
    <3>3. w[x] \in Nat /\ g[T] \in Nat
      OBVIOUS
    <3>4. g[more] \in Nat
      BY <3>2, <3>3
    <3> QED
      BY <3>1, <3>4 DEF more
  <2> QED
    BY <2>1, <2>2
<1>5. Good = SUBSET S
  <2> HIDE DEF Good
  <2>1. Good \in SUBSET SUBSET S
    BY DEF Good
  <2> QED
    BY <1>3, <1>4, <2>1, SetInductive
<1> QED
  BY <1>2, <1>5

LEMMA SumSplits ==
  ASSUME NEW S, IsFiniteSet(S), NEW w, \A x \in S : w[x] \in Nat, NEW g, IsSum(g, w, S),
         NEW R \in SUBSET S
  PROVE  g[S] = g[R] + g[S \ R]
<1> DEFINE Good == {T \in SUBSET S : g[S] = g[T] + g[S \ T]}
<1>1. /\ g[{}] = 0
      /\ \A T \in SUBSET S : g[T] \in Nat
      /\ \A T \in SUBSET S : \A y \in T : g[T] = w[y] + g[T \ {y}]
  BY SumFacts
<1>2. {} \in Good
  <2>1. S \ {} = S /\ S \in SUBSET S
    OBVIOUS
  <2>2. g[S] \in Nat
    BY <1>1, <2>1
  <2> QED
    BY <1>1, <2>1, <2>2
<1>3. ASSUME NEW T \in Good, NEW x \in S PROVE T \cup {x} \in Good
  <2>1. CASE x \in T
    <3>1. T \cup {x} = T
      BY <2>1
    <3> QED
      BY <3>1
  <2>2. CASE x \notin T
    <3> DEFINE more == T \cup {x}
               rest == S \ T
    <3>1. more \in SUBSET S /\ x \in more /\ more \ {x} = T
      BY <2>2
    <3>2. rest \in SUBSET S /\ x \in rest /\ rest \ {x} = S \ more
      BY <2>2
    <3>3. g[S] = g[T] + g[rest] /\ T \in SUBSET S
      OBVIOUS
    <3> HIDE DEF more, rest
    <3>4. g[more] = w[x] + g[T] /\ g[rest] = w[x] + g[S \ more]
      BY <1>1, <3>1, <3>2
    <3>5. w[x] \in Nat /\ g[T] \in Nat /\ g[S \ more] \in Nat
      <4>1. S \ more \in SUBSET S
        OBVIOUS
      <4> QED
        BY <1>1, <3>3, <4>1
    <3>6. g[S] = g[more] + g[S \ more]
      BY <3>3, <3>4, <3>5
    <3> QED
      BY <3>1, <3>6 DEF more
  <2> QED
    BY <2>1, <2>2
<1>4. Good = SUBSET S
  <2> HIDE DEF Good
  <2>1. Good \in SUBSET SUBSET S
    BY DEF Good
  <2> QED
    BY <1>2, <1>3, <2>1, SetInductive
<1> QED
  BY <1>4
=============================================================================
