------------------------------- MODULE Quote -------------------------------
(***************************************************************************)
(* From an exchange's answer to the price a notary signs.                  *)
(*                                                                         *)
(* An answer is what came through before the connection ended: its status, *)
(* how the body's end is marked, whether it is cut short of that end, and  *)
(* what each of the source's pointers finds in it: nothing, a value that   *)
(* is neither string nor number, or a text.  A text is what stands before  *)
(* its first dot and what stands after it, digit by digit; any character   *)
(* that is no digit is Other.                                              *)
(***************************************************************************)
EXTENDS Integers, Sequences

CONSTANTS
    Answer,   \* what the exchange may answer
    Scale,    \* digits kept of a price (8)
    Cents,    \* digits signed (2)
    MaxInt,   \* digits before the dot (11)
    Word      \* one more than the largest u32

ASSUME ScaleAssumption ==
    /\ Cents \in Nat /\ Scale \in Nat /\ Cents < Scale
    /\ MaxInt \in Nat \ {0} /\ Word \in Nat \ {0}

Other == 10
Digit == 0..Other
Price == 0..(Word - 1)

Absent == [kind |-> "absent"]
NotText == [kind |-> "other"]
Text(int, frac) == [kind |-> "text", int |-> int, frac |-> frac]

(* Every pointer finds one of the three; a text is made of characters. *)
ASSUME AnswerAssumption ==
    \A a \in Answer :
        /\ DOMAIN a.fields = 1..Len(a.fields) /\ Len(a.fields) \in Nat
        /\ \A i \in DOMAIN a.fields :
               \/ a.fields[i] \in {Absent, NotText}
               \/ a.fields[i].int \in Seq(Digit) /\ a.fields[i].frac \in Seq(Digit)

-----------------------------------------------------------------------------
(* parse_price_1e8 *)

TenTo(n) ==
    LET power[i \in 0..n] == IF i = 0 THEN 1 ELSE 10 * power[i - 1]
    IN  power[n]

NumberOf(s) ==
    LET upTo[i \in 0..Len(s)] == IF i = 0 THEN 0 ELSE 10 * upTo[i - 1] + s[i]
    IN  upTo[Len(s)]

(* Mutation: the digits after the dot are not filled up with zeros. *)
Unpadded(s, n) == SubSeq(s, 1, IF Len(s) < n THEN Len(s) ELSE n)

Padded(s, n) == [i \in 1..n |-> IF i \in DOMAIN s THEN s[i] ELSE 0]

(* Half up, by the first digit that is not kept. *)
RoundUp(frac) == IF Len(frac) > Scale /\ frac[Scale + 1] >= 5 THEN 1 ELSE 0

parse_price_1e8(t) == NumberOf(t.int \o Padded(t.frac, Scale)) + RoundUp(t.frac)

(* No digit at all, or something that is none. *)
Malformed(t) ==
    LET s == t.int \o t.frac
    IN  s = <<>> \/ \E i \in DOMAIN s : s[i] = Other

Refused(t) == Malformed(t) \/ NumberOf(t.int) >= TenTo(MaxInt) \/ parse_price_1e8(t) = 0

(* Half up again, and cut to a word. *)
cents_from_1e8(v) ==
    LET unit == TenTo(Scale - Cents)
    IN  ((v + unit \div 2) \div unit) % Word

-----------------------------------------------------------------------------
(* parse_response: a body with a length, or in chunks, must be all there; one that ends with the  *)
(* connection is whatever came.                                                                   *)
Framed(a) == a.framing = "close" \/ ~a.cut

(* Every endpoint answers an object or an array, which a torn body does not close. *)
IsJson(a) == ~a.cut

(* extract_price: the first pointer that resolves, whatever it finds. *)
Resolves(a) == \E i \in DOMAIN a.fields : a.fields[i] # Absent
Field(a) ==
    a.fields[CHOOSE i \in DOMAIN a.fields :
                 a.fields[i] # Absent /\ \A j \in 1..(i - 1) : a.fields[j] = Absent]

Usable ==
    {a \in Answer : /\ a.status = 200 /\ Framed(a) /\ IsJson(a)
                    /\ Resolves(a) /\ Field(a) # NotText /\ ~Refused(Field(a))}

PriceOf == [a \in Usable |-> cents_from_1e8(parse_price_1e8(Field(a)))]

-----------------------------------------------------------------------------
(* What the exchange shows: the decimal numbers in its whole answers. *)
Decimal(a) == Resolves(a) /\ Field(a) # NotText /\ ~Malformed(Field(a))
Shown == {Field(a) : a \in {b \in Answer : b.status = 200 /\ ~b.cut /\ Decimal(b)}}

(* p is the number t to within half a cent and, since it is rounded twice, half of the last digit *)
(* kept, once the words that did not fit are added back.                                          *)
Near(p, t) ==
    LET n == IF Len(t.frac) > Scale THEN Len(t.frac) ELSE Scale
        exact == NumberOf(t.int \o t.frac) * TenTo(n - Len(t.frac))
        cent == TenTo(n - Cents)
    IN  \E wraps \in 0..(TenTo(MaxInt + Cents) \div Word) :
            LET off == (p + wraps * Word) * cent - exact
            IN  2 * off \in -(cent + TenTo(n - Scale))..(cent + TenTo(n - Scale))

Fair == {p \in Price : \E t \in Shown : Near(p, t)}
=============================================================================
