------------------------------ MODULE MCNotary ------------------------------
(***************************************************************************)
(* Instances of Notary for TLC.  Prices are kept to a thousandth, signed   *)
(* in tenths and at most two digits before the dot; a word holds 64.       *)
(***************************************************************************)
EXTENDS Notary

Reply(text) == [status |-> 200, framing |-> "length", cut |-> FALSE, fields |-> <<text>>]

(* Signed as 45 or as 7; 10.9 wraps to 45, and 4.4496 is rounded up twice. *)
Good == {Text(<<4>>, <<5>>), Text(<<0, 4>>, <<4, 9, 9, 5>>), Text(<<4>>, <<4, 4, 9, 6>>), Text(<<1, 0>>, <<9>>),
         Text(<<>>, <<7>>), Text(<<0>>, <<6, 5>>), Text(<<0>>, <<7, 4, 9, 4, 9>>)}

(* Nothing, zero, a sign, an exponent, a second dot, too many digits. *)
Bad == {Text(<<>>, <<>>), Text(<<0>>, <<0>>), Text(<<Other, 4>>, <<>>), Text(<<2>>, <<5, Other, 1>>),
        Text(<<2>>, <<5, Other>>), Text(<<1, 0, 1>>, <<>>)}

(* 4.5 cut to 4, behind each framing; a refusal; two pointers. *)
Odd ==
    LET cut == [Reply(Text(<<4>>, <<>>)) EXCEPT !.cut = TRUE]
    IN  {[cut EXCEPT !.framing = f] : f \in {"length", "chunked", "close"}}
        \cup {[Reply(Text(<<9>>, <<>>)) EXCEPT !.status = 429],
              [Reply(NotText) EXCEPT !.framing = "chunked"], Reply(Absent),
              [Reply(Absent) EXCEPT !.fields = <<Absent, Text(<<4>>, <<5>>)>>, !.framing = "close"],
              [Reply(Absent) EXCEPT !.fields = <<NotText, Text(<<9>>, <<>>)>>]}

Answers == {Reply(t) : t \in Good \cup Bad} \cup Odd
OneAnswer == {Reply(Text(<<4>>, <<5>>))}
=============================================================================
