----------------------------- MODULE MCDetector -----------------------------
(***************************************************************************)
(* Short texts of every kind, and lines a few characters longer than a     *)
(* window, alone or before another line; in a line of two windows names    *)
(* may be found, inside the overlap and outside it.                        *)
(***************************************************************************)
EXTENDS Detector, TLC

CONSTANTS
  MaxLen,  \* bound on the length of a line
  PERSON, LOCATION, EMAIL,
  full_name, first_name, city,
  acme, acmeltd

Strings(classes, n) == UNION {[1..k -> classes] : k \in 0..n}

Words(n) == Strings({"other", "space"}, n)

\* One line of words and spaces, with at most one sentence end.
OneLine == Words(MaxLen) \cup {[w EXCEPT ![5] = "stop"] : w \in {v \in Words(MaxLen) : Len(v) >= 5}}

TwoLines == {w \o <<"newline">> \o v : w \in Words(MaxLen - 3), v \in Words(2)}

\* "oo o oo oo oo": its windows are [0, 8) and [5, 13).
Line == [i \in 1..13 |-> IF i \in {3, 5, 8, 11} THEN "space" ELSE "other"]

MCInput == Strings(Class, MaxLen \div 2) \cup OneLine \cup TwoLines \cup {Line}
MCTelling == {Line}

Span(from, to) == [from |-> from, to |-> to]

MCPlace == {Span(5, 7), Span(8, 13)}

MCTerm == <<acme, acmeltd>>
MCTermType == acme :> PERSON @@ acmeltd :> PERSON

\* The longer term ends inside a word once; the shorter stands there alone.
MCMatches == acme :> {Span(0, 2), Span(8, 10), Span(11, 13)} @@ acmeltd :> {Span(0, 4), Span(8, 12)}

\* One deny-listed place is allowed, one is no person's name.
MCExempt == {Span(11, 13)}
MCImplausible == {Span(0, 4)}

Ner == [engine |-> "ner", entities |-> {PERSON, EMAIL}, labels |-> full_name :> PERSON,
        own |-> <<>>, score |-> 2, nerScore |-> 2]

MCPlain == [Ner EXCEPT !.own = PERSON :> 1]
MCConfig == {
  [Ner EXCEPT !.labels = full_name :> PERSON @@ first_name :> PERSON],
  [Ner EXCEPT !.own = PERSON :> 1],
  [Ner EXCEPT !.own = EMAIL :> 1, !.nerScore = 3],
  [Ner EXCEPT !.labels = full_name :> PERSON @@ city :> LOCATION, !.own = LOCATION :> 1],
  [Ner EXCEPT !.labels = full_name :> PERSON @@ city :> LOCATION,
              !.entities = {PERSON, LOCATION}, !.own = LOCATION :> 1],
  [Ner EXCEPT !.engine = "presidio", !.own = EMAIL :> 3]}
=============================================================================
