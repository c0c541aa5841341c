------------------------------ MODULE Replacer ------------------------------
(***************************************************************************)
(* Find-and-replace over a mapping and the streaming holdback, on strings *)
(* as sequences of characters.  A mapping is a function whose domain is    *)
(* the set of its keys.  Both directions use it: real -> pseudonym before  *)
(* the model, pseudonym -> real after it.                                  *)
(***************************************************************************)
EXTENDS Naturals, Sequences, FiniteSets

CONSTANTS
  Lower, Upper,  \* the two cases of every character
  Letter,        \* letters; the other characters have no case
  WordChar,      \* letters, digits and the underscore
  Apostrophe,    \* ' and its typographic form
  Ending,        \* the possessive endings that may follow a key
  Token          \* the strings that are token pseudonyms

Char == DOMAIN Lower

ASSUME CharAssumption ==
  /\ Lower \in [Char -> Char]
  /\ Upper \in [Char -> Char]
  /\ Letter \subseteq WordChar
  /\ WordChar \subseteq Char
  /\ Apostrophe \subseteq Char \ WordChar
  /\ Ending \subseteq Seq(Char) \ {<< >>}
  /\ Token \subseteq Seq(Char)

ToLower(s) == [i \in DOMAIN s |-> Lower[s[i]]]
ToUpper(s) == [i \in DOMAIN s |-> Upper[s[i]]]

\* s occurs in text at position i, in any case.
OccursAt(text, i, s) ==
  /\ i + Len(s) - 1 <= Len(text)
  /\ ToLower(SubSeq(text, i, i + Len(s) - 1)) = ToLower(s)

Longest(strings) == CHOOSE s \in strings : \A r \in strings : Len(r) <= Len(s)

LeftBoundaryClear(text, i) ==
  i = 1 \/ text[i - 1] \notin WordChar \cup Apostrophe

RightBoundaryClear(text, i) == i > Len(text) \/ text[i] \notin WordChar

\* The replacement in the case of the source: all upper, all lower, or as it
\* is.  Tokens are exact.
MatchCase(source, replacement) ==
  LET letters == {source[i] : i \in DOMAIN source} \cap Letter
  IN  IF {source, replacement} \cap Token # {} \/ letters = {} THEN replacement
      ELSE IF \A c \in letters : Lower[c] # c THEN ToUpper(replacement)
      ELSE IF \A c \in letters : Upper[c] # c THEN ToLower(replacement)
      ELSE replacement

\* What Replace puts for the match of a key at i and how far the match goes:
\* the longest key, with a possessive ending if one follows.  A match that is
\* not a whole word is copied, and the scan goes on behind it.
Match(text, i, mapping) ==
  LET key == Longest({k \in DOMAIN mapping : OccursAt(text, i, k)})
      source == SubSeq(text, i, i + Len(key) - 1)
      ending == Longest({e \in Ending : OccursAt(text, i + Len(key), e)} \cup {<< >>})
      next == i + Len(key) + Len(ending)
  IN  [put |-> IF LeftBoundaryClear(text, i) /\ RightBoundaryClear(text, next)
               THEN MatchCase(source, mapping[key])
                      \o SubSeq(text, i + Len(key), next - 1)
               ELSE SubSeq(text, i, next - 1),
       next |-> next]

\* Variant: only the first match is replaced.
ReplaceFirst(text, mapping) ==
  LET at == {i \in 1..Len(text) : \E k \in DOMAIN mapping : OccursAt(text, i, k)}
      i == CHOOSE j \in at : \A l \in at : j <= l
      match == Match(text, i, mapping)
  IN  IF at = {} THEN text
      ELSE SubSeq(text, 1, i - 1) \o match.put \o SubSeq(text, match.next, Len(text))

\* Non-overlapping matches from left to right, the rest of the text verbatim.
Replace(text, mapping) ==
  LET from[i \in 1..(Len(text) + 1)] ==
        IF i > Len(text) THEN << >>
        ELSE IF \E k \in DOMAIN mapping : OccursAt(text, i, k)
             THEN LET match == Match(text, i, mapping) IN match.put \o from[match.next]
             ELSE <<text[i]>> \o from[i + 1]
  IN  from[1]

\* The suffix of buf of length h starts a word and is the beginning of a key.
BeginsKey(buf, h, keys) ==
  /\ LeftBoundaryClear(buf, Len(buf) - h + 1)
  /\ \E k \in keys : h < Len(k) /\ OccursAt(buf, Len(buf) - h + 1, SubSeq(k, 1, h))

\* Variant: the whole buffer is never held back.
HoldbackBehindWord(buf, keys) ==
  LET lengths == {h \in 1..(Len(buf) - 1) : BeginsKey(buf, h, keys)}
  IN  IF lengths = {} THEN 0 ELSE CHOOSE h \in lengths : \A g \in lengths : g <= h

\* Variant: as many as the longest key could still need, whatever the buffer has.
HoldbackUncapped(buf, keys) ==
  IF \E h \in 1..Len(buf) : BeginsKey(buf, h, keys) THEN Len(Longest(keys)) - 1 ELSE 0

\* The number of characters to hold back: the longest such suffix.
ComputeHoldback(buf, keys) ==
  LET lengths == {h \in 1..Len(buf) : BeginsKey(buf, h, keys)}
  IN  IF lengths = {} THEN 0 ELSE CHOOSE h \in lengths : \A g \in lengths : g <= h
=============================================================================
