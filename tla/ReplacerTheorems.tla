-------------------------- MODULE ReplacerTheorems --------------------------
(***************************************************************************)
(* For every text and mapping: what the scan of Replace and the holdback   *)
(* compute.                                                                *)
(***************************************************************************)
EXTENDS Replacer, SequenceTheorems, WellFoundedInduction, TLAPS

-----------------------------------------------------------------------------
(* Least and greatest numbers. *)

\* A set of numbers has a least one.
LEMMA LeastNumber ==
  ASSUME NEW T, T \subseteq Nat, T # {}
  PROVE  \E x \in T : \A y \in T : x <= y
<1>1. PICK x \in T : \A y \in T : ~ (<<y, x>> \in OpToRel(<, Nat))
  BY NatLessThanWellFounded, WFMin
<1>2. ASSUME NEW y \in T PROVE x <= y
  <2>1. ~(y < x)
    BY <1>1 DEF OpToRel
  <2> QED BY <2>1
<1> QED BY <1>2

\* A bounded one has a greatest.
LEMMA GreatestNumber ==
  ASSUME NEW top \in Nat, NEW T, T \subseteq 0..top, T # {}
  PROVE  \E x \in T : \A y \in T : y <= x
<1> DEFINE below == {top - t : t \in T}
<1>1. below \subseteq Nat /\ below # {}
  OBVIOUS
<1>2. PICK b \in below : \A c \in below : b <= c
  <2> HIDE DEF below
  <2> QED BY <1>1, LeastNumber
<1>3. PICK x \in T : b = top - x
  BY <1>2
<1>4. ASSUME NEW y \in T PROVE y <= x
  <2>1. top - y \in below /\ top - x <= top - y
    BY <1>2, <1>3
  <2>2. x \in Nat /\ y \in Nat
    BY <1>3
  <2> HIDE DEF below
  <2> QED BY <2>1, <2>2
<1> QED BY <1>4

\* So the longest of some strings of bounded length is one of them.
LEMMA LongestFacts ==
  ASSUME NEW top \in Nat, NEW strings, strings # {},
         \A s \in strings : Len(s) \in 0..top
  PROVE  Longest(strings) \in strings /\ \A r \in strings : Len(r) <= Len(Longest(strings))
<1> DEFINE lengths == {Len(s) : s \in strings}
<1>1. lengths \subseteq 0..top /\ lengths # {}
  OBVIOUS
<1>2. PICK x \in lengths : \A y \in lengths : y <= x
  <2> HIDE DEF lengths
  <2> QED BY <1>1, GreatestNumber
<1>3. \E s \in strings : \A r \in strings : Len(r) <= Len(s)
  BY <1>2
<1> QED BY <1>3 DEF Longest

-----------------------------------------------------------------------------
(* Joined strings and pieces of strings. *)

\* Joining strings is associative.
LEMMA JoinedThrice ==
  \A s, t, u \in Seq(Char) : (s \o t) \o u = s \o (t \o u)
BY ConcatAssociative

\* Joined strings.
LEMMA JoinedTwice ==
  ASSUME NEW s \in Seq(Char), NEW t \in Seq(Char)
  PROVE  /\ s \o t \in Seq(Char) /\ Len(s \o t) = Len(s) + Len(t)
         /\ Len(s) \in Nat /\ Len(t) \in Nat
         /\ \A x \in 1..Len(s) : (s \o t)[x] = s[x]
         /\ \A x \in 1..Len(t) : (s \o t)[Len(s) + x] = t[x]
<1>1. Len(s) \in Nat /\ Len(t) \in Nat
  OBVIOUS
<1>2. \A x \in 1..Len(s) : (s \o t)[x] = s[x]
  BY <1>1, ConcatProperties
<1>3. ASSUME NEW x \in 1..Len(t) PROVE (s \o t)[Len(s) + x] = t[x]
  <2>1. Len(s) + x \in 1..(Len(s) + Len(t)) /\ ~(Len(s) + x <= Len(s)) /\ Len(s) + x - Len(s) = x
    BY <1>1
  <2> QED BY <2>1, ConcatProperties
<1> QED BY <1>1, <1>2, <1>3, ConcatProperties

\* A piece of a string.
LEMMA PieceFacts ==
  ASSUME NEW text \in Seq(Char), NEW a \in Int, NEW b \in Int,
         1 <= a, a <= b + 1, b <= Len(text)
  PROVE  /\ SubSeq(text, a, b) \in Seq(Char) /\ Len(SubSeq(text, a, b)) = b - a + 1
         /\ \A x \in 1..Len(SubSeq(text, a, b)) : SubSeq(text, a, b)[x] = text[a + x - 1]
<1>1. \A x \in a..b : text[x] \in Char
  OBVIOUS
<1>2. /\ SubSeq(text, a, b) \in Seq(Char)
      /\ Len(SubSeq(text, a, b)) = IF a <= b THEN b - a + 1 ELSE 0
      /\ \A x \in 1..(b - a + 1) : SubSeq(text, a, b)[x] = text[a + x - 1]
  BY <1>1, SubSeqProperties
<1>3. b - a + 1 = IF a <= b THEN b - a + 1 ELSE 0
  OBVIOUS
<1> QED BY <1>2, <1>3

-----------------------------------------------------------------------------
(* The scan. *)

\* A mapping between strings, with no empty key.
StringMapping(mapping) ==
  /\ DOMAIN mapping \subseteq Seq(Char) \ {<< >>}
  /\ \A k \in DOMAIN mapping : mapping[k] \in Seq(Char)

\* A key is found at i.
Hit(text, i, mapping) == \E k \in DOMAIN mapping : OccursAt(text, i, k)

\* Cases keep strings strings.
LEMMA CasesTyped ==
  ASSUME NEW s \in Seq(Char)
  PROVE  /\ ToLower(s) \in Seq(Char) /\ Len(ToLower(s)) = Len(s)
         /\ ToUpper(s) \in Seq(Char) /\ Len(ToUpper(s)) = Len(s)
<1>1. \A i \in DOMAIN s : Lower[s[i]] \in Char /\ Upper[s[i]] \in Char
  <2>1. \A i \in DOMAIN s : s[i] \in Char
    OBVIOUS
  <2>2. \A c \in Char : Lower[c] \in Char /\ Upper[c] \in Char
    BY CharAssumption
  <2> QED BY <2>1, <2>2, Zenon
<1>2. DOMAIN s = 1..Len(s) /\ Len(s) \in Nat
  OBVIOUS
<1>3. ToLower(s) \in [1..Len(s) -> Char]
  BY <1>1, <1>2 DEF ToLower
<1>4. ToUpper(s) \in [1..Len(s) -> Char]
  BY <1>1, <1>2 DEF ToUpper
<1>5. \A n \in Nat : \A f \in [1..n -> Char] : f \in Seq(Char) /\ Len(f) = n
  OBVIOUS
<1> QED BY <1>2, <1>3, <1>4, <1>5, Zenon

\* A match is a string, longer than nothing and inside the text.
LEMMA MatchFacts ==
  ASSUME NEW mapping, StringMapping(mapping), NEW text \in Seq(Char),
         NEW i \in 1..Len(text), Hit(text, i, mapping)
  PROVE  /\ Match(text, i, mapping).put \in Seq(Char)
         /\ Match(text, i, mapping).next \in (i + 1)..(Len(text) + 1)
<1> DEFINE keys == {k \in DOMAIN mapping : OccursAt(text, i, k)}
           key == Longest(keys)
           source == SubSeq(text, i, i + Len(key) - 1)
           endings == {e \in Ending : OccursAt(text, i + Len(key), e)} \cup {<< >>}
           ending == Longest(endings)
           next == i + Len(key) + Len(ending)
<1>1. key \in keys
  <2>1. keys # {} /\ \A k \in keys : Len(k) \in 0..Len(text)
    BY DEF Hit, OccursAt, StringMapping
  <2> HIDE DEF keys
  <2> QED BY <2>1, LongestFacts
<1>2. /\ key \in DOMAIN mapping /\ key \in Seq(Char) /\ Len(key) \in Nat \ {0}
      /\ i + Len(key) - 1 <= Len(text)
  <2>1. key \in Seq(Char) /\ key # << >>
    BY <1>1 DEF StringMapping
  <2> HIDE DEF key
  <2>2. Len(key) \in Nat \ {0}
    BY <2>1
  <2> QED BY <1>1, <2>1, <2>2 DEF OccursAt, key
<1> HIDE DEF key
<1>3. ending \in endings
  <2>1. endings # {} /\ \A e \in endings : Len(e) \in 0..Len(text)
    BY <1>2, CharAssumption DEF OccursAt
  <2> HIDE DEF endings
  <2> QED BY <2>1, LongestFacts
<1>4. Len(ending) \in Nat /\ i + Len(key) + Len(ending) - 1 <= Len(text)
  <2>1. CASE ending = << >>
    BY <1>2, <2>1
  <2>2. CASE ending \in Ending /\ OccursAt(text, i + Len(key), ending)
    BY <1>2, <2>2, CharAssumption DEF OccursAt
  <2> QED BY <1>3, <2>1, <2>2
<1> HIDE DEF ending
<1>5. next \in (i + 1)..(Len(text) + 1)
  BY <1>2, <1>4
<1>6. MatchCase(source, mapping[key]) \in Seq(Char)
  <2>1. mapping[key] \in Seq(Char)
    BY <1>2 DEF StringMapping
  <2> QED BY <2>1, CasesTyped DEF MatchCase
<1>7. SubSeq(text, i + Len(key), next - 1) \in Seq(Char) /\ SubSeq(text, i, next - 1) \in Seq(Char)
  BY <1>2, <1>5
<1>8. MatchCase(source, mapping[key]) \o SubSeq(text, i + Len(key), next - 1) \in Seq(Char)
  BY <1>6, <1>7
<1>9. /\ Match(text, i, mapping).next = next
      /\ Match(text, i, mapping).put
           \in {MatchCase(source, mapping[key]) \o SubSeq(text, i + Len(key), next - 1),
                SubSeq(text, i, next - 1)}
  BY DEF Match, key, ending
<1> HIDE DEF next
<1> QED BY <1>5, <1>7, <1>8, <1>9

\* What the text becomes from i on, when from says what it becomes behind.
Rest(text, mapping, from, i) ==
  IF i > Len(text) THEN << >>
  ELSE IF Hit(text, i, mapping)
       THEN Match(text, i, mapping).put \o from[Match(text, i, mapping).next]
       ELSE <<text[i]>> \o from[i + 1]

\* The scan has a result: from the end on, what the rest becomes is defined.
LEMMA ScanExists ==
  ASSUME NEW mapping, StringMapping(mapping), NEW text \in Seq(Char)
  PROVE  \E from : from = [i \in 1..(Len(text) + 1) |-> Rest(text, mapping, from, i)]
<1> DEFINE n == Len(text)
           good(m) == \E from : from = [i \in m..(n + 1) |-> Rest(text, mapping, from, i)]
           bad == {d \in 0..n : ~good(n + 1 - d)}
<1>1. n \in Nat
  OBVIOUS
<1> SUFFICES ASSUME bad # {} PROVE FALSE
  <2>1. n \in bad \/ good(1)
    BY <1>1
  <2> QED BY <2>1
<1>2. PICK d \in bad : \A e \in bad : d <= e
  <2>1. bad \subseteq Nat
    OBVIOUS
  <2> HIDE DEF bad
  <2> QED BY <2>1, LeastNumber
<1> DEFINE m == n + 1 - d
<1>3. d # 0
  <2> DEFINE last == [i \in (n + 1)..(n + 1) |-> << >>]
  <2>1. ASSUME NEW i \in (n + 1)..(n + 1) PROVE Rest(text, mapping, last, i) = << >>
    BY <1>1, <2>1 DEF Rest
  <2>2. last = [i \in (n + 1)..(n + 1) |-> Rest(text, mapping, last, i)]
    BY <2>1
  <2>3. good(n + 1)
    BY <2>2
  <2>4. n + 1 - 0 = n + 1
    BY <1>1
  <2>5. d = 0 => n + 1 - d = n + 1
    BY <2>4
  <2> HIDE DEF n, good
  <2> QED BY <1>2, <2>3, <2>5
<1>4. m \in 1..n /\ good(m + 1)
  <2> HIDE DEF n, good
  <2>1. d \in 0..n /\ d - 1 \in 0..n /\ ~(d <= d - 1)
    BY <1>1, <1>2, <1>3
  <2>2. n + 1 - (d - 1) = m + 1
    BY <1>1, <2>1
  <2>3. good(n + 1 - (d - 1))
    BY <1>2, <2>1
  <2> QED BY <1>1, <1>3, <2>1, <2>2, <2>3
<1>5. PICK from : from = [i \in (m + 1)..(n + 1) |-> Rest(text, mapping, from, i)]
  BY <1>4
<1> HIDE DEF m
<1> DEFINE more == [i \in m..(n + 1) |-> IF i = m THEN Rest(text, mapping, from, m) ELSE from[i]]
<1>6. ASSUME NEW i \in m..(n + 1)
      PROVE  Rest(text, mapping, more, i) = Rest(text, mapping, from, i)
  <2>1. CASE i = n + 1
    <3>1. i > Len(text)
      BY <1>1, <2>1
    <3> QED BY <3>1, Zenon DEF Rest
  <2>2. CASE i <= n
    <3>1. i \in 1..n /\ i + 1 \in (m + 1)..(n + 1)
      BY <1>1, <1>4, <2>2
    <3>2. more[i + 1] = from[i + 1]
      BY <1>1, <1>4, <3>1
    <3>3. CASE Hit(text, i, mapping)
      <4> DEFINE k == Match(text, i, mapping).next
      <4>1. k \in (i + 1)..(n + 1)
        BY <3>1, <3>3, MatchFacts
      <4> HIDE DEF k
      <4>2. k \in m..(n + 1) /\ k # m
        BY <1>1, <1>4, <3>1, <4>1
      <4>3. more[k] = from[k]
        BY <4>2
      <4>4. i <= n /\ ~(i > Len(text))
        BY <1>1, <3>1
      <4>5. more[Match(text, i, mapping).next] = from[Match(text, i, mapping).next]
        BY <4>3, Zenon DEF k
      <4> HIDE DEF more
      <4> QED BY <3>3, <4>4, <4>5, Zenon DEF Rest
    <3>4. CASE ~Hit(text, i, mapping)
      BY <3>2, <3>4 DEF Rest
    <3> QED BY <3>3, <3>4
  <2>3. i = n + 1 \/ i <= n
    <3>1. n \in Int /\ m \in Int
      BY <1>1, <1>4
    <3>2. i \in Int /\ i <= n + 1
      BY <3>1
    <3> HIDE DEF n
    <3> QED BY <3>1, <3>2
  <2> QED BY <2>1, <2>2, <2>3
<1>7. ASSUME NEW i \in m..(n + 1) PROVE more[i] = Rest(text, mapping, more, i)
  <2>1. CASE i = m
    BY <1>6, <2>1
  <2>2. CASE i # m
    <3>1. i \in (m + 1)..(n + 1)
      BY <1>1, <1>4, <2>2
    <3>2. from[i] = Rest(text, mapping, from, i)
      BY <1>5, <3>1
    <3> QED BY <1>6, <2>2, <3>2
  <2> QED BY <2>1, <2>2
<1>8. more = [i \in m..(n + 1) |-> Rest(text, mapping, more, i)]
  BY <1>7
<1>9. good(m)
  BY <1>8
<1> QED BY <1>1, <1>2, <1>9 DEF m

\* And Replace is what it becomes from the first character on.
LEMMA ReplaceScans ==
  ASSUME NEW mapping, StringMapping(mapping), NEW text \in Seq(Char)
  PROVE  \E from : /\ from = [i \in 1..(Len(text) + 1) |-> Rest(text, mapping, from, i)]
                   /\ Replace(text, mapping) = from[1]
<1> DEFINE scan == CHOOSE from : from = [i \in 1..(Len(text) + 1) |-> Rest(text, mapping, from, i)]
<1>1. scan = [i \in 1..(Len(text) + 1) |-> Rest(text, mapping, scan, i)]
  BY ScanExists
<1>2. Replace(text, mapping) = scan[1]
  BY Zenon DEF Replace, Rest, Hit
<1> QED BY <1>1, <1>2

\* What Replace returns is a string, as are its parts.
LEMMA ScanTyped ==
  ASSUME NEW mapping, StringMapping(mapping), NEW text \in Seq(Char), NEW from,
         from = [i \in 1..(Len(text) + 1) |-> Rest(text, mapping, from, i)]
  PROVE  \A i \in 1..(Len(text) + 1) : from[i] \in Seq(Char)
<1> DEFINE bad == {i \in 1..(Len(text) + 1) : from[i] \notin Seq(Char)}
<1>1. Len(text) \in Nat
  OBVIOUS
<1> SUFFICES ASSUME bad # {} PROVE FALSE
  OBVIOUS
<1>2. PICK i \in bad : \A j \in bad : j <= i
  <2>1. bad \subseteq 0..(Len(text) + 1) /\ Len(text) + 1 \in Nat
    BY <1>1
  <2> HIDE DEF bad
  <2> QED BY <2>1, GreatestNumber
<1>3. \A j \in (i + 1)..(Len(text) + 1) : from[j] \in Seq(Char)
  BY <1>1, <1>2
<1>4. from[i] = Rest(text, mapping, from, i)
  BY <1>2
<1>5. CASE i = Len(text) + 1
  <2>1. i > Len(text)
    BY <1>1, <1>5
  <2>2. from[i] = << >>
    BY <1>4, <2>1, Zenon DEF Rest
  <2>3. << >> \in Seq(Char)
    OBVIOUS
  <2> QED BY <1>2, <2>2, <2>3
<1>6. CASE i \in 1..Len(text) /\ Hit(text, i, mapping)
  <2>1. /\ Match(text, i, mapping).put \in Seq(Char)
        /\ Match(text, i, mapping).next \in (i + 1)..(Len(text) + 1)
    BY <1>6, MatchFacts
  <2>2. from[Match(text, i, mapping).next] \in Seq(Char)
    BY <1>3, <2>1
  <2>5. ~(i > Len(text))
    BY <1>1, <1>6
  <2>3. from[i] = Match(text, i, mapping).put \o from[Match(text, i, mapping).next]
    BY <1>4, <1>6, <2>5, Zenon DEF Rest
  <2>4. from[i] \in Seq(Char)
    BY <2>1, <2>2, <2>3, ConcatProperties
  <2> QED BY <1>2, <2>4
<1>7. CASE i \in 1..Len(text) /\ ~Hit(text, i, mapping)
  <2>1. from[i + 1] \in Seq(Char) /\ text[i] \in Char
    BY <1>1, <1>3, <1>7
  <2>5. ~(i > Len(text))
    BY <1>1, <1>7
  <2>2. from[i] = <<text[i]>> \o from[i + 1]
    BY <1>4, <1>7, <2>5, Zenon DEF Rest
  <2>4. <<text[i]>> \in Seq(Char)
    BY <2>1
  <2>3. from[i] \in Seq(Char)
    BY <2>1, <2>2, <2>4, ConcatProperties
  <2> QED BY <1>2, <2>3
<1> QED BY <1>1, <1>2, <1>5, <1>6, <1>7

\* Replace returns a string.
LEMMA ReplaceTyped ==
  ASSUME NEW mapping, StringMapping(mapping), NEW text \in Seq(Char)
  PROVE  Replace(text, mapping) \in Seq(Char)
<1>1. PICK from : /\ from = [i \in 1..(Len(text) + 1) |-> Rest(text, mapping, from, i)]
                  /\ Replace(text, mapping) = from[1]
  BY ReplaceScans
<1>2. 1 \in 1..(Len(text) + 1)
  OBVIOUS
<1> QED BY <1>1, <1>2, ScanTyped

\* from is the scan of a text.
IsScan(from, text, mapping) ==
  from = [i \in 1..(Len(text) + 1) |-> Rest(text, mapping, from, i)]

\* One step of a scan.
LEMMA ScanStep ==
  ASSUME NEW mapping, NEW text \in Seq(Char), NEW from, IsScan(from, text, mapping)
  PROVE  /\ \A i \in 1..Len(text) :
              IF Hit(text, i, mapping)
              THEN from[i] = Match(text, i, mapping).put \o from[Match(text, i, mapping).next]
              ELSE from[i] = <<text[i]>> \o from[i + 1]
         /\ from[Len(text) + 1] = << >>
<1>1. Len(text) \in Nat
  OBVIOUS
<1>2. \A i \in 1..(Len(text) + 1) : from[i] = Rest(text, mapping, from, i)
  BY DEF IsScan
<1>3. from[Len(text) + 1] = << >>
  <2>1. Len(text) + 1 \in 1..(Len(text) + 1) /\ Len(text) + 1 > Len(text)
    BY <1>1
  <2> QED BY <1>2, <2>1 DEF Rest
<1>4. ASSUME NEW i \in 1..Len(text)
      PROVE  IF Hit(text, i, mapping)
             THEN from[i] = Match(text, i, mapping).put \o from[Match(text, i, mapping).next]
             ELSE from[i] = <<text[i]>> \o from[i + 1]
  <2>1. i \in 1..(Len(text) + 1) /\ ~(i > Len(text))
    BY <1>1
  <2> QED BY <1>2, <2>1, Zenon DEF Rest
<1> QED BY <1>3, <1>4

\* One step of a scan where a key is found.
LEMMA ScanHit ==
  ASSUME NEW mapping, NEW text \in Seq(Char), NEW from, IsScan(from, text, mapping)
  PROVE  \A i \in 1..Len(text) : Hit(text, i, mapping) =>
           from[i] = Match(text, i, mapping).put \o from[Match(text, i, mapping).next]
<1> QED BY ScanStep, Zenon

\* Where no key is found, a scan copies a character.
CopiesMissed(from, text, mapping) ==
  \A i \in 1..Len(text) : ~Hit(text, i, mapping) => from[i] = <<text[i]>> \o from[i + 1]

\* One step of a scan where none is found.
LEMMA ScanMiss ==
  ASSUME NEW mapping, NEW text \in Seq(Char), NEW from, IsScan(from, text, mapping)
  PROVE  CopiesMissed(from, text, mapping)
<1> QED BY ScanStep, Zenon DEF CopiesMissed

\* Where no key is found any more, the rest stays as it is.
LEMMA RestCopied ==
  ASSUME NEW mapping, StringMapping(mapping), NEW text \in Seq(Char),
         NEW from, IsScan(from, text, mapping), NEW j \in 1..(Len(text) + 1),
         \A i \in j..Len(text) : ~Hit(text, i, mapping)
  PROVE  from[j] = SubSeq(text, j, Len(text))
<1> DEFINE bad == {i \in j..(Len(text) + 1) : from[i] # SubSeq(text, i, Len(text))}
<1>1. Len(text) \in Nat /\ j \in Nat \ {0}
  OBVIOUS
<1> SUFFICES ASSUME bad # {} PROVE FALSE
  <2>1. j \in j..(Len(text) + 1)
    BY <1>1
  <2> QED BY <2>1
<1>2. PICK i \in bad : \A l \in bad : l <= i
  <2>1. bad \subseteq 0..(Len(text) + 1) /\ Len(text) + 1 \in Nat
    BY <1>1
  <2> HIDE DEF bad
  <2> QED BY <2>1, GreatestNumber
<1>3. CASE i = Len(text) + 1
  <2>1. SubSeq(text, i, Len(text)) = << >>
    BY <1>1, <1>3, SubSeqEmpty
  <2> QED BY <1>2, <1>3, <2>1, ScanStep
<1>4. CASE i \in j..Len(text)
  <2>1. i + 1 \in j..(Len(text) + 1) /\ i + 1 \notin bad
    BY <1>1, <1>2, <1>4
  <2>2. from[i + 1] = SubSeq(text, i + 1, Len(text))
    BY <2>1
  <2>3. i \in 1..Len(text) /\ Len(text) \in i..Len(text)
    BY <1>1, <1>4
  <2>4. from[i] = <<text[i]>> \o from[i + 1]
    BY <1>4, <2>3, ScanStep
  <2>5. SubSeq(text, i, Len(text)) = <<text[i]>> \o SubSeq(text, i + 1, Len(text))
    BY <2>3, SubSeqRecursiveFirst
  <2> QED BY <1>2, <2>2, <2>4, <2>5
<1> QED BY <1>1, <1>2, <1>3, <1>4

\* A text in which no key is found is left alone (Replace).
LEMMA PlainTextStays ==
  ASSUME NEW mapping, StringMapping(mapping), NEW text \in Seq(Char),
         \A i \in 1..Len(text) : ~Hit(text, i, mapping)
  PROVE  Replace(text, mapping) = text
<1>1. PICK from : IsScan(from, text, mapping) /\ Replace(text, mapping) = from[1]
  BY ReplaceScans DEF IsScan
<1>2. from[1] = SubSeq(text, 1, Len(text))
  <2>1. 1 \in 1..(Len(text) + 1)
    OBVIOUS
  <2> QED BY <1>1, <2>1, RestCopied
<1> QED BY <1>1, <1>2, SubSeqFull

\* No more is held back than there is; what is, begins a key, and nothing longer
\* does (ComputeHoldback).
LEMMA HoldbackFacts ==
  ASSUME NEW buf \in Seq(Char), NEW keys
  PROVE  LET h == ComputeHoldback(buf, keys)
         IN  /\ h \in 0..Len(buf)
             /\ h > 0 => BeginsKey(buf, h, keys)
             /\ \A g \in 1..Len(buf) : BeginsKey(buf, g, keys) => g <= h
<1> DEFINE lengths == {h \in 1..Len(buf) : BeginsKey(buf, h, keys)}
           h == CHOOSE x \in lengths : \A g \in lengths : g <= x
<1>1. Len(buf) \in Nat
  OBVIOUS
<1>2. CASE lengths = {}
  <2>1. ComputeHoldback(buf, keys) = 0
    BY <1>2, Zenon DEF ComputeHoldback
  <2>2. \A g \in 1..Len(buf) : ~BeginsKey(buf, g, keys)
    BY <1>2
  <2> QED BY <1>1, <2>1, <2>2
<1>3. CASE lengths # {}
  <2>1. \E x \in lengths : \A g \in lengths : g <= x
    <3>1. lengths \subseteq 0..Len(buf)
      OBVIOUS
    <3> HIDE DEF lengths
    <3> QED BY <1>1, <1>3, <3>1, GreatestNumber
  <2>2. h \in lengths /\ \A g \in lengths : g <= h
    <3> HIDE DEF lengths
    <3> QED BY <2>1
  <2>3. ComputeHoldback(buf, keys) = h
    BY <1>3, Zenon DEF ComputeHoldback
  <2> HIDE DEF h
  <2> QED BY <1>1, <2>2, <2>3
<1> QED BY <1>2, <1>3

-----------------------------------------------------------------------------
(* The beginnings of a text. *)

Upto(text, m) == SubSeq(text, 1, m)

KeysAt(text, i, mapping) == {k \in DOMAIN mapping : OccursAt(text, i, k)}

\* A beginning is as long as it should be and has the text's characters.
LEMMA UptoFacts ==
  ASSUME NEW text \in Seq(Char), NEW m \in 0..Len(text)
  PROVE  /\ Upto(text, m) \in Seq(Char) /\ Len(Upto(text, m)) = m
         /\ \A i \in 1..m : Upto(text, m)[i] = text[i]
         /\ \A i \in 1..m, j \in 1..m : SubSeq(Upto(text, m), i, j) = SubSeq(text, i, j)
<1>1. Len(text) \in Nat /\ m \in Nat
  OBVIOUS
<1>2. /\ Upto(text, m) \in Seq(Char) /\ Len(Upto(text, m)) = m
      /\ \A i \in 1..m : Upto(text, m)[i] = text[i]
  <2>1. \A i \in 1..m : text[i] \in Char
    BY <1>1
  <2> QED BY <1>1, <2>1, SubSeqProperties DEF Upto
<1>3. ASSUME NEW i \in 1..m, NEW j \in 1..m
      PROVE  SubSeq(Upto(text, m), i, j) = SubSeq(text, i, j)
  <2>1. 1 \in 1..Len(text) /\ m \in 1..Len(text) /\ i \in 1..(m - 1 + 1) /\ j \in 1..(m - 1 + 1)
    BY <1>1
  <2>2. SubSeq(SubSeq(text, 1, m), i, j) = SubSeq(text, 1 + i - 1, 1 + j - 1)
    BY <2>1, SubSeqOfSubSeq
  <2>3. 1 + i - 1 = i /\ 1 + j - 1 = j
    OBVIOUS
  <2> QED BY <2>2, <2>3 DEF Upto
<1> QED BY <1>2, <1>3

\* A string occurs in a beginning where it occurs in the text and fits.
LEMMA OccursUpto ==
  ASSUME NEW text \in Seq(Char), NEW m \in 0..Len(text), NEW i \in Nat \ {0},
         NEW s \in Seq(Char), s # << >>
  PROVE  OccursAt(Upto(text, m), i, s) <=> OccursAt(text, i, s) /\ i + Len(s) - 1 <= m
<1>1. Len(text) \in Nat /\ m \in Nat /\ m <= Len(text) /\ Len(s) \in Nat \ {0}
  BY EmptySeq
<1>2. Len(Upto(text, m)) = m
  BY UptoFacts
<1>3. CASE i + Len(s) - 1 <= m
  <2>1. i \in 1..m /\ i + Len(s) - 1 \in 1..m
    BY <1>1, <1>3
  <2>2. SubSeq(Upto(text, m), i, i + Len(s) - 1) = SubSeq(text, i, i + Len(s) - 1)
    BY <2>1, UptoFacts
  <2>3. i + Len(s) - 1 <= Len(text)
    BY <1>1, <1>3
  <2> QED BY <1>2, <1>3, <2>2, <2>3 DEF OccursAt
<1>4. CASE ~(i + Len(s) - 1 <= m)
  BY <1>2, <1>4 DEF OccursAt
<1> QED BY <1>3, <1>4

\* So the keys found in a beginning are the keys that fit.
LEMMA KeysUpto ==
  ASSUME NEW mapping, StringMapping(mapping), NEW text \in Seq(Char), NEW m \in 0..Len(text),
         NEW i \in Nat \ {0}
  PROVE  /\ KeysAt(Upto(text, m), i, mapping)
              = {k \in KeysAt(text, i, mapping) : i + Len(k) - 1 <= m}
         /\ Hit(text, i, mapping) <=> KeysAt(text, i, mapping) # {}
         /\ Hit(Upto(text, m), i, mapping) <=> KeysAt(Upto(text, m), i, mapping) # {}
<1>1. \A k \in DOMAIN mapping :
        OccursAt(Upto(text, m), i, k) <=> OccursAt(text, i, k) /\ i + Len(k) - 1 <= m
  BY OccursUpto DEF StringMapping
<1> QED BY <1>1 DEF KeysAt, Hit

\* The key that a match takes, where the text goes on behind it, and the
\* possessive endings that may follow.
KeyAt(text, i, mapping) == Longest(KeysAt(text, i, mapping))

Behind(text, i, mapping) == i + Len(KeyAt(text, i, mapping))

EndsAt(text, i) == {e \in Ending : OccursAt(text, i, e)} \cup {<< >>}

\* What takes the place of the key, and of the match.
Piece(text, i, mapping) ==
  MatchCase(SubSeq(text, i, Behind(text, i, mapping) - 1), mapping[KeyAt(text, i, mapping)])

Put(text, i, mapping) ==
  Piece(text, i, mapping)
    \o SubSeq(text, Behind(text, i, mapping), Match(text, i, mapping).next - 1)

\* A match takes a key, then the longest ending, and puts something for a word.
MatchedAs(text, i, mapping, key, behind, ends, next) ==
  /\ key \in KeysAt(text, i, mapping) /\ key \in Seq(Char) /\ Len(key) \in Nat \ {0}
  /\ behind = i + Len(key) /\ behind - 1 <= Len(text)
  /\ Longest(ends) \in ends /\ \A e \in ends : Len(e) <= Len(Longest(ends))
  /\ Len(Longest(ends)) \in Nat /\ next = behind + Len(Longest(ends))
  /\ next \in (i + 1)..(Len(text) + 1)
  /\ LeftBoundaryClear(text, i) /\ RightBoundaryClear(text, next) =>
       Match(text, i, mapping).put = Put(text, i, mapping)
  /\ Match(text, i, mapping).put \in {Put(text, i, mapping), SubSeq(text, i, next - 1)}

\* A match: the key, the ending, and what is put when it is a word.
LEMMA MatchParts ==
  ASSUME NEW mapping, StringMapping(mapping), NEW text \in Seq(Char),
         NEW i \in 1..Len(text), Hit(text, i, mapping),
         NEW key, key = KeyAt(text, i, mapping),
         NEW behind, behind = Behind(text, i, mapping),
         NEW ends, ends = EndsAt(text, behind),
         NEW next, next = Match(text, i, mapping).next
  PROVE  MatchedAs(text, i, mapping, key, behind, ends, next)
<1>1. key \in KeysAt(text, i, mapping)
  <2>1. KeysAt(text, i, mapping) # {} /\ \A k \in KeysAt(text, i, mapping) : Len(k) \in 0..Len(text)
    BY DEF KeysAt, Hit, OccursAt, StringMapping
  <2> QED BY <2>1, LongestFacts DEF KeyAt
<1>2. key \in DOMAIN mapping /\ OccursAt(text, i, key) /\ key \in Seq(Char) /\ key # << >>
  BY <1>1 DEF StringMapping, KeysAt
<1>3. Len(key) \in Nat \ {0} /\ behind = i + Len(key) /\ behind - 1 <= Len(text)
  BY <1>2, EmptySeq DEF OccursAt, Behind
<1>4. ends # {} /\ \A e \in ends : Len(e) \in 0..Len(text)
  <2>1. \A e \in Ending : e \in Seq(Char)
    BY CharAssumption
  <2>2. \A e \in Ending : OccursAt(text, behind, e) => Len(e) <= Len(text)
    BY <1>3, <2>1 DEF OccursAt
  <2> QED BY <2>1, <2>2 DEF EndsAt
<1>5. Longest(ends) \in ends /\ \A e \in ends : Len(e) <= Len(Longest(ends))
  BY <1>4, LongestFacts
<1> DEFINE cased == MatchCase(SubSeq(text, i, behind - 1), mapping[key])
                      \o SubSeq(text, behind, next - 1)
           word == LeftBoundaryClear(text, i) /\ RightBoundaryClear(text, next)
<1>6. next = behind + Len(Longest(ends))
  BY <1>3 DEF Match, KeyAt, KeysAt, EndsAt
<1>7. Match(text, i, mapping).put = IF word THEN cased ELSE SubSeq(text, i, next - 1)
  BY <1>3, <1>6 DEF Match, KeyAt, KeysAt, EndsAt
<1>8. next \in (i + 1)..(Len(text) + 1)
  BY MatchFacts
<1>9. Len(Longest(ends)) \in Nat
  BY <1>4, <1>5
<1>10. word => Match(text, i, mapping).put = Put(text, i, mapping)
  BY <1>7 DEF Put, Piece
<1>11. Match(text, i, mapping).put \in {Put(text, i, mapping), SubSeq(text, i, next - 1)}
  BY <1>7 DEF Put, Piece
<1> QED BY <1>1, <1>2, <1>3, <1>5, <1>6, <1>8, <1>9, <1>10, <1>11 DEF MatchedAs

\* The parts of every match.
LEMMA MatchAt ==
  ASSUME NEW mapping, StringMapping(mapping), NEW text \in Seq(Char),
         NEW i \in 1..Len(text), Hit(text, i, mapping)
  PROVE  MatchedAs(text, i, mapping, KeyAt(text, i, mapping), Behind(text, i, mapping),
                   EndsAt(text, Behind(text, i, mapping)), Match(text, i, mapping).next)
<1> QED BY MatchParts
=============================================================================
