-------------------------- MODULE StreamingProofs --------------------------
(***************************************************************************)
(* For every mapping and answer: the client sees the answer restored, if   *)
(* the session's pseudonyms stand apart in it, however it is cut into      *)
(* chunks and samples.                                                     *)
(***************************************************************************)
EXTENDS Streaming, ReplacerTheorems

-----------------------------------------------------------------------------
(* Types of a stream. *)

\* The session's mapping and its inverse map strings to strings.
LEMMA BothStringMappings == StringMapping(Forward) /\ StringMapping(Backward)
<1>1. DOMAIN Forward \subseteq Seq(Char) \ {<< >>} /\ \A k \in DOMAIN Forward : Forward[k] \in Seq(Char) \ {<< >>}
  BY StreamAssumption
<1>2. DOMAIN Backward = {Forward[k] : k \in DOMAIN Forward}
  BY StreamAssumption
<1>3. \A p \in DOMAIN Backward : Backward[p] \in DOMAIN Forward /\ Forward[Backward[p]] = p
  BY StreamAssumption
<1>4. DOMAIN Backward \subseteq Seq(Char) \ {<< >>}
  BY <1>1, <1>2
<1> QED BY <1>1, <1>3, <1>4 DEF StringMapping

\* What the client has been sent stays a string.
LEMMA EmitTyped ==
  ASSUME sent \in Seq(Char), NEW text \in Seq(Char), NEW holdback \in 0..Len(text)
  PROVE  Emit(text, holdback) \in Seq(Char)
<1>1. SubSeq(text, Len(sent) + 1, Len(text) - holdback) \in Seq(Char)
  <2>1. \A i \in (Len(sent) + 1)..(Len(text) - holdback) : text[i] \in Char
    OBVIOUS
  <2>2. Len(sent) + 1 \in Int /\ Len(text) - holdback \in Int
    OBVIOUS
  <2> QED BY <2>1, <2>2, SubSeqProperties
<1> QED BY <1>1, ConcatProperties DEF Emit

\* What has arrived is a string.
LEMMA AccumulatedTyped ==
  ASSUME answer \in Seq(Char), got \in 0..Len(answer)
  PROVE  Accumulated \in Seq(Char) /\ Len(Accumulated) = got
BY DEF Accumulated

\* A sample of any text is a string, and no more of it is held back than it has.
HoldsLess(raw) ==
  LET response == ReverseStream(raw) IN response.holdback \in 0..Len(response.text)

LEMMA SampleTyped ==
  ASSUME NEW raw \in Seq(Char)
  PROVE  /\ ReverseStream(raw).text = Replace(raw, Backward)
         /\ Replace(raw, Backward) \in Seq(Char)
         /\ ReverseStream(raw).holdback \in 0..Len(Replace(raw, Backward))
         /\ HoldsLess(raw)
<1> DEFINE restored == Replace(raw, Backward)
           h == ComputeHoldback(restored, DOMAIN Backward)
<1>1. restored \in Seq(Char)
  BY BothStringMappings, ReplaceTyped
<1>2. h \in 0..Len(restored)
  <2> HIDE DEF restored
  <2> QED BY <1>1, HoldbackFacts
<1>3. ReverseStream(raw).text = restored /\ ReverseStream(raw).holdback = h
  BY DEF ReverseStream
<1> HIDE DEF restored, h
<1> QED BY <1>1, <1>2, <1>3 DEF HoldsLess, restored

\* Nothing has arrived before the model is asked.
AskedFirst == phase = "ask" => got = 0 /\ sent = << >>

\* A stream's variables have their types.
Shaped ==
  /\ prompt \in Prompt
  /\ answer \in Seq(Char)
  /\ got \in 0..Len(answer)
  /\ sent \in Seq(Char)
  /\ phase \in {"ask", "stream", "closed"}
  /\ lapsed \in BOOLEAN

LEMMA ShapedFits == TypeOK <=> Shaped
<1>1. TypeOK <=> Shaped /\ HoldsLess(Accumulated)
  BY DEF TypeOK, Shaped, HoldsLess
<1>2. Shaped => HoldsLess(Accumulated)
  <2>1. Shaped => Accumulated \in Seq(Char)
    BY AccumulatedTyped DEF Shaped
  <2> QED BY <2>1, SampleTyped
<1> QED BY <1>1, <1>2

\* Whatever has arrived of whatever answer: what the scan returns is a string, and
\* a sample of it would not hold back more than its restored text has
\* (ReverseStream, Replace, ComputeHoldback).
THEOREM StreamTyped == Spec => []TypeOK
<1>1. Init => Shaped /\ AskedFirst
  <2>1. << >> \in Seq(Char) /\ 0 \in 0..Len(<< >>)
    BY EmptySeq
  <2> QED BY <2>1 DEF Init, Shaped, AskedFirst
<1>2. Shaped /\ AskedFirst /\ [Next]_vars => Shaped'
  <2> SUFFICES ASSUME Shaped, AskedFirst, [Next]_vars PROVE Shaped'
    OBVIOUS
  <2> DEFINE restored == Replace(Accumulated, Backward)
  <2>1. /\ Accumulated \in Seq(Char) /\ restored \in Seq(Char)
        /\ ReverseStream(Accumulated).text = restored
        /\ ReverseStream(Accumulated).holdback \in 0..Len(restored)
    <3>1. Accumulated \in Seq(Char)
      BY AccumulatedTyped DEF Shaped
    <3> QED BY <3>1, SampleTyped
  <2>2. sent \in Seq(Char)
    BY DEF Shaped
  <2> HIDE DEF restored
  <2>3. CASE Ask
    <3>1. prompt \in Seq(Char)
      BY StreamAssumption DEF Shaped
    <3>2. Echo \in Seq(Char)
      BY <3>1, BothStringMappings, ReplaceTyped DEF Echo
    <3>3. Free \subseteq Seq(Char)
      BY StreamAssumption
    <3>4. /\ answer' \in {Echo} \cup Free /\ phase' = "stream"
          /\ UNCHANGED <<prompt, got, sent, lapsed>> /\ phase = "ask"
      BY <2>3 DEF Ask
    <3> QED BY <3>2, <3>3, <3>4 DEF Shaped, AskedFirst
  <2>4. CASE Chunk
    BY <2>4 DEF Chunk, Shaped
  <2>5. CASE Sample
    <3>1. /\ sent' = Emit(restored, ReverseStream(Accumulated).holdback)
          /\ UNCHANGED <<prompt, answer, got, phase, lapsed>>
      BY <2>1, <2>5 DEF Sample
    <3>2. sent' \in Seq(Char)
      BY <2>1, <2>2, <3>1, EmitTyped
    <3> QED BY <3>1, <3>2 DEF Shaped
  <2>6. CASE SampleUnavailable
    <3>1. /\ sent' = Emit(Accumulated, 0) /\ lapsed' = TRUE
          /\ UNCHANGED <<prompt, answer, got, phase>>
      BY <2>6 DEF SampleUnavailable
    <3>2. 0 \in 0..Len(Accumulated)
      BY <2>1
    <3>3. sent' \in Seq(Char)
      BY <2>1, <2>2, <3>1, <3>2, EmitTyped
    <3> QED BY <3>1, <3>3 DEF Shaped
  <2>7. CASE Close
    <3>1. /\ sent' = Emit(restored, 0) /\ phase' = "closed"
          /\ UNCHANGED <<prompt, answer, got, lapsed>>
      BY <2>1, <2>7 DEF Close
    <3>2. 0 \in 0..Len(restored)
      BY <2>1
    <3>3. sent' \in Seq(Char)
      BY <2>1, <2>2, <3>1, <3>2, EmitTyped
    <3> QED BY <3>1, <3>3 DEF Shaped
  <2>8. CASE Closed \/ UNCHANGED vars
    BY <2>8 DEF Closed, vars, Shaped
  <2> QED BY <2>3, <2>4, <2>5, <2>6, <2>7, <2>8 DEF Next
<1>3. AskedFirst /\ [Next]_vars => AskedFirst'
  BY DEF AskedFirst, Next, Ask, Chunk, Sample, SampleUnavailable, Close, Closed, vars
<1> QED BY <1>1, <1>2, <1>3, ShapedFits, PTL DEF Spec

-----------------------------------------------------------------------------
(* A beginning of a text in which the keys stand apart. *)

\* What Apart says of a hit.
LEMMA ApartFacts ==
  ASSUME NEW mapping, StringMapping(mapping), NEW text \in Seq(Char), Apart(text, mapping),
         NEW i \in 1..Len(text), Hit(text, i, mapping)
  PROVE  /\ \A k, l \in KeysAt(text, i, mapping) : Len(k) = Len(l)
         /\ LeftBoundaryClear(text, i)
         /\ \A k \in KeysAt(text, i, mapping) : \A m \in (i + Len(k) - 1)..Len(text) :
              RightBoundaryClear(Upto(text, m), Match(Upto(text, m), i, mapping).next)
         /\ \A j \in 1..Len(text) :
              Hit(text, j, mapping) => j <= i \/ j > Match(text, i, mapping).next
<1> DEFINE keysAt(j) == {k \in DOMAIN mapping : OccursAt(text, j, k)}
           hits == {j \in 1..Len(text) : keysAt(j) # {}}
<1>1. \A j \in 1..Len(text) : j \in hits <=> Hit(text, j, mapping)
  BY DEF Hit
<1>2. i \in hits
  BY <1>1
<1>3. /\ \A k, l \in keysAt(i) : Len(k) = Len(l)
      /\ LeftBoundaryClear(text, i)
      /\ \A k \in keysAt(i) : \A m \in (i + Len(k) - 1)..Len(text) :
           RightBoundaryClear(SubSeq(text, 1, m), Match(SubSeq(text, 1, m), i, mapping).next)
      /\ \A j \in hits : j <= i \/ j > Match(text, i, mapping).next
  BY <1>2, Zenon DEF Apart
<1> HIDE DEF hits
<1> QED BY <1>1, <1>3 DEF KeysAt, Upto

\* A match in a beginning that holds the key is a beginning of the match.
LEMMA MatchUpto ==
  ASSUME NEW mapping, StringMapping(mapping), NEW text \in Seq(Char), Apart(text, mapping),
         NEW i \in 1..Len(text), Hit(text, i, mapping),
         NEW m \in i..Len(text), Hit(Upto(text, m), i, mapping)
  PROVE  LET whole == Match(text, i, mapping)
             some == Match(Upto(text, m), i, mapping)
         IN  /\ some.next \in (i + 1)..(m + 1) /\ some.next <= whole.next
             /\ whole.next <= m + 1 => some = whole
             /\ \E piece \in Seq(Char), behind \in (i + 1)..(m + 1) :
                  /\ behind <= some.next
                  /\ some.put = piece \o SubSeq(text, behind, some.next - 1)
                  /\ whole.put = piece \o SubSeq(text, behind, whole.next - 1)
<1> DEFINE part == Upto(text, m)
           whole == Match(text, i, mapping)
           some == Match(part, i, mapping)
           key == KeyAt(text, i, mapping)
           behind == Behind(text, i, mapping)
           ends == EndsAt(text, behind)
           partEnds == EndsAt(part, behind)
<1>1. /\ part \in Seq(Char) /\ Len(part) = m /\ i \in 1..m /\ m \in 0..Len(text)
      /\ m \in Nat /\ Len(text) \in Nat /\ i \in Nat \ {0}
  <2>1. m \in 0..Len(text) /\ i \in 1..m /\ m \in Nat /\ Len(text) \in Nat /\ i \in Nat \ {0}
    OBVIOUS
  <2> QED BY <2>1, UptoFacts
<1>2. KeysAt(part, i, mapping) = KeysAt(text, i, mapping)
  <2>1. KeysAt(part, i, mapping) = {k \in KeysAt(text, i, mapping) : i + Len(k) - 1 <= m}
    BY <1>1, KeysUpto
  <2>2. KeysAt(part, i, mapping) # {}
    BY <1>1, KeysUpto
  <2>3. PICK l \in KeysAt(text, i, mapping) : i + Len(l) - 1 <= m
    BY <2>1, <2>2
  <2>4. \A k \in KeysAt(text, i, mapping) : Len(k) = Len(l)
    BY ApartFacts
  <2> QED BY <2>1, <2>3, <2>4
<1>3. /\ key \in KeysAt(text, i, mapping) /\ key \in Seq(Char) /\ Len(key) \in Nat \ {0}
      /\ behind = i + Len(key)
      /\ Longest(ends) \in ends /\ \A e \in ends : Len(e) <= Len(Longest(ends))
      /\ Len(Longest(ends)) \in Nat
      /\ whole.next = behind + Len(Longest(ends))
      /\ whole.next \in (i + 1)..(Len(text) + 1)
      /\ LeftBoundaryClear(text, i) /\ RightBoundaryClear(text, whole.next) =>
           whole.put = Put(text, i, mapping)
  <2>1. MatchedAs(text, i, mapping, key, behind, ends, whole.next)
    BY MatchAt
  <2> HIDE DEF key, behind, ends, whole
  <2>2. whole = Match(text, i, mapping)
    BY DEF whole
  <2> QED BY <2>1, <2>2 DEF MatchedAs
<1>4. /\ behind - 1 <= m
      /\ Longest(partEnds) \in partEnds /\ \A e \in partEnds : Len(e) <= Len(Longest(partEnds))
      /\ Len(Longest(partEnds)) \in Nat
      /\ some.next = behind + Len(Longest(partEnds))
      /\ some.next \in (i + 1)..(m + 1)
      /\ LeftBoundaryClear(part, i) /\ RightBoundaryClear(part, some.next) =>
           some.put = Put(part, i, mapping)
      /\ key = KeyAt(part, i, mapping) /\ behind = Behind(part, i, mapping)
  <2>1. i \in 1..Len(part) /\ Hit(part, i, mapping)
    BY <1>1
  <2>2. key = KeyAt(part, i, mapping) /\ behind = Behind(part, i, mapping)
    BY <1>2 DEF KeyAt, Behind
  <2>3. /\ behind - 1 <= Len(part)
        /\ Longest(partEnds) \in partEnds /\ \A e \in partEnds : Len(e) <= Len(Longest(partEnds))
        /\ Len(Longest(partEnds)) \in Nat
        /\ some.next = behind + Len(Longest(partEnds))
        /\ some.next \in (i + 1)..(Len(part) + 1)
        /\ LeftBoundaryClear(part, i) /\ RightBoundaryClear(part, some.next) =>
             some.put = Put(part, i, mapping)
    <3>1. MatchedAs(part, i, mapping, key, behind, partEnds, some.next)
      BY <1>1, <2>1, <2>2, MatchAt
    <3>2. some = Match(part, i, mapping)
      OBVIOUS
    <3> HIDE DEF key, behind, partEnds, some
    <3> QED BY <3>1, <3>2 DEF MatchedAs
  <2> QED BY <1>1, <2>2, <2>3
<1> HIDE DEF key, behind
<1>5. \A e \in Ending : OccursAt(part, behind, e) <=> OccursAt(text, behind, e) /\ behind + Len(e) - 1 <= m
  <2>1. behind \in Nat \ {0} /\ \A e \in Ending : e \in Seq(Char) /\ e # << >>
    BY <1>1, <1>3, CharAssumption
  <2> QED BY <1>1, <2>1, OccursUpto
<1>6. partEnds \subseteq ends /\ some.next <= whole.next
  <2>1. partEnds \subseteq ends
    BY <1>5 DEF EndsAt
  <2>2. Len(Longest(partEnds)) <= Len(Longest(ends))
    BY <1>3, <1>4, <2>1
  <2> HIDE DEF ends, partEnds
  <2> QED BY <1>1, <1>3, <1>4, <2>1, <2>2
<1>7. whole.next <= m + 1 => partEnds = ends
  <2> SUFFICES ASSUME whole.next <= m + 1, NEW e \in ends PROVE e \in partEnds
    BY <1>6
  <2>1. CASE e = << >>
    BY <2>1 DEF EndsAt
  <2>2. CASE e \in Ending /\ OccursAt(text, behind, e)
    <3>1. Len(e) <= Len(Longest(ends)) /\ Len(e) \in Nat
      BY <1>3, <2>2, CharAssumption
    <3>2. behind + Len(e) - 1 <= m
      BY <1>1, <1>3, <3>1
    <3> QED BY <1>5, <2>2, <3>2 DEF EndsAt
  <2> QED BY <2>1, <2>2 DEF EndsAt
<1>8. /\ LeftBoundaryClear(text, i) /\ LeftBoundaryClear(part, i)
      /\ RightBoundaryClear(text, whole.next) /\ RightBoundaryClear(part, some.next)
  <2>1. LeftBoundaryClear(text, i)
    BY ApartFacts
  <2>2. LeftBoundaryClear(part, i)
    <3>1. CASE i = 1
      BY <3>1 DEF LeftBoundaryClear
    <3>2. CASE i # 1
      <4>1. i - 1 \in 1..m
        BY <1>1, <3>2
      <4>2. part[i - 1] = text[i - 1]
        BY <1>1, <4>1, UptoFacts
      <4> QED BY <2>1, <4>2 DEF LeftBoundaryClear
    <3> QED BY <3>1, <3>2
  <2>3. m \in (i + Len(key) - 1)..Len(text) /\ Len(text) \in (i + Len(key) - 1)..Len(text)
    BY <1>1, <1>3, <1>4
  <2>4. RightBoundaryClear(part, some.next)
    BY <1>3, <2>3, ApartFacts
  <2>5. Upto(text, Len(text)) = text
    BY SubSeqFull DEF Upto
  <2>6. RightBoundaryClear(text, whole.next)
    BY <1>3, <2>3, <2>5, ApartFacts
  <2> QED BY <2>1, <2>2, <2>4, <2>6
<1> DEFINE piece == Piece(text, i, mapping)
<1>9. piece \in Seq(Char) /\ behind \in (i + 1)..(m + 1) /\ behind <= some.next
  <2>1. mapping[key] \in Seq(Char)
    BY <1>3 DEF KeysAt, StringMapping
  <2>2. piece \in Seq(Char)
    BY <2>1, CasesTyped DEF MatchCase, Piece, key
  <2>3. behind \in (i + 1)..(m + 1) /\ behind <= some.next
    BY <1>1, <1>3, <1>4
  <2> QED BY <2>2, <2>3
<1>10. whole.put = piece \o SubSeq(text, behind, whole.next - 1)
  BY <1>3, <1>8 DEF Put, behind
<1>11. some.put = piece \o SubSeq(text, behind, some.next - 1)
  <2>1. SubSeq(part, i, behind - 1) = SubSeq(text, i, behind - 1)
    <3>1. i \in 1..m /\ behind - 1 \in 1..m
      BY <1>1, <1>3, <1>4
    <3> QED BY <1>1, <3>1, UptoFacts
  <2>2. SubSeq(part, behind, some.next - 1) = SubSeq(text, behind, some.next - 1)
    <3>1. CASE behind \in 1..m /\ some.next - 1 \in 1..m
      BY <1>1, <3>1, UptoFacts
    <3>2. CASE ~(behind \in 1..m /\ some.next - 1 \in 1..m)
      <4>1. some.next - 1 < behind /\ some.next - 1 \in Int /\ behind \in Int
        BY <1>1, <1>4, <1>9, <3>2
      <4> QED BY <4>1, SubSeqEmpty
    <3> QED BY <3>1, <3>2
  <2>3. Piece(part, i, mapping) = piece
    BY <1>4, <1>8, <2>1 DEF Piece, behind, key
  <2> QED BY <1>4, <1>8, <2>2, <2>3 DEF Put
<1>12. ASSUME whole.next <= m + 1 PROVE some = whole
  <2>1. some.next = whole.next
    BY <1>3, <1>4, <1>7, <1>12
  <2>2. some.put = whole.put
    BY <1>10, <1>11, <2>1
  <2> DEFINE record(x, y) == [put |-> x, next |-> y]
  <2>3. some = record(some.put, some.next) /\ whole = record(whole.put, whole.next)
    BY DEF Match
  <2> QED BY <2>1, <2>2, <2>3
<1> QED BY <1>4, <1>6, <1>9, <1>10, <1>11, <1>12

-----------------------------------------------------------------------------
(* What a beginning and the whole text have in common. *)

\* No match of the text goes on over i.
Cut(text, i, mapping) ==
  \A l \in 1..(i - 1) : Hit(text, l, mapping) => Match(text, l, mapping).next <= i

\* A match ends there.
EndsHere(text, i, mapping) ==
  \E l \in 1..(i - 1) : Hit(text, l, mapping) /\ Match(text, l, mapping).next = i

\* What two scans have put before i is the same; and where no match ends, what
\* comes last is the text's.
Shared(some, whole, text, i, mapping) ==
  \E w \in Seq(Char) :
    /\ some[1] = w \o some[i] /\ whole[1] = w \o whole[i]
    /\ i = 1 => w = << >>
    /\ i > 1 /\ ~EndsHere(text, i, mapping) => w # << >> /\ w[Len(w)] = text[i - 1]

\* The scans of a beginning and of the whole text share what they put before a
\* place that no match goes on over.
LEMMA SameBeginning ==
  ASSUME NEW mapping, StringMapping(mapping), NEW text \in Seq(Char), Apart(text, mapping),
         NEW m \in 0..Len(text),
         NEW some, IsScan(some, Upto(text, m), mapping),
         NEW whole, IsScan(whole, text, mapping)
  PROVE  \A i \in 1..(m + 1) : Cut(text, i, mapping) => Shared(some, whole, text, i, mapping)
<1> USE DEF Shared
<1> DEFINE part == Upto(text, m)
           same(i) == Shared(some, whole, text, i, mapping)
           bad == {i \in 1..(m + 1) : Cut(text, i, mapping) /\ ~same(i)}
<1> SUFFICES ASSUME bad # {} PROVE FALSE
  OBVIOUS
<1>1. /\ m \in Nat /\ m <= Len(text) /\ Len(text) \in Nat
      /\ part \in Seq(Char) /\ Len(part) = m /\ \A j \in 1..m : part[j] = text[j]
  <2>1. m \in Nat /\ m <= Len(text) /\ Len(text) \in Nat
    OBVIOUS
  <2> QED BY <2>1, UptoFacts
<1>2. /\ \A j \in 1..(m + 1) : some[j] \in Seq(Char)
      /\ \A j \in 1..(Len(text) + 1) : whole[j] \in Seq(Char)
  BY <1>1, ScanTyped DEF IsScan
<1>3. PICK i \in bad : \A j \in bad : i <= j
  <2>1. bad \subseteq Nat
    OBVIOUS
  <2> HIDE DEF bad
  <2> QED BY <2>1, LeastNumber
<1>4. i \in 1..(m + 1) /\ Cut(text, i, mapping) /\ ~same(i)
  BY <1>3
<1>5. \A j \in 1..(i - 1) : Cut(text, j, mapping) => same(j)
  <2>1. \A j \in 1..(i - 1) : j \in 1..(m + 1) /\ ~(i <= j)
    BY <1>1, <1>4
  <2> HIDE DEF same
  <2> QED BY <1>3, <2>1
<1>6. i # 1
  <2>1. << >> \in Seq(Char) /\ some[1] = << >> \o some[1] /\ whole[1] = << >> \o whole[1]
    <3>1. some[1] \in Seq(Char) /\ whole[1] \in Seq(Char)
      BY <1>1, <1>2
    <3> QED BY <3>1, ConcatEmptySeq, EmptySeq
  <2>2. same(1)
    <3> WITNESS << >> \in Seq(Char)
    <3> QED BY <2>1
  <2> HIDE DEF same
  <2> QED BY <1>4, <2>2
<1>7. CASE EndsHere(text, i, mapping)
  <2>1. PICK l \in 1..(i - 1) : Hit(text, l, mapping) /\ Match(text, l, mapping).next = i
    BY <1>7 DEF EndsHere
  <2>2. l \in 1..m /\ l \in 1..Len(text) /\ m \in l..Len(text)
    BY <1>1, <1>4, <2>1
  <2>3. Cut(text, l, mapping)
    <3>1. ASSUME NEW x \in 1..(l - 1), Hit(text, x, mapping)
          PROVE  Match(text, x, mapping).next <= l
      <4>1. x \in 1..Len(text) /\ ~(l <= x)
        BY <2>2
      <4>2. l > Match(text, x, mapping).next
        BY <2>1, <2>2, <3>1, <4>1, ApartFacts
      <4>3. Match(text, x, mapping).next \in Nat
        BY <1>1, <3>1, <4>1, MatchFacts
      <4> QED BY <2>2, <4>2, <4>3
    <3> QED BY <3>1 DEF Cut
  <2>4. PICK w \in Seq(Char) : some[1] = w \o some[l] /\ whole[1] = w \o whole[l]
    BY <1>5, <2>1, <2>3
  <2>5. Hit(part, l, mapping)
    <3>1. PICK k \in KeysAt(text, l, mapping) : TRUE
      BY <2>1, <2>2, KeysUpto
    <3>2. k = k /\ KeyAt(text, l, mapping) \in KeysAt(text, l, mapping)
          /\ Len(KeyAt(text, l, mapping)) \in Nat \ {0}
          /\ i = Behind(text, l, mapping) + Len(Longest(EndsAt(text, Behind(text, l, mapping))))
          /\ Len(Longest(EndsAt(text, Behind(text, l, mapping)))) \in Nat
          /\ Behind(text, l, mapping) = l + Len(KeyAt(text, l, mapping))
      <4>1. MatchedAs(text, l, mapping, KeyAt(text, l, mapping), Behind(text, l, mapping),
                      EndsAt(text, Behind(text, l, mapping)), Match(text, l, mapping).next)
        BY <2>1, <2>2, MatchAt
      <4> QED BY <2>1, <4>1 DEF MatchedAs
    <3>3. l + Len(KeyAt(text, l, mapping)) - 1 <= m
      BY <1>1, <1>4, <2>2, <3>2
    <3>4. KeyAt(text, l, mapping) \in KeysAt(part, l, mapping)
      BY <1>1, <2>2, <3>2, <3>3, KeysUpto
    <3> QED BY <1>1, <2>2, <3>4, KeysUpto
  <2>6. Match(part, l, mapping) = Match(text, l, mapping)
    <3>1. Match(text, l, mapping).next <= m + 1
      BY <1>1, <1>4, <2>1
    <3> QED BY <2>1, <2>2, <2>5, <3>1, MatchUpto
  <2> DEFINE put == Match(text, l, mapping).put
  <2>7. some[l] = put \o some[i] /\ whole[l] = put \o whole[i] /\ put \in Seq(Char)
    <3>1. l \in 1..Len(part) /\ part \in Seq(Char) /\ IsScan(some, part, mapping)
      BY <1>1, <2>2
    <3>2. put \in Seq(Char)
      BY <2>1, <2>2, MatchFacts
    <3>3. whole[l] = put \o whole[i]
      <4>1. whole[l] = put \o whole[Match(text, l, mapping).next]
        BY <2>1, <2>2, ScanHit
      <4> QED BY <2>1, <4>1
    <3>4. some[l] = put \o some[i]
      <4> HIDE DEF part
      <4>1. some[l] = Match(part, l, mapping).put \o some[Match(part, l, mapping).next]
        BY <2>5, <3>1, ScanHit
      <4> QED BY <2>1, <2>6, <4>1
    <3> QED BY <3>2, <3>3, <3>4
  <2> HIDE DEF put
  <2>8. some[i] \in Seq(Char) /\ whole[i] \in Seq(Char)
    BY <1>1, <1>2, <1>4
  <2>9. some[1] = (w \o put) \o some[i] /\ whole[1] = (w \o put) \o whole[i] /\ w \o put \in Seq(Char)
    <3>1. /\ (w \o put) \o some[i] = w \o (put \o some[i])
          /\ (w \o put) \o whole[i] = w \o (put \o whole[i])
      BY <2>4, <2>7, <2>8, JoinedThrice, Zenon
    <3>2. w \o put \in Seq(Char)
      BY <2>4, <2>7, ConcatProperties
    <3> QED BY <2>4, <2>7, <3>1, <3>2, Zenon
  <2>10. same(i)
    BY <1>6, <1>7, <2>9
  <2> QED BY <1>4, <2>10
<1>8. CASE ~EndsHere(text, i, mapping)
  <2> DEFINE j == i - 1
  <2>1. j \in 1..m /\ j \in 1..Len(text) /\ j \in 1..(i - 1) /\ j + 1 = i
    BY <1>1, <1>4, <1>6
  <2>2. ~Hit(text, j, mapping)
    <3> SUFFICES ASSUME Hit(text, j, mapping) PROVE FALSE
      OBVIOUS
    <3>1. Match(text, j, mapping).next \in (j + 1)..(Len(text) + 1)
      BY <2>1, MatchFacts
    <3>2. Match(text, j, mapping).next <= i
      BY <1>4, <2>1 DEF Cut
    <3>3. Match(text, j, mapping).next = i
      BY <1>1, <1>4, <2>1, <3>1, <3>2
    <3> QED BY <1>8, <2>1, <3>3 DEF EndsHere
  <2>3. ~Hit(part, j, mapping)
    BY <1>1, <2>1, <2>2, KeysUpto
  <2>4. Cut(text, j, mapping)
    <3>1. ASSUME NEW x \in 1..(j - 1), Hit(text, x, mapping)
          PROVE  Match(text, x, mapping).next <= j
      <4>1. x \in 1..(i - 1) /\ x \in 1..Len(text)
        BY <1>1, <1>4, <2>1
      <4>2. Match(text, x, mapping).next <= i /\ Match(text, x, mapping).next # i
        BY <1>4, <1>8, <3>1, <4>1 DEF Cut, EndsHere
      <4>3. Match(text, x, mapping).next \in Nat
        BY <1>1, <3>1, <4>1, MatchFacts
      <4> QED BY <1>1, <1>4, <4>2, <4>3
    <3> QED BY <3>1 DEF Cut
  <2>5. PICK w \in Seq(Char) : some[1] = w \o some[j] /\ whole[1] = w \o whole[j]
    BY <1>5, <2>1, <2>4
  <2> DEFINE c == <<text[j]>>
  <2>6. c \in Seq(Char) /\ Len(c) = 1 /\ c[1] = text[j]
    BY <2>1
  <2>7. some[j] = c \o some[i] /\ whole[j] = c \o whole[i]
    <3>1. some[j] = <<part[j]>> \o some[j + 1]
      <4>1. j \in 1..Len(part)
        BY <1>1, <2>1
      <4>2. part \in Seq(Char)
        BY <1>1
      <4>3. CopiesMissed(some, part, mapping)
        BY <4>2, ScanMiss
      <4> HIDE DEF j, part
      <4> QED BY <2>3, <4>1, <4>3, Zenon DEF CopiesMissed
    <3>2. whole[j] = <<text[j]>> \o whole[j + 1]
      <4>1. CopiesMissed(whole, text, mapping)
        BY ScanMiss
      <4> HIDE DEF j
      <4> QED BY <2>1, <2>2, <4>1, Zenon DEF CopiesMissed
    <3> QED BY <1>1, <2>1, <3>1, <3>2
  <2> HIDE DEF c, j
  <2>8. some[i] \in Seq(Char) /\ whole[i] \in Seq(Char)
    BY <1>1, <1>2, <1>4
  <2>9. some[1] = (w \o c) \o some[i] /\ whole[1] = (w \o c) \o whole[i] /\ w \o c \in Seq(Char)
    <3>1. /\ (w \o c) \o some[i] = w \o (c \o some[i])
          /\ (w \o c) \o whole[i] = w \o (c \o whole[i])
      BY <2>5, <2>6, <2>8, JoinedThrice, Zenon
    <3>2. w \o c \in Seq(Char)
      BY <2>5, <2>6, ConcatProperties
    <3> QED BY <2>5, <2>7, <3>1, <3>2, Zenon
  <2>10. w \o c # << >> /\ (w \o c)[Len(w \o c)] = text[i - 1]
    <3>1. Len(w \o c) = Len(w) + 1 /\ Len(w) \in Nat
      <4>1. Len(w \o c) = Len(w) + Len(c) /\ Len(w) \in Nat
        BY <2>5, <2>6, JoinedTwice, Zenon
      <4> QED BY <2>6, <4>1, Zenon
    <3>2. (w \o c)[Len(w) + 1] = c[1]
      BY <2>5, <2>6, <3>1, JoinedTwice
    <3>3. w \o c # << >>
      BY <2>9, <3>1, EmptySeq
    <3> QED BY <2>6, <3>1, <3>2, <3>3 DEF j
  <2>11. same(i)
    BY <1>6, <2>9, <2>10
  <2> QED BY <1>4, <2>11
<1> QED BY <1>7, <1>8

\* Two strings agree up to n.
Agree(s, t, n) == n <= Len(s) /\ n <= Len(t) /\ \A x \in 1..n : s[x] = t[x]

\* Strings that begin with the same agree on it.
LEMMA SameBegins ==
  ASSUME NEW w \in Seq(Char), NEW s \in Seq(Char), NEW t \in Seq(Char)
  PROVE  Agree(w \o s, w \o t, Len(w))
BY JoinedTwice DEF Agree

\* What is kept of the part of a key that stands at the end.
LEMMA PartHeld ==
  ASSUME NEW mapping, StringMapping(mapping), NEW text \in Seq(Char),
         NEW m \in 1..Len(text), NEW j \in 1..m,
         NEW k \in DOMAIN mapping, OccursAt(text, j, k), m < j + Len(k) - 1,
         NEW w \in Seq(Char), w = << >> \/ w[Len(w)] \notin WordChar \cup Apostrophe
  PROVE  BeginsKey(w \o SubSeq(text, j, m), m + 1 - j, DOMAIN mapping)
<1> DEFINE h == m + 1 - j
           tail == SubSeq(text, j, m)
           buf == w \o tail
<1>1. /\ m \in Nat /\ j \in Nat \ {0} /\ j <= m /\ Len(text) \in Nat /\ m <= Len(text)
      /\ h \in 1..m /\ h \in Nat \ {0}
  OBVIOUS
<1>2. k \in Seq(Char) /\ Len(k) \in Nat /\ h < Len(k)
  BY <1>1 DEF StringMapping
<1>3. tail \in Seq(Char) /\ Len(tail) = h /\ \A x \in 1..h : tail[x] = text[j + x - 1]
  <2>1. j \in Int /\ m \in Int /\ 1 <= j /\ j <= m + 1 /\ m <= Len(text) /\ m - j + 1 = h
    BY <1>1
  <2>2. /\ tail \in Seq(Char) /\ Len(tail) = m - j + 1
        /\ \A x \in 1..Len(tail) : tail[x] = text[j + x - 1]
    BY <2>1, PieceFacts
  <2> HIDE DEF tail, h
  <2> QED BY <2>1, <2>2
<1> HIDE DEF tail
<1>4. /\ buf \in Seq(Char) /\ Len(buf) = Len(w) + h /\ Len(w) \in Nat
      /\ \A x \in 1..Len(w) : buf[x] = w[x]
      /\ \A x \in 1..h : buf[Len(w) + x] = tail[x]
  <2>1. /\ buf \in Seq(Char) /\ Len(buf) = Len(w) + Len(tail) /\ Len(w) \in Nat
        /\ \A x \in 1..Len(w) : buf[x] = w[x]
        /\ \A x \in 1..Len(tail) : buf[Len(w) + x] = tail[x]
    BY <1>3, JoinedTwice
  <2> QED BY <1>3, <2>1
<1> HIDE DEF buf
<1>5. Len(buf) - h + 1 = Len(w) + 1
  BY <1>1, <1>4
<1>6. LeftBoundaryClear(buf, Len(w) + 1)
  <2>1. CASE w = << >>
    <3>1. Len(w) + 1 = 1
      BY <2>1
    <3> QED BY <3>1 DEF LeftBoundaryClear
  <2>2. CASE w # << >>
    <3>1. Len(w) \in 1..Len(w) /\ Len(w) + 1 - 1 = Len(w)
      BY <1>4, <2>2, EmptySeq
    <3>2. buf[Len(w)] = w[Len(w)]
      BY <1>4, <3>1
    <3> QED BY <2>2, <3>1, <3>2 DEF LeftBoundaryClear
  <2> QED BY <2>1, <2>2
<1> DEFINE begin == SubSeq(k, 1, h)
           end == SubSeq(buf, Len(w) + 1, Len(w) + h)
<1>7. begin \in Seq(Char) /\ Len(begin) = h /\ \A x \in 1..h : begin[x] = k[x]
  <2>1. h \in 0..Len(k)
    BY <1>1, <1>2
  <2> HIDE DEF h
  <2> QED BY <1>2, <2>1, UptoFacts DEF Upto
<1>8. end \in Seq(Char) /\ Len(end) = h /\ \A x \in 1..h : end[x] = tail[x]
  <2> DEFINE a == Len(w) + 1
             b == Len(w) + h
  <2>1. a \in Int /\ b \in Int /\ b - a + 1 = h /\ 1 <= a /\ a <= b + 1
    <3>1. h \in Nat /\ Len(w) \in Nat
      BY <1>1, <1>4
    <3> HIDE DEF h
    <3> QED BY <3>1
  <2>2. b <= Len(buf)
    BY <1>1, <1>4
  <2> HIDE DEF a, b, h
  <2>3. /\ SubSeq(buf, a, b) \in Seq(Char) /\ Len(SubSeq(buf, a, b)) = h
        /\ \A x \in 1..h : SubSeq(buf, a, b)[x] = buf[a + x - 1]
    <3>1. /\ SubSeq(buf, a, b) \in Seq(Char) /\ Len(SubSeq(buf, a, b)) = b - a + 1
          /\ \A x \in 1..Len(SubSeq(buf, a, b)) : SubSeq(buf, a, b)[x] = buf[a + x - 1]
      BY <1>4, <2>1, <2>2, PieceFacts
    <3> QED BY <2>1, <3>1
  <2>4. \A x \in 1..h : a + x - 1 = Len(w) + x
    BY <1>1, <1>4 DEF a
  <2>5. \A x \in 1..h : SubSeq(buf, a, b)[x] = tail[x]
    BY <1>4, <2>3, <2>4
  <2> QED BY <2>3, <2>5 DEF a, b
<1> HIDE DEF begin, end
<1>9. \A x \in 1..h : Lower[tail[x]] = Lower[k[x]]
  <2> DEFINE there == SubSeq(text, j, j + Len(k) - 1)
  <2>1. ToLower(there) = ToLower(k) /\ j + Len(k) - 1 <= Len(text)
    BY DEF OccursAt
  <2>2. /\ DOMAIN there = 1..Len(k) /\ \A x \in 1..Len(k) : there[x] = text[j + x - 1]
    <3> DEFINE last == j + Len(k) - 1
    <3>1. j \in Int /\ last \in Int /\ 1 <= j /\ j <= last + 1 /\ last - j + 1 = Len(k)
      BY <1>1, <1>2
    <3>2. last <= Len(text) /\ there = SubSeq(text, j, last)
      BY <2>1
    <3> HIDE DEF last, there
    <3>3. /\ there \in Seq(Char) /\ Len(there) = last - j + 1
          /\ \A x \in 1..Len(there) : there[x] = text[j + x - 1]
      BY <3>1, <3>2, PieceFacts
    <3> QED BY <3>1, <3>3
  <2> HIDE DEF there
  <2>3. DOMAIN k = 1..Len(k)
    BY <1>2
  <2>4. \A x \in 1..Len(k) : Lower[there[x]] = Lower[k[x]]
    BY <2>1, <2>2, <2>3 DEF ToLower
  <2>5. ASSUME NEW x \in 1..h PROVE Lower[tail[x]] = Lower[k[x]]
    <3>1. x \in 1..Len(k)
      BY <1>1, <1>2
    <3>2. tail[x] = text[j + x - 1] /\ there[x] = text[j + x - 1]
      BY <1>3, <2>2, <3>1
    <3> HIDE DEF h
    <3> QED BY <2>4, <3>1, <3>2
  <2> QED BY <2>5
<1>10. ToLower(end) = ToLower(begin)
  <2>1. DOMAIN end = 1..h /\ DOMAIN begin = 1..h
    BY <1>7, <1>8
  <2>2. \A x \in 1..h : Lower[end[x]] = Lower[begin[x]]
    BY <1>7, <1>8, <1>9
  <2> QED BY <2>1, <2>2 DEF ToLower
<1>11. OccursAt(buf, Len(w) + 1, begin)
  <2>1. Len(w) + 1 + Len(begin) - 1 = Len(w) + h /\ Len(w) + h <= Len(buf)
    BY <1>1, <1>4, <1>7
  <2> QED BY <1>10, <2>1 DEF OccursAt, end
<1>12. BeginsKey(buf, h, DOMAIN mapping)
  BY <1>2, <1>5, <1>6, <1>11 DEF BeginsKey, begin
<1> QED BY <1>12 DEF buf, tail

\* What the gateway may emit of a restored beginning, is restored so for good:
\* the whole text is restored to the same, up to where the beginning's is not
\* held back (ReverseStream).
LEMMA BeginningRestored ==
  ASSUME NEW mapping, StringMapping(mapping), NEW text \in Seq(Char), Apart(text, mapping),
         NEW m \in 0..Len(text)
  PROVE  LET some == Replace(Upto(text, m), mapping)
         IN  Len(some) - ComputeHoldback(some, DOMAIN mapping) > 0 =>
               Agree(some, Replace(text, mapping),
                     Len(some) - ComputeHoldback(some, DOMAIN mapping))
<1> DEFINE part == Upto(text, m)
<1>1. /\ m \in Nat /\ m <= Len(text) /\ Len(text) \in Nat
      /\ part \in Seq(Char) /\ Len(part) = m
  <2>1. m \in Nat /\ m <= Len(text) /\ Len(text) \in Nat
    OBVIOUS
  <2> QED BY <2>1, UptoFacts
<1>2. PICK some : IsScan(some, part, mapping) /\ Replace(part, mapping) = some[1]
  BY <1>1, ReplaceScans DEF IsScan
<1>3. PICK whole : IsScan(whole, text, mapping) /\ Replace(text, mapping) = whole[1]
  BY ReplaceScans DEF IsScan
<1>4. /\ \A j \in 1..(m + 1) : some[j] \in Seq(Char)
      /\ \A j \in 1..(Len(text) + 1) : whole[j] \in Seq(Char)
  BY <1>1, <1>2, <1>3, ScanTyped DEF IsScan
<1>5. some[1] \in Seq(Char) /\ whole[1] \in Seq(Char)
  BY <1>1, <1>4
<1> DEFINE hold == ComputeHoldback(some[1], DOMAIN mapping)
<1>6. /\ hold \in 0..Len(some[1])
      /\ \A g \in 1..Len(some[1]) : BeginsKey(some[1], g, DOMAIN mapping) => g <= hold
  BY <1>5, HoldbackFacts
<1> HIDE DEF hold
<1> SUFFICES \E n \in Nat : Len(some[1]) - hold <= n /\ Agree(some[1], whole[1], n)
  <2>1. ASSUME NEW n \in Nat, Len(some[1]) - hold <= n, Agree(some[1], whole[1], n),
               Len(some[1]) - hold > 0
        PROVE  Agree(some[1], whole[1], Len(some[1]) - hold)
    <3>1. Len(some[1]) \in Nat /\ Len(whole[1]) \in Nat
      BY <1>5
    <3>2. Len(some[1]) - hold \in Nat /\ \A x \in 1..(Len(some[1]) - hold) : x \in 1..n
      BY <1>6, <2>1, <3>1
    <3> QED BY <1>6, <2>1, <3>1, <3>2 DEF Agree
  <2>2. Replace(Upto(text, m), mapping) = some[1] /\ Replace(text, mapping) = whole[1]
    BY <1>2, <1>3
  <2> QED BY <2>1, <2>2 DEF hold
<1>7. \A i \in 1..(m + 1) : Cut(text, i, mapping) => Shared(some, whole, text, i, mapping)
  BY <1>2, <1>3, SameBeginning
<1>8. CASE Cut(text, m + 1, mapping)
  <2>1. PICK w \in Seq(Char) : some[1] = w \o some[m + 1] /\ whole[1] = w \o whole[m + 1]
    <3>1. m + 1 \in 1..(m + 1)
      BY <1>1
    <3> QED BY <1>7, <1>8, <3>1 DEF Shared
  <2>2. some[m + 1] = << >>
    <3>1. some[Len(part) + 1] = << >>
      <4> HIDE DEF part
      <4> QED BY <1>1, <1>2, ScanStep
    <3> QED BY <1>1, <3>1
  <2>3. some[m + 1] \in Seq(Char) /\ whole[m + 1] \in Seq(Char)
    BY <1>1, <1>4
  <2>4. Agree(some[1], whole[1], Len(w))
    BY <2>1, <2>3, SameBegins
  <2>5. Len(w) \in Nat /\ Len(some[1]) = Len(w)
    <3>1. Len(some[1]) = Len(w) + Len(some[m + 1]) /\ Len(w) \in Nat
      BY <2>1, <2>3, JoinedTwice
    <3>2. Len(some[m + 1]) = 0
      BY <2>2
    <3> QED BY <3>1, <3>2
  <2> QED BY <1>6, <2>4, <2>5
<1>9. CASE ~Cut(text, m + 1, mapping)
  <2>1. PICK j \in 1..m : Hit(text, j, mapping) /\ ~(Match(text, j, mapping).next <= m + 1)
    <3>1. m + 1 - 1 = m
      BY <1>1
    <3> QED BY <1>9, <3>1 DEF Cut
  <2> DEFINE next == Match(text, j, mapping).next
  <2>2. /\ j \in 1..Len(text) /\ j \in Nat \ {0} /\ j <= m /\ j \in 1..(m + 1)
        /\ next \in (j + 1)..(Len(text) + 1) /\ next > m + 1
    <3>1. j \in 1..Len(text) /\ j \in Nat \ {0} /\ j <= m /\ j \in 1..(m + 1)
      BY <1>1
    <3>2. next \in (j + 1)..(Len(text) + 1)
      BY <2>1, <3>1, MatchFacts
    <3>3. next > m + 1
      BY <1>1, <2>1, <3>1, <3>2
    <3> QED BY <3>1, <3>2, <3>3
  <2>3. Cut(text, j, mapping) /\ ~EndsHere(text, j, mapping)
    <3>1. ASSUME NEW l \in 1..(j - 1), Hit(text, l, mapping)
          PROVE  Match(text, l, mapping).next <= j /\ Match(text, l, mapping).next # j
      <4>1. l \in 1..Len(text) /\ ~(j <= l)
        BY <2>2
      <4>2. j > Match(text, l, mapping).next
        BY <2>1, <2>2, <3>1, <4>1, ApartFacts
      <4>3. Match(text, l, mapping).next \in Nat
        BY <1>1, <3>1, <4>1, MatchFacts
      <4> QED BY <2>2, <4>2, <4>3
    <3> QED BY <3>1 DEF Cut, EndsHere
  <2>4. PICK w \in Seq(Char) : /\ some[1] = w \o some[j] /\ whole[1] = w \o whole[j]
                               /\ j = 1 => w = << >>
                               /\ j > 1 => w # << >> /\ w[Len(w)] = text[j - 1]
    <3>1. j = 1 \/ j > 1
      BY <2>2
    <3> QED BY <1>7, <2>2, <2>3, <3>1 DEF Shared
  <2>5. \A i \in (j + 1)..m : ~Hit(part, i, mapping)
    <3>1. ASSUME NEW i \in (j + 1)..m, Hit(part, i, mapping) PROVE FALSE
      <4>1. i \in 1..Len(text) /\ i \in Nat \ {0} /\ i > j
        BY <1>1, <2>2
      <4>2. Hit(text, i, mapping)
        BY <1>1, <3>1, <4>1, KeysUpto
      <4>3. i > next
        BY <2>1, <2>2, <4>1, <4>2, ApartFacts
      <4> QED BY <1>1, <2>2, <4>3
    <3> QED BY <3>1
  <2>6. some[j] \in Seq(Char) /\ whole[j] \in Seq(Char) /\ some[1] \in Seq(Char)
    BY <1>1, <1>4, <2>2
  <2> HIDE DEF next
  <2>7. CASE ~Hit(part, j, mapping)
    <3>1. some[j] = SubSeq(text, j, m)
      <4>1. \A i \in j..Len(part) : ~Hit(part, i, mapping)
        <5>1. \A i \in j..m : i = j \/ i \in (j + 1)..m
          BY <1>1, <2>2
        <5> QED BY <1>1, <2>5, <2>7, <5>1
      <4>2. some[j] = SubSeq(part, j, Len(part))
        <5>1. j \in 1..(Len(part) + 1)
          BY <1>1, <2>2
        <5> HIDE DEF part
        <5> QED BY <1>1, <1>2, <4>1, <5>1, RestCopied
      <4>3. SubSeq(part, j, m) = SubSeq(text, j, m)
        <5>1. m \in 1..m /\ j \in 1..m
          BY <1>1, <2>2
        <5> QED BY <1>1, <5>1, UptoFacts
      <4> QED BY <1>1, <4>2, <4>3
    <3>2. PICK k \in KeysAt(text, j, mapping) : TRUE
      BY <2>1, <2>2, KeysUpto
    <3>3. k \in DOMAIN mapping /\ OccursAt(text, j, k) /\ m < j + Len(k) - 1
      <4>1. k \in DOMAIN mapping /\ OccursAt(text, j, k) /\ k \in Seq(Char) /\ Len(k) \in Nat
        BY <3>2 DEF KeysAt, StringMapping
      <4>2. KeysAt(part, j, mapping) = {}
        BY <1>1, <2>2, <2>7, KeysUpto
      <4>3. ~(j + Len(k) - 1 <= m)
        BY <1>1, <2>2, <3>2, <4>2, KeysUpto
      <4> QED BY <1>1, <2>2, <4>1, <4>3
    <3>4. w = << >> \/ w[Len(w)] \notin WordChar \cup Apostrophe
      <4>1. LeftBoundaryClear(text, j)
        BY <2>1, <2>2, ApartFacts
      <4> QED BY <2>2, <2>4, <4>1 DEF LeftBoundaryClear
    <3>5. BeginsKey(some[1], m + 1 - j, DOMAIN mapping)
      <4>1. m \in 1..Len(text)
        BY <1>1, <2>2
      <4> QED BY <2>4, <3>1, <3>3, <3>4, <4>1, PartHeld
    <3>6. Len(some[1]) = Len(w) + (m + 1 - j) /\ Len(w) \in Nat
      <4>1. Len(SubSeq(text, j, m)) = m - j + 1
        <5>1. j \in Int /\ m \in Int /\ 1 <= j /\ j <= m + 1 /\ m <= Len(text)
          BY <1>1, <2>2
        <5> QED BY <5>1, PieceFacts
      <4>2. Len(some[1]) = Len(w) + Len(some[j]) /\ Len(w) \in Nat
        BY <2>4, <2>6, JoinedTwice
      <4> QED BY <1>1, <2>2, <3>1, <4>1, <4>2
    <3>7. m + 1 - j <= hold
      <4>1. m + 1 - j \in 1..Len(some[1])
        BY <1>1, <2>2, <3>6
      <4> QED BY <1>6, <3>5, <4>1
    <3>8. Agree(some[1], whole[1], Len(w))
      BY <2>4, <2>6, SameBegins
    <3>9. Len(some[1]) - hold <= Len(w)
      BY <1>1, <1>6, <2>2, <3>6, <3>7
    <3> QED BY <3>6, <3>8, <3>9
  <2>8. CASE Hit(part, j, mapping)
    <3> DEFINE partNext == Match(part, j, mapping).next
    <3>1. PICK piece \in Seq(Char), behind \in (j + 1)..(m + 1) :
            /\ partNext \in (j + 1)..(m + 1) /\ behind <= partNext
            /\ Match(part, j, mapping).put = piece \o SubSeq(text, behind, partNext - 1)
            /\ Match(text, j, mapping).put = piece \o SubSeq(text, behind, next - 1)
      <4>1. m \in j..Len(text)
        BY <1>1, <2>2
      <4> QED BY <2>1, <2>2, <2>8, <4>1, MatchUpto DEF next
    <3> HIDE DEF partNext
    <3> DEFINE short == SubSeq(text, behind, partNext - 1)
               tail == SubSeq(text, partNext, m)
               long == SubSeq(text, behind, next - 1)
               mid == SubSeq(text, behind, m)
    <3>2. /\ short \in Seq(Char) /\ tail \in Seq(Char) /\ long \in Seq(Char) /\ mid \in Seq(Char)
          /\ Len(mid) = m - behind + 1 /\ Len(long) = next - behind
          /\ \A x \in 1..Len(mid) : mid[x] = long[x]
      <4>1. /\ behind \in Int /\ partNext \in Int /\ next \in Int /\ behind >= 1 /\ partNext >= 1
            /\ behind <= m + 1 /\ partNext <= m + 1 /\ next <= Len(text) + 1 /\ next > m + 1
        BY <1>1, <2>2, <3>1
      <4>2. m <= Len(text) /\ m \in Int /\ behind <= partNext
        BY <1>1, <3>1
      <4>3. short \in Seq(Char)
        <5>1. partNext - 1 \in Int /\ behind <= partNext - 1 + 1 /\ partNext - 1 <= Len(text)
          BY <1>1, <4>1, <4>2
        <5> QED BY <4>1, <5>1, PieceFacts
      <4>4. tail \in Seq(Char)
        BY <4>1, <4>2, PieceFacts
      <4>5. /\ mid \in Seq(Char) /\ Len(mid) = m - behind + 1
            /\ \A x \in 1..Len(mid) : mid[x] = text[behind + x - 1]
        BY <4>1, <4>2, PieceFacts
      <4>6. /\ long \in Seq(Char) /\ Len(long) = next - behind
            /\ \A x \in 1..Len(long) : long[x] = text[behind + x - 1]
        <5> DEFINE last == next - 1
        <5>1. last \in Int /\ behind <= last + 1 /\ last <= Len(text) /\ last - behind + 1 = next - behind
          BY <1>1, <4>1
        <5>2. long = SubSeq(text, behind, last)
          OBVIOUS
        <5> HIDE DEF last, long
        <5>3. /\ long \in Seq(Char) /\ Len(long) = last - behind + 1
              /\ \A x \in 1..Len(long) : long[x] = text[behind + x - 1]
          BY <4>1, <5>1, <5>2, PieceFacts
        <5> QED BY <5>1, <5>3
      <4> HIDE DEF mid, long
      <4>7. \A x \in 1..Len(mid) : mid[x] = long[x]
        BY <1>1, <4>1, <4>5, <4>6
      <4> QED BY <4>3, <4>4, <4>5, <4>6, <4>7
    <3>3. some[j] = (piece \o short) \o some[partNext]
      <4>1. j \in 1..Len(part)
        BY <1>1, <2>2
      <4> HIDE DEF part
      <4> QED BY <1>1, <1>2, <2>8, <3>1, <4>1, ScanStep DEF partNext
    <3>4. some[partNext] = tail
      <4>1. \A i \in partNext..Len(part) : ~Hit(part, i, mapping)
        BY <1>1, <2>2, <2>5, <3>1
      <4>2. partNext \in 1..(Len(part) + 1)
        BY <1>1, <2>2, <3>1
      <4>3. some[partNext] = SubSeq(part, partNext, Len(part))
        BY <1>1, <1>2, <4>1, <4>2, RestCopied
      <4>4. SubSeq(part, partNext, m) = tail
        <5>1. CASE partNext \in 1..m
          <6>1. m \in 1..m
            BY <1>1, <5>1
          <6> QED BY <5>1, <6>1, UptoFacts
        <5>2. CASE partNext = m + 1
          <6>1. m < partNext /\ m \in Int /\ partNext \in Int
            BY <1>1, <5>2
          <6> QED BY <6>1, SubSeqEmpty
        <5> QED BY <1>1, <2>2, <3>1, <5>1, <5>2
      <4> QED BY <1>1, <4>3, <4>4
    <3>5. short \o tail = mid
      <4>1. behind \in 1..(Len(text) + 1) /\ partNext - 1 \in (behind - 1)..Len(text) /\ m \in (partNext - 1)..Len(text) /\ partNext - 1 + 1 = partNext
        BY <1>1, <2>2, <3>1
      <4> DEFINE last == partNext - 1
      <4> HIDE DEF last
      <4>2. SubSeq(text, behind, last) \o SubSeq(text, last + 1, m) = SubSeq(text, behind, m)
        BY <4>1, ConcatAdjacentSubSeq DEF last
      <4> QED BY <4>1, <4>2 DEF last
    <3> HIDE DEF short, tail, mid, long
    <3>6. some[1] = (w \o piece) \o mid /\ w \o piece \in Seq(Char)
      <4>1. some[j] = piece \o mid
        <5>1. (piece \o short) \o tail = piece \o (short \o tail)
          BY <3>1, <3>2, JoinedThrice, Zenon
        <5> QED BY <3>3, <3>4, <3>5, <5>1, Zenon
      <4>2. (w \o piece) \o mid = w \o (piece \o mid)
        <5>1. w \in Seq(Char) /\ piece \in Seq(Char) /\ mid \in Seq(Char)
          BY <3>1, <3>2
        <5> QED BY <5>1, JoinedThrice, Zenon
      <4>3. w \o piece \in Seq(Char)
        BY <2>4, <3>1, JoinedTwice, Zenon
      <4> QED BY <2>4, <4>1, <4>2, <4>3, Zenon
    <3>7. \E rest \in Seq(Char) : whole[1] = (w \o piece) \o (long \o rest)
      <4> DEFINE rest == whole[next]
      <4>1. rest \in Seq(Char)
        <5>1. next \in 1..(Len(text) + 1)
          BY <1>1, <2>2
        <5> QED BY <1>4, <5>1
      <4>2. whole[j] = (piece \o long) \o rest
        BY <1>3, <2>1, <2>2, <3>1, ScanStep DEF long, next
      <4> HIDE DEF rest
      <4>3. (piece \o long) \o rest = piece \o (long \o rest) /\ long \o rest \in Seq(Char)
        <5>1. long \o rest \in Seq(Char)
          BY <3>2, <4>1, JoinedTwice, Zenon
        <5>2. (piece \o long) \o rest = piece \o (long \o rest)
          <6>1. piece \in Seq(Char) /\ long \in Seq(Char)
            BY <3>1, <3>2
          <6> QED BY <4>1, <6>1, JoinedThrice, Zenon
        <5> QED BY <5>1, <5>2
      <4>4. (w \o piece) \o (long \o rest) = w \o (piece \o (long \o rest))
        BY <2>4, <3>1, <4>3, JoinedThrice, Zenon
      <4>5. whole[1] = (w \o piece) \o (long \o rest)
        BY <2>4, <4>2, <4>3, <4>4, Zenon
      <4> QED BY <4>1, <4>5
    <3>8. PICK rest \in Seq(Char) : whole[1] = (w \o piece) \o (long \o rest)
      BY <3>7
    <3> DEFINE both == w \o piece
    <3> HIDE DEF both
    <3>9. /\ Len(some[1]) = Len(both) + Len(mid) /\ Len(both) \in Nat /\ Len(mid) \in Nat
          /\ \A x \in 1..Len(both) : some[1][x] = both[x]
          /\ \A x \in 1..Len(mid) : some[1][Len(both) + x] = mid[x]
      <4>1. both \in Seq(Char) /\ some[1] = both \o mid
        BY <3>6 DEF both
      <4>2. both \in Seq(Char) /\ mid \in Seq(Char)
        BY <3>2, <4>1
      <4>3. /\ Len(both \o mid) = Len(both) + Len(mid)
            /\ Len(both) \in Nat /\ Len(mid) \in Nat
            /\ \A x \in 1..Len(both) : (both \o mid)[x] = both[x]
            /\ \A x \in 1..Len(mid) : (both \o mid)[Len(both) + x] = mid[x]
        BY <4>2, JoinedTwice
      <4> QED BY <4>1, <4>3
    <3>10. /\ long \o rest \in Seq(Char) /\ Len(long \o rest) = Len(long) + Len(rest) /\ Len(rest) \in Nat
           /\ \A x \in 1..Len(long) : (long \o rest)[x] = long[x]
      BY <3>2, <3>8, JoinedTwice
    <3>11. /\ Len(whole[1]) = Len(both) + Len(long \o rest)
           /\ \A x \in 1..Len(both) : whole[1][x] = both[x]
           /\ \A x \in 1..Len(long \o rest) : whole[1][Len(both) + x] = (long \o rest)[x]
      BY <3>6, <3>8, <3>10, JoinedTwice DEF both
    <3>12. Len(mid) <= Len(long) /\ Len(long) \in Nat
      BY <1>1, <2>2, <3>1, <3>2
    <3>13. Agree(some[1], whole[1], Len(some[1]))
      <4>1. Len(some[1]) <= Len(whole[1]) /\ Len(some[1]) \in Nat
        BY <3>9, <3>10, <3>11, <3>12
      <4>2. ASSUME NEW x \in 1..Len(some[1]) PROVE some[1][x] = whole[1][x]
        <5>1. CASE x \in 1..Len(both)
          BY <3>9, <3>11, <5>1
        <5>2. CASE x \notin 1..Len(both)
          <6> DEFINE y == x - Len(both)
          <6>1. y \in 1..Len(mid) /\ y \in 1..Len(long) /\ y \in 1..Len(long \o rest) /\ x = Len(both) + y
            BY <3>9, <3>10, <3>12, <4>1, <5>2
          <6> HIDE DEF y
          <6>2. some[1][x] = mid[y] /\ whole[1][x] = (long \o rest)[y]
            BY <3>9, <3>11, <6>1
          <6>3. mid[y] = long[y] /\ (long \o rest)[y] = long[y]
            BY <3>2, <3>10, <6>1
          <6> QED BY <6>2, <6>3
        <5> QED BY <5>1, <5>2
      <4> QED BY <4>1, <4>2 DEF Agree
    <3>14. Len(some[1]) \in Nat /\ Len(some[1]) - hold <= Len(some[1])
      BY <1>6, <3>9
    <3> QED BY <3>13, <3>14
  <2> QED BY <2>7, <2>8
<1> QED BY <1>8, <1>9

\* A string begins another when they agree up to its end.
LEMMA BeginsAgree ==
  ASSUME NEW s \in Seq(Char), NEW t \in Seq(Char)
  PROVE  Begins(s, t) <=> Agree(s, t, Len(s))
<1>1. Len(s) \in Nat /\ Len(t) \in Nat
  OBVIOUS
<1>2. ASSUME Len(s) <= Len(t)
      PROVE  SubSeq(t, 1, Len(s)) = s <=> \A x \in 1..Len(s) : s[x] = t[x]
  <2> DEFINE n == Len(s)
             beginning == SubSeq(t, 1, n)
  <2>1. beginning \in Seq(Char) /\ Len(beginning) = n /\ \A x \in 1..n : beginning[x] = t[x]
    <3>1. n \in 0..Len(t)
      BY <1>1, <1>2
    <3> HIDE DEF n
    <3> QED BY <3>1, UptoFacts DEF Upto
  <2> HIDE DEF beginning
  <2>2. ASSUME \A x \in 1..n : s[x] = t[x] PROVE beginning = s
    <3>1. \A x \in 1..Len(s) : beginning[x] = s[x]
      BY <2>1, <2>2
    <3> QED BY <2>1, <3>1, SeqEqual
  <2>3. ASSUME beginning = s PROVE \A x \in 1..n : s[x] = t[x]
    BY <2>1, <2>3
  <2> QED BY <2>2, <2>3 DEF beginning
<1> QED BY <1>1, <1>2 DEF Begins, Agree

\* What the gateway emits is a longer beginning of the same, if what it emits
\* from is one up to what it holds back; and all of it, if that is all (Emit).
LEMMA EmitBegins ==
  ASSUME sent \in Seq(Char), NEW whole \in Seq(Char), Agree(sent, whole, Len(sent)),
         NEW text \in Seq(Char), NEW holdback \in 0..Len(text),
         Len(text) - holdback > 0 => Agree(text, whole, Len(text) - holdback)
  PROVE  /\ Agree(Emit(text, holdback), whole, Len(Emit(text, holdback)))
         /\ text = whole /\ holdback = 0 => Emit(text, holdback) = whole
<1> DEFINE n == Len(text) - holdback
           new == SubSeq(text, Len(sent) + 1, n)
           emitted == sent \o new
<1>1. Len(sent) \in Nat /\ Len(text) \in Nat /\ n \in Nat /\ n <= Len(text) /\ Len(whole) \in Nat
  OBVIOUS
<1>2. /\ new \in Seq(Char) /\ Len(new) = IF Len(sent) + 1 <= n THEN n - Len(sent) ELSE 0
      /\ \A x \in 1..Len(new) : new[x] = text[Len(sent) + x]
  <2> DEFINE a == Len(sent) + 1
  <2>1. a \in Int /\ n \in Int /\ \A x \in a..n : text[x] \in Char
    BY <1>1
  <2> HIDE DEF a, n
  <2>2. /\ SubSeq(text, a, n) \in Seq(Char)
        /\ Len(SubSeq(text, a, n)) = IF a <= n THEN n - a + 1 ELSE 0
        /\ \A x \in 1..(n - a + 1) : SubSeq(text, a, n)[x] = text[a + x - 1]
    BY <2>1, SubSeqProperties
  <2>3. \A x \in 1..Len(SubSeq(text, a, n)) : x \in 1..(n - a + 1) /\ a + x - 1 = Len(sent) + x
    BY <1>1, <2>1, <2>2 DEF a
  <2> QED BY <1>1, <2>1, <2>2, <2>3 DEF a
<1> HIDE DEF new
<1>3. /\ emitted \in Seq(Char) /\ Len(emitted) = Len(sent) + Len(new)
      /\ \A x \in 1..Len(sent) : emitted[x] = sent[x]
      /\ \A x \in 1..Len(new) : emitted[Len(sent) + x] = new[x]
  BY <1>2, JoinedTwice
<1> HIDE DEF emitted
<1>4. \A x \in 1..Len(sent) : sent[x] = whole[x]
  BY DEF Agree
<1>5. Len(sent) <= Len(whole)
  BY DEF Agree
<1>6. n > 0 => n <= Len(whole) /\ \A x \in 1..n : text[x] = whole[x]
  BY DEF Agree
<1> HIDE DEF n
<1>7. Len(emitted) <= Len(whole) /\ Len(emitted) \in Nat
  BY <1>1, <1>2, <1>3, <1>5, <1>6
<1>8. ASSUME NEW x \in 1..Len(emitted) PROVE emitted[x] = whole[x]
  <2>1. CASE x \in 1..Len(sent)
    BY <1>3, <1>4, <2>1
  <2>2. CASE x \notin 1..Len(sent)
    <3> DEFINE y == x - Len(sent)
    <3>1. y \in 1..Len(new) /\ x = Len(sent) + y /\ n > 0 /\ x \in 1..n
      BY <1>1, <1>2, <1>3, <1>7, <2>2
    <3> HIDE DEF y
    <3>2. emitted[x] = text[x]
      BY <1>2, <1>3, <3>1
    <3> QED BY <1>6, <3>1, <3>2
  <2> QED BY <2>1, <2>2
<1>9. ASSUME text = whole, holdback = 0 PROVE emitted = whole
  <2>1. n = Len(whole)
    BY <1>1, <1>9 DEF n
  <2>2. Len(emitted) = Len(whole)
    BY <1>1, <1>2, <1>3, <1>5, <2>1
  <2> QED BY <1>3, <1>8, <2>2, SeqEqual
<1>10. Emit(text, holdback) = emitted
  BY DEF Emit, emitted, new, n
<1> QED BY <1>7, <1>8, <1>9, <1>10 DEF Agree

\* An answer whose pseudonyms stand apart reaches the client restored, however
\* it is cut into chunks and samples: at every moment a beginning of the
\* restored answer, in the end all of it (ReverseStream, ComputeHoldback).
THEOREM AnswersRestored == Spec => []AnswerRestored
<1> DEFINE whole == Replace(answer, Backward)
<1>1. Init => AnswerRestored
  BY DEF Init, AnswerRestored
<1>2. TypeOK /\ AskedFirst /\ AnswerRestored /\ [Next]_vars => AnswerRestored'
  <2> SUFFICES ASSUME TypeOK, AskedFirst, AnswerRestored, [Next]_vars,
                      phase' # "ask", ~lapsed', Apart(answer, Backward)'
               PROVE  /\ Begins(sent', whole')
                      /\ phase' = "closed" => sent' = whole'
    BY DEF AnswerRestored
  <2>1. /\ StringMapping(Backward) /\ answer \in Seq(Char) /\ whole \in Seq(Char)
        /\ sent \in Seq(Char) /\ got \in 0..Len(answer) /\ Len(answer) \in Nat
        /\ phase \in {"ask", "stream", "closed"} /\ lapsed \in BOOLEAN
    BY BothStringMappings, ReplaceTyped DEF TypeOK
  <2> DEFINE restored == Replace(Accumulated, Backward)
  <2>2. /\ Accumulated = Upto(answer, got) /\ Accumulated \in Seq(Char) /\ restored \in Seq(Char)
        /\ ReverseStream(Accumulated).text = restored
        /\ ReverseStream(Accumulated).holdback = ComputeHoldback(restored, DOMAIN Backward)
        /\ ComputeHoldback(restored, DOMAIN Backward) \in 0..Len(restored)
    <3>1. Accumulated \in Seq(Char) /\ restored \in Seq(Char)
      BY <2>1, AccumulatedTyped, BothStringMappings, ReplaceTyped
    <3>2. ComputeHoldback(restored, DOMAIN Backward) \in 0..Len(restored)
      BY <3>1, HoldbackFacts
    <3> QED BY <3>1, <3>2 DEF ReverseStream, restored, Accumulated, Upto
  <2>3. ASSUME answer' = answer, phase = "stream", ~lapsed
        PROVE  Apart(answer, Backward) /\ whole' = whole /\ Agree(sent, whole, Len(sent))
    <3>1. Apart(answer, Backward) /\ whole' = whole
      BY <2>3 DEF Apart
    <3>2. Begins(sent, whole)
      BY <2>3, <3>1 DEF AnswerRestored
    <3> QED BY <2>1, <3>1, <3>2, BeginsAgree
  <2>4. CASE Ask
    <3>1. sent' = << >> /\ phase' = "stream" /\ answer' \in Seq(Char)
      <4>1. prompt \in Seq(Char)
        BY StreamAssumption DEF TypeOK
      <4>2. Echo \in Seq(Char)
        BY <4>1, BothStringMappings, ReplaceTyped DEF Echo
      <4>3. Free \subseteq Seq(Char)
        BY StreamAssumption
      <4> QED BY <2>4, <4>2, <4>3 DEF Ask, AskedFirst
    <3>2. Replace(answer', Backward) \in Seq(Char)
      BY <2>1, <3>1, ReplaceTyped
    <3>3. Agree(<< >>, Replace(answer', Backward), Len(<< >>)) /\ << >> \in Seq(Char)
      BY <3>2 DEF Agree
    <3>4. Begins(<< >>, Replace(answer', Backward))
      BY <3>2, <3>3, BeginsAgree
    <3> QED BY <3>1, <3>4
  <2>5. CASE Chunk
    <3>1. answer' = answer /\ sent' = sent /\ phase' = phase /\ lapsed' = lapsed /\ phase = "stream"
      BY <2>5 DEF Chunk
    <3> QED BY <2>1, <2>3, <3>1, BeginsAgree
  <2>6. CASE Sample
    <3> DEFINE hold == ComputeHoldback(restored, DOMAIN Backward)
    <3>1. /\ answer' = answer /\ phase' = phase /\ lapsed' = lapsed /\ phase = "stream"
          /\ sent' = Emit(restored, hold)
      BY <2>2, <2>6 DEF Sample
    <3>2. Apart(answer, Backward) /\ whole' = whole /\ Agree(sent, whole, Len(sent))
      BY <2>3, <3>1
    <3>3. Len(restored) - hold > 0 => Agree(restored, whole, Len(restored) - hold)
      BY <2>1, <2>2, <3>2, BeginningRestored
    <3>4. hold \in 0..Len(restored) /\ restored \in Seq(Char)
      BY <2>2
    <3> HIDE DEF restored, hold, whole
    <3>5. Agree(sent', whole, Len(sent'))
      BY <2>1, <3>1, <3>2, <3>3, <3>4, EmitBegins
    <3>6. sent' \in Seq(Char)
      BY <2>1, <3>1, <3>4, EmitTyped
    <3>7. Begins(sent', whole)
      BY <2>1, <3>5, <3>6, BeginsAgree
    <3> QED BY <3>1, <3>2, <3>7
  <2>7. CASE SampleUnavailable
    BY <2>7 DEF SampleUnavailable
  <2>8. CASE Close
    <3>1. /\ answer' = answer /\ lapsed' = lapsed /\ phase = "stream" /\ phase' = "closed"
          /\ sent' = Emit(restored, 0) /\ got = Len(answer)
      BY <2>2, <2>8 DEF Close
    <3>2. Apart(answer, Backward) /\ whole' = whole /\ Agree(sent, whole, Len(sent))
      BY <2>3, <3>1
    <3>3. restored = whole
      <4>1. Accumulated = answer
        BY <2>1, <3>1, SubSeqFull DEF Accumulated
      <4> QED BY <4>1
    <3>4. 0 \in 0..Len(restored) /\ restored \in Seq(Char) /\ Agree(restored, whole, Len(restored) - 0)
      BY <2>2, <3>3 DEF Agree
    <3> HIDE DEF restored, whole
    <3>5. sent' = whole
      BY <2>1, <3>1, <3>2, <3>3, <3>4, EmitBegins
    <3>6. Agree(whole, whole, Len(whole))
      BY <2>1 DEF Agree
    <3>7. Begins(whole, whole)
      BY <2>1, <3>6, BeginsAgree
    <3> QED BY <3>2, <3>5, <3>7
  <2>9. CASE Closed \/ UNCHANGED vars
    <3>1. UNCHANGED vars
      BY <2>9 DEF Closed
    <3>2. answer' = answer /\ sent' = sent /\ phase' = phase /\ lapsed' = lapsed
      BY <3>1 DEF vars
    <3>3. Apart(answer, Backward) /\ whole' = whole
      BY <3>2 DEF Apart
    <3> QED BY <3>2, <3>3 DEF AnswerRestored
  <2> QED BY <2>4, <2>5, <2>6, <2>7, <2>8, <2>9 DEF Next
<1>3. Init => Shaped /\ AskedFirst
  <2>1. << >> \in Seq(Char) /\ 0 \in 0..Len(<< >>)
    BY EmptySeq
  <2> QED BY <2>1 DEF Init, Shaped, AskedFirst
<1>4. AskedFirst /\ [Next]_vars => AskedFirst'
  BY DEF AskedFirst, Next, Ask, Chunk, Sample, SampleUnavailable, Close, Closed, vars
<1>5. Spec => []AskedFirst
  BY <1>3, <1>4, PTL DEF Spec
<1> QED BY <1>1, <1>2, <1>5, StreamTyped, PTL DEF Spec

\* Strings that begin alike do so in any case.
LEMMA BeginsInAnyCase ==
  ASSUME NEW s \in Seq(Char), NEW t \in Seq(Char), Begins(s, t)
  PROVE  Begins(ToLower(s), ToLower(t))
<1>1. /\ ToLower(s) \in Seq(Char) /\ Len(ToLower(s)) = Len(s)
      /\ ToLower(t) \in Seq(Char) /\ Len(ToLower(t)) = Len(t)
  BY CasesTyped
<1>2. Len(s) \in Nat /\ Len(t) \in Nat /\ Len(s) <= Len(t) /\ \A x \in 1..Len(s) : s[x] = t[x]
  BY BeginsAgree DEF Agree
<1>3. \A x \in 1..Len(s) : ToLower(s)[x] = Lower[s[x]] /\ ToLower(t)[x] = Lower[t[x]]
  BY <1>2 DEF ToLower
<1>4. Agree(ToLower(s), ToLower(t), Len(ToLower(s)))
  BY <1>1, <1>2, <1>3 DEF Agree
<1> QED BY <1>1, <1>4, BeginsAgree

\* An echo reaches the client as the prompt, piece by piece, wherever its
\* pseudonyms stand apart and restoring it in one piece gives the prompt again:
\* cutting and sampling it loses nothing (ReverseStream, ComputeHoldback).
THEOREM EchoesRestored ==
  Spec => [](Apart(Echo, Backward) /\ ToLower(Replace(Echo, Backward)) = ToLower(prompt)
             => EchoRestored)
<1>1. TypeOK /\ AnswerRestored =>
        (Apart(Echo, Backward) /\ ToLower(Replace(Echo, Backward)) = ToLower(prompt)
         => EchoRestored)
  <2> SUFFICES ASSUME TypeOK, AnswerRestored, Apart(Echo, Backward),
                      ToLower(Replace(Echo, Backward)) = ToLower(prompt),
                      answer = Echo, phase # "ask", ~lapsed
               PROVE  /\ Begins(ToLower(sent), ToLower(prompt))
                      /\ phase = "closed" => ToLower(sent) = ToLower(prompt)
    BY DEF EchoRestored
  <2> DEFINE whole == Replace(answer, Backward)
  <2>1. Begins(sent, whole) /\ (phase = "closed" => sent = whole)
    BY DEF AnswerRestored
  <2>2. sent \in Seq(Char) /\ whole \in Seq(Char)
    BY BothStringMappings, ReplaceTyped DEF TypeOK
  <2>3. ToLower(whole) = ToLower(prompt)
    OBVIOUS
  <2> HIDE DEF whole
  <2>4. Begins(ToLower(sent), ToLower(whole))
    BY <2>1, <2>2, BeginsInAnyCase
  <2> QED BY <2>1, <2>3, <2>4
<1> QED BY <1>1, StreamTyped, AnswersRestored, PTL
=============================================================================
