--------------------------- MODULE NERCacheProofs ---------------------------
(***************************************************************************)
(* The answer cache, for every number of calls, lines, entries and times:  *)
(* the cache stays consistent, a call that succeeds holds the service's    *)
(* answer to each of its own lines, and no answer is older than TTL when   *)
(* it is read.                                                             *)
(***************************************************************************)
EXTENDS NERCache, SequenceTheorems, TLAPS

Lines(c) == 1..Len(LinesOf[c])

Filled(c, i) == out[c][i] # NoEntry
Asked(c, i) == \E j \in 1..Len(ask[c]) : ask[c][j] = LinesOf[c][i]

\* What a call has done to its lines when it is in a phase.
Progress(c) ==
  /\ pc[c] \in {"idle", "ask"} => next[c] = 1
  /\ pc[c] \in {"lookup", "ask", "store"} => next[c] \in Lines(c)
  /\ pc[c] = "lookup" => \A i \in Lines(c) : i < next[c] => Filled(c, i) \/ Asked(c, i)
  /\ pc[c] \in {"ask", "store"} => \A i \in Lines(c) : Filled(c, i) \/ Asked(c, i)
  /\ pc[c] = "store" => \A i \in Lines(c) : i < next[c] => Filled(c, i)
  /\ pc[c] \in {"validate", "done"} => \A i \in Lines(c) : Filled(c, i)
  /\ pc[c] = "done" => \A i \in Lines(c) : out[c][i].spans \notin Malformed

\* The answers a call stores are the service's, to the lines it was asked.
AnswersSaid(c) ==
  pc[c] = "store" =>
    /\ Len(answers[c]) = Len(ask[c])
    /\ \A j \in 1..Len(ask[c]) : [line |-> ask[c][j], spans |-> answers[c][j]] \in said

\* Every entry was stored TTL before it expires.
EntryStored ==
  \A l \in Line : entry[l] # NoEntry =>
    \E s \in stored : /\ s.line = l /\ s.spans = entry[l].spans
                      /\ entry[l].expires = s.time + TTL

\* What was stored is what the service said.
StoredSaid == \A s \in stored : [line |-> s.line, spans |-> s.spans] \in said

IInv ==
  /\ TypeOK
  /\ CacheConsistent
  /\ NotStale
  /\ EntryStored
  /\ StoredSaid
  /\ \A c \in Call : Progress(c) /\ AnswersSaid(c)

-----------------------------------------------------------------------------
Distinct(list) == \A i, j \in DOMAIN list : list[i] = list[j] => i = j
Held(list) == {list[i] : i \in DOMAIN list}

\* Removing the element of a line leaves the other lines, each once.
LEMMA WithoutFacts ==
  ASSUME NEW list \in Seq(Line), Distinct(list), NEW line
  PROVE  /\ Without(list, line) \in Seq(Line)
         /\ Distinct(Without(list, line))
         /\ Held(Without(list, line)) = Held(list) \ {line}
         /\ Len(Without(list, line)) <= Len(list)
         /\ line \in Held(list) => Len(Without(list, line)) = Len(list) - 1
<1>0. Len(list) \in Nat /\ DOMAIN list = 1..Len(list)
  BY LenProperties
<1>1. CASE ~ Contains(list, line)
  <2>1. Without(list, line) = list /\ line \notin Held(list)
    BY <1>0, <1>1 DEF Without, Contains, Held
  <2>2. Held(list) = Held(list) \ {line} /\ Len(list) <= Len(list)
    BY <2>1, <1>0
  <2> QED BY <2>1, <2>2
<1>2. CASE Contains(list, line)
  <2> DEFINE p == CHOOSE i \in DOMAIN list : list[i] = line
             front == SubSeq(list, 1, p - 1)
             back == SubSeq(list, p + 1, Len(list))
             rest == front \o back
  <2>1. p \in 1..Len(list) /\ list[p] = line
    BY <1>0, <1>2 DEF Contains
  <2>2. Without(list, line) = rest
    BY <1>2 DEF Without, RemoveAt
  <2> HIDE DEF p
  <2>3. /\ front \in Seq(Line) /\ Len(front) = p - 1
        /\ \A i \in 1..(p - 1) : front[i] = list[i]
    <3>1. \A i \in 1..(p - 1) : list[i] \in Line
      BY <1>0, <2>1, ElementOfSeq
    <3>2. p - 1 \in Int /\ 1 \in Int
      BY <1>0, <2>1
    <3>3. /\ front \in Seq(Line)
          /\ Len(front) = IF 1 <= p - 1 THEN p - 1 - 1 + 1 ELSE 0
          /\ \A i \in 1..(p - 1 - 1 + 1) : front[i] = list[1 + i - 1]
      BY <3>1, <3>2, SubSeqProperties
    <3> QED BY <3>3, <1>0, <2>1
  <2>4. /\ back \in Seq(Line) /\ Len(back) = Len(list) - p
        /\ \A i \in 1..(Len(list) - p) : back[i] = list[p + i]
    <3>1. \A i \in (p + 1)..Len(list) : list[i] \in Line
      BY <1>0, <2>1, ElementOfSeq
    <3>2. p + 1 \in Int /\ Len(list) \in Int
      BY <1>0, <2>1
    <3>3. /\ back \in Seq(Line)
          /\ Len(back) = IF p + 1 <= Len(list) THEN Len(list) - (p + 1) + 1 ELSE 0
          /\ \A i \in 1..(Len(list) - (p + 1) + 1) : back[i] = list[p + 1 + i - 1]
      BY <3>1, <3>2, SubSeqProperties
    <3> HIDE DEF back
    <3>4. Len(list) \in Int /\ p \in Int /\ p <= Len(list)
      BY <1>0, <2>1
    <3>5. Len(back) = Len(list) - p
      BY <3>3, <3>4
    <3>6. Len(list) - (p + 1) + 1 = Len(list) - p
      BY <3>4
    <3>7. \A i \in 1..(Len(list) - p) : back[i] = list[p + i]
      <4> TAKE i \in 1..(Len(list) - p)
      <4>1. back[i] = list[p + 1 + i - 1]
        BY <3>3, <3>6
      <4>2. p + 1 + i - 1 = p + i
        BY <3>4
      <4> QED BY <4>1, <4>2
    <3> QED BY <3>3, <3>5, <3>7
  <2> HIDE DEF front, back
  <2>5. /\ rest \in Seq(Line) /\ Len(rest) = Len(list) - 1
        /\ DOMAIN rest = 1..(Len(list) - 1)
        /\ \A i \in 1..(Len(list) - 1) : rest[i] = IF i < p THEN list[i] ELSE list[i + 1]
    <3>1. /\ rest \in Seq(Line) /\ Len(rest) = Len(front) + Len(back)
          /\ \A i \in 1..(Len(front) + Len(back)) :
               rest[i] = IF i <= Len(front) THEN front[i] ELSE back[i - Len(front)]
      BY <2>3, <2>4, ConcatProperties
    <3>2. Len(front) + Len(back) = Len(list) - 1
      BY <1>0, <2>1, <2>3, <2>4
    <3>3. \A i \in 1..(Len(list) - 1) : rest[i] = IF i < p THEN list[i] ELSE list[i + 1]
      <4> TAKE i \in 1..(Len(list) - 1)
      <4>1. CASE i < p
        BY <4>1, <1>0, <2>1, <2>3, <3>1, <3>2
      <4>2. CASE ~ (i < p)
        <5>1. i - (p - 1) \in 1..(Len(list) - p) /\ p + (i - (p - 1)) = i + 1
          BY <4>2, <1>0, <2>1
        <5>2. rest[i] = back[i - (p - 1)]
          BY <4>2, <1>0, <2>1, <2>3, <3>1, <3>2
        <5> QED BY <4>2, <5>1, <5>2, <2>4
      <4> QED BY <4>1, <4>2
    <3>4. DOMAIN rest = 1..Len(rest)
      BY <3>1, LenProperties
    <3> QED BY <3>1, <3>2, <3>3, <3>4
  <2> HIDE DEF rest
  <2>6. Distinct(rest)
    <3> SUFFICES ASSUME NEW i \in 1..(Len(list) - 1), NEW j \in 1..(Len(list) - 1),
                        rest[i] = rest[j]
                 PROVE  i = j
      BY <2>5 DEF Distinct
    <3> DEFINE was(k) == IF k < p THEN k ELSE k + 1
    <3>1. was(i) \in DOMAIN list /\ was(j) \in DOMAIN list
      BY <1>0, <2>1
    <3>2. list[was(i)] = rest[i] /\ list[was(j)] = rest[j]
      BY <2>5
    <3>3. was(i) = was(j)
      BY <3>1, <3>2 DEF Distinct
    <3> QED BY <3>3, <1>0, <2>1
  <2>7. Held(rest) \subseteq Held(list) \ {line}
    <3> SUFFICES ASSUME NEW i \in 1..(Len(list) - 1)
                 PROVE  rest[i] \in Held(list) \ {line}
      BY <2>5 DEF Held
    <3> DEFINE was == IF i < p THEN i ELSE i + 1
    <3>0. was \in DOMAIN list /\ was # p
      BY <1>0, <2>1
    <3>1. PICK k \in DOMAIN list : rest[i] = list[k] /\ k # p
      <4>1. rest[i] = list[was]
        BY <2>5
      <4> QED BY <3>0, <4>1, Zenon
    <3>2. list[k] # line
      BY <3>1, <2>1, <1>0 DEF Distinct
    <3> QED BY <3>1, <3>2 DEF Held
  <2>8. Held(list) \ {line} \subseteq Held(rest)
    <3> SUFFICES ASSUME NEW other \in Held(list) \ {line}
                 PROVE  other \in Held(rest)
      OBVIOUS
    <3>0. PICK i \in 1..Len(list) : list[i] = other
      BY <1>0 DEF Held
    <3> SUFFICES \E j \in 1..(Len(list) - 1) : rest[j] = list[i]
      BY <3>0, <2>5 DEF Held
    <3>1. CASE i < p
      <4>1. i \in 1..(Len(list) - 1)
        BY <3>1, <1>0, <2>1
      <4> QED BY <3>1, <4>1, <2>5
    <3>2. CASE i > p
      <4>1. i - 1 \in 1..(Len(list) - 1) /\ ~ (i - 1 < p) /\ (i - 1) + 1 = i
        BY <3>2, <1>0, <2>1
      <4> QED BY <4>1, <2>5
    <3>3. i # p
      BY <3>0, <2>1
    <3> QED BY <3>1, <3>2, <3>3, <1>0, <2>1
  <2> QED BY <2>2, <2>5, <2>6, <2>7, <2>8, <1>0
<1> QED BY <1>1, <1>2

\* A line put in front of others that do not hold it.
LEMMA FrontFacts ==
  ASSUME NEW list \in Seq(Line), Distinct(list), NEW line \in Line, line \notin Held(list)
  PROVE  /\ <<line>> \o list \in Seq(Line)
         /\ Distinct(<<line>> \o list)
         /\ Held(<<line>> \o list) = {line} \cup Held(list)
         /\ Len(<<line>> \o list) = Len(list) + 1
<1> DEFINE all == <<line>> \o list
<1>0. Len(list) \in Nat /\ DOMAIN list = 1..Len(list)
  BY LenProperties
<1>1. <<line>> \in Seq(Line) /\ Len(<<line>>) = 1 /\ <<line>>[1] = line
  OBVIOUS
<1>2. /\ all \in Seq(Line) /\ Len(all) = 1 + Len(list)
      /\ \A i \in 1..(1 + Len(list)) :
           all[i] = IF i <= 1 THEN <<line>>[i] ELSE list[i - 1]
  BY <1>0, <1>1, ConcatProperties
<1>3. DOMAIN all = 1..(Len(list) + 1)
  BY <1>0, <1>2, LenProperties
<1> HIDE DEF all
<1>4. all[1] = line /\ \A i \in 2..(Len(list) + 1) : all[i] = list[i - 1] /\ i - 1 \in 1..Len(list)
  BY <1>0, <1>1, <1>2
<1>5. Distinct(all)
  <2> SUFFICES ASSUME NEW i \in 1..(Len(list) + 1), NEW j \in 1..(Len(list) + 1), all[i] = all[j]
               PROVE  i = j
    BY <1>3 DEF Distinct
  <2>1. \A k \in 2..(Len(list) + 1) : all[k] # line
    BY <1>0, <1>4 DEF Held
  <2>2. CASE i = 1 \/ j = 1
    BY <2>1, <2>2, <1>4, <1>0
  <2>3. CASE i # 1 /\ j # 1
    <3>1. list[i - 1] = list[j - 1] /\ i - 1 \in DOMAIN list /\ j - 1 \in DOMAIN list
      BY <2>3, <1>0, <1>4
    <3> QED BY <3>1, <1>0 DEF Distinct
  <2> QED BY <2>2, <2>3
<1>6. Held(all) \subseteq {line} \cup Held(list)
  BY <1>0, <1>3, <1>4 DEF Held
<1>7. {line} \cup Held(list) \subseteq Held(all)
  <2>1. \A i \in 1..Len(list) : i + 1 \in 2..(Len(list) + 1) /\ all[i + 1] = list[i]
    BY <1>0, <1>4
  <2> QED BY <2>1, <1>0, <1>3, <1>4 DEF Held
<1> QED BY <1>0, <1>2, <1>5, <1>6, <1>7 DEF all

\* The lines kept when the least recently used ones make room.
LEMMA KeptFacts ==
  ASSUME NEW list \in Seq(Line), Distinct(list), NEW n \in Nat, n <= Len(list)
  PROVE  /\ SubSeq(list, 1, n) \in Seq(Line)
         /\ Distinct(SubSeq(list, 1, n))
         /\ Held(SubSeq(list, 1, n)) \subseteq Held(list)
         /\ Len(SubSeq(list, 1, n)) = n
<1> DEFINE kept == SubSeq(list, 1, n)
<1>0. Len(list) \in Nat /\ DOMAIN list = 1..Len(list)
  BY LenProperties
<1>1. \A i \in 1..n : list[i] \in Line
  BY <1>0, ElementOfSeq
<1>2. n \in Int /\ 1 \in Int
  OBVIOUS
<1>3. /\ kept \in Seq(Line) /\ Len(kept) = IF 1 <= n THEN n - 1 + 1 ELSE 0
      /\ \A i \in 1..(n - 1 + 1) : kept[i] = list[1 + i - 1]
  BY <1>1, <1>2, SubSeqProperties
<1>4. DOMAIN kept = 1..n /\ Len(kept) = n
  BY <1>3, LenProperties
<1> HIDE DEF kept
<1>5. \A i \in 1..n : kept[i] = list[i] /\ i \in 1..Len(list)
  BY <1>0, <1>3
<1>6. Distinct(kept) /\ Held(kept) \subseteq Held(list)
  BY <1>0, <1>4, <1>5 DEF Distinct, Held
<1> QED BY <1>3, <1>4, <1>6 DEF kept

-----------------------------------------------------------------------------
\* The cache's invariant in the terms of the lemmas.
LEMMA ConsistentCache ==
  CacheConsistent <=> /\ Len(order) <= Capacity
                      /\ Distinct(order)
                      /\ Held(order) = {l \in Line : entry[l] # NoEntry}
<1> QED BY DEF CacheConsistent, Distinct, Held

\* A read moves a cached line to the front and changes nothing else.
LEMMA MoveToFrontKeeps ==
  ASSUME TypeOK, CacheConsistent, NEW line \in Line, entry[line] # NoEntry,
         MoveToFront(line), entry' = entry
  PROVE  order' \in Seq(Line) /\ CacheConsistent'
<1> DEFINE rest == Without(order, line)
<1>1. order \in Seq(Line) /\ Distinct(order) /\ line \in Held(order)
  BY ConsistentCache DEF TypeOK
<1>2. /\ rest \in Seq(Line) /\ Distinct(rest) /\ Held(rest) = Held(order) \ {line}
      /\ Len(rest) = Len(order) - 1
  BY <1>1, WithoutFacts
<1>3. order' = <<line>> \o rest
  BY DEF MoveToFront
<1> HIDE DEF rest
<1>4. line \notin Held(rest)
  BY <1>2
<1>5. /\ order' \in Seq(Line) /\ Distinct(order')
      /\ Held(order') = {line} \cup Held(rest) /\ Len(order') = Len(rest) + 1
  BY <1>2, <1>3, <1>4, FrontFacts
<1>6. Held(order') = Held(order)
  BY <1>1, <1>2, <1>5
<1>7. Len(order) \in Nat
  BY <1>1
<1>8. Len(order') = Len(order)
  BY <1>2, <1>5, <1>7
<1> QED BY <1>5, <1>6, <1>8, ConsistentCache DEF CacheConsistent, Distinct, Held

\* Removing a line from list and map keeps them consistent.
LEMMA RemovalKeeps ==
  ASSUME TypeOK, CacheConsistent, NEW line \in Line,
         order' = Without(order, line), entry' = [entry EXCEPT ![line] = NoEntry]
  PROVE  /\ order' \in Seq(Line) /\ CacheConsistent'
         /\ entry' \in [Line -> Entry \cup {NoEntry}]
<1>1. order \in Seq(Line) /\ Distinct(order) /\ Len(order) \in Nat /\ Len(order) <= Capacity
      /\ Held(order) = {l \in Line : entry[l] # NoEntry}
  BY ConsistentCache DEF TypeOK
<1>2. /\ order' \in Seq(Line) /\ Distinct(order') /\ Held(order') = Held(order) \ {line}
      /\ Len(order') <= Len(order)
  BY <1>1, WithoutFacts
<1>3. Len(order') \in Nat
  BY <1>2
<1>4. /\ entry' \in [Line -> Entry \cup {NoEntry}]
      /\ \A l \in Line : entry'[l] # NoEntry <=> l # line /\ entry[l] # NoEntry
  BY DEF TypeOK
<1>5. Held(order') = {l \in Line : entry'[l] # NoEntry}
  BY <1>1, <1>2, <1>4
<1>6. Len(order') <= Capacity
  BY <1>1, <1>2, <1>3, CacheAssumption
<1> QED BY <1>2, <1>4, <1>5, <1>6 DEF CacheConsistent, Distinct, Held

\* Storing an entry keeps the cache consistent, at most at its capacity, and
\* changes no other entry but by dropping it.
LEMMA PutKeeps ==
  ASSUME TypeOK, CacheConsistent, NEW line \in Line, NEW spans \in Answer,
         NEW expires \in Nat, Put(line, spans, expires)
  PROVE  /\ order' \in Seq(Line) /\ CacheConsistent'
         /\ entry' \in [Line -> Entry \cup {NoEntry}]
         /\ entry'[line] = [spans |-> spans, expires |-> expires]
         /\ \A l \in Line : l # line => entry'[l] \in {entry[l], NoEntry}
<1> DEFINE others == Without(order, line)
           n == Smallest(Len(others), Capacity - 1)
           kept == SubSeq(others, 1, n)
<1>1. /\ order \in Seq(Line) /\ Distinct(order)
      /\ Held(order) = {l \in Line : entry[l] # NoEntry}
  BY ConsistentCache DEF TypeOK
<1>2. others \in Seq(Line) /\ Distinct(others) /\ Held(others) = Held(order) \ {line}
  BY <1>1, WithoutFacts
<1>p. /\ order' = <<line>> \o kept
      /\ entry' = [l \in Line |->
                     IF l = line THEN [spans |-> spans, expires |-> expires]
                     ELSE IF Contains(kept, l) THEN entry[l] ELSE NoEntry]
  BY DEF Put
<1> HIDE DEF others
<1>3. n \in Nat /\ n <= Len(others) /\ n <= Capacity - 1
  <2>1. Len(others) \in Nat /\ Capacity \in Nat /\ Capacity >= 1
    BY <1>2, CacheAssumption
  <2> QED BY <2>1 DEF Smallest
<1> HIDE DEF n
<1>4. kept \in Seq(Line) /\ Distinct(kept) /\ Held(kept) \subseteq Held(others) /\ Len(kept) = n
  BY <1>2, <1>3, KeptFacts
<1> HIDE DEF kept
<1>5. line \notin Held(kept)
  BY <1>2, <1>4
<1>6. /\ order' \in Seq(Line) /\ Distinct(order')
      /\ Held(order') = {line} \cup Held(kept) /\ Len(order') = Len(kept) + 1
  BY <1>4, <1>5, <1>p, FrontFacts
<1>7. Len(order') <= Capacity
  BY <1>3, <1>4, <1>6, CacheAssumption
<1>8. \A l \in Line : Contains(kept, l) <=> l \in Held(kept)
  BY <1>4, LenProperties DEF Contains, Held
<1>9. [spans |-> spans, expires |-> expires] \in Entry
      /\ [spans |-> spans, expires |-> expires] # NoEntry
  BY NoEntryAssumption DEF Entry
<1>10. /\ entry' \in [Line -> Entry \cup {NoEntry}]
       /\ entry'[line] = [spans |-> spans, expires |-> expires]
       /\ \A l \in Line : l # line => entry'[l] \in {entry[l], NoEntry}
  BY <1>p, <1>9 DEF TypeOK
<1>11. \A l \in Line : entry'[l] # NoEntry <=> l = line \/ l \in Held(kept)
  <2> TAKE l \in Line
  <2>1. CASE l = line
    BY <2>1, <1>9, <1>10
  <2>2. CASE l # line /\ l \in Held(kept)
    <3>1. entry'[l] = entry[l]
      BY <2>2, <1>8, <1>p
    <3>2. entry[l] # NoEntry
      BY <2>2, <1>1, <1>2, <1>4
    <3> QED BY <3>1, <3>2, <2>2
  <2>3. CASE l # line /\ l \notin Held(kept)
    BY <2>3, <1>8, <1>p
  <2> QED BY <2>1, <2>2, <2>3
<1>12. Held(kept) \subseteq Line
  BY <1>1, <1>2, <1>4
<1>13. Held(order') = {l \in Line : entry'[l] # NoEntry}
  BY <1>6, <1>11, <1>12
<1> QED BY <1>6, <1>7, <1>10, <1>13 DEF CacheConsistent, Distinct, Held

-----------------------------------------------------------------------------
\* The part of NotStale about one call.
Fresh(c) ==
  \A i \in DOMAIN out[c] : out[c][i] # NoEntry =>
    \E s \in stored : /\ s.line = LinesOf[c][i] /\ s.spans = out[c][i].spans
                      /\ out[c][i].time - s.time < TTL

\* No answer is stale when no call has a stale one.
LEMMA FreshCalls == NotStale <=> \A c \in Call : Fresh(c)
<1> QED BY DEF NotStale, Fresh

\* A step of another call leaves what a call has done alone.
LEMMA OtherCall ==
  ASSUME NEW d \in Call, Progress(d), AnswersSaid(d), Fresh(d),
         pc'[d] = pc[d], next'[d] = next[d], ask'[d] = ask[d], out'[d] = out[d],
         answers'[d] = answers[d], said \subseteq said', stored \subseteq stored'
  PROVE  Progress(d)' /\ AnswersSaid(d)' /\ Fresh(d)'
<1>1. Progress(d)'
  BY DEF Progress, Filled, Asked, Lines
<1>2. AnswersSaid(d)'
  BY DEF AnswersSaid
<1>3. Fresh(d)'
  BY DEF Fresh
<1> QED BY <1>1, <1>2, <1>3

\* A call's lines are lines, its lists have their lengths.
LEMMA CallTypes ==
  ASSUME TypeOK, NEW c \in Call
  PROVE  /\ LinesOf[c] \in Seq(Line) /\ Len(LinesOf[c]) \in Nat
         /\ \A i \in Lines(c) : LinesOf[c][i] \in Line
         /\ ask[c] \in Seq(Line) /\ Len(ask[c]) \in Nat /\ DOMAIN ask[c] = 1..Len(ask[c])
         /\ answers[c] \in Seq(Answer) /\ Len(answers[c]) \in Nat
         /\ out[c] \in [Lines(c) -> Got \cup {NoEntry}] /\ DOMAIN out[c] = Lines(c)
         /\ next[c] \in Nat \ {0} /\ at[c] \in Nat /\ clock \in Nat
         /\ Now(c) \subseteq Nat
<1>1. LinesOf[c] \in Seq(Line)
  BY LinesAssumption
<1>2. \A i \in Lines(c) : LinesOf[c][i] \in Line
  BY <1>1, ElementOfSeq DEF Lines
<1>3. ask[c] \in Seq(Line) /\ answers[c] \in Seq(Answer) /\ next[c] \in Nat \ {0}
  BY DEF TypeOK
<1>4. out[c] \in [Lines(c) -> Got \cup {NoEntry}]
  BY DEF TypeOK, Lines
<1>5. at[c] \in Nat /\ clock \in Nat
  BY CacheAssumption DEF TypeOK
<1>6. Now(c) \subseteq Nat
  BY <1>5 DEF Now
<1>7. DOMAIN ask[c] = 1..Len(ask[c])
  BY <1>3, LenProperties
<1>8. DOMAIN out[c] = Lines(c)
  BY <1>4
<1>9. Len(LinesOf[c]) \in Nat /\ Len(ask[c]) \in Nat /\ Len(answers[c]) \in Nat
  BY <1>1, <1>3, LenProperties
<1> QED BY <1>1, <1>2, <1>3, <1>4, <1>5, <1>6, <1>7, <1>8, <1>9

\* The cache begins empty and every call before its first line.
LEMMA InitInv == Init => IInv
<1> SUFFICES ASSUME Init PROVE IInv
  OBVIOUS
<1>1. TypeOK
  BY CacheAssumption DEF Init, TypeOK
<1>2. CacheConsistent
  BY CacheAssumption DEF Init, CacheConsistent
<1>3. NotStale
  BY DEF Init, NotStale
<1>4. EntryStored /\ StoredSaid
  BY DEF Init, EntryStored, StoredSaid
<1>5. \A c \in Call : Progress(c) /\ AnswersSaid(c)
  BY DEF Init, Progress, AnswersSaid
<1> QED BY <1>1, <1>2, <1>3, <1>4, <1>5 DEF IInv

-----------------------------------------------------------------------------
\* A step of a call that touches neither the cache nor what was said or stored.
LEMMA QuietStep ==
  ASSUME IInv, NEW c \in Call, UNCHANGED <<clock, cache, next, ask, answers, out, history>>,
         NEW label \in {"lookup", "ask", "store", "validate", "done", "failed"},
         Goto(c, label), StepTaken(c), Progress(c)', AnswersSaid(c)'
  PROVE  IInv'
<1> USE DEF IInv, cache, history
<1>1. TypeOK'
  BY DEF TypeOK, Goto, StepTaken
<1>2. CacheConsistent' /\ EntryStored' /\ StoredSaid'
  BY DEF CacheConsistent, EntryStored, StoredSaid
<1>3. \A d \in Call : d # c => pc'[d] = pc[d]
  BY DEF Goto, TypeOK
<1>4. \A d \in Call : Fresh(d)
  BY FreshCalls
<1>5. \A d \in Call : d # c => Progress(d)' /\ AnswersSaid(d)'
  <2> TAKE d \in Call
  <2> HAVE d # c
  <2> QED BY <1>3, <1>4, OtherCall
<1>6. NotStale'
  BY DEF NotStale
<1> QED BY <1>1, <1>2, <1>5, <1>6

\* Time only makes entries older.
LEMMA TickStep == ASSUME IInv, Tick PROVE IInv'
<1> USE DEF IInv, cache, history, call, Tick
<1>1. TypeOK'
  BY CacheAssumption DEF TypeOK
<1>2. CacheConsistent' /\ EntryStored' /\ StoredSaid' /\ NotStale'
  BY DEF CacheConsistent, EntryStored, StoredSaid, NotStale
<1>3. ASSUME NEW d \in Call PROVE Progress(d)' /\ AnswersSaid(d)'
  BY <1>3 DEF Progress, AnswersSaid, Filled, Asked, Lines
<1> QED BY <1>1, <1>2, <1>3

\* A call without lines is done; another starts at its first line.
LEMMA BeginStep == ASSUME IInv, NEW c \in Call, Begin(c) PROVE IInv'
<1> USE DEF IInv
<1>1. LinesOf[c] \in Seq(Line) /\ Len(LinesOf[c]) \in Nat
  BY CallTypes
<1>2. pc[c] = "idle" /\ next[c] = 1
  BY DEF Begin, Progress
<1>u. /\ UNCHANGED <<clock, cache, next, ask, answers, out, history>> /\ StepTaken(c)
  BY DEF Begin
<1>3. CASE LinesOf[c] = << >>
  <2>1. Goto(c, "done") /\ pc'[c] = "done"
    BY <1>3 DEF Begin, Goto, TypeOK
  <2>2. Lines(c) = {}
    BY <1>3 DEF Lines
  <2>3. Progress(c)' /\ AnswersSaid(c)'
    BY <2>1, <2>2 DEF Progress, AnswersSaid, Lines
  <2> QED BY <2>1, <2>3, <1>u, QuietStep
<1>4. CASE LinesOf[c] # << >>
  <2>1. Goto(c, "lookup") /\ pc'[c] = "lookup"
    BY <1>4 DEF Begin, Goto, TypeOK
  <2>2. 1 \in Lines(c)
    BY <1>1, <1>4 DEF Lines
  <2>3. next'[c] = 1
    BY <1>2, <1>u
  <2>4. Progress(c)' /\ AnswersSaid(c)'
    BY <2>1, <2>2, <2>3 DEF Progress, AnswersSaid, Lines
  <2> QED BY <2>1, <2>4, <1>u, QuietStep
<1> QED BY <1>3, <1>4

\* A question that is not answered fails its call.
LEMMA ServiceFailsStep == ASSUME IInv, NEW c \in Call, ServiceFails(c) PROVE IInv'
<1>1. Goto(c, "failed") /\ pc'[c] = "failed"
  BY DEF ServiceFails, Goto, IInv, TypeOK
<1>2. Progress(c)' /\ AnswersSaid(c)'
  BY <1>1 DEF Progress, AnswersSaid
<1>3. UNCHANGED <<clock, cache, next, ask, answers, out, history>> /\ StepTaken(c)
  BY DEF ServiceFails
<1> QED BY <1>1, <1>2, <1>3, QuietStep

\* Only a call whose every line has a well-formed answer succeeds.
LEMMA ValidateStep == ASSUME IInv, NEW c \in Call, Validate(c) PROVE IInv'
<1>u. UNCHANGED <<clock, cache, next, ask, answers, out, history>> /\ StepTaken(c)
      /\ pc[c] = "validate"
  BY DEF Validate
<1>t. DOMAIN out[c] = Lines(c) /\ \A i \in Lines(c) : Filled(c, i)
  BY <1>u, CallTypes DEF IInv, Progress
<1>1. CASE \E i \in DOMAIN out[c] : out[c][i].spans \in Malformed
  <2>1. Goto(c, "failed") /\ pc'[c] = "failed"
    BY <1>1 DEF Validate, Goto, IInv, TypeOK
  <2>2. Progress(c)' /\ AnswersSaid(c)'
    BY <2>1 DEF Progress, AnswersSaid
  <2> QED BY <2>1, <2>2, <1>u, QuietStep
<1>2. CASE \A i \in DOMAIN out[c] : out[c][i].spans \notin Malformed
  <2>1. Goto(c, "done") /\ pc'[c] = "done"
    BY <1>2 DEF Validate, Goto, IInv, TypeOK
  <2>2. Progress(c)' /\ AnswersSaid(c)'
    BY <2>1, <1>2, <1>t, <1>u DEF Progress, AnswersSaid, Filled, Lines
  <2> QED BY <2>1, <2>2, <1>u, QuietStep
<1> QED BY <1>1, <1>2

-----------------------------------------------------------------------------
\* One lookup: the line's cached answer is still alive, or the line is asked.
LEMMA HitOrMiss ==
  ASSUME IInv, NEW c \in Call, next[c] \in Lines(c), NEW now \in Now(c),
         Hit(c, now) \/ Miss(c, now), UNCHANGED history
  PROVE  /\ order' \in Seq(Line) /\ CacheConsistent'
         /\ entry' \in [Line -> Entry \cup {NoEntry}] /\ EntryStored'
         /\ DOMAIN out' = Call /\ \A d \in Call : d # c => out'[d] = out[d]
         /\ out'[c] \in [Lines(c) -> Got \cup {NoEntry}] /\ Fresh(c)'
         /\ ask' \in [Call -> Seq(Line)] /\ \A d \in Call : d # c => ask'[d] = ask[d]
         /\ \A i \in Lines(c) : Filled(c, i) \/ Asked(c, i) \/ i = next[c]
                               => Filled(c, i)' \/ Asked(c, i)'
<1> USE DEF IInv, history
<1> DEFINE line == Current(c)
           found == [spans |-> entry[line].spans, time |-> now]
<1>1. line \in Line /\ line = LinesOf[c][next[c]] /\ now \in Nat
  BY CallTypes DEF Current
<1>2. /\ out[c] \in [Lines(c) -> Got \cup {NoEntry}] /\ ask[c] \in Seq(Line)
      /\ Len(ask[c]) \in Nat /\ DOMAIN out = Call /\ ask \in [Call -> Seq(Line)]
      /\ entry \in [Line -> Entry \cup {NoEntry}] /\ Fresh(c)
  BY CallTypes, FreshCalls DEF TypeOK
<1>3. CASE Hit(c, now)
  <2>1. /\ entry[line] # NoEntry /\ now < entry[line].expires
        /\ out' = [out EXCEPT ![c][next[c]] = found]
        /\ MoveToFront(line) /\ UNCHANGED <<entry, ask>>
    BY <1>3 DEF Hit
  <2> HIDE DEF line
  <2>2. order' \in Seq(Line) /\ CacheConsistent'
    BY <2>1, <1>1, MoveToFrontKeeps
  <2>3. PICK s \in stored : /\ s.line = line /\ s.spans = entry[line].spans
                             /\ entry[line].expires = s.time + TTL
    BY <2>1, <1>1 DEF EntryStored
  <2>4. entry[line].spans \in Answer /\ s.time \in Nat
    BY <2>1, <1>1, <1>2 DEF Entry, TypeOK
  <2>5. found \in Got /\ found # NoEntry /\ found.spans = s.spans /\ found.time = now
    BY <2>4, <2>3, <1>1, NoEntryAssumption DEF Got
  <2>6. now - s.time < TTL
    BY <2>1, <2>3, <2>4, <1>1, CacheAssumption
  <2> HIDE DEF found
  <2>7. /\ DOMAIN out' = Call /\ \A d \in Call : d # c => out'[d] = out[d]
        /\ out'[c] = [out[c] EXCEPT ![next[c]] = found]
    BY <2>1, <1>2
  <2>8. /\ out'[c] \in [Lines(c) -> Got \cup {NoEntry}] /\ out'[c][next[c]] = found
        /\ \A i \in Lines(c) : i # next[c] => out'[c][i] = out[c][i]
    BY <2>5, <2>7, <1>2
  <2>9. Fresh(c)'
    <3> SUFFICES ASSUME NEW i \in Lines(c), out'[c][i] # NoEntry
                 PROVE  \E r \in stored : /\ r.line = LinesOf[c][i] /\ r.spans = out'[c][i].spans
                                          /\ out'[c][i].time - r.time < TTL
      BY <2>8 DEF Fresh
    <3>1. CASE i = next[c]
      BY <3>1, <2>3, <2>5, <2>6, <2>8, <1>1
    <3>2. CASE i # next[c]
      BY <3>2, <2>8, <1>2 DEF Fresh
    <3> QED BY <3>1, <3>2
  <2>10. EntryStored'
    BY <2>1 DEF EntryStored
  <2>11. \A i \in Lines(c) : Filled(c, i) \/ Asked(c, i) \/ i = next[c]
                              => Filled(c, i)' \/ Asked(c, i)'
    BY <2>1, <2>5, <2>8 DEF Filled, Asked
  <2> QED BY <2>1, <2>2, <2>7, <2>8, <2>9, <2>10, <2>11, <1>2
<1>4. CASE Miss(c, now)
  <2> DEFINE more == IF Contains(ask[c], line) THEN ask[c] ELSE Append(ask[c], line)
  <2>1. /\ entry' = [entry EXCEPT ![line] = NoEntry] /\ order' = Without(order, line)
        /\ out' = out
    BY <1>4 DEF Miss
  <2>2. ask' = [ask EXCEPT ![c] = more]
    BY <1>4 DEF Miss
  <2> HIDE DEF line
  <2>3. /\ order' \in Seq(Line) /\ CacheConsistent'
        /\ entry' \in [Line -> Entry \cup {NoEntry}]
    BY <2>1, <1>1, RemovalKeeps
  <2>4. /\ more \in Seq(Line) /\ Len(more) >= Len(ask[c]) /\ Len(more) \in Nat
        /\ \A j \in 1..Len(ask[c]) : more[j] = ask[c][j]
        /\ \E j \in 1..Len(more) : more[j] = line
    <3>1. CASE Contains(ask[c], line)
      BY <3>1, <1>2 DEF Contains
    <3>2. CASE ~ Contains(ask[c], line)
      <4>1. /\ Append(ask[c], line) \in Seq(Line) /\ Len(Append(ask[c], line)) = Len(ask[c]) + 1
            /\ \A j \in 1..Len(ask[c]) : Append(ask[c], line)[j] = ask[c][j]
            /\ Append(ask[c], line)[Len(ask[c]) + 1] = line
        BY <1>1, <1>2, AppendProperties
      <4> QED BY <3>2, <4>1, <1>2
    <3> QED BY <3>1, <3>2
  <2> HIDE DEF more
  <2>5. /\ ask' \in [Call -> Seq(Line)] /\ \A d \in Call : d # c => ask'[d] = ask[d]
        /\ ask'[c] = more
    BY <2>2, <2>4, <1>2
  <2>6. EntryStored'
    BY <2>1, <1>2 DEF EntryStored
  <2>7. Fresh(c)'
    BY <2>1, <1>2 DEF Fresh
  <2>8. \A i \in Lines(c) : Asked(c, i) => Asked(c, i)'
    BY <2>4, <2>5, <1>2 DEF Asked
  <2>9. \A i \in Lines(c) : i = next[c] => Asked(c, i)'
    BY <2>4, <2>5, <1>1 DEF Asked
  <2>10. \A i \in Lines(c) : Filled(c, i) \/ Asked(c, i) \/ i = next[c]
                              => Filled(c, i)' \/ Asked(c, i)'
    BY <2>1, <2>8, <2>9 DEF Filled
  <2> QED BY <2>1, <2>3, <2>5, <2>6, <2>7, <2>10, <1>2
<1> QED BY <1>3, <1>4

\* After a lookup a call looks the next line up, asks, or has every answer.
LEMMA LookupStep == ASSUME IInv, NEW c \in Call, Lookup(c) PROVE IInv'
<1> USE DEF IInv
<1>0. pc[c] = "lookup" /\ next[c] \in Lines(c)
  BY DEF Lookup, Progress
<1>1. PICK now \in Now(c) : Hit(c, now) \/ Miss(c, now)
  BY DEF Lookup
<1>2. AfterLookup(c) /\ StepTaken(c) /\ UNCHANGED <<clock, answers, history>>
  BY DEF Lookup
<1>3. /\ order' \in Seq(Line) /\ CacheConsistent'
      /\ entry' \in [Line -> Entry \cup {NoEntry}] /\ EntryStored'
      /\ DOMAIN out' = Call /\ \A d \in Call : d # c => out'[d] = out[d]
      /\ out'[c] \in [Lines(c) -> Got \cup {NoEntry}] /\ Fresh(c)'
      /\ ask' \in [Call -> Seq(Line)] /\ \A d \in Call : d # c => ask'[d] = ask[d]
      /\ \A i \in Lines(c) : Filled(c, i) \/ Asked(c, i) \/ i = next[c]
                            => Filled(c, i)' \/ Asked(c, i)'
  BY <1>0, <1>1, <1>2, HitOrMiss
<1>4. Len(LinesOf[c]) \in Nat /\ next[c] \in Nat \ {0} /\ ask'[c] \in Seq(Line)
  BY <1>3, CallTypes
<1>5. /\ next' \in [Call -> Nat \ {0}] /\ \A d \in Call : d # c => next'[d] = next[d]
      /\ pc' \in [Call -> {"idle", "lookup", "ask", "store", "validate", "done", "failed"}]
      /\ \A d \in Call : d # c => pc'[d] = pc[d]
  <2>1. CASE next[c] < Len(LinesOf[c])
    <3>1. next' = [next EXCEPT ![c] = next[c] + 1] /\ pc' = pc
      BY <2>1, <1>2 DEF AfterLookup
    <3> QED BY <3>1, <1>4 DEF TypeOK
  <2>2. CASE ~ (next[c] < Len(LinesOf[c]))
    <3>1. PICK label \in {"validate", "ask"} : pc' = [pc EXCEPT ![c] = label]
      BY <2>2, <1>2 DEF AfterLookup, Goto
    <3>2. next' = [next EXCEPT ![c] = 1]
      BY <2>2, <1>2 DEF AfterLookup
    <3> QED BY <3>1, <3>2 DEF TypeOK
  <2> QED BY <2>1, <2>2
<1>6. Progress(c)' /\ AnswersSaid(c)'
  <2>1. CASE next[c] < Len(LinesOf[c])
    <3>1. pc'[c] = "lookup" /\ next'[c] = next[c] + 1
      BY <2>1, <1>0, <1>2 DEF AfterLookup, TypeOK
    <3>2. next'[c] \in Lines(c)
      BY <3>1, <2>1, <1>4 DEF Lines
    <3>3. \A i \in Lines(c) : i < next'[c] => Filled(c, i)' \/ Asked(c, i)'
      <4> TAKE i \in Lines(c)
      <4> HAVE i < next'[c]
      <4>1. i < next[c] \/ i = next[c]
        BY <3>1, <1>4 DEF Lines
      <4> QED BY <4>1, <1>0, <1>3 DEF Progress
    <3> QED BY <3>1, <3>2, <3>3 DEF Progress, AnswersSaid, Lines
  <2>2. CASE ~ (next[c] < Len(LinesOf[c]))
    <3>1. next'[c] = 1 /\ pc'[c] = IF ask'[c] = << >> THEN "validate" ELSE "ask"
      BY <2>2, <1>2 DEF AfterLookup, Goto, TypeOK
    <3>2. 1 \in Lines(c)
      BY <1>0, <1>4 DEF Lines
    <3>3. \A i \in Lines(c) : Filled(c, i)' \/ Asked(c, i)'
      <4> TAKE i \in Lines(c)
      <4>1. i < next[c] \/ i = next[c]
        BY <2>2, <1>0, <1>4 DEF Lines
      <4> QED BY <4>1, <1>0, <1>3 DEF Progress
    <3>4. ask'[c] = << >> => \A i \in Lines(c) : ~ Asked(c, i)'
      BY DEF Asked
    <3> QED BY <3>1, <3>2, <3>3, <3>4 DEF Progress, AnswersSaid, Lines
  <2> QED BY <2>1, <2>2
<1>7. \A d \in Call : d # c => Progress(d)' /\ AnswersSaid(d)' /\ Fresh(d)'
  <2> TAKE d \in Call
  <2> HAVE d # c
  <2>1. Fresh(d)
    BY FreshCalls
  <2> QED BY <2>1, <1>2, <1>3, <1>5, OtherCall DEF history
<1>8. NotStale'
  BY <1>3, <1>7 DEF NotStale, Fresh
<1>9. StoredSaid'
  BY <1>2 DEF StoredSaid, history
<1>10. \A d \in Call : out'[d] \in [1..Len(LinesOf[d]) -> Got \cup {NoEntry}]
  BY <1>3 DEF TypeOK, Lines
<1>11. TypeOK'
  BY <1>2, <1>3, <1>5, <1>10 DEF TypeOK, StepTaken, history
<1> QED BY <1>3, <1>6, <1>7, <1>8, <1>9, <1>11

\* Every line that was asked has an answer.
LEMMA ServiceAnswersStep == ASSUME IInv, NEW c \in Call, ServiceAnswers(c) PROVE IInv'
<1> USE DEF IInv
<1>1. PICK results \in [1..Len(ask[c]) -> Answer] :
        /\ answers' = [answers EXCEPT ![c] = results]
        /\ said' = said \cup {[line |-> ask[c][j], spans |-> results[j]] : j \in DOMAIN results}
  BY DEF ServiceAnswers
<1>2. /\ pc[c] = "ask" /\ Goto(c, "store") /\ StepTaken(c)
      /\ UNCHANGED <<clock, cache, next, ask, out, stored>>
  BY DEF ServiceAnswers
<1>3. ask[c] \in Seq(Line) /\ Len(ask[c]) \in Nat /\ DOMAIN results = 1..Len(ask[c])
  BY CallTypes
<1>4. results \in Seq(Answer) /\ Len(results) = Len(ask[c])
  BY <1>3
<1>5. \A j \in 1..Len(ask[c]) : ask[c][j] \in Line
  BY <1>3, ElementOfSeq
<1>6. said' \subseteq [line : Line, spans : Answer]
  BY <1>1, <1>3, <1>5 DEF TypeOK
<1>7. /\ answers' \in [Call -> Seq(Answer)] /\ answers'[c] = results
      /\ \A d \in Call : d # c => answers'[d] = answers[d]
  BY <1>1, <1>4 DEF TypeOK
<1>8. TypeOK'
  BY <1>2, <1>6, <1>7 DEF TypeOK, Goto, StepTaken, cache
<1>9. pc'[c] = "store" /\ \A d \in Call : d # c => pc'[d] = pc[d]
  BY <1>2 DEF Goto, TypeOK
<1>10. AnswersSaid(c)'
  BY <1>1, <1>2, <1>3, <1>4, <1>7 DEF AnswersSaid
<1>11. Progress(c)'
  BY <1>2, <1>9 DEF Progress, Filled, Asked, Lines
<1>12. \A d \in Call : d # c => Progress(d)' /\ AnswersSaid(d)'
  <2> TAKE d \in Call
  <2> HAVE d # c
  <2>1. Fresh(d) /\ said \subseteq said'
    BY <1>1, FreshCalls
  <2> QED BY <2>1, <1>2, <1>7, <1>9, OtherCall
<1>13. CacheConsistent' /\ EntryStored' /\ NotStale'
  BY <1>2 DEF CacheConsistent, EntryStored, NotStale, cache
<1>14. StoredSaid'
  BY <1>1, <1>2 DEF StoredSaid
<1> QED BY <1>8, <1>10, <1>11, <1>12, <1>13, <1>14

-----------------------------------------------------------------------------
\* One round of the storing loop: the line has its answer and, when it was
\* asked, the cache has it too.
LEMMA StoreRound ==
  ASSUME IInv, NEW c \in Call, Store(c)
  PROVE  /\ order' \in Seq(Line) /\ CacheConsistent'
         /\ entry' \in [Line -> Entry \cup {NoEntry}] /\ EntryStored'
         /\ stored \subseteq stored' /\ StoredSaid'
         /\ stored' \subseteq [line : Line, spans : Answer, time : Nat]
         /\ DOMAIN out' = Call /\ \A d \in Call : d # c => out'[d] = out[d]
         /\ out'[c] \in [Lines(c) -> Got \cup {NoEntry}] /\ Fresh(c)'
         /\ \A i \in Lines(c) : Filled(c, i) \/ i = next[c] => Filled(c, i)'
<1> USE DEF IInv
<1>0. pc[c] = "store" /\ next[c] \in Lines(c) /\ UNCHANGED <<clock, ask, answers, said>>
  BY DEF Store, Progress
<1>1. /\ out[c] \in [Lines(c) -> Got \cup {NoEntry}] /\ DOMAIN out = Call
      /\ entry \in [Line -> Entry \cup {NoEntry}] /\ Fresh(c)
      /\ LinesOf[c][next[c]] \in Line
  BY <1>0, CallTypes, FreshCalls DEF TypeOK
<1>2. CASE out[c][next[c]] # NoEntry
  <2>1. UNCHANGED <<cache, out, stored>>
    BY <1>2 DEF Store
  <2>2. CacheConsistent' /\ EntryStored' /\ StoredSaid' /\ Fresh(c)'
    BY <2>1, <1>0, <1>1 DEF CacheConsistent, EntryStored, StoredSaid, Fresh, cache
  <2>3. \A i \in Lines(c) : Filled(c, i) \/ i = next[c] => Filled(c, i)'
    BY <2>1, <1>2 DEF Filled
  <2> QED BY <2>1, <2>2, <2>3, <1>1 DEF cache, TypeOK
<1>3. CASE out[c][next[c]] = NoEntry
  <2> DEFINE line == LinesOf[c][next[c]]
             spans == AnswerTo(c, next[c])
  <2>1. PICK now \in Now(c) :
          /\ out' = [out EXCEPT ![c][next[c]] = [spans |-> spans, time |-> now]]
          /\ stored' = stored \cup {[line |-> line, spans |-> spans, time |-> now]}
          /\ Put(line, spans, now + TTL)
    BY <1>3 DEF Store, Current
  <2>2. now \in Nat /\ now + TTL \in Nat
    BY CallTypes, CacheAssumption
  <2>3. Asked(c, next[c])
    BY <1>0, <1>3 DEF Progress, Filled
  <2>4. PICK j \in 1..Len(ask[c]) : ask[c][j] = line /\ spans = answers[c][j]
    <3>1. DOMAIN ask[c] = 1..Len(ask[c])
      BY CallTypes
    <3> QED BY <2>3, <3>1 DEF Asked, AnswerTo
  <2>5. [line |-> line, spans |-> spans] \in said
    BY <2>4, <1>0 DEF AnswersSaid
  <2> HIDE DEF line, spans
  <2>6. line \in Line /\ spans \in Answer
    BY <2>5 DEF TypeOK
  <2> DEFINE got == [spans |-> spans, time |-> now]
             new == [line |-> line, spans |-> spans, time |-> now]
  <2>7. got \in Got /\ got # NoEntry /\ got.spans = spans /\ got.time = now
    BY <2>2, <2>6, NoEntryAssumption DEF Got
  <2>8. /\ new \in stored' /\ new.line = line /\ new.spans = spans /\ new.time = now
        /\ new \in [line : Line, spans : Answer, time : Nat]
        /\ stored' = stored \cup {new}
    BY <2>1, <2>2, <2>6
  <2>p. out' = [out EXCEPT ![c][next[c]] = got]
    BY <2>1
  <2> HIDE DEF got, new
  <2>9. /\ order' \in Seq(Line) /\ CacheConsistent'
        /\ entry' \in [Line -> Entry \cup {NoEntry}]
        /\ entry'[line] = [spans |-> spans, expires |-> now + TTL]
        /\ \A l \in Line : l # line => entry'[l] \in {entry[l], NoEntry}
    BY <2>1, <2>2, <2>6, PutKeeps
  <2>10. EntryStored'
    <3> SUFFICES ASSUME NEW l \in Line, entry'[l] # NoEntry
                 PROVE  \E s \in stored' : /\ s.line = l /\ s.spans = entry'[l].spans
                                           /\ entry'[l].expires = s.time + TTL
      BY <1>0 DEF EntryStored
    <3>1. CASE l = line
      BY <3>1, <2>8, <2>9
    <3>2. CASE l # line
      <4>1. entry'[l] = entry[l] /\ entry[l] # NoEntry
        BY <3>2, <2>9
      <4> QED BY <4>1, <2>8 DEF EntryStored
    <3> QED BY <3>1, <3>2
  <2>11. StoredSaid'
    BY <2>5, <2>8, <1>0 DEF StoredSaid
  <2>12. stored' \subseteq [line : Line, spans : Answer, time : Nat]
    BY <2>8 DEF TypeOK
  <2>13. /\ DOMAIN out' = Call /\ \A d \in Call : d # c => out'[d] = out[d]
         /\ out'[c] = [out[c] EXCEPT ![next[c]] = got]
    BY <2>p, <1>1
  <2>14. /\ out'[c] \in [Lines(c) -> Got \cup {NoEntry}] /\ out'[c][next[c]] = got
         /\ \A i \in Lines(c) : i # next[c] => out'[c][i] = out[c][i]
    BY <2>7, <2>13, <1>0, <1>1
  <2>15. Fresh(c)'
    <3> SUFFICES ASSUME NEW i \in Lines(c), out'[c][i] # NoEntry
                 PROVE  \E s \in stored' : /\ s.line = LinesOf[c][i] /\ s.spans = out'[c][i].spans
                                           /\ out'[c][i].time - s.time < TTL
      BY <2>14 DEF Fresh
    <3>1. CASE i = next[c]
      <4>1. now - now < TTL
        BY <2>2, CacheAssumption
      <4> QED BY <3>1, <4>1, <2>7, <2>8, <2>14 DEF line
    <3>2. CASE i # next[c]
      BY <3>2, <2>8, <2>14, <1>1 DEF Fresh
    <3> QED BY <3>1, <3>2
  <2>16. \A i \in Lines(c) : Filled(c, i) \/ i = next[c] => Filled(c, i)'
    BY <2>7, <2>14 DEF Filled
  <2> QED BY <2>8, <2>9, <2>10, <2>11, <2>12, <2>13, <2>14, <2>15, <2>16
<1> QED BY <1>2, <1>3

\* Behind the last line a call validates its answers.
LEMMA StoreStep == ASSUME IInv, NEW c \in Call, Store(c) PROVE IInv'
<1> USE DEF IInv
<1>0. pc[c] = "store" /\ next[c] \in Lines(c)
  BY DEF Store, Progress
<1>2. AfterStore(c) /\ StepTaken(c) /\ UNCHANGED <<clock, ask, answers, said>>
  BY DEF Store
<1>3. /\ order' \in Seq(Line) /\ CacheConsistent'
      /\ entry' \in [Line -> Entry \cup {NoEntry}] /\ EntryStored'
      /\ stored \subseteq stored' /\ StoredSaid'
      /\ stored' \subseteq [line : Line, spans : Answer, time : Nat]
      /\ DOMAIN out' = Call /\ \A d \in Call : d # c => out'[d] = out[d]
      /\ out'[c] \in [Lines(c) -> Got \cup {NoEntry}] /\ Fresh(c)'
      /\ \A i \in Lines(c) : Filled(c, i) \/ i = next[c] => Filled(c, i)'
  BY StoreRound
<1>4. Len(LinesOf[c]) \in Nat /\ next[c] \in Nat \ {0}
  BY CallTypes
<1>5. /\ next' \in [Call -> Nat \ {0}] /\ \A d \in Call : d # c => next'[d] = next[d]
      /\ pc' \in [Call -> {"idle", "lookup", "ask", "store", "validate", "done", "failed"}]
      /\ \A d \in Call : d # c => pc'[d] = pc[d]
  <2>1. CASE next[c] < Len(LinesOf[c])
    <3>1. next' = [next EXCEPT ![c] = next[c] + 1] /\ pc' = pc
      BY <2>1, <1>2 DEF AfterStore
    <3> QED BY <3>1, <1>4 DEF TypeOK
  <2>2. CASE ~ (next[c] < Len(LinesOf[c]))
    BY <2>2, <1>2 DEF AfterStore, Goto, TypeOK
  <2> QED BY <2>1, <2>2
<1>6. Progress(c)' /\ AnswersSaid(c)'
  <2>1. CASE next[c] < Len(LinesOf[c])
    <3>1. pc'[c] = "store" /\ next'[c] = next[c] + 1
      BY <2>1, <1>0, <1>2 DEF AfterStore, TypeOK
    <3>2. next'[c] \in Lines(c)
      BY <3>1, <2>1, <1>4 DEF Lines
    <3>3. \A i \in Lines(c) : i < next'[c] => Filled(c, i)'
      <4> TAKE i \in Lines(c)
      <4> HAVE i < next'[c]
      <4>1. i < next[c] \/ i = next[c]
        BY <3>1, <1>4 DEF Lines
      <4> QED BY <4>1, <1>0, <1>3 DEF Progress
    <3>4. \A i \in Lines(c) : Filled(c, i)' \/ Asked(c, i)'
      BY <1>0, <1>2, <1>3 DEF Progress, Asked
    <3>5. AnswersSaid(c)'
      BY <1>0, <1>2 DEF AnswersSaid
    <3> QED BY <3>1, <3>2, <3>3, <3>4, <3>5 DEF Progress, Lines
  <2>2. CASE ~ (next[c] < Len(LinesOf[c]))
    <3>1. pc'[c] = "validate"
      BY <2>2, <1>2 DEF AfterStore, Goto, TypeOK
    <3>2. \A i \in Lines(c) : Filled(c, i)'
      <4> TAKE i \in Lines(c)
      <4>1. i < next[c] \/ i = next[c]
        BY <2>2, <1>0, <1>4 DEF Lines
      <4> QED BY <4>1, <1>0, <1>3 DEF Progress
    <3> QED BY <3>1, <3>2 DEF Progress, AnswersSaid, Lines
  <2> QED BY <2>1, <2>2
<1>7. \A d \in Call : d # c => Progress(d)' /\ AnswersSaid(d)' /\ Fresh(d)'
  <2> TAKE d \in Call
  <2> HAVE d # c
  <2>1. Fresh(d)
    BY FreshCalls
  <2> QED BY <2>1, <1>2, <1>3, <1>5, OtherCall
<1>8. NotStale'
  BY <1>3, <1>7 DEF NotStale, Fresh
<1>9. \A d \in Call : out'[d] \in [1..Len(LinesOf[d]) -> Got \cup {NoEntry}]
  BY <1>3 DEF TypeOK, Lines
<1>10. TypeOK'
  BY <1>2, <1>3, <1>5, <1>9 DEF TypeOK, StepTaken
<1> QED BY <1>3, <1>6, <1>7, <1>8, <1>10

-----------------------------------------------------------------------------
\* Every step of the calls and the clock keeps the invariant.
LEMMA NextInv == IInv /\ [Next]_vars => IInv'
<1> SUFFICES ASSUME IInv, [Next]_vars PROVE IInv'
  OBVIOUS
<1>1. CASE Tick
  BY <1>1, TickStep
<1>2. CASE UNCHANGED vars
  <2>1. UNCHANGED <<clock, order, entry, pc, next, ask, answers, out, at, said, stored>>
    BY <1>2 DEF vars, cache, call, history
  <2> QED BY <2>1 DEF IInv, TypeOK, CacheConsistent, NotStale, EntryStored, StoredSaid,
                      Progress, AnswersSaid, Filled, Asked, Lines
<1>3. ASSUME NEW c \in Call, Step(c) PROVE IInv'
  BY <1>3, BeginStep, LookupStep, ServiceAnswersStep, ServiceFailsStep, StoreStep, ValidateStep
     DEF Step
<1> QED BY <1>1, <1>2, <1>3 DEF Next, AllOver

\* The inductive invariant holds for any number of overlapping calls.
LEMMA Invariance == Spec => []IInv
<1> QED BY InitInv, NextInv, PTL DEF Spec

\* The loops of spansFor stay inside their lists, for every text and cache.
THEOREM CallsTyped == Spec => []TypeOK
<1>1. IInv => TypeOK
  BY DEF IInv
<1> QED BY <1>1, Invariance, PTL

\* List and map of the cache agree, each line is held once, and the capacity
\* is kept, whatever the calls do at the same time.
THEOREM CacheStaysConsistent == Spec => []CacheConsistent
<1>1. IInv => CacheConsistent
  BY DEF IInv
<1> QED BY <1>1, Invariance, PTL

\* A call that succeeds holds the service's answer to each of its own lines.
THEOREM AnswersAreOwn == Spec => []OwnAnswers
<1>1. IInv => OwnAnswers
  <2> SUFFICES ASSUME IInv, NEW c \in Call, pc[c] = "done", NEW i \in DOMAIN LinesOf[c]
               PROVE  /\ out[c][i].spans \notin Malformed
                      /\ [line |-> LinesOf[c][i], spans |-> out[c][i].spans] \in said
    BY DEF OwnAnswers
  <2>1. LinesOf[c] \in Seq(Line) /\ DOMAIN out[c] = Lines(c)
    BY CallTypes DEF IInv
  <2>2. i \in Lines(c) /\ i \in DOMAIN out[c]
    BY <2>1, LenProperties DEF Lines
  <2>3. out[c][i] # NoEntry /\ out[c][i].spans \notin Malformed
    BY <2>2 DEF IInv, Progress, Filled
  <2>4. PICK s \in stored : s.line = LinesOf[c][i] /\ s.spans = out[c][i].spans
    BY <2>2, <2>3 DEF IInv, NotStale
  <2> QED BY <2>3, <2>4 DEF IInv, StoredSaid
<1> QED BY <1>1, Invariance, PTL

\* No call uses an answer that was stored TTL or more before it was read.
THEOREM NoStaleAnswer == Spec => []NotStale
<1>1. IInv => NotStale
  BY DEF IInv
<1> QED BY <1>1, Invariance, PTL
=============================================================================
