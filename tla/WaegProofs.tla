----------------------------- MODULE WaegProofs -----------------------------
(***************************************************************************)
(* For every number of requests of the gateway and every way to identify   *)
(* them: what they keep is typed, their sessions are kept apart -- a       *)
(* session knows only names that stand in prompts of its own requests --   *)
(* and an answer without a pseudonym is handed over as it is.              *)
(***************************************************************************)
EXTENDS Waeg, ReplacerTheorems

\* The pseudonyms, and the names they may stand for.
PoolNames == {Pool[i] : i \in DOMAIN Pool}
NamedSet == {Named[i] : i \in DOMAIN Named}

-----------------------------------------------------------------------------
(* What a pre-call adds to the mapping. *)

\* A mapping with some names more, whose pseudonyms are from the pool.
Extension(m, more, names) ==
  /\ DOMAIN m \subseteq DOMAIN more /\ DOMAIN more \subseteq DOMAIN m \cup names
  /\ \A k \in DOMAIN m : more[k] = m[k]
  /\ \A k \in DOMAIN more \ DOMAIN m : more[k] \in PoolNames

\* One name more (WithName).
LEMMA WithNameExtends ==
  ASSUME NEW m, NEW name, NEW text
  PROVE  Extension(m, WithName(m, name, text), {name})
<1> DEFINE free == {i \in DOMAIN Pool : Pool[i] \notin {m[k] : k \in DOMAIN m} /\ ~Occurs(Pool[i], text)}
           stays == free = {} \/ \E k \in DOMAIN m : ToLower(k) = ToLower(name)
           first == CHOOSE i \in free : \A j \in free : i <= j
           more == [k \in DOMAIN m \cup {name} |-> IF k \in DOMAIN m THEN m[k] ELSE Pool[first]]
<1>1. WithName(m, name, text) = IF stays THEN m ELSE more
  BY Zenon DEF WithName
<1>2. CASE stays
  <2>1. WithName(m, name, text) = m
    BY <1>1, <1>2, Zenon
  <2> QED BY <2>1 DEF Extension
<1>3. CASE ~stays
  <2>1. WithName(m, name, text) = more
    BY <1>1, <1>3, Zenon
  <2>2. \E i \in free : \A j \in free : i <= j
    <3>1. free \subseteq Nat /\ free # {}
      BY <1>3, WaegAssumption
    <3> HIDE DEF free
    <3> QED BY <3>1, LeastNumber
  <2>3. first \in DOMAIN Pool
    BY <2>2
  <2> HIDE DEF first
  <2>4. Extension(m, more, {name})
    BY <2>3 DEF Extension, PoolNames
  <2> QED BY <2>1, <2>4
<1> QED BY <1>2, <1>3

\* The mapping after the first n names, when after says what it is before.
Learned(after, m, found, text, n) ==
  IF n = 0 THEN m
  ELSE IF Named[n] \in found THEN WithName(after[n - 1], Named[n], text)
  ELSE after[n - 1]

\* The names are gone through to the end.
LEMMA LearningEnds ==
  ASSUME NEW m, NEW found, NEW text
  PROVE  \E after : after = [n \in 0..Len(Named) |-> Learned(after, m, found, text, n)]
<1> DEFINE good(n) == \E after : after = [x \in 0..n |-> Learned(after, m, found, text, x)]
           bad == {n \in 0..Len(Named) : ~good(n)}
<1>1. Len(Named) \in Nat
  BY WaegAssumption
<1> SUFFICES ASSUME bad # {} PROVE FALSE
  <2>1. Len(Named) \in bad \/ good(Len(Named))
    BY <1>1
  <2> QED BY <2>1
<1>2. PICK n \in bad : \A x \in bad : n <= x
  <2>1. bad \subseteq Nat
    OBVIOUS
  <2> HIDE DEF bad
  <2> QED BY <2>1, LeastNumber
<1>3. n # 0
  <2> DEFINE only == [x \in 0..0 |-> m]
  <2>1. ASSUME NEW x \in 0..0 PROVE Learned(only, m, found, text, x) = m
    BY <2>1 DEF Learned
  <2>2. only = [x \in 0..0 |-> Learned(only, m, found, text, x)]
    BY <2>1
  <2>3. good(0)
    BY <2>2
  <2> QED BY <1>2, <2>3
<1>4. n \in Nat /\ n - 1 \in 0..Len(Named) /\ good(n - 1)
  <2> HIDE DEF good
  <2>1. n \in 0..Len(Named) /\ n - 1 \in 0..Len(Named) /\ ~(n <= n - 1)
    BY <1>1, <1>2, <1>3
  <2> QED BY <1>2, <2>1
<1>5. PICK after : after = [x \in 0..(n - 1) |-> Learned(after, m, found, text, x)]
  BY <1>4
<1> DEFINE more == [x \in 0..n |-> IF x = n THEN Learned(after, m, found, text, n) ELSE after[x]]
<1>6. ASSUME NEW x \in 0..n
      PROVE  Learned(more, m, found, text, x) = Learned(after, m, found, text, x)
  <2>1. CASE x = 0
    BY <2>1 DEF Learned
  <2>2. CASE x # 0
    <3>1. x - 1 \in 0..n /\ x - 1 # n
      BY <1>4, <2>2
    <3>2. more[x - 1] = after[x - 1]
      BY <3>1
    <3> QED BY <3>2 DEF Learned
  <2> QED BY <2>1, <2>2
<1>7. ASSUME NEW x \in 0..n PROVE more[x] = Learned(more, m, found, text, x)
  <2>1. CASE x = n
    BY <1>6, <2>1
  <2>2. CASE x # n
    <3>1. x \in 0..(n - 1)
      BY <1>4, <2>2
    <3>2. after[x] = Learned(after, m, found, text, x)
      BY <1>5, <3>1
    <3> QED BY <1>6, <2>2, <3>2
  <2> QED BY <2>1, <2>2
<1>8. more = [x \in 0..n |-> Learned(more, m, found, text, x)]
  BY <1>7
<1>9. good(n)
  BY <1>8
<1> QED BY <1>2, <1>9

\* All that a pre-call adds are names it found, with pseudonyms from the pool;
\* what a name had it keeps (Learn, assignNew).
LEMMA LearnExtends ==
  ASSUME NEW m, NEW found, NEW text
  PROVE  Extension(m, Learn(m, found, text), found)
<1> DEFINE after == CHOOSE f : f = [n \in 0..Len(Named) |-> Learned(f, m, found, text, n)]
           bad == {n \in 0..Len(Named) : ~Extension(m, after[n], found)}
<1>1. after = [n \in 0..Len(Named) |-> Learned(after, m, found, text, n)]
  BY LearningEnds
<1>2. Learn(m, found, text) = after[Len(Named)]
  BY Zenon DEF Learn, Learned
<1> HIDE DEF after
<1>3. Len(Named) \in Nat
  BY WaegAssumption
<1>4. bad = {}
  <2> SUFFICES ASSUME bad # {} PROVE FALSE
    OBVIOUS
  <2>1. PICK n \in bad : \A x \in bad : n <= x
    <3>1. bad \subseteq Nat
      OBVIOUS
    <3> HIDE DEF bad
    <3> QED BY <3>1, LeastNumber
  <2>2. after[n] = Learned(after, m, found, text, n)
    BY <1>1, <2>1
  <2>3. CASE n = 0
    BY <2>1, <2>2, <2>3 DEF Learned, Extension
  <2>4. CASE n # 0
    <3>1. n - 1 \in 0..Len(Named) /\ ~(n <= n - 1)
      BY <1>3, <2>1, <2>4
    <3>2. Extension(m, after[n - 1], found)
      BY <2>1, <3>1
    <3>3. CASE Named[n] \in found
      <4>1. after[n] = WithName(after[n - 1], Named[n], text)
        BY <2>2, <2>4, <3>3 DEF Learned
      <4>2. Extension(after[n - 1], after[n], {Named[n]})
        BY <4>1, WithNameExtends
      <4>3. Extension(m, after[n], found)
        BY <3>2, <3>3, <4>2 DEF Extension
      <4> QED BY <2>1, <4>3
    <3>4. CASE Named[n] \notin found
      <4>1. after[n] = after[n - 1]
        BY <2>2, <2>4, <3>4 DEF Learned
      <4> QED BY <2>1, <3>2, <4>1
    <3> QED BY <3>3, <3>4
  <2> QED BY <2>3, <2>4
<1>5. Len(Named) \in 0..Len(Named)
  BY <1>3
<1> QED BY <1>2, <1>4, <1>5

-----------------------------------------------------------------------------
(* The session of a request. *)

\* The request id, or what stands for a missing one.
CallOf(r) == IF identity[r].request = NoId THEN WaegAnon ELSE identity[r].request

\* The session id, or what is derived from the user, or else from the request.
LEMMA SessionIs ==
  ASSUME NEW r
  PROVE  SessionOf(r) = IF identity[r].session # NoId THEN identity[r].session
                        ELSE IF identity[r].user # NoId THEN Sanitize[identity[r].user]
                        ELSE Sanitize[CallOf(r)]
<1> DEFINE known == [metadata |-> << >>, endUser |-> identity[r].user, trace |-> NoId, call |-> CallOf(r)]
           chain == <<Newest(known.metadata), known.endUser, known.trace, known.call>>
           present == {i \in 1..4 : chain[i] # NoId}
           first == CHOOSE i \in present : \A j \in present : i <= j
<1>1. SessionOf(r) = IF identity[r].session # NoId THEN identity[r].session ELSE Derive(known, WaegAnon)
  BY Zenon DEF SessionOf, CallOf
<1>2. Derive(known, WaegAnon) = IF present = {} THEN WaegAnon ELSE Sanitize[chain[first]]
  BY Zenon DEF Derive
<1>3. Newest(<< >>) = NoId
  BY DEF Newest
<1>4. CallOf(r) # NoId
  BY WaegAssumption, SanitizeAssumption DEF CallOf
<1>5. chain = <<NoId, identity[r].user, NoId, CallOf(r)>>
  BY <1>3
<1> HIDE DEF chain
<1>6. chain[1] = NoId /\ chain[2] = identity[r].user /\ chain[3] = NoId /\ chain[4] = CallOf(r)
  BY <1>5
<1>7. CASE identity[r].user # NoId
  <2>1. present = {2, 4}
    BY <1>4, <1>6, <1>7
  <2>2. first = 2
    BY <2>1
  <2> HIDE DEF first, present
  <2> QED BY <1>1, <1>2, <1>6, <1>7, <2>1, <2>2
<1>8. CASE identity[r].user = NoId
  <2>1. present = {4}
    BY <1>4, <1>6, <1>8
  <2>2. first = 4
    BY <2>1
  <2> HIDE DEF first, present
  <2> QED BY <1>1, <1>2, <1>6, <1>8, <2>1, <2>2
<1> QED BY <1>7, <1>8

\* It is one.
LEMMA SessionTyped ==
  ASSUME identity \in Identities, NEW r \in Request
  PROVE  SessionOf(r) \in Session
<1>1. /\ identity[r].session \in Id \cup {NoId} /\ identity[r].user \in Id \cup {NoId}
      /\ identity[r].request \in Id \cup {NoId}
  BY WaegAssumption
<1>2. WaegAnon \in Id /\ Id \subseteq Session /\ Sanitize \in [Id -> Id]
  BY WaegAssumption, SanitizeAssumption
<1>3. CallOf(r) \in Id
  BY <1>1, <1>2 DEF CallOf
<1> QED BY <1>1, <1>2, <1>3, SessionIs

-----------------------------------------------------------------------------
(* Types. *)

Labels == {"new", "masked", "sent", "streaming", "window", "whole", "over", "failed"}

\* Nothing of an answer is there before the model answers.
Before == {"new", "masked", "sent"}

Unanswered ==
  \A r \in Request :
    pc[r] \in Before => got[r] = 0 /\ pending[r] = << >> /\ committed[r] = << >>

IInv == TypeOK /\ Unanswered

\* The mapping of a session is one between strings, and so is its inverse.
LEMMA StoreMaps ==
  ASSUME TypeOK, NEW s \in Session
  PROVE  /\ StringMapping(store[s]) /\ StringMapping(Backward(store[s]))
         /\ \A p \in DOMAIN Backward(store[s]) : Backward(store[s])[p] \in DOMAIN store[s]
<1>1. /\ DOMAIN store[s] \subseteq NamedSet
      /\ \A k \in DOMAIN store[s] : store[s][k] \in PoolNames
  BY Zenon DEF TypeOK, NamedSet, PoolNames
<1>2. NamedSet \subseteq Seq(Char) \ {<< >>} /\ PoolNames \subseteq Seq(Char) \ {<< >>}
  <2>1. \A i \in DOMAIN Named : Named[i] \in Seq(Char) \ {<< >>}
    BY WaegAssumption
  <2>2. \A i \in DOMAIN Pool : Pool[i] \in Seq(Char) \ {<< >>}
    BY WaegAssumption
  <2> QED BY <2>1, <2>2, Zenon DEF NamedSet, PoolNames
<1> DEFINE back == Backward(store[s])
<1>3. ASSUME NEW p \in DOMAIN back
      PROVE  p \in PoolNames /\ back[p] \in DOMAIN store[s]
  <2>1. \E k \in DOMAIN store[s] : store[s][k] = p
    BY <1>3 DEF Backward
  <2>2. back[p] = CHOOSE k \in DOMAIN store[s] : store[s][k] = p
    BY <1>3 DEF Backward
  <2> QED BY <1>1, <2>1, <2>2
<1>4. StringMapping(store[s])
  BY <1>1, <1>2 DEF StringMapping
<1> HIDE DEF back
<1>5. StringMapping(back)
  BY <1>1, <1>2, <1>3 DEF StringMapping
<1> QED BY <1>3, <1>4, <1>5 DEF back

\* A mapping with more names is one.
LEMMA LearnTyped ==
  ASSUME TypeOK, NEW s \in Session, NEW found, found \subseteq NamedSet, NEW text
  PROVE  /\ DOMAIN Learn(store[s], found, text) \subseteq NamedSet
         /\ \A k \in DOMAIN Learn(store[s], found, text) :
              Learn(store[s], found, text)[k] \in PoolNames
         /\ StringMapping(Learn(store[s], found, text))
<1> DEFINE m == Learn(store[s], found, text)
<1>1. Extension(store[s], m, found)
  BY LearnExtends
<1>2. /\ DOMAIN store[s] \subseteq NamedSet
      /\ \A k \in DOMAIN store[s] : store[s][k] \in PoolNames
  BY Zenon DEF TypeOK, NamedSet, PoolNames
<1> HIDE DEF m
<1>3. DOMAIN m \subseteq NamedSet /\ \A k \in DOMAIN m : m[k] \in PoolNames
  BY <1>1, <1>2 DEF Extension
<1>4. \A i \in DOMAIN Named : Named[i] \in Seq(Char) \ {<< >>}
  BY WaegAssumption
<1>5. \A i \in DOMAIN Pool : Pool[i] \in Seq(Char) \ {<< >>}
  BY WaegAssumption
<1>6. StringMapping(m)
  BY <1>3, <1>4, <1>5 DEF StringMapping, NamedSet, PoolNames
<1> QED BY <1>3, <1>6 DEF m

\* The text of a during-call is a string, and so is what is made of it.
LEMMA RestoredTyped ==
  ASSUME TypeOK, NEW r \in Request
  PROVE  /\ WindowOf(r) \in Seq(Char)
         /\ Restored(r, WindowOf(r)).text \in Seq(Char)
         /\ Restored(r, WindowOf(r)).hold \in Nat
<1> DEFINE raw == WindowOf(r)
           back == Backward(store[SessionOf(r)])
           text == Replace(raw, back)
           hold == ComputeHoldback(text, DOMAIN back)
<1>1. pending[r] \in Seq(Char) /\ answer[r] \in Seq(Char) /\ got[r] \in Nat /\ got[r] <= Len(answer[r])
  BY DEF TypeOK
<1>2. Accumulated(r) \in Seq(Char)
  BY <1>1, PieceFacts DEF Accumulated
<1>3. raw \in Seq(Char)
  BY <1>1, <1>2 DEF WindowOf, FirstNonEmpty
<1>4. SessionOf(r) \in Session
  BY SessionTyped DEF TypeOK
<1>5. StringMapping(back)
  BY <1>4, StoreMaps
<1> HIDE DEF raw
<1>6. text \in Seq(Char)
  BY <1>3, <1>5, ReplaceTyped
<1>7. hold \in 0..Len(text)
  BY <1>6, HoldbackFacts
<1>8. /\ Restored(r, raw).text \in {text, << >>} /\ Restored(r, raw).hold \in {hold, 0}
  BY DEF Restored
<1> HIDE DEF text, hold
<1>9. Len(text) \in Nat /\ << >> \in Seq(Char)
  BY <1>6
<1>10. Restored(r, raw).text \in Seq(Char)
  BY <1>6, <1>8, <1>9, Zenon
<1>11. hold \in Nat /\ 0 \in Nat
  BY <1>7, <1>9
<1>12. Restored(r, raw).hold \in Nat
  BY <1>8, <1>11, Zenon
<1> QED BY <1>3, <1>10, <1>12 DEF raw

\* What is committed and what is left are the parts of a string.
LEMMA Cut ==
  ASSUME NEW window \in Seq(Char), NEW hold \in Nat,
         NEW cut, cut = IF hold < Len(window) THEN Len(window) - hold ELSE 0
  PROVE  /\ cut \in 0..Len(window)
         /\ SubSeq(window, 1, cut) \in Seq(Char)
         /\ \A x \in 1..Len(SubSeq(window, 1, cut)) :
              x \in 1..Len(window) /\ SubSeq(window, 1, cut)[x] = window[x]
         /\ SubSeq(window, cut + 1, Len(window)) \in Seq(Char)
         /\ \A x \in 1..Len(SubSeq(window, cut + 1, Len(window))) :
              cut + x \in 1..Len(window) /\ SubSeq(window, cut + 1, Len(window))[x] = window[cut + x]
<1>1. Len(window) \in Nat /\ cut \in 0..Len(window)
  OBVIOUS
<1>2. /\ 1 \in Int /\ cut \in Int /\ 1 <= cut + 1 /\ cut <= Len(window)
      /\ cut + 1 \in Int /\ Len(window) \in Int /\ 1 <= cut + 1 /\ cut + 1 <= Len(window) + 1
  BY <1>1
<1>3. /\ SubSeq(window, 1, cut) \in Seq(Char) /\ Len(SubSeq(window, 1, cut)) = cut - 1 + 1
      /\ \A x \in 1..Len(SubSeq(window, 1, cut)) : SubSeq(window, 1, cut)[x] = window[1 + x - 1]
  BY <1>2, PieceFacts
<1> DEFINE left == SubSeq(window, cut + 1, Len(window))
<1>4. /\ left \in Seq(Char) /\ Len(left) = Len(window) - (cut + 1) + 1
      /\ \A x \in 1..Len(left) : left[x] = window[cut + 1 + x - 1]
  <2>1. PICK first \in Int : first = cut + 1
    BY <1>2
  <2>2. PICK last \in Int : last = Len(window)
    BY <1>2
  <2>3. 1 <= first /\ first <= last + 1 /\ last <= Len(window)
    BY <1>2, <2>1, <2>2
  <2>4. left = SubSeq(window, first, last)
    BY <2>1, <2>2
  <2> HIDE DEF left
  <2>5. /\ SubSeq(window, first, last) \in Seq(Char)
        /\ Len(SubSeq(window, first, last)) = last - first + 1
        /\ \A x \in 1..Len(SubSeq(window, first, last)) :
             SubSeq(window, first, last)[x] = window[first + x - 1]
    BY <2>3, PieceFacts
  <2>6. /\ left \in Seq(Char) /\ Len(left) = last - first + 1
        /\ \A x \in 1..Len(left) : left[x] = window[first + x - 1]
    BY <2>4, <2>5, Zenon
  <2>7. left \in Seq(Char) /\ Len(left) = Len(window) - (cut + 1) + 1
    BY <2>1, <2>2, <2>6, Zenon
  <2>8. \A x \in 1..Len(left) : left[x] = window[cut + 1 + x - 1]
    BY <2>1, <2>6, Zenon
  <2> QED BY <2>7, <2>8
<1> HIDE DEF left
<1>5. \A x \in 1..Len(left) : cut + x \in 1..Len(window) /\ left[x] = window[cut + x]
  BY <1>1, <1>4
<1> DEFINE sent == SubSeq(window, 1, cut)
<1> HIDE DEF sent
<1>6. \A x \in 1..Len(sent) : x \in 1..Len(window) /\ sent[x] = window[x]
  BY <1>1, <1>3 DEF sent
<1> QED BY <1>1, <1>3, <1>4, <1>5, <1>6 DEF left, sent

-----------------------------------------------------------------------------
\* Requests begin typed, with nothing of an answer.
LEMMA InitTyped == Init => IInv
<1> SUFFICES ASSUME Init PROVE IInv
  OBVIOUS
<1>1. << >> \in Seq(Char)
  OBVIOUS
<1>2. \A r \in Request : prompt[r] \in Seq(Char)
  BY WaegAssumption DEF Init
<1>3. prompt \in [Request -> Seq(Char)]
  BY <1>2 DEF Init
<1>4. /\ asked \in [Request -> Seq(Char)] /\ answer \in [Request -> Seq(Char)]
      /\ pending \in [Request -> Seq(Char)] /\ committed \in [Request -> Seq(Char)]
  BY <1>1 DEF Init
<1>5. \A r \in Request : got[r] = 0 /\ answer[r] = << >> /\ got[r] <= Len(answer[r])
  BY DEF Init
<1>6. \A s \in Session : DOMAIN store[s] = {}
  BY DEF Init
<1>7. TypeOK
  BY <1>3, <1>4, <1>5, <1>6 DEF Init, TypeOK
<1> QED BY <1>7 DEF IInv, Unanswered, Init

\* A step of one request: nothing of another changes.
Only(r) ==
  /\ identity' = identity /\ prompt' = prompt
  /\ pc' = [pc EXCEPT ![r] = pc'[r]]
  /\ asked' = [asked EXCEPT ![r] = asked'[r]] /\ answer' = [answer EXCEPT ![r] = answer'[r]]
  /\ got' = [got EXCEPT ![r] = got'[r]]
  /\ pending' = [pending EXCEPT ![r] = pending'[r]]
  /\ committed' = [committed EXCEPT ![r] = committed'[r]]
  /\ blanked' = [blanked EXCEPT ![r] = blanked'[r]] /\ lapsed' = [lapsed EXCEPT ![r] = lapsed'[r]]

\* The request is typed after it.
TypedAfter(r) ==
  /\ pc'[r] \in Labels
  /\ asked'[r] \in Seq(Char) /\ answer'[r] \in Seq(Char)
  /\ pending'[r] \in Seq(Char) /\ committed'[r] \in Seq(Char)
  /\ got'[r] \in Nat /\ got'[r] <= Len(answer'[r])
  /\ blanked'[r] \in BOOLEAN /\ lapsed'[r] \in BOOLEAN
  /\ pc'[r] \in Before => got'[r] = 0 /\ pending'[r] = << >> /\ committed'[r] = << >>

\* What a pre-call stores.
Stores(r) ==
  \E found \in SUBSET NamesIn(prompt[r]) :
    store' = [store EXCEPT ![SessionOf(r)] = Learn(store[SessionOf(r)], found, prompt[r])]

\* The invariants after a step of one request.
LEMMA StepTyped ==
  ASSUME IInv, NEW r \in Request, Only(r), TypedAfter(r), store' = store \/ Stores(r)
  PROVE  IInv'
<1> USE DEF IInv, Only, TypedAfter
<1>1. /\ asked' \in [Request -> Seq(Char)] /\ answer' \in [Request -> Seq(Char)]
      /\ pending' \in [Request -> Seq(Char)] /\ committed' \in [Request -> Seq(Char)]
      /\ prompt' \in [Request -> Seq(Char)]
  <2>1. /\ asked \in [Request -> Seq(Char)] /\ answer \in [Request -> Seq(Char)]
        /\ pending \in [Request -> Seq(Char)] /\ committed \in [Request -> Seq(Char)]
        /\ prompt \in [Request -> Seq(Char)]
    BY DEF TypeOK
  <2> QED BY <2>1
<1>2. /\ identity' \in Identities
      /\ pc' \in [Request -> Labels] /\ got' \in [Request -> Nat]
      /\ blanked' \in [Request -> BOOLEAN] /\ lapsed' \in [Request -> BOOLEAN]
  BY DEF TypeOK, Labels
<1>3. ASSUME NEW u \in Request
      PROVE  prompt'[u] \in PromptsOf[u] /\ got'[u] <= Len(answer'[u])
  <2>1. /\ prompt[u] \in PromptsOf[u] /\ got[u] <= Len(answer[u])
        /\ got \in [Request -> Nat] /\ answer \in [Request -> Seq(Char)]
    BY DEF TypeOK
  <2> QED BY <2>1
<1>4. /\ DOMAIN store' = Session
      /\ \A s \in Session :
           /\ DOMAIN store'[s] \subseteq NamedSet
           /\ \A k \in DOMAIN store'[s] : store'[s][k] \in PoolNames
  <2>1. /\ DOMAIN store = Session
        /\ \A s \in Session :
             /\ DOMAIN store[s] \subseteq NamedSet
             /\ \A k \in DOMAIN store[s] : store[s][k] \in PoolNames
    BY Zenon DEF TypeOK, NamedSet, PoolNames
  <2>2. CASE store' = store
    BY <2>1, <2>2
  <2>3. CASE Stores(r)
    <3>1. PICK found \in SUBSET NamesIn(prompt[r]) :
            store' = [store EXCEPT ![SessionOf(r)] = Learn(store[SessionOf(r)], found, prompt[r])]
      BY <2>3 DEF Stores
    <3> DEFINE s == SessionOf(r)
               m == Learn(store[s], found, prompt[r])
    <3>2. s \in Session /\ found \subseteq NamedSet
      BY SessionTyped DEF TypeOK, NamesIn, NamedSet
    <3> HIDE DEF s
    <3>3. DOMAIN m \subseteq NamedSet /\ \A k \in DOMAIN m : m[k] \in PoolNames
      BY <3>2, LearnTyped
    <3> HIDE DEF m
    <3>4. store' = [store EXCEPT ![s] = m]
      BY <3>1 DEF m, s
    <3> QED BY <2>1, <3>3, <3>4
  <2> QED BY <2>2, <2>3
<1>5. TypeOK'
  BY <1>1, <1>2, <1>3, <1>4 DEF TypeOK, NamedSet, PoolNames, Labels
<1>6. Unanswered'
  <2>1. ASSUME NEW u \in Request, pc'[u] \in Before
        PROVE  got'[u] = 0 /\ pending'[u] = << >> /\ committed'[u] = << >>
    <3>1. /\ pc \in [Request -> Labels] /\ got \in [Request -> Nat]
          /\ pending \in [Request -> Seq(Char)] /\ committed \in [Request -> Seq(Char)]
      BY DEF TypeOK, Labels
    <3>2. CASE u = r
      BY <2>1, <3>1, <3>2
    <3>3. CASE u # r
      BY <2>1, <3>1, <3>3 DEF Unanswered
    <3> QED BY <3>2, <3>3
  <2> QED BY <2>1 DEF Unanswered
<1> QED BY <1>5, <1>6

\* The pre-call.
LEMMA PreCallTyped ==
  ASSUME IInv, NEW r \in Request, PreCall(r)
  PROVE  Only(r) /\ TypedAfter(r) /\ (store' = store \/ Stores(r))
<1>1. PICK found \in {{}, NamesIn(prompt[r])} :
        /\ Enough(Learn(store[SessionOf(r)], found, prompt[r]), found)
        /\ IF Blank(prompt[r])
           THEN /\ UNCHANGED store
                /\ asked' = [asked EXCEPT ![r] = prompt[r]]
                /\ Goto(r, "sent")
           ELSE /\ store' = [store EXCEPT ![SessionOf(r)] = Learn(store[SessionOf(r)], found, prompt[r])]
                /\ asked' = [asked EXCEPT ![r] =
                     Replace(prompt[r], Learn(store[SessionOf(r)], found, prompt[r]))]
                /\ Goto(r, IF pc[r] = "new"
                              /\ Replace(prompt[r], Learn(store[SessionOf(r)], found, prompt[r])) # prompt[r]
                           THEN "masked" ELSE "sent")
  BY Zenon DEF PreCall
<1> DEFINE m == Learn(store[SessionOf(r)], found, prompt[r])
           text == Replace(prompt[r], m)
<1>2. found \subseteq NamesIn(prompt[r]) /\ found \subseteq NamedSet
  BY <1>1 DEF NamesIn, NamedSet
<1>3. SessionOf(r) \in Session /\ prompt[r] \in Seq(Char)
  BY SessionTyped DEF IInv, TypeOK
<1>4. text \in Seq(Char)
  <2>1. StringMapping(m)
    BY <1>2, <1>3, LearnTyped DEF IInv
  <2> QED BY <1>3, <2>1, ReplaceTyped
<1>5. store' = store \/ Stores(r)
  BY <1>1, <1>2 DEF Stores
<1>6. /\ asked' = [asked EXCEPT ![r] = prompt[r]] \/ asked' = [asked EXCEPT ![r] = text]
      /\ pc' = [pc EXCEPT ![r] = "masked"] \/ pc' = [pc EXCEPT ![r] = "sent"]
  BY <1>1 DEF Goto
<1> HIDE DEF text, m
<1>7. pc[r] \in {"new", "masked"}
      /\ UNCHANGED <<identity, prompt, answer, got, pending, committed, blanked, lapsed>>
  BY DEF PreCall
<1>8. Only(r) /\ TypedAfter(r)
  BY <1>3, <1>4, <1>6, <1>7 DEF IInv, TypeOK, Unanswered, Only, TypedAfter, Labels, Before
<1> QED BY <1>5, <1>8

\* A request ends, or the model answers.
LEMMA AnswerTyped ==
  ASSUME IInv, NEW r \in Request, PreCallFails(r) \/ AnswerRefused(r) \/ ModelAnswers(r)
  PROVE  Only(r) /\ TypedAfter(r) /\ store' = store
<1>1. CASE PreCallFails(r) \/ AnswerRefused(r)
  BY <1>1 DEF PreCallFails, AnswerRefused, Goto, IInv, TypeOK, Only, TypedAfter, Labels, Before
<1>2. CASE ModelAnswers(r)
  <2>1. PICK a \in {asked[r]} \cup Free : answer' = [answer EXCEPT ![r] = a]
    BY <1>2 DEF ModelAnswers
  <2>2. a \in Seq(Char)
    BY <2>1, WaegAssumption DEF IInv, TypeOK
  <2>3. got[r] = 0
    BY <1>2 DEF ModelAnswers, IInv, Unanswered, Before
  <2>4. /\ pc' = [pc EXCEPT ![r] = "streaming"] \/ pc' = [pc EXCEPT ![r] = "whole"]
        /\ UNCHANGED <<identity, store, prompt, asked, got, pending, committed, blanked, lapsed>>
    BY <1>2 DEF ModelAnswers, Goto
  <2> QED BY <2>1, <2>2, <2>3, <2>4 DEF IInv, TypeOK, Only, TypedAfter, Labels, Before
<1> QED BY <1>1, <1>2

\* A part of the answer arrives.
LEMMA ChunkTyped ==
  ASSUME IInv, NEW r \in Request, Chunk(r)
  PROVE  Only(r) /\ TypedAfter(r) /\ store' = store
<1>1. PICK n \in (got[r] + 1)..Len(answer[r]) :
        /\ got' = [got EXCEPT ![r] = n]
        /\ pending' = [pending EXCEPT ![r] = @ \o SubSeq(answer[r], got[r] + 1, n)]
  BY DEF Chunk
<1>2. got[r] \in Nat /\ answer[r] \in Seq(Char) /\ pending[r] \in Seq(Char)
  BY DEF IInv, TypeOK
<1>3. SubSeq(answer[r], got[r] + 1, n) \in Seq(Char)
  BY <1>1, <1>2
<1>4. pending[r] \o SubSeq(answer[r], got[r] + 1, n) \in Seq(Char)
  BY <1>2, <1>3
<1>5. n \in Nat /\ n <= Len(answer[r])
  BY <1>1, <1>2
<1>6. pc' = [pc EXCEPT ![r] = "window"]
      /\ UNCHANGED <<identity, store, prompt, asked, answer, committed, blanked, lapsed>>
  BY DEF Chunk, Goto
<1> QED BY <1>1, <1>2, <1>4, <1>5, <1>6 DEF IInv, TypeOK, Only, TypedAfter, Labels, Before

\* What a commit leaves.
LEMMA CommitTyped ==
  ASSUME IInv, NEW r \in Request, NEW response, response.text \in Seq(Char),
         response.hold \in Nat, NEW eof \in BOOLEAN, Commit(r, response, eof)
  PROVE  /\ \E label \in {"over", "streaming"} : pc' = [pc EXCEPT ![r] = label]
         /\ \E c \in Seq(Char) : committed' = [committed EXCEPT ![r] = c]
         /\ \E p \in Seq(Char) : pending' = [pending EXCEPT ![r] = p]
<1> DEFINE window == IF response.action = "mask" THEN response.text ELSE pending[r]
           hold == IF eof THEN 0 ELSE IF response.hold > 0 THEN response.hold ELSE DefaultHold
           cut == IF hold < Len(window) THEN Len(window) - hold ELSE 0
<1>1. committed[r] \in Seq(Char) /\ pending[r] \in Seq(Char)
  BY DEF IInv, TypeOK
<1>2. window \in Seq(Char) /\ hold \in Nat
  BY <1>1, WaegAssumption
<1>3. /\ committed' = [committed EXCEPT ![r] = committed[r] \o SubSeq(window, 1, cut)]
      /\ pending' = [pending EXCEPT ![r] = SubSeq(window, cut + 1, Len(window))]
  BY DEF Commit
<1>4. \E label \in {"over", "streaming"} : pc' = [pc EXCEPT ![r] = label]
  BY DEF Commit, Goto
<1> HIDE DEF window, hold
<1>5. SubSeq(window, 1, cut) \in Seq(Char) /\ SubSeq(window, cut + 1, Len(window)) \in Seq(Char)
  BY <1>2, Cut
<1> HIDE DEF cut
<1>6. committed[r] \o SubSeq(window, 1, cut) \in Seq(Char)
  BY <1>1, <1>5
<1> QED BY <1>3, <1>4, <1>5, <1>6

\* The during-call.
LEMMA DuringTyped ==
  ASSUME IInv, NEW r \in Request, During(r) \/ DuringUnavailable(r)
  PROVE  Only(r) /\ TypedAfter(r) /\ store' = store
<1>1. PICK response : /\ response.text \in Seq(Char) /\ response.hold \in Nat
                      /\ \E eof \in BOOLEAN : Commit(r, response, eof)
  <2>1. CASE During(r)
    <3>1. PICK eof \in BOOLEAN : Commit(r, Restored(r, WindowOf(r)), eof)
      BY <2>1 DEF During
    <3> DEFINE response == Restored(r, WindowOf(r))
    <3>2. response.text \in Seq(Char) /\ response.hold \in Nat
      BY RestoredTyped DEF IInv
    <3>3. Commit(r, response, eof)
      BY <3>1
    <3> HIDE DEF response
    <3> QED BY <3>2, <3>3
  <2>2. CASE DuringUnavailable(r)
    <3>1. << >> \in Seq(Char)
      OBVIOUS
    <3>2. Allowed.text \in Seq(Char) /\ Allowed.hold \in Nat
      BY <3>1 DEF Allowed
    <3>3. PICK eof \in BOOLEAN : Commit(r, Allowed, eof)
      BY <2>2 DEF DuringUnavailable
    <3> QED BY <3>2, <3>3
  <2> QED BY <2>1, <2>2
<1>2. /\ \E label \in {"over", "streaming"} : pc' = [pc EXCEPT ![r] = label]
      /\ \E c \in Seq(Char) : committed' = [committed EXCEPT ![r] = c]
      /\ \E p \in Seq(Char) : pending' = [pending EXCEPT ![r] = p]
  BY <1>1, CommitTyped
<1>3. /\ \E b \in BOOLEAN : blanked' = [blanked EXCEPT ![r] = b]
      /\ \E l \in BOOLEAN : lapsed' = [lapsed EXCEPT ![r] = l]
      /\ UNCHANGED <<identity, store, prompt, asked, answer, got>>
  <2>1. blanked = [blanked EXCEPT ![r] = blanked[r]] /\ lapsed = [lapsed EXCEPT ![r] = lapsed[r]]
        /\ blanked[r] \in BOOLEAN /\ lapsed[r] \in BOOLEAN
    BY DEF IInv, TypeOK
  <2>2. CASE During(r)
    <3> DEFINE b == blanked[r] \/ Blank(pending[r])
    <3>1. b \in BOOLEAN /\ blanked' = [blanked EXCEPT ![r] = b]
      BY <2>2 DEF During
    <3> HIDE DEF b
    <3> QED BY <2>1, <2>2, <3>1 DEF During
  <2>3. CASE DuringUnavailable(r)
    BY <2>1, <2>3 DEF DuringUnavailable
  <2> QED BY <2>2, <2>3
<1> QED BY <1>2, <1>3 DEF IInv, TypeOK, Only, TypedAfter, Labels, Before

\* The post-call.
LEMMA PostCallTyped ==
  ASSUME IInv, NEW r \in Request, PostCall(r) \/ PostCallUnavailable(r)
  PROVE  Only(r) /\ TypedAfter(r) /\ store' = store
<1>1. \E c \in Seq(Char) : committed' = [committed EXCEPT ![r] = c]
  <2>1. answer[r] \in Seq(Char) /\ SessionOf(r) \in Session
    BY SessionTyped DEF IInv, TypeOK
  <2>2. CASE PostCall(r)
    <3> DEFINE text == Replace(answer[r], Backward(store[SessionOf(r)]))
    <3>1. text \in Seq(Char)
      BY <2>1, StoreMaps, ReplaceTyped DEF IInv
    <3> QED BY <2>2, <3>1 DEF PostCall
  <2>3. CASE PostCallUnavailable(r)
    BY <2>1, <2>3 DEF PostCallUnavailable
  <2> QED BY <2>2, <2>3
<1>2. \E l \in BOOLEAN : lapsed' = [lapsed EXCEPT ![r] = l]
  BY DEF PostCall, PostCallUnavailable, IInv, TypeOK
<1>3. pc' = [pc EXCEPT ![r] = "over"]
      /\ UNCHANGED <<identity, store, prompt, asked, answer, got, pending, blanked>>
  BY DEF PostCall, PostCallUnavailable, Goto
<1> QED BY <1>1, <1>2, <1>3 DEF IInv, TypeOK, Only, TypedAfter, Labels, Before

\* Every step of a request is one of a request, and leaves the store or adds
\* names of its prompt to the session's mapping.
LEMMA Steps ==
  ASSUME IInv, NEW r \in Request, Step(r)
  PROVE  Only(r) /\ TypedAfter(r) /\ (store' = store \/ (PreCall(r) /\ Stores(r)))
<1>1. CASE PreCall(r)
  BY <1>1, PreCallTyped, Zenon
<1>2. CASE PreCallFails(r) \/ AnswerRefused(r) \/ ModelAnswers(r)
  BY <1>2, AnswerTyped, Zenon
<1>3. CASE Chunk(r)
  BY <1>3, ChunkTyped, Zenon
<1>4. CASE During(r) \/ DuringUnavailable(r)
  BY <1>4, DuringTyped, Zenon
<1>5. CASE PostCall(r) \/ PostCallUnavailable(r)
  BY <1>5, PostCallTyped, Zenon
<1> QED BY <1>1, <1>2, <1>3, <1>4, <1>5 DEF Step

\* The strengthening of the type invariant is inductive.
LEMMA NextTyped == IInv /\ [Next]_vars => IInv'
<1> SUFFICES ASSUME IInv, [Next]_vars PROVE IInv'
  OBVIOUS
<1>1. CASE UNCHANGED vars
  BY <1>1 DEF IInv, TypeOK, Unanswered, vars, request
<1>2. ASSUME NEW r \in Request, Step(r) PROVE IInv'
  BY <1>2, Steps, StepTyped
<1> QED BY <1>1, <1>2 DEF Next, AllOver

\* It always holds.
LEMMA AlwaysIInv == Spec => []IInv
<1> QED BY InitTyped, NextTyped, PTL DEF Spec

\* Requests are always typed: the mapping of a session has only names that may be
\* detected for keys and only names of the pool for values, the window and what
\* is committed are strings, and no more of an answer has arrived than there is.
THEOREM WaegTyped == Spec => []TypeOK
<1>1. IInv => TypeOK
  BY DEF IInv
<1> QED BY <1>1, AlwaysIInv, PTL

-----------------------------------------------------------------------------
(* Sessions are kept apart. *)

\* The keys of a session's mapping are names in prompts of its requests.
KeysFromPrompts ==
  \A s \in Session : \A k \in DOMAIN store[s] :
    \E u \in Request : SessionOf(u) = s /\ Occurs(k, prompt[u])

\* It stays so: only a pre-call adds keys, to its own session, and only names
\* that stand in its prompt.
LEMMA KeysStay ==
  ASSUME IInv, KeysFromPrompts, [Next]_vars
  PROVE  KeysFromPrompts'
<1>1. ASSUME identity' = identity, prompt' = prompt, store' = store
      PROVE  KeysFromPrompts'
  <2>1. \A u \in Request : SessionOf(u)' = SessionOf(u)
    BY <1>1 DEF SessionOf, Derive
  <2>2. \A u \in Request : \A k : Occurs(k, prompt'[u]) <=> Occurs(k, prompt[u])
    BY <1>1
  <2> QED BY <1>1, <2>1, <2>2, Zenon DEF KeysFromPrompts
<1>2. ASSUME NEW r \in Request, Only(r), Stores(r)
      PROVE  KeysFromPrompts'
  <2>1. PICK found \in SUBSET NamesIn(prompt[r]) :
          store' = [store EXCEPT ![SessionOf(r)] = Learn(store[SessionOf(r)], found, prompt[r])]
    BY <1>2 DEF Stores
  <2> DEFINE m == Learn(store[SessionOf(r)], found, prompt[r])
  <2>2. Extension(store[SessionOf(r)], m, found)
    BY LearnExtends
  <2>3. \A k \in found : Occurs(k, prompt[r])
    BY <2>1 DEF NamesIn, Occurs
  <2>4. identity' = identity /\ prompt' = prompt
    BY <1>2 DEF Only
  <2>5. \A u \in Request : SessionOf(u)' = SessionOf(u)
    BY <2>4 DEF SessionOf, Derive
  <2> HIDE DEF m
  <2>6. store' = [store EXCEPT ![SessionOf(r)] = m] /\ DOMAIN store = Session
    BY <2>1 DEF m, IInv, TypeOK
  <2>7. ASSUME NEW s \in Session, NEW k \in DOMAIN store'[s]
        PROVE  \E u \in Request : SessionOf(u) = s /\ Occurs(k, prompt[u])
    <3>1. k \in DOMAIN store[s] \/ (s = SessionOf(r) /\ k \in found)
      BY <2>2, <2>6, <2>7 DEF Extension
    <3> QED BY <2>3, <3>1 DEF KeysFromPrompts
  <2>8. \A u \in Request : \A k : Occurs(k, prompt'[u]) <=> Occurs(k, prompt[u])
    BY <2>4
  <2> QED BY <2>4, <2>5, <2>7, <2>8, Zenon DEF KeysFromPrompts
<1>3. CASE UNCHANGED vars
  BY <1>1, <1>3 DEF vars, request
<1>4. ASSUME NEW r \in Request, Step(r) PROVE KeysFromPrompts'
  <2>1. Only(r) /\ (store' = store \/ Stores(r))
    BY <1>4, Steps
  <2>2. identity' = identity /\ prompt' = prompt
    BY <2>1 DEF Only
  <2> QED BY <1>1, <1>2, <2>1, <2>2
<1> QED BY <1>3, <1>4 DEF Next, AllOver

\* What identifies requests does not coincide by accident: neither do hashes of
\* identifiers, nor a session id with a derived one, nor a user with a request,
\* and every request with an id has one of its own.
IdentifiersApart ==
  /\ \A a \in Id, b \in Id : Sanitize[a] = Sanitize[b] => a = b
  /\ \A who \in Identities : \A q \in Request, r \in Request :
       /\ who[q].session # NoId =>
            \A i \in {who[r].user, who[r].request, WaegAnon} \cap Id : who[q].session # Sanitize[i]
       /\ who[q].user # NoId => who[q].user \notin {who[r].request, WaegAnon}
       /\ who[q].request # NoId =>
            who[q].request # WaegAnon /\ (who[q].request = who[r].request => q = r)

\* Then two requests have one session only if something identifies both.
LEMMA SessionsRelate ==
  ASSUME IdentifiersApart, identity \in Identities,
         NEW u \in Request, NEW r \in Request, SessionOf(u) = SessionOf(r),
         identity[r] # Unidentified
  PROVE  Related(u, r)
<1>1. \A q \in Request :
        identity[q] \in [session : Id \cup {NoId}, user : Id \cup {NoId}, request : Id \cup {NoId}]
  BY WaegAssumption
<1>2. WaegAnon \in Id /\ NoId \notin Id /\ Sanitize \in [Id -> Id]
  BY WaegAssumption, SanitizeAssumption
<1>3. CallOf(u) \in Id /\ CallOf(r) \in Id
  BY <1>1, <1>2 DEF CallOf
<1>4. /\ SessionOf(u) = IF identity[u].session # NoId THEN identity[u].session
                        ELSE IF identity[u].user # NoId THEN Sanitize[identity[u].user]
                        ELSE Sanitize[CallOf(u)]
      /\ SessionOf(r) = IF identity[r].session # NoId THEN identity[r].session
                        ELSE IF identity[r].user # NoId THEN Sanitize[identity[r].user]
                        ELSE Sanitize[CallOf(r)]
  BY SessionIs
<1>5. ASSUME NEW q \in Request, NEW p \in Request, identity[q].session # NoId,
             identity[p].session = NoId
      PROVE  SessionOf(q) # SessionOf(p)
  <2>1. CallOf(p) \in {identity[p].request, WaegAnon} /\ CallOf(p) \in Id
    BY <1>1, <1>2 DEF CallOf
  <2>2. \A i \in {identity[p].user, identity[p].request, WaegAnon} \cap Id :
          identity[q].session # Sanitize[i]
    BY <1>5 DEF IdentifiersApart
  <2>3. identity[p].user \in Id \cup {NoId}
    BY <1>1
  <2> QED BY <1>5, <2>1, <2>2, <2>3, SessionIs
<1>6. ASSUME NEW q \in Request, NEW p \in Request, identity[q].session = NoId,
             identity[p].session = NoId, identity[q].user # NoId, identity[p].user = NoId
      PROVE  SessionOf(q) # SessionOf(p)
  <2>1. CallOf(p) \in {identity[p].request, WaegAnon} /\ CallOf(p) \in Id
    BY <1>1, <1>2 DEF CallOf
  <2>2. identity[q].user \in Id /\ identity[q].user # CallOf(p)
    BY <1>1, <1>6, <2>1 DEF IdentifiersApart
  <2>3. Sanitize[identity[q].user] # Sanitize[CallOf(p)]
    BY <2>1, <2>2 DEF IdentifiersApart
  <2> QED BY <1>6, <2>3, SessionIs
<1>7. CASE identity[r].session # NoId
  BY <1>4, <1>5, <1>7 DEF Related
<1>8. CASE identity[r].session = NoId /\ identity[r].user # NoId
  <2>1. identity[u].session = NoId /\ identity[u].user # NoId
    BY <1>5, <1>6, <1>8
  <2>2. identity[u].user \in Id /\ identity[r].user \in Id
    BY <1>1, <1>8, <2>1
  <2>3. Sanitize[identity[u].user] = Sanitize[identity[r].user]
    BY <1>4, <1>8, <2>1
  <2> QED BY <1>8, <2>1, <2>2, <2>3 DEF IdentifiersApart, Related
<1>9. CASE identity[r].session = NoId /\ identity[r].user = NoId
  <2>1. identity[u].session = NoId /\ identity[u].user = NoId
    BY <1>5, <1>6, <1>9
  <2>2. identity[r].request # NoId
    <3>1. identity[r] = [session |-> identity[r].session, user |-> identity[r].user,
                         request |-> identity[r].request]
      BY <1>1
    <3> QED BY <1>9, <3>1 DEF Unidentified
  <2>3. CallOf(u) = CallOf(r)
    <3>1. Sanitize[CallOf(u)] = Sanitize[CallOf(r)]
      BY <1>4, <1>9, <2>1
    <3> QED BY <1>3, <3>1 DEF IdentifiersApart
  <2>4. identity[r].request # WaegAnon /\ CallOf(r) = identity[r].request
    BY <2>2 DEF CallOf, IdentifiersApart
  <2>5. identity[r].request = identity[u].request
    BY <2>3, <2>4 DEF CallOf
  <2> QED BY <2>2, <2>5 DEF IdentifiersApart, Related
<1> QED BY <1>7, <1>8, <1>9

\* The mapping of an identified request has only names that stand in prompts of
\* requests that something identifies with it.
SessionsApart ==
  \A r \in Request : identity[r] # Unidentified =>
    \A k \in DOMAIN store[SessionOf(r)] :
      \E u \in Request : Occurs(k, prompt[u]) /\ Related(u, r)

\* It is always so.
LEMMA AlwaysKeysFromPrompts == Spec => [](IInv /\ KeysFromPrompts)
<1>1. Init => KeysFromPrompts
  BY DEF Init, KeysFromPrompts
<1> QED BY <1>1, KeysStay, AlwaysIInv, InitTyped, NextTyped, PTL DEF Spec

\* A session never learns a name from another session's prompts, however many
\* requests of both run in whatever order: with what the mapping of a session
\* holds, an answer can be given only names that its own users wrote (the session
\* of each call, internal/session, with the keys of internal/mapping).
THEOREM MappingsIsolated ==
  ASSUME IdentifiersApart
  PROVE  Spec => []SessionsApart
<1>1. IInv /\ KeysFromPrompts => SessionsApart
  <2> SUFFICES ASSUME IInv, KeysFromPrompts, NEW r \in Request, identity[r] # Unidentified,
                      NEW k \in DOMAIN store[SessionOf(r)]
               PROVE  \E u \in Request : Occurs(k, prompt[u]) /\ Related(u, r)
    BY DEF SessionsApart
  <2>1. identity \in Identities
    BY DEF IInv, TypeOK
  <2>2. SessionOf(r) \in Session
    BY <2>1, SessionTyped
  <2>3. PICK u \in Request : SessionOf(u) = SessionOf(r) /\ Occurs(k, prompt[u])
    BY <2>2 DEF KeysFromPrompts
  <2> QED BY <2>1, <2>3, SessionsRelate
<1> QED BY <1>1, AlwaysKeysFromPrompts, PTL

-----------------------------------------------------------------------------
(* Answers without a pseudonym. *)

\* What PlainAnswerKept says of one of them.
Kept(r) ==
  /\ Begins(committed[r], answer[r])
  /\ pc[r] \in {"streaming", "window"} => committed[r] \o pending[r] = Accumulated(r)
  /\ pc[r] = "over" => committed[r] = answer[r]

\* What has arrived of an answer begins it.
LEMMA AccumulatedFacts ==
  ASSUME IInv, NEW r \in Request
  PROVE  /\ answer[r] \in Seq(Char) /\ pending[r] \in Seq(Char) /\ committed[r] \in Seq(Char)
         /\ got[r] \in 0..Len(answer[r])
         /\ Accumulated(r) = Upto(answer[r], got[r])
         /\ got[r] = Len(answer[r]) => Accumulated(r) = answer[r]
<1>1. /\ answer[r] \in Seq(Char) /\ pending[r] \in Seq(Char) /\ committed[r] \in Seq(Char)
      /\ got[r] \in Nat /\ got[r] <= Len(answer[r])
  BY DEF IInv, TypeOK
<1>2. got[r] \in 0..Len(answer[r])
  BY <1>1
<1> QED BY <1>1, <1>2, SubSeqFull DEF Accumulated, Upto

\* A string that is joined from two begins with the first.
LEMMA FirstBegins ==
  ASSUME NEW s \in Seq(Char), NEW t \in Seq(Char), NEW u \in Seq(Char),
         NEW n \in 0..Len(u), s \o t = Upto(u, n)
  PROVE  Begins(s, u)
<1>1. /\ Len(s) \in Nat /\ Len(t) \in Nat /\ Len(u) \in Nat
      /\ Len(s) + Len(t) = n /\ \A x \in 1..Len(s) : Upto(u, n)[x] = s[x]
  <2> DEFINE joined == s \o t
  <2>1. /\ Len(joined) = Len(s) + Len(t) /\ Len(s) \in Nat /\ Len(t) \in Nat
        /\ \A x \in 1..Len(s) : joined[x] = s[x]
    BY JoinedTwice
  <2>2. Len(Upto(u, n)) = n /\ joined = Upto(u, n) /\ Len(u) \in Nat
    BY UptoFacts
  <2> HIDE DEF joined
  <2> QED BY <2>1, <2>2, Zenon
<1>2. Len(s) \in 0..Len(u) /\ Len(s) <= n
  BY <1>1
<1>3. \A x \in 1..Len(s) : Upto(u, Len(s))[x] = s[x]
  <2>1. \A x \in 1..Len(s) : Upto(u, Len(s))[x] = u[x]
    BY <1>2, UptoFacts
  <2>2. \A x \in 1..n : Upto(u, n)[x] = u[x]
    BY UptoFacts
  <2> SUFFICES ASSUME NEW x \in 1..Len(s) PROVE Upto(u, Len(s))[x] = s[x]
    OBVIOUS
  <2>3. x \in 1..n
    BY <1>1, <1>2
  <2> QED BY <1>1, <2>1, <2>2, <2>3, Zenon
<1>4. Upto(u, Len(s)) \in Seq(Char) /\ Len(Upto(u, Len(s))) = Len(s)
  BY <1>2, UptoFacts
<1>5. Upto(u, Len(s)) = s
  BY <1>3, <1>4, SeqEqual
<1> QED BY <1>2, <1>5 DEF Begins, Upto

\* What occurs in the second of two strings occurs in a text that begins with
\* both.
LEMMA OccursBehind ==
  ASSUME NEW s \in Seq(Char), NEW t \in Seq(Char), NEW u \in Seq(Char),
         NEW n \in 0..Len(u), s \o t = Upto(u, n),
         NEW p \in Seq(Char), p # << >>, NEW i \in 1..Len(t), OccursAt(t, i, p)
  PROVE  Occurs(p, u)
<1>1. /\ Len(s) \in Nat /\ Len(t) \in Nat /\ Len(u) \in Nat /\ Len(p) \in Nat \ {0}
      /\ Len(s) + Len(t) = n
  <2> DEFINE joined == s \o t
  <2>1. Len(joined) = Len(s) + Len(t) /\ Len(s) \in Nat /\ Len(t) \in Nat
    BY JoinedTwice
  <2>2. Len(Upto(u, n)) = n /\ joined = Upto(u, n)
    BY UptoFacts
  <2>3. Len(s) + Len(t) = n
    <3> HIDE DEF joined
    <3> QED BY <2>1, <2>2, Zenon
  <2>4. Len(u) \in Nat /\ Len(p) \in Nat \ {0}
    BY EmptySeq
  <2> QED BY <2>1, <2>3, <2>4, Zenon
<1> DEFINE j == Len(s) + i
           last == j + Len(p) - 1
<1>2. /\ j \in Len(s) + 1..Len(s) + Len(t) /\ last \in Len(s) + 1..Len(s) + Len(t)
      /\ j - Len(s) = i /\ last - Len(s) = i + Len(p) - 1
      /\ i + Len(p) - 1 <= Len(t)
  BY <1>1 DEF OccursAt
<1>3. SubSeq(s \o t, j, last) = SubSeq(t, i, i + Len(p) - 1)
  <2> HIDE DEF j, last
  <2>1. SubSeq(s \o t, j, last) = SubSeq(t, j - Len(s), last - Len(s))
    BY <1>2, SubSeqOfConcat2
  <2> QED BY <1>2, <2>1
<1>4. j \in Nat \ {0} /\ j \in 1..Len(u) /\ last <= Len(Upto(u, n))
  <2>1. Len(Upto(u, n)) = n
    BY UptoFacts
  <2>2. n <= Len(u) /\ j \in 1..n /\ last <= n
    BY <1>1, <1>2
  <2> QED BY <1>1, <2>1, <2>2
<1>5. OccursAt(Upto(u, n), j, p)
  BY <1>3, <1>4 DEF OccursAt
<1>6. OccursAt(u, j, p)
  BY <1>4, <1>5, OccursUpto
<1> QED BY <1>4, <1>6 DEF Occurs

\* In a text in which no pseudonym occurs nothing is replaced.
LEMMA PlainRestored ==
  ASSUME IInv, NEW r \in Request, NEW text \in Seq(Char),
         \A p \in DOMAIN Backward(store[SessionOf(r)]) :
           \A i \in 1..Len(text) : ~OccursAt(text, i, p)
  PROVE  Replace(text, Backward(store[SessionOf(r)])) = text
<1> DEFINE back == Backward(store[SessionOf(r)])
<1>1. SessionOf(r) \in Session
  BY SessionTyped DEF IInv, TypeOK
<1>2. StringMapping(back)
  BY <1>1, StoreMaps DEF IInv
<1>3. \A i \in 1..Len(text) : ~Hit(text, i, back)
  BY DEF Hit
<1> HIDE DEF back
<1>4. Replace(text, back) = text
  BY <1>2, <1>3, PlainTextStays
<1> QED BY <1>4 DEF back

\* So a during-call leaves a window that is not blank as it is (ReverseStream).
LEMMA WindowStays ==
  ASSUME IInv, NEW r \in Request, Plain(r), ~Blank(pending[r]),
         committed[r] \o pending[r] = Accumulated(r)
  PROVE  Restored(r, WindowOf(r)).action = "mask" => Restored(r, WindowOf(r)).text = pending[r]
<1> DEFINE back == Backward(store[SessionOf(r)])
           text == Replace(pending[r], back)
<1>1. WindowOf(r) = pending[r]
  BY DEF WindowOf, FirstNonEmpty
<1>2. SessionOf(r) \in Session
  BY SessionTyped DEF IInv, TypeOK
<1>3. \A p \in DOMAIN back : p \in Seq(Char) /\ p # << >>
  BY <1>2, StoreMaps DEF IInv, StringMapping
<1>4. \A p \in DOMAIN back : \A i \in 1..Len(pending[r]) : ~OccursAt(pending[r], i, p)
  <2> SUFFICES ASSUME NEW p \in DOMAIN back, NEW i \in 1..Len(pending[r]),
                      OccursAt(pending[r], i, p)
               PROVE  FALSE
    OBVIOUS
  <2>1. Occurs(p, answer[r])
    <3> HIDE DEF back
    <3> QED BY <1>3, AccumulatedFacts, OccursBehind
  <2> QED BY <2>1 DEF Plain
<1>5. text = pending[r]
  BY <1>4, AccumulatedFacts, PlainRestored
<1> HIDE DEF text
<1>6. Restored(r, pending[r]).action = "mask" => Restored(r, pending[r]).text = text
  <2> HIDE DEF back
  <2> QED BY DEF Restored, text, back
<1> QED BY <1>1, <1>5, <1>6

\* A commit of the window as it is splits it; at the end of the stream all of it
\* is committed.
LEMMA CommitSplits ==
  ASSUME IInv, NEW r \in Request, NEW response, response.hold \in Nat,
         response.action = "mask" => response.text = pending[r],
         NEW eof \in BOOLEAN, Commit(r, response, eof)
  PROVE  /\ committed'[r] \in Seq(Char) /\ pending'[r] \in Seq(Char)
         /\ committed'[r] \o pending'[r] = committed[r] \o pending[r]
         /\ eof => committed'[r] = committed[r] \o pending[r] /\ pc'[r] = "over"
         /\ ~eof => pc'[r] = "streaming"
<1> DEFINE window == IF response.action = "mask" THEN response.text ELSE pending[r]
           hold == IF eof THEN 0 ELSE IF response.hold > 0 THEN response.hold ELSE DefaultHold
           cut == IF hold < Len(window) THEN Len(window) - hold ELSE 0
<1>1. committed[r] \in Seq(Char) /\ pending[r] \in Seq(Char) /\ r \in DOMAIN committed
      /\ r \in DOMAIN pending /\ r \in DOMAIN pc
  BY DEF IInv, TypeOK
<1>2. window = pending[r] /\ hold \in Nat /\ (eof => hold = 0)
  BY WaegAssumption
<1>3. /\ committed' = [committed EXCEPT ![r] = committed[r] \o SubSeq(window, 1, cut)]
      /\ pending' = [pending EXCEPT ![r] = SubSeq(window, cut + 1, Len(window))]
      /\ pc' = [pc EXCEPT ![r] = IF eof THEN "over" ELSE "streaming"]
  BY DEF Commit, Goto
<1> HIDE DEF window, hold
<1>4. cut \in 0..Len(pending[r]) /\ (eof => cut = Len(pending[r]))
  BY <1>1, <1>2
<1> HIDE DEF cut
<1> DEFINE sent == SubSeq(pending[r], 1, cut)
           left == SubSeq(pending[r], cut + 1, Len(pending[r]))
<1>5. sent \in Seq(Char) /\ left \in Seq(Char)
  BY <1>1, <1>4
<1>6. sent \o left = pending[r]
  <2>1. /\ 1 \in 1..Len(pending[r]) + 1 /\ cut \in 1 - 1..Len(pending[r])
        /\ Len(pending[r]) \in cut..Len(pending[r])
    BY <1>1, <1>4
  <2>2. sent \o left = SubSeq(pending[r], 1, Len(pending[r]))
    BY <1>1, <2>1, ConcatAdjacentSubSeq
  <2> QED BY <1>1, <2>2, SubSeqFull
<1>7. eof => sent = pending[r]
  BY <1>1, <1>4, SubSeqFull
<1>8. committed'[r] = committed[r] \o sent /\ pending'[r] = left
  BY <1>1, <1>2, <1>3
<1> HIDE DEF sent, left
<1>9. (committed[r] \o sent) \o left = committed[r] \o pending[r]
  <2>1. (committed[r] \o sent) \o left = committed[r] \o (sent \o left)
    BY <1>1, <1>5, JoinedThrice, Zenon
  <2> QED BY <1>6, <2>1, Zenon
<1>10. committed[r] \o sent \in Seq(Char)
  BY <1>1, <1>5
<1>11. pc'[r] = IF eof THEN "over" ELSE "streaming"
  BY <1>1, <1>3
<1> QED BY <1>5, <1>7, <1>8, <1>9, <1>10, <1>11

\* A step of a request keeps what it has of an answer without a pseudonym.
LEMMA StepKeeps ==
  ASSUME IInv, NEW r \in Request, Step(r), Plain(r) \/ ModelAnswers(r), ~blanked'[r],
         Kept(r) \/ ModelAnswers(r)
  PROVE  Kept(r)'
<1>1. /\ answer[r] \in Seq(Char) /\ pending[r] \in Seq(Char) /\ committed[r] \in Seq(Char)
      /\ got[r] \in 0..Len(answer[r]) /\ Accumulated(r) = Upto(answer[r], got[r])
      /\ got[r] = Len(answer[r]) => Accumulated(r) = answer[r]
  BY AccumulatedFacts
<1>2. /\ r \in DOMAIN pc /\ r \in DOMAIN answer /\ r \in DOMAIN got /\ r \in DOMAIN pending
      /\ r \in DOMAIN committed /\ r \in DOMAIN blanked
  BY DEF IInv, TypeOK
<1>3. CASE PreCall(r)
  <2>1. /\ pc' = [pc EXCEPT ![r] = "masked"] \/ pc' = [pc EXCEPT ![r] = "sent"]
        /\ UNCHANGED <<answer, committed>> /\ ~ModelAnswers(r)
    BY <1>3 DEF PreCall, Goto, ModelAnswers
  <2> QED BY <1>2, <2>1 DEF Kept, Begins
<1>4. CASE PreCallFails(r) \/ AnswerRefused(r)
  <2>1. pc' = [pc EXCEPT ![r] = "failed"] /\ UNCHANGED <<answer, committed>> /\ Kept(r)
    BY <1>2, <1>4 DEF PreCallFails, AnswerRefused, Goto, ModelAnswers, Calls
  <2> QED BY <1>2, <2>1 DEF Kept, Begins
<1>5. CASE ModelAnswers(r)
  <2>1. got[r] = 0 /\ pending[r] = << >> /\ committed[r] = << >>
    BY <1>5 DEF ModelAnswers, IInv, Unanswered, Before
  <2>2. PICK a \in {asked[r]} \cup Free : answer' = [answer EXCEPT ![r] = a]
    BY <1>5 DEF ModelAnswers
  <2>3. a \in Seq(Char) /\ answer'[r] = a
    BY <1>2, <2>2, WaegAssumption DEF IInv, TypeOK
  <2>4. /\ pc'[r] \in {"streaming", "whole"}
        /\ got'[r] = 0 /\ pending'[r] = << >> /\ committed'[r] = << >>
    BY <1>2, <1>5, <2>1 DEF ModelAnswers, Goto
  <2>5. SubSeq(a, 1, 0) = << >> /\ << >> \o << >> = << >> /\ Len(<< >>) = 0 /\ 0 <= Len(a)
    BY <2>3
  <2>6. Begins(<< >>, a)
    BY <2>5 DEF Begins
  <2> QED BY <2>3, <2>4, <2>5, <2>6 DEF Kept, Accumulated
<1>6. CASE Chunk(r)
  <2>1. PICK n \in (got[r] + 1)..Len(answer[r]) :
          /\ got' = [got EXCEPT ![r] = n]
          /\ pending' = [pending EXCEPT ![r] = @ \o SubSeq(answer[r], got[r] + 1, n)]
    BY <1>6 DEF Chunk
  <2>2. /\ pc[r] = "streaming" /\ pc' = [pc EXCEPT ![r] = "window"]
        /\ UNCHANGED <<answer, committed>> /\ Kept(r)
    BY <1>6 DEF Chunk, Goto, ModelAnswers
  <2> DEFINE more == SubSeq(answer[r], got[r] + 1, n)
  <2>3. /\ n \in got[r]..Len(answer[r]) /\ 1 \in 1..Len(answer[r]) + 1
        /\ got[r] \in 1 - 1..Len(answer[r])
    BY <1>1, <2>1
  <2>4. more \in Seq(Char)
    BY <1>1, <2>3
  <2>5. SubSeq(answer[r], 1, got[r]) \o more = SubSeq(answer[r], 1, n)
    BY <1>1, <2>3, ConcatAdjacentSubSeq
  <2>6. got'[r] = n /\ pending'[r] = pending[r] \o more
    BY <1>2, <2>1
  <2> HIDE DEF more
  <2>7. committed[r] \o (pending[r] \o more) = (committed[r] \o pending[r]) \o more
    BY <1>1, <2>4, JoinedThrice
  <2>8. committed[r] \o pending[r] = SubSeq(answer[r], 1, got[r])
    BY <2>2 DEF Kept, Accumulated
  <2>9. (committed[r] \o pending[r] = Accumulated(r))'
    BY <2>2, <2>5, <2>6, <2>7, <2>8 DEF Accumulated
  <2>10. pc'[r] = "window"
    BY <1>2, <2>2
  <2> QED BY <2>2, <2>9, <2>10 DEF Kept, Begins
<1>7. CASE During(r) \/ DuringUnavailable(r)
  <2>1. Kept(r) /\ pc[r] \in {"streaming", "window"} /\ UNCHANGED <<answer, got>>
        /\ committed[r] \o pending[r] = Accumulated(r)
    BY <1>7 DEF During, DuringUnavailable, Calls, ModelAnswers, Kept
  <2>2. PICK response : \E eof \in BOOLEAN :
          /\ Commit(r, response, eof) /\ response.hold \in Nat
          /\ response.action = "mask" => response.text = pending[r]
          /\ eof => got[r] = Len(answer[r])
    <3>1. CASE During(r)
      <4>1. PICK eof \in BOOLEAN : Calls(r, eof) /\ Commit(r, Restored(r, WindowOf(r)), eof)
        BY <3>1 DEF During
      <4>2. ~Blank(pending[r]) /\ Plain(r)
        BY <1>2, <2>1, <3>1 DEF During, ModelAnswers
      <4> DEFINE response == Restored(r, WindowOf(r))
      <4>3. response.action = "mask" => response.text = pending[r]
        BY <2>1, <4>2, WindowStays
      <4>4. response.hold \in Nat
        BY RestoredTyped DEF IInv
      <4>5. Commit(r, response, eof) /\ (eof => got[r] = Len(answer[r]))
        BY <4>1 DEF Calls
      <4> HIDE DEF response
      <4> QED BY <4>3, <4>4, <4>5, Zenon
    <3>2. CASE DuringUnavailable(r)
      <4>1. PICK eof \in BOOLEAN : Calls(r, eof) /\ Commit(r, Allowed, eof)
        BY <3>2 DEF DuringUnavailable
      <4>2. Allowed.hold \in Nat /\ Allowed.action # "mask"
        BY DEF Allowed
      <4>3. eof => got[r] = Len(answer[r])
        BY <4>1 DEF Calls
      <4> QED BY <4>1, <4>2, <4>3, Zenon
    <3> QED BY <1>7, <3>1, <3>2
  <2>3. PICK eof \in BOOLEAN : Commit(r, response, eof) /\ (eof => got[r] = Len(answer[r]))
    BY <2>2
  <2>4. /\ committed'[r] \in Seq(Char) /\ pending'[r] \in Seq(Char)
        /\ committed'[r] \o pending'[r] = committed[r] \o pending[r]
        /\ eof => committed'[r] = committed[r] \o pending[r] /\ pc'[r] = "over"
        /\ ~eof => pc'[r] = "streaming"
    BY <2>2, <2>3, CommitSplits
  <2>5. committed'[r] \o pending'[r] = Upto(answer[r], got[r])
    BY <1>1, <2>1, <2>4
  <2>6. Begins(committed'[r], answer[r])
    BY <1>1, <2>4, <2>5, FirstBegins
  <2>7. Begins(committed[r], answer[r])'
    BY <2>1, <2>6 DEF Begins
  <2>8. (committed[r] \o pending[r] = Accumulated(r))'
    BY <2>1, <2>4 DEF Accumulated
  <2>9. pc'[r] = "over" => (committed[r] = answer[r])'
    BY <1>1, <2>1, <2>3, <2>4
  <2> QED BY <2>7, <2>8, <2>9 DEF Kept
<1>8. CASE PostCall(r) \/ PostCallUnavailable(r)
  <2>1. pc'[r] = "over" /\ answer' = answer /\ committed'[r] = answer[r]
    <3>1. CASE PostCall(r)
      <4>1. Plain(r)
        BY <3>1 DEF PostCall, ModelAnswers
      <4>2. Replace(answer[r], Backward(store[SessionOf(r)])) = answer[r]
        BY <1>1, <4>1, PlainRestored DEF Plain, Occurs
      <4> QED BY <1>2, <3>1, <4>2 DEF PostCall, Goto
    <3>2. CASE PostCallUnavailable(r)
      BY <1>2, <3>2 DEF PostCallUnavailable, Goto
    <3> QED BY <1>8, <3>1, <3>2
  <2>2. Begins(answer[r], answer[r])
    BY <1>1, SubSeqFull DEF Begins
  <2> QED BY <2>1, <2>2 DEF Kept, Begins
<1> QED BY <1>3, <1>4, <1>5, <1>6, <1>7, <1>8 DEF Step

\* The pseudonyms of a session stay its pseudonyms.
LEMMA PlainBefore ==
  ASSUME IInv, NEW u \in Request, Only(u), store' = store \/ Stores(u),
         NEW r \in Request, answer'[r] = answer[r], Plain(r)'
  PROVE  Plain(r)
<1>1. SessionOf(r)' = SessionOf(r)
  BY DEF Only, SessionOf, Derive
<1> DEFINE s == SessionOf(r)
<1>2. SessionOf(r) \in Session /\ DOMAIN store = Session
  BY SessionTyped DEF IInv, TypeOK
<1>3. \A k \in DOMAIN store[s] : k \in DOMAIN store'[s] /\ store'[s][k] = store[s][k]
  <2>1. CASE store' = store
    BY <2>1
  <2>2. CASE Stores(u)
    <3>1. PICK found \in SUBSET NamesIn(prompt[u]) :
            store' = [store EXCEPT ![SessionOf(u)] = Learn(store[SessionOf(u)], found, prompt[u])]
      BY <2>2 DEF Stores
    <3> DEFINE m == Learn(store[SessionOf(u)], found, prompt[u])
    <3>2. Extension(store[SessionOf(u)], m, found)
      BY LearnExtends
    <3>3. store' = [store EXCEPT ![SessionOf(u)] = m]
      BY <3>1
    <3> HIDE DEF m, s
    <3> QED BY <1>2, <3>2, <3>3 DEF Extension, s
  <2> QED BY <2>1, <2>2
<1>4. ASSUME NEW p \in DOMAIN Backward(store[s]) PROVE ~Occurs(p, answer[r])
  <2>1. p \in {store[s][k] : k \in DOMAIN store[s]}
    BY <1>4 DEF Backward
  <2>2. p \in {store'[s][k] : k \in DOMAIN store'[s]}
    BY <1>3, <2>1
  <2>3. p \in DOMAIN Backward(store[SessionOf(r)])'
    BY <1>1, <2>2 DEF Backward
  <2>4. ~Occurs(p, answer'[r])
    BY <2>3 DEF Plain
  <2> QED BY <2>4
<1> QED BY <1>4 DEF Plain

\* An answer without a pseudonym of its session is handed over as it is, each
\* character once and in its order, wherever the windows and holds cut it, however
\* the session's mapping grows meanwhile and whether the store answers or not --
\* as long as no window was blank (ReverseStream, and the response made of it).
THEOREM PlainAnswersKept == Spec => []PlainAnswerKept
<1>1. Init => PlainAnswerKept
  <2> SUFFICES ASSUME Init, NEW r \in Request PROVE Kept(r)
    BY DEF PlainAnswerKept, Kept
  <2>1. committed[r] = << >> /\ answer[r] = << >> /\ pc[r] = "new"
    BY DEF Init
  <2>2. Begins(<< >>, << >>)
    BY DEF Begins
  <2> QED BY <2>1, <2>2 DEF Kept
<1>2. IInv /\ PlainAnswerKept /\ [Next]_vars => PlainAnswerKept'
  <2> SUFFICES ASSUME IInv, PlainAnswerKept, [Next]_vars, NEW r \in Request,
                      Plain(r)', ~blanked'[r]
               PROVE  Kept(r)'
    BY DEF PlainAnswerKept, Kept
  <2>1. Plain(r) /\ ~blanked[r] => Kept(r)
    BY DEF PlainAnswerKept, Kept
  <2>2. CASE UNCHANGED vars
    <3>1. /\ store' = store /\ answer' = answer /\ pc' = pc /\ got' = got /\ pending' = pending
          /\ committed' = committed /\ blanked' = blanked /\ identity' = identity
      BY <2>2 DEF vars, request
    <3>2. SessionOf(r)' = SessionOf(r)
      BY <3>1 DEF SessionOf, Derive
    <3>3. Backward(store[SessionOf(r)])' = Backward(store[SessionOf(r)])
      BY <3>1, <3>2 DEF Backward
    <3>4. Plain(r)
      BY <3>1, <3>3 DEF Plain
    <3> QED BY <2>1, <3>1, <3>4 DEF Kept, Accumulated, Begins
  <2>3. ASSUME NEW u \in Request, Step(u) PROVE Kept(r)'
    <3>1. Only(u) /\ (store' = store \/ Stores(u))
      BY <2>3, Steps
    <3>2. CASE u # r
      <4>1. /\ pc'[r] = pc[r] /\ answer'[r] = answer[r] /\ got'[r] = got[r]
            /\ pending'[r] = pending[r] /\ committed'[r] = committed[r]
            /\ blanked'[r] = blanked[r]
        BY <3>1, <3>2 DEF Only, IInv, TypeOK
      <4>2. Plain(r)
        BY <3>1, <4>1, PlainBefore
      <4> QED BY <2>1, <4>1, <4>2 DEF Kept, Accumulated, Begins
    <3>3. CASE u = r /\ ModelAnswers(r)
      BY <2>3, <3>3, StepKeeps
    <3>4. CASE u = r /\ ~ModelAnswers(r)
      <4>1. answer' = answer /\ (blanked[r] => blanked'[r])
        BY <2>3, <3>4 DEF Step, PreCall, PreCallFails, Chunk, During, DuringUnavailable,
          AnswerRefused, PostCall, PostCallUnavailable, IInv, TypeOK
      <4>2. Plain(r)
        BY <3>1, <3>4, <4>1, PlainBefore
      <4> QED BY <2>1, <2>3, <3>4, <4>1, <4>2, StepKeeps
    <3> QED BY <3>2, <3>3, <3>4
  <2> QED BY <2>2, <2>3 DEF Next, AllOver
<1> QED BY <1>1, <1>2, AlwaysIInv, InitTyped, NextTyped, PTL DEF Spec
=============================================================================
